\* A player with data that is kept for ever and data of intervals moves between two arenas that
\* share its records, while the intervals of his and of the arenas' data end.
CONSTANTS
    p1 = p1
    p2 = p2
    a1 = a1
    a2 = a2
    public = public
    Global = Global
    None = None
    Players = {p1}
    Arenas = {a1, a2}
    Group <- OneGroup
    PlayerData <- Stats
    ArenaData <- Jackpot
    MayEnd <- ResetAndGame
    MaxPoints = 1
    MaxSerial = 1
    MaxQueue = 1

SPECIFICATION Spec
INVARIANTS
    PointsAreConserved
    DataIsCurrent
PROPERTIES
    EndedIntervalsAreFinal
