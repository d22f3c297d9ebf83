\* Data about a player in all arenas, by intervals.
CONSTANTS
    p1 = p1
    p2 = p2
    a1 = a1
    a2 = a2
    public = public
    Global = Global
    None = None
    Players = {p1}
    Arenas = {a1}
    Group <- OneGroup
    PlayerData <- GlobalReset
    ArenaData <- NoData
    MayEnd <- GlobalEnds
    MaxPoints = 1
    MaxSerial = 1
    MaxQueue = 1

SPECIFICATION Spec
INVARIANTS
    StoredBeforeCleared
