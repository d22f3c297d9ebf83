\* A game client and a chat client, and two arenas, one of them permanent; modules hold arenas
\* and may fail to detach.
CONSTANTS
    p1 = p1
    p2 = p2
    a1 = a1
    a2 = a2
    n1 = n1
    n2 = n2
    Players = {p1, p2}
    Chat = {p2}
    Arenas = {a1, a2}
    ArenaNames = {n1, n2}
    PermArenas = {a1}
    PermName <- MCPermName
    BrokenName = BrokenName
    UserNames = {u1}
    HasPersist = TRUE
    MaxHolds = 1
    Detachable = {a1}
    NoPlayer = NoPlayer
    NoArena = NoArena
    NoName = NoName

SPECIFICATION Spec
CONSTRAINT Small
INVARIANTS
    OccupiedArenasOpen
    PlacesAreKept
    HoldsAssertions
    ReplacementsWaitForOne
    NoDangling
    FreedPlayersAreSaved
PROPERTIES
    DocumentedTransitions
    KicksStick
    KeepsPromises
