CONSTANTS
    a = a
    b = b
    robot = robot
    Chosen = {"teams", "locks", "war", "turf", "balls", "few", "steal", "halves", "count", "koth", "owners"}
    Humans <- MCHumans
    Fakes <- MCFakes
    Staff <- MCStaff
    SHIP_SPEC = 2
    SpecFreq = 9
    Flags <- MCFlags
    Configs <- MCConfigs
    Interleaved = FALSE
    NoPlayer = NoPlayer
    NoTeam = NoTeam
    MaxQueue = 1
    MaxBalls = 2
    MaxFreq = 4
SPECIFICATION Spec

INVARIANTS
    FreqListsAgree
    TeamPointersAlive
    WatchersCounted
    FlagsAgree
    TheyAreHere
    PointsAreTransferred
