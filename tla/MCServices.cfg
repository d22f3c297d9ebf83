CONSTANTS
    a = a
    b = b
    f = f
    g = g
    NoPlayer = NoPlayer
    NoFile = NoFile
    Chosen = {"ssc", "text", "files", "record", "objects", "crowd", "turf", "turf2", "map", "limit", "tiles",
              "bricks", "cage", "config", "order", "peer", "count", "stats", "groups"}
    Keys <- MCKeys
    NoValue = NoValue
    Holders = {"arenaman", "game"}
    PeerZones = {"A", "B", "C"}
    Regions = {"red", "blue"}
    Players <- MCPlayers
    Configs <- MCConfigs
    TempFiles <- MCTempFiles
    Recordings <- MCRecordings
    Attrs = {"image", "time"}
    Values = {0, 1}
    Fids = {1}
    TurfFreqs = {0, 1}
SPECIFICATION Spec
INVARIANTS
    BillingAgrees
    
    RecordingsAgree
    
    
    MapIsAsDrawn
    BricksStand
    
    PeersAreCurrent
    ScoresAgree
    GroupsAreEarned
CHECK_DEADLOCK FALSE
