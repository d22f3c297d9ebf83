CONSTANTS
    Modules = {"mainloop", "config", "playerdata", "net", "arenaman", "mapdata", "core", "persist", "game", "fake", "directory", "mysql"}
    Workers = {w1}
    None = None
    MaxQueue = 1
    Conf <- ModulesConf
    Removable = {"game", "fake", "mysql", "directory", "mapdata"}
    Twice = FALSE
    MaxCommands = 2
SPECIFICATION FairSpec
INVARIANTS UnloadingIsSafe ShutDownIsClean
PROPERTY ServerEnds
CHECK_DEADLOCK FALSE
