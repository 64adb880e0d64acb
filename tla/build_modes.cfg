SPECIFICATION Spec
CONSTANTS
    Names <- MCNames
    MaxLinks = 2
    Requests <- CopyRequests
    Contexts <- ModeContexts
    Registry <- MCRegistry
    Remote <- MCRemote
    HostEnv <- MCHostEnv
    HostsPath <- MCHostsPath
    ResolvPath <- MCResolvPath
    MaxBuilds = 2
    MaxEdits = 1
INVARIANTS CacheExact
CHECK_DEADLOCK FALSE
