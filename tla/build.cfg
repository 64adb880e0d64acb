SPECIFICATION Spec
CONSTANTS
    Names <- MCNames
    MaxLinks = 2
    Requests <- MCRequests
    Contexts <- MCContexts
    Registry <- MCRegistry
    Remote <- MCRemote
    HostEnv <- MCHostEnv
    HostsPath <- MCHostsPath
    ResolvPath <- MCResolvPath
    MaxBuilds = 2
    MaxEdits = 1
INVARIANTS CacheSound ImageRebuilds
CHECK_DEADLOCK FALSE
