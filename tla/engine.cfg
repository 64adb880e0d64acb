SPECIFICATION FairSpec
CONSTANTS
    NoName = NoName
    NoValue = NoValue
    NoUntil = NoUntil
    n1 = n1
    n2 = n2
    v1 = v1
    v2 = v2
    MaxClients = 2
    Names = {n1, n2}
    Volumes = {v1, v2}
    RunInputs <- MCRunInputs
    Selections <- MCSelections
    MaxIds = 2
    MaxLaunches = 2
    MaxCommands = 3
    Refs = {n1}
    MaxCrashes = 1
    Serial = TRUE
    Prompt = TRUE
INVARIANTS OneProcess NoOrphan AutoRemoveKept WaitTruth MountedVolumesExist
PROPERTY ExitRecorded
CHECK_DEADLOCK FALSE
