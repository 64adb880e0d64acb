SPECIFICATION Spec
CONSTANTS
    NoName = NoName
    NoValue = NoValue
    NoUntil = NoUntil
    NoImage = NoImage
    Ambiguous = Ambiguous
    AnyId = "any"
    Digests = {"d1", "d2"}
    t1 = t1
    t2 = t2
    References = {t1, t2}
    VolumeNames = {"v", "w"}
    Contents <- MCContents
    Pulled <- MCPulled
    Kept <- MCKept
    Size <- MCSize
    ContainerFilters <- MCContainerFilters
    ImageFilters <- MCImageFilters
    VolumeFilters <- MCVolumeFilters
    None = None
    Invalid = Invalid
    Spelling <- MCSpelling
    ALL_CAPABILITY_NAMES = {"CAP_CHOWN", "CAP_KILL", "CAP_NET"}
    podman_default_capabilities = {"CAP_CHOWN", "CAP_KILL"}
    RlimitNames = {"nofile"}
    Infinity = 9
    Ceiling = 3
    MaxBytes = 7
    HostEnv <- MCHostEnv
    DefaultEnv <- MCDefaultEnv
    DefaultMounts = {"/", "/proc"}
    Passwd <- MCPasswd
    Group <- MCGroup
    Values <- MCValues
    SharesCurve <- MCSharesCurve
    Absent = {{}, {"io.bfq.weight"}, {"cpuset.cpus"}}
    ImageConfigs <- MCImageConfigs
    Healthchecks <- MCHealthchecks
    Processes <- MCProcesses
    MaxGiven = 2
    MaxChanges = 2
INVARIANTS AliasesAgree Confined MergedAsAsked DriversAgree
PROPERTIES DfForetells PrunesListed
CHECK_DEADLOCK FALSE
