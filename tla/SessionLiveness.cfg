SPECIFICATION MCFairSpec
CONSTANTS
    l1 = l1
    l2 = l2
    l3 = l3
    w1 = w1
    Launches = {l1, l2, l3}
    Ws <- MCOneWorkspace
    CompatiblePairs <- MCAllCompatible
    None = None
    Stopper = Stopper
    Boot = Boot
    PoolSize = 2
    StopStates = {"starting"}
    FaultSites = {"docker", "files"}
    MaxFaults = 1
    MaxStops = 1
    MaxCrashes = 0
PROPERTIES
    OwnersLeave
    LaunchesSettle
CHECK_DEADLOCK FALSE
