SPECIFICATION Spec
CONSTANTS
    l1 = l1
    l2 = l2
    l3 = l3
    w1 = w1
    Launches = {l1, l2}
    Ws <- MCOneWorkspace
    CompatiblePairs <- MCOneMode
    None = None
    Stopper = Stopper
    Boot = Boot
    PoolSize = 2
    StopStates = {"starting", "ready", "stopping", "stopped", "failed"}
    FaultSites = {"build", "docker", "network", "files", "container"}
    MaxFaults = 2
    MaxStops = 1
    MaxCrashes = 1
INVARIANTS
    TypeOK
    OneActiveSession
    FailedMeansClean
    EgressWhileActive
    NoRetireUnderOwner
    StartingHasOwner
CHECK_DEADLOCK FALSE
