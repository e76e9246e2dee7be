SPECIFICATION Spec
CONSTANTS
    l1 = l1
    l2 = l2
    l3 = l3
    w1 = w1
    Launches = {l1, l2}
    Ws <- MCOneWorkspace
    CompatiblePairs <- MCOneMode
    None = None
    Stopper = Stopper
    Boot = Boot
    PoolSize = 2
    StopStates = {"starting", "ready", "stopping", "stopped", "failed"}
    FaultSites = {"build", "docker", "network", "files", "container"}
    MaxFaults = 1
    MaxStops = 1
    MaxCrashes = 1
PROPERTIES
    ImplementsService
CHECK_DEADLOCK FALSE
