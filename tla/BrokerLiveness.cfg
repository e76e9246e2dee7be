SPECIFICATION FairSpec
CONSTANTS
    t1 = t1
    t2 = t2
    Callers <- MCCallers
    Listener = Listener
    NumOps = 1
    Invalidates = FALSE
    WaitsForIdle = TRUE
    MaxSends = 2
    MaxBrowser = 1
CHECK_DEADLOCK FALSE
PROPERTIES CancelTakesEffect
