SPECIFICATION Spec
CONSTANTS
    t1 = t1
    t2 = t2
    Callers <- MCCallers
    Listener = Listener
    NumOps = 2
    Invalidates = TRUE
    WaitsForIdle = FALSE
    MaxSends = 1
    MaxBrowser = 1
SYMMETRY MCSymmetry
CHECK_DEADLOCK FALSE
INVARIANTS TypeOK OneOutstanding DispatchInOrder
