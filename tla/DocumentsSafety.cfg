SPECIFICATION Spec
CONSTANTS
    u1 = u1
    u2 = u2
    n1 = n1
    n2 = n2
    n3 = n3
    Callers <- MCCallers
    Paths <- MCPaths
    First = n1
    None = None
    FaultSites = {"replace", "replace_sync", "move", "move_sync", "commit", "undo", "crash"}
    MaxOps = 3
    MaxFaults = 1
    MaxSaves = 1
SYMMETRY MCSymmetry
CHECK_DEADLOCK FALSE
INVARIANTS TypeOK RowsDescribeFiles OneSuccessor
PROPERTY GenericWritesSpareActive
