SPECIFICATION Spec
CONSTANTS
    g = g
    o = o
    h = h
    Granted = g
    Other = o
    Home = h
    c1 = c1
    c2 = c2
    Copiers <- MCCopiers
    MaxMoves = 2
    MaxGrants = 1
    MaxFaults = 1
SYMMETRY MCSymmetry
CHECK_DEADLOCK FALSE
INVARIANTS CopyInGrant CopyAllOrNothing
PROPERTIES NothingReplaced
