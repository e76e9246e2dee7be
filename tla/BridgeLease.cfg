SPECIFICATION FairSpec
CONSTANTS
    b1 = b1
    b2 = b2
    Bridges <- MCBridges
    Stale = 2
    Period = 1
    Lag = 0
    StartMax = 1
INVARIANTS
    TypeOK
    SoleLease
    LiveOwnerKept
    StoppedHasNoLease
PROPERTIES
    CrashedLeaseReclaimed
CHECK_DEADLOCK FALSE
