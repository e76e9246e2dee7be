SPECIFICATION FairArgvSpec
CONSTANTS
    k1 = k1
    k2 = k2
    Leader = Leader
    Kids <- MCKids
    PipeSize = 2
    CaptureLimit = 1
    MaxBytes = 3
CHECK_DEADLOCK FALSE
INVARIANTS StoppedGroupGone SignalsOwnGroup
PROPERTIES StopEndsRun
