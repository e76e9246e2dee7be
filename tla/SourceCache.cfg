SPECIFICATION Spec
CONSTANTS
    l1 = l1
    l2 = l2
    l3 = l3
    Launches <- MCThree
    None = None
    Seeds = {"empty", "sealed", "legacy"}
    MaxTampers = 2
    MaxCrashes = 1
SYMMETRY MCSymmetry
CHECK_DEADLOCK FALSE
INVARIANTS WorkspaceIsCommit FailureHasCause NothingLeftBehind
