SPECIFICATION Spec
CONSTANTS
    p1 = p1
    p2 = p2
    None = None
    Procs <- MCProcs
    Configs = {"old", "new"}
    Plans = {1, 2}
    Requests = {1, 2}
    MaxReloads = 1
    MaxTime = 1
    MaxRuns = 3
SYMMETRY MCSymmetry
INVARIANTS PlansAreHeld RunsAreOwned CompletedIsAccounted
PROPERTY LedgerIsFinal
CHECK_DEADLOCK FALSE
