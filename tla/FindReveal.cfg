CONSTANTS
    p1 = p1
    p2 = p2
    p3 = p3
    p4 = p4
    d1 = d1
    d2 = d2
    Src = Src
    None = None
    Procs <- MCProcs
    Dests <- MCDests
    MixedRace = TRUE
SPECIFICATION Spec
SYMMETRY MCSymmetry
INVARIANT OutcomesReadOnce
CHECK_DEADLOCK FALSE
