CONSTANTS
    p1 = p1
    p2 = p2
    p3 = p3
    p4 = p4
    d1 = d1
    d2 = d2
    Src = Src
    None = None
    Procs <- MCProcs
    Dests <- MCDests
    MixedRace = FALSE
SPECIFICATION Spec
SYMMETRY MCSymmetry
INVARIANTS OutcomesReadOnce OneOwner OpenedIsRecoverable TransferResumes
CHECK_DEADLOCK FALSE
