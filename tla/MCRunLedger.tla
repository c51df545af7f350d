----------------------------- MODULE MCRunLedger ------------------------------
EXTENDS RunLedger, TLC
CONSTANTS p1, p2
MCProcs == {p1, p2}
\* Processes are interchangeable.
MCSymmetry == Permutations(MCProcs)
=============================================================================
