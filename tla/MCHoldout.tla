------------------------------ MODULE MCHoldout -------------------------------
EXTENDS Holdout, TLC
CONSTANTS p1, p2, p3, p4, d1, d2
MCProcs == {p1, p2, p3, p4}
MCDests == {d1, d2}
\* Processes are interchangeable, and so are destinations.
MCSymmetry == Permutations(MCProcs) \cup Permutations(MCDests)
=============================================================================
