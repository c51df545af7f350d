----------------------------- MODULE MCIbkrStore -----------------------------
(* Small instances of IbkrStore for TLC. *)
EXTENDS IbkrStore, FiniteSetsExt

CONSTANT MaxRows   \* bound on the callback rows of the whole plan

\* The callback table is unbounded in the code.
BoundedRows ==
    MapThenSumSet(LAMBDA a : Len(callbacks[a[1]][a[2]]), Requests \X Ordinals) =< MaxRows
=============================================================================
