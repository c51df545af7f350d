--------------------------- MODULE MCIbkrExecution ---------------------------
(* Small instances of IbkrExecution for TLC. *)
EXTENDS IbkrExecution, TLC

\* Every result a run can build: at most MaxNotices notices, then at most a
\* deciding callback and its completion.
MCResults == [selected : 0 .. MaxAttempts, seen : [Ordinals -> 0 .. (MaxNotices + 2)]]
=============================================================================
