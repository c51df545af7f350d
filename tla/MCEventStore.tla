----------------------------- MODULE MCEventStore -----------------------------
(* Small instances of EventStore for TLC.                                     *)
EXTENDS EventStore

CONSTANTS ingest, other, q, b, m1, m2, k, none

In(s, r, x) == [stream |-> s, raw |-> r, bar |-> x]

MCInputs == {In(q, m1, none), In(q, m2, none), In(b, NoRaw, k)}
=============================================================================
