----------------------------- MODULE MCIngestion ------------------------------
(* Small instances of Ingestion for TLC.                                      *)
EXTENDS Ingestion

Both(t, bt, p, at, a, h) ==
    [time |-> t, bid |-> p, ask |-> a, bidTime |-> bt, askTime |-> at, healthy |-> h]
OneSided(t, p) == Both(t, t, p, t, NoPrice, TRUE)

\* Bids of two prices in two intervals: late ones, and ties that differ.
MCBids == {OneSided(t, p) : t \in {1, 3}, p \in {1, 2}}

\* Two-sided quotes, one with a side that is too old for a midpoint.
MCSides == {Both(1, 1, 1, 0, 3, TRUE), Both(3, 0, 1, 3, 3, TRUE), Both(2, 2, 2, 2, 3, FALSE),
            OneSided(0, 1), OneSided(4, 2)}

MCQuotes == MCBids \cup MCSides
=============================================================================
