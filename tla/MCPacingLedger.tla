---------------------------- MODULE MCPacingLedger ----------------------------
(* A small instance of PacingLedger for TLC: two callers with different       *)
(* policies, two contracts, the three kinds of request.                        *)
EXTENDS PacingLedger, TLC

CONSTANTS probe, executor, c1, c2, f, g, h

Request(kind, contract, fingerprint, weight) ==
    [kind |-> kind, contract |-> contract, fingerprint |-> fingerprint, weight |-> weight]

MCRequests ==
    {Request("historical", c1, f, 1), Request("historical", c1, g, 1),
     Request("historical", c2, h, 1), Request("BID_ASK", c2, h, 2),
     Request("contract", c1, h, 1)}

\* The two requests on c1 differ in their fingerprint only.
FingerprintSymmetry == Permutations({f, g})

MCCooldown == (probe :> 2 @@ executor :> 2)
MCContractMax == (probe :> 2 @@ executor :> 3)
MCRollingMax == (probe :> 1 @@ executor :> 2)
=============================================================================
