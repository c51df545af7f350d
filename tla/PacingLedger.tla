----------------------------- MODULE PacingLedger -----------------------------
(***************************************************************************)
(* The durable IBKR pacing ledger: PostgresAuditStore.reserve_ibkr_request *)
(* and its callers through IbkrPostgresPacing.reserve (the tasks of the    *)
(* historical executor, the canary, the capability probe).                 *)
(*                                                                         *)
(* A caller reads its clock first and enters the transaction later: the    *)
(* transactions are serialised by an advisory lock, but not in the order   *)
(* of their timestamps.  Every transaction also deletes old rows, which    *)
(* it does even when it refuses the reservation.                           *)
(***************************************************************************)
EXTENDS Integers, FiniteSets, FiniteSetsExt

CONSTANTS
    Callers,
    Requests,         \* [kind, contract, fingerprint, weight]
    Cooldown,         \* per caller: identical_request_cooldown_seconds
    ContractMax,      \* per caller: max_requests_per_contract_window
    RollingMax,       \* per caller: max_requests_per_rolling_window
    ContractWindow, RollingWindow, GlobalWindow,   \* 2 s, 600 s and 1 s
    GlobalMax,        \* 45
    MaxCooldown,      \* MAX_IBKR_HISTORICAL_COOLDOWN_SECONDS
    MaxLag,           \* bound: time from the clock reading to the transaction
    MaxTime,          \* bound: the clock
    MaxAdmitted       \* bound: reservations ever made

Kinds == {"historical", "BID_ASK", "contract"}

\* retention_cutoff
Retention(c) == Max({MaxCooldown, Cooldown[c], RollingWindow})

\* The policy's own ranges (IbkrHistoricalPacingPolicy.__post_init__).
PolicyIsValid ==
    \A c \in Callers :
        /\ Cooldown[c] \in 1 .. MaxCooldown
        /\ ContractMax[c] \in Nat \ {0} /\ RollingMax[c] \in Nat \ {0}

\* Every window ends within the retention even for a caller that is late.
ASSUME PacingAssumption ==
    /\ PolicyIsValid
    /\ MaxCooldown \in Nat /\ MaxLag \in Nat /\ MaxTime \in Nat
    /\ {ContractWindow, RollingWindow, GlobalWindow} \subseteq Nat \ {0}
    /\ GlobalMax \in Nat /\ IsFiniteSet(Callers)
    /\ \A c \in Callers : Cooldown[c] + MaxLag =< MaxCooldown
    /\ \A w \in {ContractWindow, RollingWindow, GlobalWindow} : w + MaxLag =< MaxCooldown

NoRequest == [kind |-> "none", contract |-> "none", fingerprint |-> "none", weight |-> 0]

ASSUME RequestAssumption ==
    /\ \A q \in Requests : q.kind \in Kinds /\ q.weight \in Nat
    /\ NoRequest \notin Requests

VARIABLES
    now,        \* the wall clock, in seconds
    rows,       \* ops.ibkr_request_pacing
    admitted,   \* every row ever inserted (history)
    asking,     \* per caller: the request it carries into the transaction
    stamp       \* per caller: requested_at

vars == <<now, rows, admitted, asking, stamp>>

Init ==
    /\ now = 0
    /\ rows = {} /\ admitted = {}
    /\ asking = [c \in Callers |-> NoRequest]
    /\ stamp = [c \in Callers |-> 0]

----------------------------------------------------------------------------
Weight(S) == MapThenSumSet(LAMBDA r : r.weight, S)

SameContract(r, q) == r.kind = q.kind /\ r.contract = q.contract
Identical(r, q) == SameContract(r, q) /\ r.fingerprint = q.fingerprint

\* The DELETE: what is left of the table for the rest of the transaction.
Kept(c) == {r \in rows : r.at >= stamp[c] - Retention(c)}

Since(S, cutoff) == {r \in S : r.at > cutoff}

\* Mutation of Duplicated: rows stamped later than this request are ignored.
DuplicatedBefore(c, q) ==
    \E r \in Since(Kept(c), stamp[c] - Cooldown[c]) : r.at =< stamp[c] /\ Identical(r, q)

\* The cooldown of identical requests, of every kind.
Duplicated(c, q) == \E r \in Since(Kept(c), stamp[c] - Cooldown[c]) : Identical(r, q)

\* Mutation of Fits: the weight of the request itself is left out.
FitsOffByOne(c, q) ==
    LET recent(w) == Since(Kept(c), stamp[c] - w)
        same == {r \in recent(ContractWindow) : SameContract(r, q)}
        historical == {r \in recent(RollingWindow) : r.kind = "historical"}
    IN  /\ Weight(recent(GlobalWindow)) + q.weight =< GlobalMax
        /\ q.kind \in {"historical", "BID_ASK"} =>
               Weight(same) + q.weight =< ContractMax[c]
        /\ q.kind = "historical" => Weight(historical) =< RollingMax[c]

\* The three weight limits.  No cutoff has an upper end: rows with a later
\* timestamp count too.
Fits(c, q) ==
    LET recent(w) == Since(Kept(c), stamp[c] - w)
        same == {r \in recent(ContractWindow) : SameContract(r, q)}
        historical == {r \in recent(RollingWindow) : r.kind = "historical"}
    IN  /\ Weight(recent(GlobalWindow)) + q.weight =< GlobalMax
        /\ q.kind \in {"historical", "BID_ASK"} =>
               Weight(same) + q.weight =< ContractMax[c]
        /\ q.kind = "historical" => Weight(historical) + q.weight =< RollingMax[c]

\* The row to insert.  It needs no reservation_id: the cooldown keeps two rows
\* from being equal.
Row(c, q) ==
    [at |-> stamp[c], kind |-> q.kind,
     contract |-> q.contract, fingerprint |-> q.fingerprint, weight |-> q.weight,
     caller |-> c]

----------------------------------------------------------------------------
\* IbkrPostgresPacing.reserve up to the transaction: the clock is read.
Ask(c, q) ==
    /\ asking[c] = NoRequest
    /\ asking' = [asking EXCEPT ![c] = q]
    /\ stamp' = [stamp EXCEPT ![c] = now]
    /\ UNCHANGED <<now, rows, admitted>>

\* The transaction inserts the reservation.
Reserve(c) ==
    LET q == asking[c]
    IN  /\ q # NoRequest
        /\ ~Duplicated(c, q) /\ Fits(c, q)
        /\ Cardinality(admitted) < MaxAdmitted
        /\ rows' = Kept(c) \cup {Row(c, q)}
        /\ admitted' = admitted \cup {Row(c, q)}
        /\ asking' = [asking EXCEPT ![c] = NoRequest]
        /\ stamp' = [stamp EXCEPT ![c] = 0]
        /\ UNCHANGED now

\* It refuses: the caller sleeps for retry_seconds and asks again, or gives up.
Refuse(c) ==
    LET q == asking[c]
    IN  /\ q # NoRequest
        /\ Duplicated(c, q) \/ ~Fits(c, q)
        /\ rows' = Kept(c)
        /\ asking' = [asking EXCEPT ![c] = NoRequest]
        /\ stamp' = [stamp EXCEPT ![c] = 0]
        /\ UNCHANGED <<now, admitted>>

\* Time passes, at most MaxLag between a clock reading and its transaction.
Tick ==
    /\ now < MaxTime
    /\ \A c \in Callers : asking[c] # NoRequest => now + 1 =< stamp[c] + MaxLag
    /\ now' = now + 1
    /\ UNCHANGED <<rows, admitted, asking, stamp>>

Next ==
    \/ \E c \in Callers : Reserve(c) \/ Refuse(c) \/ \E q \in Requests : Ask(c, q)
    \/ Tick

Spec == Init /\ [][Next]_vars

----------------------------------------------------------------------------
(* IbkrPacingPolicy.wait_seconds, the same rules as a pure function.       *)

\* The wait until the oldest row of a window leaves it.
WaitFor(S, w, t) == IF S = {} THEN w ELSE Min({r.at : r \in S}) + w - t

\* Mutation of WaitSeconds: a window still holds the row at its edge.
WaitSecondsInclusive(q, t, S, cooldown, contractMax, rollingMax) ==
    LET recent(w) == {r \in S : t - r.at =< w}
        same(w) == {r \in recent(w) : SameContract(r, q)}
        duplicate == {r \in same(cooldown) : r.fingerprint = q.fingerprint}
        historical == {r \in recent(RollingWindow) : r.kind = q.kind}
        over(T, max) == Weight(T) + q.weight > max
        waits == (IF over(recent(GlobalWindow), GlobalMax)
                  THEN {WaitFor(recent(GlobalWindow), GlobalWindow, t)} ELSE {})
            \cup (IF q.kind = "historical" /\ duplicate # {}
                  THEN {WaitFor(duplicate, cooldown, t)} ELSE {})
            \cup (IF q.kind \in {"historical", "BID_ASK"}
                        /\ over(same(ContractWindow), contractMax)
                  THEN {WaitFor(same(ContractWindow), ContractWindow, t)} ELSE {})
            \cup (IF q.kind = "historical" /\ over(historical, rollingMax)
                  THEN {WaitFor(historical, RollingWindow, t)} ELSE {})
    IN  Max({0} \cup waits)

WaitSeconds(q, t, S, cooldown, contractMax, rollingMax) ==
    LET recent(w) == {r \in S : t - r.at < w}
        same(w) == {r \in recent(w) : SameContract(r, q)}
        duplicate == {r \in same(cooldown) : r.fingerprint = q.fingerprint}
        historical == {r \in recent(RollingWindow) : r.kind = q.kind}
        over(T, max) == Weight(T) + q.weight > max
        waits == (IF over(recent(GlobalWindow), GlobalMax)
                  THEN {WaitFor(recent(GlobalWindow), GlobalWindow, t)} ELSE {})
            \cup (IF q.kind = "historical" /\ duplicate # {}
                  THEN {WaitFor(duplicate, cooldown, t)} ELSE {})
            \cup (IF q.kind \in {"historical", "BID_ASK"}
                        /\ over(same(ContractWindow), contractMax)
                  THEN {WaitFor(same(ContractWindow), ContractWindow, t)} ELSE {})
            \cup (IF q.kind = "historical" /\ over(historical, rollingMax)
                  THEN {WaitFor(historical, RollingWindow, t)} ELSE {})
    IN  Max({0} \cup waits)

----------------------------------------------------------------------------
\* Types; a row carries the stamp that its caller read from the clock.
PacingTypeOK ==
    /\ now \in 0 .. MaxTime
    /\ rows \subseteq admitted
    /\ \A r \in admitted :
           r.at \in 0 .. now /\ r.kind \in Kinds /\ r.caller \in Callers /\ r.weight \in Nat
    /\ asking \in [Callers -> Requests \cup {NoRequest}]
    /\ stamp \in [Callers -> Nat]
    /\ \A c \in Callers :
           asking[c] # NoRequest => stamp[c] \in 0 .. now /\ now =< stamp[c] + MaxLag

\* Two reservations of the same request are a cooldown apart (the shorter one,
\* when two profiles share the ledger), although the transactions are not in the
\* order of their timestamps and old rows were deleted.
CooldownKept ==
    \A r, s \in admitted :
        Identical(r, s) /\ r # s =>
            \E c \in {r.caller, s.caller} :
                s.at >= r.at + Cooldown[c] \/ r.at >= s.at + Cooldown[c]

\* No window of the ledger, wherever it starts, ever holds more than the most
\* liberal policy in use allows.
LimitsKept ==
    \A r \in admitted :
        LET window(w) == {s \in admitted : r.at =< s.at /\ s.at < r.at + w}
        IN  /\ Weight(window(GlobalWindow)) =< GlobalMax
            /\ r.kind \in {"historical", "BID_ASK"} =>
                   Weight({s \in window(ContractWindow) : SameContract(s, r)})
                       =< Max({ContractMax[c] : c \in Callers})
            /\ r.kind = "historical" =>
                   Weight({s \in window(RollingWindow) : s.kind = "historical"})
                       =< Max({RollingMax[c] : c \in Callers})

\* The pure policy and the SQL of the ledger decide alike on a historical
\* request: the wait is 0 exactly when the transaction would admit it.  And no
\* wait is too long: at any earlier time the request would still be refused.
\* That it is long enough is not said, and not so for weights above one, where
\* the oldest row need not free enough of a window.
PolicyMatchesLedger ==
    \A c \in Callers : LET q == asking[c] IN
        q # NoRequest /\ q.kind = "historical" =>
            LET wait(t) == WaitSeconds(q, t, rows, Cooldown[c], ContractMax[c], RollingMax[c])
            IN  /\ wait(stamp[c]) = 0 <=> ~Duplicated(c, q) /\ Fits(c, q)
                /\ \A d \in 1 .. wait(stamp[c]) - 1 : wait(stamp[c] + d) > 0
=============================================================================
