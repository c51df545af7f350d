------------------------------ MODULE PlanLedger ------------------------------
(***************************************************************************)
(* What the execution store of an IBKR historical plan promises, without   *)
(* attempts, callbacks, sessions or retries: a registered plan settles     *)
(* each of its requests once, and publishes each settled request once,     *)
(* under one result; the plan is published with its last request.          *)
(* IbkrStore implements this specification.                                *)
(***************************************************************************)
CONSTANTS
    Requests,   \* the requests of the plan
    Results,    \* results a request may be published under
    NoResult    \* not published yet

VARIABLES
    plan,      \* "ABSENT", "PENDING" or "PUBLISHED"
    outcome,   \* what each request came to
    result     \* the result each request is published under

vars == <<plan, outcome, result>>

Outcome == {"OPEN", "SUCCEEDED", "TERMINAL"}

Init ==
    /\ plan = "ABSENT"
    /\ outcome = [r \in Requests |-> "OPEN"]
    /\ result = [r \in Requests |-> NoResult]

Register ==
    /\ plan = "ABSENT"
    /\ plan' = "PENDING"
    /\ UNCHANGED <<outcome, result>>

\* Some open requests are settled, for good.
Settle ==
    /\ plan # "ABSENT"
    /\ \E o \in [Requests -> Outcome] :
         /\ \A r \in Requests : outcome[r] # "OPEN" => o[r] = outcome[r]
         /\ outcome' = o
    /\ UNCHANGED <<plan, result>>

\* Some settled requests are published; the first result stays.
Publish ==
    /\ plan # "ABSENT"
    /\ \E p \in [Requests -> Results \cup {NoResult}] :
         /\ \A r \in Requests :
              \/ p[r] = result[r]
              \/ result[r] = NoResult /\ outcome[r] # "OPEN"
         /\ result' = p
         /\ plan' = IF \E r \in Requests : p[r] = NoResult THEN plan ELSE "PUBLISHED"
    /\ UNCHANGED outcome

Next == Register \/ Settle \/ Publish

Spec == Init /\ [][Next]_vars
=============================================================================
