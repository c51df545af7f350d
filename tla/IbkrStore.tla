------------------------------ MODULE IbkrStore ------------------------------
(***************************************************************************)
(* The durable state machine of an IBKR historical plan:                   *)
(* PostgresIbkrHistoricalExecutionStore (adapters/postgres/                *)
(* ibkr_historical.py).  Every method of the store is one database         *)
(* transaction that locks the rows it changes, so every method is one      *)
(* action here.  The specification StoreSpec puts no constraint on who     *)
(* calls which method when: it is what the store promises to ANY callers,  *)
(* several executors included.                                             *)
(*                                                                         *)
(* One plan is modelled.  An attempt is named by its request and its       *)
(* ordinal; 0 stands for SQL NULL in selected_attempt_id.                  *)
(***************************************************************************)
EXTENDS Integers, Sequences, FiniteSets

CONSTANTS
    Requests,          \* the request_sha256 values of the plan
    ScheduleRequests,  \* those whose request_kind is SCHEDULE
    ErrorCode,         \* classes of provider error codes
    FailureDisposition,\* the dispositions a failed attempt is given
    MaxAttempts,       \* maximum_attempts = retry_count + 1 of the profile
    Sessions,          \* connection sessions (session id with its generation)
    Times,             \* clock readings
    Results,           \* result_sha256 values of request results
    NoResult           \* the NULL result_sha256 of an unpublished request

ASSUME StoreAssumption ==
    /\ ScheduleRequests \subseteq Requests
    /\ IsFiniteSet(Requests)
    /\ "PROVIDER_REJECTED" \in FailureDisposition
    /\ FailureDisposition \cap {"NONE", "SUCCEEDED"} = {}
    /\ MaxAttempts \in Nat \ {0}
    /\ Sessions \subseteq Nat
    /\ Times \subseteq Nat
    /\ NoResult \notin Results

VARIABLES
    plan,       \* publication_status of the plan row; "ABSENT" before it exists
    request,    \* ops.ibkr_historical_requests
    attempt,    \* ops.ibkr_historical_attempts
    callbacks   \* ops.ibkr_historical_callbacks, with the completion markers

storeVars == <<plan, request, attempt, callbacks>>

Ordinals == 1 .. MaxAttempts

RequestStatus == {"PENDING", "IN_FLIGHT", "SUCCEEDED", "TERMINAL"}
ClosedStatus == {"SUCCEEDED", "TERMINAL"}
AttemptStatus ==
    {"STARTED", "SUCCEEDED", "RETRYABLE_FAILURE", "INVALIDATED", "TERMINAL_FAILURE"}

Disposition == FailureDisposition \cup {"NONE", "SUCCEEDED", "RETRY_LIMIT_EXHAUSTED"}

CallbackKind == {"MIDPOINT_BAR", "SCHEDULE", "COMPLETION", "ERROR"}

\* What a provider callback says: an error also carries its code.
Payload ==
    [kind : CallbackKind \ {"ERROR"}, code : {"NONE"}] \cup [kind : {"ERROR"}, code : ErrorCode]

\* A row of the callback table.  matches: the callback's session, generation
\* and provider request id are those of the attempt it is filed under.  A
\* COMPLETION row stands for the callback and for its completion marker, which
\* one transaction writes with the same identity, eligibility and time.
CallbackRow ==
    [payload : Payload, matches : BOOLEAN, closure_eligible : BOOLEAN, received_at : Nat]

AttemptRow ==
    [status : AttemptStatus, disposition : Disposition, session : Nat,
     started_at : Nat, terminal_at : Nat]

NoAttempt ==
    [status |-> "NONE", disposition |-> "NONE", session |-> 0,
     started_at |-> 0, terminal_at |-> 0]

\* Types of the three tables; the retry counter stays within maximum_attempts.
StoreTypeOK ==
    /\ plan \in {"ABSENT", "PENDING", "PUBLISHED"}
    /\ request \in [Requests -> [status : RequestStatus, attempt_count : 0 .. MaxAttempts,
                                 selected : 0 .. MaxAttempts, result : Results \cup {NoResult}]]
    /\ attempt \in [Requests -> [Ordinals -> AttemptRow \cup {NoAttempt}]]
    /\ callbacks \in [Requests -> [Ordinals -> Seq(CallbackRow)]]

StoreInit ==
    /\ plan = "ABSENT"
    /\ request = [r \in Requests |-> [status |-> "PENDING", attempt_count |-> 0,
                                      selected |-> 0, result |-> NoResult]]
    /\ attempt = [r \in Requests |-> [k \in Ordinals |-> NoAttempt]]
    /\ callbacks = [r \in Requests |-> [k \in Ordinals |-> <<>>]]

----------------------------------------------------------------------------
(* What a transaction reads.                                               *)

Started(r, k) == attempt[r][k].status = "STARTED"

\* The rows that can enter a closure: eligible ones.
IsMarker(c) == c.closure_eligible /\ c.payload.kind = "COMPLETION"
Markers(r, k) == {i \in DOMAIN callbacks[r][k] : IsMarker(callbacks[r][k][i])}

\* ORDER BY sequence LIMIT 1
FirstMarker(r, k) == CHOOSE i \in Markers(r, k) : \A j \in Markers(r, k) : i =< j

EligibleBefore(r, k, n, kind) ==
    {i \in DOMAIN callbacks[r][k] :
        i < n /\ callbacks[r][k][i].closure_eligible
              /\ callbacks[r][k][i].payload.kind = kind}

\* The outcome a completed attempt deserves; "INCOMPLETE" is the exception
\* IbkrHistoricalIncomplete.
ClosureOutcome(r, k) ==
    IF Markers(r, k) = {} THEN "INCOMPLETE"
    ELSE LET n == FirstMarker(r, k) IN
         IF EligibleBefore(r, k, n, "ERROR") # {} THEN "PROVIDER_REJECTED"
         ELSE IF r \in ScheduleRequests /\ EligibleBefore(r, k, n, "SCHEDULE") = {}
              THEN "INCOMPLETE"
              ELSE "SUCCEEDED"

NotBefore(t, lower) == IF t < lower THEN lower ELSE t

\* An attempt row closed at time t.
CloseRow(row, status, disposition, t) ==
    [row EXCEPT !.status = status, !.disposition = disposition,
                !.terminal_at = NotBefore(t, row.started_at)]

\* _finalize_attempt_locked, when its outcome is not INCOMPLETE.
FinalizedRow(r, k, t) ==
    IF ClosureOutcome(r, k) = "SUCCEEDED"
    THEN CloseRow(attempt[r][k], "SUCCEEDED", "SUCCEEDED", t)
    ELSE CloseRow(attempt[r][k], "TERMINAL_FAILURE", "PROVIDER_REJECTED", t)

\* Mutation of InvalidatedRow: the exhaustion test is off by one.
InvalidatedRowOffByOne(r, k, t) ==
    IF k > MaxAttempts
    THEN CloseRow(attempt[r][k], "TERMINAL_FAILURE", "RETRY_LIMIT_EXHAUSTED", t)
    ELSE CloseRow(attempt[r][k], "INVALIDATED", "NONE", t)

\* _invalidate_attempt_locked
InvalidatedRow(r, k, t) ==
    IF k >= MaxAttempts
    THEN CloseRow(attempt[r][k], "TERMINAL_FAILURE", "RETRY_LIMIT_EXHAUSTED", t)
    ELSE CloseRow(attempt[r][k], "INVALIDATED", "NONE", t)

\* Finalize, and on IbkrHistoricalIncomplete invalidate: recovery and disconnect.
SettledRow(r, k, t) ==
    IF ClosureOutcome(r, k) = "INCOMPLETE"
    THEN InvalidatedRow(r, k, t) ELSE FinalizedRow(r, k, t)

FailedRow(r, k, disposition, retryable, t) ==
    IF retryable /\ k < MaxAttempts
    THEN CloseRow(attempt[r][k], "RETRYABLE_FAILURE", disposition, t)
    ELSE CloseRow(attempt[r][k], "TERMINAL_FAILURE",
                  IF retryable THEN "RETRY_LIMIT_EXHAUSTED" ELSE disposition, t)

\* Mutation of RequestAfter: a retryable outcome forgets to reset the request.
RequestAfterNoReset(r, k, row) ==
    CASE row.status = "SUCCEEDED" ->
            [request[r] EXCEPT !.status = "SUCCEEDED", !.selected = k]
      [] row.status = "TERMINAL_FAILURE" ->
            [request[r] EXCEPT !.status = "TERMINAL", !.selected = k]
      [] OTHER -> request[r]

\* The request row after its attempt k was closed as row: selected_attempt_id
\* changes only when the request itself closes.
RequestAfter(r, k, row) ==
    CASE row.status = "SUCCEEDED" ->
            [request[r] EXCEPT !.status = "SUCCEEDED", !.selected = k]
      [] row.status = "TERMINAL_FAILURE" ->
            [request[r] EXCEPT !.status = "TERMINAL", !.selected = k]
      [] OTHER -> [request[r] EXCEPT !.status = "PENDING"]

----------------------------------------------------------------------------
(* The transactions.                                                       *)

\* register_ibkr_historical_plan.  Registering the same bytes again changes
\* nothing, and other bytes under the same hash are an error.
RegisterPlan ==
    /\ plan = "ABSENT"
    /\ plan' = "PENDING"
    /\ UNCHANGED <<request, attempt, callbacks>>

\* start_ibkr_historical_attempt when it creates an attempt.  It returns None
\* for a request that is not PENDING and raises beyond the retry budget.
CanStart(r) ==
    /\ plan # "ABSENT"
    /\ request[r].status = "PENDING"
    /\ request[r].attempt_count + 1 =< MaxAttempts

StartAttempt(r, session, t) ==
    /\ CanStart(r)
    /\ LET k == request[r].attempt_count + 1 IN
       /\ attempt' = [attempt EXCEPT ![r][k] =
                        [status |-> "STARTED", disposition |-> "NONE", session |-> session,
                         started_at |-> t, terminal_at |-> 0]]
       /\ request' = [request EXCEPT ![r].status = "IN_FLIGHT", ![r].attempt_count = k]
    /\ UNCHANGED <<plan, callbacks>>

\* Mutation of AppendCallback: the transport identity is not compared.
AppendCallbackUnfenced(r, k, payload, matches, t) ==
    /\ attempt[r][k] # NoAttempt
    /\ callbacks' = [callbacks EXCEPT ![r][k] = Append(@,
                        [payload |-> payload, matches |-> matches,
                         closure_eligible |-> Started(r, k), received_at |-> t])]
    /\ UNCHANGED <<plan, request, attempt>>

\* append_ibkr_historical_callback: always stored, eligible only while the
\* attempt is STARTED and the transport identity is the attempt's own.
AppendCallback(r, k, payload, matches, t) ==
    /\ attempt[r][k] # NoAttempt
    /\ callbacks' = [callbacks EXCEPT ![r][k] = Append(@,
                        [payload |-> payload, matches |-> matches,
                         closure_eligible |-> Started(r, k) /\ matches,
                         received_at |-> t])]
    /\ UNCHANGED <<plan, request, attempt>>

\* Write back one closed attempt and its request.
CloseAttempt(r, k, row) ==
    /\ attempt' = [attempt EXCEPT ![r][k] = row]
    /\ request' = [request EXCEPT ![r] = RequestAfter(r, k, row)]
    /\ UNCHANGED <<plan, callbacks>>

\* Mutation of FinalizeAttempt: the attempt is not checked to be STARTED.
FinalizeAttemptLate(r, k, t) ==
    /\ attempt[r][k] # NoAttempt
    /\ ClosureOutcome(r, k) # "INCOMPLETE"
    /\ CloseAttempt(r, k, FinalizedRow(r, k, t))

\* finalize_ibkr_historical_attempt on a STARTED attempt with a valid closure.
FinalizeAttempt(r, k, t) ==
    /\ Started(r, k)
    /\ ClosureOutcome(r, k) # "INCOMPLETE"
    /\ CloseAttempt(r, k, FinalizedRow(r, k, t))

\* fail_ibkr_historical_attempt on a STARTED attempt.
FailAttempt(r, k, disposition, retryable, t) ==
    /\ Started(r, k)
    /\ CloseAttempt(r, k, FailedRow(r, k, disposition, retryable, t))

\* The STARTED attempts of r that belong to one of the sessions S.
Unfinished(r, S) == {k \in Ordinals : Started(r, k) /\ attempt[r][k].session \in S}

\* invalidate_ibkr_historical_attempts (S = {session}) and
\* recover_ibkr_historical_execution (S = every session): one transaction over
\* all unfinished attempts, in ordinal order, so the last one decides the row.
InvalidateAttempts(S, t) ==
    /\ attempt' = [r \in Requests |-> [k \in Ordinals |->
                     IF k \in Unfinished(r, S) THEN SettledRow(r, k, t) ELSE attempt[r][k]]]
    /\ request' = [r \in Requests |->
                     IF Unfinished(r, S) = {} THEN request[r]
                     ELSE LET k == CHOOSE k \in Unfinished(r, S) :
                                      \A j \in Unfinished(r, S) : j =< k
                          IN RequestAfter(r, k, SettledRow(r, k, t))]
    /\ UNCHANGED <<plan, callbacks>>

\* The row checks of mark_ibkr_historical_requests_published.
Publishable(r, result) ==
    LET q == request[r]
        s == attempt[r][q.selected]
    IN /\ q.status \in ClosedStatus
       /\ q.selected \in Ordinals
       /\ q.status = "SUCCEEDED" => s.status = "SUCCEEDED" /\ s.disposition = "SUCCEEDED"
       /\ q.status = "TERMINAL" => /\ s.status = "TERMINAL_FAILURE"
                                   /\ s.disposition \notin {"NONE", "SUCCEEDED"}
       /\ q.result # NoResult => q.result = result

\* Mutation of MarkPublished: the states of the requests are not looked at.
MarkPublishedUnchecked(results) ==
    /\ plan # "ABSENT"
    /\ request' = [r \in Requests |->
                     IF r \in DOMAIN results /\ request[r].result = NoResult
                     THEN [request[r] EXCEPT !.result = results[r]] ELSE request[r]]
    /\ plan' = IF \E r \in Requests : request'[r].result = NoResult THEN plan ELSE "PUBLISHED"
    /\ UNCHANGED <<attempt, callbacks>>

\* mark_ibkr_historical_requests_published: all or nothing.  A request that is
\* already published keeps its row; the plan row follows when none is left.
MarkPublished(results) ==
    /\ plan # "ABSENT"
    /\ \A r \in DOMAIN results : Publishable(r, results[r])
    /\ request' = [r \in Requests |->
                     IF r \in DOMAIN results /\ request[r].result = NoResult
                     THEN [request[r] EXCEPT !.result = results[r]] ELSE request[r]]
    /\ plan' = IF \E r \in Requests : request'[r].result = NoResult THEN plan ELSE "PUBLISHED"
    /\ UNCHANGED <<attempt, callbacks>>

----------------------------------------------------------------------------
(* Any callers.                                                            *)

StoreNext ==
    \/ RegisterPlan
    \/ \E r \in Requests, s \in Sessions, t \in Times : StartAttempt(r, s, t)
    \/ \E r \in Requests, k \in Ordinals, p \in Payload, m \in BOOLEAN, t \in Times :
            AppendCallback(r, k, p, m, t)
    \/ \E r \in Requests, k \in Ordinals, t \in Times : FinalizeAttempt(r, k, t)
    \/ \E r \in Requests, k \in Ordinals, d \in FailureDisposition, b \in BOOLEAN, t \in Times :
            FailAttempt(r, k, d, b, t)
    \/ \E s \in Sessions, t \in Times : InvalidateAttempts({s}, t)
    \/ \E t \in Times : InvalidateAttempts(Nat, t)
    \/ \E R \in SUBSET Requests : R # {} /\ \E results \in [R -> Results] : MarkPublished(results)

StoreSpec == StoreInit /\ [][StoreNext]_storeVars

----------------------------------------------------------------------------
(* Correctness of the store.                                               *)

RetriedStatus == {"RETRYABLE_FAILURE", "INVALIDATED"}

\* The attempts of a request are exactly the ordinals 1 .. attempt_count: no
\* transaction skips, reuses or overwrites an ordinal (the closure that
\* verify_ibkr_historical_execution_snapshot recomputes).
AttemptsContiguous ==
    \A r \in Requests, k \in Ordinals :
        (attempt[r][k] # NoAttempt) <=> (k =< request[r].attempt_count)

\* The request row and its attempts tell the same story after every
\* transaction: what the snapshot verifier requires of a PENDING, IN_FLIGHT,
\* SUCCEEDED and TERMINAL request before an execution may resume.
RequestMatchesAttempts ==
    \A r \in Requests :
        LET q == request[r]
            n == q.attempt_count
        IN /\ \A k \in 1 .. (n - 1) : attempt[r][k].status \in RetriedStatus
           /\ q.status = "PENDING" =>
                /\ q.selected = 0
                /\ n > 0 => attempt[r][n].status \in RetriedStatus
           /\ q.status = "IN_FLIGHT" =>
                /\ q.selected = 0
                /\ n > 0 /\ attempt[r][n].status = "STARTED"
           /\ q.status = "SUCCEEDED" =>
                /\ n > 0 /\ q.selected = n
                /\ attempt[r][n].status = "SUCCEEDED"
                /\ attempt[r][n].disposition = "SUCCEEDED"
           /\ q.status = "TERMINAL" =>
                /\ n > 0 /\ q.selected = n
                /\ attempt[r][n].status = "TERMINAL_FAILURE"
                /\ attempt[r][n].disposition \notin {"NONE", "SUCCEEDED"}

\* A PENDING request always has retry budget left, so the RuntimeError
\* "exceeded its retry budget" of start_ibkr_historical_attempt is unreachable
\* and no request is left waiting for an attempt that can never be made.
PendingHasBudget ==
    \A r \in Requests : request[r].status = "PENDING" => request[r].attempt_count < MaxAttempts

\* A successful attempt keeps a successful closure whatever is appended to it
\* later: stale or late callbacks cannot enter it, and every row that counts
\* came over the attempt's own transport identity.
SuccessIsJustified ==
    \A r \in Requests, k \in Ordinals :
        attempt[r][k].status = "SUCCEEDED" =>
            /\ ClosureOutcome(r, k) = "SUCCEEDED"
            /\ \A i \in DOMAIN callbacks[r][k] :
                 callbacks[r][k][i].closure_eligible => callbacks[r][k][i].matches

\* Only closed requests are published, and the plan row is PUBLISHED exactly
\* when every request row is.
PublicationIsClosed ==
    /\ \A r \in Requests :
         request[r].result # NoResult => request[r].status \in ClosedStatus
    /\ plan = "PUBLISHED" => \A r \in Requests : request[r].result # NoResult

\* A completed planned request is never rerun and published evidence never
\* changes: a closed request keeps its status, its selected attempt and its
\* attempt count; a result is written once; a closed attempt row is immutable;
\* callbacks are append-only.
HistoryIsImmutable ==
    [][ /\ \A r \in Requests :
             /\ request[r].status \in ClosedStatus =>
                  /\ request'[r].status = request[r].status
                  /\ request'[r].selected = request[r].selected
                  /\ request'[r].attempt_count = request[r].attempt_count
             /\ request[r].result # NoResult => request'[r].result = request[r].result
        /\ \A r \in Requests, k \in Ordinals :
             /\ attempt[r][k].status \notin {"NONE", "STARTED"} =>
                  attempt'[r][k] = attempt[r][k]
             /\ Len(callbacks[r][k]) =< Len(callbacks'[r][k])
             /\ \A i \in DOMAIN callbacks[r][k] : callbacks'[r][k][i] = callbacks[r][k][i]
      ]_storeVars

\* The columns a reader of the plan sees.
Ledger == INSTANCE PlanLedger WITH
    outcome <- [r \in Requests |->
                  IF request[r].status \in ClosedStatus THEN request[r].status ELSE "OPEN"],
    result  <- [r \in Requests |-> request[r].result]

\* Whatever attempts, retries, invalidations and recoveries its callers make,
\* the store is a plan ledger: a request is settled once and never reopened,
\* nothing is settled before the plan is registered, only settled requests are
\* published, under one result, and the plan is published with the last of
\* them (mark_ibkr_historical_requests_published).
ImplementsLedger == Ledger!Spec

\* The inductive invariant behind the ones above.
StoreInv ==
    /\ StoreTypeOK
    /\ AttemptsContiguous
    /\ RequestMatchesAttempts
    /\ PendingHasBudget
    /\ PublicationIsClosed
=============================================================================
