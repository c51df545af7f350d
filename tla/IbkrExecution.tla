---------------------------- MODULE IbkrExecution ----------------------------
(***************************************************************************)
(* One IBKR historical plan executed end to end: the command               *)
(* (__main__._execute_ibkr_historical_plan) that recovers and resumes it,  *)
(* IbkrHistoricalExecutor with one asyncio task per pending request, the   *)
(* official adapter that serialises provider requests, and the separate    *)
(* result-build command that publishes.  All of them meet in IbkrStore.    *)
(*                                                                         *)
(* One execution runs at a time (a PostgreSQL advisory lock); the          *)
(* publisher takes no such lock.  A step of a task ends at an await, and a *)
(* store call is one step.  Pacing delays are left to the scheduler.       *)
(*                                                                         *)
(* Clock readings are logical.  now advances when an attempt starts and    *)
(* when a disconnect handler reads the clock, because that reading is the  *)
(* only one other tasks can overtake before it is written; no other two    *)
(* readings are compared across such an event.                             *)
(***************************************************************************)
EXTENDS IbkrStore

CONSTANTS
    MaxInFlight,   \* maximum_in_flight_requests of the request profile
    Faults,        \* the faults a run allows: "timeout", "disconnect", "crash"
    MaxRuns,       \* bound: connections opened
    MaxCrashes,    \* bound: processes killed and connections refused
    MaxNotices,    \* bound: bars and informational errors per attempt
    NoOne,         \* no holder of the adapter's request lock
    NoArtifact     \* no published result directory

ASSUME ExecutionAssumption ==
    /\ ErrorCode \subseteq {"CONNECTION_LOST", "PACING_VIOLATION", "INFORMATIONAL", "ENTITLEMENT"}
    /\ FailureDisposition = {"ENTITLEMENT_UNAVAILABLE", "PROVIDER_REJECTED",
                             "INCOMPLETE_RESPONSE", "SESSION_EVIDENCE_UNAVAILABLE"}
    /\ {MaxInFlight, MaxRuns} \subseteq Nat \ {0}
    /\ {MaxCrashes, MaxNotices} \subseteq Nat
    /\ NoOne \notin Requests
    \* Every result the publisher can build has a hash, and a directory of
    \* results is not the absence of one.
    /\ [selected : 0 .. MaxAttempts, seen : [Ordinals -> 0 .. (MaxNotices + 2)]] \subseteq Results
    /\ NoArtifact \notin [Requests -> Results]

VARIABLES
    phase,      \* how far the execution command has come; "down" when none runs
    run,        \* the connection session of the current (or last) execution
    task,       \* where the asyncio task of each request is
    wire,       \* holder of the adapter's _request_lock
    cut,        \* clock reading a disconnect handler will write
    now,        \* the clock
    crashes,    \* processes killed and connections refused so far
    publisher,  \* "built" between the files and the database transaction
    artifact    \* the create-only result directory

execVars == <<phase, run, task, wire, cut, now, crashes>>
pubVars == <<publisher, artifact>>
vars == <<storeVars, execVars, pubVars>>

\* Task positions that hold a slot of the semaphore.
InSlot == {"ready", "waiting", "sent", "persisted", "answered", "terminal", "retryable",
           "incomplete", "invalidating"}
\* Positions inside asyncio.wait_for(request_historical).
Awaiting == {"waiting", "sent", "persisted"}

Init ==
    /\ StoreInit
    /\ phase = "down" /\ run = 0 /\ now = 0 /\ crashes = 0
    /\ task = [r \in Requests |-> "idle"]
    /\ wire = NoOne
    /\ cut = [r \in Requests |-> 0]
    /\ publisher = "idle" /\ artifact = NoArtifact

\* The attempt of r's own task: only this execution starts attempts.
Current(r) == request[r].attempt_count
LastPayload(r) == callbacks[r][Current(r)][Len(callbacks[r][Current(r)])].payload

----------------------------------------------------------------------------
(* The snapshot verifier (application/ibkr_results.py).                    *)

\* _validate_callback_closure: the stored eligibility of every row follows from
\* identities, the completion marker and the attempt's terminal time.
MarkerReplays(r, k, c) ==
    c.closure_eligible =
        (c.matches /\ (Started(r, k) \/ c.received_at =< attempt[r][k].terminal_at))

RowReplays(r, k, i) ==
    LET c == callbacks[r][k][i] IN
    c.closure_eligible =
        /\ c.matches
        /\ IF Markers(r, k) # {}
           THEN LET m == FirstMarker(r, k) IN
                i =< m /\ c.received_at =< callbacks[r][k][m].received_at
           ELSE Started(r, k) \/ c.received_at =< attempt[r][k].terminal_at

CallbackClosureReplays(r, k) ==
    /\ Cardinality(Markers(r, k)) =< 1
    /\ \A i \in DOMAIN callbacks[r][k] :
         /\ callbacks[r][k][i].payload.kind = "COMPLETION" =>
              MarkerReplays(r, k, callbacks[r][k][i])
         /\ RowReplays(r, k, i)
         /\ i > 1 => callbacks[r][k][i - 1].received_at =< callbacks[r][k][i].received_at

\* _validate_attempt_outcomes: a closed attempt with an eligible marker has the
\* status and disposition that its closure implies.
AttemptOutcomeReplays(r, k) ==
    LET a == attempt[r][k] IN
    a.status \notin {"NONE", "STARTED"} =>
        /\ a.status = "SUCCEEDED" => Markers(r, k) # {}
        /\ Markers(r, k) # {} =>
             CASE ClosureOutcome(r, k) = "PROVIDER_REJECTED" ->
                    a.status = "TERMINAL_FAILURE" /\ a.disposition = "PROVIDER_REJECTED"
               [] ClosureOutcome(r, k) = "INCOMPLETE" ->
                    a.status = "TERMINAL_FAILURE"
                    /\ a.disposition = "SESSION_EVIDENCE_UNAVAILABLE"
               [] OTHER -> a.status = "SUCCEEDED" /\ a.disposition = "SUCCEEDED"

ClosuresReplay == \A r \in Requests, k \in Ordinals : CallbackClosureReplays(r, k)
OutcomesReplay == \A r \in Requests, k \in Ordinals : AttemptOutcomeReplays(r, k)

\* _validate_attempt_sequence: attempts of a request do not overlap in time.
AttemptsInOrder ==
    \A r \in Requests, k \in Ordinals :
        k > 1 /\ attempt[r][k] # NoAttempt =>
            attempt[r][k - 1].terminal_at =< attempt[r][k].started_at

NothingStarted == \A r \in Requests, k \in Ordinals : ~Started(r, k)

\* verify_ibkr_historical_execution_snapshot.  Its checks of the request row
\* against the attempts are RequestMatchesAttempts.
SnapshotVerifies(allowStarted) ==
    /\ allowStarted \/ NothingStarted
    /\ AttemptsContiguous
    /\ RequestMatchesAttempts
    /\ ClosuresReplay
    /\ OutcomesReplay

----------------------------------------------------------------------------
(* The execution command.                                                  *)

\* The operator starts the command; it takes the advisory lock, reads the
\* snapshot and refuses to go on unless the snapshot verifies.
Launch ==
    /\ phase = "down" /\ run < MaxRuns
    /\ plan # "ABSENT"
    /\ SnapshotVerifies(TRUE)
    /\ phase' = "verified"
    /\ UNCHANGED <<storeVars, run, task, wire, cut, now, crashes, pubVars>>

\* Mutation of Recover: the clock is read long before the transaction.
RecoverStale ==
    /\ phase = "verified"
    /\ InvalidateAttempts(Nat, 0)
    /\ phase' = "recovered"
    /\ UNCHANGED <<run, task, wire, cut, now, crashes, pubVars>>

\* recover(): close every attempt that an earlier process left STARTED.
Recover ==
    /\ phase = "verified"
    /\ InvalidateAttempts(Nat, now)
    /\ phase' = "recovered"
    /\ UNCHANGED <<run, task, wire, cut, now, crashes, pubVars>>

Pending == {r \in Requests : request[r].status = "PENDING"}

\* execute_pending up to the task group: verify again, read the pending
\* requests, connect, reauthenticate the contracts, create one task each.
Connect ==
    /\ phase = "recovered"
    /\ SnapshotVerifies(FALSE)
    /\ Pending # {}
    /\ phase' = "running" /\ run' = run + 1
    /\ task' = [r \in Requests |-> IF r \in Pending THEN "queued" ELSE "idle"]
    /\ UNCHANGED <<storeVars, wire, cut, now, crashes, pubVars>>

\* The second verification fails, or nothing is pending: the command ends.
StopEarly ==
    /\ phase = "recovered"
    /\ ~SnapshotVerifies(FALSE) \/ Pending = {}
    /\ phase' = "down"
    /\ UNCHANGED <<storeVars, run, task, wire, cut, now, crashes, pubVars>>

\* The provider refuses the connection or a contract does not reauthenticate:
\* no attempt has been made in this session.
ConnectFails ==
    /\ phase = "recovered" /\ "crash" \in Faults /\ crashes < MaxCrashes
    /\ SnapshotVerifies(FALSE) /\ Pending # {}
    /\ phase' = "down" /\ crashes' = crashes + 1
    /\ UNCHANGED <<storeVars, run, task, wire, cut, now, pubVars>>

\* The process is killed between two transactions.
Crash ==
    /\ phase # "down" /\ "crash" \in Faults /\ crashes < MaxCrashes
    /\ phase' = "down" /\ crashes' = crashes + 1
    /\ task' = [r \in Requests |-> "idle"]
    /\ wire' = NoOne
    /\ cut' = [r \in Requests |-> 0]
    /\ UNCHANGED <<storeVars, run, now, pubVars>>

----------------------------------------------------------------------------
(* One request's task: _execute_request around request_historical.         *)

Move(r, position) == task' = [task EXCEPT ![r] = position]
Release(r) == wire' = IF wire = r THEN NoOne ELSE wire

\* The slot of a task that raised is not handed on: the task group cancels the
\* waiters before they get to run.
SlotFree == Cardinality({r \in Requests : task[r] \in InSlot \cup {"raised"}}) < MaxInFlight

\* Acquire the semaphore (first time), reserve pacing, persist the attempt.
StartRequest(r) ==
    /\ phase = "running"
    /\ task[r] = "ready" \/ (task[r] = "queued" /\ SlotFree)
    /\ IF CanStart(r)
       THEN StartAttempt(r, run, now) /\ Move(r, "waiting") /\ now' = now + 1
       ELSE /\ UNCHANGED <<storeVars, now>>
            /\ Move(r, IF request[r].status # "PENDING" THEN "done" ELSE "raised")
    /\ UNCHANGED <<phase, run, wire, cut, crashes, pubVars>>

\* Acquire _request_lock and send.  Only now does the provider know of it.
Send(r) ==
    /\ phase = "running" /\ task[r] = "waiting" /\ wire = NoOne
    /\ wire' = r
    /\ Move(r, "sent")
    /\ UNCHANGED <<storeVars, phase, run, cut, now, crashes, pubVars>>

\* Callbacks the provider can answer request r with, in the adapter's terms.
Answers(r) ==
    {p \in Payload : /\ p.kind = "SCHEDULE" => r \in ScheduleRequests
                     /\ p.kind \in {"MIDPOINT_BAR", "COMPLETION"} => r \notin ScheduleRequests}

Notice(p) == p.kind = "MIDPOINT_BAR" \/ p.code = "INFORMATIONAL"

\* A correlated callback of the current generation arrives and is persisted
\* before the adapter looks at it; others are dropped by
\* _next_correlated_callback.
Deliver(r, p) ==
    /\ phase = "running" /\ task[r] = "sent"
    /\ p \in Answers(r)
    /\ Notice(p) => Len(callbacks[r][Current(r)]) < MaxNotices
    /\ AppendCallback(r, Current(r), p, TRUE, now)
    /\ Move(r, "persisted")
    /\ UNCHANGED <<phase, run, wire, cut, now, crashes, pubVars>>

\* A bar, or an error that _raise_for_error lets pass: wait for the next one.
Continue(r) ==
    /\ phase = "running" /\ task[r] = "persisted" /\ Notice(LastPayload(r))
    /\ Move(r, "sent")
    /\ UNCHANGED <<storeVars, phase, run, wire, cut, now, crashes, pubVars>>

\* _collect_schedule persists a COMPLETION right after the SCHEDULE.
CompleteSchedule(r) ==
    /\ phase = "running" /\ task[r] = "persisted" /\ LastPayload(r).kind = "SCHEDULE"
    /\ AppendCallback(r, Current(r), [kind |-> "COMPLETION", code |-> "NONE"], TRUE, now)
    /\ UNCHANGED <<execVars, pubVars>>

\* request_historical returns.
Return(r) ==
    /\ phase = "running" /\ task[r] = "persisted" /\ LastPayload(r).kind = "COMPLETION"
    /\ Move(r, "answered")
    /\ Release(r)
    /\ UNCHANGED <<storeVars, phase, run, cut, now, crashes, pubVars>>

\* An exception that means disconnected: the handler reads the clock at once.
EnterDisconnect(r) ==
    /\ Move(r, "invalidating")
    /\ cut' = [cut EXCEPT ![r] = now]
    /\ now' = now + 1

\* _raise_for_error
RaiseError(r) ==
    /\ phase = "running" /\ task[r] = "persisted"
    /\ LastPayload(r).kind = "ERROR" /\ LastPayload(r).code # "INFORMATIONAL"
    /\ CASE LastPayload(r).code = "CONNECTION_LOST" -> EnterDisconnect(r)
         [] LastPayload(r).code = "PACING_VIOLATION" ->
                Move(r, "retryable") /\ UNCHANGED <<cut, now>>
         [] OTHER -> Move(r, "terminal") /\ UNCHANGED <<cut, now>>
    /\ Release(r)
    /\ UNCHANGED <<storeVars, phase, run, crashes, pubVars>>

\* A payload parser raises IbkrHistoricalIncomplete: nothing is persisted of
\* the callback, and request_historical turns it into a terminal failure.
Malformed(r) ==
    /\ phase = "running" /\ task[r] = "sent"
    /\ Move(r, "incomplete")
    /\ Release(r)
    /\ UNCHANGED <<storeVars, phase, run, cut, now, crashes, pubVars>>

\* Mutation of Timeout: only the wait for the lock is bounded.
TimeoutBeforeSend(r) ==
    /\ phase = "running" /\ "timeout" \in Faults
    /\ task[r] = "waiting"
    /\ Move(r, "retryable")
    /\ Release(r)
    /\ UNCHANGED <<storeVars, phase, run, cut, now, crashes, pubVars>>

\* asyncio.wait_for expires, also while the task waits for the lock and also
\* when the append it is waiting for has already committed.
Timeout(r) ==
    /\ phase = "running" /\ "timeout" \in Faults
    /\ task[r] \in Awaiting
    /\ Move(r, "retryable")
    /\ Release(r)
    /\ UNCHANGED <<storeVars, phase, run, cut, now, crashes, pubVars>>

\* A global connection error while the adapter waits for callbacks.
LoseConnection(r) ==
    /\ phase = "running" /\ "disconnect" \in Faults
    /\ task[r] = "sent"
    /\ EnterDisconnect(r)
    /\ Release(r)
    /\ UNCHANGED <<storeVars, phase, run, crashes, pubVars>>

\* The transport closes or the callback queue overflows: an exception that
\* _execute_request does not catch.
LoseIntegrity(r) ==
    /\ phase = "running" /\ "disconnect" \in Faults
    /\ task[r] = "sent"
    /\ Move(r, "raised")
    /\ Release(r)
    /\ UNCHANGED <<storeVars, phase, run, cut, now, crashes, pubVars>>

\* except IbkrHistoricalDisconnected: invalidate the session, then raise.
InvalidateSession(r) ==
    /\ phase = "running" /\ task[r] = "invalidating"
    /\ InvalidateAttempts({run}, cut[r])
    /\ Move(r, "raised")
    /\ cut' = [cut EXCEPT ![r] = 0]
    /\ UNCHANGED <<phase, run, wire, now, crashes, pubVars>>

\* Mutation of LoopOn: a retryable failure is not retried in this execution.
LoopOnce(r, status) == Move(r, "done")

\* The loop of _execute_request: another attempt while the request is PENDING.
LoopOn(r, status) == Move(r, IF status = "PENDING" THEN "ready" ELSE "done")

FailureOf(r) ==
    CASE task[r] = "terminal" -> "ENTITLEMENT_UNAVAILABLE"
      [] task[r] = "retryable" -> "PROVIDER_REJECTED"
      [] OTHER -> IF r \in ScheduleRequests
                  THEN "SESSION_EVIDENCE_UNAVAILABLE" ELSE "INCOMPLETE_RESPONSE"

\* fail_ibkr_historical_attempt; a no-op when a sibling already closed it.
FailRequest(r) ==
    /\ phase = "running" /\ task[r] \in {"terminal", "retryable", "incomplete"}
    /\ IF Started(r, Current(r))
       THEN FailAttempt(r, Current(r), FailureOf(r), task[r] = "retryable", now)
       ELSE UNCHANGED storeVars
    /\ LoopOn(r, request'[r].status)
    /\ UNCHANGED <<phase, run, wire, cut, now, crashes, pubVars>>

\* finalize_ibkr_historical_attempt; IbkrHistoricalIncomplete leads to a fail.
FinalizeRequest(r) ==
    /\ phase = "running" /\ task[r] = "answered"
    /\ IF Started(r, Current(r)) /\ ClosureOutcome(r, Current(r)) = "INCOMPLETE"
       THEN UNCHANGED storeVars /\ Move(r, "incomplete")
       ELSE /\ IF Started(r, Current(r)) THEN FinalizeAttempt(r, Current(r), now)
                                         ELSE UNCHANGED storeVars
            /\ LoopOn(r, request'[r].status)
    /\ UNCHANGED <<phase, run, wire, cut, now, crashes, pubVars>>

----------------------------------------------------------------------------
(* The end of an execution.                                                *)

\* A task raised: the task group cancels every other task at its await.
Abort ==
    /\ phase = "running" /\ \E r \in Requests : task[r] = "raised"
    /\ phase' = "closing"
    /\ task' = [r \in Requests |->
                  IF task[r] \in InSlot \cup {"queued"} THEN "cancelled" ELSE task[r]]
    /\ wire' = NoOne
    /\ cut' = [r \in Requests |-> 0]
    /\ UNCHANGED <<storeVars, run, now, crashes, pubVars>>

AllReturned ==
    /\ phase = "running" /\ \A r \in Requests : task[r] \in {"idle", "done"}
    /\ phase' = "closing"
    /\ UNCHANGED <<storeVars, run, task, wire, cut, now, crashes, pubVars>>

\* Mutation of CloseSession: the finally block only disconnects.
CloseSessionForgetful ==
    /\ phase = "closing"
    /\ phase' = "down"
    /\ task' = [r \in Requests |-> "idle"]
    /\ UNCHANGED <<storeVars, run, wire, cut, now, crashes, pubVars>>

\* finally: invalidate what this session left STARTED, then disconnect.
CloseSession ==
    /\ phase = "closing"
    /\ InvalidateAttempts({run}, now)
    /\ phase' = "down"
    /\ task' = [r \in Requests |-> "idle"]
    /\ UNCHANGED <<run, wire, cut, now, crashes, pubVars>>

----------------------------------------------------------------------------
(* result-build: a command of its own that does not take the lock.         *)

\* The request result (and its hash) is a function of the selected attempt and
\* of every callback of every attempt; rows are append-only once the request
\* is closed, so the lengths of the logs stand for their contents.
Evidence(r) ==
    [selected |-> request[r].selected, seen |-> [k \in Ordinals |-> Len(callbacks[r][k])]]

\* Mutation of BuildResult: requests may still be open.
BuildResultUnclosed ==
    /\ publisher = "idle" /\ plan # "ABSENT"
    /\ SnapshotVerifies(FALSE) /\ AttemptsInOrder
    /\ LET built == [r \in Requests |-> Evidence(r)] IN
       /\ artifact \in {NoArtifact, built}
       /\ artifact' = built
    /\ publisher' = "built"
    /\ UNCHANGED <<storeVars, execVars>>

\* Read one snapshot, derive every request result, create the result directory
\* or find it there with the same content.
BuildResult ==
    /\ publisher = "idle" /\ plan # "ABSENT"
    /\ \A r \in Requests : request[r].status \in ClosedStatus
    /\ SnapshotVerifies(FALSE) /\ AttemptsInOrder
    /\ LET built == [r \in Requests |-> Evidence(r)] IN
       /\ artifact \in {NoArtifact, built}
       /\ artifact' = built
    /\ publisher' = "built"
    /\ UNCHANGED <<storeVars, execVars>>

\* The verified request-to-result mapping is committed in one transaction.
MarkResult ==
    /\ publisher = "built"
    /\ MarkPublished(artifact)
    /\ publisher' = "idle"
    /\ UNCHANGED <<execVars, artifact>>

\* The command dies between the files and the transaction.
PublisherCrash ==
    /\ publisher = "built" /\ "crash" \in Faults
    /\ publisher' = "idle"
    /\ UNCHANGED <<storeVars, execVars, artifact>>

Register == RegisterPlan /\ UNCHANGED <<execVars, pubVars>>

----------------------------------------------------------------------------
CommandStep == Recover \/ Connect \/ StopEarly \/ Abort \/ AllReturned \/ CloseSession

TaskStep(r) ==
    \/ StartRequest(r) \/ Send(r)
    \/ Continue(r) \/ CompleteSchedule(r) \/ Return(r) \/ RaiseError(r)
    \/ InvalidateSession(r) \/ FailRequest(r) \/ FinalizeRequest(r)

FaultStep(r) == Malformed(r) \/ Timeout(r) \/ LoseConnection(r) \/ LoseIntegrity(r)

Next ==
    \/ Register \/ Launch \/ CommandStep
    \/ ConnectFails \/ Crash
    \/ \E r \in Requests : TaskStep(r) \/ FaultStep(r) \/ \E p \in Payload : Deliver(r, p)
    \/ BuildResult \/ MarkResult \/ PublisherCrash

Spec == Init /\ [][Next]_vars

\* The event loop runs every task that can run, and asyncio.wait_for cuts off
\* every provider call that does not return.  Nothing is assumed of the
\* provider, of the network, of the operator or of the publisher.
FairSpec ==
    /\ Spec
    /\ WF_vars(CommandStep)
    /\ \A r \in Requests : WF_vars(TaskStep(r)) /\ WF_vars(Timeout(r))

----------------------------------------------------------------------------
(* Correctness of an execution.                                            *)

\* A STARTED attempt always has someone who will close it: the task of the
\* current session that made it or that session's finally block, or, after a
\* crash, the next recovery.  In particular nothing is STARTED once recovery
\* has committed, and a command that ends normally leaves nothing STARTED.
NoOrphanAttempt ==
    \A r \in Requests, k \in Ordinals :
        Started(r, k) =>
            \/ /\ phase \in {"running", "closing"}
               /\ attempt[r][k].session = run
               /\ task[r] \notin {"idle", "queued", "ready", "done"}
            \/ phase \in {"down", "verified"} /\ crashes > 0

\* The database never names a result that the published files do not hold, and
\* building the result again from the database gives the published one: no
\* retry, crash or restart changes what it was derived from.  With several
\* requests in flight the second part does not hold: the task of a request
\* that a sibling's disconnect closed still appends its callbacks.
PublishedMatchesArtifact ==
    \A r \in Requests :
        /\ request[r].result # NoResult => artifact # NoArtifact /\ request[r].result = artifact[r]
        /\ artifact # NoArtifact => artifact[r] = Evidence(r)

\* An execution always comes to an end, whatever the provider does: no task
\* waits for ever for a slot, for the request lock or for an answer.
ExecutionEnds == phase # "down" ~> phase = "down"

\* One execution closes the whole plan, although the provider may never answer,
\* unless it crashes or a task raises (a lost connection or lost integrity).
RunClosesPlan ==
    phase = "running" ~> \/ \A r \in Requests : request[r].status \in ClosedStatus
                         \/ \E r \in Requests : task[r] = "raised"
                         \/ crashes > 0

\* Every state the program can leave behind passes the verifier it runs when it
\* is started again.
SnapshotAlwaysVerifies ==
    /\ SnapshotVerifies(TRUE)
    /\ phase = "recovered" => SnapshotVerifies(FALSE)
    /\ AttemptsInOrder
=============================================================================
