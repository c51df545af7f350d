------------------------------ MODULE RunLedger -------------------------------
(***************************************************************************)
(* The run rows (ops.runs) and backfill plans (ops.backfill_plans) of the  *)
(* operational database, and the commands that share them: IG ingestion    *)
(* with its universe reloads, the two backfill executors, and the reviewed *)
(* reconciliation of runs that nobody finished (__main__.py over           *)
(* PostgresAuditStore).  Every method of the store is one transaction and  *)
(* one action; a process may die between any two of them.                  *)
(*                                                                         *)
(* A run id is its position in the sequence run.  Hashes and plan contents *)
(* are taken to match; the quota rows, which nothing reads, are left out.  *)
(***************************************************************************)
EXTENDS Integers, Sequences, FiniteSets

CONSTANTS
    Procs,        \* processes, one command each
    Configs,      \* universe configuration hashes
    Plans,        \* backfill plans, 1 .. n in the order of the plan set
    Requests,     \* provider requests of a plan, 1 .. n
    MaxReloads,   \* reloads of one ingestion process
    MaxTime,      \* last clock reading
    MaxRuns,      \* rows of ops.runs
    None          \* no value

ASSUME RunLedgerAssumption ==
    /\ Plans = 1 .. Cardinality(Plans) /\ IsFiniteSet(Plans)
    /\ Requests = 1 .. Cardinality(Requests) /\ IsFiniteSet(Requests) /\ Requests # {}
    /\ None \notin {"ingest", "single", "set", "DATA", "EMPTY"}
    /\ MaxReloads \in Nat /\ MaxTime \in Nat /\ MaxRuns \in Nat

VARIABLES
    run,      \* ops.runs
    plan,     \* status of each backfill plan
    covered,  \* what its coverage rows say: None, "DATA" or "EMPTY"
    usage,    \* ops.historical_request_usage
    proc,     \* what each process is doing
    review,   \* the reviewed reconciliation plan
    now,      \* clock
    lost      \* history: runs and plans whose process can no longer close them

vars == <<run, plan, covered, usage, proc, review, now, lost>>

Idle == [op |-> None, pc |-> "idle", at |-> 0, config |-> None, run |-> 0, candidate |-> 0,
         reloads |-> 0, plan |-> 0, request |-> 0, returned |-> {}, claimed |-> FALSE,
         completed |-> FALSE, seen |-> {}, status |-> "FAILED"]

Init ==
    /\ run = <<>>
    /\ plan = [p \in Plans |-> "ABSENT"]
    /\ covered = [p \in Plans |-> None]
    /\ usage = {}
    /\ proc = [p \in Procs |-> Idle]
    /\ review = None
    /\ now = 0
    /\ lost = [runs |-> {}, plans |-> {}]

At(p, op, pc) == proc[p].op \in op /\ proc[p].pc = pc
Goto(p, pc) == proc' = [proc EXCEPT ![p].pc = pc]
End(p) == proc' = [proc EXCEPT ![p] = [Idle EXCEPT !.pc = "end"]]
Alive(p) == proc[p].pc \notin {"idle", "end"}
Backfill == {"single", "set"}

\* The process has claimed the plan and has neither completed nor failed it.
Holds(p, b) ==
    /\ Alive(p) /\ proc[p].pc # "finish"
    /\ proc[p].plan = b /\ proc[p].claimed /\ ~proc[p].completed

----------------------------------------------------------------------------
(* The transactions.                                                       *)

\* start_run; the caller read the clock before the insert.
StartRun(kind, config, at) ==
    /\ Len(run) < MaxRuns
    /\ run' = Append(run, [kind |-> kind, status |-> "RUNNING", config |-> config, started |-> at])

NewRun == Len(run) + 1

Running(i) == i \in DOMAIN run /\ run[i].status = "RUNNING"

\* finish_run on a row that is RUNNING; on any other it raises.
Finished(i, status) ==
    /\ Running(i)
    /\ run' = [run EXCEPT ![i].status = status]

\* register_backfill_plan; a second registration changes nothing.
Register(p) ==
    /\ plan[p] = "ABSENT"
    /\ plan' = [plan EXCEPT ![p] = "PLANNED"]
    /\ UNCHANGED <<run, covered, usage, proc, review, now, lost>>

\* claim_backfill_plan
Claimable(p) == plan[p] \in {"PLANNED", "FAILED"}

----------------------------------------------------------------------------
(* _ingest                                                                 *)

IngestStart(p, c) ==
    /\ At(p, {None}, "idle")
    /\ proc' = [proc EXCEPT ![p].op = "ingest", ![p].pc = "start", ![p].at = now, ![p].config = c]
    /\ UNCHANGED <<run, plan, covered, usage, review, now, lost>>

IngestRun(p) ==
    /\ At(p, {"ingest"}, "start")
    /\ StartRun("INGESTION", proc[p].config, proc[p].at)
    /\ proc' = [proc EXCEPT ![p].pc = "run", ![p].run = NewRun]
    /\ UNCHANGED <<plan, covered, usage, review, now, lost>>

\* SIGHUP: the universe is read and its listings are synchronised first.
ReloadStart(p) ==
    /\ At(p, {"ingest"}, "run")
    /\ proc[p].reloads < MaxReloads
    /\ proc' = [proc EXCEPT ![p].pc = "reload", ![p].at = now, ![p].reloads = @ + 1]
    /\ UNCHANGED <<run, plan, covered, usage, review, now, lost>>

ReloadRun(p, c) ==
    /\ At(p, {"ingest"}, "reload")
    /\ c # proc[p].config
    /\ StartRun("INGESTION", c, proc[p].at)
    /\ proc' = [proc EXCEPT ![p].pc = "replace", ![p].candidate = NewRun]
    /\ UNCHANGED <<plan, covered, usage, review, now, lost>>

\* The universe is unchanged, its listings cannot be synchronised or the
\* candidate's row cannot be inserted: the reload is given up.
ReloadGivenUp(p) ==
    /\ At(p, {"ingest"}, "reload")
    /\ Goto(p, "run")
    /\ UNCHANGED <<run, plan, covered, usage, review, now, lost>>

\* The candidate's row is committed, but the task is cancelled before it has its id.
ReloadRunCut(p, c) ==
    /\ At(p, {"ingest"}, "reload")
    /\ c # proc[p].config
    /\ StartRun("INGESTION", c, proc[p].at)
    /\ proc' = [proc EXCEPT ![p].pc = "stop", ![p].status = "STOPPED"]
    /\ lost' = [lost EXCEPT !.runs = @ \cup {NewRun}]
    /\ UNCHANGED <<plan, covered, usage, review, now>>

\* Mutation of ReloadRejected: the candidate's row is forgotten.
ReloadRejectedForgets(p) ==
    /\ At(p, {"ingest"}, "replace")
    /\ proc' = [proc EXCEPT ![p].pc = "run", ![p].candidate = 0]
    /\ UNCHANGED <<run, plan, covered, usage, review, now, lost>>

\* replace_subscriptions raised.
ReloadRejected(p) ==
    /\ At(p, {"ingest"}, "replace")
    /\ Finished(proc[p].candidate, "FAILED")
    /\ proc' = [proc EXCEPT ![p].pc = "run", ![p].candidate = 0]
    /\ UNCHANGED <<plan, covered, usage, review, now, lost>>

\* It returned: the old run is stopped and the candidate becomes the run.
ReloadAccepted(p) ==
    /\ At(p, {"ingest"}, "replace")
    /\ Finished(proc[p].run, "STOPPED")
    /\ proc' = [proc EXCEPT ![p].pc = "run", ![p].run = proc[p].candidate,
                            ![p].config = run[proc[p].candidate].config, ![p].candidate = 0]
    /\ UNCHANGED <<plan, covered, usage, review, now, lost>>

\* The same commit, but the task is cancelled before it takes the candidate over.
ReloadCut(p) ==
    /\ At(p, {"ingest"}, "replace")
    /\ Finished(proc[p].run, "STOPPED")
    /\ proc' = [proc EXCEPT ![p].pc = "stop", ![p].status = "STOPPED"]
    /\ lost' = [lost EXCEPT !.runs = @ \cup {proc[p].candidate}]
    /\ UNCHANGED <<plan, covered, usage, review, now>>

\* The deadline, an interrupt or an exception ends the capture tasks; a reload
\* that is under way is cancelled and does not finish its candidate.
Stop(p, status) ==
    /\ \E pc \in {"run", "reload", "replace"} : At(p, {"ingest"}, pc)
    /\ proc' = [proc EXCEPT ![p].pc = "stop", ![p].status = status]
    /\ lost' = [lost EXCEPT !.runs = @ \cup {proc[p].candidate}]
    /\ UNCHANGED <<run, plan, covered, usage, review, now>>

\* finish_run in the finally clause, also of a backfill; it raises when the row
\* is no longer RUNNING.
Finish(p) ==
    /\ At(p, {"ingest"}, "stop") \/ At(p, Backfill, "finish")
    /\ IF Running(proc[p].run) THEN Finished(proc[p].run, proc[p].status) ELSE UNCHANGED run
    /\ End(p)
    /\ UNCHANGED <<plan, covered, usage, review, now, lost>>

----------------------------------------------------------------------------
(* _execute_backfill and _execute_qualification_gap_plan_set               *)

\* The single executor claims before it opens its run.
SingleStart(p, b) ==
    /\ At(p, {None}, "idle")
    /\ Claimable(b)
    /\ plan' = [plan EXCEPT ![b] = "EXECUTING"]
    /\ proc' = [proc EXCEPT ![p].op = "single", ![p].pc = "open", ![p].plan = b,
                            ![p].claimed = TRUE]
    /\ UNCHANGED <<run, covered, usage, review, now, lost>>

\* The set executor reads every status once, at the start.
SetStart(p) ==
    /\ At(p, {None}, "idle")
    /\ \A b \in Plans : plan[b] # "ABSENT"
    /\ proc' = [proc EXCEPT ![p].op = "set", ![p].pc = "open",
                            ![p].seen = {b \in Plans : plan[b] = "COMPLETED"}]
    /\ UNCHANGED <<run, plan, covered, usage, review, now, lost>>

\* start_run of a backfill; nothing filters on its configuration hash.
OpenRun(p) ==
    /\ At(p, Backfill, "open")
    /\ StartRun("BACKFILL", None, now)
    /\ proc' = [proc EXCEPT ![p].pc = IF proc[p].op = "single" THEN "request" ELSE "claim",
                            ![p].run = NewRun, ![p].request = 1]
    /\ UNCHANGED <<plan, covered, usage, review, now, lost>>

\* Mutation of SetClaim: the flags of the previous plan are not reset.
SetClaimKeepsFlags(p) ==
    LET b == proc[p].plan + 1 IN
    /\ At(p, {"set"}, "claim")
    /\ b \in Plans \ proc[p].seen
    /\ Claimable(b)
    /\ plan' = [plan EXCEPT ![b] = "EXECUTING"]
    /\ proc' = [proc EXCEPT ![p].pc = "request", ![p].plan = b, ![p].request = 1,
                            ![p].returned = {}, ![p].claimed = TRUE]
    /\ UNCHANGED <<run, covered, usage, review, now, lost>>

SetClaim(p) ==
    LET b == proc[p].plan + 1 IN
    /\ At(p, {"set"}, "claim")
    /\ b \in Plans \ proc[p].seen
    /\ Claimable(b)
    /\ plan' = [plan EXCEPT ![b] = "EXECUTING"]
    /\ proc' = [proc EXCEPT ![p].pc = "request", ![p].plan = b, ![p].request = 1,
                            ![p].returned = {}, ![p].claimed = TRUE, ![p].completed = FALSE]
    /\ UNCHANGED <<run, covered, usage, review, now, lost>>

\* The claim is committed, but the task is interrupted before it notes it: the
\* except clause does not fail the plan, and the finally clause closes the run.
SetClaimCut(p) ==
    LET b == proc[p].plan + 1 IN
    /\ At(p, {"set"}, "claim")
    /\ b \in Plans \ proc[p].seen
    /\ Claimable(b)
    /\ plan' = [plan EXCEPT ![b] = "EXECUTING"]
    /\ proc' = [proc EXCEPT ![p].pc = "fail", ![p].plan = b,
                            ![p].claimed = FALSE, ![p].completed = FALSE]
    /\ lost' = [lost EXCEPT !.plans = @ \cup {b}]
    /\ UNCHANGED <<run, covered, usage, review, now>>

\* The next plan was COMPLETED at the start.
SetSkip(p) ==
    LET b == proc[p].plan + 1 IN
    /\ At(p, {"set"}, "claim")
    /\ b \in proc[p].seen
    /\ proc' = [proc EXCEPT ![p].plan = b]
    /\ UNCHANGED <<run, plan, covered, usage, review, now, lost>>

\* Somebody else has claimed or completed the plan since.
SetRefused(p) ==
    LET b == proc[p].plan + 1 IN
    /\ At(p, {"set"}, "claim")
    /\ b \in Plans \ proc[p].seen /\ ~Claimable(b)
    /\ proc' = [proc EXCEPT ![p].pc = "fail", ![p].plan = b,
                            ![p].claimed = FALSE, ![p].completed = FALSE]
    /\ UNCHANGED <<run, plan, covered, usage, review, now, lost>>

SetDone(p) ==
    /\ At(p, {"set"}, "claim")
    /\ proc[p].plan + 1 \notin Plans
    /\ proc' = [proc EXCEPT ![p].pc = "finish", ![p].status = "COMPLETED"]
    /\ UNCHANGED <<run, plan, covered, usage, review, now, lost>>

UsageRow(p) == [run |-> proc[p].run, plan |-> proc[p].plan, request |-> proc[p].request]

\* start_historical_request_usage, and the request goes out.
RequestStart(p) ==
    /\ At(p, Backfill, "request")
    /\ usage' = usage \cup {[row |-> UsageRow(p), completed |-> FALSE]}
    /\ Goto(p, "sent")
    /\ UNCHANGED <<run, plan, covered, review, now, lost>>

\* Mutation of AfterRequest: the last chunk of the range is dropped.
AfterRequestShort(p) == IF proc[p].request + 2 \in Requests THEN "request" ELSE "complete"

\* backfill_requests: the chunks cover the range.
AfterRequest(p) == IF proc[p].request + 1 \in Requests THEN "request" ELSE "complete"

\* The provider returned bars of all bases, of some or of none;
\* complete_historical_request_usage.
RequestDone(p, bases) ==
    /\ At(p, Backfill, "sent")
    /\ usage' = (usage \ {[row |-> UsageRow(p), completed |-> FALSE]})
                    \cup {[row |-> UsageRow(p), completed |-> TRUE]}
    /\ proc' = [proc EXCEPT ![p].pc = AfterRequest(p), ![p].request = @ + 1,
                            ![p].returned = @ \cup bases]
    /\ UNCHANGED <<run, plan, covered, review, now, lost>>

Bases == {"BID", "ASK"}

\* What the executors accept: data for every basis; the plan set also no data.
Acceptable(p) ==
    \/ proc[p].returned = Bases
    \/ proc[p].op = "set" /\ proc[p].returned = {}

\* complete_backfill_plan: the coverage rows and the status in one transaction.
CompletePlan(p) ==
    LET b == proc[p].plan IN
    /\ At(p, Backfill, "complete")
    /\ Acceptable(p) /\ plan[b] = "EXECUTING"
    /\ plan' = [plan EXCEPT ![b] = "COMPLETED"]
    /\ covered' = [covered EXCEPT ![b] = IF proc[p].returned = {} THEN "EMPTY" ELSE "DATA"]
    /\ proc' = [proc EXCEPT ![p].completed = TRUE,
                            ![p].pc = IF proc[p].op = "single" THEN "finish" ELSE "claim",
                            ![p].status = IF proc[p].op = "single" THEN "COMPLETED" ELSE @]
    /\ UNCHANGED <<run, usage, review, now, lost>>

\* Any exception before the plan is complete.
Raises(p) ==
    /\ \E pc \in {"open", "claim", "request", "sent", "complete"} : At(p, Backfill, pc)
    /\ Goto(p, "fail")
    /\ UNCHANGED <<run, plan, covered, usage, review, now, lost>>

\* The except clause: fail_backfill_plan, which raises unless EXECUTING.
FailPlan(p) ==
    LET b == proc[p].plan IN
    /\ At(p, Backfill, "fail")
    /\ plan' = IF proc[p].claimed /\ ~proc[p].completed /\ plan[b] = "EXECUTING"
               THEN [plan EXCEPT ![b] = "FAILED"] ELSE plan
    /\ Goto(p, "finish")
    /\ UNCHANGED <<run, covered, usage, review, now, lost>>

----------------------------------------------------------------------------
(* Reconciliation, time and deaths.                                        *)

\* stale_running_ingestion_runs
Stale(c, cutoff) ==
    {i \in DOMAIN run : /\ run[i].kind = "INGESTION" /\ run[i].status = "RUNNING"
                        /\ run[i].config = c /\ run[i].started < cutoff}

\* build_run_reconciliation_plan
RunReconciliationPlan(c, cutoff) == [config |-> c, cutoff |-> cutoff, targets |-> Stale(c, cutoff)]

\* _plan_run_reconciliation: the cutoff is not after the creation of the plan.
PlanReconciliation(c, cutoff) ==
    /\ cutoff =< now
    /\ Stale(c, cutoff) # {}
    /\ review' = RunReconciliationPlan(c, cutoff)
    /\ UNCHANGED <<run, plan, covered, usage, proc, now, lost>>

\* Mutation of Reconcile: the reviewed rows are updated as they were reviewed.
ReconcileUnchecked ==
    /\ review # None
    /\ run' = [i \in DOMAIN run |->
                 IF i \in review.targets THEN [run[i] EXCEPT !.status = "FAILED"] ELSE run[i]]
    /\ UNCHANGED <<plan, covered, usage, proc, review, now, lost>>

\* reconcile_stale_ingestion_runs: all of the reviewed rows or none, and only
\* if they are exactly the stale ones under the table lock.
Reconcile ==
    /\ review # None
    /\ Stale(review.config, review.cutoff) = review.targets
    /\ run' = [i \in DOMAIN run |->
                 IF i \in review.targets THEN [run[i] EXCEPT !.status = "FAILED"] ELSE run[i]]
    /\ UNCHANGED <<plan, covered, usage, proc, review, now, lost>>

Tick ==
    /\ now < MaxTime
    /\ now' = now + 1
    /\ UNCHANGED <<run, plan, covered, usage, proc, review, lost>>

\* The process dies, or gives up before its last transaction: the database is
\* gone, or the disconnect before finish_run raises.
Crash(p) ==
    /\ Alive(p)
    /\ End(p)
    /\ lost' = [runs |-> lost.runs \cup {proc[p].run, proc[p].candidate},
                plans |-> lost.plans \cup {b \in Plans : Holds(p, b)}]
    /\ UNCHANGED <<run, plan, covered, usage, review, now>>

Next ==
    \/ \E p \in Procs :
         \/ \E c \in Configs : IngestStart(p, c) \/ ReloadRun(p, c) \/ ReloadRunCut(p, c)
         \/ IngestRun(p) \/ ReloadStart(p) \/ ReloadGivenUp(p) \/ ReloadRejected(p)
         \/ ReloadAccepted(p) \/ ReloadCut(p)
         \/ \E s \in {"STOPPED", "FAILED"} : Stop(p, s)
         \/ \E b \in Plans : SingleStart(p, b)
         \/ SetStart(p) \/ OpenRun(p) \/ SetClaim(p) \/ SetClaimCut(p) \/ SetSkip(p)
         \/ SetRefused(p) \/ SetDone(p)
         \/ RequestStart(p) \/ \E bases \in SUBSET Bases : RequestDone(p, bases)
         \/ CompletePlan(p) \/ Raises(p) \/ FailPlan(p) \/ Finish(p) \/ Crash(p)
    \/ \E b \in Plans : Register(b)
    \/ \E c \in Configs, t \in 1 .. MaxTime : PlanReconciliation(c, t)
    \/ Reconcile
    \/ Tick

Spec == Init /\ [][Next]_vars

----------------------------------------------------------------------------
(* Correctness.                                                            *)

\* A run that has ended keeps its status whoever reports next - its process
\* after the operator reconciled it, or the operator after it has stopped - and
\* a completed backfill plan is never executed again and keeps its coverage
\* (finish_run, reconcile_stale_ingestion_runs, claim_backfill_plan).
LedgerIsFinal ==
    [][ /\ \A i \in DOMAIN run :
             run[i].status # "RUNNING" => i \in DOMAIN run' /\ run'[i] = run[i]
        /\ \A b \in Plans : plan[b] = "COMPLETED" =>
             plan'[b] = "COMPLETED" /\ covered'[b] = covered[b]
      ]_vars

\* A plan is EXECUTING exactly as long as one process works on it and nobody
\* else does; only a process that dies, or is interrupted as its claim commits,
\* leaves it EXECUTING behind.
PlansAreHeld ==
    \A b \in Plans :
        LET holders == {p \in Procs : Holds(p, b)} IN
        /\ Cardinality(holders) =< 1
        /\ plan[b] = "EXECUTING" => holders # {} \/ b \in lost.plans

\* Every RUNNING row is going to be closed by the process that opened it, or
\* its process died, or it is the candidate of a reload that was cancelled: the
\* interrupted run is terminal before its replacement starts, except for these.
RunsAreOwned ==
    \A i \in DOMAIN run :
        Running(i) =>
            \/ \E p \in Procs : Alive(p) /\ i \in {proc[p].run, proc[p].candidate}
            \/ i \in lost.runs

\* A completed plan has a usage row, itself completed, for every provider
\* request of its range, all of one run (start_ and
\* complete_historical_request_usage), whatever attempts failed before it; and
\* its coverage is recorded.
CompletedIsAccounted ==
    \A b \in Plans : plan[b] = "COMPLETED" =>
        /\ covered[b] # None
        /\ \E i \in DOMAIN run : \A q \in Requests :
              [row |-> [run |-> i, plan |-> b, request |-> q], completed |-> TRUE] \in usage
=============================================================================
