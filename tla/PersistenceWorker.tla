-------------------------- MODULE PersistenceWorker --------------------------
(***************************************************************************)
(* Native IBKR capture between the provider adapter and the database:      *)
(* BoundedPersistenceWorker (application/persistence.py) and the part of   *)
(* __main__._ingest_ibkr_native that feeds it, watches it and shuts it     *)
(* down.                                                                   *)
(*                                                                         *)
(* Everything runs on one event loop, so a step is what a task does from   *)
(* one await to the next.  Records are numbered in the order in which      *)
(* submit_nowait counts them.                                              *)
(***************************************************************************)
EXTENDS Integers, Sequences

CONSTANTS
    Capacity,     \* settings.ibkr_capture_queue_capacity
    MaxRecords    \* bound: records the adapter yields

ASSUME WorkerAssumption ==
    /\ Capacity \in Nat \ {0}
    /\ MaxRecords \in Nat

VARIABLES
    queue,      \* _queue: records waiting
    inflight,   \* the record inside _service.process; 0 when there is none
    received, persisted, failed, dropped,   \* the counters of snapshot()
    error,      \* _terminal_error; _failure_event is set once it is not "NONE"
    worker,     \* where _run is
    command,    \* where the capture command is
    status,     \* terminal_status
    durable     \* the records committed to the database, in order

counters == <<received, persisted, failed, dropped>>
vars == <<queue, inflight, counters, error, worker, command, status, durable>>

Init ==
    /\ queue = <<>> /\ inflight = 0
    /\ received = 0 /\ persisted = 0 /\ failed = 0 /\ dropped = 0
    /\ error = "NONE"
    /\ worker = "off"
    /\ command = "connecting" /\ status = "FAILED"
    /\ durable = <<>>

Terminal == error # "NONE"

\* _set_terminal_error: the first error stays.
SetError(e) == error' = IF Terminal THEN error ELSE e

\* _stopping, set by drain_and_stop.
Stopping == command \in {"draining", "joining", "reporting", "finished", "abandoned"}

\* Queue.join() returns when every record taken was marked task_done.
Joined == queue = <<>> /\ inflight = 0

----------------------------------------------------------------------------
(* The worker task.                                                        *)

\* Mutation of Resume: the loop does not test the terminal error.
ResumeIgnoringError(q) ==
    /\ worker' = IF Stopping /\ q = <<>> THEN "ended" ELSE "getting"
    /\ queue' = q /\ dropped' = dropped

\* _run from the top of its loop with q in the queue, to its next await.
Resume(q) ==
    IF Stopping /\ q = <<>>
    THEN worker' = "ended" /\ queue' = q /\ dropped' = dropped
    ELSE IF Terminal
         THEN worker' = "ended" /\ queue' = <<>> /\ dropped' = dropped + Len(q)
         ELSE worker' = "getting" /\ queue' = q /\ dropped' = dropped

\* asyncio.wait_for(self._queue.get(), timeout=0.1) returns a record.
Get ==
    /\ worker = "getting" /\ queue # <<>>
    /\ inflight' = Head(queue)
    /\ queue' = Tail(queue)
    /\ worker' = "processing"
    /\ UNCHANGED <<counters, error, command, status, durable>>

\* It times out, possibly in the iteration in which a record arrives: the
\* cancelled get leaves the record in the queue.
GetTimeout ==
    /\ worker = "getting"
    /\ Resume(queue)
    /\ UNCHANGED <<inflight, received, persisted, failed, error, command, status,
                   durable>>

\* process returned: one transaction has stored the raw and canonical record.
Persist ==
    /\ worker = "processing"
    /\ durable' = Append(durable, inflight)
    /\ persisted' = persisted + 1
    /\ inflight' = 0
    /\ Resume(queue)
    /\ UNCHANGED <<received, failed, error, command, status>>

\* Mutation of ProcessFails: the worker skips the record and goes on.
ProcessFailsSkip ==
    /\ worker = "processing"
    /\ durable' = durable
    /\ failed' = failed + 1
    /\ inflight' = 0
    /\ Resume(queue)
    /\ UNCHANGED <<received, persisted, error, command, status>>

\* process raised: the transaction was rolled back, or its commit was applied
\* and only the answer was lost.
ProcessFails ==
    /\ worker = "processing"
    /\ durable' \in {durable, Append(durable, inflight)}
    /\ failed' = failed + 1
    /\ inflight' = 0
    /\ SetError("PersistenceWorkerError")
    /\ worker' = "ended"
    /\ UNCHANGED <<queue, received, persisted, dropped, command, status>>

----------------------------------------------------------------------------
(* The capture command.                                                    *)

\* adapter.connect, adapter.subscribe, worker.start.
Start ==
    /\ command = "connecting"
    /\ command' = "capturing" /\ worker' = "getting"
    /\ UNCHANGED <<queue, inflight, counters, error, status, durable>>

\* The provider refuses before the worker was started.
ConnectFails ==
    /\ command = "connecting"
    /\ command' = "closing"
    /\ UNCHANGED <<queue, inflight, counters, error, worker, status, durable>>

\* submit_nowait with room in the queue.
Submit ==
    /\ command = "capturing" /\ ~Terminal
    /\ received < MaxRecords /\ Len(queue) < Capacity
    /\ received' = received + 1
    /\ queue' = Append(queue, received + 1)
    /\ UNCHANGED <<inflight, persisted, failed, dropped, error, worker, command,
                   status, durable>>

\* submit_nowait when the queue is full: the record is dropped, and the error
\* is terminal.
SubmitFull ==
    /\ command = "capturing" /\ ~Terminal
    /\ received < MaxRecords /\ Len(queue) = Capacity
    /\ received' = received + 1
    /\ dropped' = dropped + 1
    /\ SetError("PersistenceBackpressureError")
    /\ UNCHANGED <<queue, inflight, persisted, failed, worker, command, status, durable>>

\* gather raises what consume or wait_for_failure raised, or what the adapter's
\* iterator did: the capture tasks are cancelled and the status stays FAILED.
\* A record offered after the failure is refused by submit_nowait, uncounted.
CaptureFails ==
    /\ command = "capturing"
    /\ command' = "closing"
    /\ UNCHANGED <<queue, inflight, counters, error, worker, status, durable>>

\* The deadline of the run, an interrupt (also while it connects), or a
\* TimeoutError of a capture task, which the command takes for the deadline.
Stop ==
    /\ command \in {"connecting", "capturing"}
    /\ command' = "closing" /\ status' = "STOPPED"
    /\ UNCHANGED <<queue, inflight, counters, error, worker, durable>>

\* Mutation of Discard: what is thrown away is not counted.
DiscardUncounted == queue' = <<>> /\ dropped' = dropped

\* _discard_pending
Discard == queue' = <<>> /\ dropped' = dropped + Len(queue)

\* drain_and_stop up to its first await.
Drain ==
    /\ command = "closing"
    /\ IF worker = "off"
       THEN command' = "reporting" /\ UNCHANGED <<queue, dropped>>
       ELSE IF Terminal THEN command' = "joining" /\ Discard
                        ELSE command' = "draining" /\ UNCHANGED <<queue, dropped>>
    /\ UNCHANGED <<inflight, received, persisted, failed, error, worker, status, durable>>

\* Mutation of Drained: the failure event is not waited for.
DrainedByJoin ==
    /\ command = "draining" /\ Joined
    /\ command' = "joining"
    /\ IF Terminal THEN Discard ELSE UNCHANGED <<queue, dropped>>
    /\ UNCHANGED <<inflight, received, persisted, failed, error, worker, status,
                   durable>>

\* asyncio.wait over join and failure event: the first of them.
Drained ==
    /\ command = "draining" /\ (Joined \/ Terminal)
    /\ command' = "joining"
    /\ IF Terminal THEN Discard ELSE UNCHANGED <<queue, dropped>>
    /\ UNCHANGED <<inflight, received, persisted, failed, error, worker, status,
                   durable>>

\* await self._task
Join ==
    /\ command = "joining" /\ worker = "ended"
    /\ command' = "reporting"
    /\ UNCHANGED <<queue, inflight, counters, error, worker, status, durable>>

\* Mutation of Finish: only failed transactions fail the run.
FinishIgnoringDrops ==
    /\ command = "reporting"
    /\ command' = "finished"
    /\ status' \in {"FAILED", IF failed > 0 THEN "FAILED" ELSE status}
    /\ UNCHANGED <<queue, inflight, counters, error, worker, durable>>

\* Disconnect (a failure there fails the run), record metrics, finish the run.
Finish ==
    /\ command = "reporting"
    /\ command' = "finished"
    /\ status' \in {"FAILED", IF failed > 0 \/ dropped > 0 THEN "FAILED" ELSE status}
    /\ UNCHANGED <<queue, inflight, counters, error, worker, durable>>

\* Recording the health or the metrics raises before finish_run: the run row
\* stays open.
Abandon ==
    /\ command = "reporting"
    /\ command' = "abandoned"
    /\ UNCHANGED <<queue, inflight, counters, error, worker, status, durable>>

----------------------------------------------------------------------------
WorkerStep == Get \/ GetTimeout \/ Persist \/ ProcessFails
ShutdownStep == Drain \/ Drained \/ Join \/ Finish \/ Abandon

Next ==
    \/ WorkerStep
    \/ Start \/ ConnectFails \/ Submit \/ SubmitFull \/ CaptureFails \/ Stop
    \/ ShutdownStep

Spec == Init /\ [][Next]_vars

\* The loop runs what can run, a database call returns or raises, and gather
\* raises once a capture task has raised.
FairSpec ==
    /\ Spec
    /\ WF_vars(Get \/ GetTimeout) /\ WF_vars(Persist \/ ProcessFails)
    /\ WF_vars(ShutdownStep)
    /\ WF_vars(Terminal /\ CaptureFails)

----------------------------------------------------------------------------
Busy == IF inflight = 0 THEN 0 ELSE 1

\* Types; the queue never holds more than its capacity.
WorkerTypeOK ==
    /\ queue \in Seq(Nat) /\ Len(queue) =< Capacity
    /\ inflight \in Nat
    /\ received \in Nat /\ persisted \in Nat /\ failed \in Nat /\ dropped \in Nat
    /\ error \in {"NONE", "PersistenceWorkerError", "PersistenceBackpressureError"}
    /\ worker \in {"off", "getting", "processing", "ended"}
    /\ command \in {"connecting", "capturing", "closing", "draining", "joining", "reporting",
                    "finished", "abandoned"}
    /\ status \in {"FAILED", "STOPPED"}
    /\ durable \in Seq(Nat)

\* Every record that submit_nowait counted is persisted, failed, dropped,
\* queued or being processed, and is counted once, whichever of the worker and
\* the shutdown empties the queue.
EveryRecordAccounted == received = (persisted + failed + Busy) + (dropped + Len(queue))

\* The database holds the records in arrival order without a hole: after a
\* failure or an overflow nothing later is stored.
DurableIsPrefix == \A i \in DOMAIN durable : durable[i] = i

\* A run that is reported as STOPPED has stored every record it received.
StoppedMeansComplete ==
    command = "finished" /\ status = "STOPPED" => Len(durable) = received

\* The metrics of a finished run are final: the worker is gone, nothing is
\* queued, and received = persisted + failed + dropped.
FinishedIsQuiet ==
    command \in {"reporting", "finished", "abandoned"} =>
        worker \in {"off", "ended"} /\ Joined /\ received = persisted + failed + dropped

\* An overflow stops the storage at once: of the Capacity records that waited
\* when submit_nowait met the full queue at most one still reaches the
\* database (the one the pending get is handed), the others are discarded by
\* the worker or by the shutdown, and received, which the refused submissions
\* leave alone, stays ahead of the database by at least a full queue.
OverflowStopsStorage ==
    error = "PersistenceBackpressureError" => Len(durable) + Capacity =< received

\* A shutdown always comes to its end, and a terminal error always leads to
\* one: nobody waits for a queue that nobody empties.
ShutdownCompletes == command = "closing" \/ Terminal ~> command \in {"finished", "abandoned"}
=============================================================================
