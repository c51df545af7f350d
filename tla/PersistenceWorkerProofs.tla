----------------------- MODULE PersistenceWorkerProofs -----------------------
(***************************************************************************)
(* Proofs about PersistenceWorker for every queue capacity and every       *)
(* number of records.                                                      *)
(*                                                                         *)
(* EveryRecordAccounted is inductive with the types and Shape.  The order  *)
(* of the durable records needs Pipeline: as long as nothing has failed,   *)
(* durable records, the one in process and the queue are consecutive       *)
(* numbers.  OverflowStopsStorage needs Backlog: one record more of        *)
(* distance as long as the worker may still store one.                     *)
(***************************************************************************)
EXTENDS PersistenceWorker, TLAPS

\* Which positions of the tasks go together.
Shape ==
    /\ inflight # 0 <=> worker = "processing"
    /\ failed > 0 => Terminal /\ worker = "ended"
    /\ dropped > 0 => Terminal
    /\ worker = "off" => queue = <<>> /\ command \in {"connecting", "closing", "reporting",
                                                      "finished", "abandoned"}
    /\ command = "connecting" => worker = "off"
    /\ command = "joining" => queue = <<>>
    /\ command \in {"reporting", "finished", "abandoned"} =>
           queue = <<>> /\ worker \in {"off", "ended"}

\* Durable, in process and queued records are consecutive until one fails.
Pipeline ==
    /\ DurableIsPrefix
    /\ failed = 0 => /\ Len(durable) = persisted
                     /\ inflight # 0 => inflight = persisted + 1
                     /\ \A i \in 1 .. Len(queue) : queue[i] = persisted + Busy + i

\* A STOPPED status only survives Finish when nothing failed or was dropped.
Verdict == command = "finished" /\ status = "STOPPED" => failed = 0 /\ dropped = 0

\* After an overflow the database is behind by a full queue, and by one record
\* more while the worker may still store one.
Backlog ==
    error = "PersistenceBackpressureError" =>
        /\ Len(durable) + Capacity =< received
        /\ worker # "ended" => Len(durable) + Capacity + 1 =< received

WorkerInv == WorkerTypeOK /\ EveryRecordAccounted /\ Shape /\ Pipeline /\ Verdict /\
             Backlog

\* The empty queue.
LEMMA EmptyQueue == <<>> \in Seq(Nat) /\ Len(<<>>) = 0 /\ DOMAIN <<>> = {} /\ 1 .. 0 = {}
  OBVIOUS

\* A worker that has not been started satisfies the invariant.
LEMMA InitHasInv == Init => WorkerInv
  BY WorkerAssumption, EmptyQueue
  DEF Init, WorkerInv, WorkerTypeOK, EveryRecordAccounted, Busy, Shape, Terminal, Pipeline,
      DurableIsPrefix, Verdict, Backlog

\* Emptying the queue moves what it held to dropped, in the worker and in the
\* shutdown alike.
LEMMA EmptyingKeepsCount ==
  ASSUME queue \in Seq(Nat), dropped \in Nat, Resume(queue) \/ Discard \/ UNCHANGED <<queue, dropped>>
  PROVE  /\ dropped' + Len(queue') = dropped + Len(queue)
         /\ dropped' \in Nat /\ Len(queue') \in Nat
         /\ queue' \in Seq(Nat) /\ Len(queue') =< Len(queue)
         /\ queue' = queue \/ queue' = <<>>
<1>1. Len(<<>>) = 0 /\ <<>> \in Seq(Nat) /\ Len(queue) \in Nat
  BY EmptyQueue
<1>2. \/ queue' = queue /\ dropped' = dropped
      \/ queue' = <<>> /\ dropped' = dropped + Len(queue)
  <2>1. CASE Resume(queue) BY <2>1 DEF Resume
  <2>2. CASE Discard BY <2>2 DEF Discard
  <2>3. CASE UNCHANGED <<queue, dropped>> BY <2>3
  <2> QED BY <2>1, <2>2, <2>3
<1>3. CASE queue' = queue /\ dropped' = dropped BY <1>1, <1>3
<1>4. CASE queue' = <<>> /\ dropped' = dropped + Len(queue) BY <1>1, <1>4
<1> QED BY <1>2, <1>3, <1>4

\* Every step keeps the types; a full queue is never appended to.
LEMMA StepKeepsTypes == WorkerInv /\ [Next]_vars => WorkerTypeOK'
<1> SUFFICES ASSUME WorkerInv, [Next]_vars PROVE WorkerTypeOK'
  OBVIOUS
<1>a. WorkerTypeOK BY DEF WorkerInv
<1>b. ASSUME Resume(queue) \/ Discard \/ UNCHANGED <<queue, dropped>>
      PROVE  queue' \in Seq(Nat) /\ Len(queue') =< Capacity /\ dropped' \in Nat
  <2>1. queue \in Seq(Nat) /\ dropped \in Nat /\ Len(queue) \in Nat /\ Len(queue) =< Capacity
    BY <1>a DEF WorkerTypeOK
  <2>2. /\ queue' \in Seq(Nat) /\ Len(queue') =< Len(queue)
        /\ dropped' \in Nat /\ Len(queue') \in Nat
    BY <1>b, <2>1, EmptyingKeepsCount
  <2> QED BY <2>1, <2>2, WorkerAssumption
<1> USE WorkerAssumption DEF counters
<1>1. CASE Get
  <2>1. queue' \in Seq(Nat) /\ Len(queue') =< Capacity /\ inflight' \in Nat
    BY <1>1, <1>a DEF Get, WorkerTypeOK
  <2> QED BY <1>1, <1>a, <2>1 DEF Get, WorkerTypeOK
<1>2. CASE GetTimeout
  <2>1. queue' \in Seq(Nat) /\ Len(queue') =< Capacity /\ dropped' \in Nat
    BY <1>2, <1>b DEF GetTimeout
  <2>2. worker' \in {"getting", "ended"} BY <1>2 DEF GetTimeout, Resume
  <2> QED BY <1>2, <1>a, <2>1, <2>2 DEF GetTimeout, WorkerTypeOK
<1>3. CASE Persist
  <2>1. queue' \in Seq(Nat) /\ Len(queue') =< Capacity /\ dropped' \in Nat
    BY <1>3, <1>b DEF Persist
  <2>2. worker' \in {"getting", "ended"} BY <1>3 DEF Persist, Resume
  <2>3. durable' \in Seq(Nat) BY <1>3, <1>a DEF Persist, WorkerTypeOK
  <2> QED BY <1>3, <1>a, <2>1, <2>2, <2>3 DEF Persist, WorkerTypeOK
<1>4. CASE ProcessFails
  <2>1. durable' \in Seq(Nat)
    <3>1. durable \in Seq(Nat) /\ inflight \in Nat BY <1>a DEF WorkerTypeOK
    <3>2. Append(durable, inflight) \in Seq(Nat) BY <3>1
    <3> QED BY <1>4, <3>1, <3>2 DEF ProcessFails
  <2> QED BY <1>4, <1>a, <2>1 DEF ProcessFails, SetError, WorkerTypeOK
<1>5. CASE Start \/ ConnectFails \/ CaptureFails \/ Stop
  BY <1>5, <1>a DEF Start, ConnectFails, CaptureFails, Stop, WorkerTypeOK
<1>6. CASE Submit
  <2>1. queue' \in Seq(Nat) /\ Len(queue') =< Capacity
    BY <1>6, <1>a DEF Submit, WorkerTypeOK
  <2> QED BY <1>6, <1>a, <2>1 DEF Submit, WorkerTypeOK
<1>7. CASE SubmitFull BY <1>7, <1>a DEF SubmitFull, SetError, WorkerTypeOK
<1>8. CASE Drain
  <2>1. queue' \in Seq(Nat) /\ Len(queue') =< Capacity /\ dropped' \in Nat
    BY <1>8, <1>b DEF Drain
  <2> QED BY <1>8, <1>a, <2>1 DEF Drain, WorkerTypeOK
<1>9. CASE Drained
  <2>1. queue' \in Seq(Nat) /\ Len(queue') =< Capacity /\ dropped' \in Nat
    BY <1>9, <1>b DEF Drained
  <2> QED BY <1>9, <1>a, <2>1 DEF Drained, WorkerTypeOK
<1>10. CASE Join \/ Finish \/ Abandon BY <1>10, <1>a DEF Join, Finish, Abandon, WorkerTypeOK
<1>11. CASE UNCHANGED vars BY <1>11, <1>a DEF vars, WorkerTypeOK
<1> QED
  BY <1>1, <1>2, <1>3, <1>4, <1>5, <1>6, <1>7, <1>8, <1>9, <1>10, <1>11
  DEF Next, WorkerStep, ShutdownStep

\* Every step moves a record between the counters or leaves them alone.
LEMMA StepKeepsAccount == WorkerInv /\ [Next]_vars => EveryRecordAccounted'
<1> SUFFICES ASSUME WorkerInv, [Next]_vars PROVE EveryRecordAccounted'
  OBVIOUS
<1> USE DEF EveryRecordAccounted
<1>a. /\ EveryRecordAccounted /\ queue \in Seq(Nat)
      /\ received \in Nat /\ persisted \in Nat /\ failed \in Nat /\ dropped \in Nat
      /\ Len(queue) \in Nat /\ Busy \in Nat
  BY DEF WorkerInv, WorkerTypeOK, Busy
<1>b. ASSUME Resume(queue) \/ Discard \/ UNCHANGED <<queue, dropped>>
      PROVE  /\ dropped' + Len(queue') = dropped + Len(queue)
             /\ dropped' \in Nat /\ Len(queue') \in Nat
  BY <1>a, <1>b, EmptyingKeepsCount
<1>c. inflight # 0 <=> worker = "processing"
  BY DEF WorkerInv, Shape
<1>1. CASE Get
  <2>0. failed = 0 /\ persisted \in Nat /\ Len(queue) > 0
    BY <1>1, <1>a DEF Get, WorkerInv, WorkerTypeOK, Shape
  <2>1. Len(queue') = Len(queue) - 1 /\ inflight' = queue[1] /\ queue[1] # 0
    <3>1. queue[1] = persisted + Busy + 1 BY <1>a, <2>0 DEF WorkerInv, Pipeline
    <3>2. queue[1] # 0 BY <1>a, <2>0, <3>1
    <3> QED BY <1>1, <1>a, <2>0, <3>2 DEF Get
  <2>2. Busy = 0 /\ Busy' = 1 BY <1>1, <1>c, <2>1 DEF Get, Busy
  <2> QED BY <1>1, <1>a, <2>1, <2>2 DEF Get, counters
<1>2. CASE GetTimeout
  <2>1. Busy' = Busy BY <1>2 DEF GetTimeout, Busy
  <2>2. Resume(queue) BY <1>2 DEF GetTimeout
  <2> QED BY <1>2, <1>a, <1>b, <2>1, <2>2 DEF GetTimeout
<1>3. CASE Persist
  <2>1. Busy = 1 /\ Busy' = 0 BY <1>3, <1>c DEF Persist, Busy
  <2>2. /\ dropped' + Len(queue') = dropped + Len(queue)
        /\ dropped' \in Nat /\ Len(queue') \in Nat
    BY <1>3, <1>b DEF Persist
  <2>3. persisted' = persisted + 1 /\ failed' = failed /\ received' = received
    BY <1>3 DEF Persist
  <2>4. persisted' + failed' + Busy' = persisted + failed + Busy BY <1>a, <2>1, <2>3
  <2> QED BY <1>a, <2>2, <2>3, <2>4
<1>4. CASE ProcessFails
  <2>1. Busy = 1 /\ Busy' = 0 BY <1>4, <1>c DEF ProcessFails, Busy
  <2> QED BY <1>4, <1>a, <2>1 DEF ProcessFails
<1>5. CASE Start \/ ConnectFails \/ CaptureFails \/ Stop
  BY <1>5, <1>a DEF Start, ConnectFails, CaptureFails, Stop, counters, Busy
<1>6. CASE Submit
  <2>1. Len(queue') = Len(queue) + 1 BY <1>6, <1>a DEF Submit
  <2> QED BY <1>6, <1>a, <2>1 DEF Submit, Busy
<1>7. CASE SubmitFull
  BY <1>7, <1>a DEF SubmitFull, Busy
<1>8. CASE Drain
  <2>1. Discard \/ UNCHANGED <<queue, dropped>> BY <1>8 DEF Drain
  <2>2. Busy' = Busy BY <1>8 DEF Drain, Busy
  <2> QED BY <1>8, <1>a, <1>b, <2>1, <2>2 DEF Drain
<1>9. CASE Drained
  <2>1. Discard \/ UNCHANGED <<queue, dropped>> BY <1>9 DEF Drained
  <2>2. Busy' = Busy BY <1>9 DEF Drained, Busy
  <2> QED BY <1>9, <1>a, <1>b, <2>1, <2>2 DEF Drained
<1>10. CASE Join \/ Finish \/ Abandon
  BY <1>10, <1>a DEF Join, Finish, Abandon, counters, Busy
<1>11. CASE UNCHANGED vars
  BY <1>11, <1>a DEF vars, counters, Busy
<1> QED
  BY <1>1, <1>2, <1>3, <1>4, <1>5, <1>6, <1>7, <1>8, <1>9, <1>10, <1>11
  DEF Next, WorkerStep, ShutdownStep

\* Every step keeps the relation of worker, command and status.
LEMMA StepKeepsShape == WorkerInv /\ [Next]_vars => Shape' /\ Verdict'
<1> SUFFICES ASSUME WorkerInv, [Next]_vars PROVE Shape' /\ Verdict'
  OBVIOUS
<1> USE WorkerAssumption, EmptyQueue DEF WorkerInv, WorkerTypeOK, Terminal, counters, Shape, Verdict
<1>1. CASE Get
  <2>1. inflight' = queue[1] /\ queue[1] > 0
    BY <1>1 DEF Get, Pipeline, Busy
  <2> QED BY <1>1, <2>1 DEF Get
<1>2. CASE GetTimeout BY <1>2 DEF GetTimeout, Resume, Terminal, Stopping
<1>3. CASE Persist BY <1>3 DEF Persist, Resume, Terminal, Stopping
<1>4. CASE ProcessFails BY <1>4 DEF ProcessFails, SetError, Terminal
<1>5. CASE Start \/ ConnectFails \/ CaptureFails \/ Stop
  BY <1>5 DEF Start, ConnectFails, CaptureFails, Stop
<1>6. CASE Submit BY <1>6 DEF Submit, Terminal
<1>7. CASE SubmitFull BY <1>7 DEF SubmitFull, SetError, Terminal
<1>8. CASE Drain BY <1>8 DEF Drain, Discard, Terminal
<1>9. CASE Drained BY <1>9 DEF Drained, Discard, Terminal, Joined
<1>10. CASE Join \/ Finish \/ Abandon BY <1>10 DEF Join, Finish, Abandon
<1>11. CASE UNCHANGED vars BY <1>11 DEF vars
<1> QED
  BY <1>1, <1>2, <1>3, <1>4, <1>5, <1>6, <1>7, <1>8, <1>9, <1>10, <1>11
  DEF Next, WorkerStep, ShutdownStep

\* Every step keeps the order of the records from queue to database.
LEMMA StepKeepsPipeline == WorkerInv /\ [Next]_vars => Pipeline'
<1> SUFFICES ASSUME WorkerInv, [Next]_vars PROVE Pipeline'
  OBVIOUS
<1> USE WorkerAssumption, EmptyQueue
    DEF WorkerInv, WorkerTypeOK, Terminal, counters, Shape, Pipeline, DurableIsPrefix, Busy
<1>1. CASE Get
  <2>1. failed = 0 /\ inflight = 0 BY <1>1 DEF Get
  <2>2. inflight' = persisted + 1 BY <1>1, <2>1 DEF Get
  <2>3. /\ Len(queue') = Len(queue) - 1
        /\ \A i \in 1 .. Len(queue') : queue'[i] = queue[i + 1]
    BY <1>1 DEF Get
  <2>4. \A i \in 1 .. Len(queue') : queue'[i] = persisted + 1 + i
    BY <2>1, <2>3
  <2>5. UNCHANGED <<durable, persisted, failed>> BY <1>1 DEF Get
  <2> QED BY <2>1, <2>2, <2>4, <2>5
<1>2. CASE GetTimeout BY <1>2 DEF GetTimeout, Resume, Terminal, Stopping
<1>3. CASE Persist
  <2>1. failed = 0 /\ inflight = persisted + 1 /\ Len(durable) = persisted
    BY <1>3 DEF Persist
  <2>2. queue' = queue \/ queue' = <<>>
    BY <1>3, EmptyingKeepsCount DEF Persist
  <2>3. inflight' = 0 /\ persisted' = persisted + 1 /\ durable' = Append(durable, inflight)
    BY <1>3 DEF Persist
  <2>4. \A i \in DOMAIN durable' : durable'[i] = i
    BY <2>1, <2>3
  <2>5. \A i \in 1 .. Len(queue') : queue'[i] = persisted + 1 + i
    BY <2>1, <2>2
  <2>6. failed' = failed BY <1>3 DEF Persist
  <2>7. Busy' = 0 /\ Len(durable') = persisted' BY <2>1, <2>3
  <2>8. \A i \in 1 .. Len(queue') : queue'[i] = persisted' + Busy' + i
    <3> HIDE DEF Busy
    <3> QED BY <2>3, <2>5, <2>7
  <2> QED BY <2>3, <2>4, <2>7, <2>8
<1>4. CASE ProcessFails
  <2>1. failed = 0 /\ inflight = persisted + 1 /\ Len(durable) = persisted
    BY <1>4 DEF ProcessFails, SetError, Terminal
  <2>2. failed' > 0 BY <1>4 DEF ProcessFails, SetError, Terminal
  <2>3. CASE durable' = durable BY <2>2, <2>3
  <2>4. CASE durable' = Append(durable, inflight)
    <3>1. \A i \in DOMAIN durable' : durable'[i] = i
      BY <2>1, <2>4
    <3> QED BY <2>2, <3>1
  <2> QED BY <1>4, <2>3, <2>4 DEF ProcessFails
<1>5. CASE Start \/ ConnectFails \/ CaptureFails \/ Stop
  BY <1>5 DEF Start, ConnectFails, CaptureFails, Stop
<1>6. CASE Submit
  <2>1. failed = 0 /\ dropped = 0 BY <1>6 DEF Submit, Terminal
  <2>2. received + 1 = persisted + Busy + (Len(queue) + 1)
    <3>1. /\ received = (persisted + failed + Busy) + (dropped + Len(queue))
          /\ Busy \in Nat /\ persisted \in Nat /\ Len(queue) \in Nat
      BY DEF EveryRecordAccounted
    <3> HIDE DEF Busy
    <3> QED BY <2>1, <3>1
  <2>3. queue' = Append(queue, received + 1) BY <1>6 DEF Submit
  <2>4. \A i \in 1 .. Len(queue') : queue'[i] = persisted + Busy + i
    <3>1. Len(queue') = Len(queue) + 1 /\ queue'[Len(queue) + 1] = received + 1
      BY <2>3
    <3>2. \A i \in 1 .. Len(queue) : queue'[i] = queue[i] BY <2>3
    <3>3. \A i \in 1 .. Len(queue) : queue[i] = persisted + Busy + i BY <2>1
    <3>4. queue'[Len(queue) + 1] = persisted + Busy + (Len(queue) + 1) BY <2>2, <3>1
    <3>5. \A i \in 1 .. Len(queue) : queue'[i] = persisted + Busy + i BY <3>2, <3>3
    <3>6. \A i \in 1 .. Len(queue') : i \in 1 .. Len(queue) \/ i = Len(queue) + 1 BY <3>1
    <3> HIDE DEF Busy
    <3> QED BY <3>4, <3>5, <3>6
  <2>5. UNCHANGED <<durable, persisted, failed, inflight>> BY <1>6 DEF Submit
  <2> QED BY <2>1, <2>4, <2>5
<1>7. CASE SubmitFull BY <1>7 DEF SubmitFull, SetError, Terminal
<1>8. CASE Drain BY <1>8 DEF Drain, Discard, Terminal
<1>9. CASE Drained BY <1>9 DEF Drained, Discard, Terminal
<1>10. CASE Join \/ Finish \/ Abandon BY <1>10 DEF Join, Finish, Abandon
<1>11. CASE UNCHANGED vars BY <1>11 DEF vars
<1> QED
  BY <1>1, <1>2, <1>3, <1>4, <1>5, <1>6, <1>7, <1>8, <1>9, <1>10, <1>11
  DEF Next, WorkerStep, ShutdownStep

\* Every step keeps the distance of the database behind an overflow.
LEMMA StepKeepsBacklog == WorkerInv /\ [Next]_vars => Backlog'
<1> SUFFICES ASSUME WorkerInv, [Next]_vars PROVE Backlog'
  OBVIOUS
<1>a. /\ Backlog /\ Capacity \in Nat /\ received \in Nat /\ durable \in Seq(Nat)
      /\ inflight \in Nat /\ Len(durable) \in Nat
  BY WorkerAssumption DEF WorkerInv, WorkerTypeOK
<1> USE DEF Backlog
<1>1. CASE Get BY <1>1, <1>a DEF Get, counters
<1>2. CASE GetTimeout BY <1>2, <1>a DEF GetTimeout, Resume
<1>3. CASE Persist
  <2>1. Len(durable') = Len(durable) + 1 BY <1>3, <1>a DEF Persist
  <2>2. Terminal => worker' = "ended" BY <1>3 DEF Persist, Resume
  <2> QED BY <1>3, <1>a, <2>1, <2>2 DEF Persist, Terminal
<1>4. CASE ProcessFails
  <2>1. Len(durable') =< Len(durable) + 1 /\ Len(durable') \in Nat
    <3>1. Len(Append(durable, inflight)) = Len(durable) + 1 BY <1>a
    <3> QED BY <1>4, <1>a, <3>1 DEF ProcessFails
  <2>2. /\ worker = "processing" /\ worker' = "ended" /\ received' = received
        /\ error' = "PersistenceBackpressureError" => error = "PersistenceBackpressureError"
    BY <1>4 DEF ProcessFails, SetError, Terminal
  <2> QED BY <1>a, <2>1, <2>2
<1>5. CASE Start \/ ConnectFails \/ CaptureFails \/ Stop
  <2>1. UNCHANGED <<error, received, durable>>
    BY <1>5 DEF Start, ConnectFails, CaptureFails, Stop, counters
  <2>2. worker' # "ended" => worker # "ended"
    BY <1>5 DEF WorkerInv, Shape, Start, ConnectFails, CaptureFails, Stop
  <2> QED BY <1>a, <2>1, <2>2
<1>6. CASE Submit BY <1>6, <1>a DEF Submit, Terminal
<1>7. CASE SubmitFull
  <2>1. /\ failed = 0 /\ dropped = 0 /\ Len(queue) = Capacity
        /\ received' = received + 1 /\ durable' = durable
    BY <1>7 DEF SubmitFull, Terminal, WorkerInv, WorkerTypeOK, Shape
  <2>2. /\ received = (persisted + failed + Busy) + (dropped + Len(queue))
        /\ Busy \in Nat /\ persisted \in Nat /\ Len(durable) = persisted
    BY <2>1 DEF WorkerInv, WorkerTypeOK, EveryRecordAccounted, Pipeline, Busy
  <2> QED BY <1>a, <2>1, <2>2
<1>8. CASE Drain BY <1>8, <1>a DEF Drain
<1>9. CASE Drained BY <1>9, <1>a DEF Drained
<1>10. CASE Join \/ Finish \/ Abandon BY <1>10, <1>a DEF Join, Finish, Abandon, counters
<1>11. CASE UNCHANGED vars BY <1>11, <1>a DEF vars, counters
<1> QED
  BY <1>1, <1>2, <1>3, <1>4, <1>5, <1>6, <1>7, <1>8, <1>9, <1>10, <1>11
  DEF Next, WorkerStep, ShutdownStep

\* The inductive invariant of the worker holds in every reachable state.
THEOREM WorkerIsConsistent == Spec => []WorkerInv
<1>1. WorkerInv /\ [Next]_vars => WorkerInv'
  BY StepKeepsTypes, StepKeepsAccount, StepKeepsShape, StepKeepsPipeline,
     StepKeepsBacklog DEF WorkerInv
<1> QED BY <1>1, InitHasInv, PTL DEF Spec

\* Every record that submit_nowait counted is accounted for exactly once.
THEOREM RecordsAccounted == Spec => []EveryRecordAccounted
  BY WorkerIsConsistent, PTL DEF WorkerInv

\* The database holds a prefix of the accepted records, in order.
THEOREM DurablePrefix == Spec => []DurableIsPrefix
<1>1. WorkerInv => DurableIsPrefix BY DEF WorkerInv, Pipeline
<1> QED BY <1>1, WorkerIsConsistent, PTL

\* A run reported as STOPPED has stored everything it received.
THEOREM StoppedIsComplete == Spec => []StoppedMeansComplete
<1>1. WorkerInv => StoppedMeansComplete
  BY DEF WorkerInv, Pipeline, Verdict, Shape, EveryRecordAccounted, Busy, StoppedMeansComplete,
         WorkerTypeOK
<1> QED BY <1>1, WorkerIsConsistent, PTL

\* The metrics of a finished run are final.
THEOREM FinishIsQuiet == Spec => []FinishedIsQuiet
<1>1. WorkerInv => FinishedIsQuiet
  BY DEF WorkerInv, Shape, EveryRecordAccounted, Busy, FinishedIsQuiet, Joined, WorkerTypeOK
<1> QED BY <1>1, WorkerIsConsistent, PTL

\* After an overflow at most one of the waiting records is still stored.
THEOREM OverflowIsFinal == Spec => []OverflowStopsStorage
<1>1. WorkerInv => OverflowStopsStorage BY DEF WorkerInv, Backlog, OverflowStopsStorage
<1> QED BY <1>1, WorkerIsConsistent, PTL
=============================================================================
