------------------------- MODULE IbkrExecutionProofs -------------------------
(***************************************************************************)
(* Proofs about IbkrStore and IbkrExecution, for every plan, retry budget, *)
(* number of slots and number of faults: first the store under any         *)
(* callers, then the executor, its tasks, recovery and the publisher       *)
(* around it, and last that an execution is one of those callers.          *)
(***************************************************************************)
EXTENDS IbkrExecution, FiniteSetTheorems, TLAPS

----------------------------------------------------------------------------
(* The store, whoever calls it.                                            *)

\* The single-request view of the store's invariant, so that the proofs can
\* treat the requests one at a time.
RowInv(q, a) ==
    /\ \A k \in Ordinals : (a[k] # NoAttempt) <=> (k =< q.attempt_count)
    /\ \A k \in 1 .. (q.attempt_count - 1) : a[k].status \in RetriedStatus
    /\ q.status = "PENDING" =>
         /\ q.selected = 0
         /\ q.attempt_count < MaxAttempts
         /\ q.attempt_count > 0 => a[q.attempt_count].status \in RetriedStatus
    /\ q.status = "IN_FLIGHT" =>
         /\ q.selected = 0
         /\ q.attempt_count > 0 /\ a[q.attempt_count].status = "STARTED"
    /\ q.status = "SUCCEEDED" =>
         /\ q.attempt_count > 0 /\ q.selected = q.attempt_count
         /\ a[q.attempt_count].status = "SUCCEEDED"
         /\ a[q.attempt_count].disposition = "SUCCEEDED"
    /\ q.status = "TERMINAL" =>
         /\ q.attempt_count > 0 /\ q.selected = q.attempt_count
         /\ a[q.attempt_count].status = "TERMINAL_FAILURE"
         /\ a[q.attempt_count].disposition \notin {"NONE", "SUCCEEDED"}
    /\ q.result # NoResult => q.status \in ClosedStatus

\* The store's invariant is the invariant of its rows and of the plan row.
LEMMA InvByRow ==
    StoreInv <=> /\ StoreTypeOK
                 /\ \A r \in Requests : RowInv(request[r], attempt[r])
                 /\ plan = "PUBLISHED" => \A r \in Requests : request[r].result # NoResult
  BY DEF StoreInv, AttemptsContiguous, RequestMatchesAttempts, PendingHasBudget,
         PublicationIsClosed, RowInv

\* The same after a transaction.
LEMMA InvByRowNext ==
    StoreInv' <=> /\ StoreTypeOK'
                  /\ \A r \in Requests : RowInv(request'[r], attempt'[r])
                  /\ plan' = "PUBLISHED" => \A r \in Requests : request'[r].result # NoResult
  BY DEF StoreInv, AttemptsContiguous, RequestMatchesAttempts, PendingHasBudget,
         PublicationIsClosed, RowInv

\* The only attempt that can be STARTED is the last one of an IN_FLIGHT request.
LEMMA StartedIsLast ==
    ASSUME StoreTypeOK, NEW r \in Requests, NEW k \in Ordinals,
           RowInv(request[r], attempt[r]), Started(r, k)
    PROVE  request[r].status = "IN_FLIGHT" /\ request[r].attempt_count = k
  <1> DEFINE q == request[r]
             a == attempt[r]
  <1>1. q.attempt_count \in 0 .. MaxAttempts /\ q.status \in RequestStatus
    BY DEF StoreTypeOK
  <1>2. k =< q.attempt_count
    BY DEF RowInv, Started, NoAttempt
  <1>3. k = q.attempt_count
    BY <1>1, <1>2, StoreAssumption DEF RowInv, Started, Ordinals, RetriedStatus
  <1> QED
    BY <1>1, <1>3 DEF RowInv, Started, RequestStatus, RetriedStatus, Ordinals

\* A row that may replace the STARTED row of attempt k.
ClosingRow(k, row) ==
    /\ row \in AttemptRow
    /\ \/ row.status = "SUCCEEDED" /\ row.disposition = "SUCCEEDED"
       \/ row.status = "TERMINAL_FAILURE" /\ row.disposition \notin {"NONE", "SUCCEEDED"}
       \/ row.status \in RetriedStatus /\ k < MaxAttempts

\* Closing the last attempt of an IN_FLIGHT request keeps the request's rows
\* consistent, whatever the outcome.
LEMMA CloseKeepsRow ==
    ASSUME StoreTypeOK, NEW r \in Requests, NEW k \in Ordinals,
           RowInv(request[r], attempt[r]), Started(r, k),
           NEW row, ClosingRow(k, row), NEW a, a \in [Ordinals -> AttemptRow \cup {NoAttempt}],
           a[k] = row, \A j \in Ordinals \ {k} : a[j] = attempt[r][j]
    PROVE  /\ RowInv(RequestAfter(r, k, row), a)
           /\ RequestAfter(r, k, row) \in
                [status : RequestStatus, attempt_count : 0 .. MaxAttempts,
                 selected : 0 .. MaxAttempts, result : Results \cup {NoResult}]
           /\ RequestAfter(r, k, row).result = request[r].result
  <1> DEFINE q == request[r]
             n == RequestAfter(r, k, row)
  <1>1. q.status = "IN_FLIGHT" /\ q.attempt_count = k
    BY StartedIsLast
  <1>2. q \in [status : RequestStatus, attempt_count : 0 .. MaxAttempts,
               selected : 0 .. MaxAttempts, result : Results \cup {NoResult}]
    BY DEF StoreTypeOK
  <1>3. k \in Nat /\ 1 =< k /\ k =< MaxAttempts
    BY StoreAssumption DEF Ordinals
  <1>4. q.result = NoResult /\ q.selected = 0
    BY <1>1 DEF RowInv, ClosedStatus
  <1>5. row # NoAttempt
    BY DEF ClosingRow, NoAttempt, AttemptRow, AttemptStatus
  <1>6. /\ \A j \in Ordinals : (a[j] # NoAttempt) <=> (j =< k)
        /\ \A j \in 1 .. (k - 1) : a[j].status \in RetriedStatus
    <2>1. ASSUME NEW j \in Ordinals PROVE (a[j] # NoAttempt) <=> (j =< k)
      <3>1. (attempt[r][j] # NoAttempt) <=> (j =< k)
        BY <1>1 DEF RowInv
      <3> QED BY <3>1, <1>3, <1>5
    <2>2. ASSUME NEW j \in 1 .. (k - 1) PROVE a[j].status \in RetriedStatus
      <3>1. j \in Ordinals \ {k}
        BY <1>3, StoreAssumption DEF Ordinals
      <3> QED BY <3>1, <1>1 DEF RowInv
    <2> QED BY <2>1, <2>2
  <1>7. CASE row.status = "SUCCEEDED" /\ row.disposition = "SUCCEEDED"
    <2>1. n = [q EXCEPT !.status = "SUCCEEDED", !.selected = k]
      BY <1>7 DEF RequestAfter
    <2> QED BY <2>1, <1>1, <1>2, <1>3, <1>4, <1>6, <1>7
            DEF RowInv, RequestStatus, ClosedStatus
  <1>8. CASE row.status = "TERMINAL_FAILURE" /\ row.disposition \notin {"NONE", "SUCCEEDED"}
    <2>1. n = [q EXCEPT !.status = "TERMINAL", !.selected = k]
      BY <1>8 DEF RequestAfter
    <2> QED BY <2>1, <1>1, <1>2, <1>3, <1>4, <1>6, <1>8
            DEF RowInv, RequestStatus, ClosedStatus
  <1>9. CASE row.status \in RetriedStatus /\ k < MaxAttempts
    <2>1. n = [q EXCEPT !.status = "PENDING"]
      BY <1>9 DEF RequestAfter, RetriedStatus
    <2> QED BY <2>1, <1>1, <1>2, <1>3, <1>4, <1>6, <1>9
            DEF RowInv, RequestStatus, ClosedStatus, RetriedStatus
  <1> QED BY <1>7, <1>8, <1>9 DEF ClosingRow

----------------------------------------------------------------------------
(* The rows the transactions write.                                        *)

\* Closing an attempt row keeps its type and never moves its time back.
LEMMA CloseRowType ==
    ASSUME NEW row, row \in AttemptRow, NEW s \in AttemptStatus, NEW d \in Disposition,
           NEW t \in Nat
    PROVE  /\ CloseRow(row, s, d, t) \in AttemptRow
           /\ CloseRow(row, s, d, t).status = s
           /\ CloseRow(row, s, d, t).disposition = d
  BY DEF CloseRow, NotBefore, AttemptRow

\* Closing a STARTED row with a final status yields a closing row.
LEMMA CloseRowCloses ==
    ASSUME NEW k, NEW row \in AttemptRow, NEW s \in AttemptStatus, NEW d \in Disposition,
           NEW t \in Nat,
           \/ s = "SUCCEEDED" /\ d = "SUCCEEDED"
           \/ s = "TERMINAL_FAILURE" /\ d \notin {"NONE", "SUCCEEDED"}
           \/ s \in RetriedStatus /\ k < MaxAttempts
    PROVE  ClosingRow(k, CloseRow(row, s, d, t))
  BY CloseRowType DEF ClosingRow

\* The row that start_ibkr_historical_attempt inserts has the type of a row.
LEMMA StartedRowType ==
    ASSUME StoreTypeOK, NEW r \in Requests, NEW k \in Ordinals, Started(r, k)
    PROVE  attempt[r][k] \in AttemptRow
  BY DEF StoreTypeOK, Started, NoAttempt

\* Finalizing, failing and settling a STARTED attempt all write a closing row.
LEMMA FinalizedCloses ==
    ASSUME StoreTypeOK, NEW r \in Requests, NEW k \in Ordinals, Started(r, k), NEW t \in Nat
    PROVE  ClosingRow(k, FinalizedRow(r, k, t))
  <1> DEFINE row == attempt[r][k]
  <1>1. row \in AttemptRow
    BY StartedRowType
  <1>2. "PROVIDER_REJECTED" \in Disposition /\ "SUCCEEDED" \in Disposition
    BY StoreAssumption DEF Disposition
  <1>3. ClosingRow(k, CloseRow(row, "SUCCEEDED", "SUCCEEDED", t))
    BY <1>1, <1>2, CloseRowCloses DEF AttemptStatus
  <1>4. ClosingRow(k, CloseRow(row, "TERMINAL_FAILURE", "PROVIDER_REJECTED", t))
    BY <1>1, <1>2, CloseRowCloses DEF AttemptStatus
  <1> QED BY <1>3, <1>4 DEF FinalizedRow

\* invalidate_ibkr_historical_attempts writes a closing row.
LEMMA InvalidatedCloses ==
    ASSUME StoreTypeOK, NEW r \in Requests, NEW k \in Ordinals, Started(r, k), NEW t \in Nat
    PROVE  ClosingRow(k, InvalidatedRow(r, k, t))
  <1>1. k \in Nat /\ MaxAttempts \in Nat
    BY StoreAssumption DEF Ordinals
  <1> DEFINE row == attempt[r][k]
  <1>2. row \in AttemptRow
    BY StartedRowType
  <1>3. ClosingRow(k, CloseRow(row, "TERMINAL_FAILURE", "RETRY_LIMIT_EXHAUSTED", t))
    BY <1>2, CloseRowCloses DEF AttemptStatus, Disposition
  <1>4. k < MaxAttempts => ClosingRow(k, CloseRow(row, "INVALIDATED", "NONE", t))
    BY <1>2, CloseRowCloses DEF AttemptStatus, Disposition, RetriedStatus
  <1> QED BY <1>1, <1>3, <1>4 DEF InvalidatedRow

\* Recovery finalizes or invalidates: either way a closing row.
LEMMA SettledCloses ==
    ASSUME StoreTypeOK, NEW r \in Requests, NEW k \in Ordinals, Started(r, k), NEW t \in Nat
    PROVE  ClosingRow(k, SettledRow(r, k, t))
  BY FinalizedCloses, InvalidatedCloses DEF SettledRow

\* fail_ibkr_historical_attempt writes a closing row.
LEMMA FailedCloses ==
    ASSUME StoreTypeOK, NEW r \in Requests, NEW k \in Ordinals, Started(r, k), NEW t \in Nat,
           NEW d \in FailureDisposition, NEW b \in BOOLEAN
    PROVE  ClosingRow(k, FailedRow(r, k, d, b, t))
  <1>1. k \in Nat /\ MaxAttempts \in Nat /\ d \in Disposition /\ d \notin {"NONE", "SUCCEEDED"}
    BY StoreAssumption DEF Ordinals, Disposition
  <1> DEFINE row == attempt[r][k]
  <1>2. row \in AttemptRow
    BY StartedRowType
  <1>3. k < MaxAttempts => ClosingRow(k, CloseRow(row, "RETRYABLE_FAILURE", d, t))
    BY <1>1, <1>2, CloseRowCloses DEF AttemptStatus, RetriedStatus
  <1>4. \A e \in {d, "RETRY_LIMIT_EXHAUSTED"} :
            ClosingRow(k, CloseRow(row, "TERMINAL_FAILURE", e, t))
    BY <1>1, <1>2, CloseRowCloses DEF AttemptStatus, Disposition
  <1> QED BY <1>3, <1>4 DEF FailedRow

----------------------------------------------------------------------------
(* Every transaction keeps the invariant.                                  *)

\* The transactions that close one attempt and update its request.
LEMMA CloseAttemptKeepsInv ==
    ASSUME StoreInv, NEW r \in Requests, NEW k \in Ordinals, Started(r, k),
           NEW row, ClosingRow(k, row), CloseAttempt(r, k, row)
    PROVE  StoreInv'
  <1>0. /\ StoreTypeOK
        /\ \A x \in Requests : RowInv(request[x], attempt[x])
        /\ plan = "PUBLISHED" => \A x \in Requests : request[x].result # NoResult
    BY InvByRow
  <1>1. /\ attempt'[r] \in [Ordinals -> AttemptRow \cup {NoAttempt}]
        /\ attempt'[r][k] = row
        /\ \A j \in Ordinals \ {k} : attempt'[r][j] = attempt[r][j]
    BY <1>0 DEF CloseAttempt, StoreTypeOK, ClosingRow
  <1>2. request'[r] = RequestAfter(r, k, row)
    BY <1>0 DEF CloseAttempt, StoreTypeOK
  <1>3. \A x \in Requests \ {r} : request'[x] = request[x] /\ attempt'[x] = attempt[x]
    BY <1>0 DEF CloseAttempt, StoreTypeOK
  <1>4. /\ RowInv(request'[r], attempt'[r])
        /\ request'[r] \in [status : RequestStatus, attempt_count : 0 .. MaxAttempts,
                            selected : 0 .. MaxAttempts, result : Results \cup {NoResult}]
        /\ request'[r].result = request[r].result
    BY <1>0, <1>1, <1>2, CloseKeepsRow
  <1>5. StoreTypeOK'
    BY <1>0, <1>1, <1>3, <1>4 DEF StoreTypeOK, CloseAttempt
  <1>6. \A x \in Requests : RowInv(request'[x], attempt'[x])
    BY <1>0, <1>3, <1>4
  <1>7. plan' = "PUBLISHED" => \A x \in Requests : request'[x].result # NoResult
    BY <1>0, <1>3, <1>4 DEF CloseAttempt
  <1> QED BY <1>5, <1>6, <1>7, InvByRowNext

\* start_ibkr_historical_attempt: PENDING becomes IN_FLIGHT with one more attempt.
LEMMA StartAttemptKeepsInv ==
    ASSUME StoreInv, NEW r \in Requests, NEW s \in Nat, NEW t \in Nat, StartAttempt(r, s, t)
    PROVE  StoreInv'
  <1> DEFINE k == request[r].attempt_count + 1
             row == [status |-> "STARTED", disposition |-> "NONE", session |-> s,
                     started_at |-> t, terminal_at |-> 0]
  <1>0. /\ StoreTypeOK
        /\ \A x \in Requests : RowInv(request[x], attempt[x])
        /\ plan = "PUBLISHED" => \A x \in Requests : request[x].result # NoResult
    BY InvByRow
  <1>1. /\ k \in Ordinals
        /\ request[r] \in [status : RequestStatus, attempt_count : 0 .. MaxAttempts,
                           selected : 0 .. MaxAttempts, result : Results \cup {NoResult}]
        /\ request[r].status = "PENDING"
    BY <1>0, StoreAssumption DEF StartAttempt, CanStart, StoreTypeOK, Ordinals
  <1>2. row \in AttemptRow /\ row # NoAttempt /\ row.status = "STARTED"
    BY DEF AttemptRow, AttemptStatus, Disposition, NoAttempt
  <1>3. /\ attempt' = [attempt EXCEPT ![r][k] = row]
        /\ request' = [request EXCEPT ![r].status = "IN_FLIGHT", ![r].attempt_count = k]
        /\ plan' = plan /\ callbacks' = callbacks
    BY DEF StartAttempt
  <1> HIDE DEF row
  <1>4. /\ attempt'[r] \in [Ordinals -> AttemptRow \cup {NoAttempt}]
        /\ attempt'[r][k] = row
        /\ \A j \in Ordinals \ {k} : attempt'[r][j] = attempt[r][j]
    BY <1>0, <1>1, <1>2, <1>3 DEF StoreTypeOK
  <1>5. request'[r] = [request[r] EXCEPT !.status = "IN_FLIGHT", !.attempt_count = k]
    BY <1>0, <1>3 DEF StoreTypeOK
  <1>6. \A x \in Requests \ {r} : request'[x] = request[x] /\ attempt'[x] = attempt[x]
    BY <1>0, <1>3 DEF StoreTypeOK
  <1>7. /\ request'[r].status = "IN_FLIGHT" /\ request'[r].attempt_count = k
        /\ request'[r].selected = 0 /\ request'[r].result = NoResult
        /\ request'[r] \in [status : RequestStatus, attempt_count : 0 .. MaxAttempts,
                            selected : 0 .. MaxAttempts, result : Results \cup {NoResult}]
    <2>1. request[r].selected = 0 /\ request[r].result = NoResult
      BY <1>0, <1>1 DEF RowInv, ClosedStatus
    <2>2. k \in 0 .. MaxAttempts /\ "IN_FLIGHT" \in RequestStatus
      BY <1>1, StoreAssumption DEF Ordinals, RequestStatus
    <2> HIDE DEF k
    <2> QED BY <2>1, <2>2, <1>1, <1>5
  <1>8. RowInv(request'[r], attempt'[r])
    <2>1. ASSUME NEW j \in Ordinals PROVE (attempt'[r][j] # NoAttempt) <=> (j =< k)
      <3>1. (attempt[r][j] # NoAttempt) <=> (j =< request[r].attempt_count)
        BY <1>0 DEF RowInv
      <3>2. j \in Nat /\ request[r].attempt_count \in Nat
        BY <1>1 DEF Ordinals
      <3> QED BY <3>1, <3>2, <1>2, <1>4
    <2>2. ASSUME NEW j \in 1 .. (k - 1) PROVE attempt'[r][j].status \in RetriedStatus
      <3>1. j \in Ordinals \ {k} /\ j \in Nat /\ request[r].attempt_count \in Nat
            /\ j =< request[r].attempt_count
        BY <1>1, StoreAssumption DEF Ordinals
      <3>2. attempt[r][j].status \in RetriedStatus
        BY <3>1, <1>0, <1>1 DEF RowInv
      <3> QED BY <3>1, <3>2, <1>4
    <2>3. k > 0
      BY <1>1, StoreAssumption DEF Ordinals
    <2> QED BY <2>1, <2>2, <2>3, <1>2, <1>4, <1>7 DEF RowInv
  <1>9. StoreTypeOK'
    BY <1>0, <1>3, <1>4, <1>6, <1>7 DEF StoreTypeOK
  <1>10. plan' = "PUBLISHED" => \A x \in Requests : request'[x].result # NoResult
    BY <1>0, <1>1, <1>3, <1>6, <1>7 DEF RowInv, ClosedStatus
  <1> QED BY <1>0, <1>6, <1>8, <1>9, <1>10, InvByRowNext

\* append_ibkr_historical_callback leaves the request and attempt rows alone.
LEMMA AppendCallbackKeepsInv ==
    ASSUME StoreInv, NEW r \in Requests, NEW k \in Ordinals, NEW p \in Payload,
           NEW m \in BOOLEAN, NEW t \in Nat, AppendCallback(r, k, p, m, t)
    PROVE  StoreInv'
  <1> DEFINE row == [payload |-> p, matches |-> m,
                     closure_eligible |-> Started(r, k) /\ m, received_at |-> t]
  <1>1. row \in CallbackRow
    BY DEF CallbackRow, Started
  <1>2. callbacks' = [callbacks EXCEPT ![r][k] = Append(callbacks[r][k], row)]
    BY DEF AppendCallback
  <1>3. callbacks \in [Requests -> [Ordinals -> Seq(CallbackRow)]]
    BY DEF StoreInv, StoreTypeOK
  <1> HIDE DEF row
  <1>4. Append(callbacks[r][k], row) \in Seq(CallbackRow)
    BY <1>1, <1>3
  <1>5. callbacks' \in [Requests -> [Ordinals -> Seq(CallbackRow)]]
    BY <1>2, <1>3, <1>4
  <1> QED
    BY <1>5 DEF StoreInv, StoreTypeOK, AppendCallback, AttemptsContiguous,
                RequestMatchesAttempts, PendingHasBudget, PublicationIsClosed

\* One transaction may settle attempts of several requests at once.
LEMMA InvalidateAttemptsKeepsInv ==
    ASSUME StoreInv, NEW S, NEW t \in Nat, InvalidateAttempts(S, t)
    PROVE  StoreInv'
  <1> DEFINE RequestRow == [status : RequestStatus, attempt_count : 0 .. MaxAttempts,
                            selected : 0 .. MaxAttempts, result : Results \cup {NoResult}]
  <1>0. /\ StoreTypeOK
        /\ \A x \in Requests : RowInv(request[x], attempt[x])
        /\ plan = "PUBLISHED" => \A x \in Requests : request[x].result # NoResult
    BY InvByRow
  <1>1. ASSUME NEW r \in Requests
        PROVE  /\ attempt'[r] \in [Ordinals -> AttemptRow \cup {NoAttempt}]
               /\ RowInv(request'[r], attempt'[r])
               /\ request'[r] \in RequestRow
               /\ request'[r].result = request[r].result
    <2>1. attempt'[r] = [k \in Ordinals |-> IF k \in Unfinished(r, S)
                                            THEN SettledRow(r, k, t) ELSE attempt[r][k]]
      BY DEF InvalidateAttempts
    <2>2. attempt[r] \in [Ordinals -> AttemptRow \cup {NoAttempt}] /\ request[r] \in RequestRow
      BY <1>0 DEF StoreTypeOK
    <2>3. CASE Unfinished(r, S) = {}
      <3>1. attempt'[r] = attempt[r]
        BY <2>1, <2>2, <2>3
      <3>2. request'[r] = request[r]
        BY <2>3 DEF InvalidateAttempts
      <3> QED BY <3>1, <3>2, <2>2, <1>0
    <2>4. CASE Unfinished(r, S) # {}
      <3>1. PICK k \in Unfinished(r, S) : TRUE
        BY <2>4
      <3>2. k \in Ordinals /\ Started(r, k)
        BY <3>1 DEF Unfinished
      <3>3. Unfinished(r, S) = {k}
        BY <3>1, <3>2, <1>0, StartedIsLast DEF Unfinished
      <3>4. k \in Nat
        BY <3>2, StoreAssumption DEF Ordinals
      <3>5. (CHOOSE i \in Unfinished(r, S) : \A j \in Unfinished(r, S) : j =< i) = k
        BY <3>3, <3>4
      <3>6. request'[r] = RequestAfter(r, k, SettledRow(r, k, t))
        BY <2>4, <3>5 DEF InvalidateAttempts
      <3>7. ClosingRow(k, SettledRow(r, k, t))
        BY <3>2, <1>0, SettledCloses
      <3>8. /\ attempt'[r] \in [Ordinals -> AttemptRow \cup {NoAttempt}]
            /\ attempt'[r][k] = SettledRow(r, k, t)
            /\ \A j \in Ordinals \ {k} : attempt'[r][j] = attempt[r][j]
        BY <2>1, <2>2, <3>2, <3>3, <3>7 DEF ClosingRow
      <3> QED BY <3>2, <3>6, <3>7, <3>8, <1>0, CloseKeepsRow
    <2> QED BY <2>3, <2>4
  <1>2. StoreTypeOK'
    BY <1>0, <1>1 DEF StoreTypeOK, InvalidateAttempts
  <1>3. plan' = "PUBLISHED" => \A x \in Requests : request'[x].result # NoResult
    BY <1>0, <1>1 DEF InvalidateAttempts
  <1> QED BY <1>1, <1>2, <1>3, InvByRowNext

\* mark_ibkr_historical_result_published sees only closed requests.
LEMMA MarkPublishedKeepsInv ==
    ASSUME StoreInv, NEW R \in SUBSET Requests, NEW results \in [R -> Results],
           MarkPublished(results)
    PROVE  StoreInv'
  <1> DEFINE RequestRow == [status : RequestStatus, attempt_count : 0 .. MaxAttempts,
                            selected : 0 .. MaxAttempts, result : Results \cup {NoResult}]
  <1>0. /\ StoreTypeOK
        /\ \A x \in Requests : RowInv(request[x], attempt[x])
        /\ plan = "PUBLISHED" => \A x \in Requests : request[x].result # NoResult
    BY InvByRow
  <1>1. ASSUME NEW r \in Requests
        PROVE  /\ request'[r] \in RequestRow
               /\ RowInv(request'[r], attempt'[r])
               /\ request[r].result # NoResult => request'[r] = request[r]
    <2>1. attempt'[r] = attempt[r] /\ request[r] \in RequestRow
      BY <1>0 DEF MarkPublished, StoreTypeOK
    <2>2. CASE r \in R /\ request[r].result = NoResult
      <3>1. request'[r] = [request[r] EXCEPT !.result = results[r]]
        BY <2>2 DEF MarkPublished
      <3>2. request[r].status \in ClosedStatus
        BY <2>2 DEF MarkPublished, Publishable
      <3>3. results[r] \in Results
        BY <2>2
      <3> QED BY <3>1, <3>2, <3>3, <2>1, <2>2, <1>0 DEF RowInv
    <2>3. CASE ~(r \in R /\ request[r].result = NoResult)
      <3>1. request'[r] = request[r]
        BY <2>3 DEF MarkPublished
      <3> QED BY <3>1, <2>1, <1>0
    <2> QED BY <2>2, <2>3
  <1>2. StoreTypeOK'
    BY <1>0, <1>1 DEF StoreTypeOK, MarkPublished
  <1>3. plan' = "PUBLISHED" => \A x \in Requests : request'[x].result # NoResult
    BY <1>0, <1>1 DEF MarkPublished
  <1> QED BY <1>1, <1>2, <1>3, InvByRowNext

\* Every step of the store, whoever takes it, keeps the invariant.
LEMMA StoreStepKeepsInv ==
    ASSUME StoreInv, [StoreNext]_storeVars
    PROVE  StoreInv'
  <1>1. CASE RegisterPlan
    BY <1>1 DEF RegisterPlan, StoreInv, StoreTypeOK, AttemptsContiguous,
                RequestMatchesAttempts, PendingHasBudget, PublicationIsClosed
  <1>2. CASE \E r \in Requests, s \in Sessions, t \in Times : StartAttempt(r, s, t)
    BY <1>2, StartAttemptKeepsInv, StoreAssumption
  <1>3. CASE \E r \in Requests, k \in Ordinals, p \in Payload, m \in BOOLEAN, t \in Times :
                AppendCallback(r, k, p, m, t)
    BY <1>3, AppendCallbackKeepsInv, StoreAssumption
  <1>4. CASE \E r \in Requests, k \in Ordinals, t \in Times : FinalizeAttempt(r, k, t)
    <2>1. PICK r \in Requests, k \in Ordinals, t \in Times : FinalizeAttempt(r, k, t)
      BY <1>4
    <2>2. t \in Nat /\ StoreTypeOK
      BY StoreAssumption DEF StoreInv
    <2>3. ClosingRow(k, FinalizedRow(r, k, t))
      BY <2>1, <2>2, FinalizedCloses DEF FinalizeAttempt
    <2> QED BY <2>1, <2>3, CloseAttemptKeepsInv DEF FinalizeAttempt
  <1>5. CASE \E r \in Requests, k \in Ordinals, d \in FailureDisposition, b \in BOOLEAN,
                t \in Times : FailAttempt(r, k, d, b, t)
    <2>1. PICK r \in Requests, k \in Ordinals, d \in FailureDisposition, b \in BOOLEAN,
               t \in Times : FailAttempt(r, k, d, b, t)
      BY <1>5
    <2>2. t \in Nat /\ StoreTypeOK
      BY StoreAssumption DEF StoreInv
    <2>3. ClosingRow(k, FailedRow(r, k, d, b, t))
      BY <2>1, <2>2, FailedCloses DEF FailAttempt
    <2> QED BY <2>1, <2>3, CloseAttemptKeepsInv DEF FailAttempt
  <1>6. CASE \E s \in Sessions, t \in Times : InvalidateAttempts({s}, t)
    BY <1>6, InvalidateAttemptsKeepsInv, StoreAssumption
  <1>7. CASE \E t \in Times : InvalidateAttempts(Nat, t)
    BY <1>7, InvalidateAttemptsKeepsInv, StoreAssumption
  <1>8. CASE \E R \in SUBSET Requests : R # {} /\ \E results \in [R -> Results] :
                MarkPublished(results)
    BY <1>8, MarkPublishedKeepsInv
  <1>9. CASE UNCHANGED storeVars
    BY <1>9 DEF storeVars, StoreInv, StoreTypeOK, AttemptsContiguous,
                RequestMatchesAttempts, PendingHasBudget, PublicationIsClosed
  <1> QED
    BY <1>1, <1>2, <1>3, <1>4, <1>5, <1>6, <1>7, <1>8, <1>9 DEF StoreNext

\* A freshly registered plan satisfies the invariant.
LEMMA InitHasInv == StoreInit => StoreInv
  <1> SUFFICES ASSUME StoreInit PROVE StoreInv
    OBVIOUS
  <1>1. StoreTypeOK
    BY StoreAssumption DEF StoreInit, StoreTypeOK, RequestStatus, Ordinals
  <1>2. AttemptsContiguous
    BY StoreAssumption DEF StoreInit, AttemptsContiguous, Ordinals
  <1>3. RequestMatchesAttempts /\ PendingHasBudget /\ PublicationIsClosed
    BY StoreAssumption
       DEF StoreInit, RequestMatchesAttempts, PendingHasBudget, PublicationIsClosed
  <1> QED BY <1>1, <1>2, <1>3 DEF StoreInv

\* Whoever calls the store's methods, in whatever order, the rows of a request
\* and of its attempts stay consistent, budgets are respected and only closed
\* requests are published.
THEOREM StoreIsConsistent == StoreSpec => []StoreInv
  BY InitHasInv, StoreStepKeepsInv, PTL DEF StoreSpec

\* Type correctness of the store.
THEOREM StoreTypeCorrect == StoreSpec => []StoreTypeOK
  <1>1. StoreInv => StoreTypeOK
    BY DEF StoreInv
  <1> QED BY <1>1, StoreIsConsistent, PTL

\* The relation between request and attempt rows that the snapshot verifier
\* checks before an execution resumes.
THEOREM RowsAgree == StoreSpec => []RequestMatchesAttempts
  <1>1. StoreInv => RequestMatchesAttempts
    BY DEF StoreInv
  <1> QED BY <1>1, StoreIsConsistent, PTL

\* The RuntimeError of start_ibkr_historical_attempt is unreachable.
THEOREM BudgetNeverExceeded == StoreSpec => []PendingHasBudget
  <1>1. StoreInv => PendingHasBudget
    BY DEF StoreInv
  <1> QED BY <1>1, StoreIsConsistent, PTL

\* Ordinals of a request's attempts have no holes.
THEOREM OrdinalsHaveNoHoles == StoreSpec => []AttemptsContiguous
  <1>1. StoreInv => AttemptsContiguous
    BY DEF StoreInv
  <1> QED BY <1>1, StoreIsConsistent, PTL

\* Only closed requests have a published result, and a published plan has one
\* for every request.
THEOREM PublishedIsClosed == StoreSpec => []PublicationIsClosed
  <1>1. StoreInv => PublicationIsClosed
    BY DEF StoreInv
  <1> QED BY <1>1, StoreIsConsistent, PTL

----------------------------------------------------------------------------
(* The store implements the plan ledger.                                   *)

\* Before the plan exists no request has moved.
Unregistered == plan = "ABSENT" => \A r \in Requests : request[r].status = "PENDING"

\* A transaction that publishes nothing: it leaves results and closed requests
\* alone, and moves no request of a plan that does not exist.
Quiet ==
    /\ plan' = plan
    /\ \A r \in Requests :
         /\ request'[r].result = request[r].result
         /\ request[r].status \in ClosedStatus => request'[r].status = request[r].status
         /\ plan = "ABSENT" => request'[r].status = request[r].status

\* Such a transaction settles some requests or changes nothing of the ledger.
LEMMA QuietSettles ==
    ASSUME StoreTypeOK, StoreTypeOK', Quiet
    PROVE  [Ledger!Next]_(Ledger!vars)
  <1> DEFINE Out(r) == IF request[r].status \in ClosedStatus THEN request[r].status ELSE "OPEN"
             OutNext(r) ==
                 IF request'[r].status \in ClosedStatus THEN request'[r].status ELSE "OPEN"
             o == [r \in Requests |-> OutNext(r)]
  <1>1. [r \in Requests |-> request'[r].result] = [r \in Requests |-> request[r].result]
    BY DEF Quiet
  <1>2. CASE plan = "ABSENT"
    <2>1. [r \in Requests |-> OutNext(r)] = [r \in Requests |-> Out(r)]
      BY <1>2 DEF Quiet
    <2> QED BY <1>1, <2>1 DEF Ledger!vars, Quiet
  <1>3. CASE plan # "ABSENT"
    <2>1. o \in [Requests -> Ledger!Outcome]
      BY DEF Ledger!Outcome, ClosedStatus
    <2>2. \A r \in Requests : Out(r) # "OPEN" => o[r] = Out(r)
      BY DEF Quiet, ClosedStatus
    <2> HIDE DEF o
    <2>3. Ledger!Settle
      BY <1>1, <1>3, <2>1, <2>2 DEF Ledger!Settle, Quiet, o
    <2> QED BY <2>3 DEF Ledger!Next
  <1> QED BY <1>2, <1>3

\* Closing a STARTED attempt leaves every other request alone, and the request
\* it closes was IN_FLIGHT.
LEMMA CloseAttemptIsQuiet ==
    ASSUME StoreInv, Unregistered, NEW r \in Requests, NEW k \in Ordinals, Started(r, k),
           NEW row, CloseAttempt(r, k, row)
    PROVE  Quiet
  <1>1. StoreTypeOK /\ RowInv(request[r], attempt[r])
    BY InvByRow
  <1>2. request[r].status = "IN_FLIGHT"
    BY <1>1, StartedIsLast
  <1>3. plan # "ABSENT"
    BY <1>2 DEF Unregistered
  <1>4. request'[r] = RequestAfter(r, k, row) /\ \A x \in Requests \ {r} : request'[x] = request[x]
    BY <1>1 DEF CloseAttempt, StoreTypeOK
  <1>5. request[r] \in [status : RequestStatus, attempt_count : 0 .. MaxAttempts,
                        selected : 0 .. MaxAttempts, result : Results \cup {NoResult}]
    BY <1>1 DEF StoreTypeOK
  <1>6. RequestAfter(r, k, row).result = request[r].result
    BY <1>5 DEF RequestAfter
  <1> QED BY <1>2, <1>3, <1>4, <1>6 DEF Quiet, CloseAttempt, ClosedStatus

\* So does a transaction that settles several attempts.
LEMMA InvalidateAttemptsIsQuiet ==
    ASSUME StoreInv, Unregistered, NEW S, NEW t \in Nat, InvalidateAttempts(S, t)
    PROVE  Quiet
  <1>1. StoreTypeOK /\ \A x \in Requests : RowInv(request[x], attempt[x])
    BY InvByRow
  <1>2. ASSUME NEW r \in Requests
        PROVE  /\ request'[r].result = request[r].result
               /\ request[r].status \in ClosedStatus => request'[r].status = request[r].status
               /\ plan = "ABSENT" => request'[r].status = request[r].status
    <2>1. CASE Unfinished(r, S) = {}
      BY <2>1 DEF InvalidateAttempts
    <2>2. CASE Unfinished(r, S) # {}
      <3>1. PICK k \in Ordinals : Started(r, k)
        BY <2>2 DEF Unfinished
      <3>2. request[r].status = "IN_FLIGHT"
        BY <1>1, <3>1, StartedIsLast
      <3>3. PICK j : request'[r] = RequestAfter(r, j, SettledRow(r, j, t))
        BY <2>2 DEF InvalidateAttempts
      <3>4. request[r] \in [status : RequestStatus, attempt_count : 0 .. MaxAttempts,
                            selected : 0 .. MaxAttempts, result : Results \cup {NoResult}]
        BY <1>1 DEF StoreTypeOK
      <3>5. request'[r].result = request[r].result
        BY <3>3, <3>4 DEF RequestAfter
      <3> QED BY <3>2, <3>5 DEF ClosedStatus, Unregistered
    <2> QED BY <2>1, <2>2
  <1> QED BY <1>2 DEF Quiet, InvalidateAttempts

\* Marking results is a publication of the ledger.
LEMMA MarkPublishedPublishes ==
    ASSUME StoreTypeOK, StoreTypeOK', NEW R \in SUBSET Requests,
           NEW results \in [R -> Results], MarkPublished(results)
    PROVE  Ledger!Publish
  <1> DEFINE p == [r \in Requests |-> request'[r].result]
  <1>1. \A r \in Requests : request'[r] \in
             [status : RequestStatus, attempt_count : 0 .. MaxAttempts,
              selected : 0 .. MaxAttempts, result : Results \cup {NoResult}]
    BY DEF StoreTypeOK
  <1>2. p \in [Requests -> Results \cup {NoResult}]
    BY <1>1
  <1>3. ASSUME NEW r \in Requests
        PROVE  /\ request'[r].status = request[r].status
               /\ \/ request'[r].result = request[r].result
                  \/ request[r].result = NoResult /\ request[r].status \in ClosedStatus
    <2>1. request[r] \in [status : RequestStatus, attempt_count : 0 .. MaxAttempts,
                          selected : 0 .. MaxAttempts, result : Results \cup {NoResult}]
      BY DEF StoreTypeOK
    <2>2. CASE r \in R /\ request[r].result = NoResult
      <3>1. request'[r] = [request[r] EXCEPT !.result = results[r]]
        BY <2>2 DEF MarkPublished
      <3>2. request[r].status \in ClosedStatus
        BY <2>2 DEF MarkPublished, Publishable
      <3> QED BY <3>1, <3>2, <2>1, <2>2
    <2>3. CASE ~(r \in R /\ request[r].result = NoResult)
      BY <2>3 DEF MarkPublished
    <2> QED BY <2>2, <2>3
  <1>4. \A r \in Requests : (p[r] = NoResult) <=> (request'[r].result = NoResult)
    OBVIOUS
  <1>5. plan # "ABSENT" /\ plan' = IF \E r \in Requests : p[r] = NoResult THEN plan ELSE "PUBLISHED"
    BY <1>4 DEF MarkPublished
  <1>6. \A r \in Requests :
          \/ p[r] = [x \in Requests |-> request[x].result][r]
          \/ /\ [x \in Requests |-> request[x].result][r] = NoResult
             /\ [x \in Requests |-> IF request[x].status \in ClosedStatus
                                     THEN request[x].status ELSE "OPEN"][r] # "OPEN"
    BY <1>3 DEF ClosedStatus
  <1>7. [r \in Requests |-> IF request'[r].status \in ClosedStatus
                            THEN request'[r].status ELSE "OPEN"]
        = [r \in Requests |-> IF request[r].status \in ClosedStatus
                              THEN request[r].status ELSE "OPEN"]
    BY <1>3
  <1> QED BY <1>2, <1>5, <1>6, <1>7 DEF Ledger!Publish

\* Every step of the store is a step of the ledger or leaves it alone.
LEMMA StoreStepIsLedgerStep ==
    ASSUME StoreInv, StoreInv', Unregistered, [StoreNext]_storeVars
    PROVE  [Ledger!Next]_(Ledger!vars) /\ Unregistered'
  <1>0. StoreTypeOK /\ StoreTypeOK'
    BY DEF StoreInv
  <1>1. Quiet => [Ledger!Next]_(Ledger!vars) /\ Unregistered'
    <2> SUFFICES ASSUME Quiet PROVE Unregistered'
      BY <1>0, QuietSettles
    <2> QED BY DEF Quiet, Unregistered
  <1>2. CASE RegisterPlan
    <2>1. Ledger!Register
      BY <1>2 DEF RegisterPlan, Ledger!Register
    <2> QED BY <2>1, <1>2 DEF Ledger!Next, RegisterPlan, Unregistered
  <1>3. CASE \E r \in Requests, s \in Sessions, t \in Times : StartAttempt(r, s, t)
    <2>1. PICK r \in Requests, s \in Sessions, t \in Times : StartAttempt(r, s, t)
      BY <1>3
    <2>2. plan # "ABSENT" /\ request[r].status = "PENDING"
      BY <2>1 DEF StartAttempt, CanStart
    <2>3. request[r] \in [status : RequestStatus, attempt_count : 0 .. MaxAttempts,
                          selected : 0 .. MaxAttempts, result : Results \cup {NoResult}]
      BY <1>0 DEF StoreTypeOK
    <2>4. request'[r].result = request[r].result
      BY <2>1, <2>3, <1>0 DEF StartAttempt, StoreTypeOK
    <2>5. \A x \in Requests \ {r} : request'[x] = request[x]
      BY <2>1, <1>0 DEF StartAttempt, StoreTypeOK
    <2>6. Quiet
      BY <2>1, <2>2, <2>4, <2>5 DEF Quiet, StartAttempt, ClosedStatus
    <2> QED BY <2>6, <1>1
  <1>4. CASE \E r \in Requests, k \in Ordinals, p \in Payload, m \in BOOLEAN, t \in Times :
                AppendCallback(r, k, p, m, t)
    <2>1. Quiet
      BY <1>4 DEF AppendCallback, Quiet
    <2> QED BY <2>1, <1>1
  <1>5. CASE \E r \in Requests, k \in Ordinals, t \in Times : FinalizeAttempt(r, k, t)
    <2>1. Quiet
      BY <1>5, CloseAttemptIsQuiet DEF FinalizeAttempt
    <2> QED BY <2>1, <1>1
  <1>6. CASE \E r \in Requests, k \in Ordinals, d \in FailureDisposition, b \in BOOLEAN,
                t \in Times : FailAttempt(r, k, d, b, t)
    <2>1. Quiet
      BY <1>6, CloseAttemptIsQuiet DEF FailAttempt
    <2> QED BY <2>1, <1>1
  <1>7. CASE \E s \in Sessions, t \in Times : InvalidateAttempts({s}, t)
    BY <1>7, <1>1, InvalidateAttemptsIsQuiet, StoreAssumption
  <1>8. CASE \E t \in Times : InvalidateAttempts(Nat, t)
    BY <1>8, <1>1, InvalidateAttemptsIsQuiet, StoreAssumption
  <1>9. CASE \E R \in SUBSET Requests : R # {} /\ \E results \in [R -> Results] :
                MarkPublished(results)
    <2>1. Ledger!Publish
      BY <1>9, <1>0, MarkPublishedPublishes
    <2>2. plan' # "ABSENT"
      BY <1>9 DEF MarkPublished
    <2> QED BY <2>1, <2>2 DEF Ledger!Next, Unregistered
  <1>10. CASE UNCHANGED storeVars
    <2>1. Quiet
      BY <1>10 DEF storeVars, Quiet
    <2> QED BY <2>1, <1>1
  <1> QED
    BY <1>2, <1>3, <1>4, <1>5, <1>6, <1>7, <1>8, <1>9, <1>10 DEF StoreNext

\* The store implements the plan ledger for every plan, retry budget and set
\* of callers: initial states map to initial states and every transaction to a
\* ledger step or to none.
THEOREM StoreImplementsLedger == StoreSpec => ImplementsLedger
  <1>1. StoreInit => Ledger!Init /\ Unregistered
    BY DEF StoreInit, Ledger!Init, Unregistered, ClosedStatus
  <1>2. StoreInv /\ StoreInv' /\ Unregistered /\ [StoreNext]_storeVars
           => [Ledger!Next]_(Ledger!vars) /\ Unregistered'
    BY StoreStepIsLedgerStep
  <1> QED BY <1>1, <1>2, StoreIsConsistent, PTL DEF StoreSpec, ImplementsLedger, Ledger!Spec

----------------------------------------------------------------------------
(* Closures and history.                                                   *)

\* The evidence under an attempt: a success has a successful closure, and what
\* counts for a closure came over the attempt's own transport identity.
EvidenceSound ==
    \A r \in Requests, k \in Ordinals :
        /\ attempt[r][k].status = "SUCCEEDED" => ClosureOutcome(r, k) = "SUCCEEDED"
        /\ \A i \in DOMAIN callbacks[r][k] :
             callbacks[r][k][i].closure_eligible => callbacks[r][k][i].matches

\* Only a closure that deserves it is written as a success.
LEMMA SuccessIsDeserved ==
    ASSUME StoreTypeOK, NEW r \in Requests, NEW k \in Ordinals, Started(r, k), NEW t \in Nat
    PROVE  /\ FinalizedRow(r, k, t).status = "SUCCEEDED" => ClosureOutcome(r, k) = "SUCCEEDED"
           /\ SettledRow(r, k, t).status = "SUCCEEDED" => ClosureOutcome(r, k) = "SUCCEEDED"
           /\ \A d, b : FailedRow(r, k, d, b, t).status # "SUCCEEDED"
  <1>1. attempt[r][k] \in AttemptRow
    BY StartedRowType
  <1>2. \A s, d : CloseRow(attempt[r][k], s, d, t).status = s
    BY <1>1 DEF CloseRow, AttemptRow
  <1> HIDE DEF ClosureOutcome
  <1>3. FinalizedRow(r, k, t).status = "SUCCEEDED" => ClosureOutcome(r, k) = "SUCCEEDED"
    BY <1>2 DEF FinalizedRow
  <1>4. InvalidatedRow(r, k, t).status # "SUCCEEDED"
    BY <1>2 DEF InvalidatedRow
  <1>5. \A d, b : FailedRow(r, k, d, b, t).status # "SUCCEEDED"
    BY <1>2 DEF FailedRow
  <1> QED
    BY <1>3, <1>4, <1>5 DEF SettledRow

\* A transaction that files no callback.
LEMMA ClosingKeepsEvidence ==
    ASSUME EvidenceSound, UNCHANGED callbacks,
           \A r \in Requests, k \in Ordinals : attempt'[r][k].status = "SUCCEEDED" =>
               attempt[r][k].status = "SUCCEEDED" \/ ClosureOutcome(r, k) = "SUCCEEDED"
    PROVE  EvidenceSound'
  <1>1. \A r, k : ClosureOutcome(r, k)' = ClosureOutcome(r, k)
    BY DEF ClosureOutcome, FirstMarker, Markers, EligibleBefore
  <1> QED
    BY <1>1 DEF EvidenceSound

\* A late or foreign callback enters no closure of a closed attempt.
LEMMA CallbackKeepsEvidence ==
    ASSUME StoreInv, EvidenceSound, NEW r \in Requests, NEW k \in Ordinals, NEW p \in Payload,
           NEW m \in BOOLEAN, NEW t \in Nat, AppendCallback(r, k, p, m, t)
    PROVE  EvidenceSound'
  <1> DEFINE row == [payload |-> p, matches |-> m,
                     closure_eligible |-> Started(r, k) /\ m, received_at |-> t]
             old == callbacks[r][k]
  <1>1. callbacks \in [Requests -> [Ordinals -> Seq(CallbackRow)]] /\ old \in Seq(CallbackRow)
    BY DEF StoreInv, StoreTypeOK
  <1>2. callbacks' = [callbacks EXCEPT ![r][k] = Append(old, row)] /\ attempt' = attempt
    BY DEF AppendCallback
  <1>3. row.closure_eligible => Started(r, k) /\ row.matches
    OBVIOUS
  <1>4. callbacks'[r][k] = Append(old, row)
    BY <1>1, <1>2
  <1> HIDE DEF row, old
  <1>5. /\ \A i : i \in DOMAIN callbacks'[r][k] <=> i \in DOMAIN callbacks[r][k] \/ i = Len(old) + 1
        /\ Len(old) + 1 \notin DOMAIN callbacks[r][k]
        /\ callbacks'[r][k][Len(old) + 1] = row
        /\ \A i \in DOMAIN callbacks[r][k] : callbacks'[r][k][i] = callbacks[r][k][i]
    <2>1. /\ \A i : i \in DOMAIN Append(old, row) <=> i \in DOMAIN old \/ i = Len(old) + 1
          /\ Len(old) + 1 \notin DOMAIN old
          /\ Append(old, row)[Len(old) + 1] = row
          /\ \A i \in DOMAIN old : Append(old, row)[i] = old[i]
      BY <1>1
    <2>2. callbacks[r][k] = old
      BY DEF old
    <2> QED
      BY <1>4, <2>1, <2>2, Zenon
  <1>6. ASSUME NEW x \in Requests, NEW j \in Ordinals, x # r \/ j # k
        PROVE  callbacks'[x][j] = callbacks[x][j]
    BY <1>1, <1>2, <1>6
  <1>7. ASSUME NEW x \in Requests, NEW j \in Ordinals, attempt'[x][j].status = "SUCCEEDED"
        PROVE  ClosureOutcome(x, j)' = "SUCCEEDED"
    <2>1. ClosureOutcome(x, j) = "SUCCEEDED" /\ attempt[x][j].status = "SUCCEEDED"
      BY <1>2, <1>7 DEF EvidenceSound
    <2>2. CASE x # r \/ j # k
      <3>1. callbacks'[x][j] = callbacks[x][j]
        BY <1>6, <2>2
      <3> QED
        BY <2>1, <3>1 DEF ClosureOutcome, FirstMarker, Markers, EligibleBefore
    <2>3. CASE x = r /\ j = k
      <3>1. ~row.closure_eligible
        BY <1>3, <2>1, <2>3 DEF Started
      <3>2. Markers(x, j)' = Markers(x, j)
        BY <1>5, <2>3, <3>1 DEF Markers, IsMarker
      <3>3. \A n, kind : EligibleBefore(x, j, n, kind)' = EligibleBefore(x, j, n, kind)
        BY <1>5, <2>3, <3>1 DEF EligibleBefore
      <3>4. FirstMarker(x, j)' = FirstMarker(x, j)
        BY <3>2 DEF FirstMarker
      <3> QED
        BY <2>1, <3>2, <3>3, <3>4 DEF ClosureOutcome
    <2> QED
      BY <2>2, <2>3
  <1>8. ASSUME NEW x \in Requests, NEW j \in Ordinals, NEW i \in DOMAIN callbacks'[x][j],
               callbacks'[x][j][i].closure_eligible
        PROVE  callbacks'[x][j][i].matches
    <2>1. CASE x # r \/ j # k
      BY <1>6, <1>8, <2>1 DEF EvidenceSound
    <2>2. CASE x = r /\ j = k
      BY <1>3, <1>5, <1>8, <2>2 DEF EvidenceSound
    <2> QED
      BY <2>1, <2>2
  <1> QED
    BY <1>7, <1>8 DEF EvidenceSound

LEMMA StepKeepsEvidence ==
    ASSUME StoreInv, EvidenceSound, [StoreNext]_storeVars
    PROVE  EvidenceSound'
  <1>0. StoreTypeOK /\ \A t \in Times : t \in Nat
    BY StoreAssumption DEF StoreInv
  <1>1. ASSUME UNCHANGED <<attempt, callbacks>> PROVE EvidenceSound'
    BY <1>1, ClosingKeepsEvidence
  <1>2. ASSUME NEW r \in Requests, NEW s \in Sessions, NEW t \in Times, StartAttempt(r, s, t)
        PROVE  EvidenceSound'
    <2> DEFINE n == request[r].attempt_count + 1
               row == [status |-> "STARTED", disposition |-> "NONE", session |-> s,
                       started_at |-> t, terminal_at |-> 0]
    <2>1. attempt' = [attempt EXCEPT ![r][n] = row] /\ callbacks' = callbacks
      BY <1>2 DEF StartAttempt
    <2>2. row.status = "STARTED"
      OBVIOUS
    <2> HIDE DEF row, n
    <2>3. \A x \in Requests, j \in Ordinals : attempt'[x][j] = attempt[x][j] \/ attempt'[x][j] = row
      BY <1>0, <2>1 DEF StoreTypeOK
    <2> QED
      BY <2>1, <2>2, <2>3, ClosingKeepsEvidence
  <1>3. ASSUME NEW r \in Requests, NEW k \in Ordinals, NEW row, CloseAttempt(r, k, row),
               row.status = "SUCCEEDED" => ClosureOutcome(r, k) = "SUCCEEDED"
        PROVE  EvidenceSound'
    <2>1. attempt' = [attempt EXCEPT ![r][k] = row] /\ callbacks' = callbacks
      BY <1>3 DEF CloseAttempt
    <2>2. \A x \in Requests, j \in Ordinals :
             attempt'[x][j] = attempt[x][j] \/ (x = r /\ j = k /\ attempt'[x][j] = row)
      BY <1>0, <2>1 DEF StoreTypeOK
    <2> QED
      BY <1>3, <2>1, <2>2, ClosingKeepsEvidence
  <1>4. ASSUME NEW r \in Requests, NEW k \in Ordinals, NEW t \in Times,
               FinalizeAttempt(r, k, t)
        PROVE  EvidenceSound'
    BY <1>0, <1>3, <1>4, SuccessIsDeserved DEF FinalizeAttempt
  <1>5. ASSUME NEW r \in Requests, NEW k \in Ordinals, NEW d \in FailureDisposition,
               NEW b \in BOOLEAN, NEW t \in Times, FailAttempt(r, k, d, b, t)
        PROVE  EvidenceSound'
    BY <1>0, <1>3, <1>5, SuccessIsDeserved DEF FailAttempt
  <1>6. ASSUME NEW S, NEW t \in Times, InvalidateAttempts(S, t) PROVE EvidenceSound'
    <2>1. \A r \in Requests, k \in Ordinals :
             \/ attempt'[r][k] = attempt[r][k]
             \/ (Started(r, k) /\ attempt'[r][k] = SettledRow(r, k, t))
      BY <1>6 DEF InvalidateAttempts, Unfinished
    <2> QED
      BY <1>0, <1>6, <2>1, SuccessIsDeserved, ClosingKeepsEvidence DEF InvalidateAttempts
  <1>7. CASE \E r \in Requests, k \in Ordinals, p \in Payload, m \in BOOLEAN, t \in Times :
                AppendCallback(r, k, p, m, t)
    BY <1>0, <1>7, CallbackKeepsEvidence
  <1>8. CASE RegisterPlan \/ (\E results : MarkPublished(results)) \/ UNCHANGED storeVars
    BY <1>1, <1>8 DEF RegisterPlan, MarkPublished, storeVars
  <1> QED
    BY <1>2, <1>4, <1>5, <1>6, <1>7, <1>8 DEF StoreNext

\* A successful attempt keeps a successful closure, made of its own callbacks,
\* whatever late or foreign callbacks are filed afterwards
\* (append_ibkr_historical_callback, _finalize_attempt_locked).
THEOREM SuccessStaysJustified == StoreSpec => []SuccessIsJustified
  <1>1. StoreInit => EvidenceSound
    BY DEF StoreInit, EvidenceSound, NoAttempt
  <1>2. EvidenceSound => SuccessIsJustified
    BY DEF EvidenceSound, SuccessIsJustified
  <1> QED
    BY <1>1, <1>2, StepKeepsEvidence, StoreIsConsistent, PTL DEF StoreSpec

\* What HistoryIsImmutable says of a step.
HistoryKept ==
    /\ \A r \in Requests :
         /\ request[r].status \in ClosedStatus =>
              /\ request'[r].status = request[r].status
              /\ request'[r].selected = request[r].selected
              /\ request'[r].attempt_count = request[r].attempt_count
         /\ request[r].result # NoResult => request'[r].result = request[r].result
    /\ \A r \in Requests, k \in Ordinals :
         /\ attempt[r][k].status \notin {"NONE", "STARTED"} => attempt'[r][k] = attempt[r][k]
         /\ Len(callbacks[r][k]) =< Len(callbacks'[r][k])
         /\ \A i \in DOMAIN callbacks[r][k] : callbacks'[r][k][i] = callbacks[r][k][i]

\* Without a callback, the history is kept if every request either stays as it
\* is or was open, and every attempt either stays or was open.
LEMMA RowsKeepHistory ==
    ASSUME StoreTypeOK, UNCHANGED callbacks,
           \A r \in Requests :
             \/ request'[r] = request[r]
             \/ request[r].status \notin ClosedStatus /\ request'[r].result = request[r].result,
           \A r \in Requests, k \in Ordinals :
             attempt'[r][k] = attempt[r][k] \/ attempt[r][k].status \in {"NONE", "STARTED"}
    PROVE  HistoryKept
  <1>1. \A r \in Requests, k \in Ordinals : Len(callbacks[r][k]) \in Nat
    BY DEF StoreTypeOK
  <1> QED
    BY <1>1 DEF HistoryKept

LEMMA CloseKeepsHistory ==
    ASSUME StoreInv, NEW r \in Requests, NEW k \in Ordinals, Started(r, k), NEW row,
           CloseAttempt(r, k, row)
    PROVE  HistoryKept
  <1>1. StoreTypeOK /\ RowInv(request[r], attempt[r])
    BY InvByRow
  <1>2. request[r].status = "IN_FLIGHT"
    BY <1>1, StartedIsLast
  <1>3. request'[r] = RequestAfter(r, k, row) /\ \A x \in Requests \ {r} : request'[x] = request[x]
    BY <1>1 DEF CloseAttempt, StoreTypeOK
  <1>4. RequestAfter(r, k, row).result = request[r].result
    BY <1>1 DEF RequestAfter, StoreTypeOK
  <1>5. \A x \in Requests, j \in Ordinals :
           attempt'[x][j] = attempt[x][j] \/ attempt[x][j].status \in {"NONE", "STARTED"}
    BY <1>1 DEF CloseAttempt, StoreTypeOK, Started
  <1> QED
    BY <1>1, <1>2, <1>3, <1>4, <1>5, RowsKeepHistory DEF CloseAttempt, ClosedStatus

LEMMA StepKeepsHistory ==
    ASSUME StoreInv, StoreNext
    PROVE  HistoryKept
  <1>0. /\ StoreTypeOK /\ \A r \in Requests : RowInv(request[r], attempt[r])
        /\ \A t \in Times : t \in Nat
    BY InvByRow, StoreAssumption
  <1>1. CASE RegisterPlan
    BY <1>0, <1>1, RowsKeepHistory DEF RegisterPlan
  <1>2. ASSUME NEW r \in Requests, NEW s \in Sessions, NEW t \in Times, StartAttempt(r, s, t)
        PROVE  HistoryKept
    <2> DEFINE n == request[r].attempt_count + 1
    <2>1. n \in Ordinals /\ request[r].status = "PENDING"
      BY <1>0, <1>2, StoreAssumption DEF StartAttempt, CanStart, Ordinals, StoreTypeOK
    <2>2. attempt[r][n] = NoAttempt
      <3>1. request[r].attempt_count \in 0 .. MaxAttempts
        BY <1>0 DEF StoreTypeOK
      <3> QED
        BY <1>0, <2>1, <3>1, StoreAssumption DEF RowInv
    <2>3. \A x \in Requests, j \in Ordinals : attempt'[x][j] = attempt[x][j] \/ (x = r /\ j = n)
      BY <1>0, <1>2 DEF StartAttempt, StoreTypeOK
    <2>4. /\ \A x \in Requests \ {r} : request'[x] = request[x]
          /\ request'[r].result = request[r].result
      BY <1>0, <1>2 DEF StartAttempt, StoreTypeOK
    <2>5. callbacks' = callbacks /\ attempt[r][n].status = "NONE"
      BY <1>2, <2>2 DEF StartAttempt, NoAttempt
    <2> HIDE DEF n
    <2> QED
      BY <1>0, <2>1, <2>3, <2>4, <2>5, RowsKeepHistory DEF ClosedStatus
  <1>3. ASSUME NEW r \in Requests, NEW k \in Ordinals, NEW p \in Payload, NEW m \in BOOLEAN,
               NEW t \in Times, AppendCallback(r, k, p, m, t)
        PROVE  HistoryKept
    <2>1. UNCHANGED <<request, attempt>>
      BY <1>3 DEF AppendCallback
    <2>2. PICK row : callbacks' = [callbacks EXCEPT ![r][k] = Append(callbacks[r][k], row)]
      BY <1>3 DEF AppendCallback
    <2>3. ASSUME NEW x \in Requests, NEW j \in Ordinals
          PROVE  /\ Len(callbacks[x][j]) =< Len(callbacks'[x][j])
                 /\ \A i \in DOMAIN callbacks[x][j] : callbacks'[x][j][i] = callbacks[x][j][i]
      <3>1. callbacks[x][j] \in Seq(CallbackRow)
        BY <1>0 DEF StoreTypeOK
      <3>2. callbacks'[x][j] = callbacks[x][j] \/ callbacks'[x][j] = Append(callbacks[x][j], row)
        BY <1>0, <2>2 DEF StoreTypeOK
      <3> QED
        BY <3>1, <3>2
    <2> QED
      BY <2>1, <2>3 DEF HistoryKept
  <1>4. ASSUME NEW r \in Requests, NEW k \in Ordinals, NEW t \in Times, FinalizeAttempt(r, k, t)
        PROVE  HistoryKept
    BY <1>4, CloseKeepsHistory DEF FinalizeAttempt
  <1>5. ASSUME NEW r \in Requests, NEW k \in Ordinals, NEW d \in FailureDisposition,
               NEW b \in BOOLEAN, NEW t \in Times, FailAttempt(r, k, d, b, t)
        PROVE  HistoryKept
    BY <1>5, CloseKeepsHistory DEF FailAttempt
  <1>6. ASSUME NEW S, NEW t \in Times, InvalidateAttempts(S, t) PROVE HistoryKept
    <2>1. ASSUME NEW r \in Requests
          PROVE  \/ request'[r] = request[r]
                 \/ /\ request[r].status \notin ClosedStatus
                    /\ request'[r].result = request[r].result
      <3>1. CASE Unfinished(r, S) = {}
        BY <1>6, <3>1 DEF InvalidateAttempts
      <3>2. CASE Unfinished(r, S) # {}
        <4>1. PICK k \in Ordinals : Started(r, k)
          BY <3>2 DEF Unfinished
        <4>2. request[r].status = "IN_FLIGHT"
          BY <1>0, <4>1, StartedIsLast
        <4>3. PICK j : request'[r] = RequestAfter(r, j, SettledRow(r, j, t))
          BY <1>6, <3>2 DEF InvalidateAttempts
        <4>4. request'[r].result = request[r].result
          BY <1>0, <4>3 DEF RequestAfter, StoreTypeOK
        <4> QED
          BY <4>2, <4>4 DEF ClosedStatus
      <3> QED
        BY <3>1, <3>2
    <2>2. \A r \in Requests, k \in Ordinals :
             attempt'[r][k] = attempt[r][k] \/ attempt[r][k].status \in {"NONE", "STARTED"}
      BY <1>6 DEF InvalidateAttempts, Unfinished, Started
    <2> QED
      BY <1>0, <1>6, <2>1, <2>2, RowsKeepHistory DEF InvalidateAttempts
  <1>7. ASSUME NEW results, MarkPublished(results) PROVE HistoryKept
    <2>1. UNCHANGED <<attempt, callbacks>>
      BY <1>7 DEF MarkPublished
    <2>2. ASSUME NEW r \in Requests
          PROVE  /\ request'[r].status = request[r].status /\ request'[r].selected = request[r].selected
                 /\ request'[r].attempt_count = request[r].attempt_count
                 /\ request[r].result # NoResult => request'[r].result = request[r].result
      BY <1>0, <1>7 DEF MarkPublished, StoreTypeOK
    <2>3. \A r \in Requests, k \in Ordinals : Len(callbacks[r][k]) \in Nat
      BY <1>0 DEF StoreTypeOK
    <2> QED
      BY <2>1, <2>2, <2>3 DEF HistoryKept
  <1> QED
    BY <1>1, <1>2, <1>3, <1>4, <1>5, <1>6, <1>7 DEF StoreNext

\* No transaction reruns a closed request, changes a closed attempt, replaces a
\* published result or drops a callback, in whatever order its callers come.
THEOREM HistoryStays == StoreSpec => HistoryIsImmutable
  <1>1. StoreInv /\ [StoreNext]_storeVars => [HistoryKept]_storeVars
    BY StepKeepsHistory
  <1>2. StoreSpec => [][HistoryKept]_storeVars
    BY <1>1, StoreIsConsistent, PTL DEF StoreSpec
  <1> QED
    BY <1>2 DEF HistoryIsImmutable, HistoryKept

----------------------------------------------------------------------------
(* The executor and the publisher.                                         *)

Phases == {"down", "verified", "recovered", "running", "closing"}
Positions == InSlot \cup {"idle", "queued", "done", "raised", "cancelled"}

\* Positions of a task that has made the attempt it works on.
Working == InSlot \ {"ready"}

\* The results of one request that a run can build.
Built == [selected : 0 .. MaxAttempts, seen : [Ordinals -> 0 .. (MaxNotices + 2)]]

ExecTypeOK ==
    /\ phase \in Phases
    /\ run \in Nat /\ now \in Nat /\ crashes \in Nat
    /\ task \in [Requests -> Positions]
    /\ cut \in [Requests -> Nat]
    /\ publisher \in {"idle", "built"}
    /\ artifact \in [Requests -> Built] \cup {NoArtifact}
    /\ publisher = "built" => artifact \in [Requests -> Built]

\* Tasks exist only inside an execution, and only one that has made its
\* attempt is past the first await.
TasksHeld ==
    /\ phase \notin {"running", "closing"} => \A r \in Requests : task[r] = "idle"
    /\ phase = "running" => \A r \in Requests : task[r] # "cancelled"
    /\ phase = "closing" => \A r \in Requests : task[r] \in {"idle", "done", "raised", "cancelled"}
    /\ \A r \in Requests : task[r] \in Working => Current(r) \in Ordinals

\* The logs stay within the bound on notices.
LogsBounded ==
    /\ \A r \in Requests, k \in Ordinals :
         /\ Len(callbacks[r][k]) =< MaxNotices + 2
         /\ attempt[r][k] = NoAttempt => callbacks[r][k] = <<>>
    /\ \A r \in Requests :
         /\ task[r] \in {"waiting", "sent"} => Len(callbacks[r][Current(r)]) =< MaxNotices
         /\ task[r] = "persisted" =>
              /\ callbacks[r][Current(r)] # <<>>
              /\ Notice(LastPayload(r)) => Len(callbacks[r][Current(r)]) =< MaxNotices
              /\ LastPayload(r).kind = "SCHEDULE" =>
                    Len(callbacks[r][Current(r)]) =< MaxNotices + 1

ExecInv == StoreInv /\ ExecTypeOK /\ TasksHeld /\ LogsBounded /\ NoOrphanAttempt

----------------------------------------------------------------------------
(* What the store's transactions leave alone.                              *)

\* A transaction that neither starts an attempt nor appends a callback: it
\* closes some STARTED attempts and keeps everything else of the attempts.
Settles ==
    /\ callbacks' = callbacks
    /\ \A r \in Requests : request'[r].attempt_count = request[r].attempt_count
    /\ \A r \in Requests, k \in Ordinals :
         \/ attempt'[r][k] = attempt[r][k]
         \/ /\ Started(r, k)
            /\ attempt'[r][k] \in AttemptRow /\ attempt'[r][k].status # "STARTED"

\* A step that publishes nothing and leaves closed requests alone.
Calm ==
    \A r \in Requests :
        /\ request'[r].result = request[r].result
        /\ request[r].status \in ClosedStatus =>
             request'[r] = request[r] /\ callbacks'[r] = callbacks[r]

\* The STARTED attempt of a request is its last one.
LEMMA StartedIsCurrent ==
    ASSUME StoreInv, NEW r \in Requests, NEW k \in Ordinals, Started(r, k)
    PROVE  k = Current(r) /\ request[r].status = "IN_FLIGHT"
  BY InvByRow, StartedIsLast DEF Current

\* A step that leaves the store alone keeps its invariant.
LEMMA SameStoreKeeps ==
    ASSUME StoreInv, UNCHANGED storeVars
    PROVE  StoreInv' /\ Settles /\ Calm
  <1>1. plan' = plan /\ request' = request /\ attempt' = attempt /\ callbacks' = callbacks
    BY DEF storeVars
  <1> QED
    BY <1>1 DEF StoreInv, StoreTypeOK, AttemptsContiguous, RequestMatchesAttempts,
                PendingHasBudget, PublicationIsClosed, Settles, Calm

\* Closing one attempt.
LEMMA CloseSettles ==
    ASSUME StoreInv, NEW r \in Requests, NEW k \in Ordinals, Started(r, k),
           NEW row, ClosingRow(k, row), CloseAttempt(r, k, row)
    PROVE  /\ StoreInv' /\ Settles /\ Calm
           /\ attempt'[r][k] = row
           /\ \A x \in Requests, j \in Ordinals : x # r \/ j # k => attempt'[x][j] = attempt[x][j]
           /\ \A j \in Ordinals : attempt'[r][j].status # "STARTED"
  <1>1. StoreInv'
    BY CloseAttemptKeepsInv
  <1>2. /\ request \in [Requests -> [status : RequestStatus, attempt_count : 0 .. MaxAttempts,
                                     selected : 0 .. MaxAttempts, result : Results \cup {NoResult}]]
        /\ attempt \in [Requests -> [Ordinals -> AttemptRow \cup {NoAttempt}]]
    BY DEF StoreInv, StoreTypeOK
  <1>3. row \in AttemptRow /\ row.status # "STARTED"
    BY DEF ClosingRow, RetriedStatus
  <1>4. /\ attempt'[r][k] = row
        /\ \A x \in Requests, j \in Ordinals : x # r \/ j # k => attempt'[x][j] = attempt[x][j]
    BY <1>2 DEF CloseAttempt
  <1>5. Calm /\ \A x \in Requests : request'[x].attempt_count = request[x].attempt_count
    <2>1. /\ request'[r] = RequestAfter(r, k, row)
          /\ \A x \in Requests \ {r} : request'[x] = request[x]
      BY <1>2 DEF CloseAttempt
    <2>2. /\ RequestAfter(r, k, row).attempt_count = request[r].attempt_count
          /\ RequestAfter(r, k, row).result = request[r].result
      BY <1>2 DEF RequestAfter
    <2>3. request[r].status \notin ClosedStatus
      BY StartedIsCurrent DEF ClosedStatus
    <2> QED BY <2>1, <2>2, <2>3 DEF Calm, CloseAttempt
  <1>6. Settles
    BY <1>3, <1>4, <1>5 DEF Settles, CloseAttempt
  <1>7. \A j \in Ordinals : attempt'[r][j].status # "STARTED"
    <2>1. ASSUME NEW j \in Ordinals, j # k PROVE attempt[r][j].status # "STARTED"
      BY <2>1, StartedIsCurrent DEF Started
    <2> QED BY <1>3, <1>4, <2>1
  <1> QED BY <1>1, <1>4, <1>5, <1>6, <1>7

\* Settling the attempts of some sessions leaves none of theirs STARTED.
LEMMA InvalidateSettles ==
    ASSUME StoreInv, NEW S, NEW t \in Nat, InvalidateAttempts(S, t)
    PROVE  /\ StoreInv' /\ Settles /\ Calm
           /\ \A r \in Requests, k \in Ordinals :
                /\ attempt'[r][k].status = "STARTED" => attempt[r][k].session \notin S
                /\ attempt'[r][k] = IF k \in Unfinished(r, S) THEN SettledRow(r, k, t)
                                                              ELSE attempt[r][k]
  <1>1. StoreInv'
    BY InvalidateAttemptsKeepsInv
  <1>2. StoreTypeOK
    BY DEF StoreInv
  <1>3. ASSUME NEW r \in Requests, NEW k \in Ordinals
        PROVE  attempt'[r][k] = IF k \in Unfinished(r, S) THEN SettledRow(r, k, t)
                                                          ELSE attempt[r][k]
    BY DEF InvalidateAttempts
  <1>4. ASSUME NEW r \in Requests, NEW k \in Ordinals, k \in Unfinished(r, S)
        PROVE  Started(r, k) /\ attempt'[r][k] \in AttemptRow /\ attempt'[r][k].status # "STARTED"
    <2>1. Started(r, k)
      BY <1>4 DEF Unfinished
    <2>2. ClosingRow(k, SettledRow(r, k, t))
      BY <2>1, <1>2, SettledCloses
    <2> QED BY <1>3, <1>4, <2>1, <2>2 DEF ClosingRow, RetriedStatus
  <1>5. ASSUME NEW r \in Requests
        PROVE  /\ request'[r].attempt_count = request[r].attempt_count
               /\ request'[r].result = request[r].result
               /\ request[r].status \in ClosedStatus => request'[r] = request[r]
    <2>1. request[r] \in [status : RequestStatus, attempt_count : 0 .. MaxAttempts,
                          selected : 0 .. MaxAttempts, result : Results \cup {NoResult}]
      BY <1>2 DEF StoreTypeOK
    <2>2. CASE Unfinished(r, S) = {}
      BY <2>2 DEF InvalidateAttempts
    <2>3. CASE Unfinished(r, S) # {}
      <3>1. PICK k : request'[r] = RequestAfter(r, k, SettledRow(r, k, t))
        BY <2>3 DEF InvalidateAttempts
      <3>2. request[r].status \notin ClosedStatus
        BY <2>3, StartedIsCurrent DEF Unfinished, ClosedStatus
      <3> QED BY <2>1, <3>1, <3>2 DEF RequestAfter
    <2> QED BY <2>2, <2>3
  <1>6. Settles
    BY <1>3, <1>4, <1>5 DEF Settles, InvalidateAttempts
  <1>8. Calm
    BY <1>5 DEF Calm, InvalidateAttempts
  <1>7. ASSUME NEW r \in Requests, NEW k \in Ordinals, attempt'[r][k].status = "STARTED"
        PROVE  attempt[r][k].session \notin S
    BY <1>3, <1>4, <1>7 DEF Unfinished, Started
  <1> QED BY <1>1, <1>3, <1>6, <1>7, <1>8

\* Publishing writes results only.
LEMMA PublishSettles ==
    ASSUME StoreInv, NEW results \in [Requests -> Results], MarkPublished(results)
    PROVE  /\ StoreInv' /\ Settles
           /\ attempt' = attempt
           /\ \A r \in Requests :
                /\ request'[r].status = request[r].status
                /\ request'[r].selected = request[r].selected
                /\ request'[r].result = IF request[r].result = NoResult THEN results[r]
                                        ELSE request[r].result
  <1>1. StoreInv'
    BY MarkPublishedKeepsInv
  <1>2. \A r \in Requests :
            request[r] \in [status : RequestStatus, attempt_count : 0 .. MaxAttempts,
                            selected : 0 .. MaxAttempts, result : Results \cup {NoResult}]
    BY DEF StoreInv, StoreTypeOK
  <1>3. \A r \in Requests :
            request'[r] = IF request[r].result = NoResult
                          THEN [request[r] EXCEPT !.result = results[r]] ELSE request[r]
    BY DEF MarkPublished
  <1> QED BY <1>1, <1>2, <1>3 DEF Settles, MarkPublished

----------------------------------------------------------------------------
(* Every STARTED attempt has someone who will close it.                    *)

\* What the invariant says of the tasks, for a step that settles attempts.
LEMMA SettlingKeeps ==
    ASSUME ExecInv, StoreInv', Settles, ExecTypeOK', TasksHeld', NoOrphanAttempt',
           \A r \in Requests : task'[r] \in {"waiting", "persisted"} => task'[r] = task[r],
           \A r \in Requests : task'[r] = "sent" =>
               task[r] = "sent" \/ Len(callbacks[r][Current(r)]) =< MaxNotices
    PROVE  ExecInv'
  <1>1. LogsBounded'
    <2>1. \A r \in Requests, k \in Ordinals :
             attempt'[r][k] = NoAttempt => attempt[r][k] = NoAttempt
      BY DEF Settles, NoAttempt, AttemptRow, AttemptStatus
    <2>2. /\ callbacks' = callbacks
          /\ \A r \in Requests : request'[r].attempt_count = request[r].attempt_count
      BY DEF Settles
    <2> QED BY <2>1, <2>2 DEF ExecInv, LogsBounded, Current, LastPayload, Notice
  <1> QED BY <1>1 DEF ExecInv

\* A task moves on in a step that settles attempts.
LEMMA MoveKeeps ==
    ASSUME ExecInv, StoreInv', Settles, NEW r \in Requests, phase = "running",
           NEW pos \in Positions \ {"cancelled", "waiting", "persisted"},
           task' = [task EXCEPT ![r] = pos], UNCHANGED <<phase, run, crashes, pubVars>>,
           cut' \in [Requests -> Nat], now' \in Nat,
           pos \in Working => task[r] \in Working,
           pos = "sent" => Len(callbacks[r][Current(r)]) =< MaxNotices,
           pos \in {"idle", "queued", "ready", "done"} =>
               \A k \in Ordinals : attempt'[r][k].status # "STARTED"
    PROVE  ExecInv'
  <1>1. /\ task \in [Requests -> Positions]
        /\ task'[r] = pos /\ \A x \in Requests \ {r} : task'[x] = task[x]
    BY DEF ExecInv, ExecTypeOK
  <1>2. ExecTypeOK'
    BY <1>1 DEF ExecInv, ExecTypeOK, pubVars
  <1>3. TasksHeld'
    <2>1. \A x \in Requests : Current(x)' = Current(x)
      BY DEF Settles, Current
    <2> QED BY <1>1, <2>1 DEF ExecInv, TasksHeld
  <1>4. NoOrphanAttempt'
    <2>1. ASSUME NEW x \in Requests, NEW k \in Ordinals, attempt'[x][k].status = "STARTED"
          PROVE  /\ attempt'[x][k].session = run
                 /\ task'[x] \notin {"idle", "queued", "ready", "done"}
      <3>1. attempt'[x][k] = attempt[x][k]
        BY <2>1 DEF Settles
      <3>2. Started(x, k)
        BY <3>1, <2>1 DEF Started
      <3>3. attempt[x][k].session = run /\ task[x] \notin {"idle", "queued", "ready", "done"}
        BY <3>2 DEF ExecInv, NoOrphanAttempt
      <3> QED BY <3>1, <3>3, <2>1, <1>1
    <2> QED BY <2>1 DEF NoOrphanAttempt, Started
  <1>5. /\ \A x \in Requests : task'[x] \in {"waiting", "persisted"} => task'[x] = task[x]
        /\ \A x \in Requests : task'[x] = "sent" =>
               task[x] = "sent" \/ Len(callbacks[x][Current(x)]) =< MaxNotices
    BY <1>1
  <1> QED BY <1>2, <1>3, <1>4, <1>5, SettlingKeeps

\* The task's own attempt is closed, or was never STARTED: it is free to go on.
LEMMA NothingOwn ==
    ASSUME StoreInv, NEW r \in Requests,
           \/ request[r].status # "IN_FLIGHT"
           \/ Current(r) \in Ordinals /\ ~Started(r, Current(r))
    PROVE  \A k \in Ordinals : attempt[r][k].status # "STARTED"
  BY StartedIsCurrent DEF Started

\* The steps of a task that leave the store alone.
LEMMA TaskStepKeeps ==
    ASSUME ExecInv, NEW r \in Requests, UNCHANGED storeVars,
           \/ StartRequest(r) \/ Send(r) \/ Continue(r) \/ Return(r) \/ RaiseError(r)
           \/ Timeout(r) \/ LoseConnection(r) \/ LoseIntegrity(r) \/ Malformed(r)
    PROVE  ExecInv'
  <1>0. StoreInv' /\ Settles
    BY SameStoreKeeps DEF ExecInv
  <1>t. now \in Nat /\ cut \in [Requests -> Nat]
    BY DEF ExecInv, ExecTypeOK
  <1>1. CASE StartRequest(r)
    <2>1. CASE CanStart(r)
      <3>1. request' = [request EXCEPT ![r].status = "IN_FLIGHT",
                                       ![r].attempt_count = request[r].attempt_count + 1]
        BY <1>1, <2>1 DEF StartRequest, StartAttempt
      <3>2. request \in [Requests -> [status : RequestStatus, attempt_count : 0 .. MaxAttempts,
                                selected : 0 .. MaxAttempts, result : Results \cup {NoResult}]]
        BY DEF ExecInv, StoreInv, StoreTypeOK
      <3>3. request'[r].status = "IN_FLIGHT"
        BY <3>1, <3>2
      <3>4. request[r].status = "PENDING"
        BY <2>1 DEF CanStart
      <3>5. request' = request
        BY DEF storeVars
      <3> QED BY <3>3, <3>4, <3>5
    <2>2. CASE ~CanStart(r)
      <3> DEFINE pos == IF request[r].status # "PENDING" THEN "done" ELSE "raised"
      <3>1. /\ task' = [task EXCEPT ![r] = pos] /\ phase = "running" /\ now' = now
            /\ task[r] \in {"ready", "queued"}
            /\ UNCHANGED <<phase, run, crashes, pubVars>> /\ cut' = cut
        BY <1>1, <2>2 DEF StartRequest, Move
      <3>2. \A k \in Ordinals : attempt'[r][k].status # "STARTED"
        BY <3>1 DEF ExecInv, NoOrphanAttempt, Started, storeVars
      <3>3. pos \in {"done", "raised"}
        OBVIOUS
      <3>4. /\ pos \in Positions \ {"cancelled", "waiting", "persisted"}
            /\ pos # "sent" /\ pos \notin Working
        BY <3>3 DEF Positions, Working, InSlot
      <3> HIDE DEF pos
      <3> QED BY <1>0, <1>t, <3>1, <3>2, <3>4, MoveKeeps
    <2> QED BY <2>1, <2>2
  <1>2. CASE Send(r)
    <2>1. /\ task' = [task EXCEPT ![r] = "sent"] /\ phase = "running" /\ now' = now
          /\ task[r] = "waiting"
          /\ UNCHANGED <<phase, run, crashes, pubVars>> /\ cut' = cut
      BY <1>2 DEF Send, Move
    <2>2. Len(callbacks[r][Current(r)]) =< MaxNotices
      BY <2>1 DEF ExecInv, LogsBounded
    <2>3. "sent" \in Positions /\ "waiting" \in Working
      BY DEF Positions, InSlot, Working
    <2> QED BY <1>0, <1>t, <2>1, <2>2, <2>3, MoveKeeps
  <1>3. CASE Continue(r)
    <2>1. /\ task' = [task EXCEPT ![r] = "sent"] /\ phase = "running" /\ now' = now
          /\ task[r] = "persisted" /\ Notice(LastPayload(r))
          /\ UNCHANGED <<phase, run, crashes, pubVars>> /\ cut' = cut
      BY <1>3 DEF Continue, Move
    <2>2. Len(callbacks[r][Current(r)]) =< MaxNotices
      BY <2>1 DEF ExecInv, LogsBounded
    <2>3. "sent" \in Positions /\ "persisted" \in Working
      BY DEF Positions, InSlot, Working
    <2> QED BY <1>0, <1>t, <2>1, <2>2, <2>3, MoveKeeps
  <1>4. ASSUME \/ Return(r) \/ RaiseError(r) \/ Malformed(r)
               \/ Timeout(r) \/ LoseConnection(r) \/ LoseIntegrity(r)
        PROVE  ExecInv'
    <2>1. /\ phase = "running" /\ task[r] \in Awaiting
          /\ UNCHANGED <<phase, run, crashes, pubVars>>
      BY <1>4 DEF Return, RaiseError, Timeout, LoseConnection, LoseIntegrity, Malformed, Awaiting
    <2>2. /\ cut' \in [Requests -> Nat] /\ now' \in Nat
          /\ \E pos \in {"answered", "invalidating", "retryable", "incomplete", "terminal", "raised"} :
                 task' = [task EXCEPT ![r] = pos]
      BY <1>4, <1>t DEF Return, RaiseError, Malformed, Timeout, LoseConnection, LoseIntegrity,
                        Move, EnterDisconnect
    <2>3. PICK pos \in {"answered", "invalidating", "retryable", "incomplete", "terminal", "raised"} :
                 task' = [task EXCEPT ![r] = pos]
      BY <2>2
    <2>4. /\ pos \in Positions \ {"cancelled", "waiting", "persisted"} /\ pos # "sent"
          /\ pos \notin {"idle", "queued", "ready", "done"} /\ task[r] \in Working
      BY <2>1, <2>3 DEF Positions, InSlot, Working, Awaiting
    <2> QED BY <1>0, <2>1, <2>2, <2>3, <2>4, MoveKeeps
  <1> QED BY <1>1, <1>2, <1>3, <1>4

\* The steps of a task that close attempts.
LEMMA CloseStepKeeps ==
    ASSUME ExecInv, NEW r \in Requests,
           InvalidateSession(r) \/ FailRequest(r) \/ FinalizeRequest(r)
    PROVE  ExecInv'
  <1>0. /\ StoreInv /\ StoreTypeOK /\ now \in Nat /\ cut \in [Requests -> Nat]
        /\ task \in [Requests -> Positions]
    BY DEF ExecInv, ExecTypeOK, StoreInv
  <1>1. CASE InvalidateSession(r)
    <2>1. /\ phase = "running" /\ task[r] = "invalidating"
          /\ task' = [task EXCEPT ![r] = "raised"]
          /\ UNCHANGED <<phase, run, crashes, pubVars>> /\ now' = now
          /\ cut' = [cut EXCEPT ![r] = 0]
      BY <1>1 DEF InvalidateSession, Move
    <2>2. StoreInv' /\ Settles
      BY <1>0, <1>1, InvalidateSettles DEF InvalidateSession
    <2>3. cut' \in [Requests -> Nat]
      BY <1>0, <2>1
    <2>4. "raised" \in Positions /\ "raised" \notin Working
      BY DEF Positions, Working, InSlot
    <2> QED BY <1>0, <2>1, <2>2, <2>3, <2>4, MoveKeeps
  <1>2. ASSUME FailRequest(r) \/ FinalizeRequest(r)
        PROVE  ExecInv'
    <2>1. /\ phase = "running" /\ task[r] \in {"terminal", "retryable", "incomplete", "answered"}
          /\ UNCHANGED <<phase, run, crashes, pubVars>> /\ now' = now /\ cut' = cut
      BY <1>2 DEF FailRequest, FinalizeRequest
    <2>2. task[r] \in Working /\ Current(r) \in Ordinals
      BY <2>1 DEF ExecInv, TasksHeld, Working, InSlot
    <2>3. CASE /\ FinalizeRequest(r) /\ UNCHANGED storeVars
               /\ task' = [task EXCEPT ![r] = "incomplete"]
      <3>1. "incomplete" \in Positions
        BY DEF Positions, InSlot
      <3> QED BY <1>0, <2>1, <2>2, <2>3, <3>1, SameStoreKeeps, MoveKeeps
    <2>4. CASE /\ StoreInv' /\ Settles
               /\ \A k \in Ordinals : attempt'[r][k].status # "STARTED"
               /\ \E pos \in {"ready", "done"} : task' = [task EXCEPT ![r] = pos]
      <3>1. PICK pos \in {"ready", "done"} : task' = [task EXCEPT ![r] = pos]
        BY <2>4
      <3>2. pos \in Positions \ {"cancelled", "waiting", "persisted"}
        BY <3>1 DEF Positions, InSlot
      <3> QED BY <1>0, <2>1, <2>2, <2>4, <3>1, <3>2, MoveKeeps
    <2>5. CASE ~Started(r, Current(r))
      <3>1. UNCHANGED storeVars /\ LoopOn(r, request'[r].status)
        BY <1>2, <2>5 DEF FailRequest, FinalizeRequest
      <3>2. \A k \in Ordinals : attempt'[r][k].status # "STARTED"
        BY <1>0, <2>2, <2>5, <3>1, NothingOwn DEF storeVars
      <3>3. \E pos \in {"ready", "done"} : task' = [task EXCEPT ![r] = pos]
        BY <3>1 DEF LoopOn, Move
      <3> QED BY <1>0, <2>4, <3>1, <3>2, <3>3, SameStoreKeeps
    <2>6. CASE Started(r, Current(r)) /\ FailRequest(r)
      <3>1. FailureOf(r) \in FailureDisposition
        BY ExecutionAssumption DEF FailureOf
      <3>2. /\ CloseAttempt(r, Current(r),
                   FailedRow(r, Current(r), FailureOf(r), task[r] = "retryable", now))
            /\ LoopOn(r, request'[r].status)
        BY <2>6 DEF FailRequest, FailAttempt
      <3>3. ClosingRow(Current(r),
                FailedRow(r, Current(r), FailureOf(r), task[r] = "retryable", now))
        BY <1>0, <2>2, <2>6, <3>1, FailedCloses
      <3>4. StoreInv' /\ Settles /\ \A k \in Ordinals : attempt'[r][k].status # "STARTED"
        BY <1>0, <2>2, <2>6, <3>2, <3>3, CloseSettles
      <3>5. \E pos \in {"ready", "done"} : task' = [task EXCEPT ![r] = pos]
        BY <3>2 DEF LoopOn, Move
      <3> QED BY <2>4, <3>4, <3>5
    <2>7. CASE /\ Started(r, Current(r)) /\ FinalizeRequest(r)
               /\ ClosureOutcome(r, Current(r)) = "INCOMPLETE"
      BY <2>3, <2>7 DEF FinalizeRequest, Move
    <2>8. CASE /\ Started(r, Current(r)) /\ FinalizeRequest(r)
               /\ ClosureOutcome(r, Current(r)) # "INCOMPLETE"
      <3>1. /\ CloseAttempt(r, Current(r), FinalizedRow(r, Current(r), now))
            /\ LoopOn(r, request'[r].status)
        BY <2>8 DEF FinalizeRequest, FinalizeAttempt
      <3>2. ClosingRow(Current(r), FinalizedRow(r, Current(r), now))
        BY <1>0, <2>2, <2>8, FinalizedCloses
      <3>3. StoreInv' /\ Settles /\ \A k \in Ordinals : attempt'[r][k].status # "STARTED"
        BY <1>0, <2>2, <2>8, <3>1, <3>2, CloseSettles
      <3>4. \E pos \in {"ready", "done"} : task' = [task EXCEPT ![r] = pos]
        BY <3>1 DEF LoopOn, Move
      <3> QED BY <2>4, <3>3, <3>4
    <2> QED BY <1>2, <2>5, <2>6, <2>7, <2>8
  <1> QED BY <1>1, <1>2

\* A new attempt: the request's log for it is empty, and its task waits.
LEMMA StartsAttempt ==
    ASSUME ExecInv, NEW r \in Requests, StartRequest(r), CanStart(r)
    PROVE  LET k == request[r].attempt_count + 1 IN
           /\ k \in Ordinals /\ StoreInv'
           /\ attempt[r][k] = NoAttempt
           /\ attempt'[r][k] = [status |-> "STARTED", disposition |-> "NONE", session |-> run,
                                started_at |-> now, terminal_at |-> 0]
           /\ \A x \in Requests, j \in Ordinals : x # r \/ j # k => attempt'[x][j] = attempt[x][j]
           /\ request'[r].attempt_count = k /\ request'[r].result = request[r].result
           /\ \A x \in Requests \ {r} : request'[x] = request[x]
           /\ callbacks' = callbacks /\ callbacks[r][k] = <<>>
           /\ Calm
  <1> DEFINE k == request[r].attempt_count + 1
             row == [status |-> "STARTED", disposition |-> "NONE", session |-> run,
                     started_at |-> now, terminal_at |-> 0]
  <1>1. StartAttempt(r, run, now) /\ run \in Nat /\ now \in Nat /\ StoreInv /\ StoreTypeOK
    BY DEF StartRequest, ExecInv, ExecTypeOK, StoreInv
  <1>2. StoreInv'
    BY <1>1, StartAttemptKeepsInv
  <1>3. /\ request \in [Requests -> [status : RequestStatus, attempt_count : 0 .. MaxAttempts,
                                     selected : 0 .. MaxAttempts, result : Results \cup {NoResult}]]
        /\ attempt \in [Requests -> [Ordinals -> AttemptRow \cup {NoAttempt}]]
    BY <1>1 DEF StoreTypeOK
  <1>4. k \in Ordinals
    BY <1>3, StoreAssumption DEF CanStart, Ordinals
  <1>5. attempt[r][k] = NoAttempt
    <2>1. ~(k =< request[r].attempt_count)
      BY <1>3
    <2> QED BY <1>1, <1>4, <2>1 DEF StoreInv, AttemptsContiguous
  <1>6. /\ attempt' = [attempt EXCEPT ![r][k] = row]
        /\ request' = [request EXCEPT ![r].status = "IN_FLIGHT", ![r].attempt_count = k]
        /\ callbacks' = callbacks
    BY <1>1 DEF StartAttempt
  <1>7. callbacks[r][k] = <<>>
    BY <1>4, <1>5 DEF ExecInv, LogsBounded
  <1> HIDE DEF row, k
  <1>8. /\ attempt'[r][k] = row
        /\ \A x \in Requests, j \in Ordinals : x # r \/ j # k => attempt'[x][j] = attempt[x][j]
    BY <1>3, <1>4, <1>6
  <1>9. /\ request'[r].attempt_count = k /\ request'[r].result = request[r].result
        /\ \A x \in Requests \ {r} : request'[x] = request[x]
    BY <1>3, <1>6
  <1>10. Calm
    BY <1>6, <1>9 DEF Calm, CanStart, ClosedStatus
  <1> QED BY <1>2, <1>4, <1>5, <1>6, <1>7, <1>8, <1>9, <1>10 DEF row, k

\* A task that starts an attempt keeps the invariant: it waits with an empty log.
LEMMA StartKeeps ==
    ASSUME ExecInv, NEW r \in Requests, StartRequest(r), CanStart(r)
    PROVE  ExecInv'
  <1> DEFINE k == request[r].attempt_count + 1
             row == [status |-> "STARTED", disposition |-> "NONE", session |-> run,
                     started_at |-> now, terminal_at |-> 0]
  <1>0. /\ k \in Ordinals /\ StoreInv'
        /\ attempt[r][k] = NoAttempt
        /\ attempt'[r][k] = row
        /\ \A x \in Requests, j \in Ordinals : x # r \/ j # k => attempt'[x][j] = attempt[x][j]
        /\ request'[r].attempt_count = k
        /\ \A x \in Requests \ {r} : request'[x] = request[x]
        /\ callbacks' = callbacks /\ callbacks[r][k] = <<>>
    BY StartsAttempt
  <1>1. row # NoAttempt /\ row.session = run
    BY DEF NoAttempt
  <1> HIDE DEF k, row
  <1>2. /\ phase = "running" /\ task' = [task EXCEPT ![r] = "waiting"] /\ now' = now + 1
        /\ UNCHANGED <<phase, run, crashes, pubVars>> /\ cut' = cut
    BY DEF StartRequest, Move
  <1>3. /\ task \in [Requests -> Positions] /\ "waiting" \in Positions
        /\ task'[r] = "waiting" /\ \A x \in Requests \ {r} : task'[x] = task[x]
    BY <1>2 DEF ExecInv, ExecTypeOK, Positions, InSlot
  <1>4. ExecTypeOK'
    BY <1>2, <1>3 DEF ExecInv, ExecTypeOK, pubVars
  <1>5. TasksHeld'
    <2>1. \A x \in Requests \ {r} : Current(x)' = Current(x)
      BY <1>0 DEF Current
    <2>2. Current(r)' = k
      BY <1>0 DEF Current
    <2> QED BY <1>0, <1>2, <1>3, <2>1, <2>2 DEF ExecInv, TasksHeld
  <1>6. NoOrphanAttempt'
    <2>1. ASSUME NEW x \in Requests, NEW j \in Ordinals, attempt'[x][j].status = "STARTED"
          PROVE  /\ attempt'[x][j].session = run
                 /\ task'[x] \notin {"idle", "queued", "ready", "done"}
      <3>1. CASE x = r /\ j = k
        BY <3>1, <1>0, <1>1, <1>3
      <3>2. CASE x # r \/ j # k
        <4>1. attempt'[x][j] = attempt[x][j] /\ Started(x, j)
          BY <3>2, <2>1, <1>0 DEF Started
        <4>2. attempt[x][j].session = run /\ task[x] \notin {"idle", "queued", "ready", "done"}
          BY <4>1, <1>2 DEF ExecInv, NoOrphanAttempt
        <4> QED BY <4>1, <4>2, <1>3
      <3> QED BY <3>1, <3>2
    <2> QED BY <2>1, <1>2 DEF NoOrphanAttempt, Started
  <1>7. LogsBounded'
    <2>0. MaxNotices \in Nat
      BY ExecutionAssumption
    <2>1. ASSUME NEW x \in Requests, NEW j \in Ordinals
          PROVE  /\ Len(callbacks'[x][j]) =< MaxNotices + 2
                 /\ attempt'[x][j] = NoAttempt => callbacks'[x][j] = <<>>
      BY <1>0, <1>1 DEF ExecInv, LogsBounded
    <2>2. ASSUME NEW x \in Requests
          PROVE  /\ task'[x] \in {"waiting", "sent"} =>
                      Len(callbacks'[x][Current(x)']) =< MaxNotices
                 /\ task'[x] = "persisted" =>
                      /\ callbacks'[x][Current(x)'] # <<>>
                      /\ Notice(LastPayload(x)') => Len(callbacks'[x][Current(x)']) =< MaxNotices
                      /\ LastPayload(x)'.kind = "SCHEDULE" =>
                            Len(callbacks'[x][Current(x)']) =< MaxNotices + 1
      <3>1. CASE x = r
        BY <3>1, <1>0, <1>3, <2>0 DEF Current
      <3>2. CASE x # r
        <4>1. Current(x)' = Current(x) /\ task'[x] = task[x] /\ LastPayload(x)' = LastPayload(x)
          BY <3>2, <1>0, <1>3 DEF Current, LastPayload
        <4> QED BY <4>1, <1>0 DEF ExecInv, LogsBounded
      <3> QED BY <3>1, <3>2
    <2> QED BY <2>1, <2>2 DEF LogsBounded, Notice
  <1> QED BY <1>0, <1>4, <1>5, <1>6, <1>7 DEF ExecInv

\* A log with one row more.
LEMMA AppendedLog ==
    ASSUME NEW log \in Seq(CallbackRow), NEW row \in CallbackRow
    PROVE  /\ Append(log, row) \in Seq(CallbackRow) /\ Append(log, row) # <<>>
           /\ Len(log) \in Nat /\ Len(Append(log, row)) = Len(log) + 1
           /\ DOMAIN Append(log, row) = 1 .. (Len(log) + 1)
           /\ Append(log, row)[Len(log) + 1] = row
           /\ \A i \in 1 .. Len(log) : Append(log, row)[i] = log[i]
  <1>1. Append(log, row) \in Seq(CallbackRow) /\ Len(log) \in Nat
    OBVIOUS
  <1>2. Len(Append(log, row)) = Len(log) + 1
    OBVIOUS
  <1>3. Append(log, row) # <<>>
    BY <1>1, <1>2
  <1> QED BY <1>1, <1>2, <1>3

\* One callback is appended to the log of the task's own attempt.
LEMMA CallbackKeeps ==
    ASSUME ExecInv, NEW r \in Requests, NEW p \in Payload, phase = "running",
           AppendCallback(r, Current(r), p, TRUE, now),
           task[r] \in {"sent", "persisted"}, task' = [task EXCEPT ![r] = "persisted"],
           UNCHANGED <<phase, run, crashes, cut, now, pubVars>>,
           Len(callbacks[r][Current(r)]) + 1 =< MaxNotices + 2,
           Notice(p) => Len(callbacks[r][Current(r)]) + 1 =< MaxNotices,
           p.kind = "SCHEDULE" => Len(callbacks[r][Current(r)]) + 1 =< MaxNotices + 1
    PROVE  ExecInv'
  <1> DEFINE k == Current(r)
             row == [payload |-> p, matches |-> TRUE,
                     closure_eligible |-> Started(r, k) /\ TRUE, received_at |-> now]
  <1>0. StoreInv /\ StoreTypeOK /\ now \in Nat /\ k \in Ordinals /\ MaxNotices \in Nat
    BY ExecutionAssumption DEF ExecInv, ExecTypeOK, StoreInv, TasksHeld, Working, InSlot
  <1>1. StoreInv'
    BY <1>0, AppendCallbackKeepsInv
  <1>2. /\ callbacks' = [callbacks EXCEPT ![r][k] = Append(callbacks[r][k], row)]
        /\ UNCHANGED <<plan, request, attempt>> /\ attempt[r][k] # NoAttempt
    BY DEF AppendCallback
  <1>3. row \in CallbackRow /\ row.payload = p
    BY <1>0 DEF CallbackRow, Started
  <1>4. callbacks \in [Requests -> [Ordinals -> Seq(CallbackRow)]]
    BY <1>0 DEF StoreTypeOK
  <1> HIDE DEF row
  <1>5. /\ callbacks'[r][k] = Append(callbacks[r][k], row)
        /\ \A x \in Requests, j \in Ordinals : x # r \/ j # k => callbacks'[x][j] = callbacks[x][j]
    BY <1>0, <1>2, <1>4
  <1>6. /\ Len(callbacks'[r][k]) = Len(callbacks[r][k]) + 1
        /\ callbacks'[r][k] # <<>>
        /\ callbacks'[r][k][Len(callbacks'[r][k])] = row
        /\ Len(callbacks[r][k]) \in Nat
    <2>1. callbacks[r][k] \in Seq(CallbackRow)
      BY <1>0, <1>4
    <2> QED BY <1>3, <1>5, <2>1, AppendedLog
  <1>7. /\ task \in [Requests -> Positions] /\ "persisted" \in Positions
        /\ task'[r] = "persisted" /\ \A x \in Requests \ {r} : task'[x] = task[x]
    BY DEF ExecInv, ExecTypeOK, Positions, InSlot
  <1>8. ExecTypeOK'
    BY <1>7 DEF ExecInv, ExecTypeOK, pubVars
  <1>9. TasksHeld'
    BY <1>0, <1>2, <1>7 DEF ExecInv, TasksHeld, Current
  <1>10. NoOrphanAttempt'
    BY <1>2, <1>7 DEF ExecInv, NoOrphanAttempt, Started
  <1>11. LogsBounded'
    <2>1. ASSUME NEW x \in Requests, NEW j \in Ordinals
          PROVE  /\ Len(callbacks'[x][j]) =< MaxNotices + 2
                 /\ attempt'[x][j] = NoAttempt => callbacks'[x][j] = <<>>
      BY <1>0, <1>2, <1>5, <1>6 DEF ExecInv, LogsBounded
    <2>2. ASSUME NEW x \in Requests
          PROVE  /\ task'[x] \in {"waiting", "sent"} =>
                      Len(callbacks'[x][Current(x)']) =< MaxNotices
                 /\ task'[x] = "persisted" =>
                      /\ callbacks'[x][Current(x)'] # <<>>
                      /\ Notice(LastPayload(x)') => Len(callbacks'[x][Current(x)']) =< MaxNotices
                      /\ LastPayload(x)'.kind = "SCHEDULE" =>
                            Len(callbacks'[x][Current(x)']) =< MaxNotices + 1
      <3>1. CASE x = r
        <4>1. Current(r)' = k /\ LastPayload(r)' = p
          BY <1>2, <1>3, <1>6 DEF Current, LastPayload
        <4> QED BY <3>1, <4>1, <1>6, <1>7
      <3>2. CASE x # r
        <4>1. Current(x)' = Current(x) /\ task'[x] = task[x]
          BY <3>2, <1>2, <1>7 DEF Current
        <4>2. CASE task[x] \in Working
          <5>1. Current(x) \in Ordinals
            BY <4>2 DEF ExecInv, TasksHeld
          <5>2. callbacks'[x][Current(x)'] = callbacks[x][Current(x)]
                /\ LastPayload(x)' = LastPayload(x)
            BY <3>2, <4>1, <5>1, <1>5 DEF LastPayload
          <5> QED BY <4>1, <5>2 DEF ExecInv, LogsBounded
        <4>3. CASE task[x] \notin Working
          BY <4>1, <4>3 DEF Working, InSlot
        <4> QED BY <4>2, <4>3
      <3> QED BY <3>1, <3>2
    <2> QED BY <2>1, <2>2 DEF LogsBounded, Notice
  <1> QED BY <1>1, <1>8, <1>9, <1>10, <1>11 DEF ExecInv

\* Callbacks of the provider, and the completion of a schedule.
LEMMA AppendStepKeeps ==
    ASSUME ExecInv, NEW r \in Requests,
           CompleteSchedule(r) \/ \E p \in Payload : Deliver(r, p)
    PROVE  ExecInv'
  <1>0. /\ task \in [Requests -> Positions] /\ MaxNotices \in Nat
        /\ callbacks \in [Requests -> [Ordinals -> Seq(CallbackRow)]]
    BY ExecutionAssumption DEF ExecInv, ExecTypeOK, StoreInv, StoreTypeOK
  <1>1. ASSUME NEW p \in Payload, Deliver(r, p) PROVE ExecInv'
    <2>1. /\ phase = "running" /\ task[r] = "sent" /\ task' = [task EXCEPT ![r] = "persisted"]
          /\ AppendCallback(r, Current(r), p, TRUE, now)
          /\ UNCHANGED <<phase, run, crashes, cut, now, pubVars>>
          /\ Notice(p) => Len(callbacks[r][Current(r)]) < MaxNotices
      BY <1>1 DEF Deliver, Move
    <2>2. Len(callbacks[r][Current(r)]) =< MaxNotices /\ Current(r) \in Ordinals
      BY <2>1 DEF ExecInv, LogsBounded, TasksHeld, Working, InSlot
    <2>3. Len(callbacks[r][Current(r)]) \in Nat
      BY <1>0, <2>2
    <2>4. /\ Len(callbacks[r][Current(r)]) + 1 =< MaxNotices + 2
          /\ Notice(p) => Len(callbacks[r][Current(r)]) + 1 =< MaxNotices
          /\ Len(callbacks[r][Current(r)]) + 1 =< MaxNotices + 1
      BY <1>0, <2>1, <2>2, <2>3
    <2> QED BY <2>1, <2>4, CallbackKeeps
  <1>2. ASSUME CompleteSchedule(r) PROVE ExecInv'
    <2> DEFINE p == [kind |-> "COMPLETION", code |-> "NONE"]
    <2>1. /\ phase = "running" /\ task[r] = "persisted"
          /\ LastPayload(r).kind = "SCHEDULE"
          /\ AppendCallback(r, Current(r), p, TRUE, now)
          /\ UNCHANGED <<phase, run, crashes, cut, now, task, pubVars>>
      BY <1>2 DEF CompleteSchedule, execVars
    <2>2. task' = [task EXCEPT ![r] = "persisted"]
      BY <1>0, <2>1
    <2>3. Len(callbacks[r][Current(r)]) =< MaxNotices + 1 /\ Current(r) \in Ordinals
      BY <2>1 DEF ExecInv, LogsBounded, TasksHeld, Working, InSlot
    <2>4. Len(callbacks[r][Current(r)]) \in Nat
      BY <1>0, <2>3
    <2>5. p \in Payload /\ ~Notice(p) /\ p.kind # "SCHEDULE"
      BY DEF Payload, CallbackKind, Notice
    <2>6. Len(callbacks[r][Current(r)]) + 1 =< MaxNotices + 2
      BY <1>0, <2>3, <2>4
    <2> HIDE DEF p
    <2> QED BY <2>1, <2>2, <2>5, <2>6, CallbackKeeps
  <1> QED BY <1>1, <1>2

\* The command around the tasks.
LEMMA CommandKeeps ==
    ASSUME ExecInv, Launch \/ CommandStep \/ ConnectFails \/ Crash
    PROVE  ExecInv'
  <1>0. /\ StoreInv /\ StoreTypeOK /\ phase \in Phases
        /\ run \in Nat /\ now \in Nat /\ crashes \in Nat
        /\ task \in [Requests -> Positions] /\ cut \in [Requests -> Nat]
        /\ publisher \in {"idle", "built"}
        /\ artifact \in [Requests -> Built] \cup {NoArtifact}
        /\ publisher = "built" => artifact \in [Requests -> Built]
    BY DEF ExecInv, ExecTypeOK, StoreInv
  <1>p. {"idle", "queued", "cancelled"} \subseteq Positions
        /\ {"idle", "queued", "cancelled"} \cap (Working \cup {"waiting", "persisted", "sent"}) = {}
    BY DEF Positions, Working, InSlot
  <1>1. CASE Launch
    <2>1. /\ phase = "down" /\ phase' = "verified" /\ UNCHANGED storeVars
          /\ UNCHANGED <<run, task, cut, now, crashes, pubVars>>
      BY <1>1 DEF Launch
    <2>2. ExecTypeOK' /\ TasksHeld' /\ NoOrphanAttempt'
      BY <1>0, <2>1 DEF ExecInv, ExecTypeOK, TasksHeld, NoOrphanAttempt, Started, Current, Phases,
                        pubVars, storeVars
    <2> QED BY <1>0, <2>1, <2>2, SameStoreKeeps, SettlingKeeps
  <1>2. CASE Recover
    <2>1. /\ phase = "verified" /\ phase' = "recovered" /\ InvalidateAttempts(Nat, now)
          /\ UNCHANGED <<run, task, cut, now, crashes, pubVars>>
      BY <1>2 DEF Recover
    <2>2. /\ StoreInv' /\ Settles
          /\ \A r \in Requests, k \in Ordinals :
               attempt'[r][k].status = "STARTED" => attempt[r][k].session \notin Nat
      BY <1>0, <2>1, InvalidateSettles
    <2>3. \A r \in Requests, k \in Ordinals : attempt[r][k].session \in Nat
      BY <1>0 DEF StoreTypeOK, AttemptRow, NoAttempt
    <2>4. ExecTypeOK'
      BY <1>0, <2>1 DEF ExecTypeOK, Phases, pubVars
    <2>5. TasksHeld'
      BY <2>1, <1>p DEF ExecInv, TasksHeld
    <2>6. NoOrphanAttempt'
      BY <2>2, <2>3 DEF NoOrphanAttempt, Started
    <2> QED BY <2>1, <2>2, <2>4, <2>5, <2>6, SettlingKeeps
  <1>3. CASE Connect
    <2>1. /\ phase = "recovered" /\ phase' = "running" /\ UNCHANGED storeVars /\ run' = run + 1
          /\ task' = [r \in Requests |-> IF r \in Pending THEN "queued" ELSE "idle"]
          /\ UNCHANGED <<cut, now, crashes, pubVars>>
      BY <1>3 DEF Connect
    <2>2. \A r \in Requests : task'[r] \in {"queued", "idle"}
      BY <2>1
    <2>3. ExecTypeOK'
      <3>1. task' \in [Requests -> Positions]
        BY <2>1, <1>p
      <3> QED BY <1>0, <2>1, <3>1 DEF ExecTypeOK, Phases, pubVars
    <2>4. TasksHeld'
      BY <2>1, <2>2, <1>p DEF TasksHeld
    <2>5. NoOrphanAttempt'
      BY <2>1 DEF ExecInv, NoOrphanAttempt, Started, storeVars
    <2> QED BY <1>0, <1>p, <2>1, <2>2, <2>3, <2>4, <2>5, SameStoreKeeps, SettlingKeeps
  <1>4. CASE StopEarly \/ ConnectFails
    <2>1. /\ phase = "recovered" /\ phase' = "down" /\ UNCHANGED storeVars /\ crashes' \in Nat
          /\ UNCHANGED <<run, task, cut, now, pubVars>>
      <3>1. CASE StopEarly
        BY <1>0, <3>1 DEF StopEarly
      <3>2. CASE ConnectFails
        BY <1>0, <3>2 DEF ConnectFails
      <3> QED BY <1>4, <3>1, <3>2
    <2>2. ExecTypeOK' /\ TasksHeld' /\ NoOrphanAttempt'
      BY <1>0, <2>1 DEF ExecInv, ExecTypeOK, TasksHeld, NoOrphanAttempt, Started, Current, Phases,
                        pubVars, storeVars
    <2> QED BY <1>0, <2>1, <2>2, SameStoreKeeps, SettlingKeeps
  <1>5. CASE Crash
    <2>1. /\ phase' = "down" /\ UNCHANGED storeVars /\ crashes' = crashes + 1
          /\ task' = [r \in Requests |-> "idle"] /\ cut' = [r \in Requests |-> 0]
          /\ UNCHANGED <<run, now, pubVars>>
      BY <1>5 DEF Crash
    <2>2. \A r \in Requests : task'[r] = "idle"
      BY <2>1
    <2>3. ExecTypeOK'
      <3>1. task' \in [Requests -> Positions] /\ cut' \in [Requests -> Nat]
        BY <2>1, <1>p
      <3> QED BY <1>0, <2>1, <3>1 DEF ExecTypeOK, Phases, pubVars
    <2>4. TasksHeld'
      BY <2>1, <2>2, <1>p DEF TasksHeld
    <2>5. NoOrphanAttempt'
      BY <1>0, <2>1 DEF NoOrphanAttempt
    <2> QED BY <1>0, <1>p, <2>1, <2>2, <2>3, <2>4, <2>5, SameStoreKeeps, SettlingKeeps
  <1>6. CASE Abort
    <2>1. /\ phase = "running" /\ phase' = "closing" /\ UNCHANGED storeVars
          /\ task' = [r \in Requests |->
                        IF task[r] \in InSlot \cup {"queued"} THEN "cancelled" ELSE task[r]]
          /\ cut' = [r \in Requests |-> 0]
          /\ UNCHANGED <<run, now, crashes, pubVars>>
      BY <1>6 DEF Abort
    <2>2. \A r \in Requests : \/ task'[r] = "cancelled"
                              \/ task'[r] = task[r] /\ task[r] \in {"idle", "done", "raised"}
      BY <1>0, <2>1 DEF Positions, ExecInv, TasksHeld
    <2>3. ExecTypeOK'
      <3>1. task' \in [Requests -> Positions] /\ cut' \in [Requests -> Nat]
        BY <1>0, <2>1, <1>p
      <3> QED BY <1>0, <2>1, <3>1 DEF ExecTypeOK, Phases, pubVars
    <2>4. TasksHeld'
      BY <2>1, <2>2 DEF TasksHeld, Working, InSlot
    <2>5. NoOrphanAttempt'
      BY <2>1, <2>2 DEF ExecInv, NoOrphanAttempt, Started, storeVars
    <2> QED BY <1>0, <2>1, <2>2, <2>3, <2>4, <2>5, SameStoreKeeps, SettlingKeeps
  <1>7. CASE AllReturned
    <2>1. /\ phase = "running" /\ phase' = "closing" /\ UNCHANGED storeVars
          /\ \A r \in Requests : task[r] \in {"idle", "done"}
          /\ UNCHANGED <<run, task, cut, now, crashes, pubVars>>
      BY <1>7 DEF AllReturned
    <2>2. ExecTypeOK' /\ TasksHeld' /\ NoOrphanAttempt'
      BY <1>0, <2>1 DEF ExecInv, ExecTypeOK, TasksHeld, NoOrphanAttempt, Started, Current, Phases,
                        pubVars, storeVars, Working, InSlot
    <2> QED BY <1>0, <2>1, <2>2, SameStoreKeeps, SettlingKeeps
  <1>8. CASE CloseSession
    <2>1. /\ phase = "closing" /\ phase' = "down" /\ InvalidateAttempts({run}, now)
          /\ task' = [r \in Requests |-> "idle"]
          /\ UNCHANGED <<run, cut, now, crashes, pubVars>>
      BY <1>8 DEF CloseSession
    <2>2. /\ StoreInv' /\ Settles
          /\ \A r \in Requests, k \in Ordinals :
               attempt'[r][k].status = "STARTED" => attempt[r][k].session \notin {run}
      BY <1>0, <2>1, InvalidateSettles
    <2>3. \A r \in Requests, k \in Ordinals : attempt'[r][k].status # "STARTED"
      <3>1. SUFFICES ASSUME NEW r \in Requests, NEW k \in Ordinals,
                            attempt'[r][k].status = "STARTED" PROVE FALSE
        OBVIOUS
      <3>2. Started(r, k)
        BY <3>1, <2>2 DEF Settles, Started
      <3> QED BY <3>1, <3>2, <2>1, <2>2 DEF ExecInv, NoOrphanAttempt
    <2>4. \A r \in Requests : task'[r] = "idle"
      BY <2>1
    <2>5. ExecTypeOK'
      <3>1. task' \in [Requests -> Positions]
        BY <2>1, <1>p
      <3> QED BY <1>0, <2>1, <3>1 DEF ExecTypeOK, Phases, pubVars
    <2>6. TasksHeld'
      BY <2>1, <2>4, <1>p DEF TasksHeld
    <2>7. NoOrphanAttempt'
      BY <2>3 DEF NoOrphanAttempt, Started
    <2> QED BY <1>p, <2>2, <2>4, <2>5, <2>6, <2>7, SettlingKeeps
  <1> QED BY <1>1, <1>2, <1>3, <1>4, <1>5, <1>6, <1>7, <1>8 DEF CommandStep

\* What the publisher builds is a result.
LEMMA EvidenceIsBuilt ==
    ASSUME ExecInv, NEW r \in Requests
    PROVE  Evidence(r) \in Built
  <1>1. /\ request[r].selected \in 0 .. MaxAttempts
        /\ \A k \in Ordinals : Len(callbacks[r][k]) \in Nat
    BY DEF ExecInv, StoreInv, StoreTypeOK
  <1>2. \A k \in Ordinals : Len(callbacks[r][k]) \in 0 .. (MaxNotices + 2)
    BY <1>1, ExecutionAssumption DEF ExecInv, LogsBounded
  <1>3. [k \in Ordinals |-> Len(callbacks[r][k])] \in [Ordinals -> 0 .. (MaxNotices + 2)]
    BY <1>2
  <1> QED BY <1>1, <1>3 DEF Evidence, Built

\* Registration and the publisher leave attempts, logs and tasks alone.
LEMMA PublisherKeeps ==
    ASSUME ExecInv, Register \/ BuildResult \/ MarkResult \/ PublisherCrash
    PROVE  ExecInv'
  <1>0. /\ StoreInv /\ phase \in Phases /\ run \in Nat /\ now \in Nat /\ crashes \in Nat
        /\ task \in [Requests -> Positions] /\ cut \in [Requests -> Nat]
        /\ publisher \in {"idle", "built"}
        /\ artifact \in [Requests -> Built] \cup {NoArtifact}
        /\ publisher = "built" => artifact \in [Requests -> Built]
    BY DEF ExecInv, ExecTypeOK
  <1>1. /\ phase' = phase /\ run' = run /\ task' = task
        /\ cut' = cut /\ now' = now /\ crashes' = crashes
    BY DEF Register, BuildResult, MarkResult, PublisherCrash, execVars
  <1>2. ASSUME StoreInv', Settles, attempt' = attempt,
               publisher' \in {"idle", "built"},
               artifact' \in [Requests -> Built] \cup {NoArtifact},
               publisher' = "built" => artifact' \in [Requests -> Built]
        PROVE  ExecInv'
    <2>1. ExecTypeOK'
      BY <1>0, <1>1, <1>2 DEF ExecTypeOK
    <2>2. TasksHeld'
      BY <1>1, <1>2 DEF ExecInv, TasksHeld, Current, Settles
    <2>3. NoOrphanAttempt'
      BY <1>1, <1>2 DEF ExecInv, NoOrphanAttempt, Started
    <2> QED BY <1>1, <1>2, <2>1, <2>2, <2>3, SettlingKeeps
  <1>3. CASE Register
    <2>1. /\ plan' = "PENDING" /\ request' = request /\ attempt' = attempt /\ callbacks' = callbacks
          /\ publisher' = publisher /\ artifact' = artifact
      BY <1>3 DEF Register, RegisterPlan, pubVars
    <2>2. StoreInv'
      BY <1>0, <2>1 DEF StoreInv, StoreTypeOK, AttemptsContiguous, RequestMatchesAttempts,
                        PendingHasBudget, PublicationIsClosed
    <2>3. Settles
      BY <2>1 DEF Settles
    <2> QED BY <1>0, <1>2, <2>1, <2>2, <2>3
  <1>4. CASE BuildResult
    <2>1. /\ UNCHANGED storeVars /\ publisher' = "built"
          /\ artifact' = [r \in Requests |-> Evidence(r)]
      BY <1>4 DEF BuildResult
    <2>2. artifact' \in [Requests -> Built]
      BY <2>1, EvidenceIsBuilt
    <2> QED BY <1>0, <1>2, <2>1, <2>2, SameStoreKeeps DEF storeVars
  <1>5. CASE MarkResult
    <2>1. /\ publisher = "built" /\ MarkPublished(artifact)
          /\ publisher' = "idle" /\ artifact' = artifact
      BY <1>5 DEF MarkResult
    <2>2. artifact \in [Requests -> Results]
      BY <1>0, <2>1, ExecutionAssumption DEF Built
    <2> QED BY <1>0, <1>2, <2>1, <2>2, PublishSettles
  <1>6. CASE PublisherCrash
    <2>1. UNCHANGED storeVars /\ artifact' = artifact /\ publisher' = "idle"
      BY <1>6 DEF PublisherCrash
    <2> QED BY <1>0, <1>2, <2>1, SameStoreKeeps DEF storeVars
  <1> QED BY <1>3, <1>4, <1>5, <1>6

\* A plan that nobody has executed.
LEMMA InitHasExecInv == Init => ExecInv
  <1> SUFFICES ASSUME Init PROVE ExecInv
    OBVIOUS
  <1>1. StoreInv
    BY InitHasInv DEF Init
  <1>2. /\ phase = "down" /\ run = 0 /\ now = 0 /\ crashes = 0
        /\ task = [r \in Requests |-> "idle"] /\ cut = [r \in Requests |-> 0]
        /\ publisher = "idle" /\ artifact = NoArtifact
        /\ attempt = [r \in Requests |-> [k \in Ordinals |-> NoAttempt]]
        /\ callbacks = [r \in Requests |-> [k \in Ordinals |-> <<>>]]
    BY DEF Init, StoreInit
  <1>3. ExecTypeOK
    BY <1>2 DEF ExecTypeOK, Phases, Positions
  <1>4. TasksHeld /\ NoOrphanAttempt
    BY <1>2 DEF TasksHeld, NoOrphanAttempt, Started, NoAttempt, Working, InSlot
  <1>5. LogsBounded
    <2>1. MaxNotices \in Nat /\ \A r \in Requests, k \in Ordinals : callbacks[r][k] = <<>>
      BY <1>2, ExecutionAssumption
    <2>2. \A r \in Requests : task[r] = "idle"
      BY <1>2
    <2> QED BY <2>1, <2>2 DEF LogsBounded
  <1> QED BY <1>1, <1>3, <1>4, <1>5 DEF ExecInv

\* Every step of the command, its tasks, the provider and the publisher.
LEMMA StepKeepsExecInv == ExecInv /\ [Next]_vars => ExecInv'
  <1> SUFFICES ASSUME ExecInv, [Next]_vars PROVE ExecInv'
    OBVIOUS
  <1>1. ASSUME NEW r \in Requests, TaskStep(r) \/ FaultStep(r) \/ \E p \in Payload : Deliver(r, p)
        PROVE  ExecInv'
    <2>1. CASE StartRequest(r) /\ CanStart(r)
      BY <2>1, StartKeeps
    <2>2. CASE StartRequest(r) /\ ~CanStart(r)
      BY <2>2, TaskStepKeeps DEF StartRequest
    <2>3. CASE \/ Send(r) \/ Continue(r) \/ Return(r) \/ RaiseError(r)
               \/ Timeout(r) \/ LoseConnection(r) \/ LoseIntegrity(r) \/ Malformed(r)
      <3>1. UNCHANGED storeVars
        BY <2>3 DEF Send, Continue, Return, RaiseError, Malformed, Timeout, LoseConnection,
                    LoseIntegrity
      <3> QED BY <2>3, <3>1, TaskStepKeeps
    <2>4. CASE InvalidateSession(r) \/ FailRequest(r) \/ FinalizeRequest(r)
      BY <2>4, CloseStepKeeps
    <2>5. CASE CompleteSchedule(r) \/ \E p \in Payload : Deliver(r, p)
      BY <2>5, AppendStepKeeps
    <2> QED BY <1>1, <2>1, <2>2, <2>3, <2>4, <2>5 DEF TaskStep, FaultStep
  <1>2. CASE UNCHANGED vars
    <2>1. UNCHANGED storeVars /\ UNCHANGED execVars /\ UNCHANGED pubVars
      BY <1>2 DEF vars
    <2>2. ExecTypeOK' /\ TasksHeld' /\ NoOrphanAttempt'
      BY <2>1 DEF ExecInv, ExecTypeOK, TasksHeld, NoOrphanAttempt, Started, Current,
                  execVars, pubVars, storeVars
    <2> QED BY <2>1, <2>2, SameStoreKeeps, SettlingKeeps DEF ExecInv, execVars
  <1> QED BY <1>1, <1>2, CommandKeeps, PublisherKeeps DEF Next

\* Whatever the executor, its tasks, crashes and the publisher do, the store
\* keeps its invariant and the tasks and logs stay in step with it.
THEOREM ExecutionInvariant == Spec => []ExecInv
  <1>1. Init => ExecInv
    BY InitHasExecInv
  <1>2. ExecInv /\ [Next]_vars => ExecInv'
    BY StepKeepsExecInv
  <1> QED BY <1>1, <1>2, PTL DEF Spec

\* A STARTED attempt always has someone who will close it (the finally block of
\* execute_pending and recover): for any number of requests, slots, retries,
\* faults and restarts.
THEOREM NoAttemptIsOrphaned == Spec => []NoOrphanAttempt
  <1>1. ExecInv => NoOrphanAttempt
    BY DEF ExecInv
  <1> QED BY <1>1, ExecutionInvariant, PTL

----------------------------------------------------------------------------
(* One request in flight: what is published is what the database says.     *)

Busy == InSlot \cup {"raised"}

\* With one slot at most one task is past the semaphore.
OneSlot == \A r, s \in Requests : task[r] \in Busy /\ task[s] \in Busy => r = s

\* No sibling can close the attempt a task works on.
OwnStarted == \A r \in Requests : task[r] \in Working => Started(r, Current(r))

\* A result directory exists only for a closed plan and holds what the rows
\* give; a published request names its part of it.
ArtifactHeld ==
    /\ \A r \in Requests :
         request[r].result # NoResult => artifact # NoArtifact /\ request[r].result = artifact[r]
    /\ artifact # NoArtifact =>
         \A r \in Requests : request[r].status \in ClosedStatus /\ artifact[r] = Evidence(r)

SlotInv == OneSlot /\ OwnStarted /\ ArtifactHeld

\* The semaphore with one slot.
LEMMA FreeSlot ==
    ASSUME MaxInFlight = 1, SlotFree
    PROVE  \A r \in Requests : task[r] \notin Busy
  <1> DEFINE T == {r \in Requests : task[r] \in Busy}
  <1>1. T \subseteq Requests
    OBVIOUS
  <1>2. IsFiniteSet(T)
    BY <1>1, FS_Subset, StoreAssumption
  <1>3. Cardinality(T) < 1
    BY DEF SlotFree, Busy
  <1>4. Cardinality(T) \in Nat
    BY <1>2, FS_CardinalityType
  <1>5. Cardinality(T) = 0
    BY <1>3, <1>4
  <1>6. T = {}
    BY <1>2, <1>5, FS_EmptySet
  <1> QED BY <1>6

\* A task only gets past the semaphore through StartRequest.
LEMMA OneSlotKept ==
    ASSUME ExecInv, OneSlot, MaxInFlight = 1, [Next]_vars
    PROVE  OneSlot'
  <1>0. task \in [Requests -> Positions]
    BY DEF ExecInv, ExecTypeOK
  <1>1. ASSUME \A x \in Requests : task'[x] \in Busy => task[x] \in Busy PROVE OneSlot'
    BY <1>1 DEF OneSlot
  <1>2. ASSUME NEW r \in Requests, NEW pos, task' = [task EXCEPT ![r] = pos], task[r] \in Busy
        PROVE  OneSlot'
    BY <1>0, <1>1, <1>2
  <1>3. ASSUME NEW r \in Requests, StartRequest(r) PROVE OneSlot'
    <2>1. PICK pos : task' = [task EXCEPT ![r] = pos]
      BY <1>3 DEF StartRequest, Move
    <2>2. CASE task[r] = "ready"
      BY <1>2, <2>1, <2>2 DEF Busy, InSlot
    <2>3. CASE task[r] = "queued" /\ SlotFree
      <3>1. \A x \in Requests : task[x] \notin Busy
        BY <2>3, FreeSlot
      <3> QED BY <1>0, <2>1, <3>1 DEF OneSlot
    <2> QED BY <1>3, <2>2, <2>3 DEF StartRequest
  <1>4. ASSUME NEW r \in Requests, TaskStep(r) \/ FaultStep(r) \/ \E p \in Payload : Deliver(r, p)
        PROVE  OneSlot'
    <2>1. CASE \/ Send(r) \/ Continue(r) \/ Return(r) \/ RaiseError(r)
               \/ Timeout(r) \/ LoseConnection(r) \/ LoseIntegrity(r) \/ Malformed(r)
               \/ InvalidateSession(r) \/ FailRequest(r) \/ FinalizeRequest(r)
               \/ \E p \in Payload : Deliver(r, p)
      <3>1. /\ task[r] \in {"waiting", "sent", "persisted", "invalidating", "terminal", "retryable",
                            "incomplete", "answered"}
            /\ \E pos : task' = [task EXCEPT ![r] = pos]
        BY <2>1 DEF Send, Continue, Return, RaiseError, Malformed, Timeout, LoseConnection, LoseIntegrity,
                    InvalidateSession, FailRequest, FinalizeRequest, Deliver, Move, LoopOn,
                    EnterDisconnect, Awaiting
      <3>2. task[r] \in Busy
        BY <3>1 DEF Busy, InSlot
      <3> QED BY <1>2, <3>1, <3>2
    <2>2. CASE CompleteSchedule(r)
      BY <1>1, <2>2 DEF CompleteSchedule, execVars
    <2> QED BY <1>3, <1>4, <2>1, <2>2 DEF TaskStep, FaultStep
  <1>5. CASE Launch \/ CommandStep \/ ConnectFails \/ Crash
    <2>1. \A x \in Requests : task'[x] = task[x] \/ task'[x] \in {"idle", "queued", "cancelled"}
      BY <1>5 DEF Launch, CommandStep, ConnectFails, Crash, Recover, Connect, StopEarly, Abort,
                  AllReturned, CloseSession
    <2> QED BY <1>1, <2>1 DEF Busy, InSlot
  <1>6. CASE Register \/ BuildResult \/ MarkResult \/ PublisherCrash \/ UNCHANGED vars
    <2>1. task' = task
      BY <1>6 DEF Register, BuildResult, MarkResult, PublisherCrash, execVars, vars
    <2> QED BY <1>1, <2>1
  <1> QED BY <1>4, <1>5, <1>6 DEF Next

\* The task that closes attempts has the only slot, and gives its attempt up.
LEMMA ClosingTask ==
    ASSUME ExecInv, OneSlot, NEW r \in Requests, task[r] \in Busy,
           NEW pos, pos \notin Working, task' = [task EXCEPT ![r] = pos]
    PROVE  \A x \in Requests : task'[x] \notin Working
  <1>1. task \in [Requests -> Positions]
    BY DEF ExecInv, ExecTypeOK
  <1>2. Working \subseteq Busy
    BY DEF Working, Busy
  <1> QED BY <1>1, <1>2 DEF OneSlot

\* Only the publisher changes results, and nothing touches a closed request.
LEMMA StepIsCalm ==
    ASSUME ExecInv, OneSlot, OwnStarted, [Next]_vars
    PROVE  /\ OwnStarted'
           /\ Calm \/ MarkResult
  <1>0. /\ StoreInv /\ task \in [Requests -> Positions] /\ now \in Nat /\ cut \in [Requests -> Nat]
        /\ callbacks \in [Requests -> [Ordinals -> Seq(CallbackRow)]]
    BY DEF ExecInv, ExecTypeOK, StoreInv, StoreTypeOK
  <1>1. ASSUME UNCHANGED storeVars, \A x \in Requests : task'[x] \in Working => task[x] \in Working
        PROVE  OwnStarted' /\ Calm
    <2>1. Calm
      BY <1>0, <1>1, SameStoreKeeps
    <2>2. OwnStarted'
      BY <1>1 DEF OwnStarted, Started, Current, storeVars
    <2> QED BY <2>1, <2>2
  <1>2. ASSUME Calm, \A x \in Requests : task'[x] \notin Working
        PROVE  OwnStarted' /\ Calm
    BY <1>2 DEF OwnStarted
  <1>3. ASSUME NEW r \in Requests, StartRequest(r) PROVE OwnStarted' /\ Calm
    <2>1. CASE CanStart(r)
      <3> DEFINE k == request[r].attempt_count + 1
      <3>1. /\ k \in Ordinals /\ attempt'[r][k].status = "STARTED"
            /\ \A x \in Requests, j \in Ordinals : x # r \/ j # k => attempt'[x][j] = attempt[x][j]
            /\ request'[r].attempt_count = k
            /\ \A x \in Requests \ {r} : request'[x] = request[x]
            /\ Calm
        BY <1>3, <2>1, StartsAttempt
      <3>2. \A x \in Requests \ {r} : task'[x] = task[x]
        BY <1>0, <1>3, <2>1 DEF StartRequest, Move
      <3>3. Started(r, Current(r))'
        BY <3>1 DEF Started, Current
      <3>4. ASSUME NEW x \in Requests \ {r}, task'[x] \in Working PROVE Started(x, Current(x))'
        <4>1. Started(x, Current(x)) /\ Current(x) \in Ordinals
          BY <3>2, <3>4 DEF OwnStarted, ExecInv, TasksHeld
        <4>2. Current(x)' = Current(x)
          BY <3>1 DEF Current
        <4> QED BY <3>1, <4>1, <4>2 DEF Started
      <3> QED BY <3>1, <3>3, <3>4 DEF OwnStarted
    <2>2. CASE ~CanStart(r)
      <3>1. /\ UNCHANGED storeVars
            /\ task' = [task EXCEPT ![r] =
                           IF request[r].status # "PENDING" THEN "done" ELSE "raised"]
        BY <1>3, <2>2 DEF StartRequest, Move
      <3>2. \A x \in Requests : task'[x] \in Working => task[x] \in Working
        BY <1>0, <3>1 DEF Working, InSlot
      <3> QED BY <1>1, <3>1, <3>2
    <2> QED BY <2>1, <2>2
  <1>4. ASSUME NEW r \in Requests,
               \/ Send(r) \/ Continue(r) \/ Return(r) \/ RaiseError(r)
               \/ Timeout(r) \/ LoseConnection(r) \/ LoseIntegrity(r) \/ Malformed(r)
        PROVE  OwnStarted' /\ Calm
    <2>1. /\ UNCHANGED storeVars /\ task[r] \in Awaiting
          /\ \E pos : task' = [task EXCEPT ![r] = pos]
      BY <1>4 DEF Send, Continue, Return, RaiseError, Malformed, Timeout, LoseConnection, LoseIntegrity,
                  Move, EnterDisconnect, Awaiting
    <2>2. \A x \in Requests : task'[x] \in Working => task[x] \in Working
      BY <1>0, <2>1 DEF Working, InSlot, Awaiting
    <2> QED BY <1>1, <2>1, <2>2
  <1>5. ASSUME NEW r \in Requests, InvalidateSession(r) PROVE OwnStarted' /\ Calm
    <2>1. /\ task[r] = "invalidating" /\ task' = [task EXCEPT ![r] = "raised"]
          /\ InvalidateAttempts({run}, cut[r])
      BY <1>5 DEF InvalidateSession, Move
    <2>2. Calm
      BY <1>0, <2>1, InvalidateSettles
    <2>3. task[r] \in Busy /\ "raised" \notin Working
      BY <2>1 DEF Busy, InSlot, Working
    <2> QED BY <1>2, <2>1, <2>2, <2>3, ClosingTask
  <1>6. ASSUME NEW r \in Requests, FailRequest(r) \/ FinalizeRequest(r) PROVE OwnStarted' /\ Calm
    <2>1. task[r] \in {"terminal", "retryable", "incomplete", "answered"}
      BY <1>6 DEF FailRequest, FinalizeRequest
    <2>2. /\ task[r] \in Working /\ task[r] \in Busy
          /\ Current(r) \in Ordinals /\ Started(r, Current(r))
      BY <2>1 DEF ExecInv, TasksHeld, Working, InSlot, OwnStarted, Busy
    <2>3. CASE FinalizeRequest(r) /\ ClosureOutcome(r, Current(r)) = "INCOMPLETE"
      <3>1. UNCHANGED storeVars /\ task' = [task EXCEPT ![r] = "incomplete"]
        BY <2>2, <2>3 DEF FinalizeRequest, Move
      <3>2. \A x \in Requests : task'[x] \in Working => task[x] \in Working
        BY <1>0, <2>2, <3>1
      <3> QED BY <1>1, <3>1, <3>2
    <2>4. CASE ~(FinalizeRequest(r) /\ ClosureOutcome(r, Current(r)) = "INCOMPLETE")
      <3>1. \E row : ClosingRow(Current(r), row) /\ CloseAttempt(r, Current(r), row)
        <4>1. CASE FailRequest(r)
          <5>1. FailureOf(r) \in FailureDisposition
            BY ExecutionAssumption DEF FailureOf
          <5> QED BY <1>0, <2>2, <4>1, <5>1, FailedCloses DEF FailRequest, FailAttempt, StoreInv
        <4>2. CASE FinalizeRequest(r)
          BY <1>0, <2>2, <2>4, <4>2, FinalizedCloses DEF FinalizeRequest, FinalizeAttempt, StoreInv
        <4> QED BY <1>6, <4>1, <4>2
      <3>2. Calm
        BY <1>0, <2>2, <3>1, CloseSettles
      <3>3. LoopOn(r, request'[r].status)
        BY <1>6, <2>2, <2>4 DEF FailRequest, FinalizeRequest
      <3>4. PICK pos \in {"ready", "done"} : task' = [task EXCEPT ![r] = pos]
        BY <3>3 DEF LoopOn, Move
      <3>5. pos \notin Working
        BY <3>4 DEF Working, InSlot
      <3> QED BY <1>2, <2>2, <3>2, <3>4, <3>5, ClosingTask
    <2> QED BY <2>3, <2>4
  <1>7. ASSUME NEW r \in Requests, CompleteSchedule(r) \/ \E p \in Payload : Deliver(r, p)
        PROVE  OwnStarted' /\ Calm
    <2>1. /\ task[r] \in {"sent", "persisted"}
          /\ \E p : AppendCallback(r, Current(r), p, TRUE, now)
          /\ task' = task \/ task' = [task EXCEPT ![r] = "persisted"]
      BY <1>7 DEF CompleteSchedule, Deliver, Move, execVars
    <2>2. task[r] \in Working
      BY <2>1 DEF Working, InSlot
    <2>3. Current(r) \in Ordinals /\ Started(r, Current(r))
      BY <2>2 DEF OwnStarted, ExecInv, TasksHeld
    <2>4. request[r].status = "IN_FLIGHT"
      BY <1>0, <2>3, StartedIsCurrent
    <2>5. /\ UNCHANGED <<request, attempt>>
          /\ \A x \in Requests \ {r} : callbacks'[x] = callbacks[x]
      BY <1>0, <2>1 DEF AppendCallback
    <2>6. Calm
      BY <2>4, <2>5 DEF Calm, ClosedStatus
    <2>7. \A x \in Requests : task'[x] \in Working => task[x] \in Working
      BY <1>0, <2>1, <2>2
    <2>8. OwnStarted'
      BY <2>5, <2>7 DEF OwnStarted, Started, Current
    <2> QED BY <2>6, <2>8
  <1>8. CASE Recover \/ CloseSession
    <2>1. /\ \E S : InvalidateAttempts(S, now)
          /\ \A x \in Requests : task'[x] = "idle"
      BY <1>8 DEF Recover, CloseSession, ExecInv, TasksHeld
    <2>2. Calm
      BY <1>0, <2>1, InvalidateSettles
    <2> QED BY <1>2, <2>1, <2>2 DEF Working, InSlot
  <1>9. CASE Launch \/ Connect \/ StopEarly \/ Abort \/ AllReturned \/ ConnectFails \/ Crash
    <2>1. /\ UNCHANGED storeVars
          /\ \A x \in Requests : task'[x] = task[x] \/ task'[x] \in {"idle", "queued", "cancelled"}
      BY <1>9 DEF Launch, Connect, StopEarly, Abort, AllReturned, ConnectFails, Crash
    <2> QED BY <1>1, <2>1 DEF Working, InSlot
  <1>10. CASE Register \/ BuildResult \/ PublisherCrash \/ UNCHANGED vars
    <2>1. task' = task /\ request' = request /\ attempt' = attempt /\ callbacks' = callbacks
      BY <1>10 DEF Register, RegisterPlan, BuildResult, PublisherCrash, execVars, storeVars, vars
    <2> QED BY <2>1 DEF OwnStarted, Started, Current, Calm
  <1>11. CASE MarkResult
    <2>1. artifact \in [Requests -> Results] /\ MarkPublished(artifact) /\ task' = task
      BY <1>11, ExecutionAssumption DEF MarkResult, ExecInv, ExecTypeOK, Built, execVars
    <2>2. attempt' = attempt /\ Settles
      BY <1>0, <2>1, PublishSettles
    <2> QED BY <1>11, <2>1, <2>2 DEF OwnStarted, Started, Current, Settles
  <1> QED BY <1>3, <1>4, <1>5, <1>6, <1>7, <1>8, <1>9, <1>10, <1>11
          DEF Next, TaskStep, FaultStep, CommandStep

\* The rows behind a result directory never change again.
LEMMA ArtifactKept ==
    ASSUME ExecInv, ExecInv', ArtifactHeld, Calm \/ MarkResult, [Next]_vars
    PROVE  ArtifactHeld'
  <1>0. /\ StoreInv /\ artifact \in [Requests -> Built] \cup {NoArtifact}
        /\ \A f \in [Requests -> Built] : f # NoArtifact
        /\ publisher = "built" => artifact \in [Requests -> Built]
    BY ExecutionAssumption DEF ExecInv, ExecTypeOK, Built
  <1>1. ASSUME Calm, artifact' = artifact PROVE ArtifactHeld'
    <2>1. ASSUME NEW r \in Requests, request[r].status \in ClosedStatus
          PROVE  request'[r].status \in ClosedStatus /\ Evidence(r)' = Evidence(r)
      BY <1>1, <2>1 DEF Calm, Evidence
    <2> QED BY <1>1, <2>1 DEF ArtifactHeld, Calm
  <1>2. CASE BuildResult
    <2>1. /\ \A r \in Requests : request[r].status \in ClosedStatus
          /\ artifact' = [r \in Requests |-> Evidence(r)]
          /\ artifact \in {NoArtifact, [r \in Requests |-> Evidence(r)]}
          /\ UNCHANGED storeVars
      BY <1>2 DEF BuildResult
    <2>2. artifact' \in [Requests -> Built]
      BY <2>1, EvidenceIsBuilt
    <2>3. artifact' # NoArtifact
      BY <1>0, <2>2
    <2>4. \A r \in Requests : artifact'[r] = Evidence(r) /\ Evidence(r)' = Evidence(r)
      BY <2>1 DEF Evidence, storeVars
    <2>5. ASSUME NEW r \in Requests, request[r].result # NoResult
          PROVE  request[r].result = artifact'[r]
      BY <2>1, <2>5 DEF ArtifactHeld
    <2> QED BY <2>1, <2>3, <2>4, <2>5 DEF ArtifactHeld, storeVars
  <1>3. CASE MarkResult
    <2>1. /\ artifact \in [Requests -> Built] /\ artifact' = artifact /\ MarkPublished(artifact)
          /\ artifact # NoArtifact
      BY <1>0, <1>3 DEF MarkResult
    <2>2. artifact \in [Requests -> Results]
      BY <2>1, ExecutionAssumption DEF Built
    <2>3. /\ callbacks' = callbacks
          /\ \A r \in Requests :
                /\ request'[r].status = request[r].status
                /\ request'[r].selected = request[r].selected
                /\ request'[r].result = IF request[r].result = NoResult THEN artifact[r]
                                        ELSE request[r].result
      BY <1>0, <2>1, <2>2, PublishSettles DEF Settles
    <2>4. \A r \in Requests : Evidence(r)' = Evidence(r)
      BY <2>3 DEF Evidence
    <2> QED BY <2>1, <2>3, <2>4 DEF ArtifactHeld
  <1>4. CASE Calm /\ ~BuildResult /\ ~MarkResult
    <2>1. artifact' = artifact
      BY <1>4 DEF Next, CommandStep, TaskStep, FaultStep, Register, Launch, Recover, Connect,
                  StopEarly, Abort, AllReturned, CloseSession, ConnectFails, Crash, StartRequest,
                  Send, Continue, CompleteSchedule, Return, RaiseError, InvalidateSession,
                  FailRequest, FinalizeRequest, Malformed, Timeout, LoseConnection, LoseIntegrity,
                  Deliver, PublisherCrash,
                  pubVars, vars
    <2> QED BY <1>1, <1>4, <2>1
  <1> QED BY <1>2, <1>3, <1>4

\* The invariant of an execution with one request in flight.
LEMMA SlotInvariant == MaxInFlight = 1 => (Spec => [](ExecInv /\ SlotInv))
  <1> SUFFICES ASSUME MaxInFlight = 1 PROVE Spec => [](ExecInv /\ SlotInv)
    OBVIOUS
  <1>1. Init => ExecInv /\ SlotInv
    <2> SUFFICES ASSUME Init PROVE SlotInv
      BY InitHasExecInv
    <2>1. \A r \in Requests : task[r] = "idle" /\ request[r].result = NoResult
      BY DEF Init, StoreInit
    <2>2. artifact = NoArtifact
      BY DEF Init
    <2> QED BY <2>1, <2>2 DEF SlotInv, OneSlot, OwnStarted, ArtifactHeld, Busy, Working, InSlot
  <1>2. ExecInv /\ SlotInv /\ [Next]_vars => ExecInv' /\ SlotInv'
    BY StepKeepsExecInv, OneSlotKept, StepIsCalm, ArtifactKept DEF SlotInv
  <1> QED BY <1>1, <1>2, PTL DEF Spec

\* With one request in flight the database never names a result that the files
\* do not hold, and building the result again gives the published one, whatever
\* times out, disconnects or dies (build_ibkr_historical_result and
\* mark_ibkr_historical_requests_published).
THEOREM PublishedIsReproducible == MaxInFlight = 1 => (Spec => []PublishedMatchesArtifact)
  <1>1. SlotInv => PublishedMatchesArtifact
    BY DEF SlotInv, ArtifactHeld, PublishedMatchesArtifact
  <1> QED BY <1>1, SlotInvariant, PTL

----------------------------------------------------------------------------
(* The clock: attempts of a request do not overlap.                        *)

\* No reading is ahead of the clock.
ClockHeld ==
    /\ \A r \in Requests : cut[r] =< now
    /\ \A r \in Requests, k \in Ordinals :
         /\ attempt[r][k].started_at =< now /\ attempt[r][k].terminal_at =< now
         /\ \A i \in DOMAIN callbacks[r][k] : callbacks[r][k][i].received_at =< now

\* Whatever closes a STARTED attempt, the row keeps its start and ends at the
\* reading, or at its start when that is later.
LEMMA ClosingTimes ==
    ASSUME StoreTypeOK, NEW r \in Requests, NEW k \in Ordinals, Started(r, k), NEW t \in Nat,
           NEW row,
           \/ row = FinalizedRow(r, k, t)
           \/ row = SettledRow(r, k, t)
           \/ \E d, b : row = FailedRow(r, k, d, b, t)
    PROVE  /\ row.started_at = attempt[r][k].started_at
           /\ row.terminal_at = NotBefore(t, attempt[r][k].started_at)
  <1>1. attempt[r][k] \in AttemptRow
    BY StartedRowType
  <1>2. \A s, d : /\ CloseRow(attempt[r][k], s, d, t).started_at = attempt[r][k].started_at
                  /\ CloseRow(attempt[r][k], s, d, t).terminal_at =
                       NotBefore(t, attempt[r][k].started_at)
    BY <1>1 DEF CloseRow, AttemptRow
  <1>3. \E s, d : row = CloseRow(attempt[r][k], s, d, t)
    BY DEF FinalizedRow, SettledRow, InvalidatedRow, FailedRow
  <1> QED BY <1>2, <1>3

\* A step that only closes attempts, at readings the clock has reached.
ClosesInTime ==
    \A r \in Requests, k \in Ordinals :
        \/ attempt'[r][k] = attempt[r][k]
        \/ /\ Started(r, k)
           /\ attempt'[r][k] # NoAttempt
           /\ attempt'[r][k].started_at = attempt[r][k].started_at
           /\ attempt'[r][k].terminal_at \in Nat /\ attempt'[r][k].terminal_at =< now

\* Such a step keeps the order of the attempts: only the last one can be closed.
LEMMA ClosingKeepsClock ==
    ASSUME ExecInv, ClockHeld, AttemptsInOrder, ClosesInTime, callbacks' = callbacks,
           now' \in Nat, now =< now', \A r \in Requests : cut'[r] =< now'
    PROVE  ClockHeld' /\ AttemptsInOrder'
  <1>0. /\ now \in Nat /\ StoreInv
        /\ attempt \in [Requests -> [Ordinals -> AttemptRow \cup {NoAttempt}]]
        /\ callbacks \in [Requests -> [Ordinals -> Seq(CallbackRow)]]
    BY DEF ExecInv, ExecTypeOK, StoreInv, StoreTypeOK
  <1>1. ASSUME NEW r \in Requests, NEW k \in Ordinals
        PROVE  /\ attempt'[r][k].started_at =< now' /\ attempt'[r][k].terminal_at =< now'
               /\ \A i \in DOMAIN callbacks[r][k] : callbacks[r][k][i].received_at =< now'
    <2>1. /\ attempt[r][k].started_at \in Nat /\ attempt[r][k].terminal_at \in Nat
          /\ \A i \in DOMAIN callbacks[r][k] : callbacks[r][k][i].received_at \in Nat
      <3>1. attempt[r][k].started_at \in Nat /\ attempt[r][k].terminal_at \in Nat
        BY <1>0 DEF AttemptRow, NoAttempt
      <3>2. ASSUME NEW i \in DOMAIN callbacks[r][k] PROVE callbacks[r][k][i].received_at \in Nat
        <4>1. callbacks[r][k][i] \in CallbackRow
          BY <1>0
        <4> QED BY <4>1 DEF CallbackRow
      <3> QED BY <3>1, <3>2
    <2>2. /\ attempt[r][k].started_at =< now /\ attempt[r][k].terminal_at =< now
          /\ \A i \in DOMAIN callbacks[r][k] : callbacks[r][k][i].received_at =< now
      BY DEF ClockHeld
    <2>3. CASE attempt'[r][k] = attempt[r][k]
      BY <1>0, <2>1, <2>2, <2>3
    <2>4. CASE attempt'[r][k] # attempt[r][k]
      <3>1. /\ attempt'[r][k].started_at = attempt[r][k].started_at
            /\ attempt'[r][k].terminal_at \in Nat /\ attempt'[r][k].terminal_at =< now
        BY <2>4 DEF ClosesInTime
      <3> QED BY <1>0, <2>1, <2>2, <3>1
    <2> QED BY <2>3, <2>4
  <1>2. ClockHeld'
    BY <1>1 DEF ClockHeld
  <1>3. ASSUME NEW r \in Requests, NEW k \in Ordinals, k > 1, attempt'[r][k] # NoAttempt
        PROVE  attempt'[r][k - 1].terminal_at =< attempt'[r][k].started_at
    <2>1. k - 1 \in Ordinals /\ k \in Nat
      BY <1>3, StoreAssumption DEF Ordinals
    <2>2. attempt[r][k] # NoAttempt /\ attempt'[r][k].started_at = attempt[r][k].started_at
      BY <1>3 DEF ClosesInTime, Started, NoAttempt
    <2>3. ~Started(r, k - 1)
      <3>1. SUFFICES ASSUME Started(r, k - 1) PROVE FALSE
        OBVIOUS
      <3>2. request[r].attempt_count = k - 1
        BY <1>0, <2>1, <3>1, StartedIsCurrent DEF Current
      <3>3. k =< request[r].attempt_count
        BY <1>0, <2>2 DEF StoreInv, AttemptsContiguous
      <3> QED BY <2>1, <3>2, <3>3
    <2>4. attempt'[r][k - 1] = attempt[r][k - 1]
      BY <2>1, <2>3 DEF ClosesInTime
    <2> QED BY <1>3, <2>2, <2>4 DEF AttemptsInOrder
  <1> QED BY <1>2, <1>3 DEF AttemptsInOrder

\* The reading a row is closed at is not ahead of the clock.
LEMMA NotAhead ==
    ASSUME ExecInv, ClockHeld, NEW r \in Requests, NEW k \in Ordinals, NEW t \in Nat, t =< now
    PROVE  NotBefore(t, attempt[r][k].started_at) \in Nat
           /\ NotBefore(t, attempt[r][k].started_at) =< now
  <1>1. attempt[r][k].started_at \in Nat
    BY DEF ExecInv, StoreInv, StoreTypeOK, AttemptRow, NoAttempt
  <1> QED BY <1>1 DEF ClockHeld, NotBefore

\* Settling attempts at a reading the clock has reached.
LEMMA InvalidatesInTime ==
    ASSUME ExecInv, ClockHeld, NEW S, NEW t \in Nat, t =< now, InvalidateAttempts(S, t)
    PROVE  ClosesInTime /\ callbacks' = callbacks
  <1>0. StoreInv /\ StoreTypeOK
    BY DEF ExecInv, StoreInv
  <1>1. ASSUME NEW r \in Requests, NEW k \in Ordinals, k \in Unfinished(r, S)
        PROVE  /\ Started(r, k) /\ attempt'[r][k] # NoAttempt
               /\ attempt'[r][k].started_at = attempt[r][k].started_at
               /\ attempt'[r][k].terminal_at \in Nat /\ attempt'[r][k].terminal_at =< now
    <2>1. Started(r, k)
      BY <1>1 DEF Unfinished
    <2>2. attempt'[r][k] = SettledRow(r, k, t)
      BY <1>0, <1>1, InvalidateSettles
    <2>3. ClosingRow(k, SettledRow(r, k, t))
      BY <1>0, <2>1, SettledCloses
    <2>4. attempt'[r][k] # NoAttempt
      BY <2>2, <2>3 DEF ClosingRow, AttemptRow, AttemptStatus, NoAttempt
    <2> QED BY <1>0, <2>1, <2>2, <2>4, ClosingTimes, NotAhead
  <1>2. ASSUME NEW r \in Requests, NEW k \in Ordinals, k \notin Unfinished(r, S)
        PROVE  attempt'[r][k] = attempt[r][k]
    BY <1>0, <1>2, InvalidateSettles
  <1> QED BY <1>1, <1>2 DEF ClosesInTime, InvalidateAttempts

\* The rows fail and finalize write.
LEMMA ClosesOneInTime ==
    ASSUME ExecInv, ClockHeld, NEW r \in Requests, FailRequest(r) \/ FinalizeRequest(r)
    PROVE  ClosesInTime /\ callbacks' = callbacks
  <1>0. /\ StoreInv /\ StoreTypeOK /\ now \in Nat /\ task[r] \in Working
    BY DEF ExecInv, ExecTypeOK, StoreInv, FailRequest, FinalizeRequest, Working, InSlot
  <1>1. Current(r) \in Ordinals
    BY <1>0 DEF ExecInv, TasksHeld
  <1>2. CASE UNCHANGED storeVars
    BY <1>2 DEF ClosesInTime, storeVars
  <1>3. ASSUME NEW row, Started(r, Current(r)), ClosingRow(Current(r), row),
               CloseAttempt(r, Current(r), row),
               \/ row = FinalizedRow(r, Current(r), now)
               \/ \E d, b : row = FailedRow(r, Current(r), d, b, now)
        PROVE  ClosesInTime /\ callbacks' = callbacks
    <2>1. /\ attempt'[r][Current(r)] = row
          /\ \A x \in Requests, j \in Ordinals :
               x # r \/ j # Current(r) => attempt'[x][j] = attempt[x][j]
      BY <1>0, <1>1, <1>3, CloseSettles
    <2>2. /\ row.started_at = attempt[r][Current(r)].started_at
          /\ row.terminal_at = NotBefore(now, attempt[r][Current(r)].started_at)
      BY <1>0, <1>1, <1>3, ClosingTimes
    <2>3. row.terminal_at \in Nat /\ row.terminal_at =< now
      BY <1>0, <1>1, <2>2, NotAhead
    <2>4. row # NoAttempt
      BY <1>3 DEF ClosingRow, AttemptRow, AttemptStatus, NoAttempt
    <2> QED BY <1>3, <2>1, <2>2, <2>3, <2>4 DEF ClosesInTime, CloseAttempt
  <1>4. CASE Started(r, Current(r)) /\ FailRequest(r)
    <2>1. FailureOf(r) \in FailureDisposition
      BY ExecutionAssumption DEF FailureOf
    <2>2. ClosingRow(Current(r), FailedRow(r, Current(r), FailureOf(r), task[r] = "retryable", now))
      BY <1>0, <1>1, <1>4, <2>1, FailedCloses
    <2> QED BY <1>3, <1>4, <2>2 DEF FailRequest, FailAttempt
  <1>5. CASE Started(r, Current(r)) /\ FinalizeRequest(r)
    <2>1. ClosingRow(Current(r), FinalizedRow(r, Current(r), now))
      BY <1>0, <1>1, <1>5, FinalizedCloses
    <2> QED BY <1>2, <1>3, <1>5, <2>1 DEF FinalizeRequest, FinalizeAttempt
  <1>6. CASE ~Started(r, Current(r))
    BY <1>2, <1>6 DEF FailRequest, FinalizeRequest
  <1> QED BY <1>4, <1>5, <1>6

\* Every step keeps the clock ahead of all readings and the attempts in order.
LEMMA ClockKept ==
    ASSUME ExecInv, ClockHeld, AttemptsInOrder, [Next]_vars
    PROVE  ClockHeld' /\ AttemptsInOrder'
  <1>0. /\ StoreInv /\ StoreTypeOK /\ now \in Nat /\ cut \in [Requests -> Nat]
        /\ \A r \in Requests : cut[r] =< now
        /\ task \in [Requests -> Positions]
    BY DEF ExecInv, ExecTypeOK, StoreInv, ClockHeld
  <1>1. ASSUME UNCHANGED <<attempt, callbacks>>, now' \in Nat, now =< now',
               \A r \in Requests : cut'[r] =< now'
        PROVE  ClockHeld' /\ AttemptsInOrder'
    BY <1>1, ClosingKeepsClock DEF ClosesInTime
  <1>2. ASSUME NEW r \in Requests, StartRequest(r) PROVE ClockHeld' /\ AttemptsInOrder'
    <2>1. CASE CanStart(r)
      <3> DEFINE k == request[r].attempt_count + 1
      <3>1. /\ k \in Ordinals
            /\ attempt'[r][k] = [status |-> "STARTED", disposition |-> "NONE", session |-> run,
                                 started_at |-> now, terminal_at |-> 0]
            /\ \A x \in Requests, j \in Ordinals : x # r \/ j # k => attempt'[x][j] = attempt[x][j]
            /\ callbacks' = callbacks /\ attempt[r][k] = NoAttempt
        BY <1>2, <2>1, StartsAttempt
      <3>2. now' = now + 1 /\ cut' = cut
        BY <1>2, <2>1 DEF StartRequest
      <3>3. attempt'[r][k].started_at = now /\ attempt'[r][k].terminal_at = 0
        BY <3>1
      <3> HIDE DEF k
      <3>4. \A x \in Requests, j \in Ordinals :
               attempt[x][j].started_at \in Nat /\ attempt[x][j].terminal_at \in Nat
        BY <1>0 DEF StoreTypeOK, AttemptRow, NoAttempt
      <3>5. \A x \in Requests, j \in Ordinals : \A i \in DOMAIN callbacks[x][j] :
               callbacks[x][j][i].received_at \in Nat
        <4>1. ASSUME NEW x \in Requests, NEW j \in Ordinals, NEW i \in DOMAIN callbacks[x][j]
              PROVE  callbacks[x][j][i] \in CallbackRow
          BY <1>0 DEF StoreTypeOK
        <4> QED BY <4>1 DEF CallbackRow
      <3>6. ASSUME NEW x \in Requests, NEW j \in Ordinals
            PROVE  /\ attempt'[x][j].started_at =< now + 1 /\ attempt'[x][j].terminal_at =< now + 1
                   /\ \A i \in DOMAIN callbacks[x][j] : callbacks[x][j][i].received_at =< now + 1
        <4>1. /\ attempt[x][j].started_at =< now /\ attempt[x][j].terminal_at =< now
              /\ \A i \in DOMAIN callbacks[x][j] : callbacks[x][j][i].received_at =< now
          BY DEF ClockHeld
        <4>2. CASE x = r /\ j = k
          BY <1>0, <3>3, <3>5, <4>1, <4>2
        <4>3. CASE x # r \/ j # k
          BY <1>0, <3>1, <3>4, <3>5, <4>1, <4>3
        <4> QED BY <4>2, <4>3
      <3>7. \A x \in Requests : cut[x] =< now + 1
        BY <1>0
      <3>8. ClockHeld'
        BY <3>1, <3>2, <3>6, <3>7 DEF ClockHeld
      <3>9. ASSUME NEW x \in Requests, NEW j \in Ordinals, j > 1, attempt'[x][j] # NoAttempt
            PROVE  attempt'[x][j - 1].terminal_at =< attempt'[x][j].started_at
        <4>1. j - 1 \in Ordinals /\ j \in Nat
          BY <3>9, StoreAssumption DEF Ordinals
        <4>2. CASE x = r /\ j = k
          <5>1. attempt'[r][k - 1] = attempt[r][k - 1]
            BY <3>1, <4>1, <4>2
          <5> QED BY <3>3, <4>1, <4>2, <5>1 DEF ClockHeld
        <4>3. CASE x = r /\ j - 1 = k
          <5>1. attempt'[x][j - 1].terminal_at = 0
            BY <3>3, <4>3
          <5>2. attempt'[x][j] = attempt[x][j]
            BY <3>1, <4>1, <4>3
          <5>3. attempt'[x][j].started_at \in Nat
            BY <5>2, <3>4
          <5> QED BY <5>1, <5>3
        <4>4. CASE x # r \/ (j # k /\ j - 1 # k)
          BY <3>1, <3>9, <4>1, <4>4 DEF AttemptsInOrder
        <4> QED BY <4>2, <4>3, <4>4
      <3> QED BY <3>8, <3>9 DEF AttemptsInOrder
    <2>2. CASE ~CanStart(r)
      BY <1>0, <1>1, <1>2, <2>2 DEF StartRequest, storeVars
    <2> QED BY <2>1, <2>2
  <1>3. ASSUME NEW r \in Requests,
               \/ Send(r) \/ Continue(r) \/ Return(r) \/ Malformed(r)
               \/ Timeout(r) \/ LoseIntegrity(r)
        PROVE  ClockHeld' /\ AttemptsInOrder'
    <2>1. UNCHANGED storeVars /\ now' = now /\ cut' = cut
      BY <1>3 DEF Send, Continue, Return, Timeout, LoseIntegrity, Malformed
    <2> QED BY <1>0, <1>1, <2>1 DEF storeVars
  <1>4. ASSUME NEW r \in Requests, RaiseError(r) \/ LoseConnection(r)
        PROVE  ClockHeld' /\ AttemptsInOrder'
    <2>1. /\ UNCHANGED storeVars
          /\ \/ now' = now /\ cut' = cut
             \/ now' = now + 1 /\ cut' = [cut EXCEPT ![r] = now]
      BY <1>4 DEF RaiseError, LoseConnection, EnterDisconnect
    <2>2. now' \in Nat /\ now =< now' /\ \A x \in Requests : cut'[x] =< now'
      BY <1>0, <2>1
    <2> QED BY <1>1, <2>1, <2>2 DEF storeVars
  <1>5. ASSUME NEW r \in Requests, InvalidateSession(r) PROVE ClockHeld' /\ AttemptsInOrder'
    <2>1. /\ InvalidateAttempts({run}, cut[r]) /\ cut' = [cut EXCEPT ![r] = 0] /\ now' = now
      BY <1>5 DEF InvalidateSession
    <2>2. \A x \in Requests : cut'[x] =< now'
      BY <1>0, <2>1
    <2>3. ClosesInTime /\ callbacks' = callbacks
      BY <1>0, <2>1, InvalidatesInTime
    <2> QED BY <1>0, <2>1, <2>2, <2>3, ClosingKeepsClock
  <1>6. ASSUME NEW r \in Requests, FailRequest(r) \/ FinalizeRequest(r)
        PROVE  ClockHeld' /\ AttemptsInOrder'
    <2>1. now' = now /\ cut' = cut
      BY <1>6 DEF FailRequest, FinalizeRequest
    <2> QED BY <1>0, <1>6, <2>1, ClosesOneInTime, ClosingKeepsClock
  <1>7. ASSUME NEW r \in Requests, CompleteSchedule(r) \/ \E p \in Payload : Deliver(r, p)
        PROVE  ClockHeld' /\ AttemptsInOrder'
    <2>1. /\ task[r] \in Working /\ now' = now /\ cut' = cut
          /\ \E p \in Payload : AppendCallback(r, Current(r), p, TRUE, now)
      <3>1. CASE CompleteSchedule(r)
        <4>1. [kind |-> "COMPLETION", code |-> "NONE"] \in Payload
          BY DEF Payload, CallbackKind
        <4> QED BY <3>1, <4>1 DEF CompleteSchedule, execVars, Working, InSlot
      <3>2. CASE \E p \in Payload : Deliver(r, p)
        BY <3>2 DEF Deliver, Working, InSlot
      <3> QED BY <1>7, <3>1, <3>2
    <2>2. PICK p \in Payload : AppendCallback(r, Current(r), p, TRUE, now)
      BY <2>1
    <2> DEFINE k == Current(r)
               row == [payload |-> p, matches |-> TRUE,
                       closure_eligible |-> Started(r, k) /\ TRUE, received_at |-> now]
    <2>3. k \in Ordinals
      BY <2>1 DEF ExecInv, TasksHeld
    <2>4. /\ callbacks' = [callbacks EXCEPT ![r][k] = Append(callbacks[r][k], row)]
          /\ attempt' = attempt
      BY <2>2 DEF AppendCallback
    <2>5. row \in CallbackRow /\ row.received_at = now
      BY <1>0 DEF CallbackRow, Started
    <2> HIDE DEF row, k
    <2>6. callbacks \in [Requests -> [Ordinals -> Seq(CallbackRow)]]
      BY <1>0 DEF StoreTypeOK
    <2>7. /\ callbacks'[r][k] = Append(callbacks[r][k], row)
          /\ \A x \in Requests, j \in Ordinals :
               x # r \/ j # k => callbacks'[x][j] = callbacks[x][j]
      BY <2>3, <2>4, <2>6
    <2>8. ASSUME NEW x \in Requests, NEW j \in Ordinals, NEW i \in DOMAIN callbacks'[x][j]
          PROVE  callbacks'[x][j][i].received_at =< now
      <3>1. CASE x = r /\ j = k
        <4>1. callbacks[r][k] \in Seq(CallbackRow)
          BY <2>3, <2>6
        <4>2. i \in 1 .. (Len(callbacks[r][k]) + 1)
          BY <2>5, <2>7, <2>8, <3>1, <4>1, AppendedLog
        <4>3. CASE i = Len(callbacks[r][k]) + 1
          BY <1>0, <2>5, <2>7, <3>1, <4>1, <4>3, AppendedLog
        <4>4. CASE i \in 1 .. Len(callbacks[r][k])
          <5>1. callbacks'[x][j][i] = callbacks[r][k][i]
            BY <2>5, <2>7, <3>1, <4>1, <4>4, AppendedLog
          <5>2. i \in DOMAIN callbacks[r][k]
            BY <4>1, <4>4
          <5> QED BY <2>3, <5>1, <5>2 DEF ClockHeld
        <4> QED BY <4>1, <4>2, <4>3, <4>4
      <3>2. CASE x # r \/ j # k
        BY <2>7, <2>8, <3>2 DEF ClockHeld
      <3> QED BY <3>1, <3>2
    <2>9. ClockHeld'
      BY <2>1, <2>4, <2>8 DEF ClockHeld
    <2>10. AttemptsInOrder'
      BY <2>4 DEF AttemptsInOrder
    <2> QED BY <2>9, <2>10
  <1>8. CASE Recover \/ CloseSession
    <2>1. /\ \E S : InvalidateAttempts(S, now)
          /\ now' = now /\ cut' = cut
      BY <1>8 DEF Recover, CloseSession
    <2>2. ClosesInTime /\ callbacks' = callbacks
      BY <1>0, <2>1, InvalidatesInTime
    <2> QED BY <1>0, <2>1, <2>2, ClosingKeepsClock
  <1>9. CASE \/ Launch \/ Connect \/ StopEarly \/ Abort \/ AllReturned \/ ConnectFails \/ Crash
             \/ Register \/ BuildResult \/ MarkResult \/ PublisherCrash \/ UNCHANGED vars
    <2>1. /\ UNCHANGED <<attempt, callbacks>> /\ now' = now
          /\ cut' = cut \/ cut' = [r \in Requests |-> 0]
      BY <1>9 DEF Launch, Connect, StopEarly, Abort, AllReturned, ConnectFails, Crash, Register,
                  RegisterPlan, BuildResult, MarkResult, MarkPublished, PublisherCrash,
                  storeVars, execVars, vars
    <2>2. \A r \in Requests : cut'[r] =< now'
      BY <1>0, <2>1
    <2> QED BY <1>0, <1>1, <2>1, <2>2
  <1> QED BY <1>2, <1>3, <1>4, <1>5, <1>6, <1>7, <1>8, <1>9
          DEF Next, TaskStep, FaultStep, CommandStep

----------------------------------------------------------------------------
(* One request in flight and no timeout: every snapshot verifies.          *)

\* A row of an attempt's log: it came over the attempt's own transport while
\* the attempt was STARTED, not before the rows in front of it and not after
\* the attempt was closed; a completion ends the log, and that of a schedule
\* follows the schedule.
RowHeld(r, k, i) ==
    LET log == callbacks[r][k] IN
    /\ log[i].matches = TRUE /\ log[i].closure_eligible = TRUE
    /\ \A j \in 1 .. i : log[j].received_at =< log[i].received_at
    /\ log[i].payload.kind = "COMPLETION" =>
         /\ i = Len(log)
         /\ r \in ScheduleRequests => i > 1 /\ log[i - 1].payload.kind = "SCHEDULE"
    /\ Started(r, k) \/ log[i].received_at =< attempt[r][k].terminal_at

LogHeld(r, k) == \A i \in DOMAIN callbacks[r][k] : RowHeld(r, k, i)

Uncompleted(r, k) ==
    \A i \in DOMAIN callbacks[r][k] : callbacks[r][k][i].payload.kind # "COMPLETION"

\* Where a task is tells what is in its attempt's log.
TaskHeld(r) ==
    /\ task[r] \in {"waiting", "sent", "terminal", "retryable", "incomplete", "invalidating"} =>
         Uncompleted(r, Current(r))
    /\ task[r] = "answered" =>
         callbacks[r][Current(r)] # <<>> /\ LastPayload(r).kind = "COMPLETION"
    /\ task[r] = "invalidating" =>
         \A i \in DOMAIN callbacks[r][Current(r)] :
             callbacks[r][Current(r)][i].received_at =< cut[r]

ReplayInv ==
    /\ \A r \in Requests, k \in Ordinals : LogHeld(r, k) /\ AttemptOutcomeReplays(r, k)
    /\ \A r \in Requests : TaskHeld(r)

\* The completion marker of a log, if there is one, is its last row.
LEMMA MarkerIsLast ==
    ASSUME StoreTypeOK, NEW r \in Requests, NEW k \in Ordinals, LogHeld(r, k)
    PROVE  /\ Uncompleted(r, k) => Markers(r, k) = {}
           /\ \A i \in Markers(r, k) : i = Len(callbacks[r][k]) /\ i \in DOMAIN callbacks[r][k]
           /\ Markers(r, k) # {} => /\ Markers(r, k) = {Len(callbacks[r][k])}
                                    /\ FirstMarker(r, k) = Len(callbacks[r][k])
  <1>1. callbacks[r][k] \in Seq(CallbackRow)
    BY DEF StoreTypeOK
  <1>2. Len(callbacks[r][k]) \in Nat
    BY <1>1
  <1>3. Uncompleted(r, k) => Markers(r, k) = {}
    BY DEF Uncompleted, Markers, IsMarker
  <1>4. \A i \in Markers(r, k) : i = Len(callbacks[r][k]) /\ i \in DOMAIN callbacks[r][k]
    BY DEF LogHeld, RowHeld, Markers, IsMarker
  <1>5. ASSUME Markers(r, k) # {}
        PROVE  /\ Markers(r, k) = {Len(callbacks[r][k])}
               /\ FirstMarker(r, k) = Len(callbacks[r][k])
    <2>1. Markers(r, k) = {Len(callbacks[r][k])}
      BY <1>4, <1>5
    <2> QED BY <1>2, <2>1 DEF FirstMarker
  <1> QED BY <1>3, <1>4, <1>5

\* A log with a marker has an outcome, and one without has none.
LEMMA MarkedIsDecided ==
    ASSUME StoreTypeOK, NEW r \in Requests, NEW k \in Ordinals, LogHeld(r, k)
    PROVE  /\ Markers(r, k) # {} => ClosureOutcome(r, k) \in {"PROVIDER_REJECTED", "SUCCEEDED"}
           /\ Markers(r, k) = {} => ClosureOutcome(r, k) = "INCOMPLETE"
  <1>1. Markers(r, k) = {} => ClosureOutcome(r, k) = "INCOMPLETE"
    BY DEF ClosureOutcome
  <1>2. ASSUME Markers(r, k) # {}
        PROVE  ClosureOutcome(r, k) \in {"PROVIDER_REJECTED", "SUCCEEDED"}
    <2> DEFINE n == Len(callbacks[r][k])
    <2>1. callbacks[r][k] \in Seq(CallbackRow) /\ n \in Nat
      BY DEF StoreTypeOK
    <2>2. n \in Markers(r, k) /\ FirstMarker(r, k) = n /\ n \in DOMAIN callbacks[r][k]
      BY <1>2, MarkerIsLast
    <2>3. callbacks[r][k][n].payload.kind = "COMPLETION"
      BY <2>2 DEF Markers, IsMarker
    <2>4. ASSUME r \in ScheduleRequests PROVE EligibleBefore(r, k, n, "SCHEDULE") # {}
      <3>1. n > 1 /\ callbacks[r][k][n - 1].payload.kind = "SCHEDULE"
        BY <2>2, <2>3, <2>4 DEF LogHeld, RowHeld
      <3>2. n - 1 \in DOMAIN callbacks[r][k] /\ n - 1 < n
        BY <2>1, <3>1
      <3>3. callbacks[r][k][n - 1].closure_eligible
        BY <3>2 DEF LogHeld, RowHeld
      <3> QED BY <3>1, <3>2, <3>3 DEF EligibleBefore
    <2> HIDE DEF n
    <2> QED BY <1>2, <2>2, <2>4 DEF ClosureOutcome
  <1> QED BY <1>1, <1>2

\* The snapshot verifier replays such a log.
LEMMA HeldLogReplays ==
    ASSUME StoreTypeOK, NEW r \in Requests, NEW k \in Ordinals, LogHeld(r, k)
    PROVE  CallbackClosureReplays(r, k)
  <1> DEFINE n == Len(callbacks[r][k])
  <1>0. callbacks[r][k] \in Seq(CallbackRow) /\ n \in Nat /\ DOMAIN callbacks[r][k] = 1 .. n
    BY DEF StoreTypeOK
  <1>1. Cardinality(Markers(r, k)) =< 1
    <2>1. CASE Markers(r, k) = {}
      BY <2>1, FS_EmptySet
    <2>2. CASE Markers(r, k) # {}
      <3>1. Markers(r, k) = {n}
        BY <2>2, MarkerIsLast
      <3>2. Cardinality({n}) = 1
        BY FS_Singleton
      <3> QED BY <3>1, <3>2
    <2> QED BY <2>1, <2>2
  <1>2. ASSUME NEW i \in DOMAIN callbacks[r][k]
        PROVE  /\ callbacks[r][k][i].payload.kind = "COMPLETION" =>
                    MarkerReplays(r, k, callbacks[r][k][i])
               /\ RowReplays(r, k, i)
               /\ i > 1 => callbacks[r][k][i - 1].received_at =< callbacks[r][k][i].received_at
    <2>1. RowHeld(r, k, i)
      BY DEF LogHeld
    <2>2. MarkerReplays(r, k, callbacks[r][k][i])
      BY <2>1 DEF RowHeld, MarkerReplays
    <2>3. RowReplays(r, k, i)
      <3>1. CASE Markers(r, k) = {}
        BY <2>1, <3>1 DEF RowHeld, RowReplays
      <3>2. CASE Markers(r, k) # {}
        <4>1. FirstMarker(r, k) = n /\ i =< n
          BY <1>0, <3>2, MarkerIsLast
        <4>2. n \in DOMAIN callbacks[r][k] /\ i \in 1 .. n
          BY <1>0, <3>2, MarkerIsLast
        <4>3. callbacks[r][k][i].received_at =< callbacks[r][k][n].received_at
          BY <4>2 DEF LogHeld, RowHeld
        <4> QED BY <2>1, <3>2, <4>1, <4>3 DEF RowHeld, RowReplays
      <3> QED BY <3>1, <3>2
    <2>4. ASSUME i > 1
          PROVE  callbacks[r][k][i - 1].received_at =< callbacks[r][k][i].received_at
      <3>1. i - 1 \in 1 .. i
        BY <1>0, <2>4
      <3> QED BY <2>1, <3>1 DEF RowHeld
    <2> QED BY <2>2, <2>3, <2>4
  <1> QED BY <1>1, <1>2 DEF CallbackClosureReplays

LogsHeld == \A r \in Requests, k \in Ordinals : LogHeld(r, k) /\ AttemptOutcomeReplays(r, k)

\* The outcome the verifier will derive for a log is the one the row states.
Deserved(r, k, row) ==
    /\ row.status = "SUCCEEDED" => Markers(r, k) # {}
    /\ Markers(r, k) # {} =>
         IF ClosureOutcome(r, k) = "PROVIDER_REJECTED"
         THEN row.status = "TERMINAL_FAILURE" /\ row.disposition = "PROVIDER_REJECTED"
         ELSE row.status = "SUCCEEDED" /\ row.disposition = "SUCCEEDED"

\* What a closing row states.
LEMMA CloseRowFields ==
    ASSUME StoreTypeOK, NEW r \in Requests, NEW k \in Ordinals, Started(r, k),
           NEW s, NEW d, NEW t
    PROVE  /\ CloseRow(attempt[r][k], s, d, t).status = s
           /\ CloseRow(attempt[r][k], s, d, t).disposition = d
  <1>1. attempt[r][k] \in AttemptRow
    BY StartedRowType
  <1> QED BY <1>1 DEF CloseRow, AttemptRow

\* Finalizing gives an attempt what its log deserves, settling too, and so does
\* failing an attempt whose log has no completion.
LEMMA FinalizedIsDeserved ==
    ASSUME StoreTypeOK, NEW r \in Requests, NEW k \in Ordinals, LogHeld(r, k), Started(r, k),
           NEW t, ClosureOutcome(r, k) # "INCOMPLETE"
    PROVE  Deserved(r, k, FinalizedRow(r, k, t))
  <1>1. /\ Markers(r, k) # {}
        /\ ClosureOutcome(r, k) \in {"PROVIDER_REJECTED", "SUCCEEDED"}
    BY MarkedIsDecided
  <1> QED BY <1>1, CloseRowFields DEF Deserved, FinalizedRow

\* Settling invalidates exactly the attempts whose log decides nothing.
LEMMA SettledIsDeserved ==
    ASSUME StoreTypeOK, NEW r \in Requests, NEW k \in Ordinals, LogHeld(r, k), Started(r, k), NEW t
    PROVE  Deserved(r, k, SettledRow(r, k, t))
  <1>1. CASE ClosureOutcome(r, k) = "INCOMPLETE"
    <2>1. Markers(r, k) = {}
      BY <1>1, MarkedIsDecided
    <2>2. SettledRow(r, k, t).status # "SUCCEEDED"
      BY <1>1, CloseRowFields DEF SettledRow, InvalidatedRow
    <2> QED BY <2>1, <2>2 DEF Deserved
  <1>2. CASE ClosureOutcome(r, k) # "INCOMPLETE"
    BY <1>2, FinalizedIsDeserved DEF SettledRow
  <1> QED BY <1>1, <1>2

\* A failure is deserved when no completion arrived.
LEMMA FailedIsDeserved ==
    ASSUME StoreTypeOK, NEW r \in Requests, NEW k \in Ordinals, LogHeld(r, k), Started(r, k),
           NEW t, NEW d, NEW b, Uncompleted(r, k)
    PROVE  Deserved(r, k, FailedRow(r, k, d, b, t))
  <1>1. Markers(r, k) = {}
    BY MarkerIsLast
  <1>2. FailedRow(r, k, d, b, t).status # "SUCCEEDED"
    BY CloseRowFields DEF FailedRow
  <1> QED BY <1>1, <1>2 DEF Deserved

\* Closing a STARTED attempt as it deserves, at or after its last row.
LEMMA ClosedLogHeld ==
    ASSUME StoreTypeOK, NEW r \in Requests, NEW k \in Ordinals, LogHeld(r, k), Started(r, k),
           callbacks' = callbacks, Deserved(r, k, attempt'[r][k]),
           \A i \in DOMAIN callbacks[r][k] :
               callbacks[r][k][i].received_at =< attempt'[r][k].terminal_at
    PROVE  LogHeld(r, k)' /\ AttemptOutcomeReplays(r, k)'
  <1>1. LogHeld(r, k)'
    BY DEF LogHeld, RowHeld
  <1>2. Markers(r, k)' = Markers(r, k)
    BY DEF Markers
  <1>3. ClosureOutcome(r, k)' = ClosureOutcome(r, k)
    BY <1>2 DEF ClosureOutcome, FirstMarker, Markers, EligibleBefore
  <1>4. Markers(r, k) # {} => ClosureOutcome(r, k) \in {"PROVIDER_REJECTED", "SUCCEEDED"}
    BY MarkedIsDecided
  <1>5. AttemptOutcomeReplays(r, k)'
    <2>1. CASE Markers(r, k) = {}
      BY <1>2, <2>1 DEF AttemptOutcomeReplays, Deserved
    <2>2. CASE Markers(r, k) # {} /\ ClosureOutcome(r, k) = "PROVIDER_REJECTED"
      BY <1>2, <1>3, <2>2 DEF AttemptOutcomeReplays, Deserved
    <2>3. CASE Markers(r, k) # {} /\ ClosureOutcome(r, k) = "SUCCEEDED"
      BY <1>2, <1>3, <2>3 DEF AttemptOutcomeReplays, Deserved
    <2> QED BY <1>4, <2>1, <2>2, <2>3
  <1> QED BY <1>1, <1>5

\* A log and an attempt that a step leaves alone.
LEMMA SameLogHeld ==
    ASSUME NEW r \in Requests, NEW k \in Ordinals, LogHeld(r, k), AttemptOutcomeReplays(r, k),
           callbacks'[r][k] = callbacks[r][k], attempt'[r][k] = attempt[r][k]
    PROVE  LogHeld(r, k)' /\ AttemptOutcomeReplays(r, k)'
  <1>1. LogHeld(r, k)'
    BY DEF LogHeld, RowHeld, Started
  <1>2. Markers(r, k)' = Markers(r, k)
    BY DEF Markers
  <1>3. \A n, kind : EligibleBefore(r, k, n, kind)' = EligibleBefore(r, k, n, kind)
    BY DEF EligibleBefore
  <1>4. FirstMarker(r, k)' = FirstMarker(r, k)
    BY <1>2 DEF FirstMarker
  <1>5. ClosureOutcome(r, k)' = ClosureOutcome(r, k)
    BY <1>2, <1>3, <1>4 DEF ClosureOutcome
  <1>6. AttemptOutcomeReplays(r, k)'
    BY <1>2, <1>5 DEF AttemptOutcomeReplays
  <1> QED BY <1>1, <1>6

\* Settling the attempts of some sessions, at or after the last row of each.
LEMMA InvalidatedLogsHeld ==
    ASSUME StoreInv, LogsHeld, NEW S, NEW t \in Nat, InvalidateAttempts(S, t),
           \A r \in Requests, k \in Ordinals : k \in Unfinished(r, S) =>
               \A i \in DOMAIN callbacks[r][k] : callbacks[r][k][i].received_at =< t
    PROVE  LogsHeld'
  <1>0. StoreTypeOK /\ callbacks' = callbacks
    BY DEF StoreInv, InvalidateAttempts
  <1>1. ASSUME NEW r \in Requests, NEW k \in Ordinals
        PROVE  LogHeld(r, k)' /\ AttemptOutcomeReplays(r, k)'
    <2>1. CASE k \in Unfinished(r, S)
      <3>1. Started(r, k) /\ attempt'[r][k] = SettledRow(r, k, t)
        BY <2>1, InvalidateSettles DEF Unfinished
      <3>2. Deserved(r, k, attempt'[r][k])
        BY <1>0, <3>1, SettledIsDeserved DEF LogsHeld
      <3>3. attempt'[r][k].terminal_at = NotBefore(t, attempt[r][k].started_at)
        BY <1>0, <3>1, ClosingTimes
      <3>4. attempt[r][k].started_at \in Nat
        BY <1>0 DEF StoreTypeOK, AttemptRow, NoAttempt
      <3>5. ASSUME NEW i \in DOMAIN callbacks[r][k]
            PROVE  callbacks[r][k][i].received_at =< attempt'[r][k].terminal_at
        <4>1. callbacks[r][k][i] \in CallbackRow
          BY <1>0 DEF StoreTypeOK
        <4>2. callbacks[r][k][i].received_at \in Nat /\ callbacks[r][k][i].received_at =< t
          BY <2>1, <4>1 DEF CallbackRow
        <4> QED BY <3>3, <3>4, <4>2 DEF NotBefore
      <3> QED BY <1>0, <3>1, <3>2, <3>5, ClosedLogHeld DEF LogsHeld
    <2>2. CASE k \notin Unfinished(r, S)
      <3>1. attempt'[r][k] = attempt[r][k]
        BY <2>2, InvalidateSettles
      <3> QED BY <1>0, <3>1, SameLogHeld DEF LogsHeld
    <2> QED BY <2>1, <2>2
  <1> QED BY <1>1 DEF LogsHeld

\* A task outside the slot says nothing of any log.
LEMMA OutsideHeld ==
    ASSUME NEW r \in Requests, task'[r] \notin InSlot
    PROVE  TaskHeld(r)'
  BY DEF TaskHeld, InSlot

\* The step of the task that has the slot, or gets it, is the only one to look
\* at: no other task is past the semaphore.
LEMMA OnlyOneHeld ==
    ASSUME ExecInv, OneSlot, NEW r \in Requests, NEW pos, task' = [task EXCEPT ![r] = pos],
           task[r] \in Busy \/ \A x \in Requests : task[x] \notin Busy,
           TaskHeld(r)'
    PROVE  \A x \in Requests : TaskHeld(x)'
  <1>1. task \in [Requests -> Positions]
    BY DEF ExecInv, ExecTypeOK
  <1>2. ASSUME NEW x \in Requests \ {r} PROVE task'[x] \notin InSlot
    BY <1>1 DEF OneSlot, Busy
  <1> QED BY <1>2, OutsideHeld

\* Fail and finalize close the task's attempt as its log deserves.
LEMMA ClosedOneHeld ==
    ASSUME ExecInv, SlotInv, ClockHeld, ReplayInv, NEW r \in Requests,
           FailRequest(r) \/ FinalizeRequest(r)
    PROVE  ReplayInv'
  <1>0. /\ StoreInv /\ StoreTypeOK /\ now \in Nat /\ task[r] \in Working /\ task[r] \in Busy
        /\ OneSlot /\ OwnStarted
    BY DEF ExecInv, ExecTypeOK, StoreInv, FailRequest, FinalizeRequest, Working, InSlot, Busy,
           SlotInv
  <1>1. PICK k \in Ordinals : k = Current(r) /\ Started(r, k)
    BY <1>0 DEF ExecInv, TasksHeld, OwnStarted
  <1>2. LogHeld(r, k) /\ TaskHeld(r)
    BY <1>1 DEF ReplayInv
  <1>3. ASSUME NEW row, ClosingRow(k, row), CloseAttempt(r, k, row), Deserved(r, k, row),
               row.terminal_at = NotBefore(now, attempt[r][k].started_at)
        PROVE  LogsHeld'
    <2>1. /\ attempt'[r][k] = row /\ callbacks' = callbacks
          /\ \A x \in Requests, j \in Ordinals : x # r \/ j # k => attempt'[x][j] = attempt[x][j]
      BY <1>0, <1>1, <1>3, CloseSettles DEF Settles
    <2>2. attempt[r][k].started_at \in Nat
      BY <1>0, <1>1 DEF StoreTypeOK, AttemptRow, NoAttempt
    <2>3. ASSUME NEW i \in DOMAIN callbacks[r][k]
          PROVE  callbacks[r][k][i].received_at =< attempt'[r][k].terminal_at
      <3>1. callbacks[r][k][i] \in CallbackRow
        BY <1>0, <1>1 DEF StoreTypeOK
      <3>2. callbacks[r][k][i].received_at \in Nat /\ callbacks[r][k][i].received_at =< now
        BY <1>1, <3>1 DEF CallbackRow, ClockHeld
      <3> QED BY <1>0, <1>3, <2>1, <2>2, <3>2 DEF NotBefore
    <2>4. LogHeld(r, k)' /\ AttemptOutcomeReplays(r, k)'
      BY <1>0, <1>1, <1>2, <1>3, <2>1, <2>3, ClosedLogHeld
    <2>5. ASSUME NEW x \in Requests, NEW j \in Ordinals, x # r \/ j # k
          PROVE  LogHeld(x, j)' /\ AttemptOutcomeReplays(x, j)'
      BY <2>1, <2>5, SameLogHeld DEF ReplayInv
    <2> QED BY <2>4, <2>5 DEF LogsHeld
  <1>4. LogsHeld' /\ LoopOn(r, request'[r].status)
    <2>1. CASE FailRequest(r)
      <3>1. FailureOf(r) \in FailureDisposition
        BY ExecutionAssumption DEF FailureOf
      <3>2. Uncompleted(r, k)
        BY <1>1, <1>2, <2>1 DEF FailRequest, TaskHeld
      <3> DEFINE row == FailedRow(r, k, FailureOf(r), task[r] = "retryable", now)
      <3>3. /\ ClosingRow(k, row) /\ Deserved(r, k, row)
            /\ row.terminal_at = NotBefore(now, attempt[r][k].started_at)
        <4>1. ClosingRow(k, row)
          BY <1>0, <1>1, <3>1, FailedCloses
        <4>2. Deserved(r, k, row)
          BY <1>0, <1>1, <1>2, <3>2, FailedIsDeserved
        <4>3. \E d, b : row = FailedRow(r, k, d, b, now)
          OBVIOUS
        <4> HIDE DEF row
        <4>4. row.terminal_at = NotBefore(now, attempt[r][k].started_at)
          BY <1>0, <1>1, <4>3, ClosingTimes
        <4> QED BY <4>1, <4>2, <4>4
      <3>4. CloseAttempt(r, k, row) /\ LoopOn(r, request'[r].status)
        BY <1>1, <2>1 DEF FailRequest, FailAttempt
      <3> QED BY <1>3, <3>3, <3>4
    <2>2. CASE FinalizeRequest(r)
      <3>1. ClosureOutcome(r, k) # "INCOMPLETE"
        <4> DEFINE n == Len(callbacks[r][k])
        <4>1. callbacks[r][k] # <<>> /\ callbacks[r][k][n].payload.kind = "COMPLETION"
          BY <1>1, <1>2, <2>2 DEF FinalizeRequest, TaskHeld, LastPayload
        <4>2. callbacks[r][k] \in Seq(CallbackRow)
          BY <1>0, <1>1 DEF StoreTypeOK
        <4>3. n \in DOMAIN callbacks[r][k]
          BY <4>1, <4>2
        <4>4. callbacks[r][k][n].closure_eligible
          BY <1>2, <4>3 DEF LogHeld, RowHeld
        <4>5. n \in Markers(r, k)
          BY <4>1, <4>3, <4>4 DEF Markers, IsMarker
        <4> QED BY <1>0, <1>1, <1>2, <4>5, MarkedIsDecided
      <3> DEFINE row == FinalizedRow(r, k, now)
      <3>2. ClosingRow(k, row) /\ Deserved(r, k, row)
            /\ row.terminal_at = NotBefore(now, attempt[r][k].started_at)
        BY <1>0, <1>1, <1>2, <3>1, FinalizedCloses, FinalizedIsDeserved, ClosingTimes
      <3>3. CloseAttempt(r, k, row) /\ LoopOn(r, request'[r].status)
        BY <1>1, <2>2, <3>1 DEF FinalizeRequest, FinalizeAttempt
      <3> QED BY <1>3, <3>2, <3>3
    <2> QED BY <2>1, <2>2
  <1>5. PICK pos \in {"ready", "done"} : task' = [task EXCEPT ![r] = pos]
    BY <1>4 DEF LoopOn, Move
  <1>6. TaskHeld(r)'
    <2>1. task'[r] \in {"ready", "done"}
      BY <1>5 DEF ExecInv, ExecTypeOK
    <2> QED BY <2>1 DEF TaskHeld
  <1>7. \A x \in Requests : TaskHeld(x)'
    BY <1>0, <1>5, <1>6, OnlyOneHeld
  <1> QED BY <1>4, <1>7 DEF ReplayInv, LogsHeld

\* A callback of the task's own attempt, appended while it is STARTED and its
\* log has no completion yet.
LEMMA AppendedHeld ==
    ASSUME ExecInv, SlotInv, ClockHeld, ReplayInv, NEW r \in Requests, NEW p \in Payload,
           task[r] \in {"sent", "persisted"}, task' = [task EXCEPT ![r] = "persisted"],
           AppendCallback(r, Current(r), p, TRUE, now), Uncompleted(r, Current(r)),
           p.kind = "COMPLETION" /\ r \in ScheduleRequests =>
               callbacks[r][Current(r)] # <<>> /\ LastPayload(r).kind = "SCHEDULE"
    PROVE  ReplayInv'
  <1> DEFINE k == Current(r)
             log == callbacks[r][k]
             n == Len(log)
             row == [payload |-> p, matches |-> TRUE,
                     closure_eligible |-> Started(r, k) /\ TRUE, received_at |-> now]
  <1>0. /\ StoreInv /\ StoreTypeOK /\ now \in Nat /\ task[r] \in Working /\ task[r] \in Busy
        /\ OneSlot /\ OwnStarted
    BY DEF ExecInv, ExecTypeOK, StoreInv, Working, InSlot, Busy, SlotInv
  <1>1. k \in Ordinals /\ Started(r, k)
    BY <1>0 DEF ExecInv, TasksHeld, OwnStarted
  <1>2. /\ callbacks' = [callbacks EXCEPT ![r][k] = Append(log, row)]
        /\ attempt' = attempt /\ request' = request
    BY DEF AppendCallback
  <1>3. /\ row \in CallbackRow /\ row.payload = p /\ row.matches = TRUE
        /\ row.closure_eligible = TRUE /\ row.received_at = now
    BY <1>0, <1>1 DEF CallbackRow
  <1>4. callbacks \in [Requests -> [Ordinals -> Seq(CallbackRow)]] /\ log \in Seq(CallbackRow)
        /\ n \in Nat /\ DOMAIN log = 1 .. n
    BY <1>0, <1>1 DEF StoreTypeOK
  <1> HIDE DEF row
  <1>5. /\ callbacks'[r][k] = Append(log, row)
        /\ \A x \in Requests, j \in Ordinals : x # r \/ j # k => callbacks'[x][j] = callbacks[x][j]
    BY <1>1, <1>2, <1>4
  <1>6. /\ DOMAIN callbacks'[r][k] = 1 .. (n + 1) /\ Len(callbacks'[r][k]) = n + 1
        /\ callbacks'[r][k][n + 1] = row
        /\ \A i \in 1 .. n : callbacks'[r][k][i] = callbacks[r][k][i]
    BY <1>3, <1>4, <1>5, AppendedLog
  <1>7. ASSUME NEW i \in 1 .. n
        PROVE  /\ callbacks[r][k][i].received_at =< now
               /\ callbacks[r][k][i].matches = TRUE /\ callbacks[r][k][i].closure_eligible = TRUE
               /\ \A j \in 1 .. i : callbacks[r][k][j].received_at =< callbacks[r][k][i].received_at
               /\ callbacks[r][k][i].payload.kind # "COMPLETION"
    <2>1. i \in DOMAIN callbacks[r][k]
      BY <1>4, <1>7
    <2>2. RowHeld(r, k, i)
      BY <1>1, <2>1 DEF ReplayInv, LogHeld
    <2> QED BY <1>1, <2>1, <2>2 DEF RowHeld, ClockHeld, Uncompleted
  <1>8. ASSUME p.kind = "COMPLETION", r \in ScheduleRequests
        PROVE  n + 1 > 1 /\ callbacks[r][k][n].payload.kind = "SCHEDULE" /\ n \in 1 .. n
    <2>1. callbacks[r][k] # <<>> /\ callbacks[r][k][n].payload.kind = "SCHEDULE"
      BY <1>8 DEF LastPayload
    <2>2. n > 0
      BY <1>4, <2>1
    <2> QED BY <1>4, <2>1, <2>2
  <1> HIDE DEF log, n
  <1>9. ASSUME NEW i \in 1 .. (n + 1) PROVE RowHeld(r, k, i)'
    <2>0. Started(r, k)' /\ Current(r)' = k
      BY <1>1, <1>2 DEF Started, Current
    <2>1. CASE i = n + 1
      <3>1. ASSUME NEW j \in 1 .. (n + 1)
            PROVE  callbacks'[r][k][j].received_at =< callbacks'[r][k][i].received_at
        <4>1. CASE j = n + 1
          BY <1>0, <1>3, <1>6, <2>1, <4>1
        <4>2. CASE j \in 1 .. n
          BY <1>3, <1>6, <1>7, <2>1, <4>2
        <4> QED BY <1>4, <4>1, <4>2
      <3>2. ASSUME callbacks'[r][k][i].payload.kind = "COMPLETION", r \in ScheduleRequests
            PROVE  i > 1 /\ callbacks'[r][k][i - 1].payload.kind = "SCHEDULE"
        <4>1. n + 1 > 1 /\ callbacks[r][k][n].payload.kind = "SCHEDULE" /\ n \in 1 .. n
          BY <1>3, <1>6, <1>8, <2>1, <3>2
        <4>2. i - 1 = n
          BY <1>4, <2>1
        <4> QED BY <1>6, <2>1, <4>1, <4>2
      <3> QED BY <1>3, <1>6, <2>0, <2>1, <3>1, <3>2 DEF RowHeld
    <2>2. CASE i \in 1 .. n
      <3>1. callbacks'[r][k][i] = callbacks[r][k][i]
        BY <1>6, <2>2
      <3>2. ASSUME NEW j \in 1 .. i
            PROVE  callbacks'[r][k][j].received_at =< callbacks'[r][k][i].received_at
        <4>1. j \in 1 .. n
          BY <1>4, <2>2
        <4> QED BY <1>6, <1>7, <2>2, <3>1, <4>1
      <3> QED BY <1>7, <2>0, <2>2, <3>1, <3>2 DEF RowHeld
    <2> QED BY <1>4, <2>1, <2>2
  <1>10. LogHeld(r, k)'
    <2>1. \A i \in 1 .. (n + 1) : RowHeld(r, k, i)'
      BY <1>9
    <2>2. LogHeld(r, k)' <=> \A i \in DOMAIN callbacks'[r][k] : RowHeld(r, k, i)'
      BY <1>2 DEF LogHeld, Current
    <2> QED BY <1>6, <2>1, <2>2
  <1>11. AttemptOutcomeReplays(r, k)'
    BY <1>1, <1>2 DEF AttemptOutcomeReplays, Started, Current
  <1>12. ASSUME NEW x \in Requests, NEW j \in Ordinals, x # r \/ j # k
         PROVE  LogHeld(x, j)' /\ AttemptOutcomeReplays(x, j)'
    BY <1>2, <1>5, <1>12, SameLogHeld DEF ReplayInv
  <1>13. LogsHeld'
    <2>1. k' = k
      BY <1>2 DEF Current
    <2> QED BY <1>10, <1>11, <1>12, <2>1 DEF LogsHeld
  <1>14. TaskHeld(r)'
    <2>1. task'[r] = "persisted"
      BY DEF ExecInv, ExecTypeOK
    <2> QED BY <2>1 DEF TaskHeld
  <1>15. \A x \in Requests : TaskHeld(x)'
    BY <1>0, <1>14, OnlyOneHeld
  <1> QED BY <1>13, <1>15 DEF ReplayInv, LogsHeld

\* Every step replays: one slot, no timeouts.
LEMMA ReplayKept ==
    ASSUME ExecInv, SlotInv, ClockHeld, ReplayInv, MaxInFlight = 1, "timeout" \notin Faults,
           [Next]_vars
    PROVE  ReplayInv'
  <1>0. /\ StoreInv /\ StoreTypeOK /\ now \in Nat /\ cut \in [Requests -> Nat]
        /\ task \in [Requests -> Positions] /\ OneSlot /\ OwnStarted
        /\ callbacks \in [Requests -> [Ordinals -> Seq(CallbackRow)]]
        /\ LogsHeld /\ \A r \in Requests : TaskHeld(r)
    BY DEF ExecInv, ExecTypeOK, StoreInv, StoreTypeOK, SlotInv, ReplayInv, LogsHeld
  <1>1. ASSUME UNCHANGED <<attempt, callbacks>> PROVE LogsHeld'
    BY <1>0, <1>1, SameLogHeld DEF LogsHeld
  <1>2. ASSUME LogsHeld', \A x \in Requests : TaskHeld(x)' PROVE ReplayInv'
    BY <1>2 DEF ReplayInv, LogsHeld
  <1>3. ASSUME NEW r \in Requests, StartRequest(r) PROVE ReplayInv'
    <2>1. task[r] \in Busy \/ \A x \in Requests : task[x] \notin Busy
      BY <1>3, FreeSlot DEF StartRequest, Busy, InSlot
    <2>2. CASE CanStart(r)
      <3>1. PICK k : k = request[r].attempt_count + 1
        OBVIOUS
      <3>2. /\ k \in Ordinals /\ attempt'[r][k].status = "STARTED"
            /\ \A x \in Requests, j \in Ordinals : x # r \/ j # k => attempt'[x][j] = attempt[x][j]
            /\ request'[r].attempt_count = k
            /\ callbacks' = callbacks /\ callbacks[r][k] = <<>>
        BY <1>3, <2>2, <3>1, StartsAttempt
      <3>3. callbacks'[r][k] = <<>> /\ DOMAIN callbacks'[r][k] = {}
        BY <3>2
      <3>4. LogHeld(r, k)' /\ AttemptOutcomeReplays(r, k)'
        BY <3>2, <3>3 DEF LogHeld, AttemptOutcomeReplays
      <3>5. ASSUME NEW x \in Requests, NEW j \in Ordinals, x # r \/ j # k
            PROVE  LogHeld(x, j)' /\ AttemptOutcomeReplays(x, j)'
        BY <1>0, <3>2, <3>5, SameLogHeld DEF LogsHeld
      <3>6. LogsHeld'
        BY <3>4, <3>5 DEF LogsHeld
      <3>7. task' = [task EXCEPT ![r] = "waiting"]
        BY <1>3, <2>2 DEF StartRequest, Move
      <3>8. TaskHeld(r)'
        <4>1. task'[r] = "waiting" /\ Current(r)' = k
          BY <1>0, <3>2, <3>7 DEF Current
        <4>2. \A i \in DOMAIN callbacks'[r][Current(r)'] :
                 callbacks'[r][Current(r)'][i].payload.kind # "COMPLETION"
          BY <3>3, <4>1
        <4> QED BY <4>1, <4>2 DEF TaskHeld, Uncompleted
      <3> QED BY <1>0, <1>2, <2>1, <3>6, <3>7, <3>8, OnlyOneHeld
    <2>3. CASE ~CanStart(r)
      <3>1. /\ UNCHANGED <<attempt, callbacks>>
            /\ \E pos \in {"done", "raised"} : task' = [task EXCEPT ![r] = pos]
        BY <1>3, <2>3 DEF StartRequest, Move, storeVars
      <3>2. PICK pos \in {"done", "raised"} : task' = [task EXCEPT ![r] = pos]
        BY <3>1
      <3>3. TaskHeld(r)'
        <4>1. task'[r] \in {"done", "raised"}
          BY <1>0, <3>2
        <4> QED BY <4>1 DEF TaskHeld
      <3> QED BY <1>0, <1>1, <1>2, <2>1, <3>1, <3>2, <3>3, OnlyOneHeld
    <2> QED BY <2>2, <2>3
  \* The log of a task whose last callback is not a completion has none.
  <1>4. ASSUME NEW r \in Requests, task[r] = "persisted", LastPayload(r).kind # "COMPLETION"
        PROVE  Uncompleted(r, Current(r))
    <2>1. Current(r) \in Ordinals
      BY <1>4 DEF ExecInv, TasksHeld, Working, InSlot
    <2>2. LogHeld(r, Current(r))
      BY <1>0, <2>1 DEF LogsHeld
    <2> QED BY <1>4, <2>2 DEF LogHeld, RowHeld, Uncompleted, LastPayload
  <1>5. ASSUME NEW r \in Requests, Notice(LastPayload(r)), task[r] = "persisted"
        PROVE  LastPayload(r).kind # "COMPLETION"
    <2>1. Current(r) \in Ordinals /\ callbacks[r][Current(r)] # <<>>
      BY <1>5 DEF ExecInv, TasksHeld, LogsBounded, Working, InSlot
    <2>2. callbacks[r][Current(r)] \in Seq(CallbackRow)
      BY <1>0, <2>1
    <2>3. callbacks[r][Current(r)][Len(callbacks[r][Current(r)])] \in CallbackRow
      BY <2>1, <2>2
    <2>4. LastPayload(r) \in Payload
      BY <2>3 DEF LastPayload, CallbackRow
    <2> QED BY <1>5, <2>4 DEF Payload, Notice
  <1>6. ASSUME NEW r \in Requests, UNCHANGED storeVars, task[r] \in Awaiting,
               NEW pos, task' = [task EXCEPT ![r] = pos],
               pos \in {"waiting", "sent", "terminal", "retryable", "incomplete", "invalidating"} =>
                   Uncompleted(r, Current(r)),
               pos = "answered" =>
                   callbacks[r][Current(r)] # <<>> /\ LastPayload(r).kind = "COMPLETION",
               pos = "invalidating" => cut'[r] = now
        PROVE  ReplayInv'
    <2>1. callbacks' = callbacks /\ attempt' = attempt /\ Current(r)' = Current(r) /\ task'[r] = pos
      BY <1>0, <1>6 DEF storeVars, Current
    <2>2. Current(r) \in Ordinals /\ task[r] \in Busy
      BY <1>6 DEF ExecInv, TasksHeld, Awaiting, Working, InSlot, Busy
    <2>3. \A i \in DOMAIN callbacks[r][Current(r)] : callbacks[r][Current(r)][i].received_at =< now
      BY <2>2 DEF ClockHeld
    <2>4. TaskHeld(r)'
      BY <1>6, <2>1, <2>3 DEF TaskHeld, Uncompleted, LastPayload
    <2> QED BY <1>0, <1>1, <1>2, <1>6, <2>1, <2>2, <2>4, OnlyOneHeld
  <1>7. ASSUME NEW r \in Requests, Send(r) \/ Continue(r) \/ Return(r) PROVE ReplayInv'
    <2>1. CASE Send(r)
      <3>1. Uncompleted(r, Current(r))
        BY <1>0, <2>1 DEF Send, TaskHeld
      <3> QED BY <1>6, <2>1, <3>1 DEF Send, Move, Awaiting
    <2>2. CASE Continue(r)
      <3>1. Uncompleted(r, Current(r))
        BY <1>4, <1>5, <2>2 DEF Continue
      <3> QED BY <1>6, <2>2, <3>1 DEF Continue, Move, Awaiting
    <2>3. CASE Return(r)
      <3>1. callbacks[r][Current(r)] # <<>>
        BY <2>3 DEF Return, ExecInv, LogsBounded
      <3> QED BY <1>6, <2>3, <3>1 DEF Return, Move, Awaiting
    <2> QED BY <1>7, <2>1, <2>2, <2>3
  <1>8. ASSUME NEW r \in Requests,
               RaiseError(r) \/ Malformed(r) \/ LoseConnection(r) \/ LoseIntegrity(r)
        PROVE  ReplayInv'
    <2>1. UNCHANGED storeVars /\ task[r] \in Awaiting
      BY <1>8 DEF RaiseError, LoseConnection, LoseIntegrity, Malformed, Awaiting
    <2>2. Uncompleted(r, Current(r))
      <3>1. CASE RaiseError(r)
        BY <1>4, <3>1 DEF RaiseError
      <3>2. CASE LoseConnection(r) \/ LoseIntegrity(r) \/ Malformed(r)
        BY <1>0, <3>2 DEF LoseConnection, LoseIntegrity, Malformed, TaskHeld
      <3> QED BY <1>8, <3>1, <3>2
    <2>3. \E pos \in {"invalidating", "retryable", "incomplete", "terminal", "raised"} :
            /\ task' = [task EXCEPT ![r] = pos]
            /\ pos = "invalidating" => cut' = [cut EXCEPT ![r] = now]
      BY <1>8 DEF RaiseError, LoseConnection, LoseIntegrity, Malformed, Move, EnterDisconnect
    <2>4. PICK pos \in {"invalidating", "retryable", "incomplete", "terminal", "raised"} :
            /\ task' = [task EXCEPT ![r] = pos]
            /\ pos = "invalidating" => cut' = [cut EXCEPT ![r] = now]
      BY <2>3
    <2>5. pos = "invalidating" => cut'[r] = now
      BY <1>0, <2>4
    <2> QED BY <1>6, <2>1, <2>2, <2>4, <2>5
  <1>9. ASSUME NEW r \in Requests, CompleteSchedule(r) \/ \E p \in Payload : Deliver(r, p)
        PROVE  ReplayInv'
    <2>1. ASSUME NEW p \in Payload, Deliver(r, p) PROVE ReplayInv'
      <3>1. /\ task[r] = "sent" /\ task' = [task EXCEPT ![r] = "persisted"]
            /\ AppendCallback(r, Current(r), p, TRUE, now) /\ p \in Answers(r)
        BY <2>1 DEF Deliver, Move
      <3>2. Uncompleted(r, Current(r))
        BY <1>0, <3>1 DEF TaskHeld
      <3>3. ~(p.kind = "COMPLETION" /\ r \in ScheduleRequests)
        BY <3>1 DEF Answers
      <3> QED BY <3>1, <3>2, <3>3, AppendedHeld
    <2>2. CASE CompleteSchedule(r)
      <3> DEFINE p == [kind |-> "COMPLETION", code |-> "NONE"]
      <3>1. /\ task[r] = "persisted" /\ task' = task /\ LastPayload(r).kind = "SCHEDULE"
            /\ AppendCallback(r, Current(r), p, TRUE, now)
        BY <2>2 DEF CompleteSchedule, execVars
      <3>2. task' = [task EXCEPT ![r] = "persisted"]
        BY <1>0, <3>1
      <3>3. Uncompleted(r, Current(r))
        BY <1>4, <3>1
      <3>4. callbacks[r][Current(r)] # <<>>
        BY <3>1 DEF ExecInv, LogsBounded
      <3>5. p \in Payload
        BY DEF Payload, CallbackKind
      <3> HIDE DEF p
      <3> QED BY <3>1, <3>2, <3>3, <3>4, <3>5, AppendedHeld
    <2> QED BY <1>9, <2>1, <2>2
  <1>10. ASSUME NEW r \in Requests, InvalidateSession(r) PROVE ReplayInv'
    <2>1. /\ phase = "running" /\ task[r] = "invalidating"
          /\ InvalidateAttempts({run}, cut[r]) /\ task' = [task EXCEPT ![r] = "raised"]
      BY <1>10 DEF InvalidateSession, Move
    <2>2. task[r] \in Busy
      BY <2>1 DEF Busy, InSlot
    <2>3. ASSUME NEW x \in Requests, NEW k \in Ordinals, k \in Unfinished(x, {run})
          PROVE  \A i \in DOMAIN callbacks[x][k] : callbacks[x][k][i].received_at =< cut[r]
      <3>1. Started(x, k)
        BY <2>3 DEF Unfinished
      <3>2. task[x] \notin {"idle", "queued", "ready", "done", "cancelled"}
        BY <2>1, <3>1 DEF ExecInv, NoOrphanAttempt, TasksHeld
      <3>3. task[x] \in Busy
        BY <1>0, <3>2 DEF Positions, Busy
      <3>4. x = r /\ k = Current(r)
        BY <1>0, <2>2, <3>1, <3>3, StartedIsCurrent DEF OneSlot
      <3> QED BY <1>0, <2>1, <3>4 DEF TaskHeld
    <2>4. LogsHeld'
      BY <1>0, <2>1, <2>3, InvalidatedLogsHeld
    <2>5. TaskHeld(r)'
      <3>1. task'[r] = "raised"
        BY <1>0, <2>1
      <3> QED BY <3>1 DEF TaskHeld
    <2> QED BY <1>0, <1>2, <2>1, <2>2, <2>4, <2>5, OnlyOneHeld
  <1>11. CASE Recover \/ CloseSession
    <2>1. /\ \E S : InvalidateAttempts(S, now)
          /\ \A x \in Requests : task'[x] = "idle"
      BY <1>11 DEF Recover, CloseSession, ExecInv, TasksHeld
    <2>2. PICK S : InvalidateAttempts(S, now)
      BY <2>1
    <2>3. \A x \in Requests, k \in Ordinals :
             \A i \in DOMAIN callbacks[x][k] : callbacks[x][k][i].received_at =< now
      BY DEF ClockHeld
    <2>4. LogsHeld'
      BY <1>0, <2>2, <2>3, InvalidatedLogsHeld
    <2> QED BY <1>2, <2>1, <2>4 DEF TaskHeld
  <1>12. CASE Launch \/ Connect \/ StopEarly \/ Abort \/ AllReturned \/ ConnectFails \/ Crash
    <2>1. UNCHANGED <<attempt, callbacks>>
      BY <1>12 DEF Launch, Connect, StopEarly, Abort, AllReturned, ConnectFails, Crash, storeVars
    <2>2. \A x \in Requests : task'[x] \in {"idle", "queued", "cancelled", "done", "raised"}
      <3>1. CASE Launch \/ StopEarly \/ ConnectFails
        BY <3>1 DEF Launch, StopEarly, ConnectFails, ExecInv, TasksHeld
      <3>2. CASE Connect \/ Crash \/ AllReturned
        BY <3>2 DEF Connect, Crash, AllReturned
      <3>3. CASE Abort
        BY <1>0, <3>3 DEF Abort, Positions
      <3> QED BY <1>12, <3>1, <3>2, <3>3
    <2> QED BY <1>1, <1>2, <2>1, <2>2 DEF TaskHeld
  <1>13. CASE Register \/ BuildResult \/ MarkResult \/ PublisherCrash \/ UNCHANGED vars
    <2>1. /\ UNCHANGED <<attempt, callbacks, task, cut>>
          /\ \A x \in Requests : Current(x)' = Current(x)
      <3>1. CASE MarkResult
        <4>1. /\ artifact \in [Requests -> Results] /\ MarkPublished(artifact)
              /\ task' = task /\ cut' = cut
          BY <3>1, ExecutionAssumption DEF MarkResult, ExecInv, ExecTypeOK, Built, execVars
        <4>2. attempt' = attempt /\ Settles
          BY <1>0, <4>1, PublishSettles
        <4> QED BY <4>1, <4>2 DEF Settles, Current
      <3>2. CASE Register \/ BuildResult \/ PublisherCrash \/ UNCHANGED vars
        BY <3>2 DEF Register, RegisterPlan, BuildResult, PublisherCrash, execVars, storeVars, vars,
                    Current
      <3> QED BY <1>13, <3>1, <3>2
    <2>2. \A x \in Requests : TaskHeld(x)'
      BY <1>0, <2>1 DEF TaskHeld, Uncompleted, LastPayload
    <2> QED BY <1>1, <1>2, <2>1, <2>2
  <1>14. ~\E r \in Requests : Timeout(r)
    BY DEF Timeout
  <1> QED BY <1>3, <1>7, <1>8, <1>9, <1>10, <1>11, <1>12, <1>13, <1>14, ClosedOneHeld
          DEF Next, TaskStep, FaultStep, CommandStep

\* Before the first execution there is nothing to replay.
LEMMA InitReplays == Init => ClockHeld /\ AttemptsInOrder /\ ReplayInv
  <1> SUFFICES ASSUME Init PROVE ClockHeld /\ AttemptsInOrder /\ ReplayInv
    OBVIOUS
  <1>1. /\ now = 0 /\ \A r \in Requests : task[r] = "idle" /\ cut[r] = 0
        /\ \A r \in Requests, k \in Ordinals : attempt[r][k] = NoAttempt /\ callbacks[r][k] = <<>>
    BY DEF Init, StoreInit
  <1>2. \A r \in Requests, k \in Ordinals : DOMAIN callbacks[r][k] = {}
    BY <1>1
  <1>3. ClockHeld
    BY <1>1, <1>2 DEF ClockHeld, NoAttempt
  <1>4. AttemptsInOrder
    BY <1>1 DEF AttemptsInOrder
  <1>5. ReplayInv
    BY <1>1, <1>2 DEF ReplayInv, LogHeld, AttemptOutcomeReplays, TaskHeld, NoAttempt
  <1> QED BY <1>3, <1>4, <1>5

\* The attempts of a request never overlap in time, however many requests are
\* in flight: the clock readings of _validate_attempt_sequence.
THEOREM AttemptsNeverOverlap == Spec => []AttemptsInOrder
  <1>1. Init => ExecInv /\ ClockHeld /\ AttemptsInOrder
    BY InitHasExecInv, InitReplays
  <1>2. ExecInv /\ ClockHeld /\ AttemptsInOrder /\ [Next]_vars =>
            ExecInv' /\ ClockHeld' /\ AttemptsInOrder'
    BY StepKeepsExecInv, ClockKept
  <1> QED BY <1>1, <1>2, PTL DEF Spec

\* With one request in flight and no timeouts, every state an execution can
\* leave behind, by a disconnect, a raised task or a death between any two
\* transactions, passes the verification the next start begins with
\* (verify_ibkr_historical_execution_snapshot).
THEOREM SnapshotVerified ==
    MaxInFlight = 1 /\ "timeout" \notin Faults => (Spec => []SnapshotAlwaysVerifies)
  <1> SUFFICES ASSUME MaxInFlight = 1, "timeout" \notin Faults
               PROVE  Spec => []SnapshotAlwaysVerifies
    OBVIOUS
  <1> DEFINE Inv == ExecInv /\ SlotInv /\ ClockHeld /\ AttemptsInOrder /\ ReplayInv
  <1>1. Init /\ ExecInv /\ SlotInv => Inv
    BY InitReplays
  <1>2. Inv /\ [Next]_vars /\ ExecInv' /\ SlotInv' => Inv'
    BY ClockKept, ReplayKept
  <1>3. Inv => SnapshotAlwaysVerifies
    <2> SUFFICES ASSUME Inv PROVE SnapshotAlwaysVerifies
      OBVIOUS
    <2>1. AttemptsContiguous /\ RequestMatchesAttempts /\ StoreTypeOK
      BY DEF ExecInv, StoreInv
    <2>2. ClosuresReplay /\ OutcomesReplay
      BY <2>1, HeldLogReplays DEF ReplayInv, ClosuresReplay, OutcomesReplay
    <2>3. phase = "recovered" => NothingStarted
      BY DEF ExecInv, NoOrphanAttempt, NothingStarted
    <2> QED BY <2>1, <2>2, <2>3 DEF SnapshotAlwaysVerifies, SnapshotVerifies
  <1>4. Spec => [](ExecInv /\ SlotInv)
    BY SlotInvariant
  <1> QED BY <1>1, <1>2, <1>3, <1>4, PTL DEF Spec

----------------------------------------------------------------------------
(* An execution is a caller of the store.                                  *)

\* Every clock reading, session and failure that reaches a transaction is one
\* that the store's callers may pass.
LEMMA ExecutionValues ==
    ASSUME ExecInv
    PROVE  /\ run \in Nat /\ now \in Nat
           /\ \A r \in Requests : cut[r] \in Nat /\ FailureOf(r) \in FailureDisposition
           /\ \A r \in Requests : task[r] \in Working => Current(r) \in Ordinals
           /\ publisher = "built" => artifact \in [Requests -> Results]
  <1>1. run \in Nat /\ now \in Nat /\ cut \in [Requests -> Nat]
    BY DEF ExecInv, ExecTypeOK
  <1>2. FailureDisposition = {"ENTITLEMENT_UNAVAILABLE", "PROVIDER_REJECTED",
                              "INCOMPLETE_RESPONSE", "SESSION_EVIDENCE_UNAVAILABLE"}
    BY ExecutionAssumption
  <1>3. Built \subseteq Results
    BY ExecutionAssumption DEF Built
  <1>4. publisher = "built" => artifact \in [Requests -> Built]
    BY DEF ExecInv, ExecTypeOK
  <1>5. publisher = "built" => artifact \in [Requests -> Results]
    BY <1>3, <1>4
  <1>6. \A r \in Requests : FailureOf(r) \in FailureDisposition
    BY <1>2 DEF FailureOf
  <1> QED BY <1>1, <1>5, <1>6 DEF ExecInv, TasksHeld

\* A step of an execution is a transaction of the store or none at all.
LEMMA ExecutionStepIsStoreStep ==
    ASSUME ExecInv, [Next]_vars, Sessions = Nat, Times = Nat, Requests # {}
    PROVE  StoreNext \/ UNCHANGED storeVars
  <1>1. ASSUME NEW r \in Requests, TaskStep(r) \/ FaultStep(r) \/ \E p \in Payload : Deliver(r, p)
        PROVE  StoreNext \/ UNCHANGED storeVars
    <2>1. CASE StartRequest(r)
      <3>1. CASE CanStart(r)
        <4>1. StartAttempt(r, run, now)
          BY <2>1, <3>1 DEF StartRequest
        <4>2. run \in Sessions /\ now \in Times
          BY ExecutionValues
        <4> QED BY <4>1, <4>2 DEF StoreNext
      <3>2. CASE ~CanStart(r)
        BY <2>1, <3>2 DEF StartRequest
      <3> QED BY <3>1, <3>2
    <2>2. CASE \/ Send(r) \/ Continue(r) \/ Return(r) \/ RaiseError(r)
               \/ Timeout(r) \/ LoseConnection(r) \/ LoseIntegrity(r) \/ Malformed(r)
      BY <2>2 DEF Send, Continue, Return, RaiseError, Malformed, Timeout, LoseConnection,
                    LoseIntegrity
    <2>3. CASE InvalidateSession(r)
      <3>1. InvalidateAttempts({run}, cut[r])
        BY <2>3 DEF InvalidateSession
      <3>2. run \in Sessions /\ cut[r] \in Times
        BY ExecutionValues
      <3> QED BY <3>1, <3>2 DEF StoreNext
    <2>4. CASE FailRequest(r)
      <3>1. task[r] \in Working
        BY <2>4 DEF FailRequest, Working, InSlot
      <3>2. Current(r) \in Ordinals /\ now \in Times /\ FailureOf(r) \in FailureDisposition
            /\ (task[r] = "retryable") \in BOOLEAN
        BY <3>1, ExecutionValues
      <3>3. \/ UNCHANGED storeVars
            \/ FailAttempt(r, Current(r), FailureOf(r), task[r] = "retryable", now)
        BY <2>4 DEF FailRequest
      <3> QED BY <3>2, <3>3 DEF StoreNext
    <2>5. CASE FinalizeRequest(r)
      <3>1. task[r] \in Working
        BY <2>5 DEF FinalizeRequest, Working, InSlot
      <3>2. Current(r) \in Ordinals /\ now \in Times
        BY <3>1, ExecutionValues
      <3>3. UNCHANGED storeVars \/ FinalizeAttempt(r, Current(r), now)
        BY <2>5 DEF FinalizeRequest
      <3> QED BY <3>2, <3>3 DEF StoreNext
    <2>6. CASE CompleteSchedule(r)
      <3>1. task[r] \in Working
        BY <2>6 DEF CompleteSchedule, Working, InSlot
      <3>2. Current(r) \in Ordinals /\ now \in Times
        BY <3>1, ExecutionValues
      <3>3. PICK p \in Payload : p = [kind |-> "COMPLETION", code |-> "NONE"]
        BY DEF Payload, CallbackKind
      <3>4. AppendCallback(r, Current(r), p, TRUE, now)
        BY <2>6, <3>3 DEF CompleteSchedule
      <3> QED BY <3>2, <3>4 DEF StoreNext
    <2>7. ASSUME NEW p \in Payload, Deliver(r, p) PROVE StoreNext
      <3>1. task[r] \in Working
        BY <2>7 DEF Deliver, Working, InSlot
      <3>2. Current(r) \in Ordinals /\ now \in Times
        BY <3>1, ExecutionValues
      <3>3. AppendCallback(r, Current(r), p, TRUE, now)
        BY <2>7 DEF Deliver
      <3> QED BY <3>2, <3>3 DEF StoreNext
    <2> QED BY <1>1, <2>1, <2>2, <2>3, <2>4, <2>5, <2>6, <2>7 DEF TaskStep, FaultStep
  <1>2. CASE Register
    BY <1>2 DEF Register, StoreNext
  <1>3. CASE \/ Launch \/ Connect \/ StopEarly \/ Abort \/ AllReturned \/ ConnectFails \/ Crash
             \/ BuildResult \/ PublisherCrash
    BY <1>3 DEF Launch, Connect, StopEarly, Abort, AllReturned, ConnectFails, Crash,
                BuildResult, PublisherCrash
  <1>4. CASE Recover
    <2>1. InvalidateAttempts(Nat, now) /\ now \in Times
      BY <1>4, ExecutionValues DEF Recover
    <2> QED BY <2>1 DEF StoreNext
  <1>5. CASE CloseSession
    <2>1. InvalidateAttempts({run}, now) /\ run \in Sessions /\ now \in Times
      BY <1>5, ExecutionValues DEF CloseSession
    <2> QED BY <2>1 DEF StoreNext
  <1>6. CASE MarkResult
    <2>1. MarkPublished(artifact) /\ artifact \in [Requests -> Results]
      BY <1>6, ExecutionValues DEF MarkResult
    <2>2. Requests \in SUBSET Requests
      OBVIOUS
    <2> QED BY <2>1, <2>2 DEF StoreNext
  <1>7. CASE UNCHANGED vars
    BY <1>7 DEF vars
  <1> QED BY <1>1, <1>2, <1>3, <1>4, <1>5, <1>6, <1>7 DEF Next, CommandStep

\* An execution, with its tasks, faults and restarts, and the publisher next to
\* it are callers of the store: the detailed specification implements the
\* store's, whose sessions and clock readings are numbers.
THEOREM ExecutionImplementsStore ==
    Sessions = Nat /\ Times = Nat /\ Requests # {} => (Spec => StoreSpec)
  <1> SUFFICES ASSUME Sessions = Nat, Times = Nat, Requests # {} PROVE Spec => StoreSpec
    OBVIOUS
  <1>1. Init => StoreInit
    BY DEF Init
  <1>2. ExecInv /\ [Next]_vars => [StoreNext]_storeVars
    BY ExecutionStepIsStoreStep
  <1> QED BY <1>1, <1>2, ExecutionInvariant, PTL DEF Spec, StoreSpec

\* So an execution implements the plan ledger, through the store.
THEOREM ExecutionImplementsLedger ==
    Sessions = Nat /\ Times = Nat /\ Requests # {} => (Spec => ImplementsLedger)
  BY ExecutionImplementsStore, StoreImplementsLedger, PTL

\* No retry, disconnect, crash or recovery of an execution reruns a closed
\* request, changes a closed attempt, replaces a published result or drops a
\* callback.
THEOREM ExecutionKeepsHistory ==
    Sessions = Nat /\ Times = Nat /\ Requests # {} => (Spec => HistoryIsImmutable)
  BY ExecutionImplementsStore, HistoryStays, PTL

\* A request that an execution counts as a success has a closure that deserves it.
THEOREM ExecutionSuccessIsJustified ==
    Sessions = Nat /\ Times = Nat /\ Requests # {} => (Spec => []SuccessIsJustified)
  BY ExecutionImplementsStore, SuccessStaysJustified, PTL
=============================================================================
