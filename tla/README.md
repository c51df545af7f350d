# A verification project for q-trad

q-trad captures market data from Interactive Brokers (IBKR) and IG into a
PostgreSQL event store, acquires IBKR history under the provider's pacing rules,
and turns both into authenticated research artifacts. The core of its risk is not
arithmetic: it is what callbacks, timeouts, disconnects, crashes and several
processes leave behind in the database. This directory models that part in TLA+,
checks it with TLC and proves its safety properties with TLAPS.

File names below are relative to `src/src/qtrad/` unless they start with `docs/`.

## The system

| Component | State it keeps | Operations | What makes it correct | Module |
|---|---|---|---|---|
| IBKR historical store (`adapters/postgres/ibkr_historical.py`) | plan, request, attempt and callback rows | register, start, append callback, finalize, fail, invalidate, recover, mark published | rows agree with each other; budget; immutability of what is closed or published | `IbkrStore` |
| Execution command and executor (`__main__._execute_ibkr_historical_plan`, `application/ibkr_execution.py`) | one asyncio task per request, a semaphore, the connection session | recover, connect, run tasks, retry, abort, close the session | no attempt is orphaned; an execution ends; a restart is never refused | `IbkrExecution` |
| IBKR adapter (`adapters/ibkr/historical.py`) | the request lock, the callback queue | send, collect bars or a schedule, raise errors | persist before sending; one request on the wire | `IbkrExecution` |
| Result verification and publication (`application/ibkr_results.py`, `__main__._build_ibkr_historical_result`) | result directory, `result_sha256` columns | verify a snapshot, build, publish, mark | database and files agree; rebuilding gives the same result | `IbkrExecution` |
| Pacing ledger (`reserve_ibkr_request`, `adapters/ibkr/pacing.py`) | reservation rows | reserve, refuse, delete old rows | cooldown between identical requests; window limits | `PacingLedger` |
| Persistence worker (`application/persistence.py`, `__main__._ingest_ibkr_native`) | bounded queue, counters, first terminal error | submit, process, drain, stop, report | every record accounted for; the database holds a prefix; STOPPED means complete | `PersistenceWorker` |
| Event store (`adapters/postgres/store.py`) | raw records, events, stream versions, projections, checkpoint | capture, append, project, quarantine, rebuild | dense versions, one event per raw record, read model = replay | `EventStore` |
| Capture feed (`read_page`, `application/capture_feed.py`) | consumer's cursor | read a page, accept it | every page read is accepted | `EventStore` |
| Ingestion, bars, gaps (`application/ingestion.py`, `bars.py`, `gaps.py`) | builder's buckets, correction cutoff, last quote | process, advance bars, observe | bars equal a sort of the log; bounded memory; silence within a process reported | `Ingestion` |
| IG stream (`adapters/ig/market_data.py`, `__main__._ingest`) | client and generation, channel evidence, readiness, reconnect flag, watchdog | subscribe, reconnect, replace the universe, check staleness, disconnect, every listener callback | one connection; READY only on the current client's evidence; a lost stream comes back or the command ends | `IgStream` |
| Backfill plans, run ledger, reconciliation (`adapters/postgres/store.py`, `__main__`) | run, plan, coverage and usage rows | start, finish, reload, register, claim, record usage, complete, fail, review, reconcile | one executor per plan; every RUNNING row has someone to close it; what ended stays ended | `RunLedger` |
| R2 holdout (`runtime/r2_holdout.py`) | claim and its `.next`, usage, intent, `opened.json`, `consumed.json`, evaluation files, staging | prepare, reveal, recover, transfer | outcomes read once; one owner; recoverable (but for named traces) and resumable after a crash | `Holdout` |
| IBKR session, capability probe, checkpoint | connection generation, probe checkpoint | connect, probe, resume | probes are resumed, never repeated | pacing loop only |
| IBKR native stream | subscriptions, line budget, reconnect state | subscribe, reconnect | every wanted instrument is subscribed or reported | planned |
| Promotion, foundation bundles, research export, Parquet stores | directories | stage, verify, exclusive rename | a published name never changes or is seen half-written | planned |
| Folds, walk-forward, paper execution, R3 rounding | pure functions, portfolio ledger | window, fill, round | training precedes the embargo; cash and positions balance | planned |
| R2 features, models, evaluation; strategies; reports | none | numerical | - | not modelled |

How they meet. The execution command holds a PostgreSQL advisory lock, opens one
IBKR session, asks the pacing ledger for admission and calls the store for every
transition; its tasks share one adapter, which serialises provider requests with a
lock. The publisher is another process and takes no lock. The native capture command
feeds records to the worker, which calls the ingestion service, which builds events
with a cached stream version and issues the event store's transactions. The API reads
the event store page by page for the research process. The IG command drives the
adapter's stream, opens a run row per universe and a candidate row per reload; backfill
commands share the plan rows with each other and the run rows with the operator who
reconciles. Holdout commands meet only in the file system: there is no lock, and the
protocol rests on create-only files, `os.replace` and what each command reads first.

What is hard. Tasks that interleave at every `await`; a timeout or a disconnect that
races a callback already committed; a crash between two transactions; a commit whose
answer is lost; transactions that reach their locks in another order than their
timestamps or positions; late and repeated quotes; shutdown with a full queue and a
dead worker; callbacks of a superseded client while its successor opens; two commands
that read a claim before either writes it. `PROJECT.json` lists these hazards at their lines.

## Modules

`IbkrStore` - each method of `PostgresIbkrHistoricalExecutionStore` is one
transaction with row locks, hence one action. `StoreSpec` lets *any* callers call
anything at any time with any arguments, so what holds of it holds for several
executors at once. An attempt is named by its request and ordinal. A callback row keeps
its payload class (data, completion, error code), its receive time, whether its
transport identity matches, and the stored `closure_eligible`; `ClosureOutcome` is the
rule by which `_finalize` decides. Hashes, payloads and failure texts are opaque.

`IbkrExecution` EXTENDS it with the programs that use it. `phase` is the line the
command has reached; `task[r]` is the await at which the task of a request stands;
`wire` holds the adapter's `_request_lock`; `cut[r]` is the clock reading a disconnect
handler has taken and not yet written (the stale value that matters). Actions follow the
handlers of `_execute_request` one by one: `Malformed`, `Timeout`, `LoseConnection`,
`InvalidateSession`, `FailRequest`, `FinalizeRequest`; `Abort` is the task group that
cancels the siblings, `CloseSession` the `finally` block. `SnapshotVerifies` is the
verifier of `ibkr_results.py`: the checks that relate the rows to each other.

`PersistenceWorker` - worker and capture command on one event loop, a step per await.
Records are numbered in the order `submit_nowait` counts them; `durable` is what the
database holds. A failing transaction may have been applied (`ProcessFails`).

`PacingLedger` - `Ask` reads the clock, `Reserve` or `Refuse` is the transaction, which
also deletes rows older than the retention. `WaitSeconds` is the pure function
`IbkrPacingPolicy.wait_seconds`, the second implementation of the same rule.

`EventStore` - a transaction is split at its statements: begin (version from cache or
database), raw record, append under the advisory lock (takes the position), projection,
checkpoint, commit. The rebuild (`rebuild` is the set of its statements done: truncate,
scan, checkpoint) and the feed reader run beside it. READ COMMITTED and
lock queues are PostgreSQL's and are taken from how the code uses them.

`Ingestion` - one instrument; the quote is one transaction, the gap and bar events that
follow are one each, and a crash between them loses the builder. Prices are numbers,
times are small integers, an interval is `Interval` units long.

`PlanLedger` - the abstract specification of the store: a registered plan settles each
request once, for good, and publishes each settled request once under one result, the
plan with its last request. `IbkrStore` instantiates it (`Ledger`) with the mapping that
forgets attempts, callbacks and sessions; `ImplementsLedger` is the refinement.

`IgStream` - one event loop, so an action is what happens between two awaits or one
callback handed over with `call_soon_threadsafe`. `conn` holds the adapter's connection
fields, `chan` its channel evidence (transport, subscriptions, updates, heartbeat),
`task` the caller's coroutine and the one that holds `_reconnecting`; `link` and `live`
are the provider's side (external). `OpenBegin`, `CloseBegin` and their ends are shared by
subscribe, scheduled and forced reconnects, replacement with rollback and disconnect,
as in the code; the handlers compare the client they are bound to with the current one.

`RunLedger` - `PostgresAuditStore` and the backfill methods, one transaction per action,
beside the commands that call them: ingestion with reloads (`Reload*`), the single-plan
and plan-set executors, with an interrupt as a claim commits (`SetClaimCut`), the review (`RunReconciliationPlan`) and its application.
`proc[p]` is where a command stands, with what it has read before and relies on
(`seen`, the statuses of a plan set); a process may die anywhere, and a deadline may cancel a
reload. `lost` is a history variable: rows whose process can no longer close them.

`Holdout` - one seal; a process runs one command, an action is one file operation, and
`Crash` may take it between any two. `_replace_json` is two steps (write `.next`,
`os.replace`), because another command can act in between and the second half does not
look at what it replaces. `outcome-target.json` and `outcome-evidence.json` are indexes of
part files that `write_partitioned_rows` creates first, so each is two creates; all parts
of one index are one step, since the verifier tells only parts with an index from parts
without (`Orphans`). `RevealCleanup` is the removal of the parts on an exception. `Verifies` is `verify_holdout_preparation` on the files that
the lifecycle changes. `MixedRace` says whether a transfer may run beside a reveal or
recovery of its source. Identities, hashes and sealed children are taken to be right.

`IbkrExecutionProofs` (store and executor), `PersistenceWorkerProofs`, `PacingLedgerProofs`,
`EventStoreProofs`, `IngestionProofs`, `IgStreamProofs`, `RunLedgerProofs` and
`HoldoutProofs` hold the theorems; `MC*` the small instances.

## Runs

| Run | Instance | What it shows |
|---|---|---|
| `store` | one SCHEDULE request, 2 attempts, 2 sessions, 2 results, at most 3 callback rows | rows agree (`RequestMatchesAttempts`), a PENDING request has budget (`PendingHasBudget`), a success keeps its justification whatever arrives later (`SuccessIsJustified`), history never changes (`HistoryIsImmutable`), the store implements `PlanLedger` (`ImplementsLedger`) |
| `exec_live` | 2 requests in flight, 2 attempts, answers, rejections, timeouts and disconnects, one connection, FairSpec | `NoOrphanAttempt`; `ExecutionEnds`; `RunClosesPlan`: only a raising task leaves the plan open |
| `exec_verifier` | a bars and a schedule request, one slot, all four error classes, disconnects, one crash, 2 connections, the publisher; no timeouts | `NoOrphanAttempt`; `SnapshotAlwaysVerifies`: whatever is left behind, the next start is not refused; `PublishedMatchesArtifact`: rebuilding gives the published result |
| `worker` | capacity 3, 7 records, FairSpec | `EveryRecordAccounted`, `DurableIsPrefix`, `StoppedMeansComplete`, `ShutdownCompletes`; `OverflowStopsStorage`: of the records waiting at an overflow at most one is still stored |
| `pacing` | 2 callers with different limits, 5 requests on 2 contracts, clock to 4, lag 1, 3 reservations; two fingerprints symmetric | `CooldownKept`, `LimitsKept`; `PolicyMatchesLedger`: the wait is 0 exactly when the SQL admits, and no wait is longer than the refusal lasts |
| `events` | 2 writers, a quote and a bar stream, 2 positions, pages of 1, FairSpec | `StreamsAreDense`, `RawOnce`, `ProjectionIsReplay`, `PagesAreAccepted`; `TransactionsEnd`: the writers and the rebuild take their locks in one order (it fails if the rebuild takes the checkpoint row before the tables) |
| `ingest` | 9 quotes, 3 of them stored, one crash, 4 receive times | `BarsMatchLog`, `ExpiredStaysOut`, `StateIsBounded`; `SilenceIsReported`: of the quotes the running process has stored |
| `ig_stream` | universes {e1} and {e2}, 2 attempts per cycle, 1 cycle, 3 faults, fair | `OneConnection`, `ReadyIsEarned`, `StoppedIsClosed`, `StreamRecovers` |
| `holdout` | 4 symmetric commands, 2 symmetric destinations, `MixedRace` off | `OutcomesReadOnce`, `OneOwner`, `TransferResumes`; `OpenedIsRecoverable`: a recovery gets as far as the marker, but for three named traces of a death |
| `runs` | 2 symmetric processes, 2 configurations, 2 plans of 2 requests, 3 run rows, 1 reload each, 2 clock readings | `PlansAreHeld`, `RunsAreOwned`, `CompletedIsAccounted`, `LedgerIsFinal` |
| `find_timeout` | one request, timeouts | violates `OutcomesReplay` |
| `find_reveal` | as `holdout`, `MixedRace` on | violates `OutcomesReadOnce` |

Why the bounds are enough. Two attempts separate "retry" from "budget used up", and an
invalidated last attempt is the edge. Three callback rows hold an answer, its completion
and a late third row. Two requests are needed for every race between siblings (a
third would wait like the second). Two connections and one crash give
recovery after every step and a recovery after an aborted recovery is the same step
again. Queue capacity 3 with 7 records fills the queue with a record in process and a
drain under way. In the pacing instance windows of 1 and 2, a cooldown of 2 and a
retention of 3 with lag 1 keep the proportions of 1 s, 2 s, 600 s and 3600 s that
matter: `Cooldown + MaxLag =< MaxCooldown`. In `events` a transaction may also begin at the bound
of positions when it is certain to end as a conflict or a duplicate, so that stale
caches do get used. Three quotes are a first, a late and a correcting one. Three stream
faults are one that starts a reconnect, one inside it and one inside the next, with a
cycle that can be exhausted; two universes without a common epic make every leftover of
the old one visible. Four holdout commands are a transfer that dies, the one that
completes it, a reveal and its recovery. Three run rows are a run, its reload and
another process's run. CHECK_DEADLOCK is off where the bounds, or an idle system, end
behaviours.

In `exec_verifier` timeouts and two requests in flight are left out on purpose: with
them `SnapshotAlwaysVerifies` is violated, by what `find_timeout` shows and by the first
of the known behaviours below. `holdout` excludes a transfer beside a command on its
source for the same reason, and `find_reveal` is the run without the exclusion.

Fairness. `IbkrExecution`: the event loop runs every runnable task (weak fairness of
the command and of each task), and `asyncio.wait_for` ends each provider call (weak
fairness of `Timeout`); nothing is assumed of the provider, the network or the
operator. `PersistenceWorker`: the worker's `get` with timeout, the database call that
returns or raises, the shutdown sequence, and that a capture task raises after a
terminal error. `EventStore`: strong fairness of each transaction's next statement,
because PostgreSQL's lock queues are first come, first served, and weak fairness of a
rebuild that has begun. `IgStream`: the loop runs the coroutines, the watchdog and the
staleness check (the record iterator polls or idles, so the check is reached), a
heartbeat that does not come ages, and - assumptions about the provider - a client that
is connected is told so, and its subscriptions and heartbeats are answered unless one of
the bounded faults intervenes; the SDK serialises the callbacks of one client. No
process has to crash, to recover or to run a second command.

## Findings

* `find_timeout` - `asyncio.wait_for` may expire after the completion marker was
  committed; the handler records a retryable failure for an attempt with an eligible
  marker, and the snapshot verifier rejects the plan from then on.
* `find_reveal` - a transfer reads the source's claim, copies and verifies everything,
  and then replaces the claim without looking again (`runtime/r2_holdout.py:3107`): a
  reveal that has claimed the source in between is overwritten with TRANSFERRED, and the
  destination can be revealed as well.

## Known behaviours

What the models contain and no property forbids, because the code does it and a team
may accept it. Each was met as a counterexample to a stronger property.

* Several requests in flight: the disconnect handler reads its clock before its
  transaction, and a sibling's callback committed in between is later than the
  `terminal_at` it is closed with, so its eligibility no longer replays.
* Several requests in flight: the task of a request that a sibling's disconnect closed
  still appends callbacks; a result built in between differs from the next build.
* A crash between a persisted entitlement error and the failure transaction: recovery
  retries the request (`docs/IBKR-HISTORICAL-ACQUISITION.md:837` says never to).
* Bar revisions are counted in memory: after a restart an interval that was closed is
  closed again as revision 1 (`docs/adr/0004-one-minute-bars.md:11`).
* A late quote becomes the start of the next gap, which can then span quotes that are in
  the log.
* A silence that spans a restart is not reported: `GapDetector` starts without a last
  quote. Quote and gap are two transactions, so a death between them loses the gap, and
  the repeated quote is a duplicate that is not observed again.
* `wait_seconds` returns when the oldest row leaves its window; for requests that weigh
  more than one that need not be enough, and the caller may be refused again. (Only tests
  call it; the adapters ask the ledger.)
* Feed positions are handed out before the commit: with two writers a page can pass an
  event that becomes visible later.
* IG: a reload that fails to open and cannot confirm its close keeps the rejected
  universe, and the next reconnect opens it under the old run (`market_data.py:544`). An
  epic's subscription error that arrives while `_reconnecting` is set is dropped;
  `StreamRecovers` exempts exactly that case. The old stream is closed before the
  replacement opens.
* A cancelled reload leaves its candidate run RUNNING. BACKFILL runs are never offered
  for reconciliation, so one whose process died stays RUNNING, and a plan whose
  executor died stays EXECUTING; so does one whose plan-set executor was interrupted
  after the claim's commit and before `current_plan_claimed = True` (`__main__.py:3757`),
  while its run is closed.
* Holdout: a recovery claims before it reads `opened.json`; a reveal that died between
  part files and their index (`_reject_orphans`, `r2_holdout.py:3134`), a reveal that died
  between the halves of its own claim, and a source whose transfer died before it was
  revealed, do not pass the verifier a recovery starts with: such a holdout is opened and
  cannot be closed by the program (the three exemptions of `OpenedIsRecoverable`); two transfers to one destination may leave a `.next` that the
  verifier refuses (the exemption of `TransferResumes`).

## Proofs

For every value of the constants (any number of requests, attempts, sessions, records,
callers, any capacity and policy):

* `IbkrExecutionProofs`, the store. `StoreInv` = `StoreTypeOK`, `AttemptsContiguous`,
  `RequestMatchesAttempts`, `PendingHasBudget`, `PublicationIsClosed`.
  `RequestMatchesAttempts` alone is not inductive: that a new attempt gets a fresh
  ordinal needs `AttemptsContiguous`, and that an invalidation may return a request to
  PENDING needs the budget. The effect of closing a set of attempts is proved once,
  as lemmas on `CloseRow` and `RequestAfter`, and used by finalize, fail, invalidate and
  recover. Theorems: `StoreIsConsistent`, `StoreTypeCorrect`, `RowsAgree`,
  `BudgetNeverExceeded`, `OrdinalsHaveNoHoles`, `PublishedIsClosed`, and the refinement
  `StoreImplementsLedger`: initial states map to initial states and, under `StoreInv`,
  every step to a step of `PlanLedger` or a stutter. `EvidenceSound` (a success has a
  successful closure, and what counts for a closure came over the attempt's own
  transport) is proved on top of it: the second half is what makes a fenced callback
  harmless to a closed attempt. It gives `SuccessStaysJustified`; `HistoryStays` is an
  action property, from `StoreInv` and the guards on closed rows. Assumption:
  `StoreAssumption`.
* `IbkrExecutionProofs`, the executor, on top of the store's proofs: every transaction of
  the executor and the publisher is one of the store's, so `StoreInv` carries over. Four invariants:
  `ExecInv` = `StoreInv`, `ExecTypeOK`, `TasksHeld` (which tasks go with which phase, and
  a working task has an attempt), `LogsBounded` and `NoOrphanAttempt`, for any number of
  requests, slots, connections, crashes and any faults; `ClockHeld` with
  `AttemptsInOrder` (no row is later than the clock, and attempts of a request do not
  overlap), for any constants; `SlotInv` (one busy task, every STARTED attempt is that
  task's, what the publisher has built is still what a build gives), for one slot;
  `ReplayInv` (each log has the shape its task's position says, and each closed attempt
  replays from its log), for one slot without timeouts. Theorems: `ExecutionInvariant`,
  `NoAttemptIsOrphaned`, `AttemptsNeverOverlap`, `PublishedIsReproducible` from
  `MaxInFlight = 1`, `SnapshotVerified` from `MaxInFlight = 1` and no timeout. The
  hypotheses are necessary: without them the properties are false, by `find_timeout` and
  the first two known behaviours. Assumptions: `StoreAssumption` and
  `ExecutionAssumption`; its last two conjuncts say that every result the publisher can
  build is a result, and that a result directory is not `NoArtifact`. Last, the second
  refinement: `ExecutionImplementsStore` (`Spec => StoreSpec`, the store's variables
  mapped to themselves) shows under `ExecInv` that every step is a transaction the
  store's callers may issue, or none. It is stated for `Sessions = Nat` and
  `Times = Nat`, because an execution numbers its connections and clock readings without
  end while a run of the store alone draws them from two small sets, and for a plan that
  has a request. With it what is proved of any callers holds of the program:
  `ExecutionImplementsLedger` (two refinements in a row), `ExecutionKeepsHistory`,
  `ExecutionSuccessIsJustified`.
* `PersistenceWorkerProofs`. `WorkerInv` = `WorkerTypeOK`, `EveryRecordAccounted`,
  `Shape` (which values of worker, command and error go together), `Pipeline` (durable,
  in process and queued records are consecutive numbers), `Verdict` (what a status
  says), `Backlog` (`OverflowStopsStorage`, with one record more of distance as long as the
  worker may still store one). Theorems: `WorkerIsConsistent`, `RecordsAccounted`, `DurablePrefix`,
  `StoppedIsComplete`, `FinishIsQuiet`, `OverflowIsFinal`.
* `PacingLedgerProofs`. `PacingInv` = `PacingTypeOK`, `Forgotten` (a deleted reservation
  is older than every cooldown a caller can still ask for), `CooldownKept`. Theorem
  `CooldownIsKept`. `LimitInv` adds that the ledger is finite and `LimitsKept`; a
  reservation is the only step that adds weight, and the windows it enters are those that
  end at its stamp or later, where lag and retention make the `SELECT` see every row.
  Theorem `LimitsAreKept`. `PolicyMatches`: in every such ledger `wait_seconds` is 0
  exactly when the SQL admits, and before the wait is over some rule still refuses; that
  the wait is enough is neither stated nor true.
  Sums over sets of rows are the fold `Weight`; its laws (the order does not matter, a
  subset weighs no more) are proved from a smallest counterexample, since a non-empty
  set of numbers has a least element. `PacingAssumption` asks that cooldowns and windows
  leave room for the lag, `Cooldown + MaxLag =< MaxCooldown` and the same of each
  window; the code keeps rows for 3600 s, the largest cooldown a profile may state, so a
  profile *at* the maximum whose caller is delayed between clock and lock is outside the
  theorems.
* `EventStoreProofs`. `EventInv` = types, the four properties and what each needs about
  open transactions: `StreamHeld` (the advisory lock: a transaction that has appended
  holds the next version and the highest position of its stream, alone), `RawHeld` (the
  unique key), `RebuildHeld` (nobody commits to the read model under a rebuild, so what
  was scanned is still the log), `FeedHeld` (the cursor never passes the log). Theorems:
  `StreamsDense`, `RawStoredOnce`, `ProjectionReplays`, `PagesAccepted`, for any writers,
  streams and page sizes.
* `IngestionProofs`. The invariants speak of `All`, the log followed by the events of the
  running call, so that a call appears at once and its appends change nothing.
  `IngestInv` = `IngestTypeOK`, `Recent` (a kept bucket can still be corrected, or is open
  and not yet due), `Gone` (an expired interval has no bucket, is behind the cutoff and
  has no later bar), `LastSeen` (`_last_quote` is the last quote of the session),
  `Reported`. It gives `ExpiredIntervalsStayOut`, `BuilderIsBounded` and
  `SilencesAreReported`, all three about one process; `StateIsBounded` alone is not inductive, because between a record
  and its `advance_bars` a bucket may be overdue. `Held` and `Left` are what
  `BarsAgreeWithLog` needs on top: a bucket's samples are exactly the samples of the
  quotes that were taken, sorted by time and then by first arrival (`Collected`), its
  revision is the number of its bars, and a closed one has shown its samples in its last
  bar; an interval without a bucket has had no quote, or lies behind the cutoff and its
  last bar is complete - a dropped bucket must be remembered that way, or a later quote
  could restart its revisions. `AddSampleCollected` shows that `_add_sample` keeps the
  order, `CollectedBar` that the first, last, highest, lowest and number of a collected
  list are those of the unordered reference set. Assumption: `IngestionAssumption` (times
  and prices are natural numbers, a quote has a side, an interval has a length).
* `IgStreamProofs`. `IgInv` = `ControlInv` (`CallerHeld`, `LifeHeld`: `_reconnecting` is
  set exactly while a coroutine holds it; `StopHeld`: a disconnect leaves no other
  coroutine; `ClientHeld`: the client that may be connected is the one the adapter owns),
  `DataTypeOK`, `EvidenceHeld` (what a channel has on record for the current generation,
  the current client really delivered). Theorems: `StreamInvariant`, `ConnectionIsOne`,
  `ReadyEarned`, `StoppedClosed`, for any universes, attempts and number of faults.
* `RunLedgerProofs`. `LedgerInv` = `LedgerTypeOK`, `Commands` (what each command has
  opened and read at each of its steps), `HoldersAgree` (an EXECUTING plan has exactly
  one holder, or was lost with its process or by its interrupted claim), `RunsAreOwned`, `CompletedIsAccounted`. What
  a step of one process does to the rows is stated once and the processes that do not
  move are dealt with there. Theorems: `PlansHeld`, `RunsOwned`, `CompletedAccounted` and
  the action property `LedgerFinal`, for any processes, plans and configurations.
* `HoldoutProofs`. `OwnerInv` = `HoldoutTypeOK`, `IntentIsMine` (a transfer past the
  intent is the one it names), `TransferredIsFinal` (beside TRANSFERRED, `.next` holds
  nothing else), `DestinationIsIntended`; `OneOwner` alone says nothing about what a
  swap will bring. Theorem `OwnershipIsExclusive`, with every race. `ReadInv` adds
  `Apart` (the proviso), `SourceIsClosed` (an accepted transfer finds no lifecycle
  file), `RevealIsAllowed`, `SwapIsOwn`, `OpenedStays` (an opened source is never
  transferred) and `OpenersDiffer` (one opener per marker). What a step may change is
  stated once as `Effect`; every action is shown to have it, and `Effect` to preserve
  `ReadInv`. Theorem `OutcomesAreReadOnce`, from `~MixedRace`. `TraceInv`
  says what a death can leave, with every race: `Marked` (a lifecycle file lies in a root
  that exists, `consumed.json` and a reveal past its marker have `opened.json` beside
  them), `HandedOver` (the source is handed to the intended destination only),
  `Temporaries` (what a `.next` can hold, and that a destination is never
  TRANSFERRED). The part files of an index are lifecycle files like the others. Theorems `TracesHeld`, `OpenedRecoverable`,
  `TransferIsResumable`. Assumption: `HoldoutAssumption`.

Only model-checked: liveness (`ExecutionEnds`, `RunClosesPlan`, `ShutdownCompletes`,
`TransactionsEnd`, `StreamRecovers`), because fairness and ENABLED are out of TLAPS's
reach. Every invariant and action property that a passing run checks is also a theorem,
three of them under a stated hypothesis (`SnapshotAlwaysVerifies`,
`PublishedMatchesArtifact` and `OutcomesReadOnce`, as said above). The library's induction
rules cannot be used either; where a proof needs the effect of one (sums, sorted lists,
concatenations) it argues from a least element instead.

## Not modelled

Wire formats, hashing and canonical JSON (values are opaque, equality stands for equal
hashes); the content checks of the verifier (schema versions, identities of lower
artifacts); the projection of provider listings and health tables; plain queries;
the record queue and the conversion of IG updates; the quota rows, which only report; the
content of sealed holdout children and the orphan temporaries of a crash inside
`atomic_create`; numerical research code, which is most of the repository's lines;
configuration, logging, deployment scripts and migrations. The
reasons are per component in `PROJECT.json`.

## Plan

Done: execution store, executor and verifier, pacing, worker, event store, ingestion; IG
stream; run and plan ledger; holdout; the refinements of `PlanLedger` and of `StoreSpec`;
proofs of every safety property. Next:

1. `Publication`: stage, verify, exclusive rename, the protocol that promotion,
   foundation bundles, research export and Parquet stores share, as an abstract
   "write-once name" and the file-level steps that implement it.
2. `IbkrSession` (generations, routing of callbacks), `IbkrStream`, `CapabilityProbe`.
3. `CaptureFeed` with the rebinding of the serving identity and the research consumer;
   `Folds`, `PaperLedger` and R3 rounding as operators against reference definitions.
