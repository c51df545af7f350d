------------------------------ MODULE EventStore ------------------------------
(***************************************************************************)
(* The canonical event store of PostgresAuditStore: raw capture with       *)
(* de-duplication, append with optimistic stream versions, projections in  *)
(* the same transaction, rebuild of the projections, and the capture feed  *)
(* that reads the log page by page.                                        *)
(*                                                                         *)
(* A transaction is not one step.  Its locks are taken in the order of its *)
(* statements, its global position comes from a sequence before it         *)
(* commits, and nothing of it is visible until it commits.  PostgreSQL     *)
(* runs it READ COMMITTED: a statement sees what is committed when it      *)
(* starts.                                                                 *)
(***************************************************************************)
EXTENDS Integers, FiniteSets, FiniteSetsExt

CONSTANTS
    Writers,        \* processes (or tasks) with a connection of their own
    QuoteStreams,   \* streams projected into latest_quotes
    BarStreams,     \* streams projected into market_bars
    Inputs,         \* [stream, raw, bar]: what a writer may be asked to append
    NoRaw,          \* raw of an event without a raw record
    PageLimit,      \* limit of a feed page
    MaxPosition     \* bound: values of the identity column

Streams == QuoteStreams \cup BarStreams
NoInput == [stream |-> "none", raw |-> "none", bar |-> "none"]
Unknown == -1

ASSUME EventStoreAssumption ==
    /\ QuoteStreams \cap BarStreams = {}
    /\ \A i \in Inputs : i.stream \in Streams
    /\ NoInput \notin Inputs
    /\ PageLimit \in Nat \ {0} /\ MaxPosition \in Nat

VARIABLES
    raw,          \* raw.market_messages: the de-duplication keys
    quarantined,  \* raw.quarantine
    events,       \* canonical.events
    sequence,     \* last value of the identity column
    latest,       \* read_model.latest_quotes: the position of each stream's quote
    bars,         \* read_model.market_bars
    checkpoint,   \* ops.projection_checkpoints
    phase, input, expected, position,   \* per writer: its transaction
    cache,        \* per writer: IngestionService._stream_versions
    rebuild,      \* rebuild_projections: the statements it has executed
    scanned,      \* the events it has read
    page,         \* the feed page being read; NoPage when there is none
    cursor, high, \* CaptureFeedCursor of the consumer
    delivered     \* positions the consumer has been given

txVars == <<phase, input, expected, position>>
logVars == <<raw, quarantined, events, latest, bars, checkpoint>>
feedVars == <<page, cursor, high, delivered>>
vars == <<logVars, sequence, txVars, cache, rebuild, scanned, feedVars>>

NoPage == {Unknown}

Init ==
    /\ raw = {} /\ quarantined = {} /\ events = {} /\ sequence = 0
    /\ latest = [s \in QuoteStreams |-> 0] /\ bars = {} /\ checkpoint = 0
    /\ phase = [w \in Writers |-> "idle"]
    /\ input = [w \in Writers |-> NoInput]
    /\ expected = [w \in Writers |-> 0]
    /\ position = [w \in Writers |-> 0]
    /\ cache = [w \in Writers |-> [s \in Streams |-> Unknown]]
    /\ rebuild = {} /\ scanned = {}
    /\ page = NoPage /\ cursor = 0 /\ high = 0 /\ delivered = {}

----------------------------------------------------------------------------
(* Locks.  What a transaction holds follows from how far it has come.      *)

Appended == {"appended", "projected", "checkpointed"}
Open == {"captured"} \cup Appended

\* Another open transaction has inserted the same key into raw.market_messages.
RawLocked(w) ==
    \E v \in Writers \ {w} : phase[v] \in Open /\ input[v].raw = input[w].raw

\* pg_advisory_xact_lock(hashtext(stream_id)), taken in _append.
StreamLocked(w) ==
    \E v \in Writers \ {w} : phase[v] \in Appended /\ input[v].stream = input[w].stream

\* TRUNCATE excludes every transaction that has written to the projections.
Projecting == \E v \in Writers : phase[v] \in {"projected", "checkpointed"}
Truncated == "truncated" \in rebuild

\* The row of ops.projection_checkpoints that the upsert locks, of a writer and
\* of the rebuild.
CheckpointLocked(w) ==
    "checkpointed" \in rebuild \/ \E v \in Writers \ {w} : phase[v] = "checkpointed"

----------------------------------------------------------------------------
(* The log.                                                                *)

Of(s) == {e \in events : e.stream = s}

\* latest_stream_version
Version(s) == Max({0} \cup {e.version : e \in Of(s)})

Top == Max({0} \cup {e.pos : e \in events})

\* _project of an event into latest_quotes, newest position first.
Upsert(l, e) == [l EXCEPT ![e.stream] = IF @ < e.pos THEN e.pos ELSE @]

\* _project of an event into market_bars: ON CONFLICT DO NOTHING.
Insert(b, e) ==
    IF \E r \in b : r.stream = e.stream /\ r.bar = e.bar
    THEN b ELSE b \cup {[stream |-> e.stream, bar |-> e.bar, pos |-> e.pos]}

Project(l, b, e) ==
    IF e.stream \in QuoteStreams THEN <<Upsert(l, e), b>> ELSE <<l, Insert(b, e)>>

\* What _project makes of all events in the order of their positions.
Replay(E) ==
    <<[s \in QuoteStreams |-> Max({0} \cup {e.pos : e \in {f \in E : f.stream = s}})],
      {[stream |-> e.stream, bar |-> e.bar, pos |-> e.pos] :
           e \in {f \in E : /\ f.stream \in BarStreams
                            /\ \A g \in E : g.stream = f.stream /\ g.bar = f.bar
                                            => g.pos >= f.pos}}>>

----------------------------------------------------------------------------
(* Writers.                                                                *)

\* The bound on positions: a transaction begins if a position is left for it or
\* if it is certain to end as a duplicate or a conflict.
WithinBound(w, i) ==
    \/ sequence + Cardinality({v \in Writers : phase[v] \in {"begun", "captured"}}) < MaxPosition
    \/ i.raw \in raw
    \/ cache[w][i.stream] \notin {Unknown, Version(i.stream)}

\* IngestionService builds the event from the cached or the stored version.
Begin(w, i) ==
    /\ phase[w] = "idle" /\ WithinBound(w, i)
    /\ LET v == IF cache[w][i.stream] # Unknown THEN cache[w][i.stream]
                                                ELSE Version(i.stream)
       IN  /\ expected' = [expected EXCEPT ![w] = v]
           /\ cache' = [cache EXCEPT ![w][i.stream] = v]
    /\ input' = [input EXCEPT ![w] = i]
    /\ phase' = [phase EXCEPT ![w] = "begun"]
    /\ UNCHANGED <<logVars, sequence, position, rebuild, scanned, feedVars>>

\* The transaction of w is over; nobody else sees its local state.
Close(w) ==
    /\ phase' = [phase EXCEPT ![w] = "idle"]
    /\ input' = [input EXCEPT ![w] = NoInput]
    /\ expected' = [expected EXCEPT ![w] = 0]
    /\ position' = [position EXCEPT ![w] = 0]

Forget(w) == cache' = [cache EXCEPT ![w] = [s \in Streams |-> Unknown]]

\* Mutation of Capture: no uniqueness of the de-duplication key.
CaptureAgain(w) ==
    /\ phase[w] = "begun"
    /\ phase' = [phase EXCEPT ![w] = "captured"]
    /\ UNCHANGED <<logVars, sequence, input, expected, position, cache, rebuild, scanned,
                   feedVars>>

\* _capture inserts the raw record (capture_and_append), or there is none
\* (append).
Capture(w) ==
    /\ phase[w] = "begun" /\ (input[w].raw # NoRaw => ~RawLocked(w) /\ input[w].raw \notin raw)
    /\ phase' = [phase EXCEPT ![w] = "captured"]
    /\ UNCHANGED <<logVars, sequence, input, expected, position, cache, rebuild, scanned,
                   feedVars>>

\* _capture finds the record: the result is a duplicate and nothing is appended.
Duplicate(w) ==
    /\ phase[w] = "begun" /\ input[w].raw \in raw
    /\ Close(w)
    /\ UNCHANGED <<logVars, sequence, cache, rebuild, scanned, feedVars>>

\* Mutation of Append: the current version of the stream is not compared.
AppendUnchecked(w) ==
    /\ phase[w] = "captured" /\ ~StreamLocked(w)
    /\ sequence' = sequence + 1
    /\ position' = [position EXCEPT ![w] = sequence + 1]
    /\ phase' = [phase EXCEPT ![w] = "appended"]
    /\ UNCHANGED <<logVars, input, expected, cache, rebuild, scanned, feedVars>>

\* _append under the advisory lock of its stream: the version is the expected
\* one, and the row gets its global position.
Append(w) ==
    /\ phase[w] = "captured" /\ ~StreamLocked(w)
    /\ Version(input[w].stream) = expected[w]
    /\ sequence' = sequence + 1
    /\ position' = [position EXCEPT ![w] = sequence + 1]
    /\ phase' = [phase EXCEPT ![w] = "appended"]
    /\ UNCHANGED <<logVars, input, expected, cache, rebuild, scanned, feedVars>>

\* StreamVersionConflict: rolled back, and the process ends.
Conflict(w) ==
    /\ phase[w] = "captured" /\ ~StreamLocked(w)
    /\ Version(input[w].stream) # expected[w]
    /\ Close(w) /\ Forget(w)
    /\ UNCHANGED <<logVars, sequence, rebuild, scanned, feedVars>>

\* _project writes to the read model, unless a rebuild holds its tables.
ProjectEvent(w) ==
    /\ phase[w] = "appended" /\ ~Truncated
    /\ phase' = [phase EXCEPT ![w] = "projected"]
    /\ UNCHANGED <<logVars, sequence, input, expected, position, cache, rebuild, scanned,
                   feedVars>>

\* The upsert of the checkpoint waits for the row.
UpsertCheckpoint(w) ==
    /\ phase[w] = "projected" /\ ~CheckpointLocked(w)
    /\ phase' = [phase EXCEPT ![w] = "checkpointed"]
    /\ UNCHANGED <<logVars, sequence, input, expected, position, cache, rebuild, scanned,
                   feedVars>>

\* COMMIT: everything the transaction wrote becomes visible at once.
Apply(w) ==
    LET e == [pos |-> position[w], stream |-> input[w].stream, version |-> expected[w] + 1,
              raw |-> input[w].raw, bar |-> input[w].bar]
        p == Project(latest, bars, e)
    IN  /\ raw' = raw \cup ({input[w].raw} \ {NoRaw})
        /\ events' = events \cup {e}
        /\ latest' = p[1] /\ bars' = p[2]
        /\ checkpoint' = position[w]
        /\ UNCHANGED quarantined

\* The writer learns of the commit and caches the new version.
Commit(w) ==
    /\ phase[w] = "checkpointed"
    /\ Apply(w)
    /\ cache' = [cache EXCEPT ![w][input[w].stream] = expected[w] + 1]
    /\ Close(w)
    /\ UNCHANGED <<sequence, rebuild, scanned, feedVars>>

\* The commit is applied, but its answer is lost: the process ends.
CommitLost(w) ==
    /\ phase[w] = "checkpointed"
    /\ Apply(w)
    /\ Forget(w) /\ Close(w)
    /\ UNCHANGED <<sequence, rebuild, scanned, feedVars>>

\* The process or its connection dies: the transaction is rolled back.
Die(w) ==
    /\ phase[w] # "idle"
    /\ Forget(w) /\ Close(w)
    /\ UNCHANGED <<logVars, sequence, rebuild, scanned, feedVars>>

\* quarantine stores a raw record that has no quote, or marks the stored one.
Quarantine(k) ==
    /\ \A w \in Writers : ~(phase[w] \in Open /\ input[w].raw = k)
    /\ raw' = raw \cup {k} /\ quarantined' = quarantined \cup {k}
    /\ UNCHANGED <<events, latest, bars, checkpoint, sequence, txVars, cache, rebuild, scanned,
                   feedVars>>

----------------------------------------------------------------------------
(* rebuild_projections: one transaction.                                   *)

\* Mutation of Truncate: the tables are emptied without a lock on them.
TruncateUnlocked ==
    /\ rebuild = {}
    /\ rebuild' = {"truncated"}
    /\ UNCHANGED <<logVars, sequence, txVars, cache, scanned, feedVars>>

\* Mutation of Truncate: the checkpoint is written before the tables are
\* emptied, the reverse of the order in which an append locks the two.
TruncateAfterCheckpoint ==
    /\ \/ /\ rebuild = {} /\ \A v \in Writers : phase[v] # "checkpointed"
          /\ rebuild' = {"checkpointed"}
       \/ /\ rebuild = {"checkpointed"} /\ ~Projecting
          /\ rebuild' = {"checkpointed", "truncated"}
    /\ UNCHANGED <<logVars, sequence, txVars, cache, scanned, feedVars>>

\* TRUNCATE waits for the transactions that have written to the tables.
Truncate ==
    /\ rebuild = {} /\ ~Projecting
    /\ rebuild' = {"truncated"}
    /\ UNCHANGED <<logVars, sequence, txVars, cache, scanned, feedVars>>

\* SELECT * FROM canonical.events ORDER BY global_position
Scan ==
    /\ Truncated /\ "scanned" \notin rebuild
    /\ rebuild' = rebuild \cup {"scanned"} /\ scanned' = events
    /\ UNCHANGED <<logVars, sequence, txVars, cache, feedVars>>

\* Every event is projected again, and the upsert of the checkpoint waits for
\* the row.
RebuildCheckpoint ==
    /\ "scanned" \in rebuild /\ "checkpointed" \notin rebuild
    /\ \A v \in Writers : phase[v] # "checkpointed"
    /\ rebuild' = rebuild \cup {"checkpointed"}
    /\ UNCHANGED <<logVars, sequence, txVars, cache, scanned, feedVars>>

\* COMMIT of the rebuild.
CommitRebuild ==
    /\ {"scanned", "checkpointed"} \subseteq rebuild
    /\ latest' = Replay(scanned)[1] /\ bars' = Replay(scanned)[2]
    /\ checkpoint' = Max({0} \cup {e.pos : e \in scanned})
    /\ rebuild' = {} /\ scanned' = {}
    /\ UNCHANGED <<raw, quarantined, events, sequence, txVars, cache, feedVars>>

----------------------------------------------------------------------------
(* The capture feed: read_page is two statements.                          *)

\* Mutation of ReadEvents: the cursor itself is part of the next page.
ReadEventsInclusive ==
    LET after == {e.pos : e \in {f \in events : f.pos >= cursor}}
    IN  /\ page = NoPage
        /\ page' = {p \in after : Cardinality({r \in after : r =< p}) =< PageLimit}
        /\ UNCHANGED <<logVars, sequence, txVars, cache, rebuild, scanned, cursor, high,
                       delivered>>

\* The first events after the cursor.
ReadEvents ==
    LET after == {e.pos : e \in {f \in events : f.pos > cursor}}
    IN  /\ page = NoPage
        /\ page' = {p \in after : Cardinality({r \in after : r =< p}) =< PageLimit}
        /\ UNCHANGED <<logVars, sequence, txVars, cache, rebuild, scanned, cursor, high,
                       delivered>>

\* The high-water position, read after the page; the consumer accepts it.
AcceptPage ==
    /\ page # NoPage
    /\ page \subseteq cursor + 1 .. Top /\ cursor =< Top /\ high =< Top
    /\ cursor' = Max({cursor} \cup page)
    /\ high' = Top
    /\ delivered' = delivered \cup page
    /\ page' = NoPage
    /\ UNCHANGED <<logVars, sequence, txVars, cache, rebuild, scanned>>

----------------------------------------------------------------------------
Transact(w) ==
    \/ Capture(w) \/ Duplicate(w) \/ Append(w) \/ Conflict(w) \/ ProjectEvent(w)
    \/ UpsertCheckpoint(w) \/ Commit(w)

RebuildStep == Truncate \/ Scan \/ RebuildCheckpoint \/ CommitRebuild

Next ==
    \/ \E w \in Writers : Transact(w) \/ CommitLost(w) \/ Die(w) \/ \E i \in Inputs : Begin(w, i)
    \/ \E i \in Inputs : i.raw # NoRaw /\ Quarantine(i.raw)
    \/ RebuildStep
    \/ ReadEvents \/ AcceptPage

Spec == Init /\ [][Next]_vars

\* Lock queues of PostgreSQL are first come, first served: a transaction whose
\* next statement can run again and again gets to run it.  A rebuild that started
\* goes on.  No process has to die.
FairSpec ==
    /\ Spec
    /\ \A w \in Writers : SF_vars(Transact(w))
    /\ WF_vars(rebuild # {} /\ RebuildStep)

----------------------------------------------------------------------------
\* Within a stream the versions are 1, 2, 3, ... and the global positions rise
\* with them, whichever processes append and whatever they have cached.
StreamsAreDense ==
    \A s \in Streams :
        /\ {e.version : e \in Of(s)} = 1 .. Cardinality(Of(s))
        /\ \A e, f \in Of(s) : e.version < f.version <=> e.pos < f.pos

\* A raw record and the event it gave rise to are stored together and once,
\* although a lost answer makes the sender offer the record again; one without
\* an event is in quarantine.
RawOnce ==
    /\ \A e, f \in events : e.raw = f.raw /\ e.raw # NoRaw => e = f
    /\ {e.raw : e \in events} \ {NoRaw} \subseteq raw
    /\ raw \subseteq {e.raw : e \in events} \cup quarantined

\* The read model is at any time what a replay of the committed log in the
\* order of its positions yields, although transactions commit in another
\* order and a rebuild runs beside them.
ProjectionIsReplay == <<latest, bars>> = Replay(events)

\* The page the consumer is about to see passes its checks: positions after the
\* cursor and below the high-water position, which never falls.
PagesAreAccepted == page # NoPage => page \subseteq cursor + 1 .. Top /\ cursor =< Top /\ high =< Top

\* Nobody waits for ever: appends and the rebuild take the raw key, the stream,
\* the tables and the checkpoint row in one order, so every transaction that has
\* begun ends.
TransactionsEnd == \A w \in Writers : phase[w] = "begun" ~> phase[w] = "idle"
=============================================================================
