--------------------------- MODULE EventStoreProofs ---------------------------
(***************************************************************************)
(* Proofs about EventStore, for every set of writers, streams and inputs   *)
(* and for every page limit.                                               *)
(*                                                                         *)
(* The versions of a stream have no holes because a transaction past its   *)
(* append holds the advisory lock of the stream: until it commits, the     *)
(* version it compared is the version of the stream, and its position is   *)
(* above every position of the stream (StreamHeld).  The same two facts    *)
(* make one event projected at its commit, out of the order of positions,  *)
(* agree with a replay of the log in that order.                           *)
(***************************************************************************)
EXTENDS EventStore, FiniteSetTheorems, WellFoundedInduction, TLAPS

Phases == {"idle", "begun", "captured", "appended", "projected", "checkpointed"}

\* Types of the transactions and of the caches.
TransactionsTypeOK ==
    /\ phase \in [Writers -> Phases]
    /\ input \in [Writers -> Inputs \cup {NoInput}]
    /\ expected \in [Writers -> Nat] /\ position \in [Writers -> Nat]
    /\ cache \in [Writers -> [Streams -> Nat \cup {Unknown}]]
    /\ \A w \in Writers : phase[w] # "idle" => input[w] \in Inputs

\* The identity column hands out each position once.
LogTypeOK ==
    /\ IsFiniteSet(events) /\ sequence \in Nat
    /\ \A e \in events : e.pos \in 1 .. sequence /\ e.version \in Nat /\ e.stream \in Streams

\* What the advisory lock gives to a transaction that has appended.
StreamHeld ==
    /\ \A w \in Writers : phase[w] \in Appended =>
          /\ position[w] \in 1 .. sequence
          /\ expected[w] = Cardinality(Of(input[w].stream))
          /\ \A e \in Of(input[w].stream) : e.pos < position[w]
    /\ \A v, w \in Writers : v # w /\ phase[v] \in Appended /\ phase[w] \in Appended =>
          input[v].stream # input[w].stream

\* What the unique key gives to a transaction that has stored its raw record.
RawHeld ==
    /\ \A w \in Writers : phase[w] \in Open /\ input[w].raw # NoRaw => input[w].raw \notin raw
    /\ \A v, w \in Writers : v # w /\ phase[v] \in Open /\ phase[w] \in Open
                             /\ input[v].raw = input[w].raw => input[w].raw = NoRaw

\* While a rebuild runs, nobody commits to the read model.
RebuildHeld ==
    /\ rebuild # {} => Truncated /\ ~Projecting
    /\ "scanned" \in rebuild => scanned = events

\* The cursor of the consumer never passes the log.
FeedHeld ==
    /\ cursor \in Nat /\ high \in Nat /\ cursor =< Top /\ high =< Top
    /\ page # NoPage => page \subseteq cursor + 1 .. Top

EventInv ==
    /\ TransactionsTypeOK /\ LogTypeOK
    /\ StreamsAreDense /\ StreamHeld
    /\ RawOnce /\ RawHeld
    /\ RebuildHeld /\ ProjectionIsReplay
    /\ FeedHeld

----------------------------------------------------------------------------
(* Maxima of bounded sets of numbers.                                      *)

LEMMA NatMin ==
    ASSUME NEW T \in SUBSET Nat, T # {}
    PROVE  \E x \in T : \A y \in T : x =< y
  <1> DEFINE R == OpToRel(<, Nat)
  <1>1. IsWellFoundedOn(R, Nat)
    BY NatLessThanWellFounded
  <1>2. \A x, y \in Nat : x < y => <<x, y>> \in R
    BY DEF OpToRel
  <1> HIDE DEF R
  <1>3. PICK x \in T : \A y \in T : ~ (<<y, x>> \in R)
    BY <1>1, WFMin
  <1>4. \A y \in T : ~(y < x)
    BY <1>2, <1>3
  <1> QED
    BY <1>3, <1>4

\* What Max returns, once a largest element is known.
LEMMA MaxIs ==
    ASSUME NEW T \in SUBSET Int, NEW m \in T, \A y \in T : y =< m
    PROVE  Max(T) = m
  <1>1. \A y \in T : m >= y
    OBVIOUS
  <1>2. Max(T) \in T /\ \A y \in T : Max(T) >= y
    BY <1>1, Zenon DEF Max
  <1>3. \A x \in T : x >= m /\ m >= x => x = m
    OBVIOUS
  <1> QED
    BY <1>1, <1>2, <1>3, Zenon

\* A bounded set of numbers has one.
LEMMA MaxBounded ==
    ASSUME NEW T \in SUBSET Nat, T # {}, NEW b \in Nat, \A t \in T : t =< b
    PROVE  Max(T) \in T /\ Max(T) \in Nat /\ \A y \in T : y =< Max(T)
  <1> DEFINE U == {b - t : t \in T}
  <1>1. U \in SUBSET Nat /\ U # {}
    <2>1. \A t \in T : b - t \in Nat
      OBVIOUS
    <2> QED
      BY <2>1, Zenon
  <1>2. PICK u \in U : \A v \in U : u =< v
    BY <1>1, NatMin
  <1>3. PICK x \in T : u = b - x
    BY <1>2
  <1>4. ASSUME NEW y \in T PROVE y =< x
    <2>1. b - y \in U
      OBVIOUS
    <2> QED
      BY <1>2, <1>3, <2>1
  <1>5. Max(T) = x
    BY <1>4, MaxIs
  <1> QED
    BY <1>4, <1>5

----------------------------------------------------------------------------
(* Versions and positions.                                                 *)

\* latest_stream_version counts the events of the stream.
LEMMA VersionIs ==
    ASSUME LogTypeOK, StreamsAreDense, NEW s \in Streams
    PROVE  /\ IsFiniteSet(Of(s)) /\ Cardinality(Of(s)) \in Nat
           /\ Version(s) = Cardinality(Of(s))
  <1>1. IsFiniteSet(Of(s)) /\ Cardinality(Of(s)) \in Nat
    BY FS_Subset, FS_CardinalityType DEF LogTypeOK, Of
  <1> DEFINE n == Cardinality(Of(s))
  <1>2. {e.version : e \in Of(s)} = 1 .. n
    BY DEF StreamsAreDense
  <1> HIDE DEF n
  <1> DEFINE T == {0} \cup 1 .. n
  <1>3. T \in SUBSET Int /\ n \in T /\ \A y \in T : y =< n
    BY <1>1 DEF n
  <1>4. Max(T) = n
    BY <1>3, MaxIs
  <1>5. Version(s) = Max(T)
    BY <1>2 DEF Version
  <1> QED
    BY <1>1, <1>4, <1>5 DEF n

\* The largest position of some events.
LEMMA TopOf ==
    ASSUME NEW E, NEW n \in Nat, \A e \in E : e.pos \in 1 .. n
    PROVE  LET m == Max({0} \cup {e.pos : e \in E})
           IN  m \in Nat /\ (\A e \in E : e.pos =< m) /\ m \in {0} \cup {e.pos : e \in E}
  <1> DEFINE T == {0} \cup {e.pos : e \in E}
  <1>1. T \in SUBSET Nat /\ T # {} /\ \A t \in T : t =< n
    OBVIOUS
  <1> HIDE DEF T
  <1>2. Max(T) \in T /\ Max(T) \in Nat /\ \A y \in T : y =< Max(T)
    BY <1>1, MaxBounded
  <1> QED
    BY <1>2 DEF T

LEMMA TopRises ==
    ASSUME LogTypeOK, LogTypeOK', events \subseteq events'
    PROVE  Top \in Nat /\ Top' \in Nat /\ Top =< Top'
  <1>1. Top \in {0} \cup {e.pos : e \in events} /\ Top \in Nat
    BY TopOf DEF LogTypeOK, Top
  <1>2. Top' \in Nat /\ \A e \in events' : e.pos =< Top'
    BY TopOf DEF LogTypeOK, Top
  <1> QED
    BY <1>1, <1>2

\* More events leave the feed as it was.
LEMMA FeedStep ==
    ASSUME FeedHeld, LogTypeOK, LogTypeOK', events \subseteq events', UNCHANGED feedVars
    PROVE  FeedHeld'
  <1>1. Top \in Nat /\ Top' \in Nat /\ Top =< Top'
    BY TopRises
  <1>2. UNCHANGED <<page, cursor, high>> /\ NoPage' = NoPage
    BY DEF feedVars, NoPage, Unknown
  <1> HIDE DEF feedVars
  <1> QED
    BY <1>1, <1>2 DEF FeedHeld, NoPage, Unknown

----------------------------------------------------------------------------
(* A statement of one transaction that commits nothing.                    *)

Others(w) ==
    \A v \in Writers \ {w} : /\ phase'[v] = phase[v] /\ input'[v] = input[v]
                             /\ expected'[v] = expected[v] /\ position'[v] = position[v]

\* What w must have found out before it is in its next phase.
StreamFound(w) ==
    phase'[w] \in Appended =>
        /\ position'[w] \in 1 .. sequence'
        /\ expected'[w] = Cardinality(Of(input'[w].stream))
        /\ \A e \in Of(input'[w].stream) : e.pos < position'[w]
        /\ \A v \in Writers \ {w} : phase[v] \in Appended => input[v].stream # input'[w].stream

RawFound(w) ==
    phase'[w] \in Open /\ input'[w].raw # NoRaw =>
        /\ input'[w].raw \notin raw
        /\ \A v \in Writers \ {w} : phase[v] \in Open => input[v].raw # input'[w].raw

TablesFound(w) ==
    phase'[w] \in {"projected", "checkpointed"} =>
        phase[w] \in {"projected", "checkpointed"} \/ rebuild = {}

LEMMA StatementKeeps ==
    ASSUME EventInv, NEW w \in Writers, TransactionsTypeOK', Others(w),
           sequence' \in {sequence, sequence + 1}, UNCHANGED <<logVars, rebuild, scanned, feedVars>>,
           StreamFound(w), RawFound(w), TablesFound(w)
    PROVE  EventInv'
  <1> USE DEF EventInv
  <1>1. UNCHANGED <<raw, quarantined, events, latest, bars>>
    BY DEF logVars
  <1>2. LogTypeOK'
    BY <1>1 DEF LogTypeOK
  <1>3. \A s : Of(s)' = Of(s)
    BY <1>1 DEF Of
  <1>4. StreamsAreDense'
    BY <1>3 DEF StreamsAreDense
  <1>5. StreamHeld'
    <2>1. sequence \in Nat /\ sequence' \in Nat /\ sequence =< sequence'
      BY DEF LogTypeOK
    <2>2. ASSUME NEW v \in Writers, phase'[v] \in Appended
          PROVE  /\ position'[v] \in 1 .. sequence'
                 /\ expected'[v] = Cardinality(Of(input'[v].stream))
                 /\ \A e \in Of(input'[v].stream) : e.pos < position'[v]
      BY <2>1, <2>2 DEF StreamHeld, StreamFound, Others
    <2>3. ASSUME NEW u \in Writers, NEW v \in Writers, u # v, phase'[u] \in Appended,
                 phase'[v] \in Appended
          PROVE  input'[u].stream # input'[v].stream
      BY <2>3 DEF StreamHeld, StreamFound, Others
    <2> QED
      BY <1>3, <2>2, <2>3 DEF StreamHeld, Appended
  <1>6. RawOnce'
    BY <1>1 DEF RawOnce
  <1>7. RawHeld'
    <2>1. ASSUME NEW v \in Writers, phase'[v] \in Open, input'[v].raw # NoRaw
          PROVE  input'[v].raw \notin raw
      BY <2>1 DEF RawHeld, RawFound, Others
    <2>2. ASSUME NEW u \in Writers, NEW v \in Writers, u # v, phase'[u] \in Open,
                 phase'[v] \in Open, input'[u].raw = input'[v].raw
          PROVE  input'[v].raw = NoRaw
      BY <2>2 DEF RawHeld, RawFound, Others
    <2> QED
      BY <1>1, <2>1, <2>2 DEF RawHeld, Open, Appended
  <1>8. RebuildHeld'
    BY <1>1 DEF RebuildHeld, Truncated, Projecting, TablesFound, Others
  <1>9. ProjectionIsReplay'
    BY <1>1 DEF ProjectionIsReplay, Replay
  <1>10. FeedHeld'
    BY <1>1, <1>2, FeedStep
  <1> QED
    BY <1>2, <1>4, <1>5, <1>6, <1>7, <1>8, <1>9, <1>10

\* A rollback gives up every lock.
LEMMA ReleaseKeeps ==
    ASSUME EventInv, NEW w \in Writers, Close(w), cache' \in [Writers -> [Streams -> Nat \cup {Unknown}]],
           UNCHANGED <<logVars, sequence, rebuild, scanned, feedVars>>
    PROVE  EventInv'
  <1>1. TransactionsTypeOK /\ sequence' = sequence
    BY DEF EventInv
  <1>2. TransactionsTypeOK' /\ Others(w) /\ phase'[w] = "idle"
    BY <1>1 DEF TransactionsTypeOK, Close, Others, Phases
  <1>3. StreamFound(w) /\ RawFound(w) /\ TablesFound(w)
    BY <1>2 DEF StreamFound, RawFound, TablesFound, Open, Appended
  <1> QED
    BY <1>1, <1>2, <1>3, StatementKeeps

LEMMA BeginKeeps ==
    ASSUME EventInv, NEW w \in Writers, NEW i \in Inputs, Begin(w, i)
    PROVE  EventInv'
  <1> DEFINE v == IF cache[w][i.stream] # Unknown THEN cache[w][i.stream] ELSE Version(i.stream)
  <1>1. TransactionsTypeOK /\ LogTypeOK /\ StreamsAreDense /\ i.stream \in Streams
    BY EventStoreAssumption DEF EventInv
  <1>2. v \in Nat
    <2>1. cache[w][i.stream] \in Nat \cup {Unknown}
      BY <1>1 DEF TransactionsTypeOK
    <2>2. Version(i.stream) \in Nat
      BY <1>1, VersionIs
    <2> QED
      BY <2>1, <2>2
  <1>3. /\ expected' = [expected EXCEPT ![w] = v] /\ cache' = [cache EXCEPT ![w][i.stream] = v]
        /\ input' = [input EXCEPT ![w] = i] /\ phase' = [phase EXCEPT ![w] = "begun"]
        /\ position' = position
    BY DEF Begin
  <1> HIDE DEF v
  <1>4. TransactionsTypeOK' /\ Others(w) /\ phase'[w] = "begun"
    BY <1>1, <1>2, <1>3 DEF TransactionsTypeOK, Others, Phases
  <1>5. StreamFound(w) /\ RawFound(w) /\ TablesFound(w)
    BY <1>4 DEF StreamFound, RawFound, TablesFound, Open, Appended
  <1> QED
    BY <1>4, <1>5, StatementKeeps DEF Begin

\* What a statement that only moves w leaves alone.
LEMMA MoveIs ==
    ASSUME EventInv, NEW w \in Writers, NEW x \in Phases \ {"idle"}, phase[w] # "idle",
           phase' = [phase EXCEPT ![w] = x], UNCHANGED <<input, expected, cache>>,
           position' = position \/ (\E n \in Nat : position' = [position EXCEPT ![w] = n])
    PROVE  TransactionsTypeOK' /\ Others(w) /\ phase'[w] = x
  <1>1. TransactionsTypeOK
    BY DEF EventInv
  <1> QED
    BY <1>1 DEF TransactionsTypeOK, Others

LEMMA CaptureKeeps ==
    ASSUME EventInv, NEW w \in Writers, Capture(w)
    PROVE  EventInv'
  <1>1. TransactionsTypeOK' /\ Others(w) /\ phase'[w] = "captured"
    BY MoveIs DEF Capture, Phases
  <1>2. StreamFound(w) /\ TablesFound(w)
    BY <1>1 DEF StreamFound, TablesFound, Appended
  <1>3. RawFound(w)
    BY DEF RawFound, Capture, RawLocked
  <1> QED
    BY <1>1, <1>2, <1>3, StatementKeeps DEF Capture

LEMMA AppendKeeps ==
    ASSUME EventInv, NEW w \in Writers, Append(w)
    PROVE  EventInv'
  <1>0. TransactionsTypeOK /\ LogTypeOK /\ StreamsAreDense /\ RawHeld /\ sequence \in Nat
    BY DEF EventInv, LogTypeOK
  <1>1. TransactionsTypeOK' /\ Others(w) /\ phase'[w] = "appended"
    <2>1. sequence + 1 \in Nat
      BY <1>0
    <2> QED
      BY <2>1, MoveIs DEF Append, Phases
  <1>2. StreamFound(w)
    <2>1. input[w] \in Inputs /\ input[w].stream \in Streams /\ input'[w] = input[w]
      BY <1>0, EventStoreAssumption DEF TransactionsTypeOK, Append
    <2>2. expected'[w] = Cardinality(Of(input[w].stream))
      BY <1>0, <2>1, VersionIs DEF Append
    <2>3. position'[w] = sequence + 1 /\ sequence' = sequence + 1 /\ position'[w] \in 1 .. sequence'
      BY <1>0 DEF Append, TransactionsTypeOK
    <2>4. \A e \in Of(input[w].stream) : e.pos < position'[w]
      BY <1>0, <2>3 DEF LogTypeOK, Of
    <2> QED
      BY <1>0, <2>1, <2>2, <2>3, <2>4 DEF StreamFound, Append, StreamLocked
  <1>3. RawFound(w) /\ TablesFound(w)
    BY <1>0, <1>1 DEF RawFound, TablesFound, RawHeld, Append, Open
  <1> QED
    BY <1>1, <1>2, <1>3, StatementKeeps DEF Append

\* The read model is written, then the checkpoint.
LEMMA ProjectKeeps ==
    ASSUME EventInv, NEW w \in Writers, ProjectEvent(w) \/ UpsertCheckpoint(w)
    PROVE  EventInv'
  <1>0. TransactionsTypeOK /\ StreamHeld /\ RawHeld
    BY DEF EventInv
  <1>1. TransactionsTypeOK' /\ Others(w) /\ phase'[w] \in Appended /\ phase[w] \in Appended
    BY MoveIs DEF ProjectEvent, UpsertCheckpoint, Phases, Appended
  <1>2. UNCHANGED <<input, expected, position, sequence, logVars, rebuild, scanned, feedVars>>
    BY DEF ProjectEvent, UpsertCheckpoint
  <1>3. StreamFound(w)
    BY <1>0, <1>1, <1>2 DEF StreamFound, StreamHeld
  <1>4. RawFound(w)
    BY <1>0, <1>1, <1>2 DEF RawFound, RawHeld, Open
  <1>5. TablesFound(w)
    <2>1. CASE ProjectEvent(w) /\ rebuild = {}
      BY <2>1 DEF TablesFound
    <2>2. CASE UpsertCheckpoint(w)
      BY <2>2 DEF TablesFound, UpsertCheckpoint
    <2> QED
      BY <2>1, <2>2 DEF ProjectEvent, Truncated, EventInv, RebuildHeld
  <1> QED
    BY <1>1, <1>2, <1>3, <1>4, <1>5, StatementKeeps

----------------------------------------------------------------------------
(* COMMIT.                                                                 *)

\* The event of the transaction that commits.
EventOf(w) ==
    [pos |-> position[w], stream |-> input[w].stream, version |-> expected[w] + 1,
     raw |-> input[w].raw, bar |-> input[w].bar]

\* What the invariant says of it.
LEMMA EventOfIs ==
    ASSUME EventInv, NEW w \in Writers, phase[w] = "checkpointed"
    PROVE  /\ EventOf(w).pos \in 1 .. sequence /\ EventOf(w).version \in Nat
           /\ EventOf(w).stream \in Streams /\ EventOf(w).stream = input[w].stream
           /\ EventOf(w).raw = input[w].raw
           /\ EventOf(w).version = Cardinality(Of(EventOf(w).stream)) + 1
           /\ \A f \in Of(EventOf(w).stream) : f.pos < EventOf(w).pos
  <1>1. input[w] \in Inputs /\ phase[w] \in Appended
    BY DEF EventInv, TransactionsTypeOK, Appended
  <1>2. input[w].stream \in Streams
    BY <1>1, EventStoreAssumption
  <1>3. /\ position[w] \in 1 .. sequence /\ expected[w] = Cardinality(Of(input[w].stream))
        /\ \A f \in Of(input[w].stream) : f.pos < position[w]
    BY <1>1 DEF EventInv, StreamHeld
  <1>4. expected[w] \in Nat
    BY DEF EventInv, TransactionsTypeOK
  <1> QED
    BY <1>2, <1>3, <1>4 DEF EventOf

\* The next version of a stream.
LEMMA DenseCommit ==
    ASSUME LogTypeOK, StreamsAreDense, NEW e, e.stream \in Streams, e.pos \in 1 .. sequence,
           e.version = Cardinality(Of(e.stream)) + 1, \A f \in Of(e.stream) : f.pos < e.pos,
           events' = events \cup {e}, sequence' = sequence
    PROVE  LogTypeOK' /\ StreamsAreDense'
  <1> DEFINE n == Cardinality(Of(e.stream))
  <1>1. IsFiniteSet(Of(e.stream)) /\ n \in Nat
    BY VersionIs
  <1>2. LogTypeOK'
    BY <1>1, FS_AddElement DEF LogTypeOK
  <1>3. Of(e.stream)' = Of(e.stream) \cup {e} /\ \A s : s # e.stream => Of(s)' = Of(s)
    BY DEF Of
  <1>4. e \notin Of(e.stream)
    BY DEF LogTypeOK
  <1>5. Cardinality(Of(e.stream)') = n + 1
    BY <1>1, <1>3, <1>4, FS_AddElement
  <1>6. {f.version : f \in Of(e.stream)} = 1 .. n
    BY DEF StreamsAreDense
  <1>7. ASSUME NEW s \in Streams
        PROVE  /\ {f.version : f \in Of(s)'} = 1 .. Cardinality(Of(s)')
               /\ \A f, g \in Of(s)' : f.version < g.version <=> f.pos < g.pos
    <2>1. CASE s # e.stream
      BY <1>3, <2>1 DEF StreamsAreDense
    <2>2. CASE s = e.stream
      <3>1. {f.version : f \in Of(s)'} = 1 .. n \cup {n + 1}
        BY <1>3, <1>6, <2>2
      <3>2. \A f \in Of(s) : f.version =< n /\ f.version \in Nat /\ f.pos \in Nat /\ f.pos < e.pos
        BY <1>1, <1>6, <2>2 DEF LogTypeOK, Of
      <3>3. \A f, g \in Of(s) : f.version < g.version <=> f.pos < g.pos
        BY DEF StreamsAreDense
      <3>4. e.version = n + 1 /\ e.pos \in Nat
        BY DEF LogTypeOK
      <3> HIDE DEF n
      <3>5. \A f, g \in Of(s) \cup {e} : f.version < g.version <=> f.pos < g.pos
        BY <1>1, <3>2, <3>3, <3>4
      <3>6. 1 .. n \cup {n + 1} = 1 .. n + 1
        BY <1>1
      <3>7. Of(s)' = Of(s) \cup {e} /\ Cardinality(Of(s)') = n + 1
        BY <1>3, <1>5, <2>2
      <3> QED
        BY <3>1, <3>5, <3>6, <3>7
    <2> QED
      BY <2>1, <2>2
  <1> QED
    BY <1>2, <1>7 DEF StreamsAreDense

\* An event that is projected when it commits, after every other of its stream,
\* is projected as in a replay.
LEMMA ReplayCommit ==
    ASSUME LogTypeOK, ProjectionIsReplay, NEW e, e.stream \in Streams, e.pos \in 1 .. sequence,
           \A f \in Of(e.stream) : f.pos < e.pos, events' = events \cup {e},
           latest' = Project(latest, bars, e)[1], bars' = Project(latest, bars, e)[2]
    PROVE  ProjectionIsReplay'
  <1> DEFINE P(E, s) == {0} \cup {f.pos : f \in {g \in E : g.stream = s}}
  <1> DEFINE First(E) == {f \in E : /\ f.stream \in BarStreams
                                   /\ \A g \in E : g.stream = f.stream /\ g.bar = f.bar
                                                   => g.pos >= f.pos}
  <1> DEFINE Row(f) == [stream |-> f.stream, bar |-> f.bar, pos |-> f.pos]
  <1>0. \A E : Replay(E) = <<[s \in QuoteStreams |-> Max(P(E, s))], {Row(f) : f \in First(E)}>>
    BY DEF Replay
  <1>1. latest = [s \in QuoteStreams |-> Max(P(events, s))] /\ bars = {Row(f) : f \in First(events)}
    BY <1>0 DEF ProjectionIsReplay
  <1>2. \A f \in events : f.stream = e.stream => f.pos < e.pos /\ f.pos \in Nat
    BY DEF Of, LogTypeOK
  <1>3. e.pos \in Nat /\ e.pos > 0
    BY DEF LogTypeOK
  <1>4. CASE e.stream \in QuoteStreams
    <2>1. latest' = Upsert(latest, e) /\ bars' = bars
      BY <1>4 DEF Project
    <2>2. \A s \in QuoteStreams : s # e.stream => P(events', s) = P(events, s)
      OBVIOUS
    <2>3. Max(P(events', e.stream)) = e.pos
      <3>1. /\ P(events', e.stream) \in SUBSET Int /\ e.pos \in P(events', e.stream)
            /\ \A y \in P(events', e.stream) : y =< e.pos
        BY <1>2, <1>3
      <3> HIDE DEF P
      <3> QED
        BY <3>1, MaxIs
    <2>4. Max(P(events, e.stream)) < e.pos
      <3>1. /\ P(events, e.stream) \in SUBSET Nat /\ P(events, e.stream) # {}
            /\ \A y \in P(events, e.stream) : y < e.pos /\ y =< e.pos
        BY <1>2, <1>3
      <3> HIDE DEF P
      <3> QED
        BY <1>3, <3>1, MaxBounded
    <2> HIDE DEF P
    <2>5. latest' = [s \in QuoteStreams |-> Max(P(events', s))]
      <3>1. latest' = [latest EXCEPT ![e.stream] = e.pos]
        BY <1>1, <1>4, <2>1, <2>4 DEF Upsert
      <3> QED
        BY <1>1, <1>4, <2>2, <2>3, <3>1
    <2>6. First(events') = First(events)
      BY <1>4, EventStoreAssumption
    <2> HIDE DEF First, Row
    <2> QED
      BY <1>0, <1>1, <2>1, <2>5, <2>6 DEF ProjectionIsReplay
  <1>5. CASE e.stream \notin QuoteStreams
    <2>1. latest' = latest /\ bars' = Insert(bars, e) /\ e.stream \in BarStreams
      BY <1>5 DEF Project, Streams
    <2>2. \A s \in QuoteStreams : P(events', s) = P(events, s)
      BY <1>5
    <2>3. latest' = [s \in QuoteStreams |-> Max(P(events', s))]
      <3> HIDE DEF P
      <3> QED
        BY <1>1, <2>1, <2>2
    <2>4. bars' = {Row(f) : f \in First(events')}
      <3>1. ASSUME NEW g \in events, g.stream = e.stream, g.bar = e.bar
            PROVE  /\ \E r \in bars : r.stream = e.stream /\ r.bar = e.bar
                   /\ First(events') = First(events)
        <4> DEFINE T == {f \in events : f.stream = e.stream /\ f.bar = e.bar}
        <4>1. {f.pos : f \in T} \in SUBSET Nat /\ {f.pos : f \in T} # {}
          BY <1>2, <3>1
        <4>2. PICK x \in {f.pos : f \in T} : \A y \in {f.pos : f \in T} : x =< y
          BY <4>1, NatMin
        <4>3. PICK f \in T : x = f.pos
          BY <4>2
        <4>4. \A h \in events : h.stream = f.stream /\ h.bar = f.bar => h.pos >= f.pos
          BY <1>2, <4>2, <4>3
        <4>5. f \in First(events)
          BY <2>1, <4>4
        <4>6. Row(f) \in bars /\ Row(f).stream = e.stream /\ Row(f).bar = e.bar
          BY <1>1, <4>5
        <4>7. e \notin First(events')
          BY <1>2, <1>3, <3>1
        <4>8. \A h \in events : h \in First(events') <=> h \in First(events)
          BY <1>2, <1>3
        <4> HIDE DEF First, Row
        <4> QED
          BY <4>6, <4>7, <4>8 DEF First
      <3>2. ASSUME \A g \in events : ~(g.stream = e.stream /\ g.bar = e.bar)
            PROVE  /\ ~\E r \in bars : r.stream = e.stream /\ r.bar = e.bar
                   /\ First(events') = First(events) \cup {e}
        <4>1. ~\E r \in bars : r.stream = e.stream /\ r.bar = e.bar
          BY <1>1, <3>2
        <4>2. e \in First(events')
          BY <1>3, <2>1, <3>2
        <4>3. \A h \in events : h \in First(events') <=> h \in First(events)
          BY <3>2
        <4> QED
          BY <4>1, <4>2, <4>3
      <3> HIDE DEF First
      <3>3. {Row(f) : f \in First(events) \cup {e}} = bars \cup {Row(e)}
        BY <1>1
      <3> QED
        BY <1>1, <2>1, <3>1, <3>2, <3>3 DEF Insert
    <2> HIDE DEF P, First, Row
    <2> QED
      BY <1>0, <2>3, <2>4 DEF ProjectionIsReplay
  <1> QED
    BY <1>4, <1>5

LEMMA ApplyKeeps ==
    ASSUME EventInv, NEW w \in Writers, phase[w] = "checkpointed", Apply(w), Close(w),
           cache' \in [Writers -> [Streams -> Nat \cup {Unknown}]],
           UNCHANGED <<sequence, rebuild, scanned, feedVars>>
    PROVE  EventInv'
  <1> USE DEF EventInv
  <1>1. /\ EventOf(w).pos \in 1 .. sequence /\ EventOf(w).version \in Nat
        /\ EventOf(w).stream \in Streams /\ EventOf(w).stream = input[w].stream
        /\ EventOf(w).raw = input[w].raw
        /\ EventOf(w).version = Cardinality(Of(EventOf(w).stream)) + 1
        /\ \A f \in Of(EventOf(w).stream) : f.pos < EventOf(w).pos
    BY EventOfIs
  <1>2. /\ raw' = raw \cup ({input[w].raw} \ {NoRaw}) /\ events' = events \cup {EventOf(w)}
        /\ latest' = Project(latest, bars, EventOf(w))[1]
        /\ bars' = Project(latest, bars, EventOf(w))[2] /\ UNCHANGED quarantined
    BY DEF Apply, EventOf
  <1>3. LogTypeOK' /\ StreamsAreDense'
    BY <1>1, <1>2, DenseCommit
  <1>4. TransactionsTypeOK' /\ Others(w) /\ phase'[w] = "idle"
    BY DEF TransactionsTypeOK, Close, Others, Phases
  <1>5. phase[w] \in Appended /\ phase[w] \in Open
    BY DEF Appended, Open
  <1>6. StreamHeld'
    <2>1. ASSUME NEW v \in Writers, phase'[v] \in Appended
          PROVE  /\ v # w /\ phase[v] \in Appended /\ input'[v] = input[v]
                 /\ expected'[v] = expected[v] /\ position'[v] = position[v]
                 /\ Of(input[v].stream)' = Of(input[v].stream)
      <3>1. /\ v # w /\ phase[v] \in Appended /\ input'[v] = input[v]
            /\ expected'[v] = expected[v] /\ position'[v] = position[v]
        BY <1>4, <2>1 DEF Others, Appended
      <3>2. input[v].stream # input[w].stream
        BY <1>5, <3>1 DEF StreamHeld
      <3> QED
        BY <1>1, <1>2, <3>1, <3>2 DEF Of
    <2>2. ASSUME NEW v \in Writers, phase'[v] \in Appended
          PROVE  /\ position'[v] \in 1 .. sequence'
                 /\ expected'[v] = Cardinality(Of(input[v].stream)')
                 /\ \A f \in Of(input[v].stream)' : f.pos < position'[v]
      BY <2>1, <2>2 DEF StreamHeld
    <2>3. ASSUME NEW u \in Writers, NEW v \in Writers, u # v, phase'[u] \in Appended,
                 phase'[v] \in Appended
          PROVE  input'[u].stream # input'[v].stream
      BY <2>1, <2>3 DEF StreamHeld
    <2> QED
      BY <2>2, <2>3 DEF StreamHeld, Appended
  <1>7. RawHeld'
    <2>1. \A v \in Writers : phase'[v] \in Open =>
             v # w /\ phase[v] \in Open /\ input'[v] = input[v]
      BY <1>4 DEF Others, Open, Appended
    <2>2. \A v \in Writers : phase'[v] \in Open /\ input[v].raw # NoRaw =>
             input[v].raw \notin raw /\ input[v].raw # input[w].raw
      BY <1>5, <2>1 DEF RawHeld
    <2>3. \A u, v \in Writers : u # v /\ phase'[u] \in Open /\ phase'[v] \in Open
                                /\ input[u].raw = input[v].raw => input[v].raw = NoRaw
      BY <2>1 DEF RawHeld
    <2> QED
      BY <1>2, <2>1, <2>2, <2>3 DEF RawHeld, Open, Appended
  <1>8. RawOnce'
    <2>1. input[w].raw # NoRaw => input[w].raw \notin raw
      BY <1>5 DEF RawHeld
    <2>2. \A f \in events : f.raw = input[w].raw => f.raw = NoRaw
      BY <2>1 DEF RawOnce
    <2>3. \A f, g \in events' : f.raw = g.raw /\ f.raw # NoRaw => f = g
      BY <1>1, <1>2, <2>2 DEF RawOnce
    <2>4. {f.raw : f \in events'} = {f.raw : f \in events} \cup {input[w].raw}
      BY <1>1, <1>2
    <2> QED
      BY <1>2, <2>3, <2>4 DEF RawOnce
  <1>9. RebuildHeld'
    BY <1>4 DEF RebuildHeld, Truncated, Projecting, Others
  <1>10. ProjectionIsReplay'
    BY <1>1, <1>2, ReplayCommit
  <1>11. FeedHeld'
    BY <1>2, <1>3, FeedStep
  <1> QED
    BY <1>3, <1>4, <1>6, <1>7, <1>8, <1>9, <1>10, <1>11

LEMMA CommitKeeps ==
    ASSUME EventInv, NEW w \in Writers, Commit(w) \/ CommitLost(w)
    PROVE  EventInv'
  <1>1. cache' \in [Writers -> [Streams -> Nat \cup {Unknown}]]
    <2>1. /\ cache \in [Writers -> [Streams -> Nat \cup {Unknown}]] /\ expected[w] + 1 \in Nat
      BY DEF EventInv, TransactionsTypeOK
    <2> QED
      BY <2>1 DEF Commit, CommitLost, Forget
  <1> QED
    BY <1>1, ApplyKeeps DEF Commit, CommitLost

LEMMA RollbackKeeps ==
    ASSUME EventInv, NEW w \in Writers, Duplicate(w) \/ Conflict(w) \/ Die(w)
    PROVE  EventInv'
  <1>1. cache' \in [Writers -> [Streams -> Nat \cup {Unknown}]]
    BY DEF EventInv, TransactionsTypeOK, Duplicate, Conflict, Die, Forget
  <1> QED
    BY <1>1, ReleaseKeeps DEF Duplicate, Conflict, Die

----------------------------------------------------------------------------
(* Quarantine, the rebuild and the feed.                                   *)

\* A step that leaves the transactions and the log alone.
LEMMA ReaderKeeps ==
    ASSUME EventInv, UNCHANGED <<events, sequence, txVars, cache>>
    PROVE  /\ TransactionsTypeOK' /\ LogTypeOK' /\ StreamsAreDense' /\ StreamHeld'
           /\ UNCHANGED raw => RawHeld'
           /\ UNCHANGED <<raw, quarantined>> => RawOnce'
           /\ UNCHANGED <<rebuild, scanned>> => RebuildHeld'
           /\ UNCHANGED <<latest, bars>> => ProjectionIsReplay'
           /\ UNCHANGED feedVars => FeedHeld'
  <1> USE DEF EventInv
  <1>1. UNCHANGED <<phase, input, expected, position>>
    BY DEF txVars
  <1>2. \A s : Of(s)' = Of(s)
    BY DEF Of
  <1>3. TransactionsTypeOK' /\ LogTypeOK'
    BY <1>1 DEF TransactionsTypeOK, LogTypeOK
  <1>4. StreamsAreDense'
    BY <1>2 DEF StreamsAreDense
  <1>5. StreamHeld'
    BY <1>1, <1>2 DEF StreamHeld, Appended
  <1>6. UNCHANGED raw => RawHeld'
    BY <1>1 DEF RawHeld, Open, Appended
  <1>7. UNCHANGED <<raw, quarantined>> => RawOnce'
    BY DEF RawOnce
  <1>8. UNCHANGED <<rebuild, scanned>> => RebuildHeld'
    BY <1>1 DEF RebuildHeld, Truncated, Projecting
  <1>9. UNCHANGED <<latest, bars>> => ProjectionIsReplay'
    BY DEF ProjectionIsReplay, Replay
  <1>10. UNCHANGED feedVars => FeedHeld'
    BY <1>3, FeedStep
  <1> QED
    BY <1>3, <1>4, <1>5, <1>6, <1>7, <1>8, <1>9, <1>10

LEMMA QuarantineKeeps ==
    ASSUME EventInv, NEW k, k # NoRaw, Quarantine(k)
    PROVE  EventInv'
  <1>1. UNCHANGED <<events, latest, bars, sequence, txVars, cache, rebuild, scanned, feedVars>>
        /\ raw' = raw \cup {k} /\ quarantined' = quarantined \cup {k}
    BY DEF Quarantine
  <1>2. RawHeld'
    <2>1. RawHeld /\ UNCHANGED <<phase, input>>
      BY <1>1 DEF EventInv, txVars
    <2> QED
      BY <1>1, <2>1 DEF RawHeld, Quarantine, Open, Appended
  <1>3. RawOnce'
    BY <1>1 DEF RawOnce, EventInv
  <1> QED
    BY <1>1, <1>2, <1>3, ReaderKeeps DEF EventInv

LEMMA RebuildKeeps ==
    ASSUME EventInv, RebuildStep
    PROVE  EventInv'
  <1>1. UNCHANGED <<events, raw, quarantined, sequence, txVars, cache, feedVars>>
    BY DEF RebuildStep, Truncate, Scan, RebuildCheckpoint, CommitRebuild, logVars
  <1>2. RebuildHeld'
    <2>1. RebuildHeld /\ (Projecting' <=> Projecting)
      BY <1>1 DEF EventInv, Projecting, txVars
    <2> QED
      BY <1>1, <2>1
      DEF RebuildHeld, Truncated, RebuildStep, Truncate, Scan, RebuildCheckpoint, CommitRebuild
  <1>3. ProjectionIsReplay'
    <2>1. CASE Truncate \/ Scan \/ RebuildCheckpoint
      BY <1>1, <2>1, ReaderKeeps DEF Truncate, Scan, RebuildCheckpoint, logVars
    <2>2. CASE CommitRebuild
      <3>1. scanned = events /\ events' = events
        BY <1>1, <2>2 DEF CommitRebuild, EventInv, RebuildHeld
      <3> QED
        BY <2>2, <3>1 DEF CommitRebuild, ProjectionIsReplay, Replay
    <2> QED
      BY <2>1, <2>2 DEF RebuildStep
  <1> QED
    BY <1>1, <1>2, <1>3, ReaderKeeps DEF EventInv

LEMMA FeedKeeps ==
    ASSUME EventInv, ReadEvents \/ AcceptPage
    PROVE  EventInv'
  <1>1. UNCHANGED <<raw, quarantined, events, latest, bars, sequence, txVars, cache, rebuild, scanned>>
    BY DEF ReadEvents, AcceptPage, logVars
  <1>2. Top' = Top
    BY <1>1 DEF Top
  <1>3. Top \in Nat /\ \A e \in events : e.pos =< Top /\ e.pos \in Nat
    <2>1. sequence \in Nat /\ \A e \in events : e.pos \in 1 .. sequence
      BY DEF EventInv, LogTypeOK
    <2>2. Top \in Nat /\ \A e \in events : e.pos =< Top
      BY <2>1, TopOf DEF Top
    <2> QED
      BY <2>1, <2>2
  <1>4. FeedHeld
    BY DEF EventInv
  <1>5. FeedHeld'
    <2>1. CASE ReadEvents
      <3>1. UNCHANGED <<cursor, high>> /\ page' \subseteq {e.pos : e \in {f \in events : f.pos > cursor}}
        BY <2>1 DEF ReadEvents
      <3>2. page' \subseteq cursor + 1 .. Top
        BY <1>3, <1>4, <3>1 DEF FeedHeld
      <3> QED
        BY <1>2, <1>4, <3>1, <3>2 DEF FeedHeld
    <2>2. CASE AcceptPage
      <3> DEFINE T == {cursor} \cup page
      <3>1. T \in SUBSET Nat /\ T # {} /\ \A t \in T : t =< Top
        BY <1>3, <1>4, <2>2 DEF AcceptPage, FeedHeld
      <3> HIDE DEF T
      <3>2. Max(T) \in Nat /\ Max(T) =< Top
        BY <1>3, <3>1, MaxBounded
      <3>3. cursor' = Max(T) /\ high' = Top /\ page' = NoPage
        BY <2>2 DEF AcceptPage, T
      <3> QED
        BY <1>2, <1>3, <3>2, <3>3 DEF FeedHeld, NoPage, Unknown
    <2> QED
      BY <2>1, <2>2
  <1> QED
    BY <1>1, <1>5, ReaderKeeps DEF EventInv

----------------------------------------------------------------------------
(* The specification.                                                      *)

LEMMA EventInit == Init => EventInv
  <1> SUFFICES ASSUME Init PROVE EventInv
    OBVIOUS
  <1>1. TransactionsTypeOK
    BY DEF Init, TransactionsTypeOK, Phases, Unknown
  <1>2. LogTypeOK
    BY FS_EmptySet DEF Init, LogTypeOK
  <1>3. \A s : Of(s) = {}
    BY DEF Init, Of
  <1>4. StreamsAreDense
    BY <1>3, FS_EmptySet DEF StreamsAreDense
  <1>5. StreamHeld /\ RawHeld
    BY DEF Init, StreamHeld, RawHeld, Appended, Open
  <1>6. RawOnce /\ RebuildHeld
    BY DEF Init, RawOnce, RebuildHeld
  <1>7. Max({0}) = 0
    BY MaxIs
  <1>8. ProjectionIsReplay
    <2>1. \A s : {0} \cup {e.pos : e \in {f \in {} : f.stream = s}} = {0}
      OBVIOUS
    <2>2. Replay({})[1] = [s \in QuoteStreams |-> 0]
      BY <1>7, <2>1 DEF Replay
    <2>3. Replay({})[2] = {} /\ Replay({}) = <<Replay({})[1], Replay({})[2]>>
      BY DEF Replay
    <2> QED
      BY <2>2, <2>3 DEF Init, ProjectionIsReplay
  <1>9. FeedHeld
    <2>1. {0} \cup {e.pos : e \in events} = {0}
      BY DEF Init
    <2>2. Top = 0
      BY <1>7, <2>1 DEF Top
    <2> QED
      BY <2>2 DEF Init, FeedHeld
  <1> QED
    BY <1>1, <1>2, <1>4, <1>5, <1>6, <1>8, <1>9 DEF EventInv

LEMMA EventNext == EventInv /\ [Next]_vars => EventInv'
  <1> SUFFICES ASSUME EventInv, [Next]_vars PROVE EventInv'
    OBVIOUS
  <1>1. ASSUME NEW w \in Writers, Transact(w) \/ CommitLost(w) \/ Die(w) \/ \E i \in Inputs : Begin(w, i)
        PROVE  EventInv'
    BY <1>1, BeginKeeps, CaptureKeeps, AppendKeeps, ProjectKeeps, CommitKeeps, RollbackKeeps DEF Transact
  <1>2. ASSUME NEW i \in Inputs, i.raw # NoRaw, Quarantine(i.raw) PROVE EventInv'
    BY <1>2, QuarantineKeeps
  <1>3. CASE UNCHANGED vars
    BY <1>3, ReaderKeeps DEF vars, logVars, EventInv
  <1> QED
    BY <1>1, <1>2, <1>3, RebuildKeeps, FeedKeeps DEF Next

\* The log, the transactions, the read model, the rebuild and the feed agree in
\* every reachable state.
THEOREM EventInvariant == Spec => []EventInv
  BY EventInit, EventNext, PTL DEF Spec

\* The versions of a stream are 1, 2, 3, ... and the positions rise with them,
\* whatever the writers have cached (_append under the advisory lock).
THEOREM StreamsDense == Spec => []StreamsAreDense
  <1>1. EventInv => StreamsAreDense
    BY DEF EventInv
  <1> QED
    BY <1>1, EventInvariant, PTL

\* A raw record and its event are stored once and together (_capture).
THEOREM RawStoredOnce == Spec => []RawOnce
  <1>1. EventInv => RawOnce
    BY DEF EventInv
  <1> QED
    BY <1>1, EventInvariant, PTL

\* The read model is the replay of the committed log in the order of positions,
\* in whatever order transactions commit and while it is rebuilt (_project,
\* rebuild_projections).
THEOREM ProjectionReplays == Spec => []ProjectionIsReplay
  <1>1. EventInv => ProjectionIsReplay
    BY DEF EventInv
  <1> QED
    BY <1>1, EventInvariant, PTL

\* The consumer accepts every page of the feed (read_page,
\* advance_capture_feed_cursor).
THEOREM PagesAccepted == Spec => []PagesAreAccepted
  <1>1. EventInv => PagesAreAccepted
    BY DEF EventInv, FeedHeld, PagesAreAccepted
  <1> QED
    BY <1>1, EventInvariant, PTL
=============================================================================
