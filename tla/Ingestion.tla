------------------------------- MODULE Ingestion -------------------------------
(***************************************************************************)
(* IngestionService with its OneMinuteBarBuilder and GapDetector, for one  *)
(* instrument: from a market-data record to the quote, gap and bar events  *)
(* in the canonical log.                                                   *)
(*                                                                         *)
(* The quote is stored in one transaction; the gaps and bars it gives rise *)
(* to follow in transactions of their own.  A failure between two of them  *)
(* ends the process, and the next process starts with an empty builder.    *)
(* Records of other instruments and records without a quote only move the  *)
(* watermark: Quarantine stands for both.                                  *)
(***************************************************************************)
EXTENDS Integers, SequencesExt

CONSTANTS
    Quotes,           \* the quotes the provider may deliver
    Times,            \* receive times
    Interval,         \* length of a bar
    Lateness,         \* how long after its end a bar is closed
    Retention,        \* how long a closed bar may be corrected
    MaxSilence,       \* GapDetector._maximum_silence
    MaxQuotes,        \* bound: quotes in the log
    MaxCrashes        \* bound: restarts

NoPrice == 0
NoQuote == [healthy |-> FALSE]
Never == 0 - 1000     \* _correction_cutoff of a new builder: before every time

ASSUME IngestionAssumption ==
    /\ \A q \in Quotes :
           /\ DOMAIN q = {"time", "bid", "ask", "bidTime", "askTime", "healthy"}
           /\ {q.time, q.bid, q.ask, q.bidTime, q.askTime} \subseteq Nat
           /\ q.healthy \in BOOLEAN
           /\ q.bid # NoPrice \/ q.ask # NoPrice
           /\ q.bid # NoPrice /\ q.ask # NoPrice => q.bid =< q.ask
    /\ Times \subseteq Nat
    /\ Interval \in Nat \ {0} /\ Lateness \in Nat /\ Retention \in Nat
    /\ MaxSilence \in Nat \ {0}

VARIABLES
    log,        \* canonical.events of the instrument, in the order of their positions
    todo,       \* events of the running call that are still to be appended
    processed,  \* process has returned and advance_bars is to follow
    watermark,  \* received_time of the last record
    buckets,    \* OneMinuteBarBuilder._buckets, by interval_start
    cutoff,     \* OneMinuteBarBuilder._correction_cutoff
    last,       \* GapDetector._last_quote
    base,       \* length of the log when the process started
    crashes

memory == <<buckets, cutoff, last>>
vars == <<log, todo, processed, watermark, memory, base, crashes>>

Empty == [i \in {} |-> 0]

Init ==
    /\ log = <<>> /\ todo = <<>> /\ processed = FALSE /\ watermark = 0
    /\ buckets = Empty /\ cutoff = Never /\ last = NoQuote
    /\ base = 0 /\ crashes = 0

----------------------------------------------------------------------------
(* OneMinuteBarBuilder.                                                    *)

Basis == {"ASK", "BID", "MID"}

\* sorted(bases, key=str)
Sorted(bases) ==
    LET only(b) == IF b \in bases THEN <<b>> ELSE <<>>
    IN  only("ASK") \o only("BID") \o only("MID")

\* event_time.replace(second=0, microsecond=0)
IntervalStart(q) == q.time - (q.time % Interval)

\* A midpoint needs both sides and little time between them.
Near(q) == q.bidTime - q.askTime \in (0 - Lateness) .. Lateness

\* The sample a quote contributes to a basis (the midpoint is kept doubled).
Sample(q, basis) ==
    CASE basis = "BID" /\ q.bid # NoPrice -> <<[time |-> q.bidTime, price |-> q.bid]>>
      [] basis = "ASK" /\ q.ask # NoPrice -> <<[time |-> q.askTime, price |-> q.ask]>>
      [] basis = "MID" /\ q.bid # NoPrice /\ q.ask # NoPrice /\ Near(q) ->
             <<[time |-> q.time, price |-> q.bid + q.ask]>>
      [] OTHER -> <<>>

\* The bases that a quote has a sample for.
Changed(q) == {b \in Basis : Sample(q, b) # <<>>}

\* Mutation of AddSample: samples stay in the order of their arrival.
AddSampleUnsorted(samples, s) == IF s \in Range(samples) THEN samples ELSE Append(samples, s)

\* _add_sample: no repetition; the list stays sorted by time, ties by arrival.
AddSample(samples, s) ==
    LET before == Cardinality({n \in DOMAIN samples : samples[n].time =< s.time})
    IN  IF s \in Range(samples) THEN samples ELSE InsertAt(samples, before + 1, s)

NewBucket == [closed |-> FALSE, samples |-> [b \in Basis |-> <<>>],
              revisions |-> [b \in Basis |-> 0]]

Bucket(i) == IF i \in DOMAIN buckets THEN buckets[i] ELSE NewBucket

WithSamples(bucket, q) ==
    [bucket EXCEPT !.samples = [b \in Basis |->
        IF Sample(q, b) = <<>> THEN @[b] ELSE AddSample(@[b], Sample(q, b)[1])]]

\* _build: the bar of a basis, with the next revision.
Bar(i, bucket, b) ==
    LET s == bucket.samples[b]
        prices == {s[n].price : n \in DOMAIN s}
    IN  [type |-> "bar", start |-> i, basis |-> b, open |-> s[1].price, high |-> Max(prices),
         low |-> Min(prices), close |-> s[Len(s)].price, count |-> Len(s),
         revision |-> bucket.revisions[b] + 1]

Bars(i, bucket, bases) == [n \in DOMAIN Sorted(bases) |-> Bar(i, bucket, Sorted(bases)[n])]

\* The bucket after _build of these bases.
Built(bucket, bases) ==
    [bucket EXCEPT !.revisions = [b \in DOMAIN @ |-> @[b] + (IF b \in bases THEN 1 ELSE 0)]]

CorrectionExpired(q) ==
    IntervalStart(q) \notin DOMAIN buckets /\ IntervalStart(q) + Interval =< cutoff

\* Buckets that advance closes: open ones whose lateness has passed.
Due(w) == {i \in DOMAIN buckets : ~buckets[i].closed /\ i + Interval + Lateness =< w}

\* Mutation of Expired: buckets are dropped before the due ones are closed.
ExpiredBeforeClosing(w) == {i \in DOMAIN buckets : buckets[i].closed
                                                   /\ i + Interval =< w - Retention}

\* Closed buckets that may no longer be corrected; Due(w) are closed by now.
Expired(w) == {i \in DOMAIN buckets : (buckets[i].closed \/ i \in Due(w))
                                      /\ i + Interval =< w - Retention}

\* Mutation of Cutoff: it follows the watermark back.
CutoffFollows(w) == w - Retention

\* The cutoff never falls, although receive times may.
Cutoff(w) == Max({cutoff, w - Retention})

\* The bases of a bucket that have samples.
Filled(bucket) == {b \in Basis : bucket.samples[b] # <<>>}

\* sorted(_open_keys): the due buckets in the order of their intervals.
InOrder(S) ==
    CHOOSE s \in [1 .. Cardinality(S) -> S] : \A m, n \in DOMAIN s : m < n => s[m] < s[n]

----------------------------------------------------------------------------
(* GapDetector.                                                            *)

Gap(reason, from, to) == [type |-> "gap", reason |-> reason, start |-> from, end |-> to]

\* Mutation of Observe: a bound of the silence too many.
ObserveLate(q) ==
    IF last.healthy /\ q.healthy /\ q.time > last.time + MaxSilence + 1
    THEN <<Gap("SILENCE", last.time, q.time)>> ELSE <<>>

\* observe: the previous quote, whatever its time, is the start of the gap.
Observe(q) ==
    IF last.healthy /\ q.healthy /\ q.time > last.time + MaxSilence
    THEN <<Gap("SILENCE", last.time, q.time)>> ELSE <<>>

----------------------------------------------------------------------------
(* IngestionService.                                                       *)

Quiet == ~processed /\ todo = <<>>
IsQuote(n) == n \in DOMAIN log /\ log[n].type = "quote"
Stored == {log[n].quote : n \in {m \in DOMAIN log : IsQuote(m)}}

\* A record is over: its receive time is the next watermark.
Received(time) == watermark' = time /\ processed' = TRUE

\* process of a new quote: capture_and_append, then the gap of a silence, then
\* the gap of an expired interval or the revisions of a closed one.
Process(q, time) ==
    LET i == IntervalStart(q)
        bucket == WithSamples(Bucket(i), q)
        bases == IF bucket.closed THEN Changed(q) ELSE {}
    IN  /\ Quiet /\ q \notin Stored /\ Cardinality(Stored) < MaxQuotes
        /\ log' = Append(log, [type |-> "quote", quote |-> q])
        /\ last' = q
        /\ IF CorrectionExpired(q)
           THEN /\ todo' = Observe(q) \o <<Gap("EXPIRED", i, i + Interval)>>
                /\ UNCHANGED buckets
           ELSE /\ todo' = Observe(q) \o Bars(i, bucket, bases)
                /\ buckets' = [j \in DOMAIN buckets \cup {i} |->
                                  IF j = i THEN Built(bucket, bases) ELSE buckets[j]]
        /\ Received(time)
        /\ UNCHANGED <<cutoff, base, crashes>>

\* The store knows the record: nothing is built from it.
Duplicate(q, time) ==
    /\ Quiet /\ q \in Stored
    /\ Received(time)
    /\ UNCHANGED <<log, todo, memory, base, crashes>>

\* A record without a quote, or of another instrument.
Quarantine(time) ==
    /\ Quiet
    /\ Received(time)
    /\ UNCHANGED <<log, todo, memory, base, crashes>>

\* _append_gap and _append_bar: one transaction for each event.
AppendNext ==
    /\ todo # <<>>
    /\ log' = Append(log, Head(todo)) /\ todo' = Tail(todo)
    /\ UNCHANGED <<processed, watermark, memory, base, crashes>>

\* advance_bars(record.received_time)
AdvanceBars ==
    LET due == InOrder(Due(watermark))
        bars == [n \in DOMAIN due |-> Bars(due[n], buckets[due[n]], Filled(buckets[due[n]]))]
    IN  /\ processed /\ todo = <<>>
        /\ todo' = FlattenSeq(bars)
        /\ buckets' = [i \in DOMAIN buckets \ Expired(watermark) |->
                          IF i \in Due(watermark)
                          THEN [Built(buckets[i], Filled(buckets[i])) EXCEPT !.closed = TRUE]
                          ELSE buckets[i]]
        /\ cutoff' = Cutoff(watermark)
        /\ processed' = FALSE
        /\ UNCHANGED <<log, watermark, last, base, crashes>>

\* The process ends between two transactions and is started again.
Crash ==
    /\ crashes < MaxCrashes
    /\ crashes' = crashes + 1
    /\ todo' = <<>> /\ processed' = FALSE
    /\ buckets' = Empty /\ cutoff' = Never /\ last' = NoQuote
    /\ base' = Len(log)
    /\ UNCHANGED <<log, watermark>>

Next ==
    \/ \E q \in Quotes, t \in Times : Process(q, t) \/ Duplicate(q, t)
    \/ \E t \in Times : Quarantine(t)
    \/ AppendNext \/ AdvanceBars \/ Crash

Spec == Init /\ [][Next]_vars

----------------------------------------------------------------------------
Session == base + 1 .. Len(log)
BarsOf(i, b) == {n \in Session : log[n].type = "bar" /\ log[n].start = i /\ log[n].basis = b}

\* The events up to the next quote are those of the quote at n.
NextQuote(n) == Min({Len(log) + 1} \cup {m \in Session : m > n /\ IsQuote(m)})
GapsOf(i) == {n \in Session : log[n].type = "gap" /\ log[n].reason = "EXPIRED" /\ log[n].start = i}

\* The quotes of an interval that reached the builder.
Accepted(i) == {n \in Session : /\ IsQuote(n) /\ IntervalStart(log[n].quote) = i
                                /\ \A g \in GapsOf(i) : g > NextQuote(n)}

\* Their samples, each with its first arrival.
Reference(i, b) ==
    LET from(s) == {n \in Accepted(i) : Sample(log[n].quote, b) = <<s>>}
    IN  {[time |-> s.time, price |-> s.price, at |-> Min(from(s))] :
             s \in {Sample(log[n].quote, b)[1] :
                       n \in {m \in Accepted(i) : Sample(log[m].quote, b) # <<>>}}}

Earlier(r, s) == r.time < s.time \/ (r.time = s.time /\ r.at < s.at)
First(R) == CHOOSE r \in R : \A s \in R \ {r} : Earlier(r, s)
Final(R) == CHOOSE r \in R : \A s \in R \ {r} : Earlier(s, r)

\* The last bar of a closed interval is what the canonical quotes of the
\* process give when they are put in order from scratch, numbered by its
\* revisions, however late and in whatever order they came; an interval whose
\* lateness has not passed has no bar yet.
BarsMatchLog ==
    Quiet => \A i \in {IntervalStart(log[n].quote) : n \in {m \in Session : IsQuote(m)}},
                b \in Basis :
        LET R == Reference(i, b)
            built == BarsOf(i, b)
        IN  R # {} =>
            IF i \in DOMAIN buckets /\ ~buckets[i].closed
            THEN built = {} /\ i + Interval + Lateness > watermark
            ELSE /\ built # {}
                 /\ log[Max(built)] =
                      [type |-> "bar", start |-> i, basis |-> b, open |-> First(R).price,
                       high |-> Max({r.price : r \in R}), low |-> Min({r.price : r \in R}),
                       close |-> Final(R).price, count |-> Cardinality(R),
                       revision |-> Cardinality(built)]

\* Once an interval has expired in a process, no bar of it is appended any more.
ExpiredStaysOut ==
    \A g, n \in Session : log[g].type = "gap" /\ log[g].reason = "EXPIRED" /\ g < n
                          => ~(log[n].type = "bar" /\ log[n].start = log[g].start)

\* The builder keeps an interval exactly as long as it is open or can still be
\* corrected: its state is bounded by recent activity.
StateIsBounded ==
    Quiet => \A i \in DOMAIN buckets :
                 IF buckets[i].closed THEN i + Interval > cutoff
                                      ELSE i + Interval + Lateness > watermark

\* A silence between two adjacent healthy quotes that the running process has
\* stored since its start is reported with the very times of the two quotes by
\* the time the next record is taken.  Nothing is said of a silence that spans a
\* restart, which GapDetector cannot see, nor of one whose process died after
\* the transaction of the quote and before that of the gap.
SilenceIsReported ==
    Quiet => \A n \in Session : LET m == NextQuote(n) IN
        /\ IsQuote(n) /\ m =< Len(log)
        /\ log[n].quote.healthy /\ log[m].quote.healthy
        /\ log[m].quote.time > log[n].quote.time + MaxSilence
        => \E g \in m + 1 .. NextQuote(m) - 1 :
               log[g] = Gap("SILENCE", log[n].quote.time, log[m].quote.time)
=============================================================================
