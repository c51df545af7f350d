---------------------------- MODULE IgStreamProofs ----------------------------
(***************************************************************************)
(* Proofs about IgStream, for every set of universes, every number of      *)
(* attempts and cycles and any number of faults.                           *)
(*                                                                         *)
(* There is one connection because every open finds _client unset, and it  *)
(* is unset only by a close that was confirmed for the very client the     *)
(* coroutine began to close: while one coroutine closes, the other can     *)
(* neither open nor close.                                                 *)
(*                                                                         *)
(* READY is earned because the evidence in chan is only ever recorded for  *)
(* the client of the current generation, and whatever takes evidence away  *)
(* from that client also takes READY away.  For the last part the          *)
(* invariant also says what the client has acknowledged: an item that is   *)
(* acknowledged again while READY would silently lose its update.          *)
(***************************************************************************)
EXTENDS IgStream, FiniteSetTheorems, TLAPS

Names == {"caller", "life"}
States == {"AUTHENTICATED", "CONNECTING", "SUBSCRIBING", "READY", "DEGRADED", "BACKING_OFF",
           "FAILED", "STOPPING", "STOPPED"}
Connection ==
    [state : States, generation : Nat, client : Nat, desired : SUBSET Epics,
     expected : SUBSET Epics, reconnecting : BOOLEAN, stopping : BOOLEAN, fatal : BOOLEAN,
     watchdog : Nat]
Channel ==
    [transport : BOOLEAN, subscribed : SUBSET Epics, updated : SUBSET Epics,
     hbSub : BOOLEAN, hbCur : BOOLEAN, hbAt : {"None", "Current", "Late", "Dead"}]
Opening == {"connect", "subscribe", "ready"}
Task ==
    [op : {"none", "subscribe", "run", "leave", "disconnect", "done", "reconnect", "replace",
           "rollback"},
     pc : {"none", "drain", "close", "closing", "auth", "open", "swap", "sleep", "logout"}
          \cup Opening,
     gen : Nat, evt : {"none", "current", "stale", "woken"}, tries : Nat, prev : SUBSET Epics]
Link ==
    [status : {"none", "up", "retry", "lost", "dead"}, told : BOOLEAN,
     acked : SUBSET (Epics \cup {HB}), refused : SUBSET (Epics \cup {HB})]

\* What the command does, and where in it.
CallerHeld ==
    /\ task["caller"].op \in {"none", "subscribe", "run", "leave", "disconnect", "done"}
    /\ task["caller"].op \in {"none", "run", "leave", "done"} => task["caller"].pc = "none"
    /\ task["caller"].op = "subscribe" => task["caller"].pc \in Opening
    /\ task["caller"].op = "disconnect" => task["caller"].pc \in {"drain", "closing", "logout"}

\* _reconnecting is set exactly while a coroutine holds it.
LifeHeld ==
    /\ task["life"].op \in {"none", "reconnect", "replace", "rollback"}
    /\ task["life"].op = "none" => task["life"] = Idle
    /\ conn.reconnecting <=> task["life"].op # "none"

\* A disconnect leaves no other coroutine and no watchdog; STOPPED is reached
\* with no client.
StopHeld ==
    /\ conn.stopping <=> task["caller"].op \in {"disconnect", "done"}
    /\ conn.stopping => /\ task["life"] = Idle /\ conn.watchdog = 0
                        /\ conn.state \in {"STOPPING", "STOPPED", "FAILED"}
    /\ task["caller"].pc = "logout" => conn.client = 0
    /\ conn.state = "STOPPED" => task["caller"].op = "done" /\ conn.client = 0

\* Before subscribe nothing runs; the client that may be connected is the one
\* the adapter owns, and a closing coroutine closes that one.
ClientHeld ==
    /\ task["caller"].op = "none" =>
         /\ conn.generation = 0 /\ task["life"] = Idle /\ conn.desired = {} /\ conn.watchdog = 0
         /\ conn.state = "AUTHENTICATED"
    /\ task["caller"].op # "none" => conn.generation > 0
    /\ conn.client =< conn.generation
    /\ live \subseteq {conn.client} \ {0}
    /\ \A t \in Names : task[t].pc = "closing" => task[t].gen = conn.client

\* The client carries the current generation: its callbacks are acted upon.
Current == ~conn.stopping /\ conn.client = conn.generation

\* The evidence is the current client's own, and READY has all of it.
EvidenceHeld ==
    /\ Current =>
         /\ chan.updated \subseteq heard
         /\ chan.hbCur => HB \in heard
         /\ chan.subscribed \subseteq link.acked
         /\ chan.hbSub => HB \in link.acked
    /\ Current /\ conn.state = "READY" =>
         /\ conn.expected \cup {HB} \subseteq heard
         /\ conn.expected \cup {HB} \subseteq link.acked

\* The part of the invariant that the handlers' control fields decide.
ControlInv ==
    /\ conn \in Connection /\ task \in [Names -> Task]
    /\ CallerHeld /\ LifeHeld /\ StopHeld /\ ClientHeld

\* Types of the rest.
DataTypeOK ==
    /\ chan \in Channel
    /\ ready \in [set : BOOLEAN, error : BOOLEAN]
    /\ link \in Link
    /\ universe \in SUBSET Epics
    /\ faults \in Nat

IgInv == ControlInv /\ DataTypeOK /\ EvidenceHeld

LEMMA IgInit == Init => IgInv
  <1> SUFFICES ASSUME Init PROVE IgInv
    OBVIOUS
  <1> USE IgAssumption
  <1>1. conn \in Connection
    BY DEF Init, Connection, States
  <1>2. Idle \in Task
    BY DEF Idle, Task
  <1>3. task \in [Names -> Task] /\ task["caller"] = Idle /\ task["life"] = Idle
    BY <1>2 DEF Init, Names
  <1>4. DataTypeOK
    BY DEF Init, DataTypeOK, NoEvidence, Channel, NoLink, Link, Epics
  <1>5. ControlInv
    BY <1>1, <1>3 DEF ControlInv, Init, CallerHeld, LifeHeld, StopHeld, ClientHeld, Idle, Names
  <1>6. EvidenceHeld
    BY DEF EvidenceHeld, Init, NoEvidence, Current
  <1> QED
    BY <1>4, <1>5, <1>6 DEF IgInv

----------------------------------------------------------------------------
(* Events, schedules and readiness.                                        *)

\* Replacing or setting the readiness event moves no coroutine.
SameTasks(ts) ==
    /\ ts \in [Names -> Task]
    /\ \A t \in Names : /\ ts[t].op = task[t].op /\ ts[t].pc = task[t].pc
                        /\ ts[t].gen = task[t].gen
                        /\ task[t] = Idle => ts[t] = Idle

LEMMA EventsMoveNobody ==
    ASSUME task \in [Names -> Task]
    PROVE  SameTasks(EventReplaced(task)) /\ SameTasks(EventSet(task))
  <1>1. DOMAIN task = Names
    OBVIOUS
  <1>2. \A t \in Names, e \in {"stale", "woken"} :
          LET r == [task[t] EXCEPT !.evt = e]
          IN  r \in Task /\ r.op = task[t].op /\ r.pc = task[t].pc /\ r.gen = task[t].gen
    BY DEF Task
  <1>3. \A t \in Names : task[t] = Idle => task[t].evt # "current"
    BY DEF Idle
  <1>4. SameTasks(EventReplaced(task))
    BY <1>1, <1>2, <1>3 DEF SameTasks, EventReplaced
  <1>5. SameTasks(EventSet(task))
    BY <1>1, <1>2, <1>3 DEF SameTasks, EventSet
  <1> QED
    BY <1>4, <1>5

\* The connection keeps its client and its generation.
SameClient ==
    /\ conn'.client = conn.client /\ conn'.generation = conn.generation
    /\ conn'.expected = conn.expected /\ conn'.stopping = conn.stopping

\* _schedule_reconnect starts a coroutine only when none holds the flag.
LEMMA ScheduleKeeps ==
    ASSUME ControlInv, live' = live, ~conn.stopping, task["caller"].op # "none",
           NEW k \in {[conn EXCEPT !.state = "DEGRADED"], [conn EXCEPT !.watchdog = 0]},
           ScheduleReconnect(k)
    PROVE  /\ ControlInv' /\ SameClient
           /\ conn'.state \in {k.state, "DEGRADED"}
  <1> USE IgAssumption
  <1>1. k \in Connection /\ k.reconnecting = conn.reconnecting /\ k.client = conn.client
        /\ k.generation = conn.generation /\ k.expected = conn.expected /\ ~k.stopping
        /\ k.stopping = conn.stopping
        /\ k.state \in {conn.state, "DEGRADED"}
    BY DEF ControlInv, Connection, States
  <1>2. Idle \in Task
    BY DEF Idle, Task
  <1>3. CASE MaySchedule(k)
    <2> DEFINE i == [Idle EXCEPT !.op = "reconnect", !.pc = "close"]
    <2>1. conn' = [k EXCEPT !.reconnecting = TRUE, !.state = "DEGRADED"]
          /\ task' = [task EXCEPT !["life"] = i]
      BY <1>3 DEF ScheduleReconnect
    <2>2. i \in Task /\ i.op = "reconnect" /\ i.pc = "close"
      BY <1>2 DEF Idle, Task
    <2> HIDE DEF i
    <2>3. /\ conn' \in Connection /\ SameClient /\ conn'.state = "DEGRADED"
          /\ conn'.reconnecting
      BY <1>1, <2>1 DEF Connection, States, SameClient
    <2>4. /\ task' \in [Names -> Task] /\ task'["life"] = i /\ task'["caller"] = task["caller"]
      BY <2>1, <2>2 DEF ControlInv, Names
    <2> QED
      BY <2>2, <2>3, <2>4 DEF ControlInv, SameClient, CallerHeld, LifeHeld, StopHeld, ClientHeld,
         Names
  <1>4. CASE ~MaySchedule(k)
    <2>1. conn' = k /\ task' = task
      BY <1>4 DEF ScheduleReconnect
    <2>2. /\ conn' \in Connection /\ SameClient /\ conn'.reconnecting = conn.reconnecting
          /\ conn'.state \in {conn.state, "DEGRADED"} /\ conn'.state = k.state
      BY <1>1, <2>1 DEF SameClient
    <2> QED
      BY <2>1, <2>2 DEF ControlInv, SameClient, CallerHeld, LifeHeld, StopHeld, ClientHeld, Names
  <1> QED
    BY <1>3, <1>4

\* _mark_ready_if_complete: READY is new only with complete evidence.
LEMMA MarkKeeps ==
    ASSUME ControlInv, live' = live, ~conn.stopping, task["caller"].op # "none",
           NEW c, MarkReadyIfComplete(c)
    PROVE  /\ ControlInv' /\ SameClient /\ chan' = c
           /\ conn'.state = conn.state \/ Complete(c)
           /\ ready' = ready \/ ready' = [ready EXCEPT !.set = TRUE]
  <1>1. CASE Complete(c)
    <2>1. conn' = [conn EXCEPT !.state = "READY", !.watchdog = 0] /\ task' = EventSet(task)
      BY <1>1 DEF MarkReadyIfComplete
    <2>2. SameTasks(task')
      BY <2>1, EventsMoveNobody DEF ControlInv
    <2>3. /\ conn' \in Connection /\ SameClient /\ conn'.state = "READY" /\ conn'.watchdog = 0
          /\ conn'.reconnecting = conn.reconnecting
      BY <2>1 DEF ControlInv, Connection, States, SameClient
    <2> QED
      BY <1>1, <2>2, <2>3
      DEF ControlInv, SameClient, SameTasks, CallerHeld, LifeHeld, StopHeld, ClientHeld, Names,
          MarkReadyIfComplete, Idle
  <1>2. CASE ~Complete(c)
    BY <1>2 DEF MarkReadyIfComplete, ControlInv, SameClient, CallerHeld, LifeHeld, StopHeld,
       ClientHeld
  <1> QED
    BY <1>1, <1>2

----------------------------------------------------------------------------
(* The provider's callbacks.                                               *)

\* What a callback of the current client may do to the evidence, and what it
\* must do to the state when it takes evidence away.
EvidenceStep ==
    /\ chan' \in Channel
    /\ chan'.updated \subseteq heard'
    /\ chan'.hbCur => HB \in heard'
    /\ chan'.subscribed \subseteq link'.acked
    /\ chan'.hbSub => HB \in link'.acked
    /\ conn'.state = "READY" /\ ~(Complete(chan')) =>
         conn.state = "READY" /\ heard \subseteq heard' /\ link.acked \subseteq link'.acked

LEMMA EvidenceKept ==
    ASSUME EvidenceHeld, SameClient, Current, EvidenceStep
    PROVE  EvidenceHeld'
  <1>1. Complete(chan') => conn'.expected \cup {HB} \subseteq heard'
                        /\ conn'.expected \cup {HB} \subseteq link'.acked
    BY DEF Complete, EvidenceStep, SameClient
  <1> QED
    BY <1>1 DEF EvidenceHeld, EvidenceStep, SameClient, Current

\* A callback that is ignored changes what the client has sent, and nothing of
\* the adapter.
LEMMA IgnoredKeeps ==
    ASSUME IgInv, ~Current, Nothing, UNCHANGED <<live, universe>>, link' \in Link, faults' \in Nat
    PROVE  IgInv'
  BY DEF IgInv, Nothing, Current, EvidenceHeld, ControlInv, CallerHeld, LifeHeld, StopHeld,
     ClientHeld, DataTypeOK

\* A callback g is the current client's, a superseded one's or comes too late.
LEMMA CallbackCases ==
    ASSUME IgInv, NEW g \in Callbacks
    PROVE  /\ task["caller"].op # "none" /\ g \in Nat
           /\ g # 0 => g = conn.client
           /\ ~Ignored(g) => Current /\ g # 0 /\ ~conn.stopping
           /\ g # 0 /\ Ignored(g) => ~Current
  <1>1. conn.generation # 0 /\ g \in {0, conn.client}
    BY DEF Callbacks
  <1> QED
    BY <1>1 DEF IgInv, ControlInv, ClientHeld, Ignored, Current, Connection

\* The links that the provider's messages lead to.
LEMMA LinkTypes ==
    ASSUME link \in Link, NEW i \in Epics \cup {HB}
    PROVE  /\ [link EXCEPT !.told = TRUE] \in Link
           /\ [link EXCEPT !.status = "retry", !.told = FALSE] \in Link
           /\ [link EXCEPT !.status = "dead"] \in Link
           /\ [link EXCEPT !.acked = @ \cup {i}] \in Link
           /\ [link EXCEPT !.acked = @ \ {i}] \in Link
           /\ [link EXCEPT !.refused = @ \cup {i}] \in Link
  BY DEF Link

\* Messages of the provider that the adapter does not act upon.
LEMMA UnheardKeeps ==
    ASSUME IgInv, NEW g \in Callbacks, Nothing, UNCHANGED <<live, universe>>, faults' \in Nat,
           link' \in Link, Ignored(g), g = 0 => link' = link /\ heard' = heard
    PROVE  IgInv'
  <1>1. CASE ~Current
    BY <1>1, IgnoredKeeps
  <1>2. CASE Current
    <2>1. UNCHANGED <<link, heard>>
      BY <1>2, CallbackCases
    <2> QED
      BY <2>1 DEF IgInv, Nothing, Current, EvidenceHeld, ControlInv, CallerHeld, LifeHeld,
         StopHeld, ClientHeld, DataTypeOK
  <1> QED
    BY <1>1, <1>2

\* What a message of the current client that is acted upon has to respect.
LEMMA HandledKeeps ==
    ASSUME IgInv, Current, ControlInv', SameClient, EvidenceStep,
           ready' \in [set : BOOLEAN, error : BOOLEAN], link' \in Link,
           universe' = universe, faults' \in Nat
    PROVE  IgInv'
  <1>1. EvidenceHeld'
    BY EvidenceKept DEF IgInv
  <1>2. DataTypeOK'
    BY DEF IgInv, DataTypeOK, EvidenceStep
  <1> QED
    BY <1>1, <1>2 DEF IgInv

LEMMA KeepStatus ==
    ASSUME IgInv, NEW g \in Callbacks,
           StatusConnected(g) \/ StatusRetrying(g) \/ StatusDisconnected(g) \/ ServerError(g)
    PROVE  IgInv'
  <1>0. /\ chan \in Channel /\ ready \in [set : BOOLEAN, error : BOOLEAN] /\ link \in Link
        /\ conn \in Connection /\ faults \in Nat
    BY DEF IgInv, DataTypeOK, ControlInv
  <1>1. UNCHANGED <<live, universe>> /\ faults' \in Nat
    <2>1. UNCHANGED <<live, universe>> /\ (NoFault \/ Fault)
      BY DEF StatusConnected, StatusRetrying, StatusDisconnected, ServerError
    <2> QED
      BY <1>0, <2>1 DEF NoFault, Fault
  <1>2. link' \in Link
    BY <1>0, LinkTypes
    DEF StatusConnected, StatusRetrying, StatusDisconnected, ServerError, LinkAfter
  <1>3. CASE Ignored(g)
    <2>1. Nothing /\ (g = 0 => link' = link /\ heard' = heard)
      BY <1>3 DEF StatusConnected, StatusRetrying, StatusDisconnected, ServerError, LinkAfter, Heard
    <2> QED
      BY <1>1, <1>2, <1>3, <2>1, UnheardKeeps
  <1>4. CASE ~Ignored(g)
    <2>0. /\ Current /\ g # 0 /\ g \in Nat /\ ~conn.stopping /\ task["caller"].op # "none"
          /\ chan.updated \subseteq heard /\ (chan.hbCur => HB \in heard)
          /\ chan.subscribed \subseteq link.acked /\ (chan.hbSub => HB \in link.acked)
      BY <1>4, CallbackCases DEF IgInv, EvidenceHeld
    <2>1. CASE StatusConnected(g)
      <3> DEFINE c == [chan EXCEPT !.transport = TRUE]
      <3>1. /\ MarkReadyIfComplete(c) /\ heard' = heard
            /\ link' = [link EXCEPT !.told = TRUE]
        BY <1>4, <2>0, <2>1 DEF StatusConnected, LinkAfter
      <3>2. link'.acked = link.acked
        BY <1>0, <3>1 DEF Link
      <3>3. c \in Channel /\ c.updated = chan.updated /\ c.hbCur = chan.hbCur
            /\ c.subscribed = chan.subscribed /\ c.hbSub = chan.hbSub
        BY <1>0 DEF Channel
      <3> HIDE DEF c
      <3>4. /\ ControlInv' /\ SameClient /\ chan' = c
            /\ conn'.state = conn.state \/ Complete(c)
            /\ ready' = ready \/ ready' = [ready EXCEPT !.set = TRUE]
        BY <1>1, <2>0, <3>1, MarkKeeps DEF IgInv
      <3>5. EvidenceStep
        BY <2>0, <3>1, <3>2, <3>3, <3>4 DEF EvidenceStep
      <3> QED
        BY <1>0, <1>1, <1>2, <2>0, <3>4, <3>5, HandledKeeps
    <2>2. CASE StatusRetrying(g)
      <3>1. /\ chan' = TransportDegraded(FALSE) /\ ready' = ready /\ task' = task
            /\ conn' = [conn EXCEPT !.state = "DEGRADED",
                                    !.watchdog = IF conn.watchdog = 0 THEN g ELSE conn.watchdog]
            /\ link' = [link EXCEPT !.status = "retry", !.told = FALSE]
        BY <1>4, <2>0, <2>2 DEF StatusRetrying, LinkAfter
      <3>2. link'.acked = link.acked
        BY <1>0, <3>1 DEF Link
      <3>3. chan' \in Channel /\ chan'.updated = {} /\ ~chan'.hbCur
            /\ chan'.subscribed = chan.subscribed /\ chan'.hbSub = chan.hbSub
        BY <1>0, <3>1 DEF Channel, TransportDegraded
      <3>4. /\ conn' \in Connection /\ SameClient /\ conn'.state = "DEGRADED"
            /\ conn'.reconnecting = conn.reconnecting
        BY <1>0, <2>0, <3>1 DEF Connection, SameClient, States
      <3>5. ControlInv'
        BY <1>1, <2>0, <3>1, <3>4 DEF IgInv, ControlInv, SameClient, CallerHeld, LifeHeld,
           StopHeld, ClientHeld
      <3>6. EvidenceStep
        BY <2>0, <3>2, <3>3, <3>4 DEF EvidenceStep
      <3> QED
        BY <1>0, <1>1, <1>2, <2>0, <3>1, <3>4, <3>5, <3>6, HandledKeeps
    <2>3. CASE StatusDisconnected(g) \/ ServerError(g)
      <3> DEFINE k == [conn EXCEPT !.state = "DEGRADED"]
      <3>1. /\ ScheduleReconnect(k) /\ ready' = ready /\ link'.acked = link.acked
            /\ \/ chan' = TransportDegraded(TRUE)
               \/ chan' = chan /\ heard' = heard
        BY <1>0, <1>4, <2>0, <2>3 DEF StatusDisconnected, ServerError, LinkAfter, Link
      <3>2. k.state = "DEGRADED"
        BY <1>0 DEF Connection
      <3>3. ControlInv' /\ SameClient /\ conn'.state = "DEGRADED"
        BY <1>1, <2>0, <3>1, <3>2, ScheduleKeeps DEF IgInv
      <3>4. /\ chan' \in Channel
            /\ (chan'.updated = {} /\ ~chan'.hbCur) \/ (chan' = chan /\ heard' = heard)
            /\ chan'.subscribed = chan.subscribed /\ (chan'.hbSub => chan.hbSub)
        BY <1>0, <3>1 DEF Channel, TransportDegraded
      <3>5. EvidenceStep
        BY <2>0, <3>1, <3>3, <3>4 DEF EvidenceStep
      <3> QED
        BY <1>0, <1>1, <1>2, <2>0, <3>1, <3>3, <3>5, HandledKeeps
    <2> QED
      BY <2>1, <2>2, <2>3
  <1> QED
    BY <1>3, <1>4

\* A message about one item, in the four forms the SDK has.
Sent(g, i) == SendAcknowledgement(g, i) \/ SendEnd(g, i) \/ SendRefusal(g, i) \/ SendUpdate(g, i)

LEMMA SentTypes ==
    ASSUME IgInv, NEW g, NEW i \in Epics \cup {HB}, Sent(g, i)
    PROVE  /\ UNCHANGED <<live, universe>> /\ faults' \in Nat /\ link' \in Link
           /\ g = 0 => link' = link /\ heard' = heard
  <1>1. UNCHANGED <<live, universe>> /\ (NoFault \/ Fault)
    BY DEF Sent, SendAcknowledgement, SendEnd, SendRefusal, SendUpdate
  <1>2. faults' \in Nat
    BY <1>1 DEF NoFault, Fault, IgInv, DataTypeOK
  <1>3. link' \in Link
    BY LinkTypes DEF Sent, SendAcknowledgement, SendEnd, SendRefusal, SendUpdate, LinkAfter,
       IgInv, DataTypeOK
  <1>4. g = 0 => link' = link /\ heard' = heard
    BY DEF Sent, SendAcknowledgement, SendEnd, SendRefusal, SendUpdate, LinkAfter, Heard
  <1> QED
    BY <1>1, <1>2, <1>3, <1>4

\* The effects of a message of the current client on what it has acknowledged
\* and delivered.
LEMMA SentEffects ==
    ASSUME link \in Link, NEW g, NEW i, g # 0
    PROVE  /\ SendAcknowledgement(g, i) =>
                link'.acked = link.acked \cup {i} /\ heard' = heard \ {i} /\ i \notin link.acked
           /\ SendEnd(g, i) => link'.acked = link.acked \ {i} /\ heard' = heard
           /\ SendRefusal(g, i) => link'.acked = link.acked /\ heard' = heard
           /\ SendUpdate(g, i) => link'.acked = link.acked /\ heard' = heard \cup {i}
  BY DEF Link, SendAcknowledgement, SendEnd, SendRefusal, SendUpdate, LinkAfter, Heard, Sends,
     Pending

\* What is known when a callback is acted upon.
Acting ==
    /\ Current /\ ~conn.stopping /\ task["caller"].op # "none"
    /\ chan \in Channel /\ ready \in [set : BOOLEAN, error : BOOLEAN] /\ link \in Link
    /\ conn \in Connection
    /\ chan.updated \subseteq heard /\ (chan.hbCur => HB \in heard)
    /\ chan.subscribed \subseteq link.acked /\ (chan.hbSub => HB \in link.acked)
    /\ conn.state = "READY" => conn.expected \cup {HB} \subseteq link.acked
    /\ HB \notin Epics

LEMMA ActingHolds ==
    ASSUME IgInv, NEW g \in Callbacks, ~Ignored(g)
    PROVE  Acting /\ g # 0
  <1>1. HB \notin Epics
    BY IgAssumption DEF Epics
  <1> QED
    BY <1>1, CallbackCases DEF Acting, IgInv, ControlInv, DataTypeOK, EvidenceHeld

LEMMA DegradedKeeps ==
    ASSUME ControlInv, live' = live, ~conn.stopping, task["caller"].op # "none",
           conn' = [conn EXCEPT !.state = "DEGRADED"], task' = task \/ task' = EventSet(task)
    PROVE  ControlInv' /\ SameClient /\ conn'.state = "DEGRADED"
  <1>1. /\ conn' \in Connection /\ SameClient /\ conn'.state = "DEGRADED"
        /\ conn'.reconnecting = conn.reconnecting
    BY DEF ControlInv, Connection, States, SameClient
  <1>2. SameTasks(task')
    BY EventsMoveNobody DEF ControlInv, SameTasks
  <1> QED
    BY <1>1, <1>2 DEF ControlInv, SameClient, SameTasks, CallerHeld, LifeHeld, StopHeld,
       ClientHeld, Names, Idle

LEMMA ErrorKeeps ==
    ASSUME ControlInv, live' = live, ~conn.stopping, task["caller"].op # "none", ReadinessError
    PROVE  /\ ControlInv' /\ SameClient /\ conn'.state = "DEGRADED"
           /\ ready' \in [set : BOOLEAN, error : BOOLEAN]
  BY DegradedKeeps DEF ReadinessError

LEMMA KeepItem ==
    ASSUME IgInv, NEW g \in Callbacks, NEW i \in Epics,
           \/ HandleSubscription(g, i) \/ HandleUpdate(g, i)
           \/ HandleSubscriptionError(g, i) \/ HandleUnsubscription(g, i)
    PROVE  IgInv'
  <1>1. Sent(g, i)
    BY DEF Sent, HandleSubscription, HandleUpdate, HandleSubscriptionError, HandleUnsubscription
  <1>2. /\ UNCHANGED <<live, universe>> /\ faults' \in Nat /\ link' \in Link
        /\ g = 0 => link' = link /\ heard' = heard
    BY <1>1, SentTypes
  <1>3. CASE Ignored(g) /\ Nothing
    BY <1>2, <1>3, UnheardKeeps
  <1>4. CASE ~Ignored(g)
    <2>0. Acting /\ g # 0
      BY <1>4, ActingHolds
    <2> USE <2>0
    <2>1. CASE HandleSubscription(g, i) \/ HandleUpdate(g, i)
      <3>1. PICK c \in Channel :
              /\ MarkReadyIfComplete(c)
              /\ c.updated \subseteq heard' /\ c.hbCur = chan.hbCur
              /\ c.subscribed \subseteq link'.acked /\ c.hbSub = chan.hbSub
              /\ HB \in heard => HB \in heard'
              /\ link.acked \subseteq link'.acked
              /\ heard \subseteq heard' \/ (i \notin link.acked /\ i \in conn.expected)
        <4>1. CASE HandleSubscription(g, i)
          <5> DEFINE c == [chan EXCEPT !.subscribed = @ \cup {i}, !.updated = @ \ {i}]
          <5>1. MarkReadyIfComplete(c) /\ SendAcknowledgement(g, i)
            BY <1>4, <4>1 DEF HandleSubscription
          <5>2. /\ link'.acked = link.acked \cup {i} /\ heard' = heard \ {i}
                /\ i \notin link.acked
            BY <5>1, SentEffects DEF Acting
          <5>3. i \in conn.expected
            BY <5>1 DEF SendAcknowledgement, Pending, Sends, Acting
          <5>4. /\ c \in Channel /\ c.updated = chan.updated \ {i} /\ c.hbCur = chan.hbCur
                /\ c.subscribed = chan.subscribed \cup {i} /\ c.hbSub = chan.hbSub
            BY DEF Acting, Channel
          <5> HIDE DEF c
          <5>5. c.updated \subseteq heard' /\ c.subscribed \subseteq link'.acked
                /\ (HB \in heard => HB \in heard') /\ link.acked \subseteq link'.acked
            BY <5>2, <5>4 DEF Acting
          <5> QED
            BY <5>1, <5>2, <5>3, <5>4, <5>5
        <4>2. CASE HandleUpdate(g, i)
          <5> DEFINE c == [chan EXCEPT !.updated = @ \cup {i}]
          <5>1. MarkReadyIfComplete(c) /\ SendUpdate(g, i)
            BY <1>4, <4>2 DEF HandleUpdate
          <5>2. link'.acked = link.acked /\ heard' = heard \cup {i}
            BY <5>1, SentEffects DEF Acting
          <5>3. /\ c \in Channel /\ c.updated = chan.updated \cup {i} /\ c.hbCur = chan.hbCur
                /\ c.subscribed = chan.subscribed /\ c.hbSub = chan.hbSub
            BY DEF Acting, Channel
          <5> HIDE DEF c
          <5>4. c.updated \subseteq heard' /\ c.subscribed \subseteq link'.acked
                /\ (HB \in heard => HB \in heard') /\ link.acked \subseteq link'.acked
                /\ heard \subseteq heard'
            BY <5>2, <5>3 DEF Acting
          <5> QED
            BY <5>1, <5>3, <5>4
        <4> QED
          BY <2>1, <4>1, <4>2
      <3>2. /\ ControlInv' /\ SameClient /\ chan' = c
            /\ conn'.state = conn.state \/ Complete(c)
            /\ ready' = ready \/ ready' = [ready EXCEPT !.set = TRUE]
        BY <1>2, <3>1, MarkKeeps DEF IgInv, Acting
      <3>3. EvidenceStep
        BY <3>1, <3>2 DEF EvidenceStep, Acting
      <3> QED
        BY <1>2, <3>2, <3>3, HandledKeeps DEF Acting
    <2>2. CASE HandleSubscriptionError(g, i)
      <3>1. SendRefusal(g, i) /\ chan' = chan
            /\ \/ ReadinessError
               \/ ScheduleReconnect([conn EXCEPT !.state = "DEGRADED"]) /\ ready' = ready
        BY <1>4, <2>2 DEF HandleSubscriptionError
      <3>2. link'.acked = link.acked /\ heard' = heard
        BY <3>1, SentEffects DEF Acting
      <3>3. [conn EXCEPT !.state = "DEGRADED"].state = "DEGRADED"
        BY DEF Acting, Connection
      <3>4. ControlInv' /\ SameClient /\ conn'.state = "DEGRADED"
            /\ ready' \in [set : BOOLEAN, error : BOOLEAN]
        <4>1. CASE ReadinessError
          BY <1>2, <4>1, ErrorKeeps DEF IgInv, Acting
        <4>2. CASE ScheduleReconnect([conn EXCEPT !.state = "DEGRADED"]) /\ ready' = ready
          BY <1>2, <3>3, <4>2, ScheduleKeeps DEF IgInv, Acting
        <4> QED
          BY <3>1, <4>1, <4>2
      <3>5. EvidenceStep
        BY <3>1, <3>2, <3>4 DEF EvidenceStep, Acting
      <3> QED
        BY <1>2, <3>4, <3>5, HandledKeeps DEF Acting
    <2>3. CASE HandleUnsubscription(g, i)
      <3>1. /\ SendEnd(g, i)
            /\ chan' = [chan EXCEPT !.subscribed = @ \ {i}, !.updated = @ \ {i}]
            /\ conn' = [conn EXCEPT !.state = "DEGRADED"] /\ ready' = ready /\ task' = task
        BY <1>4, <2>3 DEF HandleUnsubscription, Ignored
      <3>2. link'.acked = link.acked \ {i} /\ heard' = heard
        BY <3>1, SentEffects DEF Acting
      <3>3. /\ chan' \in Channel
            /\ chan'.updated = chan.updated \ {i} /\ chan'.hbCur = chan.hbCur
            /\ chan'.subscribed = chan.subscribed \ {i} /\ chan'.hbSub = chan.hbSub
        BY <3>1 DEF Acting, Channel
      <3>4. ControlInv' /\ SameClient /\ conn'.state = "DEGRADED"
        BY <1>2, <3>1, DegradedKeeps DEF IgInv, Acting
      <3>5. EvidenceStep
        BY <3>2, <3>3, <3>4 DEF EvidenceStep, Acting
      <3> QED
        BY <1>2, <3>1, <3>4, <3>5, HandledKeeps DEF Acting
    <2> QED
      BY <2>1, <2>2, <2>3
  <1>5. CASE Ignored(g) /\ ~Nothing
    <2>1. /\ g = conn.generation /\ conn.stopping
          /\ chan' = [chan EXCEPT !.subscribed = @ \ {i}, !.updated = @ \ {i}]
          /\ UNCHANGED <<conn, ready, task>>
      <3>1. HandleUnsubscription(g, i) /\ g = conn.generation
        BY <1>5 DEF HandleSubscription, HandleUpdate, HandleSubscriptionError,
           HandleUnsubscription
      <3> QED
        BY <1>5, <3>1 DEF Ignored, HandleUnsubscription
    <2>2. chan' \in Channel
      BY <2>1 DEF IgInv, DataTypeOK, Channel
    <2>3. ~Current /\ ~Current'
      BY <2>1 DEF Current
    <2> QED
      BY <1>2, <2>1, <2>2, <2>3 DEF IgInv, ControlInv, CallerHeld, LifeHeld, StopHeld, ClientHeld,
         DataTypeOK, EvidenceHeld
  <1> QED
    BY <1>3, <1>4, <1>5

LEMMA KeepHeartbeat ==
    ASSUME IgInv, NEW g \in Callbacks,
           \/ HandleHeartbeatSubscription(g) \/ HandleHeartbeatUnsubscription(g)
           \/ HandleHeartbeatSubscriptionError(g) \/ HandleHeartbeat(g)
    PROVE  IgInv'
  <1>1. Sent(g, HB)
    BY DEF Sent, HandleHeartbeatSubscription, HandleHeartbeatUnsubscription,
       HandleHeartbeatSubscriptionError, HandleHeartbeat
  <1>2. /\ UNCHANGED <<live, universe>> /\ faults' \in Nat /\ link' \in Link
        /\ g = 0 => link' = link /\ heard' = heard
    BY <1>1, SentTypes
  <1>3. CASE Ignored(g)
    <2>1. Nothing
      BY <1>3 DEF HandleHeartbeatSubscription, HandleHeartbeatUnsubscription,
         HandleHeartbeatSubscriptionError, HandleHeartbeat
    <2> QED
      BY <1>2, <1>3, <2>1, UnheardKeeps
  <1>4. CASE ~Ignored(g)
    <2>0. Acting /\ g # 0
      BY <1>4, ActingHolds
    <2> USE <2>0
    <2>1. CASE HandleHeartbeatSubscription(g)
      <3>1. /\ SendAcknowledgement(g, HB) /\ UNCHANGED <<conn, ready, task>>
            /\ chan' = [chan EXCEPT !.hbSub = TRUE, !.hbCur = FALSE, !.hbAt = "None"]
        BY <1>4, <2>1 DEF HandleHeartbeatSubscription
      <3>2. /\ link'.acked = link.acked \cup {HB} /\ heard' = heard \ {HB}
            /\ HB \notin link.acked
        BY <3>1, SentEffects DEF Acting
      <3>3. /\ chan' \in Channel /\ chan'.updated = chan.updated /\ ~chan'.hbCur
            /\ chan'.subscribed = chan.subscribed /\ HB \notin chan.updated
        BY <3>1 DEF Acting, Channel
      <3>4. ControlInv' /\ SameClient
        BY <1>2, <3>1 DEF IgInv, ControlInv, CallerHeld, LifeHeld, StopHeld, ClientHeld, SameClient
      <3>5. EvidenceStep
        BY <3>1, <3>2, <3>3 DEF EvidenceStep, Acting
      <3> QED
        BY <1>2, <3>1, <3>4, <3>5, HandledKeeps DEF Acting
    <2>2. CASE HandleHeartbeatUnsubscription(g)
      <3>1. /\ SendEnd(g, HB) /\ conn' = [conn EXCEPT !.state = "DEGRADED"]
            /\ ready' = ready /\ task' = task
            /\ chan' = [chan EXCEPT !.hbSub = FALSE, !.hbCur = FALSE, !.hbAt = "None"]
        BY <1>4, <2>2 DEF HandleHeartbeatUnsubscription
      <3>2. link'.acked = link.acked \ {HB} /\ heard' = heard
        BY <3>1, SentEffects DEF Acting
      <3>3. /\ chan' \in Channel /\ chan'.updated = chan.updated /\ ~chan'.hbCur /\ ~chan'.hbSub
            /\ chan'.subscribed = chan.subscribed /\ HB \notin chan.subscribed
        BY <3>1 DEF Acting, Channel
      <3>4. ControlInv' /\ SameClient /\ conn'.state = "DEGRADED"
        BY <1>2, <3>1, DegradedKeeps DEF IgInv, Acting
      <3>5. EvidenceStep
        BY <3>2, <3>3, <3>4 DEF EvidenceStep, Acting
      <3> QED
        BY <1>2, <3>1, <3>4, <3>5, HandledKeeps DEF Acting
    <2>3. CASE HandleHeartbeatSubscriptionError(g)
      <3>1. /\ SendRefusal(g, HB) /\ ReadinessError
            /\ chan' = [chan EXCEPT !.hbSub = FALSE, !.hbCur = FALSE]
        BY <1>4, <2>3 DEF HandleHeartbeatSubscriptionError
      <3>2. link'.acked = link.acked /\ heard' = heard
        BY <3>1, SentEffects DEF Acting
      <3>3. /\ chan' \in Channel /\ chan'.updated = chan.updated /\ ~chan'.hbCur /\ ~chan'.hbSub
            /\ chan'.subscribed = chan.subscribed
        BY <3>1 DEF Acting, Channel
      <3>4. ControlInv' /\ SameClient /\ conn'.state = "DEGRADED"
            /\ ready' \in [set : BOOLEAN, error : BOOLEAN]
        BY <1>2, <3>1, ErrorKeeps DEF IgInv, Acting
      <3>5. EvidenceStep
        BY <3>2, <3>3, <3>4 DEF EvidenceStep, Acting
      <3> QED
        BY <1>2, <3>4, <3>5, HandledKeeps DEF Acting
    <2>4. CASE HandleHeartbeat(g)
      <3> DEFINE c == [chan EXCEPT !.hbAt = "Current", !.hbCur = TRUE]
      <3>1. SendUpdate(g, HB) /\ MarkReadyIfComplete(c)
        BY <1>4, <2>4 DEF HandleHeartbeat
      <3>2. link'.acked = link.acked /\ heard' = heard \cup {HB}
        BY <3>1, SentEffects DEF Acting
      <3>3. /\ c \in Channel /\ c.updated = chan.updated /\ c.hbSub = chan.hbSub
            /\ c.subscribed = chan.subscribed
        BY DEF Acting, Channel
      <3> HIDE DEF c
      <3>4. /\ ControlInv' /\ SameClient /\ chan' = c
            /\ conn'.state = conn.state \/ Complete(c)
            /\ ready' = ready \/ ready' = [ready EXCEPT !.set = TRUE]
        BY <1>2, <3>1, MarkKeeps DEF IgInv, Acting
      <3>5. EvidenceStep
        BY <3>2, <3>3, <3>4 DEF EvidenceStep, Acting
      <3> QED
        BY <1>2, <3>4, <3>5, HandledKeeps DEF Acting
    <2> QED
      BY <2>1, <2>2, <2>3, <2>4
  <1> QED
    BY <1>3, <1>4

----------------------------------------------------------------------------
(* Opening and closing.                                                    *)

LEMMA OpenKeeps ==
    ASSUME IgInv, NEW t \in Names, NEW op, NEW k \in Connection, OpenBegin(t, op, k),
           k.generation = conn.generation, k.client = conn.client,
           k.stopping = conn.stopping, k.reconnecting = conn.reconnecting,
           \/ t = "caller" /\ op = "subscribe" /\ task["caller"].op = "none"
           \/ t = "life" /\ op = task["life"].op /\ op # "none"
    PROVE  IgInv'
  <1> DEFINE g == k.generation + 1
             ts == EventReplaced(task)
             r == [ts[t] EXCEPT !.op = op, !.pc = "connect", !.gen = g]
  <1>0. ControlInv /\ DataTypeOK
    BY DEF IgInv
  <1>1. SameTasks(ts)
    BY <1>0, EventsMoveNobody DEF ControlInv
  <1>2. g \in Nat /\ g > 0 /\ g # 0 /\ conn.client = 0 /\ live = {}
    BY <1>0 DEF Connection, OpenBegin, ControlInv, ClientHeld
  <1>3. conn' = [k EXCEPT !.generation = g, !.client = g, !.expected = k.desired,
                          !.state = "CONNECTING"]
        /\ task' = [ts EXCEPT ![t].op = op, ![t].pc = "connect", ![t].gen = g]
        /\ live' = live \cup {g}
    BY DEF OpenBegin
  <1>4. /\ conn' \in Connection /\ conn'.generation = g /\ conn'.client = g
        /\ conn'.state = "CONNECTING" /\ conn'.stopping = conn.stopping
        /\ conn'.reconnecting = conn.reconnecting
    BY <1>2, <1>3 DEF Connection, States
  <1> HIDE DEF g
  <1>5. op \in {"subscribe", "reconnect", "replace", "rollback"}
    BY <1>0 DEF ControlInv, LifeHeld
  <1>6. task' = [ts EXCEPT ![t] = r]
    BY <1>3
  <1>7. r \in Task /\ r.op = op /\ r.pc = "connect"
    BY <1>1, <1>2, <1>5 DEF SameTasks, Task, Opening
  <1>8. /\ task' \in [Names -> Task] /\ task'[t].op = op /\ task'[t].pc = "connect"
        /\ \A u \in Names \ {t} : task'[u] = ts[u]
    BY <1>1, <1>6, <1>7 DEF SameTasks
  <1> HIDE DEF r, ts
  <1>9. ControlInv'
    <2>1. ~conn.stopping
      BY <1>0 DEF ControlInv, StopHeld, Idle
    <2>2. CASE t = "caller"
      <3>1. /\ task'["caller"].op = "subscribe" /\ task'["caller"].pc = "connect"
            /\ task'["life"] = Idle /\ task["life"] = Idle
        BY <1>0, <1>1, <1>8, <2>2 DEF ControlInv, ClientHeld, SameTasks, Names
      <3>2. live' \subseteq {conn'.client} \ {0}
        BY <1>2, <1>3, <1>4
      <3> QED
        BY <1>0, <1>2, <1>4, <1>8, <2>1, <3>1, <3>2 DEF ControlInv, CallerHeld, LifeHeld, StopHeld,
           ClientHeld, Names, Idle, Opening
    <2>3. CASE t = "life"
      BY <1>0, <1>1, <1>2, <1>3, <1>4, <1>5, <1>8, <2>1, <2>3
         DEF ControlInv, SameTasks, CallerHeld, LifeHeld,
         StopHeld, ClientHeld, Names, Idle, Opening
    <2> QED
      BY <2>2, <2>3 DEF Names
  <1>10. DataTypeOK'
    BY <1>0 DEF DataTypeOK, OpenBegin, NoEvidence, Channel, NoLink, Link, NoFault
  <1>11. EvidenceHeld'
    BY <1>4 DEF OpenBegin, NoEvidence, EvidenceHeld, Current
  <1> QED
    BY <1>9, <1>10, <1>11 DEF IgInv

LEMMA CloseBeginKeeps ==
    ASSUME IgInv, NEW t \in Names, CloseBegin(t),
           \/ t = "caller" /\ task["caller"].op = "disconnect"
           \/ t = "life" /\ task["life"].op # "none"
    PROVE  IgInv'
  <1> DEFINE g == IF conn.client # 0 THEN conn.generation + 1 ELSE conn.generation
             r == [task[t] EXCEPT !.pc = "closing", !.gen = conn.client]
  <1>0. ControlInv /\ DataTypeOK
    BY DEF IgInv
  <1>1. task["caller"].op # "none" /\ (t = "life" => ~conn.stopping)
    BY <1>0 DEF ControlInv, ClientHeld, StopHeld, Idle
  <1>2. g \in Nat /\ g > 0 /\ conn.client < g
    BY <1>0, <1>1 DEF ControlInv, ClientHeld, Connection
  <1>3. conn' = [conn EXCEPT !.generation = g, !.watchdog = 0]
    BY DEF CloseBegin
  <1> HIDE DEF g
  <1>4. /\ conn' \in Connection /\ conn'.generation = g /\ conn'.client = conn.client
        /\ conn'.state = conn.state /\ conn'.stopping = conn.stopping /\ conn'.watchdog = 0
        /\ conn'.reconnecting = conn.reconnecting
    BY <1>0, <1>2, <1>3 DEF Connection, ControlInv
  <1>5. task' = [task EXCEPT ![t] = r]
    BY DEF CloseBegin
  <1>6. r \in Task /\ r.op = task[t].op /\ r.pc = "closing" /\ r.gen = conn.client
    BY <1>0 DEF ControlInv, Connection, Task
  <1> HIDE DEF r
  <1>7. /\ task' \in [Names -> Task] /\ task'[t] = r
        /\ \A u \in Names \ {t} : task'[u] = task[u]
    BY <1>0, <1>5, <1>6 DEF ControlInv
  <1>8. ControlInv'
    <2>1. live' = live
      BY DEF CloseBegin
    <2>2. CASE t = "caller"
      BY <1>0, <1>1, <1>2, <1>4, <1>6, <1>7, <2>1, <2>2 DEF ControlInv, CallerHeld, LifeHeld,
         StopHeld, ClientHeld, Names, Idle, Connection
    <2>3. CASE t = "life"
      BY <1>0, <1>1, <1>2, <1>4, <1>6, <1>7, <2>1, <2>3 DEF ControlInv, CallerHeld, LifeHeld,
         StopHeld, ClientHeld, Names, Idle, Connection
    <2> QED
      BY <2>2, <2>3 DEF Names
  <1>9. DataTypeOK'
    BY <1>0 DEF DataTypeOK, CloseBegin, Channel, NoFault
  <1>10. EvidenceHeld'
    BY <1>0, <1>2, <1>4 DEF EvidenceHeld, Current, ControlInv, Connection
  <1> QED
    BY <1>8, <1>9, <1>10 DEF IgInv

LEMMA ClosedKeeps ==
    ASSUME IgInv, NEW t \in Names, NEW pc, NEW k \in Connection, Closed(t, k, pc),
           task[t].pc = "closing",
           k.generation = conn.generation, k.state = conn.state, k.watchdog = conn.watchdog,
           k.stopping = conn.stopping, k.reconnecting = conn.reconnecting,
           \/ t = "caller" /\ pc = "logout" /\ task["caller"].op = "disconnect"
           \/ t = "life" /\ pc \in {"auth", "swap"} /\ task["life"].op # "none"
    PROVE  IgInv'
  <1> DEFINE ts == EventReplaced(task)
             r == [ts[t] EXCEPT !.pc = pc, !.prev = conn.desired]
  <1>0. ControlInv /\ DataTypeOK
    BY DEF IgInv
  <1>1. SameTasks(ts)
    BY <1>0, EventsMoveNobody DEF ControlInv
  <1>2. /\ task["caller"].op # "none" /\ (t = "life" => ~conn.stopping)
        /\ live' = {} /\ conn.generation > 0
    BY <1>0 DEF ControlInv, ClientHeld, StopHeld, Idle, Closed
  <1>3. /\ conn' \in Connection /\ conn'.generation = conn.generation /\ conn'.client = 0
        /\ conn'.state = conn.state /\ conn'.stopping = conn.stopping
        /\ conn'.watchdog = conn.watchdog /\ conn'.reconnecting = conn.reconnecting
    BY DEF Connection, Closed
  <1>4. task' = [ts EXCEPT ![t] = r]
    BY DEF Closed
  <1>5. r \in Task /\ r.op = task[t].op /\ r.pc = pc
    <2>1. conn.desired \in SUBSET Epics
      BY <1>0 DEF ControlInv, Connection
    <2> QED
      BY <1>1, <2>1 DEF SameTasks, Task
  <1> HIDE DEF r, ts
  <1>6. /\ task' \in [Names -> Task] /\ task'[t] = r
        /\ \A u \in Names \ {t} : task'[u] = ts[u]
    BY <1>1, <1>4, <1>5 DEF SameTasks
  <1>7. ControlInv'
    <2>1. CASE t = "caller"
      BY <1>0, <1>1, <1>2, <1>3, <1>5, <1>6, <2>1 DEF ControlInv, SameTasks, CallerHeld,
         LifeHeld, StopHeld, ClientHeld, Names, Idle, Connection
    <2>2. CASE t = "life"
      <3>1. /\ task'["life"].op = task["life"].op /\ task'["life"].pc # "closing"
            /\ task'["caller"].op = task["caller"].op /\ task'["caller"].pc = task["caller"].pc
            /\ task["life"].op # "none" /\ ~conn.stopping
        BY <1>1, <1>2, <1>5, <1>6, <2>2 DEF SameTasks, Names
      <3>2. task["caller"].pc \notin {"closing", "logout"}
        BY <1>0, <3>1 DEF ControlInv, CallerHeld, StopHeld, Opening
      <3> QED
        BY <1>0, <1>2, <1>3, <1>6, <3>1, <3>2 DEF ControlInv, CallerHeld, LifeHeld, StopHeld,
           ClientHeld, Names, Connection
    <2> QED
      BY <2>1, <2>2 DEF Names
  <1>8. DataTypeOK'
    BY <1>0 DEF DataTypeOK, Closed, NoEvidence, Channel, NoLink, Link, NoFault
  <1>9. EvidenceHeld'
    BY <1>2, <1>3 DEF EvidenceHeld, Current
  <1> QED
    BY <1>7, <1>8, <1>9 DEF IgInv

----------------------------------------------------------------------------
(* The steps that change neither the client nor its evidence.              *)

\* The connection keeps its client, and READY is not gained.
Quiet ==
    /\ conn'.client = conn.client /\ conn'.generation = conn.generation
    /\ conn'.expected = conn.expected
    /\ conn.stopping => conn'.stopping
    /\ conn'.state = "READY" => conn.state = "READY"
    /\ UNCHANGED <<chan, ready, link, heard>>
    /\ universe' \in SUBSET Epics /\ faults' \in Nat

LEMMA QuietKeeps ==
    ASSUME IgInv, ControlInv', Quiet
    PROVE  IgInv'
  BY DEF IgInv, Quiet, DataTypeOK, EvidenceHeld, Current

\* The coroutine that holds _reconnecting takes a step that is no open or close.
LEMMA LifeMoves ==
    ASSUME IgInv, NEW r \in Task, task' = [task EXCEPT !["life"] = r],
           conn' \in Connection, SameClient, live' = live,
           ~conn.stopping, task["caller"].op # "none",
           conn'.state \in {conn.state, "AUTHENTICATED", "SUBSCRIBING", "BACKING_OFF", "FAILED"},
           r.op \in {"none", "reconnect", "replace", "rollback"}, r.pc # "closing",
           r.op = "none" => r = Idle, conn'.reconnecting <=> r.op # "none",
           UNCHANGED <<chan, ready, link, heard>>, universe' \in SUBSET Epics, faults' \in Nat
    PROVE  IgInv'
  <1>0. ControlInv
    BY DEF IgInv
  <1>1. task' \in [Names -> Task] /\ task'["life"] = r /\ task'["caller"] = task["caller"]
    BY <1>0 DEF ControlInv, Names
  <1>2. ControlInv'
    BY <1>0, <1>1 DEF ControlInv, SameClient, CallerHeld, LifeHeld, StopHeld, ClientHeld, Names,
       Opening
  <1> QED
    BY <1>2, QuietKeeps DEF Quiet, SameClient

\* The caller takes a step that is no open or close.
LEMMA CallerMoves ==
    ASSUME IgInv, NEW r \in Task, task' = [task EXCEPT !["caller"] = r],
           conn' \in Connection, SameClient, live' = live,
           ~conn.stopping, task["caller"].op # "none",
           conn'.state \in {conn.state, "SUBSCRIBING"}, conn'.reconnecting = conn.reconnecting,
           \/ r.op = "subscribe" /\ r.pc \in Opening
           \/ r.op \in {"run", "leave"} /\ r.pc = "none",
           UNCHANGED <<chan, ready, link, heard>>, universe' \in SUBSET Epics, faults' \in Nat
    PROVE  IgInv'
  <1>0. ControlInv
    BY DEF IgInv
  <1>1. task' \in [Names -> Task] /\ task'["caller"] = r /\ task'["life"] = task["life"]
    BY <1>0 DEF ControlInv, Names
  <1>2. ControlInv'
    BY <1>0, <1>1 DEF ControlInv, SameClient, CallerHeld, LifeHeld, StopHeld, ClientHeld, Names,
       Opening
  <1> QED
    BY <1>2, QuietKeeps DEF Quiet, SameClient

\* A coroutine that runs is one of a caller that has not begun to stop.
LEMMA Runs ==
    ASSUME IgInv
    PROVE  /\ \A t \in Names : task[t].pc \in Opening =>
                ~conn.stopping /\ task["caller"].op # "none" /\ task[t].op # "none"
                /\ (t = "caller" => task[t].op = "subscribe")
           /\ task["life"].op # "none" => ~conn.stopping /\ task["caller"].op # "none"
           /\ task["caller"].op \in {"subscribe", "run", "leave"} => ~conn.stopping
           /\ conn \in Connection /\ task \in [Names -> Task] /\ faults \in Nat
           /\ universe \in SUBSET Epics
  BY DEF IgInv, ControlInv, DataTypeOK, StopHeld, ClientHeld, CallerHeld, LifeHeld, Names, Idle,
     Opening

\* Every step takes at most one of the faults that are left.
LEMMA FaultCounts ==
    ASSUME faults \in Nat, NoFault \/ Fault
    PROVE  faults' \in Nat
  BY DEF NoFault, Fault

LEMMA KeepSubscribing ==
    ASSUME IgInv, Subscribing
    PROVE  IgInv'
  <1> USE Runs
  <1>1. CASE Subscribe
    <2> DEFINE k == [conn EXCEPT !.desired = FirstUniverse]
    <2>1. OpenBegin("caller", "subscribe", k) /\ task["caller"].op = "none"
      BY <1>1 DEF Subscribe
    <2>2. /\ k \in Connection /\ k.generation = conn.generation /\ k.client = conn.client
          /\ k.stopping = conn.stopping /\ k.reconnecting = conn.reconnecting
      BY IgAssumption DEF Connection, Epics
    <2> HIDE DEF k
    <2> QED
      BY <2>1, <2>2, OpenKeeps DEF Names
  <1>2. CASE SubscribeOk \/ SubscribeError
    <2>1. /\ \E op \in {"run", "leave"} : task' = [task EXCEPT !["caller"] = [Idle EXCEPT !.op = op]]
          /\ task["caller"].op = "subscribe" /\ (NoFault \/ Fault)
          /\ UNCHANGED <<conn, chan, ready, link, live, heard, universe>>
      BY <1>2 DEF SubscribeOk, SubscribeError, OpenOk, OpenError
    <2>2. PICK r \in Task : /\ task' = [task EXCEPT !["caller"] = r]
                            /\ r.op \in {"run", "leave"} /\ r.pc = "none"
      <3>1. \A op \in {"run", "leave"} : LET r == [Idle EXCEPT !.op = op]
                                         IN  r \in Task /\ r.op = op /\ r.pc = "none"
        BY DEF Idle, Task
      <3> QED
        BY <2>1, <3>1
    <2>3. faults' \in Nat
      BY <2>1, FaultCounts
    <2>4. SameClient
      BY <2>1 DEF SameClient
    <2>5. ~conn.stopping
      BY <2>1
    <2> QED
      BY <2>1, <2>2, <2>3, <2>4, <2>5, CallerMoves
  <1>3. ASSUME NEW t \in DOMAIN task, Connected(t) \/ Subscribed(t) PROVE IgInv'
    <2>0. t \in Names /\ task[t] \in Task /\ task[t].pc \in Opening
      BY <1>3 DEF Connected, Subscribed, Opening
    <2>1. PICK r \in Task : /\ task' = [task EXCEPT ![t] = r] /\ r.op = task[t].op
                            /\ r.pc \in {"subscribe", "ready"}
      <3>1. CASE Connected(t)
        <4> DEFINE r == [task[t] EXCEPT !.pc = "subscribe"]
        <4>1. task' = [task EXCEPT ![t] = r]
          BY <3>1 DEF Connected
        <4>2. r \in Task /\ r.op = task[t].op /\ r.pc = "subscribe"
          BY <2>0 DEF Task, Opening
        <4> QED
          BY <4>1, <4>2
      <3>2. CASE Subscribed(t)
        <4> DEFINE e == IF ready.set THEN "woken" ELSE "current"
                   r == [task[t] EXCEPT !.pc = "ready", !.evt = e]
        <4>1. task' = [task EXCEPT ![t] = r]
          BY <3>2 DEF Subscribed
        <4>2. e \in {"woken", "current"}
          OBVIOUS
        <4> HIDE DEF e
        <4>3. r \in Task /\ r.op = task[t].op /\ r.pc = "ready"
          BY <2>0, <4>2 DEF Task, Opening
        <4> QED
          BY <4>1, <4>3
      <3> QED
        BY <1>3, <3>1, <3>2
    <2>2. /\ UNCHANGED <<chan, ready, link, live, heard, universe>> /\ NoFault
          /\ conn' = conn \/ conn' = [conn EXCEPT !.state = "SUBSCRIBING"]
      BY <1>3 DEF Connected, Subscribed
    <2>3. conn' \in Connection /\ SameClient /\ conn'.state \in {conn.state, "SUBSCRIBING"}
          /\ conn'.reconnecting = conn.reconnecting
      BY <2>2 DEF Connection, SameClient, States
    <2>4. faults' \in Nat
      BY <2>2, FaultCounts
    <2>5. ~conn.stopping /\ task["caller"].op # "none" /\ task[t].op # "none"
      BY <2>0
    <2>6. CASE t = "caller"
      <3>1. r.op = "subscribe"
        BY <2>0, <2>1, <2>6
      <3> QED
        BY <2>1, <2>2, <2>3, <2>4, <2>5, <2>6, <3>1, CallerMoves DEF Opening
    <2>7. CASE t = "life"
      <3>1. /\ r.op \in {"reconnect", "replace", "rollback"} /\ r.pc # "closing"
            /\ conn'.reconnecting <=> r.op # "none"
        BY <2>1, <2>3, <2>5, <2>7 DEF IgInv, ControlInv, LifeHeld
      <3> QED
        BY <2>1, <2>2, <2>3, <2>4, <2>5, <2>7, <3>1, LifeMoves
    <2> QED
      BY <2>0, <2>6, <2>7 DEF Names
  <1> QED
    BY <1>1, <1>2, <1>3 DEF Subscribing

\* The flag is released: LifeDone of the finally clauses.
LEMMA DoneKeeps ==
    ASSUME IgInv, task["life"].op # "none", NEW k \in Connection, LifeDone(k),
           k.client = conn.client, k.generation = conn.generation, k.expected = conn.expected,
           k.stopping = conn.stopping, k.state \in {conn.state, "FAILED"}, live' = live,
           UNCHANGED <<chan, ready, link, heard>>, universe' \in SUBSET Epics, faults' \in Nat
    PROVE  IgInv'
  <1>1. Idle \in Task /\ Idle.op = "none" /\ Idle.pc = "none"
    BY DEF Idle, Task
  <1>2. /\ conn' \in Connection /\ SameClient /\ ~conn'.reconnecting
        /\ conn'.state \in {conn.state, "FAILED"}
    BY DEF LifeDone, Connection, SameClient
  <1>3. task' = [task EXCEPT !["life"] = Idle]
    BY DEF LifeDone
  <1> QED
    BY <1>1, <1>2, <1>3, Runs, LifeMoves

\* The coroutine that holds _reconnecting starts or restarts at r.
LEMMA RestartKeeps ==
    ASSUME IgInv, NEW r \in Task, task' = [task EXCEPT !["life"] = r],
           r.op \in {"reconnect", "replace", "rollback"}, r.pc \in {"close", "sleep", "open"},
           ~conn.stopping, task["caller"].op # "none",
           conn' \in Connection, SameClient, conn'.reconnecting, live' = live,
           conn'.state \in {conn.state, "AUTHENTICATED", "BACKING_OFF"},
           UNCHANGED <<chan, ready, link, heard>>, universe' \in SUBSET Epics, faults' \in Nat
    PROVE  IgInv'
  BY LifeMoves

LEMMA KeepReconnect ==
    ASSUME IgInv, Reconnect
    PROVE  IgInv'
  <1> USE Runs
  <1>0. /\ task["life"].op = "reconnect" /\ ~conn.stopping /\ task["caller"].op # "none"
        /\ conn.reconnecting
    <2>1. task["life"].op = "reconnect"
      BY DEF Reconnect, ReconnectClose, ReconnectClosed, ReconnectAuthenticated, ReconnectOpen,
         ReconnectOk, ReconnectWake, ReconnectError, Reconnecting
    <2> QED
      BY <2>1 DEF IgInv, ControlInv, LifeHeld
  <1>1. CASE ReconnectClose
    BY <1>0, <1>1, CloseBeginKeeps DEF ReconnectClose, Names
  <1>2. CASE ReconnectClosed
    <2>1. Closed("life", conn, "auth") /\ task["life"].pc = "closing"
      BY <1>2 DEF ReconnectClosed, Reconnecting
    <2> QED
      BY <1>0, <2>1, ClosedKeeps DEF Names
  <1>3. CASE ReconnectOpen
    <2>1. OpenBegin("life", "reconnect", conn)
      BY <1>3 DEF ReconnectOpen
    <2> QED
      BY <1>0, <2>1, OpenKeeps DEF Names
  <1>4. CASE ReconnectOk
    <2> DEFINE k == [conn EXCEPT !.fatal = FALSE]
    <2>1. /\ LifeDone(k) /\ NoFault
          /\ UNCHANGED <<chan, ready, link, live, heard, universe>>
      BY <1>4 DEF ReconnectOk, OpenOk
    <2>2. /\ k \in Connection /\ k.client = conn.client /\ k.generation = conn.generation
          /\ k.expected = conn.expected /\ k.stopping = conn.stopping /\ k.state = conn.state
      BY DEF Connection
    <2> HIDE DEF k
    <2>3. faults' \in Nat
      BY <2>1, FaultCounts
    <2> QED
      BY <1>0, <2>1, <2>2, <2>3, DoneKeeps
  <1>5. CASE ReconnectAuthenticated \/ ReconnectWake
    <2>1. PICK r \in Task : /\ task' = [task EXCEPT !["life"] = r]
                            /\ r.op = "reconnect" /\ r.pc \in {"open", "close"}
      <3>1. \E pc \in {"open", "close"} :
              task' = [task EXCEPT !["life"] = [task["life"] EXCEPT !.pc = pc]]
        BY <1>5 DEF ReconnectAuthenticated, ReconnectWake
      <3>2. \A pc \in {"open", "close"} :
              LET r == [task["life"] EXCEPT !.pc = pc]
              IN  r \in Task /\ r.op = "reconnect" /\ r.pc = pc
        BY <1>0 DEF Task, Names
      <3> QED
        BY <3>1, <3>2
    <2>2. /\ conn' = conn \/ conn' = [conn EXCEPT !.state = "AUTHENTICATED"]
          /\ NoFault /\ UNCHANGED <<chan, ready, link, live, heard, universe>>
      BY <1>5 DEF ReconnectAuthenticated, ReconnectWake
    <2>3. /\ conn' \in Connection /\ SameClient /\ conn'.reconnecting
          /\ conn'.state \in {conn.state, "AUTHENTICATED"}
      BY <1>0, <2>2 DEF Connection, SameClient, States
    <2>4. faults' \in Nat
      BY <2>2, FaultCounts
    <2> QED
      BY <1>0, <2>1, <2>2, <2>3, <2>4, RestartKeeps
  <1>6. ASSUME NEW fatal \in BOOLEAN, ReconnectError(fatal) PROVE IgInv'
    <2> DEFINE r == [Idle EXCEPT !.op = "reconnect", !.pc = "sleep",
                                 !.tries = task["life"].tries + 1]
    <2>1. UNCHANGED <<chan, ready, link, live, heard, universe>> /\ faults' \in Nat
      <3>1. NoFault \/ Fault
        BY <1>6 DEF ReconnectError, OpenError, CloseRaises
      <3> QED
        BY <1>6, <3>1, FaultCounts DEF ReconnectError
    <2>2. \/ LifeDone([conn EXCEPT !.fatal = TRUE, !.state = "FAILED"])
          \/ /\ conn' = [conn EXCEPT !.state = "BACKING_OFF"]
             /\ task' = [task EXCEPT !["life"] = r]
      BY <1>6 DEF ReconnectError, AfterFailedClose
    <2>3. CASE LifeDone([conn EXCEPT !.fatal = TRUE, !.state = "FAILED"])
      <3> DEFINE k == [conn EXCEPT !.fatal = TRUE, !.state = "FAILED"]
      <3>1. /\ k \in Connection /\ k.client = conn.client /\ k.generation = conn.generation
            /\ k.expected = conn.expected /\ k.stopping = conn.stopping /\ k.state = "FAILED"
        BY DEF Connection, States
      <3>2. LifeDone(k)
        BY <2>3
      <3> HIDE DEF k
      <3> QED
        BY <1>0, <2>1, <3>1, <3>2, DoneKeeps
    <2>4. CASE /\ conn' = [conn EXCEPT !.state = "BACKING_OFF"]
               /\ task' = [task EXCEPT !["life"] = r]
      <3>1. task["life"].tries + 1 \in Nat
        BY DEF Task, Names
      <3>2. r \in Task /\ r.op = "reconnect" /\ r.pc = "sleep"
        BY <3>1 DEF Task, Idle
      <3> HIDE DEF r
      <3>3. /\ conn' \in Connection /\ SameClient /\ conn'.reconnecting
            /\ conn'.state = "BACKING_OFF"
        BY <1>0, <2>4 DEF Connection, SameClient, States
      <3> QED
        BY <1>0, <2>1, <2>4, <3>2, <3>3, RestartKeeps
    <2> QED
      BY <2>2, <2>3, <2>4
  <1> QED
    BY <1>1, <1>2, <1>3, <1>4, <1>5, <1>6 DEF Reconnect

LEMMA KeepReplacement ==
    ASSUME IgInv, Replacement
    PROVE  IgInv'
  <1> USE Runs
  <1>0. /\ task["life"].op \in {"replace", "rollback"} /\ ~conn.stopping
        /\ task["caller"].op # "none" /\ conn.reconnecting
    <2>1. task["life"].op \in {"replace", "rollback"}
      BY DEF Replacement, ReplaceClose, ReplaceClosed, ReplaceOpen, ReplaceOk, ReplaceError,
         RollbackDone, ReplaceCloseError, Replacing
    <2> QED
      BY <2>1 DEF IgInv, ControlInv, LifeHeld
  <1>1. CASE ReplaceClose
    BY <1>0, <1>1, CloseBeginKeeps DEF ReplaceClose, Names
  <1>2. CASE ReplaceClosed
    <2> DEFINE k == [conn EXCEPT !.desired = task["life"].prev]
    <2>1. Closed("life", k, "swap") /\ task["life"].pc = "closing"
      BY <1>2 DEF ReplaceClosed, Replacing
    <2>2. task["life"].prev \in SUBSET Epics
      BY DEF Task, Names
    <2>3. /\ k \in Connection /\ k.generation = conn.generation /\ k.state = conn.state
          /\ k.watchdog = conn.watchdog /\ k.stopping = conn.stopping
          /\ k.reconnecting = conn.reconnecting
      BY <2>2 DEF Connection
    <2> HIDE DEF k
    <2> QED
      BY <1>0, <2>1, <2>3, ClosedKeeps DEF Names
  <1>3. CASE ReplaceOpen
    <2>1. OpenBegin("life", task["life"].op, conn)
      BY <1>3 DEF ReplaceOpen
    <2> QED
      BY <1>0, <2>1, OpenKeeps DEF Names
  <1>4. CASE ReplaceOk \/ RollbackDone \/ ReplaceCloseError
    <2>1. /\ LifeDone(conn) /\ (NoFault \/ Fault)
          /\ UNCHANGED <<chan, ready, link, live, heard>>
          /\ universe' = universe \/ (universe' = conn.desired /\ ReplaceOk)
      BY <1>4 DEF ReplaceOk, RollbackDone, ReplaceCloseError, OpenOk, OpenError, CloseRaises,
         AfterFailedClose
    <2>2. faults' \in Nat
      BY <2>1, FaultCounts
    <2>3. universe' \in SUBSET Epics
      BY <2>1 DEF Connection
    <2> QED
      BY <1>0, <2>1, <2>2, <2>3, DoneKeeps
  <1>5. CASE ReplaceError
    <2> DEFINE r == [Idle EXCEPT !.op = "rollback", !.pc = "close",
                            !.prev = task["life"].prev]
    <2>1. /\ task' = [task EXCEPT !["life"] = r] /\ (NoFault \/ Fault)
          /\ UNCHANGED <<conn, chan, ready, link, live, heard, universe>>
      BY <1>5 DEF ReplaceError, OpenError
    <2>2. task["life"].prev \in SUBSET Epics
      BY DEF Task, Names
    <2>3. r \in Task /\ r.op = "rollback" /\ r.pc = "close"
      BY <2>2 DEF Task, Idle
    <2> HIDE DEF r
    <2>4. SameClient
      BY <2>1 DEF SameClient
    <2>5. faults' \in Nat
      BY <2>1, FaultCounts
    <2> QED
      BY <1>0, <2>1, <2>3, <2>4, <2>5, RestartKeeps
  <1> QED
    BY <1>1, <1>2, <1>3, <1>4, <1>5 DEF Replacement

LEMMA KeepStart ==
    ASSUME IgInv, ForceReconnect \/ \E u \in Universes : Replace(u)
    PROVE  IgInv'
  <1> USE Runs
  <1>1. PICK r \in Task : /\ task' = [task EXCEPT !["life"] = r]
                          /\ r.op \in {"reconnect", "replace"} /\ r.pc = "close"
    <2>1. CASE ForceReconnect
      <3> DEFINE r == [Idle EXCEPT !.op = "reconnect", !.pc = "close"]
      <3>1. task' = [task EXCEPT !["life"] = r]
        BY <2>1 DEF ForceReconnect
      <3>2. r \in Task /\ r.op = "reconnect" /\ r.pc = "close"
        BY DEF Task, Idle
      <3> HIDE DEF r
      <3> QED
        BY <3>1, <3>2
    <2>2. ASSUME NEW u \in Universes, Replace(u)
          PROVE  \E r \in Task : /\ task' = [task EXCEPT !["life"] = r]
                                 /\ r.op \in {"reconnect", "replace"} /\ r.pc = "close"
      <3> DEFINE r == [Idle EXCEPT !.op = "replace", !.pc = "close", !.prev = u]
      <3>1. task' = [task EXCEPT !["life"] = r]
        BY <2>2 DEF Replace
      <3>2. u \in SUBSET Epics
        BY DEF Epics
      <3>3. r \in Task /\ r.op = "replace" /\ r.pc = "close"
        BY <3>2 DEF Task, Idle
      <3> HIDE DEF r
      <3> QED
        BY <3>1, <3>3
    <2> QED
      BY <2>1, <2>2
  <1>2. /\ task["caller"].op = "run" /\ Fault
        /\ conn' = [conn EXCEPT !.reconnecting = TRUE]
        /\ UNCHANGED <<chan, ready, link, live, heard, universe>>
    BY DEF ForceReconnect, Replace
  <1>3. conn' \in Connection /\ SameClient /\ conn'.reconnecting /\ conn'.state = conn.state
    BY <1>2 DEF Connection, SameClient
  <1>4. faults' \in Nat
    BY <1>2, FaultCounts
  <1> QED
    BY <1>1, <1>2, <1>3, <1>4, RestartKeeps

LEMMA KeepTimers ==
    ASSUME IgInv, Timers
    PROVE  IgInv'
  <1> USE Runs
  <1>1. CASE Watchdog
    <2> DEFINE k == [conn EXCEPT !.watchdog = 0]
    <2>1. /\ NoFault /\ UNCHANGED <<chan, ready, link, live, heard, universe>>
          /\ conn.watchdog # 0
          /\ (ScheduleReconnect(k) /\ ~conn.stopping) \/ (conn' = k /\ task' = task)
      BY <1>1 DEF Watchdog
    <2>2. ~conn.stopping /\ task["caller"].op # "none"
      BY <2>1 DEF IgInv, ControlInv, StopHeld, ClientHeld
    <2>3. k.state = conn.state /\ k.client = conn.client /\ k.generation = conn.generation
          /\ k.expected = conn.expected /\ k.stopping = conn.stopping
          /\ k.reconnecting = conn.reconnecting /\ k \in Connection
      BY DEF Connection
    <2>4. ControlInv' /\ SameClient /\ conn'.state \in {conn.state, "DEGRADED"}
      <3>1. CASE ScheduleReconnect(k)
        BY <2>1, <2>2, <2>3, <3>1, ScheduleKeeps DEF IgInv
      <3>2. CASE conn' = k /\ task' = task
        <4> HIDE DEF k
        <4> QED
          BY <2>1, <2>2, <2>3, <3>2 DEF IgInv, ControlInv, SameClient, CallerHeld, LifeHeld,
             StopHeld, ClientHeld
      <3> QED
        BY <2>1, <3>1, <3>2
    <2>5. faults' \in Nat
      BY <2>1, FaultCounts
    <2> QED
      BY <2>1, <2>4, <2>5, QuietKeeps DEF Quiet, SameClient
  <1>2. CASE CheckStaleness
    <2> DEFINE k == [conn EXCEPT !.state = "DEGRADED"]
    <2>1. /\ NoFault /\ UNCHANGED <<chan, ready, link, live, heard, universe>>
          /\ task["caller"].op = "run"
          /\ ScheduleReconnect(k) \/ (conn' = k /\ task' = task)
      BY <1>2 DEF CheckStaleness
    <2>2. k.state = "DEGRADED"
      BY DEF Connection
    <2>3. ControlInv' /\ SameClient /\ conn'.state = "DEGRADED"
      <3>1. CASE ScheduleReconnect(k)
        BY <2>1, <2>2, <3>1, ScheduleKeeps DEF IgInv
      <3>2. CASE conn' = k /\ task' = task
        BY <2>1, <3>2, DegradedKeeps DEF IgInv
      <3> QED
        BY <2>1, <3>1, <3>2
    <2>4. faults' \in Nat
      BY <2>1, FaultCounts
    <2> QED
      BY <2>1, <2>3, <2>4, QuietKeeps DEF Quiet, SameClient
  <1>3. CASE RecordsRaise
    <2> DEFINE r == [task["caller"] EXCEPT !.op = "leave"]
    <2>1. /\ NoFault /\ UNCHANGED <<conn, chan, ready, link, live, heard, universe>>
          /\ task["caller"].op = "run" /\ task' = [task EXCEPT !["caller"] = r]
      BY <1>3 DEF RecordsRaise
    <2>2. r \in Task /\ r.op = "leave" /\ r.pc = "none"
      BY <2>1 DEF IgInv, ControlInv, CallerHeld, Task, Names
    <2> HIDE DEF r
    <2>3. SameClient
      BY <2>1 DEF SameClient
    <2>4. faults' \in Nat
      BY <2>1, FaultCounts
    <2> QED
      BY <2>1, <2>2, <2>3, <2>4, CallerMoves
  <1> QED
    BY <1>1, <1>2, <1>3 DEF Timers

LEMMA KeepProvider ==
    ASSUME IgInv, ProviderLost \/ ProviderRecovers \/ HeartbeatAges
    PROVE  IgInv'
  <1>1. UNCHANGED <<conn, ready, task, live, heard, universe>> /\ faults' \in Nat
    <2>1. UNCHANGED <<conn, ready, task, live, heard, universe>> /\ (NoFault \/ Fault)
      BY DEF ProviderLost, ProviderRecovers, HeartbeatAges
    <2> QED
      BY <2>1, Runs, FaultCounts
  <1>2. link' \in Link /\ link'.acked = link.acked
    BY DEF ProviderLost, ProviderRecovers, HeartbeatAges, IgInv, DataTypeOK, Link
  <1>3. /\ chan' \in Channel /\ chan'.updated = chan.updated /\ chan'.hbCur = chan.hbCur
        /\ chan'.subscribed = chan.subscribed /\ chan'.hbSub = chan.hbSub
    <2>1. chan' = chan \/ \E a \in {"Late", "Dead"} : chan' = [chan EXCEPT !.hbAt = a]
      BY DEF ProviderLost, ProviderRecovers, HeartbeatAges
    <2> QED
      BY <2>1 DEF IgInv, DataTypeOK, Channel
  <1>4. ControlInv'
    BY <1>1 DEF IgInv, ControlInv, CallerHeld, LifeHeld, StopHeld, ClientHeld
  <1>5. EvidenceHeld'
    BY <1>1, <1>2, <1>3 DEF IgInv, EvidenceHeld, Current
  <1> QED
    BY <1>1, <1>2, <1>3, <1>4, <1>5 DEF IgInv, DataTypeOK

LEMMA KeepDisconnectBegin ==
    ASSUME IgInv, DisconnectBegin
    PROVE  IgInv'
  <1> USE Runs
  <1> DEFINE c == [Idle EXCEPT !.op = "disconnect", !.pc = "drain"]
  <1>1. /\ conn' = [conn EXCEPT !.stopping = TRUE, !.state = "STOPPING", !.watchdog = 0,
                                !.reconnecting = FALSE]
        /\ task' = [caller |-> c, life |-> Idle]
        /\ NoFault /\ UNCHANGED <<chan, ready, link, live, heard, universe>>
        /\ task["caller"].op # "none"
    BY DEF DisconnectBegin
  <1>2. /\ conn' \in Connection /\ conn'.stopping /\ conn'.state = "STOPPING"
        /\ conn'.watchdog = 0 /\ ~conn'.reconnecting /\ conn'.client = conn.client
        /\ conn'.generation = conn.generation /\ conn'.expected = conn.expected
    BY <1>1 DEF Connection, States
  <1>3. Idle \in Task /\ c \in Task /\ c.op = "disconnect" /\ c.pc = "drain"
        /\ Idle.op = "none" /\ Idle.pc = "none"
    BY DEF Task, Idle
  <1> HIDE DEF c
  <1>4. task' \in [Names -> Task] /\ task'["caller"] = c /\ task'["life"] = Idle
    BY <1>1, <1>3 DEF Names
  <1>5. ControlInv'
    BY <1>1, <1>2, <1>3, <1>4 DEF IgInv, ControlInv, CallerHeld, LifeHeld, StopHeld, ClientHeld,
       Names
  <1>6. faults' \in Nat
    BY <1>1, FaultCounts
  <1> QED
    BY <1>1, <1>2, <1>5, <1>6, QuietKeeps DEF Quiet

\* The end of disconnect: STOPPED only after the close was confirmed.
LEMMA FinishedKeeps ==
    ASSUME IgInv, task["caller"].op = "disconnect", NEW ok \in BOOLEAN, Finished(conn, ok),
           ok => task["caller"].pc = "logout", faults' \in Nat
    PROVE  IgInv'
  <1> USE Runs
  <1> DEFINE c == [Idle EXCEPT !.op = "done"]
  <1>1. /\ task' = [task EXCEPT !["caller"] = c]
        /\ UNCHANGED <<chan, ready, link, live, heard, universe>>
    BY DEF Finished
  <1>2. /\ conn' \in Connection /\ conn'.stopping = conn.stopping
        /\ conn'.state = IF ok THEN "STOPPED" ELSE "FAILED"
        /\ conn'.watchdog = conn.watchdog /\ conn'.reconnecting = conn.reconnecting
        /\ SameClient
    BY DEF Finished, Connection, States, SameClient
  <1>3. c \in Task /\ c.op = "done" /\ c.pc = "none"
    BY DEF Task, Idle
  <1> HIDE DEF c
  <1>4. task' \in [Names -> Task] /\ task'["caller"] = c /\ task'["life"] = task["life"]
    BY <1>1, <1>3 DEF Names
  <1>5. conn.stopping /\ task["life"] = Idle
    BY DEF IgInv, ControlInv, StopHeld
  <1>6. ok => conn.client = 0
    BY DEF IgInv, ControlInv, StopHeld
  <1>7. ControlInv'
    BY <1>1, <1>2, <1>3, <1>4, <1>5, <1>6
    DEF IgInv, ControlInv, CallerHeld, LifeHeld, StopHeld, ClientHeld, Names, SameClient, Idle
  <1> QED
    BY <1>1, <1>2, <1>7, QuietKeeps DEF Quiet, SameClient

LEMMA KeepDisconnect ==
    ASSUME IgInv, Disconnect
    PROVE  IgInv'
  <1> USE Runs
  <1>0. task["caller"].pc \in {"drain", "logout"} => task["caller"].op = "disconnect"
    BY DEF IgInv, ControlInv, CallerHeld, Opening
  <1>1. CASE DisconnectClose
    BY <1>0, <1>1, CloseBeginKeeps DEF DisconnectClose, Names
  <1>2. CASE DisconnectClosed
    <2>1. Closed("caller", conn, "logout") /\ task["caller"].pc = "closing"
          /\ task["caller"].op = "disconnect"
      BY <1>2 DEF DisconnectClosed
    <2> QED
      BY <2>1, ClosedKeeps DEF Names
  <1>3. CASE DisconnectOk
    BY <1>0, <1>3, FinishedKeeps, FaultCounts DEF DisconnectOk
  <1>4. CASE DisconnectError
    <2>1. task["caller"].op = "disconnect" /\ Fault /\ Finished(conn, FALSE)
      BY <1>4 DEF DisconnectError, CloseRaises, AfterFailedClose
    <2> QED
      BY <2>1, FinishedKeeps, FaultCounts
  <1> QED
    BY <1>1, <1>2, <1>3, <1>4 DEF Disconnect

----------------------------------------------------------------------------
(* The theorems.                                                           *)

LEMMA IgNext == IgInv /\ [Next]_vars => IgInv'
  <1> SUFFICES ASSUME IgInv, [Next]_vars PROVE IgInv'
    OBVIOUS
  <1>1. CASE Callback
    <2>1. PICK g \in Callbacks :
            \/ StatusConnected(g) \/ StatusRetrying(g) \/ StatusDisconnected(g) \/ ServerError(g)
            \/ HandleHeartbeatSubscription(g) \/ HandleHeartbeatUnsubscription(g)
            \/ HandleHeartbeatSubscriptionError(g) \/ HandleHeartbeat(g)
            \/ \E i \in Epics :
                 \/ HandleSubscription(g, i) \/ HandleUnsubscription(g, i)
                 \/ HandleSubscriptionError(g, i) \/ HandleUpdate(g, i)
      BY <1>1 DEF Callback
    <2> QED
      BY <2>1, KeepStatus, KeepHeartbeat, KeepItem
  <1>2. CASE UNCHANGED vars
    BY <1>2 DEF vars, IgInv, ControlInv, CallerHeld, LifeHeld, StopHeld, ClientHeld, DataTypeOK,
       EvidenceHeld, Current
  <1> QED
    BY <1>1, <1>2, KeepSubscribing, KeepReconnect, KeepReplacement, KeepTimers, KeepDisconnect,
       KeepStart, KeepProvider, KeepDisconnectBegin DEF Next

\* The inductive invariant of the adapter's stream lifecycle: one coroutine at
\* a time owns the client, and the channel evidence is the current client's.
THEOREM StreamInvariant == Spec => []IgInv
  BY IgInit, IgNext, PTL DEF Spec

\* At most one Lightstreamer client is connected at any time, whatever closes
\* fail, reconnects and reloads there are (_open_stream, _close_stream).
THEOREM ConnectionIsOne == Spec => []OneConnection
  <1>1. IgInv => OneConnection
    <2> SUFFICES ASSUME IgInv PROVE OneConnection
      OBVIOUS
    <2>1. live = {} \/ live = {conn.client}
      BY DEF IgInv, ControlInv, ClientHeld
    <2>2. CASE live = {}
      BY <2>2, FS_EmptySet DEF OneConnection
    <2>3. CASE live = {conn.client}
      <3>1. Cardinality(live) = 1
        BY <2>3, FS_Singleton, Zenon
      <3> QED
        BY <3>1 DEF OneConnection
    <2> QED
      BY <2>1, <2>2, <2>3
  <1> QED
    BY <1>1, StreamInvariant, PTL

\* READY means that the current client has delivered the heartbeat and every
\* epic since its transport was last lost (_mark_ready_if_complete).
THEOREM ReadyEarned == Spec => []ReadyIsEarned
  <1>1. IgInv => ReadyIsEarned
    BY DEF IgInv, ControlInv, StopHeld, EvidenceHeld, Current, ReadyIsEarned
  <1> QED
    BY <1>1, StreamInvariant, PTL

\* After a disconnect() that raised nothing there is no client, no coroutine
\* and no watchdog left.
THEOREM StoppedClosed == Spec => []StoppedIsClosed
  <1>1. IgInv => StoppedIsClosed
    BY DEF IgInv, ControlInv, StopHeld, ClientHeld, StoppedIsClosed
  <1> QED
    BY <1>1, StreamInvariant, PTL
=============================================================================
