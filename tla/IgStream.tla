------------------------------- MODULE IgStream -------------------------------
(***************************************************************************)
(* The stream lifecycle of IgDemoMarketDataAdapter (adapters/ig/           *)
(* market_data.py): one Lightstreamer client at a time, tagged with a      *)
(* generation, opened by subscribe, by a scheduled or forced reconnect and *)
(* by a universe replacement, and closed by all of these and by            *)
(* disconnect.  Everything runs on one event loop: an action is what       *)
(* happens between two awaits, or one provider callback that               *)
(* call_soon_threadsafe hands to the loop.                                 *)
(*                                                                         *)
(* The behaviour starts after connect() has authenticated.  The caller is  *)
(* the IG ingestion command of __main__.py.  Telemetry (health status,     *)
(* counters, quote ages), the record queue and the text of messages are    *)
(* left out; "Late" and "Dead" are heartbeat ages past stale_after_seconds *)
(* and past stale_reconnect_after_seconds.                                 *)
(***************************************************************************)
EXTENDS Integers, FiniteSets

CONSTANTS
    Universes,          \* the sets of epics the capture universe may be
    FirstUniverse,      \* the one that subscribe() is given
    HB,                 \* the heartbeat item
    ReconnectAttempts,  \* reconnect_attempts of one cycle
    ReconnectCycles,    \* maximum_reconnect_cycles
    MaxFaults           \* bound: faults of the provider and of the network

ASSUME IgAssumption ==
    /\ FirstUniverse \in Universes
    /\ {} \notin Universes
    /\ \A u \in Universes : HB \notin u /\ IsFiniteSet(u)
    /\ {ReconnectAttempts, ReconnectCycles} \subseteq Nat \ {0}
    /\ MaxFaults \in Nat

VARIABLES
    conn,      \* the adapter's connection fields
    chan,      \* its channel evidence
    ready,     \* _ready_event and _readiness_error
    task,      \* the caller's coroutine and the one that holds _reconnecting
    link,      \* external: what the provider does with the current client
    live,      \* external: the clients connected and not confirmed disconnected
    heard,     \* history: items the client delivered since its transport was last lost
    universe,  \* the universe of the command's active ingestion run
    faults     \* faults the provider may still make

vars == <<conn, chan, ready, task, link, live, heard, universe, faults>>

Epics == UNION Universes

\* What every fresh stream starts from, and what _clear_stream_state leaves.
NoEvidence ==
    [transport |-> FALSE, subscribed |-> {}, updated |-> {},
     hbSub |-> FALSE, hbCur |-> FALSE, hbAt |-> "None"]

Idle == [op |-> "none", pc |-> "none", gen |-> 0, evt |-> "none", tries |-> 0, prev |-> {}]
NoLink == [status |-> "none", told |-> FALSE, acked |-> {}, refused |-> {}]

Init ==
    /\ conn = [state |-> "AUTHENTICATED", generation |-> 0, client |-> 0, desired |-> {},
               expected |-> {}, reconnecting |-> FALSE, stopping |-> FALSE, fatal |-> FALSE,
               watchdog |-> 0]
    /\ chan = NoEvidence
    /\ ready = [set |-> FALSE, error |-> FALSE]
    /\ task = [t \in {"caller", "life"} |-> Idle]
    /\ link = NoLink
    /\ live = {}
    /\ heard = {}
    /\ universe = FirstUniverse
    /\ faults = MaxFaults

NoFault == UNCHANGED faults
Fault == faults > 0 /\ faults' = faults - 1

----------------------------------------------------------------------------
(* Shared parts of the handlers.                                           *)

\* A new asyncio.Event: whoever waits on the old one is never woken.
EventReplaced(tasks) ==
    [t \in DOMAIN tasks |->
        IF tasks[t].evt = "current" THEN [tasks[t] EXCEPT !.evt = "stale"] ELSE tasks[t]]

EventSet(tasks) ==
    [t \in DOMAIN tasks |->
        IF tasks[t].evt = "current" THEN [tasks[t] EXCEPT !.evt = "woken"] ELSE tasks[t]]

\* _schedule_reconnect, on connection fields k the handler has already updated.
MaySchedule(k) == ~k.stopping /\ ~k.reconnecting /\ k.desired # {}
ScheduleReconnect(k) ==
    IF MaySchedule(k)
    THEN /\ conn' = [k EXCEPT !.reconnecting = TRUE, !.state = "DEGRADED"]
         /\ task' = [task EXCEPT !["life"] = [Idle EXCEPT !.op = "reconnect", !.pc = "close"]]
    ELSE conn' = k /\ UNCHANGED task

Complete(c) ==
    /\ c.transport /\ c.hbSub /\ c.hbCur /\ c.hbAt # "None"
    /\ c.subscribed = conn.expected
    /\ c.updated = conn.expected

\* Evidence c is recorded, then _mark_ready_if_complete.
MarkReadyIfComplete(c) ==
    /\ chan' = c
    /\ IF Complete(c)
       THEN /\ conn' = [conn EXCEPT !.state = "READY", !.watchdog = 0]
            /\ ready' = [ready EXCEPT !.set = TRUE]
            /\ task' = EventSet(task)
       ELSE UNCHANGED <<conn, ready, task>>

\* Mutation of Ignored: the generation of the callback is not compared.
IgnoredAnyGeneration(g) == conn.stopping

\* The test every handler starts with.
Ignored(g) == g # conn.generation \/ conn.stopping

----------------------------------------------------------------------------
(* _open_stream: three awaits (connect, the subscribe calls, readiness).   *)

\* Everything up to the first await, on connection fields k: task t runs op.
\* A client that is still set refuses; the connection counts as live from here
\* until a disconnect is confirmed.
OpenBegin(t, op, k) ==
    LET g == k.generation + 1 IN
    /\ k.client = 0
    /\ conn' = [k EXCEPT !.generation = g, !.client = g, !.expected = k.desired,
                         !.state = "CONNECTING"]
    /\ chan' = NoEvidence
    /\ ready' = [set |-> FALSE, error |-> FALSE]
    /\ task' = [EventReplaced(task) EXCEPT ![t].op = op, ![t].pc = "connect", ![t].gen = g]
    /\ link' = [NoLink EXCEPT !.status = "up"]
    /\ live' = live \cup {g}
    /\ heard' = {}
    /\ NoFault /\ UNCHANGED universe

Connected(t) ==
    /\ task[t].pc = "connect"
    /\ conn' = [conn EXCEPT !.state = "SUBSCRIBING"]
    /\ task' = [task EXCEPT ![t].pc = "subscribe"]
    /\ NoFault /\ UNCHANGED <<chan, ready, link, live, heard, universe>>

Subscribed(t) ==
    /\ task[t].pc = "subscribe"
    /\ task' = [task EXCEPT ![t].pc = "ready",
                            ![t].evt = IF ready.set THEN "woken" ELSE "current"]
    /\ NoFault /\ UNCHANGED <<conn, chan, ready, link, live, heard, universe>>

\* The stream cannot become ready for the waiter t.
Hopeless(t) ==
    task[t].evt = "stale" \/ link.status # "up" \/ link.refused # {} \/ conn.stopping

\* Opening raises: a provider call fails or times out, the readiness wait
\* times out, or the event was set with a readiness error.
OpenError(t) ==
    \/ task[t].pc \in {"connect", "subscribe"} /\ Fault
    \/ task[t].pc = "ready" /\ task[t].evt # "woken" /\ IF Hopeless(t) THEN NoFault ELSE Fault
    \/ task[t].pc = "ready" /\ task[t].evt = "woken" /\ ready.error /\ NoFault

OpenOk(t) == task[t].pc = "ready" /\ task[t].evt = "woken" /\ ~ready.error /\ NoFault

----------------------------------------------------------------------------
(* _close_stream: from its start to its first provider call, and its end.  *)

CloseBegin(t) ==
    /\ conn' = [conn EXCEPT !.generation = IF conn.client # 0 THEN @ + 1 ELSE @, !.watchdog = 0]
    /\ chan' = [chan EXCEPT !.transport = FALSE, !.updated = {}]
    /\ task' = [task EXCEPT ![t].pc = "closing", ![t].gen = conn.client]
    /\ UNCHANGED <<ready, link, live, heard, universe>> /\ NoFault

\* The stream is confirmed closed (or there was none): _clear_stream_state on
\* connection fields k, and the task goes on at pc.  It remembers the universe
\* desired so far, the previous_listings of a replacement.
Closed(t, k, pc) ==
    /\ conn' = [k EXCEPT !.client = 0, !.expected = {}]
    /\ chan' = NoEvidence
    /\ ready' = [set |-> FALSE, error |-> FALSE]
    /\ task' = [EventReplaced(task) EXCEPT ![t].pc = pc, ![t].prev = conn.desired]
    /\ live' = live \ {task[t].gen}
    /\ link' = NoLink
    /\ heard' = {}
    /\ NoFault /\ UNCHANGED universe

\* Closing raises: an unsubscribe or the disconnect timed out, or the client
\* did not report DISCONNECTED in time.
CloseRaises(t) == task[t].pc = "closing" /\ conn.client # 0 /\ Fault

\* Mutation of AfterFailedClose: an unconfirmed client is forgotten.
AfterFailedCloseForgets(k) == [k EXCEPT !.client = 0]

\* A client whose disconnect is not confirmed stays owned.
AfterFailedClose(k) == k

----------------------------------------------------------------------------
(* subscribe                                                               *)

Subscribe ==
    /\ task["caller"].op = "none"
    /\ OpenBegin("caller", "subscribe", [conn EXCEPT !.desired = FirstUniverse])

SubscribeOk ==
    /\ task["caller"].op = "subscribe"
    /\ OpenOk("caller")
    /\ task' = [task EXCEPT !["caller"] = [Idle EXCEPT !.op = "run"]]
    /\ UNCHANGED <<conn, chan, ready, link, live, heard, universe>>

\* subscribe raises and the command goes to its finally block.
SubscribeError ==
    /\ task["caller"].op = "subscribe"
    /\ OpenError("caller")
    /\ task' = [task EXCEPT !["caller"] = [Idle EXCEPT !.op = "leave"]]
    /\ UNCHANGED <<conn, chan, ready, link, live, heard, universe>>

----------------------------------------------------------------------------
(* _reconnect_stream                                                       *)

\* force_reconnect: the test and the flag, then the same coroutine.
ForceReconnect ==
    /\ task["caller"].op = "run"
    /\ conn.desired # {} /\ ~conn.reconnecting
    /\ Fault    \* one forced reconnect per command; counted with the faults
    /\ conn' = [conn EXCEPT !.reconnecting = TRUE]
    /\ task' = [task EXCEPT !["life"] = [Idle EXCEPT !.op = "reconnect", !.pc = "close"]]
    /\ UNCHANGED <<chan, ready, link, live, heard, universe>>

Reconnecting(pc) == task["life"].op = "reconnect" /\ task["life"].pc = pc

ReconnectClose == Reconnecting("close") /\ CloseBegin("life")

ReconnectClosed == Reconnecting("closing") /\ Closed("life", conn, "auth")

\* Logout and _establish_rest_session(attempts=1); then the open begins.
ReconnectAuthenticated ==
    /\ Reconnecting("auth")
    /\ conn' = [conn EXCEPT !.state = "AUTHENTICATED"]
    /\ task' = [task EXCEPT !["life"].pc = "open"]
    /\ NoFault /\ UNCHANGED <<chan, ready, link, live, heard, universe>>

ReconnectOpen == Reconnecting("open") /\ OpenBegin("life", "reconnect", conn)

\* The finally clauses: the flag is released whatever happened.
LifeDone(k) ==
    /\ conn' = [k EXCEPT !.reconnecting = FALSE]
    /\ task' = [task EXCEPT !["life"] = Idle]

ReconnectOk ==
    /\ Reconnecting("ready")
    /\ OpenOk("life")
    /\ LifeDone([conn EXCEPT !.fatal = FALSE])
    /\ UNCHANGED <<chan, ready, link, live, heard, universe>>

LastTry == task["life"].tries + 1 >= ReconnectAttempts * ReconnectCycles

\* The except clause and what follows it: back off and try again, or give up
\* on a fatal provider error and after the last attempt of the last cycle.
ReconnectError(fatal) ==
    /\ task["life"].op = "reconnect"
    /\ \/ ~fatal /\ OpenError("life")
       \/ Reconnecting("auth") /\ Fault
       \/ ~fatal /\ CloseRaises("life")
    /\ LET k == IF Reconnecting("closing") THEN AfterFailedClose(conn) ELSE conn IN
       IF fatal \/ LastTry
       THEN LifeDone([k EXCEPT !.fatal = TRUE, !.state = "FAILED"])
       ELSE /\ conn' = [k EXCEPT !.state = "BACKING_OFF"]
            /\ task' = [task EXCEPT !["life"] = [Idle EXCEPT !.op = "reconnect", !.pc = "sleep",
                                                             !.tries = task["life"].tries + 1]]
    /\ UNCHANGED <<chan, ready, link, live, heard, universe>>

ReconnectWake ==
    /\ Reconnecting("sleep")
    /\ task' = [task EXCEPT !["life"].pc = "close"]
    /\ NoFault /\ UNCHANGED <<conn, chan, ready, link, live, heard, universe>>

----------------------------------------------------------------------------
(* replace_subscriptions, called by reload_universe on SIGHUP.             *)

Replacing(pc) == task["life"].op \in {"replace", "rollback"} /\ task["life"].pc = pc

\* A reload that _require_connected or _reconnecting refuses changes nothing.
Replace(u) ==
    /\ task["caller"].op = "run"
    /\ conn.state \notin {"STOPPED", "FAILED", "STOPPING"}
    /\ conn.desired # {} /\ ~conn.reconnecting
    /\ u # universe
    /\ Fault    \* bound: reloads are counted with the faults
    /\ conn' = [conn EXCEPT !.reconnecting = TRUE]
    /\ task' = [task EXCEPT !["life"] =
                  [Idle EXCEPT !.op = "replace", !.pc = "close", !.prev = u]]
    /\ UNCHANGED <<chan, ready, link, live, heard, universe>>

ReplaceClose == Replacing("close") /\ CloseBegin("life")

\* prev holds the other universe: the two change places at each close.
ReplaceClosed ==
    /\ Replacing("closing")
    /\ Closed("life", [conn EXCEPT !.desired = task["life"].prev], "swap")

\* The open that follows a close at once: no client carries the generation in
\* between, so no callback acts there.
ReplaceOpen == Replacing("swap") /\ OpenBegin("life", task["life"].op, conn)

\* The replacement is ready: the command moves its run to the new universe.
ReplaceOk ==
    /\ task["life"].op = "replace"
    /\ OpenOk("life")
    /\ universe' = conn.desired
    /\ LifeDone(conn)
    /\ UNCHANGED <<chan, ready, link, live, heard>>

\* The replacement fails to open: close it and restore what was desired before.
ReplaceError ==
    /\ task["life"].op = "replace"
    /\ OpenError("life")
    /\ task' = [task EXCEPT !["life"] = [Idle EXCEPT !.op = "rollback", !.pc = "close",
                                                     !.prev = task["life"].prev]]
    /\ UNCHANGED <<conn, chan, ready, link, live, heard, universe>>

\* The rollback ends, restored or not; the command logs the reload as rejected
\* and goes on with its previous run.
RollbackDone ==
    /\ task["life"].op = "rollback"
    /\ OpenOk("life") \/ OpenError("life")
    /\ LifeDone(conn)
    /\ UNCHANGED <<chan, ready, link, live, heard, universe>>

\* Either _close_stream raises: so does replace_subscriptions.
ReplaceCloseError ==
    /\ Replacing("closing")
    /\ CloseRaises("life")
    /\ LifeDone(AfterFailedClose(conn))
    /\ UNCHANGED <<chan, ready, link, live, heard, universe>>

----------------------------------------------------------------------------
(* Provider callbacks.  A superseded client may still send anything (0     *)
(* stands for all of them: only equality with _generation is ever tested); *)
(* what the current client sends follows the SDK: status, then             *)
(* acknowledgements, then updates, and after a transport loss some         *)
(* subscriptions end and are acknowledged again.                           *)

Callbacks == IF conn.generation = 0 THEN {} ELSE {0, conn.client}
Sends(g, condition) == g # 0 => condition

\* Handled without effect, whatever the link of the current client.
Nothing == UNCHANGED <<conn, chan, ready, task>>
LinkAfter(g, l) == link' = IF g # 0 THEN l ELSE link
Heard(g, items) == heard' = IF g # 0 THEN items ELSE heard

\* _handle_stream_status, CONNECTED:*
StatusConnected(g) ==
    /\ Sends(g, link.status = "up" /\ ~link.told)
    /\ LinkAfter(g, [link EXCEPT !.told = TRUE])
    /\ IF Ignored(g) THEN Nothing ELSE MarkReadyIfComplete([chan EXCEPT !.transport = TRUE])
    /\ NoFault /\ UNCHANGED <<live, heard, universe>>

\* _mark_transport_degraded
TransportDegraded(clear) ==
    LET c == [chan EXCEPT !.transport = FALSE, !.updated = {}, !.hbCur = FALSE]
    IN IF clear THEN [c EXCEPT !.hbSub = FALSE, !.hbAt = "None"] ELSE c

\* STALLED, DISCONNECTED:WILL-RETRY and DISCONNECTED:TRYING-RECOVERY, with
\* _start_retry_watchdog: one watchdog at a time.
StatusRetrying(g) ==
    /\ Sends(g, link.status = "up")
    /\ IF g # 0 THEN Fault ELSE NoFault
    /\ LinkAfter(g, [link EXCEPT !.status = "retry", !.told = FALSE])
    /\ Heard(g, {})
    /\ IF Ignored(g) THEN Nothing
       ELSE /\ chan' = TransportDegraded(FALSE)
            /\ conn' = [conn EXCEPT !.state = "DEGRADED",
                                    !.watchdog = IF @ = 0 THEN g ELSE @]
            /\ UNCHANGED <<ready, task>>
    /\ UNCHANGED <<live, universe>>

\* DISCONNECTED
StatusDisconnected(g) ==
    /\ Sends(g, link.status = "lost")
    /\ LinkAfter(g, [link EXCEPT !.status = "dead"])
    /\ Heard(g, {})
    /\ IF Ignored(g) THEN Nothing
       ELSE /\ chan' = TransportDegraded(TRUE)
            /\ ScheduleReconnect([conn EXCEPT !.state = "DEGRADED"])
            /\ UNCHANGED ready
    /\ NoFault /\ UNCHANGED <<live, universe>>

\* _handle_server_error; a DISCONNECTED status may follow it.
ServerError(g) ==
    /\ Sends(g, link.status = "lost")
    /\ IF Ignored(g) THEN Nothing
       ELSE ScheduleReconnect([conn EXCEPT !.state = "DEGRADED"]) /\ UNCHANGED <<chan, ready>>
    /\ NoFault /\ UNCHANGED <<link, live, heard, universe>>

\* What the SDK does with item i: it acknowledges an item once the subscribe
\* call was made, ends some after a transport loss, refuses, and delivers.
Pending(i) ==
    /\ link.told
    /\ i \in (conn.expected \cup {HB}) \ (link.acked \cup link.refused)
    /\ \A t \in DOMAIN task : task[t].pc = "connect" => task[t].gen # conn.client

SendAcknowledgement(g, i) ==
    /\ Sends(g, Pending(i))
    /\ LinkAfter(g, [link EXCEPT !.acked = @ \cup {i}])
    /\ Heard(g, heard \ {i})
    /\ NoFault /\ UNCHANGED <<live, universe>>

SendEnd(g, i) ==
    /\ Sends(g, link.status # "up" /\ i \in link.acked)
    /\ LinkAfter(g, [link EXCEPT !.acked = @ \ {i}])
    /\ NoFault /\ UNCHANGED <<live, heard, universe>>

SendRefusal(g, i) ==
    /\ Sends(g, Pending(i))
    /\ IF g # 0 THEN Fault ELSE NoFault
    /\ LinkAfter(g, [link EXCEPT !.refused = @ \cup {i}])
    /\ UNCHANGED <<live, heard, universe>>

SendUpdate(g, i) ==
    /\ Sends(g, link.status = "up" /\ link.told /\ i \in link.acked)
    /\ Heard(g, heard \cup {i})
    /\ NoFault /\ UNCHANGED <<link, live, universe>>

\* _handle_subscription: the channel starts over.
HandleSubscription(g, i) ==
    /\ SendAcknowledgement(g, i)
    /\ IF Ignored(g) THEN Nothing
       ELSE MarkReadyIfComplete([chan EXCEPT !.subscribed = @ \cup {i}, !.updated = @ \ {i}])

HandleHeartbeatSubscription(g) ==
    /\ SendAcknowledgement(g, HB)
    /\ IF Ignored(g) THEN Nothing
       ELSE /\ chan' = [chan EXCEPT !.hbSub = TRUE, !.hbCur = FALSE, !.hbAt = "None"]
            /\ UNCHANGED <<conn, ready, task>>

\* _handle_unsubscription, which also runs while stopping.
HandleUnsubscription(g, i) ==
    /\ SendEnd(g, i)
    /\ IF g # conn.generation THEN Nothing
       ELSE /\ chan' = [chan EXCEPT !.subscribed = @ \ {i}, !.updated = @ \ {i}]
            /\ conn' = IF conn.stopping THEN conn ELSE [conn EXCEPT !.state = "DEGRADED"]
            /\ UNCHANGED <<ready, task>>

HandleHeartbeatUnsubscription(g) ==
    /\ SendEnd(g, HB)
    /\ IF Ignored(g) THEN Nothing
       ELSE /\ chan' = [chan EXCEPT !.hbSub = FALSE, !.hbCur = FALSE, !.hbAt = "None"]
            /\ conn' = [conn EXCEPT !.state = "DEGRADED"]
            /\ UNCHANGED <<ready, task>>

\* The waiter is told of a readiness error.
ReadinessError ==
    /\ conn' = [conn EXCEPT !.state = "DEGRADED"]
    /\ ready' = [set |-> TRUE, error |-> TRUE]
    /\ task' = EventSet(task)

\* _handle_subscription_error: an error while the stream is established tells
\* the waiter, a later one schedules a reconnect.
HandleSubscriptionError(g, i) ==
    /\ SendRefusal(g, i)
    /\ IF Ignored(g) THEN Nothing
       ELSE /\ IF conn.state \in {"CONNECTING", "SUBSCRIBING"} THEN ReadinessError
               ELSE ScheduleReconnect([conn EXCEPT !.state = "DEGRADED"]) /\ UNCHANGED ready
            /\ UNCHANGED chan

\* A heartbeat error never schedules: the staleness check has to notice.
HandleHeartbeatSubscriptionError(g) ==
    /\ SendRefusal(g, HB)
    /\ IF Ignored(g) THEN Nothing
       ELSE ReadinessError /\ chan' = [chan EXCEPT !.hbSub = FALSE, !.hbCur = FALSE]

\* _handle_update with _accept_update
HandleUpdate(g, i) ==
    /\ SendUpdate(g, i)
    /\ IF Ignored(g) THEN Nothing
       ELSE MarkReadyIfComplete([chan EXCEPT !.updated = @ \cup {i}])

HandleHeartbeat(g) ==
    /\ SendUpdate(g, HB)
    /\ IF Ignored(g) THEN Nothing
       ELSE MarkReadyIfComplete([chan EXCEPT !.hbAt = "Current", !.hbCur = TRUE])

----------------------------------------------------------------------------
(* The provider on its own (external): its connection dies with or without *)
(* telling, or the SDK recovers it; heartbeats that stop grow old.         *)

ProviderLost ==
    /\ link.status \in {"up", "retry"}
    /\ Fault
    /\ link' = [link EXCEPT !.status = "lost", !.told = FALSE]
    /\ UNCHANGED <<conn, chan, ready, task, live, heard, universe>>

ProviderRecovers ==
    /\ link.status = "retry"
    /\ link' = [link EXCEPT !.status = "up"]
    /\ NoFault /\ UNCHANGED <<conn, chan, ready, task, live, heard, universe>>

\* A coroutine whose event is set runs in the same pass of the event loop:
\* no timer of seconds expires before it.
NobodyWoken == \A t \in DOMAIN task : task[t].evt # "woken"

HeartbeatsArrive == link.told /\ HB \in link.acked /\ conn.client = conn.generation

HeartbeatAges ==
    /\ NobodyWoken
    /\ ~HeartbeatsArrive
    /\ chan.hbAt \in {"Current", "Late"}
    /\ chan' = [chan EXCEPT !.hbAt = IF @ = "Current" THEN "Late" ELSE "Dead"]
    /\ NoFault /\ UNCHANGED <<conn, ready, task, link, live, heard, universe>>

----------------------------------------------------------------------------
(* Timers of the adapter.                                                  *)

\* The retry watchdog of generation conn.watchdog wakes up.
Watchdog ==
    /\ conn.watchdog # 0
    /\ NobodyWoken
    /\ LET k == [conn EXCEPT !.watchdog = 0] IN
       IF conn.watchdog = conn.generation /\ conn.state # "READY" /\ ~conn.stopping
       THEN ScheduleReconnect(k) ELSE conn' = k /\ UNCHANGED task
    /\ NoFault /\ UNCHANGED <<chan, ready, link, live, heard, universe>>

HeartbeatCurrent == chan.hbSub /\ chan.hbAt = "Current"

\* Mutation of CheckStaleness: a heartbeat never seen is not taken as lost.
CheckStalenessBlind ==
    /\ task["caller"].op = "run"
    /\ ~conn.reconnecting /\ conn.desired # {} /\ conn.expected # {}
    /\ ~HeartbeatCurrent
    /\ LET k == [conn EXCEPT !.state = "DEGRADED"] IN
       IF chan.hbAt = "Dead" THEN ScheduleReconnect(k) ELSE conn' = k /\ UNCHANGED task
    /\ NoFault /\ UNCHANGED <<chan, ready, link, live, heard, universe>>

\* _check_staleness, when records() has waited a second for nothing.  It
\* returns without effect while the heartbeat is current.
CheckStaleness ==
    /\ task["caller"].op = "run"
    /\ ~conn.reconnecting /\ conn.desired # {} /\ conn.expected # {}
    /\ ~HeartbeatCurrent
    /\ LET k == [conn EXCEPT !.state = "DEGRADED"] IN
       IF chan.hbAt \in {"None", "Dead"} THEN ScheduleReconnect(k)
       ELSE conn' = k /\ UNCHANGED task
    /\ NoFault /\ UNCHANGED <<chan, ready, link, live, heard, universe>>

\* records() raises the fatal error; the command goes to its finally block.
RecordsRaise ==
    /\ task["caller"].op = "run"
    /\ conn.fatal
    /\ task' = [task EXCEPT !["caller"].op = "leave"]
    /\ NoFault /\ UNCHANGED <<conn, chan, ready, link, live, heard, universe>>

----------------------------------------------------------------------------
(* disconnect, after the command's deadline, an interrupt or an error.     *)

\* The command cancels its reload and its forced reconnect, disconnect() the
\* watchdog and the scheduled reconnect.
DisconnectBegin ==
    /\ task["caller"].op \in {"subscribe", "run", "leave"}
    /\ conn' = [conn EXCEPT !.stopping = TRUE, !.state = "STOPPING", !.watchdog = 0,
                            !.reconnecting = FALSE]
    /\ task' = [caller |-> [Idle EXCEPT !.op = "disconnect", !.pc = "drain"], life |-> Idle]
    /\ NoFault /\ UNCHANGED <<chan, ready, link, live, heard, universe>>

\* _wait_for_provider_operations succeeds; _close_stream begins.
DisconnectClose ==
    /\ task["caller"].pc = "drain"
    /\ CloseBegin("caller")

DisconnectClosed ==
    /\ task["caller"].op = "disconnect" /\ task["caller"].pc = "closing"
    /\ Closed("caller", conn, "logout")

\* Mutation of Finished: the state says STOPPED whatever happened.
FinishedAlwaysStopped(k, ok) ==
    /\ conn' = [k EXCEPT !.desired = {}, !.fatal = FALSE, !.state = "STOPPED"]
    /\ task' = [task EXCEPT !["caller"] = [Idle EXCEPT !.op = "done"]]
    /\ UNCHANGED <<chan, ready, link, live, heard, universe>>

\* The finally clause.
Finished(k, ok) ==
    /\ conn' = [k EXCEPT !.desired = {}, !.fatal = FALSE,
                         !.state = IF ok THEN "STOPPED" ELSE "FAILED"]
    /\ task' = [task EXCEPT !["caller"] = [Idle EXCEPT !.op = "done"]]
    /\ UNCHANGED <<chan, ready, link, live, heard, universe>>

DisconnectOk == task["caller"].pc = "logout" /\ NoFault /\ Finished(conn, TRUE)

\* A provider thread outlives the deadline (the stream is then left alone),
\* the close is not confirmed, or the logout fails.
DisconnectError ==
    /\ task["caller"].op = "disconnect"
    /\ \/ task["caller"].pc \in {"drain", "logout"} /\ Fault /\ Finished(conn, FALSE)
       \/ CloseRaises("caller") /\ Finished(AfterFailedClose(conn), FALSE)

----------------------------------------------------------------------------

Subscribing == \/ Subscribe \/ SubscribeOk \/ SubscribeError
               \/ \E t \in DOMAIN task : Connected(t) \/ Subscribed(t)

Reconnect ==
    \/ ReconnectClose \/ ReconnectClosed \/ ReconnectAuthenticated \/ ReconnectOpen
    \/ ReconnectOk \/ ReconnectWake
    \/ \E fatal \in BOOLEAN : ReconnectError(fatal)

Replacement ==
    \/ ReplaceClose \/ ReplaceClosed \/ ReplaceOpen \/ ReplaceOk \/ ReplaceError
    \/ RollbackDone \/ ReplaceCloseError

Timers == Watchdog \/ CheckStaleness \/ RecordsRaise

Disconnect == DisconnectClose \/ DisconnectClosed \/ DisconnectOk \/ DisconnectError

Callback ==
    \E g \in Callbacks :
        \/ StatusConnected(g) \/ StatusRetrying(g) \/ StatusDisconnected(g) \/ ServerError(g)
        \/ HandleHeartbeatSubscription(g) \/ HandleHeartbeatUnsubscription(g)
        \/ HandleHeartbeatSubscriptionError(g) \/ HandleHeartbeat(g)
        \/ \E i \in Epics :
             \/ HandleSubscription(g, i) \/ HandleUnsubscription(g, i)
             \/ HandleSubscriptionError(g, i) \/ HandleUpdate(g, i)

Next ==
    \/ Subscribing \/ Reconnect \/ Replacement \/ Timers \/ Disconnect \/ Callback
    \/ ForceReconnect \/ \E u \in Universes : Replace(u)
    \/ ProviderLost \/ ProviderRecovers \/ HeartbeatAges \/ DisconnectBegin

\* The event loop runs every ready coroutine and timer; records() polls; a
\* healthy client acknowledges and delivers every item, and time passes.
\* Nothing is assumed of a client in trouble, of faults or of operators.
Fairness ==
    /\ WF_vars(Subscribing) /\ WF_vars(Reconnect) /\ WF_vars(Replacement)
    /\ WF_vars(Watchdog) /\ WF_vars(CheckStaleness) /\ WF_vars(RecordsRaise)
    /\ WF_vars(HeartbeatAges) /\ WF_vars(Disconnect)
    /\ WF_vars(task["caller"].op = "leave" /\ DisconnectBegin)
    /\ WF_vars(conn.client # 0 /\ StatusConnected(conn.client))
    /\ WF_vars(conn.client # 0 /\ HandleHeartbeatSubscription(conn.client))
    /\ WF_vars(conn.client # 0 /\ HandleHeartbeat(conn.client))
    /\ \A i \in Epics :
         /\ WF_vars(conn.client # 0 /\ HandleSubscription(conn.client, i))
         /\ WF_vars(conn.client # 0 /\ HandleUpdate(conn.client, i))

Spec == Init /\ [][Next]_vars /\ Fairness

----------------------------------------------------------------------------
(* Correctness.                                                            *)

\* There is never a second Lightstreamer connection: a client whose closing
\* was not confirmed is still owned when the next open begins (the refusal
\* "refusing to create a concurrent IG stream connection" of _open_stream).
OneConnection == Cardinality(live) =< 1

\* READY is earned by the client that is connected now: since its transport
\* was last lost it has delivered the heartbeat and every epic of the universe
\* it was opened for.  No callback of an older client counts.
ReadyIsEarned ==
    conn.state = "READY" /\ conn.client = conn.generation => conn.expected \cup {HB} \subseteq heard

\* Once disconnect() returned without an error nothing is left: no connection,
\* no coroutine, no timer.
StoppedIsClosed ==
    conn.state = "STOPPED" =>
        live = {} /\ conn.client = 0 /\ task["life"] = Idle /\ conn.watchdog = 0

Streaming ==
    /\ conn.state = "READY" /\ conn.client = conn.generation /\ link.status = "up"
    /\ conn.expected = conn.desired

\* A subscription error that arrives while a lifecycle operation holds
\* _reconnecting is dropped, and nothing else looks at it again.
EpicRefused == link.refused \ {HB} # {}

\* A lost stream never stays lost: whatever status, heartbeat or server-error
\* callbacks were dropped while a reconnect, a reload or subscribe was running,
\* the capture streams again, or records() raises and the command ends (or it
\* stays degraded over an epic the provider refuses).
StreamRecovers ==
    [](task["caller"].op = "run" => <>(Streaming \/ EpicRefused \/ task["caller"].op # "run"))
=============================================================================
