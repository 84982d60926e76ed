---------------------------- MODULE EventDelivery ----------------------------
(***************************************************************************)
(* How runtime events reach the browser: the WebSocket hub                  *)
(* (crates/zk-server/src/ws/hub.rs), the bind handshake (ws/inbound.rs),    *)
(* the durable outbox it replays (zk-db run.rs and session.rs) and the      *)
(* client that applies them (frontend/src/api/dispatch.ts).                 *)
(*                                                                          *)
(* A database transaction and a critical section of one of the hub's locks  *)
(* are one step each; pushes, bind handlers, sockets and the client run     *)
(* concurrently between them.  A connection's channel stands for its mpsc   *)
(* queue and the socket behind it.  The interaction events, which have a    *)
(* delivery protocol of their own, are in module Interaction.               *)
(***************************************************************************)
EXTENDS Naturals, Sequences, FiniteSets

CONSTANTS
    Sessions,         \* application sessions
    Conns,            \* connections; each is used for one socket
    Producers,        \* tasks that push events (an engine, a tool, a timer)
    None,             \* no session, no connection
    Kinds,            \* the kinds of events pushed: critical or not, durable or not
    MaxEvents,        \* bound: events ever pushed
    MaxBinds,         \* bound: bind attempts of the client
    ChannelCapacity,  \* WsConfig.outbound_capacity
    PendingCapacity,  \* WsConfig.pending_capacity_per_session
    PendingTotal,     \* WsConfig.pending_capacity_total
    QueueLimit        \* frames the client queues while it waits for a snapshot

ASSUME DeliveryAssumption ==
    /\ None \notin Sessions \cup Conns
    /\ Conns \cap Producers = {} /\ Kinds \subseteq [critical : BOOLEAN, durable : BOOLEAN]
    /\ MaxEvents \in Nat \ {0} /\ MaxBinds \in Nat
    /\ ChannelCapacity \in Nat \ {0}
    /\ PendingCapacity \in Nat \ {0} /\ PendingTotal \in Nat \ {0}
    /\ QueueLimit \in Nat

VARIABLES
    events,       \* every event pushed; its position is its eventId
    pending,      \* session -> cached critical events, oldest first
    subscribers,  \* session -> connections in session_subscribers
    conn,         \* connection -> its registry entry and its socket
    channel,      \* connection -> frames on their way to the client
    inbox,        \* connection -> bind requests on their way to the server
    handler,      \* connection -> the read loop's bind handler
    job,          \* producer or handler -> its current call of deliver
    client        \* the browser: bind state, events seen, and its view

vars == <<events, pending, subscribers, conn, channel, inbox, handler, job, client>>

Deliverers == Producers \cup Conns

(* A durable event is a row of the outbox of the Run it was pushed in. *)
Event == [session : Sessions, critical : BOOLEAN, durable : BOOLEAN]
Frame == [type : {"event", "session_restored", "protocol_error"}, id : 0..MaxEvents,
          session : Sessions \cup {None}, epoch : 1..MaxBinds]

Fresh == [registered |-> FALSE, socket |-> "new", session |-> None, epoch |-> 0,
          degraded |-> FALSE]
Idle == [pc |-> "idle", session |-> None, epoch |-> 0, cover |-> 0, cursor |-> 0,
         rows |-> {}, todo |-> <<>>, stopped |-> FALSE]
NoJob == [pc |-> "idle", id |-> 0, todo |-> {}, target |-> None, epoch |-> 0, need |-> FALSE]

(* One critical event was pushed, and cached, while nobody was connected. *)
Init ==
    /\ \E s \in Sessions :
          /\ events = <<[session |-> s, critical |-> TRUE, durable |-> TRUE]>>
          /\ pending = [t \in Sessions |-> IF t = s THEN <<1>> ELSE <<>>]
    /\ subscribers = [s \in Sessions |-> {}]
    /\ conn = [c \in Conns |-> Fresh]
    /\ channel = [c \in Conns |-> <<>>]
    /\ inbox = [c \in Conns |-> <<>>]
    /\ handler = [c \in Conns |-> Idle]
    /\ job = [d \in Deliverers |-> NoJob]
    /\ client = [conn |-> None, next |-> 0, wanted |-> None, wanted_epoch |-> 0,
                 rebound |-> FALSE, queued |-> <<>>, bound |-> None,
                 epoch |-> 0, seen |-> {}, view |-> {}]

----------------------------------------------------------------------------
(* The outbox. *)

(* What a snapshot taken when n events existed shows of a session. *)
Materialized(s, n) == {i \in 1..n : events[i].durable /\ events[i].session = s}

(* The durable events of a session after a cursor, in the order of their ids; *)
(* one root Run is in hand.                                                   *)
get_ws_outbox_events_after(s, cursor) ==
    {i \in Materialized(s, Len(events)) : i > cursor}

(* The high-water mark of the outbox. *)
snapshot_event_seq(s) ==
    LET rows == get_ws_outbox_events_after(s, 0) IN
    IF rows = {} THEN 0 ELSE CHOOSE i \in rows : \A j \in rows : j <= i

----------------------------------------------------------------------------
(* The hub: the pending cache, and one call of deliver. *)

Cached == UNION {{s} \X DOMAIN pending[s] : s \in Sessions}

(* The longest queue of another session gives way, or the session's own. *)
Victim(s, queues) ==
    LET others == {v \in Sessions \ {s} : queues[v] # <<>>} IN
    IF others = {} THEN {s}
    ELSE {v \in others : \A w \in others : Len(queues[w]) <= Len(queues[v])}

(* Faulty: the limit of all sessions together is not enforced. *)
EnqueueIgnoresTotal(s, id) ==
    pending' = [pending EXCEPT
        ![s] = Append(IF Len(@) >= PendingCapacity THEN Tail(@) ELSE @, id)]

enqueue_pending(s, id) ==
    LET grown == [pending EXCEPT
            ![s] = Append(IF Len(@) >= PendingCapacity THEN Tail(@) ELSE @, id)]
        total == Cardinality(UNION {{v} \X DOMAIN grown[v] : v \in Sessions})
    IN IF total <= PendingTotal
       THEN pending' = grown
       ELSE \E v \in Victim(s, grown) : pending' = [grown EXCEPT ![v] = Tail(@)]

HasRoom(c) == Len(channel[c]) < ChannelCapacity

EventFrame(id, epoch) ==
    [type |-> "event", id |-> id, session |-> events[id].session, epoch |-> epoch]

(* What is sent to a broken socket, before its queue is closed, is lost. *)
ToChannel(c, frame) ==
    channel' = IF conn[c].socket = "open" THEN [channel EXCEPT ![c] = Append(@, frame)]
               ELSE channel

(* deliver takes its snapshot of the live subscribers; without one a critical *)
(* event is cached and any other dropped.                                     *)
deliver(d) ==
    LET e == events[job[d].id]
        live == {c \in subscribers[e.session] : conn[c].registered}
    IN
    /\ job[d].pc = "scan"
    /\ IF live = {}
       THEN /\ job' = [job EXCEPT ![d] = NoJob]
            /\ IF e.critical THEN enqueue_pending(e.session, job[d].id) ELSE UNCHANGED pending
       ELSE /\ job' = [job EXCEPT ![d].pc = "visit", ![d].todo = live]
            /\ UNCHANGED pending
    /\ UNCHANGED <<events, subscribers, conn, channel, inbox, handler, client>>

(* A call with nobody left to visit and nothing to cache is over. *)
Remaining(j) == IF j.pc = "visit" /\ j.todo = {} /\ ~j.need THEN NoJob ELSE j

(* The binding of one subscriber, read under its lock.  Neither the session   *)
(* nor the epoch is compared: the binding may have changed since the scan.     *)
VisitSubscriber(d, c) ==
    LET ready == conn[c].session # None /\ ~conn[c].degraded IN
    /\ job[d].pc = "visit" /\ c \in job[d].todo
    /\ job' = [job EXCEPT ![d] = Remaining([job[d] EXCEPT
            !.todo = job[d].todo \ {c},
            !.pc = IF ready THEN "send" ELSE "visit",
            !.target = IF ready THEN c ELSE None,
            !.epoch = IF ready THEN conn[c].epoch ELSE 0,
            !.need = job[d].need \/ (~ready /\ events[job[d].id].critical)])]
    /\ UNCHANGED <<events, pending, subscribers, conn, channel, inbox, handler, client>>

(* The frame is in the channel.  The socket behind it may be dead already. *)
SendSucceeds(d) ==
    /\ job[d].pc = "send" /\ HasRoom(job[d].target)
    /\ ToChannel(job[d].target, EventFrame(job[d].id, job[d].epoch))
    /\ job' = [job EXCEPT ![d] = Remaining([job[d] EXCEPT !.pc = "visit",
                  !.target = None, !.epoch = 0])]
    /\ UNCHANGED <<events, pending, subscribers, conn, inbox, handler, client>>

CannotSend(c) == ~HasRoom(c) \/ conn[c].socket # "open"

(* Faulty: a critical send waits for room without a timeout. *)
SendWaits(d) ==
    LET c == job[d].target
        critical == events[job[d].id].critical
    IN
    /\ job[d].pc = "send"
    /\ conn[c].socket # "open" \/ (~HasRoom(c) /\ ~critical)
    /\ conn' = [conn EXCEPT ![c].degraded = @ \/ critical]
    /\ job' = [job EXCEPT ![d] = Remaining([job[d] EXCEPT !.pc = "visit",
                  !.target = None, !.epoch = 0, !.need = job[d].need \/ critical])]
    /\ UNCHANGED <<events, pending, subscribers, channel, inbox, handler, client>>

(* A critical send times out on a full channel or finds its receiver gone:    *)
(* the subscriber is degraded, whatever it is bound to by now.  try_send of   *)
(* any other event drops it.                                                  *)
SendFails(d) ==
    LET c == job[d].target
        critical == events[job[d].id].critical
    IN
    /\ job[d].pc = "send" /\ CannotSend(c)
    /\ conn' = [conn EXCEPT ![c].degraded = @ \/ critical]
    /\ job' = [job EXCEPT ![d] = Remaining([job[d] EXCEPT !.pc = "visit",
                  !.target = None, !.epoch = 0, !.need = job[d].need \/ critical])]
    /\ UNCHANGED <<events, pending, subscribers, channel, inbox, handler, client>>

(* Somebody could not be sent a critical event. *)
DeliverEnds(d) ==
    /\ job[d].pc = "visit" /\ job[d].todo = {}
    /\ enqueue_pending(events[job[d].id].session, job[d].id)
    /\ job' = [job EXCEPT ![d] = NoJob]
    /\ UNCHANGED <<events, subscribers, conn, channel, inbox, handler, client>>

(* push_runtime_event commits the outbox row before it delivers; an event no  *)
(* Run owns takes the ephemeral path of push.                                 *)
push_runtime_event(p, s, kind) ==
    /\ job[p].pc = "idle" /\ Len(events) < MaxEvents
    /\ events' = Append(events, [session |-> s,
                                 critical |-> kind.critical, durable |-> kind.durable])
    /\ job' = [job EXCEPT ![p] = [NoJob EXCEPT !.pc = "scan", !.id = Len(events) + 1]]
    /\ UNCHANGED <<pending, subscribers, conn, channel, inbox, handler, client>>

----------------------------------------------------------------------------
(* handle_bind, run by a connection's read loop. *)

(* get_session_runtime_restore: snapshot and high-water mark in one read. *)
ReadSnapshot(c) ==
    LET s == Head(inbox[c]).session IN
    /\ handler[c].pc = "idle" /\ inbox[c] # <<>>
    /\ inbox' = [inbox EXCEPT ![c] = Tail(@)]
    /\ handler' = [handler EXCEPT ![c] = [pc |-> "read", session |-> s,
                        epoch |-> Head(inbox[c]).epoch, cover |-> Len(events),
                        cursor |-> snapshot_event_seq(s), rows |-> {}, todo |-> <<>>,
                        stopped |-> FALSE]]
    /\ UNCHANGED <<events, pending, subscribers, conn, channel, job, client>>

(* A direct frame is attributed to the binding of its connection, and dropped *)
(* when the channel is full.                                                  *)
push_direct(c, type) ==
    IF conn[c].registered /\ ~CannotSend(c)
    THEN ToChannel(c, [type |-> type, id |-> handler[c].cover,
                       session |-> conn[c].session, epoch |-> handler[c].epoch])
    ELSE UNCHANGED channel

(* A read or a model repair failed, or the epoch is stale. *)
RejectBind(c) ==
    /\ handler[c].pc = "read"
    /\ push_direct(c, "protocol_error")
    /\ handler' = [handler EXCEPT ![c] = Idle]
    /\ UNCHANGED <<events, pending, subscribers, conn, inbox, job, client>>

(* TRANSPORT_NOT_REGISTERED: the client is not told. *)
BindUnregistered(c) ==
    /\ handler[c].pc = "read" /\ ~conn[c].registered
    /\ handler' = [handler EXCEPT ![c] = Idle]
    /\ UNCHANGED <<events, pending, subscribers, conn, channel, inbox, job, client>>

(* WsHub::bind: the connection's lock, then the routing table's.  No step     *)
(* reads both, so nothing can tell the two from one.                          *)
bind(c) ==
    /\ handler[c].pc = "read" /\ conn[c].registered
    /\ handler[c].epoch > conn[c].epoch
    /\ conn' = [conn EXCEPT ![c] = [@ EXCEPT !.session = handler[c].session,
                                             !.epoch = handler[c].epoch, !.degraded = FALSE]]
    /\ subscribers' = [s \in Sessions |-> IF s = handler[c].session
                                          THEN subscribers[s] \cup {c} ELSE subscribers[s] \ {c}]
    /\ handler' = [handler EXCEPT ![c].pc = "restore"]
    /\ UNCHANGED <<events, pending, channel, inbox, job, client>>

SendRestored(c) ==
    /\ handler[c].pc = "restore"
    /\ push_direct(c, "session_restored")
    /\ handler' = [handler EXCEPT ![c].pc = "query", ![c].cover = 0, ![c].epoch = 0]
    /\ UNCHANGED <<events, pending, subscribers, conn, inbox, job, client>>

(* Faulty: the cursor is where the outbox stands now, not the snapshot's. *)
QueryFromNow(c) ==
    /\ handler[c].pc = "query"
    /\ handler' = [handler EXCEPT ![c].pc = "replay",
            ![c].rows = get_ws_outbox_events_after(handler[c].session,
                                                   snapshot_event_seq(handler[c].session))]
    /\ UNCHANGED <<events, pending, subscribers, conn, channel, inbox, job, client>>

(* The outbox after the snapshot's cursor; a read that fails replays nothing. *)
replay_persisted_events(c) ==
    /\ handler[c].pc = "query"
    /\ \/ handler' = [handler EXCEPT ![c] = [@ EXCEPT !.pc = "replay", !.cursor = 0,
             !.rows = get_ws_outbox_events_after(handler[c].session, handler[c].cursor)]]
       \/ handler' = [handler EXCEPT ![c] = [@ EXCEPT !.pc = "replay", !.cursor = 0,
                                                       !.stopped = TRUE]]
    /\ UNCHANGED <<events, pending, subscribers, conn, channel, inbox, job, client>>

(* One row of the replay; the first that does not fit ends it. *)
push_replay_direct(c) ==
    /\ handler[c].pc = "replay"
    /\ \E i \in handler[c].rows :
          /\ \A j \in handler[c].rows : i <= j
          /\ IF conn[c].registered /\ ~CannotSend(c)
             THEN /\ ToChannel(c, EventFrame(i, conn[c].epoch))
                  /\ handler' = [handler EXCEPT ![c].rows = @ \ {i}]
             ELSE /\ handler' = [handler EXCEPT ![c].rows = {}, ![c].stopped = TRUE]
                  /\ UNCHANGED channel
    /\ UNCHANGED <<events, pending, subscribers, conn, inbox, job, client>>

(* The session's cache is drained and delivered to whoever is subscribed now. *)
replay_pending(c) ==
    /\ handler[c].pc = "replay" /\ handler[c].rows = {}
    /\ handler' = [handler EXCEPT ![c].pc = "pending", ![c].todo = pending[handler[c].session]]
    /\ pending' = [pending EXCEPT ![handler[c].session] = <<>>]
    /\ UNCHANGED <<events, subscribers, conn, channel, inbox, job, client>>

DeliverPending(c) ==
    /\ handler[c].pc = "pending" /\ job[c].pc = "idle" /\ handler[c].todo # <<>>
    /\ job' = [job EXCEPT ![c] = [NoJob EXCEPT !.pc = "scan", !.id = Head(handler[c].todo)]]
    /\ handler' = [handler EXCEPT ![c].todo = Tail(@)]
    /\ UNCHANGED <<events, pending, subscribers, conn, channel, inbox, client>>

(* The read loop takes the next frame; stopped remembers a replay cut short. *)
BindEnds(c) ==
    /\ handler[c].pc = "pending" /\ job[c].pc = "idle" /\ handler[c].todo = <<>>
    /\ handler' = [handler EXCEPT ![c] = [Idle EXCEPT !.stopped = handler[c].stopped]]
    /\ UNCHANGED <<events, pending, subscribers, conn, channel, inbox, job, client>>

(* Unregistered, unbound and unsubscribed. *)
Unregister(c, socket) ==
    /\ conn' = [conn EXCEPT ![c] = [Fresh EXCEPT !.socket = socket]]
    /\ subscribers' = [s \in Sessions |-> IF s = conn[c].session
                                          THEN subscribers[s] \ {c} ELSE subscribers[s]]

(* The read loop notices that its socket is closed, and ends. *)
disconnect(c) ==
    /\ conn[c].socket = "closed" /\ handler[c].pc = "idle"
    /\ Unregister(c, "gone")
    /\ UNCHANGED <<events, pending, channel, inbox, handler, job, client>>

(* No frame was read for the TTL because the read loop waits inside a handler *)
(* for the database or for a send; the socket stays as it is.                 *)
cleanup_once(c) ==
    /\ conn[c].registered
    /\ handler[c].pc \in {"read", "query"} \/ job[c].pc = "send"
    /\ Unregister(c, conn[c].socket)
    /\ UNCHANGED <<events, pending, channel, inbox, handler, job, client>>

----------------------------------------------------------------------------
(* The client. *)

(* Faulty: frames are told apart by the bind attempt alone. *)
FenceByEpoch(frame) ==
    LET epoch == IF client.wanted # None THEN client.wanted_epoch ELSE client.epoch
    IN frame.session # None => (frame.type = "event" => frame.epoch = epoch)

(* The fence: a routed frame belongs to the session and the bind attempt the  *)
(* client waits for, or else to the ones it is bound to.                      *)
Fenced(frame) ==
    LET session == IF client.wanted # None THEN client.wanted ELSE client.bound
        epoch == IF client.wanted # None THEN client.wanted_epoch ELSE client.epoch
    IN frame.session # None =>
         frame.session = session /\ (frame.type = "event" => frame.epoch = epoch)

(* finishBind without a snapshot: a second attempt also gives the binding up. *)
BindFailed == [client EXCEPT !.wanted = None, !.wanted_epoch = 0, !.rebound = FALSE,
                             !.queued = <<>>, !.bound = IF client.rebound THEN None ELSE @]

(* startBindAttempt: attempts are numbered, and only the last is awaited. *)
startBindAttempt(before, s, again) ==
    /\ client.next < MaxBinds
    /\ client' = [before EXCEPT !.next = @ + 1, !.wanted = s, !.wanted_epoch = client.next + 1,
                                !.rebound = again, !.queued = <<>>]
    /\ inbox' = [inbox EXCEPT ![client.conn] =
                    Append(@, [session |-> s, epoch |-> client.next + 1])]

(* A socket breaks, unnoticed by the server, and the next one is opened and   *)
(* registered (openSocket, handleOpen): the binding was to the old one, and   *)
(* what was under way on it is lost.                                          *)
Connect(c) ==
    /\ conn[c].socket = "new"
    /\ conn' = [d \in Conns |->
                  IF d = c THEN [conn[c] EXCEPT !.registered = TRUE, !.socket = "open"]
                  ELSE IF d = client.conn THEN [conn[d] EXCEPT !.socket = "closed"]
                  ELSE conn[d]]
    /\ channel' = [d \in Conns |-> IF d = client.conn THEN <<>> ELSE channel[d]]
    /\ inbox' = [d \in Conns |-> IF d = client.conn THEN <<>> ELSE inbox[d]]
    /\ client' = [BindFailed EXCEPT !.conn = c, !.bound = None, !.epoch = 0]
    /\ UNCHANGED <<events, pending, subscribers, handler, job>>

bindSessionAndWait(s) ==
    /\ client.conn # None
    /\ startBindAttempt(BindFailed, s, FALSE)
    /\ UNCHANGED <<events, pending, subscribers, conn, channel, handler, job>>

BindTimesOut ==
    /\ client.wanted # None
    /\ client' = BindFailed
    /\ UNCHANGED <<events, pending, subscribers, conn, channel, inbox, handler, job>>

(* The frame at the head of the client's socket. *)
Receives(type) ==
    /\ client.conn # None /\ channel[client.conn] # <<>>
    /\ Head(channel[client.conn]).type = type
    /\ channel' = [channel EXCEPT ![client.conn] = Tail(@)]

Received == Head(channel[client.conn])

(* acceptV4Event drops an event it has seen; a handler applies any other. *)
Accepted(before, ids) ==
    [before EXCEPT !.seen = @ \cup ids, !.view = @ \cup (ids \ before.seen)]

DropFrame ==
    /\ Receives(Received.type) /\ ~Fenced(Received)
    /\ UNCHANGED <<events, pending, subscribers, conn, inbox, handler, job, client>>

(* Faulty: an event is applied although a snapshot is awaited. *)
ApplyAtOnce ==
    /\ Receives("event") /\ Fenced(Received)
    /\ client' = Accepted(client, {Received.id})
    /\ UNCHANGED <<events, pending, subscribers, conn, inbox, handler, job>>

ApplyEvent ==
    /\ Receives("event") /\ Fenced(Received) /\ client.wanted = None
    /\ client' = Accepted(client, {Received.id})
    /\ UNCHANGED <<events, pending, subscribers, conn, inbox, handler, job>>

(* Events wait for the snapshot they follow. *)
QueueEvent ==
    /\ Receives("event") /\ Fenced(Received) /\ client.wanted # None
    /\ Len(client.queued) < QueueLimit
    /\ client' = [client EXCEPT !.queued = Append(@, Received.id)]
    /\ UNCHANGED <<events, pending, subscribers, conn, inbox, handler, job>>

(* rebindOverflow: one more attempt while there is time, then none. *)
QueueOverflows ==
    /\ Receives("event") /\ Fenced(Received) /\ client.wanted # None
    /\ Len(client.queued) >= QueueLimit
    /\ \/ ~client.rebound /\ startBindAttempt(client, client.wanted, TRUE)
       \/ client' = [BindFailed EXCEPT !.bound = None] /\ UNCHANGED inbox
    /\ UNCHANGED <<events, pending, subscribers, conn, handler, job>>

(* handleSessionRestore: the snapshot of the awaited attempt replaces the     *)
(* view, and the events queued behind it are dispatched.                      *)
handleSessionRestore ==
    /\ Receives("session_restored") /\ Fenced(Received)
    /\ client' = IF client.wanted # None /\ Received.epoch = client.wanted_epoch
                 THEN LET restored == [client EXCEPT !.wanted = None, !.wanted_epoch = 0,
                                !.rebound = FALSE, !.queued = <<>>,
                                !.bound = client.wanted, !.epoch = Received.epoch,
                                !.view = Materialized(client.wanted, Received.id)]
                      IN Accepted(restored, {client.queued[i] : i \in DOMAIN client.queued})
                 ELSE client
    /\ UNCHANGED <<events, pending, subscribers, conn, inbox, handler, job>>

(* A late failure of an attempt that is no longer awaited is ignored. *)
protocol_error ==
    /\ Receives("protocol_error") /\ Fenced(Received)
    /\ client' = IF client.wanted # None /\ Received.epoch = client.wanted_epoch
                 THEN BindFailed ELSE client
    /\ UNCHANGED <<events, pending, subscribers, conn, inbox, handler, job>>

----------------------------------------------------------------------------

Deliver(d) ==
    \/ deliver(d)
    \/ \E c \in Conns : VisitSubscriber(d, c)
    \/ SendSucceeds(d)
    \/ SendFails(d)
    \/ DeliverEnds(d)

HandleBind(c) ==
    \/ bind(c) \/ SendRestored(c)
    \/ replay_persisted_events(c) \/ push_replay_direct(c)
    \/ replay_pending(c) \/ DeliverPending(c) \/ BindEnds(c)
    \/ BindUnregistered(c)

Client ==
    \/ \E c \in Conns : Connect(c)
    \/ \E s \in Sessions : bindSessionAndWait(s)
    \/ BindTimesOut
    \/ DropFrame \/ ApplyEvent \/ QueueEvent \/ QueueOverflows
    \/ handleSessionRestore \/ protocol_error

Next ==
    \/ \E p \in Producers, s \in Sessions, kind \in Kinds : push_runtime_event(p, s, kind)
    \/ \E d \in Deliverers : Deliver(d)
    \/ \E c \in Conns : ReadSnapshot(c) \/ RejectBind(c) \/ HandleBind(c)
                        \/ disconnect(c) \/ cleanup_once(c)
    \/ Client

Spec == Init /\ [][Next]_vars

----------------------------------------------------------------------------

(* The rows, the hub, the frames and the client keep their types. *)
TypeOK ==
    /\ events \in Seq(Event) /\ Len(events) <= MaxEvents
    /\ pending \in [Sessions -> Seq(1..MaxEvents)]
    /\ subscribers \in [Sessions -> SUBSET Conns]
    /\ conn \in [Conns -> [registered : BOOLEAN, socket : {"new", "open", "closed", "gone"},
                           session : Sessions \cup {None}, epoch : 0..MaxBinds,
                           degraded : BOOLEAN]]
    /\ channel \in [Conns -> Seq(Frame)]
    /\ inbox \in [Conns -> Seq([session : Sessions, epoch : 1..MaxBinds])]
    /\ handler \in [Conns -> [pc : {"idle", "read", "restore", "query",
                                    "replay", "pending"},
                              session : Sessions \cup {None}, epoch : 0..MaxBinds,
                              cover : 0..MaxEvents, cursor : 0..MaxEvents,
                              rows : SUBSET (1..MaxEvents), todo : Seq(1..MaxEvents),
                              stopped : BOOLEAN]]
    /\ job \in [Deliverers -> [pc : {"idle", "scan", "visit", "send"}, id : 0..MaxEvents,
                               todo : SUBSET Conns, target : Conns \cup {None},
                               epoch : 0..MaxBinds, need : BOOLEAN]]
    /\ client \in [conn : Conns \cup {None}, next : 0..MaxBinds,
                    wanted : Sessions \cup {None}, wanted_epoch : 0..MaxBinds,
                    rebound : BOOLEAN, queued : Seq(1..MaxEvents),
                    bound : Sessions \cup {None}, epoch : 0..MaxBinds,
                    seen : SUBSET (1..MaxEvents), view : SUBSET (1..MaxEvents)]

(* The client and the hub agree on a binding, the last the client asked for,  *)
(* and nothing of it is on its way.                                           *)
Settled(c) ==
    /\ client.conn = c /\ client.wanted = None /\ client.bound # None
    /\ client.epoch = client.next
    /\ conn[c].registered /\ ~conn[c].degraded
    /\ conn[c].session = client.bound /\ conn[c].epoch = client.epoch
    /\ channel[c] = <<>> /\ inbox[c] = <<>> /\ handler[c].pc = "idle"
    /\ \A d \in Deliverers : job[d].pc = "idle" \/ events[job[d].id].session # client.bound

(* A settled client shows every critical durable event of its session,        *)
(* whichever of snapshot, live delivery, outbox and cache brought it, and     *)
(* whatever was evicted, sent to a dead socket, drained by the handler of a   *)
(* dead connection, or fenced off; only a replay that backpressure or a       *)
(* failed read stopped is excepted.                                           *)
NothingMissed ==
    \A c \in Conns : Settled(c) /\ ~handler[c].stopped =>
        \A i \in Materialized(client.bound, Len(events)) :
            events[i].critical => i \in client.view

(* The view never shows an event of another session, although deliver sends   *)
(* to a subscriber without asking what it has been bound to since.            *)
NoForeignEvent ==
    client.bound # None => \A i \in client.view : events[i].session = client.bound

(* Whatever rebinds, repeated snapshots, timeouts and new sockets intervene,  *)
(* a durable event that the client shows stays in its view until it is bound  *)
(* to another session: the snapshot that replaces the view is never older     *)
(* than what the client has shown.                                            *)
ViewKept ==
    [][\A i \in client.view :
          events[i].durable /\ events[i].session = client'.bound => i \in client'.view]_vars

(* The cache never outgrows the limits of one session and of the process. *)
PendingBounded ==
    /\ \A s \in Sessions : Len(pending[s]) <= PendingCapacity
    /\ Cardinality(Cached) <= PendingTotal

(* No push and no bind handler ever waits for the client: each has a step it  *)
(* can take, so that a browser that stops reading cannot stop the engine.     *)
NeverBlocks ==
    /\ \A d \in Deliverers : job[d].pc # "idle" => ENABLED Deliver(d)
    /\ \A c \in Conns : handler[c].pc # "idle" /\ job[c].pc = "idle" => ENABLED HandleBind(c)

=============================================================================
