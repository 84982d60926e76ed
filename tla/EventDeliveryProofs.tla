-------------------------- MODULE EventDeliveryProofs --------------------------
(***************************************************************************)
(* The safety of module EventDelivery for any number of sessions, *)
(* connections, events and bind attempts: a client that is bound as it last *)
(* asked misses no critical durable event and shows none of another *)
(* session, and the cache of the hub keeps its limits. *)
(*  *)
(* NothingMissed speaks of a state where nothing is under way, and is far *)
(* from inductive.  Kept says where each event that the client is owed is *)
(* meanwhile: in a push, in the channel, still in the replay, in the *)
(* snapshot to come or in the client's hands.  That a step moves an event *)
(* from one of these to the next, and drops none, needs to know that bind *)
(* attempts are handled in the order of their numbers (EpochOrder), that *)
(* the attempt the client waits for is bound to the session it asked for *)
(* (SameSession), that its snapshot is not sent before it is bound *)
(* (SnapshotOrder), and that an event the client drops because it has seen *)
(* it is in its view or in the snapshot (SeenShows). *)
(*  *)
(* After the definitions and what the steps of a push, a bind handler and *)
(* the client do, there is one lemma per conjunct of the invariant, with *)
(* one step per action that touches its variables. *)
(***************************************************************************)
EXTENDS EventDelivery, FiniteSetTheorems, SequenceTheorems, TLAPS

(* The events pushed so far. *)
Ids == 1..Len(events)
SentFrame == {f \in Frame : /\ f.id <= Len(events)
                            /\ f.type = "event" => f.id # 0 /\ f.session = events[f.id].session}

(* The types, with every id one of an event that exists. *)
TypeEvents == events \in Seq(Event) /\ Len(events) <= MaxEvents
TypePending == pending \in [Sessions -> Seq(Ids)]
Connection == [registered : BOOLEAN, socket : {"new", "open", "closed", "gone"},
               session : Sessions \cup {None}, epoch : 0..MaxBinds, degraded : BOOLEAN]
TypeHub == subscribers \in [Sessions -> SUBSET Conns] /\ conn \in [Conns -> Connection]
TypeChannel == channel \in [Conns -> Seq(SentFrame)]
Request == [session : Sessions, epoch : 1..MaxBinds]
TypeInbox == inbox \in [Conns -> Seq(Request)]
Handler == [pc : {"idle", "read", "restore", "query", "replay", "pending"},
            session : Sessions \cup {None}, epoch : 0..MaxBinds,
            cover : 0..Len(events), cursor : 0..Len(events),
            rows : SUBSET Ids, todo : Seq(Ids), stopped : BOOLEAN]
TypeHandler == handler \in [Conns -> Handler]
Job == [pc : {"idle", "scan", "visit", "send"}, id : 0..Len(events), todo : SUBSET Conns,
        target : Conns \cup {None}, epoch : 0..MaxBinds, need : BOOLEAN]
TypeJob == job \in [Deliverers -> Job]
Browser == [conn : Conns \cup {None}, next : 0..MaxBinds,
            wanted : Sessions \cup {None}, wanted_epoch : 0..MaxBinds,
            rebound : BOOLEAN, queued : Seq(Ids),
            bound : Sessions \cup {None}, epoch : 0..MaxBinds,
            seen : SUBSET Ids, view : SUBSET Ids]
TypeClient == client \in Browser

(* A connection that is bound is registered and subscribed to what it is *)
(* bound to. *)
ConnShape ==
    \A c \in Conns :
        /\ conn[c].epoch # 0 => conn[c].session # None
        /\ conn[c].session # None => /\ conn[c].registered /\ conn[c].epoch # 0
                                     /\ c \in subscribers[conn[c].session]

(* A connection that was not used yet has nothing under way. *)
NewShape ==
    \A c \in Conns : conn[c].socket = "new" => handler[c].pc = "idle" /\ inbox[c] = <<>>

(* What a bind handler works on; its connection is bound to that, unless it *)
(* was unregistered meanwhile. *)
HandlerShape ==
    \A c \in Conns :
        /\ handler[c].pc # "idle" => handler[c].session # None
        /\ handler[c].pc \in {"read", "restore"} =>
              handler[c].epoch # 0 /\ handler[c].cursor <= handler[c].cover
        /\ handler[c].pc \in {"restore", "query", "replay", "pending"} /\ conn[c].registered =>
              conn[c].session = handler[c].session
        /\ handler[c].pc = "restore" /\ conn[c].registered => conn[c].epoch = handler[c].epoch

JobShape ==
    \A d \in Deliverers :
        /\ job[d].pc # "idle" => job[d].id # 0
        /\ job[d].pc = "send" => job[d].target # None /\ job[d].epoch # 0

(* The client waits for its last attempt and for no other. *)
ClientShape ==
    /\ client.wanted # None => /\ client.wanted_epoch = client.next
                               /\ client.epoch < client.next
                               /\ client.conn # None
    /\ client.wanted = None => client.queued = <<>>
    /\ client.bound # None => client.conn # None /\ client.epoch # 0
    /\ client.conn # None => conn[client.conn].socket = "open"
    /\ client.epoch <= client.next
    /\ \A j \in DOMAIN client.queued : events[client.queued[j]].session = client.wanted

(* Nobody is ahead of the client in the numbers of its attempts. *)
EpochBound ==
    /\ \A d \in Deliverers : job[d].epoch <= client.next
    /\ \A c \in Conns : /\ conn[c].epoch <= client.next /\ handler[c].epoch <= client.next
                        /\ \A f \in Range(channel[c]) : f.epoch <= client.next
                        /\ \A r \in Range(inbox[c]) : r.epoch <= client.next

(* The attempts reach a connection in the order of their numbers. *)
Ascending(q) == \A j, k \in DOMAIN q : j < k => q[j].epoch < q[k].epoch
EpochOrder ==
    \A c \in Conns :
        /\ Ascending(inbox[c])
        /\ \A r \in Range(inbox[c]) :
              /\ conn[c].epoch < r.epoch
              /\ handler[c].pc = "read" => handler[c].epoch < r.epoch
        /\ handler[c].pc = "read" => conn[c].epoch < handler[c].epoch

(* The last attempt is awaited or has succeeded, and its session. *)
Live == client.wanted # None \/ (client.bound # None /\ client.epoch = client.next)
Goal == IF client.wanted # None THEN client.wanted ELSE client.bound

(* Wherever the last attempt is on its connection, it is for that session. *)
SameSession ==
    Live => LET c == client.conn IN
        /\ \A r \in Range(inbox[c]) : r.epoch = client.next => r.session = Goal
        /\ handler[c].pc \in {"read", "restore"} /\ handler[c].epoch = client.next =>
              handler[c].session = Goal
        /\ conn[c].epoch = client.next => conn[c].session = Goal

(* The snapshots of the last attempt that are on their way to the client. *)
Snapshots == {f \in Range(channel[client.conn]) :
                f.type = "session_restored" /\ f.epoch = client.next}

(* There is no snapshot before it is sent. *)
SnapshotOrder ==
    Live /\ conn[client.conn].registered
         /\ (conn[client.conn].epoch # client.next \/ handler[client.conn].pc = "restore")
        => client.wanted # None /\ Snapshots = {}

(* What the client has seen or shows by the time it asks is in the snapshot, *)
(* and what it has seen since is in its view. *)
Known == client.seen \cup client.view
SeenShows ==
    Live => LET c == client.conn IN
        IF client.wanted # None
        THEN /\ handler[c].pc \in {"read", "restore"} /\ handler[c].epoch = client.next =>
                   Known \subseteq 1..handler[c].cover
             /\ \A f \in Snapshots : Known \subseteq 1..f.id
        ELSE client.seen \cap Materialized(Goal, Len(events)) \subseteq client.view

(* The events that are in the client's hands or in its channel. *)
Have ==
    {i \in Ids :
        \/ \E f \in Range(channel[client.conn]) :
              f.type = "event" /\ f.id = i /\ f.epoch = client.next
        \/ client.wanted = None /\ i \in client.view
        \/ client.wanted # None /\ i \in Range(client.queued)
        \/ client.wanted # None /\ \A f \in Snapshots : i <= f.id}

(* Those that a push is about to send to the client. *)
Coming ==
    {i \in Ids : \E d \in Deliverers :
        /\ job[d].id = i
        /\ \/ job[d].pc = "scan"
           \/ job[d].pc \in {"visit", "send"} /\ client.conn \in job[d].todo
           \/ job[d].pc = "send" /\ job[d].target = client.conn /\ job[d].epoch = client.next}

(* Those that the replay has still to read or to send. *)
Replaying ==
    {i \in Ids :
        \/ handler[client.conn].pc = "query" /\ i > handler[client.conn].cursor
        \/ handler[client.conn].pc = "replay" /\ i \in handler[client.conn].rows}

(* Those that the client is owed. *)
Due == {i \in Materialized(Goal, Len(events)) : events[i].critical}

(* The last attempt is bound, and its replay was not cut short. *)
Served ==
    LET c == client.conn IN
    /\ Live /\ conn[c].epoch = client.next /\ ~conn[c].degraded
    /\ ~handler[c].stopped /\ handler[c].pc # "restore"

(* From then on what it is owed is in the replay, in the channel or the *)
(* client, in the snapshot to come, or in a push. *)
Kept == Served => Due \subseteq Replaying \cup Have \cup Coming

(* The cache is finite, and within its limits. *)
CacheBounded == IsFiniteSet(Cached) /\ PendingBounded

(* The inductive invariant. *)
Types ==
    /\ TypeEvents /\ TypePending /\ TypeHub /\ TypeChannel
    /\ TypeInbox /\ TypeHandler /\ TypeJob /\ TypeClient
Shapes == ConnShape /\ NewShape /\ HandlerShape /\ JobShape /\ ClientShape
IInv ==
    /\ Types /\ Shapes
    /\ EpochBound /\ EpochOrder /\ SameSession /\ SnapshotOrder /\ SeenShows
    /\ Kept /\ NoForeignEvent /\ CacheBounded

----------------------------------------------------------------------------

----------------------------------------------------------------------------------
(* The greatest of some numbers up to n. *)
LEMMA Greatest ==
    ASSUME NEW n \in Nat, NEW S \in SUBSET (0..n), S # {}
    PROVE  \E i \in S : \A j \in S : j <= i
<1> DEFINE T == {n - i : i \in S}
<1>1. T \subseteq Nat
  OBVIOUS
<1>2. T # {}
  OBVIOUS
<1>3. PICK x \in T : \A y \in T : ~ (<<y, x>> \in OpToRel(<, Nat))
  BY <1>1, <1>2, WFMin, NatLessThanWellFounded
<1>4. \A y \in T : ~ (y < x)
  BY <1>1, <1>3 DEF OpToRel
<1>5. PICK i \in S : x = n - i
  OBVIOUS
<1>6. \A j \in S : n - j \in T
  OBVIOUS
<1>7. \A j \in S : j <= i
  BY <1>4, <1>5, <1>6
<1>8. QED
  BY <1>7

(* The high-water mark of the outbox is an event that exists, or none. *)
LEMMA HighWater ==
    ASSUME TypeEvents, NEW s \in Sessions
    PROVE  snapshot_event_seq(s) \in 0..Len(events)
<1> DEFINE rows == get_ws_outbox_events_after(s, 0)
<1>1. Len(events) \in Nat
  BY LenProperties DEF TypeEvents
<1>2. rows \in SUBSET (0..Len(events))
  BY <1>1 DEF get_ws_outbox_events_after, Materialized
<1>3. CASE rows = {}
  BY <1>1, <1>3 DEF snapshot_event_seq
<1>4. CASE rows # {}
  <2>1. \E i \in rows : \A j \in rows : j <= i
    BY <1>1, <1>2, <1>4, Greatest
  <2>2. snapshot_event_seq(s) \in rows
    BY <1>4, <2>1 DEF snapshot_event_seq
  <2>3. QED
    BY <1>2, <2>2
<1>5. QED
  BY <1>3, <1>4

(* push_runtime_event adds an event behind the ones there are. *)
LEMMA Pushed ==
    ASSUME TypeEvents, NEW p \in Producers, NEW s \in Sessions, NEW kind \in Kinds,
           push_runtime_event(p, s, kind)
    PROVE  /\ TypeEvents'
           /\ Len(events) \in Nat /\ Len(events') = Len(events) + 1
           /\ \A i \in Ids : i \in Ids' /\ events'[i] = events[i]
           /\ events'[Len(events) + 1].session = s
           /\ Ids \subseteq Ids'
<1> DEFINE e == [session |-> s, critical |-> kind.critical, durable |-> kind.durable]
<1>1. e \in Event
  BY DeliveryAssumption DEF Event
<1>2. events' = Append(events, e) /\ Len(events) < MaxEvents
  BY DEF push_runtime_event
<1>3. /\ events' \in Seq(Event) /\ Len(events') = Len(events) + 1
      /\ \A i \in 1..Len(events) : events'[i] = events[i]
      /\ events'[Len(events) + 1] = e
  BY <1>1, <1>2, AppendProperties DEF TypeEvents
<1>4. Len(events) \in Nat
  BY LenProperties DEF TypeEvents
<1>5. QED
  BY <1>2, <1>3, <1>4, DeliveryAssumption DEF TypeEvents, Ids

(* What a queue holds, with one more and with one less. *)
LEMMA QueueFacts ==
    ASSUME NEW S, NEW q \in Seq(S)
    PROVE  /\ \A x \in S : /\ Append(q, x) \in Seq(S)
                           /\ Range(Append(q, x)) = Range(q) \cup {x}
           /\ q # <<>> => /\ Head(q) \in S /\ Tail(q) \in Seq(S)
                          /\ Range(q) = {Head(q)} \cup Range(Tail(q))
           /\ Range(q) \subseteq S
           /\ Range(<<>>) = {}
<1>1. Len(q) \in Nat /\ DOMAIN q = 1..Len(q)
  BY LenProperties
<1>2. ASSUME NEW x \in S
      PROVE  Append(q, x) \in Seq(S) /\ Range(Append(q, x)) = Range(q) \cup {x}
  <2> DEFINE a == Append(q, x)
  <2>1. /\ a \in Seq(S) /\ Len(a) = Len(q) + 1
        /\ \A i \in 1..Len(q) : a[i] = q[i]
        /\ a[Len(q) + 1] = x
    BY AppendProperties
  <2>2. DOMAIN a = 1..(Len(q) + 1)
    BY <2>1, LenProperties
  <2>3. DOMAIN a = DOMAIN q \cup {Len(q) + 1}
    BY <1>1, <2>2
  <2> HIDE DEF a
  <2>4. Range(a) = Range(q) \cup {x}
    BY <1>1, <2>1, <2>3 DEF Range
  <2>5. QED
    BY <2>1, <2>4 DEF a
<1>3. ASSUME q # <<>>
      PROVE  Head(q) \in S /\ Tail(q) \in Seq(S) /\ Range(q) = {Head(q)} \cup Range(Tail(q))
  <2>1. /\ Head(q) \in S /\ Tail(q) \in Seq(S) /\ Len(Tail(q)) = Len(q) - 1
        /\ \A i \in 1..Len(Tail(q)) : Tail(q)[i] = q[i + 1]
    BY <1>3, HeadTailProperties
  <2>2. Len(q) >= 1
    BY <1>1, <1>3, EmptySeq
  <2>3. DOMAIN Tail(q) = 1..(Len(q) - 1)
    BY <2>1, LenProperties
  <2>4. Head(q) = q[1]
    OBVIOUS
  <2>5. \A j \in 1..Len(q) : j = 1 \/ (j - 1 \in 1..(Len(q) - 1) /\ Tail(q)[j - 1] = q[j])
    BY <1>1, <2>1, <2>2
  <2>6. \A j \in 1..(Len(q) - 1) : j + 1 \in 1..Len(q) /\ Tail(q)[j] = q[j + 1]
    BY <1>1, <2>1, <2>2
  <2>7. 1 \in 1..Len(q)
    BY <1>1, <2>2
  <2> DEFINE r == Tail(q)
  <2>8. /\ DOMAIN r = 1..(Len(q) - 1)
        /\ \A j \in 1..Len(q) : j = 1 \/ (j - 1 \in 1..(Len(q) - 1) /\ r[j - 1] = q[j])
        /\ \A j \in 1..(Len(q) - 1) : j + 1 \in 1..Len(q) /\ r[j] = q[j + 1]
    BY <2>3, <2>5, <2>6
  <2> HIDE DEF r
  <2>9. \A x \in Range(q) : x = q[1] \/ x \in Range(r)
    BY <1>1, <2>8 DEF Range
  <2>10. q[1] \in Range(q) /\ \A x \in Range(r) : x \in Range(q)
    BY <1>1, <2>7, <2>8 DEF Range
  <2>11. Range(q) = {Head(q)} \cup Range(r)
    BY <2>4, <2>9, <2>10
  <2>12. QED
    BY <2>1, <2>11 DEF r
<1>4. Range(q) \subseteq S
  BY <1>1, ElementOfSeq DEF Range
<1>5. Range(<<>>) = {}
  BY DEF Range
<1>6. QED
  BY <1>2, <1>3, <1>4, <1>5

(* Whoever delivers has an event that exists. *)
LEMMA JobEvent ==
    ASSUME TypeEvents, TypeJob, JobShape, NEW d \in Deliverers, job[d].pc # "idle"
    PROVE  /\ job[d].id \in Ids
           /\ events[job[d].id] \in Event
           /\ events[job[d].id].session \in Sessions
<1>1. Len(events) \in Nat
  BY LenProperties DEF TypeEvents
<1>2. job[d].id \in Ids
  BY <1>1 DEF JobShape, TypeJob, Job, Ids
<1>3. events[job[d].id] \in Event
  BY <1>2, ElementOfSeq DEF TypeEvents, Ids
<1>4. QED
  BY <1>2, <1>3 DEF Event

(* Events are only added. *)
LEMMA EventsStep ==
    ASSUME TypeEvents,
           [Next]_vars
    PROVE  TypeEvents'
<1>1. ASSUME UNCHANGED <<events>> PROVE TypeEvents'
  BY <1>1 DEF TypeEvents
<1>2. ASSUME NEW p \in Producers, NEW s \in Sessions, NEW kind \in Kinds,
             push_runtime_event(p, s, kind)
      PROVE  TypeEvents'
  BY <1>2, Pushed
<1>3. ASSUME NEW d \in Deliverers, Deliver(d)
      PROVE  TypeEvents'
  BY <1>3, <1>1 DEF Deliver, deliver, VisitSubscriber, SendSucceeds, SendFails, DeliverEnds
<1>4. ASSUME NEW c \in Conns, ReadSnapshot(c) \/ RejectBind(c) \/ HandleBind(c)
                               \/ disconnect(c) \/ cleanup_once(c)
      PROVE  TypeEvents'
  BY <1>4, <1>1 DEF HandleBind, ReadSnapshot, RejectBind, disconnect, cleanup_once, bind,
     SendRestored, replay_persisted_events, push_replay_direct, replay_pending, DeliverPending,
     BindEnds, BindUnregistered
<1>5. ASSUME Client
      PROVE  TypeEvents'
  BY <1>5, <1>1 DEF Client, Connect, bindSessionAndWait, BindTimesOut, DropFrame, ApplyEvent,
     QueueEvent, QueueOverflows, handleSessionRestore, protocol_error
<1>6. QED
  BY <1>1, <1>2, <1>3, <1>4, <1>5 DEF Next, vars

(* One more event is cached, and perhaps the oldest of a queue dropped. *)
LEMMA Enqueued ==
    ASSUME TypePending, NEW s \in Sessions, NEW i \in Ids, enqueue_pending(s, i), UNCHANGED events
    PROVE  TypePending'
<1> DEFINE q == IF Len(pending[s]) >= PendingCapacity THEN Tail(pending[s]) ELSE pending[s]
           grown == [pending EXCEPT ![s] = Append(q, i)]
<1>1. pending[s] \in Seq(Ids) /\ Len(pending[s]) \in Nat
  BY LenProperties DEF TypePending
<1>2. Len(pending[s]) >= PendingCapacity => pending[s] # <<>>
  BY <1>1, EmptySeq, DeliveryAssumption
<1>3. q \in Seq(Ids)
  BY <1>1, <1>2, QueueFacts
<1>4. Append(q, i) \in Seq(Ids) /\ Append(q, i) # <<>>
  BY <1>3, AppendProperties
<1>5. grown \in [Sessions -> Seq(Ids)]
  BY <1>4 DEF TypePending
<1>6. CASE pending' = grown
  BY <1>5, <1>6 DEF TypePending, Ids
<1>7. ASSUME NEW v \in Victim(s, grown), pending' = [grown EXCEPT ![v] = Tail(grown[v])]
      PROVE  TypePending'
  <2>1. v \in Sessions /\ grown[v] # <<>>
    BY <1>4 DEF Victim, TypePending
  <2>2. Tail(grown[v]) \in Seq(Ids)
    BY <1>5, <2>1, QueueFacts
  <2> HIDE DEF grown
  <2>3. QED
    BY <1>5, <1>7, <2>1, <2>2 DEF TypePending, Ids
<1>8. QED
  BY <1>6, <1>7 DEF enqueue_pending

(* The cache holds events that exist. *)
LEMMA PendingStep ==
    ASSUME TypeEvents, TypePending, TypeJob, JobShape,
           [Next]_vars
    PROVE  TypePending'
<1>1. ASSUME UNCHANGED <<pending, events>> PROVE TypePending'
  BY <1>1 DEF TypePending, Ids
<1>2. ASSUME NEW p \in Producers, NEW s \in Sessions, NEW kind \in Kinds,
             push_runtime_event(p, s, kind)
      PROVE  TypePending'
  <2>1. \A t \in Sessions : pending[t] \in Seq(Ids')
    BY <1>2, Pushed, SeqMonotonic DEF TypePending
  <2>2. QED
    BY <1>2, <2>1 DEF push_runtime_event, TypePending
<1>3. ASSUME NEW d \in Deliverers, deliver(d)
      PROVE  TypePending'
  <2>1. job[d].id \in Ids /\ events[job[d].id].session \in Sessions
    BY <1>3, JobEvent DEF deliver
  <2>2. QED
    BY <1>3, <2>1, Enqueued DEF deliver, TypePending, Ids
<1>4. ASSUME NEW d \in Deliverers, DeliverEnds(d)
      PROVE  TypePending'
  <2>1. job[d].id \in Ids /\ events[job[d].id].session \in Sessions
    BY <1>4, JobEvent DEF DeliverEnds
  <2>2. QED
    BY <1>4, <2>1, Enqueued DEF DeliverEnds
<1>5. ASSUME NEW c \in Conns, replay_pending(c)
      PROVE  TypePending'
  BY <1>5, EmptySeq DEF replay_pending, TypePending, Ids
<1>6. ASSUME NEW d \in Deliverers, Deliver(d)
      PROVE  TypePending'
  BY <1>6, <1>1, <1>3, <1>4 DEF Deliver, VisitSubscriber, SendSucceeds, SendFails
<1>7. ASSUME NEW c \in Conns, ReadSnapshot(c) \/ RejectBind(c) \/ HandleBind(c)
                               \/ disconnect(c) \/ cleanup_once(c)
      PROVE  TypePending'
  BY <1>7, <1>1, <1>5 DEF HandleBind, ReadSnapshot, RejectBind, disconnect, cleanup_once, bind,
     SendRestored, replay_persisted_events, push_replay_direct, DeliverPending, BindEnds,
     BindUnregistered
<1>8. ASSUME Client
      PROVE  TypePending'
  BY <1>8, <1>1 DEF Client, Connect, bindSessionAndWait, BindTimesOut, DropFrame, ApplyEvent,
     QueueEvent, QueueOverflows, handleSessionRestore, protocol_error
<1>9. QED
  BY <1>1, <1>2, <1>6, <1>7, <1>8 DEF Next, vars


(* Unregister takes a connection out of the hub, and no other. *)
LEMMA Unregistered ==
    ASSUME TypeHub, NEW c \in Conns, NEW socket \in {"new", "open", "closed", "gone"},
           Unregister(c, socket)
    PROVE  /\ TypeHub'
           /\ ~ conn'[c].registered /\ conn'[c].session = None /\ conn'[c].epoch = 0
           /\ conn'[c].socket = socket
           /\ \A x \in Conns : x # c =>
                 conn'[x] = conn[x] /\ \A s \in Sessions : x \in subscribers'[s] <=> x \in subscribers[s]
<1> DEFINE new == [Fresh EXCEPT !.socket = socket]
<1>1. /\ new \in Connection
      /\ ~ new.registered /\ new.session = None /\ new.epoch = 0 /\ new.socket = socket
  <2>1. 0 \in 0..MaxBinds
    BY DeliveryAssumption
  <2>2. new \in Connection
    BY <2>1 DEF Fresh, Connection
  <2>3. QED
    BY <2>2 DEF Fresh
<1>2. conn' = [conn EXCEPT ![c] = new]
  BY DEF Unregister
<1> HIDE DEF new
<1>3. conn' \in [Conns -> Connection] /\ conn'[c] = new /\ \A x \in Conns : x # c => conn'[x] = conn[x]
  BY <1>1, <1>2 DEF TypeHub
<1>4. /\ subscribers' \in [Sessions -> SUBSET Conns]
      /\ \A x \in Conns : x # c => \A s \in Sessions : x \in subscribers'[s] <=> x \in subscribers[s]
  BY DEF Unregister, TypeHub
<1>5. QED
  BY <1>1, <1>3, <1>4 DEF TypeHub

(* bind puts a connection under another session and attempt. *)
LEMMA Bound ==
    ASSUME TypeHub, TypeHandler, HandlerShape, NEW c \in Conns, bind(c)
    PROVE  /\ TypeHub'
           /\ conn'[c].registered /\ conn'[c].session = handler[c].session
           /\ conn'[c].epoch = handler[c].epoch /\ conn'[c].socket = conn[c].socket
           /\ ~ conn'[c].degraded
           /\ handler[c].session \in Sessions /\ c \in subscribers'[handler[c].session]
           /\ \A x \in Conns : x # c =>
                 conn'[x] = conn[x] /\ \A s \in Sessions : x \in subscribers'[s] <=> x \in subscribers[s]
<1> DEFINE new == [conn[c] EXCEPT !.session = handler[c].session, !.epoch = handler[c].epoch,
                                  !.degraded = FALSE]
<1>1. handler[c].session \in Sessions /\ handler[c].epoch \in 0..MaxBinds /\ conn[c].registered
  BY DEF bind, HandlerShape, TypeHandler, Handler
<1>2. conn[c] \in Connection
  BY DEF TypeHub
<1>3. /\ new \in Connection /\ new.registered /\ new.session = handler[c].session
      /\ new.epoch = handler[c].epoch /\ new.socket = conn[c].socket /\ ~ new.degraded
  BY <1>1, <1>2 DEF Connection
<1>4. conn' = [conn EXCEPT ![c] = new]
  BY DEF bind
<1> HIDE DEF new
<1>5. conn' \in [Conns -> Connection] /\ conn'[c] = new /\ \A x \in Conns : x # c => conn'[x] = conn[x]
  BY <1>3, <1>4 DEF TypeHub
<1>6. /\ subscribers' \in [Sessions -> SUBSET Conns] /\ c \in subscribers'[handler[c].session]
      /\ \A x \in Conns : x # c => \A s \in Sessions : x \in subscribers'[s] <=> x \in subscribers[s]
  BY <1>1 DEF bind, TypeHub
<1>7. QED
  BY <1>1, <1>3, <1>5, <1>6 DEF TypeHub

(* A send that fails only degrades its target, if the event was critical. *)
LEMMA Degrades ==
    ASSUME TypeEvents, TypeHub, TypeJob, JobShape, NEW d \in Deliverers, SendFails(d)
    PROVE  /\ TypeHub'
           /\ job[d].target \in Conns
           /\ \A x \in Conns : /\ conn'[x].registered = conn[x].registered
                               /\ conn'[x].session = conn[x].session
                               /\ conn'[x].epoch = conn[x].epoch
                               /\ conn'[x].socket = conn[x].socket
                               /\ ~ conn'[x].degraded => ~ conn[x].degraded
           /\ events[job[d].id].critical => conn'[job[d].target].degraded
<1> DEFINE t == job[d].target
           new == [conn[t] EXCEPT !.degraded = conn[t].degraded \/ events[job[d].id].critical]
<1>1. t \in Conns
  BY DEF SendFails, JobShape, TypeJob, Job
<1>2. events[job[d].id].critical \in BOOLEAN
  BY JobEvent DEF SendFails, Event
<1>3. conn[t] \in Connection
  BY <1>1 DEF TypeHub
<1>4. (conn[t].degraded \/ events[job[d].id].critical) \in BOOLEAN
  OBVIOUS
<1>5. /\ new \in Connection
      /\ new.registered = conn[t].registered /\ new.session = conn[t].session
      /\ new.epoch = conn[t].epoch /\ new.socket = conn[t].socket
      /\ new.degraded = (conn[t].degraded \/ events[job[d].id].critical)
  BY <1>3, <1>4 DEF Connection
<1>6. conn' = [conn EXCEPT ![t] = new]
  BY <1>1, <1>3 DEF SendFails, Connection
<1> HIDE DEF new
<1>7. conn' \in [Conns -> Connection] /\ conn'[t] = new /\ \A x \in Conns : x # t => conn'[x] = conn[x]
  BY <1>1, <1>5, <1>6 DEF TypeHub
<1>8. UNCHANGED subscribers
  BY DEF SendFails
<1>9. QED
  BY <1>1, <1>5, <1>7, <1>8 DEF TypeHub

(* A new socket is registered and the client's former one closed. *)
LEMMA Connected ==
    ASSUME TypeHub, NEW c \in Conns, Connect(c)
    PROVE  /\ TypeHub'
           /\ conn'[c].registered /\ conn'[c].socket = "open"
           /\ \A x \in Conns : /\ conn'[x].session = conn[x].session
                               /\ conn'[x].epoch = conn[x].epoch
                               /\ x # c => conn'[x].registered = conn[x].registered
                               /\ x # c /\ x # client.conn => conn'[x] = conn[x]
<1> DEFINE F == [x \in Conns |->
                   IF x = c THEN [conn[c] EXCEPT !.registered = TRUE, !.socket = "open"]
                   ELSE IF x = client.conn THEN [conn[x] EXCEPT !.socket = "closed"] ELSE conn[x]]
<1>1. \A x \in Conns : conn[x] \in Connection
  BY DEF TypeHub
<1>2. conn' = F /\ F = [x \in Conns |-> F[x]]
  BY DEF Connect
<1>3. \A x \in Conns : /\ F[x] \in Connection
                       /\ F[x].session = conn[x].session /\ F[x].epoch = conn[x].epoch
                       /\ x # c => F[x].registered = conn[x].registered
                       /\ x # c /\ x # client.conn => F[x] = conn[x]
  BY <1>1 DEF Connection
<1>4. F[c].registered /\ F[c].socket = "open"
  BY <1>1 DEF Connection
<1> HIDE DEF F
<1>5. conn' \in [Conns -> Connection] /\ \A x \in Conns : conn'[x] = F[x]
  BY <1>2, <1>3
<1>6. UNCHANGED subscribers
  BY DEF Connect
<1>7. QED
  BY <1>3, <1>4, <1>5, <1>6 DEF TypeHub

(* The hub keeps its types. *)
LEMMA HubStep ==
    ASSUME TypeEvents, TypeHub, TypeJob, TypeHandler, JobShape, HandlerShape,
           [Next]_vars
    PROVE  TypeHub'
<1>1. ASSUME UNCHANGED <<conn, subscribers>> PROVE TypeHub'
  BY <1>1 DEF TypeHub
<1>2. ASSUME NEW d \in Deliverers, SendFails(d)
      PROVE  TypeHub'
  BY <1>2, Degrades
<1>3. ASSUME NEW c \in Conns, disconnect(c)
      PROVE  TypeHub'
  BY <1>3, Unregistered DEF disconnect
<1>4. ASSUME NEW c \in Conns, cleanup_once(c)
      PROVE  TypeHub'
  BY <1>4, Unregistered DEF cleanup_once, TypeHub, Connection
<1>5. ASSUME NEW c \in Conns, bind(c)
      PROVE  TypeHub'
  BY <1>5, Bound
<1>6. ASSUME NEW c \in Conns, Connect(c)
      PROVE  TypeHub'
  BY <1>6, Connected
<1>7. ASSUME NEW d \in Deliverers, Deliver(d)
      PROVE  TypeHub'
  BY <1>7, <1>1, <1>2 DEF Deliver, deliver, VisitSubscriber, SendSucceeds, DeliverEnds
<1>8. ASSUME NEW c \in Conns, ReadSnapshot(c) \/ RejectBind(c) \/ HandleBind(c)
                               \/ disconnect(c) \/ cleanup_once(c)
      PROVE  TypeHub'
  BY <1>8, <1>1, <1>3, <1>4, <1>5 DEF HandleBind, ReadSnapshot, RejectBind, SendRestored,
     replay_persisted_events, push_replay_direct, replay_pending, DeliverPending, BindEnds,
     BindUnregistered
<1>9. ASSUME Client
      PROVE  TypeHub'
  BY <1>9, <1>1, <1>6 DEF Client, bindSessionAndWait, BindTimesOut, DropFrame, ApplyEvent,
     QueueEvent, QueueOverflows, handleSessionRestore, protocol_error
<1>10. QED
  BY <1>1, <1>7, <1>8, <1>9 DEF Next, vars, push_runtime_event

(* A frame is kept by a later push, and an event makes one. *)
LEMMA FrameFacts ==
    ASSUME TypeEvents
    PROVE  \A i \in Ids, e \in 1..MaxBinds : EventFrame(i, e) \in SentFrame
<1> SUFFICES ASSUME NEW i \in Ids, NEW e \in 1..MaxBinds PROVE EventFrame(i, e) \in SentFrame
  OBVIOUS
<1>1. Len(events) \in Nat /\ Len(events) <= MaxEvents
  BY LenProperties DEF TypeEvents
<1>2. i \in 0..MaxEvents /\ i <= Len(events) /\ i # 0
  BY <1>1, DeliveryAssumption DEF Ids
<1>3. events[i].session \in Sessions
  <2>1. events[i] \in Event
    BY ElementOfSeq DEF TypeEvents, Ids
  <2>2. QED
    BY <2>1 DEF Event
<1>4. QED
  BY <1>2, <1>3 DEF EventFrame, SentFrame, Frame

(* ToChannel adds the frame, unless the socket is gone. *)
LEMMA Sent ==
    ASSUME TypeChannel, NEW c \in Conns, NEW f \in SentFrame, ToChannel(c, f)
    PROVE  /\ channel' \in [Conns -> Seq(SentFrame)]
           /\ \A x \in Conns : x # c => channel'[x] = channel[x]
           /\ \/ channel'[c] = channel[c]
              \/ channel'[c] = Append(channel[c], f) /\ Range(channel'[c]) = Range(channel[c]) \cup {f}
           /\ conn[c].socket = "open" => channel'[c] = Append(channel[c], f)
<1>1. channel[c] \in Seq(SentFrame)
  BY DEF TypeChannel
<1>2. Append(channel[c], f) \in Seq(SentFrame) /\ Range(Append(channel[c], f)) = Range(channel[c]) \cup {f}
  BY <1>1, QueueFacts
<1>3. QED
  BY <1>1, <1>2 DEF ToChannel, TypeChannel

(* The head of the client's socket is taken. *)
LEMMA Took ==
    ASSUME TypeClient, TypeChannel, NEW type, Receives(type)
    PROVE  /\ client.conn \in Conns
           /\ Received \in SentFrame /\ Received.type = type
           /\ channel' \in [Conns -> Seq(SentFrame)]
           /\ \A x \in Conns : x # client.conn => channel'[x] = channel[x]
           /\ Range(channel[client.conn]) = {Received} \cup Range(channel'[client.conn])
<1>1. client.conn \in Conns
  BY DEF Receives, TypeClient, Browser
<1>2. channel[client.conn] \in Seq(SentFrame) /\ channel[client.conn] # <<>>
  BY <1>1 DEF Receives, TypeChannel
<1>3. /\ Received \in SentFrame /\ Tail(channel[client.conn]) \in Seq(SentFrame)
      /\ Range(channel[client.conn]) = {Received} \cup Range(Tail(channel[client.conn]))
  BY <1>2, QueueFacts DEF Received
<1>4. channel' = [channel EXCEPT ![client.conn] = Tail(channel[client.conn])]
  BY DEF Receives
<1>5. QED
  BY <1>1, <1>3, <1>4 DEF TypeChannel, Receives, Received

(* A bind handler's own frame. *)
LEMMA Direct ==
    ASSUME TypeEvents, TypeChannel, TypeHub, TypeHandler, HandlerShape, NEW c \in Conns,
           NEW type \in {"session_restored", "protocol_error"},
           handler[c].pc \in {"read", "restore"}, push_direct(c, type)
    PROVE  /\ channel' \in [Conns -> Seq(SentFrame)]
           /\ \A x \in Conns : x # c => channel'[x] = channel[x]
           /\ \/ channel'[c] = channel[c]
              \/ /\ conn[c].registered
                 /\ \E f \in SentFrame :
                       /\ f.type = type /\ f.id = handler[c].cover /\ f.epoch = handler[c].epoch
                       /\ Range(channel'[c]) = Range(channel[c]) \cup {f}
<1> DEFINE f == [type |-> type, id |-> handler[c].cover,
                 session |-> conn[c].session, epoch |-> handler[c].epoch]
<1>1. Len(events) \in Nat /\ Len(events) <= MaxEvents
  BY LenProperties DEF TypeEvents
<1>2. handler[c].cover \in 0..Len(events) /\ handler[c].epoch \in 1..MaxBinds
  BY DeliveryAssumption DEF TypeHandler, Handler, HandlerShape
<1>3. f \in SentFrame
  BY <1>1, <1>2, DeliveryAssumption DEF SentFrame, Frame, TypeHub, Connection
<1>4. CASE UNCHANGED channel
  BY <1>4 DEF TypeChannel
<1>5. CASE conn[c].registered /\ ToChannel(c, f)
  BY <1>3, <1>5, Sent
<1>6. QED
  BY <1>4, <1>5 DEF push_direct

(* Channels hold frames of events that exist. *)
LEMMA ChannelStep ==
    ASSUME TypeEvents, TypeHub, TypeChannel, TypeHandler, TypeJob, TypeClient, ConnShape,
           HandlerShape, JobShape,
           [Next]_vars
    PROVE  TypeChannel'
<1>1. ASSUME UNCHANGED <<channel, events>> PROVE TypeChannel'
  BY <1>1 DEF TypeChannel, SentFrame
<1>2. ASSUME NEW p \in Producers, NEW s \in Sessions, NEW kind \in Kinds,
             push_runtime_event(p, s, kind)
      PROVE  TypeChannel'
  <2>1. SentFrame \subseteq SentFrame'
    BY <1>2, Pushed, DeliveryAssumption DEF SentFrame, Frame, Ids
  <2>2. \A c \in Conns : channel[c] \in Seq(SentFrame')
    BY <2>1, SeqMonotonic DEF TypeChannel
  <2>3. QED
    BY <1>2, <2>2 DEF push_runtime_event, TypeChannel
<1>3. ASSUME NEW d \in Deliverers, SendSucceeds(d)
      PROVE  TypeChannel'
  <2>1. job[d].target \in Conns /\ job[d].epoch \in 1..MaxBinds /\ job[d].id \in Ids
    BY <1>3, JobEvent, DeliveryAssumption DEF SendSucceeds, JobShape, TypeJob, Job
  <2>2. QED
    BY <1>3, <2>1, FrameFacts, Sent DEF SendSucceeds, TypeChannel, SentFrame
<1>4. ASSUME NEW c \in Conns, RejectBind(c)
      PROVE  TypeChannel'
  <2>1. push_direct(c, "protocol_error") /\ handler[c].pc \in {"read", "restore"} /\ UNCHANGED events
    BY <1>4 DEF RejectBind
  <2>2. QED
    BY <2>1, Direct DEF TypeChannel, SentFrame
<1>5. ASSUME NEW c \in Conns, SendRestored(c)
      PROVE  TypeChannel'
  <2>1. push_direct(c, "session_restored") /\ handler[c].pc \in {"read", "restore"} /\ UNCHANGED events
    BY <1>5 DEF SendRestored
  <2>2. QED
    BY <2>1, Direct DEF TypeChannel, SentFrame
<1>6. ASSUME NEW c \in Conns, push_replay_direct(c)
      PROVE  TypeChannel'
  <2>1. ASSUME conn[c].registered PROVE conn[c].epoch \in 1..MaxBinds
    BY <1>6, <2>1, DeliveryAssumption DEF push_replay_direct, HandlerShape, ConnShape, TypeHub,
       Connection
  <2>2. ASSUME NEW i \in handler[c].rows, conn[c].registered, ToChannel(c, EventFrame(i,
               conn[c].epoch))
        PROVE  channel' \in [Conns -> Seq(SentFrame)]
    <3>1. EventFrame(i, conn[c].epoch) \in SentFrame
      BY <2>1, <2>2, FrameFacts DEF TypeHandler, Handler
    <3>2. QED
      BY <2>2, <3>1, Sent
  <2>3. channel' \in [Conns -> Seq(SentFrame)]
    BY <1>6, <2>2 DEF push_replay_direct, TypeChannel
  <2>4. QED
    BY <1>6, <2>3 DEF push_replay_direct, TypeChannel, SentFrame
<1>7. ASSUME NEW c \in Conns, Connect(c)
      PROVE  TypeChannel'
  <2>1. <<>> \in Seq(SentFrame)
    BY EmptySeq
  <2>2. QED
    BY <1>7, <2>1 DEF Connect, TypeChannel, SentFrame
<1>8. ASSUME DropFrame
      PROVE  TypeChannel'
  BY <1>8, Took DEF DropFrame, TypeChannel, SentFrame
<1>9. ASSUME ApplyEvent
      PROVE  TypeChannel'
  BY <1>9, Took DEF ApplyEvent, TypeChannel, SentFrame
<1>10. ASSUME QueueEvent
      PROVE  TypeChannel'
  BY <1>10, Took DEF QueueEvent, TypeChannel, SentFrame
<1>11. ASSUME QueueOverflows
      PROVE  TypeChannel'
  BY <1>11, Took DEF QueueOverflows, TypeChannel, SentFrame
<1>12. ASSUME handleSessionRestore
      PROVE  TypeChannel'
  BY <1>12, Took DEF handleSessionRestore, TypeChannel, SentFrame
<1>13. ASSUME protocol_error
      PROVE  TypeChannel'
  BY <1>13, Took DEF protocol_error, TypeChannel, SentFrame
<1>14. ASSUME NEW d \in Deliverers, Deliver(d)
      PROVE  TypeChannel'
  BY <1>14, <1>1, <1>3 DEF Deliver, deliver, VisitSubscriber, SendFails, DeliverEnds
<1>15. ASSUME NEW c \in Conns, ReadSnapshot(c) \/ RejectBind(c) \/ HandleBind(c)
                               \/ disconnect(c) \/ cleanup_once(c)
      PROVE  TypeChannel'
  BY <1>15, <1>1, <1>4, <1>5, <1>6 DEF HandleBind, ReadSnapshot, disconnect, cleanup_once, bind,
     replay_persisted_events, replay_pending, DeliverPending, BindEnds, BindUnregistered
<1>16. ASSUME Client
      PROVE  TypeChannel'
  BY <1>16, <1>1, <1>7, <1>8, <1>9, <1>10, <1>11, <1>12, <1>13 DEF Client, bindSessionAndWait,
     BindTimesOut
<1>17. QED
  BY <1>1, <1>2, <1>14, <1>15, <1>16 DEF Next, vars


(* Where every count starts, and the records that everything returns to. *)
LEMMA Basics ==
    ASSUME TypeEvents
    PROVE  /\ Len(events) \in Nat /\ Len(events) <= MaxEvents
           /\ 0 \in 0..Len(events) /\ 0 \in 0..MaxBinds
           /\ NoJob \in Job /\ Idle \in Handler
<1>1. Len(events) \in Nat /\ Len(events) <= MaxEvents
  BY LenProperties DEF TypeEvents
<1>2. 0 \in 0..Len(events) /\ 0 \in 0..MaxBinds
  BY <1>1, DeliveryAssumption
<1>3. NoJob \in Job
  BY <1>2 DEF NoJob, Job
<1>4. <<>> \in Seq(Ids)
  BY EmptySeq
<1>5. Idle \in Handler
  BY <1>2, <1>4 DEF Idle, Handler
<1>6. QED
  BY <1>1, <1>2, <1>3, <1>5

(* finishBind without a snapshot. *)
LEMMA Failed ==
    ASSUME TypeClient
    PROVE  /\ BindFailed \in Browser
           /\ BindFailed.conn = client.conn /\ BindFailed.next = client.next
           /\ BindFailed.wanted = None /\ BindFailed.wanted_epoch = 0
           /\ BindFailed.queued = <<>> /\ BindFailed.bound \in {None, client.bound}
           /\ BindFailed.epoch = client.epoch
           /\ BindFailed.seen = client.seen /\ BindFailed.view = client.view
<1>1. client \in Browser
  BY DEF TypeClient
<1>2. 0 \in 0..MaxBinds /\ <<>> \in Seq(Ids)
  BY DeliveryAssumption, EmptySeq
<1>3. QED
  BY <1>1, <1>2 DEF BindFailed, Browser

(* A new attempt: the client waits for it, and its request is on its way. *)
LEMMA Asked ==
    ASSUME TypeClient, TypeInbox, client.conn # None, NEW before \in Browser, NEW s \in Sessions,
           NEW again \in BOOLEAN, before.next = client.next, startBindAttempt(before, s, again)
    PROVE  /\ client' \in Browser
           /\ client'.conn = before.conn /\ client'.next = client.next + 1
           /\ client'.wanted = s /\ client'.wanted_epoch = client.next + 1
           /\ client'.queued = <<>> /\ client'.bound = before.bound /\ client'.epoch = before.epoch
           /\ client'.seen = before.seen /\ client'.view = before.view
           /\ client.next \in Nat /\ client.conn \in Conns
           /\ inbox' \in [Conns -> Seq(Request)]
           /\ \A x \in Conns : x # client.conn => inbox'[x] = inbox[x]
           /\ inbox'[client.conn] = Append(inbox[client.conn],
                                           [session |-> s, epoch |-> client.next + 1])
<1> DEFINE req == [session |-> s, epoch |-> client.next + 1]
<1>1. client \in Browser
  BY DEF TypeClient
<1>2. client.next \in Nat /\ client.next + 1 \in 1..MaxBinds /\ client.conn \in Conns
  BY <1>1, DeliveryAssumption DEF Browser, startBindAttempt
<1>3. <<>> \in Seq(Ids)
  BY EmptySeq
<1>4. client' = [before EXCEPT !.next = client.next + 1, !.wanted = s,
                               !.wanted_epoch = client.next + 1, !.rebound = again,
                               !.queued = <<>>]
  BY DEF startBindAttempt
<1>5. client.next + 1 \in 0..MaxBinds
  BY <1>2
<1>6. /\ client' \in Browser
      /\ client'.conn = before.conn /\ client'.next = client.next + 1
      /\ client'.wanted = s /\ client'.wanted_epoch = client.next + 1
      /\ client'.queued = <<>> /\ client'.bound = before.bound /\ client'.epoch = before.epoch
      /\ client'.seen = before.seen /\ client'.view = before.view
  BY <1>3, <1>4, <1>5 DEF Browser
<1>7. req \in Request
  BY <1>2 DEF Request
<1>8. inbox[client.conn] \in Seq(Request)
  BY <1>2 DEF TypeInbox
<1>9. Append(inbox[client.conn], req) \in Seq(Request)
  BY <1>7, <1>8, AppendProperties
<1>10. inbox' = [inbox EXCEPT ![client.conn] = Append(inbox[client.conn], req)]
  BY DEF startBindAttempt
<1> HIDE DEF req
<1>11. /\ inbox' \in [Conns -> Seq(Request)]
       /\ \A x \in Conns : x # client.conn => inbox'[x] = inbox[x]
       /\ inbox'[client.conn] = Append(inbox[client.conn], req)
  <2>1. inbox \in [Conns -> Seq(Request)]
    BY DEF TypeInbox
  <2>2. QED
    BY <1>2, <1>9, <1>10, <2>1
<1>12. QED
  BY <1>2, <1>6, <1>11 DEF req

(* Bind requests keep their types. *)
LEMMA InboxStep ==
    ASSUME TypeInbox, TypeClient,
           [Next]_vars
    PROVE  TypeInbox'
<1>1. ASSUME UNCHANGED <<inbox>> PROVE TypeInbox'
  BY <1>1 DEF TypeInbox
<1>2. ASSUME NEW c \in Conns, ReadSnapshot(c)
      PROVE  TypeInbox'
  <2>1. inbox[c] \in Seq(Request) /\ inbox[c] # <<>>
    BY <1>2 DEF ReadSnapshot, TypeInbox
  <2>2. Tail(inbox[c]) \in Seq(Request)
    BY <2>1, QueueFacts
  <2>3. QED
    BY <1>2, <2>2 DEF ReadSnapshot, TypeInbox
<1>3. ASSUME NEW c \in Conns, Connect(c)
      PROVE  TypeInbox'
  <2>1. <<>> \in Seq(Request)
    BY EmptySeq
  <2>2. QED
    BY <1>3, <2>1 DEF Connect, TypeInbox
<1>4. ASSUME NEW s \in Sessions, bindSessionAndWait(s)
      PROVE  TypeInbox'
  <2>1. client.conn # None /\ startBindAttempt(BindFailed, s, FALSE)
    BY <1>4 DEF bindSessionAndWait
  <2>2. QED
    BY <2>1, Failed, Asked DEF TypeInbox
<1>5. ASSUME QueueOverflows
      PROVE  TypeInbox'
  <2>1. CASE UNCHANGED inbox
    BY <2>1 DEF TypeInbox
  <2>2. CASE startBindAttempt(client, client.wanted, TRUE)
    <3>1. client.wanted \in Sessions /\ client \in Browser /\ client.conn # None
      BY <1>5 DEF QueueOverflows, Receives, TypeClient, Browser
    <3>2. QED
      BY <2>2, <3>1, Asked DEF TypeInbox
  <2>3. QED
    BY <1>5, <2>1, <2>2 DEF QueueOverflows
<1>6. ASSUME NEW d \in Deliverers, Deliver(d)
      PROVE  TypeInbox'
  BY <1>6, <1>1 DEF Deliver, deliver, VisitSubscriber, SendSucceeds, SendFails, DeliverEnds
<1>7. ASSUME NEW c \in Conns, ReadSnapshot(c) \/ RejectBind(c) \/ HandleBind(c)
                               \/ disconnect(c) \/ cleanup_once(c)
      PROVE  TypeInbox'
  BY <1>7, <1>1, <1>2 DEF HandleBind, RejectBind, disconnect, cleanup_once, bind, SendRestored,
     replay_persisted_events, push_replay_direct, replay_pending, DeliverPending, BindEnds,
     BindUnregistered
<1>8. ASSUME Client
      PROVE  TypeInbox'
  BY <1>8, <1>1, <1>3, <1>4, <1>5 DEF Client, BindTimesOut, DropFrame, ApplyEvent, QueueEvent,
     handleSessionRestore, protocol_error
<1>9. QED
  BY <1>1, <1>6, <1>7, <1>8 DEF Next, vars, push_runtime_event

(* A handler works on events that exist. *)
LEMMA HandlerStep ==
    ASSUME TypeEvents, TypePending, TypeInbox, TypeHandler, HandlerShape,
           [Next]_vars
    PROVE  TypeHandler'
<1>1. ASSUME UNCHANGED <<handler, events>> PROVE TypeHandler'
  BY <1>1 DEF TypeHandler, Handler, Ids
<1>2. ASSUME NEW p \in Producers, NEW s \in Sessions, NEW kind \in Kinds,
             push_runtime_event(p, s, kind)
      PROVE  TypeHandler'
  <2>1. 0..Len(events) \subseteq 0..Len(events') /\ Ids \subseteq Ids'
    BY <1>2, Pushed
  <2>2. Seq(Ids) \subseteq Seq(Ids')
    BY <2>1, SeqMonotonic
  <2>3. Handler \subseteq Handler'
    BY <2>1, <2>2 DEF Handler
  <2>4. QED
    BY <1>2, <2>3 DEF push_runtime_event, TypeHandler
<1>3. ASSUME NEW c \in Conns, ReadSnapshot(c)
      PROVE  TypeHandler'
  <2> DEFINE r == Head(inbox[c])
             new == [pc |-> "read", session |-> r.session, epoch |-> r.epoch, cover |-> Len(events),
                     cursor |-> snapshot_event_seq(r.session), rows |-> {}, todo |-> <<>>,
                     stopped |-> FALSE]
  <2>1. inbox[c] \in Seq(Request) /\ inbox[c] # <<>>
    BY <1>3 DEF ReadSnapshot, TypeInbox
  <2>2. r \in Request
    BY <2>1, QueueFacts
  <2>3. snapshot_event_seq(r.session) \in 0..Len(events) /\ r.epoch \in 0..MaxBinds
    BY <2>2, HighWater DEF Request
  <2>4. Len(events) \in 0..Len(events) /\ <<>> \in Seq(Ids)
    BY Basics, EmptySeq
  <2>5. new \in Handler
    BY <2>2, <2>3, <2>4 DEF Handler, Request
  <2>6. handler' = [handler EXCEPT ![c] = new] /\ UNCHANGED events
    BY <1>3 DEF ReadSnapshot
  <2> HIDE DEF new
  <2>7. QED
    BY <2>5, <2>6 DEF TypeHandler, Handler, Ids
<1>4. ASSUME NEW c \in Conns, RejectBind(c)
      PROVE  TypeHandler'
  <2>1. handler' = [handler EXCEPT ![c] = Idle] /\ UNCHANGED events
    BY <1>4 DEF RejectBind
  <2>2. QED
    BY <2>1, Basics DEF TypeHandler, Handler, Ids
<1>5. ASSUME NEW c \in Conns, bind(c)
      PROVE  TypeHandler'
  <2> DEFINE new == [handler[c] EXCEPT !.pc = "restore"]
  <2>1. handler[c] \in Handler
    BY DEF TypeHandler
  <2>5. new \in Handler
    BY <2>1 DEF Handler
  <2>6. handler' = [handler EXCEPT ![c] = new] /\ UNCHANGED events
    BY <1>5, <2>1 DEF bind, Handler
  <2> HIDE DEF new
  <2>7. QED
    BY <2>5, <2>6 DEF TypeHandler, Handler, Ids
<1>6. ASSUME NEW c \in Conns, SendRestored(c)
      PROVE  TypeHandler'
  <2> DEFINE new == [handler[c] EXCEPT !.pc = "query", !.cover = 0, !.epoch = 0]
  <2>1. handler[c] \in Handler
    BY DEF TypeHandler
  <2>5. new \in Handler
    BY <2>1, Basics DEF Handler
  <2>6. handler' = [handler EXCEPT ![c] = new] /\ UNCHANGED events
    BY <1>6, <2>1 DEF SendRestored, Handler
  <2> HIDE DEF new
  <2>7. QED
    BY <2>5, <2>6 DEF TypeHandler, Handler, Ids
<1>7. ASSUME NEW c \in Conns, replay_persisted_events(c)
      PROVE  TypeHandler'
  <2> DEFINE new(rows, stop) == [handler[c] EXCEPT !.pc = "replay", !.cursor = 0,
                                                       !.rows = rows, !.stopped = stop]
             rest == get_ws_outbox_events_after(handler[c].session, handler[c].cursor)
  <2>1. handler[c] \in Handler
    BY DEF TypeHandler
  <2>2. rest \in SUBSET Ids
    BY DEF get_ws_outbox_events_after, Materialized, Ids
  <2>3. PICK rows \in SUBSET Ids, stop \in BOOLEAN :
           handler' = [handler EXCEPT ![c] = new(rows, stop)]
    <3>1. CASE handler' = [handler EXCEPT ![c] = [handler[c] EXCEPT !.pc = "replay", !.cursor = 0,
                                                                    !.rows = rest]]
      <4>1. [handler[c] EXCEPT !.pc = "replay", !.cursor = 0, !.rows = rest]
               = new(rest, handler[c].stopped)
        BY <2>1 DEF Handler
      <4>2. handler[c].stopped \in BOOLEAN
        BY <2>1 DEF Handler
      <4>3. QED
        BY <2>2, <3>1, <4>1, <4>2
    <3>2. CASE handler' = [handler EXCEPT ![c] = [handler[c] EXCEPT !.pc = "replay", !.cursor = 0,
                                                                    !.stopped = TRUE]]
      <4>1. [handler[c] EXCEPT !.pc = "replay", !.cursor = 0, !.stopped = TRUE]
               = new(handler[c].rows, TRUE)
        BY <2>1 DEF Handler
      <4>2. handler[c].rows \in SUBSET Ids
        BY <2>1 DEF Handler
      <4>3. QED
        BY <3>2, <4>1, <4>2
    <3>3. QED
      BY <1>7, <3>1, <3>2 DEF replay_persisted_events
  <2>4. new(rows, stop) \in Handler
    BY <2>1, Basics DEF Handler
  <2>5. UNCHANGED events
    BY <1>7 DEF replay_persisted_events
  <2> HIDE DEF new
  <2>6. QED
    BY <2>3, <2>4, <2>5 DEF TypeHandler, Handler, Ids
<1>8. ASSUME NEW c \in Conns, push_replay_direct(c)
      PROVE  TypeHandler'
  <2>1. handler[c] \in Handler
    BY DEF TypeHandler
  <2>2. ASSUME NEW i, handler' = [handler EXCEPT ![c].rows = handler[c].rows \ {i}]
        PROVE  handler' \in [Conns -> Handler]
    BY <2>1, <2>2 DEF TypeHandler, Handler
  <2>3. ASSUME handler' = [handler EXCEPT ![c].rows = {}, ![c].stopped = TRUE]
        PROVE  handler' \in [Conns -> Handler]
    BY <2>1, <2>3 DEF TypeHandler, Handler
  <2>4. UNCHANGED events
    BY <1>8 DEF push_replay_direct
  <2>5. QED
    BY <1>8, <2>2, <2>3, <2>4 DEF push_replay_direct, TypeHandler, Handler, Ids
<1>9. ASSUME NEW c \in Conns, replay_pending(c)
      PROVE  TypeHandler'
  <2> DEFINE new == [handler[c] EXCEPT !.pc = "pending", !.todo = pending[handler[c].session]]
  <2>1. handler[c] \in Handler
    BY DEF TypeHandler
  <2>2. handler[c].session \in Sessions
    BY <1>9, <2>1 DEF replay_pending, HandlerShape, Handler
  <2>3. pending[handler[c].session] \in Seq(Ids)
    BY <2>2 DEF TypePending
  <2>5. new \in Handler
    BY <2>1, <2>3 DEF Handler
  <2>6. handler' = [handler EXCEPT ![c] = new] /\ UNCHANGED events
    BY <1>9, <2>1 DEF replay_pending, Handler
  <2> HIDE DEF new
  <2>7. QED
    BY <2>5, <2>6 DEF TypeHandler, Handler, Ids
<1>10. ASSUME NEW c \in Conns, DeliverPending(c)
      PROVE  TypeHandler'
  <2> DEFINE new == [handler[c] EXCEPT !.todo = Tail(handler[c].todo)]
  <2>1. handler[c] \in Handler
    BY DEF TypeHandler
  <2>2. handler[c].todo \in Seq(Ids) /\ handler[c].todo # <<>>
    BY <1>10, <2>1 DEF DeliverPending, Handler
  <2>3. Tail(handler[c].todo) \in Seq(Ids)
    BY <2>2, QueueFacts
  <2>5. new \in Handler
    BY <2>1, <2>3 DEF Handler
  <2>6. handler' = [handler EXCEPT ![c] = new] /\ UNCHANGED events
    BY <1>10, <2>1 DEF DeliverPending, Handler
  <2> HIDE DEF new
  <2>7. QED
    BY <2>5, <2>6 DEF TypeHandler, Handler, Ids
<1>11. ASSUME NEW c \in Conns, BindEnds(c)
      PROVE  TypeHandler'
  <2> DEFINE new == [Idle EXCEPT !.stopped = handler[c].stopped]
  <2>1. handler[c] \in Handler
    BY DEF TypeHandler
  <2>2. Idle \in Handler /\ handler[c].stopped \in BOOLEAN
    BY <2>1, Basics DEF Handler
  <2>5. new \in Handler
    BY <2>1, <2>2 DEF Handler
  <2>6. handler' = [handler EXCEPT ![c] = new] /\ UNCHANGED events
    BY <1>11, <2>1 DEF BindEnds, Handler
  <2> HIDE DEF new
  <2>7. QED
    BY <2>5, <2>6 DEF TypeHandler, Handler, Ids
<1>12. ASSUME NEW c \in Conns, BindUnregistered(c)
      PROVE  TypeHandler'
  <2>1. handler' = [handler EXCEPT ![c] = Idle] /\ UNCHANGED events
    BY <1>12 DEF BindUnregistered
  <2>2. QED
    BY <2>1, Basics DEF TypeHandler, Handler, Ids
<1>13. ASSUME NEW d \in Deliverers, Deliver(d)
      PROVE  TypeHandler'
  BY <1>13, <1>1 DEF Deliver, deliver, VisitSubscriber, SendSucceeds, SendFails, DeliverEnds
<1>14. ASSUME NEW c \in Conns, ReadSnapshot(c) \/ RejectBind(c) \/ HandleBind(c)
                               \/ disconnect(c) \/ cleanup_once(c)
      PROVE  TypeHandler'
  BY <1>14, <1>1, <1>3, <1>4, <1>5, <1>6, <1>7, <1>8, <1>9, <1>10, <1>11, <1>12 DEF HandleBind,
     disconnect, cleanup_once
<1>15. ASSUME Client
      PROVE  TypeHandler'
  BY <1>15, <1>1 DEF Client, Connect, bindSessionAndWait, BindTimesOut, DropFrame, ApplyEvent,
     QueueEvent, QueueOverflows, handleSessionRestore, protocol_error
<1>16. QED
  BY <1>1, <1>2, <1>13, <1>14, <1>15 DEF Next, vars


(* deliver takes its snapshot of the live subscribers, or caches the event. *)
LEMMA Scanned ==
    ASSUME TypeEvents, TypeHub, TypeJob, JobShape, NEW d \in Deliverers, deliver(d)
    PROVE  /\ job' \in [Deliverers -> Job]
           /\ \A x \in Deliverers : x # d => job'[x] = job[x]
           /\ \/ /\ job'[d] = NoJob
                 /\ {c \in subscribers[events[job[d].id].session] : conn[c].registered} = {}
              \/ /\ job'[d].pc = "visit" /\ job'[d].id = job[d].id /\ job'[d].epoch = job[d].epoch
                 /\ job'[d].target = job[d].target /\ job'[d].need = job[d].need
                 /\ job'[d].todo = {c \in subscribers[events[job[d].id].session] : conn[c].registered}
<1> DEFINE live == {c \in subscribers[events[job[d].id].session] : conn[c].registered}
<1>1. live \in SUBSET Conns
  BY JobEvent DEF deliver, TypeHub
<1>2. job[d] \in Job
  BY DEF TypeJob
<1>3. CASE job' = [job EXCEPT ![d] = NoJob] /\ live = {}
  BY <1>3, Basics DEF TypeJob
<1>4. CASE job' = [job EXCEPT ![d].pc = "visit", ![d].todo = live]
  <2>1. job' = [job EXCEPT ![d] = [job[d] EXCEPT !.pc = "visit", !.todo = live]]
    BY <1>2, <1>4 DEF TypeJob, Job
  <2>2. [job[d] EXCEPT !.pc = "visit", !.todo = live] \in Job
    BY <1>1, <1>2 DEF Job
  <2>3. QED
    BY <1>2, <2>1, <2>2 DEF TypeJob, Job
<1>5. QED
  BY <1>3, <1>4 DEF deliver

(* One subscriber is found ready for a send, or is skipped. *)
LEMMA Visited ==
    ASSUME TypeEvents, TypeHub, TypeJob, JobShape, NEW d \in Deliverers, NEW c \in Conns,
           VisitSubscriber(d, c)
    PROVE  /\ job' \in [Deliverers -> Job]
           /\ \A x \in Deliverers : x # d => job'[x] = job[x]
           /\ \/ /\ job'[d] = NoJob /\ job[d].todo = {c}
                 /\ (conn[c].session = None \/ conn[c].degraded)
              \/ /\ job'[d].id = job[d].id /\ job'[d].todo = job[d].todo \ {c}
                 /\ \/ /\ job'[d].pc = "send" /\ job'[d].target = c /\ job'[d].epoch = conn[c].epoch
                       /\ conn[c].session # None /\ ~ conn[c].degraded
                    \/ /\ job'[d].pc = "visit" /\ job'[d].target = None /\ job'[d].epoch = 0
                       /\ (conn[c].session = None \/ conn[c].degraded)
<1> DEFINE ready == conn[c].session # None /\ ~conn[c].degraded
           new == [job[d] EXCEPT
            !.todo = job[d].todo \ {c},
            !.pc = IF ready THEN "send" ELSE "visit",
            !.target = IF ready THEN c ELSE None,
            !.epoch = IF ready THEN conn[c].epoch ELSE 0,
            !.need = job[d].need \/ (~ready /\ events[job[d].id].critical)]
<1>1. job[d] \in Job /\ conn[c].epoch \in 0..MaxBinds /\ c \in job[d].todo
  BY DEF TypeJob, TypeHub, Connection, VisitSubscriber
<1>2. (job[d].need \/ (~ready /\ events[job[d].id].critical)) \in BOOLEAN
  OBVIOUS
<1>3. /\ new \in Job
      /\ new.id = job[d].id /\ new.todo = job[d].todo \ {c}
      /\ ready => new.pc = "send" /\ new.target = c /\ new.epoch = conn[c].epoch
      /\ ~ready => new.pc = "visit" /\ new.target = None /\ new.epoch = 0
  BY <1>1, <1>2, Basics DEF Job
<1>4. job' = [job EXCEPT ![d] = Remaining(new)]
  BY DEF VisitSubscriber
<1> HIDE DEF new
<1>5. /\ Remaining(new) \in Job
      /\ Remaining(new) = new \/ (Remaining(new) = NoJob /\ new.pc = "visit" /\ new.todo = {})
  BY <1>3, Basics DEF Remaining
<1>6. /\ job' \in [Deliverers -> Job] /\ job'[d] = Remaining(new)
      /\ \A x \in Deliverers : x # d => job'[x] = job[x]
  BY <1>4, <1>5 DEF TypeJob
<1>7. QED
  BY <1>1, <1>3, <1>5, <1>6

(* After a send, whether it succeeded or failed, the call goes on or is over. *)
LEMMA WasSent ==
    ASSUME TypeEvents, TypeJob, JobShape, NEW d \in Deliverers, SendSucceeds(d) \/ SendFails(d)
    PROVE  /\ job' \in [Deliverers -> Job]
           /\ \A x \in Deliverers : x # d => job'[x] = job[x]
           /\ \/ job'[d] = NoJob /\ job[d].todo = {}
              \/ /\ job'[d].pc = "visit" /\ job'[d].id = job[d].id /\ job'[d].todo = job[d].todo
                 /\ job'[d].target = None /\ job'[d].epoch = 0
<1>1. job[d] \in Job
  BY DEF TypeJob
<1>2. ASSUME NEW need \in BOOLEAN,
             job' = [job EXCEPT ![d] = Remaining([job[d] EXCEPT !.pc = "visit", !.target = None,
                                                                !.epoch = 0, !.need = need])]
      PROVE  /\ job' \in [Deliverers -> Job]
             /\ \A x \in Deliverers : x # d => job'[x] = job[x]
             /\ \/ job'[d] = NoJob /\ job[d].todo = {}
                \/ /\ job'[d].pc = "visit" /\ job'[d].id = job[d].id /\ job'[d].todo = job[d].todo
                   /\ job'[d].target = None /\ job'[d].epoch = 0
  <2> DEFINE new == [job[d] EXCEPT !.pc = "visit", !.target = None, !.epoch = 0, !.need = need]
  <2>1. /\ new \in Job /\ new.pc = "visit" /\ new.id = job[d].id /\ new.todo = job[d].todo
        /\ new.target = None /\ new.epoch = 0
    BY <1>1, Basics DEF Job
  <2>2. job' = [job EXCEPT ![d] = Remaining(new)]
    BY <1>2
  <2> HIDE DEF new
  <2>3. /\ Remaining(new) \in Job
        /\ Remaining(new) = new \/ (Remaining(new) = NoJob /\ new.todo = {})
    BY <2>1, Basics DEF Remaining
  <2>4. /\ job' \in [Deliverers -> Job] /\ job'[d] = Remaining(new)
        /\ \A x \in Deliverers : x # d => job'[x] = job[x]
    BY <2>2, <2>3 DEF TypeJob
  <2>5. QED
    BY <2>1, <2>3, <2>4
<1>3. CASE SendSucceeds(d)
  <2>1. job' = [job EXCEPT ![d] = Remaining([job[d] EXCEPT !.pc = "visit", !.target = None,
                                                           !.epoch = 0])]
    BY <1>3 DEF SendSucceeds
  <2>2. [job[d] EXCEPT !.pc = "visit", !.target = None, !.epoch = 0]
           = [job[d] EXCEPT !.pc = "visit", !.target = None, !.epoch = 0, !.need = job[d].need]
    BY <1>1 DEF Job
  <2>3. job[d].need \in BOOLEAN
    BY <1>1 DEF Job
  <2>4. QED
    BY <1>2, <2>1, <2>2, <2>3
<1>4. CASE SendFails(d)
  <2>1. job' = [job EXCEPT ![d] = Remaining([job[d] EXCEPT !.pc = "visit", !.target = None,
                   !.epoch = 0, !.need = job[d].need \/ events[job[d].id].critical])]
    BY <1>4 DEF SendFails
  <2>2. (job[d].need \/ events[job[d].id].critical) \in BOOLEAN
    OBVIOUS
  <2>3. QED
    BY <1>2, <2>1, <2>2
<1>5. QED
  BY <1>3, <1>4

(* A call of deliver keeps its types. *)
LEMMA JobStep ==
    ASSUME TypeEvents, TypeHub, TypeHandler, TypeJob, JobShape,
           [Next]_vars
    PROVE  TypeJob'
<1>1. ASSUME UNCHANGED <<job, events>> PROVE TypeJob'
  BY <1>1 DEF TypeJob, Job
<1>2. ASSUME NEW p \in Producers, NEW s \in Sessions, NEW kind \in Kinds,
             push_runtime_event(p, s, kind)
      PROVE  TypeJob'
  <2>1. 0..Len(events) \subseteq 0..Len(events') /\ Len(events) + 1 \in 0..Len(events')
    BY <1>2, Pushed
  <2>2. Job \subseteq Job'
    BY <2>1 DEF Job
  <2>3. [NoJob EXCEPT !.pc = "scan", !.id = Len(events) + 1] \in Job'
    BY <2>1, Basics DEF NoJob, Job
  <2>4. QED
    BY <1>2, <2>2, <2>3 DEF push_runtime_event, TypeJob, Deliverers
<1>3. ASSUME NEW d \in Deliverers, deliver(d)
      PROVE  TypeJob'
  BY <1>3, Scanned DEF deliver, TypeJob, Job
<1>4. ASSUME NEW d \in Deliverers, NEW c \in Conns, VisitSubscriber(d, c)
      PROVE  TypeJob'
  BY <1>4, Visited DEF VisitSubscriber, TypeJob, Job
<1>5. ASSUME NEW d \in Deliverers, SendSucceeds(d)
      PROVE  TypeJob'
  BY <1>5, WasSent DEF SendSucceeds, TypeJob, Job
<1>6. ASSUME NEW d \in Deliverers, SendFails(d)
      PROVE  TypeJob'
  BY <1>6, WasSent DEF SendFails, TypeJob, Job
<1>7. ASSUME NEW d \in Deliverers, DeliverEnds(d)
      PROVE  TypeJob'
  BY <1>7, Basics DEF DeliverEnds, TypeJob, Job
<1>8. ASSUME NEW c \in Conns, DeliverPending(c)
      PROVE  TypeJob'
  <2>1. handler[c].todo \in Seq(Ids) /\ handler[c].todo # <<>>
    BY <1>8 DEF DeliverPending, TypeHandler, Handler
  <2>2. Head(handler[c].todo) \in Ids
    BY <2>1, QueueFacts
  <2>3. Head(handler[c].todo) \in 0..Len(events)
    BY <2>2, Basics DEF Ids
  <2>4. [NoJob EXCEPT !.pc = "scan", !.id = Head(handler[c].todo)] \in Job
    BY <2>3, Basics DEF Job
  <2>5. QED
    BY <1>8, <2>4 DEF DeliverPending, TypeJob, Job, Deliverers
<1>9. ASSUME NEW d \in Deliverers, Deliver(d)
      PROVE  TypeJob'
  BY <1>9, <1>3, <1>4, <1>5, <1>6, <1>7 DEF Deliver
<1>10. ASSUME NEW c \in Conns, ReadSnapshot(c) \/ RejectBind(c) \/ HandleBind(c)
                               \/ disconnect(c) \/ cleanup_once(c)
      PROVE  TypeJob'
  BY <1>10, <1>1, <1>8 DEF HandleBind, ReadSnapshot, RejectBind, disconnect, cleanup_once, bind,
     SendRestored, replay_persisted_events, push_replay_direct, replay_pending, BindEnds,
     BindUnregistered
<1>11. ASSUME Client
      PROVE  TypeJob'
  BY <1>11, <1>1 DEF Client, Connect, bindSessionAndWait, BindTimesOut, DropFrame, ApplyEvent,
     QueueEvent, QueueOverflows, handleSessionRestore, protocol_error
<1>12. QED
  BY <1>1, <1>2, <1>9, <1>10, <1>11 DEF Next, vars


(* handleSessionRestore of the awaited attempt. *)
LEMMA Restored ==
    ASSUME TypeEvents, TypeClient, TypeChannel, handleSessionRestore,
           client.wanted # None, Received.epoch = client.wanted_epoch
    PROVE  LET got == Range(client.queued)
               shown == Materialized(client.wanted, Received.id)
           IN  /\ client' \in Browser
               /\ client'.conn = client.conn /\ client'.next = client.next
               /\ client'.wanted = None /\ client'.wanted_epoch = 0 /\ client'.queued = <<>>
               /\ client'.bound = client.wanted /\ client'.epoch = client.wanted_epoch
               /\ client'.seen = client.seen \cup got
               /\ client'.view = shown \cup (got \ client.seen)
               /\ shown \subseteq Ids /\ got \subseteq Ids
<1> DEFINE got == {client.queued[i] : i \in DOMAIN client.queued}
           shown == Materialized(client.wanted, Received.id)
           restored == [client EXCEPT !.wanted = None, !.wanted_epoch = 0,
                                      !.rebound = FALSE, !.queued = <<>>,
                                      !.bound = client.wanted, !.epoch = Received.epoch,
                                      !.view = shown]
<1>1. client \in Browser
  BY DEF TypeClient
<1>2. got = Range(client.queued)
  BY DEF Range
<1>3. got \subseteq Ids
  BY <1>1, <1>2, QueueFacts DEF Browser
<1>4. Received \in SentFrame
  BY Took DEF handleSessionRestore
<1>5. shown \subseteq Ids
  BY <1>4, Basics DEF SentFrame, Frame, Materialized, Ids
<1>6. 0 \in 0..MaxBinds /\ <<>> \in Seq(Ids)
  BY Basics, EmptySeq
<1> HIDE DEF got, shown
<1>7. /\ restored \in Browser
      /\ restored.conn = client.conn /\ restored.next = client.next
      /\ restored.wanted = None /\ restored.wanted_epoch = 0 /\ restored.queued = <<>>
      /\ restored.bound = client.wanted /\ restored.epoch = client.wanted_epoch
      /\ restored.seen = client.seen /\ restored.view = shown
  BY <1>1, <1>5, <1>6 DEF Browser
<1>8. client' = Accepted(restored, got)
  BY DEF handleSessionRestore, got, shown
<1> HIDE DEF restored
<1>9. /\ client' \in Browser
      /\ client'.conn = restored.conn /\ client'.next = restored.next
      /\ client'.wanted = restored.wanted /\ client'.wanted_epoch = restored.wanted_epoch
      /\ client'.queued = restored.queued
      /\ client'.bound = restored.bound /\ client'.epoch = restored.epoch
      /\ client'.seen = restored.seen \cup got
      /\ client'.view = restored.view \cup (got \ restored.seen)
  BY <1>3, <1>7, <1>8 DEF Accepted, Browser
<1>10. QED
  BY <1>2, <1>3, <1>5, <1>7, <1>9 DEF shown

(* An event is applied. *)
LEMMA Applied ==
    ASSUME TypeEvents, TypeClient, TypeChannel, ApplyEvent
    PROVE  /\ client' \in Browser /\ Received.id \in Ids
           /\ client'.conn = client.conn /\ client'.next = client.next
           /\ client'.wanted = client.wanted /\ client'.wanted_epoch = client.wanted_epoch
           /\ client'.queued = client.queued
           /\ client'.bound = client.bound /\ client'.epoch = client.epoch
           /\ client'.seen = client.seen \cup {Received.id}
           /\ client'.view = client.view \cup ({Received.id} \ client.seen)
<1>1. Received.id \in Ids
  BY Took, Basics DEF ApplyEvent, SentFrame, Frame, Ids
<1>2. client' = Accepted(client, {Received.id})
  BY DEF ApplyEvent
<1>3. QED
  BY <1>1, <1>2 DEF TypeClient, Accepted, Browser

(* An event waits for the snapshot. *)
LEMMA Queued ==
    ASSUME TypeEvents, TypeClient, TypeChannel, QueueEvent
    PROVE  /\ client' \in Browser /\ Received.id \in Ids
           /\ client'.conn = client.conn /\ client'.next = client.next
           /\ client'.wanted = client.wanted /\ client'.wanted_epoch = client.wanted_epoch
           /\ client'.queued = Append(client.queued, Received.id)
           /\ client'.bound = client.bound /\ client'.epoch = client.epoch
           /\ client'.seen = client.seen /\ client'.view = client.view
<1>1. Received.id \in Ids
  BY Took, Basics DEF QueueEvent, SentFrame, Frame, Ids
<1>2. client' = [client EXCEPT !.queued = Append(client.queued, Received.id)]
  BY DEF QueueEvent
<1>3. client \in Browser
  BY DEF TypeClient
<1>4. Append(client.queued, Received.id) \in Seq(Ids)
  BY <1>1, <1>3, AppendProperties DEF Browser
<1>5. QED
  BY <1>1, <1>2, <1>3, <1>4 DEF Browser

(* The queue is full: another attempt, or none. *)
LEMMA Overflown ==
    ASSUME TypeClient, TypeInbox, QueueOverflows
    PROVE  \/ /\ client.wanted \in Sessions /\ client \in Browser /\ client.conn # None
              /\ startBindAttempt(client, client.wanted, TRUE)
           \/ /\ UNCHANGED inbox
              /\ client' \in Browser
              /\ client'.conn = client.conn /\ client'.next = client.next
              /\ client'.wanted = None /\ client'.wanted_epoch = 0 /\ client'.queued = <<>>
              /\ client'.bound = None /\ client'.epoch = client.epoch
              /\ client'.seen = client.seen /\ client'.view = client.view
<1>1. CASE startBindAttempt(client, client.wanted, TRUE)
  BY <1>1 DEF QueueOverflows, Receives, TypeClient, Browser
<1>2. CASE client' = [BindFailed EXCEPT !.bound = None] /\ UNCHANGED inbox
  BY <1>2, Failed DEF Browser
<1>3. QED
  BY <1>1, <1>2 DEF QueueOverflows

(* The client moves to a new socket. *)
LEMMA Moved ==
    ASSUME TypeClient, NEW c \in Conns, Connect(c)
    PROVE  /\ client' \in Browser
           /\ client'.conn = c /\ client'.next = client.next
           /\ client'.wanted = None /\ client'.wanted_epoch = 0 /\ client'.queued = <<>>
           /\ client'.bound = None /\ client'.epoch = 0
           /\ client'.seen = client.seen /\ client'.view = client.view
<1>1. client' = [BindFailed EXCEPT !.conn = c, !.bound = None, !.epoch = 0]
  BY DEF Connect
<1>2. 0 \in 0..MaxBinds
  BY DeliveryAssumption
<1>3. QED
  BY <1>1, <1>2, Failed DEF Browser

(* The client keeps its types. *)
LEMMA ClientStep ==
    ASSUME TypeEvents, TypeChannel, TypeInbox, TypeClient,
           [Next]_vars
    PROVE  TypeClient'
<1>1. ASSUME UNCHANGED <<client, events>> PROVE TypeClient'
  BY <1>1 DEF TypeClient, Browser, Ids
<1>2. ASSUME NEW p \in Producers, NEW s \in Sessions, NEW kind \in Kinds,
             push_runtime_event(p, s, kind)
      PROVE  TypeClient'
  <2>1. Ids \subseteq Ids'
    BY <1>2, Pushed
  <2>2. Seq(Ids) \subseteq Seq(Ids')
    BY <2>1, SeqMonotonic
  <2>3. Browser \subseteq Browser'
    BY <2>1, <2>2 DEF Browser
  <2>4. QED
    BY <1>2, <2>3 DEF push_runtime_event, TypeClient
<1>3. ASSUME NEW c \in Conns, Connect(c)
      PROVE  TypeClient'
  BY <1>3, Moved DEF Connect, TypeClient, Browser, Ids
<1>4. ASSUME NEW s \in Sessions, bindSessionAndWait(s)
      PROVE  TypeClient'
  <2>1. startBindAttempt(BindFailed, s, FALSE) /\ client.conn # None /\ UNCHANGED events
    BY <1>4 DEF bindSessionAndWait
  <2>2. QED
    BY <2>1, Failed, Asked DEF TypeClient, Browser, Ids
<1>5. ASSUME BindTimesOut
      PROVE  TypeClient'
  BY <1>5, Failed DEF BindTimesOut, TypeClient, Browser, Ids
<1>6. ASSUME ApplyEvent
      PROVE  TypeClient'
  BY <1>6, Applied DEF ApplyEvent, TypeClient, Browser, Ids
<1>7. ASSUME QueueEvent
      PROVE  TypeClient'
  BY <1>7, Queued DEF QueueEvent, TypeClient, Browser, Ids
<1>8. ASSUME QueueOverflows
      PROVE  TypeClient'
  <2>1. UNCHANGED events
    BY <1>8 DEF QueueOverflows
  <2>2. client' \in Browser
    BY <1>8, Overflown, Asked
  <2>3. QED
    BY <2>1, <2>2 DEF TypeClient, Browser, Ids
<1>9. ASSUME handleSessionRestore
      PROVE  TypeClient'
  <2>1. UNCHANGED events
    BY <1>9 DEF handleSessionRestore
  <2>2. client' \in Browser
    BY <1>9, Restored DEF handleSessionRestore, TypeClient
  <2>3. QED
    BY <2>1, <2>2 DEF TypeClient, Browser, Ids
<1>10. ASSUME protocol_error
      PROVE  TypeClient'
  BY <1>10, Failed DEF protocol_error, TypeClient, Browser, Ids
<1>11. ASSUME NEW d \in Deliverers, Deliver(d)
      PROVE  TypeClient'
  BY <1>11, <1>1 DEF Deliver, deliver, VisitSubscriber, SendSucceeds, SendFails, DeliverEnds
<1>12. ASSUME NEW c \in Conns, ReadSnapshot(c) \/ RejectBind(c) \/ HandleBind(c)
                               \/ disconnect(c) \/ cleanup_once(c)
      PROVE  TypeClient'
  BY <1>12, <1>1 DEF HandleBind, ReadSnapshot, RejectBind, disconnect, cleanup_once, bind,
     SendRestored, replay_persisted_events, push_replay_direct, replay_pending, DeliverPending,
     BindEnds, BindUnregistered
<1>13. ASSUME Client
      PROVE  TypeClient'
  BY <1>13, <1>1, <1>3, <1>4, <1>5, <1>6, <1>7, <1>8, <1>9, <1>10 DEF Client, DropFrame
<1>14. QED
  BY <1>1, <1>2, <1>11, <1>12, <1>13 DEF Next, vars


(* A request is taken from the inbox, with a snapshot of the outbox. *)
LEMMA Reads ==
    ASSUME TypeEvents, TypeInbox, TypeHandler, NEW c \in Conns, ReadSnapshot(c)
    PROVE  LET r == Head(inbox[c]) IN
           /\ handler'[c].pc = "read" /\ handler'[c].session = r.session
           /\ handler'[c].epoch = r.epoch /\ handler'[c].cover = Len(events)
           /\ handler'[c].cursor \in 0..Len(events)
           /\ r.session \in Sessions /\ r.epoch \in 1..MaxBinds
           /\ \A x \in Conns : x # c => handler'[x] = handler[x] /\ inbox'[x] = inbox[x]
           /\ inbox[c] # <<>> /\ inbox'[c] = Tail(inbox[c])
<1> DEFINE r == Head(inbox[c])
           new == [pc |-> "read", session |-> r.session, epoch |-> r.epoch, cover |-> Len(events),
                   cursor |-> snapshot_event_seq(r.session), rows |-> {}, todo |-> <<>>,
                   stopped |-> FALSE]
<1>1. inbox[c] \in Seq(Request) /\ inbox[c] # <<>>
  BY DEF ReadSnapshot, TypeInbox
<1>2. r \in Request
  BY <1>1, QueueFacts
<1>3. /\ snapshot_event_seq(r.session) \in 0..Len(events)
      /\ r.session \in Sessions /\ r.epoch \in 1..MaxBinds
  BY <1>2, HighWater DEF Request
<1>4. handler' = [handler EXCEPT ![c] = new] /\ inbox' = [inbox EXCEPT ![c] = Tail(inbox[c])]
  BY DEF ReadSnapshot
<1>5. /\ new.pc = "read" /\ new.session = r.session /\ new.epoch = r.epoch
      /\ new.cover = Len(events) /\ new.cursor = snapshot_event_seq(r.session)
  OBVIOUS
<1> HIDE DEF new
<1>6. handler'[c] = new /\ \A x \in Conns : x # c => handler'[x] = handler[x]
  BY <1>4 DEF TypeHandler
<1>7. inbox'[c] = Tail(inbox[c]) /\ \A x \in Conns : x # c => inbox'[x] = inbox[x]
  BY <1>4 DEF TypeInbox
<1>8. QED
  BY <1>1, <1>2, <1>3, <1>5, <1>6, <1>7

(* A bind handler that rejects, gives up or ends is idle again. *)
LEMMA Gives ==
    ASSUME TypeHandler, NEW c \in Conns, RejectBind(c) \/ BindUnregistered(c) \/ BindEnds(c)
    PROVE  /\ handler'[c].pc = "idle" /\ handler'[c].epoch = 0
           /\ BindEnds(c) => handler'[c].stopped = handler[c].stopped
           /\ \A x \in Conns : x # c => handler'[x] = handler[x]
<1>1. CASE handler' = [handler EXCEPT ![c] = Idle] /\ ~ BindEnds(c)
  BY <1>1 DEF TypeHandler, Idle
<1>2. CASE BindEnds(c)
  <2> DEFINE new == [Idle EXCEPT !.stopped = handler[c].stopped]
  <2>1. new.pc = "idle" /\ new.epoch = 0 /\ new.stopped = handler[c].stopped
    BY DEF Idle
  <2>2. handler' = [handler EXCEPT ![c] = new]
    BY <1>2 DEF BindEnds
  <2> HIDE DEF new
  <2>3. QED
    BY <2>1, <2>2 DEF TypeHandler
<1>3. QED
  BY <1>1, <1>2 DEF RejectBind, BindUnregistered, BindEnds

(* The other steps of a bind handler, one by one. *)
LEMMA Moves ==
    ASSUME TypeHandler, NEW c \in Conns,
           \/ bind(c) \/ SendRestored(c) \/ replay_persisted_events(c) \/ push_replay_direct(c)
           \/ replay_pending(c) \/ DeliverPending(c)
    PROVE  /\ \A x \in Conns : x # c => handler'[x] = handler[x]
           /\ handler'[c].session = handler[c].session
           /\ handler'[c].epoch \in {0, handler[c].epoch}
           /\ ~ handler'[c].stopped => ~ handler[c].stopped
           /\ bind(c) => /\ handler'[c].pc = "restore" /\ handler'[c].epoch = handler[c].epoch
                         /\ handler'[c].cover = handler[c].cover
                         /\ handler'[c].cursor = handler[c].cursor
           /\ SendRestored(c) => /\ handler'[c].pc = "query"
                                 /\ handler'[c].cursor = handler[c].cursor
           /\ replay_persisted_events(c) =>
                 /\ handler'[c].pc = "replay"
                 /\ \/ handler'[c].stopped
                    \/ handler'[c].rows = get_ws_outbox_events_after(handler[c].session,
                                                                     handler[c].cursor)
           /\ push_replay_direct(c) =>
                 /\ handler'[c].pc = "replay"
                 /\ \/ handler'[c].stopped
                    \/ \E i \in handler[c].rows :
                          /\ conn[c].registered /\ ~CannotSend(c)
                          /\ ToChannel(c, EventFrame(i, conn[c].epoch))
                          /\ handler'[c].rows = handler[c].rows \ {i}
           /\ replay_pending(c) => handler'[c].pc = "pending"
           /\ DeliverPending(c) => handler'[c].pc = "pending"
<1>1. handler[c] \in Handler
  BY DEF TypeHandler
<1>2. CASE bind(c)
  <2>1. ~ (\/ SendRestored(c) \/ replay_persisted_events(c) \/ push_replay_direct(c)
           \/ replay_pending(c) \/ DeliverPending(c))
    BY <1>2 DEF bind, SendRestored, replay_persisted_events, push_replay_direct, replay_pending,
                DeliverPending
  <2>2. QED
    BY <1>1, <1>2, <2>1 DEF bind, TypeHandler, Handler
<1>3. CASE SendRestored(c)
  <2>1. ~ (\/ bind(c) \/ replay_persisted_events(c) \/ push_replay_direct(c)
           \/ replay_pending(c) \/ DeliverPending(c))
    BY <1>3 DEF bind, SendRestored, replay_persisted_events, push_replay_direct, replay_pending,
                DeliverPending
  <2>2. QED
    BY <1>1, <1>3, <2>1 DEF SendRestored, TypeHandler, Handler
<1>4. CASE replay_persisted_events(c)
  <2>1. ~ (\/ bind(c) \/ SendRestored(c) \/ push_replay_direct(c)
           \/ replay_pending(c) \/ DeliverPending(c))
    BY <1>4 DEF bind, SendRestored, replay_persisted_events, push_replay_direct, replay_pending,
                DeliverPending
  <2> DEFINE rest == get_ws_outbox_events_after(handler[c].session, handler[c].cursor)
             one == [handler[c] EXCEPT !.pc = "replay", !.cursor = 0, !.rows = rest]
             two == [handler[c] EXCEPT !.pc = "replay", !.cursor = 0, !.stopped = TRUE]
  <2>2. handler' = [handler EXCEPT ![c] = one] \/ handler' = [handler EXCEPT ![c] = two]
    BY <1>4 DEF replay_persisted_events
  <2>3. /\ one.session = handler[c].session /\ one.epoch = handler[c].epoch /\ one.pc = "replay"
        /\ one.stopped = handler[c].stopped /\ one.rows = rest
    BY <1>1 DEF Handler
  <2>4. /\ two.session = handler[c].session /\ two.epoch = handler[c].epoch /\ two.pc = "replay"
        /\ two.stopped
    BY <1>1 DEF Handler
  <2> HIDE DEF one, two
  <2>5. \A x \in Conns : x # c => handler'[x] = handler[x]
    BY <2>2 DEF TypeHandler
  <2>6. handler'[c] = one \/ handler'[c] = two
    BY <2>2 DEF TypeHandler
  <2>7. QED
    BY <1>4, <2>1, <2>3, <2>4, <2>5, <2>6
<1>5. CASE push_replay_direct(c)
  <2>1. ~ (\/ bind(c) \/ SendRestored(c) \/ replay_persisted_events(c)
           \/ replay_pending(c) \/ DeliverPending(c))
    BY <1>5 DEF bind, SendRestored, replay_persisted_events, push_replay_direct, replay_pending,
                DeliverPending
  <2>2. PICK i \in handler[c].rows :
           \/ /\ conn[c].registered /\ ~CannotSend(c)
              /\ ToChannel(c, EventFrame(i, conn[c].epoch))
              /\ handler' = [handler EXCEPT ![c].rows = handler[c].rows \ {i}]
           \/ handler' = [handler EXCEPT ![c].rows = {}, ![c].stopped = TRUE]
    BY <1>5 DEF push_replay_direct
  <2>3. handler[c].pc = "replay"
    BY <1>5 DEF push_replay_direct
  <2>4. /\ \A x \in Conns : x # c => handler'[x] = handler[x]
        /\ handler'[c].session = handler[c].session /\ handler'[c].epoch = handler[c].epoch
        /\ handler'[c].pc = "replay"
        /\ \/ handler'[c].stopped
           \/ /\ handler'[c].stopped = handler[c].stopped
              /\ conn[c].registered /\ ~CannotSend(c)
              /\ ToChannel(c, EventFrame(i, conn[c].epoch))
              /\ handler'[c].rows = handler[c].rows \ {i}
    BY <1>1, <2>2, <2>3 DEF TypeHandler, Handler
  <2>5. QED
    BY <1>5, <2>1, <2>2, <2>4
<1>6. CASE replay_pending(c)
  <2>1. ~ (\/ bind(c) \/ SendRestored(c) \/ replay_persisted_events(c) \/ push_replay_direct(c)
           \/ DeliverPending(c))
    BY <1>6 DEF bind, SendRestored, replay_persisted_events, push_replay_direct, replay_pending,
                DeliverPending
  <2>2. QED
    BY <1>1, <1>6, <2>1 DEF replay_pending, TypeHandler, Handler
<1>7. CASE DeliverPending(c)
  <2>1. ~ (\/ bind(c) \/ SendRestored(c) \/ replay_persisted_events(c) \/ push_replay_direct(c)
           \/ replay_pending(c))
    BY <1>7 DEF bind, SendRestored, replay_persisted_events, push_replay_direct, replay_pending,
                DeliverPending
  <2>2. QED
    BY <1>1, <1>7, <2>1 DEF DeliverPending, TypeHandler, Handler
<1>8. QED
  BY <1>2, <1>3, <1>4, <1>5, <1>6, <1>7

(* Connections are bound, unbound and closed together with their subscriptions. *)
LEMMA ConnStep ==
    ASSUME TypeEvents, TypeHub, TypeJob, TypeHandler, JobShape, HandlerShape, ConnShape,
           [Next]_vars
    PROVE  ConnShape'
<1>1. ASSUME UNCHANGED <<conn, subscribers>> PROVE ConnShape'
  BY <1>1 DEF ConnShape
<1>2. ASSUME NEW d \in Deliverers, SendFails(d)
      PROVE  ConnShape'
  <2>1. UNCHANGED subscribers
    BY <1>2 DEF SendFails
  <2>2. QED
    BY <1>2, <2>1, Degrades DEF ConnShape
<1>3. ASSUME NEW c \in Conns, disconnect(c)
      PROVE  ConnShape'
  <2>1. Unregister(c, "gone") /\ "gone" \in {"new", "open", "closed", "gone"}
    BY <1>3 DEF disconnect, TypeHub, Connection
  <2>2. \A x \in Conns : conn[x].session # None => conn[x].session \in Sessions
    BY DEF TypeHub, Connection
  <2>3. QED
    BY <2>1, <2>2, Unregistered DEF ConnShape
<1>4. ASSUME NEW c \in Conns, cleanup_once(c)
      PROVE  ConnShape'
  <2>1. Unregister(c, conn[c].socket) /\ conn[c].socket \in {"new", "open", "closed", "gone"}
    BY <1>4 DEF cleanup_once, TypeHub, Connection
  <2>2. \A x \in Conns : conn[x].session # None => conn[x].session \in Sessions
    BY DEF TypeHub, Connection
  <2>3. QED
    BY <2>1, <2>2, Unregistered DEF ConnShape
<1>5. ASSUME NEW c \in Conns, bind(c)
      PROVE  ConnShape'
  <2>1. handler[c].epoch # 0 /\ handler[c].session # None
    BY <1>5 DEF bind, HandlerShape
  <2>2. \A x \in Conns : conn[x].session # None => conn[x].session \in Sessions
    BY DEF TypeHub, Connection
  <2>3. QED
    BY <1>5, <2>1, <2>2, Bound DEF ConnShape
<1>6. ASSUME NEW c \in Conns, Connect(c)
      PROVE  ConnShape'
  <2>1. UNCHANGED subscribers
    BY <1>6 DEF Connect
  <2>2. QED
    BY <1>6, <2>1, Connected DEF ConnShape
<1>7. ASSUME NEW d \in Deliverers, Deliver(d)
      PROVE  ConnShape'
  BY <1>7, <1>1, <1>2 DEF Deliver, deliver, VisitSubscriber, SendSucceeds, DeliverEnds
<1>8. ASSUME NEW c \in Conns, ReadSnapshot(c) \/ RejectBind(c) \/ HandleBind(c)
                               \/ disconnect(c) \/ cleanup_once(c)
      PROVE  ConnShape'
  BY <1>8, <1>1, <1>3, <1>4, <1>5 DEF HandleBind, ReadSnapshot, RejectBind, SendRestored,
     replay_persisted_events, push_replay_direct, replay_pending, DeliverPending, BindEnds,
     BindUnregistered
<1>9. ASSUME Client
      PROVE  ConnShape'
  BY <1>9, <1>1, <1>6 DEF Client, bindSessionAndWait, BindTimesOut, DropFrame, ApplyEvent,
     QueueEvent, QueueOverflows, handleSessionRestore, protocol_error
<1>10. QED
  BY <1>1, <1>7, <1>8, <1>9 DEF Next, vars, push_runtime_event

(* Requests are sent, and handlers run, on connected sockets. *)
LEMMA NewStep ==
    ASSUME TypeEvents, TypeHub, TypeInbox, TypeJob, TypeHandler, TypeClient, JobShape,
           HandlerShape, ClientShape, NewShape,
           [Next]_vars
    PROVE  NewShape'
<1>1. ASSUME UNCHANGED <<conn, handler, inbox>> PROVE NewShape'
  BY <1>1 DEF NewShape
<1>2. ASSUME NEW d \in Deliverers, SendFails(d)
      PROVE  NewShape'
  <2>1. UNCHANGED <<handler, inbox>>
    BY <1>2 DEF SendFails
  <2>2. QED
    BY <1>2, <2>1, Degrades DEF NewShape
<1>3. ASSUME NEW c \in Conns, ReadSnapshot(c)
      PROVE  NewShape'
  <2>1. UNCHANGED conn
    BY <1>3 DEF ReadSnapshot
  <2>2. QED
    BY <1>3, <2>1, Reads DEF NewShape
<1>4. ASSUME NEW c \in Conns, RejectBind(c)
      PROVE  NewShape'
  <2>1. UNCHANGED <<conn, inbox>>
    BY <1>4 DEF RejectBind
  <2>2. QED
    BY <1>4, <2>1, Gives DEF NewShape
<1>5. ASSUME NEW c \in Conns, disconnect(c)
      PROVE  NewShape'
  <2>1. Unregister(c, "gone") /\ UNCHANGED <<handler, inbox>>
    BY <1>5 DEF disconnect
  <2>2. QED
    BY <2>1, Unregistered DEF NewShape
<1>6. ASSUME NEW c \in Conns, cleanup_once(c)
      PROVE  NewShape'
  <2>1. /\ Unregister(c, conn[c].socket) /\ UNCHANGED <<handler, inbox>>
        /\ conn[c].socket \in {"new", "open", "closed", "gone"}
    BY <1>6 DEF cleanup_once, TypeHub, Connection
  <2>2. QED
    BY <2>1, Unregistered DEF NewShape
<1>7. ASSUME NEW c \in Conns, bind(c)
      PROVE  NewShape'
  <2>1. UNCHANGED inbox /\ handler[c].pc # "idle"
    BY <1>7 DEF bind
  <2>2. QED
    BY <1>7, <2>1, Moves, Bound DEF NewShape
<1>8. ASSUME NEW c \in Conns, SendRestored(c)
      PROVE  NewShape'
  <2>1. UNCHANGED <<conn, inbox>> /\ handler[c].pc # "idle"
    BY <1>8 DEF SendRestored
  <2>2. QED
    BY <1>8, <2>1, Moves DEF NewShape
<1>9. ASSUME NEW c \in Conns, replay_persisted_events(c)
      PROVE  NewShape'
  <2>1. UNCHANGED <<conn, inbox>> /\ handler[c].pc # "idle"
    BY <1>9 DEF replay_persisted_events
  <2>2. QED
    BY <1>9, <2>1, Moves DEF NewShape
<1>10. ASSUME NEW c \in Conns, push_replay_direct(c)
      PROVE  NewShape'
  <2>1. UNCHANGED <<conn, inbox>> /\ handler[c].pc # "idle"
    BY <1>10 DEF push_replay_direct
  <2>2. QED
    BY <1>10, <2>1, Moves DEF NewShape
<1>11. ASSUME NEW c \in Conns, replay_pending(c)
      PROVE  NewShape'
  <2>1. UNCHANGED <<conn, inbox>> /\ handler[c].pc # "idle"
    BY <1>11 DEF replay_pending
  <2>2. QED
    BY <1>11, <2>1, Moves DEF NewShape
<1>12. ASSUME NEW c \in Conns, DeliverPending(c)
      PROVE  NewShape'
  <2>1. UNCHANGED <<conn, inbox>> /\ handler[c].pc # "idle"
    BY <1>12 DEF DeliverPending
  <2>2. QED
    BY <1>12, <2>1, Moves DEF NewShape
<1>13. ASSUME NEW c \in Conns, BindEnds(c)
      PROVE  NewShape'
  <2>1. UNCHANGED <<conn, inbox>>
    BY <1>13 DEF BindEnds
  <2>2. QED
    BY <1>13, <2>1, Gives DEF NewShape
<1>14. ASSUME NEW c \in Conns, BindUnregistered(c)
      PROVE  NewShape'
  <2>1. UNCHANGED <<conn, inbox>>
    BY <1>14 DEF BindUnregistered
  <2>2. QED
    BY <1>14, <2>1, Gives DEF NewShape
<1>15. ASSUME NEW c \in Conns, Connect(c)
      PROVE  NewShape'
  <2>1. \A x \in Conns : x # c /\ conn'[x].socket = "new" => conn[x].socket = "new"
    BY <1>15 DEF Connect, TypeHub, Connection
  <2>2. UNCHANGED handler /\ \A x \in Conns : inbox'[x] = inbox[x] \/ inbox'[x] = <<>>
    BY <1>15 DEF Connect, TypeInbox
  <2>3. QED
    BY <1>15, <2>1, <2>2, Connected DEF NewShape
<1>16. ASSUME NEW s \in Sessions, bindSessionAndWait(s)
      PROVE  NewShape'
  <2>1. /\ startBindAttempt(BindFailed, s, FALSE) /\ client.conn # None
        /\ UNCHANGED <<conn, handler>>
    BY <1>16 DEF bindSessionAndWait
  <2>2. QED
    BY <2>1, Failed, Asked DEF ClientShape, NewShape
<1>17. ASSUME QueueOverflows
      PROVE  NewShape'
  <2>1. UNCHANGED <<conn, handler>>
    BY <1>17 DEF QueueOverflows
  <2>2. QED
    BY <1>17, <2>1, Overflown, Asked DEF ClientShape, NewShape
<1>18. ASSUME NEW d \in Deliverers, Deliver(d)
      PROVE  NewShape'
  BY <1>18, <1>1, <1>2 DEF Deliver, deliver, VisitSubscriber, SendSucceeds, DeliverEnds
<1>19. ASSUME NEW c \in Conns, ReadSnapshot(c) \/ RejectBind(c) \/ HandleBind(c)
                               \/ disconnect(c) \/ cleanup_once(c)
      PROVE  NewShape'
  BY <1>19, <1>3, <1>4, <1>5, <1>6, <1>7, <1>8, <1>9, <1>10, <1>11, <1>12, <1>13, <1>14 DEF
     HandleBind
<1>20. ASSUME Client
      PROVE  NewShape'
  BY <1>20, <1>1, <1>15, <1>16, <1>17 DEF Client, BindTimesOut, DropFrame, ApplyEvent, QueueEvent,
     handleSessionRestore, protocol_error
<1>21. QED
  BY <1>1, <1>18, <1>19, <1>20 DEF Next, vars, push_runtime_event

(* A handler keeps to what its connection is bound to. *)
LEMMA BinderStep ==
    ASSUME TypeEvents, TypeHub, TypeInbox, TypeJob, TypeHandler, JobShape, HandlerShape, NewShape,
           [Next]_vars
    PROVE  HandlerShape'
<1>1. ASSUME UNCHANGED <<conn, handler>> PROVE HandlerShape'
  BY <1>1 DEF HandlerShape
<1>2. ASSUME NEW d \in Deliverers, SendFails(d)
      PROVE  HandlerShape'
  <2>1. UNCHANGED handler
    BY <1>2 DEF SendFails
  <2>2. QED
    BY <1>2, <2>1, Degrades DEF HandlerShape
<1>3. ASSUME NEW c \in Conns, ReadSnapshot(c)
      PROVE  HandlerShape'
  <2>1. UNCHANGED conn
    BY <1>3 DEF ReadSnapshot
  <2>2. Len(events) \in Nat
    BY Basics
  <2>3. QED
    BY <1>3, <2>1, <2>2, Reads, DeliveryAssumption DEF HandlerShape
<1>4. ASSUME NEW c \in Conns, RejectBind(c)
      PROVE  HandlerShape'
  <2>1. UNCHANGED conn
    BY <1>4 DEF RejectBind
  <2>2. QED
    BY <1>4, <2>1, Gives DEF HandlerShape
<1>5. ASSUME NEW c \in Conns, disconnect(c)
      PROVE  HandlerShape'
  <2>1. Unregister(c, "gone") /\ UNCHANGED handler
    BY <1>5 DEF disconnect
  <2>2. QED
    BY <2>1, Unregistered DEF HandlerShape
<1>6. ASSUME NEW c \in Conns, cleanup_once(c)
      PROVE  HandlerShape'
  <2>1. /\ Unregister(c, conn[c].socket) /\ UNCHANGED handler
        /\ conn[c].socket \in {"new", "open", "closed", "gone"}
    BY <1>6 DEF cleanup_once, TypeHub, Connection
  <2>2. QED
    BY <2>1, Unregistered DEF HandlerShape
<1>7. ASSUME NEW c \in Conns, bind(c)
      PROVE  HandlerShape'
  <2>1. handler[c].pc = "read"
    BY <1>7 DEF bind
  <2>2. QED
    BY <1>7, <2>1, Moves, Bound DEF HandlerShape
<1>8. ASSUME NEW c \in Conns, SendRestored(c)
      PROVE  HandlerShape'
  <2>1. UNCHANGED conn /\ handler[c].pc = "restore"
    BY <1>8 DEF SendRestored
  <2>2. QED
    BY <1>8, <2>1, Moves DEF HandlerShape
<1>9. ASSUME NEW c \in Conns, replay_persisted_events(c)
      PROVE  HandlerShape'
  <2>1. UNCHANGED conn /\ handler[c].pc = "query"
    BY <1>9 DEF replay_persisted_events
  <2>2. QED
    BY <1>9, <2>1, Moves DEF HandlerShape
<1>10. ASSUME NEW c \in Conns, push_replay_direct(c)
      PROVE  HandlerShape'
  <2>1. UNCHANGED conn /\ handler[c].pc = "replay"
    BY <1>10 DEF push_replay_direct
  <2>2. QED
    BY <1>10, <2>1, Moves DEF HandlerShape
<1>11. ASSUME NEW c \in Conns, replay_pending(c)
      PROVE  HandlerShape'
  <2>1. UNCHANGED conn /\ handler[c].pc = "replay"
    BY <1>11 DEF replay_pending
  <2>2. QED
    BY <1>11, <2>1, Moves DEF HandlerShape
<1>12. ASSUME NEW c \in Conns, DeliverPending(c)
      PROVE  HandlerShape'
  <2>1. UNCHANGED conn /\ handler[c].pc = "pending"
    BY <1>12 DEF DeliverPending
  <2>2. QED
    BY <1>12, <2>1, Moves DEF HandlerShape
<1>13. ASSUME NEW c \in Conns, BindEnds(c)
      PROVE  HandlerShape'
  <2>1. UNCHANGED conn
    BY <1>13 DEF BindEnds
  <2>2. QED
    BY <1>13, <2>1, Gives DEF HandlerShape
<1>14. ASSUME NEW c \in Conns, BindUnregistered(c)
      PROVE  HandlerShape'
  <2>1. UNCHANGED conn
    BY <1>14 DEF BindUnregistered
  <2>2. QED
    BY <1>14, <2>1, Gives DEF HandlerShape
<1>15. ASSUME NEW c \in Conns, Connect(c)
      PROVE  HandlerShape'
  <2>1. UNCHANGED handler /\ handler[c].pc = "idle"
    BY <1>15 DEF Connect, NewShape
  <2>2. QED
    BY <1>15, <2>1, Connected DEF HandlerShape
<1>16. ASSUME NEW d \in Deliverers, Deliver(d)
      PROVE  HandlerShape'
  BY <1>16, <1>1, <1>2 DEF Deliver, deliver, VisitSubscriber, SendSucceeds, DeliverEnds
<1>17. ASSUME NEW c \in Conns, ReadSnapshot(c) \/ RejectBind(c) \/ HandleBind(c)
                               \/ disconnect(c) \/ cleanup_once(c)
      PROVE  HandlerShape'
  BY <1>17, <1>3, <1>4, <1>5, <1>6, <1>7, <1>8, <1>9, <1>10, <1>11, <1>12, <1>13, <1>14 DEF
     HandleBind
<1>18. ASSUME Client
      PROVE  HandlerShape'
  BY <1>18, <1>1, <1>15 DEF Client, bindSessionAndWait, BindTimesOut, DropFrame, ApplyEvent,
     QueueEvent, QueueOverflows, handleSessionRestore, protocol_error
<1>19. QED
  BY <1>1, <1>16, <1>17, <1>18 DEF Next, vars, push_runtime_event

(* A call of deliver has an event, and a send its target. *)
LEMMA CallStep ==
    ASSUME TypeEvents, TypeHub, TypeHandler, TypeJob, JobShape, ConnShape,
           [Next]_vars
    PROVE  JobShape'
<1>1. ASSUME UNCHANGED <<job>> PROVE JobShape'
  BY <1>1 DEF JobShape
<1>2. ASSUME NEW p \in Producers, NEW s \in Sessions, NEW kind \in Kinds,
             push_runtime_event(p, s, kind)
      PROVE  JobShape'
  <2>1. job' = [job EXCEPT ![p] = [NoJob EXCEPT !.pc = "scan", !.id = Len(events) + 1]]
    BY <1>2 DEF push_runtime_event
  <2>2. p \in Deliverers /\ Len(events) + 1 # 0
    BY Basics DEF Deliverers
  <2>3. /\ job'[p].pc = "scan" /\ job'[p].id = Len(events) + 1
        /\ \A x \in Deliverers : x # p => job'[x] = job[x]
    BY <2>1, <2>2 DEF TypeJob, NoJob
  <2>4. QED
    BY <2>2, <2>3 DEF JobShape
<1>3. ASSUME NEW d \in Deliverers, deliver(d)
      PROVE  JobShape'
  <2>1. job[d].pc = "scan" /\ NoJob.pc = "idle"
    BY <1>3 DEF deliver, NoJob
  <2>2. QED
    BY <1>3, <2>1, Scanned DEF JobShape
<1>4. ASSUME NEW d \in Deliverers, NEW c \in Conns, VisitSubscriber(d, c)
      PROVE  JobShape'
  <2>1. job[d].pc = "visit" /\ NoJob.pc = "idle" /\ c # None
    BY <1>4, DeliveryAssumption DEF VisitSubscriber, NoJob
  <2>2. QED
    BY <1>4, <2>1, Visited DEF JobShape, ConnShape
<1>5. ASSUME NEW d \in Deliverers, SendSucceeds(d)
      PROVE  JobShape'
  <2>1. job[d].pc = "send" /\ NoJob.pc = "idle"
    BY <1>5 DEF SendSucceeds, NoJob
  <2>2. QED
    BY <1>5, <2>1, WasSent DEF JobShape
<1>6. ASSUME NEW d \in Deliverers, SendFails(d)
      PROVE  JobShape'
  <2>1. job[d].pc = "send" /\ NoJob.pc = "idle"
    BY <1>6 DEF SendFails, NoJob
  <2>2. QED
    BY <1>6, <2>1, WasSent DEF JobShape
<1>7. ASSUME NEW d \in Deliverers, DeliverEnds(d)
      PROVE  JobShape'
  BY <1>7 DEF DeliverEnds, JobShape, TypeJob, NoJob
<1>8. ASSUME NEW c \in Conns, DeliverPending(c)
      PROVE  JobShape'
  <2>1. handler[c].todo \in Seq(Ids) /\ handler[c].todo # <<>>
    BY <1>8 DEF DeliverPending, TypeHandler, Handler
  <2>2. Head(handler[c].todo) \in Ids
    BY <2>1, QueueFacts
  <2>3. Head(handler[c].todo) # 0 /\ c \in Deliverers
    BY <2>2, Basics DEF Ids, Deliverers
  <2>4. job' = [job EXCEPT ![c] = [NoJob EXCEPT !.pc = "scan", !.id = Head(handler[c].todo)]]
    BY <1>8 DEF DeliverPending
  <2>5. /\ job'[c].pc = "scan" /\ job'[c].id = Head(handler[c].todo)
        /\ \A x \in Deliverers : x # c => job'[x] = job[x]
    BY <2>3, <2>4 DEF TypeJob, NoJob
  <2>6. QED
    BY <2>3, <2>5 DEF JobShape
<1>9. ASSUME NEW d \in Deliverers, Deliver(d)
      PROVE  JobShape'
  BY <1>9, <1>3, <1>4, <1>5, <1>6, <1>7 DEF Deliver
<1>10. ASSUME NEW c \in Conns, ReadSnapshot(c) \/ RejectBind(c) \/ HandleBind(c)
                               \/ disconnect(c) \/ cleanup_once(c)
      PROVE  JobShape'
  BY <1>10, <1>1, <1>8 DEF HandleBind, ReadSnapshot, RejectBind, disconnect, cleanup_once, bind,
     SendRestored, replay_persisted_events, push_replay_direct, replay_pending, BindEnds,
     BindUnregistered
<1>11. ASSUME Client
      PROVE  JobShape'
  BY <1>11, <1>1 DEF Client, Connect, bindSessionAndWait, BindTimesOut, DropFrame, ApplyEvent,
     QueueEvent, QueueOverflows, handleSessionRestore, protocol_error
<1>12. QED
  BY <1>1, <1>2, <1>9, <1>10, <1>11 DEF Next, vars

(* The client waits for its last attempt, on an open socket. *)
LEMMA BrowserStep ==
    ASSUME TypeEvents, TypeHub, TypeChannel, TypeInbox, TypeHandler, TypeJob, TypeClient,
           JobShape, HandlerShape, ClientShape,
           [Next]_vars
    PROVE  ClientShape'
<1>1. ASSUME UNCHANGED <<conn, client, events>> PROVE ClientShape'
  BY <1>1 DEF ClientShape
<1>2. ASSUME NEW p \in Producers, NEW s \in Sessions, NEW kind \in Kinds,
             push_runtime_event(p, s, kind)
      PROVE  ClientShape'
  <2>1. UNCHANGED <<conn, client>>
    BY <1>2 DEF push_runtime_event
  <2>2. client.queued \in Seq(Ids)
    BY DEF TypeClient, Browser
  <2>3. \A j \in DOMAIN client.queued : client.queued[j] \in Ids
    BY <2>2, ElementOfSeq, LenProperties
  <2>4. QED
    BY <1>2, <2>1, <2>3, Pushed DEF ClientShape
<1>3. ASSUME NEW d \in Deliverers, SendFails(d)
      PROVE  ClientShape'
  <2>1. UNCHANGED <<events, client>>
    BY <1>3 DEF SendFails
  <2>2. client.conn # None => client.conn \in Conns
    BY DEF TypeClient, Browser
  <2>3. QED
    BY <1>3, <2>1, <2>2, Degrades DEF ClientShape
<1>4. ASSUME NEW c \in Conns, disconnect(c)
      PROVE  ClientShape'
  <2>1. /\ UNCHANGED <<events, client>>
        /\ conn[c].socket = "closed" /\ Unregister(c, "gone")
    BY <1>4 DEF disconnect
  <2>2. client.conn # None => client.conn \in Conns
    BY DEF TypeClient, Browser
  <2>3. QED
    BY <2>1, <2>2, Unregistered DEF ClientShape
<1>5. ASSUME NEW c \in Conns, cleanup_once(c)
      PROVE  ClientShape'
  <2>1. /\ UNCHANGED <<events, client>> /\ Unregister(c, conn[c].socket)
        /\ conn[c].socket \in {"new", "open", "closed", "gone"}
    BY <1>5 DEF cleanup_once, TypeHub, Connection
  <2>2. client.conn # None => client.conn \in Conns
    BY DEF TypeClient, Browser
  <2>3. QED
    BY <2>1, <2>2, Unregistered DEF ClientShape
<1>6. ASSUME NEW c \in Conns, bind(c)
      PROVE  ClientShape'
  <2>1. UNCHANGED <<events, client>>
    BY <1>6 DEF bind
  <2>2. client.conn # None => client.conn \in Conns
    BY DEF TypeClient, Browser
  <2>3. QED
    BY <1>6, <2>1, <2>2, Bound DEF ClientShape
<1>7. ASSUME NEW c \in Conns, Connect(c)
      PROVE  ClientShape'
  <2>1. client'.next \in Nat
    BY <1>7, Moved, DeliveryAssumption DEF Browser
  <2>2. DOMAIN client'.queued = {}
    BY <1>7, Moved
  <2>3. QED
    BY <1>7, <2>1, <2>2, Moved, Connected DEF ClientShape
<1>8. ASSUME NEW s \in Sessions, bindSessionAndWait(s)
      PROVE  ClientShape'
  <2>1. /\ startBindAttempt(BindFailed, s, FALSE) /\ client.conn # None
        /\ UNCHANGED <<events, conn>>
    BY <1>8 DEF bindSessionAndWait
  <2>2. /\ client'.conn = client.conn /\ client'.next = client.next + 1
        /\ client'.wanted = s /\ client'.wanted_epoch = client.next + 1
        /\ client'.queued = <<>> /\ client'.bound \in {None, client.bound}
        /\ client'.epoch = client.epoch /\ client.next \in Nat
    BY <2>1, Failed, Asked
  <2>3. client.epoch \in Nat /\ s # None /\ DOMAIN <<>> = {}
    BY DeliveryAssumption DEF TypeClient, Browser
  <2>4. QED
    BY <2>1, <2>2, <2>3 DEF ClientShape
<1>9. ASSUME BindTimesOut
      PROVE  ClientShape'
  <2>1. client' = BindFailed /\ UNCHANGED <<events, conn>> /\ DOMAIN <<>> = {}
    BY <1>9 DEF BindTimesOut
  <2>2. QED
    BY <2>1, Failed DEF ClientShape
<1>10. ASSUME ApplyEvent
      PROVE  ClientShape'
  <2>1. UNCHANGED <<events, conn>>
    BY <1>10 DEF ApplyEvent
  <2>2. QED
    BY <1>10, <2>1, Applied DEF ClientShape
<1>11. ASSUME QueueEvent
      PROVE  ClientShape'
  <2>1. UNCHANGED <<events, conn>> /\ Receives("event") /\ Fenced(Received) /\ client.wanted # None
    BY <1>11 DEF QueueEvent
  <2>2. Received \in SentFrame /\ Received.type = "event"
    BY <2>1, Took
  <2>3. Received.session = events[Received.id].session /\ Received.session # None
    <3>1. Received.id \in Ids /\ Received.session = events[Received.id].session
      BY <2>2, Basics DEF SentFrame, Frame, Ids
    <3>2. events[Received.id] \in Event
      BY <3>1, ElementOfSeq DEF TypeEvents, Ids
    <3>3. QED
      BY <3>1, <3>2, DeliveryAssumption DEF Event
  <2>4. events[Received.id].session = client.wanted
    BY <2>1, <2>3 DEF Fenced
  <2>5. client.queued \in Seq(Ids)
    BY DEF TypeClient, Browser
  <2>6. \A j \in DOMAIN client'.queued :
           \/ j \in DOMAIN client.queued /\ client'.queued[j] = client.queued[j]
           \/ client'.queued[j] = Received.id
    <3>1. client'.queued = Append(client.queued, Received.id) /\ Received.id \in Ids
      BY <1>11, Queued
    <3>2. /\ Len(client'.queued) = Len(client.queued) + 1 /\ client'.queued \in Seq(Ids)
          /\ \A j \in 1..Len(client.queued) : client'.queued[j] = client.queued[j]
          /\ client'.queued[Len(client.queued) + 1] = Received.id
      BY <2>5, <3>1, AppendProperties
    <3>3. /\ DOMAIN client'.queued = 1..(Len(client.queued) + 1)
          /\ DOMAIN client.queued = 1..Len(client.queued) /\ Len(client.queued) \in Nat
      BY <2>5, <3>2, LenProperties
    <3>4. QED
      BY <3>2, <3>3
  <2>7. QED
    BY <1>11, <2>1, <2>4, <2>6, Queued DEF ClientShape
<1>12. ASSUME QueueOverflows
      PROVE  ClientShape'
  <2>1. UNCHANGED <<events, conn>> /\ client.wanted # None /\ DOMAIN <<>> = {}
    BY <1>12 DEF QueueOverflows
  <2>2. CASE startBindAttempt(client, client.wanted, TRUE)
    <3>1. client.wanted \in Sessions /\ client \in Browser /\ client.conn # None
      BY <1>12 DEF QueueOverflows, Receives, TypeClient, Browser
    <3>2. /\ client'.conn = client.conn /\ client'.next = client.next + 1
          /\ client'.wanted = client.wanted /\ client'.wanted_epoch = client.next + 1
          /\ client'.queued = <<>> /\ client'.bound = client.bound
          /\ client'.epoch = client.epoch /\ client.next \in Nat
      BY <2>2, <3>1, Asked
    <3>3. client.epoch \in Nat
      BY DeliveryAssumption DEF TypeClient, Browser
    <3>4. QED
      BY <2>1, <3>2, <3>3 DEF ClientShape
  <2>3. CASE ~ startBindAttempt(client, client.wanted, TRUE)
    BY <1>12, <2>1, <2>3, Overflown DEF ClientShape
  <2>4. QED
    BY <1>12, <2>2, <2>3, Overflown
<1>13. ASSUME handleSessionRestore
      PROVE  ClientShape'
  <2>1. UNCHANGED <<events, conn>> /\ DOMAIN <<>> = {}
    BY <1>13 DEF handleSessionRestore
  <2>2. CASE UNCHANGED client
    BY <2>1, <2>2 DEF ClientShape
  <2>3. CASE client.wanted # None /\ Received.epoch = client.wanted_epoch
    <3>1. client.next \in Nat /\ client.epoch \in Nat
      BY DeliveryAssumption DEF TypeClient, Browser
    <3>2. QED
      BY <1>13, <2>1, <2>3, <3>1, Restored DEF ClientShape
  <2>4. QED
    BY <1>13, <2>2, <2>3 DEF handleSessionRestore
<1>14. ASSUME protocol_error
      PROVE  ClientShape'
  <2>1. UNCHANGED <<events, conn>> /\ client' \in {BindFailed, client} /\ DOMAIN <<>> = {}
    BY <1>14 DEF protocol_error
  <2>2. QED
    BY <2>1, Failed DEF ClientShape
<1>15. ASSUME NEW d \in Deliverers, Deliver(d)
      PROVE  ClientShape'
  BY <1>15, <1>1, <1>3 DEF Deliver, deliver, VisitSubscriber, SendSucceeds, DeliverEnds
<1>16. ASSUME NEW c \in Conns, ReadSnapshot(c) \/ RejectBind(c) \/ HandleBind(c)
                               \/ disconnect(c) \/ cleanup_once(c)
      PROVE  ClientShape'
  BY <1>16, <1>1, <1>4, <1>5, <1>6 DEF HandleBind, ReadSnapshot, RejectBind, SendRestored,
     replay_persisted_events, push_replay_direct, replay_pending, DeliverPending, BindEnds,
     BindUnregistered
<1>17. ASSUME Client
      PROVE  ClientShape'
  BY <1>17, <1>1, <1>7, <1>8, <1>9, <1>10, <1>11, <1>12, <1>13, <1>14 DEF Client, DropFrame
<1>18. QED
  BY <1>1, <1>2, <1>15, <1>16, <1>17 DEF Next, vars


(* What is in a queue of requests, and its order. *)
LEMMA QueueOrder ==
    ASSUME NEW q \in Seq(Request), Ascending(q)
    PROVE  /\ q # <<>> => /\ Ascending(Tail(q))
                          /\ \A r \in Range(Tail(q)) : Head(q).epoch < r.epoch
           /\ \A r \in Request : (\A x \in Range(q) : x.epoch < r.epoch) => Ascending(Append(q, r))
<1>1. Len(q) \in Nat /\ DOMAIN q = 1..Len(q)
  BY LenProperties
<1>2. ASSUME q # <<>>
      PROVE  Ascending(Tail(q)) /\ \A r \in Range(Tail(q)) : Head(q).epoch < r.epoch
  <2> DEFINE t == Tail(q)
  <2>1. /\ t \in Seq(Request) /\ Len(t) = Len(q) - 1
        /\ \A i \in 1..Len(t) : t[i] = q[i + 1]
    BY <1>2, HeadTailProperties
  <2>2. DOMAIN t = 1..Len(t) /\ Len(t) \in Nat /\ Head(q) = q[1]
    BY <2>1, LenProperties
  <2> HIDE DEF t
  <2>3. \A i \in DOMAIN t : i + 1 \in DOMAIN q /\ t[i] = q[i + 1] /\ 1 \in DOMAIN q /\ 1 < i + 1
    BY <1>1, <2>1, <2>2
  <2>4. Ascending(t)
    <3>1. SUFFICES ASSUME NEW j \in DOMAIN t, NEW k \in DOMAIN t, j < k
                   PROVE  t[j].epoch < t[k].epoch
      BY DEF Ascending
    <3>2. j + 1 < k + 1
      BY <2>2, <3>1
    <3>3. QED
      BY <2>3, <3>1, <3>2 DEF Ascending
  <2>5. \A r \in Range(t) : q[1].epoch < r.epoch
    BY <2>3 DEF Ascending, Range
  <2>6. QED
    BY <2>2, <2>4, <2>5 DEF t
<1>3. ASSUME NEW r \in Request, \A x \in Range(q) : x.epoch < r.epoch
      PROVE  Ascending(Append(q, r))
  <2> DEFINE a == Append(q, r)
  <2>1. /\ a \in Seq(Request) /\ Len(a) = Len(q) + 1
        /\ \A i \in 1..Len(q) : a[i] = q[i]
        /\ a[Len(q) + 1] = r
    BY AppendProperties
  <2>2. DOMAIN a = 1..(Len(q) + 1)
    BY <2>1, LenProperties
  <2> HIDE DEF a
  <2>3. ASSUME NEW j \in DOMAIN a, NEW k \in DOMAIN a, j < k
        PROVE  a[j].epoch < a[k].epoch
    <3>1. j \in DOMAIN q /\ a[j] = q[j] /\ q[j] \in Range(q)
      BY <1>1, <2>1, <2>2, <2>3 DEF Range
    <3>2. CASE k = Len(q) + 1
      BY <1>3, <2>1, <3>1, <3>2
    <3>3. CASE k # Len(q) + 1
      <4>1. k \in DOMAIN q /\ a[k] = q[k]
        BY <1>1, <2>1, <2>2, <3>3
      <4>2. QED
        BY <2>3, <3>1, <4>1 DEF Ascending
    <3>4. QED
      BY <3>2, <3>3
  <2>4. QED
    BY <2>3 DEF Ascending, a
<1>4. QED
  BY <1>2, <1>3

(* A new attempt is ahead of everything there is. *)
LEMMA Asks ==
    ASSUME TypeClient, TypeInbox, EpochBound, client.conn # None, NEW before \in Browser,
           NEW s \in Sessions, NEW again \in BOOLEAN, before.next = client.next,
           startBindAttempt(before, s, again)
    PROVE  /\ client'.next = client.next + 1 /\ client.next \in Nat
           /\ \A x \in Conns : \A r \in Range(inbox'[x]) :
                 \/ r \in Range(inbox[x])
                 \/ x = client.conn /\ r.session = s /\ r.epoch = client.next + 1
<1> DEFINE req == [session |-> s, epoch |-> client.next + 1]
<1>1. /\ client'.next = client.next + 1 /\ client.next \in Nat /\ client.conn \in Conns
      /\ \A x \in Conns : x # client.conn => inbox'[x] = inbox[x]
      /\ inbox'[client.conn] = Append(inbox[client.conn], req)
      /\ inbox' \in [Conns -> Seq(Request)]
  BY Asked
<1>2. inbox[client.conn] \in Seq(Request) /\ client.next + 1 <= MaxBinds
  BY <1>1, DeliveryAssumption DEF TypeInbox, startBindAttempt, TypeClient, Browser
<1>3. req \in Request /\ req.session = s /\ req.epoch = client.next + 1
  BY <1>1, <1>2, DeliveryAssumption DEF Request
<1> HIDE DEF req
<1>4. Range(inbox'[client.conn]) = Range(inbox[client.conn]) \cup {req}
  BY <1>1, <1>2, <1>3, QueueFacts
<1>5. QED
  BY <1>1, <1>3, <1>4


(* The numbers of attempts are numbers. *)
LEMMA Numbers ==
    ASSUME TypeHub, TypeChannel, TypeInbox, TypeHandler, TypeJob, TypeClient
    PROVE  /\ client.next \in Nat /\ client.epoch \in Nat
           /\ \A d \in Deliverers : job[d].epoch \in Nat
           /\ \A c \in Conns : /\ conn[c].epoch \in Nat /\ handler[c].epoch \in Nat
                               /\ Range(channel[c]) \subseteq SentFrame
                               /\ \A f \in Range(channel[c]) : f.epoch \in Nat
                               /\ Range(inbox[c]) \subseteq Request
                               /\ \A r \in Range(inbox[c]) : r.epoch \in Nat /\ r.epoch > 0
<1>1. client.next \in Nat /\ client.epoch \in Nat
  BY DeliveryAssumption DEF TypeClient, Browser
<1>2. \A d \in Deliverers : job[d].epoch \in Nat
  BY DeliveryAssumption DEF TypeJob, Job
<1>3. ASSUME NEW c \in Conns PROVE conn[c].epoch \in Nat /\ handler[c].epoch \in Nat
  BY DeliveryAssumption DEF TypeHub, Connection, TypeHandler, Handler
<1>4. ASSUME NEW c \in Conns
      PROVE  Range(channel[c]) \subseteq SentFrame /\ Range(inbox[c]) \subseteq Request
  <2>1. channel[c] \in Seq(SentFrame) /\ inbox[c] \in Seq(Request)
    BY DEF TypeChannel, TypeInbox
  <2>2. QED
    BY <2>1, QueueFacts
<1>5. /\ \A f \in SentFrame : f.epoch \in Nat
      /\ \A r \in Request : r.epoch \in Nat /\ r.epoch > 0
  BY DeliveryAssumption DEF SentFrame, Frame, Request
<1>6. QED
  BY <1>1, <1>2, <1>3, <1>4, <1>5

(* Nobody is ahead of the client when nothing else changes but its count. *)
LEMMA AheadBound ==
    ASSUME TypeHub, TypeChannel, TypeInbox, TypeHandler, TypeJob, TypeClient, EpochBound,
           UNCHANGED <<conn, handler, job>>, client'.next = client.next + 1,
           \A x \in Conns : Range(channel'[x]) \subseteq Range(channel[x]),
           \A x \in Conns : \A r \in Range(inbox'[x]) :
                 r \in Range(inbox[x]) \/ r.epoch = client.next + 1
    PROVE  EpochBound'
<1>1. client.next \in Nat
  BY Numbers
<1>2. \A d \in Deliverers : job'[d].epoch <= client.next + 1
  BY <1>1, Numbers DEF EpochBound
<1>3. ASSUME NEW c \in Conns
      PROVE  /\ conn'[c].epoch <= client.next + 1 /\ handler'[c].epoch <= client.next + 1
             /\ \A f \in Range(channel'[c]) : f.epoch <= client.next + 1
             /\ \A r \in Range(inbox'[c]) : r.epoch <= client.next + 1
  BY <1>1, Numbers DEF EpochBound
<1>4. QED
  BY <1>2, <1>3 DEF EpochBound

(* The client alone counts its attempts. *)
LEMMA BoundStep ==
    ASSUME TypeEvents, TypeHub, TypeChannel, TypeInbox, TypeHandler, TypeJob, TypeClient,
           ConnShape, HandlerShape, JobShape, ClientShape, EpochBound,
           [Next]_vars
    PROVE  EpochBound'
<1>1. ASSUME UNCHANGED <<job, conn, handler, channel, inbox, client>> PROVE EpochBound'
  BY <1>1 DEF EpochBound
<1>2. ASSUME NEW p \in Producers, NEW s \in Sessions, NEW kind \in Kinds,
             push_runtime_event(p, s, kind)
      PROVE  EpochBound'
  <2>1. UNCHANGED <<conn, handler, channel, inbox, client>> /\ client.next >= 0 /\ p \in Deliverers
    BY <1>2, DeliveryAssumption DEF push_runtime_event, TypeClient, Browser, Deliverers
  <2>2. job' = [job EXCEPT ![p] = [NoJob EXCEPT !.pc = "scan", !.id = Len(events) + 1]]
    BY <1>2 DEF push_runtime_event
  <2>3. job'[p].epoch = 0 /\ \A x \in Deliverers : x # p => job'[x] = job[x]
    BY <2>1, <2>2 DEF TypeJob, NoJob
  <2>4. QED
    BY <2>1, <2>3 DEF EpochBound
<1>3. ASSUME NEW d \in Deliverers, deliver(d)
      PROVE  EpochBound'
  <2>1. /\ UNCHANGED <<conn, handler, channel, inbox, client>> /\ client.next >= 0
        /\ NoJob.epoch = 0
    BY <1>3, DeliveryAssumption DEF deliver, TypeClient, Browser, NoJob
  <2>2. QED
    BY <1>3, <2>1, Scanned DEF EpochBound
<1>4. ASSUME NEW d \in Deliverers, NEW c \in Conns, VisitSubscriber(d, c)
      PROVE  EpochBound'
  <2>1. /\ UNCHANGED <<conn, handler, channel, inbox, client>> /\ client.next >= 0
        /\ NoJob.epoch = 0
    BY <1>4, DeliveryAssumption DEF VisitSubscriber, TypeClient, Browser, NoJob
  <2>2. QED
    BY <1>4, <2>1, Visited DEF EpochBound
<1>5. ASSUME NEW d \in Deliverers, SendSucceeds(d)
      PROVE  EpochBound'
  <2>1. /\ UNCHANGED <<conn, handler, inbox, client>> /\ client.next >= 0
        /\ NoJob.epoch = 0
    BY <1>5, DeliveryAssumption DEF SendSucceeds, TypeClient, Browser, NoJob
  <2>2. job[d].target \in Conns /\ job[d].epoch \in 1..MaxBinds /\ job[d].id \in Ids
    BY <1>5, JobEvent, DeliveryAssumption DEF SendSucceeds, JobShape, TypeJob, Job
  <2> DEFINE f == EventFrame(job[d].id, job[d].epoch)
  <2>3. f \in SentFrame /\ f.epoch = job[d].epoch /\ ToChannel(job[d].target, f)
    BY <1>5, <2>2, FrameFacts DEF SendSucceeds, EventFrame
  <2> HIDE DEF f
  <2>4. \A x \in Conns : \A g \in Range(channel'[x]) : g.epoch <= client.next
    BY <2>2, <2>3, Sent DEF EpochBound
  <2>5. QED
    BY <1>5, <2>1, <2>4, WasSent DEF EpochBound
<1>6. ASSUME NEW d \in Deliverers, SendFails(d)
      PROVE  EpochBound'
  <2>1. /\ UNCHANGED <<handler, channel, inbox, client>> /\ client.next >= 0
        /\ NoJob.epoch = 0
    BY <1>6, DeliveryAssumption DEF SendFails, TypeClient, Browser, NoJob
  <2>2. QED
    BY <1>6, <2>1, WasSent, Degrades DEF EpochBound
<1>7. ASSUME NEW d \in Deliverers, DeliverEnds(d)
      PROVE  EpochBound'
  <2>1. /\ UNCHANGED <<conn, handler, channel, inbox, client>> /\ client.next >= 0
        /\ NoJob.epoch = 0
    BY <1>7, DeliveryAssumption DEF DeliverEnds, TypeClient, Browser, NoJob
  <2>2. job' = [job EXCEPT ![d] = NoJob]
    BY <1>7 DEF DeliverEnds
  <2>3. QED
    BY <2>1, <2>2 DEF TypeJob, EpochBound
<1>8. ASSUME NEW c \in Conns, ReadSnapshot(c)
      PROVE  EpochBound'
  <2>1. UNCHANGED <<conn, channel, job, client>>
    BY <1>8 DEF ReadSnapshot
  <2>2. Range(inbox[c]) = {Head(inbox[c])} \cup Range(inbox'[c])
    <3>1. inbox[c] \in Seq(Request) /\ inbox[c] # <<>> /\ inbox'[c] = Tail(inbox[c])
      BY <1>8, Reads DEF TypeInbox
    <3>2. QED
      BY <3>1, QueueFacts
  <2>3. QED
    BY <1>8, <2>1, <2>2, Reads DEF EpochBound
<1>9. ASSUME NEW c \in Conns, RejectBind(c)
      PROVE  EpochBound'
  <2>1. /\ UNCHANGED <<conn, inbox, job, client>> /\ client.next >= 0
        /\ push_direct(c, "protocol_error") /\ handler[c].pc \in {"read", "restore"}
    BY <1>9, DeliveryAssumption DEF RejectBind, TypeClient, Browser
  <2>2. \A x \in Conns : \A g \in Range(channel'[x]) : g.epoch <= client.next
    <3>1. /\ \A x \in Conns : x # c => channel'[x] = channel[x]
          /\ \/ channel'[c] = channel[c]
             \/ \E f \in SentFrame : /\ f.epoch = handler[c].epoch
                                     /\ Range(channel'[c]) = Range(channel[c]) \cup {f}
      BY <2>1, Direct
    <3>2. QED
      BY <3>1 DEF EpochBound
  <2>3. QED
    BY <1>9, <2>1, <2>2, Gives DEF EpochBound
<1>10. ASSUME NEW c \in Conns, disconnect(c)
      PROVE  EpochBound'
  <2>1. /\ UNCHANGED <<handler, channel, inbox, job, client>> /\ client.next >= 0
        /\ Unregister(c, "gone") /\ "gone" \in {"new", "open", "closed", "gone"}
    BY <1>10, DeliveryAssumption DEF disconnect, TypeClient, Browser, TypeHub, Connection
  <2>2. QED
    BY <2>1, Unregistered DEF EpochBound
<1>11. ASSUME NEW c \in Conns, cleanup_once(c)
      PROVE  EpochBound'
  <2>1. /\ UNCHANGED <<handler, channel, inbox, job, client>> /\ client.next >= 0
        /\ Unregister(c, conn[c].socket) /\ conn[c].socket \in {"new", "open", "closed", "gone"}
    BY <1>11, DeliveryAssumption DEF cleanup_once, TypeClient, Browser, TypeHub, Connection
  <2>2. QED
    BY <2>1, Unregistered DEF EpochBound
<1>12. ASSUME NEW c \in Conns, bind(c)
      PROVE  EpochBound'
  <2>1. UNCHANGED <<channel, inbox, job, client>> /\ client.next >= 0
    BY <1>12, DeliveryAssumption DEF bind, TypeClient, Browser
  <2>2. QED
    BY <1>12, <2>1, Moves, Bound DEF EpochBound
<1>13. ASSUME NEW c \in Conns, SendRestored(c)
      PROVE  EpochBound'
  <2>1. /\ UNCHANGED <<conn, inbox, job, client>> /\ client.next >= 0
        /\ push_direct(c, "session_restored") /\ handler[c].pc \in {"read", "restore"}
    BY <1>13, DeliveryAssumption DEF SendRestored, TypeClient, Browser
  <2>2. \A x \in Conns : \A g \in Range(channel'[x]) : g.epoch <= client.next
    <3>1. /\ \A x \in Conns : x # c => channel'[x] = channel[x]
          /\ \/ channel'[c] = channel[c]
             \/ \E f \in SentFrame : /\ f.epoch = handler[c].epoch
                                     /\ Range(channel'[c]) = Range(channel[c]) \cup {f}
      BY <2>1, Direct
    <3>2. QED
      BY <3>1 DEF EpochBound
  <2>3. QED
    BY <1>13, <2>1, <2>2, Moves DEF EpochBound
<1>14. ASSUME NEW c \in Conns, replay_persisted_events(c)
      PROVE  EpochBound'
  <2>1. UNCHANGED <<conn, channel, inbox, job, client>> /\ client.next >= 0
    BY <1>14, DeliveryAssumption DEF replay_persisted_events, TypeClient, Browser
  <2>2. QED
    BY <1>14, <2>1, Moves DEF EpochBound
<1>15. ASSUME NEW c \in Conns, push_replay_direct(c)
      PROVE  EpochBound'
  <2>1. UNCHANGED <<conn, inbox, job, client>> /\ client.next >= 0
    BY <1>15, DeliveryAssumption DEF push_replay_direct, TypeClient, Browser
  <2>2. ASSUME NEW i \in handler[c].rows, conn[c].registered, ToChannel(c, EventFrame(i,
               conn[c].epoch))
        PROVE  \A x \in Conns : \A g \in Range(channel'[x]) : g.epoch <= client.next
    <3> DEFINE f == EventFrame(i, conn[c].epoch)
    <3>1. conn[c].epoch \in 1..MaxBinds
      BY <1>15, <2>2, DeliveryAssumption DEF push_replay_direct, HandlerShape, ConnShape, TypeHub,
         Connection
    <3>2. f \in SentFrame /\ f.epoch = conn[c].epoch /\ ToChannel(c, f)
      BY <2>2, <3>1, FrameFacts DEF TypeHandler, Handler, EventFrame
    <3> HIDE DEF f
    <3>3. QED
      BY <3>2, Sent DEF EpochBound
  <2>3. \A x \in Conns : \A g \in Range(channel'[x]) : g.epoch <= client.next
    BY <1>15, <2>2 DEF push_replay_direct, EpochBound
  <2>4. QED
    BY <1>15, <2>1, <2>3, Moves DEF EpochBound
<1>16. ASSUME NEW c \in Conns, replay_pending(c)
      PROVE  EpochBound'
  <2>1. UNCHANGED <<conn, channel, inbox, job, client>> /\ client.next >= 0
    BY <1>16, DeliveryAssumption DEF replay_pending, TypeClient, Browser
  <2>2. QED
    BY <1>16, <2>1, Moves DEF EpochBound
<1>17. ASSUME NEW c \in Conns, DeliverPending(c)
      PROVE  EpochBound'
  <2>1. UNCHANGED <<conn, channel, inbox, client>> /\ client.next >= 0 /\ c \in Deliverers
    BY <1>17, DeliveryAssumption DEF DeliverPending, TypeClient, Browser, Deliverers
  <2>2. job' = [job EXCEPT ![c] = [NoJob EXCEPT !.pc = "scan", !.id = Head(handler[c].todo)]]
    BY <1>17 DEF DeliverPending
  <2>3. job'[c].epoch = 0 /\ \A x \in Deliverers : x # c => job'[x] = job[x]
    BY <2>1, <2>2 DEF TypeJob, NoJob
  <2>4. QED
    BY <1>17, <2>1, <2>3, Moves DEF EpochBound
<1>18. ASSUME NEW c \in Conns, BindEnds(c)
      PROVE  EpochBound'
  <2>1. UNCHANGED <<conn, channel, inbox, job, client>> /\ client.next >= 0
    BY <1>18, DeliveryAssumption DEF BindEnds, TypeClient, Browser
  <2>2. QED
    BY <1>18, <2>1, Gives DEF EpochBound
<1>19. ASSUME NEW c \in Conns, BindUnregistered(c)
      PROVE  EpochBound'
  <2>1. UNCHANGED <<conn, channel, inbox, job, client>> /\ client.next >= 0
    BY <1>19, DeliveryAssumption DEF BindUnregistered, TypeClient, Browser
  <2>2. QED
    BY <1>19, <2>1, Gives DEF EpochBound
<1>20. ASSUME NEW c \in Conns, Connect(c)
      PROVE  EpochBound'
  <2>1. /\ UNCHANGED <<handler, job>>
        /\ \A x \in Conns : /\ channel'[x] = channel[x] \/ channel'[x] = <<>>
                            /\ inbox'[x] = inbox[x] \/ inbox'[x] = <<>>
    BY <1>20 DEF Connect
  <2>2. Range(<<>>) = {}
    BY DEF Range
  <2>3. QED
    BY <1>20, <2>1, <2>2, Connected, Moved DEF EpochBound
<1>21. ASSUME NEW s \in Sessions, bindSessionAndWait(s)
      PROVE  EpochBound'
  <2>1. /\ startBindAttempt(BindFailed, s, FALSE) /\ client.conn # None
        /\ UNCHANGED <<conn, handler, channel, job>>
    BY <1>21 DEF bindSessionAndWait
  <2>2. BindFailed \in Browser /\ BindFailed.next = client.next
    BY Failed
  <2>3. /\ client'.next = client.next + 1
        /\ \A x \in Conns : \A r \in Range(inbox'[x]) :
              r \in Range(inbox[x]) \/ r.epoch = client.next + 1
    BY <2>1, <2>2, Asks
  <2>4. QED
    BY <2>1, <2>3, AheadBound
<1>22. ASSUME BindTimesOut
      PROVE  EpochBound'
  <2>1. UNCHANGED <<conn, handler, channel, inbox, job>> /\ client' = BindFailed
    BY <1>22 DEF BindTimesOut
  <2>2. QED
    BY <2>1, Failed DEF EpochBound
<1>23. ASSUME DropFrame
      PROVE  EpochBound'
  <2>1. UNCHANGED <<conn, handler, inbox, job>> /\ Receives(Received.type)
    BY <1>23 DEF DropFrame
  <2>2. client'.next = client.next
    BY <1>23 DEF DropFrame
  <2>3. \A x \in Conns : Range(channel'[x]) \subseteq Range(channel[x])
    BY <2>1, Took
  <2>4. QED
    BY <2>1, <2>2, <2>3 DEF EpochBound
<1>24. ASSUME ApplyEvent
      PROVE  EpochBound'
  <2>1. UNCHANGED <<conn, handler, inbox, job>> /\ Receives("event")
    BY <1>24 DEF ApplyEvent
  <2>2. client'.next = client.next
    BY <1>24, Applied DEF ApplyEvent
  <2>3. \A x \in Conns : Range(channel'[x]) \subseteq Range(channel[x])
    BY <2>1, Took
  <2>4. QED
    BY <2>1, <2>2, <2>3 DEF EpochBound
<1>25. ASSUME QueueEvent
      PROVE  EpochBound'
  <2>1. UNCHANGED <<conn, handler, inbox, job>> /\ Receives("event")
    BY <1>25 DEF QueueEvent
  <2>2. client'.next = client.next
    BY <1>25, Queued DEF QueueEvent
  <2>3. \A x \in Conns : Range(channel'[x]) \subseteq Range(channel[x])
    BY <2>1, Took
  <2>4. QED
    BY <2>1, <2>2, <2>3 DEF EpochBound
<1>26. ASSUME QueueOverflows
      PROVE  EpochBound'
  <2>1. UNCHANGED <<conn, handler, job>> /\ Receives("event")
    BY <1>26 DEF QueueOverflows
  <2>2. \A x \in Conns : Range(channel'[x]) \subseteq Range(channel[x])
    BY <2>1, Took
  <2>3. CASE startBindAttempt(client, client.wanted, TRUE)
    <3>1. client.wanted \in Sessions /\ client \in Browser /\ client.conn # None
      BY <1>26 DEF QueueOverflows, Receives, TypeClient, Browser
    <3>2. /\ client'.next = client.next + 1
          /\ \A x \in Conns : \A r \in Range(inbox'[x]) :
                r \in Range(inbox[x]) \/ r.epoch = client.next + 1
      BY <2>3, <3>1, Asks
    <3>3. QED
      BY <2>1, <2>2, <3>2, AheadBound
  <2>4. CASE ~ startBindAttempt(client, client.wanted, TRUE)
    BY <1>26, <2>1, <2>2, <2>4, Overflown DEF EpochBound
  <2>5. QED
    BY <2>3, <2>4
<1>27. ASSUME handleSessionRestore
      PROVE  EpochBound'
  <2>1. UNCHANGED <<conn, handler, inbox, job>> /\ Receives("session_restored")
    BY <1>27 DEF handleSessionRestore
  <2>2. client'.next = client.next
    BY <1>27, Restored DEF handleSessionRestore
  <2>3. \A x \in Conns : Range(channel'[x]) \subseteq Range(channel[x])
    BY <2>1, Took
  <2>4. QED
    BY <2>1, <2>2, <2>3 DEF EpochBound
<1>28. ASSUME protocol_error
      PROVE  EpochBound'
  <2>1. UNCHANGED <<conn, handler, inbox, job>> /\ Receives("protocol_error")
    BY <1>28 DEF protocol_error
  <2>2. client'.next = client.next
    BY <1>28, Failed DEF protocol_error
  <2>3. \A x \in Conns : Range(channel'[x]) \subseteq Range(channel[x])
    BY <2>1, Took
  <2>4. QED
    BY <2>1, <2>2, <2>3 DEF EpochBound
<1>29. ASSUME NEW d \in Deliverers, Deliver(d)
      PROVE  EpochBound'
  BY <1>29, <1>3, <1>4, <1>5, <1>6, <1>7 DEF Deliver
<1>30. ASSUME NEW c \in Conns, ReadSnapshot(c) \/ RejectBind(c) \/ HandleBind(c)
                               \/ disconnect(c) \/ cleanup_once(c)
      PROVE  EpochBound'
  BY <1>30, <1>8, <1>9, <1>10, <1>11, <1>12, <1>13, <1>14, <1>15, <1>16, <1>17, <1>18, <1>19 DEF
     HandleBind
<1>31. ASSUME Client
      PROVE  EpochBound'
  BY <1>31, <1>20, <1>21, <1>22, <1>23, <1>24, <1>25, <1>26, <1>27, <1>28 DEF Client
<1>32. QED
  BY <1>1, <1>2, <1>29, <1>30, <1>31 DEF Next, vars


(* A new request is queued behind all the others. *)
LEMMA AskOrder ==
    ASSUME TypeHub, TypeChannel, TypeInbox, TypeHandler, TypeJob, TypeClient, EpochBound,
           EpochOrder,
           client.conn # None, NEW before \in Browser,
           NEW s \in Sessions, NEW again \in BOOLEAN, before.next = client.next,
           startBindAttempt(before, s, again), UNCHANGED <<conn, handler>>
    PROVE  EpochOrder'
<1> DEFINE req == [session |-> s, epoch |-> client.next + 1]
<1>1. /\ client.next \in Nat /\ client.conn \in Conns
      /\ \A x \in Conns : x # client.conn => inbox'[x] = inbox[x]
      /\ inbox'[client.conn] = Append(inbox[client.conn], req)
  BY Asked
<1>2. inbox[client.conn] \in Seq(Request) /\ client.next + 1 <= MaxBinds
  BY <1>1, DeliveryAssumption DEF TypeInbox, startBindAttempt, TypeClient, Browser
<1>3. req \in Request /\ req.epoch = client.next + 1
  BY <1>1, <1>2, DeliveryAssumption DEF Request
<1> HIDE DEF req
<1>4. \A r \in Range(inbox[client.conn]) : r.epoch < req.epoch
  BY <1>1, <1>3, Numbers DEF EpochBound
<1>5. Ascending(inbox'[client.conn])
  BY <1>1, <1>2, <1>3, <1>4, QueueOrder DEF EpochOrder
<1>6. Range(inbox'[client.conn]) = Range(inbox[client.conn]) \cup {req}
  BY <1>1, <1>2, <1>3, QueueFacts
<1>7. conn[client.conn].epoch < req.epoch /\ handler[client.conn].epoch < req.epoch
  BY <1>1, <1>3, Numbers DEF EpochBound
<1>8. QED
  BY <1>1, <1>5, <1>6, <1>7 DEF EpochOrder

(* Attempts overtake each other nowhere. *)
LEMMA OrderStep ==
    ASSUME TypeEvents, TypeHub, TypeChannel, TypeInbox, TypeHandler, TypeJob, TypeClient,
           ConnShape, HandlerShape, JobShape, ClientShape, EpochBound, EpochOrder,
           [Next]_vars
    PROVE  EpochOrder'
<1>1. ASSUME UNCHANGED <<conn, handler, inbox>> PROVE EpochOrder'
  BY <1>1 DEF EpochOrder
<1>2. ASSUME NEW d \in Deliverers, SendFails(d)
      PROVE  EpochOrder'
  <2>1. UNCHANGED <<handler, inbox>>
    BY <1>2 DEF SendFails
  <2>2. QED
    BY <1>2, <2>1, Degrades DEF EpochOrder
<1>3. ASSUME NEW c \in Conns, ReadSnapshot(c)
      PROVE  EpochOrder'
  <2>1. UNCHANGED conn
    BY <1>3 DEF ReadSnapshot
  <2>2. inbox[c] \in Seq(Request) /\ Ascending(inbox[c])
    BY DEF TypeInbox, EpochOrder
  <2>3. /\ inbox[c] # <<>> /\ inbox'[c] = Tail(inbox[c])
        /\ handler'[c].epoch = Head(inbox[c]).epoch
        /\ \A x \in Conns : x # c => handler'[x] = handler[x] /\ inbox'[x] = inbox[x]
    BY <1>3, Reads
  <2>4. /\ Range(inbox[c]) = {Head(inbox[c])} \cup Range(inbox'[c])
        /\ Ascending(inbox'[c])
        /\ \A r \in Range(inbox'[c]) : handler'[c].epoch < r.epoch
    BY <2>2, <2>3, QueueFacts, QueueOrder
  <2>5. QED
    BY <2>1, <2>3, <2>4 DEF EpochOrder
<1>4. ASSUME NEW c \in Conns, RejectBind(c)
      PROVE  EpochOrder'
  <2>1. UNCHANGED <<conn, inbox>>
    BY <1>4 DEF RejectBind
  <2>2. QED
    BY <1>4, <2>1, Gives DEF EpochOrder
<1>5. ASSUME NEW c \in Conns, disconnect(c)
      PROVE  EpochOrder'
  <2>1. /\ UNCHANGED <<handler, inbox>>
        /\ Unregister(c, "gone") /\ "gone" \in {"new", "open", "closed", "gone"}
    BY <1>5 DEF disconnect, TypeHub, Connection
  <2>2. /\ handler[c].pc = "read" => 0 < handler[c].epoch
        /\ \A r \in Range(inbox[c]) : 0 < r.epoch
    BY Numbers DEF HandlerShape
  <2>3. QED
    BY <2>1, <2>2, Unregistered DEF EpochOrder
<1>6. ASSUME NEW c \in Conns, cleanup_once(c)
      PROVE  EpochOrder'
  <2>1. /\ UNCHANGED <<handler, inbox>>
        /\ Unregister(c, conn[c].socket) /\ conn[c].socket \in {"new", "open", "closed", "gone"}
    BY <1>6 DEF cleanup_once, TypeHub, Connection
  <2>2. /\ handler[c].pc = "read" => 0 < handler[c].epoch
        /\ \A r \in Range(inbox[c]) : 0 < r.epoch
    BY Numbers DEF HandlerShape
  <2>3. QED
    BY <2>1, <2>2, Unregistered DEF EpochOrder
<1>7. ASSUME NEW c \in Conns, bind(c)
      PROVE  EpochOrder'
  <2>1. UNCHANGED inbox /\ handler[c].pc = "read"
    BY <1>7 DEF bind
  <2>2. QED
    BY <1>7, <2>1, Moves, Bound DEF EpochOrder
<1>8. ASSUME NEW c \in Conns, SendRestored(c)
      PROVE  EpochOrder'
  <2>1. UNCHANGED <<conn, inbox>>
    BY <1>8 DEF SendRestored
  <2>2. QED
    BY <1>8, <2>1, Moves DEF EpochOrder
<1>9. ASSUME NEW c \in Conns, replay_persisted_events(c)
      PROVE  EpochOrder'
  <2>1. UNCHANGED <<conn, inbox>>
    BY <1>9 DEF replay_persisted_events
  <2>2. QED
    BY <1>9, <2>1, Moves DEF EpochOrder
<1>10. ASSUME NEW c \in Conns, push_replay_direct(c)
      PROVE  EpochOrder'
  <2>1. UNCHANGED <<conn, inbox>>
    BY <1>10 DEF push_replay_direct
  <2>2. QED
    BY <1>10, <2>1, Moves DEF EpochOrder
<1>11. ASSUME NEW c \in Conns, replay_pending(c)
      PROVE  EpochOrder'
  <2>1. UNCHANGED <<conn, inbox>>
    BY <1>11 DEF replay_pending
  <2>2. QED
    BY <1>11, <2>1, Moves DEF EpochOrder
<1>12. ASSUME NEW c \in Conns, DeliverPending(c)
      PROVE  EpochOrder'
  <2>1. UNCHANGED <<conn, inbox>>
    BY <1>12 DEF DeliverPending
  <2>2. QED
    BY <1>12, <2>1, Moves DEF EpochOrder
<1>13. ASSUME NEW c \in Conns, BindEnds(c)
      PROVE  EpochOrder'
  <2>1. UNCHANGED <<conn, inbox>>
    BY <1>13 DEF BindEnds
  <2>2. QED
    BY <1>13, <2>1, Gives DEF EpochOrder
<1>14. ASSUME NEW c \in Conns, BindUnregistered(c)
      PROVE  EpochOrder'
  <2>1. UNCHANGED <<conn, inbox>>
    BY <1>14 DEF BindUnregistered
  <2>2. QED
    BY <1>14, <2>1, Gives DEF EpochOrder
<1>15. ASSUME NEW c \in Conns, Connect(c)
      PROVE  EpochOrder'
  <2>1. UNCHANGED handler /\ \A x \in Conns : inbox'[x] = inbox[x] \/ inbox'[x] = <<>>
    BY <1>15 DEF Connect
  <2>2. Range(<<>>) = {} /\ Ascending(<<>>)
    BY DEF Range, Ascending
  <2>3. QED
    BY <1>15, <2>1, <2>2, Connected DEF EpochOrder
<1>16. ASSUME NEW s \in Sessions, bindSessionAndWait(s)
      PROVE  EpochOrder'
  <2>1. /\ startBindAttempt(BindFailed, s, FALSE) /\ client.conn # None
        /\ UNCHANGED <<conn, handler>>
    BY <1>16 DEF bindSessionAndWait
  <2>2. BindFailed \in Browser /\ BindFailed.next = client.next
    BY Failed
  <2>3. QED
    BY <2>1, <2>2, AskOrder
<1>17. ASSUME QueueOverflows
      PROVE  EpochOrder'
  <2>1. UNCHANGED <<conn, handler>>
    BY <1>17 DEF QueueOverflows
  <2>2. CASE startBindAttempt(client, client.wanted, TRUE)
    <3>1. client.wanted \in Sessions /\ client \in Browser /\ client.conn # None
      BY <1>17 DEF QueueOverflows, Receives, TypeClient, Browser
    <3>2. QED
      BY <2>1, <2>2, <3>1, AskOrder
  <2>3. CASE ~ startBindAttempt(client, client.wanted, TRUE)
    BY <1>17, <2>1, <2>3, Overflown DEF EpochOrder
  <2>4. QED
    BY <2>2, <2>3
<1>18. ASSUME NEW d \in Deliverers, Deliver(d)
      PROVE  EpochOrder'
  BY <1>18, <1>1, <1>2 DEF Deliver, deliver, VisitSubscriber, SendSucceeds, DeliverEnds
<1>19. ASSUME NEW c \in Conns, ReadSnapshot(c) \/ RejectBind(c) \/ HandleBind(c)
                               \/ disconnect(c) \/ cleanup_once(c)
      PROVE  EpochOrder'
  BY <1>19, <1>3, <1>4, <1>5, <1>6, <1>7, <1>8, <1>9, <1>10, <1>11, <1>12, <1>13, <1>14 DEF
     HandleBind
<1>20. ASSUME Client
      PROVE  EpochOrder'
  BY <1>20, <1>1, <1>15, <1>16, <1>17 DEF Client, BindTimesOut, DropFrame, ApplyEvent, QueueEvent,
     handleSessionRestore, protocol_error
<1>21. QED
  BY <1>1, <1>18, <1>19, <1>20 DEF Next, vars, push_runtime_event


(* A live client is connected, and its last attempt has a number. *)
LEMMA LiveClient ==
    ASSUME TypeHub, TypeClient, ClientShape, Live
    PROVE  /\ client.conn \in Conns /\ conn[client.conn].socket = "open"
           /\ client.next # 0 /\ Goal \in Sessions
           /\ Goal = IF client.wanted # None THEN client.wanted ELSE client.bound
<1>1. client.next \in Nat /\ client.epoch \in Nat
  BY DeliveryAssumption DEF TypeClient, Browser
<1>2. client.conn \in Conns /\ conn[client.conn].socket = "open"
  BY DEF Live, ClientShape, TypeClient, Browser
<1>3. client.next # 0
  BY <1>1 DEF Live, ClientShape
<1>4. QED
  BY <1>2, <1>3 DEF Live, Goal, TypeClient, Browser

(* finishBind without a snapshot leaves no attempt behind, or the last. *)
LEMMA FailedLive ==
    ASSUME TypeClient, ClientShape, client' = BindFailed, client.wanted # None
    PROVE  ~ Live'
<1>1. client.next \in Nat /\ client.epoch \in Nat
  BY DeliveryAssumption DEF TypeClient, Browser
<1>2. QED
  BY <1>1, Failed DEF Live, ClientShape


(* A new attempt is for the session that the client now wants. *)
LEMMA AskSession ==
    ASSUME TypeHub, TypeChannel, TypeInbox, TypeHandler, TypeJob, TypeClient, EpochBound,
           client.conn # None, NEW before \in Browser,
           NEW s \in Sessions, NEW again \in BOOLEAN, before.next = client.next,
           before.conn = client.conn,
           startBindAttempt(before, s, again), UNCHANGED <<conn, handler>>
    PROVE  SameSession'
<1>1. /\ client'.conn = client.conn /\ client.conn \in Conns /\ client'.wanted = s /\ s # None
      /\ client'.next = client.next + 1 /\ client.next \in Nat
  BY Asked, DeliveryAssumption
<1>2. \A r \in Range(inbox'[client.conn]) : r.epoch = client.next + 1 => r.session = s
  BY <1>1, Asks, Numbers DEF EpochBound
<1>3. conn[client.conn].epoch < client.next + 1 /\ handler[client.conn].epoch < client.next + 1
  BY <1>1, Numbers DEF EpochBound
<1>4. /\ conn[client.conn].epoch # client.next + 1 /\ handler[client.conn].epoch # client.next + 1
  BY <1>1, <1>3, Numbers
<1>5. QED
  BY <1>1, <1>2, <1>4 DEF SameSession, Live, Goal

(* The last attempt stays with the session it is for. *)
LEMMA SessionStep ==
    ASSUME TypeEvents, TypeHub, TypeChannel, TypeInbox, TypeHandler, TypeJob, TypeClient,
           ConnShape, HandlerShape, JobShape, ClientShape, EpochBound, SameSession,
           [Next]_vars
    PROVE  SameSession'
<1>1. ASSUME UNCHANGED <<conn, handler, inbox, client>> PROVE SameSession'
  BY <1>1 DEF SameSession, Live, Goal
<1>2. ASSUME NEW d \in Deliverers, SendFails(d)
      PROVE  SameSession'
  <2>1. UNCHANGED <<handler, inbox, client>>
    BY <1>2 DEF SendFails
  <2>2. Live => client.conn \in Conns
    BY LiveClient
  <2>3. QED
    BY <1>2, <2>1, <2>2, Degrades DEF SameSession, Live, Goal
<1>3. ASSUME NEW c \in Conns, ReadSnapshot(c)
      PROVE  SameSession'
  <2>1. UNCHANGED <<conn, client>>
    BY <1>3 DEF ReadSnapshot
  <2>2. Range(inbox[c]) = {Head(inbox[c])} \cup Range(inbox'[c])
    <3>1. inbox[c] \in Seq(Request) /\ inbox[c] # <<>> /\ inbox'[c] = Tail(inbox[c])
      BY <1>3, Reads DEF TypeInbox
    <3>2. QED
      BY <3>1, QueueFacts
  <2>3. /\ handler'[c].epoch = Head(inbox[c]).epoch /\ handler'[c].session = Head(inbox[c]).session
        /\ \A x \in Conns : x # c => handler'[x] = handler[x] /\ inbox'[x] = inbox[x]
    BY <1>3, Reads
  <2>4. Live => client.conn \in Conns
    BY LiveClient
  <2>5. QED
    BY <2>1, <2>2, <2>3, <2>4 DEF SameSession, Live, Goal
<1>4. ASSUME NEW c \in Conns, RejectBind(c)
      PROVE  SameSession'
  <2>1. UNCHANGED <<conn, inbox, client>>
    BY <1>4 DEF RejectBind
  <2>2. Live => client.conn \in Conns
    BY LiveClient
  <2>3. QED
    BY <1>4, <2>1, <2>2, Gives DEF SameSession, Live, Goal
<1>5. ASSUME NEW c \in Conns, disconnect(c)
      PROVE  SameSession'
  <2>1. /\ UNCHANGED <<handler, inbox, client>>
        /\ Unregister(c, "gone") /\ "gone" \in {"new", "open", "closed", "gone"}
    BY <1>5 DEF disconnect, TypeHub, Connection
  <2>2. Live => client.conn \in Conns /\ client.next # 0
    BY LiveClient
  <2>3. QED
    BY <2>1, <2>2, Unregistered DEF SameSession, Live, Goal
<1>6. ASSUME NEW c \in Conns, cleanup_once(c)
      PROVE  SameSession'
  <2>1. /\ UNCHANGED <<handler, inbox, client>>
        /\ Unregister(c, conn[c].socket) /\ conn[c].socket \in {"new", "open", "closed", "gone"}
    BY <1>6 DEF cleanup_once, TypeHub, Connection
  <2>2. Live => client.conn \in Conns /\ client.next # 0
    BY LiveClient
  <2>3. QED
    BY <2>1, <2>2, Unregistered DEF SameSession, Live, Goal
<1>7. ASSUME NEW c \in Conns, bind(c)
      PROVE  SameSession'
  <2>1. UNCHANGED <<inbox, client>> /\ handler[c].pc = "read"
    BY <1>7 DEF bind
  <2>2. Live => client.conn \in Conns
    BY LiveClient
  <2>3. QED
    BY <1>7, <2>1, <2>2, Moves, Bound DEF SameSession, Live, Goal
<1>8. ASSUME NEW c \in Conns, SendRestored(c)
      PROVE  SameSession'
  <2>1. UNCHANGED <<conn, inbox, client>>
    BY <1>8 DEF SendRestored
  <2>2. Live => client.conn \in Conns
    BY LiveClient
  <2>3. QED
    BY <1>8, <2>1, <2>2, Moves DEF SameSession, Live, Goal
<1>9. ASSUME NEW c \in Conns, replay_persisted_events(c)
      PROVE  SameSession'
  <2>1. UNCHANGED <<conn, inbox, client>>
    BY <1>9 DEF replay_persisted_events
  <2>2. Live => client.conn \in Conns
    BY LiveClient
  <2>3. QED
    BY <1>9, <2>1, <2>2, Moves DEF SameSession, Live, Goal
<1>10. ASSUME NEW c \in Conns, push_replay_direct(c)
      PROVE  SameSession'
  <2>1. UNCHANGED <<conn, inbox, client>>
    BY <1>10 DEF push_replay_direct
  <2>2. Live => client.conn \in Conns
    BY LiveClient
  <2>3. QED
    BY <1>10, <2>1, <2>2, Moves DEF SameSession, Live, Goal
<1>11. ASSUME NEW c \in Conns, replay_pending(c)
      PROVE  SameSession'
  <2>1. UNCHANGED <<conn, inbox, client>>
    BY <1>11 DEF replay_pending
  <2>2. Live => client.conn \in Conns
    BY LiveClient
  <2>3. QED
    BY <1>11, <2>1, <2>2, Moves DEF SameSession, Live, Goal
<1>12. ASSUME NEW c \in Conns, DeliverPending(c)
      PROVE  SameSession'
  <2>1. UNCHANGED <<conn, inbox, client>>
    BY <1>12 DEF DeliverPending
  <2>2. Live => client.conn \in Conns
    BY LiveClient
  <2>3. QED
    BY <1>12, <2>1, <2>2, Moves DEF SameSession, Live, Goal
<1>13. ASSUME NEW c \in Conns, BindEnds(c)
      PROVE  SameSession'
  <2>1. UNCHANGED <<conn, inbox, client>>
    BY <1>13 DEF BindEnds
  <2>2. Live => client.conn \in Conns
    BY LiveClient
  <2>3. QED
    BY <1>13, <2>1, <2>2, Gives DEF SameSession, Live, Goal
<1>14. ASSUME NEW c \in Conns, BindUnregistered(c)
      PROVE  SameSession'
  <2>1. UNCHANGED <<conn, inbox, client>>
    BY <1>14 DEF BindUnregistered
  <2>2. Live => client.conn \in Conns
    BY LiveClient
  <2>3. QED
    BY <1>14, <2>1, <2>2, Gives DEF SameSession, Live, Goal
<1>15. ASSUME NEW c \in Conns, Connect(c)
      PROVE  SameSession'
  BY <1>15, Moved DEF SameSession, Live
<1>16. ASSUME NEW s \in Sessions, bindSessionAndWait(s)
      PROVE  SameSession'
  <2>1. /\ startBindAttempt(BindFailed, s, FALSE) /\ client.conn # None
        /\ UNCHANGED <<conn, handler>>
    BY <1>16 DEF bindSessionAndWait
  <2>2. BindFailed \in Browser /\ BindFailed.next = client.next /\ BindFailed.conn = client.conn
    BY Failed
  <2>3. QED
    BY <2>1, <2>2, AskSession
<1>17. ASSUME BindTimesOut
      PROVE  SameSession'
  BY <1>17, FailedLive DEF BindTimesOut, SameSession
<1>18. ASSUME ApplyEvent
      PROVE  SameSession'
  <2>1. UNCHANGED <<conn, handler, inbox>>
    BY <1>18 DEF ApplyEvent
  <2>2. QED
    BY <1>18, <2>1, Applied DEF SameSession, Live, Goal
<1>19. ASSUME QueueEvent
      PROVE  SameSession'
  <2>1. UNCHANGED <<conn, handler, inbox>>
    BY <1>19 DEF QueueEvent
  <2>2. QED
    BY <1>19, <2>1, Queued DEF SameSession, Live, Goal
<1>20. ASSUME QueueOverflows
      PROVE  SameSession'
  <2>1. UNCHANGED <<conn, handler>>
    BY <1>20 DEF QueueOverflows
  <2>2. CASE startBindAttempt(client, client.wanted, TRUE)
    <3>1. client.wanted \in Sessions /\ client \in Browser /\ client.conn # None
      BY <1>20 DEF QueueOverflows, Receives, TypeClient, Browser
    <3>2. QED
      BY <2>1, <2>2, <3>1, AskSession
  <2>3. CASE ~ startBindAttempt(client, client.wanted, TRUE)
    BY <1>20, <2>3, Overflown DEF SameSession, Live
  <2>4. QED
    BY <2>2, <2>3
<1>21. ASSUME handleSessionRestore
      PROVE  SameSession'
  <2>1. UNCHANGED <<conn, handler, inbox>>
    BY <1>21 DEF handleSessionRestore
  <2>2. CASE UNCHANGED client
    BY <2>1, <2>2 DEF SameSession, Live, Goal
  <2>3. CASE client.wanted # None /\ Received.epoch = client.wanted_epoch
    BY <1>21, <2>1, <2>3, Restored DEF SameSession, Live, Goal
  <2>4. QED
    BY <1>21, <2>2, <2>3 DEF handleSessionRestore
<1>22. ASSUME protocol_error
      PROVE  SameSession'
  <2>1. UNCHANGED <<conn, handler, inbox>>
    BY <1>22 DEF protocol_error
  <2>2. CASE UNCHANGED client
    BY <2>1, <2>2 DEF SameSession, Live, Goal
  <2>3. CASE client.wanted # None /\ client' = BindFailed
    BY <2>3, FailedLive DEF SameSession
  <2>4. QED
    BY <1>22, <2>2, <2>3 DEF protocol_error
<1>23. ASSUME NEW d \in Deliverers, Deliver(d)
      PROVE  SameSession'
  BY <1>23, <1>1, <1>2 DEF Deliver, deliver, VisitSubscriber, SendSucceeds, DeliverEnds
<1>24. ASSUME NEW c \in Conns, ReadSnapshot(c) \/ RejectBind(c) \/ HandleBind(c)
                               \/ disconnect(c) \/ cleanup_once(c)
      PROVE  SameSession'
  BY <1>24, <1>3, <1>4, <1>5, <1>6, <1>7, <1>8, <1>9, <1>10, <1>11, <1>12, <1>13, <1>14 DEF
     HandleBind
<1>25. ASSUME Client
      PROVE  SameSession'
  BY <1>25, <1>1, <1>15, <1>16, <1>17, <1>18, <1>19, <1>20, <1>21, <1>22 DEF Client, DropFrame
<1>26. QED
  BY <1>1, <1>23, <1>24, <1>25 DEF Next, vars, push_runtime_event


(* A push or a replay puts an event behind what is in a channel. *)
LEMMA EventSent ==
    ASSUME TypeEvents, TypeHub, TypeChannel, TypeHandler, TypeJob, TypeClient,
           ConnShape, HandlerShape, JobShape, ClientShape, Live, UNCHANGED client,
           NEW c \in Conns, NEW i \in Ids, NEW e \in 1..MaxBinds, ToChannel(c, EventFrame(i, e))
    PROVE  /\ Snapshots' = Snapshots
           /\ Range(channel[client.conn]) \subseteq Range(channel'[client.conn])
           /\ c = client.conn => \E f \in Range(channel'[client.conn]) :
                                    f.type = "event" /\ f.id = i /\ f.epoch = e
<1> DEFINE f == EventFrame(i, e)
<1>1. f \in SentFrame /\ ToChannel(c, f)
  BY FrameFacts
<1>2. f.type = "event" /\ f.id = i /\ f.epoch = e
  BY DEF EventFrame
<1> HIDE DEF f
<1>3. client.conn \in Conns /\ conn[client.conn].socket = "open"
  BY LiveClient
<1>4. \/ Range(channel'[client.conn]) = Range(channel[client.conn]) /\ c # client.conn
      \/ Range(channel'[client.conn]) = Range(channel[client.conn]) \cup {f}
  <2>1. CASE c # client.conn
    BY <1>1, <1>3, <2>1, Sent
  <2>2. CASE c = client.conn
    <3>1. channel'[c] = Append(channel[c], f) /\ channel[c] \in Seq(SentFrame)
      BY <1>1, <1>3, <2>2, Sent DEF TypeChannel
    <3>2. QED
      BY <1>1, <2>2, <3>1, QueueFacts
  <2>3. QED
    BY <2>1, <2>2
<1>5. QED
  BY <1>2, <1>4 DEF Snapshots

(* A frame that the client takes is the only one it loses. *)
LEMMA TakenSnapshots ==
    ASSUME TypeClient, TypeChannel, NEW type, Receives(type),
           client'.conn = client.conn, client'.next = client.next
    PROVE  /\ Snapshots' \subseteq Snapshots
           /\ Snapshots \subseteq {Received} \cup Snapshots'
           /\ Range(channel[client.conn]) = {Received} \cup Range(channel'[client.conn])
<1>1. Range(channel[client.conn]) = {Received} \cup Range(channel'[client.conn])
  BY Took
<1>2. QED
  BY <1>1 DEF Snapshots

(* Only SendRestored sends a snapshot, with the number of its attempt. *)
LEMMA DirectSnapshots ==
    ASSUME TypeEvents, TypeChannel, TypeHub, TypeHandler, HandlerShape, NEW c \in Conns,
           NEW type \in {"session_restored", "protocol_error"},
           handler[c].pc \in {"read", "restore"}, push_direct(c, type), UNCHANGED client,
           client.conn \in Conns
    PROVE  /\ Range(channel[client.conn]) \subseteq Range(channel'[client.conn])
           /\ \/ Snapshots' = Snapshots
              \/ /\ type = "session_restored" /\ c = client.conn
                 /\ handler[c].epoch = client.next
                 /\ \E f : f.id = handler[c].cover /\ Snapshots' = Snapshots \cup {f}
<1>1. CASE channel'[client.conn] = channel[client.conn]
  BY <1>1 DEF Snapshots
<1>2. ASSUME NEW f \in SentFrame, c = client.conn,
             f.type = type, f.id = handler[c].cover, f.epoch = handler[c].epoch,
             Range(channel'[c]) = Range(channel[c]) \cup {f}
      PROVE  /\ Range(channel[client.conn]) \subseteq Range(channel'[client.conn])
             /\ \/ Snapshots' = Snapshots
                \/ /\ type = "session_restored" /\ c = client.conn
                   /\ handler[c].epoch = client.next
                   /\ \E g : g.id = handler[c].cover /\ Snapshots' = Snapshots \cup {g}
  <2>1. CASE type = "session_restored" /\ handler[c].epoch = client.next
    BY <1>2, <2>1 DEF Snapshots
  <2>2. CASE ~ (type = "session_restored" /\ handler[c].epoch = client.next)
    BY <1>2, <2>2 DEF Snapshots
  <2>3. QED
    BY <2>1, <2>2
<1>3. /\ \A x \in Conns : x # c => channel'[x] = channel[x]
      /\ \/ channel'[c] = channel[c]
         \/ \E f \in SentFrame :
               /\ f.type = type /\ f.id = handler[c].cover /\ f.epoch = handler[c].epoch
               /\ Range(channel'[c]) = Range(channel[c]) \cup {f}
  BY Direct
<1>4. CASE c # client.conn
  BY <1>1, <1>3, <1>4
<1>5. CASE c = client.conn
  BY <1>1, <1>2, <1>3, <1>5
<1>6. QED
  BY <1>4, <1>5

(* Nothing on the way to the client is of an attempt it has not made yet. *)
LEMMA NoneAhead ==
    ASSUME TypeHub, TypeChannel, TypeInbox, TypeHandler, TypeJob, TypeClient, EpochBound,
           client'.conn = client.conn, client.conn \in Conns, client'.next = client.next + 1,
           Range(channel'[client.conn]) \subseteq Range(channel[client.conn])
    PROVE  Snapshots' = {}
<1>1. \A f \in Range(channel[client.conn]) : f.epoch # client.next + 1
  BY Numbers DEF EpochBound
<1>2. QED
  BY <1>1 DEF Snapshots

(* A snapshot is sent once its attempt is bound. *)
LEMMA SnapshotStep ==
    ASSUME TypeEvents, TypeHub, TypeChannel, TypeInbox, TypeHandler, TypeJob, TypeClient,
           ConnShape, HandlerShape, JobShape, ClientShape, EpochBound, EpochOrder, SnapshotOrder,
           [Next]_vars
    PROVE  SnapshotOrder'
<1>1. ASSUME UNCHANGED <<conn, handler, channel, client>> PROVE SnapshotOrder'
  BY <1>1 DEF SnapshotOrder, Live, Snapshots
<1>2. ASSUME NEW d \in Deliverers, SendSucceeds(d)
      PROVE  SnapshotOrder'
  <2>1. UNCHANGED <<conn, handler, client>>
    BY <1>2 DEF SendSucceeds
  <2>2. Live => Snapshots' = Snapshots
    <3>1. job[d].target \in Conns /\ job[d].epoch \in 1..MaxBinds /\ job[d].id \in Ids
      BY <1>2, JobEvent, DeliveryAssumption DEF SendSucceeds, JobShape, TypeJob, Job
    <3>2. ToChannel(job[d].target, EventFrame(job[d].id, job[d].epoch))
      BY <1>2 DEF SendSucceeds
    <3>3. QED
      BY <2>1, <3>1, <3>2, EventSent
  <2>3. QED
    BY <2>1, <2>2 DEF SnapshotOrder, Live
<1>3. ASSUME NEW d \in Deliverers, SendFails(d)
      PROVE  SnapshotOrder'
  <2>1. UNCHANGED <<handler, channel, client>>
    BY <1>3 DEF SendFails
  <2>2. Live => client.conn \in Conns
    BY LiveClient
  <2>3. Snapshots' = Snapshots
    BY <2>1 DEF Snapshots
  <2>4. QED
    BY <1>3, <2>1, <2>2, <2>3, Degrades DEF SnapshotOrder, Live
<1>4. ASSUME NEW c \in Conns, ReadSnapshot(c)
      PROVE  SnapshotOrder'
  <2>1. UNCHANGED <<conn, channel, client>>
    BY <1>4 DEF ReadSnapshot
  <2>2. Live => client.conn \in Conns
    BY LiveClient
  <2>3. Snapshots' = Snapshots
    BY <2>1 DEF Snapshots
  <2>4. QED
    BY <1>4, <2>1, <2>2, <2>3, Reads DEF SnapshotOrder, Live
<1>5. ASSUME NEW c \in Conns, RejectBind(c)
      PROVE  SnapshotOrder'
  <2>1. /\ UNCHANGED <<conn, client>>
        /\ push_direct(c, "protocol_error") /\ handler[c].pc \in {"read", "restore"}
    BY <1>5 DEF RejectBind
  <2>2. Live => client.conn \in Conns
    BY LiveClient
  <2>3. Live => Snapshots' = Snapshots
    BY <2>1, <2>2, DirectSnapshots
  <2>4. QED
    BY <1>5, <2>1, <2>2, <2>3, Gives DEF SnapshotOrder, Live
<1>6. ASSUME NEW c \in Conns, disconnect(c)
      PROVE  SnapshotOrder'
  <2>1. /\ UNCHANGED <<handler, channel, client>>
        /\ Unregister(c, "gone") /\ "gone" \in {"new", "open", "closed", "gone"}
    BY <1>6 DEF disconnect, TypeHub, Connection
  <2>2. Live => client.conn \in Conns
    BY LiveClient
  <2>3. Snapshots' = Snapshots
    BY <2>1 DEF Snapshots
  <2>4. QED
    BY <2>1, <2>2, <2>3, Unregistered DEF SnapshotOrder, Live
<1>7. ASSUME NEW c \in Conns, cleanup_once(c)
      PROVE  SnapshotOrder'
  <2>1. /\ UNCHANGED <<handler, channel, client>>
        /\ Unregister(c, conn[c].socket) /\ conn[c].socket \in {"new", "open", "closed", "gone"}
    BY <1>7 DEF cleanup_once, TypeHub, Connection
  <2>2. Live => client.conn \in Conns
    BY LiveClient
  <2>3. Snapshots' = Snapshots
    BY <2>1 DEF Snapshots
  <2>4. QED
    BY <2>1, <2>2, <2>3, Unregistered DEF SnapshotOrder, Live
<1>8. ASSUME NEW c \in Conns, bind(c)
      PROVE  SnapshotOrder'
  <2>1. UNCHANGED <<channel, client>> /\ handler[c].pc = "read" /\ conn[c].registered
    BY <1>8 DEF bind
  <2>2. Live => client.conn \in Conns
    BY LiveClient
  <2>3. Snapshots' = Snapshots
    BY <2>1 DEF Snapshots
  <2>4. c = client.conn => conn[c].epoch # client.next
    <3>1. conn[c].epoch < handler[c].epoch /\ handler[c].epoch <= client.next
      BY <2>1 DEF EpochOrder, EpochBound
    <3>2. QED
      BY <3>1, Numbers
  <2>5. QED
    BY <1>8, <2>1, <2>2, <2>3, <2>4, Moves, Bound DEF SnapshotOrder, Live
<1>9. ASSUME NEW c \in Conns, SendRestored(c)
      PROVE  SnapshotOrder'
  <2>1. /\ UNCHANGED <<conn, client>>
        /\ push_direct(c, "session_restored") /\ handler[c].pc = "restore"
    BY <1>9 DEF SendRestored
  <2>2. Live => client.conn \in Conns
    BY LiveClient
  <2>3. Live => Snapshots' = Snapshots \/ (c = client.conn /\ handler[c].epoch = client.next)
    BY <2>1, <2>2, DirectSnapshots
  <2>4. conn[c].registered => conn[c].epoch = handler[c].epoch
    BY <2>1 DEF HandlerShape
  <2>5. QED
    BY <1>9, <2>1, <2>2, <2>3, <2>4, Moves DEF SnapshotOrder, Live
<1>10. ASSUME NEW c \in Conns, replay_persisted_events(c)
      PROVE  SnapshotOrder'
  <2>1. UNCHANGED <<conn, channel, client>>
    BY <1>10 DEF replay_persisted_events
  <2>2. Live => client.conn \in Conns
    BY LiveClient
  <2>3. Snapshots' = Snapshots
    BY <2>1 DEF Snapshots
  <2>4. QED
    BY <1>10, <2>1, <2>2, <2>3, Moves DEF SnapshotOrder, Live
<1>11. ASSUME NEW c \in Conns, push_replay_direct(c)
      PROVE  SnapshotOrder'
  <2>1. UNCHANGED <<conn, client>> /\ handler[c].pc = "replay"
    BY <1>11 DEF push_replay_direct
  <2>2. Live => Snapshots' = Snapshots
    <3>1. CASE UNCHANGED channel
      BY <2>1, <3>1 DEF Snapshots
    <3>2. ASSUME NEW i \in handler[c].rows, conn[c].registered, ToChannel(c, EventFrame(i,
                 conn[c].epoch)),
                 Live
          PROVE  Snapshots' = Snapshots
      <4>1. conn[c].epoch \in 1..MaxBinds
        BY <1>11, <3>2, DeliveryAssumption DEF push_replay_direct, HandlerShape, ConnShape,
           TypeHub, Connection
      <4>2. i \in Ids
        BY <3>2 DEF TypeHandler, Handler
      <4>3. QED
        BY <2>1, <3>2, <4>1, <4>2, EventSent
    <3>3. QED
      BY <1>11, <3>1, <3>2 DEF push_replay_direct
  <2>3. Live => client.conn \in Conns
    BY LiveClient
  <2>4. QED
    BY <1>11, <2>1, <2>2, <2>3, Moves DEF SnapshotOrder, Live
<1>12. ASSUME NEW c \in Conns, replay_pending(c)
      PROVE  SnapshotOrder'
  <2>1. UNCHANGED <<conn, channel, client>>
    BY <1>12 DEF replay_pending
  <2>2. Live => client.conn \in Conns
    BY LiveClient
  <2>3. Snapshots' = Snapshots
    BY <2>1 DEF Snapshots
  <2>4. QED
    BY <1>12, <2>1, <2>2, <2>3, Moves DEF SnapshotOrder, Live
<1>13. ASSUME NEW c \in Conns, DeliverPending(c)
      PROVE  SnapshotOrder'
  <2>1. UNCHANGED <<conn, channel, client>>
    BY <1>13 DEF DeliverPending
  <2>2. Live => client.conn \in Conns
    BY LiveClient
  <2>3. Snapshots' = Snapshots
    BY <2>1 DEF Snapshots
  <2>4. QED
    BY <1>13, <2>1, <2>2, <2>3, Moves DEF SnapshotOrder, Live
<1>14. ASSUME NEW c \in Conns, BindEnds(c)
      PROVE  SnapshotOrder'
  <2>1. UNCHANGED <<conn, channel, client>>
    BY <1>14 DEF BindEnds
  <2>2. Live => client.conn \in Conns
    BY LiveClient
  <2>3. Snapshots' = Snapshots
    BY <2>1 DEF Snapshots
  <2>4. QED
    BY <1>14, <2>1, <2>2, <2>3, Gives DEF SnapshotOrder, Live
<1>15. ASSUME NEW c \in Conns, BindUnregistered(c)
      PROVE  SnapshotOrder'
  <2>1. UNCHANGED <<conn, channel, client>>
    BY <1>15 DEF BindUnregistered
  <2>2. Live => client.conn \in Conns
    BY LiveClient
  <2>3. Snapshots' = Snapshots
    BY <2>1 DEF Snapshots
  <2>4. QED
    BY <1>15, <2>1, <2>2, <2>3, Gives DEF SnapshotOrder, Live
<1>16. ASSUME NEW c \in Conns, Connect(c)
      PROVE  SnapshotOrder'
  BY <1>16, Moved DEF SnapshotOrder, Live
<1>17. ASSUME NEW s \in Sessions, bindSessionAndWait(s)
      PROVE  SnapshotOrder'
  <2>1. /\ startBindAttempt(BindFailed, s, FALSE) /\ client.conn # None
        /\ UNCHANGED channel
    BY <1>17 DEF bindSessionAndWait
  <2>2. BindFailed \in Browser /\ BindFailed.next = client.next /\ BindFailed.conn = client.conn
    BY Failed
  <2>3. /\ client'.conn = client.conn /\ client.conn \in Conns
        /\ client'.next = client.next + 1 /\ client'.wanted # None
    BY <2>1, <2>2, Asked, DeliveryAssumption
  <2>4. Snapshots' = {}
    BY <2>1, <2>3, NoneAhead
  <2>5. QED
    BY <2>3, <2>4 DEF SnapshotOrder
<1>18. ASSUME BindTimesOut
      PROVE  SnapshotOrder'
  BY <1>18, FailedLive DEF BindTimesOut, SnapshotOrder
<1>19. ASSUME DropFrame
      PROVE  SnapshotOrder'
  <2>1. UNCHANGED <<conn, handler>> /\ Receives(Received.type)
    BY <1>19 DEF DropFrame
  <2>2. /\ client'.conn = client.conn /\ client'.next = client.next
        /\ client'.wanted = client.wanted /\ client'.bound = client.bound
        /\ client'.epoch = client.epoch
    BY <1>19 DEF DropFrame
  <2>3. Snapshots' \subseteq Snapshots
    BY <2>1, <2>2, TakenSnapshots
  <2>4. QED
    BY <2>1, <2>2, <2>3 DEF SnapshotOrder, Live
<1>20. ASSUME ApplyEvent
      PROVE  SnapshotOrder'
  <2>1. UNCHANGED <<conn, handler>> /\ Receives("event")
    BY <1>20 DEF ApplyEvent
  <2>2. /\ client'.conn = client.conn /\ client'.next = client.next
        /\ client'.wanted = client.wanted /\ client'.bound = client.bound
        /\ client'.epoch = client.epoch
    BY <1>20, Applied DEF ApplyEvent
  <2>3. Snapshots' \subseteq Snapshots
    BY <2>1, <2>2, TakenSnapshots
  <2>4. QED
    BY <2>1, <2>2, <2>3 DEF SnapshotOrder, Live
<1>21. ASSUME QueueEvent
      PROVE  SnapshotOrder'
  <2>1. UNCHANGED <<conn, handler>> /\ Receives("event")
    BY <1>21 DEF QueueEvent
  <2>2. /\ client'.conn = client.conn /\ client'.next = client.next
        /\ client'.wanted = client.wanted /\ client'.bound = client.bound
        /\ client'.epoch = client.epoch
    BY <1>21, Queued DEF QueueEvent
  <2>3. Snapshots' \subseteq Snapshots
    BY <2>1, <2>2, TakenSnapshots
  <2>4. QED
    BY <2>1, <2>2, <2>3 DEF SnapshotOrder, Live
<1>22. ASSUME QueueOverflows
      PROVE  SnapshotOrder'
  <2>1. Receives("event")
    BY <1>22 DEF QueueOverflows
  <2>2. CASE startBindAttempt(client, client.wanted, TRUE)
    <3>1. client.wanted \in Sessions /\ client \in Browser /\ client.conn # None
      BY <1>22 DEF QueueOverflows, Receives, TypeClient, Browser
    <3>2. /\ client'.conn = client.conn /\ client.conn \in Conns
          /\ client'.next = client.next + 1 /\ client'.wanted # None
      BY <2>2, <3>1, Asked, DeliveryAssumption
    <3>3. Range(channel'[client.conn]) \subseteq Range(channel[client.conn])
      BY <2>1, Took
    <3>4. Snapshots' = {}
      BY <3>2, <3>3, NoneAhead
    <3>5. QED
      BY <3>2, <3>4 DEF SnapshotOrder
  <2>3. CASE ~ startBindAttempt(client, client.wanted, TRUE)
    BY <1>22, <2>3, Overflown DEF SnapshotOrder, Live
  <2>4. QED
    BY <2>2, <2>3
<1>23. ASSUME handleSessionRestore
      PROVE  SnapshotOrder'
  <2>1. UNCHANGED <<conn, handler>> /\ Receives("session_restored")
    BY <1>23 DEF handleSessionRestore
  <2>2. CASE UNCHANGED client
    <3>1. Snapshots' \subseteq Snapshots
      BY <2>1, <2>2, TakenSnapshots
    <3>2. QED
      BY <2>1, <2>2, <3>1 DEF SnapshotOrder, Live
  <2>3. CASE client.wanted # None /\ Received.epoch = client.wanted_epoch
    <3>1. Received \in Snapshots
      <4>1. Received.type = "session_restored" /\ Received \in Range(channel[client.conn])
        BY <2>1, Took
      <4>2. QED
        BY <2>3, <4>1 DEF Snapshots, ClientShape
    <3>2. client'.conn = client.conn /\ client'.next = client.next
      BY <1>23, <2>3, Restored
    <3>3. QED
      BY <2>1, <2>3, <3>1, <3>2 DEF SnapshotOrder, Live
  <2>4. QED
    BY <1>23, <2>2, <2>3 DEF handleSessionRestore
<1>24. ASSUME protocol_error
      PROVE  SnapshotOrder'
  <2>1. UNCHANGED <<conn, handler>> /\ Receives("protocol_error")
    BY <1>24 DEF protocol_error
  <2>2. CASE UNCHANGED client
    <3>1. Snapshots' \subseteq Snapshots
      BY <2>1, <2>2, TakenSnapshots
    <3>2. QED
      BY <2>1, <2>2, <3>1 DEF SnapshotOrder, Live
  <2>3. CASE client.wanted # None /\ client' = BindFailed
    BY <2>3, FailedLive DEF SnapshotOrder
  <2>4. QED
    BY <1>24, <2>2, <2>3 DEF protocol_error
<1>25. ASSUME NEW d \in Deliverers, Deliver(d)
      PROVE  SnapshotOrder'
  BY <1>25, <1>1, <1>2, <1>3 DEF Deliver, deliver, VisitSubscriber, DeliverEnds
<1>26. ASSUME NEW c \in Conns, ReadSnapshot(c) \/ RejectBind(c) \/ HandleBind(c)
                               \/ disconnect(c) \/ cleanup_once(c)
      PROVE  SnapshotOrder'
  BY <1>26, <1>4, <1>5, <1>6, <1>7, <1>8, <1>9, <1>10, <1>11, <1>12, <1>13, <1>14, <1>15 DEF
     HandleBind
<1>27. ASSUME Client
      PROVE  SnapshotOrder'
  BY <1>27, <1>16, <1>17, <1>18, <1>19, <1>20, <1>21, <1>22, <1>23, <1>24 DEF Client
<1>28. QED
  BY <1>1, <1>25, <1>26, <1>27 DEF Next, vars, push_runtime_event

(* What was seen is never lost from the view. *)
LEMMA SeenStep ==
    ASSUME TypeEvents, TypeHub, TypeChannel, TypeInbox, TypeHandler, TypeJob, TypeClient,
           ConnShape, HandlerShape, JobShape, ClientShape, EpochBound, SeenShows,
           [Next]_vars
    PROVE  SeenShows'
<1>1. ASSUME UNCHANGED <<events, handler, channel, client>> PROVE SeenShows'
  BY <1>1 DEF SeenShows, Known, Live, Goal, Materialized, Snapshots
<1>2. ASSUME NEW p \in Producers, NEW s \in Sessions, NEW kind \in Kinds,
             push_runtime_event(p, s, kind)
      PROVE  SeenShows'
  <2>1. UNCHANGED <<handler, channel, client>>
    BY <1>2 DEF push_runtime_event
  <2>2. Snapshots' = Snapshots
    BY <2>1 DEF Snapshots
  <2>3. client.seen \subseteq Ids
    BY DEF TypeClient, Browser
  <2>4. client.seen \cap Materialized(Goal, Len(events))' \subseteq Materialized(Goal, Len(events))
    BY <1>2, <2>1, <2>3, Pushed DEF Materialized, Ids, Goal
  <2>5. QED
    BY <2>1, <2>2, <2>4 DEF SeenShows, Known, Live, Goal
<1>3. ASSUME NEW d \in Deliverers, SendSucceeds(d)
      PROVE  SeenShows'
  <2>1. UNCHANGED <<events, handler, client>>
    BY <1>3 DEF SendSucceeds
  <2>2. Live => Snapshots' = Snapshots
    <3>1. job[d].target \in Conns /\ job[d].epoch \in 1..MaxBinds /\ job[d].id \in Ids
      BY <1>3, JobEvent, DeliveryAssumption DEF SendSucceeds, JobShape, TypeJob, Job
    <3>2. ToChannel(job[d].target, EventFrame(job[d].id, job[d].epoch))
      BY <1>3 DEF SendSucceeds
    <3>3. QED
      BY <2>1, <3>1, <3>2, EventSent
  <2>3. QED
    BY <2>1, <2>2 DEF SeenShows, Known, Live, Goal, Materialized
<1>4. ASSUME NEW c \in Conns, ReadSnapshot(c)
      PROVE  SeenShows'
  <2>1. UNCHANGED <<events, channel, client>>
    BY <1>4 DEF ReadSnapshot
  <2>2. Live => client.conn \in Conns
    BY LiveClient
  <2>3. Snapshots' = Snapshots
    BY <2>1 DEF Snapshots
  <2>4. Known \subseteq 1..handler'[c].cover
    BY <1>4, Reads DEF Known, TypeClient, Browser, Ids
  <2>5. QED
    BY <1>4, <2>1, <2>2, <2>3, <2>4, Reads DEF SeenShows, Known, Live, Goal, Materialized
<1>5. ASSUME NEW c \in Conns, RejectBind(c)
      PROVE  SeenShows'
  <2>1. /\ UNCHANGED <<events, client>>
        /\ push_direct(c, "protocol_error") /\ handler[c].pc \in {"read", "restore"}
    BY <1>5 DEF RejectBind
  <2>2. Live => client.conn \in Conns
    BY LiveClient
  <2>3. Live => Snapshots' = Snapshots
    BY <2>1, <2>2, DirectSnapshots
  <2>4. QED
    BY <1>5, <2>1, <2>2, <2>3, Gives DEF SeenShows, Known, Live, Goal, Materialized
<1>6. ASSUME NEW c \in Conns, bind(c)
      PROVE  SeenShows'
  <2>1. UNCHANGED <<events, channel, client>> /\ handler[c].pc = "read"
    BY <1>6 DEF bind
  <2>2. Live => client.conn \in Conns
    BY LiveClient
  <2>3. Snapshots' = Snapshots
    BY <2>1 DEF Snapshots
  <2>4. QED
    BY <1>6, <2>1, <2>2, <2>3, Moves DEF SeenShows, Known, Live, Goal, Materialized
<1>7. ASSUME NEW c \in Conns, SendRestored(c)
      PROVE  SeenShows'
  <2>1. /\ UNCHANGED <<events, client>>
        /\ push_direct(c, "session_restored") /\ handler[c].pc = "restore"
    BY <1>7 DEF SendRestored
  <2>2. Live => client.conn \in Conns
    BY LiveClient
  <2>3. Live => \/ Snapshots' = Snapshots
                \/ /\ c = client.conn /\ handler[c].epoch = client.next
                   /\ \E f : f.id = handler[c].cover /\ Snapshots' = Snapshots \cup {f}
    BY <2>1, <2>2, DirectSnapshots
  <2>4. QED
    BY <1>7, <2>1, <2>2, <2>3, Moves DEF SeenShows, Known, Live, Goal, Materialized
<1>8. ASSUME NEW c \in Conns, replay_persisted_events(c)
      PROVE  SeenShows'
  <2>1. UNCHANGED <<events, channel, client>>
    BY <1>8 DEF replay_persisted_events
  <2>2. Live => client.conn \in Conns
    BY LiveClient
  <2>3. Snapshots' = Snapshots
    BY <2>1 DEF Snapshots
  <2>4. QED
    BY <1>8, <2>1, <2>2, <2>3, Moves DEF SeenShows, Known, Live, Goal, Materialized
<1>9. ASSUME NEW c \in Conns, push_replay_direct(c)
      PROVE  SeenShows'
  <2>1. UNCHANGED <<events, client>> /\ handler[c].pc = "replay"
    BY <1>9 DEF push_replay_direct
  <2>2. Live => Snapshots' = Snapshots
    <3>1. CASE UNCHANGED channel
      BY <2>1, <3>1 DEF Snapshots
    <3>2. ASSUME NEW i \in handler[c].rows, conn[c].registered, ToChannel(c, EventFrame(i,
                 conn[c].epoch)),
                 Live
          PROVE  Snapshots' = Snapshots
      <4>1. conn[c].epoch \in 1..MaxBinds
        BY <1>9, <3>2, DeliveryAssumption DEF push_replay_direct, HandlerShape, ConnShape,
           TypeHub, Connection
      <4>2. i \in Ids
        BY <3>2 DEF TypeHandler, Handler
      <4>3. QED
        BY <2>1, <3>2, <4>1, <4>2, EventSent
    <3>3. QED
      BY <1>9, <3>1, <3>2 DEF push_replay_direct
  <2>3. Live => client.conn \in Conns
    BY LiveClient
  <2>4. QED
    BY <1>9, <2>1, <2>2, <2>3, Moves DEF SeenShows, Known, Live, Goal, Materialized
<1>10. ASSUME NEW c \in Conns, replay_pending(c)
      PROVE  SeenShows'
  <2>1. UNCHANGED <<events, channel, client>>
    BY <1>10 DEF replay_pending
  <2>2. Live => client.conn \in Conns
    BY LiveClient
  <2>3. Snapshots' = Snapshots
    BY <2>1 DEF Snapshots
  <2>4. QED
    BY <1>10, <2>1, <2>2, <2>3, Moves DEF SeenShows, Known, Live, Goal, Materialized
<1>11. ASSUME NEW c \in Conns, DeliverPending(c)
      PROVE  SeenShows'
  <2>1. UNCHANGED <<events, channel, client>>
    BY <1>11 DEF DeliverPending
  <2>2. Live => client.conn \in Conns
    BY LiveClient
  <2>3. Snapshots' = Snapshots
    BY <2>1 DEF Snapshots
  <2>4. QED
    BY <1>11, <2>1, <2>2, <2>3, Moves DEF SeenShows, Known, Live, Goal, Materialized
<1>12. ASSUME NEW c \in Conns, BindEnds(c)
      PROVE  SeenShows'
  <2>1. UNCHANGED <<events, channel, client>>
    BY <1>12 DEF BindEnds
  <2>2. Live => client.conn \in Conns
    BY LiveClient
  <2>3. Snapshots' = Snapshots
    BY <2>1 DEF Snapshots
  <2>4. QED
    BY <1>12, <2>1, <2>2, <2>3, Gives DEF SeenShows, Known, Live, Goal, Materialized
<1>13. ASSUME NEW c \in Conns, BindUnregistered(c)
      PROVE  SeenShows'
  <2>1. UNCHANGED <<events, channel, client>>
    BY <1>13 DEF BindUnregistered
  <2>2. Live => client.conn \in Conns
    BY LiveClient
  <2>3. Snapshots' = Snapshots
    BY <2>1 DEF Snapshots
  <2>4. QED
    BY <1>13, <2>1, <2>2, <2>3, Gives DEF SeenShows, Known, Live, Goal, Materialized
<1>14. ASSUME NEW c \in Conns, Connect(c)
      PROVE  SeenShows'
  BY <1>14, Moved DEF SeenShows, Known, Live
<1>15. ASSUME NEW s \in Sessions, bindSessionAndWait(s)
      PROVE  SeenShows'
  <2>1. /\ startBindAttempt(BindFailed, s, FALSE) /\ client.conn # None
        /\ UNCHANGED <<channel, handler>>
    BY <1>15 DEF bindSessionAndWait
  <2>2. BindFailed \in Browser /\ BindFailed.next = client.next /\ BindFailed.conn = client.conn
    BY Failed
  <2>3. /\ client'.conn = client.conn /\ client.conn \in Conns
        /\ client'.next = client.next + 1 /\ client'.wanted # None
    BY <2>1, <2>2, Asked, DeliveryAssumption
  <2>4. Snapshots' = {}
    BY <2>1, <2>3, NoneAhead
  <2>5. handler[client.conn].epoch # client.next + 1
    BY <2>3, Numbers DEF EpochBound
  <2>6. QED
    BY <2>1, <2>3, <2>4, <2>5 DEF SeenShows, Known
<1>16. ASSUME BindTimesOut
      PROVE  SeenShows'
  BY <1>16, FailedLive DEF BindTimesOut, SeenShows
<1>17. ASSUME DropFrame
      PROVE  SeenShows'
  <2>1. UNCHANGED <<events, handler, client>> /\ Receives(Received.type)
    BY <1>17 DEF DropFrame
  <2>2. /\ client'.conn = client.conn /\ client'.next = client.next
        /\ client'.wanted = client.wanted /\ client'.bound = client.bound
        /\ client'.epoch = client.epoch
    BY <1>17 DEF DropFrame
  <2>3. Snapshots' \subseteq Snapshots
    BY <2>1, <2>2, TakenSnapshots
  <2>4. QED
    BY <2>1, <2>2, <2>3 DEF SeenShows, Known, Live, Goal, Materialized
<1>18. ASSUME ApplyEvent
      PROVE  SeenShows'
  <2>1. UNCHANGED <<events, handler>> /\ client.wanted = None
    BY <1>18 DEF ApplyEvent
  <2>2. QED
    BY <1>18, <2>1, Applied DEF SeenShows, Known, Live, Goal, Materialized
<1>19. ASSUME QueueEvent
      PROVE  SeenShows'
  <2>1. UNCHANGED <<events, handler>> /\ client.wanted # None /\ Receives("event")
    BY <1>19 DEF QueueEvent
  <2>2. Snapshots' \subseteq Snapshots
    BY <1>19, <2>1, Queued, TakenSnapshots
  <2>3. QED
    BY <1>19, <2>1, <2>2, Queued DEF SeenShows, Known, Live, Goal, Materialized
<1>20. ASSUME QueueOverflows
      PROVE  SeenShows'
  <2>1. Receives("event") /\ UNCHANGED handler
    BY <1>20 DEF QueueOverflows
  <2>2. CASE startBindAttempt(client, client.wanted, TRUE)
    <3>1. client.wanted \in Sessions /\ client \in Browser /\ client.conn # None
      BY <1>20 DEF QueueOverflows, Receives, TypeClient, Browser
    <3>2. /\ client'.conn = client.conn /\ client.conn \in Conns
          /\ client'.next = client.next + 1 /\ client'.wanted # None
      BY <2>2, <3>1, Asked, DeliveryAssumption
    <3>3. Range(channel'[client.conn]) \subseteq Range(channel[client.conn])
      BY <2>1, Took
    <3>4. Snapshots' = {}
      BY <3>2, <3>3, NoneAhead
    <3>5. handler[client.conn].epoch # client.next + 1
      BY <3>2, Numbers DEF EpochBound
    <3>6. QED
      BY <2>1, <3>2, <3>4, <3>5 DEF SeenShows, Known
  <2>3. CASE ~ startBindAttempt(client, client.wanted, TRUE)
    BY <1>20, <2>3, Overflown DEF SeenShows, Known, Live
  <2>4. QED
    BY <2>2, <2>3
<1>21. ASSUME handleSessionRestore
      PROVE  SeenShows'
  <2>1. UNCHANGED <<events, handler>> /\ Receives("session_restored")
    BY <1>21 DEF handleSessionRestore
  <2>2. CASE UNCHANGED client
    <3>1. Snapshots' \subseteq Snapshots
      BY <2>1, <2>2, TakenSnapshots
    <3>2. QED
      BY <2>1, <2>2, <3>1 DEF SeenShows, Known, Live, Goal, Materialized
  <2>3. CASE client.wanted # None /\ Received.epoch = client.wanted_epoch
    <3>1. Received \in Snapshots
      <4>1. Received.type = "session_restored" /\ Received \in Range(channel[client.conn])
        BY <2>1, Took
      <4>2. QED
        BY <2>3, <4>1 DEF Snapshots, ClientShape
    <3>2. client.seen \subseteq 1..Received.id
      BY <2>3, <3>1 DEF SeenShows, Known, Live
    <3>3. client.seen \cap Materialized(client.wanted, Len(events))
             \subseteq Materialized(client.wanted, Received.id)
      BY <3>2 DEF Materialized
    <3>4. /\ client'.wanted = None /\ client'.bound = client.wanted
          /\ client'.seen = client.seen \cup Range(client.queued)
          /\ client'.view = Materialized(client.wanted, Received.id)
                              \cup (Range(client.queued) \ client.seen)
      BY <1>21, <2>3, Restored
    <3>5. QED
      BY <2>1, <3>3, <3>4 DEF SeenShows, Known, Live, Goal, Materialized
  <2>4. QED
    BY <1>21, <2>2, <2>3 DEF handleSessionRestore
<1>22. ASSUME protocol_error
      PROVE  SeenShows'
  <2>1. UNCHANGED <<events, handler>> /\ Receives("protocol_error")
    BY <1>22 DEF protocol_error
  <2>2. CASE UNCHANGED client
    <3>1. Snapshots' \subseteq Snapshots
      BY <2>1, <2>2, TakenSnapshots
    <3>2. QED
      BY <2>1, <2>2, <3>1 DEF SeenShows, Known, Live, Goal, Materialized
  <2>3. CASE client.wanted # None /\ client' = BindFailed
    BY <2>3, FailedLive DEF SeenShows, Known
  <2>4. QED
    BY <1>22, <2>2, <2>3 DEF protocol_error
<1>23. ASSUME NEW d \in Deliverers, Deliver(d)
      PROVE  SeenShows'
  BY <1>23, <1>1, <1>3 DEF Deliver, deliver, VisitSubscriber, SendFails, DeliverEnds
<1>24. ASSUME NEW c \in Conns, ReadSnapshot(c) \/ RejectBind(c) \/ HandleBind(c)
                               \/ disconnect(c) \/ cleanup_once(c)
      PROVE  SeenShows'
  BY <1>24, <1>1, <1>4, <1>5, <1>6, <1>7, <1>8, <1>9, <1>10, <1>11, <1>12, <1>13 DEF HandleBind,
     disconnect, cleanup_once
<1>25. ASSUME Client
      PROVE  SeenShows'
  BY <1>25, <1>14, <1>15, <1>16, <1>17, <1>18, <1>19, <1>20, <1>21, <1>22 DEF Client
<1>26. QED
  BY <1>1, <1>2, <1>23, <1>24, <1>25 DEF Next, vars


(* What a served client is bound to, and that nothing is before it. *)
LEMMA ServedFacts ==
    ASSUME TypeEvents, TypeHub, TypeChannel, TypeInbox, TypeHandler, TypeJob, TypeClient,
           ConnShape, HandlerShape, JobShape, ClientShape, EpochBound,
           EpochOrder, SameSession, Served
    PROVE  /\ client.conn \in Conns /\ conn[client.conn].socket = "open"
           /\ Goal \in Sessions /\ conn[client.conn].session = Goal
           /\ conn[client.conn].registered /\ client.conn \in subscribers[Goal]
           /\ conn[client.conn].epoch = client.next /\ client.next \in 1..MaxBinds
           /\ ~ conn[client.conn].degraded
           /\ handler[client.conn].pc # "read" /\ inbox[client.conn] = <<>>
           /\ handler[client.conn].pc # "idle" => handler[client.conn].session = Goal
<1>1. /\ client.conn \in Conns /\ conn[client.conn].socket = "open"
      /\ client.next # 0 /\ Goal \in Sessions /\ Live
  BY LiveClient DEF Served
<1>2. conn[client.conn].epoch = client.next /\ ~ conn[client.conn].degraded
  BY DEF Served
<1>3. conn[client.conn].session = Goal
  BY <1>1, <1>2 DEF SameSession
<1>4. conn[client.conn].registered /\ client.conn \in subscribers[Goal]
  BY <1>1, <1>2, <1>3 DEF ConnShape
<1>5. client.next \in 1..MaxBinds
  BY <1>1, DeliveryAssumption DEF TypeClient, Browser
<1>6. handler[client.conn].pc # "read"
  BY <1>1, <1>2, Numbers DEF EpochOrder, EpochBound
<1>7. inbox[client.conn] = <<>>
  <2>1. inbox[client.conn] \in Seq(Request)
    BY <1>1 DEF TypeInbox
  <2>2. ASSUME NEW r \in Range(inbox[client.conn]) PROVE FALSE
    BY <1>1, <1>2, <2>2, Numbers DEF EpochOrder, EpochBound
  <2>3. inbox[client.conn] # <<>> => Head(inbox[client.conn]) \in Range(inbox[client.conn])
    BY <2>1, QueueFacts
  <2>4. QED
    BY <2>2, <2>3
<1>8. handler[client.conn].pc # "idle" => handler[client.conn].session = Goal
  BY <1>1, <1>3, <1>4, <1>6 DEF HandlerShape, Served, TypeHandler, Handler
<1>9. QED
  BY <1>1, <1>2, <1>3, <1>4, <1>5, <1>6, <1>7, <1>8

(* What the client holds it keeps while frames are added. *)
LEMMA HaveKept ==
    ASSUME Range(channel[client.conn]) \subseteq Range(channel'[client.conn]),
           Snapshots' = Snapshots, UNCHANGED client, Ids \subseteq Ids'
    PROVE  Have \subseteq Have'
<1>1. ASSUME NEW i \in Have PROVE i \in Have'
  <2>1. i \in Ids'
    BY DEF Have
  <2>2. CASE \E f \in Range(channel[client.conn]) :
                f.type = "event" /\ f.id = i /\ f.epoch = client.next
    BY <2>1, <2>2 DEF Have
  <2>3. CASE client.wanted = None /\ i \in client.view
    BY <2>1, <2>3 DEF Have
  <2>4. CASE client.wanted # None /\ i \in Range(client.queued)
    BY <2>1, <2>4 DEF Have
  <2>5. CASE client.wanted # None /\ \A f \in Snapshots : i <= f.id
    BY <2>1, <2>5 DEF Have
  <2>6. QED
    BY <2>2, <2>3, <2>4, <2>5 DEF Have
<1>2. QED
  BY <1>1

(* Nothing that a served client is owed gets lost. *)
LEMMA KeptStep ==
    ASSUME TypeEvents, TypeHub, TypeChannel, TypeInbox, TypeHandler, TypeJob, TypeClient,
           ConnShape, HandlerShape, JobShape, ClientShape, EpochBound,
           EpochOrder, SameSession, SnapshotOrder, SeenShows, Kept,
           [Next]_vars
    PROVE  Kept'
<1>1. ASSUME UNCHANGED <<events, conn, handler, channel, job, client>> PROVE Kept'
  BY <1>1 DEF Kept, Served, Live, Goal, Due, Materialized, Replaying, Have, Coming, Snapshots, Ids
<1>2. ASSUME NEW p \in Producers, NEW s \in Sessions, NEW kind \in Kinds,
             push_runtime_event(p, s, kind)
      PROVE  Kept'
  <2>1. SUFFICES ASSUME Served' PROVE Due' \subseteq Replaying' \cup Have' \cup Coming'
    BY DEF Kept
  <2>2. UNCHANGED <<conn, handler, channel, client>> /\ job[p].pc = "idle" /\ p \in Deliverers
    BY <1>2 DEF push_runtime_event, Deliverers
  <2>3. Served
    BY <2>1, <2>2 DEF Served, Live
  <2>4. Due' \subseteq Due \cup {Len(events) + 1}
    BY <1>2, <2>2, Pushed DEF Due, Goal, Materialized, Ids
  <2>5. Ids \subseteq Ids' /\ Len(events) + 1 \in Ids'
    BY <1>2, Pushed DEF Ids
  <2>6. Replaying \subseteq Replaying'
    BY <2>2, <2>5 DEF Replaying
  <2>7. Have \subseteq Have'
    BY <2>2, <2>5, HaveKept DEF Snapshots
  <2>8. job' = [job EXCEPT ![p] = [NoJob EXCEPT !.pc = "scan", !.id = Len(events) + 1]]
    BY <1>2 DEF push_runtime_event
  <2>9. /\ job'[p].pc = "scan" /\ job'[p].id = Len(events) + 1
        /\ \A x \in Deliverers : x # p => job'[x] = job[x]
    BY <2>2, <2>8 DEF TypeJob, NoJob
  <2>10. Len(events) + 1 \in Coming'
    BY <2>2, <2>5, <2>9 DEF Coming
  <2>11. Coming \subseteq Coming'
    <3>1. ASSUME NEW i \in Coming PROVE i \in Coming'
      <4>1. PICK e \in Deliverers :
               /\ job[e].id = i
               /\ \/ job[e].pc = "scan"
                  \/ job[e].pc \in {"visit", "send"} /\ client.conn \in job[e].todo
                  \/ job[e].pc = "send" /\ job[e].target = client.conn /\ job[e].epoch = client.next
        BY <3>1 DEF Coming
      <4>2. e # p /\ job'[e] = job[e]
        BY <2>2, <2>9, <4>1
      <4>3. i \in Ids'
        BY <2>5 DEF Coming
      <4>4. QED
        BY <2>2, <4>1, <4>2, <4>3 DEF Coming
    <3>2. QED
      BY <3>1
  <2>12. QED
    BY <2>3, <2>4, <2>6, <2>7, <2>10, <2>11 DEF Kept
<1>3. ASSUME NEW d \in Deliverers, deliver(d)
      PROVE  Kept'
  <2>1. SUFFICES ASSUME Served' PROVE Due' \subseteq Replaying' \cup Have' \cup Coming'
    BY DEF Kept
  <2>2. UNCHANGED <<events, conn, handler, channel, client>>
    BY <1>3 DEF deliver
  <2>3. Served
    BY <2>1, <2>2 DEF Served, Live
  <2>4. Due' = Due /\ Replaying' = Replaying
    BY <2>2 DEF Due, Goal, Materialized, Replaying, Ids
  <2>5. Have \subseteq Have'
    BY <2>2, HaveKept DEF Snapshots, Ids
  <2>6. Due \cap Coming \subseteq Coming' \cup Have'
    <3>1. ASSUME NEW i \in Due \cap Coming PROVE i \in Coming' \cup Have'
      <4>1. PICK e \in Deliverers :
               /\ job[e].id = i
               /\ \/ job[e].pc = "scan"
                  \/ job[e].pc \in {"visit", "send"} /\ client.conn \in job[e].todo
                  \/ job[e].pc = "send" /\ job[e].target = client.conn /\ job[e].epoch = client.next
        BY <3>1 DEF Coming
      <4>2. i \in Ids' /\ events[i].session = Goal /\ events[i].critical
        BY <2>2, <3>1 DEF Coming, Due, Materialized, Ids
      <4>3. CASE e # d
        <5>1. job'[e] = job[e]
          BY <1>3, <4>3, Scanned
        <5>2. QED
          BY <2>2, <4>1, <4>2, <5>1 DEF Coming
      <4>4. CASE e = d
        <5>1. client.conn \in {c \in subscribers[events[job[d].id].session] : conn[c].registered}
          BY <2>3, <4>1, <4>2, <4>4, ServedFacts
        <5>2. job'[d].pc = "visit" /\ job'[d].id = i /\ client.conn \in job'[d].todo
          BY <1>3, <4>1, <4>4, <5>1, Scanned
        <5>3. QED
          BY <2>2, <4>2, <5>2 DEF Coming
      <4>5. QED
        BY <4>3, <4>4
    <3>2. QED
      BY <3>1
  <2>7. QED
    BY <2>3, <2>4, <2>5, <2>6 DEF Kept
<1>4. ASSUME NEW d \in Deliverers, NEW c \in Conns, VisitSubscriber(d, c)
      PROVE  Kept'
  <2>1. SUFFICES ASSUME Served' PROVE Due' \subseteq Replaying' \cup Have' \cup Coming'
    BY DEF Kept
  <2>2. UNCHANGED <<events, conn, handler, channel, client>>
    BY <1>4 DEF VisitSubscriber
  <2>3. Served
    BY <2>1, <2>2 DEF Served, Live
  <2>4. Due' = Due /\ Replaying' = Replaying
    BY <2>2 DEF Due, Goal, Materialized, Replaying, Ids
  <2>5. Have \subseteq Have'
    BY <2>2, HaveKept DEF Snapshots, Ids
  <2>6. Due \cap Coming \subseteq Coming' \cup Have'
    <3>1. ASSUME NEW i \in Due \cap Coming PROVE i \in Coming' \cup Have'
      <4>1. PICK e \in Deliverers :
               /\ job[e].id = i
               /\ \/ job[e].pc = "scan"
                  \/ job[e].pc \in {"visit", "send"} /\ client.conn \in job[e].todo
                  \/ job[e].pc = "send" /\ job[e].target = client.conn /\ job[e].epoch = client.next
        BY <3>1 DEF Coming
      <4>2. i \in Ids' /\ events[i].session = Goal /\ events[i].critical
        BY <2>2, <3>1 DEF Coming, Due, Materialized, Ids
      <4>3. CASE e # d
        <5>1. job'[e] = job[e]
          BY <1>4, <4>3, Visited
        <5>2. QED
          BY <2>2, <4>1, <4>2, <5>1 DEF Coming
      <4>4. CASE e = d
        <5>1. /\ client.conn \in job[d].todo /\ job[d].id = i
          BY <1>4, <4>1, <4>4 DEF VisitSubscriber
        <5>2. CASE c = client.conn
          <6>1. conn[c].session # None /\ ~ conn[c].degraded /\ conn[c].epoch = client.next
            BY <2>3, <5>2, ServedFacts, DeliveryAssumption
          <6>2. /\ job'[d].id = i /\ job'[d].pc = "send" /\ job'[d].target = c
                /\ job'[d].epoch = conn[c].epoch
            BY <1>4, <5>1, <6>1, Visited
          <6>3. QED
            BY <2>2, <4>2, <5>2, <6>1, <6>2 DEF Coming
        <5>3. CASE c # client.conn
          <6>1. /\ job'[d].id = i /\ job'[d].pc \in {"visit", "send"}
                /\ client.conn \in job'[d].todo
            BY <1>4, <5>1, <5>3, Visited
          <6>2. QED
            BY <2>2, <4>2, <6>1 DEF Coming
        <5>4. QED
          BY <5>2, <5>3
      <4>5. QED
        BY <4>3, <4>4
    <3>2. QED
      BY <3>1
  <2>7. QED
    BY <2>3, <2>4, <2>5, <2>6 DEF Kept
<1>5. ASSUME NEW d \in Deliverers, SendSucceeds(d)
      PROVE  Kept'
  <2>1. SUFFICES ASSUME Served' PROVE Due' \subseteq Replaying' \cup Have' \cup Coming'
    BY DEF Kept
  <2>2. UNCHANGED <<events, conn, handler, client>>
    BY <1>5 DEF SendSucceeds
  <2>3. Served
    BY <2>1, <2>2 DEF Served, Live
  <2>4. Due' = Due /\ Replaying' = Replaying
    BY <2>2 DEF Due, Goal, Materialized, Replaying, Ids
  <2>5. /\ Have \subseteq Have'
        /\ job[d].target = client.conn =>
              \E f \in Range(channel'[client.conn]) :
                 f.type = "event" /\ f.id = job[d].id /\ f.epoch = job[d].epoch
    <3>1. job[d].target \in Conns /\ job[d].epoch \in 1..MaxBinds /\ job[d].id \in Ids
      BY <1>5, JobEvent, DeliveryAssumption DEF SendSucceeds, JobShape, TypeJob, Job
    <3>2. ToChannel(job[d].target, EventFrame(job[d].id, job[d].epoch)) /\ Live
      BY <1>5, <2>3 DEF SendSucceeds, Served
    <3>3. /\ Snapshots' = Snapshots
          /\ Range(channel[client.conn]) \subseteq Range(channel'[client.conn])
          /\ job[d].target = client.conn =>
                \E f \in Range(channel'[client.conn]) :
                   f.type = "event" /\ f.id = job[d].id /\ f.epoch = job[d].epoch
      BY <2>2, <3>1, <3>2, EventSent
    <3>4. QED
      BY <2>2, <3>3, HaveKept DEF Ids
  <2>6. Due \cap Coming \subseteq Coming' \cup Have'
    <3>1. ASSUME NEW i \in Due \cap Coming PROVE i \in Coming' \cup Have'
      <4>1. PICK e \in Deliverers :
               /\ job[e].id = i
               /\ \/ job[e].pc = "scan"
                  \/ job[e].pc \in {"visit", "send"} /\ client.conn \in job[e].todo
                  \/ job[e].pc = "send" /\ job[e].target = client.conn /\ job[e].epoch = client.next
        BY <3>1 DEF Coming
      <4>2. i \in Ids' /\ events[i].session = Goal /\ events[i].critical
        BY <2>2, <3>1 DEF Coming, Due, Materialized, Ids
      <4>3. CASE e # d
        <5>1. job'[e] = job[e]
          BY <1>5, <4>3, WasSent
        <5>2. QED
          BY <2>2, <4>1, <4>2, <5>1 DEF Coming
      <4>4. CASE e = d
        <5>1. CASE client.conn \in job[d].todo
          <6>1. /\ job'[d].id = i /\ job'[d].pc = "visit" /\ client.conn \in job'[d].todo
            BY <1>5, <4>1, <4>4, <5>1, WasSent
          <6>2. QED
            BY <2>2, <4>2, <6>1 DEF Coming
        <5>2. CASE client.conn \notin job[d].todo
          <6>1. job[d].target = client.conn /\ job[d].epoch = client.next /\ job[d].id = i
            BY <1>5, <4>1, <4>4, <5>2 DEF SendSucceeds
          <6>2. \E f \in Range(channel'[client.conn]) :
                   f.type = "event" /\ f.id = i /\ f.epoch = client.next
            BY <2>5, <6>1
          <6>3. QED
            BY <2>2, <4>2, <6>2 DEF Have
        <5>3. QED
          BY <5>1, <5>2
      <4>5. QED
        BY <4>3, <4>4
    <3>2. QED
      BY <3>1
  <2>7. QED
    BY <2>3, <2>4, <2>5, <2>6 DEF Kept
<1>6. ASSUME NEW d \in Deliverers, SendFails(d)
      PROVE  Kept'
  <2>1. SUFFICES ASSUME Served' PROVE Due' \subseteq Replaying' \cup Have' \cup Coming'
    BY DEF Kept
  <2>2. UNCHANGED <<events, handler, channel, client>>
    BY <1>6 DEF SendFails
  <2>3. Served
    <3>1. Live => client.conn \in Conns
      BY LiveClient
    <3>2. QED
      BY <1>6, <2>1, <2>2, <3>1, Degrades DEF Served, Live
  <2>4. Due' = Due /\ Replaying' = Replaying
    BY <2>2 DEF Due, Goal, Materialized, Replaying, Ids
  <2>5. Have \subseteq Have'
    BY <2>2, HaveKept DEF Snapshots, Ids
  <2>6. Due \cap Coming \subseteq Coming' \cup Have'
    <3>1. ASSUME NEW i \in Due \cap Coming PROVE i \in Coming' \cup Have'
      <4>1. PICK e \in Deliverers :
               /\ job[e].id = i
               /\ \/ job[e].pc = "scan"
                  \/ job[e].pc \in {"visit", "send"} /\ client.conn \in job[e].todo
                  \/ job[e].pc = "send" /\ job[e].target = client.conn /\ job[e].epoch = client.next
        BY <3>1 DEF Coming
      <4>2. i \in Ids' /\ events[i].session = Goal /\ events[i].critical
        BY <2>2, <3>1 DEF Coming, Due, Materialized, Ids
      <4>3. CASE e # d
        <5>1. job'[e] = job[e]
          BY <1>6, <4>3, WasSent
        <5>2. QED
          BY <2>2, <4>1, <4>2, <5>1 DEF Coming
      <4>4. CASE e = d
        <5>1. CASE client.conn \in job[d].todo
          <6>1. /\ job'[d].id = i /\ job'[d].pc = "visit" /\ client.conn \in job'[d].todo
            BY <1>6, <4>1, <4>4, <5>1, WasSent
          <6>2. QED
            BY <2>2, <4>2, <6>1 DEF Coming
        <5>2. CASE client.conn \notin job[d].todo
          <6>1. job[d].target = client.conn /\ job[d].id = i
            BY <1>6, <4>1, <4>4, <5>2 DEF SendFails
          <6>2. conn'[client.conn].degraded
            BY <1>6, <4>2, <6>1, Degrades
          <6>3. QED
            BY <2>1, <2>2, <6>2 DEF Served
        <5>3. QED
          BY <5>1, <5>2
      <4>5. QED
        BY <4>3, <4>4
    <3>2. QED
      BY <3>1
  <2>7. QED
    BY <2>3, <2>4, <2>5, <2>6 DEF Kept
<1>7. ASSUME NEW d \in Deliverers, DeliverEnds(d)
      PROVE  Kept'
  <2>1. SUFFICES ASSUME Served' PROVE Due' \subseteq Replaying' \cup Have' \cup Coming'
    BY DEF Kept
  <2>2. UNCHANGED <<events, conn, handler, channel, client>>
    BY <1>7 DEF DeliverEnds
  <2>3. Served
    BY <2>1, <2>2 DEF Served, Live
  <2>4. Due' = Due /\ Replaying' = Replaying
    BY <2>2 DEF Due, Goal, Materialized, Replaying, Ids
  <2>5. Have \subseteq Have'
    BY <2>2, HaveKept DEF Snapshots, Ids
  <2>6. Due \cap Coming \subseteq Coming' \cup Have'
    <3>1. ASSUME NEW i \in Due \cap Coming PROVE i \in Coming' \cup Have'
      <4>1. PICK e \in Deliverers :
               /\ job[e].id = i
               /\ \/ job[e].pc = "scan"
                  \/ job[e].pc \in {"visit", "send"} /\ client.conn \in job[e].todo
                  \/ job[e].pc = "send" /\ job[e].target = client.conn /\ job[e].epoch = client.next
        BY <3>1 DEF Coming
      <4>2. i \in Ids' /\ events[i].session = Goal /\ events[i].critical
        BY <2>2, <3>1 DEF Coming, Due, Materialized, Ids
      <4>3. CASE e # d
        <5>1. job'[e] = job[e]
          BY <1>7, <4>3 DEF DeliverEnds, TypeJob
        <5>2. QED
          BY <2>2, <4>1, <4>2, <5>1 DEF Coming
      <4>4. CASE e = d
        BY <1>7, <4>1, <4>4 DEF DeliverEnds
      <4>5. QED
        BY <4>3, <4>4
    <3>2. QED
      BY <3>1
  <2>7. QED
    BY <2>3, <2>4, <2>5, <2>6 DEF Kept
<1>8. ASSUME NEW c \in Conns, ReadSnapshot(c)
      PROVE  Kept'
  <2>1. SUFFICES ASSUME Served' PROVE Due' \subseteq Replaying' \cup Have' \cup Coming'
    BY DEF Kept
  <2>2. UNCHANGED <<events, conn, channel, job, client>>
    BY <1>8 DEF ReadSnapshot
  <2>3. Live /\ client.conn \in Conns
    BY <2>1, <2>2, LiveClient DEF Served, Live
  <2>4. c # client.conn
    <3>1. SUFFICES ASSUME c = client.conn PROVE FALSE
      OBVIOUS
    <3>2. conn[c].epoch = client.next
      BY <2>1, <2>2, <3>1 DEF Served
    <3>3. inbox[c] \in Seq(Request) /\ inbox[c] # <<>>
      BY <1>8 DEF ReadSnapshot, TypeInbox
    <3>4. Head(inbox[c]) \in Range(inbox[c])
      BY <3>3, QueueFacts
    <3>5. QED
      BY <3>2, <3>4, Numbers DEF EpochOrder, EpochBound
  <2>5. UNCHANGED handler[client.conn]
    BY <1>8, <2>2, <2>3, <2>4, Reads
  <2>6. QED
    BY <2>1, <2>2, <2>5 DEF Kept, Served, Live, Goal, Due, Materialized, Replaying, Have, Coming,
       Snapshots, Ids
<1>9. ASSUME NEW c \in Conns, RejectBind(c)
      PROVE  Kept'
  <2>1. SUFFICES ASSUME Served' PROVE Due' \subseteq Replaying' \cup Have' \cup Coming'
    BY DEF Kept
  <2>2. /\ UNCHANGED <<events, conn, job, client>> /\ handler[c].pc \in {"read", "restore"}
        /\ push_direct(c, "protocol_error") /\ handler[c].pc = "read"
    BY <1>9 DEF RejectBind
  <2>3. Live /\ client.conn \in Conns
    BY <2>1, <2>2, LiveClient DEF Served, Live
  <2>4. c # client.conn
    BY <2>1, <2>2, Numbers DEF Served, EpochOrder, EpochBound
  <2>5. UNCHANGED handler[client.conn] /\ UNCHANGED channel[client.conn]
    BY <1>9, <2>2, <2>3, <2>4, Gives, Direct
  <2>6. QED
    BY <2>1, <2>2, <2>5 DEF Kept, Served, Live, Goal, Due, Materialized, Replaying, Have, Coming,
       Snapshots, Ids
<1>10. ASSUME NEW c \in Conns, disconnect(c)
      PROVE  Kept'
  <2>1. SUFFICES ASSUME Served' PROVE Due' \subseteq Replaying' \cup Have' \cup Coming'
    BY DEF Kept
  <2>2. /\ UNCHANGED <<events, handler, channel, job, client>>
        /\ Unregister(c, "gone") /\ "gone" \in {"new", "open", "closed", "gone"}
    BY <1>10 DEF disconnect, TypeHub, Connection
  <2>3. client.conn \in Conns /\ client.next # 0
    BY <2>1, <2>2, LiveClient DEF Served, Live
  <2>4. c # client.conn
    BY <2>1, <2>2, <2>3, Unregistered DEF Served
  <2>5. UNCHANGED conn[client.conn]
    BY <2>2, <2>3, <2>4, Unregistered
  <2>6. QED
    BY <2>1, <2>2, <2>5 DEF Kept, Served, Live, Goal, Due, Materialized, Replaying, Have, Coming,
       Snapshots, Ids
<1>11. ASSUME NEW c \in Conns, cleanup_once(c)
      PROVE  Kept'
  <2>1. SUFFICES ASSUME Served' PROVE Due' \subseteq Replaying' \cup Have' \cup Coming'
    BY DEF Kept
  <2>2. /\ UNCHANGED <<events, handler, channel, job, client>>
        /\ Unregister(c, conn[c].socket) /\ conn[c].socket \in {"new", "open", "closed", "gone"}
    BY <1>11 DEF cleanup_once, TypeHub, Connection
  <2>3. client.conn \in Conns /\ client.next # 0
    BY <2>1, <2>2, LiveClient DEF Served, Live
  <2>4. c # client.conn
    BY <2>1, <2>2, <2>3, Unregistered DEF Served
  <2>5. UNCHANGED conn[client.conn]
    BY <2>2, <2>3, <2>4, Unregistered
  <2>6. QED
    BY <2>1, <2>2, <2>5 DEF Kept, Served, Live, Goal, Due, Materialized, Replaying, Have, Coming,
       Snapshots, Ids
<1>12. ASSUME NEW c \in Conns, bind(c)
      PROVE  Kept'
  <2>1. SUFFICES ASSUME Served' PROVE Due' \subseteq Replaying' \cup Have' \cup Coming'
    BY DEF Kept
  <2>2. UNCHANGED <<events, channel, job, client>>
    BY <1>12 DEF bind
  <2>3. Live /\ client.conn \in Conns
    BY <2>1, <2>2, LiveClient DEF Served, Live
  <2>4. c # client.conn
    BY <1>12, <2>1, <2>2, Moves DEF Served
  <2>5. UNCHANGED handler[client.conn] /\ UNCHANGED conn[client.conn]
    BY <1>12, <2>2, <2>3, <2>4, Moves, Bound
  <2>6. QED
    BY <2>1, <2>2, <2>5 DEF Kept, Served, Live, Goal, Due, Materialized, Replaying, Have, Coming,
       Snapshots, Ids
<1>13. ASSUME NEW c \in Conns, SendRestored(c)
      PROVE  Kept'
  <2>1. SUFFICES ASSUME Served' PROVE Due' \subseteq Replaying' \cup Have' \cup Coming'
    BY DEF Kept
  <2>2. /\ UNCHANGED <<events, conn, job, client>> /\ handler[c].pc \in {"read", "restore"}
        /\ push_direct(c, "session_restored") /\ handler[c].pc = "restore"
    BY <1>13 DEF SendRestored
  <2>3. Live /\ client.conn \in Conns
    BY <2>1, <2>2, LiveClient DEF Served, Live
  <2>4. CASE c # client.conn
    <3>1. UNCHANGED handler[client.conn] /\ UNCHANGED channel[client.conn]
      BY <1>13, <2>2, <2>3, <2>4, Moves, Direct
    <3>2. QED
      BY <2>1, <2>2, <3>1 DEF Kept, Served, Live, Goal, Due, Materialized, Replaying, Have,
         Coming, Snapshots, Ids
  <2>5. CASE c = client.conn
    <3>1. conn[c].epoch = client.next /\ conn[c].registered
      BY <2>1, <2>2, <2>3, <2>5, LiveClient DEF Served, ConnShape
    <3>2. client.wanted # None /\ Snapshots = {}
      BY <2>2, <2>3, <2>5, <3>1 DEF SnapshotOrder
    <3>3. \A f \in Snapshots' : handler[c].cover <= f.id
      <4>1. handler[c].cover \in Nat
        BY Basics DEF TypeHandler, Handler
      <4>2. \/ Snapshots' = Snapshots
            \/ \E f : f.id = handler[c].cover /\ Snapshots' = Snapshots \cup {f}
        BY <2>2, <2>3, DirectSnapshots
      <4>3. QED
        BY <3>2, <4>1, <4>2
    <3>4. handler'[c].pc = "query" /\ handler'[c].cursor = handler[c].cursor
      BY <1>13, Moves
    <3>5. ASSUME NEW i \in Ids PROVE i \in Replaying' \cup Have'
      <4>1. i \in Ids' /\ i \in Nat
        BY <2>2, Basics DEF Ids
      <4>2. handler[c].cursor <= handler[c].cover /\ handler[c].cursor \in Nat /\ handler[c].cover \in Nat
        BY <2>2, Basics DEF HandlerShape, TypeHandler, Handler
      <4>3. CASE i > handler[c].cursor
        BY <2>2, <2>5, <3>4, <4>1, <4>3 DEF Replaying
      <4>4. CASE i <= handler[c].cursor
        <5>1. \A f \in Snapshots' : f.id \in Nat
          <6>1. \/ Snapshots' = Snapshots
                \/ \E f : f.id = handler[c].cover /\ Snapshots' = Snapshots \cup {f}
            BY <2>2, <2>3, DirectSnapshots
          <6>2. QED
            BY <3>2, <4>2, <6>1
        <5>2. \A f \in Snapshots' : i <= f.id
          BY <3>3, <4>1, <4>2, <4>4, <5>1
        <5>3. QED
          BY <2>2, <3>2, <4>1, <5>2 DEF Have
      <4>5. QED
        BY <4>1, <4>2, <4>3, <4>4
    <3>6. Due' \subseteq Ids
      BY <2>2 DEF Due, Materialized, Ids
    <3>7. QED
      BY <3>5, <3>6
  <2>6. QED
    BY <2>4, <2>5
<1>14. ASSUME NEW c \in Conns, replay_persisted_events(c)
      PROVE  Kept'
  <2>1. SUFFICES ASSUME Served' PROVE Due' \subseteq Replaying' \cup Have' \cup Coming'
    BY DEF Kept
  <2>2. UNCHANGED <<events, conn, channel, job, client>>
    BY <1>14 DEF replay_persisted_events
  <2>3. Live /\ client.conn \in Conns
    BY <2>1, <2>2, LiveClient DEF Served, Live
  <2>4. CASE c # client.conn
    <3>1. UNCHANGED handler[client.conn]
      BY <1>14, <2>2, <2>3, <2>4, Moves
    <3>2. QED
      BY <2>1, <2>2, <3>1 DEF Kept, Served, Live, Goal, Due, Materialized, Replaying, Have,
         Coming, Snapshots, Ids
  <2>5. CASE c = client.conn
    <3>1. Served
      BY <1>14, <2>1, <2>2, <2>5, Moves DEF Served, Live, replay_persisted_events
    <3>2. /\ handler'[c].pc = "replay" /\ handler[c].pc = "query"
          /\ handler'[c].rows = get_ws_outbox_events_after(handler[c].session, handler[c].cursor)
      BY <1>14, <2>1, <2>2, <2>5, Moves DEF Served, replay_persisted_events
    <3>3. handler[c].session = Goal
      BY <2>5, <3>1, <3>2, ServedFacts
    <3>4. Due \cap Replaying \subseteq Replaying'
      BY <2>2, <2>5, <3>2, <3>3 DEF Replaying, Due, get_ws_outbox_events_after, Ids, Materialized
    <3>5. Due' = Due /\ Have' = Have /\ Coming' = Coming
      BY <2>2 DEF Due, Goal, Materialized, Have, Coming, Snapshots, Ids
    <3>6. QED
      BY <3>1, <3>4, <3>5 DEF Kept
  <2>6. QED
    BY <2>4, <2>5
<1>15. ASSUME NEW c \in Conns, push_replay_direct(c)
      PROVE  Kept'
  <2>1. SUFFICES ASSUME Served' PROVE Due' \subseteq Replaying' \cup Have' \cup Coming'
    BY DEF Kept
  <2>2. UNCHANGED <<events, conn, job, client>> /\ handler[c].pc = "replay"
    BY <1>15 DEF push_replay_direct
  <2>3. Live /\ client.conn \in Conns
    BY <2>1, <2>2, LiveClient DEF Served, Live
  <2>4. CASE c # client.conn
    <3>1. UNCHANGED handler[client.conn]
      BY <1>15, <2>2, <2>3, <2>4, Moves
    <3>2. UNCHANGED channel[client.conn]
      BY <1>15, <2>3, <2>4 DEF push_replay_direct, ToChannel, TypeChannel
    <3>3. QED
      BY <2>1, <2>2, <3>1, <3>2 DEF Kept, Served, Live, Goal, Due, Materialized, Replaying, Have,
         Coming, Snapshots, Ids
  <2>5. CASE c = client.conn
    <3>1. ~ handler'[c].stopped
      BY <2>1, <2>2, <2>5 DEF Served
    <3>2. PICK i \in handler[c].rows :
             /\ conn[c].registered /\ ToChannel(c, EventFrame(i, conn[c].epoch))
             /\ handler'[c].rows = handler[c].rows \ {i} /\ handler'[c].pc = "replay"
      BY <1>15, <3>1, Moves
    <3>3. Served
      BY <1>15, <2>1, <2>2, <2>5, <3>1, Moves DEF Served, Live
    <3>4. conn[c].epoch \in 1..MaxBinds /\ conn[c].epoch = client.next /\ i \in Ids
      BY <2>5, <3>3, ServedFacts DEF TypeHandler, Handler
    <3>5. /\ Snapshots' = Snapshots
          /\ Range(channel[client.conn]) \subseteq Range(channel'[client.conn])
          /\ \E f \in Range(channel'[client.conn]) :
                f.type = "event" /\ f.id = i /\ f.epoch = client.next
      BY <2>2, <2>3, <2>5, <3>2, <3>4, EventSent
    <3>6. Have \subseteq Have' /\ i \in Have'
      BY <2>2, <3>4, <3>5, HaveKept DEF Have, Ids
    <3>7. Replaying \subseteq Replaying' \cup {i}
      BY <2>2, <2>5, <3>2 DEF Replaying, Ids
    <3>8. Due' = Due /\ Coming' = Coming
      BY <2>2 DEF Due, Goal, Materialized, Coming, Ids
    <3>9. QED
      BY <3>3, <3>6, <3>7, <3>8 DEF Kept
  <2>6. QED
    BY <2>4, <2>5
<1>16. ASSUME NEW c \in Conns, replay_pending(c)
      PROVE  Kept'
  <2>1. SUFFICES ASSUME Served' PROVE Due' \subseteq Replaying' \cup Have' \cup Coming'
    BY DEF Kept
  <2>2. UNCHANGED <<events, conn, channel, job, client>>
    BY <1>16 DEF replay_pending
  <2>3. Live /\ client.conn \in Conns
    BY <2>1, <2>2, LiveClient DEF Served, Live
  <2>4. CASE c # client.conn
    <3>1. UNCHANGED handler[client.conn]
      BY <1>16, <2>2, <2>3, <2>4, Moves
    <3>2. QED
      BY <2>1, <2>2, <3>1 DEF Kept, Served, Live, Goal, Due, Materialized, Replaying, Have,
         Coming, Snapshots, Ids
  <2>5. CASE c = client.conn
    <3>1. Served
      BY <1>16, <2>1, <2>2, <2>5, Moves DEF Served, Live, replay_pending
    <3>2. handler[c].pc = "replay" /\ handler[c].rows = {}
      BY <1>16 DEF replay_pending
    <3>3. Replaying = {}
      BY <2>5, <3>2 DEF Replaying
    <3>4. Due' = Due /\ Have' = Have /\ Coming' = Coming
      BY <2>2 DEF Due, Goal, Materialized, Have, Coming, Snapshots, Ids
    <3>5. QED
      BY <3>1, <3>3, <3>4 DEF Kept
  <2>6. QED
    BY <2>4, <2>5
<1>17. ASSUME NEW c \in Conns, DeliverPending(c)
      PROVE  Kept'
  <2>1. SUFFICES ASSUME Served' PROVE Due' \subseteq Replaying' \cup Have' \cup Coming'
    BY DEF Kept
  <2>2. /\ UNCHANGED <<events, conn, channel, client>> /\ handler[c].pc = "pending"
        /\ job[c].pc = "idle" /\ c \in Deliverers
    BY <1>17 DEF DeliverPending, Deliverers
  <2>3. Live /\ client.conn \in Conns
    BY <2>1, <2>2, LiveClient DEF Served, Live
  <2>4. Served /\ Replaying' = Replaying
    <3>1. CASE c = client.conn
      BY <1>17, <2>1, <2>2, <3>1, Moves DEF Served, Live, Replaying, Ids
    <3>2. CASE c # client.conn
      <4>1. UNCHANGED handler[client.conn]
        BY <1>17, <2>2, <2>3, <3>2, Moves
      <4>2. QED
        BY <2>1, <2>2, <4>1 DEF Served, Live, Replaying, Ids
    <3>3. QED
      BY <3>1, <3>2
  <2>5. Due' = Due /\ Have' = Have
    BY <2>2 DEF Due, Goal, Materialized, Have, Snapshots, Ids
  <2>6. \A x \in Deliverers : x # c => job'[x] = job[x]
    BY <1>17 DEF DeliverPending, TypeJob
  <2>7. Coming \subseteq Coming'
    <3>1. ASSUME NEW i \in Coming PROVE i \in Coming'
      <4>1. PICK e \in Deliverers :
               /\ job[e].id = i
               /\ \/ job[e].pc = "scan"
                  \/ job[e].pc \in {"visit", "send"} /\ client.conn \in job[e].todo
                  \/ job[e].pc = "send" /\ job[e].target = client.conn /\ job[e].epoch = client.next
        BY <3>1 DEF Coming
      <4>2. e # c /\ job'[e] = job[e]
        BY <2>2, <2>6, <4>1
      <4>3. i \in Ids'
        BY <2>2 DEF Coming, Ids
      <4>4. QED
        BY <2>2, <4>1, <4>2, <4>3 DEF Coming
    <3>2. QED
      BY <3>1
  <2>8. QED
    BY <2>4, <2>5, <2>7 DEF Kept
<1>18. ASSUME NEW c \in Conns, BindEnds(c)
      PROVE  Kept'
  <2>1. SUFFICES ASSUME Served' PROVE Due' \subseteq Replaying' \cup Have' \cup Coming'
    BY DEF Kept
  <2>2. UNCHANGED <<events, conn, channel, job, client>>
    BY <1>18 DEF BindEnds
  <2>3. Live /\ client.conn \in Conns
    BY <2>1, <2>2, LiveClient DEF Served, Live
  <2>4. CASE c # client.conn
    <3>1. UNCHANGED handler[client.conn]
      BY <1>18, <2>2, <2>3, <2>4, Gives
    <3>2. QED
      BY <2>1, <2>2, <3>1 DEF Kept, Served, Live, Goal, Due, Materialized, Replaying, Have,
         Coming, Snapshots, Ids
  <2>5. CASE c = client.conn
    <3>1. Served
      BY <1>18, <2>1, <2>2, <2>5, Gives DEF Served, Live, BindEnds
    <3>2. handler[c].pc = "pending"
      BY <1>18 DEF BindEnds
    <3>3. Replaying = {}
      BY <2>5, <3>2 DEF Replaying
    <3>4. Due' = Due /\ Have' = Have /\ Coming' = Coming
      BY <2>2 DEF Due, Goal, Materialized, Have, Coming, Snapshots, Ids
    <3>5. QED
      BY <3>1, <3>3, <3>4 DEF Kept
  <2>6. QED
    BY <2>4, <2>5
<1>19. ASSUME NEW c \in Conns, BindUnregistered(c)
      PROVE  Kept'
  <2>1. SUFFICES ASSUME Served' PROVE Due' \subseteq Replaying' \cup Have' \cup Coming'
    BY DEF Kept
  <2>2. UNCHANGED <<events, conn, channel, job, client>>
    BY <1>19 DEF BindUnregistered
  <2>3. Live /\ client.conn \in Conns
    BY <2>1, <2>2, LiveClient DEF Served, Live
  <2>4. c # client.conn
    <3>1. SUFFICES ASSUME c = client.conn PROVE FALSE
      OBVIOUS
    <3>2. conn[c].epoch = client.next
      BY <2>1, <2>2, <3>1 DEF Served
    <3>3. handler[c].pc = "read"
      BY <1>19 DEF BindUnregistered
    <3>4. QED
      BY <3>2, <3>3, Numbers DEF EpochOrder, EpochBound
  <2>5. UNCHANGED handler[client.conn]
    BY <1>19, <2>2, <2>3, <2>4, Gives
  <2>6. QED
    BY <2>1, <2>2, <2>5 DEF Kept, Served, Live, Goal, Due, Materialized, Replaying, Have, Coming,
       Snapshots, Ids
<1>20. ASSUME NEW c \in Conns, Connect(c)
      PROVE  Kept'
  BY <1>20, Moved DEF Kept, Served, Live
<1>21. ASSUME NEW s \in Sessions, bindSessionAndWait(s)
      PROVE  Kept'
  <2>1. /\ startBindAttempt(BindFailed, s, FALSE) /\ client.conn # None
        /\ UNCHANGED conn
    BY <1>21 DEF bindSessionAndWait
  <2>2. BindFailed \in Browser /\ BindFailed.next = client.next /\ BindFailed.conn = client.conn
    BY Failed
  <2>3. client'.conn = client.conn /\ client.conn \in Conns /\ client'.next = client.next + 1
    BY <2>1, <2>2, Asked
  <2>4. conn[client.conn].epoch # client.next + 1
    BY <2>3, Numbers DEF EpochBound
  <2>5. QED
    BY <2>1, <2>3, <2>4 DEF Kept, Served
<1>22. ASSUME BindTimesOut
      PROVE  Kept'
  BY <1>22, FailedLive DEF BindTimesOut, Kept, Served
<1>23. ASSUME DropFrame
      PROVE  Kept'
  <2>1. SUFFICES ASSUME Served' PROVE Due' \subseteq Replaying' \cup Have' \cup Coming'
    BY DEF Kept
  <2>2. UNCHANGED <<events, conn, handler, job>> /\ Receives(Received.type)
    BY <1>23 DEF DropFrame
  <2>3. /\ client'.conn = client.conn /\ client'.next = client.next
        /\ client'.wanted = client.wanted /\ client'.bound = client.bound
        /\ client'.epoch = client.epoch
    BY <1>23 DEF DropFrame
  <2>4. /\ Snapshots' \subseteq Snapshots
        /\ Range(channel[client.conn]) = {Received} \cup Range(channel'[client.conn])
    BY <2>2, <2>3, TakenSnapshots
  <2>5. Served /\ Due' = Due /\ Replaying' = Replaying /\ Coming' = Coming
    BY <2>1, <2>2, <2>3 DEF Served, Live, Goal, Due, Materialized, Replaying, Coming, Ids
  <2>6. UNCHANGED client /\ ~ Fenced(Received)
    BY <1>23 DEF DropFrame
  <2>7. Due \cap Have \subseteq Have'
    <3>1. ASSUME NEW i \in Due \cap Have PROVE i \in Have'
      <4>1. i \in Ids' /\ events[i].session = Goal
        BY <2>2, <3>1 DEF Have, Due, Materialized, Ids
      <4>2. CASE \E f \in Range(channel[client.conn]) :
                    f.type = "event" /\ f.id = i /\ f.epoch = client.next
        <5>1. PICK f \in Range(channel[client.conn]) :
                 f.type = "event" /\ f.id = i /\ f.epoch = client.next
          BY <4>2
        <5>2. f # Received
          <6>1. SUFFICES ASSUME f = Received PROVE FALSE
            OBVIOUS
          <6>2. Received \in SentFrame
            BY <2>2, Took
          <6>3. Received.session = Goal /\ Received.epoch = client.next
            BY <4>1, <5>1, <6>1, <6>2 DEF SentFrame
          <6>4. QED
            BY <2>5, <2>6, <6>3 DEF Fenced, Goal, Served, Live, ClientShape
        <5>3. f \in Range(channel'[client.conn])
          BY <2>4, <5>1, <5>2
        <5>4. QED
          BY <2>6, <4>1, <5>1, <5>3 DEF Have
      <4>3. CASE client.wanted # None /\ \A f \in Snapshots : i <= f.id
        BY <2>4, <2>6, <4>1, <4>3 DEF Have
      <4>4. CASE \/ client.wanted = None /\ i \in client.view
                 \/ client.wanted # None /\ i \in Range(client.queued)
        BY <2>6, <4>1, <4>4 DEF Have
      <4>5. QED
        BY <3>1, <4>2, <4>3, <4>4 DEF Have
    <3>2. QED
      BY <3>1
  <2>8. QED
    BY <2>5, <2>7 DEF Kept
<1>24. ASSUME ApplyEvent
      PROVE  Kept'
  <2>1. SUFFICES ASSUME Served' PROVE Due' \subseteq Replaying' \cup Have' \cup Coming'
    BY DEF Kept
  <2>2. UNCHANGED <<events, conn, handler, job>> /\ Receives("event")
    BY <1>24 DEF ApplyEvent
  <2>3. /\ client'.conn = client.conn /\ client'.next = client.next
        /\ client'.wanted = client.wanted /\ client'.bound = client.bound
        /\ client'.epoch = client.epoch
    BY <1>24, Applied
  <2>4. /\ Snapshots' \subseteq Snapshots
        /\ Range(channel[client.conn]) = {Received} \cup Range(channel'[client.conn])
    BY <2>2, <2>3, TakenSnapshots
  <2>5. Served /\ Due' = Due /\ Replaying' = Replaying /\ Coming' = Coming
    BY <2>1, <2>2, <2>3 DEF Served, Live, Goal, Due, Materialized, Replaying, Coming, Ids
  <2>6. client.wanted = None /\ client'.view = client.view \cup ({Received.id} \ client.seen)
    BY <1>24, Applied DEF ApplyEvent
  <2>7. Due \cap client.seen \subseteq client.view
    BY <2>5, <2>6 DEF SeenShows, Known, Served, Due
  <2>8. Due \cap Have \subseteq Have'
    <3>1. ASSUME NEW i \in Due \cap Have PROVE i \in Have'
      <4>1. i \in Ids'
        BY <2>2, <3>1 DEF Have, Ids
      <4>2. CASE \E f \in Range(channel[client.conn]) :
                    f.type = "event" /\ f.id = i /\ f.epoch = client.next
        <5>1. PICK f \in Range(channel[client.conn]) :
                 f.type = "event" /\ f.id = i /\ f.epoch = client.next
          BY <4>2
        <5>2. CASE f = Received
          <6>1. i \in client'.view
            BY <2>6, <2>7, <3>1, <5>1, <5>2
          <6>2. QED
            BY <2>3, <2>6, <4>1, <6>1 DEF Have
        <5>3. CASE f # Received
          BY <2>3, <2>4, <4>1, <5>1, <5>3 DEF Have
        <5>4. QED
          BY <5>2, <5>3
      <4>3. CASE client.wanted = None /\ i \in client.view
        BY <2>3, <2>6, <4>1, <4>3 DEF Have
      <4>4. QED
        BY <2>6, <3>1, <4>2, <4>3 DEF Have
    <3>2. QED
      BY <3>1
  <2>9. QED
    BY <2>5, <2>8 DEF Kept
<1>25. ASSUME QueueEvent
      PROVE  Kept'
  <2>1. SUFFICES ASSUME Served' PROVE Due' \subseteq Replaying' \cup Have' \cup Coming'
    BY DEF Kept
  <2>2. UNCHANGED <<events, conn, handler, job>> /\ Receives("event")
    BY <1>25 DEF QueueEvent
  <2>3. /\ client'.conn = client.conn /\ client'.next = client.next
        /\ client'.wanted = client.wanted /\ client'.bound = client.bound
        /\ client'.epoch = client.epoch
    BY <1>25, Queued
  <2>4. /\ Snapshots' \subseteq Snapshots
        /\ Range(channel[client.conn]) = {Received} \cup Range(channel'[client.conn])
    BY <2>2, <2>3, TakenSnapshots
  <2>5. Served /\ Due' = Due /\ Replaying' = Replaying /\ Coming' = Coming
    BY <2>1, <2>2, <2>3 DEF Served, Live, Goal, Due, Materialized, Replaying, Coming, Ids
  <2>6. client.wanted # None /\ client'.queued = Append(client.queued, Received.id) /\ Received.id \in Ids
    BY <1>25, Queued DEF QueueEvent
  <2>7. Range(client'.queued) = Range(client.queued) \cup {Received.id}
    <3>1. client.queued \in Seq(Ids)
      BY DEF TypeClient, Browser
    <3>2. QED
      BY <2>6, <3>1, QueueFacts
  <2>8. Have \subseteq Have'
    <3>1. ASSUME NEW i \in Have PROVE i \in Have'
      <4>1. i \in Ids'
        BY <2>2, <3>1 DEF Have, Ids
      <4>2. CASE \E f \in Range(channel[client.conn]) :
                    f.type = "event" /\ f.id = i /\ f.epoch = client.next
        <5>1. PICK f \in Range(channel[client.conn]) :
                 f.type = "event" /\ f.id = i /\ f.epoch = client.next
          BY <4>2
        <5>2. CASE f = Received
          BY <2>3, <2>6, <2>7, <4>1, <5>1, <5>2 DEF Have
        <5>3. CASE f # Received
          BY <2>3, <2>4, <4>1, <5>1, <5>3 DEF Have
        <5>4. QED
          BY <5>2, <5>3
      <4>3. CASE i \in Range(client.queued)
        BY <2>3, <2>6, <2>7, <4>1, <4>3 DEF Have
      <4>4. CASE \A f \in Snapshots : i <= f.id
        BY <2>3, <2>4, <2>6, <4>1, <4>4 DEF Have
      <4>5. QED
        BY <2>6, <3>1, <4>2, <4>3, <4>4 DEF Have
    <3>2. QED
      BY <3>1
  <2>9. QED
    BY <2>5, <2>8 DEF Kept
<1>26. ASSUME QueueOverflows
      PROVE  Kept'
  <2>1. Receives("event") /\ UNCHANGED conn
    BY <1>26 DEF QueueOverflows
  <2>2. CASE startBindAttempt(client, client.wanted, TRUE)
    <3>1. client.wanted \in Sessions /\ client \in Browser /\ client.conn # None
      BY <1>26 DEF QueueOverflows, Receives, TypeClient, Browser
    <3>2. /\ client'.conn = client.conn /\ client.conn \in Conns
          /\ client'.next = client.next + 1
      BY <2>2, <3>1, Asked
    <3>3. conn[client.conn].epoch # client.next + 1
      BY <3>2, Numbers DEF EpochBound
    <3>4. QED
      BY <2>1, <3>2, <3>3 DEF Kept, Served
  <2>3. CASE ~ startBindAttempt(client, client.wanted, TRUE)
    BY <1>26, <2>3, Overflown DEF Kept, Served, Live
  <2>4. QED
    BY <2>2, <2>3
<1>27. ASSUME handleSessionRestore
      PROVE  Kept'
  <2>1. SUFFICES ASSUME Served' PROVE Due' \subseteq Replaying' \cup Have' \cup Coming'
    BY DEF Kept
  <2>2. UNCHANGED <<events, conn, handler, job>> /\ Receives("session_restored")
    BY <1>27 DEF handleSessionRestore
  <2>3. CASE UNCHANGED client
    <3>1. /\ Snapshots' \subseteq Snapshots
          /\ Range(channel[client.conn]) = {Received} \cup Range(channel'[client.conn])
      BY <2>2, <2>3, TakenSnapshots
    <3>2. Served /\ Due' = Due /\ Replaying' = Replaying /\ Coming' = Coming
      BY <2>1, <2>2, <2>3 DEF Served, Live, Goal, Due, Materialized, Replaying, Coming, Ids
    <3>3. Have \subseteq Have'
      <4>1. ASSUME NEW i \in Have PROVE i \in Have'
        <5>1. i \in Ids'
          BY <2>2, <4>1 DEF Have, Ids
        <5>2. CASE \E f \in Range(channel[client.conn]) :
                      f.type = "event" /\ f.id = i /\ f.epoch = client.next
          <6>1. PICK f \in Range(channel[client.conn]) :
                   f.type = "event" /\ f.id = i /\ f.epoch = client.next
            BY <5>2
          <6>2. f # Received
            BY <2>2, <6>1, Took
          <6>3. QED
            BY <2>3, <3>1, <5>1, <6>1, <6>2 DEF Have
        <5>3. CASE client.wanted # None /\ \A f \in Snapshots : i <= f.id
          BY <2>3, <3>1, <5>1, <5>3 DEF Have
        <5>4. CASE \/ client.wanted = None /\ i \in client.view
                   \/ client.wanted # None /\ i \in Range(client.queued)
          BY <2>3, <5>1, <5>4 DEF Have
        <5>5. QED
          BY <4>1, <5>2, <5>3, <5>4 DEF Have
      <4>2. QED
        BY <4>1
    <3>4. QED
      BY <3>2, <3>3 DEF Kept
  <2>4. CASE client.wanted # None /\ Received.epoch = client.wanted_epoch
    <3>1. /\ client'.wanted = None /\ client'.bound = client.wanted
          /\ client'.conn = client.conn /\ client'.next = client.next
          /\ client'.view = Materialized(client.wanted, Received.id)
                              \cup (Range(client.queued) \ client.seen)
      BY <1>27, <2>4, Restored
    <3>2. Served /\ Due' = Due /\ Replaying' = Replaying /\ Coming' = Coming
      BY <2>1, <2>2, <2>4, <3>1 DEF Served, Live, Goal, Due, Materialized, Replaying, Coming, Ids
    <3>3. Received \in Snapshots
      <4>1. Received.type = "session_restored" /\ Received \in Range(channel[client.conn])
        BY <2>2, Took
      <4>2. QED
        BY <2>4, <4>1 DEF Snapshots, ClientShape
    <3>4. client.seen \subseteq 1..Received.id
      BY <2>4, <3>3 DEF SeenShows, Known, Live
    <3>5. \A i \in Due : i \in Ids /\ events[i].durable /\ events[i].session = client.wanted
      BY <2>4 DEF Due, Materialized, Goal, Ids
    <3>6. Received.id \in Nat
      <4>1. Received \in SentFrame
        BY <2>2, Took
      <4>2. QED
        BY <4>1, DeliveryAssumption DEF SentFrame, Frame
    <3>7. \A i \in Due : i <= Received.id => i \in client'.view
      BY <3>1, <3>5, <3>6, Basics DEF Materialized, Ids
    <3>8. \A i \in Due : i \in Range(client.queued) => i \in client'.view
      BY <3>1, <3>4, <3>5, <3>6, <3>7
    <3>9. Due \cap Have \subseteq Have'
      <4>1. ASSUME NEW i \in Due \cap Have PROVE i \in Have'
        <5>1. i \in Ids'
          BY <2>2, <4>1 DEF Have, Ids
        <5>2. CASE \E f \in Range(channel[client.conn]) :
                      f.type = "event" /\ f.id = i /\ f.epoch = client.next
          <6>1. PICK f \in Range(channel[client.conn]) :
                   f.type = "event" /\ f.id = i /\ f.epoch = client.next
            BY <5>2
          <6>2. f \in Range(channel'[client.conn])
            BY <2>2, <6>1, Took
          <6>3. QED
            BY <3>1, <5>1, <6>1, <6>2 DEF Have
        <5>3. CASE i \in Range(client.queued)
          BY <3>1, <3>8, <4>1, <5>1, <5>3 DEF Have
        <5>4. CASE \A f \in Snapshots : i <= f.id
          BY <3>1, <3>3, <3>7, <4>1, <5>1, <5>4 DEF Have
        <5>5. QED
          BY <2>4, <4>1, <5>2, <5>3, <5>4 DEF Have
      <4>2. QED
        BY <4>1
    <3>10. QED
      BY <3>2, <3>9 DEF Kept
  <2>5. QED
    BY <1>27, <2>3, <2>4 DEF handleSessionRestore
<1>28. ASSUME protocol_error
      PROVE  Kept'
  <2>1. SUFFICES ASSUME Served' PROVE Due' \subseteq Replaying' \cup Have' \cup Coming'
    BY DEF Kept
  <2>2. UNCHANGED <<events, conn, handler, job>> /\ Receives("protocol_error")
    BY <1>28 DEF protocol_error
  <2>3. CASE UNCHANGED client
    <3>1. /\ Snapshots' \subseteq Snapshots
          /\ Range(channel[client.conn]) = {Received} \cup Range(channel'[client.conn])
      BY <2>2, <2>3, TakenSnapshots
    <3>2. Served /\ Due' = Due /\ Replaying' = Replaying /\ Coming' = Coming
      BY <2>1, <2>2, <2>3 DEF Served, Live, Goal, Due, Materialized, Replaying, Coming, Ids
    <3>3. Have \subseteq Have'
      <4>1. ASSUME NEW i \in Have PROVE i \in Have'
        <5>1. i \in Ids'
          BY <2>2, <4>1 DEF Have, Ids
        <5>2. CASE \E f \in Range(channel[client.conn]) :
                      f.type = "event" /\ f.id = i /\ f.epoch = client.next
          <6>1. PICK f \in Range(channel[client.conn]) :
                   f.type = "event" /\ f.id = i /\ f.epoch = client.next
            BY <5>2
          <6>2. f # Received
            BY <2>2, <6>1, Took
          <6>3. QED
            BY <2>3, <3>1, <5>1, <6>1, <6>2 DEF Have
        <5>3. CASE client.wanted # None /\ \A f \in Snapshots : i <= f.id
          BY <2>3, <3>1, <5>1, <5>3 DEF Have
        <5>4. CASE \/ client.wanted = None /\ i \in client.view
                   \/ client.wanted # None /\ i \in Range(client.queued)
          BY <2>3, <5>1, <5>4 DEF Have
        <5>5. QED
          BY <4>1, <5>2, <5>3, <5>4 DEF Have
      <4>2. QED
        BY <4>1
    <3>4. QED
      BY <3>2, <3>3 DEF Kept
  <2>4. CASE client.wanted # None /\ client' = BindFailed
    BY <2>1, <2>4, FailedLive DEF Served
  <2>5. QED
    BY <1>28, <2>3, <2>4 DEF protocol_error
<1>29. ASSUME NEW d \in Deliverers, Deliver(d)
      PROVE  Kept'
  BY <1>29, <1>3, <1>4, <1>5, <1>6, <1>7 DEF Deliver
<1>30. ASSUME NEW c \in Conns, ReadSnapshot(c) \/ RejectBind(c) \/ HandleBind(c)
                               \/ disconnect(c) \/ cleanup_once(c)
      PROVE  Kept'
  BY <1>30, <1>8, <1>9, <1>10, <1>11, <1>12, <1>13, <1>14, <1>15, <1>16, <1>17, <1>18, <1>19 DEF
     HandleBind
<1>31. ASSUME Client
      PROVE  Kept'
  BY <1>31, <1>20, <1>21, <1>22, <1>23, <1>24, <1>25, <1>26, <1>27, <1>28 DEF Client
<1>32. QED
  BY <1>1, <1>2, <1>29, <1>30, <1>31 DEF Next, vars


(* What is cached, one element for each entry. *)
LEMMA Entries ==
    ASSUME NEW p, NEW q, NEW s \in Sessions, \A v \in Sessions : v # s => q[v] = p[v]
    PROVE  LET P == UNION {{v} \X DOMAIN p[v] : v \in Sessions}
               Q == UNION {{v} \X DOMAIN q[v] : v \in Sessions}
           IN  \A x : DOMAIN q[s] \subseteq DOMAIN p[s] \cup {x} => Q \subseteq P \cup {<<s, x>>}
  OBVIOUS

(* One more event is cached, and another dropped where a limit is reached. *)
LEMMA EnqueueBounded ==
    ASSUME TypePending, PendingBounded, IsFiniteSet(Cached),
           NEW s \in Sessions, NEW i \in Ids, enqueue_pending(s, i)
    PROVE  PendingBounded' /\ IsFiniteSet(Cached')
<1> DEFINE q == IF Len(pending[s]) >= PendingCapacity THEN Tail(pending[s]) ELSE pending[s]
           grown == [pending EXCEPT ![s] = Append(q, i)]
           all == UNION {{v} \X DOMAIN grown[v] : v \in Sessions}
           n == Len(pending[s])
<1>1. pending \in [Sessions -> Seq(Ids)] /\ pending[s] \in Seq(Ids) /\ n \in Nat
      /\ n <= PendingCapacity /\ PendingCapacity \in Nat \ {0} /\ PendingTotal \in Nat \ {0}
      /\ Cardinality(Cached) <= PendingTotal
  BY LenProperties, DeliveryAssumption DEF TypePending, PendingBounded
<1>2. q \in Seq(Ids) /\ Len(q) \in Nat /\ Len(q) < PendingCapacity /\ Len(q) <= n
  <2>1. n >= PendingCapacity => pending[s] # <<>>
    BY <1>1, EmptySeq
  <2>2. CASE n >= PendingCapacity
    <3>1. Tail(pending[s]) \in Seq(Ids) /\ Len(Tail(pending[s])) = n - 1
      BY <1>1, <2>1, <2>2, HeadTailProperties
    <3>2. QED
      BY <1>1, <2>2, <3>1
  <2>3. CASE ~ (n >= PendingCapacity)
    BY <1>1, <2>3
  <2>4. QED
    BY <2>2, <2>3
<1>3. /\ Append(q, i) \in Seq(Ids) /\ Append(q, i) # <<>>
      /\ Len(Append(q, i)) = Len(q) + 1
  BY <1>2, AppendProperties
<1>4. /\ grown \in [Sessions -> Seq(Ids)] /\ grown[s] = Append(q, i)
      /\ \A v \in Sessions : v # s => grown[v] = pending[v]
  BY <1>1, <1>3
<1>5. \A v \in Sessions : Len(grown[v]) <= PendingCapacity
  BY <1>1, <1>2, <1>3, <1>4 DEF PendingBounded
<1>6. DOMAIN grown[s] \subseteq DOMAIN pending[s] \cup {n + 1}
  <2>1. DOMAIN grown[s] = 1..Len(q) + 1 /\ DOMAIN pending[s] = 1..n
    BY <1>1, <1>3, <1>4, LenProperties
  <2>2. QED
    BY <1>1, <1>2, <2>1
<1> HIDE DEF grown
<1>7. all \subseteq Cached \cup {<<s, n + 1>>}
  BY <1>4, <1>6, Entries DEF Cached
<1>8. IsFiniteSet(all) /\ Cardinality(all) \in Nat /\ Cardinality(all) <= PendingTotal + 1
  <2> DEFINE C == Cached
             D == C \cup {<<s, n + 1>>}
  <2>1. /\ IsFiniteSet(D) /\ Cardinality(C) \in Nat /\ Cardinality(D) \in Nat
        /\ Cardinality(D) <= Cardinality(C) + 1
    <3>1. IsFiniteSet(C)
      OBVIOUS
    <3> HIDE DEF C
    <3>2. /\ IsFiniteSet(D)
          /\ Cardinality(D) = IF <<s, n + 1>> \in C THEN Cardinality(C) ELSE Cardinality(C) + 1
      BY <3>1, FS_AddElement
    <3>3. Cardinality(C) \in Nat /\ Cardinality(D) \in Nat
      BY <3>1, <3>2, FS_CardinalityType
    <3>4. QED
      BY <3>2, <3>3
  <2>2. IsFiniteSet(all) /\ Cardinality(all) <= Cardinality(D)
    BY <1>7, <2>1, FS_Subset
  <2>3. Cardinality(all) \in Nat
    BY <2>2, FS_CardinalityType
  <2>4. QED
    BY <1>1, <2>1, <2>2, <2>3
<1>9. CASE Cardinality(all) <= PendingTotal /\ pending' = grown
  BY <1>5, <1>8, <1>9 DEF PendingBounded, Cached
<1>10. ASSUME ~ (Cardinality(all) <= PendingTotal),
              NEW v \in Victim(s, grown), pending' = [grown EXCEPT ![v] = Tail(grown[v])]
       PROVE  PendingBounded' /\ IsFiniteSet(Cached')
  <2>1. v \in Sessions /\ grown[v] # <<>> /\ grown[v] \in Seq(Ids)
    BY <1>3, <1>4 DEF Victim
  <2> DEFINE m == Len(grown[v])
  <2>2. /\ m \in Nat /\ DOMAIN grown[v] = 1..m /\ m # 0
        /\ Tail(grown[v]) \in Seq(Ids) /\ Len(Tail(grown[v])) = m - 1
    BY <2>1, HeadTailProperties, LenProperties, EmptySeq
  <2>3. DOMAIN Tail(grown[v]) = 1..m - 1
    BY <2>2, LenProperties
  <2>4. /\ pending'[v] = Tail(grown[v])
        /\ \A w \in Sessions : w # v => pending'[w] = grown[w]
    BY <1>4, <1>10, <2>1
  <2>5. m \in DOMAIN grown[v] /\ DOMAIN pending'[v] = DOMAIN grown[v] \ {m}
    BY <2>2, <2>3, <2>4
  <2>6. <<v, m>> \in all /\ Cached' = all \ {<<v, m>>}
    <3>1. Cached' = UNION {{w} \X DOMAIN pending'[w] : w \in Sessions}
      BY DEF Cached
    <3> DEFINE next == pending'
    <3>2. DOMAIN next[v] = DOMAIN grown[v] \ {m} /\ \A w \in Sessions : w # v => next[w] = grown[w]
      BY <2>4, <2>5
    <3> HIDE DEF next, m
    <3>3. /\ <<v, m>> \in all
          /\ UNION {{w} \X DOMAIN next[w] : w \in Sessions} = all \ {<<v, m>>}
      BY <2>1, <2>5, <3>2
    <3>4. QED
      BY <3>1, <3>3 DEF next
  <2>7. IsFiniteSet(Cached') /\ Cardinality(Cached') = Cardinality(all) - 1
    BY <1>8, <2>6, FS_RemoveElement
  <2>8. \A w \in Sessions : Len(pending'[w]) <= PendingCapacity
    <3>1. Len(pending'[v]) <= PendingCapacity
      BY <1>1, <1>5, <2>1, <2>2, <2>4
    <3>2. QED
      BY <1>5, <2>4, <3>1
  <2>9. QED
    BY <1>1, <1>8, <2>7, <2>8 DEF PendingBounded
<1>11. QED
  <2>1. \/ Cardinality(all) <= PendingTotal /\ pending' = grown
        \/ /\ ~ (Cardinality(all) <= PendingTotal)
           /\ \E v \in Victim(s, grown) : pending' = [grown EXCEPT ![v] = Tail(grown[v])]
    BY DEF enqueue_pending, grown
  <2>2. QED
    BY <1>9, <1>10, <2>1

(* The cache stays within its limits. *)
LEMMA BoundedStep ==
    ASSUME TypeEvents, TypePending, TypeHandler, TypeJob, JobShape, HandlerShape, CacheBounded,
           [Next]_vars
    PROVE  CacheBounded'
<1>1. ASSUME pending' = pending PROVE CacheBounded'
  BY <1>1 DEF CacheBounded, PendingBounded, Cached
<1>2. ASSUME NEW d \in Deliverers, deliver(d)
      PROVE  CacheBounded'
  <2>1. job[d].id \in Ids /\ events[job[d].id].session \in Sessions
    BY <1>2, JobEvent DEF deliver
  <2>2. CASE UNCHANGED pending
    BY <1>1, <2>2
  <2>3. CASE enqueue_pending(events[job[d].id].session, job[d].id)
    BY <2>1, <2>3, EnqueueBounded DEF CacheBounded
  <2>4. QED
    BY <1>2, <2>2, <2>3 DEF deliver
<1>3. ASSUME NEW d \in Deliverers, DeliverEnds(d)
      PROVE  CacheBounded'
  <2>1. job[d].id \in Ids /\ events[job[d].id].session \in Sessions
    BY <1>3, JobEvent DEF DeliverEnds
  <2>2. QED
    BY <1>3, <2>1, EnqueueBounded DEF DeliverEnds, CacheBounded
<1>4. ASSUME NEW c \in Conns, replay_pending(c)
      PROVE  CacheBounded'
  <2> DEFINE s == handler[c].session
  <2>1. s \in Sessions
    BY <1>4 DEF replay_pending, HandlerShape, TypeHandler, Handler
  <2>2. pending' = [pending EXCEPT ![s] = <<>>]
    BY <1>4 DEF replay_pending
  <2>3. \A v \in Sessions : pending'[v] = IF v = s THEN <<>> ELSE pending[v]
    BY <2>2 DEF TypePending
  <2>4. Cached' \subseteq Cached
    BY <2>1, <2>3 DEF Cached
  <2>5. Cardinality(Cached') <= Cardinality(Cached) /\ IsFiniteSet(Cached')
    BY <2>4, FS_Subset DEF CacheBounded
  <2>6. Cardinality(Cached') <= PendingTotal
    BY <2>5, FS_CardinalityType, DeliveryAssumption DEF CacheBounded, PendingBounded
  <2>7. \A v \in Sessions : Len(pending'[v]) <= PendingCapacity
    BY <2>3, EmptySeq, DeliveryAssumption DEF CacheBounded, PendingBounded
  <2>8. QED
    BY <2>5, <2>6, <2>7 DEF CacheBounded, PendingBounded
<1>5. ASSUME NEW d \in Deliverers, Deliver(d)
      PROVE  CacheBounded'
  <2>1. CASE \E c \in Conns : VisitSubscriber(d, c)
    <3>1. pending' = pending
      BY <2>1 DEF VisitSubscriber
    <3>2. QED
      BY <1>1, <3>1
  <2>2. CASE SendSucceeds(d) \/ SendFails(d)
    <3>1. pending' = pending
      BY <2>2 DEF SendSucceeds, SendFails
    <3>2. QED
      BY <1>1, <3>1
  <2>3. QED
    BY <1>2, <1>3, <1>5, <2>1, <2>2 DEF Deliver
<1>6. ASSUME NEW c \in Conns, ReadSnapshot(c) \/ RejectBind(c) \/ HandleBind(c)
                               \/ disconnect(c) \/ cleanup_once(c)
      PROVE  CacheBounded'
  BY <1>6, <1>1, <1>4 DEF HandleBind, ReadSnapshot, RejectBind, disconnect, cleanup_once, bind,
     SendRestored, replay_persisted_events, push_replay_direct, DeliverPending, BindEnds,
     BindUnregistered
<1>7. ASSUME Client
      PROVE  CacheBounded'
  <2>1. pending' = pending
    BY <1>7 DEF Client, Connect, bindSessionAndWait, BindTimesOut, DropFrame, ApplyEvent,
                QueueEvent, QueueOverflows, handleSessionRestore, protocol_error
  <2>2. QED
    BY <1>1, <2>1
<1>8. QED
  BY <1>1, <1>5, <1>6, <1>7 DEF Next, vars, push_runtime_event

(* Only events of the session the client is bound to are shown. *)
LEMMA ForeignStep ==
    ASSUME TypeEvents, TypeChannel, TypeInbox, TypeClient, ClientShape, NoForeignEvent,
           [Next]_vars
    PROVE  NoForeignEvent'
<1>1. ASSUME UNCHANGED <<events, client>> PROVE NoForeignEvent'
  BY <1>1 DEF NoForeignEvent
<1>2. ASSUME NEW p \in Producers, NEW s \in Sessions, NEW kind \in Kinds,
             push_runtime_event(p, s, kind)
      PROVE  NoForeignEvent'
  <2>1. client.view \subseteq Ids /\ \A i \in Ids : events'[i] = events[i]
    BY <1>2, Pushed DEF TypeClient, Browser
  <2>2. QED
    BY <1>2, <2>1 DEF push_runtime_event, NoForeignEvent
<1>3. ASSUME NEW c \in Conns, Connect(c)
      PROVE  NoForeignEvent'
  BY <1>3, Moved DEF NoForeignEvent
<1>4. ASSUME NEW s \in Sessions, bindSessionAndWait(s)
      PROVE  NoForeignEvent'
  <2>1. UNCHANGED events /\ startBindAttempt(BindFailed, s, FALSE) /\ client.conn # None
    BY <1>4 DEF bindSessionAndWait
  <2>2. BindFailed \in Browser /\ BindFailed.next = client.next
        /\ BindFailed.bound \in {None, client.bound} /\ BindFailed.view = client.view
    BY Failed
  <2>3. client'.bound = BindFailed.bound /\ client'.view = BindFailed.view
    BY <2>1, <2>2, Asked
  <2>4. QED
    BY <2>1, <2>2, <2>3 DEF NoForeignEvent
<1>5. ASSUME BindTimesOut
      PROVE  NoForeignEvent'
  BY <1>5, Failed DEF BindTimesOut, NoForeignEvent
<1>6. ASSUME ApplyEvent
      PROVE  NoForeignEvent'
  <2>1. UNCHANGED events /\ Receives("event") /\ Fenced(Received) /\ client.wanted = None
    BY <1>6 DEF ApplyEvent
  <2>2. Received \in SentFrame /\ Received.type = "event"
    BY <2>1, Took
  <2>3. Received.session = events[Received.id].session /\ Received.id \in Ids
    BY <1>6, <2>2, Applied DEF SentFrame
  <2>4. events[Received.id].session \in Sessions
    <3>1. events[Received.id] \in Event
      BY <2>3, ElementOfSeq DEF TypeEvents, Ids
    <3>2. QED
      BY <3>1 DEF Event
  <2>5. Received.session = client.bound
    BY <2>1, <2>3, <2>4, DeliveryAssumption DEF Fenced
  <2>6. QED
    BY <1>6, <2>1, <2>3, <2>5, Applied DEF NoForeignEvent
<1>7. ASSUME QueueEvent
      PROVE  NoForeignEvent'
  BY <1>7, Queued DEF QueueEvent, NoForeignEvent
<1>8. ASSUME QueueOverflows
      PROVE  NoForeignEvent'
  <2>1. UNCHANGED events
    BY <1>8 DEF QueueOverflows
  <2>2. CASE client.wanted \in Sessions /\ client \in Browser /\ client.conn # None
             /\ startBindAttempt(client, client.wanted, TRUE)
    <3>1. client'.bound = client.bound /\ client'.view = client.view
      BY <2>2, Asked
    <3>2. QED
      BY <2>1, <3>1 DEF NoForeignEvent
  <2>3. CASE client'.bound = None
    BY <2>3 DEF NoForeignEvent
  <2>4. QED
    BY <1>8, <2>2, <2>3, Overflown
<1>9. ASSUME handleSessionRestore
      PROVE  NoForeignEvent'
  <2>1. UNCHANGED events
    BY <1>9 DEF handleSessionRestore
  <2>2. CASE UNCHANGED client
    BY <2>1, <2>2 DEF NoForeignEvent
  <2>3. CASE client.wanted # None /\ Received.epoch = client.wanted_epoch
    <3>1. /\ client'.bound = client.wanted
          /\ client'.view = Materialized(client.wanted, Received.id)
                              \cup (Range(client.queued) \ client.seen)
      BY <1>9, <2>3, Restored
    <3>2. \A i \in Range(client.queued) : events[i].session = client.wanted
      BY DEF ClientShape, Range
    <3>3. QED
      BY <2>1, <3>1, <3>2 DEF NoForeignEvent, Materialized
  <2>4. QED
    BY <1>9, <2>2, <2>3 DEF handleSessionRestore
<1>10. ASSUME protocol_error
      PROVE  NoForeignEvent'
  BY <1>10, Failed DEF protocol_error, NoForeignEvent
<1>11. ASSUME NEW d \in Deliverers, Deliver(d)
      PROVE  NoForeignEvent'
  BY <1>11, <1>1 DEF Deliver, deliver, VisitSubscriber, SendSucceeds, SendFails, DeliverEnds
<1>12. ASSUME NEW c \in Conns, ReadSnapshot(c) \/ RejectBind(c) \/ HandleBind(c)
                               \/ disconnect(c) \/ cleanup_once(c)
      PROVE  NoForeignEvent'
  BY <1>12, <1>1 DEF HandleBind, ReadSnapshot, RejectBind, disconnect, cleanup_once, bind,
     SendRestored, replay_persisted_events, push_replay_direct, replay_pending, DeliverPending,
     BindEnds, BindUnregistered
<1>13. ASSUME Client
      PROVE  NoForeignEvent'
  BY <1>13, <1>1, <1>3, <1>4, <1>5, <1>6, <1>7, <1>8, <1>9, <1>10 DEF Client, DropFrame
<1>14. QED
  BY <1>1, <1>2, <1>11, <1>12, <1>13 DEF Next, vars

(* No step takes a durable event of the session bound next out of the view. *)
LEMMA ViewStep ==
    ASSUME TypeEvents, TypeChannel, TypeInbox, TypeClient, ClientShape, SeenShows,
           [Next]_vars
    PROVE  \A i \in client.view :
              events[i].durable /\ events[i].session = client'.bound => i \in client'.view
<1> DEFINE Keeps == \A i \in client.view :
              events[i].durable /\ events[i].session = client'.bound => i \in client'.view
<1>1. CASE client.view \subseteq client'.view
  BY <1>1
<1>2. ASSUME handleSessionRestore PROVE Keeps
  <2>1. Receives("session_restored")
    BY <1>2 DEF handleSessionRestore
  <2>2. CASE client.wanted # None /\ Received.epoch = client.wanted_epoch
    <3>1. Received \in Snapshots
      <4>1. Received.type = "session_restored" /\ Received \in Range(channel[client.conn])
        BY <2>1, Took
      <4>2. QED
        BY <2>2, <4>1 DEF Snapshots, ClientShape
    <3>2. client.view \subseteq 1..Received.id
      BY <2>2, <3>1 DEF SeenShows, Known, Live
    <3>3. /\ client'.bound = client.wanted
          /\ Materialized(client.wanted, Received.id) \subseteq client'.view
      BY <1>2, <2>2, Restored
    <3>4. QED
      BY <3>2, <3>3 DEF Materialized
  <2>3. CASE UNCHANGED client
    BY <1>1, <2>3
  <2>4. QED
    BY <1>2, <2>2, <2>3 DEF handleSessionRestore
<1>3. ASSUME NEW c \in Conns, Connect(c) PROVE Keeps
  BY <1>1, <1>3, Moved
<1>4. ASSUME NEW s \in Sessions, bindSessionAndWait(s) PROVE Keeps
  <2>1. startBindAttempt(BindFailed, s, FALSE) /\ client.conn # None
    BY <1>4 DEF bindSessionAndWait
  <2>2. BindFailed \in Browser /\ BindFailed.next = client.next /\ BindFailed.view = client.view
    BY Failed
  <2>3. client'.view = BindFailed.view
    BY <2>1, <2>2, Asked
  <2>4. QED
    BY <1>1, <2>2, <2>3
<1>5. ASSUME BindTimesOut \/ protocol_error PROVE Keeps
  BY <1>1, <1>5, Failed DEF BindTimesOut, protocol_error
<1>6. ASSUME ApplyEvent PROVE Keeps
  BY <1>1, <1>6, Applied
<1>7. ASSUME QueueEvent PROVE Keeps
  BY <1>1, <1>7, Queued
<1>8. ASSUME QueueOverflows PROVE Keeps
  <2>1. CASE client.wanted \in Sessions /\ client \in Browser /\ client.conn # None
             /\ startBindAttempt(client, client.wanted, TRUE)
    BY <1>1, <2>1, Asked
  <2>2. CASE client'.view = client.view
    BY <1>1, <2>2
  <2>3. QED
    BY <1>8, <2>1, <2>2, Overflown
<1>9. ASSUME UNCHANGED <<client>> PROVE Keeps
  BY <1>1, <1>9
<1> HIDE DEF Keeps
<1>10. ASSUME NEW d \in Deliverers, Deliver(d) PROVE Keeps
  <2>1. CASE deliver(d)
    BY <1>9, <2>1 DEF deliver
  <2>2. ASSUME NEW c \in Conns, VisitSubscriber(d, c) PROVE Keeps
    BY <1>9, <2>2 DEF VisitSubscriber
  <2>3. CASE SendSucceeds(d) \/ SendFails(d)
    BY <1>9, <2>3 DEF SendSucceeds, SendFails
  <2>4. CASE DeliverEnds(d)
    BY <1>9, <2>4 DEF DeliverEnds
  <2>5. QED
    BY <1>10, <2>1, <2>2, <2>3, <2>4 DEF Deliver
<1>11. ASSUME NEW c \in Conns, ReadSnapshot(c) \/ RejectBind(c) \/ HandleBind(c)
                               \/ disconnect(c) \/ cleanup_once(c)
       PROVE  Keeps
  BY <1>9, <1>11 DEF HandleBind, ReadSnapshot, RejectBind, disconnect, cleanup_once, bind,
     SendRestored, replay_persisted_events, push_replay_direct, replay_pending, DeliverPending,
     BindEnds, BindUnregistered
<1>12. ASSUME Client PROVE Keeps
  BY <1>2, <1>3, <1>4, <1>5, <1>6, <1>7, <1>8, <1>9, <1>12 DEF Client, DropFrame
<1>13. Keeps
  BY <1>9, <1>10, <1>11, <1>12 DEF Next, vars, push_runtime_event
<1>14. QED
  BY <1>13 DEF Keeps

(* The cache with one more event, before the limit of all sessions is *)
(* looked at. *)
Grown(s, i) ==
    [pending EXCEPT ![s] = Append(IF Len(@) >= PendingCapacity THEN Tail(@) ELSE @, i)]

(* Whoever is busy finds what its next step needs.  A push that has somebody *)
(* to cache for finds a queue that gives way, a bind handler that is read *)
(* for a live connection is newer than its binding, and a replay has a first *)
(* row.  The other guards of their steps come in complementary pairs. *)
StepFound ==
    /\ \A d \in Deliverers : job[d].pc # "idle" =>
          LET s == events[job[d].id].session IN Victim(s, Grown(s, job[d].id)) # {}
    /\ \A c \in Conns :
          /\ handler[c].pc = "read" /\ conn[c].registered => conn[c].epoch < handler[c].epoch
          /\ handler[c].rows # {} => \E i \in handler[c].rows : \A j \in handler[c].rows : i <= j

(* Some queue is the longest, since none is longer than its limit and one. *)
LEMMA SomeVictim ==
    ASSUME TypePending, PendingBounded, NEW s \in Sessions, NEW i \in Ids
    PROVE  Victim(s, Grown(s, i)) # {}
<1> DEFINE q == IF Len(pending[s]) >= PendingCapacity THEN Tail(pending[s]) ELSE pending[s]
           grown == Grown(s, i)
           others == {v \in Sessions \ {s} : grown[v] # <<>>}
           lengths == {Len(grown[v]) : v \in others}
<1>1. grown = [pending EXCEPT ![s] = Append(q, i)]
  BY DEF Grown
<1>2. \A v \in Sessions \ {s} :
          grown[v] = pending[v] /\ Len(grown[v]) \in 0..PendingCapacity
  BY <1>1, LenProperties, DeliveryAssumption DEF TypePending, PendingBounded
<1>3. CASE others = {}
  BY <1>3 DEF Victim
<1>4. CASE others # {}
  <2> HIDE DEF grown
  <2>1. lengths \in SUBSET (0..PendingCapacity) /\ lengths # {}
    BY <1>2, <1>4
  <2>2. PICK n \in lengths : \A m \in lengths : m <= n
    BY <2>1, Greatest, DeliveryAssumption
  <2>3. PICK v \in others : Len(grown[v]) = n
    BY <2>2
  <2>4. \A w \in others : Len(grown[w]) <= Len(grown[v])
    BY <2>2, <2>3
  <2>5. v \in Victim(s, grown)
    BY <1>4, <2>3, <2>4 DEF Victim
  <2>6. QED
    BY <2>5 DEF grown
<1>5. QED
  BY <1>3, <1>4

(* The rows of a replay have a first one. *)
LEMMA Least ==
    ASSUME NEW n \in Nat, NEW S \in SUBSET (1..n), S # {}
    PROVE  \E i \in S : \A j \in S : i <= j
<1> DEFINE T == {n - i : i \in S}
<1>1. T \in SUBSET (0..n) /\ T # {}
  <2>1. \A i \in S : n - i \in 0..n
    OBVIOUS
  <2>2. QED
    BY <2>1
<1>2. PICK m \in T : \A k \in T : k <= m
  BY <1>1, Greatest
<1>3. PICK i \in S : m = n - i
  BY <1>2
<1>4. \A j \in S : n - j <= n - i
  BY <1>2, <1>3
<1>5. QED
  BY <1>3, <1>4

----------------------------------------------------------------------------

(* Before anybody connects, one event is cached and nobody is owed any. *)
LEMMA InitInv == Init => IInv
<1>1. SUFFICES ASSUME Init PROVE IInv
  OBVIOUS
<1>2. PICK s \in Sessions :
          /\ events = <<[session |-> s, critical |-> TRUE, durable |-> TRUE]>>
          /\ pending = [t \in Sessions |-> IF t = s THEN <<1>> ELSE <<>>]
  BY <1>1 DEF Init
<1>3. /\ TypeEvents /\ Len(events) = 1 /\ Ids = {1}
  <2> DEFINE e == [session |-> s, critical |-> TRUE, durable |-> TRUE]
  <2>1. e \in Event
    BY DEF Event
  <2> HIDE DEF e
  <2>2. <<e>> \in Seq(Event) /\ Len(<<e>>) = 1
    BY <2>1
  <2>3. events = <<e>>
    BY <1>2 DEF e
  <2>4. QED
    BY <2>2, <2>3, DeliveryAssumption DEF TypeEvents, Ids
<1>4. TypePending
  <2>1. 1 \in Ids /\ <<1>> \in Seq(Ids) /\ <<>> \in Seq(Ids)
    BY <1>3
  <2>2. QED
    BY <1>2, <2>1 DEF TypePending
<1>5. TypeHub /\ TypeChannel /\ TypeInbox /\ TypeHandler /\ TypeJob
  <2>1. TypeHub
    BY <1>1, DeliveryAssumption DEF Init, TypeHub, Connection, Fresh
  <2>2. TypeChannel /\ TypeInbox
    BY <1>1 DEF Init, TypeChannel, TypeInbox
  <2>3. TypeHandler /\ TypeJob
    BY <1>1, <1>3, Basics DEF Init, TypeHandler, TypeJob
  <2>4. QED
    BY <2>1, <2>2, <2>3
<1>6. TypeClient
  BY <1>1, DeliveryAssumption DEF Init, TypeClient, Browser
<1>7. ConnShape /\ NewShape /\ HandlerShape /\ JobShape
  BY <1>1 DEF Init, ConnShape, NewShape, HandlerShape, JobShape, Fresh, Idle, NoJob
<1>8. ClientShape
  BY <1>1, DeliveryAssumption DEF Init, ClientShape
<1>9. EpochBound /\ EpochOrder
  <2>1. Range(<<>>) = {} /\ Ascending(<<>>)
    BY DEF Range, Ascending
  <2>2. QED
    BY <1>1, <2>1 DEF Init, EpochBound, EpochOrder, Fresh, Idle, NoJob
<1>10. ~ Live
  BY <1>1 DEF Init, Live
<1>11. SameSession /\ SnapshotOrder /\ SeenShows /\ Kept
  BY <1>10 DEF SameSession, SnapshotOrder, SeenShows, Kept, Served
<1>12. NoForeignEvent
  BY <1>1 DEF Init, NoForeignEvent
<1>13. CacheBounded
  <2>1. Cached = {<<s, 1>>}
    BY <1>2 DEF Cached
  <2>2. IsFiniteSet(Cached) /\ Cardinality(Cached) = 1
    BY <2>1, FS_Singleton
  <2>3. \A t \in Sessions : Len(pending[t]) <= 1
    BY <1>2
  <2>4. QED
    BY <2>2, <2>3, DeliveryAssumption DEF CacheBounded, PendingBounded
<1>14. QED
  BY <1>3, <1>4, <1>5, <1>6, <1>7, <1>8, <1>9, <1>11, <1>12, <1>13 DEF IInv, Types, Shapes

(* Every step keeps it. *)
LEMMA InvStep == IInv /\ [Next]_vars => IInv'
<1>1. SUFFICES ASSUME IInv, [Next]_vars PROVE IInv'
  OBVIOUS
<1>2. Types'
  BY <1>1, EventsStep, PendingStep, HubStep, ChannelStep, InboxStep, HandlerStep, JobStep,
     ClientStep DEF IInv, Types, Shapes
<1>3. Shapes'
  BY <1>1, ConnStep, NewStep, BinderStep, CallStep, BrowserStep DEF IInv, Types, Shapes
<1>4. EpochBound' /\ EpochOrder' /\ SameSession'
  BY <1>1, BoundStep, OrderStep, SessionStep DEF IInv, Types, Shapes
<1>5. SnapshotOrder' /\ SeenShows' /\ Kept'
  BY <1>1, SnapshotStep, SeenStep, KeptStep DEF IInv, Types, Shapes
<1>6. NoForeignEvent' /\ CacheBounded'
  BY <1>1, ForeignStep, BoundedStep DEF IInv, Types, Shapes
<1>7. QED
  BY <1>2, <1>3, <1>4, <1>5, <1>6 DEF IInv

(* It holds in every reachable state. *)
LEMMA Invariance == Spec => []IInv
  BY InitInv, InvStep, PTL DEF Spec

----------------------------------------------------------------------------

(* The rows, the hub, the frames and the client keep their types. *)
THEOREM TypeCorrect == Spec => []TypeOK
<1>1. ASSUME IInv PROVE TypeOK
  <2>1. Types /\ Len(events) \in Nat /\ MaxEvents \in Nat /\ Len(events) <= MaxEvents
    BY <1>1, LenProperties, DeliveryAssumption DEF IInv, Types, TypeEvents
  <2>2. Ids \subseteq 1..MaxEvents /\ 0..Len(events) \subseteq 0..MaxEvents
    BY <2>1 DEF Ids
  <2>3. \A q \in Seq(Ids) : q \in Seq(1..MaxEvents)
    BY <2>2, SeqMonotonic
  <2>4. \A q \in Seq(SentFrame) : q \in Seq(Frame)
    BY SeqMonotonic DEF SentFrame
  <2>5. pending \in [Sessions -> Seq(1..MaxEvents)]
    BY <2>1, <2>3 DEF Types, TypePending
  <2>6. channel \in [Conns -> Seq(Frame)]
    BY <2>1, <2>4 DEF Types, TypeChannel
  <2>7. handler \in [Conns -> [pc : {"idle", "read", "restore", "query", "replay", "pending"},
                               session : Sessions \cup {None}, epoch : 0..MaxBinds,
                               cover : 0..MaxEvents, cursor : 0..MaxEvents,
                               rows : SUBSET (1..MaxEvents), todo : Seq(1..MaxEvents),
                               stopped : BOOLEAN]]
    BY <2>1, <2>2, <2>3 DEF Types, TypeHandler, Handler
  <2>8. job \in [Deliverers -> [pc : {"idle", "scan", "visit", "send"}, id : 0..MaxEvents,
                                todo : SUBSET Conns, target : Conns \cup {None},
                                epoch : 0..MaxBinds, need : BOOLEAN]]
    BY <2>1, <2>2 DEF Types, TypeJob, Job
  <2>9. client \in [conn : Conns \cup {None}, next : 0..MaxBinds,
                    wanted : Sessions \cup {None}, wanted_epoch : 0..MaxBinds,
                    rebound : BOOLEAN, queued : Seq(1..MaxEvents),
                    bound : Sessions \cup {None}, epoch : 0..MaxBinds,
                    seen : SUBSET (1..MaxEvents), view : SUBSET (1..MaxEvents)]
    BY <2>1, <2>2, <2>3 DEF Types, TypeClient, Browser
  <2>10. QED
    BY <2>1, <2>5, <2>6, <2>7, <2>8, <2>9
    DEF TypeOK, Types, TypeEvents, TypeHub, Connection, TypeInbox, Request
<1>2. QED
  BY <1>1, Invariance, PTL

(* The view never shows an event of another session than the client is *)
(* bound to, although deliver sends to a subscriber without asking what it *)
(* has been bound to since it was scanned, and the client's fence looks at *)
(* one frame at a time. *)
THEOREM EventsStayHome == Spec => []NoForeignEvent
  BY Invariance, PTL DEF IInv

(* The cache of undelivered events stays within the limit of one session *)
(* and that of the process, for any number of sessions. *)
THEOREM CacheStaysSmall == Spec => []PendingBounded
  BY Invariance, PTL DEF IInv, CacheBounded

(* A client that is bound as it last asked, with nothing under way, shows *)
(* every critical durable event of its session: whatever interleaving of *)
(* pushes, binds, replays, evictions and reconnections led there. *)
THEOREM NoEventIsLost == Spec => []NothingMissed
<1>1. ASSUME IInv PROVE NothingMissed
  <2>1. SUFFICES ASSUME NEW c \in Conns, Settled(c), ~ handler[c].stopped,
                        NEW i \in Materialized(client.bound, Len(events)), events[i].critical
                 PROVE  i \in client.view
    BY DEF NothingMissed
  <2>2. Live /\ Goal = client.bound /\ c = client.conn
    BY <2>1 DEF Settled, Live, Goal
  <2>3. Served
    BY <2>1, <2>2 DEF Settled, Served
  <2>4. i \in Due
    BY <2>1, <2>2 DEF Due
  <2>5. i \notin Replaying
    BY <2>1, <2>2 DEF Settled, Replaying
  <2>6. i \notin Coming
    BY <2>1, <2>2 DEF Settled, Coming, Materialized
  <2>7. i \in Have
    BY <1>1, <2>3, <2>4, <2>5, <2>6 DEF IInv, Kept
  <2>8. Range(channel[client.conn]) = {}
    BY <2>1, <2>2 DEF Settled, Range
  <2>9. QED
    BY <2>1, <2>7, <2>8 DEF Settled, Have
<1>2. QED
  BY <1>1, Invariance, PTL

(* A durable event that the client shows leaves its view only when it is *)
(* bound to another session: the snapshot that replaces the view is that of *)
(* the last attempt, which was read after the client had asked for it. *)
THEOREM ViewsAreKept == Spec => ViewKept
<1>1. IInv /\ [Next]_vars => \A i \in client.view :
          events[i].durable /\ events[i].session = client'.bound => i \in client'.view
  BY ViewStep DEF IInv, Types, Shapes
<1>2. QED
  BY <1>1, Invariance, PTL DEF Spec, ViewKept

(* No push and no bind handler ever looks in vain for what its next step *)
(* needs: the cache always has a queue that gives way, however many sessions *)
(* there are; the server never meets a bind attempt older than the binding, *)
(* which it would have to refuse; and a replay always has a first row. *)
THEOREM StepsAreFound == Spec => []StepFound
<1>1. ASSUME IInv PROVE StepFound
  <2> USE <1>1 DEF IInv, Types, Shapes
  <2>1. ASSUME NEW d \in Deliverers, job[d].pc # "idle"
        PROVE  LET s == events[job[d].id].session IN Victim(s, Grown(s, job[d].id)) # {}
    <3>1. job[d].id \in Ids
      BY <2>1, JobEvent
    <3>2. QED
      BY <2>1, <3>1, JobEvent, SomeVictim DEF CacheBounded
  <2>2. ASSUME NEW c \in Conns
        PROVE  /\ handler[c].pc = "read" => conn[c].epoch < handler[c].epoch
               /\ handler[c].rows # {} =>
                     \E i \in handler[c].rows : \A j \in handler[c].rows : i <= j
    <3>1. handler[c].pc = "read" => conn[c].epoch < handler[c].epoch
      BY DEF EpochOrder
    <3>2. handler[c].rows \in SUBSET (1..Len(events)) /\ Len(events) \in Nat
      BY LenProperties DEF TypeHandler, Handler, TypeEvents, Ids
    <3>3. QED
      BY <3>1, <3>2, Least
  <2>3. QED
    BY <2>1, <2>2 DEF StepFound
<1>2. QED
  BY <1>1, Invariance, PTL

================================================================================
