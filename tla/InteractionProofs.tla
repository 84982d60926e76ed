--------------------------- MODULE InteractionProofs ---------------------------
(***************************************************************************)
(* The request protocol of module Interaction for any number of callers,    *)
(* requests and Runs, every capacity and every interleaving.                *)
(*                                                                          *)
(* The properties are inductive together with two facts the code relies on  *)
(* silently: whatever owes, has lost or never had a permit belongs to a     *)
(* request that has got that far (RowShape), and a receiver exists only     *)
(* between a registration and a return (CallerShape).  Permits are counted  *)
(* as elements of finite sets, so that a step that moves a permit from one  *)
(* holder to another moves an element between two of them.                  *)
(*                                                                          *)
(* The same invariant shows, step by step, that the service implements      *)
(* module InteractionContract (ServiceImplementsContract).                  *)
(***************************************************************************)
EXTENDS Interaction, FiniteSetTheorems, TLAPS

(* What is owed, lost or unbacked belongs to a request that has got that far. *)
RowShape ==
    \A i \in Ids :
        /\ closer[i] # "none" => status[i] \in Terminal /\ i \notin leaked
        /\ i \in leaked => status[i] \in Terminal
        /\ i \in unbacked => status[i] # "absent"
        /\ status[i] = "pending" => run[RunOf[i]] # "absent"

(* A caller has a receiver only between its registration and its return, and   *)
(* returns with a status that ends a request or with none.                     *)
CallerShape ==
    \A w \in Callers : /\ caller[w].rx # "none" => caller[w].pc \in {"registered", "parked", "done"}
                       /\ caller[w].pc = "done" => caller[w].rx \in {"none"} \cup Terminal

(* The initial value of a caller has the type of one. *)
LEMMA NoCallerType ==
    /\ NoCaller \in [pc : Points, id : Ids, rx : Receivers]
    /\ Done \in [pc : Points, id : Ids, rx : Receivers]
    /\ NoCaller.rx = "none" /\ Done.rx = "none" /\ NoCaller.pc = "idle" /\ Done.pc = "done"
<1>1. (CHOOSE i \in Ids : TRUE) \in Ids
  BY InteractionConstants
<1>2. QED
  BY <1>1 DEF NoCaller, Done, Points, Receivers

(* Who is told a status is done and holds it; nobody else is touched. *)
LEMMA TellsOne ==
    ASSUME TypeOK, NEW w \in Callers, NEW s \in Terminal, Tells(w, s)
    PROVE  /\ caller' \in [Callers -> [pc : Points, id : Ids, rx : Receivers]]
           /\ caller'[w] = [pc |-> "done", id |-> caller[w].id, rx |-> s]
           /\ \A v \in Callers \ {w} : caller'[v] = caller[v]
<1>1. s \in Receivers /\ "done" \in Points
  BY DEF Receivers, Points
<1>2. caller' = [caller EXCEPT ![w] = [pc |-> "done", id |-> caller[w].id, rx |-> s]]
  BY DEF Tells, TypeOK
<1>3. QED
  BY <1>1, <1>2 DEF TypeOK

(* The types are kept.  That a restart leaves no fewer than no permit needs    *)
(* the rows: every pending request belongs to a Run that has started.          *)
LEMMA TypeStep ==
    ASSUME TypeOK, RowShape, [Next]_vars
    PROVE  TypeOK'
<1> USE InteractionConstants, NoCallerType
<1>1. ASSUME UNCHANGED vars PROVE TypeOK'
  BY <1>1
  DEF vars, rowVars, histVars, TypeOK, RunStatus, Terminal, UserTerminal, Expiries, Closers,
      Points, Receivers
<1>2. ASSUME NEW w \in Callers, NEW i \in Ids, AcquirePermit(w, i) PROVE TypeOK'
  <2>1. caller' \in [Callers -> [pc : Points, id : Ids, rx : Receivers]]
    BY <1>2 DEF AcquirePermit, TypeOK, Points
  <2>2. QED
    BY <1>2, <2>1
    DEF AcquirePermit, TypeOK, RunStatus, Terminal, UserTerminal, Expiries, Closers, Points,
        Receivers, At, rowVars, histVars
<1>3. ASSUME NEW w \in Callers, NEW i \in Ids, CapacityExceeded(w, i) PROVE TypeOK'
  BY <1>3
  DEF CapacityExceeded, Requested, TypeOK, RunStatus, Terminal, UserTerminal, Expiries, Closers,
      Points, Receivers, At, rowVars, histVars
<1>4. ASSUME NEW w \in Callers, CreateCommits(w) PROVE TypeOK'
  BY <1>4
  DEF CreateCommits, Insert, ensure_run_waiting, TypeOK, RunStatus, Terminal, UserTerminal,
      Expiries, Closers, Points, Receivers, Goes, At, histVars
<1>5. ASSUME NEW w \in Callers, CreateJoins(w) PROVE TypeOK'
  BY <1>5
  DEF CreateJoins, TypeOK, RunStatus, Terminal, UserTerminal, Expiries, Closers, Points,
      Receivers, Goes, At, rowVars, histVars
<1>6. ASSUME NEW w \in Callers, CreateRefused(w) PROVE TypeOK'
  BY <1>6
  DEF CreateRefused, TypeOK, RunStatus, Terminal, UserTerminal, Expiries, Closers, Points,
      Receivers, Returns, At, Stopped, rowVars, histVars
<1>6a. ASSUME NEW w \in Callers, CreatedUnread(w) PROVE TypeOK'
  BY <1>6a
  DEF CreatedUnread, Insert, ensure_run_waiting, TypeOK, RunStatus, Terminal, UserTerminal,
      Expiries, Closers, Points, Receivers, Returns, Fails, At
<1>6b. ASSUME NEW w \in Callers, CreateFails(w) \/ AwaitFails(w) PROVE TypeOK'
  BY <1>6b
  DEF CreateFails, AwaitFails, TypeOK, RunStatus, Terminal, UserTerminal, Expiries, Closers,
      Points, Receivers, Returns, Fails, At, rowVars
<1>7. ASSUME NEW w \in Callers, DropCaller(w) PROVE TypeOK'
  BY <1>7
  DEF DropCaller, TypeOK, RunStatus, Terminal, UserTerminal, Expiries, Closers, Points,
      Receivers, Returns, At, Stopped, rowVars, histVars
<1>8. ASSUME NEW w \in Callers, FirstRead(w) PROVE TypeOK'
  BY <1>8
  DEF FirstRead, Tells, TypeOK, RunStatus, Terminal, UserTerminal, Expiries, Closers, Points,
      Receivers, Goes, Returns, At, rowVars, histVars
<1>9. ASSUME NEW w \in Callers, register_wakeup(w) PROVE TypeOK'
  <2>1. caller' \in [Callers -> [pc : Points, id : Ids, rx : Receivers]]
    BY <1>9 DEF register_wakeup, TypeOK, Points, Receivers
  <2>2. QED
    BY <1>9, <2>1
    DEF register_wakeup, TypeOK, RunStatus, Terminal, UserTerminal, Expiries, Closers, Points,
        Receivers, At, rowVars, histVars
<1>10. ASSUME NEW w \in Callers, SecondRead(w) PROVE TypeOK'
  <2>1. caller' \in [Callers -> [pc : Points, id : Ids, rx : Receivers]]
    BY <1>10
    DEF SecondRead, TypeOK, Points, Receivers, Goes, Terminal, UserTerminal, Expiries
  <2>2. QED
    BY <1>10, <2>1
    DEF SecondRead, CallersOf, TypeOK, RunStatus, Terminal, UserTerminal, Expiries, Closers,
        Points, Receivers, Goes, At, rowVars, histVars
<1>11. ASSUME NEW w \in Callers, Woken(w) PROVE TypeOK'
  <2>1. caller' \in [Callers -> [pc : Points, id : Ids, rx : Receivers]]
    BY <1>11, TellsOne DEF Woken
  <2>2. QED
    BY <1>11, <2>1
    DEF Woken, TypeOK, RunStatus, Terminal, UserTerminal, Expiries, Closers, rowVars, histVars
<1>12. ASSUME NEW w \in Callers, RereadOnTimer(w) PROVE TypeOK'
  <2>1. caller' \in [Callers -> [pc : Points, id : Ids, rx : Receivers]]
    BY <1>12, TellsOne DEF RereadOnTimer
  <2>2. QED
    BY <1>12, <2>1
    DEF RereadOnTimer, TypeOK, RunStatus, Terminal, UserTerminal, Expiries, Closers, rowVars, histVars
<1>13. ASSUME NEW i \in Ids, Delivered(i) PROVE TypeOK'
  BY <1>13
  DEF Delivered, Deliverable, TypeOK, RunStatus, Terminal, UserTerminal, Expiries, Closers,
      Points, Receivers, histVars
<1>14. ASSUME NEW i \in Ids, NEW g \in 1 .. MaxGeneration, acknowledge_received(i, g)
       PROVE  TypeOK'
  BY <1>14
  DEF acknowledge_received, TypeOK, RunStatus, Terminal, UserTerminal, Expiries, Closers,
      Points, Receivers, histVars
<1>15. ASSUME NEW i \in Ids, NEW g \in 0 .. MaxGeneration, NEW d \in Decisions, decide_request(i, g, d)
       PROVE  TypeOK'
  BY <1>15
  DEF decide_request, TypeOK, RunStatus, Terminal, UserTerminal, Expiries, Closers, Points,
      Receivers, histVars
<1>16. ASSUME NEW i \in Ids, TimePasses(i) PROVE TypeOK'
  <2>1. clock' \in [Ids -> {"open", "edge", "past"}]
    BY <1>16 DEF TimePasses, TypeOK
  <2>2. QED
    BY <1>16, <2>1 DEF TimePasses, TypeOK, histVars
<1>17. ASSUME NEW i \in Ids, ReadDue(i) PROVE TypeOK'
  BY <1>17
  DEF ReadDue, DeadlineReached, TypeOK, RunStatus, Terminal, UserTerminal, Expiries, Closers,
      Points, Receivers, rowVars, histVars
<1>18. ASSUME NEW i \in Ids, NEW s \in Expiries, expire(i, s) PROVE TypeOK'
  <2>1. status' \in [Ids -> {"absent", "pending"} \cup Terminal]
    BY <1>18 DEF expire, TypeOK, Terminal
  <2>2. clock' \in [Ids -> {"open", "edge", "past"}] /\ closer' \in [Ids -> Closers]
    BY <1>18 DEF expire, TypeOK, Closers
  <2>3. QED
    BY <1>18, <2>1, <2>2 DEF expire, TypeOK, histVars
<1>19. ASSUME NEW i \in Ids, finish(i) PROVE TypeOK'
  <2>1. caller' \in [Callers -> [pc : Points, id : Ids, rx : Receivers]]
    BY <1>19 DEF finish, TypeOK, Receivers, RowShape
  <2>2. QED
    BY <1>19, <2>1
    DEF finish, Requested, CallersOf, TypeOK, RunStatus, Terminal, UserTerminal, Expiries,
        Closers, Points, Receivers, rowVars, histVars
<1>20. ASSUME NEW i \in Ids, FinisherLost(i) PROVE TypeOK'
  BY <1>20
  DEF FinisherLost, Fails, TypeOK, RunStatus, Terminal, UserTerminal, Expiries, Closers, Points,
      Receivers, rowVars
<1>21. ASSUME NEW i \in Ids, DetachedCreate(i) PROVE TypeOK'
  <2>1. run' \in [Runs -> RunStatus] /\ status' \in [Ids -> {"absent", "pending"} \cup Terminal]
    BY <1>21 DEF DetachedCreate, Insert, ensure_run_waiting, TypeOK, RunStatus, rowVars
  <2>2. QED
    BY <1>21, <2>1
    DEF DetachedCreate, Insert, ensure_run_waiting, TypeOK, RunStatus, Terminal, UserTerminal,
        Expiries, Closers, Points, Receivers, Stopped, rowVars
<1>22. ASSUME NEW r \in Runs, StartRun(r) PROVE TypeOK'
  BY <1>22
  DEF StartRun, TypeOK, RunStatus, Terminal, UserTerminal, Expiries, Closers, Points, Receivers,
      rowVars, histVars
<1>23. ASSUME NEW r \in Runs, RequestStop(r) PROVE TypeOK'
  BY <1>23
  DEF RequestStop, Requested, TypeOK, RunStatus, Terminal, UserTerminal, Expiries, Closers,
      Points, Receivers, rowVars, histVars
<1>24. ASSUME NEW r \in Runs, CancelRun(r) PROVE TypeOK'
  BY <1>24
  DEF CancelRun, TypeOK, RunStatus, Terminal, UserTerminal, Expiries, Closers, Points,
      Receivers, rowVars, histVars
<1>25. ASSUME NEW r \in Runs, RunEnds(r) PROVE TypeOK'
  BY <1>25
  DEF RunEnds, TypeOK, RunStatus, Terminal, UserTerminal, Expiries, Closers, Points, Receivers,
      rowVars, histVars
<1>26. ASSUME NEW r \in Runs, complete_runtime_cancellation(r) PROVE TypeOK'
  BY <1>26
  DEF complete_runtime_cancellation, TypeOK, RunStatus, Terminal, UserTerminal, Expiries,
      Closers, Points, Receivers, Stopped, histVars
<1>26a. ASSUME NEW r \in Runs, CancellationInvalid(r) PROVE TypeOK'
  BY <1>26a
  DEF CancellationInvalid, TypeOK, RunStatus, Terminal, UserTerminal, Expiries, Closers, Points,
      Receivers, rowVars, histVars
<1>27. ASSUME reconcile_capacity_after_restart PROVE TypeOK'
  <2>1. DEFINE ended == {r \in Runs : run[r] # "absent"}
               orphans == {i \in Pending : RunOf[i] \in ended}
  <2>2. Pending \ orphans = {}
    BY DEF RowShape, Pending
  <2>3. permits' = Capacity
    <3>1. permits' = Capacity - Cardinality(Pending \ orphans)
      BY <1>27 DEF reconcile_capacity_after_restart
    <3>2. Cardinality(Pending \ orphans) = 0 /\ Capacity \in Nat
      BY <2>2, FS_EmptySet
    <3>3. QED
      BY <3>1, <3>2
  <2>4. run' \in [Runs -> RunStatus]
    BY <1>27 DEF reconcile_capacity_after_restart, TypeOK, RunStatus
  <2>5. status' \in [Ids -> {"absent", "pending"} \cup Terminal]
    BY <1>27 DEF reconcile_capacity_after_restart, TypeOK, Terminal, UserTerminal
  <2>6. caller' \in [Callers -> [pc : Points, id : Ids, rx : Receivers]]
    BY <1>27 DEF reconcile_capacity_after_restart
  <2>7. QED
    BY <1>27, <2>3, <2>4, <2>5, <2>6 DEF reconcile_capacity_after_restart, TypeOK, Closers
<1>28. QED
  BY <1>1, <1>2, <1>3, <1>4, <1>5, <1>6, <1>6a, <1>6b, <1>26a, <1>7, <1>8, <1>9, <1>10, <1>11, <1>12, <1>13, <1>14,
     <1>15, <1>16, <1>17, <1>18, <1>19, <1>20, <1>21, <1>22, <1>23, <1>24, <1>25, <1>26, <1>27
  DEF Next, CallerStep, ClientStep, ServiceStep, RunStep, mark_dispatched, claim_redelivery,
      prepare_recovery_delivery, vars, rowVars, histVars

(* Nothing owes a finish to a request that has not ended. *)
LEMMA RowShapeStep ==
    ASSUME TypeOK, RowShape, [Next]_vars
    PROVE  RowShape'
<1> USE InteractionConstants, NoCallerType
<1>1. ASSUME UNCHANGED <<run, status, closer, leaked, unbacked>> PROVE RowShape'
  BY <1>1 DEF RowShape, TypeOK, Terminal, UserTerminal, Expiries
<1>2. ASSUME NEW w \in Callers, CreateCommits(w) PROVE RowShape'
  BY <1>2
  DEF CreateCommits, Insert, ensure_run_waiting, RowShape, TypeOK, Terminal, UserTerminal,
      Expiries, histVars
<1>2a. ASSUME NEW w \in Callers, CreatedUnread(w) PROVE RowShape'
  BY <1>2a
  DEF CreatedUnread, Insert, ensure_run_waiting, RowShape, TypeOK, Terminal, UserTerminal,
      Expiries
<1>3. ASSUME NEW i \in Ids, NEW g \in 0 .. MaxGeneration, NEW d \in Decisions, decide_request(i, g, d)
      PROVE  RowShape'
  BY <1>3
  DEF decide_request, RowShape, TypeOK, Pending, PendingOf, Terminal, UserTerminal, Expiries,
      histVars
<1>4. ASSUME NEW i \in Ids, NEW s \in Expiries, expire(i, s) PROVE RowShape'
  BY <1>4
  DEF expire, StillDue, DeadlineReached, RowShape, TypeOK, Terminal, UserTerminal, Expiries,
      histVars
<1>5. ASSUME NEW i \in Ids, finish(i) PROVE RowShape'
  BY <1>5
  DEF finish, Requested, CallersOf, RowShape, TypeOK, Terminal, UserTerminal, Expiries, rowVars,
      histVars
<1>6. ASSUME NEW i \in Ids, FinisherLost(i) PROVE RowShape'
  BY <1>6 DEF FinisherLost, RowShape, TypeOK, Terminal, UserTerminal, Expiries, rowVars
<1>7. ASSUME NEW i \in Ids, DetachedCreate(i) PROVE RowShape'
  BY <1>7
  DEF DetachedCreate, Insert, ensure_run_waiting, RowShape, TypeOK, Terminal, UserTerminal,
      Expiries, Stopped, rowVars
<1>8. ASSUME NEW r \in Runs, StartRun(r) PROVE RowShape'
  BY <1>8 DEF StartRun, RowShape, TypeOK, Terminal, UserTerminal, Expiries, rowVars, histVars
<1>9. ASSUME NEW r \in Runs, CancelRun(r) PROVE RowShape'
  BY <1>9 DEF CancelRun, RowShape, TypeOK, Terminal, UserTerminal, Expiries, rowVars, histVars
<1>10. ASSUME NEW r \in Runs, RunEnds(r) PROVE RowShape'
  BY <1>10 DEF RunEnds, RowShape, TypeOK, Terminal, UserTerminal, Expiries, rowVars, histVars
<1>11. ASSUME NEW r \in Runs, complete_runtime_cancellation(r) PROVE RowShape'
  BY <1>11
  DEF complete_runtime_cancellation, RowShape, TypeOK, Pending, PendingOf, Terminal,
      UserTerminal, Expiries, Stopped, histVars
<1>12. ASSUME reconcile_capacity_after_restart PROVE RowShape'
  BY <1>12
  DEF reconcile_capacity_after_restart, RowShape, TypeOK, Pending, Terminal, UserTerminal,
      Expiries
<1>13. QED
  BY <1>1, <1>2, <1>2a, <1>3, <1>4, <1>5, <1>6, <1>7, <1>8, <1>9, <1>10, <1>11, <1>12
  DEF Next, CallerStep, ClientStep, ServiceStep, RunStep, mark_dispatched, claim_redelivery,
      prepare_recovery_delivery, vars, rowVars, histVars, AcquirePermit, CapacityExceeded,
      CreateJoins, CreateRefused, DropCaller, FirstRead, register_wakeup, SecondRead, Woken,
      RereadOnTimer, Delivered, acknowledge_received, TimePasses, ReadDue, RequestStop, CreateFails,
      AwaitFails, CancellationInvalid

(* Only a registered or parked caller has a receiver, only a done one was told. *)
LEMMA CallerShapeStep ==
    ASSUME TypeOK, CallerShape, [Next]_vars
    PROVE  CallerShape'
<1> USE InteractionConstants, NoCallerType
<1>1. ASSUME UNCHANGED <<caller>> PROVE CallerShape'
  BY <1>1 DEF CallerShape, TypeOK, Points, Receivers, Terminal, UserTerminal, Expiries
<1>2. ASSUME NEW w \in Callers, NEW i \in Ids, AcquirePermit(w, i) PROVE CallerShape'
  BY <1>2
  DEF AcquirePermit, CallerShape, TypeOK, Points, Receivers, Terminal, UserTerminal, Expiries,
      At, rowVars, histVars
<1>3. ASSUME NEW w \in Callers, CreateCommits(w) PROVE CallerShape'
  BY <1>3
  DEF CreateCommits, Insert, ensure_run_waiting, CallerShape, TypeOK, Points, Receivers,
      Terminal, UserTerminal, Expiries, Goes, At, histVars
<1>4. ASSUME NEW w \in Callers, CreateJoins(w) PROVE CallerShape'
  BY <1>4
  DEF CreateJoins, CallerShape, TypeOK, Points, Receivers, Terminal, UserTerminal, Expiries,
      Goes, At, rowVars, histVars
<1>5. ASSUME NEW w \in Callers, CreateRefused(w) PROVE CallerShape'
  BY <1>5
  DEF CreateRefused, CallerShape, TypeOK, Points, Receivers, Terminal, UserTerminal, Expiries,
      Returns, At, Stopped, rowVars, histVars
<1>5a. ASSUME NEW w \in Callers, CreatedUnread(w) \/ CreateFails(w) \/ AwaitFails(w)
       PROVE  CallerShape'
  BY <1>5a
  DEF CreatedUnread, CreateFails, AwaitFails, CallerShape, TypeOK, Points, Receivers, Terminal,
      UserTerminal, Expiries, Returns, At
<1>6. ASSUME NEW w \in Callers, DropCaller(w) PROVE CallerShape'
  BY <1>6
  DEF DropCaller, CallerShape, TypeOK, Points, Receivers, Terminal, UserTerminal, Expiries,
      Returns, At, Stopped, rowVars, histVars
<1>7. ASSUME NEW w \in Callers, FirstRead(w) PROVE CallerShape'
  <2>1. CASE status[caller[w].id] \in Terminal
    <3>1. /\ caller'[w] = [pc |-> "done", id |-> caller[w].id, rx |-> status[caller[w].id]]
          /\ \A v \in Callers \ {w} : caller'[v] = caller[v]
      BY <1>7, <2>1, TellsOne DEF FirstRead
    <3>2. QED
      BY <2>1, <3>1 DEF CallerShape
  <2>2. CASE status[caller[w].id] \notin Terminal
    BY <1>7, <2>2 DEF FirstRead, CallerShape, TypeOK, Goes, At
  <2>3. QED
    BY <2>1, <2>2
<1>8. ASSUME NEW w \in Callers, register_wakeup(w) PROVE CallerShape'
  BY <1>8
  DEF register_wakeup, CallerShape, TypeOK, Points, Receivers, Terminal, UserTerminal, Expiries,
      At, rowVars, histVars
<1>9. ASSUME NEW w \in Callers, SecondRead(w) PROVE CallerShape'
  BY <1>9
  DEF SecondRead, CallersOf, CallerShape, TypeOK, Points, Receivers, Terminal, UserTerminal,
      Expiries, Goes, At, rowVars, histVars
<1>10. ASSUME NEW w \in Callers, Woken(w) PROVE CallerShape'
  BY <1>10
  DEF Woken, Tells, CallerShape, TypeOK, Points, Receivers, Terminal, UserTerminal, Expiries, Returns,
      At, rowVars, histVars
<1>11. ASSUME NEW w \in Callers, RereadOnTimer(w) PROVE CallerShape'
  BY <1>11
  DEF RereadOnTimer, Tells, CallerShape, TypeOK, Points, Receivers, Terminal, UserTerminal, Expiries,
      Returns, At, rowVars, histVars
<1>12. ASSUME NEW i \in Ids, finish(i) PROVE CallerShape'
  BY <1>12
  DEF finish, Requested, CallersOf, CallerShape, TypeOK, Points, Receivers, Terminal,
      UserTerminal, Expiries, rowVars, histVars
<1>13. ASSUME reconcile_capacity_after_restart PROVE CallerShape'
  BY <1>13
  DEF reconcile_capacity_after_restart, CallerShape, TypeOK, Points, Receivers, Terminal,
      UserTerminal, Expiries, At
<1>14. QED
  BY <1>1, <1>2, <1>3, <1>4, <1>5, <1>5a, <1>6, <1>7, <1>8, <1>9, <1>10, <1>11, <1>12, <1>13
  DEF Next, CallerStep, ClientStep, ServiceStep, RunStep, mark_dispatched, claim_redelivery,
      prepare_recovery_delivery, vars, rowVars, histVars, CapacityExceeded, Delivered,
      acknowledge_received, decide_request, TimePasses, ReadDue, expire, FinisherLost,
      DetachedCreate, StartRun, RequestStop, CancelRun, RunEnds, complete_runtime_cancellation,
      CancellationInvalid

(* What a receiver was sent stays what the row says. *)
LEMMA OutcomeStep ==
    ASSUME TypeOK, RowShape, CallerShape, WaiterSeesOutcome, [Next]_vars
    PROVE  WaiterSeesOutcome'
<1> USE InteractionConstants, NoCallerType
<1>1. ASSUME UNCHANGED <<status, caller>> PROVE WaiterSeesOutcome'
  BY <1>1
  DEF WaiterSeesOutcome, RowShape, CallerShape, TypeOK, Closers, Terminal, UserTerminal,
      Expiries
<1>2. ASSUME NEW w \in Callers, NEW i \in Ids, AcquirePermit(w, i) PROVE WaiterSeesOutcome'
  BY <1>2
  DEF AcquirePermit, WaiterSeesOutcome, RowShape, CallerShape, TypeOK, Closers, Terminal,
      UserTerminal, Expiries, At, rowVars, histVars
<1>3. ASSUME NEW w \in Callers, CreateCommits(w) PROVE WaiterSeesOutcome'
  BY <1>3
  DEF CreateCommits, Insert, ensure_run_waiting, WaiterSeesOutcome, RowShape, CallerShape,
      TypeOK, Closers, Terminal, UserTerminal, Expiries, Goes, At, histVars
<1>4. ASSUME NEW w \in Callers, CreateJoins(w) PROVE WaiterSeesOutcome'
  BY <1>4
  DEF CreateJoins, WaiterSeesOutcome, RowShape, CallerShape, TypeOK, Closers, Terminal,
      UserTerminal, Expiries, Goes, At, rowVars, histVars
<1>5. ASSUME NEW w \in Callers, CreateRefused(w) PROVE WaiterSeesOutcome'
  BY <1>5
  DEF CreateRefused, WaiterSeesOutcome, RowShape, CallerShape, TypeOK, Closers, Terminal,
      UserTerminal, Expiries, Returns, At, Stopped, rowVars, histVars
<1>5a. ASSUME NEW w \in Callers, CreatedUnread(w) PROVE WaiterSeesOutcome'
  BY <1>5a
  DEF CreatedUnread, Insert, ensure_run_waiting, WaiterSeesOutcome, RowShape, CallerShape, TypeOK, Closers,
      Terminal, UserTerminal, Expiries, Returns, At
<1>5b. ASSUME NEW w \in Callers, CreateFails(w) \/ AwaitFails(w) PROVE WaiterSeesOutcome'
  BY <1>5b
  DEF CreateFails, AwaitFails, WaiterSeesOutcome, RowShape, CallerShape, TypeOK, Closers, Terminal, UserTerminal,
      Expiries, Returns, At, rowVars
<1>6. ASSUME NEW w \in Callers, DropCaller(w) PROVE WaiterSeesOutcome'
  BY <1>6
  DEF DropCaller, WaiterSeesOutcome, RowShape, CallerShape, TypeOK, Closers, Terminal,
      UserTerminal, Expiries, Returns, At, Stopped, rowVars, histVars
<1>7. ASSUME NEW w \in Callers, FirstRead(w) PROVE WaiterSeesOutcome'
  BY <1>7
  DEF FirstRead, Tells, WaiterSeesOutcome, RowShape, CallerShape, TypeOK, Closers, Terminal,
      UserTerminal, Expiries, Goes, Returns, At, rowVars, histVars
<1>8. ASSUME NEW w \in Callers, register_wakeup(w) PROVE WaiterSeesOutcome'
  BY <1>8
  DEF register_wakeup, WaiterSeesOutcome, RowShape, CallerShape, TypeOK, Closers, Terminal,
      UserTerminal, Expiries, At, rowVars, histVars
<1>9. ASSUME NEW w \in Callers, SecondRead(w) PROVE WaiterSeesOutcome'
  BY <1>9
  DEF SecondRead, CallersOf, WaiterSeesOutcome, RowShape, CallerShape, TypeOK, Closers,
      Terminal, UserTerminal, Expiries, Goes, At, rowVars, histVars
<1>10. ASSUME NEW w \in Callers, Woken(w) PROVE WaiterSeesOutcome'
  BY <1>10
  DEF Woken, Tells, WaiterSeesOutcome, RowShape, CallerShape, TypeOK, Closers, Terminal, UserTerminal,
      Expiries, Returns, At, rowVars, histVars
<1>11. ASSUME NEW w \in Callers, RereadOnTimer(w) PROVE WaiterSeesOutcome'
  BY <1>11
  DEF RereadOnTimer, Tells, WaiterSeesOutcome, RowShape, CallerShape, TypeOK, Closers, Terminal,
      UserTerminal, Expiries, Returns, At, rowVars, histVars
<1>12. ASSUME NEW i \in Ids, NEW g \in 0 .. MaxGeneration, NEW d \in Decisions, decide_request(i, g, d)
       PROVE  WaiterSeesOutcome'
  BY <1>12
  DEF decide_request, WaiterSeesOutcome, RowShape, CallerShape, TypeOK, Closers, Pending,
      PendingOf, Terminal, UserTerminal, Expiries, histVars
<1>13. ASSUME NEW i \in Ids, NEW s \in Expiries, expire(i, s) PROVE WaiterSeesOutcome'
  BY <1>13
  DEF expire, StillDue, DeadlineReached, WaiterSeesOutcome, RowShape, CallerShape, TypeOK,
      Closers, Terminal, UserTerminal, Expiries, histVars
<1>14. ASSUME NEW i \in Ids, finish(i) PROVE WaiterSeesOutcome'
  BY <1>14
  DEF finish, Requested, CallersOf, WaiterSeesOutcome, RowShape, CallerShape, TypeOK, Closers,
      Terminal, UserTerminal, Expiries, rowVars, histVars
<1>15. ASSUME NEW i \in Ids, DetachedCreate(i) PROVE WaiterSeesOutcome'
  BY <1>15
  DEF DetachedCreate, Insert, ensure_run_waiting, WaiterSeesOutcome, RowShape, CallerShape,
      TypeOK, Closers, Terminal, UserTerminal, Expiries, Stopped, rowVars
<1>16. ASSUME NEW r \in Runs, complete_runtime_cancellation(r) PROVE WaiterSeesOutcome'
  BY <1>16
  DEF complete_runtime_cancellation, WaiterSeesOutcome, RowShape, CallerShape, TypeOK, Closers,
      Pending, PendingOf, Terminal, UserTerminal, Expiries, Stopped, histVars
<1>17. ASSUME reconcile_capacity_after_restart PROVE WaiterSeesOutcome'
  BY <1>17
  DEF reconcile_capacity_after_restart, WaiterSeesOutcome, RowShape, CallerShape, TypeOK,
      Closers, Pending, Terminal, UserTerminal, Expiries, At
<1>18. QED
  BY <1>1, <1>2, <1>3, <1>4, <1>5, <1>5a, <1>5b, <1>6, <1>7, <1>8, <1>9, <1>10, <1>11, <1>12, <1>13, <1>14,
     <1>15, <1>16, <1>17
  DEF Next, CallerStep, ClientStep, ServiceStep, RunStep, mark_dispatched, claim_redelivery,
      prepare_recovery_delivery, vars, rowVars, histVars, CapacityExceeded, Delivered,
      acknowledge_received, TimePasses, ReadDue, FinisherLost, StartRun, RequestStop, CancelRun,
      RunEnds, CancellationInvalid

(* No waiter parks behind a finisher that has passed. *)
LEMMA WakeupStep ==
    ASSUME TypeOK, RowShape, NoLostWakeup, [Next]_vars
    PROVE  NoLostWakeup'
<1> USE InteractionConstants, NoCallerType
<1>1. ASSUME UNCHANGED <<status, caller, closer, leaked>> PROVE NoLostWakeup'
  BY <1>1 DEF NoLostWakeup, RowShape, TypeOK, Closers, Terminal, UserTerminal, Expiries, At
<1>2. ASSUME NEW w \in Callers, NEW i \in Ids, AcquirePermit(w, i) PROVE NoLostWakeup'
  BY <1>2
  DEF AcquirePermit, NoLostWakeup, RowShape, TypeOK, Closers, Terminal, UserTerminal, Expiries,
      At, rowVars, histVars
<1>3. ASSUME NEW w \in Callers, CreateCommits(w) PROVE NoLostWakeup'
  BY <1>3
  DEF CreateCommits, Insert, ensure_run_waiting, NoLostWakeup, RowShape, TypeOK, Closers,
      Terminal, UserTerminal, Expiries, Goes, At, histVars
<1>4. ASSUME NEW w \in Callers, CreateJoins(w) PROVE NoLostWakeup'
  BY <1>4
  DEF CreateJoins, NoLostWakeup, RowShape, TypeOK, Closers, Terminal, UserTerminal, Expiries,
      Goes, At, rowVars, histVars
<1>5. ASSUME NEW w \in Callers, CreateRefused(w) PROVE NoLostWakeup'
  BY <1>5
  DEF CreateRefused, NoLostWakeup, RowShape, TypeOK, Closers, Terminal, UserTerminal, Expiries,
      Returns, At, Stopped, rowVars, histVars
<1>5a. ASSUME NEW w \in Callers, CreatedUnread(w) PROVE NoLostWakeup'
  BY <1>5a
  DEF CreatedUnread, Insert, ensure_run_waiting, NoLostWakeup, RowShape, TypeOK, Closers,
      Terminal, UserTerminal, Expiries, Returns, At
<1>5b. ASSUME NEW w \in Callers, CreateFails(w) \/ AwaitFails(w) PROVE NoLostWakeup'
  <2>1. /\ caller'[w] = Done /\ \A v \in Callers \ {w} : caller'[v] = caller[v]
        /\ UNCHANGED <<status, closer, leaked>>
    BY <1>5b DEF CreateFails, AwaitFails, Returns, TypeOK, rowVars
  <2>2. QED
    BY <2>1 DEF NoLostWakeup, At
<1>6. ASSUME NEW w \in Callers, DropCaller(w) PROVE NoLostWakeup'
  BY <1>6
  DEF DropCaller, NoLostWakeup, RowShape, TypeOK, Closers, Terminal, UserTerminal, Expiries,
      Returns, At, Stopped, rowVars, histVars
<1>7. ASSUME NEW w \in Callers, FirstRead(w) PROVE NoLostWakeup'
  BY <1>7
  DEF FirstRead, Tells, NoLostWakeup, RowShape, TypeOK, Closers, Terminal, UserTerminal, Expiries,
      Goes, Returns, At, rowVars, histVars
<1>8. ASSUME NEW w \in Callers, register_wakeup(w) PROVE NoLostWakeup'
  BY <1>8
  DEF register_wakeup, NoLostWakeup, RowShape, TypeOK, Closers, Terminal, UserTerminal,
      Expiries, At, rowVars, histVars
<1>9. ASSUME NEW w \in Callers, SecondRead(w) PROVE NoLostWakeup'
  <2>1. CASE status[caller[w].id] \in Terminal
    <3>1. \A v \in Callers : caller'[v].pc = "parked" /\ caller'[v].rx = "waiting" => caller'[v] = caller[v]
      BY <1>9, <2>1 DEF SecondRead, TypeOK
    <3>2. QED
      BY <1>9, <3>1 DEF SecondRead, NoLostWakeup, At, rowVars, histVars
  <2>2. CASE status[caller[w].id] \notin Terminal
    BY <1>9, <2>2 DEF SecondRead, NoLostWakeup, TypeOK, Goes, At, rowVars, histVars
  <2>3. QED
    BY <2>1, <2>2
<1>10. ASSUME NEW w \in Callers, Woken(w) PROVE NoLostWakeup'
  BY <1>10
  DEF Woken, Tells, NoLostWakeup, RowShape, TypeOK, Closers, Terminal, UserTerminal, Expiries, Returns,
      At, rowVars, histVars
<1>11. ASSUME NEW w \in Callers, RereadOnTimer(w) PROVE NoLostWakeup'
  BY <1>11
  DEF RereadOnTimer, Tells, NoLostWakeup, RowShape, TypeOK, Closers, Terminal, UserTerminal, Expiries,
      Returns, At, rowVars, histVars
<1>12. ASSUME NEW i \in Ids, NEW g \in 0 .. MaxGeneration, NEW d \in Decisions, decide_request(i, g, d)
       PROVE  NoLostWakeup'
  BY <1>12
  DEF decide_request, NoLostWakeup, RowShape, TypeOK, Closers, Pending, PendingOf, Terminal,
      UserTerminal, Expiries, At, histVars
<1>13. ASSUME NEW i \in Ids, NEW s \in Expiries, expire(i, s) PROVE NoLostWakeup'
  BY <1>13
  DEF expire, StillDue, DeadlineReached, NoLostWakeup, RowShape, TypeOK, Closers, Terminal,
      UserTerminal, Expiries, At, histVars
<1>14. ASSUME NEW i \in Ids, finish(i) PROVE NoLostWakeup'
  BY <1>14
  DEF finish, Requested, CallersOf, NoLostWakeup, RowShape, TypeOK, Closers, Terminal,
      UserTerminal, Expiries, At, rowVars, histVars
<1>15. ASSUME NEW i \in Ids, FinisherLost(i) PROVE NoLostWakeup'
  BY <1>15
  DEF FinisherLost, NoLostWakeup, RowShape, TypeOK, Closers, Terminal, UserTerminal, Expiries,
      At, rowVars
<1>16. ASSUME NEW i \in Ids, DetachedCreate(i) PROVE NoLostWakeup'
  BY <1>16
  DEF DetachedCreate, Insert, ensure_run_waiting, NoLostWakeup, RowShape, TypeOK, Closers,
      Terminal, UserTerminal, Expiries, At, Stopped, rowVars
<1>17. ASSUME NEW r \in Runs, complete_runtime_cancellation(r) PROVE NoLostWakeup'
  BY <1>17
  DEF complete_runtime_cancellation, NoLostWakeup, RowShape, TypeOK, Closers, Pending,
      PendingOf, Terminal, UserTerminal, Expiries, At, Stopped, histVars
<1>18. ASSUME reconcile_capacity_after_restart PROVE NoLostWakeup'
  <2>1. \A w \in Callers : caller'[w].pc # "parked"
    BY <1>18 DEF reconcile_capacity_after_restart, At
  <2>2. QED
    BY <2>1 DEF NoLostWakeup, At
<1>19. QED
  BY <1>1, <1>2, <1>3, <1>4, <1>5, <1>5a, <1>5b, <1>6, <1>7, <1>8, <1>9, <1>10, <1>11, <1>12, <1>13, <1>14,
     <1>15, <1>16, <1>17, <1>18
  DEF Next, CallerStep, ClientStep, ServiceStep, RunStep, mark_dispatched, claim_redelivery,
      prepare_recovery_delivery, vars, rowVars, histVars, CapacityExceeded, Delivered,
      acknowledge_received, TimePasses, ReadDue, StartRun, RequestStop, CancelRun, RunEnds,
      CancellationInvalid

(* The last decision resumes the Run and no other. *)
LEMMA RunningStep ==
    ASSUME TypeOK, RowShape, RunningHasNoPending, [Next]_vars
    PROVE  RunningHasNoPending'
<1> USE InteractionConstants, NoCallerType
<1>1. ASSUME UNCHANGED <<run, status>> PROVE RunningHasNoPending'
  BY <1>1
  DEF RunningHasNoPending, RowShape, TypeOK, Pending, PendingOf, Terminal, UserTerminal,
      Expiries
<1>2. ASSUME NEW w \in Callers, CreateCommits(w) PROVE RunningHasNoPending'
  BY <1>2
  DEF CreateCommits, Insert, ensure_run_waiting, RunningHasNoPending, RowShape, TypeOK, Pending,
      PendingOf, Terminal, UserTerminal, Expiries, histVars
<1>2a. ASSUME NEW w \in Callers, CreatedUnread(w) PROVE RunningHasNoPending'
  BY <1>2a
  DEF CreatedUnread, Insert, ensure_run_waiting, RunningHasNoPending, RowShape, TypeOK, Pending, PendingOf,
      Terminal, UserTerminal, Expiries
<1>3. ASSUME NEW i \in Ids, NEW g \in 0 .. MaxGeneration, NEW d \in Decisions, decide_request(i, g, d)
      PROVE  RunningHasNoPending'
  BY <1>3
  DEF decide_request, RunningHasNoPending, RowShape, TypeOK, Pending, PendingOf, Terminal,
      UserTerminal, Expiries, histVars
<1>4. ASSUME NEW i \in Ids, NEW s \in Expiries, expire(i, s) PROVE RunningHasNoPending'
  BY <1>4
  DEF expire, StillDue, DeadlineReached, RunningHasNoPending, RowShape, TypeOK, Pending,
      PendingOf, Terminal, UserTerminal, Expiries, histVars
<1>5. ASSUME NEW i \in Ids, DetachedCreate(i) PROVE RunningHasNoPending'
  BY <1>5
  DEF DetachedCreate, Insert, ensure_run_waiting, RunningHasNoPending, RowShape, TypeOK,
      Pending, PendingOf, Terminal, UserTerminal, Expiries, Stopped, rowVars
<1>6. ASSUME NEW r \in Runs, StartRun(r) PROVE RunningHasNoPending'
  BY <1>6
  DEF StartRun, RunningHasNoPending, RowShape, TypeOK, Pending, PendingOf, Terminal,
      UserTerminal, Expiries, rowVars, histVars
<1>7. ASSUME NEW r \in Runs, CancelRun(r) PROVE RunningHasNoPending'
  BY <1>7
  DEF CancelRun, RunningHasNoPending, RowShape, TypeOK, Pending, PendingOf, Terminal,
      UserTerminal, Expiries, rowVars, histVars
<1>8. ASSUME NEW r \in Runs, RunEnds(r) PROVE RunningHasNoPending'
  BY <1>8
  DEF RunEnds, RunningHasNoPending, RowShape, TypeOK, Pending, PendingOf, Terminal,
      UserTerminal, Expiries, rowVars, histVars
<1>9. ASSUME NEW r \in Runs, complete_runtime_cancellation(r) PROVE RunningHasNoPending'
  BY <1>9
  DEF complete_runtime_cancellation, RunningHasNoPending, RowShape, TypeOK, Pending, PendingOf,
      Terminal, UserTerminal, Expiries, Stopped, histVars
<1>10. ASSUME reconcile_capacity_after_restart PROVE RunningHasNoPending'
  BY <1>10
  DEF reconcile_capacity_after_restart, RunningHasNoPending, RowShape, TypeOK, Pending,
      PendingOf, Terminal, UserTerminal, Expiries
<1>11. QED
  BY <1>1, <1>2, <1>2a, <1>3, <1>4, <1>5, <1>6, <1>7, <1>8, <1>9, <1>10
  DEF Next, CallerStep, ClientStep, ServiceStep, RunStep, mark_dispatched, claim_redelivery,
      prepare_recovery_delivery, vars, rowVars, histVars, AcquirePermit, CapacityExceeded,
      CreateJoins, CreateRefused, DropCaller, FirstRead, register_wakeup, SecondRead, Woken,
      RereadOnTimer, Delivered, acknowledge_received, TimePasses, ReadDue, finish, FinisherLost,
      RequestStop, CreateFails, AwaitFails, CancellationInvalid

(* A waiting Run keeps its reason. *)
LEMMA WaitingStep ==
    ASSUME TypeOK, RowShape, WaitingHasReason, [Next]_vars
    PROVE  WaitingHasReason'
<1> USE InteractionConstants, NoCallerType
<1>1. ASSUME UNCHANGED <<run, status, term, closer, leaked>> PROVE WaitingHasReason'
  BY <1>1
  DEF WaitingHasReason, RowShape, TypeOK, Pending, PendingOf, Terminal, UserTerminal, Expiries
<1>2. ASSUME NEW w \in Callers, NEW i \in Ids, CapacityExceeded(w, i) PROVE WaitingHasReason'
  BY <1>2
  DEF CapacityExceeded, Requested, WaitingHasReason, RowShape, TypeOK, Pending, PendingOf,
      Terminal, UserTerminal, Expiries, rowVars, histVars
<1>3. ASSUME NEW w \in Callers, CreateCommits(w) PROVE WaitingHasReason'
  BY <1>3
  DEF CreateCommits, Insert, ensure_run_waiting, WaitingHasReason, RowShape, TypeOK, Pending,
      PendingOf, Terminal, UserTerminal, Expiries, histVars
<1>3a. ASSUME NEW w \in Callers, CreatedUnread(w) PROVE WaitingHasReason'
  BY <1>3a
  DEF CreatedUnread, Insert, ensure_run_waiting, WaitingHasReason, RowShape, TypeOK, Pending, PendingOf,
      Terminal, UserTerminal, Expiries
<1>4. ASSUME NEW i \in Ids, NEW g \in 0 .. MaxGeneration, NEW d \in Decisions, decide_request(i, g, d)
      PROVE  WaitingHasReason'
  BY <1>4
  DEF decide_request, WaitingHasReason, RowShape, TypeOK, Pending, PendingOf, Terminal,
      UserTerminal, Expiries, histVars
<1>5. ASSUME NEW i \in Ids, NEW s \in Expiries, expire(i, s) PROVE WaitingHasReason'
  BY <1>5
  DEF expire, StillDue, DeadlineReached, WaitingHasReason, RowShape, TypeOK, Pending, PendingOf,
      Terminal, UserTerminal, Expiries, histVars
<1>6. ASSUME NEW i \in Ids, finish(i) PROVE WaitingHasReason'
  BY <1>6
  DEF finish, Requested, CallersOf, WaitingHasReason, RowShape, TypeOK, Pending, PendingOf,
      Terminal, UserTerminal, Expiries, rowVars, histVars
<1>7. ASSUME NEW i \in Ids, FinisherLost(i) PROVE WaitingHasReason'
  BY <1>7
  DEF FinisherLost, WaitingHasReason, RowShape, TypeOK, Pending, PendingOf, Terminal,
      UserTerminal, Expiries, rowVars
<1>8. ASSUME NEW i \in Ids, DetachedCreate(i) PROVE WaitingHasReason'
  BY <1>8
  DEF DetachedCreate, Insert, ensure_run_waiting, WaitingHasReason, RowShape, TypeOK, Pending,
      PendingOf, Terminal, UserTerminal, Expiries, Stopped, rowVars
<1>9. ASSUME NEW r \in Runs, StartRun(r) PROVE WaitingHasReason'
  BY <1>9
  DEF StartRun, WaitingHasReason, RowShape, TypeOK, Pending, PendingOf, Terminal, UserTerminal,
      Expiries, rowVars, histVars
<1>10. ASSUME NEW r \in Runs, RequestStop(r) PROVE WaitingHasReason'
  BY <1>10
  DEF RequestStop, Requested, WaitingHasReason, RowShape, TypeOK, Pending, PendingOf, Terminal,
      UserTerminal, Expiries, rowVars, histVars
<1>11. ASSUME NEW r \in Runs, CancelRun(r) PROVE WaitingHasReason'
  BY <1>11
  DEF CancelRun, WaitingHasReason, RowShape, TypeOK, Pending, PendingOf, Terminal, UserTerminal,
      Expiries, rowVars, histVars
<1>12. ASSUME NEW r \in Runs, RunEnds(r) PROVE WaitingHasReason'
  BY <1>12
  DEF RunEnds, WaitingHasReason, RowShape, TypeOK, Pending, PendingOf, Terminal, UserTerminal,
      Expiries, rowVars, histVars
<1>13. ASSUME NEW r \in Runs, complete_runtime_cancellation(r) PROVE WaitingHasReason'
  <2> SUFFICES ASSUME NEW q \in Runs, run'[q] = "waitingInteraction"
               PROVE  \/ PendingOf(q)' # {}
                      \/ term'[q] # "none"
                      \/ \E i \in Ids : RunOf[i] = q /\ (closer'[i] = "expire" \/ i \in leaked')
    BY DEF WaitingHasReason
  <2>1. q # r /\ run[q] = "waitingInteraction"
    BY <1>13 DEF complete_runtime_cancellation, Stopped
  <2>2. PendingOf(q)' = PendingOf(q)
    BY <1>13, <2>1 DEF complete_runtime_cancellation, PendingOf, Pending, TypeOK
  <2>3. \A i \in Ids : RunOf[i] = q => closer'[i] = closer[i]
    BY <1>13, <2>1 DEF complete_runtime_cancellation, PendingOf, TypeOK
  <2>4. QED
    BY <1>13, <2>1, <2>2, <2>3
    DEF complete_runtime_cancellation, WaitingHasReason, TypeOK, histVars
<1>13a. ASSUME NEW r \in Runs, CancellationInvalid(r) PROVE WaitingHasReason'
  BY <1>13a
  DEF CancellationInvalid, WaitingHasReason, RowShape, TypeOK, Pending, PendingOf, Terminal,
      UserTerminal, Expiries, rowVars, histVars
<1>14. ASSUME reconcile_capacity_after_restart PROVE WaitingHasReason'
  BY <1>14
  DEF reconcile_capacity_after_restart, WaitingHasReason, RowShape, TypeOK, Pending, PendingOf,
      Terminal, UserTerminal, Expiries
<1>15. QED
  BY <1>1, <1>2, <1>3, <1>3a, <1>4, <1>5, <1>6, <1>7, <1>8, <1>9, <1>10, <1>11, <1>12, <1>13, <1>13a, <1>14
  DEF Next, CallerStep, ClientStep, ServiceStep, RunStep, mark_dispatched, claim_redelivery,
      prepare_recovery_delivery, vars, rowVars, histVars, AcquirePermit, CreateJoins,
      CreateRefused, DropCaller, FirstRead, register_wakeup, SecondRead, Woken, RereadOnTimer,
      Delivered, acknowledge_received, TimePasses, ReadDue, CreateFails, AwaitFails

(* The expiry's UPDATE asks again what was read. *)
LEMMA ExpiryStep ==
    ASSUME TypeOK, ExpiryMatchesDelivery, [Next]_vars
    PROVE  ExpiryMatchesDelivery'
<1> USE InteractionConstants, NoCallerType
<1>1. ASSUME UNCHANGED <<status, received>> PROVE ExpiryMatchesDelivery'
  BY <1>1 DEF ExpiryMatchesDelivery, TypeOK, Terminal, UserTerminal, Expiries
<1>2. ASSUME NEW w \in Callers, CreateCommits(w) PROVE ExpiryMatchesDelivery'
  BY <1>2
  DEF CreateCommits, Insert, ensure_run_waiting, ExpiryMatchesDelivery, TypeOK, Terminal,
      UserTerminal, Expiries, histVars
<1>2a. ASSUME NEW w \in Callers, CreatedUnread(w) PROVE ExpiryMatchesDelivery'
  BY <1>2a
  DEF CreatedUnread, Insert, ensure_run_waiting, ExpiryMatchesDelivery, TypeOK,
      Terminal, UserTerminal, Expiries
<1>3. ASSUME NEW i \in Ids, NEW g \in 1 .. MaxGeneration, acknowledge_received(i, g)
      PROVE  ExpiryMatchesDelivery'
  BY <1>3
  DEF acknowledge_received, ExpiryMatchesDelivery, TypeOK, Terminal, UserTerminal, Expiries,
      histVars
<1>4. ASSUME NEW i \in Ids, NEW g \in 0 .. MaxGeneration, NEW d \in Decisions, decide_request(i, g, d)
      PROVE  ExpiryMatchesDelivery'
  BY <1>4
  DEF decide_request, ExpiryMatchesDelivery, TypeOK, Pending, PendingOf, Terminal, UserTerminal,
      Expiries, histVars
<1>5. ASSUME NEW i \in Ids, NEW s \in Expiries, expire(i, s) PROVE ExpiryMatchesDelivery'
  BY <1>5
  DEF expire, StillDue, DeadlineReached, ExpiryMatchesDelivery, TypeOK, Terminal, UserTerminal,
      Expiries, histVars
<1>6. ASSUME NEW i \in Ids, DetachedCreate(i) PROVE ExpiryMatchesDelivery'
  BY <1>6
  DEF DetachedCreate, Insert, ensure_run_waiting, ExpiryMatchesDelivery, TypeOK, Terminal,
      UserTerminal, Expiries, Stopped, rowVars
<1>7. ASSUME NEW r \in Runs, complete_runtime_cancellation(r) PROVE ExpiryMatchesDelivery'
  BY <1>7
  DEF complete_runtime_cancellation, ExpiryMatchesDelivery, TypeOK, Pending, PendingOf,
      Terminal, UserTerminal, Expiries, Stopped, histVars
<1>8. ASSUME reconcile_capacity_after_restart PROVE ExpiryMatchesDelivery'
  BY <1>8
  DEF reconcile_capacity_after_restart, ExpiryMatchesDelivery, TypeOK, Pending, Terminal,
      UserTerminal, Expiries
<1>9. QED
  BY <1>1, <1>2, <1>2a, <1>3, <1>4, <1>5, <1>6, <1>7, <1>8
  DEF Next, CallerStep, ClientStep, ServiceStep, RunStep, mark_dispatched, claim_redelivery,
      prepare_recovery_delivery, vars, rowVars, histVars, AcquirePermit, CapacityExceeded,
      CreateJoins, CreateRefused, DropCaller, FirstRead, register_wakeup, SecondRead, Woken,
      RereadOnTimer, Delivered, TimePasses, ReadDue, finish, FinisherLost, StartRun,
      RequestStop, CancelRun, RunEnds, CreateFails, AwaitFails, CancellationInvalid

--------------------------------------------------------------------------------
(* Permits are counted as elements of four sets. *)
Creating == {w \in Callers : At(w, "creating")}
Owed == {i \in Ids : closer[i] # "none"}

(* A finite set with one element more, and with one less.                      *)
LEMMA Moves ==
    ASSUME NEW S, IsFiniteSet(S)
    PROVE  /\ Cardinality(S) \in Nat
           /\ \A x : x \notin S => Cardinality(S \cup {x}) = Cardinality(S) + 1
           /\ \A x \in S : Cardinality(S \ {x}) = Cardinality(S) - 1
<1>1. Cardinality(S) \in Nat
  BY FS_CardinalityType
<1>2. ASSUME NEW x, x \notin S PROVE Cardinality(S \cup {x}) = Cardinality(S) + 1
  BY <1>2, FS_AddElement
<1>3. ASSUME NEW x \in S PROVE Cardinality(S \ {x}) = Cardinality(S) - 1
  BY FS_RemoveElement
<1>4. QED
  BY <1>1, <1>2, <1>3

(* A finite set without a part of it. *)
LEMMA Without ==
    ASSUME NEW S, IsFiniteSet(S), NEW M \in SUBSET S
    PROVE  /\ IsFiniteSet(M) /\ Cardinality(M) \in Nat
           /\ Cardinality(S \ M) = Cardinality(S) - Cardinality(M)
<1>1. IsFiniteSet(M) /\ IsFiniteSet(S \ M)
  BY FS_Subset
<1>2. (S \ M) \cup M = S /\ (S \ M) \cap M = {}
  OBVIOUS
<1>3. Cardinality(S) = Cardinality(S \ M) + Cardinality(M) - Cardinality({})
  BY <1>1, <1>2, FS_Union
<1>4. Cardinality(M) \in Nat /\ Cardinality(S \ M) \in Nat
  BY <1>1, FS_CardinalityType
<1>5. Cardinality({}) = 0
  BY FS_EmptySet
<1>6. QED
  BY <1>1, <1>3, <1>4, <1>5

(* The sets that permits are counted by are finite. *)
LEMMA Finite ==
    ASSUME TypeOK
    PROVE  /\ IsFiniteSet(Creating) /\ IsFiniteSet(Pending) /\ IsFiniteSet(Owed)
           /\ IsFiniteSet(leaked) /\ IsFiniteSet(unbacked)
<1>1. Creating \in SUBSET Callers
  BY DEF Creating
<1>2. Pending \in SUBSET Ids /\ Owed \in SUBSET Ids
  BY DEF Pending, Owed
<1>3. leaked \in SUBSET Ids /\ unbacked \in SUBSET Ids
  BY DEF TypeOK
<1>4. QED
  BY <1>1, <1>2, <1>3, FS_Subset, InteractionConstants

(* Every step moves a permit from one holder to another, or starts or ends a   *)
(* holding together with the permit itself.                                    *)
LEMMA CapacityStep ==
    ASSUME TypeOK, RowShape, CapacityAccounted, [Next]_vars
    PROVE  CapacityAccounted'
<1> USE InteractionConstants, NoCallerType
<1>1. permits + elsewhere + Cardinality(Creating) + Cardinality(Pending) + Cardinality(Owed)
        + Cardinality(leaked) = Capacity + Cardinality(unbacked)
  BY DEF CapacityAccounted, Creating, Owed
<1>2. permits' + elsewhere' + Cardinality(Creating') + Cardinality(Pending') + Cardinality(Owed')
        + Cardinality(leaked') = Capacity + Cardinality(unbacked') => CapacityAccounted'
  BY DEF CapacityAccounted, Creating, Owed
<1>3. permits \in Nat /\ elsewhere \in Nat /\ Capacity \in Nat
  BY DEF TypeOK
<1>4. /\ Cardinality(Creating) \in Nat /\ Cardinality(Pending) \in Nat
      /\ Cardinality(Owed) \in Nat /\ Cardinality(leaked) \in Nat
      /\ Cardinality(unbacked) \in Nat
  BY Finite, Moves
<1>5. ASSUME UNCHANGED <<permits, elsewhere, caller, status, closer, leaked, unbacked>>
      PROVE  CapacityAccounted'
  BY <1>5 DEF CapacityAccounted, At, Pending
(* Callers. *)
<1>6. ASSUME NEW w \in Callers, permits' = permits - 1,
             ~ At(w, "creating"), Creating' = Creating \cup {w}, 
             UNCHANGED <<status, closer, elsewhere, leaked, unbacked>>
      PROVE  CapacityAccounted'
  <2>1. w \notin Creating
    BY <1>6 DEF Creating
  <2>2. Cardinality(Creating') = Cardinality(Creating) + 1
    BY <1>6, <2>1, Finite, Moves
  <2>3. Pending' = Pending /\ Owed' = Owed
    BY <1>6 DEF Pending, Owed
  <2>4. QED
    BY <1>1, <1>2, <1>3, <1>4, <1>6, <2>2, <2>3
<1>7. ASSUME NEW w \in Callers, permits' = permits + 1,
             At(w, "creating"), Creating' = Creating \ {w},
             UNCHANGED <<status, closer, elsewhere, leaked, unbacked>>
      PROVE  CapacityAccounted'
  <2>1. w \in Creating
    BY <1>7 DEF Creating
  <2>2. Cardinality(Creating') = Cardinality(Creating) - 1
    BY <1>7, <2>1, Finite, Moves
  <2>3. Pending' = Pending /\ Owed' = Owed
    BY <1>7 DEF Pending, Owed
  <2>4. QED
    BY <1>1, <1>2, <1>3, <1>4, <1>7, <2>2, <2>3
<1>8. ASSUME Creating' = Creating,
             UNCHANGED <<permits, status, closer, elsewhere, leaked, unbacked>>
      PROVE  CapacityAccounted'
  <2>1. Pending' = Pending /\ Owed' = Owed
    BY <1>8 DEF Pending, Owed
  <2>2. QED
    BY <1>1, <1>2, <1>8, <2>1
<1>9. ASSUME NEW w \in Callers, NEW i \in Ids, AcquirePermit(w, i) PROVE CapacityAccounted'
  <2>1. ~ At(w, "creating") /\ Creating' = Creating \cup {w}
    BY <1>9 DEF AcquirePermit, Creating, At, TypeOK
  <2>2. QED
    BY <1>6, <1>9, <2>1 DEF AcquirePermit, rowVars, histVars
<1>10. ASSUME NEW w \in Callers, CreateCommits(w) PROVE CapacityAccounted'
  <2>1. PICK i \in Ids : i = caller[w].id
    BY DEF TypeOK
  <2>2. w \in Creating /\ Creating' = Creating \ {w}
    BY <1>10 DEF CreateCommits, Creating, At, Goes, TypeOK
  <2>3. i \notin Pending /\ Pending' = Pending \cup {i}
    BY <1>10, <2>1 DEF CreateCommits, Insert, Pending, TypeOK
  <2>4. Cardinality(Creating') = Cardinality(Creating) - 1
    BY <2>2, Finite, Moves
  <2>5. Cardinality(Pending') = Cardinality(Pending) + 1
    BY <2>3, Finite, Moves
  <2>6. UNCHANGED <<permits, closer, elsewhere, leaked, unbacked>> /\ Owed' = Owed
    BY <1>10 DEF CreateCommits, Owed, histVars
  <2>7. QED
    BY <1>1, <1>2, <1>3, <1>4, <2>4, <2>5, <2>6
<1>11. ASSUME NEW w \in Callers, CreateJoins(w) PROVE CapacityAccounted'
  <2>1. At(w, "creating") /\ Creating' = Creating \ {w}
    BY <1>11 DEF CreateJoins, Creating, At, Goes, TypeOK
  <2>2. QED
    BY <1>7, <1>11, <2>1 DEF CreateJoins, rowVars, histVars
<1>12. ASSUME NEW w \in Callers, CreateRefused(w) PROVE CapacityAccounted'
  <2>1. At(w, "creating") /\ Creating' = Creating \ {w}
    BY <1>12 DEF CreateRefused, Creating, At, Returns, TypeOK
  <2>2. QED
    BY <1>7, <1>12, <2>1 DEF CreateRefused, rowVars, histVars
<1>12a. ASSUME NEW w \in Callers, CreatedUnread(w) PROVE CapacityAccounted'
  <2>1. PICK i \in Ids : i = caller[w].id
    BY DEF TypeOK
  <2>2. w \in Creating /\ Creating' = Creating \ {w}
    BY <1>12a DEF CreatedUnread, Creating, At, Returns, TypeOK
  <2>3. i \notin Pending /\ i \notin unbacked /\ Pending' = Pending \cup {i}
    BY <1>12a, <2>1 DEF CreatedUnread, Insert, RowShape, Pending, TypeOK
  <2>4. Cardinality(Creating') = Cardinality(Creating) - 1
    BY <2>2, Finite, Moves
  <2>5. Cardinality(Pending') = Cardinality(Pending) + 1
    BY <2>3, Finite, Moves
  <2>6. UNCHANGED <<closer, elsewhere, leaked>> /\ Owed' = Owed
    BY <1>12a DEF CreatedUnread, Owed
  <2>7. CASE UNCHANGED <<permits, unbacked>>
    BY <1>1, <1>2, <1>3, <1>4, <2>4, <2>5, <2>6, <2>7
  <2>8. CASE permits' = permits + 1 /\ unbacked' = unbacked \cup {i}
    <3>1. Cardinality(unbacked') = Cardinality(unbacked) + 1
      BY <2>3, <2>8, Finite, Moves
    <3>2. QED
      BY <1>1, <1>2, <1>3, <1>4, <2>4, <2>5, <2>6, <2>8, <3>1
  <2>9. QED
    BY <1>12a, <2>1, <2>7, <2>8 DEF CreatedUnread
<1>12b. ASSUME NEW w \in Callers, CreateFails(w) PROVE CapacityAccounted'
  <2>1. At(w, "creating") /\ Creating' = Creating \ {w}
    BY <1>12b DEF CreateFails, Creating, At, Returns, TypeOK
  <2>2. QED
    BY <1>7, <1>12b, <2>1 DEF CreateFails, rowVars
<1>12c. ASSUME NEW w \in Callers, AwaitFails(w) PROVE CapacityAccounted'
  <2>1. Creating' = Creating
    BY <1>12c DEF AwaitFails, Creating, At, Returns, TypeOK
  <2>2. QED
    BY <1>8, <1>12c, <2>1 DEF AwaitFails, rowVars
<1>13. ASSUME NEW w \in Callers, DropCaller(w) PROVE CapacityAccounted'
  <2>1. UNCHANGED <<status, closer, elsewhere, leaked, unbacked>>
    BY <1>13 DEF DropCaller, rowVars, histVars
  <2>2. CASE At(w, "creating")
    <3>1. permits' = permits + 1 /\ Creating' = Creating \ {w}
      BY <1>13, <2>2 DEF DropCaller, Creating, At, Returns, TypeOK
    <3>2. QED
      BY <1>7, <2>1, <2>2, <3>1
  <2>3. CASE ~ At(w, "creating")
    <3>1. permits' = permits /\ Creating' = Creating
      BY <1>13, <2>3 DEF DropCaller, Creating, At, Returns, TypeOK
    <3>2. QED
      BY <1>8, <2>1, <3>1
  <2>4. QED
    BY <2>2, <2>3
<1>14. ASSUME NEW w \in Callers,
              FirstRead(w) \/ register_wakeup(w) \/ SecondRead(w) \/ Woken(w) \/ RereadOnTimer(w)
       PROVE  CapacityAccounted'
  <2>1. UNCHANGED <<permits, status, closer, elsewhere, leaked, unbacked>>
    BY <1>14 DEF FirstRead, register_wakeup, SecondRead, Woken, RereadOnTimer, rowVars, histVars
  <2>2. CASE FirstRead(w) \/ register_wakeup(w)
    <3>1. \A v \in Callers : caller'[v].pc = "creating" <=> caller[v].pc = "creating"
      BY <2>2 DEF FirstRead, register_wakeup, At, Goes, Tells, TypeOK
    <3>2. QED
      BY <2>1, <3>1, <1>8 DEF Creating, At
  <2>3. CASE SecondRead(w)
    <3>1. \A v \in Callers : caller'[v].pc = "creating" <=> caller[v].pc = "creating"
      BY <2>3 DEF SecondRead, At, Goes, TypeOK
    <3>2. QED
      BY <2>1, <3>1, <1>8 DEF Creating, At
  <2>4. CASE Woken(w) \/ RereadOnTimer(w)
    <3>1. \A v \in Callers : caller'[v].pc = "creating" <=> caller[v].pc = "creating"
      BY <2>4 DEF Woken, RereadOnTimer, At, Tells, TypeOK
    <3>2. QED
      BY <2>1, <3>1, <1>8 DEF Creating, At
  <2>5. QED
    BY <1>14, <2>2, <2>3, <2>4
(* The row is inserted with nothing behind it. *)
<1>15. ASSUME NEW i \in Ids, DetachedCreate(i) PROVE CapacityAccounted'
  <2>1. UNCHANGED <<permits, caller, closer, elsewhere, leaked>>
    BY <1>15 DEF DetachedCreate
  <2>2. Creating' = Creating /\ Owed' = Owed
    BY <2>1 DEF Creating, Owed, At
  <2>3. CASE Insert(i) /\ unbacked' = unbacked \cup {i}
    <3>1. i \notin Pending /\ i \notin unbacked /\ Pending' = Pending \cup {i}
      BY <2>3 DEF Insert, RowShape, Pending, TypeOK
    <3>2. Cardinality(Pending') = Cardinality(Pending) + 1
      BY <3>1, Finite, Moves
    <3>3. Cardinality(unbacked') = Cardinality(unbacked) + 1
      BY <2>3, <3>1, Finite, Moves
    <3>4. QED
      BY <1>1, <1>2, <1>3, <1>4, <2>1, <2>2, <3>2, <3>3
  <2>4. CASE UNCHANGED <<run, rowVars, unbacked>>
    BY <1>8, <2>1, <2>2, <2>4 DEF rowVars
  <2>5. QED
    BY <1>15, <2>3, <2>4 DEF DetachedCreate
(* A request ends: its finisher owes what its row held. *)
<1>16. ASSUME NEW M \in SUBSET Pending, Pending' = Pending \ M, Owed' = Owed \cup M,
              UNCHANGED <<permits, caller, elsewhere, leaked, unbacked>>
       PROVE  CapacityAccounted'
  <2>1. Owed \cap M = {}
    BY DEF Pending, Owed, RowShape, Terminal, UserTerminal, Expiries
  <2>2. IsFiniteSet(Pending) /\ IsFiniteSet(Owed)
    BY Finite
  <2>3. IsFiniteSet(M) /\ Cardinality(M) \in Nat
    BY <2>2, Without
  <2>4. Cardinality(Pending') = Cardinality(Pending) - Cardinality(M)
    BY <1>16, <2>2, Without
  <2>5. Cardinality(Owed') = Cardinality(Owed) + Cardinality(M) - Cardinality({})
    <3>1. Cardinality(Owed \cup M) = Cardinality(Owed) + Cardinality(M) - Cardinality(Owed \cap M)
      BY <2>2, <2>3, FS_Union
    <3>2. QED
      BY <1>16, <2>1, <3>1
  <2>6. Creating' = Creating /\ Cardinality({}) = 0
    BY <1>16, FS_EmptySet DEF Creating, At
  <2>7. QED
    BY <1>1, <1>2, <1>3, <1>4, <1>16, <2>3, <2>4, <2>5, <2>6
<1>17. ASSUME NEW i \in Ids, NEW g \in 0 .. MaxGeneration, NEW d \in Decisions,
              decide_request(i, g, d)
       PROVE  CapacityAccounted'
  <2>1. Pending' = Pending \ {i} /\ Owed' = Owed \cup {i} /\ {i} \in SUBSET Pending
    BY <1>17 DEF decide_request, Pending, Owed, TypeOK
  <2>2. QED
    BY <1>16, <1>17, <2>1 DEF decide_request, histVars
<1>18. ASSUME NEW i \in Ids, NEW s \in Expiries, expire(i, s) PROVE CapacityAccounted'
  <2>1. UNCHANGED <<permits, caller, elsewhere, leaked, unbacked>>
    BY <1>18 DEF expire, histVars
  <2>2. CASE StillDue(i, s)
    <3>1. Pending' = Pending \ {i} /\ Owed' = Owed \cup {i} /\ {i} \in SUBSET Pending
      BY <1>18, <2>2 DEF expire, StillDue, Pending, Owed, Expiries, TypeOK
    <3>2. QED
      BY <1>16, <2>1, <3>1
  <2>3. CASE ~ StillDue(i, s)
    BY <1>5, <1>18, <2>1, <2>3 DEF expire
  <2>4. QED
    BY <2>2, <2>3
<1>19. ASSUME NEW r \in Runs, complete_runtime_cancellation(r) PROVE CapacityAccounted'
  <2>1. /\ Pending' = Pending \ PendingOf(r) /\ Owed' = Owed \cup PendingOf(r)
        /\ PendingOf(r) \in SUBSET Pending
    BY <1>19 DEF complete_runtime_cancellation, Pending, PendingOf, Owed, TypeOK
  <2>2. UNCHANGED <<permits, caller, elsewhere, leaked, unbacked>>
    BY <1>19 DEF complete_runtime_cancellation, histVars
  <2>3. QED
    BY <1>16, <2>1, <2>2
(* The finish is run, or lost. *)
<1>20. ASSUME NEW i \in Ids, finish(i) PROVE CapacityAccounted'
  <2>1. i \in Owed /\ Owed' = Owed \ {i}
    BY <1>20 DEF finish, Owed, TypeOK
  <2>2. Creating' = Creating
    BY <1>20 DEF finish, Creating, At, TypeOK
  <2>3. Pending' = Pending /\ permits' = permits + 1 /\ UNCHANGED <<elsewhere, leaked, unbacked>>
    BY <1>20 DEF finish, Pending, rowVars, histVars
  <2>4. Cardinality(Owed') = Cardinality(Owed) - 1
    BY <2>1, Finite, Moves
  <2>5. QED
    BY <1>1, <1>2, <1>3, <1>4, <2>2, <2>3, <2>4
<1>21. ASSUME NEW i \in Ids, FinisherLost(i) PROVE CapacityAccounted'
  <2> DEFINE lost == IF closer[i] = "cancel"
                     THEN {j \in Ids : RunOf[j] = RunOf[i] /\ closer[j] = "cancel"}
                     ELSE {i}
  <2>1. lost \in SUBSET Owed /\ leaked \cap lost = {}
    BY <1>21 DEF FinisherLost, Owed, RowShape
  <2>2. Owed' = Owed \ lost /\ leaked' = leaked \cup lost
    BY <1>21 DEF FinisherLost, Owed, TypeOK
  <2>3. /\ Creating' = Creating /\ Pending' = Pending
        /\ UNCHANGED <<permits, elsewhere, unbacked>>
    BY <1>21 DEF FinisherLost, Creating, Pending, At, rowVars
  <2> HIDE DEF lost
  <2>4. IsFiniteSet(Owed) /\ IsFiniteSet(leaked)
    BY Finite
  <2>5. IsFiniteSet(lost) /\ Cardinality(lost) \in Nat
    BY <2>1, <2>4, Without
  <2>6. Cardinality(Owed') = Cardinality(Owed) - Cardinality(lost)
    BY <2>1, <2>2, <2>4, Without
  <2>7. Cardinality(leaked') = Cardinality(leaked) + Cardinality(lost) - Cardinality({})
    <3>1. Cardinality(leaked \cup lost)
            = Cardinality(leaked) + Cardinality(lost) - Cardinality(leaked \cap lost)
      BY <2>4, <2>5, FS_Union
    <3>2. QED
      BY <2>1, <2>2, <3>1
  <2>8. Cardinality({}) = 0
    BY FS_EmptySet
  <2>9. QED
    BY <1>1, <1>2, <1>3, <1>4, <2>3, <2>5, <2>6, <2>7, <2>8
(* Nothing is held after a restart. *)
<1>22. ASSUME reconcile_capacity_after_restart PROVE CapacityAccounted'
  <2> DEFINE ended == {r \in Runs : run[r] # "absent"}
             orphans == {i \in Pending : RunOf[i] \in ended}
  <2>1. Pending \ orphans = {}
    BY DEF RowShape, Pending
  <2>2. permits' = Capacity - Cardinality(Pending \ orphans) /\ elsewhere' = 0
    BY <1>22 DEF reconcile_capacity_after_restart
  <2>3. Creating' = {}
    BY <1>22 DEF reconcile_capacity_after_restart, Creating, At
  <2>4. Pending' = {}
    <3>1. \A i \in Ids : status'[i] = IF i \in orphans THEN "cancelled" ELSE status[i]
      BY <1>22 DEF reconcile_capacity_after_restart
    <3>2. QED
      BY <2>1, <3>1 DEF Pending
  <2>5. Owed' = {} /\ leaked' = {} /\ unbacked' = {}
    BY <1>22 DEF reconcile_capacity_after_restart, Owed
  <2>6. Cardinality({}) = 0
    BY FS_EmptySet
  <2>7. permits' = Capacity
    BY <1>3, <2>1, <2>2, <2>6
  <2>8. QED
    BY <1>2, <1>3, <2>2, <2>3, <2>4, <2>5, <2>6, <2>7
<1>23. QED
  BY <1>5, <1>9, <1>10, <1>11, <1>12, <1>12a, <1>12b, <1>12c, <1>13, <1>14, <1>15, <1>17, <1>18, <1>19, <1>20, <1>21,
     <1>22
  DEF Next, CallerStep, ClientStep, ServiceStep, RunStep, mark_dispatched, claim_redelivery,
      prepare_recovery_delivery, vars, rowVars, histVars, CapacityExceeded, Delivered,
      acknowledge_received, TimePasses, ReadDue, StartRun, RequestStop, CancelRun, RunEnds,
      CancellationInvalid

--------------------------------------------------------------------------------
(* What the properties rest on. *)
IInv ==
    /\ TypeOK /\ RowShape /\ CallerShape
    /\ CapacityAccounted /\ WaiterSeesOutcome /\ NoLostWakeup
    /\ RunningHasNoPending /\ WaitingHasReason /\ ExpiryMatchesDelivery

(* Nothing has been asked yet. *)
LEMMA InitInv == Init => IInv
<1> SUFFICES ASSUME Init PROVE IInv
  OBVIOUS
<1> USE InteractionConstants, ElsewhereAssumption, NoCallerType
<1>1. TypeOK
  BY DEF Init, TypeOK, RunStatus, Closers
<1>2. RowShape /\ CallerShape /\ WaiterSeesOutcome /\ NoLostWakeup /\ ExpiryMatchesDelivery
  BY DEF Init, RowShape, CallerShape, WaiterSeesOutcome, NoLostWakeup, ExpiryMatchesDelivery,
         At, Terminal, UserTerminal, Expiries
<1>3. RunningHasNoPending /\ WaitingHasReason
  BY DEF Init, RunningHasNoPending, WaitingHasReason
<1>4. CapacityAccounted
  <2>1. Creating = {} /\ Pending = {} /\ Owed = {} /\ leaked = {} /\ unbacked = {}
    BY DEF Init, Creating, Pending, Owed, At
  <2>2. permits + elsewhere = Capacity /\ elsewhere \in Nat /\ permits \in Nat
    BY DEF Init
  <2>3. Cardinality({}) = 0
    BY FS_EmptySet
  <2>4. permits + elsewhere + Cardinality(Creating) + Cardinality(Pending) + Cardinality(Owed)
          + Cardinality(leaked) = Capacity + Cardinality(unbacked)
    BY <2>1, <2>2, <2>3
  <2>5. QED
    BY <2>4 DEF CapacityAccounted, Creating, Owed
<1>5. QED
  BY <1>1, <1>2, <1>3, <1>4 DEF IInv

(* Every conjunct is kept by a lemma of its own. *)
LEMMA Inductive == Spec => []IInv
<1>1. IInv /\ [Next]_vars => IInv'
  BY TypeStep, RowShapeStep, CallerShapeStep, OutcomeStep, WakeupStep, RunningStep, WaitingStep,
     ExpiryStep, CapacityStep
  DEF IInv
<1>2. QED
  BY InitInv, <1>1, PTL DEF Spec

(* The rows, permits, waiters and obligations keep their types: in particular  *)
(* try_acquire_owned and the restart never leave less than no permit.          *)
THEOREM TypeCorrect == Spec => []TypeOK
<1>1. IInv => TypeOK
  BY DEF IInv
<1>2. QED
  BY Inductive, <1>1, PTL

(* No path through create, drop, decide, expire, cancel and finish, nor a      *)
(* restart among them, returns a permit twice or forgets one, for any number   *)
(* of callers, requests and Runs, but for the rows of dropped creators and the *)
(* finishers that were lost.                                                   *)
THEOREM PermitsAccounted == Spec => []CapacityAccounted
<1>1. IInv => CapacityAccounted
  BY DEF IInv
<1>2. QED
  BY Inductive, <1>1, PTL

(* However decision, expiry and cancellation race, a waiter is told what the   *)
(* row says.                                                                   *)
THEOREM WaitersAgree == Spec => []WaiterSeesOutcome
<1>1. IInv => WaiterSeesOutcome
  BY DEF IInv
<1>2. QED
  BY Inductive, <1>1, PTL

(* The second read after register_wakeup closes the window between the first   *)
(* read and the registration for every interleaving of waiters and finishers.  *)
THEOREM WakeupsArrive == Spec => []NoLostWakeup
<1>1. IInv => NoLostWakeup
  BY DEF IInv
<1>2. QED
  BY Inductive, <1>1, PTL

(* decide_request resumes a Run only with its last request, and a create never *)
(* leaves a Run running.                                                       *)
THEOREM RunningIsFree == Spec => []RunningHasNoPending
<1>1. IInv => RunningHasNoPending
  BY DEF IInv
<1>2. QED
  BY Inductive, <1>1, PTL

(* A Run is left waiting only for an open request or for its termination, the  *)
(* lost finishers aside.                                                       *)
THEOREM WaitingIsJustified == Spec => []WaitingHasReason
<1>1. IInv => WaitingHasReason
  BY DEF IInv
<1>2. QED
  BY Inductive, <1>1, PTL

(* expire() writes what the row's delivery state calls for, whatever happened  *)
(* between the query and the UPDATE.                                           *)
THEOREM ExpiriesMatch == Spec => []ExpiryMatchesDelivery
<1>1. IInv => ExpiryMatchesDelivery
  BY DEF IInv
<1>2. QED
  BY Inductive, <1>1, PTL

(* No delivery, redelivery or recovery advances the generation of a request a  *)
(* client has acknowledged.                                                    *)
THEOREM ViewStands == Spec => AcknowledgedViewStands
<1>1. ASSUME TypeOK, [Next]_vars, NEW i \in Ids, received[i]
      PROVE  generation'[i] = generation[i]
  <2>1. ASSUME NEW j \in Ids, Delivered(j) PROVE generation'[i] = generation[i]
    BY <1>1, <2>1 DEF Delivered, Deliverable, TypeOK
  <2>2. QED
    BY <1>1, <2>1
    DEF Next, CallerStep, ClientStep, ServiceStep, RunStep, mark_dispatched, claim_redelivery,
        prepare_recovery_delivery, vars, rowVars, histVars, AcquirePermit, CapacityExceeded,
        CreateCommits, CreateJoins, CreateRefused, Insert, FirstRead, register_wakeup,
        SecondRead, Woken, RereadOnTimer, DropCaller, acknowledge_received, decide_request,
        TimePasses, ReadDue, expire, finish, FinisherLost, DetachedCreate, StartRun,
        RequestStop, CancelRun, RunEnds, complete_runtime_cancellation,
        CreatedUnread, CreateFails, AwaitFails, CancellationInvalid,
        reconcile_capacity_after_restart
<1>2. TypeOK /\ [Next]_vars => [\A i \in Ids : received[i] => generation'[i] = generation[i]]_vars
  BY <1>1
<1>3. QED
  BY TypeCorrect, <1>2, PTL DEF Spec, AcknowledgedViewStands

--------------------------------------------------------------------------------
(* The contract. *)

(* A request, an acknowledged view and a termination presuppose a Run that has *)
(* started, a delivery and again a Run that has started.                       *)
Grounded ==
    /\ \A i \in Ids : /\ status[i] # "absent" => run[RunOf[i]] # "absent"
                      /\ received[i] => generation[i] # 0
    /\ \A r \in Runs : term[r] # "none" => run[r] # "absent"

(* Only a delivery counts the generation up, and nothing counts it down.       *)
LEMMA GroundedStep ==
    ASSUME IInv, Grounded, [Next]_vars
    PROVE  Grounded'
<1> USE InteractionConstants
<1>0. TypeOK /\ RowShape
  BY DEF IInv
<1>1. ASSUME UNCHANGED <<run, status, received, generation, term>> PROVE Grounded'
  BY <1>1 DEF Grounded
<1>2. ASSUME NEW w \in Callers, CreateCommits(w) PROVE Grounded'
  BY <1>0, <1>2
  DEF CreateCommits, Insert, ensure_run_waiting, Grounded, TypeOK, histVars
<1>2a. ASSUME NEW w \in Callers, CreatedUnread(w) PROVE Grounded'
  BY <1>0, <1>2a DEF CreatedUnread, Insert, ensure_run_waiting, Grounded, TypeOK
<1>3. ASSUME NEW w \in Callers, NEW i \in Ids, CapacityExceeded(w, i) PROVE Grounded'
  BY <1>0, <1>3 DEF CapacityExceeded, Requested, Grounded, TypeOK, rowVars
<1>4. ASSUME NEW i \in Ids, Delivered(i) PROVE Grounded'
  BY <1>0, <1>4 DEF Delivered, Deliverable, Grounded, TypeOK
<1>5. ASSUME NEW i \in Ids, NEW g \in 1 .. MaxGeneration, acknowledge_received(i, g)
      PROVE  Grounded'
  BY <1>0, <1>5 DEF acknowledge_received, Grounded, TypeOK
<1>6. ASSUME NEW i \in Ids, NEW g \in 0 .. MaxGeneration, NEW d \in Decisions, decide_request(i, g, d)
      PROVE  Grounded'
  BY <1>0, <1>6 DEF decide_request, Grounded, TypeOK, Pending, PendingOf
<1>7. ASSUME NEW i \in Ids, NEW s \in Expiries, expire(i, s) PROVE Grounded'
  BY <1>0, <1>7 DEF expire, StillDue, Grounded, TypeOK
<1>8. ASSUME NEW i \in Ids, finish(i) PROVE Grounded'
  <2>1. run[RunOf[i]] # "absent"
    BY <1>0, <1>8 DEF finish, RowShape, Grounded, Terminal, UserTerminal, Expiries
  <2>2. QED
    BY <1>0, <1>8, <2>1 DEF finish, Requested, Grounded, TypeOK, rowVars
<1>9. ASSUME NEW i \in Ids, DetachedCreate(i) PROVE Grounded'
  BY <1>0, <1>9 DEF DetachedCreate, Insert, ensure_run_waiting, Grounded, TypeOK, rowVars
<1>10. ASSUME NEW r \in Runs, StartRun(r) \/ CancelRun(r) \/ RunEnds(r) PROVE Grounded'
  BY <1>0, <1>10 DEF StartRun, CancelRun, RunEnds, Grounded, TypeOK, rowVars
<1>11. ASSUME NEW r \in Runs, RequestStop(r) PROVE Grounded'
  BY <1>0, <1>11 DEF RequestStop, Requested, Grounded, TypeOK, rowVars
<1>12. ASSUME NEW r \in Runs, complete_runtime_cancellation(r) PROVE Grounded'
  BY <1>0, <1>12
  DEF complete_runtime_cancellation, Grounded, TypeOK, Pending, PendingOf, Stopped
<1>12a. ASSUME NEW r \in Runs, CancellationInvalid(r) PROVE Grounded'
  BY <1>0, <1>12a DEF CancellationInvalid, Grounded, TypeOK, rowVars
<1>13. ASSUME reconcile_capacity_after_restart PROVE Grounded'
  BY <1>0, <1>13 DEF reconcile_capacity_after_restart, Grounded, TypeOK, Pending
<1>14. QED
  BY <1>1, <1>2, <1>2a, <1>3, <1>4, <1>5, <1>6, <1>7, <1>8, <1>9, <1>10, <1>11, <1>12, <1>12a,
     <1>13
  DEF Next, CallerStep, ClientStep, ServiceStep, RunStep, mark_dispatched, claim_redelivery,
      prepare_recovery_delivery, vars, rowVars, histVars, AcquirePermit, CreateJoins,
      CreateRefused, CreateFails, DropCaller, FirstRead, register_wakeup, SecondRead, Woken,
      RereadOnTimer, AwaitFails, TimePasses, ReadDue, FinisherLost

(* The Runs that were told to stop, as the contract sees them. *)
Stopping == {r \in Runs : term[r] # "none" \/ run[r] \in Stopped}

(* Only a Run that was told to stop drops the creators of its requests. *)
DroppedByStop == \A i \in detached : RunOf[i] \in Stopping

(* A Run that was told to stop has been told for good, until a restart, which  *)
(* ends the transactions left behind as well.                                  *)
LEMMA DroppedByStopStep ==
    ASSUME TypeOK, DroppedByStop, [Next]_vars
    PROVE  DroppedByStop'
<1> USE InteractionConstants DEF Stopping, Stopped, DroppedByStop
<1>1. ASSUME UNCHANGED <<run, term, detached>> PROVE DroppedByStop'
  BY <1>1
<1>2. ASSUME NEW w \in Callers, NEW i \in Ids, CapacityExceeded(w, i) PROVE DroppedByStop'
  BY <1>2 DEF CapacityExceeded, Requested, TypeOK
<1>3. ASSUME NEW w \in Callers, CreateCommits(w) \/ CreatedUnread(w) PROVE DroppedByStop'
  BY <1>3 DEF CreateCommits, CreatedUnread, Insert, ensure_run_waiting, TypeOK
<1>4. ASSUME NEW w \in Callers, DropCaller(w) PROVE DroppedByStop'
  BY <1>4 DEF DropCaller, TypeOK
<1>5. ASSUME NEW i \in Ids, NEW g \in 0 .. MaxGeneration, NEW d \in Decisions, decide_request(i, g, d)
      PROVE  DroppedByStop'
  BY <1>5 DEF decide_request, TypeOK
<1>6. ASSUME NEW i \in Ids, finish(i) PROVE DroppedByStop'
  BY <1>6 DEF finish, Requested, TypeOK
<1>7. ASSUME NEW i \in Ids, DetachedCreate(i) PROVE DroppedByStop'
  BY <1>7 DEF DetachedCreate, Insert, ensure_run_waiting, TypeOK
<1>8. ASSUME NEW r \in Runs, StartRun(r) \/ RequestStop(r) \/ CancelRun(r) \/ RunEnds(r)
      PROVE  DroppedByStop'
  BY <1>8 DEF StartRun, RequestStop, Requested, CancelRun, RunEnds, TypeOK
<1>9. ASSUME NEW r \in Runs, complete_runtime_cancellation(r) \/ CancellationInvalid(r)
      PROVE  DroppedByStop'
  BY <1>9 DEF complete_runtime_cancellation, CancellationInvalid, TypeOK
<1>10. ASSUME reconcile_capacity_after_restart PROVE DroppedByStop'
  BY <1>10 DEF reconcile_capacity_after_restart
<1>11. QED
  BY <1>1, <1>2, <1>3, <1>4, <1>5, <1>6, <1>7, <1>8, <1>9, <1>10
  DEF Next, CallerStep, ClientStep, ServiceStep, RunStep, mark_dispatched, claim_redelivery,
      prepare_recovery_delivery, vars, rowVars, histVars, AcquirePermit, CreateJoins,
      CreateRefused, CreateFails, FirstRead, register_wakeup, SecondRead, Woken, RereadOnTimer,
      AwaitFails, Delivered, acknowledge_received, TimePasses, ReadDue, expire, FinisherLost

(* A step that leaves what the contract sees alone is no step of it. *)
LEMMA QuietMaps ==
    ASSUME UNCHANGED <<status, run, faults>>,
           \A i \in Ids : ContractShown(i)' = ContractShown(i),
           \A w \in Callers : ContractAwaits(w)' = ContractAwaits(w),
           \A w \in Callers : ContractTold(w)' = ContractTold(w),
           Stopping' = Stopping
    PROVE  UNCHANGED Contract!vars
<1>1. \A r \in Runs : ContractPhase(r)' = ContractPhase(r)
  BY DEF ContractPhase
<1>2. QED
  BY <1>1 DEF Contract!vars, Stopping

(* A Run that is told to stop, told again, or stopped already. *)
LEMMA StopMaps ==
    ASSUME NEW r \in Runs, run[r] # "absent", term' = Requested(r),
           term \in [Runs -> {"none", "signalled", "cancelled"}],
           UNCHANGED <<status, run, faults>>,
           \A i \in Ids : ContractShown(i)' = ContractShown(i),
           \A w \in Callers : ContractAwaits(w)' = ContractAwaits(w),
           \A w \in Callers : ContractTold(w)' = ContractTold(w)
    PROVE  Contract!Next
<1>1. \A q \in Runs : ContractPhase(q)' = ContractPhase(q)
  BY DEF ContractPhase
<1>2. Stopping' = Stopping \cup {r}
  BY DEF Stopping, Requested
<1>3. ContractPhase(r) # "absent"
  BY DEF ContractPhase
<1>4. Contract!Stop(r)
  BY <1>1, <1>2, <1>3 DEF Contract!Stop, Stopping
<1>5. QED
  BY <1>4 DEF Contract!Next

(* A row is inserted: for a caller that goes on to await it, for one that was  *)
(* dropped with its Run, or for one that lost the store.                       *)
LEMMA FileMaps ==
    ASSUME TypeOK, NEW i \in Ids, Insert(i), UNCHANGED term,
           \A v \in Callers : ContractTold(v)' = ContractTold(v),
           \/ /\ \E w \in Callers :
                    /\ ContractAwaits(w) = {}
                    /\ \A v \in Callers : ContractAwaits(v)' = IF v = w THEN {i} ELSE ContractAwaits(v)
              /\ UNCHANGED faults
           \/ /\ RunOf[i] \in Stopping /\ UNCHANGED faults
              /\ \A v \in Callers : ContractAwaits(v)' = ContractAwaits(v)
           \/ /\ faults' = faults + 1
              /\ \A v \in Callers : ContractAwaits(v)' = ContractAwaits(v)
    PROVE  Contract!Next
<1>1. /\ status[i] = "absent" /\ status' = [status EXCEPT ![i] = "pending"]
      /\ run[RunOf[i]] \in {"running", "waitingInteraction"} /\ RunOf[i] \in Runs
      /\ run' = [run EXCEPT ![RunOf[i]] = "waitingInteraction"]
      /\ UNCHANGED <<received, generation>>
  BY InteractionConstants DEF Insert, ensure_run_waiting
<1>2. \A r \in Runs : ContractPhase(r)' = IF r = RunOf[i] THEN "waiting" ELSE ContractPhase(r)
  BY <1>1 DEF ContractPhase, TypeOK
<1>3. ContractPhase(RunOf[i]) \in {"working", "waiting"}
  BY <1>1 DEF ContractPhase
<1>4. Stopping' = Stopping
  BY <1>1 DEF Stopping, Stopped, TypeOK
<1>5. \A j \in Ids : ContractShown(j)' = ContractShown(j)
  BY <1>1 DEF ContractShown
<1>6. [r \in Runs |-> ContractPhase(r)']
          = [[r \in Runs |-> ContractPhase(r)] EXCEPT ![RunOf[i]] = "waiting"]
  BY <1>2
<1> DEFINE awaits == [v \in Callers |-> ContractAwaits(v)]
<1>7. \/ /\ \E w \in Callers : awaits[w] = {} /\ awaits' = [awaits EXCEPT ![w] = {i}]
         /\ UNCHANGED faults
      \/ RunOf[i] \in Stopping /\ UNCHANGED <<awaits, faults>>
      \/ faults' = faults + 1 /\ UNCHANGED awaits
  <2>1. ASSUME NEW w \in Callers, ContractAwaits(w) = {},
               \A v \in Callers : ContractAwaits(v)' = IF v = w THEN {i} ELSE ContractAwaits(v)
        PROVE  awaits[w] = {} /\ awaits' = [awaits EXCEPT ![w] = {i}]
    BY <2>1
  <2>2. ASSUME \A v \in Callers : ContractAwaits(v)' = ContractAwaits(v) PROVE UNCHANGED awaits
    BY <2>2
  <2>3. QED
    BY <2>1, <2>2
<1>8. UNCHANGED <<[j \in Ids |-> ContractShown(j)], [v \in Callers |-> ContractTold(v)], Stopping>>
  BY <1>4, <1>5
<1>9. [r \in Runs |-> ContractPhase(r)][RunOf[i]] \in {"working", "waiting"}
  BY <1>1, <1>3
<1>10. Contract!File(i)
  BY <1>1, <1>6, <1>7, <1>8, <1>9 DEF Contract!File, Stopping
<1>11. QED
  BY <1>10 DEF Contract!Next

(* What stays as it is while callers come and go. *)
LEMMA RowsStand ==
    ASSUME UNCHANGED <<run, received, generation>>
    PROVE  /\ \A q \in Runs : ContractPhase(q)' = ContractPhase(q)
           /\ \A i \in Ids : ContractShown(i)' = ContractShown(i)
BY DEF ContractPhase, ContractShown

(* A caller that awaited a request and is told how it ended. *)
LEMMA ReturnMaps ==
    ASSUME TypeOK, NEW w \in Callers, Stopping' = Stopping,
           caller[w].pc \in {"await", "checked", "registered", "parked"},
           status[caller[w].id] \in Terminal,
           \A v \in Callers : ContractAwaits(v)' = IF v = w THEN {} ELSE ContractAwaits(v),
           \A v \in Callers : ContractTold(v)' = IF v = w THEN status[caller[w].id] ELSE ContractTold(v),
           UNCHANGED <<status, run, received, generation, faults>>
    PROVE  Contract!Next
<1>1. caller[w].id \in ContractAwaits(w) /\ status[caller[w].id] \in Contract!Outcomes
  BY DEF ContractAwaits, Contract!Outcomes, Contract!Answers, Terminal, UserTerminal, Expiries
<1>2. [v \in Callers |-> ContractTold(v)']
          = [[v \in Callers |-> ContractTold(v)] EXCEPT ![w] = status[caller[w].id]]
  OBVIOUS
<1>3. [v \in Callers |-> ContractAwaits(v)'] = [[v \in Callers |-> ContractAwaits(v)] EXCEPT ![w] = {}]
  OBVIOUS
<1>4. Contract!Return(w)
  BY <1>1, <1>2, <1>3, RowsStand DEF Contract!Return, Stopping
<1>5. QED
  BY <1>4 DEF Contract!Next

(* A caller that is dropped with its Run. *)
LEMMA LeaveMaps ==
    ASSUME TypeOK, NEW w \in Callers, Stopping' = Stopping,
           caller[w].pc \in {"await", "checked", "registered", "parked"},
           RunOf[caller[w].id] \in Stopping,
           \A v \in Callers : ContractAwaits(v)' = IF v = w THEN {} ELSE ContractAwaits(v),
           \A v \in Callers : ContractTold(v)' = ContractTold(v),
           UNCHANGED <<status, run, received, generation, faults>>
    PROVE  Contract!Next
<1>1. caller[w].id \in ContractAwaits(w)
  BY DEF ContractAwaits
<1>2. [v \in Callers |-> ContractAwaits(v)'] = [[v \in Callers |-> ContractAwaits(v)] EXCEPT ![w] = {}]
  OBVIOUS
<1>3. Contract!Leave(w)
  BY <1>1, <1>2, RowsStand DEF Contract!Leave, Stopping
<1>4. QED
  BY <1>3 DEF Contract!Next

(* A failure that costs a caller its answer, or costs no caller anything. *)
LEMMA FailMaps ==
    ASSUME Stopping' = Stopping, faults' = faults + 1,
           \/ \A v \in Callers : ContractAwaits(v)' = ContractAwaits(v)
           \/ \E w \in Callers : \A v \in Callers :
                  ContractAwaits(v)' = IF v = w THEN {} ELSE ContractAwaits(v),
           \A v \in Callers : ContractTold(v)' = ContractTold(v),
           UNCHANGED <<status, run, received, generation>>
    PROVE  Contract!Next
<1> DEFINE awaits == [v \in Callers |-> ContractAwaits(v)]
<1>1. UNCHANGED awaits \/ \E w \in Callers : awaits' = [awaits EXCEPT ![w] = {}]
  <2>1. ASSUME NEW w \in Callers,
               \A v \in Callers : ContractAwaits(v)' = IF v = w THEN {} ELSE ContractAwaits(v)
        PROVE  awaits' = [awaits EXCEPT ![w] = {}]
    BY <2>1
  <2>2. ASSUME \A v \in Callers : ContractAwaits(v)' = ContractAwaits(v) PROVE UNCHANGED awaits
    BY <2>2
  <2>3. QED
    BY <2>1, <2>2
<1>2. Contract!Fail
  BY <1>1, RowsStand DEF Contract!Fail, Stopping
<1>3. QED
  BY <1>2 DEF Contract!Next

(* Every step is a step of the contract or leaves what it sees alone. *)
LEMMA ContractStep ==
    ASSUME IInv, Grounded, DroppedByStop, Next
    PROVE  Contract!Next \/ UNCHANGED Contract!vars
<1> USE InteractionConstants, NoCallerType
<1> DEFINE Maps == Contract!Next \/ UNCHANGED Contract!vars
<1>0. /\ TypeOK /\ RowShape /\ CallerShape /\ WaiterSeesOutcome
      /\ term \in [Runs -> {"none", "signalled", "cancelled"}]
  <2>1. TypeOK /\ RowShape /\ CallerShape /\ WaiterSeesOutcome
    BY DEF IInv
  <2>2. term \in [Runs -> {"none", "signalled", "cancelled"}]
    BY <2>1 DEF TypeOK
  <2>3. QED
    BY <2>1, <2>2
<1>1. ASSUME NEW w \in Callers, NEW i \in Ids, AcquirePermit(w, i) PROVE Maps
  <2>1. /\ \A v \in Callers : ContractAwaits(v)' = ContractAwaits(v)
        /\ \A v \in Callers : ContractTold(v)' = ContractTold(v)
    <3>1. /\ \A v \in Callers \ {w} : caller'[v] = caller[v]
          /\ caller'[w].pc = "creating" /\ caller[w].pc = "idle"
      BY <1>0, <1>1 DEF AcquirePermit, At, TypeOK
    <3>2. QED
      BY <3>1 DEF ContractAwaits, ContractTold
  <2>2. QED
    BY <1>1, <2>1, QuietMaps DEF AcquirePermit, ContractShown, Stopping, rowVars, histVars
<1>2. ASSUME NEW w \in Callers, NEW i \in Ids, CapacityExceeded(w, i) PROVE Maps
  <2>1. /\ \A v \in Callers : ContractAwaits(v)' = ContractAwaits(v)
        /\ \A v \in Callers : ContractTold(v)' = ContractTold(v)
    BY <1>2 DEF CapacityExceeded, ContractAwaits, ContractTold
  <2>2. QED
    BY <1>0, <1>2, <2>1, StopMaps DEF CapacityExceeded, ContractShown, rowVars, histVars
<1>3. ASSUME NEW w \in Callers, CreateCommits(w) PROVE Maps
  <2>1. PICK i \in Ids : i = caller[w].id
    BY <1>0 DEF TypeOK
  <2>2. Insert(i) /\ UNCHANGED <<term, faults>>
    BY <1>3, <2>1 DEF CreateCommits, histVars
  <2>3. /\ \A v \in Callers \ {w} : caller'[v] = caller[v]
        /\ caller[w].pc = "creating" /\ caller'[w].pc = "await" /\ caller'[w].id = i
    BY <1>0, <1>3, <2>1 DEF CreateCommits, At, Goes, TypeOK
  <2>4. /\ \A v \in Callers : ContractAwaits(v)' = IF v = w THEN {i} ELSE ContractAwaits(v)
        /\ \A v \in Callers : ContractTold(v)' = ContractTold(v)
        /\ ContractAwaits(w) = {}
    BY <2>3 DEF ContractAwaits, ContractTold
  <2>5. QED
    BY <1>0, <2>2, <2>4, FileMaps
<1>3a. ASSUME NEW w \in Callers, CreatedUnread(w) PROVE Maps
  <2>1. PICK i \in Ids : i = caller[w].id
    BY <1>0 DEF TypeOK
  <2>2. Insert(i) /\ UNCHANGED term /\ faults' = faults + 1
    BY <1>3a, <2>1 DEF CreatedUnread, Fails
  <2>3. /\ \A v \in Callers \ {w} : caller'[v] = caller[v]
        /\ caller[w].pc = "creating" /\ caller'[w] = Done
    BY <1>0, <1>3a DEF CreatedUnread, At, Returns, TypeOK
  <2>4. /\ \A v \in Callers : ContractAwaits(v)' = ContractAwaits(v)
        /\ \A v \in Callers : ContractTold(v)' = ContractTold(v)
    BY <1>0, <2>3, NoCallerType DEF ContractAwaits, ContractTold, CallerShape
  <2>5. QED
    BY <1>0, <2>2, <2>4, FileMaps
<1>3b. ASSUME NEW w \in Callers, CreateFails(w) PROVE Maps
  <2>1. /\ \A v \in Callers \ {w} : caller'[v] = caller[v]
        /\ caller[w].pc = "creating" /\ caller'[w] = Done
    BY <1>0, <1>3b DEF CreateFails, At, Returns, TypeOK
  <2>2. /\ \A v \in Callers : ContractAwaits(v)' = ContractAwaits(v)
        /\ \A v \in Callers : ContractTold(v)' = ContractTold(v)
    BY <2>1 DEF ContractAwaits, ContractTold
  <2>3. UNCHANGED <<run, status, received, generation, term>> /\ faults' = faults + 1
    BY <1>3b DEF CreateFails, Fails, rowVars
  <2>4. QED
    BY <2>2, <2>3, FailMaps DEF Stopping
<1>4. ASSUME NEW w \in Callers, CreateJoins(w) PROVE Maps
  <2> DEFINE i == caller[w].id
  <2>1. i \in Ids /\ status[i] # "absent"
        /\ UNCHANGED <<run, status, received, generation, term, faults>>
    BY <1>0, <1>4 DEF CreateJoins, TypeOK, rowVars, histVars
  <2>2. /\ \A v \in Callers : ContractAwaits(v)' = IF v = w THEN {i} ELSE ContractAwaits(v)
        /\ \A v \in Callers : ContractTold(v)' = ContractTold(v)
    <3>1. /\ \A v \in Callers \ {w} : caller'[v] = caller[v]
          /\ caller[w].pc = "creating"
          /\ caller'[w].pc = "await" /\ caller'[w].id = caller[w].id
      BY <1>0, <1>4 DEF CreateJoins, At, Goes, TypeOK
    <3>2. \A v \in Callers : ContractAwaits(v)' = IF v = w THEN {i} ELSE ContractAwaits(v)
      BY <3>1 DEF ContractAwaits
    <3>3. \A v \in Callers : ContractTold(v)' = ContractTold(v)
      BY <3>1 DEF ContractTold
    <3>4. QED
      BY <3>2, <3>3
  <2>3. ContractAwaits(w) = {}
    BY <1>4 DEF CreateJoins, At, ContractAwaits
  <2>4. /\ \A j \in Ids : ContractShown(j)' = ContractShown(j)
        /\ \A r \in Runs : ContractPhase(r)' = ContractPhase(r)
        /\ Stopping' = Stopping
    BY <2>1 DEF ContractShown, ContractPhase, Stopping
  <2>5. [v \in Callers |-> ContractAwaits(v)']
              = [[v \in Callers |-> ContractAwaits(v)] EXCEPT ![w] = {i}]
    BY <2>2
  <2>6. Contract!Join(w, i)
    BY <2>1, <2>2, <2>3, <2>4, <2>5 DEF Contract!Join, Stopping
  <2>7. QED
    BY <2>1, <2>6 DEF Contract!Next
<1>5. ASSUME NEW w \in Callers, CreateRefused(w) PROVE Maps
  <2>1. /\ \A v \in Callers \ {w} : caller'[v] = caller[v]
        /\ caller[w].pc = "creating" /\ caller'[w] = Done
    BY <1>0, <1>5 DEF CreateRefused, At, Returns, TypeOK
  <2>2. /\ \A v \in Callers : ContractAwaits(v)' = ContractAwaits(v)
        /\ \A v \in Callers : ContractTold(v)' = ContractTold(v)
    BY <2>1 DEF ContractAwaits, ContractTold
  <2>3. QED
    BY <1>5, <2>2, QuietMaps DEF CreateRefused, ContractShown, Stopping, rowVars, histVars
<1>6. ASSUME NEW w \in Callers, DropCaller(w) PROVE Maps
  <2>1. /\ \A v \in Callers \ {w} : caller'[v] = caller[v]
        /\ caller[w].pc # "done" /\ caller'[w] = Done
    BY <1>0, <1>6 DEF DropCaller, Returns, TypeOK
  <2>2. /\ \A v \in Callers : ContractAwaits(v)' = IF v = w THEN {} ELSE ContractAwaits(v)
        /\ \A v \in Callers : ContractTold(v)' = ContractTold(v)
    BY <2>1 DEF ContractAwaits, ContractTold
  <2>3. /\ UNCHANGED <<run, status, received, generation, term, faults>>
        /\ RunOf[caller[w].id] \in Stopping
    BY <1>0, <1>6 DEF DropCaller, Stopping, TypeOK, rowVars, histVars
  <2>4. Stopping' = Stopping /\ \A j \in Ids : ContractShown(j)' = ContractShown(j)
    BY <2>3 DEF Stopping, ContractShown
  <2>5. CASE caller[w].pc \in {"await", "checked", "registered", "parked"}
    BY <1>0, <2>2, <2>3, <2>4, <2>5, LeaveMaps
  <2>6. CASE caller[w].pc \notin {"await", "checked", "registered", "parked"}
    <3>1. \A v \in Callers : ContractAwaits(v)' = ContractAwaits(v)
      BY <2>2, <2>6 DEF ContractAwaits
    <3>2. QED
      BY <2>2, <2>3, <2>4, <3>1, QuietMaps
  <2>7. QED
    BY <2>5, <2>6
<1>6a. ASSUME NEW w \in Callers, AwaitFails(w) PROVE Maps
  <2>1. /\ \A v \in Callers \ {w} : caller'[v] = caller[v]
        /\ caller[w].pc # "done" /\ caller'[w] = Done
    BY <1>0, <1>6a DEF AwaitFails, Returns, TypeOK
  <2>2. /\ \A v \in Callers : ContractAwaits(v)' = IF v = w THEN {} ELSE ContractAwaits(v)
        /\ \A v \in Callers : ContractTold(v)' = ContractTold(v)
    BY <2>1 DEF ContractAwaits, ContractTold
  <2>3. UNCHANGED <<run, status, received, generation, term>> /\ faults' = faults + 1
    BY <1>6a DEF AwaitFails, Fails, rowVars
  <2>4. QED
    BY <2>2, <2>3, FailMaps DEF Stopping
<1>7. ASSUME NEW w \in Callers,
             FirstRead(w) \/ SecondRead(w) \/ Woken(w) \/ RereadOnTimer(w)
      PROVE  Maps
  <2>1. /\ UNCHANGED <<run, status, received, generation, term, faults>>
        /\ caller[w].pc \in {"await", "checked", "registered", "parked"}
    BY <1>7 DEF FirstRead, SecondRead, Woken, RereadOnTimer, At, rowVars, histVars
  <2>2. Stopping' = Stopping /\ \A j \in Ids : ContractShown(j)' = ContractShown(j)
    BY <2>1 DEF Stopping, ContractShown
  <2> DEFINE Told == /\ status[caller[w].id] \in Terminal
                     /\ caller'[w].pc = "done" /\ caller'[w].rx = status[caller[w].id]
             Stays == /\ caller'[w].pc \in {"await", "checked", "registered", "parked"}
                      /\ caller'[w].id = caller[w].id
             Others == \A v \in Callers \ {w} :
                          /\ caller'[v].pc = caller[v].pc /\ caller'[v].id = caller[v].id
                          /\ caller[v].pc = "done" => caller'[v].rx = caller[v].rx
  <2>3. Others /\ (Told \/ Stays)
    <3>1. CASE FirstRead(w)
      BY <1>0, <3>1 DEF FirstRead, At, Tells, Goes, TypeOK
    <3>2. CASE SecondRead(w)
      <4>1. CASE status[caller[w].id] \in Terminal
        <5>1. \A v \in Callers : caller[v].pc = "done" => caller[v].rx # "waiting"
          BY <1>0 DEF CallerShape, Terminal, UserTerminal, Expiries
        <5>2. QED
          BY <1>0, <3>2, <4>1, <5>1 DEF SecondRead, TypeOK
      <4>2. CASE status[caller[w].id] \notin Terminal
        BY <1>0, <3>2, <4>2 DEF SecondRead, At, Goes, TypeOK
      <4>3. QED
        BY <4>1, <4>2
    <3>3. CASE Woken(w)
      BY <1>0, <3>3 DEF Woken, WaiterSeesOutcome, At, Tells, TypeOK
    <3>4. CASE RereadOnTimer(w)
      BY <1>0, <3>4 DEF RereadOnTimer, At, Tells, TypeOK
    <3>5. QED
      BY <1>7, <3>1, <3>2, <3>3, <3>4
  <2>4. CASE Told
    <3>1. \A v \in Callers : ContractAwaits(v)' = IF v = w THEN {} ELSE ContractAwaits(v)
      BY <2>3, <2>4 DEF ContractAwaits
    <3>2. \A v \in Callers : ContractTold(v)' = IF v = w THEN status[caller[w].id] ELSE ContractTold(v)
      BY <2>3, <2>4 DEF ContractTold
    <3>3. QED
      BY <1>0, <2>1, <2>2, <2>4, <3>1, <3>2, ReturnMaps
  <2>5. CASE Stays
    <3>1. /\ \A v \in Callers : ContractAwaits(v)' = ContractAwaits(v)
          /\ \A v \in Callers : ContractTold(v)' = ContractTold(v)
      BY <2>1, <2>3, <2>5 DEF ContractAwaits, ContractTold
    <3>2. QED
      BY <2>1, <2>2, <3>1, QuietMaps
  <2>6. QED
    BY <2>3, <2>4, <2>5
<1>8. ASSUME NEW w \in Callers, register_wakeup(w) PROVE Maps
  <2>1. /\ \A v \in Callers : ContractAwaits(v)' = ContractAwaits(v)
        /\ \A v \in Callers : ContractTold(v)' = ContractTold(v)
    <3>1. /\ \A v \in Callers \ {w} : caller'[v] = caller[v]
          /\ caller[w].pc = "checked" /\ caller'[w].pc = "registered"
          /\ caller'[w].id = caller[w].id
      BY <1>0, <1>8 DEF register_wakeup, At, TypeOK
    <3>2. QED
      BY <3>1 DEF ContractAwaits, ContractTold
  <2>2. QED
    BY <1>8, <2>1, QuietMaps DEF register_wakeup, ContractShown, Stopping, rowVars, histVars
<1>9. ASSUME NEW i \in Ids, Delivered(i) PROVE Maps
  <2>1. \A j \in Ids : ContractShown(j)' = ContractShown(j)
    BY <1>0, <1>9 DEF Delivered, Deliverable, ContractShown, TypeOK
  <2>2. /\ \A v \in Callers : ContractAwaits(v)' = ContractAwaits(v)
        /\ \A v \in Callers : ContractTold(v)' = ContractTold(v)
    BY <1>9 DEF Delivered, ContractAwaits, ContractTold
  <2>3. QED
    BY <1>9, <2>1, <2>2, QuietMaps DEF Delivered, Stopping, histVars
<1>10. ASSUME NEW i \in Ids, NEW g \in 1 .. MaxGeneration, acknowledge_received(i, g) PROVE Maps
  <2>1. /\ status[i] = "pending" /\ ContractShown(i) = 0
        /\ \A j \in Ids : ContractShown(j)' = IF j = i THEN g ELSE ContractShown(j)
    BY <1>0, <1>10 DEF acknowledge_received, ContractShown, TypeOK
  <2>2. /\ \A v \in Callers : ContractAwaits(v)' = ContractAwaits(v)
        /\ \A v \in Callers : ContractTold(v)' = ContractTold(v)
        /\ \A r \in Runs : ContractPhase(r)' = ContractPhase(r)
        /\ Stopping' = Stopping /\ UNCHANGED <<status, faults>>
    BY <1>10
    DEF acknowledge_received, ContractAwaits, ContractTold, ContractPhase, Stopping, histVars
  <2>3. [j \in Ids |-> ContractShown(j)'] = [[j \in Ids |-> ContractShown(j)] EXCEPT ![i] = g]
    BY <2>1
  <2>4. Contract!Show(i, g)
    BY <2>1, <2>2, <2>3 DEF Contract!Show, Stopping
  <2>5. QED
    BY <2>4 DEF Contract!Next
<1>11. ASSUME NEW i \in Ids, NEW g \in 0 .. MaxGeneration, NEW d \in Decisions, decide_request(i, g, d)
       PROVE  Maps
  <2> DEFINE r == RunOf[i]
  <2>1. /\ r \in Runs /\ status[i] = "pending" /\ status' = [status EXCEPT ![i] = d]
        /\ KindOf[i] = "permission" => received[i]
        /\ UNCHANGED <<received, generation, caller, term, faults>>
    BY <1>11 DEF decide_request, PermissionValid, histVars
  <2>2. KindOf[i] = "permission" => ContractShown(i) # 0
    BY <2>1 DEF ContractShown, Grounded
  <2>3. /\ \A j \in Ids : ContractShown(j)' = ContractShown(j)
        /\ \A v \in Callers : ContractAwaits(v)' = ContractAwaits(v)
        /\ \A v \in Callers : ContractTold(v)' = ContractTold(v)
    BY <2>1 DEF ContractShown, ContractAwaits, ContractTold
  <2>4. PendingOf(r) = Contract!PendingOf(r)
    BY DEF PendingOf, Pending, Contract!PendingOf
  <2>5. Stopping' = Stopping
    BY <1>0, <1>11, <2>1 DEF decide_request, Stopping, Stopped, TypeOK
  <2>6. \/ /\ PendingOf(r) = {i} /\ ContractPhase(r) = "waiting"
           /\ [q \in Runs |-> ContractPhase(q)']
                = [[q \in Runs |-> ContractPhase(q)] EXCEPT ![r] = "working"]
        \/ /\ PendingOf(r) # {i}
           /\ [q \in Runs |-> ContractPhase(q)'] = [q \in Runs |-> ContractPhase(q)]
    <3>1. CASE PendingOf(r) = {i}
      <4>1. run[r] = "waitingInteraction" /\ run' = [run EXCEPT ![r] = "running"]
        BY <1>11, <3>1 DEF decide_request
      <4>2. \A q \in Runs : ContractPhase(q)' = IF q = r THEN "working" ELSE ContractPhase(q)
        BY <1>0, <2>1, <4>1 DEF ContractPhase, TypeOK
      <4>3. [q \in Runs |-> ContractPhase(q)']
               = [[q \in Runs |-> ContractPhase(q)] EXCEPT ![r] = "working"]
        BY <4>2
      <4>4. ContractPhase(r) = "waiting"
        BY <4>1 DEF ContractPhase
      <4>5. QED
        BY <3>1, <4>3, <4>4
    <3>2. CASE PendingOf(r) # {i}
      <4>1. UNCHANGED run
        BY <1>11, <3>2 DEF decide_request
      <4>2. QED
        BY <3>2, <4>1 DEF ContractPhase
    <3>3. QED
      BY <3>1, <3>2
  <2>7. d \in Contract!Answers
    BY DEF Contract!Answers
  <2>8. Contract!Answer(i, d)
    BY <2>1, <2>2, <2>3, <2>4, <2>5, <2>6 DEF Contract!Answer, Stopping
  <2>9. QED
    BY <2>7, <2>8 DEF Contract!Next
<1>12. ASSUME NEW i \in Ids, TimePasses(i) \/ ReadDue(i) PROVE Maps
  BY <1>12, QuietMaps
  DEF TimePasses, ReadDue, ContractShown, ContractAwaits, ContractTold, Stopping, rowVars, histVars
<1>13. ASSUME NEW i \in Ids, NEW s \in Expiries, expire(i, s) PROVE Maps
  <2>1. /\ UNCHANGED <<run, received, generation, caller, term, faults>>
        /\ \A j \in Ids : ContractShown(j)' = ContractShown(j)
        /\ \A v \in Callers : ContractAwaits(v)' = ContractAwaits(v)
        /\ \A v \in Callers : ContractTold(v)' = ContractTold(v)
        /\ \A r \in Runs : ContractPhase(r)' = ContractPhase(r)
        /\ Stopping' = Stopping
    BY <1>13
    DEF expire, ContractShown, ContractAwaits, ContractTold, ContractPhase, Stopping, histVars
  <2>2. CASE StillDue(i, s)
    <3>1. /\ status[i] = "pending" /\ status' = [status EXCEPT ![i] = s]
          /\ s = IF ContractShown(i) = 0 THEN "undeliverable" ELSE "expired"
      BY <1>13, <2>2 DEF expire, StillDue, Expiries, ContractShown, Grounded
    <3>2. Contract!Expire(i)
      BY <2>1, <3>1 DEF Contract!Expire, Stopping
    <3>3. QED
      BY <3>2 DEF Contract!Next
  <2>3. CASE ~ StillDue(i, s)
    BY <1>13, <2>1, <2>3, QuietMaps DEF expire
  <2>4. QED
    BY <2>2, <2>3
<1>14. ASSUME NEW i \in Ids, finish(i) PROVE Maps
  <2>1. /\ UNCHANGED <<run, status, received, generation, faults>> /\ RunOf[i] \in Runs
        /\ run[RunOf[i]] # "absent"
    BY <1>0, <1>14
    DEF finish, RowShape, Grounded, Terminal, UserTerminal, Expiries, rowVars, histVars
  <2>2. /\ \A v \in Callers : ContractAwaits(v)' = ContractAwaits(v)
        /\ \A v \in Callers : ContractTold(v)' = ContractTold(v)
    <3>1. \A v \in Callers : /\ caller'[v].pc = caller[v].pc /\ caller'[v].id = caller[v].id
                             /\ caller[v].rx # "waiting" => caller'[v].rx = caller[v].rx
      BY <1>0, <1>14 DEF finish, TypeOK
    <3>2. \A v \in Callers : caller[v].pc = "done" => caller[v].rx # "waiting"
      BY <1>0 DEF CallerShape, Terminal, UserTerminal, Expiries
    <3>3. QED
      BY <3>1, <3>2 DEF ContractAwaits, ContractTold
  <2>3. \A j \in Ids : ContractShown(j)' = ContractShown(j)
    BY <2>1 DEF ContractShown
  <2>4. CASE term' = Requested(RunOf[i])
    BY <1>0, <2>1, <2>2, <2>3, <2>4, StopMaps
  <2>5. CASE UNCHANGED term
    BY <2>1, <2>2, <2>3, <2>5, QuietMaps DEF Stopping
  <2>6. QED
    BY <1>14, <2>4, <2>5 DEF finish
<1>15. ASSUME NEW i \in Ids, FinisherLost(i) PROVE Maps
  <2>1. UNCHANGED <<run, status, received, generation, term, caller>> /\ faults' = faults + 1
    BY <1>15 DEF FinisherLost, Fails, rowVars
  <2>2. QED
    BY <2>1, FailMaps DEF Stopping, ContractAwaits, ContractTold
<1>16. ASSUME NEW i \in Ids, DetachedCreate(i) PROVE Maps
  <2>1. /\ UNCHANGED <<caller, term, faults>> /\ RunOf[i] \in Stopping
        /\ \A v \in Callers : ContractAwaits(v)' = ContractAwaits(v)
        /\ \A v \in Callers : ContractTold(v)' = ContractTold(v)
    BY <1>16 DEF DetachedCreate, DroppedByStop, ContractAwaits, ContractTold
  <2>2. CASE Insert(i)
    BY <1>0, <2>1, <2>2, FileMaps
  <2>3. CASE UNCHANGED <<run, rowVars>>
    BY <2>1, <2>3, QuietMaps DEF Stopping, ContractShown, rowVars
  <2>4. QED
    BY <1>16, <2>2, <2>3 DEF DetachedCreate, rowVars
<1>17. ASSUME NEW r \in Runs, StartRun(r) PROVE Maps
  <2>1. run[r] = "absent" /\ run' = [run EXCEPT ![r] = "running"]
    BY <1>17 DEF StartRun
  <2>2. \A q \in Runs : ContractPhase(q)' = IF q = r THEN "working" ELSE ContractPhase(q)
    BY <1>0, <2>1 DEF ContractPhase, TypeOK
  <2>3. /\ UNCHANGED <<status, faults>> /\ ContractPhase(r) = "absent"
        /\ \A j \in Ids : ContractShown(j)' = ContractShown(j)
        /\ \A v \in Callers : ContractAwaits(v)' = ContractAwaits(v)
        /\ \A v \in Callers : ContractTold(v)' = ContractTold(v)
    BY <1>17
    DEF StartRun, ContractShown, ContractAwaits, ContractTold, ContractPhase, rowVars, histVars
  <2>4. Stopping' = Stopping
    BY <1>0, <1>17, <2>1 DEF StartRun, Stopping, Stopped, TypeOK
  <2>5. [q \in Runs |-> ContractPhase(q)'] = [[q \in Runs |-> ContractPhase(q)] EXCEPT ![r] = "working"]
    BY <2>2
  <2>6. Contract!Begin(r)
    BY <2>3, <2>4, <2>5 DEF Contract!Begin, Stopping
  <2>7. QED
    BY <2>6 DEF Contract!Next
<1>18. ASSUME NEW r \in Runs, RequestStop(r) PROVE Maps
  BY <1>0, <1>18, StopMaps
  DEF RequestStop, ContractShown, ContractAwaits, ContractTold, rowVars, histVars
<1>19. ASSUME NEW r \in Runs, CancelRun(r) \/ RunEnds(r) PROVE Maps
  <2>1. /\ run[r] # "absent" /\ UNCHANGED <<status, received, generation, caller, faults>>
        /\ \A q \in Runs \ {r} : term'[q] = term[q] /\ run'[q] = run[q]
        /\ term'[r] # "none" <=> term[r] # "none"
        /\ run'[r] \in Stopped
    BY <1>0, <1>19
    DEF CancelRun, RunEnds, Grounded, Stopped, TypeOK, RunStatus, rowVars, histVars
  <2>2. /\ \A j \in Ids : ContractShown(j)' = ContractShown(j)
        /\ \A v \in Callers : ContractAwaits(v)' = ContractAwaits(v)
        /\ \A v \in Callers : ContractTold(v)' = ContractTold(v)
        /\ \A q \in Runs : ContractPhase(q)' = IF q = r THEN "stopped" ELSE ContractPhase(q)
        /\ Stopping' = Stopping \cup {r}
    BY <2>1 DEF ContractShown, ContractAwaits, ContractTold, ContractPhase, Stopping, Stopped
  <2>3. CASE run[r] \in Stopped
    <3>1. \A q \in Runs : ContractPhase(q)' = ContractPhase(q)
      BY <2>2, <2>3 DEF ContractPhase, Stopped
    <3>2. Stopping' = Stopping
      BY <2>2, <2>3 DEF Stopping
    <3>3. QED
      BY <2>1, <2>2, <3>1, <3>2 DEF Contract!vars, Stopping
  <2>4. CASE run[r] \notin Stopped
    <3>1. ContractPhase(r) \in {"working", "waiting"}
      BY <1>0, <2>1, <2>4 DEF ContractPhase, Stopped, TypeOK, RunStatus
    <3>2. [q \in Runs |-> ContractPhase(q)']
             = [[q \in Runs |-> ContractPhase(q)] EXCEPT ![r] = "stopped"]
      BY <2>2
    <3>3. Contract!Halt(r)
      BY <2>1, <2>2, <3>1, <3>2 DEF Contract!Halt, Stopping
    <3>4. QED
      BY <3>3 DEF Contract!Next
  <2>5. QED
    BY <2>3, <2>4
<1>20. ASSUME NEW r \in Runs, complete_runtime_cancellation(r) PROVE Maps
  <2>1. /\ run[r] \in Stopped /\ UNCHANGED <<run, received, generation, caller, faults>>
        /\ status' = [i \in Ids |-> IF status[i] = "pending" /\ RunOf[i] = r
                                    THEN "cancelled" ELSE status[i]]
        /\ \A q \in Runs \ {r} : term'[q] = term[q]
    BY <1>0, <1>20 DEF complete_runtime_cancellation, PendingOf, Pending, TypeOK, histVars
  <2>2. /\ \A j \in Ids : ContractShown(j)' = ContractShown(j)
        /\ \A v \in Callers : ContractAwaits(v)' = ContractAwaits(v)
        /\ \A v \in Callers : ContractTold(v)' = ContractTold(v)
        /\ \A q \in Runs : ContractPhase(q)' = ContractPhase(q)
        /\ Stopping' = Stopping /\ ContractPhase(r) = "stopped"
    BY <2>1 DEF ContractShown, ContractAwaits, ContractTold, ContractPhase, Stopping, Stopped
  <2>3. Contract!Withdraw(r)
    BY <2>1, <2>2 DEF Contract!Withdraw, Stopping
  <2>4. QED
    BY <2>3 DEF Contract!Next
<1>20a. ASSUME NEW r \in Runs, CancellationInvalid(r) PROVE Maps
  <2>1. /\ UNCHANGED <<run, status, received, generation, caller, faults>> /\ run[r] \in Stopped
        /\ \A q \in Runs \ {r} : term'[q] = term[q]
    BY <1>0, <1>20a DEF CancellationInvalid, Stopped, rowVars, histVars
  <2>2. Stopping' = Stopping
    BY <2>1 DEF Stopping
  <2>3. QED
    BY <2>1, <2>2, QuietMaps DEF ContractShown, ContractAwaits, ContractTold
<1>21. ASSUME reconcile_capacity_after_restart PROVE Maps
  <2>1. /\ run' = [r \in Runs |-> IF run[r] # "absent" THEN "terminal" ELSE run[r]]
        /\ term' = [r \in Runs |-> "none"] /\ UNCHANGED <<received, generation, faults>>
        /\ caller' = [w \in Callers |-> IF At(w, "idle") THEN NoCaller ELSE Done]
    BY <1>21 DEF reconcile_capacity_after_restart
  <2>2. status' = [i \in Ids |-> IF status[i] = "pending" THEN "cancelled" ELSE status[i]]
    BY <1>0, <1>21 DEF reconcile_capacity_after_restart, RowShape, Pending
  <2>3. /\ \A j \in Ids : ContractShown(j)' = ContractShown(j)
        /\ \A v \in Callers : ContractAwaits(v)' = {} /\ ContractTold(v)' = "none"
        /\ \A q \in Runs : ContractPhase(q)' = IF ContractPhase(q) = "absent" THEN "absent" ELSE "stopped"
        /\ Stopping' = {q \in Runs : ContractPhase(q) # "absent"}
    BY <2>1 DEF ContractShown, ContractAwaits, ContractTold, ContractPhase, Stopping, Stopped
  <2>4. /\ [q \in Runs |-> ContractPhase(q)']
             = [q \in Runs |-> IF [p \in Runs |-> ContractPhase(p)][q] = "absent"
                               THEN "absent" ELSE "stopped"]
        /\ [v \in Callers |-> ContractAwaits(v)'] = [v \in Callers |-> {}]
        /\ [v \in Callers |-> ContractTold(v)'] = [v \in Callers |-> "none"]
        /\ [j \in Ids |-> ContractShown(j)'] = [j \in Ids |-> ContractShown(j)]
        /\ Stopping' = {q \in Runs : [p \in Runs |-> ContractPhase(p)][q] # "absent"}
    BY <2>3
  <2>5. Contract!Restart
    BY <2>1, <2>2, <2>4 DEF Contract!Restart, Stopping
  <2>6. QED
    BY <2>5 DEF Contract!Next
<1>22. QED
  BY <1>1, <1>2, <1>3, <1>3a, <1>3b, <1>4, <1>5, <1>6, <1>6a, <1>7, <1>8, <1>9, <1>10, <1>11,
     <1>12, <1>13, <1>14, <1>15, <1>16, <1>17, <1>18, <1>19, <1>20, <1>20a, <1>21
  DEF Next, CallerStep, ClientStep, ServiceStep, RunStep, mark_dispatched, claim_redelivery,
      prepare_recovery_delivery

(* The service implements InteractionContract: whatever tasks, sweeper,        *)
(* clients, a failing store and restarts do to rows, permits and channels,     *)
(* every step gives a request its one outcome, tells an asker that outcome,    *)
(* lets it go with its stopped Run or at the cost of a failure, sends a Run    *)
(* back to work with its last answer, or shows nothing.                        *)
THEOREM ServiceImplementsContract == Spec => ImplementsContract
<1>1. Init => Contract!Init
  BY InteractionConstants, NoCallerType
  DEF Init, Contract!Init, ContractShown, ContractAwaits, ContractTold, ContractPhase, Stopped
<1>2. IInv /\ Grounded /\ DroppedByStop /\ [Next]_vars => [Contract!Next]_(Contract!vars)
  <2>1. ASSUME UNCHANGED vars PROVE UNCHANGED Contract!vars
    BY <2>1, QuietMaps
    DEF vars, rowVars, histVars, ContractShown, ContractAwaits, ContractTold, Stopping
  <2>2. QED
    BY <2>1, ContractStep
<1>3. Init => Grounded /\ DroppedByStop
  BY InteractionConstants DEF Init, Grounded, DroppedByStop
<1>4. IInv /\ Grounded /\ [Next]_vars => Grounded'
  BY GroundedStep
<1>5. IInv /\ DroppedByStop /\ [Next]_vars => DroppedByStop'
  BY DroppedByStopStep DEF IInv
<1>6. QED
  BY Inductive, <1>1, <1>2, <1>3, <1>4, <1>5, PTL DEF Spec, ImplementsContract, Contract!Spec

================================================================================
