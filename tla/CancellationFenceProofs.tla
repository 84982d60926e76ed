------------------------- MODULE CancellationFenceProofs -------------------------
(***************************************************************************)
(* The safety of module CancellationFence for any number of children,       *)
(* requests and database failures: a receipt is durable for the whole scope *)
(* it was given for, and no fence outlives its Run.                         *)
(*                                                                          *)
(* ReceiptIsDurable looks at a request that is over; what makes it true is  *)
(* spread over the steps before.  The targets already visited must stay     *)
(* stopped (Covered), a reconcile that returns without writing found an     *)
(* entry that others had made durable (FenceShape: an entry that was ever   *)
(* installed is open or its Task has stopped), those others may be at any   *)
(* point between their write and the removal of the entry (ReconcileShape), *)
(* and a stopped Task never starts again, as only Tasks that exist are      *)
(* stopped (RowShape, ScopeShape).                                          *)
(***************************************************************************)
EXTENDS CancellationFence, TLAPS

(* A Task's row exists from its submission on; what is active exists.       *)
RowShape ==
    \A t \in Tasks :
        /\ own[t] \in {"none", "submitting"} => db[t] = "absent"
        /\ own[t] \notin {"none", "submitting", "gone"} => db[t] # "absent"
        /\ t \in active => db[t] # "absent"

(* A request stops only Tasks that exist.  While it visits one, that one    *)
(* has had an entry; when its reconcile has succeeded, it has stopped.      *)
ScopeShape ==
    \A k \in Cancellers :
        /\ req[k] # "idle" => db[target[k]] # "absent"
        /\ \A t \in scope[k] \cup todo[k] : db[t] # "absent"
        /\ req[k] = "busy" => gen[visiting[k]] > 0
        /\ rec[Canceller(k)] # "idle" => req[k] = "busy"
        /\ rec[Canceller(k)] = "ok" => db[visiting[k]] \in Stopped

(* Whoever reconciles a Run works on a Task that exists, and past its write *)
(* on one that has stopped.                                                 *)
ReconcileShape ==
    \A t \in Tasks :
        /\ rec[Owner(t)] # "idle" => own[t] \in {"stopping", "reconciling"}
        /\ \A p \in Reconcilers(t) :
              /\ rec[p] # "idle" => db[t] # "absent"
              /\ rec[p] \in {"mark", "check", "remove"} => db[t] \in Stopped

(* Once a Run has had an entry, the entry is open or the Task has stopped.  *)
FenceShape ==
    \A t \in Tasks : \/ gen[t] = 0 /\ fence[t] = "none"
                     \/ gen[t] > 0 /\ (fence[t] = "open" \/ db[t] \in Stopped)

(* A request that met no failure has stopped all of its scope except what   *)
(* it has still to visit.                                                   *)
Covered ==
    \A k \in Cancellers :
        /\ req[k] \in {"each", "busy", "receipt"} /\ ~ failed[k] =>
              \A t \in scope[k] : \/ db[t] \in Stopped
                                  \/ t \in todo[k]
                                  \/ req[k] = "busy" /\ t = visiting[k]
        /\ req[k] = "receipt" => ~ failed[k] /\ todo[k] = {}

IInv ==
    /\ TypeOK /\ RowShape /\ ScopeShape /\ ReconcileShape /\ FenceShape /\ Covered
    /\ FenceIsReleased

----------------------------------------------------------------------------------
(* The three kinds of processes and their numbers are told apart.           *)
LEMMA ProcFacts ==
    /\ \A t \in Tasks : Owner(t) \in Procs
    /\ \A t \in Tasks, g \in Entries : Reaper(t, g) \in Procs
    /\ \A k \in Cancellers : Canceller(k) \in Procs
    /\ \A t, g : Reaper(t, g) \in Procs => t \in Tasks /\ g \in Entries
    /\ \A t, u : Owner(t) = Owner(u) => t = u
    /\ \A t, u, g, h : Reaper(t, g) = Reaper(u, h) => t = u /\ g = h
    /\ \A k, j : Canceller(k) = Canceller(j) => k = j
    /\ \A t, u, g : Owner(t) # Reaper(u, g)
    /\ \A t, k : Owner(t) # Canceller(k)
    /\ \A t, g, k : Reaper(t, g) # Canceller(k)
<1>1. \A t, u, g : Owner(t) # Reaper(u, g)
  BY DEF Owner, Reaper
<1>2. \A t, k : Owner(t) # Canceller(k)
  BY DEF Owner, Canceller
<1>3. \A t, g, k : Reaper(t, g) # Canceller(k)
  BY DEF Reaper, Canceller
<1>4. \A t, u, g, h : Reaper(t, g) = Reaper(u, h) => t = u /\ g = h
  BY DEF Reaper
<1>5. \A t, u : Owner(t) = Owner(u) => t = u
  BY DEF Owner
<1>6. \A k, j : Canceller(k) = Canceller(j) => k = j
  BY DEF Canceller
<1>7. \A t, g : Reaper(t, g) \in Procs => t \in Tasks /\ g \in Entries
  BY <1>1, <1>3, <1>4 DEF Procs
<1>8. QED
  BY <1>1, <1>2, <1>3, <1>4, <1>5, <1>6, <1>7 DEF Procs

(* A process reconciles one Run at a time.                                  *)
LEMMA ReconcilersFacts ==
    /\ \A t \in Tasks : /\ Reconcilers(t) \subseteq Procs
                        /\ Owner(t) \in Reconcilers(t)
                        /\ \A g \in Entries : Reaper(t, g) \in Reconcilers(t)
    /\ \A k \in Cancellers : Canceller(k) \in Reconcilers(visiting[k])
    /\ \A t, u \in Tasks : \A p \in Reconcilers(t) : p \in Reconcilers(u) => t = u
    /\ \A t \in Tasks, k \in Cancellers : Canceller(k) \in Reconcilers(t) => visiting[k] = t
    /\ \A t, u \in Tasks : Owner(u) \in Reconcilers(t) => t = u
BY ProcFacts DEF Reconcilers

(* start_reconciler starts a process of the Run, or nothing.                *)
LEMMA StartReconciler ==
    ASSUME TypeOK, NEW t \in Tasks, NEW g
    PROVE  /\ start_reconciler(t, g) \in [Procs -> RecState]
           /\ \A p \in Procs :
                 \/ start_reconciler(t, g)[p] = rec[p]
                 \/ /\ rec[p] = "idle" /\ start_reconciler(t, g)[p] = "load"
                    /\ p \in Reconcilers(t)
           /\ \A u \in Tasks : start_reconciler(t, g)[Owner(u)] = rec[Owner(u)]
           /\ \A k \in Cancellers : start_reconciler(t, g)[Canceller(k)] = rec[Canceller(k)]
<1> DEFINE f == start_reconciler(t, g)
           r == Reaper(t, g)
<1>1. f = [p \in Procs |-> IF p = r THEN IF rec[r] = "idle" THEN "load" ELSE rec[r]
                           ELSE rec[p]]
  BY DEF start_reconciler, TypeOK
<1>2. \A p \in Procs : p # r => f[p] = rec[p]
  BY <1>1
<1>3. r \in Procs => f[r] = IF rec[r] = "idle" THEN "load" ELSE rec[r]
  BY <1>1
<1>4. r \in Procs => r \in Reconcilers(t)
  BY ProcFacts, ReconcilersFacts
<1>5. \A p \in Procs : f[p] \in RecState
  BY <1>2, <1>3 DEF TypeOK, RecState
<1>6. f \in [Procs -> RecState]
  BY <1>1, <1>5
<1>7. \A u \in Tasks : f[Owner(u)] = rec[Owner(u)]
  BY <1>2, ProcFacts
<1>8. \A k \in Cancellers : f[Canceller(k)] = rec[Canceller(k)]
  BY <1>2, ProcFacts
<1>9. QED
  BY <1>2, <1>3, <1>4, <1>6, <1>7, <1>8

(* A database call that fails leaves the rows as they are.                  *)
LEMMA Failing ==
    ASSUME TypeOK, DbFails
    PROVE  failures' \in 0 .. MaxFailures /\ db' = db
BY FenceAssumption DEF TypeOK, DbFails

(* install gives a Run without an entry its next one, open, and leaves the  *)
(* others alone.                                                            *)
LEMMA Install ==
    ASSUME TypeOK, NEW t \in Tasks, install(t)
    PROVE  /\ fence' \in [Tasks -> {"none", "open", "reconciled"}]
           /\ gen' \in [Tasks -> 0 .. MaxEntries]
           /\ token' \subseteq Tasks
           /\ \A u \in Tasks : \/ fence'[u] = fence[u] /\ gen'[u] = gen[u]
                               \/ /\ u = t /\ fence[u] = "none" /\ fence'[u] = "open"
                                  /\ gen'[u] = gen[u] + 1
           /\ fence'[t] # "none"
BY FenceAssumption DEF TypeOK, install

(* A request's scope consists of Tasks: the target, and below it only what  *)
(* was found.                                                               *)
LEMMA Subtree ==
    ASSUME NEW t \in Tasks, NEW S \in SUBSET Tasks
    PROVE  /\ attached_subtree(t, S) \subseteq Tasks
           /\ attached_subtree(t, S) \subseteq {t} \cup S
BY DEF attached_subtree

(* The types are kept. *)
LEMMA TypeStep ==
    ASSUME TypeOK, [Next]_vars
    PROVE  TypeOK'
<1>1. ASSUME UNCHANGED <<vars>> PROVE TypeOK'
  BY <1>1 DEF TypeOK, Tasks, RecState, vars
<1>2. ASSUME StartRoot PROVE TypeOK'
  BY <1>2, FenceAssumption, ProcFacts
  DEF StartRoot, Db, OwnerTo, TypeOK, Tasks, RecState, vars, fenceVars, cancelVars
<1>3. ASSUME RootReread PROVE TypeOK'
  BY <1>3, FenceAssumption, ProcFacts
  DEF RootReread, DbFails, OwnerTo, TypeOK, Tasks, RecState, vars, cancelVars
<1>4. ASSUME NEW t \in Tasks, Register(t) PROVE TypeOK'
  BY <1>4, FenceAssumption, ProcFacts
  DEF Register, OwnerTo, TypeOK, Tasks, RecState, vars, fenceVars, cancelVars
<1>5. ASSUME NEW t \in Tasks, Inherit(t) PROVE TypeOK'
  <2>1. rec' \in [Procs -> RecState]
    BY <1>5, StartReconciler DEF Inherit, inherit_and_signal, TypeOK
  <2>2. /\ fence' \in [Tasks -> {"none", "open", "reconciled"}]
        /\ gen' \in [Tasks -> 0 .. MaxEntries] /\ token' \subseteq Tasks
    BY <1>5, Install DEF Inherit, inherit_and_signal, TypeOK, fenceVars
  <2>3. QED
    BY <1>5, <2>1, <2>2 DEF Inherit, OwnerTo, TypeOK, cancelVars
<1>6. ASSUME NEW t \in Tasks, ExecutorEnds(t) PROVE TypeOK'
  BY <1>6, FenceAssumption, ProcFacts
  DEF ExecutorEnds, OwnerTo, TypeOK, Tasks, RecState, vars, fenceVars, cancelVars
<1>7. ASSUME NEW t \in Tasks, EndReconcile(t) PROVE TypeOK'
  BY <1>7, FenceAssumption, ProcFacts
  DEF EndReconcile, OwnerTo, TypeOK, Tasks, RecState, vars, fenceVars, cancelVars
<1>8. ASSUME NEW t \in Tasks, EndReconciled(t) PROVE TypeOK'
  BY <1>8, FenceAssumption, ProcFacts
  DEF EndReconciled, OwnerTo, TypeOK, Tasks, RecState, vars, fenceVars, cancelVars
<1>9. ASSUME NEW t \in Tasks, Commit(t) PROVE TypeOK'
  BY <1>9, FenceAssumption, ProcFacts
  DEF Commit, Db, DbFails, OwnerTo, TypeOK, Tasks, RecState, vars, fenceVars, cancelVars
<1>10. ASSUME NEW t \in Tasks, ReleaseRemove(t) PROVE TypeOK'
  BY <1>10, FenceAssumption, ProcFacts
  DEF ReleaseRemove, OwnerTo, TypeOK, Tasks, RecState, vars, fenceVars, cancelVars
<1>11. ASSUME NEW t \in Tasks, ReleaseFence(t) PROVE TypeOK'
  BY <1>11, FenceAssumption, ProcFacts
  DEF ReleaseFence, OwnerTo, TypeOK, Tasks, RecState, vars, cancelVars
<1>12. ASSUME NEW t \in Tasks, NEW p \in Reconcilers(t), RecLoad(p, t) PROVE TypeOK'
  BY <1>12, FenceAssumption, ProcFacts
  DEF RecLoad, TypeOK, Tasks, RecState, vars, fenceVars, cancelVars
<1>13. ASSUME NEW t \in Tasks, NEW p \in Reconcilers(t), RecPersist(p, t) PROVE TypeOK'
  BY <1>13, FenceAssumption, ProcFacts
  DEF RecPersist, Db, TypeOK, Tasks, RecState, vars, fenceVars, cancelVars
<1>14. ASSUME NEW t \in Tasks, NEW p \in Reconcilers(t), RecFails(p) PROVE TypeOK'
  BY <1>14, Failing, ProcFacts DEF RecFails, TypeOK, Tasks, RecState, fenceVars, cancelVars
<1>15. ASSUME NEW t \in Tasks, NEW p \in Reconcilers(t), RecMark(p, t) PROVE TypeOK'
  BY <1>15, FenceAssumption, ProcFacts DEF RecMark, TypeOK, Tasks, RecState, vars, cancelVars
<1>16. ASSUME NEW t \in Tasks, NEW p \in Reconcilers(t), RecCheck(p, t) PROVE TypeOK'
  BY <1>16, FenceAssumption, ProcFacts
  DEF RecCheck, TypeOK, Tasks, RecState, vars, fenceVars, cancelVars
<1>17. ASSUME NEW t \in Tasks, NEW p \in Reconcilers(t), RecRemove(p, t) PROVE TypeOK'
  BY <1>17, FenceAssumption, ProcFacts DEF RecRemove, TypeOK, Tasks, RecState, vars, cancelVars
<1>18. ASSUME NEW t \in Tasks, NEW g \in Entries, ReaperRetries(t, g) PROVE TypeOK'
  BY <1>18, FenceAssumption, ProcFacts
  DEF ReaperRetries, TypeOK, Tasks, RecState, vars, fenceVars, cancelVars
<1>19. ASSUME NEW c \in Children, SubmitCheck(c) PROVE TypeOK'
  BY <1>19, FenceAssumption, ProcFacts
  DEF SubmitCheck, OwnerTo, TypeOK, Tasks, RecState, vars, fenceVars, cancelVars
<1>20. ASSUME NEW c \in Children, SubmitRow(c) PROVE TypeOK'
  BY <1>20, FenceAssumption, ProcFacts
  DEF SubmitRow, Db, DbFails, OwnerTo, TypeOK, Tasks, RecState, vars, fenceVars, cancelVars
<1>21. ASSUME NEW c \in Children, ClaimRead(c) PROVE TypeOK'
  BY <1>21, FenceAssumption, ProcFacts
  DEF ClaimRead, DbFails, OwnerTo, TypeOK, Tasks, RecState, vars, fenceVars, cancelVars
<1>22. ASSUME NEW c \in Children, QueueStops(c) PROVE TypeOK'
  BY <1>22, FenceAssumption, ProcFacts
  DEF QueueStops, Db, OwnerTo, TypeOK, Tasks, RecState, vars, fenceVars, cancelVars
<1>23. ASSUME NEW c \in Children, Claim(c) PROVE TypeOK'
  BY <1>23, FenceAssumption, ProcFacts
  DEF Claim, Db, DbFails, OwnerTo, TypeOK, Tasks, RecState, vars, fenceVars, cancelVars
<1>24. ASSUME NEW c \in Children, Admit(c) PROVE TypeOK'
  BY <1>24, FenceAssumption, ProcFacts
  DEF Admit, OwnerTo, TypeOK, Tasks, RecState, vars, fenceVars, cancelVars
<1>25. ASSUME NEW c \in Children, StopActive(c) PROVE TypeOK'
  BY <1>25, FenceAssumption, ProcFacts
  DEF StopActive, install, OwnerTo, TypeOK, Tasks, RecState, vars, cancelVars
<1>26. ASSUME NEW c \in Children, StopActiveDone(c) PROVE TypeOK'
  <2>1. c \in Tasks
    BY DEF Tasks
  <2>2. rec' \in [Procs -> RecState]
    BY <1>26, <2>1, StartReconciler DEF StopActiveDone, TypeOK, RecState
  <2>3. QED
    BY <1>26, <2>1, <2>2 DEF StopActiveDone, OwnerTo, TypeOK, cancelVars, fenceVars
<1>27. ASSUME NEW k \in Cancellers, NEW t \in Tasks, CancelBegin(k, t) PROVE TypeOK'
  BY <1>27, FenceAssumption, ProcFacts
  DEF CancelBegin, ReqTo, attached_subtree, TypeOK, Tasks, RecState, vars, fenceVars
<1>28. ASSUME NEW k \in Cancellers, CancelInstall(k) PROVE TypeOK'
  BY <1>28, FenceAssumption, ProcFacts
  DEF CancelInstall, install, NextTarget, TypeOK, Tasks, RecState, vars
<1>29. ASSUME NEW k \in Cancellers, CancelRead(k) PROVE TypeOK'
  <2>1. attached_subtree(target[k], active) \subseteq Tasks
    BY Subtree DEF TypeOK
  <2>2. failures' \in 0 .. MaxFailures /\ db' = db
    BY <1>29, Failing DEF CancelRead, TypeOK
  <2>3. /\ scope' \in [Cancellers -> SUBSET Tasks] /\ todo' \in [Cancellers -> SUBSET Tasks]
        /\ failed' \in [Cancellers -> BOOLEAN]
    <3> DEFINE known == attached_subtree(target[k], active)
    <3>1. \/ scope' = scope /\ todo' = todo
          \/ scope' = [scope EXCEPT ![k] = known] /\ todo' = [todo EXCEPT ![k] = known]
      BY <1>29 DEF CancelRead
    <3>2. failed' = failed \/ failed' = [failed EXCEPT ![k] = TRUE]
      BY <1>29 DEF CancelRead
    <3>3. scope' \in [Cancellers -> SUBSET Tasks] /\ todo' \in [Cancellers -> SUBSET Tasks]
      BY <2>1, <3>1 DEF TypeOK
    <3>4. failed' \in [Cancellers -> BOOLEAN]
      BY <3>2 DEF TypeOK
    <3>5. QED
      BY <3>3, <3>4
  <2>4. req' \in [Cancellers -> {"idle", "local", "known", "each", "busy", "receipt", "pending",
                                  "refused"}]
    BY <1>29 DEF CancelRead, ReqTo, TypeOK
  <2>5. QED
    BY <1>29, <2>2, <2>3, <2>4 DEF CancelRead, TypeOK, fenceVars
<1>30. ASSUME NEW k \in Cancellers, CancelList(k) PROVE TypeOK'
  <2>1. attached_subtree(target[k], {t \in Tasks : db[t] # "absent"}) \subseteq Tasks
    BY Subtree DEF TypeOK
  <2>2. failures' \in 0 .. MaxFailures /\ db' = db
    BY <1>30, Failing DEF CancelList, TypeOK
  <2>3. scope' \in [Cancellers -> SUBSET Tasks] /\ failed' \in [Cancellers -> BOOLEAN]
    BY <1>30, <2>1 DEF CancelList, TypeOK
  <2>4. QED
    BY <1>30, <2>2, <2>3 DEF CancelList, ReqTo, TypeOK, fenceVars
<1>31. ASSUME NEW k \in Cancellers, CancelTarget(k) PROVE TypeOK'
  BY <1>31, FenceAssumption, ProcFacts
  DEF CancelTarget, install, ReqTo, NextTarget, TypeOK, Tasks, RecState, vars
<1>32. ASSUME NEW k \in Cancellers, CancelTargetDone(k) PROVE TypeOK'
  <2>1. rec' \in [Procs -> RecState]
    BY <1>32, StartReconciler DEF CancelTargetDone, TypeOK, RecState
  <2>2. QED
    BY <1>32, <2>1 DEF CancelTargetDone, ReqTo, TypeOK, fenceVars
<1>33. ASSUME NEW k \in Cancellers, CancelReceipt(k) PROVE TypeOK'
  BY <1>33, FenceAssumption, ProcFacts
  DEF CancelReceipt, DbFails, ReqTo, TypeOK, Tasks, RecState, vars, fenceVars
<1>34. ASSUME NEW t \in Tasks, NEW p \in Reconcilers(t), reconcile(p, t) PROVE TypeOK'
  BY <1>34, <1>12, <1>13, <1>14, <1>15, <1>16, <1>17 DEF reconcile
<1>35. ASSUME StartRoot \/ RootReread PROVE TypeOK'
  BY <1>35, <1>2, <1>3
<1>36. ASSUME NEW t \in Tasks, OwnerStep(t) PROVE TypeOK'
  BY <1>36, <1>4, <1>5, <1>6, <1>7, <1>8, <1>9, <1>10, <1>11, <1>34, ReconcilersFacts
  DEF OwnerStep
<1>37. ASSUME NEW t \in Tasks, NEW g \in Entries, ReaperStep(t, g) PROVE TypeOK'
  BY <1>37, <1>18, <1>34, ReconcilersFacts DEF ReaperStep
<1>38. ASSUME NEW c \in Children, SubmitCheck(c) \/ ChildStep(c) PROVE TypeOK'
  BY <1>38, <1>19, <1>20, <1>21, <1>22, <1>23, <1>24, <1>25, <1>26 DEF ChildStep
<1>39. ASSUME NEW k \in Cancellers, CancelStep(k) \/ \E t \in Tasks : CancelBegin(k, t)
       PROVE  TypeOK'
  BY <1>39, <1>28, <1>29, <1>30, <1>31, <1>32, <1>33, <1>27, <1>34, ReconcilersFacts
  DEF CancelStep, TypeOK
<1>40. QED
  BY <1>1, <1>35, <1>36, <1>37, <1>38, <1>39 DEF Next, vars

(* No step takes a row away or starts a stopped Task again.                 *)
RowsKept ==
    \A t \in Tasks : /\ db[t] # "absent" => db'[t] # "absent"
                     /\ db[t] \in Stopped => db'[t] \in Stopped

(* Rows are created once, and only a queued one is claimed. *)
LEMMA RowsKeep ==
    ASSUME TypeOK, RowShape, [Next]_vars
    PROVE  RowsKept
<1>1. ASSUME UNCHANGED <<db>> PROVE RowsKept
  BY <1>1 DEF RowsKept, RowShape, TypeOK, Tasks, Stopped
<1>2. ASSUME StartRoot PROVE RowsKept
  BY <1>2
  DEF StartRoot, Db, OwnerTo, RowsKept, RowShape, TypeOK, Tasks, Stopped, fenceVars, cancelVars
<1>3. ASSUME NEW t \in Tasks, Commit(t) PROVE RowsKept
  BY <1>3
  DEF Commit, Db, DbFails, OwnerTo, RowsKept, RowShape, TypeOK, Tasks, Stopped, fenceVars,
      cancelVars
<1>4. ASSUME NEW t \in Tasks, NEW p \in Reconcilers(t), RecPersist(p, t) PROVE RowsKept
  BY <1>4 DEF RecPersist, Db, RowsKept, RowShape, TypeOK, Tasks, Stopped, fenceVars, cancelVars
<1>5. ASSUME NEW c \in Children, SubmitRow(c) PROVE RowsKept
  BY <1>5
  DEF SubmitRow, Db, DbFails, OwnerTo, RowsKept, RowShape, TypeOK, Tasks, Stopped, fenceVars,
      cancelVars
<1>6. ASSUME NEW c \in Children, QueueStops(c) PROVE RowsKept
  BY <1>6
  DEF QueueStops, Db, OwnerTo, RowsKept, RowShape, TypeOK, Tasks, Stopped, fenceVars, cancelVars
<1>7. ASSUME NEW c \in Children, Claim(c) PROVE RowsKept
  BY <1>7
  DEF Claim, Db, DbFails, OwnerTo, RowsKept, RowShape, TypeOK, Tasks, Stopped, fenceVars,
      cancelVars
<1>8. ASSUME NEW t \in Tasks, NEW p \in Reconcilers(t), reconcile(p, t) PROVE RowsKept
  BY <1>8, <1>1, <1>4
  DEF reconcile, RecLoad, RecFails, RecMark, RecCheck, RecRemove, fenceVars, cancelVars, DbFails
<1>9. ASSUME StartRoot \/ RootReread PROVE RowsKept
  BY <1>9, <1>1, <1>2 DEF RootReread, cancelVars, DbFails
<1>10. ASSUME NEW t \in Tasks, OwnerStep(t) PROVE RowsKept
  BY <1>10, <1>1, <1>3, <1>8, ReconcilersFacts
  DEF OwnerStep, Register, Inherit, ExecutorEnds, EndReconcile, EndReconciled, ReleaseRemove,
      ReleaseFence, fenceVars, cancelVars
<1>11. ASSUME NEW t \in Tasks, NEW g \in Entries, ReaperStep(t, g) PROVE RowsKept
  BY <1>11, <1>1, <1>8, ReconcilersFacts DEF ReaperStep, ReaperRetries, fenceVars, cancelVars
<1>12. ASSUME NEW c \in Children, SubmitCheck(c) \/ ChildStep(c) PROVE RowsKept
  BY <1>12, <1>1, <1>5, <1>6, <1>7
  DEF ChildStep, SubmitCheck, ClaimRead, Admit, StopActive, StopActiveDone, fenceVars,
      cancelVars, DbFails
<1>13. ASSUME NEW k \in Cancellers, CancelStep(k) \/ \E t \in Tasks : CancelBegin(k, t)
       PROVE  RowsKept
  BY <1>13, <1>1, <1>8, ReconcilersFacts
  DEF CancelStep, TypeOK, CancelInstall, CancelRead, CancelList, CancelTarget, CancelTargetDone,
      CancelReceipt, CancelBegin, fenceVars, DbFails
<1>14. QED
  BY <1>1, <1>9, <1>10, <1>11, <1>12, <1>13 DEF Next, vars

(* A row exists as long as its owner says. *)
LEMMA RowStep ==
    ASSUME TypeOK, RowShape, ReconcileShape, RowsKept, [Next]_vars
    PROVE  RowShape'
<1>1. ASSUME UNCHANGED <<own, active, db>> PROVE RowShape'
  BY <1>1 DEF RowShape, RowsKept, ReconcileShape, TypeOK, Tasks, Stopped
<1>2. ASSUME StartRoot PROVE RowShape'
  BY <1>2
  DEF StartRoot, Db, OwnerTo, RowShape, RowsKept, ReconcileShape, TypeOK, Tasks, Stopped,
      fenceVars, cancelVars
<1>3. ASSUME RootReread PROVE RowShape'
  BY <1>3
  DEF RootReread, DbFails, OwnerTo, RowShape, RowsKept, ReconcileShape, TypeOK, Tasks, Stopped,
      cancelVars
<1>4. ASSUME NEW t \in Tasks, Register(t) PROVE RowShape'
  BY <1>4
  DEF Register, OwnerTo, RowShape, RowsKept, ReconcileShape, TypeOK, Tasks, Stopped, fenceVars,
      cancelVars
<1>5. ASSUME NEW t \in Tasks, Inherit(t) PROVE RowShape'
  BY <1>5 DEF Inherit, OwnerTo, RowShape, RowsKept, TypeOK, Tasks
<1>6. ASSUME NEW t \in Tasks, ExecutorEnds(t) PROVE RowShape'
  BY <1>6
  DEF ExecutorEnds, OwnerTo, RowShape, RowsKept, ReconcileShape, TypeOK, Tasks, Stopped,
      fenceVars, cancelVars
<1>7. ASSUME NEW t \in Tasks, EndReconcile(t) PROVE RowShape'
  BY <1>7
  DEF EndReconcile, OwnerTo, RowShape, RowsKept, ReconcileShape, TypeOK, Tasks, Stopped,
      fenceVars, cancelVars
<1>8. ASSUME NEW t \in Tasks, EndReconciled(t) PROVE RowShape'
  BY <1>8
  DEF EndReconciled, OwnerTo, RowShape, RowsKept, ReconcileShape, TypeOK, Tasks, Stopped,
      fenceVars, cancelVars
<1>9. ASSUME NEW t \in Tasks, Commit(t) PROVE RowShape'
  BY <1>9
  DEF Commit, Db, DbFails, OwnerTo, RowShape, RowsKept, ReconcileShape, TypeOK, Tasks, Stopped,
      fenceVars, cancelVars
<1>10. ASSUME NEW t \in Tasks, ReleaseRemove(t) PROVE RowShape'
  BY <1>10
  DEF ReleaseRemove, OwnerTo, RowShape, RowsKept, ReconcileShape, TypeOK, Tasks, Stopped,
      fenceVars, cancelVars
<1>11. ASSUME NEW t \in Tasks, ReleaseFence(t) PROVE RowShape'
  BY <1>11
  DEF ReleaseFence, OwnerTo, RowShape, RowsKept, ReconcileShape, TypeOK, Tasks, Stopped,
      cancelVars
<1>12. ASSUME NEW t \in Tasks, NEW p \in Reconcilers(t), RecPersist(p, t) PROVE RowShape'
  BY <1>12
  DEF RecPersist, Db, RowShape, RowsKept, ReconcileShape, TypeOK, Tasks, Stopped, fenceVars,
      cancelVars
<1>13. ASSUME NEW c \in Children, SubmitCheck(c) PROVE RowShape'
  BY <1>13
  DEF SubmitCheck, OwnerTo, RowShape, RowsKept, ReconcileShape, TypeOK, Tasks, Stopped,
      fenceVars, cancelVars
<1>14. ASSUME NEW c \in Children, SubmitRow(c) PROVE RowShape'
  BY <1>14
  DEF SubmitRow, Db, DbFails, OwnerTo, RowShape, RowsKept, ReconcileShape, TypeOK, Tasks,
      Stopped, fenceVars, cancelVars
<1>15. ASSUME NEW c \in Children, ClaimRead(c) PROVE RowShape'
  BY <1>15
  DEF ClaimRead, DbFails, OwnerTo, RowShape, RowsKept, ReconcileShape, TypeOK, Tasks, Stopped,
      fenceVars, cancelVars
<1>16. ASSUME NEW c \in Children, QueueStops(c) PROVE RowShape'
  BY <1>16
  DEF QueueStops, Db, OwnerTo, RowShape, RowsKept, ReconcileShape, TypeOK, Tasks, Stopped,
      fenceVars, cancelVars
<1>17. ASSUME NEW c \in Children, Claim(c) PROVE RowShape'
  BY <1>17
  DEF Claim, Db, DbFails, OwnerTo, RowShape, RowsKept, ReconcileShape, TypeOK, Tasks, Stopped,
      fenceVars, cancelVars
<1>18. ASSUME NEW c \in Children, Admit(c) PROVE RowShape'
  BY <1>18
  DEF Admit, OwnerTo, RowShape, RowsKept, ReconcileShape, TypeOK, Tasks, Stopped, fenceVars,
      cancelVars
<1>19. ASSUME NEW c \in Children, StopActive(c) PROVE RowShape'
  BY <1>19
  DEF StopActive, install, OwnerTo, RowShape, RowsKept, ReconcileShape, TypeOK, Tasks, Stopped,
      cancelVars
<1>20. ASSUME NEW c \in Children, StopActiveDone(c) PROVE RowShape'
  BY <1>20
  DEF StopActiveDone, OwnerTo, RowShape, RowsKept, ReconcileShape, TypeOK, Tasks, Stopped,
      fenceVars, cancelVars
<1>21. ASSUME NEW t \in Tasks, NEW p \in Reconcilers(t), reconcile(p, t) PROVE RowShape'
  BY <1>21, <1>1, <1>12
  DEF reconcile, RecLoad, RecFails, RecMark, RecCheck, RecRemove, fenceVars, cancelVars, DbFails
<1>22. ASSUME StartRoot \/ RootReread PROVE RowShape'
  BY <1>22, <1>2, <1>3
<1>23. ASSUME NEW t \in Tasks, OwnerStep(t) PROVE RowShape'
  BY <1>23, <1>4, <1>5, <1>6, <1>7, <1>8, <1>9, <1>10, <1>11, <1>21, ReconcilersFacts
  DEF OwnerStep
<1>24. ASSUME NEW t \in Tasks, NEW g \in Entries, ReaperStep(t, g) PROVE RowShape'
  BY <1>24, <1>1, <1>21, ReconcilersFacts DEF ReaperStep, ReaperRetries, fenceVars, cancelVars
<1>25. ASSUME NEW c \in Children, SubmitCheck(c) \/ ChildStep(c) PROVE RowShape'
  BY <1>25, <1>13, <1>14, <1>15, <1>16, <1>17, <1>18, <1>19, <1>20 DEF ChildStep
<1>26. ASSUME NEW k \in Cancellers, CancelStep(k) \/ \E t \in Tasks : CancelBegin(k, t)
       PROVE  RowShape'
  BY <1>26, <1>1, <1>21, ReconcilersFacts
  DEF CancelStep, TypeOK, CancelInstall, CancelRead, CancelList, CancelTarget, CancelTargetDone,
      CancelReceipt, CancelBegin, fenceVars, DbFails
<1>27. QED
  BY <1>1, <1>22, <1>23, <1>24, <1>25, <1>26 DEF Next, vars

(* Requests find only Tasks that exist, and wait for each until it has     *)
(* stopped.                                                                  *)
LEMMA ScopeStep ==
    ASSUME TypeOK, TypeOK', RowShape, ScopeShape, ReconcileShape, FenceShape, RowsKept, [Next]_vars
    PROVE  ScopeShape'
<1>1. ASSUME UNCHANGED <<req, target, scope, todo, visiting, gen, rec>> PROVE ScopeShape'
  BY <1>1 DEF ScopeShape, RowsKept, TypeOK, Tasks, Stopped
<1>2. ASSUME NEW t \in Tasks, Inherit(t) PROVE ScopeShape'
  BY <1>2, ProcFacts, ReconcilersFacts, Install, StartReconciler
  DEF Inherit, inherit_and_signal, ScopeShape, RowsKept, TypeOK, Tasks, Stopped, fenceVars,
      cancelVars
<1>3. ASSUME NEW t \in Tasks, EndReconcile(t) PROVE ScopeShape'
  BY <1>3, ProcFacts, ReconcilersFacts
  DEF EndReconcile, OwnerTo, ScopeShape, RowsKept, TypeOK, Tasks, Stopped, fenceVars, cancelVars
<1>4. ASSUME NEW t \in Tasks, EndReconciled(t) PROVE ScopeShape'
  BY <1>4, ProcFacts, ReconcilersFacts
  DEF EndReconciled, OwnerTo, ScopeShape, RowsKept, TypeOK, Tasks, Stopped, fenceVars,
      cancelVars
<1>5. ASSUME NEW t \in Tasks, NEW p \in Reconcilers(t), RecLoad(p, t) PROVE ScopeShape'
  BY <1>5, ProcFacts, ReconcilersFacts
  DEF RecLoad, ScopeShape, RowsKept, TypeOK, Tasks, Stopped, ReconcileShape, FenceShape,
      fenceVars, cancelVars
<1>6. ASSUME NEW t \in Tasks, NEW p \in Reconcilers(t), RecPersist(p, t) PROVE ScopeShape'
  BY <1>6, ProcFacts, ReconcilersFacts
  DEF RecPersist, ScopeShape, RowsKept, TypeOK, Tasks, Stopped, ReconcileShape, FenceShape,
      fenceVars, cancelVars, Db
<1>7. ASSUME NEW t \in Tasks, NEW p \in Reconcilers(t), RecFails(p) PROVE ScopeShape'
  BY <1>7, ProcFacts, ReconcilersFacts
  DEF RecFails, ScopeShape, RowsKept, TypeOK, Tasks, Stopped, ReconcileShape, FenceShape,
      fenceVars, cancelVars
<1>8. ASSUME NEW t \in Tasks, NEW p \in Reconcilers(t), RecMark(p, t) PROVE ScopeShape'
  BY <1>8, ProcFacts, ReconcilersFacts
  DEF RecMark, ScopeShape, RowsKept, TypeOK, Tasks, Stopped, ReconcileShape, FenceShape,
      cancelVars
<1>9. ASSUME NEW t \in Tasks, NEW p \in Reconcilers(t), RecCheck(p, t) PROVE ScopeShape'
  BY <1>9, ProcFacts, ReconcilersFacts
  DEF RecCheck, ScopeShape, RowsKept, TypeOK, Tasks, Stopped, ReconcileShape, FenceShape,
      fenceVars, cancelVars
<1>10. ASSUME NEW t \in Tasks, NEW p \in Reconcilers(t), RecRemove(p, t) PROVE ScopeShape'
  BY <1>10, ProcFacts, ReconcilersFacts
  DEF RecRemove, ScopeShape, RowsKept, TypeOK, Tasks, Stopped, ReconcileShape, FenceShape,
      cancelVars
<1>11. ASSUME NEW t \in Tasks, NEW g \in Entries, ReaperRetries(t, g) PROVE ScopeShape'
  BY <1>11, ProcFacts, ReconcilersFacts
  DEF ReaperRetries, ScopeShape, RowsKept, TypeOK, Tasks, Stopped, fenceVars, cancelVars
<1>12. ASSUME NEW c \in Children, StopActive(c) PROVE ScopeShape'
  BY <1>12, ProcFacts, ReconcilersFacts, Install
  DEF StopActive, ScopeShape, RowsKept, TypeOK, Tasks, Stopped, cancelVars
<1>13. ASSUME NEW c \in Children, StopActiveDone(c) PROVE ScopeShape'
  <2>1. c \in Tasks
    BY DEF Tasks
  <2>2. \A k \in Cancellers : rec'[Canceller(k)] = rec[Canceller(k)]
    BY <1>13, <2>1, ProcFacts, ReconcilersFacts, StartReconciler DEF StopActiveDone, TypeOK
  <2>3. QED
    BY <1>13, <2>2
    DEF StopActiveDone, ScopeShape, RowsKept, TypeOK, Tasks, Stopped, fenceVars, cancelVars
<1>14. ASSUME NEW k \in Cancellers, NEW t \in Tasks, CancelBegin(k, t) PROVE ScopeShape'
  <2>1. \A u \in todo'[k] : db[u] # "absent"
    BY <1>14, Subtree DEF CancelBegin, TypeOK, RowShape
  <2>2. QED
    BY <1>14, <2>1
    DEF CancelBegin, ReqTo, ScopeShape, RowsKept, TypeOK, Tasks, Stopped, fenceVars
<1>15. ASSUME NEW k \in Cancellers, CancelInstall(k) PROVE ScopeShape'
  BY <1>15, ProcFacts, ReconcilersFacts, Install
  DEF CancelInstall, NextTarget, ScopeShape, RowsKept, TypeOK, Tasks, Stopped
<1>16. ASSUME NEW k \in Cancellers, CancelRead(k) PROVE ScopeShape'
  <2>1. \A u \in attached_subtree(target[k], active) : db[u] # "absent"
    <3>1. target[k] \in Tasks /\ active \in SUBSET Tasks
      BY DEF TypeOK
    <3>2. attached_subtree(target[k], active) \subseteq {target[k]} \cup active
      BY <3>1, Subtree
    <3>3. db[target[k]] # "absent" /\ \A u \in active : db[u] # "absent"
      BY <1>16, <3>1 DEF CancelRead, RowShape, ScopeShape
    <3>4. QED
      BY <3>2, <3>3
  <2>2. \A j \in Cancellers : \A u \in scope'[j] \cup todo'[j] : db[u] # "absent"
    BY <1>16, <2>1 DEF CancelRead, TypeOK, ScopeShape
  <2>3. \A u \in Tasks : db[u] # "absent" => db'[u] # "absent"
    BY DEF RowsKept
  <2>4. scope' \in [Cancellers -> SUBSET Tasks] /\ todo' \in [Cancellers -> SUBSET Tasks]
    BY DEF TypeOK
  <2>5. \A j \in Cancellers : \A u \in scope'[j] \cup todo'[j] : db'[u] # "absent"
    BY <2>2, <2>3, <2>4
  <2>6. QED
    BY <1>16, <2>5 DEF CancelRead, ReqTo, ScopeShape, RowsKept, TypeOK, Tasks, Stopped, fenceVars
<1>17. ASSUME NEW k \in Cancellers, CancelList(k) PROVE ScopeShape'
  <2>1. \A u \in attached_subtree(target[k], {t \in Tasks : db[t] # "absent"}) : db[u] # "absent"
    <3> DEFINE S == {t \in Tasks : db[t] # "absent"}
    <3>1. target[k] \in Tasks /\ S \in SUBSET Tasks
      BY DEF TypeOK
    <3>2. attached_subtree(target[k], S) \subseteq {target[k]} \cup S
      BY <3>1, Subtree
    <3>3. db[target[k]] # "absent"
      BY <1>17 DEF CancelList, ScopeShape
    <3>4. QED
      BY <3>2, <3>3
  <2>2. QED
    BY <1>17, <2>1 DEF CancelList, ReqTo, ScopeShape, RowsKept, TypeOK, Tasks, Stopped, fenceVars
<1>18. ASSUME NEW k \in Cancellers, CancelTarget(k) PROVE ScopeShape'
  <2>1. PICK t \in NextTarget(k) : /\ install(t)
                                  /\ todo' = [todo EXCEPT ![k] = todo[k] \ {t}]
                                  /\ visiting' = [visiting EXCEPT ![k] = t]
    BY <1>18 DEF CancelTarget
  <2>2. t \in Tasks /\ db[t] # "absent" /\ t \in todo[k]
    BY DEF NextTarget, TypeOK, ScopeShape
  <2>3. gen'[t] > 0 /\ \A u \in Tasks : gen[u] > 0 => gen'[u] > 0
    <3>1. \A u \in Tasks : gen[u] \in Nat /\ gen'[u] \in Nat
      BY FenceAssumption DEF TypeOK
    <3>2. \A u \in Tasks : gen'[u] = gen[u] \/ gen'[u] = gen[u] + 1
      BY <2>1, <2>2, Install
    <3>3. fence[t] = "none" => gen'[t] = gen[t] + 1
      BY <2>1, <2>2, Install
    <3>4. fence[t] # "none" => gen[t] > 0
      BY <2>2 DEF FenceShape
    <3>5. QED
      BY <2>2, <3>1, <3>2, <3>3, <3>4
  <2>4. \A j \in Cancellers : rec'[Canceller(j)] = IF j = k THEN "load" ELSE rec[Canceller(j)]
    BY <1>18, ProcFacts DEF CancelTarget, TypeOK
  <2>5. ASSUME NEW j \in Cancellers PROVE ScopeShape!(j)'
    BY <1>18, <2>1, <2>2, <2>3, <2>4
    DEF CancelTarget, ReqTo, ScopeShape, RowsKept, TypeOK, Tasks, Stopped
  <2>6. QED
    BY <2>5 DEF ScopeShape
<1>19. ASSUME NEW k \in Cancellers, CancelTargetDone(k) PROVE ScopeShape'
  <2>1. \A j \in Cancellers : j # k => rec'[Canceller(j)] = rec[Canceller(j)]
    BY <1>19, ProcFacts, ReconcilersFacts, StartReconciler DEF CancelTargetDone, TypeOK
  <2>2. rec'[Canceller(k)] = "idle"
    BY <1>19, ProcFacts, ReconcilersFacts, StartReconciler DEF CancelTargetDone, TypeOK
  <2>3. QED
    BY <1>19, <2>1, <2>2
    DEF CancelTargetDone, ReqTo, ScopeShape, RowsKept, TypeOK, Tasks, Stopped, fenceVars
<1>20. ASSUME NEW k \in Cancellers, CancelReceipt(k) PROVE ScopeShape'
  BY <1>20, ProcFacts, ReconcilersFacts
  DEF CancelReceipt, DbFails, ReqTo, ScopeShape, RowsKept, TypeOK, Tasks, Stopped, fenceVars
<1>21. ASSUME NEW t \in Tasks, NEW p \in Reconcilers(t), reconcile(p, t) PROVE ScopeShape'
  BY <1>21, <1>5, <1>6, <1>7, <1>8, <1>9, <1>10 DEF reconcile
<1>22. ASSUME StartRoot \/ RootReread PROVE ScopeShape'
  BY <1>22, <1>1 DEF StartRoot, RootReread, fenceVars, cancelVars
<1>23. ASSUME NEW t \in Tasks, OwnerStep(t) PROVE ScopeShape'
  BY <1>23, <1>1, <1>2, <1>3, <1>4, <1>21, ReconcilersFacts
  DEF OwnerStep, Register, ExecutorEnds, Commit, ReleaseRemove, ReleaseFence, fenceVars,
      cancelVars
<1>24. ASSUME NEW t \in Tasks, NEW g \in Entries, ReaperStep(t, g) PROVE ScopeShape'
  BY <1>24, <1>11, <1>21, ReconcilersFacts DEF ReaperStep
<1>25. ASSUME NEW c \in Children, SubmitCheck(c) \/ ChildStep(c) PROVE ScopeShape'
  BY <1>25, <1>1, <1>12, <1>13
  DEF ChildStep, SubmitCheck, SubmitRow, ClaimRead, QueueStops, Claim, Admit, fenceVars,
      cancelVars
<1>26. ASSUME NEW k \in Cancellers, CancelStep(k) \/ \E t \in Tasks : CancelBegin(k, t)
       PROVE  ScopeShape'
  BY <1>26, <1>15, <1>16, <1>17, <1>18, <1>19, <1>20, <1>14, <1>21, ReconcilersFacts
  DEF CancelStep, TypeOK
<1>27. QED
  BY <1>1, <1>22, <1>23, <1>24, <1>25, <1>26 DEF Next, vars

(* Whoever has written has stopped the Task it wrote for. *)
LEMMA ReconcileStep ==
    ASSUME TypeOK, RowShape, ScopeShape, ReconcileShape, RowsKept, [Next]_vars
    PROVE  ReconcileShape'
<1>1. ASSUME UNCHANGED <<rec, own, visiting>> PROVE ReconcileShape'
  BY <1>1 DEF ReconcileShape, RowsKept, RowShape, TypeOK, Tasks, Stopped, Reconcilers
<1>2. ASSUME StartRoot PROVE ReconcileShape'
  BY <1>2
  DEF StartRoot, OwnerTo, ReconcileShape, RowsKept, RowShape, TypeOK, Tasks, Stopped,
      Reconcilers, fenceVars, cancelVars
<1>3. ASSUME RootReread PROVE ReconcileShape'
  BY <1>3
  DEF RootReread, OwnerTo, ReconcileShape, RowsKept, RowShape, TypeOK, Tasks, Stopped,
      Reconcilers, cancelVars
<1>4. ASSUME NEW t \in Tasks, Register(t) PROVE ReconcileShape'
  BY <1>4
  DEF Register, OwnerTo, ReconcileShape, RowsKept, RowShape, TypeOK, Tasks, Stopped,
      Reconcilers, fenceVars, cancelVars
<1>5. ASSUME NEW t \in Tasks, Inherit(t) PROVE ReconcileShape'
  <2>1. \A p \in Procs : \/ rec'[p] = rec[p]
                         \/ rec[p] = "idle" /\ rec'[p] = "load" /\ p \in Reconcilers(t)
    BY <1>5, StartReconciler DEF Inherit, inherit_and_signal, TypeOK
  <2>2. \A u \in Tasks : rec'[Owner(u)] = rec[Owner(u)]
    BY <1>5, StartReconciler DEF Inherit, inherit_and_signal, TypeOK
  <2>3. db[t] # "absent"
    BY <1>5 DEF Inherit, RowShape
  <2>4. \A u \in Tasks : Reconcilers(u)' = Reconcilers(u)
    BY <1>5 DEF Inherit, cancelVars, Reconcilers
  <2>5. QED
    BY <1>5, <2>1, <2>2, <2>3, <2>4, ReconcilersFacts
    DEF Inherit, OwnerTo, ReconcileShape, RowsKept, TypeOK
<1>6. ASSUME NEW t \in Tasks, ExecutorEnds(t) PROVE ReconcileShape'
  BY <1>6
  DEF ExecutorEnds, OwnerTo, ReconcileShape, RowsKept, RowShape, TypeOK, Tasks, Stopped,
      Reconcilers, fenceVars, cancelVars
<1>7. ASSUME NEW t \in Tasks, EndReconcile(t) PROVE ReconcileShape'
  BY <1>7, ProcFacts, ReconcilersFacts
  DEF EndReconcile, OwnerTo, ReconcileShape, RowsKept, RowShape, TypeOK, Tasks, Stopped,
      Reconcilers, fenceVars, cancelVars
<1>8. ASSUME NEW t \in Tasks, EndReconciled(t) PROVE ReconcileShape'
  BY <1>8, ProcFacts, ReconcilersFacts
  DEF EndReconciled, OwnerTo, ReconcileShape, RowsKept, RowShape, TypeOK, Tasks, Stopped,
      Reconcilers, fenceVars, cancelVars
<1>9. ASSUME NEW t \in Tasks, Commit(t) PROVE ReconcileShape'
  BY <1>9
  DEF Commit, OwnerTo, ReconcileShape, RowsKept, RowShape, TypeOK, Tasks, Stopped, Reconcilers,
      fenceVars, cancelVars
<1>10. ASSUME NEW t \in Tasks, ReleaseRemove(t) PROVE ReconcileShape'
  BY <1>10
  DEF ReleaseRemove, OwnerTo, ReconcileShape, RowsKept, RowShape, TypeOK, Tasks, Stopped,
      Reconcilers, fenceVars, cancelVars
<1>11. ASSUME NEW t \in Tasks, ReleaseFence(t) PROVE ReconcileShape'
  BY <1>11
  DEF ReleaseFence, OwnerTo, ReconcileShape, RowsKept, RowShape, TypeOK, Tasks, Stopped,
      Reconcilers, cancelVars
<1>12. ASSUME NEW t \in Tasks, NEW p \in Reconcilers(t), RecLoad(p, t) PROVE ReconcileShape'
  BY <1>12, ProcFacts, ReconcilersFacts
  DEF RecLoad, ReconcileShape, RowsKept, RowShape, TypeOK, Tasks, Stopped, Reconcilers,
      fenceVars, cancelVars
<1>13. ASSUME NEW t \in Tasks, NEW p \in Reconcilers(t), RecPersist(p, t) PROVE ReconcileShape'
  BY <1>13, ProcFacts, ReconcilersFacts
  DEF RecPersist, Db, ReconcileShape, RowsKept, RowShape, TypeOK, Tasks, Stopped, Reconcilers,
      fenceVars, cancelVars
<1>14. ASSUME NEW t \in Tasks, NEW p \in Reconcilers(t), RecFails(p) PROVE ReconcileShape'
  BY <1>14, ProcFacts, ReconcilersFacts
  DEF RecFails, ReconcileShape, RowsKept, RowShape, TypeOK, Tasks, Stopped, Reconcilers,
      fenceVars, cancelVars
<1>15. ASSUME NEW t \in Tasks, NEW p \in Reconcilers(t), RecMark(p, t) PROVE ReconcileShape'
  BY <1>15, ProcFacts, ReconcilersFacts
  DEF RecMark, ReconcileShape, RowsKept, RowShape, TypeOK, Tasks, Stopped, Reconcilers,
      cancelVars
<1>16. ASSUME NEW t \in Tasks, NEW p \in Reconcilers(t), RecCheck(p, t) PROVE ReconcileShape'
  BY <1>16, ProcFacts, ReconcilersFacts
  DEF RecCheck, ReconcileShape, RowsKept, RowShape, TypeOK, Tasks, Stopped, Reconcilers,
      fenceVars, cancelVars
<1>17. ASSUME NEW t \in Tasks, NEW p \in Reconcilers(t), RecRemove(p, t) PROVE ReconcileShape'
  BY <1>17, ProcFacts, ReconcilersFacts
  DEF RecRemove, ReconcileShape, RowsKept, RowShape, TypeOK, Tasks, Stopped, Reconcilers,
      cancelVars
<1>18. ASSUME NEW t \in Tasks, NEW g \in Entries, ReaperRetries(t, g) PROVE ReconcileShape'
  BY <1>18, ProcFacts, ReconcilersFacts
  DEF ReaperRetries, ReconcileShape, RowsKept, RowShape, TypeOK, Tasks, Stopped, Reconcilers,
      fenceVars, cancelVars
<1>19. ASSUME NEW c \in Children, SubmitCheck(c) PROVE ReconcileShape'
  BY <1>19
  DEF SubmitCheck, OwnerTo, ReconcileShape, RowsKept, RowShape, TypeOK, Tasks, Stopped,
      Reconcilers, fenceVars, cancelVars
<1>20. ASSUME NEW c \in Children, SubmitRow(c) PROVE ReconcileShape'
  BY <1>20
  DEF SubmitRow, OwnerTo, ReconcileShape, RowsKept, RowShape, TypeOK, Tasks, Stopped,
      Reconcilers, fenceVars, cancelVars
<1>21. ASSUME NEW c \in Children, ClaimRead(c) PROVE ReconcileShape'
  BY <1>21
  DEF ClaimRead, OwnerTo, ReconcileShape, RowsKept, RowShape, TypeOK, Tasks, Stopped,
      Reconcilers, fenceVars, cancelVars
<1>22. ASSUME NEW c \in Children, QueueStops(c) PROVE ReconcileShape'
  BY <1>22
  DEF QueueStops, OwnerTo, ReconcileShape, RowsKept, RowShape, TypeOK, Tasks, Stopped,
      Reconcilers, fenceVars, cancelVars
<1>23. ASSUME NEW c \in Children, Claim(c) PROVE ReconcileShape'
  BY <1>23
  DEF Claim, OwnerTo, ReconcileShape, RowsKept, RowShape, TypeOK, Tasks, Stopped, Reconcilers,
      fenceVars, cancelVars
<1>24. ASSUME NEW c \in Children, Admit(c) PROVE ReconcileShape'
  BY <1>24
  DEF Admit, OwnerTo, ReconcileShape, RowsKept, RowShape, TypeOK, Tasks, Stopped, Reconcilers,
      fenceVars, cancelVars
<1>25. ASSUME NEW c \in Children, StopActive(c) PROVE ReconcileShape'
  BY <1>25, ProcFacts, ReconcilersFacts
  DEF StopActive, OwnerTo, ReconcileShape, RowsKept, RowShape, TypeOK, Tasks, Stopped,
      Reconcilers, cancelVars
<1>26. ASSUME NEW c \in Children, StopActiveDone(c) PROVE ReconcileShape'
  <2>1. c \in Tasks
    BY DEF Tasks
  <2>2. \A p \in Procs : \/ rec'[p] = rec[p] \/ rec'[p] = "idle"
                         \/ rec[p] = "idle" /\ rec'[p] = "load" /\ p \in Reconcilers(c)
    BY <1>26, <2>1, StartReconciler, ProcFacts DEF StopActiveDone, TypeOK
  <2>3. \A u \in Tasks : rec'[Owner(u)] = IF u = c THEN "idle" ELSE rec[Owner(u)]
    BY <1>26, <2>1, StartReconciler, ProcFacts DEF StopActiveDone, TypeOK
  <2>4. db[c] # "absent"
    BY <1>26, <2>1 DEF StopActiveDone, RowShape
  <2>5. \A u \in Tasks : Reconcilers(u)' = Reconcilers(u)
    BY <1>26 DEF StopActiveDone, cancelVars, Reconcilers
  <2>6. QED
    BY <1>26, <2>1, <2>2, <2>3, <2>4, <2>5, ReconcilersFacts
    DEF StopActiveDone, OwnerTo, ReconcileShape, RowsKept, TypeOK
<1>27. ASSUME NEW k \in Cancellers, CancelTarget(k) PROVE ReconcileShape'
  <2>1. PICK t \in NextTarget(k) : visiting' = [visiting EXCEPT ![k] = t]
    BY <1>27 DEF CancelTarget
  <2>2. t \in Tasks /\ db[t] # "absent"
    BY DEF NextTarget, TypeOK, ScopeShape
  <2>3. \A p \in Procs : rec'[p] = IF p = Canceller(k) THEN "load" ELSE rec[p]
    BY <1>27, ProcFacts DEF CancelTarget, TypeOK
  <2>4. \A u \in Tasks : \A p \in Reconcilers(u)' :
            IF p = Canceller(k) THEN u = t ELSE p \in Reconcilers(u)
    BY <2>1, <2>2, ProcFacts DEF Reconcilers, TypeOK
  <2>5. QED
    BY <1>27, <2>2, <2>3, <2>4, ProcFacts, ReconcilersFacts
    DEF CancelTarget, ReconcileShape, RowsKept, TypeOK
<1>28. ASSUME NEW k \in Cancellers, CancelTargetDone(k) PROVE ReconcileShape'
  <2>1. visiting[k] \in Tasks /\ db[visiting[k]] # "absent"
    BY <1>28, ProcFacts, ReconcilersFacts DEF CancelTargetDone, TypeOK, ReconcileShape
  <2>2. \A p \in Procs : \/ rec'[p] = rec[p] \/ rec'[p] = "idle"
                         \/ rec[p] = "idle" /\ rec'[p] = "load" /\ p \in Reconcilers(visiting[k])
    BY <1>28, <2>1, StartReconciler, ProcFacts DEF CancelTargetDone, TypeOK
  <2>3. \A u \in Tasks : rec'[Owner(u)] = rec[Owner(u)]
    BY <1>28, <2>1, StartReconciler, ProcFacts DEF CancelTargetDone, TypeOK
  <2>4. \A u \in Tasks : Reconcilers(u)' = Reconcilers(u)
    BY <1>28 DEF CancelTargetDone, Reconcilers
  <2>5. QED
    BY <1>28, <2>1, <2>2, <2>3, <2>4, ReconcilersFacts
    DEF CancelTargetDone, ReconcileShape, RowsKept, TypeOK
<1>29. ASSUME NEW t \in Tasks, NEW p \in Reconcilers(t), reconcile(p, t) PROVE ReconcileShape'
  BY <1>29, <1>12, <1>13, <1>14, <1>15, <1>16, <1>17 DEF reconcile
<1>30. ASSUME StartRoot \/ RootReread PROVE ReconcileShape'
  BY <1>30, <1>2, <1>3
<1>31. ASSUME NEW t \in Tasks, OwnerStep(t) PROVE ReconcileShape'
  BY <1>31, <1>4, <1>5, <1>6, <1>7, <1>8, <1>9, <1>10, <1>11, <1>29, ReconcilersFacts
  DEF OwnerStep
<1>32. ASSUME NEW t \in Tasks, NEW g \in Entries, ReaperStep(t, g) PROVE ReconcileShape'
  BY <1>32, <1>18, <1>29, ReconcilersFacts DEF ReaperStep
<1>33. ASSUME NEW c \in Children, SubmitCheck(c) \/ ChildStep(c) PROVE ReconcileShape'
  BY <1>33, <1>19, <1>20, <1>21, <1>22, <1>23, <1>24, <1>25, <1>26 DEF ChildStep
<1>34. ASSUME NEW k \in Cancellers, CancelStep(k) \/ \E t \in Tasks : CancelBegin(k, t)
       PROVE  ReconcileShape'
  BY <1>34, <1>1, <1>27, <1>28, <1>29, ReconcilersFacts
  DEF CancelStep, TypeOK, CancelInstall, CancelRead, CancelList, CancelReceipt, CancelBegin,
      fenceVars
<1>35. QED
  BY <1>1, <1>30, <1>31, <1>32, <1>33, <1>34 DEF Next, vars

(* A new entry is open; one that was there is as it was. *)
LEMMA Installed ==
    ASSUME TypeOK, FenceShape, RowsKept, NEW t \in Tasks, install(t)
    PROVE  FenceShape'
<1>1. \A u \in Tasks : gen[u] \in Nat /\ gen'[u] \in Nat
  BY Install, FenceAssumption DEF TypeOK
<1>2. QED
  BY <1>1, Install DEF FenceShape, RowsKept

(* An entry leaves the open state, and the map, only after a write. *)
LEMMA FenceStep ==
    ASSUME TypeOK, ReconcileShape, FenceShape, RowsKept, [Next]_vars
    PROVE  FenceShape'
<1>1. ASSUME UNCHANGED <<gen, fence>> PROVE FenceShape'
  BY <1>1 DEF FenceShape, RowsKept, TypeOK, Tasks, Stopped
<1>2. ASSUME RootReread PROVE FenceShape'
  BY <1>2
  DEF RootReread, DbFails, OwnerTo, FenceShape, RowsKept, TypeOK, Tasks, Stopped, cancelVars
<1>3. ASSUME NEW t \in Tasks, Inherit(t) PROVE FenceShape'
  BY <1>3, Installed
  DEF Inherit, inherit_and_signal, TypeOK, Tasks, RowsKept, FenceShape, fenceVars
<1>4. ASSUME NEW t \in Tasks, ReleaseFence(t) PROVE FenceShape'
  BY <1>4 DEF ReleaseFence, OwnerTo, FenceShape, RowsKept, TypeOK, Tasks, Stopped, cancelVars
<1>5. ASSUME NEW t \in Tasks, NEW p \in Reconcilers(t), RecMark(p, t) PROVE FenceShape'
  BY <1>5 DEF RecMark, FenceShape, RowsKept, TypeOK, Tasks, Stopped, ReconcileShape
<1>6. ASSUME NEW t \in Tasks, NEW p \in Reconcilers(t), RecRemove(p, t) PROVE FenceShape'
  BY <1>6 DEF RecRemove, FenceShape, RowsKept, TypeOK, Tasks, Stopped, ReconcileShape
<1>7. ASSUME NEW c \in Children, StopActive(c) PROVE FenceShape'
  BY <1>7, Installed DEF StopActive, TypeOK, Tasks, RowsKept, FenceShape
<1>8. ASSUME NEW k \in Cancellers, CancelInstall(k) PROVE FenceShape'
  BY <1>8, Installed DEF CancelInstall, NextTarget, TypeOK, Tasks, RowsKept, FenceShape
<1>9. ASSUME NEW k \in Cancellers, CancelTarget(k) PROVE FenceShape'
  BY <1>9, Installed DEF CancelTarget, NextTarget, TypeOK, Tasks, RowsKept, FenceShape
<1>10. ASSUME NEW t \in Tasks, NEW p \in Reconcilers(t), reconcile(p, t) PROVE FenceShape'
  BY <1>10, <1>1, <1>5, <1>6
  DEF reconcile, RecLoad, RecPersist, RecFails, RecCheck, fenceVars, cancelVars
<1>11. ASSUME StartRoot \/ RootReread PROVE FenceShape'
  BY <1>11, <1>1, <1>2 DEF StartRoot, fenceVars, cancelVars
<1>12. ASSUME NEW t \in Tasks, OwnerStep(t) PROVE FenceShape'
  BY <1>12, <1>1, <1>3, <1>4, <1>10, ReconcilersFacts
  DEF OwnerStep, Register, ExecutorEnds, EndReconcile, EndReconciled, Commit, ReleaseRemove,
      fenceVars, cancelVars
<1>13. ASSUME NEW t \in Tasks, NEW g \in Entries, ReaperStep(t, g) PROVE FenceShape'
  BY <1>13, <1>1, <1>10, ReconcilersFacts DEF ReaperStep, ReaperRetries, fenceVars, cancelVars
<1>14. ASSUME NEW c \in Children, SubmitCheck(c) \/ ChildStep(c) PROVE FenceShape'
  BY <1>14, <1>1, <1>7
  DEF ChildStep, SubmitCheck, SubmitRow, ClaimRead, QueueStops, Claim, Admit, StopActiveDone,
      fenceVars, cancelVars
<1>15. ASSUME NEW k \in Cancellers, CancelStep(k) \/ \E t \in Tasks : CancelBegin(k, t)
       PROVE  FenceShape'
  BY <1>15, <1>1, <1>8, <1>9, <1>10, ReconcilersFacts
  DEF CancelStep, TypeOK, CancelRead, CancelList, CancelTargetDone, CancelReceipt, CancelBegin,
      fenceVars
<1>16. QED
  BY <1>1, <1>11, <1>12, <1>13, <1>14, <1>15 DEF Next, vars

(* A request is through with a target only when that has stopped, or it *)
(* remembers the failure.                                                 *)
LEMMA CoveredStep ==
    ASSUME TypeOK, ScopeShape, Covered, RowsKept, [Next]_vars
    PROVE  Covered'
<1>1. ASSUME UNCHANGED <<req, scope, todo, visiting, failed>> PROVE Covered'
  BY <1>1 DEF Covered, RowsKept, TypeOK, Tasks, Stopped
<1>2. ASSUME NEW k \in Cancellers, NEW t \in Tasks, CancelBegin(k, t) PROVE Covered'
  BY <1>2
  DEF CancelBegin, ReqTo, attached_subtree, Covered, RowsKept, TypeOK, Tasks, Stopped, ReqTo,
      fenceVars
<1>3. ASSUME NEW k \in Cancellers, CancelInstall(k) PROVE Covered'
  BY <1>3 DEF CancelInstall, install, NextTarget, Covered, RowsKept, TypeOK, Tasks, Stopped
<1>4. ASSUME NEW k \in Cancellers, CancelRead(k) PROVE Covered'
  BY <1>4
  DEF CancelRead, DbFails, ReqTo, attached_subtree, Covered, RowsKept, TypeOK, Tasks, Stopped,
      ReqTo, fenceVars
<1>5. ASSUME NEW k \in Cancellers, CancelList(k) PROVE Covered'
  BY <1>5
  DEF CancelList, DbFails, ReqTo, attached_subtree, Covered, RowsKept, TypeOK, Tasks, Stopped,
      ReqTo, fenceVars
<1>6. ASSUME NEW k \in Cancellers, CancelTarget(k) PROVE Covered'
  BY <1>6
  DEF CancelTarget, install, ReqTo, NextTarget, Covered, RowsKept, TypeOK, Tasks, Stopped, ReqTo
<1>7. ASSUME NEW k \in Cancellers, CancelTargetDone(k) PROVE Covered'
  <2>1. rec[Canceller(k)] = "err" => failed'[k]
    BY <1>7 DEF CancelTargetDone, TypeOK
  <2>2. rec[Canceller(k)] = "ok" => db[visiting[k]] \in Stopped
    BY DEF ScopeShape
  <2>3. failed[k] => failed'[k]
    BY <1>7 DEF CancelTargetDone, TypeOK
  <2>4. \A j \in Cancellers : j # k => failed'[j] = failed[j]
    BY <1>7 DEF CancelTargetDone, TypeOK
  <2>5. QED
    BY <1>7, <2>1, <2>2, <2>3, <2>4
    DEF CancelTargetDone, Covered, RowsKept, TypeOK, Tasks, Stopped, ReqTo, fenceVars
<1>8. ASSUME NEW k \in Cancellers, CancelReceipt(k) PROVE Covered'
  BY <1>8
  DEF CancelReceipt, DbFails, ReqTo, Covered, RowsKept, TypeOK, Tasks, Stopped, ReqTo, fenceVars
<1>9. ASSUME NEW t \in Tasks, NEW p \in Reconcilers(t), reconcile(p, t) PROVE Covered'
  BY <1>9, <1>1
  DEF reconcile, RecLoad, RecPersist, RecFails, RecMark, RecCheck, RecRemove, fenceVars,
      cancelVars
<1>10. ASSUME StartRoot \/ RootReread PROVE Covered'
  BY <1>10, <1>1 DEF StartRoot, RootReread, fenceVars, cancelVars
<1>11. ASSUME NEW t \in Tasks, OwnerStep(t) PROVE Covered'
  BY <1>11, <1>1, <1>9, ReconcilersFacts
  DEF OwnerStep, Register, Inherit, ExecutorEnds, EndReconcile, EndReconciled, Commit,
      ReleaseRemove, ReleaseFence, fenceVars, cancelVars
<1>12. ASSUME NEW t \in Tasks, NEW g \in Entries, ReaperStep(t, g) PROVE Covered'
  BY <1>12, <1>1, <1>9, ReconcilersFacts DEF ReaperStep, ReaperRetries, fenceVars, cancelVars
<1>13. ASSUME NEW c \in Children, SubmitCheck(c) \/ ChildStep(c) PROVE Covered'
  BY <1>13, <1>1
  DEF ChildStep, SubmitCheck, SubmitRow, ClaimRead, QueueStops, Claim, Admit, StopActive,
      StopActiveDone, fenceVars, cancelVars
<1>14. ASSUME NEW k \in Cancellers, CancelStep(k) \/ \E t \in Tasks : CancelBegin(k, t)
       PROVE  Covered'
  BY <1>14, <1>3, <1>4, <1>5, <1>6, <1>7, <1>8, <1>2, <1>9, ReconcilersFacts
  DEF CancelStep, TypeOK
<1>15. QED
  BY <1>1, <1>10, <1>11, <1>12, <1>13, <1>14 DEF Next, vars

(* Whoever marks an entry reconciled looks for an owner after that, and an *)
(* owner looks at the mark after it has left.                               *)
LEMMA ReleasedStep ==
    ASSUME TypeOK, ScopeShape, ReconcileShape, FenceIsReleased, [Next]_vars
    PROVE  FenceIsReleased'
<1>1. ASSUME UNCHANGED <<fence, active, own, rec, visiting>> PROVE FenceIsReleased'
  BY <1>1 DEF FenceIsReleased, TypeOK, Tasks, Reconcilers
<1>2. ASSUME StartRoot PROVE FenceIsReleased'
  BY <1>2, ProcFacts, ReconcilersFacts
  DEF StartRoot, OwnerTo, FenceIsReleased, TypeOK, Tasks, Reconcilers, fenceVars, cancelVars
<1>3. ASSUME RootReread PROVE FenceIsReleased'
  BY <1>3, ProcFacts, ReconcilersFacts
  DEF RootReread, OwnerTo, FenceIsReleased, TypeOK, Tasks, Reconcilers, cancelVars
<1>4. ASSUME NEW t \in Tasks, Register(t) PROVE FenceIsReleased'
  BY <1>4, ProcFacts, ReconcilersFacts
  DEF Register, OwnerTo, FenceIsReleased, TypeOK, Tasks, Reconcilers, fenceVars, cancelVars
<1>5. ASSUME NEW t \in Tasks, Inherit(t) PROVE FenceIsReleased'
  <2>1. \A p \in Procs : rec[p] \in {"check", "remove"} => rec'[p] = rec[p]
    BY <1>5, StartReconciler, ProcFacts DEF Inherit, inherit_and_signal, OwnerTo, TypeOK, Tasks
  <2>2. \A u \in Tasks : Reconcilers(u)' = Reconcilers(u)
    BY <1>5 DEF Inherit, cancelVars, Reconcilers
  <2>3. \A u \in Tasks : fence'[u] = "reconciled" => fence[u] = "reconciled"
    BY <1>5, Install DEF Inherit, inherit_and_signal, OwnerTo, TypeOK, fenceVars
  <2>4. QED
    BY <1>5, <2>1, <2>2, <2>3, ReconcilersFacts
    DEF Inherit, inherit_and_signal, OwnerTo, FenceIsReleased, TypeOK, Tasks
<1>6. ASSUME NEW t \in Tasks, ExecutorEnds(t) PROVE FenceIsReleased'
  BY <1>6, ProcFacts, ReconcilersFacts
  DEF ExecutorEnds, OwnerTo, FenceIsReleased, TypeOK, Tasks, Reconcilers, fenceVars, cancelVars
<1>7. ASSUME NEW t \in Tasks, EndReconcile(t) PROVE FenceIsReleased'
  BY <1>7, ProcFacts, ReconcilersFacts
  DEF EndReconcile, OwnerTo, FenceIsReleased, TypeOK, Tasks, Reconcilers, ReconcileShape,
      fenceVars, cancelVars
<1>8. ASSUME NEW t \in Tasks, EndReconciled(t) PROVE FenceIsReleased'
  BY <1>8, ProcFacts, ReconcilersFacts
  DEF EndReconciled, OwnerTo, FenceIsReleased, TypeOK, Tasks, Reconcilers, ReconcileShape,
      fenceVars, cancelVars
<1>9. ASSUME NEW t \in Tasks, Commit(t) PROVE FenceIsReleased'
  BY <1>9, ProcFacts, ReconcilersFacts
  DEF Commit, OwnerTo, FenceIsReleased, TypeOK, Tasks, Reconcilers, fenceVars, cancelVars
<1>10. ASSUME NEW t \in Tasks, ReleaseRemove(t) PROVE FenceIsReleased'
  BY <1>10, ProcFacts, ReconcilersFacts
  DEF ReleaseRemove, OwnerTo, FenceIsReleased, TypeOK, Tasks, Reconcilers, fenceVars, cancelVars
<1>11. ASSUME NEW t \in Tasks, ReleaseFence(t) PROVE FenceIsReleased'
  BY <1>11, ProcFacts, ReconcilersFacts
  DEF ReleaseFence, OwnerTo, FenceIsReleased, TypeOK, Tasks, Reconcilers, cancelVars
<1>12. ASSUME NEW t \in Tasks, NEW p \in Reconcilers(t), RecLoad(p, t) PROVE FenceIsReleased'
  <2>1. \A u \in Tasks : Reconcilers(u)' = Reconcilers(u)
    BY <1>12 DEF RecLoad, cancelVars, Reconcilers
  <2>2. \A u \in Tasks : \A q \in Reconcilers(u) : u # t => rec'[q] = rec[q]
    BY <1>12, ReconcilersFacts DEF RecLoad, TypeOK
  <2>3. QED
    BY <1>12, <2>1, <2>2, ReconcilersFacts DEF RecLoad, FenceIsReleased, TypeOK, fenceVars
<1>13. ASSUME NEW t \in Tasks, NEW p \in Reconcilers(t), RecPersist(p, t) PROVE FenceIsReleased'
  <2>1. \A u \in Tasks : Reconcilers(u)' = Reconcilers(u)
    BY <1>13 DEF RecPersist, cancelVars, Reconcilers
  <2>2. \A u \in Tasks : \A q \in Reconcilers(u) : u # t => rec'[q] = rec[q]
    BY <1>13, ReconcilersFacts DEF RecPersist, TypeOK
  <2>3. QED
    BY <1>13, <2>1, <2>2, ReconcilersFacts DEF RecPersist, FenceIsReleased, TypeOK, fenceVars
<1>14. ASSUME NEW t \in Tasks, NEW p \in Reconcilers(t), RecFails(p) PROVE FenceIsReleased'
  <2>1. \A u \in Tasks : Reconcilers(u)' = Reconcilers(u)
    BY <1>14 DEF RecFails, cancelVars, Reconcilers
  <2>2. \A u \in Tasks : \A q \in Reconcilers(u) : u # t => rec'[q] = rec[q]
    BY <1>14, ReconcilersFacts DEF RecFails, TypeOK
  <2>3. QED
    BY <1>14, <2>1, <2>2, ReconcilersFacts DEF RecFails, FenceIsReleased, TypeOK, fenceVars
<1>15. ASSUME NEW t \in Tasks, NEW p \in Reconcilers(t), RecMark(p, t) PROVE FenceIsReleased'
  <2>1. \A u \in Tasks : Reconcilers(u)' = Reconcilers(u)
    BY <1>15 DEF RecMark, cancelVars, Reconcilers
  <2>2. \A u \in Tasks : \A q \in Reconcilers(u) : u # t => rec'[q] = rec[q]
    BY <1>15, ReconcilersFacts DEF RecMark, TypeOK
  <2>3. QED
    BY <1>15, <2>1, <2>2, ReconcilersFacts DEF RecMark, FenceIsReleased, TypeOK
<1>16. ASSUME NEW t \in Tasks, NEW p \in Reconcilers(t), RecCheck(p, t) PROVE FenceIsReleased'
  <2>1. \A u \in Tasks : Reconcilers(u)' = Reconcilers(u)
    BY <1>16 DEF RecCheck, cancelVars, Reconcilers
  <2>2. \A u \in Tasks : \A q \in Reconcilers(u) : u # t => rec'[q] = rec[q]
    BY <1>16, ReconcilersFacts DEF RecCheck, TypeOK
  <2>3. QED
    BY <1>16, <2>1, <2>2, ReconcilersFacts DEF RecCheck, FenceIsReleased, TypeOK, fenceVars
<1>17. ASSUME NEW t \in Tasks, NEW p \in Reconcilers(t), RecRemove(p, t) PROVE FenceIsReleased'
  <2>1. \A u \in Tasks : Reconcilers(u)' = Reconcilers(u)
    BY <1>17 DEF RecRemove, cancelVars, Reconcilers
  <2>2. \A u \in Tasks : \A q \in Reconcilers(u) : u # t => rec'[q] = rec[q]
    BY <1>17, ReconcilersFacts DEF RecRemove, TypeOK
  <2>3. QED
    BY <1>17, <2>1, <2>2, ReconcilersFacts DEF RecRemove, FenceIsReleased, TypeOK
<1>18. ASSUME NEW t \in Tasks, NEW g \in Entries, ReaperRetries(t, g) PROVE FenceIsReleased'
  BY <1>18, ProcFacts, ReconcilersFacts
  DEF ReaperRetries, FenceIsReleased, TypeOK, Tasks, Reconcilers, fenceVars, cancelVars
<1>19. ASSUME NEW c \in Children, SubmitCheck(c) PROVE FenceIsReleased'
  BY <1>19, ProcFacts, ReconcilersFacts
  DEF SubmitCheck, OwnerTo, FenceIsReleased, TypeOK, Tasks, Reconcilers, fenceVars, cancelVars
<1>20. ASSUME NEW c \in Children, SubmitRow(c) PROVE FenceIsReleased'
  BY <1>20, ProcFacts, ReconcilersFacts
  DEF SubmitRow, OwnerTo, FenceIsReleased, TypeOK, Tasks, Reconcilers, fenceVars, cancelVars
<1>21. ASSUME NEW c \in Children, ClaimRead(c) PROVE FenceIsReleased'
  BY <1>21, ProcFacts, ReconcilersFacts
  DEF ClaimRead, OwnerTo, FenceIsReleased, TypeOK, Tasks, Reconcilers, fenceVars, cancelVars
<1>22. ASSUME NEW c \in Children, QueueStops(c) PROVE FenceIsReleased'
  BY <1>22, ProcFacts, ReconcilersFacts
  DEF QueueStops, OwnerTo, FenceIsReleased, TypeOK, Tasks, Reconcilers, fenceVars, cancelVars
<1>23. ASSUME NEW c \in Children, Claim(c) PROVE FenceIsReleased'
  BY <1>23, ProcFacts, ReconcilersFacts
  DEF Claim, OwnerTo, FenceIsReleased, TypeOK, Tasks, Reconcilers, fenceVars, cancelVars
<1>24. ASSUME NEW c \in Children, Admit(c) PROVE FenceIsReleased'
  BY <1>24, ProcFacts, ReconcilersFacts
  DEF Admit, OwnerTo, FenceIsReleased, TypeOK, Tasks, Reconcilers, fenceVars, cancelVars
<1>25. ASSUME NEW c \in Children, StopActive(c) PROVE FenceIsReleased'
  <2>1. \A p \in Procs : rec[p] \in {"check", "remove"} => rec'[p] = rec[p]
    BY <1>25, StartReconciler, ProcFacts DEF StopActive, OwnerTo, ReconcileShape, TypeOK, Tasks
  <2>2. \A u \in Tasks : Reconcilers(u)' = Reconcilers(u)
    BY <1>25 DEF StopActive, cancelVars, Reconcilers
  <2>3. \A u \in Tasks : fence'[u] = "reconciled" => fence[u] = "reconciled"
    BY <1>25, Install DEF StopActive, Tasks
  <2>4. QED
    BY <1>25, <2>1, <2>2, <2>3, ReconcilersFacts
    DEF StopActive, OwnerTo, ReconcileShape, FenceIsReleased, TypeOK, Tasks
<1>26. ASSUME NEW c \in Children, StopActiveDone(c) PROVE FenceIsReleased'
  <2>1. \A p \in Procs : rec[p] \in {"check", "remove"} => rec'[p] = rec[p]
    BY <1>26, StartReconciler, ProcFacts DEF StopActiveDone, OwnerTo, TypeOK, Tasks
  <2>2. \A u \in Tasks : Reconcilers(u)' = Reconcilers(u)
    BY <1>26 DEF StopActiveDone, cancelVars, Reconcilers
  <2>3. \A u \in Tasks : fence'[u] = "reconciled" => fence[u] = "reconciled"
    BY <1>26, Install DEF StopActiveDone, OwnerTo, TypeOK, fenceVars
  <2>4. QED
    BY <1>26, <2>1, <2>2, <2>3, ReconcilersFacts
    DEF StopActiveDone, OwnerTo, FenceIsReleased, TypeOK, Tasks
<1>27. ASSUME NEW k \in Cancellers, CancelInstall(k) PROVE FenceIsReleased'
  <2>1. \A u \in Tasks : fence'[u] = "reconciled" => fence[u] = "reconciled"
    BY <1>27, Install DEF CancelInstall, NextTarget, TypeOK
  <2>2. QED
    BY <1>27, <2>1 DEF CancelInstall, FenceIsReleased, Reconcilers
<1>28. ASSUME NEW k \in Cancellers, CancelTarget(k) PROVE FenceIsReleased'
  <2>1. \A u \in Tasks : fence'[u] = "reconciled" => fence[u] = "reconciled"
    <3>1. PICK t \in NextTarget(k) : install(t)
      BY <1>28 DEF CancelTarget
    <3>2. QED
      BY <3>1, Install DEF NextTarget, TypeOK
  <2>2. rec[Canceller(k)] = "idle"
    BY <1>28 DEF CancelTarget, ScopeShape
  <2>3. \A p \in Procs : rec[p] \in {"check", "remove"} => rec'[p] = rec[p] /\ p # Canceller(k)
    BY <1>28, <2>2 DEF CancelTarget, TypeOK
  <2>4. \A u \in Tasks : \A p \in Reconcilers(u) : p # Canceller(k) => p \in Reconcilers(u)'
    BY <1>28, ProcFacts DEF CancelTarget, Reconcilers, TypeOK
  <2>5. QED
    BY <1>28, <2>1, <2>3, <2>4, ReconcilersFacts DEF CancelTarget, FenceIsReleased
<1>29. ASSUME NEW k \in Cancellers, CancelTargetDone(k) PROVE FenceIsReleased'
  <2>1. \A p \in Procs : rec[p] \in {"check", "remove"} => rec'[p] = rec[p]
    BY <1>29, StartReconciler, ProcFacts DEF CancelTargetDone, ReqTo, TypeOK, Tasks
  <2>2. \A u \in Tasks : Reconcilers(u)' = Reconcilers(u)
    BY <1>29 DEF CancelTargetDone, Reconcilers
  <2>3. \A u \in Tasks : fence'[u] = "reconciled" => fence[u] = "reconciled"
    BY <1>29, Install DEF CancelTargetDone, ReqTo, TypeOK, fenceVars
  <2>4. QED
    BY <1>29, <2>1, <2>2, <2>3, ReconcilersFacts
    DEF CancelTargetDone, ReqTo, FenceIsReleased, TypeOK, Tasks
<1>30. ASSUME NEW t \in Tasks, NEW p \in Reconcilers(t), reconcile(p, t) PROVE FenceIsReleased'
  BY <1>30, <1>12, <1>13, <1>14, <1>15, <1>16, <1>17 DEF reconcile
<1>31. ASSUME StartRoot \/ RootReread PROVE FenceIsReleased'
  BY <1>31, <1>2, <1>3
<1>32. ASSUME NEW t \in Tasks, OwnerStep(t) PROVE FenceIsReleased'
  BY <1>32, <1>4, <1>5, <1>6, <1>7, <1>8, <1>9, <1>10, <1>11, <1>30, ReconcilersFacts
  DEF OwnerStep
<1>33. ASSUME NEW t \in Tasks, NEW g \in Entries, ReaperStep(t, g) PROVE FenceIsReleased'
  BY <1>33, <1>18, <1>30, ReconcilersFacts DEF ReaperStep
<1>34. ASSUME NEW c \in Children, SubmitCheck(c) \/ ChildStep(c) PROVE FenceIsReleased'
  BY <1>34, <1>19, <1>20, <1>21, <1>22, <1>23, <1>24, <1>25, <1>26 DEF ChildStep
<1>35. ASSUME NEW k \in Cancellers, CancelStep(k) \/ \E t \in Tasks : CancelBegin(k, t)
       PROVE  FenceIsReleased'
  BY <1>35, <1>1, <1>27, <1>28, <1>29, <1>30, ReconcilersFacts
  DEF CancelStep, TypeOK, CancelRead, CancelList, CancelReceipt, CancelBegin, fenceVars
<1>36. QED
  BY <1>1, <1>31, <1>32, <1>33, <1>34, <1>35 DEF Next, vars

----------------------------------------------------------------------------------
(* Nothing has begun. *)
LEMMA InitInv == Init => IInv
<1> SUFFICES ASSUME Init PROVE IInv
  OBVIOUS
<1> USE DEF Init
<1>1. TypeOK
  BY FenceAssumption DEF TypeOK, Tasks, RecState
<1>2. RowShape /\ FenceShape /\ Covered /\ FenceIsReleased
  BY DEF RowShape, FenceShape, Covered, FenceIsReleased
<1>3. ScopeShape /\ ReconcileShape
  BY ProcFacts, ReconcilersFacts DEF ScopeShape, ReconcileShape
<1>4. QED
  BY <1>1, <1>2, <1>3 DEF IInv

(* Every step keeps the strengthened invariant. *)
LEMMA InvStep == IInv /\ [Next]_vars => IInv'
<1> SUFFICES ASSUME IInv, [Next]_vars PROVE IInv'
  OBVIOUS
<1> USE DEF IInv
<1>1. TypeOK'
  BY TypeStep
<1>2. RowsKept
  BY RowsKeep
<1>3. RowShape'
  BY <1>2, RowStep
<1>4. ScopeShape'
  BY <1>1, <1>2, ScopeStep
<1>5. ReconcileShape'
  BY <1>2, ReconcileStep
<1>6. FenceShape'
  BY <1>2, FenceStep
<1>7. Covered'
  BY <1>2, CoveredStep
<1>8. FenceIsReleased'
  BY ReleasedStep
<1>9. QED
  BY <1>1, <1>3, <1>4, <1>5, <1>6, <1>7, <1>8

(* The strengthened invariant holds in every reachable state. *)
LEMMA Inductive == Spec => []IInv
BY InitInv, InvStep, PTL DEF Spec

(* Every reachable state of fences, owners, requests and reapers is well     *)
(* typed.                                                                    *)
THEOREM TypeCorrect == Spec => []TypeOK
BY Inductive, PTL DEF IInv

(* cancel_scoped: a receipt without an error means that every Task of its    *)
(* scope has durably stopped, whoever wrote that and whatever failed before. *)
THEOREM ReceiptsAreDurable == Spec => []ReceiptIsDurable
<1>1. IInv => ReceiptIsDurable
  BY DEF IInv, Covered, ReceiptIsDurable
<1>2. QED
  BY Inductive, <1>1, PTL

(* release_active and reconcile: a reconciled entry whose owner has left the *)
(* map is about to be removed by that owner or by somebody who reconciles    *)
(* the same Run.                                                             *)
THEOREM FencesAreReleased == Spec => []FenceIsReleased
BY Inductive, PTL DEF IInv

(* A Task that has durably stopped never works again.                        *)
THEOREM StoppedStays == Spec => [][RowsKept]_vars
<1>1. IInv /\ [Next]_vars => [RowsKept]_vars
  BY RowsKeep DEF IInv
<1>2. QED
  BY Inductive, <1>1, PTL DEF Spec

==================================================================================
