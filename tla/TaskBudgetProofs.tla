-------------------------- MODULE TaskBudgetProofs --------------------------
(***************************************************************************)
(* The budget account of TaskBudget for every number of children and calls, *)
(* every limit, amount and usage.                                           *)
(*                                                                          *)
(* A sum over rows is the number of units the rows hold, so that adding,    *)
(* releasing and comparing rows are facts about finite sets and need no     *)
(* induction.  LedgerShape says what the rows of a Task that is not working *)
(* look like, Spending what the account knows while nothing unreserved was  *)
(* spent; with them, the properties of the account are inductive.           *)
(***************************************************************************)
EXTENDS TaskBudget, FiniteSetTheorems, FunctionTheorems, TLAPS

Units(f) == UNION {{x} \X (1..f[x]) : x \in DOMAIN f}

(* The root's Run was settled with complete usage and is part of consumed. *)
RootCharged == run[Root].status = "terminal" /\ run[Root].usage_complete

(* What the root's own Run has used or reserved and consumed does not show. *)
RootOutstanding == IF RootCharged THEN 0 ELSE RootInFlight

SettledChildren == {c \in Children : reservation[c].status = "settled"}

(* A child without a reservation has done nothing, one that is settled can  *)
(* do nothing any more, and neither can a root whose usage was charged.     *)
LedgerShape ==
    /\ \A c \in Children : reservation[c].status = "absent" =>
          /\ run[c].status = "absent" /\ run[c].total_tokens = 0
          /\ consumed[c] = 0 /\ StartedCalls(c) = {}
    /\ \A c \in Children : reservation[c].status = "settled" =>
          run[c].status = "terminal" /\ StartedCalls(c) = {}
    /\ RootCharged => StartedCalls(Root) = {}
    /\ reported[Root] = run[Root].total_tokens

(* A child stays in its grant, with the calls in flight. *)
ChildrenInGrant == \A c \in Held : TotalUsed(c) + ActiveTokens(c) <= reservation[c].grant

(* So does the root in what it has not given away. *)
RootInLimit == consumed[Root] + reserved + RootOutstanding <= limit

(* The root was charged exactly its own settled usage and its settled       *)
(* children's.                                                              *)
SettledUsage == Total([c \in SettledChildren |-> reported[c]])
RootOwnUsage == IF RootCharged THEN run[Root].total_tokens ELSE 0
RootChargedOnce == consumed[Root] = SettledUsage + RootOwnUsage

(* This holds while nothing unreserved was spent. *)
Spending == ~breached => ChildrenInGrant /\ RootInLimit /\ RootChargedOnce

IInv == /\ TypeOK /\ LedgerShape /\ AccountWithinLimit /\ ParentReserveKept
        /\ ReservedIsHeld /\ ChargedExactlyOnce /\ Spending

----------------------------------------------------------------------------
(* Sums. *)

(* Finitely many rows hold finitely many units. *)
LEMMA TotalNat ==
    ASSUME NEW D, IsFiniteSet(D), NEW f \in [D -> Nat]
    PROVE  IsFiniteSet(Units(f)) /\ Total(f) = Cardinality(Units(f)) /\ Total(f) \in Nat
<1> DEFINE S == {{x} \X (1..f[x]) : x \in D}
           g == [x \in D |-> {x} \X (1..f[x])]
<1>1. g \in Surjection(D, S)
  BY DEF Surjection
<1>2. IsFiniteSet(S)
  BY <1>1, FS_Surjection
<1>3. \A T \in S : IsFiniteSet(T)
  <2> SUFFICES ASSUME NEW x \in D PROVE IsFiniteSet({x} \X (1..f[x]))
    OBVIOUS
  <2>1. IsFiniteSet({x})
    BY FS_Singleton
  <2>2. IsFiniteSet(1..f[x])
    BY FS_Interval
  <2> QED
    BY <2>1, <2>2, FS_Product
<1>4. IsFiniteSet(UNION S)
  <2> HIDE DEF S
  <2> QED
    BY <1>2, <1>3, FS_UNION
<1>5. Units(f) = UNION S /\ Total(f) = Cardinality(UNION S)
  BY DEF Units, Total
<1> HIDE DEF S
<1> QED
  BY <1>4, <1>5, FS_CardinalityType

(* The rows of two disjoint sets add up. *)
LEMMA TotalSplit ==
    ASSUME NEW D, NEW A, NEW B, IsFiniteSet(A), IsFiniteSet(B), A \cup B = D, A \cap B = {},
           NEW f \in [D -> Nat], NEW g \in [A -> Nat], NEW h \in [B -> Nat],
           \A x \in A : g[x] = f[x], \A x \in B : h[x] = f[x]
    PROVE  Total(f) = Total(g) + Total(h)
<1>1. Units(f) = Units(g) \cup Units(h)
  <2>1. \A u \in Units(f) : u \in Units(g) \cup Units(h)
    BY DEF Units
  <2>2. \A u \in Units(g) : u \in Units(f)
    BY DEF Units
  <2>3. \A u \in Units(h) : u \in Units(f)
    BY DEF Units
  <2> QED
    BY <2>1, <2>2, <2>3
<1>2. Units(g) \cap Units(h) = {}
  BY DEF Units
<1>3. IsFiniteSet(A \cup B)
  BY FS_Union
<1>4. /\ IsFiniteSet(Units(g)) /\ Total(g) = Cardinality(Units(g)) /\ Total(g) \in Nat
      /\ IsFiniteSet(Units(h)) /\ Total(h) = Cardinality(Units(h)) /\ Total(h) \in Nat
      /\ Total(f) = Cardinality(Units(f))
  BY <1>3, TotalNat
<1>5. Cardinality(Units(g) \cup Units(h))
        = Cardinality(Units(g)) + Cardinality(Units(h)) - Cardinality(Units(g) \cap Units(h))
  BY <1>4, FS_Union
<1>6. Cardinality(Units(g) \cap Units(h)) = 0
  BY <1>2, FS_EmptySet
<1> QED
  BY <1>1, <1>4, <1>5, <1>6

(* One row holds its amount. *)
LEMMA TotalSingle ==
    ASSUME NEW a, NEW h \in [{a} -> Nat]
    PROVE  Total(h) = h[a]
<1>1. Units(h) = {a} \X (1..h[a])
  BY DEF Units
<1>2. IsFiniteSet({a}) /\ Cardinality({a}) = 1
  BY FS_Singleton
<1>3. IsFiniteSet(1..h[a]) /\ Cardinality(1..h[a]) = h[a]
  BY FS_Interval
<1>4. Cardinality({a} \X (1..h[a])) = Cardinality({a}) * Cardinality(1..h[a])
  BY <1>2, <1>3, FS_Product
<1>5. Total(h) = Cardinality(Units(h))
  BY <1>2, TotalNat
<1> QED
  BY <1>1, <1>2, <1>3, <1>4, <1>5

(* One row more. *)
LEMMA TotalExtend ==
    ASSUME NEW D, IsFiniteSet(D), NEW a, a \notin D,
           NEW f \in [D -> Nat], NEW g \in [D \cup {a} -> Nat],
           \A x \in D : g[x] = f[x]
    PROVE  Total(g) = Total(f) + g[a]
<1> DEFINE h == [x \in {a} |-> g[a]]
<1>1. IsFiniteSet({a})
  BY FS_Singleton
<1>2. D \cap {a} = {} /\ h \in [{a} -> Nat] /\ \A x \in {a} : h[x] = g[x]
  OBVIOUS
<1>3. Total(h) = g[a]
  BY <1>2, TotalSingle
<1> HIDE DEF h
<1>4. Total(g) = Total(f) + Total(h)
  BY <1>1, <1>2, TotalSplit
<1> QED
  BY <1>3, <1>4

(* One row less. *)
LEMMA TotalRemove ==
    ASSUME NEW D, IsFiniteSet(D), NEW a \in D,
           NEW f \in [D -> Nat], NEW g \in [D \ {a} -> Nat],
           \A x \in D \ {a} : g[x] = f[x]
    PROVE  Total(f) = Total(g) + f[a]
<1>1. IsFiniteSet(D \ {a}) /\ (D \ {a}) \cup {a} = D /\ a \notin D \ {a}
  BY FS_RemoveElement
<1> QED
  BY <1>1, TotalExtend

(* Smaller rows hold less. *)
LEMMA TotalMonotone ==
    ASSUME NEW D, IsFiniteSet(D), NEW f \in [D -> Nat], NEW g \in [D -> Nat],
           \A x \in D : f[x] <= g[x]
    PROVE  Total(f) <= Total(g)
<1>1. Units(f) \subseteq Units(g)
  BY DEF Units
<1> QED
  BY <1>1, TotalNat, FS_Subset

(* Empty rows, or none, hold nothing. *)
LEMMA TotalEmpty ==
    ASSUME NEW D, NEW f \in [D -> Nat], \A x \in D : f[x] = 0
    PROVE  Total(f) = 0
<1>1. Units(f) = {}
  BY DEF Units
<1> QED
  BY <1>1, FS_EmptySet DEF Total, Units

----------------------------------------------------------------------------
(* What the calls in flight have reserved. *)

(* The sum over a Task's started calls is a number. *)
LEMMA ActiveNat ==
    ASSUME TypeOK, NEW t \in Tasks
    PROVE  /\ IsFiniteSet(StartedCalls(t)) /\ ActiveTokens(t) \in Nat
           /\ [k \in StartedCalls(t) |-> call[k].reserved] \in [StartedCalls(t) -> Nat]
           /\ StartedCalls(t) = {} => ActiveTokens(t) = 0
<1>1. IsFiniteSet(StartedCalls(t))
  BY BudgetAssumption, FS_Subset DEF StartedCalls
<1>2. [k \in StartedCalls(t) |-> call[k].reserved] \in [StartedCalls(t) -> Nat]
  BY DEF StartedCalls, TypeOK, Call
<1>3. ActiveTokens(t) \in Nat
  BY <1>1, <1>2, TotalNat DEF ActiveTokens
<1>4. StartedCalls(t) = {} => ActiveTokens(t) = 0
  BY <1>2, TotalEmpty DEF ActiveTokens
<1> QED
  BY <1>1, <1>2, <1>3, <1>4

(* A call that starts adds its reservation to its Task and to no other. *)
LEMMA StartSum ==
    ASSUME TypeOK, TypeOK', NEW k \in Calls, NEW t \in Tasks, NEW amount \in Nat,
           call[k].status = "absent",
           call' = [call EXCEPT ![k] = [status |-> "started", task |-> t, reserved |-> amount]]
    PROVE  /\ StartedCalls(t)' = StartedCalls(t) \cup {k}
           /\ ActiveTokens(t)' = ActiveTokens(t) + amount
           /\ \A u \in Tasks \ {t} : /\ StartedCalls(u)' = StartedCalls(u)
                                      /\ ActiveTokens(u)' = ActiveTokens(u)
<1> DEFINE f == [j \in StartedCalls(t) |-> call[j].reserved]
           g == [j \in StartedCalls(t)' |-> call'[j].reserved]
<1>1. StartedCalls(t)' = StartedCalls(t) \cup {k} /\ k \notin StartedCalls(t)
  BY DEF StartedCalls, TypeOK, Call
<1>2. \A u \in Tasks \ {t} : StartedCalls(u)' = StartedCalls(u)
  BY DEF StartedCalls, TypeOK, Call
<1>3. \A u \in Tasks \ {t} : ActiveTokens(u)' = ActiveTokens(u)
  <2> SUFFICES ASSUME NEW u \in Tasks \ {t} PROVE ActiveTokens(u)' = ActiveTokens(u)
    OBVIOUS
  <2>1. [j \in StartedCalls(u)' |-> call'[j].reserved] = [j \in StartedCalls(u) |-> call[j].reserved]
    BY <1>2 DEF StartedCalls, TypeOK, Call
  <2> QED
    BY <2>1 DEF ActiveTokens
<1>4. IsFiniteSet(StartedCalls(t)) /\ f \in [StartedCalls(t) -> Nat]
  BY ActiveNat
<1>5. g \in [StartedCalls(t) \cup {k} -> Nat] /\ g[k] = amount
  BY <1>1, <1>4 DEF StartedCalls, TypeOK, Call
<1>6. \A j \in StartedCalls(t) : g[j] = f[j]
  BY <1>1 DEF StartedCalls, TypeOK, Call
<1>7. Total(f) = ActiveTokens(t) /\ Total(g) = ActiveTokens(t)'
  BY DEF ActiveTokens
<1> HIDE DEF f, g
<1>8. Total(g) = Total(f) + amount
  BY <1>1, <1>4, <1>5, <1>6, TotalExtend
<1> QED
  BY <1>1, <1>2, <1>3, <1>7, <1>8

(* A call that finishes gives its reservation back. *)
LEMMA FinishSum ==
    ASSUME TypeOK, TypeOK', NEW k \in Calls, NEW t \in Tasks,
           call[k].task = t, call[k].status = "started",
           call' = [call EXCEPT ![k].status = "finished"]
    PROVE  /\ StartedCalls(t)' = StartedCalls(t) \ {k}
           /\ k \in StartedCalls(t)
           /\ ActiveTokens(t) = ActiveTokens(t)' + call[k].reserved
           /\ ActiveTokens(t)' \in Nat
           /\ \A u \in Tasks \ {t} :
                 /\ StartedCalls(u)' = StartedCalls(u)
                 /\ ActiveTokens(u)' = ActiveTokens(u)
<1> DEFINE f == [j \in StartedCalls(t) |-> call[j].reserved]
           g == [j \in StartedCalls(t)' |-> call'[j].reserved]
<1>1. StartedCalls(t)' = StartedCalls(t) \ {k} /\ k \in StartedCalls(t)
  BY DEF StartedCalls, TypeOK, Call
<1>2. \A u \in Tasks \ {t} : StartedCalls(u)' = StartedCalls(u)
  BY DEF StartedCalls, TypeOK, Call
<1>3. \A u \in Tasks \ {t} : ActiveTokens(u)' = ActiveTokens(u)
  <2> SUFFICES ASSUME NEW u \in Tasks \ {t} PROVE ActiveTokens(u)' = ActiveTokens(u)
    OBVIOUS
  <2>1. [j \in StartedCalls(u)' |-> call'[j].reserved] = [j \in StartedCalls(u) |-> call[j].reserved]
    BY <1>2 DEF StartedCalls, TypeOK, Call
  <2> QED
    BY <2>1 DEF ActiveTokens
<1>4. IsFiniteSet(StartedCalls(t)) /\ f \in [StartedCalls(t) -> Nat]
  BY ActiveNat
<1>5. g \in [StartedCalls(t) \ {k} -> Nat]
  BY <1>1, <1>4 DEF StartedCalls, TypeOK, Call
<1>6. \A j \in StartedCalls(t) \ {k} : g[j] = f[j]
  BY <1>1 DEF StartedCalls, TypeOK, Call
<1>7. Total(f) = ActiveTokens(t) /\ Total(g) = ActiveTokens(t)' /\ f[k] = call[k].reserved
  BY <1>1 DEF ActiveTokens
<1> HIDE DEF f, g
<1>8. Total(f) = Total(g) + f[k]
  BY <1>1, <1>4, <1>5, <1>6, TotalRemove
<1>9. IsFiniteSet(StartedCalls(t) \ {k})
  BY <1>1, <1>4, FS_RemoveElement
<1>10. Total(g) \in Nat
  BY <1>5, <1>9, TotalNat
<1> QED
  BY <1>1, <1>2, <1>3, <1>7, <1>8, <1>10

----------------------------------------------------------------------------
(* The types, and arithmetic of the grants. *)

(* A fifth of the limit, rounded up, is the root's: five times what stays   *)
(* outside the children's pool is never less than the limit.                *)
LEMMA Rounding ==
    ASSUME NEW l \in Nat
    PROVE  /\ ChildPool(l) \in Int /\ floor_percent(l, DIRECT_CHILD_BUDGET_PERCENT) \in Nat
           /\ 5 * (l - ChildPool(l)) >= l
<1>1. 5 * ceil_percent(l, 20) >= l /\ ceil_percent(l, 20) \in Nat
  BY DEF ceil_percent
<1>2. floor_percent(l, 20) \in Nat
  BY DEF floor_percent
<1> QED
  BY <1>1, <1>2 DEF ChildPool, ROOT_BUDGET_RESERVE_PERCENT, DIRECT_CHILD_BUDGET_PERCENT

(* A grant is taken out of what the children may still hold. *)
LEMMA GrantFits ==
    ASSUME NEW l \in Nat, l = limit, reserved \in Nat, NEW grant \in Nat, NEW r,
           NEW used \in Nat, grant_dimension(grant, r, used)
    PROVE  reserved + grant <= ChildPool(limit)
<1>1. ChildPool(limit) \in Int
  BY Rounding
<1>2. grant <= Available(used) /\ grant > 0
  BY DEF grant_dimension
<1> HIDE DEF ChildPool
<1> QED
  BY <1>1, <1>2 DEF Available, Clamp, Least

(* What the root pays of an overrun is a number, and no more than it has.   *)
LEMMA ExcessFits ==
    ASSUME TypeOK, AccountWithinLimit, NEW c \in Children
    PROVE  /\ ChargeableExcess(c) \in Nat
           /\ consumed[Root] + reserved + ChargeableExcess(c) <= limit
<1>1. /\ ActiveTokens(Root) \in Nat /\ run[Root].total_tokens \in Nat
      /\ consumed[Root] \in Nat /\ consumed[c] \in Nat /\ reserved \in Nat
      /\ limit \in Nat /\ run[c].total_tokens \in Nat /\ reservation[c].grant \in Nat
  BY ActiveNat, BudgetAssumption DEF TypeOK, Tasks, Run, Reservation
<1> QED
  BY <1>1 DEF ChargeableExcess, Clamp, Least, RootInFlight, TotalUsed, AccountWithinLimit

(* Every action keeps the types. *)
LEMMA TypeOKStep ==
    ASSUME TypeOK, AccountWithinLimit, Next PROVE TypeOK'
<1> USE BudgetAssumption DEF Tasks
<1>1. ASSUME NEW c \in Children, NEW r \in Amounts \cup {Unrequested}, NEW grant \in 1..limit,
             reserve_child_budget(c, r, grant)
      PROVE  TypeOK'
  BY <1>1 DEF reserve_child_budget, TypeOK, Run, RunStatus, Reservation, ReservationStatus
<1>2. ASSUME NEW k \in Calls, NEW t \in Tasks, NEW a \in Amounts,
             start_llm_call_with_budget(k, t, a)
      PROVE  TypeOK'
  BY <1>2 DEF start_llm_call_with_budget, TypeOK, Call, CallStatus
<1>3. ASSUME NEW k \in Calls, NEW u \in Usages, NEW complete \in BOOLEAN,
             finish_llm_call(k, u, complete)
      PROVE  TypeOK'
  <2>1. call[k].task \in Tasks /\ call[k].reserved \in Nat
    BY DEF TypeOK, Call
  <2>2. run' \in [Tasks -> Run]
    BY <1>3, <2>1 DEF finish_llm_call, TypeOK, Run
  <2>3. usage_complete' \in [Tasks -> BOOLEAN]
    BY <1>3, <2>1 DEF finish_llm_call, TypeOK
  <2>4. reported' \in [Tasks -> Nat] /\ breached' \in BOOLEAN
    BY <1>3, <2>1 DEF finish_llm_call, TypeOK
  <2>5. call' \in [Calls -> Call]
    BY <1>3 DEF finish_llm_call, TypeOK, Call, CallStatus
  <2> QED
    BY <1>3, <2>2, <2>3, <2>4, <2>5 DEF finish_llm_call, TypeOK
<1>4. ASSUME NEW r \in ResultStatus, NEW u \in Usages, NEW complete \in BOOLEAN,
             SettleRoot(r, u, complete)
      PROVE  TypeOK'
  <2> DEFINE observed == \E k \in Calls : call[k].status # "absent" /\ call[k].task = Root
             total == IF observed THEN run[Root].total_tokens ELSE u
             settled == IF observed THEN RunUsageComplete(Root) ELSE complete
  <2>1. total \in Nat /\ settled \in BOOLEAN /\ observed \in BOOLEAN
    BY DEF TypeOK, Run, RunUsageComplete
  <2>2. /\ run' = [run EXCEPT ![Root] = [status |-> "terminal", total_tokens |-> total,
                                          usage_complete |-> settled]]
        /\ consumed' = [consumed EXCEPT ![Root] = IF settled THEN @ + total ELSE @]
        /\ usage_complete' = [usage_complete EXCEPT ![Root] = @ /\ settled]
        /\ reported' = [reported EXCEPT ![Root] = IF observed THEN @ ELSE u]
        /\ breached' \in BOOLEAN
        /\ UNCHANGED <<limit, reserved, reservation, call>>
    BY <1>4 DEF SettleRoot
  <2> HIDE DEF observed, total, settled
  <2>3. run' \in [Tasks -> Run]
    BY <2>1, <2>2 DEF TypeOK, Run, RunStatus
  <2>4. consumed' \in [Tasks -> Nat] /\ reported' \in [Tasks -> Nat]
    BY <2>1, <2>2 DEF TypeOK
  <2>5. usage_complete' \in [Tasks -> BOOLEAN]
    BY <2>1, <2>2 DEF TypeOK
  <2> QED
    BY <2>2, <2>3, <2>4, <2>5 DEF TypeOK
<1>5. ASSUME NEW c \in Children, NEW r \in ResultStatus, Settling(c, r)
      PROVE  run' \in [Tasks -> Run]
  BY <1>5 DEF Settling, Terminal, RunUsageComplete, TypeOK, Run, RunStatus
<1>6. ASSUME NEW c \in Children, NEW r \in ResultStatus, SettleUnknown(c, r) PROVE TypeOK'
  <2>1. run' \in [Tasks -> Run]
    BY <1>5, <1>6 DEF SettleUnknown
  <2> QED
    BY <1>6, <2>1 DEF SettleUnknown, Settling, TypeOK, Reservation, ReservationStatus
<1>7. ASSUME NEW c \in Children, NEW r \in ResultStatus, SettleOverrun(c, r) PROVE TypeOK'
  <2>1. run' \in [Tasks -> Run]
    BY <1>5, <1>7 DEF SettleOverrun
  <2>2. consumed' \in [Tasks -> Nat]
    BY <1>7, ExcessFits DEF SettleOverrun, TypeOK
  <2> QED
    BY <1>7, <2>1, <2>2 DEF SettleOverrun, Settling, TypeOK, Reservation, ReservationStatus
<1>8. ASSUME NEW c \in Children, NEW r \in ResultStatus, SettleWithinGrant(c, r) PROVE TypeOK'
  <2>1. run' \in [Tasks -> Run]
    BY <1>5, <1>8 DEF SettleWithinGrant
  <2>2. consumed' \in [Tasks -> Nat]
    BY <1>8 DEF SettleWithinGrant, TypeOK, TotalUsed, Run
  <2>3. reserved' \in Nat
    BY <1>8 DEF SettleWithinGrant, TypeOK, Reservation
  <2> QED
    BY <1>8, <2>1, <2>2, <2>3
       DEF SettleWithinGrant, Settling, TypeOK, Reservation, ReservationStatus
<1>9. ASSUME NEW l \in Limits, configure_root_task_budget_cas(l) PROVE TypeOK'
  BY <1>9 DEF configure_root_task_budget_cas, TypeOK
<1>10. ASSUME reconcile_runtime_after_restart PROVE TypeOK'
  <2>1. call' \in [Calls -> Call]
    BY <1>10 DEF reconcile_runtime_after_restart, TypeOK, Call, CallStatus
  <2>2. run' \in [Tasks -> Run]
    BY <1>10 DEF reconcile_runtime_after_restart, TypeOK, Run, RunStatus
  <2>3. reservation' \in [Children -> Reservation]
    BY <1>10 DEF reconcile_runtime_after_restart, TypeOK, Reservation, ReservationStatus
  <2>4. usage_complete' \in [Tasks -> BOOLEAN]
    BY <1>10 DEF reconcile_runtime_after_restart, TypeOK
  <2> QED
    BY <1>10, <2>1, <2>2, <2>3, <2>4 DEF reconcile_runtime_after_restart, TypeOK
<1>11. ASSUME NEW c \in Children, start_safe_recovery(c) PROVE TypeOK'
  BY <1>11 DEF start_safe_recovery, TypeOK, Run, RunStatus, TotalUsed
<1> QED
  BY <1>1, <1>2, <1>3, <1>4, <1>6, <1>7, <1>8, <1>9, <1>10, <1>11
     DEF Next, Reserve, StartCall, FinishCall, Settle, Configure, Recover

----------------------------------------------------------------------------
(* The account. *)

(* The amounts of the account and of one child are numbers. *)
LEMMA Numbers ==
    ASSUME TypeOK
    PROVE  /\ limit \in Nat /\ reserved \in Nat /\ consumed[Root] \in Nat
           /\ run[Root].total_tokens \in Nat /\ RootInFlight \in Nat
           /\ reported[Root] \in Nat
           /\ \A c \in Children : /\ consumed[c] \in Nat /\ run[c].total_tokens \in Nat
                                  /\ reservation[c].grant \in Nat /\ TotalUsed(c) \in Nat
                                  /\ reported[c] \in Nat
<1>1. ActiveTokens(Root) \in Nat
  BY ActiveNat DEF Tasks
<1> QED
  BY <1>1, BudgetAssumption DEF TypeOK, Tasks, Run, Reservation, RootInFlight, TotalUsed

(* What is settled and held stays within the limit, and out of the root's   *)
(* fifth.                                                                   *)
LEMMA AccountStep ==
    ASSUME TypeOK, AccountWithinLimit, ParentReserveKept, Next
    PROVE  AccountWithinLimit' /\ ParentReserveKept'
<1> USE BudgetAssumption DEF Tasks
<1> USE Numbers
<1>1. ASSUME NEW c \in Children, NEW r \in Amounts \cup {Unrequested}, NEW grant \in 1..limit,
             reserve_child_budget(c, r, grant)
      PROVE  AccountWithinLimit' /\ ParentReserveKept'
  <2>1. /\ consumed[Root] + reserved + grant + RootInFlight <= limit
        /\ reserved' = reserved + grant /\ limit' = limit /\ consumed' = consumed
        /\ grant_dimension(grant, r, consumed[Root] + RootInFlight)
    BY <1>1 DEF reserve_child_budget
  <2>2. reserved + grant <= ChildPool(limit)
    BY <2>1, GrantFits
  <2>3. 5 * (limit - ChildPool(limit)) >= limit /\ ChildPool(limit) \in Int
    BY Rounding
  <2>4. 5 * (limit - (reserved + grant)) >= limit
    BY <2>2, <2>3
  <2> QED
    BY <2>1, <2>4 DEF AccountWithinLimit, ParentReserveKept
<1>2. ASSUME NEW k \in Calls, NEW t \in Tasks, NEW a \in Amounts,
             start_llm_call_with_budget(k, t, a)
      PROVE  AccountWithinLimit' /\ ParentReserveKept'
  BY <1>2 DEF start_llm_call_with_budget, AccountWithinLimit, ParentReserveKept
<1>3. ASSUME NEW k \in Calls, NEW u \in Usages, NEW complete \in BOOLEAN,
             finish_llm_call(k, u, complete)
      PROVE  AccountWithinLimit' /\ ParentReserveKept'
  BY <1>3 DEF finish_llm_call, AccountWithinLimit, ParentReserveKept
<1>4. ASSUME NEW r \in ResultStatus, NEW u \in Usages, NEW complete \in BOOLEAN,
             SettleRoot(r, u, complete)
      PROVE  AccountWithinLimit' /\ ParentReserveKept'
  <2>1. limit' = limit /\ reserved' = reserved
    BY <1>4 DEF SettleRoot
  <2>2. \/ consumed'[Root] = consumed[Root]
        \/ consumed'[Root] + reserved <= limit
    BY <1>4 DEF SettleRoot, TypeOK
  <2> QED
    BY <2>1, <2>2 DEF AccountWithinLimit, ParentReserveKept
<1>5. ASSUME NEW c \in Children, NEW r \in ResultStatus, SettleUnknown(c, r)
      PROVE  AccountWithinLimit' /\ ParentReserveKept'
  BY <1>5 DEF SettleUnknown, Settling, AccountWithinLimit, ParentReserveKept
<1>6. ASSUME NEW c \in Children, NEW r \in ResultStatus, SettleOverrun(c, r)
      PROVE  AccountWithinLimit' /\ ParentReserveKept'
  <2>1. /\ limit' = limit /\ reserved' = reserved
        /\ consumed'[Root] = consumed[Root] + ChargeableExcess(c)
    BY <1>6 DEF SettleOverrun, Settling, TypeOK
  <2>2. /\ ChargeableExcess(c) \in Nat
        /\ consumed[Root] + reserved + ChargeableExcess(c) <= limit
    BY ExcessFits
  <2> QED
    BY <2>1, <2>2 DEF AccountWithinLimit, ParentReserveKept
<1>7. ASSUME NEW c \in Children, NEW r \in ResultStatus, SettleWithinGrant(c, r)
      PROVE  AccountWithinLimit' /\ ParentReserveKept'
  <2>1. /\ limit' = limit /\ reserved' = reserved - reservation[c].grant
        /\ consumed'[Root] = consumed[Root] + TotalUsed(c)
        /\ TotalUsed(c) <= reservation[c].grant
    BY <1>7 DEF SettleWithinGrant, Settling, TypeOK
  <2> QED
    BY <2>1 DEF AccountWithinLimit, ParentReserveKept
<1>8. ASSUME NEW l \in Limits, configure_root_task_budget_cas(l)
      PROVE  AccountWithinLimit' /\ ParentReserveKept'
  <2>1. 5 * (l - ChildPool(l)) >= l /\ ChildPool(l) \in Int
    BY Rounding
  <2>2. /\ limit' = l /\ reserved' = reserved /\ consumed' = consumed
        /\ reserved <= ChildPool(l) /\ consumed[Root] + reserved <= l
    BY <1>8 DEF configure_root_task_budget_cas
  <2>3. 5 * (l - reserved) >= l
    BY <2>1, <2>2
  <2> QED
    BY <2>2, <2>3 DEF AccountWithinLimit, ParentReserveKept
<1>9. ASSUME reconcile_runtime_after_restart
      PROVE  AccountWithinLimit' /\ ParentReserveKept'
  BY <1>9 DEF reconcile_runtime_after_restart, AccountWithinLimit, ParentReserveKept
<1>10. ASSUME NEW c \in Children, start_safe_recovery(c)
       PROVE  AccountWithinLimit' /\ ParentReserveKept'
  BY <1>10 DEF start_safe_recovery, AccountWithinLimit, ParentReserveKept, TypeOK
<1> QED
  BY <1>1, <1>2, <1>3, <1>4, <1>5, <1>6, <1>7, <1>8, <1>9, <1>10
     DEF Next, Reserve, StartCall, FinishCall, Settle, Configure, Recover

(* The root holds exactly the grants that are not released. *)
LEMMA HeldStep ==
    ASSUME TypeOK, TypeOK', ReservedIsHeld, Next
    PROVE  ReservedIsHeld'
<1> USE BudgetAssumption
<1> DEFINE grants == [c \in Held |-> reservation[c].grant]
<1>1. IsFiniteSet(Held) /\ grants \in [Held -> Nat] /\ Total(grants) = reserved
  <2>1. IsFiniteSet(Held)
    BY FS_Subset DEF Held
  <2> QED
    BY <2>1 DEF Held, TypeOK, Reservation, ReservedIsHeld
<1>2. ASSUME reserved' = reserved, Held' = Held,
             \A c \in Held : reservation'[c].grant = reservation[c].grant
      PROVE  ReservedIsHeld'
  <2>1. [c \in Held' |-> reservation'[c].grant] = [c \in Held |-> reservation[c].grant]
    BY <1>2
  <2> QED
    BY <1>2, <2>1 DEF ReservedIsHeld
<1>3. ASSUME NEW c \in Children, NEW r \in Amounts \cup {Unrequested}, NEW grant \in 1..limit,
             reserve_child_budget(c, r, grant)
      PROVE  ReservedIsHeld'
  <2> DEFINE granted == [d \in Held \cup {c} |-> reservation'[d].grant]
  <2>1. c \notin Held /\ Held' = Held \cup {c} /\ reserved' = reserved + grant
    BY <1>3 DEF reserve_child_budget, Held, TypeOK, Reservation
  <2>2. granted \in [Held \cup {c} -> Nat]
    BY DEF Held, TypeOK, Reservation
  <2>3. granted[c] = grant /\ \A d \in Held : granted[d] = grants[d]
    BY <1>3 DEF reserve_child_budget, Held, TypeOK, Reservation
  <2>4. Total(granted) = Total(grants) + granted[c]
    <3> HIDE DEF granted, grants
    <3> QED
      BY <1>1, <2>1, <2>2, <2>3, TotalExtend
  <2>5. ReservedIsHeld' <=> reserved' = Total(granted)
    BY <2>1 DEF ReservedIsHeld
  <2> HIDE DEF granted, grants
  <2> QED
    BY <1>1, <2>1, <2>3, <2>4, <2>5
<1>4. ASSUME NEW k \in Calls, NEW t \in Tasks, NEW a \in Amounts,
             start_llm_call_with_budget(k, t, a)
      PROVE  ReservedIsHeld'
  BY <1>2, <1>4 DEF start_llm_call_with_budget, Held
<1>5. ASSUME NEW k \in Calls, NEW u \in Usages, NEW complete \in BOOLEAN,
             finish_llm_call(k, u, complete)
      PROVE  ReservedIsHeld'
  BY <1>2, <1>5 DEF finish_llm_call, Held
<1>6. ASSUME NEW r \in ResultStatus, NEW u \in Usages, NEW complete \in BOOLEAN,
             SettleRoot(r, u, complete)
      PROVE  ReservedIsHeld'
  <2>1. reserved' = reserved /\ reservation' = reservation
    BY <1>6 DEF SettleRoot
  <2> QED
    BY <1>2, <2>1 DEF Held
<1>7. ASSUME NEW c \in Children, NEW r \in ResultStatus,
             SettleUnknown(c, r) \/ SettleOverrun(c, r)
      PROVE  ReservedIsHeld'
  <2>1. /\ reserved' = reserved /\ reservation[c].status = "active"
        /\ reservation' = [reservation EXCEPT ![c].status = "incomplete"]
    BY <1>7 DEF SettleUnknown, SettleOverrun, Settling
  <2> QED
    BY <1>2, <2>1 DEF Held, TypeOK, Reservation
<1>8. ASSUME NEW c \in Children, NEW r \in ResultStatus, SettleWithinGrant(c, r)
      PROVE  ReservedIsHeld'
  <2> DEFINE kept == [d \in Held \ {c} |-> reservation'[d].grant]
  <2>1. /\ c \in Held /\ Held' = Held \ {c}
        /\ reserved' = reserved - reservation[c].grant
    BY <1>8 DEF SettleWithinGrant, Settling, Held, TypeOK, Reservation
  <2>2. kept \in [Held \ {c} -> Nat]
    BY DEF Held, TypeOK, Reservation
  <2>3. \A d \in Held \ {c} : kept[d] = grants[d]
    BY <1>8 DEF SettleWithinGrant, Held, TypeOK, Reservation
  <2>4. Total(grants) = Total(kept) + grants[c]
    <3> HIDE DEF kept, grants
    <3> QED
      BY <1>1, <2>1, <2>2, <2>3, TotalRemove
  <2>5. ReservedIsHeld' <=> reserved' = Total(kept)
    BY <2>1 DEF ReservedIsHeld
  <2>6. grants[c] = reservation[c].grant /\ reservation[c].grant \in Nat
    BY <2>1 DEF TypeOK, Reservation
  <2>7. Total(kept) \in Nat
    <3> HIDE DEF kept
    <3> QED
      BY <1>1, <2>2, FS_Subset, TotalNat
  <2> HIDE DEF kept, grants
  <2> QED
    BY <1>1, <2>1, <2>4, <2>5, <2>6, <2>7
<1>9. ASSUME NEW l \in Limits, configure_root_task_budget_cas(l) PROVE ReservedIsHeld'
  BY <1>2, <1>9 DEF configure_root_task_budget_cas, Held
<1>10. ASSUME reconcile_runtime_after_restart PROVE ReservedIsHeld'
  <2>1. \A c \in Children :
           /\ reservation'[c].grant = reservation[c].grant
           /\ reservation'[c].status \in {"active", "incomplete"}
                 <=> reservation[c].status \in {"active", "incomplete"}
    <3> TAKE c \in Children
    <3>1. PICK b \in BOOLEAN : reservation'[c] = [reservation[c] EXCEPT
                 !.status = IF @ = "active" /\ b THEN "incomplete" ELSE @]
      BY <1>10 DEF reconcile_runtime_after_restart
    <3>2. reservation[c] \in Reservation
      BY DEF TypeOK
    <3> QED
      BY <3>1, <3>2 DEF Reservation
  <2>2. Held' = Held /\ reserved' = reserved
    BY <1>10, <2>1 DEF reconcile_runtime_after_restart, Held
  <2> QED
    BY <1>2, <2>1, <2>2 DEF Held
<1>11. ASSUME NEW c \in Children, start_safe_recovery(c) PROVE ReservedIsHeld'
  BY <1>2, <1>11 DEF start_safe_recovery, Held
<1> QED
  BY <1>3, <1>4, <1>5, <1>6, <1>7, <1>8, <1>9, <1>10, <1>11
     DEF Next, Reserve, StartCall, FinishCall, Settle, Configure, Recover

----------------------------------------------------------------------------
(* The ledger and the runs. *)

(* The sums of the started calls depend on the call rows only. *)
LEMMA CallsSame ==
    ASSUME call' = call
    PROVE  \A t \in Tasks : /\ StartedCalls(t)' = StartedCalls(t)
                            /\ ActiveTokens(t)' = ActiveTokens(t)
BY DEF ActiveTokens, StartedCalls

(* After a restart no call is started. *)
LEMMA RestartSum ==
    ASSUME TypeOK, TypeOK', reconcile_runtime_after_restart
    PROVE  \A t \in Tasks : StartedCalls(t)' = {} /\ ActiveTokens(t)' = 0
<1> SUFFICES ASSUME NEW t \in Tasks PROVE StartedCalls(t)' = {} /\ ActiveTokens(t)' = 0
  OBVIOUS
<1>1. \A k \in Calls : call'[k].status # "started"
  BY DEF reconcile_runtime_after_restart, TypeOK, Call
<1>2. StartedCalls(t)' = {}
  BY <1>1 DEF StartedCalls
<1>3. [k \in StartedCalls(t)' |-> call'[k].reserved] \in [{} -> Nat]
  BY <1>2
<1> QED
  BY <1>2, <1>3, TotalEmpty DEF ActiveTokens

(* What a restart does to the rows of one Task. *)
LEMMA RestartRow ==
    ASSUME TypeOK, reconcile_runtime_after_restart, NEW t \in Tasks
    PROVE  /\ run'[t].total_tokens = run[t].total_tokens
           /\ run'[t].status = IF run[t].status = "running" THEN "interrupted" ELSE run[t].status
           /\ run'[t].usage_complete <=> run[t].usage_complete /\ StartedCalls(t) = {}
           /\ t \in Children =>
                 /\ reservation'[t].grant = reservation[t].grant
                 /\ reservation'[t].status = reservation[t].status
                    \/ /\ reservation[t].status = "active"
                       /\ reservation'[t].status = "incomplete"
<1>1. run[t] \in Run
  BY DEF TypeOK
<1>2. run'[t] = [run[t] EXCEPT !.status = IF @ = "running" THEN "interrupted" ELSE @,
                               !.usage_complete = @ /\ StartedCalls(t) = {}]
  BY DEF reconcile_runtime_after_restart
<1>3. ASSUME t \in Children
      PROVE  /\ reservation'[t].grant = reservation[t].grant
             /\ reservation'[t].status = reservation[t].status
                    \/ /\ reservation[t].status = "active"
                       /\ reservation'[t].status = "incomplete"
  <2>1. PICK b \in BOOLEAN : reservation'[t] = [reservation[t] EXCEPT
               !.status = IF @ = "active" /\ b THEN "incomplete" ELSE @]
    BY <1>3 DEF reconcile_runtime_after_restart
  <2>2. reservation[t] \in Reservation
    BY <1>3 DEF TypeOK
  <2> QED
    BY <2>1, <2>2 DEF Reservation
<1> QED
  BY <1>1, <1>2, <1>3 DEF Run

(* Every action keeps the shape of the rows that are not working. *)
LEMMA ShapeStep ==
    ASSUME TypeOK, TypeOK', LedgerShape, Next
    PROVE  LedgerShape'
<1> USE BudgetAssumption DEF Tasks
<1>1. ASSUME NEW c \in Children, NEW r \in Amounts \cup {Unrequested}, NEW grant \in 1..limit,
             reserve_child_budget(c, r, grant)
      PROVE  LedgerShape'
  BY <1>1, CallsSame DEF reserve_child_budget, LedgerShape, RootCharged, TypeOK, Run, Reservation
<1>2. ASSUME NEW k \in Calls, NEW t \in Tasks, NEW a \in Amounts,
             start_llm_call_with_budget(k, t, a)
      PROVE  LedgerShape'
  <2>1. /\ run[t].status = "running" /\ reservation' = reservation /\ run' = run
        /\ consumed' = consumed /\ reported' = reported
    BY <1>2 DEF start_llm_call_with_budget
  <2>2. \A u \in Tasks \ {t} : StartedCalls(u)' = StartedCalls(u)
    BY <1>2, StartSum DEF start_llm_call_with_budget
  <2> QED
    BY <2>1, <2>2 DEF LedgerShape, RootCharged
<1>3. ASSUME NEW k \in Calls, NEW u \in Usages, NEW complete \in BOOLEAN,
             finish_llm_call(k, u, complete)
      PROVE  LedgerShape'
  <2>1. PICK t \in Tasks : t = call[k].task
    BY DEF TypeOK, Call
  <2>2. /\ reservation' = reservation /\ consumed' = consumed
        /\ run' = [run EXCEPT ![t].total_tokens = @ + u, ![t].usage_complete = @ /\ complete]
        /\ reported' = [reported EXCEPT ![t] = @ + u]
    BY <1>3, <2>1 DEF finish_llm_call
  <2>3. /\ k \in StartedCalls(t)
        /\ StartedCalls(t)' = StartedCalls(t) \ {k}
        /\ \A v \in Tasks \ {t} : StartedCalls(v)' = StartedCalls(v)
    BY <1>3, <2>1, FinishSum DEF finish_llm_call
  <2>4. ~RootCharged \/ t # Root
    BY <2>3 DEF LedgerShape
  <2>5. RootCharged' => RootCharged /\ t # Root
    BY <2>2, <2>4 DEF RootCharged, TypeOK, Run
  <2>6. reported'[Root] = run'[Root].total_tokens
    BY <2>2 DEF LedgerShape, TypeOK, Run
  <2>7. ASSUME NEW c \in Children, reservation[c].status \in {"absent", "settled"}
        PROVE  /\ run'[c] = run[c] /\ StartedCalls(c)' = StartedCalls(c)
    BY <2>2, <2>3, <2>7 DEF LedgerShape, TypeOK
  <2> QED
    BY <2>2, <2>3, <2>5, <2>6, <2>7 DEF LedgerShape
<1>4. ASSUME NEW r \in ResultStatus, NEW u \in Usages, NEW complete \in BOOLEAN,
             SettleRoot(r, u, complete)
      PROVE  LedgerShape'
  <2> DEFINE observed == \E k \in Calls : call[k].status # "absent" /\ call[k].task = Root
  <2>1. /\ reservation' = reservation /\ call' = call
        /\ \A c \in Children : run'[c] = run[c] /\ consumed'[c] = consumed[c]
    BY <1>4 DEF SettleRoot, TypeOK
  <2>2. reported'[Root] = run'[Root].total_tokens
    BY <1>4 DEF SettleRoot, TypeOK, LedgerShape
  <2>3. ~observed => StartedCalls(Root) = {}
    BY DEF StartedCalls
  <2>4. observed => run'[Root].usage_complete = RunUsageComplete(Root)
    BY <1>4 DEF SettleRoot, TypeOK
  <2>5. RootCharged' => StartedCalls(Root) = {}
    <3> HIDE DEF observed
    <3> QED
      BY <2>3, <2>4 DEF RootCharged, RunUsageComplete
  <2> QED
    BY <2>1, <2>2, <2>5, CallsSame DEF LedgerShape
<1>5. ASSUME NEW c \in Children, NEW r \in ResultStatus, Settling(c, r)
      PROVE  /\ run' = [run EXCEPT ![c] = Terminal(c)] /\ call' = call
             /\ reported' = reported /\ reservation[c].status = "active"
             /\ RootCharged' = RootCharged /\ c # Root
             /\ run'[c].status = "terminal" /\ run'[Root] = run[Root]
  BY <1>5 DEF Settling, TypeOK, Run, Terminal, RootCharged
<1>6. ASSUME NEW c \in Children, NEW r \in ResultStatus,
             SettleUnknown(c, r) \/ SettleOverrun(c, r)
      PROVE  LedgerShape'
  <2>1. /\ Settling(c, r)
        /\ reservation' = [reservation EXCEPT ![c].status = "incomplete"]
        /\ \A d \in Children : consumed'[d] = consumed[d]
    BY <1>6 DEF SettleUnknown, SettleOverrun, TypeOK
  <2> QED
    BY <1>5, <2>1, CallsSame DEF LedgerShape, TypeOK, Reservation
<1>7. ASSUME NEW c \in Children, NEW r \in ResultStatus, SettleWithinGrant(c, r)
      PROVE  LedgerShape'
  <2>1. /\ Settling(c, r) /\ StartedCalls(c) = {}
        /\ reservation' = [reservation EXCEPT ![c].status = "settled"]
        /\ \A d \in Children \ {c} : consumed'[d] = consumed[d]
    BY <1>7 DEF SettleWithinGrant, RunUsageComplete, TypeOK
  <2> QED
    BY <1>5, <2>1, CallsSame DEF LedgerShape, TypeOK, Reservation
<1>8. ASSUME NEW l \in Limits, configure_root_task_budget_cas(l) PROVE LedgerShape'
  BY <1>8, CallsSame DEF configure_root_task_budget_cas, LedgerShape, RootCharged
<1>9. ASSUME reconcile_runtime_after_restart PROVE LedgerShape'
  <2>1. consumed' = consumed /\ reported' = reported
    BY <1>9 DEF reconcile_runtime_after_restart
  <2> QED
    BY <1>9, <2>1, RestartSum, RestartRow DEF LedgerShape
<1>10. ASSUME NEW c \in Children, start_safe_recovery(c) PROVE LedgerShape'
  BY <1>10, CallsSame DEF start_safe_recovery, LedgerShape, RootCharged, TypeOK
<1> QED
  BY <1>1, <1>2, <1>3, <1>4, <1>6, <1>7, <1>8, <1>9, <1>10
     DEF Next, Reserve, StartCall, FinishCall, Settle, Configure, Recover

(* Every action keeps a child's reported usage on its books once. *)
LEMMA ChargeStep ==
    ASSUME TypeOK, LedgerShape, ChargedExactlyOnce, Next
    PROVE  ChargedExactlyOnce'
<1> USE BudgetAssumption DEF Tasks
<1> USE Numbers
<1>1. ASSUME NEW c \in Children, NEW r \in Amounts \cup {Unrequested}, NEW grant \in 1..limit,
             reserve_child_budget(c, r, grant)
      PROVE  ChargedExactlyOnce'
  BY <1>1 DEF reserve_child_budget, ChargedExactlyOnce, TotalUsed, TypeOK, Run, Reservation
<1>2. ASSUME NEW k \in Calls, NEW t \in Tasks, NEW a \in Amounts,
             start_llm_call_with_budget(k, t, a)
      PROVE  ChargedExactlyOnce'
  BY <1>2 DEF start_llm_call_with_budget, ChargedExactlyOnce, TotalUsed
<1>3. ASSUME NEW k \in Calls, NEW u \in Usages, NEW complete \in BOOLEAN,
             finish_llm_call(k, u, complete)
      PROVE  ChargedExactlyOnce'
  <2>1. PICK t \in Tasks : t = call[k].task
    BY DEF TypeOK, Call
  <2>2. /\ reservation' = reservation /\ consumed' = consumed
        /\ run' = [run EXCEPT ![t].total_tokens = @ + u, ![t].usage_complete = @ /\ complete]
        /\ reported' = [reported EXCEPT ![t] = @ + u]
    BY <1>3, <2>1 DEF finish_llm_call
  <2>3. k \in StartedCalls(t)
    BY <1>3, <2>1 DEF finish_llm_call, StartedCalls
  <2>4. t \in Children => reservation[t].status # "settled"
    BY <2>3 DEF LedgerShape
  <2> SUFFICES ASSUME NEW c \in Children
               PROVE  IF reservation'[c].status = "settled"
                      THEN consumed'[c] = reported'[c]
                      ELSE consumed'[c] + run'[c].total_tokens = reported'[c]
    BY DEF ChargedExactlyOnce, TotalUsed
  <2>5. CASE c = t
    BY <2>2, <2>4, <2>5 DEF ChargedExactlyOnce, TotalUsed, TypeOK, Run
  <2>6. CASE c # t
    BY <2>2, <2>6 DEF ChargedExactlyOnce, TotalUsed, TypeOK, Run
  <2> QED
    BY <2>5, <2>6
<1>4. ASSUME NEW r \in ResultStatus, NEW u \in Usages, NEW complete \in BOOLEAN,
             SettleRoot(r, u, complete)
      PROVE  ChargedExactlyOnce'
  <2>1. /\ reservation' = reservation
        /\ \A c \in Children : /\ run'[c] = run[c] /\ consumed'[c] = consumed[c]
                               /\ reported'[c] = reported[c]
    BY <1>4 DEF SettleRoot, TypeOK
  <2> QED
    BY <2>1 DEF ChargedExactlyOnce, TotalUsed
<1>5. ASSUME NEW c \in Children, NEW r \in ResultStatus, Settling(c, r)
      PROVE  /\ reported' = reported /\ reservation[c].status = "active" /\ c # Root
             /\ \A d \in Children : run'[d].total_tokens = run[d].total_tokens
  BY <1>5 DEF Settling, TypeOK, Run, Terminal
<1>6. ASSUME NEW c \in Children, NEW r \in ResultStatus,
             SettleUnknown(c, r) \/ SettleOverrun(c, r)
      PROVE  ChargedExactlyOnce'
  <2>1. /\ Settling(c, r)
        /\ reservation' = [reservation EXCEPT ![c].status = "incomplete"]
        /\ \A d \in Children : consumed'[d] = consumed[d]
    BY <1>6 DEF SettleUnknown, SettleOverrun, TypeOK
  <2> QED
    BY <1>5, <2>1 DEF ChargedExactlyOnce, TotalUsed, TypeOK, Reservation
<1>7. ASSUME NEW c \in Children, NEW r \in ResultStatus, SettleWithinGrant(c, r)
      PROVE  ChargedExactlyOnce'
  <2>1. /\ Settling(c, r)
        /\ reservation' = [reservation EXCEPT ![c].status = "settled"]
        /\ \A d \in Children \ {c} : consumed'[d] = consumed[d]
        /\ consumed'[c] = TotalUsed(c)
    BY <1>7 DEF SettleWithinGrant, TypeOK
  <2> QED
    BY <1>5, <2>1 DEF ChargedExactlyOnce, TotalUsed, TypeOK, Reservation
<1>8. ASSUME NEW l \in Limits, configure_root_task_budget_cas(l) PROVE ChargedExactlyOnce'
  BY <1>8 DEF configure_root_task_budget_cas, ChargedExactlyOnce, TotalUsed
<1>9. ASSUME reconcile_runtime_after_restart PROVE ChargedExactlyOnce'
  <2>1. consumed' = consumed /\ reported' = reported
    BY <1>9 DEF reconcile_runtime_after_restart
  <2> QED
    BY <1>9, <2>1, RestartRow DEF ChargedExactlyOnce, TotalUsed
<1>10. ASSUME NEW c \in Children, start_safe_recovery(c) PROVE ChargedExactlyOnce'
  <2>1. /\ reservation' = reservation /\ reported' = reported
        /\ reservation[c].status = "active"
        /\ consumed'[c] = consumed[c] + run[c].total_tokens /\ run'[c].total_tokens = 0
        /\ \A d \in Children \ {c} : consumed'[d] = consumed[d] /\ run'[d] = run[d]
    BY <1>10 DEF start_safe_recovery, TypeOK, TotalUsed
  <2> QED
    BY <2>1 DEF ChargedExactlyOnce, TotalUsed
<1> QED
  BY <1>1, <1>2, <1>3, <1>4, <1>6, <1>7, <1>8, <1>9, <1>10
     DEF Next, Reserve, StartCall, FinishCall, Settle, Configure, Recover

----------------------------------------------------------------------------
(* What the account knows while nothing unreserved was spent. *)

(* The settled usage is a number. *)
LEMMA SettledNat ==
    ASSUME TypeOK
    PROVE  /\ IsFiniteSet(SettledChildren) /\ SettledUsage \in Nat
           /\ [c \in SettledChildren |-> reported[c]] \in [SettledChildren -> Nat]
           /\ RootOwnUsage \in Nat /\ RootOutstanding \in Nat /\ RootOutstanding <= RootInFlight
<1>1. IsFiniteSet(SettledChildren)
  BY BudgetAssumption, FS_Subset DEF SettledChildren
<1>2. [c \in SettledChildren |-> reported[c]] \in [SettledChildren -> Nat]
  BY DEF TypeOK, SettledChildren, Tasks
<1>3. SettledUsage \in Nat
  BY <1>1, <1>2, TotalNat DEF SettledUsage
<1> QED
  BY <1>1, <1>2, <1>3, Numbers DEF RootOwnUsage, RootOutstanding

(* It stays what it is unless a child settles. *)
LEMMA SettledSame ==
    ASSUME SettledChildren' = SettledChildren,
           \A c \in SettledChildren : reported'[c] = reported[c]
    PROVE  SettledUsage' = SettledUsage
<1>1. [c \in SettledChildren' |-> reported'[c]] = [c \in SettledChildren |-> reported[c]]
  OBVIOUS
<1> QED
  BY <1>1 DEF SettledUsage

(* Every action that spends nothing unreserved keeps the three parts. *)
LEMMA SpendingStep ==
    ASSUME TypeOK, TypeOK', LedgerShape, ChargedExactlyOnce, Spending, Next
    PROVE  Spending'
<1> USE BudgetAssumption DEF Tasks
<1> DEFINE Kept == ChildrenInGrant /\ RootInLimit /\ RootChargedOnce
<1>a. Spending <=> (~breached => Kept)
  BY DEF Spending
<1>b. Spending' <=> (~breached' => Kept')
  BY DEF Spending
<1>c. \A t \in Tasks : ActiveTokens(t) \in Nat
  BY ActiveNat
<1>d. /\ limit \in Nat /\ reserved \in Nat /\ consumed[Root] \in Nat
      /\ run[Root].total_tokens \in Nat /\ RootInFlight \in Nat
      /\ \A c \in Children : /\ consumed[c] \in Nat /\ run[c].total_tokens \in Nat
                             /\ reservation[c].grant \in Nat /\ TotalUsed(c) \in Nat
                             /\ reported[c] \in Nat
  BY Numbers
<1>e. /\ SettledUsage \in Nat /\ RootOwnUsage \in Nat
      /\ RootOutstanding \in Nat /\ RootOutstanding <= RootInFlight
  BY SettledNat
<1> USE <1>d, <1>e
<1>1. ASSUME NEW c \in Children, NEW r \in Amounts \cup {Unrequested}, NEW grant \in 1..limit,
             reserve_child_budget(c, r, grant), Kept
      PROVE  Kept'
  <2>1. /\ reservation[c].status = "absent" /\ run[Root].status = "running"
        /\ consumed[Root] + reserved + grant + RootInFlight <= limit
        /\ reserved' = reserved + grant /\ limit' = limit /\ consumed' = consumed
        /\ reservation' = [reservation EXCEPT ![c] = [status |-> "active", grant |-> grant]]
        /\ run' = [run EXCEPT ![c].status = "running"]
        /\ reported' = reported /\ call' = call
    BY <1>1 DEF reserve_child_budget
  <2>2. /\ run'[Root] = run[Root]
        /\ \A d \in Children : TotalUsed(d)' = TotalUsed(d)
    BY <2>1 DEF TotalUsed, TypeOK, Run
  <2>3. /\ Held' = Held \cup {c} /\ SettledChildren' = SettledChildren
        /\ reservation'[c].grant = grant
        /\ \A d \in Held : d # c /\ reservation'[d] = reservation[d]
    BY <2>1 DEF Held, SettledChildren, TypeOK, Reservation
  <2>4. TotalUsed(c) + ActiveTokens(c) = 0
    BY <2>1, ActiveNat DEF LedgerShape, TotalUsed
  <2>5. ChildrenInGrant'
    <3> SUFFICES ASSUME NEW d \in Held \cup {c}
                 PROVE  TotalUsed(d) + ActiveTokens(d) <= reservation'[d].grant
      <4>1. \A d \in Children : /\ ActiveTokens(d)' = ActiveTokens(d)
                                /\ TotalUsed(d)' = TotalUsed(d)
        BY <2>1, <2>2, CallsSame
      <4>2. Held \cup {c} \subseteq Children
        BY DEF Held
      <4> QED
        BY <2>3, <4>1, <4>2 DEF ChildrenInGrant
    <3>1. CASE d = c
      BY <2>3, <2>4, <3>1
    <3>2. CASE d \in Held
      BY <1>1, <2>3, <3>2 DEF ChildrenInGrant
    <3> QED
      BY <3>1, <3>2
  <2>6. RootInLimit'
    BY <2>1, <2>2, CallsSame DEF RootInLimit, RootOutstanding, RootCharged, RootInFlight
  <2>7. RootChargedOnce'
    BY <1>1, <2>1, <2>2, <2>3, SettledSame DEF RootChargedOnce, RootOwnUsage, RootCharged
  <2> QED
    BY <2>5, <2>6, <2>7
<1>2. ASSUME NEW k \in Calls, NEW t \in Tasks, NEW a \in Amounts,
             start_llm_call_with_budget(k, t, a), Kept
      PROVE  Kept'
  <2>1. /\ run[t].status = "running"
        /\ run[t].total_tokens + PriorCharge(t) + ActiveTokens(t) + a <= TokenLimit(t)
        /\ UNCHANGED <<limit, reserved, consumed, run, reservation, reported>>
    BY <1>2 DEF start_llm_call_with_budget
  <2>2. /\ ActiveTokens(t)' = ActiveTokens(t) + a
        /\ \A u \in Tasks \ {t} : ActiveTokens(u)' = ActiveTokens(u)
    BY <1>2, StartSum DEF start_llm_call_with_budget
  <2>3. ChildrenInGrant'
    <3> SUFFICES ASSUME NEW c \in Held
                 PROVE  consumed[c] + run[c].total_tokens + ActiveTokens(c)' <= reservation[c].grant
      BY <2>1 DEF ChildrenInGrant, TotalUsed, Held
    <3>1. c \in Children /\ c # Root
      BY DEF Held
    <3>2. CASE c = t
      <4>1. run[c].total_tokens + consumed[c] + ActiveTokens(c) + a <= reservation[c].grant
        BY <2>1, <3>1, <3>2 DEF PriorCharge, TokenLimit
      <4>2. ActiveTokens(c)' = ActiveTokens(c) + a /\ ActiveTokens(c) \in Nat /\ a \in Nat
        BY <2>2, <3>1, <3>2, <1>c
      <4> QED
        BY <4>1, <4>2, <3>1
    <3>3. CASE c # t
      BY <1>2, <2>2, <3>1, <3>3 DEF ChildrenInGrant, TotalUsed
    <3> QED
      BY <3>2, <3>3
  <2>4. RootInLimit'
    <3>1. CASE t = Root
      BY <2>1, <2>2, <3>1, <1>c
         DEF PriorCharge, TokenLimit, RootInLimit, RootOutstanding, RootCharged, RootInFlight
    <3>2. CASE t # Root
      BY <1>2, <2>1, <2>2, <3>2 DEF RootInLimit, RootOutstanding, RootCharged, RootInFlight
    <3> QED
      BY <3>1, <3>2
  <2>5. RootChargedOnce'
    BY <1>2, <2>1, SettledSame
       DEF RootChargedOnce, RootOwnUsage, RootCharged, SettledChildren
  <2> QED
    BY <2>3, <2>4, <2>5
<1>3. ASSUME NEW k \in Calls, NEW u \in Usages, NEW complete \in BOOLEAN,
             finish_llm_call(k, u, complete), ~breached', Kept
      PROVE  Kept'
  <2>1. PICK t \in Tasks : t = call[k].task
    BY DEF TypeOK, Call
  <2>2. /\ UNCHANGED <<limit, reserved, consumed, reservation>>
        /\ run' = [run EXCEPT ![t].total_tokens = @ + u, ![t].usage_complete = @ /\ complete]
        /\ reported' = [reported EXCEPT ![t] = @ + u]
    BY <1>3, <2>1 DEF finish_llm_call
  <2>a. ~(u > call[k].reserved)
    BY <1>3, Zenon DEF finish_llm_call
  <2>b. u <= call[k].reserved /\ call[k].reserved \in Nat /\ u \in Nat
    BY <2>a DEF TypeOK, Call
  <2>3. /\ k \in StartedCalls(t) /\ ActiveTokens(t)' \in Nat
        /\ ActiveTokens(t) = ActiveTokens(t)' + call[k].reserved
        /\ \A v \in Tasks \ {t} : ActiveTokens(v)' = ActiveTokens(v)
    BY <1>3, <2>1, FinishSum DEF finish_llm_call
  <2>4. /\ run'[t].total_tokens = run[t].total_tokens + u
        /\ run'[t].status = run[t].status
        /\ run'[t].usage_complete => run[t].usage_complete
        /\ \A v \in Tasks \ {t} : run'[v] = run[v] /\ reported'[v] = reported[v]
    BY <2>2 DEF TypeOK, Run
  <2>5. ChildrenInGrant'
    <3> SUFFICES ASSUME NEW c \in Held
                 PROVE  consumed[c] + run'[c].total_tokens + ActiveTokens(c)'
                           <= reservation[c].grant
      BY <2>2 DEF ChildrenInGrant, TotalUsed, Held
    <3>1. c \in Children /\ TotalUsed(c) + ActiveTokens(c) <= reservation[c].grant
      BY <1>3 DEF Held, ChildrenInGrant
    <3>2. CASE c = t
      BY <2>2, <2>b, <2>3, <2>4, <3>1, <3>2, <1>c DEF TotalUsed
    <3>3. CASE c # t
      BY <2>3, <2>4, <3>1, <3>3 DEF TotalUsed
    <3> QED
      BY <3>2, <3>3
  <2>6. t = Root => ~RootCharged /\ ~RootCharged'
    BY <2>3, <2>4 DEF LedgerShape, RootCharged
  <2>7. RootInLimit'
    <3>1. CASE t = Root
      BY <1>3, <2>2, <2>b, <2>3, <2>4, <2>6, <3>1, <1>c DEF RootInLimit, RootOutstanding, RootInFlight
    <3>2. CASE t # Root
      BY <1>3, <2>2, <2>3, <2>4, <3>2 DEF RootInLimit, RootOutstanding, RootCharged, RootInFlight
    <3> QED
      BY <3>1, <3>2
  <2>8. SettledChildren' = SettledChildren /\ t \notin SettledChildren
    BY <2>2, <2>3 DEF SettledChildren, LedgerShape
  <2>9. SettledUsage' = SettledUsage
    BY <2>4, <2>8, SettledSame DEF SettledChildren
  <2>10. RootOwnUsage' = RootOwnUsage
    BY <2>4, <2>6 DEF RootOwnUsage, RootCharged
  <2> QED
    BY <1>3, <2>2, <2>5, <2>7, <2>9, <2>10 DEF RootChargedOnce
<1>4. ASSUME NEW r \in ResultStatus, NEW u \in Usages, NEW complete \in BOOLEAN,
             SettleRoot(r, u, complete), ~breached', Kept
      PROVE  Kept'
  <2> DEFINE observed == \E k \in Calls : call[k].status # "absent" /\ call[k].task = Root
             total == IF observed THEN run[Root].total_tokens ELSE u
             settled == IF observed THEN RunUsageComplete(Root) ELSE complete
  <2>1. /\ run[Root].status = "running"
        /\ settled => consumed[Root] + reserved + total <= limit
        /\ ~observed => consumed[Root] + reserved + total <= limit
        /\ run'[Root] = [status |-> "terminal", total_tokens |-> total, usage_complete |-> settled]
        /\ consumed'[Root] = IF settled THEN consumed[Root] + total ELSE consumed[Root]
        /\ \A c \in Children : /\ run'[c] = run[c] /\ consumed'[c] = consumed[c]
                               /\ reported'[c] = reported[c]
        /\ UNCHANGED <<limit, reserved, reservation, call>>
    BY <1>4 DEF SettleRoot, TypeOK
  <2>2. ~observed => ActiveTokens(Root) = 0
    BY ActiveNat DEF StartedCalls
  <2>3. total \in Nat /\ settled \in BOOLEAN /\ (observed => total = run[Root].total_tokens)
    BY DEF TypeOK, Run, RunUsageComplete
  <2> HIDE DEF observed, total, settled
  <2>4. ~RootCharged /\ (RootCharged' <=> settled)
    BY <2>1 DEF RootCharged
  <2>5. ChildrenInGrant'
    BY <1>4, <2>1, CallsSame DEF ChildrenInGrant, Held, TotalUsed
  <2>6. RootInLimit'
    <3>1. CASE settled
      BY <2>1, <2>3, <2>4, <3>1 DEF RootInLimit, RootOutstanding
    <3>2. CASE ~settled
      BY <1>4, <2>1, <2>2, <2>3, <2>4, <3>2, <1>c, CallsSame
         DEF RootInLimit, RootOutstanding, RootInFlight
    <3> QED
      BY <3>1, <3>2
  <2>7. SettledUsage' = SettledUsage
    BY <2>1, SettledSame DEF SettledChildren
  <2>8. RootChargedOnce'
    BY <1>4, <2>1, <2>3, <2>4, <2>7 DEF RootChargedOnce, RootOwnUsage
  <2> QED
    BY <2>5, <2>6, <2>8
<1>5. ASSUME NEW c \in Children, NEW r \in ResultStatus, Settling(c, r)
      PROVE  /\ UNCHANGED <<limit, call, reported>> /\ reservation[c].status = "active"
             /\ run'[Root] = run[Root] /\ c # Root /\ c \in Held
             /\ \A d \in Children : run'[d].total_tokens = run[d].total_tokens
             /\ RootCharged' = RootCharged /\ RootOutstanding' = RootOutstanding
             /\ RootOwnUsage' = RootOwnUsage
  <2>1. /\ UNCHANGED <<limit, call, reported>> /\ reservation[c].status = "active"
        /\ run'[Root] = run[Root] /\ c # Root
        /\ \A d \in Children : run'[d].total_tokens = run[d].total_tokens
    BY <1>5 DEF Settling, TypeOK, Run, Terminal
  <2> QED
    BY <2>1, CallsSame DEF RootCharged, RootOutstanding, RootOwnUsage, RootInFlight, Held
<1>6. ASSUME NEW c \in Children, NEW r \in ResultStatus, SettleUnknown(c, r), Kept
      PROVE  Kept'
  <2>1. /\ Settling(c, r) /\ UNCHANGED <<reserved, consumed>>
        /\ reservation' = [reservation EXCEPT ![c].status = "incomplete"]
    BY <1>6 DEF SettleUnknown
  <2>2. /\ Held' = Held /\ SettledChildren' = SettledChildren
        /\ \A d \in Held : reservation'[d].grant = reservation[d].grant
    BY <1>5, <2>1 DEF Held, SettledChildren, TypeOK, Reservation
  <2>3. ChildrenInGrant'
    BY <1>5, <1>6, <2>1, <2>2, CallsSame DEF ChildrenInGrant, TotalUsed, Held
  <2>4. RootInLimit'
    BY <1>5, <1>6, <2>1 DEF RootInLimit
  <2>5. RootChargedOnce'
    BY <1>5, <1>6, <2>1, <2>2, SettledSame DEF RootChargedOnce
  <2> QED
    BY <2>3, <2>4, <2>5
<1>7. ASSUME NEW c \in Children, NEW r \in ResultStatus, SettleOverrun(c, r), Kept
      PROVE  FALSE
  <2>1. c \in Held /\ TotalUsed(c) > reservation[c].grant
    BY <1>5, <1>7 DEF SettleOverrun
  <2> QED
    BY <1>7, <2>1, <1>c DEF ChildrenInGrant
<1>8. ASSUME NEW c \in Children, NEW r \in ResultStatus, SettleWithinGrant(c, r), Kept
      PROVE  Kept'
  <2>1. /\ Settling(c, r) /\ TotalUsed(c) <= reservation[c].grant
        /\ reserved' = reserved - reservation[c].grant
        /\ reservation' = [reservation EXCEPT ![c].status = "settled"]
        /\ consumed'[Root] = consumed[Root] + TotalUsed(c)
        /\ \A d \in Children \ {c} : consumed'[d] = consumed[d]
    BY <1>5, <1>8 DEF SettleWithinGrant, TypeOK
  <2>2. /\ Held' = Held \ {c}
        /\ SettledChildren' = SettledChildren \cup {c} /\ c \notin SettledChildren
        /\ \A d \in Held \ {c} : reservation'[d] = reservation[d]
    BY <1>5, <2>1 DEF Held, SettledChildren, TypeOK, Reservation
  <2>3. ChildrenInGrant'
    BY <1>5, <1>8, <2>1, <2>2, CallsSame DEF ChildrenInGrant, TotalUsed, Held
  <2>4. RootInLimit'
    BY <1>5, <1>8, <2>1 DEF RootInLimit
  <2>5. SettledUsage' = SettledUsage + TotalUsed(c)
    <3> DEFINE f == [d \in SettledChildren |-> reported[d]]
               g == [d \in SettledChildren \cup {c} |-> reported[d]]
    <3>1. IsFiniteSet(SettledChildren) /\ f \in [SettledChildren -> Nat]
      BY SettledNat
    <3>2. g \in [SettledChildren \cup {c} -> Nat] /\ \A d \in SettledChildren : g[d] = f[d]
      BY DEF SettledChildren
    <3>3. g[c] = TotalUsed(c)
      BY <1>5, <2>1 DEF ChargedExactlyOnce
    <3>4. Total(g) = SettledUsage' /\ Total(f) = SettledUsage
      BY <1>5, <2>1, <2>2 DEF SettledUsage
    <3> HIDE DEF f, g
    <3> QED
      BY <2>2, <3>1, <3>2, <3>3, <3>4, TotalExtend
  <2>6. RootChargedOnce'
    BY <1>5, <1>8, <2>1, <2>5 DEF RootChargedOnce
  <2> QED
    BY <2>3, <2>4, <2>6
<1>9. ASSUME NEW l \in Limits, configure_root_task_budget_cas(l), ~breached', Kept
      PROVE  Kept'
  <2>1. /\ UNCHANGED <<reserved, consumed, run, reservation, call, reported>> /\ limit' = l
    BY <1>9 DEF configure_root_task_budget_cas
  <2>a. ~(consumed[Root] + reserved + RootInFlight > l)
    BY <1>9, Zenon DEF configure_root_task_budget_cas
  <2>b. consumed[Root] + reserved + RootInFlight <= l
    <3>1. l \in Nat
      OBVIOUS
    <3> QED
      BY <2>a, <3>1, <1>d
  <2>2. ChildrenInGrant'
    BY <1>9, <2>1, CallsSame DEF ChildrenInGrant, TotalUsed, Held
  <2>3. RootInLimit'
    BY <1>9, <2>1, <2>b, CallsSame DEF RootInLimit, RootOutstanding, RootCharged, RootInFlight
  <2>4. RootChargedOnce'
    BY <1>9, <2>1, SettledSame DEF RootChargedOnce, RootOwnUsage, RootCharged, SettledChildren
  <2> QED
    BY <2>2, <2>3, <2>4
<1>10. ASSUME reconcile_runtime_after_restart, Kept PROVE Kept'
  <2>1. UNCHANGED <<limit, reserved, consumed, reported>>
    BY <1>10 DEF reconcile_runtime_after_restart
  <2>2. Held' = Held /\ SettledChildren' = SettledChildren
    BY <1>10, RestartRow DEF Held, SettledChildren
  <2>3. ChildrenInGrant'
    <3> SUFFICES ASSUME NEW c \in Held
                 PROVE  consumed[c] + run'[c].total_tokens + ActiveTokens(c)'
                           <= reservation'[c].grant
      BY <2>1, <2>2 DEF ChildrenInGrant, TotalUsed
    <3>1. c \in Children /\ consumed[c] + run[c].total_tokens + ActiveTokens(c)
                              <= reservation[c].grant
      BY <1>10 DEF Held, ChildrenInGrant, TotalUsed
    <3>2. /\ ActiveTokens(c)' = 0 /\ run'[c].total_tokens = run[c].total_tokens
          /\ reservation'[c].grant = reservation[c].grant
      BY <1>10, <3>1, RestartSum, RestartRow
    <3> QED
      BY <3>1, <3>2, <1>c
  <2>4. run'[Root].total_tokens = run[Root].total_tokens /\ RootCharged' = RootCharged
    BY <1>10, RestartRow DEF RootCharged, LedgerShape
  <2>5. RootInLimit'
    <3>1. ActiveTokens(Root)' = 0
      BY <1>10, RestartSum
    <3> QED
      BY <1>10, <2>1, <2>4, <3>1, <1>c DEF RootInLimit, RootOutstanding, RootInFlight
  <2>6. RootChargedOnce'
    BY <1>10, <2>1, <2>2, <2>4, SettledSame DEF RootChargedOnce, RootOwnUsage
  <2> QED
    BY <2>3, <2>5, <2>6
<1>11. ASSUME NEW c \in Children, start_safe_recovery(c), Kept PROVE Kept'
  <2>1. /\ UNCHANGED <<limit, reserved, reservation, call, reported>>
        /\ consumed'[c] = TotalUsed(c) /\ run'[c].total_tokens = 0
        /\ consumed'[Root] = consumed[Root] /\ run'[Root] = run[Root]
        /\ \A d \in Children \ {c} : consumed'[d] = consumed[d] /\ run'[d] = run[d]
    BY <1>11 DEF start_safe_recovery, TypeOK
  <2>2. ChildrenInGrant'
    BY <1>11, <2>1, CallsSame DEF ChildrenInGrant, TotalUsed, Held
  <2>3. RootInLimit'
    BY <1>11, <2>1, CallsSame DEF RootInLimit, RootOutstanding, RootCharged, RootInFlight
  <2>4. RootChargedOnce'
    BY <1>11, <2>1, SettledSame DEF RootChargedOnce, RootOwnUsage, RootCharged, SettledChildren
  <2> QED
    BY <2>2, <2>3, <2>4
<1>12. ASSUME Next, ~breached' PROVE ~breached
  <2>1. ASSUME NEW k \in Calls, NEW u \in Usages, NEW complete \in BOOLEAN,
               finish_llm_call(k, u, complete) PROVE ~breached
    BY <1>12, <2>1 DEF finish_llm_call
  <2>2. ASSUME NEW r \in ResultStatus, NEW u \in Usages, NEW complete \in BOOLEAN,
               SettleRoot(r, u, complete) PROVE ~breached
    BY <1>12, <2>2 DEF SettleRoot
  <2>3. ASSUME NEW l \in Limits, configure_root_task_budget_cas(l) PROVE ~breached
    BY <1>12, <2>3 DEF configure_root_task_budget_cas
  <2> QED
    BY <1>12, <2>1, <2>2, <2>3
       DEF Next, Reserve, StartCall, FinishCall, Settle, Configure, Recover,
           reserve_child_budget, start_llm_call_with_budget, SettleUnknown, SettleOverrun,
           SettleWithinGrant, Settling, reconcile_runtime_after_restart, start_safe_recovery
<1> HIDE DEF Kept
<1>13. SUFFICES ASSUME ~breached', Kept PROVE Kept'
  BY <1>a, <1>b, <1>12
<1> QED
  BY <1>13, <1>1, <1>2, <1>3, <1>4, <1>6, <1>7, <1>8, <1>9, <1>10, <1>11
     DEF Next, Reserve, StartCall, FinishCall, Settle, Configure, Recover

----------------------------------------------------------------------------
(* The theorems. *)

(* The account starts empty. *)
LEMMA InitInv == Init => IInv
<1> SUFFICES ASSUME Init PROVE IInv
  OBVIOUS
<1> USE BudgetAssumption DEF Tasks
<1>1. TypeOK
  BY DEF Init, TypeOK, Run, RunStatus, Reservation, ReservationStatus, Call, CallStatus
<1>2. \A t \in Tasks : StartedCalls(t) = {}
  BY DEF Init, StartedCalls
<1>3. \A t \in Tasks : ActiveTokens(t) = 0
  BY <1>1, <1>2, ActiveNat
<1>4. Held = {} /\ SettledChildren = {} /\ ~RootCharged
  BY DEF Init, Held, SettledChildren, RootCharged
<1>5. LedgerShape
  BY <1>2, <1>4 DEF Init, LedgerShape
<1>6. Total([c \in Held |-> reservation[c].grant]) = 0
  <2>1. [c \in Held |-> reservation[c].grant] \in [Held -> Nat]
    BY <1>4
  <2> QED
    BY <1>4, <2>1, TotalEmpty
<1>7. SettledUsage = 0
  <2>1. [c \in SettledChildren |-> reported[c]] \in [SettledChildren -> Nat]
    BY <1>4
  <2> QED
    BY <1>4, <2>1, TotalEmpty DEF SettledUsage
<1>8. limit \in Nat /\ reserved = 0 /\ consumed[Root] = 0 /\ run[Root].total_tokens = 0
  BY DEF Init
<1>9. AccountWithinLimit /\ ParentReserveKept /\ ReservedIsHeld
  BY <1>6, <1>8 DEF AccountWithinLimit, ParentReserveKept, ReservedIsHeld
<1>10. ChargedExactlyOnce
  BY DEF Init, ChargedExactlyOnce, TotalUsed
<1>11. Spending
  BY <1>3, <1>4, <1>7, <1>8
     DEF Spending, ChildrenInGrant, RootInLimit, RootChargedOnce, RootOwnUsage,
         RootOutstanding, RootInFlight
<1> QED
  BY <1>1, <1>5, <1>9, <1>10, <1>11 DEF IInv

(* The invariant is inductive. *)
LEMMA InvStep == IInv /\ [Next]_vars => IInv'
<1> SUFFICES ASSUME IInv, [Next]_vars PROVE IInv'
  OBVIOUS
<1>1. CASE Next
  <2>1. TypeOK'
    BY <1>1, TypeOKStep DEF IInv
  <2>2. AccountWithinLimit' /\ ParentReserveKept'
    BY <1>1, AccountStep DEF IInv
  <2>3. ReservedIsHeld'
    BY <1>1, <2>1, HeldStep DEF IInv
  <2>4. LedgerShape' /\ ChargedExactlyOnce'
    BY <1>1, <2>1, ShapeStep, ChargeStep DEF IInv
  <2>5. Spending'
    BY <1>1, <2>1, SpendingStep DEF IInv
  <2> QED
    BY <2>1, <2>2, <2>3, <2>4, <2>5 DEF IInv
<1>2. CASE UNCHANGED vars
  <2>1. TypeOK' /\ AccountWithinLimit' /\ ParentReserveKept'
    BY <1>2 DEF vars, IInv, TypeOK, AccountWithinLimit, ParentReserveKept
  <2>2. ReservedIsHeld'
    BY <1>2 DEF vars, IInv, ReservedIsHeld, Held
  <2>3. LedgerShape' /\ ChargedExactlyOnce'
    BY <1>2 DEF vars, IInv, LedgerShape, ChargedExactlyOnce, RootCharged, TotalUsed, StartedCalls
  <2>4. ChildrenInGrant' = ChildrenInGrant
    BY <1>2 DEF vars, ChildrenInGrant, Held, TotalUsed, ActiveTokens, StartedCalls
  <2>5. RootInLimit' = RootInLimit
    BY <1>2 DEF vars, RootInLimit, RootOutstanding, RootCharged, RootInFlight, ActiveTokens,
                StartedCalls
  <2>6. RootChargedOnce' = RootChargedOnce
    BY <1>2 DEF vars, RootChargedOnce, SettledUsage, SettledChildren, RootOwnUsage, RootCharged
  <2>7. Spending'
    BY <1>2, <2>4, <2>5, <2>6 DEF vars, IInv, Spending
  <2> QED
    BY <2>1, <2>2, <2>3, <2>7 DEF IInv
<1> QED
  BY <1>1, <1>2

(* The strengthened invariant holds in every reachable state. *)
LEMMA Inductive == Spec => []IInv
BY InitInv, InvStep, PTL DEF Spec

(* The account, its rows and the ledger keep their types: what is held is   *)
(* never negative, however the transactions of task_budget.rs interleave.   *)
THEOREM TypeCorrect == Spec => []TypeOK
<1>1. IInv => TypeOK
  BY DEF IInv
<1> QED
  BY <1>1, Inductive, PTL

(* What is settled and held never exceeds the operator's limit: the guarded *)
(* UPDATEs of reservation, settlement and configuration suffice together.   *)
THEOREM WithinLimit == Spec => []AccountWithinLimit
<1>1. IInv => AccountWithinLimit
  BY DEF IInv
<1> QED
  BY <1>1, Inductive, PTL

(* Rounding up ROOT_BUDGET_RESERVE_PERCENT keeps a full fifth of every      *)
(* limit out of the children's reach, and so does a change of the limit.    *)
THEOREM ReserveKept == Spec => []ParentReserveKept
<1>1. IInv => ParentReserveKept
  BY DEF IInv
<1> QED
  BY <1>1, Inductive, PTL

(* budget_reserved_tokens is the sum of the unreleased grants: settlement,  *)
(* restart and recovery neither lose a grant nor release it twice.          *)
THEOREM HeldExactly == Spec => []ReservedIsHeld
<1>1. IInv => ReservedIsHeld
  BY DEF IInv
<1> QED
  BY <1>1, Inductive, PTL

(* Every token reported for a child is charged once, over all its attempts, *)
(* and none can be reported once its grant was released.                    *)
THEOREM ChargedOnce == Spec => []ChargedExactlyOnce
<1>1. IInv => ChargedExactlyOnce
  BY DEF IInv
<1> QED
  BY <1>1, Inductive, PTL

(* What the tree has used is what was settled, what is held and what the    *)
(* root's own Run shows.                                                    *)
LEMMA TreeUsage == IInv => NoOverspend
<1> SUFFICES ASSUME IInv, ~breached PROVE Total(reported) <= limit
  BY DEF NoOverspend
<1> USE BudgetAssumption DEF Tasks
<1>1. TypeOK /\ ChildrenInGrant /\ RootInLimit /\ RootChargedOnce /\ ReservedIsHeld
  BY DEF IInv, Spending
<1> DEFINE Absent == {c \in Children : reservation[c].status = "absent"}
           Unsettled == Held \cup Absent
           books == [c \in Children |-> reported[c]]
           settled == [c \in SettledChildren |-> reported[c]]
           open == [c \in Unsettled |-> reported[c]]
           held == [c \in Held |-> reported[c]]
           absent == [c \in Absent |-> reported[c]]
           grants == [c \in Held |-> reservation[c].grant]
<1>2. /\ IsFiniteSet(SettledChildren) /\ IsFiniteSet(Held) /\ IsFiniteSet(Absent)
      /\ IsFiniteSet(Unsettled)
  <2>1. SettledChildren \subseteq Children /\ Held \subseteq Children /\ Absent \subseteq Children
    BY DEF SettledChildren, Held
  <2>2. Unsettled \subseteq Children
    BY <2>1
  <2> HIDE DEF Absent, Unsettled
  <2> QED
    BY <2>1, <2>2, FS_Subset
<1>3. /\ SettledChildren \cup Unsettled = Children /\ SettledChildren \cap Unsettled = {}
      /\ Held \cap Absent = {}
  BY <1>1 DEF SettledChildren, Held, TypeOK, Reservation, ReservationStatus
<1>4. /\ books \in [Children -> Nat] /\ settled \in [SettledChildren -> Nat]
      /\ open \in [Unsettled -> Nat] /\ held \in [Held -> Nat] /\ absent \in [Absent -> Nat]
      /\ grants \in [Held -> Nat] /\ reported \in [Children \cup {Root} -> Nat]
  BY <1>1 DEF SettledChildren, Held, TypeOK, Reservation
<1>5. Total(reported) = Total(books) + reported[Root]
  <2>1. \A c \in Children : reported[c] = books[c]
    OBVIOUS
  <2> HIDE DEF books
  <2> QED
    BY <1>4, <2>1, TotalExtend
<1>6. Total(books) = Total(settled) + Total(open)
  <2>1. /\ \A c \in SettledChildren : settled[c] = books[c]
        /\ \A c \in Unsettled : open[c] = books[c]
    BY <1>3
  <2>2. /\ books \in [Children -> Nat]
        /\ settled \in [SettledChildren -> Nat] /\ open \in [Unsettled -> Nat]
    BY <1>3, <1>4
  <2>3. /\ IsFiniteSet(SettledChildren) /\ IsFiniteSet(Unsettled)
        /\ SettledChildren \cap Unsettled = {} /\ SettledChildren \cup Unsettled = Children
    BY <1>2, <1>3
  <2> HIDE DEF books, settled, open, Unsettled
  <2> QED
    BY ONLY <2>1, <2>2, <2>3, TotalSplit
<1>7. Total(open) = Total(held) + Total(absent)
  <2>1. /\ \A c \in Held : held[c] = open[c]
        /\ \A c \in Absent : absent[c] = open[c]
    OBVIOUS
  <2>2. /\ open \in [Held \cup Absent -> Nat]
        /\ held \in [Held -> Nat] /\ absent \in [Absent -> Nat]
    BY <1>4
  <2>3. IsFiniteSet(Held) /\ IsFiniteSet(Absent) /\ Held \cap Absent = {}
    BY <1>2, <1>3
  <2> HIDE DEF open, held, absent, Absent
  <2> QED
    BY <2>1, <2>2, <2>3, TotalSplit
<1>8. Total(absent) = 0
  <2>1. \A c \in Absent : absent[c] = 0
    BY DEF IInv, LedgerShape, ChargedExactlyOnce, TotalUsed
  <2> HIDE DEF absent
  <2> QED
    BY <1>4, <2>1, TotalEmpty
<1>9. Total(held) <= Total(grants)
  <2>1. \A c \in Held : held[c] <= grants[c]
    <3> SUFFICES ASSUME NEW c \in Held PROVE reported[c] <= reservation[c].grant
      OBVIOUS
    <3>1. c \in Children /\ reservation[c].status # "settled"
      BY DEF Held
    <3>2. TotalUsed(c) = reported[c]
      BY <3>1 DEF IInv, ChargedExactlyOnce
    <3>3. /\ ActiveTokens(c) \in Nat /\ TotalUsed(c) \in Nat /\ reservation[c].grant \in Nat
      BY <1>1, <3>1, ActiveNat, Numbers
    <3> QED
      BY <1>1, <3>2, <3>3 DEF ChildrenInGrant
  <2> HIDE DEF held, grants
  <2> QED
    BY <1>2, <1>4, <2>1, TotalMonotone
<1>10. Total(grants) = reserved /\ Total(settled) = SettledUsage
  BY <1>1 DEF ReservedIsHeld, SettledUsage
<1>11. reported[Root] <= RootOwnUsage + RootOutstanding
  <2>1. reported[Root] = run[Root].total_tokens
    BY DEF IInv, LedgerShape
  <2>2. run[Root].total_tokens \in Nat /\ ActiveTokens(Root) \in Nat
    BY <1>1, ActiveNat, Numbers
  <2> QED
    BY <2>1, <2>2 DEF RootOwnUsage, RootOutstanding, RootInFlight
<1>12. /\ limit \in Nat /\ reserved \in Nat /\ consumed[Root] \in Nat /\ SettledUsage \in Nat
       /\ RootOwnUsage \in Nat /\ RootOutstanding \in Nat /\ reported[Root] \in Nat
  BY <1>1, Numbers, SettledNat
<1>13. Total(held) \in Nat
  <2> HIDE DEF held
  <2> QED
    BY <1>2, <1>4, TotalNat
<1> HIDE DEF books, settled, open, held, absent, grants, Absent, Unsettled
<1> QED
  BY <1>1, <1>5, <1>6, <1>7, <1>8, <1>9, <1>10, <1>11, <1>12, <1>13
     DEF RootInLimit, RootChargedOnce

(* Unless a provider used more than was reserved for its call, or the limit *)
(* was lowered under a Run in flight, all that the root and its children    *)
(* have used fits in the limit, for any number of concurrent children and   *)
(* calls.                                                                   *)
THEOREM NeverOverspent == Spec => []NoOverspend
BY TreeUsage, Inductive, PTL

(* A settled or incomplete reservation is never reopened and a grant never  *)
(* changes: not by a late call, a restart or a recovery.                    *)
THEOREM ReservationsAreFinal == Spec => ReservationFinal
<1> DEFINE Final(c) ==
       /\ reservation[c].status \in {"settled", "incomplete"} => reservation'[c] = reservation[c]
       /\ reservation[c].status # "absent" => reservation'[c].grant = reservation[c].grant
<1>1. IInv /\ [Next]_vars => [\A c \in Children : Final(c)]_vars
  <2> SUFFICES ASSUME IInv, Next, NEW c \in Children PROVE Final(c)
    BY DEF vars
  <2> USE BudgetAssumption DEF Tasks
  <2>0. TypeOK
    BY DEF IInv
  <2>1. ASSUME NEW d \in Children, NEW r \in Amounts \cup {Unrequested}, NEW grant \in 1..limit,
               reserve_child_budget(d, r, grant)
        PROVE  Final(c)
    BY <2>0, <2>1 DEF reserve_child_budget, TypeOK
  <2>2. ASSUME NEW d \in Children, NEW r \in ResultStatus,
               SettleUnknown(d, r) \/ SettleOverrun(d, r) \/ SettleWithinGrant(d, r)
        PROVE  Final(c)
    <3>1. PICK st \in ReservationStatus : reservation' = [reservation EXCEPT ![d].status = st]
      BY <2>2 DEF SettleUnknown, SettleOverrun, SettleWithinGrant, ReservationStatus
    <3>2. reservation[d].status = "active"
      BY <2>2 DEF SettleUnknown, SettleOverrun, SettleWithinGrant, Settling
    <3> QED
      BY <2>0, <3>1, <3>2 DEF TypeOK, Reservation
  <2>3. CASE reconcile_runtime_after_restart
    <3>1. PICK b \in BOOLEAN : reservation'[c] = [reservation[c] EXCEPT
                 !.status = IF @ = "active" /\ b THEN "incomplete" ELSE @]
      BY <2>3 DEF reconcile_runtime_after_restart
    <3>2. reservation[c] \in Reservation
      BY <2>0 DEF TypeOK
    <3> QED
      BY <3>1, <3>2 DEF Reservation
  <2>4. ASSUME reservation' = reservation PROVE Final(c)
    BY <2>4
  <2>5. ASSUME NEW r \in ResultStatus, NEW u \in Usages, NEW complete \in BOOLEAN,
               SettleRoot(r, u, complete)
        PROVE  reservation' = reservation
    BY <2>5 DEF SettleRoot
  <2> HIDE DEF Final
  <2> QED
    BY <2>1, <2>2, <2>3, <2>4, <2>5
       DEF Next, Reserve, StartCall, FinishCall, Settle, Configure, Recover,
           start_llm_call_with_budget, finish_llm_call, configure_root_task_budget_cas,
           start_safe_recovery
<1> QED
  BY <1>1, Inductive, PTL DEF Spec, ReservationFinal

=============================================================================
