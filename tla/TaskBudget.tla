----------------------------- MODULE TaskBudget -----------------------------
(***************************************************************************)
(* The durable budget account of one root Task and its attached children:  *)
(* crates/zk-db/src/task_budget.rs, the physical LLM-call ledger of         *)
(* runtime_ledger.rs, and the parts of commit_task_result,                  *)
(* reconcile_runtime_after_restart and safe recovery that move budget.      *)
(*                                                                          *)
(* Tokens and cost are accounted by the same statements; one finite         *)
(* dimension is modelled.  Every action is one SQLite write transaction: a  *)
(* transaction that returns an error rolls back and changes nothing, so an  *)
(* error path is an action that is not enabled.  With a finite limit        *)
(* timeout_usage_exception is false (it asks for an unbounded root).        *)
(***************************************************************************)
EXTENDS Integers, FiniteSets

CONSTANTS
    Root,       \* the root Task
    Children,   \* its attached child Tasks
    Calls,      \* physical provider calls (bounds how many are ever made)
    Limits,     \* limits the operator configures on the root
    Amounts,    \* token counts that are requested or reserved
    Usages      \* token counts a provider reports

ASSUME BudgetAssumption ==
    /\ IsFiniteSet(Children) /\ IsFiniteSet(Calls)
    /\ Root \notin Children
    /\ Limits \subseteq Nat \ {0}
    /\ Amounts \subseteq Nat \ {0}
    /\ Usages \subseteq Nat

VARIABLES
    limit,           \* root tasks.token_budget_limit
    reserved,        \* root tasks.budget_reserved_tokens
    consumed,        \* task -> tasks.budget_consumed_tokens
    usage_complete,  \* task -> tasks.usage_complete
    run,             \* task -> its current run_envelopes row
    reservation,     \* child -> its task_budget_reservations row
    call,            \* call -> its llm_calls row
    reported,        \* history: task -> all usage providers reported for it
    breached         \* history: something unreserved was spent, see below

vars == <<limit, reserved, consumed, usage_complete, run, reservation,
          call, reported, breached>>

Tasks == Children \cup {Root}

RunStatus == {"absent", "running", "interrupted", "terminal"}
ReservationStatus == {"absent", "active", "settled", "incomplete"}
CallStatus == {"absent", "started", "finished"}

Run == [status : RunStatus, total_tokens : Nat, usage_complete : BOOLEAN]
Reservation == [status : ReservationStatus, grant : Nat]
Call == [status : CallStatus, task : Tasks, reserved : Nat]

(* The root Run is started with its budget; no child exists. *)
Init ==
    /\ limit \in Limits
    /\ reserved = 0
    /\ consumed = [t \in Tasks |-> 0]
    /\ usage_complete = [t \in Tasks |-> TRUE]
    /\ run = [t \in Tasks |-> [status |-> IF t = Root THEN "running" ELSE "absent",
                               total_tokens |-> 0, usage_complete |-> TRUE]]
    /\ reservation = [c \in Children |-> [status |-> "absent", grant |-> 0]]
    /\ call = [k \in Calls |-> [status |-> "absent", task |-> Root, reserved |-> 0]]
    /\ reported = [t \in Tasks |-> 0]
    /\ breached = FALSE

----------------------------------------------------------------------------
(* Rounding: a child's cap rounds down, the root's reserve rounds up. *)

DIRECT_CHILD_BUDGET_PERCENT == 20
ROOT_BUDGET_RESERVE_PERCENT == 20

(* Faulty: the root's reserve rounds down. *)
TruncatedPercent(value, percent) ==
    (value \div 100) * percent + ((value % 100) * percent) \div 100

ceil_percent(value, percent) ==
    (value \div 100) * percent + ((value % 100) * percent + 99) \div 100

floor_percent(value, percent) ==
    (value \div 100) * percent + ((value % 100) * percent) \div 100

Least(a, b) == IF a <= b THEN a ELSE b
Clamp(a) == IF a >= 0 THEN a ELSE 0

(* What children may hold of a limit. *)
ChildPool(l) == l - ceil_percent(l, ROOT_BUDGET_RESERVE_PERCENT)

(* SUM over rows, as the number of units the rows hold. *)
Total(f) == Cardinality(UNION {{x} \X (1..f[x]) : x \in DOMAIN f})

StartedCalls(t) == {k \in Calls : call[k].status = "started" /\ call[k].task = t}

(* What the started calls of a Task's Run have reserved. *)
ActiveTokens(t) == Total([k \in StartedCalls(t) |-> call[k].reserved])

(* What the root's own current Run has spent or may still spend. *)
RootInFlight == run[Root].total_tokens + ActiveTokens(Root)

(* An omitted request takes what it can get; the explicit ones are at least 1. *)
Unrequested == 0

Available(already_consumed) ==
    Clamp(Least(limit - already_consumed - reserved, ChildPool(limit) - reserved))

Desired(requested, already_consumed) ==
    IF requested = Unrequested
    THEN Least(floor_percent(limit, DIRECT_CHILD_BUDGET_PERCENT), Available(already_consumed))
    ELSE requested

grant_dimension(grant, requested, already_consumed) ==
    /\ grant = Desired(requested, already_consumed)
    /\ grant > 0
    /\ grant <= floor_percent(limit, DIRECT_CHILD_BUDGET_PERCENT)
    /\ grant <= Available(already_consumed)

(* reserve_child_budget_in_current_write, in the transaction that inserts the *)
(* child: the second conjunct on the sum is the guard of its UPDATE.          *)
reserve_child_budget(c, requested, grant) ==
    /\ reservation[c].status = "absent"
    /\ run[Root].status = "running"
    /\ usage_complete[Root] /\ run[Root].usage_complete
    /\ grant_dimension(grant, requested, consumed[Root] + RootInFlight)
    /\ consumed[Root] + reserved + grant + RootInFlight <= limit
    /\ reserved' = reserved + grant
    /\ reservation' = [reservation EXCEPT ![c] = [status |-> "active", grant |-> grant]]
    /\ run' = [run EXCEPT ![c].status = "running"]
    /\ UNCHANGED <<limit, consumed, usage_complete, call, reported, breached>>

----------------------------------------------------------------------------
(* The physical-call ledger. *)

UsageIntegrity(t) == run[t].usage_complete /\ usage_complete[t] /\ usage_complete[Root]

(* prior_token_charge: a root also answers for its children. *)
PriorCharge(t) == IF t = Root THEN reserved + consumed[Root] ELSE consumed[t]

TokenLimit(t) == IF t = Root THEN limit ELSE reservation[t].grant

(* Faulty: admission ignores the calls that are still started. *)
StartIgnoresActive(k, t, amount) ==
    /\ call[k].status = "absent"
    /\ UsageIntegrity(t)
    /\ run[t].status = "running"
    /\ run[t].total_tokens + PriorCharge(t) + amount <= TokenLimit(t)
    /\ call' = [call EXCEPT ![k] = [status |-> "started", task |-> t, reserved |-> amount]]
    /\ UNCHANGED <<limit, reserved, consumed, usage_complete, run, reservation,
                   reported, breached>>

start_llm_call_with_budget(k, t, amount) ==
    /\ call[k].status = "absent"
    /\ UsageIntegrity(t)
    /\ run[t].status = "running"
    /\ run[t].total_tokens + PriorCharge(t) + ActiveTokens(t) + amount <= TokenLimit(t)
    /\ call' = [call EXCEPT ![k] = [status |-> "started", task |-> t, reserved |-> amount]]
    /\ UNCHANGED <<limit, reserved, consumed, usage_complete, run, reservation,
                   reported, breached>>

(* Unknown usage poisons the Run, its Task and the root of the tree.  The      *)
(* ledger does not ask whether the Run is still active: a dropped stream may   *)
(* report after its Run is terminal.  breached: more than the reservation.     *)
finish_llm_call(k, used, complete) ==
    LET t == call[k].task IN
    /\ call[k].status = "started"
    /\ call' = [call EXCEPT ![k].status = "finished"]
    /\ run' = [run EXCEPT ![t].total_tokens = @ + used,
                          ![t].usage_complete = @ /\ complete]
    /\ usage_complete' = [u \in Tasks |-> usage_complete[u] /\ (u \in {t, Root} => complete)]
    /\ reported' = [reported EXCEPT ![t] = @ + used]
    /\ breached' = (breached \/ used > call[k].reserved)
    /\ UNCHANGED <<limit, reserved, consumed, reservation>>

----------------------------------------------------------------------------
(* Settlement, in the transaction that commits a Task's result. *)

(* Faulty: the Run's projection is trusted while a call is still started. *)
TrustsProjection(t) == run[t].usage_complete

(* A call still started has no usage: the Run is incomplete before it settles. *)
RunUsageComplete(t) == run[t].usage_complete /\ StartedCalls(t) = {}

Terminal(t) == [run[t] EXCEPT !.status = "terminal", !.usage_complete = RunUsageComplete(t)]

(* A complete result needs all three usage authorities, before it settles. *)
MayPublish(t, result) == result = "complete" => RunUsageComplete(t) /\ UsageIntegrity(t)

(* The root settles its own Run.  A Run no physical call was registered for   *)
(* takes the stream's own usage, which nothing reserved: breached if it is    *)
(* unsettled and does not fit.                                                *)
SettleRoot(result, fallback, fallback_complete) ==
    LET observed == \E k \in Calls : call[k].status # "absent" /\ call[k].task = Root
        total == IF observed THEN run[Root].total_tokens ELSE fallback
        complete == IF observed THEN RunUsageComplete(Root) ELSE fallback_complete
        fits == consumed[Root] + reserved + total <= limit
    IN
    /\ run[Root].status = "running"
    /\ result = "complete" => complete /\ usage_complete[Root]
    /\ complete => fits
    /\ run' = [run EXCEPT ![Root] = [status |-> "terminal", total_tokens |-> total,
                                     usage_complete |-> complete]]
    /\ consumed' = [consumed EXCEPT ![Root] = IF complete THEN @ + total ELSE @]
    /\ usage_complete' = [usage_complete EXCEPT ![Root] = @ /\ complete]
    /\ reported' = [reported EXCEPT ![Root] = IF observed THEN @ ELSE fallback]
    /\ breached' = (breached \/ (~observed /\ ~fits))
    /\ UNCHANGED <<limit, reserved, reservation, call>>

(* What a child used over all its attempts. *)
TotalUsed(c) == consumed[c] + run[c].total_tokens

Settling(c, result) ==
    /\ run[c].status = "running"
    /\ reservation[c].status = "active"
    /\ MayPublish(c, result)
    /\ run' = [run EXCEPT ![c] = Terminal(c)]
    /\ UNCHANGED <<limit, call, reported, breached>>

(* Faulty: an allocation whose usage is unknown is marked settled. *)
SettleUnknownAsSettled(c, result) ==
    /\ Settling(c, result)
    /\ ~RunUsageComplete(c)
    /\ reservation' = [reservation EXCEPT ![c].status = "settled"]
    /\ usage_complete' = [t \in Tasks |-> usage_complete[t] /\ t \notin {c, Root}]
    /\ UNCHANGED <<reserved, consumed>>

(* Unknown usage: the grant stays charged, child and root are poisoned. *)
SettleUnknown(c, result) ==
    /\ Settling(c, result)
    /\ ~RunUsageComplete(c)
    /\ reservation' = [reservation EXCEPT ![c].status = "incomplete"]
    /\ usage_complete' = [t \in Tasks |-> usage_complete[t] /\ t \notin {c, Root}]
    /\ UNCHANGED <<reserved, consumed>>

(* Faulty: the whole excess is charged, whatever the root has left. *)
WholeExcess(c) == Clamp(TotalUsed(c) - reservation[c].grant)

(* Faulty: a headroom below zero is not taken as none. *)
SignedExcess(c) ==
    Least(limit - reserved - consumed[Root] - RootInFlight,
          Clamp(TotalUsed(c) - reservation[c].grant))

(* What of an overrun the root can still pay. *)
ChargeableExcess(c) ==
    Least(Clamp(limit - reserved - consumed[Root] - RootInFlight),
          Clamp(TotalUsed(c) - reservation[c].grant))

(* An overrun: the grant stays charged and the root pays the excess. *)
SettleOverrun(c, result) ==
    /\ Settling(c, result)
    /\ RunUsageComplete(c)
    /\ TotalUsed(c) > reservation[c].grant
    /\ reservation' = [reservation EXCEPT ![c].status = "incomplete"]
    /\ consumed' = [consumed EXCEPT ![Root] = @ + ChargeableExcess(c)]
    /\ UNCHANGED <<reserved, usage_complete>>

(* The grant is released and what was used of it is charged. *)
SettleWithinGrant(c, result) ==
    /\ Settling(c, result)
    /\ RunUsageComplete(c)
    /\ TotalUsed(c) <= reservation[c].grant
    /\ reserved >= reservation[c].grant
    /\ reserved' = reserved - reservation[c].grant
    /\ reservation' = [reservation EXCEPT ![c].status = "settled"]
    /\ consumed' = [consumed EXCEPT ![Root] = @ + TotalUsed(c), ![c] = TotalUsed(c)]
    /\ UNCHANGED usage_complete

----------------------------------------------------------------------------
(* Operator changes, restart and recovery. *)

(* A terminal Task is refused; the caller's version is the current one, or    *)
(* nothing happens.  The usage of the Run in flight is not asked about:       *)
(* breached when it no longer fits.                                           *)
configure_root_task_budget_cas(new) ==
    /\ run[Root].status \in {"running", "interrupted"}
    /\ reserved <= ChildPool(new)
    /\ consumed[Root] + reserved <= new
    /\ limit' = new
    /\ breached' = (breached \/ consumed[Root] + reserved + RootInFlight > new)
    /\ UNCHANGED <<reserved, consumed, usage_complete, run, reservation, call, reported>>

(* Every started call failed without usage, whatever its Run's status; the    *)
(* active allocations behind such calls are frozen, the others stay usable.   *)
reconcile_runtime_after_restart ==
    LET unknown == {t \in Tasks : StartedCalls(t) # {}} IN
    /\ \E t \in Tasks : run[t].status = "running" \/ t \in unknown
    /\ call' = [k \in Calls |-> [call[k] EXCEPT
                    !.status = IF @ = "started" THEN "finished" ELSE @]]
    /\ run' = [t \in Tasks |-> [run[t] EXCEPT
                    !.status = IF @ = "running" THEN "interrupted" ELSE @,
                    !.usage_complete = @ /\ t \notin unknown]]
    /\ usage_complete' = [t \in Tasks |->
            usage_complete[t] /\ t \notin unknown /\ (t = Root => unknown = {})]
    /\ reservation' = [c \in Children |-> [reservation[c] EXCEPT
            !.status = IF @ = "active" /\ c \in unknown THEN "incomplete" ELSE @]]
    /\ UNCHANGED <<limit, reserved, consumed, reported, breached>>

(* Faulty: recovery reopens a frozen allocation. *)
RecoveryReopens(c) ==
    /\ run[c].status = "interrupted"
    /\ reservation[c].status \in {"active", "incomplete"}
    /\ TotalUsed(c) < reservation[c].grant
    /\ reservation' = [reservation EXCEPT ![c].status = "active"]
    /\ consumed' = [consumed EXCEPT ![c] = TotalUsed(c)]
    /\ run' = [run EXCEPT ![c] = [status |-> "running", total_tokens |-> 0,
                                  usage_complete |-> TRUE]]
    /\ UNCHANGED <<limit, reserved, usage_complete, call, reported, breached>>

(* A further attempt of a quarantined child carries the usage of the earlier  *)
(* ones on its Task row and starts a Run of its own.                          *)
start_safe_recovery(c) ==
    /\ run[c].status = "interrupted"
    /\ UsageIntegrity(c)
    /\ reservation[c].status = "active"
    /\ TotalUsed(c) < reservation[c].grant
    /\ consumed' = [consumed EXCEPT ![c] = TotalUsed(c)]
    /\ run' = [run EXCEPT ![c] = [status |-> "running", total_tokens |-> 0,
                                  usage_complete |-> TRUE]]
    /\ UNCHANGED <<limit, reserved, usage_complete, reservation, call, reported, breached>>

----------------------------------------------------------------------------

Reserve == \E c \in Children, r \in Amounts \cup {Unrequested}, grant \in 1..limit :
              reserve_child_budget(c, r, grant)
StartCall == \E k \in Calls, t \in Tasks, a \in Amounts : start_llm_call_with_budget(k, t, a)
FinishCall == \E k \in Calls, u \in Usages, complete \in BOOLEAN : finish_llm_call(k, u, complete)
ResultStatus == {"complete", "other"}
Settle ==
    \/ \E r \in ResultStatus, u \in Usages, complete \in BOOLEAN : SettleRoot(r, u, complete)
    \/ \E c \in Children, r \in ResultStatus :
          SettleUnknown(c, r) \/ SettleOverrun(c, r) \/ SettleWithinGrant(c, r)
Configure == \E l \in Limits : configure_root_task_budget_cas(l)
Recover == \E c \in Children : start_safe_recovery(c)

Next ==
    \/ Reserve
    \/ StartCall
    \/ FinishCall
    \/ Settle
    \/ Configure
    \/ reconcile_runtime_after_restart
    \/ Recover

Spec == Init /\ [][Next]_vars

----------------------------------------------------------------------------

(* The account, its rows and the ledger keep their types. *)
TypeOK ==
    /\ limit \in Limits
    /\ reserved \in Nat
    /\ consumed \in [Tasks -> Nat]
    /\ usage_complete \in [Tasks -> BOOLEAN]
    /\ run \in [Tasks -> Run]
    /\ reservation \in [Children -> Reservation]
    /\ call \in [Calls -> Call]
    /\ reported \in [Tasks -> Nat]
    /\ breached \in BOOLEAN

(* The reservations whose grant the root still holds back. *)
Held == {c \in Children : reservation[c].status \in {"active", "incomplete"}}

(* What is settled and held never exceeds the limit the operator set, whatever *)
(* order calls, settlements, overruns, restarts and changes of the limit take. *)
AccountWithinLimit == consumed[Root] + reserved <= limit

(* Children together never hold the fifth of the limit that is the root's, not *)
(* by rounding and not by a limit lowered under them.                          *)
ParentReserveKept == 5 * (limit - reserved) >= limit

(* The root holds back exactly the grants that are not released: none is lost  *)
(* or released twice when settlement, restart and recovery interleave, and     *)
(* ROOT_BUDGET_ACCOUNT_CORRUPT is never returned.                              *)
ReservedIsHeld == reserved = Total([c \in Held |-> reservation[c].grant])

(* Every token a provider reported for a child is on its books once: over all  *)
(* attempts of an unfinished child, and for ever once it is settled, so that   *)
(* no call can report after its grant was released.                            *)
ChargedExactlyOnce ==
    \A c \in Children :
        IF reservation[c].status = "settled"
        THEN consumed[c] = reported[c]
        ELSE TotalUsed(c) = reported[c]

(* The point of the account: unless a provider used more than was reserved for *)
(* its call, or the limit was lowered under a Run in flight, all that the tree *)
(* has used fits in the limit, whoever raced whom.                             *)
NoOverspend == ~breached => Total(reported) <= limit

(* A reservation's outcome is final and its grant immutable: a late call, a    *)
(* restart or a recovery reopens neither.                                      *)
ReservationFinal ==
    [][\A c \in Children :
         /\ reservation[c].status \in {"settled", "incomplete"} => reservation'[c] = reservation[c]
         /\ reservation[c].status # "absent" => reservation'[c].grant = reservation[c].grant]_vars

=============================================================================
