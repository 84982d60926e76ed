-------------------------- MODULE CancellationFence --------------------------
(***************************************************************************)
(* crates/zk-engine/src/task/cancellation.rs: how a stop request reaches    *)
(* the owned executions of a conversation although the database may refuse  *)
(* the write.  TaskRuntime takes a request and its durable intent as one    *)
(* step; here they are apart.                                               *)
(*                                                                          *)
(* A fence is a process-local map entry per Run.  It closes admission,      *)
(* signals the owned token, and carries the intent until somebody           *)
(* (the requester, a background reaper, or the owner before it commits) has *)
(* made it durable.  The requester, reapers, owners and submissions run     *)
(* concurrently; every map operation and every database call is a step.     *)
(* A read followed by its compare-and-swap is one step: the swap succeeds   *)
(* only if nothing changed since the read.                                  *)
(***************************************************************************)
EXTENDS Naturals

CONSTANTS
    Root,          \* the conversation's root Task, one Run
    Children,      \* the Tasks it may delegate to, one Run each
    Attached,      \* those among them that inherit a stop
    Cancellers,    \* concurrent cancel_scoped calls
    MaxFailures,   \* bound: database calls that fail
    MaxEntries     \* bound: fences a Run is ever given (install)

ASSUME FenceAssumption ==
    /\ Root \notin Children
    /\ Attached \subseteq Children
    /\ MaxFailures \in Nat /\ MaxEntries \in Nat

VARIABLES
    db,        \* durable Task status
    failures,  \* database calls that may still fail
    active,    \* TaskRuntimeInner.active: Tasks with an owner in this process
    token,     \* the owners whose CancellationToken is signalled
    fence,     \* cancellation_fences: "none", or an entry by its reconciled flag
    gen,       \* how many entries a Run has had: the identity of an Arc
    own,       \* an owner's program counter
    req,       \* a canceller's program counter
    target,    \* ... the Task it was called for
    scope,     \* ... the Tasks it found below it
    todo,      \* ... the ones it has still to visit
    visiting,  \* ... the one it is reconciling
    failed,    \* ... whether a database call of it failed
    rec,       \* a reconcile call: its program counter
    held,      \* ... the entry it works on
    arc        \* ... and the entry its caller had installed

vars == <<db, failures, active, token, fence, gen, own, req, target, scope, todo,
          visiting, failed, rec, held, arc>>
cancelVars == <<req, target, scope, todo, visiting, failed>>
fenceVars == <<fence, gen, token>>

Tasks == {Root} \cup Children
Stopped == {"cancelling", "ended"}

(* Who may be inside reconcile: a cancel_scoped call, the background task   *)
(* that start_reconciler spawned for an entry, the owner of a Run.          *)
Canceller(k) == <<"canceller", k>>
Reaper(t, g) == <<"reaper", t, g>>
Owner(t) == <<"owner", t>>
Entries == 1 .. MaxEntries
Procs == {Canceller(k) : k \in Cancellers} \cup {Owner(t) : t \in Tasks}
         \cup {Reaper(t, g) : t \in Tasks, g \in Entries}

Init ==
    /\ db = [t \in Tasks |-> "absent"]
    /\ failures = MaxFailures
    /\ active = {} /\ token = {}
    /\ fence = [t \in Tasks |-> "none"]
    /\ gen = [t \in Tasks |-> 0]
    /\ own = [t \in Tasks |-> "none"]
    /\ req = [k \in Cancellers |-> "idle"]
    /\ target = [k \in Cancellers |-> Root]
    /\ scope = [k \in Cancellers |-> {}]
    /\ todo = [k \in Cancellers |-> {}]
    /\ visiting = [k \in Cancellers |-> Root]
    /\ failed = [k \in Cancellers |-> FALSE]
    /\ rec = [p \in Procs |-> "idle"]
    /\ held = [p \in Procs |-> 0]
    /\ arc = [p \in Procs |-> 0]

----------------------------------------------------------------------------

(* install: the entry is created unless there is one, then the owner's      *)
(* token, if there is an owner, is signalled.                               *)
install(t) ==
    /\ fence[t] = "none" => gen[t] < MaxEntries
    /\ fence' = [fence EXCEPT ![t] = IF @ = "none" THEN "open" ELSE @]
    /\ gen' = [gen EXCEPT ![t] = IF fence[t] = "none" THEN @ + 1 ELSE @]
    /\ token' = token \cup ({t} \cap active)

(* start_reconciler: at most one background task per entry, ever.           *)
start_reconciler(t, g) == [rec EXCEPT ![Reaper(t, g)] = IF @ = "idle" THEN "load" ELSE @]

Db(t, status) == db' = [db EXCEPT ![t] = status] /\ UNCHANGED failures
DbFails == failures > 0 /\ failures' = failures - 1 /\ UNCHANGED db

----------------------------------------------------------------------------
(* reconcile, by process p for Run t. *)

RecLoad(p, t) ==
    /\ rec[p] = "load"
    /\ rec' = [rec EXCEPT ![p] = IF fence[t] = "open" THEN "try" ELSE "ok"]
    /\ held' = [held EXCEPT ![p] = gen[t]]
    /\ UNCHANGED <<db, failures, active, fenceVars, own, cancelVars, arc>>

(* The Task has stopped already, or persist_cancelling stops it. *)
RecPersist(p, t) ==
    /\ rec[p] = "try"
    /\ Db(t, IF db[t] \in Stopped THEN db[t] ELSE "cancelling")
    /\ rec' = [rec EXCEPT ![p] = "mark"]
    /\ UNCHANGED <<active, fenceVars, own, cancelVars, held, arc>>

RecFails(p) ==
    /\ rec[p] = "try"
    /\ DbFails
    /\ rec' = [rec EXCEPT ![p] = "err"]
    /\ UNCHANGED <<active, fenceVars, own, cancelVars, held, arc>>

(* The flag is that of the entry p holds, which may have been replaced. *)
RecMark(p, t) ==
    /\ rec[p] = "mark"
    /\ fence' = [fence EXCEPT ![t] = IF held[p] = gen[t] /\ @ = "open" THEN "reconciled" ELSE @]
    /\ rec' = [rec EXCEPT ![p] = "check"]
    /\ UNCHANGED <<db, failures, active, gen, token, own, cancelVars, held, arc>>

(* Faulty: the removal is always left to the owner. *)
RecCheckLeaves(p, t) ==
    /\ rec[p] = "check"
    /\ rec' = [rec EXCEPT ![p] = "ok"]
    /\ UNCHANGED <<db, failures, active, fenceVars, own, cancelVars, held, arc>>

(* Without an owner there is nobody left to remove the entry. *)
RecCheck(p, t) ==
    /\ rec[p] = "check"
    /\ rec' = [rec EXCEPT ![p] = IF t \in active THEN "ok" ELSE "remove"]
    /\ UNCHANGED <<db, failures, active, fenceVars, own, cancelVars, held, arc>>

RecRemove(p, t) ==
    /\ rec[p] = "remove"
    /\ fence' = [fence EXCEPT ![t] = "none"]
    /\ rec' = [rec EXCEPT ![p] = "ok"]
    /\ UNCHANGED <<db, failures, active, gen, token, own, cancelVars, held, arc>>

reconcile(p, t) ==
    \/ RecLoad(p, t) \/ RecPersist(p, t) \/ RecFails(p)
    \/ RecMark(p, t) \/ RecCheck(p, t) \/ RecRemove(p, t)

(* The background loop: an error is retried, success ends it. *)
ReaperRetries(t, g) ==
    /\ rec[Reaper(t, g)] = "err"
    /\ rec' = [rec EXCEPT ![Reaper(t, g)] = "load"]
    /\ UNCHANGED <<db, failures, active, fenceVars, own, cancelVars, held, arc>>

----------------------------------------------------------------------------
(* Owners. *)

OwnerTo(t, pc) == own' = [own EXCEPT ![t] = pc]

(* inherit_and_signal, at registration and again after the claim: an entry  *)
(* of the Run itself signals its new owner; an attached child takes its     *)
(* parent's stop over.                                                      *)
inherit_and_signal(t) ==
    \/ fence[t] # "none" /\ install(t) /\ UNCHANGED rec
    \/ /\ fence[t] = "none" /\ t \in Attached /\ fence[Root] # "none"
       /\ install(t) /\ rec' = start_reconciler(t, gen'[t])
    \/ /\ fence[t] = "none" /\ ~ (t \in Attached /\ fence[Root] # "none")
       /\ UNCHANGED <<fenceVars, rec>>

(* The root's rows are created running; attach_existing_execution registers *)
(* its owner ...                                                            *)
StartRoot ==
    /\ own[Root] = "none"
    /\ Db(Root, "running")
    /\ OwnerTo(Root, "created")
    /\ UNCHANGED <<active, fenceVars, cancelVars, rec, held, arc>>

(* ... and submit_child that of a child, if its Run is still queued.        *)
Register(t) ==
    /\ own[t] = "created"
    /\ IF t = Root \/ db[t] = "queued"
       THEN active' = active \cup {t} /\ OwnerTo(t, "attached")
       ELSE UNCHANGED active /\ OwnerTo(t, "gone")
    /\ UNCHANGED <<db, failures, fenceVars, cancelVars, rec, held, arc>>

Inherit(t) ==
    /\ own[t] \in {"attached", "claimed"}
    /\ inherit_and_signal(t)
    /\ OwnerTo(t, IF own[t] = "claimed" THEN "admitting" ELSE "registered")
    /\ UNCHANGED <<db, failures, active, cancelVars, held, arc>>

(* The root's Task is read again, so that a stop that was durable before    *)
(* the registration still reaches its token.  If that fails the lease is    *)
(* dropped and the Run is terminated without an owner.                      *)
RootReread ==
    /\ own[Root] = "registered"
    /\ \/ /\ token' = IF db[Root] \in Stopped THEN token \cup {Root} ELSE token
          /\ OwnerTo(Root, "executing")
          /\ UNCHANGED <<db, failures, active, fence>>
       \/ /\ DbFails
          /\ active' = active \ {Root}
          /\ fence' = [fence EXCEPT ![Root] = IF @ = "reconciled" THEN "none" ELSE @]
          /\ OwnerTo(Root, "ending")
          /\ UNCHANGED token
    /\ UNCHANGED <<gen, cancelVars, rec, held, arc>>

(* submit_child refuses a fenced parent; its transaction a stopped one. *)
SubmitCheck(c) ==
    /\ own[c] = "none" /\ own[Root] = "executing"
    /\ fence[Root] = "none"
    /\ OwnerTo(c, "submitting")
    /\ UNCHANGED <<db, failures, active, fenceVars, cancelVars, rec, held, arc>>

SubmitRow(c) ==
    /\ own[c] = "submitting"
    /\ \/ db[Root] = "running" /\ Db(c, "queued") /\ OwnerTo(c, "created")
       \/ db[Root] # "running" /\ UNCHANGED <<db, failures>> /\ OwnerTo(c, "gone")
       \/ DbFails /\ OwnerTo(c, "gone")
    /\ UNCHANGED <<active, fenceVars, cancelVars, rec, held, arc>>

(* claim_task's reads: neither the Task nor, for an attached one, its       *)
(* parent is stopped or fenced.                                             *)
MayClaim(c) ==
    /\ db[c] \notin Stopped /\ fence[c] = "none"
    /\ c \in Attached => db[Root] \notin Stopped /\ fence[Root] = "none"

(* drive_task waits for permits, unless its token is signalled. *)
ClaimRead(c) ==
    /\ own[c] = "registered" /\ c \in Children
    /\ \/ c \notin token /\ MayClaim(c) /\ OwnerTo(c, "checked") /\ UNCHANGED <<db, failures>>
       \/ ~ (c \notin token /\ MayClaim(c)) /\ OwnerTo(c, "ending") /\ UNCHANGED <<db, failures>>
       \/ DbFails /\ OwnerTo(c, "ending")
    /\ UNCHANGED <<active, fenceVars, cancelVars, rec, held, arc>>

(* The deadline or a stop of the parent ends the wait; the stop is made     *)
(* durable, over and over if need be, without a fence.                      *)
QueueStops(c) ==
    /\ own[c] = "registered" /\ c \in Children
    /\ Db(c, IF db[c] \in Stopped THEN db[c] ELSE "cancelling")
    /\ OwnerTo(c, "ending")
    /\ UNCHANGED <<active, fenceVars, cancelVars, rec, held, arc>>

(* The claim.  A Task that moved since it was read has stopped: the next    *)
(* round of the loop refuses it.                                            *)
Claim(c) ==
    /\ own[c] = "checked"
    /\ \/ db[c] = "queued" /\ Db(c, "running") /\ OwnerTo(c, "claimed")
       \/ db[c] # "queued" /\ UNCHANGED <<db, failures>> /\ OwnerTo(c, "ending")
       \/ DbFails /\ OwnerTo(c, "ending")
    /\ UNCHANGED <<active, fenceVars, cancelVars, rec, held, arc>>

Admit(c) ==
    /\ own[c] = "admitting"
    /\ OwnerTo(c, IF c \in token THEN "ending" ELSE "executing")
    /\ UNCHANGED <<db, failures, active, fenceVars, cancelVars, rec, held, arc>>

(* User code ends, by itself or because its token is signalled. *)
ExecutorEnds(t) ==
    /\ own[t] = "executing"
    /\ OwnerTo(t, "ending")
    /\ UNCHANGED <<db, failures, active, fenceVars, cancelVars, rec, held, arc>>

(* stop_active, by the driver of a child whose parent has durably stopped   *)
(* (wait_for_parent_stop) or whose deadline has passed: fence, one          *)
(* reconcile, and a reaper if that fails.                                   *)
StopActive(c) ==
    /\ own[c] = "executing" /\ c \in Children
    /\ install(c)
    /\ rec' = [rec EXCEPT ![Owner(c)] = "load"]
    /\ arc' = [arc EXCEPT ![Owner(c)] = gen'[c]]
    /\ OwnerTo(c, "stopping")
    /\ UNCHANGED <<db, failures, active, cancelVars, held>>

(* Faulty: a write that fails is waited for, and nobody repeats it. *)
StopActiveStuck(c) ==
    /\ own[c] = "stopping" /\ rec[Owner(c)] = "ok"
    /\ OwnerTo(c, "ending")
    /\ rec' = [rec EXCEPT ![Owner(c)] = "idle"]
    /\ UNCHANGED <<db, failures, active, fenceVars, cancelVars, held, arc>>

StopActiveDone(c) ==
    /\ own[c] = "stopping" /\ rec[Owner(c)] \in {"ok", "err"}
    /\ OwnerTo(c, "ending")
    /\ rec' = [(IF rec[Owner(c)] = "err" THEN start_reconciler(c, arc[Owner(c)]) ELSE rec)
               EXCEPT ![Owner(c)] = "idle"]
    /\ UNCHANGED <<db, failures, active, fenceVars, cancelVars, held, arc>>

(* commit_outcome and the root's await_local_cancellation reconcile before  *)
(* they commit, and retry for as long as that fails.                        *)
EndReconcile(t) ==
    /\ own[t] = "ending"
    /\ rec' = [rec EXCEPT ![Owner(t)] = "load"]
    /\ OwnerTo(t, "reconciling")
    /\ UNCHANGED <<db, failures, active, fenceVars, cancelVars, held, arc>>

EndReconciled(t) ==
    /\ own[t] = "reconciling" /\ rec[Owner(t)] \in {"ok", "err"}
    /\ OwnerTo(t, IF rec[Owner(t)] = "ok" THEN "committing" ELSE "ending")
    /\ rec' = [rec EXCEPT ![Owner(t)] = "idle"]
    /\ UNCHANGED <<db, failures, active, fenceVars, cancelVars, held, arc>>

Commit(t) ==
    /\ own[t] = "committing"
    /\ \/ Db(t, "ended") /\ OwnerTo(t, IF t \in active THEN "releasing" ELSE "gone")
       \/ DbFails /\ OwnerTo(t, "ending")
    /\ UNCHANGED <<active, fenceVars, cancelVars, rec, held, arc>>

(* release_active: the owner leaves the map first ... *)
ReleaseRemove(t) ==
    /\ own[t] = "releasing"
    /\ active' = active \ {t}
    /\ OwnerTo(t, "released")
    /\ UNCHANGED <<db, failures, fenceVars, cancelVars, rec, held, arc>>

(* ... and then takes a reconciled entry with it. *)
ReleaseFence(t) ==
    /\ own[t] = "released"
    /\ fence' = [fence EXCEPT ![t] = IF @ = "reconciled" THEN "none" ELSE @]
    /\ OwnerTo(t, "gone")
    /\ UNCHANGED <<db, failures, active, gen, token, cancelVars, rec, held, arc>>

OwnerStep(t) ==
    \/ Register(t) \/ Inherit(t) \/ ExecutorEnds(t)
    \/ EndReconcile(t) \/ EndReconciled(t) \/ Commit(t)
    \/ ReleaseRemove(t) \/ ReleaseFence(t)
    \/ reconcile(Owner(t), t)

ChildStep(c) ==
    \/ SubmitRow(c) \/ ClaimRead(c) \/ QueueStops(c) \/ Claim(c) \/ Admit(c)
    \/ StopActive(c) \/ StopActiveDone(c)

----------------------------------------------------------------------------
(* cancel_scoped, with cascade, by canceller k. *)

(* attached_subtree of t among the Tasks in S; t itself always belongs. *)
attached_subtree(t, S) == {t} \cup (IF t = Root THEN Attached \cap S ELSE {})

(* The Task it was called for comes first. *)
NextTarget(k) == IF target[k] \in todo[k] THEN {target[k]} ELSE todo[k]

ReqTo(k, pc) == req' = [req EXCEPT ![k] = pc]

(* If the Task has an owner in this process, what it owns is fenced before  *)
(* any database call.                                                       *)
CancelBegin(k, t) ==
    /\ req[k] = "idle" /\ db[t] # "absent"
    /\ target' = [target EXCEPT ![k] = t]
    /\ todo' = [todo EXCEPT ![k] = IF t \in active THEN attached_subtree(t, active) ELSE {}]
    /\ scope' = [scope EXCEPT ![k] = todo'[k]]
    /\ ReqTo(k, "local")
    /\ UNCHANGED <<db, failures, active, fenceVars, own, visiting, failed, rec, held, arc>>

(* Both sweeps over the process' own Tasks. *)
CancelInstall(k) ==
    /\ req[k] \in {"local", "known"} /\ todo[k] # {}
    /\ \E t \in NextTarget(k) : /\ install(t)
                                /\ todo' = [todo EXCEPT ![k] = @ \ {t}]
    /\ UNCHANGED <<db, failures, active, own, req, target, scope, visiting, failed, rec, held, arc>>

(* The Task is read; without that, only a Task with an owner here can be    *)
(* stopped.                                                                 *)
CancelRead(k) ==
    LET known == attached_subtree(target[k], active)
    IN  /\ req[k] = "local" /\ todo[k] = {}
        /\ \/ /\ UNCHANGED <<db, failures, failed>> /\ ReqTo(k, "known")
              /\ todo' = [todo EXCEPT ![k] = known] /\ scope' = [scope EXCEPT ![k] = known]
           \/ /\ DbFails /\ scope[k] # {} /\ ReqTo(k, "known")
              /\ todo' = [todo EXCEPT ![k] = known] /\ scope' = [scope EXCEPT ![k] = known]
              /\ failed' = [failed EXCEPT ![k] = TRUE]
           \/ DbFails /\ scope[k] = {} /\ ReqTo(k, "refused") /\ UNCHANGED <<todo, scope, failed>>
        /\ UNCHANGED <<active, fenceVars, own, target, visiting, rec, held, arc>>

(* The durable subtree replaces the process' own. *)
CancelList(k) ==
    LET listed == attached_subtree(target[k], {t \in Tasks : db[t] # "absent"})
    IN  /\ req[k] = "known" /\ todo[k] = {}
        /\ \/ /\ UNCHANGED <<db, failures, failed>>
              /\ scope' = [scope EXCEPT ![k] = listed]
           \/ /\ DbFails /\ UNCHANGED scope
              /\ failed' = [failed EXCEPT ![k] = TRUE]
        /\ todo' = [todo EXCEPT ![k] = scope'[k]]
        /\ ReqTo(k, "each")
        /\ UNCHANGED <<active, fenceVars, own, target, visiting, rec, held, arc>>

(* Every target is fenced and reconciled, one after the other; a reaper     *)
(* takes over what fails.                                                   *)
CancelTarget(k) ==
    /\ req[k] = "each"
    /\ \E t \in NextTarget(k) :
          /\ install(t)
          /\ todo' = [todo EXCEPT ![k] = @ \ {t}]
          /\ visiting' = [visiting EXCEPT ![k] = t]
          /\ arc' = [arc EXCEPT ![Canceller(k)] = gen'[t]]
    /\ rec' = [rec EXCEPT ![Canceller(k)] = "load"]
    /\ ReqTo(k, "busy")
    /\ UNCHANGED <<db, failures, active, own, target, scope, failed, held>>

CancelTargetDone(k) ==
    /\ req[k] = "busy" /\ rec[Canceller(k)] \in {"ok", "err"}
    /\ failed' = [failed EXCEPT ![k] = @ \/ rec[Canceller(k)] = "err"]
    /\ rec' = [(IF rec[Canceller(k)] = "err" THEN start_reconciler(visiting[k], arc[Canceller(k)])
                                             ELSE rec) EXCEPT ![Canceller(k)] = "idle"]
    /\ ReqTo(k, "each")
    /\ UNCHANGED <<db, failures, active, fenceVars, own, target, scope, todo, visiting, held, arc>>

(* Faulty: the receipt does not mention what failed. *)
CancelReceiptAlways(k) ==
    /\ req[k] = "each" /\ todo[k] = {}
    /\ ReqTo(k, "receipt")
    /\ UNCHANGED <<db, failures, active, fenceVars, own, target, scope, todo, visiting, failed,
                   rec, held, arc>>

(* A receipt, or TASK_CANCELLATION_PERSISTENCE_PENDING. *)
CancelReceipt(k) ==
    /\ req[k] = "each" /\ todo[k] = {}
    /\ \/ failed[k] /\ UNCHANGED <<db, failures>> /\ ReqTo(k, "pending")
       \/ ~ failed[k] /\ UNCHANGED <<db, failures>> /\ ReqTo(k, "receipt")
       \/ ~ failed[k] /\ DbFails /\ ReqTo(k, "refused")
    /\ UNCHANGED <<active, fenceVars, own, target, scope, todo, visiting, failed, rec, held, arc>>

CancelStep(k) ==
    \/ CancelInstall(k) \/ CancelRead(k) \/ CancelList(k)
    \/ CancelTarget(k) \/ CancelTargetDone(k) \/ CancelReceipt(k)
    \/ req[k] = "busy" /\ reconcile(Canceller(k), visiting[k])

----------------------------------------------------------------------------

ReaperStep(t, g) == reconcile(Reaper(t, g), t) \/ ReaperRetries(t, g)

Next ==
    \/ StartRoot \/ RootReread
    \/ \E t \in Tasks : OwnerStep(t) \/ \E g \in Entries : ReaperStep(t, g)
    \/ \E c \in Children : SubmitCheck(c) \/ ChildStep(c)
    \/ \E k \in Cancellers : CancelStep(k) \/ \E t \in Tasks : CancelBegin(k, t)

Spec == Init /\ [][Next]_vars

(* What happens by itself: the steps of tasks that are runnable.  User code *)
(* ends by itself only after its token is signalled; StopActive counts when *)
(* wait_for_parent_stop finds that the parent has stopped, a deadline may   *)
(* be arbitrarily far away.                                                 *)
Progress ==
    \/ RootReread
    \/ \E t \in Tasks : \/ OwnerStep(t) /\ (own[t] = "executing" => t \in token)
                        \/ \E g \in Entries : ReaperStep(t, g)
    \/ \E c \in Children :
          \/ ChildStep(c) /\ own[c] # "executing"
          \/ StopActive(c) /\ c \in Attached /\ db[Root] \in Stopped
    \/ \E k \in Cancellers : CancelStep(k)

(* The executor runs a runnable task while there is one.  That is weaker    *)
(* than fairness to every task and enough, as no task steps forever.        *)
FairSpec == Spec /\ WF_vars(Progress)

(* Types. *)
RecState == {"idle", "load", "try", "mark", "check", "remove", "ok", "err"}
TypeOK ==
    /\ db \in [Tasks -> {"absent", "queued", "running", "cancelling", "ended"}]
    /\ failures \in 0 .. MaxFailures
    /\ active \subseteq Tasks /\ token \subseteq Tasks
    /\ fence \in [Tasks -> {"none", "open", "reconciled"}]
    /\ gen \in [Tasks -> 0 .. MaxEntries]
    /\ own \in [Tasks -> {"none", "submitting", "created", "attached", "registered",
                          "checked", "claimed", "admitting", "executing", "stopping",
                          "ending", "reconciling", "committing", "releasing", "released",
                          "gone"}]
    /\ req \in [Cancellers -> {"idle", "local", "known", "each", "busy", "receipt", "pending",
                               "refused"}]
    /\ target \in [Cancellers -> Tasks] /\ visiting \in [Cancellers -> Tasks]
    /\ scope \in [Cancellers -> SUBSET Tasks]
    /\ todo \in [Cancellers -> SUBSET Tasks]
    /\ failed \in [Cancellers -> BOOLEAN]
    /\ rec \in [Procs -> RecState]
    /\ held \in [Procs -> 0 .. MaxEntries] /\ arc \in [Procs -> 0 .. MaxEntries]

(* Who reconciles the Run of t, if anybody does. *)
Reconcilers(t) == {Owner(t)} \cup {Reaper(t, g) : g \in Entries}
                  \cup {Canceller(k) : k \in {j \in Cancellers : visiting[j] = t}}

(* A receipt without an error means that the Task and every attached child  *)
(* that existed when the subtree was listed has durably stopped, whoever    *)
(* made it durable.                                                         *)
ReceiptIsDurable ==
    \A k \in Cancellers : req[k] = "receipt" => \A t \in scope[k] : db[t] \in Stopped

(* A reconciled entry whose owner is gone is about to be removed: the two   *)
(* sides of the hand-over (release_active leaves the map and then looks at  *)
(* the flag, reconcile sets the flag and then looks at the map) cannot both *)
(* leave it to the other, which would keep a dead Run's fence forever.      *)
FenceIsReleased ==
    \A t \in Tasks : fence[t] = "reconciled" /\ t \notin active =>
        \/ own[t] = "released"
        \/ \E p \in Reconcilers(t) : rec[p] \in {"check", "remove"}

(* A fence is an intent that becomes durable once the database accepts      *)
(* writes again, whether or not the request that put it up was told so.     *)
IntentBecomesDurable == \A t \in Tasks : fence[t] = "open" ~> db[t] \in Stopped

(* A stopped root takes its attached children with it: each of them ends or *)
(* never starts.                                                            *)
AttachedChildrenEnd ==
    \A c \in Attached : (db[Root] \in Stopped /\ own[c] # "none") ~> own[c] = "gone"

=============================================================================
