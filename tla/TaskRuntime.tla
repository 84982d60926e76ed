----------------------------- MODULE TaskRuntime -----------------------------
(***************************************************************************)
(* The durable task lifecycle of TaskRuntime V4 (crates/zk-db/src and       *)
(* crates/zk-engine/src/task): one conversation, its root Task and the      *)
(* child Tasks it delegates to.                                             *)
(*                                                                          *)
(* SQLite is the authority.  A writer transaction is one atomic step here;  *)
(* what the engine does between two transactions (a driver that read a Task *)
(* version and has not committed yet, a submission whose rows exist but     *)
(* whose driver is not attached) is process memory, kept in variables of    *)
(* its own and lost in a crash.                                             *)
(*                                                                          *)
(* The module projects the tables on their lifecycle columns and leaves     *)
(* budgets, usage, tool ledgers and cleanup confirmation out.  The          *)
(* in-memory cancellation fences that carry a request over a database       *)
(* failure are left out too: a request and its durable intent are one step. *)
(***************************************************************************)
EXTENDS Naturals, FiniteSets

CONSTANTS
    Root,        \* the conversation's root Task
    Children,    \* Tasks the root may delegate to
    Messages,    \* collaboration messages that may be sent
    Outcomes,    \* what an executor may return: result statuses
    Causes,      \* causes of an explicit cancellation
    Disturbances,\* what else may happen: "interaction" (a Run is parked for its user),
                 \* "refusal" (a claim or a commit is refused for a reason this module
                 \* leaves out), "shutdown", "crash"
    MaxAttempt,  \* bound: Runs per Task
    MaxEpoch     \* bound: process starts

ASSUME RuntimeAssumption ==
    /\ Root \notin Children
    /\ Outcomes \subseteq {"complete", "partial", "error", "cancelled"}
    /\ Causes \subseteq {"userCancelled", "timeout"}
    /\ Disturbances \subseteq {"interaction", "refusal", "shutdown", "crash"}
    /\ MaxAttempt \in Nat \ {0}
    /\ MaxEpoch \in Nat \ {0}

VARIABLES
    (* tasks *)
    task_status, version, current_run, lifecycle,
    (* run_envelopes *)
    run_status, requested_exit, exit_reason, run_epoch,
    (* task_results; task_result messages in the parent's transcript *)
    results, received,
    (* task_inbox_messages *)
    msg_status, msg_run,
    (* the root Run has a tool invocation that is open or unpaired *)
    tool_open,
    (* the process: shutdown phase and startup epoch *)
    phase, epoch,
    (* submit_child between its transaction and the driver's installation *)
    submit,
    (* the driver (root: executor) of a Task: program counter, its Run,     *)
    (* the executor's outcome, and the Task version and the status of the   *)
    (* write it is about to request                                         *)
    drv, own, out, ver, req,
    (* a resolver task is delivering this child's result to the root *)
    resolving

taskVars == <<task_status, version, current_run, lifecycle>>
runVars  == <<run_status, requested_exit, exit_reason, run_epoch>>
resVars  == <<results, received>>
msgVars  == <<msg_status, msg_run>>
procVars == <<phase, epoch>>
drvVars  == <<drv, own, out, ver, req>>
vars == <<taskVars, runVars, resVars, msgVars, tool_open, procVars, submit,
          drvVars, resolving>>

----------------------------------------------------------------------------

Tasks == {Root} \cup Children
Attempts == 1 .. MaxAttempt
Runs == Tasks \X Attempts

Active == {"queued", "running", "waitingDependencies", "waitingInteraction",
           "cancelling"}
TerminalTask == {"succeeded", "partial", "failed", "cancelled"}
TerminalRun == {"completed", "failed", "cancelled", "interrupted"}
ResultStatus == {"complete", "partial", "error", "cancelled"}
TaskStatus == {"absent", "needsAttention"} \cup Active \cup TerminalTask
RunStatus == {"absent"} \cup Active \cup TerminalRun
ExitCause == {"none", "userCancelled", "parentCancelled", "timeout", "serviceRestart"}
Open == {"queued", "delivered"}

Cur(t) == <<t, current_run[t]>>
Owned(t) == <<t, own[t]>>

(* A parent that wait_for_parent_stop and claim_task treat as stopped. *)
Stopped(t) == task_status[t] \in {"cancelling", "needsAttention"} \cup TerminalTask
ParentStopped(c) == c \in Children /\ lifecycle[c] = "attached" /\ Stopped(Root)

accepting_execution == phase = "up"
Alive == phase # "down"

(* The cancellation token of t's driver: signalled by a cancellation and by *)
(* the shutdown that has passed its intent boundary.                        *)
Signalled(t) == task_status[t] = "cancelling" \/ phase \in {"draining", "reconciled"}

TaskTarget(s) == CASE s = "complete"  -> "succeeded"
                   [] s = "partial"   -> "partial"
                   [] s = "error"     -> "failed"
                   [] s = "cancelled" -> "cancelled"
RunTarget(s) == CASE s \in {"complete", "partial"} -> "completed"
                  [] s = "error"     -> "failed"
                  [] s = "cancelled" -> "cancelled"

Init ==
    /\ task_status = [t \in Tasks |-> "absent"]
    /\ version = [t \in Tasks |-> 0]
    /\ current_run = [t \in Tasks |-> 1]
    /\ lifecycle = [t \in Tasks |-> "attached"]
    /\ run_status = [r \in Runs |-> "absent"]
    /\ requested_exit = [r \in Runs |-> "none"]
    /\ exit_reason = [r \in Runs |-> "none"]
    /\ run_epoch = [r \in Runs |-> 0]
    /\ results = {}
    /\ received = [c \in Children |-> 0]
    /\ msg_status = [m \in Messages |-> "none"]
    /\ msg_run = [m \in Messages |-> <<Root, 1>>]
    /\ tool_open = FALSE
    /\ phase = "up"
    /\ epoch = 1
    /\ submit = [c \in Children |-> FALSE]
    /\ drv = [t \in Tasks |-> "none"]
    /\ own = [t \in Tasks |-> 1]
    /\ out = [t \in Tasks |-> "none"]
    /\ ver = [t \in Tasks |-> 0]
    /\ req = [t \in Tasks |-> "none"]
    /\ resolving = [c \in Children |-> FALSE]

----------------------------------------------------------------------------
(* The local state of a driver. *)

(* It moves on with outcome o and no pending write. *)
DriverTo(t, pc, o) ==
    /\ drv' = [drv EXCEPT ![t] = pc]
    /\ out' = [out EXCEPT ![t] = o]
    /\ ver' = [ver EXCEPT ![t] = 0]
    /\ req' = [req EXCEPT ![t] = "none"]
    /\ UNCHANGED own

(* It attaches to the Task's current Run. *)
Attach(t, pc) ==
    /\ drv' = [drv EXCEPT ![t] = pc]
    /\ own' = [own EXCEPT ![t] = current_run[t]]
    /\ UNCHANGED <<out, ver, req>>

(* It prepares a write of status s against the version it has just read. *)
ReadVersion(t, pc, s) ==
    /\ drv' = [drv EXCEPT ![t] = pc]
    /\ ver' = [ver EXCEPT ![t] = version[t]]
    /\ req' = [req EXCEPT ![t] = s]
    /\ UNCHANGED <<own, out>>

(* The drivers of the Tasks in S are gone. *)
Release(S) ==
    /\ drv' = [t \in Tasks |-> IF t \in S THEN "none" ELSE drv[t]]
    /\ own' = [t \in Tasks |-> IF t \in S THEN 1 ELSE own[t]]
    /\ out' = [t \in Tasks |-> IF t \in S THEN "none" ELSE out[t]]
    /\ ver' = [t \in Tasks |-> IF t \in S THEN 0 ELSE ver[t]]
    /\ req' = [t \in Tasks |-> IF t \in S THEN "none" ELSE req[t]]

----------------------------------------------------------------------------
(* Admission. *)

(* start_root_run_with_budget: the root Task and its Run are born running,  *)
(* owned by the engine's executor.                                          *)
StartRoot ==
    /\ accepting_execution
    /\ task_status[Root] = "absent"
    /\ task_status' = [task_status EXCEPT ![Root] = "running"]
    /\ run_status' = [run_status EXCEPT ![Cur(Root)] = "running"]
    /\ run_epoch' = [run_epoch EXCEPT ![Cur(Root)] = epoch]
    /\ Attach(Root, "running")
    /\ UNCHANGED <<version, current_run, lifecycle, requested_exit, exit_reason,
                   resVars, msgVars, tool_open, procVars, submit, resolving>>

(* submit_child up to the commit of create_task_with_run, called by a tool  *)
(* of the root's Run.  An attached child parks the root in                  *)
(* waitingDependencies in the same transaction.                             *)
create_task_with_run(c, policy) ==
    /\ accepting_execution
    /\ drv[Root] = "running"
    /\ task_status[c] = "absent" /\ ~ submit[c]
    /\ current_run[Root] = own[Root]
    /\ task_status[Root] = run_status[Cur(Root)]
    /\ task_status[Root] \in {"queued", "running", "waitingDependencies"}
    /\ tool_open \/ task_status[Root] # "waitingDependencies"
    /\ LET parks == policy = "attached" /\ task_status[Root] # "waitingDependencies"
       IN  /\ task_status' = [task_status EXCEPT
                 ![c] = "queued",
                 ![Root] = IF parks THEN "waitingDependencies" ELSE @]
           /\ version' = [version EXCEPT ![Root] = IF parks THEN @ + 1 ELSE @]
           /\ run_status' = [run_status EXCEPT
                 ![Cur(c)] = "queued",
                 ![Cur(Root)] = IF parks THEN "waitingDependencies" ELSE @]
    /\ lifecycle' = [lifecycle EXCEPT ![c] = policy]
    /\ run_epoch' = [run_epoch EXCEPT ![Cur(c)] = epoch]
    /\ tool_open' = TRUE
    /\ submit' = [submit EXCEPT ![c] = TRUE]
    /\ UNCHANGED <<current_run, requested_exit, exit_reason, resVars, msgVars,
                   procVars, drvVars, resolving>>

(* The rest of submit_child: the Run is read again and a driver is          *)
(* installed if it is still queued ...                                      *)
AttachDriver(c) ==
    /\ submit[c]
    /\ run_status[Cur(c)] = "queued"
    /\ submit' = [submit EXCEPT ![c] = FALSE]
    /\ Attach(c, "queued")
    /\ UNCHANGED <<taskVars, runVars, resVars, msgVars, tool_open, procVars, resolving>>

(* ... and otherwise, or when that read fails, the caller gets its receipt  *)
(* or an error and nobody is installed.                                     *)
AttachObserved(c) ==
    /\ submit[c]
    /\ run_status[Cur(c)] # "queued" \/ "refusal" \in Disturbances
    /\ submit' = [submit EXCEPT ![c] = FALSE]
    /\ UNCHANGED <<taskVars, runVars, resVars, msgVars, tool_open, procVars,
                   drvVars, resolving>>

(* Every tool of the root's batch has its durable tool_result. *)
commit_tool_invocation_result ==
    /\ Alive /\ drv[Root] = "running" /\ tool_open
    /\ \A c \in Children : ~ submit[c]
    /\ tool_open' = FALSE
    /\ UNCHANGED <<taskVars, runVars, resVars, msgVars, procVars, submit,
                   drvVars, resolving>>

----------------------------------------------------------------------------
(* Cancellation intent. *)

Cancellable == {"queued", "running", "waitingDependencies", "waitingInteraction"}
(* Faulty: a second request overwrites the first cause. *)
CanCancelAgain(t) == task_status[t] \in Active /\ run_status[Cur(t)] \in Active

CanCancel(t) == task_status[t] \in Cancellable /\ run_status[Cur(t)] \in Cancellable

(* Faulty: a Run parked for its user is missed by the Run's UPDATE. *)
CancelMissesInteraction(t, cause) ==
    /\ task_status' = IF CanCancel(t) THEN [task_status EXCEPT ![t] = "cancelling"]
                                      ELSE task_status
    /\ version' = IF CanCancel(t) THEN [version EXCEPT ![t] = @ + 1] ELSE version
    /\ run_status' = IF CanCancel(t) /\ run_status[Cur(t)] # "waitingInteraction"
                     THEN [run_status EXCEPT ![Cur(t)] = "cancelling"] ELSE run_status
    /\ requested_exit' = IF CanCancel(t) THEN [requested_exit EXCEPT ![Cur(t)] = cause]
                                         ELSE requested_exit
    /\ UNCHANGED <<current_run, lifecycle, exit_reason, run_epoch>>

(* persist_cancelling: both rows move in one transaction and the Run        *)
(* records the first cause; a no-op for a Task that has already stopped.    *)
persist_cancelling(t, cause) ==
    /\ task_status' = IF CanCancel(t) THEN [task_status EXCEPT ![t] = "cancelling"]
                                      ELSE task_status
    /\ version' = IF CanCancel(t) THEN [version EXCEPT ![t] = @ + 1] ELSE version
    /\ run_status' = IF CanCancel(t) THEN [run_status EXCEPT ![Cur(t)] = "cancelling"]
                                     ELSE run_status
    /\ requested_exit' = IF CanCancel(t) THEN [requested_exit EXCEPT ![Cur(t)] = cause]
                                         ELSE requested_exit
    /\ UNCHANGED <<current_run, lifecycle, exit_reason, run_epoch>>

(* cancel_scoped on one Task: a user's stop, TaskStop or a root deadline. *)
CancelTask(t, cause) ==
    /\ Alive /\ CanCancel(t)
    /\ persist_cancelling(t, cause)
    /\ UNCHANGED <<resVars, msgVars, tool_open, procVars, submit, drvVars, resolving>>

(* The cascade of cancel_scoped over the attached subtree: one transaction  *)
(* per child, after the parent's.                                           *)
CascadeCancel(c) ==
    /\ Alive /\ CanCancel(c)
    /\ lifecycle[c] = "attached" /\ task_status[Root] = "cancelling"
    /\ persist_cancelling(c, "parentCancelled")
    /\ UNCHANGED <<resVars, msgVars, tool_open, procVars, submit, drvVars, resolving>>

----------------------------------------------------------------------------
(* The driver of a child: drive_task and claim_task. *)

(* claim_task reads the Task and then its parent; neither read is repeated  *)
(* by the transaction that follows.                                         *)
ClaimRead(c) ==
    /\ Alive /\ drv[c] = "queued"
    /\ ~ Signalled(c) /\ ~ Stopped(c) /\ ~ ParentStopped(c)
    /\ ReadVersion(c, "checked", "none")
    /\ UNCHANGED <<taskVars, runVars, resVars, msgVars, tool_open, procVars,
                   submit, resolving>>

CanClaim(c) == version[c] = ver[c] /\ task_status[c] = "queued" /\ run_status[Cur(c)] = "queued"

claim_task_run(c) ==
    /\ Alive /\ drv[c] = "checked" /\ CanClaim(c)
    /\ task_status' = [task_status EXCEPT ![c] = "running"]
    /\ version' = [version EXCEPT ![c] = @ + 1]
    /\ run_status' = [run_status EXCEPT ![Cur(c)] = "running"]
    /\ DriverTo(c, "running", "none")
    /\ UNCHANGED <<current_run, lifecycle, requested_exit, exit_reason, run_epoch,
                   resVars, msgVars, tool_open, procVars, submit, resolving>>

ClaimConflict(c) ==
    /\ Alive /\ drv[c] = "checked" /\ ~ CanClaim(c)
    /\ DriverTo(c, "queued", "none")
    /\ UNCHANGED <<taskVars, runVars, resVars, msgVars, tool_open, procVars,
                   submit, resolving>>

(* The driver gives up before it executes: its token is signalled, claim_task *)
(* returned false for a stop it saw, or its database call failed.             *)
ClaimRefused(c) ==
    /\ accepting_execution /\ drv[c] \in {"queued", "checked"}
    /\ Signalled(c) \/ Stopped(c) \/ ParentStopped(c) \/ "refusal" \in Disturbances
    /\ DriverTo(c, "reap", "cancelled")
    /\ UNCHANGED <<taskVars, runVars, resVars, msgVars, tool_open, procVars,
                   submit, resolving>>

(* ... or its deadline, or its parent's stop, which it makes durable first. *)
QueuedStop(c) ==
    /\ accepting_execution /\ drv[c] = "queued"
    /\ \/ persist_cancelling(c, "timeout") /\ DriverTo(c, "reap", "error")
       \/ /\ ParentStopped(c)
          /\ persist_cancelling(c, "parentCancelled") /\ DriverTo(c, "reap", "cancelled")
    /\ UNCHANGED <<resVars, msgVars, tool_open, procVars, submit, resolving>>

(* While the process shuts down a driver that has not claimed lets go. *)
QueuedRelease(c) ==
    /\ Alive /\ ~ accepting_execution /\ drv[c] \in {"queued", "checked"}
    /\ Release({c})
    /\ UNCHANGED <<taskVars, runVars, resVars, msgVars, tool_open, procVars,
                   submit, resolving>>

(* Faulty: the root may finish a turn without a safe boundary. *)
ExecReturnsAnywhere(t, o) ==
    /\ Alive /\ drv[t] = "running"
    /\ DriverTo(t, "reap", o)
    /\ UNCHANGED <<taskVars, runVars, resVars, msgVars, tool_open, procVars,
                   submit, resolving>>

(* The executor returns, or (cancelled) was never admitted because the      *)
(* token was signalled right after the claim.  The root's loop finishes a   *)
(* turn with success only at a safe boundary where it saw its Task running, *)
(* i.e. every attached child consumed                                       *)
(* (wait_for_attached_children_at_safe_boundary).                           *)
ExecReturns(t, o) ==
    /\ Alive /\ drv[t] = "running"
    /\ (t = Root /\ o = "complete") => (~ tool_open /\ task_status[Root] = "running")
    /\ DriverTo(t, "reap", o)
    /\ UNCHANGED <<taskVars, runVars, resVars, msgVars, tool_open, procVars,
                   submit, resolving>>

(* The child's deadline, or its attached parent's stop, ends the execution: *)
(* the intent is made durable, the token is signalled ...                   *)
ExecStop(c) ==
    /\ Alive /\ drv[c] = "running"
    /\ \/ persist_cancelling(c, "timeout") /\ DriverTo(c, "stopping", "error")
       \/ /\ ParentStopped(c)
          /\ persist_cancelling(c, "parentCancelled") /\ DriverTo(c, "stopping", "cancelled")
    /\ UNCHANGED <<resVars, msgVars, tool_open, procVars, submit, resolving>>

(* ... and await_cleanup_or_reap returns: the requested outcome, or partial *)
(* text (a cleanup that missed its grace, or text a timeout left behind).   *)
await_cleanup_or_reap(c) ==
    /\ Alive /\ drv[c] = "stopping"
    /\ \E o \in {out[c], "partial"} : DriverTo(c, "reap", o)
    /\ UNCHANGED <<taskVars, runVars, resVars, msgVars, tool_open, procVars,
                   submit, resolving>>

(* A signalled executor.  A child that drains during a shutdown leaves its  *)
(* Run to the reconciler; the root goes to its terminalization, which       *)
(* looks at the persisted cause itself.                                     *)
ExecCancelled(t) ==
    /\ Alive /\ drv[t] = "running" /\ Signalled(t)
    /\ IF t = Root \/ accepting_execution
       THEN \E o \in IF t = Root THEN {"cancelled"}
                    ELSE {"partial", IF requested_exit[Owned(t)] = "timeout"
                                     THEN "error" ELSE "cancelled"} :
               DriverTo(t, "reap", o)
       ELSE Release({t})
    /\ UNCHANGED <<taskVars, runVars, resVars, msgVars, tool_open, procVars,
                   submit, resolving>>

(* transition_in_current_write, without an exit reason. *)
transition(r, expected, status) ==
    /\ run_status[r] = expected
    /\ run_status' = [run_status EXCEPT ![r] = status]

(* An interaction request parks the Run, and only the Run; its decision     *)
(* resumes it.                                                              *)
mark_waiting(t) ==
    /\ "interaction" \in Disturbances
    /\ Alive /\ drv[t] = "running"
    /\ transition(Cur(t), "running", "waitingInteraction")
    /\ UNCHANGED <<taskVars, requested_exit, exit_reason, run_epoch, resVars, msgVars,
                   tool_open, procVars, submit, drvVars, resolving>>

mark_running(t) ==
    /\ Alive /\ transition(Cur(t), "waitingInteraction", "running")
    /\ UNCHANGED <<taskVars, requested_exit, exit_reason, run_epoch, resVars, msgVars,
                   tool_open, procVars, submit, drvVars, resolving>>

----------------------------------------------------------------------------
(* Terminalization: commit_outcome / commit_root_task_result_with_usage and *)
(* the transaction commit_task_result_inner.                                *)

(* The root's scope cleanup, its cleanup ledger or its final Assistant       *)
(* message failed before a commit was tried.                                *)
RootCleanupFails ==
    /\ Alive /\ drv[Root] = "reap" /\ "refusal" \in Disturbances
    /\ DriverTo(Root, "attention", out[Root])
    /\ UNCHANGED <<taskVars, runVars, resVars, msgVars, tool_open, procVars,
                   submit, resolving>>

(* Faulty: the persisted cause leaks into the result status. *)
NormalizedLeaksCause(t, o, cause) == {IF cause = "userCancelled" THEN cause ELSE o}

(* The statuses a carried outcome may be committed under, given the cause   *)
(* persisted on the Run: a timeout keeps what text there is, a user's       *)
(* cancellation overrides success, and a cleanup that cannot be confirmed   *)
(* turns success and cancellation into a partial result.                    *)
Overridable == {"complete", "cancelled"}
Normalized(t, o, cause) ==
    LET caused == CASE cause = "timeout" /\ t = Root -> {"error"}
                    [] cause = "timeout" /\ t # Root /\ o \in Overridable -> {"partial", "error"}
                    [] cause = "userCancelled" /\ (t = Root \/ o \in Overridable) -> {"cancelled"}
                    [] OTHER -> {o}
    IN  caused \cup (IF caused \cap Overridable # {} THEN {"partial"} ELSE {})

(* The finalizer finds the Task settled or quarantined already, or, for the *)
(* root, finds that the shutdown owns the Run (RestartDeferred).            *)
ReapObserved(t) ==
    /\ Alive /\ drv[t] = "reap"
    /\ \/ task_status[t] \in {"needsAttention"} \cup TerminalTask
       \/ t = Root /\ requested_exit[Owned(t)] = "serviceRestart"
    /\ Release({t})
    /\ UNCHANGED <<taskVars, runVars, resVars, msgVars, tool_open, procVars,
                   submit, resolving>>

(* It reads the Task version and then the Run's cause ... *)
CommitRead(t) ==
    /\ Alive /\ drv[t] = "reap"
    /\ task_status[t] \notin {"needsAttention"} \cup TerminalTask
    /\ ~ (t = Root /\ requested_exit[Owned(t)] = "serviceRestart")
    /\ \E s \in Normalized(t, out[t], requested_exit[Owned(t)]) : ReadVersion(t, "commit", s)
    /\ UNCHANGED <<taskVars, runVars, resVars, msgVars, tool_open, procVars,
                   submit, resolving>>

(* Faulty: the commit only looks for a terminal Task. *)
FreshVersionIgnored(t) == task_status[t] \notin TerminalTask

(* ... and the transaction refuses a version that has moved on ...          *)
FreshVersion(t) == task_status[t] \notin TerminalTask /\ version[t] = ver[t]

(* Faulty: the finalizer gives up on a version conflict. *)
CommitConflictGivesUp(t) ==
    /\ Alive /\ drv[t] = "commit"
    /\ ~ FreshVersion(t)
    /\ Release({t})
    /\ UNCHANGED <<taskVars, runVars, resVars, msgVars, tool_open, procVars,
                   submit, resolving>>

CommitConflict(t) ==
    /\ Alive /\ drv[t] = "commit"
    /\ ~ FreshVersion(t)
    /\ DriverTo(t, "reap", out[t])
    /\ UNCHANGED <<taskVars, runVars, resVars, msgVars, tool_open, procVars,
                   submit, resolving>>

(* ... a Run that is not the Task's, that a shutdown owns, or that is       *)
(* already terminal.                                                        *)
Committable(t) ==
    /\ current_run[t] = own[t]
    /\ requested_exit[Owned(t)] # "serviceRestart"
    /\ run_status[Owned(t)] \in Active

(* It may refuse any other commit too, for what this module leaves out: a   *)
(* pending tool post-processing, and for a success unsettled usage or a     *)
(* missing final Assistant message.  A refusal is permanent for a child's   *)
(* finalizer; the root's retries and re-reads the cause, and gives up after *)
(* its retries are exhausted.                                               *)
CommitRefused(t) ==
    /\ Alive /\ drv[t] = "commit"
    /\ FreshVersion(t)
    /\ ~ Committable(t) \/ "refusal" \in Disturbances
    /\ DriverTo(t, IF t = Root /\ ~ Committable(t) THEN "reap" ELSE "attention", out[t])
    /\ UNCHANGED <<taskVars, runVars, resVars, msgVars, tool_open, procVars,
                   submit, resolving>>

(* Faulty: a delivered message counts as answered. *)
RejectQueuedOnly(r) ==
    msg_status' = [m \in Messages |->
        IF msg_run[m] = r /\ msg_status[m] = "queued" THEN "rejected" ELSE msg_status[m]]

(* reject_pending_for_run *)
reject_pending_for_run(r) ==
    msg_status' = [m \in Messages |->
        IF msg_run[m] = r /\ msg_status[m] \in Open THEN "rejected" ELSE msg_status[m]]

(* The exit reason of a committed Run: a cancellation keeps its persisted   *)
(* cause (a partial result does so when its cleanup is unconfirmed), and    *)
(* "result" stands for the reasons derived from the result's error code.    *)
result_exit_reason(s, cause) ==
    LET cancelled == IF cause = "none" THEN "userCancelled" ELSE cause
    IN  CASE s = "cancelled" -> {cancelled}
          [] s = "partial"   -> {"result", cancelled}
          [] OTHER           -> {"result"}

(* Faulty: the result is inserted before the Task's version is compared. *)
CommitNotAtomic(t) ==
    /\ Alive /\ drv[t] = "commit"
    /\ Committable(t)
    /\ results' = results \cup {[task |-> t, attempt |-> own[t], status |-> req[t]]}
    /\ DriverTo(t, "reap", out[t])
    /\ UNCHANGED <<taskVars, runVars, received, msgVars, tool_open, procVars,
                   submit, resolving>>

(* The immutable result, both terminal rows and the closed inbox commit     *)
(* together; a child's result is then handed to a resolver.                 *)
commit_task_result(t) ==
    /\ Alive /\ drv[t] = "commit"
    /\ FreshVersion(t) /\ Committable(t)
    /\ results' = results \cup {[task |-> t, attempt |-> own[t], status |-> req[t]]}
    /\ task_status' = [task_status EXCEPT ![t] = TaskTarget(req[t])]
    /\ version' = [version EXCEPT ![t] = @ + 1]
    /\ run_status' = [run_status EXCEPT ![Owned(t)] = RunTarget(req[t])]
    /\ \E e \in result_exit_reason(req[t], requested_exit[Owned(t)]) :
          /\ exit_reason' = [exit_reason EXCEPT ![Owned(t)] = e]
          /\ requested_exit' = [requested_exit EXCEPT ![Owned(t)] =
                IF @ = "none" /\ e = "userCancelled" THEN e ELSE @]
    /\ reject_pending_for_run(Owned(t))
    /\ Release({t})
    /\ resolving' = [c \in Children |->
          resolving[c] \/ (c = t /\ lifecycle[c] = "attached")]
    /\ UNCHANGED <<current_run, lifecycle, run_epoch, received, msg_run, tool_open,
                   procVars, submit>>

(* persist_commit_failure_as_needs_attention (a child) and                  *)
(* mark_task_run_needs_attention (the root).  Only the latter closes the    *)
(* inbox.                                                                   *)
mark_needs_attention(t) ==
    /\ Alive /\ drv[t] = "attention"
    /\ current_run[t] = own[t]
    /\ task_status[t] \in Active /\ run_status[Owned(t)] \in Active
    /\ task_status' = [task_status EXCEPT ![t] = "needsAttention"]
    /\ version' = [version EXCEPT ![t] = @ + 1]
    /\ run_status' = [run_status EXCEPT ![Owned(t)] = "interrupted"]
    /\ exit_reason' = [exit_reason EXCEPT ![Owned(t)] = "internalError"]
    /\ IF t = Root THEN reject_pending_for_run(Owned(t)) ELSE UNCHANGED msg_status
    /\ Release({t})
    /\ UNCHANGED <<current_run, lifecycle, requested_exit, run_epoch, resVars, msg_run,
                   tool_open, procVars, submit, resolving>>

(* The diagnosis finds the Task quarantined or settled by someone else. *)
AttentionObserved(t) ==
    /\ Alive /\ drv[t] = "attention"
    /\ task_status[t] \in {"needsAttention"} \cup TerminalTask
    /\ Release({t})
    /\ UNCHANGED <<taskVars, runVars, resVars, msgVars, tool_open, procVars,
                   submit, resolving>>

----------------------------------------------------------------------------
(* resolve_parent: a child's result reaches the root's transcript. *)

(* Faulty: a child that has ended counts, whether or not it was consumed. *)
UnresolvedIgnoresReceipts(d) ==
    {c \in Children \ {d} : /\ task_status[c] # "absent" /\ lifecycle[c] = "attached"
                            /\ task_status[c] \notin TerminalTask}

(* Faulty: the child being consumed still counts. *)
UnresolvedCountsSelf(d) ==
    {c \in Children : /\ task_status[c] # "absent" /\ lifecycle[c] = "attached"
                      /\ task_status[c] \notin TerminalTask \/ received[c] = 0}

(* The attached children the root still waits for once d is consumed. *)
Unresolved(d) ==
    {c \in Children \ {d} : /\ task_status[c] # "absent" /\ lifecycle[c] = "attached"
                            /\ task_status[c] \notin TerminalTask \/ received[c] = 0}

(* Faulty: a late result still reaches, and wakes, a cancelling root. *)
IngestWakesCancelling(c) ==
    /\ Alive /\ resolving[c]
    /\ task_status[Root] \in {"waitingDependencies", "cancelling"}
    /\ received' = [received EXCEPT ![c] = @ + 1]
    /\ resolving' = [resolving EXCEPT ![c] = FALSE]
    /\ task_status' = [task_status EXCEPT ![Root] = "running"]
    /\ version' = [version EXCEPT ![Root] = @ + 1]
    /\ run_status' = [run_status EXCEPT ![Cur(Root)] = "running"]
    /\ UNCHANGED <<current_run, lifecycle, requested_exit, exit_reason, run_epoch,
                   results, msgVars, tool_open, procVars, submit, drvVars>>

(* ingest_task_result_at_safe_boundary: message, receipt and, with the last *)
(* dependency, the wakeup, in one transaction.                              *)
ingest_task_result(c) ==
    /\ Alive /\ resolving[c]
    /\ received[c] = 0
    /\ task_status[Root] = "waitingDependencies" /\ ~ tool_open
    /\ received' = [received EXCEPT ![c] = @ + 1]
    /\ resolving' = [resolving EXCEPT ![c] = FALSE]
    /\ IF Unresolved(c) = {}
       THEN /\ run_status[Cur(Root)] = "waitingDependencies"
            /\ task_status' = [task_status EXCEPT ![Root] = "running"]
            /\ version' = [version EXCEPT ![Root] = @ + 1]
            /\ run_status' = [run_status EXCEPT ![Cur(Root)] = "running"]
       ELSE UNCHANGED <<task_status, version, run_status>>
    /\ UNCHANGED <<current_run, lifecycle, requested_exit, exit_reason, run_epoch,
                   results, msgVars, tool_open, procVars, submit, drvVars>>

(* Faulty: the resolver treats "not yet" (an open tool) as "never". *)
ResolverQuitsEarly(c) ==
    /\ Alive /\ resolving[c]
    /\ task_status[Root] # "waitingDependencies" \/ tool_open
    /\ resolving' = [resolving EXCEPT ![c] = FALSE]
    /\ UNCHANGED <<taskVars, runVars, resVars, msgVars, tool_open, procVars,
                   submit, drvVars>>

(* The resolver gives up on a root that does not wait for dependencies. *)
ResolverQuits(c) ==
    /\ Alive /\ resolving[c]
    /\ task_status[Root] # "waitingDependencies"
    /\ resolving' = [resolving EXCEPT ![c] = FALSE]
    /\ UNCHANGED <<taskVars, runVars, resVars, msgVars, tool_open, procVars,
                   submit, drvVars>>

----------------------------------------------------------------------------
(* The durable inbox. *)

AcceptsMessages(t) ==
    /\ task_status[t] \in Cancellable
    /\ run_status[Cur(t)] \in Cancellable
    /\ requested_exit[Cur(t)] = "none"

enqueue_task_message(m, t) ==
    /\ Alive /\ msg_status[m] = "none"
    /\ AcceptsMessages(t)
    /\ msg_status' = [msg_status EXCEPT ![m] = "queued"]
    /\ msg_run' = [msg_run EXCEPT ![m] = Cur(t)]
    /\ UNCHANGED <<taskVars, runVars, resVars, tool_open, procVars, submit,
                   drvVars, resolving>>

(* mark_task_inbox_message: the process mailbox was told of the message. *)
mark_delivered(m) ==
    /\ Alive /\ msg_status[m] = "queued"
    /\ msg_status' = [msg_status EXCEPT ![m] = "delivered"]
    /\ UNCHANGED <<taskVars, runVars, resVars, msg_run, tool_open, procVars, submit,
                   drvVars, resolving>>

(* consume_task_inbox_at_boundary: the executor appends every open message  *)
(* of its own current Run to the transcript.                                *)
consume_task_inbox(t) ==
    /\ Alive /\ drv[t] = "running"
    /\ current_run[t] = own[t]
    /\ AcceptsMessages(t) /\ task_status[t] # "queued" /\ run_status[Cur(t)] # "queued"
    /\ \E m \in Messages : msg_run[m] = Cur(t) /\ msg_status[m] \in Open
    /\ msg_status' = [m \in Messages |->
          IF msg_run[m] = Cur(t) /\ msg_status[m] \in Open THEN "consumed" ELSE msg_status[m]]
    /\ UNCHANGED <<taskVars, runVars, resVars, msg_run, tool_open, procVars, submit,
                   drvVars, resolving>>

----------------------------------------------------------------------------
(* Shutdown, crash and restart. *)

ActiveRuns == {r \in Runs : run_status[r] \in Active}

(* Both database-wide sweeps abort when an active Run is not the current    *)
(* attempt of an active Task.                                               *)
SweepMatches == \A r \in ActiveRuns : Cur(r[1]) = r /\ task_status[r[1]] \in Active

(* begin_shutdown_inner: intake closes first ... *)
CloseIntake ==
    /\ phase = "up" /\ "shutdown" \in Disturbances
    /\ phase' = "closing"
    /\ UNCHANGED <<taskVars, runVars, resVars, msgVars, tool_open, epoch, submit,
                   drvVars, resolving>>

(* ... submissions that passed the gate finish (the write guard), the       *)
(* intent of every active Run is made durable and the tokens are signalled. *)
request_runtime_shutdown ==
    /\ phase = "closing"
    /\ \A c \in Children : ~ submit[c]
    /\ SweepMatches
    /\ phase' = "draining"
    /\ task_status' = [t \in Tasks |-> IF Cur(t) \in ActiveRuns THEN "cancelling" ELSE task_status[t]]
    /\ version' = [t \in Tasks |-> IF Cur(t) \in ActiveRuns THEN version[t] + 1 ELSE version[t]]
    /\ run_status' = [r \in Runs |-> IF r \in ActiveRuns THEN "cancelling" ELSE run_status[r]]
    /\ requested_exit' = [r \in Runs |-> IF r \in ActiveRuns THEN "serviceRestart" ELSE requested_exit[r]]
    /\ UNCHANGED <<current_run, lifecycle, exit_reason, run_epoch, resVars, msgVars,
                   tool_open, epoch, submit, drvVars, resolving>>

(* A failed intent write does not stop the process-local cancellation. *)
ShutdownIntentFails ==
    /\ phase = "closing"
    /\ \A c \in Children : ~ submit[c]
    /\ phase' = "draining"
    /\ UNCHANGED <<taskVars, runVars, resVars, msgVars, tool_open, epoch, submit,
                   drvVars, resolving>>

(* reconcile_runtime_after_restart: every active Run is interrupted, its    *)
(* Task quarantined, and the inbox of every terminal Run closed.            *)
reconcile_runtime ==
    /\ SweepMatches
    /\ task_status' = [t \in Tasks |-> IF Cur(t) \in ActiveRuns THEN "needsAttention" ELSE task_status[t]]
    /\ version' = [t \in Tasks |-> IF Cur(t) \in ActiveRuns THEN version[t] + 1 ELSE version[t]]
    /\ run_status' = [r \in Runs |-> IF r \in ActiveRuns THEN "interrupted" ELSE run_status[r]]
    /\ exit_reason' = [r \in Runs |-> IF r \in ActiveRuns THEN "serviceRestart" ELSE exit_reason[r]]
    /\ msg_status' = [m \in Messages |->
          IF msg_status[m] \in Open /\ run_status'[msg_run[m]] \in TerminalRun
          THEN "rejected" ELSE msg_status[m]]
    /\ UNCHANGED <<current_run, lifecycle, requested_exit, run_epoch, resVars, msg_run,
                   tool_open>>

(* finish_shutdown_inner: the drain ends, by itself or by its deadline, the *)
(* rows are reconciled while late drivers may still be at work ...          *)
ShutdownReconcile ==
    /\ phase = "draining"
    /\ phase' = "reconciled"
    /\ reconcile_runtime
    /\ UNCHANGED <<epoch, submit, drvVars, resolving>>

(* ... stuck owners are recorded (mark_shutdown_cleanup_unconfirmed) and    *)
(* aborted, and the process ends.                                           *)
ShutdownAbort ==
    /\ phase = "reconciled"
    /\ phase' = "down"
    /\ version' = [t \in Tasks |->
          IF drv[t] # "none" /\ run_status[Cur(t)] = "interrupted" /\ exit_reason[Cur(t)] = "serviceRestart"
          THEN version[t] + 1 ELSE version[t]]
    /\ Release(Tasks)
    /\ resolving' = [c \in Children |-> FALSE]
    /\ UNCHANGED <<task_status, current_run, lifecycle, runVars, resVars, msgVars,
                   tool_open, epoch, submit>>

(* A crash loses the process memory and nothing else. *)
Crash ==
    /\ Alive /\ epoch < MaxEpoch /\ "crash" \in Disturbances
    /\ phase' = "down"
    /\ submit' = [c \in Children |-> FALSE]
    /\ Release(Tasks)
    /\ resolving' = [c \in Children |-> FALSE]
    /\ UNCHANGED <<taskVars, runVars, resVars, msgVars, tool_open, epoch>>

(* main: begin_runtime_startup_epoch, then reconciliation, then intake. *)
Restart ==
    /\ phase = "down" /\ epoch < MaxEpoch
    /\ phase' = "up"
    /\ epoch' = epoch + 1
    /\ reconcile_runtime
    /\ UNCHANGED <<submit, drvVars, resolving>>

(* Faulty: recovery without the proof that the owner's process has ended. *)
RecoveryIgnoresEpoch(c) ==
    LET next == <<c, current_run[c] + 1>>
    IN  /\ Alive /\ current_run[c] < MaxAttempt
        /\ task_status[c] = "needsAttention" /\ run_status[Cur(c)] = "interrupted"
        /\ task_status' = [task_status EXCEPT ![c] = "queued"]
        /\ version' = [version EXCEPT ![c] = @ + 1]
        /\ current_run' = [current_run EXCEPT ![c] = @ + 1]
        /\ run_status' = [run_status EXCEPT ![next] = "queued"]
        /\ run_epoch' = [run_epoch EXCEPT ![next] = epoch]
        /\ UNCHANGED <<lifecycle, requested_exit, exit_reason, resVars, msgVars,
                       tool_open, procVars, submit, drvVars, resolving>>

(* A Run that a shutdown or a crash of an earlier process interrupted, with *)
(* nothing pending.  Proofs of cleanup, usage, budget and checkpoint are    *)
(* left out: any of them may refuse.                                        *)
assess_candidate(c) ==
    /\ task_status[c] = "needsAttention"
    /\ run_status[Cur(c)] = "interrupted" /\ exit_reason[Cur(c)] = "serviceRestart"
    /\ run_epoch[Cur(c)] < epoch
    /\ ~ \E m \in Messages : msg_run[m][1] = c /\ msg_status[m] \in Open
    /\ ~ \E res \in results : res.task = c

(* create_safe_recovery_attempt: a quarantined child gets attempt + 1. *)
create_safe_recovery_attempt(c) ==
    LET next == <<c, current_run[c] + 1>>
    IN  /\ Alive /\ current_run[c] < MaxAttempt
        /\ assess_candidate(c)
        /\ task_status' = [task_status EXCEPT ![c] = "queued"]
        /\ version' = [version EXCEPT ![c] = @ + 1]
        /\ current_run' = [current_run EXCEPT ![c] = @ + 1]
        /\ run_status' = [run_status EXCEPT ![next] = "queued"]
        /\ run_epoch' = [run_epoch EXCEPT ![next] = epoch]
        /\ UNCHANGED <<lifecycle, requested_exit, exit_reason, resVars, msgVars,
                       tool_open, procVars, submit, drvVars, resolving>>

(* dispatch_precreated_recovery attaches it to the same driver. *)
dispatch_precreated_recovery(c) ==
    /\ accepting_execution
    /\ task_status[c] = "queued" /\ run_status[Cur(c)] = "queued"
    /\ current_run[c] > 1 /\ drv[c] = "none"
    /\ Attach(c, "queued")
    /\ UNCHANGED <<taskVars, runVars, resVars, msgVars, tool_open, procVars, submit, resolving>>

----------------------------------------------------------------------------

DriverStep(c) ==
    \/ AttachDriver(c) \/ AttachObserved(c)
    \/ ClaimRead(c) \/ claim_task_run(c) \/ ClaimConflict(c) \/ ClaimRefused(c)
    \/ QueuedStop(c) \/ QueuedRelease(c)
    \/ ExecStop(c) \/ await_cleanup_or_reap(c)

ExecutorStep(t) == ExecCancelled(t) \/ \E o \in Outcomes : ExecReturns(t, o)

FinalizerStep(t) ==
    \/ ReapObserved(t) \/ CommitRead(t)
    \/ CommitConflict(t) \/ CommitRefused(t) \/ commit_task_result(t)
    \/ mark_needs_attention(t) \/ AttentionObserved(t)

ResolverStep(c) == ingest_task_result(c) \/ ResolverQuits(c)

ProcessStep ==
    \/ CloseIntake \/ request_runtime_shutdown \/ ShutdownIntentFails
    \/ ShutdownReconcile \/ ShutdownAbort \/ Crash \/ Restart

Next ==
    \/ StartRoot \/ commit_tool_invocation_result \/ RootCleanupFails
    \/ \E c \in Children, policy \in {"attached", "detached"} : create_task_with_run(c, policy)
    \/ \E t \in Tasks, cause \in Causes : CancelTask(t, cause)
    \/ \E t \in Tasks : \/ ExecutorStep(t) \/ FinalizerStep(t)
                        \/ mark_waiting(t) \/ mark_running(t)
                        \/ consume_task_inbox(t)
                        \/ \E m \in Messages : enqueue_task_message(m, t)
    \/ \E c \in Children : \/ DriverStep(c) \/ ResolverStep(c) \/ CascadeCancel(c)
                           \/ create_safe_recovery_attempt(c)
                           \/ dispatch_precreated_recovery(c)
    \/ \E m \in Messages : mark_delivered(m)
    \/ ProcessStep

Spec == Init /\ [][Next]_vars

TypeOK ==
    /\ task_status \in [Tasks -> TaskStatus]
    /\ version \in [Tasks -> Nat]
    /\ current_run \in [Tasks -> Attempts]
    /\ lifecycle \in [Tasks -> {"attached", "detached"}]
    /\ run_status \in [Runs -> RunStatus]
    /\ requested_exit \in [Runs -> ExitCause]
    /\ exit_reason \in [Runs -> ExitCause \cup {"internalError", "result"}]
    /\ run_epoch \in [Runs -> 0 .. MaxEpoch]
    /\ results \subseteq [task : Tasks, attempt : Attempts, status : ResultStatus]
    /\ received \in [Children -> Nat]
    /\ msg_status \in [Messages -> {"none", "queued", "delivered", "consumed", "rejected"}]
    /\ msg_run \in [Messages -> Runs]
    /\ tool_open \in BOOLEAN
    /\ phase \in {"up", "closing", "draining", "reconciled", "down"}
    /\ epoch \in 1 .. MaxEpoch
    /\ submit \in [Children -> BOOLEAN]
    /\ drv \in [Tasks -> {"none", "queued", "checked", "running", "stopping", "reap",
                          "commit", "attention"}]
    /\ own \in [Tasks -> Attempts]
    /\ out \in [Tasks -> ResultStatus \cup {"none"}]
    /\ ver \in [Tasks -> Nat]
    /\ req \in [Tasks -> ResultStatus \cup {"none"}]
    /\ resolving \in [Children -> BOOLEAN]

----------------------------------------------------------------------------
(* Safety. *)

Mine(t) == {res \in results : res.task = t}

(* A Task is terminal exactly when it has a result, it has one, of its      *)
(* current attempt, and the Task's and the Run's terminal statuses are that *)
(* result's: commit_task_result_inner and every path that races it.         *)
ResultMatchesTerminal ==
    \A t \in Tasks :
        IF task_status[t] \in TerminalTask
        THEN \E s \in ResultStatus :
                /\ Mine(t) = {[task |-> t, attempt |-> current_run[t], status |-> s]}
                /\ task_status[t] = TaskTarget(s)
                /\ run_status[Cur(t)] = RunTarget(s)
        ELSE Mine(t) = {}

(* The run row a task row may be paired with; an interaction moves only the *)
(* Run.                                                                     *)
Paired(ts, rs) ==
    \/ ts \in Active \ {"waitingInteraction"} /\ rs = ts
    \/ ts = "running" /\ rs = "waitingInteraction"
    \/ ts = "absent" /\ rs = "absent"
    \/ ts = "needsAttention" /\ rs = "interrupted"
    \/ ts \in TerminalTask /\ rs \in TerminalRun \ {"interrupted"}

(* The two rows that every transition updates by separate statements agree, *)
(* and no Run but the current attempt is ever active.  It is what the two   *)
(* database-wide sweeps rely on: a mismatch makes request_runtime_shutdown  *)
(* and, at every later start, reconcile_runtime_after_restart abort.        *)
PairAgreement ==
    /\ \A t \in Tasks : Paired(task_status[t], run_status[Cur(t)])
    /\ \A r \in ActiveRuns : r = Cur(r[1])
    /\ SweepMatches

(* A driver works on its Task's current attempt: no executor survives into  *)
(* the attempt that safe recovery creates after it.                         *)
OwnerIsCurrent ==
    \A t \in Tasks : drv[t] # "none" => /\ own[t] = current_run[t]
                                       /\ task_status[t] # "absent"

(* Success is never published over a user's cancellation, a deadline or a   *)
(* shutdown that was durable first, whichever future was polled first; and  *)
(* a shutdown-owned Run never gets a result of any kind.                    *)
CauseWins ==
    \A res \in results :
        LET cause == requested_exit[<<res.task, res.attempt>>]
        IN  /\ cause # "serviceRestart"
            /\ res.status = "complete" => cause \notin {"userCancelled", "timeout"}

(* A root that is awake, or that succeeded, has each attached child's       *)
(* result in its transcript exactly once.                                   *)
AwakeParentConsumed ==
    task_status[Root] \in {"running", "succeeded"} =>
        \A c \in Children :
            task_status[c] # "absent" /\ lifecycle[c] = "attached" =>
                task_status[c] \in TerminalTask /\ received[c] = 1

(* Contract item 7: a Task that is stopping, quarantined or terminal never  *)
(* works again under the same attempt; only safe recovery leaves            *)
(* needsAttention, and it does so with a new one.                           *)
StaysStopped ==
    \A t \in Tasks : Stopped(t) =>
        \/ Stopped(t)'
        \/ task_status[t] = "needsAttention" /\ current_run'[t] = current_run[t] + 1
NeverReawakened == [][StaysStopped]_vars

(* Terminal rows and results never change, and a Run that records why it    *)
(* must end keeps that cause unless a shutdown takes it over.               *)
KeepsTerminal ==
    /\ results \subseteq results'
    /\ \A r \in Runs :
          /\ run_status[r] \in TerminalRun =>
                run_status'[r] = run_status[r] /\ exit_reason'[r] = exit_reason[r]
          /\ requested_exit[r] # "none" =>
                \/ requested_exit'[r] = requested_exit[r]
                \/ requested_exit'[r] = "serviceRestart" /\ run_status[r] \in Active
TerminalImmutable == [][KeepsTerminal]_vars

(* A message to a Run that ended is answered (consumed or rejected), so its *)
(* sender is not left with an open delivery; the one exception is a child   *)
(* whose result could not be committed (see the README).                    *)
InboxClosed ==
    \A m \in Messages : msg_status[m] \in Open =>
        \/ run_status[msg_run[m]] \in Active
        \/ msg_run[m][1] \in Children /\ exit_reason[msg_run[m]] = "internalError"

----------------------------------------------------------------------------
(* Statements of the repository that the code does not satisfy. *)

(* commit_task_result_inner, on a Run a shutdown has claimed: "only startup *)
(* reconciliation may move the attempt to `interrupted` and the Task to     *)
(* `needsAttention`".  A finalizer that was already committing gets a       *)
(* permanent refusal there and quarantines the Run itself.                  *)
ShutdownOwnsInterruption ==
    \A r \in Runs :
        run_status[r] = "interrupted" /\ requested_exit[r] = "serviceRestart" =>
            exit_reason[r] = "serviceRestart"

----------------------------------------------------------------------------
(* The contract this module implements. *)

ContractState(t) ==
    CASE task_status[t] = "absent" -> "absent"
      [] task_status[t] \in Active -> "live"
      [] task_status[t] = "needsAttention" -> "quarantined"
      [] OTHER -> "settled"
ContractOutcome(t) ==
    CASE task_status[t] = "succeeded" -> "complete"
      [] task_status[t] = "partial"   -> "partial"
      [] task_status[t] = "failed"    -> "error"
      [] task_status[t] = "cancelled" -> "cancelled"
      [] OTHER -> "none"

Contract == INSTANCE TaskContract WITH
    state    <- [t \in Tasks |-> ContractState(t)],
    outcome  <- [t \in Tasks |-> ContractOutcome(t)],
    stopping <- {t \in Tasks : task_status[t] = "cancelling"},
    held     <- {c \in Children : task_status[c] # "absent" /\ lifecycle[c] = "attached"},
    consumed <- {c \in Children : received[c] # 0}

(* The rows, drivers and resolvers implement the caller's contract. *)
ImplementsContract == Contract!Spec

----------------------------------------------------------------------------
(* Liveness. *)

(* What the code keeps doing by itself: a submission that holds the intake  *)
(* gate completes; a driver is an owned tokio task with an absolute         *)
(* deadline and an unbounded retry loop; so is a resolver; tools are        *)
(* bounded by their timeouts; the cancellation cascade is retried by its    *)
(* reconciler; the root's terminalization, once it began, and a shutdown    *)
(* run to their end.  Nothing is assumed of the root's executor, of the     *)
(* user or of a crashed process.                                            *)
OwnStep(c) == DriverStep(c) \/ ExecutorStep(c) \/ FinalizerStep(c)

Fairness ==
    /\ \A c \in Children : /\ WF_vars(OwnStep(c))
                           /\ WF_vars(ResolverStep(c))
                           /\ WF_vars(CascadeCancel(c))
    /\ WF_vars(commit_tool_invocation_result) /\ WF_vars(FinalizerStep(Root))
    /\ WF_vars(request_runtime_shutdown \/ ShutdownIntentFails)
    /\ WF_vars(ShutdownReconcile) /\ WF_vars(ShutdownAbort)

FairSpec == Spec /\ Fairness

(* An owned child is settled or quarantined: neither a lost claim, a stale  *)
(* commit, a cancellation nor a shutdown strands it.                        *)
OwnedChildSettles ==
    \A c \in Children : drv[c] # "none" ~>
        task_status[c] \in TerminalTask \cup {"needsAttention"} \/ phase = "down"

(* A child that is active and that nobody in the process drives or will. *)
Ghost(c) == task_status[c] \in Active /\ drv[c] = "none" /\ ~ submit[c]

(* A waiting root wakes or stops; only a child that was quarantined or that *)
(* never got a driver can keep it waiting.                                  *)
ParentWakes ==
    task_status[Root] = "waitingDependencies" ~>
        \/ task_status[Root] # "waitingDependencies"
        \/ phase = "down"
        \/ \E c \in Children : lifecycle[c] = "attached"
              /\ (task_status[c] = "needsAttention" \/ Ghost(c))

(* A child that its user stops gets a result or is quarantined.  It does    *)
(* not when the stop lands inside submit_child, before the driver is        *)
(* installed: the child stays in cancelling and nobody drives it.           *)
StoppedChildSettles ==
    \A c \in Children : requested_exit[Cur(c)] = "userCancelled" ~>
        task_status[c] \in TerminalTask \cup {"needsAttention"}

=============================================================================
