------------------------- MODULE TaskHandoffProofs -------------------------
(***************************************************************************)
(* The hand-over of results: a root that is awake, or that succeeded, has   *)
(* consumed each attached child's result exactly once, for every number of  *)
(* children.  The argument needs three facts that span the actors: a child's *)
(* terminal row never changes, only ingest_task_result writes a receipt and *)
(* never a second one, and an executor that returned success did so while   *)
(* its Task was running, so that nothing may have been delegated since.     *)
(* With the hand-over, every step is a step of TaskContract or none.        *)
(***************************************************************************)
EXTENDS TaskRuntimeProofs

(* Every attached child has ended and has been consumed once. *)
ChildrenConsumed ==
    \A c \in Children : task_status[c] # "absent" /\ lifecycle[c] = "attached" =>
                           task_status[c] \in TerminalTask /\ received[c] = 1

(* What the wakeup rests on: no child before the root, a resolver only for  *)
(* an ended attached child, no receipt twice, and a root whose executor     *)
(* returned success had consumed everything.                                *)
Handoff ==
    /\ \A c \in Children : /\ task_status[c] # "absent" => task_status[Root] # "absent"
                           /\ received[c] \in {0, 1}
                           /\ resolving[c] => /\ task_status[c] \in TerminalTask
                                              /\ lifecycle[c] = "attached"
    /\ out[Root] = "complete" => ChildrenConsumed

----------------------------------------------------------------------------

USE DEF taskVars, runVars, resVars, msgVars, procVars, drvVars, Cur, Owned,
        transition, assess_candidate

(* A step that moves no row changes no lifecycle policy. *)
LEMMA LifecycleFrame ==
    ASSUME Next, ~ RowStep PROVE UNCHANGED lifecycle
  BY DEF Next, DriverStep, ExecutorStep, FinalizerStep, ResolverStep, ProcessStep, RowStep,
    commit_tool_invocation_result, RootCleanupFails, ExecCancelled, ExecReturns,
      ReapObserved, CommitRead, CommitConflict, CommitRefused, AttentionObserved,
      consume_task_inbox, enqueue_task_message, AttachDriver, AttachObserved, ClaimRead,
      ClaimConflict, ClaimRefused, QueuedRelease, await_cleanup_or_reap, ResolverQuits,
      dispatch_precreated_recovery, mark_delivered, CloseIntake, ShutdownIntentFails,
      ShutdownAbort, Crash

(* A Task appears by StartRoot or create_task_with_run only, never          *)
(* disappears, and keeps its lifecycle policy.                              *)
LEMMA PresenceFrame ==
    ASSUME TypeOK, DriverShape, OwnerIsCurrent, Next, NEW u \in Tasks
    PROVE  \/ u = Root /\ StartRoot
           \/ u \in Children
              /\ \E policy \in {"attached", "detached"} : create_task_with_run(u, policy)
           \/ /\ lifecycle'[u] = lifecycle[u]
              /\ task_status'[u] = "absent" <=> task_status[u] = "absent"
<1> DEFINE Kept == /\ lifecycle'[u] = lifecycle[u]
                   /\ task_status'[u] = "absent" <=> task_status[u] = "absent"
<1> USE RuntimeAssumption DEF Tasks
<1>0. ASSUME NEW t \in Tasks, NEW cause, persist_cancelling(t, cause) PROVE Kept
  BY <1>0 DEF persist_cancelling, CanCancel, Cancellable, TypeOK
<1>1. ASSUME u # Root, StartRoot PROVE Kept
  BY <1>1 DEF StartRoot, TypeOK
<1>2. ASSUME NEW d \in Children, NEW policy \in {"attached", "detached"}, d # u,
             create_task_with_run(d, policy)
      PROVE  Kept
  BY <1>2 DEF create_task_with_run, TypeOK
<1>3. ASSUME NEW t \in Tasks, NEW cause \in Causes, CancelTask(t, cause) PROVE Kept
  BY <1>0, <1>3 DEF CancelTask
<1>4. ASSUME NEW t \in Tasks, commit_task_result(t) PROVE Kept
  <2>1. TaskTarget(req[t]) # "absent" /\ task_status[t] # "absent"
    BY <1>4, Targets DEF commit_task_result, DriverShape, OwnerIsCurrent, TerminalTask
  <2> QED
    BY <1>4, <2>1 DEF commit_task_result, TypeOK
<1>5. ASSUME NEW t \in Tasks, mark_needs_attention(t) PROVE Kept
  BY <1>5 DEF mark_needs_attention, TypeOK, Active
<1>6. ASSUME NEW t \in Tasks, mark_waiting(t) \/ mark_running(t) PROVE Kept
  BY <1>6 DEF mark_waiting, mark_running
<1>7. ASSUME NEW d \in Children, claim_task_run(d) PROVE Kept
  BY <1>7 DEF claim_task_run, CanClaim, TypeOK
<1>8. ASSUME NEW d \in Children, QueuedStop(d) \/ ExecStop(d) PROVE Kept
  BY <1>0, <1>8 DEF QueuedStop, ExecStop
<1>9. ASSUME NEW d \in Children, ingest_task_result(d) PROVE Kept
  BY <1>9 DEF ingest_task_result, TypeOK
<1>10. ASSUME NEW d \in Children, CascadeCancel(d) PROVE Kept
  BY <1>0, <1>10 DEF CascadeCancel
<1>11. ASSUME NEW d \in Children, create_safe_recovery_attempt(d) PROVE Kept
  BY <1>11 DEF create_safe_recovery_attempt, TypeOK
<1>12. CASE request_runtime_shutdown
  BY <1>12 DEF request_runtime_shutdown, SweepMatches, ActiveRuns, Active, TypeOK
<1>13. CASE ShutdownReconcile \/ Restart
  <2>1. /\ SweepMatches /\ UNCHANGED lifecycle
        /\ task_status'[u] = IF Cur(u) \in ActiveRuns THEN "needsAttention" ELSE task_status[u]
    BY <1>13 DEF ShutdownReconcile, Restart, reconcile_runtime
  <2> QED
    BY <2>1 DEF SweepMatches, Active
<1>14. CASE ~ RowStep
  <2>1. UNCHANGED task_status
    BY <1>14, OtherSteps DEF rows
  <2>2. UNCHANGED lifecycle
    BY <1>14, LifecycleFrame
  <2> QED
    BY <2>1, <2>2
<1> QED
  BY <1>1, <1>2, <1>3, <1>4, <1>5, <1>6, <1>7, <1>8, <1>9, <1>10, <1>11, <1>12, <1>13, <1>14
  DEF RowStep

(* Only a resolver writes receipts. *)
LEMMA ReceivedFrame ==
    ASSUME Next
    PROVE  UNCHANGED received \/ \E c \in Children : ingest_task_result(c)
  BY DEF Next, DriverStep, ExecutorStep, FinalizerStep, ResolverStep, ProcessStep,
    StartRoot, commit_tool_invocation_result, RootCleanupFails, create_task_with_run,
      CancelTask, ExecCancelled, ExecReturns, ReapObserved, CommitRead, CommitConflict,
      CommitRefused, commit_task_result, mark_needs_attention, AttentionObserved,
      mark_waiting, mark_running, consume_task_inbox, enqueue_task_message, AttachDriver,
      AttachObserved, ClaimRead, claim_task_run, ClaimConflict, ClaimRefused, QueuedStop,
      QueuedRelease, ExecStop, await_cleanup_or_reap, ResolverQuits, CascadeCancel,
      create_safe_recovery_attempt, dispatch_precreated_recovery, mark_delivered,
      CloseIntake, request_runtime_shutdown, ShutdownIntentFails, ShutdownReconcile,
      ShutdownAbort, Crash, Restart, persist_cancelling, reconcile_runtime

(* Only the commit of an attached child starts a resolver. *)
LEMMA ResolvingFrame ==
    ASSUME TypeOK, Next, NEW c \in Children, resolving'[c]
    PROVE  resolving[c] \/ (commit_task_result(c) /\ lifecycle[c] = "attached")
<1>1. UNCHANGED resolving \/ resolving' = [d \in Children |-> FALSE]
      \/ (\E d \in Children : resolving' = [resolving EXCEPT ![d] = FALSE])
      \/ \E t \in Tasks : commit_task_result(t)
  BY DEF Next, DriverStep, ExecutorStep, FinalizerStep, ResolverStep, ProcessStep,
    StartRoot, commit_tool_invocation_result, RootCleanupFails, create_task_with_run,
      CancelTask, ExecCancelled, ExecReturns, ReapObserved, CommitRead, CommitConflict,
      CommitRefused, mark_needs_attention, AttentionObserved, mark_waiting, mark_running,
      consume_task_inbox, enqueue_task_message, AttachDriver, AttachObserved, ClaimRead,
      claim_task_run, ClaimConflict, ClaimRefused, QueuedStop, QueuedRelease, ExecStop,
      await_cleanup_or_reap, ingest_task_result, ResolverQuits, CascadeCancel,
      create_safe_recovery_attempt, dispatch_precreated_recovery, mark_delivered,
      CloseIntake, request_runtime_shutdown, ShutdownIntentFails, ShutdownReconcile,
      ShutdownAbort, Crash, Restart, persist_cancelling, reconcile_runtime
<1>2. ASSUME NEW t \in Tasks, commit_task_result(t)
      PROVE  resolving[c] \/ (commit_task_result(c) /\ lifecycle[c] = "attached")
  <2>1. resolving'[c] <=> resolving[c] \/ (c = t /\ lifecycle[c] = "attached")
    BY <1>2 DEF commit_task_result
  <2> QED
    BY <1>2, <2>1
<1> QED
  BY <1>1, <1>2 DEF TypeOK

(* The root's outcome becomes a success only by its executor's return. *)
LEMMA RootOutcomeFrame ==
    ASSUME TypeOK, Next, out'[Root] = "complete"
    PROVE  out[Root] = "complete" \/ ExecReturns(Root, "complete")
<1> USE RuntimeAssumption DEF Tasks, TypeOK
<1>1. ASSUME NEW c \in Children, DriverStep(c) PROVE out[Root] = "complete"
  BY <1>1 DEF DriverStep, AttachDriver, AttachObserved, ClaimRead, claim_task_run,
    ClaimConflict,
     ClaimRefused, QueuedStop, QueuedRelease, ExecStop, await_cleanup_or_reap, DriverTo, Attach,
     ReadVersion, Release
<1>2. ASSUME NEW t \in Tasks, ExecutorStep(t)
      PROVE  out[Root] = "complete" \/ ExecReturns(Root, "complete")
  <2>1. CASE ExecCancelled(t)
    BY <2>1 DEF ExecCancelled, DriverTo, Release
  <2>2. ASSUME NEW o \in Outcomes, ExecReturns(t, o)
        PROVE  out[Root] = "complete" \/ ExecReturns(Root, "complete")
    <3>1. out' = [out EXCEPT ![t] = o]
      BY <2>2 DEF ExecReturns, DriverTo
    <3> QED
      BY <2>2, <3>1
  <2> QED
    BY <1>2, <2>1, <2>2 DEF ExecutorStep
<1>3. ASSUME NEW t \in Tasks, FinalizerStep(t) PROVE out[Root] = "complete"
  BY <1>3 DEF FinalizerStep, ReapObserved, CommitRead, CommitConflict, CommitRefused,
     commit_task_result, mark_needs_attention, AttentionObserved, DriverTo, ReadVersion, Release
<1>4. CASE ProcessStep
  BY <1>4 DEF ProcessStep, CloseIntake, request_runtime_shutdown, ShutdownIntentFails,
     ShutdownReconcile, ShutdownAbort, Crash, Restart, Release
<1>5. CASE RootCleanupFails
  BY <1>5 DEF RootCleanupFails, DriverTo
<1>6. CASE UNCHANGED out
  BY <1>6
<1>7. \/ ProcessStep \/ RootCleanupFails \/ UNCHANGED out
      \/ \E t \in Tasks : ExecutorStep(t) \/ FinalizerStep(t)
      \/ \E c \in Children : DriverStep(c)
  BY DEF Next, StartRoot, Attach, commit_tool_invocation_result, create_task_with_run,
    CancelTask,
     mark_waiting, mark_running, consume_task_inbox, enqueue_task_message, ResolverStep,
     ingest_task_result, ResolverQuits, CascadeCancel, create_safe_recovery_attempt,
     dispatch_precreated_recovery, mark_delivered
<1> QED
  BY <1>1, <1>2, <1>3, <1>4, <1>5, <1>6, <1>7

(* A root wakes by its start, its last receipt or its own success. *)
LEMMA RootAwakens ==
    ASSUME TypeOK, Next,
           task_status[Root] \notin {"running", "succeeded"},
           task_status'[Root] \in {"running", "succeeded"}
    PROVE  \/ StartRoot
           \/ \E c \in Children : ingest_task_result(c) /\ Unresolved(c) = {}
           \/ commit_task_result(Root)
<1> USE RuntimeAssumption DEF Tasks
<1>0. ASSUME NEW t \in Tasks, NEW cause, persist_cancelling(t, cause) PROVE FALSE
  BY <1>0 DEF persist_cancelling, TypeOK
<1>1. ASSUME NEW c \in Children, NEW policy \in {"attached", "detached"},
             create_task_with_run(c, policy)
      PROVE  FALSE
  BY <1>1 DEF create_task_with_run, TypeOK
<1>2. ASSUME NEW t \in Tasks, NEW cause \in Causes, CancelTask(t, cause) PROVE FALSE
  BY <1>0, <1>2 DEF CancelTask
<1>3. ASSUME NEW t \in Tasks, t # Root, commit_task_result(t) PROVE FALSE
  BY <1>3 DEF commit_task_result, TypeOK
<1>4. ASSUME NEW t \in Tasks, mark_needs_attention(t) \/ mark_waiting(t) \/ mark_running(t)
      PROVE  FALSE
  BY <1>4 DEF mark_needs_attention, mark_waiting, mark_running, TypeOK
<1>5. ASSUME NEW c \in Children, claim_task_run(c) \/ create_safe_recovery_attempt(c)
      PROVE  FALSE
  BY <1>5 DEF claim_task_run, create_safe_recovery_attempt, TypeOK
<1>6. ASSUME NEW c \in Children, QueuedStop(c) \/ ExecStop(c) \/ CascadeCancel(c) PROVE FALSE
  BY <1>0, <1>6 DEF QueuedStop, ExecStop, CascadeCancel
<1>7. ASSUME NEW c \in Children, ingest_task_result(c), Unresolved(c) # {} PROVE FALSE
  BY <1>7 DEF ingest_task_result
<1>8. CASE request_runtime_shutdown \/ ShutdownReconcile \/ Restart
  BY <1>8 DEF request_runtime_shutdown, ShutdownReconcile, Restart, reconcile_runtime
<1>9. CASE ~ RowStep
  BY <1>9, OtherSteps DEF rows
<1> QED
  BY <1>1, <1>2, <1>3, <1>4, <1>5, <1>6, <1>7, <1>8, <1>9 DEF RowStep

(* Consumed children stay consumed unless the root delegates again. *)
LEMMA ConsumedKept ==
    ASSUME TypeOK, DriverShape, PairAgreement, OwnerIsCurrent, Handoff, ChildrenConsumed, Next,
           \A c \in Children : ~ create_task_with_run(c, "attached")
    PROVE  ChildrenConsumed'
<1> USE DEF Tasks
<1>1. \A c \in Children : task_status[c] \in TerminalTask => task_status'[c] \in TerminalTask
  <2>1. CASE KeepsSettled
    BY <2>1 DEF KeepsSettled
  <2>2. ASSUME NEW t \in Tasks, commit_task_result(t)
        PROVE  \A c \in Children :
                  task_status[c] \in TerminalTask => task_status'[c] \in TerminalTask
    BY <2>2 DEF commit_task_result, FreshVersion, TypeOK
  <2> QED
    BY <2>1, <2>2, SettledSteps
<1>2. \A c \in Children : received[c] = 1 => received'[c] = 1
  BY ReceivedFrame DEF ingest_task_result, TypeOK
<1>3. ASSUME NEW c \in Children, task_status'[c] # "absent", lifecycle'[c] = "attached"
      PROVE  task_status[c] # "absent" /\ lifecycle[c] = "attached"
  <2>1. ASSUME create_task_with_run(c, "detached") PROVE FALSE
    BY <1>3, <2>1 DEF create_task_with_run, TypeOK
  <2> QED
    BY <1>3, <2>1, PresenceFrame, RuntimeAssumption
<1> QED
  BY <1>1, <1>2, <1>3 DEF ChildrenConsumed

(* Every step preserves the hand-over. *)
LEMMA HandoffStep ==
    ASSUME TypeOK, DriverShape, PairAgreement, OwnerIsCurrent, PendingSuccess, Handoff,
           AwakeParentConsumed, Next
    PROVE  Handoff' /\ AwakeParentConsumed'
<1> USE RuntimeAssumption DEF Tasks
<1>1. \A c \in Children : task_status'[c] # "absent" => task_status'[Root] # "absent"
  <2> SUFFICES ASSUME NEW c \in Children, task_status'[c] # "absent"
               PROVE  task_status'[Root] # "absent"
    OBVIOUS
  <2>1. CASE StartRoot
    BY <2>1 DEF StartRoot, TypeOK
  <2>2. ASSUME NEW policy \in {"attached", "detached"}, create_task_with_run(c, policy)
        PROVE  task_status'[Root] # "absent"
    BY <2>2 DEF create_task_with_run, TypeOK
  <2>3. CASE task_status[c] # "absent"
    BY <2>1, <2>3, PresenceFrame DEF Handoff
  <2> QED
    BY <2>2, <2>3, PresenceFrame
<1>2. \A c \in Children : received'[c] \in {0, 1}
  BY ReceivedFrame DEF ingest_task_result, TypeOK, Handoff
<1>3. ASSUME NEW c \in Children, resolving'[c]
      PROVE  task_status'[c] \in TerminalTask /\ lifecycle'[c] = "attached"
  <2>1. CASE commit_task_result(c) /\ lifecycle[c] = "attached"
    BY <2>1, Targets DEF commit_task_result, DriverShape, TypeOK
  <2>2. CASE resolving[c]
    <3>1. task_status[c] \in TerminalTask /\ lifecycle[c] = "attached"
      BY <2>2 DEF Handoff
    <3>2. ~ \E policy \in {"attached", "detached"} : create_task_with_run(c, policy)
      BY <3>1 DEF create_task_with_run, TerminalTask
    <3>3. task_status'[c] \in TerminalTask
      <4>1. CASE KeepsSettled
        BY <3>1, <4>1 DEF KeepsSettled
      <4>2. ASSUME NEW t \in Tasks, commit_task_result(t) PROVE task_status'[c] \in TerminalTask
        BY <3>1, <4>2 DEF commit_task_result, FreshVersion, TypeOK
      <4> QED
        BY <4>1, <4>2, SettledSteps
    <3> QED
      BY <3>1, <3>2, <3>3, PresenceFrame
  <2> QED
    BY <1>3, <2>1, <2>2, ResolvingFrame
<1>4. ASSUME out'[Root] = "complete" PROVE ChildrenConsumed'
  <2>1. ChildrenConsumed
    BY <1>4, RootOutcomeFrame DEF ExecReturns, Handoff, AwakeParentConsumed, ChildrenConsumed
  <2>2. \A c \in Children : ~ create_task_with_run(c, "attached")
    BY <1>4 DEF create_task_with_run, DriverShape
  <2> QED
    BY <2>1, <2>2, ConsumedKept
<1>5. ASSUME task_status'[Root] \in {"running", "succeeded"} PROVE ChildrenConsumed'
  <2>1. CASE task_status[Root] \in {"running", "succeeded"}
    <3>1. \A c \in Children : ~ create_task_with_run(c, "attached")
      BY <1>5 DEF create_task_with_run, TypeOK
    <3> QED
      BY <2>1, <3>1, ConsumedKept DEF AwakeParentConsumed, ChildrenConsumed
  <2>2. CASE StartRoot
    BY <2>2 DEF StartRoot, Handoff, ChildrenConsumed, TypeOK
  <2>3. ASSUME NEW c \in Children, ingest_task_result(c), Unresolved(c) = {}
        PROVE  ChildrenConsumed'
    <3>1. \A d \in Children \ {c} : task_status[d] # "absent" /\ lifecycle[d] = "attached" =>
                                      task_status[d] \in TerminalTask /\ received[d] = 1
      BY <2>3 DEF Unresolved, Handoff
    <3>2. task_status[c] \in TerminalTask /\ received'[c] = 1
      BY <2>3 DEF ingest_task_result, Handoff, TypeOK
    <3>3. \A d \in Children : task_status'[d] = task_status[d] /\ lifecycle'[d] = lifecycle[d]
      BY <2>3 DEF ingest_task_result, TypeOK
    <3>4. \A d \in Children \ {c} : received'[d] = received[d]
      BY <2>3 DEF ingest_task_result, TypeOK
    <3> QED
      BY <3>1, <3>2, <3>3, <3>4 DEF ChildrenConsumed
  <2>4. CASE commit_task_result(Root)
    <3>1. req[Root] \in ResultStatus /\ drv[Root] = "commit"
      BY <2>4 DEF commit_task_result, DriverShape
    <3>2. task_status'[Root] = TaskTarget(req[Root])
      BY <2>4 DEF commit_task_result, TypeOK
    <3>3. req[Root] = "complete"
      BY <1>5, <3>1, <3>2, Targets DEF TerminalTask
    <3>4. ChildrenConsumed
      BY <3>1, <3>3 DEF PendingSuccess, Handoff
    <3>5. \A c \in Children : ~ create_task_with_run(c, "attached")
      BY <3>1 DEF create_task_with_run
    <3> QED
      BY <3>4, <3>5, ConsumedKept
  <2> QED
    BY <1>5, <2>1, <2>2, <2>3, <2>4, RootAwakens
<1> QED
  BY <1>1, <1>2, <1>3, <1>4, <1>5 DEF Handoff, AwakeParentConsumed, ChildrenConsumed

(* The hand-over always holds. *)
LEMMA HandoffInvariance == Spec => [](Handoff /\ AwakeParentConsumed)
<1> DEFINE J == Handoff /\ AwakeParentConsumed
<1>1. Init => J
  BY RuntimeAssumption DEF Init, Handoff, AwakeParentConsumed, Tasks
<1>2. IInv /\ J /\ [Next]_vars => J'
  <2> SUFFICES ASSUME IInv, J, [Next]_vars PROVE J'
    OBVIOUS
  <2>1. CASE Next
    BY <2>1, HandoffStep DEF IInv
  <2>2. CASE UNCHANGED vars
    BY <2>2 DEF vars, Handoff, ChildrenConsumed, AwakeParentConsumed
  <2> QED
    BY <2>1, <2>2
<1> QED
  BY <1>1, <1>2, Invariance, PTL DEF Spec

(* A root never works, or succeeds, past an attached child's result it has  *)
(* not received exactly once.                                               *)
THEOREM AwakeMeansConsumed == Spec => []AwakeParentConsumed
BY HandoffInvariance, PTL

----------------------------------------------------------------------------
(* The contract. *)

(* Telling a set of active Tasks to stop. *)
LEMMA StopMaps ==
    ASSUME NEW S \in SUBSET Tasks, \A t \in S : task_status[t] \in Active,
           \A t \in Tasks : task_status'[t] = IF t \in S THEN "cancelling" ELSE task_status[t],
           UNCHANGED <<lifecycle, received>>
    PROVE  Contract!Stop(S)
<1> USE DEF Tasks
<1>1. S \subseteq Contract!Live
  BY DEF Contract!Live, Contract!Tasks, ContractState, Active
<1>2. \A t \in Tasks : /\ ContractState(t)' = ContractState(t)
                       /\ ContractOutcome(t)' = ContractOutcome(t)
  BY DEF ContractState, ContractOutcome, Active
<1>3. {t \in Tasks : task_status'[t] = "cancelling"}
         = {t \in Tasks : task_status[t] = "cancelling"} \cup S
  OBVIOUS
<1>4. \A c \in Children : task_status'[c] = "absent" <=> task_status[c] = "absent"
  BY DEF Active
<1> QED
  BY <1>1, <1>2, <1>3, <1>4 DEF Contract!Stop

(* Quarantining a set of active Tasks. *)
LEMMA QuarantineMaps ==
    ASSUME NEW S \in SUBSET Tasks, \A t \in S : task_status[t] \in Active,
           \A t \in Tasks : task_status'[t] = IF t \in S THEN "needsAttention" ELSE task_status[t],
           UNCHANGED <<lifecycle, received>>
    PROVE  Contract!Quarantine(S)
<1> USE DEF Tasks
<1>1. S \subseteq Contract!Live
  BY DEF Contract!Live, Contract!Tasks, ContractState, Active
<1>2. \A t \in Tasks : /\ ContractState(t)' = IF t \in S THEN "quarantined" ELSE ContractState(t)
                       /\ ContractOutcome(t)' = ContractOutcome(t)
  BY DEF ContractState, ContractOutcome, Active
<1>3. {t \in Tasks : task_status'[t] = "cancelling"}
         = {t \in Tasks : task_status[t] = "cancelling"} \ S
  OBVIOUS
<1>4. \A c \in Children : task_status'[c] = "absent" <=> task_status[c] = "absent"
  BY DEF Active
<1> QED
  BY <1>1, <1>2, <1>3, <1>4 DEF Contract!Quarantine, Contract!Tasks

(* A Task that stays at work, or as it is, is no step of the contract. *)
LEMMA StutterMaps ==
    ASSUME \A t \in Tasks : \/ task_status'[t] = task_status[t]
                            \/ {task_status[t], task_status'[t]} \subseteq Cancellable,
           UNCHANGED <<lifecycle, received>>
    PROVE  UNCHANGED Contract!vars
<1> USE DEF Tasks
<1>1. \A t \in Tasks : /\ ContractState(t)' = ContractState(t)
                       /\ ContractOutcome(t)' = ContractOutcome(t)
                       /\ task_status'[t] = "cancelling" <=> task_status[t] = "cancelling"
                       /\ task_status'[t] = "absent" <=> task_status[t] = "absent"
  BY DEF ContractState, ContractOutcome, Active, Cancellable
<1> QED
  BY <1>1 DEF Contract!vars

(* persist_cancelling stops its Task or does nothing. *)
LEMMA CancelMaps ==
    ASSUME TypeOK, NEW t \in Tasks, NEW cause, persist_cancelling(t, cause), UNCHANGED received
    PROVE  Contract!Next \/ UNCHANGED Contract!vars
<1>1. CASE CanCancel(t)
  <2>1. Contract!Stop({t})
    <3>1. /\ \A u \in Tasks : task_status'[u] = IF u \in {t} THEN "cancelling" ELSE task_status[u]
          /\ task_status[t] \in Active /\ UNCHANGED <<lifecycle, received>>
      BY <1>1 DEF persist_cancelling, CanCancel, Cancellable, Active, TypeOK
    <3> QED
      BY <3>1, StopMaps
  <2> QED
    BY <2>1 DEF Contract!Next, Contract!Tasks, Tasks
<1>2. CASE ~ CanCancel(t)
  BY <1>2, StutterMaps DEF persist_cancelling
<1> QED
  BY <1>1, <1>2

(* Every step is a step of the contract or leaves its state alone. *)
LEMMA ContractStep ==
    ASSUME IInv, Handoff, Next
    PROVE  Contract!Next \/ UNCHANGED Contract!vars
<1> USE RuntimeAssumption DEF Tasks
<1>0. TypeOK /\ DriverShape /\ PairAgreement /\ OwnerIsCurrent /\ PendingSuccess /\ CauseShape
  BY DEF IInv
<1> DEFINE Maps == Contract!Next \/ UNCHANGED Contract!vars
<1>1. CASE StartRoot
  <2>1. /\ task_status[Root] = "absent" /\ UNCHANGED <<lifecycle, received>>
        /\ \A t \in Tasks : task_status'[t] = IF t = Root THEN "running" ELSE task_status[t]
    BY <1>0, <1>1 DEF StartRoot, TypeOK
  <2>2. \A t \in Tasks : /\ ContractState(t)' = IF t = Root THEN "live" ELSE ContractState(t)
                         /\ ContractOutcome(t)' = ContractOutcome(t)
                         /\ task_status'[t] = "cancelling" <=> task_status[t] = "cancelling"
    BY <2>1 DEF ContractState, ContractOutcome, Active
  <2>3. ContractState(Root) = "absent"
    BY <2>1 DEF ContractState, Active
  <2>4. Contract!Start
    BY <2>1, <2>2, <2>3 DEF Contract!Start
  <2> QED
    BY <2>4 DEF Contract!Next
<1>2. ASSUME NEW c \in Children, NEW policy \in {"attached", "detached"},
             create_task_with_run(c, policy)
      PROVE  Maps
  <2>1. /\ task_status[c] = "absent" /\ UNCHANGED received /\ c # Root
        /\ task_status[Root] \in Cancellable /\ task_status'[Root] \in Cancellable
        /\ \A t \in Tasks \ {c, Root} : task_status'[t] = task_status[t]
        /\ task_status'[c] = "queued"
        /\ lifecycle'[c] = policy /\ \A d \in Children \ {c} : lifecycle'[d] = lifecycle[d]
    BY <1>0, <1>2 DEF create_task_with_run, TypeOK, Cancellable
  <2>2. \A t \in Tasks : /\ ContractState(t)' = IF t = c THEN "live" ELSE ContractState(t)
                         /\ ContractOutcome(t)' = ContractOutcome(t)
                         /\ task_status'[t] = "cancelling" <=> task_status[t] = "cancelling"
    BY <2>1 DEF ContractState, ContractOutcome, Active, Cancellable
  <2>3. ContractState(c) = "absent" /\ ContractState(Root) = "live"
    BY <2>1 DEF ContractState, Active, Cancellable
  <2>4. Root \in Contract!Live \ {t \in Tasks : task_status[t] = "cancelling"}
    BY <2>1, <2>3 DEF Contract!Live, Contract!Tasks, Cancellable
  <2>5. /\ [t \in Tasks |-> ContractState(t)'] = [[t \in Tasks |-> ContractState(t)] EXCEPT ![c] = "live"]
        /\ [t \in Tasks |-> ContractOutcome(t)'] = [t \in Tasks |-> ContractOutcome(t)]
        /\ {t \in Tasks : task_status'[t] = "cancelling"} = {t \in Tasks : task_status[t] = "cancelling"}
    BY <2>2
  <2> DEFINE attached == {d \in Children : task_status[d] # "absent" /\ lifecycle[d] = "attached"}
  <2>6. attached' = IF policy = "attached" THEN attached \cup {c} ELSE attached
    BY <2>1
  <2>7. CASE policy = "attached"
    <3>1. Contract!Delegate(c, TRUE)
      BY <2>1, <2>3, <2>4, <2>5, <2>6, <2>7 DEF Contract!Delegate
    <3> QED
      BY <3>1 DEF Contract!Next
  <2>8. CASE policy = "detached"
    <3>1. Contract!Delegate(c, FALSE)
      BY <2>1, <2>3, <2>4, <2>5, <2>6, <2>8 DEF Contract!Delegate
    <3> QED
      BY <3>1 DEF Contract!Next
  <2> QED
    BY <2>7, <2>8
<1>3. ASSUME NEW t \in Tasks, NEW cause \in Causes, CancelTask(t, cause) PROVE Maps
  BY <1>0, <1>3, CancelMaps DEF CancelTask
<1>4. ASSUME NEW c \in Children, QueuedStop(c) \/ ExecStop(c) \/ CascadeCancel(c) PROVE Maps
  BY <1>0, <1>4, CancelMaps DEF QueuedStop, ExecStop, CascadeCancel
<1>5. ASSUME NEW t \in Tasks, commit_task_result(t) PROVE Maps
  <2>1. /\ req[t] \in ResultStatus /\ Owned(t) = Cur(t) /\ run_status[Cur(t)] \in Active
        /\ requested_exit[Cur(t)] # "serviceRestart" /\ ver[t] = version[t] /\ drv[t] = "commit"
    BY <1>0, <1>5 DEF commit_task_result, DriverShape, Committable, FreshVersion
  <2>2. task_status[t] \in Active
    BY <1>0, <2>1 DEF PairAgreement, Paired, Active, TerminalRun
  <2>3. /\ UNCHANGED <<lifecycle, received>>
        /\ \A u \in Tasks : task_status'[u] = IF u = t THEN TaskTarget(req[t]) ELSE task_status[u]
    BY <1>0, <1>5 DEF commit_task_result, TypeOK
  <2>4. TaskTarget(req[t]) \in TerminalTask
    BY <2>1, Targets
  <2>5. \A u \in Tasks : ContractState(u)' = IF u = t THEN "settled" ELSE ContractState(u)
    BY <2>3, <2>4 DEF ContractState, Active, TerminalTask
  <2>6. \A u \in Tasks : ContractOutcome(u)' = IF u = t THEN req[t] ELSE ContractOutcome(u)
    BY <2>1, <2>3 DEF ContractOutcome, TaskTarget, ResultStatus
  <2>7. {u \in Tasks : task_status'[u] = "cancelling"}
           = {u \in Tasks : task_status[u] = "cancelling"} \ {t}
    BY <2>3, <2>4 DEF TerminalTask
  <2>8. \A c \in Children : task_status'[c] = "absent" <=> task_status[c] = "absent"
    BY <2>2, <2>3, <2>4 DEF Active, TerminalTask
  <2>9. t \in Contract!Live
    BY <2>2 DEF Contract!Live, Contract!Tasks, ContractState, Active
  <2>10. ASSUME t = Root, req[t] = "complete"
         PROVE  ChildrenConsumed /\ task_status[Root] # "cancelling"
    <3>1. out[Root] = "complete" /\ requested_exit[Cur(Root)] \notin {"userCancelled", "timeout"}
      BY <1>0, <2>1, <2>10 DEF PendingSuccess
    <3>2. Cur(Root) \in Runs /\ requested_exit[Cur(Root)] \in ExitCause
      BY <1>0 DEF TypeOK, Runs
    <3>3. task_status[Root] = "cancelling" => run_status[Cur(Root)] = "cancelling"
      BY <1>0 DEF PairAgreement, Paired, Active, TerminalTask
    <3> QED
      BY <1>0, <2>1, <2>10, <3>1, <3>2, <3>3 DEF Handoff, CauseShape, ExitCause
  <2>11. PICK o \in {"complete", "partial", "error", "cancelled"} : o = req[t]
    BY <2>1 DEF ResultStatus
  <2>12. Contract!Settle(t, o)
    <3>1. (t = Root /\ req[t] = "complete") =>
             /\ {c \in Children : task_status[c] # "absent" /\ lifecycle[c] = "attached"}
                   \subseteq {c \in Children : received[c] # 0}
             /\ Root \notin {u \in Tasks : task_status[u] = "cancelling"}
      BY <2>10 DEF ChildrenConsumed
    <3> QED
      BY <2>3, <2>5, <2>6, <2>7, <2>8, <2>9, <2>11, <3>1 DEF Contract!Settle
  <2> QED
    BY <2>11, <2>12 DEF Contract!Next, Contract!Tasks
<1>6. ASSUME NEW t \in Tasks, mark_needs_attention(t) PROVE Maps
  <2>1. /\ \A u \in Tasks : task_status'[u] = IF u \in {t} THEN "needsAttention" ELSE task_status[u]
        /\ task_status[t] \in Active /\ UNCHANGED <<lifecycle, received>>
    BY <1>0, <1>6 DEF mark_needs_attention, TypeOK
  <2>2. Contract!Quarantine({t})
    BY <2>1, QuarantineMaps
  <2> QED
    BY <2>2 DEF Contract!Next, Contract!Tasks
<1>7. ASSUME NEW t \in Tasks, mark_waiting(t) \/ mark_running(t) PROVE Maps
  BY <1>7, StutterMaps DEF mark_waiting, mark_running
<1>8. ASSUME NEW c \in Children, claim_task_run(c) PROVE Maps
  BY <1>0, <1>8, StutterMaps DEF claim_task_run, CanClaim, TypeOK, Cancellable
<1>9. ASSUME NEW c \in Children, ingest_task_result(c) PROVE Maps
  <2>1. /\ UNCHANGED lifecycle /\ received[c] = 0 /\ received' = [received EXCEPT ![c] = @ + 1]
        /\ task_status[Root] = "waitingDependencies" /\ task_status'[Root] \in Cancellable
        /\ \A t \in Tasks \ {Root} : task_status'[t] = task_status[t]
        /\ task_status[c] \in TerminalTask /\ lifecycle[c] = "attached"
    BY <1>0, <1>9 DEF ingest_task_result, Handoff, TypeOK, Cancellable
  <2>2. \A t \in Tasks : /\ ContractState(t)' = ContractState(t)
                         /\ ContractOutcome(t)' = ContractOutcome(t)
                         /\ task_status'[t] = "cancelling" <=> task_status[t] = "cancelling"
                         /\ task_status'[t] = "absent" <=> task_status[t] = "absent"
    BY <2>1 DEF ContractState, ContractOutcome, Active, Cancellable
  <2>3. {d \in Children : received'[d] # 0} = {d \in Children : received[d] # 0} \cup {c}
    BY <1>0, <2>1 DEF TypeOK
  <2>4. ContractState(c) = "settled" /\ ContractState(Root) = "live"
    BY <2>1 DEF ContractState, Active, TerminalTask
  <2>5. Root \in Contract!Live \ {t \in Tasks : task_status[t] = "cancelling"}
    BY <2>1, <2>4 DEF Contract!Live, Contract!Tasks
  <2>6. c \in {d \in Children : task_status[d] # "absent" /\ lifecycle[d] = "attached"}
                \ {d \in Children : received[d] # 0}
    BY <2>1 DEF TerminalTask
  <2>7. Contract!Consume(c)
    BY <2>1, <2>2, <2>3, <2>4, <2>5, <2>6 DEF Contract!Consume
  <2> QED
    BY <2>7 DEF Contract!Next
<1>10. ASSUME NEW c \in Children, create_safe_recovery_attempt(c) PROVE Maps
  <2>1. /\ task_status[c] = "needsAttention" /\ UNCHANGED <<lifecycle, received>>
        /\ \A t \in Tasks : task_status'[t] = IF t = c THEN "queued" ELSE task_status[t]
    BY <1>0, <1>10 DEF create_safe_recovery_attempt, TypeOK
  <2>2. \A t \in Tasks : /\ ContractState(t)' = IF t = c THEN "live" ELSE ContractState(t)
                         /\ ContractOutcome(t)' = ContractOutcome(t)
                         /\ task_status'[t] = "cancelling" <=> task_status[t] = "cancelling"
                         /\ task_status'[t] = "absent" <=> task_status[t] = "absent"
    BY <2>1 DEF ContractState, ContractOutcome, Active
  <2>3. ContractState(c) = "quarantined"
    BY <2>1 DEF ContractState, Active
  <2>4. Contract!Recover(c)
    BY <2>1, <2>2, <2>3 DEF Contract!Recover
  <2> QED
    BY <2>4 DEF Contract!Next
<1>11. ASSUME request_runtime_shutdown \/ ShutdownReconcile \/ Restart PROVE Maps
  <2>0. PICK S \in SUBSET Tasks : S = {t \in Tasks : Cur(t) \in ActiveRuns}
    OBVIOUS
  <2>1. S \in SUBSET Tasks /\ \A t \in S : task_status[t] \in Active
    BY <1>0, <2>0 DEF PairAgreement, SweepMatches
  <2>2. UNCHANGED <<lifecycle, received>>
    BY <1>11 DEF request_runtime_shutdown, ShutdownReconcile, Restart, reconcile_runtime
  <2>3. \/ \A t \in Tasks : task_status'[t] = IF t \in S THEN "cancelling" ELSE task_status[t]
        \/ \A t \in Tasks : task_status'[t] = IF t \in S THEN "needsAttention" ELSE task_status[t]
    BY <1>11, <2>0 DEF request_runtime_shutdown, ShutdownReconcile, Restart, reconcile_runtime
  <2>4. CASE \A t \in Tasks : task_status'[t] = IF t \in S THEN "cancelling" ELSE task_status[t]
    <3>1. Contract!Stop(S)
      BY <2>1, <2>2, <2>4, StopMaps
    <3> QED
      BY <2>1, <3>1 DEF Contract!Next, Contract!Tasks
  <2>5. CASE \A t \in Tasks :
                task_status'[t] = IF t \in S THEN "needsAttention" ELSE task_status[t]
    <3>1. Contract!Quarantine(S)
      BY <2>1, <2>2, <2>5, QuarantineMaps
    <3> QED
      BY <2>1, <3>1 DEF Contract!Next, Contract!Tasks
  <2> QED
    BY <2>3, <2>4, <2>5
<1>12. CASE ~ RowStep
  <2>1. UNCHANGED <<task_status, lifecycle, received>>
    BY <1>12, OtherSteps, ReceivedFrame, LifecycleFrame DEF rows, RowStep
  <2> QED
    BY <2>1, StutterMaps
<1> QED
  BY <1>1, <1>2, <1>3, <1>4, <1>5, <1>6, <1>7, <1>8, <1>9, <1>10, <1>11, <1>12 DEF RowStep

(* The rows, drivers, resolvers and sweeps of TaskRuntime implement the     *)
(* contract of docs/task-runtime-v4.md: one immutable outcome, told to an   *)
(* awake parent once and before it succeeds, and no work after a stop.      *)
THEOREM RuntimeImplementsContract == Spec => ImplementsContract
<1>1. Init => Contract!Init
  <2> SUFFICES ASSUME Init PROVE Contract!Init
    OBVIOUS
  <2>1. \A t \in Tasks : ContractState(t) = "absent" /\ ContractOutcome(t) = "none"
    BY DEF Init, ContractState, ContractOutcome, Active
  <2>2. /\ {t \in Tasks : task_status[t] = "cancelling"} = {}
        /\ {c \in Children : task_status[c] # "absent" /\ lifecycle[c] = "attached"} = {}
        /\ {c \in Children : received[c] # 0} = {}
    BY DEF Init, Tasks
  <2> QED
    BY <2>1, <2>2 DEF Contract!Init, Contract!Tasks, Tasks
<1>2. IInv /\ Handoff /\ [Next]_vars => [Contract!Next]_(Contract!vars)
  <2> SUFFICES ASSUME IInv, Handoff, [Next]_vars
               PROVE  Contract!Next \/ UNCHANGED Contract!vars
    OBVIOUS
  <2>1. CASE Next
    BY <2>1, ContractStep
  <2>2. CASE UNCHANGED vars
    BY <2>2, StutterMaps DEF vars
  <2> QED
    BY <2>1, <2>2
<1> QED
  BY <1>1, <1>2, Invariance, HandoffInvariance, PTL DEF Spec, ImplementsContract, Contract!Spec

=============================================================================
