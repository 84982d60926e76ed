-------------------------- MODULE TaskRuntimeProofs --------------------------
(***************************************************************************)
(* The safety invariants of TaskRuntime for every number of children,       *)
(* messages, attempts and restarts.                                         *)
(*                                                                          *)
(* None of them is inductive by itself.  IInv adds what the code keeps      *)
(* without saying so: which outcome a driver may carry and against which    *)
(* version (DriverShape), who may still attach a driver (SubmitShape), that *)
(* nothing outlives its process (EpochOwnership), and why a pending success *)
(* is harmless (PendingSuccess).  There is one lemma per conjunct.          *)
(***************************************************************************)
EXTENDS TaskRuntime, TLAPS

(* A driver has an outcome exactly from its executor's end on, a commit     *)
(* request has a result status, and a driver's version is never ahead of    *)
(* its Task's.                                                              *)
DriverShape ==
    \A t \in Tasks :
        /\ IF drv[t] \in {"stopping", "reap", "commit", "attention"}
           THEN out[t] \in ResultStatus ELSE out[t] = "none"
        /\ drv[t] = "commit" => req[t] \in ResultStatus
        /\ ver[t] <= version[t]

(* A submission has no driver yet, and a Task has no second attempt before  *)
(* it has a first.                                                          *)
SubmitShape ==
    \A c \in Children :
        /\ submit[c] => /\ drv[c] = "none" /\ current_run[c] = 1
                        /\ task_status[c] # "absent"
        /\ task_status[c] = "absent" => current_run[c] = 1

(* Process memory does not outlive the process, and whatever is active or   *)
(* owned belongs to the running process' epoch.                             *)
EpochOwnership ==
    /\ \A t \in Tasks : drv[t] # "none" => run_epoch[Cur(t)] = epoch
    /\ \A c \in Children : submit[c] => run_epoch[Cur(c)] = epoch
    /\ phase = "down" => \A t \in Tasks : drv[t] = "none"
    /\ phase \in {"draining", "reconciled", "down"} => \A c \in Children : ~ submit[c]
    /\ phase # "down" => \A r \in ActiveRuns : run_epoch[r] = epoch

(* A pending success was prepared before anybody asked the Run to end, or   *)
(* its version is stale by now.                                             *)
PendingSuccess ==
    \A t \in Tasks :
        drv[t] = "commit" /\ req[t] = "complete" =>
            /\ out[t] = "complete"
            /\ ver[t] = version[t] =>
                  requested_exit[Owned(t)] \notin {"userCancelled", "timeout"}

(* A Run has a cause exactly once it was told to end, the root's is never    *)
(* its parent's, and the attempts to come have no row.                      *)
CauseShape ==
    \A r \in Runs :
        /\ run_status[r] \in Cancellable \cup {"absent"} => requested_exit[r] = "none"
        /\ run_status[r] = "cancelling" => requested_exit[r] # "none"
        /\ requested_exit[r] = "parentCancelled" => r[1] # Root
        /\ r[2] > current_run[r[1]] => run_status[r] = "absent"

IInv == /\ TypeOK /\ DriverShape /\ PairAgreement /\ ResultMatchesTerminal
        /\ OwnerIsCurrent /\ SubmitShape /\ EpochOwnership /\ PendingSuccess /\ CauseWins
        /\ CauseShape

----------------------------------------------------------------------------

USE DEF taskVars, runVars, resVars, msgVars, procVars, drvVars, Cur, Owned,
        transition, assess_candidate

(* Every variable keeps its type; the status a driver carries is one only    *)
(* where DriverShape says so.                                               *)
LEMMA TypeOKStep ==
    ASSUME TypeOK, DriverShape, Next PROVE TypeOK'
<1> USE RuntimeAssumption DEF Tasks, Runs
<1>1. ASSUME StartRoot PROVE TypeOK'
  BY <1>1 DEF StartRoot, Attach, TaskStatus, RunStatus, Active, TypeOK
<1>2. ASSUME commit_tool_invocation_result PROVE TypeOK'
  BY <1>2 DEF commit_tool_invocation_result, TypeOK
<1>3. ASSUME RootCleanupFails PROVE TypeOK'
  BY <1>3 DEF RootCleanupFails, DriverTo, TypeOK
<1>4. ASSUME NEW c \in Children, NEW policy \in {"attached", "detached"},
             create_task_with_run(c, policy)
      PROVE  TypeOK'
  <2> DEFINE parks == policy = "attached" /\ task_status[Root] # "waitingDependencies"
  <2>1. task_status' = [task_status EXCEPT ![c] = "queued",
                           ![Root] = IF parks THEN "waitingDependencies" ELSE @]
    BY <1>4 DEF create_task_with_run
  <2>2. version' = [version EXCEPT ![Root] = IF parks THEN @ + 1 ELSE @]
    BY <1>4 DEF create_task_with_run
  <2>3. run_status' = [run_status EXCEPT ![Cur(c)] = "queued",
                           ![Cur(Root)] = IF parks THEN "waitingDependencies" ELSE @]
    BY <1>4 DEF create_task_with_run
  <2> HIDE DEF parks
  <2>4. task_status' \in [Tasks -> TaskStatus]
    BY <2>1 DEF TypeOK, TaskStatus, Active
  <2>5. version' \in [Tasks -> Nat]
    BY <2>2 DEF TypeOK
  <2>6. run_status' \in [Runs -> RunStatus]
    BY <2>3 DEF TypeOK, RunStatus, Active
  <2>7. /\ lifecycle' \in [Tasks -> {"attached", "detached"}]
        /\ run_epoch' \in [Runs -> 0 .. MaxEpoch]
        /\ tool_open' \in BOOLEAN /\ submit' \in [Children -> BOOLEAN]
    BY <1>4 DEF create_task_with_run, TypeOK
  <2> QED
    BY <1>4, <2>4, <2>5, <2>6, <2>7 DEF create_task_with_run, TypeOK
<1>5. ASSUME NEW t \in Tasks, NEW cause \in Causes, CancelTask(t, cause) PROVE TypeOK'
  BY <1>5 DEF CancelTask, persist_cancelling, CanCancel, Cancellable, ExitCause, TaskStatus,
    RunStatus, Active, TypeOK
<1>6. ASSUME NEW t \in Tasks, ExecCancelled(t) PROVE TypeOK'
  <2>1. (\E o \in ResultStatus : DriverTo(t, "reap", o)) \/ Release({t})
    BY <1>6 DEF ExecCancelled, ResultStatus
  <2>2. CASE Release({t})
    BY <1>6, <2>2 DEF ExecCancelled, Release, TypeOK, Attempts
  <2>3. ASSUME NEW o \in ResultStatus, DriverTo(t, "reap", o) PROVE TypeOK'
    BY <1>6, <2>3 DEF ExecCancelled, DriverTo, TypeOK
  <2> QED
    BY <2>1, <2>2, <2>3
<1>7. ASSUME NEW t \in Tasks, NEW o \in Outcomes, ExecReturns(t, o) PROVE TypeOK'
  BY <1>7 DEF ExecReturns, DriverTo, ResultStatus, TypeOK
<1>8. ASSUME NEW t \in Tasks, ReapObserved(t) PROVE TypeOK'
  BY <1>8 DEF ReapObserved, Release, Attempts, TypeOK
<1>9. ASSUME NEW t \in Tasks, CommitRead(t) PROVE TypeOK'
  BY <1>9 DEF CommitRead, ReadVersion, Normalized, Overridable, ResultStatus, DriverShape,
    TypeOK
<1>10. ASSUME NEW t \in Tasks, CommitConflict(t) PROVE TypeOK'
  BY <1>10 DEF CommitConflict, DriverTo, TypeOK
<1>11. ASSUME NEW t \in Tasks, CommitRefused(t) PROVE TypeOK'
  BY <1>11 DEF CommitRefused, DriverTo, TypeOK
<1>12. ASSUME NEW t \in Tasks, commit_task_result(t) PROVE TypeOK'
  BY <1>12 DEF commit_task_result, Release, Attempts, reject_pending_for_run, DriverShape,
    TaskTarget, RunTarget, result_exit_reason, ResultStatus, ExitCause, TaskStatus,
    RunStatus, TerminalTask, TerminalRun, Committable, TypeOK
<1>13. ASSUME NEW t \in Tasks, mark_needs_attention(t) PROVE TypeOK'
  <2>1. msg_status' \in [Messages -> {"none", "queued", "delivered", "consumed", "rejected"}]
    BY <1>13 DEF mark_needs_attention, reject_pending_for_run, TypeOK
  <2> QED
    BY <1>13, <2>1 DEF mark_needs_attention, Release, TypeOK, TaskStatus, RunStatus,
                       TerminalRun, Attempts
<1>14. ASSUME NEW t \in Tasks, AttentionObserved(t) PROVE TypeOK'
  BY <1>14 DEF AttentionObserved, Release, Attempts, TypeOK
<1>15. ASSUME NEW t \in Tasks, mark_waiting(t) PROVE TypeOK'
  BY <1>15 DEF mark_waiting, RunStatus, Active, TypeOK
<1>16. ASSUME NEW t \in Tasks, mark_running(t) PROVE TypeOK'
  BY <1>16 DEF mark_running, RunStatus, Active, TypeOK
<1>17. ASSUME NEW t \in Tasks, consume_task_inbox(t) PROVE TypeOK'
  BY <1>17 DEF consume_task_inbox, TypeOK
<1>18. ASSUME NEW t \in Tasks, NEW m \in Messages, enqueue_task_message(m, t) PROVE TypeOK'
  BY <1>18 DEF enqueue_task_message, TypeOK
<1>19. ASSUME NEW c \in Children, AttachDriver(c) PROVE TypeOK'
  BY <1>19 DEF AttachDriver, Attach, TypeOK
<1>20. ASSUME NEW c \in Children, AttachObserved(c) PROVE TypeOK'
  BY <1>20 DEF AttachObserved, TypeOK
<1>21. ASSUME NEW c \in Children, ClaimRead(c) PROVE TypeOK'
  BY <1>21 DEF ClaimRead, ReadVersion, TypeOK
<1>22. ASSUME NEW c \in Children, claim_task_run(c) PROVE TypeOK'
  BY <1>22 DEF claim_task_run, DriverTo, TaskStatus, RunStatus, Active, TypeOK
<1>23. ASSUME NEW c \in Children, ClaimConflict(c) PROVE TypeOK'
  BY <1>23 DEF ClaimConflict, DriverTo, TypeOK
<1>24. ASSUME NEW c \in Children, ClaimRefused(c) PROVE TypeOK'
  BY <1>24 DEF ClaimRefused, DriverTo, ResultStatus, TypeOK
<1>25. ASSUME NEW c \in Children, QueuedStop(c) PROVE TypeOK'
  <2>1. PICK cause \in ExitCause, pc \in {"reap", "stopping"}, o \in ResultStatus :
            persist_cancelling(c, cause) /\ DriverTo(c, pc, o)
    BY <1>25 DEF QueuedStop, ExitCause, ResultStatus
  <2>2. /\ task_status' \in [Tasks -> TaskStatus] /\ version' \in [Tasks -> Nat]
        /\ run_status' \in [Runs -> RunStatus] /\ requested_exit' \in [Runs -> ExitCause]
    BY <2>1 DEF persist_cancelling, TaskStatus, RunStatus, Active, TypeOK
  <2> QED
    BY <1>25, <2>1, <2>2 DEF QueuedStop, persist_cancelling, DriverTo, TypeOK
<1>26. ASSUME NEW c \in Children, QueuedRelease(c) PROVE TypeOK'
  BY <1>26 DEF QueuedRelease, Attempts, Release, Attempts, TypeOK
<1>27. ASSUME NEW c \in Children, ExecStop(c) PROVE TypeOK'
  <2>1. PICK cause \in ExitCause, pc \in {"reap", "stopping"}, o \in ResultStatus :
            persist_cancelling(c, cause) /\ DriverTo(c, pc, o)
    BY <1>27 DEF ExecStop, ExitCause, ResultStatus
  <2>2. /\ task_status' \in [Tasks -> TaskStatus] /\ version' \in [Tasks -> Nat]
        /\ run_status' \in [Runs -> RunStatus] /\ requested_exit' \in [Runs -> ExitCause]
    BY <2>1 DEF persist_cancelling, TaskStatus, RunStatus, Active, TypeOK
  <2> QED
    BY <1>27, <2>1, <2>2 DEF ExecStop, persist_cancelling, DriverTo, TypeOK
<1>28. ASSUME NEW c \in Children, await_cleanup_or_reap(c) PROVE TypeOK'
  BY <1>28 DEF await_cleanup_or_reap, DriverTo, ResultStatus, DriverShape, TypeOK
<1>29. ASSUME NEW c \in Children, ingest_task_result(c) PROVE TypeOK'
  <2>1. CASE Unresolved(c) = {}
    <3>1. /\ task_status' = [task_status EXCEPT ![Root] = "running"]
          /\ version' = [version EXCEPT ![Root] = @ + 1]
          /\ run_status' = [run_status EXCEPT ![Cur(Root)] = "running"]
      BY <1>29, <2>1 DEF ingest_task_result
    <3>2. task_status' \in [Tasks -> TaskStatus] /\ version' \in [Tasks -> Nat]
      BY <3>1 DEF TypeOK, TaskStatus, Active
    <3>3. run_status' \in [Runs -> RunStatus]
      BY <3>1 DEF TypeOK, RunStatus, Active
    <3>4. /\ received' \in [Children -> Nat] /\ resolving' \in [Children -> BOOLEAN]
          /\ UNCHANGED <<current_run, lifecycle, requested_exit, exit_reason, run_epoch,
                         results, msgVars, tool_open, procVars, submit, drvVars>>
      BY <1>29 DEF ingest_task_result, TypeOK
    <3> QED
      BY <3>2, <3>3, <3>4 DEF TypeOK
  <2>2. CASE Unresolved(c) # {}
    BY <1>29, <2>2 DEF ingest_task_result, TypeOK
  <2> QED
    BY <2>1, <2>2
<1>30. ASSUME NEW c \in Children, ResolverQuits(c) PROVE TypeOK'
  BY <1>30 DEF ResolverQuits, TypeOK
<1>31. ASSUME NEW c \in Children, CascadeCancel(c) PROVE TypeOK'
  BY <1>31 DEF CascadeCancel, persist_cancelling, CanCancel, Cancellable, ExitCause,
    TaskStatus, RunStatus, Active, TypeOK
<1>32. ASSUME NEW c \in Children, create_safe_recovery_attempt(c) PROVE TypeOK'
  BY <1>32 DEF create_safe_recovery_attempt, TaskStatus, RunStatus, Active, Attempts, TypeOK
<1>33. ASSUME NEW c \in Children, dispatch_precreated_recovery(c) PROVE TypeOK'
  BY <1>33 DEF dispatch_precreated_recovery, Attach, TypeOK
<1>34. ASSUME NEW m \in Messages, mark_delivered(m) PROVE TypeOK'
  BY <1>34 DEF mark_delivered, TypeOK
<1>35. ASSUME CloseIntake PROVE TypeOK'
  BY <1>35 DEF CloseIntake, TypeOK
<1>36. ASSUME request_runtime_shutdown PROVE TypeOK'
  BY <1>36 DEF request_runtime_shutdown, TaskStatus, RunStatus, Active, ExitCause, TypeOK
<1>37. ASSUME ShutdownIntentFails PROVE TypeOK'
  BY <1>37 DEF ShutdownIntentFails, TypeOK
<1>38. ASSUME ShutdownReconcile PROVE TypeOK'
  BY <1>38 DEF ShutdownReconcile, reconcile_runtime, TaskStatus, RunStatus, TerminalRun,
    ExitCause, TypeOK
<1>39. ASSUME ShutdownAbort PROVE TypeOK'
  BY <1>39 DEF ShutdownAbort, Release, Attempts, TypeOK
<1>40. ASSUME Crash PROVE TypeOK'
  BY <1>40 DEF Crash, Release, Attempts, TypeOK
<1>41. ASSUME Restart PROVE TypeOK'
  BY <1>41 DEF Restart, reconcile_runtime, TaskStatus, RunStatus, TerminalRun, ExitCause, TypeOK
<1> QED
  BY <1>1, <1>2, <1>3, <1>4, <1>5, <1>6, <1>7, <1>8, <1>9, <1>10, <1>11, <1>12, <1>13,
    <1>14, <1>15, <1>16, <1>17, <1>18, <1>19, <1>20, <1>21, <1>22, <1>23, <1>24, <1>25,
    <1>26, <1>27, <1>28, <1>29, <1>30, <1>31, <1>32, <1>33, <1>34, <1>35, <1>36, <1>37,
    <1>38, <1>39, <1>40, <1>41 DEF Next, DriverStep, ExecutorStep, FinalizerStep,
    ResolverStep, ProcessStep

(* Every step of a driver leaves it with the outcome its next step needs. *)
LEMMA DriverShapeStep ==
    ASSUME TypeOK, OwnerIsCurrent, SubmitShape, DriverShape, Next PROVE DriverShape'
<1> USE RuntimeAssumption DEF Tasks, Runs
<1>1. ASSUME StartRoot PROVE DriverShape'
  BY <1>1 DEF StartRoot, Attach, OwnerIsCurrent, TypeOK, DriverShape
<1>2. ASSUME commit_tool_invocation_result PROVE DriverShape'
  BY <1>2 DEF commit_tool_invocation_result, TypeOK, DriverShape
<1>3. ASSUME RootCleanupFails PROVE DriverShape'
  BY <1>3 DEF RootCleanupFails, DriverTo, TypeOK, DriverShape
<1>4. ASSUME NEW c \in Children, NEW policy \in {"attached", "detached"},
             create_task_with_run(c, policy)
      PROVE  DriverShape'
  BY <1>4 DEF create_task_with_run, TypeOK, DriverShape
<1>5. ASSUME NEW t \in Tasks, NEW cause \in Causes, CancelTask(t, cause) PROVE DriverShape'
  BY <1>5 DEF CancelTask, persist_cancelling, CanCancel, Cancellable, TypeOK, DriverShape
<1>6. ASSUME NEW t \in Tasks, ExecCancelled(t) PROVE DriverShape'
  BY <1>6 DEF ExecCancelled, DriverTo, Release, ResultStatus, TypeOK, DriverShape
<1>7. ASSUME NEW t \in Tasks, NEW o \in Outcomes, ExecReturns(t, o) PROVE DriverShape'
  BY <1>7 DEF ExecReturns, DriverTo, ResultStatus, TypeOK, DriverShape
<1>8. ASSUME NEW t \in Tasks, ReapObserved(t) PROVE DriverShape'
  BY <1>8 DEF ReapObserved, Release, TypeOK, DriverShape
<1>9. ASSUME NEW t \in Tasks, CommitRead(t) PROVE DriverShape'
  BY <1>9 DEF CommitRead, ReadVersion, Normalized, Overridable, ResultStatus, TypeOK,
    DriverShape
<1>10. ASSUME NEW t \in Tasks, CommitConflict(t) PROVE DriverShape'
  BY <1>10 DEF CommitConflict, DriverTo, TypeOK, DriverShape
<1>11. ASSUME NEW t \in Tasks, CommitRefused(t) PROVE DriverShape'
  BY <1>11 DEF CommitRefused, DriverTo, TypeOK, DriverShape
<1>12. ASSUME NEW t \in Tasks, commit_task_result(t) PROVE DriverShape'
  BY <1>12 DEF commit_task_result, Release, reject_pending_for_run, TypeOK, DriverShape
<1>13. ASSUME NEW t \in Tasks, mark_needs_attention(t) PROVE DriverShape'
  BY <1>13 DEF mark_needs_attention, Release, reject_pending_for_run, TypeOK, DriverShape
<1>14. ASSUME NEW t \in Tasks, AttentionObserved(t) PROVE DriverShape'
  BY <1>14 DEF AttentionObserved, Release, TypeOK, DriverShape
<1>15. ASSUME NEW t \in Tasks, mark_waiting(t) PROVE DriverShape'
  BY <1>15 DEF mark_waiting, TypeOK, DriverShape
<1>16. ASSUME NEW t \in Tasks, mark_running(t) PROVE DriverShape'
  BY <1>16 DEF mark_running, TypeOK, DriverShape
<1>17. ASSUME NEW t \in Tasks, consume_task_inbox(t) PROVE DriverShape'
  BY <1>17 DEF consume_task_inbox, TypeOK, DriverShape
<1>18. ASSUME NEW t \in Tasks, NEW m \in Messages, enqueue_task_message(m, t) PROVE DriverShape'
  BY <1>18 DEF enqueue_task_message, TypeOK, DriverShape
<1>19. ASSUME NEW c \in Children, AttachDriver(c) PROVE DriverShape'
  BY <1>19 DEF AttachDriver, Attach, SubmitShape, TypeOK, DriverShape
<1>20. ASSUME NEW c \in Children, AttachObserved(c) PROVE DriverShape'
  BY <1>20 DEF AttachObserved, TypeOK, DriverShape
<1>21. ASSUME NEW c \in Children, ClaimRead(c) PROVE DriverShape'
  BY <1>21 DEF ClaimRead, ReadVersion, TypeOK, DriverShape
<1>22. ASSUME NEW c \in Children, claim_task_run(c) PROVE DriverShape'
  BY <1>22 DEF claim_task_run, DriverTo, TypeOK, DriverShape
<1>23. ASSUME NEW c \in Children, ClaimConflict(c) PROVE DriverShape'
  BY <1>23 DEF ClaimConflict, DriverTo, TypeOK, DriverShape
<1>24. ASSUME NEW c \in Children, ClaimRefused(c) PROVE DriverShape'
  BY <1>24 DEF ClaimRefused, DriverTo, ResultStatus, TypeOK, DriverShape
<1>25. ASSUME NEW c \in Children, QueuedStop(c) PROVE DriverShape'
  BY <1>25 DEF QueuedStop, DriverTo, persist_cancelling, CanCancel, Cancellable,
    ResultStatus, TypeOK, DriverShape
<1>26. ASSUME NEW c \in Children, QueuedRelease(c) PROVE DriverShape'
  BY <1>26 DEF QueuedRelease, Release, TypeOK, DriverShape
<1>27. ASSUME NEW c \in Children, ExecStop(c) PROVE DriverShape'
  BY <1>27 DEF ExecStop, DriverTo, persist_cancelling, CanCancel, Cancellable, ResultStatus,
    TypeOK, DriverShape
<1>28. ASSUME NEW c \in Children, await_cleanup_or_reap(c) PROVE DriverShape'
  BY <1>28 DEF await_cleanup_or_reap, DriverTo, ResultStatus, TypeOK, DriverShape
<1>29. ASSUME NEW c \in Children, ingest_task_result(c) PROVE DriverShape'
  BY <1>29 DEF ingest_task_result, TypeOK, DriverShape
<1>30. ASSUME NEW c \in Children, ResolverQuits(c) PROVE DriverShape'
  BY <1>30 DEF ResolverQuits, TypeOK, DriverShape
<1>31. ASSUME NEW c \in Children, CascadeCancel(c) PROVE DriverShape'
  BY <1>31 DEF CascadeCancel, persist_cancelling, CanCancel, Cancellable, TypeOK, DriverShape
<1>32. ASSUME NEW c \in Children, create_safe_recovery_attempt(c) PROVE DriverShape'
  BY <1>32 DEF create_safe_recovery_attempt, TypeOK, DriverShape
<1>33. ASSUME NEW c \in Children, dispatch_precreated_recovery(c) PROVE DriverShape'
  BY <1>33 DEF dispatch_precreated_recovery, Attach, TypeOK, DriverShape
<1>34. ASSUME NEW m \in Messages, mark_delivered(m) PROVE DriverShape'
  BY <1>34 DEF mark_delivered, TypeOK, DriverShape
<1>35. ASSUME CloseIntake PROVE DriverShape'
  BY <1>35 DEF CloseIntake, TypeOK, DriverShape
<1>36. ASSUME request_runtime_shutdown PROVE DriverShape'
  BY <1>36 DEF request_runtime_shutdown, TypeOK, DriverShape
<1>37. ASSUME ShutdownIntentFails PROVE DriverShape'
  BY <1>37 DEF ShutdownIntentFails, TypeOK, DriverShape
<1>38. ASSUME ShutdownReconcile PROVE DriverShape'
  BY <1>38 DEF ShutdownReconcile, reconcile_runtime, TypeOK, DriverShape
<1>39. ASSUME ShutdownAbort PROVE DriverShape'
  BY <1>39 DEF ShutdownAbort, Release, TypeOK, DriverShape
<1>40. ASSUME Crash PROVE DriverShape'
  BY <1>40 DEF Crash, Release, TypeOK, DriverShape
<1>41. ASSUME Restart PROVE DriverShape'
  BY <1>41 DEF Restart, reconcile_runtime, TypeOK, DriverShape
<1> QED
  BY <1>1, <1>2, <1>3, <1>4, <1>5, <1>6, <1>7, <1>8, <1>9, <1>10, <1>11, <1>12, <1>13,
    <1>14, <1>15, <1>16, <1>17, <1>18, <1>19, <1>20, <1>21, <1>22, <1>23, <1>24, <1>25,
    <1>26, <1>27, <1>28, <1>29, <1>30, <1>31, <1>32, <1>33, <1>34, <1>35, <1>36, <1>37,
    <1>38, <1>39, <1>40, <1>41 DEF Next, DriverStep, ExecutorStep, FinalizerStep,
    ResolverStep, ProcessStep

(* The statuses of a committed result are terminal, and only a complete     *)
(* result makes a Task succeed.                                             *)
LEMMA Targets ==
    ASSUME NEW s \in ResultStatus
    PROVE  /\ TaskTarget(s) \in TerminalTask
           /\ RunTarget(s) \in TerminalRun \ {"interrupted"}
           /\ TaskTarget(s) = "succeeded" <=> s = "complete"
  BY DEF ResultStatus, TaskTarget, RunTarget, TerminalTask, TerminalRun

(* submit_child, its driver and safe recovery exclude each other. *)
LEMMA SubmitShapeStep ==
    ASSUME TypeOK, DriverShape, OwnerIsCurrent, EpochOwnership, SubmitShape, Next
    PROVE  SubmitShape'
<1> USE RuntimeAssumption DEF Tasks, Runs
<1>1. ASSUME StartRoot PROVE SubmitShape'
  BY <1>1 DEF StartRoot, Attach, TypeOK, SubmitShape
<1>2. ASSUME commit_tool_invocation_result PROVE SubmitShape'
  BY <1>2 DEF commit_tool_invocation_result, TypeOK, SubmitShape
<1>3. ASSUME RootCleanupFails PROVE SubmitShape'
  BY <1>3 DEF RootCleanupFails, DriverTo, TypeOK, SubmitShape
<1>4. ASSUME NEW c \in Children, NEW policy \in {"attached", "detached"},
             create_task_with_run(c, policy)
      PROVE  SubmitShape'
  BY <1>4 DEF create_task_with_run, OwnerIsCurrent, TypeOK, SubmitShape
<1>5. ASSUME NEW t \in Tasks, NEW cause \in Causes, CancelTask(t, cause) PROVE SubmitShape'
  BY <1>5 DEF CancelTask, persist_cancelling, CanCancel, Cancellable, TypeOK, SubmitShape
<1>6. ASSUME NEW t \in Tasks, ExecCancelled(t) PROVE SubmitShape'
  BY <1>6 DEF ExecCancelled, DriverTo, Release, TypeOK, SubmitShape
<1>7. ASSUME NEW t \in Tasks, NEW o \in Outcomes, ExecReturns(t, o) PROVE SubmitShape'
  BY <1>7 DEF ExecReturns, DriverTo, TypeOK, SubmitShape
<1>8. ASSUME NEW t \in Tasks, ReapObserved(t) PROVE SubmitShape'
  BY <1>8 DEF ReapObserved, Release, TypeOK, SubmitShape
<1>9. ASSUME NEW t \in Tasks, CommitRead(t) PROVE SubmitShape'
  BY <1>9 DEF CommitRead, ReadVersion, TypeOK, SubmitShape
<1>10. ASSUME NEW t \in Tasks, CommitConflict(t) PROVE SubmitShape'
  BY <1>10 DEF CommitConflict, DriverTo, TypeOK, SubmitShape
<1>11. ASSUME NEW t \in Tasks, CommitRefused(t) PROVE SubmitShape'
  BY <1>11 DEF CommitRefused, DriverTo, TypeOK, SubmitShape
<1>12. ASSUME NEW t \in Tasks, commit_task_result(t) PROVE SubmitShape'
  <2>1. TaskTarget(req[t]) # "absent"
    BY <1>12, Targets DEF commit_task_result, DriverShape, TerminalTask
  <2> QED
    BY <1>12, <2>1 DEF commit_task_result, Release, TypeOK, SubmitShape
<1>13. ASSUME NEW t \in Tasks, mark_needs_attention(t) PROVE SubmitShape'
  BY <1>13 DEF mark_needs_attention, Release, reject_pending_for_run, TypeOK, SubmitShape
<1>14. ASSUME NEW t \in Tasks, AttentionObserved(t) PROVE SubmitShape'
  BY <1>14 DEF AttentionObserved, Release, TypeOK, SubmitShape
<1>15. ASSUME NEW t \in Tasks, mark_waiting(t) PROVE SubmitShape'
  BY <1>15 DEF mark_waiting, TypeOK, SubmitShape
<1>16. ASSUME NEW t \in Tasks, mark_running(t) PROVE SubmitShape'
  BY <1>16 DEF mark_running, TypeOK, SubmitShape
<1>17. ASSUME NEW t \in Tasks, consume_task_inbox(t) PROVE SubmitShape'
  BY <1>17 DEF consume_task_inbox, TypeOK, SubmitShape
<1>18. ASSUME NEW t \in Tasks, NEW m \in Messages, enqueue_task_message(m, t) PROVE SubmitShape'
  BY <1>18 DEF enqueue_task_message, TypeOK, SubmitShape
<1>19. ASSUME NEW c \in Children, AttachDriver(c) PROVE SubmitShape'
  BY <1>19 DEF AttachDriver, Attach, TypeOK, SubmitShape
<1>20. ASSUME NEW c \in Children, AttachObserved(c) PROVE SubmitShape'
  BY <1>20 DEF AttachObserved, TypeOK, SubmitShape
<1>21. ASSUME NEW c \in Children, ClaimRead(c) PROVE SubmitShape'
  BY <1>21 DEF ClaimRead, ReadVersion, TypeOK, SubmitShape
<1>22. ASSUME NEW c \in Children, claim_task_run(c) PROVE SubmitShape'
  BY <1>22 DEF claim_task_run, DriverTo, TypeOK, SubmitShape
<1>23. ASSUME NEW c \in Children, ClaimConflict(c) PROVE SubmitShape'
  BY <1>23 DEF ClaimConflict, DriverTo, TypeOK, SubmitShape
<1>24. ASSUME NEW c \in Children, ClaimRefused(c) PROVE SubmitShape'
  BY <1>24 DEF ClaimRefused, DriverTo, TypeOK, SubmitShape
<1>25. ASSUME NEW c \in Children, QueuedStop(c) PROVE SubmitShape'
  BY <1>25 DEF QueuedStop, DriverTo, persist_cancelling, CanCancel, Cancellable, TypeOK,
    SubmitShape
<1>26. ASSUME NEW c \in Children, QueuedRelease(c) PROVE SubmitShape'
  BY <1>26 DEF QueuedRelease, Release, TypeOK, SubmitShape
<1>27. ASSUME NEW c \in Children, ExecStop(c) PROVE SubmitShape'
  BY <1>27 DEF ExecStop, DriverTo, persist_cancelling, CanCancel, Cancellable, TypeOK,
    SubmitShape
<1>28. ASSUME NEW c \in Children, await_cleanup_or_reap(c) PROVE SubmitShape'
  BY <1>28 DEF await_cleanup_or_reap, DriverTo, TypeOK, SubmitShape
<1>29. ASSUME NEW c \in Children, ingest_task_result(c) PROVE SubmitShape'
  BY <1>29 DEF ingest_task_result, TypeOK, SubmitShape
<1>30. ASSUME NEW c \in Children, ResolverQuits(c) PROVE SubmitShape'
  BY <1>30 DEF ResolverQuits, TypeOK, SubmitShape
<1>31. ASSUME NEW c \in Children, CascadeCancel(c) PROVE SubmitShape'
  BY <1>31 DEF CascadeCancel, persist_cancelling, CanCancel, Cancellable, TypeOK, SubmitShape
<1>32. ASSUME NEW c \in Children, create_safe_recovery_attempt(c) PROVE SubmitShape'
  BY <1>32 DEF create_safe_recovery_attempt, EpochOwnership, TypeOK, SubmitShape
<1>33. ASSUME NEW c \in Children, dispatch_precreated_recovery(c) PROVE SubmitShape'
  BY <1>33 DEF dispatch_precreated_recovery, Attach, TypeOK, SubmitShape
<1>34. ASSUME NEW m \in Messages, mark_delivered(m) PROVE SubmitShape'
  BY <1>34 DEF mark_delivered, TypeOK, SubmitShape
<1>35. ASSUME CloseIntake PROVE SubmitShape'
  BY <1>35 DEF CloseIntake, TypeOK, SubmitShape
<1>36. ASSUME request_runtime_shutdown PROVE SubmitShape'
  BY <1>36 DEF request_runtime_shutdown, TypeOK, SubmitShape
<1>37. ASSUME ShutdownIntentFails PROVE SubmitShape'
  BY <1>37 DEF ShutdownIntentFails, TypeOK, SubmitShape
<1>38. ASSUME ShutdownReconcile PROVE SubmitShape'
  BY <1>38 DEF ShutdownReconcile, reconcile_runtime, TypeOK, SubmitShape
<1>39. ASSUME ShutdownAbort PROVE SubmitShape'
  BY <1>39 DEF ShutdownAbort, Release, TypeOK, SubmitShape
<1>40. ASSUME Crash PROVE SubmitShape'
  BY <1>40 DEF Crash, Release, TypeOK, SubmitShape
<1>41. ASSUME Restart PROVE SubmitShape'
  BY <1>41 DEF Restart, reconcile_runtime, TypeOK, SubmitShape
<1> QED
  BY <1>1, <1>2, <1>3, <1>4, <1>5, <1>6, <1>7, <1>8, <1>9, <1>10, <1>11, <1>12, <1>13,
    <1>14, <1>15, <1>16, <1>17, <1>18, <1>19, <1>20, <1>21, <1>22, <1>23, <1>24, <1>25,
    <1>26, <1>27, <1>28, <1>29, <1>30, <1>31, <1>32, <1>33, <1>34, <1>35, <1>36, <1>37,
    <1>38, <1>39, <1>40, <1>41 DEF Next, DriverStep, ExecutorStep, FinalizerStep,
    ResolverStep, ProcessStep

(* No driver survives into another attempt: safe recovery needs an older    *)
(* epoch than any driver's.                                                 *)
LEMMA OwnerIsCurrentStep ==
    ASSUME TypeOK, EpochOwnership, SubmitShape, OwnerIsCurrent, Next PROVE OwnerIsCurrent'
<1> USE RuntimeAssumption DEF Tasks, Runs
<1>1. ASSUME StartRoot PROVE OwnerIsCurrent'
  BY <1>1 DEF StartRoot, Attach, TypeOK, OwnerIsCurrent
<1>2. ASSUME commit_tool_invocation_result PROVE OwnerIsCurrent'
  BY <1>2 DEF commit_tool_invocation_result, TypeOK, OwnerIsCurrent
<1>3. ASSUME RootCleanupFails PROVE OwnerIsCurrent'
  BY <1>3 DEF RootCleanupFails, DriverTo, TypeOK, OwnerIsCurrent
<1>4. ASSUME NEW c \in Children, NEW policy \in {"attached", "detached"},
             create_task_with_run(c, policy)
      PROVE  OwnerIsCurrent'
  BY <1>4 DEF create_task_with_run, TypeOK, OwnerIsCurrent
<1>5. ASSUME NEW t \in Tasks, NEW cause \in Causes, CancelTask(t, cause) PROVE OwnerIsCurrent'
  BY <1>5 DEF CancelTask, persist_cancelling, CanCancel, Cancellable, TypeOK, OwnerIsCurrent
<1>6. ASSUME NEW t \in Tasks, ExecCancelled(t) PROVE OwnerIsCurrent'
  BY <1>6 DEF ExecCancelled, DriverTo, Release, TypeOK, OwnerIsCurrent
<1>7. ASSUME NEW t \in Tasks, NEW o \in Outcomes, ExecReturns(t, o) PROVE OwnerIsCurrent'
  BY <1>7 DEF ExecReturns, DriverTo, TypeOK, OwnerIsCurrent
<1>8. ASSUME NEW t \in Tasks, ReapObserved(t) PROVE OwnerIsCurrent'
  BY <1>8 DEF ReapObserved, Release, TypeOK, OwnerIsCurrent
<1>9. ASSUME NEW t \in Tasks, CommitRead(t) PROVE OwnerIsCurrent'
  BY <1>9 DEF CommitRead, ReadVersion, TypeOK, OwnerIsCurrent
<1>10. ASSUME NEW t \in Tasks, CommitConflict(t) PROVE OwnerIsCurrent'
  BY <1>10 DEF CommitConflict, DriverTo, TypeOK, OwnerIsCurrent
<1>11. ASSUME NEW t \in Tasks, CommitRefused(t) PROVE OwnerIsCurrent'
  BY <1>11 DEF CommitRefused, DriverTo, TypeOK, OwnerIsCurrent
<1>12. ASSUME NEW t \in Tasks, commit_task_result(t) PROVE OwnerIsCurrent'
  BY <1>12 DEF commit_task_result, Release, reject_pending_for_run, TypeOK, OwnerIsCurrent
<1>13. ASSUME NEW t \in Tasks, mark_needs_attention(t) PROVE OwnerIsCurrent'
  BY <1>13 DEF mark_needs_attention, Release, reject_pending_for_run, TypeOK, OwnerIsCurrent
<1>14. ASSUME NEW t \in Tasks, AttentionObserved(t) PROVE OwnerIsCurrent'
  BY <1>14 DEF AttentionObserved, Release, TypeOK, OwnerIsCurrent
<1>15. ASSUME NEW t \in Tasks, mark_waiting(t) PROVE OwnerIsCurrent'
  BY <1>15 DEF mark_waiting, TypeOK, OwnerIsCurrent
<1>16. ASSUME NEW t \in Tasks, mark_running(t) PROVE OwnerIsCurrent'
  BY <1>16 DEF mark_running, TypeOK, OwnerIsCurrent
<1>17. ASSUME NEW t \in Tasks, consume_task_inbox(t) PROVE OwnerIsCurrent'
  BY <1>17 DEF consume_task_inbox, TypeOK, OwnerIsCurrent
<1>18. ASSUME NEW t \in Tasks, NEW m \in Messages, enqueue_task_message(m, t)
      PROVE  OwnerIsCurrent'
  BY <1>18 DEF enqueue_task_message, TypeOK, OwnerIsCurrent
<1>19. ASSUME NEW c \in Children, AttachDriver(c) PROVE OwnerIsCurrent'
  BY <1>19 DEF AttachDriver, Attach, SubmitShape, TypeOK, OwnerIsCurrent
<1>20. ASSUME NEW c \in Children, AttachObserved(c) PROVE OwnerIsCurrent'
  BY <1>20 DEF AttachObserved, TypeOK, OwnerIsCurrent
<1>21. ASSUME NEW c \in Children, ClaimRead(c) PROVE OwnerIsCurrent'
  BY <1>21 DEF ClaimRead, ReadVersion, TypeOK, OwnerIsCurrent
<1>22. ASSUME NEW c \in Children, claim_task_run(c) PROVE OwnerIsCurrent'
  BY <1>22 DEF claim_task_run, DriverTo, TypeOK, OwnerIsCurrent
<1>23. ASSUME NEW c \in Children, ClaimConflict(c) PROVE OwnerIsCurrent'
  BY <1>23 DEF ClaimConflict, DriverTo, TypeOK, OwnerIsCurrent
<1>24. ASSUME NEW c \in Children, ClaimRefused(c) PROVE OwnerIsCurrent'
  BY <1>24 DEF ClaimRefused, DriverTo, TypeOK, OwnerIsCurrent
<1>25. ASSUME NEW c \in Children, QueuedStop(c) PROVE OwnerIsCurrent'
  BY <1>25 DEF QueuedStop, DriverTo, persist_cancelling, CanCancel, Cancellable, TypeOK,
    OwnerIsCurrent
<1>26. ASSUME NEW c \in Children, QueuedRelease(c) PROVE OwnerIsCurrent'
  BY <1>26 DEF QueuedRelease, Release, TypeOK, OwnerIsCurrent
<1>27. ASSUME NEW c \in Children, ExecStop(c) PROVE OwnerIsCurrent'
  BY <1>27 DEF ExecStop, DriverTo, persist_cancelling, CanCancel, Cancellable, TypeOK,
    OwnerIsCurrent
<1>28. ASSUME NEW c \in Children, await_cleanup_or_reap(c) PROVE OwnerIsCurrent'
  BY <1>28 DEF await_cleanup_or_reap, DriverTo, TypeOK, OwnerIsCurrent
<1>29. ASSUME NEW c \in Children, ingest_task_result(c) PROVE OwnerIsCurrent'
  BY <1>29 DEF ingest_task_result, TypeOK, OwnerIsCurrent
<1>30. ASSUME NEW c \in Children, ResolverQuits(c) PROVE OwnerIsCurrent'
  BY <1>30 DEF ResolverQuits, TypeOK, OwnerIsCurrent
<1>31. ASSUME NEW c \in Children, CascadeCancel(c) PROVE OwnerIsCurrent'
  BY <1>31 DEF CascadeCancel, persist_cancelling, CanCancel, Cancellable, TypeOK, OwnerIsCurrent
<1>32. ASSUME NEW c \in Children, create_safe_recovery_attempt(c) PROVE OwnerIsCurrent'
  BY <1>32 DEF create_safe_recovery_attempt, EpochOwnership, TypeOK, OwnerIsCurrent
<1>33. ASSUME NEW c \in Children, dispatch_precreated_recovery(c) PROVE OwnerIsCurrent'
  BY <1>33 DEF dispatch_precreated_recovery, Attach, TypeOK, OwnerIsCurrent
<1>34. ASSUME NEW m \in Messages, mark_delivered(m) PROVE OwnerIsCurrent'
  BY <1>34 DEF mark_delivered, TypeOK, OwnerIsCurrent
<1>35. ASSUME CloseIntake PROVE OwnerIsCurrent'
  BY <1>35 DEF CloseIntake, TypeOK, OwnerIsCurrent
<1>36. ASSUME request_runtime_shutdown PROVE OwnerIsCurrent'
  BY <1>36 DEF request_runtime_shutdown, TypeOK, OwnerIsCurrent
<1>37. ASSUME ShutdownIntentFails PROVE OwnerIsCurrent'
  BY <1>37 DEF ShutdownIntentFails, TypeOK, OwnerIsCurrent
<1>38. ASSUME ShutdownReconcile PROVE OwnerIsCurrent'
  BY <1>38 DEF ShutdownReconcile, reconcile_runtime, TypeOK, OwnerIsCurrent
<1>39. ASSUME ShutdownAbort PROVE OwnerIsCurrent'
  BY <1>39 DEF ShutdownAbort, Release, TypeOK, OwnerIsCurrent
<1>40. ASSUME Crash PROVE OwnerIsCurrent'
  BY <1>40 DEF Crash, Release, TypeOK, OwnerIsCurrent
<1>41. ASSUME Restart PROVE OwnerIsCurrent'
  BY <1>41 DEF Restart, reconcile_runtime, TypeOK, OwnerIsCurrent
<1> QED
  BY <1>1, <1>2, <1>3, <1>4, <1>5, <1>6, <1>7, <1>8, <1>9, <1>10, <1>11, <1>12, <1>13,
    <1>14, <1>15, <1>16, <1>17, <1>18, <1>19, <1>20, <1>21, <1>22, <1>23, <1>24, <1>25,
    <1>26, <1>27, <1>28, <1>29, <1>30, <1>31, <1>32, <1>33, <1>34, <1>35, <1>36, <1>37,
    <1>38, <1>39, <1>40, <1>41 DEF Next, DriverStep, ExecutorStep, FinalizerStep,
    ResolverStep, ProcessStep

(* A process owns what is active, and loses all of it when it ends. *)
LEMMA EpochOwnershipStep ==
    ASSUME TypeOK, PairAgreement, OwnerIsCurrent, EpochOwnership, Next PROVE EpochOwnership'
<1> USE RuntimeAssumption DEF Tasks, Runs
<1>1. ASSUME StartRoot PROVE EpochOwnership'
  <2>1. /\ ActiveRuns' \subseteq ActiveRuns \cup {Cur(Root)}
        /\ run_epoch' = [run_epoch EXCEPT ![Cur(Root)] = epoch]
        /\ phase' = "up" /\ phase = "up" /\ epoch' = epoch /\ current_run' = current_run
        /\ Cur(Root) \in Runs
    BY <1>1 DEF StartRoot, accepting_execution, TypeOK, ActiveRuns, Active
  <2>2. \A r \in Runs : run_epoch[r] = epoch => run_epoch'[r] = epoch
    BY <2>1 DEF TypeOK
  <2>3. \A t \in Tasks : drv'[t] # "none" => run_epoch'[<<t, current_run[t]>>] = epoch
    BY <1>1, <2>1, <2>2 DEF StartRoot, Attach, TypeOK, EpochOwnership
  <2> QED
    BY <1>1, <2>1, <2>2, <2>3 DEF StartRoot, TypeOK, EpochOwnership, ActiveRuns
<1>2. ASSUME commit_tool_invocation_result PROVE EpochOwnership'
  BY <1>2 DEF commit_tool_invocation_result, TypeOK, OwnerIsCurrent, EpochOwnership,
    ActiveRuns, Active
<1>3. ASSUME RootCleanupFails PROVE EpochOwnership'
  BY <1>3 DEF RootCleanupFails, DriverTo, TypeOK, OwnerIsCurrent, EpochOwnership,
    ActiveRuns, Active
<1>4. ASSUME NEW c \in Children, NEW policy \in {"attached", "detached"},
             create_task_with_run(c, policy)
      PROVE  EpochOwnership'
  BY <1>4 DEF create_task_with_run, accepting_execution, TypeOK, OwnerIsCurrent,
    EpochOwnership, ActiveRuns, Active
<1>5. ASSUME NEW t \in Tasks, NEW cause \in Causes, CancelTask(t, cause) PROVE EpochOwnership'
  <2>1. ActiveRuns' \subseteq ActiveRuns
    BY <1>5 DEF CancelTask, persist_cancelling, CanCancel, Cancellable, TypeOK, ActiveRuns,
      Active
  <2> QED
    BY <1>5, <2>1 DEF CancelTask, persist_cancelling, CanCancel, Cancellable, TypeOK,
      EpochOwnership
<1>6. ASSUME NEW t \in Tasks, ExecCancelled(t) PROVE EpochOwnership'
  BY <1>6 DEF ExecCancelled, DriverTo, Release, TypeOK, OwnerIsCurrent, EpochOwnership,
    ActiveRuns, Active
<1>7. ASSUME NEW t \in Tasks, NEW o \in Outcomes, ExecReturns(t, o) PROVE EpochOwnership'
  BY <1>7 DEF ExecReturns, DriverTo, TypeOK, OwnerIsCurrent, EpochOwnership, ActiveRuns, Active
<1>8. ASSUME NEW t \in Tasks, ReapObserved(t) PROVE EpochOwnership'
  BY <1>8 DEF ReapObserved, Release, TypeOK, OwnerIsCurrent, EpochOwnership, ActiveRuns, Active
<1>9. ASSUME NEW t \in Tasks, CommitRead(t) PROVE EpochOwnership'
  BY <1>9 DEF CommitRead, ReadVersion, TypeOK, OwnerIsCurrent, EpochOwnership, ActiveRuns,
    Active
<1>10. ASSUME NEW t \in Tasks, CommitConflict(t) PROVE EpochOwnership'
  BY <1>10 DEF CommitConflict, DriverTo, TypeOK, OwnerIsCurrent, EpochOwnership, ActiveRuns,
    Active
<1>11. ASSUME NEW t \in Tasks, CommitRefused(t) PROVE EpochOwnership'
  BY <1>11 DEF CommitRefused, DriverTo, TypeOK, OwnerIsCurrent, EpochOwnership, ActiveRuns,
    Active
<1>12. ASSUME NEW t \in Tasks, commit_task_result(t) PROVE EpochOwnership'
  BY <1>12 DEF commit_task_result, Release, reject_pending_for_run, TypeOK, OwnerIsCurrent,
    EpochOwnership, ActiveRuns, Active
<1>13. ASSUME NEW t \in Tasks, mark_needs_attention(t) PROVE EpochOwnership'
  BY <1>13 DEF mark_needs_attention, Release, reject_pending_for_run, TypeOK,
    OwnerIsCurrent, EpochOwnership, ActiveRuns, Active
<1>14. ASSUME NEW t \in Tasks, AttentionObserved(t) PROVE EpochOwnership'
  BY <1>14 DEF AttentionObserved, Release, TypeOK, OwnerIsCurrent, EpochOwnership,
    ActiveRuns, Active
<1>15. ASSUME NEW t \in Tasks, mark_waiting(t) PROVE EpochOwnership'
  BY <1>15 DEF mark_waiting, TypeOK, OwnerIsCurrent, EpochOwnership, ActiveRuns, Active
<1>16. ASSUME NEW t \in Tasks, mark_running(t) PROVE EpochOwnership'
  <2>1. ActiveRuns' \subseteq ActiveRuns
    BY <1>16 DEF mark_running, TypeOK, ActiveRuns, Active
  <2> QED
    BY <1>16, <2>1 DEF mark_running, TypeOK, EpochOwnership
<1>17. ASSUME NEW t \in Tasks, consume_task_inbox(t) PROVE EpochOwnership'
  BY <1>17 DEF consume_task_inbox, TypeOK, OwnerIsCurrent, EpochOwnership, ActiveRuns, Active
<1>18. ASSUME NEW t \in Tasks, NEW m \in Messages, enqueue_task_message(m, t)
      PROVE  EpochOwnership'
  BY <1>18 DEF enqueue_task_message, TypeOK, OwnerIsCurrent, EpochOwnership, ActiveRuns, Active
<1>19. ASSUME NEW c \in Children, AttachDriver(c) PROVE EpochOwnership'
  BY <1>19 DEF AttachDriver, Attach, TypeOK, OwnerIsCurrent, EpochOwnership, ActiveRuns, Active
<1>20. ASSUME NEW c \in Children, AttachObserved(c) PROVE EpochOwnership'
  BY <1>20 DEF AttachObserved, TypeOK, OwnerIsCurrent, EpochOwnership, ActiveRuns, Active
<1>21. ASSUME NEW c \in Children, ClaimRead(c) PROVE EpochOwnership'
  BY <1>21 DEF ClaimRead, ReadVersion, TypeOK, OwnerIsCurrent, EpochOwnership, ActiveRuns,
    Active
<1>22. ASSUME NEW c \in Children, claim_task_run(c) PROVE EpochOwnership'
  BY <1>22 DEF claim_task_run, DriverTo, TypeOK, OwnerIsCurrent, EpochOwnership, ActiveRuns,
    Active
<1>23. ASSUME NEW c \in Children, ClaimConflict(c) PROVE EpochOwnership'
  BY <1>23 DEF ClaimConflict, DriverTo, TypeOK, OwnerIsCurrent, EpochOwnership, ActiveRuns,
    Active
<1>24. ASSUME NEW c \in Children, ClaimRefused(c) PROVE EpochOwnership'
  BY <1>24 DEF ClaimRefused, DriverTo, TypeOK, OwnerIsCurrent, EpochOwnership, ActiveRuns,
    Active
<1>25. ASSUME NEW c \in Children, QueuedStop(c) PROVE EpochOwnership'
  BY <1>25 DEF QueuedStop, DriverTo, persist_cancelling, CanCancel, Cancellable, TypeOK,
    OwnerIsCurrent, EpochOwnership, ActiveRuns, Active
<1>26. ASSUME NEW c \in Children, QueuedRelease(c) PROVE EpochOwnership'
  BY <1>26 DEF QueuedRelease, Release, TypeOK, OwnerIsCurrent, EpochOwnership, ActiveRuns,
    Active
<1>27. ASSUME NEW c \in Children, ExecStop(c) PROVE EpochOwnership'
  BY <1>27 DEF ExecStop, DriverTo, persist_cancelling, CanCancel, Cancellable, TypeOK,
    OwnerIsCurrent, EpochOwnership, ActiveRuns, Active
<1>28. ASSUME NEW c \in Children, await_cleanup_or_reap(c) PROVE EpochOwnership'
  BY <1>28 DEF await_cleanup_or_reap, DriverTo, TypeOK, OwnerIsCurrent, EpochOwnership,
    ActiveRuns, Active
<1>29. ASSUME NEW c \in Children, ingest_task_result(c) PROVE EpochOwnership'
  <2>1. ActiveRuns' \subseteq ActiveRuns
    <3>1. CASE Unresolved(c) = {}
      <4>1. /\ run_status' = [run_status EXCEPT ![Cur(Root)] = "running"]
            /\ run_status[Cur(Root)] = "waitingDependencies"
        BY <1>29, <3>1 DEF ingest_task_result
      <4> QED
        BY <4>1 DEF TypeOK, ActiveRuns, Active
    <3>2. CASE Unresolved(c) # {}
      BY <1>29, <3>2 DEF ingest_task_result, ActiveRuns
    <3> QED
      BY <3>1, <3>2
  <2> QED
    BY <1>29, <2>1 DEF ingest_task_result, TypeOK, EpochOwnership
<1>30. ASSUME NEW c \in Children, ResolverQuits(c) PROVE EpochOwnership'
  BY <1>30 DEF ResolverQuits, TypeOK, OwnerIsCurrent, EpochOwnership, ActiveRuns, Active
<1>31. ASSUME NEW c \in Children, CascadeCancel(c) PROVE EpochOwnership'
  <2>1. ActiveRuns' \subseteq ActiveRuns
    BY <1>31 DEF CascadeCancel, persist_cancelling, CanCancel, Cancellable, TypeOK,
      ActiveRuns, Active
  <2> QED
    BY <1>31, <2>1 DEF CascadeCancel, persist_cancelling, CanCancel, Cancellable, TypeOK,
      EpochOwnership
<1>32. ASSUME NEW c \in Children, create_safe_recovery_attempt(c) PROVE EpochOwnership'
  BY <1>32 DEF create_safe_recovery_attempt, TypeOK, OwnerIsCurrent, EpochOwnership,
    ActiveRuns, Active
<1>33. ASSUME NEW c \in Children, dispatch_precreated_recovery(c) PROVE EpochOwnership'
  <2>1. Cur(c) \in ActiveRuns /\ phase = "up"
    BY <1>33 DEF dispatch_precreated_recovery, accepting_execution, TypeOK, ActiveRuns, Active
  <2> QED
    BY <1>33, <2>1 DEF dispatch_precreated_recovery, Attach, TypeOK, EpochOwnership, ActiveRuns
<1>34. ASSUME NEW m \in Messages, mark_delivered(m) PROVE EpochOwnership'
  BY <1>34 DEF mark_delivered, TypeOK, OwnerIsCurrent, EpochOwnership, ActiveRuns, Active
<1>35. ASSUME CloseIntake PROVE EpochOwnership'
  BY <1>35 DEF CloseIntake, TypeOK, OwnerIsCurrent, EpochOwnership, ActiveRuns, Active
<1>36. ASSUME request_runtime_shutdown PROVE EpochOwnership'
  BY <1>36 DEF request_runtime_shutdown, TypeOK, OwnerIsCurrent, EpochOwnership, ActiveRuns,
    Active
<1>37. ASSUME ShutdownIntentFails PROVE EpochOwnership'
  BY <1>37 DEF ShutdownIntentFails, TypeOK, OwnerIsCurrent, EpochOwnership, ActiveRuns, Active
<1>38. ASSUME ShutdownReconcile PROVE EpochOwnership'
  BY <1>38 DEF ShutdownReconcile, reconcile_runtime, TypeOK, OwnerIsCurrent, EpochOwnership,
    ActiveRuns, Active
<1>39. ASSUME ShutdownAbort PROVE EpochOwnership'
  BY <1>39 DEF ShutdownAbort, Release, TypeOK, EpochOwnership, ActiveRuns
<1>40. ASSUME Crash PROVE EpochOwnership'
  BY <1>40 DEF Crash, Release, TypeOK, OwnerIsCurrent, EpochOwnership, ActiveRuns, Active
<1>41. ASSUME Restart PROVE EpochOwnership'
  BY <1>41 DEF Restart, reconcile_runtime, TypeOK, OwnerIsCurrent, EpochOwnership,
    ActiveRuns, Active
<1> QED
  BY <1>1, <1>2, <1>3, <1>4, <1>5, <1>6, <1>7, <1>8, <1>9, <1>10, <1>11, <1>12, <1>13,
    <1>14, <1>15, <1>16, <1>17, <1>18, <1>19, <1>20, <1>21, <1>22, <1>23, <1>24, <1>25,
    <1>26, <1>27, <1>28, <1>29, <1>30, <1>31, <1>32, <1>33, <1>34, <1>35, <1>36, <1>37,
    <1>38, <1>39, <1>40, <1>41 DEF Next, DriverStep, ExecutorStep, FinalizerStep,
    ResolverStep, ProcessStep

----------------------------------------------------------------------------
(* The steps that move rows. *)

rows == <<task_status, current_run, run_status, requested_exit, exit_reason, results>>
RowStep ==
    \/ StartRoot
    \/ \E c \in Children, policy \in {"attached", "detached"} : create_task_with_run(c, policy)
    \/ \E t \in Tasks, cause \in Causes : CancelTask(t, cause)
    \/ \E t \in Tasks : commit_task_result(t)
    \/ \E t \in Tasks : mark_needs_attention(t)
    \/ \E t \in Tasks : mark_waiting(t)
    \/ \E t \in Tasks : mark_running(t)
    \/ \E c \in Children : claim_task_run(c)
    \/ \E c \in Children : QueuedStop(c)
    \/ \E c \in Children : ExecStop(c)
    \/ \E c \in Children : ingest_task_result(c)
    \/ \E c \in Children : CascadeCancel(c)
    \/ \E c \in Children : create_safe_recovery_attempt(c)
    \/ request_runtime_shutdown
    \/ ShutdownReconcile
    \/ Restart

(* Every other step leaves Tasks, Runs, causes and results alone. *)
LEMMA OtherSteps ==
    ASSUME Next, ~ RowStep PROVE UNCHANGED rows
  BY DEF Next, DriverStep, ExecutorStep, FinalizerStep, ResolverStep, ProcessStep, RowStep,
    rows,
    commit_tool_invocation_result, RootCleanupFails, ExecCancelled, ExecReturns,
      ReapObserved, CommitRead, CommitConflict, CommitRefused, AttentionObserved,
      consume_task_inbox, enqueue_task_message, AttachDriver, AttachObserved, ClaimRead,
      ClaimConflict, ClaimRefused, QueuedRelease, await_cleanup_or_reap, ResolverQuits,
      dispatch_precreated_recovery, mark_delivered, CloseIntake, ShutdownIntentFails,
      ShutdownAbort, Crash

(* The sweeps' assumption follows from the pairing of current rows. *)
LEMMA PairOfRows ==
    ASSUME TypeOK,
           \A t \in Tasks : Paired(task_status[t], run_status[Cur(t)]),
           \A r \in ActiveRuns : r = Cur(r[1])
    PROVE  PairAgreement
  BY DEF PairAgreement, SweepMatches, ActiveRuns, Paired, TypeOK, Runs, Active,
    TerminalTask, TerminalRun

(* One Task and its current Run move together into a pair. *)
LEMMA PairUpdate ==
    ASSUME TypeOK, TypeOK', PairAgreement, UNCHANGED current_run,
           NEW t \in Tasks, NEW x, NEW y, Paired(x, y), y # "absent",
           task_status' = [task_status EXCEPT ![t] = x],
           run_status' = [run_status EXCEPT ![Cur(t)] = y]
    PROVE  PairAgreement'
<1>1. \A u \in Tasks : Cur(u) \in Runs /\ Cur(u)' = Cur(u)
  BY DEF TypeOK, Runs
<1>2. \A u \in Tasks : Paired(task_status'[u], run_status'[Cur(u)])
  BY <1>1 DEF TypeOK, PairAgreement
<1>3. \A r \in ActiveRuns' : r = Cur(r[1])
  BY <1>1 DEF TypeOK, PairAgreement, ActiveRuns
<1>4. \A r \in ActiveRuns' : r = Cur(r[1])'
  BY <1>3
<1>5. \A u \in Tasks : Paired(task_status[u], run_status[Cur(u)])'
  BY <1>1, <1>2 DEF Paired
<1> QED
  BY <1>4, <1>5, PairOfRows DEF PairAgreement, SweepMatches, ActiveRuns, Paired, TypeOK,
    Runs, Active, TerminalTask, TerminalRun

(* Task and Run rows are moved in pairs by every transaction. *)
LEMMA PairAgreementStep ==
    ASSUME TypeOK, TypeOK', DriverShape, OwnerIsCurrent, SubmitShape, PairAgreement, Next
    PROVE  PairAgreement'
<1> USE RuntimeAssumption DEF Tasks
<1>0. ASSUME NEW t \in Tasks, NEW cause, persist_cancelling(t, cause) PROVE PairAgreement'
  <2>1. CASE CanCancel(t)
    <3>1. Paired("cancelling", "cancelling")
      BY DEF Paired, Active
    <3> QED
      BY <1>0, <2>1, <3>1, PairUpdate DEF persist_cancelling
  <2>2. CASE ~ CanCancel(t)
    BY <1>0, <2>2 DEF persist_cancelling, PairAgreement, SweepMatches, ActiveRuns
  <2> QED
    BY <2>1, <2>2
<1>1. CASE StartRoot
  BY <1>1, PairUpdate DEF StartRoot, Paired, Active
<1>2. ASSUME NEW c \in Children, NEW policy \in {"attached", "detached"},
             create_task_with_run(c, policy)
      PROVE  PairAgreement'
  <2>1. c # Root /\ Cur(c) \in Runs /\ Cur(Root) \in Runs
    BY DEF TypeOK, Runs
  <2>2. \A t \in Tasks \ {c, Root} : /\ task_status'[t] = task_status[t]
                                    /\ run_status'[Cur(t)] = run_status[Cur(t)]
    BY <1>2, <2>1 DEF create_task_with_run, TypeOK, Runs
  <2>3. task_status'[c] = "queued" /\ run_status'[Cur(c)] = "queued"
    BY <1>2, <2>1 DEF create_task_with_run, TypeOK
  <2>4. /\ task_status'[Root] = run_status'[Cur(Root)]
        /\ task_status'[Root] \in {"queued", "running", "waitingDependencies"}
    BY <1>2, <2>1 DEF create_task_with_run, TypeOK
  <2>5. \A r \in Runs : r \notin {Cur(c), Cur(Root)} => run_status'[r] = run_status[r]
    BY <1>2, <2>1 DEF create_task_with_run, TypeOK
  <2>6. UNCHANGED current_run
    BY <1>2 DEF create_task_with_run
  <2>7. \A t \in Tasks : Paired(task_status[t], run_status[Cur(t)])'
    BY <2>2, <2>3, <2>4, <2>6 DEF PairAgreement, Paired, Active
  <2>8. \A r \in ActiveRuns' : r = Cur(r[1])'
    BY <2>5, <2>6, <2>1 DEF PairAgreement, ActiveRuns
  <2> QED
    BY <2>7, <2>8, PairOfRows DEF PairAgreement, SweepMatches, ActiveRuns, Paired, TypeOK,
      Runs, Active, TerminalTask, TerminalRun
<1>3. ASSUME NEW t \in Tasks, NEW cause \in Causes, CancelTask(t, cause) PROVE PairAgreement'
  BY <1>0, <1>3 DEF CancelTask
<1>4. ASSUME NEW t \in Tasks, commit_task_result(t) PROVE PairAgreement'
  <2>1. req[t] \in ResultStatus /\ own[t] = current_run[t]
    BY <1>4 DEF commit_task_result, DriverShape, Committable
  <2>2. Paired(TaskTarget(req[t]), RunTarget(req[t])) /\ RunTarget(req[t]) # "absent"
    BY <2>1, Targets DEF Paired, TerminalRun
  <2> QED
    BY <1>4, <2>1, <2>2, PairUpdate DEF commit_task_result
<1>5. ASSUME NEW t \in Tasks, mark_needs_attention(t) PROVE PairAgreement'
  BY <1>5, PairUpdate DEF mark_needs_attention, Paired
<1>6. ASSUME NEW t \in Tasks, mark_waiting(t) PROVE PairAgreement'
  <2>1. task_status[t] = "running" /\ task_status' = [task_status EXCEPT ![t] = "running"]
    BY <1>6 DEF mark_waiting, PairAgreement, Paired, Active, TerminalRun, TypeOK
  <2> QED
    BY <1>6, <2>1, PairUpdate DEF mark_waiting, Paired
<1>7. ASSUME NEW t \in Tasks, mark_running(t) PROVE PairAgreement'
  <2>1. task_status[t] = "running" /\ task_status' = [task_status EXCEPT ![t] = "running"]
    BY <1>7 DEF mark_running, PairAgreement, Paired, Active, TerminalRun, TypeOK
  <2> QED
    BY <1>7, <2>1, PairUpdate DEF mark_running, Paired, Active
<1>8. ASSUME NEW c \in Children, claim_task_run(c) PROVE PairAgreement'
  BY <1>8, PairUpdate DEF claim_task_run, Paired, Active
<1>9. ASSUME NEW c \in Children, QueuedStop(c) \/ ExecStop(c) PROVE PairAgreement'
  BY <1>0, <1>9 DEF QueuedStop, ExecStop
<1>10. ASSUME NEW c \in Children, ingest_task_result(c) PROVE PairAgreement'
  <2>1. CASE Unresolved(c) = {}
    BY <1>10, <2>1, PairUpdate DEF ingest_task_result, Paired, Active
  <2>2. CASE Unresolved(c) # {}
    BY <1>10, <2>2 DEF ingest_task_result, PairAgreement, SweepMatches, ActiveRuns
  <2> QED
    BY <2>1, <2>2
<1>11. ASSUME NEW c \in Children, CascadeCancel(c) PROVE PairAgreement'
  BY <1>0, <1>11 DEF CascadeCancel
<1>12. ASSUME NEW c \in Children, create_safe_recovery_attempt(c) PROVE PairAgreement'
  <2> DEFINE next == <<c, current_run[c] + 1>>
  <2>1. next \in Runs /\ Cur(c) \in Runs
    BY <1>12 DEF create_safe_recovery_attempt, TypeOK, Runs, Attempts
  <2>2. /\ current_run'[c] = current_run[c] + 1
        /\ \A t \in Tasks \ {c} : current_run'[t] = current_run[t]
    BY <1>12 DEF create_safe_recovery_attempt, TypeOK
  <2>3. \A r \in Runs : run_status'[r] = IF r = next THEN "queued" ELSE run_status[r]
    BY <1>12, <2>1 DEF create_safe_recovery_attempt, TypeOK
  <2>4. \A t \in Tasks : task_status'[t] = IF t = c THEN "queued" ELSE task_status[t]
    BY <1>12 DEF create_safe_recovery_attempt, TypeOK
  <2>5. \A t \in Tasks : Paired(task_status[t], run_status[Cur(t)])'
    BY <2>1, <2>2, <2>3, <2>4 DEF PairAgreement, Paired, Active, TypeOK, Runs
  <2>6. \A r \in ActiveRuns : r[1] # c
    BY <1>12 DEF create_safe_recovery_attempt, PairAgreement, ActiveRuns, Active
  <2>7. \A r \in ActiveRuns' : r = Cur(r[1])'
    BY <2>2, <2>3, <2>6 DEF PairAgreement, ActiveRuns, Runs
  <2> QED
    BY <2>5, <2>7, PairOfRows DEF PairAgreement, SweepMatches, ActiveRuns, Paired, TypeOK,
      Runs, Active, TerminalTask, TerminalRun
<1>13. CASE request_runtime_shutdown
  BY <1>13 DEF request_runtime_shutdown, TypeOK, PairAgreement, Paired, SweepMatches,
    ActiveRuns, Active, TerminalRun, TerminalTask, Runs
<1>14. CASE ShutdownReconcile \/ Restart
  BY <1>14 DEF ShutdownReconcile, Restart, reconcile_runtime, TypeOK, PairAgreement, Paired,
    SweepMatches, ActiveRuns, Active, TerminalRun, TerminalTask, Runs
<1>15. CASE ~ RowStep
  BY <1>15, OtherSteps DEF rows, PairAgreement, SweepMatches, ActiveRuns
<1> QED
  BY <1>1, <1>2, <1>3, <1>4, <1>5, <1>6, <1>7, <1>8, <1>9, <1>10, <1>11, <1>12, <1>13,
     <1>14, <1>15 DEF RowStep

(* A step that settles nothing and leaves what is settled alone. *)
KeepsSettled ==
    /\ UNCHANGED results
    /\ \A t \in Tasks :
          IF task_status[t] \in TerminalTask
          THEN /\ task_status'[t] = task_status[t] /\ current_run'[t] = current_run[t]
               /\ run_status'[Cur(t)] = run_status[Cur(t)]
               /\ requested_exit'[Cur(t)] = requested_exit[Cur(t)]
          ELSE task_status'[t] \notin TerminalTask

(* Only commit_task_result settles a Task. *)
LEMMA SettledSteps ==
    ASSUME TypeOK, PairAgreement, OwnerIsCurrent, Next
    PROVE  KeepsSettled \/ \E t \in Tasks : commit_task_result(t)
<1> USE RuntimeAssumption DEF Tasks, TerminalTask
<1>a. \A t \in Tasks : Cur(t) \in Runs
  BY DEF TypeOK, Runs
<1>0. ASSUME NEW t \in Tasks, NEW cause, persist_cancelling(t, cause), UNCHANGED results
      PROVE KeepsSettled
  BY <1>0, <1>a DEF persist_cancelling, CanCancel, Cancellable, KeepsSettled, TypeOK
<1>1. CASE StartRoot
  BY <1>1, <1>a DEF StartRoot, KeepsSettled, TypeOK
<1>2. ASSUME NEW c \in Children, NEW policy \in {"attached", "detached"},
             create_task_with_run(c, policy)
      PROVE  KeepsSettled
  BY <1>2, <1>a DEF create_task_with_run, KeepsSettled, TypeOK
<1>3. ASSUME NEW t \in Tasks, NEW cause \in Causes, CancelTask(t, cause) PROVE KeepsSettled
  BY <1>0, <1>3 DEF CancelTask
<1>5. ASSUME NEW t \in Tasks, mark_needs_attention(t) PROVE KeepsSettled
  BY <1>5, <1>a DEF mark_needs_attention, KeepsSettled, TypeOK, Active
<1>6. ASSUME NEW t \in Tasks, mark_waiting(t) \/ mark_running(t) PROVE KeepsSettled
  BY <1>6, <1>a DEF mark_waiting, mark_running, KeepsSettled, TypeOK, PairAgreement, Paired,
    Active, TerminalRun
<1>8. ASSUME NEW c \in Children, claim_task_run(c) PROVE KeepsSettled
  BY <1>8, <1>a DEF claim_task_run, CanClaim, KeepsSettled, TypeOK
<1>9. ASSUME NEW c \in Children, QueuedStop(c) \/ ExecStop(c) PROVE KeepsSettled
  BY <1>0, <1>9 DEF QueuedStop, ExecStop
<1>10. ASSUME NEW c \in Children, ingest_task_result(c) PROVE KeepsSettled
  <2>1. CASE Unresolved(c) = {}
    BY <1>10, <1>a, <2>1 DEF ingest_task_result, KeepsSettled, TypeOK
  <2>2. CASE Unresolved(c) # {}
    BY <1>10, <2>2 DEF ingest_task_result, KeepsSettled
  <2> QED
    BY <2>1, <2>2
<1>11. ASSUME NEW c \in Children, CascadeCancel(c) PROVE KeepsSettled
  BY <1>0, <1>11 DEF CascadeCancel
<1>12. ASSUME NEW c \in Children, create_safe_recovery_attempt(c) PROVE KeepsSettled
  BY <1>12, <1>a DEF create_safe_recovery_attempt, KeepsSettled, TypeOK
<1>13. CASE request_runtime_shutdown
  BY <1>13, <1>a DEF request_runtime_shutdown, KeepsSettled, TypeOK, PairAgreement, Paired,
    ActiveRuns, Active, TerminalRun
<1>14. CASE ShutdownReconcile \/ Restart
  BY <1>14, <1>a DEF ShutdownReconcile, Restart, reconcile_runtime, KeepsSettled, TypeOK,
    PairAgreement, Paired, ActiveRuns, Active, TerminalRun
<1>15. CASE ~ RowStep
  BY <1>15, OtherSteps DEF rows, KeepsSettled
<1> QED
  BY <1>1, <1>2, <1>3, <1>5, <1>6, <1>8, <1>9, <1>10, <1>11, <1>12, <1>13, <1>14, <1>15
  DEF RowStep

(* A result and its terminal rows are written together, once. *)
LEMMA ResultMatchesTerminalStep ==
    ASSUME TypeOK, DriverShape, PairAgreement, OwnerIsCurrent, ResultMatchesTerminal, Next
    PROVE  ResultMatchesTerminal'
<1>1. CASE KeepsSettled
  BY <1>1 DEF KeepsSettled, ResultMatchesTerminal, Mine
<1>2. ASSUME NEW t \in Tasks, commit_task_result(t) PROVE ResultMatchesTerminal'
  <2> DEFINE res == [task |-> t, attempt |-> own[t], status |-> req[t]]
  <2>1. req[t] \in ResultStatus /\ own[t] = current_run[t] /\ task_status[t] \notin TerminalTask
    BY <1>2 DEF commit_task_result, DriverShape, Committable, FreshVersion
  <2>2. /\ results' = results \cup {res} /\ UNCHANGED current_run
        /\ task_status' = [task_status EXCEPT ![t] = TaskTarget(req[t])]
        /\ run_status' = [run_status EXCEPT ![Cur(t)] = RunTarget(req[t])]
    BY <1>2, <2>1 DEF commit_task_result
  <2>3. \A u \in Tasks \ {t} : Mine(u)' = Mine(u) /\ task_status'[u] = task_status[u]
                               /\ run_status'[Cur(u)] = run_status[Cur(u)]
    BY <2>2 DEF Mine, TypeOK, Runs
  <2>4. Mine(t)' = {res}
    BY <2>1, <2>2 DEF Mine, ResultMatchesTerminal
  <2>5. task_status'[t] = TaskTarget(req[t]) /\ run_status'[Cur(t)] = RunTarget(req[t])
    BY <2>2 DEF TypeOK, Runs
  <2>6. TaskTarget(req[t]) \in TerminalTask
    BY <2>1, Targets
  <2>7. ASSUME NEW u \in Tasks \ {t}
        PROVE IF task_status'[u] \in TerminalTask
              THEN \E s \in ResultStatus :
                     /\ Mine(u)' = {[task |-> u, attempt |-> current_run'[u], status |-> s]}
                     /\ task_status'[u] = TaskTarget(s)
                     /\ run_status'[Cur(u)'] = RunTarget(s)
              ELSE Mine(u)' = {}
    BY <2>2, <2>3 DEF ResultMatchesTerminal
  <2> QED
    BY <2>1, <2>2, <2>4, <2>5, <2>6, <2>7 DEF ResultMatchesTerminal
<1> QED
  BY <1>1, <1>2, SettledSteps

(* No status prepared under a persisted cancellation or deadline is a       *)
(* success.                                                                 *)
LEMMA NormalizedSuccess ==
    ASSUME NEW t, NEW o, NEW cause, "complete" \in Normalized(t, o, cause)
    PROVE  o = "complete" /\ cause \notin {"userCancelled", "timeout"}
  BY DEF Normalized, Overridable

(* Whoever persists a cause also moves the version a pending success needs. *)
LEMMA PendingSuccessStep ==
    ASSUME TypeOK, DriverShape, OwnerIsCurrent, PairAgreement, PendingSuccess, Next
    PROVE  PendingSuccess'
<1> USE RuntimeAssumption DEF Tasks, Runs
<1>1. ASSUME StartRoot PROVE PendingSuccess'
  BY <1>1 DEF StartRoot, Attach, TypeOK, OwnerIsCurrent, PendingSuccess, DriverShape
<1>2. ASSUME commit_tool_invocation_result PROVE PendingSuccess'
  BY <1>2 DEF commit_tool_invocation_result, TypeOK, OwnerIsCurrent, PendingSuccess, DriverShape
<1>3. ASSUME RootCleanupFails PROVE PendingSuccess'
  BY <1>3 DEF RootCleanupFails, DriverTo, TypeOK, OwnerIsCurrent, PendingSuccess, DriverShape
<1>4. ASSUME NEW c \in Children, NEW policy \in {"attached", "detached"},
             create_task_with_run(c, policy)
      PROVE  PendingSuccess'
  BY <1>4 DEF create_task_with_run, TypeOK, OwnerIsCurrent, PendingSuccess, DriverShape
<1>5. ASSUME NEW t \in Tasks, NEW cause \in Causes, CancelTask(t, cause) PROVE PendingSuccess'
  BY <1>5 DEF CancelTask, persist_cancelling, CanCancel, Cancellable, TypeOK,
    OwnerIsCurrent, PendingSuccess, DriverShape
<1>6. ASSUME NEW t \in Tasks, ExecCancelled(t) PROVE PendingSuccess'
  BY <1>6 DEF ExecCancelled, DriverTo, Release, TypeOK, OwnerIsCurrent, PendingSuccess,
    DriverShape
<1>7. ASSUME NEW t \in Tasks, NEW o \in Outcomes, ExecReturns(t, o) PROVE PendingSuccess'
  BY <1>7 DEF ExecReturns, DriverTo, TypeOK, OwnerIsCurrent, PendingSuccess, DriverShape
<1>8. ASSUME NEW t \in Tasks, ReapObserved(t) PROVE PendingSuccess'
  BY <1>8 DEF ReapObserved, Release, TypeOK, OwnerIsCurrent, PendingSuccess, DriverShape
<1>9. ASSUME NEW t \in Tasks, CommitRead(t) PROVE PendingSuccess'
  <2>1. PICK s \in Normalized(t, out[t], requested_exit[Owned(t)]) :
            ReadVersion(t, "commit", s)
    BY <1>9 DEF CommitRead
  <2>2. s = "complete" => /\ out[t] = "complete"
                          /\ requested_exit[Owned(t)] \notin {"userCancelled", "timeout"}
    BY <2>1, NormalizedSuccess
  <2> QED
    BY <1>9, <2>1, <2>2 DEF CommitRead, ReadVersion, TypeOK, PendingSuccess
<1>10. ASSUME NEW t \in Tasks, CommitConflict(t) PROVE PendingSuccess'
  BY <1>10 DEF CommitConflict, DriverTo, TypeOK, OwnerIsCurrent, PendingSuccess, DriverShape
<1>11. ASSUME NEW t \in Tasks, CommitRefused(t) PROVE PendingSuccess'
  BY <1>11 DEF CommitRefused, DriverTo, TypeOK, OwnerIsCurrent, PendingSuccess, DriverShape
<1>12. ASSUME NEW t \in Tasks, commit_task_result(t) PROVE PendingSuccess'
  BY <1>12 DEF commit_task_result, Release, reject_pending_for_run, TypeOK, OwnerIsCurrent,
    PendingSuccess, DriverShape
<1>13. ASSUME NEW t \in Tasks, mark_needs_attention(t) PROVE PendingSuccess'
  BY <1>13 DEF mark_needs_attention, Release, reject_pending_for_run, TypeOK,
    OwnerIsCurrent, PendingSuccess, DriverShape
<1>14. ASSUME NEW t \in Tasks, AttentionObserved(t) PROVE PendingSuccess'
  BY <1>14 DEF AttentionObserved, Release, TypeOK, OwnerIsCurrent, PendingSuccess, DriverShape
<1>15. ASSUME NEW t \in Tasks, mark_waiting(t) PROVE PendingSuccess'
  BY <1>15 DEF mark_waiting, TypeOK, OwnerIsCurrent, PendingSuccess, DriverShape
<1>16. ASSUME NEW t \in Tasks, mark_running(t) PROVE PendingSuccess'
  BY <1>16 DEF mark_running, TypeOK, OwnerIsCurrent, PendingSuccess, DriverShape
<1>17. ASSUME NEW t \in Tasks, consume_task_inbox(t) PROVE PendingSuccess'
  BY <1>17 DEF consume_task_inbox, TypeOK, OwnerIsCurrent, PendingSuccess, DriverShape
<1>18. ASSUME NEW t \in Tasks, NEW m \in Messages, enqueue_task_message(m, t)
      PROVE  PendingSuccess'
  BY <1>18 DEF enqueue_task_message, TypeOK, OwnerIsCurrent, PendingSuccess, DriverShape
<1>19. ASSUME NEW c \in Children, AttachDriver(c) PROVE PendingSuccess'
  BY <1>19 DEF AttachDriver, Attach, TypeOK, OwnerIsCurrent, PendingSuccess, DriverShape
<1>20. ASSUME NEW c \in Children, AttachObserved(c) PROVE PendingSuccess'
  BY <1>20 DEF AttachObserved, TypeOK, OwnerIsCurrent, PendingSuccess, DriverShape
<1>21. ASSUME NEW c \in Children, ClaimRead(c) PROVE PendingSuccess'
  BY <1>21 DEF ClaimRead, ReadVersion, TypeOK, OwnerIsCurrent, PendingSuccess, DriverShape
<1>22. ASSUME NEW c \in Children, claim_task_run(c) PROVE PendingSuccess'
  BY <1>22 DEF claim_task_run, DriverTo, TypeOK, OwnerIsCurrent, PendingSuccess, DriverShape
<1>23. ASSUME NEW c \in Children, ClaimConflict(c) PROVE PendingSuccess'
  BY <1>23 DEF ClaimConflict, DriverTo, TypeOK, OwnerIsCurrent, PendingSuccess, DriverShape
<1>24. ASSUME NEW c \in Children, ClaimRefused(c) PROVE PendingSuccess'
  BY <1>24 DEF ClaimRefused, DriverTo, TypeOK, OwnerIsCurrent, PendingSuccess, DriverShape
<1>25. ASSUME NEW c \in Children, QueuedStop(c) PROVE PendingSuccess'
  BY <1>25 DEF QueuedStop, DriverTo, persist_cancelling, CanCancel, Cancellable, TypeOK,
    OwnerIsCurrent, PendingSuccess, DriverShape
<1>26. ASSUME NEW c \in Children, QueuedRelease(c) PROVE PendingSuccess'
  BY <1>26 DEF QueuedRelease, Release, TypeOK, OwnerIsCurrent, PendingSuccess, DriverShape
<1>27. ASSUME NEW c \in Children, ExecStop(c) PROVE PendingSuccess'
  BY <1>27 DEF ExecStop, DriverTo, persist_cancelling, CanCancel, Cancellable, TypeOK,
    OwnerIsCurrent, PendingSuccess, DriverShape
<1>28. ASSUME NEW c \in Children, await_cleanup_or_reap(c) PROVE PendingSuccess'
  BY <1>28 DEF await_cleanup_or_reap, DriverTo, TypeOK, OwnerIsCurrent, PendingSuccess,
    DriverShape
<1>29. ASSUME NEW c \in Children, ingest_task_result(c) PROVE PendingSuccess'
  BY <1>29 DEF ingest_task_result, TypeOK, OwnerIsCurrent, PendingSuccess, DriverShape
<1>30. ASSUME NEW c \in Children, ResolverQuits(c) PROVE PendingSuccess'
  BY <1>30 DEF ResolverQuits, TypeOK, OwnerIsCurrent, PendingSuccess, DriverShape
<1>31. ASSUME NEW c \in Children, CascadeCancel(c) PROVE PendingSuccess'
  BY <1>31 DEF CascadeCancel, persist_cancelling, CanCancel, Cancellable, TypeOK,
    OwnerIsCurrent, PendingSuccess, DriverShape
<1>32. ASSUME NEW c \in Children, create_safe_recovery_attempt(c) PROVE PendingSuccess'
  BY <1>32 DEF create_safe_recovery_attempt, TypeOK, OwnerIsCurrent, PendingSuccess, DriverShape
<1>33. ASSUME NEW c \in Children, dispatch_precreated_recovery(c) PROVE PendingSuccess'
  BY <1>33 DEF dispatch_precreated_recovery, Attach, TypeOK, OwnerIsCurrent, PendingSuccess,
    DriverShape
<1>34. ASSUME NEW m \in Messages, mark_delivered(m) PROVE PendingSuccess'
  BY <1>34 DEF mark_delivered, TypeOK, OwnerIsCurrent, PendingSuccess, DriverShape
<1>35. ASSUME CloseIntake PROVE PendingSuccess'
  BY <1>35 DEF CloseIntake, TypeOK, OwnerIsCurrent, PendingSuccess, DriverShape
<1>36. ASSUME request_runtime_shutdown PROVE PendingSuccess'
  BY <1>36 DEF request_runtime_shutdown, ActiveRuns, Active, TypeOK, OwnerIsCurrent,
    PendingSuccess, DriverShape
<1>37. ASSUME ShutdownIntentFails PROVE PendingSuccess'
  BY <1>37 DEF ShutdownIntentFails, TypeOK, OwnerIsCurrent, PendingSuccess, DriverShape
<1>38. ASSUME ShutdownReconcile PROVE PendingSuccess'
  BY <1>38 DEF ShutdownReconcile, reconcile_runtime, TypeOK, OwnerIsCurrent, PendingSuccess,
    DriverShape
<1>39. ASSUME ShutdownAbort PROVE PendingSuccess'
  BY <1>39 DEF ShutdownAbort, Release, TypeOK, OwnerIsCurrent, PendingSuccess, DriverShape
<1>40. ASSUME Crash PROVE PendingSuccess'
  BY <1>40 DEF Crash, Release, TypeOK, OwnerIsCurrent, PendingSuccess, DriverShape
<1>41. ASSUME Restart PROVE PendingSuccess'
  BY <1>41 DEF Restart, reconcile_runtime, TypeOK, OwnerIsCurrent, PendingSuccess, DriverShape
<1> QED
  BY <1>1, <1>2, <1>3, <1>4, <1>5, <1>6, <1>7, <1>8, <1>9, <1>10, <1>11, <1>12, <1>13,
    <1>14, <1>15, <1>16, <1>17, <1>18, <1>19, <1>20, <1>21, <1>22, <1>23, <1>24, <1>25,
    <1>26, <1>27, <1>28, <1>29, <1>30, <1>31, <1>32, <1>33, <1>34, <1>35, <1>36, <1>37,
    <1>38, <1>39, <1>40, <1>41 DEF Next, DriverStep, ExecutorStep, FinalizerStep,
    ResolverStep, ProcessStep

(* Hence a success is never committed over a persisted cause. *)
LEMMA CauseWinsStep ==
    ASSUME TypeOK, DriverShape, PairAgreement, OwnerIsCurrent, ResultMatchesTerminal,
           PendingSuccess, CauseWins, Next
    PROVE  CauseWins'
<1>0. \A res \in results : /\ res.task \in Tasks /\ task_status[res.task] \in TerminalTask
                           /\ res.attempt = current_run[res.task]
  <2> SUFFICES ASSUME NEW res \in results
               PROVE  /\ res.task \in Tasks /\ task_status[res.task] \in TerminalTask
                      /\ res.attempt = current_run[res.task]
    OBVIOUS
  <2>1. res.task \in Tasks /\ res \in Mine(res.task)
    BY DEF TypeOK, Mine
  <2>2. task_status[res.task] \in TerminalTask
    BY <2>1 DEF ResultMatchesTerminal
  <2>3. PICK s \in ResultStatus :
           Mine(res.task) = {[task |-> res.task, attempt |-> current_run[res.task], status |-> s]}
    BY <2>1, <2>2 DEF ResultMatchesTerminal
  <2>4. res = [task |-> res.task, attempt |-> current_run[res.task], status |-> s]
    BY <2>1, <2>3
  <2> QED
    BY <2>1, <2>2, <2>4
<1>1. CASE KeepsSettled
  BY <1>0, <1>1 DEF KeepsSettled, CauseWins
<1>2. ASSUME NEW t \in Tasks, commit_task_result(t) PROVE CauseWins'
  <2> DEFINE res == [task |-> t, attempt |-> own[t], status |-> req[t]]
  <2>1. /\ results' = results \cup {res} /\ Owned(t) \in Runs
        /\ drv[t] = "commit" /\ ver[t] = version[t]
        /\ requested_exit[Owned(t)] # "serviceRestart"
    BY <1>2 DEF commit_task_result, Committable, FreshVersion, TypeOK, Runs
  <2>2. PICK e : requested_exit' = [requested_exit EXCEPT ![Owned(t)] =
                     IF @ = "none" /\ e = "userCancelled" THEN e ELSE @]
                 /\ e \in result_exit_reason(req[t], requested_exit[Owned(t)])
    BY <1>2 DEF commit_task_result
  <2>3. req[t] = "complete" => e # "userCancelled"
    BY <2>2 DEF result_exit_reason
  <2>4. \A r \in results : r.task # t
    BY <1>0, <1>2 DEF commit_task_result, FreshVersion
  <2>5. \A r \in results :
           requested_exit'[<<r.task, r.attempt>>] = requested_exit[<<r.task, r.attempt>>]
    BY <2>2, <2>4, <1>0 DEF TypeOK, Runs
  <2>6. requested_exit'[Owned(t)] # "serviceRestart"
    BY <2>1, <2>2 DEF TypeOK
  <2>7. req[t] = "complete" => requested_exit'[Owned(t)] \notin {"userCancelled", "timeout"}
    BY <2>1, <2>2, <2>3 DEF PendingSuccess, TypeOK
  <2>8. /\ res.status = req[t]
        /\ requested_exit'[<<res.task, res.attempt>>] = requested_exit'[Owned(t)]
    OBVIOUS
  <2> HIDE DEF res
  <2> QED
    BY <2>1, <2>5, <2>6, <2>7, <2>8 DEF CauseWins
<1> QED
  BY <1>1, <1>2, SettledSteps

(* A Task that has stopped stays so until safe recovery replaces its Run. *)
LEMMA StaysStoppedStep ==
    ASSUME TypeOK, DriverShape, PairAgreement, Next PROVE StaysStopped
<1> USE RuntimeAssumption DEF Tasks, StaysStopped, Stopped, TerminalTask
<1>0. ASSUME NEW t \in Tasks, NEW cause, persist_cancelling(t, cause) PROVE StaysStopped
  BY <1>0 DEF persist_cancelling, TypeOK
<1>1. CASE StartRoot
  BY <1>1 DEF StartRoot, TypeOK
<1>2. ASSUME NEW c \in Children, NEW policy \in {"attached", "detached"},
             create_task_with_run(c, policy)
      PROVE  StaysStopped
  BY <1>2 DEF create_task_with_run, TypeOK
<1>3. ASSUME NEW t \in Tasks, NEW cause \in Causes, CancelTask(t, cause) PROVE StaysStopped
  BY <1>0, <1>3 DEF CancelTask
<1>4. ASSUME NEW t \in Tasks, commit_task_result(t) PROVE StaysStopped
  BY <1>4, Targets DEF commit_task_result, DriverShape, TypeOK
<1>5. ASSUME NEW t \in Tasks, mark_needs_attention(t) \/ mark_waiting(t) \/ mark_running(t)
      PROVE  StaysStopped
  BY <1>5 DEF mark_needs_attention, mark_waiting, mark_running, TypeOK
<1>6. ASSUME NEW c \in Children, claim_task_run(c) PROVE StaysStopped
  BY <1>6 DEF claim_task_run, CanClaim, TypeOK
<1>7. ASSUME NEW c \in Children, QueuedStop(c) \/ ExecStop(c) \/ CascadeCancel(c)
      PROVE  StaysStopped
  BY <1>0, <1>7 DEF QueuedStop, ExecStop, CascadeCancel
<1>8. ASSUME NEW c \in Children, ingest_task_result(c) PROVE StaysStopped
  BY <1>8 DEF ingest_task_result, TypeOK
<1>9. ASSUME NEW c \in Children, create_safe_recovery_attempt(c) PROVE StaysStopped
  BY <1>9 DEF create_safe_recovery_attempt, TypeOK
<1>10. CASE request_runtime_shutdown \/ ShutdownReconcile \/ Restart
  BY <1>10 DEF request_runtime_shutdown, ShutdownReconcile, Restart, reconcile_runtime
<1>11. CASE ~ RowStep
  BY <1>11, OtherSteps DEF rows
<1> QED
  BY <1>1, <1>2, <1>3, <1>4, <1>5, <1>6, <1>7, <1>8, <1>9, <1>10, <1>11 DEF RowStep

(* Every step that stops a Run records why, and none replaces the cause of  *)
(* a Run that has one.                                                      *)
LEMMA CauseShapeStep ==
    ASSUME TypeOK, DriverShape, PairAgreement, OwnerIsCurrent, CauseShape, Next
    PROVE  CauseShape'
<1> USE RuntimeAssumption DEF Tasks
<1>a. \A t \in Tasks : Cur(t) \in Runs
  BY DEF TypeOK, Runs
<1>b. \A t \in Tasks : ~ (Cur(t)[2] > current_run[Cur(t)[1]])
  BY DEF TypeOK, Attempts
<1>0. ASSUME NEW t \in Tasks, NEW cause \in Causes \cup {"timeout", "parentCancelled"},
             cause = "parentCancelled" => t # Root, persist_cancelling(t, cause)
      PROVE  CauseShape'
  <2>1. CASE CanCancel(t)
    <3>1. /\ UNCHANGED current_run
          /\ \A r \in Runs \ {Cur(t)} : /\ run_status'[r] = run_status[r]
                                       /\ requested_exit'[r] = requested_exit[r]
          /\ run_status'[Cur(t)] = "cancelling" /\ requested_exit'[Cur(t)] = cause
      BY <1>0, <1>a, <2>1 DEF persist_cancelling, TypeOK
    <3> QED
      BY <1>0, <1>b, <3>1 DEF CauseShape, Cancellable
  <2>2. CASE ~ CanCancel(t)
    BY <1>0, <2>2 DEF persist_cancelling, CauseShape
  <2> QED
    BY <2>1, <2>2
<1>1. CASE StartRoot
  <2>1. run_status[Cur(Root)] = "absent"
    BY <1>1 DEF StartRoot, PairAgreement, Paired, Active, TerminalTask
  <2>2. /\ UNCHANGED <<requested_exit, current_run>>
        /\ \A r \in Runs \ {Cur(Root)} : run_status'[r] = run_status[r]
        /\ run_status'[Cur(Root)] = "running"
    BY <1>1, <1>a DEF StartRoot, TypeOK
  <2> QED
    BY <1>a, <1>b, <2>1, <2>2 DEF CauseShape, Cancellable
<1>2. ASSUME NEW c \in Children, NEW policy \in {"attached", "detached"},
             create_task_with_run(c, policy)
      PROVE  CauseShape'
  <2>1. run_status[Cur(c)] = "absent" /\ run_status[Cur(Root)] \in Cancellable
    BY <1>2 DEF create_task_with_run, PairAgreement, Paired, Active, TerminalTask, Cancellable
  <2>2. /\ UNCHANGED <<requested_exit, current_run>>
        /\ \A r \in Runs : r \notin {Cur(c), Cur(Root)} => run_status'[r] = run_status[r]
        /\ run_status'[Cur(c)] \in Cancellable /\ run_status'[Cur(Root)] \in Cancellable
    BY <1>2, <1>a, <2>1 DEF create_task_with_run, TypeOK, Cancellable
  <2> QED
    BY <1>a, <1>b, <2>1, <2>2 DEF CauseShape, Cancellable
<1>3. ASSUME NEW t \in Tasks, NEW cause \in Causes, CancelTask(t, cause) PROVE CauseShape'
  BY <1>0, <1>3 DEF CancelTask
<1>4. ASSUME NEW t \in Tasks, commit_task_result(t) PROVE CauseShape'
  <2>1. RunTarget(req[t]) \in TerminalRun /\ Owned(t) = Cur(t)
    BY <1>4, Targets DEF commit_task_result, DriverShape, Committable, TerminalRun
  <2>2. PICK e \in result_exit_reason(req[t], requested_exit[Owned(t)]) :
           requested_exit' = [requested_exit EXCEPT ![Owned(t)] =
                                 IF @ = "none" /\ e = "userCancelled" THEN e ELSE @]
    BY <1>4 DEF commit_task_result
  <2>3. /\ UNCHANGED current_run
        /\ run_status' = [run_status EXCEPT ![Cur(t)] = RunTarget(req[t])]
    BY <1>4, <2>1 DEF commit_task_result
  <2>4. run_status[Cur(t)] \in Active
    BY <1>4, <2>1 DEF commit_task_result, Committable
  <2> QED
    BY <1>a, <2>1, <2>2, <2>3, <2>4 DEF CauseShape, TypeOK, Cancellable, TerminalRun, Active
<1>5. ASSUME NEW t \in Tasks, mark_needs_attention(t) PROVE CauseShape'
  BY <1>5, <1>a DEF mark_needs_attention, CauseShape, TypeOK, Cancellable, Active
<1>6. ASSUME NEW t \in Tasks, mark_waiting(t) \/ mark_running(t) PROVE CauseShape'
  BY <1>6, <1>a DEF mark_waiting, mark_running, CauseShape, TypeOK, Cancellable
<1>7. ASSUME NEW c \in Children, claim_task_run(c) PROVE CauseShape'
  BY <1>7, <1>a DEF claim_task_run, CanClaim, CauseShape, TypeOK, Cancellable
<1>8. ASSUME NEW c \in Children, QueuedStop(c) \/ ExecStop(c) \/ CascadeCancel(c)
      PROVE  CauseShape'
  BY <1>0, <1>8 DEF QueuedStop, ExecStop, CascadeCancel
<1>9. ASSUME NEW c \in Children, ingest_task_result(c) PROVE CauseShape'
  <2>1. CASE Unresolved(c) = {}
    BY <1>9, <1>a, <2>1 DEF ingest_task_result, CauseShape, TypeOK, Cancellable
  <2>2. CASE Unresolved(c) # {}
    BY <1>9, <2>2 DEF ingest_task_result, CauseShape
  <2> QED
    BY <2>1, <2>2
<1>10. ASSUME NEW c \in Children, create_safe_recovery_attempt(c) PROVE CauseShape'
  <2> DEFINE next == <<c, current_run[c] + 1>>
  <2>1. next \in Runs
    BY <1>10 DEF create_safe_recovery_attempt, TypeOK, Runs, Attempts
  <2>2. /\ UNCHANGED requested_exit
        /\ \A r \in Runs : run_status'[r] = IF r = next THEN "queued" ELSE run_status[r]
        /\ current_run' = [current_run EXCEPT ![c] = @ + 1]
    BY <1>10, <2>1 DEF create_safe_recovery_attempt, TypeOK
  <2>3. run_status[next] = "absent" /\ requested_exit[next] = "none"
    BY <2>1 DEF CauseShape, TypeOK, Attempts
  <2>4. \A r \in Runs : r[2] > current_run'[r[1]] => r # next /\ r[2] > current_run[r[1]]
    BY <2>1, <2>2 DEF TypeOK, Runs, Attempts
  <2> QED
    BY <2>2, <2>3, <2>4 DEF CauseShape, Cancellable
<1>11. CASE request_runtime_shutdown
  BY <1>11 DEF request_runtime_shutdown, CauseShape, ActiveRuns, Active, Cancellable
<1>12. CASE ShutdownReconcile \/ Restart
  BY <1>12 DEF ShutdownReconcile, Restart, reconcile_runtime, CauseShape, ActiveRuns, Active,
    Cancellable
<1>13. CASE ~ RowStep
  BY <1>13, OtherSteps DEF rows, CauseShape
<1> QED
  BY <1>1, <1>2, <1>3, <1>4, <1>5, <1>6, <1>7, <1>8, <1>9, <1>10, <1>11, <1>12, <1>13
     DEF RowStep

(* Results and terminal rows are never written again, and the first cause   *)
(* stands.                                                                  *)
LEMMA KeepsTerminalStep ==
    ASSUME TypeOK, DriverShape, PairAgreement, OwnerIsCurrent, CauseShape, Next
    PROVE  KeepsTerminal
<1> USE RuntimeAssumption DEF Tasks
<1>a. \A t \in Tasks : Cur(t) \in Runs
  BY DEF TypeOK, Runs
<1>0. ASSUME NEW t \in Tasks, NEW cause, persist_cancelling(t, cause), UNCHANGED results
      PROVE  KeepsTerminal
  <2>1. CASE CanCancel(t)
    <3>1. run_status[Cur(t)] \in Cancellable /\ requested_exit[Cur(t)] = "none"
      BY <2>1, <1>a DEF CanCancel, CauseShape
    <3> QED
      BY <1>0, <1>a, <2>1, <3>1 DEF persist_cancelling, KeepsTerminal, TypeOK, Cancellable,
        TerminalRun
  <2>2. CASE ~ CanCancel(t)
    BY <1>0, <2>2 DEF persist_cancelling, KeepsTerminal
  <2> QED
    BY <2>1, <2>2
<1>1. CASE StartRoot
  BY <1>1, <1>a DEF StartRoot, KeepsTerminal, TypeOK, PairAgreement, Paired, Active,
    TerminalTask, TerminalRun
<1>2. ASSUME NEW c \in Children, NEW policy \in {"attached", "detached"},
             create_task_with_run(c, policy)
      PROVE  KeepsTerminal
  <2>1. run_status[Cur(c)] = "absent" /\ run_status[Cur(Root)] \in Active
    BY <1>2 DEF create_task_with_run, PairAgreement, Paired, Active, TerminalTask
  <2>2. /\ UNCHANGED <<requested_exit, exit_reason, results>>
        /\ \A r \in Runs : r \notin {Cur(c), Cur(Root)} => run_status'[r] = run_status[r]
    BY <1>2, <1>a DEF create_task_with_run, TypeOK
  <2> QED
    BY <2>1, <2>2 DEF KeepsTerminal, Active, TerminalRun
<1>3. ASSUME NEW t \in Tasks, NEW cause \in Causes, CancelTask(t, cause) PROVE KeepsTerminal
  BY <1>0, <1>3 DEF CancelTask
<1>4. ASSUME NEW t \in Tasks, commit_task_result(t) PROVE KeepsTerminal
  <2>1. Owned(t) = Cur(t) /\ run_status[Cur(t)] \in Active
    BY <1>4 DEF commit_task_result, Committable
  <2>2. PICK e \in result_exit_reason(req[t], requested_exit[Owned(t)]) :
           /\ exit_reason' = [exit_reason EXCEPT ![Owned(t)] = e]
           /\ requested_exit' = [requested_exit EXCEPT ![Owned(t)] =
                                 IF @ = "none" /\ e = "userCancelled" THEN e ELSE @]
    BY <1>4 DEF commit_task_result
  <2>3. /\ results \subseteq results'
        /\ run_status' = [run_status EXCEPT ![Cur(t)] = RunTarget(req[t])]
    BY <1>4, <2>1 DEF commit_task_result
  <2> QED
    BY <1>a, <2>1, <2>2, <2>3 DEF KeepsTerminal, TypeOK, TerminalRun, Active
<1>5. ASSUME NEW t \in Tasks, mark_needs_attention(t) PROVE KeepsTerminal
  BY <1>5, <1>a DEF mark_needs_attention, KeepsTerminal, TypeOK, TerminalRun, Active
<1>6. ASSUME NEW t \in Tasks, mark_waiting(t) \/ mark_running(t) PROVE KeepsTerminal
  BY <1>6, <1>a DEF mark_waiting, mark_running, KeepsTerminal, TypeOK, TerminalRun
<1>7. ASSUME NEW c \in Children, claim_task_run(c) PROVE KeepsTerminal
  BY <1>7, <1>a DEF claim_task_run, CanClaim, KeepsTerminal, TypeOK, TerminalRun
<1>8. ASSUME NEW c \in Children, QueuedStop(c) \/ ExecStop(c) \/ CascadeCancel(c)
      PROVE  KeepsTerminal
  BY <1>0, <1>8 DEF QueuedStop, ExecStop, CascadeCancel
<1>9. ASSUME NEW c \in Children, ingest_task_result(c) PROVE KeepsTerminal
  <2>1. CASE Unresolved(c) = {}
    <3>1. /\ UNCHANGED <<requested_exit, exit_reason, results>>
          /\ run_status[Cur(Root)] = "waitingDependencies"
          /\ run_status' = [run_status EXCEPT ![Cur(Root)] = "running"]
      BY <1>9, <2>1 DEF ingest_task_result
    <3> QED
      BY <1>a, <3>1 DEF KeepsTerminal, TypeOK, TerminalRun
  <2>2. CASE Unresolved(c) # {}
    BY <1>9, <2>2 DEF ingest_task_result, KeepsTerminal
  <2> QED
    BY <2>1, <2>2
<1>10. ASSUME NEW c \in Children, create_safe_recovery_attempt(c) PROVE KeepsTerminal
  <2> DEFINE next == <<c, current_run[c] + 1>>
  <2>1. next \in Runs
    BY <1>10 DEF create_safe_recovery_attempt, TypeOK, Runs, Attempts
  <2>2. run_status[next] = "absent"
    BY <2>1 DEF CauseShape, TypeOK, Attempts
  <2>3. /\ UNCHANGED <<requested_exit, exit_reason, results>>
        /\ \A r \in Runs : run_status'[r] = IF r = next THEN "queued" ELSE run_status[r]
    BY <1>10, <2>1 DEF create_safe_recovery_attempt, TypeOK
  <2> QED
    BY <2>2, <2>3 DEF KeepsTerminal, TerminalRun
<1>11. CASE request_runtime_shutdown
  BY <1>11 DEF request_runtime_shutdown, KeepsTerminal, ActiveRuns, Active, TerminalRun
<1>12. CASE ShutdownReconcile \/ Restart
  BY <1>12 DEF ShutdownReconcile, Restart, reconcile_runtime, KeepsTerminal, ActiveRuns,
    Active, TerminalRun
<1>13. CASE ~ RowStep
  BY <1>13, OtherSteps DEF rows, KeepsTerminal
<1> QED
  BY <1>1, <1>2, <1>3, <1>4, <1>5, <1>6, <1>7, <1>8, <1>9, <1>10, <1>11, <1>12, <1>13
     DEF RowStep

(* Whatever ends a Run closes its inbox, a child's quarantine excepted. *)
LEMMA InboxClosedStep ==
    ASSUME TypeOK, DriverShape, PairAgreement, OwnerIsCurrent, CauseShape, InboxClosed, Next
    PROVE  InboxClosed'
<1> USE RuntimeAssumption DEF Tasks
<1>a. \A t \in Tasks : Cur(t) \in Runs
  BY DEF TypeOK, Runs
<1>b. ASSUME UNCHANGED <<msg_status, msg_run, exit_reason>>,
             \A r \in Runs : run_status[r] \in Active => run_status'[r] \in Active
      PROVE  InboxClosed'
  BY <1>b DEF InboxClosed, TypeOK
<1>0. ASSUME NEW t \in Tasks, NEW cause, persist_cancelling(t, cause),
             UNCHANGED <<msg_status, msg_run>>
      PROVE  InboxClosed'
  BY <1>0, <1>a, <1>b DEF persist_cancelling, TypeOK, Active
<1>1. CASE StartRoot
  BY <1>1, <1>a, <1>b DEF StartRoot, TypeOK, Active
<1>2. ASSUME NEW c \in Children, NEW policy \in {"attached", "detached"},
             create_task_with_run(c, policy)
      PROVE  InboxClosed'
  BY <1>2, <1>a, <1>b DEF create_task_with_run, TypeOK, Active
<1>3. ASSUME NEW t \in Tasks, NEW cause \in Causes, CancelTask(t, cause) PROVE InboxClosed'
  BY <1>0, <1>3 DEF CancelTask
<1>4. ASSUME NEW t \in Tasks, commit_task_result(t) PROVE InboxClosed'
  <2>1. Owned(t) = Cur(t)
    BY <1>4 DEF commit_task_result, Committable
  <2>2. /\ UNCHANGED msg_run
        /\ \A m \in Messages : msg_status'[m] \in Open =>
              msg_status[m] \in Open /\ msg_run[m] # Cur(t)
    BY <1>4, <2>1 DEF commit_task_result, reject_pending_for_run, Open
  <2>3. \A r \in Runs \ {Cur(t)} :
           run_status'[r] = run_status[r] /\ exit_reason'[r] = exit_reason[r]
    BY <1>4, <2>1, <1>a DEF commit_task_result, TypeOK
  <2> QED
    BY <2>2, <2>3 DEF InboxClosed, TypeOK
<1>5. ASSUME NEW t \in Tasks, mark_needs_attention(t) PROVE InboxClosed'
  <2>1. Owned(t) = Cur(t) /\ UNCHANGED msg_run /\ exit_reason'[Cur(t)] = "internalError"
    BY <1>5, <1>a DEF mark_needs_attention, TypeOK
  <2>2. \A r \in Runs \ {Cur(t)} :
           run_status'[r] = run_status[r] /\ exit_reason'[r] = exit_reason[r]
    BY <1>5, <2>1, <1>a DEF mark_needs_attention, TypeOK
  <2>3. \A m \in Messages : msg_status'[m] \in Open =>
           msg_status[m] \in Open /\ (t = Root => msg_run[m] # Cur(t))
    BY <1>5, <2>1 DEF mark_needs_attention, reject_pending_for_run, Open
  <2> QED
    BY <2>1, <2>2, <2>3 DEF InboxClosed, TypeOK
<1>6. ASSUME NEW t \in Tasks, mark_waiting(t) \/ mark_running(t) PROVE InboxClosed'
  BY <1>6, <1>a, <1>b DEF mark_waiting, mark_running, TypeOK, Active
<1>7. ASSUME NEW c \in Children, claim_task_run(c) PROVE InboxClosed'
  BY <1>7, <1>a, <1>b DEF claim_task_run, TypeOK, Active
<1>8. ASSUME NEW c \in Children, QueuedStop(c) \/ ExecStop(c) \/ CascadeCancel(c)
      PROVE  InboxClosed'
  BY <1>0, <1>8 DEF QueuedStop, ExecStop, CascadeCancel
<1>9. ASSUME NEW c \in Children, ingest_task_result(c) PROVE InboxClosed'
  <2>1. /\ UNCHANGED <<msg_status, msg_run, exit_reason>>
        /\ run_status' = run_status \/ run_status' = [run_status EXCEPT ![Cur(Root)] = "running"]
    BY <1>9 DEF ingest_task_result
  <2> QED
    BY <1>a, <1>b, <2>1 DEF TypeOK, Active
<1>10. ASSUME NEW c \in Children, create_safe_recovery_attempt(c) PROVE InboxClosed'
  <2>1. <<c, current_run[c] + 1>> \in Runs
    BY <1>10 DEF create_safe_recovery_attempt, TypeOK, Runs, Attempts
  <2> QED
    BY <1>10, <1>b, <2>1 DEF create_safe_recovery_attempt, TypeOK, Active
<1>11. CASE request_runtime_shutdown
  BY <1>11, <1>b DEF request_runtime_shutdown, ActiveRuns, Active
<1>12. CASE ShutdownReconcile \/ Restart
  <2>1. /\ UNCHANGED msg_run
        /\ \A r \in Runs : IF run_status[r] \in Active THEN run_status'[r] = "interrupted"
                           ELSE run_status'[r] = run_status[r] /\ exit_reason'[r] = exit_reason[r]
        /\ \A m \in Messages : msg_status'[m] \in Open =>
              msg_status[m] \in Open /\ run_status'[msg_run[m]] \notin TerminalRun
    BY <1>12 DEF ShutdownReconcile, Restart, reconcile_runtime, ActiveRuns, Open
  <2> QED
    BY <2>1 DEF InboxClosed, TypeOK, TerminalRun
<1>13. ASSUME NEW m \in Messages, NEW t \in Tasks, enqueue_task_message(m, t)
       PROVE  InboxClosed'
  BY <1>13, <1>a DEF enqueue_task_message, AcceptsMessages, InboxClosed, TypeOK, Cancellable,
    Active
<1>14. ASSUME NEW m \in Messages, mark_delivered(m) PROVE InboxClosed'
  BY <1>14 DEF mark_delivered, InboxClosed, TypeOK, Open
<1>15. ASSUME NEW t \in Tasks, consume_task_inbox(t) PROVE InboxClosed'
  <2>1. /\ UNCHANGED <<msg_run, run_status, exit_reason>>
        /\ \A m \in Messages : msg_status'[m] \in Open => msg_status[m] \in Open
    BY <1>15 DEF consume_task_inbox, Open
  <2> QED
    BY <2>1 DEF InboxClosed
<1>16. CASE UNCHANGED <<msg_status, msg_run, run_status, exit_reason>>
  BY <1>16 DEF InboxClosed
<1>17. \/ RowStep \/ UNCHANGED msgVars \/ \E m \in Messages : mark_delivered(m)
       \/ \E t \in Tasks : consume_task_inbox(t) \/ \E m \in Messages : enqueue_task_message(m, t)
  BY DEF Next, DriverStep, ExecutorStep, FinalizerStep, ResolverStep, ProcessStep, RowStep,
    commit_tool_invocation_result, RootCleanupFails, ExecCancelled, ExecReturns, ReapObserved,
    CommitRead, CommitConflict, CommitRefused, AttentionObserved, AttachDriver, AttachObserved,
    ClaimRead, ClaimConflict, ClaimRefused, QueuedRelease, await_cleanup_or_reap, ResolverQuits,
    dispatch_precreated_recovery, CloseIntake, ShutdownIntentFails, ShutdownAbort, Crash
<1>18. CASE ~ RowStep
  BY <1>13, <1>14, <1>15, <1>16, <1>17, <1>18, OtherSteps DEF rows
<1> QED
  BY <1>1, <1>2, <1>3, <1>4, <1>5, <1>6, <1>7, <1>8, <1>9, <1>10, <1>11, <1>12, <1>18
     DEF RowStep

-----------------------------------------------------------------------------

(* The initial state satisfies the inductive invariant. *)
LEMMA InitIInv == Init => IInv
<1> SUFFICES ASSUME Init PROVE IInv
  OBVIOUS
<1> USE RuntimeAssumption DEF Init, Tasks
<1>1. TypeOK
  <2>1. 1 \in Attempts /\ 0 \in 0 .. MaxEpoch /\ 1 \in 1 .. MaxEpoch
    BY DEF Attempts
  <2>2. <<Root, 1>> \in Runs
    BY <2>1 DEF Runs
  <2> QED
    BY <2>1, <2>2 DEF TypeOK, TaskStatus, RunStatus, ExitCause, ResultStatus
<1>2. DriverShape /\ SubmitShape /\ OwnerIsCurrent /\ PendingSuccess
  BY <1>1 DEF DriverShape, SubmitShape, OwnerIsCurrent, PendingSuccess, TypeOK
<1>3. ActiveRuns = {}
  BY DEF ActiveRuns, Active
<1>4. EpochOwnership
  BY <1>3 DEF EpochOwnership
<1>5. PairAgreement
  BY <1>1, <1>3 DEF PairAgreement, Paired, SweepMatches, TypeOK, Runs
<1>6. ResultMatchesTerminal /\ CauseWins
  BY DEF ResultMatchesTerminal, CauseWins, Mine, TerminalTask
<1>7. CauseShape
  BY DEF CauseShape
<1> QED
  BY <1>1, <1>2, <1>4, <1>5, <1>6, <1>7 DEF IInv

(* Every step, and stuttering, preserves it. *)
LEMMA NextIInv == IInv /\ [Next]_vars => IInv'
<1> SUFFICES ASSUME IInv, [Next]_vars PROVE IInv'
  OBVIOUS
<1>1. CASE Next
  <2>1. TypeOK'
    BY <1>1, TypeOKStep DEF IInv
  <2>2. DriverShape' /\ SubmitShape' /\ OwnerIsCurrent'
    BY <1>1, DriverShapeStep, SubmitShapeStep, OwnerIsCurrentStep DEF IInv
  <2>3. EpochOwnership'
    BY <1>1, EpochOwnershipStep DEF IInv
  <2>4. PairAgreement'
    BY <1>1, <2>1, PairAgreementStep DEF IInv
  <2>5. ResultMatchesTerminal' /\ PendingSuccess' /\ CauseWins'
    BY <1>1, ResultMatchesTerminalStep, PendingSuccessStep, CauseWinsStep DEF IInv
  <2>6. CauseShape'
    BY <1>1, CauseShapeStep DEF IInv
  <2> QED
    BY <2>1, <2>2, <2>3, <2>4, <2>5, <2>6 DEF IInv
<1>2. CASE UNCHANGED vars
  BY <1>2 DEF vars, IInv, TypeOK, DriverShape, SubmitShape, OwnerIsCurrent, EpochOwnership,
     PairAgreement, SweepMatches, ActiveRuns, ResultMatchesTerminal, Mine, PendingSuccess,
     CauseWins, CauseShape
<1> QED
  BY <1>1, <1>2

(* The inductive invariant always holds. *)
THEOREM Invariance == Spec => []IInv
  BY InitIInv, NextIInv, PTL DEF Spec

(* A Task is terminal exactly with its one result, of its current attempt,  *)
(* and both terminal rows are that result's: no finalizer, shutdown or      *)
(* restart that races commit_task_result_inner separates them.              *)
THEOREM OneMatchingResult == Spec => []ResultMatchesTerminal
<1>1. IInv => ResultMatchesTerminal
  BY DEF IInv
<1> QED
  BY <1>1, Invariance, PTL

(* The Task and Run rows that are updated by separate statements agree, so  *)
(* neither database-wide sweep can abort.                                   *)
THEOREM RowsAgree == Spec => []PairAgreement
<1>1. IInv => PairAgreement
  BY DEF IInv
<1> QED
  BY <1>1, Invariance, PTL

(* No driver works past the attempt it was attached to. *)
THEOREM OwnersAreCurrent == Spec => []OwnerIsCurrent
<1>1. IInv => OwnerIsCurrent
  BY DEF IInv
<1> QED
  BY <1>1, Invariance, PTL

(* Every variable has its type. *)
THEOREM TypeCorrect == Spec => []TypeOK
<1>1. IInv => TypeOK
  BY DEF IInv
<1> QED
  BY <1>1, Invariance, PTL

(* No success over a durable cancellation, deadline or shutdown, however    *)
(* the finalizer's reads interleave with them.                              *)
THEOREM CausesWin == Spec => []CauseWins
<1>1. IInv => CauseWins
  BY DEF IInv
<1> QED
  BY <1>1, Invariance, PTL

(* A Task that is stopping, quarantined or terminal is never woken. *)
THEOREM StoppedForGood == Spec => NeverReawakened
<1>1. IInv /\ [Next]_vars => [StaysStopped]_vars
  BY StaysStoppedStep DEF IInv
<1> QED
  BY <1>1, Invariance, PTL DEF Spec, NeverReawakened

(* Results and terminal rows are immutable, and the first cause recorded on *)
(* a Run stands unless a shutdown takes the Run over.                       *)
THEOREM TerminalForGood == Spec => TerminalImmutable
<1>1. IInv /\ [Next]_vars => [KeepsTerminal]_vars
  BY KeepsTerminalStep DEF IInv
<1> QED
  BY <1>1, Invariance, PTL DEF Spec, TerminalImmutable

(* No message to an ended Run stays open, a quarantined child's excepted.   *)
THEOREM EndedRunsAnswer == Spec => []InboxClosed
<1>1. Init => InboxClosed
  BY DEF Init, InboxClosed, Open
<1>2. IInv /\ InboxClosed /\ [Next]_vars => InboxClosed'
  <2> SUFFICES ASSUME IInv, InboxClosed, [Next]_vars PROVE InboxClosed'
    OBVIOUS
  <2>1. CASE Next
    BY <2>1, InboxClosedStep DEF IInv
  <2>2. CASE UNCHANGED vars
    BY <2>2 DEF vars, InboxClosed
  <2> QED
    BY <2>1, <2>2
<1> QED
  BY <1>1, <1>2, Invariance, PTL DEF Spec

=============================================================================
