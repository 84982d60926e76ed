--------------------------- MODULE ToolExecutionProofs ---------------------------
(***************************************************************************)
(* The safety of module ToolExecution for any number of calls and programs: *)
(* no program runs that nobody owns, a call's report names every program it *)
(* leaves behind, and a Run whose recorded status is clean has nothing      *)
(* running.                                                                 *)
(*                                                                          *)
(* None of the three is inductive.  What is recorded at the end of a Run    *)
(* was found earlier, when the loop looked at its calls; that it is still   *)
(* true then needs all of: what a supervisor's place says of the process    *)
(* and its row (SupShape), that what is supervised is tracked by its call   *)
(* (TrackerShape), that a call which reported has ended (CallShape), that   *)
(* the loop leaves its batch only when the token is signalled or the batch  *)
(* is over (BatchOver), and that from the clean reading on no program is at *)
(* its gate or past it (Quiet).  There is one lemma per conjunct, with one  *)
(* step per action that touches its variables; Types is TypeOK split by     *)
(* the owner of the variables.                                              *)
(*                                                                          *)
(* That a cancelled call drains is liveness and left to TLC; what its       *)
(* argument rests on besides fairness is proved here: ranks that no step    *)
(* raises and every fair step lowers (DrainMovesOn), and that no one waits  *)
(* for what will not come (DrainNeverWaits).                                *)
(***************************************************************************)
EXTENDS ToolExecution, TLAPS

Clean == {"confirmed", "notRequired"}
Alive(p) == phys[p] \in {"gate", "program"}

(* The Run is over exactly when its loop is, and only then has a status.    *)
RunShape ==
    /\ run = "ended" <=> engine \in {"gone", "down"}
    /\ run = "ended" <=> recorded # "none"
    /\ engine = "commit" => found # "none"

(* What a supervisor's place says of its process and of its row. *)
SupShape ==
    \A p \in Procs :
        /\ sup[p] \in {"none", "registering", "lost"} =>
              row[p].status = "absent" /\ phys[p] = "none"
        /\ sup[p] \notin {"none", "registering", "lost", "done"} =>
              row[p].status \in {"allocated", "unconfirmed"}
        /\ sup[p] \in {"registered", "owned"} => phys[p] = "none"
        /\ sup[p] \in {"spawned", "bound", "passed", "unbound"} => phys[p] = "gate"
        /\ sup[p] \in {"bound", "passed"} => row[p].bound
        /\ sup[p] = "release" => phys[p] \in {"none", "gone"}

(* A call that has not begun has no programs, and one that has told its     *)
(* engine anything has ended; until the batch is over, so has one with a    *)
(* result.                                                                  *)
CallShape ==
    \A c \in Calls :
        /\ call[c].told # "none" => call[c].pc = "closed"
        /\ inv[c].status = "preparing" /\ engine # "down" => call[c].pc = "none"
        /\ inv[c].status = "terminal" /\ engine \in {"admit", "events"} =>
              call[c].pc \in {"none", "closed"}

(* What is supervised is tracked.  A registration awaits its future; a call *)
(* that reported clean has nothing left to supervise.                       *)
TrackerShape ==
    \A p \in Procs :
        /\ sup[p] \in {"registering", "registered"} => Working(p[1])
        /\ call[p[1]].pc \in {"none", "waiting"} => sup[p] = "none"
        /\ sup[p] \notin {"none", "done"} \/ Alive(p) =>
              p \in tracker[p[1]].leases \cup tracker[p[1]].unconfirmed
        /\ call[p[1]].told \in Clean => sup[p] \in {"none", "done"} /\ ~ Alive(p)

(* No call can go on undisturbed. *)
NoneAtLarge == cancel \/ \A c \in Calls : call[c].pc \in {"none", "closed"}

(* The loop leaves its batch to a cancelled token, or when nothing of it    *)
(* is left.                                                                 *)
BatchOver ==
    engine \in {"drain", "abort", "ending", "closing", "commit"} /\ ~ abandoned => NoneAtLarge

(* Once the loop has read a clean status, or recorded one, no program is    *)
(* running and none that is still on its way will pass its gate.            *)
Quiet ==
    \/ engine = "commit" /\ found \in Clean /\ ~ abandoned
    \/ recorded \in Clean /\ ~ abandoned
    => /\ NoneAtLarge
       /\ \A p \in Procs :
             /\ phys[p] # "program" /\ sup[p] # "passed"
             /\ sup[p] \in {"registering", "registered", "owned", "spawned", "bound"} => cancel

(* The types, by the part of the system that owns them. *)
TypeRun ==
    /\ kind \in {"root", "child"}
    /\ run \in {"active", "stopping", "ended"}
    /\ recorded \in {"none"} \cup (Cleanup \ {"pending"})
    /\ engine \in {"admit", "events", "drain", "abort", "closing", "ending", "commit",
                   "gone", "down"}
    /\ found \in {"none"} \cup (Cleanup \ {"pending"})
    /\ drained \in BOOLEAN /\ abandoned \in BOOLEAN
    /\ cancel \in BOOLEAN /\ intake \in BOOLEAN
    /\ stopped \subseteq Calls
    /\ faults \in 0 .. MaxFaults
TypeInv == inv \in [Calls -> [status : {"preparing", "running", "terminal"}, cleanup : Cleanup]]
TypeRow == row \in [Procs -> [status : {"absent", "allocated", "released", "unconfirmed"},
                              bound : BOOLEAN]]
TypeCall == call \in [Calls -> [pc : CallPoints, reply : BOOLEAN, todo : SUBSET Procs,
                                told : {"none"} \cup Cleanup]]
TypeTracker == tracker \in [Calls -> [leases : SUBSET Procs, unconfirmed : SUBSET Procs,
                                      saw : BOOLEAN]]
TypeSup == /\ sup \in [Procs -> SupPoints]
           /\ phys \in [Procs -> {"none", "gate", "program", "gone"}]
Types == TypeRun /\ TypeInv /\ TypeRow /\ TypeCall /\ TypeTracker /\ TypeSup

(* A program is one of its call's. *)
LEMMA ProcCall ==
    /\ \A p \in Procs : p[1] \in Calls /\ p \in ProcsOf(p[1])
    /\ \A c \in Calls : \A p \in ProcsOf(c) : p \in Procs /\ p[1] = c
BY DEF Procs, ProcsOf

(* finalize_execution_resource moves an allocated row to the target and      *)
(* leaves any other; no invocation changes its status.                       *)
LEMMA Finalize ==
    ASSUME TypeInv, TypeRow, NEW p \in Procs, NEW target \in {"released", "unconfirmed"},
           finalize_execution_resource(p, target)
    PROVE  /\ TypeInv' /\ TypeRow'
           /\ \A q \in Procs : row'[q].bound = row[q].bound
           /\ \A q \in Procs : q # p => row'[q] = row[q]
           /\ row'[p].status = IF row[p].status = "allocated" THEN target ELSE row[p].status
           /\ \A c \in Calls : inv'[c].status = inv[c].status
<1>1. p[1] \in Calls
  BY ProcCall
<1>2. CASE row[p].status \in {"allocated", target}
  <2>1. row' = [row EXCEPT ![p].status = target]
    BY <1>2 DEF finalize_execution_resource
  <2>2. inv' = [inv EXCEPT ![p[1]].cleanup = Projected(p[1], row')]
    BY <1>2 DEF finalize_execution_resource
  <2>3. Projected(p[1], row') \in Cleanup
    BY <1>1 DEF Projected, Cleanup, TypeInv
  <2>4. TypeRow' /\ \A q \in Procs : row'[q].bound = row[q].bound /\ (q # p => row'[q] = row[q])
    BY <2>1 DEF TypeRow
  <2>5. TypeInv' /\ \A c \in Calls : inv'[c].status = inv[c].status
    BY <1>1, <2>2, <2>3 DEF TypeInv
  <2>6. row'[p].status = target
    BY <2>1 DEF TypeRow
  <2>7. QED
    BY <1>2, <2>4, <2>5, <2>6
<1>3. CASE row[p].status \notin {"allocated", target}
  BY <1>3 DEF finalize_execution_resource, ledgerVars, TypeInv, TypeRow
<1>4. QED
  BY <1>2, <1>3

(* A call that closes reports clean only if its tracker holds nothing.       *)
LEMMA Closing ==
    ASSUME TypeCall, TypeTracker, NEW c \in Calls, NEW reply \in BOOLEAN, Close(c, reply)
    PROVE  /\ TypeCall'
           /\ \A d \in Calls : d # c => call'[d] = call[d]
           /\ call'[c].pc = "closed"
           /\ call'[c].told \in Clean => tracker[c].leases = {} /\ tracker[c].unconfirmed = {}
<1>1. TrackerStatus(tracker[c]) \in Cleanup
  BY DEF TrackerStatus, Cleanup
<1>2. QED
  BY <1>1 DEF Close, TypeCall, CallPoints, Clean, TrackerStatus

(* What a dropped future leaves of a supervisor. *)
LEMMA Orphans ==
    ASSUME TypeSup, NEW c \in Calls
    PROVE  /\ Orphaned(c) \in [Procs -> SupPoints]
           /\ \A p \in Procs : p[1] # c => Orphaned(c)[p] = sup[p]
           /\ \A p \in Procs : p[1] = c =>
                 Orphaned(c)[p] = IF sup[p] = "registering" THEN "lost"
                                  ELSE IF sup[p] = "registered" THEN "done" ELSE sup[p]
<1>1. ASSUME NEW p \in Procs
      PROVE  /\ Orphaned(c)[p] \in SupPoints
             /\ p[1] # c => Orphaned(c)[p] = sup[p]
             /\ p[1] = c => Orphaned(c)[p] = IF sup[p] = "registering" THEN "lost"
                                  ELSE IF sup[p] = "registered" THEN "done" ELSE sup[p]
  BY DEF Orphaned, TypeSup, SupPoints
<1>2. QED
  BY <1>1 DEF Orphaned

(* complete(p, confirmed) forgets p, or remembers it as unconfirmed. *)
LEMMA Completion ==
    ASSUME NEW t \in [leases : SUBSET Procs, unconfirmed : SUBSET Procs, saw : BOOLEAN],
           NEW p \in Procs, NEW confirmed \in BOOLEAN
    PROVE  /\ Completed(t, p, confirmed)
                \in [leases : SUBSET Procs, unconfirmed : SUBSET Procs, saw : BOOLEAN]
           /\ \A q \in Procs \ {p} :
                 q \in t.leases \cup t.unconfirmed =>
                    q \in Completed(t, p, confirmed).leases
                            \cup Completed(t, p, confirmed).unconfirmed
           /\ ~ confirmed => p \in Completed(t, p, confirmed).unconfirmed
BY DEF Completed

(* A clean cleanup status leaves no row open or unconfirmed. *)
LEMMA CleanStatus ==
    /\ run_cleanup_status(inv, row) \in Cleanup
    /\ run_cleanup_status(inv, row) \in Clean =>
          \A p \in Procs : row[p].status \notin {"allocated", "unconfirmed"}
BY DEF run_cleanup_status, Cleanup, Clean, RowsIn

(* The restart of a Run that had not ended leaves no row allocated and no    *)
(* invocation open or pending, and records the status of what it leaves.     *)
LEMMA Restarted ==
    ASSUME TypeInv, TypeRow, reconcile_runtime_after_restart, run # "ended"
    PROVE  /\ TypeInv' /\ TypeRow'
           /\ \A p \in Procs : row'[p] = [row[p] EXCEPT !.status =
                                  IF row[p].status = "allocated" THEN "unconfirmed" ELSE @]
           /\ \A c \in Calls : inv'[c].status = "terminal"
           /\ recorded' \in Cleanup \ {"pending"}
           /\ recorded' \in Clean => \A p \in Procs : row'[p].status # "unconfirmed"
<1>1. row' = ReconciledRows
  BY DEF reconcile_runtime_after_restart
<1>2. TypeRow' /\ \A p \in Procs : row'[p] = [row[p] EXCEPT !.status =
                                  IF row[p].status = "allocated" THEN "unconfirmed" ELSE @]
  BY <1>1 DEF ReconciledRows, TypeRow
<1>3. PICK readers \in SUBSET Calls : inv' = ReconciledInvocations(ReconciledRows, readers)
  BY DEF reconcile_runtime_after_restart
<1>4. ASSUME NEW c \in Calls
      PROVE  /\ inv'[c].status = "terminal"
             /\ inv'[c].cleanup \in Cleanup \ {"pending"}
             /\ inv'[c] \in [status : {"preparing", "running", "terminal"}, cleanup : Cleanup]
  <2>1. /\ Interrupted(c, ReconciledRows, readers) \in Cleanup \ {"pending"}
        /\ Unsettled(c, ReconciledRows) \in Cleanup \ {"pending"}
    BY DEF Interrupted, Unsettled, Cleanup
  <2>2. inv[c] \in [status : {"preparing", "running", "terminal"}, cleanup : Cleanup]
    BY DEF TypeInv
  <2>3. inv'[c] = IF Open(c) THEN Sealed(c, Interrupted(c, ReconciledRows, readers))
                  ELSE IF inv[c].cleanup = "pending" THEN Sealed(c, Unsettled(c, ReconciledRows))
                  ELSE inv[c]
    BY <1>3 DEF ReconciledInvocations
  <2>4. QED
    BY <2>1, <2>2, <2>3 DEF Open, Sealed
<1>5. TypeInv'
  BY <1>3, <1>4 DEF TypeInv, ReconciledInvocations
<1>6. recorded' = run_cleanup_status(inv', row')
  BY DEF reconcile_runtime_after_restart
<1>7. \A p \in Procs : row'[p].status # "allocated"
  BY <1>2 DEF TypeRow
<1>8. QED
  BY <1>2, <1>4, <1>5, <1>6, <1>7 DEF run_cleanup_status, RowsIn, Cleanup, Clean

(* What a forced write does to the ledgers. *)
LEMMA Forced ==
    ASSUME TypeInv, TypeRow, NEW c \in Calls, NEW p \in ProcsOf(c), ForceWrite(c, p)
    PROVE  /\ TypeInv' /\ TypeRow'
           /\ \A q \in Procs : row'[q].bound = row[q].bound
           /\ \A q \in Procs : \/ row'[q].status = row[q].status
                               \/ row[q].status = "allocated" /\ row'[q].status = "unconfirmed"
           /\ \A d \in Calls : inv'[d].status = inv[d].status
<1>1. p \in Procs
  BY ProcCall
<1>2. CASE finalize_execution_resource(p, "unconfirmed")
  BY <1>1, <1>2, Finalize
<1>3. CASE UNCHANGED ledgerVars
  BY <1>3 DEF ledgerVars, TypeInv, TypeRow
<1>4. QED
  BY <1>2, <1>3 DEF ForceWrite

(* The loop's end, the Run's end and its cleanup status are one. *)
LEMMA RunStep ==
    ASSUME TypeRun, TypeInv, TypeRow, RunShape, [Next]_vars
    PROVE  RunShape'
<1>1. ASSUME UNCHANGED <<run, engine, recorded, found>> PROVE RunShape'
  BY <1>1 DEF RunShape, TypeRun, Cleanup
<1>2. ASSUME AdmissionEnds PROVE RunShape'
  BY <1>2
  DEF AdmissionEnds, RunShape, TypeRun, Cleanup, runVars, ledgerVars, tokenVars, supVars,
      executionVars
<1>3. ASSUME close_tool_batch_for_runtime_failure PROVE RunShape'
  BY <1>3
  DEF close_tool_batch_for_runtime_failure, Open, Sealed, Unsealed, RunShape, TypeRun, Cleanup,
      runVars, tokenVars, supVars, executionVars
<1>4. ASSUME BatchCompletes PROVE RunShape'
  BY <1>4
  DEF BatchCompletes, Open, RunShape, TypeRun, Cleanup, runVars, ledgerVars, tokenVars, supVars,
      executionVars
<1>5. ASSUME abort_tool_phase PROVE RunShape'
  BY <1>5
  DEF abort_tool_phase, Open, Sealed, Unsealed, StreamsEnd, RunShape, TypeRun, Cleanup, runVars,
      tokenVars, supVars, executionVars
<1>6. ASSUME DrainStreams PROVE RunShape'
  BY <1>6
  DEF DrainStreams, StreamsEnd, Open, RunShape, TypeRun, Cleanup, runVars, ledgerVars,
      tokenVars, supVars, executionVars
<1>7. ASSUME DrainEnds PROVE RunShape'
  BY <1>7
  DEF DrainEnds, RunShape, TypeRun, Cleanup, runVars, ledgerVars, tokenVars, supVars,
      executionVars
<1>8. ASSUME abort_sub_agent_tool_invocations PROVE RunShape'
  BY <1>8
  DEF abort_sub_agent_tool_invocations, Open, Sealed, Unsealed, RunShape, TypeRun, Cleanup,
      runVars, tokenVars, supVars, executionVars
<1>9. ASSUME ReadCleanup PROVE RunShape'
  BY <1>9, CleanStatus DEF ReadCleanup, RunShape, TypeRun, Cleanup, runVars
<1>10. ASSUME commit_task_result PROVE RunShape'
  BY <1>10
  DEF commit_task_result, RunShape, TypeRun, Cleanup, ledgerVars, tokenVars, supVars,
      executionVars
<1>11. ASSUME StartRefused PROVE RunShape'
  BY <1>11 DEF StartRefused, Quarantine, RunShape, TypeRun, Cleanup, ledgerVars, supVars
<1>12. ASSUME fail_tool_durability PROVE RunShape'
  BY <1>12
  DEF fail_tool_durability, Quarantine, Fault, RunShape, TypeRun, Cleanup, ledgerVars, supVars
<1>13. ASSUME RecordStop PROVE RunShape'
  BY <1>13
  DEF RecordStop, RunShape, TypeRun, Cleanup, ledgerVars, engineVars, tokenVars, supVars,
      executionVars
<1>14. ASSUME reconcile_runtime_after_restart PROVE RunShape'
  <2>1. CASE run = "ended"
    BY <1>14, <2>1 DEF reconcile_runtime_after_restart, RunShape
  <2>2. CASE run # "ended"
    <3>1. recorded' \in Cleanup
      BY <1>14, <2>2, Restarted
    <3>2. QED
      BY <1>14, <2>2, <3>1 DEF reconcile_runtime_after_restart, RunShape, Cleanup
  <2>3. QED
    BY <2>1, <2>2
<1>15. QED
  <2>1. CASE Engine
    BY <2>1, <1>1, <1>2, <1>3, <1>4, <1>5, <1>6, <1>7, <1>8, <1>9, <1>10, <1>11, <1>12
    DEF Engine, start_guarded_tool_invocation, RejectCall, commit_tool_result_facts, runVars,
        engineVars, tokenVars, supVars, executionVars
  <2>2. ASSUME NEW c \in Calls, Executor(c) PROVE RunShape'
    BY <2>2, <1>1
    DEF Executor, admit_call, AdmissionRejected, SilentExit, WorkReturns, Panic, CancelNoticed,
        TimesOut, GraceDone, GraceOver, ForceWrite, ForceDone, runVars, ledgerVars, engineVars,
        tokenVars, supVars, executorUnchanged
  <2>3. ASSUME NEW p \in Procs, register_execution_resource(p) \/ Supervisor(p) \/ ProgramExits(p)
        PROVE  RunShape'
    BY <2>3, <1>1
    DEF Supervisor, register_execution_resource, RegisterCommits, RegisterFails, spawn_owned,
        spawn, bind_execution_resource_external, CheckCancel, release_gate, ProgramExits, Watch,
        terminate, TerminateUnbound, FinishReleased, FinishUnconfirmed, runVars, ledgerVars,
        engineVars, tokenVars, supUnchanged
  <2>4. CASE RecordStop \/ SignalStop \/ shutdown \/ reconcile_runtime_after_restart \/ UNCHANGED vars
    BY <2>4, <1>1, <1>13, <1>14
    DEF vars, SignalStop, shutdown, runVars, ledgerVars, engineVars, tokenVars, supVars,
        executionVars
  <2>5. QED
    BY <2>1, <2>2, <2>3, <2>4 DEF Next

(* A supervisor's place, its row and its process move together. *)
LEMMA SupStep ==
    ASSUME TypeInv, TypeRow, TypeSup, SupShape, [Next]_vars
    PROVE  SupShape'
<1>1. ASSUME UNCHANGED <<row, sup, phys>> PROVE SupShape'
  BY <1>1 DEF SupShape, TypeSup, TypeRow, SupPoints
<1>2. ASSUME NEW c \in Calls, Panic(c) PROVE SupShape'
  BY <1>2, Closing, Orphans
  DEF Panic, Working, SupShape, TypeSup, TypeRow, SupPoints, runVars, engineVars,
      executorUnchanged
<1>3. ASSUME NEW c \in Calls, GraceOver(c) PROVE SupShape'
  BY <1>3, Orphans
  DEF GraceOver, SupShape, TypeSup, TypeRow, SupPoints, runVars, engineVars, executorUnchanged
<1>4. ASSUME NEW c \in Calls, NEW p \in ProcsOf(c), ForceWrite(c, p) PROVE SupShape'
  BY <1>4, Forced
  DEF ForceWrite, Fault, SupShape, TypeSup, TypeRow, SupPoints, runVars, ledgerVars, engineVars,
      tokenVars, supVars
<1>5. ASSUME NEW p \in Procs, register_execution_resource(p) PROVE SupShape'
  BY <1>5, ProcCall
  DEF register_execution_resource, At, Goes, Working, Resting, SupShape, TypeSup, TypeRow,
      SupPoints, runVars, ledgerVars, engineVars, tokenVars, supUnchanged
<1>6. ASSUME NEW p \in Procs, RegisterCommits(p) PROVE SupShape'
  BY <1>6, ProcCall
  DEF RegisterCommits, At, Goes, SupShape, TypeSup, TypeRow, SupPoints, runVars, engineVars,
      tokenVars, supUnchanged
<1>7. ASSUME NEW p \in Procs, RegisterFails(p) PROVE SupShape'
  BY <1>7, ProcCall
  DEF RegisterFails, At, Goes, Fault, Completed, SupShape, TypeSup, TypeRow, SupPoints, runVars,
      ledgerVars, engineVars, tokenVars, supUnchanged
<1>8. ASSUME NEW p \in Procs, spawn_owned(p) PROVE SupShape'
  BY <1>8, Finalize, ProcCall
  DEF spawn_owned, At, Goes, Working, Completed, SupShape, TypeSup, TypeRow, SupPoints, runVars,
      ledgerVars, engineVars, tokenVars, supUnchanged
<1>9. ASSUME NEW p \in Procs, spawn(p) PROVE SupShape'
  BY <1>9
  DEF spawn, At, Goes, SupShape, TypeSup, TypeRow, SupPoints, runVars, ledgerVars, engineVars,
      tokenVars, supUnchanged
<1>10. ASSUME NEW p \in Procs, bind_execution_resource_external(p) PROVE SupShape'
  BY <1>10
  DEF bind_execution_resource_external, At, Goes, Fault, SupShape, TypeSup, TypeRow, SupPoints,
      runVars, engineVars, tokenVars, supUnchanged
<1>11. ASSUME NEW p \in Procs, CheckCancel(p) PROVE SupShape'
  BY <1>11, ProcCall
  DEF CheckCancel, At, Goes, Cancelled, SupShape, TypeSup, TypeRow, SupPoints, runVars,
      ledgerVars, engineVars, tokenVars, supUnchanged
<1>12. ASSUME NEW p \in Procs, release_gate(p) PROVE SupShape'
  BY <1>12
  DEF release_gate, At, Goes, SupShape, TypeSup, TypeRow, SupPoints, runVars, ledgerVars,
      engineVars, tokenVars, supUnchanged
<1>13. ASSUME NEW p \in Procs, ProgramExits(p) PROVE SupShape'
  BY <1>13
  DEF ProgramExits, SupShape, TypeSup, TypeRow, SupPoints, runVars, ledgerVars, engineVars,
      tokenVars, supUnchanged
<1>14. ASSUME NEW p \in Procs, Watch(p) PROVE SupShape'
  BY <1>14
  DEF Watch, At, Goes, SupShape, TypeSup, TypeRow, SupPoints, runVars, ledgerVars, engineVars,
      tokenVars, supUnchanged
<1>15. ASSUME NEW p \in Procs, terminate(p) PROVE SupShape'
  BY <1>15
  DEF terminate, At, Goes, Fault, SupShape, TypeSup, TypeRow, SupPoints, runVars, ledgerVars,
      engineVars, tokenVars, supUnchanged
<1>16. ASSUME NEW p \in Procs, TerminateUnbound(p) PROVE SupShape'
  BY <1>16
  DEF TerminateUnbound, At, Goes, Fault, SupShape, TypeSup, TypeRow, SupPoints, runVars,
      ledgerVars, engineVars, tokenVars, supUnchanged
<1>17. ASSUME NEW p \in Procs, FinishReleased(p) PROVE SupShape'
  BY <1>17, Finalize, ProcCall
  DEF FinishReleased, At, Goes, Fault, Completed, SupShape, TypeSup, TypeRow, SupPoints,
      runVars, ledgerVars, engineVars, tokenVars, supUnchanged
<1>18. ASSUME NEW p \in Procs, FinishUnconfirmed(p) PROVE SupShape'
  BY <1>18, Finalize, ProcCall
  DEF FinishUnconfirmed, At, Goes, Fault, Completed, SupShape, TypeSup, TypeRow, SupPoints,
      runVars, ledgerVars, engineVars, tokenVars, supUnchanged
<1>19. ASSUME reconcile_runtime_after_restart PROVE SupShape'
  BY <1>19
  DEF reconcile_runtime_after_restart, ReconciledRows, ReconciledInvocations, Sealed, Survives,
      Idle, SupShape, TypeSup, TypeRow, SupPoints, ledgerVars
<1>20. QED
  <2>1. CASE Engine
    BY <2>1, <1>1
    DEF Engine, start_guarded_tool_invocation, RejectCall, commit_tool_result_facts,
        AdmissionEnds, close_tool_batch_for_runtime_failure, BatchCompletes, abort_tool_phase,
        DrainStreams, DrainEnds, abort_sub_agent_tool_invocations, ReadCleanup,
        commit_task_result, StartRefused, fail_tool_durability, Quarantine, runVars, ledgerVars,
        engineVars, tokenVars, supVars, executionVars
  <2>2. ASSUME NEW c \in Calls, Executor(c) PROVE SupShape'
    BY <2>2, <1>1, <1>2, <1>3, <1>4
    DEF Executor, admit_call, AdmissionRejected, SilentExit, WorkReturns, CancelNoticed,
        TimesOut, GraceDone, ForceDone, runVars, engineVars, supVars, executorUnchanged
  <2>3. ASSUME NEW p \in Procs, register_execution_resource(p) \/ Supervisor(p) \/ ProgramExits(p)
        PROVE  SupShape'
    BY <2>3, <1>1, <1>5, <1>6, <1>7, <1>8, <1>9, <1>10, <1>11, <1>12, <1>13, <1>14, <1>15,
       <1>16, <1>17, <1>18
    DEF Supervisor
  <2>4. CASE RecordStop \/ SignalStop \/ shutdown \/ reconcile_runtime_after_restart \/ UNCHANGED vars
    BY <2>4, <1>1, <1>19
    DEF vars, RecordStop, SignalStop, shutdown, runVars, ledgerVars, engineVars, tokenVars,
        supVars, executionVars
  <2>5. QED
    BY <2>1, <2>2, <2>3, <2>4 DEF Next

(* A program passes its gate only with its row bound. *)
LEMMA AliveStep ==
    ASSUME TypeInv, TypeRow, TypeSup, SupShape, AliveIsOwned, [Next]_vars
    PROVE  AliveIsOwned'
<1>1. ASSUME UNCHANGED <<row, phys>> PROVE AliveIsOwned'
  BY <1>1 DEF AliveIsOwned, SupShape, TypeSup, TypeRow, SupPoints
<1>2. ASSUME NEW c \in Calls, NEW p \in ProcsOf(c), ForceWrite(c, p) PROVE AliveIsOwned'
  BY <1>2, Forced
  DEF ForceWrite, Fault, AliveIsOwned, SupShape, TypeSup, TypeRow, SupPoints, runVars,
      ledgerVars, engineVars, tokenVars, supVars
<1>3. ASSUME NEW p \in Procs, RegisterCommits(p) PROVE AliveIsOwned'
  BY <1>3, ProcCall
  DEF RegisterCommits, At, Goes, AliveIsOwned, SupShape, TypeSup, TypeRow, SupPoints, runVars,
      engineVars, tokenVars, supUnchanged
<1>4. ASSUME NEW p \in Procs, spawn_owned(p) PROVE AliveIsOwned'
  BY <1>4, Finalize, ProcCall
  DEF spawn_owned, At, Goes, Working, Completed, AliveIsOwned, SupShape, TypeSup, TypeRow,
      SupPoints, runVars, ledgerVars, engineVars, tokenVars, supUnchanged
<1>5. ASSUME NEW p \in Procs, spawn(p) PROVE AliveIsOwned'
  BY <1>5
  DEF spawn, At, Goes, AliveIsOwned, SupShape, TypeSup, TypeRow, SupPoints, runVars, ledgerVars,
      engineVars, tokenVars, supUnchanged
<1>6. ASSUME NEW p \in Procs, bind_execution_resource_external(p) PROVE AliveIsOwned'
  BY <1>6
  DEF bind_execution_resource_external, At, Goes, Fault, AliveIsOwned, SupShape, TypeSup,
      TypeRow, SupPoints, runVars, engineVars, tokenVars, supUnchanged
<1>7. ASSUME NEW p \in Procs, release_gate(p) PROVE AliveIsOwned'
  BY <1>7
  DEF release_gate, At, Goes, AliveIsOwned, SupShape, TypeSup, TypeRow, SupPoints, runVars,
      ledgerVars, engineVars, tokenVars, supUnchanged
<1>8. ASSUME NEW p \in Procs, ProgramExits(p) PROVE AliveIsOwned'
  BY <1>8
  DEF ProgramExits, AliveIsOwned, SupShape, TypeSup, TypeRow, SupPoints, runVars, ledgerVars,
      engineVars, tokenVars, supUnchanged
<1>9. ASSUME NEW p \in Procs, terminate(p) PROVE AliveIsOwned'
  BY <1>9
  DEF terminate, At, Goes, Fault, AliveIsOwned, SupShape, TypeSup, TypeRow, SupPoints, runVars,
      ledgerVars, engineVars, tokenVars, supUnchanged
<1>10. ASSUME NEW p \in Procs, TerminateUnbound(p) PROVE AliveIsOwned'
  BY <1>10
  DEF TerminateUnbound, At, Goes, Fault, AliveIsOwned, SupShape, TypeSup, TypeRow, SupPoints,
      runVars, ledgerVars, engineVars, tokenVars, supUnchanged
<1>11. ASSUME NEW p \in Procs, FinishReleased(p) PROVE AliveIsOwned'
  BY <1>11, Finalize, ProcCall
  DEF FinishReleased, At, Goes, Fault, Completed, AliveIsOwned, SupShape, TypeSup, TypeRow,
      SupPoints, runVars, ledgerVars, engineVars, tokenVars, supUnchanged
<1>12. ASSUME NEW p \in Procs, FinishUnconfirmed(p) PROVE AliveIsOwned'
  BY <1>12, Finalize, ProcCall
  DEF FinishUnconfirmed, At, Goes, Fault, Completed, AliveIsOwned, SupShape, TypeSup, TypeRow,
      SupPoints, runVars, ledgerVars, engineVars, tokenVars, supUnchanged
<1>13. ASSUME reconcile_runtime_after_restart PROVE AliveIsOwned'
  <2>1. \A p \in Procs : phys'[p] # "gate" /\ (phys'[p] = "program" => phys[p] = "program")
    BY <1>13 DEF reconcile_runtime_after_restart, Survives, TypeSup
  <2>2. CASE run = "ended"
    BY <1>13, <2>1, <2>2 DEF reconcile_runtime_after_restart, AliveIsOwned, ledgerVars
  <2>3. CASE run # "ended"
    <3>1. \A p \in Procs :
             /\ row[p].bound => row'[p].bound
             /\ row[p].status \in {"allocated", "unconfirmed"} => row'[p].status = "unconfirmed"
      BY <1>13, <2>3, Restarted DEF TypeRow
    <3>2. QED
      BY <2>1, <3>1 DEF AliveIsOwned
  <2>4. QED
    BY <2>2, <2>3
<1>14. QED
  <2>1. CASE Engine
    BY <2>1, <1>1
    DEF Engine, start_guarded_tool_invocation, RejectCall, commit_tool_result_facts,
        AdmissionEnds, close_tool_batch_for_runtime_failure, BatchCompletes, abort_tool_phase,
        DrainStreams, DrainEnds, abort_sub_agent_tool_invocations, ReadCleanup,
        commit_task_result, StartRefused, fail_tool_durability, Quarantine, runVars, ledgerVars,
        engineVars, tokenVars, supVars, executionVars
  <2>2. ASSUME NEW c \in Calls, Executor(c) PROVE AliveIsOwned'
    BY <2>2, <1>1, <1>2
    DEF Executor, admit_call, AdmissionRejected, SilentExit, WorkReturns, Panic, CancelNoticed,
        TimesOut, GraceDone, GraceOver, ForceDone, runVars, engineVars, supVars,
        executorUnchanged
  <2>3. ASSUME NEW p \in Procs, register_execution_resource(p) \/ Supervisor(p) \/ ProgramExits(p)
        PROVE  AliveIsOwned'
    BY <2>3, <1>1, <1>3, <1>4, <1>5, <1>6, <1>7, <1>8, <1>9, <1>10, <1>11, <1>12
    DEF Supervisor, register_execution_resource, RegisterFails, CheckCancel, Watch, runVars,
        ledgerVars, engineVars, tokenVars, supUnchanged
  <2>4. CASE RecordStop \/ SignalStop \/ shutdown \/ reconcile_runtime_after_restart \/ UNCHANGED vars
    BY <2>4, <1>1, <1>13
    DEF vars, RecordStop, SignalStop, shutdown, runVars, ledgerVars, engineVars, tokenVars,
        supVars, executionVars
  <2>5. QED
    BY <2>1, <2>2, <2>3, <2>4 DEF Next

(* A call begins once and ends once. *)
LEMMA CallStep ==
    ASSUME TypeRun, TypeInv, TypeRow, TypeCall, TypeTracker, TypeSup, CallShape, [Next]_vars
    PROVE  CallShape'
<1>1. ASSUME UNCHANGED <<call, inv, engine>> PROVE CallShape'
  BY <1>1 DEF CallShape, TypeInv, TypeCall
<1>2. ASSUME NEW c \in Calls, start_guarded_tool_invocation(c) PROVE CallShape'
  BY <1>2
  DEF start_guarded_tool_invocation, CallShape, TypeInv, TypeCall, runVars, engineVars,
      tokenVars, supVars
<1>3. ASSUME NEW c \in Calls, RejectCall(c) PROVE CallShape'
  BY <1>3
  DEF RejectCall, Sealed, CallShape, TypeInv, TypeCall, runVars, engineVars, tokenVars, supVars,
      executionVars
<1>4. ASSUME NEW c \in Calls, commit_tool_result_facts(c) PROVE CallShape'
  BY <1>4
  DEF commit_tool_result_facts, Sealed, Open, CallShape, TypeInv, TypeCall, runVars, engineVars,
      tokenVars, supVars, executionVars
<1>5. ASSUME AdmissionEnds PROVE CallShape'
  BY <1>5
  DEF AdmissionEnds, CallShape, TypeInv, TypeCall, runVars, ledgerVars, tokenVars, supVars,
      executionVars
<1>6. ASSUME close_tool_batch_for_runtime_failure PROVE CallShape'
  BY <1>6
  DEF close_tool_batch_for_runtime_failure, Open, Sealed, Unsealed, CallShape, TypeInv,
      TypeCall, runVars, tokenVars, supVars, executionVars
<1>7. ASSUME BatchCompletes PROVE CallShape'
  BY <1>7
  DEF BatchCompletes, Open, CallShape, TypeInv, TypeCall, runVars, ledgerVars, tokenVars,
      supVars, executionVars
<1>8. ASSUME abort_tool_phase PROVE CallShape'
  BY <1>8
  DEF abort_tool_phase, Open, Sealed, Unsealed, StreamsEnd, CallShape, TypeInv, TypeCall,
      runVars, tokenVars, supVars, executionVars
<1>9. ASSUME DrainStreams PROVE CallShape'
  BY <1>9
  DEF DrainStreams, StreamsEnd, Open, CallShape, TypeInv, TypeCall, runVars, ledgerVars,
      tokenVars, supVars, executionVars
<1>10. ASSUME DrainEnds PROVE CallShape'
  BY <1>10
  DEF DrainEnds, CallShape, TypeInv, TypeCall, runVars, ledgerVars, tokenVars, supVars,
      executionVars
<1>11. ASSUME abort_sub_agent_tool_invocations PROVE CallShape'
  BY <1>11
  DEF abort_sub_agent_tool_invocations, Open, Sealed, Unsealed, CallShape, TypeInv, TypeCall,
      runVars, tokenVars, supVars, executionVars
<1>12. ASSUME ReadCleanup PROVE CallShape'
  BY <1>12
  DEF ReadCleanup, CallShape, TypeInv, TypeCall, runVars, ledgerVars, tokenVars, supVars,
      executionVars
<1>13. ASSUME commit_task_result PROVE CallShape'
  BY <1>13
  DEF commit_task_result, CallShape, TypeInv, TypeCall, ledgerVars, tokenVars, supVars,
      executionVars
<1>14. ASSUME StartRefused PROVE CallShape'
  BY <1>14 DEF StartRefused, Quarantine, CallShape, TypeInv, TypeCall, ledgerVars, supVars
<1>15. ASSUME fail_tool_durability PROVE CallShape'
  BY <1>15
  DEF fail_tool_durability, Quarantine, Fault, CallShape, TypeInv, TypeCall, ledgerVars, supVars
<1>16. ASSUME NEW c \in Calls, admit_call(c) PROVE CallShape'
  BY <1>16
  DEF admit_call, Cancelled, CallShape, TypeInv, TypeCall, runVars, engineVars, supVars,
      executorUnchanged
<1>17. ASSUME NEW c \in Calls, AdmissionRejected(c) PROVE CallShape'
  BY <1>17
  DEF AdmissionRejected, CallShape, TypeInv, TypeCall, runVars, engineVars, supVars,
      executorUnchanged
<1>18. ASSUME NEW c \in Calls, SilentExit(c) PROVE CallShape'
  BY <1>18
  DEF SilentExit, Cancelled, CallShape, TypeInv, TypeCall, runVars, engineVars, supVars,
      executorUnchanged
<1>19. ASSUME NEW c \in Calls, WorkReturns(c) PROVE CallShape'
  BY <1>19, Closing
  DEF WorkReturns, Resting, CallShape, TypeInv, TypeCall, runVars, engineVars, supVars,
      executorUnchanged
<1>20. ASSUME NEW c \in Calls, Panic(c) PROVE CallShape'
  <2>1. PICK reply \in BOOLEAN : Close(c, reply)
    BY <1>20 DEF Panic, TypeCall
  <2>2. QED
    BY <1>20, <2>1, Closing DEF Panic, Working, CallShape, executorUnchanged, engineVars
<1>21. ASSUME NEW c \in Calls, CancelNoticed(c) PROVE CallShape'
  BY <1>21
  DEF CancelNoticed, Cancelled, CallShape, TypeInv, TypeCall, runVars, engineVars, supVars,
      executorUnchanged
<1>22. ASSUME NEW c \in Calls, TimesOut(c) PROVE CallShape'
  BY <1>22
  DEF TimesOut, CallShape, TypeInv, TypeCall, runVars, engineVars, supVars, executorUnchanged
<1>23. ASSUME NEW c \in Calls, GraceDone(c) PROVE CallShape'
  BY <1>23, Closing
  DEF GraceDone, Resting, CallShape, TypeInv, TypeCall, runVars, engineVars, supVars,
      executorUnchanged
<1>24. ASSUME NEW c \in Calls, GraceOver(c) PROVE CallShape'
  BY <1>24, Orphans
  DEF GraceOver, CallShape, TypeInv, TypeCall, runVars, engineVars, executorUnchanged
<1>25. ASSUME NEW c \in Calls, NEW p \in ProcsOf(c), ForceWrite(c, p) PROVE CallShape'
  BY <1>25, Forced
  DEF ForceWrite, Fault, CallShape, TypeInv, TypeCall, runVars, ledgerVars, engineVars,
      tokenVars, supVars
<1>26. ASSUME NEW c \in Calls, ForceDone(c) PROVE CallShape'
  BY <1>26, Closing
  DEF ForceDone, CallShape, TypeInv, TypeCall, runVars, engineVars, supVars, executorUnchanged
<1>27. ASSUME NEW p \in Procs, spawn_owned(p) PROVE CallShape'
  BY <1>27, Finalize, ProcCall
  DEF spawn_owned, At, Goes, Working, Completed, CallShape, TypeInv, TypeCall, runVars,
      ledgerVars, engineVars, tokenVars, supUnchanged
<1>28. ASSUME NEW p \in Procs, FinishReleased(p) PROVE CallShape'
  BY <1>28, Finalize, ProcCall
  DEF FinishReleased, At, Goes, Fault, Completed, CallShape, TypeInv, TypeCall, runVars,
      ledgerVars, engineVars, tokenVars, supUnchanged
<1>29. ASSUME NEW p \in Procs, FinishUnconfirmed(p) PROVE CallShape'
  BY <1>29, Finalize, ProcCall
  DEF FinishUnconfirmed, At, Goes, Fault, Completed, CallShape, TypeInv, TypeCall, runVars,
      ledgerVars, engineVars, tokenVars, supUnchanged
<1>30. ASSUME reconcile_runtime_after_restart PROVE CallShape'
  BY <1>30
  DEF reconcile_runtime_after_restart, ReconciledRows, ReconciledInvocations, Sealed, Survives,
      Idle, CallShape, TypeInv, TypeCall, Idle, ledgerVars
<1>31. QED
  <2>1. CASE Engine
    BY <2>1, <1>1, <1>2, <1>3, <1>4, <1>5, <1>6, <1>7, <1>8, <1>9, <1>10, <1>11, <1>12, <1>13,
       <1>14, <1>15
    DEF Engine
  <2>2. ASSUME NEW c \in Calls, Executor(c) PROVE CallShape'
    BY <2>2, <1>1, <1>16, <1>17, <1>18, <1>19, <1>20, <1>21, <1>22, <1>23, <1>24, <1>25, <1>26
    DEF Executor
  <2>3. ASSUME NEW p \in Procs, register_execution_resource(p) \/ Supervisor(p) \/ ProgramExits(p)
        PROVE  CallShape'
    BY <2>3, <1>1, <1>27, <1>28, <1>29
    DEF Supervisor, register_execution_resource, RegisterCommits, RegisterFails, spawn,
        bind_execution_resource_external, CheckCancel, release_gate, ProgramExits, Watch,
        terminate, TerminateUnbound, runVars, ledgerVars, engineVars, tokenVars, supUnchanged
  <2>4. CASE RecordStop \/ SignalStop \/ shutdown \/ reconcile_runtime_after_restart \/ UNCHANGED vars
    BY <2>4, <1>1, <1>30
    DEF vars, RecordStop, SignalStop, shutdown, runVars, ledgerVars, engineVars, tokenVars,
        supVars, executionVars
  <2>5. QED
    BY <2>1, <2>2, <2>3, <2>4 DEF Next

(* The tracker of a call covers its programs. *)
LEMMA TrackerStep ==
    ASSUME TypeInv, TypeRow, TypeCall, TypeTracker, TypeSup, SupShape, CallShape, TrackerShape,
           [Next]_vars
    PROVE  TrackerShape'
<1>1. ASSUME UNCHANGED <<sup, phys, call, tracker>> PROVE TrackerShape'
  BY <1>1
  DEF TrackerShape, TypeCall, TypeTracker, TypeSup, SupShape, CallShape, Working, Alive, Clean
<1>2. ASSUME NEW c \in Calls, start_guarded_tool_invocation(c) PROVE TrackerShape'
  BY <1>2
  DEF start_guarded_tool_invocation, TrackerShape, TypeCall, TypeTracker, TypeSup, SupShape,
      CallShape, Working, Alive, Clean, runVars, engineVars, tokenVars, supVars
<1>3. ASSUME NEW c \in Calls, admit_call(c) PROVE TrackerShape'
  BY <1>3
  DEF admit_call, Cancelled, TrackerShape, TypeCall, TypeTracker, TypeSup, SupShape, CallShape,
      Working, Alive, Clean, runVars, engineVars, supVars, executorUnchanged
<1>4. ASSUME NEW c \in Calls, AdmissionRejected(c) PROVE TrackerShape'
  BY <1>4
  DEF AdmissionRejected, TrackerShape, TypeCall, TypeTracker, TypeSup, SupShape, CallShape,
      Working, Alive, Clean, runVars, engineVars, supVars, executorUnchanged
<1>5. ASSUME NEW c \in Calls, SilentExit(c) PROVE TrackerShape'
  BY <1>5
  DEF SilentExit, Cancelled, TrackerShape, TypeCall, TypeTracker, TypeSup, SupShape, CallShape,
      Working, Alive, Clean, runVars, engineVars, supVars, executorUnchanged
<1>6. ASSUME NEW c \in Calls, WorkReturns(c) PROVE TrackerShape'
  <2>1. PICK reply \in BOOLEAN : Close(c, reply)
    BY <1>6 DEF WorkReturns, TypeCall
  <2>2. QED
    BY <1>6, <2>1, Closing, ProcCall
    DEF WorkReturns, TrackerShape, TypeCall, TypeSup, SupShape, Working, Alive, Clean, supVars,
        Resting, ProcsOf
<1>7. ASSUME NEW c \in Calls, Panic(c) PROVE TrackerShape'
  <2>1. PICK reply \in BOOLEAN : Close(c, reply)
    BY <1>7 DEF Panic, TypeCall
  <2>2. tracker' = tracker /\ phys' = phys /\ sup' = Orphaned(c)
    BY <1>7 DEF Panic
  <2>3. QED
    BY <1>7, <2>1, <2>2, Closing, Orphans, ProcCall
    DEF TrackerShape, CallShape, TypeCall, TypeSup, SupShape, Panic, Working, Alive, Clean
<1>8. ASSUME NEW c \in Calls, CancelNoticed(c) PROVE TrackerShape'
  <2>1. /\ \A d \in Calls : d # c => call'[d] = call[d]
        /\ call'[c].pc = "grace" /\ call'[c].told = call[c].told /\ call[c].pc = "work"
    BY <1>8 DEF CancelNoticed, TypeCall
  <2>2. sup' = sup /\ phys' = phys /\ tracker' = tracker
    BY <1>8 DEF CancelNoticed, supVars
  <2>3. QED
    BY <2>1, <2>2, ProcCall DEF TrackerShape, Working, Alive, Clean
<1>9. ASSUME NEW c \in Calls, TimesOut(c) PROVE TrackerShape'
  <2>1. /\ \A d \in Calls : d # c => call'[d] = call[d]
        /\ call'[c].pc = "grace" /\ call'[c].told = call[c].told /\ call[c].pc = "work"
    BY <1>9 DEF TimesOut, TypeCall
  <2>2. sup' = sup /\ phys' = phys /\ tracker' = tracker
    BY <1>9 DEF TimesOut, supVars
  <2>3. QED
    BY <2>1, <2>2, ProcCall DEF TrackerShape, Working, Alive, Clean
<1>10. ASSUME NEW c \in Calls, GraceDone(c) PROVE TrackerShape'
  <2>1. PICK reply \in BOOLEAN : Close(c, reply)
    BY <1>10 DEF GraceDone, TypeCall
  <2>2. QED
    BY <1>10, <2>1, Closing, ProcCall
    DEF GraceDone, TrackerShape, TypeCall, TypeSup, SupShape, Working, Alive, Clean, supVars,
        Resting, ProcsOf
<1>11. ASSUME NEW c \in Calls, GraceOver(c) PROVE TrackerShape'
  <2>1. /\ \A d \in Calls : d # c => call'[d] = call[d] /\ tracker'[d] = tracker[d]
        /\ call'[c].pc = "forcing" /\ call'[c].told = call[c].told /\ call[c].pc = "grace"
        /\ tracker'[c].leases \cup tracker'[c].unconfirmed =
              tracker[c].leases \cup tracker[c].unconfirmed
    BY <1>11 DEF GraceOver, TypeCall, TypeTracker
  <2>2. sup' = Orphaned(c) /\ phys' = phys
    BY <1>11 DEF GraceOver
  <2>3. QED
    BY <2>1, <2>2, Orphans, ProcCall DEF TrackerShape, CallShape, SupShape, Working, Alive, Clean
<1>12. ASSUME NEW c \in Calls, NEW p \in ProcsOf(c), ForceWrite(c, p) PROVE TrackerShape'
  BY <1>12, Forced
  DEF ForceWrite, Fault, TrackerShape, TypeCall, TypeTracker, TypeSup, SupShape, CallShape,
      Working, Alive, Clean, runVars, ledgerVars, engineVars, tokenVars, supVars
<1>13. ASSUME NEW c \in Calls, ForceDone(c) PROVE TrackerShape'
  <2>1. PICK reply \in BOOLEAN : Close(c, reply)
    BY <1>13 DEF ForceDone, TypeCall
  <2>2. QED
    BY <1>13, <2>1, Closing, ProcCall
    DEF ForceDone, TrackerShape, TypeCall, TypeSup, SupShape, Working, Alive, Clean, supVars,
        ProcsOf
<1>14. ASSUME NEW p \in Procs, register_execution_resource(p) PROVE TrackerShape'
  BY <1>14, ProcCall
  DEF register_execution_resource, At, Goes, Working, Resting, TrackerShape, TypeCall,
      TypeTracker, TypeSup, SupShape, CallShape, Working, Alive, Clean, runVars, ledgerVars,
      engineVars, tokenVars, supUnchanged
<1>15. ASSUME NEW p \in Procs, RegisterCommits(p) PROVE TrackerShape'
  BY <1>15, ProcCall
  DEF RegisterCommits, At, Goes, TrackerShape, TypeCall, TypeTracker, TypeSup, SupShape,
      CallShape, Working, Alive, Clean, runVars, engineVars, tokenVars, supUnchanged
<1>16. ASSUME NEW p \in Procs, RegisterFails(p) PROVE TrackerShape'
  BY <1>16, ProcCall
  DEF RegisterFails, At, Goes, Fault, Completed, TrackerShape, TypeCall, TypeTracker, TypeSup,
      SupShape, CallShape, Working, Alive, Clean, runVars, ledgerVars, engineVars, tokenVars,
      supUnchanged
<1>17. ASSUME NEW p \in Procs, spawn_owned(p) PROVE TrackerShape'
  <2>1. CASE intake
    BY <1>17, <2>1, ProcCall
    DEF spawn_owned, At, Goes, TrackerShape, TypeSup, Alive, Working, Clean, supUnchanged
  <2>2. CASE ~ intake
    <3>1. tracker' = [tracker EXCEPT ![p[1]] = Completed(tracker[p[1]], p, FALSE)]
      BY <1>17, <2>2 DEF spawn_owned
    <3>2. tracker[p[1]] \in [leases : SUBSET Procs, unconfirmed : SUBSET Procs, saw : BOOLEAN]
      BY ProcCall DEF TypeTracker
    <3>3. /\ \A q \in Procs \ {p} : q \in tracker[q[1]].leases \cup tracker[q[1]].unconfirmed =>
                q \in tracker'[q[1]].leases \cup tracker'[q[1]].unconfirmed
          /\ p \in tracker'[p[1]].unconfirmed
      BY <3>1, <3>2, Completion, ProcCall DEF TypeTracker
    <3>4. sup' = [sup EXCEPT ![p] = "done"] /\ phys' = phys /\ call' = call
      BY <1>17, <2>2 DEF spawn_owned, At, Goes, supUnchanged
    <3>5. QED
      BY <1>17, <3>3, <3>4, ProcCall
      DEF TrackerShape, TypeSup, Alive, Working, Clean, spawn_owned, At
  <2>3. QED
    BY <2>1, <2>2
<1>18. ASSUME NEW p \in Procs, spawn(p) PROVE TrackerShape'
  BY <1>18
  DEF spawn, At, Goes, TrackerShape, TypeCall, TypeTracker, TypeSup, SupShape, CallShape,
      Working, Alive, Clean, runVars, ledgerVars, engineVars, tokenVars, supUnchanged
<1>19. ASSUME NEW p \in Procs, bind_execution_resource_external(p) PROVE TrackerShape'
  BY <1>19
  DEF bind_execution_resource_external, At, Goes, Fault, TrackerShape, TypeCall, TypeTracker,
      TypeSup, SupShape, CallShape, Working, Alive, Clean, runVars, engineVars, tokenVars,
      supUnchanged
<1>20. ASSUME NEW p \in Procs, CheckCancel(p) PROVE TrackerShape'
  BY <1>20, ProcCall
  DEF CheckCancel, At, Goes, Cancelled, TrackerShape, TypeCall, TypeTracker, TypeSup, SupShape,
      CallShape, Working, Alive, Clean, runVars, ledgerVars, engineVars, tokenVars, supUnchanged
<1>21. ASSUME NEW p \in Procs, release_gate(p) PROVE TrackerShape'
  BY <1>21
  DEF release_gate, At, Goes, TrackerShape, TypeCall, TypeTracker, TypeSup, SupShape, CallShape,
      Working, Alive, Clean, runVars, ledgerVars, engineVars, tokenVars, supUnchanged
<1>22. ASSUME NEW p \in Procs, ProgramExits(p) PROVE TrackerShape'
  BY <1>22
  DEF ProgramExits, TrackerShape, TypeCall, TypeTracker, TypeSup, SupShape, CallShape, Working,
      Alive, Clean, runVars, ledgerVars, engineVars, tokenVars, supUnchanged
<1>23. ASSUME NEW p \in Procs, Watch(p) PROVE TrackerShape'
  BY <1>23
  DEF Watch, At, Goes, TrackerShape, TypeCall, TypeTracker, TypeSup, SupShape, CallShape,
      Working, Alive, Clean, runVars, ledgerVars, engineVars, tokenVars, supUnchanged
<1>24. ASSUME NEW p \in Procs, terminate(p) PROVE TrackerShape'
  BY <1>24
  DEF terminate, At, Goes, Fault, TrackerShape, TypeCall, TypeTracker, TypeSup, SupShape,
      CallShape, Working, Alive, Clean, runVars, ledgerVars, engineVars, tokenVars, supUnchanged
<1>25. ASSUME NEW p \in Procs, TerminateUnbound(p) PROVE TrackerShape'
  BY <1>25
  DEF TerminateUnbound, At, Goes, Fault, TrackerShape, TypeCall, TypeTracker, TypeSup, SupShape,
      CallShape, Working, Alive, Clean, runVars, ledgerVars, engineVars, tokenVars, supUnchanged
<1>26. ASSUME NEW p \in Procs, FinishReleased(p) PROVE TrackerShape'
  <2>1. PICK confirmed \in BOOLEAN :
              /\ tracker' = [tracker EXCEPT ![p[1]] = Completed(tracker[p[1]], p, confirmed)]
              /\ confirmed => phys[p] \notin {"gate", "program"}
    BY <1>26 DEF FinishReleased, At, SupShape
  <2>2. tracker[p[1]] \in [leases : SUBSET Procs, unconfirmed : SUBSET Procs, saw : BOOLEAN]
    BY ProcCall DEF TypeTracker
  <2>3. /\ \A q \in Procs \ {p} : q \in tracker[q[1]].leases \cup tracker[q[1]].unconfirmed =>
              q \in tracker'[q[1]].leases \cup tracker'[q[1]].unconfirmed
        /\ ~ confirmed => p \in tracker'[p[1]].unconfirmed
    BY <2>1, <2>2, Completion, ProcCall DEF TypeTracker
  <2>4. /\ sup' = [sup EXCEPT ![p] = "done"] /\ phys' = phys /\ call' = call
    BY <1>26 DEF FinishReleased, At, Goes, supUnchanged
  <2>5. QED
    BY <1>26, <2>1, <2>3, <2>4, ProcCall
    DEF TrackerShape, TypeSup, Alive, Working, Clean, FinishReleased, At
<1>27. ASSUME NEW p \in Procs, FinishUnconfirmed(p) PROVE TrackerShape'
  BY <1>27, Finalize, ProcCall
  DEF FinishUnconfirmed, At, Goes, Fault, Completed, TrackerShape, TypeCall, TypeTracker,
      TypeSup, SupShape, CallShape, Working, Alive, Clean, runVars, ledgerVars, engineVars,
      tokenVars, supUnchanged
<1>28. ASSUME reconcile_runtime_after_restart PROVE TrackerShape'
  <2>1. /\ \A p \in Procs : sup'[p] = "done" /\ (Alive(p)' => Alive(p))
        /\ \A c \in Calls : call'[c].pc = "closed" /\ call'[c].told = "none"
        /\ tracker' = tracker
    BY <1>28 DEF reconcile_runtime_after_restart, Survives, Alive, Idle
  <2>2. QED
    BY <2>1, ProcCall DEF TrackerShape, Clean, Working
<1>29. QED
  <2>1. CASE Engine
    BY <2>1, <1>1, <1>2
    DEF Engine, RejectCall, commit_tool_result_facts, AdmissionEnds,
        close_tool_batch_for_runtime_failure, BatchCompletes, abort_tool_phase, DrainStreams,
        DrainEnds, abort_sub_agent_tool_invocations, ReadCleanup, commit_task_result,
        StartRefused, fail_tool_durability, Quarantine, runVars, ledgerVars, engineVars,
        tokenVars, supVars, executionVars
  <2>2. ASSUME NEW c \in Calls, Executor(c) PROVE TrackerShape'
    BY <2>2, <1>1, <1>3, <1>4, <1>5, <1>6, <1>7, <1>8, <1>9, <1>10, <1>11, <1>12, <1>13
    DEF Executor
  <2>3. ASSUME NEW p \in Procs, register_execution_resource(p) \/ Supervisor(p) \/ ProgramExits(p)
        PROVE  TrackerShape'
    BY <2>3, <1>1, <1>14, <1>15, <1>16, <1>17, <1>18, <1>19, <1>20, <1>21, <1>22, <1>23, <1>24,
       <1>25, <1>26, <1>27
    DEF Supervisor
  <2>4. CASE RecordStop \/ SignalStop \/ shutdown \/ reconcile_runtime_after_restart \/ UNCHANGED vars
    BY <2>4, <1>1, <1>28
    DEF vars, RecordStop, SignalStop, shutdown, runVars, ledgerVars, engineVars, tokenVars,
        supVars, executionVars
  <2>5. QED
    BY <2>1, <2>2, <2>3, <2>4 DEF Next

(* A batch is left when it is over or cancelled. *)
LEMMA BatchStep ==
    ASSUME TypeRun, TypeInv, TypeRow, TypeCall, TypeTracker, TypeSup, CallShape, BatchOver, [Next]_vars
    PROVE  BatchOver'
<1>1. ASSUME UNCHANGED <<engine, abandoned, cancel, call>> PROVE BatchOver'
  BY <1>1 DEF BatchOver, NoneAtLarge, CallShape, TypeCall, TypeInv
<1>2. ASSUME NEW c \in Calls, start_guarded_tool_invocation(c) PROVE BatchOver'
  BY <1>2
  DEF start_guarded_tool_invocation, BatchOver, NoneAtLarge, CallShape, TypeCall, TypeInv,
      runVars, engineVars, tokenVars, supVars
<1>3. ASSUME AdmissionEnds PROVE BatchOver'
  BY <1>3
  DEF AdmissionEnds, BatchOver, NoneAtLarge, CallShape, TypeCall, TypeInv, runVars, ledgerVars,
      tokenVars, supVars, executionVars
<1>4. ASSUME close_tool_batch_for_runtime_failure PROVE BatchOver'
  BY <1>4
  DEF close_tool_batch_for_runtime_failure, Open, Sealed, Unsealed, BatchOver, NoneAtLarge,
      CallShape, TypeCall, TypeInv, runVars, tokenVars, supVars, executionVars
<1>5. ASSUME BatchCompletes PROVE BatchOver'
  BY <1>5
  DEF BatchCompletes, Open, BatchOver, NoneAtLarge, CallShape, TypeCall, TypeInv, runVars,
      ledgerVars, tokenVars, supVars, executionVars
<1>6. ASSUME abort_tool_phase PROVE BatchOver'
  BY <1>6
  DEF abort_tool_phase, Open, Sealed, Unsealed, StreamsEnd, BatchOver, NoneAtLarge, CallShape,
      TypeCall, TypeInv, runVars, tokenVars, supVars, executionVars
<1>7. ASSUME DrainStreams PROVE BatchOver'
  BY <1>7
  DEF DrainStreams, StreamsEnd, Open, BatchOver, NoneAtLarge, CallShape, TypeCall, TypeInv,
      runVars, ledgerVars, tokenVars, supVars, executionVars
<1>8. ASSUME DrainEnds PROVE BatchOver'
  BY <1>8
  DEF DrainEnds, BatchOver, NoneAtLarge, CallShape, TypeCall, TypeInv, runVars, ledgerVars,
      tokenVars, supVars, executionVars
<1>9. ASSUME abort_sub_agent_tool_invocations PROVE BatchOver'
  BY <1>9
  DEF abort_sub_agent_tool_invocations, Open, Sealed, Unsealed, BatchOver, NoneAtLarge,
      CallShape, TypeCall, TypeInv, runVars, tokenVars, supVars, executionVars
<1>10. ASSUME ReadCleanup PROVE BatchOver'
  BY <1>10
  DEF ReadCleanup, BatchOver, NoneAtLarge, CallShape, TypeCall, TypeInv, runVars, ledgerVars,
      tokenVars, supVars, executionVars
<1>11. ASSUME commit_task_result PROVE BatchOver'
  BY <1>11
  DEF commit_task_result, BatchOver, NoneAtLarge, CallShape, TypeCall, TypeInv, ledgerVars,
      tokenVars, supVars, executionVars
<1>12. ASSUME StartRefused PROVE BatchOver'
  BY <1>12
  DEF StartRefused, Quarantine, BatchOver, NoneAtLarge, CallShape, TypeCall, TypeInv,
      ledgerVars, supVars
<1>13. ASSUME fail_tool_durability PROVE BatchOver'
  BY <1>13
  DEF fail_tool_durability, Quarantine, Fault, BatchOver, NoneAtLarge, CallShape, TypeCall,
      TypeInv, ledgerVars, supVars
<1>14. ASSUME SignalStop PROVE BatchOver'
  BY <1>14
  DEF SignalStop, BatchOver, NoneAtLarge, CallShape, TypeCall, TypeInv, runVars, ledgerVars,
      engineVars, supVars
<1>15. ASSUME NEW c \in Calls, admit_call(c) PROVE BatchOver'
  BY <1>15
  DEF admit_call, Cancelled, BatchOver, NoneAtLarge, CallShape, TypeCall, TypeInv, runVars,
      engineVars, supVars, executorUnchanged
<1>16. ASSUME NEW c \in Calls, AdmissionRejected(c) PROVE BatchOver'
  BY <1>16
  DEF AdmissionRejected, BatchOver, NoneAtLarge, CallShape, TypeCall, TypeInv, runVars,
      engineVars, supVars, executorUnchanged
<1>17. ASSUME NEW c \in Calls, SilentExit(c) PROVE BatchOver'
  BY <1>17
  DEF SilentExit, Cancelled, BatchOver, NoneAtLarge, CallShape, TypeCall, TypeInv, runVars,
      engineVars, supVars, executorUnchanged
<1>18. ASSUME NEW c \in Calls, WorkReturns(c) PROVE BatchOver'
  BY <1>18, Closing
  DEF WorkReturns, Resting, BatchOver, NoneAtLarge, CallShape, TypeCall, TypeInv, runVars,
      engineVars, supVars, executorUnchanged
<1>19. ASSUME NEW c \in Calls, Panic(c) PROVE BatchOver'
  BY <1>19, Closing, Orphans
  DEF Panic, Working, BatchOver, NoneAtLarge, CallShape, TypeCall, TypeInv, runVars, engineVars,
      executorUnchanged
<1>20. ASSUME NEW c \in Calls, CancelNoticed(c) PROVE BatchOver'
  BY <1>20
  DEF CancelNoticed, Cancelled, BatchOver, NoneAtLarge, CallShape, TypeCall, TypeInv, runVars,
      engineVars, supVars, executorUnchanged
<1>21. ASSUME NEW c \in Calls, TimesOut(c) PROVE BatchOver'
  BY <1>21
  DEF TimesOut, BatchOver, NoneAtLarge, CallShape, TypeCall, TypeInv, runVars, engineVars,
      supVars, executorUnchanged
<1>22. ASSUME NEW c \in Calls, GraceDone(c) PROVE BatchOver'
  BY <1>22, Closing
  DEF GraceDone, Resting, BatchOver, NoneAtLarge, CallShape, TypeCall, TypeInv, runVars,
      engineVars, supVars, executorUnchanged
<1>23. ASSUME NEW c \in Calls, GraceOver(c) PROVE BatchOver'
  BY <1>23, Orphans
  DEF GraceOver, BatchOver, NoneAtLarge, CallShape, TypeCall, TypeInv, runVars, engineVars,
      executorUnchanged
<1>24. ASSUME NEW c \in Calls, NEW p \in ProcsOf(c), ForceWrite(c, p) PROVE BatchOver'
  BY <1>24, Forced
  DEF ForceWrite, Fault, BatchOver, NoneAtLarge, CallShape, TypeCall, TypeInv, runVars,
      ledgerVars, engineVars, tokenVars, supVars
<1>25. ASSUME NEW c \in Calls, ForceDone(c) PROVE BatchOver'
  BY <1>25, Closing
  DEF ForceDone, BatchOver, NoneAtLarge, CallShape, TypeCall, TypeInv, runVars, engineVars,
      supVars, executorUnchanged
<1>26. ASSUME reconcile_runtime_after_restart PROVE BatchOver'
  BY <1>26
  DEF reconcile_runtime_after_restart, ReconciledRows, ReconciledInvocations, Sealed, Survives,
      Idle, BatchOver, NoneAtLarge, CallShape, TypeCall, TypeInv, ledgerVars
<1>27. QED
  <2>1. CASE Engine
    BY <2>1, <1>1, <1>2, <1>3, <1>4, <1>5, <1>6, <1>7, <1>8, <1>9, <1>10, <1>11, <1>12, <1>13
    DEF Engine, RejectCall, commit_tool_result_facts, runVars, engineVars, tokenVars, supVars,
        executionVars
  <2>2. ASSUME NEW c \in Calls, Executor(c) PROVE BatchOver'
    BY <2>2, <1>1, <1>15, <1>16, <1>17, <1>18, <1>19, <1>20, <1>21, <1>22, <1>23, <1>24, <1>25
    DEF Executor
  <2>3. ASSUME NEW p \in Procs, register_execution_resource(p) \/ Supervisor(p) \/ ProgramExits(p)
        PROVE  BatchOver'
    BY <2>3, <1>1
    DEF Supervisor, register_execution_resource, RegisterCommits, RegisterFails, spawn_owned,
        spawn, bind_execution_resource_external, CheckCancel, release_gate, ProgramExits, Watch,
        terminate, TerminateUnbound, FinishReleased, FinishUnconfirmed, runVars, ledgerVars,
        engineVars, tokenVars, supUnchanged
  <2>4. CASE RecordStop \/ SignalStop \/ shutdown \/ reconcile_runtime_after_restart \/ UNCHANGED vars
    BY <2>4, <1>1, <1>14, <1>26
    DEF vars, RecordStop, shutdown, runVars, ledgerVars, engineVars, tokenVars, supVars,
        executionVars
  <2>5. QED
    BY <2>1, <2>2, <2>3, <2>4 DEF Next

(* A clean status is read when nothing can start any more. *)
LEMMA QuietStep ==
    ASSUME TypeRun, TypeInv, TypeRow, TypeCall, TypeTracker, TypeSup, RunShape, SupShape,
           AliveIsOwned, TrackerShape, BatchOver, Quiet, [Next]_vars
    PROVE  Quiet'
<1>1. ASSUME UNCHANGED <<engine, found, abandoned, recorded, cancel, call, phys, sup>>
      PROVE  Quiet'
  BY <1>1 DEF Quiet, NoneAtLarge, Clean, TypeCall, TypeSup, RunShape
<1>2. ASSUME NEW c \in Calls, start_guarded_tool_invocation(c) PROVE Quiet'
  BY <1>2
  DEF start_guarded_tool_invocation, Quiet, NoneAtLarge, Clean, TypeCall, TypeSup, RunShape,
      runVars, engineVars, tokenVars, supVars
<1>3. ASSUME AdmissionEnds PROVE Quiet'
  BY <1>3
  DEF AdmissionEnds, Quiet, NoneAtLarge, Clean, TypeCall, TypeSup, RunShape, runVars,
      ledgerVars, tokenVars, supVars, executionVars
<1>4. ASSUME close_tool_batch_for_runtime_failure PROVE Quiet'
  BY <1>4
  DEF close_tool_batch_for_runtime_failure, Open, Sealed, Unsealed, Quiet, NoneAtLarge, Clean,
      TypeCall, TypeSup, RunShape, runVars, tokenVars, supVars, executionVars
<1>5. ASSUME BatchCompletes PROVE Quiet'
  BY <1>5
  DEF BatchCompletes, Open, Quiet, NoneAtLarge, Clean, TypeCall, TypeSup, RunShape, runVars,
      ledgerVars, tokenVars, supVars, executionVars
<1>6. ASSUME abort_tool_phase PROVE Quiet'
  BY <1>6
  DEF abort_tool_phase, Open, Sealed, Unsealed, StreamsEnd, Quiet, NoneAtLarge, Clean, TypeCall,
      TypeSup, RunShape, runVars, tokenVars, supVars, executionVars
<1>7. ASSUME DrainStreams PROVE Quiet'
  BY <1>7
  DEF DrainStreams, StreamsEnd, Open, Quiet, NoneAtLarge, Clean, TypeCall, TypeSup, RunShape,
      runVars, ledgerVars, tokenVars, supVars, executionVars
<1>8. ASSUME DrainEnds PROVE Quiet'
  BY <1>8
  DEF DrainEnds, Quiet, NoneAtLarge, Clean, TypeCall, TypeSup, RunShape, runVars, ledgerVars,
      tokenVars, supVars, executionVars
<1>9. ASSUME abort_sub_agent_tool_invocations PROVE Quiet'
  BY <1>9
  DEF abort_sub_agent_tool_invocations, Open, Sealed, Unsealed, Quiet, NoneAtLarge, Clean,
      TypeCall, TypeSup, RunShape, runVars, tokenVars, supVars, executionVars
<1>10. ASSUME ReadCleanup PROVE Quiet'
  <2> SUFFICES ASSUME found' \in Clean, ~ abandoned PROVE Quiet'
    BY <1>10 DEF ReadCleanup, Quiet, RunShape, TypeRun, Clean, runVars
  <2>1. \A p \in Procs : row[p].status \notin {"allocated", "unconfirmed"}
    BY <1>10, CleanStatus DEF ReadCleanup, Clean
  <2>2. NoneAtLarge
    BY <1>10 DEF ReadCleanup, BatchOver
  <2>3. \A p \in Procs :
           /\ ~ Alive(p) /\ sup[p] \in {"none", "registering", "lost", "done"}
           /\ sup[p] = "registering" => Working(p[1])
    BY <2>1 DEF SupShape, AliveIsOwned, TrackerShape, Alive, TypeSup
  <2>4. \A p \in Procs : sup[p] = "registering" => cancel
    <3>1. \A p \in Procs : sup[p] = "registering" => call[p[1]].pc \notin {"none", "closed"}
      BY <2>3 DEF Working
    <3>2. QED
      BY <2>2, <3>1, ProcCall, Zenon DEF NoneAtLarge
  <2>5. UNCHANGED <<call, cancel, phys, sup>>
    BY <1>10 DEF ReadCleanup, executionVars, tokenVars, supVars
  <2>6. QED
    <3>1. NoneAtLarge'
      BY <2>2, <2>5 DEF NoneAtLarge
    <3>2. \A p \in Procs :
              sup[p] \in {"registering", "registered", "owned", "spawned", "bound"} => cancel
      <4>1. \A p \in Procs : sup[p] \in {"registering", "registered", "owned", "spawned", "bound"}
                                => sup[p] = "registering"
        BY <2>3
      <4>2. QED
        BY <2>4, <4>1, Zenon
    <3>3. \A p \in Procs : phys[p] # "program" /\ sup[p] # "passed"
      BY <2>3 DEF Alive
    <3>4. QED
      BY <2>5, <3>1, <3>2, <3>3, Zenon DEF Quiet
<1>11. ASSUME commit_task_result PROVE Quiet'
  BY <1>11
  DEF commit_task_result, Quiet, NoneAtLarge, Clean, TypeCall, TypeSup, RunShape, ledgerVars,
      tokenVars, supVars, executionVars
<1>12. ASSUME StartRefused PROVE Quiet'
  BY <1>12
  DEF StartRefused, Quarantine, Quiet, NoneAtLarge, Clean, TypeCall, TypeSup, RunShape,
      ledgerVars, supVars
<1>13. ASSUME fail_tool_durability PROVE Quiet'
  BY <1>13
  DEF fail_tool_durability, Quarantine, Fault, Quiet, NoneAtLarge, Clean, TypeCall, TypeSup,
      RunShape, ledgerVars, supVars
<1>14. ASSUME SignalStop PROVE Quiet'
  BY <1>14
  DEF SignalStop, Quiet, NoneAtLarge, Clean, TypeCall, TypeSup, RunShape, runVars, ledgerVars,
      engineVars, supVars
<1>15. ASSUME NEW c \in Calls, admit_call(c) PROVE Quiet'
  BY <1>15
  DEF admit_call, Cancelled, Quiet, NoneAtLarge, Clean, TypeCall, TypeSup, RunShape, runVars,
      engineVars, supVars, executorUnchanged
<1>16. ASSUME NEW c \in Calls, AdmissionRejected(c) PROVE Quiet'
  BY <1>16
  DEF AdmissionRejected, Quiet, NoneAtLarge, Clean, TypeCall, TypeSup, RunShape, runVars,
      engineVars, supVars, executorUnchanged
<1>17. ASSUME NEW c \in Calls, SilentExit(c) PROVE Quiet'
  BY <1>17
  DEF SilentExit, Cancelled, Quiet, NoneAtLarge, Clean, TypeCall, TypeSup, RunShape, runVars,
      engineVars, supVars, executorUnchanged
<1>18. ASSUME NEW c \in Calls, WorkReturns(c) PROVE Quiet'
  BY <1>18, Closing
  DEF WorkReturns, Resting, Quiet, NoneAtLarge, Clean, TypeCall, TypeSup, RunShape, runVars,
      engineVars, supVars, executorUnchanged
<1>19. ASSUME NEW c \in Calls, Panic(c) PROVE Quiet'
  BY <1>19, Closing, Orphans
  DEF Panic, Working, Quiet, NoneAtLarge, Clean, TypeCall, TypeSup, RunShape, runVars,
      engineVars, executorUnchanged
<1>20. ASSUME NEW c \in Calls, CancelNoticed(c) PROVE Quiet'
  BY <1>20
  DEF CancelNoticed, Cancelled, Quiet, NoneAtLarge, Clean, TypeCall, TypeSup, RunShape, runVars,
      engineVars, supVars, executorUnchanged
<1>21. ASSUME NEW c \in Calls, TimesOut(c) PROVE Quiet'
  BY <1>21
  DEF TimesOut, Quiet, NoneAtLarge, Clean, TypeCall, TypeSup, RunShape, runVars, engineVars,
      supVars, executorUnchanged
<1>22. ASSUME NEW c \in Calls, GraceDone(c) PROVE Quiet'
  BY <1>22, Closing
  DEF GraceDone, Resting, Quiet, NoneAtLarge, Clean, TypeCall, TypeSup, RunShape, runVars,
      engineVars, supVars, executorUnchanged
<1>23. ASSUME NEW c \in Calls, GraceOver(c) PROVE Quiet'
  BY <1>23, Orphans
  DEF GraceOver, Quiet, NoneAtLarge, Clean, TypeCall, TypeSup, RunShape, runVars, engineVars,
      executorUnchanged
<1>24. ASSUME NEW c \in Calls, NEW p \in ProcsOf(c), ForceWrite(c, p) PROVE Quiet'
  BY <1>24, Forced
  DEF ForceWrite, Fault, Quiet, NoneAtLarge, Clean, TypeCall, TypeSup, RunShape, runVars,
      ledgerVars, engineVars, tokenVars, supVars
<1>25. ASSUME NEW c \in Calls, ForceDone(c) PROVE Quiet'
  BY <1>25, Closing
  DEF ForceDone, Quiet, NoneAtLarge, Clean, TypeCall, TypeSup, RunShape, runVars, engineVars,
      supVars, executorUnchanged
<1>26. ASSUME NEW p \in Procs, register_execution_resource(p) PROVE Quiet'
  BY <1>26, ProcCall
  DEF register_execution_resource, At, Goes, Working, Resting, Quiet, NoneAtLarge, Clean,
      TypeCall, TypeSup, RunShape, runVars, ledgerVars, engineVars, tokenVars, supUnchanged
<1>27. ASSUME NEW p \in Procs, RegisterCommits(p) PROVE Quiet'
  BY <1>27, ProcCall
  DEF RegisterCommits, At, Goes, Quiet, NoneAtLarge, Clean, TypeCall, TypeSup, RunShape,
      runVars, engineVars, tokenVars, supUnchanged
<1>28. ASSUME NEW p \in Procs, RegisterFails(p) PROVE Quiet'
  BY <1>28, ProcCall
  DEF RegisterFails, At, Goes, Fault, Completed, Quiet, NoneAtLarge, Clean, TypeCall, TypeSup,
      RunShape, runVars, ledgerVars, engineVars, tokenVars, supUnchanged
<1>29. ASSUME NEW p \in Procs, spawn_owned(p) PROVE Quiet'
  BY <1>29, Finalize, ProcCall
  DEF spawn_owned, At, Goes, Working, Completed, Quiet, NoneAtLarge, Clean, TypeCall, TypeSup,
      RunShape, runVars, ledgerVars, engineVars, tokenVars, supUnchanged
<1>30. ASSUME NEW p \in Procs, spawn(p) PROVE Quiet'
  BY <1>30
  DEF spawn, At, Goes, Quiet, NoneAtLarge, Clean, TypeCall, TypeSup, RunShape, runVars,
      ledgerVars, engineVars, tokenVars, supUnchanged
<1>31. ASSUME NEW p \in Procs, bind_execution_resource_external(p) PROVE Quiet'
  BY <1>31
  DEF bind_execution_resource_external, At, Goes, Fault, Quiet, NoneAtLarge, Clean, TypeCall,
      TypeSup, RunShape, runVars, engineVars, tokenVars, supUnchanged
<1>32. ASSUME NEW p \in Procs, CheckCancel(p) PROVE Quiet'
  BY <1>32, ProcCall
  DEF CheckCancel, At, Goes, Cancelled, Quiet, NoneAtLarge, Clean, TypeCall, TypeSup, RunShape,
      runVars, ledgerVars, engineVars, tokenVars, supUnchanged
<1>33. ASSUME NEW p \in Procs, release_gate(p) PROVE Quiet'
  BY <1>33
  DEF release_gate, At, Goes, Quiet, NoneAtLarge, Clean, TypeCall, TypeSup, RunShape, runVars,
      ledgerVars, engineVars, tokenVars, supUnchanged
<1>34. ASSUME NEW p \in Procs, ProgramExits(p) PROVE Quiet'
  BY <1>34
  DEF ProgramExits, Quiet, NoneAtLarge, Clean, TypeCall, TypeSup, RunShape, runVars, ledgerVars,
      engineVars, tokenVars, supUnchanged
<1>35. ASSUME NEW p \in Procs, Watch(p) PROVE Quiet'
  BY <1>35
  DEF Watch, At, Goes, Quiet, NoneAtLarge, Clean, TypeCall, TypeSup, RunShape, runVars,
      ledgerVars, engineVars, tokenVars, supUnchanged
<1>36. ASSUME NEW p \in Procs, terminate(p) PROVE Quiet'
  BY <1>36
  DEF terminate, At, Goes, Fault, Quiet, NoneAtLarge, Clean, TypeCall, TypeSup, RunShape,
      runVars, ledgerVars, engineVars, tokenVars, supUnchanged
<1>37. ASSUME NEW p \in Procs, TerminateUnbound(p) PROVE Quiet'
  BY <1>37
  DEF TerminateUnbound, At, Goes, Fault, Quiet, NoneAtLarge, Clean, TypeCall, TypeSup, RunShape,
      runVars, ledgerVars, engineVars, tokenVars, supUnchanged
<1>38. ASSUME NEW p \in Procs, FinishReleased(p) PROVE Quiet'
  BY <1>38, Finalize, ProcCall
  DEF FinishReleased, At, Goes, Fault, Completed, Quiet, NoneAtLarge, Clean, TypeCall, TypeSup,
      RunShape, runVars, ledgerVars, engineVars, tokenVars, supUnchanged
<1>39. ASSUME NEW p \in Procs, FinishUnconfirmed(p) PROVE Quiet'
  BY <1>39, Finalize, ProcCall
  DEF FinishUnconfirmed, At, Goes, Fault, Completed, Quiet, NoneAtLarge, Clean, TypeCall,
      TypeSup, RunShape, runVars, ledgerVars, engineVars, tokenVars, supUnchanged
<1>40. ASSUME reconcile_runtime_after_restart PROVE Quiet'
  <2>1. /\ \A p \in Procs : sup'[p] = "done" /\ (phys'[p] = "program" => phys[p] = "program")
        /\ \A c \in Calls : call'[c].pc = "closed"
        /\ engine' = "down" /\ abandoned' = abandoned
    BY <1>40 DEF reconcile_runtime_after_restart, Survives, Idle
  <2>2. NoneAtLarge'
    BY <2>1 DEF NoneAtLarge
  <2>3. CASE run = "ended"
    <3>1. recorded' = recorded
      BY <1>40, <2>3 DEF reconcile_runtime_after_restart
    <3>2. QED
      BY <2>1, <2>2, <3>1 DEF Quiet
  <2>4. CASE run # "ended"
    <3>1. recorded' \in Clean => \A p \in Procs : row[p].status \notin {"allocated", "unconfirmed"}
      BY <1>40, <2>4, Restarted DEF TypeRow
    <3>2. QED
      BY <2>1, <2>2, <3>1 DEF Quiet, AliveIsOwned
  <2>5. QED
    BY <2>3, <2>4
<1>41. QED
  <2>1. CASE Engine
    BY <2>1, <1>1, <1>2, <1>3, <1>4, <1>5, <1>6, <1>7, <1>8, <1>9, <1>10, <1>11, <1>12, <1>13
    DEF Engine, RejectCall, commit_tool_result_facts, runVars, engineVars, tokenVars, supVars,
        executionVars
  <2>2. ASSUME NEW c \in Calls, Executor(c) PROVE Quiet'
    BY <2>2, <1>1, <1>15, <1>16, <1>17, <1>18, <1>19, <1>20, <1>21, <1>22, <1>23, <1>24, <1>25
    DEF Executor
  <2>3. ASSUME NEW p \in Procs, register_execution_resource(p) \/ Supervisor(p) \/ ProgramExits(p)
        PROVE  Quiet'
    BY <2>3, <1>1, <1>26, <1>27, <1>28, <1>29, <1>30, <1>31, <1>32, <1>33, <1>34, <1>35, <1>36,
       <1>37, <1>38, <1>39
    DEF Supervisor
  <2>4. CASE RecordStop \/ SignalStop \/ shutdown \/ reconcile_runtime_after_restart \/ UNCHANGED vars
    BY <2>4, <1>1, <1>14, <1>40
    DEF vars, RecordStop, shutdown, runVars, ledgerVars, engineVars, tokenVars, supVars,
        executionVars
  <2>5. QED
    BY <2>1, <2>2, <2>3, <2>4 DEF Next

(* Types of the Run and its loop. *)
LEMMA TypeRunStep ==
    ASSUME TypeRun, TypeInv, TypeRow, [Next]_vars
    PROVE  TypeRun'
<1>1. ASSUME UNCHANGED <<kind, run, recorded, engine, found, drained, abandoned, cancel, stopped,
                         intake, faults>>
      PROVE  TypeRun'
  BY <1>1 DEF TypeRun, Cleanup
<1> USE ToolAssumption
<1>2. ASSUME AdmissionEnds PROVE TypeRun'
  BY <1>2
  DEF AdmissionEnds, TypeRun, Cleanup, runVars, ledgerVars, tokenVars, supVars, executionVars
<1>3. ASSUME close_tool_batch_for_runtime_failure PROVE TypeRun'
  BY <1>3
  DEF close_tool_batch_for_runtime_failure, Open, Sealed, Unsealed, TypeRun, Cleanup, runVars,
      tokenVars, supVars, executionVars
<1>4. ASSUME BatchCompletes PROVE TypeRun'
  BY <1>4
  DEF BatchCompletes, Open, TypeRun, Cleanup, runVars, ledgerVars, tokenVars, supVars,
      executionVars
<1>5. ASSUME abort_tool_phase PROVE TypeRun'
  BY <1>5
  DEF abort_tool_phase, Open, Sealed, Unsealed, StreamsEnd, TypeRun, Cleanup, runVars,
      tokenVars, supVars, executionVars
<1>6. ASSUME DrainStreams PROVE TypeRun'
  BY <1>6
  DEF DrainStreams, StreamsEnd, Open, TypeRun, Cleanup, runVars, ledgerVars, tokenVars, supVars,
      executionVars
<1>7. ASSUME DrainEnds PROVE TypeRun'
  BY <1>7 DEF DrainEnds, TypeRun, Cleanup, runVars, ledgerVars, tokenVars, supVars, executionVars
<1>8. ASSUME abort_sub_agent_tool_invocations PROVE TypeRun'
  BY <1>8
  DEF abort_sub_agent_tool_invocations, Open, Sealed, Unsealed, TypeRun, Cleanup, runVars,
      tokenVars, supVars, executionVars
<1>9. ASSUME ReadCleanup PROVE TypeRun'
  <2>1. found' \in Cleanup \ {"pending"}
    BY <1>9, CleanStatus DEF ReadCleanup, Cleanup
  <2>2. QED
    BY <1>9, <2>1 DEF ReadCleanup, TypeRun, runVars, executionVars, tokenVars
<1>10. ASSUME commit_task_result PROVE TypeRun'
  BY <1>10
  DEF commit_task_result, TypeRun, Cleanup, ledgerVars, tokenVars, supVars, executionVars
<1>11. ASSUME StartRefused PROVE TypeRun'
  BY <1>11 DEF StartRefused, Quarantine, TypeRun, Cleanup, ledgerVars, supVars
<1>12. ASSUME fail_tool_durability PROVE TypeRun'
  BY <1>12 DEF fail_tool_durability, Quarantine, Fault, TypeRun, Cleanup, ledgerVars, supVars
<1>13. ASSUME RecordStop PROVE TypeRun'
  BY <1>13
  DEF RecordStop, TypeRun, Cleanup, ledgerVars, engineVars, tokenVars, supVars, executionVars
<1>14. ASSUME SignalStop PROVE TypeRun'
  BY <1>14 DEF SignalStop, TypeRun, Cleanup, runVars, ledgerVars, engineVars, supVars
<1>15. ASSUME shutdown PROVE TypeRun'
  BY <1>15 DEF shutdown, TypeRun, Cleanup, runVars, ledgerVars, engineVars, supVars
<1>16. ASSUME NEW c \in Calls, Panic(c) PROVE TypeRun'
  BY <1>16, Closing, Orphans
  DEF Panic, Working, TypeRun, Cleanup, runVars, engineVars, executorUnchanged
<1>17. ASSUME NEW c \in Calls, TimesOut(c) PROVE TypeRun'
  BY <1>17 DEF TimesOut, TypeRun, Cleanup, runVars, engineVars, supVars, executorUnchanged
<1>18. ASSUME NEW c \in Calls, NEW p \in ProcsOf(c), ForceWrite(c, p) PROVE TypeRun'
  BY <1>18, Forced
  DEF ForceWrite, Fault, TypeRun, Cleanup, runVars, ledgerVars, engineVars, tokenVars, supVars
<1>19. ASSUME NEW p \in Procs, RegisterFails(p) PROVE TypeRun'
  BY <1>19, ProcCall
  DEF RegisterFails, At, Goes, Fault, Completed, TypeRun, Cleanup, runVars, ledgerVars,
      engineVars, tokenVars, supUnchanged
<1>20. ASSUME NEW p \in Procs, bind_execution_resource_external(p) PROVE TypeRun'
  BY <1>20
  DEF bind_execution_resource_external, At, Goes, Fault, TypeRun, Cleanup, runVars, engineVars,
      tokenVars, supUnchanged
<1>21. ASSUME NEW p \in Procs, terminate(p) PROVE TypeRun'
  BY <1>21
  DEF terminate, At, Goes, Fault, TypeRun, Cleanup, runVars, ledgerVars, engineVars, tokenVars,
      supUnchanged
<1>22. ASSUME NEW p \in Procs, TerminateUnbound(p) PROVE TypeRun'
  BY <1>22
  DEF TerminateUnbound, At, Goes, Fault, TypeRun, Cleanup, runVars, ledgerVars, engineVars,
      tokenVars, supUnchanged
<1>23. ASSUME NEW p \in Procs, FinishReleased(p) PROVE TypeRun'
  BY <1>23, Finalize, ProcCall
  DEF FinishReleased, At, Goes, Fault, Completed, TypeRun, Cleanup, runVars, ledgerVars,
      engineVars, tokenVars, supUnchanged
<1>24. ASSUME NEW p \in Procs, FinishUnconfirmed(p) PROVE TypeRun'
  BY <1>24, Finalize, ProcCall
  DEF FinishUnconfirmed, At, Goes, Fault, Completed, TypeRun, Cleanup, runVars, ledgerVars,
      engineVars, tokenVars, supUnchanged
<1>25. ASSUME reconcile_runtime_after_restart PROVE TypeRun'
  <2>1. recorded' \in {"none"} \cup (Cleanup \ {"pending"})
    <3>1. CASE run = "ended"
      BY <1>25, <3>1 DEF reconcile_runtime_after_restart, TypeRun
    <3>2. CASE run # "ended"
      BY <1>25, <3>2, Restarted
    <3>3. QED
      BY <3>1, <3>2
  <2>2. run' \in {"active", "stopping", "ended"}
    BY <1>25 DEF reconcile_runtime_after_restart, TypeRun
  <2>3. QED
    BY <1>25, <2>1, <2>2 DEF reconcile_runtime_after_restart, TypeRun
<1>26. QED
  <2>1. CASE Engine
    BY <2>1, <1>1, <1>2, <1>3, <1>4, <1>5, <1>6, <1>7, <1>8, <1>9, <1>10, <1>11, <1>12
    DEF Engine, start_guarded_tool_invocation, RejectCall, commit_tool_result_facts, runVars,
        engineVars, tokenVars, supVars, executionVars
  <2>2. ASSUME NEW c \in Calls, Executor(c) PROVE TypeRun'
    BY <2>2, <1>1, <1>16, <1>17, <1>18
    DEF Executor, admit_call, AdmissionRejected, SilentExit, WorkReturns, CancelNoticed,
        GraceDone, GraceOver, ForceDone, runVars, engineVars, supVars, executorUnchanged
  <2>3. ASSUME NEW p \in Procs, register_execution_resource(p) \/ Supervisor(p) \/ ProgramExits(p)
        PROVE  TypeRun'
    BY <2>3, <1>1, <1>19, <1>20, <1>21, <1>22, <1>23, <1>24
    DEF Supervisor, register_execution_resource, RegisterCommits, spawn_owned, spawn,
        CheckCancel, release_gate, ProgramExits, Watch, runVars, ledgerVars, engineVars,
        tokenVars, supUnchanged
  <2>4. CASE RecordStop \/ SignalStop \/ shutdown \/ reconcile_runtime_after_restart \/ UNCHANGED vars
    BY <2>4, <1>1, <1>13, <1>14, <1>15, <1>25
    DEF vars, runVars, ledgerVars, engineVars, tokenVars, supVars, executionVars
  <2>5. QED
    BY <2>1, <2>2, <2>3, <2>4 DEF Next

(* Types of the invocations. *)
LEMMA TypeInvStep ==
    ASSUME TypeInv, TypeRow, TypeCall, CallShape, [Next]_vars
    PROVE  TypeInv'
<1>1. ASSUME UNCHANGED <<inv>> PROVE TypeInv'
  BY <1>1 DEF TypeInv, Cleanup
<1>2. ASSUME NEW c \in Calls, start_guarded_tool_invocation(c) PROVE TypeInv'
  BY <1>2
  DEF start_guarded_tool_invocation, TypeInv, Cleanup, runVars, engineVars, tokenVars, supVars
<1>3. ASSUME NEW c \in Calls, RejectCall(c) PROVE TypeInv'
  BY <1>3
  DEF RejectCall, Sealed, TypeInv, Cleanup, runVars, engineVars, tokenVars, supVars,
      executionVars
<1>4. ASSUME NEW c \in Calls, commit_tool_result_facts(c) PROVE TypeInv'
  BY <1>4 DEF commit_tool_result_facts, Sealed, TypeInv, TypeCall, Cleanup
<1>5. ASSUME close_tool_batch_for_runtime_failure PROVE TypeInv'
  BY <1>5
  DEF close_tool_batch_for_runtime_failure, Open, Sealed, Unsealed, TypeInv, Cleanup, runVars,
      tokenVars, supVars, executionVars
<1>6. ASSUME abort_tool_phase PROVE TypeInv'
  BY <1>6
  DEF abort_tool_phase, Open, Sealed, Unsealed, StreamsEnd, TypeInv, Cleanup, runVars,
      tokenVars, supVars, executionVars
<1>7. ASSUME abort_sub_agent_tool_invocations PROVE TypeInv'
  BY <1>7
  DEF abort_sub_agent_tool_invocations, Open, Sealed, Unsealed, TypeInv, Cleanup, runVars,
      tokenVars, supVars, executionVars
<1>8. ASSUME NEW c \in Calls, NEW p \in ProcsOf(c), ForceWrite(c, p) PROVE TypeInv'
  BY <1>8, Forced
  DEF ForceWrite, Fault, TypeInv, Cleanup, runVars, ledgerVars, engineVars, tokenVars, supVars
<1>9. ASSUME NEW p \in Procs, spawn_owned(p) PROVE TypeInv'
  BY <1>9, Finalize, ProcCall
  DEF spawn_owned, At, Goes, Working, Completed, TypeInv, Cleanup, runVars, ledgerVars,
      engineVars, tokenVars, supUnchanged
<1>10. ASSUME NEW p \in Procs, FinishReleased(p) PROVE TypeInv'
  BY <1>10, Finalize, ProcCall
  DEF FinishReleased, At, Goes, Fault, Completed, TypeInv, Cleanup, runVars, ledgerVars,
      engineVars, tokenVars, supUnchanged
<1>11. ASSUME NEW p \in Procs, FinishUnconfirmed(p) PROVE TypeInv'
  BY <1>11, Finalize, ProcCall
  DEF FinishUnconfirmed, At, Goes, Fault, Completed, TypeInv, Cleanup, runVars, ledgerVars,
      engineVars, tokenVars, supUnchanged
<1>12. ASSUME reconcile_runtime_after_restart PROVE TypeInv'
  <2>1. CASE run = "ended"
    BY <1>12, <2>1 DEF reconcile_runtime_after_restart, ledgerVars, TypeInv
  <2>2. CASE run # "ended"
    BY <1>12, <2>2, Restarted
  <2>3. QED
    BY <2>1, <2>2
<1>13. QED
  <2>1. CASE Engine
    BY <2>1, <1>1, <1>2, <1>3, <1>4, <1>5, <1>6, <1>7
    DEF Engine, AdmissionEnds, BatchCompletes, DrainStreams, DrainEnds, ReadCleanup,
        commit_task_result, StartRefused, fail_tool_durability, Quarantine, runVars, ledgerVars,
        tokenVars, supVars, executionVars
  <2>2. ASSUME NEW c \in Calls, Executor(c) PROVE TypeInv'
    BY <2>2, <1>1, <1>8
    DEF Executor, admit_call, AdmissionRejected, SilentExit, WorkReturns, Panic, CancelNoticed,
        TimesOut, GraceDone, GraceOver, ForceDone, runVars, engineVars, supVars,
        executorUnchanged
  <2>3. ASSUME NEW p \in Procs, register_execution_resource(p) \/ Supervisor(p) \/ ProgramExits(p)
        PROVE  TypeInv'
    BY <2>3, <1>1, <1>9, <1>10, <1>11
    DEF Supervisor, register_execution_resource, RegisterCommits, RegisterFails, spawn,
        bind_execution_resource_external, CheckCancel, release_gate, ProgramExits, Watch,
        terminate, TerminateUnbound, runVars, ledgerVars, engineVars, tokenVars, supUnchanged
  <2>4. CASE RecordStop \/ SignalStop \/ shutdown \/ reconcile_runtime_after_restart \/ UNCHANGED vars
    BY <2>4, <1>1, <1>12
    DEF vars, RecordStop, SignalStop, shutdown, runVars, ledgerVars, engineVars, tokenVars,
        supVars, executionVars
  <2>5. QED
    BY <2>1, <2>2, <2>3, <2>4 DEF Next

(* Types of the resource rows. *)
LEMMA TypeRowStep ==
    ASSUME TypeInv, TypeRow, [Next]_vars
    PROVE  TypeRow'
<1>1. ASSUME UNCHANGED <<row>> PROVE TypeRow'
  BY <1>1 DEF TypeRow
<1>2. ASSUME NEW c \in Calls, NEW p \in ProcsOf(c), ForceWrite(c, p) PROVE TypeRow'
  BY <1>2, Forced
  DEF ForceWrite, Fault, TypeRow, runVars, ledgerVars, engineVars, tokenVars, supVars
<1>3. ASSUME NEW p \in Procs, RegisterCommits(p) PROVE TypeRow'
  BY <1>3, ProcCall
  DEF RegisterCommits, At, Goes, TypeRow, runVars, engineVars, tokenVars, supUnchanged
<1>4. ASSUME NEW p \in Procs, spawn_owned(p) PROVE TypeRow'
  BY <1>4, Finalize, ProcCall
  DEF spawn_owned, At, Goes, Working, Completed, TypeRow, runVars, ledgerVars, engineVars,
      tokenVars, supUnchanged
<1>5. ASSUME NEW p \in Procs, bind_execution_resource_external(p) PROVE TypeRow'
  BY <1>5
  DEF bind_execution_resource_external, At, Goes, Fault, TypeRow, runVars, engineVars,
      tokenVars, supUnchanged
<1>6. ASSUME NEW p \in Procs, FinishReleased(p) PROVE TypeRow'
  BY <1>6, Finalize, ProcCall
  DEF FinishReleased, At, Goes, Fault, Completed, TypeRow, runVars, ledgerVars, engineVars,
      tokenVars, supUnchanged
<1>7. ASSUME NEW p \in Procs, FinishUnconfirmed(p) PROVE TypeRow'
  BY <1>7, Finalize, ProcCall
  DEF FinishUnconfirmed, At, Goes, Fault, Completed, TypeRow, runVars, ledgerVars, engineVars,
      tokenVars, supUnchanged
<1>8. ASSUME reconcile_runtime_after_restart PROVE TypeRow'
  BY <1>8
  DEF reconcile_runtime_after_restart, ReconciledRows, ReconciledInvocations, Sealed, Survives,
      Idle, TypeRow, ledgerVars
<1>9. QED
  <2>1. CASE Engine
    BY <2>1, <1>1
    DEF Engine, start_guarded_tool_invocation, RejectCall, commit_tool_result_facts,
        AdmissionEnds, close_tool_batch_for_runtime_failure, BatchCompletes, abort_tool_phase,
        DrainStreams, DrainEnds, abort_sub_agent_tool_invocations, ReadCleanup,
        commit_task_result, StartRefused, fail_tool_durability, Quarantine, runVars, ledgerVars,
        engineVars, tokenVars, supVars, executionVars
  <2>2. ASSUME NEW c \in Calls, Executor(c) PROVE TypeRow'
    BY <2>2, <1>1, <1>2
    DEF Executor, admit_call, AdmissionRejected, SilentExit, WorkReturns, Panic, CancelNoticed,
        TimesOut, GraceDone, GraceOver, ForceDone, runVars, engineVars, supVars,
        executorUnchanged
  <2>3. ASSUME NEW p \in Procs, register_execution_resource(p) \/ Supervisor(p) \/ ProgramExits(p)
        PROVE  TypeRow'
    BY <2>3, <1>1, <1>3, <1>4, <1>5, <1>6, <1>7
    DEF Supervisor, register_execution_resource, RegisterFails, spawn, CheckCancel,
        release_gate, ProgramExits, Watch, terminate, TerminateUnbound, runVars, ledgerVars,
        engineVars, tokenVars, supUnchanged
  <2>4. CASE RecordStop \/ SignalStop \/ shutdown \/ reconcile_runtime_after_restart \/ UNCHANGED vars
    BY <2>4, <1>1, <1>8
    DEF vars, RecordStop, SignalStop, shutdown, runVars, ledgerVars, engineVars, tokenVars,
        supVars, executionVars
  <2>5. QED
    BY <2>1, <2>2, <2>3, <2>4 DEF Next

(* Types of the calls. *)
LEMMA TypeCallStep ==
    ASSUME TypeCall, TypeTracker, TypeSup, [Next]_vars
    PROVE  TypeCall'
<1>1. ASSUME UNCHANGED <<call>> PROVE TypeCall'
  BY <1>1 DEF TypeCall, TypeTracker, CallPoints, Cleanup
<1>2. ASSUME NEW c \in Calls, start_guarded_tool_invocation(c) PROVE TypeCall'
  BY <1>2
  DEF start_guarded_tool_invocation, TypeCall, TypeTracker, CallPoints, Cleanup, runVars,
      engineVars, tokenVars, supVars
<1>3. ASSUME NEW c \in Calls, admit_call(c) PROVE TypeCall'
  BY <1>3
  DEF admit_call, Cancelled, TypeCall, TypeTracker, CallPoints, Cleanup, runVars, engineVars,
      supVars, executorUnchanged
<1>4. ASSUME NEW c \in Calls, AdmissionRejected(c) PROVE TypeCall'
  BY <1>4
  DEF AdmissionRejected, TypeCall, TypeTracker, CallPoints, Cleanup, runVars, engineVars,
      supVars, executorUnchanged
<1>5. ASSUME NEW c \in Calls, SilentExit(c) PROVE TypeCall'
  BY <1>5
  DEF SilentExit, Cancelled, TypeCall, TypeTracker, CallPoints, Cleanup, runVars, engineVars,
      supVars, executorUnchanged
<1>6. ASSUME NEW c \in Calls, WorkReturns(c) PROVE TypeCall'
  BY <1>6, Closing
  DEF WorkReturns, Resting, TypeCall, TypeTracker, CallPoints, Cleanup, runVars, engineVars,
      supVars, executorUnchanged
<1>7. ASSUME NEW c \in Calls, Panic(c) PROVE TypeCall'
  BY <1>7, Closing, Orphans
  DEF Panic, Working, TypeCall, TypeTracker, CallPoints, Cleanup, runVars, engineVars,
      executorUnchanged
<1>8. ASSUME NEW c \in Calls, CancelNoticed(c) PROVE TypeCall'
  BY <1>8
  DEF CancelNoticed, Cancelled, TypeCall, TypeTracker, CallPoints, Cleanup, runVars, engineVars,
      supVars, executorUnchanged
<1>9. ASSUME NEW c \in Calls, TimesOut(c) PROVE TypeCall'
  BY <1>9
  DEF TimesOut, TypeCall, TypeTracker, CallPoints, Cleanup, runVars, engineVars, supVars,
      executorUnchanged
<1>10. ASSUME NEW c \in Calls, GraceDone(c) PROVE TypeCall'
  BY <1>10, Closing
  DEF GraceDone, Resting, TypeCall, TypeTracker, CallPoints, Cleanup, runVars, engineVars,
      supVars, executorUnchanged
<1>11. ASSUME NEW c \in Calls, GraceOver(c) PROVE TypeCall'
  <2>1. tracker[c].leases \in SUBSET Procs
    BY DEF TypeTracker
  <2>2. call' = [call EXCEPT ![c] = [call[c] EXCEPT !.pc = "forcing", !.todo = tracker[c].leases]]
    BY <1>11 DEF GraceOver, TypeCall
  <2>3. QED
    BY <2>1, <2>2 DEF TypeCall, CallPoints
<1>12. ASSUME NEW c \in Calls, NEW p \in ProcsOf(c), ForceWrite(c, p) PROVE TypeCall'
  BY <1>12, Forced
  DEF ForceWrite, Fault, TypeCall, TypeTracker, CallPoints, Cleanup, runVars, ledgerVars,
      engineVars, tokenVars, supVars
<1>13. ASSUME NEW c \in Calls, ForceDone(c) PROVE TypeCall'
  BY <1>13, Closing
  DEF ForceDone, TypeCall, TypeTracker, CallPoints, Cleanup, runVars, engineVars, supVars,
      executorUnchanged
<1>14. ASSUME reconcile_runtime_after_restart PROVE TypeCall'
  BY <1>14
  DEF reconcile_runtime_after_restart, ReconciledRows, ReconciledInvocations, Sealed, Survives,
      Idle, TypeCall, TypeTracker, CallPoints, Cleanup, ledgerVars
<1>15. QED
  <2>1. CASE Engine
    BY <2>1, <1>1, <1>2
    DEF Engine, RejectCall, commit_tool_result_facts, AdmissionEnds,
        close_tool_batch_for_runtime_failure, BatchCompletes, abort_tool_phase, DrainStreams,
        DrainEnds, abort_sub_agent_tool_invocations, ReadCleanup, commit_task_result,
        StartRefused, fail_tool_durability, Quarantine, runVars, ledgerVars, engineVars,
        tokenVars, supVars, executionVars
  <2>2. ASSUME NEW c \in Calls, Executor(c) PROVE TypeCall'
    BY <2>2, <1>1, <1>3, <1>4, <1>5, <1>6, <1>7, <1>8, <1>9, <1>10, <1>11, <1>12, <1>13
    DEF Executor
  <2>3. ASSUME NEW p \in Procs, register_execution_resource(p) \/ Supervisor(p) \/ ProgramExits(p)
        PROVE  TypeCall'
    BY <2>3, <1>1
    DEF Supervisor, register_execution_resource, RegisterCommits, RegisterFails, spawn_owned,
        spawn, bind_execution_resource_external, CheckCancel, release_gate, ProgramExits, Watch,
        terminate, TerminateUnbound, FinishReleased, FinishUnconfirmed, runVars, ledgerVars,
        engineVars, tokenVars, supUnchanged
  <2>4. CASE RecordStop \/ SignalStop \/ shutdown \/ reconcile_runtime_after_restart \/ UNCHANGED vars
    BY <2>4, <1>1, <1>14
    DEF vars, RecordStop, SignalStop, shutdown, runVars, ledgerVars, engineVars, tokenVars,
        supVars, executionVars
  <2>5. QED
    BY <2>1, <2>2, <2>3, <2>4 DEF Next

(* Types of the trackers. *)
LEMMA TypeTrackerStep ==
    ASSUME TypeTracker, [Next]_vars
    PROVE  TypeTracker'
<1>1. ASSUME UNCHANGED <<tracker>> PROVE TypeTracker'
  BY <1>1 DEF TypeTracker
<1>2. ASSUME NEW c \in Calls, GraceOver(c) PROVE TypeTracker'
  BY <1>2, Orphans DEF GraceOver, TypeTracker, runVars, engineVars, executorUnchanged
<1>3. ASSUME NEW p \in Procs, register_execution_resource(p) PROVE TypeTracker'
  BY <1>3, ProcCall
  DEF register_execution_resource, At, Goes, Working, Resting, TypeTracker, runVars, ledgerVars,
      engineVars, tokenVars, supUnchanged
<1>4. ASSUME NEW p \in Procs, RegisterFails(p) PROVE TypeTracker'
  <2>1. \/ tracker' = tracker
        \/ \E confirmed \in BOOLEAN :
              tracker' = [tracker EXCEPT ![p[1]] = Completed(tracker[p[1]], p, confirmed)]
    BY <1>4 DEF RegisterFails
  <2>2. tracker[p[1]] \in [leases : SUBSET Procs, unconfirmed : SUBSET Procs, saw : BOOLEAN]
    BY ProcCall DEF TypeTracker
  <2>3. QED
    BY <2>1, <2>2, Completion, ProcCall DEF TypeTracker
<1>5. ASSUME NEW p \in Procs, spawn_owned(p) PROVE TypeTracker'
  <2>1. \/ tracker' = tracker
        \/ \E confirmed \in BOOLEAN :
              tracker' = [tracker EXCEPT ![p[1]] = Completed(tracker[p[1]], p, confirmed)]
    BY <1>5 DEF spawn_owned
  <2>2. tracker[p[1]] \in [leases : SUBSET Procs, unconfirmed : SUBSET Procs, saw : BOOLEAN]
    BY ProcCall DEF TypeTracker
  <2>3. QED
    BY <2>1, <2>2, Completion, ProcCall DEF TypeTracker
<1>6. ASSUME NEW p \in Procs, FinishReleased(p) PROVE TypeTracker'
  <2>1. \/ tracker' = tracker
        \/ \E confirmed \in BOOLEAN :
              tracker' = [tracker EXCEPT ![p[1]] = Completed(tracker[p[1]], p, confirmed)]
    BY <1>6 DEF FinishReleased
  <2>2. tracker[p[1]] \in [leases : SUBSET Procs, unconfirmed : SUBSET Procs, saw : BOOLEAN]
    BY ProcCall DEF TypeTracker
  <2>3. QED
    BY <2>1, <2>2, Completion, ProcCall DEF TypeTracker
<1>7. ASSUME NEW p \in Procs, FinishUnconfirmed(p) PROVE TypeTracker'
  <2>1. \/ tracker' = tracker
        \/ \E confirmed \in BOOLEAN :
              tracker' = [tracker EXCEPT ![p[1]] = Completed(tracker[p[1]], p, confirmed)]
    BY <1>7 DEF FinishUnconfirmed
  <2>2. tracker[p[1]] \in [leases : SUBSET Procs, unconfirmed : SUBSET Procs, saw : BOOLEAN]
    BY ProcCall DEF TypeTracker
  <2>3. QED
    BY <2>1, <2>2, Completion, ProcCall DEF TypeTracker
<1>8. QED
  <2>1. CASE Engine
    BY <2>1, <1>1
    DEF Engine, start_guarded_tool_invocation, RejectCall, commit_tool_result_facts,
        AdmissionEnds, close_tool_batch_for_runtime_failure, BatchCompletes, abort_tool_phase,
        DrainStreams, DrainEnds, abort_sub_agent_tool_invocations, ReadCleanup,
        commit_task_result, StartRefused, fail_tool_durability, Quarantine, runVars, ledgerVars,
        engineVars, tokenVars, supVars, executionVars
  <2>2. ASSUME NEW c \in Calls, Executor(c) PROVE TypeTracker'
    BY <2>2, <1>1, <1>2
    DEF Executor, admit_call, AdmissionRejected, SilentExit, WorkReturns, Panic, CancelNoticed,
        TimesOut, GraceDone, ForceWrite, ForceDone, runVars, ledgerVars, engineVars, tokenVars,
        supVars, executorUnchanged
  <2>3. ASSUME NEW p \in Procs, register_execution_resource(p) \/ Supervisor(p) \/ ProgramExits(p)
        PROVE  TypeTracker'
    BY <2>3, <1>1, <1>3, <1>4, <1>5, <1>6, <1>7
    DEF Supervisor, RegisterCommits, spawn, bind_execution_resource_external, CheckCancel,
        release_gate, ProgramExits, Watch, terminate, TerminateUnbound, runVars, ledgerVars,
        engineVars, tokenVars, supUnchanged
  <2>4. CASE RecordStop \/ SignalStop \/ shutdown \/ reconcile_runtime_after_restart \/ UNCHANGED vars
    BY <2>4, <1>1
    DEF vars, RecordStop, SignalStop, shutdown, reconcile_runtime_after_restart, runVars,
        ledgerVars, engineVars, tokenVars, supVars, executionVars
  <2>5. QED
    BY <2>1, <2>2, <2>3, <2>4 DEF Next

(* Types of the supervisors. *)
LEMMA TypeSupStep ==
    ASSUME TypeSup, [Next]_vars
    PROVE  TypeSup'
<1>1. ASSUME UNCHANGED <<sup, phys>> PROVE TypeSup'
  BY <1>1 DEF TypeSup, SupPoints
<1>2. ASSUME NEW c \in Calls, Panic(c) PROVE TypeSup'
  BY <1>2, Closing, Orphans
  DEF Panic, Working, TypeSup, SupPoints, runVars, engineVars, executorUnchanged
<1>3. ASSUME NEW c \in Calls, GraceOver(c) PROVE TypeSup'
  BY <1>3, Orphans DEF GraceOver, TypeSup, SupPoints, runVars, engineVars, executorUnchanged
<1>4. ASSUME NEW p \in Procs, register_execution_resource(p) PROVE TypeSup'
  BY <1>4, ProcCall
  DEF register_execution_resource, At, Goes, Working, Resting, TypeSup, SupPoints, runVars,
      ledgerVars, engineVars, tokenVars, supUnchanged
<1>5. ASSUME NEW p \in Procs, RegisterCommits(p) PROVE TypeSup'
  BY <1>5, ProcCall
  DEF RegisterCommits, At, Goes, TypeSup, SupPoints, runVars, engineVars, tokenVars,
      supUnchanged
<1>6. ASSUME NEW p \in Procs, RegisterFails(p) PROVE TypeSup'
  BY <1>6, ProcCall
  DEF RegisterFails, At, Goes, Fault, Completed, TypeSup, SupPoints, runVars, ledgerVars,
      engineVars, tokenVars, supUnchanged
<1>7. ASSUME NEW p \in Procs, spawn_owned(p) PROVE TypeSup'
  BY <1>7, Finalize, ProcCall
  DEF spawn_owned, At, Goes, Working, Completed, TypeSup, SupPoints, runVars, ledgerVars,
      engineVars, tokenVars, supUnchanged
<1>8. ASSUME NEW p \in Procs, spawn(p) PROVE TypeSup'
  BY <1>8
  DEF spawn, At, Goes, TypeSup, SupPoints, runVars, ledgerVars, engineVars, tokenVars,
      supUnchanged
<1>9. ASSUME NEW p \in Procs, bind_execution_resource_external(p) PROVE TypeSup'
  BY <1>9
  DEF bind_execution_resource_external, At, Goes, Fault, TypeSup, SupPoints, runVars,
      engineVars, tokenVars, supUnchanged
<1>10. ASSUME NEW p \in Procs, CheckCancel(p) PROVE TypeSup'
  BY <1>10, ProcCall
  DEF CheckCancel, At, Goes, Cancelled, TypeSup, SupPoints, runVars, ledgerVars, engineVars,
      tokenVars, supUnchanged
<1>11. ASSUME NEW p \in Procs, release_gate(p) PROVE TypeSup'
  BY <1>11
  DEF release_gate, At, Goes, TypeSup, SupPoints, runVars, ledgerVars, engineVars, tokenVars,
      supUnchanged
<1>12. ASSUME NEW p \in Procs, ProgramExits(p) PROVE TypeSup'
  BY <1>12
  DEF ProgramExits, TypeSup, SupPoints, runVars, ledgerVars, engineVars, tokenVars, supUnchanged
<1>13. ASSUME NEW p \in Procs, Watch(p) PROVE TypeSup'
  BY <1>13
  DEF Watch, At, Goes, TypeSup, SupPoints, runVars, ledgerVars, engineVars, tokenVars,
      supUnchanged
<1>14. ASSUME NEW p \in Procs, terminate(p) PROVE TypeSup'
  BY <1>14
  DEF terminate, At, Goes, Fault, TypeSup, SupPoints, runVars, ledgerVars, engineVars,
      tokenVars, supUnchanged
<1>15. ASSUME NEW p \in Procs, TerminateUnbound(p) PROVE TypeSup'
  BY <1>15
  DEF TerminateUnbound, At, Goes, Fault, TypeSup, SupPoints, runVars, ledgerVars, engineVars,
      tokenVars, supUnchanged
<1>16. ASSUME NEW p \in Procs, FinishReleased(p) PROVE TypeSup'
  BY <1>16, Finalize, ProcCall
  DEF FinishReleased, At, Goes, Fault, Completed, TypeSup, SupPoints, runVars, ledgerVars,
      engineVars, tokenVars, supUnchanged
<1>17. ASSUME NEW p \in Procs, FinishUnconfirmed(p) PROVE TypeSup'
  BY <1>17, Finalize, ProcCall
  DEF FinishUnconfirmed, At, Goes, Fault, Completed, TypeSup, SupPoints, runVars, ledgerVars,
      engineVars, tokenVars, supUnchanged
<1>18. ASSUME reconcile_runtime_after_restart PROVE TypeSup'
  BY <1>18
  DEF reconcile_runtime_after_restart, ReconciledRows, ReconciledInvocations, Sealed, Survives,
      Idle, TypeSup, SupPoints, ledgerVars
<1>19. QED
  <2>1. CASE Engine
    BY <2>1, <1>1
    DEF Engine, start_guarded_tool_invocation, RejectCall, commit_tool_result_facts,
        AdmissionEnds, close_tool_batch_for_runtime_failure, BatchCompletes, abort_tool_phase,
        DrainStreams, DrainEnds, abort_sub_agent_tool_invocations, ReadCleanup,
        commit_task_result, StartRefused, fail_tool_durability, Quarantine, runVars, ledgerVars,
        engineVars, tokenVars, supVars, executionVars
  <2>2. ASSUME NEW c \in Calls, Executor(c) PROVE TypeSup'
    BY <2>2, <1>1, <1>2, <1>3
    DEF Executor, admit_call, AdmissionRejected, SilentExit, WorkReturns, CancelNoticed,
        TimesOut, GraceDone, ForceWrite, ForceDone, runVars, ledgerVars, engineVars, tokenVars,
        supVars, executorUnchanged
  <2>3. ASSUME NEW p \in Procs, register_execution_resource(p) \/ Supervisor(p) \/ ProgramExits(p)
        PROVE  TypeSup'
    BY <2>3, <1>1, <1>4, <1>5, <1>6, <1>7, <1>8, <1>9, <1>10, <1>11, <1>12, <1>13, <1>14, <1>15,
       <1>16, <1>17
    DEF Supervisor
  <2>4. CASE RecordStop \/ SignalStop \/ shutdown \/ reconcile_runtime_after_restart \/ UNCHANGED vars
    BY <2>4, <1>1, <1>18
    DEF vars, RecordStop, SignalStop, shutdown, runVars, ledgerVars, engineVars, tokenVars,
        supVars, executionVars
  <2>5. QED
    BY <2>1, <2>2, <2>3, <2>4 DEF Next

(* The three parts of OutcomeFinal. *)
RowKept == \A p \in Procs : row[p].status \in {"released", "unconfirmed"} =>
                              row'[p].status = row[p].status
InvKept == \A c \in Calls : inv[c].status = "terminal" => inv'[c].status = "terminal"
RecordKept == recorded # "none" => recorded' = recorded

(* A row that is registered was absent; finalize keeps the first terminal word. *)
LEMMA RowFinal ==
    ASSUME TypeInv, TypeRow, TypeSup, SupShape, [Next]_vars
    PROVE  RowKept
<1>1. ASSUME UNCHANGED <<row>> PROVE RowKept
  BY <1>1 DEF RowKept, TypeRow, SupShape
<1>2. ASSUME NEW c \in Calls, NEW p \in ProcsOf(c), ForceWrite(c, p) PROVE RowKept
  BY <1>2, Forced
  DEF ForceWrite, Fault, RowKept, TypeRow, SupShape, runVars, ledgerVars, engineVars, tokenVars,
      supVars
<1>3. ASSUME NEW p \in Procs, RegisterCommits(p) PROVE RowKept
  BY <1>3, ProcCall
  DEF RegisterCommits, At, Goes, RowKept, TypeRow, SupShape, runVars, engineVars, tokenVars,
      supUnchanged
<1>4. ASSUME NEW p \in Procs, spawn_owned(p) PROVE RowKept
  BY <1>4, Finalize, ProcCall
  DEF spawn_owned, At, Goes, Working, Completed, RowKept, TypeRow, SupShape, runVars,
      ledgerVars, engineVars, tokenVars, supUnchanged
<1>5. ASSUME NEW p \in Procs, bind_execution_resource_external(p) PROVE RowKept
  BY <1>5
  DEF bind_execution_resource_external, At, Goes, Fault, RowKept, TypeRow, SupShape, runVars,
      engineVars, tokenVars, supUnchanged
<1>6. ASSUME NEW p \in Procs, FinishReleased(p) PROVE RowKept
  BY <1>6, Finalize, ProcCall
  DEF FinishReleased, At, Goes, Fault, Completed, RowKept, TypeRow, SupShape, runVars,
      ledgerVars, engineVars, tokenVars, supUnchanged
<1>7. ASSUME NEW p \in Procs, FinishUnconfirmed(p) PROVE RowKept
  BY <1>7, Finalize, ProcCall
  DEF FinishUnconfirmed, At, Goes, Fault, Completed, RowKept, TypeRow, SupShape, runVars,
      ledgerVars, engineVars, tokenVars, supUnchanged
<1>8. ASSUME reconcile_runtime_after_restart PROVE RowKept
  <2>1. CASE run = "ended"
    BY <1>8, <2>1 DEF reconcile_runtime_after_restart, ledgerVars, RowKept
  <2>2. CASE run # "ended"
    BY <1>8, <2>2, Restarted DEF RowKept, TypeRow
  <2>3. QED
    BY <2>1, <2>2
<1>9. QED
  <2>1. CASE Engine
    BY <2>1, <1>1
    DEF Engine, start_guarded_tool_invocation, RejectCall, commit_tool_result_facts,
        AdmissionEnds, close_tool_batch_for_runtime_failure, BatchCompletes, abort_tool_phase,
        DrainStreams, DrainEnds, abort_sub_agent_tool_invocations, ReadCleanup,
        commit_task_result, StartRefused, fail_tool_durability, Quarantine, runVars, ledgerVars,
        engineVars, tokenVars, supVars, executionVars
  <2>2. ASSUME NEW c \in Calls, Executor(c) PROVE RowKept
    BY <2>2, <1>1, <1>2
    DEF Executor, admit_call, AdmissionRejected, SilentExit, WorkReturns, Panic, CancelNoticed,
        TimesOut, GraceDone, GraceOver, ForceDone, runVars, engineVars, supVars,
        executorUnchanged
  <2>3. ASSUME NEW p \in Procs, register_execution_resource(p) \/ Supervisor(p) \/ ProgramExits(p)
        PROVE  RowKept
    BY <2>3, <1>1, <1>3, <1>4, <1>5, <1>6, <1>7
    DEF Supervisor, register_execution_resource, RegisterFails, spawn, CheckCancel,
        release_gate, ProgramExits, Watch, terminate, TerminateUnbound, runVars, ledgerVars,
        engineVars, tokenVars, supUnchanged
  <2>4. CASE RecordStop \/ SignalStop \/ shutdown \/ reconcile_runtime_after_restart \/ UNCHANGED vars
    BY <2>4, <1>1, <1>8
    DEF vars, RecordStop, SignalStop, shutdown, runVars, ledgerVars, engineVars, tokenVars,
        supVars, executionVars
  <2>5. QED
    BY <2>1, <2>2, <2>3, <2>4 DEF Next

(* No invocation is reopened. *)
LEMMA InvFinal ==
    ASSUME TypeInv, TypeRow, [Next]_vars
    PROVE  InvKept
<1>1. ASSUME UNCHANGED <<inv>> PROVE InvKept
  BY <1>1 DEF InvKept, TypeInv
<1>2. ASSUME NEW c \in Calls, start_guarded_tool_invocation(c) PROVE InvKept
  BY <1>2
  DEF start_guarded_tool_invocation, InvKept, TypeInv, runVars, engineVars, tokenVars, supVars
<1>3. ASSUME NEW c \in Calls, RejectCall(c) PROVE InvKept
  BY <1>3
  DEF RejectCall, Sealed, InvKept, TypeInv, runVars, engineVars, tokenVars, supVars,
      executionVars
<1>4. ASSUME NEW c \in Calls, commit_tool_result_facts(c) PROVE InvKept
  BY <1>4
  DEF commit_tool_result_facts, Sealed, Open, InvKept, TypeInv, runVars, engineVars, tokenVars,
      supVars, executionVars
<1>5. ASSUME close_tool_batch_for_runtime_failure PROVE InvKept
  BY <1>5
  DEF close_tool_batch_for_runtime_failure, Open, Sealed, Unsealed, InvKept, TypeInv, runVars,
      tokenVars, supVars, executionVars
<1>6. ASSUME abort_tool_phase PROVE InvKept
  BY <1>6
  DEF abort_tool_phase, Open, Sealed, Unsealed, StreamsEnd, InvKept, TypeInv, runVars,
      tokenVars, supVars, executionVars
<1>7. ASSUME abort_sub_agent_tool_invocations PROVE InvKept
  BY <1>7
  DEF abort_sub_agent_tool_invocations, Open, Sealed, Unsealed, InvKept, TypeInv, runVars,
      tokenVars, supVars, executionVars
<1>8. ASSUME NEW c \in Calls, NEW p \in ProcsOf(c), ForceWrite(c, p) PROVE InvKept
  BY <1>8, Forced
  DEF ForceWrite, Fault, InvKept, TypeInv, runVars, ledgerVars, engineVars, tokenVars, supVars
<1>9. ASSUME NEW p \in Procs, spawn_owned(p) PROVE InvKept
  BY <1>9, Finalize, ProcCall
  DEF spawn_owned, At, Goes, Working, Completed, InvKept, TypeInv, runVars, ledgerVars,
      engineVars, tokenVars, supUnchanged
<1>10. ASSUME NEW p \in Procs, FinishReleased(p) PROVE InvKept
  BY <1>10, Finalize, ProcCall
  DEF FinishReleased, At, Goes, Fault, Completed, InvKept, TypeInv, runVars, ledgerVars,
      engineVars, tokenVars, supUnchanged
<1>11. ASSUME NEW p \in Procs, FinishUnconfirmed(p) PROVE InvKept
  BY <1>11, Finalize, ProcCall
  DEF FinishUnconfirmed, At, Goes, Fault, Completed, InvKept, TypeInv, runVars, ledgerVars,
      engineVars, tokenVars, supUnchanged
<1>12. ASSUME reconcile_runtime_after_restart PROVE InvKept
  <2>1. CASE run = "ended"
    BY <1>12, <2>1 DEF reconcile_runtime_after_restart, ledgerVars, InvKept
  <2>2. CASE run # "ended"
    BY <1>12, <2>2, Restarted DEF InvKept
  <2>3. QED
    BY <2>1, <2>2
<1>13. QED
  <2>1. CASE Engine
    BY <2>1, <1>1, <1>2, <1>3, <1>4, <1>5, <1>6, <1>7
    DEF Engine, AdmissionEnds, BatchCompletes, DrainStreams, DrainEnds, ReadCleanup,
        commit_task_result, StartRefused, fail_tool_durability, Quarantine, runVars, ledgerVars,
        tokenVars, supVars, executionVars
  <2>2. ASSUME NEW c \in Calls, Executor(c) PROVE InvKept
    BY <2>2, <1>1, <1>8
    DEF Executor, admit_call, AdmissionRejected, SilentExit, WorkReturns, Panic, CancelNoticed,
        TimesOut, GraceDone, GraceOver, ForceDone, runVars, engineVars, supVars,
        executorUnchanged
  <2>3. ASSUME NEW p \in Procs, register_execution_resource(p) \/ Supervisor(p) \/ ProgramExits(p)
        PROVE  InvKept
    BY <2>3, <1>1, <1>9, <1>10, <1>11
    DEF Supervisor, register_execution_resource, RegisterCommits, RegisterFails, spawn,
        bind_execution_resource_external, CheckCancel, release_gate, ProgramExits, Watch,
        terminate, TerminateUnbound, runVars, ledgerVars, engineVars, tokenVars, supUnchanged
  <2>4. CASE RecordStop \/ SignalStop \/ shutdown \/ reconcile_runtime_after_restart \/ UNCHANGED vars
    BY <2>4, <1>1, <1>12
    DEF vars, RecordStop, SignalStop, shutdown, runVars, ledgerVars, engineVars, tokenVars,
        supVars, executionVars
  <2>5. QED
    BY <2>1, <2>2, <2>3, <2>4 DEF Next

(* A Run is recorded once. *)
LEMMA RecordFinal ==
    ASSUME TypeRun, RunShape, [Next]_vars
    PROVE  RecordKept
<1>1. ASSUME UNCHANGED <<recorded>> PROVE RecordKept
  BY <1>1 DEF RecordKept, RunShape, TypeRun
<1>2. ASSUME commit_task_result PROVE RecordKept
  BY <1>2
  DEF commit_task_result, RecordKept, RunShape, TypeRun, ledgerVars, tokenVars, supVars,
      executionVars
<1>3. ASSUME StartRefused PROVE RecordKept
  BY <1>3 DEF StartRefused, Quarantine, RecordKept, RunShape, TypeRun, ledgerVars, supVars
<1>4. ASSUME fail_tool_durability PROVE RecordKept
  BY <1>4
  DEF fail_tool_durability, Quarantine, Fault, RecordKept, RunShape, TypeRun, ledgerVars,
      supVars
<1>5. ASSUME reconcile_runtime_after_restart PROVE RecordKept
  BY <1>5
  DEF reconcile_runtime_after_restart, ReconciledRows, ReconciledInvocations, Sealed, Survives,
      Idle, RecordKept, RunShape, TypeRun, ledgerVars
<1>6. QED
  <2>1. CASE Engine
    BY <2>1, <1>1, <1>2, <1>3, <1>4
    DEF Engine, start_guarded_tool_invocation, RejectCall, commit_tool_result_facts,
        AdmissionEnds, close_tool_batch_for_runtime_failure, BatchCompletes, abort_tool_phase,
        DrainStreams, DrainEnds, abort_sub_agent_tool_invocations, ReadCleanup, runVars,
        ledgerVars, engineVars, tokenVars, supVars, executionVars
  <2>2. ASSUME NEW c \in Calls, Executor(c) PROVE RecordKept
    BY <2>2, <1>1
    DEF Executor, admit_call, AdmissionRejected, SilentExit, WorkReturns, Panic, CancelNoticed,
        TimesOut, GraceDone, GraceOver, ForceWrite, ForceDone, runVars, ledgerVars, engineVars,
        tokenVars, supVars, executorUnchanged
  <2>3. ASSUME NEW p \in Procs, register_execution_resource(p) \/ Supervisor(p) \/ ProgramExits(p)
        PROVE  RecordKept
    BY <2>3, <1>1
    DEF Supervisor, register_execution_resource, RegisterCommits, RegisterFails, spawn_owned,
        spawn, bind_execution_resource_external, CheckCancel, release_gate, ProgramExits, Watch,
        terminate, TerminateUnbound, FinishReleased, FinishUnconfirmed, runVars, ledgerVars,
        engineVars, tokenVars, supUnchanged
  <2>4. CASE RecordStop \/ SignalStop \/ shutdown \/ reconcile_runtime_after_restart \/ UNCHANGED vars
    BY <2>4, <1>1, <1>5
    DEF vars, RecordStop, SignalStop, shutdown, runVars, ledgerVars, engineVars, tokenVars,
        supVars, executionVars
  <2>5. QED
    BY <2>1, <2>2, <2>3, <2>4 DEF Next

--------------------------------------------------------------------------------
(* What the properties rest on. *)
IInv ==
    /\ Types /\ RunShape /\ SupShape /\ AliveIsOwned /\ CallShape /\ TrackerShape
    /\ BatchOver /\ Quiet

(* No call has started. *)
LEMMA InitInv == Init => IInv
<1> SUFFICES ASSUME Init PROVE IInv
  OBVIOUS
<1> USE ToolAssumption DEF Init
<1>1. Types
  <2>1. TypeRun
    <3>1. faults \in 0 .. MaxFaults /\ stopped \subseteq Calls
      OBVIOUS
    <3>2. QED
      BY <3>1 DEF TypeRun, Cleanup
  <2>2. TypeInv /\ TypeRow
    BY DEF TypeInv, TypeRow, Cleanup
  <2>3. TypeCall
    BY DEF TypeCall, CallPoints, Idle
  <2>4. TypeTracker /\ TypeSup
    BY DEF TypeTracker, TypeSup, SupPoints, Fresh
  <2>5. QED
    BY <2>1, <2>2, <2>3, <2>4 DEF Types
<1>2. RunShape /\ SupShape /\ AliveIsOwned
  BY DEF RunShape, SupShape, AliveIsOwned
<1>3. CallShape
  BY DEF CallShape, Idle
<1>4. TrackerShape
  BY ProcCall DEF TrackerShape, Idle, Alive, Clean
<1>5. BatchOver /\ Quiet
  BY DEF BatchOver, Quiet, Clean
<1>6. QED
  BY <1>1, <1>2, <1>3, <1>4, <1>5 DEF IInv

(* Every part of the invariant is kept by a lemma of its own. *)
LEMMA Inductive == Spec => []IInv
<1>1. IInv /\ [Next]_vars => IInv'
  <2> SUFFICES ASSUME IInv, [Next]_vars PROVE IInv'
    OBVIOUS
  <2>1. Types'
    BY TypeRunStep, TypeInvStep, TypeRowStep, TypeCallStep, TypeTrackerStep, TypeSupStep
    DEF IInv, Types
  <2>2. RunShape' /\ SupShape' /\ AliveIsOwned' /\ CallShape'
    BY RunStep, SupStep, AliveStep, CallStep DEF IInv, Types
  <2>3. TrackerShape' /\ BatchOver' /\ Quiet'
    BY TrackerStep, BatchStep, QuietStep DEF IInv, Types
  <2>4. QED
    BY <2>1, <2>2, <2>3 DEF IInv
<1>2. QED
  BY InitInv, <1>1, PTL DEF Spec

--------------------------------------------------------------------------------
(* How far a call's task and a supervisor are from their end.               *)
CallLeft(point) ==
    CASE point = "none" -> 5 [] point = "waiting" -> 4 [] point = "work" -> 3
      [] point = "grace" -> 2 [] point = "forcing" -> 1 [] OTHER -> 0
SupLeft(point) ==
    CASE point = "none" -> 13 [] point = "registering" -> 12 [] point = "lost" -> 11
      [] point = "registered" -> 10 [] point = "owned" -> 9 [] point = "spawned" -> 8
      [] point = "bound" -> 7 [] point = "passed" -> 6 [] point = "watch" -> 5
      [] point = "kill" -> 4 [] point = "unbound" -> 3 [] point = "release" -> 2
      [] point = "unconfirm" -> 1 [] OTHER -> 0

(* A step, whoever takes it, leaves them where they are or brings them nearer *)
(* to the end; a call that forces its resources has no more rows to write.    *)
CallsMoveOn ==
    \A c \in Calls :
        \/ /\ call'[c].pc = call[c].pc
           /\ call[c].pc = "forcing" => call'[c].todo \subseteq call[c].todo
        \/ CallLeft(call'[c].pc) < CallLeft(call[c].pc)
SupsMoveOn ==
    \A p \in Procs : sup'[p] = sup[p] \/ SupLeft(sup'[p]) < SupLeft(sup[p])

(* The steps that fairness is about do bring them nearer.                     *)
OwnStepsCount ==
    /\ \A c \in Calls : ExecutorProgress(c) =>
          \/ CallLeft(call'[c].pc) < CallLeft(call[c].pc)
          \/ call'[c].pc = "forcing" /\ call'[c].todo \subseteq call[c].todo
                                     /\ call'[c].todo # call[c].todo
    /\ \A p \in Procs : Supervisor(p) => SupLeft(sup'[p]) < SupLeft(sup[p])

(* A call that was told to stop is never told otherwise.                      *)
StopStays == \A c \in Calls : Cancelled(c) /\ call[c].pc # "none" => Cancelled(c)'

(* A call writes the rows of its own programs only.                           *)
OwnRows ==
    \A c \in Calls : tracker[c].leases \subseteq ProcsOf(c) /\ call[c].todo \subseteq ProcsOf(c)

(* While a cancelled call is not drained, the guard of one of those steps      *)
(* holds: its task has not closed and is at a timer or has a row to write, or  *)
(* a supervisor of its is under way and does not wait for a future that is     *)
(* gone.                                                                       *)
DrainGoesOn ==
    \A c \in Calls : Cancelled(c) /\ call[c].pc # "none" =>
        \/ call[c].pc \in {"waiting", "work", "grace"}
        \/ call[c].pc = "forcing" /\ (call[c].todo = {} \/ \E p \in ProcsOf(c) : p \in call[c].todo)
        \/ /\ call[c].pc = "closed"
           /\ \A p \in ProcsOf(c) : sup[p] \notin {"registering", "registered"}

(* Only what has come to its end has nothing left to do.                     *)
LEMMA Left ==
    /\ \A x \in CallPoints : CallLeft(x) \in 0 .. 5 /\ (CallLeft(x) = 0 <=> x = "closed")
    /\ \A x \in SupPoints : SupLeft(x) \in 0 .. 13 /\ (SupLeft(x) = 0 <=> x = "done")
BY DEF CallLeft, SupLeft, CallPoints, SupPoints

(* A supervisor that goes to a point of a lower rank moves on, alone.         *)
SupMoved(p) ==
    /\ SupLeft(sup'[p]) < SupLeft(sup[p])
    /\ \A q \in Procs : q # p => sup'[q] = sup[q]

LEMMA Forward ==
    ASSUME TypeSup, NEW p \in Procs, NEW point, Goes(p, point),
           SupLeft(point) < SupLeft(sup[p])
    PROVE  SupMoved(p)
BY DEF TypeSup, Goes, SupMoved

(* Every step of a supervisor does.                                          *)
LEMMA SupMoves ==
    ASSUME TypeSup, NEW p \in Procs, Supervisor(p)
    PROVE  SupMoved(p)
<1>1. CASE RegisterCommits(p)
  BY <1>1, Forward DEF RegisterCommits, At, SupLeft
<1>2. CASE RegisterFails(p)
  BY <1>2, Forward DEF RegisterFails, At, SupLeft
<1>3. CASE spawn_owned(p)
  <2>1. sup[p] = "registered" /\ (Goes(p, "owned") \/ Goes(p, "done"))
    BY <1>3 DEF spawn_owned, At
  <2>2. QED
    BY <2>1, Forward DEF SupLeft
<1>4. CASE spawn(p)
  BY <1>4, Forward DEF spawn, At, SupLeft
<1>5. CASE bind_execution_resource_external(p)
  BY <1>5, Forward DEF bind_execution_resource_external, At, SupLeft
<1>6. CASE CheckCancel(p)
  BY <1>6, Forward DEF CheckCancel, At, SupLeft
<1>7. CASE release_gate(p)
  BY <1>7, Forward DEF release_gate, At, SupLeft
<1>8. CASE Watch(p)
  BY <1>8, Forward DEF Watch, At, SupLeft
<1>9. CASE terminate(p)
  BY <1>9, Forward DEF terminate, At, SupLeft
<1>10. CASE TerminateUnbound(p)
  BY <1>10, Forward DEF TerminateUnbound, At, SupLeft
<1>11. CASE FinishReleased(p)
  BY <1>11, Forward DEF FinishReleased, At, SupLeft
<1>12. CASE FinishUnconfirmed(p)
  BY <1>12, Forward DEF FinishUnconfirmed, At, SupLeft
<1>13. QED
  BY <1>1, <1>2, <1>3, <1>4, <1>5, <1>6, <1>7, <1>8, <1>9, <1>10, <1>11, <1>12 DEF Supervisor

(* No supervisor ever goes back.                                            *)
LEMMA SupsMove ==
    ASSUME TypeSup, [Next]_vars
    PROVE  SupsMoveOn
<1>1. ASSUME UNCHANGED <<sup>> PROVE SupsMoveOn
  BY <1>1 DEF SupsMoveOn
<1>2. ASSUME NEW c \in Calls, Panic(c) PROVE SupsMoveOn
  BY <1>2, Orphans DEF Panic, TypeSup, SupLeft, SupsMoveOn
<1>3. ASSUME NEW c \in Calls, GraceOver(c) PROVE SupsMoveOn
  BY <1>3, Orphans DEF GraceOver, TypeSup, SupLeft, SupsMoveOn
<1>4. ASSUME NEW p \in Procs, register_execution_resource(p) PROVE SupsMoveOn
  BY <1>4, Forward DEF register_execution_resource, At, SupLeft, SupMoved, SupsMoveOn
<1>5. ASSUME NEW p \in Procs, Supervisor(p) PROVE SupsMoveOn
  BY <1>5, SupMoves DEF SupMoved, SupsMoveOn
<1>6. ASSUME reconcile_runtime_after_restart PROVE SupsMoveOn
  <2>1. \A p \in Procs : sup'[p] = "done" /\ sup[p] \in SupPoints
    BY <1>6 DEF reconcile_runtime_after_restart, TypeSup
  <2>2. SupLeft("done") = 0 /\ \A x \in SupPoints : x # "done" => SupLeft("done") < SupLeft(x)
    BY DEF SupLeft, SupPoints
  <2>3. QED
    BY <2>1, <2>2 DEF SupsMoveOn
<1>7. QED
  <2>1. CASE Engine
    BY <2>1, <1>1
    DEF Engine, start_guarded_tool_invocation, RejectCall, commit_tool_result_facts,
        AdmissionEnds, close_tool_batch_for_runtime_failure, BatchCompletes, abort_tool_phase,
        DrainStreams, DrainEnds, abort_sub_agent_tool_invocations, ReadCleanup,
        commit_task_result, StartRefused, fail_tool_durability, Quarantine, runVars, ledgerVars,
        engineVars, tokenVars, supVars, executionVars
  <2>2. ASSUME NEW c \in Calls, Executor(c) PROVE SupsMoveOn
    BY <2>2, <1>1, <1>2, <1>3
    DEF Executor, admit_call, AdmissionRejected, SilentExit, WorkReturns, CancelNoticed,
        TimesOut, GraceDone, ForceWrite, ForceDone, runVars, ledgerVars, engineVars, tokenVars,
        supVars, executorUnchanged
  <2>3. ASSUME NEW p \in Procs, register_execution_resource(p) \/ Supervisor(p) \/ ProgramExits(p)
        PROVE  SupsMoveOn
    BY <2>3, <1>1, <1>4, <1>5 DEF ProgramExits
  <2>4. CASE RecordStop \/ SignalStop \/ shutdown \/ reconcile_runtime_after_restart \/ UNCHANGED vars
    BY <2>4, <1>1, <1>6
    DEF vars, RecordStop, SignalStop, shutdown, runVars, ledgerVars, engineVars, tokenVars,
        supVars, executionVars
  <2>5. QED
    BY <2>1, <2>2, <2>3, <2>4 DEF Next

(* A task that closes moves on.                                              *)
LEMMA ClosingMoves ==
    ASSUME TypeCall, TypeTracker, NEW c \in Calls, NEW reply \in BOOLEAN, Close(c, reply),
           call[c].pc # "closed"
    PROVE  CallsMoveOn
<1>1. \A x \in CallPoints : x # "closed" => CallLeft("closed") < CallLeft(x)
  BY DEF CallLeft, CallPoints
<1>2. call[c].pc \in CallPoints
  BY DEF TypeCall
<1>3. QED
  BY <1>1, <1>2, Closing DEF CallsMoveOn

(* No call ever goes back.                                                  *)
LEMMA CallsMove ==
    ASSUME TypeRun, TypeCall, TypeTracker, CallShape, RunShape, [Next]_vars
    PROVE  CallsMoveOn
<1>1. ASSUME UNCHANGED <<call>> PROVE CallsMoveOn
  BY <1>1 DEF CallsMoveOn
<1>2. ASSUME NEW c \in Calls, start_guarded_tool_invocation(c) PROVE CallsMoveOn
  BY <1>2 DEF start_guarded_tool_invocation, TypeCall, CallLeft, CallsMoveOn, CallShape
<1>3. ASSUME NEW c \in Calls, admit_call(c) PROVE CallsMoveOn
  BY <1>3 DEF admit_call, TypeCall, CallLeft, CallsMoveOn
<1>4. ASSUME NEW c \in Calls, AdmissionRejected(c) PROVE CallsMoveOn
  BY <1>4 DEF AdmissionRejected, TypeCall, CallLeft, CallsMoveOn
<1>5. ASSUME NEW c \in Calls, SilentExit(c) PROVE CallsMoveOn
  BY <1>5 DEF SilentExit, TypeCall, CallLeft, CallsMoveOn
<1>6. ASSUME NEW c \in Calls, CancelNoticed(c) PROVE CallsMoveOn
  BY <1>6 DEF CancelNoticed, TypeCall, CallLeft, CallsMoveOn
<1>7. ASSUME NEW c \in Calls, TimesOut(c) PROVE CallsMoveOn
  BY <1>7 DEF TimesOut, TypeCall, CallLeft, CallsMoveOn
<1>8. ASSUME NEW c \in Calls, WorkReturns(c) PROVE CallsMoveOn
  BY <1>8, ClosingMoves DEF WorkReturns, Working, TypeCall
<1>9. ASSUME NEW c \in Calls, Panic(c) PROVE CallsMoveOn
  BY <1>9, ClosingMoves DEF Panic, Working, TypeCall
<1>10. ASSUME NEW c \in Calls, GraceDone(c) PROVE CallsMoveOn
  BY <1>10, ClosingMoves DEF GraceDone, Working, TypeCall
<1>11. ASSUME NEW c \in Calls, ForceDone(c) PROVE CallsMoveOn
  BY <1>11, ClosingMoves DEF ForceDone, Working, TypeCall
<1>12. ASSUME NEW c \in Calls, GraceOver(c) PROVE CallsMoveOn
  BY <1>12 DEF GraceOver, TypeCall, CallLeft, CallsMoveOn
<1>13. ASSUME NEW c \in Calls, NEW p \in ProcsOf(c), ForceWrite(c, p) PROVE CallsMoveOn
  <2>1. call' = [call EXCEPT ![c] = [call[c] EXCEPT !.todo = call[c].todo \ {p}]]
    BY <1>13 DEF ForceWrite, TypeCall
  <2>2. QED
    BY <2>1 DEF TypeCall, CallsMoveOn
<1>14. ASSUME reconcile_runtime_after_restart PROVE CallsMoveOn
  <2>1. \A c \in Calls : call'[c].pc = "closed" /\ call[c].pc \in CallPoints
    BY <1>14 DEF reconcile_runtime_after_restart, Idle, TypeCall
  <2>2. \A x \in CallPoints : x # "closed" => CallLeft("closed") < CallLeft(x)
    BY DEF CallLeft, CallPoints
  <2>3. QED
    BY <2>1, <2>2 DEF CallsMoveOn
<1>15. QED
  <2>1. CASE Engine
    BY <2>1, <1>1, <1>2
    DEF Engine, RejectCall, commit_tool_result_facts,
        AdmissionEnds, close_tool_batch_for_runtime_failure, BatchCompletes, abort_tool_phase,
        DrainStreams, DrainEnds, abort_sub_agent_tool_invocations, ReadCleanup,
        commit_task_result, StartRefused, fail_tool_durability, Quarantine, runVars, ledgerVars,
        engineVars, tokenVars, supVars, executionVars
  <2>2. ASSUME NEW c \in Calls, Executor(c) PROVE CallsMoveOn
    BY <2>2, <1>3, <1>4, <1>5, <1>6, <1>7, <1>8, <1>9, <1>10, <1>11, <1>12, <1>13
    DEF Executor
  <2>3. ASSUME NEW p \in Procs, register_execution_resource(p) \/ Supervisor(p) \/ ProgramExits(p)
        PROVE  CallsMoveOn
    BY <2>3, <1>1
    DEF Supervisor, register_execution_resource, RegisterCommits, RegisterFails, spawn_owned,
        spawn, bind_execution_resource_external, CheckCancel, release_gate, ProgramExits, Watch,
        terminate, TerminateUnbound, FinishReleased, FinishUnconfirmed, runVars, ledgerVars,
        engineVars, tokenVars, supUnchanged
  <2>4. CASE RecordStop \/ SignalStop \/ shutdown \/ reconcile_runtime_after_restart \/ UNCHANGED vars
    BY <2>4, <1>1, <1>14
    DEF vars, RecordStop, SignalStop, shutdown, runVars, ledgerVars, engineVars, tokenVars,
        supVars, executionVars
  <2>5. QED
    BY <2>1, <2>2, <2>3, <2>4 DEF Next

(* A fair step is one nearer to the end.                                     *)
LEMMA OwnSteps ==
    ASSUME TypeCall, TypeTracker, TypeSup
    PROVE  OwnStepsCount
<1>1. ASSUME NEW c \in Calls, SilentExit(c) PROVE CallLeft(call'[c].pc) < CallLeft(call[c].pc)
  <2>1. call[c].pc = "waiting" /\ call'[c].pc = "closed"
    BY <1>1 DEF SilentExit, TypeCall
  <2>2. QED
    BY <2>1 DEF CallLeft
<1>2. ASSUME NEW c \in Calls, CancelNoticed(c) PROVE CallLeft(call'[c].pc) < CallLeft(call[c].pc)
  <2>1. call[c].pc = "work" /\ call'[c].pc = "grace"
    BY <1>2 DEF CancelNoticed, TypeCall
  <2>2. QED
    BY <2>1 DEF CallLeft
<1>3. ASSUME NEW c \in Calls, GraceOver(c) PROVE CallLeft(call'[c].pc) < CallLeft(call[c].pc)
  <2>1. call[c].pc = "grace" /\ call'[c].pc = "forcing"
    BY <1>3 DEF GraceOver, TypeCall
  <2>2. QED
    BY <2>1 DEF CallLeft
<1>4. ASSUME NEW c \in Calls, NEW p \in ProcsOf(c), ForceWrite(c, p)
      PROVE  /\ call'[c].pc = "forcing" /\ call'[c].todo \subseteq call[c].todo
             /\ call'[c].todo # call[c].todo
  BY <1>4 DEF ForceWrite, TypeCall
<1>5. ASSUME NEW c \in Calls, ForceDone(c) PROVE CallLeft(call'[c].pc) < CallLeft(call[c].pc)
  <2>1. call[c].pc = "forcing" /\ call'[c].pc = "closed"
    BY <1>5, Closing DEF ForceDone, TypeCall
  <2>2. QED
    BY <2>1 DEF CallLeft
<1>6. ASSUME NEW c \in Calls, ExecutorProgress(c)
      PROVE  \/ CallLeft(call'[c].pc) < CallLeft(call[c].pc)
             \/ call'[c].pc = "forcing" /\ call'[c].todo \subseteq call[c].todo
                                        /\ call'[c].todo # call[c].todo
  BY <1>1, <1>2, <1>3, <1>4, <1>5, <1>6 DEF ExecutorProgress
<1>7. QED
  BY <1>6, SupMoves DEF OwnStepsCount, SupMoved

(* The tokens: shutdown stops whatever has started, nothing clears a stop.     *)
LEMMA Stops ==
    ASSUME TypeRun, [Next]_vars
    PROVE  StopStays
<1>1. ASSUME UNCHANGED <<cancel, stopped>> PROVE StopStays
  BY <1>1 DEF StopStays, Cancelled
<1>2. ASSUME cancel', stopped' = stopped PROVE StopStays
  BY <1>2 DEF StopStays, Cancelled
<1>3. ASSUME NEW c \in Calls, cancel' = cancel, stopped' = stopped \cup {c} PROVE StopStays
  BY <1>3 DEF StopStays, Cancelled
<1>4. ASSUME Quarantine PROVE StopStays
  <2>1. CASE cancel'
    BY <1>2, <1>4, <2>1 DEF Quarantine
  <2>2. CASE ~ cancel'
    BY <1>4, <2>2 DEF Quarantine, StopStays, Cancelled
  <2>3. QED
    BY <2>1, <2>2
<1>5. ASSUME shutdown PROVE StopStays
  BY <1>5 DEF shutdown, StopStays, Cancelled
<1>6. ASSUME SignalStop PROVE StopStays
  BY <1>2, <1>6 DEF SignalStop
<1>7. QED
  <2>1. CASE Engine
    <3>1. CASE StartRefused \/ fail_tool_durability
      BY <3>1, <1>4 DEF StartRefused, fail_tool_durability
    <3>2. CASE Engine /\ ~ (StartRefused \/ fail_tool_durability)
      BY <3>2, <1>1
      DEF Engine, start_guarded_tool_invocation, RejectCall, commit_tool_result_facts,
          AdmissionEnds, close_tool_batch_for_runtime_failure, BatchCompletes, abort_tool_phase,
          DrainStreams, DrainEnds, abort_sub_agent_tool_invocations, ReadCleanup,
          commit_task_result, tokenVars, executionVars
    <3>3. QED
      BY <2>1, <3>1, <3>2
  <2>2. ASSUME NEW c \in Calls, Executor(c) PROVE StopStays
    BY <2>2, <1>1, <1>3
    DEF Executor, admit_call, AdmissionRejected, SilentExit, WorkReturns, Panic, CancelNoticed,
        TimesOut, GraceDone, GraceOver, ForceWrite, ForceDone, tokenVars, executorUnchanged
  <2>3. ASSUME NEW p \in Procs, register_execution_resource(p) \/ Supervisor(p) \/ ProgramExits(p)
        PROVE  StopStays
    BY <2>3, <1>1
    DEF Supervisor, register_execution_resource, RegisterCommits, RegisterFails, spawn_owned,
        spawn, bind_execution_resource_external, CheckCancel, release_gate, ProgramExits, Watch,
        terminate, TerminateUnbound, FinishReleased, FinishUnconfirmed, tokenVars, supUnchanged
  <2>4. CASE RecordStop \/ SignalStop \/ shutdown \/ reconcile_runtime_after_restart \/ UNCHANGED vars
    BY <2>4, <1>1, <1>5, <1>6
    DEF vars, RecordStop, reconcile_runtime_after_restart, tokenVars, executionVars
  <2>5. QED
    BY <2>1, <2>2, <2>3, <2>4 DEF Next

(* A tracker is handed only programs of its call, and force takes its rows     *)
(* from the tracker.                                                         *)
LEMMA OwnRowsStep ==
    ASSUME TypeCall, TypeTracker, OwnRows, [Next]_vars
    PROVE  OwnRows'
<1>1. ASSUME \A c \in Calls : tracker'[c].leases \subseteq tracker[c].leases,
             \A c \in Calls : call'[c].todo \subseteq call[c].todo
      PROVE  OwnRows'
  BY <1>1 DEF OwnRows
<1>2. ASSUME tracker' = tracker, NEW c \in Calls, \A d \in Calls : d # c => call'[d] = call[d],
             call'[c].todo = call[c].todo
      PROVE  OwnRows'
  BY <1>2 DEF OwnRows
<1>3. ASSUME tracker' = tracker, NEW c \in Calls, NEW reply, Close(c, reply) PROVE OwnRows'
  BY <1>2, <1>3 DEF Close, TypeCall
<1>4. ASSUME NEW c \in Calls, GraceOver(c) PROVE OwnRows'
  <2>1. call'[c].todo = tracker[c].leases /\ tracker'[c].leases = {}
    BY <1>4 DEF GraceOver, TypeCall, TypeTracker
  <2>2. \A d \in Calls : d # c => call'[d] = call[d] /\ tracker'[d] = tracker[d]
    BY <1>4 DEF GraceOver, TypeCall, TypeTracker
  <2>3. QED
    BY <2>1, <2>2 DEF OwnRows
<1>5. ASSUME NEW c \in Calls, NEW p \in ProcsOf(c), ForceWrite(c, p) PROVE OwnRows'
  <2>1. tracker' = tracker /\ call' = [call EXCEPT ![c] = [call[c] EXCEPT !.todo = call[c].todo \ {p}]]
    BY <1>5 DEF ForceWrite, TypeCall
  <2>2. QED
    BY <1>1, <2>1 DEF TypeCall
<1>6. ASSUME NEW p \in Procs, register_execution_resource(p) PROVE OwnRows'
  <2>1. tracker' = [tracker EXCEPT ![p[1]] = [tracker[p[1]] EXCEPT !.leases = tracker[p[1]].leases \cup {p},
                                                                  !.saw = TRUE]]
    BY <1>6 DEF register_execution_resource
  <2>2. call' = call
    BY <1>6 DEF register_execution_resource, supUnchanged
  <2>3. tracker'[p[1]].leases = tracker[p[1]].leases \cup {p}
    BY <2>1, ProcCall DEF TypeTracker
  <2>4. \A d \in Calls : d # p[1] => tracker'[d] = tracker[d]
    BY <2>1 DEF TypeTracker
  <2>5. QED
    BY <2>2, <2>3, <2>4, ProcCall DEF OwnRows
<1>7. ASSUME NEW p \in Procs, Supervisor(p) PROVE OwnRows'
  <2>1. call' = call
    BY <1>7
    DEF Supervisor, RegisterCommits, RegisterFails, spawn_owned, spawn,
        bind_execution_resource_external, CheckCancel, release_gate, Watch, terminate,
        TerminateUnbound, FinishReleased, FinishUnconfirmed, supUnchanged
  <2>2. \/ tracker' = tracker
        \/ \E confirmed \in BOOLEAN :
              tracker' = [tracker EXCEPT ![p[1]] = Completed(tracker[p[1]], p, confirmed)]
    BY <1>7
    DEF Supervisor, RegisterCommits, RegisterFails, spawn_owned, spawn,
        bind_execution_resource_external, CheckCancel, release_gate, Watch, terminate,
        TerminateUnbound, FinishReleased, FinishUnconfirmed
  <2>3. \A confirmed \in BOOLEAN :
            Completed(tracker[p[1]], p, confirmed).leases = tracker[p[1]].leases \ {p}
    BY ProcCall DEF Completed, TypeTracker
  <2>4. \A c \in Calls : tracker'[c].leases \subseteq tracker[c].leases
    BY <2>2, <2>3, ProcCall DEF TypeTracker
  <2>5. QED
    BY <1>1, <2>1, <2>4
<1>8. ASSUME reconcile_runtime_after_restart PROVE OwnRows'
  <2>1. tracker' = tracker /\ \A c \in Calls : call'[c].todo = {}
    BY <1>8 DEF reconcile_runtime_after_restart, Idle
  <2>2. QED
    BY <1>1, <2>1
<1>9. ASSUME UNCHANGED <<call, tracker>> PROVE OwnRows'
  BY <1>9, <1>1
<1>10. QED
  <2>1. CASE Engine
    <3>1. ASSUME NEW c \in Calls, start_guarded_tool_invocation(c) PROVE OwnRows'
      BY <3>1, <1>2 DEF start_guarded_tool_invocation, TypeCall
    <3>2. QED
      BY <2>1, <1>9, <3>1
      DEF Engine, RejectCall, commit_tool_result_facts,
          AdmissionEnds, close_tool_batch_for_runtime_failure, BatchCompletes, abort_tool_phase,
          DrainStreams, DrainEnds, abort_sub_agent_tool_invocations, ReadCleanup,
          commit_task_result, StartRefused, fail_tool_durability, Quarantine, executionVars
  <2>2. ASSUME NEW c \in Calls, Executor(c) PROVE OwnRows'
    <3>1. ASSUME admit_call(c) \/ AdmissionRejected(c) \/ SilentExit(c) \/ CancelNoticed(c) \/ TimesOut(c)
          PROVE  OwnRows'
      <4>1. tracker' = tracker
        BY <3>1 DEF admit_call, AdmissionRejected, SilentExit, CancelNoticed, TimesOut
      <4>2. \A d \in Calls : d # c => call'[d] = call[d]
        BY <3>1 DEF admit_call, AdmissionRejected, SilentExit, CancelNoticed, TimesOut, TypeCall
      <4>3. call'[c].todo = call[c].todo
        BY <3>1 DEF admit_call, AdmissionRejected, SilentExit, CancelNoticed, TimesOut, TypeCall
      <4>4. QED
        BY <4>1, <4>2, <4>3, <1>2
    <3>2. ASSUME WorkReturns(c) \/ Panic(c) \/ GraceDone(c) \/ ForceDone(c) PROVE OwnRows'
      BY <3>2, <1>3 DEF WorkReturns, Panic, GraceDone, ForceDone
    <3>3. QED
      BY <2>2, <3>1, <3>2, <1>4, <1>5 DEF Executor
  <2>3. ASSUME NEW p \in Procs, register_execution_resource(p) \/ Supervisor(p) \/ ProgramExits(p)
        PROVE  OwnRows'
    BY <2>3, <1>6, <1>7, <1>9 DEF ProgramExits, supUnchanged
  <2>4. CASE RecordStop \/ SignalStop \/ shutdown \/ reconcile_runtime_after_restart \/ UNCHANGED vars
    BY <2>4, <1>8, <1>9 DEF vars, RecordStop, SignalStop, shutdown, executionVars
  <2>5. QED
    BY <2>1, <2>2, <2>3, <2>4 DEF Next

(* StopDrains without its fairness, for any number of calls and programs: the   *)
(* ranks of a call's task and of a supervisor never rise, every fair step of    *)
(* theirs lowers one of them or the set of rows left to force, and a call that   *)
(* was cancelled stays so.                                                     *)
THEOREM DrainMovesOn == Spec => [][CallsMoveOn /\ SupsMoveOn /\ OwnStepsCount /\ StopStays]_vars
<1>1. IInv /\ [Next]_vars => [CallsMoveOn /\ SupsMoveOn /\ OwnStepsCount /\ StopStays]_vars
  BY CallsMove, SupsMove, OwnSteps, Stops DEF IInv, Types
<1>2. QED
  BY Inductive, <1>1, PTL DEF Spec

(* And nothing waits for what will not come: the task of a cancelled call is at   *)
(* a timer, or forces rows that are its own, and the one that has closed left no *)
(* supervisor waiting for it.                                                   *)
THEOREM DrainNeverWaits == Spec => []DrainGoesOn
<1>1. Init => OwnRows
  BY DEF Init, OwnRows, Idle, Fresh
<1>2. IInv /\ OwnRows /\ [Next]_vars => OwnRows'
  BY OwnRowsStep DEF IInv, Types
<1>3. IInv /\ OwnRows => DrainGoesOn
  <2> SUFFICES ASSUME IInv, OwnRows, NEW c \in Calls, call[c].pc # "none"
               PROVE  \/ call[c].pc \in {"waiting", "work", "grace"}
                      \/ /\ call[c].pc = "forcing"
                         /\ call[c].todo = {} \/ \E p \in ProcsOf(c) : p \in call[c].todo
                      \/ /\ call[c].pc = "closed"
                         /\ \A p \in ProcsOf(c) : sup[p] \notin {"registering", "registered"}
    BY DEF DrainGoesOn
  <2>1. call[c].pc \in CallPoints
    BY DEF IInv, Types, TypeCall
  <2>2. CASE call[c].pc = "forcing"
    BY <2>2 DEF OwnRows
  <2>3. CASE call[c].pc = "closed"
    BY <2>3, ProcCall DEF IInv, TrackerShape, Working
  <2>4. QED
    BY <2>1, <2>2, <2>3 DEF CallPoints
<1>4. QED
  BY Inductive, <1>1, <1>2, <1>3, PTL DEF Spec

(* Every variable of the batch keeps its type, and nothing exists of a program *)
(* that was never registered.                                                  *)
THEOREM TypeCorrect == Spec => []TypeOK
<1>1. IInv => TypeOK
  BY DEF IInv, Types, TypeRun, TypeInv, TypeRow, TypeCall, TypeTracker, TypeSup, SupShape, TypeOK
<1>2. QED
  BY Inductive, <1>1, PTL

(* Whatever fails, times out, panics or is restarted, a process at its gate or *)
(* past it has a row that is not released, and one past it is named by its row. *)
THEOREM ProgramsAreOwned == Spec => []AliveIsOwned
<1>1. IInv => AliveIsOwned
  BY DEF IInv
<1>2. QED
  BY Inductive, <1>1, PTL

(* A Finished event never reports clean while a program of its call lives.     *)
THEOREM ReportsCover == Spec => []ReportCoversPrograms
<1>1. IInv => ReportCoversPrograms
  BY DEF IInv, TrackerShape, ReportCoversPrograms, Alive, Clean
<1>2. QED
  BY Inductive, <1>1, PTL

(* A Run that was recorded clean runs no program, at that time or later, unless *)
(* close_tool_batch_for_runtime_failure abandoned calls it had spawned.        *)
THEOREM CleanIsQuiet == Spec => []CleanMeansQuiet
<1>1. IInv => CleanMeansQuiet
  BY DEF IInv, Quiet, CleanMeansQuiet, Clean
<1>2. QED
  BY Inductive, <1>1, PTL

(* The first terminal word of a row, an invocation and a Run stands, although  *)
(* the loop, the executor, the supervisors and the restart all write it.       *)
THEOREM OutcomesAreFinal == Spec => OutcomeFinal
<1>1. IInv /\ [Next]_vars =>
        [/\ \A p \in Procs : row[p].status \in {"released", "unconfirmed"} =>
              row'[p].status = row[p].status
         /\ \A c \in Calls : inv[c].status = "terminal" => inv'[c].status = "terminal"
         /\ recorded # "none" => recorded' = recorded]_vars
  <2> SUFFICES ASSUME IInv, [Next]_vars PROVE RowKept /\ InvKept /\ RecordKept
    BY DEF RowKept, InvKept, RecordKept
  <2>1. QED
    BY RowFinal, InvFinal, RecordFinal DEF IInv, Types
<1>2. QED
  BY Inductive, <1>1, PTL DEF Spec, OutcomeFinal

==================================================================================
