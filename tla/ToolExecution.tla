----------------------------- MODULE ToolExecution -----------------------------
(***************************************************************************)
(* One batch of tool calls of a Run, from the durable start of each call   *)
(* to the Run's recorded cleanup status.  Four parties work on it:         *)
(*                                                                         *)
(*   - the engine loop (zk-engine/src/engine.rs) admits the calls, commits *)
(*     their results and ends the Run; the loops of a root and of a child  *)
(*     Task differ in how they abort;                                      *)
(*   - the executor (zk-tools/src/executor.rs) owns one task per call;     *)
(*   - a supervisor per program (zk-tools/src/process.rs) owns the process *)
(*     group behind its start gate and outlives the call's future;         *)
(*   - the ledgers (zk-db) hold the invocation and resource rows that the  *)
(*     three others write at their own pace.                               *)
(*                                                                         *)
(* A process is its process group: what leaves the group is not seen.      *)
(***************************************************************************)
EXTENDS Integers, FiniteSets

CONSTANTS
    Calls,         \* the calls of the batch
    Programs,      \* how many programs the tool of each call runs, in turn
    MaxPrograms,   \* the most any of them runs
    Disturbances,  \* what may happen: "usage", "shutdown", "crash"
    MaxFaults      \* bound on failing database writes and kills

ASSUME ToolAssumption ==
    /\ IsFiniteSet(Calls)
    /\ MaxPrograms \in Nat
    /\ Programs \in [Calls -> 0 .. MaxPrograms]
    /\ Disturbances \subseteq {"usage", "shutdown", "crash"}
    /\ MaxFaults \in Nat

Procs == {p \in Calls \X (1 .. MaxPrograms) : p[2] <= Programs[p[1]]}
ProcsOf(c) == {p \in Procs : p[1] = c}

VARIABLES
    kind,      \* whose loop drives the Run: "root" or "child"
    run,       \* run_envelopes.status: "active", "stopping" or "ended"
    recorded,  \* run_envelopes.cleanup_status of an ended Run
    inv,       \* call -> its tool_invocations row
    row,       \* program -> its execution_resources row
    engine,    \* where the engine loop is
    found,     \* the cleanup status the loop has read for its commit
    drained,   \* the child's loop has seen every call's stream end
    abandoned, \* history: spawned calls were left running by the end of the batch
    cancel,    \* the Run's cancellation token
    stopped,   \* calls whose own token was cancelled
    intake,    \* the owner registry accepts new executions
    call,      \* call -> its executor task
    tracker,   \* call -> its ExecutionResourceTracker
    sup,       \* program -> where its supervisor is
    phys,      \* program -> what the operating system runs for it
    faults

runVars    == <<kind, run, recorded>>
ledgerVars == <<inv, row>>
engineVars == <<engine, found, drained, abandoned>>
tokenVars  == <<cancel, stopped, intake>>
supVars    == <<sup, phys>>
executionVars == <<tokenVars, call, tracker, supVars, faults>>
vars == <<runVars, ledgerVars, engineVars, executionVars>>

--------------------------------------------------------------------------------
Cleanup == {"notRequired", "pending", "confirmed", "unconfirmed"}
CallPoints == {"none", "waiting", "work", "grace", "forcing", "closed"}
SupPoints == {"none", "registering", "lost", "registered", "owned", "spawned", "bound",
              "passed", "watch", "kill", "unbound", "release", "unconfirm", "done"}

Idle == [pc |-> "none", reply |-> FALSE, todo |-> {}, told |-> "none"]
Fresh == [leases |-> {}, unconfirmed |-> {}, saw |-> FALSE]

Open(c) == inv[c].status \in {"preparing", "running"}
Cancelled(c) == cancel \/ c \in stopped

\* the tool's future is polled
Working(c) == call[c].pc \in {"work", "grace"}

\* the future awaits no program
Resting(c) == \A p \in ProcsOf(c) : sup[p] \in {"none", "done", "lost"}

Fault == faults < MaxFaults /\ faults' = faults + 1

Init ==
    /\ kind \in {"root", "child"}
    /\ run = "active"
    /\ recorded = "none"
    /\ inv = [c \in Calls |-> [status |-> "preparing", cleanup |-> "notRequired"]]
    /\ row = [p \in Procs |-> [status |-> "absent", bound |-> FALSE]]
    /\ engine = "admit"
    /\ found = "none"
    /\ drained = FALSE
    /\ abandoned = FALSE
    /\ cancel = FALSE
    /\ stopped = {}
    /\ intake = TRUE
    /\ call = [c \in Calls |-> Idle]
    /\ tracker = [c \in Calls |-> Fresh]
    /\ sup = [p \in Procs |-> "none"]
    /\ phys = [p \in Procs |-> "none"]
    /\ faults = 0

--------------------------------------------------------------------------------
(* The ledgers.                                                             *)

RowsIn(rows, S) == {p \in Procs : rows[p].status \in S}

\* Faulty: the status of a Run is read from its invocations alone.
InvocationsOnly(invs, rows) ==
    LET Has(s) == \E c \in Calls : invs[c].cleanup = s IN
    IF Has("unconfirmed") THEN "unconfirmed"
    ELSE IF Has("pending") \/ \E c \in Calls : invs[c].status \in {"preparing", "running"}
         THEN "pending"
    ELSE IF Has("confirmed") THEN "confirmed" ELSE "notRequired"

\* The worst cleanup state of the Run's invocations and resources.
run_cleanup_status(invs, rows) ==
    LET Has(s) == \E c \in Calls : invs[c].cleanup = s IN
    IF Has("unconfirmed") \/ RowsIn(rows, {"unconfirmed"}) # {} THEN "unconfirmed"
    ELSE IF \/ Has("pending") \/ RowsIn(rows, {"allocated"}) # {}
            \/ \E c \in Calls : invs[c].status \in {"preparing", "running"}
         THEN "pending"
    ELSE IF Has("confirmed") \/ RowsIn(rows, {"released"}) # {} THEN "confirmed"
    ELSE "notRequired"

\* The cleanup column of an invocation, refreshed from its resources.
Projected(c, rows) ==
    LET Own(s) == \E p \in ProcsOf(c) : rows[p].status = s IN
    IF Own("unconfirmed") THEN "unconfirmed"
    ELSE IF Own("allocated") THEN "pending"
    ELSE IF Own("released") THEN "confirmed"
    ELSE inv[c].cleanup

\* Faulty: the later terminal status wins.
FinalizeOverwrites(p, target) ==
    /\ row' = [row EXCEPT ![p].status = target]
    /\ inv' = [inv EXCEPT ![p[1]].cleanup = Projected(p[1], row')]

\* finalize_execution_resource: the first terminal status of a resource stays.
finalize_execution_resource(p, target) ==
    IF row[p].status \in {"allocated", target}
    THEN /\ row' = [row EXCEPT ![p].status = target]
         /\ inv' = [inv EXCEPT ![p[1]].cleanup = Projected(p[1], row')]
    ELSE UNCHANGED ledgerVars

\* commit_tool_invocation_result: result message and terminal status together.
Sealed(c, cleanup) == [inv[c] EXCEPT !.status = "terminal", !.cleanup = cleanup]

--------------------------------------------------------------------------------
(* The engine loop.                                                         *)

\* The CAS that enters physical execution asks for the current, unstopped Run.
start_guarded_tool_invocation(c) ==
    /\ engine = "admit"
    /\ inv[c].status = "preparing"
    /\ run = "active"
    /\ inv' = [inv EXCEPT ![c] = [status |-> "running", cleanup |-> "pending"]]
    /\ call' = [call EXCEPT ![c].pc = IF intake THEN "waiting" ELSE "closed"]
    /\ UNCHANGED <<runVars, row, engineVars, tokenVars, tracker, supVars, faults>>

\* Denied, refused, unknown or revoked: a failed result before any execution.
RejectCall(c) ==
    /\ engine = "admit"
    /\ inv[c].status = "preparing"
    /\ inv' = [inv EXCEPT ![c] = Sealed(c, "notRequired")]
    /\ UNCHANGED <<runVars, row, engineVars, executionVars>>

AdmissionEnds ==
    /\ engine = "admit"
    /\ \A c \in Calls : inv[c].status # "preparing"
    /\ engine' = "events"
    /\ UNCHANGED <<runVars, ledgerVars, found, drained, abandoned, executionVars>>

\* What an aborted call is sealed with; a call that never started had no effect.
Unsealed(c) == IF inv[c].status = "preparing" THEN "notRequired" ELSE "unconfirmed"

\* The usage of the tree turned out incomplete while the batch was admitted:
\* every call that has no result gets a failed one and the Run ends.  The calls
\* that were spawned before are neither drained nor cancelled.
close_tool_batch_for_runtime_failure ==
    /\ "usage" \in Disturbances
    /\ engine = "admit"
    /\ \E c \in Calls : inv[c].status = "preparing"
    /\ inv' = [c \in Calls |-> IF Open(c) THEN Sealed(c, Unsealed(c)) ELSE inv[c]]
    /\ engine' = "closing"
    /\ abandoned' = (\E c \in Calls : call[c].pc \notin {"none", "closed"})
    /\ UNCHANGED <<runVars, row, found, drained, executionVars>>

\* A Finished event is committed with the cleanup status it carries.
commit_tool_result_facts(c) ==
    /\ engine = "events"
    /\ ~cancel
    /\ call[c].told # "none"
    /\ Open(c)
    /\ inv' = [inv EXCEPT ![c] = Sealed(c, call[c].told)]
    /\ UNCHANGED <<runVars, row, engineVars, executionVars>>

BatchCompletes ==
    /\ engine = "events"
    /\ \A c \in Calls : ~Open(c)
    /\ engine' = "ending"
    /\ UNCHANGED <<runVars, ledgerVars, found, drained, abandoned, executionVars>>

\* every stream has ended, one without its result
StreamsEnd ==
    /\ \A c \in Calls : Open(c) => call[c].pc = "closed" /\ call[c].told = "none"
    /\ \E c \in Calls : Open(c)

\* abort_tool_phase, on cancellation or when a stream ends early: the root does
\* not wait for its executions.
abort_tool_phase ==
    /\ kind = "root"
    /\ engine = "events"
    /\ cancel \/ StreamsEnd
    /\ inv' = [c \in Calls |-> IF Open(c) THEN Sealed(c, Unsealed(c)) ELSE inv[c]]
    /\ engine' = "ending"
    /\ UNCHANGED <<runVars, row, found, drained, abandoned, executionVars>>

\* The child drains the streams, for six seconds at most, dropping what they
\* still deliver.
DrainStreams ==
    /\ kind = "child"
    /\ engine = "events"
    /\ cancel \/ StreamsEnd
    /\ engine' = "drain"
    /\ UNCHANGED <<runVars, ledgerVars, found, drained, abandoned, executionVars>>

DrainEnds ==
    /\ engine = "drain"
    /\ engine' = "abort"
    /\ drained' = (\A c \in Calls : call[c].pc \in {"none", "closed"})
    /\ UNCHANGED <<runVars, ledgerVars, found, abandoned, executionVars>>

\* invocation_resources_released: there are resources and all are released.
ResourcesReleased(c) ==
    LET own == {p \in ProcsOf(c) : row[p].status # "absent"} IN
    own # {} /\ \A p \in own : row[p].status = "released"

abort_sub_agent_tool_invocations ==
    /\ engine = "abort"
    /\ inv' = [c \in Calls |->
                 IF ~Open(c) THEN inv[c]
                 ELSE Sealed(c, IF drained /\ ResourcesReleased(c) THEN "confirmed"
                                ELSE Unsealed(c))]
    /\ engine' = "ending"
    /\ UNCHANGED <<runVars, row, found, drained, abandoned, executionVars>>

\* The finalizer reads the ledgers once; what is pending counts as unconfirmed.
ReadCleanup ==
    /\ engine \in {"ending", "closing"}
    /\ LET status == run_cleanup_status(inv, row) IN
       found' = IF status = "pending" THEN "unconfirmed" ELSE status
    /\ engine' = "commit"
    /\ UNCHANGED <<runVars, ledgerVars, drained, abandoned, executionVars>>

commit_task_result ==
    /\ engine = "commit"
    /\ run' = "ended"
    /\ recorded' = found
    /\ engine' = "gone"
    /\ UNCHANGED <<kind, ledgerVars, found, drained, abandoned, executionVars>>

Quarantine ==
    /\ run' = "ended"
    /\ recorded' = "unconfirmed"
    /\ engine' = "gone"
    /\ cancel' = (cancel \/ kind = "root")
    /\ UNCHANGED <<kind, ledgerVars, found, drained, abandoned, stopped, intake, call,
                   tracker, supVars>>

\* A stop was recorded before the start of a call: the refused CAS counts as a
\* failure of the ledger.
StartRefused ==
    /\ engine = "admit"
    /\ run = "stopping"
    /\ \E c \in Calls : inv[c].status = "preparing"
    /\ Quarantine
    /\ UNCHANGED faults

\* A write of the loop fails: open invocations stay open.
fail_tool_durability ==
    /\ engine \in {"admit", "events", "abort"}
    /\ Fault
    /\ Quarantine

\* The durable stop and the token are set by others, in either order.
RecordStop ==
    /\ run = "active"
    /\ run' = "stopping"
    /\ UNCHANGED <<kind, recorded, ledgerVars, engineVars, executionVars>>

SignalStop ==
    /\ ~cancel
    /\ engine # "gone"
    /\ cancel' = TRUE
    /\ UNCHANGED <<runVars, ledgerVars, engineVars, stopped, intake, call, tracker, supVars,
                   faults>>

\* close_intake, then the token of every owned execution.
shutdown ==
    /\ "shutdown" \in Disturbances
    /\ intake
    /\ intake' = FALSE
    /\ stopped' = {c \in Calls : call[c].pc # "none"}
    /\ UNCHANGED <<runVars, ledgerVars, engineVars, cancel, call, tracker, supVars, faults>>

--------------------------------------------------------------------------------
(* The executor: one task per call.                                         *)

TrackerStatus(t) ==
    IF t.unconfirmed # {} THEN "unconfirmed"
    ELSE IF t.leases # {} THEN "pending"
    ELSE IF t.saw THEN "confirmed" ELSE "notRequired"

\* complete(p, confirmed)
Completed(t, p, confirmed) ==
    [t EXCEPT !.leases = @ \ {p},
              !.unconfirmed = IF confirmed THEN @ \ {p} ELSE @ \cup {p}]

executorUnchanged == <<runVars, row, inv, engineVars, cancel, intake>>

\* The call has its execution slot and, if it writes, its workspace lease; how long
\* it waits for them is left open.
admit_call(c) ==
    /\ call[c].pc = "waiting"
    /\ ~Cancelled(c)
    /\ call' = [call EXCEPT ![c].pc = "work"]
    /\ UNCHANGED <<executorUnchanged, stopped, tracker, supVars, faults>>

\* The safety guard or the workspace root refuses the call.
AdmissionRejected(c) ==
    /\ call[c].pc = "waiting"
    /\ call' = [call EXCEPT ![c].pc = "closed", ![c].told = "notRequired"]
    /\ UNCHANGED <<executorUnchanged, stopped, tracker, supVars, faults>>

SilentExit(c) ==
    /\ call[c].pc = "waiting"
    /\ Cancelled(c)
    /\ call' = [call EXCEPT ![c].pc = "closed"]
    /\ UNCHANGED <<executorUnchanged, stopped, tracker, supVars, faults>>

\* Faulty: a call that delivers a result reports a clean one.
CloseReportsClean(c, reply) ==
    call' = [call EXCEPT ![c].pc = "closed",
                         ![c].told = CASE ~reply -> "none"
                                       [] reply /\ tracker[c].saw -> "confirmed"
                                       [] OTHER -> "notRequired"]

\* The call's task ends; Finished carries what the tracker says then.
Close(c, reply) ==
    call' = [call EXCEPT ![c].pc = "closed",
                         ![c].told = IF reply THEN TrackerStatus(tracker[c]) ELSE "none"]

WorkReturns(c) ==
    /\ call[c].pc = "work"
    /\ ~Cancelled(c)
    /\ Resting(c)
    /\ Close(c, TRUE)
    /\ UNCHANGED <<executorUnchanged, stopped, tracker, supVars, faults>>

\* What a dropped future leaves of its supervisors: a registration in flight still
\* commits; one that has committed is never handed to an owner.
Orphaned(c) ==
    [p \in Procs |-> IF p[1] # c THEN sup[p]
                     ELSE CASE sup[p] = "registering" -> "lost"
                            [] sup[p] = "registered" -> "done"
                            [] OTHER -> sup[p]]

\* execute_catching_panic: the call's token is cancelled, its supervisors go on.
Panic(c) ==
    /\ Working(c)
    /\ stopped' = stopped \cup {c}
    /\ sup' = Orphaned(c)
    /\ Close(c, call[c].pc = "work" \/ call[c].reply)
    /\ UNCHANGED <<executorUnchanged, tracker, phys, faults>>

\* The future is kept for TOOL_CLEANUP_GRACE.
CancelNoticed(c) ==
    /\ call[c].pc = "work"
    /\ Cancelled(c)
    /\ call' = [call EXCEPT ![c].pc = "grace", ![c].reply = FALSE]
    /\ UNCHANGED <<executorUnchanged, stopped, tracker, supVars, faults>>

\* The deadline passes or the tool's binding is revoked.
TimesOut(c) ==
    /\ call[c].pc = "work"
    /\ stopped' = stopped \cup {c}
    /\ call' = [call EXCEPT ![c].pc = "grace", ![c].reply = TRUE]
    /\ UNCHANGED <<executorUnchanged, tracker, supVars, faults>>

GraceDone(c) ==
    /\ call[c].pc = "grace"
    /\ Resting(c)
    /\ Close(c, call[c].reply)
    /\ UNCHANGED <<executorUnchanged, stopped, tracker, supVars, faults>>

\* force_unconfirmed_execution_resources: the leases first, then row by row.
GraceOver(c) ==
    /\ call[c].pc = "grace"
    /\ call' = [call EXCEPT ![c].pc = "forcing", ![c].todo = tracker[c].leases]
    /\ tracker' = [tracker EXCEPT ![c].leases = {},
                                  ![c].unconfirmed = @ \cup tracker[c].leases]
    /\ sup' = Orphaned(c)
    /\ UNCHANGED <<executorUnchanged, stopped, phys, faults>>

ForceWrite(c, p) ==
    /\ call[c].pc = "forcing"
    /\ p \in call[c].todo
    /\ call' = [call EXCEPT ![c].todo = @ \ {p}]
    /\ \/ finalize_execution_resource(p, "unconfirmed") /\ UNCHANGED faults
       \/ UNCHANGED ledgerVars /\ Fault
    /\ UNCHANGED <<runVars, engineVars, tokenVars, tracker, supVars>>

ForceDone(c) ==
    /\ call[c].pc = "forcing"
    /\ call[c].todo = {}
    /\ Close(c, call[c].reply)
    /\ UNCHANGED <<executorUnchanged, stopped, tracker, supVars, faults>>

--------------------------------------------------------------------------------
(* The supervisor of a program.                                             *)

supUnchanged == <<runVars, engineVars, tokenVars, call>>
At(p, point) == sup[p] = point
Goes(p, point) == sup' = [sup EXCEPT ![p] = point]

\* The tool runs its next program: the lease is tracked before the row is written.
register_execution_resource(p) ==
    /\ Working(p[1])
    /\ Resting(p[1])
    /\ At(p, "none")
    /\ \A q \in ProcsOf(p[1]) : q[2] < p[2] => ~At(q, "none")
    /\ intake
    /\ tracker' = [tracker EXCEPT ![p[1]].leases = @ \cup {p}, ![p[1]].saw = TRUE]
    /\ Goes(p, "registering")
    /\ UNCHANGED <<supUnchanged, ledgerVars, phys, faults>>

RegisterCommits(p) ==
    /\ At(p, "registering") \/ At(p, "lost")
    /\ row' = [row EXCEPT ![p].status = "allocated"]
    /\ Goes(p, IF At(p, "lost") THEN "done" ELSE "registered")
    /\ UNCHANGED <<supUnchanged, inv, tracker, phys, faults>>

RegisterFails(p) ==
    /\ At(p, "registering") \/ At(p, "lost")
    /\ Fault
    /\ Goes(p, "done")
    /\ tracker' = IF At(p, "lost") THEN tracker
                  ELSE [tracker EXCEPT ![p[1]] = Completed(@, p, FALSE)]
    /\ UNCHANGED <<supUnchanged, ledgerVars, phys>>

\* spawn_owned, refused once the intake is closed.
spawn_owned(p) ==
    /\ At(p, "registered")
    /\ Working(p[1])
    /\ IF intake
       THEN Goes(p, "owned") /\ UNCHANGED <<ledgerVars, tracker>>
       ELSE /\ Goes(p, "done")
            /\ tracker' = [tracker EXCEPT ![p[1]] = Completed(@, p, FALSE)]
            /\ finalize_execution_resource(p, "unconfirmed")
    /\ UNCHANGED <<supUnchanged, phys, faults>>

\* The process exists and waits at its gate, or could not be created.
spawn(p) ==
    /\ At(p, "owned")
    /\ \/ phys' = [phys EXCEPT ![p] = "gate"] /\ Goes(p, "spawned")
       \/ UNCHANGED phys /\ Goes(p, "release")
    /\ UNCHANGED <<supUnchanged, ledgerVars, tracker, faults>>

\* Faulty: the program is let through without asking for the row.
BindIgnored(p) ==
    /\ At(p, "spawned")
    /\ Goes(p, "bound")
    /\ UNCHANGED <<supUnchanged, ledgerVars, tracker, phys, faults>>

bind_execution_resource_external(p) ==
    /\ At(p, "spawned")
    /\ \/ /\ row[p].status = "allocated"
          /\ row' = [row EXCEPT ![p].bound = TRUE]
          /\ Goes(p, "bound")
          /\ UNCHANGED faults
       \/ row[p].status # "allocated" /\ Goes(p, "unbound") /\ UNCHANGED <<row, faults>>
       \/ Goes(p, "unbound") /\ UNCHANGED row /\ Fault
    /\ UNCHANGED <<supUnchanged, inv, tracker, phys>>

CheckCancel(p) ==
    /\ At(p, "bound")
    /\ Goes(p, IF Cancelled(p[1]) THEN "watch" ELSE "passed")
    /\ UNCHANGED <<supUnchanged, ledgerVars, tracker, phys, faults>>

release_gate(p) ==
    /\ At(p, "passed")
    /\ \/ phys' = [phys EXCEPT ![p] = "program"] /\ Goes(p, "watch")
       \/ UNCHANGED phys /\ Goes(p, "kill")
    /\ UNCHANGED <<supUnchanged, ledgerVars, tracker, faults>>

\* The program runs on its own.
ProgramExits(p) ==
    /\ phys[p] = "program"
    /\ phys' = [phys EXCEPT ![p] = "gone"]
    /\ UNCHANGED <<supUnchanged, ledgerVars, tracker, sup, faults>>

\* Faulty: only the program's end wakes the supervisor.
WatchExitOnly(p) ==
    /\ At(p, "watch")
    /\ phys[p] = "gone"
    /\ Goes(p, "kill")
    /\ UNCHANGED <<supUnchanged, ledgerVars, tracker, phys, faults>>

\* The cancellation, the program's end or its timeout wakes the supervisor.
Watch(p) ==
    /\ At(p, "watch")
    /\ Goes(p, "kill")
    /\ UNCHANGED <<supUnchanged, ledgerVars, tracker, phys, faults>>

\* terminate: the whole group is gone, or was still seen after SIGKILL.
terminate(p) ==
    /\ At(p, "kill")
    /\ \/ phys' = [phys EXCEPT ![p] = "gone"] /\ Goes(p, "release") /\ UNCHANGED faults
       \/ UNCHANGED phys /\ Goes(p, "unconfirm") /\ Fault
    /\ UNCHANGED <<supUnchanged, ledgerVars, tracker>>

\* A process without its row is killed and stays unconfirmed either way.
TerminateUnbound(p) ==
    /\ At(p, "unbound")
    /\ Goes(p, "unconfirm")
    /\ \/ phys' = [phys EXCEPT ![p] = "gone"] /\ UNCHANGED faults
       \/ UNCHANGED phys /\ Fault
    /\ UNCHANGED <<supUnchanged, ledgerVars, tracker>>

\* finish_execution_resource(Released): what the ledger refuses or fails to write is
\* written as unconfirmed.
FinishReleased(p) ==
    /\ At(p, "release")
    /\ Goes(p, "done")
    /\ \/ /\ finalize_execution_resource(p, "released")
          /\ tracker' = [tracker EXCEPT ![p[1]] =
                            Completed(@, p, row[p].status # "unconfirmed")]
          /\ UNCHANGED faults
       \/ /\ Fault
          /\ finalize_execution_resource(p, "unconfirmed") \/ UNCHANGED ledgerVars
          /\ tracker' = [tracker EXCEPT ![p[1]] = Completed(@, p, FALSE)]
    /\ UNCHANGED <<supUnchanged, phys>>

FinishUnconfirmed(p) ==
    /\ At(p, "unconfirm")
    /\ Goes(p, "done")
    /\ \/ finalize_execution_resource(p, "unconfirmed") /\ UNCHANGED faults
       \/ UNCHANGED ledgerVars /\ Fault
    /\ tracker' = [tracker EXCEPT ![p[1]] = Completed(@, p, FALSE)]
    /\ UNCHANGED <<supUnchanged, phys>>

--------------------------------------------------------------------------------
(* The process dies and the next one reconciles the ledgers.                *)

\* Programs outlive the process; a gate reads the end of its input and exits.
Survives(p) == IF phys[p] = "gate" THEN "gone" ELSE phys[p]

ReconciledRows ==
    [p \in Procs |-> [row[p] EXCEPT !.status = IF @ = "allocated" THEN "unconfirmed" ELSE @]]

\* Without a resource, a started write is unconfirmed and a read needs nothing.
Interrupted(c, rows, readers) ==
    LET Own(s) == \E p \in ProcsOf(c) : rows[p].status = s IN
    IF Own("unconfirmed") THEN "unconfirmed"
    ELSE IF Own("released") THEN "confirmed"
    ELSE IF inv[c].status = "running" /\ c \notin readers THEN "unconfirmed"
    ELSE "notRequired"

Unsettled(c, rows) ==
    LET Own(s) == \E p \in ProcsOf(c) : rows[p].status = s IN
    IF Own("released") /\ ~Own("unconfirmed") THEN "confirmed" ELSE "unconfirmed"

ReconciledInvocations(rows, readers) ==
    [c \in Calls |-> IF Open(c) THEN Sealed(c, Interrupted(c, rows, readers))
                     ELSE IF inv[c].cleanup = "pending" THEN Sealed(c, Unsettled(c, rows))
                     ELSE inv[c]]

\* Faulty: the reconciliation trusts a row that no process was bound to.
ReconcileForgetsRows ==
    /\ "crash" \in Disturbances
    /\ engine # "down"
    /\ engine' = "down"
    /\ IF run = "ended" THEN UNCHANGED <<run, recorded, ledgerVars>>
       ELSE /\ UNCHANGED row
            /\ \E readers \in SUBSET Calls : inv' = ReconciledInvocations(row, readers)
            /\ recorded' = InvocationsOnly(inv', row)
            /\ run' = "ended"
    /\ intake' = FALSE
    /\ call' = [c \in Calls |-> [Idle EXCEPT !.pc = "closed"]]
    /\ sup' = [p \in Procs |-> "done"]
    /\ phys' = [p \in Procs |-> Survives(p)]
    /\ UNCHANGED <<kind, found, drained, abandoned, cancel, stopped, tracker, faults>>

\* Only Runs that had not ended are reconciled.  readers are the calls whose
\* side_effect_class is "read": fixed when they started, it matters only here.
reconcile_runtime_after_restart ==
    /\ "crash" \in Disturbances
    /\ engine # "down"
    /\ engine' = "down"
    /\ IF run = "ended" THEN UNCHANGED <<run, recorded, ledgerVars>>
       ELSE /\ row' = ReconciledRows
            /\ \E readers \in SUBSET Calls :
                  inv' = ReconciledInvocations(ReconciledRows, readers)
            /\ recorded' = run_cleanup_status(inv', row')
            /\ run' = "ended"
    /\ intake' = FALSE
    /\ call' = [c \in Calls |-> [Idle EXCEPT !.pc = "closed"]]
    /\ sup' = [p \in Procs |-> "done"]
    /\ phys' = [p \in Procs |-> Survives(p)]
    /\ UNCHANGED <<kind, found, drained, abandoned, cancel, stopped, tracker, faults>>

--------------------------------------------------------------------------------
Engine ==
    \/ \E c \in Calls : \/ start_guarded_tool_invocation(c) \/ RejectCall(c)
                        \/ commit_tool_result_facts(c)
    \/ AdmissionEnds \/ close_tool_batch_for_runtime_failure \/ BatchCompletes
    \/ abort_tool_phase \/ DrainStreams \/ DrainEnds \/ abort_sub_agent_tool_invocations
    \/ ReadCleanup \/ commit_task_result \/ StartRefused \/ fail_tool_durability

Executor(c) ==
    \/ admit_call(c) \/ AdmissionRejected(c) \/ SilentExit(c) \/ WorkReturns(c) \/ Panic(c)
    \/ CancelNoticed(c) \/ TimesOut(c) \/ GraceDone(c) \/ GraceOver(c)
    \/ \E p \in ProcsOf(c) : ForceWrite(c, p)
    \/ ForceDone(c)

Supervisor(p) ==
    \/ RegisterCommits(p) \/ RegisterFails(p) \/ spawn_owned(p) \/ spawn(p)
    \/ bind_execution_resource_external(p) \/ CheckCancel(p) \/ release_gate(p)
    \/ Watch(p) \/ terminate(p) \/ TerminateUnbound(p) \/ FinishReleased(p)
    \/ FinishUnconfirmed(p)

Next ==
    \/ Engine
    \/ RecordStop \/ SignalStop \/ shutdown
    \/ \E c \in Calls : Executor(c)
    \/ \E p \in Procs : register_execution_resource(p) \/ Supervisor(p) \/ ProgramExits(p)
    \/ reconcile_runtime_after_restart

Spec == Init /\ [][Next]_vars

\* The tasks of the runtime are polled and every wait of theirs has a timer.  That a
\* tool's future ever returns, or that a program ever exits by itself, is not assumed.
ExecutorProgress(c) ==
    \/ SilentExit(c) \/ CancelNoticed(c) \/ GraceOver(c)
    \/ \E p \in ProcsOf(c) : ForceWrite(c, p)
    \/ ForceDone(c)

FairSpec ==
    /\ Spec
    /\ \A c \in Calls : WF_vars(ExecutorProgress(c))
    /\ \A p \in Procs : WF_vars(Supervisor(p))

--------------------------------------------------------------------------------
(* Properties.                                                              *)

\* Every variable has its type, and a program that was never registered has
\* neither a row nor a process.
TypeOK ==
    /\ kind \in {"root", "child"}
    /\ run \in {"active", "stopping", "ended"}
    /\ recorded \in {"none"} \cup (Cleanup \ {"pending"})
    /\ inv \in [Calls -> [status : {"preparing", "running", "terminal"}, cleanup : Cleanup]]
    /\ row \in [Procs -> [status : {"absent", "allocated", "released", "unconfirmed"},
                          bound : BOOLEAN]]
    /\ engine \in {"admit", "events", "drain", "abort", "closing", "ending", "commit",
                   "gone", "down"}
    /\ found \in {"none"} \cup (Cleanup \ {"pending"})
    /\ drained \in BOOLEAN /\ abandoned \in BOOLEAN
    /\ cancel \in BOOLEAN /\ intake \in BOOLEAN
    /\ stopped \subseteq Calls
    /\ call \in [Calls -> [pc : CallPoints, reply : BOOLEAN, todo : SUBSET Procs,
                           told : {"none"} \cup Cleanup]]
    /\ tracker \in [Calls -> [leases : SUBSET Procs, unconfirmed : SUBSET Procs,
                              saw : BOOLEAN]]
    /\ sup \in [Procs -> SupPoints]
    /\ phys \in [Procs -> {"none", "gate", "program", "gone"}]
    /\ faults \in 0 .. MaxFaults
    /\ \A p \in Procs : sup[p] = "none" => row[p].status = "absent" /\ phys[p] = "none"

\* supervise_program lets a program past its gate only after its process id was
\* written to an allocated row: whatever fails later, a program that runs has a row
\* that names it and that no one has marked released.
AliveIsOwned ==
    \A p \in Procs :
        /\ phys[p] \in {"gate", "program"} => row[p].status \in {"allocated", "unconfirmed"}
        /\ phys[p] = "program" => row[p].bound

\* A Run that was recorded clean, by its own loop or by the restart, has no program
\* still running, unless its loop left the spawned calls of the batch to themselves.
CleanMeansQuiet ==
    recorded \in {"notRequired", "confirmed"} /\ ~abandoned =>
        \A p \in Procs : phys[p] # "program"

\* The status a Finished event carries covers the programs of the call: while one of
\* them runs, or waits at its gate, no call has told its engine that cleanup is
\* confirmed or was not needed.
ReportCoversPrograms ==
    \A p \in Procs : phys[p] \in {"gate", "program"} =>
        call[p[1]].told \notin {"confirmed", "notRequired"}

\* The first terminal word stands: a released row is never degraded, an unconfirmed
\* one never promoted, a terminal invocation never reopened and the cleanup status
\* of an ended Run never rewritten.
OutcomeFinal ==
    [][/\ \A p \in Procs : row[p].status \in {"released", "unconfirmed"} =>
            row'[p].status = row[p].status
       /\ \A c \in Calls : inv[c].status = "terminal" => inv'[c].status = "terminal"
       /\ recorded # "none" => recorded' = recorded]_vars

\* Once a call is cancelled, its executor task and its supervisors come to an end,
\* whatever its tool does, within the grace periods.
StopDrains ==
    \A c \in Calls :
        (Cancelled(c) /\ call[c].pc # "none") ~>
            (call[c].pc = "closed" /\ \A p \in ProcsOf(c) : sup[p] \in {"none", "done"})

\* What the comment on close_tool_batch_for_runtime_failure says: the failure "wins
\* before physical execution", so the Run it ends leaves no call that still waits or
\* works without having been told to stop.
StoppedWithRun ==
    run = "ended" /\ abandoned =>
        \A c \in Calls : call[c].pc \in {"waiting", "work"} => Cancelled(c)

================================================================================
