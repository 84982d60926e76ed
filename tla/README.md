# A TLA+ model of zkcode's runtime

zkcode is a coding agent server written in Rust.  A conversation is a *root Task*;
the model may delegate work to *child Tasks*; each Task is executed by a *Run* (an
attempt).  SQLite is the authority for all of them ("In-memory maps, cancellation
tokens, notifications ... may never answer a lifecycle query on their own",
`src/docs/task-runtime-v4.md`), and many tokio tasks work on the rows at the same time:
drivers, finalizers, resolvers, cancellation requests and their reapers, a shutdown, and
the next process after a crash.  Most of what can go wrong in this program goes wrong
there, so that is where this project starts.  Around the lifecycle it then follows what a
Run depends on: the budget it may spend, the questions it puts to its user, the tools and
programs it starts, and the events that show its user what happens.

Paths below are relative to `src/crates/` unless they begin with `frontend/`.

## 1. Inventory

| Component | State | Operations | Talks to | Hard behaviour | What makes it correct |
|---|---|---|---|---|---|
| Lifecycle store (`zk-db/src/task_runtime.rs`, `run.rs`) | `tasks` (status, version, current Run), `run_envelopes` (status, requested and final exit reason, epoch), `task_results`, receipts | create, claim, cancel, park, commit, quarantine, ingest | called by drivers, finalizers, resolvers, shutdown | two rows updated by separate statements, compare-and-swap on a version read earlier | one immutable result per Task; rows agree; nothing terminal changes |
| Task drivers (`zk-engine/src/task/runtime.rs`) | `active` map, permits, intake gate, parent resolvers | `submit_child`, `drive_task`, `claim_task`, `commit_outcome`, `reap_outcome_until_durable`, `resolve_parent`, shutdown | store, executor, fences | a read, an await, a write; retries; deadlines; stops that arrive in between | an owned child settles; the parent wakes exactly when its dependencies are consumed |
| Cancellation fences (`zk-engine/src/task/cancellation.rs`) | fence per Run, token per owner | install, inherit, reconcile, reap, `cancel_scoped` | drivers, store | failing database calls; map operations that race registration and release | a request is durable or reported; a fence is neither lost nor leaked |
| Root terminalization (`zk-engine/src/engine.rs`) | the turn loop's position | safe boundary, commit, quarantine | store, fences | finishing a turn while children are at work or a stop is on its way | the root succeeds only with every attached result consumed |
| Shutdown, restart, recovery (`zk-db/src/restart_reconciliation.rs`, `safe_recovery.rs`, `zk-server/src/main.rs`) | process phase, startup epoch | shutdown intent, drain, reconcile, recovery attempt | all of the above | late drivers during and after the sweep; database-wide sweeps that abort on a mismatch | no result is invented; no old executor works on a new attempt |
| Task inbox (`zk-db/src/task_inbox_consumer.rs`) | message status and target Run | enqueue, deliver, consume, reject | executors, commit, reconciliation | the target ends while the message is on its way | every message is consumed or rejected |
| Provider breaker (`zk-llm/src/breaker.rs`) | failure streak, degraded instant | `record_success`, `record_status` | every LLM call of the process | the mutex is dropped between verdict and update | window and streak agree |
| Task budgets (`zk-db/src/task_budget.rs`) | root counters, child allocations | reserve, settle, configure | create, commit | rounding, settlement after a partial failure | grants never exceed the pool; every reservation is settled once |
| Ledgers (`zk-db/src/runtime_ledger.rs`, `cleanup_reconciliation.rs`, `zk-engine/src/execution_resources.rs`) | invocations, resources, LLM calls | start, finish, cleanup | commit | calls without an end, cleanup without confirmation | success needs settled usage and confirmed cleanup |
| Tool executor and supervisors (`zk-tools/src/executor.rs`, `process.rs`, `tool.rs`) | a task per call, a tracker, a supervisor and a process group per program | admit, run, time out, cancel, force, gate, bind, kill, finalize | engine loop, ledgers | a call that gives up while its supervisor goes on writing; a process that outlives its server | nothing that runs is called clean; a cancelled call drains |
| Interactions (`zk-server/src/interaction/service.rs`) | requests, waiters, capacity | create, acknowledge, decide, expire, cancel | Run parking, WebSocket | a decision against an expiry, a missed wakeup | one terminal answer; the Run resumes; no slot leaks |
| Concurrency gates (`zk-engine/src/concurrency.rs`) | counters under one mutex | acquire, release | drivers | release on every path | limits hold, slots return |
| Routing, cooldown, keys (`zk-llm/src/registry.rs`, `model_cooldown.rs`, `secret.rs`) | cooldown map, key ring | choose, cool, rotate | adapters | stale choices | a key or model in cooldown is avoided |
| Workspace leases (`zk-tools/src/workspace_lease.rs`) | lease per root | shared, exclusive | tool executor | nested holders | writers exclude each other |
| WebSocket hub, outbox and client (`zk-server/src/ws`, `zk-db/src/run.rs`, `frontend/src/api/dispatch.ts`) | connections with binding and epoch, subscribers, pending cache, outbox rows; the client's binding, recovery queue and seen ids | push, deliver, bind, replay, disconnect, cleanup; bind, queue, restore | event log, every producer of events, the browser | events between snapshot and replay, dead sockets, full channels, a rebind under way | a client that is bound and idle shows every durable critical event of its session and none of another; no push waits for a browser |
| Session merge (`zk-db/src/session_merge*.rs`) | merge phase rows | seal, summarize, publish | store | crash between phases | a merge completes or leaves its sources as they were |
| Teams and cron (`zk-server/src/team_runtime.rs`, `cron_runtime.rs`) | queues, occurrences | claim, dispatch | task runtime | a claim repeated after restart | an occurrence runs once |

Tools, provider adapters, MCP, authorization, context compaction, hooks, plugins, skills,
the HTTP API, the wire types, artifacts, the health probe and the Python sidecar are I/O,
parsing, policy or projection code; `PROJECT.json` lists them with the reason why they
are left out.

## 2. Modules

| Module | Models |
|---|---|
| `TaskRuntime` | the durable lifecycle of a root Task and its children: store, drivers, finalizers, resolvers, inbox, shutdown, crash, restart, recovery |
| `TaskContract` | what that promises a caller, without rows, versions or processes |
| `MCTaskRuntime` | the symmetry of the children for model checking |
| `TaskRuntimeProofs`, `TaskHandoffProofs` | theorems about `TaskRuntime`, and that it implements `TaskContract` |
| `TaskBudget`, `MCTaskBudget`, `TaskBudgetProofs` | the token account of a root and its children, and the LLM calls charged to it |
| `Interaction`, `MCInteraction` | requests to the user, their capacity, delivery, races and waiters, and the Run they park |
| `InteractionContract` | what that promises tools and users, without permits, deliveries, deadlines or wakeups |
| `InteractionProofs` | theorems about `Interaction`, and that it implements `InteractionContract` |
| `ToolExecution`, `MCToolExecution`, `ToolExecutionProofs` | a batch of tool calls, its programs and its ledgers, to the Run's recorded cleanup |
| `EventDelivery`, `MCEventDelivery`, `EventDeliveryProofs` | the WebSocket hub, the bind handshake, the outbox replay and the client |
| `CancellationFence`, `CancellationFenceProofs` | how a stop reaches the owned executions although database calls may fail |
| `ProviderBreaker`, `ProviderBreakerProofs` | the circuit breaker, and its theorem |

### TaskRuntime

A writer transaction is one step, because SQLite serialises writers.  What the engine
holds between two transactions is in variables of its own, and a crash erases it:

* `drv[t]` is the driver's position: `queued` (attached, not claimed), `checked` (it has
  read the Task and its parent, and not claimed yet), `running` (user code), `stopping`
  (intent durable, cleanup awaited), `reap` (an outcome to publish), `commit` (version and
  cause read, commit not tried yet), `attention` (refused, to be quarantined);
* `own[t]`, `out[t]`, `ver[t]`, `req[t]` are its attempt, the executor's outcome, and the
  version and status of the write it is about to ask for;
* `submit[c]`: `submit_child` has committed the rows and has not installed the driver;
* `resolving[c]`: a resolver is delivering the child's result.

The rows are projected on their lifecycle columns.  Every action names the function it
models; the actions that stand for one function that reads, awaits and writes are the
reads and the writes of that function (`ClaimRead` / `claim_task_run` / `ClaimConflict`,
`CommitRead` / `commit_task_result` / `CommitConflict` / `CommitRefused`).  What the module
leaves out may still make the code refuse: tool post-processing, unsettled usage, a missing
final message, unconfirmed cleanup.  A `"refusal"` in `Disturbances` lets any claim or
commit be refused for such a reason.  `result_exit_reason` keeps the reasons that come
from a persisted cause and merges those derived from a result's error code into
`"result"`.  The wait for tools is one bit, `tool_open`.  The inbox is consumed in
batches of 100; with a handful of messages one batch is all of them.  Safe recovery is modelled as the code has it although `main` does not resume
automatically today; its callers would be an operator or a later release.

A cancellation request and its durable intent are one step in `TaskRuntime`.  That is not
how the code works when the database fails; `CancellationFence` takes this step apart.

### TaskContract

A Task is live until it is settled with one immutable outcome or quarantined.  A root may
delegate while it is live and not stopping, consumes each attached child's outcome once,
and succeeds only when it has consumed all of them and nobody stopped it.  Stopping is
permanent for an attempt.  `ImplementsContract` maps the rows on that state
(`INSTANCE TaskContract WITH ...`) and checks `Contract!Spec`.

### CancellationFence

One Run per Task, and every map operation and every database call a step of its own.  A
process that is inside `reconcile` (a request, a reaper, an owner) has a position `rec[p]`
and remembers the entry it loaded, `held[p]`, because entries are replaced: `gen[t]` counts
them, as the identity of the `Arc` does in the code.  `failures` bounds how many database
calls fail.  `install`, `inherit_and_signal`, `reconcile`, `start_reconciler`,
`stop_active`, `release_active` and `cancel_scoped` are the functions of the same names.
A read followed by its compare-and-swap is one step: the swap succeeds only if nothing
changed since the read.  `Reconcilers(t)` are the processes that may be inside `reconcile` for
the Run of `t`; `FenceIsReleased` asks that one of *them* is about to remove the entry.

### ProviderBreaker

`record_status_at` locks twice: `state_at` judges, the update follows.  `RecordStatus`
samples the clock, `JudgeHalfOpen` is the first critical section and `ApplyFailure` the
second.

### TaskBudget

Every action is one write transaction, since each of these functions is one: a grant
(`reserve_child_budget_in_current_write`), the start and the end of an LLM call with its
reserved and reported tokens, the settlement of a child in the four cases of
`settle_task_budget_in_current_write`, a change of the root's limit, the restart and a
recovery attempt.  A transaction that fails rolls back, so an error path is an action that
is not enabled; a lost compare-and-swap on the version changes nothing and is left out, as
are deadlines.  One finite dimension stands for tokens and cost, which the same statements
account.  `reported` and `breached` are history: what providers have said, and whether one
used more than was reserved for its call or a limit was lowered under a Run in flight.

### Interaction

The row of a request, and apart from it what the process holds: the permit of the capacity
semaphore, the waiter's position between its two reads and the registration of its wakeup
and the status it returns with (`caller`), the expiries that the sweeper or a waiter has read
as due and not written (`due`), and the `finish()` that whoever ended a request still owes
(`closer`).  `elsewhere` are the permits of other sessions.  A caller may be dropped while its
transaction runs (`detached`).

The store may fail, at most `MaxFaults` times.  A finisher is then lost (`FinisherLost`, also
for a dropped handler); a creation fails with nothing written (`CreateFails`), or with its row
committed, when the row cannot be read back or the answer of the commit is lost and the lookup
fails too (`CreatedUnread`); and a waiter returns with `INTERACTION_STORE_FAILED` from its first
read, from its second, from the loop or from its own expiry (`AwaitFails`, which also stands
for `INTERACTION_NOT_FOUND` and `INTERACTION_DEADLINE_MISSING`).  In the last two the caller
has left with its request open and no stop requested.  A waiter's own expiry is `ReadDue` and
`expire` by somebody.  A cancellation of interactions is refused when the Run has ended and its
Task has not (`CancellationInvalid`); the Task is not in this module, so the refusal is a free
choice for a Run that has ended.

A deadline is before, at or after its edge.  Not modelled: requests created by cron before the
capacity was reconciled, the clamping of deadlines to the Run's, entries of the wakeup map
nobody waits on, the read of the answer that follows an answered wait.

`InteractionContract` keeps the outcome of a request, the view its user has acknowledged, who
awaits it, what each asker was told, how often the store has failed, and whether an activity
works, waits or has stopped.  A status is told only when it is the outcome.  An asker leaves
without one when its activity was told to stop, or by a failure, which is counted and costs at
most one asker its answer; a failure changes no request's outcome and no activity, except that
the request of a creator that has left may be filed.
The mapping shows a generation once it is acknowledged only, counts a caller as waiting from
its first look at the row to its return, and takes a Run as told to stop from its termination
request on.

### ToolExecution

Four parties: the engine loop (that of a root or of a child), one executor task per call, a
supervisor per program, and the rows they all write.  A program's life is its registration,
its start behind a gate, the binding of its process id, the release of the gate, and its
watch or kill; the supervisor outlives the call's future, and the executor may force the
call's resources to unconfirmed meanwhile.  Waits for a slot or a workspace lease are of any
length.  Starting an invocation and spawning its task is one step (a call revoked in
between is `RejectCall`).  A failing write or kill is bounded by `MaxFaults`; a crash and the next start are one
step, which a process group may survive.  A process that leaves its group is not seen.
Operator reconciliation of retained resources is left out.

### EventDelivery

A critical section of one of the hub's locks and a database transaction are one step each.
A call of `deliver` has a position (`job`): it scans the subscribers, then reads each one's
binding, then sends, and the binding may change in between.  `handle_bind` has one too
(`handler`): snapshot, `WsHub::bind`, `session_restored`, the outbox query, one row after
the other, the pending cache.  The rows still to be replayed are a set, taken in the order of
their ids.  A channel is the connection's queue together with its socket.
The client (`frontend/src/api/dispatch.ts`) has its fence, its attempts with their numbers,
the queue of frames behind an awaited snapshot and the set of events it has seen; its view
is the set of events it shows.  A new socket replaces the old one in one step, and the
server notices the broken one later.  A snapshot is taken to show every durable event
committed before it.  The events in hand belong to one root Run: the outbox query is limited
to the latest one (section 5).  The registry's TTL is taken to strike while a handler waits
for the database or for a send.  Left out: event listeners, outbox retention
(`RUNTIME_CURSOR_EXPIRED` cannot arise, since what is pruned is older than the snapshot's
mark), protocol checks, and the frames that bypass the queue (interactions).

## 3. Runs

| Run | Instance | Checks | Result |
|---|---|---|---|
| `breaker` | 2 callers, threshold 3, window 2, clock to 5 | `DegradedIffStreak` | holds |
| `delegation` | 2 children, a user's cancellation | `AwakeParentConsumed`, `ParentWakes` | holds |
| `restart` | 1 child, 1 message, 2 attempts, 2 process starts, a user's cancellation, every disturbance | `TypeOK`, `ResultMatchesTerminal`, `PairAgreement`, `OwnerIsCurrent`, `CauseWins`, `InboxClosed`, `NeverReawakened`, `TerminalImmutable`, `ImplementsContract` | holds |
| `progress` | 1 child, all outcomes but cancelled, both causes, interaction, refusal, shutdown | `OwnedChildSettles` | holds |
| `cancellation` | 1 child, 1 request, 1 failing call | `ReceiptIsDurable`, `FenceIsReleased`, `IntentBecomesDurable`, `AttachedChildrenEnd` | holds |
| `budget` | 2 children, 3 calls, limits 4 and 11, amounts 1 and 2, usages 0, 1, 3 | `TypeOK`, `AccountWithinLimit`, `ParentReserveKept`, `ReservedIsHeld`, `ChargedExactlyOnce`, `NoOverspend`, `ReservationFinal` | holds |
| `interaction` | 1 Run, a permission and a question, 2 callers, capacity 2 with no or both permits held elsewhere, 2 deliveries, 1 failure of the store, 1 expiry read and not yet written | `CapacityAccounted`, `WaiterSeesOutcome`, `NoLostWakeup`, `RunningHasNoPending`, `WaitingHasReason`, `ImplementsContract` | holds |
| `tool_execution` | a call with a program and one without, every disturbance, 1 fault | `AliveIsOwned`, `CleanMeansQuiet`, `ReportCoversPrograms`, `OutcomeFinal`, `StopDrains` | holds |
| `event_delivery` | 2 sessions, 2 connections, 1 cached event and 1 more, 2 bind attempts, channel, cache and queue of 1 | `NothingMissed`, `NoForeignEvent`, `ViewKept`, `PendingBounded`, `NeverBlocks` | holds |
| `shutdown_race` | 1 child, a shutdown | `ShutdownOwnsInterruption` | **violated** |
| `stop_in_submit` | 1 child, a cancellation | `StoppedChildSettles` | **violated** |
| `abandoned_batch` | as `tool_execution`, a usage failure only | `StoppedWithRun` | **violated** |

Deadlock is checked for the breaker only.  The other systems may stop: every Task may have
ended, every request been answered, every socket been used, and nothing new begins in the
model.

**Bounds.**  Two children are what it takes for two resolvers to compete for the last
dependency; a third would repeat the second, since children interact only through the root
and `Unresolved` quantifies over them.  Two attempts and two process starts are what it
takes for an old executor to meet a recovered attempt; recovery never touches an attempt
before the last.  One message is enough because messages of one Run do not interact.
`MaxEntries = 3` guards `install` and cuts nothing off on this instance: without the guard no
Run is given a fourth fence either.  Two failing calls, and two concurrent requests without failing
calls, satisfy its safety properties too (7.1 million states).  The breaker's clock runs to
5, long enough for two windows.

The limits 4 and 11 are not multiples of 5, so that a fifth rounds both ways; two children and
three calls let a child and the root have calls in flight while a second child asks for a
grant. Two callers and two requests of one Run are what it takes for one answer to come while
another is open; with capacity 2 and both permits held elsewhere at first the capacity is
exhausted too (a refused creation has the effect of a termination request, so one permit
elsewhere adds nothing; the theorems hold for any number). One failure of the store is enough
for each of its kinds to meet every other step, but not for two in a row, as when a waiter
writes its own expiry and cannot read it back, which loses the finisher and the waiter and
counts as two (checked apart, 2.9 million states). One expiry read and not yet written
(`MaxDue`) still races with the acknowledgement, the answer, the cancellation and the restart,
and expiries of two requests follow each other in either order. One program per call is enough
for all that goes on between a call, its supervisor and the restart; a second program was
checked apart (3.2 million states, safety only) and is the subject of an observation below.
With a queue, a channel and a cache of one, each of them is full in some behaviours. Two bind
attempts and two connections let an old connection's handler and deliveries overlap a new
one's. The same instance with events of every kind, critical or not, durable or not, has 8.9
million states and satisfies the same properties, as does one session with two further events
(15.7 million). The type invariants of `CancellationFence`, `Interaction`, `ToolExecution`,
`EventDelivery` and `ProviderBreaker` hold on these instances as well.

**Fairness.**  In `TaskRuntime` weak fairness is assumed of what runs by itself: a child's
driver and finalizer (an owned tokio task with an absolute deadline, and a commit that
`reap_outcome_until_durable` retries without a limit), a resolver (an unbounded retry), the
cancellation cascade (retried by its reconciler), tools (bounded by their timeouts), the
root's terminalization once it has begun, and a shutdown once it has begun.  Nothing is
assumed of the root's own executor, of the user, of a restart or of an interaction's answer.
In `CancellationFence` the only assumption is that the tokio scheduler runs *some* runnable
task while there is one.  User code counts as runnable only after its token was signalled,
and `StopActive` only when the parent has durably stopped: a deadline may be far away.
In `ToolExecution` weak fairness is assumed of an executor task after a cancellation and of
every supervisor, because each of their waits has a timer; that a tool returns or a program
exits by itself is not assumed.  `NeverBlocks` needs no fairness: it says that a push or a bind handler in
progress always has a step of its own to take, whatever the client does.

## 4. Properties and the code they are about

* `ResultMatchesTerminal`, `PairAgreement`: the commit, cancellation, quarantine, shutdown
  and reconciliation paths each update two rows with separate statements, and race.
  `PairAgreement` is also what `request_runtime_shutdown` and
  `reconcile_runtime_after_restart` rely on: both abort on any mismatch, the second at
  every later start.
* `OwnerIsCurrent`: no driver survives into the attempt that recovery creates.  The epoch
  comparison in `safe_recovery.rs` is what excludes it, the shutdown reconciles rows while
  late drivers are at work.
* `CauseWins`: whichever future is polled first, a success is not published over a
  cancellation or a deadline that was durable first.  The version that `commit_outcome`
  reads *before* the cause is what guarantees it.
* `NeverReawakened`, `TerminalImmutable`: what a step may never do.
* `AwakeParentConsumed`: a root that runs or has succeeded has every attached child's
  result exactly once, over two children that may settle, be cancelled or be created later.
* `InboxClosed`: four paths end a Run and three of them close its inbox.  The fourth,
  `persist_commit_failure_as_needs_attention`, does not; the property excepts a child that
  ended through it, whose messages stay open until the next start closes them.
* `OwnedChildSettles`, `ParentWakes`: no interleaving strands an owned child, and no
  interleaving loses the wakeup.  `ParentWakes` excepts a child that is quarantined (the
  parent then waits for the user, as documented) and one that never had a driver (below).
* `ReceiptIsDurable`, `FenceIsReleased`, `IntentBecomesDurable`, `AttachedChildrenEnd`: a
  request that reports success is durable for all it listed; a reconciled fence is not
  left to nobody; an intent whose write failed becomes durable; children end with
  their root.
* `AccountWithinLimit`, `ParentReserveKept`, `ReservedIsHeld`: grants, settlements, overruns,
  restarts and limit changes come from different tasks, and two roundings go in opposite
  directions; the account stays below its limit, the children below four fifths of it, and
  what is held back is exactly the grants that were not released.
* `ChargedExactlyOnce`, `NoOverspend`, `ReservationFinal`: a call may report after a restart,
  or never; what was reported is charged once over all attempts, a released grant is not
  reopened, and the tree fits in the limit unless a provider broke its reservation.
* `CapacityAccounted`: five different tasks take and return permits.  The equation names
  every holder, and the one excess the code really has (below).
* `WaiterSeesOutcome`, `NoLostWakeup`: decision, expiry and cancellation race for one step
  out of pending; the waiter reads, registers, reads again and parks.
* `RunningHasNoPending`, `WaitingHasReason`: the Run is parked exactly while it has a reason.
* `ImplementsContract` of `Interaction`: answer, expiry, withdrawal, stop and restart, each a
  chain of steps in a different task, come down to one outcome; views are delivered again under
  new generations, but an acknowledged one stands, and a permission is answered on such a view;
  a waiter comes back with the outcome, with its stopped Run, or with an error that one failure
  of the store accounts for: a waiter that gives up on its timer breaks this.  The contract also
  lets a request end as undeliverable only if nobody acknowledged it and as expired only if
  somebody did, although what the sweeper has read is stale when it writes.
* `AliveIsOwned`, `CleanMeansQuiet`, `ReportCoversPrograms`, `OutcomeFinal`: whoever gives up
  on whom, a running program has a row that names it, and neither a call's report, nor the
  Run's cleanup status, nor the restart calls it clean.  `CleanMeansQuiet` excepts the batch
  that was abandoned (finding 3).
* `StopDrains`: a cancelled call and its supervisors come to an end although a tool ignores
  its token and a program its signals.
* `NothingMissed`: an event reaches the client by the snapshot, by live delivery, from the
  outbox or from the cache, and each of the four has a gap.  Once the client is bound by
  its last attempt and nothing is on its way, it shows all durable critical events.  Excepted
  is a replay that a full channel or a failed query cut short, which the code logs and leaves.
* `NoForeignEvent`: `deliver` does not ask what a subscriber has been bound to since its scan;
  only the client's fence keeps the frame out.
* `ViewKept`: the client replaces its whole view by the snapshot it receives.  Binds are
  repeated, time out, and cross each other's answers; yet no durable event that was shown
  disappears by it, because what arrives while a snapshot is awaited is queued behind it.
* `PendingBounded`, `NeverBlocks`: the cache keeps both limits, and `push` keeps its promise
  never to block its caller ("永不阻塞", `zk-server/src/ws/hub.rs:640`).
* `DegradedIffStreak`: the breaker never has a window without a full streak, nor the
  reverse, which would keep it from ever degrading again.

Every property has a faulty variant of the definition it guards (comments begin with
"Faulty"), and TLC finds the property violated when that variant is used.

## 5. Findings

1. **A finalizer quarantines a Run that the shutdown owns** (`shutdown_race`).
   `commit_task_result_inner` refuses such a Run and says that only reconciliation may
   interrupt it.  A child's `commit_outcome` turns the refusal into a permanent failure and
   `persist_commit_failure_as_needs_attention` interrupts the Run with `internalError`.
   The work is as safe as before, but `create_safe_recovery_attempt` requires
   `serviceRestart`, so the Task cannot be recovered any more.
2. **A stop inside `submit_child` leaves a ghost** (`stop_in_submit`).  Between the
   transaction that creates the rows and the installation of the driver the child can be
   cancelled.  `submit_child` then finds a Run that is not queued and installs nobody; the
   child stays in `cancelling` until the next start, and an attached parent waits for it.
3. **A batch is abandoned while its tools run** (`abandoned_batch`).  The loop spawns each
   call as soon as its start is recorded.  If the start of a later call reports incomplete
   usage, `close_tool_batch_for_runtime_failure` seals the spawned calls too and the Run
   ends, but nothing cancels its token.  The comment says that the failure "wins before
   physical execution".  The restart or a later program may then find the Run recorded clean.

Observations without a run:

* Task runtime.  `orphan_active_runs` (`zk-db/src/runtime_health.rs`) pairs a Run in
  `waitingInteraction` with a Task in `waitingInteraction`, a status nothing writes to a
  Task, so a Run that waits for its user is counted.
* Cancellation.  A child that registers and is admitted between the snapshot of `active` and
  the parent's fence is found through `list_owned` only; if that and the parent's write fail,
  it runs unsignalled until the reaper succeeds and `wait_for_parent_stop` sees it.  The open fence
  of a child that has already ended is not removed if the subtree list fails right after it
  was installed.
* Breaker.  A success between the two critical sections closes the breaker; the failure that
  was judged half-open before it degrades the provider at once instead of counting one.
* Interactions.  AskUserQuestion drops the creating future when its call is cancelled: the
  permit returns at once while the transaction, on a blocking thread, still commits a pending
  request, and a second permit returns when that request ends (`unbacked` in
  `CapacityAccounted`).  More than `MAX_WAITING` requests can then be pending, although the
  constant is documented as their upper bound (`interaction/service.rs:75`).  A waiter whose read
  fails returns an error to its tool (documented at `service.rs:1368-1369`), and so does a creator
  that cannot read its committed row back: the request stays open and the Run parked until the
  user answers, which resumes it, or a deadline stops it.  The pending requests of a quarantined
  Run, whose Task has not ended, are refused by `complete_runtime_cancellation` and stay open
  until their deadlines or a restart.
* Tools.  `fail_tool_durability` keeps an uncommitted invocation open so that "startup
  reconciliation can then prove" what happened, but the quarantine ends the Run and
  reconciliation only looks at active Runs, so it stays open.  A root's quarantine cancels its
  token, a child's does not.  A tool that runs two programs can start the second after its
  abandoned Run was recorded confirmed.  After a failed kill a lease is released while the
  program is alive, its row unconfirmed.
* Events.  While a bind attempt is awaited, frames of the current binding are fenced off;
  when the attempt fails, the client goes back to that binding without them ("当前会话未受影响",
  the current session is not affected, says `dispatch.ts` of a failed bind).  `NothingMissed`
  is stated for a client whose last attempt succeeded.  The answer that rejects a bind to
  another session is attributed to the old binding, so the fence drops it and the client
  waits for its timer.  The outbox query is limited to the latest root Run: an event of the
  previous one that was committed between snapshot and query, with a new Run started in
  between, is replayed by nobody.  Cached events older than the snapshot are applied after it
  if the client has not seen them, although the replay is limited so as to prevent "duplicate state
  application" (`inbound.rs:865`).  A degraded connection is not told to bind again, and a
  send that times out late degrades the next binding of its connection.

## 6. Proofs

Every invariant and every action property that a run checks is a theorem, with the one
exception of `NeverBlocks`, and so are both refinements.  The theorems hold for any sets of
children, messages, calls, requests, programs, sessions and connections, and for any limits,
amounts and bounds.  They assume what the modules' `ASSUME`s say of their constants: that the
kinds of ids are told apart, that bounds are numbers, that the initial choices come from the
right sets, and that the children and calls of `TaskBudget`, the requests and callers of
`Interaction` and the calls of `ToolExecution` are finitely many.

Each proof module has one invariant `IInv`, the three facts that make it inductive
(`InitInv`, `InvStep` and the temporal step), one lemma for every conjunct of it, and in each
lemma one step per action that touches the conjunct's variables.  None of the properties is
inductive alone; what has to be added is what the code relies on without saying so.

* `ProviderBreakerProofs`.  `DegradedIffStreak` is inductive together with the types; a
  half-open verdict needs no condition, since applying it sets both sides.
* `TaskRuntimeProofs`: `OneMatchingResult`, `RowsAgree`, `OwnersAreCurrent`, `CausesWin`,
  `EndedRunsAnswer`, `TerminalForGood`, `StoppedForGood`.
  - a commit writes `TaskTarget(req)` for the Run its driver owns, so `OwnerIsCurrent` must
    hold, and a driver's position must restrict `out` and `req` (`DriverShape`) and what a
    pending submission may have (`SubmitShape`);
  - a driver stays current only because recovery is excluded while it lives: every driver's
    Run belongs to the current epoch (`EpochOwnership`), and recovery requires an earlier
    one;
  - `CauseWins` needs to know at commit time what was true when the cause was read: while
    the version is unchanged, a pending success faces no user's cancellation or deadline
    (`PendingSuccess`);
  - that an exit reason is replaced only by the restart's needs to know which reasons a Run
    that has not ended may carry (`CauseShape`).
* `TaskHandoffProofs`: `AwakeMeansConsumed` and `RuntimeImplementsContract`.  The invariant
  `Handoff` says that a resolver exists only for a settled attached child, that a child
  is received at most once, that no child exists before the root, and that a root whose
  executor returned success had consumed every attached child (so that a child created
  later cannot slip under the commit).  Under it and `IInv` the initial state is one of
  `TaskContract`, and each action of `TaskRuntime` is a named step of it or leaves the mapped
  state as it is; there is one step of the proof per action.
* `TaskBudgetProofs`: `WithinLimit`, `ReserveKept`, `HeldExactly`, `ChargedOnce`,
  `NeverOverspent`, `ReservationsAreFinal`.  The sums over children and calls are
  counted as the units their rows hold, so that no induction is needed.  `LedgerShape` says
  what a Task that is not working has on its books, `Spending` what the account knows while
  nobody spent more than was reserved.
* `InteractionProofs`: `PermitsAccounted`, `WaitersAgree`, `WakeupsArrive`, `RunningIsFree`,
  `WaitingIsJustified`, `ExpiriesMatch`, `ViewStands`.`RowShape` says that whatever owes,
  has lost or never had a permit belongs to a request that has got that far, `CallerShape`
  that a receiver exists only between a registration and a return, which hands out the status of
  an ended request or none.
  `ServiceImplementsContract` is the refinement of `InteractionContract`: the initial states map
  to its initial state, and there is one step of the proof per action of the service, which is a
  named step of the contract or leaves the mapped state as it is (a registration, a delivery, a
  read of the sweeper).  A caller is told what the row says because its channel holds that
  (`WaiterSeesOutcome`).  `Grounded` says what the mapped state needs besides `IInv`, and
  `DroppedByStop` that a transaction whose caller was dropped belongs to a Run told to stop.
* `ToolExecutionProofs`: `ProgramsAreOwned`, `ReportsCover`, `CleanIsQuiet`,
  `OutcomesAreFinal`.  What a Run records at its end was found earlier, when the loop looked at
  its calls.  That it is still true needs to know what a supervisor's place says of its process
  and row (`SupShape`), that what is supervised is tracked by its call (`TrackerShape`,
  `CallShape`), when the loop may leave its batch (`BatchOver`), and that from the clean
  reading on no program is at its gate or past it (`Quiet`).
  Two more theorems hold what `StopDrains` rests on besides fairness.  `DrainMovesOn`: a call's
  task and a supervisor have ranks that no step of anybody raises; every step that fairness is
  assumed of lowers the rank of its actor, or takes a row from the set that is left to force; a
  stop is never withdrawn.  `DrainNeverWaits`: the task of a cancelled call is at a timer or
  forces rows, all of them its own (`OwnRows`), and once it has closed no supervisor waits for
  its future.
* `CancellationFenceProofs`: `ReceiptsAreDurable`, `FencesAreReleased`, `StoppedStays`.  The
  targets that a request has visited stay stopped (`Covered`); a reconcile that returns without
  writing found an entry that others had made durable (`FenceShape`); those others may be
  anywhere between their write and the removal of the entry (`ReconcileShape`); and a request
  stops only Tasks that exist (`RowShape`, `ScopeShape`).
* `EventDeliveryProofs`: `NoEventIsLost`, `EventsStayHome`, `ViewsAreKept`, `CacheStaysSmall`.
  `NothingMissed` speaks of a client with nothing under way; `Kept` says where each event that
  it is owed is meanwhile: in a push, in the channel, still in the replay, in the snapshot to
  come, or in the client's hands.  That a step only moves an event from one place to another
  rests on the order of the bind attempts on a connection (`EpochOrder`), on the attempt being
  for the session that was asked for (`SameSession`), on the snapshot being sent after the
  binding (`SnapshotOrder`), and on what the client drops as already seen being in its view or
  in the snapshot (`SeenShows`).  `ViewsAreKept` follows from the same conjuncts: the snapshot
  that is applied holds all that is seen and shown of its session.  `StepsAreFound` says that a
  handler in progress finds what its next step picks: a full cache has a queue that
  gives way, an attempt under way is not older than the binding, a replay has a first row.
  `EventsStayHome` needs that the queued events are of the
  awaited session (`ClientShape`), `CacheStaysSmall` that the cache is finite, which no
  assumption on `Sessions` says.  TLC has checked this invariant on the instance of
  `event_delivery`.

The proofs have changed the models where these said too little: `install` is guarded by
`MaxEntries`, `FenceIsReleased` names who removes the entry and not just anybody who
reconciles, there is an event at the start of `EventDelivery` and so `MaxEvents` is not 0.

Left to TLC: the liveness properties (`ParentWakes`, `OwnedChildSettles`,
`IntentBecomesDurable`, `AttachedChildrenEnd`, `StopDrains`), because fairness is out of the
prover's reach; `NeverBlocks`, because it is stated with `ENABLED`; and the three findings,
which are counterexamples.  Of `StopDrains` and `NeverBlocks` the parts that are no liveness are
theorems (`DrainMovesOn`, `DrainNeverWaits`, `StepsAreFound`); what is missing is that the guards
they name enable the steps, and the rule that a fair, enabled step is taken.

## 7. What is not modelled, and the plan

Left out of the modules above: result content; concurrency permits; terminal hooks;
background shell workers registered as external Tasks; grandchildren (the code treats a child
that delegates as it treats a root, one level at a time; the shutdown and restart sweeps do
not look at depth); run tool scopes and operator reconciliation of retained resources.
The time to live of a hub connection strikes in the bind handler only, not in the other
handlers of the read loop, and the two locks that `WsHub::bind` takes in turn are one step.
`TaskRuntime` still takes a refused commit as a free choice (`"refusal"`), whose causes are in
`TaskBudget` and `ToolExecution`; each of the modules has its own projection of the restart.

The rest of the repository is not modelled: provider adapters, tools, MCP, authorization,
context compaction, hooks, plugins, skills, the HTTP API and the interface are I/O, parsing,
policy and presentation, which make up most of its lines.  `PROJECT.json` says so part by
part.

Next, in this order:

1. Ranks for the other two liveness arguments, as in `DrainMovesOn`: a child's driver and
   finalizer under `OwnedChildSettles`, the tasks of `CancellationFence` under
   `IntentBecomesDurable` and `AttachedChildrenEnd`.
2. Action properties that the invariants above already contain: a bind epoch never goes back
   on a connection, a fence entry is replaced only after its removal.
3. Smaller protocols: concurrency gates, model cooldown and key ring, workspace leases,
   session merge, cron occurrence claims, the MCP manager's reconnects.
