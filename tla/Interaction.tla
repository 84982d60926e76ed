------------------------------ MODULE Interaction ------------------------------
(***************************************************************************)
(* Durable user interactions: permission requests and questions that a Run *)
(* puts to the user (zk-server/src/interaction, ws/delivery.rs,            *)
(* run_termination.rs).                                                    *)
(*                                                                         *)
(* The row of a request lives in SQLite; its capacity permit, its wakeup   *)
(* channel and its waiters live in the process.  A request is delivered    *)
(* under a generation number, must be acknowledged inside a delivery       *)
(* window and decided inside a decision window; decision, expiry and       *)
(* cancellation race for the single step out of "pending", and whoever     *)
(* wins still has to return the permit, wake the waiters and resume or     *)
(* stop the Run.                                                           *)
(***************************************************************************)
EXTENDS Integers, FiniteSets

CONSTANTS
    Runs,           \* Runs that ask
    Ids,            \* requests, by correlation key (one row per key)
    RunOf,          \* the Run a request belongs to
    KindOf,         \* "permission" or "elicitation"
    Decisions,      \* the user terminal statuses a client sends
    Callers,        \* tool calls and authorizations that ask and wait
    Capacity,       \* MAX_WAITING
    Elsewhere,      \* how many permits other sessions may hold at first
    MaxGeneration,  \* bound on deliveries of one request
    MaxDue,         \* bound on expiries read and not yet written, at one time
    MaxFaults       \* bound on failures of the store and on finishers dropped

ASSUME InteractionConstants ==
    /\ IsFiniteSet(Ids) /\ Ids # {}
    /\ IsFiniteSet(Callers)
    /\ \A i \in Ids : RunOf[i] \in Runs
    /\ \A i \in Ids : KindOf[i] \in {"permission", "elicitation"}
    /\ Decisions \subseteq {"answered", "denied", "cancelled"}
    /\ Capacity \in Nat
    /\ MaxGeneration \in Nat
    /\ MaxDue \in Nat
    /\ MaxFaults \in Nat

ASSUME ElsewhereAssumption == Elsewhere \subseteq 0 .. Capacity

VARIABLES
    run,         \* run_envelopes.status of each Run
    status,      \* interaction_requests.status, "absent" before the insert
    received,    \* received_at is set: the decision window is open
    generation,  \* delivery_generation (= dispatch_attempts)
    clock,       \* now against the deadline of a pending row, else "open"
    permits,     \* available permits of the capacity semaphore
    caller,      \* program point, request and receiver of each caller: what its
                 \* channel holds while it waits, what it was told once done
    due,         \* expiries somebody has read as due and not yet written
    closer,      \* who owes the request its finish(), "none" otherwise
    elsewhere,   \* permits held by requests of other sessions
    term,        \* RunTerminationCoordinator: stage of the Run's termination
    detached,    \* create transactions whose caller was dropped
    unbacked,    \* rows inserted by such a transaction: no permit behind them
    leaked,      \* terminal rows whose finish() never ran: permit not returned
    faults       \* failures so far

rowVars  == <<status, received, generation, clock>>
histVars == <<elsewhere, unbacked, leaked, faults>>
vars == <<run, rowVars, permits, caller, due, closer, term, detached, histVars>>

--------------------------------------------------------------------------------
RunStatus == {"absent", "running", "waitingInteraction", "cancelling", "terminal"}
UserTerminal == {"answered", "denied", "cancelled"}
Expiries  == {"undeliverable", "expired"}
Terminal  == UserTerminal \cup Expiries
Closers   == {"none", "decide", "expire", "cancel"}
Points    == {"idle", "creating", "await", "checked", "registered", "parked", "done"}
Receivers == {"none", "waiting", "closed"} \cup Terminal

Pending    == {i \in Ids : status[i] = "pending"}
PendingOf(r) == {i \in Pending : RunOf[i] = r}

\* deadline <= now, as both the sweeper's query and the expiry's UPDATE test it
DeadlineReached(i) == clock[i] \in {"edge", "past"}

\* delivery_window_ends_at > now on an unacknowledged pending row
Deliverable(i) == status[i] = "pending" /\ ~received[i] /\ clock[i] = "open"

CallersOf(i) == {w \in Callers : caller[w].id = i}

At(w, pc) == caller[w].pc = pc
Goes(w, pc) == caller' = [caller EXCEPT ![w].pc = pc]
NoCaller == [pc |-> "idle", id |-> CHOOSE i \in Ids : TRUE, rx |-> "none"]
Done == [NoCaller EXCEPT !.pc = "done"]
Stopped == {"cancelling", "terminal"}

\* whoever asked is handed the status s the request has ended with ...
Tells(w, s) == caller' = [caller EXCEPT ![w] = [pc |-> "done", id |-> @.id, rx |-> s]]

\* ... or gets an error or is dropped, and learns nothing
Returns(w) == caller' = [caller EXCEPT ![w] = Done]

\* one more failure of the store
Fails == faults < MaxFaults /\ faults' = faults + 1

\* The Run's status after one of its requests is inserted: already waiting is
\* accepted, running becomes waiting, everything else is refused.
ensure_run_waiting(r) ==
    /\ run[r] \in {"running", "waitingInteraction"}
    /\ run' = [run EXCEPT ![r] = "waitingInteraction"]

\* terminations.request: stop the Run's local execution, then cancel it.  A
\* second request for the same Run joins the one under way.
Requested(r) == [term EXCEPT ![r] = IF @ = "none" THEN "signalled" ELSE @]

Init ==
    /\ run = [r \in Runs |-> "absent"]
    /\ status = [i \in Ids |-> "absent"]
    /\ received = [i \in Ids |-> FALSE]
    /\ generation = [i \in Ids |-> 0]
    /\ clock = [i \in Ids |-> "open"]
    /\ elsewhere \in Elsewhere
    /\ permits = Capacity - elsewhere
    /\ caller = [w \in Callers |-> NoCaller]
    /\ due = {}
    /\ closer = [i \in Ids |-> "none"]
    /\ term = [r \in Runs |-> "none"]
    /\ detached = {}
    /\ unbacked = {}
    /\ leaked = {}
    /\ faults = 0

--------------------------------------------------------------------------------
(* create_internal: permit first, then one transaction.                     *)

\* try_acquire_owned succeeds: the permit is held while the insert is queued.
AcquirePermit(w, i) ==
    /\ At(w, "idle")
    /\ run[RunOf[i]] # "absent"
    /\ permits > 0
    /\ permits' = permits - 1
    /\ caller' = [caller EXCEPT ![w].pc = "creating", ![w].id = i]
    /\ UNCHANGED <<run, rowVars, due, closer, term, detached, histVars>>

\* No permit left: the Run is asked to stop and the call fails.
CapacityExceeded(w, i) ==
    /\ At(w, "idle")
    /\ run[RunOf[i]] # "absent"
    /\ permits = 0
    /\ term' = Requested(RunOf[i])
    /\ UNCHANGED <<run, rowVars, permits, caller, due, closer, detached, histVars>>

Insert(i) ==
    /\ status[i] = "absent"
    /\ ensure_run_waiting(RunOf[i])
    /\ status' = [status EXCEPT ![i] = "pending"]
    /\ UNCHANGED <<received, generation, clock>>

\* The row is inserted and read back; the permit is forgotten, that is, it now
\* belongs to the row and only finish() gives it back.
CreateCommits(w) ==
    /\ At(w, "creating")
    /\ Insert(caller[w].id)
    /\ Goes(w, "await")
    /\ UNCHANGED <<permits, due, closer, term, detached, histVars>>

\* INTERACTION_CORRELATION_EXISTS: the permit goes back and the caller joins the
\* request another caller created under the same key.
CreateJoins(w) ==
    /\ At(w, "creating")
    /\ status[caller[w].id] # "absent"
    /\ permits' = permits + 1
    /\ Goes(w, "await")
    /\ UNCHANGED <<run, rowVars, due, closer, term, detached, histVars>>

\* Faulty: the refused create forgets its permit.
RefusedForgetsPermit(w) ==
    /\ At(w, "creating")
    /\ status[caller[w].id] = "absent"
    /\ run[RunOf[caller[w].id]] \in Stopped
    /\ Returns(w)
    /\ UNCHANGED <<run, rowVars, permits, due, closer, term, detached, histVars>>

\* INTERACTION_RUN_NOT_RUNNING
CreateRefused(w) ==
    /\ At(w, "creating")
    /\ status[caller[w].id] = "absent"
    /\ run[RunOf[caller[w].id]] \in Stopped
    /\ permits' = permits + 1
    /\ Returns(w)
    /\ UNCHANGED <<run, rowVars, due, closer, term, detached, histVars>>

\* INTERACTION_STORE_FAILED with the row committed: either the read of
\* finish_created_interaction fails, or the commit's answer is lost and the
\* lookup by correlation key fails too, which drops the permit under the row.
\* The creator gets an error, the user is asked nevertheless.
CreatedUnread(w) ==
    LET i == caller[w].id IN
    /\ At(w, "creating")
    /\ Fails
    /\ Insert(i)
    /\ \/ UNCHANGED <<permits, unbacked>>
       \/ permits' = permits + 1 /\ unbacked' = unbacked \cup {i}
    /\ Returns(w)
    /\ UNCHANGED <<due, closer, term, detached, elsewhere, leaked>>

\* INTERACTION_STORE_FAILED with nothing written by this call
CreateFails(w) ==
    /\ At(w, "creating")
    /\ Fails
    /\ permits' = permits + 1
    /\ Returns(w)
    /\ UNCHANGED <<run, rowVars, due, closer, term, detached, elsewhere, unbacked, leaked>>

\* The caller's future is dropped by its cancelled tool context.  A create
\* transaction already handed to the blocking pool runs on, while the owned
\* permit is dropped, that is, returned.
DropCaller(w) ==
    LET i == caller[w].id IN
    /\ caller[w].pc \notin {"idle", "done"}
    /\ term[RunOf[i]] # "none" \/ run[RunOf[i]] \in Stopped
    /\ IF At(w, "creating")
       THEN permits' = permits + 1 /\ detached' = detached \cup {i}
       ELSE UNCHANGED <<permits, detached>>
    /\ Returns(w)
    /\ UNCHANGED <<run, rowVars, due, closer, term, histVars>>

DetachedCreate(i) ==
    /\ i \in detached
    /\ detached' = detached \ {i}
    /\ \/ Insert(i) /\ unbacked' = unbacked \cup {i}
       \/ /\ status[i] # "absent" \/ run[RunOf[i]] \in Stopped
          /\ UNCHANGED <<run, rowVars, unbacked>>
    /\ UNCHANGED <<permits, caller, due, closer, term, elsewhere, leaked, faults>>

--------------------------------------------------------------------------------
(* Delivery.  Every push of a view carries the generation it was claimed    *)
(* under, so a client can later acknowledge any generation up to the        *)
(* current one, in any order and more than once.                            *)

Delivered(i) ==
    /\ Deliverable(i)
    /\ generation[i] < MaxGeneration
    /\ generation' = [generation EXCEPT ![i] = @ + 1]
    /\ UNCHANGED <<run, status, received, clock, permits, caller, due, closer, term,
                   detached, histVars>>

\* first delivery, of the view published when the row is created
mark_dispatched(i) == Delivered(i)

\* a compare-and-set on dispatch_attempts in 1..3, driven by a 250 ms scan
claim_redelivery(i) == generation[i] \in 1 .. 3 /\ Delivered(i)

\* a client (re)binds its session: every pending request is delivered again
prepare_recovery_delivery(i) == Delivered(i)

\* The client acknowledges generation g; only the current one opens the
\* decision window, and the delivery deadline itself is still in time.
acknowledge_received(i, g) ==
    /\ status[i] = "pending"
    /\ ~received[i]
    /\ g = generation[i]
    /\ clock[i] \in {"open", "edge"}
    /\ received' = [received EXCEPT ![i] = TRUE]
    /\ clock' = [clock EXCEPT ![i] = "open"]
    /\ UNCHANGED <<run, status, generation, permits, caller, due, closer, term,
                   detached, histVars>>

\* Time reaches and then passes the deadline that applies to a pending row.
TimePasses(i) ==
    /\ status[i] = "pending"
    /\ \/ clock[i] = "open" /\ clock' = [clock EXCEPT ![i] = "edge"]
       \/ clock[i] = "edge" /\ clock' = [clock EXCEPT ![i] = "past"]
    /\ UNCHANGED <<run, status, received, generation, permits, caller, due, closer,
                   term, detached, histVars>>

--------------------------------------------------------------------------------
(* The three ways out of "pending".                                         *)

\* A permission answer must name the current generation and follow its
\* acknowledgement; a question may be answered from any view of it.
PermissionValid(i, g) ==
    KindOf[i] = "permission" => g = generation[i] /\ received[i]

\* Faulty: every decision resumes the Run.
DecideResumesAlways(i, g, d) ==
    LET r == RunOf[i] IN
    /\ status[i] = "pending"
    /\ clock[i] = "open"
    /\ PermissionValid(i, g)
    /\ status' = [status EXCEPT ![i] = d]
    /\ closer' = [closer EXCEPT ![i] = "decide"]
    /\ run[r] = "waitingInteraction" /\ run' = [run EXCEPT ![r] = "running"]
    /\ UNCHANGED <<received, generation, clock, permits, caller, due, term, detached,
                   histVars>>

\* decide_request: one transaction moves the row and, when it was the Run's last
\* pending request, the Run; a Run that cannot resume rolls the decision back.
decide_request(i, g, d) ==
    LET r == RunOf[i] IN
    /\ status[i] = "pending"
    /\ clock[i] = "open"
    /\ PermissionValid(i, g)
    /\ status' = [status EXCEPT ![i] = d]
    /\ closer' = [closer EXCEPT ![i] = "decide"]
    /\ IF PendingOf(r) = {i}
       THEN run[r] = "waitingInteraction" /\ run' = [run EXCEPT ![r] = "running"]
       ELSE UNCHANGED run
    /\ UNCHANGED <<received, generation, clock, permits, caller, due, term, detached,
                   histVars>>

\* The sweeper's two queries, or a waiter's expire_if_due: what is due is read
\* first and written later.
ReadDue(i) ==
    /\ status[i] = "pending"
    /\ DeadlineReached(i)
    /\ Cardinality(due) < MaxDue
    /\ due' = due \cup {<<i, IF received[i] THEN "expired" ELSE "undeliverable">>}
    /\ UNCHANGED <<run, rowVars, permits, caller, closer, term, detached, histVars>>

\* What the UPDATE of expire() still requires of the row.
StillDue(i, s) ==
    /\ status[i] = "pending"
    /\ DeadlineReached(i)
    /\ s = "undeliverable" => ~received[i]
    /\ s = "expired" => received[i]

expire(i, s) ==
    /\ <<i, s>> \in due
    /\ due' = due \ {<<i, s>>}
    /\ IF StillDue(i, s)
       THEN /\ status' = [status EXCEPT ![i] = s]
            /\ clock' = [clock EXCEPT ![i] = "open"]
            /\ closer' = [closer EXCEPT ![i] = "expire"]
       ELSE UNCHANGED <<status, clock, closer>>
    /\ UNCHANGED <<run, received, generation, permits, caller, term, detached,
                   histVars>>

\* Faulty: the UPDATE reaches the Run's ended requests as well.
CancelsEveryRequest(r) ==
    /\ term[r] = "cancelled"
    /\ run[r] \in Stopped
    /\ term' = [term EXCEPT ![r] = "none"]
    /\ status' = [i \in Ids |-> IF RunOf[i] = r /\ status[i] # "absent"
                                THEN "cancelled" ELSE status[i]]
    /\ clock' = [i \in Ids |-> IF i \in PendingOf(r) THEN "open" ELSE clock[i]]
    /\ closer' = [i \in Ids |-> IF i \in PendingOf(r) THEN "cancel" ELSE closer[i]]
    /\ UNCHANGED <<run, received, generation, permits, caller, due, detached, histVars>>

\* complete_runtime_cancellation: every pending request of the Run at once, when
\* Run and Task are both cancelling or both terminal.
complete_runtime_cancellation(r) ==
    /\ term[r] = "cancelled"
    /\ run[r] \in Stopped
    /\ term' = [term EXCEPT ![r] = "none"]
    /\ status' = [i \in Ids |-> IF i \in PendingOf(r) THEN "cancelled" ELSE status[i]]
    /\ clock' = [i \in Ids |-> IF i \in PendingOf(r) THEN "open" ELSE clock[i]]
    /\ closer' = [i \in Ids |-> IF i \in PendingOf(r) THEN "cancel" ELSE closer[i]]
    /\ UNCHANGED <<run, received, generation, permits, caller, due, detached, histVars>>

\* RUN_TERMINATION_INVARIANT_FAILED: the Run has ended but its Task has not (it
\* needs attention: TaskRuntime's quarantine), so that the rows are left alone,
\* to their deadlines or to a restart.
CancellationInvalid(r) ==
    /\ term[r] = "cancelled"
    /\ run[r] = "terminal"
    /\ term' = [term EXCEPT ![r] = "none"]
    /\ UNCHANGED <<run, rowVars, permits, caller, due, closer, detached, histVars>>

\* Faulty: an expiry wakes its waiters but leaves the Run alone.
FinishLeavesRun(i) ==
    /\ closer[i] # "none"
    /\ closer' = [closer EXCEPT ![i] = "none"]
    /\ permits' = permits + 1
    /\ caller' = [w \in Callers |->
                    IF w \in CallersOf(i) /\ caller[w].rx = "waiting"
                    THEN [caller[w] EXCEPT !.rx = status[i]] ELSE caller[w]]
    /\ UNCHANGED <<run, rowVars, due, term, detached, histVars>>

\* finish: return the permit, send the status to the receivers of the current
\* wakeup channel; an expiry then asks for the Run's termination.
finish(i) ==
    /\ closer[i] # "none"
    /\ closer' = [closer EXCEPT ![i] = "none"]
    /\ permits' = permits + 1
    /\ caller' = [w \in Callers |->
                    IF w \in CallersOf(i) /\ caller[w].rx = "waiting"
                    THEN [caller[w] EXCEPT !.rx = status[i]] ELSE caller[w]]
    /\ term' = IF closer[i] = "expire" THEN Requested(RunOf[i]) ELSE term
    /\ UNCHANGED <<run, rowVars, due, detached, histVars>>

\* The re-read between the commit and finish() fails, or the handler that owes
\* it is dropped: the permit is lost, an expiry's termination never requested,
\* and a cancellation abandons the other requests of its list as well.
FinisherLost(i) ==
    LET lost == IF closer[i] = "cancel"
                THEN {j \in Ids : RunOf[j] = RunOf[i] /\ closer[j] = "cancel"}
                ELSE {i}
    IN
    /\ closer[i] # "none"
    /\ Fails
    /\ closer' = [j \in Ids |-> IF j \in lost THEN "none" ELSE closer[j]]
    /\ leaked' = leaked \cup lost
    /\ UNCHANGED <<run, rowVars, permits, caller, due, term, detached, elsewhere,
                   unbacked>>

--------------------------------------------------------------------------------
(* await_terminal.  Every read may fail instead of returning the row, before  *)
(* the registration, after it or in the loop: AwaitFails.                     *)

\* first read: an ended request is returned at once
FirstRead(w) ==
    LET i == caller[w].id IN
    /\ At(w, "await")
    /\ IF status[i] \in Terminal
       THEN Tells(w, status[i])
       ELSE Goes(w, "checked")
    /\ UNCHANGED <<run, rowVars, permits, due, closer, term, detached, histVars>>

\* subscribe to the request's wakeup channel, creating it if there is none
register_wakeup(w) ==
    /\ At(w, "checked")
    /\ caller' = [caller EXCEPT ![w].pc = "registered", ![w].rx = "waiting"]
    /\ UNCHANGED <<run, rowVars, permits, due, closer, term, detached, histVars>>

\* Faulty: the waiter parks without looking again.
ParksAtOnce(w) ==
    /\ At(w, "registered")
    /\ Goes(w, "parked")
    /\ UNCHANGED <<run, rowVars, permits, due, closer, term, detached, histVars>>

\* second read: a request that ended before the registration is returned and its
\* orphan channel removed, which closes it under its other receivers
SecondRead(w) ==
    LET i == caller[w].id IN
    /\ At(w, "registered")
    /\ IF status[i] \in Terminal
       THEN caller' = [v \in Callers |->
                IF v = w THEN [pc |-> "done", id |-> i, rx |-> status[i]]
                ELSE IF v \in CallersOf(i) /\ caller[v].rx = "waiting"
                     THEN [caller[v] EXCEPT !.rx = "closed"]
                     ELSE caller[v]]
       ELSE Goes(w, "parked")
    /\ UNCHANGED <<run, rowVars, permits, due, closer, term, detached, histVars>>

\* the channel delivers the terminal status
Woken(w) ==
    /\ At(w, "parked")
    /\ caller[w].rx \in Terminal
    /\ Tells(w, caller[w].rx)
    /\ UNCHANGED <<run, rowVars, permits, due, closer, term, detached, histVars>>

\* Faulty: when the timer fires the waiter gives up on a row that is still pending.
GivesUpOnTimer(w) ==
    LET i == caller[w].id IN
    /\ At(w, "parked")
    /\ IF status[i] \in Terminal THEN Tells(w, status[i]) ELSE Returns(w)
    /\ UNCHANGED <<run, rowVars, permits, due, closer, term, detached, histVars>>

\* the loop begins, the channel closed, or the timer two seconds after the
\* deadline fires: the row decides (a row still pending and due is expired by the
\* waiter: ReadDue)
RereadOnTimer(w) ==
    LET i == caller[w].id IN
    /\ At(w, "parked")
    /\ status[i] \in Terminal
    /\ Tells(w, status[i])
    /\ UNCHANGED <<run, rowVars, permits, due, closer, term, detached, histVars>>

\* A read of the waiter, or the write of its own expiry, fails: it returns an
\* error, its request stays as it is and its Run is not told to stop.
AwaitFails(w) ==
    /\ caller[w].pc \in {"await", "registered", "parked"}
    /\ Fails
    /\ Returns(w)
    /\ UNCHANGED <<run, rowVars, permits, due, closer, term, detached, elsewhere,
                   unbacked, leaked>>

--------------------------------------------------------------------------------
(* Termination of a Run, and what else ends it.                             *)

StartRun(r) ==
    /\ run[r] = "absent"
    /\ run' = [run EXCEPT ![r] = "running"]
    /\ UNCHANGED <<rowVars, permits, caller, due, closer, term, detached, histVars>>

\* a user's stop, a deadline, a parent's cancellation: the local execution is
\* signalled first
RequestStop(r) ==
    /\ run[r] \notin {"absent", "terminal"}
    /\ term[r] = "none"
    /\ term' = Requested(r)
    /\ UNCHANGED <<run, rowVars, permits, caller, due, closer, detached, histVars>>

\* cancel_run_with_cause commits; a failed write is retried by
\* retry_interaction_cleanup until it does
CancelRun(r) ==
    /\ term[r] = "signalled"
    /\ term' = [term EXCEPT ![r] = "cancelled"]
    /\ run' = [run EXCEPT ![r] = IF @ = "terminal" THEN @ ELSE "cancelling"]
    /\ UNCHANGED <<rowVars, permits, caller, due, closer, detached, histVars>>

\* the execution owner commits the Run's result, pending requests or not
RunEnds(r) ==
    /\ run[r] \notin {"absent", "terminal"}
    /\ run' = [run EXCEPT ![r] = "terminal"]
    /\ UNCHANGED <<rowVars, permits, caller, due, closer, term, detached, histVars>>

\* The process dies with its permits, callers and obligations, and starts again.
\* Restart reconciliation interrupts every Run it had started, then the pending
\* requests of ended Runs are cancelled and the permits of the others retaken.
reconcile_capacity_after_restart ==
    LET ended == {r \in Runs : run[r] # "absent"}
        orphans == {i \in Pending : RunOf[i] \in ended}
    IN
    /\ ended # {}
    /\ run' = [r \in Runs |-> IF r \in ended THEN "terminal" ELSE run[r]]
    /\ status' = [i \in Ids |-> IF i \in orphans THEN "cancelled" ELSE status[i]]
    /\ permits' = Capacity - Cardinality(Pending \ orphans)
    /\ caller' = [w \in Callers |-> IF At(w, "idle") THEN NoCaller ELSE Done]
    /\ due' = {}
    /\ closer' = [i \in Ids |-> "none"]
    /\ term' = [r \in Runs |-> "none"]
    /\ detached' = {}
    /\ unbacked' = {}
    /\ leaked' = {}
    /\ clock' = [i \in Ids |-> "open"]
    /\ elsewhere' = 0
    /\ UNCHANGED <<received, generation, faults>>

--------------------------------------------------------------------------------
CallerStep(w) ==
    \/ \E i \in Ids : AcquirePermit(w, i) \/ CapacityExceeded(w, i)
    \/ CreateCommits(w) \/ CreateJoins(w) \/ CreateRefused(w)
    \/ CreatedUnread(w) \/ CreateFails(w) \/ AwaitFails(w)
    \/ FirstRead(w) \/ register_wakeup(w) \/ SecondRead(w) \/ Woken(w) \/ RereadOnTimer(w)
    \/ DropCaller(w)

ClientStep(i) ==
    \/ mark_dispatched(i) \/ claim_redelivery(i) \/ prepare_recovery_delivery(i)
    \/ \E g \in 1 .. MaxGeneration : acknowledge_received(i, g)
    \/ \E g \in 0 .. MaxGeneration, d \in Decisions : decide_request(i, g, d)

ServiceStep(i) ==
    \/ TimePasses(i) \/ ReadDue(i) \/ \E s \in Expiries : expire(i, s)
    \/ finish(i) \/ FinisherLost(i) \/ DetachedCreate(i)

RunStep(r) ==
    \/ StartRun(r) \/ RequestStop(r) \/ CancelRun(r) \/ RunEnds(r)
    \/ complete_runtime_cancellation(r) \/ CancellationInvalid(r)

Next ==
    \/ \E w \in Callers : CallerStep(w)
    \/ \E i \in Ids : ClientStep(i) \/ ServiceStep(i)
    \/ \E r \in Runs : RunStep(r)
    \/ reconcile_capacity_after_restart

Spec == Init /\ [][Next]_vars

--------------------------------------------------------------------------------
\* The rows, the permits, the waiters and the obligations keep their types; no
\* permit is taken that is not there.
TypeOK ==
    /\ run \in [Runs -> RunStatus]
    /\ status \in [Ids -> {"absent", "pending"} \cup Terminal]
    /\ received \in [Ids -> BOOLEAN]
    /\ generation \in [Ids -> 0 .. MaxGeneration]
    /\ clock \in [Ids -> {"open", "edge", "past"}]
    /\ permits \in Nat
    /\ elsewhere \in 0 .. Capacity
    /\ caller \in [Callers -> [pc : Points, id : Ids, rx : Receivers]]
    /\ due \subseteq Ids \X Expiries
    /\ closer \in [Ids -> Closers]
    /\ term \in [Runs -> {"none", "signalled", "cancelled"}]
    /\ detached \subseteq Ids /\ unbacked \subseteq Ids /\ leaked \subseteq Ids
    /\ faults \in 0 .. MaxFaults

\* Every permit is accounted for: the ones not available are held by a create in
\* flight, by a pending row, by a finish() still owed, or were lost with a
\* finisher; and the only excess comes from rows whose creator was dropped, or
\* lost the store, while its transaction ran.  No other path returns a permit
\* twice or forgets one.
CapacityAccounted ==
    permits + elsewhere + Cardinality({w \in Callers : At(w, "creating")}) + Cardinality(Pending)
            + Cardinality({i \in Ids : closer[i] # "none"}) + Cardinality(leaked)
        = Capacity + Cardinality(unbacked)

\* What a waiter was told, or is about to be told by its channel, is what the row
\* says: decision, expiry and cancellation race, but only one of them ends the
\* request, whichever way the waiter learns.
WaiterSeesOutcome ==
    \A w \in Callers : caller[w].rx \in Terminal => caller[w].rx = status[caller[w].id]

\* No lost wakeup: a waiter parked on a request that has ended is on a channel its
\* finisher has yet to send to (unless that finisher was lost, and only then does
\* the waiter have to sit out its timer).
NoLostWakeup ==
    \A w \in Callers :
        LET i == caller[w].id IN
        At(w, "parked") /\ caller[w].rx = "waiting" /\ status[i] \in Terminal
            => closer[i] # "none" \/ i \in leaked

\* A Run executes only when none of its requests is still open: the last decision
\* resumes it, an earlier one, an expiry or a late create never does.
RunningHasNoPending ==
    \A r \in Runs : run[r] = "running" => PendingOf(r) = {}

\* A waiting Run is waiting for something: an open request, or its termination
\* (unless the finisher that should have asked for it was lost).
WaitingHasReason ==
    \A r \in Runs : run[r] = "waitingInteraction" =>
        \/ PendingOf(r) # {}
        \/ term[r] # "none"
        \/ \E i \in Ids : RunOf[i] = r /\ (closer[i] = "expire" \/ i \in leaked)

\* An acknowledged request is never reported undeliverable, an unacknowledged one
\* never as undecided, although both are read as due before they are written.
ExpiryMatchesDelivery ==
    \A i \in Ids : /\ status[i] = "undeliverable" => ~received[i]
                   /\ status[i] = "expired" => received[i]

\* Once a client has acknowledged a view of a request, no delivery makes that view
\* stale: the user's permission answer is judged under the generation the client
\* acknowledged, whatever reconnects and redeliveries happen in between.
AcknowledgedViewStands ==
    [][\A i \in Ids : received[i] => generation'[i] = generation[i]]_vars

--------------------------------------------------------------------------------
(* The contract this module implements.                                     *)

ContractShown(i) == IF received[i] THEN generation[i] ELSE 0

ContractAwaits(w) ==
    IF caller[w].pc \in {"await", "checked", "registered", "parked"} THEN {caller[w].id} ELSE {}

ContractTold(w) == IF caller[w].pc = "done" THEN caller[w].rx ELSE "none"

ContractPhase(r) ==
    CASE run[r] = "absent"  -> "absent"
      [] run[r] = "running" -> "working"
      [] run[r] = "waitingInteraction" -> "waiting"
      [] OTHER -> "stopped"

Contract == INSTANCE InteractionContract WITH
    Requests    <- Ids,
    Askers      <- Callers,
    Activities  <- Runs,
    ActivityOf  <- RunOf,
    Views       <- 1 .. MaxGeneration,
    Permissions <- {i \in Ids : KindOf[i] = "permission"},
    outcome     <- status,
    shown       <- [i \in Ids |-> ContractShown(i)],
    awaits      <- [w \in Callers |-> ContractAwaits(w)],
    told        <- [w \in Callers |-> ContractTold(w)],
    failures    <- faults,
    phase       <- [r \in Runs |-> ContractPhase(r)],
    stopping    <- {r \in Runs : term[r] # "none" \/ run[r] \in Stopped}

\* The rows, permits, wakeups and deadlines implement the caller's contract: one
\* outcome for each request, on the view its user acknowledged; a status is
\* returned only when it is the request's outcome, and whoever leaves without one
\* leaves with its stopped Run or at the cost of a failure of the store; only the
\* last answer sends a Run back to work.
ImplementsContract == Contract!Spec

================================================================================
