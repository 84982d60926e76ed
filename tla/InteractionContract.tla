-------------------------- MODULE InteractionContract --------------------------
(***************************************************************************)
(* What the interaction service promises the tools that ask and the user    *)
(* that is asked, with no deliveries, deadlines, permits, wakeups or        *)
(* finishers: a request is pending until it gets one outcome, which stands; *)
(* an activity waits while a request of it is pending and goes back to work *)
(* by the answer to the last one only; the view a client has acknowledged   *)
(* stands, a permission is answered on such a view only, and a request that *)
(* runs out of time ends as one thing or the other by whether there is one; *)
(* whoever awaits a request is told its outcome, or leaves because the      *)
(* activity is stopping or at the cost of a failure; an activity told to    *)
(* stop has been told for good.                                             *)
(***************************************************************************)
EXTENDS Naturals

CONSTANTS Requests, Askers, Activities, ActivityOf, Permissions, Views

VARIABLES
    outcome,   \* "absent", "pending", or the outcome of each request
    shown,     \* the view of each request its user has acknowledged, 0 before
    awaits,    \* the request each asker is waiting for, {} if none
    told,      \* the outcome each asker was told, "none" if none
    failures,  \* failures of the store so far
    phase,     \* "absent", "working", "waiting" or "stopped"
    stopping   \* the activities that were told to stop

vars == <<outcome, shown, awaits, told, failures, phase, stopping>>

Answers  == {"answered", "denied", "cancelled"}
Outcomes == Answers \cup {"undeliverable", "expired"}

PendingOf(r) == {i \in Requests : outcome[i] = "pending" /\ ActivityOf[i] = r}

Init ==
    /\ outcome = [i \in Requests |-> "absent"]
    /\ shown = [i \in Requests |-> 0]
    /\ awaits = [w \in Askers |-> {}]
    /\ told = [w \in Askers |-> "none"]
    /\ failures = 0
    /\ phase = [r \in Activities |-> "absent"]
    /\ stopping = {}

Begin(r) ==
    /\ phase[r] = "absent"
    /\ phase' = [phase EXCEPT ![r] = "working"]
    /\ UNCHANGED <<outcome, shown, awaits, told, failures, stopping>>

(* A request is filed once, and only for an activity that has not stopped, for *)
(* an asker that then awaits it; or for one that has left, because the         *)
(* activity was told to stop or at the cost of a failure.                      *)
File(i) ==
    LET r == ActivityOf[i] IN
    /\ outcome[i] = "absent"
    /\ phase[r] \in {"working", "waiting"}
    /\ outcome' = [outcome EXCEPT ![i] = "pending"]
    /\ phase' = [phase EXCEPT ![r] = "waiting"]
    /\ \/ /\ \E w \in Askers : awaits[w] = {} /\ awaits' = [awaits EXCEPT ![w] = {i}]
          /\ UNCHANGED failures
       \/ r \in stopping /\ UNCHANGED <<awaits, failures>>
       \/ failures' = failures + 1 /\ UNCHANGED awaits
    /\ UNCHANGED <<shown, told, stopping>>

(* Another asker of the same request shares it. *)
Join(w, i) ==
    /\ awaits[w] = {}
    /\ outcome[i] # "absent"
    /\ awaits' = [awaits EXCEPT ![w] = {i}]
    /\ UNCHANGED <<outcome, shown, told, failures, phase, stopping>>

(* A status is returned only when it is the outcome. *)
Return(w) ==
    /\ \E i \in awaits[w] : /\ outcome[i] \in Outcomes
                            /\ told' = [told EXCEPT ![w] = outcome[i]]
    /\ awaits' = [awaits EXCEPT ![w] = {}]
    /\ UNCHANGED <<outcome, shown, failures, phase, stopping>>

(* An asker whose activity was told to stop may leave with nothing. *)
Leave(w) ==
    /\ \E i \in awaits[w] : ActivityOf[i] \in stopping
    /\ awaits' = [awaits EXCEPT ![w] = {}]
    /\ UNCHANGED <<outcome, shown, told, failures, phase, stopping>>

(* A failure costs at most one asker its answer; requests and activities go on *)
(* without it.                                                                 *)
Fail ==
    /\ failures' = failures + 1
    /\ UNCHANGED awaits \/ \E w \in Askers : awaits' = [awaits EXCEPT ![w] = {}]
    /\ UNCHANGED <<outcome, shown, told, phase, stopping>>

(* A client acknowledges a view, once. *)
Show(i, view) ==
    /\ outcome[i] = "pending"
    /\ shown[i] = 0
    /\ shown' = [shown EXCEPT ![i] = view]
    /\ UNCHANGED <<outcome, awaits, told, failures, phase, stopping>>

(* The user's answer.  The last one sends the activity back to work, which    *)
(* must then be waiting for it; an earlier one leaves it as it is.            *)
Answer(i, d) ==
    LET r == ActivityOf[i] IN
    /\ outcome[i] = "pending"
    /\ i \in Permissions => shown[i] # 0
    /\ outcome' = [outcome EXCEPT ![i] = d]
    /\ IF PendingOf(r) = {i}
       THEN phase[r] = "waiting" /\ phase' = [phase EXCEPT ![r] = "working"]
       ELSE UNCHANGED phase
    /\ UNCHANGED <<shown, awaits, told, failures, stopping>>

(* A request nobody answers in time ends, and sends nobody back to work. *)
Expire(i) ==
    /\ outcome[i] = "pending"
    /\ outcome' = [outcome EXCEPT ![i] = IF shown[i] = 0 THEN "undeliverable" ELSE "expired"]
    /\ UNCHANGED <<shown, awaits, told, failures, phase, stopping>>

(* The pending requests of an activity that has stopped end together. *)
Withdraw(r) ==
    /\ phase[r] = "stopped"
    /\ outcome' = [i \in Requests |-> IF outcome[i] = "pending" /\ ActivityOf[i] = r THEN "cancelled" ELSE outcome[i]]
    /\ UNCHANGED <<shown, awaits, told, failures, phase, stopping>>

Stop(r) ==
    /\ phase[r] # "absent"
    /\ stopping' = stopping \cup {r}
    /\ UNCHANGED <<outcome, shown, awaits, told, failures, phase>>

Halt(r) ==
    /\ phase[r] \in {"working", "waiting"}
    /\ phase' = [phase EXCEPT ![r] = "stopped"]
    /\ stopping' = stopping \cup {r}
    /\ UNCHANGED <<outcome, shown, awaits, told, failures>>

(* A crash ends every activity begun, every wait and no request that has an   *)
(* outcome.                                                                   *)
Restart ==
    /\ phase' = [r \in Activities |-> IF phase[r] = "absent" THEN "absent" ELSE "stopped"]
    /\ stopping' = {r \in Activities : phase[r] # "absent"}
    /\ outcome' = [i \in Requests |-> IF outcome[i] = "pending" THEN "cancelled" ELSE outcome[i]]
    /\ awaits' = [w \in Askers |-> {}]
    /\ told' = [w \in Askers |-> "none"]
    /\ UNCHANGED <<shown, failures>>

Next ==
    \/ \E w \in Askers : Return(w) \/ Leave(w)
    \/ Fail
    \/ \E r \in Activities : Begin(r) \/ Stop(r) \/ Halt(r) \/ Withdraw(r)
    \/ \E i \in Requests : \/ File(i) \/ Expire(i)
                           \/ \E view \in Views : Show(i, view)
                           \/ \E d \in Answers : Answer(i, d)
                           \/ \E w \in Askers : Join(w, i)
    \/ Restart

Spec == Init /\ [][Next]_vars

================================================================================
