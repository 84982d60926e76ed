---------------------------- MODULE TaskContract ----------------------------
(***************************************************************************)
(* What the task runtime promises its callers (docs/task-runtime-v4.md,     *)
(* "Transaction boundaries" and the shutdown section), with no Run rows,    *)
(* versions, drivers, resolvers or process: a Task is live until it is      *)
(* settled with one immutable outcome or quarantined for its user; a parent *)
(* is told each attached child's outcome once, before it may go on to       *)
(* succeed; a Task that was told to stop never goes back to work under the  *)
(* same attempt.                                                            *)
(***************************************************************************)
CONSTANTS Root, Children

VARIABLES
    state,      \* "absent", "live", "quarantined" or "settled"
    outcome,    \* the immutable result of a settled Task
    stopping,   \* the live Tasks that were told to stop
    held,       \* attached children: the root may not succeed without them
    consumed    \* the children whose outcome the root has received

vars == <<state, outcome, stopping, held, consumed>>

Tasks == {Root} \cup Children
Live == {t \in Tasks : state[t] = "live"}

Init ==
    /\ state = [t \in Tasks |-> "absent"]
    /\ outcome = [t \in Tasks |-> "none"]
    /\ stopping = {} /\ held = {} /\ consumed = {}

Start ==
    /\ state[Root] = "absent"
    /\ state' = [state EXCEPT ![Root] = "live"]
    /\ UNCHANGED <<outcome, stopping, held, consumed>>

(* Only a root at work delegates. *)
Delegate(c, attached) ==
    /\ Root \in Live \ stopping
    /\ state[c] = "absent"
    /\ state' = [state EXCEPT ![c] = "live"]
    /\ held' = IF attached THEN held \cup {c} ELSE held
    /\ UNCHANGED <<outcome, stopping, consumed>>

Stop(S) ==
    /\ S \subseteq Live
    /\ stopping' = stopping \cup S
    /\ UNCHANGED <<state, outcome, held, consumed>>

(* A root succeeds only if nobody stopped it and every attached child's     *)
(* outcome has been received.                                               *)
Settle(t, o) ==
    /\ t \in Live
    /\ (t = Root /\ o = "complete") => (held \subseteq consumed /\ Root \notin stopping)
    /\ state' = [state EXCEPT ![t] = "settled"]
    /\ outcome' = [outcome EXCEPT ![t] = o]
    /\ stopping' = stopping \ {t}
    /\ UNCHANGED <<held, consumed>>

(* No outcome is invented for a Task that is quarantined. *)
Quarantine(S) ==
    /\ S \subseteq Live
    /\ state' = [t \in Tasks |-> IF t \in S THEN "quarantined" ELSE state[t]]
    /\ stopping' = stopping \ S
    /\ UNCHANGED <<outcome, held, consumed>>

Recover(c) ==
    /\ state[c] = "quarantined"
    /\ state' = [state EXCEPT ![c] = "live"]
    /\ UNCHANGED <<outcome, stopping, held, consumed>>

(* A stopping, quarantined or settled root consumes nothing. *)
Consume(c) ==
    /\ c \in held \ consumed /\ state[c] = "settled"
    /\ Root \in Live \ stopping
    /\ consumed' = consumed \cup {c}
    /\ UNCHANGED <<state, outcome, stopping, held>>

Next ==
    \/ \E S \in SUBSET Tasks : Stop(S) \/ Quarantine(S)
    \/ Start
    \/ \E c \in Children : \/ \E attached \in BOOLEAN : Delegate(c, attached)
                           \/ Recover(c) \/ Consume(c)
    \/ \E t \in Tasks, o \in {"complete", "partial", "error", "cancelled"} : Settle(t, o)

Spec == Init /\ [][Next]_vars

=============================================================================
