-------------------------- MODULE ProviderBreaker --------------------------
(***************************************************************************)
(* The per-provider circuit breaker of crates/zk-llm/src/breaker.rs, shared *)
(* by every logical LLM call of a process through an Arc.                   *)
(*                                                                          *)
(* record_status_at takes the mutex twice: state_at locks, derives the      *)
(* breaker state and unlocks; the update then locks again.  The two         *)
(* critical sections are two actions here, so that a caller may act on a    *)
(* half-open verdict that another caller has already overtaken.             *)
(***************************************************************************)
EXTENDS Naturals

CONSTANTS
    Callers,            \* concurrent logical calls that report an outcome
    FAILURE_THRESHOLD,  \* consecutive 5xx that degrade the provider
    DEGRADE_WINDOW,     \* length of the degraded window, in clock ticks
    MaxClock            \* bound on the monotonic clock

ASSUME BreakerAssumption ==
    /\ FAILURE_THRESHOLD \in Nat \ {0}
    /\ DEGRADE_WINDOW \in Nat \ {0}
    /\ MaxClock \in Nat

VARIABLES
    clock,                 \* mono_millis()
    consecutive_failures,  \* BreakerInner.consecutive_failures
    degraded_at,           \* BreakerInner.degraded_at: an instant, or None
    pc,                    \* caller -> "idle" | "sampled" | "judged"
    now_ms,                \* caller -> the instant record_status passed down
    half_open              \* caller -> the verdict of the first lock

vars == <<clock, consecutive_failures, degraded_at, pc, now_ms, half_open>>

(* Option<u64>::None: an instant the clock never shows. *)
None == MaxClock + 1

Init ==
    /\ clock = 0
    /\ consecutive_failures = 0
    /\ degraded_at = None
    /\ pc = [c \in Callers |-> "idle"]
    /\ now_ms = [c \in Callers |-> 0]
    /\ half_open = [c \in Callers |-> FALSE]

----------------------------------------------------------------------------

SaturatingSub(a, b) == IF a >= b THEN a - b ELSE 0

state_at(now) ==
    CASE degraded_at = None -> "Closed"
      [] degraded_at # None /\ SaturatingSub(now, degraded_at) >= DEGRADE_WINDOW -> "HalfOpen"
      [] OTHER -> "Degraded"

Tick ==
    /\ clock < MaxClock
    /\ clock' = clock + 1
    /\ UNCHANGED <<consecutive_failures, degraded_at, pc, now_ms, half_open>>

(* Faulty: record_success clears the streak and leaves the window. *)
RecordSuccessKeepsWindow(c) ==
    /\ pc[c] = "idle"
    /\ consecutive_failures' = 0
    /\ UNCHANGED <<clock, degraded_at, pc, now_ms, half_open>>

(* record_success: one critical section. *)
RecordSuccess(c) ==
    /\ pc[c] = "idle"
    /\ consecutive_failures' = 0
    /\ degraded_at' = None
    /\ UNCHANGED <<clock, pc, now_ms, half_open>>

(* record_status of a 5xx other than 529 samples the clock ... *)
RecordStatus(c) ==
    /\ pc[c] = "idle"
    /\ pc' = [pc EXCEPT ![c] = "sampled"]
    /\ now_ms' = [now_ms EXCEPT ![c] = clock]
    /\ UNCHANGED <<clock, consecutive_failures, degraded_at, half_open>>

(* ... judges the state under the first lock ... *)
JudgeHalfOpen(c) ==
    /\ pc[c] = "sampled"
    /\ pc' = [pc EXCEPT ![c] = "judged"]
    /\ half_open' = [half_open EXCEPT ![c] = state_at(now_ms[c]) = "HalfOpen"]
    /\ UNCHANGED <<clock, consecutive_failures, degraded_at, now_ms>>

(* ... and updates under the second.  consecutive_failures is a saturating  *)
(* u32; only its comparison with the threshold is ever read, so it is       *)
(* capped there.                                                            *)
ApplyFailure(c) ==
    LET fails == IF consecutive_failures < FAILURE_THRESHOLD
                 THEN consecutive_failures + 1 ELSE consecutive_failures
    IN  /\ pc[c] = "judged"
        /\ pc' = [pc EXCEPT ![c] = "idle"]
        /\ IF half_open[c]
           THEN /\ consecutive_failures' = FAILURE_THRESHOLD
                /\ degraded_at' = now_ms[c]
           ELSE /\ consecutive_failures' = fails
                /\ degraded_at' = IF fails >= FAILURE_THRESHOLD /\ degraded_at = None
                                  THEN now_ms[c] ELSE degraded_at
        /\ UNCHANGED <<clock, now_ms, half_open>>

Next ==
    \/ Tick
    \/ \E c \in Callers :
          \/ RecordSuccess(c)
          \/ RecordStatus(c)
          \/ JudgeHalfOpen(c)
          \/ ApplyFailure(c)

Spec == Init /\ [][Next]_vars

----------------------------------------------------------------------------

(* Type invariant. *)
TypeOK ==
    /\ clock \in 0 .. MaxClock
    /\ consecutive_failures \in 0 .. FAILURE_THRESHOLD
    /\ degraded_at \in 0 .. (MaxClock + 1)
    /\ pc \in [Callers -> {"idle", "sampled", "judged"}]
    /\ now_ms \in [Callers -> 0 .. MaxClock]
    /\ half_open \in [Callers -> BOOLEAN]

(* The provider leaves the routing pool exactly when its failure streak     *)
(* reached the threshold, in every interleaving of the split critical       *)
(* sections: no caller can leave a degraded window behind a cleared streak  *)
(* (the provider would stay out of routing for a window after it recovered) *)
(* or a full streak without a window (it would never degrade again, as      *)
(* degraded_at is only set while the streak passes the threshold).          *)
DegradedIffStreak ==
    (degraded_at # None) <=> (consecutive_failures >= FAILURE_THRESHOLD)

=============================================================================
