----------------------- MODULE ProviderBreakerProofs -----------------------
(* Proofs about ProviderBreaker: the streak and the window agree whatever   *)
(* the number of callers, the threshold and the window length.              *)
EXTENDS ProviderBreaker, TLAPS

(* The inductive invariant: DegradedIffStreak needs no more than the types, *)
(* because None lies outside the instants a caller can have sampled.        *)
IInv == TypeOK /\ DegradedIffStreak

(* Every step of every caller preserves the agreement of streak and window. *)
LEMMA NextPreservesIInv == IInv /\ [Next]_vars => IInv'
<1> SUFFICES ASSUME IInv, [Next]_vars PROVE IInv'
  OBVIOUS
<1> USE BreakerAssumption DEF IInv, TypeOK, DegradedIffStreak, None
<1>1. CASE Tick
  BY <1>1 DEF Tick
<1>2. ASSUME NEW c \in Callers, RecordSuccess(c) PROVE IInv'
  BY <1>2 DEF RecordSuccess
<1>3. ASSUME NEW c \in Callers, RecordStatus(c) PROVE IInv'
  BY <1>3 DEF RecordStatus
<1>4. ASSUME NEW c \in Callers, JudgeHalfOpen(c) PROVE IInv'
  <2>1. half_open' \in [Callers -> BOOLEAN]
    BY <1>4, Zenon DEF JudgeHalfOpen
  <2> QED
    BY <1>4, <2>1 DEF JudgeHalfOpen
<1>5. ASSUME NEW c \in Callers, ApplyFailure(c) PROVE IInv'
  <2>1. now_ms[c] \in 0 .. MaxClock
    OBVIOUS
  <2>2. CASE half_open[c]
    BY <1>5, <2>1, <2>2 DEF ApplyFailure
  <2>3. CASE ~ half_open[c]
    BY <1>5, <2>1, <2>3 DEF ApplyFailure
  <2> QED
    BY <2>2, <2>3
<1>6. CASE UNCHANGED vars
  BY <1>6 DEF vars
<1> QED
  BY <1>1, <1>2, <1>3, <1>4, <1>5, <1>6 DEF Next

(* For every number of callers, threshold and window length, the provider   *)
(* is out of the routing pool exactly when its streak is at the threshold.  *)
THEOREM BreakerSafety == Spec => [](TypeOK /\ DegradedIffStreak)
<1>1. Init => IInv
  BY BreakerAssumption DEF Init, IInv, TypeOK, DegradedIffStreak, None
<1>2. IInv => TypeOK /\ DegradedIffStreak
  BY DEF IInv
<1> QED
  BY <1>1, <1>2, NextPreservesIInv, PTL DEF Spec
=============================================================================
