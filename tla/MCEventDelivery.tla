-------------------------- MODULE MCEventDelivery --------------------------
(***************************************************************************)
(* EventDelivery for TLC: sessions and connections are interchangeable.     *)
(***************************************************************************)
EXTENDS EventDelivery, TLC

CriticalDurable == {[critical |-> TRUE, durable |-> TRUE]}

Symmetry == Permutations(Sessions) \cup Permutations(Conns)

=============================================================================
