---------------------------- MODULE MCTaskBudget ----------------------------
(* TaskBudget for TLC: children and calls are interchangeable. *)
EXTENDS TaskBudget, TLC

Symmetry == Permutations(Children) \cup Permutations(Calls)
=============================================================================
