--------------------------- MODULE MCTaskRuntime ---------------------------
(***************************************************************************)
(* TaskRuntime for TLC: children and messages are interchangeable.          *)
(***************************************************************************)
EXTENDS TaskRuntime, TLC

Symmetry == Permutations(Children) \cup Permutations(Messages)

=============================================================================
