----------------------------- MODULE MCInteraction -----------------------------
(* Two requests of one Run, sharing the capacity with other sessions. *)
EXTENDS Interaction, TLC

CONSTANTS r1, i1, i2

MCRunOf == i1 :> r1 @@ i2 :> r1
MCKindOf == i1 :> "permission" @@ i2 :> "elicitation"
Symmetry == Permutations(Callers)
================================================================================
