-------------------------------- MODULE MCCow --------------------------------
(* Model-checking instances of Cow. *)
EXTENDS Cow, TLC

Symmetry == Permutations(Proc) \cup Permutations(Frame)
=============================================================================
