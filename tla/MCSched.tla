------------------------------- MODULE MCSched -------------------------------
(* Model-checking instances of Sched. *)
EXTENDS Sched, TLC

Symmetry == Permutations(CPU)
=============================================================================
