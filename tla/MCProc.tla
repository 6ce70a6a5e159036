------------------------------- MODULE MCProc -------------------------------
(* Model-checking instances of Proc. *)
EXTENDS Proc
=============================================================================
