------------------------------- MODULE MCPipe -------------------------------
(* Model-checking instances of Pipe. *)
EXTENDS Pipe, TLC

\* One byte, and more than the pipe holds.
Messages == {<<"a">>, <<"b", "a", "b">>}

Symmetry == Permutations(Reader) \cup Permutations(Writer)
=============================================================================
