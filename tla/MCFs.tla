-------------------------------- MODULE MCFs --------------------------------
(* Model-checking instances of Fs. *)
EXTENDS Fs, TLC

Symmetry == Permutations(Proc) \cup Permutations(Inode \ {Root})

One(op, path) == [op |-> op, path |-> path, new |-> <<".">>]
Two(path, new) == [op |-> "link", path |-> path, new |-> new]

A == <<"/", "a">>
AB == <<"/", "a", "b">>

\* What may be removed while another call is on its way to it.
Removals ==
  {One("mkdir", A), One("mkdir", AB), One("create", A), One("create", AB),
   One("unlink", A), One("unlink", AB), One("open", AB),
   One("chdir", AB), One("chdir", <<"..">>), Two(A, A), Two(A, AB)}

=============================================================================
