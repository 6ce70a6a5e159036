--------------------------- MODULE PrivateMemory ---------------------------
(***************************************************************************)
(* What fork and the page faults promise together: every process has a      *)
(* memory of its own.  fork gives the child what the parent has at that     *)
(* moment, and afterwards neither sees what the other writes.               *)
(***************************************************************************)
EXTENDS Integers, Sequences

CONSTANTS Proc, Value, Zero

VARIABLE mem    \* the pages of each process

MInit == mem \in [Proc -> {<<>>, <<Zero>>}]

MWrite(p) ==
  \E i \in DOMAIN mem[p], v \in Value : mem' = [mem EXCEPT ![p][i] = v]

MGrow(p) == mem' = [mem EXCEPT ![p] = Append(@, Zero)]

MShrink(p) == mem[p] # <<>> /\ mem' = [mem EXCEPT ![p] = SubSeq(@, 1, Len(@) - 1)]

\* A child starts with the pages of its parent.
MFork(p, q) == mem[q] = <<>> /\ mem' = [mem EXCEPT ![q] = mem[p]]

MExit(p) == mem' = [mem EXCEPT ![p] = <<>>]

MNext ==
  \E p \in Proc :
    \/ MWrite(p) \/ MGrow(p) \/ MShrink(p) \/ MExit(p)
    \/ \E q \in Proc \ {p} : MFork(p, q)

MSpec == MInit /\ [][MNext]_mem
=============================================================================
