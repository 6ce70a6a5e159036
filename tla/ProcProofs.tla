----------------------------- MODULE ProcProofs -----------------------------
(***************************************************************************)
(* The family of processes stays whole for a process table of any size.     *)
(*                                                                         *)
(* ParentAlive is not inductive alone: an exiting process hands its         *)
(* children to init, which must be alive (InitAlive), and the child that    *)
(* fork publishes must still belong to a fork of its parent (ForkInv).      *)
(* NoZombieUnnoticed needs in addition that nobody is its own parent: exit  *)
(* wakes the parent it had before it hands its children over.               *)
(*                                                                         *)
(* And the lab shell keeps track of the processes it starts: JobsKept of   *)
(* LabShell, for any lines and any number of processes.  While it waits,   *)
(* a child may be on no list but among those it waits for (Watched); a     *)
(* collected child can be told from a fresh one because pids are given     *)
(* out in order (PidsInOrder).                                             *)
(*                                                                         *)
(* And the allocator of the user programs is exact: HeapExact of Malloc,   *)
(* for any bound on the heap and any requests.  A ring of free blocks in   *)
(* order of address (Follows) stays one when a block is put in or taken    *)
(* out; the blocks tile what lies below the break (Layout) when two become *)
(* one, one becomes two or sbrk adds one; and the loops over the list meet *)
(* all of it before they are back at freep (WalkTurns), which they reach   *)
(* because some address is outside the list (WalkReturns).                 *)
(***************************************************************************)
EXTENDS Proc, LabShell, Malloc, FiniteSetTheorems, SequenceTheorems, WellFoundedInduction, TLAPS

-----------------------------------------------------------------------------
(* The process table                                                       *)

Forking == {"stack", "copy", "publish"}
Alive == {"RUNNABLE", "SLEEPING"}

\* A fork in progress has its entry for itself, with what it allocated so far.
ForkInv ==
  \A s \in Slot : pc[s] \in Forking =>
    /\ state[s] = "RUNNABLE"
    /\ np[s] \in Slot /\ state[np[s]] = "EMBRYO"
    /\ \A t \in Slot \ {s} : pc[t] \in Forking => np[t] # np[s]
    /\ pc[s] = "stack" => ~kstack[np[s]]
    /\ pc[s] # "stack" => kstack[np[s]]
    /\ pc[s] # "publish" => ~pgdir[np[s]]
    /\ pc[s] = "publish" => pgdir[np[s]] /\ parent[np[s]] = s

InitAlive == state[initproc] \in Alive /\ pc[initproc] # "exit" /\ parent[initproc] = 0

NoSelf == \A s \in Slot : parent[s] # s

IInv ==
  /\ TypeOK
  /\ ForkInv
  /\ InitAlive
  /\ NoSelf
  /\ ParentAlive
  /\ NoZombieUnnoticed
  /\ NothingLeaks

-----------------------------------------------------------------------------

\* First is the first entry of the set: the loops over ptable.proc find it.
LEMMA FirstIn == ASSUME NEW S, S \subseteq Slot, S # {} PROVE First(S) \in S
<1>1. S \subseteq Nat
  BY ProcAssumption DEF Slot
<1> DEFINE R == {ss \in Nat \X Nat : ss[1] < ss[2]}
<1>2. IsWellFoundedOn(R, Nat)
  BY NatLessThanWellFounded, Zenon DEF OpToRel
<1>3. PICK x \in S : \A y \in S : ~(<<y, x>> \in R)
  <2> HIDE DEF R
  <2>1. \E x \in S : \A y \in S : ~(<<y, x>> \in R)
    BY <1>1, <1>2, WFMin
  <2> QED
    BY <2>1
<1>4. ASSUME NEW y \in S PROVE x <= y
  <2>1. x \in Nat /\ y \in Nat
    BY <1>1
  <2>2. ~(<<y, x>> \in Nat \X Nat /\ y < x)
    <3>1. ~(<<y, x>> \in {ss \in Nat \X Nat : ss[1] < ss[2]})
      BY <1>3
    <3> QED
      BY <2>1, <3>1
  <2> QED
    BY <2>1, <2>2
<1>5. \E s \in S : \A t \in S : s <= t
  BY <1>3, <1>4, Zenon
<1> QED
  BY <1>5, Zenon DEF First

LEMMA Initially == Init => IInv
<1> SUFFICES ASSUME Init PROVE IInv
  OBVIOUS
<1> USE ProcAssumption DEF Init
<1>1. initproc \in Slot
  BY DEF initproc, Slot
<1>2. TypeOK
  <2>1. kstack \in [Slot -> BOOLEAN] /\ pgdir \in [Slot -> BOOLEAN]
    BY Zenon
  <2>2. /\ pid \in [Slot -> 0..MAXPID]
        /\ nextpid \in 2..(MAXPID + 1)
    OBVIOUS
  <2> QED
    BY <2>1, <2>2, Zenon DEF TypeOK
<1>3. ForkInv
  BY DEF ForkInv, Forking
<1>4. InitAlive
  BY <1>1 DEF InitAlive, Alive
<1>5. NoSelf
  BY DEF NoSelf, Slot
<1>6. ParentAlive /\ NoZombieUnnoticed /\ NothingLeaks
  BY <1>1 DEF ParentAlive, NoZombieUnnoticed, NothingLeaks
<1> QED
  BY <1>2, <1>3, <1>4, <1>5, <1>6 DEF IInv

\* Every step of every call keeps the invariant.
LEMMA Inductive == IInv /\ [Next]_vars => IInv'
<1> SUFFICES ASSUME IInv, [Next]_vars PROVE IInv'
  OBVIOUS
<1>0. initproc \in Slot /\ 0 \notin Slot /\ Other \notin Slot
  BY ProcAssumption DEF initproc, Slot, Other
<1>1. CASE UNCHANGED vars
  BY <1>1 DEF IInv, TypeOK, ForkInv, InitAlive, NoSelf, ParentAlive, NoZombieUnnoticed,
     NothingLeaks, Zombies, Children, vars
<1>2. ASSUME NEW s \in Slot, AllocProc(s) PROVE IInv'
  <2> DEFINE n == First({t \in Slot : state[t] = "UNUSED"})
  <2>0. n \in Slot /\ state[n] = "UNUSED"
    BY <1>2, FirstIn DEF AllocProc
  <2>1. TypeOK'
    BY <1>0, ProcAssumption, <1>2, <2>0 DEF IInv, TypeOK, ForkInv, Forking, AllocProc, AtUser, At, Goto, Claimed
  <2>2. ForkInv'
    BY <1>0, <1>2, <2>0 DEF IInv, TypeOK, ForkInv, Forking, NothingLeaks, AllocProc, AtUser, At, Goto, Claimed
  <2>3. InitAlive'
    BY <1>0, <1>2, <2>0 DEF IInv, TypeOK, ForkInv, Forking, InitAlive, Alive, AllocProc, AtUser, At, Goto, Claimed
  <2>4. NoSelf'
    BY <1>0, <1>2, <2>0 DEF IInv, TypeOK, ForkInv, Forking, InitAlive, NoSelf, AllocProc, AtUser, At, Goto, Claimed
  <2>5. ParentAlive'
    BY <1>0, <1>2, <2>0 DEF IInv, TypeOK, ForkInv, Forking, InitAlive, Alive, ParentAlive, AllocProc, AtUser, At, Goto, Claimed
  <2>6. NoZombieUnnoticed'
    BY <1>0, <1>2, <2>0 DEF IInv, TypeOK, ForkInv, Forking, InitAlive, NoSelf, ParentAlive, NoZombieUnnoticed, Zombies, Children, AllocProc, AtUser, At, Goto, Claimed
  <2>7. NothingLeaks'
    BY <1>0, <1>2, <2>0 DEF IInv, TypeOK, ForkInv, Forking, NothingLeaks, AllocProc, AtUser, At, Goto, Claimed
  <2> QED
    BY <2>1, <2>2, <2>3, <2>4, <2>5, <2>6, <2>7 DEF IInv
<1>3. ASSUME NEW s \in Slot, AllocStack(s) PROVE IInv'
  <2>1. TypeOK'
    <3>1. kstack' \in [Slot -> BOOLEAN]
      BY <1>0, <1>3 DEF IInv, TypeOK, AllocStack, At, Goto
    <3>2. state' \in [Slot -> {"UNUSED", "EMBRYO", "SLEEPING", "RUNNABLE", "ZOMBIE"}]
      BY <1>0, <1>3 DEF IInv, TypeOK, AllocStack, At, Goto
    <3>3. pc' \in [Slot -> {"user", "stack", "copy", "publish", "exit", "wait", "blocked"}]
      BY <1>0, <1>3 DEF IInv, TypeOK, AllocStack, At, Goto
    <3> QED
      BY <1>0, <1>3, <3>1, <3>2, <3>3 DEF IInv, TypeOK, AllocStack, At, Goto
  <2>2. ForkInv'
    BY <1>0, <1>3 DEF IInv, TypeOK, ForkInv, Forking, NothingLeaks, AllocStack, At, Goto
  <2>3. InitAlive'
    BY <1>0, <1>3 DEF IInv, TypeOK, ForkInv, Forking, InitAlive, Alive, AllocStack, At, Goto
  <2>4. NoSelf'
    BY <1>0, <1>3 DEF IInv, TypeOK, ForkInv, Forking, InitAlive, NoSelf, AllocStack, At, Goto
  <2>5. ParentAlive'
    BY <1>0, <1>3 DEF IInv, TypeOK, ForkInv, Forking, InitAlive, Alive, ParentAlive, AllocStack, At, Goto
  <2>6. NoZombieUnnoticed'
    BY <1>0, <1>3 DEF IInv, TypeOK, ForkInv, Forking, InitAlive, NoSelf, ParentAlive, NoZombieUnnoticed, Zombies, Children, AllocStack, At, Goto
  <2>7. NothingLeaks'
    BY <1>0, <1>3 DEF IInv, TypeOK, ForkInv, Forking, NothingLeaks, AllocStack, At, Goto
  <2> QED
    BY <2>1, <2>2, <2>3, <2>4, <2>5, <2>6, <2>7 DEF IInv
<1>4. ASSUME NEW s \in Slot, CopyVm(s) PROVE IInv'
  <2>1. TypeOK'
    <3>1. kstack' \in [Slot -> BOOLEAN]
      BY <1>0, <1>4 DEF IInv, TypeOK, CopyVm, At, Goto, FreeStack
    <3>2. pgdir' \in [Slot -> BOOLEAN]
      BY <1>0, <1>4 DEF IInv, TypeOK, CopyVm, At, Goto, FreeStack
    <3>3. state' \in [Slot -> {"UNUSED", "EMBRYO", "SLEEPING", "RUNNABLE", "ZOMBIE"}]
      BY <1>0, <1>4 DEF IInv, TypeOK, CopyVm, At, Goto, FreeStack
    <3>4. pc' \in [Slot -> {"user", "stack", "copy", "publish", "exit", "wait", "blocked"}]
      BY <1>0, <1>4 DEF IInv, TypeOK, CopyVm, At, Goto, FreeStack
    <3>5. parent' \in [Slot -> Slot \cup {0}]
      BY <1>0, <1>4 DEF IInv, TypeOK, CopyVm, At, Goto, FreeStack
    <3> QED
      BY <1>0, <1>4, <3>1, <3>2, <3>3, <3>4, <3>5 DEF IInv, TypeOK, CopyVm, At, Goto, FreeStack
  <2>2. ForkInv'
    BY <1>0, <1>4 DEF IInv, TypeOK, ForkInv, Forking, NothingLeaks, CopyVm, At, Goto, FreeStack
  <2>3. InitAlive'
    BY <1>0, <1>4 DEF IInv, TypeOK, ForkInv, Forking, InitAlive, Alive, CopyVm, At, Goto, FreeStack
  <2>4. NoSelf'
    BY <1>0, <1>4 DEF IInv, TypeOK, ForkInv, Forking, InitAlive, NoSelf, CopyVm, At, Goto, FreeStack
  <2>5. ParentAlive'
    BY <1>0, <1>4 DEF IInv, TypeOK, ForkInv, Forking, InitAlive, Alive, ParentAlive, CopyVm, At, Goto, FreeStack
  <2>6. NoZombieUnnoticed'
    BY <1>0, <1>4 DEF IInv, TypeOK, ForkInv, Forking, InitAlive, NoSelf, ParentAlive, NoZombieUnnoticed, Zombies, Children, CopyVm, At, Goto, FreeStack
  <2>7. NothingLeaks'
    BY <1>0, <1>4 DEF IInv, TypeOK, ForkInv, Forking, NothingLeaks, CopyVm, At, Goto, FreeStack
  <2> QED
    BY <2>1, <2>2, <2>3, <2>4, <2>5, <2>6, <2>7 DEF IInv
<1>5. ASSUME NEW s \in Slot, Publish(s) PROVE IInv'
  <2>1. TypeOK'
    BY <1>0, ProcAssumption, <1>5 DEF IInv, TypeOK, ForkInv, Forking, Publish, At
  <2>2. ForkInv'
    BY <1>0, <1>5 DEF IInv, TypeOK, ForkInv, Forking, NothingLeaks, Publish, At
  <2>3. InitAlive'
    BY <1>0, <1>5 DEF IInv, TypeOK, ForkInv, Forking, InitAlive, Alive, Publish, At
  <2>4. NoSelf'
    BY <1>0, <1>5 DEF IInv, TypeOK, ForkInv, Forking, InitAlive, NoSelf, Publish, At
  <2>5. ParentAlive'
    BY <1>0, <1>5 DEF IInv, TypeOK, ForkInv, Forking, InitAlive, Alive, ParentAlive, Publish, At
  <2>6. NoZombieUnnoticed'
    BY <1>0, <1>5 DEF IInv, TypeOK, ForkInv, Forking, InitAlive, NoSelf, ParentAlive, NoZombieUnnoticed, Zombies, Children, Publish, At
  <2>7. NothingLeaks'
    BY <1>0, <1>5 DEF IInv, TypeOK, ForkInv, Forking, NothingLeaks, Publish, At
  <2> QED
    BY <2>1, <2>2, <2>3, <2>4, <2>5, <2>6, <2>7 DEF IInv
<1>6. ASSUME NEW s \in Slot, Exit(s) PROVE IInv'
  <2>1. TypeOK'
    BY <1>0, ProcAssumption, <1>6 DEF IInv, TypeOK, ForkInv, Forking, Exit, At, Reparented, WokenByExit, Wakeup1
  <2>2. ForkInv'
    BY <1>0, <1>6 DEF IInv, TypeOK, ForkInv, Forking, NothingLeaks, Exit, At, Reparented, WokenByExit, Wakeup1
  <2>3. InitAlive'
    BY <1>0, <1>6 DEF IInv, TypeOK, ForkInv, Forking, InitAlive, Alive, Exit, At, Reparented, WokenByExit, Wakeup1
  <2>4. NoSelf'
    BY <1>0, <1>6 DEF IInv, TypeOK, ForkInv, Forking, InitAlive, NoSelf, Exit, At, Reparented, WokenByExit, Wakeup1
  <2>5. ParentAlive'
    BY <1>0, <1>6 DEF IInv, TypeOK, ForkInv, Forking, InitAlive, Alive, ParentAlive, Exit, At, Reparented, WokenByExit, Wakeup1
  <2>6. NoZombieUnnoticed'
    BY <1>0, <1>6 DEF IInv, TypeOK, ForkInv, Forking, InitAlive, NoSelf, ParentAlive, NoZombieUnnoticed, Zombies, Children, Exit, At, Reparented, WokenByExit, Wakeup1
  <2>7. NothingLeaks'
    BY <1>0, <1>6 DEF IInv, TypeOK, ForkInv, Forking, NothingLeaks, Exit, At, Reparented, WokenByExit, Wakeup1
  <2> QED
    BY <2>1, <2>2, <2>3, <2>4, <2>5, <2>6, <2>7 DEF IInv
<1>7. ASSUME NEW s \in Slot, WaitReap(s) PROVE IInv'
  <2> DEFINE n == First(Zombies(s))
  <2>0. n \in Slot /\ state[n] = "ZOMBIE" /\ parent[n] = s
    <3>1. Zombies(s) \subseteq Slot
      BY DEF Zombies, Children
    <3>2. n \in Zombies(s)
      BY <1>7, <3>1, FirstIn DEF WaitReap
    <3> QED
      BY <3>2 DEF Zombies, Children
  <2>1. TypeOK'
    BY <1>0, ProcAssumption, <1>7, <2>0 DEF IInv, TypeOK, ForkInv, Forking, WaitReap, At, Goto
  <2>2. ForkInv'
    BY <1>0, <1>7, <2>0 DEF IInv, TypeOK, ForkInv, Forking, NothingLeaks, WaitReap, At, Goto
  <2>3. InitAlive'
    BY <1>0, <1>7, <2>0 DEF IInv, TypeOK, ForkInv, Forking, InitAlive, Alive, WaitReap, At, Goto
  <2>4. NoSelf'
    BY <1>0, <1>7, <2>0 DEF IInv, TypeOK, ForkInv, Forking, InitAlive, NoSelf, WaitReap, At, Goto
  <2>5. ParentAlive'
    BY <1>0, <1>7, <2>0 DEF IInv, TypeOK, ForkInv, Forking, InitAlive, Alive, ParentAlive, WaitReap, At, Goto
  <2>6. NoZombieUnnoticed'
    BY <1>0, <1>7, <2>0 DEF IInv, TypeOK, ForkInv, Forking, InitAlive, NoSelf, ParentAlive, NoZombieUnnoticed, Zombies, Children, WaitReap, At, Goto
  <2>7. NothingLeaks'
    BY <1>0, <1>7, <2>0 DEF IInv, TypeOK, ForkInv, Forking, NothingLeaks, WaitReap, At, Goto
  <2> QED
    BY <2>1, <2>2, <2>3, <2>4, <2>5, <2>6, <2>7 DEF IInv
<1>8. ASSUME NEW s \in Slot, WaitFail(s) PROVE IInv'
  <2>1. TypeOK'
    BY <1>0, ProcAssumption, <1>8 DEF IInv, TypeOK, ForkInv, Forking, WaitFail, At, Goto
  <2>2. ForkInv'
    BY <1>0, <1>8 DEF IInv, TypeOK, ForkInv, Forking, NothingLeaks, WaitFail, At, Goto
  <2>3. InitAlive'
    BY <1>0, <1>8 DEF IInv, TypeOK, ForkInv, Forking, InitAlive, Alive, WaitFail, At, Goto
  <2>4. NoSelf'
    BY <1>0, <1>8 DEF IInv, TypeOK, ForkInv, Forking, InitAlive, NoSelf, WaitFail, At, Goto
  <2>5. ParentAlive'
    BY <1>0, <1>8 DEF IInv, TypeOK, ForkInv, Forking, InitAlive, Alive, ParentAlive, WaitFail, At, Goto
  <2>6. NoZombieUnnoticed'
    BY <1>0, <1>8 DEF IInv, TypeOK, ForkInv, Forking, InitAlive, NoSelf, ParentAlive, NoZombieUnnoticed, Zombies, Children, WaitFail, At, Goto
  <2>7. NothingLeaks'
    BY <1>0, <1>8 DEF IInv, TypeOK, ForkInv, Forking, NothingLeaks, WaitFail, At, Goto
  <2> QED
    BY <2>1, <2>2, <2>3, <2>4, <2>5, <2>6, <2>7 DEF IInv
<1>9. ASSUME NEW s \in Slot, WaitSleep(s) PROVE IInv'
  <2>1. TypeOK'
    BY <1>0, ProcAssumption, <1>9 DEF IInv, TypeOK, ForkInv, Forking, WaitSleep, At
  <2>2. ForkInv'
    BY <1>0, <1>9 DEF IInv, TypeOK, ForkInv, Forking, NothingLeaks, WaitSleep, At
  <2>3. InitAlive'
    BY <1>0, <1>9 DEF IInv, TypeOK, ForkInv, Forking, InitAlive, Alive, WaitSleep, At
  <2>4. NoSelf'
    BY <1>0, <1>9 DEF IInv, TypeOK, ForkInv, Forking, InitAlive, NoSelf, WaitSleep, At
  <2>5. ParentAlive'
    BY <1>0, <1>9 DEF IInv, TypeOK, ForkInv, Forking, InitAlive, Alive, ParentAlive, WaitSleep, At
  <2>6. NoZombieUnnoticed'
    BY <1>0, <1>9 DEF IInv, TypeOK, ForkInv, Forking, InitAlive, NoSelf, ParentAlive, NoZombieUnnoticed, Zombies, Children, WaitSleep, At
  <2>7. NothingLeaks'
    BY <1>0, <1>9 DEF IInv, TypeOK, ForkInv, Forking, NothingLeaks, WaitSleep, At
  <2> QED
    BY <2>1, <2>2, <2>3, <2>4, <2>5, <2>6, <2>7 DEF IInv
<1>10. ASSUME NEW s \in Slot, Unblock(s) PROVE IInv'
  <2>1. TypeOK'
    BY <1>0, ProcAssumption, <1>10 DEF IInv, TypeOK, ForkInv, Forking, Unblock, At, Goto
  <2>2. ForkInv'
    BY <1>0, <1>10 DEF IInv, TypeOK, ForkInv, Forking, NothingLeaks, Unblock, At, Goto
  <2>3. InitAlive'
    BY <1>0, <1>10 DEF IInv, TypeOK, ForkInv, Forking, InitAlive, Alive, Unblock, At, Goto
  <2>4. NoSelf'
    BY <1>0, <1>10 DEF IInv, TypeOK, ForkInv, Forking, InitAlive, NoSelf, Unblock, At, Goto
  <2>5. ParentAlive'
    BY <1>0, <1>10 DEF IInv, TypeOK, ForkInv, Forking, InitAlive, Alive, ParentAlive, Unblock, At, Goto
  <2>6. NoZombieUnnoticed'
    BY <1>0, <1>10 DEF IInv, TypeOK, ForkInv, Forking, InitAlive, NoSelf, ParentAlive, NoZombieUnnoticed, Zombies, Children, Unblock, At, Goto
  <2>7. NothingLeaks'
    BY <1>0, <1>10 DEF IInv, TypeOK, ForkInv, Forking, NothingLeaks, Unblock, At, Goto
  <2> QED
    BY <2>1, <2>2, <2>3, <2>4, <2>5, <2>6, <2>7 DEF IInv
<1>11. ASSUME NEW s \in Slot, ExitStart(s) PROVE IInv'
  <2>1. TypeOK'
    <3>1. pc' \in [Slot -> {"user", "stack", "copy", "publish", "exit", "wait", "blocked"}]
      BY <1>0, <1>11 DEF IInv, TypeOK, ExitStart, At, Goto, entry
    <3>2. panicked' \in BOOLEAN
      BY <1>0, <1>11 DEF IInv, TypeOK, ExitStart, At, Goto, entry
    <3> QED
      BY <1>0, <1>11, <3>1, <3>2 DEF IInv, TypeOK, ExitStart, At, Goto, entry
  <2>2. ForkInv'
    BY <1>0, <1>11 DEF IInv, TypeOK, ForkInv, Forking, NothingLeaks, ExitStart, At, Goto, entry
  <2>3. InitAlive'
    BY <1>0, <1>11 DEF IInv, TypeOK, ForkInv, Forking, InitAlive, Alive, ExitStart, At, Goto, entry
  <2>4. NoSelf'
    BY <1>0, <1>11 DEF IInv, TypeOK, ForkInv, Forking, InitAlive, NoSelf, ExitStart, At, Goto, entry
  <2>5. ParentAlive'
    BY <1>0, <1>11 DEF IInv, TypeOK, ForkInv, Forking, InitAlive, Alive, ParentAlive, ExitStart, At, Goto, entry
  <2>6. NoZombieUnnoticed'
    BY <1>0, <1>11 DEF IInv, TypeOK, ForkInv, Forking, InitAlive, NoSelf, ParentAlive, NoZombieUnnoticed, Zombies, Children, ExitStart, At, Goto, entry
  <2>7. NothingLeaks'
    BY <1>0, <1>11 DEF IInv, TypeOK, ForkInv, Forking, NothingLeaks, ExitStart, At, Goto, entry
  <2> QED
    BY <2>1, <2>2, <2>3, <2>4, <2>5, <2>6, <2>7 DEF IInv
<1>12. ASSUME NEW s \in Slot, WaitStart(s) PROVE IInv'
  <2>1. TypeOK'
    BY <1>0, ProcAssumption, <1>12 DEF IInv, TypeOK, ForkInv, Forking, WaitStart, AtUser, Goto, entry
  <2>2. ForkInv'
    BY <1>0, <1>12 DEF IInv, TypeOK, ForkInv, Forking, NothingLeaks, WaitStart, AtUser, Goto, entry
  <2>3. InitAlive'
    BY <1>0, <1>12 DEF IInv, TypeOK, ForkInv, Forking, InitAlive, Alive, WaitStart, AtUser, Goto, entry
  <2>4. NoSelf'
    BY <1>0, <1>12 DEF IInv, TypeOK, ForkInv, Forking, InitAlive, NoSelf, WaitStart, AtUser, Goto, entry
  <2>5. ParentAlive'
    BY <1>0, <1>12 DEF IInv, TypeOK, ForkInv, Forking, InitAlive, Alive, ParentAlive, WaitStart, AtUser, Goto, entry
  <2>6. NoZombieUnnoticed'
    BY <1>0, <1>12 DEF IInv, TypeOK, ForkInv, Forking, InitAlive, NoSelf, ParentAlive, NoZombieUnnoticed, Zombies, Children, WaitStart, AtUser, Goto, entry
  <2>7. NothingLeaks'
    BY <1>0, <1>12 DEF IInv, TypeOK, ForkInv, Forking, NothingLeaks, WaitStart, AtUser, Goto, entry
  <2> QED
    BY <2>1, <2>2, <2>3, <2>4, <2>5, <2>6, <2>7 DEF IInv
<1>13. ASSUME NEW s \in Slot, SleepOther(s) PROVE IInv'
  <2>1. TypeOK'
    BY <1>0, ProcAssumption, <1>13 DEF IInv, TypeOK, ForkInv, Forking, SleepOther, AtUser, Goto
  <2>2. ForkInv'
    BY <1>0, <1>13 DEF IInv, TypeOK, ForkInv, Forking, NothingLeaks, SleepOther, AtUser, Goto
  <2>3. InitAlive'
    BY <1>0, <1>13 DEF IInv, TypeOK, ForkInv, Forking, InitAlive, Alive, SleepOther, AtUser, Goto
  <2>4. NoSelf'
    BY <1>0, <1>13 DEF IInv, TypeOK, ForkInv, Forking, InitAlive, NoSelf, SleepOther, AtUser, Goto
  <2>5. ParentAlive'
    BY <1>0, <1>13 DEF IInv, TypeOK, ForkInv, Forking, InitAlive, Alive, ParentAlive, SleepOther, AtUser, Goto
  <2>6. NoZombieUnnoticed'
    BY <1>0, <1>13 DEF IInv, TypeOK, ForkInv, Forking, InitAlive, NoSelf, ParentAlive, NoZombieUnnoticed, Zombies, Children, SleepOther, AtUser, Goto
  <2>7. NothingLeaks'
    BY <1>0, <1>13 DEF IInv, TypeOK, ForkInv, Forking, NothingLeaks, SleepOther, AtUser, Goto
  <2> QED
    BY <2>1, <2>2, <2>3, <2>4, <2>5, <2>6, <2>7 DEF IInv
<1>14. ASSUME NEW s \in Slot, NEW v \in 0..MAXPID, Kill(s, v) PROVE IInv'
  <2> DEFINE n == First({u \in Slot : pid[u] = v})
  <2>0. n \in Slot
    BY <1>14, FirstIn DEF Kill
  <2>1. TypeOK'
    BY <1>0, ProcAssumption, <1>14, <2>0 DEF IInv, TypeOK, ForkInv, Forking, Kill, AtUser, Roused
  <2>2. ForkInv'
    BY <1>0, <1>14, <2>0 DEF IInv, TypeOK, ForkInv, Forking, NothingLeaks, Kill, AtUser, Roused
  <2>3. InitAlive'
    BY <1>0, <1>14, <2>0 DEF IInv, TypeOK, ForkInv, Forking, InitAlive, Alive, Kill, AtUser, Roused
  <2>4. NoSelf'
    BY <1>0, <1>14, <2>0 DEF IInv, TypeOK, ForkInv, Forking, InitAlive, NoSelf, Kill, AtUser, Roused
  <2>5. ParentAlive'
    BY <1>0, <1>14, <2>0 DEF IInv, TypeOK, ForkInv, Forking, InitAlive, Alive, ParentAlive, Kill, AtUser, Roused
  <2>6. NoZombieUnnoticed'
    BY <1>0, <1>14, <2>0 DEF IInv, TypeOK, ForkInv, Forking, InitAlive, NoSelf, ParentAlive, NoZombieUnnoticed, Zombies, Children, Kill, AtUser, Roused
  <2>7. NothingLeaks'
    BY <1>0, <1>14, <2>0 DEF IInv, TypeOK, ForkInv, Forking, NothingLeaks, Kill, AtUser, Roused
  <2> QED
    BY <2>1, <2>2, <2>3, <2>4, <2>5, <2>6, <2>7 DEF IInv
<1>15. ASSUME NEW s \in Slot, WakeOther(s) PROVE IInv'
  <2>1. TypeOK'
    BY <1>0, ProcAssumption, <1>15 DEF IInv, TypeOK, ForkInv, Forking, WakeOther
  <2>2. ForkInv'
    BY <1>0, <1>15 DEF IInv, TypeOK, ForkInv, Forking, NothingLeaks, WakeOther
  <2>3. InitAlive'
    BY <1>0, <1>15 DEF IInv, TypeOK, ForkInv, Forking, InitAlive, Alive, WakeOther
  <2>4. NoSelf'
    BY <1>0, <1>15 DEF IInv, TypeOK, ForkInv, Forking, InitAlive, NoSelf, WakeOther
  <2>5. ParentAlive'
    BY <1>0, <1>15 DEF IInv, TypeOK, ForkInv, Forking, InitAlive, Alive, ParentAlive, WakeOther
  <2>6. NoZombieUnnoticed'
    BY <1>0, <1>15 DEF IInv, TypeOK, ForkInv, Forking, InitAlive, NoSelf, ParentAlive, NoZombieUnnoticed, Zombies, Children, WakeOther
  <2>7. NothingLeaks'
    BY <1>0, <1>15 DEF IInv, TypeOK, ForkInv, Forking, NothingLeaks, WakeOther
  <2> QED
    BY <2>1, <2>2, <2>3, <2>4, <2>5, <2>6, <2>7 DEF IInv
<1> QED
  BY <1>1, <1>2, <1>3, <1>4, <1>5, <1>6, <1>7, <1>8, <1>9, <1>10, <1>11, <1>12, <1>13, <1>14, <1>15 DEF Next, Step, Call

\* The strengthened invariant holds of every reachable state.
THEOREM Invariant == Spec => []IInv
  BY Initially, Inductive, PTL DEF Spec

\* The fields of the process table, and the places a process can be in, keep
\* their types through every interleaving of fork, exit, wait and kill.
THEOREM TypeCorrect == Spec => []TypeOK
<1>1. IInv => TypeOK
  BY DEF IInv
<1> QED
  BY Invariant, <1>1, PTL

\* exit: whoever exits first, each process but init has a parent that is alive
\* and can wait for it.
THEOREM FamilyWhole == Spec => []ParentAlive
<1>1. IInv => ParentAlive
  BY DEF IInv
<1> QED
  BY Invariant, <1>1, PTL

\* exit and wait: nobody sleeps in wait with an exited child, own or inherited.
THEOREM NoneUnnoticed == Spec => []NoZombieUnnoticed
<1>1. IInv => NoZombieUnnoticed
  BY DEF IInv
<1> QED
  BY Invariant, <1>1, PTL

\* fork and wait: stack and page table of an entry go when it becomes UNUSED.
THEOREM NoLeaks == Spec => []NothingLeaks
<1>1. IInv => NothingLeaks
  BY DEF IInv
<1> QED
  BY Invariant, <1>1, PTL

\* fork: the entry allocproc claimed belongs to one fork until it is published
\* or abandoned.
THEOREM ForksApart == Spec => []EmbryoOwned
<1>1. IInv => EmbryoOwned
  BY DEF IInv, ForkInv, Forking, EmbryoOwned
<1> QED
  BY Invariant, <1>1, PTL

\* exit and wait: whatever the order of the exits, every child has a live parent
\* and no parent sleeps over an exit, for a process table of any size.
THEOREM FamilyAlwaysSafe == Spec => []FamilySafe
  BY FamilyWhole, NoneUnnoticed, PTL DEF FamilySafe

\* fork and wait: entries, stacks and page tables come and go together.
THEOREM NothingLost == Spec => []EntriesAccounted
  BY TypeCorrect, NoLeaks, ForksApart, PTL DEF EntriesAccounted

-----------------------------------------------------------------------------
(* The lab shell                                                           *)

JobStates == {"none", "running", "stopped", "interrupted", "zombie", "reaped"}

\* What waitpid() says of a child that ended or was interrupted.
Codes == {0, 2, 512}

Job == [pid : Pids, status : Codes \cup {RUNNING, SUSPENDED, TERMINATED}]

JobTypes ==
    /\ kids \in [Pids -> JobStates] /\ code \in [Pids -> Codes]
    /\ process_list \in Seq(Job)
    /\ waiting \in Seq(Pids \cup {-1})

\* Pids are given out in order.
PidsInOrder == \A p, q \in Pids : kids[p] = "none" /\ p <= q => kids[q] = "none"

\* A child that nobody collected is listed, or the shell still waits for it, or
\* it was given to kill.
Watched ==
    \A p \in Pids : kids[p] \notin {"none", "reaped"} =>
        \/ p \in condemned
        \/ \E i \in DOMAIN process_list : process_list[i].pid = p
        \/ \E i \in DOMAIN waiting : waiting[i] = p

\* What the list may hold: children, once each, none that an earlier listing
\* could have dropped; only kill marks one as ended before it is.
Listed ==
    /\ \A p \in collected : p \in Pids /\ kids[p] = "reaped"
    /\ \A i \in DOMAIN process_list :
           /\ kids[process_list[i].pid] # "none"
           /\ process_list[i].pid \notin collected
           /\ process_list[i].status = TERMINATED => process_list[i].pid \in condemned
    /\ \A i, j \in DOMAIN process_list :
           process_list[i].pid = process_list[j].pid => i = j

\* The variables, with the values they have.
Var == [name : Names, value : {varlist[i].value : i \in DOMAIN varlist}]

\* A variable that is set is on the list once, with its value.
Kept ==
    /\ varlist \in Seq(Var)
    /\ DOMAIN env = Names
    /\ \A i, j \in DOMAIN varlist : varlist[i].name = varlist[j].name => i = j
    /\ \A i \in DOMAIN varlist : env[varlist[i].name] = varlist[i].value
    /\ \A n \in Names : Places(n) = {} => env[n] = NULL

LabInv == JobTypes /\ PidsInOrder /\ Watched /\ Listed /\ Kept
-----------------------------------------------------------------------------
(* What stands at some places of a sequence.                               *)

Rank(S, i) == Cardinality({j \in S : j <= i})

\* The members of a finite set of numbers have the ranks 1, 2, ...
LEMMA Ranked ==
    ASSUME NEW n \in Nat, NEW S \in SUBSET (1 .. n)
    PROVE  /\ IsFiniteSet(S) /\ Cardinality(S) \in Nat
           /\ \A i \in S : Rank(S, i) \in 1 .. Cardinality(S)
           /\ \A i, j \in S : Rank(S, i) = Rank(S, j) => i = j
           /\ \A k \in 1 .. Cardinality(S) : \E i \in S : Rank(S, i) = k
<1>1. IsFiniteSet(S) /\ Cardinality(S) \in Nat
  <2>1. IsFiniteSet(1 .. n)
    BY FS_Interval
  <2>2. IsFiniteSet(S)
    BY <2>1, FS_Subset
  <2> QED
    BY <2>2, FS_CardinalityType
<1>2. ASSUME NEW i \in S PROVE Rank(S, i) \in 1 .. Cardinality(S)
  <2> DEFINE T == {j \in S : j <= i}
  <2>1. T \in SUBSET S /\ i \in T
    OBVIOUS
  <2>2. IsFiniteSet(T) /\ Cardinality(T) \in Nat /\ Cardinality(T) <= Cardinality(S)
    BY <1>1, <2>1, FS_Subset, FS_CardinalityType
  <2>3. Cardinality(T) # 0
    BY <2>1, <2>2, FS_EmptySet
  <2> QED
    BY <1>1, <2>2, <2>3 DEF Rank
<1>3. ASSUME NEW i \in S, NEW j \in S, i < j PROVE Rank(S, i) < Rank(S, j)
  <2> DEFINE T == {k \in S : k <= i}
             U == {k \in S : k <= j}
  <2>0. i \in Int /\ j \in Int /\ \A k \in S : k \in Int
    OBVIOUS
  <2>1. T \in SUBSET U /\ U \in SUBSET S /\ j \in U /\ j \notin T
    <3>1. \A k \in S : k <= i => k <= j
      BY <1>3, <2>0
    <3>2. ~(j <= i)
      BY <1>3, <2>0
    <3>3. j <= j
      BY <2>0
    <3> QED
      BY <3>1, <3>2, <3>3, Zenon
  <2>2. IsFiniteSet(U) /\ Cardinality(U) \in Nat
    BY <1>1, <2>1, FS_Subset, FS_CardinalityType
  <2>3. Cardinality(T) \in Nat /\ Cardinality(T) <= Cardinality(U) /\ Cardinality(U) # Cardinality(T)
    BY <2>1, <2>2, FS_Subset, FS_CardinalityType
  <2> QED
    BY <2>2, <2>3 DEF Rank
<1>4. \A i, j \in S : Rank(S, i) = Rank(S, j) => i = j
  <2> SUFFICES ASSUME NEW i \in S, NEW j \in S, Rank(S, i) = Rank(S, j), i # j PROVE FALSE
    OBVIOUS
  <2>1. i < j \/ j < i
    OBVIOUS
  <2>2. Rank(S, i) \in Int /\ Rank(S, j) \in Int
    BY <1>2
  <2> QED
    BY <1>3, <2>1, <2>2
<1>5. \A k \in 1 .. Cardinality(S) : \E i \in S : Rank(S, i) = k
  <2> DEFINE T == 1 .. Cardinality(S)
             f == [i \in S |-> Rank(S, i)]
  <2>1. f \in Injection(S, T)
    <3>1. f \in [S -> T]
      BY <1>2
    <3>2. \A i, j \in S : f[i] = f[j] => i = j
      BY <1>4
    <3> QED
      BY <3>1, <3>2 DEF Injection, IsInjective
  <2>2. IsFiniteSet(T) /\ Cardinality(T) = Cardinality(S)
    BY <1>1, FS_Interval
  <2>3. f \in Surjection(S, T)
    <3> HIDE DEF f, T
    <3> QED
      BY <2>1, <2>2, FS_Injection
  <2> QED
    BY <2>3 DEF Surjection
<1> QED
  BY <1>1, <1>2, <1>4, <1>5

\* Only keeps each place of S once.
LEMMA OnlyKeeps ==
    ASSUME NEW T, NEW s \in Seq(T), NEW S \in SUBSET DOMAIN s
    PROVE  /\ Only(s, S) \in Seq(T)
           /\ \E f \in [DOMAIN Only(s, S) -> S] :
                 /\ \A k \in DOMAIN Only(s, S) : Only(s, S)[k] = s[f[k]]
                 /\ \A k, l \in DOMAIN Only(s, S) : f[k] = f[l] => k = l
                 /\ \A i \in S : \E k \in DOMAIN Only(s, S) : f[k] = i
<1>1. DOMAIN s = 1 .. Len(s) /\ Len(s) \in Nat
  OBVIOUS
<1> DEFINE D == 1 .. Cardinality(S)
           f == [k \in D |-> CHOOSE i \in S : Rank(S, i) = k]
<1>2. /\ Cardinality(S) \in Nat
      /\ \A i \in S : Rank(S, i) \in D
      /\ \A i, j \in S : Rank(S, i) = Rank(S, j) => i = j
      /\ \A k \in D : \E i \in S : Rank(S, i) = k
  BY <1>1, Ranked
<1>3. Only(s, S) = [k \in D |-> s[f[k]]]
  BY DEF Only, Rank
<1>4. \A k \in D : f[k] \in S /\ Rank(S, f[k]) = k
  BY <1>2
<1>5. f \in [D -> S]
  BY <1>4
<1>6. Only(s, S) \in [D -> T] /\ DOMAIN Only(s, S) = D
  <2>1. \A k \in D : s[f[k]] \in T
    BY <1>1, <1>4
  <2> QED
    BY <1>3, <2>1
<1>7. Only(s, S) \in Seq(T)
  BY <1>2, <1>6
<1>8. \A k, l \in D : f[k] = f[l] => k = l
  BY <1>4
<1>9. \A i \in S : \E k \in D : f[k] = i
  <2> TAKE i \in S
  <2>1. Rank(S, i) \in D
    BY <1>2
  <2>2. f[Rank(S, i)] \in S /\ Rank(S, f[Rank(S, i)]) = Rank(S, i)
    BY <1>4, <2>1
  <2>3. f[Rank(S, i)] = i
    BY <1>2, <2>2
  <2> QED
    BY <2>1, <2>3
<1> HIDE DEF f, D
<1>10. \A k \in D : Only(s, S)[k] = s[f[k]]
  BY <1>3
<1> QED
  BY <1>5, <1>6, <1>7, <1>8, <1>9, <1>10

-----------------------------------------------------------------------------
\* The invariant holds at the first prompt.
LEMMA LabInitially == LabInit => LabInv
<1> SUFFICES ASSUME LabInit PROVE LabInv
  OBVIOUS
<1>1. JobTypes
  BY DEF LabInit, JobTypes, JobStates, Codes
<1>2. PidsInOrder /\ Watched /\ Listed
  BY DEF LabInit, PidsInOrder, Watched, Listed
<1>3. Kept
  BY DEF LabInit, Kept, Var, Places
<1> QED
  BY <1>1, <1>2, <1>3 DEF LabInv

\* A signal changes the state of one child, never to or from the ends.
LEMMA Signalled ==
    ASSUME JobTypes, NEW p \in Pids, NEW sig, Signal(p, sig)
    PROVE  /\ kids' \in [Pids -> JobStates] /\ code' \in [Pids -> Codes]
           /\ \A q \in Pids : kids'[q] = "none" <=> kids[q] = "none"
           /\ \A q \in Pids : kids'[q] = "reaped" <=> kids[q] = "reaped"
<1>1. PICK s \in AfterSignal(kids[p], sig) :
        /\ kids' = [kids EXCEPT ![p] = s]
        /\ code' = [code EXCEPT ![p] = IF s = "zombie" /\ kids[p] # s THEN SIGINT ELSE @]
  BY DEF Signal
<1>2. kids[p] \in JobStates
  BY DEF JobTypes
<1>3. /\ s \in JobStates
      /\ s = "none" <=> kids[p] = "none"
      /\ s = "reaped" <=> kids[p] = "reaped"
  BY <1>1, <1>2 DEF AfterSignal, JobStates
<1> QED
  BY <1>1, <1>3 DEF JobTypes, Codes, SIGINT

\* The list after one status was changed.
LEMMA Updated ==
    ASSUME JobTypes, NEW p \in Pids, NEW st \in {RUNNING, SUSPENDED, TERMINATED},
           updateProcessStatus(p, st)
    PROVE  /\ process_list' \in Seq(Job) /\ DOMAIN process_list' = DOMAIN process_list
           /\ \A i \in DOMAIN process_list :
                 /\ process_list'[i].pid = process_list[i].pid
                 /\ \/ process_list'[i].status = process_list[i].status
                    \/ process_list[i].pid = p /\ process_list'[i].status = st
<1>1. process_list \in Seq(Job) /\ DOMAIN process_list = 1 .. Len(process_list)
  BY DEF JobTypes
<1>2. \A i \in DOMAIN process_list : process_list[i] \in Job
  BY <1>1
<1>3. \A i \in DOMAIN process_list :
         [process_list[i] EXCEPT !.status = st] \in Job
  BY <1>2 DEF Job
<1>4. process_list' = [i \in DOMAIN process_list |->
        IF process_list[i].pid = p THEN [process_list[i] EXCEPT !.status = st]
        ELSE process_list[i]]
  BY DEF updateProcessStatus
<1>5. process_list' \in [1 .. Len(process_list) -> Job]
  BY <1>1, <1>2, <1>3, <1>4
<1>6. process_list' \in Seq(Job)
  BY <1>1, <1>5
<1>7. ASSUME NEW i \in DOMAIN process_list
      PROVE  /\ process_list'[i].pid = process_list[i].pid
             /\ \/ process_list'[i].status = process_list[i].status
                \/ process_list[i].pid = p /\ process_list'[i].status = st
  BY <1>2, <1>4 DEF Job
<1> QED
  BY <1>4, <1>6, <1>7

\* The entries of the list are jobs.
LEMMA JobsTyped ==
    ASSUME JobTypes
    PROVE  /\ DOMAIN process_list = 1 .. Len(process_list) /\ Len(process_list) \in Nat
           /\ \A i \in DOMAIN process_list : process_list[i] \in Job /\ process_list[i].pid \in Pids
<1>1. \A i \in DOMAIN process_list : process_list[i] \in Job
  BY DEF JobTypes
<1> QED
  BY <1>1 DEF JobTypes, Job

\* The list stays right when only children change.
LEMMA ListStays ==
    ASSUME LabInv, UNCHANGED <<process_list, collected, condemned>>,
           \A q \in Pids : kids'[q] = "none" <=> kids[q] = "none",
           \A q \in Pids : kids[q] = "reaped" => kids'[q] = "reaped"
    PROVE  Listed'
<1>1. Listed /\ \A i \in DOMAIN process_list : process_list[i].pid \in Pids
  BY JobsTyped DEF LabInv
<1>2. process_list' = process_list /\ collected' = collected /\ condemned' = condemned
  OBVIOUS
<1>3. \A p \in collected : p \in Pids /\ kids'[p] = "reaped"
  BY <1>1 DEF Listed
<1>4. \A i \in DOMAIN process_list : kids'[process_list[i].pid] # "none"
  BY <1>1 DEF Listed
<1>5. \A p \in collected' : p \in Pids /\ kids'[p] = "reaped"
  BY <1>2, <1>3
<1>6. \A i \in DOMAIN process_list' :
         /\ kids'[process_list'[i].pid] # "none"
         /\ process_list'[i].pid \notin collected'
         /\ process_list'[i].status = TERMINATED => process_list'[i].pid \in condemned'
  BY <1>1, <1>2, <1>4 DEF Listed
<1>7. \A i, j \in DOMAIN process_list' :
         process_list'[i].pid = process_list'[j].pid => i = j
  BY <1>1, <1>2 DEF Listed
<1> QED
  BY <1>5, <1>6, <1>7, Zenon DEF Listed

\* A program ends by itself.
LEMMA EndsKeeps == ASSUME LabInv, NEW p \in Pids, Ends(p) PROVE LabInv'
<1> USE DEF LabInv
<1>1. /\ kids' \in [Pids -> JobStates] /\ code' \in [Pids -> Codes]
      /\ \A q \in Pids : kids'[q] = "none" <=> kids[q] = "none"
      /\ \A q \in Pids : kids'[q] = "reaped" <=> kids[q] = "reaped"
  BY DEF Ends, JobTypes, JobStates, Codes
<1>2. JobTypes'
  BY <1>1 DEF Ends, JobTypes
<1>3. PidsInOrder'
  BY <1>1 DEF PidsInOrder
<1>4. Watched'
  BY <1>1 DEF Watched, Ends
<1>5. Listed'
  <2>1. UNCHANGED <<process_list, collected, condemned>>
    BY DEF Ends
  <2> QED
    BY <1>1, <2>1, ListStays
<1>6. Kept'
  BY DEF Kept, Var, Places, Ends
<1> QED
  BY <1>2, <1>3, <1>4, <1>5, <1>6

\* waitpid: the child waited for is collected, or was before.
LEMMA WaitKeeps == ASSUME LabInv, waitpid PROVE LabInv'
<1> USE DEF LabInv
<1> DEFINE id == Head(waiting)
<1>1. /\ waiting \in Seq(Pids \cup {-1}) /\ waiting # << >> /\ waiting' = Tail(waiting)
      /\ id \in Pids \cup {-1}
  BY DEF waitpid, JobTypes
<1>2. /\ waiting' \in Seq(Pids \cup {-1})
      /\ \A i \in DOMAIN waiting : waiting[i] = id \/ \E j \in DOMAIN waiting' : waiting'[j] = waiting[i]
  <2>1. waiting' \in Seq(Pids \cup {-1}) /\ Len(waiting') = Len(waiting) - 1
    BY <1>1
  <2>2. ASSUME NEW i \in DOMAIN waiting, i # 1
        PROVE  \E j \in DOMAIN waiting' : waiting'[j] = waiting[i]
    <3>1. i - 1 \in DOMAIN waiting' /\ waiting'[i - 1] = waiting[i]
      BY <1>1, <2>1, <2>2
    <3> QED
      BY <3>1
  <2> QED
    BY <1>1, <2>1, <2>2
<1>3. /\ kids' \in [Pids -> JobStates]
      /\ \A q \in Pids : kids'[q] = "none" <=> kids[q] = "none"
      /\ \A q \in Pids : kids'[q] = kids[q] \/ kids'[q] = "reaped"
      /\ \A q \in Pids : kids[q] = "reaped" => kids'[q] = "reaped"
      /\ id \in Pids => kids'[id] \in {"none", "reaped"}
  <2> DEFINE there == {p \in IF id = -1 THEN Pids ELSE {id} : kids[p] \notin {"none", "reaped"}}
  <2>1. CASE there = {} /\ UNCHANGED kids
    <3>1. id \in Pids => kids[id] \in {"none", "reaped"}
      BY <2>1 DEF Pids
    <3> QED
      BY <2>1, <3>1 DEF JobTypes
  <2>2. ASSUME NEW p \in there, kids[p] = "zombie", kids' = [kids EXCEPT ![p] = "reaped"]
        PROVE  <1>3!2 /\ <1>3!1 /\ <1>3!3 /\ <1>3!4 /\ <1>3!5
    <3>1. p \in Pids /\ (id \in Pids => p = id)
      BY <1>1, <2>2 DEF Pids
    <3> QED
      BY <2>2, <3>1 DEF JobTypes, JobStates
  <2> QED
    BY <2>1, <2>2 DEF waitpid
<1>4. JobTypes'
  BY <1>2, <1>3 DEF waitpid, JobTypes
<1>5. PidsInOrder'
  BY <1>3 DEF PidsInOrder
<1>6. Watched'
  <2>1. \A i \in DOMAIN waiting : waiting[i] \in Pids =>
          kids'[waiting[i]] \in {"none", "reaped"} \/ \E j \in DOMAIN waiting' : waiting'[j] = waiting[i]
    BY <1>2, <1>3, Zenon
  <2>2. UNCHANGED <<condemned, process_list>>
    BY DEF waitpid
  <2> QED
    BY <1>3, <2>1, <2>2 DEF Watched
<1>7. Listed'
  <2>1. UNCHANGED <<process_list, collected, condemned>>
    BY DEF waitpid
  <2> QED
    BY <1>3, <2>1, ListStays
<1>8. Kept'
  BY DEF Kept, Var, Places, waitpid
<1> QED
  BY <1>4, <1>5, <1>6, <1>7, <1>8

\* A program is started and listed first.
LEMMA ExecuteKeeps ==
    ASSUME LabInv, NEW c, NEW args, waiting = << >>, execute(c, args) PROVE LabInv'
<1> USE DEF LabInv
<1>0. Kept'
  BY DEF Kept, Var, Places, execute
<1>1. CASE gone' = TRUE /\ UNCHANGED <<kids, process_list, waiting>>
  <2>1. UNCHANGED <<kids, process_list, waiting, code, condemned, collected>>
    BY <1>1 DEF execute
  <2> QED
    BY <1>0, <2>1 DEF JobTypes, PidsInOrder, Watched, Listed
<1>2. ASSUME NEW p \in Pids, Fresh(p), StartAll({p}),
             process_list' = <<[pid |-> p, status |-> RUNNING]>> \o process_list,
             waiting' = IF c.blocking THEN <<p>> ELSE << >>
      PROVE  LabInv'
  <2> DEFINE e == [pid |-> p, status |-> RUNNING]
  <2>1. /\ kids[p] = "none" /\ \A q \in Pids : q < p => kids[q] # "none"
        /\ kids' = [kids EXCEPT ![p] = "running"]
        /\ UNCHANGED <<code, condemned, collected>>
    <3>1. kids[p] = "none" /\ \A q \in Pids : q < p => kids[q] # "none"
      BY <1>2 DEF Fresh, Unused, Pids
    <3>2. kids' = [kids EXCEPT ![p] = "running"]
      BY <1>2 DEF StartAll, JobTypes
    <3> QED
      BY <3>1, <3>2 DEF execute
  <2>2. /\ e \in Job /\ process_list' \in Seq(Job)
        /\ DOMAIN process_list' = 1 .. Len(process_list) + 1
        /\ process_list'[1] = e
        /\ \A i \in DOMAIN process_list : process_list'[i + 1] = process_list[i]
        /\ \A i \in DOMAIN process_list' : i # 1 =>
              i - 1 \in DOMAIN process_list /\ process_list'[i] = process_list[i - 1]
    <3>1. e \in Job /\ process_list \in Seq(Job)
      BY DEF Job, JobTypes
    <3>2. process_list' = <<e>> \o process_list
      BY <1>2
    <3> HIDE DEF e
    <3>3. <<e>> \in Seq(Job) /\ Len(<<e>>) = 1
      BY <3>1
    <3>4. process_list' \in Seq(Job) /\ Len(process_list') = Len(process_list) + 1
      BY <3>1, <3>2, <3>3, ConcatProperties
    <3>5. process_list'[1] = e /\ \A i \in 2 .. Len(process_list) + 1 : process_list'[i] = process_list[i - 1]
      BY <3>1, <3>2, <3>3, ConcatProperties
    <3>6. Len(process_list) \in Nat /\ DOMAIN process_list = 1 .. Len(process_list)
      BY <3>1
    <3>7. \A i \in DOMAIN process_list : process_list'[i + 1] = process_list[i]
      BY <3>5, <3>6
    <3>8. DOMAIN process_list' = 1 .. Len(process_list) + 1
      BY <3>4
    <3> QED
      BY <3>1, <3>4, <3>5, <3>6, <3>7, <3>8
  <2>3. JobTypes'
    <3>1. kids' \in [Pids -> JobStates]
      BY <2>1 DEF JobTypes, JobStates
    <3>2. waiting' = <<p>> \/ waiting' = << >>
      BY <1>2
    <3>3. <<p>> \in Seq(Pids \cup {-1}) /\ << >> \in Seq(Pids \cup {-1})
      OBVIOUS
    <3> QED
      BY <2>1, <2>2, <3>1, <3>2, <3>3 DEF JobTypes
  <2>4. PidsInOrder'
    BY <2>1 DEF PidsInOrder, Pids
  <2>5. Watched'
    <3>1. process_list'[1].pid = p /\ 1 \in DOMAIN process_list'
      BY <2>2, JobsTyped
    <3>2. \A i \in DOMAIN process_list : \E j \in DOMAIN process_list' :
             process_list'[j].pid = process_list[i].pid
      <4> TAKE i \in DOMAIN process_list
      <4>1. i + 1 \in DOMAIN process_list' /\ process_list'[i + 1].pid = process_list[i].pid
        BY <2>2, JobsTyped
      <4> QED
        BY <4>1
    <3>3. DOMAIN waiting = {}
      OBVIOUS
    <3> QED
      BY <2>1, <3>1, <3>2, <3>3 DEF Watched, JobTypes
  <2>6. Listed'
    <3>1. \A i \in DOMAIN process_list : process_list[i].pid \in Pids \ {p}
      BY <2>1, JobsTyped DEF Listed
    <3>2. \A q \in collected' : q \in Pids /\ kids'[q] = "reaped"
      BY <2>1 DEF Listed, JobTypes
    <3>3. ASSUME NEW i \in DOMAIN process_list'
          PROVE  /\ kids'[process_list'[i].pid] # "none"
                 /\ process_list'[i].pid \notin collected'
                 /\ process_list'[i].status = TERMINATED => process_list'[i].pid \in condemned'
      <4>1. CASE i = 1
        BY <2>1, <2>2, <4>1 DEF Listed, JobTypes, RUNNING, TERMINATED
      <4>2. CASE i # 1
        BY <2>1, <2>2, <3>1, <4>2 DEF Listed, JobTypes
      <4> QED
        BY <4>1, <4>2
    <3>4. ASSUME NEW i \in DOMAIN process_list', NEW j \in DOMAIN process_list',
                 process_list'[i].pid = process_list'[j].pid
          PROVE  i = j
      <4>1. i = 1 <=> j = 1
        BY <2>2, <3>1, <3>4
      <4>2. CASE i # 1 /\ j # 1
        <5>1. i - 1 = j - 1
          BY <2>2, <3>4, <4>2 DEF Listed
        <5> QED
          BY <2>2, <5>1
      <4> QED
        BY <4>1, <4>2
    <3> QED
      BY <3>2, <3>3, <3>4 DEF Listed
  <2> QED
    BY <1>0, <2>3, <2>4, <2>5, <2>6
<1> QED
  BY <1>1, <1>2 DEF execute

\* Two programs are started and waited for; they are never listed.
LEMMA ExecutePipeKeeps ==
    ASSUME LabInv, NEW c, NEW args, waiting = << >>, executePipe(c, args) PROVE LabInv'
<1> USE DEF LabInv
<1>0. Kept' /\ UNCHANGED <<process_list, code, condemned, collected>>
  BY DEF Kept, Var, Places, executePipe
<1>1. CASE gone' = TRUE /\ UNCHANGED <<kids, waiting>>
  BY <1>0, <1>1 DEF JobTypes, PidsInOrder, Watched, Listed
<1>2. ASSUME NEW p \in Pids \cup {-1}, NEW q \in Pids \cup {-1},
             p = -1 \/ Fresh(p),
             q = -1 \/ (IF p = -1 THEN Fresh(q) ELSE q = p + 1),
             StartAll({p, q}), waiting' = <<p, q>>
      PROVE  LabInv'
  <2>1. \A r \in Pids : r \in {p, q} => kids[r] = "none" /\ kids'[r] = "running"
    BY <1>2 DEF Fresh, Unused, StartAll, Pids, PidsInOrder
  <2>2. \A r \in Pids : r \notin {p, q} => kids'[r] = kids[r]
    BY <1>2 DEF StartAll
  <2>3. \A r, s \in Pids : kids[s] = "none" /\ s \notin {p, q} /\ r \in {p, q} => r < s
    BY <1>2 DEF Fresh, Unused, Pids, PidsInOrder
  <2>4. JobTypes'
    <3>1. kids' \in [Pids -> JobStates]
      BY <1>2 DEF StartAll, JobTypes, JobStates
    <3> QED
      BY <1>0, <1>2, <3>1 DEF JobTypes
  <2>5. PidsInOrder'
    BY <2>1, <2>2, <2>3 DEF PidsInOrder, Pids
  <2>6. Watched'
    <3>1. DOMAIN waiting = {}
      OBVIOUS
    <3>2. DOMAIN waiting' = 1 .. 2 /\ waiting'[1] = p /\ waiting'[2] = q
      BY <1>2
    <3> QED
      BY <1>0, <2>1, <2>2, <3>1, <3>2 DEF Watched
  <2>7. Listed'
    <3>1. \A i \in DOMAIN process_list : process_list[i].pid \in Pids
      BY JobsTyped
    <3>2. \A r \in collected' : r \in Pids /\ kids'[r] = "reaped"
      BY <1>0, <2>1, <2>2 DEF Listed
    <3>3. \A i \in DOMAIN process_list : kids'[process_list[i].pid] # "none"
      BY <2>1, <2>2, <3>1 DEF Listed
    <3> QED
      BY <1>0, <3>2, <3>3 DEF Listed
  <2> QED
    BY <1>0, <2>4, <2>5, <2>6, <2>7
<1> QED
  BY <1>1, <1>2 DEF executePipe

\* suspend, kill and wake.
LEMMA JobCommandKeeps ==
    ASSUME LabInv, NEW p \in Pids, NEW sig, NEW st \in {RUNNING, SUSPENDED, TERMINATED},
           Signal(p, sig), updateProcessStatus(p, st),
           UNCHANGED <<waiting, varlist, collected, env>>,
           condemned \subseteq condemned',
           st = TERMINATED => p \in condemned' \/ kids[p] = "none"
    PROVE  LabInv'
<1> USE DEF LabInv
<1>1. /\ kids' \in [Pids -> JobStates] /\ code' \in [Pids -> Codes]
      /\ \A q \in Pids : kids'[q] = "none" <=> kids[q] = "none"
      /\ \A q \in Pids : kids'[q] = "reaped" <=> kids[q] = "reaped"
  BY Signalled
<1>2. /\ process_list' \in Seq(Job) /\ DOMAIN process_list' = DOMAIN process_list
      /\ \A i \in DOMAIN process_list :
            /\ process_list'[i].pid = process_list[i].pid
            /\ \/ process_list'[i].status = process_list[i].status
               \/ process_list[i].pid = p /\ process_list'[i].status = st
  BY Updated
<1>3. JobTypes'
  BY <1>1, <1>2 DEF JobTypes
<1>4. PidsInOrder'
  BY <1>1 DEF PidsInOrder
<1>5. Watched'
  BY <1>1, <1>2 DEF Watched
<1>6. Listed'
  <2>1. \A i \in DOMAIN process_list : process_list[i].pid \in Pids
    BY JobsTyped
  <2>2. \A r \in collected' : r \in Pids /\ kids'[r] = "reaped"
    BY <1>1 DEF Listed
  <2>3. ASSUME NEW i \in DOMAIN process_list'
        PROVE  /\ kids'[process_list'[i].pid] # "none"
               /\ process_list'[i].pid \notin collected'
               /\ process_list'[i].status = TERMINATED => process_list'[i].pid \in condemned'
    BY <1>1, <1>2, <2>1 DEF Listed
  <2>4. \A i, j \in DOMAIN process_list' : process_list'[i].pid = process_list'[j].pid => i = j
    BY <1>2 DEF Listed
  <2> QED
    BY <2>2, <2>3, <2>4 DEF Listed
<1>7. Kept'
  BY DEF Kept, Var, Places
<1> QED
  BY <1>3, <1>4, <1>5, <1>6, <1>7

\* A listing: collect, show, and drop what is TERMINATED.
LEMMA ProcsKeeps ==
    ASSUME LabInv, NEW args, waiting = << >>, printProcessList(args) PROVE LabInv'
<1> USE DEF LabInv
<1> DEFINE now == [i \in DOMAIN process_list |->
                      [process_list[i] EXCEPT !.status = StatusNow(process_list[i])]]
           stay == {i \in DOMAIN process_list : StatusNow(process_list[i]) # TERMINATED}
<1>0. /\ process_list' = Only(now, stay)
      /\ UNCHANGED <<waiting, varlist, code, condemned, env>>
      /\ collected' = {p \in Pids : kids[p] = "reaped"}
  BY DEF printProcessList
<1>1. /\ kids' \in [Pids -> JobStates]
      /\ \A q \in Pids : kids'[q] = "none" <=> kids[q] = "none"
      /\ \A q \in Pids : kids[q] = "reaped" => kids'[q] = "reaped"
      /\ \A q \in Pids : kids'[q] # "reaped" => kids'[q] = kids[q]
      /\ \A i \in DOMAIN process_list : kids[process_list[i].pid] = "zombie" =>
            kids'[process_list[i].pid] = "reaped"
  <2>1. kids' = [p \in Pids |-> IF kids[p] = "zombie" /\ \E i \in DOMAIN process_list :
                                                              process_list[i].pid = p
                               THEN "reaped" ELSE kids[p]]
    BY DEF printProcessList
  <2>2. \A i \in DOMAIN process_list : process_list[i].pid \in Pids
    BY JobsTyped
  <2> QED
    BY <2>1, <2>2 DEF JobTypes, JobStates
<1>2. ASSUME NEW i \in DOMAIN process_list
      PROVE  /\ now[i] \in Job /\ now[i].pid = process_list[i].pid
             /\ now[i].status = StatusNow(process_list[i])
             /\ StatusNow(process_list[i]) = TERMINATED <=>
                   \/ kids[process_list[i].pid] = "reaped"
                   \/ kids[process_list[i].pid] # "zombie" /\ process_list[i].status = TERMINATED
  <2> DEFINE e == process_list[i]
  <2>1. e \in Job /\ e.pid \in Pids
    BY JobsTyped
  <2>2. code[e.pid] \in Codes /\ e.status \in Codes \cup {RUNNING, SUSPENDED, TERMINATED}
    BY <2>1 DEF JobTypes, Job
  <2>3. /\ StatusNow(e) \in Codes \cup {RUNNING, SUSPENDED, TERMINATED}
        /\ StatusNow(e) = TERMINATED <=>
              \/ kids[e.pid] = "reaped"
              \/ kids[e.pid] # "zombie" /\ e.status = TERMINATED
    <3> DEFINE st == IF kids[e.pid] = "zombie" THEN code[e.pid] ELSE e.status
    <3>1. st \in {-1, 0, 1, 2, 512}
      BY <2>2 DEF Codes, RUNNING, SUSPENDED, TERMINATED
    <3>2. st % 256 # 127 /\ st # 65535
      BY <3>1
    <3>3. StatusNow(e) = IF kids[e.pid] = "reaped" THEN TERMINATED ELSE st
      BY <3>2 DEF StatusNow, WIFSTOPPED, WIFCONTINUED
    <3> QED
      BY <2>2, <3>3 DEF Codes, TERMINATED
  <2>4. now[i] = [e EXCEPT !.status = StatusNow(e)]
    OBVIOUS
  <2> HIDE DEF e, now
  <2>5. now[i] \in Job /\ now[i].pid = e.pid /\ now[i].status = StatusNow(e)
    BY <2>1, <2>3, <2>4 DEF Job
  <2> QED
    BY <2>3, <2>5 DEF e
<1>3. now \in Seq(Job) /\ DOMAIN now = DOMAIN process_list /\ stay \in SUBSET DOMAIN now
  BY <1>2, JobsTyped
<1>4. /\ process_list' \in Seq(Job)
      /\ \E f \in [DOMAIN process_list' -> stay] :
            /\ \A k \in DOMAIN process_list' : process_list'[k] = now[f[k]]
            /\ \A k, l \in DOMAIN process_list' : f[k] = f[l] => k = l
            /\ \A i \in stay : \E k \in DOMAIN process_list' : f[k] = i
  <2> HIDE DEF now, stay
  <2> QED
    BY <1>0, <1>3, OnlyKeeps
<1>5. PICK f \in [DOMAIN process_list' -> stay] :
         /\ \A k \in DOMAIN process_list' : process_list'[k] = now[f[k]]
         /\ \A k, l \in DOMAIN process_list' : f[k] = f[l] => k = l
         /\ \A i \in stay : \E k \in DOMAIN process_list' : f[k] = i
  BY <1>4
<1>6. \A k \in DOMAIN process_list' :
         /\ f[k] \in DOMAIN process_list /\ StatusNow(process_list[f[k]]) # TERMINATED
         /\ process_list'[k].pid = process_list[f[k]].pid
         /\ process_list'[k].status # TERMINATED
  <2> TAKE k \in DOMAIN process_list'
  <2>1. f[k] \in stay
    BY <1>5
  <2>2. f[k] \in DOMAIN process_list /\ StatusNow(process_list[f[k]]) # TERMINATED
    BY <2>1
  <2>3. process_list'[k] = now[f[k]]
    BY <1>5
  <2> HIDE DEF now, stay
  <2> QED
    BY <1>2, <2>2, <2>3
<1> HIDE DEF now, stay
<1>7. JobTypes'
  BY <1>0, <1>1, <1>4 DEF JobTypes
<1>8. PidsInOrder'
  BY <1>1 DEF PidsInOrder
<1>9. Watched'
  <2> SUFFICES ASSUME NEW p \in Pids, kids'[p] \notin {"none", "reaped"}, p \notin condemned
               PROVE  \E k \in DOMAIN process_list' : process_list'[k].pid = p
    BY <1>0 DEF Watched
  <2>1. kids[p] = kids'[p]
    BY <1>1
  <2>2. PICK i \in DOMAIN process_list : process_list[i].pid = p
    BY <2>1 DEF Watched
  <2>3. kids[p] # "zombie"
    BY <1>1, <2>1, <2>2
  <2>4. process_list[i].status # TERMINATED
    BY <2>2 DEF Listed
  <2>5. i \in stay
    BY <1>2, <2>1, <2>2, <2>3, <2>4 DEF stay
  <2>6. PICK k \in DOMAIN process_list' : f[k] = i
    BY <1>5, <2>5
  <2> QED
    BY <1>6, <2>2, <2>6
<1>10. Listed'
  <2>1. \A r \in collected' : r \in Pids /\ kids'[r] = "reaped"
    BY <1>0, <1>1
  <2>2. ASSUME NEW k \in DOMAIN process_list'
        PROVE  /\ kids'[process_list'[k].pid] # "none"
               /\ process_list'[k].pid \notin collected'
               /\ process_list'[k].status # TERMINATED
    <3> DEFINE i == f[k]
    <3>1. i \in DOMAIN process_list /\ process_list'[k].pid = process_list[i].pid
      BY <1>6
    <3>2. process_list[i].pid \in Pids /\ kids[process_list[i].pid] # "none"
      BY <3>1, JobsTyped DEF Listed
    <3>3. kids[process_list[i].pid] # "reaped"
      BY <1>2, <1>6
    <3> QED
      BY <1>0, <1>1, <1>6, <3>1, <3>2, <3>3
  <2>3. ASSUME NEW k \in DOMAIN process_list', NEW l \in DOMAIN process_list',
               process_list'[k].pid = process_list'[l].pid
        PROVE  k = l
    <3>1. f[k] = f[l]
      BY <1>6, <2>3 DEF Listed
    <3> QED
      BY <1>5, <3>1
  <2> QED
    BY <2>1, <2>2, <2>3 DEF Listed
<1>11. Kept'
  BY <1>0 DEF Kept, Var, Places
<1> QED
  BY <1>7, <1>8, <1>9, <1>10, <1>11

\* What a sequence is.
LEMMA OfSeq ==
    ASSUME NEW S, NEW s \in Seq(S)
    PROVE  /\ Len(s) \in Nat /\ DOMAIN s = 1 .. Len(s)
           /\ s = [i \in DOMAIN s |-> s[i]] /\ \A i \in DOMAIN s : s[i] \in S
OBVIOUS

\* The type of the variables says no more than that they have names.
LEMMA Retyped ==
    ASSUME NEW V, varlist' \in Seq([name : Names, value : V]), DOMAIN env' = Names,
           \A i, j \in DOMAIN varlist' : varlist'[i].name = varlist'[j].name => i = j,
           \A i \in DOMAIN varlist' :
              varlist'[i].name \in Names /\ env'[varlist'[i].name] = varlist'[i].value,
           \A n \in Names : Places(n)' = {} => env'[n] = NULL
    PROVE  Kept'
<1> DEFINE R == [name : Names, value : V]
<1>1. /\ Len(varlist') \in Nat /\ DOMAIN varlist' = 1 .. Len(varlist')
      /\ varlist' = [i \in DOMAIN varlist' |-> varlist'[i]]
      /\ \A i \in DOMAIN varlist' : varlist'[i] \in R
  <2>1. varlist' \in Seq(R)
    OBVIOUS
  <2> HIDE DEF R
  <2> QED
    BY <2>1, OfSeq
<1>2. \A i \in DOMAIN varlist' : varlist'[i] \in Var'
  BY <1>1 DEF Var
<1>3. varlist' \in [1 .. Len(varlist') -> Var']
  BY <1>1, <1>2
<1>4. varlist' \in Seq(Var')
  BY <1>1, <1>3, SeqDef
<1> QED
  BY <1>4 DEF Kept

\* Where a variable is, is the only place its name is at.
LEMMA OnePlace ==
    ASSUME Kept, NEW i \in DOMAIN varlist
    PROVE  LET n == varlist[i].name
           IN  n \in Names /\ Places(n) = {i}
<1>1. varlist[i].name \in Names
  <2>1. varlist[i] \in Var
    BY OfSeq DEF Kept
  <2> QED
    BY <2>1 DEF Var
<1> QED
  BY <1>1 DEF Kept, Var, Places

\* The first place of a name is its place.
LEMMA FirstPlace ==
    ASSUME Kept, NEW n \in Names, Places(n) # {}
    PROVE  LET k == CHOOSE i \in Places(n) : \A j \in Places(n) : i <= j
           IN  k \in DOMAIN varlist /\ varlist[k].name = n /\ Places(n) = {k}
<1>1. PICK i \in DOMAIN varlist : varlist[i].name = n
  BY DEF Places
<1>2. Places(n) = {i}
  BY <1>1, OnePlace
<1>3. i <= i
  BY DEF Kept
<1>4. (CHOOSE k \in Places(n) : \A j \in Places(n) : k <= j) = i
  BY <1>2, <1>3
<1> QED
  BY <1>1, <1>2, <1>4

\* set: the value is changed where the name is, or put at the end.
LEMMA SetKeeps == ASSUME LabInv, NEW args, Set(args) PROVE LabInv'
<1> USE DEF LabInv
<1> DEFINE n == args[2]
           v == args[3]
           V == {varlist[i].value : i \in DOMAIN varlist} \cup {v}
           Vars == [name : Names, value : V]
<1>1. /\ n \in Names /\ addVar(n, v) /\ env' = [env EXCEPT ![n] = v]
      /\ UNCHANGED <<waiting, process_list, kids, code, condemned, collected>>
  BY DEF Set
<1>2. JobTypes' /\ PidsInOrder' /\ Watched' /\ Listed'
  BY <1>1 DEF JobTypes, PidsInOrder, Watched, Listed
<1>3. /\ varlist \in Seq(Vars) /\ DOMAIN varlist = 1 .. Len(varlist) /\ Len(varlist) \in Nat
      /\ \A i \in DOMAIN varlist : varlist[i].name \in Names /\ varlist[i] \in Vars
  <2>1. Var \subseteq Vars
    BY DEF Var
  <2>2. varlist \in Seq(Vars)
    <3> HIDE DEF Vars
    <3> QED
      BY <2>1, SeqMonotonic, OfSeq DEF Kept
  <2>3. \A i \in DOMAIN varlist : varlist[i].name \in Names
    BY OnePlace
  <2> QED
    <3> HIDE DEF Vars
    <3> QED
      BY <2>2, <2>3, OfSeq
<1>4. DOMAIN env' = Names /\ env'[n] = v /\ \A m \in Names \ {n} : env'[m] = env[m]
  BY <1>1 DEF Kept
<1>5. CASE Places(n) = {}
  <2> DEFINE e == [name |-> n, value |-> v]
  <2>1. varlist' = Append(varlist, e) /\ e \in Vars
    BY <1>1, <1>5 DEF addVar
  <2>2. /\ varlist' \in Seq(Vars)
        /\ DOMAIN varlist' = 1 .. Len(varlist) + 1 /\ varlist'[Len(varlist) + 1] = e
        /\ \A i \in DOMAIN varlist : varlist'[i] = varlist[i]
    <3> HIDE DEF e, Vars
    <3> QED
      BY <1>3, <2>1
  <2>3. \A i \in DOMAIN varlist : varlist[i].name # n
    BY <1>5 DEF Places
  <2>4. \A i, j \in DOMAIN varlist' : varlist'[i].name = varlist'[j].name => i = j
    <3>1. \A i \in DOMAIN varlist' : i \in DOMAIN varlist \/ i = Len(varlist) + 1
      BY <1>3, <2>2
    <3>2. \A i \in DOMAIN varlist : varlist'[i].name = varlist[i].name /\ varlist[i].name # n
      BY <2>2, <2>3
    <3>3. varlist'[Len(varlist) + 1].name = n
      BY <2>2
    <3>4. \A i, j \in DOMAIN varlist : varlist[i].name = varlist[j].name => i = j
      BY DEF Kept
    <3> HIDE DEF n
    <3> QED
      BY <3>1, <3>2, <3>3, <3>4
  <2>5. \A i \in DOMAIN varlist' :
           varlist'[i].name \in Names /\ env'[varlist'[i].name] = varlist'[i].value
    <3> TAKE i \in DOMAIN varlist'
    <3>1. CASE i = Len(varlist) + 1
      BY <1>1, <1>4, <2>2, <3>1
    <3>2. CASE i \in DOMAIN varlist
      BY <1>3, <1>4, <2>2, <2>3, <3>2 DEF Kept
    <3> QED
      BY <1>3, <2>2, <3>1, <3>2
  <2>6. \A m \in Names : Places(m)' = {} => env'[m] = NULL
    <3> TAKE m \in Names
    <3>1. CASE m = n
      <4>1. Len(varlist) + 1 \in Places(n)'
        BY <1>3, <2>2 DEF Places
      <4> QED
        BY <3>1, <4>1
    <3>2. CASE m # n
      <4>1. Places(m) \subseteq Places(m)'
        BY <1>3, <2>2 DEF Places
      <4> QED
        BY <1>4, <3>2, <4>1 DEF Kept
    <3> QED
      BY <3>1, <3>2
  <2>7. Kept'
    BY <1>4, <2>2, <2>4, <2>5, <2>6, Retyped
  <2> QED
    BY <1>2, <2>7
<1>6. CASE Places(n) # {}
  <2> DEFINE k == CHOOSE i \in Places(n) : \A j \in Places(n) : i <= j
  <2>1. k \in DOMAIN varlist /\ varlist[k].name = n /\ Places(n) = {k}
    BY <1>1, <1>6, FirstPlace
  <2>2. varlist' = [varlist EXCEPT ![k].value = v]
    BY <1>1, <1>6 DEF addVar
  <2> HIDE DEF k
  <2>3. [varlist[k] EXCEPT !.value = v] = [name |-> n, value |-> v]
    BY <1>3, <2>1
  <2>4. /\ varlist' \in Seq(Vars) /\ DOMAIN varlist' = DOMAIN varlist
        /\ varlist'[k] = [name |-> n, value |-> v]
        /\ \A i \in DOMAIN varlist : i # k => varlist'[i] = varlist[i] /\ varlist[i].name # n
    <3>1. [name |-> n, value |-> v] \in Vars
      BY <1>1
    <3>2. \A i \in DOMAIN varlist : i # k => varlist[i].name # n
      BY <2>1 DEF Places
    <3> HIDE DEF Vars
    <3> QED
      BY <1>3, <2>1, <2>2, <2>3, <3>1, <3>2
  <2>5. \A i \in DOMAIN varlist : varlist'[i].name = varlist[i].name
    BY <2>1, <2>4
  <2>6. \A i, j \in DOMAIN varlist' : varlist'[i].name = varlist'[j].name => i = j
    BY <2>4, <2>5 DEF Kept
  <2>7. \A i \in DOMAIN varlist' :
           varlist'[i].name \in Names /\ env'[varlist'[i].name] = varlist'[i].value
    <3> TAKE i \in DOMAIN varlist'
    <3>1. CASE i = k
      BY <1>1, <1>4, <2>4, <3>1
    <3>2. CASE i # k
      BY <1>3, <1>4, <2>4, <3>2 DEF Kept
    <3> QED
      BY <3>1, <3>2
  <2>8. \A m \in Names : Places(m)' = {} => env'[m] = NULL
    <3> TAKE m \in Names
    <3>1. Places(m)' = Places(m)
      BY <2>4, <2>5 DEF Places
    <3> QED
      BY <1>4, <1>6, <3>1 DEF Kept
  <2>9. Kept'
    BY <1>4, <2>4, <2>6, <2>7, <2>8, Retyped
  <2> QED
    BY <1>2, <2>9
<1> QED
  BY <1>5, <1>6

\* delete: what has the name is taken off.
LEMMA DeleteKeeps == ASSUME LabInv, NEW args, Delete(args) PROVE LabInv'
<1> USE DEF LabInv
<1> DEFINE n == args[2]
           V == {varlist[i].value : i \in DOMAIN varlist}
           Vars == [name : Names, value : V]
           S == DOMAIN varlist \ Places(n)
<1>1. /\ n \in Names /\ varlist' = Only(varlist, S) /\ env' = [env EXCEPT ![n] = NULL]
      /\ UNCHANGED <<waiting, process_list, kids, code, condemned, collected>>
  BY DEF Delete, delete
<1>2. JobTypes' /\ PidsInOrder' /\ Watched' /\ Listed'
  BY <1>1 DEF JobTypes, PidsInOrder, Watched, Listed
<1>3. varlist \in Seq(Vars) /\ S \in SUBSET DOMAIN varlist
  BY DEF Kept, Var
<1>4. \A i \in S : varlist[i].name \in Names \ {n}
  BY OnePlace DEF Places
<1>5. /\ varlist' \in Seq(Vars)
      /\ \E f \in [DOMAIN varlist' -> S] :
            /\ \A k \in DOMAIN varlist' : varlist'[k] = varlist[f[k]]
            /\ \A k, l \in DOMAIN varlist' : f[k] = f[l] => k = l
            /\ \A i \in S : \E k \in DOMAIN varlist' : f[k] = i
  <2> HIDE DEF Vars, S
  <2> QED
    BY <1>1, <1>3, OnlyKeeps
<1>6. PICK f \in [DOMAIN varlist' -> S] :
         /\ \A k \in DOMAIN varlist' : varlist'[k] = varlist[f[k]]
         /\ \A k, l \in DOMAIN varlist' : f[k] = f[l] => k = l
         /\ \A i \in S : \E k \in DOMAIN varlist' : f[k] = i
  BY <1>5
<1>7. DOMAIN env' = Names /\ env'[n] = NULL /\ \A m \in Names \ {n} : env'[m] = env[m]
  BY <1>1 DEF Kept
<1>8. \A k, l \in DOMAIN varlist' : varlist'[k].name = varlist'[l].name => k = l
  BY <1>6 DEF Kept
<1>9. \A k \in DOMAIN varlist' :
         varlist'[k].name \in Names /\ env'[varlist'[k].name] = varlist'[k].value
  BY <1>4, <1>6, <1>7 DEF Kept
<1>10. \A m \in Names : Places(m)' = {} => env'[m] = NULL
  <2> SUFFICES ASSUME NEW m \in Names, m # n, Places(m)' = {} PROVE Places(m) = {}
    BY <1>7 DEF Kept
  <2>1. ASSUME NEW i \in Places(m) PROVE FALSE
    <3>1. i \in S /\ varlist[i].name = m
      BY <2>1 DEF Places
    <3>2. PICK k \in DOMAIN varlist' : f[k] = i
      BY <1>6, <3>1
    <3>3. varlist'[k].name = m
      BY <1>6, <3>1, <3>2
    <3> QED
      BY <3>3 DEF Places
  <2> QED
    BY <2>1
<1>11. Kept'
  BY <1>5, <1>7, <1>8, <1>9, <1>10, Retyped
<1> QED
  BY <1>2, <1>11

\* Every line typed at the prompt keeps the invariant.
LEMMA LineKeeps ==
    ASSUME LabInv, Prompt, NEW c, NEW args, Line(c, args) PROVE LabInv'
<1>0. waiting = << >>
  BY DEF Prompt
<1>1. CASE execute(c, args)
  BY <1>0, <1>1, ExecuteKeeps
<1>2. CASE executePipe(c, args)
  BY <1>0, <1>2, ExecutePipeKeeps
<1>3. CASE printProcessList(args)
  BY <1>0, <1>3, ProcsKeeps
<1>4. ASSUME args[2] \in DOMAIN PidOf PROVE PidOf[args[2]] \in Pids
  BY <1>4, LabAssumption DEF Pids
<1>5. CASE Suspend(args)
  <2>1. /\ PidOf[args[2]] \in Pids /\ Signal(PidOf[args[2]], "TSTP")
        /\ updateProcessStatus(PidOf[args[2]], SUSPENDED)
        /\ UNCHANGED <<waiting, varlist, collected, env>> /\ UNCHANGED condemned
    BY <1>4, <1>5 DEF Suspend, JobCommand
  <2> QED
    BY <2>1, JobCommandKeeps DEF SUSPENDED, TERMINATED
<1>6. CASE KillJob(args)
  <2>1. /\ PidOf[args[2]] \in Pids /\ Signal(PidOf[args[2]], "INT")
        /\ updateProcessStatus(PidOf[args[2]], TERMINATED)
        /\ UNCHANGED <<waiting, varlist, collected, env>>
    BY <1>4, <1>6 DEF KillJob, JobCommand
  <2>2. /\ condemned \subseteq condemned'
        /\ PidOf[args[2]] \in condemned' \/ kids[PidOf[args[2]]] = "none"
    BY <1>6 DEF KillJob
  <2> QED
    BY <2>1, <2>2, JobCommandKeeps
<1>7. CASE Wake(args)
  <2>1. /\ PidOf[args[2]] \in Pids /\ Signal(PidOf[args[2]], "CONT")
        /\ updateProcessStatus(PidOf[args[2]], RUNNING)
        /\ UNCHANGED <<waiting, varlist, collected, env>> /\ UNCHANGED condemned
    BY <1>4, <1>7 DEF Wake, JobCommand
  <2> QED
    BY <2>1, JobCommandKeeps DEF RUNNING, TERMINATED
<1>8. CASE Set(args)
  BY <1>8, SetKeeps
<1>9. CASE Delete(args)
  BY <1>9, DeleteKeeps
<1>10. CASE Quit(args)
  BY <1>10 DEF Quit, LabInv, JobTypes, PidsInOrder, Watched, Listed, Kept, Var, Places
<1> QED
  BY <1>1, <1>2, <1>3, <1>5, <1>6, <1>7, <1>8, <1>9, <1>10 DEF Line

\* Every step keeps the invariant.
LEMMA LabInductive == LabInv /\ [LabNext]_labVars => LabInv'
<1> SUFFICES ASSUME LabInv, [LabNext]_labVars PROVE LabInv'
  OBVIOUS
<1>1. CASE UNCHANGED labVars
  BY <1>1 DEF labVars, LabInv, JobTypes, PidsInOrder, Watched, Listed, Kept, Var, Places
<1>2. ASSUME Prompt, NEW c \in CmdLines, NEW args \in {Arguments(c)}, Line(c, args)
      PROVE  LabInv'
  BY <1>2, LineKeeps
<1>3. CASE waitpid
  BY <1>3, WaitKeeps
<1>4. ASSUME NEW p \in Pids, Ends(p) PROVE LabInv'
  BY <1>4, EndsKeeps
<1> QED
  BY <1>1, <1>2, <1>3, <1>4 DEF LabNext

\* The invariant is as strong as the property.
LEMMA LabInvImplies == LabInv => JobsKept
<1> SUFFICES ASSUME LabInv PROVE JobsKept
  OBVIOUS
<1> USE DEF LabInv
<1>1. ASSUME NEW p \in Pids, waiting = << >>, kids[p] \notin {"none", "reaped"}, p \notin condemned
      PROVE  \E i \in DOMAIN process_list : process_list[i].pid = p
  <2>1. DOMAIN waiting = {}
    BY <1>1
  <2> QED
    BY <1>1, <2>1 DEF Watched
<1>2. \A i \in DOMAIN process_list :
         /\ process_list[i].pid \notin collected
         /\ \A j \in DOMAIN process_list : process_list[i].pid = process_list[j].pid => i = j
  BY DEF Listed
<1>3. ASSUME NEW n \in Names PROVE getvalue(n) = env[n]
  <2>1. CASE Places(n) = {}
    BY <2>1 DEF getvalue, Kept
  <2>2. CASE Places(n) # {}
    BY <2>2, FirstPlace DEF getvalue, Kept
  <2> QED
    BY <2>1, <2>2
<1> QED
  BY <1>1, <1>2, <1>3 DEF JobsKept

\* The jobs and the variables of the lab shell are kept, whatever is typed and
\* whatever the jobs do meanwhile, for any lines and any number of processes:
\* execute, executePipe, waitpid and printProcessList of myshell.c lose no child
\* that was not killed, and list none twice or after it was collected.
THEOREM JobsAreKept == LabSpec => []JobsKept
<1>1. LabInit => LabInv
  BY LabInitially
<1>2. LabInv /\ [LabNext]_labVars => LabInv'
  BY LabInductive
<1>3. LabInv => JobsKept
  BY LabInvImplies
<1> QED
  BY <1>1, <1>2, <1>3, PTL DEF LabSpec

-----------------------------------------------------------------------------
(* The allocator: the inductive invariant.                                 *)

\* The values of heap.
Heap ==
    [freep : Addrs \cup {NoBlock}, ptr : [Addrs -> Addrs \cup {NoBlock}],
     size : [Addrs -> Nat], brk : Addrs]

\* The free blocks and base.
Ring(h) == {a \in Addrs : h.ptr[a] # NoBlock}

\* The blocks that the program has.
Given == {a \in Addrs : asked[a] > 0}

\* In a ring S, in order of address, q comes after p.
Follows(S, p, q) ==
    /\ q \in S
    /\ \/ p < q /\ \A r \in S : r <= p \/ q <= r
       \/ q = base /\ \A r \in S : r <= p

Ordered(h) ==
    /\ base \in Ring(h) /\ h.freep \in Ring(h) /\ h.size[base] = 0
    /\ \A p \in Ring(h) : Follows(Ring(h), p, h.ptr[p])

\* Blocks B of sizes s fill what lies below brk, up to the gaps, and do not overlap.
Layout(B, s, brk, gaps) ==
    /\ B \subseteq Addrs \ {base}
    /\ \A a \in B : s[a] > 0 /\ a + s[a] <= brk
    /\ \A a, b \in B : a < b => a + s[a] <= b
    /\ \A u \in 1 .. brk - 1 : u \in gaps <=> ~\E a \in B : a <= u /\ u < a + s[a]

\* No two free blocks touch.
Joined(h) == \A a \in Ring(h) \ {base} : a + h.size[a] \notin Ring(h)

\* A list, with the blocks of G in the program's hands.
Sound(h, G, gaps) ==
    /\ h \in Heap /\ 0 < h.brk /\ gaps \subseteq 1 .. h.brk - 1
    /\ Ordered(h) /\ Joined(h) /\ G \cap Ring(h) = {}
    /\ Layout((Ring(h) \ {base}) \cup G, h.size, h.brk, gaps)

\* Before the first malloc there is no list.
MallocInv ==
    /\ asked \in [Addrs -> Nat] /\ heap \in Heap
    /\ Sound(Started(heap), Given, holes)
    /\ heap.freep = NoBlock => Given = {} /\ Ring(heap) = {}
    /\ \A a \in Given : heap.size[a] = asked[a]
\* A set of numbers has a least one.
LEMMA HasLeast == ASSUME NEW S, S \subseteq Nat, S # {} PROVE \E x \in S : \A y \in S : x <= y
<1> DEFINE R == {ss \in Nat \X Nat : ss[1] < ss[2]}
<1>1. IsWellFoundedOn(R, Nat)
  BY NatLessThanWellFounded, Zenon DEF OpToRel
<1>2. \E x \in S : \A y \in S : ~(<<y, x>> \in R)
  <2> HIDE DEF R
  <2> QED
    BY <1>1, WFMin
<1>3. PICK x \in S : \A y \in S : ~(<<y, x>> \in R)
  BY <1>2
<1>4. ASSUME NEW y \in S PROVE x <= y
  <2>1. x \in Nat /\ y \in Nat
    OBVIOUS
  <2>2. ~(<<y, x>> \in {ss \in Nat \X Nat : ss[1] < ss[2]})
    BY <1>3
  <2> QED
    BY <2>1, <2>2
<1> QED
  BY <1>4

\* Lowest is the least number of a set of them.
LEMMA LowestIn == ASSUME NEW S, S \subseteq Nat, S # {} PROVE Lowest(S) \in S /\ \A j \in S : Lowest(S) <= j
<1>1. \E x \in S : \A y \in S : x <= y
  BY HasLeast
<1> QED
  BY <1>1, Zenon DEF Lowest

\* A set of numbers up to m has a greatest one.
LEMMA HasGreatest ==
    ASSUME NEW m \in Nat, NEW S, S \subseteq 0 .. m, S # {} PROVE \E x \in S : \A y \in S : y <= x
<1> DEFINE T == {m - x : x \in S}
<1>1. T \subseteq Nat /\ T # {}
  OBVIOUS
<1>2. PICK t \in T : \A u \in T : t <= u
  <2> HIDE DEF T
  <2> QED
    BY <1>1, HasLeast
<1>3. PICK x \in S : t = m - x
  BY <1>2
<1>4. ASSUME NEW y \in S PROVE y <= x
  <2>0. m - y \in T
    OBVIOUS
  <2> HIDE DEF T
  <2>1. t <= m - y
    BY <1>2, <2>0
  <2>2. x \in Int /\ y \in Int
    OBVIOUS
  <2> QED
    BY <1>3, <2>1, <2>2
<1> QED
  BY <1>4

\* Addresses are numbers.
LEMMA AddressesAre == HeapMax \in Nat \ {0} /\ base = 0 /\ NoBlock = -1 /\ Addrs \subseteq Nat /\ NoBlock \notin Addrs
  BY MallocAssumption DEF Addrs, NoBlock, base

-----------------------------------------------------------------------------
(* Rings                                                                   *)

\* Two blocks of a ring do not have the same next one.
LEMMA OneBefore ==
    ASSUME NEW S, S \subseteq Addrs, NEW p \in S, NEW r \in S, NEW q, Follows(S, p, q), Follows(S, r, q)
    PROVE  p = r
  BY AddressesAre DEF Follows

\* A block put behind the one below it.
LEMMA RingInsert ==
    ASSUME NEW S, S \subseteq Addrs, NEW f, \A r \in S : Follows(S, r, f[r]),
           NEW p \in S, NEW b \in Addrs \ S, p < b, b < f[p] \/ f[p] = base
    PROVE  /\ Follows(S \cup {b}, p, b) /\ Follows(S \cup {b}, b, f[p])
           /\ \A r \in S \ {p} : Follows(S \cup {b}, r, f[r])
<1>1. Follows(S, p, f[p])
  OBVIOUS
<1>2. \A r \in S : r \in Nat
  BY AddressesAre
<1>3. b \in Nat /\ p \in Nat /\ f[p] \in Nat
  BY <1>1, AddressesAre DEF Follows
<1>4. Follows(S \cup {b}, p, b) /\ Follows(S \cup {b}, b, f[p])
  BY <1>1, <1>2, <1>3, AddressesAre DEF Follows
<1>5. ASSUME NEW r \in S \ {p} PROVE Follows(S \cup {b}, r, f[r])
  <2>1. Follows(S, r, f[r]) /\ f[r] # f[p]
    BY <1>1, OneBefore
  <2>2. r <= p \/ f[p] <= r
    BY <1>1, <1>2, <1>3, AddressesAre DEF Follows
  <2>3. f[r] \in Nat /\ r \in Nat /\ r # p
    BY <1>2, <2>1 DEF Follows
  <2>4. CASE r < f[r]
    <3>1. \A x \in S : x <= r \/ f[r] <= x
      BY <1>2, <2>1, <2>3, <2>4, AddressesAre DEF Follows
    <3>2. b <= r \/ f[r] <= b
      BY <1>1, <1>2, <1>3, <2>1, <2>2, <2>3, <3>1, AddressesAre DEF Follows
    <3> QED
      BY <2>1, <2>4, <3>1, <3>2 DEF Follows
  <2>5. CASE ~(r < f[r])
    <3>1. f[r] = base /\ \A x \in S : x <= r
      BY <2>1, <2>5 DEF Follows
    <3>2. b < f[p]
      BY <2>1, <3>1
    <3>3. b <= r
      BY <1>1, <1>2, <1>3, <2>3, <3>1, <3>2 DEF Follows
    <3> QED
      BY <2>1, <3>1, <3>3 DEF Follows
  <2> QED
    BY <2>4, <2>5
<1> QED
  BY <1>4, <1>5

\* The block behind p taken out.
LEMMA RingRemove ==
    ASSUME NEW S, S \subseteq Addrs, NEW f, \A r \in S : Follows(S, r, f[r]), base \in S,
           NEW p \in S, f[p] # base
    PROVE  /\ f[p] # p /\ Follows(S \ {f[p]}, p, f[f[p]])
           /\ \A r \in S \ {p, f[p]} : Follows(S \ {f[p]}, r, f[r])
<1> DEFINE q == f[p]
<1>1. Follows(S, p, q) /\ q \in S /\ p < q
  BY DEF Follows
<1>2. \A r \in S : r \in Nat
  BY AddressesAre
<1>3. Follows(S, q, f[q])
  BY <1>1
<1> HIDE DEF q
<1>4. q # p /\ q # base
  BY <1>1, <1>2 DEF q
<1>5. Follows(S \ {q}, p, f[q])
  <2>1. f[q] \in S /\ f[q] \in Nat /\ q \in Nat /\ p \in Nat
    BY <1>1, <1>2, <1>3 DEF Follows
  <2>2. \A x \in S : x <= p \/ q <= x
    BY <1>1, <1>2, <1>4 DEF Follows
  <2>3. CASE q < f[q]
    <3>1. \A x \in S : x <= q \/ f[q] <= x
      BY <1>3, <2>1, <2>3, AddressesAre DEF Follows
    <3>2. \A x \in S \ {q} : x <= p \/ f[q] <= x
      BY <1>2, <2>1, <2>2, <3>1
    <3> QED
      BY <1>1, <2>1, <2>3, <3>2 DEF Follows
  <2>4. CASE ~(q < f[q])
    <3>1. f[q] = base /\ \A x \in S : x <= q
      BY <1>3, <2>4 DEF Follows
    <3>2. \A x \in S \ {q} : x <= p
      BY <1>2, <2>1, <2>2, <3>1
    <3> QED
      BY <1>4, <2>1, <3>1, <3>2 DEF Follows
  <2> QED
    BY <2>3, <2>4
<1>6. ASSUME NEW r \in S \ {p, q} PROVE Follows(S \ {q}, r, f[r])
  <2>1. Follows(S, r, f[r])
    OBVIOUS
  <2>2. f[r] # q
    BY <1>1, <2>1, OneBefore
  <2> QED
    BY <1>2, <2>1, <2>2, AddressesAre DEF Follows
<1> QED
  BY <1>4, <1>5, <1>6 DEF q

\* Whoever follows a ring comes everywhere.
LEMMA RingWhole ==
    ASSUME NEW S, S \subseteq Addrs, NEW f, \A r \in S : Follows(S, r, f[r]), base \in S,
           NEW V, V \subseteq S, V # {}, \A v \in V : f[v] \in V
    PROVE  V = S
<1>1. S \subseteq 0 .. HeapMax /\ S \subseteq Nat /\ HeapMax \in Nat
  BY AddressesAre DEF Addrs
<1>2. PICK m \in V : \A y \in V : y <= m
  BY <1>1, HasGreatest
<1>3. Follows(S, m, f[m]) /\ f[m] \in V /\ f[m] <= m
  BY <1>2
<1>4. f[m] = base
  <2>1. f[m] \in Nat /\ m \in Nat
    BY <1>1, <1>3
  <2> QED
    BY <1>3, <2>1 DEF Follows
<1>5. base \in V
  BY <1>3, <1>4
<1>6. ASSUME S \ V # {} PROVE FALSE
  <2>1. S \ V \subseteq Nat
    BY <1>1
  <2>2. PICK r \in S \ V : \A y \in S \ V : r <= y
    BY <1>6, <2>1, HasLeast
  <2>3. base < r
    BY <1>1, <1>5, <2>2, AddressesAre
  <2> DEFINE L == {x \in V : x < r}
  <2>4. L \subseteq 0 .. HeapMax /\ L # {}
    BY <1>1, <1>5, <2>3
  <2>5. PICK p \in L : \A y \in L : y <= p
    <3> HIDE DEF L
    <3> QED
      BY <1>1, <2>4, HasGreatest
  <2>6. p \in S /\ p \in V /\ p < r /\ f[p] \in V /\ Follows(S, p, f[p])
    BY <2>5
  <2>10. p \in Nat /\ r \in Nat /\ f[p] \in Nat
    BY <1>1, <2>6
  <2>7. p < f[p] /\ f[p] <= r
    BY <1>1, <2>2, <2>6 DEF Follows
  <2>8. f[p] # r
    BY <2>2, <2>6
  <2>9. f[p] \in L
    BY <2>6, <2>7, <2>8, <2>10
  <2> HIDE DEF L
  <2>11. f[p] <= p
    BY <2>5, <2>9
  <2> QED
    BY <2>7, <2>10, <2>11
<1> QED
  BY <1>6

-----------------------------------------------------------------------------
(* Walks                                                                   *)

\* What comes after a free block is one.
LEMMA NextIn ==
    ASSUME NEW h \in Heap, Ordered(h), NEW p \in Ring(h) PROVE p \in Addrs /\ h.ptr[p] \in Ring(h)
  BY DEF Ordered, Follows, Ring

\* The list can be followed for as long as one likes.
LEMMA WalkExists ==
    ASSUME NEW h \in Heap, Ordered(h)
    PROVE  \E f \in [Addrs -> Ring(h)] :
              f[0] = h.freep /\ \A k \in Addrs \ {0} : f[k] = h.ptr[f[k - 1]]
<1> DEFINE R == Ring(h)
           Path(n) == \E f \in [0 .. n -> R] :
                         f[0] = h.freep /\ \A k \in 1 .. n : f[k] = h.ptr[f[k - 1]]
           S == {n \in Nat : ~Path(n)}
<1>1. h.freep \in R /\ \A p \in R : h.ptr[p] \in R
  BY NextIn DEF Ordered
<1> HIDE DEF R
<1>2. Path(0)
  <2> DEFINE g == [k \in 0 .. 0 |-> h.freep]
  <2>1. g \in [0 .. 0 -> R] /\ g[0] = h.freep /\ \A k \in 1 .. 0 : g[k] = h.ptr[g[k - 1]]
    BY <1>1
  <2> HIDE DEF g
  <2> QED
    BY <2>1
<1>3. ASSUME NEW n \in Nat, Path(n) PROVE Path(n + 1)
  <2>1. PICK f \in [0 .. n -> R] : f[0] = h.freep /\ \A k \in 1 .. n : f[k] = h.ptr[f[k - 1]]
    BY <1>3
  <2> DEFINE g == [k \in 0 .. n + 1 |-> IF k <= n THEN f[k] ELSE h.ptr[f[n]]]
  <2>2. f[n] \in R
    BY <2>1
  <2>3. g \in [0 .. n + 1 -> R] /\ g[0] = h.freep
    BY <1>1, <2>1, <2>2
  <2>4. ASSUME NEW k \in 1 .. n + 1 PROVE g[k] = h.ptr[g[k - 1]]
    <3>1. CASE k = n + 1
      BY <3>1
    <3>2. CASE k # n + 1
      <4>1. k \in 1 .. n /\ k <= n /\ k - 1 <= n /\ k - 1 \in 0 .. n + 1
        BY <3>2
      <4>2. g[k] = f[k] /\ g[k - 1] = f[k - 1]
        BY <4>1
      <4> QED
        BY <2>1, <4>1, <4>2
    <3> QED
      BY <3>1, <3>2
  <2> HIDE DEF g
  <2> QED
    BY <2>3, <2>4
<1> HIDE DEF Path
<1>4. ASSUME S # {} PROVE FALSE
  <2>1. PICK n \in S : \A m \in S : n <= m
    BY <1>4, HasLeast
  <2>2. n \in Nat /\ ~Path(n) /\ n # 0
    BY <1>2, <2>1
  <2>3. n - 1 \in Nat /\ (n - 1) + 1 = n
    BY <2>2
  <2>4. n - 1 \notin S
    BY <2>1, <2>2, <2>3
  <2>5. Path(n - 1)
    BY <2>3, <2>4
  <2>6. Path((n - 1) + 1)
    BY <1>3, <2>3, <2>5
  <2> QED
    BY <2>2, <2>3, <2>6
<1>5. Path(HeapMax)
  BY <1>4, AddressesAre
<1> QED
  BY <1>5, AddressesAre DEF Path, Addrs, R

\* What Walk is, and that it meets nothing but free blocks.
LEMMA WalkIs ==
    ASSUME NEW h \in Heap, Ordered(h)
    PROVE  /\ Walk(h) \in [Addrs -> Ring(h)] /\ Walk(h)[0] = h.freep
           /\ \A k \in Addrs \ {0} : Walk(h)[k] = h.ptr[Walk(h)[k - 1]]
<1> DEFINE P(g) == g = [k \in Addrs |-> IF k = 0 THEN h.freep ELSE h.ptr[g[k - 1]]]
           Q(g) == /\ g \in [Addrs -> Ring(h)] /\ g[0] = h.freep
                   /\ \A k \in Addrs \ {0} : g[k] = h.ptr[g[k - 1]]
<1>1. PICK f \in [Addrs -> Ring(h)] :
             f[0] = h.freep /\ \A k \in Addrs \ {0} : f[k] = h.ptr[f[k - 1]]
  BY WalkExists
<1>2. P(f)
  <2>1. f = [k \in Addrs |-> f[k]]
    BY <1>1
  <2>2. \A k \in Addrs : f[k] = IF k = 0 THEN h.freep ELSE h.ptr[f[k - 1]]
    BY <1>1
  <2> QED
    BY <2>1, <2>2
<1>3. Walk(h) = CHOOSE g : P(g)
  BY Zenon DEF Walk
<1>4. \E g : P(g)
  BY <1>2
<1>5. ASSUME NEW g, P(g) PROVE Q(g)
  <2>1. g = [k \in Addrs |-> g[k]] /\ \A k \in Addrs : g[k] = IF k = 0 THEN h.freep ELSE h.ptr[g[k - 1]]
    BY <1>5
  <2>2. 0 \in Addrs /\ \A k \in Addrs : k \in Nat /\ k <= HeapMax
    BY AddressesAre DEF Addrs
  <2>3. g[0] = h.freep /\ \A k \in Addrs \ {0} : g[k] = h.ptr[g[k - 1]]
    BY <2>1, <2>2
  <2> DEFINE S == {k \in Addrs : g[k] \notin Ring(h)}
  <2>4. ASSUME S # {} PROVE FALSE
    <3>1. S \subseteq Nat
      BY <2>2
    <3>2. PICK k \in S : \A j \in S : k <= j
      BY <2>4, <3>1, HasLeast
    <3>3. k \in Addrs /\ g[k] \notin Ring(h) /\ k # 0
      BY <2>3, <3>2 DEF Ordered
    <3>4. k - 1 \in Addrs /\ ~(k <= k - 1)
      BY <2>2, <3>3, AddressesAre DEF Addrs
    <3>5. g[k - 1] \in Ring(h)
      BY <3>2, <3>4
    <3> QED
      BY <2>3, <3>3, <3>5, NextIn
  <2>5. \A k \in Addrs : g[k] \in Ring(h)
    BY <2>4
  <2> QED
    BY <2>1, <2>3, <2>5
<1> HIDE DEF P
<1>6. P(CHOOSE g : P(g))
  BY <1>4, Zenon
<1>7. P(Walk(h))
  BY <1>3, <1>6, Zenon
<1> HIDE DEF Q
<1>8. Q(Walk(h))
  BY <1>5, <1>7, Zenon
<1> QED
  BY <1>8 DEF Q

\* An address is outside the list, so the walk comes back to freep.
LEMMA WalkReturns ==
    ASSUME NEW h \in Heap, Ordered(h), NEW b \in Addrs \ Ring(h)
    PROVE  \E k \in Addrs \ {0} : Walk(h)[k] = h.freep
<1> DEFINE w == Walk(h)
           R == Ring(h)
<1>1. w \in [Addrs -> R] /\ w[0] = h.freep /\ \A k \in Addrs \ {0} : w[k] = h.ptr[w[k - 1]]
  BY WalkIs
<1>2. R \subseteq Addrs /\ \A p \in R : Follows(R, p, h.ptr[p])
  BY DEF Ordered, Ring
<1> HIDE DEF w, R
<1> SUFFICES ASSUME \A k \in Addrs \ {0} : w[k] # w[0] PROVE FALSE
  BY <1>1 DEF w
<1>3. \A k \in Addrs : k \in Nat /\ k <= HeapMax
  BY AddressesAre DEF Addrs
<1> DEFINE S == {i \in Addrs : \E j \in Addrs : i < j /\ w[i] = w[j]}
<1>4. ASSUME S # {} PROVE FALSE
  <2>1. S \subseteq Nat
    BY <1>3
  <2>2. PICK i \in S : \A k \in S : i <= k
    BY <1>4, <2>1, HasLeast
  <2>3. PICK j \in Addrs : i \in Addrs /\ i < j /\ w[i] = w[j]
    BY <2>2
  <2>4. i # 0 /\ j # 0
    BY <1>3, <2>3
  <2>5. i - 1 \in Addrs /\ j - 1 \in Addrs /\ i - 1 < j - 1 /\ ~(i <= i - 1)
    BY <1>3, <2>3, <2>4, AddressesAre DEF Addrs
  <2>6. h.ptr[w[i - 1]] = h.ptr[w[j - 1]]
    BY <1>1, <2>3, <2>4
  <2>7. w[i - 1] \in R /\ w[j - 1] \in R
    BY <1>1, <2>5
  <2>8. Follows(R, w[i - 1], h.ptr[w[i - 1]]) /\ Follows(R, w[j - 1], h.ptr[w[i - 1]])
    BY <1>2, <2>6, <2>7
  <2>9. w[i - 1] = w[j - 1]
    BY <1>2, <2>7, <2>8, OneBefore
  <2>10. i - 1 \in S
    BY <2>5, <2>9
  <2> QED
    BY <2>2, <2>5, <2>10
<1>5. \A i, j \in Addrs : w[i] = w[j] => i = j
  BY <1>3, <1>4
<1>6. IsFiniteSet(Addrs)
  BY AddressesAre, FS_Interval DEF Addrs
<1>7. IsFiniteSet(R) /\ Cardinality(R) < Cardinality(Addrs)
  <2>1. R \subseteq Addrs /\ R # Addrs
    BY <1>2 DEF R
  <2> QED
    BY <1>6, <2>1, FS_Subset, FS_CardinalityType
<1>8. Cardinality(Addrs) <= Cardinality(R)
  <2>1. w \in Injection(Addrs, R)
    BY <1>1, <1>5 DEF Injection, IsInjective
  <2> QED
    BY <1>7, <2>1, FS_Injection
<1> QED
  BY <1>6, <1>7, <1>8, FS_CardinalityType

\* Up to its first return to freep the walk has met every free block.
LEMMA WalkTurns ==
    ASSUME NEW h \in Heap, Ordered(h), NEW b \in Addrs \ Ring(h)
    PROVE  LET last == Lowest({k \in Addrs \ {0} : Walk(h)[k] = h.freep})
           IN  1 .. last \subseteq Addrs /\ \A p \in Ring(h) : \E k \in 1 .. last : Walk(h)[k] = p
<1> DEFINE w == Walk(h)
           R == Ring(h)
           T == {k \in Addrs \ {0} : w[k] = h.freep}
           last == Lowest(T)
<1>1. w \in [Addrs -> R] /\ w[0] = h.freep /\ \A k \in Addrs \ {0} : w[k] = h.ptr[w[k - 1]]
  BY WalkIs
<1>2. R \subseteq Addrs /\ base \in R /\ \A p \in R : Follows(R, p, h.ptr[p])
  BY DEF Ordered, Ring
<1>3. T # {} /\ T \subseteq Nat
  BY WalkReturns, AddressesAre
<1> HIDE DEF w, R
<1>4. last \in Addrs \ {0} /\ w[last] = h.freep
  <2> HIDE DEF T
  <2>1. last \in T
    BY <1>3, LowestIn
  <2> QED
    BY <2>1 DEF T
<1> HIDE DEF last
<1>5. last \in Nat \ {0} /\ 1 .. last \subseteq Addrs /\ 0 \in Addrs
  BY <1>4, AddressesAre DEF Addrs
<1> DEFINE V == {w[k] : k \in 1 .. last}
<1>6. V \subseteq R /\ V # {}
  <2>1. 1 \in 1 .. last
    BY <1>5
  <2> QED
    BY <1>1, <1>5, <2>1
<1>7. ASSUME NEW v \in V PROVE h.ptr[v] \in V
  <2>1. PICK k \in 1 .. last : v = w[k]
    OBVIOUS
  <2>2. CASE k = last
    <3>1. 1 \in 1 .. last /\ 1 \in Addrs \ {0} /\ 1 - 1 = 0
      BY <1>5
    <3>2. w[1] = h.ptr[v]
      BY <1>1, <1>4, <2>1, <2>2, <3>1
    <3> QED
      BY <3>1, <3>2
  <2>3. CASE k # last
    <3>1. k + 1 \in 1 .. last /\ k + 1 \in Addrs \ {0} /\ (k + 1) - 1 = k
      BY <1>5, <2>3
    <3>2. w[k + 1] = h.ptr[v]
      BY <1>1, <2>1, <3>1
    <3> QED
      BY <3>1, <3>2
  <2> QED
    BY <2>2, <2>3
<1>8. V = R
  <2> HIDE DEF V
  <2> QED
    BY <1>2, <1>6, <1>7, RingWhole
<1> QED
  BY <1>5, <1>8 DEF w, R, last, T

-----------------------------------------------------------------------------
(* Layouts                                                                 *)

\* Blocks and their sizes are numbers.
LEMMA BlocksAre ==
    ASSUME NEW B, NEW s \in [Addrs -> Nat], NEW brk \in Addrs, NEW gaps, Layout(B, s, brk, gaps)
    PROVE  /\ \A a \in B : a \in Nat /\ a \in Addrs /\ a > 0 /\ s[a] \in Nat /\ s[a] > 0
           /\ brk \in Nat /\ brk <= HeapMax /\ HeapMax \in Nat
  BY AddressesAre DEF Layout, Addrs

\* Only the sizes of blocks matter.
LEMMA LayoutSame ==
    ASSUME NEW B, NEW s, NEW brk, NEW gaps, Layout(B, s, brk, gaps), NEW t, \A a \in B : t[a] = s[a]
    PROVE  Layout(B, t, brk, gaps)
  BY DEF Layout

\* Two blocks that touch become one.
LEMMA LayoutMerge ==
    ASSUME NEW B, NEW s \in [Addrs -> Nat], NEW brk \in Addrs, NEW gaps, Layout(B, s, brk, gaps),
           NEW a \in B, NEW x \in B, a + s[a] = x,
           NEW t, t[a] = s[a] + s[x], \A c \in B \ {a, x} : t[c] = s[c]
    PROVE  Layout(B \ {x}, t, brk, gaps)
<1>0. /\ \A c \in B : c \in Nat /\ c \in Addrs /\ c > 0 /\ s[c] \in Nat /\ s[c] > 0
      /\ brk \in Nat
  BY BlocksAre
<1>1. a # x /\ a < x
  BY <1>0
<1>2. \A c \in B \ {x} : t[c] > 0 /\ c + t[c] <= brk
  <2>1. x + s[x] <= brk /\ a + t[a] = x + s[x] /\ t[a] > 0
    BY <1>0 DEF Layout
  <2> QED
    BY <2>1 DEF Layout
<1>3. ASSUME NEW c \in B \ {x}, NEW d \in B \ {x}, c < d PROVE c + t[c] <= d
  <2>1. CASE c = a
    <3>1. a + s[a] <= d
      BY <1>3, <2>1 DEF Layout
    <3>2. x < d
      BY <1>0, <3>1
    <3>3. x + s[x] <= d
      BY <3>2 DEF Layout
    <3> QED
      BY <1>0, <2>1, <3>3
  <2>2. CASE c # a
    BY <1>3, <2>2 DEF Layout
  <2> QED
    BY <2>1, <2>2
<1>4. ASSUME NEW u \in 1 .. brk - 1
      PROVE  (\E c \in B : c <= u /\ u < c + s[c]) <=> \E c \in B \ {x} : c <= u /\ u < c + t[c]
  <2>1. ASSUME NEW c \in B, c <= u, u < c + s[c] PROVE \E d \in B \ {x} : d <= u /\ u < d + t[d]
    <3>1. CASE c = x
      BY <1>0, <1>1, <2>1, <3>1
    <3>2. CASE c = a
      BY <1>0, <1>1, <2>1, <3>2
    <3>3. CASE c # x /\ c # a
      BY <2>1, <3>3
    <3> QED
      BY <3>1, <3>2, <3>3
  <2>2. ASSUME NEW c \in B \ {x}, c <= u, u < c + t[c] PROVE \E d \in B : d <= u /\ u < d + s[d]
    <3>1. CASE c = a /\ u < x
      BY <2>2, <3>1
    <3>2. CASE c = a /\ ~(u < x)
      BY <1>0, <2>2, <3>2
    <3>3. CASE c # a
      BY <2>2, <3>3
    <3> QED
      BY <3>1, <3>2, <3>3
  <2> QED
    BY <2>1, <2>2
<1> QED
  BY <1>2, <1>3, <1>4 DEF Layout

\* One block becomes two.
LEMMA LayoutSplit ==
    ASSUME NEW B, NEW s \in [Addrs -> Nat], NEW brk \in Addrs, NEW gaps, Layout(B, s, brk, gaps),
           NEW a \in B, NEW r \in Nat, 0 < r, r < s[a],
           NEW t, t[a] = r, t[a + r] = s[a] - r, \A c \in B \ {a} : t[c] = s[c]
    PROVE  /\ a + r \in Addrs /\ a + r > 0
           /\ \A c \in B : c # a + r
           /\ Layout(B \cup {a + r}, t, brk, gaps)
<1> DEFINE x == a + r
<1>0. /\ \A c \in B : c \in Nat /\ c \in Addrs /\ c > 0 /\ s[c] \in Nat /\ s[c] > 0
      /\ brk \in Nat /\ brk <= HeapMax /\ HeapMax \in Nat
  BY BlocksAre
<1>1. x \in Nat /\ a < x /\ x < a + s[a] /\ a + s[a] <= brk /\ t[x] = s[a] - r /\ t[a] = r
  BY <1>0 DEF Layout
<1>2. x \in Addrs /\ x > 0 /\ x # base
  BY <1>0, <1>1 DEF Addrs, base
<1>3. \A c \in B : c # x
  BY <1>0, <1>1 DEF Layout
<1>6. x + t[x] = a + s[a] /\ a + t[a] = x /\ t[x] > 0
  BY <1>0, <1>1
<1> HIDE DEF x
<1>4. \A c \in B \cup {x} : t[c] > 0 /\ c + t[c] <= brk
  <2>1. \A c \in B \ {a} : t[c] > 0 /\ c + t[c] <= brk
    BY DEF Layout
  <2> QED
    BY <1>0, <1>1, <1>6, <2>1
<1>5. ASSUME NEW c \in B \cup {x}, NEW d \in B \cup {x}, c < d PROVE c + t[c] <= d
  <2>1. CASE c = a
    <3>1. d = x \/ (d \in B /\ a + s[a] <= d)
      BY <1>5, <2>1 DEF Layout
    <3> QED
      BY <1>0, <1>1, <1>6, <2>1, <3>1
  <2>2. CASE c = x
    <3>1. d \in B /\ a < d
      BY <1>0, <1>1, <1>5, <2>2
    <3>2. a + s[a] <= d
      BY <3>1 DEF Layout
    <3> QED
      BY <1>6, <2>2, <3>2
  <2>3. CASE c \in B \ {a} /\ d = x
    <3>1. c < a
      <4>1. CASE a < c
        <5>1. a + s[a] <= c
          BY <2>3, <4>1 DEF Layout
        <5> QED
          BY <1>0, <1>1, <1>5, <2>3, <5>1
      <4> QED
        BY <1>0, <2>3, <4>1
    <3>2. c + s[c] <= a
      BY <2>3, <3>1 DEF Layout
    <3> QED
      BY <1>0, <1>1, <2>3, <3>2
  <2>4. CASE c \in B \ {a} /\ d \in B
    BY <1>5, <2>4 DEF Layout
  <2> QED
    BY <2>1, <2>2, <2>3, <2>4
<1>7. ASSUME NEW u \in 1 .. brk - 1
      PROVE  (\E c \in B : c <= u /\ u < c + s[c]) <=> \E c \in B \cup {x} : c <= u /\ u < c + t[c]
  <2>1. ASSUME NEW c \in B, c <= u, u < c + s[c] PROVE \E d \in B \cup {x} : d <= u /\ u < d + t[d]
    <3>1. CASE c = a /\ u < x
      BY <1>6, <2>1, <3>1
    <3>2. CASE c = a /\ ~(u < x)
      BY <1>1, <1>6, <2>1, <3>2
    <3>3. CASE c # a
      BY <2>1, <3>3
    <3> QED
      BY <3>1, <3>2, <3>3
  <2>2. ASSUME NEW c \in B \cup {x}, c <= u, u < c + t[c] PROVE \E d \in B : d <= u /\ u < d + s[d]
    <3>1. CASE c = x
      BY <1>0, <1>1, <1>6, <2>2, <3>1
    <3>2. CASE c = a
      BY <1>0, <1>1, <1>6, <2>2, <3>2
    <3>3. CASE c # x /\ c # a
      BY <2>2, <3>3
    <3> QED
      BY <3>1, <3>2, <3>3
  <2> QED
    BY <2>1, <2>2
<1> QED
  BY <1>0, <1>2, <1>3, <1>4, <1>5, <1>7 DEF Layout, x

\* sbrk gives the allocator a block above the others.
LEMMA LayoutMore ==
    ASSUME NEW B, NEW s \in [Addrs -> Nat], NEW brk \in Addrs, NEW gaps, Layout(B, s, brk, gaps),
           0 < brk, gaps \subseteq 1 .. brk - 1, NEW nu \in Nat, 0 < nu, brk + nu \in Addrs,
           NEW t, t[brk] = nu, \A c \in B : t[c] = s[c]
    PROVE  brk \notin B /\ Layout(B \cup {brk}, t, brk + nu, gaps)
<1>0. /\ \A c \in B : c \in Nat /\ c \in Addrs /\ c > 0 /\ s[c] \in Nat /\ s[c] > 0
      /\ brk \in Nat /\ brk # base
  BY BlocksAre, AddressesAre
<1>1. \A c \in B : c + s[c] <= brk /\ c < brk
  BY <1>0 DEF Layout
<1>2. B \cup {brk} \subseteq Addrs \ {base}
  BY <1>0 DEF Layout
<1>3. \A c \in B \cup {brk} : t[c] > 0 /\ c + t[c] <= brk + nu
  BY <1>0, <1>1
<1>4. \A c, d \in B \cup {brk} : c < d => c + t[c] <= d
  <2> SUFFICES ASSUME NEW c \in B \cup {brk}, NEW d \in B \cup {brk}, c < d PROVE c + t[c] <= d
    OBVIOUS
  <2>1. c \in B
    BY <1>0, <1>1
  <2>2. d = brk \/ (d \in B /\ c + s[c] <= d)
    BY <2>1 DEF Layout
  <2> QED
    BY <1>1, <2>1, <2>2
<1>5. ASSUME NEW u \in 1 .. (brk + nu) - 1
      PROVE  u \in gaps <=> ~\E a \in B \cup {brk} : a <= u /\ u < a + t[a]
  <2>1. CASE u < brk
    <3>1. u \in 1 .. brk - 1
      BY <1>0, <2>1
    <3>2. u \in gaps <=> ~\E a \in B : a <= u /\ u < a + s[a]
      BY <3>1 DEF Layout
    <3> QED
      BY <1>0, <2>1, <3>2
  <2>2. CASE ~(u < brk)
    BY <1>0, <2>2
  <2> QED
    BY <2>1, <2>2
<1> QED
  BY <1>1, <1>0, <1>2, <1>3, <1>4, <1>5 DEF Layout

\* sbrk gives the program a unit.
LEMMA LayoutHole ==
    ASSUME NEW B, NEW s \in [Addrs -> Nat], NEW brk \in Addrs, NEW gaps, Layout(B, s, brk, gaps), 0 < brk
    PROVE  Layout(B, s, brk + 1, gaps \cup {brk})
<1>0. /\ \A c \in B : c \in Nat /\ s[c] \in Nat /\ c + s[c] <= brk
      /\ brk \in Nat
  BY BlocksAre DEF Layout
<1>1. \A u \in 1 .. (brk + 1) - 1 : u \in gaps \cup {brk} <=> ~\E a \in B : a <= u /\ u < a + s[a]
  <2> SUFFICES ASSUME NEW u \in 1 .. (brk + 1) - 1
               PROVE  u \in gaps \cup {brk} <=> ~\E a \in B : a <= u /\ u < a + s[a]
    OBVIOUS
  <2>1. u \in Nat /\ (u \in 1 .. brk - 1 \/ u = brk)
    BY <1>0
  <2>2. CASE u = brk
    BY <1>0, <2>2
  <2>3. CASE u \in 1 .. brk - 1 /\ u # brk
    BY <2>3 DEF Layout
  <2> QED
    BY <2>1, <2>2, <2>3
<1>2. \A c \in B : s[c] > 0 /\ c + s[c] <= brk + 1
  BY <1>0 DEF Layout
<1> QED
  BY <1>1, <1>2 DEF Layout

-----------------------------------------------------------------------------
(* free                                                                    *)

\* A ring with its layout, the blocks of G being the program's.
Stage(R, f, s, G, brk, gaps) ==
    /\ R \subseteq Addrs /\ base \in R /\ s[base] = 0 /\ G \cap R = {}
    /\ \A r \in R : Follows(R, r, f[r])
    /\ s \in [Addrs -> Nat] /\ Layout((R \ {base}) \cup G, s, brk, gaps)

\* The block behind a becomes a part of it.
LEMMA StageMerge ==
    ASSUME NEW R, NEW f, NEW s, NEW G, NEW brk \in Addrs, NEW gaps, Stage(R, f, s, G, brk, gaps),
           NEW a \in R, a # base, NEW x, x = f[a], x # base, a + s[a] = x,
           NEW g, g[a] = f[x], \A c \in R \ {a, x} : g[c] = f[c],
           NEW t \in [Addrs -> Nat], t[a] = s[a] + s[x], \A c \in Addrs \ {a, x} : t[c] = s[c]
    PROVE  x \in R \ {a} /\ Stage(R \ {x}, g, t, G, brk, gaps)
<1>1. /\ R \subseteq Addrs /\ base \in R /\ s[base] = 0 /\ G \cap R = {} /\ s \in [Addrs -> Nat]
      /\ \A r \in R : Follows(R, r, f[r])
      /\ Layout((R \ {base}) \cup G, s, brk, gaps)
  BY DEF Stage
<1>2. x \in R
  BY <1>1 DEF Follows
<1>3. /\ x # a /\ Follows(R \ {x}, a, f[x])
      /\ \A r \in R \ {a, x} : Follows(R \ {x}, r, f[r])
  <2>1. f[a] # base
    OBVIOUS
  <2>2. /\ f[a] # a /\ Follows(R \ {f[a]}, a, f[f[a]])
        /\ \A r \in R \ {a, f[a]} : Follows(R \ {f[a]}, r, f[r])
    BY <1>1, <2>1, RingRemove
  <2> QED
    BY <2>2
<1>4. \A r \in R \ {x} : Follows(R \ {x}, r, g[r])
  BY <1>3
<1> DEFINE B == (R \ {base}) \cup G
<1>5. a \in B /\ x \in B /\ B \subseteq Addrs
  BY <1>1, <1>2 DEF Layout
<1>6. \A c \in B \ {a, x} : t[c] = s[c]
  BY <1>5
<1>7. B \ {x} = ((R \ {x}) \ {base}) \cup G
  BY <1>1, <1>2
<1>8. Layout(B \ {x}, t, brk, gaps)
  <2> HIDE DEF B
  <2> QED
    BY <1>1, <1>5, <1>6, LayoutMerge DEF B
<1>9. t[base] = 0
  BY <1>1
<1> HIDE DEF B
<1> QED
  BY <1>1, <1>2, <1>3, <1>4, <1>7, <1>8, <1>9 DEF Stage

\* The fields that the two joins leave.
LEMMA JoinUpIs ==
    ASSUME NEW h \in Heap, NEW b \in Addrs, NEW p \in Addrs, h.ptr[p] \in Addrs, b # h.ptr[p]
    PROVE  LET g == JoinUp(h, b, p)
               up == h.ptr[p]
           IN  /\ g \in Heap /\ g.freep = h.freep /\ g.brk = h.brk
               /\ b + h.size[b] = up =>
                     /\ g.size[b] = h.size[b] + h.size[up] /\ g.size[up] = 0
                     /\ \A a \in Addrs \ {b, up} : g.size[a] = h.size[a]
                     /\ g.ptr[b] = h.ptr[up] /\ g.ptr[up] = NoBlock
                     /\ \A a \in Addrs \ {b, up} : g.ptr[a] = h.ptr[a]
               /\ b + h.size[b] # up =>
                     /\ g.size = h.size
                     /\ g.ptr[b] = up /\ \A a \in Addrs \ {b} : g.ptr[a] = h.ptr[a]
<1> DEFINE up == h.ptr[p]
           S == [h.size EXCEPT ![b] = @ + h.size[up], ![up] = 0]
           P == [h.ptr EXCEPT ![b] = h.ptr[up], ![up] = NoBlock]
           Q == [h.ptr EXCEPT ![b] = up]
<1>1. /\ h.ptr \in [Addrs -> Addrs \cup {NoBlock}] /\ h.size \in [Addrs -> Nat] /\ up \in Addrs
  BY DEF Heap
<1>2. /\ S \in [Addrs -> Nat] /\ P \in [Addrs -> Addrs \cup {NoBlock}]
      /\ Q \in [Addrs -> Addrs \cup {NoBlock}]
  <2>1. h.size[b] + h.size[up] \in Nat
    BY <1>1
  <2> QED
    BY <1>1, <2>1
<1>3. /\ S[b] = h.size[b] + h.size[up] /\ S[up] = 0 /\ \A a \in Addrs \ {b, up} : S[a] = h.size[a]
      /\ P[b] = h.ptr[up] /\ P[up] = NoBlock /\ \A a \in Addrs \ {b, up} : P[a] = h.ptr[a]
      /\ Q[b] = up /\ \A a \in Addrs \ {b} : Q[a] = h.ptr[a]
  BY <1>1
<1>4. CASE b + h.size[b] = up
  <2>1. JoinUp(h, b, p) = [h EXCEPT !.size = S, !.ptr = P]
    BY <1>4 DEF JoinUp, Heap
  <2> HIDE DEF S, P, up
  <2>2. LET g == [h EXCEPT !.size = S, !.ptr = P]
        IN  g \in Heap /\ g.freep = h.freep /\ g.brk = h.brk /\ g.size = S /\ g.ptr = P
    BY <1>2 DEF Heap
  <2> QED
    BY <1>3, <1>4, <2>1, <2>2 DEF up
<1>5. CASE b + h.size[b] # up
  <2>1. JoinUp(h, b, p) = [h EXCEPT !.ptr = Q]
    BY <1>5 DEF JoinUp, Heap
  <2> HIDE DEF Q, up
  <2>2. LET g == [h EXCEPT !.ptr = Q]
        IN  g \in Heap /\ g.freep = h.freep /\ g.brk = h.brk /\ g.size = h.size /\ g.ptr = Q
    BY <1>2 DEF Heap
  <2> QED
    BY <1>3, <1>5, <2>1, <2>2 DEF up
<1> QED
  BY <1>4, <1>5

\* Likewise.
LEMMA JoinDownIs ==
    ASSUME NEW h \in Heap, NEW b \in Addrs, NEW p \in Addrs, b # p
    PROVE  LET g == JoinDown(h, b, p)
           IN  /\ g \in Heap /\ g.freep = h.freep /\ g.brk = h.brk
               /\ p + h.size[p] = b =>
                     /\ g.size[p] = h.size[p] + h.size[b] /\ g.size[b] = 0
                     /\ \A a \in Addrs \ {b, p} : g.size[a] = h.size[a]
                     /\ g.ptr[p] = h.ptr[b] /\ g.ptr[b] = NoBlock
                     /\ \A a \in Addrs \ {b, p} : g.ptr[a] = h.ptr[a]
               /\ p + h.size[p] # b =>
                     /\ g.size = h.size
                     /\ g.ptr[p] = b /\ \A a \in Addrs \ {p} : g.ptr[a] = h.ptr[a]
<1> DEFINE S == [h.size EXCEPT ![p] = @ + h.size[b], ![b] = 0]
           P == [h.ptr EXCEPT ![p] = h.ptr[b], ![b] = NoBlock]
           Q == [h.ptr EXCEPT ![p] = b]
<1>1. /\ h.ptr \in [Addrs -> Addrs \cup {NoBlock}] /\ h.size \in [Addrs -> Nat]
  BY DEF Heap
<1>2. /\ S \in [Addrs -> Nat] /\ P \in [Addrs -> Addrs \cup {NoBlock}]
      /\ Q \in [Addrs -> Addrs \cup {NoBlock}]
  <2>1. h.size[p] + h.size[b] \in Nat
    BY <1>1
  <2> QED
    BY <1>1, <2>1
<1>3. /\ S[p] = h.size[p] + h.size[b] /\ S[b] = 0 /\ \A a \in Addrs \ {b, p} : S[a] = h.size[a]
      /\ P[p] = h.ptr[b] /\ P[b] = NoBlock /\ \A a \in Addrs \ {b, p} : P[a] = h.ptr[a]
      /\ Q[p] = b /\ \A a \in Addrs \ {p} : Q[a] = h.ptr[a]
  BY <1>1
<1>4. CASE p + h.size[p] = b
  <2>1. JoinDown(h, b, p) = [h EXCEPT !.size = S, !.ptr = P]
    BY <1>4 DEF JoinDown, Heap
  <2> HIDE DEF S, P
  <2>2. LET g == [h EXCEPT !.size = S, !.ptr = P]
        IN  g \in Heap /\ g.freep = h.freep /\ g.brk = h.brk /\ g.size = S /\ g.ptr = P
    BY <1>2 DEF Heap
  <2> QED
    BY <1>3, <1>4, <2>1, <2>2
<1>5. CASE p + h.size[p] # b
  <2>1. JoinDown(h, b, p) = [h EXCEPT !.ptr = Q]
    BY <1>5 DEF JoinDown, Heap
  <2> HIDE DEF Q
  <2>2. LET g == [h EXCEPT !.ptr = Q]
        IN  g \in Heap /\ g.freep = h.freep /\ g.brk = h.brk /\ g.size = h.size /\ g.ptr = Q
    BY <1>2 DEF Heap
  <2> QED
    BY <1>3, <1>5, <2>1, <2>2
<1> QED
  BY <1>4, <1>5

\* A list, and a block b that is neither in it nor in the program's hands.
Loose(h, b, G, gaps) ==
    /\ h \in Heap /\ 0 < h.brk /\ gaps \subseteq 1 .. h.brk - 1
    /\ Ordered(h) /\ Joined(h) /\ G \cap Ring(h) = {}
    /\ b \in Addrs \ (Ring(h) \cup G)
    /\ Layout(((Ring(h) \ {base}) \cup G) \cup {b}, h.size, h.brk, gaps)

\* free finds the block below b.
LEMMA FreePlace ==
    ASSUME NEW h, NEW b, NEW G, NEW gaps, Loose(h, b, G, gaps)
    PROVE  \E p \in Ring(h) :
              /\ p < b /\ (b < h.ptr[p] \/ h.ptr[p] = base)
              /\ free(h, b) = [JoinDown(JoinUp(h, b, p), b, p) EXCEPT !.freep = p]
<1> DEFINE w == Walk(h)
           R == Ring(h)
           place == {k \in Addrs : LET p == w[k] IN
                       \/ b > p /\ b < h.ptr[p]
                       \/ p >= h.ptr[p] /\ (b > p \/ b < h.ptr[p])}
           p == w[Lowest(place)]
<1>1. /\ h \in Heap /\ Ordered(h) /\ b \in Addrs \ Ring(h) /\ b > 0 /\ base \in R
      /\ R \subseteq Addrs /\ \A r \in R : Follows(R, r, h.ptr[r])
  <2>1. b \in Addrs \ {base} /\ b \in Addrs \ Ring(h)
    BY DEF Loose, Layout
  <2>2. b > 0
    BY <2>1, AddressesAre
  <2> QED
    BY <2>1, <2>2 DEF Loose, Ordered, Ring
<1>2. w \in [Addrs -> R] /\ \A r \in R : \E k \in Addrs : w[k] = r
  <2>1. w \in [Addrs -> R]
    BY <1>1, WalkIs
  <2>2. \A r \in R : \E k \in Addrs : w[k] = r
    BY <1>1, WalkTurns
  <2> QED
    BY <2>1, <2>2
<1>3. free(h, b) = [JoinDown(JoinUp(h, b, p), b, p) EXCEPT !.freep = p]
  BY DEF free
<1> HIDE DEF w, R
<1>4. \A r \in R : r \in Nat /\ h.ptr[r] \in Nat /\ h.ptr[r] \in R
  BY <1>1, AddressesAre DEF Follows
<1>5. b \in Nat /\ b <= HeapMax /\ HeapMax \in Nat
  BY <1>1, AddressesAre DEF Addrs
<1>6. place # {}
  <2> DEFINE S == {r \in R : r < b}
  <2>1. base \in S /\ S \subseteq 0 .. HeapMax
    <3>1. \A r \in R : r < b => r \in 0 .. HeapMax
      BY <1>4, <1>5
    <3>2. base < b
      BY <1>1, AddressesAre
    <3> QED
      BY <1>1, <3>1, <3>2
  <2>2. PICK r \in S : \A y \in S : y <= r
    <3> HIDE DEF S
    <3> QED
      BY <1>5, <2>1, HasGreatest
  <2>3. r \in R /\ r < b /\ Follows(R, r, h.ptr[r]) /\ b \notin R
    BY <1>1, <2>2 DEF R
  <2>4. b < h.ptr[r] \/ r >= h.ptr[r]
    <3>1. CASE r < h.ptr[r]
      <4>1. h.ptr[r] \notin S
        BY <1>4, <2>2, <2>3, <3>1
      <4>2. h.ptr[r] # b /\ ~(h.ptr[r] < b)
        BY <1>4, <2>3, <4>1
      <4> QED
        BY <1>4, <1>5, <2>3, <4>2
    <3> QED
      BY <1>4, <2>3, <3>1
  <2>5. PICK k \in Addrs : w[k] = r
    BY <1>2, <2>3
  <2>6. k \in place
    BY <1>4, <1>5, <2>3, <2>4, <2>5
  <2> QED
    BY <2>6
<1>7. Lowest(place) \in place
  <2>1. place \subseteq Nat
    BY AddressesAre
  <2> HIDE DEF place
  <2> QED
    BY <1>6, <2>1, LowestIn
<1>8. p \in R /\ ((b > p /\ b < h.ptr[p]) \/ (p >= h.ptr[p] /\ (b > p \/ b < h.ptr[p])))
  BY <1>2, <1>7
<1> HIDE DEF p, place
<1>9. p < b /\ (b < h.ptr[p] \/ h.ptr[p] = base)
  <2>1. Follows(R, p, h.ptr[p])
    BY <1>1, <1>8
  <2>2. p >= h.ptr[p] => h.ptr[p] = base
    BY <1>4, <1>8, <2>1 DEF Follows
  <2> QED
    BY <1>1, <1>4, <1>5, <1>8, <2>2, AddressesAre
<1> QED
  BY <1>3, <1>8, <1>9 DEF R

\* free puts the block into the list, alone or as part of its neighbours, and
\* disturbs no block of the program.
LEMMA FreeKeeps ==
    ASSUME NEW h, NEW b, NEW G, NEW gaps, Loose(h, b, G, gaps)
    PROVE  LET g == free(h, b)
           IN  /\ Sound(g, G, gaps) /\ g.brk = h.brk /\ \A a \in G : g.size[a] = h.size[a]
               /\ g.freep # NoBlock /\ \E a \in Ring(g) : g.size[a] >= h.size[b]
<1> DEFINE R == Ring(h)
           B == ((R \ {base}) \cup G) \cup {b}
<1>1. PICK p \in R : /\ p < b /\ (b < h.ptr[p] \/ h.ptr[p] = base)
                     /\ free(h, b) = [JoinDown(JoinUp(h, b, p), b, p) EXCEPT !.freep = p]
  BY FreePlace
<1> DEFINE up == h.ptr[p]
           u == JoinUp(h, b, p)
           d == JoinDown(u, b, p)
           U == b + h.size[b] = up
           D == p + u.size[p] = b
<1>2. /\ h \in Heap /\ b \in Addrs /\ b \notin R /\ b \notin G /\ b \in B /\ G \cap R = {}
      /\ R \subseteq Addrs /\ base \in R /\ h.size[base] = 0
      /\ \A r \in R : Follows(R, r, h.ptr[r])
      /\ \A a \in R \ {base} : a + h.size[a] \notin R
      /\ h.brk \in Addrs /\ h.ptr \in [Addrs -> Addrs \cup {NoBlock}] /\ h.size \in [Addrs -> Nat]
  BY DEF Loose, Ordered, Ring, Joined, Heap
<1>3. Layout(B, h.size, h.brk, gaps)
  BY DEF Loose
<1>4. up \in R /\ Follows(R, p, up)
  BY <1>2 DEF Follows
<1>5. \A a \in Addrs : a \in Nat /\ h.size[a] \in Nat
  BY <1>2, AddressesAre
<1>6. /\ b \in Nat /\ p \in Nat /\ up \in Nat /\ p \in Addrs /\ up \in Addrs
      /\ h.size[b] > 0 /\ b > 0 /\ b # p /\ b # up /\ b # base
  <2> HIDE DEF B, R
  <2>1. h.size[b] > 0 /\ b # base
    BY <1>2, <1>3 DEF Layout
  <2>2. b \in Nat /\ p \in Nat /\ up \in Nat /\ p \in Addrs /\ up \in Addrs
    BY <1>2, <1>4, <1>5
  <2>3. b # p /\ b # up
    BY <1>2, <1>4
  <2> QED
    BY <2>1, <2>2, <2>3, AddressesAre
<1>30. p < b /\ h.size[b] \in Nat /\ h.size[up] \in Nat
  <2>1. p < b
    BY <1>1
  <2> HIDE DEF up
  <2>2. h.size[b] \in Nat /\ h.size[up] \in Nat
    BY <1>2, <1>6
  <2> QED
    BY <2>1, <2>2
<1>7. U => up # base /\ up > b /\ up # p /\ b + h.size[b] = up
  <2> HIDE DEF up
  <2> QED
    BY <1>6, <1>30, AddressesAre
<1>8. G \subseteq Addrs
  BY <1>3 DEF Layout
<1> HIDE DEF R, B
<1>9. /\ u \in Heap /\ u.freep = h.freep /\ u.brk = h.brk
      /\ U => /\ u.size[b] = h.size[b] + h.size[up] /\ u.size[up] = 0
              /\ \A a \in Addrs \ {b, up} : u.size[a] = h.size[a]
              /\ u.ptr[b] = h.ptr[up] /\ u.ptr[up] = NoBlock
              /\ \A a \in Addrs \ {b, up} : u.ptr[a] = h.ptr[a]
      /\ ~U => /\ u.size = h.size
               /\ u.ptr[b] = up /\ \A a \in Addrs \ {b} : u.ptr[a] = h.ptr[a]
  BY <1>2, <1>6, JoinUpIs
<1> HIDE DEF u, U
<1>27. u \in Heap
  BY <1>9
<1>10. /\ d \in Heap /\ d.freep = u.freep /\ d.brk = u.brk
       /\ D => /\ d.size[p] = u.size[p] + u.size[b] /\ d.size[b] = 0
               /\ \A a \in Addrs \ {b, p} : d.size[a] = u.size[a]
               /\ d.ptr[p] = u.ptr[b] /\ d.ptr[b] = NoBlock
               /\ \A a \in Addrs \ {b, p} : d.ptr[a] = u.ptr[a]
       /\ ~D => /\ d.size = u.size
                /\ d.ptr[p] = b /\ \A a \in Addrs \ {p} : d.ptr[a] = u.ptr[a]
  <2> HIDE DEF up
  <2>1. b \in Addrs /\ p \in Addrs /\ b # p
    BY <1>2, <1>6
  <2> QED
    BY <1>27, <2>1, JoinDownIs
<1> HIDE DEF up, d, D
<1>11. u.size \in [Addrs -> Nat] /\ d.size \in [Addrs -> Nat] /\ d.ptr \in [Addrs -> Addrs \cup {NoBlock}]
  BY <1>9, <1>10 DEF Heap
<1> DEFINE f1 == [a \in Addrs |-> IF a = p THEN b ELSE IF a = b THEN up ELSE h.ptr[a]]
           f2 == [a \in Addrs |-> IF a = p THEN b ELSE u.ptr[a]]
           R1 == R \cup {b}
           R2 == IF U THEN R1 \ {up} ELSE R1
           R3 == IF D THEN R2 \ {b} ELSE R2
<1>28. /\ f1[p] = b /\ f1[b] = up /\ \A a \in Addrs \ {p, b} : f1[a] = h.ptr[a]
       /\ f2[p] = b /\ \A a \in Addrs \ {p} : f2[a] = u.ptr[a]
  BY <1>2, <1>6
<1> HIDE DEF f1, f2
<1>29. R1 \subseteq Addrs /\ R2 \subseteq R1 /\ R3 \subseteq R2
  BY <1>2
<1>12. Stage(R1, f1, h.size, G, h.brk, gaps)
  <2>1. /\ Follows(R1, p, b) /\ Follows(R1, b, up)
        /\ \A r \in R \ {p} : Follows(R1, r, h.ptr[r])
    BY <1>1, <1>2, RingInsert DEF up
  <2>2. f1[p] = b /\ f1[b] = up /\ \A r \in R \ {p} : f1[r] = h.ptr[r]
    BY <1>2, <1>28
  <2>3. \A r \in R1 : Follows(R1, r, f1[r])
    BY <2>1, <2>2
  <2>4. (R1 \ {base}) \cup G = B
    BY <1>6 DEF B
  <2> HIDE DEF R1
  <2>5. R1 \subseteq Addrs /\ base \in R1 /\ G \cap R1 = {}
    BY <1>2 DEF R1
  <2> QED
    BY <1>2, <1>3, <2>3, <2>4, <2>5 DEF Stage
<1>13. Stage(R2, f2, u.size, G, h.brk, gaps)
  <2>1. CASE U
    <3>1. f2[b] = f1[up] /\ f1[b] = up /\ \A c \in R1 \ {b, up} : f2[c] = f1[c]
      BY <1>6, <1>7, <1>9, <1>28, <1>29, <2>1
    <3>2. /\ u.size[b] = h.size[b] + h.size[up]
          /\ \A c \in Addrs \ {b, up} : u.size[c] = h.size[c]
      BY <1>9, <2>1
    <3>3. b \in R1 /\ b # base /\ up # base /\ R2 = R1 \ {up} /\ b + h.size[b] = up
      BY <1>6, <1>7, <2>1
    <3> HIDE DEF R1, R2
    <3> QED
      BY <1>2, <1>11, <1>12, <2>1, <3>1, <3>2, <3>3, StageMerge
  <2>2. CASE ~U
    <3>1. R2 = R1 /\ u.size = h.size /\ \A c \in R1 : f2[c] = f1[c]
      BY <1>6, <1>9, <1>28, <1>29, <2>2
    <3> HIDE DEF R1, R2
    <3> QED
      BY <1>12, <3>1 DEF Stage
  <2> QED
    BY <2>1, <2>2
<1>14. p \in R2 /\ b \in R2
  BY <1>6, <1>7
<1>15. Stage(R3, d.ptr, d.size, G, h.brk, gaps)
  <2>1. CASE D
    <3>1. d.ptr[p] = f2[b] /\ f2[p] = b /\ \A c \in R2 \ {p, b} : d.ptr[c] = f2[c]
      <4>1. R2 \subseteq Addrs
        BY <1>29
      <4>2. /\ d.ptr[p] = u.ptr[b] /\ \A a \in Addrs \ {b, p} : d.ptr[a] = u.ptr[a]
        BY <1>10, <2>1
      <4> HIDE DEF R2, D
      <4> QED
        BY <1>2, <1>6, <1>28, <4>1, <4>2
    <3>2. p # base
      <4>1. u.size[base] = 0
        BY <1>13 DEF Stage
      <4> QED
        BY <1>6, <2>1, <4>1, AddressesAre DEF D
    <3>3. /\ d.size[p] = u.size[p] + u.size[b]
          /\ \A c \in Addrs \ {p, b} : d.size[c] = u.size[c]
      BY <1>10, <2>1
    <3>4. R3 = R2 \ {b} /\ p + u.size[p] = b
      BY <2>1 DEF D
    <3> HIDE DEF R2, R3, D
    <3>5. Stage(R2 \ {b}, d.ptr, d.size, G, h.brk, gaps)
      <4>1. p \in R2 /\ h.brk \in Addrs /\ b # base
        BY <1>2, <1>6, <1>14
      <4>2. d.size \in [Addrs -> Nat] /\ \A c \in Addrs \ {p, b} : d.size[c] = u.size[c]
        BY <1>11, <3>3
      <4> QED
        BY <1>13, <3>1, <3>2, <3>3, <3>4, <4>1, <4>2, StageMerge
    <3> QED
      BY <3>4, <3>5
  <2>2. CASE ~D
    <3>1. R3 = R2 /\ d.size = u.size /\ \A c \in R2 : d.ptr[c] = f2[c]
      <4>1. R2 \subseteq Addrs
        BY <1>29
      <4>2. /\ d.ptr[p] = b /\ \A a \in Addrs \ {p} : d.ptr[a] = u.ptr[a] /\ d.size = u.size
        BY <1>10, <2>2
      <4>3. R3 = R2
        BY <2>2
      <4> HIDE DEF R2, D, R3
      <4> QED
        BY <1>6, <1>10, <1>28, <2>2, <4>1, <4>2, <4>3
    <3> HIDE DEF R2, R3, D
    <3> QED
      BY <1>13, <3>1 DEF Stage
  <2> QED
    BY <2>1, <2>2
<1>16. Ring(d) = R3
  <2>1. ASSUME NEW a \in R3 PROVE a \in Ring(d)
    <3> HIDE DEF R3
    <3>1. R3 \subseteq Addrs /\ d.ptr[a] \in R3
      BY <1>15 DEF Stage, Follows
    <3> QED
      BY <3>1, AddressesAre DEF Ring
  <2>2. ASSUME NEW a \in Addrs \ R3 PROVE d.ptr[a] = NoBlock
    <3>1. CASE a = b
      BY <1>10, <1>14, <2>2, <3>1
    <3>2. CASE a # b /\ U /\ a = up
      BY <1>6, <1>7, <1>9, <1>10, <3>2
    <3>3. CASE a # b /\ ~(U /\ a = up)
      <4>1. a \notin R /\ a # p
        BY <1>14, <2>2, <3>3
      <4>2. a # up /\ h.ptr[a] = NoBlock
        BY <1>4, <4>1 DEF R, Ring, up
      <4> QED
        BY <1>9, <1>10, <3>3, <4>1, <4>2
    <3> QED
      BY <3>1, <3>2, <3>3
  <2> QED
    BY <2>1, <2>2 DEF Ring
<1>17. ASSUME NEW a \in R2 \ {base}, a + u.size[a] \in R2 PROVE a = p /\ D
  <2>1. u.size[a] \in Nat /\ a \in Nat /\ a \in R1
    BY <1>2, <1>6, <1>11, AddressesAre
  <2>2. CASE a = b /\ U
    <3>1. b + u.size[b] = up + h.size[up] /\ up \in R \ {base}
      <4>1. u.size[b] = h.size[b] + h.size[up] /\ b + h.size[b] = up /\ up # base /\ U
        <5>1. U
          BY <2>2
        <5>2. u.size[b] = h.size[b] + h.size[up]
          BY <1>9, <5>1, Zenon
        <5> QED
          BY <1>7, <5>1, <5>2, Zenon
      <4>2. h.size[b] \in Nat /\ h.size[up] \in Nat /\ b \in Nat
        BY <1>6, <1>30
      <4>3. up \in R
        BY <1>4 DEF up
      <4> QED
        BY <4>1, <4>2, <4>3
    <3>2. up + h.size[up] \notin R
      BY <1>2, <3>1
    <3>3. up + h.size[up] # b
      <4>1. up > b /\ h.size[up] \in Nat
        BY <1>5, <1>6, <1>7, <2>2
      <4> QED
        BY <1>6, <4>1
    <3> QED
      BY <1>17, <2>2, <3>1, <3>2, <3>3
  <2>3. CASE a = b /\ ~U
    <3> DEFINE x == b + h.size[b]
    <3>1. x \in R /\ x # b /\ x > b
      <4>1. u.size[b] = h.size[b] /\ h.size[b] \in Nat
        <5>1. u.size = h.size
          BY <1>9, <2>3, Zenon
        <5> QED
          BY <1>30, <5>1
      <4>2. x \in R2
        BY <1>17, <2>3, <4>1
      <4>3. x > b
        BY <1>6, <4>1
      <4>4. x \in R1
        BY <1>29, <4>2
      <4> QED
        BY <1>6, <4>3, <4>4
    <3> HIDE DEF x
    <3>2. x \in Nat /\ ~(x <= p)
      BY <1>1, <1>2, <1>5, <1>6, <3>1
    <3>3. b < up /\ up <= x /\ up # base
      <4>1. p < up \/ up = base
        BY <1>4 DEF Follows, up
      <4>2. x <= p \/ (up <= x /\ up # base)
        BY <1>1, <1>4, <1>6, <3>1, <3>2, AddressesAre DEF Follows, up
      <4>3. b < up \/ up = base
        BY <1>1 DEF up
      <4> QED
        BY <3>2, <4>2, <4>3
    <3>4. up \in B
      BY <1>4, <3>3 DEF B, R, up
    <3>5. x <= up
      BY <1>2, <1>3, <3>3, <3>4 DEF Layout, x
    <3> QED
      BY <1>6, <2>3, <3>2, <3>3, <3>5 DEF x, U
  <2>4. CASE a # b
    <3>1. a \in R \ {base} /\ a \in Addrs /\ ~(U /\ a = up)
      BY <1>2, <2>1, <2>4
    <3>2. u.size[a] = h.size[a]
      BY <1>9, <2>4, <3>1
    <3>3. a + h.size[a] = b
      <4>1. a + h.size[a] \in R2 /\ a + h.size[a] \notin R
        BY <1>2, <1>17, <3>1, <3>2
      <4> QED
        BY <1>29, <4>1
    <3>4. a < b
      <4>1. h.size[a] \in Nat
        BY <1>5, <3>1
      <4> QED
        BY <1>6, <2>1, <2>4, <3>3, <4>1
    <3>5. a <= p
      <4>1. up \in Nat /\ (a <= p \/ (up <= a /\ up # base))
        BY <1>4, <1>6, <2>1, <3>1, AddressesAre DEF Follows, up
      <4>2. b < up \/ up = base
        BY <1>1 DEF up
      <4> QED
        BY <1>6, <2>1, <3>4, <4>1, <4>2
    <3>6. ASSUME a < p PROVE FALSE
      <4>1. a \in B /\ p \in B
        BY <1>6, <2>1, <3>1, <3>6, AddressesAre DEF B
      <4>2. a + h.size[a] <= p
        BY <1>3, <3>6, <4>1 DEF Layout
      <4> QED
        BY <1>1, <1>6, <3>3, <4>2
    <3> QED
      <4>1. a = p
        BY <1>6, <2>1, <3>5, <3>6
      <4> QED
        BY <3>2, <3>3, <4>1 DEF D
  <2> QED
    BY <2>2, <2>3, <2>4
<1>18. ASSUME NEW a \in R3 \ {base}, a + d.size[a] \in R3 PROVE FALSE
  <2>1. a \in R2 /\ a \in Addrs /\ R3 \subseteq R2
    BY <1>2, <1>6
  <2>2. CASE D /\ a = p
    <3>1. d.size[p] = u.size[p] + u.size[b] /\ u.size[p] \in Nat /\ u.size[b] \in Nat
      <4>1. d.size[p] = u.size[p] + u.size[b]
        BY <1>10, <2>2
      <4>2. u.size[p] \in Nat /\ u.size[b] \in Nat
        BY <1>2, <1>6, <1>11
      <4> QED
        BY <4>1, <4>2
    <3>2. p + d.size[p] = b + u.size[b]
      <4>1. p + u.size[p] = b
        BY <2>2 DEF D
      <4> QED
        BY <1>6, <3>1, <4>1
    <3>3. b + u.size[b] \in R2
      BY <1>18, <2>1, <2>2, <3>2
    <3> QED
      BY <1>6, <1>14, <1>17, <3>3
  <2>3. CASE D /\ a # p
    <3>1. a # b /\ d.size[a] = u.size[a]
      BY <1>10, <2>1, <2>3
    <3> QED
      BY <1>17, <1>18, <2>1, <2>3, <3>1
  <2>4. CASE ~D
    BY <1>10, <1>17, <1>18, <2>1, <2>4
  <2> QED
    BY <2>2, <2>3, <2>4
<1>19. p \in R3
  BY <1>6, <1>14
<1> DEFINE g == [d EXCEPT !.freep = p]
<1>20. /\ g \in Heap /\ g.freep = p /\ g.ptr = d.ptr /\ g.size = d.size /\ g.brk = h.brk
  BY <1>6, <1>9, <1>10 DEF Heap
<1>21. Ring(g) = R3
  BY <1>16, <1>20 DEF Ring
<1>22. free(h, b) = g
  BY <1>1 DEF d, u
<1>23. \A a \in G : d.size[a] = h.size[a]
  <2> SUFFICES ASSUME NEW a \in G PROVE d.size[a] = h.size[a]
    OBVIOUS
  <2>1. a \in Addrs /\ a # b /\ a # p /\ a # up
    BY <1>2, <1>4, <1>8 DEF up
  <2> QED
    BY <1>9, <1>10, <2>1
<1>24. \E a \in R3 : d.size[a] >= h.size[b]
  <2>1. u.size[b] \in Nat /\ u.size[p] \in Nat /\ u.size[b] >= h.size[b] /\ h.size[b] \in Nat
    <3>1. u.size[b] = h.size[b] + h.size[up] \/ u.size[b] = h.size[b]
      BY <1>9
    <3>2. u.size[b] \in Nat /\ u.size[p] \in Nat
      BY <1>2, <1>6, <1>11
    <3>3. h.size[b] \in Nat /\ h.size[up] \in Nat
      BY <1>30
    <3>4. CASE u.size[b] = h.size[b] + h.size[up]
      BY <3>2, <3>3, <3>4
    <3> QED
      BY <3>1, <3>2, <3>3, <3>4
  <2>2. CASE D
    <3>1. d.size[p] = u.size[p] + u.size[b]
      BY <1>10, <2>2
    <3> QED
      BY <1>19, <2>1, <3>1
  <2>3. CASE ~D
    BY <1>10, <1>14, <2>1, <2>3
  <2> QED
    BY <2>2, <2>3
<1> HIDE DEF g, R3
<1>25. Sound(g, G, gaps)
  <2>1. Ordered(g) /\ G \cap R3 = {} /\ Layout((R3 \ {base}) \cup G, g.size, g.brk, gaps)
    BY <1>15, <1>19, <1>20, <1>21 DEF Stage, Ordered
  <2>2. Joined(g)
    BY <1>18, <1>20, <1>21 DEF Joined
  <2>3. 0 < g.brk /\ gaps \subseteq 1 .. g.brk - 1
    BY <1>20 DEF Loose
  <2> QED
    BY <1>20, <1>21, <2>1, <2>2, <2>3 DEF Sound
<1>26. g.freep # NoBlock
  BY <1>6, <1>20, AddressesAre
<1> QED
  BY <1>20, <1>21, <1>22, <1>23, <1>24, <1>25, <1>26

-----------------------------------------------------------------------------
(* malloc and sbrk                                                         *)

\* The break is above the list.
LEMMA BreakOutside ==
    ASSUME NEW h, NEW G, NEW gaps, Sound(h, G, gaps)
    PROVE  /\ h \in Heap /\ h.brk \in Addrs \ Ring(h) /\ h.brk \notin G /\ Ordered(h)
           /\ h.freep \in Ring(h) /\ h.freep # NoBlock
<1> DEFINE B == (Ring(h) \ {base}) \cup G
<1>1. h \in Heap /\ h.brk \in Addrs /\ h.size \in [Addrs -> Nat] /\ 0 < h.brk /\ Ordered(h)
  BY DEF Sound, Heap
<1>2. Layout(B, h.size, h.brk, gaps)
  BY DEF Sound
<1> HIDE DEF B
<1>3. h.brk \notin B
  <2>1. \A a \in B : a \in Nat /\ h.size[a] \in Nat /\ h.size[a] > 0 /\ a + h.size[a] <= h.brk
    BY <1>1, <1>2, BlocksAre DEF Layout
  <2> QED
    BY <1>1, <2>1, AddressesAre
<1>4. h.brk # base
  BY <1>1, AddressesAre
<1>5. h.freep \in Ring(h) /\ h.freep # NoBlock
  BY <1>1, AddressesAre DEF Ordered, Ring
<1> QED
  BY <1>1, <1>3, <1>4, <1>5 DEF B

\* morecore adds a block of what sbrk gave.
LEMMA MoreKeeps ==
    ASSUME NEW h, NEW G, NEW gaps, Sound(h, G, gaps), NEW nu \in Nat \ {0}, h.brk + nu \in Addrs
    PROVE  LET g == morecore(h, nu)
           IN  /\ Sound(g, G, gaps) /\ \A a \in G : g.size[a] = h.size[a]
               /\ \E a \in Ring(g) : g.size[a] >= nu
<1> DEFINE b == h.brk
           S == [h.size EXCEPT ![b] = nu]
           e == [h EXCEPT !.brk = @ + nu, !.size[h.brk] = nu]
           B == (Ring(h) \ {base}) \cup G
<1>1. /\ h \in Heap /\ b \in Addrs \ Ring(h) /\ b \notin G /\ h.size \in [Addrs -> Nat]
      /\ 0 < b /\ gaps \subseteq 1 .. b - 1 /\ Ordered(h) /\ Joined(h) /\ G \cap Ring(h) = {}
  BY BreakOutside DEF Sound, Heap
<1>2. Layout(B, h.size, b, gaps)
  BY DEF Sound
<1>3. /\ e \in Heap /\ e.ptr = h.ptr /\ e.size = S /\ e.brk = b + nu /\ e.freep = h.freep
  BY <1>1 DEF Heap
<1>4. S \in [Addrs -> Nat] /\ S[b] = nu /\ \A a \in Addrs \ {b} : S[a] = h.size[a]
  BY <1>1
<1>5. b \in Nat /\ b # base /\ B \subseteq Addrs /\ b \notin B /\ base \in Addrs
  BY <1>1, <1>2, AddressesAre DEF Layout, Addrs
<1> HIDE DEF b, S, e, B
<1>6. Layout(B \cup {b}, S, b + nu, gaps)
  <2>1. \A c \in B : S[c] = h.size[c]
    BY <1>4, <1>5
  <2>2. b + nu \in Addrs /\ b \in Addrs /\ 0 < nu /\ nu \in Nat
    BY <1>1 DEF b
  <2>3. S[b] = nu /\ h.size \in [Addrs -> Nat] /\ 0 < b /\ gaps \subseteq 1 .. b - 1
    BY <1>1, <1>4
  <2> QED
    BY <1>2, <2>1, <2>2, <2>3, LayoutMore
<1>7. Ring(e) = Ring(h)
  BY <1>3 DEF Ring
<1>8. Ring(h) \subseteq Addrs /\ base \in Ring(h)
  BY <1>1 DEF Ordered, Ring
<1>9. Ordered(e) /\ Joined(e)
  <2>1. \A a \in Ring(h) : S[a] = h.size[a]
    BY <1>1, <1>4, <1>8
  <2> QED
    BY <1>1, <1>3, <1>7, <1>8, <2>1 DEF Ordered, Joined
<1>10. 0 < b + nu /\ gaps \subseteq 1 .. (b + nu) - 1
  BY <1>1, <1>5
<1>11. Loose(e, b, G, gaps)
  BY <1>1, <1>3, <1>6, <1>7, <1>9, <1>10 DEF Loose, B
<1>12. morecore(h, nu) = free(e, b)
  BY DEF morecore, e, b
<1>13. \A a \in G : S[a] = h.size[a]
  <2>1. G \subseteq Addrs
    BY <1>5 DEF B
  <2> QED
    BY <1>1, <1>4, <2>1
<1> QED
  BY <1>3, <1>4, <1>11, <1>12, <1>13, FreeKeeps

\* The places of the list in Fits.
LEMMA FitsAre ==
    ASSUME NEW h, NEW G, NEW gaps, Sound(h, G, gaps), NEW n
    PROVE  /\ Fits(h, n) \subseteq Addrs \ {0}
           /\ \A k \in Fits(h, n) : h.size[Walk(h)[k]] >= n
           /\ \A a \in Ring(h) : h.size[a] >= n => Fits(h, n) # {}
<1> DEFINE last == Lowest({k \in Addrs \ {0} : Walk(h)[k] = h.freep})
<1>1. 1 .. last \subseteq Addrs /\ \A p \in Ring(h) : \E k \in 1 .. last : Walk(h)[k] = p
  BY BreakOutside, WalkTurns
<1>2. Fits(h, n) = {k \in 1 .. last : h.size[Walk(h)[k]] >= n}
  BY DEF Fits
<1> HIDE DEF last
<1>3. 0 \notin 1 .. last
  OBVIOUS
<1> QED
  BY <1>1, <1>2, <1>3

\* What Take hands out was free, has the size asked for, and the list goes on
\* without it.
LEMMA TakeKeeps ==
    ASSUME NEW h, NEW G, NEW gaps, Sound(h, G, gaps), NEW n \in Nat \ {0}, Fits(h, n) # {}
    PROVE  LET t == Take(h, n)
           IN  /\ t.at \in Addrs /\ t.h.size[t.at] = n
               /\ Sound(t.h, G \cup {t.at}, gaps) /\ \A a \in G : t.h.size[a] = h.size[a]
<1> DEFINE R == Ring(h)
           B == (R \ {base}) \cup G
           k == Lowest(Fits(h, n))
           q == Walk(h)[k - 1]
           p == Walk(h)[k]
           rest == h.size[p] - n
<1>1. /\ h \in Heap /\ Ordered(h) /\ Joined(h) /\ G \cap R = {} /\ h.brk \in Addrs /\ 0 < h.brk
      /\ h.size \in [Addrs -> Nat] /\ h.ptr \in [Addrs -> Addrs \cup {NoBlock}]
      /\ gaps \subseteq 1 .. h.brk - 1
      /\ R \subseteq Addrs /\ base \in R /\ h.size[base] = 0
      /\ \A r \in R : Follows(R, r, h.ptr[r])
  BY DEF Sound, Ordered, Ring, Heap
<1>2. Layout(B, h.size, h.brk, gaps)
  BY DEF Sound
<1>3. k \in Addrs \ {0} /\ h.size[p] >= n
  <2>1. Fits(h, n) \subseteq Nat
    BY FitsAre, AddressesAre
  <2>2. k \in Fits(h, n)
    BY <2>1, LowestIn
  <2> HIDE DEF k
  <2> QED
    BY <2>2, FitsAre
<1>4. p \in R /\ q \in R /\ h.ptr[q] = p
  <2> HIDE DEF k
  <2>1. k - 1 \in Addrs
    BY <1>3, AddressesAre DEF Addrs
  <2> QED
    BY <1>1, <1>3, <2>1, WalkIs
<1> HIDE DEF k, q, p, R
<1>5. p # base /\ p \in Addrs /\ q \in Addrs /\ p \in B /\ h.size[p] \in Nat
  <2>1. p # base
    BY <1>1, <1>3
  <2> QED
    BY <1>1, <1>4, <2>1
<1>6. /\ p # q /\ Follows(R \ {p}, q, h.ptr[p])
      /\ \A r \in R \ {q, p} : Follows(R \ {p}, r, h.ptr[r])
  <2>1. h.ptr[q] # base
    BY <1>4, <1>5
  <2>2. /\ h.ptr[q] # q /\ Follows(R \ {h.ptr[q]}, q, h.ptr[h.ptr[q]])
        /\ \A r \in R \ {q, h.ptr[q]} : Follows(R \ {h.ptr[q]}, r, h.ptr[r])
    BY <1>1, <1>4, <2>1, RingRemove
  <2> QED
    BY <1>4, <2>2
<1>7. CASE rest = 0
  <2> DEFINE P == [h.ptr EXCEPT ![q] = h.ptr[p], ![p] = NoBlock]
             g == [h EXCEPT !.ptr = P, !.freep = q]
  <2>1. Take(h, n) = [at |-> p, h |-> g]
    BY <1>7 DEF Take, p, q, k, Heap
  <2>2. /\ P \in [Addrs -> Addrs \cup {NoBlock}] /\ P[q] = h.ptr[p] /\ P[p] = NoBlock
        /\ \A a \in Addrs \ {q, p} : P[a] = h.ptr[a]
    BY <1>1, <1>4, <1>5, <1>6
  <2>3. g \in Heap /\ g.ptr = P /\ g.freep = q /\ g.size = h.size /\ g.brk = h.brk
    <3> HIDE DEF P
    <3> QED
      BY <1>1, <1>5, <2>2 DEF Heap
  <2> HIDE DEF P, g
  <2>4. Ring(g) = R \ {p}
    <3>1. \A a \in Addrs : P[a] # NoBlock <=> h.ptr[a] # NoBlock /\ a # p
      BY <1>4, <1>5, <1>6, <2>2 DEF R, Ring
    <3> QED
      BY <2>3, <3>1 DEF R, Ring
  <2>5. Ordered(g)
    <3>1. base \in R \ {p} /\ q \in R \ {p}
      BY <1>1, <1>4, <1>5, <1>6
    <3>2. \A r \in R \ {p} : Follows(R \ {p}, r, P[r])
      <4> SUFFICES ASSUME NEW r \in R \ {p} PROVE Follows(R \ {p}, r, P[r])
        OBVIOUS
      <4>1. CASE r = q
        BY <1>6, <2>2, <4>1
      <4>2. CASE r # q
        <5>1. r \in Addrs \ {q, p} /\ r \in R \ {q, p}
          BY <1>1, <4>2
        <5> QED
          BY <1>6, <2>2, <5>1
      <4> QED
        BY <4>1, <4>2
    <3> QED
      BY <1>1, <2>3, <2>4, <3>1, <3>2 DEF Ordered
  <2>6. Joined(g)
    BY <1>1, <2>3, <2>4 DEF Joined, R
  <2>7. (Ring(g) \ {base}) \cup (G \cup {p}) = B /\ (G \cup {p}) \cap Ring(g) = {}
    BY <1>1, <1>4, <1>5, <2>4
  <2>8. h.size[p] = n
    BY <1>5, <1>7
  <2>9. Sound(g, G \cup {p}, gaps)
    BY <1>1, <1>2, <2>3, <2>5, <2>6, <2>7 DEF Sound
  <2>10. Take(h, n).at = p /\ Take(h, n).h = g
    BY <2>1
  <2> QED
    BY <1>5, <2>3, <2>8, <2>9, <2>10
<1>8. CASE rest # 0
  <2> DEFINE x == p + rest
             S == [h.size EXCEPT ![p] = rest, ![x] = n]
             g == [h EXCEPT !.size = S, !.freep = q]
  <2>1. Take(h, n) = [at |-> x, h |-> g]
    BY <1>8 DEF Take, p, q, k, Heap
  <2>2. rest \in Nat /\ 0 < rest /\ rest < h.size[p] /\ n = h.size[p] - rest
    BY <1>3, <1>5, <1>8
  <2>3. x # p /\ x \in Nat
    BY <1>5, <2>2, AddressesAre
  <2> HIDE DEF rest
  <2>4. \A c \in B \ {p} : c # x => S[c] = h.size[c]
    <3>1. B \subseteq Addrs
      BY <1>2 DEF Layout
    <3> HIDE DEF B, x
    <3> QED
      BY <1>1, <3>1
  <2>5. x \in Addrs /\ x > 0 /\ \A c \in B : c # x
    <3>1. Layout(B, h.size, h.brk, gaps) /\ p \in B /\ h.size \in [Addrs -> Nat] /\ h.brk \in Addrs
      BY <1>1, <1>2, <1>5
    <3> DEFINE T == [c \in B \cup {x} |-> IF c = p THEN rest ELSE IF c = x THEN h.size[p] - rest ELSE h.size[c]]
    <3>3. \A c \in B : c < x \/ x < c \/ c = x
      BY <1>1, <1>2, <2>3, BlocksAre
    <3>4. \A c \in B : c # x
      <4> SUFFICES ASSUME NEW c \in B, c = x PROVE FALSE
        OBVIOUS
      <4>1. p < x
        BY <1>5, <2>2, AddressesAre
      <4>2. p + h.size[p] <= x
        BY <1>2, <1>5, <4>1 DEF Layout
      <4> QED
        BY <1>5, <2>2, <4>2, AddressesAre
    <3>5. x <= HeapMax /\ x > 0
      <4>1. p + h.size[p] <= h.brk
        BY <1>2, <1>5 DEF Layout
      <4>2. h.brk \in Nat /\ h.brk <= HeapMax /\ HeapMax \in Nat /\ p \in Nat
        BY <1>1, <1>5, AddressesAre DEF Addrs
      <4> QED
        BY <1>5, <2>2, <4>1, <4>2
    <3> QED
      BY <2>3, <3>4, <3>5 DEF Addrs
  <2>6. S \in [Addrs -> Nat] /\ S[p] = rest /\ S[x] = n
    <3> HIDE DEF x
    <3> QED
      BY <1>1, <1>5, <2>2, <2>3, <2>5
  <2>7. Layout(B \cup {x}, S, h.brk, gaps)
    <3>1. \A c \in B \ {p} : S[c] = h.size[c]
      BY <2>4, <2>5
    <3>2. S[p + rest] = h.size[p] - rest
      BY <2>2, <2>6
    <3> HIDE DEF S, x, B
    <3> QED
      BY <1>1, <1>2, <1>5, <2>2, <2>6, <3>1, <3>2, LayoutSplit DEF x
  <2>8. g \in Heap /\ g.ptr = h.ptr /\ g.freep = q /\ g.size = S /\ g.brk = h.brk
    <3> HIDE DEF S
    <3> QED
      BY <1>1, <1>5, <2>6 DEF Heap
  <2>9. Take(h, n).at = x /\ Take(h, n).h = g
    BY <2>1
  <2>10. x \notin R /\ x # base
    BY <2>5, AddressesAre DEF B
  <2>11. \A c \in Addrs \ {p, x} : S[c] = h.size[c]
    <3> HIDE DEF x
    <3> QED
      BY <1>1
  <2>15. p + rest = x
    OBVIOUS
  <2> HIDE DEF S, g, x
  <2>12. Ring(g) = R
    BY <2>8 DEF R, Ring
  <2>13. Ordered(g) /\ Joined(g)
    <3>1. S[base] = 0
      BY <1>1, <1>5, <2>10, <2>11
    <3>2. \A a \in R \ {base} : a + S[a] \notin R
      <4> SUFFICES ASSUME NEW a \in R \ {base} PROVE a + S[a] \notin R
        OBVIOUS
      <4>1. CASE a = p
        BY <2>6, <2>10, <2>15, <4>1
      <4>2. CASE a # p
        BY <1>1, <2>10, <2>11, <4>2 DEF Joined, R
      <4> QED
        BY <4>1, <4>2
    <3> QED
      BY <1>1, <1>4, <2>8, <2>12, <3>1, <3>2 DEF Ordered, Joined
  <2>14. (R \ {base}) \cup (G \cup {x}) = B \cup {x} /\ (G \cup {x}) \cap R = {}
    BY <1>1, <2>10
  <2> HIDE DEF B
  <2>16. Sound(g, G \cup {x}, gaps)
    BY <1>1, <2>7, <2>8, <2>12, <2>13, <2>14 DEF Sound
  <2>17. \A a \in G : S[a] = h.size[a]
    <3>1. G \subseteq B /\ B \subseteq Addrs /\ p \notin G
      BY <1>1, <1>2, <1>4 DEF B, Layout
    <3> QED
      BY <2>5, <2>11, <3>1
  <2> QED
    BY <2>5, <2>6, <2>8, <2>9, <2>16, <2>17
<1> QED
  BY <1>7, <1>8

-----------------------------------------------------------------------------
(* The inductive step                                                      *)

\* Started changes the first state of the list only.
LEMMA StartedIs ==
    ASSUME NEW h \in Heap
    PROVE  /\ h.freep # NoBlock => Started(h) = h
           /\ Started(h).brk = h.brk
           /\ Started(h).freep # NoBlock
           /\ Started([h EXCEPT !.brk = @ + 1]) = [Started(h) EXCEPT !.brk = @ + 1]
<1>1. h.freep # NoBlock => Started(h) = h
  BY DEF Started
<1>2. Started(h).brk = h.brk
  BY DEF Started, Heap
<1>3. Started(h).freep # NoBlock
  BY AddressesAre DEF Started, Heap
<1>4. Started([h EXCEPT !.brk = @ + 1]) = [Started(h) EXCEPT !.brk = @ + 1]
  <2> DEFINE g == [h EXCEPT !.brk = @ + 1]
             s == [h EXCEPT !.freep = base, !.ptr[base] = base, !.size[base] = 0]
  <2>1. g.freep = h.freep
    BY DEF Heap
  <2>2. CASE h.freep # NoBlock
    BY <2>1, <2>2 DEF Started
  <2>3. CASE h.freep = NoBlock
    <3>1. [g EXCEPT !.freep = base, !.ptr[base] = base, !.size[base] = 0] = [s EXCEPT !.brk = @ + 1]
      BY DEF Heap
    <3> QED
      BY <2>1, <2>3, <3>1 DEF Started
  <2> QED
    BY <2>2, <2>3
<1> QED
  BY <1>1, <1>2, <1>3, <1>4

\* There are no blocks at first.
LEMMA MallocInitially == MallocInit => MallocInv
<1> SUFFICES ASSUME MallocInit PROVE MallocInv
  OBVIOUS
<1> DEFINE s == Started(heap)
<1>1. /\ heap \in Heap /\ heap.freep = NoBlock /\ heap.brk = 1
      /\ heap.ptr = [a \in Addrs |-> NoBlock] /\ heap.size = [a \in Addrs |-> 0]
  BY AddressesAre DEF MallocInit, Heap, Addrs
<1>2. base \in Addrs /\ base # NoBlock
  BY AddressesAre DEF Addrs
<1>3. /\ s \in Heap /\ s.freep = base /\ s.brk = 1 /\ s.size[base] = 0 /\ s.ptr[base] = base
      /\ \A a \in Addrs \ {base} : s.ptr[a] = NoBlock
  <2>1. s = [heap EXCEPT !.freep = base, !.ptr[base] = base, !.size[base] = 0]
    BY <1>1 DEF Started
  <2> HIDE DEF s
  <2> QED
    BY <1>1, <1>2, <2>1 DEF Heap
<1> HIDE DEF s
<1>4. Ring(s) = {base} /\ Ring(heap) = {}
  BY <1>1, <1>2, <1>3 DEF Ring
<1>5. Given = {} /\ asked \in [Addrs -> Nat] /\ holes = {}
  BY DEF MallocInit, Given
<1>6. Ordered(s) /\ Joined(s)
  BY <1>2, <1>3, <1>4, AddressesAre DEF Ordered, Joined, Follows
<1>7. Layout((Ring(s) \ {base}) \cup {}, s.size, 1, {})
  BY <1>4 DEF Layout
<1>8. Sound(s, Given, holes)
  BY <1>3, <1>4, <1>5, <1>6, <1>7 DEF Sound
<1> QED
  BY <1>1, <1>4, <1>5, <1>8 DEF MallocInv, s

\* malloc gives out a block that fits.
LEMMA GiveKeeps ==
    ASSUME NEW h, NEW n \in Nat \ {0}, asked \in [Addrs -> Nat], Sound(h, Given, holes),
           \A a \in Given : h.size[a] = asked[a], Fits(h, n) # {}, Give(Take(h, n), n)
    PROVE  MallocInv'
<1> DEFINE t == Take(h, n)
<1>1. /\ t.at \in Addrs /\ t.h.size[t.at] = n
      /\ Sound(t.h, Given \cup {t.at}, holes) /\ \A a \in Given : t.h.size[a] = h.size[a]
  <2> DEFINE G == Given
             gaps == holes
  <2>1. Sound(h, G, gaps)
    OBVIOUS
  <2> HIDE DEF G, gaps
  <2>2. /\ t.at \in Addrs /\ t.h.size[t.at] = n
        /\ Sound(t.h, G \cup {t.at}, gaps) /\ \A a \in G : t.h.size[a] = h.size[a]
    <3>1. n \in Nat \ {0} /\ Fits(h, n) # {}
      OBVIOUS
    <3> QED
      BY ONLY <2>1, <3>1, TakeKeeps DEF t
  <2> QED
    BY <2>2 DEF G, gaps
<1>2. heap' = t.h /\ asked' = [asked EXCEPT ![t.at] = n] /\ holes' = holes
  BY DEF Give
<1> HIDE DEF t
<1>3. asked' \in [Addrs -> Nat] /\ asked'[t.at] = n /\ \A a \in Addrs \ {t.at} : asked'[a] = asked[a]
  BY <1>1, <1>2
<1>4. Given' = Given \cup {t.at}
  BY <1>1, <1>3 DEF Given
<1>5. heap' \in Heap /\ heap'.freep # NoBlock
  BY <1>1, <1>2, BreakOutside
<1>6. Started(heap') = heap'
  BY <1>5, StartedIs
<1>7. Sound(Started(heap'), Given', holes')
  BY <1>1, <1>2, <1>4, <1>6
<1>8. \A a \in Given' : heap'.size[a] = asked'[a]
  <2>1. Given \subseteq Addrs
    BY DEF Given
  <2> QED
    BY <1>1, <1>2, <1>3, <1>4, <2>1
<1>9. Started(heap)' = Started(heap')
  BY DEF Started
<1> QED
  BY <1>3, <1>5, <1>7, <1>8, <1>9 DEF MallocInv

\* What malloc and free find: a list, with the blocks that the program has.
LEMMA ListIs ==
    ASSUME MallocInv
    PROVE  /\ Started(heap) \in Heap /\ Started(heap).freep # NoBlock
           /\ Sound(Started(heap), Given, holes)
           /\ \A a \in Given : Started(heap).size[a] = asked[a]
<1>1. heap \in Heap
  BY DEF MallocInv
<1>2. Started(heap) \in Heap
  BY DEF MallocInv, Sound
<1>3. \A a \in Given : Started(heap).size[a] = asked[a]
  <2>1. CASE heap.freep = NoBlock
    BY <2>1 DEF MallocInv
  <2>2. CASE heap.freep # NoBlock
    BY <1>1, <2>2, StartedIs DEF MallocInv
  <2> QED
    BY <2>1, <2>2
<1> QED
  BY <1>1, <1>2, <1>3, StartedIs DEF MallocInv

\* malloc finds a block, or one that fits in what sbrk gave.
LEMMA MallocKeeps ==
    ASSUME MallocInv, NEW n \in Requests, malloc(n)
    PROVE  MallocInv'
<1> DEFINE h == Started(heap)
           nu == Asks(n)
           more == morecore(h, nu)
<1>1. n \in Nat \ {0} /\ nu \in Nat \ {0} /\ nu >= n
  BY MallocAssumption DEF Asks
<1>2. /\ asked \in [Addrs -> Nat] /\ Sound(h, Given, holes)
      /\ \A a \in Given : h.size[a] = asked[a]
  BY ListIs DEF MallocInv
<1>3. CASE Fits(h, n) # {}
  <2>1. Give(Take(h, n), n)
    BY <1>3 DEF malloc
  <2> HIDE DEF h
  <2> QED
    BY <1>1, <1>2, <1>3, <2>1, GiveKeeps
<1>4. CASE Fits(h, n) = {}
  <2>1. h.brk + nu <= HeapMax /\ Give(Take(more, n), n)
    BY <1>4 DEF malloc
  <2> HIDE DEF h, nu
  <2>2. h.brk + nu \in Addrs
    <3>1. h.brk \in Nat
      BY <1>2, AddressesAre DEF Sound, Heap
    <3> QED
      BY <1>1, <2>1, <3>1, AddressesAre DEF Addrs
  <2>3. /\ Sound(more, Given, holes) /\ \A a \in Given : more.size[a] = h.size[a]
        /\ \E a \in Ring(more) : more.size[a] >= nu
    BY <1>1, <1>2, <2>2, MoreKeeps
  <2> HIDE DEF more
  <2>4. Fits(more, n) # {}
    <3>1. PICK a \in Ring(more) : more.size[a] >= nu
      BY <2>3
    <3>2. more.size[a] \in Nat
      BY <2>3 DEF Sound, Heap, Ring
    <3>3. more.size[a] >= n
      BY <1>1, <3>1, <3>2
    <3> QED
      BY <2>3, <3>3, FitsAre
  <2>5. \A a \in Given : more.size[a] = asked[a]
    BY <1>2, <2>3
  <2> QED
    BY <1>1, <1>2, <2>1, <2>3, <2>4, <2>5, GiveKeeps
<1> QED
  BY <1>3, <1>4

\* When sbrk fails the list is there, and nothing else has changed.
LEMMA FailKeeps ==
    ASSUME MallocInv, NEW n, mallocFails(n)
    PROVE  MallocInv'
<1>1. heap' = Started(heap) /\ asked' = asked /\ holes' = holes
  BY DEF mallocFails
<1>2. /\ heap' \in Heap /\ heap'.freep # NoBlock /\ Sound(heap', Given, holes)
      /\ \A a \in Given : heap'.size[a] = asked[a]
  BY <1>1, ListIs
<1>3. Started(heap') = heap'
  BY <1>2, StartedIs
<1>4. Started(heap)' = Started(heap') /\ Given' = Given
  BY <1>1 DEF Started, Given
<1>5. Sound(Started(heap'), Given', holes')
  BY <1>1, <1>2, <1>3, <1>4
<1>6. asked' \in [Addrs -> Nat]
  BY <1>1 DEF MallocInv
<1> QED
  BY <1>1, <1>2, <1>4, <1>5, <1>6 DEF MallocInv

\* The program has called malloc before it calls free.
LEMMA FreeStep ==
    ASSUME MallocInv, NEW a \in Addrs, Free(a)
    PROVE  MallocInv'
<1> DEFINE G == Given \ {a}
<1>1. a \in Given /\ asked \in [Addrs -> Nat]
  BY DEF Free, Given, MallocInv
<1>2. heap \in Heap /\ heap.freep # NoBlock
  BY <1>1 DEF MallocInv
<1>3. Started(heap) = heap
  BY <1>2, StartedIs
<1>4. Sound(heap, Given, holes) /\ \A c \in Given : heap.size[c] = asked[c]
  BY <1>3, ListIs
<1>5. ((Ring(heap) \ {base}) \cup G) \cup {a} = (Ring(heap) \ {base}) \cup Given
  BY <1>1
<1>6. Loose(heap, a, G, holes)
  BY <1>1, <1>4, <1>5 DEF Sound, Loose
<1> HIDE DEF G
<1>7. /\ Sound(free(heap, a), G, holes) /\ \A c \in G : free(heap, a).size[c] = heap.size[c]
      /\ free(heap, a).freep # NoBlock
  BY <1>6, FreeKeeps
<1>8. heap' = free(heap, a) /\ asked' = [asked EXCEPT ![a] = 0] /\ holes' = holes
  BY DEF Free
<1>9. asked' \in [Addrs -> Nat] /\ asked'[a] = 0 /\ \A c \in Addrs \ {a} : asked'[c] = asked[c]
  BY <1>1, <1>8
<1>10. Given' = G
  BY <1>9 DEF Given, G
<1>11. heap' \in Heap /\ heap'.freep # NoBlock
  BY <1>7, <1>8 DEF Sound
<1>12. Started(heap') = heap' /\ Started(heap)' = Started(heap')
  BY <1>11, StartedIs DEF Started
<1>13. Sound(Started(heap)', Given', holes')
  BY <1>7, <1>8, <1>10, <1>12
<1>14. \A c \in Given' : heap'.size[c] = asked'[c]
  <2>1. G \subseteq Addrs \ {a} /\ G \subseteq Given
    BY DEF G, Given
  <2> QED
    BY <1>4, <1>7, <1>8, <1>9, <1>10, <2>1
<1> QED
  BY <1>9, <1>11, <1>13, <1>14 DEF MallocInv

\* The program's own sbrk takes the unit at the break.
LEMMA SbrkKeeps ==
    ASSUME MallocInv, sbrk
    PROVE  MallocInv'
<1> DEFINE s == Started(heap)
           g == [s EXCEPT !.brk = @ + 1]
<1>1. heap \in Heap /\ asked \in [Addrs -> Nat] /\ s.brk = heap.brk
  BY StartedIs DEF MallocInv
<1>2. /\ heap.brk < HeapMax /\ holes' = holes \cup {heap.brk} /\ heap' = [heap EXCEPT !.brk = @ + 1]
      /\ asked' = asked
  BY DEF sbrk
<1>3. Started(heap)' = g
  <2>1. Started(heap)' = Started(heap')
    BY DEF Started
  <2> QED
    BY <1>1, <1>2, <2>1, StartedIs
<1>4. Sound(s, Given, holes) /\ s \in Heap
  BY ListIs
<1> HIDE DEF s
<1>5. heap.brk \in Nat /\ heap.brk + 1 \in Addrs
  <2>1. heap.brk \in Nat
    BY <1>1, AddressesAre DEF Heap
  <2> QED
    BY <1>2, <2>1, AddressesAre DEF Addrs
<1>6. /\ g \in Heap /\ g.freep = s.freep /\ g.ptr = s.ptr /\ g.size = s.size /\ g.brk = s.brk + 1
  BY <1>1, <1>4, <1>5 DEF Heap
<1> HIDE DEF g
<1>7. Ring(g) = Ring(s)
  BY <1>6 DEF Ring
<1>8. Ordered(g) /\ Joined(g)
  BY <1>4, <1>6, <1>7 DEF Sound, Ordered, Joined
<1>9. Layout((Ring(g) \ {base}) \cup Given, g.size, g.brk, holes \cup {s.brk})
  <2>1. Layout((Ring(s) \ {base}) \cup Given, s.size, s.brk, holes) /\ 0 < s.brk
    BY <1>4 DEF Sound
  <2>2. s.size \in [Addrs -> Nat] /\ s.brk \in Addrs
    BY <1>4 DEF Heap
  <2>3. Layout((Ring(s) \ {base}) \cup Given, s.size, s.brk + 1, holes \cup {s.brk})
    BY <2>1, <2>2, LayoutHole
  <2> QED
    BY <1>6, <1>7, <2>3
<1>10. 0 < g.brk /\ holes \cup {s.brk} \subseteq 1 .. g.brk - 1
  <2>1. holes \subseteq 1 .. s.brk - 1 /\ 0 < s.brk /\ s.brk \in Nat
    BY <1>1, <1>4, <1>5 DEF Sound
  <2>2. g.brk - 1 = s.brk
    BY <1>6, <2>1
  <2>3. holes \cup {s.brk} \subseteq 1 .. s.brk
    <3>1. \A x \in holes : x \in 1 .. s.brk
      BY <2>1
    <3>2. s.brk \in 1 .. s.brk
      BY <2>1
    <3> QED
      BY <3>1, <3>2
  <2>4. g.brk > 0
    BY <1>6, <2>1
  <2> QED
    BY <2>2, <2>3, <2>4
<1>11. Sound(g, Given, holes \cup {s.brk})
  BY <1>4, <1>6, <1>7, <1>8, <1>9, <1>10 DEF Sound
<1>12. /\ heap' \in Heap /\ heap'.freep = heap.freep /\ heap'.size = heap.size
       /\ heap'.ptr = heap.ptr
  BY <1>1, <1>2, <1>5 DEF Heap
<1>13. Given' = Given /\ Ring(heap)' = Ring(heap)
  BY <1>2, <1>12 DEF Given, Ring
<1>14. holes' = holes \cup {s.brk}
  BY <1>1, <1>2
<1>15. Sound(Started(heap)', Given', holes')
  BY <1>3, <1>11, <1>13, <1>14
<1>16. /\ heap'.freep = NoBlock => Given' = {} /\ Ring(heap)' = {}
       /\ \A a \in Given' : heap'.size[a] = asked'[a]
  BY <1>2, <1>12, <1>13 DEF MallocInv
<1> QED
  BY <1>1, <1>2, <1>12, <1>15, <1>16 DEF MallocInv

\* Every step keeps the list and the blocks.
LEMMA MallocStep == MallocInv /\ [MallocNext]_mallocVars => MallocInv'
<1> SUFFICES ASSUME MallocInv, [MallocNext]_mallocVars PROVE MallocInv'
  OBVIOUS
<1>1. CASE \E n \in Requests : malloc(n) \/ mallocFails(n)
  BY <1>1, MallocKeeps, FailKeeps
<1>2. CASE \E a \in Addrs : Free(a)
  BY <1>2, FreeStep
<1>3. CASE sbrk
  BY <1>3, SbrkKeeps
<1>4. CASE UNCHANGED mallocVars
  BY <1>4 DEF mallocVars, MallocInv, Started, Given, Ring, Sound, Ordered, Joined, Layout, Follows
<1> QED
  BY <1>1, <1>2, <1>3, <1>4 DEF MallocNext

-----------------------------------------------------------------------------
(* HeapExact                                                               *)

\* The list of a sound heap is what the walk meets, in order of address.
LEMMA RingIs ==
    ASSUME NEW h, NEW G, NEW gaps, Sound(h, G, gaps)
    PROVE  /\ {Walk(h)[k] : k \in Addrs} = Ring(h)
           /\ \A p \in Ring(h) : h.ptr[p] =
                  LET above == {q \in Ring(h) : q > p} IN IF above = {} THEN base ELSE Lowest(above)
<1>1. /\ h \in Heap /\ Ordered(h) /\ h.brk \in Addrs \ Ring(h) /\ Ring(h) \subseteq Addrs
      /\ \A p \in Ring(h) : Follows(Ring(h), p, h.ptr[p])
  BY BreakOutside DEF Ring, Ordered
<1>2. {Walk(h)[k] : k \in Addrs} = Ring(h)
  <2>1. Walk(h) \in [Addrs -> Ring(h)]
    BY <1>1, WalkIs
  <2>2. \A p \in Ring(h) : \E k \in Addrs : Walk(h)[k] = p
    <3> DEFINE last == Lowest({k \in Addrs \ {0} : Walk(h)[k] = h.freep})
    <3>1. 1 .. last \subseteq Addrs /\ \A p \in Ring(h) : \E k \in 1 .. last : Walk(h)[k] = p
      BY <1>1, WalkTurns
    <3> HIDE DEF last
    <3> QED
      BY <3>1
  <2> QED
    BY <2>1, <2>2
<1>3. ASSUME NEW p \in Ring(h)
      PROVE  h.ptr[p] = LET above == {q \in Ring(h) : q > p} IN IF above = {} THEN base ELSE Lowest(above)
  <2> DEFINE above == {q \in Ring(h) : q > p}
             q == h.ptr[p]
  <2>1. Follows(Ring(h), p, q) /\ Ring(h) \subseteq Nat
    BY <1>1, AddressesAre
  <2>2. CASE above = {}
    <3>1. ~(q \in Ring(h) /\ p < q)
      BY <2>1, <2>2
    <3> QED
      BY <2>1, <2>2, <3>1 DEF Follows
  <2>3. CASE above # {}
    <3>1. Lowest(above) \in above /\ \A j \in above : Lowest(above) <= j
      BY <2>1, <2>3, LowestIn
    <3> DEFINE f == Lowest(above)
    <3> HIDE DEF f
    <3>2. f \in Ring(h) /\ f > p /\ f \in Nat /\ p \in Nat /\ q \in Nat
      BY <2>1, <3>1 DEF f, Follows
    <3>3. p < q /\ q <= f
      BY <2>1, <3>2 DEF Follows
    <3>4. f <= q
      BY <2>1, <3>1, <3>3 DEF f, Follows
    <3>5. q = f
      BY <3>2, <3>3, <3>4
    <3> QED
      BY <2>3, <3>5 DEF f
  <2> QED
    BY <2>2, <2>3
<1> QED
  BY <1>2, <1>3

\* The blocks of B that have the unit u.
Owning(B, s, u) == {a \in B : u \in a .. a + s[a] - 1}

\* A unit is in as many blocks as the layout says.
LEMMA OwnersAre ==
    ASSUME NEW B, NEW s \in [Addrs -> Nat], NEW brk \in Addrs, NEW gaps, Layout(B, s, brk, gaps),
           gaps \subseteq 1 .. brk - 1, NEW u \in Addrs
    PROVE  Cardinality(Owning(B, s, u)) =
               IF u \in 1 .. brk - 1 /\ u \notin gaps THEN 1 ELSE 0
<1> DEFINE O == Owning(B, s, u)
<1>1. u \in Nat /\ brk \in Nat
  BY AddressesAre
<1>2. \A a \in B : a \in Nat /\ a > 0 /\ s[a] \in Nat /\ a + s[a] <= brk
  BY BlocksAre DEF Layout
<1>3. O = {a \in B : a <= u /\ u < a + s[a]}
  BY <1>1, <1>2 DEF Owning
<1> HIDE DEF O
<1>4. CASE u \in 1 .. brk - 1 /\ u \notin gaps
  <2>1. PICK a \in B : a <= u /\ u < a + s[a]
    BY <1>4 DEF Layout
  <2>2. ASSUME NEW c \in B, c <= u, u < c + s[c] PROVE c = a
    <3>1. a < c => a + s[a] <= c
      BY DEF Layout
    <3>2. c < a => c + s[c] <= a
      BY DEF Layout
    <3> QED
      BY <1>1, <1>2, <2>1, <2>2, <3>1, <3>2
  <2>3. O = {a}
    BY <1>3, <2>1, <2>2
  <2>4. Cardinality(O) = 1
    BY <2>3, FS_Singleton
  <2> QED
    BY <1>4, <2>4 DEF O
<1>5. CASE ~(u \in 1 .. brk - 1 /\ u \notin gaps)
  <2>1. ASSUME NEW a \in B, a <= u, u < a + s[a] PROVE FALSE
    <3>1. u \in 1 .. brk - 1
      BY <1>1, <1>2, <2>1
    <3>2. u \in gaps
      BY <1>5, <3>1
    <3> QED
      BY <2>1, <3>1, <3>2 DEF Layout
  <2>2. O = {}
    BY <1>3, <2>1
  <2>3. Cardinality(O) = 0
    BY <2>2, FS_EmptySet
  <2> QED
    BY <1>5, <2>3 DEF O
<1> QED
  BY <1>4, <1>5

\* The invariant says what HeapExact asks.
LEMMA HeapIsSound == MallocInv => HeapExact
<1> SUFFICES ASSUME MallocInv, heap.freep # NoBlock PROVE HeapExact
  BY DEF HeapExact
<1> DEFINE B == (Ring(heap) \ {base}) \cup Given
<1>1. /\ Sound(heap, Given, holes) /\ \A a \in Given : heap.size[a] = asked[a]
  <2>1. Started(heap) = heap
    BY StartedIs DEF MallocInv
  <2> QED
    BY <2>1 DEF MallocInv
<1>2. /\ {Walk(heap)[k] : k \in Addrs} = Ring(heap)
      /\ \A p \in Ring(heap) : heap.ptr[p] =
             LET above == {q \in Ring(heap) : q > p} IN IF above = {} THEN base ELSE Lowest(above)
  <2> DEFINE G == Given
             gaps == holes
             h == heap
  <2>1. Sound(h, G, gaps)
    BY <1>1
  <2> HIDE DEF G, gaps, h
  <2>2. /\ {Walk(h)[k] : k \in Addrs} = Ring(h)
        /\ \A p \in Ring(h) : h.ptr[p] =
               LET above == {q \in Ring(h) : q > p} IN IF above = {} THEN base ELSE Lowest(above)
    BY <2>1, RingIs
  <2> QED
    BY <2>2 DEF h
<1>3. base \in Ring(heap) /\ Ring(heap) \cap Given = {} /\ \A a \in Ring(heap) \ {base} : a + heap.size[a] \notin Ring(heap)
  BY <1>1 DEF Sound, Ordered, Joined
<1>4. \A u \in Addrs : Cardinality({a \in B : u \in a .. a + heap.size[a] - 1}) =
          IF u \in 1 .. heap.brk - 1 /\ u \notin holes THEN 1 ELSE 0
  <2>1. /\ heap.size \in [Addrs -> Nat] /\ heap.brk \in Addrs
        /\ Layout(B, heap.size, heap.brk, holes) /\ holes \subseteq 1 .. heap.brk - 1
    BY <1>1 DEF Sound, Heap
  <2> DEFINE s == heap.size
             brk == heap.brk
             gaps == holes
  <2>2. /\ s \in [Addrs -> Nat] /\ brk \in Addrs
        /\ Layout(B, s, brk, gaps) /\ gaps \subseteq 1 .. brk - 1
    BY <2>1
  <2> HIDE DEF B, s, brk, gaps
  <2>3. \A u \in Addrs : Cardinality(Owning(B, s, u)) =
            IF u \in 1 .. brk - 1 /\ u \notin gaps THEN 1 ELSE 0
    <3> SUFFICES ASSUME NEW u \in Addrs
        PROVE  Cardinality(Owning(B, s, u)) =
                   IF u \in 1 .. brk - 1 /\ u \notin gaps THEN 1 ELSE 0
      OBVIOUS
    <3>1. u \in Addrs
      OBVIOUS
    <3> QED
      BY ONLY <2>2, <3>1, OwnersAre
  <2> QED
    BY <2>3 DEF s, brk, gaps, Owning
<1> QED
  BY <1>1, <1>2, <1>3, <1>4 DEF HeapExact, Given

\* Through malloc, free and sbrk every unit below the break is in one free
\* block, in one block given out or the program's own, and the list runs once
\* through the free blocks in order of address, for every bound on the heap.
THEOREM HeapIsExact == MallocSpec => []HeapExact
<1>1. MallocInit => MallocInv
  BY MallocInitially
<1>2. MallocInv /\ [MallocNext]_mallocVars => MallocInv'
  BY MallocStep
<1>3. MallocInv => HeapExact
  BY HeapIsSound
<1> QED
  BY <1>1, <1>2, <1>3, PTL DEF MallocSpec
=============================================================================
