-------------------------------- MODULE Proc --------------------------------
(***************************************************************************)
(* The life of processes (os-master/proc.c): fork with allocproc, exit,     *)
(* wait, kill, and the tests of p->killed in trap.c.                        *)
(*                                                                         *)
(* A critical section of ptable.lock is one step; what fork does without    *)
(* the lock is split where another process may see or change the table.    *)
(* RUNNABLE stands for RUNNABLE and RUNNING: who runs is module Sched.      *)
(***************************************************************************)
EXTENDS Integers, FiniteSets

CONSTANTS
  NPROC,    \* param.h: entries of ptable.proc
  MAXPID    \* bound: the model forks while nextpid <= MAXPID

ASSUME ProcAssumption == NPROC \in Nat \ {0} /\ MAXPID \in Nat \ {0}

Slot == 1..NPROC
initproc == 1          \* userinit gets the first entry
Other == -1            \* a channel that is not a process

VARIABLES
  state, pid, parent, killed,  \* the fields of struct proc; no parent is 0
  chan,     \* proc.chan: 0, the entry of a process (wait) or Other
  kstack,   \* proc.kstack is allocated
  pgdir,    \* proc.pgdir is allocated
  pc,       \* where the process of an entry is
  np,       \* the np of a fork in progress
  nextpid,  \* nextpid
  panicked  \* panic() was called

entry == <<state, pid, parent, killed, chan, kstack, pgdir>>
vars == <<state, pid, parent, killed, chan, kstack, pgdir, pc, np, nextpid, panicked>>

Init ==
  /\ state = [s \in Slot |-> IF s = initproc THEN "RUNNABLE" ELSE "UNUSED"]
  /\ pid = [s \in Slot |-> IF s = initproc THEN 1 ELSE 0]
  /\ parent = [s \in Slot |-> 0]
  /\ killed = [s \in Slot |-> FALSE]
  /\ chan = [s \in Slot |-> 0]
  /\ kstack = [s \in Slot |-> s = initproc]
  /\ pgdir = [s \in Slot |-> s = initproc]
  /\ pc = [s \in Slot |-> "user"]
  /\ np = [s \in Slot |-> 0]
  /\ nextpid = 2
  /\ panicked = FALSE

First(S) == CHOOSE s \in S : \A t \in S : s <= t

\* s is in user space and may make a system call: trap() lets no killed
\* process into syscall().
AtUser(s) == state[s] = "RUNNABLE" /\ pc[s] = "user" /\ ~killed[s]

At(s, point) == state[s] = "RUNNABLE" /\ pc[s] = point

Goto(s, point) == pc' = [pc EXCEPT ![s] = point]

\* wakeup1(c) on the states f.
Wakeup1(f, c) == [t \in Slot |-> IF f[t] = "SLEEPING" /\ chan[t] = c THEN "RUNNABLE" ELSE f[t]]

-----------------------------------------------------------------------------
(* fork                                                                    *)

\* p->state = EMBRYO, before the lock is released.
Claimed(n) == [state EXCEPT ![n] = "EMBRYO"]

\* allocproc under ptable.lock.  (With no UNUSED entry fork returns -1.)
AllocProc(s) ==
  /\ AtUser(s)
  /\ nextpid <= MAXPID
  /\ \E n \in Slot : state[n] = "UNUSED"
  /\ LET n == First({t \in Slot : state[t] = "UNUSED"}) IN
       /\ state' = Claimed(n)
       /\ pid' = [pid EXCEPT ![n] = nextpid]
       /\ np' = [np EXCEPT ![s] = n]
  /\ nextpid' = nextpid + 1
  /\ Goto(s, "stack")
  /\ UNCHANGED <<parent, killed, chan, kstack, pgdir, panicked>>

\* The kernel stack, without the lock; kalloc may fail.
AllocStack(s) ==
  /\ At(s, "stack")
  /\ \/ /\ kstack' = [kstack EXCEPT ![np[s]] = TRUE]
        /\ Goto(s, "copy")
        /\ UNCHANGED state
     \/ /\ state' = [state EXCEPT ![np[s]] = "UNUSED"]
        /\ Goto(s, "user")
        /\ UNCHANGED kstack
  /\ UNCHANGED <<pid, parent, killed, chan, pgdir, np, nextpid, panicked>>

LeaksStack(n) == kstack

\* kfree(np->kstack); np->kstack = 0.
FreeStack(n) == [kstack EXCEPT ![n] = FALSE]

\* copyuvm may fail; otherwise the child is filled in.
CopyVm(s) ==
  /\ At(s, "copy")
  /\ LET n == np[s] IN
     \/ /\ pgdir' = [pgdir EXCEPT ![n] = TRUE]
        /\ parent' = [parent EXCEPT ![n] = s]
        /\ Goto(s, "publish")
        /\ UNCHANGED <<state, kstack>>
     \/ /\ kstack' = FreeStack(n)
        /\ state' = [state EXCEPT ![n] = "UNUSED"]
        /\ Goto(s, "user")
        /\ UNCHANGED <<pgdir, parent>>
  /\ UNCHANGED <<pid, killed, chan, np, nextpid, panicked>>

\* np->state = RUNNABLE under ptable.lock; the child starts in user space.
Publish(s) ==
  /\ At(s, "publish")
  /\ state' = [state EXCEPT ![np[s]] = "RUNNABLE"]
  /\ pc' = [pc EXCEPT ![s] = "user", ![np[s]] = "user"]
  /\ UNCHANGED <<pid, parent, killed, chan, kstack, pgdir, np, nextpid, panicked>>

-----------------------------------------------------------------------------
(* exit: the call, or a killed process on its way to user space.            *)

ExitStart(s) ==
  /\ At(s, "user")
  /\ IF s = initproc
       THEN panicked' = TRUE /\ UNCHANGED pc
       ELSE Goto(s, "exit") /\ UNCHANGED panicked
  /\ UNCHANGED <<entry, np, nextpid>>

ForgetsOrphans(s) == parent

\* Pass abandoned children to init.
Reparented(s) == [t \in Slot |-> IF parent[t] = s THEN initproc ELSE parent[t]]

SilentExit(s) == state

\* wakeup1(curproc->parent), and wakeup1(initproc) for an abandoned zombie.
WokenByExit(s) ==
  LET f == Wakeup1(state, parent[s])
  IN  IF \E t \in Slot : parent[t] = s /\ state[t] = "ZOMBIE"
        THEN Wakeup1(f, initproc) ELSE f

\* The files are closed; the rest is under ptable.lock.
Exit(s) ==
  /\ At(s, "exit")
  /\ parent' = Reparented(s)
  /\ state' = [WokenByExit(s) EXCEPT ![s] = "ZOMBIE"]
  /\ UNCHANGED <<pid, killed, chan, kstack, pgdir, pc, np, nextpid, panicked>>

-----------------------------------------------------------------------------
(* wait                                                                    *)

Children(s) == {t \in Slot : parent[t] = s}
Zombies(s) == {t \in Children(s) : state[t] = "ZOMBIE"}

WaitStart(s) ==
  /\ AtUser(s)
  /\ Goto(s, "wait")
  /\ UNCHANGED <<entry, np, nextpid, panicked>>

\* One round of the loop of wait, with ptable.lock held.
WaitReap(s) ==
  /\ At(s, "wait") /\ Zombies(s) # {}
  /\ LET z == First(Zombies(s)) IN
       /\ kstack' = [kstack EXCEPT ![z] = FALSE]
       /\ pgdir' = [pgdir EXCEPT ![z] = FALSE]
       /\ pid' = [pid EXCEPT ![z] = 0]
       /\ parent' = [parent EXCEPT ![z] = 0]
       /\ killed' = [killed EXCEPT ![z] = FALSE]
       /\ state' = [state EXCEPT ![z] = "UNUSED"]
  /\ chan' = [chan EXCEPT ![s] = 0]
  /\ Goto(s, "user")
  /\ UNCHANGED <<np, nextpid, panicked>>

\* No point waiting: no children, or killed.
NoWait(s) == Children(s) = {} \/ killed[s]

WaitFail(s) ==
  /\ At(s, "wait") /\ Zombies(s) = {} /\ NoWait(s)
  /\ chan' = [chan EXCEPT ![s] = 0]
  /\ Goto(s, "user")
  /\ UNCHANGED <<state, pid, parent, killed, kstack, pgdir, np, nextpid, panicked>>

WaitSleep(s) ==
  /\ At(s, "wait") /\ Zombies(s) = {} /\ ~NoWait(s)
  /\ chan' = [chan EXCEPT ![s] = s]
  /\ state' = [state EXCEPT ![s] = "SLEEPING"]
  /\ UNCHANGED <<pid, parent, killed, kstack, pgdir, pc, np, nextpid, panicked>>

-----------------------------------------------------------------------------
(* Other system calls that sleep (sys_sleep, pipes, the console): woken by  *)
(* their event or by kill, they go back to user space.                      *)

SleepOther(s) ==
  /\ AtUser(s)
  /\ chan' = [chan EXCEPT ![s] = Other]
  /\ state' = [state EXCEPT ![s] = "SLEEPING"]
  /\ Goto(s, "blocked")
  /\ UNCHANGED <<pid, parent, killed, kstack, pgdir, np, nextpid, panicked>>

WakeOther(s) ==
  /\ state[s] = "SLEEPING" /\ chan[s] = Other
  /\ state' = [state EXCEPT ![s] = "RUNNABLE"]
  /\ UNCHANGED <<pid, parent, killed, chan, kstack, pgdir, pc, np, nextpid, panicked>>

Unblock(s) ==
  /\ At(s, "blocked")
  /\ chan' = [chan EXCEPT ![s] = 0]
  /\ Goto(s, "user")
  /\ UNCHANGED <<state, pid, parent, killed, kstack, pgdir, np, nextpid, panicked>>

-----------------------------------------------------------------------------
(* kill                                                                    *)

LetsSleep(t) == state

\* Wake process from sleep if necessary.
Roused(t) == [state EXCEPT ![t] = IF @ = "SLEEPING" THEN "RUNNABLE" ELSE @]

Kill(s, v) ==
  /\ AtUser(s)
  /\ \E t \in Slot : pid[t] = v
  /\ LET t == First({u \in Slot : pid[u] = v}) IN
       /\ killed' = [killed EXCEPT ![t] = TRUE]
       /\ state' = Roused(t)
  /\ UNCHANGED <<pid, parent, chan, kstack, pgdir, pc, np, nextpid, panicked>>

-----------------------------------------------------------------------------

Step(s) ==
  \/ AllocStack(s) \/ CopyVm(s) \/ Publish(s) \/ Exit(s)
  \/ WaitReap(s) \/ WaitFail(s) \/ WaitSleep(s) \/ Unblock(s)

Call(s) ==
  \/ AllocProc(s) \/ ExitStart(s) \/ WaitStart(s) \/ SleepOther(s)
  \/ \E v \in 0..MAXPID : Kill(s, v)

Next ==
  /\ ~panicked
  /\ \E s \in Slot : Step(s) \/ Call(s) \/ WakeOther(s)

Spec == Init /\ [][Next]_vars

(* Every system call goes on, a killed process is trapped by the timer;     *)
(* init (init.c) sleeps elsewhere only for the disk, and calls wait again   *)
(* and again.                                                               *)
Fairness ==
  \A s \in Slot :
    /\ WF_vars(~panicked /\ Step(s))
    /\ WF_vars(~panicked /\ killed[s] /\ ExitStart(s))
    /\ s = initproc => /\ WF_vars(~panicked /\ WakeOther(s))
                       /\ SF_vars(~panicked /\ WaitStart(s))

FairSpec == Spec /\ Fairness

-----------------------------------------------------------------------------
(* Properties                                                              *)

\* Types of the process table and of the calls on it.
TypeOK ==
  /\ state \in [Slot -> {"UNUSED", "EMBRYO", "SLEEPING", "RUNNABLE", "ZOMBIE"}]
  /\ pid \in [Slot -> 0..MAXPID]
  /\ parent \in [Slot -> Slot \cup {0}]
  /\ killed \in [Slot -> BOOLEAN]
  /\ chan \in [Slot -> Slot \cup {0, Other}]
  /\ kstack \in [Slot -> BOOLEAN] /\ pgdir \in [Slot -> BOOLEAN]
  /\ pc \in [Slot -> {"user", "stack", "copy", "publish", "exit", "wait", "blocked"}]
  /\ np \in [Slot -> Slot \cup {0}]
  /\ nextpid \in 2..(MAXPID + 1)
  /\ panicked \in BOOLEAN

\* Whoever exits first, every process but init has a parent that can still
\* wait for it: a live process, never an exited or a reused entry.
ParentAlive ==
  \A s \in Slot \ {initproc} : state[s] \in {"RUNNABLE", "SLEEPING", "ZOMBIE"} =>
    /\ parent[s] # 0
    /\ state[parent[s]] \in {"RUNNABLE", "SLEEPING"}

\* No lost wakeup in wait: nobody sleeps there with an exited child, its own or
\* one it was handed by an exiting process.
NoZombieUnnoticed ==
  \A s \in Slot : state[s] = "SLEEPING" /\ chan[s] = s => Zombies(s) = {}

\* The kernel stack and the page table of an entry are freed exactly when it
\* becomes UNUSED, on the failure paths of fork too.
NothingLeaks ==
  \A s \in Slot :
    /\ state[s] = "UNUSED" => ~kstack[s] /\ ~pgdir[s]
    /\ state[s] \in {"RUNNABLE", "SLEEPING", "ZOMBIE"} => kstack[s] /\ pgdir[s]

\* An entry that fork is filling belongs to one fork, and stays EMBRYO until
\* that fork publishes or abandons it.
EmbryoOwned ==
  \A s \in Slot : pc[s] \in {"stack", "copy", "publish"} =>
    /\ state[np[s]] = "EMBRYO"
    /\ \A t \in Slot \ {s} : pc[t] \in {"stack", "copy", "publish"} => np[t] # np[s]

\* Exits in any order leave nobody without a live parent, and no exit that the
\* parent sleeps over.
FamilySafe == ParentAlive /\ NoZombieUnnoticed

\* What an entry holds goes with it, and forks never fill the same entry.
EntriesAccounted == TypeOK /\ NothingLeaks /\ EmbryoOwned

\* A killed process exits, wherever it sleeps (unless the kernel stops).
KilledExits ==
  \A s \in Slot \ {initproc} :
    killed[s] /\ state[s] \in {"RUNNABLE", "SLEEPING"} ~> state[s] = "ZOMBIE" \/ panicked

\* init reaps what it inherits.
OrphansReaped ==
  \A s \in Slot :
    state[s] = "ZOMBIE" /\ parent[s] = initproc ~> state[s] = "UNUSED" \/ panicked
=============================================================================
