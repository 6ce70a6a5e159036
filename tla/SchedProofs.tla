---------------------------- MODULE SchedProofs ----------------------------
(***************************************************************************)
(* Locks and scheduling (spinlock.c, sleeplock.c, proc.c, trap.c) are      *)
(* safe for any number of processors and processes, and paging (the swap   *)
(* files and policies of vm.c and proc.c) accounts for every page and slot *)
(* whatever the sizes.  Sched and Paging share nothing; their proofs come  *)
(* one after the other.                                                    *)
(*                                                                         *)
(* No property of the runs of Sched is inductive alone.  That a process    *)
(* runs on one processor rests on ptable.lock being held across swtch      *)
(* (Held), that on the interrupt flag and ncli having the values sched()   *)
(* and popcli() test for (Nesting), that on sched() saving intena with the *)
(* process (Kept), and a sleeper being woken on lk->lk and ptable.lock     *)
(* overlapping in sleep().                                                 *)
(*                                                                         *)
(* PagesAccounted is not inductive either: the write fault asks PTE_PG     *)
(* whether a page is in memory, so the flag must say so (Marks), and a     *)
(* page in use must have one record (Owned).  Inside a call a slot may be  *)
(* in hand, neither a page's nor free (SlotsBut).                          *)
(***************************************************************************)
EXTENDS Sched, Paging, FiniteSetTheorems, SequenceTheorems, WellFoundedInduction, TLAPS

\* The points at which a process holds ptable.lock, once it runs, and lk->lk.
HoldsPtable == {"forkret", "slp_rel", "slp_set", "slp_sched", "slp_back", "wk",
                "y_set", "y_sched", "y_back"}
HoldsLk == {"test", "retest", "slp_acq", "slp_rel", "unlock", "wk_acq", "wk", "wk_done"}

\* The points with no pushcli outstanding, and with two.
Outside == {"trapret", "out", "again", "cs", "iret"}
Twice == {"slp_acq", "slp_rel", "wk_acq", "wk"}

\* Where interrupts are on; "trapret" may have them on or off.
Enabled == {"out", "again", "cs"}

\* Where a process is that no processor runs.
Switched == {"forkret", "slp_back", "y_back"}

\* The points of the kernel code proper with a pushcli outstanding, and those
\* of the timer interrupt.
InCall == {"acq", "re_acq", "test", "retest", "slp_acq", "slp_rel", "slp_set",
           "slp_sched", "rel_acq", "unlock", "wk_acq", "wk", "wk_done"}
InYield == {"y_acq", "y_set", "y_sched"}

\* A processor in its scheduler loop.
Loop ==
  \A c \in CPU : run[c] = None =>
    /\ ncli[c] = IF spc[c] = "top" THEN 0 ELSE 1
    /\ spc[c] # "top" => IF_[c] = FALSE

\* Who holds which spinlock is decided by where the processors are.
Held ==
  \A c \in CPU :
    /\ run[c] = None =>
         /\ lock["lk"] # c
         /\ lock["ptable"] = c <=> spc[c] \in {"scan", "back"}
    /\ run[c] # None =>
         /\ spc[c] = "back"
         /\ lock["ptable"] = c <=> pc[run[c]] \in HoldsPtable
         /\ lock["lk"] = c <=> pc[run[c]] \in HoldsLk

\* ncli, the interrupt flag and intena of a processor that runs a process.
Nesting ==
  \A c \in CPU : run[c] # None =>
    /\ ncli[c] = IF pc[run[c]] \in Outside THEN 0 ELSE IF pc[run[c]] \in Twice THEN 2 ELSE 1
    /\ pc[run[c]] \in Enabled => IF_[c] = TRUE
    /\ pc[run[c]] \notin Enabled \cup {"trapret"} => IF_[c] = FALSE
    /\ pc[run[c]] \in InCall => intena[c] = TRUE
    /\ pc[run[c]] \in InYield => intena[c] = FALSE

\* A process on a processor is RUNNING but between the assignment to its state
\* and the swtch.
States ==
  \A c \in CPU : run[c] # None =>
    state[run[c]] = CASE pc[run[c]] = "slp_sched" -> "SLEEPING"
                      [] pc[run[c]] = "y_sched" -> "RUNNABLE"
                      [] OTHER -> "RUNNING"

\* A process off the processors is in sched() or in its first forkret.
Off ==
  \A p \in Proc : (\A c \in CPU : run[c] # p) =>
    /\ pc[p] \in Switched
    /\ state[p] # "RUNNING"
    /\ state[p] = "SLEEPING" => pc[p] = "slp_back"

\* What the stack of a process keeps: the intena of sched(), the place a trap
\* returns to; and its channel.
Kept ==
  \A p \in Proc :
    /\ pc[p] = "slp_back" => saved[p] = TRUE
    /\ pc[p] = "y_back" => saved[p] = FALSE
    /\ ret[p] \in Enabled \cup {"trapret"}
    /\ pc[p] \in {"slp_sched", "slp_back"} => asleepOn[p] = TRUE

\* The lock is taken, or somebody is about to wake its sleepers.
WakeupDue == locked = TRUE \/ \E q \in Proc : pc[q] \in {"wk_acq", "wk"}

\* From the test of lk->locked on, there will be a wakeup.
Sleepers ==
  \A p \in Proc :
    /\ pc[p] \in {"slp_acq", "slp_rel"} => locked = TRUE
    /\ pc[p] \in {"slp_set", "slp_sched"} \/ state[p] = "SLEEPING" => WakeupDue

\* The inductive invariant: what the runs check and what those rest on.
IInv ==
  /\ TypeOK /\ OneCpu /\ NoPanic
  /\ Loop /\ Held /\ Nesting /\ States /\ Off /\ Kept
  /\ MutualExclusion /\ Sleepers

-----------------------------------------------------------------------------
(* What the primitives do, where the invariant says they are called.        *)

\* The state after a release, after the end of sched() with its release, and
\* after the start of an acquire, where none of them panics.
AfterRelease(c, l) ==
  /\ panicked' = FALSE
  /\ lock' = [lock EXCEPT ![l] = None] /\ lock' \in [Lock -> CPU \cup {None}]
  /\ ncli' = [ncli EXCEPT ![c] = ncli[c] - 1] /\ ncli' \in [CPU -> Nat]
  /\ IF_' = [IF_ EXCEPT ![c] = IF ncli[c] = 1 THEN intena[c] ELSE FALSE]
  /\ IF_' \in [CPU -> BOOLEAN]
  /\ intena' = intena

AfterSched(c, p) ==
  /\ panicked' = FALSE
  /\ lock' = [lock EXCEPT !["ptable"] = None] /\ lock' \in [Lock -> CPU \cup {None}]
  /\ ncli' = [ncli EXCEPT ![c] = 0] /\ ncli' \in [CPU -> Nat]
  /\ IF_' = [IF_ EXCEPT ![c] = saved[p]] /\ IF_' \in [CPU -> BOOLEAN]
  /\ intena' = [intena EXCEPT ![c] = saved[p]] /\ intena' \in [CPU -> BOOLEAN]
  /\ UNCHANGED <<state, locked, pid, cur, run, spc, idx, saved>>

AfterAcquiring(c) ==
  /\ panicked' = FALSE
  /\ lock' = lock
  /\ ncli' = [ncli EXCEPT ![c] = ncli[c] + 1] /\ ncli' \in [CPU -> Nat]
  /\ IF_' = [IF_ EXCEPT ![c] = FALSE] /\ IF_' \in [CPU -> BOOLEAN]
  /\ intena' = [intena EXCEPT ![c] = IF ncli[c] = 0 THEN IF_[c] ELSE intena[c]]
  /\ intena' \in [CPU -> BOOLEAN]

\* A release by the holder, with interrupts off, panics nowhere.
LEMMA Released ==
  ASSUME NEW c \in CPU, NEW l \in Lock, TypeOK, Release(c, l),
         lock[l] = c, IF_[c] = FALSE, ncli[c] \in {1, 2}
  PROVE  AfterRelease(c, l)
<1>1. panicked' = FALSE
  <2>1. ~(lock[l] # c \/ IF_[c] \/ ncli[c] = 0)
    OBVIOUS
  <2> QED
    BY <2>1, Zenon DEF Release
<1>2. (ncli[c] = 1 /\ intena[c]) = IF ncli[c] = 1 THEN intena[c] ELSE FALSE
  <2>1. intena[c] \in BOOLEAN
    BY DEF TypeOK
  <2> QED
    BY <2>1, Zenon
<1>3. IF_' = [IF_ EXCEPT ![c] = IF ncli[c] = 1 THEN intena[c] ELSE FALSE]
  BY <1>2, Zenon DEF Release
<1>4. IF_' \in [CPU -> BOOLEAN]
  BY <1>3 DEF TypeOK
<1>5. /\ lock' = [lock EXCEPT ![l] = None] /\ lock' \in [Lock -> CPU \cup {None}]
      /\ ncli' = [ncli EXCEPT ![c] = ncli[c] - 1] /\ ncli' \in [CPU -> Nat]
      /\ intena' = intena
  BY DEF Release, TypeOK
<1> QED
  BY <1>1, <1>3, <1>4, <1>5 DEF AfterRelease

\* The end of sched() and its release, likewise.
LEMMA ReturnedFromSched ==
  ASSUME NEW c \in CPU, NEW p \in Proc, TypeOK, SchedReturns(c, p),
         lock["ptable"] = c, IF_[c] = FALSE, ncli[c] = 1
  PROVE  AfterSched(c, p)
<1>0. saved[p] \in BOOLEAN
  BY DEF TypeOK
<1>1. panicked' = FALSE
  <2>1. ~(lock["ptable"] # c \/ IF_[c] \/ ncli[c] = 0)
    OBVIOUS
  <2> QED
    BY <2>1, Zenon DEF SchedReturns
<1>2. (ncli[c] = 1 /\ saved[p]) = saved[p]
  BY <1>0, Zenon
<1>3. IF_' = [IF_ EXCEPT ![c] = saved[p]]
  BY <1>2, Zenon DEF SchedReturns, Restored
<1>4. IF_' \in [CPU -> BOOLEAN]
  BY <1>3 DEF TypeOK
<1>5. /\ lock' = [lock EXCEPT !["ptable"] = None] /\ lock' \in [Lock -> CPU \cup {None}]
      /\ ncli' = [ncli EXCEPT ![c] = 0] /\ ncli' \in [CPU -> Nat]
      /\ UNCHANGED <<state, locked, pid, cur, run, spc, idx, saved>>
  BY DEF SchedReturns, TypeOK, Lock, cpus, slock
<1>6. intena' = [intena EXCEPT ![c] = saved[p]] /\ intena' \in [CPU -> BOOLEAN]
  BY Zenon DEF SchedReturns, TypeOK, Restored
<1> QED
  BY <1>1, <1>3, <1>4, <1>5, <1>6 DEF AfterSched

\* The start of acquire() by a processor that does not hold the lock.
LEMMA Acquired ==
  ASSUME NEW c \in CPU, NEW l \in Lock, TypeOK, Acquiring(c, l), lock[l] # c
  PROVE  AfterAcquiring(c)
<1>1. panicked' = FALSE
  BY Zenon DEF Acquiring
<1>2. /\ lock' = lock
      /\ ncli' = [ncli EXCEPT ![c] = ncli[c] + 1] /\ ncli' \in [CPU -> Nat]
      /\ IF_' = [IF_ EXCEPT ![c] = FALSE] /\ IF_' \in [CPU -> BOOLEAN]
  BY DEF Acquiring, Pushcli, Nested, TypeOK
<1>3. intena' = [intena EXCEPT ![c] = IF ncli[c] = 0 THEN IF_[c] ELSE intena[c]]
  BY DEF Acquiring, Pushcli
<1>4. intena' \in [CPU -> BOOLEAN]
  BY <1>3 DEF TypeOK
<1> QED
  BY <1>1, <1>2, <1>3, <1>4 DEF AfterAcquiring

-----------------------------------------------------------------------------
(* The spinlocks exclude, as a fact about program points.                   *)

\* A process that is not switched out is on a processor.
LEMMA OnSomeCpu ==
  ASSUME IInv, NEW p \in Proc, pc[p] \notin Switched
  PROVE  \E c \in CPU : run[c] = p
BY DEF IInv, Off

\* lk->lk excludes: two processes between its acquire and release are the same.
LEMMA LkExcludes ==
  ASSUME IInv, NEW p \in Proc, NEW q \in Proc, pc[p] \in HoldsLk, pc[q] \in HoldsLk
  PROVE  p = q
<1>1. pc[p] \notin Switched /\ pc[q] \notin Switched
  BY DEF HoldsLk, Switched
<1>2. PICK c \in CPU : run[c] = p
  BY <1>1, OnSomeCpu
<1>3. PICK d \in CPU : run[d] = q
  BY <1>1, OnSomeCpu
<1>4. p # None /\ q # None
  BY SchedAssumption
<1>5. lock["lk"] = c /\ lock["lk"] = d
  BY <1>2, <1>3, <1>4 DEF IInv, Held
<1> QED
  BY <1>2, <1>3, <1>5

\* So does ptable.lock, of processes that run.
LEMMA PtableExcludes ==
  ASSUME IInv, NEW p \in Proc, NEW q \in Proc,
         pc[p] \in HoldsPtable, pc[q] \in HoldsPtable,
         \E c \in CPU : run[c] = p, \E c \in CPU : run[c] = q
  PROVE  p = q
<1>2. PICK c \in CPU : run[c] = p
  OBVIOUS
<1>3. PICK d \in CPU : run[d] = q
  OBVIOUS
<1>4. p # None /\ q # None
  BY SchedAssumption
<1>5. lock["ptable"] = c /\ lock["ptable"] = d
  BY <1>2, <1>3, <1>4 DEF IInv, Held
<1> QED
  BY <1>2, <1>3, <1>5

-----------------------------------------------------------------------------
(* One lemma per action: it keeps every part of the invariant.              *)

\* acquire() spins with interrupts off, and the winner of xchg holds the lock.
LEMMA SpinsIInv ==
  ASSUME NEW c \in CPU, NEW p \in Proc, IInv, OnCpu(c, p), Spins(c, p)
  PROVE  IInv'
<1> USE SchedAssumption DEF OnCpu, Spins, Xchg, XchgWins, Spin, Goto, cpus, slock
<1>a. TypeOK /\ run[c] = p /\ p # None
  BY DEF IInv
<1>1. TypeOK'
  BY DEF IInv, TypeOK, Points, Lock
<1>2. OneCpu'
  BY DEF IInv, OneCpu
<1>3. NoPanic'
  BY DEF NoPanic
<1>4. Loop'
  BY DEF IInv, Loop
<1>5. Held'
  BY DEF IInv, TypeOK, OneCpu, Held, Lock, HoldsPtable, HoldsLk
<1>6. Nesting'
  BY <1>a DEF IInv, TypeOK, Proc, OneCpu, Nesting, Held, Kept, Outside, Twice, Enabled, InCall,
     InYield
<1>7. States'
  BY DEF IInv, States
<1>8. Off'
  BY DEF IInv, Off
<1>9. Kept'
  BY DEF IInv, Kept
<1>10. MutualExclusion'
  BY DEF IInv, MutualExclusion, Inside, Handler
<1>11. Sleepers'
  <2>1. WakeupDue => WakeupDue'
    BY DEF WakeupDue
  <2> QED
    BY <2>1 DEF IInv, Sleepers
<1> QED
  BY <1>1, <1>2, <1>3, <1>4, <1>5, <1>6, <1>7, <1>8, <1>9, <1>10, <1>11 DEF IInv

\* forkret releases the ptable.lock that scheduler() took.
LEMMA ForkretIInv ==
  ASSUME NEW c \in CPU, NEW p \in Proc, IInv, OnCpu(c, p), Forkret(c, p)
  PROVE  IInv'
<1> USE SchedAssumption DEF OnCpu, Forkret, Goto, cpus, slock
<1>a. TypeOK /\ run[c] = p /\ p # None
  BY DEF IInv
<1>b. lock["ptable"] = c /\ IF_[c] = FALSE /\ ncli[c] \in {1, 2} /\ "ptable" \in Lock
  BY DEF IInv, Held, Nesting, Lock, HoldsPtable, Outside, Enabled
<1>c. AfterRelease(c, "ptable")
  BY <1>a, <1>b, Released
<1> USE DEF AfterRelease
<1>1. TypeOK'
  BY <1>a, <1>c DEF TypeOK, Points
<1>2. OneCpu'
  BY DEF IInv, OneCpu
<1>3. NoPanic'
  BY <1>c DEF NoPanic
<1>4. Loop'
  BY <1>c DEF IInv, Loop
<1>5. Held'
  BY <1>c DEF IInv, TypeOK, Held, HoldsPtable, HoldsLk
<1>6. Nesting'
  BY <1>b, <1>c DEF IInv, TypeOK, Nesting, Held, Outside, Twice, Enabled, InCall, InYield
<1>7. States'
  BY DEF IInv, States
<1>8. Off'
  BY DEF IInv, Off
<1>9. Kept'
  BY DEF IInv, Kept
<1>10. MutualExclusion'
  BY DEF IInv, MutualExclusion, Inside, Handler
<1>11. Sleepers'
  <2>1. WakeupDue => WakeupDue'
    BY DEF WakeupDue
  <2> QED
    BY <2>1 DEF IInv, Sleepers
<1> QED
  BY <1>1, <1>2, <1>3, <1>4, <1>5, <1>6, <1>7, <1>8, <1>9, <1>10, <1>11 DEF IInv

\* iret turns interrupts on, outside every lock.
LEMMA TrapretIInv ==
  ASSUME NEW c \in CPU, NEW p \in Proc, IInv, OnCpu(c, p), Trapret(c, p)
  PROVE  IInv'
<1> USE SchedAssumption DEF OnCpu, Trapret, Goto, cpus, slock
<1>a. TypeOK /\ run[c] = p /\ p # None
  BY DEF IInv
<1>1. TypeOK'
  BY <1>a DEF TypeOK, Points
<1>2. OneCpu'
  BY DEF IInv, OneCpu
<1>3. NoPanic'
  BY DEF NoPanic
<1>4. Loop'
  BY DEF IInv, Loop
<1>5. Held'
  BY DEF IInv, Held, HoldsPtable, HoldsLk
<1>6. Nesting'
  BY DEF IInv, TypeOK, OneCpu, Nesting, Outside, Enabled, InCall, InYield
<1>7. States'
  BY DEF IInv, States
<1>8. Off'
  BY DEF IInv, Off
<1>9. Kept'
  BY DEF IInv, Kept
<1>10. MutualExclusion'
  BY DEF IInv, MutualExclusion, Inside, Handler
<1>11. Sleepers'
  <2>1. WakeupDue => WakeupDue'
    BY DEF WakeupDue
  <2> QED
    BY <2>1 DEF IInv, Sleepers
<1> QED
  BY <1>1, <1>2, <1>3, <1>4, <1>5, <1>6, <1>7, <1>8, <1>9, <1>10, <1>11 DEF IInv

\* acquiresleep starts to acquire lk->lk, which its caller does not hold.
LEMMA AcquireSleepIInv ==
  ASSUME NEW c \in CPU, NEW p \in Proc, IInv, OnCpu(c, p), AcquireSleep(c, p)
  PROVE  IInv'
<1> USE SchedAssumption DEF OnCpu, AcquireSleep, Goto, cpus, slock
<1>a. TypeOK /\ run[c] = p /\ p # None
  BY DEF IInv
<1>b. lock["lk"] # c /\ "lk" \in Lock
  BY DEF IInv, Held, Lock, HoldsLk
<1>c. AfterAcquiring(c)
  BY <1>a, <1>b, Acquired
<1> USE DEF AfterAcquiring
<1>1. TypeOK'
  BY <1>a, <1>c DEF TypeOK, Points
<1>2. OneCpu'
  BY DEF IInv, OneCpu
<1>3. NoPanic'
  BY <1>c DEF NoPanic
<1>4. Loop'
  BY <1>c DEF IInv, Loop
<1>5. Held'
  BY <1>c DEF IInv, Held, HoldsPtable, HoldsLk
<1>6. Nesting'
  BY <1>c DEF IInv, TypeOK, OneCpu, Nesting, Outside, Twice, Enabled, InYield
<1>7. States'
  BY DEF IInv, States
<1>8. Off'
  BY DEF IInv, Off
<1>9. Kept'
  BY DEF IInv, Kept
<1>10. MutualExclusion'
  BY DEF IInv, MutualExclusion, Inside, Handler
<1>11. Sleepers'
  <2>1. WakeupDue => WakeupDue'
    BY DEF WakeupDue
  <2> QED
    BY <2>1 DEF IInv, Sleepers
<1> QED
  BY <1>1, <1>2, <1>3, <1>4, <1>5, <1>6, <1>7, <1>8, <1>9, <1>10, <1>11 DEF IInv

\* The sleep lock is taken: sleep() starts to acquire ptable.lock and keeps lk->lk.
LEMMA MustSleepIInv ==
  ASSUME NEW c \in CPU, NEW p \in Proc, IInv, OnCpu(c, p), MustSleep(c, p)
  PROVE  IInv'
<1> USE SchedAssumption DEF OnCpu, MustSleep, Taken, Goto, cpus, slock
<1>a. TypeOK /\ run[c] = p /\ p # None
  BY DEF IInv
<1>b. lock["ptable"] # c /\ "ptable" \in Lock
  BY DEF IInv, Held, Lock, HoldsPtable
<1>c. AfterAcquiring(c)
  BY <1>a, <1>b, Acquired
<1> USE DEF AfterAcquiring
<1>1. TypeOK'
  BY <1>a, <1>c DEF TypeOK, Points
<1>2. OneCpu'
  BY DEF IInv, OneCpu
<1>3. NoPanic'
  BY <1>c DEF NoPanic
<1>4. Loop'
  BY <1>c DEF IInv, Loop
<1>5. Held'
  BY <1>c DEF IInv, Held, HoldsPtable, HoldsLk
<1>6. Nesting'
  BY <1>c DEF IInv, TypeOK, OneCpu, Nesting, Outside, Twice, Enabled, InCall, InYield
<1>7. States'
  BY DEF IInv, States
<1>8. Off'
  BY DEF IInv, Off
<1>9. Kept'
  BY DEF IInv, Kept
<1>10. MutualExclusion'
  BY DEF IInv, MutualExclusion, Inside, Handler
<1>11. Sleepers'
  <2>1. WakeupDue => WakeupDue'
    BY DEF WakeupDue
  <2> QED
    BY <2>1 DEF IInv, Sleepers
<1> QED
  BY <1>1, <1>2, <1>3, <1>4, <1>5, <1>6, <1>7, <1>8, <1>9, <1>10, <1>11 DEF IInv

\* lk->locked is set with lk->lk held, by one process at a time.
LEMMA TakeLockIInv ==
  ASSUME NEW c \in CPU, NEW p \in Proc, IInv, OnCpu(c, p), TakeLock(c, p)
  PROVE  IInv'
<1> USE SchedAssumption DEF OnCpu, TakeLock, Taken, Goto, cpus
<1>a. TypeOK /\ run[c] = p /\ p # None
  BY DEF IInv
<1>b. lock["lk"] = c /\ IF_[c] = FALSE /\ ncli[c] \in {1, 2} /\ "lk" \in Lock
  BY DEF IInv, Held, Nesting, Lock, HoldsLk, Outside, Enabled
<1>c. AfterRelease(c, "lk")
  BY <1>a, <1>b, Released
<1> USE DEF AfterRelease
<1>1. TypeOK'
  BY <1>a, <1>c DEF TypeOK, Points
<1>2. OneCpu'
  BY DEF IInv, OneCpu
<1>3. NoPanic'
  BY <1>c DEF NoPanic
<1>4. Loop'
  BY <1>c DEF IInv, Loop
<1>5. Held'
  BY <1>c DEF IInv, TypeOK, Held, HoldsPtable, HoldsLk
<1>6. Nesting'
  BY <1>b, <1>c DEF IInv, TypeOK, Nesting, Held, Outside, Twice, Enabled, InCall, InYield
<1>7. States'
  BY DEF IInv, States
<1>8. Off'
  BY DEF IInv, Off
<1>9. Kept'
  BY DEF IInv, Kept
<1>10. MutualExclusion'
  BY DEF IInv, MutualExclusion, Inside
<1>11. Sleepers'
  <2>1. WakeupDue => WakeupDue'
    BY DEF WakeupDue
  <2> QED
    BY <2>1 DEF IInv, Sleepers
<1> QED
  BY <1>1, <1>2, <1>3, <1>4, <1>5, <1>6, <1>7, <1>8, <1>9, <1>10, <1>11 DEF IInv

\* sleep() releases lk->lk only with ptable.lock held: no wakeup can come between.
LEMMA SleepReleaseIInv ==
  ASSUME NEW c \in CPU, NEW p \in Proc, IInv, OnCpu(c, p), SleepRelease(c, p)
  PROVE  IInv'
<1> USE SchedAssumption DEF OnCpu, SleepRelease, Goto, cpus, slock
<1>a. TypeOK /\ run[c] = p /\ p # None
  BY DEF IInv
<1>b. lock["lk"] = c /\ IF_[c] = FALSE /\ ncli[c] \in {1, 2} /\ "lk" \in Lock
  BY DEF IInv, Held, Nesting, Lock, HoldsLk, Outside, Enabled
<1>c. AfterRelease(c, "lk")
  BY <1>a, <1>b, Released
<1> USE DEF AfterRelease
<1>1. TypeOK'
  BY <1>a, <1>c DEF TypeOK, Points
<1>2. OneCpu'
  BY DEF IInv, OneCpu
<1>3. NoPanic'
  BY <1>c DEF NoPanic
<1>4. Loop'
  BY <1>c DEF IInv, Loop
<1>5. Held'
  BY <1>c DEF IInv, TypeOK, Held, HoldsPtable, HoldsLk
<1>6. Nesting'
  BY <1>b, <1>c DEF IInv, TypeOK, Nesting, Held, Outside, Twice, Enabled, InCall, InYield
<1>7. States'
  BY DEF IInv, States
<1>8. Off'
  BY DEF IInv, Off
<1>9. Kept'
  BY DEF IInv, Kept
<1>10. MutualExclusion'
  BY DEF IInv, MutualExclusion, Inside, Handler
<1>11. Sleepers'
  <2>1. WakeupDue'
    BY DEF IInv, Sleepers, WakeupDue
  <2> QED
    BY <2>1 DEF IInv, Sleepers
<1> QED
  BY <1>1, <1>2, <1>3, <1>4, <1>5, <1>6, <1>7, <1>8, <1>9, <1>10, <1>11 DEF IInv

\* The sleeper is SLEEPING on lk while the lock is still taken or a wakeup is due.
LEMMA SleepSetIInv ==
  ASSUME NEW c \in CPU, NEW p \in Proc, IInv, OnCpu(c, p), SleepSet(c, p)
  PROVE  IInv'
<1> USE SchedAssumption DEF OnCpu, SleepSet, locks, Goto, cpus, slock
<1>a. TypeOK /\ run[c] = p /\ p # None
  BY DEF IInv
<1>1. TypeOK'
  BY <1>a DEF TypeOK, Points
<1>2. OneCpu'
  BY DEF IInv, OneCpu
<1>3. NoPanic'
  BY DEF NoPanic
<1>4. Loop'
  BY DEF IInv, Loop
<1>5. Held'
  BY DEF IInv, Held, HoldsPtable, HoldsLk
<1>6. Nesting'
  BY DEF IInv, Nesting, Outside, Twice, Enabled, InCall, InYield
<1>7. States'
  BY DEF IInv, TypeOK, States
<1>8. Off'
  BY DEF IInv, Off
<1>9. Kept'
  BY DEF IInv, TypeOK, Kept
<1>10. MutualExclusion'
  <2>1. ASSUME NEW q \in Proc, Inside(q)' PROVE Inside(q)
    BY <2>1 DEF Inside, Handler
  <2> QED
    BY <2>1 DEF IInv, MutualExclusion
<1>11. Sleepers'
  <2>1. WakeupDue => WakeupDue'
    BY DEF WakeupDue
  <2> QED
    BY <2>1 DEF IInv, Sleepers
<1> QED
  BY <1>1, <1>2, <1>3, <1>4, <1>5, <1>6, <1>7, <1>8, <1>9, <1>10, <1>11 DEF IInv

\* sched() from sleep(): the tests pass, and the lock goes to the scheduler.
LEMMA SleepSchedIInv ==
  ASSUME NEW c \in CPU, NEW p \in Proc, IInv, OnCpu(c, p), SleepSched(c, p)
  PROVE  IInv'
<1> USE SchedAssumption DEF OnCpu, SleepSched, Sched, locks, Goto, slock
<1>a. TypeOK /\ run[c] = p /\ p # None
  BY DEF IInv
<1>b. lock["ptable"] = c /\ IF_[c] = FALSE /\ ncli[c] = 1 /\ state[p] # "RUNNING"
  BY DEF IInv, Held, Nesting, States, HoldsPtable, Outside, Twice, Enabled
<1>c. panicked' = FALSE
  <2>1. ~(lock["ptable"] # c \/ ncli[c] # 1 \/ state[p] = "RUNNING" \/ IF_[c])
    BY <1>b
  <2> QED
    BY <2>1, Zenon
<1>1. TypeOK'
  BY <1>a DEF TypeOK, Points
<1>2. OneCpu'
  BY DEF IInv, OneCpu
<1>3. NoPanic'
  BY <1>c DEF NoPanic
<1>4. Loop'
  BY <1>b DEF IInv, Loop, Held
<1>5. Held'
  BY DEF IInv, Held, HoldsPtable, HoldsLk
<1>6. Nesting'
  BY DEF IInv, Nesting, Outside, Twice, Enabled, InCall, InYield
<1>7. States'
  BY <1>b DEF IInv, TypeOK, States, Held
<1>8. Off'
  BY <1>c DEF IInv, TypeOK, Off, Switched
<1>9. Kept'
  BY DEF IInv, TypeOK, Kept, Nesting, InCall
<1>10. MutualExclusion'
  BY DEF IInv, MutualExclusion, Inside, Handler
<1>11. Sleepers'
  <2>1. WakeupDue => WakeupDue'
    BY DEF WakeupDue
  <2> QED
    BY <2>1 DEF IInv, Sleepers
<1> QED
  BY <1>1, <1>2, <1>3, <1>4, <1>5, <1>6, <1>7, <1>8, <1>9, <1>10, <1>11 DEF IInv

\* The end of sleep(): sched() restores intena of the process.
LEMMA SleepBackIInv ==
  ASSUME NEW c \in CPU, NEW p \in Proc, IInv, OnCpu(c, p), SleepBack(c, p)
  PROVE  IInv'
<1> USE SchedAssumption DEF OnCpu, SleepBack, Goto
<1>a. TypeOK /\ run[c] = p /\ p # None
  BY DEF IInv
<1>b. lock["ptable"] = c /\ IF_[c] = FALSE /\ ncli[c] = 1
  BY DEF IInv, Held, Nesting, HoldsPtable, Outside, Twice, Enabled
<1>c. AfterSched(c, p)
  BY <1>a, <1>b, ReturnedFromSched
<1> USE DEF AfterSched
<1>1. TypeOK'
  BY <1>a, <1>c DEF TypeOK, Points
<1>2. OneCpu'
  BY <1>c DEF IInv, OneCpu
<1>3. NoPanic'
  BY <1>c DEF NoPanic
<1>4. Loop'
  BY <1>c DEF IInv, Loop
<1>5. Held'
  BY <1>c DEF IInv, TypeOK, Held, HoldsPtable, HoldsLk
<1>6. Nesting'
  BY <1>b, <1>c DEF IInv, TypeOK, Nesting, Held, Kept, Outside, Enabled, InYield
<1>7. States'
  BY <1>c DEF IInv, States
<1>8. Off'
  BY <1>c DEF IInv, Off
<1>9. Kept'
  BY <1>c DEF IInv, TypeOK, Kept
<1>10. MutualExclusion'
  BY <1>c DEF IInv, MutualExclusion, Inside, Handler
<1>11. Sleepers'
  <2>1. WakeupDue => WakeupDue'
    BY <1>c DEF WakeupDue
  <2> QED
    BY <1>c, <2>1 DEF IInv, Sleepers
<1> QED
  BY <1>1, <1>2, <1>3, <1>4, <1>5, <1>6, <1>7, <1>8, <1>9, <1>10, <1>11 DEF IInv

\* releasesleep starts to acquire lk->lk.
LEMMA ReleaseSleepIInv ==
  ASSUME NEW c \in CPU, NEW p \in Proc, IInv, OnCpu(c, p), ReleaseSleep(c, p)
  PROVE  IInv'
<1> USE SchedAssumption DEF OnCpu, ReleaseSleep, Goto, cpus, slock
<1>a. TypeOK /\ run[c] = p /\ p # None
  BY DEF IInv
<1>b. lock["lk"] # c /\ "lk" \in Lock
  BY DEF IInv, Held, Lock, HoldsLk
<1>c. AfterAcquiring(c)
  BY <1>a, <1>b, Acquired
<1> USE DEF AfterAcquiring
<1>1. TypeOK'
  BY <1>a, <1>c DEF TypeOK, Points
<1>2. OneCpu'
  BY DEF IInv, OneCpu
<1>3. NoPanic'
  BY <1>c DEF NoPanic
<1>4. Loop'
  BY <1>c DEF IInv, Loop
<1>5. Held'
  BY <1>c DEF IInv, Held, HoldsPtable, HoldsLk
<1>6. Nesting'
  BY <1>c DEF IInv, TypeOK, OneCpu, Nesting, Outside, Twice, Enabled, InYield
<1>7. States'
  BY DEF IInv, States
<1>8. Off'
  BY DEF IInv, Off
<1>9. Kept'
  BY DEF IInv, Kept
<1>10. MutualExclusion'
  BY DEF IInv, MutualExclusion, Inside
<1>11. Sleepers'
  <2>1. WakeupDue => WakeupDue'
    BY DEF WakeupDue
  <2> QED
    BY <2>1 DEF IInv, Sleepers
<1> QED
  BY <1>1, <1>2, <1>3, <1>4, <1>5, <1>6, <1>7, <1>8, <1>9, <1>10, <1>11 DEF IInv

\* lk->locked is cleared: from here a wakeup is due.
LEMMA UnlockIInv ==
  ASSUME NEW c \in CPU, NEW p \in Proc, IInv, OnCpu(c, p), Unlock(c, p)
  PROVE  IInv'
<1> USE SchedAssumption DEF OnCpu, Unlock, Goto, cpus
<1>a. TypeOK /\ run[c] = p /\ p # None
  BY DEF IInv
<1>b. lock["ptable"] # c /\ "ptable" \in Lock
  BY DEF IInv, Held, Lock, HoldsPtable
<1>c. AfterAcquiring(c)
  BY <1>a, <1>b, Acquired
<1> USE DEF AfterAcquiring
<1>1. TypeOK'
  BY <1>a, <1>c DEF TypeOK, Points
<1>2. OneCpu'
  BY DEF IInv, OneCpu
<1>3. NoPanic'
  BY <1>c DEF NoPanic
<1>4. Loop'
  BY <1>c DEF IInv, Loop
<1>5. Held'
  BY <1>c DEF IInv, Held, HoldsPtable, HoldsLk
<1>6. Nesting'
  BY <1>c DEF IInv, TypeOK, OneCpu, Nesting, Outside, Twice, Enabled, InCall, InYield
<1>7. States'
  BY DEF IInv, States
<1>8. Off'
  BY DEF IInv, Off
<1>9. Kept'
  BY DEF IInv, Kept
<1>10. MutualExclusion'
  BY DEF IInv, TypeOK, MutualExclusion, Inside, Handler
<1>11. Sleepers'
  <2>1. WakeupDue'
    BY <1>a DEF WakeupDue, TypeOK
  <2>2. ASSUME NEW q \in Proc, q # p PROVE pc[q] \notin {"slp_acq", "slp_rel"}
    BY LkExcludes DEF HoldsLk
  <2> QED
    BY <2>1, <2>2 DEF Sleepers
<1> QED
  BY <1>1, <1>2, <1>3, <1>4, <1>5, <1>6, <1>7, <1>8, <1>9, <1>10, <1>11 DEF IInv

\* wakeup1 makes every sleeper RUNNABLE.
LEMMA WakeupIInv ==
  ASSUME NEW c \in CPU, NEW p \in Proc, IInv, OnCpu(c, p), Wakeup(c, p)
  PROVE  IInv'
<1> USE SchedAssumption DEF OnCpu, Wakeup, Wakeup1, Goto, cpus, slock
<1>a. TypeOK /\ run[c] = p /\ p # None
  BY DEF IInv
<1>b. lock["ptable"] = c /\ IF_[c] = FALSE /\ ncli[c] \in {1, 2} /\ "ptable" \in Lock
  BY DEF IInv, Held, Nesting, Lock, HoldsPtable, Outside, Enabled
<1>c. AfterRelease(c, "ptable")
  BY <1>a, <1>b, Released
<1> USE DEF AfterRelease
<1>1. TypeOK'
  BY <1>a, <1>c DEF TypeOK, Points
<1>2. OneCpu'
  BY DEF IInv, OneCpu
<1>3. NoPanic'
  BY <1>c DEF NoPanic
<1>4. Loop'
  BY <1>c DEF IInv, Loop
<1>5. Held'
  BY <1>c DEF IInv, TypeOK, Held, HoldsPtable, HoldsLk
<1>6. Nesting'
  BY <1>b, <1>c DEF IInv, TypeOK, Nesting, Held, Outside, Twice, Enabled, InCall, InYield
<1>7. States'
  BY DEF IInv, TypeOK, States, Held, HoldsPtable
<1>8. Off'
  BY DEF IInv, Off
<1>9. Kept'
  BY DEF IInv, Kept
<1>10. MutualExclusion'
  BY DEF IInv, MutualExclusion, Inside, Handler
<1>11. Sleepers'
  <2>1. ASSUME NEW q \in Proc PROVE state'[q] # "SLEEPING"
    <3>1. state[q] = "SLEEPING" => asleepOn[q] = TRUE
      BY DEF IInv, States, Off, Kept
    <3> QED
      BY <3>1
  <2>2. ASSUME NEW q \in Proc, q # p PROVE pc[q] \notin {"slp_acq", "slp_rel", "slp_set", "slp_sched"}
    <3>1. pc[q] \notin {"slp_acq", "slp_rel"}
      BY LkExcludes DEF HoldsLk
    <3>2. pc[q] \in {"slp_set", "slp_sched"} => \E d \in CPU : run[d] = q
      BY OnSomeCpu DEF Switched
    <3>3. pc[q] \notin {"slp_set", "slp_sched"}
      BY <3>2, PtableExcludes DEF HoldsPtable
    <3> QED
      BY <3>1, <3>3
  <2> QED
    BY <2>1, <2>2 DEF Sleepers
<1> QED
  BY <1>1, <1>2, <1>3, <1>4, <1>5, <1>6, <1>7, <1>8, <1>9, <1>10, <1>11 DEF IInv

\* The end of releasesleep releases lk->lk.
LEMMA WakeupDoneIInv ==
  ASSUME NEW c \in CPU, NEW p \in Proc, IInv, OnCpu(c, p), WakeupDone(c, p)
  PROVE  IInv'
<1> USE SchedAssumption DEF OnCpu, WakeupDone, Goto, cpus, slock
<1>a. TypeOK /\ run[c] = p /\ p # None
  BY DEF IInv
<1>b. lock["lk"] = c /\ IF_[c] = FALSE /\ ncli[c] \in {1, 2} /\ "lk" \in Lock
  BY DEF IInv, Held, Nesting, Lock, HoldsLk, Outside, Enabled
<1>c. AfterRelease(c, "lk")
  BY <1>a, <1>b, Released
<1> USE DEF AfterRelease
<1>1. TypeOK'
  BY <1>a, <1>c DEF TypeOK, Points
<1>2. OneCpu'
  BY DEF IInv, OneCpu
<1>3. NoPanic'
  BY <1>c DEF NoPanic
<1>4. Loop'
  BY <1>c DEF IInv, Loop
<1>5. Held'
  BY <1>c DEF IInv, TypeOK, Held, HoldsPtable, HoldsLk
<1>6. Nesting'
  BY <1>b, <1>c DEF IInv, TypeOK, Nesting, Held, Outside, Twice, Enabled, InCall, InYield
<1>7. States'
  BY DEF IInv, States
<1>8. Off'
  BY DEF IInv, Off
<1>9. Kept'
  BY DEF IInv, Kept
<1>10. MutualExclusion'
  BY DEF IInv, MutualExclusion, Inside, Handler
<1>11. Sleepers'
  <2>1. WakeupDue => WakeupDue'
    BY DEF WakeupDue
  <2> QED
    BY <2>1 DEF IInv, Sleepers
<1> QED
  BY <1>1, <1>2, <1>3, <1>4, <1>5, <1>6, <1>7, <1>8, <1>9, <1>10, <1>11 DEF IInv

\* yield() makes itself RUNNABLE with ptable.lock held.
LEMMA YieldSetIInv ==
  ASSUME NEW c \in CPU, NEW p \in Proc, IInv, OnCpu(c, p), YieldSet(c, p)
  PROVE  IInv'
<1> USE SchedAssumption DEF OnCpu, YieldSet, locks, Goto, cpus, slock
<1>a. TypeOK /\ run[c] = p /\ p # None
  BY DEF IInv
<1>1. TypeOK'
  BY <1>a DEF TypeOK, Points
<1>2. OneCpu'
  BY DEF IInv, OneCpu
<1>3. NoPanic'
  BY DEF NoPanic
<1>4. Loop'
  BY DEF IInv, Loop
<1>5. Held'
  BY DEF IInv, Held, HoldsPtable, HoldsLk
<1>6. Nesting'
  BY DEF IInv, Nesting, Outside, Twice, Enabled, InCall, InYield
<1>7. States'
  BY DEF IInv, TypeOK, States
<1>8. Off'
  BY DEF IInv, Off
<1>9. Kept'
  BY DEF IInv, Kept
<1>10. MutualExclusion'
  BY DEF IInv, MutualExclusion, Inside, Handler
<1>11. Sleepers'
  <2>1. WakeupDue => WakeupDue'
    BY DEF WakeupDue
  <2> QED
    BY <2>1 DEF IInv, Sleepers
<1> QED
  BY <1>1, <1>2, <1>3, <1>4, <1>5, <1>6, <1>7, <1>8, <1>9, <1>10, <1>11 DEF IInv

\* sched() from yield().
LEMMA YieldSchedIInv ==
  ASSUME NEW c \in CPU, NEW p \in Proc, IInv, OnCpu(c, p), YieldSched(c, p)
  PROVE  IInv'
<1> USE SchedAssumption DEF OnCpu, YieldSched, Sched, locks, Goto, slock
<1>a. TypeOK /\ run[c] = p /\ p # None
  BY DEF IInv
<1>b. lock["ptable"] = c /\ IF_[c] = FALSE /\ ncli[c] = 1 /\ state[p] # "RUNNING"
  BY DEF IInv, Held, Nesting, States, HoldsPtable, Outside, Twice, Enabled
<1>c. panicked' = FALSE
  <2>1. ~(lock["ptable"] # c \/ ncli[c] # 1 \/ state[p] = "RUNNING" \/ IF_[c])
    BY <1>b
  <2> QED
    BY <2>1, Zenon
<1>1. TypeOK'
  BY <1>a DEF TypeOK, Points
<1>2. OneCpu'
  BY DEF IInv, OneCpu
<1>3. NoPanic'
  BY <1>c DEF NoPanic
<1>4. Loop'
  BY <1>b DEF IInv, Loop, Held
<1>5. Held'
  BY DEF IInv, Held, HoldsPtable, HoldsLk
<1>6. Nesting'
  BY DEF IInv, Nesting, Outside, Twice, Enabled, InCall, InYield
<1>7. States'
  BY <1>b DEF IInv, TypeOK, States, Held
<1>8. Off'
  BY DEF IInv, TypeOK, Off, States, Switched
<1>9. Kept'
  BY DEF IInv, TypeOK, Kept, Nesting, InYield
<1>10. MutualExclusion'
  BY DEF IInv, MutualExclusion, Inside, Handler
<1>11. Sleepers'
  <2>1. WakeupDue => WakeupDue'
    BY DEF WakeupDue
  <2> QED
    BY <2>1 DEF IInv, Sleepers
<1> QED
  BY <1>1, <1>2, <1>3, <1>4, <1>5, <1>6, <1>7, <1>8, <1>9, <1>10, <1>11 DEF IInv

\* The end of yield(), possibly on another processor.
LEMMA YieldBackIInv ==
  ASSUME NEW c \in CPU, NEW p \in Proc, IInv, OnCpu(c, p), YieldBack(c, p)
  PROVE  IInv'
<1> USE SchedAssumption DEF OnCpu, YieldBack, Goto, cpus, slock
<1>a. TypeOK /\ run[c] = p /\ p # None
  BY DEF IInv
<1>b. lock["ptable"] = c /\ IF_[c] = FALSE /\ ncli[c] = 1
  BY DEF IInv, Held, Nesting, HoldsPtable, Outside, Twice, Enabled
<1>c. AfterSched(c, p)
  BY <1>a, <1>b, ReturnedFromSched
<1> USE DEF AfterSched
<1>1. TypeOK'
  BY <1>a, <1>c DEF TypeOK, Points
<1>2. OneCpu'
  BY <1>c DEF IInv, OneCpu
<1>3. NoPanic'
  BY <1>c DEF NoPanic
<1>4. Loop'
  BY <1>c DEF IInv, Loop
<1>5. Held'
  BY <1>c DEF IInv, TypeOK, Held, HoldsPtable, HoldsLk
<1>6. Nesting'
  BY <1>b, <1>c DEF IInv, TypeOK, Nesting, Held, Kept, Outside, Enabled, InCall
<1>7. States'
  BY <1>c DEF IInv, States
<1>8. Off'
  BY <1>c DEF IInv, Off
<1>9. Kept'
  BY <1>c DEF IInv, Kept
<1>10. MutualExclusion'
  BY <1>c DEF IInv, MutualExclusion, Inside, Handler
<1>11. Sleepers'
  <2>1. WakeupDue => WakeupDue'
    BY <1>c DEF WakeupDue
  <2> QED
    BY <1>c, <2>1 DEF IInv, Sleepers
<1> QED
  BY <1>1, <1>2, <1>3, <1>4, <1>5, <1>6, <1>7, <1>8, <1>9, <1>10, <1>11 DEF IInv

\* The end of the timer interrupt.
LEMMA IretIInv ==
  ASSUME NEW c \in CPU, NEW p \in Proc, IInv, OnCpu(c, p), Iret(c, p)
  PROVE  IInv'
<1> USE SchedAssumption DEF OnCpu, Iret, Goto, cpus, slock
<1>a. TypeOK /\ run[c] = p /\ p # None
  BY DEF IInv
<1>b. ret[p] \in {"trapret", "out", "again", "cs"}
  BY DEF IInv, Kept, Enabled
<1>c. ncli[c] = 0 /\ lock["ptable"] # c /\ lock["lk"] # c /\ state[p] = "RUNNING"
  BY DEF IInv, Held, Nesting, States, HoldsPtable, HoldsLk, Outside
<1>1. TypeOK'
  BY <1>a DEF TypeOK
<1>2. OneCpu'
  BY DEF IInv, OneCpu
<1>3. NoPanic'
  BY DEF NoPanic
<1>4. Loop'
  BY DEF IInv, Loop
<1>5. Held'
  BY <1>b DEF IInv, Held, HoldsPtable, HoldsLk
<1>6. Nesting'
  BY <1>b DEF IInv, TypeOK, OneCpu, Nesting, Outside, Enabled, InCall, InYield
<1>7. States'
  BY <1>b DEF IInv, States
<1>8. Off'
  BY DEF IInv, Off
<1>9. Kept'
  BY <1>b DEF IInv, Kept
<1>10. MutualExclusion'
  <2>1. ASSUME NEW q \in Proc, Inside(q)' PROVE Inside(q)
    BY <1>b, <2>1 DEF Inside, Handler
  <2> QED
    BY <2>1 DEF IInv, MutualExclusion
<1>11. Sleepers'
  <2>1. WakeupDue => WakeupDue'
    BY DEF WakeupDue
  <2> QED
    BY <1>b, <2>1 DEF IInv, Sleepers
<1> QED
  BY <1>1, <1>2, <1>3, <1>4, <1>5, <1>6, <1>7, <1>8, <1>9, <1>10, <1>11 DEF IInv

\* The timer interrupts only where interrupts are on: outside every spinlock.
LEMMA TimerIInv ==
  ASSUME NEW c \in CPU, NEW p \in Proc, IInv, OnCpu(c, p), Timer(c, p)
  PROVE  IInv'
<1> USE SchedAssumption DEF OnCpu, Timer, StateInYield, Goto, cpus, slock
<1>a. TypeOK /\ run[c] = p /\ p # None
  BY DEF IInv
<1>b. pc[p] \in Enabled \cup {"trapret"} /\ lock["ptable"] # c /\ ncli[c] = 0
  <2>1. IF_[c] = TRUE
    BY Zenon
  <2>2. pc[p] \in Enabled \cup {"trapret"}
    BY DEF IInv, Nesting
  <2> QED
    BY DEF IInv, Held, Nesting, HoldsPtable, Outside, Enabled
<1>c. panicked' = FALSE
  BY <1>b, Zenon
<1>1. TypeOK'
  BY <1>a, <1>b DEF TypeOK, Points
<1>2. OneCpu'
  BY DEF IInv, OneCpu
<1>3. NoPanic'
  BY <1>c DEF NoPanic
<1>4. Loop'
  BY DEF IInv, Loop
<1>5. Held'
  BY <1>b DEF IInv, OneCpu, Held, HoldsPtable, HoldsLk, Enabled
<1>6. Nesting'
  BY DEF IInv, TypeOK, OneCpu, Nesting, Outside, Twice, Enabled, InCall
<1>7. States'
  BY DEF IInv, States
<1>8. Off'
  BY DEF IInv, Off
<1>9. Kept'
  BY <1>b DEF IInv, Kept
<1>10. MutualExclusion'
  BY DEF IInv, TypeOK, MutualExclusion, Inside
<1>11. Sleepers'
  <2>1. WakeupDue => WakeupDue'
    BY <1>b DEF Enabled, WakeupDue
  <2> QED
    BY <2>1 DEF IInv, Sleepers
<1> QED
  BY <1>1, <1>2, <1>3, <1>4, <1>5, <1>6, <1>7, <1>8, <1>9, <1>10, <1>11 DEF IInv

\* scheduler() turns interrupts on and starts to acquire ptable.lock.
LEMMA SchedulerTopIInv ==
  ASSUME NEW c \in CPU, IInv, ~panicked, SchedulerTop(c)
  PROVE  IInv'
<1> USE SchedAssumption DEF SchedulerTop, slock
<1>a. TypeOK /\ run[c] = None
  BY DEF IInv
<1>b. lock["ptable"] # c /\ ncli[c] = 0
  BY DEF IInv, Held, Loop
<1>c. panicked' = FALSE
  BY <1>b, Zenon
<1>1. TypeOK'
  BY <1>a, <1>b DEF TypeOK
<1>2. OneCpu'
  BY DEF IInv, OneCpu
<1>3. NoPanic'
  BY <1>c DEF NoPanic
<1>4. Loop'
  BY DEF IInv, TypeOK, Loop
<1>5. Held'
  BY DEF IInv, Held
<1>6. Nesting'
  BY DEF IInv, Nesting
<1>7. States'
  BY DEF IInv, States
<1>8. Off'
  BY DEF IInv, Off
<1>9. Kept'
  BY DEF IInv, Kept
<1>10. MutualExclusion'
  BY DEF IInv, MutualExclusion, Inside
<1>11. Sleepers'
  BY DEF IInv, Sleepers, WakeupDue
<1> QED
  BY <1>1, <1>2, <1>3, <1>4, <1>5, <1>6, <1>7, <1>8, <1>9, <1>10, <1>11 DEF IInv

\* scheduler() gets ptable.lock.
LEMMA SchedulerLockIInv ==
  ASSUME NEW c \in CPU, IInv, ~panicked, SchedulerLock(c)
  PROVE  IInv'
<1> USE SchedAssumption DEF SchedulerLock, Xchg, XchgWins, slock
<1>a. TypeOK /\ run[c] = None
  BY DEF IInv
<1>1. TypeOK'
  BY <1>a DEF TypeOK, Lock
<1>2. OneCpu'
  BY DEF IInv, OneCpu
<1>3. NoPanic'
  BY DEF NoPanic
<1>4. Loop'
  BY DEF IInv, Loop
<1>5. Held'
  BY DEF IInv, TypeOK, Held, Lock
<1>6. Nesting'
  BY DEF IInv, Nesting
<1>7. States'
  BY DEF IInv, States
<1>8. Off'
  BY DEF IInv, Off
<1>9. Kept'
  BY DEF IInv, Kept
<1>10. MutualExclusion'
  BY DEF IInv, MutualExclusion, Inside
<1>11. Sleepers'
  BY DEF IInv, Sleepers, WakeupDue
<1> QED
  BY <1>1, <1>2, <1>3, <1>4, <1>5, <1>6, <1>7, <1>8, <1>9, <1>10, <1>11 DEF IInv

\* A RUNNABLE process is on no other processor: swtch to it.
LEMMA SchedulerRunIInv ==
  ASSUME NEW c \in CPU, IInv, ~panicked, SchedulerRun(c)
  PROVE  IInv'
<1>a. TypeOK /\ run[c] = None
  BY DEF IInv, SchedulerRun
<1>b. PICK p \in Proc :
        /\ state[p] = "RUNNABLE"
        /\ cur' = [cur EXCEPT ![c] = p]
        /\ state' = [state EXCEPT ![p] = "RUNNING"]
        /\ run' = [run EXCEPT ![c] = p]
        /\ idx' = [idx EXCEPT ![c] = p + 1]
  BY DEF SchedulerRun, NextEntry
<1>c. /\ spc[c] = "scan" /\ spc' = [spc EXCEPT ![c] = "back"]
      /\ UNCHANGED <<lock, IF_, ncli, intena, asleepOn, locked, pid, pc, ret, saved, panicked>>
  BY DEF SchedulerRun, locks, slock
<1>d. p # None /\ lock["ptable"] = c
  BY <1>c, SchedAssumption DEF IInv, Held
<1>e. ASSUME NEW d \in CPU PROVE run[d] # p
  <2>1. SUFFICES ASSUME run[d] = p PROVE FALSE
    OBVIOUS
  <2>2. pc[p] = "y_sched"
    BY <1>b, <1>d, <2>1 DEF IInv, States
  <2>3. lock["ptable"] = d
    BY <1>d, <2>1, <2>2 DEF IInv, Held, HoldsPtable
  <2> QED
    BY <1>a, <1>d, <2>1, <2>3
<1>f. pc[p] \in Switched
  BY <1>e DEF IInv, Off
<1>1. TypeOK'
  BY <1>a, <1>b, <1>c, SchedAssumption DEF TypeOK, Proc
<1>2. OneCpu'
  BY <1>b, <1>e DEF IInv, OneCpu
<1>3. NoPanic'
  BY <1>c DEF NoPanic
<1>4. Loop'
  BY <1>b, <1>c, <1>d DEF IInv, Loop
<1>5. Held'
  BY <1>b, <1>c, <1>f DEF IInv, TypeOK, Held, Switched, HoldsPtable, HoldsLk
<1>6. Nesting'
  BY <1>a, <1>b, <1>c, <1>f DEF IInv, Loop, Nesting, Switched, Outside, Twice, Enabled, InCall,
     InYield
<1>7. States'
  BY <1>b, <1>c, <1>f DEF IInv, TypeOK, States, Switched
<1>8. Off'
  <2>1. ASSUME NEW q \in Proc, \A d \in CPU : run'[d] # q PROVE q # p /\ \A d \in CPU : run[d] # q
    BY <1>a, <1>b, <2>1, SchedAssumption DEF TypeOK
  <2> QED
    BY <1>b, <1>c, <2>1 DEF IInv, Off
<1>9. Kept'
  BY <1>c DEF IInv, Kept
<1>10. MutualExclusion'
  BY <1>c DEF IInv, MutualExclusion, Inside
<1>11. Sleepers'
  BY <1>b, <1>c DEF IInv, Sleepers, WakeupDue
<1> QED
  BY <1>1, <1>2, <1>3, <1>4, <1>5, <1>6, <1>7, <1>8, <1>9, <1>10, <1>11 DEF IInv

\* The process swtched back, and the scheduler has ptable.lock again.
LEMMA SchedulerBackIInv ==
  ASSUME NEW c \in CPU, IInv, ~panicked, SchedulerBack(c)
  PROVE  IInv'
<1> USE SchedAssumption DEF SchedulerBack, locks, slock
<1>a. TypeOK /\ run[c] = None
  BY DEF IInv
<1>1. TypeOK'
  BY <1>a DEF TypeOK
<1>2. OneCpu'
  BY DEF IInv, OneCpu
<1>3. NoPanic'
  BY DEF NoPanic
<1>4. Loop'
  BY DEF IInv, Loop
<1>5. Held'
  BY DEF IInv, Held
<1>6. Nesting'
  BY DEF IInv, Nesting
<1>7. States'
  BY DEF IInv, States
<1>8. Off'
  BY DEF IInv, Off
<1>9. Kept'
  BY DEF IInv, Kept
<1>10. MutualExclusion'
  BY DEF IInv, MutualExclusion, Inside
<1>11. Sleepers'
  BY DEF IInv, Sleepers, WakeupDue
<1> QED
  BY <1>1, <1>2, <1>3, <1>4, <1>5, <1>6, <1>7, <1>8, <1>9, <1>10, <1>11 DEF IInv

\* scheduler() releases ptable.lock at the end of the table.
LEMMA SchedulerEndIInv ==
  ASSUME NEW c \in CPU, IInv, ~panicked, SchedulerEnd(c)
  PROVE  IInv'
<1> USE SchedAssumption DEF SchedulerEnd, slock
<1>a. TypeOK /\ run[c] = None
  BY DEF IInv
<1>b. lock["ptable"] = c /\ IF_[c] = FALSE /\ ncli[c] = 1 /\ "ptable" \in Lock
  BY DEF IInv, Held, Loop, Lock
<1>c. AfterRelease(c, "ptable")
  BY <1>a, <1>b, Released
<1> USE DEF AfterRelease
<1>1. TypeOK'
  BY <1>a, <1>c DEF TypeOK
<1>2. OneCpu'
  BY DEF IInv, OneCpu
<1>3. NoPanic'
  BY <1>c DEF NoPanic
<1>4. Loop'
  BY <1>c DEF IInv, TypeOK, Loop
<1>5. Held'
  BY <1>c DEF IInv, TypeOK, Held
<1>6. Nesting'
  BY <1>c DEF IInv, Nesting
<1>7. States'
  BY DEF IInv, States
<1>8. Off'
  BY DEF IInv, Off
<1>9. Kept'
  BY DEF IInv, Kept
<1>10. MutualExclusion'
  BY DEF IInv, MutualExclusion, Inside
<1>11. Sleepers'
  BY DEF IInv, Sleepers, WakeupDue
<1> QED
  BY <1>1, <1>2, <1>3, <1>4, <1>5, <1>6, <1>7, <1>8, <1>9, <1>10, <1>11 DEF IInv


\* The processors start in their scheduler loops.
LEMMA InitIInv == Init => IInv
<1> SUFFICES ASSUME Init PROVE IInv
  OBVIOUS
<1> USE SchedAssumption DEF Init
<1>1. TypeOK
  <2>1. /\ asleepOn \in [Proc -> BOOLEAN] /\ saved \in [Proc -> BOOLEAN]
        /\ IF_ \in [CPU -> BOOLEAN] /\ intena \in [CPU -> BOOLEAN]
        /\ locked \in BOOLEAN /\ panicked \in BOOLEAN
    BY Zenon
  <2>2. idx \in [CPU -> 1..(NPROC + 1)] /\ ncli \in [CPU -> Nat]
    OBVIOUS
  <2>3. pc \in [Proc -> Points] /\ ret \in [Proc -> Points]
    BY DEF Points
  <2>4. lock \in [Lock -> CPU \cup {None}] /\ pid \in Proc \cup {None}
    OBVIOUS
  <2> QED
    BY <2>2, <2>3, Zenon DEF TypeOK
<1>2. OneCpu /\ NoPanic /\ Loop /\ Held /\ Nesting /\ States
  BY DEF OneCpu, NoPanic, Loop, Held, Nesting, States, Lock
<1>3. Off /\ Kept
  BY DEF Off, Kept, Switched, Enabled
<1>4. MutualExclusion /\ Sleepers
  BY DEF MutualExclusion, Sleepers, Inside
<1> QED
  BY <1>1, <1>2, <1>3, <1>4 DEF IInv

\* So does a step that changes nothing.
LEMMA StutterIInv == ASSUME IInv, UNCHANGED vars PROVE IInv'
BY DEF IInv, vars, TypeOK, OneCpu, NoPanic, Loop, Held, Nesting, States, Off, Kept,
   MutualExclusion, Inside, Sleepers, WakeupDue

\* Every step keeps the invariant.
LEMMA NextIInv == IInv /\ [Next]_vars => IInv'
<1> SUFFICES ASSUME IInv, [Next]_vars PROVE IInv'
  OBVIOUS
<1>1. CASE UNCHANGED vars
  BY <1>1, StutterIInv
<1>2. ASSUME NEW c \in CPU, ~panicked, SchedulerStep(c) \/ SchedulerLock(c) PROVE IInv'
  BY <1>2, SchedulerTopIInv, SchedulerLockIInv, SchedulerRunIInv, SchedulerBackIInv,
     SchedulerEndIInv DEF SchedulerStep
<1>3. ASSUME NEW c \in CPU, NEW p \in Proc, OnCpu(c, p), Spins(c, p) \/ Timer(c, p) PROVE IInv'
  BY <1>3, SpinsIInv, TimerIInv
<1>4. ASSUME NEW c \in CPU, NEW p \in Proc, OnCpu(c, p), Moves(c, p) PROVE IInv'
  BY <1>4, ForkretIInv, TrapretIInv, AcquireSleepIInv, MustSleepIInv, TakeLockIInv,
     SleepReleaseIInv, SleepSetIInv, SleepSchedIInv, SleepBackIInv, ReleaseSleepIInv,
     UnlockIInv, WakeupIInv, WakeupDoneIInv, YieldSetIInv, YieldSchedIInv, YieldBackIInv,
     IretIInv DEF Moves
<1> QED
  BY <1>1, <1>2, <1>3, <1>4 DEF Next

\* The invariant holds at every point of every run of Sched.
LEMMA Inductive == Spec => []IInv
BY InitIInv, NextIInv, PTL DEF Spec

\* scheduler(), sched() and yield(): no process ever runs on two processors, so
\* no two processors share a kernel stack, wherever the timer interrupts.
THEOREM StacksNotShared == Spec => []OneCpu
<1>1. IInv => OneCpu
  BY DEF IInv
<1> QED
  BY <1>1, Inductive, PTL

\* acquiresleep and releasesleep: at most one process is between them.
THEOREM SleepLockExcludes == Spec => []MutualExclusion
<1>1. IInv => MutualExclusion
  BY DEF IInv
<1> QED
  BY <1>1, Inductive, PTL

\* sleep() and wakeup(): nobody sleeps for a sleep lock that is free, unless the
\* wakeup is on its way.
THEOREM NoWakeupLost == Spec => []NoLostWakeup
<1>1. IInv => NoLostWakeup
  BY DEF IInv, Sleepers, WakeupDue, NoLostWakeup
<1> QED
  BY <1>1, Inductive, PTL

\* spinlock.c and sleeplock.c: no panic of acquire, release, popcli or sched is
\* reached, the sleep lock excludes and no wakeup is lost, for any number of
\* processors and processes.
THEOREM LocksAlwaysSafe == Spec => []LocksSafe
<1>1. IInv => InterruptsRestored
  <2> SUFFICES ASSUME IInv, NEW c \in CPU, NEW p \in Proc,
                      run[c] = p, pc[p] \in {"out", "cs", "again"}
               PROVE  IF_[c]
    BY DEF InterruptsRestored
  <2>1. p # None
    BY SchedAssumption
  <2>2. IF_[c] = TRUE
    BY <2>1 DEF IInv, Nesting, Enabled
  <2> QED
    BY <2>2
<1>2. IInv => NoLostWakeup
  BY DEF IInv, Sleepers, WakeupDue, NoLostWakeup
<1>3. IInv => LocksSafe
  BY <1>1, <1>2 DEF IInv, LocksSafe
<1> QED
  BY <1>3, Inductive, PTL

-----------------------------------------------------------------------------
(* Paging: the inductive invariant                                         *)

\* A record of a page.
Record == [va : Nat, off : Int, ram : BOOLEAN, alloc : BOOLEAN, age : Nat]

\* What a call may find: the values of Now.
State ==
    [pages : [Recs -> Record], q : Seq(Recs), offq : Seq(Nat), top : Nat, paged : Int,
     pte : [Pages -> SUBSET {"A", "W", "PG"}], swapFile : Seq(Int), broken : BOOLEAN]

\* The record is of a page in memory, or in the swap file.
In(s, i) == s.pages[i].alloc /\ s.pages[i].ram
Out(s, i) == s.pages[i].alloc /\ ~s.pages[i].ram

\* The queue lists the pages in memory, each once.
Queue(s) ==
    /\ Len(s.q) <= MAX_PSYC_PAGES
    /\ \A a, b \in DOMAIN s.q : s.q[a] = s.q[b] => a = b
    /\ \A i \in Recs : In(s, i) <=> \E a \in DOMAIN s.q : s.q[a] = i

\* The records are those of the pages below n, one each.
Owned(s, n) ==
    /\ \A i \in Recs : s.pages[i].alloc => s.pages[i].va < n
    /\ \A i, j \in Recs :
          s.pages[i].alloc /\ s.pages[j].alloc /\ s.pages[i].va = s.pages[j].va => i = j
    /\ \A v \in 0 .. n - 1 : \E i \in Recs : s.pages[i].alloc /\ s.pages[i].va = v

\* A page is marked as swapped out exactly when it is.
Marks(s) == \A i \in Recs : s.pages[i].alloc => ("PG" \in s.pte[s.pages[i].va] <=> ~s.pages[i].ram)

\* Each slot is one page's, and holds it, or waits once among the free ones,
\* but those of K, which a call has in hand.
SlotsBut(s, K) ==
    /\ \A i \in Recs : Out(s, i) =>
          /\ s.pages[i].off \in 0 .. s.top - 1
          /\ s.pages[i].off + 1 \in DOMAIN s.swapFile
          /\ s.swapFile[s.pages[i].off + 1] = s.pages[i].va
    /\ \A i, j \in Recs : Out(s, i) /\ Out(s, j) /\ s.pages[i].off = s.pages[j].off => i = j
    /\ \A a, b \in DOMAIN s.offq : s.offq[a] = s.offq[b] => a = b
    /\ \A a \in DOMAIN s.offq :
          s.offq[a] < s.top /\ \A i \in Recs : Out(s, i) => s.pages[i].off # s.offq[a]
    /\ \A k \in K :
          /\ k \in 0 .. s.top - 1
          /\ \A i \in Recs : Out(s, i) => s.pages[i].off # k
          /\ \A a \in DOMAIN s.offq : s.offq[a] # k
    /\ \A k \in 0 .. s.top - 1 :
          k \in K \/ (\E i \in Recs : Out(s, i) /\ s.pages[i].off = k)
                  \/ \E a \in DOMAIN s.offq : s.offq[a] = k

\* A process with n pages, between two steps.
Fine(s, n) ==
    /\ s \in State /\ ~s.broken /\ n \in Nat
    /\ Queue(s) /\ Owned(s, n) /\ Marks(s) /\ SlotsBut(s, {})

\* The inductive invariant; a state the code has corrupted promises nothing.
PagingInv == policy \in Policies /\ (~broken => Fine(Now, sz))

-----------------------------------------------------------------------------
(* Least places, and a sequence without one of its places.                 *)

\* A set of numbers has a least one.
LEMMA HasLeast == ASSUME NEW S, S \subseteq Nat, S # {} PROVE \E x \in S : \A y \in S : x <= y
<1> DEFINE R == {ss \in Nat \X Nat : ss[1] < ss[2]}
<1>1. IsWellFoundedOn(R, Nat)
  BY NatLessThanWellFounded, Zenon DEF OpToRel
<1>2. \E x \in S : \A y \in S : ~(<<y, x>> \in R)
  <2> HIDE DEF R
  <2> QED
    BY <1>1, WFMin
<1>3. PICK x \in S : \A y \in S : ~(<<y, x>> \in R)
  BY <1>2
<1>4. ASSUME NEW y \in S PROVE x <= y
  <2>1. x \in Nat /\ y \in Nat
    OBVIOUS
  <2>2. ~(<<y, x>> \in {ss \in Nat \X Nat : ss[1] < ss[2]})
    BY <1>3
  <2> QED
    BY <2>1, <2>2
<1> QED
  BY <1>4

\* Lowest is the least number of a set of them.
LEMMA LowestIn ==
    ASSUME NEW S, S \subseteq Nat, S # {}
    PROVE  Lowest(S) \in S /\ \A k \in S : Lowest(S) <= k
<1>1. \E x \in S : \A y \in S : x <= y
  BY HasLeast
<1> QED
  BY <1>1, Zenon DEF Lowest

\* r is q without place n, perhaps in another order.
Drops(q, r, n) ==
    /\ r \in Seq(Recs) /\ Len(r) = Len(q) - 1
    /\ (\A a, b \in DOMAIN q : q[a] = q[b] => a = b) => \A a, b \in DOMAIN r : r[a] = r[b] => a = b
    /\ \A a \in DOMAIN r : \E b \in DOMAIN q : b # n /\ r[a] = q[b]
    /\ \A b \in DOMAIN q : b # n => \E a \in DOMAIN r : r[a] = q[b]

\* It is enough to say where the places of r come from.
LEMMA DropsBy ==
    ASSUME NEW q \in Seq(Recs), NEW n \in 1 .. Len(q), NEW r \in Seq(Recs),
           Len(r) = Len(q) - 1, NEW f \in [1 .. Len(q) - 1 -> 1 .. Len(q)],
           \A a \in 1 .. Len(q) - 1 : f[a] # n /\ r[a] = q[f[a]],
           \A a, b \in 1 .. Len(q) - 1 : f[a] = f[b] => a = b,
           \A b \in 1 .. Len(q) : b # n => \E a \in 1 .. Len(q) - 1 : f[a] = b
    PROVE  Drops(q, r, n)
<1>1. DOMAIN q = 1 .. Len(q) /\ DOMAIN r = 1 .. Len(q) - 1 /\ Len(q) \in Nat
  OBVIOUS
<1>2. \A a \in DOMAIN r : f[a] \in DOMAIN q /\ f[a] # n /\ r[a] = q[f[a]]
  BY <1>1
<1>3. ASSUME \A a, b \in DOMAIN q : q[a] = q[b] => a = b
      PROVE  \A a, b \in DOMAIN r : r[a] = r[b] => a = b
  <2> TAKE a, b \in DOMAIN r
  <2>1. r[a] = q[f[a]] /\ r[b] = q[f[b]] /\ f[a] \in DOMAIN q /\ f[b] \in DOMAIN q
    BY <1>2
  <2>2. r[a] = r[b] => f[a] = f[b]
    BY <1>3, <2>1
  <2> QED
    BY <1>1, <2>2
<1>4. \A b \in DOMAIN q : b # n => \E a \in DOMAIN r : r[a] = q[b]
  <2> SUFFICES ASSUME NEW b \in DOMAIN q, b # n PROVE \E a \in DOMAIN r : r[a] = q[b]
    OBVIOUS
  <2>1. PICK a \in 1 .. Len(q) - 1 : f[a] = b
    BY <1>1
  <2> QED
    BY <1>1, <1>2, <2>1
<1>5. \A a \in DOMAIN r : \E b \in DOMAIN q : b # n /\ r[a] = q[b]
  BY <1>2
<1> QED
  BY <1>3, <1>4, <1>5, Zenon DEF Drops

\* What SubSeq and \o give, place by place.
LEMMA Cat ==
    ASSUME NEW q \in Seq(Recs), NEW a \in 1 .. Len(q) + 1, NEW b \in 0 .. Len(q), a <= b + 1,
           NEW c \in 1 .. Len(q) + 1, NEW d \in 0 .. Len(q), c <= d + 1
    PROVE  LET r == SubSeq(q, a, b) \o SubSeq(q, c, d)
           IN  /\ r \in Seq(Recs) /\ Len(r) = (b - a + 1) + (d - c + 1)
               /\ \A k \in 1 .. Len(r) : r[k] = IF k <= b - a + 1 THEN q[a + k - 1]
                                                ELSE q[c + (k - (b - a + 1)) - 1]
<1> DEFINE s == SubSeq(q, a, b)
           t == SubSeq(q, c, d)
<1>1. Len(q) \in Nat /\ DOMAIN q = 1 .. Len(q)
  OBVIOUS
<1>2. s \in Seq(Recs) /\ Len(s) = b - a + 1 /\ \A k \in 1 .. b - a + 1 : s[k] = q[a + k - 1]
  BY <1>1, SubSeqProperties
<1>3. t \in Seq(Recs) /\ Len(t) = d - c + 1 /\ \A k \in 1 .. d - c + 1 : t[k] = q[c + k - 1]
  BY <1>1, SubSeqProperties, SMTT(30)
<1> HIDE DEF s, t
<1>4. /\ s \o t \in Seq(Recs) /\ Len(s \o t) = Len(s) + Len(t)
      /\ \A k \in 1 .. Len(s) + Len(t) : (s \o t)[k] = IF k <= Len(s) THEN s[k] ELSE t[k - Len(s)]
  BY <1>2, <1>3, ConcatProperties
<1>5. ASSUME NEW k \in 1 .. Len(s \o t)
      PROVE  (s \o t)[k] = IF k <= b - a + 1 THEN q[a + k - 1] ELSE q[c + (k - (b - a + 1)) - 1]
  <2>1. CASE k <= b - a + 1
    <3>1. (s \o t)[k] = s[k] /\ k \in 1 .. b - a + 1
      BY <1>2, <1>3, <1>4, <2>1
    <3> QED
      BY <1>2, <2>1, <3>1
  <2>2. CASE ~(k <= b - a + 1)
    <3>1. (s \o t)[k] = t[k - Len(s)] /\ k - Len(s) \in 1 .. d - c + 1
      BY <1>1, <1>2, <1>3, <1>4, <2>2, SMTT(30)
    <3> QED
      BY <1>2, <1>3, <2>2, <3>1
  <2> QED
    BY <2>1, <2>2
<1> QED
  BY <1>2, <1>3, <1>4, <1>5 DEF s, t

\* Without leaves out one place.
LEMMA WithoutDrops ==
    ASSUME NEW q \in Seq(Recs), NEW n \in 1 .. Len(q) PROVE Drops(q, Without(q, n), n)
<1> DEFINE r == Without(q, n)
           f == [a \in 1 .. Len(q) - 1 |-> IF a < n THEN a ELSE a + 1]
<1>0. Len(q) \in Nat /\ n \in Nat
  OBVIOUS
<1>1. /\ r \in Seq(Recs) /\ Len(r) = Len(q) - 1
      /\ \A k \in 1 .. Len(q) - 1 : r[k] = IF k < n THEN q[k] ELSE q[k + 1]
  <2>1. /\ 1 \in 1 .. Len(q) + 1 /\ n - 1 \in 0 .. Len(q) /\ 1 <= (n - 1) + 1
        /\ n + 1 \in 1 .. Len(q) + 1 /\ Len(q) \in 0 .. Len(q) /\ n + 1 <= Len(q) + 1
    BY <1>0
  <2>2. /\ r \in Seq(Recs) /\ Len(r) = ((n - 1) - 1 + 1) + (Len(q) - (n + 1) + 1)
        /\ \A k \in 1 .. Len(r) : r[k] = IF k <= (n - 1) - 1 + 1 THEN q[1 + k - 1]
                                         ELSE q[(n + 1) + (k - ((n - 1) - 1 + 1)) - 1]
    BY <2>1, Cat, ZenonT(40) DEF Without
  <2>3. Len(r) = Len(q) - 1
    BY <1>0, <2>2
  <2>4. ASSUME NEW k \in 1 .. Len(q) - 1 PROVE r[k] = IF k < n THEN q[k] ELSE q[k + 1]
    <3>1. k \in 1 .. Len(r) /\ k \in Int
      BY <2>3
    <3>2. 1 + k - 1 = k /\ (n + 1) + (k - ((n - 1) - 1 + 1)) - 1 = k + 1
      BY <1>0, <3>1
    <3>3. k <= (n - 1) - 1 + 1 <=> k < n
      BY <1>0, <3>1
    <3> HIDE DEF r
    <3> QED
      BY <2>2, <3>1, <3>2, <3>3
  <2> QED
    BY <2>2, <2>3, <2>4
<1> HIDE DEF r
<1>2. f \in [1 .. Len(q) - 1 -> 1 .. Len(q)]
  BY <1>0
<1>3. \A a \in 1 .. Len(q) - 1 : f[a] # n /\ r[a] = q[f[a]]
  BY <1>0, <1>1
<1>4. \A a, b \in 1 .. Len(q) - 1 : f[a] = f[b] => a = b
  BY <1>0
<1>5. \A b \in 1 .. Len(q) : b # n => \E a \in 1 .. Len(q) - 1 : f[a] = b
  <2> SUFFICES ASSUME NEW b \in 1 .. Len(q), b # n PROVE \E a \in 1 .. Len(q) - 1 : f[a] = b
    OBVIOUS
  <2>1. CASE b < n
    <3>1. b \in 1 .. Len(q) - 1 /\ f[b] = b
      BY <1>0, <2>1
    <3> QED
      BY <3>1
  <2>2. CASE b > n
    <3>1. b - 1 \in 1 .. Len(q) - 1 /\ f[b - 1] = b
      BY <1>0, <2>2
    <3> QED
      BY <3>1
  <2> QED
    BY <1>0, <2>1, <2>2
<1> HIDE DEF f
<1> QED
  BY <1>1, <1>2, <1>3, <1>4, <1>5, DropsBy DEF r

\* Tail leaves out the first place.
LEMMA TailDrops ==
    ASSUME NEW q \in Seq(Recs), q # << >> PROVE Drops(q, Tail(q), 1)
<1> DEFINE f == [a \in 1 .. Len(q) - 1 |-> a + 1]
<1>0. Len(q) \in Nat /\ 1 \in 1 .. Len(q)
  OBVIOUS
<1>1. /\ Tail(q) \in Seq(Recs) /\ Len(Tail(q)) = Len(q) - 1
      /\ \A k \in 1 .. Len(q) - 1 : Tail(q)[k] = q[k + 1]
  OBVIOUS
<1>2. f \in [1 .. Len(q) - 1 -> 1 .. Len(q)]
  BY <1>0
<1>3. \A a \in 1 .. Len(q) - 1 : f[a] # 1 /\ Tail(q)[a] = q[f[a]]
  BY <1>0, <1>1
<1>4. \A a, b \in 1 .. Len(q) - 1 : f[a] = f[b] => a = b
  BY <1>0
<1>5. \A b \in 1 .. Len(q) : b # 1 => \E a \in 1 .. Len(q) - 1 : f[a] = b
  <2> SUFFICES ASSUME NEW b \in 1 .. Len(q), b # 1 PROVE \E a \in 1 .. Len(q) - 1 : f[a] = b
    OBVIOUS
  <2>1. b - 1 \in 1 .. Len(q) - 1 /\ f[b - 1] = b
    BY <1>0
  <2> QED
    BY <2>1
<1> HIDE DEF f
<1> QED
  BY <1>0, <1>1, <1>2, <1>3, <1>4, <1>5, DropsBy, ZenonT(40)

\* The places behind n, then the ones before it.
LEMMA TurnDrops ==
    ASSUME NEW q \in Seq(Recs), NEW n \in 1 .. Len(q)
    PROVE  Drops(q, SubSeq(q, n + 1, Len(q)) \o SubSeq(q, 1, n - 1), n)
<1> DEFINE r == SubSeq(q, n + 1, Len(q)) \o SubSeq(q, 1, n - 1)
           f == [a \in 1 .. Len(q) - 1 |-> IF a <= Len(q) - n THEN n + a ELSE a - (Len(q) - n)]
<1>0. Len(q) \in Nat /\ n \in Nat
  OBVIOUS
<1>1. /\ r \in Seq(Recs) /\ Len(r) = Len(q) - 1
      /\ \A k \in 1 .. Len(q) - 1 : r[k] = IF k <= Len(q) - n THEN q[n + k] ELSE q[k - (Len(q) - n)]
  <2>1. /\ 1 \in 1 .. Len(q) + 1 /\ n - 1 \in 0 .. Len(q) /\ 1 <= (n - 1) + 1
        /\ n + 1 \in 1 .. Len(q) + 1 /\ Len(q) \in 0 .. Len(q) /\ n + 1 <= Len(q) + 1
    BY <1>0
  <2>2. /\ r \in Seq(Recs) /\ Len(r) = (Len(q) - (n + 1) + 1) + ((n - 1) - 1 + 1)
        /\ \A k \in 1 .. Len(r) : r[k] = IF k <= Len(q) - (n + 1) + 1 THEN q[(n + 1) + k - 1]
                                         ELSE q[1 + (k - (Len(q) - (n + 1) + 1)) - 1]
    BY <2>1, Cat, ZenonT(40)
  <2> HIDE DEF r
  <2>3. Len(r) = Len(q) - 1
    BY <1>0, <2>2
  <2>4. ASSUME NEW k \in 1 .. Len(q) - 1
        PROVE  r[k] = IF k <= Len(q) - n THEN q[n + k] ELSE q[k - (Len(q) - n)]
    <3>1. k \in 1 .. Len(r) /\ k \in Int
      BY <2>3
    <3>2. (n + 1) + k - 1 = n + k /\ 1 + (k - (Len(q) - (n + 1) + 1)) - 1 = k - (Len(q) - n)
      BY <1>0, <3>1
    <3>3. k <= Len(q) - (n + 1) + 1 <=> k <= Len(q) - n
      BY <1>0, <3>1
    <3> QED
      BY <2>2, <3>1, <3>2, <3>3
  <2> QED
    BY <2>2, <2>3, <2>4
<1> HIDE DEF r
<1>2. f \in [1 .. Len(q) - 1 -> 1 .. Len(q)]
  BY <1>0
<1>3. \A a \in 1 .. Len(q) - 1 : f[a] # n /\ r[a] = q[f[a]]
  BY <1>0, <1>1
<1>4. \A a, b \in 1 .. Len(q) - 1 : f[a] = f[b] => a = b
  BY <1>0
<1>5. \A b \in 1 .. Len(q) : b # n => \E a \in 1 .. Len(q) - 1 : f[a] = b
  <2> SUFFICES ASSUME NEW b \in 1 .. Len(q), b # n PROVE \E a \in 1 .. Len(q) - 1 : f[a] = b
    OBVIOUS
  <2>1. CASE b > n
    <3>1. b - n \in 1 .. Len(q) - 1 /\ f[b - n] = b
      BY <1>0, <2>1
    <3> QED
      BY <3>1
  <2>2. CASE b < n
    <3>1. b + (Len(q) - n) \in 1 .. Len(q) - 1 /\ f[b + (Len(q) - n)] = b
      BY <1>0, <2>2
    <3> QED
      BY <3>1
  <2> QED
    BY <1>0, <2>1, <2>2
<1> HIDE DEF f
<1> QED
  BY <1>1, <1>2, <1>3, <1>4, <1>5, DropsBy DEF r

-----------------------------------------------------------------------------
(* The policies                                                            *)

\* The fields of a state.
LEMMA StateIs ==
    ASSUME NEW s \in State
    PROVE  /\ s.pages \in [Recs -> Record] /\ s.q \in Seq(Recs) /\ s.offq \in Seq(Nat)
           /\ s.top \in Nat /\ s.paged \in Int /\ s.pte \in [Pages -> SUBSET {"A", "W", "PG"}]
           /\ s.swapFile \in Seq(Int) /\ s.broken \in BOOLEAN
           /\ s = [pages |-> s.pages, q |-> s.q, offq |-> s.offq, top |-> s.top, paged |-> s.paged,
                   pte |-> s.pte, swapFile |-> s.swapFile, broken |-> s.broken]
  BY DEF State

\* t is s with another queue and page table.
Requeued(t, s) ==
    /\ t \in State /\ t.pages = s.pages /\ t.offq = s.offq /\ t.top = s.top
    /\ t.paged = s.paged /\ t.swapFile = s.swapFile /\ t.broken = s.broken

\* Another queue changes nothing else.
LEMMA Requeue ==
    ASSUME NEW s \in State, NEW r \in Seq(Recs)
    PROVE  /\ Requeued([s EXCEPT !.q = r], s)
           /\ [s EXCEPT !.q = r].q = r /\ [s EXCEPT !.q = r].pte = s.pte
<1>1. Requeued([s EXCEPT !.q = r], s)
  BY DEF State, Requeued
<1> QED
  BY <1>1 DEF State

\* What is in the queue has an age and a page.
LEMMA InQueue ==
    ASSUME NEW s \in State, NEW n \in DOMAIN s.q
    PROVE  /\ s.q[n] \in Recs /\ s.pages[s.q[n]] \in Record
           /\ AgeOf(s, n) \in Nat /\ s.pages[s.q[n]].va \in Nat
<1>1. s.q[n] \in Recs /\ s.pages \in [Recs -> Record]
  BY StateIs
<1>2. s.pages[s.q[n]] \in Record
  BY <1>1
<1> QED
  BY <1>1, <1>2 DEF AgeOf, Record

\* The page at place n may go.
Fair(s, n) ==
    CASE policy = "SCFIFO" -> ~Accessed(s, n) \/ \A k \in DOMAIN s.q : Accessed(s, k)
      [] policy = "NFUA" -> \A k \in DOMAIN s.q : AgeOf(s, n) <= AgeOf(s, k)
      [] policy = "LAPA" -> \A k \in DOMAIN s.q : BitsOf(AgeOf(s, n)) <= BitsOf(AgeOf(s, k))
      [] policy = "AQ" -> n = 1

\* selectSCFIFO: an accessed page only when all are.
LEMMA SCFIFOPicks ==
    ASSUME NEW s \in State, s.q # << >>
    PROVE  /\ SCFIFO(s) \in 1 .. Len(s.q)
           /\ ~Accessed(s, SCFIFO(s)) \/ \A k \in DOMAIN s.q : Accessed(s, k)
<1> DEFINE old == {n \in DOMAIN s.q : ~Accessed(s, n)}
<1>1. DOMAIN s.q = 1 .. Len(s.q) /\ Len(s.q) \in Nat /\ Len(s.q) # 0
  BY StateIs
<1>2. CASE old = {}
  <2>1. SCFIFO(s) = 1
    BY <1>2 DEF SCFIFO
  <2>2. \A k \in DOMAIN s.q : Accessed(s, k)
    BY <1>2
  <2> QED
    BY <1>1, <2>1, <2>2
<1>3. CASE old # {}
  <2>1. SCFIFO(s) = Lowest(old)
    BY <1>3 DEF SCFIFO
  <2>2. Lowest(old) \in old
    <3>1. old \subseteq Nat
      BY <1>1
    <3> HIDE DEF old
    <3> QED
      BY <1>3, <3>1, LowestIn
  <2> QED
    BY <1>1, <2>1, <2>2
<1> QED
  BY <1>2, <1>3

\* selectNFUA: a page of the smallest age.
LEMMA NFUAPicks ==
    ASSUME NEW s \in State, s.q # << >>
    PROVE  NFUA(s) \in 1 .. Len(s.q) /\ \A k \in DOMAIN s.q : AgeOf(s, NFUA(s)) <= AgeOf(s, k)
<1> DEFINE ages == {AgeOf(s, n) : n \in DOMAIN s.q}
           least == {n \in DOMAIN s.q : \A k \in DOMAIN s.q : AgeOf(s, n) <= AgeOf(s, k)}
<1>1. DOMAIN s.q = 1 .. Len(s.q) /\ Len(s.q) \in Nat /\ Len(s.q) # 0
  BY StateIs
<1>2. ages \subseteq Nat /\ ages # {}
  <2>1. \A n \in DOMAIN s.q : AgeOf(s, n) \in Nat
    BY InQueue
  <2>2. 1 \in DOMAIN s.q
    BY <1>1
  <2> QED
    BY <2>1, <2>2
<1>3. \E x \in ages : \A y \in ages : x <= y
  <2> HIDE DEF ages
  <2> QED
    BY <1>2, HasLeast
<1>4. least # {} /\ least \subseteq Nat
  BY <1>1, <1>3
<1>5. Lowest(least) \in least
  <2> HIDE DEF least
  <2> QED
    BY <1>4, LowestIn
<1>6. NFUA(s) = Lowest(least)
  BY DEF NFUA
<1> QED
  BY <1>1, <1>5, <1>6

\* An age, as a signed number and by its bits.
LEMMA AgesAreNumbers ==
    ASSUME NEW a \in Nat
    PROVE  BitsOf(a) \in Nat /\ Signed(a) \in Int /\ Signed(a) + 2^AgeBits \in Nat
<1>1. BitsOf(a) \in Nat
  <2> DEFINE S == {k \in 0 .. AgeBits - 1 : (a \div 2^k) % 2 = 1}
  <2>1. IsFiniteSet(0 .. AgeBits - 1) /\ S \in SUBSET (0 .. AgeBits - 1)
    BY PagingAssumption, FS_Interval
  <2>2. IsFiniteSet(S)
    <3> HIDE DEF S
    <3> QED
      BY <2>1, FS_Subset
  <2>3. Cardinality(S) \in Nat
    <3> HIDE DEF S
    <3> QED
      BY <2>2, FS_CardinalityType
  <2> QED
    BY <2>3 DEF BitsOf
<1>2. 2^AgeBits \in Nat
  BY PagingAssumption
<1> QED
  BY <1>1, <1>2 DEF Signed

\* selectLAPA: a page with the fewest bits in its age.
LEMMA LAPAPicks ==
    ASSUME NEW s \in State, s.q # << >>
    PROVE  /\ LAPA(s) \in 1 .. Len(s.q)
           /\ \A k \in DOMAIN s.q : BitsOf(AgeOf(s, LAPA(s))) <= BitsOf(AgeOf(s, k))
<1> DEFINE D == DOMAIN s.q
           B(n) == BitsOf(AgeOf(s, n))
           G(n) == Signed(AgeOf(s, n))
           bits == {B(n) : n \in D}
<1>1. D = 1 .. Len(s.q) /\ Len(s.q) \in Nat /\ Len(s.q) # 0
  BY StateIs
<1>2. \A n \in D : B(n) \in Nat /\ G(n) \in Int /\ G(n) + 2^AgeBits \in Nat
  BY InQueue, AgesAreNumbers
<1> HIDE DEF D, B, G
<1>3. \E n \in D : \A k \in D : B(n) <= B(k)
  <2>1. bits \subseteq Nat /\ bits # {}
    BY <1>1, <1>2
  <2>2. \E x \in bits : \A y \in bits : x <= y
    <3> HIDE DEF bits
    <3> QED
      BY <2>1, HasLeast
  <2> QED
    BY <2>2
<1>4. PICK m \in D : \A k \in D : B(m) <= B(k)
  BY <1>3
<1> DEFINE E == {n \in D : B(n) = B(m)}
           keys == {G(n) + 2^AgeBits : n \in E}
<1>5. \E n \in E : \A k \in E : G(n) + 2^AgeBits <= G(k) + 2^AgeBits
  <2>1. keys \subseteq Nat /\ keys # {}
    BY <1>2, <1>4
  <2>2. \E x \in keys : \A y \in keys : x <= y
    <3> HIDE DEF keys
    <3> QED
      BY <2>1, HasLeast
  <2> HIDE DEF E
  <2> QED
    BY <2>2
<1>6. PICK n \in E : \A k \in E : G(n) + 2^AgeBits <= G(k) + 2^AgeBits
  BY <1>5
<1> DEFINE least == {i \in D : \A k \in D : B(i) < B(k) \/ (B(i) = B(k) /\ G(i) <= G(k))}
<1>7. n \in least
  <2>0. 2^AgeBits \in Int
    BY PagingAssumption
  <2> SUFFICES ASSUME NEW k \in D PROVE B(n) < B(k) \/ (B(n) = B(k) /\ G(n) <= G(k))
    BY <1>6
  <2>1. n \in D /\ B(n) = B(m) /\ B(m) <= B(k) /\ B(m) \in Nat /\ B(k) \in Nat
    BY <1>2, <1>4, <1>6
  <2>2. CASE B(k) = B(m)
    <3>1. k \in E
      BY <2>2
    <3>2. G(n) + 2^AgeBits <= G(k) + 2^AgeBits /\ G(n) \in Int /\ G(k) \in Int
      BY <1>2, <1>6, <2>1, <3>1
    <3>3. G(n) <= G(k)
      BY <2>0, <3>2
    <3> QED
      BY <2>1, <2>2, <3>3
  <2>3. CASE B(k) # B(m)
    BY <2>1, <2>3
  <2> QED
    BY <2>2, <2>3
<1>8. least \subseteq Nat
  BY <1>1
<1>9. Lowest(least) \in least
  <2> HIDE DEF least
  <2> QED
    BY <1>7, <1>8, LowestIn
<1>10. LAPA(s) = Lowest(least)
  BY DEF LAPA, B, G, D
<1>11. \A k \in D : B(LAPA(s)) <= B(k)
  <2> TAKE k \in D
  <2>1. LAPA(s) \in D /\ (B(LAPA(s)) < B(k) \/ B(LAPA(s)) = B(k))
    BY <1>9, <1>10
  <2> QED
    BY <1>2, <2>1
<1> QED
  BY <1>1, <1>9, <1>10, <1>11 DEF B, D

\* Whichever the policy, one page goes, and a fair one.
LEMMA Selects ==
    ASSUME NEW s \in State, s.q # << >>, policy \in {"SCFIFO", "NFUA", "LAPA", "AQ"}
    PROVE  \E n \in 1 .. Len(s.q) :
              /\ selectPage(s).rec = s.q[n] /\ Requeued(selectPage(s).s, s)
              /\ Drops(s.q, selectPage(s).s.q, n) /\ Fair(s, n)
              /\ \A x \in Pages : selectPage(s).s.pte[x] = s.pte[x]
                                  \/ selectPage(s).s.pte[x] = s.pte[x] \ {"A"}
<1>0. s.q \in Seq(Recs) /\ s.pte \in [Pages -> SUBSET {"A", "W", "PG"}]
  BY StateIs
<1> DEFINE Goal(n) ==
             /\ selectPage(s).rec = s.q[n] /\ Requeued(selectPage(s).s, s)
             /\ Drops(s.q, selectPage(s).s.q, n) /\ Fair(s, n)
             /\ \A x \in Pages : selectPage(s).s.pte[x] = s.pte[x]
                                 \/ selectPage(s).s.pte[x] = s.pte[x] \ {"A"}
<1>1. ASSUME NEW n \in 1 .. Len(s.q), NEW r, selectPage(s).rec = s.q[n], Fair(s, n),
             selectPage(s).s = [s EXCEPT !.q = r], Drops(s.q, r, n)
      PROVE  Goal(n)
  <2>1. r \in Seq(Recs)
    BY <1>1 DEF Drops
  <2>2. /\ Requeued([s EXCEPT !.q = r], s)
        /\ [s EXCEPT !.q = r].q = r /\ [s EXCEPT !.q = r].pte = s.pte
    BY <1>0, <2>1, Requeue
  <2>3. /\ Requeued(selectPage(s).s, s)
        /\ selectPage(s).s.q = r /\ selectPage(s).s.pte = s.pte
    BY <1>1, <2>2, Zenon
  <2> QED
    BY <1>1, <2>3, Zenon
<1>2. CASE policy = "NFUA"
  <2>1. selectPage(s) = [rec |-> s.q[NFUA(s)], s |-> [s EXCEPT !.q = Without(s.q, NFUA(s))],
                         wild |-> ~Full(s)]
    BY <1>2 DEF selectPage
  <2>2. NFUA(s) \in 1 .. Len(s.q) /\ Fair(s, NFUA(s))
    BY <1>2, NFUAPicks DEF Fair
  <2>3. Drops(s.q, Without(s.q, NFUA(s)), NFUA(s))
    BY <1>0, <2>2, WithoutDrops
  <2> QED
    BY <1>1, <2>1, <2>2, <2>3
<1>3. CASE policy = "LAPA"
  <2>1. selectPage(s) = [rec |-> s.q[LAPA(s)], s |-> [s EXCEPT !.q = Without(s.q, LAPA(s))],
                         wild |-> ~Full(s)]
    BY <1>3 DEF selectPage
  <2>2. LAPA(s) \in 1 .. Len(s.q) /\ Fair(s, LAPA(s))
    BY <1>3, LAPAPicks DEF Fair
  <2>3. Drops(s.q, Without(s.q, LAPA(s)), LAPA(s))
    BY <1>0, <2>2, WithoutDrops
  <2> QED
    BY <1>1, <2>1, <2>2, <2>3
<1>4. CASE policy = "AQ"
  <2>1. selectPage(s) = [rec |-> Head(s.q), s |-> [s EXCEPT !.q = Tail(s.q)], wild |-> FALSE]
    BY <1>4 DEF selectPage
  <2>2. 1 \in 1 .. Len(s.q) /\ Head(s.q) = s.q[1] /\ Fair(s, 1)
    BY <1>0, <1>4 DEF Fair
  <2>3. Drops(s.q, Tail(s.q), 1)
    BY <1>0, TailDrops
  <2>4. selectPage(s).rec = s.q[1] /\ selectPage(s).s = [s EXCEPT !.q = Tail(s.q)]
    BY <2>1, <2>2
  <2>5. Goal(1)
    BY <1>1, <2>2, <2>3, <2>4, Zenon
  <2> QED
    BY <2>2, <2>5
<1>6. ASSUME NEW r \in Seq(Recs), NEW p \in [Pages -> SUBSET {"A", "W", "PG"}],
             selectPage(s).s = [s EXCEPT !.q = r, !.pte = p]
      PROVE  /\ Requeued(selectPage(s).s, s)
             /\ selectPage(s).s.q = r /\ selectPage(s).s.pte = p
  <2>1. Requeued([s EXCEPT !.q = r, !.pte = p], s)
    BY DEF State, Requeued
  <2>2. [s EXCEPT !.q = r, !.pte = p].q = r /\ [s EXCEPT !.q = r, !.pte = p].pte = p
    BY DEF State
  <2> QED
    BY <1>6, <2>1, <2>2, Zenon
<1>5. CASE policy = "SCFIFO"
  <2> DEFINE all == \A k \in DOMAIN s.q : Accessed(s, k)
             passed == IF all THEN DOMAIN s.q ELSE 1 .. SCFIFO(s) - 1
             n == IF all THEN 1 ELSE SCFIFO(s)
             r == IF all THEN Tail(s.q)
                  ELSE SubSeq(s.q, SCFIFO(s) + 1, Len(s.q)) \o SubSeq(s.q, 1, SCFIFO(s) - 1)
             p == [v \in Pages |-> IF \E k \in passed : s.pages[s.q[k]].va = v
                                   THEN s.pte[v] \ {"A"} ELSE s.pte[v]]
  <2>1. selectPage(s).rec = s.q[SCFIFO(s)] /\ selectPage(s).s = removeSCFIFO(s)
    BY <1>5 DEF selectPage
  <2>2. removeSCFIFO(s) = [s EXCEPT !.q = r, !.pte = p]
    BY DEF removeSCFIFO
  <2>3. /\ p \in [Pages -> SUBSET {"A", "W", "PG"}]
        /\ \A x \in Pages : p[x] = s.pte[x] \/ p[x] = s.pte[x] \ {"A"}
    <3> HIDE DEF passed
    <3>1. \A v \in Pages : s.pte[v] \in SUBSET {"A", "W", "PG"}
      BY <1>0
    <3>2. \A v \in Pages : p[v] = s.pte[v] \/ p[v] = s.pte[v] \ {"A"}
      OBVIOUS
    <3>3. p \in [Pages -> SUBSET {"A", "W", "PG"}]
      BY <3>1
    <3> QED
      BY <3>2, <3>3
  <2>4. SCFIFO(s) = n /\ n \in 1 .. Len(s.q)
    <3>1. CASE all
      <4>1. {k \in DOMAIN s.q : ~Accessed(s, k)} = {}
        BY <3>1
      <4> QED
        BY <1>0, <3>1, <4>1 DEF SCFIFO
    <3>2. CASE ~all
      BY <3>2, SCFIFOPicks
    <3> QED
      BY <3>1, <3>2
  <2>5. Drops(s.q, r, n)
    <3>1. CASE all
      BY <1>0, <3>1, TailDrops
    <3>2. CASE ~all
      BY <1>0, <2>4, <3>2, TurnDrops
    <3> QED
      BY <3>1, <3>2
  <2>6. Fair(s, n)
    BY <1>5, <2>4, SCFIFOPicks DEF Fair
  <2> HIDE DEF n, r, p
  <2>7. r \in Seq(Recs)
    BY <2>5 DEF Drops
  <2>9. /\ Requeued(selectPage(s).s, s)
        /\ selectPage(s).s.q = r /\ selectPage(s).s.pte = p
    <3>1. selectPage(s).s = [s EXCEPT !.q = r, !.pte = p]
      BY <2>1, <2>2
    <3>2. p \in [Pages -> SUBSET {"A", "W", "PG"}]
      BY <2>3
    <3> QED
      BY <1>6, <2>7, <3>1, <3>2
  <2>10. Goal(n)
    BY <2>1, <2>3, <2>4, <2>5, <2>6, <2>9, Zenon
  <2> QED
    BY <2>4, <2>10
<1> QED
  BY <1>2, <1>3, <1>4, <1>5

-----------------------------------------------------------------------------
(* How many pages there are.                                               *)

\* What corresponds one to one has one size.
LEMMA OneToOne ==
    ASSUME NEW S, NEW T, NEW f \in [S -> T], IsFiniteSet(S),
           \A x, y \in S : f[x] = f[y] => x = y,
           \A y \in T : \E x \in S : f[x] = y
    PROVE  IsFiniteSet(T) /\ Cardinality(T) = Cardinality(S)
<1>1. f \in Injection(S, T)
  BY DEF Injection, IsInjective
<1>2. f \in Surjection(S, T)
  BY DEF Surjection
<1> QED
  BY <1>1, <1>2, FS_Surjection

\* The records in use are as many as the pages.
LEMMA Sizes ==
    ASSUME NEW s \in State, NEW n \in Nat, Owned(s, n)
    PROVE  LET used == {i \in Recs : s.pages[i].alloc}
           IN  /\ IsFiniteSet(used) /\ Cardinality(used) = n
               /\ n <= MAX_TOTAL_PAGES /\ (used # Recs => n < MAX_TOTAL_PAGES)
<1> DEFINE used == {i \in Recs : s.pages[i].alloc}
           f == [i \in used |-> s.pages[i].va]
<1>1. IsFiniteSet(Recs) /\ Cardinality(Recs) = MAX_TOTAL_PAGES
  BY PagingAssumption, FS_Interval DEF Recs
<1>2. IsFiniteSet(used) /\ Cardinality(used) <= MAX_TOTAL_PAGES
      /\ (Cardinality(used) = MAX_TOTAL_PAGES => used = Recs)
  <2>1. used \in SUBSET Recs
    OBVIOUS
  <2> HIDE DEF used
  <2> QED
    BY <1>1, <2>1, FS_Subset
<1>3. \A i \in Recs : s.pages[i].va \in Nat
  BY StateIs DEF Record
<1>4. f \in [used -> 0 .. n - 1]
  BY <1>3 DEF Owned
<1>5. \A x, y \in used : f[x] = f[y] => x = y
  BY DEF Owned
<1>6. \A y \in 0 .. n - 1 : \E x \in used : f[x] = y
  BY DEF Owned
<1>7. Cardinality(0 .. n - 1) = n
  BY FS_Interval
<1>8. Cardinality(used) = n
  <2> DEFINE T == 0 .. n - 1
  <2>1. /\ IsFiniteSet(used) /\ f \in [used -> T] /\ \A y \in T : \E x \in used : f[x] = y
        /\ \A x, y \in used : f[x] = f[y] => x = y
    BY <1>2, <1>4, <1>5, <1>6
  <2>2. Cardinality(T) = n
    BY <1>7
  <2> HIDE DEF used, f, T
  <2>3. Cardinality(T) = Cardinality(used)
    BY <2>1, OneToOne
  <2> QED
    BY <2>2, <2>3
<1> HIDE DEF used
<1>9. MAX_TOTAL_PAGES \in Nat
  BY PagingAssumption
<1> QED
  BY <1>2, <1>8, <1>9 DEF used

-----------------------------------------------------------------------------
(* Slots                                                                   *)

\* Only these fields matter to the slots.
LEMMA SlotsSame ==
    ASSUME NEW s, NEW t, NEW K, SlotsBut(s, K), t.offq = s.offq, t.top = s.top,
           t.swapFile = s.swapFile, t.pages = s.pages
    PROVE  SlotsBut(t, K)
<1>1. \A i \in Recs : Out(t, i) <=> Out(s, i)
  BY DEF Out
<1> QED
  BY <1>1 DEF SlotsBut

\* A slot to write to: the first free one, or one more.
LEMMA GetsOffset ==
    ASSUME NEW s \in State, SlotsBut(s, {})
    PROVE  LET f == getFreeFileOffset(s)
           IN  /\ f.off \in Nat /\ f.s \in State
               /\ f.s.pages = s.pages /\ f.s.q = s.q /\ f.s.paged = s.paged /\ f.s.pte = s.pte
               /\ f.s.swapFile = s.swapFile /\ f.s.broken = s.broken
               /\ SlotsBut(f.s, {f.off})
<1> DEFINE f == getFreeFileOffset(s)
<1>0. /\ s.pages \in [Recs -> Record] /\ s.offq \in Seq(Nat) /\ s.top \in Nat
      /\ \A i \in Recs : s.pages[i].off \in Int
  BY StateIs DEF Record
<1>1. CASE s.offq # << >>
  <2> DEFINE t == [s EXCEPT !.offq = Tail(s.offq)]
             o == Head(s.offq)
  <2>1. f = [off |-> o, s |-> t]
    BY <1>1 DEF getFreeFileOffset
  <2>2. /\ t \in State /\ t.offq = Tail(s.offq) /\ t.top = s.top
        /\ t.pages = s.pages /\ t.q = s.q /\ t.paged = s.paged /\ t.pte = s.pte
        /\ t.swapFile = s.swapFile /\ t.broken = s.broken
    <3>1. Tail(s.offq) \in Seq(Nat)
      BY <1>0, <1>1
    <3>2. t \in State
      BY <3>1 DEF State
    <3> QED
      BY <3>2 DEF State
  <2> HIDE DEF t
  <2>3. /\ o = s.offq[1] /\ 1 \in DOMAIN s.offq /\ DOMAIN s.offq = 1 .. Len(s.offq)
        /\ DOMAIN t.offq = 1 .. Len(s.offq) - 1 /\ Len(s.offq) \in Nat
        /\ \A a \in DOMAIN t.offq : a + 1 \in DOMAIN s.offq /\ t.offq[a] = s.offq[a + 1]
    BY <1>0, <1>1, <2>2
  <2>4. o \in Nat
    BY <1>0, <2>3
  <2>5. SlotsBut(t, {o})
    <3>1. \A i \in Recs : Out(t, i) <=> Out(s, i)
      BY <2>2 DEF Out
    <3>2. \A a \in DOMAIN t.offq : t.offq[a] # o
      <4>1. ASSUME NEW a \in DOMAIN t.offq PROVE t.offq[a] # o
        <5>1. a + 1 # 1 /\ a + 1 \in DOMAIN s.offq
          BY <2>3
        <5> QED
          BY <2>3, <5>1 DEF SlotsBut
      <4> QED
        BY <4>1
    <3>3. \A a, b \in DOMAIN t.offq : t.offq[a] = t.offq[b] => a = b
      <4> TAKE a, b \in DOMAIN t.offq
      <4>1. /\ a \in Int /\ b \in Int /\ a + 1 \in DOMAIN s.offq /\ b + 1 \in DOMAIN s.offq
            /\ t.offq[a] = s.offq[a + 1] /\ t.offq[b] = s.offq[b + 1]
        BY <2>3
      <4>2. t.offq[a] = t.offq[b] => a + 1 = b + 1
        BY <4>1 DEF SlotsBut
      <4> QED
        BY <4>1, <4>2
    <3>4. \A a \in DOMAIN t.offq : t.offq[a] < t.top /\ \A i \in Recs : Out(t, i) => t.pages[i].off # t.offq[a]
      BY <2>2, <2>3, <3>1 DEF SlotsBut
    <3>5. o \in 0 .. t.top - 1 /\ \A i \in Recs : Out(t, i) => t.pages[i].off # o
      BY <1>0, <2>2, <2>3, <2>4, <3>1, SMTT(30) DEF SlotsBut
    <3>6. ASSUME NEW k \in 0 .. t.top - 1, k # o
          PROVE  (\E i \in Recs : Out(t, i) /\ t.pages[i].off = k) \/ \E a \in DOMAIN t.offq : t.offq[a] = k
      <4>1. ASSUME NEW b \in DOMAIN s.offq, s.offq[b] = k PROVE \E a \in DOMAIN t.offq : t.offq[a] = k
        <5>1. b # 1
          BY <2>3, <3>6, <4>1
        <5>2. b - 1 \in DOMAIN t.offq /\ (b - 1) + 1 = b
          BY <2>3, <5>1
        <5>3. t.offq[b - 1] = k
          BY <2>3, <4>1, <5>2
        <5> QED
          BY <5>2, <5>3
      <4> QED
        BY <2>2, <3>1, <4>1 DEF SlotsBut
    <3>7. /\ \A i \in Recs : Out(t, i) =>
                /\ t.pages[i].off \in 0 .. t.top - 1
                /\ t.pages[i].off + 1 \in DOMAIN t.swapFile
                /\ t.swapFile[t.pages[i].off + 1] = t.pages[i].va
          /\ \A i, j \in Recs : Out(t, i) /\ Out(t, j) /\ t.pages[i].off = t.pages[j].off => i = j
      BY <2>2, <3>1 DEF SlotsBut
    <3> QED
      BY <3>2, <3>3, <3>4, <3>5, <3>6, <3>7 DEF SlotsBut
  <2> QED
    BY <2>1, <2>2, <2>4, <2>5
<1>2. CASE s.offq = << >>
  <2> DEFINE t == [s EXCEPT !.top = @ + 1]
             o == s.top
  <2>1. f = [off |-> o, s |-> t]
    BY <1>2 DEF getFreeFileOffset
  <2>2. /\ t \in State /\ t.offq = s.offq /\ t.top = s.top + 1
        /\ t.pages = s.pages /\ t.q = s.q /\ t.paged = s.paged /\ t.pte = s.pte
        /\ t.swapFile = s.swapFile /\ t.broken = s.broken
    <3>1. s.top + 1 \in Nat
      BY <1>0
    <3>2. t \in State
      BY <3>1 DEF State
    <3> QED
      BY <3>2 DEF State
  <2> HIDE DEF t
  <2>3. SlotsBut(t, {o})
    <3>1. \A i \in Recs : Out(t, i) <=> Out(s, i)
      BY <2>2 DEF Out
    <3>2. DOMAIN t.offq = {} /\ DOMAIN s.offq = {}
      BY <1>2, <2>2
    <3>3. /\ \A i \in Recs : Out(t, i) =>
                /\ t.pages[i].off \in 0 .. s.top - 1
                /\ t.pages[i].off + 1 \in DOMAIN t.swapFile
                /\ t.swapFile[t.pages[i].off + 1] = t.pages[i].va
          /\ \A i, j \in Recs : Out(t, i) /\ Out(t, j) /\ t.pages[i].off = t.pages[j].off => i = j
      BY <2>2, <3>1 DEF SlotsBut
    <3>4. \A i \in Recs : Out(t, i) => t.pages[i].off \in 0 .. t.top - 1 /\ t.pages[i].off # o
      BY <1>0, <2>2, <3>3
    <3>5. \A k \in 0 .. t.top - 1 : k = o \/ \E i \in Recs : Out(t, i) /\ t.pages[i].off = k
      <4>1. \A k \in 0 .. s.top - 1 : \E i \in Recs : Out(t, i) /\ t.pages[i].off = k
        BY <2>2, <3>1, <3>2 DEF SlotsBut
      <4>2. \A k \in 0 .. t.top - 1 : k = o \/ k \in 0 .. s.top - 1
        BY <1>0, <2>2
      <4> QED
        BY <4>1, <4>2
    <3>6. o \in 0 .. t.top - 1
      BY <1>0, <2>2
    <3> QED
      BY <3>2, <3>3, <3>4, <3>5, <3>6 DEF SlotsBut
  <2> QED
    BY <1>0, <2>1, <2>2, <2>3
<1> QED
  BY <1>1, <1>2

\* Writing a page into the swap file, at most at its end.
LEMMA Writes ==
    ASSUME NEW F \in Seq(Int), NEW o \in 0 .. Len(F), NEW x \in Int
    PROVE  LET W == Written(F, o, x)
           IN  /\ W \in Seq(Int) /\ o + 1 \in DOMAIN W /\ W[o + 1] = x
               /\ \A k \in DOMAIN F : k \in DOMAIN W /\ (k # o + 1 => W[k] = F[k])
<1>0. Len(F) \in Nat /\ DOMAIN F = 1 .. Len(F)
  OBVIOUS
<1>1. CASE o = Len(F)
  <2>1. Written(F, o, x) = Append(F, x)
    BY <1>1 DEF Written
  <2> QED
    BY <1>0, <1>1, <2>1
<1>2. CASE o # Len(F)
  <2>1. Written(F, o, x) = [F EXCEPT ![o + 1] = x]
    BY <1>2 DEF Written
  <2>2. o \in Int /\ 0 <= o /\ o <= Len(F)
    BY <1>0
  <2>3. o + 1 \in 1 .. Len(F)
    <3> DEFINE l == Len(F)
    <3>1. l \in Nat /\ o <= l /\ o # l
      BY <1>0, <1>2, <2>2
    <3> HIDE DEF l
    <3>2. o + 1 \in 1 .. l
      BY <2>2, <3>1
    <3> QED
      BY <3>2, SMTT(30) DEF l
  <2> QED
    BY <1>0, <2>1, <2>3
<1> QED
  BY <1>1, <1>2

\* What swapToFile changes at the end.
PutOut(u, i, o, x) ==
    [u EXCEPT !.swapFile = Written(@, o, x), !.paged = @ + 1,
              !.pages[i].off = o, !.pages[i].ram = FALSE,
              !.pte[x] = @ \cup {"PG"}]

\* PutOut touches one record and one slot.
LEMMA Puts ==
    ASSUME NEW u \in State, NEW i \in Recs, NEW o \in Nat, NEW x \in Pages, o <= Len(u.swapFile)
    PROVE  LET t == PutOut(u, i, o, x)
           IN  /\ t \in State
               /\ t.q = u.q /\ t.offq = u.offq /\ t.top = u.top /\ t.broken = u.broken
               /\ t.swapFile = Written(u.swapFile, o, x)
               /\ t.pages[i].off = o /\ ~t.pages[i].ram
               /\ t.pages[i].va = u.pages[i].va /\ t.pages[i].alloc = u.pages[i].alloc
               /\ \A j \in Recs \ {i} : t.pages[j] = u.pages[j]
               /\ t.pte[x] = u.pte[x] \cup {"PG"}
               /\ \A y \in Pages \ {x} : t.pte[y] = u.pte[y]
<1> DEFINE W == Written(u.swapFile, o, x)
           P == [u.pages EXCEPT ![i] = [@ EXCEPT !.off = o, !.ram = FALSE]]
           T == [u.pte EXCEPT ![x] = @ \cup {"PG"}]
           t == PutOut(u, i, o, x)
<1>0. /\ u.pages \in [Recs -> Record] /\ u.pte \in [Pages -> SUBSET {"A", "W", "PG"}]
      /\ u.swapFile \in Seq(Int) /\ u.paged \in Int
  BY StateIs
<1>1. W \in Seq(Int)
  <2>1. o \in 0 .. Len(u.swapFile) /\ x \in Int
    BY <1>0, PagingAssumption DEF Pages
  <2> QED
    BY <1>0, <2>1, Writes
<1>2. P \in [Recs -> Record]
  <2>1. o \in Int
    OBVIOUS
  <2> QED
    BY <1>0, <2>1 DEF Record
<1>3. T \in [Pages -> SUBSET {"A", "W", "PG"}]
  <2>1. u.pte[x] \cup {"PG"} \in SUBSET {"A", "W", "PG"}
    BY <1>0
  <2> QED
    BY <1>0, <2>1
<1>4. t = [u EXCEPT !.swapFile = W, !.paged = u.paged + 1, !.pages = P, !.pte = T]
  <2>1. P = [u.pages EXCEPT ![i].off = o, ![i].ram = FALSE]
    BY <1>0
  <2> DEFINE Q == [u.pages EXCEPT ![i].off = o, ![i].ram = FALSE]
  <2>2. t = [u EXCEPT !.swapFile = W, !.paged = @ + 1, !.pages = Q, !.pte = T]
    BY DEF PutOut, State
  <2> HIDE DEF P, W, T, Q, t
  <2>3. t = [u EXCEPT !.swapFile = W, !.paged = u.paged + 1, !.pages = Q, !.pte = T]
    BY <2>2
  <2> QED
    BY <2>1, <2>3 DEF Q
<1>5. /\ P[i].off = o /\ ~P[i].ram /\ P[i].va = u.pages[i].va /\ P[i].alloc = u.pages[i].alloc
      /\ \A j \in Recs \ {i} : P[j] = u.pages[j]
      /\ T[x] = u.pte[x] \cup {"PG"} /\ \A y \in Pages \ {x} : T[y] = u.pte[y]
  BY <1>0 DEF Record
<1>6. u.paged + 1 \in Int
  BY <1>0
<1> HIDE DEF W, P, T, t
<1>7. [u EXCEPT !.swapFile = W, !.paged = u.paged + 1, !.pages = P, !.pte = T] \in State
  BY <1>1, <1>2, <1>3, <1>6 DEF State
<1>8. /\ t \in State /\ t.q = u.q /\ t.offq = u.offq /\ t.top = u.top /\ t.broken = u.broken
      /\ t.swapFile = W /\ t.pages = P /\ t.pte = T
  BY <1>4, <1>7 DEF State
<1> QED
  BY <1>5, <1>8 DEF W, t

\* swapToFile of s gave t: the record at place m went to the file.
GoesOut(s, t, m) ==
    /\ Fair(s, m) /\ In(s, s.q[m]) /\ Out(t, s.q[m])
    /\ t.pages[s.q[m]].va = s.pages[s.q[m]].va
    /\ \A i \in Recs \ {s.q[m]} : t.pages[i] = s.pages[i]
    /\ Len(t.q) = Len(s.q) - 1
    /\ \A x \in Pages : "PG" \in s.pte[x] => "PG" \in t.pte[x]

\* Nothing is said of t.
Broken(t) == t \in State /\ t.broken = TRUE

\* A broken state is one of which nothing is said.
LEMMA Breaks == ASSUME NEW s \in State PROVE Broken([s EXCEPT !.broken = TRUE])
<1>1. [s EXCEPT !.broken = TRUE] \in State
  BY DEF State
<1> QED
  BY <1>1 DEF State, Broken

\* One page of those in memory goes to the file, or the state is broken.
LEMMA Swaps ==
    ASSUME NEW s \in State, NEW n, Fine(s, n), policy \in Policies
    PROVE  \/ Broken(swapToFile(s))
           \/ Fine(swapToFile(s), n) /\ \E m \in DOMAIN s.q : GoesOut(s, swapToFile(s), m)
<1>0. Broken([s EXCEPT !.broken = TRUE])
  BY Breaks
<1>1. CASE s.q = << >>
  BY <1>0, <1>1 DEF swapToFile
<1> DEFINE v == selectPage(s)
           f == getFreeFileOffset(v.s)
           va == s.pages[v.rec].va
           t == [f.s EXCEPT !.swapFile = Written(@, f.off, va), !.paged = @ + 1,
                            !.pages[v.rec].off = f.off, !.pages[v.rec].ram = FALSE,
                            !.pte[va] = @ \cup {"PG"}]
<1>2. CASE s.q # << >> /\ (v.wild \/ f.off > Len(s.swapFile))
  BY <1>0, <1>2 DEF swapToFile
<1>3. CASE s.q # << >> /\ ~(v.wild \/ f.off > Len(s.swapFile))
  <2>1. swapToFile(s) = t
    BY <1>3 DEF swapToFile
  <2>2. PICK m \in 1 .. Len(s.q) :
           /\ v.rec = s.q[m] /\ Requeued(v.s, s)
           /\ Drops(s.q, v.s.q, m) /\ Fair(s, m)
           /\ \A x \in Pages : v.s.pte[x] = s.pte[x] \/ v.s.pte[x] = s.pte[x] \ {"A"}
    <3>1. policy \in {"SCFIFO", "NFUA", "LAPA", "AQ"}
      BY PagingAssumption
    <3> HIDE DEF v
    <3> QED
      BY <1>3, <3>1, Selects DEF v
  <2> DEFINE i == s.q[m]
             u == f.s
             o == f.off
  <2>3. /\ v.s \in State /\ v.s.pages = s.pages /\ v.s.offq = s.offq /\ v.s.top = s.top
        /\ v.s.swapFile = s.swapFile /\ v.s.broken = s.broken
    BY <2>2 DEF Requeued
  <2>4. SlotsBut(v.s, {})
    BY <2>3, SlotsSame DEF Fine
  <2>5. /\ o \in Nat /\ u \in State
        /\ u.pages = s.pages /\ u.q = v.s.q /\ u.pte = v.s.pte
        /\ u.swapFile = s.swapFile /\ u.broken = s.broken
        /\ SlotsBut(u, {o})
    <3> HIDE DEF v
    <3> QED
      BY <2>3, <2>4, GetsOffset
  <2>6. /\ s.q \in Seq(Recs) /\ DOMAIN s.q = 1 .. Len(s.q) /\ Len(s.q) \in Nat
        /\ s.pages \in [Recs -> Record] /\ s.swapFile \in Seq(Int)
    BY StateIs
  <2>7. i \in Recs /\ In(s, i) /\ m \in DOMAIN s.q
    BY <2>6 DEF Fine, Queue
  <2>8. va = s.pages[i].va /\ va \in Pages /\ \A j \in Recs : s.pages[j].va \in Nat
    <3>1. va = s.pages[i].va
      BY <2>2
    <3>2. \A j \in Recs : s.pages[j].va \in Nat
      BY <2>6 DEF Record
    <3>3. n \in Nat /\ n <= MAX_TOTAL_PAGES
      BY Sizes DEF Fine
    <3>4. s.pages[i].va < n
      BY <2>7 DEF Fine, Owned, In
    <3>5. MAX_TOTAL_PAGES \in Nat
      BY PagingAssumption
    <3> QED
      BY <2>7, <3>1, <3>2, <3>3, <3>4, <3>5 DEF Pages
  <2>9. o <= Len(u.swapFile)
    BY <1>3, <2>5, <2>6
  <2>10. t = PutOut(u, i, o, va)
    BY <2>2 DEF PutOut
  <2> HIDE DEF t, u, o, v, va, i, f
  <2>11. /\ t \in State
         /\ t.q = v.s.q /\ t.offq = u.offq /\ t.top = u.top /\ t.broken = s.broken
         /\ t.swapFile = Written(s.swapFile, o, va)
         /\ t.pages[i].off = o /\ ~t.pages[i].ram
         /\ t.pages[i].va = s.pages[i].va /\ t.pages[i].alloc = s.pages[i].alloc
         /\ \A j \in Recs \ {i} : t.pages[j] = s.pages[j]
         /\ t.pte[va] = v.s.pte[va] \cup {"PG"}
         /\ \A y \in Pages \ {va} : t.pte[y] = v.s.pte[y]
    <3>1. /\ t \in State
          /\ t.q = u.q /\ t.offq = u.offq /\ t.top = u.top /\ t.broken = u.broken
          /\ t.swapFile = Written(u.swapFile, o, va)
          /\ t.pages[i].off = o /\ ~t.pages[i].ram
          /\ t.pages[i].va = u.pages[i].va /\ t.pages[i].alloc = u.pages[i].alloc
          /\ \A j \in Recs \ {i} : t.pages[j] = u.pages[j]
          /\ t.pte[va] = u.pte[va] \cup {"PG"}
          /\ \A y \in Pages \ {va} : t.pte[y] = u.pte[y]
      BY <2>5, <2>7, <2>8, <2>9, <2>10, Puts, SMTT(30)
    <3> QED
      BY <2>5, <3>1
  <2>12. /\ \A j \in Recs : In(t, j) <=> In(s, j) /\ j # i
         /\ \A j \in Recs : Out(t, j) <=> Out(s, j) \/ j = i
    BY <2>7, <2>11 DEF In, Out
  <2>13. Queue(t)
    <3>1. /\ Len(t.q) = Len(s.q) - 1 /\ Len(s.q) <= MAX_PSYC_PAGES
          /\ \A a, b \in DOMAIN s.q : s.q[a] = s.q[b] => a = b
      BY <2>2, <2>11 DEF Drops, Fine, Queue
    <3>2. /\ \A a, b \in DOMAIN t.q : t.q[a] = t.q[b] => a = b
          /\ \A a \in DOMAIN t.q : \E b \in DOMAIN s.q : b # m /\ t.q[a] = s.q[b]
          /\ \A b \in DOMAIN s.q : b # m => \E a \in DOMAIN t.q : t.q[a] = s.q[b]
      BY <2>2, <2>11, <3>1 DEF Drops
    <3>3. \A j \in Recs : In(s, j) <=> \E a \in DOMAIN s.q : s.q[a] = j
      BY DEF Fine, Queue
    <3>4. \A b \in DOMAIN s.q : s.q[b] = i <=> b = m
      BY <2>7, <3>1 DEF i
    <3>5. \A j \in Recs : In(t, j) <=> \E a \in DOMAIN t.q : t.q[a] = j
      BY <2>12, <3>2, <3>3, <3>4
    <3>6. Len(t.q) <= MAX_PSYC_PAGES
      BY <2>6, <3>1, PagingAssumption
    <3> QED
      BY <3>2, <3>5, <3>6 DEF Queue
  <2>14. \A j \in Recs : t.pages[j].alloc = s.pages[j].alloc /\ t.pages[j].va = s.pages[j].va
    BY <2>11
  <2>15. Owned(t, n)
    BY <2>14 DEF Fine, Owned
  <2>16. \A x \in Pages : "PG" \in t.pte[x] <=> "PG" \in s.pte[x] \/ x = va
    BY <2>2, <2>8, <2>11
  <2>17. Marks(t)
    <3>1. ASSUME NEW j \in Recs, t.pages[j].alloc
          PROVE  "PG" \in t.pte[t.pages[j].va] <=> ~t.pages[j].ram
      <4>1. s.pages[j].alloc /\ t.pages[j].va = s.pages[j].va /\ s.pages[j].va \in Pages
        <5>1. s.pages[j].alloc /\ t.pages[j].va = s.pages[j].va
          BY <2>14, <3>1
        <5>2. s.pages[j].va < n /\ n \in Nat /\ n <= MAX_TOTAL_PAGES
          BY <5>1, Sizes DEF Fine, Owned
        <5> QED
          BY <2>8, <5>1, <5>2, PagingAssumption DEF Pages
      <4>2. s.pages[j].va = va <=> j = i
        BY <2>7, <2>8, <4>1 DEF Fine, Owned, In
      <4>3. "PG" \in s.pte[s.pages[j].va] <=> ~s.pages[j].ram
        BY <4>1 DEF Fine, Marks
      <4> QED
        BY <2>11, <2>16, <4>1, <4>2, <4>3
    <3> QED
      BY <3>1 DEF Marks
  <2>18. SlotsBut(t, {})
    <3>1. o \in 0 .. Len(s.swapFile) /\ va \in Int
      BY <2>5, <2>6, <2>8, <2>9, PagingAssumption DEF Pages
    <3>2. /\ o + 1 \in DOMAIN t.swapFile /\ t.swapFile[o + 1] = va
          /\ \A k \in DOMAIN s.swapFile :
                k \in DOMAIN t.swapFile /\ (k # o + 1 => t.swapFile[k] = s.swapFile[k])
      BY <2>6, <2>11, <3>1, Writes
    <3>3. \A j \in Recs : Out(u, j) <=> Out(s, j)
      BY <2>5 DEF Out
    <3>4. ~Out(s, i) /\ \A j \in Recs : Out(s, j) => j # i /\ t.pages[j] = u.pages[j]
      BY <2>5, <2>7, <2>11 DEF In, Out
    <3>5. /\ o \in 0 .. u.top - 1
          /\ \A j \in Recs : Out(s, j) => t.pages[j].off # o
          /\ \A a \in DOMAIN u.offq : u.offq[a] # o
      BY <2>5, <3>3, <3>4 DEF SlotsBut
    <3>6. ASSUME NEW j \in Recs, Out(t, j)
          PROVE  /\ t.pages[j].off \in 0 .. t.top - 1
                 /\ t.pages[j].off + 1 \in DOMAIN t.swapFile
                 /\ t.swapFile[t.pages[j].off + 1] = t.pages[j].va
      <4>1. CASE j = i
        BY <2>8, <2>11, <3>2, <3>5, <4>1
      <4>2. CASE j # i
        <5>1. /\ Out(u, j) /\ t.pages[j] = u.pages[j] /\ t.pages[j].off # o
          BY <2>12, <3>3, <3>4, <3>5, <3>6, <4>2
        <5>2. /\ u.pages[j].off \in 0 .. u.top - 1
              /\ u.pages[j].off + 1 \in DOMAIN s.swapFile
              /\ s.swapFile[u.pages[j].off + 1] = u.pages[j].va
          BY <2>5, <5>1 DEF SlotsBut
        <5>3. u.pages[j].off + 1 # o + 1
          BY <2>5, <5>1, <5>2
        <5> QED
          BY <2>11, <3>2, <5>1, <5>2, <5>3
      <4> QED
        BY <4>1, <4>2
    <3>7. \A j, k \in Recs : Out(t, j) /\ Out(t, k) /\ t.pages[j].off = t.pages[k].off => j = k
      <4> TAKE j, k \in Recs
      <4>1. ASSUME NEW l \in Recs, Out(t, l), l # i
            PROVE  Out(u, l) /\ t.pages[l] = u.pages[l] /\ t.pages[l].off # o
        <5>1. Out(s, l)
          BY <2>12, <4>1
        <5> QED
          BY <3>3, <3>4, <3>5, <5>1
      <4>2. t.pages[i].off = o
        BY <2>11
      <4> QED
        BY <2>5, <4>1, <4>2 DEF SlotsBut
    <3>8. \A a, b \in DOMAIN t.offq : t.offq[a] = t.offq[b] => a = b
      BY <2>5, <2>11 DEF SlotsBut
    <3>9. \A a \in DOMAIN t.offq :
             t.offq[a] < t.top /\ \A j \in Recs : Out(t, j) => t.pages[j].off # t.offq[a]
      BY <2>5, <2>11, <2>12, <3>3, <3>4, <3>5 DEF SlotsBut
    <3>10. \A k \in 0 .. t.top - 1 :
              (\E j \in Recs : Out(t, j) /\ t.pages[j].off = k) \/ \E a \in DOMAIN t.offq : t.offq[a] = k
      <4> TAKE k \in 0 .. t.top - 1
      <4>1. \/ k = o \/ (\E j \in Recs : Out(u, j) /\ u.pages[j].off = k)
            \/ \E a \in DOMAIN t.offq : t.offq[a] = k
        BY <2>5, <2>11 DEF SlotsBut
      <4> QED
        BY <2>7, <2>11, <2>12, <3>3, <3>4, <4>1
    <3> QED
      BY <3>6, <3>7, <3>8, <3>9, <3>10 DEF SlotsBut
  <2>19. Fine(t, n)
    BY <2>11, <2>13, <2>15, <2>17, <2>18 DEF Fine
  <2>20. GoesOut(s, t, m)
    <3>1. Len(t.q) = Len(s.q) - 1
      BY <2>2, <2>11 DEF Drops
    <3>2. Out(t, i)
      BY <2>7, <2>12
    <3> QED
      BY <2>2, <2>7, <2>11, <2>16, <3>1, <3>2 DEF GoesOut, i
  <2> QED
    BY <2>1, <2>7, <2>19, <2>20
<1> QED
  BY <1>1, <1>2, <1>3

-----------------------------------------------------------------------------
(* Records and the queue                                                   *)

\* A page has a record.
LEMMA HasRecord ==
    ASSUME NEW s \in State, NEW n \in Nat, Owned(s, n), NEW x \in 0 .. n - 1
    PROVE  /\ RecordOf(s, x) \in Recs /\ s.pages[RecordOf(s, x)].alloc
           /\ s.pages[RecordOf(s, x)].va = x /\ x \in Pages
<1> DEFINE S == {i \in Recs : s.pages[i].va = x /\ s.pages[i].alloc}
<1>1. S # {} /\ S \subseteq Nat
  BY PagingAssumption DEF Owned, Recs
<1>2. Lowest(S) \in S
  <2> HIDE DEF S
  <2> QED
    BY <1>1, LowestIn
<1>3. RecordOf(s, x) = Lowest(S)
  BY DEF RecordOf
<1>4. x \in Pages
  <2>1. n <= MAX_TOTAL_PAGES
    BY Sizes
  <2> QED
    BY <2>1, PagingAssumption DEF Pages
<1> QED
  BY <1>2, <1>3, <1>4

\* The page of a record in use.
LEMMA PageOf ==
    ASSUME NEW s \in State, NEW n \in Nat, Owned(s, n), NEW i \in Recs, s.pages[i].alloc
    PROVE  s.pages[i].va \in 0 .. n - 1 /\ s.pages[i].va \in Pages
<1>1. s.pages[i].va \in Nat /\ s.pages[i].va < n
  BY StateIs DEF Record, Owned
<1>2. n <= MAX_TOTAL_PAGES
  BY Sizes
<1> QED
  BY <1>1, <1>2, PagingAssumption DEF Pages

\* A record that came into memory goes behind the others.
LEMMA Inserts ==
    ASSUME NEW u \in State, NEW i \in Recs, In(u, i), Len(u.q) <= MAX_PSYC_PAGES,
           \A a, b \in DOMAIN u.q : u.q[a] = u.q[b] => a = b,
           \A j \in Recs : (\E a \in DOMAIN u.q : u.q[a] = j) <=> In(u, j) /\ j # i
    PROVE  LET t == insert(u, i)
           IN  Broken(t) \/ (Requeued(t, u) /\ t.pte = u.pte /\ Queue(t))
<1>1. CASE Full(u)
  <2>1. insert(u, i) = [u EXCEPT !.broken = TRUE]
    BY <1>1 DEF insert
  <2>2. Broken([u EXCEPT !.broken = TRUE])
    BY Breaks
  <2>3. Broken(insert(u, i))
    BY <2>1, <2>2, Zenon
  <2> QED
    BY <2>3
<1>2. CASE ~Full(u)
  <2> DEFINE r == Append(u.q, i)
             t == [u EXCEPT !.q = r]
  <2>1. insert(u, i) = t
    BY <1>2 DEF insert
  <2>2. u.q \in Seq(Recs) /\ Len(u.q) \in Nat /\ DOMAIN u.q = 1 .. Len(u.q)
    BY StateIs
  <2>3. /\ r \in Seq(Recs) /\ DOMAIN r = 1 .. Len(u.q) + 1 /\ Len(r) = Len(u.q) + 1
        /\ r[Len(u.q) + 1] = i /\ \A a \in DOMAIN u.q : r[a] = u.q[a]
    BY <2>2
  <2> HIDE DEF r
  <2>4. Requeued(t, u) /\ t.q = r /\ t.pte = u.pte
    BY <2>3, Requeue
  <2> HIDE DEF t
  <2>5. \A a, b \in DOMAIN t.q : t.q[a] = t.q[b] => a = b
    <3>1. \A a \in DOMAIN u.q : u.q[a] # i
      BY <2>2
    <3>2. \A a \in DOMAIN r : a \in DOMAIN u.q \/ a = Len(u.q) + 1
      BY <2>2, <2>3
    <3> QED
      BY <2>3, <2>4, <3>1, <3>2
  <2>6. \A j \in Recs : In(t, j) <=> \E a \in DOMAIN t.q : t.q[a] = j
    <3>1. \A j \in Recs : In(t, j) <=> In(u, j)
      BY <2>4 DEF In, Requeued
    <3>2. \A a \in DOMAIN r : a \in DOMAIN u.q \/ a = Len(u.q) + 1
      BY <2>2, <2>3
    <3>3. \A a \in DOMAIN u.q : a \in DOMAIN r
      BY <2>2, <2>3
    <3>4. Len(u.q) + 1 \in DOMAIN r
      BY <2>2, <2>3
    <3> QED
      BY <2>3, <2>4, <3>1, <3>2, <3>3, <3>4
  <2>7. Len(t.q) <= MAX_PSYC_PAGES
    BY <1>2, <2>2, <2>3, <2>4, PagingAssumption DEF Full
  <2> QED
    BY <2>1, <2>4, <2>5, <2>6, <2>7 DEF Queue
<1> QED
  BY <1>1, <1>2

\* A slot is given back when the page of record i left it.
LEMMA InsertsOffset ==
    ASSUME NEW s \in State, NEW o \in Int
    PROVE  LET t == insertOffsetQueue(s, o)
           IN  \/ Broken(t)
               \/ /\ o \in Nat => t \in State
                  /\ t.pages = s.pages /\ t.q = s.q /\ t.top = s.top /\ t.paged = s.paged
                  /\ t.pte = s.pte /\ t.broken = s.broken
                  /\ t.offq = Append(s.offq, o) /\ DOMAIN t.swapFile = DOMAIN s.swapFile
                  /\ \A k \in DOMAIN s.swapFile : k # o + 1 => t.swapFile[k] = s.swapFile[k]
<1>1. CASE Len(s.offq) = MAX_PSYC_PAGES
  BY <1>1, Breaks DEF insertOffsetQueue
<1>2. CASE Len(s.offq) # MAX_PSYC_PAGES
  <2> DEFINE r == Append(s.offq, o)
             F == [k \in DOMAIN s.swapFile |-> IF k = o + 1 THEN Nowhere ELSE s.swapFile[k]]
             t == [s EXCEPT !.offq = r, !.swapFile = F]
  <2>1. insertOffsetQueue(s, o) = t
    BY <1>2 DEF insertOffsetQueue
  <2>2. s.offq \in Seq(Nat) /\ s.swapFile \in Seq(Int)
    BY StateIs
  <2>3. F \in Seq(Int)
    <3>1. DOMAIN s.swapFile = 1 .. Len(s.swapFile) /\ Len(s.swapFile) \in Nat
      BY <2>2
    <3>2. \A k \in DOMAIN s.swapFile : s.swapFile[k] \in Int
      BY <2>2
    <3>3. F \in [1 .. Len(s.swapFile) -> Int]
      BY <3>1, <3>2 DEF Nowhere
    <3> QED
      BY <3>1, <3>3
  <2>4. o \in Nat => r \in Seq(Nat)
    BY <2>2
  <2>5. /\ DOMAIN F = DOMAIN s.swapFile
        /\ \A k \in DOMAIN s.swapFile : k # o + 1 => F[k] = s.swapFile[k]
    OBVIOUS
  <2> HIDE DEF r, F
  <2>6. o \in Nat => t \in State
    BY <2>3, <2>4 DEF State
  <2>7. /\ t.pages = s.pages /\ t.q = s.q /\ t.top = s.top /\ t.paged = s.paged
        /\ t.pte = s.pte /\ t.broken = s.broken /\ t.offq = r /\ t.swapFile = F
    BY DEF State
  <2> QED
    BY <2>1, <2>5, <2>6, <2>7 DEF r
<1> QED
  BY <1>1, <1>2

\* The slot of a page that came back, or is no more, waits among the free ones.
LEMMA GivesSlot ==
    ASSUME NEW s \in State, SlotsBut(s, {}), NEW i \in Recs, Out(s, i), NEW t,
           t.offq = Append(s.offq, s.pages[i].off), t.top = s.top,
           DOMAIN t.swapFile = DOMAIN s.swapFile,
           \A k \in DOMAIN s.swapFile : k # s.pages[i].off + 1 => t.swapFile[k] = s.swapFile[k],
           ~Out(t, i), \A j \in Recs \ {i} : t.pages[j] = s.pages[j]
    PROVE  SlotsBut(t, {})
<1> DEFINE o == s.pages[i].off
<1>1. /\ s.offq \in Seq(Nat) /\ DOMAIN s.offq = 1 .. Len(s.offq) /\ Len(s.offq) \in Nat
      /\ s.top \in Nat /\ \A j \in Recs : s.pages[j].off \in Int
  BY StateIs DEF Record
<1>2. o \in 0 .. s.top - 1
  BY DEF SlotsBut
<1>3. /\ DOMAIN t.offq = 1 .. Len(s.offq) + 1 /\ t.offq[Len(s.offq) + 1] = o
      /\ \A a \in DOMAIN s.offq : a \in DOMAIN t.offq /\ t.offq[a] = s.offq[a]
  BY <1>1, <1>2
<1>4. /\ \A a \in DOMAIN t.offq : a \in DOMAIN s.offq \/ a = Len(s.offq) + 1
      /\ Len(s.offq) + 1 \in DOMAIN t.offq
  BY <1>1, <1>3
<1>5. \A j \in Recs : Out(t, j) <=> Out(s, j) /\ j # i
  BY DEF Out
<1>6. \A j \in Recs : Out(t, j) => t.pages[j] = s.pages[j] /\ t.pages[j].off # o
  BY <1>5 DEF SlotsBut
<1> HIDE DEF o
<1>7. ASSUME NEW j \in Recs, Out(t, j)
      PROVE  /\ t.pages[j].off \in 0 .. t.top - 1
             /\ t.pages[j].off + 1 \in DOMAIN t.swapFile
             /\ t.swapFile[t.pages[j].off + 1] = t.pages[j].va
  <2>1. Out(s, j) /\ t.pages[j] = s.pages[j] /\ t.pages[j].off # o
    BY <1>5, <1>6, <1>7
  <2>2. s.pages[j].off + 1 # s.pages[i].off + 1
    BY <1>1, <2>1 DEF o
  <2> QED
    BY <2>1, <2>2 DEF SlotsBut
<1>8. \A j, k \in Recs : Out(t, j) /\ Out(t, k) /\ t.pages[j].off = t.pages[k].off => j = k
  BY <1>5, <1>6 DEF SlotsBut
<1>9. \A a \in DOMAIN s.offq :
         s.offq[a] < t.top /\ s.offq[a] # o /\ \A j \in Recs : Out(t, j) => t.pages[j].off # s.offq[a]
  BY <1>5, <1>6 DEF SlotsBut, o
<1>10. \A a, b \in DOMAIN t.offq : t.offq[a] = t.offq[b] => a = b
  <2>1. \A a, b \in DOMAIN s.offq : s.offq[a] = s.offq[b] => a = b
    BY DEF SlotsBut
  <2> QED
    BY <1>3, <1>4, <1>9, <2>1
<1>11. \A a \in DOMAIN t.offq :
          t.offq[a] < t.top /\ \A j \in Recs : Out(t, j) => t.pages[j].off # t.offq[a]
  <2>1. o < t.top
    BY <1>1, <1>2
  <2> QED
    BY <1>3, <1>4, <1>6, <1>9, <2>1
<1>12. \A k \in 0 .. t.top - 1 :
          (\E j \in Recs : Out(t, j) /\ t.pages[j].off = k) \/ \E a \in DOMAIN t.offq : t.offq[a] = k
  <2> TAKE k \in 0 .. t.top - 1
  <2>1. (\E j \in Recs : Out(s, j) /\ s.pages[j].off = k) \/ \E a \in DOMAIN s.offq : s.offq[a] = k
    BY DEF SlotsBut
  <2>2. ASSUME NEW j \in Recs, Out(s, j), s.pages[j].off = k, j # i
        PROVE  Out(t, j) /\ t.pages[j].off = k
    BY <1>5, <2>2
  <2>3. ASSUME k = o PROVE \E a \in DOMAIN t.offq : t.offq[a] = k
    BY <1>3, <1>4, <2>3
  <2> QED
    BY <1>3, <2>1, <2>2, <2>3 DEF o
<1> QED
  BY <1>7, <1>8, <1>10, <1>11, <1>12 DEF SlotsBut

-----------------------------------------------------------------------------
(* allocuvm, deallocatePage and get_page                                   *)

\* s with another record i and other flags of page x.
Reset(s, i, r, x, f) == [s EXCEPT !.pages[i] = r, !.pte[x] = f]

\* Reset touches one record and the flags of one page.
LEMMA Resets ==
    ASSUME NEW s \in State, NEW i \in Recs, NEW r \in Record, NEW x \in Pages,
           NEW f \in SUBSET {"A", "W", "PG"}
    PROVE  LET t == Reset(s, i, r, x, f)
           IN  /\ t \in State
               /\ t.q = s.q /\ t.offq = s.offq /\ t.top = s.top /\ t.paged = s.paged
               /\ t.swapFile = s.swapFile /\ t.broken = s.broken
               /\ t.pages[i] = r /\ \A j \in Recs \ {i} : t.pages[j] = s.pages[j]
               /\ t.pte[x] = f /\ \A y \in Pages \ {x} : t.pte[y] = s.pte[y]
<1> DEFINE P == [s.pages EXCEPT ![i] = r]
           T == [s.pte EXCEPT ![x] = f]
           t == Reset(s, i, r, x, f)
<1>0. s.pages \in [Recs -> Record] /\ s.pte \in [Pages -> SUBSET {"A", "W", "PG"}]
  BY StateIs
<1>1. P \in [Recs -> Record] /\ T \in [Pages -> SUBSET {"A", "W", "PG"}]
  BY <1>0
<1>2. t = [s EXCEPT !.pages = P, !.pte = T]
  BY DEF State, Reset
<1>3. /\ P[i] = r /\ \A j \in Recs \ {i} : P[j] = s.pages[j]
      /\ T[x] = f /\ \A y \in Pages \ {x} : T[y] = s.pte[y]
  BY <1>0
<1> HIDE DEF P, T, t
<1>4. [s EXCEPT !.pages = P, !.pte = T] \in State
  BY <1>1 DEF State
<1>5. /\ t \in State /\ t.q = s.q /\ t.offq = s.offq /\ t.top = s.top /\ t.paged = s.paged
      /\ t.swapFile = s.swapFile /\ t.broken = s.broken /\ t.pages = P /\ t.pte = T
  BY <1>2, <1>4 DEF State
<1> QED
  BY <1>3, <1>5 DEF t

\* A page more.
LEMMA Allocates ==
    ASSUME NEW s \in State, NEW n, Fine(s, n)
    PROVE  LET t == AllocPage(s, n)
           IN  \/ Broken(t)
               \/ Fine(t, n + 1) /\ \A j \in Recs : Out(t, j) => t.pages[j] = s.pages[j]
<1> DEFINE free == {i \in Recs : ~s.pages[i].alloc}
           i == Lowest(free)
           r == [s.pages[i] EXCEPT !.alloc = TRUE, !.va = n, !.ram = TRUE, !.off = NoSlot]
           u == Reset(s, i, r, n, {"W"})
           t == insert(u, i)
<1>0. n \in Nat /\ s.broken = FALSE
  BY StateIs DEF Fine
<1>1. CASE free = {}
  <2>1. AllocPage(s, n) = [s EXCEPT !.broken = TRUE]
    BY <1>1 DEF AllocPage
  <2>2. Broken([s EXCEPT !.broken = TRUE])
    BY Breaks
  <2> QED
    BY <2>1, <2>2, Zenon
<1>2. CASE free # {}
  <2>1. AllocPage(s, n) = t
    BY <1>0, <1>2 DEF AllocPage, Reset
  <2>2. i \in Recs /\ ~s.pages[i].alloc
    <3>1. free \subseteq Nat
      BY PagingAssumption DEF Recs
    <3>2. i \in free
      <4> HIDE DEF free
      <4> QED
        BY <1>2, <3>1, LowestIn
    <3> QED
      BY <3>2
  <2> HIDE DEF free, i
  <2>3. n < MAX_TOTAL_PAGES /\ n \in Pages
    <3>1. {k \in Recs : s.pages[k].alloc} # Recs
      BY <2>2
    <3>2. n < MAX_TOTAL_PAGES
      BY <3>1, Sizes DEF Fine
    <3> QED
      BY <1>0, <3>2, PagingAssumption DEF Pages
  <2>4. /\ r \in Record /\ r.alloc = TRUE /\ r.va = n /\ r.ram = TRUE
    <3>1. s.pages[i] \in Record
      BY <2>2, StateIs
    <3> DEFINE e == s.pages[i]
    <3>2. e \in Record /\ NoSlot \in Int
      BY <3>1 DEF NoSlot
    <3> HIDE DEF e
    <3>3. [e EXCEPT !.alloc = TRUE, !.va = n, !.ram = TRUE, !.off = NoSlot] \in Record
      BY <1>0, <3>2 DEF Record
    <3>4. r = [e EXCEPT !.alloc = TRUE, !.va = n, !.ram = TRUE, !.off = NoSlot]
      BY DEF e
    <3> HIDE DEF r
    <3> QED
      BY <3>2, <3>3, <3>4 DEF Record
  <2> HIDE DEF r
  <2>5. /\ u \in State
        /\ u.q = s.q /\ u.offq = s.offq /\ u.top = s.top
        /\ u.swapFile = s.swapFile /\ u.broken = s.broken
        /\ u.pages[i] = r /\ \A j \in Recs \ {i} : u.pages[j] = s.pages[j]
        /\ u.pte[n] = {"W"} /\ \A y \in Pages \ {n} : u.pte[y] = s.pte[y]
    BY <2>2, <2>3, <2>4, Resets
  <2> HIDE DEF u
  <2>6. /\ In(u, i) /\ ~In(s, i) /\ ~Out(s, i) /\ ~Out(u, i)
        /\ \A j \in Recs \ {i} : (In(u, j) <=> In(s, j)) /\ (Out(u, j) <=> Out(s, j))
    BY <2>2, <2>4, <2>5 DEF In, Out
  <2>7. Broken(t) \/ (Requeued(t, u) /\ t.pte = u.pte /\ Queue(t))
    <3>1. /\ Len(u.q) <= MAX_PSYC_PAGES
          /\ \A a, b \in DOMAIN u.q : u.q[a] = u.q[b] => a = b
          /\ \A j \in Recs : (\E a \in DOMAIN u.q : u.q[a] = j) <=> In(u, j) /\ j # i
      BY <2>5, <2>6 DEF Fine, Queue
    <3> QED
      BY <2>2, <2>5, <2>6, <3>1, Inserts
  <2> HIDE DEF t
  <2>8. SUFFICES ASSUME Requeued(t, u), t.pte = u.pte, Queue(t)
        PROVE  Fine(t, n + 1) /\ \A j \in Recs : Out(t, j) => t.pages[j] = s.pages[j]
    BY <2>1, <2>7
  <2>9. /\ t \in State /\ t.pages = u.pages /\ t.offq = s.offq /\ t.top = s.top
        /\ t.swapFile = s.swapFile /\ t.broken = FALSE
    BY <1>0, <2>5, <2>8 DEF Requeued
  <2>10. \A j \in Recs : s.pages[j].alloc =>
            j # i /\ s.pages[j].va < n /\ s.pages[j].va \in 0 .. n - 1 /\ s.pages[j].va \in Pages
    BY <1>0, <2>2, PageOf DEF Fine, Owned
  <2>11. \A j \in Recs : t.pages[j] = IF j = i THEN r ELSE s.pages[j]
    BY <2>5, <2>9
  <2>12. Owned(t, n + 1)
    <3>1. \A j \in Recs : t.pages[j].alloc => t.pages[j].va < n + 1
      BY <1>0, <2>4, <2>10, <2>11
    <3>2. \A j, k \in Recs : t.pages[j].alloc /\ t.pages[k].alloc /\ t.pages[j].va = t.pages[k].va => j = k
      <4>1. ASSUME NEW j \in Recs, j # i, t.pages[j].alloc
            PROVE  s.pages[j].alloc /\ t.pages[j].va = s.pages[j].va /\ t.pages[j].va # n
        BY <1>0, <2>10, <2>11, <4>1
      <4>2. t.pages[i].va = n
        BY <2>2, <2>4, <2>11
      <4> QED
        BY <4>1, <4>2 DEF Fine, Owned
    <3>3. \A x \in 0 .. (n + 1) - 1 : \E j \in Recs : t.pages[j].alloc /\ t.pages[j].va = x
      <4> TAKE x \in 0 .. (n + 1) - 1
      <4>1. CASE x = n
        BY <2>2, <2>4, <2>11, <4>1
      <4>2. CASE x # n
        <5>1. x \in 0 .. n - 1
          BY <1>0, <4>2
        <5>2. PICK j \in Recs : s.pages[j].alloc /\ s.pages[j].va = x
          BY <5>1 DEF Fine, Owned
        <5> QED
          BY <2>2, <2>11, <5>2
      <4> QED
        BY <4>1, <4>2
    <3> QED
      BY <3>1, <3>2, <3>3 DEF Owned
  <2>13. Marks(t)
    <3>1. ASSUME NEW j \in Recs, t.pages[j].alloc
          PROVE  "PG" \in t.pte[t.pages[j].va] <=> ~t.pages[j].ram
      <4>1. CASE j = i
        BY <2>2, <2>4, <2>5, <2>8, <2>11, <4>1
      <4>2. CASE j # i
        <5>1. /\ s.pages[j].alloc /\ t.pages[j] = s.pages[j]
              /\ s.pages[j].va \in Pages \ {n}
          BY <1>0, <2>10, <2>11, <3>1, <4>2
        <5> QED
          BY <2>5, <2>8, <5>1 DEF Fine, Marks
      <4> QED
        BY <4>1, <4>2
    <3> QED
      BY <3>1 DEF Marks
  <2>14. \A j \in Recs : Out(t, j) <=> Out(s, j)
    BY <2>6, <2>9 DEF Out
  <2>15. \A j \in Recs : Out(t, j) => t.pages[j] = s.pages[j]
    BY <2>6, <2>11, <2>14
  <2>16. SlotsBut(t, {})
    <3>1. SlotsBut(s, {})
      BY DEF Fine
    <3> QED
      BY <2>9, <2>14, <2>15, <3>1 DEF SlotsBut
  <2> QED
    BY <1>0, <2>8, <2>9, <2>12, <2>13, <2>15, <2>16 DEF Fine
<1> QED
  BY <1>1, <1>2

\* A page less: its slot is free again, or its record leaves the queue.
LEMMA Deallocates ==
    ASSUME NEW s \in State, NEW n \in Nat \ {0}, Fine(s, n), policy \in Policies
    PROVE  LET t == deallocatePage(s, n - 1)
           IN  \/ t.broken = TRUE
               \/ Fine(t, n - 1) /\ \A j \in Recs : Out(t, j) => t.pages[j] = s.pages[j]
<1> DEFINE va == n - 1
           i == RecordOf(s, va)
           s1 == IF s.pages[i].ram THEN s ELSE insertOffsetQueue(s, s.pages[i].off)
           there == {m \in DOMAIN s.q : s.q[m] = i}
           r == IF there = {} THEN s1.q ELSE Without(s1.q, Lowest(there))
           u == Reset(s1, i, NoPage(Age0), va, {})
           t == deallocatePage(s, n - 1)
<1>0. /\ va \in 0 .. n - 1 /\ va \in Nat /\ s.broken = FALSE
      /\ s.pages \in [Recs -> Record] /\ s.q \in Seq(Recs) /\ DOMAIN s.q = 1 .. Len(s.q)
      /\ Len(s.q) \in Nat
  BY StateIs DEF Fine
<1>1. i \in Recs /\ s.pages[i].alloc /\ s.pages[i].va = va /\ va \in Pages
  BY <1>0, HasRecord DEF Fine
<1>2. \/ Broken(s1)
      \/ /\ s1 \in State
         /\ s1.pages = s.pages /\ s1.q = s.q /\ s1.top = s.top
         /\ s1.pte = s.pte /\ s1.broken = s.broken
         /\ s.pages[i].ram => s1 = s
         /\ ~s.pages[i].ram =>
              /\ s1.offq = Append(s.offq, s.pages[i].off) /\ DOMAIN s1.swapFile = DOMAIN s.swapFile
              /\ \A k \in DOMAIN s.swapFile : k # s.pages[i].off + 1 => s1.swapFile[k] = s.swapFile[k]
  <2>1. CASE s.pages[i].ram
    BY <2>1
  <2>2. CASE ~s.pages[i].ram
    <3>1. s.pages[i].off \in Nat
      <4>1. s.pages[i].off \in 0 .. s.top - 1
        BY <1>1, <2>2 DEF Fine, SlotsBut, Out
      <4> QED
        BY <4>1
    <3>2. s1 = insertOffsetQueue(s, s.pages[i].off)
      BY <2>2
    <3> HIDE DEF s1, i
    <3> QED
      BY <2>2, <3>1, <3>2, InsertsOffset
  <2> QED
    BY <2>1, <2>2
<1>3. t = [s1 EXCEPT !.pages[i] = NoPage(Age0), !.pte[va] = {},
                     !.q = IF there = {} THEN @ ELSE Without(@, Lowest(there))]
  BY DEF deallocatePage
<1> HIDE DEF s1, i, t, va
<1>4. CASE Broken(s1)
  <2>1. s1 \in State /\ s1.broken = TRUE
    BY <1>4 DEF Broken
  <2>2. t.broken = s1.broken
    BY <1>3, <2>1 DEF State
  <2> QED
    BY <2>1, <2>2 DEF t
<1>5. CASE ~Broken(s1)
  <2>1. /\ s1 \in State
        /\ s1.pages = s.pages /\ s1.q = s.q /\ s1.top = s.top
        /\ s1.pte = s.pte /\ s1.broken = FALSE
        /\ s.pages[i].ram => s1 = s
        /\ ~s.pages[i].ram =>
             /\ s1.offq = Append(s.offq, s.pages[i].off) /\ DOMAIN s1.swapFile = DOMAIN s.swapFile
             /\ \A k \in DOMAIN s.swapFile : k # s.pages[i].off + 1 => s1.swapFile[k] = s.swapFile[k]
    BY <1>0, <1>2, <1>5
  <2>2. NoPage(Age0) \in Record /\ NoPage(Age0).alloc = FALSE
    <3>1. Age0 \in Nat
      BY PagingAssumption DEF Age0
    <3> HIDE DEF Age0
    <3> QED
      BY <3>1 DEF NoPage, NoSlot, Record
  <2>3. /\ u \in State
        /\ u.q = s.q /\ u.offq = s1.offq /\ u.top = s.top
        /\ u.swapFile = s1.swapFile /\ u.broken = FALSE
        /\ u.pages[i] = NoPage(Age0) /\ \A j \in Recs \ {i} : u.pages[j] = s.pages[j]
        /\ u.pte[va] = {} /\ \A y \in Pages \ {va} : u.pte[y] = s.pte[y]
    BY <1>1, <2>1, <2>2, Resets
  <2>4. t = [u EXCEPT !.q = r]
    BY <1>3, <2>1 DEF Reset, State
  <2>5. /\ \A j \in Recs \ {i} : (In(u, j) <=> In(s, j)) /\ (Out(u, j) <=> Out(s, j))
        /\ ~In(u, i) /\ ~Out(u, i)
    BY <2>2, <2>3 DEF In, Out
  <2>6. /\ r \in Seq(Recs) /\ Len(r) <= MAX_PSYC_PAGES
        /\ \A a, b \in DOMAIN r : r[a] = r[b] => a = b
        /\ \A j \in Recs : j # i => (In(s, j) <=> \E a \in DOMAIN r : r[a] = j)
        /\ \A a \in DOMAIN r : r[a] # i
    <3>0. /\ Len(s.q) <= MAX_PSYC_PAGES
          /\ \A a, b \in DOMAIN s.q : s.q[a] = s.q[b] => a = b
          /\ \A j \in Recs : In(s, j) <=> \E a \in DOMAIN s.q : s.q[a] = j
      BY DEF Fine, Queue
    <3>1. CASE there = {}
      <4>1. r = s.q
        BY <2>1, <3>1
      <4>2. \A a \in DOMAIN s.q : s.q[a] # i
        BY <3>1
      <4> HIDE DEF r
      <4> QED
        BY <1>0, <3>0, <4>1, <4>2
    <3>2. CASE there # {}
      <4> DEFINE m == Lowest(there)
      <4>1. m \in there
        <5>1. there \subseteq Nat
          BY <1>0
        <5> HIDE DEF there
        <5> QED
          BY <3>2, <5>1, LowestIn
      <4>2. r = Without(s.q, m)
        BY <2>1, <3>2
      <4>3. m \in 1 .. Len(s.q) /\ s.q[m] = i
        BY <1>0, <4>1
      <4> HIDE DEF r, m
      <4>4. Drops(s.q, r, m)
        BY <1>0, <4>2, <4>3, WithoutDrops
      <4>5. /\ r \in Seq(Recs) /\ Len(r) = Len(s.q) - 1
            /\ \A a, b \in DOMAIN r : r[a] = r[b] => a = b
            /\ \A a \in DOMAIN r : \E b \in DOMAIN s.q : b # m /\ r[a] = s.q[b]
            /\ \A b \in DOMAIN s.q : b # m => \E a \in DOMAIN r : r[a] = s.q[b]
        BY <3>0, <4>4 DEF Drops
      <4>6. \A b \in DOMAIN s.q : s.q[b] = i <=> b = m
        BY <1>0, <3>0, <4>3
      <4>7. Len(r) <= MAX_PSYC_PAGES
        BY <1>0, <3>0, <4>5, PagingAssumption
      <4> QED
        BY <3>0, <4>5, <4>6, <4>7
    <3> QED
      BY <3>1, <3>2
  <2> HIDE DEF r, u, there
  <2>7. Requeued(t, u) /\ t.q = r /\ t.pte = u.pte
    <3>1. /\ Requeued([u EXCEPT !.q = r], u)
          /\ [u EXCEPT !.q = r].q = r /\ [u EXCEPT !.q = r].pte = u.pte
      BY <2>3, <2>6, Requeue
    <3> QED
      BY <2>4, <3>1, Zenon
  <2>8. /\ t \in State /\ t.pages = u.pages /\ t.offq = s1.offq /\ t.top = s.top
        /\ t.swapFile = s1.swapFile /\ t.broken = FALSE
    BY <2>3, <2>7 DEF Requeued
  <2>9. /\ ~t.pages[i].alloc /\ ~In(t, i) /\ ~Out(t, i)
        /\ \A j \in Recs \ {i} :
              t.pages[j] = s.pages[j] /\ (In(t, j) <=> In(s, j)) /\ (Out(t, j) <=> Out(s, j))
    BY <2>2, <2>3, <2>8 DEF In, Out
  <2>10. Queue(t)
    BY <1>1, <2>6, <2>7, <2>9 DEF Queue
  <2>11. \A j \in Recs : t.pages[j].alloc =>
            /\ j # i /\ s.pages[j].alloc /\ t.pages[j] = s.pages[j]
            /\ s.pages[j].va # va /\ s.pages[j].va \in 0 .. n - 1 /\ s.pages[j].va \in Pages
    <3>1. ASSUME NEW j \in Recs, t.pages[j].alloc
          PROVE  /\ j # i /\ s.pages[j].alloc /\ t.pages[j] = s.pages[j]
                 /\ s.pages[j].va # va /\ s.pages[j].va \in 0 .. n - 1 /\ s.pages[j].va \in Pages
      <4>1. j # i /\ t.pages[j] = s.pages[j] /\ s.pages[j].alloc
        BY <2>9, <3>1
      <4>2. s.pages[j].va # va
        BY <1>1, <4>1 DEF Fine, Owned
      <4> QED
        BY <4>1, <4>2, PageOf DEF Fine
    <3> QED
      BY <3>1
  <2>12. Owned(t, n - 1)
    <3>1. \A j \in Recs : t.pages[j].alloc => t.pages[j].va < n - 1
      <4> TAKE j \in Recs
      <4>1. ASSUME t.pages[j].alloc PROVE t.pages[j].va < n - 1
        <5>1. t.pages[j] = s.pages[j] /\ s.pages[j].va \in 0 .. n - 1 /\ s.pages[j].va # n - 1
          BY <2>11, <4>1 DEF va
        <5> QED
          BY <5>1
      <4> QED
        BY <4>1
    <3>2. \A j, k \in Recs : t.pages[j].alloc /\ t.pages[k].alloc /\ t.pages[j].va = t.pages[k].va => j = k
      BY <2>11 DEF Fine, Owned
    <3>3. \A x \in 0 .. (n - 1) - 1 : \E j \in Recs : t.pages[j].alloc /\ t.pages[j].va = x
      <4> TAKE x \in 0 .. (n - 1) - 1
      <4>1. x \in 0 .. n - 1 /\ x # va
        BY DEF va
      <4>2. PICK j \in Recs : s.pages[j].alloc /\ s.pages[j].va = x
        BY <4>1 DEF Fine, Owned
      <4>3. j # i
        BY <1>1, <4>1, <4>2
      <4> QED
        BY <2>9, <4>2, <4>3
    <3> QED
      BY <3>1, <3>2, <3>3 DEF Owned
  <2>13. Marks(t)
    <3>1. ASSUME NEW j \in Recs, t.pages[j].alloc
          PROVE  "PG" \in t.pte[t.pages[j].va] <=> ~t.pages[j].ram
      <4>1. /\ s.pages[j].alloc /\ t.pages[j] = s.pages[j] /\ s.pages[j].va \in Pages \ {va}
        BY <2>11, <3>1
      <4> QED
        BY <2>3, <2>7, <4>1 DEF Fine, Marks
    <3> QED
      BY <3>1 DEF Marks
  <2>14. SlotsBut(t, {})
    <3>0. SlotsBut(s, {})
      BY DEF Fine
    <3>1. CASE s.pages[i].ram
      <4>1. /\ t.offq = s.offq /\ t.top = s.top /\ t.swapFile = s.swapFile
        BY <2>1, <2>8, <3>1
      <4>2. ~Out(s, i)
        BY <3>1 DEF Out
      <4>3. \A j \in Recs : (Out(t, j) <=> Out(s, j)) /\ (Out(t, j) => t.pages[j] = s.pages[j])
        BY <2>9, <4>2
      <4> QED
        BY <3>0, <4>1, <4>3 DEF SlotsBut
    <3>2. CASE ~s.pages[i].ram
      <4>1. Out(s, i)
        BY <1>1, <3>2 DEF Out
      <4>2. /\ t.offq = Append(s.offq, s.pages[i].off) /\ t.top = s.top
            /\ DOMAIN t.swapFile = DOMAIN s.swapFile
            /\ \A k \in DOMAIN s.swapFile : k # s.pages[i].off + 1 => t.swapFile[k] = s.swapFile[k]
        BY <2>1, <2>8, <3>2
      <4>3. ~Out(t, i) /\ \A j \in Recs \ {i} : t.pages[j] = s.pages[j]
        BY <2>9
      <4> QED
        BY <1>1, <3>0, <4>1, <4>2, <4>3, GivesSlot
    <3> QED
      BY <3>1, <3>2
  <2>15. Fine(t, n - 1)
    BY <2>8, <2>10, <2>12, <2>13, <2>14 DEF Fine
  <2>16. \A j \in Recs : Out(t, j) => t.pages[j] = s.pages[j]
    BY <2>9
  <2> QED
    BY <2>15, <2>16 DEF t
<1> QED
  BY <1>4, <1>5

\* What get_page changes before it puts record i into the queue.
Loaded(u, i, x) ==
    [u EXCEPT !.pages[i].ram = TRUE, !.pages[i].off = NoSlot, !.pte[x] = {"W"}, !.paged = @ - 1]

\* Loaded touches one record and the flags of its page.
LEMMA LoadsRecord ==
    ASSUME NEW u \in State, NEW i \in Recs, NEW x \in Pages
    PROVE  LET t == Loaded(u, i, x)
           IN  /\ t \in State
               /\ t.q = u.q /\ t.offq = u.offq /\ t.top = u.top /\ t.broken = u.broken
               /\ t.swapFile = u.swapFile
               /\ t.pages[i].ram /\ t.pages[i].va = u.pages[i].va
               /\ t.pages[i].alloc = u.pages[i].alloc
               /\ \A j \in Recs \ {i} : t.pages[j] = u.pages[j]
               /\ t.pte[x] = {"W"} /\ \A y \in Pages \ {x} : t.pte[y] = u.pte[y]
<1> DEFINE P == [u.pages EXCEPT ![i] = [@ EXCEPT !.ram = TRUE, !.off = NoSlot]]
           T == [u.pte EXCEPT ![x] = {"W"}]
           t == Loaded(u, i, x)
<1>0. /\ u.pages \in [Recs -> Record] /\ u.pte \in [Pages -> SUBSET {"A", "W", "PG"}]
      /\ u.paged \in Int
  BY StateIs
<1>1. P \in [Recs -> Record]
  <2>1. NoSlot \in Int
    BY DEF NoSlot
  <2> QED
    BY <1>0, <2>1 DEF Record
<1>2. T \in [Pages -> SUBSET {"A", "W", "PG"}]
  BY <1>0
<1>3. t = [u EXCEPT !.pages = P, !.pte = T, !.paged = u.paged - 1]
  BY DEF State, Loaded
<1>4. /\ P[i].ram /\ P[i].va = u.pages[i].va /\ P[i].alloc = u.pages[i].alloc
      /\ \A j \in Recs \ {i} : P[j] = u.pages[j]
      /\ T[x] = {"W"} /\ \A y \in Pages \ {x} : T[y] = u.pte[y]
  BY <1>0 DEF Record
<1>5. u.paged - 1 \in Int
  BY <1>0
<1> HIDE DEF P, T, t
<1>6. [u EXCEPT !.pages = P, !.pte = T, !.paged = u.paged - 1] \in State
  BY <1>1, <1>2, <1>5 DEF State
<1>7. /\ t \in State /\ t.q = u.q /\ t.offq = u.offq /\ t.top = u.top /\ t.broken = u.broken
      /\ t.swapFile = u.swapFile /\ t.pages = P /\ t.pte = T
  BY <1>3, <1>6 DEF State
<1> QED
  BY <1>4, <1>7 DEF t

\* A page that was swapped out comes back, and its slot is free again.
LEMMA LoadsPage ==
    ASSUME NEW s \in State, NEW n \in Nat, Fine(s, n), NEW va \in 0 .. n - 1, "PG" \in s.pte[va]
    PROVE  LET t == LoadPage(s, va)
           IN  \/ Broken(t)
               \/ Fine(t, n) /\ \A j \in Recs : Out(t, j) => t.pages[j] = s.pages[j]
<1> DEFINE i == RecordOf(s, va)
           o == s.pages[i].off
           s1 == insertOffsetQueue(s, o)
           u == Loaded(s1, i, va)
           t == insert(u, i)
<1>0. s.broken = FALSE /\ SlotsBut(s, {})
  BY StateIs DEF Fine
<1>1. i \in Recs /\ s.pages[i].alloc /\ s.pages[i].va = va /\ va \in Pages
  BY HasRecord DEF Fine
<1>2. Out(s, i) /\ ~In(s, i)
  BY <1>1 DEF Fine, Marks, Out, In
<1>3. o \in Nat /\ o \in Int
  <2>1. o \in 0 .. s.top - 1
    BY <1>0, <1>1, <1>2 DEF SlotsBut
  <2> QED
    BY <2>1
<1>4. LoadPage(s, va) = IF s.broken \/ s1.broken THEN [s EXCEPT !.broken = TRUE] ELSE t
  BY DEF LoadPage, Loaded
<1> HIDE DEF i, o
<1>5. \/ Broken(s1)
      \/ /\ s1 \in State
         /\ s1.pages = s.pages /\ s1.q = s.q /\ s1.top = s.top
         /\ s1.pte = s.pte /\ s1.broken = s.broken
         /\ s1.offq = Append(s.offq, o) /\ DOMAIN s1.swapFile = DOMAIN s.swapFile
         /\ \A k \in DOMAIN s.swapFile : k # o + 1 => s1.swapFile[k] = s.swapFile[k]
  BY <1>3, InsertsOffset
<1> HIDE DEF s1, t
<1>6. CASE s1.broken
  <2>1. LoadPage(s, va) = [s EXCEPT !.broken = TRUE]
    BY <1>4, <1>6
  <2>2. Broken([s EXCEPT !.broken = TRUE])
    BY Breaks
  <2>3. Broken(LoadPage(s, va))
    BY <2>1, <2>2, Zenon
  <2> QED
    BY <2>3
<1>7. CASE ~s1.broken
  <2>1. LoadPage(s, va) = t
    BY <1>0, <1>4, <1>7
  <2>2. /\ s1 \in State
        /\ s1.pages = s.pages /\ s1.q = s.q /\ s1.top = s.top
        /\ s1.pte = s.pte /\ s1.broken = FALSE
        /\ s1.offq = Append(s.offq, o) /\ DOMAIN s1.swapFile = DOMAIN s.swapFile
        /\ \A k \in DOMAIN s.swapFile : k # o + 1 => s1.swapFile[k] = s.swapFile[k]
    BY <1>0, <1>5, <1>7 DEF Broken
  <2>3. /\ u \in State
        /\ u.q = s.q /\ u.offq = s1.offq /\ u.top = s.top /\ u.broken = FALSE
        /\ u.swapFile = s1.swapFile
        /\ u.pages[i].ram /\ u.pages[i].va = va /\ u.pages[i].alloc = s.pages[i].alloc
        /\ \A j \in Recs \ {i} : u.pages[j] = s.pages[j]
        /\ u.pte[va] = {"W"} /\ \A y \in Pages \ {va} : u.pte[y] = s.pte[y]
    <3>1. /\ u \in State
          /\ u.q = s1.q /\ u.offq = s1.offq /\ u.top = s1.top /\ u.broken = s1.broken
          /\ u.swapFile = s1.swapFile
          /\ u.pages[i].ram /\ u.pages[i].va = s1.pages[i].va
          /\ u.pages[i].alloc = s1.pages[i].alloc
          /\ \A j \in Recs \ {i} : u.pages[j] = s1.pages[j]
          /\ u.pte[va] = {"W"} /\ \A y \in Pages \ {va} : u.pte[y] = s1.pte[y]
      BY <1>1, <2>2, LoadsRecord
    <3> QED
      BY <1>1, <2>2, <3>1
  <2> HIDE DEF u
  <2>4. /\ In(u, i) /\ ~Out(u, i)
        /\ \A j \in Recs \ {i} : (In(u, j) <=> In(s, j)) /\ (Out(u, j) <=> Out(s, j))
    BY <1>1, <2>3 DEF In, Out
  <2>5. Broken(t) \/ (Requeued(t, u) /\ t.pte = u.pte /\ Queue(t))
    <3>1. /\ Len(u.q) <= MAX_PSYC_PAGES
          /\ \A a, b \in DOMAIN u.q : u.q[a] = u.q[b] => a = b
          /\ \A j \in Recs : (\E a \in DOMAIN u.q : u.q[a] = j) <=> In(u, j) /\ j # i
      BY <1>2, <2>3, <2>4 DEF Fine, Queue
    <3> QED
      BY <1>1, <2>3, <2>4, <3>1, Inserts DEF t
  <2>6. SUFFICES ASSUME Requeued(t, u), t.pte = u.pte, Queue(t)
        PROVE  Fine(t, n) /\ \A j \in Recs : Out(t, j) => t.pages[j] = s.pages[j]
    BY <2>1, <2>5
  <2>7. /\ t \in State /\ t.pages = u.pages /\ t.offq = s1.offq /\ t.top = s.top
        /\ t.swapFile = s1.swapFile /\ t.broken = FALSE
    BY <2>3, <2>6 DEF Requeued
  <2>8. \A j \in Recs : t.pages[j].alloc = s.pages[j].alloc /\ t.pages[j].va = s.pages[j].va
    BY <1>1, <2>3, <2>7, ZenonT(40)
  <2>9. /\ ~Out(t, i) /\ t.pages[i].ram
        /\ \A j \in Recs \ {i} : t.pages[j] = s.pages[j]
    BY <1>1, <2>3, <2>4, <2>7 DEF Out
  <2>10. Owned(t, n)
    BY <2>8 DEF Fine, Owned
  <2>11. Marks(t)
    <3>1. ASSUME NEW j \in Recs, t.pages[j].alloc
          PROVE  "PG" \in t.pte[t.pages[j].va] <=> ~t.pages[j].ram
      <4>1. CASE j = i
        BY <1>1, <2>3, <2>6, <2>8, <2>9, <4>1
      <4>2. CASE j # i
        <5>1. s.pages[j].alloc /\ t.pages[j] = s.pages[j]
          BY <2>8, <2>9, <3>1, <4>2
        <5>2. s.pages[j].va \in Pages
          BY <5>1, PageOf DEF Fine
        <5>3. s.pages[j].va # va
          BY <1>1, <4>2, <5>1 DEF Fine, Owned
        <5> QED
          BY <2>3, <2>6, <5>1, <5>2, <5>3 DEF Fine, Marks
      <4> QED
        BY <4>1, <4>2
    <3> QED
      BY <3>1 DEF Marks
  <2>12. SlotsBut(t, {})
    <3>1. /\ t.offq = Append(s.offq, s.pages[i].off) /\ t.top = s.top
          /\ DOMAIN t.swapFile = DOMAIN s.swapFile
          /\ \A k \in DOMAIN s.swapFile : k # s.pages[i].off + 1 => t.swapFile[k] = s.swapFile[k]
      BY <2>2, <2>7 DEF o
    <3> QED
      BY <1>0, <1>1, <1>2, <2>9, <3>1, GivesSlot
  <2>13. Fine(t, n)
    BY <2>6, <2>7, <2>10, <2>11, <2>12 DEF Fine
  <2>14. \A j \in Recs : Out(t, j) => t.pages[j] = s.pages[j]
    BY <2>9
  <2> QED
    BY <2>13, <2>14
<1> QED
  BY <1>6, <1>7

-----------------------------------------------------------------------------
(* The actions                                                             *)

\* The page of record i may go.
MayGo(s, i) ==
    CASE policy = "SCFIFO" -> "A" \notin s.pte[s.pages[i].va]
                              \/ \A k \in InRAM(s) : "A" \in s.pte[s.pages[k].va]
      [] policy = "NFUA" -> \A k \in InRAM(s) : s.pages[i].age <= s.pages[k].age
      [] policy = "LAPA" -> \A k \in InRAM(s) : BitsOf(s.pages[i].age) <= BitsOf(s.pages[k].age)
      [] policy = "AQ" -> i = Head(s.q)

\* From s to t no page went out that may not.
FairStep(s, t) == \A i \in Recs : s.pages[i].ram /\ Out(t, i) => MayGo(s, i)

\* What a policy may choose may go.
LEMMA FairGoes ==
    ASSUME NEW s \in State, NEW n, Fine(s, n), NEW m \in DOMAIN s.q, Fair(s, m),
           policy \in Policies
    PROVE  MayGo(s, s.q[m])
<1>1. \A k \in InRAM(s) : \E a \in DOMAIN s.q : s.q[a] = k
  BY SMTT(30) DEF Fine, Queue, In, InRAM
<1>2. CASE policy = "SCFIFO"
  BY <1>1, <1>2 DEF Fair, MayGo, Accessed
<1>3. CASE policy = "NFUA"
  BY <1>1, <1>3 DEF Fair, MayGo, AgeOf
<1>4. CASE policy = "LAPA"
  <2>1. \A k \in DOMAIN s.q : BitsOf(AgeOf(s, m)) <= BitsOf(AgeOf(s, k))
    BY <1>4 DEF Fair
  <2>2. \A k \in DOMAIN s.q : BitsOf(s.pages[s.q[m]].age) <= BitsOf(s.pages[s.q[k]].age)
    BY <2>1 DEF AgeOf
  <2>3. \A k \in InRAM(s) : BitsOf(s.pages[s.q[m]].age) <= BitsOf(s.pages[k].age)
    BY <1>1, <2>2
  <2> QED
    BY <1>4, <2>3 DEF MayGo
<1>5. CASE policy = "AQ"
  <2>1. s.q \in Seq(Recs) /\ m = 1
    BY <1>5, StateIs DEF Fair
  <2> QED
    BY <1>5, <2>1 DEF MayGo
<1> QED
  BY <1>2, <1>3, <1>4, <1>5, PagingAssumption

\* A swap is fair, and leaves room in the queue.
LEMMA SwapIsFair ==
    ASSUME NEW s \in State, NEW n, Fine(s, n), policy \in Policies
    PROVE  LET t == swapToFile(s)
           IN  \/ Broken(t)
               \/ /\ Fine(t, n) /\ FairStep(s, t)
                  /\ \A x \in Pages : "PG" \in s.pte[x] => "PG" \in t.pte[x]
<1> DEFINE t == swapToFile(s)
<1>1. CASE Broken(t)
  BY <1>1
<1>2. CASE ~Broken(t)
  <2>1. PICK m \in DOMAIN s.q : Fine(t, n) /\ GoesOut(s, t, m)
    BY <1>2, Swaps
  <2> HIDE DEF t
  <2>2. ASSUME NEW i \in Recs, s.pages[i].ram, Out(t, i) PROVE MayGo(s, i)
    <3>1. i = s.q[m]
      BY <2>1, <2>2 DEF GoesOut, Out
    <3> QED
      BY <2>1, <3>1, FairGoes DEF GoesOut
  <2>3. \A x \in Pages : "PG" \in s.pte[x] => "PG" \in t.pte[x]
    BY <2>1 DEF GoesOut
  <2> QED
    BY <2>1, <2>2, <2>3 DEF FairStep, t
<1> QED
  BY <1>1, <1>2

\* What a step may give: a broken state, or a fine one reached fairly.
Good(s, t, n) == t.broken = TRUE \/ (Fine(t, n) /\ FairStep(s, t))

\* A swap stays fair when later changes swap nothing out.
LEMMA FairThen ==
    ASSUME NEW s, NEW u, NEW t, FairStep(s, u), \A j \in Recs : Out(t, j) => t.pages[j] = u.pages[j]
    PROVE  FairStep(s, t)
<1>1. \A j \in Recs : Out(t, j) => Out(u, j)
  BY DEF Out
<1> QED
  BY <1>1 DEF FairStep

\* Nothing that swaps no page out is unfair.
LEMMA FairStays ==
    ASSUME NEW s, NEW t, \A j \in Recs : Out(t, j) => t.pages[j].ram = s.pages[j].ram
    PROVE  FairStep(s, t)
  BY DEF FairStep, Out

\* What Becomes makes of the variables.
LEMMA NowIs == ASSUME NEW t \in State, Becomes(t) PROVE Now' = t
<1>1. t = [pages |-> t.pages, q |-> t.q, offq |-> t.offq, top |-> t.top, paged |-> t.paged,
           pte |-> t.pte, swapFile |-> t.swapFile, broken |-> t.broken]
  BY StateIs
<1> QED
  BY <1>1 DEF Becomes, Now

\* The action property, in these terms.
Victims == \A i \in Recs : ~broken' /\ pages[i].ram /\ Out(Now', i) => MayGo(Now, i)

\* A step that gives a good state keeps the invariant.
LEMMA StepIsGood ==
    ASSUME PagingInv, NEW t, NEW n, Becomes(t), sz' = n, policy' = policy, Good(Now, t, n)
    PROVE  PagingInv' /\ Victims
<1>1. CASE t.broken = TRUE
  BY <1>1 DEF PagingInv, Victims, Becomes
<1>2. CASE Fine(t, n) /\ FairStep(Now, t)
  <2>1. Now' = t
    BY <1>2, NowIs DEF Fine
  <2>2. PagingInv'
    BY <1>2, <2>1 DEF PagingInv
  <2>3. Now.pages = pages
    BY DEF Now
  <2> QED
    BY <1>2, <2>1, <2>2, <2>3 DEF Victims, FairStep
<1> QED
  BY <1>1, <1>2 DEF Good

\* While the process runs.
LEMMA NowFine ==
    ASSUME PagingInv, Running
    PROVE  /\ Fine(Now, sz) /\ Now \in State /\ sz \in Nat /\ policy \in Policies
           /\ Now.pages = pages /\ Now.pte = pte /\ Now.broken = FALSE /\ broken = FALSE
           /\ Now.paged = paged /\ Now.swapFile = swapFile
<1>1. Fine(Now, sz) /\ Now \in State /\ sz \in Nat /\ policy \in Policies
  BY DEF PagingInv, Running, Fine
<1>2. /\ Now.pages = pages /\ Now.pte = pte /\ Now.broken = broken
      /\ Now.paged = paged /\ Now.swapFile = swapFile
  BY DEF Now
<1>3. Now.broken \in BOOLEAN
  BY <1>1, StateIs
<1> QED
  BY <1>1, <1>2, <1>3 DEF Running

\* Other flags, the same marks.
LEMMA FlagsChange ==
    ASSUME NEW s \in State, NEW n, Fine(s, n), NEW p \in [Pages -> SUBSET {"A", "W", "PG"}],
           \A x \in Pages : "PG" \in p[x] <=> "PG" \in s.pte[x]
    PROVE  Good(s, [s EXCEPT !.pte = p], n)
<1> DEFINE t == [s EXCEPT !.pte = p]
<1>1. t \in State
  BY DEF State
<1>2. /\ t.pages = s.pages /\ t.q = s.q /\ t.offq = s.offq /\ t.top = s.top
      /\ t.swapFile = s.swapFile /\ t.broken = s.broken /\ t.pte = p
  BY <1>1 DEF State
<1> HIDE DEF t
<1>3. n \in Nat /\ Queue(t) /\ Owned(t, n)
  BY <1>2 DEF Fine, Queue, Owned, In
<1>4. Marks(t)
  <2>1. \A j \in Recs : s.pages[j].alloc => s.pages[j].va \in Pages
    BY <1>3, PageOf DEF Fine
  <2> QED
    BY <1>2, <2>1 DEF Fine, Marks
<1>5. SlotsBut(t, {})
  BY <1>2, SlotsSame DEF Fine
<1>6. Fine(t, n)
  BY <1>1, <1>2, <1>3, <1>4, <1>5 DEF Fine
<1>7. FairStep(s, t)
  BY <1>2, FairStays
<1> QED
  BY <1>6, <1>7 DEF Good, t

\* allocuvm makes room first.
LEMMA SwapsFirst ==
    ASSUME NEW s \in State, NEW n, Fine(s, n), policy \in Policies, NEW t, t \in {s, swapToFile(s)}
    PROVE  \/ Broken(t)
           \/ /\ t \in State /\ Fine(t, n) /\ FairStep(s, t)
              /\ \A x \in Pages : "PG" \in s.pte[x] => "PG" \in t.pte[x]
<1>1. CASE t = s
  <2>1. FairStep(s, s)
    BY DEF FairStep, Out
  <2> QED
    BY <1>1, <2>1
<1>2. CASE t = swapToFile(s)
  BY <1>2, SwapIsFair DEF Fine
<1> QED
  BY <1>1, <1>2

\* sbrk with a page more.
LEMMA GrowKeeps == ASSUME PagingInv, Grow PROVE PagingInv' /\ Victims
<1> DEFINE s == AllocSwap(Now, sz)
           t == AllocPage(s, sz)
<1>0. Running /\ Becomes(t) /\ sz' = sz + 1 /\ policy' = policy
  BY DEF Grow
<1>1. Fine(Now, sz) /\ Now \in State /\ policy \in Policies
  BY <1>0, NowFine
<1>2. s \in {Now, swapToFile(Now)}
  BY DEF AllocSwap
<1>3. Broken(s) \/ (s \in State /\ Fine(s, sz) /\ FairStep(Now, s))
  BY <1>1, <1>2, SwapsFirst
<1> HIDE DEF s
<1>4. Good(Now, t, sz + 1)
  <2>1. CASE Broken(s)
    <3>1. t = [s EXCEPT !.broken = TRUE]
      BY <2>1 DEF AllocPage, Broken
    <3>2. Broken([s EXCEPT !.broken = TRUE])
      BY <2>1, Breaks DEF Broken
    <3>3. Broken(t)
      BY <3>1, <3>2, Zenon
    <3> QED
      BY <3>3 DEF Good, Broken
  <2>2. CASE s \in State /\ Fine(s, sz) /\ FairStep(Now, s)
    <3>1. Broken(t) \/ (Fine(t, sz + 1) /\ \A j \in Recs : Out(t, j) => t.pages[j] = s.pages[j])
      BY <2>2, Allocates
    <3> HIDE DEF t
    <3> QED
      BY <2>2, <3>1, FairThen DEF Good, Broken
  <2> QED
    BY <1>3, <2>1, <2>2
<1> HIDE DEF t
<1> QED
  BY <1>0, <1>4, StepIsGood

\* sbrk whose allocuvm fails gives the new pages back.
LEMMA GrowFailsKeeps == ASSUME PagingInv, NEW n \in 1 .. 2, GrowFails(n) PROVE PagingInv' /\ Victims
<1> DEFINE s == AllocSwap(Now, sz)
           t == AllocPage(s, sz)
<1>0. Running /\ sz' = sz /\ policy' = policy
  BY DEF GrowFails, Idle
<1>1. Fine(Now, sz) /\ Now \in State /\ policy \in Policies
  BY <1>0, NowFine
<1>2. s \in {Now, swapToFile(Now)}
  BY DEF AllocSwap
<1>3. Broken(s) \/ (s \in State /\ Fine(s, sz) /\ FairStep(Now, s))
  BY <1>1, <1>2, SwapsFirst
<1>4. CASE n = 1
  <2>1. Becomes(s)
    BY <1>4 DEF GrowFails
  <2>2. Good(Now, s, sz)
    BY <1>3 DEF Good, Broken
  <2> HIDE DEF s
  <2> QED
    BY <1>0, <2>1, <2>2, StepIsGood
<1>5. CASE n # 1
  <2>1. Becomes([t EXCEPT !.broken = TRUE])
    BY <1>5 DEF GrowFails
  <2> HIDE DEF s
  <2>2. t \in State
    <3>1. CASE Broken(s)
      <4>1. t = [s EXCEPT !.broken = TRUE]
        BY <3>1 DEF AllocPage, Broken
      <4>2. Broken([s EXCEPT !.broken = TRUE])
        BY <3>1, Breaks DEF Broken
      <4>3. Broken(t)
        BY <4>1, <4>2, Zenon
      <4> QED
        BY <4>3 DEF Broken
    <3>2. CASE s \in State /\ Fine(s, sz)
      <4>1. Broken(t) \/ Fine(t, sz + 1)
        BY <3>2, Allocates
      <4> QED
        BY <4>1 DEF Broken, Fine
    <3> QED
      BY <1>3, <3>1, <3>2
  <2> HIDE DEF t
  <2>3. [t EXCEPT !.broken = TRUE].broken = TRUE
    BY <2>2, Breaks DEF Broken
  <2>4. Good(Now, [t EXCEPT !.broken = TRUE], sz)
    BY <2>3 DEF Good
  <2> QED
    BY <1>0, <2>1, <2>4, StepIsGood
<1> QED
  BY <1>4, <1>5

\* sbrk with a page less.
LEMMA ShrinkKeeps == ASSUME PagingInv, Shrink PROVE PagingInv' /\ Victims
<1> DEFINE t == deallocatePage(Now, sz - 1)
<1>0. Running /\ Becomes(t) /\ sz' = sz - 1 /\ policy' = policy /\ sz > 1
  BY DEF Shrink
<1>1. Fine(Now, sz) /\ Now \in State /\ policy \in Policies /\ sz \in Nat \ {0}
  BY <1>0, NowFine
<1>2. \/ t.broken = TRUE
      \/ Fine(t, sz - 1) /\ \A j \in Recs : Out(t, j) => t.pages[j] = Now.pages[j]
  BY <1>1, Deallocates
<1> HIDE DEF t
<1>3. Good(Now, t, sz - 1)
  BY <1>2, FairStays DEF Good
<1> QED
  BY <1>0, <1>3, StepIsGood

\* An access, which brings the page back if it is out.
LEMMA TouchKeeps == ASSUME PagingInv, NEW va \in Recs, Touch(va) PROVE PagingInv' /\ Victims
<1> DEFINE p == [Now.pte EXCEPT ![va] = @ \cup {"A"}]
           t == [Now EXCEPT !.pte = p]
<1>0. Running /\ Becomes([Now EXCEPT !.pte[va] = @ \cup {"A"}]) /\ sz' = sz /\ policy' = policy
  BY DEF Touch, Idle
<1>1. Fine(Now, sz) /\ Now \in State
  BY <1>0, NowFine
<1>2. Now.pte \in [Pages -> SUBSET {"A", "W", "PG"}] /\ va \in Pages
  BY <1>1, StateIs, PagingAssumption, SMTT(30) DEF Recs, Pages
<1>3. p \in [Pages -> SUBSET {"A", "W", "PG"}] /\ \A x \in Pages : "PG" \in p[x] <=> "PG" \in Now.pte[x]
  <2>1. Now.pte[va] \cup {"A"} \in SUBSET {"A", "W", "PG"}
    BY <1>2
  <2> QED
    BY <1>2, <2>1
<1>4. [Now EXCEPT !.pte[va] = @ \cup {"A"}] = t
  BY <1>1 DEF State
<1>5. Becomes(t)
  BY <1>0, <1>4, Zenon
<1> HIDE DEF p
<1>6. Good(Now, t, sz)
  BY <1>1, <1>3, FlagsChange
<1> HIDE DEF t
<1> QED
  BY <1>0, <1>5, <1>6, StepIsGood

\* A write to a page that fork made read-only.
LEMMA WriteFaultKeeps == ASSUME PagingInv, NEW va \in Recs, WriteFault(va) PROVE PagingInv' /\ Victims
<1>0. Running /\ sz' = sz /\ policy' = policy /\ va < sz
  BY DEF WriteFault, Idle
<1>1. /\ Fine(Now, sz) /\ Now \in State /\ policy \in Policies /\ sz \in Nat /\ Now.pte = pte
      /\ va \in Pages /\ va \in 0 .. sz - 1
  <2>1. Fine(Now, sz) /\ Now \in State /\ policy \in Policies /\ sz \in Nat /\ Now.pte = pte
    BY <1>0, NowFine
  <2>2. va \in Pages /\ va \in 0 .. sz - 1
    BY <1>0, <2>1, PagingAssumption DEF Recs, Pages
  <2> QED
    BY <2>1, <2>2
<1>2. CASE "PG" \in pte[va]
  <2> DEFINE s == MakeRoom(Now)
             t == LoadPage(s, va)
  <2>1. s \in {Now, swapToFile(Now)}
    BY DEF MakeRoom
  <2>2. \/ Broken(s)
        \/ s \in State /\ Fine(s, sz) /\ FairStep(Now, s) /\ "PG" \in s.pte[va]
    BY <1>1, <1>2, <2>1, SwapsFirst
  <2> HIDE DEF s
  <2>3. Good(Now, t, sz)
    <3>1. CASE Broken(s)
      <4>1. t = [s EXCEPT !.broken = TRUE]
        BY <3>1 DEF LoadPage, Broken
      <4>2. Broken([s EXCEPT !.broken = TRUE])
        BY <3>1, Breaks DEF Broken
      <4>3. Broken(t)
        BY <4>1, <4>2, Zenon
      <4> QED
        BY <4>3 DEF Good, Broken
    <3>2. CASE s \in State /\ Fine(s, sz) /\ FairStep(Now, s) /\ "PG" \in s.pte[va]
      <4>1. Broken(t) \/ (Fine(t, sz) /\ \A j \in Recs : Out(t, j) => t.pages[j] = s.pages[j])
        BY <1>1, <3>2, LoadsPage
      <4> HIDE DEF t
      <4> QED
        BY <3>2, <4>1, FairThen DEF Good, Broken
    <3> QED
      BY <2>2, <3>1, <3>2
  <2>4. Good(Now, s, sz)
    BY <2>2 DEF Good, Broken
  <2>5. Becomes(t) \/ Becomes(s)
    BY <1>2 DEF WriteFault, s
  <2> HIDE DEF t
  <2> QED
    BY <1>0, <2>3, <2>4, <2>5, StepIsGood
<1>3. CASE "PG" \notin pte[va]
  <2> DEFINE p == [Now.pte EXCEPT ![va] = @ \cup {"W"}]
             q == [Now.pte EXCEPT ![va] = {"W"}]
  <2>1. Now.pte \in [Pages -> SUBSET {"A", "W", "PG"}]
    BY <1>1, StateIs
  <2>2. p \in [Pages -> SUBSET {"A", "W", "PG"}] /\ \A x \in Pages : "PG" \in p[x] <=> "PG" \in Now.pte[x]
    <3>1. Now.pte[va] \cup {"W"} \in SUBSET {"A", "W", "PG"}
      BY <1>1, <2>1
    <3> QED
      BY <1>1, <2>1, <3>1
  <2>3. q \in [Pages -> SUBSET {"A", "W", "PG"}] /\ \A x \in Pages : "PG" \in q[x] <=> "PG" \in Now.pte[x]
    BY <1>1, <1>3, <2>1
  <2>4. /\ [Now EXCEPT !.pte[va] = @ \cup {"W"}] = [Now EXCEPT !.pte = p]
        /\ [Now EXCEPT !.pte[va] = {"W"}] = [Now EXCEPT !.pte = q]
    BY <1>1 DEF State
  <2>5. Becomes([Now EXCEPT !.pte[va] = @ \cup {"W"}]) \/ Becomes([Now EXCEPT !.pte[va] = {"W"}])
    BY <1>3 DEF WriteFault
  <2>6. Becomes([Now EXCEPT !.pte = p]) \/ Becomes([Now EXCEPT !.pte = q])
    BY <2>4, <2>5, Zenon
  <2> HIDE DEF p, q
  <2>7. Good(Now, [Now EXCEPT !.pte = p], sz) /\ Good(Now, [Now EXCEPT !.pte = q], sz)
    BY <1>1, <2>2, <2>3, FlagsChange
  <2> DEFINE t == [Now EXCEPT !.pte = p]
             u == [Now EXCEPT !.pte = q]
  <2>8. (Becomes(t) \/ Becomes(u)) /\ Good(Now, t, sz) /\ Good(Now, u, sz)
    BY <2>6, <2>7
  <2> HIDE DEF t, u
  <2> QED
    BY <1>0, <2>8, StepIsGood
<1> QED
  BY <1>2, <1>3

\* fork makes the pages read-only and leaves the marks.
LEMMA ReadOnlyIs ==
    ASSUME NEW p \in [Pages -> SUBSET {"A", "W", "PG"}]
    PROVE  /\ ReadOnly(p) \in [Pages -> SUBSET {"A", "W", "PG"}]
           /\ \A x \in Pages : "PG" \in ReadOnly(p)[x] <=> "PG" \in p[x]
<1>1. \A x \in Pages : p[x] \ {"W"} \in SUBSET {"A", "W", "PG"}
  OBVIOUS
<1> QED
  BY <1>1 DEF ReadOnly

\* fork, in the parent.
LEMMA ForkParentKeeps == ASSUME PagingInv, ForkParent PROVE PagingInv' /\ Victims
<1> DEFINE p == ReadOnly(Now.pte)
           t == [Now EXCEPT !.pte = p]
<1>0. Running /\ Becomes(t) /\ sz' = sz /\ policy' = policy
  BY DEF ForkParent, Idle
<1>1. Fine(Now, sz) /\ Now \in State
  BY <1>0, NowFine
<1>2. p \in [Pages -> SUBSET {"A", "W", "PG"}] /\ \A x \in Pages : "PG" \in p[x] <=> "PG" \in Now.pte[x]
  BY <1>1, StateIs, ReadOnlyIs
<1> HIDE DEF p
<1>3. Good(Now, t, sz)
  BY <1>1, <1>2, FlagsChange
<1> HIDE DEF t
<1> QED
  BY <1>0, <1>3, StepIsGood

\* The child's file is cut after numberOfPagedOut slots.
LEMMA ForkChildKeeps == ASSUME PagingInv, ForkChild PROVE PagingInv' /\ Victims
<1> DEFINE p == ReadOnly(Now.pte)
           s == [Now EXCEPT !.pte = p]
           F == [k \in 1 .. paged |-> IF k \in DOMAIN swapFile THEN swapFile[k] ELSE Nowhere]
           b == \E i \in Recs : pages[i].off >= paged
           t == [Now EXCEPT !.pte = p, !.swapFile = F, !.broken = b]
<1>0. Running /\ sz' = sz /\ policy' = policy
  BY DEF ForkChild, Idle
<1>1. /\ Fine(Now, sz) /\ Now \in State /\ Now.pages = pages /\ Now.broken = FALSE
      /\ Now.paged = paged /\ Now.swapFile = swapFile
  BY <1>0, NowFine
<1>2. Becomes(t)
  <2>1. t = [Now EXCEPT !.pte = ReadOnly(@),
                        !.swapFile = [k \in 1 .. paged |-> IF k \in DOMAIN @ THEN @[k] ELSE Nowhere],
                        !.broken = \E i \in Recs : pages[i].off >= paged]
    BY <1>1
  <2>2. Becomes([Now EXCEPT !.pte = ReadOnly(@),
                            !.swapFile = [k \in 1 .. paged |-> IF k \in DOMAIN @ THEN @[k] ELSE Nowhere],
                            !.broken = \E i \in Recs : pages[i].off >= paged])
    BY DEF ForkChild
  <2> QED
    BY <2>1, <2>2, Zenon
<1>3. p \in [Pages -> SUBSET {"A", "W", "PG"}] /\ \A x \in Pages : "PG" \in p[x] <=> "PG" \in Now.pte[x]
  BY <1>1, StateIs, ReadOnlyIs
<1>4. paged \in Int /\ swapFile \in Seq(Int)
  BY <1>1, StateIs
<1>5. F \in Seq(Int)
  <2> DEFINE l == IF paged < 0 THEN 0 ELSE paged
  <2>1. l \in Nat /\ 1 .. paged = 1 .. l
    BY <1>4
  <2>2. \A k \in DOMAIN swapFile : swapFile[k] \in Int
    BY <1>4
  <2>3. F \in [1 .. l -> Int]
    BY <2>1, <2>2 DEF Nowhere
  <2> QED
    BY <2>1, <2>3
<1>6. b \in BOOLEAN
  OBVIOUS
<1>7. DOMAIN F = 1 .. paged /\ \A k \in 1 .. paged : k \in DOMAIN swapFile => F[k] = swapFile[k]
  OBVIOUS
<1> HIDE DEF p, F, b
<1>8. Good(Now, s, sz) /\ s.broken = FALSE /\ s.pages = pages
  <2>1. Good(Now, [Now EXCEPT !.pte = p], sz)
    BY <1>1, <1>3, FlagsChange
  <2> QED
    BY <1>1, <2>1 DEF State
<1>9. t \in State
  BY <1>1, <1>3, <1>5, <1>6 DEF State
<1>10. /\ t.pages = s.pages /\ t.q = s.q /\ t.offq = s.offq /\ t.top = s.top /\ t.pte = s.pte
       /\ t.swapFile = F /\ t.broken = b /\ s.swapFile = swapFile
  BY <1>1, <1>9 DEF State
<1> HIDE DEF s, t
<1>11. CASE b
  <2>1. t.broken = TRUE
    BY <1>10, <1>11
  <2>2. Good(Now, t, sz)
    BY <2>1 DEF Good
  <2> QED
    BY <1>0, <1>2, <2>2, StepIsGood
<1>12. CASE ~b
  <2>1. Fine(s, sz) /\ FairStep(Now, s)
    BY <1>8 DEF Good
  <2>2. \A i \in Recs : pages[i].off < paged
    <3>1. \A i \in Recs : pages[i].off \in Int
      BY <1>1, StateIs DEF Record
    <3> QED
      BY <1>4, <1>12, <3>1 DEF b
  <2>3. sz \in Nat /\ Queue(t) /\ Owned(t, sz) /\ Marks(t)
    BY <1>10, <2>1 DEF Fine, Queue, Owned, Marks, In
  <2>4. \A i \in Recs : Out(t, i) <=> Out(s, i)
    BY <1>10 DEF Out
  <2>5. SlotsBut(s, {}) /\ \A i \in Recs : s.pages[i].off \in Int /\ s.top \in Nat
    BY <2>1, StateIs DEF Fine, Record
  <2>6. ASSUME NEW i \in Recs, Out(t, i)
        PROVE  /\ t.pages[i].off \in 0 .. t.top - 1
               /\ t.pages[i].off + 1 \in DOMAIN t.swapFile
               /\ t.swapFile[t.pages[i].off + 1] = t.pages[i].va
    <3>1. /\ s.pages[i].off \in 0 .. s.top - 1
          /\ s.pages[i].off + 1 \in DOMAIN swapFile
          /\ swapFile[s.pages[i].off + 1] = s.pages[i].va
      BY <1>10, <2>4, <2>5, <2>6 DEF SlotsBut
    <3>2. s.pages[i].off < paged /\ s.pages[i].off + 1 \in 1 .. paged
      BY <1>4, <1>8, <2>2, <3>1
    <3> QED
      BY <1>7, <1>10, <3>1, <3>2
  <2>7. SlotsBut(t, {})
    BY <1>10, <2>4, <2>5, <2>6 DEF SlotsBut
  <2>8. Fine(t, sz)
    BY <1>9, <1>10, <1>12, <2>3, <2>7 DEF Fine
  <2>9. FairStep(Now, t)
    BY <1>10, <2>1 DEF FairStep, Out
  <2>10. Good(Now, t, sz)
    BY <2>8, <2>9 DEF Good
  <2> QED
    BY <1>0, <1>2, <2>10, StepIsGood
<1> QED
  BY <1>11, <1>12

\* The update of the ages after each run.
LEMMA AfterRunKeeps == ASSUME PagingInv, AfterRun PROVE PagingInv' /\ Victims
<1> DEFINE P == [i \in Recs |->
                   IF ~pages[i].alloc THEN pages[i]
                   ELSE [pages[i] EXCEPT !.age = (@ \div 2) +
                            (IF "A" \in pte[pages[i].va] THEN 2^(AgeBits - 1) ELSE 0)]]
           p == [v \in Pages |-> pte[v] \ {"A"}]
           t == [Now EXCEPT !.pages = P, !.pte = p]
<1>0. Running /\ Becomes(t) /\ sz' = sz /\ policy' = policy
  BY DEF AfterRun, Idle
<1>1. /\ Fine(Now, sz) /\ Now \in State /\ Now.pages = pages /\ Now.pte = pte /\ Now.broken = FALSE
  BY <1>0, NowFine
<1>2. pages \in [Recs -> Record] /\ pte \in [Pages -> SUBSET {"A", "W", "PG"}]
  BY <1>1, StateIs
<1>3. ASSUME NEW i \in Recs
      PROVE  /\ P[i] \in Record /\ P[i].va = pages[i].va /\ P[i].off = pages[i].off
             /\ P[i].ram = pages[i].ram /\ P[i].alloc = pages[i].alloc
  <2>1. pages[i] \in Record
    BY <1>2
  <2>2. CASE ~pages[i].alloc
    BY <2>1, <2>2
  <2>3. CASE pages[i].alloc
    <3> DEFINE a == (pages[i].age \div 2) + (IF "A" \in pte[pages[i].va] THEN 2^(AgeBits - 1) ELSE 0)
    <3>1. pages[i].age \in Nat
      BY <2>1 DEF Record
    <3>2. pages[i].age \div 2 \in Nat
      BY <3>1
    <3>3. a \in Nat
      BY <3>2, PagingAssumption
    <3>4. P[i] = [pages[i] EXCEPT !.age = a]
      BY <2>3
    <3> HIDE DEF a, P
    <3> QED
      BY <2>1, <3>3, <3>4 DEF Record
  <2> QED
    BY <2>2, <2>3
<1>4. P \in [Recs -> Record]
  <2>1. \A i \in Recs : P[i] \in Record
    BY <1>3
  <2>2. P = [i \in Recs |-> P[i]]
    OBVIOUS
  <2> HIDE DEF P
  <2> QED
    BY <2>1, <2>2
<1>5. p \in [Pages -> SUBSET {"A", "W", "PG"}] /\ \A x \in Pages : "PG" \in p[x] <=> "PG" \in pte[x]
  <2>1. \A x \in Pages : pte[x] \ {"A"} \in SUBSET {"A", "W", "PG"}
    BY <1>2
  <2> QED
    BY <2>1
<1> HIDE DEF P, p
<1>6. t \in State
  BY <1>1, <1>4, <1>5 DEF State
<1>7. /\ t.pages = P /\ t.q = Now.q /\ t.offq = Now.offq /\ t.top = Now.top /\ t.pte = p
      /\ t.swapFile = Now.swapFile /\ t.broken = FALSE
  BY <1>1, <1>6 DEF State
<1> HIDE DEF t
<1>8. /\ \A i \in Recs :
            /\ t.pages[i].va = Now.pages[i].va /\ t.pages[i].off = Now.pages[i].off
            /\ t.pages[i].ram = Now.pages[i].ram /\ t.pages[i].alloc = Now.pages[i].alloc
  BY <1>1, <1>3, <1>7
<1>9. \A i \in Recs : (In(t, i) <=> In(Now, i)) /\ (Out(t, i) <=> Out(Now, i))
  BY <1>8 DEF In, Out
<1>10. sz \in Nat /\ Queue(t) /\ Owned(t, sz)
  BY <1>1, <1>7, <1>8, <1>9 DEF Fine, Queue, Owned
<1>11. Marks(t)
  <2>1. \A j \in Recs : Now.pages[j].alloc => Now.pages[j].va \in Pages
    BY <1>1, <1>10, PageOf DEF Fine
  <2> QED
    BY <1>1, <1>5, <1>7, <1>8, <2>1 DEF Fine, Marks
<1>12. SlotsBut(t, {})
  <2>1. SlotsBut(Now, {})
    BY <1>1 DEF Fine
  <2> QED
    BY <1>7, <1>8, <1>9, <2>1 DEF SlotsBut
<1>13. Good(Now, t, sz)
  <2>1. Fine(t, sz)
    BY <1>6, <1>7, <1>10, <1>11, <1>12 DEF Fine
  <2>2. FairStep(Now, t)
    BY <1>8, FairStays
  <2> QED
    BY <2>1, <2>2 DEF Good
<1> QED
  BY <1>0, <1>13, StepIsGood

\* A record that is not in use.
LEMMA NoPageIs ==
    ASSUME NEW a \in Nat
    PROVE  /\ NoPage(a) \in Record /\ NoPage(a).alloc = FALSE /\ NoPage(a).age = a
<1>1. NoPage(a) \in Record
  BY DEF NoPage, NoSlot, Record
<1> QED
  BY <1>1 DEF NoPage, Record

\* A record of page v in memory.
LEMMA InMemoryIs ==
    ASSUME NEW r \in Record, NEW v \in Nat
    PROVE  LET e == [r EXCEPT !.alloc = TRUE, !.va = v, !.ram = TRUE]
           IN  e \in Record /\ e.alloc = TRUE /\ e.va = v /\ e.ram = TRUE
<1> DEFINE e == [r EXCEPT !.alloc = TRUE, !.va = v, !.ram = TRUE]
<1>1. e \in Record
  BY DEF Record
<1> QED
  BY <1>1 DEF Record

\* Records, queue and flags of a process whose n pages are all in memory.
LEMMA AllInMemory ==
    ASSUME NEW t \in State, NEW n \in Nat, n <= MAX_PSYC_PAGES, t.broken = FALSE,
           \A i \in Recs : t.pages[i].alloc <=> i < n,
           \A i \in Recs : i < n => t.pages[i].va = i /\ t.pages[i].ram,
           Len(t.q) = n, \A k \in 1 .. n : t.q[k] = k - 1,
           t.offq = << >>, t.top = 0,
           \A v \in Pages : "PG" \notin t.pte[v]
    PROVE  Fine(t, n) /\ \A i \in Recs : ~Out(t, i)
<1>0. /\ n <= MAX_TOTAL_PAGES /\ MAX_TOTAL_PAGES \in Nat /\ DOMAIN t.q = 1 .. n
      /\ \A i \in Recs : i \in Nat
  <2>1. t.q \in Seq(Recs)
    BY StateIs
  <2> QED
    BY <2>1, PagingAssumption DEF Recs
<1>1. \A i \in Recs : (In(t, i) <=> i < n) /\ ~Out(t, i)
  BY DEF In, Out
<1>2. Queue(t)
  <2>1. \A a, b \in DOMAIN t.q : t.q[a] = t.q[b] => a = b
    BY <1>0
  <2>2. ASSUME NEW i \in Recs PROVE In(t, i) <=> \E a \in DOMAIN t.q : t.q[a] = i
    <3>1. CASE i < n
      <4>1. i + 1 \in 1 .. n /\ (i + 1) - 1 = i
        BY <1>0, <3>1
      <4>2. t.q[i + 1] = i
        BY <4>1
      <4> QED
        BY <1>0, <1>1, <3>1, <4>1, <4>2
    <3>2. CASE ~(i < n)
      <4>1. \A a \in 1 .. n : t.q[a] # i
        BY <1>0, <3>2
      <4> QED
        BY <1>0, <1>1, <3>2, <4>1
    <3> QED
      BY <3>1, <3>2
  <2> QED
    BY <2>1, <2>2 DEF Queue
<1>3. Owned(t, n)
  <2>1. \A v \in 0 .. n - 1 : v \in Recs /\ v < n
    BY <1>0 DEF Recs
  <2> QED
    BY <1>0, <2>1 DEF Owned
<1>4. Marks(t)
  <2>1. \A i \in Recs : i \in Pages
    BY <1>0 DEF Recs, Pages
  <2> QED
    BY <2>1 DEF Marks
<1>5. SlotsBut(t, {})
  <2>1. DOMAIN t.offq = {} /\ 0 .. t.top - 1 = {}
    OBVIOUS
  <2> QED
    BY <1>1, <2>1 DEF SlotsBut
<1> QED
  BY <1>1, <1>2, <1>3, <1>4, <1>5 DEF Fine

\* What exec builds, while the old image is kept aside.
LEMMA Images ==
    ASSUME Now \in State, Now.broken = FALSE, NEW n \in 0 .. MAX_PSYC_PAGES + 1
    PROVE  LET t == NewImage(n)
           IN  /\ t \in State
               /\ n > MAX_PSYC_PAGES => t.broken = TRUE
               /\ n <= MAX_PSYC_PAGES =>
                     /\ t.broken = FALSE /\ Len(t.q) = n /\ \A k \in 1 .. n : t.q[k] = k - 1
                     /\ \A i \in Recs : t.pages[i].alloc <=> i < n
                     /\ \A i \in Recs : i < n => t.pages[i].va = i /\ t.pages[i].ram
                     /\ t.offq = << >> /\ t.top = 0 /\ t.swapFile = Now.swapFile
                     /\ \A v \in Pages : "PG" \notin t.pte[v]
<1> DEFINE P0 == [i \in Recs |-> NoPage(Now.pages[i].age)]
           p0 == [v \in Pages |-> {}]
           s == [Now EXCEPT !.pages = P0, !.q = << >>, !.offq = << >>, !.top = 0, !.paged = 0, !.pte = p0]
           P == [i \in Recs |-> IF i < n THEN [s.pages[i] EXCEPT !.alloc = TRUE, !.va = i, !.ram = TRUE]
                                ELSE s.pages[i]]
           q == [k \in 1 .. n |-> k - 1]
           p == [v \in Pages |-> IF v < n THEN {"W"} ELSE {}]
           t == [s EXCEPT !.pages = P, !.q = q, !.pte = p]
<1>0. /\ MAX_PSYC_PAGES \in Nat /\ n \in Nat /\ MAX_PSYC_PAGES <= MAX_TOTAL_PAGES
      /\ MAX_TOTAL_PAGES \in Nat /\ \A i \in Recs : i \in Nat
  BY PagingAssumption DEF Recs
<1>1. initPagesData(Now) = s
  BY DEF initPagesData
<1>2. \A i \in Recs : Now.pages[i].age \in Nat
  BY StateIs DEF Record
<1>3. P0 \in [Recs -> Record] /\ \A i \in Recs : P0[i] = NoPage(Now.pages[i].age)
  BY <1>2, NoPageIs
<1>4. p0 \in [Pages -> SUBSET {"A", "W", "PG"}] /\ << >> \in Seq(Recs) /\ << >> \in Seq(Nat)
  OBVIOUS
<1> HIDE DEF P0, p0
<1>5. s \in State
  <2> DEFINE e == << >>
             z == 0
  <2>1. /\ P0 \in [Recs -> Record] /\ p0 \in [Pages -> SUBSET {"A", "W", "PG"}]
        /\ e \in Seq(Recs) /\ e \in Seq(Nat) /\ z \in Nat /\ z \in Int
    BY <1>3, <1>4
  <2> HIDE DEF e, z
  <2>2. [Now EXCEPT !.pages = P0, !.q = e, !.offq = e, !.top = z, !.paged = z, !.pte = p0] \in State
    BY <2>1 DEF State
  <2> QED
    BY <2>2 DEF e, z
<1>6. /\ s.pages = P0 /\ s.offq = << >> /\ s.top = 0 /\ s.swapFile = Now.swapFile
      /\ s.broken = FALSE
  BY <1>5 DEF State
<1>7. NewImage(n) = IF n > MAX_PSYC_PAGES THEN [s EXCEPT !.broken = TRUE] ELSE t
  BY <1>1 DEF NewImage
<1> HIDE DEF s
<1>8. CASE n > MAX_PSYC_PAGES
  <2>1. NewImage(n) = [s EXCEPT !.broken = TRUE]
    BY <1>7, <1>8
  <2>2. Broken([s EXCEPT !.broken = TRUE])
    BY <1>5, Breaks
  <2>3. Broken(NewImage(n))
    BY <2>1, <2>2, Zenon
  <2> QED
    BY <1>0, <1>8, <2>3 DEF Broken
<1>9. CASE ~(n > MAX_PSYC_PAGES)
  <2>1. NewImage(n) = t
    BY <1>7, <1>9
  <2>2. ASSUME NEW i \in Recs
        PROVE  /\ P[i] \in Record /\ (P[i].alloc <=> i < n)
               /\ i < n => P[i].va = i /\ P[i].ram
    <3>1. CASE i < n
      <4> DEFINE e == s.pages[i]
      <4>1. P[i] = [e EXCEPT !.alloc = TRUE, !.va = i, !.ram = TRUE]
        BY <3>1
      <4>2. e \in Record /\ i \in Nat
        BY <1>0, <1>3, <1>6
      <4> HIDE DEF P, e
      <4>3. LET f == [e EXCEPT !.alloc = TRUE, !.va = i, !.ram = TRUE]
            IN  f \in Record /\ f.alloc = TRUE /\ f.va = i /\ f.ram = TRUE
        BY <4>2, InMemoryIs
      <4> QED
        BY <3>1, <4>1, <4>3
    <3>2. CASE ~(i < n)
      <4> DEFINE a == Now.pages[i].age
      <4>1. P[i] = NoPage(a)
        BY <1>3, <1>6, <3>2
      <4>2. a \in Nat
        BY <1>2
      <4> HIDE DEF P, a
      <4> QED
        BY <3>2, <4>1, <4>2, NoPageIs
    <3> QED
      BY <3>1, <3>2
  <2>3. P \in [Recs -> Record]
    <3>1. P = [i \in Recs |-> P[i]]
      OBVIOUS
    <3> HIDE DEF P
    <3> QED
      BY <2>2, <3>1
  <2>4. q \in Seq(Recs) /\ Len(q) = n /\ \A k \in 1 .. n : q[k] = k - 1
    <3>1. \A k \in 1 .. n : k - 1 \in Recs
      BY <1>0, <1>9 DEF Recs
    <3>2. q \in [1 .. n -> Recs]
      BY <3>1
    <3> QED
      BY <1>0, <3>2
  <2>5. p \in [Pages -> SUBSET {"A", "W", "PG"}] /\ \A v \in Pages : "PG" \notin p[v]
    OBVIOUS
  <2> HIDE DEF P, q, p
  <2>6. t \in State
    BY <1>5, <2>3, <2>4, <2>5 DEF State
  <2>7. /\ t.pages = P /\ t.q = q /\ t.offq = << >> /\ t.top = 0 /\ t.pte = p
        /\ t.swapFile = Now.swapFile /\ t.broken = FALSE
    BY <1>5, <1>6, <2>6 DEF State
  <2> HIDE DEF t
  <2> QED
    BY <1>9, <2>1, <2>2, <2>4, <2>5, <2>6, <2>7
<1> QED
  BY <1>8, <1>9

\* exec that succeeds.
LEMMA ExecKeeps ==
    ASSUME PagingInv, NEW n \in 2 .. MAX_PSYC_PAGES + 1, Exec(n) PROVE PagingInv' /\ Victims
<1> DEFINE s == NewImage(n)
           t == [s EXCEPT !.swapFile = << >>]
<1>0. Running /\ Becomes(t) /\ sz' = n /\ policy' = policy /\ n \in 0 .. MAX_PSYC_PAGES + 1 /\ n \in Nat
  BY PagingAssumption DEF Exec, FreshSwapFile
<1>1. Now \in State /\ Now.broken = FALSE
  BY <1>0, NowFine
<1>2. /\ s \in State
      /\ n > MAX_PSYC_PAGES => s.broken = TRUE
      /\ n <= MAX_PSYC_PAGES =>
            /\ s.broken = FALSE /\ Len(s.q) = n /\ \A k \in 1 .. n : s.q[k] = k - 1
            /\ \A i \in Recs : s.pages[i].alloc <=> i < n
            /\ \A i \in Recs : i < n => s.pages[i].va = i /\ s.pages[i].ram
            /\ s.offq = << >> /\ s.top = 0
            /\ \A v \in Pages : "PG" \notin s.pte[v]
  BY <1>0, <1>1, Images
<1> HIDE DEF s
<1>3. t \in State
  <2> DEFINE e == << >>
             u == [s EXCEPT !.swapFile = e]
  <2>1. e \in Seq(Int) /\ t = u
    OBVIOUS
  <2> HIDE DEF e
  <2>2. u \in State
    BY <1>2, <2>1 DEF State
  <2> QED
    BY <2>1, <2>2
<1>4. /\ t.pages = s.pages /\ t.q = s.q /\ t.offq = s.offq /\ t.top = s.top /\ t.pte = s.pte
      /\ t.broken = s.broken
  BY <1>2 DEF State
<1> HIDE DEF t
<1>5. Good(Now, t, n)
  <2>1. CASE n > MAX_PSYC_PAGES
    BY <1>2, <1>4, <2>1 DEF Good
  <2>2. CASE ~(n > MAX_PSYC_PAGES)
    <3>1. n <= MAX_PSYC_PAGES
      BY <1>0, <2>2, PagingAssumption
    <3>2. /\ t.broken = FALSE /\ Len(t.q) = n /\ \A k \in 1 .. n : t.q[k] = k - 1
          /\ \A i \in Recs : t.pages[i].alloc <=> i < n
          /\ \A i \in Recs : i < n => t.pages[i].va = i /\ t.pages[i].ram
          /\ t.offq = << >> /\ t.top = 0
          /\ \A v \in Pages : "PG" \notin t.pte[v]
      BY <1>2, <1>4, <3>1
    <3>3. Fine(t, n) /\ \A i \in Recs : ~Out(t, i)
      BY <1>0, <1>3, <3>1, <3>2, AllInMemory
    <3> QED
      BY <3>3 DEF Good, FairStep
  <2> QED
    BY <2>1, <2>2
<1> QED
  BY <1>0, <1>5, StepIsGood

\* A failed exec puts everything back but the ages.
LEMMA ExecFailsKeeps ==
    ASSUME PagingInv, NEW n \in 0 .. MAX_PSYC_PAGES + 1, ExecFails(n) PROVE PagingInv' /\ Victims
<1> DEFINE s == NewImage(n)
           P == [i \in Recs |-> [Now.pages[i] EXCEPT !.age = s.pages[i].age]]
           t == [s EXCEPT !.pages = P, !.q = Now.q, !.offq = Now.offq, !.top = Now.top,
                          !.paged = Now.paged, !.pte = Now.pte]
<1>0. Running /\ Becomes(t) /\ sz' = sz /\ policy' = policy
  BY DEF ExecFails, restoreFromBackup, Idle
<1>1. Fine(Now, sz) /\ Now \in State /\ Now.broken = FALSE /\ sz \in Nat
  BY <1>0, NowFine
<1>2. /\ s \in State
      /\ n > MAX_PSYC_PAGES => s.broken = TRUE
      /\ n <= MAX_PSYC_PAGES => s.broken = FALSE /\ s.swapFile = Now.swapFile
  BY <1>1, Images
<1> HIDE DEF s
<1>3. ASSUME NEW i \in Recs
      PROVE  /\ P[i] \in Record /\ P[i].va = Now.pages[i].va /\ P[i].off = Now.pages[i].off
             /\ P[i].ram = Now.pages[i].ram /\ P[i].alloc = Now.pages[i].alloc
  <2>1. Now.pages[i] \in Record /\ s.pages[i].age \in Nat
    BY <1>1, <1>2, StateIs DEF Record
  <2> QED
    BY <2>1 DEF Record
<1>4. P \in [Recs -> Record]
  <2>1. P = [i \in Recs |-> P[i]]
    OBVIOUS
  <2> HIDE DEF P
  <2> QED
    BY <1>3, <2>1
<1> HIDE DEF P
<1>5. /\ Now.q \in Seq(Recs) /\ Now.offq \in Seq(Nat) /\ Now.top \in Nat /\ Now.paged \in Int
      /\ Now.pte \in [Pages -> SUBSET {"A", "W", "PG"}]
  BY <1>1, StateIs
<1>6. t \in State
  BY <1>2, <1>4, <1>5 DEF State
<1>7. /\ t.pages = P /\ t.q = Now.q /\ t.offq = Now.offq /\ t.top = Now.top /\ t.pte = Now.pte
      /\ t.swapFile = s.swapFile /\ t.broken = s.broken
  BY <1>2 DEF State
<1> HIDE DEF t
<1>8. Good(Now, t, sz)
  <2>1. CASE n > MAX_PSYC_PAGES
    BY <1>2, <1>7, <2>1 DEF Good
  <2>2. CASE ~(n > MAX_PSYC_PAGES)
    <3>1. t.broken = FALSE /\ t.swapFile = Now.swapFile
      BY <1>2, <1>7, <2>2, PagingAssumption
    <3>2. \A i \in Recs :
            /\ t.pages[i].va = Now.pages[i].va /\ t.pages[i].off = Now.pages[i].off
            /\ t.pages[i].ram = Now.pages[i].ram /\ t.pages[i].alloc = Now.pages[i].alloc
      BY <1>3, <1>7
    <3>3. \A i \in Recs : (In(t, i) <=> In(Now, i)) /\ (Out(t, i) <=> Out(Now, i))
      BY <3>2 DEF In, Out
    <3>4. Queue(t) /\ Owned(t, sz) /\ Marks(t)
      BY <1>1, <1>7, <3>2, <3>3 DEF Fine, Queue, Owned, Marks
    <3>5. SlotsBut(t, {})
      <4>1. SlotsBut(Now, {})
        BY <1>1 DEF Fine
      <4> QED
        BY <1>7, <3>1, <3>2, <3>3, <4>1 DEF SlotsBut
    <3>6. Fine(t, sz)
      BY <1>1, <1>6, <3>1, <3>4, <3>5 DEF Fine
    <3>7. FairStep(Now, t)
      BY <3>2, FairStays
    <3> QED
      BY <3>6, <3>7 DEF Good
  <2> QED
    BY <2>1, <2>2
<1> QED
  BY <1>0, <1>8, StepIsGood

\* The first process, with its two pages in memory.
LEMMA PagingInitially == PagingInit => PagingInv
<1> SUFFICES ASSUME PagingInit PROVE PagingInv
  OBVIOUS
<1>1. /\ policy \in Policies /\ sz = 2 /\ broken = FALSE
      /\ RAMQueue = <<0, 1>> /\ offsetQueue = << >> /\ fileOffset = 0 /\ paged = 0 /\ swapFile = << >>
      /\ pages = [i \in Recs |-> IF i < 2 THEN [NoPage(Age0) EXCEPT !.va = i, !.ram = TRUE, !.alloc = TRUE]
                                 ELSE NoPage(Age0)]
      /\ pte = [v \in Pages |-> IF v < 2 THEN {"W"} ELSE {}]
  BY DEF PagingInit
<1>2. /\ MAX_PSYC_PAGES \in Nat /\ 2 <= MAX_PSYC_PAGES /\ MAX_PSYC_PAGES <= MAX_TOTAL_PAGES
      /\ MAX_TOTAL_PAGES \in Nat /\ \A i \in Recs : i \in Nat
  BY PagingAssumption DEF Recs
<1>3. Age0 \in Nat
  BY PagingAssumption DEF Age0
<1>4. ASSUME NEW i \in Recs
      PROVE  /\ pages[i] \in Record /\ (pages[i].alloc <=> i < 2)
             /\ i < 2 => pages[i].va = i /\ pages[i].ram
  <2> DEFINE e == NoPage(Age0)
  <2>1. e \in Record /\ e.alloc = FALSE
    BY <1>3, NoPageIs
  <2>2. CASE i < 2
    <3>1. pages[i] = [e EXCEPT !.va = i, !.ram = TRUE, !.alloc = TRUE]
      BY <1>1, <2>2
    <3>2. i \in Nat
      BY <1>2
    <3> HIDE DEF e
    <3>3. [e EXCEPT !.va = i, !.ram = TRUE, !.alloc = TRUE] \in Record
      BY <2>1, <3>2 DEF Record
    <3>4. LET f == [e EXCEPT !.va = i, !.ram = TRUE, !.alloc = TRUE]
          IN  f.alloc = TRUE /\ f.va = i /\ f.ram = TRUE
      BY <2>1 DEF Record
    <3> QED
      BY <2>2, <3>1, <3>3, <3>4
  <2>3. CASE ~(i < 2)
    <3>1. pages[i] = e
      BY <1>1, <2>3
    <3> HIDE DEF e
    <3> QED
      BY <2>1, <2>3, <3>1
  <2> QED
    BY <2>2, <2>3
<1>5. pages \in [Recs -> Record]
  <2>1. pages = [i \in Recs |-> pages[i]]
    BY <1>1
  <2> QED
    BY <1>4, <2>1
<1>6. RAMQueue \in Seq(Recs) /\ Len(RAMQueue) = 2 /\ \A k \in 1 .. 2 : RAMQueue[k] = k - 1
  <2> DEFINE q == <<0, 1>>
  <2>1. 0 \in Recs /\ 1 \in Recs
    BY <1>2 DEF Recs
  <2>2. q \in Seq(Recs) /\ Len(q) = 2 /\ q[1] = 0 /\ q[2] = 1
    BY <2>1
  <2>3. RAMQueue = q
    BY <1>1
  <2> HIDE DEF q
  <2>4. RAMQueue[1] = 1 - 1 /\ RAMQueue[2] = 2 - 1
    BY <2>2, <2>3
  <2>5. \A k \in 1 .. 2 : k = 1 \/ k = 2
    OBVIOUS
  <2>6. \A k \in 1 .. 2 : RAMQueue[k] = k - 1
    BY <2>4, <2>5
  <2> QED
    BY <2>2, <2>3, <2>6
<1>7. pte \in [Pages -> SUBSET {"A", "W", "PG"}] /\ \A v \in Pages : "PG" \notin pte[v]
  BY <1>1
<1>8. /\ Now.pages = pages /\ Now.q = RAMQueue /\ Now.offq = << >> /\ Now.top = 0
      /\ Now.pte = pte /\ Now.broken = FALSE
  BY <1>1 DEF Now
<1>9. Now \in State
  <2> DEFINE e == << >>
  <2>1. e \in Seq(Nat) /\ e \in Seq(Int)
    OBVIOUS
  <2>2. offsetQueue = e /\ swapFile = e /\ fileOffset = 0 /\ paged = 0 /\ broken = FALSE
    BY <1>1
  <2> HIDE DEF e
  <2>3. fileOffset \in Nat /\ paged \in Int
    BY <2>2
  <2>4. broken \in BOOLEAN
    BY <2>2
  <2>5. offsetQueue \in Seq(Nat) /\ swapFile \in Seq(Int)
    BY <2>1, <2>2
  <2> QED
    BY <1>5, <1>6, <1>7, <2>3, <2>4, <2>5 DEF Now, State
<1>10. Fine(Now, 2)
  BY <1>2, <1>4, <1>6, <1>7, <1>8, <1>9, AllInMemory
<1> QED
  BY <1>1, <1>10 DEF PagingInv

\* Every step keeps the invariant and swaps out fairly.
LEMMA PagingStep == PagingInv /\ PagingNext => PagingInv' /\ Victims
<1> SUFFICES ASSUME PagingInv, PagingNext PROVE PagingInv' /\ Victims
  OBVIOUS
<1>1. CASE Grow
  BY <1>1, GrowKeeps
<1>2. CASE Shrink
  BY <1>2, ShrinkKeeps
<1>3. CASE \E n \in 1 .. 2 : GrowFails(n)
  BY <1>3, GrowFailsKeeps
<1>4. CASE \E va \in Recs : Touch(va) \/ WriteFault(va)
  BY <1>4, TouchKeeps, WriteFaultKeeps
<1>5. CASE ForkParent
  BY <1>5, ForkParentKeeps
<1>6. CASE ForkChild
  BY <1>6, ForkChildKeeps
<1>7. CASE AfterRun
  BY <1>7, AfterRunKeeps
<1>8. CASE \E n \in 2 .. MAX_PSYC_PAGES + 1 : Exec(n)
  BY <1>8, ExecKeeps
<1>9. CASE \E n \in 0 .. MAX_PSYC_PAGES + 1 : ExecFails(n)
  BY <1>9, ExecFailsKeeps
<1> QED
  BY <1>1, <1>2, <1>3, <1>4, <1>5, <1>6, <1>7, <1>8, <1>9 DEF PagingNext

\* The invariant is inductive.
LEMMA PagingInductive == PagingInv /\ [PagingNext]_pagingVars => PagingInv'
<1> SUFFICES ASSUME PagingInv, UNCHANGED pagingVars PROVE PagingInv'
  BY PagingStep
<1>1. Now' = Now /\ sz' = sz /\ policy' = policy /\ broken' = broken
  BY DEF pagingVars, procVars, Now
<1> QED
  BY <1>1 DEF PagingInv

\* A sequence without repetitions is as long as what it lists.
LEMMA NoRepeats ==
    ASSUME NEW T, NEW q \in Seq(T), \A a, b \in DOMAIN q : q[a] = q[b] => a = b
    PROVE  IsFiniteSet(Range(q)) /\ Cardinality(Range(q)) = Len(q)
<1> DEFINE D == 1 .. Len(q)
           R == Range(q)
<1>1. DOMAIN q = D /\ Len(q) \in Nat
  OBVIOUS
<1>2. q \in [D -> R] /\ \A y \in R : \E x \in D : q[x] = y
  <2>1. q = [x \in D |-> q[x]] /\ R = {q[x] : x \in D}
    BY <1>1 DEF Range
  <2> HIDE DEF D, R
  <2> QED
    BY <2>1
<1>3. IsFiniteSet(D) /\ Cardinality(D) = Len(q)
  BY <1>1, FS_Interval
<1>4. \A x, y \in D : q[x] = q[y] => x = y
  BY <1>1
<1> HIDE DEF D, R
<1>5. IsFiniteSet(R) /\ Cardinality(R) = Cardinality(D)
  BY <1>2, <1>3, <1>4, OneToOne
<1> QED
  BY <1>3, <1>5 DEF R

\* The invariant gives what the run checks.
LEMMA PagingInvImplies == PagingInv => PagesAccounted
<1> SUFFICES ASSUME PagingInv, ~broken PROVE PagesAccounted
  BY DEF PagesAccounted, QueueExact, SlotsExact
<1>1. /\ Fine(Now, sz) /\ Now \in State /\ sz \in Nat
      /\ Now.pages = pages /\ Now.q = RAMQueue /\ Now.offq = offsetQueue
      /\ Now.top = fileOffset /\ Now.swapFile = swapFile
  BY DEF PagingInv, Fine, Now
<1>2. /\ pages \in [Recs -> Record] /\ RAMQueue \in Seq(Recs) /\ offsetQueue \in Seq(Nat)
      /\ fileOffset \in Nat
  BY <1>1, StateIs
<1>3. QueueExact
  <2>1. Range(RAMQueue) = InRAM(Now)
    <3>1. \A i \in Recs : i \in InRAM(Now) <=> \E a \in DOMAIN RAMQueue : RAMQueue[a] = i
      BY <1>1 DEF Fine, Queue, In, InRAM
    <3>2. \A a \in DOMAIN RAMQueue : RAMQueue[a] \in Recs
      BY <1>2
    <3>3. InRAM(Now) \subseteq Recs
      BY DEF InRAM
    <3> QED
      BY <3>1, <3>2, <3>3 DEF Range
  <2>2. Cardinality(Range(RAMQueue)) = Len(RAMQueue) /\ Len(RAMQueue) <= MAX_PSYC_PAGES
    BY <1>1, <1>2, NoRepeats DEF Fine, Queue
  <2>3. {pages[i].va : i \in {j \in Recs : pages[j].alloc}} = 0 .. sz - 1
    <3>1. \A i \in {j \in Recs : pages[j].alloc} : pages[i].va \in 0 .. sz - 1
      BY <1>1, PageOf DEF Fine
    <3>2. \A v \in 0 .. sz - 1 : \E i \in {j \in Recs : pages[j].alloc} : pages[i].va = v
      BY <1>1 DEF Fine, Owned
    <3> QED
      BY <3>1, <3>2
  <2>4. Cardinality({j \in Recs : pages[j].alloc}) = sz
    <3>1. Cardinality({j \in Recs : Now.pages[j].alloc}) = sz
      BY <1>1, Sizes DEF Fine
    <3> QED
      BY <1>1, <3>1
  <2> QED
    BY <2>1, <2>2, <2>3, <2>4 DEF QueueExact
<1>4. SlotsExact
  <2> DEFINE inUse == {pages[i].off : i \in Swapped}
             f == [i \in Swapped |-> pages[i].off]
  <2>0. SlotsBut(Now, {}) /\ \A i \in Recs : Out(Now, i) <=> i \in Swapped
    BY <1>1 DEF Fine, Out, Swapped
  <2>1. Cardinality(inUse) = Cardinality(Swapped)
    <3>1. IsFiniteSet(Swapped)
      <4>1. IsFiniteSet(Recs) /\ Swapped \in SUBSET Recs
        BY PagingAssumption, FS_Interval DEF Recs, Swapped
      <4> QED
        BY <4>1, FS_Subset
    <3>2. /\ f \in [Swapped -> inUse] /\ \A y \in inUse : \E x \in Swapped : f[x] = y
          /\ \A x, y \in Swapped : f[x] = f[y] => x = y
      <4>1. \A x, y \in Swapped : pages[x].off = pages[y].off => x = y
        BY <1>1, <2>0 DEF SlotsBut, Swapped
      <4> QED
        BY <4>1
    <3> HIDE DEF inUse, f
    <3> QED
      BY <3>1, <3>2, OneToOne
  <2>2. \A a, b \in DOMAIN offsetQueue : offsetQueue[a] = offsetQueue[b] => a = b
    BY <1>1, <2>0 DEF SlotsBut
  <2>3. Cardinality(Range(offsetQueue)) = Len(offsetQueue)
    BY <1>2, <2>2, NoRepeats
  <2>4. ASSUME NEW i \in Swapped
        PROVE  /\ pages[i].off \in 0 .. fileOffset - 1 /\ swapFile[pages[i].off + 1] = pages[i].va
               /\ \A a \in DOMAIN offsetQueue : offsetQueue[a] # pages[i].off
    <3>1. i \in Recs /\ Out(Now, i)
      BY <2>0 DEF Swapped
    <3> QED
      BY <1>1, <2>0, <3>1 DEF SlotsBut
  <2>5. \A a \in DOMAIN offsetQueue : offsetQueue[a] \in 0 .. fileOffset - 1
    <3>1. \A a \in DOMAIN offsetQueue : offsetQueue[a] \in Nat /\ offsetQueue[a] < fileOffset
      BY <1>1, <1>2, <2>0 DEF SlotsBut
    <3> QED
      BY <1>2, <3>1
  <2>6. \A k \in 0 .. fileOffset - 1 : k \in inUse \/ \E a \in DOMAIN offsetQueue : offsetQueue[a] = k
    <3> TAKE k \in 0 .. fileOffset - 1
    <3>1. (\E i \in Recs : Out(Now, i) /\ pages[i].off = k) \/ \E a \in DOMAIN offsetQueue : offsetQueue[a] = k
      BY <1>1, <2>0 DEF SlotsBut
    <3> QED
      BY <2>0, <3>1
  <2>7. inUse \cap Range(offsetQueue) = {}
    BY <2>4 DEF Range
  <2>8. inUse \cup Range(offsetQueue) = 0 .. fileOffset - 1
    <3>1. inUse \subseteq 0 .. fileOffset - 1
      BY <2>4
    <3> HIDE DEF inUse
    <3> QED
      BY <2>5, <2>6, <3>1 DEF Range
  <2> QED
    BY <2>1, <2>3, <2>4, <2>7, <2>8 DEF SlotsExact
<1> QED
  BY <1>3, <1>4 DEF PagesAccounted

\* Whatever a process does and whichever policy the kernel was built with, its
\* pages in memory and its slots of the swap file are accounted for: allocuvm,
\* deallocuvm, get_page, copyuvm's swap file and exec's backup keep RAMQueue,
\* offsetQueue and the records in step, for any sizes.
THEOREM SlotsAreAccounted == PagingSpec => []PagesAccounted
<1>1. PagingInit => PagingInv
  BY PagingInitially
<1>2. PagingInv /\ [PagingNext]_pagingVars => PagingInv'
  BY PagingInductive
<1>3. PagingInv => PagesAccounted
  BY PagingInvImplies
<1> QED
  BY <1>1, <1>2, <1>3, PTL DEF PagingSpec

\* The page that goes is the one the policy is for: selectPage takes no accessed
\* page while another is not, none with a larger age or more bits in it, and for
\* AQ the head of the queue, for any number of pages and any width of an age.
THEOREM VictimsAreFair == PagingSpec => VictimFair
<1>1. PagingInit => PagingInv
  BY PagingInitially
<1>2. PagingInv /\ [PagingNext]_pagingVars => PagingInv'
  BY PagingInductive
<1>3. PagingInv /\ [PagingNext]_pagingVars =>
        [\A i \in Recs :
            ~broken' /\ pages[i].ram /\ pages'[i].alloc /\ ~pages'[i].ram /\ pages'[i].va = pages[i].va =>
                CASE policy = "SCFIFO" ->
                         "A" \notin pte[pages[i].va] \/ \A k \in InRAM(Now) : "A" \in pte[pages[k].va]
                  [] policy = "NFUA" -> \A k \in InRAM(Now) : pages[i].age <= pages[k].age
                  [] policy = "LAPA" -> \A k \in InRAM(Now) : BitsOf(pages[i].age) <= BitsOf(pages[k].age)
                  [] policy = "AQ" -> i = Head(RAMQueue)]_pagingVars
  <2> SUFFICES ASSUME PagingInv, PagingNext, NEW i \in Recs,
                      ~broken', pages[i].ram, pages'[i].alloc, ~pages'[i].ram
               PROVE  CASE policy = "SCFIFO" ->
                         "A" \notin pte[pages[i].va] \/ \A k \in InRAM(Now) : "A" \in pte[pages[k].va]
                       [] policy = "NFUA" -> \A k \in InRAM(Now) : pages[i].age <= pages[k].age
                       [] policy = "LAPA" -> \A k \in InRAM(Now) : BitsOf(pages[i].age) <= BitsOf(pages[k].age)
                       [] policy = "AQ" -> i = Head(RAMQueue)
    OBVIOUS
  <2>1. Victims
    BY PagingStep
  <2>2. Now.pages = pages /\ Now.pte = pte /\ Now.q = RAMQueue /\ Now'.pages = pages'
    BY DEF Now
  <2>3. MayGo(Now, i)
    BY <2>1, <2>2 DEF Victims, Out
  <2> QED
    BY <2>2, <2>3 DEF MayGo
<1> QED
  BY <1>1, <1>2, <1>3, PTL DEF PagingSpec, VictimFair
=============================================================================
