-------------------------------- MODULE Sched --------------------------------
(***************************************************************************)
(* CPUs, processes and the locks between them: spinlock.c, sleeplock.c and  *)
(* the scheduler, sched, yield, sleep and wakeup of proc.c, with the timer  *)
(* interrupt of trap.c that calls yield.                                    *)
(*                                                                         *)
(* Every process loops through acquiresleep and releasesleep of one sleep   *)
(* lock.  A step is an xchg, a release, a swtch, or what lies between them; *)
(* the interrupt flag, ncli and intena of each CPU are kept, because they   *)
(* decide where the timer may preempt.                                      *)
(***************************************************************************)
EXTENDS Integers, FiniteSets

CONSTANTS
  CPU,      \* the processors
  NPROC,    \* param.h: entries of ptable.proc
  None      \* no process / no processor

Proc == 1..NPROC

ASSUME SchedAssumption == NPROC \in Nat /\ None \notin CPU /\ None \notin Proc

\* The spinlocks: ptable.lock and the lk->lk inside the sleep lock.
Lock == {"ptable", "lk"}

VARIABLES
  lock,     \* spinlock.cpu: the processor that holds it, or None
  state,    \* proc.state
  asleepOn, \* proc.chan is the sleep lock
  locked,   \* sleeplock.locked
  pid,      \* sleeplock.pid
  cur,      \* cpu.proc
  run,      \* the process whose kernel stack the processor runs on, or None
  spc,      \* where the scheduler loop of a processor is
  idx,      \* the p of the scheduler loop
  IF_,      \* the interrupt flag of a processor
  ncli,     \* cpu.ncli
  intena,   \* cpu.intena
  pc,       \* where a process is
  ret,      \* where a timer trap returns to
  saved,    \* the intena local of sched()
  panicked  \* panic() was called

locks == <<lock, IF_, ncli, intena>>
slock == <<locked, pid>>
cpus == <<cur, run, spc, idx>>
vars == <<lock, state, asleepOn, locked, pid, cur, run, spc, idx,
          IF_, ncli, intena, pc, ret, saved, panicked>>

\* Program points: acquiresleep, sleep, releasesleep with wakeup, yield.
Points == {"forkret", "trapret", "out", "acq", "test", "retest", "slp_acq",
           "slp_rel", "slp_set", "slp_sched", "slp_back", "again", "re_acq", "cs",
           "rel_acq", "unlock", "wk_acq", "wk", "wk_done", "y_acq", "y_set", "y_sched", "y_back", "iret"}

\* The points at which a processor spins in acquire(), the lock it spins for,
\* and the point it gets to.
Spin == [acq |-> <<"lk", "test">>, re_acq |-> <<"lk", "retest">>,
         rel_acq |-> <<"lk", "unlock">>, slp_acq |-> <<"ptable", "slp_rel">>,
         wk_acq |-> <<"ptable", "wk">>, y_acq |-> <<"ptable", "y_set">>]

Init ==
  /\ lock = [l \in Lock |-> None]
  /\ state = [p \in Proc |-> "RUNNABLE"]
  /\ asleepOn = [p \in Proc |-> FALSE]
  /\ locked = FALSE /\ pid = None
  /\ cur = [c \in CPU |-> None]
  /\ run = [c \in CPU |-> None]
  /\ spc = [c \in CPU |-> "top"]
  /\ idx = [c \in CPU |-> 1]
  /\ IF_ = [c \in CPU |-> FALSE]
  /\ ncli = [c \in CPU |-> 0]
  /\ intena = [c \in CPU |-> FALSE]
  /\ pc = [p \in Proc |-> "forkret"]
  /\ ret = [p \in Proc |-> "out"]
  /\ saved = [p \in Proc |-> FALSE]
  /\ panicked = FALSE

-----------------------------------------------------------------------------
(* spinlock.c                                                              *)

Nested(c) == ncli' = [ncli EXCEPT ![c] = @ + 1]

\* pushcli(): interrupts off, and remember whether they were on.
Pushcli(c) ==
  /\ IF_' = [IF_ EXCEPT ![c] = FALSE]
  /\ intena' = [intena EXCEPT ![c] = IF ncli[c] = 0 THEN IF_[c] ELSE @]
  /\ Nested(c)

\* The start of acquire(): pushcli, and the holding() test.
Acquiring(c, l) ==
  /\ Pushcli(c)
  /\ panicked' = (lock[l] = c)
  /\ UNCHANGED lock

\* xchg(&lk->locked, 1) returned 0.
XchgWins(l) == lock[l] = None

Xchg(c, l) ==
  /\ XchgWins(l)
  /\ lock' = [lock EXCEPT ![l] = c]
  /\ UNCHANGED <<IF_, ncli, intena, panicked>>

\* release(): the holding() test, the store, and popcli().
Release(c, l) ==
  /\ panicked' = (lock[l] # c \/ IF_[c] \/ ncli[c] = 0)
  /\ lock' = [lock EXCEPT ![l] = None]
  /\ ncli' = [ncli EXCEPT ![c] = @ - 1]
  /\ IF_' = [IF_ EXCEPT ![c] = (ncli[c] = 1 /\ intena[c])]
  /\ UNCHANGED intena

Goto(p, point) == pc' = [pc EXCEPT ![p] = point]

-----------------------------------------------------------------------------
(* scheduler()                                                             *)

\* sti(), and the start of acquire(&ptable.lock).
SchedulerTop(c) ==
  /\ run[c] = None /\ spc[c] = "top"
  /\ ncli' = [ncli EXCEPT ![c] = @ + 1]
  /\ IF_' = [IF_ EXCEPT ![c] = FALSE]
  /\ intena' = [intena EXCEPT ![c] = IF ncli[c] = 0 THEN TRUE ELSE @]
  /\ panicked' = (lock["ptable"] = c)
  /\ spc' = [spc EXCEPT ![c] = "spin"]
  /\ UNCHANGED <<lock, state, asleepOn, slock, cur, run, idx, pc, ret, saved>>

SchedulerLock(c) ==
  /\ run[c] = None /\ spc[c] = "spin"
  /\ Xchg(c, "ptable")
  /\ spc' = [spc EXCEPT ![c] = "scan"]
  /\ idx' = [idx EXCEPT ![c] = 1]
  /\ UNCHANGED <<state, asleepOn, slock, cur, run, pc, ret, saved>>

FromStart(p) == 1

\* p++ of the scheduler's loop.
NextEntry(p) == p + 1

\* Run the next RUNNABLE process of the table: swtch to its stack.
SchedulerRun(c) ==
  /\ run[c] = None /\ spc[c] = "scan"
  /\ \E p \in Proc :
       /\ p >= idx[c] /\ state[p] = "RUNNABLE"
       /\ \A q \in Proc : q >= idx[c] /\ state[q] = "RUNNABLE" => p <= q
       /\ cur' = [cur EXCEPT ![c] = p]
       /\ state' = [state EXCEPT ![p] = "RUNNING"]
       /\ run' = [run EXCEPT ![c] = p]
       /\ idx' = [idx EXCEPT ![c] = NextEntry(p)]
  /\ spc' = [spc EXCEPT ![c] = "back"]
  /\ UNCHANGED <<locks, asleepOn, slock, pc, ret, saved, panicked>>

\* A process swtched back: c->proc = 0.
SchedulerBack(c) ==
  /\ run[c] = None /\ spc[c] = "back"
  /\ cur' = [cur EXCEPT ![c] = None]
  /\ spc' = [spc EXCEPT ![c] = "scan"]
  /\ UNCHANGED <<locks, state, asleepOn, slock, run, idx, pc, ret, saved, panicked>>

\* The table is through: release(&ptable.lock).
SchedulerEnd(c) ==
  /\ run[c] = None /\ spc[c] = "scan"
  /\ \A p \in Proc : p >= idx[c] => state[p] # "RUNNABLE"
  /\ Release(c, "ptable")
  /\ spc' = [spc EXCEPT ![c] = "top"]
  /\ UNCHANGED <<state, asleepOn, slock, cur, run, idx, pc, ret, saved>>

\* sched(): its four tests, then swtch to the scheduler of this processor.
Sched(c, p, back) ==
  /\ panicked' = (lock["ptable"] # c \/ ncli[c] # 1 \/ state[p] = "RUNNING" \/ IF_[c])
  /\ saved' = [saved EXCEPT ![p] = intena[c]]
  /\ run' = [run EXCEPT ![c] = None]
  /\ Goto(p, back)
  /\ UNCHANGED <<locks, state, asleepOn, slock, cur, spc, idx, ret>>

NotRestored(c, p) == intena[c]

\* What sched() puts into mycpu()->intena when it is run again.
Restored(c, p) == saved[p]

\* The end of sched() on the processor it runs on now, and release(&ptable.lock).
SchedReturns(c, p) ==
  /\ panicked' = (lock["ptable"] # c \/ IF_[c] \/ ncli[c] = 0)
  /\ lock' = [lock EXCEPT !["ptable"] = None]
  /\ ncli' = [ncli EXCEPT ![c] = @ - 1]
  /\ intena' = [intena EXCEPT ![c] = Restored(c, p)]
  /\ IF_' = [IF_ EXCEPT ![c] = (ncli[c] = 1 /\ Restored(c, p))]
  /\ UNCHANGED <<state, slock, cpus, saved>>

-----------------------------------------------------------------------------
(* A process p on processor c.                                             *)

\* The loop of acquire().
Spins(c, p) ==
  /\ pc[p] \in DOMAIN Spin
  /\ Xchg(c, Spin[pc[p]][1])
  /\ Goto(p, Spin[pc[p]][2])
  /\ UNCHANGED <<state, asleepOn, slock, cpus, ret, saved>>

\* forkret(): still holding ptable.lock from scheduler.
Forkret(c, p) ==
  /\ pc[p] = "forkret"
  /\ Release(c, "ptable")
  /\ Goto(p, "trapret")
  /\ UNCHANGED <<state, asleepOn, slock, cpus, ret, saved>>

\* trapret: iret to user space, where interrupts are on.
Trapret(c, p) ==
  /\ pc[p] = "trapret"
  /\ IF_' = [IF_ EXCEPT ![c] = TRUE]
  /\ Goto(p, "out")
  /\ UNCHANGED <<lock, ncli, intena, state, asleepOn, slock, cpus, ret, saved, panicked>>

\* acquiresleep: acquire(&lk->lk).
AcquireSleep(c, p) ==
  /\ pc[p] \in {"out", "again"}
  /\ Acquiring(c, "lk")
  /\ Goto(p, IF pc[p] = "out" THEN "acq" ELSE "re_acq")
  /\ UNCHANGED <<state, asleepOn, slock, cpus, ret, saved>>

\* The condition of the loop, at its first test and after a sleep.
Taken(p) == locked

\* while (lk->locked) sleep(lk, &lk->lk): sleep starts with acquire(&ptable.lock).
MustSleep(c, p) ==
  /\ pc[p] \in {"test", "retest"} /\ Taken(p)
  /\ Acquiring(c, "ptable")
  /\ Goto(p, "slp_acq")
  /\ UNCHANGED <<state, asleepOn, slock, cpus, ret, saved>>

\* lk->locked = 1; lk->pid = myproc()->pid; release(&lk->lk).
TakeLock(c, p) ==
  /\ pc[p] \in {"test", "retest"} /\ ~Taken(p)
  /\ locked' = TRUE /\ pid' = p
  /\ Release(c, "lk")
  /\ Goto(p, "cs")
  /\ UNCHANGED <<state, asleepOn, cpus, ret, saved>>

\* sleep: release(lk), with ptable.lock held.
SleepRelease(c, p) ==
  /\ pc[p] = "slp_rel"
  /\ Release(c, "lk")
  /\ Goto(p, "slp_set")
  /\ UNCHANGED <<state, asleepOn, slock, cpus, ret, saved>>

\* p->chan = chan; p->state = SLEEPING.
SleepSet(c, p) ==
  /\ pc[p] = "slp_set"
  /\ asleepOn' = [asleepOn EXCEPT ![p] = TRUE]
  /\ state' = [state EXCEPT ![p] = "SLEEPING"]
  /\ Goto(p, "slp_sched")
  /\ UNCHANGED <<locks, slock, cpus, ret, saved, panicked>>

SleepSched(c, p) == pc[p] = "slp_sched" /\ Sched(c, p, "slp_back")

\* p->chan = 0; release(&ptable.lock).  The acquire(lk) that follows is
\* AcquireSleep from "again".
SleepBack(c, p) ==
  /\ pc[p] = "slp_back"
  /\ SchedReturns(c, p)
  /\ asleepOn' = [asleepOn EXCEPT ![p] = FALSE]
  /\ Goto(p, "again")
  /\ UNCHANGED ret

\* releasesleep: acquire(&lk->lk).
ReleaseSleep(c, p) ==
  /\ pc[p] = "cs"
  /\ Acquiring(c, "lk")
  /\ Goto(p, "rel_acq")
  /\ UNCHANGED <<state, asleepOn, slock, cpus, ret, saved>>

\* lk->locked = 0; lk->pid = 0; wakeup starts with acquire(&ptable.lock).
Unlock(c, p) ==
  /\ pc[p] = "unlock"
  /\ locked' = FALSE /\ pid' = None
  /\ Acquiring(c, "ptable")
  /\ Goto(p, "wk_acq")
  /\ UNCHANGED <<state, asleepOn, cpus, ret, saved>>

WakesNobody(p) == state

\* wakeup1(lk)
Wakeup1(p) ==
  [q \in Proc |-> IF state[q] = "SLEEPING" /\ asleepOn[q] THEN "RUNNABLE" ELSE state[q]]

Wakeup(c, p) ==
  /\ pc[p] = "wk"
  /\ state' = Wakeup1(p)
  /\ Release(c, "ptable")
  /\ Goto(p, "wk_done")
  /\ UNCHANGED <<asleepOn, slock, cpus, ret, saved>>

WakeupDone(c, p) ==
  /\ pc[p] = "wk_done"
  /\ Release(c, "lk")
  /\ Goto(p, "out")
  /\ UNCHANGED <<state, asleepOn, slock, cpus, ret, saved>>

-----------------------------------------------------------------------------
(* The timer interrupt and yield().                                        *)

Handler == {"y_acq", "y_set", "y_sched", "y_back", "iret"}

EarlyRunnable(p) == [state EXCEPT ![p] = "RUNNABLE"]

\* yield leaves p->state alone until it has ptable.lock.
StateInYield(p) == state

\* The gate clears IF; trap() calls yield for a RUNNING process; acquire().
Timer(c, p) ==
  /\ IF_[c] /\ cur[c] = p /\ state[p] = "RUNNING"
  /\ ret' = [ret EXCEPT ![p] = pc[p]]
  /\ IF_' = [IF_ EXCEPT ![c] = FALSE]
  /\ intena' = [intena EXCEPT ![c] = IF ncli[c] = 0 THEN FALSE ELSE @]
  /\ ncli' = [ncli EXCEPT ![c] = @ + 1]
  /\ panicked' = (lock["ptable"] = c)
  /\ state' = StateInYield(p)
  /\ Goto(p, "y_acq")
  /\ UNCHANGED <<lock, asleepOn, slock, cpus, saved>>

YieldSet(c, p) ==
  /\ pc[p] = "y_set"
  /\ state' = [state EXCEPT ![p] = "RUNNABLE"]
  /\ Goto(p, "y_sched")
  /\ UNCHANGED <<locks, asleepOn, slock, cpus, ret, saved, panicked>>

YieldSched(c, p) == pc[p] = "y_sched" /\ Sched(c, p, "y_back")

YieldBack(c, p) ==
  /\ pc[p] = "y_back"
  /\ SchedReturns(c, p)
  /\ Goto(p, "iret")
  /\ UNCHANGED <<asleepOn, ret>>

\* iret: interrupts are on again where the trap came from.
Iret(c, p) ==
  /\ pc[p] = "iret"
  /\ IF_' = [IF_ EXCEPT ![c] = TRUE]
  /\ Goto(p, ret[p])
  /\ UNCHANGED <<lock, ncli, intena, state, asleepOn, slock, cpus, ret, saved, panicked>>

-----------------------------------------------------------------------------

SchedulerStep(c) ==
  SchedulerTop(c) \/ SchedulerRun(c) \/ SchedulerBack(c) \/ SchedulerEnd(c)

\* The steps of a process that wait for nobody.
Moves(c, p) ==
  \/ Forkret(c, p) \/ Trapret(c, p) \/ AcquireSleep(c, p) \/ MustSleep(c, p) \/ TakeLock(c, p)
  \/ SleepRelease(c, p) \/ SleepSet(c, p) \/ SleepSched(c, p) \/ SleepBack(c, p)
  \/ ReleaseSleep(c, p) \/ Unlock(c, p) \/ Wakeup(c, p) \/ WakeupDone(c, p)
  \/ YieldSet(c, p) \/ YieldSched(c, p) \/ YieldBack(c, p) \/ Iret(c, p)

OnCpu(c, p) == run[c] = p /\ ~panicked

Handles(c, p) == run[c] = p /\ pc[p] \in Handler /\ Moves(c, p)

Next ==
  \/ \E c \in CPU : ~panicked /\ (SchedulerStep(c) \/ SchedulerLock(c))
  \/ \E c \in CPU, p \in Proc :
       OnCpu(c, p) /\ (Moves(c, p) \/ Spins(c, p) \/ Timer(c, p))

Spec == Init /\ [][Next]_vars

(* The processors execute; an xchg that can win again and again wins at     *)
(* last (the bus is fair); the timer ticks, and a tick that finds           *)
(* interrupts off stays pending; and its period is longer than a step, so   *)
(* that a process that is scheduled again and again makes progress.         *)
Fairness ==
  /\ \A c \in CPU :
       /\ WF_vars(~panicked /\ (SchedulerStep(c) \/ \E p \in Proc : Handles(c, p)))
       /\ SF_vars(~panicked /\ (SchedulerLock(c) \/ \E p \in Proc : run[c] = p /\ Spins(c, p)))
  /\ \A p \in Proc :
       SF_vars(\E c \in CPU : OnCpu(c, p) /\ pc[p] \notin Handler /\ Moves(c, p))

TimerFairness ==
  \A c \in CPU : SF_vars(\E p \in Proc : OnCpu(c, p) /\ Timer(c, p))

FairSpec == Spec /\ Fairness
TimedSpec == FairSpec /\ TimerFairness

-----------------------------------------------------------------------------
(* Properties                                                              *)

\* Types; ncli never goes below zero in popcli.
TypeOK ==
  /\ lock \in [Lock -> CPU \cup {None}]
  /\ state \in [Proc -> {"RUNNABLE", "RUNNING", "SLEEPING"}]
  /\ asleepOn \in [Proc -> BOOLEAN]
  /\ locked \in BOOLEAN /\ pid \in Proc \cup {None}
  /\ cur \in [CPU -> Proc \cup {None}] /\ run \in [CPU -> Proc \cup {None}]
  /\ spc \in [CPU -> {"top", "spin", "scan", "back"}]
  /\ idx \in [CPU -> 1..(NPROC + 1)]
  /\ IF_ \in [CPU -> BOOLEAN] /\ intena \in [CPU -> BOOLEAN]
  /\ ncli \in [CPU -> Nat]
  /\ pc \in [Proc -> Points] /\ ret \in [Proc -> Points]
  /\ saved \in [Proc -> BOOLEAN]
  /\ panicked \in BOOLEAN

\* sched() leaves a process RUNNABLE, or open to a wakeup, while its processor
\* still runs on its kernel stack: no other processor switches to that stack
\* before the swtch is done.
OneCpu == \A c, d \in CPU : run[c] # None /\ run[c] = run[d] => c = d

\* p is between acquiresleep and releasesleep.
Inside(p) == pc[p] = "cs" \/ (pc[p] \in Handler /\ ret[p] = "cs")
                          \/ pc[p] \in {"rel_acq", "unlock"}

\* The sleep lock excludes: at most one process is between acquiresleep and
\* releasesleep, and it is the one lk->pid names.
MutualExclusion == \A p \in Proc : Inside(p) => locked /\ pid = p

\* intena belongs to the kernel thread and not to the processor: whatever ran
\* in between, a process that slept or was preempted continues with
\* interrupts on once it holds no spinlock.
InterruptsRestored ==
  \A c \in CPU, p \in Proc :
    run[c] = p /\ pc[p] \in {"out", "cs", "again"} => IF_[c]

\* None of the panics of acquire, release, popcli and sched is reached: in
\* particular nobody sleeps or is preempted with a second spinlock held.
NoPanic == ~panicked

\* A process sleeps on the lock only while somebody has it, or is in the wakeup
\* of its releasesleep: the test of lk->locked and the sleep cannot be split by
\* a release on another processor.
NoLostWakeup ==
  \A p \in Proc : state[p] = "SLEEPING" =>
    locked \/ \E q \in Proc : pc[q] \in {"wk_acq", "wk"}

\* Locks on two processors, with preemption: the sleep lock excludes, spinlocks
\* meet none of their panics, interrupts come back on, and nobody sleeps on a
\* lock that is free.
LocksSafe == TypeOK /\ MutualExclusion /\ InterruptsRestored /\ NoPanic /\ NoLostWakeup

\* No lost wakeup: whoever sleeps on the lock is made RUNNABLE, wherever the
\* releasesleep falls between the test of lk->locked and the swtch in sleep.
SleeperWoken == \A p \in Proc : state[p] = "SLEEPING" ~> state[p] # "SLEEPING"

\* A process that is RUNNABLE gets a processor.
Scheduled == \A p \in Proc : state[p] = "RUNNABLE" ~> state[p] = "RUNNING"
=============================================================================
