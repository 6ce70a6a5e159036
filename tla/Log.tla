-------------------------------- MODULE Log --------------------------------
(***************************************************************************)
(* The write-ahead log of the xv6 file system (os-master/log.c): group      *)
(* commit of concurrent system calls, installation, crash and recovery.     *)
(*                                                                         *)
(* A critical section of log.lock is one step, and so is every block write: *)
(* a crash can fall between any two of them.  The buffer cache is kept to   *)
(* what log.c relies on: bread returns the cached copy or reads the disk,   *)
(* and a buffer that is neither locked nor B_DIRTY may be recycled.         *)
(***************************************************************************)
EXTENDS Integers, Sequences, FiniteSets

CONSTANTS
  Proc,         \* the kernel threads that make file system calls
  Block,        \* the home blocks of the file system
  Value,        \* the contents of a block
  InitValue,    \* what mkfs put into every block
  None,         \* no buffer / no block
  MAXOPBLOCKS,  \* param.h: max blocks any FS op writes
  LOGSIZE,      \* param.h: max data blocks in the on-disk log
  NLOG          \* superblock.nlog: blocks of the on-disk log, header included

ASSUME LogAssumption ==
  /\ IsFiniteSet(Proc) /\ IsFiniteSet(Block)
  /\ InitValue \in Value
  /\ None \notin Value /\ None \notin Block
  /\ MAXOPBLOCKS \in Nat \ {0}
  /\ LOGSIZE \in Nat /\ NLOG \in Nat

VARIABLES
  disk,         \* home blocks on disk
  dlog,         \* log blocks on disk
  dhead,        \* header block on disk: the block numbers it lists
  cache,        \* cached copy of a home block, or None
  dirty,        \* blocks whose buffer is B_DIRTY
  lh,           \* log.lh in memory
  outstanding,  \* log.outstanding
  committing,   \* log.committing
  pc,           \* where each thread is
  tail,         \* the loop index of write_log and install_trans
  buf,          \* the buffer a thread has locked, or None
  wrote,        \* the distinct blocks the current system call has logged
  panicked      \* panic() was called

dvars == <<disk, dlog, dhead>>
vars == <<disk, dlog, dhead, cache, dirty, lh, outstanding, committing,
          pc, tail, buf, wrote, panicked>>

\* The program points of a thread; "modified" and "checked" are inside
\* log_write, "write_log" to "done" inside commit() and recover_from_log().
InOp == {"op", "modified", "checked"}
Points == InOp \cup {"down", "read_head", "out", "asleep", "woken",
                     "write_log", "install", "done"}

Listed(s) == {s[i] : i \in DOMAIN s}

-----------------------------------------------------------------------------
(* Power-on: the first process runs initlog() from forkret before any other *)
(* process exists; the header on the mkfs image is empty.                   *)

Boot(p) == [q \in Proc |-> IF q = p THEN "read_head" ELSE "down"]

Init ==
  /\ disk = [b \in Block |-> InitValue]
  /\ dlog = [i \in 1..LOGSIZE |-> InitValue]
  /\ dhead = <<>>
  /\ cache = [b \in Block |-> None]
  /\ dirty = {}
  /\ lh = <<>>
  /\ outstanding = 0
  /\ committing = FALSE
  /\ \E p \in Proc : pc = Boot(p)
  /\ tail = [p \in Proc |-> 0]
  /\ buf = [p \in Proc |-> None]
  /\ wrote = [p \in Proc |-> {}]
  /\ panicked = FALSE

\* bread(): the cached copy, or a read of the disk.
Content(b) == IF cache[b] = None THEN disk[b] ELSE cache[b]

Locked(b) == \E q \in Proc : buf[q] = b

\* wakeup(&log)
Wake(f) == [q \in Proc |-> IF f[q] = "asleep" THEN "woken" ELSE f[q]]

-----------------------------------------------------------------------------
(* begin_op                                                                *)

CanBegin ==
  /\ ~committing
  /\ Len(lh) + (outstanding + 1) * MAXOPBLOCKS <= LOGSIZE

\* log.outstanding += 1
Counted == outstanding + 1

BeginOp(p) ==
  /\ pc[p] \in {"out", "woken"}
  /\ \/ /\ CanBegin
        /\ outstanding' = Counted
        /\ pc' = [pc EXCEPT ![p] = "op"]
        /\ wrote' = [wrote EXCEPT ![p] = {}]
     \/ /\ ~CanBegin
        /\ pc' = [pc EXCEPT ![p] = "asleep"]
        /\ UNCHANGED <<outstanding, wrote>>
  /\ UNCHANGED <<dvars, cache, dirty, lh, committing, tail, buf, panicked>>

-----------------------------------------------------------------------------
(* Inside a system call: bread, modify, log_write, brelse.  A call writes   *)
(* at most MAXOPBLOCKS distinct blocks: that is its side of the contract.   *)

ModifyBuf(p, b, v) ==
  /\ pc[p] = "op"
  /\ ~Locked(b)
  /\ b \in wrote[p] \/ Cardinality(wrote[p]) < MAXOPBLOCKS
  /\ cache' = [cache EXCEPT ![b] = v]
  /\ buf' = [buf EXCEPT ![p] = b]
  /\ pc' = [pc EXCEPT ![p] = "modified"]
  /\ UNCHANGED <<dvars, dirty, lh, outstanding, committing, tail, wrote, panicked>>

\* The tests of log_write, made before log.lock is taken.
TooBig == Len(lh) >= LOGSIZE \/ Len(lh) >= NLOG - 1

LogWriteCheck(p) ==
  /\ pc[p] = "modified"
  /\ \/ /\ TooBig \/ outstanding < 1
        /\ panicked' = TRUE
        /\ UNCHANGED pc
     \/ /\ ~TooBig /\ outstanding >= 1
        /\ pc' = [pc EXCEPT ![p] = "checked"]
        /\ UNCHANGED panicked
  /\ UNCHANGED <<dvars, cache, dirty, lh, outstanding, committing, tail, buf, wrote>>

NoAbsorption(b) == Append(lh, b)

\* log absorption: a block is listed once.
Absorb(b) == IF b \in Listed(lh) THEN lh ELSE Append(lh, b)

NoPin(b) == dirty

\* b->flags |= B_DIRTY: prevent eviction.
Pin(b) == dirty \cup {b}

LogWriteAppend(p) ==
  /\ pc[p] = "checked"
  /\ lh' = Absorb(buf[p])
  /\ dirty' = Pin(buf[p])
  /\ wrote' = [wrote EXCEPT ![p] = @ \cup {buf[p]}]
  /\ buf' = [buf EXCEPT ![p] = None]
  /\ pc' = [pc EXCEPT ![p] = "op"]
  /\ UNCHANGED <<dvars, cache, outstanding, committing, tail, panicked>>

-----------------------------------------------------------------------------
(* end_op and commit                                                       *)

CommitsEarly(left) == left <= 1

\* The last outstanding operation commits.
LastOut(left) == left = 0

EndOp(p) ==
  /\ pc[p] = "op"
  /\ outstanding' = outstanding - 1
  /\ \/ /\ committing
        /\ panicked' = TRUE
        /\ UNCHANGED <<committing, pc>>
     \/ /\ ~committing /\ LastOut(outstanding - 1)
        /\ committing' = TRUE
        /\ pc' = [pc EXCEPT ![p] = IF Len(lh) > 0 THEN "write_log" ELSE "done"]
        /\ UNCHANGED panicked
     \/ /\ ~committing /\ ~LastOut(outstanding - 1)
        /\ pc' = Wake([pc EXCEPT ![p] = "out"])
        /\ UNCHANGED <<committing, panicked>>
  /\ wrote' = [wrote EXCEPT ![p] = {}]
  /\ UNCHANGED <<dvars, cache, dirty, lh, tail, buf>>

\* One iteration of write_log: cache block to log block.
WriteLog(p) ==
  /\ pc[p] = "write_log" /\ tail[p] < Len(lh)
  /\ LET b == lh[tail[p] + 1] IN
       /\ ~Locked(b)
       /\ dlog' = [dlog EXCEPT ![tail[p] + 1] = Content(b)]
       /\ cache' = [cache EXCEPT ![b] = Content(b)]
  /\ tail' = [tail EXCEPT ![p] = @ + 1]
  /\ UNCHANGED <<disk, dhead, dirty, lh, outstanding, committing, pc, buf, wrote, panicked>>

\* The header is written when the loop of write_log is through.
LogWritten(p) == tail[p] = Len(lh)

\* write_head(): "the true point at which the current transaction commits".
WriteHead(p) ==
  /\ pc[p] = "write_log" /\ LogWritten(p)
  /\ dhead' = lh
  /\ tail' = [tail EXCEPT ![p] = 0]
  /\ pc' = [pc EXCEPT ![p] = "install"]
  /\ UNCHANGED <<disk, dlog, cache, dirty, lh, outstanding, committing, buf, wrote, panicked>>

\* One iteration of install_trans: log block to home block.
InstallTrans(p) ==
  /\ pc[p] = "install" /\ tail[p] < Len(lh)
  /\ LET b == lh[tail[p] + 1] IN
       /\ ~Locked(b)
       /\ disk' = [disk EXCEPT ![b] = dlog[tail[p] + 1]]
       /\ cache' = [cache EXCEPT ![b] = dlog[tail[p] + 1]]
       /\ dirty' = dirty \ {b}
  /\ tail' = [tail EXCEPT ![p] = @ + 1]
  /\ UNCHANGED <<dlog, dhead, lh, outstanding, committing, pc, buf, wrote, panicked>>

OffByOne(p) == tail[p] = Len(lh) + 1

\* The loop of install_trans is through.
Installed(p) == tail[p] = Len(lh)

\* log.lh.n = 0; write_head(): the end of commit(), or of recover_from_log(),
\* after which the other processes start.
EraseLog(p) ==
  /\ pc[p] = "install" /\ Installed(p)
  /\ lh' = <<>>
  /\ dhead' = <<>>
  /\ tail' = [tail EXCEPT ![p] = 0]
  /\ pc' = IF committing THEN [pc EXCEPT ![p] = "done"] ELSE [q \in Proc |-> "out"]
  /\ UNCHANGED <<disk, dlog, cache, dirty, outstanding, committing, buf, wrote, panicked>>

SilentEnd(f) == f

\* The wakeup(&log) with which end_op leaves.
WakeAtEnd(f) == Wake(f)

EndCommit(p) ==
  /\ pc[p] = "done"
  /\ committing' = FALSE
  /\ pc' = WakeAtEnd([pc EXCEPT ![p] = "out"])
  /\ UNCHANGED <<dvars, cache, dirty, lh, outstanding, tail, buf, wrote, panicked>>

-----------------------------------------------------------------------------
(* recover_from_log: read_head, then install_trans and write_head as above. *)

HeadOnDisk(p) == dhead

ReadHead(p) ==
  /\ pc[p] = "read_head"
  /\ lh' = HeadOnDisk(p)
  /\ pc' = [pc EXCEPT ![p] = "install"]
  /\ UNCHANGED <<dvars, cache, dirty, outstanding, committing, tail, buf, wrote, panicked>>

-----------------------------------------------------------------------------
(* The buffer cache under the log (bio.c), and the crash.                   *)

Recovering == ~committing /\ \E p \in Proc : pc[p] \in {"read_head", "install"}

\* bread() by a call that only reads, outside any transaction.
LoadBuf(b) ==
  /\ ~Recovering
  /\ cache[b] = None
  /\ cache' = [cache EXCEPT ![b] = disk[b]]
  /\ UNCHANGED <<dvars, dirty, lh, outstanding, committing, pc, tail, buf, wrote, panicked>>

\* bget() recycles a buffer: refcnt == 0 and not B_DIRTY.
Evict(b) ==
  /\ cache[b] # None
  /\ b \notin dirty /\ ~Locked(b)
  /\ cache' = [cache EXCEPT ![b] = None]
  /\ UNCHANGED <<dvars, dirty, lh, outstanding, committing, pc, tail, buf, wrote, panicked>>

\* Memory is lost, the disk stays; reboot.
Crash ==
  /\ cache' = [b \in Block |-> None]
  /\ dirty' = {}
  /\ lh' = <<>>
  /\ outstanding' = 0
  /\ committing' = FALSE
  /\ \E p \in Proc : pc' = Boot(p)
  /\ tail' = [p \in Proc |-> 0]
  /\ buf' = [p \in Proc |-> None]
  /\ wrote' = [p \in Proc |-> {}]
  /\ panicked' = FALSE
  /\ UNCHANGED dvars

-----------------------------------------------------------------------------

CallStep(p) ==
  \/ BeginOp(p) \/ LogWriteCheck(p) \/ LogWriteAppend(p) \/ EndOp(p)
  \/ \E b \in Block, v \in Value : ModifyBuf(p, b, v)

CommitStep(p) ==
  \/ ReadHead(p) \/ WriteLog(p) \/ WriteHead(p) \/ InstallTrans(p)
  \/ EraseLog(p) \/ EndCommit(p)

Next ==
  \/ /\ ~panicked
     /\ \/ \E p \in Proc : CallStep(p) \/ CommitStep(p)
        \/ \E b \in Block : LoadBuf(b) \/ Evict(b)
  \/ Crash

Spec == Init /\ [][Next]_vars

(* A thread that is runnable is scheduled again (round-robin scheduler), a  *)
(* disk request completes, and every system call reaches its end_op.        *)
Fairness ==
  \A p \in Proc :
    /\ WF_vars(~panicked /\ (CommitStep(p) \/ LogWriteCheck(p) \/ LogWriteAppend(p)))
    /\ WF_vars(~panicked /\ pc[p] = "woken" /\ BeginOp(p))
    /\ SF_vars(~panicked /\ EndOp(p))

FairSpec == Spec /\ Fairness

-----------------------------------------------------------------------------
(* Properties                                                              *)

\* Types; outstanding is not negative, and the loop indices of write_log and
\* install_trans stay inside the log.
TypeOK ==
  /\ disk \in [Block -> Value]
  /\ dlog \in [1..LOGSIZE -> Value]
  /\ dhead \in Seq(Block)
  /\ cache \in [Block -> Value \cup {None}]
  /\ dirty \subseteq Block
  /\ lh \in Seq(Block)
  /\ outstanding \in Nat
  /\ committing \in BOOLEAN
  /\ pc \in [Proc -> Points]
  /\ tail \in [Proc -> 0..LOGSIZE]
  /\ buf \in [Proc -> Block \cup {None}]
  /\ wrote \in [Proc -> SUBSET Block]
  /\ panicked \in BOOLEAN

\* The space begin_op reserves is enough: however the system calls interleave,
\* the transaction never outgrows the LOGSIZE entries of log.lh.block[].
LogFits == Len(lh) <= LOGSIZE

\* log.c:11-15: "only commits when there are no FS system calls active".  One
\* thread at most is in commit() or recovery, and nobody else is in a call.
CommitExclusive ==
  \A p \in Proc : pc[p] \in {"write_log", "install", "done", "read_head"} =>
    /\ outstanding = 0
    /\ \A q \in Proc \ {p} : pc[q] \notin InOp \cup {"write_log", "install", "done"}

\* The calls, the commits and the recovery share log.lh and log.outstanding
\* safely: the log is never overrun, and commit runs alone.
LogSafe == TypeOK /\ LogFits /\ CommitExclusive

\* What recovery would make of the disk: the home blocks, overwritten by the
\* log blocks the on-disk header lists, later entries last.
Durable ==
  [b \in Block |->
     LET I == {i \in DOMAIN dhead : dhead[i] = b}
     IN  IF I = {} THEN disk[b] ELSE dlog[CHOOSE i \in I : \A j \in I : j <= i]]

\* What a bread() returns; while recovery runs nobody reads yet.
View == IF Recovering THEN Durable ELSE [b \in Block |-> Content(b)]

\* The abstract disk: what reads see, what a crash leaves, and who is in a call.
Trans == INSTANCE Transactions WITH
           view <- View, durable <- Durable,
           active <- {p \in Proc : pc[p] \in InOp}

\* Crash atomicity: the log implements a disk whose transactions commit all at
\* once, and on which a crash at any point (inside commit, inside recovery)
\* loses exactly what was not committed.
CrashAtomic == Trans!ASpec

\* log.c:132-133 and param.h:11: begin_op makes a call wait that "might exhaust
\* log space", so a call that logs at most MAXOPBLOCKS blocks meets no panic.
\* (log_write tests the log's size before it looks for the block in it: a call
\* that logs again a block of a full log does panic, whatever was reserved.)
ReservationHonoured ==
  panicked => \E p \in Proc : pc[p] = "modified" /\ buf[p] \in Listed(lh)

\* No lost wakeup: a call sleeping in begin_op, for a commit or for log space,
\* is made runnable again (unless the kernel stops).
SleeperWoken ==
  \A p \in Proc : pc[p] = "asleep" ~> (pc[p] # "asleep" \/ panicked)

\* When the machine stops crashing, recovery comes to its end and the file
\* system is available.
RecoveryEnds == <>[][~Crash]_vars => []<>(~Recovering)
=============================================================================
