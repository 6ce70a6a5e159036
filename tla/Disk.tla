-------------------------------- MODULE Disk --------------------------------
(***************************************************************************)
(* The buffer cache (os-master/bio.c) and the IDE driver (ide.c): kernel   *)
(* threads get a buffer for a block, wait for its sleep lock, have it read *)
(* from the disk if it is not valid, change it, write it through or leave  *)
(* it pinned for the log, and release it.  Requests wait in idequeue; the  *)
(* head is the one the disk works on.                                      *)
(*                                                                         *)
(* bcache.lock and idelock are spin locks held for one action each.  The   *)
(* disk itself (Device) is not part of the repository; it does what it is  *)
(* told and interrupts once per request.                                   *)
(***************************************************************************)
EXTENDS Integers, Sequences, FiniteSets

CONSTANTS
    Threads,        \* kernel threads that use blocks
    Blocks,         \* blocks of the disk
    NBUF,           \* buffers of the cache
    MaxPinned,      \* blocks the log may have pinned at a time
    Data,           \* the contents a block may have
    None            \* no thread, no block, no contents

ASSUME DiskAssumption ==
    /\ NBUF \in Nat /\ Data # {} /\ IsFiniteSet(Threads)
    /\ None \notin Threads /\ None \notin Blocks /\ None \notin Data

Bufs == 1 .. NBUF

VARIABLES
    buf,            \* [block, valid, dirty, refcnt, data, lock] of each buffer
    mru,            \* the list of buffers, most recently used first
    idequeue,       \* the buffers waiting for the disk, head first
    command,        \* what the disk was told: None or [block, write, data]
    pending,        \* the disk has interrupted
    disk,           \* contents of the blocks on the disk
    pc, b,          \* where thread t is, and its buffer
    latest,         \* history: what was last put into block k
    panicked

dvars == <<buf, mru, idequeue, command, pending, disk, pc, b, latest, panicked>>

DiskInit ==
    /\ buf = [i \in Bufs |-> [block |-> None, valid |-> FALSE, dirty |-> FALSE,
                              refcnt |-> 0, data |-> None, lock |-> None]]
    /\ mru = [i \in Bufs |-> NBUF + 1 - i]
    /\ idequeue = << >> /\ command = None /\ pending = FALSE
    /\ disk \in [Blocks -> {CHOOSE d \in Data : TRUE}]
    /\ latest = disk
    /\ pc = [t \in Threads |-> "idle"] /\ b = [t \in Threads |-> 0]
    /\ panicked = FALSE

Goto(t, where) == pc' = [pc EXCEPT ![t] = where]

-----------------------------------------------------------------------------
(* bio.c                                                                   *)

Cached(k) == {i \in Bufs : buf[i].block = k}

\* Mutant: a buffer that nobody holds is recycled although the log pins it.
RecyclableAny == {n \in Bufs : buf[mru[n]].refcnt = 0}

\* Places in the list of the buffers that may be recycled.
Recyclable == {n \in Bufs : buf[mru[n]].refcnt = 0 /\ ~buf[mru[n]].dirty}

Take(t, i, rec) ==
    /\ buf' = [buf EXCEPT ![i] = rec]
    /\ b' = [b EXCEPT ![t] = i] /\ Goto(t, "lock")
    /\ UNCHANGED <<mru, idequeue, command, pending, disk, latest, panicked>>

Bget(t, k) ==
    /\ pc[t] = "idle"
    /\ \/ \E i \in Cached(k) : Take(t, i, [buf[i] EXCEPT !.refcnt = @ + 1])
       \/ /\ Cached(k) = {}
          /\ \E n \in Recyclable :
               /\ \A m \in Recyclable : m <= n
               /\ Take(t, mru[n], [buf[mru[n]] EXCEPT !.block = k, !.valid = FALSE,
                                      !.dirty = FALSE, !.refcnt = 1])
       \/ /\ Cached(k) = {} /\ Recyclable = {} /\ panicked' = TRUE
          /\ UNCHANGED <<buf, mru, idequeue, command, pending, disk, pc, b, latest>>

\* acquiresleep, and bread's test of B_VALID.
Lock(t) ==
    /\ pc[t] = "lock" /\ buf[b[t]].lock = None
    /\ buf' = [buf EXCEPT ![b[t]].lock = t]
    /\ Goto(t, IF buf[b[t]].valid THEN "hold" ELSE "iderw")
    /\ UNCHANGED <<mru, idequeue, command, pending, disk, b, latest, panicked>>

Change(t, d, where) ==
    /\ pc[t] = "hold"
    /\ buf' = [buf EXCEPT ![b[t]].data = d, ![b[t]].dirty = TRUE]
    /\ latest' = [latest EXCEPT ![buf[b[t]].block] = d]
    /\ Goto(t, where)
    /\ UNCHANGED <<mru, idequeue, command, pending, disk, b, panicked>>

\* The holder changes the data and calls bwrite ...
Bwrite(t, d) == Change(t, d, "iderw")

\* ... or log_write, which leaves the buffer dirty (log.c).
LogWrite(t, d) ==
    /\ Cardinality({i \in Bufs : buf[i].dirty} \cup {b[t]}) <= MaxPinned
    /\ Change(t, d, "hold")

\* releasesleep; the count is dropped later, under bcache.lock.
Brelse(t) ==
    /\ pc[t] = "hold"
    /\ buf' = [buf EXCEPT ![b[t]].lock = None]
    /\ Goto(t, "put")
    /\ UNCHANGED <<mru, idequeue, command, pending, disk, b, latest, panicked>>

\* "no one is waiting for it": the buffer goes to the head of the list.
ToFront(i) ==
    LET k == CHOOSE n \in Bufs : mru[n] = i
    IN  [n \in Bufs |-> IF n = 1 THEN i ELSE IF n <= k THEN mru[n - 1] ELSE mru[n]]

BrelsePut(t) ==
    /\ pc[t] = "put"
    /\ buf' = [buf EXCEPT ![b[t]].refcnt = @ - 1]
    /\ mru' = IF buf[b[t]].refcnt = 1 THEN ToFront(b[t]) ELSE mru
    /\ Goto(t, "idle") /\ b' = [b EXCEPT ![t] = 0]
    /\ UNCHANGED <<idequeue, command, pending, disk, latest, panicked>>

-----------------------------------------------------------------------------
(* ide.c                                                                   *)

\* What idestart tells the disk: a dirty buffer is written.
Request(rec) == [block |-> rec.block, write |-> rec.dirty,
                 data |-> IF rec.dirty THEN rec.data ELSE None]

\* "nothing to do" is a panic.
Iderw(t) ==
    /\ pc[t] = "iderw"
    /\ IF buf[b[t]].valid /\ ~buf[b[t]].dirty
       THEN panicked' = TRUE /\ UNCHANGED <<idequeue, command, pc>>
       ELSE /\ idequeue' = Append(idequeue, b[t])
            /\ command' = IF idequeue = << >> THEN Request(buf[b[t]]) ELSE command
            /\ Goto(t, "asleep")
            /\ UNCHANGED panicked
    /\ UNCHANGED <<buf, mru, pending, disk, b, latest>>

\* External: the disk carries the command out and interrupts.
Device ==
    /\ command # None /\ ~pending
    /\ pending' = TRUE
    /\ disk' = IF command.write THEN [disk EXCEPT ![command.block] = command.data] ELSE disk
    /\ UNCHANGED <<buf, mru, idequeue, command, pc, b, latest, panicked>>

\* Mutant: the interrupt handler does not start the next request.
RestartNot(q) == None

\* The request that is started when q is left in the queue.
Restart(q) == IF q = << >> THEN None ELSE Request(buf[Head(q)])

\* The head of the queue is complete; its sleepers wake (wakeup).
Ideintr ==
    LET i == Head(idequeue)
    IN  /\ pending
        /\ pending' = FALSE
        /\ idequeue' = Tail(idequeue)
        /\ buf' = [buf EXCEPT ![i].data = IF buf[i].dirty THEN @ ELSE disk[command.block],
                              ![i].valid = TRUE, ![i].dirty = FALSE]
        /\ command' = Restart(Tail(idequeue))
        /\ pc' = [t \in Threads |-> IF pc[t] = "asleep" /\ b[t] = i THEN "woken" ELSE pc[t]]
        /\ UNCHANGED <<mru, disk, b, latest, panicked>>

\* while((flags & (B_VALID|B_DIRTY)) != B_VALID) sleep
Woken(t) ==
    /\ pc[t] = "woken"
    /\ Goto(t, IF buf[b[t]].valid /\ ~buf[b[t]].dirty THEN "hold" ELSE "asleep")
    /\ UNCHANGED <<buf, mru, idequeue, command, pending, disk, b, latest, panicked>>

\* iderw of memide.c, the driver of a kernel with the disk in memory.
IderwMem(t) ==
    LET rec == buf[b[t]]
    IN  /\ pc[t] = "iderw"
        /\ disk' = IF rec.dirty THEN [disk EXCEPT ![rec.block] = rec.data] ELSE disk
        /\ buf' = [buf EXCEPT ![b[t]].data = IF rec.dirty THEN @ ELSE disk[rec.block],
                              ![b[t]].valid = TRUE, ![b[t]].dirty = FALSE]
        /\ panicked' = (rec.valid /\ ~rec.dirty)
        /\ Goto(t, "hold")
        /\ UNCHANGED <<mru, idequeue, command, pending, b, latest>>

-----------------------------------------------------------------------------
\* Steps of either kernel, and those of the driver it is linked with.
Cache ==
    \E t \in Threads : \/ Lock(t) \/ Brelse(t) \/ BrelsePut(t)
                       \/ \E k \in Blocks : Bget(t, k)
                       \/ \E d \in Data : Bwrite(t, d) \/ LogWrite(t, d)

IdeDriver == Device \/ Ideintr \/ \E t \in Threads : Iderw(t) \/ Woken(t)
MemDriver == \E t \in Threads : IderwMem(t)

DiskNext == ~panicked /\ (Cache \/ IdeDriver)
MemDiskNext == ~panicked /\ (Cache \/ MemDriver)

IdeSpec == DiskInit /\ [][DiskNext]_dvars
MemSpec == DiskInit /\ [][MemDiskNext]_dvars

-----------------------------------------------------------------------------
\* Whoever holds a block sees what was last put into it, by any thread,
\* whether it was written through, pinned or recycled in between: one buffer
\* per block, the answer of the disk goes to the buffer that asked, and a
\* pinned buffer stays (bio.c:58-93, ide.c:104-131).
ReadsLatest ==
    \A t \in Threads : pc[t] = "hold" =>
        /\ buf[b[t]].lock = t
        /\ buf[b[t]].data = latest[buf[b[t]].block]

\* A request that is queued is answered: it is started, by its caller or by
\* the interrupt of the one before it, and its sleeper is woken
\* (ide.c:103-168).
RequestsServed == \A t \in Threads : (pc[t] = "iderw") ~> (pc[t] = "hold" \/ panicked)
=============================================================================
