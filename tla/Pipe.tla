-------------------------------- MODULE Pipe --------------------------------
(***************************************************************************)
(* Pipes (os-master/pipe.c): pipewrite, piperead and pipeclose, with the    *)
(* reference counting of fileclose and filedup (file.c) that decides when   *)
(* an end is closed and the pipe is freed.                                  *)
(*                                                                         *)
(* A critical section of p->lock, up to a sleep, is one step.  The counters *)
(* nread and nwrite are unsigned: they wrap at MOD (2^32 in the code).      *)
(***************************************************************************)
EXTENDS Integers, Sequences, FiniteSets, FiniteSetsExt

CONSTANTS
  Reader,   \* processes that have, or may inherit, the read end and keep it
  Writer,   \* processes that have, or may inherit, the write end and keep it
  Byte,     \* what is written
  Message,  \* the arguments of write
  Count,    \* the byte counts given to read
  PIPESIZE, \* the size of p->data
  MOD       \* where the counters wrap

ASSUME PipeAssumption ==
  /\ Reader \cap Writer = {}
  /\ Message \subseteq Seq(Byte) /\ Count \subseteq Nat \ {0}
  /\ PIPESIZE \in Nat \ {0} /\ MOD \in Nat \ {0}
  /\ MOD % PIPESIZE = 0 /\ PIPESIZE < MOD

Proc == Reader \cup Writer
Peers(p) == IF p \in Reader THEN Reader ELSE Writer

VARIABLES
  data, nread, nwrite, readopen, writeopen,  \* struct pipe; data is indexed from 0
  freed,    \* the page of the pipe was given to kfree
  open,     \* the processes whose descriptor refers to the end (file.ref)
  killed,   \* proc.killed
  pc,       \* where a process is; "none": not yet forked
  msg, i,   \* addr and i of pipewrite
  want,     \* n of piperead
  got       \* the bytes that the last piperead to return copied out

pipe == <<data, nread, nwrite, readopen, writeopen, freed>>
call == <<msg, i, want, got>>
vars == <<data, nread, nwrite, readopen, writeopen, freed, open, killed, pc, msg, i, want, got>>

Calling == {"write", "wsleep", "read", "rsleep"}
Points == Calling \cup {"none", "idle", "closing", "closed"}

\* pipealloc: one process has both ends; it is the first reader and writer
\* that keep one each.
Init ==
  /\ \E b \in Byte : data = [j \in 0..(PIPESIZE - 1) |-> b]
  /\ nread = 0 /\ nwrite = 0
  /\ readopen = TRUE /\ writeopen = TRUE
  /\ freed = FALSE
  /\ \E r \in Reader, w \in Writer :
       /\ open = {r, w}
       /\ pc = [p \in Proc |-> IF p \in {r, w} THEN "idle" ELSE "none"]
  /\ killed = [p \in Proc |-> FALSE]
  /\ msg = [w \in Writer |-> <<>>]
  /\ i = [w \in Writer |-> 0]
  /\ want = [r \in Reader |-> 0]
  /\ got = <<>>

Goto(p, point) == pc' = [pc EXCEPT ![p] = point]

\* wakeup(&p->nread) and wakeup(&p->nwrite)
WakeReaders(f) == [p \in Proc |-> IF f[p] = "rsleep" THEN "read" ELSE f[p]]
WakeWriters(f) == [p \in Proc |-> IF f[p] = "wsleep" THEN "write" ELSE f[p]]

Used == (nwrite - nread) % MOD

\* What fits before nwrite == nread + PIPESIZE.
Space == PIPESIZE - Used

-----------------------------------------------------------------------------
(* pipewrite                                                               *)

WriteCall(w, m) ==
  /\ pc[w] = "idle" /\ w \in open /\ ~killed[w]
  /\ msg' = [msg EXCEPT ![w] = m]
  /\ Goto(w, "write")
  /\ UNCHANGED <<pipe, open, killed, i, want, got>>

\* p->data[p->nwrite++ % PIPESIZE] = addr[i], k times.
Stored(w, k) ==
  [j \in 0..(PIPESIZE - 1) |->
     LET M == {m \in 0..(k - 1) : (nwrite + m) % PIPESIZE = j}
     IN  IF M = {} THEN data[j] ELSE msg[w][i[w] + Max(M) + 1]]

NoWakeup(f) == f

\* The wakeup(&p->nread) before a full pipe's sleep.
WakeWhenFull(f) == WakeReaders(f)

\* The locals of pipewrite go with its frame.
EndWrite(w) == msg' = [msg EXCEPT ![w] = <<>>] /\ i' = [i EXCEPT ![w] = 0]

\* The loop: copy while there is space; then finish, give up or sleep.
PipeWrite(w) ==
  /\ pc[w] = "write"
  /\ LET k == Min({Len(msg[w]) - i[w], Space})
         done == i[w] + k = Len(msg[w])
     IN  /\ data' = Stored(w, k)
         /\ nwrite' = (nwrite + k) % MOD
         /\ \/ /\ done
               /\ pc' = WakeReaders([pc EXCEPT ![w] = "idle"])
               /\ EndWrite(w)
            \/ /\ ~done /\ (~readopen \/ killed[w])
               /\ Goto(w, "idle")
               /\ EndWrite(w)
            \/ /\ ~done /\ readopen /\ ~killed[w]
               /\ pc' = WakeWhenFull([pc EXCEPT ![w] = "wsleep"])
               /\ i' = [i EXCEPT ![w] = @ + k]
               /\ UNCHANGED msg
  /\ UNCHANGED <<nread, readopen, writeopen, freed, open, killed, want, got>>

-----------------------------------------------------------------------------
(* piperead                                                                *)

ReadCall(r, n) ==
  /\ pc[r] = "idle" /\ r \in open /\ ~killed[r]
  /\ want' = [want EXCEPT ![r] = n]
  /\ Goto(r, "read")
  /\ UNCHANGED <<pipe, open, killed, msg, i, got>>

\* The condition of the wait: empty, and somebody may still write.
MustWait(r) == nread = nwrite /\ writeopen

PipeReadWait(r) ==
  /\ pc[r] = "read" /\ MustWait(r)
  /\ \/ /\ killed[r]
        /\ Goto(r, "idle")
        /\ want' = [want EXCEPT ![r] = 0]
     \/ /\ ~killed[r]
        /\ Goto(r, "rsleep")
        /\ UNCHANGED want
  /\ UNCHANGED <<pipe, open, killed, msg, i, got>>

\* wakeup(&p->nwrite) after the copy.
WakeAfterRead(f) == WakeWriters(f)

Unordered(k) == [m \in 1..k |-> data[(nread + k - m) % PIPESIZE]]

\* addr[i] = p->data[p->nread++ % PIPESIZE], k times.
Taken(k) == [m \in 1..k |-> data[(nread + m - 1) % PIPESIZE]]

PipeRead(r) ==
  /\ pc[r] = "read" /\ ~MustWait(r)
  /\ LET k == Min({want[r], Used}) IN
       /\ got' = Taken(k)
       /\ nread' = (nread + k) % MOD
  /\ pc' = WakeAfterRead([pc EXCEPT ![r] = "idle"])
  /\ want' = [want EXCEPT ![r] = 0]
  /\ UNCHANGED <<data, nwrite, readopen, writeopen, freed, open, killed, msg, i>>

-----------------------------------------------------------------------------
(* Descriptors: fork and close, and the end of a process.                   *)

\* fork: filedup of the descriptor.
Filedup(p, q) ==
  /\ pc[p] = "idle" /\ p \in open /\ ~killed[p]
  /\ pc[q] = "none" /\ q \in Peers(p)
  /\ open' = open \cup {q}
  /\ Goto(q, "idle")
  /\ UNCHANGED <<pipe, killed, call>>

EveryClose(p) == TRUE

\* --f->ref > 0 keeps the end open.
LastRef(p) == open \cap Peers(p) = {p}

\* fileclose, by close() or by exit().
Fileclose(p) ==
  /\ pc[p] = "idle" /\ p \in open
  /\ open' = open \ {p}
  /\ Goto(p, IF LastRef(p) THEN "closing" ELSE "closed")
  /\ UNCHANGED <<pipe, killed, call>>

SilentClose(p, f) == f

\* The wakeup of pipeclose: of the other side.
WakeAtClose(p, f) == IF p \in Writer THEN WakeReaders(f) ELSE WakeWriters(f)

Pipeclose(p) ==
  /\ pc[p] = "closing"
  /\ readopen' = (readopen /\ p \notin Reader)
  /\ writeopen' = (writeopen /\ p \notin Writer)
  /\ freed' = (~readopen' /\ ~writeopen')
  /\ pc' = WakeAtClose(p, [pc EXCEPT ![p] = "closed"])
  /\ UNCHANGED <<data, nread, nwrite, open, killed, call>>

\* kill(): the flag, and RUNNABLE if it sleeps.
Kill(p) ==
  /\ pc[p] \notin {"none", "closed"} /\ ~killed[p]
  /\ killed' = [killed EXCEPT ![p] = TRUE]
  /\ pc' = [pc EXCEPT ![p] = CASE @ = "rsleep" -> "read" [] @ = "wsleep" -> "write"
                                [] OTHER -> @]
  /\ UNCHANGED <<pipe, open, call>>

-----------------------------------------------------------------------------

Round(p) ==
  \/ p \in Writer /\ PipeWrite(p)
  \/ p \in Reader /\ (PipeReadWait(p) \/ PipeRead(p))
  \/ Pipeclose(p)

Next ==
  \/ \E w \in Writer, m \in Message : WriteCall(w, m)
  \/ \E r \in Reader, n \in Count : ReadCall(r, n)
  \/ \E p \in Proc : Round(p) \/ Fileclose(p) \/ Kill(p) \/ \E q \in Proc : Filedup(p, q)

Spec == Init /\ [][Next]_vars

-----------------------------------------------------------------------------
(* Properties                                                              *)

\* Types; the counters nread and nwrite are never more than PIPESIZE apart.
TypeOK ==
  /\ data \in [0..(PIPESIZE - 1) -> Byte]
  /\ nread \in 0..(MOD - 1) /\ nwrite \in 0..(MOD - 1)
  /\ Used <= PIPESIZE
  /\ readopen \in BOOLEAN /\ writeopen \in BOOLEAN /\ freed \in BOOLEAN
  /\ open \subseteq Proc
  /\ killed \in [Proc -> BOOLEAN] /\ pc \in [Proc -> Points]
  /\ \A w \in Writer : msg[w] \in Message \cup {<<>>} /\ i[w] \in 0..Len(msg[w])
  /\ \A r \in Reader : want[r] \in Count \cup {0} /\ got \in Seq(Byte)

\* The queue: the bytes of the ring buffer between nread and nwrite.
Stream == INSTANCE ByteStream WITH
            Capacity <- PIPESIZE, queue <- Taken(Used), ended <- ~writeopen

\* The ring buffer is a queue of bytes: nothing is lost, repeated or reordered
\* across wrap-arounds of the index and of the counters, whichever readers and
\* writers take turns, and end-of-file comes only after the last byte.
IsByteStream == Stream!BSpec

\* The page of the pipe is not given back while a process is in piperead or
\* pipewrite, or still has a descriptor to come back with.
NoUseAfterFree ==
  freed => open = {} /\ \A p \in Proc : pc[p] \notin Calling \cup {"closing"}

\* pipe.c:106, "pipe-empty": a reader sleeps only while the pipe is empty and
\* open for writing; whoever changes that wakes it, as long as no writer is
\* killed in the middle of a write.
ReaderWoken ==
  (\A w \in Writer : ~killed[w]) =>
    \A r \in Reader : pc[r] = "rsleep" => nread = nwrite /\ writeopen

\* pipe.c:85, "pipewrite-full": a writer sleeps only while the pipe is full and
\* open for reading.
WriterWoken ==
  \A w \in Writer : pc[w] = "wsleep" => Used = PIPESIZE /\ readopen

\* Readers and writers never sleep on each other, or on a state that is past.
NobodyForgotten == ReaderWoken /\ WriterWoken

\* The counters stay within the pipe and the page lives as long as its users.
PageSafe == TypeOK /\ NoUseAfterFree
=============================================================================
