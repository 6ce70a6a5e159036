---------------------------- MODULE DeviceProofs ----------------------------
(***************************************************************************)
(* The buffer cache (bio.c) over either driver (ide.c, memide.c) is        *)
(* coherent, for any threads, blocks and number of buffers, and console    *)
(* input (console.c) is kept: what is committed is read once, in order and *)
(* unchanged, and no reader sleeps over it, for any readers and any        *)
(* INPUT_BUF.  Disk and Console share nothing; their proofs come one after *)
(* the other.                                                              *)
(*                                                                         *)
(* That a holder of a block sees the latest data rests on where that data  *)
(* is between the steps: in the one buffer of the block while it is dirty, *)
(* on the disk otherwise (OnDisk), and on the request the disk works on    *)
(* belonging to a buffer that its sleeping owner keeps locked (Requests).  *)
(* A buffer is recycled when its refcnt is 0, so the count must be that    *)
(* of the threads that use it (Counted).                                   *)
(*                                                                         *)
(* InputKept is not inductive without the order of the three indices: a    *)
(* character stored at input.e leaves the ones before it alone because     *)
(* input.e is less than INPUT_BUF ahead of input.r, and editing leaves the *)
(* committed ones alone because it stops at input.w.                       *)
(***************************************************************************)
EXTENDS Disk, Console, FiniteSetTheorems, SequenceTheorems, TLAPS

-----------------------------------------------------------------------------
(* The buffer cache and the drivers                                        *)

Buffer == [block : Blocks \cup {None}, valid : BOOLEAN, dirty : BOOLEAN, refcnt : Nat,
           data : Data \cup {None}, lock : Threads \cup {None}]

\* Between acquiresleep and releasesleep of the buffer.
Holding == {"hold", "iderw", "asleep", "woken"}

Places == Holding \cup {"idle", "lock", "put"}

Types ==
    /\ buf \in [Bufs -> Buffer] /\ mru \in [Bufs -> Bufs] /\ idequeue \in Seq(Bufs)
    /\ pending \in BOOLEAN /\ disk \in [Blocks -> Data] /\ latest \in [Blocks -> Data]
    /\ pc \in [Threads -> Places] /\ b \in [Threads -> Bufs \cup {0}]

\* A thread in bio.c has a buffer, and the buffer has a block.
Using ==
    \A t \in Threads :
        /\ pc[t] = "idle" => b[t] = 0
        /\ pc[t] # "idle" => b[t] \in Bufs /\ buf[b[t]].block # None

\* The threads that have a reference to buffer i, and that refcnt is their number.
Users(i) == {t \in Threads : b[t] = i}

Counted == \A i \in Bufs : buf[i].refcnt = Cardinality(Users(i))

\* The sleep lock of a buffer is held by the thread that is inside.
Locked ==
    /\ \A t \in Threads : pc[t] \in Holding => buf[b[t]].lock = t
    /\ \A t \in Threads : \A i \in Bufs : buf[i].lock = t => pc[t] \in Holding /\ b[t] = i

\* A block has one buffer.
OneBuffer ==
    \A i, j \in Bufs : buf[i].block = buf[j].block /\ buf[i].block # None => i = j

\* What a valid buffer holds is the latest; dirty buffers are valid.
Latest ==
    /\ \A i \in Bufs :
        /\ buf[i].valid = TRUE => buf[i].block # None /\ buf[i].data = latest[buf[i].block]
        /\ buf[i].dirty = TRUE => buf[i].valid = TRUE
    /\ \A t \in Threads :
        /\ pc[t] = "hold" => buf[b[t]].valid = TRUE
        /\ pc[t] = "woken" => buf[b[t]].valid = TRUE /\ buf[b[t]].dirty = FALSE

\* The disk has the latest of every block but those with a dirty buffer.
OnDisk ==
    \A k \in Blocks :
        disk[k] = latest[k] \/ \E i \in Bufs : buf[i].block = k /\ buf[i].dirty = TRUE

\* A queued buffer belongs to a thread asleep in iderw, and is queued once.
Queued ==
    /\ \A m, n \in 1 .. Len(idequeue) : idequeue[m] = idequeue[n] => m = n
    /\ \A n \in 1 .. Len(idequeue) : \E t \in Threads : pc[t] = "asleep" /\ b[t] = idequeue[n]

\* The disk works on the head of the queue; once it has interrupted, a dirty
\* buffer is on the disk.
Requests ==
    /\ idequeue = << >> => command = None /\ pending = FALSE
    /\ idequeue # << >> => command = Request(buf[idequeue[1]])
    /\ pending = TRUE /\ buf[idequeue[1]].dirty = TRUE =>
        disk[buf[idequeue[1]].block] = buf[idequeue[1]].data

\* The inductive invariant.
IInv == Types /\ Using /\ Counted /\ Locked /\ OneBuffer /\ Latest /\ OnDisk /\ Queued /\ Requests

-----------------------------------------------------------------------------
(* Facts about buffers, counts and the queue.                               *)

\* What the types say of the fields of a buffer.
LEMMA FieldTypes ==
    ASSUME Types, NEW i \in Bufs
    PROVE  /\ buf[i].block \in Blocks \cup {None} /\ buf[i].valid \in BOOLEAN
           /\ buf[i].dirty \in BOOLEAN /\ buf[i].refcnt \in Nat
           /\ buf[i].data \in Data \cup {None} /\ buf[i].lock \in Threads \cup {None}
BY DEF Types, Buffer

\* A buffer with a field assigned is a buffer.
LEMMA Record ==
    ASSUME NEW z \in Buffer, NEW k \in Blocks \cup {None}, NEW v \in BOOLEAN, NEW d \in BOOLEAN,
           NEW n \in Nat, NEW x \in Data \cup {None}, NEW l \in Threads \cup {None}
    PROVE  /\ [z EXCEPT !.refcnt = n] \in Buffer
           /\ [z EXCEPT !.lock = l] \in Buffer
           /\ [z EXCEPT !.data = x, !.dirty = d] \in Buffer
           /\ [z EXCEPT !.data = x, !.valid = v, !.dirty = d] \in Buffer
           /\ [z EXCEPT !.block = k, !.valid = v, !.dirty = d, !.refcnt = n] \in Buffer
<1>1. [z EXCEPT !.refcnt = n] \in Buffer
    BY DEF Buffer
<1>2. [z EXCEPT !.lock = l] \in Buffer
    BY DEF Buffer
<1>3. [z EXCEPT !.data = x, !.dirty = d] \in Buffer
    BY DEF Buffer
<1>4. [z EXCEPT !.data = x, !.valid = v, !.dirty = d] \in Buffer
    BY DEF Buffer
<1>5. [z EXCEPT !.block = k, !.valid = v, !.dirty = d, !.refcnt = n] \in Buffer
    BY DEF Buffer
<1> QED
    BY <1>1, <1>2, <1>3, <1>4, <1>5

\* The users of a buffer are finitely many.
LEMMA UsersFinite ==
    ASSUME NEW i
    PROVE  /\ IsFiniteSet(Users(i)) /\ Cardinality(Users(i)) \in Nat
           /\ IsFiniteSet(Users(i)') /\ Cardinality(Users(i)') \in Nat
<1>1. IsFiniteSet(Threads) /\ Users(i) \subseteq Threads /\ Users(i)' \subseteq Threads
    BY DiskAssumption DEF Users
<1> QED
    BY <1>1, FS_Subset, FS_CardinalityType

\* A buffer with refcnt 0 is used by nobody, and its lock is free.
LEMMA Unused ==
    ASSUME IInv, NEW i \in Bufs, buf[i].refcnt = 0
    PROVE  /\ \A t \in Threads : b[t] # i
           /\ buf[i].lock = None
           /\ \A n \in 1 .. Len(idequeue) : idequeue[n] # i
<1>1. Users(i) = {}
    BY UsersFinite, FS_EmptySet DEF IInv, Counted
<1>2. \A t \in Threads : b[t] # i
    BY <1>1 DEF Users
<1>3. buf[i].lock = None
    BY <1>2, FieldTypes DEF IInv, Locked
<1> QED
    BY <1>2, <1>3 DEF IInv, Queued

\* A thread that holds a buffer without being asleep finds it in no queue, and no
\* other thread is inside.
LEMMA NotQueued ==
    ASSUME IInv, NEW t \in Threads, pc[t] \in Holding
    PROVE  /\ b[t] \in Bufs /\ buf[b[t]].lock = t /\ buf[b[t]].block \in Blocks
           /\ \A u \in Threads : pc[u] \in Holding /\ b[u] = b[t] => u = t
           /\ pc[t] # "asleep" => \A n \in 1 .. Len(idequeue) : idequeue[n] # b[t]
<1>1. b[t] \in Bufs /\ buf[b[t]].block # None
    BY DEF IInv, Using, Holding
<1>2. buf[b[t]].block \in Blocks
    BY <1>1, FieldTypes DEF IInv
<1>3. \A u \in Threads : pc[u] \in Holding /\ b[u] = b[t] => u = t
    BY DEF IInv, Locked
<1>4. pc[t] # "asleep" => \A n \in 1 .. Len(idequeue) : idequeue[n] # b[t]
    BY <1>3 DEF IInv, Queued, Holding
<1> QED
    BY <1>1, <1>2, <1>3, <1>4 DEF IInv, Locked

\* A queue that is not empty has a head, a buffer with a block.
LEMMA HeadIs ==
    ASSUME IInv, idequeue # << >>
    PROVE  /\ Len(idequeue) \in Nat /\ 1 \in 1 .. Len(idequeue) /\ Head(idequeue) = idequeue[1]
           /\ idequeue[1] \in Bufs /\ buf[idequeue[1]].block \in Blocks
<1>1. /\ Len(idequeue) \in Nat /\ 1 \in 1 .. Len(idequeue) /\ Head(idequeue) = idequeue[1]
      /\ idequeue[1] \in Bufs
    BY DEF IInv, Types
<1>2. PICK t \in Threads : pc[t] = "asleep" /\ b[t] = idequeue[1]
    BY <1>1 DEF IInv, Queued
<1> QED
    BY <1>1, <1>2, NotQueued DEF Holding

-----------------------------------------------------------------------------
(* One lemma per action.                                                    *)

\* binit leaves every buffer unused, and nothing is asked of the disk.
LEMMA InitIInv == DiskInit => IInv
<1> SUFFICES ASSUME DiskInit PROVE IInv
    OBVIOUS
<1>1. /\ \A i \in Bufs : /\ buf[i].block = None /\ buf[i].valid = FALSE /\ buf[i].dirty = FALSE
                         /\ buf[i].refcnt = 0 /\ buf[i].data = None /\ buf[i].lock = None
      /\ \A t \in Threads : pc[t] = "idle" /\ b[t] = 0
      /\ idequeue = << >> /\ command = None /\ pending = FALSE /\ latest = disk
    BY DEF DiskInit
<1>2. Types
    <2>1. buf \in [Bufs -> Buffer]
        BY DEF DiskInit, Buffer
    <2>2. mru \in [Bufs -> Bufs]
        BY DiskAssumption DEF DiskInit, Bufs
    <2>3. disk \in [Blocks -> Data]
        BY DiskAssumption DEF DiskInit
    <2>4. pc \in [Threads -> Places] /\ b \in [Threads -> Bufs \cup {0}]
        BY DEF DiskInit, Places
    <2>5. idequeue \in Seq(Bufs)
        BY <1>1
    <2>6. pending \in BOOLEAN /\ latest \in [Blocks -> Data]
        BY <2>3 DEF DiskInit
    <2> QED
        BY <2>1, <2>2, <2>3, <2>4, <2>5, <2>6 DEF Types
<1>3. Counted
    <2>1. \A i \in Bufs : Users(i) = {}
        BY <1>1 DEF Users, Bufs
    <2> QED
        BY <1>1, <2>1, FS_EmptySet DEF Counted
<1>4. Locked
    BY <1>1, DiskAssumption DEF Locked, Holding
<1>5. Using /\ OneBuffer /\ Latest /\ OnDisk
    BY <1>1 DEF Using, OneBuffer, Latest, OnDisk
<1>6. Queued /\ Requests
    BY <1>1 DEF Queued, Requests
<1> QED
    BY <1>2, <1>3, <1>4, <1>5, <1>6 DEF IInv

\* A step that leaves the data, the disk and the queue alone, and wakes nobody
\* who is asleep, keeps what is said of them.
LEMMA DataKept ==
    ASSUME IInv, UNCHANGED <<idequeue, command, pending, disk, latest>>,
           \A i \in Bufs : /\ buf'[i].block = buf[i].block /\ buf'[i].valid = buf[i].valid
                           /\ buf'[i].dirty = buf[i].dirty /\ buf'[i].data = buf[i].data,
           \A t \in Threads :
              /\ pc[t] = "asleep" => pc'[t] = "asleep" /\ b'[t] = b[t]
              /\ pc'[t] = "hold" => b'[t] \in Bufs /\ buf[b'[t]].valid = TRUE
              /\ pc'[t] = "woken" => pc[t] = "woken" /\ b'[t] = b[t] /\ b[t] \in Bufs
    PROVE  OneBuffer' /\ Latest' /\ OnDisk' /\ Queued' /\ Requests'
<1>1. OneBuffer' /\ OnDisk'
    BY DEF IInv, OneBuffer, OnDisk
<1>2. Latest'
    BY DEF IInv, Latest
<1>3. Queued'
    BY DEF IInv, Queued
<1>4. Requests'
    <2>1. CASE idequeue = << >>
        BY <2>1 DEF IInv, Requests
    <2>2. CASE idequeue # << >>
        <3>1. idequeue[1] \in Bufs
            BY <2>2, HeadIs
        <3>2. Request(buf'[idequeue[1]]) = Request(buf[idequeue[1]])
            BY <3>1 DEF Request
        <3> QED
            BY <2>2, <3>1, <3>2 DEF IInv, Requests
    <2> QED
        BY <2>1, <2>2
<1> QED
    BY <1>1, <1>2, <1>3, <1>4

\* bget of a block that is cached takes one more reference (bio.c:66-73).
LEMMA BgetCached ==
    ASSUME IInv, NEW t \in Threads, NEW k \in Blocks, pc[t] = "idle",
           NEW i \in Cached(k), Take(t, i, [buf[i] EXCEPT !.refcnt = @ + 1])
    PROVE  IInv'
<1>1. i \in Bufs /\ buf[i].block = k /\ k # None
    BY DiskAssumption DEF Cached
<1>2. /\ buf' = [buf EXCEPT ![i] = [buf[i] EXCEPT !.refcnt = @ + 1]]
      /\ UNCHANGED <<mru, idequeue, command, pending, disk, latest>>
      /\ b'[t] = i /\ \A u \in Threads : u # t => b'[u] = b[u]
      /\ pc'[t] = "lock" /\ \A u \in Threads : u # t => pc'[u] = pc[u]
    BY DEF Take, Goto, IInv, Types
<1>3. \A j \in Bufs :
        /\ buf'[j].block = buf[j].block /\ buf'[j].valid = buf[j].valid
        /\ buf'[j].dirty = buf[j].dirty /\ buf'[j].data = buf[j].data
        /\ buf'[j].lock = buf[j].lock
        /\ buf'[j].refcnt = IF j = i THEN buf[j].refcnt + 1 ELSE buf[j].refcnt
    BY <1>1, <1>2 DEF IInv, Types, Buffer
<1>4. Types'
    <2>1. buf' \in [Bufs -> Buffer]
        <3>1. buf[i] \in Buffer /\ buf[i].refcnt + 1 \in Nat
            BY <1>1, FieldTypes DEF IInv, Types
        <3>2. [buf[i] EXCEPT !.refcnt = buf[i].refcnt + 1] \in Buffer
            BY <3>1, Record, DiskAssumption
        <3> QED
            BY <1>2, <3>2 DEF IInv, Types
    <2>2. pc' \in [Threads -> Places] /\ b' \in [Threads -> Bufs \cup {0}]
        BY <1>1 DEF Take, Goto, IInv, Types, Places
    <2> QED
        BY <1>2, <2>1, <2>2 DEF IInv, Types
<1>5. Using'
    <2>1. \A u \in Threads : u # t => b'[u] = b[u] /\ pc'[u] = pc[u]
        BY <1>2
    <2> QED
        BY <1>1, <1>2, <1>3, <2>1 DEF IInv, Using
<1>6. Counted'
    <2>1. b[t] = 0 /\ 0 \notin Bufs
        BY DEF IInv, Using, Bufs
    <2>2. Users(i)' = Users(i) \cup {t} /\ t \notin Users(i)
        BY <1>1, <1>2, <2>1 DEF Users
    <2>3. Cardinality(Users(i)') = Cardinality(Users(i)) + 1
        BY <2>2, UsersFinite, FS_AddElement
    <2>4. \A j \in Bufs : j # i => Users(j)' = Users(j)
        BY <1>2, <2>1 DEF Users
    <2> QED
        BY <1>1, <1>3, <2>3, <2>4 DEF IInv, Counted
<1>7. Locked'
    BY <1>2, <1>3 DEF IInv, Locked, Using, Holding
<1>8. OneBuffer' /\ Latest' /\ OnDisk' /\ Queued' /\ Requests'
    <2>1. \A u \in Threads : pc[u] # "idle" => b[u] \in Bufs
        BY DEF IInv, Using
    <2>2. ASSUME NEW u \in Threads
          PROVE  /\ pc[u] = "asleep" => pc'[u] = "asleep" /\ b'[u] = b[u]
                 /\ pc'[u] = "hold" => b'[u] \in Bufs /\ buf[b'[u]].valid = TRUE
                 /\ pc'[u] = "woken" => pc[u] = "woken" /\ b'[u] = b[u] /\ b[u] \in Bufs
        BY <1>2, <2>1 DEF IInv, Latest
    <2> QED
        BY <1>2, <1>3, <2>2, DataKept
<1> QED
    BY <1>4, <1>5, <1>6, <1>7, <1>8 DEF IInv

\* bget of another block recycles a buffer that nobody uses and that is not
\* dirty, so its contents may be forgotten (bio.c:75-90).
LEMMA BgetRecycled ==
    ASSUME IInv, NEW t \in Threads, NEW k \in Blocks, pc[t] = "idle", Cached(k) = {},
           NEW i \in Bufs, buf[i].refcnt = 0, buf[i].dirty = FALSE,
           Take(t, i, [buf[i] EXCEPT !.block = k, !.valid = FALSE, !.dirty = FALSE, !.refcnt = 1])
    PROVE  IInv'
<1>1. k # None /\ \A j \in Bufs : buf[j].block # k
    BY DiskAssumption DEF Cached
<1>2. /\ buf' = [buf EXCEPT ![i] = [buf[i] EXCEPT !.block = k, !.valid = FALSE,
                                                  !.dirty = FALSE, !.refcnt = 1]]
      /\ UNCHANGED <<mru, idequeue, command, pending, disk, latest>>
      /\ b'[t] = i /\ \A u \in Threads : u # t => b'[u] = b[u]
      /\ pc'[t] = "lock" /\ \A u \in Threads : u # t => pc'[u] = pc[u]
    BY DEF Take, Goto, IInv, Types
<1>3. \A j \in Bufs : j # i => buf'[j] = buf[j]
    BY <1>2 DEF IInv, Types
<1>4. /\ buf'[i].block = k /\ buf'[i].valid = FALSE /\ buf'[i].dirty = FALSE
      /\ buf'[i].refcnt = 1 /\ buf'[i].lock = buf[i].lock
    BY <1>2 DEF IInv, Types, Buffer
<1>5. /\ \A u \in Threads : b[u] # i
      /\ buf[i].lock = None
      /\ \A n \in 1 .. Len(idequeue) : idequeue[n] # i
    BY Unused
<1>6. Types'
    <2>1. buf' \in [Bufs -> Buffer]
        <3>1. [buf[i] EXCEPT !.block = k, !.valid = FALSE, !.dirty = FALSE, !.refcnt = 1] \in Buffer
            BY Record DEF IInv, Types
        <3> QED
            BY <1>2, <3>1 DEF IInv, Types
    <2>2. pc' \in [Threads -> Places] /\ b' \in [Threads -> Bufs \cup {0}]
        BY DEF Take, Goto, IInv, Types, Places
    <2> QED
        BY <1>2, <2>1, <2>2 DEF IInv, Types
<1>7. Using'
    <2>1. \A u \in Threads : u # t => b'[u] = b[u] /\ pc'[u] = pc[u] /\ b[u] # i
        BY <1>2, <1>5
    <2>2. \A u \in Threads : u # t /\ pc[u] # "idle" => buf'[b[u]].block # None
        BY <1>3, <2>1 DEF IInv, Using
    <2> QED
        BY <1>1, <1>2, <1>4, <2>1, <2>2 DEF IInv, Using
<1>8. Counted'
    <2>1. b[t] = 0 /\ 0 \notin Bufs
        BY DEF IInv, Using, Bufs
    <2>2. Users(i)' = {t}
        BY <1>2, <1>5 DEF Users
    <2>3. Cardinality(Users(i)') = 1
        BY <2>2, FS_Singleton
    <2>4. \A j \in Bufs : j # i => Users(j)' = Users(j)
        BY <1>2, <2>1 DEF Users
    <2> QED
        BY <1>3, <1>4, <2>3, <2>4 DEF IInv, Counted
<1>9. Locked'
    <2>1. \A u \in Threads : pc'[u] \in Holding => u # t /\ pc[u] \in Holding
        BY <1>2 DEF Holding
    <2>2. \A u \in Threads : pc'[u] \in Holding => buf'[b'[u]].lock = u
        <3>1. \A u \in Threads : pc[u] \in Holding => b[u] \in Bufs /\ b[u] # i
            BY <1>5 DEF IInv, Using, Holding
        <3> QED
            BY <1>2, <1>3, <2>1, <3>1 DEF IInv, Locked
    <2>3. \A u \in Threads : \A j \in Bufs : buf'[j].lock = u => buf[j].lock = u /\ j # i
        BY <1>3, <1>4, <1>5, DiskAssumption
    <2>4. \A u \in Threads : \A j \in Bufs : buf'[j].lock = u => pc'[u] \in Holding /\ b'[u] = j
        BY <1>2, <2>3 DEF IInv, Locked, Holding
    <2> QED
        BY <2>2, <2>4 DEF Locked
<1>10. OneBuffer'
    BY <1>1, <1>3, <1>4 DEF IInv, OneBuffer
<1>11. Latest'
    <2>1. \A j \in Bufs :
            /\ buf'[j].valid = TRUE => buf'[j].block # None /\ buf'[j].data = latest'[buf'[j].block]
            /\ buf'[j].dirty = TRUE => buf'[j].valid = TRUE
        BY <1>2, <1>3, <1>4 DEF IInv, Latest
    <2>2. \A u \in Threads : pc'[u] \in {"hold", "woken"} =>
            pc[u] = pc'[u] /\ b'[u] = b[u] /\ buf'[b[u]] = buf[b[u]]
        <3>1. \A u \in Threads : pc[u] # "idle" => b[u] \in Bufs
            BY DEF IInv, Using
        <3> QED
            BY <1>2, <1>3, <1>5, <3>1
    <2> QED
        BY <2>1, <2>2 DEF IInv, Latest
<1>12. OnDisk'
    BY <1>2, <1>3, <1>4 DEF IInv, OnDisk
<1>13. Queued'
    BY <1>2 DEF IInv, Queued
<1>14. Requests'
    <2>1. CASE idequeue = << >>
        BY <1>2, <2>1 DEF IInv, Requests
    <2>2. CASE idequeue # << >>
        <3>1. buf'[idequeue[1]] = buf[idequeue[1]]
            BY <1>3, <1>5, <2>2, HeadIs
        <3> QED
            BY <1>2, <2>2, <3>1 DEF IInv, Requests
    <2> QED
        BY <2>1, <2>2
<1> QED
    BY <1>6, <1>7, <1>8, <1>9, <1>10, <1>11, <1>12, <1>13, <1>14 DEF IInv

\* bget: one of the two, or the panic.
LEMMA BgetIInv ==
    ASSUME IInv, NEW t \in Threads, NEW k \in Blocks, Bget(t, k)
    PROVE  IInv'
<1>1. CASE \E i \in Cached(k) : Take(t, i, [buf[i] EXCEPT !.refcnt = @ + 1])
    BY <1>1, BgetCached DEF Bget
<1>2. CASE Cached(k) = {} /\ \E i \in Bufs :
             /\ buf[i].refcnt = 0 /\ buf[i].dirty = FALSE
             /\ Take(t, i, [buf[i] EXCEPT !.block = k, !.valid = FALSE, !.dirty = FALSE,
                                          !.refcnt = 1])
    BY <1>2, BgetRecycled DEF Bget
<1>3. CASE UNCHANGED <<buf, mru, idequeue, command, pending, disk, pc, b, latest>>
    BY <1>3 DEF IInv, Types, Using, Counted, Users, Locked, OneBuffer, Latest, OnDisk, Queued,
       Requests
<1>4. ASSUME NEW n \in Recyclable
      PROVE  mru[n] \in Bufs /\ buf[mru[n]].refcnt = 0 /\ buf[mru[n]].dirty = FALSE
    BY <1>4, FieldTypes DEF Recyclable, IInv, Types
<1> QED
    BY <1>1, <1>2, <1>3, <1>4 DEF Bget

\* acquiresleep at the end of bget: the lock was free, so nobody was inside.
LEMMA LockIInv ==
    ASSUME IInv, NEW t \in Threads, Lock(t)
    PROVE  IInv'
<1>1. PICK i \in Bufs : b[t] = i /\ pc[t] = "lock" /\ buf[i].lock = None
    BY DEF Lock, IInv, Using
<1>2. /\ buf' = [buf EXCEPT ![i] = [buf[i] EXCEPT !.lock = t]]
      /\ UNCHANGED <<mru, idequeue, command, pending, disk, b, latest>>
      /\ pc' = [pc EXCEPT ![t] = IF buf[i].valid THEN "hold" ELSE "iderw"]
      /\ pc'[t] \in {"hold", "iderw"} /\ (pc'[t] = "hold" => buf[i].valid = TRUE)
      /\ \A u \in Threads : u # t => pc'[u] = pc[u]
    BY <1>1, FieldTypes DEF Lock, Goto, IInv, Types
<1>3. \A j \in Bufs :
        /\ buf'[j].block = buf[j].block /\ buf'[j].valid = buf[j].valid
        /\ buf'[j].dirty = buf[j].dirty /\ buf'[j].data = buf[j].data
        /\ buf'[j].refcnt = buf[j].refcnt
        /\ buf'[j].lock = IF j = i THEN t ELSE buf[j].lock
    BY <1>2 DEF IInv, Types, Buffer
<1>4. Types'
    <2>1. [buf[i] EXCEPT !.lock = t] \in Buffer
        BY Record, DiskAssumption, 0 \in Nat DEF IInv, Types
    <2>2. pc' \in [Threads -> Places]
        BY <1>2 DEF IInv, Types, Places, Holding
    <2> QED
        BY <1>2, <2>1, <2>2 DEF IInv, Types
<1>5. Using'
    BY <1>1, <1>2, <1>3 DEF IInv, Using
<1>6. Counted'
    <2>1. \A j \in Bufs : Users(j)' = Users(j)
        BY <1>2 DEF Users
    <2> QED
        BY <1>3, <2>1 DEF IInv, Counted
<1>7. Locked'
    <2>1. \A u \in Threads : pc'[u] \in Holding => buf'[b[u]].lock = u
        <3>1. \A u \in Threads : u # t /\ pc[u] \in Holding => b[u] \in Bufs /\ b[u] # i
            BY <1>1, DiskAssumption DEF IInv, Locked, Using, Holding
        <3> QED
            BY <1>1, <1>2, <1>3, <3>1 DEF IInv, Locked
    <2>2. \A u \in Threads : \A j \in Bufs : buf'[j].lock = u => pc'[u] \in Holding /\ b[u] = j
        BY <1>1, <1>2, <1>3, DiskAssumption DEF IInv, Locked, Holding
    <2> QED
        BY <1>2, <2>1, <2>2 DEF Locked
<1>8. OneBuffer' /\ Latest' /\ OnDisk' /\ Queued' /\ Requests'
    <2>1. \A u \in Threads : pc[u] # "idle" => b[u] \in Bufs
        BY DEF IInv, Using
    <2>2. ASSUME NEW u \in Threads
          PROVE  /\ pc[u] = "asleep" => pc'[u] = "asleep" /\ b'[u] = b[u]
                 /\ pc'[u] = "hold" => b'[u] \in Bufs /\ buf[b'[u]].valid = TRUE
                 /\ pc'[u] = "woken" => pc[u] = "woken" /\ b'[u] = b[u] /\ b[u] \in Bufs
        <3>1. CASE u = t
            BY <1>1, <1>2, <3>1
        <3>2. CASE u # t
            <4>1. pc'[u] = pc[u] /\ b'[u] = b[u]
                BY <1>2, <3>2
            <4> QED
                BY <2>1, <4>1 DEF IInv, Latest
        <3> QED
            BY <3>1, <3>2
    <2> QED
        BY <1>2, <1>3, <2>2, DataKept
<1> QED
    BY <1>4, <1>5, <1>6, <1>7, <1>8 DEF IInv

\* releasesleep in brelse gives up the lock, and leaves the reference.
LEMMA BrelseIInv ==
    ASSUME IInv, NEW t \in Threads, Brelse(t)
    PROVE  IInv'
<1>1. PICK i \in Bufs : b[t] = i /\ pc[t] = "hold" /\ buf[i].lock = t
    BY DEF Brelse, IInv, Using, Locked, Holding
<1>2. /\ buf' = [buf EXCEPT ![i] = [buf[i] EXCEPT !.lock = None]]
      /\ UNCHANGED <<mru, idequeue, command, pending, disk, b, latest>>
      /\ pc' = [pc EXCEPT ![t] = "put"]
      /\ pc'[t] = "put" /\ \A u \in Threads : u # t => pc'[u] = pc[u]
    BY <1>1 DEF Brelse, Goto, IInv, Types
<1>3. \A j \in Bufs :
        /\ buf'[j].block = buf[j].block /\ buf'[j].valid = buf[j].valid
        /\ buf'[j].dirty = buf[j].dirty /\ buf'[j].data = buf[j].data
        /\ buf'[j].refcnt = buf[j].refcnt
        /\ buf'[j].lock = IF j = i THEN None ELSE buf[j].lock
    BY <1>2 DEF IInv, Types, Buffer
<1>4. Types'
    <2>1. [buf[i] EXCEPT !.lock = None] \in Buffer
        BY Record, DiskAssumption, 0 \in Nat DEF IInv, Types
    <2>2. pc' \in [Threads -> Places]
        BY <1>2 DEF IInv, Types, Places
    <2> QED
        BY <1>2, <2>1, <2>2 DEF IInv, Types
<1>5. Using'
    BY <1>1, <1>2, <1>3 DEF IInv, Using
<1>6. Counted'
    <2>1. \A j \in Bufs : Users(j)' = Users(j)
        BY <1>2 DEF Users
    <2> QED
        BY <1>3, <2>1 DEF IInv, Counted
<1>7. Locked'
    <2>1. \A u \in Threads : pc'[u] \in Holding => u # t /\ b[u] \in Bufs /\ b[u] # i
        BY <1>1, <1>2, DiskAssumption DEF IInv, Locked, Using, Holding
    <2>2. \A u \in Threads : pc'[u] \in Holding => buf'[b[u]].lock = u
        BY <1>2, <1>3, <2>1 DEF IInv, Locked
    <2>3. \A u \in Threads : \A j \in Bufs : buf'[j].lock = u => j # i /\ u # t
        BY <1>1, <1>3, DiskAssumption DEF IInv, Locked
    <2>4. \A u \in Threads : \A j \in Bufs : buf'[j].lock = u => pc'[u] \in Holding /\ b[u] = j
        BY <1>2, <1>3, <2>3 DEF IInv, Locked
    <2> QED
        BY <1>2, <2>2, <2>4 DEF Locked
<1>8. OneBuffer' /\ Latest' /\ OnDisk' /\ Queued' /\ Requests'
    <2>1. \A u \in Threads : pc[u] # "idle" => b[u] \in Bufs
        BY DEF IInv, Using
    <2>2. ASSUME NEW u \in Threads
          PROVE  /\ pc[u] = "asleep" => pc'[u] = "asleep" /\ b'[u] = b[u]
                 /\ pc'[u] = "hold" => b'[u] \in Bufs /\ buf[b'[u]].valid = TRUE
                 /\ pc'[u] = "woken" => pc[u] = "woken" /\ b'[u] = b[u] /\ b[u] \in Bufs
        <3>1. CASE u = t
            BY <1>1, <1>2, <3>1
        <3>2. CASE u # t
            <4>1. pc'[u] = pc[u] /\ b'[u] = b[u]
                BY <1>2, <3>2
            <4> QED
                BY <2>1, <4>1 DEF IInv, Latest
        <3> QED
            BY <3>1, <3>2
    <2> QED
        BY <1>2, <1>3, <2>2, DataKept
<1> QED
    BY <1>4, <1>5, <1>6, <1>7, <1>8 DEF IInv

\* The rest of brelse drops the reference, and changes nothing but the order of
\* the list besides.
LEMMA BrelsePutIInv ==
    ASSUME IInv, NEW t \in Threads, BrelsePut(t)
    PROVE  IInv'
<1>1. PICK i \in Bufs : b[t] = i /\ pc[t] = "put"
    BY DEF BrelsePut, IInv, Using
<1>2. /\ buf' = [buf EXCEPT ![i] = [buf[i] EXCEPT !.refcnt = buf[i].refcnt - 1]]
      /\ UNCHANGED <<idequeue, command, pending, disk, latest>>
      /\ pc' = [pc EXCEPT ![t] = "idle"] /\ b' = [b EXCEPT ![t] = 0]
      /\ pc'[t] = "idle" /\ \A u \in Threads : u # t => pc'[u] = pc[u]
      /\ b'[t] = 0 /\ \A u \in Threads : u # t => b'[u] = b[u]
    BY <1>1 DEF BrelsePut, Goto, IInv, Types
<1>3. \A j \in Bufs :
        /\ buf'[j].block = buf[j].block /\ buf'[j].valid = buf[j].valid
        /\ buf'[j].dirty = buf[j].dirty /\ buf'[j].data = buf[j].data
        /\ buf'[j].lock = buf[j].lock
        /\ buf'[j].refcnt = IF j = i THEN buf[j].refcnt - 1 ELSE buf[j].refcnt
    BY <1>2 DEF IInv, Types, Buffer
<1>4. t \in Users(i) /\ Users(i)' = Users(i) \ {t} /\ 0 \notin Bufs
    BY <1>1, <1>2 DEF Users, Bufs
<1>5. Cardinality(Users(i)') = Cardinality(Users(i)) - 1 /\ Cardinality(Users(i)') \in Nat
    BY <1>4, UsersFinite, FS_RemoveElement
<1>6. buf[i].refcnt - 1 \in Nat
    BY <1>5 DEF IInv, Counted
<1>7. Types'
    <2>1. [buf[i] EXCEPT !.refcnt = buf[i].refcnt - 1] \in Buffer
        BY <1>6, Record, DiskAssumption DEF IInv, Types
    <2>2. pc' \in [Threads -> Places] /\ b' \in [Threads -> Bufs \cup {0}]
        BY <1>2 DEF IInv, Types, Places
    <2>3. mru' \in [Bufs -> Bufs]
        <3>1. ToFront(i) \in [Bufs -> Bufs]
            <4>1. \A n \in Bufs : n # 1 => mru[n - 1] \in Bufs
                BY DiskAssumption DEF IInv, Types, Bufs
            <4>2. \A n \in Bufs : mru[n] \in Bufs
                BY DEF IInv, Types
            <4> QED
                BY <4>1, <4>2 DEF ToFront
        <3> QED
            BY <1>1, <3>1 DEF BrelsePut, IInv, Types
    <2> QED
        BY <1>2, <2>1, <2>2, <2>3 DEF IInv, Types
<1>8. Using'
    BY <1>1, <1>2, <1>3 DEF IInv, Using
<1>9. Counted'
    <2>1. \A j \in Bufs : j # i => Users(j)' = Users(j)
        BY <1>1, <1>2, <1>4 DEF Users
    <2> QED
        BY <1>3, <1>5, <2>1 DEF IInv, Counted
<1>10. Locked'
    BY <1>1, <1>2, <1>3 DEF IInv, Locked, Using, Holding
<1>11. OneBuffer' /\ Latest' /\ OnDisk' /\ Queued' /\ Requests'
    <2>1. \A u \in Threads : pc[u] # "idle" => b[u] \in Bufs
        BY DEF IInv, Using
    <2>2. ASSUME NEW u \in Threads
          PROVE  /\ pc[u] = "asleep" => pc'[u] = "asleep" /\ b'[u] = b[u]
                 /\ pc'[u] = "hold" => b'[u] \in Bufs /\ buf[b'[u]].valid = TRUE
                 /\ pc'[u] = "woken" => pc[u] = "woken" /\ b'[u] = b[u] /\ b[u] \in Bufs
        <3>1. CASE u = t
            BY <1>1, <1>2, <3>1
        <3>2. CASE u # t
            <4>1. pc'[u] = pc[u] /\ b'[u] = b[u]
                BY <1>2, <3>2
            <4> QED
                BY <2>1, <4>1 DEF IInv, Latest
        <3> QED
            BY <3>1, <3>2
    <2> QED
        BY <1>2, <1>3, <2>2, DataKept
<1> QED
    BY <1>7, <1>8, <1>9, <1>10, <1>11 DEF IInv

\* Who uses and holds which buffer, when threads only move between acquiresleep
\* and releasesleep.
LEMMA UseKept ==
    ASSUME IInv, UNCHANGED b,
           \A i \in Bufs : /\ buf'[i].block = buf[i].block /\ buf'[i].lock = buf[i].lock
                           /\ buf'[i].refcnt = buf[i].refcnt,
           \A t \in Threads : pc'[t] = pc[t] \/ (pc[t] \in Holding /\ pc'[t] \in Holding)
    PROVE  Using' /\ Counted' /\ Locked' /\ OneBuffer'
<1>1. Using'
    BY DEF IInv, Using, Holding
<1>2. Counted'
    BY DEF IInv, Counted, Users
<1>3. Locked'
    <2>1. \A t \in Threads : pc[t] \in Holding <=> pc'[t] \in Holding
        OBVIOUS
    <2>2. \A t \in Threads : pc[t] \in Holding => b[t] \in Bufs
        BY NotQueued
    <2> QED
        BY <2>1, <2>2 DEF IInv, Locked
<1>4. OneBuffer'
    BY DEF IInv, OneBuffer
<1> QED
    BY <1>1, <1>2, <1>3, <1>4

\* The holder changes the data, for bwrite or log_write: its buffer is the only
\* one of the block, and now dirty, and the disk is not working on it.
LEMMA ChangeIInv ==
    ASSUME IInv, NEW t \in Threads, NEW d \in Data, NEW where \in {"hold", "iderw"},
           Change(t, d, where)
    PROVE  IInv'
<1>1. PICK i \in Bufs : /\ b[t] = i /\ pc[t] = "hold" /\ buf[i].block \in Blocks
                        /\ buf[i].valid = TRUE
                        /\ \A u \in Threads : pc[u] \in Holding /\ b[u] = i => u = t
                        /\ \A n \in 1 .. Len(idequeue) : idequeue[n] # i
    <2>1. pc[t] \in Holding /\ pc[t] # "asleep" /\ pc[t] = "hold"
        BY DEF Change, Holding
    <2>2. buf[b[t]].valid = TRUE
        BY <2>1 DEF IInv, Latest
    <2> QED
        BY <2>1, <2>2, NotQueued
<1>2. /\ buf' = [buf EXCEPT ![i] = [buf[i] EXCEPT !.data = d, !.dirty = TRUE]]
      /\ latest' = [latest EXCEPT ![buf[i].block] = d]
      /\ UNCHANGED <<mru, idequeue, command, pending, disk, b>>
      /\ pc' = [pc EXCEPT ![t] = where]
      /\ pc'[t] = where /\ \A u \in Threads : u # t => pc'[u] = pc[u]
    BY <1>1 DEF Change, Goto, IInv, Types
<1>3. \A j \in Bufs :
        /\ buf'[j].block = buf[j].block /\ buf'[j].valid = buf[j].valid
        /\ buf'[j].lock = buf[j].lock /\ buf'[j].refcnt = buf[j].refcnt
        /\ j # i => buf'[j] = buf[j]
        /\ j = i => buf'[j].data = d /\ buf'[j].dirty = TRUE
    BY <1>2 DEF IInv, Types, Buffer
<1>4. Types'
    <2>1. [buf[i] EXCEPT !.data = d, !.dirty = TRUE] \in Buffer
        BY Record, DiskAssumption, 0 \in Nat DEF IInv, Types
    <2>2. pc' \in [Threads -> Places]
        BY <1>2 DEF IInv, Types, Places, Holding
    <2> QED
        BY <1>1, <1>2, <2>1, <2>2 DEF IInv, Types
<1>5. Using' /\ Counted' /\ Locked' /\ OneBuffer'
    <2>1. \A u \in Threads : pc'[u] = pc[u] \/ (pc[u] \in Holding /\ pc'[u] \in Holding)
        BY <1>1, <1>2 DEF Holding
    <2> QED
        BY <1>2, <1>3, <2>1, UseKept
<1>6. latest'[buf[i].block] = d /\ \A k \in Blocks : k # buf[i].block => latest'[k] = latest[k]
    BY <1>1, <1>2 DEF IInv, Types
<1>7. Latest'
    <2>1. ASSUME NEW j \in Bufs
          PROVE  /\ buf'[j].valid = TRUE =>
                      buf'[j].block # None /\ buf'[j].data = latest'[buf'[j].block]
                 /\ buf'[j].dirty = TRUE => buf'[j].valid = TRUE
        <3>1. CASE j = i
            BY <1>1, <1>3, <1>6, <3>1, DiskAssumption
        <3>2. CASE j # i
            <4>1. buf[j].valid = TRUE => buf[j].block \in Blocks /\ buf[j].block # buf[i].block
                BY <1>1, <3>2, FieldTypes DEF IInv, Latest, OneBuffer
            <4> QED
                BY <1>3, <1>6, <3>2, <4>1 DEF IInv, Latest
        <3> QED
            BY <3>1, <3>2
    <2>2. ASSUME NEW u \in Threads
          PROVE  /\ pc'[u] = "hold" => buf'[b'[u]].valid = TRUE
                 /\ pc'[u] = "woken" => buf'[b'[u]].valid = TRUE /\ buf'[b'[u]].dirty = FALSE
        <3>1. CASE u = t
            BY <1>1, <1>2, <1>3, <3>1
        <3>2. CASE u # t
            <4>1. pc[u] \in {"hold", "woken"} => b[u] \in Bufs /\ b[u] # i
                BY <1>1, <3>2, NotQueued DEF Holding
            <4> QED
                BY <1>2, <1>3, <3>2, <4>1 DEF IInv, Latest
        <3> QED
            BY <3>1, <3>2
    <2> QED
        BY <2>1, <2>2 DEF Latest
<1>8. OnDisk'
    <2>1. ASSUME NEW k \in Blocks
          PROVE  disk'[k] = latest'[k] \/ \E j \in Bufs : buf'[j].block = k /\ buf'[j].dirty = TRUE
        <3>1. CASE k = buf[i].block
            BY <1>3, <3>1
        <3>2. CASE k # buf[i].block
            BY <1>2, <1>3, <1>6, <3>2 DEF IInv, OnDisk
        <3> QED
            BY <3>1, <3>2
    <2> QED
        BY <2>1 DEF OnDisk
<1>9. Queued'
    <2>1. \A u \in Threads : pc[u] = "asleep" => pc'[u] = "asleep"
        BY <1>1, <1>2
    <2> QED
        BY <1>2, <2>1 DEF IInv, Queued
<1>10. Requests'
    <2>1. CASE idequeue = << >>
        BY <1>2, <2>1 DEF IInv, Requests
    <2>2. CASE idequeue # << >>
        <3>1. buf'[idequeue[1]] = buf[idequeue[1]]
            BY <1>1, <1>3, <2>2, HeadIs
        <3> QED
            BY <1>2, <2>2, <3>1 DEF IInv, Requests
    <2> QED
        BY <2>1, <2>2
<1> QED
    BY <1>4, <1>5, <1>7, <1>8, <1>9, <1>10 DEF IInv

\* The disk carries out the command, which is the request of the head of the queue.
LEMMA DeviceIInv ==
    ASSUME IInv, Device
    PROVE  IInv'
<1>1. idequeue # << >> /\ command = Request(buf[idequeue[1]]) /\ pending = FALSE
    BY DEF Device, IInv, Requests, Types
<1>2. PICK i \in Bufs : idequeue[1] = i /\ buf[i].block \in Blocks
    BY <1>1, HeadIs
<1>3. /\ command.write = buf[i].dirty /\ command.block = buf[i].block
      /\ buf[i].dirty = TRUE => command.data = buf[i].data
    BY <1>1, <1>2 DEF Request
<1>4. /\ UNCHANGED <<buf, mru, idequeue, command, pc, b, latest>> /\ pending' = TRUE
      /\ buf[i].dirty = TRUE => disk' = [disk EXCEPT ![buf[i].block] = buf[i].data]
      /\ buf[i].dirty = FALSE => disk' = disk
    BY <1>2, <1>3 DEF Device
<1>5. buf[i].dirty \in BOOLEAN /\ (buf[i].dirty = TRUE => buf[i].data = latest[buf[i].block])
    BY <1>2, FieldTypes DEF IInv, Latest
<1>6. buf[i].dirty = TRUE =>
        /\ disk'[buf[i].block] = buf[i].data
        /\ \A k \in Blocks : k # buf[i].block => disk'[k] = disk[k]
        /\ disk' \in [Blocks -> Data]
    BY <1>2, <1>4, <1>5 DEF IInv, Types
<1>7. Types'
    BY <1>4, <1>5, <1>6 DEF IInv, Types
<1>8. Using' /\ Counted' /\ Locked' /\ OneBuffer' /\ Latest' /\ Queued'
    BY <1>4 DEF IInv, Using, Counted, Users, Locked, OneBuffer, Latest, Queued
<1>9. OnDisk'
    <2>1. CASE buf[i].dirty = TRUE
        BY <1>2, <1>4, <1>5, <1>6, <2>1 DEF IInv, OnDisk
    <2>2. CASE buf[i].dirty = FALSE
        BY <1>4, <2>2 DEF IInv, OnDisk
    <2> QED
        BY <1>5, <2>1, <2>2
<1>10. Requests'
    BY <1>1, <1>2, <1>4, <1>6 DEF Requests
<1> QED
    BY <1>7, <1>8, <1>9, <1>10 DEF IInv

\* A sleeper of iderw wakes: its own buffer was the one that is complete, so the
\* while loop ends.
LEMMA WokenIInv ==
    ASSUME IInv, NEW t \in Threads, Woken(t)
    PROVE  IInv'
<1>1. pc[t] = "woken" /\ b[t] \in Bufs /\ buf[b[t]].valid = TRUE /\ buf[b[t]].dirty = FALSE
    BY DEF Woken, IInv, Latest, Using
<1>2. /\ UNCHANGED <<buf, mru, idequeue, command, pending, disk, b, latest>>
      /\ pc' = [pc EXCEPT ![t] = "hold"]
      /\ pc'[t] = "hold" /\ \A u \in Threads : u # t => pc'[u] = pc[u]
    BY <1>1 DEF Woken, Goto, IInv, Types
<1>3. Types'
    <2>1. pc' \in [Threads -> Places]
        BY <1>2 DEF IInv, Types, Places, Holding
    <2> QED
        BY <1>2, <2>1 DEF IInv, Types
<1>4. Using' /\ Counted' /\ Locked' /\ OneBuffer'
    <2>1. \A u \in Threads : pc'[u] = pc[u] \/ (pc[u] \in Holding /\ pc'[u] \in Holding)
        BY <1>1, <1>2 DEF Holding
    <2> QED
        BY <1>2, <2>1, UseKept
<1>5. Latest' /\ OnDisk' /\ Queued' /\ Requests'
    <2>1. \A u \in Threads : pc[u] # "idle" => b[u] \in Bufs
        BY DEF IInv, Using
    <2>2. ASSUME NEW u \in Threads
          PROVE  /\ pc[u] = "asleep" => pc'[u] = "asleep" /\ b'[u] = b[u]
                 /\ pc'[u] = "hold" => b'[u] \in Bufs /\ buf[b'[u]].valid = TRUE
                 /\ pc'[u] = "woken" => pc[u] = "woken" /\ b'[u] = b[u] /\ b[u] \in Bufs
        <3>1. CASE u = t
            BY <1>1, <1>2, <3>1
        <3>2. CASE u # t
            BY <1>2, <2>1, <3>2 DEF IInv, Latest
        <3> QED
            BY <3>1, <3>2
    <2> QED
        BY <1>2, <2>2, DataKept
<1> QED
    BY <1>3, <1>4, <1>5 DEF IInv

\* iderw of ide.c appends a buffer that is in no queue, and starts it when the
\* queue was empty.
LEMMA IderwIInv ==
    ASSUME IInv, NEW t \in Threads, Iderw(t)
    PROVE  IInv'
<1>1. PICK i \in Bufs : /\ b[t] = i /\ pc[t] = "iderw" /\ buf[i].block \in Blocks
                        /\ \A n \in 1 .. Len(idequeue) : idequeue[n] # i
    <2>1. pc[t] \in Holding /\ pc[t] # "asleep" /\ pc[t] = "iderw"
        BY DEF Iderw, Holding
    <2> QED
        BY <2>1, NotQueued
<1>2. CASE UNCHANGED <<buf, mru, idequeue, command, pending, disk, pc, b, latest>>
    BY <1>2 DEF IInv, Types, Using, Counted, Users, Locked, OneBuffer, Latest, OnDisk, Queued,
       Requests
<1>3. CASE /\ idequeue' = Append(idequeue, i)
           /\ command' = IF idequeue = << >> THEN Request(buf[i]) ELSE command
           /\ pc' = [pc EXCEPT ![t] = "asleep"]
           /\ UNCHANGED <<buf, mru, pending, disk, b, latest>>
    <2>1. /\ idequeue \in Seq(Bufs) /\ idequeue' \in Seq(Bufs) /\ Len(idequeue) \in Nat
          /\ Len(idequeue') = Len(idequeue) + 1 /\ idequeue'[Len(idequeue) + 1] = i
          /\ \A n \in 1 .. Len(idequeue) : idequeue'[n] = idequeue[n]
        BY <1>3 DEF IInv, Types
    <2>2. pc'[t] = "asleep" /\ \A u \in Threads : u # t => pc'[u] = pc[u]
        BY <1>3 DEF IInv, Types
    <2>3. Types'
        <3>1. pc' \in [Threads -> Places]
            BY <1>3 DEF IInv, Types, Places, Holding
        <3> QED
            BY <1>3, <2>1, <3>1 DEF IInv, Types
    <2>4. Using' /\ Counted' /\ Locked' /\ OneBuffer'
        <3>1. \A u \in Threads : pc'[u] = pc[u] \/ (pc[u] \in Holding /\ pc'[u] \in Holding)
            BY <1>1, <2>2 DEF Holding
        <3> QED
            BY <1>3, <3>1, UseKept
    <2>5. Latest' /\ OnDisk'
        <3>1. \A u \in Threads : pc'[u] \in {"hold", "woken"} => pc'[u] = pc[u]
            BY <2>2
        <3> QED
            BY <1>3, <3>1 DEF IInv, Latest, OnDisk
    <2>6. Queued'
        <3>1. ASSUME NEW m \in 1 .. Len(idequeue'), NEW n \in 1 .. Len(idequeue'),
                     idequeue'[m] = idequeue'[n]
              PROVE  m = n
            <4>1. m \in 1 .. Len(idequeue) \/ m = Len(idequeue) + 1
                BY <2>1
            <4>2. n \in 1 .. Len(idequeue) \/ n = Len(idequeue) + 1
                BY <2>1
            <4> QED
                BY <1>1, <2>1, <3>1, <4>1, <4>2 DEF IInv, Queued
        <3>2. ASSUME NEW n \in 1 .. Len(idequeue')
              PROVE  \E u \in Threads : pc'[u] = "asleep" /\ b'[u] = idequeue'[n]
            <4>1. CASE n = Len(idequeue) + 1
                BY <1>1, <1>3, <2>1, <2>2, <4>1
            <4>2. CASE n \in 1 .. Len(idequeue)
                <5>1. PICK u \in Threads : pc[u] = "asleep" /\ b[u] = idequeue[n]
                    BY <4>2 DEF IInv, Queued
                <5> QED
                    BY <1>1, <1>3, <2>1, <2>2, <4>2, <5>1
            <4> QED
                BY <2>1, <4>1, <4>2
        <3> QED
            BY <3>1, <3>2 DEF Queued
    <2>7. Requests'
        <3>1. idequeue' # << >>
            BY <2>1
        <3>2. CASE idequeue = << >>
            <4>1. idequeue'[1] = i /\ command' = Request(buf[i]) /\ pending' = FALSE
                BY <1>3, <2>1, <3>2 DEF IInv, Requests
            <4> QED
                BY <1>3, <3>1, <4>1 DEF Requests
        <3>3. CASE idequeue # << >>
            <4>1. idequeue'[1] = idequeue[1] /\ command' = command
                BY <1>3, <2>1, <3>3, HeadIs
            <4> QED
                BY <1>3, <3>1, <3>3, <4>1 DEF IInv, Requests
        <3> QED
            BY <3>2, <3>3
    <2> QED
        BY <2>3, <2>4, <2>5, <2>6, <2>7 DEF IInv
<1> QED
    BY <1>1, <1>2, <1>3 DEF Iderw, Goto

\* What ideintr and memide.c's iderw do to the buffer of a finished request: the
\* buffer becomes valid and clean, and has the latest data.
LEMMA FinishedLatest ==
    ASSUME IInv, NEW i \in Bufs, buf[i].block \in Blocks, UNCHANGED <<b, latest>>,
           \A j \in Bufs : j # i => buf'[j] = buf[j],
           buf'[i].block = buf[i].block, buf'[i].valid = TRUE, buf'[i].dirty = FALSE,
           buf'[i].data = IF buf[i].dirty THEN buf[i].data ELSE disk[buf[i].block],
           disk'[buf[i].block] = IF buf[i].dirty THEN buf[i].data ELSE disk[buf[i].block],
           \A k \in Blocks : k # buf[i].block => disk'[k] = disk[k],
           \A u \in Threads : pc'[u] \in {"hold", "woken"} =>
              b[u] \in Bufs /\ (pc'[u] = pc[u] \/ b[u] = i)
    PROVE  Latest' /\ OnDisk'
<1>1. buf'[i].data = latest[buf[i].block]
    <2>1. CASE buf[i].dirty = TRUE
        BY <2>1 DEF IInv, Latest
    <2>2. CASE buf[i].dirty = FALSE
        <3>1. \A j \in Bufs : buf[j].block = buf[i].block => j = i
            BY DiskAssumption DEF IInv, OneBuffer
        <3> QED
            BY <2>2, <3>1 DEF IInv, OnDisk
    <2> QED
        BY <2>1, <2>2, FieldTypes DEF IInv
<1>2. Latest'
    <2>1. ASSUME NEW j \in Bufs
          PROVE  /\ buf'[j].valid = TRUE =>
                      buf'[j].block # None /\ buf'[j].data = latest'[buf'[j].block]
                 /\ buf'[j].dirty = TRUE => buf'[j].valid = TRUE
        <3>1. CASE j = i
            BY <1>1, <3>1, DiskAssumption
        <3>2. CASE j # i
            BY <3>2 DEF IInv, Latest
        <3> QED
            BY <3>1, <3>2
    <2>2. ASSUME NEW u \in Threads
          PROVE  /\ pc'[u] = "hold" => buf'[b'[u]].valid = TRUE
                 /\ pc'[u] = "woken" => buf'[b'[u]].valid = TRUE /\ buf'[b'[u]].dirty = FALSE
        <3>1. CASE b[u] = i
            BY <3>1
        <3>2. CASE b[u] # i
            BY <3>2 DEF IInv, Latest
        <3> QED
            BY <3>1, <3>2
    <2> QED
        BY <2>1, <2>2 DEF Latest
<1>3. OnDisk'
    <2>1. ASSUME NEW k \in Blocks
          PROVE  disk'[k] = latest'[k] \/ \E j \in Bufs : buf'[j].block = k /\ buf'[j].dirty = TRUE
        <3>1. CASE k = buf[i].block
            BY <1>1, <3>1
        <3>2. CASE k # buf[i].block
            BY <3>2 DEF IInv, OnDisk
        <3> QED
            BY <3>1, <3>2
    <2> QED
        BY <2>1 DEF OnDisk
<1> QED
    BY <1>2, <1>3

\* iderw of memide.c: the holder copies the block itself.
LEMMA IderwMemIInv ==
    ASSUME IInv, NEW t \in Threads, IderwMem(t)
    PROVE  IInv'
<1>1. PICK i \in Bufs : /\ b[t] = i /\ pc[t] = "iderw" /\ buf[i].block \in Blocks
                        /\ \A n \in 1 .. Len(idequeue) : idequeue[n] # i
    <2>1. pc[t] \in Holding /\ pc[t] # "asleep" /\ pc[t] = "iderw"
        BY DEF IderwMem, Holding
    <2> QED
        BY <2>1, NotQueued
<1>2. PICK x : x = IF buf[i].dirty THEN buf[i].data ELSE disk[buf[i].block]
    OBVIOUS
<1>3. /\ buf' = [buf EXCEPT ![i] = [buf[i] EXCEPT !.data = x, !.valid = TRUE, !.dirty = FALSE]]
      /\ disk' = IF buf[i].dirty THEN [disk EXCEPT ![buf[i].block] = buf[i].data] ELSE disk
      /\ UNCHANGED <<mru, idequeue, command, pending, b, latest>>
      /\ pc' = [pc EXCEPT ![t] = "hold"]
      /\ pc'[t] = "hold" /\ \A u \in Threads : u # t => pc'[u] = pc[u]
    BY <1>1, <1>2 DEF IderwMem, Goto, IInv, Types
<1>4. x \in Data
    <2>1. buf[i].dirty = TRUE => x = latest[buf[i].block]
        BY <1>2 DEF IInv, Latest
    <2>2. buf[i].dirty = FALSE => x = disk[buf[i].block]
        BY <1>2
    <2> QED
        BY <1>1, <2>1, <2>2, FieldTypes DEF IInv, Types
<1>5. /\ \A j \in Bufs : j # i => buf'[j] = buf[j]
      /\ buf'[i].block = buf[i].block /\ buf'[i].lock = buf[i].lock
      /\ buf'[i].refcnt = buf[i].refcnt
      /\ buf'[i].data = x /\ buf'[i].valid = TRUE /\ buf'[i].dirty = FALSE
    BY <1>3 DEF IInv, Types, Buffer
<1>6. /\ disk' \in [Blocks -> Data] /\ disk'[buf[i].block] = x
      /\ \A k \in Blocks : k # buf[i].block => disk'[k] = disk[k]
    BY <1>1, <1>2, <1>3, <1>4 DEF IInv, Types
<1>7. Types'
    <2>1. [buf[i] EXCEPT !.data = x, !.valid = TRUE, !.dirty = FALSE] \in Buffer
        BY <1>4, Record, DiskAssumption, 0 \in Nat DEF IInv, Types
    <2>2. pc' \in [Threads -> Places]
        BY <1>3 DEF IInv, Types, Places, Holding
    <2> QED
        BY <1>3, <1>6, <2>1, <2>2 DEF IInv, Types
<1>8. Using' /\ Counted' /\ Locked' /\ OneBuffer'
    <2>1. \A u \in Threads : pc'[u] = pc[u] \/ (pc[u] \in Holding /\ pc'[u] \in Holding)
        BY <1>1, <1>3 DEF Holding
    <2>2. \A j \in Bufs : /\ buf'[j].block = buf[j].block /\ buf'[j].lock = buf[j].lock
                          /\ buf'[j].refcnt = buf[j].refcnt
        BY <1>5
    <2> QED
        BY <1>3, <2>1, <2>2, UseKept
<1>9. Latest' /\ OnDisk'
    <2>1. \A u \in Threads : pc'[u] \in {"hold", "woken"} =>
             b[u] \in Bufs /\ (pc'[u] = pc[u] \/ b[u] = i)
        BY <1>1, <1>3 DEF IInv, Using
    <2>2. /\ disk'[buf[i].block] = IF buf[i].dirty THEN buf[i].data ELSE disk[buf[i].block]
          /\ buf'[i].data = IF buf[i].dirty THEN buf[i].data ELSE disk[buf[i].block]
        BY <1>2, <1>5, <1>6
    <2> QED
        BY <1>1, <1>3, <1>5, <1>6, <2>1, <2>2, FinishedLatest
<1>10. Queued'
    <2>1. \A u \in Threads : pc[u] = "asleep" => pc'[u] = "asleep"
        BY <1>1, <1>3
    <2> QED
        BY <1>3, <2>1 DEF IInv, Queued
<1>11. Requests'
    <2>1. CASE idequeue = << >>
        BY <1>3, <2>1 DEF IInv, Requests
    <2>2. CASE idequeue # << >>
        <3>1. PICK h \in Bufs : h = idequeue[1] /\ h # i /\ buf[h].block \in Blocks
            BY <1>1, <2>2, HeadIs
        <3>2. buf'[h] = buf[h] /\ buf[h].block # buf[i].block
            BY <1>1, <1>5, <3>1, DiskAssumption DEF IInv, OneBuffer
        <3>3. disk'[buf[h].block] = disk[buf[h].block]
            BY <1>6, <3>1, <3>2
        <3> QED
            BY <1>3, <2>2, <3>1, <3>2, <3>3 DEF IInv, Requests
    <2> QED
        BY <2>1, <2>2
<1> QED
    BY <1>7, <1>8, <1>9, <1>10, <1>11 DEF IInv

\* ideintr completes the head of the queue and starts the next, whose buffer is
\* another one, and which has not been changed since.
LEMMA IdeintrIInv ==
    ASSUME IInv, Ideintr
    PROVE  IInv'
<1>1. idequeue # << >> /\ pending = TRUE
    BY DEF Ideintr, IInv, Requests, Types
<1>2. PICK i \in Bufs : /\ idequeue[1] = i /\ Head(idequeue) = i /\ buf[i].block \in Blocks
                        /\ command = Request(buf[i])
                        /\ buf[i].dirty = TRUE => disk[buf[i].block] = buf[i].data
    BY <1>1, HeadIs DEF IInv, Requests
<1>3. PICK x : x = IF buf[i].dirty THEN buf[i].data ELSE disk[buf[i].block]
    OBVIOUS
<1>4. command.block = buf[i].block
    BY <1>2 DEF Request
<1>5. /\ buf' = [buf EXCEPT ![i] = [buf[i] EXCEPT !.data = x, !.valid = TRUE, !.dirty = FALSE]]
      /\ UNCHANGED <<mru, disk, b, latest>> /\ pending' = FALSE
      /\ idequeue' = Tail(idequeue) /\ command' = Restart(Tail(idequeue))
      /\ pc' = [u \in Threads |-> IF pc[u] = "asleep" /\ b[u] = i THEN "woken" ELSE pc[u]]
    BY <1>2, <1>3, <1>4 DEF Ideintr, IInv, Types
<1>6. x = disk[buf[i].block] /\ x \in Data
    BY <1>2, <1>3, FieldTypes DEF IInv, Types
<1>7. /\ \A j \in Bufs : j # i => buf'[j] = buf[j]
      /\ buf'[i].block = buf[i].block /\ buf'[i].lock = buf[i].lock
      /\ buf'[i].refcnt = buf[i].refcnt
      /\ buf'[i].data = x /\ buf'[i].valid = TRUE /\ buf'[i].dirty = FALSE
    BY <1>5 DEF IInv, Types, Buffer
<1>8. /\ idequeue \in Seq(Bufs) /\ idequeue' \in Seq(Bufs) /\ Len(idequeue) \in Nat
      /\ Len(idequeue') = Len(idequeue) - 1
      /\ \A n \in 1 .. Len(idequeue') : n + 1 \in 1 .. Len(idequeue)
                                        /\ idequeue'[n] = idequeue[n + 1]
    <2>1. idequeue \in Seq(Bufs)
        BY DEF IInv, Types
    <2> QED
        BY <1>1, <1>5, <2>1
<1>9. \A n \in 1 .. Len(idequeue') : idequeue'[n] \in Bufs /\ idequeue'[n] # i
    <2>1. 1 \in 1 .. Len(idequeue) /\ \A n \in 1 .. Len(idequeue) : idequeue[n] \in Bufs
        BY <1>1, <1>8, HeadIs
    <2> SUFFICES ASSUME NEW n \in 1 .. Len(idequeue')
                 PROVE  idequeue'[n] \in Bufs /\ idequeue'[n] # i
        OBVIOUS
    <2>2. n + 1 \in 1 .. Len(idequeue) /\ idequeue'[n] = idequeue[n + 1] /\ n + 1 # 1
        BY <1>8
    <2>3. idequeue[n + 1] # idequeue[1]
        BY <2>1, <2>2 DEF IInv, Queued
    <2> QED
        BY <1>2, <2>1, <2>2, <2>3
<1>10. Types'
    <2>1. [buf[i] EXCEPT !.data = x, !.valid = TRUE, !.dirty = FALSE] \in Buffer
        BY <1>6, Record, DiskAssumption, 0 \in Nat DEF IInv, Types
    <2>2. pc' \in [Threads -> Places]
        BY <1>5 DEF IInv, Types, Places, Holding
    <2> QED
        BY <1>5, <1>8, <2>1, <2>2 DEF IInv, Types
<1>11. Using' /\ Counted' /\ Locked' /\ OneBuffer'
    <2>1. \A u \in Threads : pc'[u] = pc[u] \/ (pc[u] \in Holding /\ pc'[u] \in Holding)
        BY <1>5 DEF Holding
    <2>2. \A j \in Bufs : /\ buf'[j].block = buf[j].block /\ buf'[j].lock = buf[j].lock
                          /\ buf'[j].refcnt = buf[j].refcnt
        BY <1>7
    <2> QED
        BY <1>5, <2>1, <2>2, UseKept
<1>12. Latest' /\ OnDisk'
    <2>1. \A u \in Threads : pc'[u] \in {"hold", "woken"} =>
             b[u] \in Bufs /\ (pc'[u] = pc[u] \/ b[u] = i)
        BY <1>5 DEF IInv, Using
    <2>2. disk'[buf[i].block] = IF buf[i].dirty THEN buf[i].data ELSE disk[buf[i].block]
        BY <1>3, <1>5, <1>6
    <2> QED
        BY <1>2, <1>3, <1>5, <1>7, <2>1, <2>2, FinishedLatest
<1>13. Queued'
    <2>1. \A m, n \in 1 .. Len(idequeue') : idequeue'[m] = idequeue'[n] => m = n
        BY <1>8 DEF IInv, Queued
    <2>2. ASSUME NEW n \in 1 .. Len(idequeue')
          PROVE  \E u \in Threads : pc'[u] = "asleep" /\ b'[u] = idequeue'[n]
        <3>1. PICK u \in Threads : pc[u] = "asleep" /\ b[u] = idequeue'[n]
            BY <1>8 DEF IInv, Queued
        <3> QED
            BY <1>5, <1>9, <3>1
    <2> QED
        BY <2>1, <2>2 DEF Queued
<1>14. Requests'
    <2>1. CASE Tail(idequeue) = << >>
        BY <1>5, <2>1 DEF Requests, Restart
    <2>2. CASE Tail(idequeue) # << >>
        <3>1. 1 \in 1 .. Len(idequeue') /\ Head(idequeue') = idequeue'[1]
            BY <1>5, <1>8, <2>2
        <3>2. buf'[idequeue'[1]] = buf[idequeue'[1]]
            BY <1>7, <1>9, <3>1
        <3>3. command' = Request(buf[idequeue'[1]])
            BY <1>5, <2>2, <3>1 DEF Restart
        <3> QED
            BY <1>5, <2>2, <3>2, <3>3 DEF Requests
    <2> QED
        BY <2>1, <2>2
<1> QED
    BY <1>10, <1>11, <1>12, <1>13, <1>14 DEF IInv

-----------------------------------------------------------------------------
\* Every step of bio.c, for either driver.
LEMMA CacheIInv ==
    ASSUME IInv, Cache
    PROVE  IInv'
<1>1. ASSUME NEW t \in Threads, NEW d \in Data, Bwrite(t, d) \/ LogWrite(t, d)
      PROVE  IInv'
    BY <1>1, ChangeIInv DEF Bwrite, LogWrite
<1> QED
    BY <1>1, LockIInv, BrelseIInv, BrelsePutIInv, BgetIInv DEF Cache

\* A stuttering step keeps the invariant.
LEMMA StutterIInv ==
    ASSUME IInv, UNCHANGED dvars
    PROVE  IInv'
BY DEF dvars, IInv, Types, Using, Counted, Users, Locked, OneBuffer, Latest, OnDisk, Queued, Requests

\* What the invariant says of a thread that holds a buffer.
LEMMA HoldersSeeLatest == IInv => ReadsLatest
<1> SUFFICES ASSUME IInv, NEW t \in Threads, pc[t] = "hold"
             PROVE  buf[b[t]].lock = t /\ buf[b[t]].data = latest[buf[b[t]].block]
    BY DEF ReadsLatest
<1>1. b[t] \in Bufs /\ buf[b[t]].lock = t
    BY NotQueued DEF Holding
<1> QED
    BY <1>1 DEF IInv, Latest

\* Whoever holds a block with the kernel of ide.c sees what was last put into it,
\* by any thread, whether it was written through, pinned by the log or recycled
\* and read again in between.
THEOREM HoldersReadLatest == IdeSpec => []ReadsLatest
<1>1. ASSUME IInv, [DiskNext]_dvars
      PROVE  IInv'
    BY <1>1, CacheIInv, IderwIInv, WokenIInv, DeviceIInv, IdeintrIInv, StutterIInv
       DEF DiskNext, IdeDriver
<1> QED
    BY <1>1, InitIInv, HoldersSeeLatest, PTL DEF IdeSpec

\* The same with the kernel whose disk is in memory (memide.c).
THEOREM MemHoldersReadLatest == MemSpec => []ReadsLatest
<1>1. ASSUME IInv, [MemDiskNext]_dvars
      PROVE  IInv'
    BY <1>1, CacheIInv, IderwMemIInv, StutterIInv DEF MemDiskNext, MemDriver
<1> QED
    BY <1>1, InitIInv, HoldersSeeLatest, PTL DEF MemSpec

-----------------------------------------------------------------------------
(* The console's ring                                                      *)

Char == {"nl", "^D", "d"}

\* input.r, input.w and input.e are in this order, and e does not lap r.
Indices ==
    /\ r \in 0 .. INPUT_BUF - 1 /\ w \in Nat /\ e \in Nat
    /\ r <= w /\ w <= e /\ e <= r + INPUT_BUF

\* The inductive invariant.
KInv ==
    /\ Indices
    /\ ring \in [0 .. INPUT_BUF - 1 -> Char]
    /\ rpc \in [Readers -> {"idle", "loop", "asleep"}]
    /\ InputKept

-----------------------------------------------------------------------------
\* Index i of the ring, for the indices that occur: less than twice round.
LEMMA Place ==
    ASSUME NEW i \in 0 .. (2 * INPUT_BUF - 1)
    PROVE  i % INPUT_BUF = IF i < INPUT_BUF THEN i ELSE i - INPUT_BUF
<1> DEFINE m == INPUT_BUF
           q == i \div m
           x == i % m
<1>1. m \in Nat /\ m > 0
    BY ConsoleAssumption
<1>2. q \in Int /\ x \in 0 .. (m - 1) /\ x = i - m * q /\ m * q \in Int
    BY <1>1
<1> HIDE DEF q, x
<1>3. CASE q <= -1
    <2>1. m * (-1 - q) >= 0 /\ m * (-1 - q) = - m - m * q
        BY <1>1, <1>2, <1>3
    <2> QED
        BY <1>1, <1>2, <2>1
<1>4. CASE q >= 2
    <2>1. m * (q - 2) >= 0 /\ m * (q - 2) = m * q - 2 * m
        BY <1>1, <1>2, <1>4
    <2> QED
        BY <1>1, <1>2, <2>1
<1>5. CASE q = 0
    BY <1>1, <1>2, <1>5 DEF x
<1>6. CASE q = 1
    BY <1>1, <1>2, <1>6 DEF x
<1> QED
    BY <1>2, <1>3, <1>4, <1>5, <1>6

\* Between input.r and input.r + INPUT_BUF every index has its own place.
LEMMA Apart ==
    ASSUME Indices, NEW i \in r .. e, NEW j \in r .. e, i < j, j < r + INPUT_BUF
    PROVE  /\ i % INPUT_BUF \in 0 .. INPUT_BUF - 1 /\ j % INPUT_BUF \in 0 .. INPUT_BUF - 1
           /\ i % INPUT_BUF # j % INPUT_BUF
<1>1. /\ i \in 0 .. (2 * INPUT_BUF - 1) /\ j \in 0 .. (2 * INPUT_BUF - 1)
      /\ i < j /\ j < i + INPUT_BUF /\ INPUT_BUF \in Nat
    BY ConsoleAssumption DEF Indices
<1>2. /\ i % INPUT_BUF = IF i < INPUT_BUF THEN i ELSE i - INPUT_BUF
      /\ j % INPUT_BUF = IF j < INPUT_BUF THEN j ELSE j - INPUT_BUF
    BY <1>1, Place
<1> QED
    BY <1>1, <1>2

\* What Committed is, element by element.
LEMMA CommittedIs ==
    ASSUME Indices, ring \in [0 .. INPUT_BUF - 1 -> Char]
    PROVE  /\ Committed \in Seq(Char) /\ Len(Committed) = w - r /\ w - r \in Nat
           /\ \A n \in 1 .. w - r : Committed[n] = ring[(r + n - 1) % INPUT_BUF]
<1>1. w - r \in Nat
    BY DEF Indices
<1>2. ASSUME NEW n \in 1 .. w - r
      PROVE  ring[(r + n - 1) % INPUT_BUF] \in Char
    <2>1. r + n - 1 \in Int /\ INPUT_BUF \in Nat \ {0}
        BY ConsoleAssumption DEF Indices
    <2>2. (r + n - 1) % INPUT_BUF \in 0 .. INPUT_BUF - 1
        BY <2>1
    <2> QED
        BY <2>2
<1> QED
    BY <1>1, <1>2 DEF Committed, At

-----------------------------------------------------------------------------
\* A character is taken from the ring, which may bring input.r round: what is
\* left is what was committed behind it.
LEMMA OneTaken ==
    ASSUME KInv, r # w, Advance1, owed' = Tail(owed), UNCHANGED ring
    PROVE  Indices' /\ Committed' = owed'
<1>1. INPUT_BUF \in Nat /\ INPUT_BUF > 0
    BY ConsoleAssumption
<1>2. /\ r \in 0 .. INPUT_BUF - 1 /\ w \in Nat /\ e \in Nat
      /\ r < w /\ w <= e /\ e <= r + INPUT_BUF
    BY DEF KInv, Indices
<1>3. Indices' /\ w' - r' = w - r - 1
    BY <1>1, <1>2 DEF Advance1, Indices
<1>4. /\ owed \in Seq(Char) /\ Len(owed) = w - r
      /\ \A n \in 1 .. w - r : owed[n] = ring[(r + n - 1) % INPUT_BUF]
    BY CommittedIs DEF KInv, InputKept
<1>5. owed' = [n \in 1 .. w - r - 1 |-> owed[n + 1]]
    <2>1. owed # << >> /\ Len(owed) - 1 = w - r - 1
        BY <1>2, <1>4
    <2>2. /\ Tail(owed) \in Seq(Char) /\ Len(Tail(owed)) = w - r - 1
          /\ \A n \in 1 .. w - r - 1 : Tail(owed)[n] = owed[n + 1]
        BY <1>4, <2>1
    <2>3. PICK t \in Seq(Char) : /\ t = Tail(owed) /\ Len(t) = w - r - 1
                                 /\ \A n \in 1 .. w - r - 1 : t[n] = owed[n + 1]
        BY <2>2
    <2>4. t = [n \in 1 .. w - r - 1 |-> t[n]]
        <3>1. t = [n \in 1 .. Len(t) |-> t[n]]
            BY t \in Seq(Char)
        <3> QED
            BY <2>3, <3>1, Zenon
    <2>5. t = [n \in 1 .. w - r - 1 |-> owed[n + 1]]
        BY <2>3, <2>4
    <2> QED
        BY <2>3, <2>5
<1>6. ASSUME NEW n \in 1 .. w - r - 1
      PROVE  ring[(r' + n - 1) % INPUT_BUF] = owed[n + 1]
    <2>1. n + 1 \in 1 .. w - r /\ r + (n + 1) - 1 = r + n
        BY <1>2
    <2>2. owed[n + 1] = ring[(r + n) % INPUT_BUF]
        BY <1>4, <2>1
    <2>3. CASE r + 1 = INPUT_BUF
        <3>1. r' + n - 1 = n - 1 /\ r + n = INPUT_BUF + (n - 1)
            BY <1>1, <1>2, <2>3 DEF Advance1
        <3>2. n - 1 \in 0 .. (2 * INPUT_BUF - 1) /\ r + n \in 0 .. (2 * INPUT_BUF - 1) /\ n - 1 < INPUT_BUF
            BY <1>1, <1>2, <3>1
        <3>3. (n - 1) % INPUT_BUF = n - 1 /\ (r + n) % INPUT_BUF = n - 1
            BY <1>1, <1>2, <3>1, <3>2, Place
        <3> QED
            BY <2>2, <3>1, <3>3
    <2>4. CASE r + 1 # INPUT_BUF
        <3>1. r' + n - 1 = r + n
            BY <1>2, <2>4 DEF Advance1
        <3> QED
            BY <2>2, <3>1
    <2> QED
        BY <2>3, <2>4
<1>7. Committed' = [n \in 1 .. w' - r' |-> ring[(r' + n - 1) % INPUT_BUF]]
    BY DEF Committed, At
<1>8. Committed' = [n \in 1 .. w - r - 1 |-> owed[n + 1]]
    BY <1>3, <1>6, <1>7
<1> QED
    BY <1>3, <1>5, <1>8

\* Reads take from the front, one character at a time; a saved ^D stays.
LEMMA ReadKept ==
    ASSUME KInv, NEW p \in Readers, ReadSleep(p) \/ ReadChar(p) \/ ReadEof(p)
    PROVE  KInv'
<1>1. CASE ReadSleep(p)
    <2>1. UNCHANGED <<ring, r, w, e, owed>> /\ r = w
        BY <1>1 DEF ReadSleep
    <2>2. rpc' \in [Readers -> {"idle", "loop", "asleep"}]
        BY <1>1 DEF ReadSleep, Return, KInv
    <2> QED
        BY <2>1, <2>2 DEF KInv, Indices, InputKept, Committed, At
<1>2. CASE ReadChar(p) \/ ReadEof(p)
    <2>1. r # w /\ UNCHANGED ring
        BY <1>2 DEF ReadChar, ReadEof
    <2>2. /\ rpc' \in [Readers -> {"idle", "loop", "asleep"}]
          /\ \A q \in Readers : rpc'[q] # "asleep"
        <3>1. rpc' = rpc \/ rpc' = [rpc EXCEPT ![p] = "idle"]
            BY <1>2 DEF ReadChar, ReadEof, Return
        <3> QED
            BY <2>1, <3>1 DEF KInv, InputKept
    <2>3. Indices' /\ Committed' = owed'
        <3>1. CASE Advance1 /\ owed' = Tail(owed)
            BY <2>1, <3>1, OneTaken
        <3>2. CASE UNCHANGED <<r, w, e, owed>>
            BY <2>1, <3>2 DEF KInv, Indices, InputKept, Committed, At
        <3> QED
            BY <1>2, <3>1, <3>2 DEF ReadChar, ReadEof
    <2> QED
        BY <2>1, <2>2, <2>3 DEF KInv, InputKept
<1> QED
    BY <1>1, <1>2

\* consoleintr: editing only moves input.e, down to input.w at most.
LEMMA EditKept ==
    ASSUME KInv, UNCHANGED <<ring, r, w, rpc, owed>>, e' \in w .. e
    PROVE  KInv'
<1>1. Indices'
    BY ConsoleAssumption DEF KInv, Indices
<1> QED
    BY <1>1 DEF KInv, InputKept, Committed, At

\* consoleintr: a character goes to a free place, and a newline, a ^D or a full
\* ring commits the line behind what was committed before.
LEMMA StoreKept ==
    ASSUME KInv, NEW c \in Char, Room, UNCHANGED r,
           ring' = [ring EXCEPT ![e % INPUT_BUF] = c], e' = e + 1,
           \/ UNCHANGED <<w, rpc, owed>> /\ e + 1 # r + INPUT_BUF
           \/ /\ w' = e + 1 /\ Wakeup
              /\ owed' = owed \o [n \in 1 .. e + 1 - w |->
                                     IF w + n - 1 = e THEN c ELSE At(w + n - 1)]
    PROVE  KInv'
<1>1. INPUT_BUF \in Nat /\ INPUT_BUF > 0
    BY ConsoleAssumption
<1>2. /\ r \in 0 .. INPUT_BUF - 1 /\ w \in Nat /\ e \in Nat
      /\ r <= w /\ w <= e /\ e < r + INPUT_BUF
    BY <1>1 DEF KInv, Indices, Room
<1>3. Indices'
    BY <1>1, <1>2 DEF Indices
<1>4. e % INPUT_BUF \in 0 .. INPUT_BUF - 1
    BY <1>1, <1>2
<1>5. ring' \in [0 .. INPUT_BUF - 1 -> Char] /\ ring'[e % INPUT_BUF] = c
    BY <1>4 DEF KInv
<1>6. ASSUME NEW i \in r .. e, i # e
      PROVE  ring'[i % INPUT_BUF] = ring[i % INPUT_BUF]
    <2>1. i % INPUT_BUF # e % INPUT_BUF /\ i % INPUT_BUF \in 0 .. INPUT_BUF - 1
        <3>1. Indices /\ e \in r .. e /\ i < e
            BY <1>2, <1>6 DEF KInv
        <3> QED
            BY <1>2, <3>1, Apart
    <2> QED
        BY <1>4, <2>1 DEF KInv
<1>7. /\ owed \in Seq(Char) /\ Len(owed) = w - r
      /\ \A n \in 1 .. w - r : owed[n] = ring[(r + n - 1) % INPUT_BUF]
    BY CommittedIs DEF KInv, InputKept
<1>8. Committed' = [n \in 1 .. w' - r |-> ring'[(r + n - 1) % INPUT_BUF]]
    BY DEF Committed, At
<1>9. ASSUME NEW n \in 1 .. w - r
      PROVE  ring'[(r + n - 1) % INPUT_BUF] = owed[n]
    <2>1. r + n - 1 \in r .. e /\ r + n - 1 # e
        BY <1>2
    <2> QED
        BY <1>6, <1>7, <2>1
<1>10. CASE UNCHANGED <<w, rpc, owed>>
    <2>1. owed = [n \in 1 .. w - r |-> owed[n]]
        BY <1>7
    <2>2. Committed' = [n \in 1 .. w - r |-> owed[n]]
        BY <1>8, <1>9, <1>10
    <2> QED
        BY <1>3, <1>5, <1>10, <2>1, <2>2 DEF KInv, InputKept
<1>11. CASE /\ w' = e + 1 /\ Wakeup
            /\ owed' = owed \o [n \in 1 .. e + 1 - w |->
                                   IF w + n - 1 = e THEN c ELSE At(w + n - 1)]
    <2> DEFINE s == [n \in 1 .. e + 1 - w |-> IF w + n - 1 = e THEN c ELSE At(w + n - 1)]
    <2>1. ASSUME NEW n \in 1 .. e + 1 - w
          PROVE  s[n] \in Char /\ s[n] = ring'[(w + n - 1) % INPUT_BUF]
        <3>1. w + n - 1 \in r .. e /\ w + n - 1 \in Int
            BY <1>2
        <3>2. (w + n - 1) % INPUT_BUF \in 0 .. INPUT_BUF - 1
            BY <1>1, <3>1
        <3> QED
            BY <1>5, <1>6, <3>1, <3>2 DEF At
    <2>2. s \in Seq(Char) /\ Len(s) = e + 1 - w
        <3>1. e + 1 - w \in Nat
            BY <1>2
        <3> QED
            BY <2>1, <3>1
    <2> HIDE DEF s
    <2>3. /\ owed' = owed \o s /\ owed' \in Seq(Char) /\ Len(owed') = e + 1 - r
          /\ \A n \in 1 .. e + 1 - r : owed'[n] = IF n <= w - r THEN owed[n] ELSE s[n - (w - r)]
        <3>1. owed' = owed \o s
            BY <1>11 DEF s
        <3>2. w - r + (e + 1 - w) = e + 1 - r
            BY <1>2
        <3>3. /\ owed \o s \in Seq(Char) /\ Len(owed \o s) = Len(owed) + Len(s)
              /\ \A n \in 1 .. Len(owed) + Len(s) :
                    (owed \o s)[n] = IF n <= Len(owed) THEN owed[n] ELSE s[n - Len(owed)]
            BY <1>7, <2>2, ConcatProperties
        <3>4. Len(owed) = w - r /\ Len(owed) + Len(s) = e + 1 - r
            BY <1>7, <2>2, <3>2
        <3> QED
            BY <3>1, <3>3, <3>4
    <2>4. ASSUME NEW n \in 1 .. e + 1 - r
          PROVE  owed'[n] = ring'[(r + n - 1) % INPUT_BUF]
        <3>1. CASE n <= w - r
            <4>1. n \in 1 .. w - r
                BY <1>2, <3>1
            <4> QED
                BY <1>9, <2>3, <4>1
        <3>2. CASE ~(n <= w - r)
            <4>1. n - (w - r) \in 1 .. e + 1 - w /\ w + (n - (w - r)) - 1 = r + n - 1
                BY <1>2, <3>2
            <4>2. s[n - (w - r)] = ring'[(w + (n - (w - r)) - 1) % INPUT_BUF]
                BY <2>1, <4>1
            <4>3. owed'[n] = s[n - (w - r)]
                BY <2>3, <3>2
            <4> QED
                BY <4>1, <4>2, <4>3
        <3> QED
            BY <3>1, <3>2
    <2>5. PICK o : o = owed' /\ o \in Seq(Char) /\ Len(o) = e + 1 - r
        BY <2>3
    <2>6. Committed' = o
        <3>1. o = [n \in 1 .. e + 1 - r |-> o[n]]
            BY <2>5
        <3>2. w' - r = e + 1 - r
            <4>1. w' = e + 1
                BY <1>11
            <4> QED
                BY <1>2, <4>1
        <3>3. Committed' = [n \in 1 .. e + 1 - r |-> o[n]]
            BY <1>8, <2>4, <2>5, <3>2
        <3> QED
            BY <3>1, <3>3
    <2>7. /\ rpc' \in [Readers -> {"idle", "loop", "asleep"}]
          /\ \A q \in Readers : rpc'[q] # "asleep"
        BY <1>11 DEF Wakeup, KInv
    <2> QED
        BY <1>3, <1>5, <2>5, <2>6, <2>7 DEF KInv, InputKept
<1> QED
    BY <1>10, <1>11

\* Every character the interrupt handlers pass to consoleintr.
LEMMA ConsoleintrKept ==
    ASSUME KInv, NEW c \in Char \cup {"0", "^U", "^H"}, Consoleintr(c)
    PROVE  KInv'
<1>1. w \in Nat /\ e \in Nat /\ w <= e
    BY DEF KInv, Indices
<1>2. CASE UNCHANGED <<ring, r, w, e, rpc, owed>>
    <2>1. e' \in w .. e
        BY <1>1, <1>2
    <2> QED
        BY <1>2, <2>1, EditKept
<1>3. CASE c = "^U"
    BY <1>3, EditKept DEF Consoleintr
<1>4. CASE c = "^H"
    <2>1. e' \in w .. e /\ UNCHANGED <<ring, r, w, rpc, owed>>
        BY <1>1, <1>4 DEF Consoleintr, Erasable
    <2> QED
        BY <2>1, EditKept
<1>5. CASE c \in Char /\ Room
    <2>1. /\ ring' = [ring EXCEPT ![e % INPUT_BUF] = c] /\ e' = e + 1 /\ UNCHANGED r
          /\ \/ UNCHANGED <<w, rpc, owed>> /\ e + 1 # r + INPUT_BUF
             \/ /\ w' = e + 1 /\ Wakeup
                /\ owed' = owed \o [n \in 1 .. e + 1 - w |->
                                       IF w + n - 1 = e THEN c ELSE At(w + n - 1)]
        BY <1>5 DEF Consoleintr, Char
    <2> QED
        BY <1>5, <2>1, StoreKept
<1>6. c \notin {"^U", "^H"} /\ ~(c \in Char /\ Room) => UNCHANGED <<ring, r, w, e, rpc, owed>>
    BY DEF Consoleintr
<1> QED
    BY <1>2, <1>3, <1>4, <1>5, <1>6

\* What kbdgetc may return.
LEMMA KeyChar ==
    ASSUME NEW k PROVE Kbdgetc(k).c \in Char \cup {"0", "^U", "^H"}
BY DEF Kbdgetc, CharCode, Char

\* Initially the ring is empty.
LEMMA InitKept == ConsoleInit => KInv
<1> SUFFICES ASSUME ConsoleInit PROVE KInv
    OBVIOUS
<1>1. Indices
    BY ConsoleAssumption DEF ConsoleInit, Indices
<1>2. ring \in [0 .. INPUT_BUF - 1 -> Char] /\ rpc \in [Readers -> {"idle", "loop", "asleep"}]
    BY DEF ConsoleInit, Char
<1>3. Committed = owed
    <2>1. Committed = [n \in 1 .. 0 |-> ring[(0 + n - 1) % INPUT_BUF]] /\ owed = << >>
        BY DEF ConsoleInit, Committed, At
    <2>2. Len(Committed) = 0 /\ Committed \in Seq(Char)
        BY <1>1, <1>2, CommittedIs DEF ConsoleInit
    <2> QED
        BY <2>1, <2>2
<1>4. \A p \in Readers : rpc[p] # "asleep"
    BY DEF ConsoleInit
<1> QED
    BY <1>1, <1>2, <1>3, <1>4 DEF KInv, InputKept

\* Every step keeps the invariant.
LEMMA NextKept == KInv /\ [ConsoleNext]_cvars => KInv'
<1> SUFFICES ASSUME KInv, [ConsoleNext]_cvars PROVE KInv'
    OBVIOUS
<1>1. CASE UNCHANGED <<ring, r, w, e, rpc, owed>>
    <2>1. e' \in w .. e
        BY <1>1 DEF KInv, Indices
    <2> QED
        BY <1>1, <2>1, EditKept
<1>2. CASE Kbdintr
    BY <1>2, KeyChar, ConsoleintrKept DEF Kbdintr
<1>3. ASSUME NEW c \in UartChars, Uartintr(c)
      PROVE  KInv'
    BY <1>3, ConsoleintrKept DEF Uartintr, UartChars
<1>4. ASSUME NEW p \in Readers, NEW n \in 1 .. MaxRead, Read(p, n)
      PROVE  KInv'
    <2>1. /\ UNCHANGED <<ring, r, w, e, owed>>
          /\ rpc' = [rpc EXCEPT ![p] = "loop"]
        BY <1>4 DEF Read
    <2>2. /\ rpc' \in [Readers -> {"idle", "loop", "asleep"}]
          /\ \A q \in Readers : rpc'[q] = "asleep" => rpc[q] = "asleep"
        BY <2>1 DEF KInv
    <2> QED
        BY <2>1, <2>2 DEF KInv, Indices, InputKept, Committed, At
<1>5. ASSUME NEW key \in CtlKeys \cup LetterKeys, NEW up \in BOOLEAN, Key(key, up)
      PROVE  UNCHANGED <<ring, r, w, e, rpc, owed>>
    BY <1>5 DEF Key
<1>6. UNCHANGED cvars => UNCHANGED <<ring, r, w, e, rpc, owed>>
    BY DEF cvars
<1> QED
    BY <1>1, <1>2, <1>3, <1>4, <1>5, <1>6, ReadKept DEF ConsoleNext

\* Committed input is read once, in order and unchanged, whoever reads and
\* whatever is typed and erased behind it, and nobody sleeps while there is some.
THEOREM InputAlwaysKept == ConsoleSpec => []InputKept
<1>1. KInv => InputKept
    BY DEF KInv
<1> QED
    BY <1>1, InitKept, NextKept, PTL DEF ConsoleSpec
=============================================================================
