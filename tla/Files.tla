------------------------------- MODULE Files --------------------------------
(***************************************************************************)
(* File contents (os-master/fs.c, file.c): processes read and write open   *)
(* files; blocks come from the bitmap (balloc), are found through direct   *)
(* and indirect addresses (bmap) and go back when a file is removed        *)
(* (itrunc).  The disk is the one mkfs.c made before the kernel runs.      *)
(*                                                                         *)
(* A step of a write is one turn of writei's loop, done under the file's   *)
(* inode lock; balloc holds the bitmap's buffer.  Transactions are Log's   *)
(* subject: here a step adds to the set of blocks its call has logged.     *)
(* One unit stands for a byte, a directory entry and a block number.       *)
(***************************************************************************)
EXTENDS Integers, Sequences, FiniteSets

CONSTANTS
    Procs,          \* processes
    NFILE,          \* entries of the file table
    NDIRECT,        \* direct addresses of an inode
    BSIZE,          \* units of a block; also the addresses of an indirect one
    FSSIZE,         \* blocks of the disk
    MAXOPBLOCKS,    \* blocks a call may log
    FileSize,       \* units of the file mkfs is given
    Sizes,          \* sizes of reads and writes
    MaxWrites       \* bound: writes started

\* A chunk of filewrite is a block or more.
ASSUME FilesAssumption ==
    /\ Procs \subseteq Nat \ {0} /\ IsFiniteSet(Procs)
    /\ {NFILE, NDIRECT, FSSIZE, FileSize, MaxWrites} \subseteq Nat /\ BSIZE \in Nat \ {0}
    /\ MAXOPBLOCKS \in Nat /\ MAXOPBLOCKS >= 6 /\ Sizes \subseteq Nat \ {0}

Slots == 1 .. NFILE
MAXFILE == NDIRECT + BSIZE
InodeBlock == 2                     \* boot block 0, super block 1
BitmapBlock == 3
nmeta == 4
Blocks == 0 .. FSSIZE - 1

ROOTINO == 1
First == 2                          \* the file of mkfs
Second == 3                         \* an inode mkfs leaves free
Inodes == {ROOTINO, First, Second}
None == 0

VARIABLES
    disk,           \* contents of the blocks
    used,           \* the bitmap: blocks marked in use
    dinode,         \* [size, addrs] of each inode on disk
    mem,            \* the same in the inode cache
    lock,           \* holder of the inode's sleep lock
    file,           \* [ip, off, ref] of each entry of the file table
    fd,             \* the file p has open
    pc, job,        \* where p is in filewrite, and its locals
    logged,         \* blocks logged by p's transaction
    ref,            \* history: what the file must hold
    writes,         \* number of writes started
    panicked,
    phase,          \* which program has the disk: "mkfs" or "kernel"
    todo,           \* what mkfs still has to append: [ip, unit]
    freeblock       \* mkfs: the next block to take

mkfsVars == <<phase, todo, freeblock>>
filesVars == <<disk, used, dinode, mem, lock, file, fd, pc, job, logged, ref, writes, panicked,
               mkfsVars>>

-----------------------------------------------------------------------------
(* mkfs                                                                    *)

Zeroes == [k \in 0 .. BSIZE - 1 |-> 0]
NewInode == [size |-> 0, addrs |-> [k \in 0 .. NDIRECT |-> 0]]
NoFile == [ip |-> None, off |-> 0, ref |-> 0]
NoJob == [n |-> 0, i |-> 0, n1 |-> 0, tot |-> 0, off |-> 0]

\* The root with ".", ".." and the file; the contents of the file.
ToAppend ==
    [k \in 1 .. 3 + FileSize |->
        IF k <= 3 THEN [ip |-> ROOTINO, unit |-> IF k < 3 THEN ROOTINO ELSE First]
        ELSE [ip |-> First, unit |-> 97 + k]]

FilesInit ==
    /\ phase = "mkfs" /\ todo = ToAppend /\ freeblock = nmeta
    /\ disk = [b \in Blocks |-> Zeroes] /\ used = {}
    /\ dinode = [i \in Inodes |-> NewInode] /\ mem = dinode
    /\ lock = [i \in Inodes |-> None]
    /\ file = [f \in Slots |-> NoFile] /\ fd = [p \in Procs |-> None]
    /\ pc = [p \in Procs |-> "idle"] /\ job = [p \in Procs |-> NoJob]
    /\ logged = [p \in Procs |-> {}]
    /\ ref = [i \in Inodes |-> << >>]
    /\ writes = 0 /\ panicked = FALSE

\* The address a, or the next free block if it is 0.
Fresh(free, a) == IF a # 0 THEN [got |-> a, free |-> free] ELSE [got |-> free, free |-> free + 1]

\* Unit by unit.  mkfs gives up when the file is too long, and when it cannot
\* read a block back because the image ends before it.
iappend ==
    LET i    == Head(todo).ip
        d    == dinode[i]
        fbn  == d.size \div BSIZE
        slot == IF fbn < NDIRECT THEN fbn ELSE NDIRECT
        top  == Fresh(freeblock, d.addrs[slot])
        leaf == IF fbn < NDIRECT THEN top ELSE Fresh(top.free, disk[top.got][fbn - NDIRECT])
        ind  == IF fbn < NDIRECT THEN disk
                ELSE [disk EXCEPT ![top.got][fbn - NDIRECT] = leaf.got]
    IN  /\ phase = "mkfs" /\ todo # << >>
        /\ fbn < MAXFILE /\ top.got \in Blocks /\ leaf.got \in Blocks
        /\ disk' = [ind EXCEPT ![leaf.got][d.size % BSIZE] = Head(todo).unit]
        /\ dinode' = [dinode EXCEPT ![i] = [size |-> d.size + 1,
                                           addrs |-> [d.addrs EXCEPT ![slot] = top.got]]]
        /\ freeblock' = leaf.free /\ todo' = Tail(todo)
        /\ ref' = [ref EXCEPT ![i] = Append(@, Head(todo).unit)]
        /\ UNCHANGED <<used, mem, lock, file, fd, pc, job, logged, writes, panicked, phase>>

\* The bits balloc sets.
Marked == 0 .. freeblock - 1

\* The size of the root is rounded up past its last entry, and the blocks
\* taken are marked; then the kernel starts.
MkfsEnds ==
    /\ phase = "mkfs" /\ todo = << >> /\ phase' = "kernel"
    /\ dinode' = [dinode EXCEPT ![ROOTINO].size = ((@ \div BSIZE) + 1) * BSIZE]
    /\ used' = Marked
    /\ mem' = dinode'
    /\ UNCHANGED <<disk, lock, file, fd, pc, job, logged, ref, writes, panicked, todo, freeblock>>

-----------------------------------------------------------------------------
(* Blocks and addresses.  A call works on [d, disk, used, log, got, panic]: *)
(* an inode, the disk, the bitmap, what it logged, and the last address.   *)

\* A block that is allocated is zeroed.
bzero(dsk, b) == [dsk EXCEPT ![b] = Zeroes]

\* The first free block; none left is a panic.
balloc(st) ==
    IF Blocks \ st.used = {} THEN [st EXCEPT !.panic = TRUE]
    ELSE LET b == CHOOSE b \in Blocks \ st.used : \A c \in Blocks \ st.used : b <= c
         IN  [st EXCEPT !.used = @ \cup {b}, !.disk = bzero(@, b),
                        !.log = @ \cup {BitmapBlock, b}, !.got = b]

\* ip->addrs[slot], allocated if it is 0.
AddrSlot(st, slot) ==
    IF st.d.addrs[slot] # 0 THEN [st EXCEPT !.got = st.d.addrs[slot]]
    ELSE LET s1 == balloc(st) IN [s1 EXCEPT !.d.addrs[slot] = s1.got]

bmap(st, bn) ==
    IF bn < NDIRECT THEN AddrSlot(st, bn)
    ELSE LET s1 == AddrSlot(st, NDIRECT)
             a  == s1.got
             x  == s1.disk[a][bn - NDIRECT]
             s2 == balloc(s1)
         IN  IF x # 0 THEN [s1 EXCEPT !.got = x]
             ELSE [s2 EXCEPT !.disk[a][bn - NDIRECT] = s2.got, !.log = @ \cup {a}]

\* The address bmap finds without allocating; 0 if it would have to.
Address(d, bn) ==
    IF bn < NDIRECT THEN d.addrs[bn]
    ELSE IF d.addrs[NDIRECT] = 0 THEN 0 ELSE disk[d.addrs[NDIRECT]][bn - NDIRECT]

InUse(d) == {k \in 0 .. MAXFILE - 1 : Address(d, k) # 0}

\* Mutant: the blocks behind the indirect one are freed, and it is not.
itruncPart(d) == {Address(d, k) : k \in InUse(d)}

\* The blocks itrunc gives back.
itrunc(d) == {Address(d, k) : k \in InUse(d)} \cup ({d.addrs[NDIRECT]} \ {0})

Content(d) == [k \in 1 .. d.size |-> LET a == Address(d, (k - 1) \div BSIZE)
                                     IN  IF a = 0 THEN 0 ELSE disk[a][(k - 1) % BSIZE]]

Least(a, c) == IF a <= c THEN a ELSE c

-----------------------------------------------------------------------------
(* The file table.                                                         *)

Opened(i) == \E f \in Slots : file[f].ip = i
fileVars == <<disk, used, dinode, mem, lock, pc, job, logged, ref, writes, panicked>>

\* filealloc takes the first free entry; the inode may have to be read.
Open(p, i) ==
    /\ pc[p] = "idle" /\ fd[p] = None
    /\ \E f \in Slots : /\ file[f].ref = 0 /\ \A g \in 1 .. f - 1 : file[g].ref > 0
                        /\ file' = [file EXCEPT ![f] = [ip |-> i, off |-> 0, ref |-> 1]]
                        /\ fd' = [fd EXCEPT ![p] = f]
    /\ UNCHANGED fileVars

\* A child gets its parent's file (fork, filedup): they share the offset.
Share(p, q) ==
    /\ pc[p] = "idle" /\ fd[p] # None /\ pc[q] = "idle" /\ fd[q] = None
    /\ fd' = [fd EXCEPT ![q] = fd[p]]
    /\ file' = [file EXCEPT ![fd[p]].ref = @ + 1]
    /\ UNCHANGED fileVars

Close(p) ==
    /\ pc[p] = "idle" /\ fd[p] # None
    /\ file' = IF file[fd[p]].ref = 1 THEN [file EXCEPT ![fd[p]] = NoFile]
               ELSE [file EXCEPT ![fd[p]].ref = @ - 1]
    /\ fd' = [fd EXCEPT ![p] = None]
    /\ UNCHANGED fileVars

\* The last name and the last reference go: iput calls itrunc and frees the
\* inode, which may then be a new, empty file.
Unlink(i) ==
    /\ i # ROOTINO /\ ~Opened(i) /\ mem[i] # NewInode
    /\ panicked' = ~(itrunc(mem[i]) \subseteq used)
    /\ used' = used \ itrunc(mem[i])
    /\ mem' = [mem EXCEPT ![i] = NewInode] /\ dinode' = [dinode EXCEPT ![i] = NewInode]
    /\ ref' = [ref EXCEPT ![i] = << >>]
    /\ UNCHANGED <<disk, lock, file, fd, pc, job, logged, writes>>

\* The cache drops an inode nobody uses; it is read again later (iget, ilock).
Reload(i) ==
    /\ ~Opened(i)
    /\ mem' = [mem EXCEPT ![i] = dinode[i]]
    /\ UNCHANGED <<disk, used, dinode, lock, file, fd, pc, job, logged, ref, writes, panicked>>

-----------------------------------------------------------------------------
(* fileread and filewrite                                                  *)

\* readi; a missing block would be allocated outside a transaction.
Read(p, n) ==
    LET f == fd[p]  i == file[f].ip
        got == Least(n, mem[i].size - file[f].off)
        touched == {(file[f].off + k) \div BSIZE : k \in 0 .. got - 1}
    IN  /\ pc[p] = "idle" /\ f # None /\ lock[i] = None
        /\ panicked' = (touched \ InUse(mem[i]) # {})
        /\ file' = [file EXCEPT ![f].off = IF got > 0 THEN @ + got ELSE @]
        /\ got > 0
        /\ UNCHANGED <<disk, used, dinode, mem, lock, fd, pc, job, logged, ref, writes>>

\* The unit at place k of p's buffer.
Source(p, k) == 10 * p + k

Write(p, n) ==
    /\ pc[p] = "idle" /\ fd[p] # None /\ writes < MaxWrites
    /\ pc' = [pc EXCEPT ![p] = "begin"]
    /\ job' = [job EXCEPT ![p] = [NoJob EXCEPT !.n = n]]
    /\ writes' = writes + 1
    /\ UNCHANGED <<disk, used, dinode, mem, lock, file, fd, logged, ref, panicked>>

\* Mutant: a write is one transaction.
WholeWrite == MAXFILE * BSIZE

\* The most units written in one transaction.
Chunk == ((MAXOPBLOCKS - 1 - 1 - 2) \div 2) * BSIZE

\* begin_op, ilock and the tests of writei.
BeginChunk(p) ==
    LET f == file[fd[p]]
        n1 == Least(job[p].n - job[p].i, Chunk)
        refused == f.off > mem[f.ip].size \/ f.off + n1 > MAXFILE * BSIZE
    IN  /\ pc[p] = "begin" /\ lock[f.ip] = None
        /\ IF refused
           THEN /\ pc' = [pc EXCEPT ![p] = "idle"] /\ job' = [job EXCEPT ![p] = NoJob]
                /\ UNCHANGED lock
           ELSE /\ pc' = [pc EXCEPT ![p] = "block"] /\ lock' = [lock EXCEPT ![f.ip] = p]
                /\ job' = [job EXCEPT ![p].n1 = n1, ![p].tot = 0, ![p].off = f.off]
        /\ UNCHANGED <<disk, used, dinode, mem, file, fd, logged, ref, writes, panicked>>

\* One turn of writei's loop.
WriteBlock(p) ==
    LET i == file[fd[p]].ip
        j == job[p]
        m == Least(j.n1 - j.tot, BSIZE - (j.off % BSIZE))
        st == bmap([d |-> mem[i], disk |-> disk, used |-> used, log |-> {},
                    got |-> 0, panic |-> FALSE], j.off \div BSIZE)
        units == [k \in 0 .. BSIZE - 1 |->
                    IF k \in (j.off % BSIZE) .. (j.off % BSIZE) + m - 1
                    THEN Source(p, j.i + j.tot + k - (j.off % BSIZE)) ELSE st.disk[st.got][k]]
    IN  /\ pc[p] = "block" /\ j.tot < j.n1
        /\ IF st.panic
           THEN panicked' = TRUE /\ UNCHANGED <<disk, used, mem, job, logged>>
           ELSE /\ disk' = [st.disk EXCEPT ![st.got] = units]
                /\ used' = st.used /\ mem' = [mem EXCEPT ![i] = st.d]
                /\ logged' = [logged EXCEPT ![p] = @ \cup st.log \cup {st.got}]
                /\ job' = [job EXCEPT ![p].tot = @ + m, ![p].off = @ + m]
                /\ UNCHANGED panicked
        /\ UNCHANGED <<dinode, lock, file, fd, pc, ref, writes>>

\* What the file must hold after the chunk.
Overlay(p, old, off, j) ==
    [k \in 1 .. (IF Len(old) > off + j.n1 THEN Len(old) ELSE off + j.n1) |->
        IF k \in off + 1 .. off + j.n1 THEN Source(p, j.i + k - off - 1) ELSE old[k]]

\* Mutant: the inode is not saved once the file has an indirect block.
GrownInner(i, off) == off > mem[i].size /\ off <= NDIRECT * BSIZE

\* The file has grown: the inode is saved (iupdate).
Grown(i, off) == off > mem[i].size

\* The rest of writei, f->off, iunlock, end_op.
EndChunk(p) ==
    LET f == fd[p]  i == file[f].ip  j == job[p]
        more == j.i + j.n1 < j.n
    IN  /\ pc[p] = "block" /\ j.tot = j.n1
        /\ mem' = IF j.off > mem[i].size THEN [mem EXCEPT ![i].size = j.off] ELSE mem
        /\ dinode' = IF Grown(i, j.off) THEN [dinode EXCEPT ![i] = mem'[i]] ELSE dinode
        /\ logged' = [logged EXCEPT ![p] = {}]
        /\ ref' = [ref EXCEPT ![i] = Overlay(p, ref[i], file[f].off, j)]
        /\ file' = [file EXCEPT ![f].off = @ + j.n1]
        /\ lock' = [lock EXCEPT ![i] = None]
        /\ pc' = [pc EXCEPT ![p] = IF more THEN "begin" ELSE "idle"]
        /\ job' = [job EXCEPT ![p] = IF more THEN [j EXCEPT !.i = @ + j.n1] ELSE NoJob]
        /\ UNCHANGED <<disk, used, fd, writes, panicked>>

-----------------------------------------------------------------------------
Kernel ==
    /\ phase = "kernel" /\ ~panicked /\ UNCHANGED mkfsVars
    /\ \/ \E i \in Inodes : Unlink(i) \/ Reload(i)
       \/ \E p \in Procs :
            \/ \E i \in Inodes \ {ROOTINO} : Open(p, i)
            \/ \E q \in Procs : Share(p, q)
            \/ Close(p) \/ BeginChunk(p) \/ WriteBlock(p) \/ EndChunk(p)
            \/ \E n \in Sizes : Read(p, n) \/ Write(p, n)

FilesNext == iappend \/ MkfsEnds \/ Kernel

FilesSpec == FilesInit /\ [][FilesNext]_filesVars

-----------------------------------------------------------------------------
AtRest(i) == phase = "kernel" /\ lock[i] = None

\* A file holds what its writers put there, chunk by chunk, whatever blocks
\* it was given, through the indirect block and after the inode was dropped
\* from the cache and read again (writei, bmap, iupdate).
ContentsAsWritten == \A i \in Inodes \ {ROOTINO} : AtRest(i) => Content(mem[i]) = ref[i]

\* The blocks of inode d, and their number with one listed twice counted twice.
BlocksOf(d) == {Address(d, k) : k \in InUse(d)} \cup ({d.addrs[NDIRECT]} \ {0})
Owned(d) == Cardinality(InUse(d)) + (IF d.addrs[NDIRECT] # 0 THEN 1 ELSE 0)

\* Every block marked in the bitmap belongs to one place of one file or to
\* the file system itself, and no file uses a block that is not marked
\* (balloc, bfree, itrunc, mkfs's balloc).
BlocksOwnedOnce ==
    phase = "kernel" =>
    /\ used = (0 .. nmeta - 1) \cup UNION {BlocksOf(mem[i]) : i \in Inodes}
    /\ Cardinality(used) = nmeta + Owned(mem[1]) + Owned(mem[2]) + Owned(mem[3])

\* A call stays within the MAXOPBLOCKS that begin_op reserved for it: the
\* data blocks, the bitmap, the indirect block and, if it will be saved, the
\* inode (filewrite's max).
OpFits == \A p \in Procs : Cardinality(logged[p] \cup {InodeBlock}) <= MAXOPBLOCKS
=============================================================================
