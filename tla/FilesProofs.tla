----------------------------- MODULE FilesProofs -----------------------------
(***************************************************************************)
(* Files hold what was written to them, every block has one owner, and a   *)
(* chunk of a write fits in its transaction, for any processes, file       *)
(* table, block size, disk and sizes of files and writes.                  *)
(*                                                                         *)
(* None of the three is inductive.  An inode's blocks are looked at by     *)
(* place (At), the indirect block having a place of its own, and Sound     *)
(* says that no block has two places and that the bitmap marks those that  *)
(* have one; Grows is what one allocation does to it, in mkfs or in bmap.  *)
(* While a process writes a chunk, its file holds a part of the new units  *)
(* and the rest of the old (Written), its new blocks may be known in the   *)
(* inode cache only (Saved), and what it has logged is found again from    *)
(* where it has got to (Logging).  That rests on the lock of the inode     *)
(* being the writer's (Locks), on two processes with the same file table   *)
(* entry being counted (Table), and on no write starting past the end of   *)
(* the file (Offsets).                                                     *)
(***************************************************************************)
EXTENDS Files, FiniteSetTheorems, SequenceTheorems, WellFoundedInduction, TLAPS

-----------------------------------------------------------------------------
(* The inductive invariant                                                 *)

\* Places of units in a block, and of blocks in an inode: the indirect one is last.
Unit == 0 .. BSIZE - 1
Places == 0 .. MAXFILE

\* Blocks, the disk and inodes.
BlockData == [Unit -> Nat]
Disk == [Blocks -> BlockData]
Dinode == [size : Nat, addrs : [0 .. NDIRECT -> Nat]]

\* The address at place k of d; the indirect block has the last place.
At(dsk, d, k) ==
  IF k = MAXFILE THEN d.addrs[NDIRECT]
  ELSE IF k < NDIRECT THEN d.addrs[k]
  ELSE IF d.addrs[NDIRECT] = 0 THEN 0 ELSE dsk[d.addrs[NDIRECT]][k - NDIRECT]

\* The blocks in u are those of the file system, and those of inodes D on dsk.
Sound(dsk, u, D) ==
  /\ \A i \in Inodes, k \in Places :
       At(dsk, D[i], k) # 0 => At(dsk, D[i], k) \in Blocks /\ At(dsk, D[i], k) >= nmeta
  /\ \A i, j \in Inodes : \A k, l \in Places :
       At(dsk, D[i], k) # 0 /\ At(dsk, D[i], k) = At(dsk, D[j], l) => i = j /\ k = l
  /\ u = (0 .. nmeta - 1) \cup ({At(dsk, D[ik[1]], ik[2]) : ik \in Inodes \X Places} \ {0})

\* The blocks mkfs has taken.
Taken(n) == 0 .. n - 1

\* The unit at off of d.
UnitAt(dsk, d, off) == dsk[At(dsk, d, off \div BSIZE)][off % BSIZE]

\* The first n units of d have blocks, and r is what these hold.
Backed(dsk, d, n) ==
  /\ n <= MAXFILE * BSIZE
  /\ \A k \in 0 .. MAXFILE - 1 : k * BSIZE < n => At(dsk, d, k) # 0
Holds(dsk, d, r) == Len(r) = d.size /\ \A k \in 0 .. d.size - 1 : UnitAt(dsk, d, k) = r[k + 1]

\* The types.
Typed ==
  /\ disk \in Disk /\ used \in SUBSET Nat
  /\ dinode \in [Inodes -> Dinode] /\ mem \in [Inodes -> Dinode]
  /\ lock \in [Inodes -> Procs \cup {None}]
  /\ file \in [Slots -> [ip : Inodes \cup {None}, off : Nat, ref : Nat]]
  /\ fd \in [Procs -> Slots \cup {None}]
  /\ pc \in [Procs -> {"idle", "begin", "block"}]
  /\ job \in [Procs -> [n : Nat, i : Nat, n1 : Nat, tot : Nat, off : Nat]]
  /\ logged \in [Procs -> SUBSET Nat]
  /\ ref \in [Inodes -> Seq(Nat)]
  /\ writes \in Nat /\ panicked \in BOOLEAN /\ phase \in {"mkfs", "kernel"}
  /\ todo \in Seq([ip : Inodes, unit : Nat]) /\ freeblock \in Nat

\* Blocks from n on are blank.
BlankFrom(dsk, n) == \A b \in Blocks : b >= n => dsk[b] = Zeroes

\* While mkfs runs.
Making ==
  /\ freeblock >= nmeta /\ BlankFrom(disk, freeblock)
  /\ Sound(disk, Taken(freeblock), dinode)
  /\ \A i \in Inodes : Backed(disk, dinode[i], dinode[i].size) /\ Holds(disk, dinode[i], ref[i])
  /\ \A p \in Procs : pc[p] = "idle" /\ job[p] = NoJob /\ fd[p] = None /\ logged[p] = {}
  /\ \A f \in Slots : file[f] = NoFile
  /\ \A i \in Inodes : lock[i] = None

\* The processes that have f open.
Users(f) == {p \in Procs : fd[p] = f}

\* Who has which file.
Table ==
  \A f \in Slots : /\ file[f].ref = Cardinality(Users(f))
                   /\ file[f].ref = 0 <=> file[f].ip = None
                   /\ file[f].ip # ROOTINO

\* Who writes to which.
Locks ==
  /\ \A p \in Procs : pc[p] # "idle" => fd[p] # None
  /\ \A i \in Inodes, p \in Procs : lock[i] = p <=> pc[p] = "block" /\ file[fd[p]].ip = i

\* p has written tot of the n1 units of its chunk, and is at off of the file.
Chunking(p) ==
  LET j == job[p]  f == file[fd[p]]
  IN  /\ j.i <= j.n
      /\ pc[p] = "block" =>
           /\ j.i + j.n1 <= j.n /\ j.tot <= j.n1 /\ j.n1 <= Chunk /\ j.off = f.off + j.tot /\ f.off + j.n1 <= MAXFILE * BSIZE

\* An open file is not past its end.
Offsets == \A f \in Slots : file[f].ip # None => file[f].off <= mem[file[f].ip].size

\* What a file holds while p writes a chunk: what it wrote, and the rest as before.
Reached(i) == IF lock[i] = None \/ job[lock[i]].off <= mem[i].size THEN mem[i].size ELSE job[lock[i]].off
Now(i, k) ==
  LET p == lock[i]
      base == file[fd[p]].off
  IN  IF p # None /\ k \in base .. job[p].off - 1 THEN Source(p, job[p].i + k - base) ELSE ref[i][k + 1]

\* Every file but the root has its blocks, and in them what it should have by now.
Written ==
  \A i \in Inodes \ {ROOTINO} :
    /\ Backed(disk, mem[i], Reached(i)) /\ Len(ref[i]) = mem[i].size
    /\ \A k \in 0 .. Reached(i) - 1 : UnitAt(disk, mem[i], k) = Now(i, k)

\* What the cache has and the disk has not will be saved: the file has grown.
Saved == \A i \in Inodes : mem[i] = dinode[i] \/ Reached(i) > mem[i].size

\* What the transaction of p has logged.
Touched(p) ==
  LET i == file[fd[p]].ip
      lo == file[fd[p]].off \div BSIZE
      hi == (job[p].off - 1) \div BSIZE
  IN  {BitmapBlock} \cup {At(disk, mem[i], k) : k \in {MAXFILE} \cup lo .. hi}
Logging ==
  \A p \in Procs : logged[p] \subseteq (IF pc[p] = "block" /\ job[p].tot > 0 THEN Touched(p) \ {0} ELSE {})

\* While the kernel runs.
Running ==
  /\ Sound(disk, used, mem) /\ Table /\ Locks /\ Offsets /\ Written /\ Saved /\ Logging
  /\ \A p \in Procs : Chunking(p)

\* The inductive invariant.
IInv == Typed /\ (phase = "mkfs" => Making) /\ (phase = "kernel" => Running)
-----------------------------------------------------------------------------
(* Arithmetic and counting                                                 *)

\* Multiples of b are b apart.
LEMMA Multiples ==
  ASSUME NEW b \in Nat, NEW x \in Nat, NEW y \in Nat, x < y
  PROVE  x * b + b <= y * b /\ x * b \in Nat /\ y * b \in Nat
<1>1. y - (x + 1) \in Nat
  OBVIOUS
<1>2. (y - (x + 1)) * b >= 0
  BY <1>1
<1>3. (y - (x + 1)) * b = y * b - x * b - b
  OBVIOUS
<1>4. x * b \in Nat /\ y * b \in Nat
  OBVIOUS
<1> QED BY <1>2, <1>3, <1>4

\* Block and place of a unit.
LEMMA Quotient ==
  ASSUME NEW b \in Nat \ {0}, NEW n \in Nat
  PROVE  /\ n \div b \in Nat /\ n % b \in 0 .. b - 1 /\ (n \div b) * b \in Nat
         /\ n = (n \div b) * b + (n % b)
<1>1. n \div b \in Nat /\ n % b \in 0 .. b - 1 /\ n % b = n - b * (n \div b)
  OBVIOUS
<1>2. b * (n \div b) = (n \div b) * b /\ (n \div b) * b \in Nat
  BY <1>1
<1> QED BY <1>1, <1>2

\* They determine it.
LEMMA SamePlace ==
  ASSUME NEW b \in Nat \ {0}, NEW m \in Nat, NEW n \in Nat, m \div b = n \div b, m % b = n % b
  PROVE  m = n
<1>1. m = (m \div b) * b + (m % b) /\ n = (n \div b) * b + (n % b)
  BY Quotient
<1> QED BY <1>1

\* They are unique.
LEMMA QuotientIs ==
  ASSUME NEW b \in Nat \ {0}, NEW q \in Nat, NEW r \in 0 .. b - 1, NEW n \in Nat, n = q * b + r
  PROVE  n \div b = q /\ n % b = r
<1> DEFINE d == n \div b
           e == n % b
<1>1. d \in Nat /\ e \in 0 .. b - 1 /\ d * b \in Nat /\ n = d * b + e
  BY Quotient
<1> HIDE DEF d, e
<1>2. q * b \in Nat
  OBVIOUS
<1>3. ~(d < q)
  BY <1>1, <1>2, Multiples
<1>4. ~(q < d)
  BY <1>1, <1>2, Multiples
<1>5. d = q
  BY <1>1, <1>3, <1>4
<1> QED BY <1>1, <1>2, <1>5 DEF d, e

\* A unit is before block k or not.
LEMMA Before ==
  ASSUME NEW b \in Nat \ {0}, NEW n \in Nat, NEW k \in Nat
  PROVE  k * b \in Nat /\ (k * b <= n <=> k <= n \div b) /\ (n < k * b <=> n \div b < k)
<1> DEFINE d == n \div b
           e == n % b
<1>1. d \in Nat /\ e \in 0 .. b - 1 /\ d * b \in Nat /\ n = d * b + e
  BY Quotient
<1> HIDE DEF d, e
<1>2. k * b \in Nat
  OBVIOUS
<1>3. d < k => d * b + b <= k * b
  BY <1>1, Multiples
<1>4. k < d => k * b + b <= d * b
  BY <1>1, Multiples
<1>5. k * b <= n <=> k <= d
  BY <1>1, <1>2, <1>3, <1>4
<1> QED BY <1>1, <1>2, <1>5 DEF d

\* The block of a unit before n is one before place n.
LEMMA Within ==
  ASSUME NEW b \in Nat \ {0}, NEW n \in Nat, NEW m \in Nat, m <= n * b, NEW k \in Nat, k < m
  PROVE  /\ k \div b \in 0 .. n - 1 /\ k % b \in 0 .. b - 1
         /\ (k \div b) * b \in Nat /\ (k \div b) * b <= k /\ (k \div b) * b < m
<1> DEFINE d == k \div b
           e == k % b
<1>1. d \in Nat /\ e \in 0 .. b - 1 /\ d * b \in Nat /\ k = d * b + e
  BY Quotient
<1> HIDE DEF d, e
<1>2. n * b \in Nat /\ k < n * b
  OBVIOUS
<1>3. ~(n < d)
  BY <1>1, <1>2, Multiples
<1>4. d # n
  BY <1>1, <1>2
<1>5. d \in 0 .. n - 1
  BY <1>1, <1>3, <1>4
<1> QED BY <1>1, <1>5 DEF d, e

\* A set of numbers has a least one.
LEMMA LeastNatural ==
  ASSUME NEW S \in SUBSET Nat, S # {}
  PROVE  \E m \in S : \A k \in S : m <= k
<1> DEFINE T == {1 .. n : n \in S}
<1>1. IsWellFoundedOn(StrictSubsetOrdering(Nat), FiniteSubsetsOf(Nat))
  BY FS_StrictSubsetOrderingWellFounded
<1>2. T \subseteq FiniteSubsetsOf(Nat) /\ T # {}
  <2>1. \A n \in S : 1 .. n \in SUBSET Nat /\ IsFiniteSet(1 .. n)
    BY FS_Interval
  <2> QED BY <2>1 DEF FiniteSubsetsOf
<1>3. PICK x \in T : \A y \in T : ~(<<y, x>> \in StrictSubsetOrdering(Nat))
  <2> HIDE DEF T
  <2> QED BY <1>1, <1>2, WFMin
<1>4. PICK m \in S : x = 1 .. m
  OBVIOUS
<1>5. ASSUME NEW k \in S, k < m PROVE FALSE
  <2>1. 1 .. k \in T
    OBVIOUS
  <2>2. 1 .. k \in SUBSET Nat /\ 1 .. m \in SUBSET Nat /\ 1 .. k \subseteq 1 .. m
    BY <1>5
  <2>3. m \in 1 .. m /\ m \notin 1 .. k
    BY <1>5
  <2>4. <<1 .. k, 1 .. m>> \in StrictSubsetOrdering(Nat)
    BY <2>2, <2>3 DEF StrictSubsetOrdering
  <2> QED BY <2>1, <2>4, <1>3, <1>4
<1> QED BY <1>5

\* As many values as arguments, if they are different.
LEMMA CountImage ==
  ASSUME NEW S, IsFiniteSet(S), NEW f, f \in [S -> Nat],
         \A x, y \in S : f[x] = f[y] => x = y
  PROVE  IsFiniteSet({f[x] : x \in S}) /\ Cardinality({f[x] : x \in S}) = Cardinality(S)
<1> DEFINE T == {f[x] : x \in S}
<1>1. f \in Bijection(S, T)
  BY DEF Bijection, Injection, Surjection, IsInjective
<1>2. ExistsBijection(S, T)
  BY <1>1 DEF ExistsBijection
<1> HIDE DEF T
<1>3. IsFiniteSet(T) /\ Cardinality(T) = Cardinality(S)
  BY <1>2, FS_Bijection
<1> QED BY <1>3 DEF T

-----------------------------------------------------------------------------
(* Blocks                                                                  *)

\* The places of an inode.
LEMMA PlacesFacts ==
  /\ MAXFILE \in Nat \ {0} /\ NDIRECT \in 0 .. MAXFILE - 1 /\ MAXFILE \in Places /\ NDIRECT \in Nat
  /\ 0 .. MAXFILE - 1 \subseteq Places /\ BSIZE \in Nat \ {0}
  /\ \A k \in Places : k \in Nat /\ (k # MAXFILE => k \in 0 .. MAXFILE - 1)
  /\ \A k \in 0 .. MAXFILE - 1 : k \in Nat /\ k # MAXFILE /\ (~(k < NDIRECT) => k - NDIRECT \in Unit)
  /\ \A k \in 0 .. MAXFILE - 1 : k < NDIRECT => k \in 0 .. NDIRECT
  /\ NDIRECT \in 0 .. NDIRECT
  BY FilesAssumption DEF MAXFILE, Places, Unit

\* Addresses are numbers, of blocks that are in use, or 0.
LEMMA AtFacts ==
  ASSUME NEW dsk \in Disk, NEW u, NEW D \in [Inodes -> Dinode], Sound(dsk, u, D)
  PROVE  /\ 0 \in u
         /\ \A i \in Inodes, k \in Places :
              At(dsk, D[i], k) \in Nat /\ At(dsk, D[i], k) \in u
              /\ (At(dsk, D[i], k) # 0 => At(dsk, D[i], k) \in Blocks)
<1>1. 0 \in u
  BY DEF Sound, nmeta
<1>2. ASSUME NEW i \in Inodes, NEW k \in Places
      PROVE  /\ At(dsk, D[i], k) \in u /\ At(dsk, D[i], k) \in Nat
             /\ (At(dsk, D[i], k) # 0 => At(dsk, D[i], k) \in Blocks)
  <2>1. <<i, k>> \in Inodes \X Places
    OBVIOUS
  <2>2. At(dsk, D[i], k) # 0 => At(dsk, D[i], k) \in u /\ At(dsk, D[i], k) \in Blocks
    BY <2>1 DEF Sound
  <2>3. Blocks \subseteq Nat /\ 0 \in Nat
    BY FilesAssumption DEF Blocks
  <2> QED BY <1>1, <2>2, <2>3
<1> QED BY <1>1, <1>2

\* Inode d gets blocks of its own for place bn.
Grows(dsk, u, d, bn, dsk1, u1, d1, got) ==
  /\ dsk1 \in Disk /\ d1 \in Dinode /\ d1.size = d.size
  /\ \A k \in 0 .. MAXFILE - 1 : k # bn => At(dsk1, d1, k) = At(dsk, d, k)
  /\ At(dsk1, d1, bn) = got
  /\ IF At(dsk, d, bn) # 0 THEN got = At(dsk, d, bn) ELSE got \in Blocks \ u /\ got >= nmeta
  /\ \/ At(dsk1, d1, MAXFILE) = At(dsk, d, MAXFILE)
     \/ /\ At(dsk, d, MAXFILE) = 0 /\ At(dsk1, d1, MAXFILE) \in Blocks \ u
        /\ At(dsk1, d1, MAXFILE) # got /\ At(dsk1, d1, MAXFILE) >= nmeta
  /\ u1 = u \cup {got, At(dsk1, d1, MAXFILE)}
  /\ \A b \in u \cap Blocks : b # At(dsk, d, MAXFILE) => dsk1[b] = dsk[b]

\* Then the blocks are owned as before, and the new ones by it.
Kept(dsk, D, i, bn, dsk1, u1, D1, got) ==
  /\ Sound(dsk1, u1, D1) /\ D1 \in [Inodes -> Dinode] /\ got # 0 /\ got \in Blocks
  /\ At(dsk1, D1[i], bn) = got
  /\ \A j \in Inodes, k \in 0 .. MAXFILE - 1 :
       <<j, k>> # <<i, bn>> => At(dsk1, D1[j], k) = At(dsk, D[j], k)

\* Growing keeps the bitmap and the blocks sound.
LEMMA GrowSound ==
  ASSUME NEW dsk \in Disk, NEW u, NEW D \in [Inodes -> Dinode], Sound(dsk, u, D),
         NEW i \in Inodes, NEW bn \in 0 .. MAXFILE - 1, NEW dsk1, NEW u1, NEW d1, NEW got,
         Grows(dsk, u, D[i], bn, dsk1, u1, d1, got), NEW D1, D1 = [D EXCEPT ![i] = d1]
  PROVE  Kept(dsk, D, i, bn, dsk1, u1, D1, got)
<1> DEFINE O(j, k) == At(dsk, D[j], k)
           N(j, k) == At(dsk1, D1[j], k)
<1>1. D1 \in [Inodes -> Dinode] /\ D1[i] = d1 /\ \A j \in Inodes : j # i => D1[j] = D[j]
  BY DEF Grows
<1>2. /\ 0 \in u /\ bn \in Places /\ bn # MAXFILE /\ MAXFILE \in Places
      /\ \A j \in Inodes, k \in Places : O(j, k) \in u /\ (O(j, k) # 0 => O(j, k) \in Blocks /\ O(j, k) >= nmeta)
  BY AtFacts, PlacesFacts DEF Sound
<1>3. \A j, l \in Inodes : \A k, m \in Places : O(j, k) # 0 /\ O(j, k) = O(l, m) => j = l /\ k = m
  BY DEF Sound
<1>4. ASSUME NEW j \in Inodes, j # i, NEW k \in Places PROVE N(j, k) = O(j, k)
  <2>1. O(j, MAXFILE) = D[j].addrs[NDIRECT] /\ D1[j] = D[j]
    BY <1>1, <1>4 DEF At
  <2>2. O(j, MAXFILE) # 0 => dsk1[O(j, MAXFILE)] = dsk[O(j, MAXFILE)]
    BY <1>2, <1>3, <1>4 DEF Grows
  <2> QED BY <2>1, <2>2 DEF At
<1>5. /\ \A k \in Places : k \notin {bn, MAXFILE} => N(i, k) = O(i, k)
      /\ N(i, bn) = got /\ N(i, MAXFILE) = At(dsk1, d1, MAXFILE)
      /\ IF O(i, bn) # 0 THEN got = O(i, bn) ELSE got \in Blocks \ u /\ got >= nmeta
      /\ \/ N(i, MAXFILE) = O(i, MAXFILE)
         \/ /\ O(i, MAXFILE) = 0 /\ N(i, MAXFILE) \in Blocks \ u /\ N(i, MAXFILE) # got
            /\ N(i, MAXFILE) >= nmeta
      /\ u1 = u \cup {got, N(i, MAXFILE)}
  BY <1>1, PlacesFacts DEF Grows
<1>6. got # 0 /\ got \in Blocks
  BY <1>2, <1>5
<1> HIDE DEF O, N
<1>7. \A j \in Inodes, k \in Places :
        /\ N(j, k) \in u1
        /\ \/ N(j, k) = O(j, k)
           \/ N(j, k) \in Blocks \ u /\ N(j, k) >= nmeta /\ O(j, k) = 0 /\ j = i /\ k \in {bn, MAXFILE}
  BY <1>2, <1>4, <1>5
<1>8. N(i, bn) # N(i, MAXFILE)
  BY <1>2, <1>3, <1>5, <1>6
<1>9. \A j \in Inodes, k \in Places : N(j, k) # 0 => N(j, k) \in Blocks /\ N(j, k) >= nmeta
  BY <1>2, <1>7
<1>10. \A j, l \in Inodes : \A k, m \in Places : N(j, k) # 0 /\ N(j, k) = N(l, m) => j = l /\ k = m
  <2> SUFFICES ASSUME NEW j \in Inodes, NEW l \in Inodes, NEW k \in Places, NEW m \in Places,
                      N(j, k) # 0, N(j, k) = N(l, m)
               PROVE  j = l /\ k = m
    OBVIOUS
  <2>1. CASE N(j, k) = O(j, k) /\ N(l, m) = O(l, m)
    <3>1. O(j, k) # 0 /\ O(j, k) = O(l, m)
      BY <2>1
    <3> QED BY <3>1, <1>3
  <2>2. CASE N(j, k) \notin u
    BY <2>2, <1>2, <1>7, <1>8
  <2> QED BY <2>1, <2>2, <1>2, <1>7
<1>11. u1 = (0 .. nmeta - 1) \cup ({N(ik[1], ik[2]) : ik \in Inodes \X Places} \ {0})
  <2> DEFINE X == {O(ik[1], ik[2]) : ik \in Inodes \X Places}
             Y == {N(ik[1], ik[2]) : ik \in Inodes \X Places}
  <2>1. u = (0 .. nmeta - 1) \cup (X \ {0})
    BY DEF Sound, O
  <2>2. \A y \in Y : y \in u1
    BY <1>7
  <2>3. \A x \in X \ {0} : x \in Y
    <3>1. \A j \in Inodes, k \in Places : O(j, k) # 0 => N(j, k) = O(j, k)
      BY <1>7
    <3> QED BY <3>1
  <2>4. <<i, bn>> \in Inodes \X Places /\ <<i, MAXFILE>> \in Inodes \X Places
    BY <1>2
  <2>5. got \in Y /\ N(i, MAXFILE) \in Y
    BY <2>4, <1>5
  <2>6. 0 \in 0 .. nmeta - 1
    BY DEF nmeta
  <2> HIDE DEF X, Y
  <2>7. u1 = (0 .. nmeta - 1) \cup (Y \ {0})
    BY <2>1, <2>2, <2>3, <2>5, <2>6, <1>5, <1>2
  <2> QED BY <2>7 DEF Y
<1>12. Sound(dsk1, u1, D1)
  BY <1>9, <1>10, <1>11 DEF Sound, N
<1>13. \A j \in Inodes, k \in 0 .. MAXFILE - 1 : <<j, k>> # <<i, bn>> => N(j, k) = O(j, k)
  BY <1>4, <1>5, PlacesFacts
<1> QED BY <1>1, <1>5, <1>6, <1>12, <1>13 DEF N, O, Kept

\* Contents are written to the block at place bn of i.
Stored(dsk, u, D, i, bn, units, dsk1) ==
  /\ dsk1 \in Disk /\ Sound(dsk1, u, D) /\ dsk1[At(dsk, D[i], bn)] = units
  /\ \A j \in Inodes, k \in Places : At(dsk1, D[j], k) = At(dsk, D[j], k)
  /\ \A j \in Inodes, k \in 0 .. MAXFILE - 1 : <<j, k>> # <<i, bn>> /\ At(dsk, D[j], k) # 0 =>
       dsk1[At(dsk, D[j], k)] = dsk[At(dsk, D[j], k)]

\* So does writing to a block that is there.
LEMMA WriteSound ==
  ASSUME NEW dsk \in Disk, NEW u, NEW D \in [Inodes -> Dinode], Sound(dsk, u, D),
         NEW i \in Inodes, NEW bn \in 0 .. MAXFILE - 1, NEW units \in BlockData,
         At(dsk, D[i], bn) # 0,
         NEW dsk1, dsk1 = [dsk EXCEPT ![At(dsk, D[i], bn)] = units]
  PROVE  Stored(dsk, u, D, i, bn, units, dsk1)
<1> DEFINE O(j, k) == At(dsk, D[j], k)
<1>1. /\ bn \in Places /\ bn # MAXFILE /\ MAXFILE \in Places /\ 0 .. MAXFILE - 1 \subseteq Places
      /\ \A j \in Inodes, k \in Places : O(j, k) # 0 => O(j, k) \in Blocks
  BY AtFacts, PlacesFacts
<1>2. \A j, l \in Inodes : \A k, m \in Places : O(j, k) # 0 /\ O(j, k) = O(l, m) => j = l /\ k = m
  BY DEF Sound
<1>3. /\ dsk1 \in Disk /\ dsk1[O(i, bn)] = units
      /\ \A b \in Blocks : b # O(i, bn) => dsk1[b] = dsk[b]
  BY <1>1 DEF Disk
<1>4. \A j \in Inodes, k \in Places : <<j, k>> # <<i, bn>> /\ O(j, k) # 0 => dsk1[O(j, k)] = dsk[O(j, k)]
  <2> HIDE DEF O
  <2> QED BY <1>1, <1>2, <1>3
<1>5. ASSUME NEW j \in Inodes, NEW k \in Places PROVE At(dsk1, D[j], k) = O(j, k)
  <2>1. O(j, MAXFILE) = D[j].addrs[NDIRECT]
    BY DEF At
  <2>2. O(j, MAXFILE) # 0 => dsk1[O(j, MAXFILE)] = dsk[O(j, MAXFILE)]
    BY <1>1, <1>4
  <2> QED BY <2>1, <2>2 DEF At
<1>6. Sound(dsk1, u, D)
  <2>1. \A j \in Inodes, k \in Places : At(dsk1, D[j], k) = At(dsk, D[j], k)
    BY <1>5
  <2>2. {At(dsk1, D[ik[1]], ik[2]) : ik \in Inodes \X Places} = {At(dsk, D[ik[1]], ik[2]) : ik \in Inodes \X Places}
    BY <2>1
  <2>3. \A j \in Inodes, k \in Places :
          At(dsk1, D[j], k) # 0 => At(dsk1, D[j], k) \in Blocks /\ At(dsk1, D[j], k) >= nmeta
    BY <2>1 DEF Sound
  <2>4. \A j, l \in Inodes : \A k, m \in Places :
          At(dsk1, D[j], k) # 0 /\ At(dsk1, D[j], k) = At(dsk1, D[l], m) => j = l /\ k = m
    BY <2>1, <1>2
  <2> QED BY <2>2, <2>3, <2>4 DEF Sound
<1> QED BY <1>1, <1>3, <1>4, <1>5, <1>6 DEF Stored

\* The blocks of an inode.
AllOf(dsk, d) == {At(dsk, d, k) : k \in Places} \ {0}

\* Inode i gives its blocks back.
LEMMA FreeSound ==
  ASSUME NEW dsk \in Disk, NEW u, NEW D \in [Inodes -> Dinode], Sound(dsk, u, D),
         NEW i \in Inodes, NEW D1, D1 = [D EXCEPT ![i] = NewInode],
         NEW u1, u1 = u \ AllOf(dsk, D[i])
  PROVE  /\ Sound(dsk, u1, D1) /\ D1 \in [Inodes -> Dinode]
         /\ \A k \in Places : At(dsk, D1[i], k) = 0
<1> DEFINE O(j, k) == At(dsk, D[j], k)
           N(j, k) == At(dsk, D1[j], k)
<1>1. NewInode \in Dinode /\ D1 \in [Inodes -> Dinode] /\ D1[i] = NewInode
      /\ \A j \in Inodes : j # i => D1[j] = D[j]
  BY FilesAssumption DEF NewInode, Dinode
<1>2. \A k \in Places : N(i, k) = 0
  BY <1>1, PlacesFacts DEF NewInode, At
<1>3. \A j \in Inodes, k \in Places : j # i => N(j, k) = O(j, k)
  BY <1>1
<1>4. \A j, l \in Inodes : \A k, m \in Places : O(j, k) # 0 /\ O(j, k) = O(l, m) => j = l /\ k = m
  BY DEF Sound
<1>5. \A j \in Inodes, k \in Places : O(j, k) # 0 => O(j, k) \in Blocks /\ O(j, k) >= nmeta
  BY DEF Sound
<1>6. u1 = (0 .. nmeta - 1) \cup ({N(ik[1], ik[2]) : ik \in Inodes \X Places} \ {0})
  <2> DEFINE X == {O(ik[1], ik[2]) : ik \in Inodes \X Places}
             Y == {N(ik[1], ik[2]) : ik \in Inodes \X Places}
             Z == {O(i, k) : k \in Places}
  <2>1. u = (0 .. nmeta - 1) \cup (X \ {0}) /\ u1 = u \ (Z \ {0})
    BY DEF Sound, AllOf
  <2> HIDE DEF O, N
  <2>2. \A b \in Z \ {0} : b \notin 0 .. nmeta - 1
    BY <1>5 DEF nmeta, Blocks
  <2>3. \A b \in X \ {0} : b \in Z \/ b \in Y
    BY <1>3
  <2>4. \A b \in Y \ {0} : b \in X /\ b \notin Z
    BY <1>2, <1>3, <1>4
  <2> HIDE DEF X, Y, Z
  <2>5. u1 = (0 .. nmeta - 1) \cup (Y \ {0})
    BY <2>1, <2>2, <2>3, <2>4
  <2> QED BY <2>5 DEF Y
<1> HIDE DEF O, N
<1>7. \A j \in Inodes, k \in Places : N(j, k) # 0 => N(j, k) \in Blocks /\ N(j, k) >= nmeta
  BY <1>2, <1>3, <1>5
<1>8. \A j, l \in Inodes : \A k, m \in Places : N(j, k) # 0 /\ N(j, k) = N(l, m) => j = l /\ k = m
  BY <1>2, <1>3, <1>4
<1> QED BY <1>1, <1>2, <1>6, <1>7, <1>8 DEF Sound, N

\* Address, BlocksOf and itrunc, by places.
LEMMA ByPlaces ==
  ASSUME NEW d \in Dinode
  PROVE  /\ \A k \in 0 .. MAXFILE - 1 : Address(d, k) = At(disk, d, k)
         /\ InUse(d) = {k \in 0 .. MAXFILE - 1 : At(disk, d, k) # 0}
         /\ BlocksOf(d) = AllOf(disk, d) /\ itrunc(d) = AllOf(disk, d)
<1>1. \A k \in 0 .. MAXFILE - 1 : Address(d, k) = At(disk, d, k)
  BY PlacesFacts DEF Address, At
<1>2. InUse(d) = {k \in 0 .. MAXFILE - 1 : At(disk, d, k) # 0}
  BY <1>1 DEF InUse
<1>3. BlocksOf(d) = AllOf(disk, d)
  <2>1. At(disk, d, MAXFILE) = d.addrs[NDIRECT]
    BY DEF At
  <2>2. \A k \in Places : k \in 0 .. MAXFILE - 1 \/ k = MAXFILE
    BY PlacesFacts
  <2>3. \A b \in BlocksOf(d) : b \in AllOf(disk, d)
    BY <1>1, <1>2, <2>1, PlacesFacts DEF BlocksOf, AllOf
  <2>4. ASSUME NEW k \in Places, At(disk, d, k) # 0 PROVE At(disk, d, k) \in BlocksOf(d)
    <3>1. CASE k = MAXFILE
      BY <2>1, <2>4, <3>1 DEF BlocksOf
    <3>2. CASE k # MAXFILE
      <4>1. k \in InUse(d) /\ Address(d, k) = At(disk, d, k)
        BY <1>1, <1>2, <2>2, <2>4, <3>2
      <4> QED BY <4>1 DEF BlocksOf
    <3> QED BY <3>1, <3>2
  <2> QED BY <2>3, <2>4 DEF AllOf
<1> QED BY <1>1, <1>2, <1>3 DEF BlocksOf, itrunc

\* Two sets without a common element.
LEMMA CountBoth ==
  ASSUME NEW S, IsFiniteSet(S), NEW T, IsFiniteSet(T), S \cap T = {}
  PROVE  IsFiniteSet(S \cup T) /\ Cardinality(S \cup T) = Cardinality(S) + Cardinality(T)
<1>1. Cardinality(S \cap T) = 0 /\ Cardinality(S) \in Nat /\ Cardinality(T) \in Nat
  BY FS_EmptySet, FS_CardinalityType
<1>2. IsFiniteSet(S \cup T) /\ Cardinality(S \cup T) = Cardinality(S) + Cardinality(T) - Cardinality(S \cap T)
  BY FS_Union
<1> QED BY <1>1, <1>2

\* What Sound says of the bitmap, in numbers.
LEMMA CountBlocks ==
  ASSUME NEW dsk \in Disk, NEW u, NEW D \in [Inodes -> Dinode], Sound(dsk, u, D), NEW i \in Inodes,
         NEW inuse, inuse = {k \in 0 .. MAXFILE - 1 : At(dsk, D[i], k) # 0}
  PROVE  /\ IsFiniteSet(AllOf(dsk, D[i]))
         /\ Cardinality(AllOf(dsk, D[i])) =
              Cardinality(inuse) + (IF D[i].addrs[NDIRECT] # 0 THEN 1 ELSE 0)
         /\ Cardinality(AllOf(dsk, D[i])) \in Nat
<1> DEFINE P == {k \in Places : At(dsk, D[i], k) # 0}
           f == [k \in P |-> At(dsk, D[i], k)]
<1>1. IsFiniteSet(inuse) /\ Cardinality(inuse) \in Nat
  <2>1. MAXFILE - 1 \in Int
    BY PlacesFacts
  <2>2. IsFiniteSet(0 .. MAXFILE - 1)
    BY <2>1, FS_Interval
  <2> QED BY <2>2, FS_Subset, FS_CardinalityType
<1>2. P = IF D[i].addrs[NDIRECT] # 0 THEN inuse \cup {MAXFILE} ELSE inuse
  <2>1. At(dsk, D[i], MAXFILE) = D[i].addrs[NDIRECT]
    BY DEF At
  <2>2. \A k \in Places : k \in 0 .. MAXFILE - 1 \/ k = MAXFILE
    BY PlacesFacts
  <2> QED BY <2>1, <2>2, PlacesFacts
<1>3. MAXFILE \notin inuse
  BY PlacesFacts
<1>4. IsFiniteSet(P) /\ Cardinality(P) = Cardinality(inuse) + (IF D[i].addrs[NDIRECT] # 0 THEN 1 ELSE 0)
  <2> HIDE DEF P
  <2>1. CASE D[i].addrs[NDIRECT] # 0
    BY <1>1, <1>2, <1>3, <2>1, FS_AddElement
  <2>2. CASE D[i].addrs[NDIRECT] = 0
    BY <1>1, <1>2, <2>2
  <2> QED BY <2>1, <2>2
<1>5. f \in [P -> Nat] /\ \A k, l \in P : f[k] = f[l] => k = l
  BY AtFacts DEF Sound
<1>6. {f[k] : k \in P} = AllOf(dsk, D[i])
  BY DEF AllOf
<1> HIDE DEF P, f
<1> QED BY <1>1, <1>4, <1>5, <1>6, CountImage

\* Sound, as BlocksOwnedOnce has it.
LEMMA SoundOwned ==
  ASSUME disk \in Disk, mem \in [Inodes -> Dinode], Sound(disk, used, mem)
  PROVE  /\ used = (0 .. nmeta - 1) \cup UNION {BlocksOf(mem[i]) : i \in Inodes}
         /\ Cardinality(used) = nmeta + Owned(mem[1]) + Owned(mem[2]) + Owned(mem[3])
<1> DEFINE B(i) == AllOf(disk, mem[i])
           meta == 0 .. nmeta - 1
<1>1. Inodes = {1, 2, 3}
  BY DEF Inodes, ROOTINO, First, Second
<1>2. \A i \in Inodes : BlocksOf(mem[i]) = B(i)
  BY ByPlaces
<1>3. used = meta \cup UNION {B(i) : i \in Inodes}
  <2> DEFINE X == {At(disk, mem[ik[1]], ik[2]) : ik \in Inodes \X Places} \ {0}
  <2>1. used = meta \cup X
    BY DEF Sound
  <2>2. ASSUME NEW b \in X PROVE b \in UNION {B(i) : i \in Inodes}
    <3>1. PICK ik \in Inodes \X Places : b = At(disk, mem[ik[1]], ik[2])
      OBVIOUS
    <3>2. b \in B(ik[1]) /\ ik[1] \in Inodes
      BY <3>1 DEF AllOf
    <3> QED BY <3>2
  <2>3. ASSUME NEW i \in Inodes, NEW k \in Places, At(disk, mem[i], k) # 0
        PROVE  At(disk, mem[i], k) \in X
    <3>1. <<i, k>> \in Inodes \X Places
      OBVIOUS
    <3> QED BY <2>3, <3>1
  <2>4. ASSUME NEW i \in Inodes PROVE B(i) \subseteq X
    BY <2>3 DEF AllOf
  <2> HIDE DEF B, X
  <2> QED BY <2>1, <2>2, <2>4
<1>4. \A i \in Inodes : IsFiniteSet(B(i)) /\ Cardinality(B(i)) = Owned(mem[i]) /\ Cardinality(B(i)) \in Nat
  <2> SUFFICES ASSUME NEW i \in Inodes
               PROVE  IsFiniteSet(B(i)) /\ Cardinality(B(i)) = Owned(mem[i]) /\ Cardinality(B(i)) \in Nat
    OBVIOUS
  <2>1. InUse(mem[i]) = {k \in 0 .. MAXFILE - 1 : At(disk, mem[i], k) # 0}
    BY ByPlaces
  <2> QED BY <2>1, CountBlocks DEF Owned
<1>5. \A i, j \in Inodes : i # j => B(i) \cap B(j) = {}
  BY DEF Sound, AllOf
<1>6. \A i \in Inodes : meta \cap B(i) = {}
  <2>1. \A i \in Inodes : \A b \in B(i) : b >= nmeta /\ b \in Blocks
    BY DEF Sound, AllOf
  <2> HIDE DEF B
  <2> QED BY <2>1 DEF nmeta, Blocks
<1>7. IsFiniteSet(meta) /\ Cardinality(meta) = nmeta
  <2>1. 0 \in Int /\ 3 \in Int /\ meta = 0 .. 3 /\ nmeta = 3 - 0 + 1
    BY DEF nmeta
  <2>2. IsFiniteSet(0 .. 3) /\ Cardinality(0 .. 3) = IF 0 > 3 THEN 0 ELSE 3 - 0 + 1
    BY <2>1, FS_Interval
  <2> QED BY <2>1, <2>2
<1> HIDE DEF B, meta
<1>8. used = ((meta \cup B(1)) \cup B(2)) \cup B(3)
  BY <1>1, <1>3
<1> DEFINE S1 == meta \cup B(1)
           S2 == S1 \cup B(2)
<1>9. 1 \in Inodes /\ 2 \in Inodes /\ 3 \in Inodes
  BY <1>1
<1>10. meta \cap B(1) = {} /\ S1 \cap B(2) = {} /\ S2 \cap B(3) = {}
  BY <1>5, <1>6, <1>9
<1>11. IsFiniteSet(S1) /\ Cardinality(S1) = nmeta + Cardinality(B(1))
  BY <1>4, <1>7, <1>9, <1>10, CountBoth DEF nmeta
<1>12. IsFiniteSet(S2) /\ Cardinality(S2) = nmeta + Cardinality(B(1)) + Cardinality(B(2))
  <2> HIDE DEF S1
  <2> QED BY <1>4, <1>9, <1>10, <1>11, CountBoth DEF nmeta
<1>13. Cardinality(S2 \cup B(3)) = nmeta + Cardinality(B(1)) + Cardinality(B(2)) + Cardinality(B(3))
  <2> HIDE DEF S2
  <2> QED BY <1>4, <1>9, <1>10, <1>12, CountBoth DEF nmeta
<1> QED BY <1>2, <1>3, <1>4, <1>8, <1>9, <1>13 DEF meta

-----------------------------------------------------------------------------
(* balloc and bmap                                                         *)

\* What a call works on.
IsState(s) ==
  s = [d |-> s.d, disk |-> s.disk, used |-> s.used, log |-> s.log, got |-> s.got, panic |-> s.panic]

\* The blank block.
LEMMA Blank == Zeroes \in BlockData /\ \A k \in Unit : Zeroes[k] = 0
  BY FilesAssumption DEF Zeroes, BlockData, Unit

\* One block of a disk, one entry of a block, one address of an inode is set.
LEMMA BlockSet ==
  ASSUME NEW dsk \in Disk, NEW b \in Blocks, NEW data \in BlockData, NEW dsk1, dsk1 = [dsk EXCEPT ![b] = data]
  PROVE  dsk1 \in Disk /\ dsk1[b] = data /\ \A c \in Blocks : c # b => dsk1[c] = dsk[c]
  BY DEF Disk

\* The same for an entry.
LEMMA EntrySet ==
  ASSUME NEW dsk \in Disk, NEW b \in Blocks, NEW x \in Unit, NEW v \in Nat, NEW dsk1, dsk1 = [dsk EXCEPT ![b][x] = v]
  PROVE  /\ dsk1 \in Disk /\ dsk1[b][x] = v /\ \A y \in Unit : y # x => dsk1[b][y] = dsk[b][y]
         /\ \A c \in Blocks : c # b => dsk1[c] = dsk[c]
  BY DEF Disk, BlockData

\* The same for an address.
LEMMA AddrSet ==
  ASSUME NEW d \in Dinode, NEW slot \in 0 .. NDIRECT, NEW b \in Nat, NEW e, e = [d EXCEPT !.addrs[slot] = b]
  PROVE  /\ e \in Dinode /\ e.size = d.size /\ e.addrs[slot] = b
         /\ \A k \in 0 .. NDIRECT : k # slot => e.addrs[k] = d.addrs[k]
  BY DEF Dinode

\* dsk1 is dsk with block b blank; e is d with address slot b.
Blanked(dsk, b, dsk1) ==
  dsk1 \in Disk /\ dsk1[b] = Zeroes /\ \A c \in Blocks : c # b => dsk1[c] = dsk[c]
Addressed(d, slot, b, e) ==
  /\ e \in Dinode /\ e.size = d.size /\ e.addrs[slot] = b
  /\ \A k \in 0 .. NDIRECT : k # slot => e.addrs[k] = d.addrs[k]

\* A block that was free.
LEMMA FreeBlock ==
  ASSUME NEW dsk, NEW u, NEW D, Sound(dsk, u, D), NEW b \in Blocks \ u
  PROVE  b # 0 /\ b >= nmeta /\ b \in Nat /\ b \in Blocks
<1>1. b \in Nat /\ b \notin 0 .. nmeta - 1
  BY FilesAssumption DEF Sound, Blocks
<1> QED BY <1>1 DEF nmeta

\* A block that was free, zeroed; or a panic.
Balloced(s, r) ==
  /\ IsState(r) /\ r.d = s.d
  /\ \/ Blocks \ s.used = {} /\ r.panic = TRUE
     \/ /\ r.got \in Blocks \ s.used /\ (s.disk \in Disk => Blanked(s.disk, r.got, r.disk))
        /\ r.used = s.used \cup {r.got} /\ r.log = s.log \cup {BitmapBlock, r.got} /\ r.panic = s.panic

\* balloc finds a free block or panics.
LEMMA BallocFacts ==
  ASSUME NEW s, IsState(s), NEW r, r = balloc(s)
  PROVE  Balloced(s, r)
<1>1. Blocks \ s.used \in SUBSET Nat
  BY FilesAssumption DEF Blocks
<1>2. CASE Blocks \ s.used = {}
  BY <1>2 DEF balloc, IsState, Balloced
<1>3. CASE Blocks \ s.used # {}
  <2> DEFINE b == CHOOSE b \in Blocks \ s.used : \A c \in Blocks \ s.used : b <= c
  <2>1. b \in Blocks \ s.used
    BY <1>1, <1>3, LeastNatural
  <2>2. r = [s EXCEPT !.used = @ \cup {b}, !.disk = [@ EXCEPT ![b] = Zeroes],
                      !.log = @ \cup {BitmapBlock, b}, !.got = b]
    BY <1>3 DEF balloc, bzero
  <2> HIDE DEF b
  <2>3. /\ IsState(r) /\ r.d = s.d /\ r.got = b /\ r.disk = [s.disk EXCEPT ![b] = Zeroes]
        /\ r.used = s.used \cup {b} /\ r.log = s.log \cup {BitmapBlock, b} /\ r.panic = s.panic
    BY <2>2 DEF IsState
  <2>4. ASSUME s.disk \in Disk PROVE Blanked(s.disk, b, r.disk)
    <3>1. PICK dsk, dsk1 : dsk = s.disk /\ dsk1 = r.disk
      OBVIOUS
    <3>2. dsk \in Disk /\ b \in Blocks /\ Zeroes \in BlockData /\ dsk1 = [dsk EXCEPT ![b] = Zeroes]
      BY <2>1, <2>3, <2>4, <3>1, Blank
    <3>3. dsk1 \in Disk /\ dsk1[b] = Zeroes /\ \A c \in Blocks : c # b => dsk1[c] = dsk[c]
      BY <3>2 DEF Disk
    <3> QED BY <3>1, <3>3 DEF Blanked
  <2> QED BY <2>1, <2>3, <2>4 DEF Balloced
<1> QED BY <1>2, <1>3

\* One address of the inode, with a block of its own.
Addresses(s, slot, r) ==
  /\ IsState(r)
  /\ \/ /\ s.d.addrs[slot] # 0 /\ r.d = s.d /\ r.disk = s.disk /\ r.used = s.used
        /\ r.log = s.log /\ r.got = s.d.addrs[slot] /\ r.panic = s.panic
     \/ /\ s.d.addrs[slot] = 0 /\ r.got \in Blocks \ s.used /\ Addressed(s.d, slot, r.got, r.d)
        /\ Blanked(s.disk, r.got, r.disk) /\ r.used = s.used \cup {r.got}
        /\ r.log = s.log \cup {BitmapBlock, r.got} /\ r.panic = s.panic
     \/ r.panic = TRUE

\* An address that is 0 is filled in.
LEMMA AddrSlotFacts ==
  ASSUME NEW s, IsState(s), s.disk \in Disk, s.d \in Dinode, NEW slot \in 0 .. NDIRECT, NEW r, r = AddrSlot(s, slot)
  PROVE  Addresses(s, slot, r)
<1>1. CASE s.d.addrs[slot] # 0
  <2>1. r = [s EXCEPT !.got = s.d.addrs[slot]]
    BY <1>1 DEF AddrSlot
  <2> QED BY <1>1, <2>1 DEF IsState, Addresses
<1>2. CASE s.d.addrs[slot] = 0
  <2>1. PICK s1 : s1 = balloc(s)
    OBVIOUS
  <2>2. r = [s1 EXCEPT !.d.addrs[slot] = s1.got]
    BY <1>2, <2>1 DEF AddrSlot
  <2>3. /\ IsState(s1) /\ s1.d = s.d
        /\ \/ s1.panic = TRUE
           \/ /\ s1.got \in Blocks \ s.used /\ Blanked(s.disk, s1.got, s1.disk)
              /\ s1.used = s.used \cup {s1.got} /\ s1.log = s.log \cup {BitmapBlock, s1.got} /\ s1.panic = s.panic
    <3>1. Balloced(s, s1)
      BY <2>1, BallocFacts
    <3> QED BY <3>1 DEF Balloced
  <2>4. /\ IsState(r) /\ r.d = [s1.d EXCEPT !.addrs[slot] = s1.got] /\ r.disk = s1.disk /\ r.used = s1.used
        /\ r.log = s1.log /\ r.got = s1.got /\ r.panic = s1.panic
    BY <2>2, <2>3 DEF IsState
  <2>5. s1.got \in Blocks => s1.got \in Nat
    BY FilesAssumption DEF Blocks
  <2>6. s1.got \in Blocks => Addressed(s.d, slot, s1.got, r.d)
    BY <2>3, <2>4, <2>5, AddrSet DEF Addressed
  <2> QED BY <1>2, <2>3, <2>4, <2>6 DEF Addresses
<1> QED BY <1>1, <1>2

\* bmap: the place has a block, of its own if it had none.
Mapped(s, d, bn, st) ==
  /\ Grows(s.disk, s.used, d, bn, st.disk, st.used, st.d, st.got)
  /\ st.log \subseteq {BitmapBlock, st.got, st.d.addrs[NDIRECT]} /\ 0 \notin st.log
  /\ At(s.disk, d, bn) # 0 => st.d = d

\* bmap grows the inode or finds the block.
LEMMA BmapGrows ==
  ASSUME NEW s, IsState(s), s.disk \in Disk, NEW D \in [Inodes -> Dinode], Sound(s.disk, s.used, D),
         NEW i \in Inodes, s.d = D[i], s.log = {}, NEW bn \in 0 .. MAXFILE - 1,
         NEW st, st = bmap(s, bn), st.panic # TRUE
  PROVE  Mapped(s, D[i], bn, st)
<1> DEFINE d == D[i]
           a == d.addrs[NDIRECT]
           dsk == s.disk
           u == s.used
<1>1. /\ d \in Dinode /\ s.d = d /\ NDIRECT \in 0 .. NDIRECT
      /\ bn \in Places /\ bn \in Nat /\ bn # MAXFILE /\ MAXFILE \in Places /\ At(dsk, d, MAXFILE) = a
      /\ NDIRECT \in Nat
  BY PlacesFacts DEF At
<1>2. /\ 0 \in u /\ a \in Nat /\ a \in u /\ At(dsk, d, bn) \in u /\ At(dsk, d, bn) \in Nat
      /\ (a # 0 => a \in Blocks)
  BY <1>1, AtFacts
<1>3. \A b \in Blocks \ u : b # 0 /\ b >= nmeta /\ b \in Nat /\ b \in Blocks /\ b # a
  BY <1>2, FreeBlock
<1>4. dsk \in Disk
  OBVIOUS
<1> HIDE DEF d, dsk, u
<1>5. CASE bn < NDIRECT
  <2>1. bn \in 0 .. NDIRECT /\ bn # NDIRECT /\ At(dsk, d, bn) = d.addrs[bn]
    BY <1>5, PlacesFacts DEF At
  <2>2. st = AddrSlot(s, bn)
    BY <1>5 DEF bmap
  <2>3. \/ /\ d.addrs[bn] # 0 /\ st.d = d /\ st.disk = dsk /\ st.used = u
           /\ st.log = {} /\ st.got = d.addrs[bn]
        \/ /\ d.addrs[bn] = 0 /\ st.got \in Blocks \ u /\ Addressed(d, bn, st.got, st.d)
           /\ Blanked(dsk, st.got, st.disk) /\ st.used = u \cup {st.got}
           /\ st.log = {} \cup {BitmapBlock, st.got}
    <3>1. s.d = d /\ s.disk = dsk /\ s.used = u /\ s.log = {} /\ dsk \in Disk /\ d \in Dinode
      BY <1>1, <1>4 DEF dsk, u
    <3>2. IsState(s) /\ s.disk \in Disk /\ s.d \in Dinode
      BY <3>1
    <3>3. \/ /\ s.d.addrs[bn] # 0 /\ st.d = s.d /\ st.disk = s.disk /\ st.used = s.used
             /\ st.log = s.log /\ st.got = s.d.addrs[bn]
          \/ /\ s.d.addrs[bn] = 0 /\ st.got \in Blocks \ s.used /\ Addressed(s.d, bn, st.got, st.d)
             /\ Blanked(s.disk, st.got, st.disk) /\ st.used = s.used \cup {st.got}
             /\ st.log = s.log \cup {BitmapBlock, st.got}
      <4>1. Addresses(s, bn, st)
        BY <2>1, <2>2, <3>2, AddrSlotFacts
      <4> QED BY <4>1 DEF Addresses
    <3> QED BY <3>1, <3>3
  <2>4. CASE d.addrs[bn] # 0
    <3>1. /\ st.d = d /\ st.disk = dsk /\ st.used = u /\ st.log = {} /\ st.got = At(dsk, d, bn)
      BY <2>1, <2>3, <2>4
    <3>2. u = u \cup {At(dsk, d, bn), At(dsk, d, MAXFILE)}
      BY <1>1, <1>2
    <3>3. Grows(dsk, u, d, bn, st.disk, st.used, st.d, st.got)
      BY <1>1, <1>4, <2>1, <2>4, <3>1, <3>2 DEF Grows
    <3> QED BY <3>1, <3>3 DEF d, dsk, u, Mapped
  <2>5. CASE d.addrs[bn] = 0
    <3> DEFINE b == st.got
    <3>1. /\ b \in Blocks \ u /\ Addressed(d, bn, b, st.d)
          /\ Blanked(dsk, b, st.disk) /\ st.used = u \cup {b} /\ st.log = {BitmapBlock, b}
      BY <2>3, <2>5
    <3> HIDE DEF b
    <3>2. b # 0 /\ b >= nmeta /\ b \in Nat /\ b \in Blocks /\ b # a
      BY <1>3, <3>1
    <3>3. /\ st.d \in Dinode /\ st.d.size = d.size /\ st.d.addrs[bn] = b
          /\ \A k \in 0 .. NDIRECT : k # bn => st.d.addrs[k] = d.addrs[k]
      BY <3>1 DEF Addressed
    <3>4. st.disk \in Disk /\ \A c \in Blocks : c # b => st.disk[c] = dsk[c]
      BY <3>1 DEF Blanked
    <3>5. \A k \in 0 .. MAXFILE - 1 : k # bn => At(st.disk, st.d, k) = At(dsk, d, k)
      <4>1. st.d.addrs[NDIRECT] = a /\ (a # 0 => st.disk[a] = dsk[a])
        BY <1>1, <1>2, <2>1, <3>2, <3>3, <3>4
      <4> QED BY <3>3, <4>1, PlacesFacts DEF At
    <3>6. At(st.disk, st.d, bn) = b /\ At(st.disk, st.d, MAXFILE) = a
      BY <1>1, <1>5, <2>1, <3>3 DEF At
    <3>7. u \cup {b} = u \cup {b, a}
      BY <1>2
    <3>8. Grows(dsk, u, d, bn, st.disk, st.used, st.d, b)
      BY <1>1, <2>1, <2>5, <3>1, <3>2, <3>3, <3>4, <3>5, <3>6, <3>7 DEF Grows
    <3>9. At(dsk, d, bn) = 0
      BY <2>1, <2>5
    <3> QED BY <3>1, <3>2, <3>8, <3>9 DEF d, dsk, u, b, BitmapBlock, Mapped
  <2> QED BY <2>4, <2>5
<1>6. CASE ~(bn < NDIRECT)
  <2> DEFINE x == bn - NDIRECT
  <2>1. x \in Unit /\ At(dsk, d, bn) = (IF a = 0 THEN 0 ELSE dsk[a][x])
    BY <1>1, <1>6, PlacesFacts DEF At
  <2>2. PICK s1 : s1 = AddrSlot(s, NDIRECT)
    OBVIOUS
  <2>3. PICK s2 : s2 = balloc(s1)
    OBVIOUS
  <2> DEFINE g == s1.got
             v == s1.disk[g][x]
  <2>4. st = IF v # 0 THEN [s1 EXCEPT !.got = v]
             ELSE [s2 EXCEPT !.disk[g][x] = s2.got, !.log = @ \cup {g}]
    BY <1>6, <2>2, <2>3 DEF bmap
  <2>5. \A k \in 0 .. MAXFILE - 1 : k # bn /\ ~(k < NDIRECT) => k - NDIRECT \in Unit /\ k - NDIRECT # x
    BY <1>1, PlacesFacts
  <2> HIDE DEF x, g, v
  <2>6. /\ IsState(s1)
        /\ \/ /\ a # 0 /\ s1.d = d /\ s1.disk = dsk /\ s1.used = u /\ s1.log = {} /\ g = a
           \/ /\ a = 0 /\ g \in Blocks \ u /\ Addressed(d, NDIRECT, g, s1.d)
              /\ Blanked(dsk, g, s1.disk) /\ s1.used = u \cup {g}
              /\ s1.log = {} \cup {BitmapBlock, g}
           \/ s1.panic = TRUE
    <3>1. s.d = d /\ s.disk = dsk /\ s.used = u /\ s.log = {} /\ dsk \in Disk /\ d \in Dinode
      BY <1>1, <1>4 DEF dsk, u
    <3>2. IsState(s) /\ s.disk \in Disk /\ s.d \in Dinode /\ NDIRECT \in 0 .. NDIRECT
      BY <1>1, <3>1
    <3>3. /\ IsState(s1)
          /\ \/ /\ s.d.addrs[NDIRECT] # 0 /\ s1.d = s.d /\ s1.disk = s.disk /\ s1.used = s.used
                /\ s1.log = s.log /\ s1.got = s.d.addrs[NDIRECT]
             \/ /\ s.d.addrs[NDIRECT] = 0 /\ s1.got \in Blocks \ s.used /\ Addressed(s.d, NDIRECT, s1.got, s1.d)
                /\ Blanked(s.disk, s1.got, s1.disk) /\ s1.used = s.used \cup {s1.got}
                /\ s1.log = s.log \cup {BitmapBlock, s1.got}
             \/ s1.panic = TRUE
      <4>1. Addresses(s, NDIRECT, s1)
        BY <2>2, <3>2, AddrSlotFacts
      <4> QED BY <4>1 DEF Addresses
    <3> QED BY <3>1, <3>3 DEF g
  <2>7. /\ IsState(s2) /\ s2.d = s1.d
        /\ \/ s2.panic = TRUE
           \/ /\ s2.got \in Blocks \ s1.used /\ Blanked(s1.disk, s2.got, s2.disk)
              /\ s2.used = s1.used \cup {s2.got} /\ s2.log = s1.log \cup {BitmapBlock, s2.got}
              /\ s2.panic = s1.panic
    <3>1. s1.panic = TRUE \/ s1.disk \in Disk
      BY <1>4, <2>6 DEF Blanked
    <3>2. CASE s1.disk \in Disk
      <4>1. IsState(s1)
        BY <2>6
      <4>2. /\ IsState(s2) /\ s2.d = s1.d
            /\ \/ s2.panic = TRUE
               \/ /\ s2.got \in Blocks \ s1.used /\ Blanked(s1.disk, s2.got, s2.disk)
                  /\ s2.used = s1.used \cup {s2.got} /\ s2.log = s1.log \cup {BitmapBlock, s2.got}
                  /\ s2.panic = s1.panic
        <5>1. Balloced(s1, s2)
          BY <2>3, <4>1, BallocFacts
        <5> QED BY <3>2, <5>1 DEF Balloced
      <4> QED BY <4>2
    <3>3. CASE s1.panic = TRUE
      <4>1. IsState(s1)
        BY <2>6
      <4>2. IsState(s2) /\ s2.d = s1.d /\ (s2.panic = TRUE \/ s2.panic = s1.panic)
        <5>1. Balloced(s1, s2)
          BY <2>3, <4>1, BallocFacts
        <5> QED BY <5>1 DEF Balloced
      <4> QED BY <3>3, <4>2
    <3> QED BY <3>1, <3>2, <3>3
  <2>8. CASE v # 0
    <3>1. st.d = s1.d /\ st.disk = s1.disk /\ st.used = s1.used /\ st.log = s1.log /\ st.got = v
          /\ st.panic = s1.panic
      BY <2>4, <2>6, <2>8 DEF IsState
    <3>2. a # 0
      <4>1. SUFFICES ASSUME a = 0 PROVE FALSE
        OBVIOUS
      <4>2. s1.disk[g] = Zeroes
        BY <2>6, <3>1, <4>1 DEF Blanked
      <4> QED BY <2>1, <2>8, <4>2, Blank DEF v
    <3>3. /\ st.d = d /\ st.disk = dsk /\ st.used = u /\ st.log = {} /\ st.got = At(dsk, d, bn) /\ st.got # 0
      BY <2>1, <2>6, <2>8, <3>1, <3>2 DEF v
    <3>4. u = u \cup {At(dsk, d, bn), At(dsk, d, MAXFILE)}
      BY <1>1, <1>2
    <3>5. Grows(dsk, u, d, bn, st.disk, st.used, st.d, st.got)
      BY <1>1, <1>4, <2>1, <3>3, <3>4 DEF Grows
    <3> QED BY <3>3, <3>5 DEF d, dsk, u, Mapped
  <2>9. CASE v = 0
    <3> DEFINE b == s2.got
    <3>1. /\ st.d = s2.d /\ st.used = s2.used /\ st.log = s2.log \cup {g} /\ st.got = b /\ st.panic = s2.panic
          /\ st.disk = [s2.disk EXCEPT ![g][x] = b]
      BY <2>4, <2>7, <2>9 DEF IsState
    <3>2. /\ b \in Blocks \ s1.used /\ Blanked(s1.disk, b, s2.disk) /\ s1.panic # TRUE
          /\ s2.used = s1.used \cup {b} /\ s2.log = s1.log \cup {BitmapBlock, b}
      BY <2>7, <3>1
    <3> HIDE DEF b
    <3>3. CASE a # 0
      <4>1. /\ st.d = d /\ st.used = u \cup {b} /\ st.log = {BitmapBlock, b, a} /\ st.got = b
            /\ Blanked(dsk, b, s2.disk) /\ g = a /\ dsk[a][x] = 0
        BY <2>6, <2>7, <2>9, <3>1, <3>2, <3>3 DEF v
      <4>2. b \in Blocks \ u /\ b # 0 /\ b >= nmeta /\ b \in Nat /\ b \in Blocks /\ b # a /\ a \in Blocks
        BY <1>2, <1>3, <2>6, <3>2, <3>3
      <4>3. s2.disk \in Disk /\ \A c \in Blocks : c # b => s2.disk[c] = dsk[c]
        BY <4>1 DEF Blanked
      <4>4. /\ st.disk \in Disk /\ st.disk[a][x] = b
            /\ \A y \in Unit : y # x => st.disk[a][y] = s2.disk[a][y]
            /\ \A c \in Blocks : c # a => st.disk[c] = s2.disk[c]
        <5>1. st.disk = [s2.disk EXCEPT ![a][x] = b]
          BY <3>1, <4>1
        <5>2. s2.disk \in Disk /\ a \in Blocks /\ x \in Unit /\ b \in Nat
          BY <2>1, <4>2, <4>3
        <5> HIDE DEF a
        <5> QED BY <5>1, <5>2, EntrySet
      <4>5. \A k \in 0 .. MAXFILE - 1 : k # bn => At(st.disk, st.d, k) = At(dsk, d, k)
        <5> SUFFICES ASSUME NEW k \in 0 .. MAXFILE - 1, k # bn PROVE At(st.disk, st.d, k) = At(dsk, d, k)
          OBVIOUS
        <5>1. CASE k < NDIRECT
          BY <4>1, <5>1, PlacesFacts DEF At
        <5>2. CASE ~(k < NDIRECT)
          <6>1. k - NDIRECT \in Unit /\ k - NDIRECT # x /\ k # MAXFILE
            BY <2>5, <5>2, PlacesFacts
          <6>2. st.disk[a][k - NDIRECT] = s2.disk[a][k - NDIRECT] /\ s2.disk[a] = dsk[a]
            BY <4>2, <4>3, <4>4, <6>1
          <6> QED BY <4>1, <5>2, <6>1, <6>2, <3>3 DEF At
        <5> QED BY <5>1, <5>2
      <4>6. At(st.disk, st.d, bn) = b /\ At(st.disk, st.d, MAXFILE) = a
        BY <1>1, <1>6, <3>3, <4>1, <4>4 DEF At, x
      <4>7. u \cup {b} = u \cup {b, a} /\ At(dsk, d, bn) = 0
        BY <1>2, <2>1, <4>1
      <4>8. \A c \in u \cap Blocks : c # a => st.disk[c] = dsk[c]
        BY <4>2, <4>3, <4>4
      <4>9. Grows(dsk, u, d, bn, st.disk, st.used, st.d, st.got)
        BY <1>1, <4>1, <4>2, <4>4, <4>5, <4>6, <4>7, <4>8 DEF Grows
      <4> QED BY <3>3, <4>1, <4>2, <4>7, <4>9 DEF d, dsk, u, BitmapBlock, Mapped
    <3>4. CASE a = 0
      <4>1. /\ g \in Blocks \ u /\ Addressed(d, NDIRECT, g, st.d)
            /\ Blanked(dsk, g, s1.disk) /\ s1.used = u \cup {g} /\ s1.log = {BitmapBlock, g}
            /\ b \in Blocks \ (u \cup {g})
        BY <2>6, <2>7, <3>1, <3>2, <3>4
      <4>2. /\ g # 0 /\ g >= nmeta /\ g \in Nat /\ g \in Blocks
            /\ b # 0 /\ b >= nmeta /\ b \in Nat /\ b \in Blocks /\ b # g /\ b \in Blocks \ u
        BY <1>3, <4>1
      <4>3. /\ st.d \in Dinode /\ st.d.size = d.size /\ st.d.addrs[NDIRECT] = g
            /\ \A k \in 0 .. NDIRECT : k # NDIRECT => st.d.addrs[k] = d.addrs[k]
        BY <4>1 DEF Addressed
      <4>4. s1.disk \in Disk /\ s1.disk[g] = Zeroes /\ \A c \in Blocks : c # g => s1.disk[c] = dsk[c]
        BY <4>1 DEF Blanked
      <4>5. s2.disk \in Disk /\ \A c \in Blocks : c # b => s2.disk[c] = s1.disk[c]
        BY <3>2 DEF Blanked
      <4>6. /\ st.disk \in Disk /\ st.disk[g][x] = b
            /\ \A y \in Unit : y # x => st.disk[g][y] = s2.disk[g][y]
            /\ \A c \in Blocks : c # g => st.disk[c] = s2.disk[c]
        BY <2>1, <3>1, <4>2, <4>5, EntrySet
      <4>7. \A y \in Unit : y # x => st.disk[g][y] = 0
        BY <4>2, <4>4, <4>5, <4>6, Blank
      <4>8. \A k \in 0 .. MAXFILE - 1 : k < NDIRECT => k \in 0 .. NDIRECT /\ k # NDIRECT
        BY PlacesFacts
      <4>9. \A k \in 0 .. MAXFILE - 1 : k # bn => At(st.disk, st.d, k) = At(dsk, d, k)
        BY <2>5, <3>4, <4>2, <4>3, <4>7, <4>8 DEF At
      <4>10. At(st.disk, st.d, bn) = b /\ At(st.disk, st.d, MAXFILE) = g
        BY <1>1, <1>6, <4>2, <4>3, <4>6 DEF At, x
      <4>11. At(dsk, d, bn) = 0 /\ At(dsk, d, MAXFILE) = 0
        BY <1>1, <2>1, <3>4
      <4>12. st.used = u \cup {b, g} /\ st.got = b /\ st.log \subseteq {BitmapBlock, b, g} /\ 0 \notin st.log
        BY <3>1, <3>2, <4>1, <4>2 DEF BitmapBlock
      <4>13. \A c \in u \cap Blocks : st.disk[c] = dsk[c]
        BY <4>1, <4>2, <4>4, <4>5, <4>6
      <4>14. Grows(dsk, u, d, bn, st.disk, st.used, st.d, st.got)
        BY <4>1, <4>2, <4>3, <4>6, <4>9, <4>10, <4>11, <4>12, <4>13 DEF Grows
      <4> QED BY <4>3, <4>11, <4>12, <4>14 DEF d, dsk, u, Mapped
    <3> QED BY <3>3, <3>4
  <2> QED BY <2>8, <2>9
<1> QED BY <1>5, <1>6

\* Then units are written to that block.
Wrote(dsk, D, i, bn, dsk1, got, units, dsk2, u1, D1) ==
  /\ dsk2 \in Disk /\ D1 \in [Inodes -> Dinode] /\ Sound(dsk2, u1, D1)
  /\ got \in Blocks /\ got # 0 /\ At(dsk2, D1[i], bn) = got
  /\ At(dsk, D[i], bn) # 0 => got = At(dsk, D[i], bn) /\ dsk1[got] = dsk[got]
  /\ \A j \in Inodes, k \in Places : At(dsk, D[j], k) # 0 => At(dsk2, D1[j], k) = At(dsk, D[j], k)
  /\ \A off \in Nat : off \div BSIZE = bn => UnitAt(dsk2, D1[i], off) = units[off % BSIZE]
  /\ \A j \in Inodes, off \in Nat :
       /\ off \div BSIZE \in 0 .. MAXFILE - 1 /\ At(dsk, D[j], off \div BSIZE) # 0
       /\ <<j, off \div BSIZE>> # <<i, bn>>
       => UnitAt(dsk2, D1[j], off) = UnitAt(dsk, D[j], off)

\* After it the unit written is read, and the others are as before.
LEMMA GrowWrite ==
  ASSUME NEW dsk \in Disk, NEW u, NEW D \in [Inodes -> Dinode], Sound(dsk, u, D),
         NEW i \in Inodes, NEW bn \in 0 .. MAXFILE - 1, NEW dsk1, NEW u1, NEW d1, NEW got,
         Grows(dsk, u, D[i], bn, dsk1, u1, d1, got), NEW D1, D1 = [D EXCEPT ![i] = d1],
         NEW units \in BlockData, NEW dsk2, dsk2 = [dsk1 EXCEPT ![got] = units]
  PROVE  Wrote(dsk, D, i, bn, dsk1, got, units, dsk2, u1, D1)
<1>1. /\ Sound(dsk1, u1, D1) /\ D1 \in [Inodes -> Dinode] /\ got # 0 /\ got \in Blocks
      /\ At(dsk1, D1[i], bn) = got /\ dsk1 \in Disk
      /\ \A j \in Inodes, k \in 0 .. MAXFILE - 1 :
           <<j, k>> # <<i, bn>> => At(dsk1, D1[j], k) = At(dsk, D[j], k)
  <2>1. Kept(dsk, D, i, bn, dsk1, u1, D1, got)
    BY GrowSound
  <2>2. dsk1 \in Disk
    BY DEF Grows
  <2> QED BY <2>1, <2>2 DEF Kept
<1>2. /\ dsk2 \in Disk /\ Sound(dsk2, u1, D1) /\ dsk2[got] = units
      /\ \A j \in Inodes, k \in Places : At(dsk2, D1[j], k) = At(dsk1, D1[j], k)
      /\ \A j \in Inodes, k \in 0 .. MAXFILE - 1 : <<j, k>> # <<i, bn>> /\ At(dsk1, D1[j], k) # 0 =>
           dsk2[At(dsk1, D1[j], k)] = dsk1[At(dsk1, D1[j], k)]
  <2>1. dsk2 = [dsk1 EXCEPT ![At(dsk1, D1[i], bn)] = units] /\ At(dsk1, D1[i], bn) # 0
    BY <1>1
  <2>2. Stored(dsk1, u1, D1, i, bn, units, dsk2)
    BY <1>1, <2>1, WriteSound
  <2> QED BY <1>1, <2>2 DEF Stored
<1>3. /\ bn \in Places /\ bn # MAXFILE /\ MAXFILE \in Places /\ 0 .. MAXFILE - 1 \subseteq Places
      /\ \A k \in Places : k = MAXFILE \/ k \in 0 .. MAXFILE - 1
  BY PlacesFacts
<1>4. /\ \A j \in Inodes, k \in Places : At(dsk, D[j], k) # 0 => At(dsk, D[j], k) \in u \cap Blocks
      /\ \A j, l \in Inodes : \A k, m \in Places : At(dsk, D[j], k) # 0 /\ At(dsk, D[j], k) = At(dsk, D[l], m) => j = l /\ k = m
  BY AtFacts DEF Sound
<1>5. /\ D1[i] = d1 /\ (\A j \in Inodes : j # i => D1[j] = D[j])
      /\ IF At(dsk, D[i], bn) # 0 THEN got = At(dsk, D[i], bn) ELSE got \in Blocks \ u
      /\ At(dsk, D[i], MAXFILE) # 0 => At(dsk1, D1[i], MAXFILE) = At(dsk, D[i], MAXFILE)
      /\ \A b \in u \cap Blocks : b # At(dsk, D[i], MAXFILE) => dsk1[b] = dsk[b]
  BY DEF Grows
<1>6. \A j \in Inodes, k \in 0 .. MAXFILE - 1 : At(dsk, D[j], k) # 0 => dsk1[At(dsk, D[j], k)] = dsk[At(dsk, D[j], k)]
  BY <1>3, <1>4, <1>5
<1>7. ASSUME NEW j \in Inodes, NEW k \in Places, At(dsk, D[j], k) # 0
      PROVE  At(dsk2, D1[j], k) = At(dsk, D[j], k)
  <2>1. CASE k = MAXFILE
    <3>1. j # i => At(dsk1, D1[j], MAXFILE) = At(dsk, D[j], MAXFILE)
      BY <1>5 DEF At
    <3> QED BY <1>2, <1>5, <1>7, <2>1, <3>1
  <2>2. CASE k \in 0 .. MAXFILE - 1
    <3>1. CASE j = i /\ k = bn
      BY <1>1, <1>2, <1>5, <1>7, <3>1
    <3>2. CASE <<j, k>> # <<i, bn>>
      <4>1. At(dsk1, D1[j], k) = At(dsk, D[j], k)
        BY <1>1, <2>2, <3>2
      <4> QED BY <1>2, <4>1
    <3> QED BY <3>1, <3>2
  <2> QED BY <1>3, <2>1, <2>2
<1>8. At(dsk2, D1[i], bn) = got
  BY <1>1, <1>2, <1>3
<1>9. \A off \in Nat : off \div BSIZE = bn => UnitAt(dsk2, D1[i], off) = units[off % BSIZE]
  BY <1>2, <1>8 DEF UnitAt
<1>10. ASSUME NEW j \in Inodes, NEW off \in Nat, off \div BSIZE \in 0 .. MAXFILE - 1,
              At(dsk, D[j], off \div BSIZE) # 0, <<j, off \div BSIZE>> # <<i, bn>>
       PROVE  UnitAt(dsk2, D1[j], off) = UnitAt(dsk, D[j], off)
  <2> DEFINE k == off \div BSIZE
             b == At(dsk, D[j], k)
  <2>1. k \in 0 .. MAXFILE - 1 /\ k \in Places /\ b # 0 /\ <<j, k>> # <<i, bn>>
    BY <1>3, <1>10
  <2> HIDE DEF k
  <2>2. At(dsk1, D1[j], k) = b /\ At(dsk2, D1[j], k) = b
    <3>1. At(dsk1, D1[j], k) = At(dsk, D[j], k)
      BY <1>1, <2>1, Zenon
    <3> QED BY <1>2, <2>1, <3>1
  <2>3. dsk2[b] = dsk1[b] /\ dsk1[b] = dsk[b]
    BY <1>2, <1>6, <2>1, <2>2
  <2> QED BY <2>2, <2>3 DEF UnitAt, k
<1>11. At(dsk, D[i], bn) # 0 => got = At(dsk, D[i], bn) /\ dsk1[got] = dsk[got]
  BY <1>5, <1>6
<1> QED BY <1>1, <1>2, <1>7, <1>8, <1>9, <1>10, <1>11 DEF Wrote

\* Sizes do not matter.
Same(dsk, D, E) ==
  \A i \in Inodes : (\A k \in Places : At(dsk, E[i], k) = At(dsk, D[i], k))
                   /\ \A off : UnitAt(dsk, E[i], off) = UnitAt(dsk, D[i], off)

\* Sizes do not matter to it.
LEMMA SizeSound ==
  ASSUME NEW dsk, NEW u, NEW D, Sound(dsk, u, D), NEW E, \A i \in Inodes : E[i].addrs = D[i].addrs
  PROVE  Sound(dsk, u, E) /\ Same(dsk, D, E)
<1>1. \A i \in Inodes : \A k : At(dsk, E[i], k) = At(dsk, D[i], k)
  BY DEF At
<1>2. {At(dsk, E[ik[1]], ik[2]) : ik \in Inodes \X Places} = {At(dsk, D[ik[1]], ik[2]) : ik \in Inodes \X Places}
  BY <1>1
<1>3. Sound(dsk, u, E)
  <2>1. \A i \in Inodes, k \in Places : At(dsk, E[i], k) # 0 => At(dsk, E[i], k) \in Blocks /\ At(dsk, E[i], k) >= nmeta
    BY <1>1 DEF Sound
  <2>2. \A i, j \in Inodes : \A k, l \in Places :
          At(dsk, E[i], k) # 0 /\ At(dsk, E[i], k) = At(dsk, E[j], l) => i = j /\ k = l
    BY <1>1 DEF Sound
  <2> QED BY <1>2, <2>1, <2>2 DEF Sound
<1> QED BY <1>1, <1>3 DEF Same, UnitAt

-----------------------------------------------------------------------------
(* mkfs                                                                    *)

\* iappend finds or takes block b, behind the address g, for place bn of d.
Finds(dsk, n, d, bn, slot, g, m, b, n1, ind, d1) ==
  /\ slot = (IF bn < NDIRECT THEN bn ELSE NDIRECT)
  /\ Fresh(n, d.addrs[slot]) = [got |-> g, free |-> m]
  /\ IF bn < NDIRECT THEN b = g /\ n1 = m /\ ind = dsk
     ELSE /\ Fresh(m, dsk[g][bn - NDIRECT]) = [got |-> b, free |-> n1]
          /\ ind = [dsk EXCEPT ![g][bn - NDIRECT] = b]
  /\ d1.size = d.size /\ d1.addrs = [d.addrs EXCEPT ![slot] = g]

Fills(dsk, n, d, bn, b, n1, ind, d1) ==
  /\ Grows(dsk, Taken(n), d, bn, ind, Taken(n1), d1, b)
  /\ n1 \in Nat /\ n1 >= n /\ BlankFrom(ind, n1) /\ b < n1

\* iappend grows the inode too.
LEMMA FreshGrows ==
  ASSUME NEW dsk \in Disk, NEW n \in Nat, n >= nmeta, BlankFrom(dsk, n),
         NEW D \in [Inodes -> Dinode], Sound(dsk, Taken(n), D),
         NEW i \in Inodes, NEW bn \in 0 .. MAXFILE - 1, NEW slot, NEW g \in Blocks, NEW m,
         NEW b \in Blocks, NEW n1, NEW ind, NEW d1 \in Dinode,
         Finds(dsk, n, D[i], bn, slot, g, m, b, n1, ind, d1)
  PROVE  Fills(dsk, n, D[i], bn, b, n1, ind, d1)
<1>1. /\ slot = (IF bn < NDIRECT THEN bn ELSE NDIRECT)
      /\ Fresh(n, D[i].addrs[slot]) = [got |-> g, free |-> m]
      /\ IF bn < NDIRECT THEN b = g /\ n1 = m /\ ind = dsk
         ELSE /\ Fresh(m, dsk[g][bn - NDIRECT]) = [got |-> b, free |-> n1]
              /\ ind = [dsk EXCEPT ![g][bn - NDIRECT] = b]
      /\ d1.size = D[i].size /\ d1.addrs = [D[i].addrs EXCEPT ![slot] = g]
  BY DEF Finds
<1> SUFFICES /\ Grows(dsk, Taken(n), D[i], bn, ind, Taken(n1), d1, b)
             /\ n1 \in Nat /\ n1 >= n /\ BlankFrom(ind, n1) /\ b < n1
  BY DEF Fills
<1> USE <1>1
<1> DEFINE d == D[i]
           a == d.addrs[NDIRECT]
           u == Taken(n)
<1>2. /\ d \in Dinode /\ NDIRECT \in 0 .. NDIRECT /\ NDIRECT \in Nat
      /\ bn \in Places /\ bn \in Nat /\ bn # MAXFILE /\ MAXFILE \in Places /\ At(dsk, d, MAXFILE) = a
  BY PlacesFacts DEF At
<1>3. /\ a \in Nat /\ a \in u /\ At(dsk, d, bn) \in u /\ At(dsk, d, bn) \in Nat /\ 0 \in u
      /\ (a # 0 => a \in Blocks)
  BY <1>2, AtFacts
<1>4. \A c \in Nat : (c \in u <=> c < n) /\ (n <= c => c # 0 /\ c >= nmeta)
  BY DEF Taken, nmeta
<1>5. \A c \in Blocks : c \in Nat
  BY FilesAssumption DEF Blocks
<1>6. /\ d1.addrs \in [0 .. NDIRECT -> Nat] /\ d1.addrs[slot] = g
      /\ \A k \in 0 .. NDIRECT : k # slot => d1.addrs[k] = d.addrs[k]
  <2>1. slot \in 0 .. NDIRECT
    BY PlacesFacts
  <2> QED BY <1>2, <2>1 DEF Dinode
<1>7. Taken(n + 1) = u \cup {n}
  BY DEF Taken
<1>8. \/ /\ d.addrs[slot] # 0 /\ g = d.addrs[slot] /\ m = n
      \/ /\ d.addrs[slot] = 0 /\ g = n /\ m = n + 1
  BY DEF Fresh
<1> HIDE DEF d, u
<1>9. CASE bn < NDIRECT
  <2>1. bn \in 0 .. NDIRECT /\ bn # NDIRECT /\ At(dsk, d, bn) = d.addrs[bn] /\ slot = bn
        /\ b = g /\ n1 = m /\ ind = dsk
    BY <1>9, PlacesFacts DEF At
  <2>2. \A k \in 0 .. MAXFILE - 1 : k # bn => At(dsk, d1, k) = At(dsk, d, k)
    BY <1>2, <1>6, <2>1, PlacesFacts DEF At
  <2>3. At(dsk, d1, bn) = b /\ At(dsk, d1, MAXFILE) = a
    BY <1>2, <1>6, <1>9, <2>1 DEF At
  <2>4. CASE d.addrs[bn] # 0
    <3>1. b = At(dsk, d, bn) /\ n1 = n
      BY <1>8, <2>1, <2>4
    <3>2. u = u \cup {b, a}
      BY <1>3, <3>1
    <3>3. Grows(dsk, u, d, bn, ind, u, d1, b)
      BY <1>2, <2>1, <2>2, <2>3, <2>4, <3>1, <3>2 DEF Grows, d
    <3>4. b < n
      BY <1>3, <1>4, <3>1
    <3> QED BY <2>1, <3>1, <3>3, <3>4 DEF d, u
  <2>5. CASE d.addrs[bn] = 0
    <3>1. b = n /\ n1 = n + 1 /\ At(dsk, d, bn) = 0
      BY <1>8, <2>1, <2>5
    <3>2. Taken(n + 1) = u \cup {b, a} /\ b \in Blocks \ u /\ b >= nmeta
      BY <1>3, <1>4, <1>7, <3>1
    <3>3. Grows(dsk, u, d, bn, ind, Taken(n + 1), d1, b)
      BY <1>2, <2>1, <2>2, <2>3, <3>1, <3>2 DEF Grows, d
    <3>4. BlankFrom(ind, n + 1)
      BY <1>5, <2>1 DEF BlankFrom
    <3> QED BY <3>1, <3>3, <3>4 DEF d, u
  <2> QED BY <2>4, <2>5
<1>10. CASE ~(bn < NDIRECT)
  <2> DEFINE x == bn - NDIRECT
  <2>1. x \in Unit /\ At(dsk, d, bn) = (IF a = 0 THEN 0 ELSE dsk[a][x]) /\ slot = NDIRECT
        /\ \A k \in 0 .. MAXFILE - 1 : k # bn /\ ~(k < NDIRECT) => k - NDIRECT \in Unit /\ k - NDIRECT # x
    BY <1>2, <1>10, PlacesFacts DEF At
  <2>2. \/ /\ dsk[g][x] # 0 /\ b = dsk[g][x] /\ n1 = m
        \/ /\ dsk[g][x] = 0 /\ b = m /\ n1 = m + 1
    BY <1>10 DEF Fresh
  <2>3. /\ ind \in Disk /\ ind[g][x] = b /\ \A y \in Unit : y # x => ind[g][y] = dsk[g][y]
        /\ \A c \in Blocks : c # g => ind[c] = dsk[c]
    <3>1. ind = [dsk EXCEPT ![g][x] = b]
      BY <1>10
    <3>2. g \in Blocks /\ b \in Nat /\ x \in Unit
      BY <1>5, <2>1
    <3> HIDE DEF x
    <3> QED BY <3>1, <3>2 DEF Disk, BlockData
  <2> HIDE DEF x
  <2>4. At(ind, d1, bn) = b /\ At(ind, d1, MAXFILE) = g
    <3>1. d1.addrs[NDIRECT] = g /\ g # 0
      BY <1>3, <1>4, <1>6, <1>8, <2>1
    <3> QED BY <1>2, <1>10, <2>3, <3>1 DEF At, x
  <2>5. CASE a # 0
    <3>1. g = a /\ m = n /\ d1.addrs[NDIRECT] = a
      BY <1>6, <1>8, <2>1, <2>5
    <3>2. \A k \in 0 .. MAXFILE - 1 : k # bn => At(ind, d1, k) = At(dsk, d, k)
      <4> SUFFICES ASSUME NEW k \in 0 .. MAXFILE - 1, k # bn PROVE At(ind, d1, k) = At(dsk, d, k)
        OBVIOUS
      <4>1. CASE k < NDIRECT
        BY <1>6, <2>1, <4>1, PlacesFacts DEF At
      <4>2. CASE ~(k < NDIRECT)
        BY <2>1, <2>3, <2>5, <3>1, <4>2, PlacesFacts DEF At
      <4> QED BY <4>1, <4>2
    <3>3. \A c \in u \cap Blocks : c # a => ind[c] = dsk[c]
      BY <2>3, <3>1
    <3>4. CASE dsk[a][x] # 0
      <4>1. b = At(dsk, d, bn) /\ n1 = n
        BY <2>1, <2>2, <2>5, <3>1, <3>4
      <4>2. u = u \cup {b, a} /\ b < n
        BY <1>3, <1>4, <4>1
      <4>3. Grows(dsk, u, d, bn, ind, u, d1, b)
        BY <1>2, <2>1, <2>3, <2>4, <2>5, <3>1, <3>2, <3>3, <3>4, <4>1, <4>2 DEF Grows, d
      <4>4. BlankFrom(ind, n)
        <5>1. a < n
          BY <1>3, <1>4
        <5> QED BY <1>5, <2>3, <3>1, <5>1 DEF BlankFrom
      <4> QED BY <4>1, <4>2, <4>3, <4>4 DEF d, u
    <3>5. CASE dsk[a][x] = 0
      <4>1. At(dsk, d, bn) = 0 /\ b = n /\ n1 = n + 1
        BY <2>1, <2>2, <2>5, <3>1, <3>5
      <4>2. Taken(n + 1) = u \cup {b, a} /\ b \in Blocks \ u /\ b >= nmeta
        BY <1>3, <1>4, <1>7, <4>1
      <4>3. Grows(dsk, u, d, bn, ind, Taken(n + 1), d1, b)
        BY <1>2, <2>1, <2>3, <2>4, <3>1, <3>2, <3>3, <4>1, <4>2 DEF Grows, d
      <4>4. BlankFrom(ind, n + 1)
        <5>1. a < n
          BY <1>3, <1>4
        <5> QED BY <1>5, <2>3, <3>1, <5>1 DEF BlankFrom
      <4> QED BY <4>1, <4>3, <4>4 DEF d, u
    <3> QED BY <3>4, <3>5
  <2>6. CASE a = 0
    <3>1. g = n /\ m = n + 1 /\ d1.addrs[NDIRECT] = g /\ g # 0 /\ g >= nmeta /\ g \in Blocks /\ g \notin u
      BY <1>4, <1>6, <1>8, <2>1, <2>6
    <3>2. dsk[g] = Zeroes /\ dsk[g][x] = 0
      BY <1>5, <2>1, <3>1, Blank DEF BlankFrom
    <3>3. b = n + 1 /\ n1 = n + 2 /\ b # g /\ b \in Blocks \ u /\ b >= nmeta
      BY <1>4, <2>2, <3>1, <3>2
    <3>4. At(dsk, d, bn) = 0 /\ At(dsk, d, MAXFILE) = 0
      BY <1>2, <2>1, <2>6
    <3>5. \A k \in 0 .. MAXFILE - 1 : k # bn => At(ind, d1, k) = At(dsk, d, k)
      <4> SUFFICES ASSUME NEW k \in 0 .. MAXFILE - 1, k # bn PROVE At(ind, d1, k) = At(dsk, d, k)
        OBVIOUS
      <4>1. CASE k < NDIRECT
        BY <1>6, <2>1, <4>1, PlacesFacts DEF At
      <4>2. CASE ~(k < NDIRECT)
        <5>1. k - NDIRECT \in Unit /\ k - NDIRECT # x /\ k # MAXFILE
          BY <2>1, <4>2, PlacesFacts
        <5>2. ind[g][k - NDIRECT] = 0
          BY <2>3, <3>2, <5>1, Blank
        <5> QED BY <2>6, <3>1, <4>2, <5>1, <5>2 DEF At
      <4> QED BY <4>1, <4>2
    <3>6. Taken(n + 2) = u \cup {b, g}
      BY <3>1, <3>3 DEF Taken, u
    <3>7. \A c \in u \cap Blocks : ind[c] = dsk[c]
      BY <2>3, <3>1
    <3>8. Grows(dsk, u, d, bn, ind, Taken(n + 2), d1, b)
      BY <1>2, <2>3, <2>4, <3>1, <3>3, <3>4, <3>5, <3>6, <3>7 DEF Grows, d
    <3>9. BlankFrom(ind, n + 2)
      BY <1>5, <2>3, <3>1 DEF BlankFrom
    <3> QED BY <3>3, <3>8, <3>9 DEF d, u
  <2> QED BY <2>5, <2>6
<1> QED BY <1>9, <1>10

\* mkfs starts with nothing.
LEMMA InitIInv ==
  ASSUME FilesInit
  PROVE  IInv
<1>1. /\ Zeroes \in BlockData /\ NewInode \in Dinode /\ NewInode.size = 0
      /\ NoFile \in [ip : Inodes \cup {None}, off : Nat, ref : Nat]
      /\ NoJob \in [n : Nat, i : Nat, n1 : Nat, tot : Nat, off : Nat]
  BY Blank, FilesAssumption DEF NewInode, NoFile, NoJob, Dinode, None
<1>2. ToAppend \in Seq([ip : Inodes, unit : Nat])
  <2>1. 3 + FileSize \in Nat
    BY FilesAssumption
  <2>2. \A k \in 1 .. 3 + FileSize :
          (IF k <= 3 THEN [ip |-> ROOTINO, unit |-> IF k < 3 THEN ROOTINO ELSE First]
           ELSE [ip |-> First, unit |-> 97 + k]) \in [ip : Inodes, unit : Nat]
    BY <2>1 DEF Inodes, ROOTINO, First
  <2>3. ToAppend \in [1 .. 3 + FileSize -> [ip : Inodes, unit : Nat]]
    BY <2>2 DEF ToAppend
  <2> QED BY <2>1, <2>3, SeqDef
<1>3. Typed
  <2>1. /\ disk \in Disk /\ used \in SUBSET Nat
        /\ dinode \in [Inodes -> Dinode] /\ mem \in [Inodes -> Dinode]
    BY <1>1 DEF FilesInit, Disk
  <2>2. /\ lock \in [Inodes -> Procs \cup {None}]
        /\ file \in [Slots -> [ip : Inodes \cup {None}, off : Nat, ref : Nat]]
        /\ fd \in [Procs -> Slots \cup {None}]
    BY <1>1 DEF FilesInit
  <2>3. /\ pc \in [Procs -> {"idle", "begin", "block"}]
        /\ job \in [Procs -> [n : Nat, i : Nat, n1 : Nat, tot : Nat, off : Nat]]
        /\ logged \in [Procs -> SUBSET Nat]
    BY <1>1 DEF FilesInit
  <2>4. ref \in [Inodes -> Seq(Nat)]
    <3>1. << >> \in Seq(Nat)
      OBVIOUS
    <3> QED BY <3>1 DEF FilesInit
  <2>5. /\ writes \in Nat /\ panicked \in BOOLEAN /\ phase \in {"mkfs", "kernel"}
        /\ todo \in Seq([ip : Inodes, unit : Nat]) /\ freeblock \in Nat
    BY <1>2 DEF FilesInit, nmeta
  <2> QED BY <2>1, <2>2, <2>3, <2>4, <2>5 DEF Typed
<1>4. \A i \in Inodes, k \in Places : At(disk, dinode[i], k) = 0
  BY PlacesFacts DEF FilesInit, NewInode, At
<1>5. Sound(disk, Taken(freeblock), dinode)
  <2>1. {At(disk, dinode[ik[1]], ik[2]) : ik \in Inodes \X Places} \ {0} = {}
    BY <1>4
  <2> QED BY <1>4, <2>1 DEF Sound, Taken, FilesInit
<1>6. \A i \in Inodes : Backed(disk, dinode[i], dinode[i].size) /\ Holds(disk, dinode[i], ref[i])
  <2>1. \A i \in Inodes : dinode[i].size = 0 /\ ref[i] = << >>
    BY <1>1 DEF FilesInit
  <2>2. \A k \in 0 .. MAXFILE - 1 : ~(k * BSIZE < 0)
    BY PlacesFacts
  <2>3. 0 <= MAXFILE * BSIZE
    BY PlacesFacts
  <2> QED BY <2>1, <2>2, <2>3 DEF Backed, Holds
<1>7. BlankFrom(disk, freeblock)
  BY DEF FilesInit, BlankFrom
<1> QED BY <1>3, <1>5, <1>6, <1>7 DEF IInv, Making, FilesInit, nmeta

\* mkfs appends a unit.
LEMMA AppendIInv ==
  ASSUME IInv, iappend
  PROVE  IInv'
<1> DEFINE i == Head(todo).ip
           unit == Head(todo).unit
           d == dinode[i]
           fbn == d.size \div BSIZE
           slot == IF fbn < NDIRECT THEN fbn ELSE NDIRECT
           top == Fresh(freeblock, d.addrs[slot])
           leaf == IF fbn < NDIRECT THEN top ELSE Fresh(top.free, disk[top.got][fbn - NDIRECT])
           ind == IF fbn < NDIRECT THEN disk
                  ELSE [disk EXCEPT ![top.got][fbn - NDIRECT] = leaf.got]
           x == d.size % BSIZE
           e == [d EXCEPT !.addrs[slot] = top.got]
           E == [dinode EXCEPT ![i] = e]
<1>1. /\ phase = "mkfs" /\ todo # << >>
      /\ fbn < MAXFILE /\ top.got \in Blocks /\ leaf.got \in Blocks
      /\ disk' = [ind EXCEPT ![leaf.got][x] = unit]
      /\ dinode' = [dinode EXCEPT ![i] = [size |-> d.size + 1, addrs |-> [d.addrs EXCEPT ![slot] = top.got]]]
      /\ freeblock' = leaf.free /\ todo' = Tail(todo)
      /\ ref' = [ref EXCEPT ![i] = Append(@, unit)]
      /\ UNCHANGED <<used, mem, lock, file, fd, pc, job, logged, writes, panicked, phase>>
  BY DEF iappend
<1>2. Typed /\ Making
  BY <1>1 DEF IInv
<1>3. top = [got |-> top.got, free |-> top.free] /\ leaf = [got |-> leaf.got, free |-> leaf.free]
  BY DEF Fresh
<1> HIDE DEF slot, top, leaf, ind
<1>4. /\ i \in Inodes /\ unit \in Nat /\ d \in Dinode /\ d.size \in Nat
      /\ Tail(todo) \in Seq([ip : Inodes, unit : Nat])
  <2>1. todo \in Seq([ip : Inodes, unit : Nat]) /\ dinode \in [Inodes -> Dinode]
    BY <1>2 DEF Typed
  <2>2. Head(todo) \in [ip : Inodes, unit : Nat] /\ Tail(todo) \in Seq([ip : Inodes, unit : Nat])
    BY <1>1, <2>1, HeadTailProperties
  <2> QED BY <2>1, <2>2 DEF Dinode
<1> HIDE DEF i, unit, d
<1>5. fbn \in 0 .. MAXFILE - 1 /\ x \in Unit /\ d.size = fbn * BSIZE + x /\ fbn * BSIZE \in Nat
  <2>1. BSIZE \in Nat \ {0} /\ d.size \in Nat /\ MAXFILE \in Nat
    BY <1>4, PlacesFacts
  <2>2. /\ fbn \in Nat /\ x \in 0 .. BSIZE - 1 /\ fbn * BSIZE \in Nat
        /\ d.size = fbn * BSIZE + x
    BY <2>1, Quotient
  <2> HIDE DEF fbn, x
  <2> QED BY <1>1, <2>1, <2>2 DEF Unit
<1> HIDE DEF fbn, x
<1>6. /\ slot \in 0 .. NDIRECT
      /\ e \in Dinode /\ e.size = d.size /\ e.addrs = [d.addrs EXCEPT ![slot] = top.got]
  <2>1. slot \in 0 .. NDIRECT
    BY <1>5, PlacesFacts DEF slot
  <2>2. top.got \in Nat
    BY <1>1, FilesAssumption DEF Blocks
  <2> QED BY <1>4, <2>1, <2>2 DEF Dinode
<1> HIDE DEF e, E
<1>7. /\ Grows(disk, Taken(freeblock), d, fbn, ind, Taken(leaf.free), e, leaf.got)
      /\ leaf.free \in Nat /\ leaf.free >= freeblock /\ BlankFrom(ind, leaf.free) /\ leaf.got < leaf.free
  <2>1. /\ disk \in Disk /\ freeblock \in Nat /\ freeblock >= nmeta /\ BlankFrom(disk, freeblock)
        /\ dinode \in [Inodes -> Dinode] /\ Sound(disk, Taken(freeblock), dinode)
    BY <1>2 DEF Typed, Making
  <2>2. PICK g, m, b, n1, dsk1, sl : g = top.got /\ m = top.free /\ b = leaf.got /\ n1 = leaf.free /\ dsk1 = ind /\ sl = slot
    OBVIOUS
  <2>3. Fresh(freeblock, dinode[i].addrs[sl]) = [got |-> g, free |-> m]
    BY <1>3, <2>2 DEF top, d
  <2>4. IF fbn < NDIRECT THEN b = g /\ n1 = m /\ dsk1 = disk
        ELSE /\ Fresh(m, disk[g][fbn - NDIRECT]) = [got |-> b, free |-> n1]
             /\ dsk1 = [disk EXCEPT ![g][fbn - NDIRECT] = b]
    BY <1>3, <2>2 DEF leaf, ind
  <2>5. sl = (IF fbn < NDIRECT THEN fbn ELSE NDIRECT) /\ g \in Blocks /\ b \in Blocks
        /\ e.addrs = [dinode[i].addrs EXCEPT ![sl] = g] /\ e.size = dinode[i].size
    BY <1>1, <1>6, <2>2 DEF d, slot
  <2>6. Finds(disk, freeblock, dinode[i], fbn, sl, g, m, b, n1, dsk1, e)
    BY <2>3, <2>4, <2>5 DEF Finds
  <2>7. Fills(disk, freeblock, dinode[i], fbn, b, n1, dsk1, e)
    BY <1>4, <1>5, <1>6, <2>1, <2>5, <2>6, FreshGrows
  <2> QED BY <2>2, <2>7 DEF d, Fills
<1> DEFINE data == [ind[leaf.got] EXCEPT ![x] = unit]
<1>8. /\ ind \in Disk /\ ind[leaf.got] \in BlockData /\ data \in BlockData
      /\ disk' = [ind EXCEPT ![leaf.got] = data] /\ data[x] = unit
      /\ \A y \in Unit : y # x => data[y] = ind[leaf.got][y]
  <2>1. ind \in Disk
    BY <1>7 DEF Grows
  <2> QED BY <1>1, <1>4, <1>5, <2>1 DEF Disk, BlockData
<1> HIDE DEF data
<1>9. Wrote(disk, dinode, i, fbn, ind, leaf.got, data, disk', Taken(leaf.free), E)
  <2>1. /\ disk \in Disk /\ dinode \in [Inodes -> Dinode] /\ Sound(disk, Taken(freeblock), dinode)
    BY <1>2 DEF Typed, Making
  <2>2. PICK dsk2 : dsk2 = disk'
    OBVIOUS
  <2>3. Grows(disk, Taken(freeblock), dinode[i], fbn, ind, Taken(leaf.free), e, leaf.got)
    BY <1>7 DEF d
  <2>4. E = [dinode EXCEPT ![i] = e] /\ dsk2 = [ind EXCEPT ![leaf.got] = data]
    BY <1>8, <2>2 DEF E
  <2>5. Wrote(disk, dinode, i, fbn, ind, leaf.got, data, dsk2, Taken(leaf.free), E)
    BY <1>4, <1>5, <1>8, <2>1, <2>3, <2>4, GrowWrite
  <2> QED BY <2>2, <2>5
<1>10. /\ disk' \in Disk /\ E \in [Inodes -> Dinode] /\ Sound(disk', Taken(leaf.free), E)
       /\ leaf.got \in Blocks /\ leaf.got # 0 /\ At(disk', E[i], fbn) = leaf.got
       /\ At(disk, d, fbn) # 0 => leaf.got = At(disk, d, fbn) /\ ind[leaf.got] = disk[leaf.got]
       /\ \A j \in Inodes, k \in Places : At(disk, dinode[j], k) # 0 => At(disk', E[j], k) = At(disk, dinode[j], k)
       /\ \A off \in Nat : off \div BSIZE = fbn => UnitAt(disk', E[i], off) = data[off % BSIZE]
       /\ \A j \in Inodes, off \in Nat :
            /\ off \div BSIZE \in 0 .. MAXFILE - 1 /\ At(disk, dinode[j], off \div BSIZE) # 0
            /\ <<j, off \div BSIZE>> # <<i, fbn>>
            => UnitAt(disk', E[j], off) = UnitAt(disk, dinode[j], off)
  BY <1>9 DEF Wrote, d
<1>11. /\ dinode' \in [Inodes -> Dinode] /\ dinode'[i].size = d.size + 1 /\ E[i].size = d.size
       /\ \A j \in Inodes : j # i => dinode'[j] = dinode[j] /\ E[j] = dinode[j]
       /\ \A j \in Inodes : dinode'[j].addrs = E[j].addrs
  <2>1. dinode \in [Inodes -> Dinode]
    BY <1>2 DEF Typed
  <2>2. E = [dinode EXCEPT ![i] = e] /\ [size |-> d.size + 1, addrs |-> e.addrs] \in Dinode
    <3>1. d.size + 1 \in Nat
      BY <1>4
    <3>2. e \in Dinode
      BY <1>6
    <3>3. e.addrs \in [0 .. NDIRECT -> Nat]
      BY <3>2 DEF Dinode
    <3> QED BY <3>1, <3>3 DEF E, Dinode
  <2>3. dinode' = [dinode EXCEPT ![i] = [size |-> d.size + 1, addrs |-> e.addrs]]
    BY <1>1, <1>6
  <2> QED BY <1>4, <1>6, <2>1, <2>2, <2>3
<1>12. /\ Sound(disk', Taken(leaf.free), dinode')
       /\ \A j \in Inodes : (\A k \in Places : At(disk', dinode'[j], k) = At(disk', E[j], k))
                          /\ \A off : UnitAt(disk', dinode'[j], off) = UnitAt(disk', E[j], off)
  <2>1. PICK dsk2, D2 : dsk2 = disk' /\ D2 = dinode'
    OBVIOUS
  <2>2. Sound(dsk2, Taken(leaf.free), D2) /\ Same(dsk2, E, D2)
    BY <1>10, <1>11, <2>1, SizeSound
  <2> QED BY <2>1, <2>2 DEF Same
<1>13. BlankFrom(disk', leaf.free)
  <2>1. \A c \in Blocks : c \in Nat
    BY FilesAssumption DEF Blocks
  <2> QED BY <1>7, <1>8, <1>10, <2>1 DEF BlankFrom, Disk
<1>14. /\ Backed(disk, d, d.size) /\ Holds(disk, d, ref[i])
       /\ \A j \in Inodes : Backed(disk, dinode[j], dinode[j].size) /\ Holds(disk, dinode[j], ref[j])
       /\ ref[i] \in Seq(Nat)
  BY <1>2, <1>4 DEF Making, Typed, d
<1>15. ASSUME NEW j \in Inodes PROVE Backed(disk', dinode'[j], dinode'[j].size)
  <2>1. dinode'[j].size <= MAXFILE * BSIZE
    <3>1. fbn * BSIZE + BSIZE <= MAXFILE * BSIZE
      BY <1>5, PlacesFacts, Multiples
    <3>2. d.size + 1 <= MAXFILE * BSIZE
      <4>1. PICK v, w : v = fbn * BSIZE /\ w = MAXFILE * BSIZE
        OBVIOUS
      <4>2. v \in Nat /\ w \in Nat /\ v + BSIZE <= w /\ BSIZE \in Nat
        BY <1>5, <3>1, <4>1, PlacesFacts
      <4>3. d.size \in Nat /\ x \in Nat /\ x <= BSIZE - 1 /\ d.size = v + x
        BY <1>4, <1>5, <4>1, PlacesFacts DEF Unit
      <4>4. d.size + 1 <= w
        BY <4>2, <4>3
      <4> QED BY <4>1, <4>4
    <3> QED BY <1>11, <1>14, <3>2 DEF Backed
  <2> SUFFICES ASSUME NEW k \in 0 .. MAXFILE - 1, k * BSIZE < dinode'[j].size PROVE At(disk', dinode'[j], k) # 0
    BY <2>1 DEF Backed
  <2>2. k \in Places /\ At(disk', dinode'[j], k) = At(disk', E[j], k)
    BY <1>12, PlacesFacts
  <2>3. CASE j = i
    <3>1. k * BSIZE <= d.size /\ k \in Nat /\ k * BSIZE \in Nat
      <4>1. BSIZE \in Nat /\ k \in Nat
        BY PlacesFacts
      <4> QED BY <1>4, <1>11, <2>3, <4>1
    <3>2. k <= fbn
      BY <1>4, <3>1, Before, PlacesFacts DEF fbn
    <3>3. CASE k = fbn
      BY <1>10, <2>2, <2>3, <3>3
    <3>4. CASE k < fbn
      <4>1. k * BSIZE < d.size
        <5>1. BSIZE \in Nat \ {0} /\ fbn \in Nat /\ fbn * BSIZE <= d.size
          BY <1>5, PlacesFacts DEF Unit
        <5>2. k * BSIZE + BSIZE <= fbn * BSIZE
          BY <3>1, <3>4, <5>1, Multiples
        <5>3. PICK v, w : v = k * BSIZE /\ w = fbn * BSIZE
          OBVIOUS
        <5>4. v \in Nat /\ w \in Nat /\ v + BSIZE <= w /\ w <= d.size /\ BSIZE \in Nat \ {0} /\ d.size \in Nat
          BY <1>4, <1>5, <3>1, <5>1, <5>2, <5>3
        <5>5. v < d.size
          BY <5>4
        <5> QED BY <5>3, <5>5
      <4> QED BY <1>10, <1>14, <2>2, <2>3, <4>1 DEF Backed, d
    <3> QED BY <1>5, <3>1, <3>2, <3>3, <3>4
  <2>4. CASE j # i
    BY <1>10, <1>11, <1>14, <2>2, <2>4 DEF Backed
  <2> QED BY <2>3, <2>4
<1>16. ASSUME NEW j \in Inodes, j # i PROVE Holds(disk', dinode'[j], ref'[j])
  <2>1. ref'[j] = ref[j] /\ dinode'[j] = dinode[j] /\ dinode[j].size \in Nat
    BY <1>1, <1>2, <1>11, <1>16 DEF Typed, Dinode
  <2> SUFFICES ASSUME NEW k \in 0 .. dinode[j].size - 1
               PROVE  UnitAt(disk', dinode'[j], k) = UnitAt(disk, dinode[j], k)
    BY <1>14, <2>1 DEF Holds
  <2>2. k \in Nat /\ k < dinode[j].size
    BY <2>1
  <2>3. k \div BSIZE \in 0 .. MAXFILE - 1 /\ At(disk, dinode[j], k \div BSIZE) # 0
    <3>1. dinode[j].size <= MAXFILE * BSIZE
      BY <1>14 DEF Backed
    <3>2. BSIZE \in Nat \ {0} /\ MAXFILE \in Nat
      BY PlacesFacts
    <3>3. k \div BSIZE \in 0 .. MAXFILE - 1 /\ (k \div BSIZE) * BSIZE < dinode[j].size
      BY <2>1, <2>2, <3>1, <3>2, Within
    <3> QED BY <1>14, <3>3 DEF Backed
  <2>4. <<j, k \div BSIZE>> # <<i, fbn>>
    BY <1>16
  <2> QED BY <1>10, <1>12, <2>2, <2>3, <2>4
<1>17. Holds(disk', dinode'[i], ref'[i])
  <2>1. /\ ref' = [ref EXCEPT ![i] = Append(@, unit)] /\ ref \in [Inodes -> Seq(Nat)]
        /\ Len(ref[i]) = d.size
    BY <1>1, <1>2, <1>14 DEF Typed, Holds
  <2>2. /\ ref'[i] \in Seq(Nat) /\ Len(ref'[i]) = d.size + 1 /\ ref'[i][d.size + 1] = unit
        /\ \A k \in 1 .. d.size : ref'[i][k] = ref[i][k]
    <3>1. ref'[i] = Append(ref[i], unit) /\ ref[i] \in Seq(Nat)
      BY <1>4, <2>1
    <3> QED BY <1>4, <2>1, <3>1, AppendProperties
  <2> SUFFICES ASSUME NEW k \in 0 .. d.size PROVE UnitAt(disk', E[i], k) = ref'[i][k + 1]
    BY <1>4, <1>11, <1>12, <2>2 DEF Holds
  <2>3. CASE k = d.size
    BY <1>4, <1>8, <1>10, <2>2, <2>3 DEF fbn, x
  <2>4. CASE k # d.size
    <3>1. k \in Nat /\ k < d.size /\ k + 1 \in 1 .. d.size /\ k \in 0 .. d.size - 1
      BY <1>4, <2>4
    <3>2. UnitAt(disk, d, k) = ref'[i][k + 1]
      BY <1>14, <2>2, <3>1 DEF Holds
    <3>3. /\ k \div BSIZE \in 0 .. MAXFILE - 1 /\ k % BSIZE \in Unit /\ At(disk, d, k \div BSIZE) # 0
      <4>1. d.size <= MAXFILE * BSIZE
        BY <1>14 DEF Backed
      <4>2. BSIZE \in Nat \ {0} /\ MAXFILE \in Nat
        BY PlacesFacts
      <4>3. k \div BSIZE \in 0 .. MAXFILE - 1 /\ k % BSIZE \in Unit /\ (k \div BSIZE) * BSIZE < d.size
        BY <1>4, <3>1, <4>1, <4>2, Within DEF Unit
      <4> QED BY <1>14, <4>3 DEF Backed
    <3>4. CASE k \div BSIZE # fbn
      BY <1>4, <1>10, <3>1, <3>2, <3>3, <3>4 DEF d
    <3>5. CASE k \div BSIZE = fbn
      <4>1. k % BSIZE # x
        <5>1. BSIZE \in Nat \ {0}
          BY PlacesFacts
        <5>2. k % BSIZE = d.size % BSIZE => k = d.size
          BY <1>4, <3>1, <3>5, <5>1, SamePlace DEF fbn
        <5> QED BY <2>4, <5>2 DEF x
      <4>2. UnitAt(disk', E[i], k) = data[k % BSIZE]
        BY <1>10, <3>1, <3>5
      <4>3. data[k % BSIZE] = disk[At(disk, d, fbn)][k % BSIZE]
        BY <1>8, <1>10, <3>3, <3>5, <4>1
      <4> QED BY <3>2, <3>5, <4>2, <4>3 DEF UnitAt
    <3> QED BY <3>4, <3>5
  <2> QED BY <2>3, <2>4
<1>18. \A j \in Inodes : Backed(disk', dinode'[j], dinode'[j].size) /\ Holds(disk', dinode'[j], ref'[j])
  BY <1>15, <1>16, <1>17
<1>19. Making'
  <2>1. freeblock' >= nmeta
    BY <1>1, <1>2, <1>7 DEF Making, Typed, nmeta
  <2>2. BlankFrom(disk', freeblock') /\ Sound(disk', Taken(freeblock'), dinode')
    BY <1>1, <1>12, <1>13
  <2>3. /\ \A p \in Procs : pc'[p] = "idle" /\ job'[p] = NoJob /\ fd'[p] = None /\ logged'[p] = {}
        /\ \A f \in Slots : file'[f] = NoFile
        /\ \A j \in Inodes : lock'[j] = None
    BY <1>1, <1>2 DEF Making
  <2> QED BY <1>18, <2>1, <2>2, <2>3 DEF Making
<1>20. Typed'
  <2>1. ref' \in [Inodes -> Seq(Nat)]
    <3>1. ref \in [Inodes -> Seq(Nat)] /\ ref[i] \in Seq(Nat)
      BY <1>2, <1>4 DEF Typed
    <3>2. Append(ref[i], unit) \in Seq(Nat)
      BY <1>4, <3>1, AppendProperties
    <3> QED BY <1>1, <1>4, <3>1, <3>2
  <2> QED BY <1>1, <1>2, <1>4, <1>7, <1>10, <1>11, <2>1 DEF Typed
<1> QED BY <1>1, <1>19, <1>20 DEF IInv

\* The kernel starts with what mkfs made.
LEMMA MkfsEndsIInv ==
  ASSUME IInv, MkfsEnds
  PROVE  IInv'
<1>1. Typed /\ Making
  BY DEF IInv, MkfsEnds
<1>2. /\ dinode' = [dinode EXCEPT ![ROOTINO].size = ((@ \div BSIZE) + 1) * BSIZE]
      /\ mem' = dinode' /\ used' = Taken(freeblock) /\ phase' = "kernel"
      /\ UNCHANGED <<disk, lock, file, fd, pc, job, logged, ref, writes, panicked, todo, freeblock>>
  BY DEF MkfsEnds, Marked, Taken
<1>3. /\ dinode' \in [Inodes -> Dinode]
      /\ \A i \in Inodes : dinode'[i].addrs = dinode[i].addrs /\ (i # ROOTINO => dinode'[i] = dinode[i])
  <2>1. dinode \in [Inodes -> Dinode] /\ ROOTINO \in Inodes
    BY <1>1 DEF Typed, Inodes
  <2>2. ((dinode[ROOTINO].size \div BSIZE) + 1) * BSIZE \in Nat
    <3>1. BSIZE \in Nat \ {0} /\ dinode[ROOTINO].size \in Nat
      BY <2>1, PlacesFacts DEF Dinode
    <3>2. dinode[ROOTINO].size \div BSIZE \in Nat
      BY <3>1, Quotient
    <3> QED BY <3>1, <3>2
  <2> QED BY <1>2, <2>1, <2>2 DEF Dinode
<1>4. Typed'
  <2>1. used' \in SUBSET Nat
    BY <1>1, <1>2 DEF Taken, Typed
  <2> QED BY <1>1, <1>2, <1>3, <2>1 DEF Typed
<1>5. Sound(disk', used', mem') /\ Same(disk', dinode, dinode')
  <2>1. PICK D2 : D2 = dinode'
    OBVIOUS
  <2>2. Sound(disk, Taken(freeblock), D2) /\ Same(disk, dinode, D2)
    BY <1>1, <1>3, <2>1, SizeSound DEF Making
  <2> QED BY <1>2, <2>1, <2>2
<1>6. /\ \A p \in Procs : pc'[p] = "idle" /\ job'[p] = NoJob /\ fd'[p] = None /\ logged'[p] = {}
      /\ \A f \in Slots : file'[f] = NoFile
      /\ \A i \in Inodes : lock'[i] = None
  BY <1>1, <1>2 DEF Making
<1>7. Table' /\ Locks' /\ Offsets'
  <2>1. \A f \in Slots : Users(f)' = {} /\ Cardinality(Users(f)') = 0
    BY <1>6, FS_EmptySet DEF Users, Slots, None
  <2>2. Table'
    BY <1>6, <2>1 DEF Table, NoFile, None, ROOTINO
  <2>3. Locks'
    BY <1>6, FilesAssumption DEF Locks, None
  <2>4. Offsets'
    BY <1>6 DEF Offsets, NoFile
  <2> QED BY <2>2, <2>3, <2>4
<1>8. \A i \in Inodes : Reached(i)' = mem'[i].size
  BY <1>6 DEF Reached
<1>9. Written'
  <2> SUFFICES ASSUME NEW i \in Inodes \ {ROOTINO}
               PROVE  /\ Backed(disk', mem'[i], mem'[i].size) /\ Len(ref'[i]) = mem'[i].size
                      /\ \A k \in 0 .. mem'[i].size - 1 : UnitAt(disk', mem'[i], k) = Now(i, k)'
    BY <1>8 DEF Written
  <2>1. mem'[i] = dinode[i] /\ disk' = disk /\ ref'[i] = ref[i] /\ \A k : Now(i, k)' = ref'[i][k + 1]
    BY <1>2, <1>3, <1>6 DEF Now
  <2>2. Backed(disk, dinode[i], dinode[i].size) /\ Holds(disk, dinode[i], ref[i])
    BY <1>1 DEF Making
  <2> QED BY <2>1, <2>2 DEF Holds
<1>10. Saved' /\ Logging' /\ \A p \in Procs : Chunking(p)'
  BY <1>2, <1>6 DEF Saved, Logging, Chunking, NoJob
<1> QED BY <1>2, <1>4, <1>5, <1>7, <1>9, <1>10 DEF IInv, Running

-----------------------------------------------------------------------------
(* The file table                                                          *)

\* Who has a file, and who writes to one.
LEMMA TableFacts ==
  ASSUME Typed, Table, Locks
  PROVE  /\ \A f \in Slots : IsFiniteSet(Users(f))
         /\ \A p \in Procs : fd[p] # None => fd[p] \in Slots /\ file[fd[p]].ip \in Inodes \ {ROOTINO}
                                             /\ file[fd[p]].ref > 0
         /\ \A i \in Inodes : lock[i] # None =>
              /\ lock[i] \in Procs /\ pc[lock[i]] = "block" /\ fd[lock[i]] \in Slots
              /\ file[fd[lock[i]]].ip = i /\ i # ROOTINO
         /\ \A p \in Procs : pc[p] = "block" =>
              fd[p] \in Slots /\ file[fd[p]].ip \in Inodes \ {ROOTINO} /\ lock[file[fd[p]].ip] = p
         /\ lock[ROOTINO] = None /\ ROOTINO \in Inodes /\ \A p \in Procs : p # None
<1>1. \A f \in Slots : IsFiniteSet(Users(f))
  BY FilesAssumption, FS_Subset DEF Users
<1>2. \A p \in Procs : p # None
  BY FilesAssumption DEF None
<1>3. ASSUME NEW p \in Procs, fd[p] # None
      PROVE  fd[p] \in Slots /\ file[fd[p]].ip \in Inodes \ {ROOTINO} /\ file[fd[p]].ref > 0
  <2>1. fd[p] \in Slots
    BY <1>3 DEF Typed
  <2>2. p \in Users(fd[p]) /\ file[fd[p]].ref = Cardinality(Users(fd[p]))
    BY <2>1 DEF Users, Table
  <2>3. file[fd[p]].ref # 0 /\ file[fd[p]].ref \in Nat /\ file[fd[p]].ip \in Inodes \cup {None}
    BY <1>1, <2>1, <2>2, FS_EmptySet DEF Typed
  <2> QED BY <2>1, <2>3 DEF Table
<1>4. \A i \in Inodes : lock[i] # None => lock[i] \in Procs /\ pc[lock[i]] = "block" /\ file[fd[lock[i]]].ip = i
  BY DEF Typed, Locks
<1>5. ROOTINO \in Inodes
  BY DEF Inodes
<1>6. \A p \in Procs : pc[p] = "block" => fd[p] # None
  BY DEF Locks
<1>7. \A p \in Procs : pc[p] = "block" =>
        fd[p] \in Slots /\ file[fd[p]].ip \in Inodes \ {ROOTINO} /\ lock[file[fd[p]].ip] = p
  BY <1>3, <1>6 DEF Locks
<1> QED BY <1>1, <1>2, <1>3, <1>4, <1>5, <1>7

\* A step that leaves files, and who writes to them, alone.
Leaves ==
  /\ UNCHANGED <<disk, used, dinode, mem, lock, logged, ref>>
  /\ \A p \in Procs : /\ pc'[p] = "block" <=> pc[p] = "block"
                      /\ pc[p] = "block" => /\ job'[p] = job[p] /\ fd'[p] = fd[p]
                                            /\ file'[fd[p]].ip = file[fd[p]].ip
                                            /\ file'[fd[p]].off = file[fd[p]].off
                      /\ pc'[p] # "idle" => fd'[p] # None
                      /\ job'[p].i <= job'[p].n

\* Such a step keeps what only writers change.
LEMMA Left ==
  ASSUME Typed, Running, Leaves
  PROVE  /\ Sound(disk, used, mem)' /\ Locks' /\ Written' /\ Saved' /\ Logging'
         /\ \A p \in Procs : Chunking(p)'
<1>1. Sound(disk, used, mem)'
  BY DEF Running, Leaves
<1>2. /\ \A p \in Procs : pc[p] = "block" =>
           fd[p] \in Slots /\ file[fd[p]].ip \in Inodes \ {ROOTINO} /\ lock[file[fd[p]].ip] = p
      /\ \A i \in Inodes : lock[i] # None =>
              /\ lock[i] \in Procs /\ pc[lock[i]] = "block" /\ file[fd[lock[i]]].ip = i
  BY TableFacts DEF Running
<1>3. \A p \in Procs : /\ pc'[p] = "block" <=> pc[p] = "block"
                       /\ pc[p] = "block" => /\ job'[p] = job[p] /\ fd'[p] = fd[p]
                                             /\ file'[fd[p]].ip = file[fd[p]].ip
                                             /\ file'[fd[p]].off = file[fd[p]].off
  BY DEF Leaves
<1>4. disk' = disk /\ mem' = mem /\ dinode' = dinode /\ lock' = lock /\ logged' = logged /\ ref' = ref
  BY DEF Leaves
<1>5. Locks'
  <2>1. \A p \in Procs : pc'[p] # "idle" => fd'[p] # None
    BY DEF Leaves
  <2>2. \A i \in Inodes, p \in Procs : lock[i] = p <=> pc[p] = "block" /\ file[fd[p]].ip = i
    BY DEF Running, Locks
  <2>3. \A i \in Inodes, p \in Procs : lock'[i] = p <=> pc'[p] = "block" /\ file'[fd'[p]].ip = i
    BY <1>3, <1>4, <2>2
  <2> QED BY <2>1, <2>3 DEF Locks
<1>6. \A i \in Inodes : Reached(i)' = Reached(i)
  BY <1>2, <1>3, <1>4 DEF Reached
<1>7. \A i \in Inodes : \A k : Now(i, k)' = Now(i, k)
  BY <1>2, <1>3, <1>4 DEF Now
<1>8. Written'
  BY <1>4, <1>6, <1>7 DEF Running, Written
<1>9. Saved'
  BY <1>4, <1>6 DEF Running, Saved
<1>10. Logging'
  <2>1. \A p \in Procs : pc[p] = "block" => Touched(p)' = Touched(p)
    BY <1>3, <1>4 DEF Touched
  <2>2. \A p \in Procs : logged[p] \subseteq (IF pc[p] = "block" /\ job[p].tot > 0 THEN Touched(p) \ {0} ELSE {})
    BY DEF Running, Logging
  <2> QED BY <1>3, <1>4, <2>1, <2>2 DEF Logging
<1>11. \A p \in Procs : Chunking(p)'
  BY <1>3 DEF Running, Chunking, Leaves
<1> QED BY <1>1, <1>5, <1>8, <1>9, <1>10, <1>11

\* Then what remains is who has which file.
LEMMA LeftRunning ==
  ASSUME Typed, Running, Leaves, Table', Offsets'
  PROVE  Running'
  BY Left DEF Running

\* A process opens a file.
LEMMA OpenRunning ==
  ASSUME Typed, Running, UNCHANGED mkfsVars, NEW p \in Procs, NEW i \in Inodes \ {ROOTINO}, Open(p, i)
  PROVE  Typed' /\ Running'
<1>1. PICK f \in Slots : /\ file[f].ref = 0
                         /\ file' = [file EXCEPT ![f] = [ip |-> i, off |-> 0, ref |-> 1]]
                         /\ fd' = [fd EXCEPT ![p] = f]
  BY DEF Open
<1>2. /\ pc[p] = "idle" /\ fd[p] = None
      /\ UNCHANGED <<disk, used, dinode, mem, lock, pc, job, logged, ref, writes, panicked>>
  BY DEF Open, fileVars
<1>3. /\ file \in [Slots -> [ip : Inodes \cup {None}, off : Nat, ref : Nat]]
      /\ fd \in [Procs -> Slots \cup {None}] /\ None \notin Slots /\ mem \in [Inodes -> Dinode]
  BY DEF Typed, Slots, None
<1>4. Table /\ Locks /\ Offsets
  BY DEF Running
<1>5. Users(f) = {}
  <2>1. IsFiniteSet(Users(f)) /\ Cardinality(Users(f)) = 0
    BY <1>1, <1>4, TableFacts DEF Table
  <2> QED BY <2>1, FS_EmptySet
<1>6. Typed'
  BY <1>1, <1>2, <1>3 DEF Typed, mkfsVars
<1>7. Leaves
  <2>1. \A q \in Procs : pc[q] = "block" => fd'[q] = fd[q] /\ fd[q] \in Slots /\ fd[q] # f
    BY <1>1, <1>2, <1>3, <1>4, <1>5 DEF Locks, Users
  <2>2. \A q \in Procs : pc[q] # "idle" => fd'[q] # None
    BY <1>1, <1>2, <1>3, <1>4 DEF Locks
  <2>3. \A q \in Procs : job[q].i <= job[q].n
    BY DEF Running, Chunking
  <2> QED BY <1>1, <1>2, <1>3, <2>1, <2>2, <2>3 DEF Leaves
<1>8. Table'
  <2>1. {q \in Procs : fd'[q] = f} = {p}
    BY <1>1, <1>3, <1>5 DEF Users
  <2>2. Cardinality({p}) = 1
    BY FS_Singleton
  <2>3. \A g \in Slots : g # f => {q \in Procs : fd'[q] = g} = {q \in Procs : fd[q] = g}
    BY <1>1, <1>2, <1>3
  <2>4. i # None
    BY DEF Inodes, None, ROOTINO, First, Second
  <2>5. file'[f] = [ip |-> i, off |-> 0, ref |-> 1] /\ \A g \in Slots : g # f => file'[g] = file[g]
    BY <1>1, <1>3
  <2>6. /\ file'[f].ref = Cardinality({q \in Procs : fd'[q] = f}) /\ file'[f].ref # 0
        /\ file'[f].ip # None /\ file'[f].ip # ROOTINO
    BY <2>1, <2>2, <2>4, <2>5
  <2>7. \A g \in Slots : /\ file[g].ref = Cardinality({q \in Procs : fd[q] = g})
                         /\ (file[g].ref = 0 <=> file[g].ip = None) /\ file[g].ip # ROOTINO
    BY <1>4 DEF Table, Users
  <2>8. \A g \in Slots : /\ file'[g].ref = Cardinality({q \in Procs : fd'[q] = g})
                         /\ (file'[g].ref = 0 <=> file'[g].ip = None) /\ file'[g].ip # ROOTINO
    BY <2>3, <2>5, <2>6, <2>7
  <2> QED BY <2>8 DEF Table, Users
<1>9. Offsets'
  BY <1>1, <1>2, <1>3, <1>4 DEF Offsets, Dinode
<1> QED BY <1>6, <1>7, <1>8, <1>9, LeftRunning

\* A child gets a file.
LEMMA ShareRunning ==
  ASSUME Typed, Running, UNCHANGED mkfsVars, NEW p \in Procs, NEW q \in Procs, Share(p, q)
  PROVE  Typed' /\ Running'
<1>1. PICK f : f = fd[p]
  OBVIOUS
<1>2. /\ f # None /\ pc[q] = "idle" /\ fd[q] = None
      /\ fd' = [fd EXCEPT ![q] = f] /\ file' = [file EXCEPT ![f].ref = @ + 1]
      /\ UNCHANGED <<disk, used, dinode, mem, lock, pc, job, logged, ref, writes, panicked>>
  BY <1>1 DEF Share, fileVars
<1>3. /\ file \in [Slots -> [ip : Inodes \cup {None}, off : Nat, ref : Nat]]
      /\ fd \in [Procs -> Slots \cup {None}] /\ None \notin Slots /\ mem \in [Inodes -> Dinode]
  BY DEF Typed, Slots, None
<1>4. Table /\ Locks /\ Offsets
  BY DEF Running
<1>5. f \in Slots /\ IsFiniteSet(Users(f)) /\ file[f].ref > 0
  BY <1>1, <1>2, <1>4, TableFacts
<1>6. /\ \A g \in Slots : file'[g].ip = file[g].ip /\ file'[g].off = file[g].off
      /\ file'[f].ref = file[f].ref + 1 /\ \A g \in Slots : g # f => file'[g] = file[g]
      /\ file' \in [Slots -> [ip : Inodes \cup {None}, off : Nat, ref : Nat]]
  BY <1>2, <1>3, <1>5
<1>7. Typed'
  BY <1>2, <1>3, <1>5, <1>6 DEF Typed, mkfsVars
<1>8. Leaves
  <2>1. \A r \in Procs : pc[r] = "block" => fd'[r] = fd[r] /\ fd[r] \in Slots
    BY <1>2, <1>3, <1>4 DEF Locks
  <2>2. \A r \in Procs : pc[r] # "idle" => fd'[r] # None
    BY <1>2, <1>3, <1>4 DEF Locks
  <2>3. \A r \in Procs : job[r].i <= job[r].n
    BY DEF Running, Chunking
  <2> QED BY <1>2, <1>6, <2>1, <2>2, <2>3 DEF Leaves
<1>9. Table'
  <2>1. {r \in Procs : fd'[r] = f} = Users(f) \cup {q} /\ q \notin Users(f)
    BY <1>2, <1>3, <1>5 DEF Users
  <2>2. Cardinality(Users(f) \cup {q}) = Cardinality(Users(f)) + 1
    BY <1>5, <2>1, FS_AddElement
  <2>3. \A g \in Slots : g # f => {r \in Procs : fd'[r] = g} = {r \in Procs : fd[r] = g}
    BY <1>2, <1>3
  <2>4. file[f].ref = Cardinality(Users(f)) /\ file[f].ip # None /\ file[f].ip # ROOTINO /\ file[f].ref \in Nat
    BY <1>3, <1>4, <1>5 DEF Table
  <2>5. /\ file'[f].ref = Cardinality(Users(f) \cup {q}) /\ file'[f].ref # 0 /\ file'[f].ip # None /\ file'[f].ip # ROOTINO
    BY <1>5, <1>6, <2>2, <2>4
  <2>6. \A g \in Slots : /\ file[g].ref = Cardinality({r \in Procs : fd[r] = g})
                         /\ (file[g].ref = 0 <=> file[g].ip = None) /\ file[g].ip # ROOTINO
    BY <1>4 DEF Table, Users
  <2>7. \A g \in Slots : /\ file'[g].ref = Cardinality({r \in Procs : fd'[r] = g})
                         /\ (file'[g].ref = 0 <=> file'[g].ip = None) /\ file'[g].ip # ROOTINO
    <3> SUFFICES ASSUME NEW g \in Slots
                 PROVE  /\ file'[g].ref = Cardinality({r \in Procs : fd'[r] = g})
                        /\ (file'[g].ref = 0 <=> file'[g].ip = None) /\ file'[g].ip # ROOTINO
      OBVIOUS
    <3>1. CASE g = f
      BY <2>1, <2>5, <3>1
    <3>2. CASE g # f
      BY <1>6, <2>3, <2>6, <3>2
    <3> QED BY <3>1, <3>2
  <2> QED BY <2>7 DEF Table, Users
<1>10. Offsets'
  BY <1>2, <1>4, <1>6 DEF Offsets
<1> QED BY <1>7, <1>8, <1>9, <1>10, LeftRunning

\* A file is closed.
LEMMA CloseRunning ==
  ASSUME Typed, Running, UNCHANGED mkfsVars, NEW p \in Procs, Close(p)
  PROVE  Typed' /\ Running'
<1>1. PICK f : f = fd[p]
  OBVIOUS
<1>2. /\ f # None /\ pc[p] = "idle" /\ fd' = [fd EXCEPT ![p] = None]
      /\ file' = IF file[f].ref = 1 THEN [file EXCEPT ![f] = NoFile]
                 ELSE [file EXCEPT ![f].ref = @ - 1]
      /\ UNCHANGED <<disk, used, dinode, mem, lock, pc, job, logged, ref, writes, panicked>>
  BY <1>1 DEF Close, fileVars
<1>3. /\ file \in [Slots -> [ip : Inodes \cup {None}, off : Nat, ref : Nat]]
      /\ fd \in [Procs -> Slots \cup {None}] /\ None \notin Slots /\ mem \in [Inodes -> Dinode]
      /\ NoFile \in [ip : Inodes \cup {None}, off : Nat, ref : Nat] /\ NoFile.ip = None /\ NoFile.ref = 0
  BY DEF Typed, Slots, None, NoFile
<1>4. Table /\ Locks /\ Offsets
  BY DEF Running
<1>5. f \in Slots /\ IsFiniteSet(Users(f)) /\ file[f].ref > 0 /\ p \in Users(f) /\ file[f].ref = Cardinality(Users(f))
      /\ file[f].ip # None /\ file[f].ip # ROOTINO /\ file[f].ref \in Nat
  <2>1. f \in Slots /\ IsFiniteSet(Users(f)) /\ file[f].ref > 0
    BY <1>1, <1>2, <1>4, TableFacts
  <2>2. p \in Users(f)
    BY <1>1 DEF Users
  <2>3. file[f].ref = Cardinality(Users(f)) /\ file[f].ref \in Nat /\ file[f].ip # ROOTINO /\ (file[f].ip = None => file[f].ref = 0)
    BY <1>3, <1>4, <2>1 DEF Table
  <2> QED BY <2>1, <2>2, <2>3
<1>6. {q \in Procs : fd'[q] = f} = Users(f) \ {p} /\ Cardinality(Users(f) \ {p}) = Cardinality(Users(f)) - 1 /\ IsFiniteSet(Users(f) \ {p})
  <2>1. {q \in Procs : fd'[q] = f} = Users(f) \ {p}
    BY <1>2, <1>3, <1>5 DEF Users
  <2> QED BY <1>5, <2>1, FS_RemoveElement
<1>7. \A g \in Slots : g # f => {q \in Procs : fd'[q] = g} = {q \in Procs : fd[q] = g}
  BY <1>1, <1>2, <1>3, <1>5
<1>8. \A g \in Slots : g # f => file'[g] = file[g]
  BY <1>2, <1>3
<1>9. \/ file[f].ref = 1 /\ file'[f] = NoFile
      \/ /\ file[f].ref > 1 /\ file'[f].ip = file[f].ip /\ file'[f].off = file[f].off
         /\ file'[f].ref = file[f].ref - 1
  <2>1. CASE file[f].ref = 1
    BY <1>2, <1>3, <1>5, <2>1
  <2>2. CASE file[f].ref # 1
    BY <1>2, <1>3, <1>5, <2>2
  <2> QED BY <2>1, <2>2
<1>10. file' \in [Slots -> [ip : Inodes \cup {None}, off : Nat, ref : Nat]] /\ fd' \in [Procs -> Slots \cup {None}]
  <2>1. file[f].ref # 1 => file[f].ref - 1 \in Nat
    BY <1>5
  <2>2. CASE file[f].ref = 1
    BY <1>2, <1>3, <2>2
  <2>3. CASE file[f].ref # 1
    BY <1>2, <1>3, <2>1, <2>3
  <2> QED BY <1>2, <1>3, <2>2, <2>3
<1>11. Typed'
  BY <1>2, <1>10 DEF Typed, mkfsVars
<1>12. Leaves
  <2>1. \A q \in Procs : pc[q] = "block" => fd'[q] = fd[q] /\ fd[q] \in Slots /\ q # p
    BY <1>2, <1>3, <1>4 DEF Locks
  <2>2. \A q \in Procs : q # p /\ q \in Users(f) => file[f].ref # 1
    <3> SUFFICES ASSUME NEW q \in Procs, q # p, q \in Users(f), file[f].ref = 1 PROVE FALSE
      OBVIOUS
    <3>1. Cardinality(Users(f) \ {p}) = 0 /\ q \in Users(f) \ {p}
      BY <1>5, <1>6
    <3> QED BY <1>6, <3>1, FS_EmptySet
  <2>3. \A q \in Procs : pc[q] = "block" => file'[fd[q]].ip = file[fd[q]].ip /\ file'[fd[q]].off = file[fd[q]].off
    BY <1>8, <1>9, <2>1, <2>2 DEF Users
  <2>4. \A q \in Procs : pc[q] # "idle" => fd'[q] # None
    BY <1>2, <1>3, <1>4 DEF Locks
  <2>5. \A q \in Procs : job[q].i <= job[q].n
    BY DEF Running, Chunking
  <2> QED BY <1>2, <2>1, <2>3, <2>4, <2>5 DEF Leaves
<1>13. Table'
  <2>1. /\ file'[f].ref = Cardinality(Users(f) \ {p}) /\ (file'[f].ref = 0 <=> file'[f].ip = None) /\ file'[f].ip # ROOTINO
    BY <1>3, <1>5, <1>6, <1>9 DEF None, ROOTINO
  <2> QED BY <1>4, <1>6, <1>7, <1>8, <2>1 DEF Table, Users
<1>14. Offsets'
  BY <1>2, <1>3, <1>4, <1>8, <1>9 DEF Offsets
<1> QED BY <1>11, <1>12, <1>13, <1>14, LeftRunning

-----------------------------------------------------------------------------
(* Reads and writes                                                        *)

\* A read moves the offset, not past the end.
LEMMA ReadRunning ==
  ASSUME Typed, Running, UNCHANGED mkfsVars, NEW p \in Procs, NEW n \in Sizes, Read(p, n)
  PROVE  Typed' /\ Running'
<1>1. PICK f, i, got : f = fd[p] /\ i = file[f].ip /\ got = Least(n, mem[i].size - file[f].off)
  OBVIOUS
<1>2. /\ f # None /\ pc[p] = "idle" /\ lock[i] = None /\ got > 0
      /\ file' = [file EXCEPT ![f].off = IF got > 0 THEN @ + got ELSE @]
      /\ panicked' \in BOOLEAN
      /\ UNCHANGED <<disk, used, dinode, mem, lock, fd, pc, job, logged, ref, writes>>
  BY <1>1 DEF Read
<1>3. /\ file \in [Slots -> [ip : Inodes \cup {None}, off : Nat, ref : Nat]]
      /\ mem \in [Inodes -> Dinode]
  BY DEF Typed
<1>4. Table /\ Locks /\ Offsets
  BY DEF Running
<1>5. f \in Slots /\ i \in Inodes /\ i # None
  <2>1. f \in Slots /\ i \in Inodes
    BY <1>1, <1>2, <1>4, TableFacts
  <2> QED BY <2>1 DEF Inodes, None, ROOTINO, First, Second
<1>6. /\ mem[i].size \in Nat /\ file[f].off \in Nat /\ n \in Nat
  BY <1>3, <1>5, FilesAssumption DEF Dinode
<1>7. got \in Nat /\ file[f].off + got <= mem[i].size
  BY <1>1, <1>2, <1>6 DEF Least
<1>8. /\ file' \in [Slots -> [ip : Inodes \cup {None}, off : Nat, ref : Nat]]
      /\ \A g \in Slots : file'[g].ip = file[g].ip /\ file'[g].ref = file[g].ref /\ (g # f => file'[g].off = file[g].off)
      /\ file'[f].off = file[f].off + got
  <2>1. file[f].off + got \in Nat
    BY <1>6, <1>7
  <2> QED BY <1>2, <1>3, <1>5, <2>1
<1>9. Typed'
  BY <1>2, <1>8 DEF Typed, mkfsVars
<1>10. Leaves
  <2>1. \A q \in Procs : pc[q] = "block" => fd[q] \in Slots /\ lock[file[fd[q]].ip] = q /\ q # None
    BY <1>4, TableFacts
  <2>2. \A q \in Procs : pc[q] = "block" => fd[q] # f
    BY <1>1, <1>2, <2>1
  <2>3. \A q \in Procs : pc[q] # "idle" => fd[q] # None
    BY <1>4 DEF Locks
  <2>4. \A q \in Procs : job[q].i <= job[q].n
    BY DEF Running, Chunking
  <2> QED BY <1>2, <1>8, <2>1, <2>2, <2>3, <2>4 DEF Leaves
<1>11. Table'
  BY <1>2, <1>4, <1>8 DEF Table, Users
<1>12. Offsets'
  <2> SUFFICES ASSUME NEW g \in Slots, file'[g].ip # None PROVE file'[g].off <= mem'[file'[g].ip].size
    BY DEF Offsets
  <2>1. CASE g = f
    BY <1>1, <1>2, <1>7, <1>8, <2>1
  <2>2. CASE g # f
    BY <1>2, <1>4, <1>8, <2>2 DEF Offsets
  <2> QED BY <2>1, <2>2
<1> QED BY <1>9, <1>10, <1>11, <1>12, LeftRunning

\* A write starts.
LEMMA WriteRunning ==
  ASSUME Typed, Running, UNCHANGED mkfsVars, NEW p \in Procs, NEW n \in Sizes, Write(p, n)
  PROVE  Typed' /\ Running'
<1>1. /\ pc[p] = "idle" /\ fd[p] # None
      /\ pc' = [pc EXCEPT ![p] = "begin"] /\ job' = [job EXCEPT ![p] = [NoJob EXCEPT !.n = n]]
      /\ writes' = writes + 1
      /\ UNCHANGED <<disk, used, dinode, mem, lock, file, fd, logged, ref, panicked>>
  BY DEF Write
<1>2. /\ pc \in [Procs -> {"idle", "begin", "block"}]
      /\ job \in [Procs -> [n : Nat, i : Nat, n1 : Nat, tot : Nat, off : Nat]]
  BY DEF Typed
<1>3. /\ [NoJob EXCEPT !.n = n] \in [n : Nat, i : Nat, n1 : Nat, tot : Nat, off : Nat]
      /\ [NoJob EXCEPT !.n = n].i <= [NoJob EXCEPT !.n = n].n
  BY FilesAssumption DEF NoJob
<1>4. Typed'
  <2>1. pc' \in [Procs -> {"idle", "begin", "block"}] /\ job' \in [Procs -> [n : Nat, i : Nat, n1 : Nat, tot : Nat, off : Nat]]
    BY <1>1, <1>2, <1>3
  <2>2. writes' \in Nat
    BY <1>1 DEF Typed
  <2> QED BY <1>1, <2>1, <2>2 DEF Typed, mkfsVars
<1>5. Leaves
  <2>1. \A q \in Procs : pc[q] # "idle" => fd[q] # None
    BY DEF Running, Locks
  <2>2. \A q \in Procs : job[q].i <= job[q].n
    BY DEF Running, Chunking
  <2>3. \A q \in Procs : q # p => job'[q] = job[q] /\ pc'[q] = pc[q]
    BY <1>1, <1>2
  <2>4. job'[p] = [NoJob EXCEPT !.n = n] /\ pc'[p] = "begin"
    BY <1>1, <1>2
  <2> QED BY <1>1, <1>3, <2>1, <2>2, <2>3, <2>4 DEF Leaves
<1>6. Table' /\ Offsets'
  BY <1>1 DEF Running, Table, Users, Offsets
<1> QED BY <1>4, <1>5, <1>6, LeftRunning

\* An inode that is removed is nobody's: its blocks are free, the others as before.
LEMMA UnlinkRunning ==
  ASSUME Typed, Running, UNCHANGED mkfsVars, NEW i \in Inodes, Unlink(i)
  PROVE  Typed' /\ Running'
<1>1. /\ i # ROOTINO /\ ~Opened(i) /\ panicked' \in BOOLEAN
      /\ used' = used \ itrunc(mem[i])
      /\ mem' = [mem EXCEPT ![i] = NewInode] /\ dinode' = [dinode EXCEPT ![i] = NewInode]
      /\ ref' = [ref EXCEPT ![i] = << >>]
      /\ UNCHANGED <<disk, lock, file, fd, pc, job, logged, writes>>
  BY DEF Unlink
<1>2. /\ disk \in Disk /\ mem \in [Inodes -> Dinode] /\ dinode \in [Inodes -> Dinode] /\ ref \in [Inodes -> Seq(Nat)]
      /\ used \in SUBSET Nat
  BY DEF Typed
<1>3. Sound(disk, used, mem) /\ Table /\ Locks /\ Offsets /\ Written /\ Saved /\ Logging
  BY DEF Running
<1>4. lock[i] = None /\ \A f \in Slots : file[f].ip # i
  BY <1>1, <1>3, TableFacts DEF Opened
<1>5. NewInode \in Dinode /\ NewInode.size = 0 /\ << >> \in Seq(Nat) /\ Len(<< >>) = 0
  BY FilesAssumption DEF NewInode, Dinode
<1>6. /\ mem' \in [Inodes -> Dinode] /\ mem'[i] = NewInode /\ dinode'[i] = NewInode /\ ref'[i] = << >>
      /\ \A j \in Inodes : j # i => mem'[j] = mem[j] /\ dinode'[j] = dinode[j] /\ ref'[j] = ref[j]
      /\ dinode' \in [Inodes -> Dinode] /\ ref' \in [Inodes -> Seq(Nat)]
  BY <1>1, <1>2, <1>5
<1>7. Typed'
  BY <1>1, <1>2, <1>6 DEF Typed, mkfsVars
<1>8. Sound(disk', used', mem')
  <2>1. itrunc(mem[i]) = AllOf(disk, mem[i])
    BY <1>2, ByPlaces
  <2>2. PICK D1, u1 : D1 = mem' /\ u1 = used'
    OBVIOUS
  <2>3. Sound(disk, u1, D1)
    BY <1>1, <1>2, <1>3, <2>1, <2>2, FreeSound
  <2> QED BY <1>1, <2>2, <2>3
<1>9. Table' /\ Locks'
  BY <1>1, <1>3 DEF Table, Users, Locks
<1>10. Offsets'
  <2>1. \A f \in Slots : file[f].ip # None => file[f].ip \in Inodes
    BY DEF Typed
  <2> QED BY <1>1, <1>3, <1>4, <1>6, <2>1 DEF Offsets
<1>11. \A j \in Inodes : j # i => Reached(j)' = Reached(j) /\ \A k : Now(j, k)' = Now(j, k)
  BY <1>1, <1>6 DEF Reached, Now
<1>12. Reached(i)' = 0
  BY <1>1, <1>4, <1>5, <1>6 DEF Reached
<1>13. Written'
  <2> SUFFICES ASSUME NEW j \in Inodes \ {ROOTINO}
               PROVE  /\ Backed(disk', mem'[j], Reached(j)') /\ Len(ref'[j]) = mem'[j].size
                      /\ \A k \in 0 .. Reached(j)' - 1 : UnitAt(disk', mem'[j], k) = Now(j, k)'
    BY DEF Written
  <2>1. CASE j = i
    <3>1. \A k \in 0 .. MAXFILE - 1 : ~(k * BSIZE < 0)
      BY PlacesFacts
    <3>2. 0 <= MAXFILE * BSIZE
      BY PlacesFacts
    <3> QED BY <1>5, <1>6, <1>12, <2>1, <3>1, <3>2 DEF Backed
  <2>2. CASE j # i
    BY <1>1, <1>3, <1>6, <1>11, <2>2 DEF Written
  <2> QED BY <2>1, <2>2
<1>14. Saved'
  BY <1>3, <1>6, <1>11 DEF Saved
<1>15. Logging'
  <2>1. \A q \in Procs : pc[q] = "block" => file[fd[q]].ip \in Inodes /\ file[fd[q]].ip # i
    BY <1>3, <1>4, TableFacts
  <2>2. \A q \in Procs : pc[q] = "block" => Touched(q)' = Touched(q)
    BY <1>1, <1>6, <2>1 DEF Touched
  <2>3. \A q \in Procs : logged[q] \subseteq (IF pc[q] = "block" /\ job[q].tot > 0 THEN Touched(q) \ {0} ELSE {})
    BY <1>3 DEF Logging
  <2> QED BY <1>1, <2>2, <2>3 DEF Logging
<1>16. \A q \in Procs : Chunking(q)'
  BY <1>1 DEF Running, Chunking
<1> QED BY <1>7, <1>8, <1>9, <1>10, <1>13, <1>14, <1>15, <1>16 DEF Running

\* What the cache drops is on the disk.
LEMMA ReloadRunning ==
  ASSUME Typed, Running, UNCHANGED mkfsVars, NEW i \in Inodes, Reload(i)
  PROVE  Typed' /\ Running'
<1>1. /\ ~Opened(i) /\ mem' = [mem EXCEPT ![i] = dinode[i]]
      /\ UNCHANGED <<disk, used, dinode, lock, file, fd, pc, job, logged, ref, writes, panicked>>
  BY DEF Reload
<1>2. Table /\ Locks /\ Saved /\ mem \in [Inodes -> Dinode]
  BY DEF Running, Typed
<1>3. lock[i] = None
  BY <1>1, <1>2, TableFacts DEF Opened
<1>4. Reached(i) = mem[i].size /\ mem[i].size \in Nat
  BY <1>2, <1>3 DEF Reached, Dinode
<1>5. mem[i] = dinode[i]
  BY <1>2, <1>4 DEF Saved
<1>6. mem' = mem
  BY <1>1, <1>2, <1>5
<1>7. Typed'
  BY <1>1, <1>6 DEF Typed, mkfsVars
<1>8. Leaves
  BY <1>1, <1>6 DEF Running, Leaves, Locks, Chunking
<1>9. Table' /\ Offsets'
  BY <1>1, <1>6 DEF Running, Table, Users, Offsets
<1> QED BY <1>7, <1>8, <1>9, LeftRunning

\* A chunk of filewrite in blocks.
ChunkBlocks == (MAXOPBLOCKS - 1 - 1 - 2) \div 2

\* Its number of blocks.
LEMMA ChunkFacts ==
  /\ ChunkBlocks \in Nat /\ 2 * ChunkBlocks <= MAXOPBLOCKS - 4 /\ ChunkBlocks >= 1
  /\ Chunk = ChunkBlocks * BSIZE /\ Chunk \in Nat
<1>1. ChunkBlocks \in Nat /\ 2 * ChunkBlocks <= MAXOPBLOCKS - 4 /\ ChunkBlocks >= 1
  BY FilesAssumption DEF ChunkBlocks
<1>2. Chunk = ChunkBlocks * BSIZE
  BY DEF Chunk, ChunkBlocks
<1>3. ChunkBlocks * BSIZE \in Nat
  BY <1>1, PlacesFacts
<1> QED BY <1>1, <1>2, <1>3

\* p takes the inode's lock, or gives up.
LEMMA BeginChunkRunning ==
  ASSUME Typed, Running, UNCHANGED mkfsVars, NEW p \in Procs, BeginChunk(p)
  PROVE  Typed' /\ Running'
<1>1. PICK f, i, base, n1 : f = fd[p] /\ i = file[f].ip /\ base = file[f].off
                            /\ n1 = Least(job[p].n - job[p].i, Chunk)
  OBVIOUS
<1>2. /\ pc[p] = "begin" /\ lock[i] = None
      /\ UNCHANGED <<disk, used, dinode, mem, file, fd, logged, ref, writes, panicked>>
      /\ \/ /\ pc' = [pc EXCEPT ![p] = "idle"] /\ job' = [job EXCEPT ![p] = NoJob] /\ lock' = lock
         \/ /\ base + n1 <= MAXFILE * BSIZE \/ ~(base + n1 > MAXFILE * BSIZE)
            /\ pc' = [pc EXCEPT ![p] = "block"] /\ lock' = [lock EXCEPT ![i] = p]
            /\ job' = [job EXCEPT ![p].n1 = n1, ![p].tot = 0, ![p].off = base]
  BY <1>1 DEF BeginChunk
<1>3. /\ pc \in [Procs -> {"idle", "begin", "block"}] /\ lock \in [Inodes -> Procs \cup {None}]
      /\ job \in [Procs -> [n : Nat, i : Nat, n1 : Nat, tot : Nat, off : Nat]]
      /\ file \in [Slots -> [ip : Inodes \cup {None}, off : Nat, ref : Nat]]
      /\ mem \in [Inodes -> Dinode]
  BY DEF Typed
<1>4. Table /\ Locks /\ Offsets /\ Sound(disk, used, mem) /\ Written /\ Saved /\ Logging /\ \A q \in Procs : Chunking(q)
  BY DEF Running
<1>5. f \in Slots /\ i \in Inodes \ {ROOTINO} /\ i # None /\ base \in Nat /\ base <= mem[i].size /\ mem[i].size \in Nat
  <2>1. f # None
    BY <1>1, <1>2, <1>4 DEF Locks
  <2>2. f \in Slots /\ i \in Inodes \ {ROOTINO}
    BY <1>1, <1>4, <2>1, TableFacts
  <2>3. i # None
    BY <2>2 DEF Inodes, None, ROOTINO, First, Second
  <2> QED BY <1>1, <1>3, <1>4, <2>2, <2>3 DEF Offsets, Dinode
<1>6. Table' /\ Offsets'
  BY <1>2, <1>4 DEF Table, Users, Offsets
<1>7. CASE pc' = [pc EXCEPT ![p] = "idle"] /\ job' = [job EXCEPT ![p] = NoJob] /\ lock' = lock
  <2>1. NoJob \in [n : Nat, i : Nat, n1 : Nat, tot : Nat, off : Nat] /\ NoJob.i <= NoJob.n
    BY DEF NoJob
  <2>2. /\ pc' \in [Procs -> {"idle", "begin", "block"}]
        /\ job' \in [Procs -> [n : Nat, i : Nat, n1 : Nat, tot : Nat, off : Nat]]
    BY <1>3, <1>7, <2>1
  <2>3. Typed'
    BY <1>2, <1>7, <2>2 DEF Typed, mkfsVars
  <2>4. \A q \in Procs : q # p => job'[q] = job[q] /\ pc'[q] = pc[q]
    BY <1>3, <1>7
  <2>5. pc'[p] = "idle" /\ job'[p] = NoJob
    BY <1>3, <1>7
  <2>6. Leaves
    <3>1. \A q \in Procs : job[q].i <= job[q].n
      BY <1>4 DEF Chunking
    <3>2. \A q \in Procs : pc[q] # "idle" => fd[q] # None
      BY <1>4 DEF Locks
    <3> QED BY <1>2, <1>7, <2>1, <2>4, <2>5, <3>1, <3>2 DEF Leaves
  <2> QED BY <1>6, <2>3, <2>6, LeftRunning
<1>8. CASE /\ base + n1 <= MAXFILE * BSIZE \/ ~(base + n1 > MAXFILE * BSIZE)
           /\ pc' = [pc EXCEPT ![p] = "block"] /\ lock' = [lock EXCEPT ![i] = p]
           /\ job' = [job EXCEPT ![p].n1 = n1, ![p].tot = 0, ![p].off = base]
  <2>1. n1 \in Nat /\ n1 <= Chunk /\ job[p].i + n1 <= job[p].n /\ job[p].n \in Nat /\ job[p].i \in Nat
    BY <1>1, <1>3, <1>4, ChunkFacts DEF Least, Chunking
  <2>2. base + n1 <= MAXFILE * BSIZE
    <3>1. MAXFILE * BSIZE \in Nat
      BY PlacesFacts
    <3> QED BY <1>5, <1>8, <2>1, <3>1
  <2>3. /\ \A q \in Procs : q # p => job'[q] = job[q] /\ pc'[q] = pc[q]
        /\ \A j \in Inodes : j # i => lock'[j] = lock[j]
        /\ pc'[p] = "block" /\ lock'[i] = p
        /\ job'[p].n = job[p].n /\ job'[p].i = job[p].i /\ job'[p].n1 = n1 /\ job'[p].tot = 0 /\ job'[p].off = base
        /\ job' \in [Procs -> [n : Nat, i : Nat, n1 : Nat, tot : Nat, off : Nat]]
        /\ pc' \in [Procs -> {"idle", "begin", "block"}] /\ lock' \in [Inodes -> Procs \cup {None}]
    <3>1. [job[p] EXCEPT !.n1 = n1, !.tot = 0, !.off = base] \in [n : Nat, i : Nat, n1 : Nat, tot : Nat, off : Nat]
      BY <1>3, <1>5, <2>1
    <3>2. job' = [job EXCEPT ![p] = [job[p] EXCEPT !.n1 = n1, !.tot = 0, !.off = base]]
      BY <1>3, <1>8
    <3> QED BY <1>3, <1>5, <1>8, <3>1, <3>2
  <2>4. Typed'
    BY <1>2, <2>3 DEF Typed, mkfsVars
  <2>5. /\ \A q \in Procs : pc[q] # "idle" => fd[q] # None
        /\ \A j \in Inodes, q \in Procs : lock[j] = q <=> pc[q] = "block" /\ file[fd[q]].ip = j
        /\ \A q \in Procs : q # None
    BY <1>4, TableFacts DEF Locks
  <2>6. Locks'
    <3>1. \A q \in Procs : pc'[q] # "idle" => fd'[q] # None
      BY <1>2, <2>3, <2>5
    <3>2. ASSUME NEW j \in Inodes, NEW q \in Procs
          PROVE  lock'[j] = q <=> pc'[q] = "block" /\ file'[fd'[q]].ip = j
      <4>1. CASE j = i
        BY <1>1, <1>2, <2>3, <2>5, <4>1
      <4>2. CASE j # i
        BY <1>1, <1>2, <2>3, <2>5, <4>2
      <4> QED BY <4>1, <4>2
    <3> QED BY <3>1, <3>2 DEF Locks
  <2>7. \A j \in Inodes : j # i /\ lock[j] # None => lock[j] # p /\ lock[j] \in Procs
    BY <1>2, <1>3, <2>5
  <2>8. ASSUME NEW j \in Inodes PROVE Reached(j)' = Reached(j) /\ \A k \in Nat : Now(j, k)' = Now(j, k)
    <3>1. CASE j = i
      <4>1. Reached(i)' = mem[i].size /\ Reached(i) = mem[i].size
        BY <1>2, <1>5, <2>3, <2>5 DEF Reached
      <4>2. \A k \in Nat : Now(i, k)' = ref[i][k + 1] /\ Now(i, k) = ref[i][k + 1]
        BY <1>1, <1>2, <1>5, <2>3, <2>5 DEF Now
      <4> QED BY <3>1, <4>1, <4>2
    <3>2. CASE j # i
      BY <1>2, <2>3, <2>7, <3>2 DEF Reached, Now
    <3> QED BY <3>1, <3>2
  <2>9. Written'
    <3> SUFFICES ASSUME NEW j \in Inodes \ {ROOTINO}
                 PROVE  /\ Backed(disk', mem'[j], Reached(j)') /\ Len(ref'[j]) = mem'[j].size
                        /\ \A k \in 0 .. Reached(j)' - 1 : UnitAt(disk', mem'[j], k) = Now(j, k)'
      BY DEF Written
    <3>1. \A k \in 0 .. Reached(j) - 1 : k \in Nat
      OBVIOUS
    <3> QED BY <1>2, <1>4, <2>8, <3>1 DEF Written
  <2>10. Saved'
    BY <1>2, <1>4, <2>8 DEF Saved
  <2>11. Logging'
    <3>1. \A q \in Procs : q # p => Touched(q)' = Touched(q)
      BY <1>2, <2>3 DEF Touched
    <3>2. \A q \in Procs : logged[q] \subseteq (IF pc[q] = "block" /\ job[q].tot > 0 THEN Touched(q) \ {0} ELSE {})
      BY <1>4 DEF Logging
    <3>3. logged'[p] = {} /\ ~(job'[p].tot > 0)
      BY <1>2, <2>3, <3>2
    <3> QED BY <1>2, <2>3, <3>1, <3>2, <3>3 DEF Logging
  <2>12. \A q \in Procs : Chunking(q)'
    <3>1. Chunking(p)'
      BY <1>1, <1>2, <1>5, <2>1, <2>2, <2>3 DEF Chunking
    <3>2. \A q \in Procs : q # p => Chunking(q)'
      BY <1>2, <1>4, <2>3 DEF Chunking
    <3> QED BY <3>1, <3>2
  <2> QED BY <1>2, <1>4, <1>6, <2>4, <2>6, <2>9, <2>10, <2>11, <2>12 DEF Running
<1> QED BY <1>2, <1>7, <1>8

\* The chunk is complete: the file's size and its history follow.
LEMMA EndChunkRunning ==
  ASSUME Typed, Running, UNCHANGED mkfsVars, NEW p \in Procs, EndChunk(p)
  PROVE  Typed' /\ Running'
<1>1. PICK f, i, base, j : f = fd[p] /\ i = file[f].ip /\ base = file[f].off /\ j = job[p]
  OBVIOUS
<1>2. /\ pc[p] = "block" /\ j.tot = j.n1
      /\ mem' = IF j.off > mem[i].size THEN [mem EXCEPT ![i].size = j.off] ELSE mem
      /\ dinode' = IF j.off > mem[i].size THEN [dinode EXCEPT ![i] = mem'[i]] ELSE dinode
      /\ logged' = [logged EXCEPT ![p] = {}]
      /\ ref' = [ref EXCEPT ![i] = Overlay(p, ref[i], base, j)]
      /\ file' = [file EXCEPT ![f].off = @ + j.n1]
      /\ lock' = [lock EXCEPT ![i] = None]
      /\ pc' = [pc EXCEPT ![p] = IF j.i + j.n1 < j.n THEN "begin" ELSE "idle"]
      /\ job' = [job EXCEPT ![p] = IF j.i + j.n1 < j.n THEN [j EXCEPT !.i = @ + j.n1] ELSE NoJob]
      /\ UNCHANGED <<disk, used, fd, writes, panicked>>
  BY <1>1 DEF EndChunk, Grown
<1>3. /\ pc \in [Procs -> {"idle", "begin", "block"}] /\ lock \in [Inodes -> Procs \cup {None}]
      /\ job \in [Procs -> [n : Nat, i : Nat, n1 : Nat, tot : Nat, off : Nat]]
      /\ file \in [Slots -> [ip : Inodes \cup {None}, off : Nat, ref : Nat]]
      /\ mem \in [Inodes -> Dinode] /\ dinode \in [Inodes -> Dinode]
      /\ ref \in [Inodes -> Seq(Nat)] /\ logged \in [Procs -> SUBSET Nat]
  BY DEF Typed
<1>4. Table /\ Locks /\ Offsets /\ Sound(disk, used, mem) /\ Written /\ Saved /\ Logging /\ \A q \in Procs : Chunking(q)
  BY DEF Running
<1>5. /\ f \in Slots /\ i \in Inodes \ {ROOTINO} /\ i # None /\ lock[i] = p
      /\ \A q \in Procs : q # None /\ (pc[q] = "block" /\ q # p => fd[q] \in Slots /\ fd[q] # f /\ file[fd[q]].ip # i)
  <2>1. \A q \in Procs : pc[q] = "block" =>
          fd[q] \in Slots /\ file[fd[q]].ip \in Inodes \ {ROOTINO} /\ lock[file[fd[q]].ip] = q
    BY <1>4, TableFacts
  <2>2. \A q \in Procs : q # None
    BY <1>4, TableFacts
  <2>3. i # None
    BY <1>1, <1>2, <2>1 DEF Inodes, None, ROOTINO, First, Second
  <2> QED BY <1>1, <1>2, <2>1, <2>2, <2>3
<1>6. /\ j \in [n : Nat, i : Nat, n1 : Nat, tot : Nat, off : Nat] /\ base \in Nat /\ mem[i].size \in Nat
      /\ base <= mem[i].size /\ j.off = base + j.n1 /\ j.i + j.n1 <= j.n
  BY <1>1, <1>2, <1>3, <1>4, <1>5 DEF Offsets, Chunking, Dinode
<1>7. PICK top : top = IF j.off > mem[i].size THEN j.off ELSE mem[i].size
  OBVIOUS
<1>8. top \in Nat /\ top >= mem[i].size /\ top >= j.off /\ top = Reached(i)
  BY <1>1, <1>5, <1>6, <1>7 DEF Reached
<1>9. /\ mem' \in [Inodes -> Dinode] /\ mem'[i].size = top /\ mem'[i].addrs = mem[i].addrs
      /\ \A k \in Inodes : k # i => mem'[k] = mem[k]
  <2>1. CASE j.off > mem[i].size
    <3>1. PICK d : d = [mem[i] EXCEPT !.size = j.off]
      OBVIOUS
    <3>2. mem[i] \in Dinode /\ j.off \in Nat
      BY <1>3, <1>5, <1>6
    <3>3. d \in Dinode /\ d.size = j.off /\ d.addrs = mem[i].addrs
      BY <3>1, <3>2 DEF Dinode
    <3>4. mem' = [mem EXCEPT ![i] = d]
      BY <1>2, <2>1, <3>1
    <3> QED BY <1>3, <1>5, <1>7, <2>1, <3>3, <3>4
  <2>2. CASE ~(j.off > mem[i].size)
    BY <1>2, <1>3, <1>7, <2>2
  <2> QED BY <2>1, <2>2
<1>10. /\ dinode' \in [Inodes -> Dinode] /\ \A k \in Inodes : k # i => dinode'[k] = dinode[k]
      /\ mem'[i] = dinode'[i]
  <2>1. CASE j.off > mem[i].size
    BY <1>2, <1>3, <1>5, <1>9, <2>1
  <2>2. CASE ~(j.off > mem[i].size)
    <3>1. mem[i] = dinode[i]
      BY <1>4, <1>5, <1>6, <1>7, <1>8, <2>2 DEF Saved
    <3> QED BY <1>2, <1>3, <2>2, <3>1
  <2> QED BY <2>1, <2>2
<1>11. Sound(disk, used, mem') /\ Same(disk, mem, mem')
  <2>1. PICK D2 : D2 = mem'
    OBVIOUS
  <2>2. \A k \in Inodes : D2[k].addrs = mem[k].addrs
    BY <1>9, <2>1
  <2>3. Sound(disk, used, D2) /\ Same(disk, mem, D2)
    BY <1>4, <2>2, SizeSound
  <2> QED BY <2>1, <2>3
<1>12. /\ \A g \in Slots : file'[g].ip = file[g].ip /\ file'[g].ref = file[g].ref /\ (g # f => file'[g].off = file[g].off)
       /\ file'[f].off = j.off /\ file' \in [Slots -> [ip : Inodes \cup {None}, off : Nat, ref : Nat]]
  <2>1. file[f].off + j.n1 = j.off /\ j.off \in Nat
    BY <1>1, <1>6
  <2>2. PICK g : g = [file[f] EXCEPT !.off = j.off]
    OBVIOUS
  <2>3. file[f] \in [ip : Inodes \cup {None}, off : Nat, ref : Nat]
    BY <1>3, <1>5
  <2>4. g \in [ip : Inodes \cup {None}, off : Nat, ref : Nat] /\ g.ip = file[f].ip /\ g.ref = file[f].ref /\ g.off = j.off
    BY <2>1, <2>2, <2>3
  <2>5. file' = [file EXCEPT ![f] = g]
    BY <1>2, <2>1, <2>2
  <2> QED BY <1>3, <1>5, <2>4, <2>5
<1>13. /\ \A q \in Procs : q # p => job'[q] = job[q] /\ pc'[q] = pc[q] /\ logged'[q] = logged[q]
       /\ \A k \in Inodes : k # i => lock'[k] = lock[k] /\ ref'[k] = ref[k]
       /\ pc'[p] # "block" /\ lock'[i] = None /\ logged'[p] = {} /\ job'[p].i <= job'[p].n
       /\ job' \in [Procs -> [n : Nat, i : Nat, n1 : Nat, tot : Nat, off : Nat]]
       /\ pc' \in [Procs -> {"idle", "begin", "block"}] /\ lock' \in [Inodes -> Procs \cup {None}]
       /\ logged' \in [Procs -> SUBSET Nat]
  <2>1. PICK j2 : j2 = IF j.i + j.n1 < j.n THEN [j EXCEPT !.i = @ + j.n1] ELSE NoJob
    OBVIOUS
  <2>2. j2 \in [n : Nat, i : Nat, n1 : Nat, tot : Nat, off : Nat] /\ j2.i <= j2.n
    <3>1. CASE j.i + j.n1 < j.n
      BY <1>6, <2>1, <3>1
    <3>2. CASE ~(j.i + j.n1 < j.n)
      BY <2>1, <3>2 DEF NoJob
    <3> QED BY <3>1, <3>2
  <2>3. job' = [job EXCEPT ![p] = j2]
    BY <1>2, <2>1
  <2>4. job' \in [Procs -> [n : Nat, i : Nat, n1 : Nat, tot : Nat, off : Nat]] /\ job'[p].i <= job'[p].n
        /\ \A q \in Procs : q # p => job'[q] = job[q]
    BY <1>3, <2>2, <2>3
  <2>5. PICK w \in {"begin", "idle"} : pc' = [pc EXCEPT ![p] = w]
    BY <1>2
  <2>6. /\ pc' \in [Procs -> {"idle", "begin", "block"}] /\ pc'[p] # "block"
        /\ \A q \in Procs : q # p => pc'[q] = pc[q]
    BY <1>3, <2>5
  <2>7. /\ logged' \in [Procs -> SUBSET Nat] /\ logged'[p] = {}
        /\ \A q \in Procs : q # p => logged'[q] = logged[q]
    BY <1>2, <1>3
  <2>8. /\ lock' \in [Inodes -> Procs \cup {None}] /\ lock'[i] = None
        /\ \A k \in Inodes : k # i => lock'[k] = lock[k] /\ ref'[k] = ref[k]
    BY <1>2, <1>3, <1>5
  <2> QED BY <2>4, <2>6, <2>7, <2>8
<1>14. /\ Len(ref'[i]) = top /\ ref'[i] \in Seq(Nat)
       /\ \A k \in 0 .. top - 1 : ref'[i][k + 1] = Now(i, k)
  <2>1. ref'[i] = Overlay(p, ref[i], base, j)
    BY <1>2, <1>3, <1>5
  <2>2. Len(ref[i]) = mem[i].size /\ ref[i] \in Seq(Nat)
    BY <1>3, <1>4, <1>5 DEF Written
  <2>3. ref'[i] = [k \in 1 .. top |-> IF k \in base + 1 .. base + j.n1 THEN Source(p, j.i + k - base - 1) ELSE ref[i][k]]
    BY <1>6, <1>7, <2>1, <2>2 DEF Overlay
  <2>4. ASSUME NEW k \in 1 .. top
        PROVE  (IF k \in base + 1 .. base + j.n1 THEN Source(p, j.i + k - base - 1) ELSE ref[i][k]) \in Nat
    <3>1. CASE k \in base + 1 .. base + j.n1
      <4>1. j.i + k - base - 1 \in Nat /\ p \in Nat
        BY <1>6, <3>1, FilesAssumption
      <4> QED BY <3>1, <4>1 DEF Source
    <3>2. CASE k \notin base + 1 .. base + j.n1
      <4>1. k \in 1 .. Len(ref[i])
        BY <1>6, <1>7, <1>8, <2>2, <3>2
      <4> QED BY <2>2, <3>2, <4>1
    <3> QED BY <3>1, <3>2
  <2>5. ref'[i] \in [1 .. top -> Nat]
    BY <2>3, <2>4
  <2>6. ref'[i] \in Seq(Nat) /\ Len(ref'[i]) = top
    BY <1>8, <2>5, SeqDef
  <2>7. ASSUME NEW k \in 0 .. top - 1 PROVE ref'[i][k + 1] = Now(i, k)
    <3>1. k + 1 \in 1 .. top /\ (k + 1 \in base + 1 .. base + j.n1 <=> k \in base .. j.off - 1)
          /\ j.i + (k + 1) - base - 1 = j.i + k - base
      BY <1>6, <1>8
    <3>2. ref'[i][k + 1] = IF k \in base .. j.off - 1 THEN Source(p, j.i + k - base) ELSE ref[i][k + 1]
      BY <2>3, <3>1
    <3> QED BY <1>1, <1>5, <3>2 DEF Now
  <2> QED BY <2>6, <2>7
<1>15. Typed'
  <2>1. ref' \in [Inodes -> Seq(Nat)]
    BY <1>2, <1>3, <1>5, <1>14
  <2> QED BY <1>2, <1>9, <1>10, <1>12, <1>13, <2>1 DEF Typed, mkfsVars
<1>16. Table'
  BY <1>2, <1>4, <1>12 DEF Table, Users
<1>17. Locks'
  <2>1. \A q \in Procs : pc'[q] # "idle" => fd'[q] # None
    BY <1>1, <1>2, <1>4, <1>5, <1>13 DEF Locks, Slots, None
  <2>2. ASSUME NEW k \in Inodes, NEW q \in Procs
        PROVE  lock'[k] = q <=> pc'[q] = "block" /\ file'[fd'[q]].ip = k
    <3>1. CASE q = p
      <4>1. k # i => lock[k] # p
        BY <1>1, <1>4 DEF Locks
      <4> QED BY <1>5, <1>13, <3>1, <4>1
    <3>2. CASE q # p
      <4>1. pc[q] = "block" => file'[fd'[q]].ip = file[fd[q]].ip
        BY <1>2, <1>5, <1>12, <3>2
      <4>2. lock[k] = q <=> pc[q] = "block" /\ file[fd[q]].ip = k
        BY <1>4 DEF Locks
      <4> QED BY <1>5, <1>13, <3>2, <4>1, <4>2
    <3> QED BY <3>1, <3>2
  <2> QED BY <2>1, <2>2 DEF Locks
<1>18. Offsets'
  <2> SUFFICES ASSUME NEW g \in Slots, file'[g].ip # None PROVE file'[g].off <= mem'[file'[g].ip].size
    BY DEF Offsets
  <2>1. CASE g = f
    BY <1>1, <1>8, <1>9, <1>12, <2>1
  <2>2. CASE g # f
    <3>1. file[g].ip \in Inodes /\ file[g].off \in Nat /\ file[g].off <= mem[file[g].ip].size
          /\ file'[g].ip = file[g].ip /\ file'[g].off = file[g].off
      BY <1>3, <1>4, <1>12, <2>2 DEF Offsets
    <3>2. mem'[file[g].ip].size >= mem[file[g].ip].size /\ mem'[file[g].ip].size \in Nat /\ mem[file[g].ip].size \in Nat
      <4>1. \A k \in Inodes : mem[k].size \in Nat
        BY <1>3 DEF Dinode
      <4>2. CASE file[g].ip = i
        BY <1>6, <1>8, <1>9, <4>2
      <4>3. CASE file[g].ip # i
        BY <1>9, <3>1, <4>1, <4>3
      <4> QED BY <4>2, <4>3
    <3> QED BY <3>1, <3>2
  <2> QED BY <2>1, <2>2
<1>19. \A k \in Inodes : k # i /\ lock[k] # None =>
         lock[k] # p /\ lock[k] \in Procs /\ fd[lock[k]] \in Slots /\ fd[lock[k]] # f
  <2>1. \A k \in Inodes : lock[k] # None => lock[k] \in Procs /\ pc[lock[k]] = "block" /\ file[fd[lock[k]]].ip = k
    BY <1>4, TableFacts
  <2> QED BY <1>1, <1>5, <2>1
<1>20. ASSUME NEW k \in Inodes, k # i PROVE Reached(k)' = Reached(k) /\ \A n : Now(k, n)' = Now(k, n)
  BY <1>2, <1>9, <1>12, <1>13, <1>19, <1>20 DEF Reached, Now
<1>21. Reached(i)' = top /\ \A n : Now(i, n)' = ref'[i][n + 1]
  BY <1>9, <1>13 DEF Reached, Now
<1>22. Written'
  <2> SUFFICES ASSUME NEW k \in Inodes \ {ROOTINO}
               PROVE  /\ Backed(disk', mem'[k], Reached(k)') /\ Len(ref'[k]) = mem'[k].size
                      /\ \A n \in 0 .. Reached(k)' - 1 : UnitAt(disk', mem'[k], n) = Now(k, n)'
    BY DEF Written
  <2>1. CASE k = i
    <3>1. Backed(disk, mem[i], top) /\ \A n \in 0 .. top - 1 : UnitAt(disk, mem[i], n) = Now(i, n)
      BY <1>4, <1>5, <1>8 DEF Written
    <3>2. \A n \in 0 .. MAXFILE - 1 : At(disk, mem'[i], n) = At(disk, mem[i], n)
      BY <1>5, <1>11, PlacesFacts DEF Same
    <3>3. Backed(disk, mem'[i], top)
      BY <3>1, <3>2 DEF Backed
    <3>4. \A n : UnitAt(disk, mem'[i], n) = UnitAt(disk, mem[i], n)
      BY <1>5, <1>11 DEF Same
    <3>5. \A n \in 0 .. top - 1 : UnitAt(disk, mem'[i], n) = Now(i, n)'
      <4> SUFFICES ASSUME NEW n \in 0 .. top - 1 PROVE UnitAt(disk, mem'[i], n) = Now(i, n)'
        OBVIOUS
      <4>1. UnitAt(disk, mem[i], n) = Now(i, n) /\ ref'[i][n + 1] = Now(i, n)
        BY <1>14, <3>1
      <4>2. Now(i, n)' = ref'[i][n + 1]
        BY <1>21
      <4> QED BY <3>4, <4>1, <4>2
    <3> QED BY <1>2, <1>9, <1>14, <1>21, <2>1, <3>3, <3>5
  <2>2. CASE k # i
    BY <1>2, <1>4, <1>9, <1>13, <1>20, <2>2 DEF Written
  <2> QED BY <2>1, <2>2
<1>23. Saved'
  <2>1. \A k \in Inodes : k # i => mem'[k] = dinode'[k] \/ Reached(k)' > mem'[k].size
    BY <1>4, <1>9, <1>10, <1>20 DEF Saved
  <2> QED BY <1>10, <2>1 DEF Saved
<1>24. Logging'
  <2>1. \A q \in Procs : q # p /\ pc[q] = "block" => Touched(q)' = Touched(q)
    <3> SUFFICES ASSUME NEW q \in Procs, q # p, pc[q] = "block" PROVE Touched(q)' = Touched(q)
      OBVIOUS
    <3>1. file[fd[q]].ip \in Inodes
      BY <1>3, <1>4, TableFacts
    <3>2. mem'[file[fd[q]].ip] = mem[file[fd[q]].ip] /\ file'[fd[q]].ip = file[fd[q]].ip /\ file'[fd[q]].off = file[fd[q]].off
      BY <1>5, <1>9, <1>12, <3>1
    <3> QED BY <1>2, <1>13, <3>2 DEF Touched
  <2>2. \A q \in Procs : logged[q] \subseteq (IF pc[q] = "block" /\ job[q].tot > 0 THEN Touched(q) \ {0} ELSE {})
    BY <1>4 DEF Logging
  <2>3. ASSUME NEW q \in Procs
        PROVE  logged'[q] \subseteq (IF pc'[q] = "block" /\ job'[q].tot > 0 THEN Touched(q)' \ {0} ELSE {})
    <3>1. CASE q = p
      BY <1>13, <3>1
    <3>2. CASE q # p
      BY <1>13, <2>1, <2>2, <3>2
    <3> QED BY <3>1, <3>2
  <2> QED BY <2>3 DEF Logging
<1>25. \A q \in Procs : Chunking(q)'
  <2>1. Chunking(p)'
    BY <1>13 DEF Chunking
  <2>2. \A q \in Procs : q # p => Chunking(q)'
    BY <1>2, <1>4, <1>5, <1>12, <1>13 DEF Chunking
  <2> QED BY <2>1, <2>2
<1>26. Sound(disk, used, mem)'
  BY <1>2, <1>11
<1> QED BY <1>15, <1>16, <1>17, <1>18, <1>22, <1>23, <1>24, <1>25, <1>26 DEF Running

\* Blocks come in the order of their units.
LEMMA InOrder ==
  ASSUME NEW m \in Nat, NEW n \in Nat, m <= n
  PROVE  m \div BSIZE \in Nat /\ n \div BSIZE \in Nat /\ m \div BSIZE <= n \div BSIZE
<1>1. BSIZE \in Nat \ {0}
  BY FilesAssumption
<1>2. PICK k : k = m \div BSIZE
  OBVIOUS
<1>3. k \in Nat /\ k * BSIZE \in Nat /\ n \div BSIZE \in Nat
  BY <1>1, <1>2, Quotient
<1>4. k * BSIZE <= m
  <2>1. k <= m \div BSIZE
    BY <1>2, <1>3
  <2> QED BY <1>1, <1>3, <2>1, Before
<1>5. k * BSIZE <= n
  BY <1>1, <1>3, <1>4
<1>6. k <= n \div BSIZE
  BY <1>1, <1>3, <1>5, Before
<1> QED BY <1>2, <1>3, <1>6

\* The places a transaction has been at.
LEMMA Span ==
  ASSUME Typed, Running, NEW q \in Procs, pc[q] = "block", job[q].tot > 0
  PROVE  /\ file[fd[q]].off \in Nat /\ job[q].off \in Nat /\ job[q].off > file[fd[q]].off
         /\ job[q].off - file[fd[q]].off <= Chunk
         /\ file[fd[q]].off \div BSIZE \in Nat /\ (job[q].off - 1) \div BSIZE \in 0 .. MAXFILE - 1
         /\ {MAXFILE} \cup (file[fd[q]].off \div BSIZE) .. ((job[q].off - 1) \div BSIZE) \subseteq Places
<1>1. fd[q] \in Slots /\ file[fd[q]].ip \in Inodes /\ Chunking(q)
  BY TableFacts DEF Running
<1>2. PICK base, j : base = file[fd[q]].off /\ j = job[q]
  OBVIOUS
<1>3. base \in Nat /\ j.off \in Nat /\ j.tot \in Nat /\ j.n1 \in Nat /\ j.tot > 0
  BY <1>1, <1>2 DEF Typed
<1>4. j.tot <= j.n1 /\ j.n1 <= Chunk /\ j.off = base + j.tot /\ base + j.n1 <= MAXFILE * BSIZE
  BY <1>1, <1>2 DEF Chunking
<1>5. BSIZE \in Nat \ {0} /\ MAXFILE \in Nat \ {0} /\ MAXFILE * BSIZE \in Nat /\ Chunk \in Nat
  BY PlacesFacts, ChunkFacts
<1>6. j.off > base /\ j.off - base <= Chunk /\ j.off - 1 \in Nat /\ j.off - 1 < j.off /\ j.off <= MAXFILE * BSIZE
  BY <1>3, <1>4, <1>5
<1>7. (j.off - 1) \div BSIZE \in 0 .. MAXFILE - 1
  BY <1>3, <1>5, <1>6, Within
<1>8. base \div BSIZE \in Nat
  BY <1>3, <1>5, Quotient
<1>9. {MAXFILE} \cup (base \div BSIZE) .. ((j.off - 1) \div BSIZE) \subseteq Places
  <2>1. PICK lo, hi : lo = base \div BSIZE /\ hi = (j.off - 1) \div BSIZE
    OBVIOUS
  <2> QED BY <1>5, <1>7, <1>8, <2>1, PlacesFacts
<1> QED BY <1>2, <1>3, <1>6, <1>7, <1>8, <1>9

\* A turn of writei's loop: the units go to their block, the rest is as before.
LEMMA WriteBlockRunning ==
  ASSUME Typed, Running, UNCHANGED mkfsVars, NEW p \in Procs, WriteBlock(p)
  PROVE  Typed' /\ Running'
<1> DEFINE i0 == file[fd[p]].ip
           j0 == job[p]
           m0 == Least(j0.n1 - j0.tot, BSIZE - (j0.off % BSIZE))
           s0 == [d |-> mem[i0], disk |-> disk, used |-> used, log |-> {}, got |-> 0, panic |-> FALSE]
           st0 == bmap(s0, j0.off \div BSIZE)
           units0 == [k \in 0 .. BSIZE - 1 |->
                       IF k \in (j0.off % BSIZE) .. (j0.off % BSIZE) + m0 - 1
                       THEN Source(p, j0.i + j0.tot + k - (j0.off % BSIZE)) ELSE st0.disk[st0.got][k]]
<1>1. /\ pc[p] = "block" /\ j0.tot < j0.n1
      /\ IF st0.panic
         THEN panicked' = TRUE /\ UNCHANGED <<disk, used, mem, job, logged>>
         ELSE /\ disk' = [st0.disk EXCEPT ![st0.got] = units0]
              /\ used' = st0.used /\ mem' = [mem EXCEPT ![i0] = st0.d]
              /\ logged' = [logged EXCEPT ![p] = @ \cup st0.log \cup {st0.got}]
              /\ job' = [job EXCEPT ![p].tot = @ + m0, ![p].off = @ + m0]
              /\ UNCHANGED panicked
      /\ UNCHANGED <<dinode, lock, file, fd, pc, ref, writes>>
  BY DEF WriteBlock
<1> HIDE DEF i0, j0, m0, s0, st0, units0
<1>2. PICK f, i, base, j : f = fd[p] /\ i = file[f].ip /\ base = file[f].off /\ j = job[p]
  OBVIOUS
<1>3. PICK m, bn, s, st, units : m = m0 /\ bn = j.off \div BSIZE /\ s = s0 /\ st = st0 /\ units = units0
  OBVIOUS
<1>4. i = i0 /\ j = j0
  BY <1>2 DEF i0, j0
<1>5. /\ m = Least(j.n1 - j.tot, BSIZE - (j.off % BSIZE))
      /\ s = [d |-> mem[i], disk |-> disk, used |-> used, log |-> {}, got |-> 0, panic |-> FALSE]
      /\ st = bmap(s, bn)
  BY <1>3, <1>4 DEF m0, s0, st0
<1>6. units = [k \in 0 .. BSIZE - 1 |->
                IF k \in (j.off % BSIZE) .. (j.off % BSIZE) + m - 1
                THEN Source(p, j.i + j.tot + k - (j.off % BSIZE)) ELSE st.disk[st.got][k]]
  BY <1>3, <1>4 DEF units0
<1>7. /\ pc[p] = "block" /\ j.tot < j.n1
      /\ \/ st.panic /\ panicked' = TRUE /\ UNCHANGED <<disk, used, mem, job, logged>>
         \/ /\ ~st.panic
            /\ disk' = [st.disk EXCEPT ![st.got] = units]
            /\ used' = st.used /\ mem' = [mem EXCEPT ![i] = st.d]
            /\ logged' = [logged EXCEPT ![p] = @ \cup st.log \cup {st.got}]
            /\ job' = [job EXCEPT ![p].tot = @ + m, ![p].off = @ + m]
            /\ UNCHANGED panicked
      /\ UNCHANGED <<dinode, lock, file, fd, pc, ref, writes>>
  BY <1>1, <1>3, <1>4
<1>8. /\ job \in [Procs -> [n : Nat, i : Nat, n1 : Nat, tot : Nat, off : Nat]]
      /\ file \in [Slots -> [ip : Inodes \cup {None}, off : Nat, ref : Nat]]
      /\ mem \in [Inodes -> Dinode] /\ dinode \in [Inodes -> Dinode]
      /\ logged \in [Procs -> SUBSET Nat] /\ disk \in Disk /\ used \in SUBSET Nat
  BY DEF Typed
<1>9. Table /\ Locks /\ Offsets /\ Sound(disk, used, mem) /\ Written /\ Saved /\ Logging /\ \A q \in Procs : Chunking(q)
  BY DEF Running
<1>10. /\ f \in Slots /\ i \in Inodes /\ i # ROOTINO /\ i # None /\ lock[i] = p
      /\ \A q \in Procs : q # None /\ (pc[q] = "block" /\ q # p => fd[q] \in Slots /\ file[fd[q]].ip \in Inodes /\ file[fd[q]].ip # i)
  <2>1. \A q \in Procs : pc[q] = "block" =>
          fd[q] \in Slots /\ file[fd[q]].ip \in Inodes \ {ROOTINO} /\ lock[file[fd[q]].ip] = q
    BY <1>9, TableFacts
  <2>2. \A q \in Procs : q # None
    BY <1>9, TableFacts
  <2>3. i # None
    <3>1. i \in Inodes \ {ROOTINO}
      BY <1>2, <1>7, <2>1
    <3> QED BY <3>1 DEF Inodes, None, ROOTINO, First, Second
  <2> QED BY <1>2, <1>7, <2>1, <2>2, <2>3
<1>11. Table' 
  BY <1>7, <1>9 DEF Table, Users
<1>12. CASE st.panic /\ panicked' = TRUE /\ UNCHANGED <<disk, used, mem, job, logged>>
  <2>1. Typed'
    BY <1>7, <1>12 DEF Typed, mkfsVars
  <2>2. Leaves
    BY <1>7, <1>9, <1>12 DEF Leaves, Locks, Chunking
  <2>3. Offsets'
    BY <1>7, <1>9, <1>12 DEF Offsets
  <2> QED BY <1>11, <2>1, <2>2, <2>3, LeftRunning
<1>13. CASE /\ ~st.panic
           /\ disk' = [st.disk EXCEPT ![st.got] = units]
           /\ used' = st.used /\ mem' = [mem EXCEPT ![i] = st.d]
           /\ logged' = [logged EXCEPT ![p] = @ \cup st.log \cup {st.got}]
           /\ job' = [job EXCEPT ![p].tot = @ + m, ![p].off = @ + m]
  <2>1. /\ j.n \in Nat /\ j.i \in Nat /\ j.n1 \in Nat /\ j.tot \in Nat /\ j.off \in Nat /\ base \in Nat /\ mem[i].size \in Nat
        /\ j \in [n : Nat, i : Nat, n1 : Nat, tot : Nat, off : Nat]
    BY <1>2, <1>8, <1>10 DEF Dinode
  <2>2. /\ base <= mem[i].size /\ j.off = base + j.tot /\ j.i + j.n1 <= j.n /\ j.n1 <= Chunk /\ base + j.n1 <= MAXFILE * BSIZE
        /\ j.i <= j.n
    BY <1>2, <1>7, <1>9, <1>10 DEF Offsets, Chunking
  <2>3. BSIZE \in Nat \ {0} /\ MAXFILE \in Nat \ {0} /\ MAXFILE * BSIZE \in Nat
    BY PlacesFacts
  <2>4. PICK x : x = j.off % BSIZE
    OBVIOUS
  <2>5. /\ x \in Unit /\ bn \in Nat /\ bn * BSIZE \in Nat /\ j.off = bn * BSIZE + x
    BY <1>3, <2>1, <2>3, <2>4, Quotient DEF Unit
  <2>6. bn \in 0 .. MAXFILE - 1
    <3>1. base + j.n1 \in Nat /\ j.off < base + j.n1
      BY <1>7, <2>1, <2>2
    <3>2. j.off \div BSIZE \in 0 .. MAXFILE - 1
      BY <2>1, <2>2, <2>3, <3>1, Within
    <3> QED BY <1>3, <3>2
  <2>7. /\ m \in Nat /\ m >= 1 /\ m <= j.n1 - j.tot /\ m <= BSIZE - x
    <3>1. m = Least(j.n1 - j.tot, BSIZE - x)
      BY <1>5, <2>4
    <3>2. j.n1 - j.tot \in Nat /\ j.n1 - j.tot >= 1 /\ BSIZE - x \in Nat /\ BSIZE - x >= 1
      BY <1>7, <2>1, <2>3, <2>5 DEF Unit
    <3> QED BY <3>1, <3>2 DEF Least
  <2>8. /\ Grows(disk, used, mem[i], bn, st.disk, st.used, st.d, st.got)
        /\ st.log \subseteq {BitmapBlock, st.got, st.d.addrs[NDIRECT]} /\ 0 \notin st.log
        /\ (At(disk, mem[i], bn) # 0 => st.d = mem[i])
    <3>1. IsState(s) /\ s.d = mem[i] /\ s.disk = disk /\ s.used = used /\ s.log = {}
      BY <1>5 DEF IsState
    <3>2. PICK dsk, u, D : dsk = disk /\ u = used /\ D = mem
      OBVIOUS
    <3>3. s.disk \in Disk /\ D \in [Inodes -> Dinode] /\ Sound(s.disk, s.used, D) /\ s.d = D[i]
      BY <1>8, <1>9, <3>1, <3>2
    <3>4. st.panic # TRUE
      BY <1>13
    <3>5. Mapped(s, D[i], bn, st)
      BY <1>5, <1>10, <2>6, <3>1, <3>3, <3>4, BmapGrows
    <3> QED BY <3>1, <3>2, <3>5 DEF Mapped
  <2>9. /\ st.disk \in Disk /\ st.d \in Dinode /\ st.d.size = mem[i].size /\ st.got \in Blocks
        /\ st.got \in Nat /\ st.d.addrs[NDIRECT] \in Nat
    <3>1. st.disk \in Disk /\ st.d \in Dinode /\ st.d.size = mem[i].size
          /\ (IF At(disk, mem[i], bn) # 0 THEN st.got = At(disk, mem[i], bn) ELSE st.got \in Blocks \ used /\ st.got >= nmeta)
      BY <2>8 DEF Grows
    <3>2. bn \in Places /\ NDIRECT \in 0 .. NDIRECT
      BY <2>6, PlacesFacts
    <3>3. At(disk, mem[i], bn) # 0 => At(disk, mem[i], bn) \in Blocks
      BY <1>9, <1>10, <3>2 DEF Sound
    <3>4. Blocks \subseteq Nat
      BY FilesAssumption DEF Blocks
    <3>5. st.d.addrs[NDIRECT] \in Nat
      BY <3>1, <3>2 DEF Dinode
    <3> QED BY <3>1, <3>3, <3>4, <3>5
  <2>10. /\ units \in BlockData
         /\ \A k \in Unit : units[k] = IF k \in x .. x + m - 1 THEN Source(p, j.i + j.tot + k - x) ELSE st.disk[st.got][k]
    <3>1. units = [k \in Unit |-> IF k \in x .. x + m - 1 THEN Source(p, j.i + j.tot + k - x) ELSE st.disk[st.got][k]]
      BY <1>6, <2>4 DEF Unit
    <3>2. ASSUME NEW k \in Unit
          PROVE  (IF k \in x .. x + m - 1 THEN Source(p, j.i + j.tot + k - x) ELSE st.disk[st.got][k]) \in Nat
      <4>1. CASE k \in x .. x + m - 1
        <5>1. j.i + j.tot + k - x \in Nat /\ p \in Nat
          BY <2>1, <2>5, <4>1, FilesAssumption DEF Unit
        <5> QED BY <4>1, <5>1 DEF Source
      <4>2. CASE k \notin x .. x + m - 1
        BY <2>9, <4>2 DEF Disk, BlockData
      <4> QED BY <4>1, <4>2
    <3> QED BY <3>1, <3>2 DEF BlockData
  <2>11. Wrote(disk, mem, i, bn, st.disk, st.got, units, disk', used', mem')
    <3>1. PICK dsk, u, D, dsk2, u1, D1 : dsk = disk /\ u = used /\ D = mem /\ dsk2 = disk' /\ u1 = used' /\ D1 = mem'
      OBVIOUS
    <3>2. PICK dsk1, d1, got : dsk1 = st.disk /\ d1 = st.d /\ got = st.got
      OBVIOUS
    <3>3. /\ dsk \in Disk /\ D \in [Inodes -> Dinode] /\ Sound(dsk, u, D)
          /\ Grows(dsk, u, D[i], bn, dsk1, u1, d1, got) /\ D1 = [D EXCEPT ![i] = d1]
          /\ dsk2 = [dsk1 EXCEPT ![got] = units]
      BY <1>8, <1>9, <1>13, <2>8, <3>1, <3>2
    <3>4. Wrote(dsk, D, i, bn, dsk1, got, units, dsk2, u1, D1)
      BY <1>10, <2>6, <2>10, <3>3, GrowWrite
    <3> QED BY <3>1, <3>2, <3>4
  <2>12. /\ disk' \in Disk /\ mem' \in [Inodes -> Dinode] /\ Sound(disk', used', mem')
         /\ st.got # 0 /\ At(disk', mem'[i], bn) = st.got
         /\ At(disk, mem[i], bn) # 0 => st.got = At(disk, mem[i], bn) /\ st.disk[st.got] = disk[st.got]
         /\ \A k \in Inodes, l \in Places : At(disk, mem[k], l) # 0 => At(disk', mem'[k], l) = At(disk, mem[k], l)
    BY <2>11 DEF Wrote
  <2>13. /\ \A off \in Nat : off \div BSIZE = bn => UnitAt(disk', mem'[i], off) = units[off % BSIZE]
         /\ \A k \in Inodes, off \in Nat :
              /\ off \div BSIZE \in 0 .. MAXFILE - 1 /\ At(disk, mem[k], off \div BSIZE) # 0
              /\ <<k, off \div BSIZE>> # <<i, bn>>
              => UnitAt(disk', mem'[k], off) = UnitAt(disk, mem[k], off)
    BY <2>11 DEF Wrote
  <2>14. /\ \A q \in Procs : q # p => job'[q] = job[q] /\ logged'[q] = logged[q]
         /\ job'[p].off = j.off + m /\ job'[p].tot = j.tot + m
         /\ job'[p].n = j.n /\ job'[p].i = j.i /\ job'[p].n1 = j.n1
         /\ job' \in [Procs -> [n : Nat, i : Nat, n1 : Nat, tot : Nat, off : Nat]]
         /\ logged'[p] = logged[p] \cup st.log \cup {st.got}
    <3>1. PICK t, o, j2 : t = j.tot + m /\ o = j.off + m /\ j2 = [j EXCEPT !.tot = t, !.off = o]
      OBVIOUS
    <3>2. /\ j2 \in [n : Nat, i : Nat, n1 : Nat, tot : Nat, off : Nat]
          /\ j2.off = j.off + m /\ j2.tot = j.tot + m /\ j2.n = j.n /\ j2.i = j.i /\ j2.n1 = j.n1
      <4>1. t \in Nat /\ o \in Nat
        BY <2>1, <2>7, <3>1
      <4>2. /\ j2 \in [n : Nat, i : Nat, n1 : Nat, tot : Nat, off : Nat]
            /\ j2.off = o /\ j2.tot = t /\ j2.n = j.n /\ j2.i = j.i /\ j2.n1 = j.n1
        BY <2>1, <3>1, <4>1
      <4> QED BY <3>1, <4>2
    <3>3. job' = [job EXCEPT ![p] = j2]
      BY <1>2, <1>8, <1>13, <3>1
    <3> QED BY <1>8, <1>13, <3>2, <3>3
  <2>15. mem'[i] = st.d /\ mem'[i].size = mem[i].size /\ \A k \in Inodes : k # i => mem'[k] = mem[k]
    BY <1>8, <1>10, <1>13, <2>9
  <2>16. Typed'
    <3>1. logged' \in [Procs -> SUBSET Nat]
      <4>1. st.log \subseteq Nat /\ st.got \in Nat
        BY <2>8, <2>9 DEF BitmapBlock
      <4>2. logged[p] \cup st.log \cup {st.got} \in SUBSET Nat
        BY <1>8, <4>1
      <4> QED BY <1>8, <1>13, <4>2
    <3>2. used' \in SUBSET Nat
      <4>1. used' = used \cup {st.got, At(st.disk, st.d, MAXFILE)}
        BY <1>13, <2>8 DEF Grows
      <4>2. At(st.disk, st.d, MAXFILE) \in Nat
        BY <2>9 DEF At
      <4> QED BY <1>8, <2>9, <4>1, <4>2
    <3> QED BY <1>7, <1>13, <2>12, <2>14, <3>1, <3>2 DEF Typed, mkfsVars
  <2>17. Locks' /\ Offsets'
    <3>1. Locks'
      BY <1>7, <1>9 DEF Locks
    <3>2. \A k \in Inodes : mem'[k].size = mem[k].size
      BY <2>15
    <3>3. \A g \in Slots : file[g].ip # None => file[g].ip \in Inodes
      BY <1>8
    <3> QED BY <1>7, <1>9, <3>1, <3>2, <3>3 DEF Offsets
  <2>18. \A q \in Procs : Chunking(q)'
    <3>1. Chunking(p)'
      BY <1>2, <1>7, <2>1, <2>2, <2>7, <2>14 DEF Chunking
    <3>2. \A q \in Procs : q # p => Chunking(q)'
      BY <1>7, <1>9, <2>14 DEF Chunking
    <3> QED BY <3>1, <3>2
  <2>19. PICK r0, r1 : r0 = Reached(i) /\ r1 = Reached(i)'
    OBVIOUS
  <2>20. /\ r0 \in Nat /\ r1 \in Nat /\ r0 >= mem[i].size /\ r0 >= j.off /\ r1 >= r0 /\ r1 >= j.off + m
         /\ (r1 = mem[i].size \/ (r1 = j.off + m /\ r1 > mem[i].size))
    <3>1. r0 = IF j.off <= mem[i].size THEN mem[i].size ELSE j.off
      BY <1>2, <1>10, <2>19 DEF Reached
    <3>2. r1 = IF j.off + m <= mem[i].size THEN mem[i].size ELSE j.off + m
      BY <1>7, <1>10, <2>14, <2>15, <2>19 DEF Reached
    <3>3. PICK z, o : z = mem[i].size /\ o = j.off
      OBVIOUS
    <3>4. r0 = (IF o <= z THEN z ELSE o) /\ r1 = (IF o + m <= z THEN z ELSE o + m) /\ z \in Nat /\ o \in Nat /\ m \in Nat
      BY <2>1, <2>7, <3>1, <3>2, <3>3
    <3>5. /\ r0 \in Nat /\ r1 \in Nat /\ r0 >= z /\ r0 >= o /\ r1 >= r0 /\ r1 >= o + m
          /\ (r1 = z \/ (r1 = o + m /\ r1 > z))
      BY <3>4
    <3> QED BY <3>3, <3>5
  <2>21. /\ Backed(disk, mem[i], r0) /\ Len(ref[i]) = mem[i].size
         /\ \A n \in 0 .. r0 - 1 : UnitAt(disk, mem[i], n) = Now(i, n)
    BY <1>9, <1>10, <2>19 DEF Written
  \* The units of the turn are those of the block.
  <2>22. ASSUME NEW n \in Nat
         PROVE  /\ n \in j.off .. j.off + m - 1 => n \div BSIZE = bn
                /\ n \div BSIZE = bn => /\ n % BSIZE \in Unit
                                        /\ n \in j.off .. j.off + m - 1 <=> n % BSIZE \in x .. x + m - 1
                                        /\ n - j.off = (n % BSIZE) - x
    <3>1. ASSUME n \in j.off .. j.off + m - 1 PROVE n \div BSIZE = bn
      <4>1. PICK y : y = n - bn * BSIZE
        OBVIOUS
      <4>2. y \in 0 .. BSIZE - 1 /\ n = bn * BSIZE + y
        BY <2>1, <2>3, <2>5, <2>7, <3>1, <4>1 DEF Unit
      <4> QED BY <2>3, <2>5, <4>2, QuotientIs
    <3>2. ASSUME n \div BSIZE = bn
          PROVE  /\ n % BSIZE \in Unit
                 /\ n \in j.off .. j.off + m - 1 <=> n % BSIZE \in x .. x + m - 1
                 /\ n - j.off = (n % BSIZE) - x
      <4>1. PICK q, y : q = n \div BSIZE /\ y = n % BSIZE
        OBVIOUS
      <4>2. y \in 0 .. BSIZE - 1 /\ n = q * BSIZE + y
        BY <2>3, <4>1, Quotient
      <4>3. n = bn * BSIZE + y
        BY <3>2, <4>1, <4>2
      <4>4. y \in Unit /\ n - j.off = y - x /\ (n \in j.off .. j.off + m - 1 <=> y \in x .. x + m - 1)
        BY <2>1, <2>3, <2>5, <2>7, <4>2, <4>3 DEF Unit
      <4> QED BY <4>1, <4>4
    <3> QED BY <3>1, <3>2
  <2>23. Backed(disk', mem'[i], r1)
    <3>1. r1 <= MAXFILE * BSIZE
      BY <2>1, <2>2, <2>3, <2>7, <2>20, <2>21 DEF Backed
    <3>2. ASSUME NEW k \in 0 .. MAXFILE - 1, k * BSIZE < r1 PROVE At(disk', mem'[i], k) # 0
      <4>1. k \in Places /\ k \in Nat /\ k * BSIZE \in Nat
        BY <2>3, PlacesFacts
      <4>2. CASE k * BSIZE < r0
        BY <1>10, <2>12, <2>21, <4>1, <4>2 DEF Backed
      <4>3. CASE ~(k * BSIZE < r0)
        <5>1. PICK n : n = k * BSIZE
          OBVIOUS
        <5>2. n \in Nat /\ n >= r0 /\ n < r1 /\ n = k * BSIZE + 0 /\ 0 \in 0 .. BSIZE - 1
          BY <2>3, <2>20, <3>2, <4>1, <4>3, <5>1
        <5>3. n \in j.off .. j.off + m - 1
          BY <2>1, <2>7, <2>20, <5>2
        <5>4. n \div BSIZE = k
          BY <2>3, <4>1, <5>2, QuotientIs
        <5>5. k = bn
          BY <2>22, <5>2, <5>3, <5>4
        <5> QED BY <2>12, <5>5
      <4> QED BY <4>2, <4>3
    <3> QED BY <3>1, <3>2 DEF Backed
  <2>24. ASSUME NEW n \in 0 .. r1 - 1 PROVE UnitAt(disk', mem'[i], n) = Now(i, n)'
    <3>1. n \in Nat /\ n < r1
      BY <2>20
    <3>2. Now(i, n) = IF n \in base .. j.off - 1 THEN Source(p, j.i + n - base) ELSE ref[i][n + 1]
      BY <1>2, <1>10 DEF Now
    <3>3. Now(i, n)' = IF n \in base .. j.off + m - 1 THEN Source(p, j.i + n - base) ELSE ref[i][n + 1]
      <4>1. file'[f].off = base /\ fd'[p] = f /\ lock'[i] = p /\ ref' = ref /\ p # None
        BY <1>2, <1>7, <1>10
      <4>2. PICK g, lk, rf : g = file' /\ lk = lock' /\ rf = ref'
        OBVIOUS
      <4>3. PICK jb : jb = job'
        OBVIOUS
      <4>4. Now(i, n)' = IF n \in base .. jb[p].off - 1 THEN Source(p, jb[p].i + n - base) ELSE ref[i][n + 1]
        BY <4>1, <4>3 DEF Now
      <4>5. jb[p].off = j.off + m /\ jb[p].i = j.i
        BY <2>14, <4>3
      <4>6. PICK u1, u2 : u1 = jb[p].off - 1 /\ u2 = j.off + m - 1
        OBVIOUS
      <4>7. u1 = u2
        BY <2>1, <2>7, <4>5, <4>6
      <4>8. Now(i, n)' = IF n \in base .. u2 THEN Source(p, j.i + n - base) ELSE ref[i][n + 1]
        BY <4>4, <4>5, <4>6, <4>7
      <4> QED BY <4>6, <4>8
    <3>4. CASE n \in j.off .. j.off + m - 1
      <4>1. n \div BSIZE = bn /\ n % BSIZE \in Unit /\ n % BSIZE \in x .. x + m - 1 /\ n - j.off = (n % BSIZE) - x
        BY <2>22, <3>1, <3>4
      <4>2. PICK y : y = n % BSIZE
        OBVIOUS
      <4>3. UnitAt(disk', mem'[i], n) = units[y]
        BY <2>13, <3>1, <4>1, <4>2
      <4>4. y \in Unit /\ y \in x .. x + m - 1
        BY <4>1, <4>2
      <4>5. UnitAt(disk', mem'[i], n) = Source(p, j.i + j.tot + y - x)
        BY <2>10, <4>3, <4>4
      <4>6. y \in 0 .. BSIZE - 1 /\ n - j.off = y - x
        BY <4>1, <4>2 DEF Unit
      <4>7. j.i + j.tot + y - x = j.i + n - base
        BY <2>1, <2>2, <2>3, <2>5, <3>1, <4>6 DEF Unit
      <4>8. n \in base .. j.off + m - 1
        BY <2>1, <2>2, <2>7, <3>4
      <4> QED BY <3>3, <4>5, <4>7, <4>8
    <3>5. CASE n \notin j.off .. j.off + m - 1
      <4>1. n < r0 /\ n \in 0 .. r0 - 1
        BY <2>1, <2>7, <2>20, <3>1, <3>5
      <4>2. Now(i, n)' = Now(i, n)
        BY <2>1, <2>7, <3>1, <3>2, <3>3, <3>5
      <4>3. UnitAt(disk, mem[i], n) = Now(i, n)
        BY <2>21, <4>1
      <4>4. n \div BSIZE \in 0 .. MAXFILE - 1 /\ At(disk, mem[i], n \div BSIZE) # 0
        <5>1. r0 <= MAXFILE * BSIZE
          BY <2>21 DEF Backed
        <5>2. n \div BSIZE \in 0 .. MAXFILE - 1 /\ (n \div BSIZE) * BSIZE < r0
          BY <2>3, <2>20, <3>1, <4>1, <5>1, Within
        <5> QED BY <2>21, <5>2 DEF Backed
      <4>5. CASE n \div BSIZE = bn
        <5>1. n % BSIZE \in Unit /\ n % BSIZE \notin x .. x + m - 1
          BY <2>22, <3>1, <3>5, <4>5
        <5>2. UnitAt(disk', mem'[i], n) = st.disk[st.got][n % BSIZE]
          BY <2>10, <2>13, <3>1, <4>5, <5>1
        <5>3. st.disk[st.got] = disk[At(disk, mem[i], bn)]
          BY <2>12, <4>4, <4>5
        <5> QED BY <4>2, <4>3, <4>5, <5>2, <5>3 DEF UnitAt
      <4>6. CASE n \div BSIZE # bn
        BY <1>10, <2>13, <3>1, <4>2, <4>3, <4>4, <4>6
      <4> QED BY <4>5, <4>6
    <3> QED BY <3>4, <3>5
  <2>25. ASSUME NEW k \in Inodes, k # i PROVE Reached(k)' = Reached(k) /\ \A n : Now(k, n)' = Now(k, n)
    <3>1. lock[k] # None => lock[k] \in Procs /\ lock[k] # p
      <4>1. lock[k] # None => lock[k] \in Procs /\ file[fd[lock[k]]].ip = k
        BY <1>9, TableFacts
      <4> QED BY <1>2, <2>25, <4>1
    <3> QED BY <1>7, <2>14, <2>15, <2>25, <3>1 DEF Reached, Now
  <2>26. Written'
    <3> SUFFICES ASSUME NEW k \in Inodes \ {ROOTINO}
                 PROVE  /\ Backed(disk', mem'[k], Reached(k)') /\ Len(ref'[k]) = mem'[k].size
                        /\ \A n \in 0 .. Reached(k)' - 1 : UnitAt(disk', mem'[k], n) = Now(k, n)'
      BY DEF Written
    <3>1. CASE k = i
      BY <1>7, <2>15, <2>19, <2>21, <2>23, <2>24, <3>1
    <3>2. CASE k # i
      <4>1. PICK r : r = Reached(k)
        OBVIOUS
      <4>2. /\ Backed(disk, mem[k], r) /\ Len(ref[k]) = mem[k].size
            /\ \A n \in 0 .. r - 1 : UnitAt(disk, mem[k], n) = Now(k, n)
        BY <1>9, <4>1 DEF Written
      <4>3. r \in Nat
        BY <1>8, TableFacts, <1>9, <4>1 DEF Reached, Dinode
      <4>4. Backed(disk', mem'[k], r)
        <5>1. \A l \in 0 .. MAXFILE - 1 : l \in Places
          BY PlacesFacts
        <5> QED BY <2>12, <4>2, <5>1 DEF Backed
      <4>5. ASSUME NEW n \in 0 .. r - 1 PROVE UnitAt(disk', mem'[k], n) = Now(k, n)'
        <5>1. n \in Nat /\ n < r
          BY <4>3
        <5>2. n \div BSIZE \in 0 .. MAXFILE - 1 /\ At(disk, mem[k], n \div BSIZE) # 0
          <6>1. r <= MAXFILE * BSIZE
            BY <4>2 DEF Backed
          <6>2. n \div BSIZE \in 0 .. MAXFILE - 1 /\ (n \div BSIZE) * BSIZE < r
            BY <2>3, <4>3, <5>1, <6>1, Within
          <6> QED BY <4>2, <6>2 DEF Backed
        <5>3. UnitAt(disk', mem'[k], n) = UnitAt(disk, mem[k], n)
          BY <2>13, <3>2, <5>1, <5>2
        <5> QED BY <2>25, <3>2, <4>2, <5>3
      <4> QED BY <1>7, <2>15, <2>25, <3>2, <4>1, <4>2, <4>4, <4>5
    <3> QED BY <3>1, <3>2
  \* No inode shrinks, and the block of the turn is kept in memory only.
  <2>27. Saved'
    <3> SUFFICES ASSUME NEW k \in Inodes PROVE mem'[k] = dinode[k] \/ Reached(k)' > mem'[k].size
      BY <1>7 DEF Saved
    <3>1. mem[k] = dinode[k] \/ Reached(k) > mem[k].size
      BY <1>9 DEF Saved
    <3>2. CASE k # i
      BY <2>15, <2>25, <3>1, <3>2
    <3>3. CASE k = i /\ At(disk, mem[i], bn) # 0
      <4>1. mem'[i] = mem[i]
        BY <2>8, <2>15, <3>3
      <4>2. PICK z : z = mem[i].size
        OBVIOUS
      <4>3. r0 > z => r1 > z
        BY <2>1, <2>20, <4>2
      <4> QED BY <2>19, <3>1, <3>3, <4>1, <4>2, <4>3
    <3>4. CASE k = i /\ At(disk, mem[i], bn) = 0
      <4>1. ~(bn * BSIZE < r0)
        BY <2>6, <2>21, <3>4 DEF Backed
      <4>2. PICK z, w : z = mem[i].size /\ w = bn * BSIZE
        OBVIOUS
      <4>3. r1 > z
        BY <2>1, <2>5, <2>7, <2>20, <4>1, <4>2 DEF Unit
      <4> QED BY <2>15, <2>19, <3>4, <4>2, <4>3
    <3> QED BY <3>2, <3>3, <3>4
  \* What has been logged is still what the transaction touches.
  <2>28. ASSUME NEW q \in Procs PROVE logged'[q] \subseteq (IF pc[q] = "block" /\ job'[q].tot > 0 THEN Touched(q)' \ {0} ELSE {})
    <3>1. logged[q] \subseteq (IF pc[q] = "block" /\ job[q].tot > 0 THEN Touched(q) \ {0} ELSE {})
      BY <1>9 DEF Logging
    <3>2. CASE q = p
      <4>1. PICK lo, hi : lo = base \div BSIZE /\ hi = (j.off - 1) \div BSIZE
        OBVIOUS
      <4>2. PICK top : top = j.off + m - 1
        OBVIOUS
      <4>3. top \in Nat /\ top \in j.off .. j.off + m - 1 /\ j.off + m - 1 = top
        BY <2>1, <2>7, <4>2
      <4>4. top \div BSIZE = bn
        BY <2>22, <4>3
      <4>5. lo \in Nat /\ lo <= bn /\ bn \in Nat
        BY <1>3, <2>1, <2>2, <2>5, <4>1, InOrder
      <4>6. Touched(p)' = {BitmapBlock} \cup {At(disk', mem'[i], k) : k \in {MAXFILE} \cup lo .. bn}
        <5>1. file'[fd'[p]].ip = i /\ file'[fd'[p]].off = base
          BY <1>2, <1>7
        <5>2. PICK jb, dsk2, D2, g, f2 : jb = job' /\ dsk2 = disk' /\ D2 = mem' /\ g = file' /\ f2 = fd'
          OBVIOUS
        <5>3. jb[p].off = j.off + m /\ g[f2[p]].ip = i /\ g[f2[p]].off = base
          BY <2>14, <5>1, <5>2
        <5>4. Touched(p)' = {BitmapBlock} \cup
                {At(dsk2, D2[g[f2[p]].ip], k) : k \in {MAXFILE} \cup (g[f2[p]].off \div BSIZE) .. ((jb[p].off - 1) \div BSIZE)}
          BY <5>2 DEF Touched
        <5>5. jb[p].off - 1 = top
          BY <2>1, <2>7, <4>3, <5>3
        <5>6. (jb[p].off - 1) \div BSIZE = bn /\ g[f2[p]].off \div BSIZE = lo
          BY <4>1, <4>4, <5>3, <5>5
        <5> QED BY <5>2, <5>3, <5>4, <5>6
      <4>7. st.got \in Touched(p)' \ {0}
        <5>1. bn \in lo .. bn
          BY <4>5
        <5> QED BY <2>12, <4>6, <5>1
      <4>8. st.log \subseteq Touched(p)' \ {0}
        <5>1. st.d.addrs[NDIRECT] = At(disk', mem'[i], MAXFILE)
          BY <2>15 DEF At
        <5>2. st.d.addrs[NDIRECT] \in Touched(p)' /\ BitmapBlock \in Touched(p)'
          BY <4>6, <5>1
        <5> QED BY <2>8, <4>7, <5>2
      <4>9. logged[p] \subseteq Touched(p)' \ {0}
        <5> SUFFICES ASSUME j.tot > 0 PROVE logged[p] \subseteq Touched(p)' \ {0}
          BY <1>2, <1>7, <3>1, <3>2
        <5>1. logged[p] \subseteq Touched(p) \ {0}
          BY <1>2, <1>7, <3>1, <3>2
        <5>2. hi \in Nat /\ hi <= bn /\ {MAXFILE} \cup lo .. hi \subseteq Places
          <6>1. j.off - 1 \in Nat /\ j.off - 1 <= j.off
            BY <2>1, <2>2
          <6>2. hi \in Nat /\ hi <= bn
            BY <1>3, <2>1, <4>1, <6>1, InOrder
          <6> QED BY <1>2, <1>7, <4>1, <6>2, Span
        <5>3. Touched(p) = {BitmapBlock} \cup {At(disk, mem[i], k) : k \in {MAXFILE} \cup lo .. hi}
          BY <1>2, <4>1 DEF Touched
        <5>4. ASSUME NEW k \in {MAXFILE} \cup lo .. hi, At(disk, mem[i], k) # 0
              PROVE  At(disk, mem[i], k) \in Touched(p)'
          <6>1. At(disk', mem'[i], k) = At(disk, mem[i], k)
            BY <1>10, <2>12, <5>2, <5>4
          <6>2. k \in {MAXFILE} \cup lo .. bn
            BY <4>5, <5>2, <5>4
          <6> QED BY <4>6, <6>1, <6>2
        <5>5. BitmapBlock \in Touched(p)'
          BY <4>6
        <5> QED BY <5>1, <5>3, <5>4, <5>5
      <4>10. job'[p].tot > 0 /\ pc[p] = "block"
        BY <1>7, <2>1, <2>7, <2>14
      <4> QED BY <2>14, <3>2, <4>7, <4>8, <4>9, <4>10
    <3>3. CASE q # p /\ pc[q] = "block" /\ job[q].tot > 0
      <4>1. logged'[q] = logged[q] /\ job'[q] = job[q]
        BY <2>14, <3>3
      <4>2. PICK h, S : h = file[fd[q]].ip /\ S = {MAXFILE} \cup (file[fd[q]].off \div BSIZE) .. ((job[q].off - 1) \div BSIZE)
        OBVIOUS
      <4>3. h \in Inodes /\ S \subseteq Places
        BY <1>10, <3>3, <4>2, Span
      <4>4. Touched(q) = {BitmapBlock} \cup {At(disk, mem[h], k) : k \in S}
        BY <4>2 DEF Touched
      <4>5. Touched(q)' = {BitmapBlock} \cup {At(disk', mem'[h], k) : k \in S}
        BY <1>7, <4>1, <4>2 DEF Touched
      <4>6. \A k \in S : At(disk, mem[h], k) # 0 => At(disk', mem'[h], k) = At(disk, mem[h], k)
        BY <2>12, <4>3
      <4>7. Touched(q) \ {0} \subseteq Touched(q)' \ {0}
        BY <4>4, <4>5, <4>6
      <4> QED BY <3>1, <3>3, <4>1, <4>7
    <3>4. CASE q # p /\ ~(pc[q] = "block" /\ job[q].tot > 0)
      BY <2>14, <3>1, <3>4
    <3> QED BY <3>2, <3>3, <3>4
  <2>29. Logging'
    BY <1>7, <2>28 DEF Logging
  <2> QED BY <1>11, <2>12, <2>16, <2>17, <2>18, <2>26, <2>27, <2>29 DEF Running
<1> QED BY <1>7, <1>12, <1>13

\* The kernel's steps, one by one.
LEMMA KernelRunning ==
  ASSUME Typed, Running, Kernel
  PROVE  Typed' /\ Running'
<1>1. UNCHANGED mkfsVars
  BY DEF Kernel
<1>2. CASE \E i \in Inodes : Unlink(i) \/ Reload(i)
  BY <1>1, <1>2, UnlinkRunning, ReloadRunning
<1>3. CASE \E p \in Procs : \E i \in Inodes \ {ROOTINO} : Open(p, i)
  BY <1>1, <1>3, OpenRunning
<1>4. CASE \E p \in Procs : \E q \in Procs : Share(p, q)
  BY <1>1, <1>4, ShareRunning
<1>5. CASE \E p \in Procs : Close(p)
  BY <1>1, <1>5, CloseRunning
<1>6. CASE \E p \in Procs : BeginChunk(p)
  BY <1>1, <1>6, BeginChunkRunning
<1>7. CASE \E p \in Procs : WriteBlock(p)
  BY <1>1, <1>7, WriteBlockRunning
<1>8. CASE \E p \in Procs : EndChunk(p)
  BY <1>1, <1>8, EndChunkRunning
<1>9. CASE \E p \in Procs : \E n \in Sizes : Read(p, n) \/ Write(p, n)
  BY <1>1, <1>9, ReadRunning, WriteRunning
<1> QED BY <1>2, <1>3, <1>4, <1>5, <1>6, <1>7, <1>8, <1>9 DEF Kernel

\* Every step keeps the invariant.
LEMMA NextIInv ==
  ASSUME IInv, [FilesNext]_filesVars
  PROVE  IInv'
<1>1. CASE iappend
  BY <1>1, AppendIInv
<1>2. CASE MkfsEnds
  BY <1>2, MkfsEndsIInv
<1>3. CASE Kernel
  <2>1. phase = "kernel" /\ phase' = "kernel"
    BY <1>3 DEF Kernel, mkfsVars
  <2>2. Typed /\ Running
    BY <2>1 DEF IInv
  <2>3. Typed' /\ Running'
    BY <1>3, <2>2, KernelRunning
  <2> QED BY <2>1, <2>3 DEF IInv
<1>4. CASE UNCHANGED filesVars
  <2>1. UNCHANGED <<disk, used, dinode, mem, lock, file, fd, pc, job, logged, ref, writes, panicked>>
        /\ UNCHANGED mkfsVars
    BY <1>4 DEF filesVars
  <2>2. UNCHANGED <<phase, todo, freeblock>>
    BY <2>1 DEF mkfsVars
  <2>3. Typed'
    BY <2>1, <2>2 DEF IInv, Typed
  <2>4. Making' <=> Making
    BY <2>1, <2>2 DEF Making, Sound, At, Backed, Holds, UnitAt, BlankFrom
  <2>5. Running' <=> Running
    <3>1. Sound(disk, used, mem)' <=> Sound(disk, used, mem)
      BY <2>1 DEF Sound, At
    <3>2. (Table' <=> Table) /\ (Locks' <=> Locks) /\ (Offsets' <=> Offsets)
      BY <2>1 DEF Table, Locks, Offsets, Users
    <3>3. \A i \in Inodes : Reached(i)' = Reached(i) /\ \A k : Now(i, k)' = Now(i, k)
      BY <2>1 DEF Reached, Now
    <3>4. (Written' <=> Written) /\ (Saved' <=> Saved)
      BY <2>1, <3>3 DEF Written, Saved, Backed, UnitAt, At
    <3>5. \A p \in Procs : Touched(p)' = Touched(p) /\ (Chunking(p)' <=> Chunking(p))
      BY <2>1 DEF Touched, Chunking, At
    <3>6. Logging' <=> Logging
      BY <2>1, <3>5 DEF Logging
    <3> QED BY <3>1, <3>2, <3>4, <3>5, <3>6 DEF Running
  <2> QED BY <2>2, <2>3, <2>4, <2>5 DEF IInv
<1> QED BY <1>1, <1>2, <1>3, <1>4 DEF FilesNext

\* It always holds.
LEMMA Inductive == FilesSpec => []IInv
  BY InitIInv, NextIInv, PTL DEF FilesSpec

\* It implies BlocksOwnedOnce,
LEMMA IInvOwned ==
  ASSUME IInv
  PROVE  BlocksOwnedOnce
<1> SUFFICES ASSUME phase = "kernel"
             PROVE  /\ used = (0 .. nmeta - 1) \cup UNION {BlocksOf(mem[i]) : i \in Inodes}
                    /\ Cardinality(used) = nmeta + Owned(mem[1]) + Owned(mem[2]) + Owned(mem[3])
  BY DEF BlocksOwnedOnce
<1>1. disk \in Disk /\ mem \in [Inodes -> Dinode] /\ Sound(disk, used, mem)
  BY DEF IInv, Typed, Running
<1> QED BY <1>1, SoundOwned

\* ContentsAsWritten,
LEMMA IInvContents ==
  ASSUME IInv
  PROVE  ContentsAsWritten
<1> SUFFICES ASSUME NEW i \in Inodes \ {ROOTINO}, phase = "kernel", lock[i] = None
             PROVE  Content(mem[i]) = ref[i]
  BY DEF ContentsAsWritten, AtRest
<1>1. PICK n, d : n = mem[i].size /\ d = mem[i]
  OBVIOUS
<1>2. n \in Nat /\ d \in Dinode /\ ref[i] \in Seq(Nat)
  BY <1>1 DEF IInv, Typed, Dinode
<1>3. Backed(disk, d, n) /\ Len(ref[i]) = n /\ \A k \in 0 .. n - 1 : UnitAt(disk, d, k) = ref[i][k + 1]
  BY <1>1 DEF IInv, Running, Written, Reached, Now
<1>4. Content(d) = [k \in 1 .. n |-> ref[i][k]]
  <2>1. ASSUME NEW k \in 1 .. n
        PROVE  LET a == Address(d, (k - 1) \div BSIZE) IN (IF a = 0 THEN 0 ELSE disk[a][(k - 1) % BSIZE]) = ref[i][k]
    <3>1. PICK off : off = k - 1
      OBVIOUS
    <3>2. off \in Nat /\ off < n /\ off \in 0 .. n - 1 /\ off + 1 = k
      BY <1>2, <3>1
    <3>3. BSIZE \in Nat \ {0} /\ MAXFILE \in Nat /\ n <= MAXFILE * BSIZE
      BY <1>3, PlacesFacts DEF Backed
    <3>4. off \div BSIZE \in 0 .. MAXFILE - 1 /\ (off \div BSIZE) * BSIZE < n
      BY <1>2, <3>2, <3>3, Within
    <3>5. Address(d, off \div BSIZE) = At(disk, d, off \div BSIZE) /\ At(disk, d, off \div BSIZE) # 0
      BY <1>2, <1>3, <3>4, ByPlaces DEF Backed
    <3>6. UnitAt(disk, d, off) = ref[i][k]
      BY <1>3, <3>2
    <3> QED BY <3>1, <3>5, <3>6 DEF UnitAt
  <2> QED BY <1>1, <2>1 DEF Content
<1>5. ref[i] = [k \in 1 .. n |-> ref[i][k]]
  <2>1. PICK r : r = ref[i]
    OBVIOUS
  <2>2. r \in [1 .. Len(r) -> Nat]
    BY <1>2, <2>1, LenProperties
  <2>3. r = [k \in 1 .. n |-> r[k]]
    BY <1>3, <2>1, <2>2
  <2> QED BY <2>1, <2>3
<1> QED BY <1>1, <1>4, <1>5

\* A chunk lies in one block more than it fills.
LEMMA FewBlocks ==
  ASSUME NEW base \in Nat, NEW off \in Nat, off > base, off - base <= Chunk
  PROVE  /\ IsFiniteSet((base \div BSIZE) .. ((off - 1) \div BSIZE))
         /\ Cardinality((base \div BSIZE) .. ((off - 1) \div BSIZE)) <= ChunkBlocks + 1
<1>1. PICK lo, hi, x, c : lo = base \div BSIZE /\ hi = (off - 1) \div BSIZE /\ x = base % BSIZE /\ c = ChunkBlocks * BSIZE
  OBVIOUS
<1>2. BSIZE \in Nat \ {0} /\ ChunkBlocks \in Nat /\ c \in Nat /\ Chunk = c
  BY <1>1, PlacesFacts, ChunkFacts
<1>3. /\ lo \in Nat /\ x \in 0 .. BSIZE - 1 /\ lo * BSIZE \in Nat /\ base = lo * BSIZE + x
      /\ off - 1 \in Nat /\ hi \in Nat
  <2>1. off - 1 \in Nat
    OBVIOUS
  <2>2. (off - 1) \div BSIZE \in Nat
    BY <1>2, <2>1, Quotient
  <2>3. /\ base \div BSIZE \in Nat /\ base % BSIZE \in 0 .. BSIZE - 1 /\ (base \div BSIZE) * BSIZE \in Nat
        /\ base = (base \div BSIZE) * BSIZE + (base % BSIZE)
    BY <1>2, Quotient
  <2> QED BY <1>1, <2>1, <2>2, <2>3
<1>4. PICK k : k = lo + 1 + ChunkBlocks
  OBVIOUS
<1>5. k \in Nat /\ k * BSIZE = lo * BSIZE + BSIZE + c
  BY <1>1, <1>2, <1>3, <1>4
<1>6. off - 1 < k * BSIZE
  BY <1>2, <1>3, <1>5
<1>7. hi < k
  BY <1>1, <1>2, <1>3, <1>5, <1>6, Before
<1>8. IsFiniteSet(lo .. hi) /\ Cardinality(lo .. hi) = IF lo > hi THEN 0 ELSE hi - lo + 1
  <2>1. lo \in Int /\ hi \in Int
    BY <1>3
  <2> QED BY <2>1, FS_Interval
<1>9. Cardinality(lo .. hi) <= ChunkBlocks + 1
  <2>1. lo \in Nat /\ hi \in Nat /\ ChunkBlocks \in Nat
    BY <1>2, <1>3
  <2>2. hi < lo + 1 + ChunkBlocks
    BY <1>4, <1>7
  <2> QED BY <1>8, <2>1, <2>2
<1> QED BY <1>1, <1>8, <1>9

\* A set and one element more.
LEMMA OneMore ==
  ASSUME NEW S, IsFiniteSet(S), NEW x, NEW n \in Nat, Cardinality(S) <= n
  PROVE  IsFiniteSet(S \cup {x}) /\ Cardinality(S \cup {x}) <= n + 1
<1>1. Cardinality(S) \in Nat
  BY FS_CardinalityType
<1>2. /\ IsFiniteSet(S \cup {x})
      /\ Cardinality(S \cup {x}) = IF x \in S THEN Cardinality(S) ELSE Cardinality(S) + 1
  BY FS_AddElement
<1> QED BY <1>1, <1>2

\* and OpFits.
LEMMA IInvFits ==
  ASSUME IInv
  PROVE  OpFits
<1> SUFFICES ASSUME NEW p \in Procs PROVE Cardinality(logged[p] \cup {InodeBlock}) <= MAXOPBLOCKS
  BY DEF OpFits
<1>1. MAXOPBLOCKS \in Nat /\ MAXOPBLOCKS >= 6 /\ ChunkBlocks \in Nat /\ 2 * ChunkBlocks <= MAXOPBLOCKS - 4 /\ ChunkBlocks >= 1
  BY FilesAssumption, ChunkFacts
<1>2. CASE logged[p] = {}
  <2>1. logged[p] \cup {InodeBlock} = {InodeBlock}
    BY <1>2
  <2>2. Cardinality({InodeBlock}) = 1
    BY FS_Singleton
  <2>3. 1 <= MAXOPBLOCKS
    BY FilesAssumption
  <2> QED BY <2>1, <2>2, <2>3
<1>3. CASE logged[p] # {}
  <2>1. Typed /\ Running
    <3>1. phase # "mkfs"
      BY <1>3 DEF IInv, Making
    <3> QED BY <3>1 DEF IInv, Typed
  <2>2. logged[p] \subseteq (IF pc[p] = "block" /\ job[p].tot > 0 THEN Touched(p) \ {0} ELSE {})
    BY <2>1 DEF Running, Logging
  <2>3. pc[p] = "block" /\ job[p].tot > 0 /\ logged[p] \subseteq Touched(p)
    BY <1>3, <2>2
  <2>4. PICK base, off, i : base = file[fd[p]].off /\ off = job[p].off /\ i = file[fd[p]].ip
    OBVIOUS
  <2>5. PICK S : S = (base \div BSIZE) .. ((off - 1) \div BSIZE)
    OBVIOUS
  <2>6. base \in Nat /\ off \in Nat /\ off > base /\ off - base <= Chunk
    BY <2>1, <2>3, <2>4, Span
  <2>7. IsFiniteSet(S) /\ Cardinality(S) <= ChunkBlocks + 1
    BY <2>5, <2>6, FewBlocks
  <2>8. PICK a, T : a = At(disk, mem[i], MAXFILE) /\ T = {At(disk, mem[i], k) : k \in S}
    OBVIOUS
  <2>9. IsFiniteSet(T) /\ Cardinality(T) <= Cardinality(S)
    <3>1. PICK f : f = [k \in S |-> At(disk, mem[i], k)]
      OBVIOUS
    <3>2. f \in Surjection(S, T)
      BY <2>8, <3>1 DEF Surjection
    <3> QED BY <2>7, <3>2, FS_Surjection
  <2>10. PICK V : V = ((T \cup {BitmapBlock}) \cup {a}) \cup {InodeBlock}
    OBVIOUS
  <2>11. IsFiniteSet(V) /\ Cardinality(V) <= Cardinality(T) + 3
    <3>1. PICK n : n = Cardinality(T)
      OBVIOUS
    <3>2. n \in Nat
      BY <2>9, <3>1, FS_CardinalityType
    <3>3. IsFiniteSet(T \cup {BitmapBlock}) /\ Cardinality(T \cup {BitmapBlock}) <= n + 1
      <4>1. IsFiniteSet(T) /\ Cardinality(T) <= n
        BY <2>9, <3>1, <3>2
      <4> QED BY <3>2, <4>1, OneMore
    <3>4. IsFiniteSet((T \cup {BitmapBlock}) \cup {a}) /\ Cardinality((T \cup {BitmapBlock}) \cup {a}) <= (n + 1) + 1
      <4>1. n + 1 \in Nat
        BY <3>2
      <4> QED BY <3>3, <4>1, OneMore
    <3>5. IsFiniteSet(V) /\ Cardinality(V) <= ((n + 1) + 1) + 1
      <4>1. (n + 1) + 1 \in Nat
        BY <3>2
      <4> QED BY <2>10, <3>4, <4>1, OneMore
    <3> QED BY <3>1, <3>2, <3>5
  <2>12. logged[p] \cup {InodeBlock} \subseteq V
    <3>1. Touched(p) = {BitmapBlock} \cup {At(disk, mem[i], k) : k \in {MAXFILE} \cup S}
      BY <2>4, <2>5 DEF Touched
    <3>2. Touched(p) \subseteq V
      BY <2>8, <2>10, <3>1
    <3> QED BY <2>3, <2>10, <3>2
  <2>13. Cardinality(logged[p] \cup {InodeBlock}) <= Cardinality(V)
    BY <2>11, <2>12, FS_Subset
  <2>14. IsFiniteSet(logged[p] \cup {InodeBlock}) /\ Cardinality(logged[p] \cup {InodeBlock}) \in Nat
         /\ Cardinality(V) \in Nat /\ Cardinality(T) \in Nat /\ Cardinality(S) \in Nat
    BY <2>7, <2>9, <2>11, <2>12, FS_Subset, FS_CardinalityType
  <2> QED BY <1>1, <2>7, <2>9, <2>11, <2>13, <2>14
<1> QED BY <1>2, <1>3

\* Every block the bitmap marks is a block of the file system or at one place of one
\* file, and every block of a file is marked, whatever mkfs made and calls write,
\* grow, remove and read again.
THEOREM BlocksAreOwnedOnce == FilesSpec => []BlocksOwnedOnce
  BY Inductive, IInvOwned, PTL

\* A file nobody is writing to holds, unit by unit, what its writers put there.
THEOREM ContentsAreAsWritten == FilesSpec => []ContentsAsWritten
  BY Inductive, IInvContents, PTL

\* A chunk of filewrite logs at most the blocks begin_op has reserved for it.
THEOREM OpsFit == FilesSpec => []OpFits
  BY Inductive, IInvFits, PTL
=============================================================================
