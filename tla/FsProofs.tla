------------------------------ MODULE FsProofs ------------------------------
(***************************************************************************)
(* Names, link counts and references of inodes (fs.c, sysfile.c) are       *)
(* sound for any finite sets of processes, inodes and names, whatever      *)
(* calls run at the same time.                                             *)
(*                                                                         *)
(* The inductive invariant IInv says what the locals of a call hold at     *)
(* each place (Shape), which of the inodes they name is still in use       *)
(* (Live), which locks the call keeps (LocksKept), and that nlink covers   *)
(* the names, the subdirectories and the links a call has counted before   *)
(* the entry is there, or not uncounted yet after it is gone (LinksCover). *)
(* Steps that leave types and entries alone are instances of QuietStep,    *)
(* the four others of ChangeStep: each has to show only what the stepping  *)
(* process does.                                                           *)
(***************************************************************************)
EXTENDS Fs, FiniteSetTheorems, TLAPS

MaybeInode == Inode \cup {None}
Places == Points \ {"put", "drop"}

\* The locals of a call.
Frame ==
  [op : Op \cup {"link2", "none"}, path : Seq(Name), k : Nat, new : Paths,
   ip : MaybeInode, dp : MaybeInode, old : MaybeInode, put : MaybeInode, then : Places]

Typed ==
  /\ type \in [Inode -> {"free", "file", "dir"}]
  /\ nlink \in [Inode -> Nat] /\ ref \in [Inode -> Nat]
  /\ entry \in [Inode -> [Name -> MaybeInode]]
  /\ valid \subseteq Inode
  /\ lock \in [Inode -> Proc \cup {None}]
  /\ pc \in [Proc -> Points]
  /\ fr \in [Proc -> Frame]
  /\ fd \in [Proc -> MaybeInode] /\ cwd \in [Proc -> Inode]
  /\ panicked \in {"no", "ilock: no type", "ialloc: no inodes"}

\* Where a call with the locals f is; iput is on the way to another place.
InIput(point) == point \in {"put", "drop"}
Stage(f, point) == IF InIput(point) THEN f.then ELSE point

\* Which of its three inodes a call has.
Has(f, ip, dp, old) == (f.ip # None <=> ip) /\ (f.dp # None <=> dp) /\ (f.old # None <=> old)

Making == {"create", "mkdir"}

\* The locals at each place.
Shape(f, point) ==
  LET s == Stage(f, point)
      n == Len(f.path)
  IN  /\ f.put # None <=> InIput(point)
      /\ ~InIput(point) => f.then = "user"
      /\ point = "user" => f.op = "none"
      /\ s = "user" => Has(f, FALSE, FALSE, FALSE)
      /\ s = "walk" => Has(f, TRUE, FALSE, f.op = "link2") /\ f.op # "none" /\ f.k \in 1 .. n
      /\ s = "at" => /\ Has(f, ~WantsParent(f.op), WantsParent(f.op), f.op = "link2")
                     /\ f.op # "none" /\ (WantsParent(f.op) => n > 0 /\ f.k = n)
      /\ s \in {"exists", "made"} => Has(f, TRUE, FALSE, FALSE) /\ f.op \in Making
      /\ s = "unlink" => /\ Has(f, TRUE, TRUE, FALSE) /\ f.op = "unlink"
                         /\ ~InIput(point) /\ n > 0 /\ f.k = n
      /\ s = "unlink_full" => Has(f, FALSE, TRUE, FALSE) /\ f.op = "unlink"
      /\ s = "unlinked" => Has(f, TRUE, FALSE, FALSE) /\ f.op = "unlink"
      /\ s = "link_dup" => Has(f, FALSE, TRUE, TRUE) /\ f.op = "link2"
      /\ s \in {"link_bad", "linked"} => Has(f, FALSE, FALSE, TRUE) /\ f.op = "link2"

\* The inode a call keeps locked from one step to the next.
Keeps(f, point) ==
  IF Stage(f, point) \in {"made", "unlinked"} THEN f.ip
  ELSE IF Stage(f, point) \in {"unlink", "unlink_full", "link_dup"} THEN f.dp
  ELSE None

LocksKept == \A i \in Inode, p \in Proc : lock[i] = p <=> Keeps(fr[p], pc[p]) = i

\* The last name looked up was "..".
ByDotDot(f) == f.k > 1 /\ f.path[f.k - 1] = ".."

\* What a call and a process with the open file fl in directory d refer to is in use.
Live(f, point, fl, d) ==
  /\ fl # None => type[fl] # "free"
  /\ type[d] # "free"
  /\ f.dp # None => type[f.dp] = "dir"
  /\ f.old # None => type[f.old] = "file"
  /\ f.ip # None /\ type[f.ip] = "free" =>
       ByDotDot(f) /\ Stage(f, point) \in {"walk", "at", "exists"}
  /\ point = "unlink" => entry[f.dp][Elem(f)] = f.ip /\ Elem(f) \notin Dots

Calling == \A p \in Proc : Shape(fr[p], pc[p]) /\ Live(fr[p], pc[p], fd[p], cwd[p])

\* Free inodes are nowhere, and only directories have entries.
Disked ==
  \A i \in Inode :
    /\ type[i] = "free" => i \notin valid /\ Names(i) = {}
    /\ type[i] = "dir" => entry[i]["."] = i /\ entry[i][".."] # None
    /\ type[i] # "dir" => \A n \in Name : entry[i][n] = None

\* A link counted for a name that is not there yet, or not any more.
Owed(f, point) ==
  IF f.op = "link2" /\ Stage(f, point) # "linked" THEN f.old
  ELSE IF Stage(f, point) = "unlinked" THEN f.ip ELSE None
Owes(i) == {p \in Proc : Owed(fr[p], pc[p]) = i}

One(b) == IF b THEN 1 ELSE 0

\* The root has one link more.
LinksCover ==
  \A i \in Inode :
    nlink[i] >= Cardinality(Names(i)) + Cardinality(Subdirs(i)) + Cardinality(Owes(i)) + One(i = Root)

IInv ==
  /\ Typed /\ Calling /\ LocksKept /\ Disked /\ LinksCover /\ type[Root] # "free"
  /\ RefsAccounted /\ TreeOfDirectories

-----------------------------------------------------------------------------
(* Counting                                                                *)

Slot == {"fd", "cwd", "ip", "dp", "old", "put"}

\* There are finitely many directory entries.
LEMMA FiniteNames ==
  ASSUME NEW S, S \subseteq Inode \X (Name \ Dots)
  PROVE  IsFiniteSet(S) /\ Cardinality(S) \in Nat
<1>1. IsFiniteSet(Name \ Dots)
  BY FsAssumption, FS_Subset
<1>2. IsFiniteSet(Inode \X (Name \ Dots))
  BY <1>1, FsAssumption, FS_Product
<1> QED BY <1>2, FS_Subset, FS_CardinalityType

\* A part of a finite set has no more elements.
LEMMA FiniteSubset ==
  ASSUME NEW T, IsFiniteSet(T), NEW S, S \subseteq T
  PROVE  IsFiniteSet(S) /\ Cardinality(S) \in Nat /\ Cardinality(S) <= Cardinality(T)
  BY FS_Subset, FS_CardinalityType

\* One element more.
LEMMA CountAdd ==
  ASSUME NEW S, IsFiniteSet(S), NEW x, x \notin S
  PROVE  Cardinality(S \cup {x}) = Cardinality(S) + 1
  BY FS_AddElement

\* One element less.
LEMMA CountRemove ==
  ASSUME NEW S, IsFiniteSet(S), NEW x \in S
  PROVE  Cardinality(S \ {x}) = Cardinality(S) - 1
  BY FS_RemoveElement

\* A set and the part of it with a property, one element apart.
LEMMA CountSplit ==
  ASSUME NEW S, IsFiniteSet(S), NEW x
  PROVE  /\ Cardinality(S) \in Nat /\ Cardinality(S \ {x}) \in Nat
         /\ Cardinality(S) = Cardinality(S \ {x}) + One(x \in S)
  BY FS_RemoveElement, FS_CardinalityType, FS_Subset DEF One

\* How often a process appears among the holders of i.
Mine(f, fl, d, i) ==
  One(fl = i) + One(d = i) + One(f.ip = i) + One(f.dp = i) + One(f.old = i) + One(f.put = i)
MineOf(p, i) == Mine(fr[p], fd[p], cwd[p], i)
NotMine(p, i) == {h \in Holders(i) : h[1] # p}

\* An inode has finitely many holders.
LEMMA FiniteHolders == \A i : IsFiniteSet(Holders(i))
<1>1. IsFiniteSet(Slot) /\ Cardinality(Slot) \in Nat
  <2> DEFINE S2 == {"fd"} \cup {"cwd"}
  <2> DEFINE S3 == S2 \cup {"ip"}
  <2> DEFINE S4 == S3 \cup {"dp"}
  <2> DEFINE S5 == S4 \cup {"old"}
  <2> DEFINE S6 == S5 \cup {"put"}
  <2>1. IsFiniteSet({"fd"}) BY FS_Singleton
  <2>2. IsFiniteSet(S2) BY <2>1, FS_AddElement
  <2>3. IsFiniteSet(S3) BY <2>2, FS_AddElement
  <2>4. IsFiniteSet(S4) BY <2>3, FS_AddElement
  <2>5. IsFiniteSet(S5) BY <2>4, FS_AddElement
  <2>6. IsFiniteSet(S6) BY <2>5, FS_AddElement
  <2>7. S6 = Slot BY DEF Slot
  <2> QED BY <2>6, <2>7, FS_CardinalityType
<1>2. IsFiniteSet(Proc \X Slot)
  BY <1>1, FsAssumption, FS_Product
<1>3. \A i : Holders(i) \subseteq Proc \X Slot
  BY DEF Holders, Slot
<1> QED BY <1>2, <1>3, FS_Subset

\* The holders of an inode are those of one process and the others.
LEMMA HoldersSplit ==
  ASSUME NEW p \in Proc, NEW i
  PROVE  /\ Cardinality(NotMine(p, i)) \in Nat /\ MineOf(p, i) \in Nat
         /\ Cardinality(Holders(i)) = Cardinality(NotMine(p, i)) + MineOf(p, i)
<1> DEFINE H0 == Holders(i)
           H1 == H0 \ {<<p, "fd">>}
           H2 == H1 \ {<<p, "cwd">>}
           H3 == H2 \ {<<p, "ip">>}
           H4 == H3 \ {<<p, "dp">>}
           H5 == H4 \ {<<p, "old">>}
           H6 == H5 \ {<<p, "put">>}
<1>1. H6 = NotMine(p, i)
  BY DEF NotMine, Holders
<1>2. /\ <<p, "fd">> \in H0 <=> fd[p] = i
      /\ <<p, "cwd">> \in H1 <=> cwd[p] = i
      /\ <<p, "ip">> \in H2 <=> fr[p].ip = i
      /\ <<p, "dp">> \in H3 <=> fr[p].dp = i
      /\ <<p, "old">> \in H4 <=> fr[p].old = i
      /\ <<p, "put">> \in H5 <=> fr[p].put = i
  BY DEF Holders
<1>3. IsFiniteSet(H0)
  BY FiniteHolders
<1> HIDE DEF H0
<1>4. IsFiniteSet(H1) BY <1>3, FS_RemoveElement
<1> HIDE DEF H1
<1>5. IsFiniteSet(H2) BY <1>4, FS_RemoveElement
<1> HIDE DEF H2
<1>6. IsFiniteSet(H3) BY <1>5, FS_RemoveElement
<1> HIDE DEF H3
<1>7. IsFiniteSet(H4) BY <1>6, FS_RemoveElement
<1> HIDE DEF H4
<1>8. IsFiniteSet(H5) BY <1>7, FS_RemoveElement
<1> HIDE DEF H5
<1>11. Cardinality(H0) = Cardinality(H1) + One(<<p, "fd">> \in H0) /\ Cardinality(H1) \in Nat
  BY <1>3, CountSplit DEF H1
<1>12. Cardinality(H1) = Cardinality(H2) + One(<<p, "cwd">> \in H1) /\ Cardinality(H2) \in Nat
  BY <1>4, CountSplit DEF H2
<1>13. Cardinality(H2) = Cardinality(H3) + One(<<p, "ip">> \in H2) /\ Cardinality(H3) \in Nat
  BY <1>5, CountSplit DEF H3
<1>14. Cardinality(H3) = Cardinality(H4) + One(<<p, "dp">> \in H3) /\ Cardinality(H4) \in Nat
  BY <1>6, CountSplit DEF H4
<1>15. Cardinality(H4) = Cardinality(H5) + One(<<p, "old">> \in H4) /\ Cardinality(H5) \in Nat
  BY <1>7, CountSplit DEF H5
<1>16. Cardinality(H5) = Cardinality(H6) + One(<<p, "put">> \in H5) /\ Cardinality(H6) \in Nat
  BY <1>8, CountSplit DEF H6
<1> HIDE DEF H6
<1>17. Cardinality(H0) = Cardinality(H6) + MineOf(p, i) /\ MineOf(p, i) \in Nat
  BY <1>11, <1>12, <1>13, <1>14, <1>15, <1>16, <1>2 DEF MineOf, Mine, One
<1> QED BY <1>17, <1>16, <1>1 DEF H0

OwedByOthers(p, i) == {q \in Proc \ {p} : Owed(fr[q], pc[q]) = i}

\* A call owes at most one link.
LEMMA OwesSplit ==
  ASSUME NEW p \in Proc, NEW i
  PROVE  /\ Cardinality(OwedByOthers(p, i)) \in Nat
         /\ Cardinality(Owes(i)) = Cardinality(OwedByOthers(p, i)) + One(Owed(fr[p], pc[p]) = i)
<1>1. IsFiniteSet(Owes(i))
  BY FsAssumption, FS_Subset DEF Owes
<1>2. OwedByOthers(p, i) = Owes(i) \ {p} /\ (p \in Owes(i) <=> Owed(fr[p], pc[p]) = i)
  BY DEF OwedByOthers, Owes
<1>3. One(p \in Owes(i)) = One(Owed(fr[p], pc[p]) = i)
  BY <1>2 DEF One
<1> QED BY <1>1, <1>2, <1>3, CountSplit

\* The same, in a form that holds in the next state too.
Counts(p) ==
  \A i \in Inode :
    /\ Cardinality(NotMine(p, i)) \in Nat
    /\ Cardinality(Holders(i)) = Cardinality(NotMine(p, i)) + MineOf(p, i)
    /\ Cardinality(OwedByOthers(p, i)) \in Nat
    /\ Cardinality(Owes(i)) = Cardinality(OwedByOthers(p, i)) + One(Owed(fr[p], pc[p]) = i)
    /\ Cardinality(Names(i)) \in Nat /\ IsFiniteSet(Names(i))
    /\ Cardinality(Subdirs(i)) \in Nat /\ IsFiniteSet(Subdirs(i))

\* The counts split in every state.
LEMMA CountsHold == \A p \in Proc : Counts(p)
<1> SUFFICES ASSUME NEW p \in Proc, NEW i \in Inode
             PROVE  Counts(p)!(i)
  BY DEF Counts
<1>1. IsFiniteSet(Names(i)) /\ Cardinality(Names(i)) \in Nat
  BY FiniteNames DEF Names
<1>2. IsFiniteSet(Subdirs(i)) /\ Cardinality(Subdirs(i)) \in Nat
  BY FsAssumption, FiniteSubset DEF Subdirs
<1> QED BY <1>1, <1>2, HoldersSplit, OwesSplit

\* The counts split after a step as well.
LEMMA CountsHoldNext == (\A p \in Proc : Counts(p))'
  BY CountsHold, PTL

-----------------------------------------------------------------------------
(* A step of one process                                                   *)

\* p goes to a place with the locals g, the file f and the directory d.
Moves(p, g, point, f, d) ==
  /\ fr' = [fr EXCEPT ![p] = g] /\ pc' = [pc EXCEPT ![p] = point]
  /\ fd' = [fd EXCEPT ![p] = f] /\ cwd' = [cwd EXCEPT ![p] = d]

\* What a process has in no call.
LEMMA NoCallFrame == NoCall \in Frame
<1>1. <<>> \in Paths /\ <<>> \in Seq(Name)
  BY DEF Paths
<1> QED BY <1>1 DEF NoCall, Frame, Places, Points, MaybeInode

\* The types of the locals.
LEMMA FrameFields ==
  ASSUME NEW f \in Frame
  PROVE  /\ f.op \in Op \cup {"link2", "none"} /\ f.path \in Seq(Name) /\ f.k \in Nat
         /\ f.new \in Paths /\ f.then \in Places
         /\ f.ip \in MaybeInode /\ f.dp \in MaybeInode /\ f.old \in MaybeInode /\ f.put \in MaybeInode
  BY DEF Frame

\* The others stay where they are.
OthersStay(p) ==
  \A q \in Proc : q # p => fr'[q] = fr[q] /\ pc'[q] = pc[q] /\ fd'[q] = fd[q] /\ cwd'[q] = cwd[q]

\* Where everybody is after a step of p.
LEMMA MovesFacts ==
  ASSUME Typed, NEW p \in Proc, NEW g \in Frame, NEW point \in Points,
         NEW f \in MaybeInode, NEW d \in Inode, Moves(p, g, point, f, d)
  PROVE  /\ fr' \in [Proc -> Frame] /\ pc' \in [Proc -> Points]
         /\ fd' \in [Proc -> MaybeInode] /\ cwd' \in [Proc -> Inode]
         /\ fr'[p] = g /\ pc'[p] = point /\ fd'[p] = f /\ cwd'[p] = d
         /\ OthersStay(p)
<1>1. /\ fr \in [Proc -> Frame] /\ pc \in [Proc -> Points]
      /\ fd \in [Proc -> MaybeInode] /\ cwd \in [Proc -> Inode]
  BY DEF Typed
<1>2. /\ fr' = [fr EXCEPT ![p] = g] /\ pc' = [pc EXCEPT ![p] = point]
      /\ fd' = [fd EXCEPT ![p] = f] /\ cwd' = [cwd EXCEPT ![p] = d]
  BY DEF Moves
<1> QED BY <1>1, <1>2 DEF OthersStay

\* References: what p gets or gives back is what its step adds to the count.
LEMMA RefsStep ==
  ASSUME NEW p \in Proc, OthersStay(p), RefsAccounted,
         \A i \in Inode : ref'[i] \in Int /\ ref'[i] - MineOf(p, i)' = ref[i] - MineOf(p, i)
  PROVE  RefsAccounted' /\ \A i \in Inode : ref'[i] \in Nat
<1> SUFFICES ASSUME NEW i \in Inode
             PROVE  ref'[i] = Cardinality(Holders(i)') /\ ref'[i] \in Nat
  BY DEF RefsAccounted
<1>1. NotMine(p, i)' = NotMine(p, i)
  BY DEF NotMine, Holders, OthersStay
<1>2. Counts(p)!(i) /\ Counts(p)!(i)'
  BY CountsHold, CountsHoldNext DEF Counts
<1>3. ref[i] = Cardinality(Holders(i))
  BY DEF RefsAccounted
<1>4. MineOf(p, i) \in Nat /\ MineOf(p, i)' \in Nat
  BY DEF MineOf, Mine, One
<1> QED BY <1>1, <1>2, <1>3, <1>4

\* Links: nlink follows the names, the subdirectories and what is owed.
LEMMA LinksStep ==
  ASSUME NEW p \in Proc, OthersStay(p), LinksCover,
         \A i \in Inode :
           /\ nlink[i] \in Nat /\ nlink'[i] \in Int
           /\ nlink'[i] - One(Owed(fr[p], pc[p]) = i)' - Cardinality(Names(i)') - Cardinality(Subdirs(i)')
               >= nlink[i] - One(Owed(fr[p], pc[p]) = i) - Cardinality(Names(i)) - Cardinality(Subdirs(i))
  PROVE  LinksCover' /\ \A i \in Inode : nlink'[i] \in Nat
<1> SUFFICES ASSUME NEW i \in Inode
             PROVE  LinksCover!(i)' /\ nlink'[i] \in Nat
  BY DEF LinksCover
<1>1. OwedByOthers(p, i)' = OwedByOthers(p, i)
  BY DEF OwedByOthers, Owed, Stage, InIput, OthersStay
<1>2. Counts(p)!(i) /\ Counts(p)!(i)'
  BY CountsHold, CountsHoldNext DEF Counts
<1>3. LinksCover!(i)
  BY DEF LinksCover
<1>4. /\ One(Owed(fr[p], pc[p]) = i) \in Nat /\ One(Owed(fr[p], pc[p]) = i)' \in Nat
      /\ One(i = Root) \in Nat
  BY DEF One
<1> QED BY <1>1, <1>2, <1>3, <1>4

\* Locks: p takes free ones and gives back its own.
LEMMA LocksStep ==
  ASSUME NEW p \in Proc, OthersStay(p), LocksKept, p # None,
         \A i \in Inode : lock'[i] # lock[i] => {lock[i], lock'[i]} \subseteq {None, p},
         \A i \in Inode : lock'[i] = p <=> Keeps(fr'[p], pc'[p]) = i
  PROVE  LocksKept'
<1> SUFFICES ASSUME NEW i \in Inode, NEW q \in Proc
             PROVE  lock'[i] = q <=> Keeps(fr'[q], pc'[q]) = i
  BY DEF LocksKept
<1>1. CASE q = p
  BY <1>1
<1>2. CASE q # p
  <2>1. fr'[q] = fr[q] /\ pc'[q] = pc[q]
    BY <1>2 DEF OthersStay
  <2>2. lock[i] = q <=> Keeps(fr[q], pc[q]) = i
    BY DEF LocksKept
  <2>3. lock'[i] = q <=> lock[i] = q
    BY <1>2, FsAssumption
  <2> QED BY <2>1, <2>2, <2>3
<1> QED BY <1>1, <1>2

\* The other calls: what they refer to stays in use, and an entry that is about
\* to be removed stays, because its directory is locked.
LEMMA OthersStep ==
  ASSUME Typed, Calling, LocksKept, NEW p \in Proc, OthersStay(p),
         \A q \in Proc, x \in Inode :
           q # p /\ x \in {fd[q], cwd[q], fr[q].ip, fr[q].dp, fr[q].old} /\ type[x] # "free"
             => type'[x] = type[x],
         \A x \in Inode : lock[x] \notin {None, p} => entry'[x] = entry[x]
  PROVE  \A q \in Proc : q # p => /\ Shape(fr'[q], pc'[q])
                                  /\ Live(fr[q], pc[q], fd[q], cwd[q])'
<1> SUFFICES ASSUME NEW q \in Proc, q # p
             PROVE  Shape(fr'[q], pc'[q]) /\ Live(fr[q], pc[q], fd[q], cwd[q])'
  OBVIOUS
<1>1. fr'[q] = fr[q] /\ pc'[q] = pc[q] /\ fd'[q] = fd[q] /\ cwd'[q] = cwd[q]
  BY DEF OthersStay
<1>2. Shape(fr[q], pc[q]) /\ Live(fr[q], pc[q], fd[q], cwd[q])
  BY DEF Calling
<1>3. /\ fr[q] \in Frame /\ {fr[q].ip, fr[q].dp, fr[q].old, fd[q]} \subseteq MaybeInode
      /\ cwd[q] \in Inode /\ None \notin Inode
  <2>1. fr[q] \in Frame /\ fd[q] \in MaybeInode /\ cwd[q] \in Inode
    BY DEF Typed
  <2> QED BY <2>1, FsAssumption, FrameFields
<1>4. ASSUME pc[q] = "unlink"
      PROVE  entry'[fr[q].dp] = entry[fr[q].dp]
  <2>1. fr[q].dp \in Inode
    BY <1>2, <1>3, <1>4 DEF Shape, Has, Stage, InIput, MaybeInode
  <2>2. lock[fr[q].dp] = q
    BY <2>1, <1>4 DEF LocksKept, Keeps, Stage, InIput
  <2> QED BY <2>1, <2>2, FsAssumption
<1>5. Live(fr[q], pc[q], fd[q], cwd[q])'
  <2>1. \A x \in Inode : x \in {fd[q], cwd[q], fr[q].ip, fr[q].dp, fr[q].old} /\ type[x] # "free"
           => type'[x] = type[x]
    OBVIOUS
  <2> QED BY <1>1, <1>2, <1>3, <1>4, <2>1 DEF Live, MaybeInode
<1> QED BY <1>1, <1>2, <1>5

\* A step of p that leaves types and entries alone.
Quiet(p) ==
  /\ UNCHANGED <<type, entry>> /\ panicked' = panicked
  /\ valid' \subseteq Inode /\ \A i \in valid' : i \in valid \/ type[i] # "free"
  /\ nlink' \in [Inode -> Int] /\ ref' \in [Inode -> Int]
  /\ lock' \in [Inode -> Proc \cup {None}]

\* The counts and the locks go with what p has and owes afterwards.
Balance(p, g, point, fl, d) ==
  /\ \A i \in Inode : ref'[i] - Mine(g, fl, d, i) = ref[i] - MineOf(p, i)
  /\ \A i \in Inode : nlink'[i] - One(Owed(g, point) = i) >= nlink[i] - One(Owed(fr[p], pc[p]) = i)
  /\ \A i \in Inode : lock'[i] # lock[i] => {lock[i], lock'[i]} \subseteq {None, p}
  /\ \A i \in Inode : lock'[i] = p <=> Keeps(g, point) = i

\* A step that leaves types and entries alone keeps the invariant if the locals fit
\* the place, are in use, and the counts and locks go with them.
LEMMA QuietStep ==
  ASSUME IInv, NEW p \in Proc, NEW g \in Frame, NEW point \in Points,
         NEW fl \in MaybeInode, NEW d \in Inode, Moves(p, g, point, fl, d), Quiet(p),
         Shape(g, point), Live(g, point, fl, d), Balance(p, g, point, fl, d)
  PROVE  IInv'
<1> USE DEF Quiet, Balance
<1>1. /\ fr' \in [Proc -> Frame] /\ pc' \in [Proc -> Points]
      /\ fd' \in [Proc -> MaybeInode] /\ cwd' \in [Proc -> Inode]
      /\ fr'[p] = g /\ pc'[p] = point /\ fd'[p] = fl /\ cwd'[p] = d
      /\ OthersStay(p)
  BY MovesFacts DEF IInv
<1>2. type' = type /\ entry' = entry
  OBVIOUS
<1>3. \A i \in Inode : Names(i)' = Names(i) /\ Subdirs(i)' = Subdirs(i)
  BY <1>2 DEF Names, Subdirs
<1>4. RefsAccounted' /\ \A i \in Inode : ref'[i] \in Nat
  <2>1. \A i \in Inode : ref'[i] - MineOf(p, i)' = ref[i] - MineOf(p, i)
    BY <1>1 DEF MineOf
  <2> QED BY <2>1, <1>1, RefsStep DEF IInv
<1>5. LinksCover' /\ \A i \in Inode : nlink'[i] \in Nat
  <2>1. ASSUME NEW i \in Inode
        PROVE  /\ nlink[i] \in Nat /\ nlink'[i] \in Int
               /\ nlink'[i] - One(Owed(fr[p], pc[p]) = i)' - Cardinality(Names(i)') - Cardinality(Subdirs(i)')
                   >= nlink[i] - One(Owed(fr[p], pc[p]) = i) - Cardinality(Names(i)) - Cardinality(Subdirs(i))
    <3>1. nlink[i] \in Nat /\ nlink'[i] \in Int
      BY DEF IInv, Typed
    <3>2. Cardinality(Names(i)) \in Nat /\ Cardinality(Subdirs(i)) \in Nat
      BY CountsHold DEF Counts
    <3>3. One(Owed(fr[p], pc[p]) = i)' = One(Owed(g, point) = i)
      BY <1>1
    <3>4. One(Owed(fr[p], pc[p]) = i) \in Nat /\ One(Owed(g, point) = i) \in Nat
      BY DEF One
    <3>5. nlink'[i] - One(Owed(g, point) = i) >= nlink[i] - One(Owed(fr[p], pc[p]) = i)
      OBVIOUS
    <3> QED BY <3>1, <3>2, <3>3, <3>4, <3>5, <1>3
  <2> QED BY <2>1, <1>1, LinksStep DEF IInv
<1>6. LocksKept'
  <2>1. p # None
    BY FsAssumption
  <2> QED BY <2>1, <1>1, LocksStep DEF IInv
<1>7. Calling'
  <2>1. Live(fr[p], pc[p], fd[p], cwd[p])'
    BY <1>1, <1>2 DEF Live
  <2>2. \A q \in Proc : q # p => Shape(fr'[q], pc'[q]) /\ Live(fr[q], pc[q], fd[q], cwd[q])'
    BY <1>1, <1>2, OthersStep DEF IInv
  <2> QED BY <2>1, <2>2, <1>1 DEF Calling
<1>8. Disked' /\ type'[Root] # "free" /\ TreeOfDirectories'
  BY <1>2, <1>3 DEF IInv, Disked, TreeOfDirectories
<1>9. Typed'
  <2>1. nlink' \in [Inode -> Nat] /\ ref' \in [Inode -> Nat]
    BY <1>4, <1>5
  <2>2. type' \in [Inode -> {"free", "file", "dir"}] /\ entry' \in [Inode -> [Name -> MaybeInode]]
    BY <1>2 DEF IInv, Typed
  <2>3. valid' \subseteq Inode /\ lock' \in [Inode -> Proc \cup {None}]
    OBVIOUS
  <2>4. panicked' \in {"no", "ilock: no type", "ialloc: no inodes"}
    BY DEF IInv, Typed
  <2> HIDE DEF Quiet, Balance
  <2> QED BY <2>1, <2>2, <2>3, <2>4, <1>1 DEF Typed
<1> QED BY <1>4, <1>5, <1>6, <1>7, <1>8, <1>9 DEF IInv

-----------------------------------------------------------------------------
(* The steps that leave types and entries alone                            *)

\* What is known of p before its step.
Before(p) ==
  /\ fr[p] \in Frame /\ pc[p] \in Points /\ fd[p] \in MaybeInode /\ cwd[p] \in Inode
  /\ fr \in [Proc -> Frame] /\ pc \in [Proc -> Points]
  /\ fd \in [Proc -> MaybeInode] /\ cwd \in [Proc -> Inode]
  /\ type \in [Inode -> {"free", "file", "dir"}]
  /\ nlink \in [Inode -> Nat] /\ ref \in [Inode -> Nat]
  /\ entry \in [Inode -> [Name -> MaybeInode]] /\ valid \subseteq Inode
  /\ lock \in [Inode -> Proc \cup {None}]
  /\ Shape(fr[p], pc[p]) /\ Live(fr[p], pc[p], fd[p], cwd[p])
  /\ \A i \in Inode : lock[i] = p <=> Keeps(fr[p], pc[p]) = i
  /\ Root \in Inode /\ None \notin Inode /\ None \notin Proc /\ p # None

\* The invariant, as facts about one process.
LEMMA Own ==
  ASSUME IInv, NEW p \in Proc
  PROVE  Before(p)
<1>1. Typed
  BY DEF IInv
<1>2. fr[p] \in Frame /\ pc[p] \in Points /\ fd[p] \in MaybeInode /\ cwd[p] \in Inode
  BY <1>1 DEF Typed
<1>3. Shape(fr[p], pc[p]) /\ Live(fr[p], pc[p], fd[p], cwd[p])
  BY DEF IInv, Calling
<1>4. \A i \in Inode : lock[i] = p <=> Keeps(fr[p], pc[p]) = i
  BY DEF IInv, LocksKept
<1> QED BY <1>1, <1>2, <1>3, <1>4, FsAssumption DEF Typed, Before

FilesMove(p, fl, d) == fd' = [fd EXCEPT ![p] = fl] /\ cwd' = [cwd EXCEPT ![p] = d]

\* iput(i): the reference goes from a local, or from the process, to iput.
LEMMA IputMoves ==
  ASSUME IInv, NEW p \in Proc, NEW f \in Frame, NEW i \in Inode, NEW point \in Places,
         Iput(p, i, f, point), NEW fl \in MaybeInode, NEW d \in Inode, FilesMove(p, fl, d)
  PROVE  \E g \in Frame :
           /\ Moves(p, g, "put", fl, d) /\ g.put = i /\ g.then = point
           /\ g.op = f.op /\ g.path = f.path /\ g.k = f.k /\ g.new = f.new
           /\ g.ip = f.ip /\ g.dp = f.dp /\ g.old = f.old
<1> DEFINE g == [f EXCEPT !.put = i, !.then = point]
<1>1. fr' = [fr EXCEPT ![p] = g] /\ pc' = [pc EXCEPT ![p] = "put"]
  BY DEF Iput, Goto
<1>2. PICK h : h = g
  OBVIOUS
<1>3. Moves(p, h, "put", fl, d)
  BY <1>1, <1>2 DEF Moves, FilesMove
<1>4. /\ h \in Frame /\ h.put = i /\ h.then = point
      /\ h.op = f.op /\ h.path = f.path /\ h.k = f.k /\ h.new = f.new
      /\ h.ip = f.ip /\ h.dp = f.dp /\ h.old = f.old
  BY <1>2 DEF Frame, MaybeInode
<1> QED BY <1>3, <1>4

\* The same when files and directories stay.
LEMMA IputOnly ==
  ASSUME IInv, NEW p \in Proc, NEW f \in Frame, NEW i \in Inode, NEW point \in Places,
         Iput(p, i, f, point), UNCHANGED files
  PROVE  \E g \in Frame :
           /\ Moves(p, g, "put", fd[p], cwd[p]) /\ g.put = i /\ g.then = point
           /\ g.op = f.op /\ g.path = f.path /\ g.k = f.k /\ g.new = f.new
           /\ g.ip = f.ip /\ g.dp = f.dp /\ g.old = f.old
<1>1. Before(p)
  BY Own
<1>2. fd' = [fd EXCEPT ![p] = fd[p]] /\ cwd' = [cwd EXCEPT ![p] = cwd[p]]
  BY <1>1 DEF files, Before
<1>3. fd[p] \in MaybeInode /\ cwd[p] \in Inode
  BY <1>1 DEF Before
<1> DEFINE g == [f EXCEPT !.put = i, !.then = point]
<1>4. fr' = [fr EXCEPT ![p] = g] /\ pc' = [pc EXCEPT ![p] = "put"]
  BY DEF Iput, Goto
<1>5. PICK h : h = g
  OBVIOUS
<1>6. Moves(p, h, "put", fd[p], cwd[p])
  BY <1>2, <1>4, <1>5 DEF Moves
<1>7. /\ h \in Frame /\ h.put = i /\ h.then = point
      /\ h.op = f.op /\ h.path = f.path /\ h.k = f.k /\ h.new = f.new
      /\ h.ip = f.ip /\ h.dp = f.dp /\ h.old = f.old
  BY <1>5 DEF Frame, MaybeInode
<1> QED BY <1>6, <1>7

\* open of an inode that was found.
LEMMA OpenKeeps ==
  ASSUME IInv, NEW p \in Proc, Open(p)
  PROVE  IInv'
<1> DEFINE f == fr[p]
<1>b. Before(p)
  BY Own
<1>1. PICK i : i = f.ip
  OBVIOUS
<1>2. /\ pc[p] = "at" /\ f.op = "open" /\ Ilock(i)
      /\ OpenFile(p, i) \/ OpenFails(p, i)
      /\ UNCHANGED <<disk, ref, lock, cwd, panicked>>
  BY <1>1 DEF Open
<1>3. i \in Inode /\ f.dp = None /\ f.old = None /\ f.put = None /\ f.then = "user"
  BY <1>b, <1>1, <1>2, FrameFields DEF Before, Shape, Has, Stage, InIput, WantsParent, MaybeInode
<1>4. CASE OpenFile(p, i)
  <2>1. fd[p] = None /\ NoCall \in Frame /\ Moves(p, NoCall, "user", i, cwd[p])
    BY <1>b, <1>2, <1>4, NoCallFrame DEF Before, OpenFile, Return, Goto, Moves, MaybeInode, Points
  <2>2. type[i] # "free"
    BY <1>2 DEF Ilock
  <2>3. Shape(NoCall, "user") /\ Live(NoCall, "user", i, cwd[p])
    BY <2>2, <1>b DEF Before, NoCall, Shape, Live, Has, Stage, InIput
  <2>4. \A x \in Inode : /\ Mine(NoCall, i, cwd[p], x) = MineOf(p, x) /\ MineOf(p, x) \in Nat
                        /\ One(Owed(NoCall, "user") = x) = 0 /\ One(Owed(f, "at") = x) = 0
                        /\ lock[x] # p /\ Keeps(NoCall, "user") # x
    BY <2>1, <1>1, <1>2, <1>3, <1>b
       DEF Before, Mine, MineOf, One, Owed, Stage, InIput, Keeps, NoCall
  <2>5. Quiet(p)
    BY <1>2, <1>3, <1>b DEF Before, disk, Ilock, Quiet
  <2>6. Balance(p, NoCall, "user", i, cwd[p])
    BY <2>4, <1>2, <1>b DEF Before, disk, Balance
  <2>7. i \in MaybeInode /\ cwd[p] \in Inode /\ "user" \in Points
    BY <1>3, <1>b DEF Before, Points, MaybeInode
  <2> QED BY <2>1, <2>3, <2>5, <2>6, <2>7, QuietStep
<1>5. CASE OpenFails(p, i)
  <2>1. PICK h : h = [f EXCEPT !.ip = None]
    OBVIOUS
  <2>2. h \in Frame /\ h.op = f.op /\ h.new = f.new /\ h.ip = None /\ h.dp = None /\ h.old = None
    BY <2>1, <1>3, <1>b DEF Before, Frame, MaybeInode
  <2>3. PICK g \in Frame :
           /\ Moves(p, g, "put", fd[p], cwd[p]) /\ g.put = i /\ g.then = "user"
           /\ g.op = h.op /\ g.path = h.path /\ g.k = h.k /\ g.new = h.new
           /\ g.ip = h.ip /\ g.dp = h.dp /\ g.old = h.old
    <3>1. Iput(p, i, h, "user") /\ UNCHANGED files
      BY <2>1, <1>5, <1>2 DEF OpenFails, files
    <3> QED BY <3>1, <2>2, <1>1, <1>3, IputOnly DEF Places, Points
  <2>4. Shape(g, "put")
    BY <2>2, <2>3, <1>2, <1>3, <1>b DEF Before, Shape, Has, Stage, InIput
  <2>5. Live(g, "put", fd[p], cwd[p])
    BY <2>2, <2>3, <1>3, <1>b DEF Before, Live
  <2>6. \A x \in Inode : /\ Mine(g, fd[p], cwd[p], x) = MineOf(p, x) /\ MineOf(p, x) \in Nat
                        /\ One(Owed(g, "put") = x) = 0 /\ One(Owed(f, "at") = x) = 0
                        /\ lock[x] # p /\ Keeps(g, "put") # x
    BY <2>2, <2>3, <1>1, <1>2, <1>3, <1>b
       DEF Before, Mine, MineOf, One, Owed, Stage, InIput, Keeps
  <2>7. Quiet(p)
    BY <1>2, <1>3, <1>b DEF Before, disk, Ilock, Quiet
  <2>8. Balance(p, g, "put", fd[p], cwd[p])
    BY <2>6, <1>2, <1>b DEF Before, disk, Balance
  <2>9. fd[p] \in MaybeInode /\ cwd[p] \in Inode /\ "put" \in Points
    BY <1>b DEF Before, Points
  <2> QED BY <2>3, <2>4, <2>5, <2>7, <2>8, <2>9, QuietStep
<1> QED BY <1>2, <1>4, <1>5

\* What a directory names is in use, except perhaps "..".
LEMMA FoundLive ==
  ASSUME IInv, NEW i \in Inode, NEW n \in Name, NEW next \in Inode, next = entry[i][n],
         type[i] = "dir", type[next] = "free"
  PROVE  n = ".."
<1>1. CASE n \notin Dots
  <2>1. <<i, n>> \in Names(next)
    BY <1>1 DEF Names
  <2> QED BY <2>1 DEF IInv, Disked
<1>2. CASE n = "."
  <2>1. entry[i]["."] = i
    BY DEF IInv, Disked
  <2> QED BY <1>2, <2>1
<1> QED BY <1>1, <1>2 DEF Dots

\* One element of a path.
LEMMA WalkKeeps ==
  ASSUME IInv, NEW p \in Proc, Walk(p)
  PROVE  IInv'
<1> DEFINE f == fr[p]
<1>b. Before(p)
  BY Own
<1>1. PICK i : i = f.ip
  OBVIOUS
<1>2. /\ pc[p] = "walk" /\ Ilock(i) /\ UNCHANGED <<disk, lock, files, panicked>>
  BY <1>1 DEF Walk
<1>3. /\ i \in Inode /\ f.dp = None /\ f.put = None /\ f.then = "user" /\ f.k \in 1 .. Len(f.path)
      /\ f.op # "none" /\ (f.old # None <=> f.op = "link2")
      /\ f.path \in Seq(Name) /\ Elem(f) \in Name
  BY <1>b, <1>1, <1>2, FrameFields DEF Before, Shape, Has, Stage, InIput, MaybeInode, Elem
<1>4. PICK next \in MaybeInode : next = entry[i][Elem(f)]
  BY <1>3, <1>b DEF Before
<1>5. CASE /\ type[i] = "dir" /\ WantsParent(f.op) /\ f.k = Len(f.path)
           /\ fr' = [fr EXCEPT ![p].dp = i, ![p].ip = None]
           /\ Goto(p, "at") /\ UNCHANGED ref
  <2>1. PICK g : g = [f EXCEPT !.dp = i, !.ip = None]
    OBVIOUS
  <2>2. g \in Frame /\ g.op = f.op /\ g.new = f.new /\ g.path = f.path /\ g.k = f.k /\ g.ip = None /\ g.dp = i
      /\ g.old = f.old /\ g.put = None /\ g.then = "user"
    BY <2>1, <1>1, <1>2, <1>3, <1>4, <1>b, <1>5
       DEF Before, Frame, MaybeInode, NoCall, Places, Points
  <2>3. Moves(p, g, "at", fd[p], cwd[p])
    BY <2>1, <1>1, <1>2, <1>3, <1>4, <1>b, <1>5 DEF Before, Moves, Goto, files
  <2>4. Shape(g, "at")
    BY <2>2, <1>1, <1>2, <1>3, <1>4, <1>b, <1>5 DEF Before, Shape, Has, Stage, InIput, Making
  <2>5. Live(g, "at", fd[p], cwd[p])
    BY <2>2, <1>1, <1>2, <1>3, <1>4, <1>b, <1>5 DEF Before, Live, Stage, InIput
  <2>6. Balance(p, g, "at", fd[p], cwd[p])
    <3>1. \A x \in Inode : Mine(g, fd[p], cwd[p], x) = MineOf(p, x) /\ MineOf(p, x) \in Int
      BY <2>2, <1>1, <1>2, <1>3, <1>4, <1>b, <1>5 DEF Before, Mine, MineOf, One
    <3>2. \A x \in Inode : /\ One(Owed(g, "at") = x) = One(Owed(f, pc[p]) = x)
                           /\ One(Owed(f, pc[p]) = x) \in Int
      BY <2>2, <1>1, <1>2, <1>3, <1>4, <1>b, <1>5 DEF Before, One, Owed, Stage, InIput
    <3>3. \A x \in Inode : ref'[x] = ref[x] /\ ref[x] \in Int
      BY <1>1, <1>2, <1>3, <1>4, <1>b, <1>5 DEF Before, disk, Ilock, One
    <3>7. \A x \in Inode : nlink'[x] = nlink[x] /\ nlink[x] \in Int
      BY <1>1, <1>2, <1>3, <1>4, <1>b, <1>5 DEF Before, disk, Ilock, One
    <3>4. \A x \in Inode : /\ lock'[x] # lock[x] => {lock[x], lock'[x]} \subseteq {None, p}
                           /\ lock'[x] = p <=> Keeps(g, "at") = x
      BY <2>2, <1>1, <1>2, <1>3, <1>4, <1>b, <1>5 DEF Before, disk, Ilock, Keeps, Stage, InIput
    <3>5. \A x \in Inode : ref'[x] - Mine(g, fd[p], cwd[p], x) = ref[x] - MineOf(p, x)
      BY <3>1, <3>3 DEF One
    <3>6. \A x \in Inode : nlink'[x] - One(Owed(g, "at") = x) >= nlink[x] - One(Owed(f, pc[p]) = x)
      BY <3>2, <3>7 DEF One
    <3> QED BY <3>4, <3>5, <3>6 DEF Balance
  <2>7. Quiet(p)
    BY <1>1, <1>2, <1>3, <1>4, <1>b, <1>5 DEF Before, disk, Ilock, Quiet
  <2>8. fd[p] \in MaybeInode /\ cwd[p] \in Inode /\ "at" \in Points
    BY <1>1, <1>2, <1>3, <1>4, <1>b, <1>5 DEF Before, Points, Places, MaybeInode
  <2> QED BY <2>2, <2>3, <2>4, <2>5, <2>6, <2>7, <2>8, QuietStep
<1>6. CASE /\ ~(WantsParent(f.op) /\ f.k = Len(f.path)) /\ type[i] = "dir" /\ next # None
           /\ ref' = Got(next)
           /\ Iput(p, i, [f EXCEPT !.ip = next, !.k = @ + 1],
                   IF f.k = Len(f.path) THEN "at" ELSE "walk")
  <2>a. PICK place : place = IF f.k = Len(f.path) THEN "at" ELSE "walk"
    OBVIOUS
  <2>c. f.k + 1 \in Nat
    BY <1>3
  <2>b. type[next] = "free" => Elem(f) = ".."
    BY <1>3, <1>4, <1>6, FoundLive DEF MaybeInode
  <2>1. PICK h : h = [f EXCEPT !.ip = next, !.k = @ + 1]
    OBVIOUS
  <2>2. h \in Frame /\ h.op = f.op /\ h.new = f.new /\ h.path = f.path /\ h.k = f.k + 1
      /\ h.ip = next /\ h.dp = None /\ h.old = f.old
    BY <2>1, <1>1, <1>2, <1>3, <1>4, <1>b, <1>6, <2>a, <2>b, <2>c DEF Before, Frame, MaybeInode
  <2>3. PICK g \in Frame :
           /\ Moves(p, g, "put", fd[p], cwd[p]) /\ g.put = i /\ g.then = place
           /\ g.op = h.op /\ g.path = h.path /\ g.k = h.k /\ g.new = h.new
           /\ g.ip = h.ip /\ g.dp = h.dp /\ g.old = h.old
    <3>1. Iput(p, i, h, place) /\ UNCHANGED files
      BY <2>1, <1>1, <1>2, <1>3, <1>4, <1>b, <1>6, <2>a, <2>b, <2>c DEF files, Before, FilesMove
    <3>2. place \in Places /\ i \in Inode /\ fd[p] \in MaybeInode /\ cwd[p] \in Inode
      BY <1>1, <1>2, <1>3, <1>4, <1>b, <1>6, <2>a, <2>b, <2>c DEF Places, Points, Before
    <3> QED BY <3>1, <3>2, <2>2, IputOnly
  <2>4. Shape(g, "put")
    BY <2>2, <2>3, <1>1, <1>2, <1>3, <1>4, <1>b, <1>6, <2>a, <2>b, <2>c
       DEF Before, Shape, Has, Stage, InIput, Making
  <2>5. Live(g, "put", fd[p], cwd[p])
    <3>1. g.path = f.path /\ g.k = f.k + 1 /\ f.k \in Nat /\ f.k >= 1
      BY <2>2, <2>3, <1>1, <1>2, <1>3, <1>4, <1>b, <1>6, <2>a, <2>b, <2>c DEF Before
    <3>2. type[next] = "free" => ByDotDot(g)
      BY <3>1, <2>b DEF ByDotDot, Elem
    <3> QED BY <2>2, <2>3, <3>2, <1>1, <1>2, <1>3, <1>4, <1>b, <1>6, <2>a, <2>b, <2>c
           DEF Before, Live, Stage, InIput
  <2>6. Balance(p, g, "put", fd[p], cwd[p])
    <3>1. \A x \in Inode : Mine(g, fd[p], cwd[p], x) = MineOf(p, x) + One(x = next) /\ MineOf(p, x) \in Int
      BY SMTT(30), <2>2, <2>3, <1>1, <1>2, <1>3, <1>4, <1>b, <1>6, <2>a, <2>b, <2>c
         DEF Before, Mine, MineOf, One
    <3>2. \A x \in Inode : /\ One(Owed(g, "put") = x) = One(Owed(f, pc[p]) = x)
                           /\ One(Owed(f, pc[p]) = x) \in Int
      BY <2>2, <2>3, <1>1, <1>2, <1>3, <1>4, <1>b, <1>6, <2>a, <2>b, <2>c
         DEF Before, One, Owed, Stage, InIput
    <3>3. \A x \in Inode : ref'[x] = ref[x] + One(x = next) /\ ref[x] \in Int
      BY SMTT(30), <1>1, <1>2, <1>3, <1>4, <1>b, <1>6, <2>a, <2>b, <2>c
         DEF Before, disk, Ilock, Got, One
    <3>7. \A x \in Inode : nlink'[x] = nlink[x] /\ nlink[x] \in Int
      BY <1>1, <1>2, <1>3, <1>4, <1>b, <1>6, <2>a, <2>b, <2>c DEF Before, disk, Ilock, Got, One
    <3>4. \A x \in Inode : /\ lock'[x] # lock[x] => {lock[x], lock'[x]} \subseteq {None, p}
                           /\ lock'[x] = p <=> Keeps(g, "put") = x
      BY <2>2, <2>3, <1>1, <1>2, <1>3, <1>4, <1>b, <1>6, <2>a, <2>b, <2>c
         DEF Before, disk, Ilock, Got, Keeps, Stage, InIput
    <3>5. \A x \in Inode : ref'[x] - Mine(g, fd[p], cwd[p], x) = ref[x] - MineOf(p, x)
      BY <3>1, <3>3 DEF One
    <3>6. \A x \in Inode : nlink'[x] - One(Owed(g, "put") = x) >= nlink[x] - One(Owed(f, pc[p]) = x)
      BY <3>2, <3>7 DEF One
    <3> QED BY <3>4, <3>5, <3>6 DEF Balance
  <2>7. Quiet(p)
    <3>1. ref' \in [Inode -> Int]
      <4>1. ref \in [Inode -> Int]
        BY <1>b DEF Before
      <4> QED BY SMTT(30), <4>1, <1>1, <1>2, <1>3, <1>4, <1>b, <1>6, <2>a, <2>b, <2>c
             DEF disk, Ilock, Got, MaybeInode
    <3>2. nlink' \in [Inode -> Int]
      BY <1>1, <1>2, <1>3, <1>4, <1>b, <1>6, <2>a, <2>b, <2>c DEF Before, disk, Ilock, Got
    <3>3. lock' \in [Inode -> Proc \cup {None}]
      BY <1>1, <1>2, <1>3, <1>4, <1>b, <1>6, <2>a, <2>b, <2>c DEF Before, disk, Ilock, Got
    <3>4. valid' \subseteq Inode /\ \A x \in valid' : x \in valid \/ type[x] # "free"
      BY <1>1, <1>2, <1>3, <1>4, <1>b, <1>6, <2>a, <2>b, <2>c DEF Before, disk, Ilock, Got, Live
    <3>5. UNCHANGED <<type, entry>> /\ panicked' = panicked
      BY <1>1, <1>2, <1>3, <1>4, <1>b, <1>6, <2>a, <2>b, <2>c DEF Before, disk, Ilock, Got
    <3> QED BY <3>1, <3>2, <3>3, <3>4, <3>5 DEF Quiet
  <2>8. fd[p] \in MaybeInode /\ cwd[p] \in Inode /\ "put" \in Points
    BY <1>1, <1>2, <1>3, <1>4, <1>b, <1>6, <2>a, <2>b, <2>c DEF Before, Points, Places, MaybeInode
  <2> QED BY <2>2, <2>3, <2>4, <2>5, <2>6, <2>7, <2>8, QuietStep
<1>7. CASE /\ Iput(p, i, [f EXCEPT !.ip = None], Failed(f.op)) /\ UNCHANGED ref
  <2>1. PICK h : h = [f EXCEPT !.ip = None]
    OBVIOUS
  <2>2. h \in Frame /\ h.op = f.op /\ h.new = f.new /\ h.path = f.path /\ h.ip = None /\ h.dp = None /\ h.old = f.old
    BY <2>1, <1>1, <1>2, <1>3, <1>4, <1>b, <1>7 DEF Before, Frame, MaybeInode
  <2>3. PICK g \in Frame :
           /\ Moves(p, g, "put", fd[p], cwd[p]) /\ g.put = i /\ g.then = Failed(f.op)
           /\ g.op = h.op /\ g.path = h.path /\ g.k = h.k /\ g.new = h.new
           /\ g.ip = h.ip /\ g.dp = h.dp /\ g.old = h.old
    <3>1. Iput(p, i, h, Failed(f.op)) /\ UNCHANGED files
      BY <2>1, <1>1, <1>2, <1>3, <1>4, <1>b, <1>7 DEF files, Before, FilesMove
    <3>2. Failed(f.op) \in Places /\ i \in Inode /\ fd[p] \in MaybeInode /\ cwd[p] \in Inode
      BY <1>1, <1>2, <1>3, <1>4, <1>b, <1>7 DEF Places, Points, Before, Failed
    <3> QED BY <3>1, <3>2, <2>2, IputOnly
  <2>4. Shape(g, "put")
    BY <2>2, <2>3, <1>1, <1>2, <1>3, <1>4, <1>b, <1>7
       DEF Before, Shape, Has, Stage, InIput, Making, Failed
  <2>5. Live(g, "put", fd[p], cwd[p])
    BY <2>2, <2>3, <1>1, <1>2, <1>3, <1>4, <1>b, <1>7 DEF Before, Live, Stage, InIput
  <2>6. Balance(p, g, "put", fd[p], cwd[p])
    <3>1. \A x \in Inode : Mine(g, fd[p], cwd[p], x) = MineOf(p, x) /\ MineOf(p, x) \in Int
      BY <2>2, <2>3, <1>1, <1>2, <1>3, <1>4, <1>b, <1>7 DEF Before, Mine, MineOf, One
    <3>2. \A x \in Inode : /\ One(Owed(g, "put") = x) = One(Owed(f, pc[p]) = x)
                           /\ One(Owed(f, pc[p]) = x) \in Int
      BY <2>2, <2>3, <1>1, <1>2, <1>3, <1>4, <1>b, <1>7 DEF Before, One, Owed, Stage, InIput, Failed
    <3>3. \A x \in Inode : ref'[x] = ref[x] /\ ref[x] \in Int
      BY <1>1, <1>2, <1>3, <1>4, <1>b, <1>7 DEF Before, disk, Ilock, One
    <3>7. \A x \in Inode : nlink'[x] = nlink[x] /\ nlink[x] \in Int
      BY <1>1, <1>2, <1>3, <1>4, <1>b, <1>7 DEF Before, disk, Ilock, One
    <3>4. \A x \in Inode : /\ lock'[x] # lock[x] => {lock[x], lock'[x]} \subseteq {None, p}
                           /\ lock'[x] = p <=> Keeps(g, "put") = x
      BY <2>2, <2>3, <1>1, <1>2, <1>3, <1>4, <1>b, <1>7
         DEF Before, disk, Ilock, Keeps, Stage, InIput, Failed
    <3>5. \A x \in Inode : ref'[x] - Mine(g, fd[p], cwd[p], x) = ref[x] - MineOf(p, x)
      BY <3>1, <3>3 DEF One
    <3>6. \A x \in Inode : nlink'[x] - One(Owed(g, "put") = x) >= nlink[x] - One(Owed(f, pc[p]) = x)
      BY <3>2, <3>7 DEF One
    <3> QED BY <3>4, <3>5, <3>6 DEF Balance
  <2>7. Quiet(p)
    BY <1>1, <1>2, <1>3, <1>4, <1>b, <1>7 DEF Before, disk, Ilock, Quiet
  <2>8. fd[p] \in MaybeInode /\ cwd[p] \in Inode /\ "put" \in Points
    BY <1>1, <1>2, <1>3, <1>4, <1>b, <1>7 DEF Before, Points, Places, MaybeInode, Failed
  <2> QED BY <2>2, <2>3, <2>4, <2>5, <2>6, <2>7, <2>8, QuietStep
<1> QED
  BY <1>1, <1>4, <1>5, <1>6, <1>7 DEF Walk

\* close puts the inode of the file.
LEMMA CloseKeeps ==
  ASSUME IInv, NEW p \in Proc, Close(p)
  PROVE  IInv'
<1> DEFINE f == fr[p]
<1>b. Before(p)
  BY Own
<1>1. PICK i : i = fd[p]
  OBVIOUS
<1>2. /\ pc[p] = "user" /\ i # None /\ fd' = [fd EXCEPT ![p] = None]
      /\ Iput(p, i, NoCall, "user") /\ UNCHANGED <<disk, cache, lock, cwd, panicked>>
  BY <1>1 DEF Close
<1>3. /\ i \in Inode /\ f.ip = None /\ f.dp = None /\ f.old = None /\ f.put = None /\ f.op = "none"
      /\ NoCall \in Frame
  BY <1>b, <1>1, <1>2, FrameFields, NoCallFrame
     DEF Before, Shape, Has, Stage, InIput, MaybeInode, NoCall
<1>4. None \in MaybeInode /\ cwd' = [cwd EXCEPT ![p] = cwd[p]]
  BY <1>2, <1>b DEF MaybeInode, Before
<1> QED
  <2>1. PICK h : h = NoCall
    OBVIOUS
  <2>2. h \in Frame /\ h.op = "none" /\ h.new = <<>> /\ h.ip = None /\ h.dp = None /\ h.old = None
    BY <2>1, <1>1, <1>2, <1>3, <1>4, <1>b DEF NoCall
  <2>3. PICK g \in Frame :
           /\ Moves(p, g, "put", None, cwd[p]) /\ g.put = i /\ g.then = "user"
           /\ g.op = h.op /\ g.path = h.path /\ g.k = h.k /\ g.new = h.new
           /\ g.ip = h.ip /\ g.dp = h.dp /\ g.old = h.old
    <3>1. Iput(p, i, h, "user") /\ FilesMove(p, None, cwd[p])
      BY <2>1, <1>1, <1>2, <1>3, <1>4, <1>b DEF files, Before, FilesMove
    <3>2. "user" \in Places /\ i \in Inode /\ None \in MaybeInode /\ cwd[p] \in Inode /\ h \in Frame
      BY <2>2, <1>1, <1>2, <1>3, <1>4, <1>b DEF Places, Points, Before
    <3> QED BY <3>1, <3>2, IputMoves
  <2>4. Shape(g, "put")
    BY <2>2, <2>3, <1>1, <1>2, <1>3, <1>4, <1>b DEF Before, Shape, Has, Stage, InIput, Making
  <2>5. Live(g, "put", None, cwd[p])
    BY <2>2, <2>3, <1>1, <1>2, <1>3, <1>4, <1>b DEF Before, Live, ByDotDot, Stage, InIput
  <2>6. Balance(p, g, "put", None, cwd[p])
    <3>1. \A x \in Inode : Mine(g, None, cwd[p], x) = MineOf(p, x) /\ MineOf(p, x) \in Int
      BY <2>2, <2>3, <1>1, <1>2, <1>3, <1>4, <1>b DEF Before, Mine, MineOf, One
    <3>2. \A x \in Inode : /\ One(Owed(g, "put") = x) = One(Owed(f, pc[p]) = x)
                           /\ One(Owed(f, pc[p]) = x) \in Int
      BY <2>2, <2>3, <1>1, <1>2, <1>3, <1>4, <1>b DEF Before, One, Owed, Stage, InIput
    <3>3. \A x \in Inode : ref'[x] = ref[x] /\ nlink'[x] = nlink[x] /\ ref[x] \in Int /\ nlink[x] \in Int
      BY <1>1, <1>2, <1>3, <1>4, <1>b DEF Before, One, disk, cache
    <3>4. \A x \in Inode : /\ lock'[x] # lock[x] => {lock[x], lock'[x]} \subseteq {None, p}
                           /\ lock'[x] = p <=> Keeps(g, "put") = x
      BY <2>2, <2>3, <1>1, <1>2, <1>3, <1>4, <1>b DEF Before, Keeps, Stage, InIput, disk, cache
    <3>5. \A x \in Inode : ref'[x] - Mine(g, None, cwd[p], x) = ref[x] - MineOf(p, x)
      BY <3>1, <3>3 DEF One
    <3>6. \A x \in Inode : nlink'[x] - One(Owed(g, "put") = x) >= nlink[x] - One(Owed(f, pc[p]) = x)
      BY <3>2, <3>3 DEF One
    <3> QED BY <3>4, <3>5, <3>6 DEF Balance
  <2>7. Quiet(p)
    BY <1>1, <1>2, <1>3, <1>4, <1>b DEF Before, Quiet, disk, cache
  <2>8. None \in MaybeInode /\ cwd[p] \in Inode /\ "put" \in Points
    BY <1>1, <1>2, <1>3, <1>4, <1>b DEF Before, Points, MaybeInode
  <2> QED BY <2>3, <2>4, <2>5, <2>6, <2>7, <2>8, QuietStep

\* chdir puts the old directory, or what is no directory.
LEMMA ChdirKeeps ==
  ASSUME IInv, NEW p \in Proc, Chdir(p)
  PROVE  IInv'
<1> DEFINE f == fr[p]
<1>b. Before(p)
  BY Own
<1>1. PICK i : i = f.ip
  OBVIOUS
<1>2. /\ pc[p] = "at" /\ f.op = "chdir" /\ Ilock(i)
      /\ cwd' = [cwd EXCEPT ![p] = IF type[i] = "dir" THEN i ELSE @]
      /\ Iput(p, IF type[i] = "dir" THEN cwd[p] ELSE i, [f EXCEPT !.ip = None], "user")
      /\ UNCHANGED <<disk, ref, lock, fd, panicked>>
  BY <1>1 DEF Chdir
<1>3. i \in Inode /\ f.dp = None /\ f.old = None /\ f.put = None /\ f.then = "user"
  BY <1>b, <1>1, <1>2, FrameFields DEF Before, Shape, Has, Stage, InIput, WantsParent, MaybeInode
<1>4. PICK d \in Inode, y \in Inode :
        /\ d = (IF type[i] = "dir" THEN i ELSE cwd[p]) /\ y = (IF type[i] = "dir" THEN cwd[p] ELSE i)
  BY <1>3, <1>b DEF Before
<1>5. /\ cwd' = [cwd EXCEPT ![p] = d] /\ Iput(p, y, [f EXCEPT !.ip = None], "user")
      /\ fd' = [fd EXCEPT ![p] = fd[p]] /\ type[d] # "free"
      /\ \/ d = i /\ y = cwd[p]
         \/ d = cwd[p] /\ y = i
  BY <1>2, <1>4, <1>b DEF Before, Ilock, Live
<1> QED
  <2>1. PICK h : h = [f EXCEPT !.ip = None]
    OBVIOUS
  <2>2. h \in Frame /\ h.op = f.op /\ h.new = f.new /\ h.ip = None /\ h.dp = None /\ h.old = None
    BY <2>1, <1>1, <1>2, <1>3, <1>4, <1>5, <1>b DEF Before, Frame, MaybeInode
  <2>3. PICK g \in Frame :
           /\ Moves(p, g, "put", fd[p], d) /\ g.put = y /\ g.then = "user"
           /\ g.op = h.op /\ g.path = h.path /\ g.k = h.k /\ g.new = h.new
           /\ g.ip = h.ip /\ g.dp = h.dp /\ g.old = h.old
    <3>1. Iput(p, y, h, "user") /\ FilesMove(p, fd[p], d)
      BY <2>1, <1>1, <1>2, <1>3, <1>4, <1>5, <1>b DEF files, Before, FilesMove
    <3>2. "user" \in Places /\ y \in Inode /\ fd[p] \in MaybeInode /\ d \in Inode /\ h \in Frame
      BY <2>2, <1>1, <1>2, <1>3, <1>4, <1>5, <1>b DEF Places, Points, Before
    <3> QED BY <3>1, <3>2, IputMoves
  <2>4. Shape(g, "put")
    BY <2>2, <2>3, <1>1, <1>2, <1>3, <1>4, <1>5, <1>b DEF Before, Shape, Has, Stage, InIput, Making
  <2>5. Live(g, "put", fd[p], d)
    BY <2>2, <2>3, <1>1, <1>2, <1>3, <1>4, <1>5, <1>b DEF Before, Live, ByDotDot, Stage, InIput
  <2>6. Balance(p, g, "put", fd[p], d)
    <3>1. \A x \in Inode : Mine(g, fd[p], d, x) = MineOf(p, x) /\ MineOf(p, x) \in Int
      BY <2>2, <2>3, <1>1, <1>2, <1>3, <1>4, <1>5, <1>b DEF Before, Mine, MineOf, One
    <3>2. \A x \in Inode : /\ One(Owed(g, "put") = x) = One(Owed(f, pc[p]) = x)
                           /\ One(Owed(f, pc[p]) = x) \in Int
      BY <2>2, <2>3, <1>1, <1>2, <1>3, <1>4, <1>5, <1>b DEF Before, One, Owed, Stage, InIput
    <3>3. \A x \in Inode : ref'[x] = ref[x] /\ nlink'[x] = nlink[x] /\ ref[x] \in Int /\ nlink[x] \in Int
      BY <1>1, <1>2, <1>3, <1>4, <1>5, <1>b DEF Before, One, disk, Ilock
    <3>4. \A x \in Inode : /\ lock'[x] # lock[x] => {lock[x], lock'[x]} \subseteq {None, p}
                           /\ lock'[x] = p <=> Keeps(g, "put") = x
      BY <2>2, <2>3, <1>1, <1>2, <1>3, <1>4, <1>5, <1>b
         DEF Before, Keeps, Stage, InIput, disk, Ilock
    <3>5. \A x \in Inode : ref'[x] - Mine(g, fd[p], d, x) = ref[x] - MineOf(p, x)
      BY <3>1, <3>3 DEF One
    <3>6. \A x \in Inode : nlink'[x] - One(Owed(g, "put") = x) >= nlink[x] - One(Owed(f, pc[p]) = x)
      BY <3>2, <3>3 DEF One
    <3> QED BY <3>4, <3>5, <3>6 DEF Balance
  <2>7. Quiet(p)
    BY <1>1, <1>2, <1>3, <1>4, <1>5, <1>b DEF Before, Quiet, disk, Ilock
  <2>8. fd[p] \in MaybeInode /\ d \in Inode /\ "put" \in Points
    BY <1>1, <1>2, <1>3, <1>4, <1>5, <1>b DEF Before, Points, MaybeInode
  <2> QED BY <2>3, <2>4, <2>5, <2>6, <2>7, <2>8, QuietStep

\* The inode that has the name already.
LEMMA ExistsKeeps ==
  ASSUME IInv, NEW p \in Proc, Exists(p)
  PROVE  IInv'
<1> DEFINE f == fr[p]
<1>b. Before(p)
  BY Own
<1>1. PICK i : i = f.ip
  OBVIOUS
<1>2. /\ pc[p] = "exists" /\ Ilock(i)
      /\ OpenFile(p, i) \/ OpenFails(p, i)
      /\ UNCHANGED <<disk, ref, lock, cwd, panicked>>
  BY <1>1 DEF Exists
<1>3. i \in Inode /\ f.dp = None /\ f.old = None /\ f.put = None /\ f.then = "user" /\ f.op \in Making
  BY <1>b, <1>1, <1>2, FrameFields
     DEF Before, Shape, Has, Stage, InIput, WantsParent, Making, MaybeInode, Elem
<1>4. CASE fd[p] = None /\ fd' = [fd EXCEPT ![p] = i] /\ Return(p)
  <2>1. PICK g : g = NoCall
    OBVIOUS
  <2>2. g \in Frame /\ g.op = "none" /\ g.new = <<>> /\ g.path = <<>> /\ g.k = 1 /\ g.ip = None /\ g.dp = None
      /\ g.old = None /\ g.put = None /\ g.then = "user"
    BY <2>1, <1>1, <1>2, <1>3, <1>b, <1>4, NoCallFrame
       DEF Before, Frame, MaybeInode, NoCall, Places, Points
  <2>3. Moves(p, g, "user", i, cwd[p])
    BY <2>1, <1>1, <1>2, <1>3, <1>b, <1>4 DEF Before, Moves, Goto, files, Return
  <2>4. Shape(g, "user")
    BY <2>2, <1>1, <1>2, <1>3, <1>b, <1>4 DEF Before, Shape, Has, Stage, InIput, Making
  <2>5. Live(g, "user", i, cwd[p])
    BY <2>2, <1>1, <1>2, <1>3, <1>b, <1>4 DEF Before, Live, Stage, InIput, Ilock
  <2>6. Balance(p, g, "user", i, cwd[p])
    <3>1. \A x \in Inode : Mine(g, i, cwd[p], x) = MineOf(p, x) /\ MineOf(p, x) \in Int
      BY <2>2, <1>1, <1>2, <1>3, <1>b, <1>4 DEF Before, Mine, MineOf, One
    <3>2. \A x \in Inode : /\ One(Owed(g, "user") = x) = One(Owed(f, pc[p]) = x)
                           /\ One(Owed(f, pc[p]) = x) \in Int
      BY <2>2, <1>1, <1>2, <1>3, <1>b, <1>4 DEF Before, One, Owed, Stage, InIput
    <3>3. \A x \in Inode : ref'[x] = ref[x] /\ ref[x] \in Int
      BY <1>1, <1>2, <1>3, <1>b, <1>4 DEF Before, disk, Ilock, One
    <3>7. \A x \in Inode : nlink'[x] = nlink[x] /\ nlink[x] \in Int
      BY <1>1, <1>2, <1>3, <1>b, <1>4 DEF Before, disk, Ilock, One
    <3>4. \A x \in Inode : /\ lock'[x] # lock[x] => {lock[x], lock'[x]} \subseteq {None, p}
                           /\ lock'[x] = p <=> Keeps(g, "user") = x
      BY <2>2, <1>1, <1>2, <1>3, <1>b, <1>4 DEF Before, disk, Ilock, Keeps, Stage, InIput
    <3>5. \A x \in Inode : ref'[x] - Mine(g, i, cwd[p], x) = ref[x] - MineOf(p, x)
      BY <3>1, <3>3 DEF One
    <3>6. \A x \in Inode : nlink'[x] - One(Owed(g, "user") = x) >= nlink[x] - One(Owed(f, pc[p]) = x)
      BY <3>2, <3>7 DEF One
    <3> QED BY <3>4, <3>5, <3>6 DEF Balance
  <2>7. Quiet(p)
    BY <1>1, <1>2, <1>3, <1>b, <1>4 DEF Before, disk, Ilock, Quiet
  <2>8. i \in MaybeInode /\ cwd[p] \in Inode /\ "user" \in Points
    BY <1>1, <1>2, <1>3, <1>b, <1>4 DEF Before, Points, Places, MaybeInode
  <2> QED BY <2>2, <2>3, <2>4, <2>5, <2>6, <2>7, <2>8, QuietStep
<1>5. CASE Iput(p, i, [f EXCEPT !.ip = None], "user") /\ UNCHANGED fd
  <2>1. PICK h : h = [f EXCEPT !.ip = None]
    OBVIOUS
  <2>2. h \in Frame /\ h.op = f.op /\ h.new = f.new /\ h.path = f.path /\ h.k = f.k /\ h.ip = None /\ h.dp = None /\ h.old = None
    BY <2>1, <1>1, <1>2, <1>3, <1>b, <1>5 DEF Before, Frame, MaybeInode
  <2>3. PICK g \in Frame :
           /\ Moves(p, g, "put", fd[p], cwd[p]) /\ g.put = i /\ g.then = "user"
           /\ g.op = h.op /\ g.path = h.path /\ g.k = h.k /\ g.new = h.new
           /\ g.ip = h.ip /\ g.dp = h.dp /\ g.old = h.old
    <3>1. Iput(p, i, h, "user") /\ UNCHANGED files
      BY <2>1, <1>1, <1>2, <1>3, <1>b, <1>5 DEF files, Before, FilesMove
    <3>2. "user" \in Places /\ i \in Inode /\ fd[p] \in MaybeInode /\ cwd[p] \in Inode
      BY <1>1, <1>2, <1>3, <1>b, <1>5 DEF Places, Points, Before
    <3> QED BY <3>1, <3>2, <2>2, IputOnly
  <2>4. Shape(g, "put")
    BY <2>2, <2>3, <1>1, <1>2, <1>3, <1>b, <1>5 DEF Before, Shape, Has, Stage, InIput, Making
  <2>5. Live(g, "put", fd[p], cwd[p])
    BY <2>2, <2>3, <1>1, <1>2, <1>3, <1>b, <1>5 DEF Before, Live, Stage, InIput
  <2>6. Balance(p, g, "put", fd[p], cwd[p])
    <3>1. \A x \in Inode : Mine(g, fd[p], cwd[p], x) = MineOf(p, x) /\ MineOf(p, x) \in Int
      BY <2>2, <2>3, <1>1, <1>2, <1>3, <1>b, <1>5 DEF Before, Mine, MineOf, One
    <3>2. \A x \in Inode : /\ One(Owed(g, "put") = x) = One(Owed(f, pc[p]) = x)
                           /\ One(Owed(f, pc[p]) = x) \in Int
      BY <2>2, <2>3, <1>1, <1>2, <1>3, <1>b, <1>5 DEF Before, One, Owed, Stage, InIput
    <3>3. \A x \in Inode : ref'[x] = ref[x] /\ ref[x] \in Int
      BY <1>1, <1>2, <1>3, <1>b, <1>5 DEF Before, disk, Ilock, One
    <3>7. \A x \in Inode : nlink'[x] = nlink[x] /\ nlink[x] \in Int
      BY <1>1, <1>2, <1>3, <1>b, <1>5 DEF Before, disk, Ilock, One
    <3>4. \A x \in Inode : /\ lock'[x] # lock[x] => {lock[x], lock'[x]} \subseteq {None, p}
                           /\ lock'[x] = p <=> Keeps(g, "put") = x
      BY <2>2, <2>3, <1>1, <1>2, <1>3, <1>b, <1>5 DEF Before, disk, Ilock, Keeps, Stage, InIput
    <3>5. \A x \in Inode : ref'[x] - Mine(g, fd[p], cwd[p], x) = ref[x] - MineOf(p, x)
      BY <3>1, <3>3 DEF One
    <3>6. \A x \in Inode : nlink'[x] - One(Owed(g, "put") = x) >= nlink[x] - One(Owed(f, pc[p]) = x)
      BY <3>2, <3>7 DEF One
    <3> QED BY <3>4, <3>5, <3>6 DEF Balance
  <2>7. Quiet(p)
    BY <1>1, <1>2, <1>3, <1>b, <1>5 DEF Before, disk, Ilock, Quiet
  <2>8. fd[p] \in MaybeInode /\ cwd[p] \in Inode /\ "put" \in Points
    BY <1>1, <1>2, <1>3, <1>b, <1>5 DEF Before, Points, Places, MaybeInode
  <2> QED BY <2>2, <2>3, <2>4, <2>5, <2>6, <2>7, <2>8, QuietStep
<1> QED BY <1>2, <1>4, <1>5 DEF OpenFile, OpenFails

\* The new inode.
LEMMA MadeKeeps ==
  ASSUME IInv, NEW p \in Proc, Made(p)
  PROVE  IInv'
<1> DEFINE f == fr[p]
<1>b. Before(p)
  BY Own
<1>1. PICK i : i = f.ip
  OBVIOUS
<1>2. /\ pc[p] = "made" /\ lock' = [lock EXCEPT ![i] = None]
      /\ OpenFile(p, i) \/ OpenFails(p, i)
      /\ UNCHANGED <<disk, cache, cwd, panicked>>
  BY <1>1 DEF Made
<1>3. i \in Inode /\ f.dp = None /\ f.old = None /\ f.put = None /\ f.then = "user" /\ f.op \in Making
  BY <1>b, <1>1, <1>2, FrameFields
     DEF Before, Shape, Has, Stage, InIput, WantsParent, Making, MaybeInode, Elem
<1>4. CASE fd[p] = None /\ fd' = [fd EXCEPT ![p] = i] /\ Return(p)
  <2>1. PICK g : g = NoCall
    OBVIOUS
  <2>2. g \in Frame /\ g.op = "none" /\ g.new = <<>> /\ g.path = <<>> /\ g.k = 1 /\ g.ip = None /\ g.dp = None
      /\ g.old = None /\ g.put = None /\ g.then = "user"
    BY <2>1, <1>1, <1>2, <1>3, <1>b, <1>4, NoCallFrame
       DEF Before, Frame, MaybeInode, NoCall, Places, Points
  <2>3. Moves(p, g, "user", i, cwd[p])
    BY <2>1, <1>1, <1>2, <1>3, <1>b, <1>4 DEF Before, Moves, Goto, files, Return
  <2>4. Shape(g, "user")
    BY <2>2, <1>1, <1>2, <1>3, <1>b, <1>4 DEF Before, Shape, Has, Stage, InIput, Making
  <2>5. Live(g, "user", i, cwd[p])
    BY <2>2, <1>1, <1>2, <1>3, <1>b, <1>4 DEF Before, Live, Stage, InIput
  <2>6. Balance(p, g, "user", i, cwd[p])
    <3>1. \A x \in Inode : Mine(g, i, cwd[p], x) = MineOf(p, x) /\ MineOf(p, x) \in Int
      BY <2>2, <1>1, <1>2, <1>3, <1>b, <1>4 DEF Before, Mine, MineOf, One
    <3>2. \A x \in Inode : /\ One(Owed(g, "user") = x) = One(Owed(f, pc[p]) = x)
                           /\ One(Owed(f, pc[p]) = x) \in Int
      BY <2>2, <1>1, <1>2, <1>3, <1>b, <1>4 DEF Before, One, Owed, Stage, InIput
    <3>3. \A x \in Inode : ref'[x] = ref[x] /\ ref[x] \in Int
      BY <1>1, <1>2, <1>3, <1>b, <1>4 DEF Before, disk, cache, One
    <3>7. \A x \in Inode : nlink'[x] = nlink[x] /\ nlink[x] \in Int
      BY <1>1, <1>2, <1>3, <1>b, <1>4 DEF Before, disk, cache, One
    <3>4. \A x \in Inode : /\ lock'[x] # lock[x] => {lock[x], lock'[x]} \subseteq {None, p}
                           /\ lock'[x] = p <=> Keeps(g, "user") = x
      BY <2>2, <1>1, <1>2, <1>3, <1>b, <1>4 DEF Before, disk, cache, Keeps, Stage, InIput
    <3>5. \A x \in Inode : ref'[x] - Mine(g, i, cwd[p], x) = ref[x] - MineOf(p, x)
      BY <3>1, <3>3 DEF One
    <3>6. \A x \in Inode : nlink'[x] - One(Owed(g, "user") = x) >= nlink[x] - One(Owed(f, pc[p]) = x)
      BY <3>2, <3>7 DEF One
    <3> QED BY <3>4, <3>5, <3>6 DEF Balance
  <2>7. Quiet(p)
    BY <1>1, <1>2, <1>3, <1>b, <1>4 DEF Before, disk, cache, Quiet
  <2>8. i \in MaybeInode /\ cwd[p] \in Inode /\ "user" \in Points
    BY <1>1, <1>2, <1>3, <1>b, <1>4 DEF Before, Points, Places, MaybeInode
  <2> QED BY <2>2, <2>3, <2>4, <2>5, <2>6, <2>7, <2>8, QuietStep
<1>5. CASE Iput(p, i, [f EXCEPT !.ip = None], "user") /\ UNCHANGED fd
  <2>1. PICK h : h = [f EXCEPT !.ip = None]
    OBVIOUS
  <2>2. h \in Frame /\ h.op = f.op /\ h.new = f.new /\ h.path = f.path /\ h.k = f.k /\ h.ip = None /\ h.dp = None /\ h.old = None
    BY <2>1, <1>1, <1>2, <1>3, <1>b, <1>5 DEF Before, Frame, MaybeInode
  <2>3. PICK g \in Frame :
           /\ Moves(p, g, "put", fd[p], cwd[p]) /\ g.put = i /\ g.then = "user"
           /\ g.op = h.op /\ g.path = h.path /\ g.k = h.k /\ g.new = h.new
           /\ g.ip = h.ip /\ g.dp = h.dp /\ g.old = h.old
    <3>1. Iput(p, i, h, "user") /\ UNCHANGED files
      BY <2>1, <1>1, <1>2, <1>3, <1>b, <1>5 DEF files, Before, FilesMove
    <3>2. "user" \in Places /\ i \in Inode /\ fd[p] \in MaybeInode /\ cwd[p] \in Inode
      BY <1>1, <1>2, <1>3, <1>b, <1>5 DEF Places, Points, Before
    <3> QED BY <3>1, <3>2, <2>2, IputOnly
  <2>4. Shape(g, "put")
    BY <2>2, <2>3, <1>1, <1>2, <1>3, <1>b, <1>5 DEF Before, Shape, Has, Stage, InIput, Making
  <2>5. Live(g, "put", fd[p], cwd[p])
    BY <2>2, <2>3, <1>1, <1>2, <1>3, <1>b, <1>5 DEF Before, Live, Stage, InIput
  <2>6. Balance(p, g, "put", fd[p], cwd[p])
    <3>1. \A x \in Inode : Mine(g, fd[p], cwd[p], x) = MineOf(p, x) /\ MineOf(p, x) \in Int
      BY <2>2, <2>3, <1>1, <1>2, <1>3, <1>b, <1>5 DEF Before, Mine, MineOf, One
    <3>2. \A x \in Inode : /\ One(Owed(g, "put") = x) = One(Owed(f, pc[p]) = x)
                           /\ One(Owed(f, pc[p]) = x) \in Int
      BY <2>2, <2>3, <1>1, <1>2, <1>3, <1>b, <1>5 DEF Before, One, Owed, Stage, InIput
    <3>3. \A x \in Inode : ref'[x] = ref[x] /\ ref[x] \in Int
      BY <1>1, <1>2, <1>3, <1>b, <1>5 DEF Before, disk, cache, One
    <3>7. \A x \in Inode : nlink'[x] = nlink[x] /\ nlink[x] \in Int
      BY <1>1, <1>2, <1>3, <1>b, <1>5 DEF Before, disk, cache, One
    <3>4. \A x \in Inode : /\ lock'[x] # lock[x] => {lock[x], lock'[x]} \subseteq {None, p}
                           /\ lock'[x] = p <=> Keeps(g, "put") = x
      BY <2>2, <2>3, <1>1, <1>2, <1>3, <1>b, <1>5 DEF Before, disk, cache, Keeps, Stage, InIput
    <3>5. \A x \in Inode : ref'[x] - Mine(g, fd[p], cwd[p], x) = ref[x] - MineOf(p, x)
      BY <3>1, <3>3 DEF One
    <3>6. \A x \in Inode : nlink'[x] - One(Owed(g, "put") = x) >= nlink[x] - One(Owed(f, pc[p]) = x)
      BY <3>2, <3>7 DEF One
    <3> QED BY <3>4, <3>5, <3>6 DEF Balance
  <2>7. Quiet(p)
    BY <1>1, <1>2, <1>3, <1>b, <1>5 DEF Before, disk, cache, Quiet
  <2>8. fd[p] \in MaybeInode /\ cwd[p] \in Inode /\ "put" \in Points
    BY <1>1, <1>2, <1>3, <1>b, <1>5 DEF Before, Points, Places, MaybeInode
  <2> QED BY <2>2, <2>3, <2>4, <2>5, <2>6, <2>7, <2>8, QuietStep
<1> QED BY <1>2, <1>4, <1>5 DEF OpenFile, OpenFails

\* The directory was not empty.
LEMMA UnlinkFullKeeps ==
  ASSUME IInv, NEW p \in Proc, UnlinkFull(p)
  PROVE  IInv'
<1> DEFINE f == fr[p]
<1>b. Before(p)
  BY Own
<1>1. PICK i : i = f.dp
  OBVIOUS
<1>2. /\ pc[p] = "unlink_full" /\ lock' = [lock EXCEPT ![i] = None]
      /\ Iput(p, i, [f EXCEPT !.dp = None], "user") /\ UNCHANGED <<disk, cache, files, panicked>>
  BY <1>1 DEF UnlinkFull
<1>3. i \in Inode /\ f.put = None /\ f.then = "user" /\ f.ip = None /\ f.old = None /\ f.op = "unlink"
  BY <1>b, <1>1, <1>2, FrameFields
     DEF Before, Shape, Has, Stage, InIput, WantsParent, Making, MaybeInode, Elem
<1> QED
  <2>1. PICK h : h = [f EXCEPT !.dp = None]
    OBVIOUS
  <2>2. h \in Frame /\ h.op = f.op /\ h.new = f.new /\ h.path = f.path /\ h.k = f.k /\ h.ip = None /\ h.dp = None /\ h.old = None
    BY <2>1, <1>1, <1>2, <1>3, <1>b DEF Before, Frame, MaybeInode
  <2>3. PICK g \in Frame :
           /\ Moves(p, g, "put", fd[p], cwd[p]) /\ g.put = i /\ g.then = "user"
           /\ g.op = h.op /\ g.path = h.path /\ g.k = h.k /\ g.new = h.new
           /\ g.ip = h.ip /\ g.dp = h.dp /\ g.old = h.old
    <3>1. Iput(p, i, h, "user") /\ UNCHANGED files
      BY <2>1, <1>1, <1>2, <1>3, <1>b DEF files, Before, FilesMove
    <3>2. "user" \in Places /\ i \in Inode /\ fd[p] \in MaybeInode /\ cwd[p] \in Inode
      BY <1>1, <1>2, <1>3, <1>b DEF Places, Points, Before
    <3> QED BY <3>1, <3>2, <2>2, IputOnly
  <2>4. Shape(g, "put")
    BY <2>2, <2>3, <1>1, <1>2, <1>3, <1>b DEF Before, Shape, Has, Stage, InIput, Making
  <2>5. Live(g, "put", fd[p], cwd[p])
    BY <2>2, <2>3, <1>1, <1>2, <1>3, <1>b DEF Before, Live, Stage, InIput
  <2>6. Balance(p, g, "put", fd[p], cwd[p])
    <3>1. \A x \in Inode : Mine(g, fd[p], cwd[p], x) = MineOf(p, x) /\ MineOf(p, x) \in Int
      BY <2>2, <2>3, <1>1, <1>2, <1>3, <1>b DEF Before, Mine, MineOf, One
    <3>2. \A x \in Inode : /\ One(Owed(g, "put") = x) = One(Owed(f, pc[p]) = x)
                           /\ One(Owed(f, pc[p]) = x) \in Int
      BY <2>2, <2>3, <1>1, <1>2, <1>3, <1>b DEF Before, One, Owed, Stage, InIput
    <3>3. \A x \in Inode : ref'[x] = ref[x] /\ ref[x] \in Int
      BY <1>1, <1>2, <1>3, <1>b DEF Before, disk, cache, One
    <3>7. \A x \in Inode : nlink'[x] = nlink[x] /\ nlink[x] \in Int
      BY <1>1, <1>2, <1>3, <1>b DEF Before, disk, cache, One
    <3>4. \A x \in Inode : /\ lock'[x] # lock[x] => {lock[x], lock'[x]} \subseteq {None, p}
                           /\ lock'[x] = p <=> Keeps(g, "put") = x
      BY <2>2, <2>3, <1>1, <1>2, <1>3, <1>b DEF Before, disk, cache, Keeps, Stage, InIput
    <3>5. \A x \in Inode : ref'[x] - Mine(g, fd[p], cwd[p], x) = ref[x] - MineOf(p, x)
      BY <3>1, <3>3 DEF One
    <3>6. \A x \in Inode : nlink'[x] - One(Owed(g, "put") = x) >= nlink[x] - One(Owed(f, pc[p]) = x)
      BY <3>2, <3>7 DEF One
    <3> QED BY <3>4, <3>5, <3>6 DEF Balance
  <2>7. Quiet(p)
    BY <1>1, <1>2, <1>3, <1>b DEF Before, disk, cache, Quiet
  <2>8. fd[p] \in MaybeInode /\ cwd[p] \in Inode /\ "put" \in Points
    BY <1>1, <1>2, <1>3, <1>b DEF Before, Points, Places, MaybeInode
  <2> QED BY <2>2, <2>3, <2>4, <2>5, <2>6, <2>7, <2>8, QuietStep

\* The name is gone: its link is not counted any more.
LEMMA UnlinkedKeeps ==
  ASSUME IInv, NEW p \in Proc, Unlinked(p)
  PROVE  IInv'
<1> DEFINE f == fr[p]
<1>b. Before(p)
  BY Own
<1>1. PICK i : i = f.ip
  OBVIOUS
<1>2. /\ pc[p] = "unlinked" /\ lock' = [lock EXCEPT ![i] = None]
      /\ nlink' = [nlink EXCEPT ![i] = @ - 1]
      /\ Iput(p, i, [f EXCEPT !.ip = None], "user") /\ UNCHANGED <<type, entry, cache, files, panicked>>
  BY <1>1 DEF Unlinked
<1>3. i \in Inode /\ f.put = None /\ f.then = "user" /\ f.dp = None /\ f.old = None /\ f.op = "unlink"
  BY <1>b, <1>1, <1>2, FrameFields
     DEF Before, Shape, Has, Stage, InIput, WantsParent, Making, MaybeInode, Elem
<1> QED
  <2>1. PICK h : h = [f EXCEPT !.ip = None]
    OBVIOUS
  <2>2. h \in Frame /\ h.op = f.op /\ h.new = f.new /\ h.path = f.path /\ h.k = f.k /\ h.ip = None /\ h.dp = None /\ h.old = None
    BY <2>1, <1>1, <1>2, <1>3, <1>b DEF Before, Frame, MaybeInode
  <2>3. PICK g \in Frame :
           /\ Moves(p, g, "put", fd[p], cwd[p]) /\ g.put = i /\ g.then = "user"
           /\ g.op = h.op /\ g.path = h.path /\ g.k = h.k /\ g.new = h.new
           /\ g.ip = h.ip /\ g.dp = h.dp /\ g.old = h.old
    <3>1. Iput(p, i, h, "user") /\ UNCHANGED files
      BY <2>1, <1>1, <1>2, <1>3, <1>b DEF files, Before, FilesMove
    <3>2. "user" \in Places /\ i \in Inode /\ fd[p] \in MaybeInode /\ cwd[p] \in Inode
      BY <1>1, <1>2, <1>3, <1>b DEF Places, Points, Before
    <3> QED BY <3>1, <3>2, <2>2, IputOnly
  <2>4. Shape(g, "put")
    BY <2>2, <2>3, <1>1, <1>2, <1>3, <1>b DEF Before, Shape, Has, Stage, InIput, Making
  <2>5. Live(g, "put", fd[p], cwd[p])
    BY <2>2, <2>3, <1>1, <1>2, <1>3, <1>b DEF Before, Live, Stage, InIput
  <2>6. Balance(p, g, "put", fd[p], cwd[p])
    <3>1. \A x \in Inode : Mine(g, fd[p], cwd[p], x) = MineOf(p, x) /\ MineOf(p, x) \in Int
      BY <2>2, <2>3, <1>1, <1>2, <1>3, <1>b DEF Before, Mine, MineOf, One
    <3>2. \A x \in Inode : /\ One(Owed(g, "put") = x) = One(Owed(f, pc[p]) = x) - One(x = i)
                           /\ One(Owed(f, pc[p]) = x) \in Int
      BY SMTT(30), <2>2, <2>3, <1>1, <1>2, <1>3, <1>b DEF Before, One, Owed, Stage, InIput
    <3>3. \A x \in Inode : ref'[x] = ref[x] /\ ref[x] \in Int
      BY <1>1, <1>2, <1>3, <1>b DEF Before, cache, One
    <3>7. \A x \in Inode : nlink'[x] = nlink[x] - One(x = i) /\ nlink[x] \in Int
      BY <1>1, <1>2, <1>3, <1>b DEF Before, cache, One
    <3>4. \A x \in Inode : /\ lock'[x] # lock[x] => {lock[x], lock'[x]} \subseteq {None, p}
                           /\ lock'[x] = p <=> Keeps(g, "put") = x
      BY <2>2, <2>3, <1>1, <1>2, <1>3, <1>b DEF Before, cache, Keeps, Stage, InIput
    <3>5. \A x \in Inode : ref'[x] - Mine(g, fd[p], cwd[p], x) = ref[x] - MineOf(p, x)
      BY <3>1, <3>3 DEF One
    <3>6. \A x \in Inode : nlink'[x] - One(Owed(g, "put") = x) >= nlink[x] - One(Owed(f, pc[p]) = x)
      BY <3>2, <3>7 DEF One
    <3> QED BY <3>4, <3>5, <3>6 DEF Balance
  <2>7. Quiet(p)
    <3>1. ref' \in [Inode -> Int]
      <4>1. ref \in [Inode -> Int]
        BY <1>b DEF Before
      <4> QED BY SMTT(30), <4>1, <1>1, <1>2, <1>3, <1>b DEF cache, MaybeInode
    <3>2. nlink' \in [Inode -> Int]
      BY <1>1, <1>2, <1>3, <1>b DEF Before, cache
    <3>3. lock' \in [Inode -> Proc \cup {None}]
      BY <1>1, <1>2, <1>3, <1>b DEF Before, cache
    <3>4. valid' \subseteq Inode /\ \A x \in valid' : x \in valid \/ type[x] # "free"
      BY <1>1, <1>2, <1>3, <1>b DEF Before, cache, Live
    <3>5. UNCHANGED <<type, entry>> /\ panicked' = panicked
      BY <1>1, <1>2, <1>3, <1>b DEF Before, cache
    <3> QED BY <3>1, <3>2, <3>3, <3>4, <3>5 DEF Quiet
  <2>8. fd[p] \in MaybeInode /\ cwd[p] \in Inode /\ "put" \in Points
    BY <1>1, <1>2, <1>3, <1>b DEF Before, Points, Places, MaybeInode
  <2> QED BY <2>2, <2>3, <2>4, <2>5, <2>6, <2>7, <2>8, QuietStep

\* The new name exists.
LEMMA LinkDupKeeps ==
  ASSUME IInv, NEW p \in Proc, LinkDup(p)
  PROVE  IInv'
<1> DEFINE f == fr[p]
<1>b. Before(p)
  BY Own
<1>1. PICK i : i = f.dp
  OBVIOUS
<1>2. /\ pc[p] = "link_dup" /\ lock' = [lock EXCEPT ![i] = None]
      /\ Iput(p, i, [f EXCEPT !.dp = None], "link_bad") /\ UNCHANGED <<disk, cache, files, panicked>>
  BY <1>1 DEF LinkDup
<1>3. i \in Inode /\ f.put = None /\ f.then = "user" /\ f.ip = None /\ f.old # None /\ f.op = "link2"
  BY <1>b, <1>1, <1>2, FrameFields
     DEF Before, Shape, Has, Stage, InIput, WantsParent, Making, MaybeInode, Elem
<1> QED
  <2>1. PICK h : h = [f EXCEPT !.dp = None]
    OBVIOUS
  <2>2. h \in Frame /\ h.op = f.op /\ h.new = f.new /\ h.path = f.path /\ h.k = f.k /\ h.ip = None /\ h.dp = None /\ h.old = f.old
    BY <2>1, <1>1, <1>2, <1>3, <1>b DEF Before, Frame, MaybeInode
  <2>3. PICK g \in Frame :
           /\ Moves(p, g, "put", fd[p], cwd[p]) /\ g.put = i /\ g.then = "link_bad"
           /\ g.op = h.op /\ g.path = h.path /\ g.k = h.k /\ g.new = h.new
           /\ g.ip = h.ip /\ g.dp = h.dp /\ g.old = h.old
    <3>1. Iput(p, i, h, "link_bad") /\ UNCHANGED files
      BY <2>1, <1>1, <1>2, <1>3, <1>b DEF files, Before, FilesMove
    <3>2. "link_bad" \in Places /\ i \in Inode /\ fd[p] \in MaybeInode /\ cwd[p] \in Inode
      BY <1>1, <1>2, <1>3, <1>b DEF Places, Points, Before
    <3> QED BY <3>1, <3>2, <2>2, IputOnly
  <2>4. Shape(g, "put")
    BY <2>2, <2>3, <1>1, <1>2, <1>3, <1>b DEF Before, Shape, Has, Stage, InIput, Making
  <2>5. Live(g, "put", fd[p], cwd[p])
    BY <2>2, <2>3, <1>1, <1>2, <1>3, <1>b DEF Before, Live, Stage, InIput
  <2>6. Balance(p, g, "put", fd[p], cwd[p])
    <3>1. \A x \in Inode : Mine(g, fd[p], cwd[p], x) = MineOf(p, x) /\ MineOf(p, x) \in Int
      BY <2>2, <2>3, <1>1, <1>2, <1>3, <1>b DEF Before, Mine, MineOf, One
    <3>2. \A x \in Inode : /\ One(Owed(g, "put") = x) = One(Owed(f, pc[p]) = x)
                           /\ One(Owed(f, pc[p]) = x) \in Int
      BY <2>2, <2>3, <1>1, <1>2, <1>3, <1>b DEF Before, One, Owed, Stage, InIput
    <3>3. \A x \in Inode : ref'[x] = ref[x] /\ ref[x] \in Int
      BY <1>1, <1>2, <1>3, <1>b DEF Before, disk, cache, One
    <3>7. \A x \in Inode : nlink'[x] = nlink[x] /\ nlink[x] \in Int
      BY <1>1, <1>2, <1>3, <1>b DEF Before, disk, cache, One
    <3>4. \A x \in Inode : /\ lock'[x] # lock[x] => {lock[x], lock'[x]} \subseteq {None, p}
                           /\ lock'[x] = p <=> Keeps(g, "put") = x
      BY <2>2, <2>3, <1>1, <1>2, <1>3, <1>b DEF Before, disk, cache, Keeps, Stage, InIput
    <3>5. \A x \in Inode : ref'[x] - Mine(g, fd[p], cwd[p], x) = ref[x] - MineOf(p, x)
      BY <3>1, <3>3 DEF One
    <3>6. \A x \in Inode : nlink'[x] - One(Owed(g, "put") = x) >= nlink[x] - One(Owed(f, pc[p]) = x)
      BY <3>2, <3>7 DEF One
    <3> QED BY <3>4, <3>5, <3>6 DEF Balance
  <2>7. Quiet(p)
    BY <1>1, <1>2, <1>3, <1>b DEF Before, disk, cache, Quiet
  <2>8. fd[p] \in MaybeInode /\ cwd[p] \in Inode /\ "put" \in Points
    BY <1>1, <1>2, <1>3, <1>b DEF Before, Points, Places, MaybeInode
  <2> QED BY <2>2, <2>3, <2>4, <2>5, <2>6, <2>7, <2>8, QuietStep

\* The new name is there.
LEMMA LinkedKeeps ==
  ASSUME IInv, NEW p \in Proc, Linked(p)
  PROVE  IInv'
<1> DEFINE f == fr[p]
<1>b. Before(p)
  BY Own
<1>1. PICK i : i = f.old
  OBVIOUS
<1>2. /\ pc[p] = "linked" 
      /\ Iput(p, i, [f EXCEPT !.old = None], "user") /\ UNCHANGED <<disk, cache, lock, files, panicked>>
  BY <1>1 DEF Linked
<1>3. i \in Inode /\ f.put = None /\ f.then = "user" /\ f.ip = None /\ f.dp = None /\ f.op = "link2"
  BY <1>b, <1>1, <1>2, FrameFields
     DEF Before, Shape, Has, Stage, InIput, WantsParent, Making, MaybeInode, Elem
<1> QED
  <2>1. PICK h : h = [f EXCEPT !.old = None]
    OBVIOUS
  <2>2. h \in Frame /\ h.op = f.op /\ h.new = f.new /\ h.path = f.path /\ h.k = f.k /\ h.ip = None /\ h.dp = None /\ h.old = None
    BY <2>1, <1>1, <1>2, <1>3, <1>b DEF Before, Frame, MaybeInode
  <2>3. PICK g \in Frame :
           /\ Moves(p, g, "put", fd[p], cwd[p]) /\ g.put = i /\ g.then = "user"
           /\ g.op = h.op /\ g.path = h.path /\ g.k = h.k /\ g.new = h.new
           /\ g.ip = h.ip /\ g.dp = h.dp /\ g.old = h.old
    <3>1. Iput(p, i, h, "user") /\ UNCHANGED files
      BY <2>1, <1>1, <1>2, <1>3, <1>b DEF files, Before, FilesMove
    <3>2. "user" \in Places /\ i \in Inode /\ fd[p] \in MaybeInode /\ cwd[p] \in Inode
      BY <1>1, <1>2, <1>3, <1>b DEF Places, Points, Before
    <3> QED BY <3>1, <3>2, <2>2, IputOnly
  <2>4. Shape(g, "put")
    BY <2>2, <2>3, <1>1, <1>2, <1>3, <1>b DEF Before, Shape, Has, Stage, InIput, Making
  <2>5. Live(g, "put", fd[p], cwd[p])
    BY <2>2, <2>3, <1>1, <1>2, <1>3, <1>b DEF Before, Live, Stage, InIput
  <2>6. Balance(p, g, "put", fd[p], cwd[p])
    <3>1. \A x \in Inode : Mine(g, fd[p], cwd[p], x) = MineOf(p, x) /\ MineOf(p, x) \in Int
      BY <2>2, <2>3, <1>1, <1>2, <1>3, <1>b DEF Before, Mine, MineOf, One
    <3>2. \A x \in Inode : /\ One(Owed(g, "put") = x) = One(Owed(f, pc[p]) = x)
                           /\ One(Owed(f, pc[p]) = x) \in Int
      BY <2>2, <2>3, <1>1, <1>2, <1>3, <1>b DEF Before, One, Owed, Stage, InIput
    <3>3. \A x \in Inode : ref'[x] = ref[x] /\ ref[x] \in Int
      BY <1>1, <1>2, <1>3, <1>b DEF Before, disk, cache, One
    <3>7. \A x \in Inode : nlink'[x] = nlink[x] /\ nlink[x] \in Int
      BY <1>1, <1>2, <1>3, <1>b DEF Before, disk, cache, One
    <3>4. \A x \in Inode : /\ lock'[x] # lock[x] => {lock[x], lock'[x]} \subseteq {None, p}
                           /\ lock'[x] = p <=> Keeps(g, "put") = x
      BY <2>2, <2>3, <1>1, <1>2, <1>3, <1>b DEF Before, disk, cache, Keeps, Stage, InIput
    <3>5. \A x \in Inode : ref'[x] - Mine(g, fd[p], cwd[p], x) = ref[x] - MineOf(p, x)
      BY <3>1, <3>3 DEF One
    <3>6. \A x \in Inode : nlink'[x] - One(Owed(g, "put") = x) >= nlink[x] - One(Owed(f, pc[p]) = x)
      BY <3>2, <3>7 DEF One
    <3> QED BY <3>4, <3>5, <3>6 DEF Balance
  <2>7. Quiet(p)
    BY <1>1, <1>2, <1>3, <1>b DEF Before, disk, cache, Quiet
  <2>8. fd[p] \in MaybeInode /\ cwd[p] \in Inode /\ "put" \in Points
    BY <1>1, <1>2, <1>3, <1>b DEF Before, Points, Places, MaybeInode
  <2> QED BY <2>2, <2>3, <2>4, <2>5, <2>6, <2>7, <2>8, QuietStep

\* The new name was not made: its link is not counted any more.
LEMMA LinkBadKeeps ==
  ASSUME IInv, NEW p \in Proc, LinkBad(p)
  PROVE  IInv'
<1> DEFINE f == fr[p]
<1>b. Before(p)
  BY Own
<1>1. PICK i : i = f.old
  OBVIOUS
<1>2. /\ pc[p] = "link_bad" /\ Ilock(i) /\ nlink' = [nlink EXCEPT ![i] = @ - 1]
      /\ Iput(p, i, [f EXCEPT !.old = None], "user") /\ UNCHANGED <<type, entry, ref, lock, files, panicked>>
  BY <1>1 DEF LinkBad
<1>3. i \in Inode /\ f.put = None /\ f.then = "user" /\ f.ip = None /\ f.dp = None /\ f.op = "link2"
  BY <1>b, <1>1, <1>2, FrameFields
     DEF Before, Shape, Has, Stage, InIput, WantsParent, Making, MaybeInode, Elem
<1> QED
  <2>1. PICK h : h = [f EXCEPT !.old = None]
    OBVIOUS
  <2>2. h \in Frame /\ h.op = f.op /\ h.new = f.new /\ h.path = f.path /\ h.k = f.k /\ h.ip = None /\ h.dp = None /\ h.old = None
    BY <2>1, <1>1, <1>2, <1>3, <1>b DEF Before, Frame, MaybeInode
  <2>3. PICK g \in Frame :
           /\ Moves(p, g, "put", fd[p], cwd[p]) /\ g.put = i /\ g.then = "user"
           /\ g.op = h.op /\ g.path = h.path /\ g.k = h.k /\ g.new = h.new
           /\ g.ip = h.ip /\ g.dp = h.dp /\ g.old = h.old
    <3>1. Iput(p, i, h, "user") /\ UNCHANGED files
      BY <2>1, <1>1, <1>2, <1>3, <1>b DEF files, Before, FilesMove
    <3>2. "user" \in Places /\ i \in Inode /\ fd[p] \in MaybeInode /\ cwd[p] \in Inode
      BY <1>1, <1>2, <1>3, <1>b DEF Places, Points, Before
    <3> QED BY <3>1, <3>2, <2>2, IputOnly
  <2>4. Shape(g, "put")
    BY <2>2, <2>3, <1>1, <1>2, <1>3, <1>b DEF Before, Shape, Has, Stage, InIput, Making
  <2>5. Live(g, "put", fd[p], cwd[p])
    BY <2>2, <2>3, <1>1, <1>2, <1>3, <1>b DEF Before, Live, Stage, InIput
  <2>6. Balance(p, g, "put", fd[p], cwd[p])
    <3>1. \A x \in Inode : Mine(g, fd[p], cwd[p], x) = MineOf(p, x) /\ MineOf(p, x) \in Int
      BY <2>2, <2>3, <1>1, <1>2, <1>3, <1>b DEF Before, Mine, MineOf, One
    <3>2. \A x \in Inode : /\ One(Owed(g, "put") = x) = One(Owed(f, pc[p]) = x) - One(x = i)
                           /\ One(Owed(f, pc[p]) = x) \in Int
      BY SMTT(30), <2>2, <2>3, <1>1, <1>2, <1>3, <1>b DEF Before, One, Owed, Stage, InIput
    <3>3. \A x \in Inode : ref'[x] = ref[x] /\ ref[x] \in Int
      BY <1>1, <1>2, <1>3, <1>b DEF Before, Ilock, One
    <3>7. \A x \in Inode : nlink'[x] = nlink[x] - One(x = i) /\ nlink[x] \in Int
      BY <1>1, <1>2, <1>3, <1>b DEF Before, Ilock, One
    <3>4. \A x \in Inode : /\ lock'[x] # lock[x] => {lock[x], lock'[x]} \subseteq {None, p}
                           /\ lock'[x] = p <=> Keeps(g, "put") = x
      BY <2>2, <2>3, <1>1, <1>2, <1>3, <1>b DEF Before, Ilock, Keeps, Stage, InIput
    <3>5. \A x \in Inode : ref'[x] - Mine(g, fd[p], cwd[p], x) = ref[x] - MineOf(p, x)
      BY <3>1, <3>3 DEF One
    <3>6. \A x \in Inode : nlink'[x] - One(Owed(g, "put") = x) >= nlink[x] - One(Owed(f, pc[p]) = x)
      BY <3>2, <3>7 DEF One
    <3> QED BY <3>4, <3>5, <3>6 DEF Balance
  <2>7. Quiet(p)
    <3>1. ref' \in [Inode -> Int]
      <4>1. ref \in [Inode -> Int]
        BY <1>b DEF Before
      <4> QED BY SMTT(30), <4>1, <1>1, <1>2, <1>3, <1>b DEF Ilock, MaybeInode
    <3>2. nlink' \in [Inode -> Int]
      BY <1>1, <1>2, <1>3, <1>b DEF Before, Ilock
    <3>3. lock' \in [Inode -> Proc \cup {None}]
      BY <1>1, <1>2, <1>3, <1>b DEF Before, Ilock
    <3>4. valid' \subseteq Inode /\ \A x \in valid' : x \in valid \/ type[x] # "free"
      BY <1>1, <1>2, <1>3, <1>b DEF Before, Ilock, Live
    <3>5. UNCHANGED <<type, entry>> /\ panicked' = panicked
      BY <1>1, <1>2, <1>3, <1>b DEF Before, Ilock
    <3> QED BY <3>1, <3>2, <3>3, <3>4, <3>5 DEF Quiet
  <2>8. fd[p] \in MaybeInode /\ cwd[p] \in Inode /\ "put" \in Points
    BY <1>1, <1>2, <1>3, <1>b DEF Before, Points, Places, MaybeInode
  <2> QED BY <2>2, <2>3, <2>4, <2>5, <2>6, <2>7, <2>8, QuietStep

\* The directory is locked, and the name looked up.
LEMMA UnlinkKeeps ==
  ASSUME IInv, NEW p \in Proc, Unlink(p)
  PROVE  IInv'
<1> DEFINE f == fr[p]
<1>b. Before(p)
  BY Own
<1>1. PICK i : i = f.dp
  OBVIOUS
<1>2. /\ pc[p] = "at" /\ f.op = "unlink" /\ Ilock(i) /\ UNCHANGED <<disk, files, panicked>>
  BY <1>1 DEF Unlink
<1>3. /\ i \in Inode /\ type[i] = "dir" /\ f.ip = None /\ f.old = None /\ f.put = None /\ f.then = "user"
      /\ Len(f.path) > 0 /\ f.k = Len(f.path) /\ f.path \in Seq(Name) /\ Elem(f) \in Name
  BY <1>b, <1>1, <1>2, FrameFields
     DEF Before, Shape, Has, Stage, InIput, WantsParent, Making, MaybeInode, Elem, Live
<1>4. PICK next \in MaybeInode : next = entry[i][Elem(f)]
  BY <1>3, <1>b DEF Before
<1>5. CASE Iput(p, i, [f EXCEPT !.dp = None], "user") /\ UNCHANGED <<ref, lock>>
  <2>1. PICK h : h = [f EXCEPT !.dp = None]
    OBVIOUS
  <2>2. h \in Frame /\ h.op = f.op /\ h.new = f.new /\ h.path = f.path /\ h.k = f.k /\ h.ip = None /\ h.dp = None /\ h.old = None
    BY <2>1, <1>1, <1>2, <1>3, <1>b, <1>5 DEF Before, Frame, MaybeInode
  <2>3. PICK g \in Frame :
           /\ Moves(p, g, "put", fd[p], cwd[p]) /\ g.put = i /\ g.then = "user"
           /\ g.op = h.op /\ g.path = h.path /\ g.k = h.k /\ g.new = h.new
           /\ g.ip = h.ip /\ g.dp = h.dp /\ g.old = h.old
    <3>1. Iput(p, i, h, "user") /\ UNCHANGED files
      BY <2>1, <1>1, <1>2, <1>3, <1>b, <1>5 DEF files, Before, FilesMove
    <3>2. "user" \in Places /\ i \in Inode /\ fd[p] \in MaybeInode /\ cwd[p] \in Inode
      BY <1>1, <1>2, <1>3, <1>b, <1>5 DEF Places, Points, Before
    <3> QED BY <3>1, <3>2, <2>2, IputOnly
  <2>4. Shape(g, "put")
    BY <2>2, <2>3, <1>1, <1>2, <1>3, <1>b, <1>5 DEF Before, Shape, Has, Stage, InIput, Making
  <2>5. Live(g, "put", fd[p], cwd[p])
    BY <2>2, <2>3, <1>1, <1>2, <1>3, <1>b, <1>5 DEF Before, Live, Stage, InIput
  <2>6. Balance(p, g, "put", fd[p], cwd[p])
    <3>1. \A x \in Inode : Mine(g, fd[p], cwd[p], x) = MineOf(p, x) /\ MineOf(p, x) \in Int
      BY <2>2, <2>3, <1>1, <1>2, <1>3, <1>b, <1>5 DEF Before, Mine, MineOf, One
    <3>2. \A x \in Inode : /\ One(Owed(g, "put") = x) = One(Owed(f, pc[p]) = x)
                           /\ One(Owed(f, pc[p]) = x) \in Int
      BY <2>2, <2>3, <1>1, <1>2, <1>3, <1>b, <1>5 DEF Before, One, Owed, Stage, InIput
    <3>3. \A x \in Inode : ref'[x] = ref[x] /\ ref[x] \in Int
      BY <1>1, <1>2, <1>3, <1>b, <1>5 DEF Before, disk, Ilock, One
    <3>7. \A x \in Inode : nlink'[x] = nlink[x] /\ nlink[x] \in Int
      BY <1>1, <1>2, <1>3, <1>b, <1>5 DEF Before, disk, Ilock, One
    <3>4. \A x \in Inode : /\ lock'[x] # lock[x] => {lock[x], lock'[x]} \subseteq {None, p}
                           /\ lock'[x] = p <=> Keeps(g, "put") = x
      BY <2>2, <2>3, <1>1, <1>2, <1>3, <1>b, <1>5 DEF Before, disk, Ilock, Keeps, Stage, InIput
    <3>5. \A x \in Inode : ref'[x] - Mine(g, fd[p], cwd[p], x) = ref[x] - MineOf(p, x)
      BY <3>1, <3>3 DEF One
    <3>6. \A x \in Inode : nlink'[x] - One(Owed(g, "put") = x) >= nlink[x] - One(Owed(f, pc[p]) = x)
      BY <3>2, <3>7 DEF One
    <3> QED BY <3>4, <3>5, <3>6 DEF Balance
  <2>7. Quiet(p)
    BY <1>1, <1>2, <1>3, <1>b, <1>5 DEF Before, disk, Ilock, Quiet
  <2>8. fd[p] \in MaybeInode /\ cwd[p] \in Inode /\ "put" \in Points
    BY <1>1, <1>2, <1>3, <1>b, <1>5 DEF Before, Points, Places, MaybeInode
  <2> QED BY <2>2, <2>3, <2>4, <2>5, <2>6, <2>7, <2>8, QuietStep
<1>6. CASE /\ Elem(f) \notin Dots /\ next # None /\ ref' = Got(next) /\ lock' = [lock EXCEPT ![i] = p]
           /\ fr' = [fr EXCEPT ![p].ip = next] /\ Goto(p, "unlink")
  <2>b. next \in Inode /\ type[next] # "free"
    BY <1>3, <1>4, <1>6, FoundLive DEF MaybeInode, Dots
  <2>1. PICK g : g = [f EXCEPT !.ip = next]
    OBVIOUS
  <2>2. g \in Frame /\ g.op = f.op /\ g.new = f.new /\ g.path = f.path /\ g.k = f.k /\ g.ip = next /\ g.dp = i
      /\ g.old = None /\ g.put = None /\ g.then = "user"
    BY <2>1, <1>1, <1>2, <1>3, <1>4, <1>b, <1>6, <2>b
       DEF Before, Frame, MaybeInode, NoCall, Places, Points
  <2>3. Moves(p, g, "unlink", fd[p], cwd[p])
    BY <2>1, <1>1, <1>2, <1>3, <1>4, <1>b, <1>6, <2>b DEF Before, Moves, Goto, files
  <2>4. Shape(g, "unlink")
    BY <2>2, <1>1, <1>2, <1>3, <1>4, <1>b, <1>6, <2>b DEF Before, Shape, Has, Stage, InIput, Making
  <2>5. Live(g, "unlink", fd[p], cwd[p])
    BY <2>2, <1>1, <1>2, <1>3, <1>4, <1>b, <1>6, <2>b DEF Before, Live, Stage, InIput, Elem
  <2>6. Balance(p, g, "unlink", fd[p], cwd[p])
    <3>1. \A x \in Inode : Mine(g, fd[p], cwd[p], x) = MineOf(p, x) + One(x = next) /\ MineOf(p, x) \in Int
      BY SMTT(30), <2>2, <1>1, <1>2, <1>3, <1>4, <1>b, <1>6, <2>b DEF Before, Mine, MineOf, One
    <3>2. \A x \in Inode : /\ One(Owed(g, "unlink") = x) = One(Owed(f, pc[p]) = x)
                           /\ One(Owed(f, pc[p]) = x) \in Int
      BY <2>2, <1>1, <1>2, <1>3, <1>4, <1>b, <1>6, <2>b DEF Before, One, Owed, Stage, InIput
    <3>3. \A x \in Inode : ref'[x] = ref[x] + One(x = next) /\ ref[x] \in Int
      BY SMTT(30), <1>1, <1>2, <1>3, <1>4, <1>b, <1>6, <2>b DEF Before, disk, Ilock, Got, One
    <3>7. \A x \in Inode : nlink'[x] = nlink[x] /\ nlink[x] \in Int
      BY <1>1, <1>2, <1>3, <1>4, <1>b, <1>6, <2>b DEF Before, disk, Ilock, Got, One
    <3>4. \A x \in Inode : /\ lock'[x] # lock[x] => {lock[x], lock'[x]} \subseteq {None, p}
                           /\ lock'[x] = p <=> Keeps(g, "unlink") = x
      BY <2>2, <1>1, <1>2, <1>3, <1>4, <1>b, <1>6, <2>b
         DEF Before, disk, Ilock, Got, Keeps, Stage, InIput
    <3>5. \A x \in Inode : ref'[x] - Mine(g, fd[p], cwd[p], x) = ref[x] - MineOf(p, x)
      BY <3>1, <3>3 DEF One
    <3>6. \A x \in Inode : nlink'[x] - One(Owed(g, "unlink") = x) >= nlink[x] - One(Owed(f, pc[p]) = x)
      BY <3>2, <3>7 DEF One
    <3> QED BY <3>4, <3>5, <3>6 DEF Balance
  <2>7. Quiet(p)
    <3>1. ref' \in [Inode -> Int]
      <4>1. ref \in [Inode -> Int]
        BY <1>b DEF Before
      <4> QED BY SMTT(30), <4>1, <1>1, <1>2, <1>3, <1>4, <1>b, <1>6, <2>b
             DEF disk, Ilock, Got, MaybeInode
    <3>2. nlink' \in [Inode -> Int]
      BY <1>1, <1>2, <1>3, <1>4, <1>b, <1>6, <2>b DEF Before, disk, Ilock, Got
    <3>3. lock' \in [Inode -> Proc \cup {None}]
      BY <1>1, <1>2, <1>3, <1>4, <1>b, <1>6, <2>b DEF Before, disk, Ilock, Got
    <3>4. valid' \subseteq Inode /\ \A x \in valid' : x \in valid \/ type[x] # "free"
      BY <1>1, <1>2, <1>3, <1>4, <1>b, <1>6, <2>b DEF Before, disk, Ilock, Got, Live
    <3>5. UNCHANGED <<type, entry>> /\ panicked' = panicked
      BY <1>1, <1>2, <1>3, <1>4, <1>b, <1>6, <2>b DEF Before, disk, Ilock, Got
    <3> QED BY <3>1, <3>2, <3>3, <3>4, <3>5 DEF Quiet
  <2>8. fd[p] \in MaybeInode /\ cwd[p] \in Inode /\ "unlink" \in Points
    BY <1>1, <1>2, <1>3, <1>4, <1>b, <1>6, <2>b DEF Before, Points, Places, MaybeInode
  <2> QED BY <2>2, <2>3, <2>4, <2>5, <2>6, <2>7, <2>8, QuietStep
<1> QED BY <1>1, <1>4, <1>5, <1>6 DEF Unlink

\* The reference is given back.
LEMMA IputDropKeeps ==
  ASSUME IInv, NEW p \in Proc, IputDrop(p)
  PROVE  IInv'
<1> DEFINE f == fr[p]
<1>b. Before(p)
  BY Own
<1>1. PICK i : i = f.put
  OBVIOUS
<1>2. /\ pc[p] = "drop" /\ ref' = [ref EXCEPT ![i] = @ - 1] /\ valid' \subseteq valid
      /\ UNCHANGED <<disk, lock, files, panicked>>
  BY <1>1 DEF IputDrop
<1>3. i \in Inode
  BY <1>b, <1>1, <1>2, FrameFields DEF Before, Shape, InIput, MaybeInode
<1>4. CASE f.then = "user" /\ Return(p)
  <2>a. f.ip = None /\ f.dp = None /\ f.old = None
    BY <1>2, <1>4, <1>b DEF Before, Shape, Has, Stage, InIput
  <2>1. PICK g : g = NoCall
    OBVIOUS
  <2>2. g \in Frame /\ g.op = "none" /\ g.new = <<>> /\ g.path = <<>> /\ g.k = 1 /\ g.ip = None /\ g.dp = None
      /\ g.old = None /\ g.put = None /\ g.then = "user"
    BY <2>1, <1>1, <1>2, <1>3, <1>4, <2>a, <1>b, NoCallFrame
       DEF Before, Frame, MaybeInode, NoCall, Places, Points
  <2>3. Moves(p, g, "user", fd[p], cwd[p])
    BY <2>1, <1>1, <1>2, <1>3, <1>4, <2>a, <1>b DEF Before, Moves, Goto, files, Return
  <2>4. Shape(g, "user")
    BY <2>2, <1>1, <1>2, <1>3, <1>4, <2>a, <1>b DEF Before, Shape, Has, Stage, InIput, Making
  <2>5. Live(g, "user", fd[p], cwd[p])
    BY <2>2, <1>1, <1>2, <1>3, <1>4, <2>a, <1>b DEF Before, Live, Stage, InIput
  <2>6. Balance(p, g, "user", fd[p], cwd[p])
    <3>1. \A x \in Inode : Mine(g, fd[p], cwd[p], x) = MineOf(p, x) - One(x = i) /\ MineOf(p, x) \in Int
      BY SMTT(30), <2>2, <1>1, <1>2, <1>3, <1>4, <2>a, <1>b DEF Before, Mine, MineOf, One
    <3>2. \A x \in Inode : /\ One(Owed(g, "user") = x) = One(Owed(f, pc[p]) = x)
                           /\ One(Owed(f, pc[p]) = x) \in Int
      BY <2>2, <1>1, <1>2, <1>3, <1>4, <2>a, <1>b DEF Before, One, Owed, Stage, InIput
    <3>3. \A x \in Inode : ref'[x] = ref[x] - One(x = i) /\ ref[x] \in Int
      BY SMTT(30), <1>1, <1>2, <1>3, <1>4, <2>a, <1>b DEF Before, disk, One
    <3>7. \A x \in Inode : nlink'[x] = nlink[x] /\ nlink[x] \in Int
      BY <1>1, <1>2, <1>3, <1>4, <2>a, <1>b DEF Before, disk, One
    <3>4. \A x \in Inode : /\ lock'[x] # lock[x] => {lock[x], lock'[x]} \subseteq {None, p}
                           /\ lock'[x] = p <=> Keeps(g, "user") = x
      BY <2>2, <1>1, <1>2, <1>3, <1>4, <2>a, <1>b DEF Before, disk, Keeps, Stage, InIput
    <3>5. \A x \in Inode : ref'[x] - Mine(g, fd[p], cwd[p], x) = ref[x] - MineOf(p, x)
      BY <3>1, <3>3 DEF One
    <3>6. \A x \in Inode : nlink'[x] - One(Owed(g, "user") = x) >= nlink[x] - One(Owed(f, pc[p]) = x)
      BY <3>2, <3>7 DEF One
    <3> QED BY <3>4, <3>5, <3>6 DEF Balance
  <2>7. Quiet(p)
    <3>1. ref' \in [Inode -> Int]
      <4>1. ref \in [Inode -> Int]
        BY <1>b DEF Before
      <4> QED BY SMTT(30), <4>1, <1>1, <1>2, <1>3, <1>4, <2>a, <1>b DEF disk, MaybeInode
    <3>2. nlink' \in [Inode -> Int]
      BY <1>1, <1>2, <1>3, <1>4, <2>a, <1>b DEF Before, disk
    <3>3. lock' \in [Inode -> Proc \cup {None}]
      BY <1>1, <1>2, <1>3, <1>4, <2>a, <1>b DEF Before, disk
    <3>4. valid' \subseteq Inode /\ \A x \in valid' : x \in valid \/ type[x] # "free"
      BY <1>1, <1>2, <1>3, <1>4, <2>a, <1>b DEF Before, disk, Live
    <3>5. UNCHANGED <<type, entry>> /\ panicked' = panicked
      BY <1>1, <1>2, <1>3, <1>4, <2>a, <1>b DEF Before, disk
    <3> QED BY <3>1, <3>2, <3>3, <3>4, <3>5 DEF Quiet
  <2>8. fd[p] \in MaybeInode /\ cwd[p] \in Inode /\ "user" \in Points
    BY <1>1, <1>2, <1>3, <1>4, <2>a, <1>b DEF Before, Points, Places, MaybeInode
  <2> QED BY <2>2, <2>3, <2>4, <2>5, <2>6, <2>7, <2>8, QuietStep
<1>5. CASE /\ f.then # "user" /\ Goto(p, f.then)
           /\ fr' = [fr EXCEPT ![p].put = None, ![p].then = "user"]
  <2>a. PICK point \in Places : point = f.then
    BY <1>b, FrameFields DEF Before
  <2>c. point # "unlink" /\ Stage(f, pc[p]) = point /\ ~InIput(point)
    BY <2>a, <1>2, <1>b DEF Before, Shape, Stage, InIput, Places
  <2>1. PICK g : g = [f EXCEPT !.put = None, !.then = "user"]
    OBVIOUS
  <2>2. g \in Frame /\ g.op = f.op /\ g.new = f.new /\ g.path = f.path /\ g.k = f.k /\ g.ip = f.ip
      /\ g.dp = f.dp /\ g.old = f.old /\ g.put = None /\ g.then = "user"
    BY <2>1, <1>1, <1>2, <1>3, <1>5, <1>b, <2>a, <2>c
       DEF Before, Frame, MaybeInode, NoCall, Places, Points
  <2>3. Moves(p, g, point, fd[p], cwd[p])
    BY <2>1, <1>1, <1>2, <1>3, <1>5, <1>b, <2>a, <2>c DEF Before, Moves, Goto, files
  <2>4. Shape(g, point)
    BY <2>2, <1>1, <1>2, <1>3, <1>5, <1>b, <2>a, <2>c
       DEF Before, Shape, Has, Stage, InIput, Making, Places
  <2>5. Live(g, point, fd[p], cwd[p])
    BY <2>2, <1>1, <1>2, <1>3, <1>5, <1>b, <2>a, <2>c
       DEF Before, Live, Stage, InIput, ByDotDot, Places
  <2>6. Balance(p, g, point, fd[p], cwd[p])
    <3>1. \A x \in Inode : Mine(g, fd[p], cwd[p], x) = MineOf(p, x) - One(x = i) /\ MineOf(p, x) \in Int
      BY SMTT(30), <2>2, <1>1, <1>2, <1>3, <1>5, <1>b, <2>a, <2>c DEF Before, Mine, MineOf, One
    <3>2. \A x \in Inode : /\ One(Owed(g, point) = x) = One(Owed(f, pc[p]) = x)
                           /\ One(Owed(f, pc[p]) = x) \in Int
      BY <2>2, <1>1, <1>2, <1>3, <1>5, <1>b, <2>a, <2>c DEF Before, One, Owed, Stage, InIput, Places
    <3>3. \A x \in Inode : ref'[x] = ref[x] - One(x = i) /\ ref[x] \in Int
      BY SMTT(30), <1>1, <1>2, <1>3, <1>5, <1>b, <2>a, <2>c DEF Before, disk, One
    <3>7. \A x \in Inode : nlink'[x] = nlink[x] /\ nlink[x] \in Int
      BY <1>1, <1>2, <1>3, <1>5, <1>b, <2>a, <2>c DEF Before, disk, One
    <3>4. \A x \in Inode : /\ lock'[x] # lock[x] => {lock[x], lock'[x]} \subseteq {None, p}
                           /\ lock'[x] = p <=> Keeps(g, point) = x
      BY <2>2, <1>1, <1>2, <1>3, <1>5, <1>b, <2>a, <2>c
         DEF Before, disk, Keeps, Stage, InIput, Places
    <3>5. \A x \in Inode : ref'[x] - Mine(g, fd[p], cwd[p], x) = ref[x] - MineOf(p, x)
      BY <3>1, <3>3 DEF One
    <3>6. \A x \in Inode : nlink'[x] - One(Owed(g, point) = x) >= nlink[x] - One(Owed(f, pc[p]) = x)
      BY <3>2, <3>7 DEF One
    <3> QED BY <3>4, <3>5, <3>6 DEF Balance
  <2>7. Quiet(p)
    <3>1. ref' \in [Inode -> Int]
      <4>1. ref \in [Inode -> Int]
        BY <1>b DEF Before
      <4> QED BY SMTT(30), <4>1, <1>1, <1>2, <1>3, <1>5, <1>b, <2>a, <2>c DEF disk, MaybeInode
    <3>2. nlink' \in [Inode -> Int]
      BY <1>1, <1>2, <1>3, <1>5, <1>b, <2>a, <2>c DEF Before, disk
    <3>3. lock' \in [Inode -> Proc \cup {None}]
      BY <1>1, <1>2, <1>3, <1>5, <1>b, <2>a, <2>c DEF Before, disk
    <3>4. valid' \subseteq Inode /\ \A x \in valid' : x \in valid \/ type[x] # "free"
      BY <1>1, <1>2, <1>3, <1>5, <1>b, <2>a, <2>c DEF Before, disk, Live
    <3>5. UNCHANGED <<type, entry>> /\ panicked' = panicked
      BY <1>1, <1>2, <1>3, <1>5, <1>b, <2>a, <2>c DEF Before, disk
    <3> QED BY <3>1, <3>2, <3>3, <3>4, <3>5 DEF Quiet
  <2>8. fd[p] \in MaybeInode /\ cwd[p] \in Inode /\ point \in Points
    BY <1>1, <1>2, <1>3, <1>5, <1>b, <2>a, <2>c DEF Before, Points, Places, MaybeInode, Places
  <2> QED BY <2>2, <2>3, <2>4, <2>5, <2>6, <2>7, <2>8, QuietStep
<1> QED BY <1>4, <1>5 DEF IputDrop

\* A sequence whose elements are all in T.
LEMMA Narrow ==
  ASSUME NEW S, NEW T, NEW s \in Seq(S), \A n \in 1 .. Len(s) : s[n] \in T
  PROVE  s \in Seq(T)
<1>1. Len(s) \in Nat /\ s \in [1 .. Len(s) -> T]
  OBVIOUS
<1> QED BY <1>1

\* What namex looks up, and where it starts.
LEMMA PathRest ==
  ASSUME NEW path \in Paths
  PROVE  IF Absolute(path) THEN Tail(path) \in Seq(Name) ELSE path \in Seq(Name)
<1>1. /\ path \in Seq(Name \cup {"/"})
      /\ \A n \in 2 .. Len(path) : path[n] # "/"
  BY DEF Paths
<1>2. CASE Absolute(path)
  <2>1. Tail(path) \in Seq(Name \cup {"/"}) /\ Len(Tail(path)) = Len(path) - 1 /\ Len(path) \in Nat
    BY <1>1, <1>2 DEF Absolute
  <2>2. \A n \in 1 .. Len(Tail(path)) : Tail(path)[n] = path[n + 1]
    BY <1>1, <1>2 DEF Absolute
  <2>3. \A n \in 1 .. Len(Tail(path)) : Tail(path)[n] \in Name
    BY <1>1, <2>1, <2>2
  <2> QED BY <1>2, <2>1, <2>3, Narrow
<1>3. CASE ~Absolute(path)
  <2>1. \A n \in 1 .. Len(path) : path[n] \in Name
    <3>1. Len(path) \in Nat /\ \A n \in 1 .. Len(path) : path[n] \in Name \cup {"/"}
      BY <1>1
    <3>2. Len(path) > 0 => path # <<>> /\ Head(path) = path[1]
      BY <1>1
    <3> QED BY <1>1, <1>3, <3>1, <3>2 DEF Absolute
  <2> QED BY <1>1, <1>3, <2>1, Narrow
<1> QED BY <1>2, <1>3

\* The call of p looks up a path with the locals l.
Begins(p, l) ==
  /\ l \in Frame /\ l.op # "none" /\ l.ip = None /\ l.dp = None
  /\ l.put = None /\ l.then = "user" /\ (l.old # None <=> l.op = "link2")
  /\ l.old # None => type[l.old] = "file"
  /\ \A x \in Inode : /\ Mine(l, fd[p], cwd[p], x) = MineOf(p, x)
                      /\ Owed(fr[p], pc[p]) # x /\ Keeps(fr[p], pc[p]) # x
                      /\ nlink'[x] = nlink[x] + One(x = l.old)
  /\ nlink' \in [Inode -> Int] /\ UNCHANGED <<type, entry, lock, files, panicked>>
  /\ valid' \subseteq Inode /\ \A x \in valid' : x \in valid \/ type[x] # "free"

\* The start of a lookup.
LEMMA NamexKeeps ==
  ASSUME IInv, NEW p \in Proc, NEW path \in Paths, NEW l,
         Namex(p, path, l), Begins(p, l)
  PROVE  IInv'
<1> DEFINE f == fr[p]
<1>b. Before(p)
  BY Own
<1>1. PICK start \in Inode, rest \in Seq(Name) :
        /\ start = IF Absolute(path) THEN Root ELSE cwd[p]
        /\ rest = IF Absolute(path) THEN Tail(path) ELSE path
  BY PathRest, <1>b DEF Before
<1>2. IF rest = <<>> /\ WantsParent(l.op)
        THEN Iput(p, start, l, Failed(l.op))
        ELSE /\ fr' = [fr EXCEPT ![p] = [l EXCEPT !.path = rest, !.k = 1, !.ip = start]]
             /\ Goto(p, IF rest = <<>> THEN "at" ELSE "walk")
  BY <1>1 DEF Namex
<1>3. start \in Inode /\ rest \in Seq(Name) /\ type[start] # "free" /\ ref' = Got(start)
  BY <1>1, <1>b DEF Before, Live, IInv, Namex
<1>4. /\ l \in Frame /\ l.op # "none" /\ l.ip = None /\ l.dp = None
      /\ l.put = None /\ l.then = "user" /\ (l.old # None <=> l.op = "link2")
  BY DEF Begins
<1>d. /\ l.old # None => type[l.old] = "file"
      /\ nlink' \in [Inode -> Int] /\ UNCHANGED <<type, entry, lock, files, panicked>>
      /\ valid' \subseteq Inode /\ \A x \in valid' : x \in valid \/ type[x] # "free"
  BY DEF Begins
<1>c. \A x \in Inode : /\ Mine(l, fd[p], cwd[p], x) = MineOf(p, x)
                      /\ Owed(fr[p], pc[p]) # x /\ Keeps(fr[p], pc[p]) # x
                      /\ nlink'[x] = nlink[x] + One(x = l.old)
  BY DEF Begins
<1>5. CASE rest = <<>> /\ WantsParent(l.op) /\ Iput(p, start, l, Failed(l.op))
  <2>1. PICK h : h = l
    OBVIOUS
  <2>2. h \in Frame /\ h.op = l.op /\ h.new = l.new /\ h.path = l.path /\ h.k = l.k
      /\ h.ip = None /\ h.dp = None /\ h.old = l.old
    BY <1>3, <1>4, <2>1 DEF Frame, MaybeInode
  <2>3. PICK g \in Frame :
           /\ Moves(p, g, "put", fd[p], cwd[p]) /\ g.put = start /\ g.then = Failed(l.op)
           /\ g.op = h.op /\ g.path = h.path /\ g.k = h.k /\ g.new = h.new
           /\ g.ip = h.ip /\ g.dp = h.dp /\ g.old = h.old
    <3>1. Iput(p, start, h, Failed(l.op)) /\ UNCHANGED files
      BY <2>1, <1>3, <1>4, <1>c, <1>d, <1>b, <1>5 DEF files, Before, FilesMove
    <3>2. Failed(l.op) \in Places /\ start \in Inode /\ fd[p] \in MaybeInode /\ cwd[p] \in Inode
      BY <1>3, <1>4, <1>c, <1>d, <1>b, <1>5 DEF Places, Points, Before, Failed, WantsParent
    <3> QED BY <3>1, <3>2, <2>2, IputOnly
  <2>4. Shape(g, "put")
    BY <2>2, <2>3, <1>3, <1>4, <1>c, <1>d, <1>b, <1>5
       DEF Before, Shape, Has, Stage, InIput, Making, Failed, WantsParent
  <2>5. Live(g, "put", fd[p], cwd[p])
    BY <2>2, <2>3, <1>3, <1>4, <1>c, <1>d, <1>b, <1>5 DEF Before, Live, Stage, InIput
  <2>6. Balance(p, g, "put", fd[p], cwd[p])
    <3>1. \A x \in Inode : Mine(g, fd[p], cwd[p], x) = MineOf(p, x) + One(x = start) /\ MineOf(p, x) \in Int
      BY SMTT(30), <2>2, <2>3, <1>3, <1>4, <1>c, <1>d, <1>b, <1>5 DEF Before, Mine, MineOf, One
    <3>2. \A x \in Inode : /\ One(Owed(g, "put") = x) = One(Owed(f, pc[p]) = x) + One(x = l.old)
                           /\ One(Owed(f, pc[p]) = x) \in Int
      BY SMTT(30), <2>2, <2>3, <1>4, <1>c, <1>b
         DEF Before, One, Owed, Stage, InIput, Failed, WantsParent
    <3>3. \A x \in Inode : ref'[x] = ref[x] + One(x = start) /\ ref[x] \in Int
      BY SMTT(30), <1>3, <1>4, <1>c, <1>d, <1>b, <1>5 DEF Before, Got, One
    <3>7. \A x \in Inode : nlink'[x] = nlink[x] + One(x = l.old) /\ nlink[x] \in Int
      BY <1>3, <1>4, <1>c, <1>d, <1>b, <1>5 DEF Before, Got, One
    <3>4. \A x \in Inode : /\ lock'[x] # lock[x] => {lock[x], lock'[x]} \subseteq {None, p}
                           /\ lock'[x] = p <=> Keeps(g, "put") = x
      BY <2>2, <2>3, <1>3, <1>4, <1>c, <1>d, <1>b, <1>5
         DEF Before, Got, Keeps, Stage, InIput, Failed, WantsParent
    <3>5. \A x \in Inode : ref'[x] - Mine(g, fd[p], cwd[p], x) = ref[x] - MineOf(p, x)
      BY <3>1, <3>3 DEF One
    <3>6. \A x \in Inode : nlink'[x] - One(Owed(g, "put") = x) >= nlink[x] - One(Owed(f, pc[p]) = x)
      BY <3>2, <3>7 DEF One
    <3> QED BY <3>4, <3>5, <3>6 DEF Balance
  <2>7. Quiet(p)
    <3>1. ref' \in [Inode -> Int]
      <4>1. ref \in [Inode -> Int]
        BY <1>b DEF Before
      <4> QED BY SMTT(30), <4>1, <1>3, <1>4, <1>c, <1>d, <1>b, <1>5 DEF Got, MaybeInode
    <3>2. nlink' \in [Inode -> Int]
      BY <1>3, <1>4, <1>c, <1>d, <1>b, <1>5 DEF Before, Got
    <3>3. lock' \in [Inode -> Proc \cup {None}]
      BY <1>3, <1>4, <1>c, <1>d, <1>b, <1>5 DEF Before, Got
    <3>4. valid' \subseteq Inode /\ \A x \in valid' : x \in valid \/ type[x] # "free"
      BY <1>3, <1>4, <1>c, <1>d, <1>b, <1>5 DEF Before, Got, Live
    <3>5. UNCHANGED <<type, entry>> /\ panicked' = panicked
      BY <1>3, <1>4, <1>c, <1>d, <1>b, <1>5 DEF Before, Got
    <3> QED BY <3>1, <3>2, <3>3, <3>4, <3>5 DEF Quiet
  <2>8. fd[p] \in MaybeInode /\ cwd[p] \in Inode /\ "put" \in Points
    BY <1>3, <1>4, <1>c, <1>d, <1>b, <1>5
       DEF Before, Points, Places, MaybeInode, Failed, WantsParent
  <2> QED BY <2>2, <2>3, <2>4, <2>5, <2>6, <2>7, <2>8, QuietStep
<1>6. CASE /\ rest # <<>> /\ Goto(p, "walk")
           /\ fr' = [fr EXCEPT ![p] = [l EXCEPT !.path = rest, !.k = 1, !.ip = start]]
  <2>a. Len(rest) \in Nat /\ Len(rest) > 0
    BY <1>6
  <2>1. PICK g : g = [l EXCEPT !.path = rest, !.k = 1, !.ip = start]
    OBVIOUS
  <2>2. g \in Frame /\ g.op = l.op /\ g.new = l.new /\ g.path = rest /\ g.k = 1 /\ g.ip = start
      /\ g.dp = None /\ g.old = l.old /\ g.put = None /\ g.then = "user"
    BY <1>3, <1>4, <2>1 DEF Frame, MaybeInode
  <2>3. Moves(p, g, "walk", fd[p], cwd[p])
    BY <2>1, <1>3, <1>4, <1>c, <1>d, <1>b, <1>6, <2>a DEF Before, Moves, Goto, files
  <2>4. Shape(g, "walk")
    BY <2>2, <1>3, <1>4, <1>c, <1>d, <1>b, <1>6, <2>a DEF Before, Shape, Has, Stage, InIput, Making
  <2>5. Live(g, "walk", fd[p], cwd[p])
    BY <2>2, <1>3, <1>4, <1>c, <1>d, <1>b, <1>6, <2>a DEF Before, Live, Stage, InIput
  <2>6. Balance(p, g, "walk", fd[p], cwd[p])
    <3>1. \A x \in Inode : Mine(g, fd[p], cwd[p], x) = MineOf(p, x) + One(x = start) /\ MineOf(p, x) \in Int
      BY SMTT(30), <2>2, <1>3, <1>4, <1>c, <1>d, <1>b, <1>6, <2>a DEF Before, Mine, MineOf, One
    <3>2. \A x \in Inode : /\ One(Owed(g, "walk") = x) = One(Owed(f, pc[p]) = x) + One(x = l.old)
                           /\ One(Owed(f, pc[p]) = x) \in Int
      BY SMTT(30), <2>2, <1>4, <1>c, <1>b DEF Before, One, Owed, Stage, InIput
    <3>3. \A x \in Inode : ref'[x] = ref[x] + One(x = start) /\ ref[x] \in Int
      BY SMTT(30), <1>3, <1>4, <1>c, <1>d, <1>b, <1>6, <2>a DEF Before, Got, One
    <3>7. \A x \in Inode : nlink'[x] = nlink[x] + One(x = l.old) /\ nlink[x] \in Int
      BY <1>3, <1>4, <1>c, <1>d, <1>b, <1>6, <2>a DEF Before, Got, One
    <3>4. \A x \in Inode : /\ lock'[x] # lock[x] => {lock[x], lock'[x]} \subseteq {None, p}
                           /\ lock'[x] = p <=> Keeps(g, "walk") = x
      BY <2>2, <1>3, <1>4, <1>c, <1>d, <1>b, <1>6, <2>a DEF Before, Got, Keeps, Stage, InIput
    <3>5. \A x \in Inode : ref'[x] - Mine(g, fd[p], cwd[p], x) = ref[x] - MineOf(p, x)
      BY <3>1, <3>3 DEF One
    <3>6. \A x \in Inode : nlink'[x] - One(Owed(g, "walk") = x) >= nlink[x] - One(Owed(f, pc[p]) = x)
      BY <3>2, <3>7 DEF One
    <3> QED BY <3>4, <3>5, <3>6 DEF Balance
  <2>7. Quiet(p)
    <3>1. ref' \in [Inode -> Int]
      <4>1. ref \in [Inode -> Int]
        BY <1>b DEF Before
      <4> QED BY SMTT(30), <4>1, <1>3, <1>4, <1>c, <1>d, <1>b, <1>6, <2>a DEF Got, MaybeInode
    <3>2. nlink' \in [Inode -> Int]
      BY <1>3, <1>4, <1>c, <1>d, <1>b, <1>6, <2>a DEF Before, Got
    <3>3. lock' \in [Inode -> Proc \cup {None}]
      BY <1>3, <1>4, <1>c, <1>d, <1>b, <1>6, <2>a DEF Before, Got
    <3>4. valid' \subseteq Inode /\ \A x \in valid' : x \in valid \/ type[x] # "free"
      BY <1>3, <1>4, <1>c, <1>d, <1>b, <1>6, <2>a DEF Before, Got, Live
    <3>5. UNCHANGED <<type, entry>> /\ panicked' = panicked
      BY <1>3, <1>4, <1>c, <1>d, <1>b, <1>6, <2>a DEF Before, Got
    <3> QED BY <3>1, <3>2, <3>3, <3>4, <3>5 DEF Quiet
  <2>8. fd[p] \in MaybeInode /\ cwd[p] \in Inode /\ "walk" \in Points
    BY <1>3, <1>4, <1>c, <1>d, <1>b, <1>6, <2>a DEF Before, Points, Places, MaybeInode
  <2> QED BY <2>2, <2>3, <2>4, <2>5, <2>6, <2>7, <2>8, QuietStep
<1>7. CASE /\ rest = <<>> /\ ~WantsParent(l.op) /\ Goto(p, "at")
           /\ fr' = [fr EXCEPT ![p] = [l EXCEPT !.path = rest, !.k = 1, !.ip = start]]
  <2>1. PICK g : g = [l EXCEPT !.path = rest, !.k = 1, !.ip = start]
    OBVIOUS
  <2>2. g \in Frame /\ g.op = l.op /\ g.new = l.new /\ g.path = rest /\ g.k = 1 /\ g.ip = start
      /\ g.dp = None /\ g.old = l.old /\ g.put = None /\ g.then = "user"
    BY <1>3, <1>4, <2>1 DEF Frame, MaybeInode
  <2>3. Moves(p, g, "at", fd[p], cwd[p])
    BY <2>1, <1>3, <1>4, <1>c, <1>d, <1>b, <1>7 DEF Before, Moves, Goto, files
  <2>4. Shape(g, "at")
    BY <2>2, <1>3, <1>4, <1>c, <1>d, <1>b, <1>7 DEF Before, Shape, Has, Stage, InIput, Making
  <2>5. Live(g, "at", fd[p], cwd[p])
    BY <2>2, <1>3, <1>4, <1>c, <1>d, <1>b, <1>7 DEF Before, Live, Stage, InIput
  <2>6. Balance(p, g, "at", fd[p], cwd[p])
    <3>1. \A x \in Inode : Mine(g, fd[p], cwd[p], x) = MineOf(p, x) + One(x = start) /\ MineOf(p, x) \in Int
      BY SMTT(30), <2>2, <1>3, <1>4, <1>c, <1>d, <1>b, <1>7 DEF Before, Mine, MineOf, One
    <3>2. \A x \in Inode : /\ One(Owed(g, "at") = x) = One(Owed(f, pc[p]) = x) + One(x = l.old)
                           /\ One(Owed(f, pc[p]) = x) \in Int
      BY SMTT(30), <2>2, <1>4, <1>c, <1>b DEF Before, One, Owed, Stage, InIput
    <3>3. \A x \in Inode : ref'[x] = ref[x] + One(x = start) /\ ref[x] \in Int
      BY SMTT(30), <1>3, <1>4, <1>c, <1>d, <1>b, <1>7 DEF Before, Got, One
    <3>7. \A x \in Inode : nlink'[x] = nlink[x] + One(x = l.old) /\ nlink[x] \in Int
      BY <1>3, <1>4, <1>c, <1>d, <1>b, <1>7 DEF Before, Got, One
    <3>4. \A x \in Inode : /\ lock'[x] # lock[x] => {lock[x], lock'[x]} \subseteq {None, p}
                           /\ lock'[x] = p <=> Keeps(g, "at") = x
      BY <2>2, <1>3, <1>4, <1>c, <1>d, <1>b, <1>7 DEF Before, Got, Keeps, Stage, InIput
    <3>5. \A x \in Inode : ref'[x] - Mine(g, fd[p], cwd[p], x) = ref[x] - MineOf(p, x)
      BY <3>1, <3>3 DEF One
    <3>6. \A x \in Inode : nlink'[x] - One(Owed(g, "at") = x) >= nlink[x] - One(Owed(f, pc[p]) = x)
      BY <3>2, <3>7 DEF One
    <3> QED BY <3>4, <3>5, <3>6 DEF Balance
  <2>7. Quiet(p)
    <3>1. ref' \in [Inode -> Int]
      <4>1. ref \in [Inode -> Int]
        BY <1>b DEF Before
      <4> QED BY SMTT(30), <4>1, <1>3, <1>4, <1>c, <1>d, <1>b, <1>7 DEF Got, MaybeInode
    <3>2. nlink' \in [Inode -> Int]
      BY <1>3, <1>4, <1>c, <1>d, <1>b, <1>7 DEF Before, Got
    <3>3. lock' \in [Inode -> Proc \cup {None}]
      BY <1>3, <1>4, <1>c, <1>d, <1>b, <1>7 DEF Before, Got
    <3>4. valid' \subseteq Inode /\ \A x \in valid' : x \in valid \/ type[x] # "free"
      BY <1>3, <1>4, <1>c, <1>d, <1>b, <1>7 DEF Before, Got, Live
    <3>5. UNCHANGED <<type, entry>> /\ panicked' = panicked
      BY <1>3, <1>4, <1>c, <1>d, <1>b, <1>7 DEF Before, Got
    <3> QED BY <3>1, <3>2, <3>3, <3>4, <3>5 DEF Quiet
  <2>8. fd[p] \in MaybeInode /\ cwd[p] \in Inode /\ "at" \in Points
    BY <1>3, <1>4, <1>c, <1>d, <1>b, <1>7 DEF Before, Points, Places, MaybeInode
  <2> QED BY <2>2, <2>3, <2>4, <2>5, <2>6, <2>7, <2>8, QuietStep
<1> QED BY <1>2, <1>5, <1>6, <1>7

\* A call begins.
LEMMA CallKeeps ==
  ASSUME IInv, NEW p \in Proc, NEW c \in Calls, Call(p, c)
  PROVE  IInv'
<1> DEFINE f == fr[p]
<1>b. Before(p)
  BY Own
<1>1. PICK l : l = [NoCall EXCEPT !.op = c.op, !.new = c.new]
  OBVIOUS
<1>2. pc[p] = "user" /\ Namex(p, c.path, l) /\ UNCHANGED <<disk, valid, lock, files, panicked>>
  BY <1>1 DEF Call
<1>3. c.op \in Op /\ c.path \in Paths /\ c.new \in Paths
  BY FsAssumption DEF Paths
<1>4. /\ l \in Frame /\ l.op = c.op /\ l.new = c.new /\ l.ip = None /\ l.dp = None /\ l.old = None
      /\ l.put = None /\ l.then = "user"
  <2>1. l = [op |-> c.op, path |-> <<>>, k |-> 1, new |-> c.new, ip |-> None, dp |-> None,
             old |-> None, put |-> None, then |-> "user"]
    BY <1>1 DEF NoCall
  <2>2. <<>> \in Seq(Name) /\ "user" \in Places /\ None \in MaybeInode
    BY DEF Places, Points, MaybeInode
  <2> QED BY <2>1, <2>2, <1>3 DEF Frame
<1>5. f.op = "none" /\ f.ip = None /\ f.dp = None /\ f.old = None /\ f.put = None
  BY <1>2, <1>b DEF Before, Shape, Has, Stage, InIput
<1>6. Begins(p, l)
  <2>1. \A x \in Inode : /\ Mine(l, fd[p], cwd[p], x) = MineOf(p, x)
                        /\ Owed(fr[p], pc[p]) # x /\ Keeps(fr[p], pc[p]) # x
                        /\ One(x = l.old) = 0 /\ nlink[x] \in Int
    BY <1>2, <1>4, <1>5, <1>b DEF Before, Mine, MineOf, Owed, Keeps, Stage, InIput, One
  <2>2. nlink' = nlink /\ type' = type /\ entry' = entry /\ valid' = valid /\ valid \subseteq Inode
        /\ nlink \in [Inode -> Int] /\ UNCHANGED <<type, entry, lock, files, panicked>>
    BY <1>2, <1>b DEF Before, disk
  <2>3. l.op \notin {"none", "link2"}
    BY <1>3, <1>4 DEF Op
  <2> QED BY <2>1, <2>2, <2>3, <1>3, <1>4 DEF Begins
<1> QED BY <1>2, <1>3, <1>6, NamexKeeps

\* The inode to link is a directory, or the new name is counted.
LEMMA LinkKeeps ==
  ASSUME IInv, NEW p \in Proc, Link(p)
  PROVE  IInv'
<1> DEFINE f == fr[p]
<1>b. Before(p)
  BY Own
<1>1. PICK i : i = f.ip
  OBVIOUS
<1>2. /\ pc[p] = "at" /\ f.op = "link" /\ Ilock(i) /\ UNCHANGED <<type, entry, lock, files, panicked>>
  BY <1>1 DEF Link
<1>3. /\ i \in Inode /\ f.dp = None /\ f.old = None /\ f.put = None /\ f.then = "user"
      /\ f.new \in Paths
  BY <1>b, <1>1, <1>2, FrameFields
     DEF Before, Shape, Has, Stage, InIput, WantsParent, Making, MaybeInode, Elem
<1>4. CASE Iput(p, i, [f EXCEPT !.ip = None], "user") /\ UNCHANGED <<nlink, ref>>
  <2>1. PICK h : h = [f EXCEPT !.ip = None]
    OBVIOUS
  <2>2. h \in Frame /\ h.op = f.op /\ h.new = f.new /\ h.path = f.path /\ h.k = f.k /\ h.ip = None /\ h.dp = None /\ h.old = None
    BY <2>1, <1>1, <1>2, <1>3, <1>b, <1>4 DEF Before, Frame, MaybeInode
  <2>3. PICK g \in Frame :
           /\ Moves(p, g, "put", fd[p], cwd[p]) /\ g.put = i /\ g.then = "user"
           /\ g.op = h.op /\ g.path = h.path /\ g.k = h.k /\ g.new = h.new
           /\ g.ip = h.ip /\ g.dp = h.dp /\ g.old = h.old
    <3>1. Iput(p, i, h, "user") /\ UNCHANGED files
      BY <2>1, <1>1, <1>2, <1>3, <1>b, <1>4 DEF files, Before, FilesMove
    <3>2. "user" \in Places /\ i \in Inode /\ fd[p] \in MaybeInode /\ cwd[p] \in Inode
      BY <1>1, <1>2, <1>3, <1>b, <1>4 DEF Places, Points, Before
    <3> QED BY <3>1, <3>2, <2>2, IputOnly
  <2>4. Shape(g, "put")
    BY <2>2, <2>3, <1>1, <1>2, <1>3, <1>b, <1>4 DEF Before, Shape, Has, Stage, InIput, Making
  <2>5. Live(g, "put", fd[p], cwd[p])
    BY <2>2, <2>3, <1>1, <1>2, <1>3, <1>b, <1>4 DEF Before, Live, Stage, InIput
  <2>6. Balance(p, g, "put", fd[p], cwd[p])
    <3>1. \A x \in Inode : Mine(g, fd[p], cwd[p], x) = MineOf(p, x) /\ MineOf(p, x) \in Int
      BY <2>2, <2>3, <1>1, <1>2, <1>3, <1>b, <1>4 DEF Before, Mine, MineOf, One
    <3>2. \A x \in Inode : /\ One(Owed(g, "put") = x) = One(Owed(f, pc[p]) = x)
                           /\ One(Owed(f, pc[p]) = x) \in Int
      BY <2>2, <2>3, <1>1, <1>2, <1>3, <1>b, <1>4 DEF Before, One, Owed, Stage, InIput
    <3>3. \A x \in Inode : ref'[x] = ref[x] /\ ref[x] \in Int
      BY <1>1, <1>2, <1>3, <1>b, <1>4 DEF Before, Ilock, One
    <3>7. \A x \in Inode : nlink'[x] = nlink[x] /\ nlink[x] \in Int
      BY <1>1, <1>2, <1>3, <1>b, <1>4 DEF Before, Ilock, One
    <3>4. \A x \in Inode : /\ lock'[x] # lock[x] => {lock[x], lock'[x]} \subseteq {None, p}
                           /\ lock'[x] = p <=> Keeps(g, "put") = x
      BY <2>2, <2>3, <1>1, <1>2, <1>3, <1>b, <1>4 DEF Before, Ilock, Keeps, Stage, InIput
    <3>5. \A x \in Inode : ref'[x] - Mine(g, fd[p], cwd[p], x) = ref[x] - MineOf(p, x)
      BY <3>1, <3>3 DEF One
    <3>6. \A x \in Inode : nlink'[x] - One(Owed(g, "put") = x) >= nlink[x] - One(Owed(f, pc[p]) = x)
      BY <3>2, <3>7 DEF One
    <3> QED BY <3>4, <3>5, <3>6 DEF Balance
  <2>7. Quiet(p)
    BY <1>1, <1>2, <1>3, <1>b, <1>4 DEF Before, Ilock, Quiet
  <2>8. fd[p] \in MaybeInode /\ cwd[p] \in Inode /\ "put" \in Points
    BY <1>1, <1>2, <1>3, <1>b, <1>4 DEF Before, Points, Places, MaybeInode
  <2> QED BY <2>2, <2>3, <2>4, <2>5, <2>6, <2>7, <2>8, QuietStep
<1>5. CASE /\ type[i] # "dir" /\ nlink' = Counted(i)
           /\ Namex(p, f.new, [f EXCEPT !.op = "link2", !.old = i, !.ip = None])
  <2>1. PICK l : l = [f EXCEPT !.op = "link2", !.old = i, !.ip = None]
    OBVIOUS
  <2>2. /\ l \in Frame /\ l.op = "link2" /\ l.new = f.new /\ l.ip = None /\ l.dp = None /\ l.old = i
        /\ l.put = None /\ l.then = "user"
    BY <2>1, <1>3, <1>b DEF Before, Frame, MaybeInode
  <2>3. type[i] = "file" /\ valid' \subseteq Inode /\ \A x \in valid' : x \in valid \/ type[x] # "free"
    BY <1>2, <1>3, <1>5, <1>b DEF Before, Ilock
  <2>4. nlink' \in [Inode -> Int] /\ \A x \in Inode : nlink'[x] = nlink[x] + One(x = l.old)
    BY <1>3, <1>5, <2>2, <1>b DEF Before, Counted, One
  <2>5. \A x \in Inode : /\ Mine(l, fd[p], cwd[p], x) = MineOf(p, x)
                        /\ Owed(fr[p], pc[p]) # x /\ Keeps(fr[p], pc[p]) # x
    BY <1>1, <1>2, <1>3, <2>2, <1>b DEF Before, Mine, MineOf, Owed, Keeps, Stage, InIput, One
  <2>6. Begins(p, l)
    BY <2>2, <2>3, <2>4, <2>5, <1>2, <1>3, <1>b DEF Begins, Before
  <2> QED BY <2>1, <2>6, <1>3, <1>5, NamexKeeps
<1> QED BY <1>1, <1>4, <1>5 DEF Link

-----------------------------------------------------------------------------
(* The steps that change types or entries                                  *)

\* A step of p that changes types or entries.
Change(p, g, point, fl, d) ==
  /\ Shape(g, point) /\ Live(g, point, fl, d)'
  /\ type' \in [Inode -> {"free", "file", "dir"}] /\ type'[Root] # "free"
  /\ entry' \in [Inode -> [Name -> MaybeInode]]
  /\ nlink' \in [Inode -> Int] /\ ref' \in [Inode -> Int]
  /\ valid' \subseteq Inode /\ lock' \in [Inode -> Proc \cup {None}] /\ panicked' = panicked
  /\ \A i \in Inode : ref'[i] - Mine(g, fl, d, i) = ref[i] - MineOf(p, i)
  /\ \A i \in Inode : lock'[i] # lock[i] => {lock[i], lock'[i]} \subseteq {None, p}
  /\ \A i \in Inode : lock'[i] = p <=> Keeps(g, point) = i
  /\ \A q \in Proc, x \in Inode :
       q # p /\ x \in {fd[q], cwd[q], fr[q].ip, fr[q].dp, fr[q].old} /\ type[x] # "free"
         => type'[x] = type[x]
  /\ \A x \in Inode : lock[x] \notin {None, p} => entry'[x] = entry[x]

\* The link counts afterwards.
Covers(p, g, point, i) ==
  nlink'[i] >= Cardinality(Names(i)') + Cardinality(Subdirs(i)') + Cardinality(OwedByOthers(p, i))
                 + One(Owed(g, point) = i) + One(i = Root)

\* A step that changes types or entries, with what it has to show.
LEMMA ChangeStep ==
  ASSUME IInv, NEW p \in Proc, NEW g \in Frame, NEW point \in Points,
         NEW fl \in MaybeInode, NEW d \in Inode, Moves(p, g, point, fl, d),
         Change(p, g, point, fl, d), \A i \in Inode : Covers(p, g, point, i),
         Disked', TreeOfDirectories'
  PROVE  IInv'
<1>1. /\ fr' \in [Proc -> Frame] /\ pc' \in [Proc -> Points]
      /\ fd' \in [Proc -> MaybeInode] /\ cwd' \in [Proc -> Inode]
      /\ fr'[p] = g /\ pc'[p] = point /\ fd'[p] = fl /\ cwd'[p] = d
      /\ OthersStay(p)
  BY MovesFacts DEF IInv
<1>2. Change(p, g, point, fl, d)
  OBVIOUS
<1>3. RefsAccounted' /\ \A i \in Inode : ref'[i] \in Nat
  <2>1. \A i \in Inode : ref'[i] \in Int /\ ref'[i] - MineOf(p, i)' = ref[i] - MineOf(p, i)
    BY <1>1, <1>2 DEF Change, MineOf
  <2> QED BY <2>1, <1>1, RefsStep DEF IInv
<1>4. \A i \in Inode : LinksCover!(i)' /\ nlink'[i] \in Nat
  <2> SUFFICES ASSUME NEW i \in Inode
               PROVE  LinksCover!(i)' /\ nlink'[i] \in Nat
    OBVIOUS
  <2>1. OwedByOthers(p, i)' = OwedByOthers(p, i)
    BY <1>1 DEF OwedByOthers, Owed, Stage, InIput, OthersStay
  <2>2. Counts(p)!(i)'
    BY CountsHoldNext DEF Counts
  <2>3. One(Owed(fr[p], pc[p]) = i)' = One(Owed(g, point) = i)
    BY <1>1
  <2>4. One(Owed(g, point) = i) \in Nat /\ One(i = Root) \in Nat
    BY DEF One
  <2>5. Covers(p, g, point, i) /\ nlink'[i] \in Int
    BY <1>2 DEF Change
  <2> QED BY <2>1, <2>2, <2>3, <2>4, <2>5 DEF Covers
<1>5. LinksCover'
  BY <1>4 DEF LinksCover
<1>6. LocksKept'
  <2>1. p # None
    BY FsAssumption
  <2>2. /\ \A i \in Inode : lock'[i] # lock[i] => {lock[i], lock'[i]} \subseteq {None, p}
        /\ \A i \in Inode : lock'[i] = p <=> Keeps(fr'[p], pc'[p]) = i
    BY <1>1, <1>2 DEF Change
  <2> QED BY <2>1, <2>2, <1>1, LocksStep DEF IInv
<1>7. Calling'
  <2>1. Live(fr[p], pc[p], fd[p], cwd[p])' /\ Shape(fr'[p], pc'[p])
    BY <1>1, <1>2 DEF Change, Live
  <2>2. \A q \in Proc : q # p => Shape(fr'[q], pc'[q]) /\ Live(fr[q], pc[q], fd[q], cwd[q])'
    <3>1. /\ \A q \in Proc, x \in Inode :
               q # p /\ x \in {fd[q], cwd[q], fr[q].ip, fr[q].dp, fr[q].old} /\ type[x] # "free"
                 => type'[x] = type[x]
          /\ \A x \in Inode : lock[x] \notin {None, p} => entry'[x] = entry[x]
      BY <1>2 DEF Change
    <3> QED BY <3>1, <1>1, OthersStep DEF IInv
  <2> QED BY <2>1, <2>2, <1>1 DEF Calling
<1>8. Typed'
  <2>1. nlink' \in [Inode -> Nat] /\ ref' \in [Inode -> Nat]
    BY <1>2, <1>3, <1>4 DEF Change
  <2> QED BY <2>1, <1>1, <1>2 DEF Change, IInv, Typed
<1> QED BY <1>2, <1>3, <1>5, <1>6, <1>7, <1>8 DEF Change, IInv

\* The inode is freed, or somebody else has a link or a reference to it.
LEMMA IputFreeKeeps ==
  ASSUME IInv, NEW p \in Proc, IputFree(p)
  PROVE  IInv'
<1> DEFINE f == fr[p]
<1>b. Before(p)
  BY Own
<1>1. PICK i : i = f.put
  OBVIOUS
<1>2. /\ pc[p] = "put" /\ lock[i] = None /\ Goto(p, "drop")
      /\ UNCHANGED <<nlink, ref, lock, fr, files, panicked>>
  BY <1>1 DEF IputFree
<1>3. i \in Inode
  BY <1>b, <1>1, <1>2, FrameFields DEF Before, Shape, InIput, MaybeInode
<1>4. CASE type' = type /\ entry' = entry /\ valid' = valid
  <2>1. PICK g : g = f
    OBVIOUS
  <2>2. g \in Frame /\ g.op = f.op /\ g.new = f.new /\ g.path = f.path /\ g.k = f.k /\ g.ip = f.ip
      /\ g.dp = f.dp /\ g.old = f.old /\ g.put = f.put /\ g.then = f.then
    BY <2>1, <1>1, <1>2, <1>3, <1>4, <1>b DEF Before, Frame, MaybeInode, NoCall, Places, Points
  <2>3. Moves(p, g, "drop", fd[p], cwd[p])
    BY <2>1, <1>1, <1>2, <1>3, <1>4, <1>b DEF Before, Moves, Goto, files
  <2>4. Shape(g, "drop")
    BY <2>2, <1>1, <1>2, <1>3, <1>4, <1>b DEF Before, Shape, Has, Stage, InIput, Making
  <2>5. Live(g, "drop", fd[p], cwd[p])
    BY <2>2, <1>1, <1>2, <1>3, <1>4, <1>b DEF Before, Live, Stage, InIput, ByDotDot
  <2>6. Balance(p, g, "drop", fd[p], cwd[p])
    <3>1. \A x \in Inode : Mine(g, fd[p], cwd[p], x) = MineOf(p, x) /\ MineOf(p, x) \in Int
      BY <2>2, <1>1, <1>2, <1>3, <1>4, <1>b DEF Before, Mine, MineOf, One
    <3>2. \A x \in Inode : /\ One(Owed(g, "drop") = x) = One(Owed(f, pc[p]) = x)
                           /\ One(Owed(f, pc[p]) = x) \in Int
      BY <2>2, <1>1, <1>2, <1>3, <1>4, <1>b DEF Before, One, Owed, Stage, InIput
    <3>3. \A x \in Inode : ref'[x] = ref[x] /\ ref[x] \in Int
      BY <1>1, <1>2, <1>3, <1>4, <1>b DEF Before, One
    <3>7. \A x \in Inode : nlink'[x] = nlink[x] /\ nlink[x] \in Int
      BY <1>1, <1>2, <1>3, <1>4, <1>b DEF Before, One
    <3>4. \A x \in Inode : /\ lock'[x] # lock[x] => {lock[x], lock'[x]} \subseteq {None, p}
                           /\ lock'[x] = p <=> Keeps(g, "drop") = x
      BY <2>2, <1>1, <1>2, <1>3, <1>4, <1>b DEF Before, Keeps, Stage, InIput
    <3>5. \A x \in Inode : ref'[x] - Mine(g, fd[p], cwd[p], x) = ref[x] - MineOf(p, x)
      BY <3>1, <3>3 DEF One
    <3>6. \A x \in Inode : nlink'[x] - One(Owed(g, "drop") = x) >= nlink[x] - One(Owed(f, pc[p]) = x)
      BY <3>2, <3>7 DEF One
    <3> QED BY <3>4, <3>5, <3>6 DEF Balance
  <2>7. Quiet(p)
    BY <1>1, <1>2, <1>3, <1>4, <1>b DEF Before, Quiet
  <2>8. fd[p] \in MaybeInode /\ cwd[p] \in Inode /\ "drop" \in Points
    BY <1>1, <1>2, <1>3, <1>4, <1>b DEF Before, Points, Places, MaybeInode
  <2> QED BY <2>2, <2>3, <2>4, <2>5, <2>6, <2>7, <2>8, QuietStep
<1>5. CASE /\ i \in valid /\ nlink[i] = 0 /\ ref[i] = 1 /\ type' = [type EXCEPT ![i] = "free"]
           /\ entry' = [entry EXCEPT ![i] = NoEntries] /\ valid' = valid \ {i}
  <2>1. Moves(p, f, "drop", fd[p], cwd[p])
    BY <1>2, <1>b DEF Before, Moves, Goto, files
  <2>2. Counts(p)!(i) /\ LinksCover!(i) /\ ref[i] = Cardinality(Holders(i)) /\ Disked!(i)
    BY CountsHold, <1>3 DEF IInv, LinksCover, RefsAccounted, Disked, Counts
  <2>3. Names(i) = {} /\ Subdirs(i) = {} /\ i # Root /\ type[i] # "free"
    <3>1. One(i = Root) \in Nat /\ One(Owed(fr[p], pc[p]) = i) \in Nat
      BY DEF One
    <3>2. Cardinality(Owes(i)) \in Nat
      BY <2>2, <3>1
    <3>3. Cardinality(Names(i)) = 0 /\ Cardinality(Subdirs(i)) = 0 /\ One(i = Root) = 0
      BY <2>2, <3>1, <3>2, <1>5
    <3>4. Names(i) = {} /\ Subdirs(i) = {}
      BY <2>2, <3>3, FS_EmptySet
    <3>5. i # Root
      BY <3>3 DEF One
    <3>6. type[i] # "free"
      BY <2>2, <1>5
    <3> QED BY <3>4, <3>5, <3>6
  <2>4. /\ NotMine(p, i) = {}
        /\ fd[p] # i /\ cwd[p] # i /\ f.ip # i /\ f.dp # i /\ f.old # i
    <3>1. MineOf(p, i) = One(fd[p] = i) + One(cwd[p] = i) + One(f.ip = i) + One(f.dp = i) + One(f.old = i) + 1
      BY <1>1 DEF MineOf, Mine, One
    <3>2. /\ One(fd[p] = i) \in Nat /\ One(cwd[p] = i) \in Nat /\ One(f.ip = i) \in Nat
          /\ One(f.dp = i) \in Nat /\ One(f.old = i) \in Nat
      BY DEF One
    <3>3. /\ Cardinality(NotMine(p, i)) = 0
          /\ One(fd[p] = i) = 0 /\ One(cwd[p] = i) = 0 /\ One(f.ip = i) = 0
          /\ One(f.dp = i) = 0 /\ One(f.old = i) = 0
      <4>1. ref[i] = Cardinality(NotMine(p, i)) + MineOf(p, i) /\ Cardinality(NotMine(p, i)) \in Nat
        BY <2>2
      <4>2. MineOf(p, i) \in Nat /\ MineOf(p, i) >= 1
        BY <3>1, <3>2
      <4>3. Cardinality(NotMine(p, i)) = 0 /\ MineOf(p, i) = 1
        BY <4>1, <4>2, <1>5
      <4> QED BY <4>3, <3>1 DEF One
    <3>4. IsFiniteSet(NotMine(p, i))
      BY FiniteHolders, FS_Subset DEF NotMine
    <3>5. NotMine(p, i) = {}
      BY <3>3, <3>4, FS_EmptySet
    <3>6. fd[p] # i /\ cwd[p] # i /\ f.ip # i /\ f.dp # i /\ f.old # i
      BY <3>3 DEF One
    <3> QED BY <3>5, <3>6
  <2>5. \A q \in Proc : q # p => i \notin {fd[q], cwd[q], fr[q].ip, fr[q].dp, fr[q].old}
    <3>1. \A q \in Proc, s \in Slot : q # p => <<q, s>> \notin Holders(i)
      BY <2>4 DEF NotMine
    <3> QED BY <3>1 DEF Holders, Slot
  <2>6. \A x \in Inode : x # i => type'[x] = type[x] /\ entry'[x] = entry[x]
    BY <1>5, <1>b DEF Before
  <2>7. type'[i] = "free" /\ \A n \in Name : entry'[i][n] = None
    BY <1>5, <1>3, <1>b DEF Before, NoEntries
  <2>8. \A x \in Inode : Names(x)' \subseteq Names(x) /\ Subdirs(x)' \subseteq Subdirs(x)
    <3> SUFFICES ASSUME NEW x \in Inode
                 PROVE  Names(x)' \subseteq Names(x) /\ Subdirs(x)' \subseteq Subdirs(x)
      OBVIOUS
    <3>1. \A a \in Inode, n \in Name : entry'[a][n] = entry[a][n] \/ entry'[a][n] = None
      BY <2>6, <2>7
    <3>2. x # None
      BY <1>b DEF Before
    <3>3. Names(x)' \subseteq Names(x)
      BY <3>1, <3>2 DEF Names
    <3>4. ASSUME NEW n \in Name \ Dots, entry'[x][n] # None, type'[entry'[x][n]] = "dir"
          PROVE  entry[x][n] # None /\ type[entry[x][n]] = "dir"
      <4>1. entry'[x][n] = entry[x][n] /\ entry[x][n] \in Inode
        BY <3>1, <3>4, <1>b DEF Before, MaybeInode
      <4> QED BY <3>4, <4>1, <2>6, <2>7
    <3> QED BY <3>3, <3>4 DEF Subdirs
  <2>9. Change(p, f, "drop", fd[p], cwd[p])
    <3>1. Shape(f, "drop")
      BY <1>2, <1>b DEF Before, Shape, Has, Stage, InIput
    <3>2. Live(f, "drop", fd[p], cwd[p])'
      <4>1. /\ fd[p] \in MaybeInode /\ cwd[p] \in Inode
            /\ f.ip \in MaybeInode /\ f.dp \in MaybeInode /\ f.old \in MaybeInode
        BY <1>b, FrameFields DEF Before
      <4>2. fd'[p] = fd[p] /\ cwd'[p] = cwd[p] /\ fr'[p] = f
        BY <1>2 DEF files
      <4>3. Live(f, "put", fd[p], cwd[p])
        BY <1>2, <1>b DEF Before
      <4>4. PICK g, fl, d : g = f /\ fl = fd[p] /\ d = cwd[p]
        OBVIOUS
      <4>5. Live(g, "drop", fl, d)'
        BY <4>1, <4>3, <4>4, <2>4, <2>6 DEF Live, MaybeInode, Stage, InIput
      <4> QED BY <4>2, <4>4, <4>5 DEF Live
    <3>3. /\ type' \in [Inode -> {"free", "file", "dir"}] /\ entry' \in [Inode -> [Name -> MaybeInode]]
          /\ valid' \subseteq Inode /\ type'[Root] # "free"
      <4>1. NoEntries \in [Name -> MaybeInode]
        BY DEF NoEntries, MaybeInode
      <4>2. type[Root] # "free"
        BY DEF IInv
      <4> QED BY <4>1, <4>2, <2>3, <2>6, <1>5, <1>b DEF Before
    <3>4. /\ nlink' \in [Inode -> Int] /\ ref' \in [Inode -> Int] /\ panicked' = panicked
          /\ lock' \in [Inode -> Proc \cup {None}]
          /\ \A x \in Inode : lock'[x] # lock[x] => {lock[x], lock'[x]} \subseteq {None, p}
          /\ \A x \in Inode : lock[x] \notin {None, p} => entry'[x] = entry[x]
      BY <1>2, <2>6, <1>b DEF Before
    <3>5. \A x \in Inode : ref'[x] - Mine(f, fd[p], cwd[p], x) = ref[x] - MineOf(p, x)
      BY <1>2 DEF MineOf
    <3>6. \A x \in Inode : lock'[x] = p <=> Keeps(f, "drop") = x
      BY <1>2, <1>b DEF Before, Keeps, Stage, InIput
    <3>7. \A q \in Proc, x \in Inode :
             q # p /\ x \in {fd[q], cwd[q], fr[q].ip, fr[q].dp, fr[q].old} /\ type[x] # "free"
               => type'[x] = type[x]
      BY <2>5, <2>6
    <3> QED BY <3>1, <3>2, <3>3, <3>4, <3>5, <3>6, <3>7 DEF Change
  <2>10. ASSUME NEW x \in Inode
         PROVE  Covers(p, f, "drop", x)
    <3>1. Counts(p)!(x) /\ Counts(p)!(x)' /\ LinksCover!(x)
      BY CountsHold, CountsHoldNext DEF Counts, IInv, LinksCover
    <3>2. Cardinality(Names(x)') <= Cardinality(Names(x)) /\ Cardinality(Subdirs(x)') <= Cardinality(Subdirs(x))
      BY <2>8, <3>1, FiniteSubset
    <3>3. One(Owed(f, "drop") = x) = One(Owed(fr[p], pc[p]) = x)
      BY <1>2 DEF Owed, Stage, InIput
    <3>4. One(Owed(fr[p], pc[p]) = x) \in Nat /\ One(x = Root) \in Nat
      BY DEF One
    <3>5. nlink'[x] = nlink[x] /\ nlink[x] \in Nat
      BY <1>2, <1>b DEF Before
    <3> QED BY <3>1, <3>2, <3>3, <3>4, <3>5 DEF Covers
  <2>11. Disked'
    <3> SUFFICES ASSUME NEW x \in Inode
                 PROVE  Disked!(x)'
      BY DEF Disked
    <3>1. Disked!(x)
      BY DEF IInv, Disked
    <3>2. CASE x = i
      BY <3>2, <2>3, <2>7, <2>8, <1>5
    <3>3. CASE x # i
      BY <3>1, <3>3, <2>6, <2>8, <1>5
    <3> QED BY <3>2, <3>3
  <2>12. TreeOfDirectories'
    <3> SUFFICES ASSUME NEW c \in Inode, type'[c] = "dir"
                 PROVE  /\ \A e \in Names(c)' : entry'[c][".."] = e[1]
                        /\ Cardinality(Names(c)') <= 1 /\ entry'[c]["."] = c
      BY DEF TreeOfDirectories
    <3>1. c # i /\ type[c] = "dir" /\ entry'[c] = entry[c] /\ Names(c)' \subseteq Names(c)
      BY <2>6, <2>7, <2>8
    <3>2. /\ \A e \in Names(c) : entry[c][".."] = e[1]
          /\ Cardinality(Names(c)) <= 1 /\ entry[c]["."] = c
      BY <3>1 DEF IInv, TreeOfDirectories
    <3>3. Counts(p)!(c) /\ Counts(p)!(c)'
      BY CountsHold, CountsHoldNext DEF Counts
    <3>4. Cardinality(Names(c)') <= Cardinality(Names(c))
      BY <3>1, <3>3, FiniteSubset
    <3> QED BY <3>1, <3>2, <3>3, <3>4
  <2> QED
    <3>1. f \in Frame /\ "drop" \in Points /\ fd[p] \in MaybeInode /\ cwd[p] \in Inode
      BY <1>b DEF Before, Points
    <3> QED BY <3>1, <2>1, <2>9, <2>10, <2>11, <2>12, ChangeStep
<1> QED
  <2>1. CASE i \in valid /\ nlink[i] = 0 /\ ref[i] = 1
    BY <2>1, <1>1, <1>5 DEF IputFree, OnlyRef
  <2>2. CASE ~(i \in valid /\ nlink[i] = 0 /\ ref[i] = 1)
    <3>1. type' = [type EXCEPT ![i] = type[i]] /\ entry' = [entry EXCEPT ![i] = entry[i]] /\ valid' = valid
      BY <2>2, <1>1 DEF IputFree, OnlyRef
    <3> QED BY <3>1, <1>3, <1>b, <1>4 DEF Before
  <2> QED BY <2>1, <2>2

\* The name exists, or an inode is allocated and named.
LEMMA CreateKeeps ==
  ASSUME IInv, NEW p \in Proc, Create(p)
  PROVE  IInv'
<1> DEFINE f == fr[p]
<1>b. Before(p)
  BY Own
<1>1. PICK i : i = f.dp
  OBVIOUS
<1>2. /\ pc[p] = "at" /\ f.op \in Making /\ lock[i] = None /\ UNCHANGED <<files, panicked>>
  BY <1>1 DEF Create, Making
<1>3. /\ i \in Inode /\ type[i] = "dir" /\ f.ip = None /\ f.old = None /\ f.put = None /\ f.then = "user"
      /\ Len(f.path) > 0 /\ f.k = Len(f.path) /\ f.path \in Seq(Name) /\ Elem(f) \in Name
  <2>1. /\ f.ip = None /\ f.old = None /\ f.dp # None /\ f.put = None /\ f.then = "user"
        /\ Len(f.path) > 0 /\ f.k = Len(f.path)
    BY <1>b, <1>1, <1>2 DEF Before, Shape, Has, Stage, InIput, WantsParent, Making
  <2>2. f.path \in Seq(Name) /\ f.dp \in MaybeInode
    BY <1>b, FrameFields DEF Before
  <2>3. i \in Inode /\ type[i] = "dir"
    BY <2>1, <2>2, <1>1, <1>b DEF Before, Live, MaybeInode
  <2> QED BY <2>1, <2>2, <2>3 DEF Elem
<1>4. PICK next \in MaybeInode : next = entry[i][Elem(f)]
  BY <1>3, <1>b DEF Before
<1>5. CASE /\ next # None /\ ref' = Got(next) /\ valid' = valid \cup {i} /\ UNCHANGED <<disk, lock>>
           /\ Iput(p, i, [f EXCEPT !.ip = next, !.k = @ + 1, !.dp = None], "exists")
  <2>b. type[next] = "free" => Elem(f) = ".."
    BY <1>3, <1>4, <1>5, FoundLive DEF MaybeInode
  <2>c. f.k + 1 \in Nat
    BY <1>3
  <2>1. PICK h : h = [f EXCEPT !.ip = next, !.k = @ + 1, !.dp = None]
    OBVIOUS
  <2>2. h \in Frame /\ h.op = f.op /\ h.new = f.new /\ h.path = f.path /\ h.k = f.k + 1
      /\ h.ip = next /\ h.dp = None /\ h.old = None
    BY <2>1, <1>1, <1>2, <1>3, <1>4, <1>b, <1>5, <2>b, <2>c DEF Before, Frame, MaybeInode
  <2>3. PICK g \in Frame :
           /\ Moves(p, g, "put", fd[p], cwd[p]) /\ g.put = i /\ g.then = "exists"
           /\ g.op = h.op /\ g.path = h.path /\ g.k = h.k /\ g.new = h.new
           /\ g.ip = h.ip /\ g.dp = h.dp /\ g.old = h.old
    <3>1. Iput(p, i, h, "exists") /\ UNCHANGED files
      BY <2>1, <1>1, <1>2, <1>3, <1>4, <1>b, <1>5, <2>b, <2>c DEF files, Before, FilesMove
    <3>2. "exists" \in Places /\ i \in Inode /\ fd[p] \in MaybeInode /\ cwd[p] \in Inode
      BY <1>1, <1>2, <1>3, <1>4, <1>b, <1>5, <2>b, <2>c DEF Places, Points, Before
    <3> QED BY <3>1, <3>2, <2>2, IputOnly
  <2>4. Shape(g, "put")
    BY <2>2, <2>3, <1>1, <1>2, <1>3, <1>4, <1>b, <1>5, <2>b, <2>c
       DEF Before, Shape, Has, Stage, InIput, Making
  <2>5. Live(g, "put", fd[p], cwd[p])
    <3>1. g.path = f.path /\ g.k = f.k + 1 /\ f.k \in Nat /\ f.k >= 1
      BY <2>2, <2>3, <1>1, <1>2, <1>3, <1>4, <1>b, <1>5, <2>b, <2>c DEF Before
    <3>2. type[next] = "free" => ByDotDot(g)
      BY <3>1, <2>b DEF ByDotDot, Elem
    <3> QED BY <2>2, <2>3, <3>2, <1>1, <1>2, <1>3, <1>4, <1>b, <1>5, <2>b, <2>c
           DEF Before, Live, Stage, InIput
  <2>6. Balance(p, g, "put", fd[p], cwd[p])
    <3>1. \A x \in Inode : Mine(g, fd[p], cwd[p], x) = MineOf(p, x) + One(x = next) /\ MineOf(p, x) \in Int
      BY SMTT(30), <2>2, <2>3, <1>1, <1>2, <1>3, <1>4, <1>b, <1>5, <2>b, <2>c
         DEF Before, Mine, MineOf, One
    <3>2. \A x \in Inode : /\ One(Owed(g, "put") = x) = One(Owed(f, pc[p]) = x)
                           /\ One(Owed(f, pc[p]) = x) \in Int
      BY <2>2, <2>3, <1>1, <1>2, <1>3, <1>4, <1>b, <1>5, <2>b, <2>c
         DEF Before, One, Owed, Stage, InIput
    <3>3. \A x \in Inode : ref'[x] = ref[x] + One(x = next) /\ ref[x] \in Int
      BY SMTT(30), <1>1, <1>2, <1>3, <1>4, <1>b, <1>5, <2>b, <2>c DEF Before, disk, Got, One
    <3>7. \A x \in Inode : nlink'[x] = nlink[x] /\ nlink[x] \in Int
      BY <1>1, <1>2, <1>3, <1>4, <1>b, <1>5, <2>b, <2>c DEF Before, disk, Got, One
    <3>4. \A x \in Inode : /\ lock'[x] # lock[x] => {lock[x], lock'[x]} \subseteq {None, p}
                           /\ lock'[x] = p <=> Keeps(g, "put") = x
      BY <2>2, <2>3, <1>1, <1>2, <1>3, <1>4, <1>b, <1>5, <2>b, <2>c
         DEF Before, disk, Got, Keeps, Stage, InIput
    <3>5. \A x \in Inode : ref'[x] - Mine(g, fd[p], cwd[p], x) = ref[x] - MineOf(p, x)
      BY <3>1, <3>3 DEF One
    <3>6. \A x \in Inode : nlink'[x] - One(Owed(g, "put") = x) >= nlink[x] - One(Owed(f, pc[p]) = x)
      BY <3>2, <3>7 DEF One
    <3> QED BY <3>4, <3>5, <3>6 DEF Balance
  <2>7. Quiet(p)
    <3>1. ref' \in [Inode -> Int]
      <4>1. ref \in [Inode -> Int]
        BY <1>b DEF Before
      <4> QED BY SMTT(30), <4>1, <1>1, <1>2, <1>3, <1>4, <1>b, <1>5, <2>b, <2>c
             DEF disk, Got, MaybeInode
    <3>2. nlink' \in [Inode -> Int]
      BY <1>1, <1>2, <1>3, <1>4, <1>b, <1>5, <2>b, <2>c DEF Before, disk, Got
    <3>3. lock' \in [Inode -> Proc \cup {None}]
      BY <1>1, <1>2, <1>3, <1>4, <1>b, <1>5, <2>b, <2>c DEF Before, disk, Got
    <3>4. valid' \subseteq Inode /\ \A x \in valid' : x \in valid \/ type[x] # "free"
      BY <1>1, <1>2, <1>3, <1>4, <1>b, <1>5, <2>b, <2>c DEF Before, disk, Got, Live
    <3>5. UNCHANGED <<type, entry>> /\ panicked' = panicked
      BY <1>1, <1>2, <1>3, <1>4, <1>b, <1>5, <2>b, <2>c DEF Before, disk, Got
    <3> QED BY <3>1, <3>2, <3>3, <3>4, <3>5 DEF Quiet
  <2>8. fd[p] \in MaybeInode /\ cwd[p] \in Inode /\ "put" \in Points
    BY <1>1, <1>2, <1>3, <1>4, <1>b, <1>5, <2>b, <2>c DEF Before, Points, Places, MaybeInode
  <2> QED BY <2>2, <2>3, <2>4, <2>5, <2>6, <2>7, <2>8, QuietStep
<1>6. ASSUME NEW n \in Inode, next = None, type[n] = "free", lock[n] = None,
              type' = [type EXCEPT ![n] = IF f.op = "mkdir" THEN "dir" ELSE "file"],
              nlink' = [nlink EXCEPT ![n] = 1, ![i] = @ + NewLinks(f.op)],
              entry' = [entry EXCEPT ![n] = NewEntries(f.op, n, i), ![i][Elem(f)] = n],
              ref' = Got(n), valid' = valid \cup {i, n}, lock' = [lock EXCEPT ![n] = p],
              Iput(p, i, [f EXCEPT !.ip = n, !.dp = None], "made")
      PROVE  IInv'
  <2>a. PICK name \in Name, new \in [Name -> MaybeInode], t \in {"file", "dir"} :
          /\ name = Elem(f) /\ new = NewEntries(f.op, n, i)
          /\ t = (IF f.op = "mkdir" THEN "dir" ELSE "file")
    <3>1. NewEntries(f.op, n, i) \in [Name -> MaybeInode]
      BY <1>3 DEF NewEntries, NoEntries, MaybeInode
    <3> QED BY <3>1, <1>3
  <2>b. n # i /\ name \notin Dots /\ n # Root /\ entry[i][name] = None /\ Names(n) = {} /\ n \notin valid
        /\ \A m \in Name : entry[n][m] = None
    <3>1. Disked!(i) /\ Disked!(n) /\ type[Root] # "free"
      BY <1>3 DEF IInv, Disked
    <3>2. n # i /\ n # Root
      BY <3>1, <1>3, <1>6
    <3>3. Names(n) = {} /\ n \notin valid /\ \A m \in Name : entry[n][m] = None
      BY <3>1, <1>6
    <3>4. entry[i][name] = None
      BY <2>a, <1>4, <1>6
    <3>5. name \notin Dots
      BY <3>1, <3>4, <1>3, <1>b DEF Before, Dots
    <3> QED BY <3>2, <3>3, <3>4, <3>5
  <2>d. ASSUME NEW a \in Inode, NEW m \in Name \ Dots
        PROVE  entry[a][m] # n
    <3>1. SUFFICES ASSUME entry[a][m] = n
                   PROVE  FALSE
      OBVIOUS
    <3>2. <<a, m>> \in Names(n)
      BY <3>1 DEF Names
    <3> QED BY <3>2, <2>b
  <2>c. /\ \A m \in Name \ Dots : new[m] = None
        /\ t = "dir" => new["."] = n /\ new[".."] = i
        /\ t = "file" => \A m \in Name : new[m] = None
    <3>1. "." \in Name /\ ".." \in Name
      BY FsAssumption DEF Dots
    <3>2. CASE f.op = "mkdir"
      <4>1. new = [NoEntries EXCEPT !["."] = n, ![".."] = i] /\ t = "dir"
        BY <3>2, <2>a DEF NewEntries
      <4> QED BY <4>1, <3>1 DEF NoEntries, Dots
    <3>3. CASE f.op # "mkdir"
      BY <3>3, <2>a DEF NewEntries, NoEntries
    <3> QED BY <3>2, <3>3
  <2>1. PICK h : h = [f EXCEPT !.ip = n, !.dp = None]
    OBVIOUS
  <2>2. h \in Frame /\ h.op = f.op /\ h.new = f.new /\ h.path = f.path /\ h.k = f.k /\ h.ip = n /\ h.dp = None /\ h.old = None
    BY <2>1, <1>1, <1>2, <1>3, <1>4, <1>6, <1>b DEF Before, Frame, MaybeInode
  <2>3. PICK g \in Frame :
           /\ Moves(p, g, "put", fd[p], cwd[p]) /\ g.put = i /\ g.then = "made"
           /\ g.op = h.op /\ g.path = h.path /\ g.k = h.k /\ g.new = h.new
           /\ g.ip = h.ip /\ g.dp = h.dp /\ g.old = h.old
    <3>1. Iput(p, i, h, "made") /\ UNCHANGED files
      BY <2>1, <1>1, <1>2, <1>3, <1>4, <1>6, <1>b
    <3>2. "made" \in Places /\ i \in Inode
      BY <1>1, <1>2, <1>3, <1>4, <1>6, <1>b DEF Places, Points
    <3> QED BY <3>1, <3>2, <2>2, IputOnly
  <2>4. fd'[p] = fd[p] /\ cwd'[p] = cwd[p] /\ fr'[p] = g
    BY <2>3, <1>2, <1>b DEF files, Moves, Before
  <2>5. /\ \A x \in Inode : x \notin {i, n} => entry'[x] = entry[x]
        /\ \A x \in Inode : x # n => type'[x] = type[x]
        /\ type'[n] = t /\ entry'[n] = new
    BY <2>a, <2>b, <1>3, <1>6, <1>b DEF Before
  <2>6. \A m \in Name : entry'[i][m] = IF m = name THEN n ELSE entry[i][m]
    BY <2>a, <2>b, <1>3, <1>6, <1>b DEF Before
  <2>7. /\ \A x \in Inode : x # n => Names(x)' = Names(x)
        /\ Names(n)' = {<<i, name>>}
    <3>0. None \notin Inode
      BY <1>b DEF Before
    <3>1. ASSUME NEW x \in Inode, x # n
          PROVE  Names(x)' = Names(x)
      <4>1. \A a \in Inode, m \in Name \ Dots : entry'[a][m] = x <=> entry[a][m] = x
        BY <3>0, <3>1, <2>5, <2>6, <2>b, <2>c
      <4> QED BY <4>1 DEF Names
    <3>2. Names(n)' = {<<i, name>>}
      <4>1. \A a \in Inode, m \in Name \ Dots : entry[a][m] # n
        BY <2>d
      <4>2. \A a \in Inode, m \in Name \ Dots : entry'[a][m] = n <=> a = i /\ m = name
        BY <4>1, <3>0, <2>5, <2>6, <2>b, <2>c
      <4> QED BY <4>2, <2>b, <1>3 DEF Names
    <3> QED BY <3>1, <3>2
  <2>8. /\ \A x \in Inode : x \notin {i, n} => Subdirs(x)' = Subdirs(x)
        /\ Subdirs(n)' = {} /\ name \notin Subdirs(i)
        /\ Subdirs(i)' = IF t = "dir" THEN Subdirs(i) \cup {name} ELSE Subdirs(i)
    <3>0. \A a \in Inode, m \in Name \ Dots : entry[a][m] # n /\ entry[a][m] \in MaybeInode
      BY <2>d, <1>b DEF Before
    <3>1. ASSUME NEW x \in Inode, x \notin {i, n}
          PROVE  Subdirs(x)' = Subdirs(x)
      <4>1. \A m \in Name \ Dots : entry'[x][m] = entry[x][m]
                 /\ (entry[x][m] # None => type'[entry[x][m]] = type[entry[x][m]])
        BY <3>0, <3>1, <2>5 DEF MaybeInode
      <4> QED BY <4>1 DEF Subdirs
    <3>2. Subdirs(n)' = {}
      BY <2>5, <2>c DEF Subdirs
    <3>3. name \notin Subdirs(i)
      BY <2>b DEF Subdirs
    <3>4. Subdirs(i)' = IF t = "dir" THEN Subdirs(i) \cup {name} ELSE Subdirs(i)
      <4>1. \A m \in Name \ Dots : m # name => entry'[i][m] = entry[i][m]
                 /\ (entry[i][m] # None => type'[entry[i][m]] = type[entry[i][m]])
        BY <3>0, <2>5, <2>6, <1>3 DEF MaybeInode
      <4>2. entry'[i][name] = n /\ type'[n] = t /\ n # None /\ entry[i][name] = None
        BY <2>5, <2>6, <2>b, <1>b DEF Before
      <4> QED BY <4>1, <4>2, <2>b DEF Subdirs
    <3> QED BY <3>1, <3>2, <3>3, <3>4
  <2>20. Change(p, g, "put", fd[p], cwd[p])
    <3>1. Shape(g, "put")
      BY <2>2, <2>3, <1>2, <1>3, <1>b DEF Before, Shape, Has, Stage, InIput, Making
    <3>2. Live(g, "put", fd[p], cwd[p])'
      <4>1. Live(f, "at", fd[p], cwd[p]) /\ fd[p] \in MaybeInode /\ cwd[p] \in Inode
        BY <1>2, <1>b DEF Before
      <4>2. PICK fl, d : fl = fd[p] /\ d = cwd[p]
        OBVIOUS
      <4>3. g.ip = n /\ g.dp = None /\ g.old = None
        BY <2>2, <2>3
      <4>4. Live(g, "put", fl, d)'
        BY <4>1, <4>2, <4>3, <2>5, <2>a, <1>6 DEF Live, MaybeInode
      <4> QED BY <4>2, <4>4, <2>4
    <3>3. /\ type' \in [Inode -> {"free", "file", "dir"}] /\ entry' \in [Inode -> [Name -> MaybeInode]]
          /\ valid' \subseteq Inode /\ type'[Root] # "free"
      <4>1. type[Root] # "free" /\ n \in MaybeInode
        BY DEF IInv, MaybeInode
      <4>2. type' = [type EXCEPT ![n] = t] /\ entry' = [entry EXCEPT ![n] = new, ![i][name] = n]
        BY <2>a, <1>6
      <4>3. type' \in [Inode -> {"free", "file", "dir"}]
        BY <4>2, <2>a, <1>b DEF Before
      <4>4. entry' \in [Inode -> [Name -> MaybeInode]]
        BY <4>1, <4>2, <2>a, <1>b DEF Before
      <4>5. valid' \subseteq Inode
        BY <1>3, <1>6, <1>b DEF Before
      <4>6. type'[Root] # "free"
        BY <4>1, <2>b, <2>5, <1>b DEF Before
      <4> QED BY <4>3, <4>4, <4>5, <4>6
    <3>4. /\ nlink' \in [Inode -> Int] /\ ref' \in [Inode -> Int] /\ panicked' = panicked
          /\ lock' \in [Inode -> Proc \cup {None}]
          /\ \A x \in Inode : lock'[x] # lock[x] => {lock[x], lock'[x]} \subseteq {None, p}
          /\ \A x \in Inode : lock[x] \notin {None, p} => entry'[x] = entry[x]
      <4>1. NewLinks(f.op) \in Int
        BY DEF NewLinks
      <4>2. ref \in [Inode -> Int]
        BY <1>b DEF Before
      <4>3. nlink' \in [Inode -> Int] /\ ref' \in [Inode -> Int]
        BY SMTT(30), <4>1, <4>2, <1>6, <1>3, <1>b DEF Before, Got
      <4>4. /\ lock' \in [Inode -> Proc \cup {None}]
            /\ \A x \in Inode : lock'[x] # lock[x] => {lock[x], lock'[x]} \subseteq {None, p}
        BY <1>6, <1>b DEF Before
      <4>5. \A x \in Inode : lock[x] \notin {None, p} => entry'[x] = entry[x]
        BY <1>2, <1>6, <2>5
      <4> QED BY <4>3, <4>4, <4>5, <1>2
    <3>5. \A x \in Inode : ref'[x] - Mine(g, fd[p], cwd[p], x) = ref[x] - MineOf(p, x)
      <4>1. \A x \in Inode : Mine(g, fd[p], cwd[p], x) = MineOf(p, x) + One(x = n) /\ MineOf(p, x) \in Int
        BY <2>2, <2>3, <1>1, <1>3, <1>b DEF Before, Mine, MineOf, One
      <4>2. \A x \in Inode : ref'[x] = ref[x] + One(x = n) /\ ref[x] \in Int
        BY <1>6, <1>b DEF Before, Got, One
      <4> QED BY <4>1, <4>2 DEF One
    <3>6. \A x \in Inode : lock'[x] = p <=> Keeps(g, "put") = x
      BY <2>2, <2>3, <1>2, <1>6, <1>b DEF Before, Keeps, Stage, InIput
    <3>7. \A q \in Proc, x \in Inode :
             q # p /\ x \in {fd[q], cwd[q], fr[q].ip, fr[q].dp, fr[q].old} /\ type[x] # "free"
               => type'[x] = type[x]
      BY <2>5, <1>6
    <3> QED BY <3>1, <3>2, <3>3, <3>4, <3>5, <3>6, <3>7 DEF Change
  <2>21. ASSUME NEW x \in Inode
         PROVE  Covers(p, g, "put", x)
    <3>1. Counts(p)!(x) /\ Counts(p)!(x)' /\ LinksCover!(x)
      BY CountsHold, CountsHoldNext DEF Counts, IInv, LinksCover
    <3>2. One(Owed(g, "put") = x) = 0 /\ One(Owed(fr[p], pc[p]) = x) = 0 /\ One(x = Root) \in Nat
      BY <2>2, <2>3, <1>2, <1>3, <1>b DEF Before, Owed, Stage, InIput, One, Making
    <3>3. /\ nlink[x] >= Cardinality(Names(x)) + Cardinality(Subdirs(x)) + Cardinality(OwedByOthers(p, x)) + One(x = Root)
          /\ Cardinality(OwedByOthers(p, x)) \in Nat /\ Cardinality(Names(x)) \in Nat /\ Cardinality(Subdirs(x)) \in Nat
      BY <3>1, <3>2
    <3>4. nlink[x] \in Nat
      BY <1>b DEF Before
    <3>5. CASE x = n
      <4>1. nlink'[x] = 1
        BY <3>5, <2>b, <1>3, <1>6, <1>b DEF Before
      <4>2. Cardinality(Names(x)') = 1
        BY <3>5, <2>7, FS_Singleton
      <4>3. Cardinality(Subdirs(x)') = 0
        BY <3>5, <2>8, FS_EmptySet
      <4>4. One(x = Root) = 0
        BY <3>5, <2>b DEF One
      <4>5. Cardinality(OwedByOthers(p, x)) = 0
        <5>1. ASSUME NEW q \in Proc
              PROVE  Owed(fr[q], pc[q]) # n
          <6>1. Live(fr[q], pc[q], fd[q], cwd[q]) /\ fr[q].old \in MaybeInode /\ fr[q].ip \in MaybeInode
            BY FrameFields DEF IInv, Calling, Typed
          <6>2. n # None
            BY <1>b DEF Before
          <6> QED BY <6>1, <6>2, <1>6 DEF Live, Owed, Stage, InIput
        <5>2. OwedByOthers(p, x) = {}
          BY <5>1, <3>5 DEF OwedByOthers
        <5> QED BY <5>2, FS_EmptySet
      <4> QED BY <4>1, <4>2, <4>3, <4>4, <4>5, <3>2 DEF Covers
    <3>6. CASE x = i
      <4>1. nlink'[x] = nlink[x] + One(t = "dir")
        BY <3>6, <2>a, <2>b, <1>3, <1>6, <1>b DEF Before, NewLinks, One
      <4>2. Cardinality(Subdirs(x)') = Cardinality(Subdirs(x)) + One(t = "dir")
        <5>1. CASE t = "dir"
          BY <5>1, <3>6, <3>1, <2>8, CountAdd DEF One
        <5>2. CASE t # "dir"
          BY <5>2, <3>6, <3>1, <2>8 DEF One
        <5> QED BY <5>1, <5>2
      <4>3. Cardinality(Names(x)') = Cardinality(Names(x)) /\ One(t = "dir") \in Nat
        BY <3>6, <2>7, <2>b DEF One
      <4> HIDE DEF f
      <4> QED BY <4>1, <4>2, <4>3, <3>2, <3>3, <3>4 DEF Covers
    <3>7. CASE x \notin {i, n}
      <4>1. nlink'[x] = nlink[x] /\ Names(x)' = Names(x) /\ Subdirs(x)' = Subdirs(x)
        BY <3>7, <2>7, <2>8, <1>6, <1>b DEF Before
      <4> HIDE DEF f
      <4> QED BY <4>1, <3>2, <3>3, <3>4 DEF Covers
    <3> QED BY <3>5, <3>6, <3>7
  <2>22. Disked'
    <3> SUFFICES ASSUME NEW x \in Inode
                 PROVE  Disked!(x)'
      BY DEF Disked
    <3>1. Disked!(x)
      BY DEF IInv, Disked
    <3>2. i # None
      BY <1>3, <1>b DEF Before
    <3>3. CASE x = i
      <4>1. {".", ".."} \subseteq Name
        BY FsAssumption DEF Dots
      <4>2. entry'[i]["."] = entry[i]["."] /\ entry'[i][".."] = entry[i][".."]
        BY <4>1, <2>6, <2>b DEF Dots
      <4> QED BY <3>1, <3>3, <4>2, <2>5, <2>b, <1>3
    <3>4. CASE x = n
      BY <3>2, <3>4, <2>5, <2>c, <2>a
    <3>5. CASE x \notin {i, n}
      BY <3>1, <3>5, <2>5, <2>7, <1>6
    <3> QED BY <3>3, <3>4, <3>5
  <2>23. TreeOfDirectories'
    <3> SUFFICES ASSUME NEW c \in Inode, type'[c] = "dir"
                 PROVE  /\ \A e \in Names(c)' : entry'[c][".."] = e[1]
                        /\ Cardinality(Names(c)') <= 1 /\ entry'[c]["."] = c
      BY DEF TreeOfDirectories
    <3>1. {".", ".."} \subseteq Name
      BY FsAssumption DEF Dots
    <3>2. CASE c = n
      <4>1. Cardinality(Names(c)') = 1
        BY <3>2, <2>7, FS_Singleton
      <4> QED BY <4>1, <3>2, <2>5, <2>7, <2>c
    <3>3. CASE c # n
      <4>1. type[c] = "dir" /\ Names(c)' = Names(c)
        BY <3>3, <2>5, <2>7
      <4>2. /\ \A e \in Names(c) : entry[c][".."] = e[1]
            /\ Cardinality(Names(c)) <= 1 /\ entry[c]["."] = c
        BY <4>1 DEF IInv, TreeOfDirectories
      <4>3. entry'[c]["."] = entry[c]["."] /\ entry'[c][".."] = entry[c][".."]
        BY <3>1, <3>3, <2>5, <2>6, <2>b DEF Dots
      <4> QED BY <4>1, <4>2, <4>3
    <3> QED BY <3>2, <3>3
  <2> QED
    <3>1. "put" \in Points /\ fd[p] \in MaybeInode /\ cwd[p] \in Inode
      BY <1>b DEF Before, Points
    <3> QED BY <3>1, <2>3, <2>20, <2>21, <2>22, <2>23, ChangeStep
<1> QED BY <1>1, <1>4, <1>5, <1>6 DEF Create

\* The directory to remove is not empty, or the name is removed.
LEMMA UnlinkEntryKeeps ==
  ASSUME IInv, NEW p \in Proc, UnlinkEntry(p)
  PROVE  IInv'
<1> DEFINE f == fr[p]
<1>b. Before(p)
  BY Own
<1>1. PICK i : i = f.ip
  OBVIOUS
<1>2. /\ pc[p] = "unlink" /\ Ilock(i) /\ UNCHANGED <<ref, files>>
  BY <1>1 DEF UnlinkEntry
<1>3. /\ i \in Inode /\ f.dp \in Inode /\ f.old = None /\ f.put = None /\ f.then = "user" /\ f.op = "unlink"
      /\ Elem(f) \in Name \ Dots /\ entry[f.dp][Elem(f)] = i
      /\ type[i] # "free" /\ type[f.dp] = "dir"
  <2>1. /\ f.ip # None /\ f.old = None /\ f.dp # None /\ f.put = None /\ f.then = "user" /\ f.op = "unlink"
        /\ Len(f.path) > 0 /\ f.k = Len(f.path)
    BY <1>b, <1>1, <1>2 DEF Before, Shape, Has, Stage, InIput
  <2>2. f.path \in Seq(Name) /\ f.dp \in MaybeInode /\ f.ip \in MaybeInode
    BY <1>b, FrameFields DEF Before
  <2>3. Elem(f) \in Name
    BY <2>1, <2>2 DEF Elem
  <2>4. type[f.dp] = "dir" /\ type[f.ip] # "free" /\ entry[f.dp][Elem(f)] = f.ip /\ Elem(f) \notin Dots
    BY <2>1, <1>b, <1>1, <1>2 DEF Before, Live, Ilock
  <2> QED BY <2>1, <2>2, <2>3, <2>4, <1>1 DEF MaybeInode
<1>4. panicked' = panicked
  <2>p. nlink[i] >= 1
    <3>1. Counts(p)!(i) /\ LinksCover!(i)
      BY CountsHold, <1>3 DEF IInv, LinksCover, Counts
    <3>2. <<f.dp, Elem(f)>> \in Names(i)
      BY <1>3, <1>1 DEF Names
    <3>3. Cardinality(Names(i)) # 0
      BY <3>1, <3>2, FS_EmptySet
    <3>4. One(i = Root) \in Nat /\ One(Owed(fr[p], pc[p]) = i) \in Nat /\ nlink[i] \in Nat
      BY <1>3, <1>b DEF One, Before
    <3>5. Cardinality(Owes(i)) \in Nat
      BY <3>1, <3>4
    <3> QED BY <3>1, <3>3, <3>4, <3>5
  <2>q. ~(nlink[i] < 1)
    <3>1. nlink[i] \in Nat
      BY <1>3, <1>b DEF Before
    <3> QED BY <3>1, <2>p
  <2> QED BY <2>q, <1>1 DEF UnlinkEntry
<1>5. CASE Iput(p, i, [f EXCEPT !.ip = None], "unlink_full") /\ UNCHANGED <<disk, lock>>
  <2>1. PICK h : h = [f EXCEPT !.ip = None]
    OBVIOUS
  <2>2. h \in Frame /\ h.op = f.op /\ h.new = f.new /\ h.path = f.path /\ h.k = f.k /\ h.ip = None /\ h.dp = f.dp /\ h.old = None
    BY <2>1, <1>1, <1>2, <1>3, <1>4, <1>5, <1>b DEF Before, Frame, MaybeInode
  <2>3. PICK g \in Frame :
           /\ Moves(p, g, "put", fd[p], cwd[p]) /\ g.put = i /\ g.then = "unlink_full"
           /\ g.op = h.op /\ g.path = h.path /\ g.k = h.k /\ g.new = h.new
           /\ g.ip = h.ip /\ g.dp = h.dp /\ g.old = h.old
    <3>1. Iput(p, i, h, "unlink_full") /\ UNCHANGED files
      BY <2>1, <1>1, <1>2, <1>3, <1>4, <1>5, <1>b DEF files, Before, FilesMove
    <3>2. "unlink_full" \in Places /\ i \in Inode /\ fd[p] \in MaybeInode /\ cwd[p] \in Inode
      BY <1>1, <1>2, <1>3, <1>4, <1>5, <1>b DEF Places, Points, Before
    <3> QED BY <3>1, <3>2, <2>2, IputOnly
  <2>4. Shape(g, "put")
    BY <2>2, <2>3, <1>1, <1>2, <1>3, <1>4, <1>5, <1>b DEF Before, Shape, Has, Stage, InIput, Making
  <2>5. Live(g, "put", fd[p], cwd[p])
    BY <2>2, <2>3, <1>1, <1>2, <1>3, <1>4, <1>5, <1>b DEF Before, Live, Stage, InIput
  <2>6. Balance(p, g, "put", fd[p], cwd[p])
    <3>1. \A x \in Inode : Mine(g, fd[p], cwd[p], x) = MineOf(p, x) /\ MineOf(p, x) \in Int
      BY <2>2, <2>3, <1>1, <1>2, <1>3, <1>4, <1>5, <1>b DEF Before, Mine, MineOf, One
    <3>2. \A x \in Inode : /\ One(Owed(g, "put") = x) = One(Owed(f, pc[p]) = x)
                           /\ One(Owed(f, pc[p]) = x) \in Int
      BY <2>2, <2>3, <1>1, <1>2, <1>3, <1>4, <1>5, <1>b DEF Before, One, Owed, Stage, InIput
    <3>3. \A x \in Inode : ref'[x] = ref[x] /\ ref[x] \in Int
      BY <1>1, <1>2, <1>3, <1>4, <1>5, <1>b DEF Before, disk, Ilock, One
    <3>7. \A x \in Inode : nlink'[x] = nlink[x] /\ nlink[x] \in Int
      BY <1>1, <1>2, <1>3, <1>4, <1>5, <1>b DEF Before, disk, Ilock, One
    <3>4. \A x \in Inode : /\ lock'[x] # lock[x] => {lock[x], lock'[x]} \subseteq {None, p}
                           /\ lock'[x] = p <=> Keeps(g, "put") = x
      BY <2>2, <2>3, <1>1, <1>2, <1>3, <1>4, <1>5, <1>b
         DEF Before, disk, Ilock, Keeps, Stage, InIput
    <3>5. \A x \in Inode : ref'[x] - Mine(g, fd[p], cwd[p], x) = ref[x] - MineOf(p, x)
      BY <3>1, <3>3 DEF One
    <3>6. \A x \in Inode : nlink'[x] - One(Owed(g, "put") = x) >= nlink[x] - One(Owed(f, pc[p]) = x)
      BY <3>2, <3>7 DEF One
    <3> QED BY <3>4, <3>5, <3>6 DEF Balance
  <2>7. Quiet(p)
    BY <1>1, <1>2, <1>3, <1>4, <1>5, <1>b DEF Before, disk, Ilock, Quiet
  <2>8. fd[p] \in MaybeInode /\ cwd[p] \in Inode /\ "put" \in Points
    BY <1>1, <1>2, <1>3, <1>4, <1>5, <1>b DEF Before, Points, Places, MaybeInode
  <2> QED BY <2>2, <2>3, <2>4, <2>5, <2>6, <2>7, <2>8, QuietStep
<1>6. CASE /\ entry' = [entry EXCEPT ![f.dp][Elem(f)] = None]
           /\ nlink' = [nlink EXCEPT ![f.dp] = IF type[i] = "dir" THEN @ - 1 ELSE @]
           /\ lock' = [lock EXCEPT ![f.dp] = None, ![i] = p]
           /\ Iput(p, f.dp, [f EXCEPT !.dp = None], "unlinked") /\ UNCHANGED type
  <2>a. PICK dp \in Inode, n \in Name \ Dots : dp = f.dp /\ n = Elem(f)
    BY <1>3
  <2>b. /\ entry[dp][n] = i /\ type[dp] = "dir" /\ type[i] # "free"
        /\ lock[dp] = p /\ lock[i] = None /\ dp # i /\ dp # None
    <3>1. lock[dp] = p
      BY <2>a, <1>2, <1>b DEF Before, Keeps, Stage, InIput
    <3> QED BY <3>1, <2>a, <1>2, <1>3, <1>b DEF Before, Ilock
  <2>c. /\ entry' = [entry EXCEPT ![dp][n] = None]
        /\ nlink' = [nlink EXCEPT ![dp] = IF type[i] = "dir" THEN @ - 1 ELSE @]
        /\ lock' = [lock EXCEPT ![dp] = None, ![i] = p]
        /\ type' = type /\ ref' = ref /\ panicked' = panicked /\ valid' = valid \cup {i}
    BY <2>a, <1>2, <1>4, <1>6 DEF Ilock
  <2>1. PICK h : h = [f EXCEPT !.dp = None]
    OBVIOUS
  <2>2. h \in Frame /\ h.op = f.op /\ h.new = f.new /\ h.path = f.path /\ h.k = f.k /\ h.ip = i /\ h.dp = None /\ h.old = None
    BY <2>1, <1>1, <1>2, <1>3, <1>6, <1>b DEF Before, Frame, MaybeInode
  <2>3. PICK g \in Frame :
           /\ Moves(p, g, "put", fd[p], cwd[p]) /\ g.put = f.dp /\ g.then = "unlinked"
           /\ g.op = h.op /\ g.path = h.path /\ g.k = h.k /\ g.new = h.new
           /\ g.ip = h.ip /\ g.dp = h.dp /\ g.old = h.old
    <3>1. Iput(p, f.dp, h, "unlinked") /\ UNCHANGED files
      BY <2>1, <1>1, <1>2, <1>3, <1>6, <1>b
    <3>2. "unlinked" \in Places /\ f.dp \in Inode
      BY <1>1, <1>2, <1>3, <1>6, <1>b DEF Places, Points
    <3> QED BY <3>1, <3>2, <2>2, IputOnly
  <2>4. fd'[p] = fd[p] /\ cwd'[p] = cwd[p] /\ fr'[p] = g
    BY <2>3, <1>2, <1>b DEF files, Moves, Before
  <2>5. \A x \in Inode : x # dp => entry'[x] = entry[x]
    BY <2>c, <1>b DEF Before
  <2>6. \A m \in Name : entry'[dp][m] = IF m = n THEN None ELSE entry[dp][m]
    BY <2>c, <2>a, <1>b DEF Before
  <2>7. /\ \A x \in Inode : x # i => Names(x)' = Names(x)
        /\ Names(i)' = Names(i) \ {<<dp, n>>} /\ <<dp, n>> \in Names(i)
    <3>0. None \notin Inode
      BY <1>b DEF Before
    <3>1. ASSUME NEW x \in Inode, x # i
          PROVE  Names(x)' = Names(x)
      BY <3>0, <3>1, <2>5, <2>6, <2>b DEF Names
    <3>2. Names(i)' = Names(i) \ {<<dp, n>>}
      BY <3>0, <2>5, <2>6, <2>b, <1>3 DEF Names
    <3>3. <<dp, n>> \in Names(i)
      BY <2>b DEF Names
    <3> QED BY <3>1, <3>2, <3>3
  <2>8. /\ \A x \in Inode : x # dp => Subdirs(x)' = Subdirs(x)
        /\ Subdirs(dp)' = Subdirs(dp) \ {n} /\ (n \in Subdirs(dp) <=> type[i] = "dir")
    <3>1. ASSUME NEW x \in Inode, x # dp
          PROVE  Subdirs(x)' = Subdirs(x)
      BY <3>1, <2>5, <2>c DEF Subdirs
    <3>2. Subdirs(dp)' = Subdirs(dp) \ {n}
      BY <2>6, <2>c DEF Subdirs
    <3>3. n \in Subdirs(dp) <=> type[i] = "dir"
      BY <2>b, <1>3, <1>b DEF Subdirs, Before
    <3> QED BY <3>1, <3>2, <3>3
  <2>20. Change(p, g, "put", fd[p], cwd[p])
    <3>1. Shape(g, "put")
      BY <2>2, <2>3, <1>2, <1>3, <1>b DEF Before, Shape, Has, Stage, InIput, Making
    <3>2. Live(g, "put", fd[p], cwd[p])'
      <4>1. Live(g, "put", fd[p], cwd[p])
        BY <2>2, <2>3, <1>2, <1>3, <1>b DEF Before, Live, Stage, InIput
      <4>2. PICK fl, d : fl = fd[p] /\ d = cwd[p]
        OBVIOUS
      <4>3. Live(g, "put", fl, d)'
        BY <4>1, <4>2, <2>c DEF Live
      <4> QED BY <4>2, <4>3, <2>4
    <3>3. /\ type' \in [Inode -> {"free", "file", "dir"}] /\ entry' \in [Inode -> [Name -> MaybeInode]]
          /\ valid' \subseteq Inode /\ type'[Root] # "free"
      <4>1. type[Root] # "free" /\ None \in MaybeInode
        BY DEF IInv, MaybeInode
      <4> QED BY <4>1, <2>c, <1>3, <1>b DEF Before
    <3>4. /\ nlink' \in [Inode -> Int] /\ ref' \in [Inode -> Int] /\ panicked' = panicked
          /\ lock' \in [Inode -> Proc \cup {None}]
          /\ \A x \in Inode : lock'[x] # lock[x] => {lock[x], lock'[x]} \subseteq {None, p}
          /\ \A x \in Inode : lock[x] \notin {None, p} => entry'[x] = entry[x]
      <4>1. nlink' \in [Inode -> Int]
        BY <2>c, <1>b DEF Before
      <4>2. ref' \in [Inode -> Int] /\ panicked' = panicked
        BY <2>c, <1>b DEF Before
      <4>3. lock' \in [Inode -> Proc \cup {None}]
        BY <2>c, <1>b DEF Before
      <4>4. \A x \in Inode : lock'[x] # lock[x] => {lock[x], lock'[x]} \subseteq {None, p}
        BY <2>b, <2>c, <1>b DEF Before
      <4>5. \A x \in Inode : lock[x] \notin {None, p} => entry'[x] = entry[x]
        BY <2>b, <2>5
      <4> QED BY <4>1, <4>2, <4>3, <4>4, <4>5
    <3>5. \A x \in Inode : ref'[x] - Mine(g, fd[p], cwd[p], x) = ref[x] - MineOf(p, x)
      <4>1. \A x \in Inode : Mine(g, fd[p], cwd[p], x) = MineOf(p, x)
        BY <2>2, <2>3, <1>1, <1>3, <1>b DEF Before, Mine, MineOf, One
      <4> QED BY <4>1, <2>c
    <3>6. \A x \in Inode : lock'[x] = p <=> Keeps(g, "put") = x
      BY <2>2, <2>3, <2>a, <2>b, <2>c, <1>2, <1>b DEF Before, Keeps, Stage, InIput
    <3>7. \A q \in Proc, x \in Inode :
             q # p /\ x \in {fd[q], cwd[q], fr[q].ip, fr[q].dp, fr[q].old} /\ type[x] # "free"
               => type'[x] = type[x]
      BY <2>c
    <3> QED BY <3>1, <3>2, <3>3, <3>4, <3>5, <3>6, <3>7 DEF Change
  <2>21. ASSUME NEW x \in Inode
         PROVE  Covers(p, g, "put", x)
    <3>1. Counts(p)!(x) /\ Counts(p)!(x)' /\ LinksCover!(x)
      BY CountsHold, CountsHoldNext DEF Counts, IInv, LinksCover
    <3>2. One(Owed(g, "put") = x) = One(x = i) /\ One(Owed(fr[p], pc[p]) = x) = 0 /\ One(x = Root) \in Nat
      BY <2>2, <2>3, <1>2, <1>3, <1>b DEF Before, Owed, Stage, InIput, One
    <3>3. nlink'[x] = nlink[x] - One(x = dp /\ type[i] = "dir") /\ nlink[x] \in Nat
      BY <2>c, <1>b DEF Before, One
    <3>4. Cardinality(Names(x)') = Cardinality(Names(x)) - One(x = i)
      <4>1. CASE x = i
        BY <4>1, <3>1, <2>7, CountRemove DEF One
      <4>2. CASE x # i
        BY <4>2, <3>1, <2>7 DEF One
      <4> QED BY <4>1, <4>2
    <3>5. Cardinality(Subdirs(x)') = Cardinality(Subdirs(x)) - One(x = dp /\ type[i] = "dir")
      <4>1. CASE x = dp /\ type[i] = "dir"
        BY <4>1, <3>1, <2>8, CountRemove DEF One
      <4>2. CASE x = dp /\ type[i] # "dir"
        <5>1. Subdirs(x)' = Subdirs(x)
          BY <4>2, <2>8
        <5> QED BY <5>1, <4>2, <3>1 DEF One
      <4>3. CASE x # dp
        BY <4>3, <3>1, <2>8 DEF One
      <4> QED BY <4>1, <4>2, <4>3
    <3>6. One(x = i) \in Nat /\ One(x = dp /\ type[i] = "dir") \in Nat
      BY DEF One
    <3>7. /\ nlink[x] >= Cardinality(Names(x)) + Cardinality(Subdirs(x)) + Cardinality(OwedByOthers(p, x)) + One(x = Root)
          /\ Cardinality(OwedByOthers(p, x)) \in Nat /\ Cardinality(Names(x)) \in Nat /\ Cardinality(Subdirs(x)) \in Nat
      BY <3>1, <3>2
    <3> HIDE DEF f
    <3> QED BY <3>2, <3>3, <3>4, <3>5, <3>6, <3>7 DEF Covers
  <2>22. Disked'
    <3> SUFFICES ASSUME NEW x \in Inode
                 PROVE  Disked!(x)'
      BY DEF Disked
    <3>1. Disked!(x)
      BY DEF IInv, Disked
    <3>2. type[x] = "free" => x # i /\ x # dp
      BY <2>b
    <3>3. CASE x = dp
      <4>1. {".", ".."} \subseteq Name
        BY FsAssumption DEF Dots
      <4>2. entry'[dp]["."] = entry[dp]["."] /\ entry'[dp][".."] = entry[dp][".."]
        BY <4>1, <2>6 DEF Dots
      <4> QED BY <3>1, <3>3, <4>2, <2>c, <2>b
    <3>4. CASE x # dp
      BY <3>1, <3>2, <3>4, <2>5, <2>7, <2>c
    <3> QED BY <3>3, <3>4
  <2>23. TreeOfDirectories'
    <3> SUFFICES ASSUME NEW c \in Inode, type'[c] = "dir"
                 PROVE  /\ \A e \in Names(c)' : entry'[c][".."] = e[1]
                        /\ Cardinality(Names(c)') <= 1 /\ entry'[c]["."] = c
      BY DEF TreeOfDirectories
    <3>1. type[c] = "dir"
      BY <2>c
    <3>2. /\ \A e \in Names(c) : entry[c][".."] = e[1]
          /\ Cardinality(Names(c)) <= 1 /\ entry[c]["."] = c
      BY <3>1 DEF IInv, TreeOfDirectories
    <3>3. {".", ".."} \subseteq Name
      BY FsAssumption DEF Dots
    <3>4. entry'[c]["."] = entry[c]["."] /\ entry'[c][".."] = entry[c][".."]
      BY <3>3, <2>5, <2>6 DEF Dots
    <3>5. Names(c)' \subseteq Names(c)
      BY <2>7
    <3>6. Cardinality(Names(c)') <= Cardinality(Names(c)) /\ Cardinality(Names(c)) \in Nat /\ Cardinality(Names(c)') \in Nat
      <4>1. Counts(p)!(c) /\ Counts(p)!(c)'
        BY CountsHold, CountsHoldNext DEF Counts
      <4> QED BY <4>1, <3>5, FiniteSubset
    <3> QED BY <3>2, <3>4, <3>5, <3>6
  <2> QED
    <3>1. "put" \in Points /\ fd[p] \in MaybeInode /\ cwd[p] \in Inode
      BY <1>b DEF Before, Points
    <3> QED BY <3>1, <2>3, <2>20, <2>21, <2>22, <2>23, ChangeStep
<1> QED BY <1>1, <1>5, <1>6 DEF UnlinkEntry

\* The new name of link exists, or is made.
LEMMA DirlinkKeeps ==
  ASSUME IInv, NEW p \in Proc, Dirlink(p)
  PROVE  IInv'
<1> DEFINE f == fr[p]
<1>b. Before(p)
  BY Own
<1>1. PICK i : i = f.dp
  OBVIOUS
<1>2. /\ pc[p] = "at" /\ f.op = "link2" /\ Ilock(i) /\ UNCHANGED <<type, nlink, files, panicked>>
  BY <1>1 DEF Dirlink
<1>3. /\ i \in Inode /\ type[i] = "dir" /\ f.ip = None /\ f.old # None /\ f.put = None /\ f.then = "user"
      /\ Len(f.path) > 0 /\ f.k = Len(f.path) /\ f.path \in Seq(Name) /\ Elem(f) \in Name
  <2>1. /\ f.ip = None /\ f.old # None /\ f.dp # None /\ f.put = None /\ f.then = "user"
        /\ Len(f.path) > 0 /\ f.k = Len(f.path)
    BY <1>b, <1>1, <1>2 DEF Before, Shape, Has, Stage, InIput, WantsParent, Making
  <2>2. f.path \in Seq(Name) /\ f.dp \in MaybeInode
    BY <1>b, FrameFields DEF Before
  <2>3. i \in Inode /\ type[i] = "dir"
    BY <2>1, <2>2, <1>1, <1>b DEF Before, Live, MaybeInode
  <2> QED BY <2>1, <2>2, <2>3 DEF Elem
<1>4. PICK next \in MaybeInode : next = entry[i][Elem(f)]
  BY <1>3, <1>b DEF Before
<1>5. CASE /\ next # None /\ ref' = Got(next) /\ lock' = [lock EXCEPT ![i] = p]
           /\ Iput(p, next, f, "link_dup") /\ UNCHANGED entry
  <2>a. next \in Inode /\ f.old \in Inode
    BY <1>3, <1>4, <1>5, <1>b, FrameFields DEF Before, MaybeInode
  <2>1. PICK h : h = f
    OBVIOUS
  <2>2. h \in Frame /\ h.op = f.op /\ h.new = f.new /\ h.path = f.path /\ h.k = f.k /\ h.ip = None /\ h.dp = i /\ h.old = f.old
    BY <2>1, <1>1, <1>2, <1>3, <1>4, <1>b, <1>5, <2>a DEF Before, Frame, MaybeInode
  <2>3. PICK g \in Frame :
           /\ Moves(p, g, "put", fd[p], cwd[p]) /\ g.put = next /\ g.then = "link_dup"
           /\ g.op = h.op /\ g.path = h.path /\ g.k = h.k /\ g.new = h.new
           /\ g.ip = h.ip /\ g.dp = h.dp /\ g.old = h.old
    <3>1. Iput(p, next, h, "link_dup") /\ UNCHANGED files
      BY <2>1, <1>1, <1>2, <1>3, <1>4, <1>b, <1>5, <2>a DEF files, Before, FilesMove
    <3>2. "link_dup" \in Places /\ next \in Inode /\ fd[p] \in MaybeInode /\ cwd[p] \in Inode
      BY <1>1, <1>2, <1>3, <1>4, <1>b, <1>5, <2>a DEF Places, Points, Before
    <3> QED BY <3>1, <3>2, <2>2, IputOnly
  <2>4. Shape(g, "put")
    BY <2>2, <2>3, <1>1, <1>2, <1>3, <1>4, <1>b, <1>5, <2>a
       DEF Before, Shape, Has, Stage, InIput, Making
  <2>5. Live(g, "put", fd[p], cwd[p])
    BY <2>2, <2>3, <1>1, <1>2, <1>3, <1>4, <1>b, <1>5, <2>a DEF Before, Live, Stage, InIput
  <2>6. Balance(p, g, "put", fd[p], cwd[p])
    <3>1. \A x \in Inode : Mine(g, fd[p], cwd[p], x) = MineOf(p, x) + One(x = next) /\ MineOf(p, x) \in Int
      BY SMTT(30), <2>2, <2>3, <1>1, <1>2, <1>3, <1>4, <1>b, <1>5, <2>a
         DEF Before, Mine, MineOf, One
    <3>2. \A x \in Inode : /\ One(Owed(g, "put") = x) = One(Owed(f, pc[p]) = x)
                           /\ One(Owed(f, pc[p]) = x) \in Int
      BY <2>2, <2>3, <1>1, <1>2, <1>3, <1>4, <1>b, <1>5, <2>a DEF Before, One, Owed, Stage, InIput
    <3>3. \A x \in Inode : ref'[x] = ref[x] + One(x = next) /\ ref[x] \in Int
      BY SMTT(30), <1>1, <1>2, <1>3, <1>4, <1>b, <1>5, <2>a DEF Before, Got, Ilock, One
    <3>7. \A x \in Inode : nlink'[x] = nlink[x] /\ nlink[x] \in Int
      BY <1>1, <1>2, <1>3, <1>4, <1>b, <1>5, <2>a DEF Before, Got, Ilock, One
    <3>4. \A x \in Inode : /\ lock'[x] # lock[x] => {lock[x], lock'[x]} \subseteq {None, p}
                           /\ lock'[x] = p <=> Keeps(g, "put") = x
      BY <2>2, <2>3, <1>1, <1>2, <1>3, <1>4, <1>b, <1>5, <2>a
         DEF Before, Got, Ilock, Keeps, Stage, InIput
    <3>5. \A x \in Inode : ref'[x] - Mine(g, fd[p], cwd[p], x) = ref[x] - MineOf(p, x)
      BY <3>1, <3>3 DEF One
    <3>6. \A x \in Inode : nlink'[x] - One(Owed(g, "put") = x) >= nlink[x] - One(Owed(f, pc[p]) = x)
      BY <3>2, <3>7 DEF One
    <3> QED BY <3>4, <3>5, <3>6 DEF Balance
  <2>7. Quiet(p)
    <3>1. ref' \in [Inode -> Int]
      <4>1. ref \in [Inode -> Int]
        BY <1>b DEF Before
      <4> QED BY SMTT(30), <4>1, <1>1, <1>2, <1>3, <1>4, <1>b, <1>5, <2>a DEF Got, Ilock, MaybeInode
    <3>2. nlink' \in [Inode -> Int]
      BY <1>1, <1>2, <1>3, <1>4, <1>b, <1>5, <2>a DEF Before, Got, Ilock
    <3>3. lock' \in [Inode -> Proc \cup {None}]
      BY <1>1, <1>2, <1>3, <1>4, <1>b, <1>5, <2>a DEF Before, Got, Ilock
    <3>4. valid' \subseteq Inode /\ \A x \in valid' : x \in valid \/ type[x] # "free"
      BY <1>1, <1>2, <1>3, <1>4, <1>b, <1>5, <2>a DEF Before, Got, Ilock, Live
    <3>5. UNCHANGED <<type, entry>> /\ panicked' = panicked
      BY <1>1, <1>2, <1>3, <1>4, <1>b, <1>5, <2>a DEF Before, Got, Ilock
    <3> QED BY <3>1, <3>2, <3>3, <3>4, <3>5 DEF Quiet
  <2>8. fd[p] \in MaybeInode /\ cwd[p] \in Inode /\ "put" \in Points
    BY <1>1, <1>2, <1>3, <1>4, <1>b, <1>5, <2>a DEF Before, Points, Places, MaybeInode
  <2> QED BY <2>2, <2>3, <2>4, <2>5, <2>6, <2>7, <2>8, QuietStep
<1>6. CASE /\ next = None /\ entry' = [entry EXCEPT ![i][Elem(f)] = f.old]
           /\ Iput(p, i, [f EXCEPT !.dp = None], "linked") /\ UNCHANGED <<ref, lock>>
  <2>a. PICK old \in Inode : old = f.old
    BY <1>3, <1>b, FrameFields DEF Before, MaybeInode
  <2>b. type[old] = "file" /\ Elem(f) \notin Dots
    <3>1. type[old] = "file"
      BY <2>a, <1>3, <1>b DEF Before, Live
    <3>2. entry[i]["."] = i /\ entry[i][".."] # None
      BY <1>3 DEF IInv, Disked
    <3> QED BY <3>1, <3>2, <1>3, <1>4, <1>6, <1>b DEF Before, Dots
  <2>1. PICK h : h = [f EXCEPT !.dp = None]
    OBVIOUS
  <2>2. h \in Frame /\ h.op = f.op /\ h.new = f.new /\ h.path = f.path /\ h.k = f.k /\ h.ip = None /\ h.dp = None /\ h.old = f.old
    BY <2>1, <1>1, <1>2, <1>3, <1>4, <1>6, <1>b DEF Before, Frame, MaybeInode
  <2>3. PICK g \in Frame :
           /\ Moves(p, g, "put", fd[p], cwd[p]) /\ g.put = i /\ g.then = "linked"
           /\ g.op = h.op /\ g.path = h.path /\ g.k = h.k /\ g.new = h.new
           /\ g.ip = h.ip /\ g.dp = h.dp /\ g.old = h.old
    <3>1. Iput(p, i, h, "linked") /\ UNCHANGED files
      BY <2>1, <1>1, <1>2, <1>3, <1>4, <1>6, <1>b
    <3>2. "linked" \in Places /\ i \in Inode
      BY <1>1, <1>2, <1>3, <1>4, <1>6, <1>b DEF Places, Points
    <3> QED BY <3>1, <3>2, <2>2, IputOnly
  <2>4. fd'[p] = fd[p] /\ cwd'[p] = cwd[p] /\ fr'[p] = g
    BY <2>3, <1>2, <1>b DEF files, Moves, Before
  <2>5. \A x \in Inode : x # i => entry'[x] = entry[x]
    BY <1>6, <1>b DEF Before
  <2>6. \A n \in Name : entry'[i][n] = IF n = Elem(f) THEN old ELSE entry[i][n]
    BY <1>6, <1>3, <2>a, <1>b DEF Before
  <2>7. /\ \A x \in Inode : x # old => Names(x)' = Names(x)
        /\ Names(old)' = Names(old) \cup {<<i, Elem(f)>>} /\ <<i, Elem(f)>> \notin Names(old)
    <3>0. None \notin Inode /\ entry[i][Elem(f)] = None
      BY <1>b, <1>4, <1>6 DEF Before
    <3>1. ASSUME NEW x \in Inode, x # old
          PROVE  Names(x)' = Names(x)
      BY <3>0, <3>1, <2>5, <2>6 DEF Names
    <3>2. Names(old)' = Names(old) \cup {<<i, Elem(f)>>}
      BY <3>0, <2>5, <2>6, <2>b, <1>3 DEF Names
    <3>3. <<i, Elem(f)>> \notin Names(old)
      BY <3>0 DEF Names
    <3> QED BY <3>1, <3>2, <3>3
  <2>8. \A x \in Inode : Subdirs(x)' = Subdirs(x)
    <3>0. None \notin Inode /\ entry[i][Elem(f)] = None /\ type[old] # "dir"
      BY <1>b, <1>4, <1>6, <2>b DEF Before
    <3> SUFFICES ASSUME NEW x \in Inode, NEW n \in Name
                 PROVE  (entry'[x][n] # None /\ type[entry'[x][n]] = "dir")
                          <=> (entry[x][n] # None /\ type[entry[x][n]] = "dir")
      BY <1>2 DEF Subdirs
    <3> QED BY <3>0, <2>5, <2>6
  <2>9. nlink' = nlink /\ type' = type /\ ref' = ref /\ lock' = lock /\ panicked' = panicked
        /\ valid' = valid \cup {i} /\ lock[i] = None
    BY <1>2, <1>6 DEF Ilock
  <2>20. Change(p, g, "put", fd[p], cwd[p])
    <3>1. Shape(g, "put")
      BY <2>2, <2>3, <1>2, <1>3, <1>b DEF Before, Shape, Has, Stage, InIput, Making
    <3>2. Live(g, "put", fd[p], cwd[p])'
      <4>1. Live(g, "put", fd[p], cwd[p])
        BY <2>2, <2>3, <1>2, <1>3, <1>b DEF Before, Live, Stage, InIput
      <4>2. PICK fl, d : fl = fd[p] /\ d = cwd[p]
        OBVIOUS
      <4>3. Live(g, "put", fl, d)'
        BY <4>1, <4>2, <2>9 DEF Live
      <4> QED BY <4>2, <4>3, <2>4
    <3>3. /\ type' \in [Inode -> {"free", "file", "dir"}] /\ entry' \in [Inode -> [Name -> MaybeInode]]
          /\ valid' \subseteq Inode /\ type'[Root] # "free"
      <4>1. type[Root] # "free"
        BY DEF IInv
      <4>2. old \in MaybeInode
        BY DEF MaybeInode
      <4> QED BY <4>1, <4>2, <2>a, <2>9, <1>3, <1>6, <1>b DEF Before
    <3>4. /\ nlink' \in [Inode -> Int] /\ ref' \in [Inode -> Int] /\ panicked' = panicked
          /\ lock' \in [Inode -> Proc \cup {None}]
          /\ \A x \in Inode : lock'[x] # lock[x] => {lock[x], lock'[x]} \subseteq {None, p}
          /\ \A x \in Inode : lock[x] \notin {None, p} => entry'[x] = entry[x]
      BY <2>9, <2>5, <1>b DEF Before
    <3>5. \A x \in Inode : ref'[x] - Mine(g, fd[p], cwd[p], x) = ref[x] - MineOf(p, x)
      <4>1. \A x \in Inode : Mine(g, fd[p], cwd[p], x) = MineOf(p, x)
        BY <2>2, <2>3, <1>1, <1>3, <1>b DEF Before, Mine, MineOf, One
      <4> QED BY <4>1, <2>9
    <3>6. \A x \in Inode : lock'[x] = p <=> Keeps(g, "put") = x
      BY <2>2, <2>3, <2>9, <1>2, <1>b DEF Before, Keeps, Stage, InIput
    <3> QED BY <3>1, <3>2, <3>3, <3>4, <3>5, <3>6, <2>9 DEF Change
  <2>21. ASSUME NEW x \in Inode
         PROVE  Covers(p, g, "put", x)
    <3>1. Counts(p)!(x) /\ Counts(p)!(x)' /\ LinksCover!(x)
      BY CountsHold, CountsHoldNext DEF Counts, IInv, LinksCover
    <3>2. One(Owed(g, "put") = x) = 0 /\ One(Owed(fr[p], pc[p]) = x) = One(x = old) /\ One(x = Root) \in Nat
      BY <2>2, <2>3, <2>a, <1>2, <1>3, <1>b DEF Before, Owed, Stage, InIput, One
    <3>3. nlink'[x] = nlink[x] /\ nlink[x] \in Nat
      BY <2>9, <1>b DEF Before
    <3>4. CASE x # old
      <4>1. One(x = old) = 0
        BY <3>4 DEF One
      <4> QED BY <3>1, <3>2, <3>3, <3>4, <4>1, <2>7, <2>8 DEF Covers
    <3>5. CASE x = old
      <4>1. One(x = old) = 1
        BY <3>5 DEF One
      <4>2. Cardinality(Names(x)') = Cardinality(Names(x)) + 1
        BY <3>1, <3>5, <2>7, CountAdd
      <4> QED BY <3>1, <3>2, <3>3, <4>1, <4>2, <2>8 DEF Covers
    <3> QED BY <3>4, <3>5
  <2>22. Disked'
    <3> SUFFICES ASSUME NEW x \in Inode
                 PROVE  Disked!(x)'
      BY DEF Disked
    <3>1. Disked!(x)
      BY DEF IInv, Disked
    <3>2. type[x] = "free" => x # old /\ x # i
      BY <2>b, <1>3
    <3>3. CASE x = i
      <4>1. {".", ".."} \subseteq Name
        BY FsAssumption DEF Dots
      <4>2. entry'[i]["."] = entry[i]["."] /\ entry'[i][".."] = entry[i][".."]
        BY <4>1, <2>6, <2>b DEF Dots
      <4> QED BY <3>1, <3>3, <4>2, <2>9, <1>3
    <3>4. CASE x # i
      BY <3>1, <3>2, <3>4, <2>5, <2>7, <2>9
    <3> QED BY <3>3, <3>4
  <2>23. TreeOfDirectories'
    <3> SUFFICES ASSUME NEW c \in Inode, type'[c] = "dir"
                 PROVE  /\ \A e \in Names(c)' : entry'[c][".."] = e[1]
                        /\ Cardinality(Names(c)') <= 1 /\ entry'[c]["."] = c
      BY DEF TreeOfDirectories
    <3>1. type[c] = "dir" /\ c # old
      BY <2>9, <2>b
    <3>2. /\ \A e \in Names(c) : entry[c][".."] = e[1]
          /\ Cardinality(Names(c)) <= 1 /\ entry[c]["."] = c
      BY <3>1 DEF IInv, TreeOfDirectories
    <3>3. {".", ".."} \subseteq Name
      BY FsAssumption DEF Dots
    <3>4. entry'[c]["."] = entry[c]["."] /\ entry'[c][".."] = entry[c][".."]
      BY <3>3, <2>5, <2>6, <2>b DEF Dots
    <3> QED BY <3>1, <3>2, <3>4, <2>7
  <2> QED
    <3>1. "put" \in Points /\ fd[p] \in MaybeInode /\ cwd[p] \in Inode
      BY <1>b DEF Before, Points
    <3> QED BY <3>1, <2>3, <2>20, <2>21, <2>22, <2>23, ChangeStep
<1> QED BY <1>1, <1>4, <1>5, <1>6 DEF Dirlink

-----------------------------------------------------------------------------
(* The invariant and the properties                                        *)

LEMMA StutterKeeps ==
  ASSUME IInv, UNCHANGED <<type, nlink, entry, ref, valid, lock, pc, fr, fd, cwd>>,
         panicked' \in {"no", "ilock: no type", "ialloc: no inodes"}
  PROVE  IInv'
<1>1. \A i \in Inode : /\ Names(i)' = Names(i) /\ Subdirs(i)' = Subdirs(i)
                      /\ Owes(i)' = Owes(i) /\ Holders(i)' = Holders(i)
  <2>1. \A i \in Inode : Names(i)' = Names(i) /\ Subdirs(i)' = Subdirs(i)
    BY DEF Names, Subdirs
  <2>2. \A i \in Inode : Owes(i)' = Owes(i)
    BY DEF Owes, Owed, Stage, InIput
  <2>3. \A i \in Inode : Holders(i)' = Holders(i)
    BY DEF Holders
  <2> QED BY <2>1, <2>2, <2>3
<1>2. Typed'
  BY DEF IInv, Typed
<1>3. Calling'
  BY DEF IInv, Calling, Live
<1>4. LocksKept'
  BY DEF IInv, LocksKept
<1>5. Disked' /\ LinksCover' /\ RefsAccounted' /\ TreeOfDirectories'
  <2>1. Disked'
    BY <1>1 DEF IInv, Disked
  <2>2. LinksCover'
    <3> SUFFICES ASSUME NEW i \in Inode
                 PROVE  LinksCover!(i)'
      BY DEF LinksCover
    <3>1. LinksCover!(i)
      BY DEF IInv, LinksCover
    <3> QED BY <3>1, <1>1
  <2>3. RefsAccounted'
    BY <1>1 DEF IInv, RefsAccounted
  <2>4. TreeOfDirectories'
    BY <1>1 DEF IInv, TreeOfDirectories
  <2> QED BY <2>1, <2>2, <2>3, <2>4
<1>6. type'[Root] # "free"
  BY DEF IInv
<1> QED BY <1>2, <1>3, <1>4, <1>5, <1>6 DEF IInv

\* The invariant holds on the file system mkfs made.
LEMMA InitIInv == Init => IInv
<1> SUFFICES ASSUME Init
             PROVE  IInv
  OBVIOUS
<1> USE DEF Init
<1>1. Root \in Inode /\ None \notin Inode /\ None \notin Proc
  BY FsAssumption
<1>2. NoCall \in Frame
  BY NoCallFrame
<1>3. Typed
  <2>1. ref \in [Inode -> Nat]
    BY FsAssumption, FS_CardinalityType
  <2>2. /\ type \in [Inode -> {"free", "file", "dir"}] /\ nlink \in [Inode -> Nat]
        /\ lock \in [Inode -> Proc \cup {None}] /\ pc \in [Proc -> Points] /\ fr \in [Proc -> Frame]
        /\ fd \in [Proc -> MaybeInode] /\ cwd \in [Proc -> Inode]
        /\ valid \subseteq Inode /\ panicked \in {"no", "ilock: no type", "ialloc: no inodes"}
    BY <1>1, <1>2 DEF Points, MaybeInode
  <2>3. entry \in [Inode -> [Name -> MaybeInode]]
    BY <1>1 DEF MaybeInode
  <2> QED BY <2>1, <2>2, <2>3 DEF Typed
<1>4. \A i \in Inode : Names(i) = {} /\ Subdirs(i) = {} /\ Owes(i) = {}
  <2> TAKE i \in Inode
  <2>1. \A a \in Inode, n \in Name \ Dots : entry[a][n] = None
    OBVIOUS
  <2>2. Names(i) = {}
    BY <2>1, <1>1 DEF Names
  <2>3. Subdirs(i) = {}
    BY <2>1 DEF Subdirs
  <2>4. Owes(i) = {}
    BY <1>1 DEF Owes, Owed, Stage, InIput, NoCall
  <2> QED BY <2>2, <2>3, <2>4
<1>5. Calling
  BY <1>1 DEF Calling, Shape, Live, Has, Stage, InIput, NoCall
<1>6. LocksKept
  BY <1>1 DEF LocksKept, Keeps, Stage, InIput, NoCall
<1>7. Disked
  <2>1. "." \in Name /\ ".." \in Name
    BY FsAssumption DEF Dots
  <2> QED BY <1>1, <1>4, <2>1 DEF Disked, Dots
<1>8. LinksCover
  <2> SUFFICES ASSUME NEW i \in Inode
               PROVE  LinksCover!(i)
    BY DEF LinksCover
  <2>1. Cardinality(Names(i)) = 0 /\ Cardinality(Subdirs(i)) = 0 /\ Cardinality(Owes(i)) = 0
    BY <1>4, FS_EmptySet
  <2>2. nlink[i] = One(i = Root)
    BY DEF One
  <2>3. One(i = Root) \in Nat
    BY DEF One
  <2> QED BY <2>1, <2>2, <2>3
<1>9. TreeOfDirectories
  <2>1. "." \in Name
    BY FsAssumption DEF Dots
  <2>2. \A c \in Inode : Cardinality(Names(c)) = 0
    BY <1>4, FS_EmptySet
  <2>3. \A c \in Inode : type[c] = "dir" => entry[c]["."] = c
    BY <2>1 DEF Dots
  <2> QED BY <1>4, <2>2, <2>3 DEF TreeOfDirectories
<1>10. RefsAccounted
  <2> SUFFICES ASSUME NEW i \in Inode
               PROVE  ref[i] = Cardinality(Holders(i))
    BY DEF RefsAccounted
  <2>1. CASE i = Root
    <3>1. Holders(i) = Proc \X {"cwd"}
      BY <2>1, <1>1 DEF Holders, NoCall
    <3>2. Cardinality({"cwd"}) = 1 /\ IsFiniteSet({"cwd"})
      BY FS_Singleton
    <3>3. Cardinality(Proc \X {"cwd"}) = Cardinality(Proc) * Cardinality({"cwd"})
      BY <3>2, FsAssumption, FS_Product
    <3>4. Cardinality(Proc) \in Nat
      BY FsAssumption, FS_CardinalityType
    <3> QED BY <2>1, <3>1, <3>2, <3>3, <3>4
  <2>2. CASE i # Root
    <3>1. Holders(i) = {}
      BY <2>2, <1>1 DEF Holders, NoCall
    <3> QED BY <2>2, <3>1, FS_EmptySet
  <2> QED BY <2>1, <2>2
<1> QED BY <1>1, <1>3, <1>5, <1>6, <1>7, <1>8, <1>9, <1>10 DEF IInv

\* Every step keeps the invariant.
LEMMA NextIInv == IInv /\ [Next]_vars => IInv'
<1> SUFFICES ASSUME IInv, [Next]_vars
             PROVE  IInv'
  OBVIOUS
<1>1. ASSUME NEW p \in Proc, NEW c \in Calls, Call(p, c)
      PROVE  IInv'
  BY <1>1, CallKeeps
<1>2. ASSUME NEW p \in Proc, Close(p)
      PROVE  IInv'
  BY <1>2, CloseKeeps
<1>3. ASSUME NEW p \in Proc, Step(p)
      PROVE  IInv'
  BY <1>3, WalkKeeps, IputFreeKeeps, IputDropKeeps, OpenKeeps, ChdirKeeps, CreateKeeps, ExistsKeeps,
     MadeKeeps, UnlinkKeeps, UnlinkEntryKeeps, UnlinkFullKeeps, UnlinkedKeeps, LinkKeeps,
     DirlinkKeeps, LinkDupKeeps, LinkedKeeps, LinkBadKeeps DEF Step
<1>4. ASSUME NEW p \in Proc, Panic(p)
      PROVE  IInv'
  BY <1>4, StutterKeeps DEF Panic, IlockPanic, IallocPanic, disk, cache, files
<1>5. CASE UNCHANGED vars
  <2>1. panicked \in {"no", "ilock: no type", "ialloc: no inodes"}
    BY DEF IInv, Typed
  <2> QED BY <1>5, <2>1, StutterKeeps DEF vars
<1> QED BY <1>1, <1>2, <1>3, <1>4, <1>5 DEF Next

\* The invariant holds in every reachable state.
LEMMA Inductive == Spec => []IInv
  BY InitIInv, NextIInv, PTL DEF Spec

\* The invariant covers names and types.
LEMMA IInvNames == IInv => NamesSound
<1> SUFFICES ASSUME IInv
             PROVE  NamesSound
  OBVIOUS
<1>1. Typed
  BY DEF IInv
<1>2. TypeOK
  <2>1. ASSUME NEW p \in Proc
        PROVE  /\ DOMAIN fr[p] = DOMAIN NoCall
               /\ fr[p].op \in Op \cup {"link2", "none"} /\ fr[p].then \in Points
               /\ {fr[p].ip, fr[p].dp, fr[p].old, fr[p].put} \subseteq Inode \cup {None}
    <3>1. fr[p] \in Frame
      BY <1>1 DEF Typed
    <3>2. DOMAIN fr[p] = {"op", "path", "k", "new", "ip", "dp", "old", "put", "then"}
      BY <3>1 DEF Frame
    <3>3. DOMAIN NoCall = {"op", "path", "k", "new", "ip", "dp", "old", "put", "then"}
      BY DEF NoCall
    <3> QED BY <3>1, <3>2, <3>3, FrameFields DEF MaybeInode, Places
  <2> QED BY <1>1, <2>1 DEF Typed, TypeOK, MaybeInode
<1>3. LinksCounted
  <2> SUFFICES ASSUME NEW i \in Inode
               PROVE  nlink[i] >= Cardinality(Names(i)) + Cardinality(Subdirs(i))
    BY DEF LinksCounted
  <2>1. LinksCover!(i)
    BY DEF IInv, LinksCover
  <2>2. Cardinality(Names(i)) \in Nat /\ Cardinality(Subdirs(i)) \in Nat
    <3>1. IsFiniteSet(Subdirs(i))
      BY FsAssumption, FiniteSubset DEF Subdirs
    <3>2. Names(i) \subseteq Inode \X (Name \ Dots)
      BY DEF Names
    <3> QED BY <3>1, <3>2, FiniteNames, FS_CardinalityType
  <2>3. Cardinality(Owes(i)) \in Nat
    BY FsAssumption, FiniteSubset DEF Owes
  <2>4. One(i = Root) \in Nat /\ nlink[i] \in Nat
    BY <1>1 DEF One, Typed
  <2> QED BY <2>1, <2>2, <2>3, <2>4
<1>4. InUse
  <2> SUFFICES ASSUME NEW i \in Inode, type[i] = "free"
               PROVE  Names(i) = {} /\ \A p \in Proc : fd[p] # i /\ cwd[p] # i
    BY DEF InUse
  <2>1. Names(i) = {}
    BY DEF IInv, Disked
  <2>2. ASSUME NEW p \in Proc
        PROVE  fd[p] # i /\ cwd[p] # i
    <3>1. Live(fr[p], pc[p], fd[p], cwd[p]) /\ None \notin Inode
      BY FsAssumption DEF IInv, Calling
    <3> QED BY <3>1 DEF Live
  <2> QED BY <2>1, <2>2
<1> QED BY <1>2, <1>3, <1>4 DEF NamesSound

\* The invariant covers the tree and the lookups.
LEMMA IInvTree == IInv => TreeWalked
<1> SUFFICES ASSUME IInv
             PROVE  LookupFindsLive
  BY DEF TreeWalked, IInv
<1>1. panicked # "unlink: nlink < 1"
  BY DEF IInv, Typed
<1>2. ASSUME NEW p \in Proc, fr[p].ip # None, type[fr[p].ip] = "free"
      PROVE  fr[p].k > 1 /\ fr[p].path[fr[p].k - 1] = ".."
  BY <1>2 DEF IInv, Calling, Live, ByDotDot
<1> QED BY <1>1, <1>2 DEF LookupFindsLive

\* The invariant covers references and locks.
LEMMA IInvGiven == IInv => GivenBack
<1> SUFFICES ASSUME IInv, NEW i \in Inode, lock[i] # None
             PROVE  pc[lock[i]] # "user"
  BY DEF GivenBack, IInv, LocksReleased
<1>1. PICK q \in Proc : q = lock[i]
  BY DEF IInv, Typed
<1>2. Keeps(fr[q], pc[q]) = i
  BY <1>1 DEF IInv, LocksKept
<1> QED BY <1>1, <1>2, FsAssumption DEF Keeps, Stage, InIput

\* Link counts cover the names of an inode and the ".." of its subdirectories, and
\* what has a name, is open or is a current directory is not freed, whatever calls
\* link, unlink and put it at the same time.
THEOREM NamesAreSound == Spec => []NamesSound
  BY Inductive, IInvNames, PTL

\* The directories are a tree, "unlink: nlink < 1" does not happen, and a lookup
\* comes to a free inode only by the ".." of a removed directory.
THEOREM TreesAreWalked == Spec => []TreeWalked
  BY Inductive, IInvTree, PTL

\* Every reference counted is held by a file, a current directory or a call, and a
\* call returns without the locks it took, on every path with its errors.
THEOREM AllIsGivenBack == Spec => []GivenBack
  BY Inductive, IInvGiven, PTL

=============================================================================
