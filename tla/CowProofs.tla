----------------------------- MODULE CowProofs -----------------------------
(***************************************************************************)
(* Copy-on-write (vm.c, kalloc.c) is safe and invisible, for any finite    *)
(* set of processes, any frames and any size of a process.                 *)
(*                                                                         *)
(* The run's invariants count page table entries against page_refs_num,    *)
(* and that is not inductive: a fault that has allocated its copy holds a  *)
(* frame no entry shows, and one that has installed it still owes the old  *)
(* frame a dec_ref_count, while a fork has entries nobody counted yet.     *)
(* Covered counts the holders of a frame instead: the entries but the one  *)
(* copyuvm is about to count, and the frame a fault has in hand.  Private  *)
(* adds what a fault knows from the count it read, because it acts on it   *)
(* steps later.                                                            *)
(***************************************************************************)
EXTENDS Cow, FiniteSetTheorems, SequenceTheorems, TLAPS

\* Page i of process p is frame f.
Mapped(p, i, f) == i \in 1..Len(pte[p]) /\ pte[p][i].frame = f

\* Only page i of process p is frame f.
OnlyMapped(p, i, f) == \A q \in Proc : \A j \in 1..MaxPages : Mapped(q, j, f) => q = p /\ j = i

\* No page is frame f.
NotMapped(f) == \A q \in Proc : \A j \in 1..MaxPages : ~Mapped(q, j, f)

\* copyuvm has mapped page i into the child p and has not counted it yet.
InTransit(p, i) == \E q \in Proc : pc[q] = "forkref" /\ child[q] = p /\ page[q] = i

\* What a count of page_refs_num stands for: the frame a fault has in hand
\* (i = 0), and a page that is counted.
Holds(p, i, f) ==
  \/ i = 0 /\ pc[p] \in {"copy", "dec"} /\ mem[p] = f
  \/ i \in 1..MaxPages /\ Mapped(p, i, f) /\ ~InTransit(p, i)

\* Everything that holds frame f.
Holders(f) == {h \in Proc \X (0..MaxPages) : Holds(h[1], h[2], f)}

\* A process inside copyuvm.
Forking == {"fork", "forkref", "forkbad"}

\* The locals of handle_page_fault and copyuvm name pages that exist.
Locals ==
  \A p \in Proc :
    /\ pc[p] \in {"fault", "copy", "dec", "inc", "forkref"} => page[p] \in 1..Len(pte[p])
    /\ pc[p] \in {"copy", "dec"} => mem[p] \in Frame
    /\ pc[p] = "fault" => Mine(p).w = FALSE /\ count[p] >= 1
    /\ pc[p] = "none" => pte[p] = <<>>

\* fork has its child to itself, and the child has the pages copied so far.
Children ==
  \A p \in Proc :
    /\ pc[p] \in Forking => child[p] \in Proc /\ pc[child[p]] = "embryo"
    /\ pc[p] = "fork" => Len(pte[child[p]]) = page[p] - 1 /\ page[p] <= Len(pte[p]) + 1
    /\ pc[p] = "forkref" => Len(pte[child[p]]) = page[p]
    /\ pc[p] \in {"fork", "forkref"} =>
         \A i \in 1..Len(pte[child[p]]) : pte[child[p]][i].frame = pte[p][i].frame
    /\ \A q \in Proc : pc[p] \in Forking /\ pc[q] \in Forking /\ child[p] = child[q] => p = q

\* Every read-only page has PTE_C.
ReadOnlyIsCow == \A p \in Proc : \A i \in 1..Len(pte[p]) : pte[p][i].w = FALSE => pte[p][i].c = TRUE

\* A writable page is mapped once; so is the page of a fault that read the
\* count 1; and the copy of a fault is mapped by nobody yet.
Private ==
  /\ \A p \in Proc : \A i \in 1..Len(pte[p]) :
       pte[p][i].w = TRUE => OnlyMapped(p, i, pte[p][i].frame)
  /\ \A p \in Proc : pc[p] = "fault" /\ count[p] = 1 => OnlyMapped(p, page[p], Mine(p).frame)
  /\ \A p \in Proc : pc[p] = "copy" =>
       /\ NotMapped(mem[p])
       /\ \A q \in Proc : pc[q] = "copy" /\ mem[q] = mem[p] => q = p

\* The free list has no frame that is mapped or in hand.
Free == \A f \in freelist : NotMapped(f) /\ \A p \in Proc : pc[p] \in {"copy", "dec"} => mem[p] # f

\* The count of a frame is at least the number of its holders.
Covered == \A f \in Frame : Cardinality(Holders(f)) <= ref[f]

\* The inductive invariant.
IInv ==
  /\ TypeOK /\ panicked = FALSE
  /\ Locals /\ Children /\ ReadOnlyIsCow /\ Private /\ Free /\ Covered

-----------------------------------------------------------------------------
(* Sequences.                                                               *)

\* Assigning an entry of a page table keeps its length.
LEMMA Replaced ==
  ASSUME NEW S, NEW s \in Seq(S), NEW i \in 1..Len(s), NEW e \in S
  PROVE  /\ [s EXCEPT ![i] = e] \in Seq(S)
         /\ Len([s EXCEPT ![i] = e]) = Len(s)
         /\ \A j \in 1..Len(s) : [s EXCEPT ![i] = e][j] = IF j = i THEN e ELSE s[j]
OBVIOUS

\* mappages of the next page adds one entry at the end.
LEMMA Appended ==
  ASSUME NEW S, NEW s \in Seq(S), NEW e \in S
  PROVE  /\ Append(s, e) \in Seq(S)
         /\ Len(Append(s, e)) = Len(s) + 1
         /\ \A j \in 1..(Len(s) + 1) : Append(s, e)[j] = IF j = Len(s) + 1 THEN e ELSE s[j]
OBVIOUS

\* deallocuvm of the last page drops one entry at the end.
LEMMA Dropped ==
  ASSUME NEW S, NEW s \in Seq(S), s # <<>>
  PROVE  /\ Unmapped(s) \in Seq(S)
         /\ Len(s) >= 1 /\ Len(Unmapped(s)) = Len(s) - 1
         /\ \A j \in 1..(Len(s) - 1) : Unmapped(s)[j] = s[j]
<1>1. Len(s) \in Nat /\ Len(s) >= 1
  BY EmptySeq
<1>2. Len(s) - 1 \in Int /\ 1 \in Int /\ \A j \in 1..(Len(s) - 1) : s[j] \in S
  BY <1>1
<1>3. /\ SubSeq(s, 1, Len(s) - 1) \in Seq(S)
      /\ Len(SubSeq(s, 1, Len(s) - 1)) = IF 1 <= Len(s) - 1 THEN Len(s) - 1 - 1 + 1 ELSE 0
      /\ \A j \in 1..(Len(s) - 1 - 1 + 1) : SubSeq(s, 1, Len(s) - 1)[j] = s[1 + j - 1]
  BY <1>2, SubSeqProperties
<1>4. Len(SubSeq(s, 1, Len(s) - 1)) = Len(s) - 1
  <2> DEFINE n == Len(s)
             m == Len(SubSeq(s, 1, n - 1))
  <2>1. n \in Nat /\ n >= 1 /\ m = IF 1 <= n - 1 THEN n - 1 - 1 + 1 ELSE 0
    BY <1>1, <1>3
  <2> SUFFICES m = n - 1
    OBVIOUS
  <2> HIDE DEF n, m
  <2> QED
    BY <2>1
<1>5. ASSUME NEW j \in 1..(Len(s) - 1) PROVE SubSeq(s, 1, Len(s) - 1)[j] = s[j]
  <2>1. j \in 1..(Len(s) - 1 - 1 + 1) /\ 1 + j - 1 = j
    BY <1>1
  <2> QED
    BY <1>3, <2>1
<1> QED
  BY <1>1, <1>3, <1>4, <1>5 DEF Unmapped

\* The same as an equation between functions.
LEMMA AppendIs ==
  ASSUME NEW S, NEW s \in Seq(S), NEW e \in S
  PROVE  Append(s, e) = [j \in 1..(Len(s) + 1) |-> IF j = Len(s) + 1 THEN e ELSE s[j]]
<1>1. /\ Append(s, e) \in Seq(S) /\ Len(Append(s, e)) = Len(s) + 1
      /\ \A j \in 1..(Len(s) + 1) : Append(s, e)[j] = IF j = Len(s) + 1 THEN e ELSE s[j]
  BY Appended
<1> DEFINE t == Append(s, e)
<1> HIDE DEF t
<1>2. t \in Seq(S) /\ Len(t) = Len(s) + 1 => t = [j \in 1..(Len(s) + 1) |-> t[j]]
  OBVIOUS
<1> QED
  BY <1>1, <1>2 DEF t

\* The same as an equation between functions.
LEMMA UnmappedIs ==
  ASSUME NEW S, NEW s \in Seq(S), s # <<>>
  PROVE  Unmapped(s) = [j \in 1..(Len(s) - 1) |-> s[j]]
<1>1. /\ Unmapped(s) \in Seq(S) /\ Len(Unmapped(s)) = Len(s) - 1
      /\ \A j \in 1..(Len(s) - 1) : Unmapped(s)[j] = s[j]
  BY Dropped
<1>2. DOMAIN Unmapped(s) = 1..(Len(s) - 1) /\ Unmapped(s) = [j \in DOMAIN Unmapped(s) |-> Unmapped(s)[j]]
  BY <1>1
<1> QED
  BY <1>1, <1>2

\* What the types say of the entries of a page table.
LEMMA EntryIs ==
  ASSUME TypeOK, NEW p \in Proc
  PROVE  /\ pte[p] \in Seq(Entry) /\ Len(pte[p]) \in Nat /\ DOMAIN pte[p] = 1..Len(pte[p])
         /\ \A i \in 1..Len(pte[p]) :
              /\ i \in 1..MaxPages /\ pte[p][i] \in Entry /\ pte[p][i].frame \in Frame
              /\ pte[p][i].w \in BOOLEAN /\ pte[p][i].c \in BOOLEAN
<1>1. pte[p] \in Seq(Entry) /\ Len(pte[p]) <= MaxPages
  BY DEF TypeOK
<1>2. \A i \in 1..Len(pte[p]) : pte[p][i] \in Entry /\ i \in 1..MaxPages
  BY <1>1, CowAssumption
<1> QED
  BY <1>1, <1>2 DEF Entry

-----------------------------------------------------------------------------
(* How many holders a frame has.                                            *)

\* Adding an element adds at most one.
LEMMA AtMostOneMore ==
  ASSUME NEW S, IsFiniteSet(S), NEW x
  PROVE  /\ IsFiniteSet(S \cup {x})
         /\ Cardinality(S \cup {x}) \in Nat /\ Cardinality(S) \in Nat
         /\ Cardinality(S \cup {x}) <= Cardinality(S) + 1
<1>1. Cardinality(S) \in Nat
  BY FS_CardinalityType
<1>2. IsFiniteSet(S \cup {x})
  BY FS_AddElement
<1>3. Cardinality(S \cup {x}) = IF x \in S THEN Cardinality(S) ELSE Cardinality(S) + 1
  BY FS_AddElement
<1> QED
  BY <1>1, <1>2, <1>3

\* A frame has finitely many holders, before and after a step.
LEMMA HoldersFinite ==
  ASSUME NEW f
  PROVE  /\ IsFiniteSet(Holders(f)) /\ Cardinality(Holders(f)) \in Nat
         /\ IsFiniteSet(Holders(f)') /\ Cardinality(Holders(f)') \in Nat
<1>1. IsFiniteSet(Proc \X (0..MaxPages))
  <2>1. IsFiniteSet(0..MaxPages)
    BY CowAssumption, FS_Interval, 0 \in Int, MaxPages \in Int
  <2> QED
    BY <2>1, CowAssumption, FS_Product
<1>2. Holders(f) \subseteq Proc \X (0..MaxPages) /\ Holders(f)' \subseteq Proc \X (0..MaxPages)
  BY DEF Holders
<1> QED
  BY <1>1, <1>2, FS_Subset, FS_CardinalityType

\* Being a holder, as a fact about one process and page.
LEMMA HolderIs ==
  ASSUME NEW f, NEW q \in Proc, NEW j \in 0..MaxPages
  PROVE  /\ <<q, j>> \in Holders(f) <=> Holds(q, j, f)
         /\ <<q, j>> \in Holders(f)' <=> Holds(q, j, f)'
BY DEF Holders

\* A frame nobody holds has no holders to count.
LEMMA NoHolder ==
  ASSUME NEW f, \A q \in Proc : \A j \in 0..MaxPages : ~Holds(q, j, f)
  PROVE  Cardinality(Holders(f)) = 0
<1>1. Holders(f) = {}
  BY DEF Holders
<1> QED
  BY <1>1, FS_EmptySet

\* A frame somebody holds is counted at least once.
LEMMA SomeHolder ==
  ASSUME NEW f, NEW p \in Proc, NEW i \in 0..MaxPages, Holds(p, i, f)
  PROVE  Cardinality(Holders(f)) >= 1
<1>1. Holders(f) # {}
  BY HolderIs
<1> QED
  BY <1>1, HoldersFinite, FS_EmptySet

\* A frame with two holders is counted at least twice.
LEMMA TwoHolders ==
  ASSUME NEW f, NEW p \in Proc, NEW i \in 0..MaxPages, Holds(p, i, f),
         NEW q \in Proc, NEW j \in 0..MaxPages, Holds(q, j, f), q # p \/ j # i
  PROVE  Cardinality(Holders(f)) >= 2
<1>1. <<p, i>> \in Holders(f) /\ <<q, j>> \in Holders(f) \ {<<p, i>>}
  BY HolderIs
<1>2. /\ Cardinality(Holders(f) \ {<<p, i>>}) = Cardinality(Holders(f)) - 1
      /\ Cardinality(Holders(f) \ {<<p, i>>}) \in Nat
  BY <1>1, HoldersFinite, FS_RemoveElement, FS_CardinalityType
<1>3. Cardinality(Holders(f) \ {<<p, i>>}) # 0
  BY <1>1, HoldersFinite, FS_RemoveElement, FS_EmptySet
<1> QED
  BY <1>1, <1>2, <1>3, HoldersFinite

\* A step that gives nobody the frame does not raise its number of holders.
LEMMA NoMoreHolders ==
  ASSUME NEW f, \A q \in Proc : \A j \in 0..MaxPages : Holds(q, j, f)' => Holds(q, j, f)
  PROVE  Cardinality(Holders(f)') <= Cardinality(Holders(f))
<1>1. Holders(f)' \subseteq Holders(f)
  BY DEF Holders
<1> QED
  BY <1>1, HoldersFinite, FS_Subset

\* A step after which one more holds the frame raises it by at most one.
LEMMA OneHolderMore ==
  ASSUME NEW f, NEW p \in Proc, NEW i \in 0..MaxPages,
         \A q \in Proc : \A j \in 0..MaxPages :
           Holds(q, j, f)' => Holds(q, j, f) \/ (q = p /\ j = i)
  PROVE  Cardinality(Holders(f)') <= Cardinality(Holders(f)) + 1
<1>1. Holders(f)' \subseteq Holders(f) \cup {<<p, i>>}
  BY DEF Holders
<1>2. /\ IsFiniteSet(Holders(f) \cup {<<p, i>>})
      /\ Cardinality(Holders(f) \cup {<<p, i>>}) <= Cardinality(Holders(f)) + 1
  BY HoldersFinite, AtMostOneMore
<1>3. Cardinality(Holders(f)') <= Cardinality(Holders(f) \cup {<<p, i>>})
  BY <1>1, <1>2, FS_Subset
<1> QED
  BY <1>2, <1>3, HoldersFinite, FS_CardinalityType

\* A step that takes the frame from a holder lowers it.
LEMMA OneHolderLess ==
  ASSUME NEW f, NEW p \in Proc, NEW i \in 0..MaxPages, Holds(p, i, f),
         \A q \in Proc : \A j \in 0..MaxPages :
           Holds(q, j, f)' => Holds(q, j, f) /\ (q # p \/ j # i)
  PROVE  Cardinality(Holders(f)') <= Cardinality(Holders(f)) - 1
<1>1. Holders(f)' \subseteq Holders(f) \ {<<p, i>>}
  BY DEF Holders
<1>2. /\ IsFiniteSet(Holders(f) \ {<<p, i>>})
      /\ Cardinality(Holders(f) \ {<<p, i>>}) = Cardinality(Holders(f)) - 1
  BY HoldersFinite, HolderIs, FS_RemoveElement
<1>3. Cardinality(Holders(f)') <= Cardinality(Holders(f) \ {<<p, i>>})
  BY <1>1, <1>2, FS_Subset
<1> QED
  BY <1>2, <1>3, HoldersFinite

\* A step that passes the frame on within a process does not raise it.
LEMMA HolderReplaced ==
  ASSUME NEW f, NEW p \in Proc, NEW i \in 0..MaxPages, Holds(p, i, f), NEW k \in 0..MaxPages,
         \A q \in Proc : \A j \in 0..MaxPages :
           Holds(q, j, f)' => (Holds(q, j, f) /\ (q # p \/ j # i)) \/ (q = p /\ j = k)
  PROVE  Cardinality(Holders(f)') <= Cardinality(Holders(f))
<1> DEFINE R == Holders(f) \ {<<p, i>>}
<1>1. Holders(f)' \subseteq R \cup {<<p, k>>}
  BY DEF Holders
<1>2. IsFiniteSet(R) /\ Cardinality(R) = Cardinality(Holders(f)) - 1
  BY HoldersFinite, HolderIs, FS_RemoveElement
<1> HIDE DEF R
<1>3. IsFiniteSet(R \cup {<<p, k>>}) /\ Cardinality(R \cup {<<p, k>>}) <= Cardinality(R) + 1
  BY <1>2, AtMostOneMore
<1>4. Cardinality(Holders(f)') <= Cardinality(R \cup {<<p, k>>})
  BY <1>1, <1>3, FS_Subset
<1> QED
  BY <1>2, <1>3, <1>4, HoldersFinite, FS_CardinalityType

\* Without new holders the counts still cover.
LEMMA CoveredKept ==
  ASSUME IInv, ref' = ref,
         \A f \in Frame : \A q \in Proc : \A j \in 0..MaxPages : Holds(q, j, f)' => Holds(q, j, f)
  PROVE  Covered'
<1> SUFFICES ASSUME NEW f \in Frame PROVE Cardinality(Holders(f)') <= ref'[f]
  BY DEF Covered
<1>1. Cardinality(Holders(f)') <= Cardinality(Holders(f))
  BY NoMoreHolders
<1>2. Cardinality(Holders(f)) <= ref[f] /\ ref[f] \in Nat
  BY DEF IInv, TypeOK, Covered
<1> QED
  BY <1>1, <1>2, HoldersFinite

\* A step that touches no fork and no child in the making keeps Children.
LEMMA ChildrenKept ==
  ASSUME IInv,
         \A r \in Proc : pc'[r] \in Forking =>
           /\ pc'[r] = pc[r] /\ child'[r] = child[r] /\ page'[r] = page[r] /\ pte'[r] = pte[r]
           /\ pc'[child[r]] = "embryo" /\ pte'[child[r]] = pte[child[r]]
  PROVE  Children'
<1>1. ASSUME NEW r \in Proc, pc'[r] \in Forking
      PROVE  /\ child'[r] \in Proc /\ pc'[child'[r]] = "embryo"
             /\ pc'[r] = "fork" =>
                  Len(pte'[child'[r]]) = page'[r] - 1 /\ page'[r] <= Len(pte'[r]) + 1
             /\ pc'[r] = "forkref" => Len(pte'[child'[r]]) = page'[r]
             /\ pc'[r] \in {"fork", "forkref"} =>
                  \A j \in 1..Len(pte'[child'[r]]) : pte'[child'[r]][j].frame = pte'[r][j].frame
  <2>1. /\ pc'[r] = pc[r] /\ child'[r] = child[r] /\ page'[r] = page[r] /\ pte'[r] = pte[r]
        /\ pc'[child[r]] = "embryo" /\ pte'[child[r]] = pte[child[r]]
    BY <1>1
  <2> QED
    BY <1>1, <2>1 DEF IInv, Children
<1>2. \A r, q \in Proc : pc'[r] \in Forking /\ pc'[q] \in Forking /\ child'[r] = child'[q] => r = q
  BY DEF IInv, Children
<1> QED
  BY <1>1, <1>2 DEF Children, Forking

\* A step that leaves counts and page tables alone keeps what is said of frames.
LEMMA PagesUntouched ==
  ASSUME IInv, UNCHANGED <<freelist, ref, pte, mem>>,
         \A q \in Proc :
           /\ pc'[q] = "fault" => pc[q] = "fault" /\ page'[q] = page[q] /\ count'[q] = count[q]
           /\ pc'[q] = "copy" => pc[q] = "copy"
           /\ pc'[q] = "dec" => pc[q] = "dec"
           /\ pc[q] = "forkref" => pc'[q] = "forkref" /\ child'[q] = child[q] /\ page'[q] = page[q]
  PROVE  ReadOnlyIsCow' /\ Private' /\ Free' /\ Covered'
<1>1. ReadOnlyIsCow'
  BY DEF IInv, ReadOnlyIsCow
<1>2. \A q, j, f : Mapped(q, j, f)' <=> Mapped(q, j, f)
  BY DEF Mapped
<1>3. Private'
  <2>1. \A q, j, f : OnlyMapped(q, j, f)' <=> OnlyMapped(q, j, f)
    BY <1>2 DEF OnlyMapped
  <2>2. \A f : NotMapped(f)' <=> NotMapped(f)
    BY <1>2 DEF NotMapped
  <2>3. \A q \in Proc : \A i \in 1..Len(pte'[q]) :
          pte'[q][i].w = TRUE => OnlyMapped(q, i, pte[q][i].frame)'
    BY <2>1 DEF IInv, Private
  <2>4. \A q \in Proc : pc'[q] = "fault" /\ count'[q] = 1 =>
          OnlyMapped(q, page[q], Mine(q).frame)'
    BY <2>1 DEF IInv, Private, Mine
  <2>5. \A q \in Proc : pc'[q] = "copy" =>
          NotMapped(mem[q])' /\ \A r \in Proc : pc'[r] = "copy" /\ mem'[r] = mem'[q] => r = q
    BY <2>2 DEF IInv, Private
  <2> QED
    BY <2>3, <2>4, <2>5 DEF Private
<1>4. Free'
  BY <1>2 DEF IInv, Free, NotMapped
<1>5. \A q, j : InTransit(q, j) => InTransit(q, j)'
  BY DEF InTransit
<1>6. \A f \in Frame : \A q \in Proc : \A j \in 0..MaxPages : Holds(q, j, f)' => Holds(q, j, f)
  BY <1>2, <1>5 DEF Holds
<1> QED
  BY <1>1, <1>3, <1>4, <1>6, CoveredKept

-----------------------------------------------------------------------------
(* One lemma per action: it keeps every part of the invariant.              *)

\* A user write changes contents only.
LEMMA WriteIInv ==
  ASSUME NEW p \in Proc, NEW i \in 1..MaxPages, NEW v \in Value, IInv, Write(p, i, v)
  PROVE  IInv'
<1> USE DEF Write, kmem, frames
<1>1. TypeOK'
  BY DEF IInv, TypeOK
<1>2. Locals' /\ Children'
  BY DEF IInv, Locals, Children, Mine
<1>3. ReadOnlyIsCow' /\ Private' /\ Free' /\ Covered'
  BY PagesUntouched DEF IInv
<1> QED
  BY <1>1, <1>2, <1>3 DEF IInv

\* handle_page_fault up to get_ref_count: a count of 1 means that the page is
\* mapped by nobody else, now.
LEMMA FaultIInv ==
  ASSUME NEW p \in Proc, NEW i \in 1..MaxPages, IInv, Fault(p, i)
  PROVE  IInv'
<1> USE DEF Fault, Goto, kmem
<1>a. i \in 1..Len(pte[p]) /\ pte[p][i].frame \in Frame /\ pte[p][i].w = FALSE
  <2>1. i \in 1..Len(pte[p]) /\ pte[p][i].frame \in Frame /\ pte[p][i].w \in BOOLEAN
    BY EntryIs DEF IInv
  <2> QED
    BY <2>1
<1>b. ~InTransit(p, i)
  BY DEF IInv, TypeOK, Children, Forking, InTransit
<1>c. Holds(p, i, pte[p][i].frame)
  BY <1>a, <1>b DEF Holds, Mapped
<1>d. ref[pte[p][i].frame] \in Nat /\ ref[pte[p][i].frame] >= 1
  BY <1>a, <1>c, SomeHolder, HoldersFinite DEF IInv, TypeOK, Covered
<1>1. TypeOK'
  BY <1>d, CowAssumption DEF IInv, TypeOK, Points
<1>2. Locals'
  BY <1>a, <1>d DEF IInv, TypeOK, Locals, Mine
<1>3. Children'
  BY DEF IInv, TypeOK, Children, Forking
<1>4. ReadOnlyIsCow'
  BY DEF IInv, ReadOnlyIsCow
<1>5. ref[pte[p][i].frame] = 1 => OnlyMapped(p, i, pte[p][i].frame)
  <2> SUFFICES ASSUME ref[pte[p][i].frame] = 1, NEW q \in Proc, NEW j \in 1..MaxPages,
                      Mapped(q, j, pte[p][i].frame), q # p \/ j # i
               PROVE  FALSE
    BY DEF OnlyMapped
  <2>1. \A r \in Proc : \A k \in 1..MaxPages :
          Holds(r, k, pte[p][i].frame) => r = p /\ k = i
    BY <1>a, <1>c, TwoHolders, HoldersFinite, SMTT(30) DEF IInv, TypeOK, Covered
  <2>2. InTransit(q, j)
    BY <2>1 DEF Holds
  <2>3. PICK r \in Proc : pc[r] = "forkref" /\ child[r] = q /\ page[r] = j
    BY <2>2 DEF InTransit
  <2>4. page[r] \in 1..Len(pte[r]) /\ page[r] \in 1..MaxPages /\ pte[r][page[r]].frame = pte[p][i].frame
    BY <2>3 DEF IInv, TypeOK, Locals, Children, Mapped
  <2>5. ~InTransit(r, page[r])
    BY <2>3 DEF IInv, Children, InTransit, Forking
  <2>6. Holds(r, page[r], pte[p][i].frame)
    BY <2>4, <2>5 DEF Holds, Mapped
  <2> QED
    BY <2>1, <2>3, <2>4, <2>6
<1>6. Private'
  BY <1>5, SMTT(30) DEF IInv, TypeOK, Private, OnlyMapped, NotMapped, Mapped, Mine
<1>7. Free'
  BY DEF IInv, TypeOK, Free, NotMapped, Mapped
<1>8. \A f : \A q \in Proc : \A j \in 0..MaxPages : Holds(q, j, f)' => Holds(q, j, f)
  BY DEF IInv, TypeOK, Holds, Mapped, InTransit
<1>9. Covered'
  BY <1>8, NoMoreHolders, HoldersFinite DEF IInv, TypeOK, Covered
<1> QED
  BY <1>1, <1>2, <1>3, <1>4, <1>6, <1>7, <1>9 DEF IInv

\* kalloc of the copy: a free frame is held by nobody, so one holder is covered.
LEMMA FaultAllocIInv ==
  ASSUME NEW p \in Proc, IInv, FaultAlloc(p)
  PROVE  IInv'
<1> USE DEF FaultAlloc, Goto, Leave, kmem
<1>1. CASE \E f \in Frame : Kalloc(f) /\ mem' = [mem EXCEPT ![p] = f] /\ Goto(p, "copy")
                              /\ UNCHANGED <<page, count>>
  <2>1. PICK f \in Frame : Kalloc(f) /\ mem' = [mem EXCEPT ![p] = f] /\ Goto(p, "copy")
                             /\ UNCHANGED <<page, count>>
    BY <1>1
  <2> USE <2>1 DEF Kalloc
  <2>2. TypeOK'
    BY CowAssumption DEF IInv, TypeOK, Points
  <2>3. Locals'
    BY DEF IInv, TypeOK, Locals, Mine
  <2>4. Children'
    BY DEF IInv, TypeOK, Children, Forking
  <2>5. ReadOnlyIsCow'
    BY DEF IInv, ReadOnlyIsCow
  <2>6. NotMapped(f) /\ \A q \in Proc : pc[q] \in {"copy", "dec"} => mem[q] # f
    BY DEF IInv, Free
  <2>7. Private'
    BY <2>6, SMTT(30) DEF IInv, TypeOK, Private, OnlyMapped, NotMapped, Mapped, Mine
  <2>8. Free'
    BY DEF IInv, TypeOK, Free, NotMapped, Mapped
  <2>9. Covered'
    <3> SUFFICES ASSUME NEW g \in Frame PROVE Cardinality(Holders(g)') <= ref'[g]
      BY DEF Covered
    <3>1. CASE g = f
      <4>1. \A q \in Proc : \A j \in 0..MaxPages : ~Holds(q, j, g)
        BY <3>1, <2>6 DEF Holds, NotMapped
      <4>2. 0 \in 0..MaxPages /\ \A q \in Proc : \A j \in 0..MaxPages :
              Holds(q, j, g)' => Holds(q, j, g) \/ (q = p /\ j = 0)
        BY <3>1, CowAssumption DEF IInv, TypeOK, Holds, Mapped, InTransit
      <4>3. Cardinality(Holders(g)') <= 0 + 1
        BY <4>1, <4>2, NoHolder, OneHolderMore
      <4> QED
        BY <4>3, <3>1 DEF IInv, TypeOK
    <3>2. CASE g # f
      <4>1. \A q \in Proc : \A j \in 0..MaxPages : Holds(q, j, g)' => Holds(q, j, g)
        BY <3>2 DEF IInv, TypeOK, Holds, Mapped, InTransit
      <4>2. Cardinality(Holders(g)') <= Cardinality(Holders(g))
        BY <4>1, NoMoreHolders
      <4> QED
        BY <4>2, <3>2, HoldersFinite DEF IInv, TypeOK, Covered
    <3> QED
      BY <3>1, <3>2
  <2> QED
    BY <2>2, <2>3, <2>4, <2>5, <2>7, <2>8, <2>9 DEF IInv
<1>2. CASE freelist = {} /\ Leave(p, "dying") /\ UNCHANGED <<kmem, mem>>
  <2> USE <1>2
  <2>2. TypeOK'
    BY CowAssumption DEF IInv, TypeOK, Points
  <2>3. Locals'
    BY DEF IInv, TypeOK, Locals, Mine
  <2>4. Children'
    BY DEF IInv, TypeOK, Children, Forking
  <2>5. ReadOnlyIsCow' /\ Private' /\ Free' /\ Covered'
    BY PagesUntouched DEF IInv, TypeOK
  <2> QED
    BY <2>2, <2>3, <2>4, <2>5 DEF IInv
<1> QED
  BY <1>1, <1>2

\* The copy goes into the page table and the old frame into the hand: both keep
\* their number of holders.
LEMMA FaultCopyIInv ==
  ASSUME NEW p \in Proc, IInv, FaultCopy(p)
  PROVE  IInv'
<1> USE DEF FaultCopy, Goto, kmem
<1> DEFINE i == page[p]
           old == pte[p][i].frame
           e == [frame |-> mem[p], w |-> TRUE, c |-> FALSE]
<1>a. i \in 1..Len(pte[p]) /\ i \in 1..MaxPages /\ old \in Frame /\ mem[p] \in Frame /\ e \in Entry
  BY EntryIs DEF IInv, Locals, Entry
<1>b. /\ mem[p] # old /\ NotMapped(mem[p])
      /\ \A q \in Proc : pc[q] = "copy" /\ mem[q] = mem[p] => q = p
  BY <1>a DEF IInv, Private, NotMapped, Mapped
<1>c. pte[p] \in Seq(Entry) /\ pte' = [pte EXCEPT ![p] = [pte[p] EXCEPT ![i] = e]]
  BY EntryIs DEF IInv
<1>d. /\ pte' \in [Proc -> Seq(Entry)] /\ \A q \in Proc : Len(pte'[q]) = Len(pte[q])
      /\ \A q \in Proc : \A j \in 1..Len(pte[q]) :
           pte'[q][j] = IF q = p /\ j = i THEN e ELSE pte[q][j]
  BY <1>a, <1>c, Replaced, EntryIs DEF IInv, TypeOK
<1>e. mem' = [mem EXCEPT ![p] = old] /\ pc' = [pc EXCEPT ![p] = "dec"]
  BY DEF Mine
<1>f. mem \in [Proc -> Frame \cup {None}] /\ pc \in [Proc -> Points]
  BY DEF IInv, TypeOK
<1> HIDE DEF FaultCopy, Goto, old, e, i
<1>g. /\ UNCHANGED <<freelist, ref, page, count, child, panicked>> /\ pc[p] = "copy" /\ e.frame = mem[p]
      /\ e.w = TRUE /\ e.c = FALSE /\ page[p] = i
      /\ content' = [content EXCEPT ![mem[p]] = content[old]]
  BY DEF FaultCopy, Mine, e, i, old
<1>1. TypeOK'
  BY <1>a, <1>d, <1>e, <1>g DEF IInv, TypeOK, Points
<1>2. Locals'
  BY <1>a, <1>d, <1>e, <1>f, <1>g, SMTT(30) DEF IInv, Locals, Mine
<1>3. Children'
  <2>1. ASSUME NEW q \in Proc, pc[q] \in {"fork", "forkref"}
        PROVE  q # p /\ child[q] # p
    BY <2>1, <1>g DEF IInv, Children, Forking
  <2>2. \A q \in Proc : pc'[q] \in Forking <=> pc[q] \in Forking
    BY <1>e, <1>f, <1>g DEF Forking
  <2>3. \A q \in Proc : q # p => pc'[q] = pc[q] /\ pte'[q] = pte[q]
    BY <1>c, <1>e, <1>f, <1>d DEF IInv, TypeOK
  <2>4. p \notin {child[q] : q \in {r \in Proc : pc[r] \in Forking}} /\ pc[p] \notin Forking
    BY <1>g DEF IInv, Children, Forking
  <2> QED
    BY <2>1, <2>2, <2>3, <2>4, <1>g, <1>e, <1>f DEF IInv, Children, Forking
<1>4. ReadOnlyIsCow'
  BY <1>d, <1>g DEF IInv, ReadOnlyIsCow
<1>5. \A q \in Proc : \A j \in 1..MaxPages : \A f :
        Mapped(q, j, f)' => IF q = p /\ j = i THEN f = mem[p] ELSE Mapped(q, j, f) /\ f # mem[p]
  BY <1>a, <1>b, <1>d, <1>g DEF Mapped, NotMapped
<1>6. Private'
  <2>1. ASSUME NEW q \in Proc, NEW j \in 1..Len(pte'[q]), pte'[q][j].w = TRUE
        PROVE  OnlyMapped(q, j, pte[q][j].frame)'
    <3>1. j \in 1..Len(pte[q]) /\ j \in 1..MaxPages
      BY <2>1, <1>d, EntryIs DEF IInv
    <3>2. CASE q = p /\ j = i
      BY <3>2, <1>5, <1>d, <1>a, <1>g DEF OnlyMapped
    <3>3. CASE q # p \/ j # i
      <4>1. pte'[q][j] = pte[q][j] /\ pte[q][j].frame # mem[p]
        BY <3>1, <3>3, <1>b, <1>d DEF NotMapped, Mapped
      <4>2. OnlyMapped(q, j, pte[q][j].frame)
        BY <2>1, <3>1, <4>1 DEF IInv, Private
      <4> QED
        BY <4>1, <4>2, <1>5 DEF OnlyMapped
    <3> QED
      BY <3>2, <3>3
  <2>2. ASSUME NEW q \in Proc, pc'[q] = "fault", count'[q] = 1
        PROVE  OnlyMapped(q, page[q], Mine(q).frame)'
    <3>1. /\ q # p /\ page[q] \in 1..Len(pte[q]) /\ page[q] \in 1..MaxPages
          /\ OnlyMapped(q, page[q], pte[q][page[q]].frame)
      BY <2>2, <1>e, <1>f, <1>g, EntryIs DEF IInv, Private, Locals, Mine
    <3>2. pte'[q][page[q]] = pte[q][page[q]] /\ pte[q][page[q]].frame # mem[p]
      BY <3>1, <1>b, <1>d DEF NotMapped, Mapped
    <3> QED
      BY <3>1, <3>2, <1>5, <1>g DEF OnlyMapped, Mine
  <2>3. ASSUME NEW q \in Proc, pc'[q] = "copy"
        PROVE  NotMapped(mem[q])' /\ \A r \in Proc : pc'[r] = "copy" /\ mem'[r] = mem'[q] => r = q
    BY <2>3, <1>5, <1>b, <1>e, <1>f, <1>g DEF IInv, Private, NotMapped
  <2> QED
    BY <2>1, <2>2, <2>3 DEF Private
<1>7. Free'
  <2>1. mem[p] \notin freelist
    BY <1>g DEF IInv, Free
  <2>2. old \notin freelist
    BY <1>a DEF IInv, Free, NotMapped, Mapped, old
  <2>3. ASSUME NEW f \in freelist PROVE NotMapped(f)'
    BY <2>1, <1>5 DEF IInv, Free, NotMapped
  <2> QED
    BY <2>2, <2>3, <1>e, <1>f, <1>g DEF IInv, Free
<1>8. Covered'
  <2> SUFFICES ASSUME NEW f \in Frame PROVE Cardinality(Holders(f)') <= ref'[f]
    BY DEF Covered
  <2>0. 0 \in 0..MaxPages /\ i \in 0..MaxPages /\ i # 0 /\ ~InTransit(p, i)
    BY <1>a, <1>g, CowAssumption DEF IInv, Children, InTransit, Forking
  <2>1. /\ Holds(p, 0, mem[p]) /\ Holds(p, i, old)
        /\ \A q \in Proc : \A j \in 0..MaxPages :
             Holds(q, j, f)' => IF q = p /\ j = 0 THEN f = old
                                ELSE IF q = p /\ j = i THEN f = mem[p]
                                ELSE Holds(q, j, f)
    <3>1. Holds(p, 0, mem[p]) /\ Holds(p, i, old)
      BY <2>0, <1>a, <1>g DEF Holds, Mapped, old
    <3>2. \A q \in Proc : \A j \in 1..MaxPages : InTransit(q, j) => InTransit(q, j)'
      BY <1>e, <1>f, <1>g DEF InTransit
    <3>3. ASSUME NEW q \in Proc, Holds(q, 0, f)' PROVE IF q = p THEN f = old ELSE Holds(q, 0, f)
      BY <3>3, <1>e, <1>f DEF Holds
    <3>4. ASSUME NEW q \in Proc, NEW j \in 1..MaxPages, Holds(q, j, f)'
          PROVE  IF q = p /\ j = i THEN f = mem[p] ELSE Holds(q, j, f)
      BY <3>4, <3>2, <1>5 DEF Holds
    <3> QED
      BY <3>1, <3>3, <3>4
  <2>2. CASE f = mem[p]
    <3>1. \A q \in Proc : \A j \in 0..MaxPages :
            Holds(q, j, f)' => (Holds(q, j, f) /\ (q # p \/ j # 0)) \/ (q = p /\ j = i)
      BY <2>1, <2>2, <1>b
    <3>2. Cardinality(Holders(f)') <= Cardinality(Holders(f))
      BY <3>1, <2>0, <2>1, <2>2, HolderReplaced
    <3> QED
      BY <3>2, <1>g, HoldersFinite DEF IInv, TypeOK, Covered
  <2>3. CASE f = old
    <3>1. \A q \in Proc : \A j \in 0..MaxPages :
            Holds(q, j, f)' => (Holds(q, j, f) /\ (q # p \/ j # i)) \/ (q = p /\ j = 0)
      BY <2>1, <2>3, <1>b
    <3>2. Cardinality(Holders(f)') <= Cardinality(Holders(f))
      BY <3>1, <2>0, <2>1, <2>3, HolderReplaced
    <3> QED
      BY <3>2, <1>g, HoldersFinite DEF IInv, TypeOK, Covered
  <2>4. CASE f # old /\ f # mem[p]
    <3>1. \A q \in Proc : \A j \in 0..MaxPages : Holds(q, j, f)' => Holds(q, j, f)
      BY <2>1, <2>4
    <3>2. Cardinality(Holders(f)') <= Cardinality(Holders(f))
      BY <3>1, NoMoreHolders
    <3> QED
      BY <3>2, <1>g, HoldersFinite DEF IInv, TypeOK, Covered
  <2> QED
    BY <2>2, <2>3, <2>4
<1> QED
  BY <1>1, <1>2, <1>3, <1>4, <1>6, <1>7, <1>8, <1>g DEF IInv

\* dec_ref_count pays for the frame that was in hand.
LEMMA FaultDecIInv ==
  ASSUME NEW p \in Proc, IInv, FaultDec(p)
  PROVE  IInv'
<1> USE DEF FaultDec, Uncounted, Goto
<1>a. mem[p] \in Frame /\ 0 \in 0..MaxPages /\ Holds(p, 0, mem[p])
  BY CowAssumption DEF IInv, Locals, Holds
<1>b. ref[mem[p]] >= 1 /\ ref[mem[p]] \in Nat
  BY <1>a, SomeHolder, HoldersFinite DEF IInv, TypeOK, Covered
<1>1. TypeOK'
  BY <1>a, <1>b DEF IInv, TypeOK, Points
<1>2. Locals'
  BY DEF IInv, TypeOK, Locals, Mine
<1>3. Children'
  BY DEF IInv, TypeOK, Children, Forking
<1>4. ReadOnlyIsCow'
  BY DEF IInv, ReadOnlyIsCow
<1>5. Private'
  BY DEF IInv, TypeOK, Private, OnlyMapped, NotMapped, Mapped, Mine
<1>6. Free'
  BY DEF IInv, TypeOK, Free, NotMapped, Mapped
<1>7. Covered'
  <2> SUFFICES ASSUME NEW f \in Frame PROVE Cardinality(Holders(f)') <= ref'[f]
    BY DEF Covered
  <2>1. \A q \in Proc : \A j \in 0..MaxPages :
          Holds(q, j, f)' => Holds(q, j, f) /\ (q # p \/ j # 0)
    BY DEF IInv, TypeOK, Holds, Mapped, InTransit
  <2>2. CASE f = mem[p]
    <3>1. Cardinality(Holders(f)') <= Cardinality(Holders(f)) - 1
      BY <2>1, <2>2, <1>a, OneHolderLess
    <3> QED
      BY <3>1, <2>2, <1>b, HoldersFinite DEF IInv, TypeOK, Covered
  <2>3. CASE f # mem[p]
    <3>1. Cardinality(Holders(f)') <= Cardinality(Holders(f))
      BY <2>1, NoMoreHolders
    <3> QED
      BY <3>1, <2>3, HoldersFinite DEF IInv, TypeOK, Covered
  <2> QED
    BY <2>2, <2>3
<1> QED
  BY <1>1, <1>2, <1>3, <1>4, <1>5, <1>6, <1>7 DEF IInv

\* inc_ref_count of the copy only adds to a count.
LEMMA FaultIncIInv ==
  ASSUME NEW p \in Proc, IInv, FaultInc(p)
  PROVE  IInv'
<1> USE DEF FaultInc, Leave, Goto
<1>a. Mine(p).frame \in Frame
  BY EntryIs DEF IInv, Locals, Mine
<1>1. TypeOK'
  BY <1>a, CowAssumption DEF IInv, TypeOK, Points
<1>2. Locals'
  BY DEF IInv, TypeOK, Locals, Mine
<1>3. Children'
  BY DEF IInv, TypeOK, Children, Forking
<1>4. ReadOnlyIsCow'
  BY DEF IInv, ReadOnlyIsCow
<1>5. Private'
  BY SMTT(30) DEF IInv, TypeOK, Private, OnlyMapped, NotMapped, Mapped, Mine
<1>6. Free'
  BY DEF IInv, TypeOK, Free, NotMapped, Mapped
<1>7. Covered'
  <2> SUFFICES ASSUME NEW f \in Frame PROVE Cardinality(Holders(f)') <= ref'[f]
    BY DEF Covered
  <2>1. \A q \in Proc : \A j \in 0..MaxPages : Holds(q, j, f)' => Holds(q, j, f)
    BY DEF IInv, TypeOK, Holds, Mapped, InTransit
  <2>2. Cardinality(Holders(f)') <= Cardinality(Holders(f))
    BY <2>1, NoMoreHolders
  <2>3. ref[f] \in Nat /\ ref'[f] >= ref[f]
    BY <1>a DEF IInv, TypeOK
  <2> QED
    BY <2>2, <2>3, HoldersFinite, <1>1 DEF IInv, TypeOK, Covered
<1> QED
  BY <1>1, <1>2, <1>3, <1>4, <1>5, <1>6, <1>7 DEF IInv

\* The only reference becomes writable; the panic is not reached, since a
\* read-only page has PTE_C and the count read was not 0.
LEMMA FaultOwnIInv ==
  ASSUME NEW p \in Proc, IInv, FaultOwn(p)
  PROVE  IInv'
<1> DEFINE i == page[p]
           e == [pte[p][i] EXCEPT !.w = TRUE]
<1>a. /\ i \in 1..Len(pte[p]) /\ i \in 1..MaxPages /\ pte[p][i] \in Entry /\ e \in Entry
      /\ e.frame = pte[p][i].frame /\ e.w = TRUE /\ e.c = pte[p][i].c
  <2>1. i \in 1..Len(pte[p]) /\ i \in 1..MaxPages /\ pte[p][i] \in Entry
    BY EntryIs DEF IInv, Locals, FaultOwn
  <2> HIDE DEF i
  <2> QED
    BY <2>1 DEF Entry
<1>b. count[p] = 1 /\ Mine(p).c = TRUE /\ OnlyMapped(p, i, pte[p][i].frame)
  <2>1. pc[p] = "fault" /\ ~(count[p] > 1) /\ count[p] \in Nat /\ count[p] >= 1
    BY DEF IInv, TypeOK, Locals, FaultOwn, Shared
  <2>2. count[p] = 1
    BY <2>1
  <2> QED
    BY <2>1, <2>2, <1>a DEF IInv, Private, ReadOnlyIsCow, Mine, Locals
<1>c. /\ pte[p] \in Seq(Entry) /\ pte' = [pte EXCEPT ![p] = [pte[p] EXCEPT ![i] = e]]
      /\ Leave(p, "user") /\ panicked' = panicked
      /\ UNCHANGED <<freelist, ref, content, mem, child>> /\ pc[p] = "fault" /\ page[p] = i
  BY <1>b, EntryIs DEF IInv, FaultOwn, kmem
<1>d. /\ pte' \in [Proc -> Seq(Entry)] /\ \A q \in Proc : Len(pte'[q]) = Len(pte[q])
      /\ \A q \in Proc : \A j \in 1..Len(pte[q]) :
           pte'[q][j] = IF q = p /\ j = i THEN e ELSE pte[q][j]
  BY <1>a, <1>c, Replaced, EntryIs DEF IInv, TypeOK
<1>e. \A q \in Proc : \A j \in 1..Len(pte[q]) : pte'[q][j].frame = pte[q][j].frame
  BY <1>a, <1>d, ZenonT(30)
<1>f. pc \in [Proc -> Points] /\ count \in [Proc -> Nat] /\ page \in [Proc -> 1..(MaxPages + 1)]
  BY DEF IInv, TypeOK
<1> HIDE DEF e, i
<1> USE DEF Leave, Goto
<1>1. TypeOK'
  BY <1>c, <1>d, CowAssumption DEF IInv, TypeOK, Points
<1>2. Locals'
  BY <1>c, <1>d, <1>f DEF IInv, Locals, Mine
<1>3. Children'
  <2>1. p \notin {child[q] : q \in {r \in Proc : pc[r] \in Forking}} /\ pc[p] \notin Forking
    BY <1>c DEF IInv, Children, Forking
  <2>2. \A q \in Proc : q # p => pc'[q] = pc[q] /\ page'[q] = page[q] /\ pte'[q] = pte[q]
    BY <1>c, <1>f, <1>d DEF IInv, TypeOK
  <2>3. \A q \in Proc : pc'[q] \in Forking <=> pc[q] \in Forking
    BY <2>1, <2>2, <1>c, <1>f DEF Forking
  <2> QED
    BY <2>1, <2>2, <2>3, <1>c, <1>f DEF IInv, Children, Forking
<1>4. ReadOnlyIsCow'
  BY <1>a, <1>d DEF IInv, ReadOnlyIsCow
<1>5. \A q \in Proc : \A j \in 1..MaxPages : \A f : Mapped(q, j, f)' <=> Mapped(q, j, f)
  BY <1>d, <1>e DEF Mapped
<1>6. Private'
  <2>1. ASSUME NEW q \in Proc, NEW j \in 1..Len(pte'[q]), pte'[q][j].w = TRUE
        PROVE  OnlyMapped(q, j, pte[q][j].frame)'
    <3>1. j \in 1..Len(pte[q]) /\ pte'[q][j].frame = pte[q][j].frame
      BY <1>d, <1>e
    <3>2. OnlyMapped(q, j, pte[q][j].frame)
      <4>1. CASE q = p /\ j = i
        BY <1>b, <4>1
      <4>2. CASE ~(q = p /\ j = i)
        <5>1. pte'[q][j] = pte[q][j]
          BY <1>d, <3>1, <4>2
        <5> QED
          BY <2>1, <3>1, <5>1 DEF IInv, Private
      <4> QED
        BY <4>1, <4>2
    <3> QED
      BY <1>5, <3>1, <3>2 DEF OnlyMapped
  <2>2. ASSUME NEW q \in Proc, pc'[q] = "fault", count'[q] = 1
        PROVE  OnlyMapped(q, page[q], Mine(q).frame)'
    BY <2>2, <1>5, <1>c, <1>d, <1>e, <1>f DEF IInv, Private, OnlyMapped, Mine, Locals
  <2>3. ASSUME NEW q \in Proc, pc'[q] = "copy"
        PROVE  NotMapped(mem[q])' /\ \A r \in Proc : pc'[r] = "copy" /\ mem'[r] = mem'[q] => r = q
    BY <2>3, <1>5, <1>c, <1>f DEF IInv, Private, NotMapped
  <2> QED
    BY <2>1, <2>2, <2>3 DEF Private
<1>7. Free'
  BY <1>5, <1>c, <1>f DEF IInv, Free, NotMapped
<1>8. Covered'
  <2>1. \A q \in Proc : \A j \in 0..MaxPages : \A f : Holds(q, j, f)' => Holds(q, j, f)
    BY <1>5, <1>c, <1>f DEF Holds, InTransit
  <2> QED
    BY <2>1, <1>c, CoveredKept
<1> QED
  BY <1>1, <1>2, <1>3, <1>4, <1>6, <1>7, <1>8, <1>c DEF IInv

\* fork takes an entry that has no pages.
LEMMA ForkStartIInv ==
  ASSUME NEW p \in Proc, NEW q \in Proc, IInv, ForkStart(p, q)
  PROVE  IInv'
<1> USE DEF ForkStart, kmem
<1>a. q # p /\ pte[q] = <<>> /\ Len(pte[q]) = 0 /\ Len(pte[p]) \in Nat
  BY EntryIs DEF IInv, Locals
<1>b. pc' \in [Proc -> Points] /\ \A r \in Proc :
        pc'[r] = IF r = p THEN "fork" ELSE IF r = q THEN "embryo" ELSE pc[r]
  BY <1>a DEF IInv, TypeOK, Points
<1>1. TypeOK'
  <2>1. page' \in [Proc -> 1..(MaxPages + 1)]
    BY <1>b, CowAssumption DEF IInv, TypeOK
  <2> QED
    BY <1>b, <2>1 DEF IInv, TypeOK
<1>2. Locals'
  BY <1>b DEF IInv, TypeOK, Locals, Mine
<1>3. Children'
  <2>1. \A r \in Proc : pc[r] \in Forking => child[r] # q /\ child[r] # p
    BY DEF IInv, Children, Forking
  <2>2. \A r \in Proc : pc'[r] \in Forking <=> pc[r] \in Forking \/ r = p
    BY <1>a, <1>b DEF Forking
  <2> QED
    BY <1>a, <1>b, <2>1, <2>2, SMTT(30) DEF IInv, TypeOK, Children, Forking
<1>4. ReadOnlyIsCow' /\ Private' /\ Free' /\ Covered'
  BY <1>a, <1>b, PagesUntouched DEF IInv, TypeOK
<1> QED
  BY <1>1, <1>2, <1>3, <1>4 DEF IInv

\* inc_ref_count of the parent's page pays for the child's entry.
LEMMA ForkRefIInv ==
  ASSUME NEW p \in Proc, IInv, ForkRef(p)
  PROVE  IInv'
<1> USE DEF ForkRef, Counted, Goto
<1>a. /\ page[p] \in 1..Len(pte[p]) /\ page[p] \in 1..MaxPages /\ Mine(p).frame \in Frame
      /\ child[p] \in Proc /\ pc[child[p]] = "embryo" /\ child[p] # p
      /\ Len(pte[child[p]]) = page[p] /\ Len(pte[p]) \in Nat /\ Len(pte[p]) <= MaxPages
      /\ pte[child[p]][page[p]].frame = Mine(p).frame
  <2>1. /\ page[p] \in 1..Len(pte[p]) /\ child[p] \in Proc /\ pc[child[p]] = "embryo"
        /\ Len(pte[child[p]]) = page[p] /\ Len(pte[p]) <= MaxPages
        /\ \A i \in 1..Len(pte[child[p]]) : pte[child[p]][i].frame = pte[p][i].frame
    BY DEF IInv, Locals, Children, Forking, TypeOK
  <2>2. TypeOK /\ child[p] # p
    BY <2>1 DEF IInv
  <2>3. /\ page[p] \in 1..MaxPages /\ Len(pte[p]) \in Nat /\ Len(pte[child[p]]) \in Nat
        /\ pte[p][page[p]].frame \in Frame
    BY <2>1, <2>2, EntryIs
  <2> QED
    BY <2>1, <2>2, <2>3 DEF Mine
<1>b. page' \in [Proc -> 1..(MaxPages + 1)] /\ ref' \in [Frame -> Nat]
  BY <1>a, CowAssumption DEF IInv, TypeOK
<1>1. TypeOK'
  BY <1>b DEF IInv, TypeOK, Points
<1>2. Locals'
  BY DEF IInv, TypeOK, Locals, Mine
<1>3. Children'
  BY <1>a, <1>b, SMTT(30) DEF IInv, TypeOK, Children, Forking
<1>4. ReadOnlyIsCow'
  BY DEF IInv, ReadOnlyIsCow
<1>5. Private'
  BY SMTT(30) DEF IInv, TypeOK, Private, OnlyMapped, NotMapped, Mapped, Mine
<1>6. Free'
  BY DEF IInv, TypeOK, Free, NotMapped, Mapped
<1>7. Covered'
  <2> SUFFICES ASSUME NEW f \in Frame PROVE Cardinality(Holders(f)') <= ref'[f]
    BY DEF Covered
  <2>1. \A q \in Proc : \A j \in 0..MaxPages : Holds(q, j, f)' =>
          Holds(q, j, f) \/ (q = child[p] /\ j = page[p] /\ f = Mine(p).frame)
    <3>1. \A q \in Proc : \A j \in 1..MaxPages : InTransit(q, j) =>
            InTransit(q, j)' \/ (q = child[p] /\ j = page[p])
      BY DEF IInv, TypeOK, InTransit
    <3>2. \A q \in Proc : \A j \in 1..MaxPages : Mapped(q, j, f)' => Mapped(q, j, f)
      BY DEF Mapped
    <3> QED
      BY <3>1, <3>2, <1>a DEF IInv, TypeOK, Holds, Mapped
  <2>2. CASE f = Mine(p).frame
    <3>1. page[p] \in 0..MaxPages
      BY <1>a
    <3>2. Cardinality(Holders(f)') <= Cardinality(Holders(f)) + 1
      BY <2>1, <3>1, <1>a, OneHolderMore
    <3>3. ref[f] \in Nat /\ ref'[f] = ref[f] + 1
      BY <2>2 DEF IInv, TypeOK
    <3> QED
      BY <3>2, <3>3, HoldersFinite DEF IInv, Covered
  <2>3. CASE f # Mine(p).frame
    <3>1. Cardinality(Holders(f)') <= Cardinality(Holders(f))
      BY <2>1, <2>3, NoMoreHolders
    <3> QED
      BY <3>1, <2>3, HoldersFinite DEF IInv, TypeOK, Covered
  <2> QED
    BY <2>2, <2>3
<1> QED
  BY <1>1, <1>2, <1>3, <1>4, <1>5, <1>6, <1>7 DEF IInv

\* The child becomes a process with all its pages counted.
LEMMA ForkDoneIInv ==
  ASSUME NEW p \in Proc, IInv, ForkDone(p)
  PROVE  IInv'
<1> USE DEF ForkDone, kmem
<1>a. child[p] \in Proc /\ pc[child[p]] = "embryo" /\ child[p] # p
  BY DEF IInv, Children, Forking
<1>b. pc' \in [Proc -> Points] /\ \A r \in Proc :
        pc'[r] = IF r = p \/ r = child[p] THEN "user" ELSE pc[r]
  BY <1>a DEF IInv, TypeOK, Points
<1>1. TypeOK'
  <2>1. page' \in [Proc -> 1..(MaxPages + 1)]
    BY <1>b, CowAssumption DEF IInv, TypeOK
  <2> QED
    BY <1>b, <2>1 DEF IInv, TypeOK
<1>2. Locals'
  BY <1>b DEF IInv, TypeOK, Locals, Mine
<1>3. Children'
  <2>1. \A r \in Proc : pc[r] \in Forking /\ r # p => child[r] # p /\ child[r] # child[p]
    BY DEF IInv, Children, Forking
  <2>2. \A r \in Proc : pc'[r] \in Forking => pc[r] \in Forking /\ r # p /\ pc'[r] = pc[r]
    BY <1>a, <1>b DEF Forking
  <2>3. \A r \in Proc : r # p => child'[r] = child[r] /\ page'[r] = page[r]
    BY DEF IInv, TypeOK
  <2>4. \A r \in Proc : pc'[r] \in Forking =>
          child[r] \in Proc /\ pc'[child[r]] = pc[child[r]] /\ pc[child[r]] = "embryo"
    BY <1>b, <2>1, <2>2 DEF IInv, Children
  <2> QED
    BY <2>2, <2>3, <2>4, ChildrenKept
<1>4. ReadOnlyIsCow' /\ Private' /\ Free' /\ Covered'
  BY <1>a, <1>b, PagesUntouched DEF IInv, TypeOK
<1> QED
  BY <1>1, <1>2, <1>3, <1>4 DEF IInv

\* exit changes no page.
LEMMA ExitIInv ==
  ASSUME NEW p \in Proc, IInv, Exit(p)
  PROVE  IInv'
<1> USE DEF Exit, Goto, kmem, frames
<1>1. TypeOK'
  BY DEF IInv, TypeOK, Points
<1>2. Locals'
  BY DEF IInv, TypeOK, Locals, Mine
<1>3. Children'
  BY DEF IInv, TypeOK, Children, Forking
<1>4. ReadOnlyIsCow' /\ Private' /\ Free' /\ Covered'
  BY PagesUntouched DEF IInv, TypeOK
<1> QED
  BY <1>1, <1>2, <1>3, <1>4 DEF IInv

\* The entry of a process without pages is given back.
LEMMA FreedIInv ==
  ASSUME NEW p \in Proc, IInv, Freed(p)
  PROVE  IInv'
<1> USE DEF Freed, Goto, kmem
<1>a. pc[p] = "forkbad" => child[p] \in Proc /\ pc[child[p]] = "embryo" /\ child[p] # p
  BY DEF IInv, Children, Forking
<1>b. /\ pc' \in [Proc -> Points] /\ child' \in [Proc -> Proc \cup {None}]
      /\ \A r \in Proc : r # p => child'[r] = child[r]
      /\ pc[p] \in {"dying", "forkbad"} /\ pc'[p] \in {"none", "user"}
      /\ \A r \in Proc : r # p =>
           pc'[r] = IF pc[p] = "forkbad" /\ r = child[p] THEN "none" ELSE pc[r]
      /\ \A r \in Proc : pc'[r] = "none" => pte[r] = <<>>
      /\ UNCHANGED <<freelist, ref, content, pte, count, mem, panicked>>
      /\ page' = [page EXCEPT ![p] = 1]
  BY <1>a DEF IInv, TypeOK, Points, Locals
<1> HIDE DEF Freed
<1>1. TypeOK'
  <2>1. page' \in [Proc -> 1..(MaxPages + 1)]
    BY <1>b, CowAssumption DEF IInv, TypeOK
  <2> QED
    BY <1>b, <2>1 DEF IInv, TypeOK
<1>2. Locals'
  BY <1>b DEF IInv, TypeOK, Locals, Mine
<1>3. Children'
  <2>1. \A r \in Proc : pc[r] \in Forking /\ r # p =>
          child[r] # p /\ (pc[p] = "forkbad" => child[r] # child[p])
    BY <1>b DEF IInv, Children, Forking
  <2>2. \A r \in Proc : pc'[r] \in Forking => pc[r] \in Forking /\ r # p /\ pc'[r] = pc[r]
    BY <1>a, <1>b DEF Forking
  <2> QED
    BY <1>a, <1>b, <2>1, <2>2 DEF IInv, TypeOK, Children, Forking
<1>4. ReadOnlyIsCow' /\ Private' /\ Free' /\ Covered'
  BY <1>a, <1>b, PagesUntouched DEF IInv, TypeOK
<1> QED
  BY <1>1, <1>2, <1>3, <1>4, <1>b DEF IInv


\* What copyuvm makes of an entry: read-only, PTE_C, the same frame.
LEMMA ReadOnlyIs ==
  ASSUME NEW e \in Entry, e.w = FALSE => e.c = TRUE
  PROVE  /\ ReadOnly(e) \in Entry /\ ReadOnly(e).frame = e.frame
         /\ ReadOnly(e).w = FALSE /\ ReadOnly(e).c = TRUE
<1>1. e.w \in BOOLEAN
  BY DEF Entry
<1>2. CASE e.w = TRUE
  BY <1>2 DEF ReadOnly, Entry
<1>3. CASE e.w = FALSE
  BY <1>3 DEF ReadOnly, Entry
<1> QED
  BY <1>1, <1>2, <1>3

\* copyuvm takes PTE_W from the parent's entry before the child gets it; the new
\* entry is in transit and asks for no count.
LEMMA ForkMapIInv ==
  ASSUME NEW p \in Proc, IInv, ForkMap(p)
  PROVE  IInv'
<1> DEFINE i == page[p]
           ch == child[p]
           old == pte[p][i].frame
           e == ReadOnly(pte[p][i])
<1>a. /\ i \in 1..Len(pte[p]) /\ i \in 1..MaxPages /\ old \in Frame /\ pte[p][i] \in Entry
      /\ pc[p] = "fork" /\ ch \in Proc /\ pc[ch] = "embryo" /\ ch # p /\ Len(pte[ch]) = i - 1
      /\ pte[p] \in Seq(Entry) /\ pte[ch] \in Seq(Entry)
  <2>1. /\ pc[p] = "fork" /\ ch \in Proc /\ pc[ch] = "embryo" /\ ch # p /\ Len(pte[ch]) = i - 1
        /\ i <= Len(pte[p]) /\ i \in 1..(MaxPages + 1) /\ TypeOK
    BY DEF IInv, TypeOK, Children, Forking, ForkMap
  <2>2. pte[p] \in Seq(Entry) /\ pte[ch] \in Seq(Entry) /\ Len(pte[p]) \in Nat
    BY <2>1, EntryIs
  <2>3. i \in 1..Len(pte[p])
    BY <2>1, <2>2, CowAssumption
  <2> QED
    BY <2>1, <2>2, <2>3, EntryIs
<1>b. e \in Entry /\ e.frame = old /\ e.w = FALSE /\ e.c = TRUE
  BY <1>a, ReadOnlyIs DEF IInv, ReadOnlyIsCow
<1>c. /\ UNCHANGED <<freelist, ref, content, page, count, mem, child, panicked>> /\ page[p] = i
      /\ \/ /\ pte' = [pte EXCEPT ![p] = [pte[p] EXCEPT ![i] = e], ![ch] = Append(pte[ch], e)]
            /\ pc' = [pc EXCEPT ![p] = "forkref"]
         \/ /\ pte' = [pte EXCEPT ![p] = [pte[p] EXCEPT ![i] = e]]
            /\ pc' = [pc EXCEPT ![p] = "forkbad"]
  BY <1>a DEF ForkMap, Mine, Goto, kmem, frames, IInv, TypeOK
<1>d. /\ pte' \in [Proc -> Seq(Entry)] /\ \A q \in Proc : q # ch => Len(pte'[q]) = Len(pte[q])
      /\ \A q \in Proc : q # p /\ q # ch => pte'[q] = pte[q]
      /\ \/ pc' = [pc EXCEPT ![p] = "forkref"] /\ Len(pte'[ch]) = i
         \/ pc' = [pc EXCEPT ![p] = "forkbad"] /\ Len(pte'[ch]) = i - 1
      /\ \A q \in Proc : \A j \in 1..Len(pte'[q]) :
           pte'[q][j] = IF q \in {p, ch} /\ j = i THEN e ELSE pte[q][j]
  <2> HIDE DEF i, ch, e, old
  <2> DEFINE s == [pte[p] EXCEPT ![i] = e]
             t == Append(pte[ch], e)
  <2>1. s \in Seq(Entry) /\ Len(s) = Len(pte[p])
        /\ \A j \in 1..Len(pte[p]) : s[j] = IF j = i THEN e ELSE pte[p][j]
    BY <1>a, <1>b, Replaced
  <2>2. t \in Seq(Entry) /\ Len(t) = i
        /\ \A j \in 1..i : t[j] = IF j = i THEN e ELSE pte[ch][j]
    <3>1. Len(pte[ch]) + 1 = i
      BY <1>a
    <3> QED
      BY <3>1, <1>a, <1>b, Appended
  <2>3. pte \in [Proc -> Seq(Entry)]
    BY DEF IInv, TypeOK
  <2> HIDE DEF s, t
  <2>4. CASE pte' = [pte EXCEPT ![p] = s, ![ch] = t] /\ pc' = [pc EXCEPT ![p] = "forkref"]
    BY <2>1, <2>2, <2>3, <2>4, <1>a
  <2>5. CASE pte' = [pte EXCEPT ![p] = s] /\ pc' = [pc EXCEPT ![p] = "forkbad"]
    BY <2>1, <2>3, <2>5, <1>a
  <2> QED
    BY <2>4, <2>5, <1>c DEF s, t
<1>e. pc \in [Proc -> Points]
  BY DEF IInv, TypeOK
<1>f. pte[p][i].frame = old
  OBVIOUS
<1> HIDE DEF i, ch, e, old
<1>g. ch = child[p]
  BY DEF ch
<1>1. TypeOK'
  <2>1. pc' \in [Proc -> Points]
    BY <1>d, <1>e DEF Points
  <2>2. \A q \in Proc : Len(pte'[q]) <= MaxPages
    BY <1>a, <1>d, SMTT(30) DEF IInv, TypeOK
  <2> QED
    BY <2>1, <2>2, <1>c, <1>d DEF IInv, TypeOK
<1>2. Locals'
  <2>1. ASSUME NEW q \in Proc, q # p, q # ch
        PROVE  pc'[q] = pc[q] /\ pte'[q] = pte[q]
    BY <2>1, <1>d, <1>e
  <2>2. pc'[p] \in {"forkref", "forkbad"} /\ pc'[ch] = "embryo"
    BY <1>a, <1>d, <1>e
  <2>3. i \in 1..Len(pte'[p])
    BY <1>a, <1>d
  <2>4. ASSUME NEW q \in Proc, q # p, q # ch, pc[q] = "fault"
        PROVE  Mine(q)' = Mine(q)
    BY <2>1, <2>4, <1>c DEF Mine
  <2> QED
    BY <2>1, <2>2, <2>3, <2>4, <1>a, <1>c DEF IInv, Locals
<1>3. Children'
  <2>1. \A r \in Proc : pc[r] \in Forking /\ r # p => child[r] # p /\ child[r] # ch /\ r # ch
    BY <1>a, <1>g DEF IInv, Children, Forking
  <2>2. \A r \in Proc : pc'[r] \in Forking <=> pc[r] \in Forking
    BY <1>a, <1>d, <1>e DEF Forking
  <2>3. \A r \in Proc : r # p => pc'[r] = pc[r]
    BY <1>d, <1>e
  <2>4. pc'[p] = "forkref" => Len(pte'[ch]) = i /\
          \A j \in 1..Len(pte'[ch]) : pte'[ch][j].frame = pte'[p][j].frame
    <3>1. \A j \in 1..(i - 1) : pte[ch][j].frame = pte[p][j].frame
      BY <1>a, <1>g DEF IInv, Children
    <3>2. SUFFICES ASSUME pc'[p] = "forkref"
                   PROVE  Len(pte'[ch]) = i /\ \A j \in 1..i : pte'[ch][j].frame = pte'[p][j].frame
      OBVIOUS
    <3>3. Len(pte'[ch]) = i /\ Len(pte'[p]) = Len(pte[p]) /\ Len(pte[p]) \in Nat
      BY <3>2, <1>a, <1>d, <1>e
    <3>4. \A j \in 1..i : /\ j # i => j \in 1..(i - 1)
                          /\ pte'[ch][j] = IF j = i THEN e ELSE pte[ch][j]
                          /\ pte'[p][j] = IF j = i THEN e ELSE pte[p][j]
      BY <3>3, <1>a, <1>d
    <3> QED
      BY <3>1, <3>3, <3>4
  <2>5. pc'[p] \in {"forkref", "forkbad"}
    BY <1>d, <1>e
  <2>6. ASSUME NEW r \in Proc, r # p, pc[r] \in Forking
        PROVE  /\ child[r] \in Proc /\ pc'[child[r]] = "embryo" /\ pte'[child[r]] = pte[child[r]]
               /\ pte'[r] = pte[r] /\ pc'[r] = pc[r]
    BY <2>1, <2>3, <2>6, <1>d DEF IInv, Children
  <2>7. \A r \in Proc : pc'[r] \in Forking => child[r] \in Proc /\ pc'[child[r]] = "embryo"
    BY <2>2, <2>6, <2>3, <1>a, <1>g
  <2>8. \A r \in Proc : pc'[r] = "fork" =>
          Len(pte'[child[r]]) = page[r] - 1 /\ page[r] <= Len(pte'[r]) + 1
    BY <2>5, <2>6, <2>2 DEF IInv, Children, Forking
  <2>9. \A r \in Proc : pc'[r] = "forkref" => Len(pte'[child[r]]) = page[r]
    BY <2>4, <2>6, <2>2, <1>c, <1>g DEF IInv, Children, Forking
  <2>10. \A r \in Proc : pc'[r] \in {"fork", "forkref"} =>
           \A j \in 1..Len(pte'[child[r]]) : pte'[child[r]][j].frame = pte'[r][j].frame
    BY <2>4, <2>5, <2>6, <2>2, <1>g DEF IInv, Children, Forking
  <2>11. \A r, q \in Proc : pc'[r] \in Forking /\ pc'[q] \in Forking /\ child[r] = child[q] => r = q
    BY <2>2 DEF IInv, Children
  <2> QED
    BY <2>7, <2>8, <2>9, <2>10, <2>11, <1>c DEF Children
<1>4. ReadOnlyIsCow'
  <2>1. \A q \in Proc : \A j \in 1..Len(pte'[q]) : j \in 1..Len(pte[q]) \/ (q = ch /\ j = i)
    BY <1>a, <1>d
  <2> QED
    BY <2>1, <1>b, <1>d DEF IInv, ReadOnlyIsCow
<1>5. \A q \in Proc : \A j \in 1..MaxPages : \A f :
        Mapped(q, j, f)' => Mapped(q, j, f) \/ (q = ch /\ j = i /\ f = old /\ Len(pte'[ch]) = i)
  <2>1. \A q \in Proc : \A j \in 1..Len(pte'[q]) : j \in 1..Len(pte[q]) \/ (q = ch /\ j = i /\ Len(pte'[ch]) = i)
    BY <1>a, <1>d
  <2> QED
    BY <2>1, <1>a, <1>b, <1>d, <1>f DEF Mapped
<1>6. Mapped(p, i, old)
  BY <1>a, <1>f DEF Mapped
<1>7. Private'
  <2>1. ASSUME NEW q \in Proc, NEW j \in 1..Len(pte'[q]), pte'[q][j].w = TRUE
        PROVE  OnlyMapped(q, j, pte[q][j].frame)'
    <3>1. j \in 1..Len(pte[q]) /\ pte'[q][j] = pte[q][j] /\ ~(q = p /\ j = i)
      BY <2>1, <1>a, <1>b, <1>d
    <3>2. OnlyMapped(q, j, pte[q][j].frame)
      BY <2>1, <3>1 DEF IInv, Private
    <3>3. pte[q][j].frame # old
      BY <3>1, <3>2, <1>6, <1>a DEF OnlyMapped
    <3> QED
      BY <3>1, <3>2, <3>3, <1>5 DEF OnlyMapped
  <2>2. ASSUME NEW q \in Proc, pc'[q] = "fault", count'[q] = 1
        PROVE  OnlyMapped(q, page[q], Mine(q).frame)'
    <3>1. q # p /\ q # ch /\ pc[q] = "fault"
      BY <2>2, <1>a, <1>d, <1>e
    <3>2. OnlyMapped(q, page[q], pte[q][page[q]].frame)
      BY <3>1, <2>2, <1>c DEF IInv, Private, Mine
    <3>3. pte[q][page[q]].frame # old
      BY <3>1, <3>2, <1>6, <1>a DEF OnlyMapped
    <3> QED
      BY <3>1, <3>2, <3>3, <1>5, <1>c, <1>d DEF OnlyMapped, Mine
  <2>3. ASSUME NEW q \in Proc, pc'[q] = "copy"
        PROVE  NotMapped(mem[q])' /\ \A r \in Proc : pc'[r] = "copy" /\ mem'[r] = mem'[q] => r = q
    <3>1. \A r \in Proc : pc'[r] = "copy" => pc[r] = "copy"
      BY <1>d, <1>e
    <3>2. NotMapped(mem[q]) /\ mem[q] # old
      BY <2>3, <3>1, <1>6, <1>a DEF IInv, Private, NotMapped
    <3> QED
      BY <2>3, <3>1, <3>2, <1>5, <1>c DEF IInv, Private, NotMapped
  <2> QED
    BY <2>1, <2>2, <2>3 DEF Private
<1>8. Free'
  <2>1. old \notin freelist
    BY <1>6, <1>a DEF IInv, Free, NotMapped
  <2>2. \A f \in freelist : NotMapped(f)'
    BY <2>1, <1>5 DEF IInv, Free, NotMapped
  <2> QED
    BY <2>2, <1>c, <1>d, <1>e DEF IInv, Free
<1>9. Covered'
  <2>1. \A q, j : InTransit(q, j) => InTransit(q, j)'
    BY <1>a, <1>c, <1>d, <1>e DEF InTransit
  <2>2. Len(pte'[ch]) = i => \E q \in Proc : pc'[q] = "forkref" /\ child'[q] = ch /\ page'[q] = i
    BY <1>a, <1>c, <1>d, <1>e, <1>g
  <2>3. \A q \in Proc : pc'[q] \in {"copy", "dec"} => pc[q] \in {"copy", "dec"}
    BY <1>d, <1>e
  <2>4. \A f \in Frame : \A q \in Proc : \A j \in 0..MaxPages : Holds(q, j, f)' => Holds(q, j, f)
    <3>1. ASSUME NEW f \in Frame, NEW q \in Proc, Holds(q, 0, f)' PROVE Holds(q, 0, f)
      BY <3>1, <2>3, <1>c DEF Holds
    <3>2. ASSUME NEW f \in Frame, NEW q \in Proc, NEW j \in 1..MaxPages, Holds(q, j, f)'
          PROVE  Holds(q, j, f)
      <4>1. Mapped(q, j, f)' /\ ~InTransit(q, j)'
        BY <3>2 DEF Holds
      <4>2. Mapped(q, j, f) /\ ~InTransit(q, j)
        BY <4>1, <2>1, <2>2, <1>5 DEF InTransit
      <4> QED
        BY <4>2 DEF Holds
    <3> QED
      BY <3>1, <3>2
  <2> QED
    BY <2>4, <1>c, CoveredKept
<1> QED
  BY <1>1, <1>2, <1>3, <1>4, <1>7, <1>8, <1>9, <1>c DEF IInv

\* allocuvm: a free frame, one entry and the count 1.
LEMMA GrowIInv ==
  ASSUME NEW p \in Proc, IInv, Grow(p)
  PROVE  IInv'
<1>0. PICK f \in Frame : /\ Kalloc(f) /\ content' = [content EXCEPT ![f] = Zero]
                         /\ pte' = [pte EXCEPT ![p] = Append(@, [frame |-> f, w |-> TRUE, c |-> FALSE])]
  BY DEF Grow
<1> DEFINE n == Len(pte[p]) + 1
           e == [frame |-> f, w |-> TRUE, c |-> FALSE]
<1>a. /\ pc[p] = "user" /\ UNCHANGED <<pc, page, count, mem, child, panicked>>
      /\ f \in freelist /\ freelist' = freelist \ {f} /\ ref' = [ref EXCEPT ![f] = 1]
      /\ Len(pte[p]) \in Nat /\ n \in 1..MaxPages /\ e \in Entry
  <2>1. Len(pte[p]) \in Nat /\ Len(pte[p]) < MaxPages
    BY EntryIs DEF IInv, Grow
  <2>2. n \in 1..MaxPages
    BY <2>1, CowAssumption
  <2>3. e \in Entry
    BY DEF Entry
  <2> QED
    BY <2>1, <2>2, <2>3, <1>0 DEF Grow, frames, Kalloc
<1>b. e.frame = f /\ e.w = TRUE /\ e.c = FALSE
  OBVIOUS
<1>c. NotMapped(f) /\ \A q \in Proc : pc[q] \in {"copy", "dec"} => mem[q] # f
  BY <1>a DEF IInv, Free
<1>d. /\ pte' \in [Proc -> Seq(Entry)] /\ Len(pte'[p]) = n
      /\ \A q \in Proc : q # p => pte'[q] = pte[q]
      /\ \A j \in 1..n : pte'[p][j] = IF j = n THEN e ELSE pte[p][j]
  <2>1. pte \in [Proc -> Seq(Entry)] /\ pte[p] \in Seq(Entry)
    BY DEF IInv, TypeOK
  <2>2. /\ Append(pte[p], e) \in Seq(Entry) /\ Len(Append(pte[p], e)) = n
        /\ \A j \in 1..n : Append(pte[p], e)[j] = IF j = n THEN e ELSE pte[p][j]
    BY <2>1, <1>a, Appended
  <2>3. pte' = [pte EXCEPT ![p] = Append(pte[p], e)]
    BY <1>0
  <2> HIDE DEF e, n
  <2> QED
    BY <2>1, <2>2, <2>3
<1> HIDE DEF e
<1>1. TypeOK'
  BY <1>0, <1>a, <1>d, CowAssumption DEF IInv, TypeOK
<1>2. Locals'
  BY <1>a, <1>d DEF IInv, Locals, Mine
<1>3. Children'
  <2>1. \A r \in Proc : pc[r] \in Forking => child[r] # p /\ r # p
    BY <1>a DEF IInv, Children, Forking
  <2>2. \A r \in Proc : pc[r] \in Forking => child[r] \in Proc /\ pc[child[r]] = "embryo"
    BY DEF IInv, Children
  <2> QED
    BY <2>1, <2>2, <1>a, <1>d, ChildrenKept
<1>4. ReadOnlyIsCow'
  <2>1. ASSUME NEW q \in Proc, NEW j \in 1..Len(pte'[q]), pte'[q][j].w = FALSE
        PROVE  j \in 1..Len(pte[q]) /\ pte'[q][j] = pte[q][j]
    BY <2>1, <1>a, <1>b, <1>d
  <2> QED
    BY <2>1 DEF IInv, ReadOnlyIsCow
<1>5. \A q \in Proc : \A j \in 1..MaxPages : \A g :
        Mapped(q, j, g)' => IF q = p /\ j = n THEN g = f ELSE Mapped(q, j, g) /\ g # f
  BY <1>a, <1>b, <1>c, <1>d DEF Mapped, NotMapped
<1>6. Private'
  <2>1. ASSUME NEW q \in Proc, NEW j \in 1..Len(pte'[q]), pte'[q][j].w = TRUE
        PROVE  OnlyMapped(q, j, pte[q][j].frame)'
    <3>2. CASE q = p /\ j = n
      BY <3>2, <1>5, <1>d, <1>b DEF OnlyMapped
    <3>3. CASE q # p \/ j # n
      <4>1. j \in 1..Len(pte[q]) /\ j \in 1..MaxPages /\ pte'[q][j] = pte[q][j]
        BY <3>3, <1>a, <1>d, EntryIs DEF IInv
      <4>2. OnlyMapped(q, j, pte[q][j].frame) /\ pte[q][j].frame # f
        BY <2>1, <4>1, <1>c DEF IInv, Private, NotMapped, Mapped
      <4> QED
        BY <4>1, <4>2, <1>5 DEF OnlyMapped
    <3> QED
      BY <3>2, <3>3
  <2>2. ASSUME NEW q \in Proc, pc'[q] = "fault", count'[q] = 1
        PROVE  OnlyMapped(q, page[q], Mine(q).frame)'
    <3>1. /\ q # p /\ page[q] \in 1..Len(pte[q]) /\ page[q] \in 1..MaxPages
          /\ OnlyMapped(q, page[q], pte[q][page[q]].frame)
      BY <2>2, <1>a, EntryIs DEF IInv, Private, Locals, Mine
    <3>2. pte'[q][page[q]] = pte[q][page[q]] /\ pte[q][page[q]].frame # f
      BY <3>1, <1>c, <1>d DEF NotMapped, Mapped
    <3> QED
      BY <3>1, <3>2, <1>5, <1>a DEF OnlyMapped, Mine
  <2>3. ASSUME NEW q \in Proc, pc'[q] = "copy"
        PROVE  NotMapped(mem[q])' /\ \A r \in Proc : pc'[r] = "copy" /\ mem'[r] = mem'[q] => r = q
    BY <2>3, <1>5, <1>a, <1>c DEF IInv, Private, NotMapped
  <2> QED
    BY <2>1, <2>2, <2>3 DEF Private
<1>7. Free'
  BY <1>5, <1>a DEF IInv, Free, NotMapped
<1>8. Covered'
  <2> SUFFICES ASSUME NEW g \in Frame PROVE Cardinality(Holders(g)') <= ref'[g]
    BY DEF Covered
  <2>1. \A q, j : InTransit(q, j) <=> InTransit(q, j)'
    BY <1>a DEF InTransit
  <2>2. \A q \in Proc : \A j \in 0..MaxPages :
          Holds(q, j, g)' => IF q = p /\ j = n THEN g = f ELSE Holds(q, j, g)
    BY <2>1, <1>5, <1>a DEF Holds
  <2>3. CASE g = f
    <3>1. \A q \in Proc : \A j \in 0..MaxPages : ~Holds(q, j, g)
      BY <2>3, <1>c DEF Holds, NotMapped
    <3>2. n \in 0..MaxPages /\ \A q \in Proc : \A j \in 0..MaxPages :
            Holds(q, j, g)' => Holds(q, j, g) \/ (q = p /\ j = n)
      BY <2>2, <1>a
    <3>3. Cardinality(Holders(g)') <= 0 + 1
      BY <3>1, <3>2, NoHolder, OneHolderMore
    <3> QED
      BY <3>3, <2>3, <1>a DEF IInv, TypeOK
  <2>4. CASE g # f
    <3>1. Cardinality(Holders(g)') <= Cardinality(Holders(g))
      BY <2>2, <2>4, NoMoreHolders
    <3> QED
      BY <3>1, <2>4, <1>a, HoldersFinite DEF IInv, TypeOK, Covered
  <2> QED
    BY <2>3, <2>4
<1> QED
  BY <1>1, <1>2, <1>3, <1>4, <1>6, <1>7, <1>8, <1>a DEF IInv

\* deallocuvm of one page: the entry goes and kfree lowers the count, or puts a
\* frame without references on the free list.
LEMMA DeallocIInv ==
  ASSUME NEW d \in Proc, IInv, Dealloc(d), UNCHANGED pc, pc[d] \in {"user", "dying", "embryo"},
         \A q \in Proc : pc[q] \in {"fork", "forkref"} => child[q] # d
  PROVE  IInv'
<1> DEFINE n == Len(pte[d])
           f == pte[d][n].frame
<1>a. pte[d] \in Seq(Entry) /\ pte[d] # <<>> /\ pte' = [pte EXCEPT ![d] = Unmapped(pte[d])]
  BY EntryIs DEF IInv, TypeOK, Dealloc
<1>b. /\ n \in Nat /\ n >= 1 /\ n \in 1..Len(pte[d]) /\ n \in 1..MaxPages /\ f \in Frame
      /\ UNCHANGED <<content, page, count, mem, child, panicked>> /\ Kfree(f)
  <2>1. n \in Nat /\ n >= 1
    BY <1>a, Dropped
  <2> QED
    BY <2>1, EntryIs DEF IInv, Dealloc, frames, LastFrame
<1>c. /\ pte' \in [Proc -> Seq(Entry)] /\ Len(pte'[d]) = n - 1
      /\ \A q \in Proc : q # d => pte'[q] = pte[q]
      /\ \A j \in 1..(n - 1) : pte'[d][j] = pte[d][j]
  <2>1. /\ Unmapped(pte[d]) \in Seq(Entry) /\ Len(Unmapped(pte[d])) = n - 1
        /\ \A j \in 1..(n - 1) : Unmapped(pte[d])[j] = pte[d][j]
    BY <1>a, Dropped
  <2>2. pte \in [Proc -> Seq(Entry)]
    BY DEF IInv, TypeOK
  <2> HIDE DEF n, f
  <2> QED
    BY <2>1, <2>2, <1>a
<1>d. ~InTransit(d, n) /\ Holds(d, n, f)
  <2>1. ~InTransit(d, n)
    BY DEF InTransit
  <2> QED
    BY <2>1, <1>b DEF Holds, Mapped
<1>e. ref[f] \in Nat /\ ref[f] >= 1 /\ ref' = [ref EXCEPT ![f] = @ - 1] /\ freelist' = freelist
  <2>1. ref[f] \in Nat /\ ref[f] >= 1
    BY <1>b, <1>d, SomeHolder, HoldersFinite DEF IInv, TypeOK, Covered
  <2> QED
    BY <2>1, <1>b DEF Kfree
<1>f. f = pte[d][n].frame
  OBVIOUS
<1> HIDE DEF f
<1>1. TypeOK'
  <2>1. \A q \in Proc : Len(pte'[q]) <= MaxPages
    <3>1. \A q \in Proc : Len(pte[q]) <= MaxPages
      BY DEF IInv, TypeOK
    <3>2. n - 1 <= MaxPages
      BY <1>b, CowAssumption
    <3> QED
      BY <3>1, <3>2, <1>c
  <2>2. ref' \in [Frame -> Nat]
    BY <1>b, <1>e DEF IInv, TypeOK
  <2> QED
    BY <2>1, <2>2, <1>b, <1>c, <1>e DEF IInv, TypeOK
<1>2. Locals'
  BY <1>b, <1>c DEF IInv, Locals, Mine
<1>3. Children'
  <2>1. ASSUME NEW r \in Proc, pc[r] \in {"fork", "forkref"}
        PROVE  /\ child[r] \in Proc /\ pte'[child[r]] = pte[child[r]] /\ pte'[r] = pte[r]
               /\ Len(pte'[r]) = Len(pte[r])
    BY <2>1, <1>b, <1>c DEF IInv, Children, Forking
  <2> QED
    BY <2>1, <1>b DEF IInv, Children, Forking
<1>4. ReadOnlyIsCow'
  BY <1>b, <1>c DEF IInv, ReadOnlyIsCow
<1>5. \A q \in Proc : \A j \in 1..MaxPages : \A g :
        Mapped(q, j, g)' => Mapped(q, j, g) /\ ~(q = d /\ j = n)
  BY <1>b, <1>c DEF Mapped
<1>6. Private'
  <2>1. ASSUME NEW q \in Proc, NEW j \in 1..Len(pte'[q]), pte'[q][j].w = TRUE
        PROVE  OnlyMapped(q, j, pte[q][j].frame)'
    <3>1. j \in 1..Len(pte[q]) /\ pte'[q][j] = pte[q][j]
      BY <1>b, <1>c
    <3> QED
      BY <2>1, <3>1, <1>5 DEF IInv, Private, OnlyMapped
  <2>2. ASSUME NEW q \in Proc, pc'[q] = "fault", count'[q] = 1
        PROVE  OnlyMapped(q, page[q], Mine(q).frame)'
    <3>1. q # d /\ pte'[q] = pte[q] /\ OnlyMapped(q, page[q], pte[q][page[q]].frame)
      BY <2>2, <1>b, <1>c DEF IInv, Private, Mine
    <3> QED
      BY <3>1, <1>5, <1>b DEF OnlyMapped, Mine
  <2>3. ASSUME NEW q \in Proc, pc'[q] = "copy"
        PROVE  NotMapped(mem[q])' /\ \A r \in Proc : pc'[r] = "copy" /\ mem'[r] = mem'[q] => r = q
    BY <2>3, <1>5, <1>b DEF IInv, Private, NotMapped
  <2> QED
    BY <2>1, <2>2, <2>3 DEF Private
<1>7. Free'
  BY <1>5, <1>b, <1>e DEF IInv, Free, NotMapped
<1>8. Covered'
  <2> SUFFICES ASSUME NEW g \in Frame PROVE Cardinality(Holders(g)') <= ref'[g]
    BY DEF Covered
  <2>1. \A q, j : InTransit(q, j) <=> InTransit(q, j)'
    BY <1>b DEF InTransit
  <2>2. \A q \in Proc : \A j \in 0..MaxPages :
          Holds(q, j, g)' => Holds(q, j, g) /\ (q # d \/ j # n)
    BY <2>1, <1>5, <1>b DEF Holds
  <2>3. CASE g = f
    <3>1. n \in 0..MaxPages
      BY <1>b
    <3>2. Cardinality(Holders(g)') <= Cardinality(Holders(g)) - 1
      BY <2>2, <2>3, <3>1, <1>d, OneHolderLess
    <3> QED
      BY <3>2, <2>3, <1>b, <1>e, HoldersFinite DEF IInv, TypeOK, Covered
  <2>4. CASE g # f
    <3>1. Cardinality(Holders(g)') <= Cardinality(Holders(g))
      BY <2>2, NoMoreHolders
    <3> QED
      BY <3>1, <2>4, <1>e, HoldersFinite DEF IInv, TypeOK, Covered
  <2> QED
    BY <2>3, <2>4
<1> QED
  BY <1>1, <1>2, <1>3, <1>4, <1>6, <1>7, <1>8, <1>b DEF IInv

\* The first process has one page, counted once.
LEMMA InitIInv == Init => IInv
<1> SUFFICES ASSUME Init PROVE IInv
  OBVIOUS
<1>1. PICK p \in Proc, f \in Frame :
        /\ freelist = Frame \ {f}
        /\ ref = [g \in Frame |-> IF g = f THEN 1 ELSE 0]
        /\ pte = [q \in Proc |-> IF q = p THEN <<[frame |-> f, w |-> TRUE, c |-> FALSE]>> ELSE <<>>]
        /\ pc = [q \in Proc |-> IF q = p THEN "user" ELSE "none"]
  BY DEF Init
<1>2. /\ \A q \in Proc : q # p => pte[q] = <<>> /\ Len(pte[q]) = 0
      /\ Len(pte[p]) = 1 /\ pte[p][1].frame = f /\ pte[p][1].w = TRUE /\ pte[p][1].c = FALSE
      /\ pte \in [Proc -> Seq(Entry)]
  <2> DEFINE e == [frame |-> f, w |-> TRUE, c |-> FALSE]
  <2>1. e \in Entry /\ e.frame = f /\ e.w = TRUE /\ e.c = FALSE
    BY DEF Entry
  <2> HIDE DEF e
  <2>2. <<e>> \in Seq(Entry) /\ Len(<<e>>) = 1 /\ <<e>>[1] = e /\ <<>> \in Seq(Entry) /\ Len(<<>>) = 0
    BY <2>1
  <2>3. pte = [q \in Proc |-> IF q = p THEN <<e>> ELSE <<>>]
    BY <1>1 DEF e
  <2> QED
    BY <2>1, <2>2, <2>3
<1>3. \A q \in Proc : pc[q] \in {"user", "none"}
  BY <1>1
<1>4. TypeOK
  <2>1. page \in [Proc -> 1..(MaxPages + 1)] /\ \A q \in Proc : Len(pte[q]) <= MaxPages
    BY <1>2, CowAssumption DEF Init
  <2>2. ref \in [Frame -> Nat] /\ freelist \subseteq Frame /\ pc \in [Proc -> Points]
    BY <1>1 DEF Points
  <2> QED
    BY <2>1, <2>2, <1>2, CowAssumption DEF Init, TypeOK
<1>5. Locals
  BY <1>1, <1>2, <1>3 DEF Locals
<1>6. Children
  BY <1>3 DEF Children, Forking
<1>7. ReadOnlyIsCow
  BY <1>2 DEF ReadOnlyIsCow
<1>8. \A q \in Proc : \A j \in 1..MaxPages : \A g : Mapped(q, j, g) => q = p /\ j = 1 /\ g = f
  BY <1>2 DEF Mapped
<1>9. Private
  BY <1>2, <1>3, <1>8 DEF Private, OnlyMapped
<1>10. Free
  BY <1>1, <1>3, <1>8 DEF Free, NotMapped
<1>11. \A g : \A q \in Proc : \A j \in 0..MaxPages : Holds(q, j, g) => q = p /\ j = 1 /\ g = f
  BY <1>3, <1>8 DEF Holds
<1>12. Covered
  <2> SUFFICES ASSUME NEW g \in Frame PROVE Cardinality(Holders(g)) <= ref[g]
    BY DEF Covered
  <2>1. CASE g = f
    <3>1. Holders(g) \subseteq {<<p, 1>>}
      BY <1>11 DEF Holders
    <3>2. Cardinality(Holders(g)) <= 1
      <4>1. IsFiniteSet({<<p, 1>>}) /\ Cardinality({<<p, 1>>}) = 1
        BY FS_Singleton
      <4>2. Cardinality(Holders(g)) <= Cardinality({<<p, 1>>})
        BY <3>1, <4>1, FS_Subset
      <4> QED
        BY <4>1, <4>2
    <3> QED
      BY <3>2, <2>1, <1>1
  <2>2. CASE g # f
    <3>1. Cardinality(Holders(g)) = 0
      BY <2>2, <1>11, NoHolder
    <3> QED
      BY <3>1, <2>2, <1>1
  <2> QED
    BY <2>1, <2>2
<1> QED
  BY <1>4, <1>5, <1>6, <1>7, <1>9, <1>10, <1>12 DEF IInv, Init

\* Every step keeps the invariant.
LEMMA NextIInv == IInv /\ [Next]_vars => IInv'
<1> SUFFICES ASSUME IInv, [Next]_vars PROVE IInv'
  OBVIOUS
<1>1. CASE UNCHANGED vars
  <2>1. TypeOK' /\ Locals' /\ Children' /\ panicked' = FALSE
    BY <1>1 DEF vars, IInv, TypeOK, Locals, Children, Mine
  <2>2. ReadOnlyIsCow' /\ Private' /\ Free' /\ Covered'
    BY <1>1, PagesUntouched DEF vars
  <2> QED
    BY <2>1, <2>2 DEF IInv
<1>2. ASSUME NEW p \in Proc, Shrink(p) PROVE IInv'
  <2>1. \A q \in Proc : pc[q] \in {"fork", "forkref"} => child[q] # p
    BY <1>2 DEF IInv, Children, Forking, Shrink
  <2> QED
    BY <1>2, <2>1, DeallocIInv DEF Shrink
<1>3. ASSUME NEW p \in Proc, FreeVm(p) PROVE IInv'
  <2>1. CASE pc[p] = "dying" /\ Dealloc(p) /\ UNCHANGED pc
    <3>1. \A q \in Proc : pc[q] \in {"fork", "forkref"} => child[q] # p
      BY <2>1 DEF IInv, Children, Forking
    <3> QED
      BY <2>1, <3>1, DeallocIInv
  <2>2. CASE pc[p] = "forkbad" /\ Dealloc(child[p]) /\ UNCHANGED pc
    <3>1. child[p] \in Proc /\ pc[child[p]] = "embryo"
      BY <2>2 DEF IInv, Children, Forking
    <3>2. \A q \in Proc : pc[q] \in {"fork", "forkref"} => child[q] # child[p]
      BY <2>2 DEF IInv, Children, Forking
    <3> QED
      BY <2>2, <3>1, <3>2, DeallocIInv
  <2> QED
    BY <1>3, <2>1, <2>2 DEF FreeVm
<1> QED
  BY <1>1, <1>2, <1>3, WriteIInv, FaultIInv, FaultAllocIInv, FaultCopyIInv, FaultDecIInv,
     FaultIncIInv, FaultOwnIInv, ForkStartIInv, ForkMapIInv, ForkRefIInv, ForkDoneIInv, GrowIInv,
     ExitIInv, FreedIInv
     DEF Next, Handle, Fork

\* The invariant holds at every point of every run of Cow.
LEMMA Inductive == Spec => []IInv
BY InitIInv, NextIInv, PTL DEF Spec

-----------------------------------------------------------------------------
(* What the invariant says.                                                 *)

\* Maps of the specification and Mapped of the proof are the same.
LEMMA MapsAre ==
  ASSUME TypeOK, NEW f, NEW p \in Proc, NEW i
  PROVE  <<p, i>> \in Maps(f) <=> Mapped(p, i, f)
<1>1. Mapped(p, i, f) => i \in 1..MaxPages
  BY EntryIs DEF Mapped
<1>2. DOMAIN pte[p] = 1..Len(pte[p])
  BY EntryIs
<1> QED
  BY <1>1, <1>2 DEF Maps, Mapped

\* The invariant says that a writable page is mapped once.
LEMMA PrivateIsWritable == IInv => WritableIsPrivate
<1> SUFFICES ASSUME IInv, NEW p \in Proc, NEW i \in DOMAIN pte[p], pte[p][i].w
             PROVE  Maps(pte[p][i].frame) = {<<p, i>>}
  BY DEF WritableIsPrivate
<1> DEFINE f == pte[p][i].frame
<1>1. TypeOK /\ i \in 1..Len(pte[p]) /\ pte[p][i].w \in BOOLEAN
  BY EntryIs DEF IInv
<1>2. pte[p][i].w = TRUE
  BY <1>1
<1>3. OnlyMapped(p, i, f) /\ Mapped(p, i, f)
  BY <1>1, <1>2 DEF IInv, Private, Mapped
<1>4. <<p, i>> \in Maps(f)
  BY <1>1, <1>3, MapsAre
<1>5. ASSUME NEW m \in Maps(f) PROVE m = <<p, i>>
  <2>1. PICK q \in Proc, j \in 1..MaxPages : m = <<q, j>>
    BY DEF Maps
  <2>2. Mapped(q, j, f)
    BY <2>1, <1>1, MapsAre
  <2> QED
    BY <2>1, <2>2, <1>3 DEF OnlyMapped
<1> HIDE DEF f
<1>6. Maps(f) = {<<p, i>>}
  BY <1>4, <1>5
<1> QED
  BY <1>6 DEF f

\* The invariant says that the counts cover the mappings but for the forks
\* between mappages and inc_ref_count: each of those stands for one entry.
LEMMA CoveredIsRefs == IInv => RefsCovered
<1> SUFFICES ASSUME IInv, NEW f \in Frame
             PROVE  /\ Cardinality(Maps(f)) <= ref[f] + Cardinality(Pending(f))
                    /\ f \in freelist => Maps(f) = {}
  BY DEF RefsCovered
<1> DEFINE P == Pending(f)
           c == [q \in P |-> <<child[q], page[q]>>]
           C == {c[q] : q \in P}
<1>1. IsFiniteSet(P)
  BY CowAssumption, FS_Subset DEF Pending
<1>2. IsFiniteSet(C) /\ Cardinality(C) <= Cardinality(P)
  <2>1. c \in Surjection(P, C)
    BY DEF Surjection
  <2> QED
    BY <1>1, <2>1, FS_Surjection
<1>3. Maps(f) \subseteq Holders(f) \cup C
  <2> SUFFICES ASSUME NEW m \in Maps(f), m \notin Holders(f) PROVE m \in C
    OBVIOUS
  <2>1. PICK q \in Proc, j \in 1..MaxPages : m = <<q, j>>
    BY DEF Maps
  <2>2. Mapped(q, j, f) /\ ~Holds(q, j, f)
    <3>1. j \in 0..MaxPages
      BY <2>1
    <3> QED
      BY <2>1, <3>1, MapsAre, HolderIs DEF IInv
  <2>3. PICK r \in Proc : pc[r] = "forkref" /\ child[r] = q /\ page[r] = j
    BY <2>2 DEF Holds, InTransit
  <2>4. Mine(r).frame = f
    BY <2>2, <2>3 DEF IInv, Children, Mapped, Mine
  <2>5. r \in P
    BY <2>3, <2>4 DEF Pending
  <2> QED
    BY <2>1, <2>3, <2>5
<1>4. Cardinality(Maps(f)) <= ref[f] + Cardinality(P)
  <2> HIDE DEF P, C
  <2>1. IsFiniteSet(Holders(f)) /\ Cardinality(Holders(f)) \in Nat /\ Cardinality(C) \in Nat
        /\ Cardinality(P) \in Nat
    BY <1>1, <1>2, HoldersFinite, FS_CardinalityType
  <2>2. /\ IsFiniteSet(Holders(f) \cup C)
        /\ Cardinality(Holders(f) \cup C) =
             Cardinality(Holders(f)) + Cardinality(C) - Cardinality(Holders(f) \cap C)
    BY <1>2, <2>1, FS_Union
  <2>3. Cardinality(Holders(f) \cap C) \in Nat
    BY <2>1, FS_Intersection, FS_CardinalityType
  <2>4. IsFiniteSet(Maps(f)) /\ Cardinality(Maps(f)) \in Nat
        /\ Cardinality(Maps(f)) <= Cardinality(Holders(f) \cup C)
    BY <1>3, <2>2, FS_Subset, FS_CardinalityType
  <2>5. Cardinality(Holders(f)) <= ref[f] /\ ref[f] \in Nat
    BY DEF IInv, Covered, TypeOK
  <2> QED
    BY <1>2, <2>1, <2>2, <2>3, <2>4, <2>5
<1>5. ASSUME f \in freelist, NEW m \in Maps(f) PROVE FALSE
  <2>1. PICK q \in Proc, j \in 1..MaxPages : m = <<q, j>>
    BY <1>5 DEF Maps
  <2> QED
    BY <1>5, <2>1, MapsAre DEF IInv, Free, NotMapped
<1> QED
  BY <1>4, <1>5

\* kalloc.c and vm.c, however faults, forks and exits overlap: reference counts
\* never go below zero nor below the mappings, a writable page is never shared,
\* a mapped frame is never free, and "wrong ref count" is not reached.
THEOREM FramesAlwaysSafe == Spec => []FramesSafe
<1>1. IInv => FramesSafe
  BY PrivateIsWritable, CoveredIsRefs DEF IInv, FramesSafe, NoWrongRefCount
<1> QED
  BY <1>1, Inductive, PTL

-----------------------------------------------------------------------------
(* Sharing frames is invisible: the refinement of PrivateMemory.            *)

\* What a process sees, page by page.
LEMMA ShownIs ==
  ASSUME TypeOK, NEW p \in Proc
  PROVE  /\ pc[p] = "embryo" => Shown(p) = <<>>
         /\ pc[p] # "embryo" => Shown(p) = [i \in 1..Len(pte[p]) |-> content[pte[p][i].frame]]
         /\ Shown(p) \in Seq(Value)
         /\ Len(Shown(p)) = IF pc[p] = "embryo" THEN 0 ELSE Len(pte[p])
<1>1. /\ DOMAIN pte[p] = 1..Len(pte[p]) /\ Len(pte[p]) \in Nat
      /\ \A i \in 1..Len(pte[p]) : content[pte[p][i].frame] \in Value
  BY EntryIs DEF TypeOK
<1> QED
  BY <1>1 DEF Shown

\* A process sees the same if its pages have the same contents.
LEMMA ShownKept ==
  ASSUME TypeOK, TypeOK', NEW p \in Proc, pc[p] = "embryo" <=> pc'[p] = "embryo",
         pc[p] # "embryo" =>
           /\ Len(pte'[p]) = Len(pte[p])
           /\ \A i \in 1..Len(pte[p]) : content'[pte'[p][i].frame] = content[pte[p][i].frame]
  PROVE  Shown(p)' = Shown(p)
<1>1. DOMAIN pte[p] = 1..Len(pte[p]) /\ DOMAIN pte'[p] = 1..Len(pte'[p])
  BY EntryIs DEF TypeOK
<1>2. CASE pc[p] = "embryo"
  BY <1>2 DEF Shown
<1>3. CASE pc[p] # "embryo"
  BY <1>1, <1>3 DEF Shown
<1> QED
  BY <1>2, <1>3

\* If every process sees the same, the view is the same.
LEMMA Invisible ==
  ASSUME \A p \in Proc : Shown(p)' = Shown(p)
  PROVE  UNCHANGED View
BY DEF View

\* A user write changes one page of one process: nobody shares a writable page.
LEMMA WriteVisible ==
  ASSUME NEW p \in Proc, NEW i \in 1..MaxPages, NEW v \in Value, IInv, IInv', Write(p, i, v)
  PROVE  Memory!MWrite(p)
<1> DEFINE f == pte[p][i].frame
<1>1. /\ TypeOK /\ TypeOK' /\ i \in 1..Len(pte[p]) /\ f \in Frame /\ pc[p] # "embryo"
      /\ content' = [content EXCEPT ![f] = v] /\ UNCHANGED <<pte, pc>> /\ pte[p][i].w \in BOOLEAN
      /\ pte[p][i].w
  BY EntryIs DEF IInv, Write
<1>2. OnlyMapped(p, i, f)
  <2>1. pte[p][i].w = TRUE
    BY <1>1
  <2> QED
    BY <1>1, <2>1 DEF IInv, Private
<1>3. \A q \in Proc : \A j \in 1..Len(pte[q]) :
        content'[pte[q][j].frame] = IF q = p /\ j = i THEN v ELSE content[pte[q][j].frame]
  <2>1. \A q \in Proc : \A j \in 1..Len(pte[q]) :
          j \in 1..MaxPages /\ pte[q][j].frame \in Frame /\ (pte[q][j].frame = f => q = p /\ j = i)
    BY <1>1, <1>2, EntryIs DEF OnlyMapped, Mapped
  <2>2. content \in [Frame -> Value]
    BY <1>1 DEF TypeOK
  <2> QED
    BY <1>1, <2>1, <2>2
<1>4. \A q \in Proc : q # p => Shown(q)' = Shown(q)
  BY <1>1, <1>3, ShownKept
<1>5. Shown(p)' = [Shown(p) EXCEPT ![i] = v] /\ i \in DOMAIN Shown(p)
  <2>1. Shown(p) = [j \in 1..Len(pte[p]) |-> content[pte[p][j].frame]]
    BY <1>1, ShownIs
  <2>2. Shown(p)' = [j \in 1..Len(pte[p]) |-> content'[pte[p][j].frame]]
    <3>1. DOMAIN pte[p] = 1..Len(pte[p])
      BY <1>1, EntryIs
    <3> QED
      BY <1>1, <3>1 DEF Shown
  <2>3. i \in 1..Len(pte[p]) /\ \A j \in 1..Len(pte[p]) :
          content'[pte[p][j].frame] = IF j = i THEN v ELSE content[pte[p][j].frame]
    BY <1>1, <1>3
  <2>4. /\ DOMAIN Shown(p) = 1..Len(pte[p]) /\ DOMAIN Shown(p)' = 1..Len(pte[p])
        /\ \A j \in 1..Len(pte[p]) : /\ Shown(p)[j] = content[pte[p][j].frame]
                                      /\ Shown(p)'[j] = content'[pte[p][j].frame]
    BY <2>1, <2>2
  <2>5. \A j \in 1..Len(pte[p]) : Shown(p)'[j] = IF j = i THEN v ELSE Shown(p)[j]
    BY <2>3, <2>4
  <2> QED
    BY <2>1, <2>2, <2>3, <2>4, <2>5
<1>6. View' = [View EXCEPT ![p] = [View[p] EXCEPT ![i] = v]]
  BY <1>4, <1>5 DEF View
<1> QED
  BY <1>5, <1>6 DEF Memory!MWrite, View

\* allocuvm adds one page of zeros.
LEMMA GrowVisible ==
  ASSUME NEW p \in Proc, IInv, IInv', Grow(p)
  PROVE  Memory!MGrow(p)
<1>1. PICK f \in Frame : /\ Kalloc(f) /\ content' = [content EXCEPT ![f] = Zero]
                         /\ pte' = [pte EXCEPT ![p] = Append(@, [frame |-> f, w |-> TRUE, c |-> FALSE])]
  BY DEF Grow
<1> DEFINE e == [frame |-> f, w |-> TRUE, c |-> FALSE]
           n == Len(pte[p]) + 1
<1>2. TypeOK /\ TypeOK' /\ pc[p] = "user" /\ UNCHANGED pc /\ NotMapped(f) /\ e \in Entry
  BY <1>1 DEF IInv, Grow, Free, Kalloc, Entry
<1>3. /\ Len(pte[p]) \in Nat /\ Len(pte'[p]) = n /\ pte'[p][n].frame = f
      /\ \A j \in 1..Len(pte[p]) : pte'[p][j] = pte[p][j]
      /\ \A q \in Proc : q # p => pte'[q] = pte[q]
  <2>1. pte \in [Proc -> Seq(Entry)] /\ pte[p] \in Seq(Entry) /\ Len(pte[p]) \in Nat
    BY <1>2 DEF TypeOK
  <2>2. /\ Len(Append(pte[p], e)) = n
        /\ \A j \in 1..n : Append(pte[p], e)[j] = IF j = n THEN e ELSE pte[p][j]
    BY <2>1, <1>2, Appended
  <2>3. pte' = [pte EXCEPT ![p] = Append(pte[p], e)] /\ e.frame = f
    BY <1>1
  <2> HIDE DEF e
  <2> QED
    BY <2>1, <2>2, <2>3
<1>4. \A q \in Proc : \A j \in 1..Len(pte[q]) : content'[pte[q][j].frame] = content[pte[q][j].frame]
  <2>1. \A q \in Proc : \A j \in 1..Len(pte[q]) : pte[q][j].frame \in Frame /\ pte[q][j].frame # f
    BY <1>2, EntryIs DEF NotMapped, Mapped
  <2>2. content \in [Frame -> Value]
    BY <1>2 DEF TypeOK
  <2> QED
    BY <1>1, <2>1, <2>2
<1>5. content'[f] = Zero
  BY <1>1, <1>2 DEF TypeOK
<1>6. \A q \in Proc : q # p => Shown(q)' = Shown(q)
  BY <1>2, <1>3, <1>4, ShownKept
<1>7. Shown(p)' = Append(Shown(p), Zero)
  <2>1. Shown(p) = [j \in 1..Len(pte[p]) |-> content[pte[p][j].frame]]
    BY <1>2, ShownIs
  <2>2. Shown(p)' = [j \in 1..n |-> content'[pte'[p][j].frame]]
    <3>1. DOMAIN pte'[p] = 1..Len(pte'[p])
      BY <1>2 DEF TypeOK
    <3> QED
      BY <1>2, <1>3, <3>1 DEF Shown
  <2>3. \A j \in 1..n : content'[pte'[p][j].frame] = IF j = n THEN Zero ELSE content[pte[p][j].frame]
    BY <1>3, <1>4, <1>5
  <2>4. Shown(p) \in Seq(Value) /\ Len(Shown(p)) = Len(pte[p]) /\ Zero \in Value
    BY <1>2, ShownIs, CowAssumption
  <2>5. Append(Shown(p), Zero) = [j \in 1..n |-> IF j = n THEN Zero ELSE Shown(p)[j]]
    BY <2>4, AppendIs
  <2>6. \A j \in 1..n : j # n => Shown(p)[j] = content[pte[p][j].frame]
    BY <1>3, <2>1
  <2> QED
    BY <2>2, <2>3, <2>5, <2>6
<1>8. View' = [View EXCEPT ![p] = Append(View[p], Zero)]
  BY <1>6, <1>7 DEF View
<1> QED
  BY <1>8 DEF Memory!MGrow

\* deallocuvm drops the last page; of a child in the making nobody saw any.
LEMMA DeallocVisible ==
  ASSUME NEW p \in Proc, IInv, IInv', Dealloc(p), UNCHANGED pc
  PROVE  IF pc[p] = "embryo" THEN UNCHANGED View ELSE Memory!MShrink(p)
<1>1. /\ TypeOK /\ TypeOK' /\ pte[p] \in Seq(Entry) /\ pte[p] # <<>> /\ content' = content
      /\ pte' = [pte EXCEPT ![p] = Unmapped(pte[p])]
  BY DEF IInv, TypeOK, Dealloc
<1>2. /\ pte'[p] = Unmapped(pte[p]) /\ \A q \in Proc : q # p => pte'[q] = pte[q]
      /\ Len(pte[p]) \in Nat /\ Len(pte[p]) >= 1 /\ Len(pte'[p]) = Len(pte[p]) - 1
      /\ \A j \in 1..(Len(pte[p]) - 1) : pte'[p][j] = pte[p][j]
  <2>1. pte \in [Proc -> Seq(Entry)]
    BY <1>1 DEF TypeOK
  <2> QED
    BY <1>1, <2>1, Dropped
<1>3. \A q \in Proc : q # p => Shown(q)' = Shown(q)
  BY <1>1, <1>2, ShownKept
<1>4. CASE pc[p] = "embryo"
  <2>1. Shown(p)' = Shown(p)
    BY <1>4 DEF Shown
  <2> QED
    BY <1>3, <1>4, <2>1, Invisible
<1>5. CASE pc[p] # "embryo"
  <2>1. Shown(p) = [j \in 1..Len(pte[p]) |-> content[pte[p][j].frame]]
    BY <1>1, <1>5, ShownIs
  <2>2. Shown(p)' = [j \in 1..(Len(pte[p]) - 1) |-> content[pte[p][j].frame]]
    <3>1. DOMAIN pte'[p] = 1..Len(pte'[p])
      BY <1>1 DEF TypeOK
    <3> QED
      BY <1>1, <1>2, <1>5, <3>1 DEF Shown
  <2>3. Shown(p) \in Seq(Value) /\ Len(Shown(p)) = Len(pte[p]) /\ Shown(p) # <<>>
    <3>1. Shown(p) \in Seq(Value) /\ Len(Shown(p)) = Len(pte[p])
      BY <1>1, <1>5, ShownIs
    <3> QED
      BY <3>1, <1>2
  <2>4. Unmapped(Shown(p)) = [j \in 1..(Len(pte[p]) - 1) |-> Shown(p)[j]]
    BY <2>3, UnmappedIs
  <2>5. \A j \in 1..(Len(pte[p]) - 1) : Shown(p)[j] = content[pte[p][j].frame]
    BY <1>2, <2>1
  <2>6. Shown(p)' = Unmapped(Shown(p))
    BY <2>2, <2>4, <2>5
  <2>7. View' = [View EXCEPT ![p] = SubSeq(View[p], 1, Len(View[p]) - 1)] /\ View[p] # <<>>
    BY <1>3, <2>3, <2>6 DEF View, Unmapped
  <2> QED
    BY <1>5, <2>7 DEF Memory!MShrink
<1> QED
  BY <1>4, <1>5

\* The end of fork shows the child a copy of what its parent sees.
LEMMA ForkVisible ==
  ASSUME NEW p \in Proc, IInv, IInv', ForkDone(p)
  PROVE  Memory!MNext
<1>0. PICK q \in Proc : q = child[p]
  BY DEF IInv, Children, Forking, ForkDone
<1>1. /\ TypeOK /\ TypeOK' /\ q \in Proc /\ pc[q] = "embryo" /\ pc[p] = "fork" /\ q # p
      /\ Len(pte[q]) = page[p] - 1 /\ page[p] <= Len(pte[p]) + 1 /\ page[p] > Len(pte[p])
      /\ UNCHANGED <<pte, content>>
      /\ \A i \in 1..Len(pte[q]) : pte[q][i].frame = pte[p][i].frame
      /\ pc' = [pc EXCEPT ![p] = "user", ![q] = "user"]
  BY <1>0 DEF IInv, Children, Forking, ForkDone
<1>2. Len(pte[p]) \in Nat /\ Len(pte[q]) = Len(pte[p])
  <2>1. Len(pte[p]) \in Nat /\ page[p] \in Nat
    BY <1>1, EntryIs DEF TypeOK
  <2> QED
    BY <1>1, <2>1
<1>3. \A r \in Proc : pc'[r] = IF r = p \/ r = q THEN "user" ELSE pc[r]
  BY <1>1 DEF TypeOK
<1>4. \A r \in Proc : r # q => Shown(r)' = Shown(r)
  <2>1. \A r \in Proc : r # q => (pc[r] = "embryo" <=> pc'[r] = "embryo")
    <3>1. pc[p] = "fork"
      BY <1>1
    <3> QED
      BY <1>3, <3>1
  <2>2. pte' = pte /\ content' = content
    BY <1>1
  <2> QED
    BY <2>1, <2>2 DEF Shown
<1>5. Shown(q) = <<>> /\ Shown(q)' = Shown(p)
  <2>1. Shown(q) = <<>> /\ Shown(p) = [i \in 1..Len(pte[p]) |-> content[pte[p][i].frame]]
    BY <1>1, ShownIs
  <2>2. DOMAIN pte[q] = 1..Len(pte[q])
    BY <1>1, EntryIs
  <2>3. Shown(q)' = [i \in 1..Len(pte[p]) |-> content[pte[q][i].frame]]
    <3>1. pte' = pte /\ content' = content /\ pc'[q] = "user"
      BY <1>1, <1>3
    <3>2. DOMAIN pte'[q] = 1..Len(pte[p])
      BY <1>2, <2>2, <3>1
    <3> QED
      BY <3>1, <3>2 DEF Shown
  <2> QED
    BY <1>1, <1>2, <2>1, <2>3
<1>6. View[q] = <<>> /\ View' = [View EXCEPT ![q] = View[p]]
  BY <1>1, <1>4, <1>5 DEF View
<1> QED
  BY <1>1, <1>6 DEF Memory!MNext, Memory!MFork

\* Steps that move no page into the sight of a process or out of it.
LEMMA FramesMoved ==
  ASSUME NEW p \in Proc, IInv, IInv', FaultCopy(p) \/ FaultOwn(p) \/ ForkMap(p)
  PROVE  UNCHANGED View
<1>1. TypeOK /\ TypeOK' /\ page[p] \in Nat
  BY DEF IInv, TypeOK
<1>2. CASE FaultCopy(p)
  <2> DEFINE i == page[p]
             e == [frame |-> mem[p], w |-> TRUE, c |-> FALSE]
  <2>1. /\ i \in 1..Len(pte[p]) /\ pte[p][i].frame \in Frame /\ mem[p] \in Frame /\ NotMapped(mem[p])
        /\ pc[p] = "copy" /\ pc' = [pc EXCEPT ![p] = "dec"] /\ pte[p] \in Seq(Entry) /\ e \in Entry
        /\ content' = [content EXCEPT ![mem[p]] = content[pte[p][i].frame]]
        /\ pte' = [pte EXCEPT ![p] = [pte[p] EXCEPT ![i] = e]]
    BY <1>1, <1>2, EntryIs DEF IInv, Locals, Private, FaultCopy, Goto, Mine, Entry
  <2>2. /\ \A q \in Proc : Len(pte'[q]) = Len(pte[q])
        /\ \A q \in Proc : \A j \in 1..Len(pte[q]) :
             pte'[q][j] = IF q = p /\ j = i THEN e ELSE pte[q][j]
    BY <1>1, <2>1, Replaced, EntryIs, SMTT(30) DEF TypeOK
  <2>3. e.frame = mem[p]
    OBVIOUS
  <2> HIDE DEF i, e
  <2>4. \A q \in Proc : \A j \in 1..Len(pte[q]) : pte[q][j].frame \in Frame /\ pte[q][j].frame # mem[p]
    BY <1>1, <2>1, EntryIs DEF NotMapped, Mapped
  <2>5. content \in [Frame -> Value] /\ pc \in [Proc -> Points]
    BY <1>1 DEF TypeOK
  <2>6. \A q \in Proc : \A j \in 1..Len(pte[q]) :
          content'[pte'[q][j].frame] = content[pte[q][j].frame]
    BY <2>1, <2>2, <2>3, <2>4, <2>5
  <2>7. \A q \in Proc : pc[q] = "embryo" <=> pc'[q] = "embryo"
    BY <2>1, <2>5
  <2> QED
    BY <1>1, <2>2, <2>6, <2>7, ShownKept, Invisible
<1>3. CASE FaultOwn(p)
  <2> DEFINE i == page[p]
             e == [pte[p][i] EXCEPT !.w = TRUE]
  <2>1. i \in 1..Len(pte[p]) /\ pte[p][i] \in Entry /\ pte[p] \in Seq(Entry)
    BY <1>1, <1>3, EntryIs DEF IInv, Locals, FaultOwn
  <2>2. e \in Entry /\ e.frame = pte[p][i].frame
    <3> HIDE DEF i
    <3> QED
      BY <2>1 DEF Entry
  <2>3. /\ panicked' = FALSE /\ content' = content /\ pc[p] = "fault"
        /\ \/ pte' = [pte EXCEPT ![p] = [pte[p] EXCEPT ![i] = e]] /\ pc' = [pc EXCEPT ![p] = "user"]
           \/ UNCHANGED <<pte, pc>>
    BY <1>3 DEF IInv, FaultOwn, Leave, Goto
  <2> HIDE DEF i, e
  <2>4. /\ \A q \in Proc : Len(pte'[q]) = Len(pte[q])
        /\ \A q \in Proc : \A j \in 1..Len(pte[q]) : pte'[q][j].frame = pte[q][j].frame
    <3>1. CASE UNCHANGED <<pte, pc>>
      BY <3>1
    <3>2. CASE pte' = [pte EXCEPT ![p] = [pte[p] EXCEPT ![i] = e]]
      BY <1>1, <2>1, <2>2, <3>2, Replaced, EntryIs DEF TypeOK
    <3> QED
      BY <2>3, <3>1, <3>2
  <2>5. \A q \in Proc : pc[q] = "embryo" <=> pc'[q] = "embryo"
    BY <1>1, <2>3 DEF TypeOK
  <2> QED
    BY <1>1, <2>3, <2>4, <2>5, ShownKept, Invisible
<1>4. CASE ForkMap(p)
  <2> DEFINE i == page[p]
             e == ReadOnly(pte[p][i])
  <2>1. /\ pc[p] = "fork" /\ child[p] \in Proc /\ pc[child[p]] = "embryo" /\ child[p] # p
        /\ page[p] <= Len(pte[p]) /\ i \in 1..(MaxPages + 1) /\ content' = content
    BY <1>4 DEF IInv, Children, Forking, TypeOK, ForkMap
  <2>2. i \in 1..Len(pte[p])
    <3>1. Len(pte[p]) \in Nat
      BY <1>1, EntryIs
    <3> QED
      BY <2>1, <3>1
  <2>3. pte[p] \in Seq(Entry) /\ e \in Entry /\ e.frame = pte[p][i].frame
    BY <1>1, <2>2, EntryIs, ReadOnlyIs DEF IInv, ReadOnlyIsCow
  <2>4. /\ pc' = [pc EXCEPT ![p] = "forkref"] \/ pc' = [pc EXCEPT ![p] = "forkbad"]
        /\ pte'[p] = [pte[p] EXCEPT ![i] = e]
        /\ \A q \in Proc : q # p /\ q # child[p] => pte'[q] = pte[q]
    <3> HIDE DEF i, e
    <3>1. pte \in [Proc -> Seq(Entry)]
      BY <1>1 DEF TypeOK
    <3>2. \/ pte' = [pte EXCEPT ![p] = [pte[p] EXCEPT ![i] = e], ![child[p]] = Append(pte[child[p]], e)]
          \/ pte' = [pte EXCEPT ![p] = [pte[p] EXCEPT ![i] = e]]
      BY <1>4, <2>1, <3>1 DEF ForkMap, Mine, i, e
    <3>3. pte'[p] = [pte[p] EXCEPT ![i] = e] /\ \A q \in Proc : q # p /\ q # child[p] => pte'[q] = pte[q]
      BY <2>1, <3>1, <3>2
    <3> QED
      BY <1>4, <3>3 DEF ForkMap, Goto
  <2> HIDE DEF i, e
  <2>5. /\ \A q \in Proc : q # child[p] => Len(pte'[q]) = Len(pte[q])
        /\ \A q \in Proc : q # child[p] =>
             \A j \in 1..Len(pte[q]) : pte'[q][j].frame = pte[q][j].frame
    <3>1. /\ Len(pte'[p]) = Len(pte[p])
          /\ \A j \in 1..Len(pte[p]) : pte'[p][j] = IF j = i THEN e ELSE pte[p][j]
      BY <2>2, <2>3, <2>4, Replaced
    <3>2. \A j \in 1..Len(pte[p]) : pte'[p][j].frame = pte[p][j].frame
      BY <2>3, <3>1
    <3> QED
      BY <2>4, <3>1, <3>2
  <2>6. \A q \in Proc : pc[q] = "embryo" <=> pc'[q] = "embryo"
    BY <1>1, <2>1, <2>4 DEF TypeOK
  <2> QED
    BY <1>1, <2>1, <2>5, <2>6, ShownKept, Invisible
<1> QED
  BY <1>2, <1>3, <1>4

\* The other steps of faults and forks touch neither entries nor contents.
LEMMA NothingShown ==
  ASSUME NEW p \in Proc, IInv, IInv',
         \/ FaultAlloc(p) \/ FaultDec(p) \/ FaultInc(p) \/ ForkRef(p) \/ Exit(p) \/ Freed(p)
         \/ \E i \in 1..MaxPages : Fault(p, i)
         \/ \E q \in Proc : ForkStart(p, q)
  PROVE  UNCHANGED View
<1>1. UNCHANGED <<pte, content>> /\ TypeOK
  BY DEF FaultAlloc, FaultDec, FaultInc, ForkRef, Exit, Freed, Fault, ForkStart, IInv
<1>2. \A q \in Proc : (pc[q] = "embryo" <=> pc'[q] = "embryo") \/ pte[q] = <<>>
  <2>1. pc \in [Proc -> Points]
    BY <1>1 DEF TypeOK
  <2>2. CASE Freed(p)
    <3>1. pc[p] = "forkbad" => child[p] \in Proc /\ child[p] # p /\ pc[child[p]] = "embryo"
      BY DEF IInv, Children, Forking
    <3> QED
      BY <2>1, <2>2, <3>1 DEF Freed, Goto
  <2>3. CASE \E q \in Proc : ForkStart(p, q)
    BY <2>1, <2>3 DEF ForkStart, IInv, Locals
  <2>4. CASE \/ FaultAlloc(p) \/ FaultDec(p) \/ FaultInc(p) \/ ForkRef(p) \/ Exit(p)
             \/ \E i \in 1..MaxPages : Fault(p, i)
    BY <2>1, <2>4 DEF FaultAlloc, FaultDec, FaultInc, ForkRef, Exit, Fault, Goto, Leave
  <2> QED
    BY <2>2, <2>3, <2>4
<1>3. ASSUME NEW q \in Proc PROVE Shown(q)' = Shown(q)
  <2>1. CASE pc[q] = "embryo" <=> pc'[q] = "embryo"
    BY <1>1, <2>1 DEF Shown
  <2>2. CASE pte[q] = <<>>
    <3>1. [i \in DOMAIN pte[q] |-> content[pte[q][i].frame]] = <<>>
      BY <2>2
    <3> QED
      BY <1>1, <3>1 DEF Shown
  <2> QED
    BY <1>2, <2>1, <2>2
<1> QED
  BY <1>3, Invisible

\* handle_page_fault and copyuvm implement private memories: each write is seen
\* by the process that made it and by nobody else, and fork copies.
THEOREM CopyOnWriteIsInvisible == Spec => IsPrivateMemory
<1>1. Init => Memory!MInit
  <2> SUFFICES ASSUME Init PROVE View \in [Proc -> {<<>>, <<Zero>>}]
    BY DEF Memory!MInit
  <2>1. PICK p \in Proc, f \in Frame :
          /\ pte = [q \in Proc |-> IF q = p THEN <<[frame |-> f, w |-> TRUE, c |-> FALSE]>> ELSE <<>>]
          /\ pc = [q \in Proc |-> IF q = p THEN "user" ELSE "none"]
    BY DEF Init
  <2>2. TypeOK
    BY InitIInv DEF IInv
  <2>3. ASSUME NEW q \in Proc PROVE Shown(q) \in {<<>>, <<Zero>>}
    <3>1. Shown(q) = [i \in 1..Len(pte[q]) |-> content[pte[q][i].frame]]
      BY <2>1, <2>2, ShownIs
    <3>2. \A i \in 1..Len(pte[q]) : content[pte[q][i].frame] = Zero
      BY <2>2, EntryIs DEF Init
    <3>3. Len(pte[q]) \in {0, 1}
      BY <2>1
    <3> QED
      BY <3>1, <3>2, <3>3
  <2> QED
    BY <2>3 DEF View
<1>2. IInv /\ IInv' /\ [Next]_vars => [Memory!MNext]_View
  <2> SUFFICES ASSUME IInv, IInv', [Next]_vars PROVE [Memory!MNext]_View
    OBVIOUS
  <2>1. CASE UNCHANGED vars
    BY <2>1 DEF vars, View, Shown
  <2>2. ASSUME NEW p \in Proc, NEW i \in 1..MaxPages, NEW v \in Value, Write(p, i, v)
        PROVE  Memory!MNext
    BY <2>2, WriteVisible DEF Memory!MNext
  <2>3. ASSUME NEW p \in Proc, Grow(p) PROVE Memory!MNext
    BY <2>3, GrowVisible DEF Memory!MNext
  <2>4. ASSUME NEW p \in Proc, Shrink(p) PROVE Memory!MNext
    BY <2>4, DeallocVisible DEF Memory!MNext, Shrink
  <2>5. ASSUME NEW p \in Proc, FreeVm(p) PROVE [Memory!MNext]_View
    <3>1. CASE pc[p] = "dying" /\ Dealloc(p) /\ UNCHANGED pc
      BY <3>1, DeallocVisible DEF Memory!MNext
    <3>2. CASE pc[p] = "forkbad" /\ Dealloc(child[p]) /\ UNCHANGED pc
      BY <3>2, DeallocVisible DEF IInv, Children, Forking
    <3> QED
      BY <2>5, <3>1, <3>2 DEF FreeVm
  <2> QED
    BY <2>1, <2>2, <2>3, <2>4, <2>5, ForkVisible, FramesMoved, NothingShown DEF Next, Handle, Fork
<1> QED
  BY <1>1, <1>2, Inductive, PTL DEF Spec, IsPrivateMemory, Memory!MSpec
=============================================================================
