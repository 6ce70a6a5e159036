--------------------------------- MODULE Cow ---------------------------------
(***************************************************************************)
(* Physical pages and copy-on-write: kalloc, kfree and the reference counts *)
(* (kalloc.c), copyuvm, allocuvm, deallocuvm, freevm and handle_page_fault  *)
(* (vm.c), as fork, sbrk, exit with wait, and page faults call them.        *)
(*                                                                         *)
(* A step is a critical section of kmem.lock, or what a process does to its *)
(* own page table between two of them.  The frames are those of user pages; *)
(* page tables and kernel stacks are not modelled, so mappages and setupkvm *)
(* may fail at any time.  The paging policies are compiled out              *)
(* (SELECTION=NONE).                                                        *)
(***************************************************************************)
EXTENDS Integers, Sequences, FiniteSets

CONSTANTS
  Proc,     \* processes
  Frame,    \* physical pages
  Value,    \* contents of a page
  Zero,     \* a page after memset(mem, 0, PGSIZE)
  MaxPages, \* bound: pages of a process
  None      \* no frame, no process

ASSUME CowAssumption ==
  /\ Zero \in Value /\ None \notin Frame /\ None \notin Proc
  /\ MaxPages \in Nat \ {0} /\ IsFiniteSet(Proc)

VARIABLES
  freelist, \* kmem.freelist, as a set
  ref,      \* kmem.page_refs_num
  content,  \* the data of a frame
  pte,      \* the page table of a process: a sequence of [frame, w, c]
  pc,       \* where a process is
  page,     \* the page a fault or a fork is at
  count,    \* amount_of_refs_to_page
  mem,      \* mem of handle_page_fault, pa when it is done with it
  child,    \* np of fork
  panicked  \* panic() was called

kmem == <<freelist, ref>>
frames == <<page, count, mem, child>>
vars == <<freelist, ref, content, pte, pc, page, count, mem, child, panicked>>

Points == {"none", "embryo", "user", "fault", "copy", "dec", "inc", "fork", "forkref",
           "forkbad", "dying"}

\* One process with one page; the other frames are free.
Init ==
  /\ \E p \in Proc, f \in Frame :
       /\ freelist = Frame \ {f}
       /\ ref = [g \in Frame |-> IF g = f THEN 1 ELSE 0]
       /\ pte = [q \in Proc |-> IF q = p THEN <<[frame |-> f, w |-> TRUE, c |-> FALSE]>> ELSE <<>>]
       /\ pc = [q \in Proc |-> IF q = p THEN "user" ELSE "none"]
  /\ content = [f \in Frame |-> Zero]
  /\ page = [p \in Proc |-> 1]
  /\ count = [p \in Proc |-> 0]
  /\ mem = [p \in Proc |-> None]
  /\ child = [p \in Proc |-> None]
  /\ panicked = FALSE

Goto(p, point) == pc' = [pc EXCEPT ![p] = point]

\* The locals of the handler go with its frame.
Leave(p, point) ==
  /\ Goto(p, point)
  /\ page' = [page EXCEPT ![p] = 1]
  /\ count' = [count EXCEPT ![p] = 0]

-----------------------------------------------------------------------------
(* kalloc.c                                                                *)

\* kalloc returned f.
Kalloc(f) ==
  /\ f \in freelist
  /\ freelist' = freelist \ {f}
  /\ ref' = [ref EXCEPT ![f] = 1]

\* kfree
Kfree(f) ==
  IF ref[f] = 0
    THEN freelist' = freelist \cup {f} /\ UNCHANGED ref
    ELSE ref' = [ref EXCEPT ![f] = @ - 1] /\ UNCHANGED freelist

-----------------------------------------------------------------------------
(* User writes and handle_page_fault.                                      *)

Write(p, i, v) ==
  /\ pc[p] = "user" /\ i \in DOMAIN pte[p] /\ pte[p][i].w
  /\ content' = [content EXCEPT ![pte[p][i].frame] = v]
  /\ UNCHANGED <<kmem, pte, pc, frames, panicked>>

\* A write to a read-only page: the handler up to get_ref_count.
Fault(p, i) ==
  /\ pc[p] = "user" /\ i \in DOMAIN pte[p] /\ ~pte[p][i].w
  /\ page' = [page EXCEPT ![p] = i]
  /\ count' = [count EXCEPT ![p] = ref[pte[p][i].frame]]
  /\ Goto(p, "fault")
  /\ UNCHANGED <<kmem, content, pte, mem, child, panicked>>

Mine(p) == pte[p][page[p]]

\* amount_of_refs_to_page > 1
Shared(p) == count[p] > 1

\* kalloc of the copy; without memory the process is killed.
FaultAlloc(p) ==
  /\ pc[p] = "fault" /\ Shared(p)
  /\ \/ \E f \in Frame :
          /\ Kalloc(f)
          /\ mem' = [mem EXCEPT ![p] = f]
          /\ Goto(p, "copy")
          /\ UNCHANGED <<page, count>>
     \/ /\ freelist = {}
        /\ Leave(p, "dying")
        /\ UNCHANGED <<kmem, mem>>
  /\ UNCHANGED <<content, pte, child, panicked>>

\* memmove, and the new page table entry.
FaultCopy(p) ==
  /\ pc[p] = "copy"
  /\ content' = [content EXCEPT ![mem[p]] = content[Mine(p).frame]]
  /\ pte' = [pte EXCEPT ![p][page[p]] = [frame |-> mem[p], w |-> TRUE, c |-> FALSE]]
  /\ mem' = [mem EXCEPT ![p] = Mine(p).frame]
  /\ Goto(p, "dec")
  /\ UNCHANGED <<kmem, page, count, child, panicked>>

\* dec_ref_count(pa)
Uncounted(p) == [ref EXCEPT ![mem[p]] = @ - 1]

FaultDec(p) ==
  /\ pc[p] = "dec"
  /\ ref' = Uncounted(p)
  /\ mem' = [mem EXCEPT ![p] = None]
  /\ Goto(p, "inc")
  /\ UNCHANGED <<freelist, content, pte, page, count, child, panicked>>

\* inc_ref_count((uint) P2V(mem)): mem is virtual already, and the sum wraps to
\* the physical address of the copy.
FaultInc(p) ==
  /\ pc[p] = "inc"
  /\ ref' = [ref EXCEPT ![Mine(p).frame] = @ + 1]
  /\ Leave(p, "user")
  /\ UNCHANGED <<freelist, content, pte, mem, child, panicked>>

\* The only reference: remove the restriction if PTE_C is on.
FaultOwn(p) ==
  /\ pc[p] = "fault" /\ ~Shared(p)
  /\ IF count[p] = 1 /\ Mine(p).c
       THEN /\ pte' = [pte EXCEPT ![p][page[p]].w = TRUE]
            /\ Leave(p, "user")
            /\ UNCHANGED panicked
       ELSE panicked' = TRUE /\ UNCHANGED <<pte, pc, page, count>>
  /\ UNCHANGED <<kmem, content, mem, child>>

-----------------------------------------------------------------------------
(* fork: copyuvm, one page after the other.                                *)

ForkStart(p, q) ==
  /\ pc[p] = "user" /\ pc[q] = "none"
  /\ child' = [child EXCEPT ![p] = q]
  /\ page' = [page EXCEPT ![p] = 1]
  /\ pc' = [pc EXCEPT ![p] = "fork", ![q] = "embryo"]
  /\ UNCHANGED <<kmem, content, pte, count, mem, panicked>>

StaysWritable(e) == e

\* PTE_W becomes PTE_C, in the entry of the parent too.
ReadOnly(e) == IF e.w THEN [e EXCEPT !.w = FALSE, !.c = TRUE] ELSE e

\* mappages of the next page into the child, or its failure.
ForkMap(p) ==
  /\ pc[p] = "fork" /\ page[p] <= Len(pte[p])
  /\ LET e == ReadOnly(Mine(p)) IN
     \/ /\ pte' = [pte EXCEPT ![p][page[p]] = e, ![child[p]] = Append(@, e)]
        /\ Goto(p, "forkref")
     \/ /\ pte' = [pte EXCEPT ![p][page[p]] = e]
        /\ Goto(p, "forkbad")
  /\ UNCHANGED <<kmem, content, frames, panicked>>

NotCounted(p) == ref

\* inc_ref_count(pa)
Counted(p) == [ref EXCEPT ![Mine(p).frame] = @ + 1]

ForkRef(p) ==
  /\ pc[p] = "forkref"
  /\ ref' = Counted(p)
  /\ page' = [page EXCEPT ![p] = @ + 1]
  /\ Goto(p, "fork")
  /\ UNCHANGED <<freelist, content, pte, count, mem, child, panicked>>

ForkDone(p) ==
  /\ pc[p] = "fork" /\ page[p] > Len(pte[p])
  /\ pc' = [pc EXCEPT ![p] = "user", ![child[p]] = "user"]
  /\ page' = [page EXCEPT ![p] = 1]
  /\ child' = [child EXCEPT ![p] = None]
  /\ UNCHANGED <<kmem, content, pte, count, mem, panicked>>

-----------------------------------------------------------------------------
(* sbrk, and the end of a process.                                         *)

\* *pte = 0, of the last page.
Unmapped(s) == SubSeq(s, 1, Len(s) - 1)

Grow(p) ==
  /\ pc[p] = "user" /\ Len(pte[p]) < MaxPages
  /\ \E f \in Frame :
       /\ Kalloc(f)
       /\ content' = [content EXCEPT ![f] = Zero]
       /\ pte' = [pte EXCEPT ![p] = Append(@, [frame |-> f, w |-> TRUE, c |-> FALSE])]
  /\ UNCHANGED <<pc, frames, panicked>>

LastFrame(p) == pte[p][Len(pte[p])].frame

\* deallocuvm of one page: by sbrk, by wait for an exited process, or by
\* copyuvm for a child it could not complete.
Dealloc(p) ==
  /\ pte[p] # <<>>
  /\ Kfree(LastFrame(p))
  /\ pte' = [pte EXCEPT ![p] = Unmapped(@)]
  /\ UNCHANGED <<content, frames, panicked>>

Shrink(p) == pc[p] = "user" /\ Dealloc(p) /\ UNCHANGED pc

Exit(p) ==
  /\ pc[p] = "user"
  /\ Goto(p, "dying")
  /\ UNCHANGED <<kmem, content, pte, frames, panicked>>

FreeVm(p) ==
  \/ pc[p] = "dying" /\ Dealloc(p) /\ UNCHANGED pc
  \/ pc[p] = "forkbad" /\ Dealloc(child[p]) /\ UNCHANGED pc

\* The entry of the process, or of the child, is UNUSED again.
Freed(p) ==
  /\ \/ pc[p] = "dying" /\ pte[p] = <<>> /\ Goto(p, "none") /\ UNCHANGED child
     \/ /\ pc[p] = "forkbad" /\ pte[child[p]] = <<>>
        /\ pc' = [pc EXCEPT ![p] = "user", ![child[p]] = "none"]
        /\ child' = [child EXCEPT ![p] = None]
  /\ page' = [page EXCEPT ![p] = 1]
  /\ UNCHANGED <<kmem, content, pte, count, mem, panicked>>

-----------------------------------------------------------------------------

Handle(p) ==
  FaultAlloc(p) \/ FaultCopy(p) \/ FaultDec(p) \/ FaultInc(p) \/ FaultOwn(p)

Fork(p) == ForkMap(p) \/ ForkRef(p) \/ ForkDone(p) \/ \E q \in Proc : ForkStart(p, q)

Next ==
  /\ ~panicked
  /\ \E p \in Proc :
       \/ \E i \in 1..MaxPages : Fault(p, i) \/ \E v \in Value : Write(p, i, v)
       \/ Handle(p) \/ Fork(p) \/ Grow(p) \/ Shrink(p) \/ Exit(p) \/ FreeVm(p) \/ Freed(p)

Spec == Init /\ [][Next]_vars

-----------------------------------------------------------------------------
(* Properties                                                              *)

Entry == [frame : Frame, w : BOOLEAN, c : BOOLEAN]

\* Types; a reference count never goes below zero.
TypeOK ==
  /\ freelist \subseteq Frame
  /\ ref \in [Frame -> Nat]
  /\ content \in [Frame -> Value]
  /\ pte \in [Proc -> Seq(Entry)] /\ \A p \in Proc : Len(pte[p]) <= MaxPages
  /\ pc \in [Proc -> Points]
  /\ page \in [Proc -> 1..(MaxPages + 1)]
  /\ count \in [Proc -> Nat]
  /\ mem \in [Proc -> Frame \cup {None}]
  /\ child \in [Proc -> Proc \cup {None}]
  /\ panicked \in BOOLEAN

\* The page table entries that map a frame, as pairs of process and page.
Maps(f) == {m \in Proc \X (1..MaxPages) : m[2] \in DOMAIN pte[m[1]] /\ pte[m[1]][m[2]].frame = f}

\* A page one process may write is mapped by nobody else, at every point of
\* copyuvm and of faults that run at the same time.
WritableIsPrivate ==
  \A p \in Proc : \A i \in DOMAIN pte[p] :
    pte[p][i].w => Maps(pte[p][i].frame) = {<<p, i>>}

\* The forks that are between mappages and inc_ref_count of a frame.
Pending(f) == {p \in Proc : pc[p] = "forkref" /\ Mine(p).frame = f}

\* page_refs_num never falls below the number of mappings, but for the page
\* whose mapping copyuvm is about to count; a frame on the free list has none.
RefsCovered ==
  \A f \in Frame :
    /\ Cardinality(Maps(f)) <= ref[f] + Cardinality(Pending(f))
    /\ f \in freelist => Maps(f) = {}

\* The panic "wrong ref count" of handle_page_fault is not reached, also when
\* sharers of a page fault, fork and exit at the same time.
NoWrongRefCount == ~panicked

\* Frames are shared safely between forks, faults and exits that overlap.
FramesSafe == TypeOK /\ WritableIsPrivate /\ RefsCovered /\ NoWrongRefCount

\* The memory of a process: what its page table shows, once fork is done.
Shown(p) ==
  IF pc[p] = "embryo" THEN <<>> ELSE [i \in DOMAIN pte[p] |-> content[pte[p][i].frame]]

View == [p \in Proc |-> Shown(p)]

Memory == INSTANCE PrivateMemory WITH mem <- View

\* Copying on write is invisible: the processes have private memories, whatever
\* frames handle_page_fault and copyuvm share between them.
IsPrivateMemory == Memory!MSpec
=============================================================================
