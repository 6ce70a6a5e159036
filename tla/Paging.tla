------------------------------- MODULE Paging -------------------------------
(***************************************************************************)
(* Paging to a swap file (os-master vm.c, proc.c, exec.c, fs.c) in a       *)
(* kernel built with SELECTION = SCFIFO, NFUA, LAPA or AQ: one process     *)
(* grows, shrinks, touches its pages, faults, forks and calls exec.  After *)
(* fork the model follows the parent or the child.                         *)
(*                                                                         *)
(* Addresses and file offsets are counted in pages.  RAMQueue and          *)
(* offsetQueue, arrays filled up with -1, are sequences.  broken is set    *)
(* where the code leaves what is defined: it uses an index of -1 or past   *)
(* an array, looks a new image's page up in the old page table, frees      *)
(* pages and keeps their records, or loses a page because fork did not     *)
(* copy its slot or the write is past the end of the file.  Nothing is     *)
(* said about what follows.                                                *)
(***************************************************************************)
EXTENDS Integers, Sequences, FiniteSets, SequencesExt

CONSTANTS
    MAX_PSYC_PAGES,     \* pages of a process in memory
    MAX_TOTAL_PAGES,    \* pages of a process
    Policies,           \* the builds considered
    AgeBits,            \* width of an age
    MaxSize,            \* bound: [policy -> the most pages a process gets]
    MaxLeak             \* bound: [policy -> by how much numberOfPagedOut may be too large]

ASSUME PagingAssumption ==
    /\ MAX_PSYC_PAGES \in Nat \ {0, 1} /\ MAX_TOTAL_PAGES \in Nat
    /\ MAX_PSYC_PAGES <= MAX_TOTAL_PAGES
    /\ Policies \subseteq {"SCFIFO", "NFUA", "LAPA", "AQ"}
    /\ AgeBits \in Nat \ {0} /\ {2^AgeBits, 2^(AgeBits - 1)} \subseteq Nat \ {0}

Recs == 0 .. MAX_TOTAL_PAGES - 1
Pages == 0 .. MAX_TOTAL_PAGES       \* one more than there are records
NoSlot == -1

VARIABLES
    policy,         \* SELECTION
    pages,          \* [va, off, ram, alloc, age] of each record
    RAMQueue, offsetQueue,
    fileOffset,     \* next new slot of the swap file
    paged,          \* numberOfPagedOut
    sz,             \* pages of the process
    pte,            \* flags of page va: a subset of {"A", "W", "PG"}
    swapFile,       \* the swap file: the page whose contents each slot in use holds
    broken

procVars == <<pages, RAMQueue, offsetQueue, fileOffset, paged>>
pagingVars == <<policy, procVars, sz, pte, swapFile, broken>>

Nowhere == -1

\* The age a record starts with.
Age0 == IF policy = "LAPA" THEN 2^AgeBits - 1 ELSE 0
NoPage(age) == [va |-> 0, off |-> NoSlot, ram |-> FALSE, alloc |-> FALSE, age |-> age]

\* A process after its first exec, with two pages.
PagingInit ==
    /\ policy \in Policies
    /\ pages = [i \in Recs |-> IF i < 2 THEN [NoPage(Age0) EXCEPT !.va = i, !.ram = TRUE, !.alloc = TRUE]
                               ELSE NoPage(Age0)]
    /\ RAMQueue = <<0, 1>> /\ offsetQueue = << >> /\ fileOffset = 0 /\ paged = 0
    /\ sz = 2 /\ pte = [v \in Pages |-> IF v < 2 THEN {"W"} ELSE {}]
    /\ swapFile = << >>
    /\ broken = FALSE

\* What a call works on: the fields of struct proc, the page table and the file.
Now == [pages |-> pages, q |-> RAMQueue, offq |-> offsetQueue, top |-> fileOffset,
        paged |-> paged, pte |-> pte, swapFile |-> swapFile, broken |-> broken]

Becomes(s) ==
    /\ pages' = s.pages /\ RAMQueue' = s.q /\ offsetQueue' = s.offq /\ fileOffset' = s.top
    /\ paged' = s.paged /\ pte' = s.pte /\ swapFile' = s.swapFile /\ broken' = s.broken

Without(q, n) == SubSeq(q, 1, n - 1) \o SubSeq(q, n + 1, Len(q))
Lowest(S) == CHOOSE n \in S : \A k \in S : n <= k

-----------------------------------------------------------------------------
(* The policies: the place in the queue of the page to go.                 *)

Accessed(s, n) == "A" \in s.pte[s.pages[s.q[n]].va]
Full(s) == Len(s.q) = MAX_PSYC_PAGES

\* Mutant: the first page that was accessed goes.
SCFIFOAccessed(s) ==
    LET old == {n \in DOMAIN s.q : Accessed(s, n)} IN IF old = {} THEN 1 ELSE Lowest(old)

\* The first page that was not accessed; the first of all if all were.
SCFIFO(s) ==
    LET old == {n \in DOMAIN s.q : ~Accessed(s, n)} IN IF old = {} THEN 1 ELSE Lowest(old)

\* removeSCFIFO: the pages before the one that goes lose their bit and, unless
\* the whole queue was accessed, move behind the others.
removeSCFIFO(s) ==
    LET n == SCFIFO(s)
        all == \A k \in DOMAIN s.q : Accessed(s, k)
        passed == IF all THEN DOMAIN s.q ELSE 1 .. n - 1
    IN  [s EXCEPT !.q = IF all THEN Tail(s.q)
                        ELSE SubSeq(s.q, n + 1, Len(s.q)) \o SubSeq(s.q, 1, n - 1),
                  !.pte = [v \in Pages |->
                             IF \E k \in passed : s.pages[s.q[k]].va = v
                             THEN s.pte[v] \ {"A"} ELSE s.pte[v]]]

AgeOf(s, n) == s.pages[s.q[n]].age
BitsOf(a) == Cardinality({k \in 0 .. AgeBits - 1 : (a \div 2^k) % 2 = 1})

\* int curr_age: an age with its top bit on is negative.
Signed(a) == IF a >= 2^(AgeBits - 1) THEN a - 2^AgeBits ELSE a

NFUA(s) == Lowest({n \in DOMAIN s.q : \A k \in DOMAIN s.q : AgeOf(s, n) <= AgeOf(s, k)})

LAPA(s) ==
    Lowest({n \in DOMAIN s.q : \A k \in DOMAIN s.q :
        \/ BitsOf(AgeOf(s, n)) < BitsOf(AgeOf(s, k))
        \/ /\ BitsOf(AgeOf(s, n)) = BitsOf(AgeOf(s, k))
           /\ Signed(AgeOf(s, n)) <= Signed(AgeOf(s, k))})

\* selectPage: the record that goes, and what is left.  A policy that looks
\* at the places past the end of the queue uses pages[-1].
selectPage(s) ==
    CASE policy = "SCFIFO" -> [rec |-> s.q[SCFIFO(s)], s |-> removeSCFIFO(s),
                               wild |-> ~Full(s) /\ \A k \in DOMAIN s.q : Accessed(s, k)]
      [] policy = "NFUA" -> [rec |-> s.q[NFUA(s)], s |-> [s EXCEPT !.q = Without(@, NFUA(s))],
                             wild |-> ~Full(s)]
      [] policy = "LAPA" -> [rec |-> s.q[LAPA(s)], s |-> [s EXCEPT !.q = Without(@, LAPA(s))],
                             wild |-> ~Full(s)]
      [] policy = "AQ" -> [rec |-> Head(s.q), s |-> [s EXCEPT !.q = Tail(@)], wild |-> FALSE]

-----------------------------------------------------------------------------
(* Moving pages.                                                           *)

getFreeFileOffset(s) ==
    IF s.offq # << >> THEN [off |-> Head(s.offq), s |-> [s EXCEPT !.offq = Tail(@)]]
    ELSE [off |-> s.top, s |-> [s EXCEPT !.top = @ + 1]]

\* writeToSwapFile, at most at the end of the file.
Written(f, off, va) == IF off = Len(f) THEN Append(f, va) ELSE [f EXCEPT ![off + 1] = va]

\* PTE_P stays on, the frame is given back.
swapToFile(s) ==
    IF s.q = << >> THEN [s EXCEPT !.broken = TRUE]
    ELSE LET v == selectPage(s)
             f == getFreeFileOffset(v.s)
             va == s.pages[v.rec].va
         IN  IF v.wild \/ f.off > Len(s.swapFile) THEN [s EXCEPT !.broken = TRUE]
             ELSE [f.s EXCEPT !.swapFile = Written(@, f.off, va), !.paged = @ + 1,
                              !.pages[v.rec].off = f.off, !.pages[v.rec].ram = FALSE,
                              !.pte[va] = @ \cup {"PG"}]

\* insert: a full queue is a panic or worse.
insert(s, i) == IF Full(s) THEN [s EXCEPT !.broken = TRUE] ELSE [s EXCEPT !.q = Append(@, i)]

insertOffsetQueue(s, off) ==
    IF Len(s.offq) = MAX_PSYC_PAGES THEN [s EXCEPT !.broken = TRUE]
    ELSE [s EXCEPT !.offq = Append(@, off),
                   !.swapFile = [k \in DOMAIN @ |-> IF k = off + 1 THEN Nowhere ELSE @[k]]]

\* One turn of allocuvm's loop once there is a frame.
AllocPage(s, a) ==
    LET free == {i \in Recs : ~s.pages[i].alloc}
        i == Lowest(free)
    IN  IF free = {} \/ s.broken THEN [s EXCEPT !.broken = TRUE]
        ELSE insert([s EXCEPT !.pages[i] = [@ EXCEPT !.alloc = TRUE, !.va = a, !.ram = TRUE,
                                                     !.off = NoSlot],
                              !.pte[a] = {"W"}], i)

\* The test of allocuvm looks at the address, not at the queue.
AllocSwap(s, a) == IF a >= MAX_PSYC_PAGES THEN swapToFile(s) ELSE s

RecordOf(s, va) == Lowest({i \in Recs : s.pages[i].va = va /\ s.pages[i].alloc})

\* Mutant: the record of a page that goes away stays in the queue.
deallocatePageQueued(s, va) ==
    LET i == RecordOf(s, va)
        s1 == IF s.pages[i].ram THEN s ELSE insertOffsetQueue(s, s.pages[i].off)
    IN  [s1 EXCEPT !.pages[i] = NoPage(Age0), !.pte[va] = {}]

deallocatePage(s, va) ==
    LET i == RecordOf(s, va)
        s1 == IF s.pages[i].ram THEN s ELSE insertOffsetQueue(s, s.pages[i].off)
        there == {n \in DOMAIN s.q : s.q[n] = i}
    IN  [s1 EXCEPT !.pages[i] = NoPage(Age0), !.pte[va] = {},
                   !.q = IF there = {} THEN @ ELSE Without(@, Lowest(there))]

InRAM(s) == {i \in Recs : s.pages[i].alloc /\ s.pages[i].ram}

\* get_page: make room, load, give the slot back.
MakeRoom(s) == IF Cardinality(InRAM(s)) = MAX_PSYC_PAGES THEN swapToFile(s) ELSE s

LoadPage(s, va) ==
    LET i == RecordOf(s, va)
        s1 == insertOffsetQueue(s, s.pages[i].off)
    IN  IF s.broken \/ s1.broken THEN [s EXCEPT !.broken = TRUE]
        ELSE insert([s1 EXCEPT !.pages[i].ram = TRUE, !.pages[i].off = NoSlot,
                               !.pte[va] = {"W"}, !.paged = @ - 1], i)

-----------------------------------------------------------------------------
(* What the process does.                                                  *)

Running == ~broken
Idle == UNCHANGED <<policy, sz>>

\* growproc, n > 0, a page at a time.
Grow ==
    /\ Running /\ sz < MaxSize[policy]
    /\ Becomes(AllocPage(AllocSwap(Now, sz), sz)) /\ sz' = sz + 1
    /\ UNCHANGED policy

\* There is no frame for the last of n pages: the pages got before it are
\* freed and their records stay.
GrowFails(n) ==
    /\ Running /\ sz + n <= MaxSize[policy]
    /\ Becomes(IF n = 1 THEN AllocSwap(Now, sz)
               ELSE [AllocPage(AllocSwap(Now, sz), sz) EXCEPT !.broken = TRUE])
    /\ Idle

\* growproc, n < 0, a page at a time; numberOfPagedOut is left alone.
Shrink ==
    /\ Running /\ sz > 1
    /\ pages[RecordOf(Now, sz - 1)].ram \/
           paged - Cardinality({i \in Recs : pages[i].alloc /\ ~pages[i].ram}) < MaxLeak[policy]
    /\ Becomes(deallocatePage(Now, sz - 1)) /\ sz' = sz - 1
    /\ UNCHANGED policy

\* The processor notes an access, which AQ never asks for.  A page that was
\* swapped out is still marked present and does not fault.
Touch(va) ==
    /\ Running /\ va < sz /\ "A" \notin pte[va] /\ policy # "AQ"
    /\ Becomes([Now EXCEPT !.pte[va] = @ \cup {"A"}])
    /\ Idle

\* A write to a page that fork made read-only: trap asks is_PG_on.
WriteFault(va) ==
    /\ Running /\ va < sz /\ "W" \notin pte[va]
    /\ IF "PG" \in pte[va]
       THEN \/ Becomes(LoadPage(MakeRoom(Now), va))
            \/ Becomes(MakeRoom(Now))               \* kalloc failed
       ELSE \/ Becomes([Now EXCEPT !.pte[va] = @ \cup {"W"}])
            \/ Becomes([Now EXCEPT !.pte[va] = {"W"}])   \* a copy of a shared frame
    /\ Idle

ReadOnly(t) == [v \in Pages |-> t[v] \ {"W"}]

\* fork, going on as the parent ...
ForkParent ==
    /\ Running /\ Becomes([Now EXCEPT !.pte = ReadOnly(@)])
    /\ Idle

\* ... or as the child, whose file gets the first numberOfPagedOut slots.
ForkChild ==
    /\ Running
    /\ Becomes([Now EXCEPT !.pte = ReadOnly(@),
                           !.swapFile = [k \in 1 .. paged |-> IF k \in DOMAIN @ THEN @[k] ELSE Nowhere],
                           !.broken = \E i \in Recs : pages[i].off >= paged])
    /\ Idle

\* The scheduler, when the process has run.  advanceQueue's loop runs from
\* MAX_PSYC_PAGES - 1 while i < 0, that is never.
AfterRun ==
    /\ Running
    /\ policy \in {"NFUA", "LAPA"}
    /\ Becomes([Now EXCEPT
           !.pages = [i \in Recs |->
               IF ~pages[i].alloc THEN pages[i]
               ELSE [pages[i] EXCEPT !.age = (@ \div 2) +
                        (IF "A" \in pte[pages[i].va] THEN 2^(AgeBits - 1) ELSE 0)]],
           !.pte = [v \in Pages |-> pte[v] \ {"A"}]])
    /\ Idle

-----------------------------------------------------------------------------
(* exec                                                                    *)

\* initPagesData; the ages stay.
initPagesData(s) ==
    [s EXCEPT !.pages = [i \in Recs |-> NoPage(s.pages[i].age)],
              !.q = << >>, !.offq = << >>, !.top = 0, !.paged = 0,
              !.pte = [v \in Pages |-> {}]]

\* The new image has n pages, each in the first free record; to swap while it
\* is built mixes two images up.
NewImage(n) ==
    LET s == initPagesData(Now)
    IN  IF n > MAX_PSYC_PAGES THEN [s EXCEPT !.broken = TRUE]
        ELSE [s EXCEPT
                !.pages = [i \in Recs |->
                    IF i < n THEN [@[i] EXCEPT !.alloc = TRUE, !.va = i, !.ram = TRUE] ELSE @[i]],
                !.q = [k \in 1 .. n |-> k - 1],
                !.pte = [v \in Pages |-> IF v < n THEN {"W"} ELSE {}]]

\* removeSwapFile and createSwapFile: an empty file under the old name.
FreshSwapFile(s) == [s EXCEPT !.swapFile = << >>]

\* The new image and a new swap file.
Exec(n) ==
    /\ Running
    /\ Becomes(FreshSwapFile(NewImage(n)))
    /\ sz' = n
    /\ UNCHANGED policy

\* Mutant: the queue of free slots is not put back.
RestoreNoOffsets(s, old) ==
    [s EXCEPT !.pages = [i \in Recs |-> [old.pages[i] EXCEPT !.age = s.pages[i].age]],
              !.q = old.q, !.top = old.top, !.paged = old.paged, !.pte = old.pte]

restoreFromBackup(s, old) ==
    [s EXCEPT !.pages = [i \in Recs |-> [old.pages[i] EXCEPT !.age = s.pages[i].age]],
              !.q = old.q, !.offq = old.offq, !.top = old.top,
              !.paged = old.paged, !.pte = old.pte]

\* exec fails with n pages allocated.
ExecFails(n) ==
    /\ Running
    /\ Becomes(restoreFromBackup(NewImage(n), Now))
    /\ Idle

-----------------------------------------------------------------------------
PagingNext ==
    \/ Grow \/ Shrink \/ \E n \in 1 .. 2 : GrowFails(n)
    \/ \E va \in Recs : Touch(va) \/ WriteFault(va)
    \/ ForkParent \/ ForkChild \/ AfterRun
    \/ \E n \in 2 .. MAX_PSYC_PAGES + 1 : Exec(n)
    \/ \E n \in 0 .. MAX_PSYC_PAGES + 1 : ExecFails(n)

PagingSpec == PagingInit /\ [][PagingNext]_pagingVars

-----------------------------------------------------------------------------
Swapped == {i \in Recs : pages[i].alloc /\ ~pages[i].ram}

\* The queue lists the pages in memory, each once, they are never more than
\* MAX_PSYC_PAGES, and the records are those of the process's pages: through
\* growth, shrinking, faults, fork and an exec that fails.
QueueExact ==
    ~broken =>
        /\ Range(RAMQueue) = InRAM(Now) /\ Cardinality(InRAM(Now)) = Len(RAMQueue)
        /\ Len(RAMQueue) <= MAX_PSYC_PAGES
        /\ {pages[i].va : i \in {j \in Recs : pages[j].alloc}} = 0 .. sz - 1
        /\ Cardinality({j \in Recs : pages[j].alloc}) = sz

\* Every slot of the swap file belongs to one page or waits once in the queue
\* of free ones, none is lost, and the slot of a page holds that page.
SlotsExact ==
    ~broken =>
        LET inUse == {pages[i].off : i \in Swapped}
        IN  /\ Cardinality(inUse) = Cardinality(Swapped)
            /\ Cardinality(Range(offsetQueue)) = Len(offsetQueue)
            /\ inUse \cap Range(offsetQueue) = {}
            /\ inUse \cup Range(offsetQueue) = 0 .. fileOffset - 1
            /\ \A i \in Swapped : swapFile[pages[i].off + 1] = pages[i].va

\* Both: pages in memory and slots of the swap file are each accounted for.
PagesAccounted == QueueExact /\ SlotsExact

\* Who goes: no page that was accessed while one in memory was not (SCFIFO),
\* none that is older in use than another (NFUA, LAPA), the first in (AQ).
VictimFair ==
    [][\A i \in Recs :
        ~broken' /\ pages[i].ram /\ pages'[i].alloc /\ ~pages'[i].ram /\ pages'[i].va = pages[i].va =>
            CASE policy = "SCFIFO" ->
                     "A" \notin pte[pages[i].va] \/ \A k \in InRAM(Now) : "A" \in pte[pages[k].va]
              [] policy = "NFUA" -> \A k \in InRAM(Now) : pages[i].age <= pages[k].age
              [] policy = "LAPA" -> \A k \in InRAM(Now) : BitsOf(pages[i].age) <= BitsOf(pages[k].age)
              [] policy = "AQ" -> i = Head(RAMQueue)]_pagingVars
=============================================================================
