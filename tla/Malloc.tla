------------------------------- MODULE Malloc -------------------------------
(***************************************************************************)
(* The allocator of the user programs (os-master/umalloc.c): a circular    *)
(* list of free blocks in order of address, first fit from freep, and      *)
(* neighbours joined when a block is freed.  Addresses and sizes are       *)
(* counted in Headers.  base lies below the heap, which sbrk extends.      *)
(* Words that are no longer part of a Header are set back to nothing: they *)
(* are written before they are read again.                                 *)
(***************************************************************************)
EXTENDS Integers, FiniteSets

CONSTANTS
    HeapMax,        \* bound: where sbrk must fail
    Core,           \* the least morecore asks for (4096)
    Requests,       \* sizes asked for, with their header
    MaxHoles        \* bound: units the program takes with sbrk itself

ASSUME MallocAssumption == HeapMax \in Nat \ {0} /\ Core \in Nat \ {0} /\ Requests \subseteq Nat \ {0, 1}

base == 0
NoBlock == -1
Addrs == 0 .. HeapMax

VARIABLES
    heap,       \* freep, and ptr and size of the Header at each address; brk: the break
    asked,      \* history: the units given to the program at an address
    holes       \* history: the units the program took with sbrk

mallocVars == <<heap, asked, holes>>

MallocInit ==
    /\ heap = [freep |-> NoBlock, ptr |-> [a \in Addrs |-> NoBlock],
               size |-> [a \in Addrs |-> 0], brk |-> 1]
    /\ asked = [a \in Addrs |-> 0]
    /\ holes = {}

Lowest(S) == CHOOSE k \in S : \A j \in S : k <= j

\* The list as a loop over it meets it, from freep on.
Walk(h) ==
    LET walk[k \in Addrs] == IF k = 0 THEN h.freep ELSE h.ptr[walk[k - 1]] IN walk

\* Mutant: a block is not joined with the one above it.
JoinUpNot(h, bp, p) == [h EXCEPT !.ptr[bp] = h.ptr[p]]

\* The block above bp becomes part of bp, or follows it.
JoinUp(h, bp, p) ==
    LET up == h.ptr[p]
    IN  IF bp + h.size[bp] = up
        THEN [h EXCEPT !.size = [@ EXCEPT ![bp] = h.size[bp] + h.size[up], ![up] = 0],
                       !.ptr = [@ EXCEPT ![bp] = h.ptr[up], ![up] = NoBlock]]
        ELSE [h EXCEPT !.ptr[bp] = up]

\* bp becomes part of the block p below it, or follows it.
JoinDown(h, bp, p) ==
    IF p + h.size[p] = bp
    THEN [h EXCEPT !.size = [@ EXCEPT ![p] = h.size[p] + h.size[bp], ![bp] = 0],
                   !.ptr = [@ EXCEPT ![p] = h.ptr[bp], ![bp] = NoBlock]]
    ELSE [h EXCEPT !.ptr[p] = bp]

\* free: find the place of bp, then join.
free(h, bp) ==
    LET walk == Walk(h)
        place == {k \in Addrs : LET p == walk[k] IN
                    \/ bp > p /\ bp < h.ptr[p]
                    \/ p >= h.ptr[p] /\ (bp > p \/ bp < h.ptr[p])}
        p == walk[Lowest(place)]
    IN  [JoinDown(JoinUp(h, bp, p), bp, p) EXCEPT !.freep = p]

Asks(n) == IF n < Core THEN Core ELSE n

\* morecore, when sbrk has nu units.
morecore(h, nu) ==
    free([h EXCEPT !.brk = @ + nu, !.size[h.brk] = nu], h.brk)

\* The first call makes the list.
Started(h) ==
    IF h.freep # NoBlock THEN h ELSE [h EXCEPT !.freep = base, !.ptr[base] = base, !.size[base] = 0]

\* Places in the list, up to and with freep, whose block is large enough.
Fits(h, n) ==
    LET walk == Walk(h)
        last == Lowest({k \in Addrs \ {0} : walk[k] = h.freep})
    IN  {k \in 1 .. last : h.size[walk[k]] >= n}

\* Take the block, or its upper end.
Take(h, n) ==
    LET k == Lowest(Fits(h, n))
        prevp == Walk(h)[k - 1]
        p == Walk(h)[k]
        rest == h.size[p] - n
    IN  IF rest = 0
        THEN [at |-> p, h |-> [h EXCEPT !.ptr = [@ EXCEPT ![prevp] = h.ptr[p], ![p] = NoBlock],
                                           !.freep = prevp]]
        ELSE [at |-> p + rest,
              h |-> [h EXCEPT !.size = [@ EXCEPT ![p] = rest, ![p + rest] = n], !.freep = prevp]]

Give(t, n) == heap' = t.h /\ asked' = [asked EXCEPT ![t.at] = n] /\ UNCHANGED holes

\* malloc finds a block, or gets more memory first.
malloc(n) ==
    LET h == Started(heap)
        more == morecore(h, Asks(n))
    IN  IF Fits(h, n) # {} THEN Give(Take(h, n), n)
        ELSE h.brk + Asks(n) <= HeapMax /\ Give(Take(more, n), n)

\* sbrk fails: malloc returns 0.
mallocFails(n) ==
    /\ Fits(Started(heap), n) = {}
    /\ heap' = Started(heap) /\ UNCHANGED <<asked, holes>>

Free(a) ==
    /\ asked[a] > 0
    /\ heap' = free(heap, a) /\ asked' = [asked EXCEPT ![a] = 0]
    /\ UNCHANGED holes

\* The program calls sbrk itself.
sbrk ==
    /\ Cardinality(holes) < MaxHoles /\ heap.brk < HeapMax
    /\ holes' = holes \cup {heap.brk} /\ heap' = [heap EXCEPT !.brk = @ + 1]
    /\ UNCHANGED asked

MallocNext ==
    \/ \E n \in Requests : malloc(n) \/ mallocFails(n)
    \/ \E a \in Addrs : Free(a)
    \/ sbrk

MallocSpec == MallocInit /\ [][MallocNext]_mallocVars

-----------------------------------------------------------------------------
\* Through any sequence of malloc, free and sbrk every unit below the break is
\* in one free block, in one block given out or the program's own; a block
\* given out keeps the size asked for; the list runs once through the free
\* blocks in order of address, and no two of them touch.
HeapExact ==
    heap.freep # NoBlock =>
        LET walk == Walk(heap)
            ring == {walk[k] : k \in Addrs}
            given == {a \in Addrs : asked[a] > 0}
            Units(a) == a .. a + heap.size[a] - 1
            Owners(u) == {a \in (ring \ {base}) \cup given : u \in Units(a)}
        IN  /\ base \in ring /\ ring \cap given = {}
            /\ \A p \in ring : heap.ptr[p] =
                   LET above == {q \in ring : q > p} IN IF above = {} THEN base ELSE Lowest(above)
            /\ \A a \in given : heap.size[a] = asked[a]
            /\ \A u \in Addrs :
                   Cardinality(Owners(u)) = IF u \in 1 .. heap.brk - 1 /\ u \notin holes THEN 1 ELSE 0
            /\ \A a \in ring \ {base} : a + heap.size[a] \notin ring
=============================================================================
