----------------------------- MODULE PipeProofs -----------------------------
(***************************************************************************)
(* The pipe (pipe.c) is a bounded queue of bytes, its page outlives its    *)
(* users and nobody sleeps for nothing: for any processes, messages and    *)
(* sizes, and wherever nread and nwrite wrap.                              *)
(*                                                                         *)
(* PageSafe rests on who can still reach the page: pipeclose frees it      *)
(* after both flags are cleared, each by the last descriptor of its end    *)
(* (Ends).  That the bytes come out as they went in rests on the slots     *)
(* between nread and nwrite being distinct modulo PIPESIZE, also where     *)
(* the counters wrap, which needs PIPESIZE to divide MOD.                  *)
(***************************************************************************)
EXTENDS Pipe, SequenceTheorems, TLAPS

\* The locals of calls, as functions; pipewrite starts with
\* i = 0, and piperead has an n.
Locals ==
  /\ msg \in [Writer -> Message \cup {<<>>}] /\ i \in [Writer -> Nat]
  /\ want \in [Reader -> Count \cup {0}] /\ got \in Seq(Byte)
  /\ \A w \in Writer : pc[w] \notin {"write", "wsleep"} => i[w] = 0
  /\ \A r \in Reader : pc[r] \in {"read", "rsleep"} => want[r] \in Count

\* A descriptor is open from pipealloc or filedup to fileclose; calls are made
\* on open descriptors, by processes of that end.
Descriptors ==
  \A p \in Proc :
    /\ p \in open <=> pc[p] \in Calling \cup {"idle"}
    /\ pc[p] \in {"write", "wsleep"} => p \in Writer
    /\ pc[p] \in {"read", "rsleep"} => p \in Reader

\* Nobody has a descriptor of the end S, or is about to close it.
Deserted(S) == \A p \in S : p \notin open /\ pc[p] # "closing"

\* An end is open until its last descriptor is gone.
Ends ==
  /\ readopen = FALSE => Deserted(Reader)
  /\ writeopen = FALSE => Deserted(Writer)
  /\ freed = TRUE => readopen = FALSE /\ writeopen = FALSE
  /\ \A p \in Proc : pc[p] = "closing" =>
       \A q \in Peers(p) : q \notin open /\ (pc[q] = "closing" => q = p)

\* NobodyForgotten, with Boolean variables compared.
Woken ==
  /\ (\A w \in Writer : killed[w] = FALSE) =>
       \A r \in Reader : pc[r] = "rsleep" => nread = nwrite /\ writeopen = TRUE
  /\ \A w \in Writer : pc[w] = "wsleep" => Used = PIPESIZE /\ readopen = TRUE

\* The inductive invariant.
IInv == TypeOK /\ Locals /\ Descriptors /\ Ends /\ Woken

-----------------------------------------------------------------------------
(* Arithmetic of the counters.                                             *)

\* Quotient and remainder are unique.
LEMMA Remainder ==
  ASSUME NEW m \in Nat \ {0}, NEW q \in Int, NEW r \in 0..(m - 1)
  PROVE  (m * q + r) % m = r
<1> DEFINE a == m * q + r
           d == a \div m
           e == a % m
<1>1. a \in Int /\ d \in Int /\ e \in 0..(m - 1) /\ m * d \in Int /\ m * q \in Int
  OBVIOUS
<1>2. e = a - m * d
  BY <1>1
<1>3. ASSUME NEW x \in Int, NEW y \in Int, x < y PROVE m * x + m <= m * y
  <2>1. y - (x + 1) \in Nat
    BY <1>3
  <2>2. m * (y - (x + 1)) >= 0
    BY <2>1
  <2>3. m * (y - (x + 1)) = m * y - m * x - m
    OBVIOUS
  <2>4. m * x \in Int /\ m * y \in Int
    OBVIOUS
  <2> QED
    BY <2>2, <2>3, <2>4
<1>4. ~(d < q)
  BY <1>1, <1>2, <1>3
<1>5. ~(q < d)
  BY <1>1, <1>2, <1>3
<1>6. d = q
  BY <1>1, <1>4, <1>5
<1> HIDE DEF d
<1> QED
  BY <1>1, <1>2, <1>6

\* The distance between two counters, whichever has wrapped.
LEMMA Distance ==
  ASSUME NEW a \in 0..(MOD - 1), NEW b \in 0..(MOD - 1)
  PROVE  (b - a) % MOD = IF b >= a THEN b - a ELSE b - a + MOD
<1>1. CASE b >= a
  <2>1. b - a \in 0..(MOD - 1) /\ b - a = MOD * 0 + (b - a)
    BY <1>1, PipeAssumption
  <2> QED
    BY <1>1, <2>1, Remainder, PipeAssumption
<1>2. CASE b < a
  <2>1. b - a + MOD \in 0..(MOD - 1) /\ b - a = MOD * (-1) + (b - a + MOD)
    BY <1>2, PipeAssumption
  <2>2. (MOD * (-1) + (b - a + MOD)) % MOD = b - a + MOD
    BY <2>1, Remainder, PipeAssumption
  <2> QED
    BY <1>2, <2>1, <2>2, PipeAssumption
<1> QED
  BY <1>1, <1>2, PipeAssumption

\* A counter after k steps of at most the size of the pipe.
LEMMA Advance ==
  ASSUME NEW n \in 0..(MOD - 1), NEW k \in 0..PIPESIZE
  PROVE  /\ (n + k) % MOD = IF n + k < MOD THEN n + k ELSE n + k - MOD
         /\ (n + k) % MOD \in 0..(MOD - 1)
<1> USE PipeAssumption
<1>1. CASE n + k < MOD
  <2>1. n + k \in 0..(MOD - 1) /\ n + k = MOD * 0 + (n + k)
    BY <1>1
  <2> QED
    BY <1>1, <2>1, Remainder
<1>2. CASE n + k >= MOD
  <2>1. n + k - MOD \in 0..(MOD - 1) /\ n + k = MOD * 1 + (n + k - MOD)
    BY <1>2
  <2> QED
    BY <1>2, <2>1, Remainder
<1> QED
  BY <1>1, <1>2

\* Indices less than the size of the pipe apart are different slots.
LEMMA Slots ==
  ASSUME NEW a \in Nat, NEW b \in Nat, a < b, b < a + PIPESIZE
  PROVE  a % PIPESIZE # b % PIPESIZE
<1> USE PipeAssumption
<1> DEFINE q == a \div PIPESIZE
           r == a % PIPESIZE
<1>1. q \in Int /\ r \in 0..(PIPESIZE - 1) /\ PIPESIZE * q \in Int /\ a = PIPESIZE * q + r
  <2>1. q \in Int /\ r \in 0..(PIPESIZE - 1) /\ r = a - PIPESIZE * q
    OBVIOUS
  <2>2. PIPESIZE * q \in Int
    BY <2>1
  <2> HIDE DEF q, r
  <2> QED
    BY <2>1, <2>2
<1> HIDE DEF q, r
<1>2. CASE r + (b - a) < PIPESIZE
  <2>1. b = PIPESIZE * q + (r + (b - a)) /\ r + (b - a) \in 0..(PIPESIZE - 1)
    BY <1>1, <1>2
  <2>2. b % PIPESIZE = r + (b - a)
    BY <1>1, <2>1, Remainder, ZenonT(30)
  <2> QED
    BY <1>1, <2>2 DEF r
<1>3. CASE r + (b - a) >= PIPESIZE
  <2>1. PIPESIZE * (q + 1) = PIPESIZE * q + PIPESIZE
    BY <1>1
  <2>2. b = PIPESIZE * (q + 1) + (r + (b - a) - PIPESIZE) /\ r + (b - a) - PIPESIZE \in 0..(PIPESIZE - 1)
    BY <1>1, <1>3, <2>1
  <2>3. q + 1 \in Int
    BY <1>1
  <2>4. b % PIPESIZE = r + (b - a) - PIPESIZE
    BY <2>2, <2>3, Remainder
  <2> QED
    BY <1>1, <2>4 DEF r
<1> QED
  BY <1>1, <1>2, <1>3

\* The counters wrap where the index does.
LEMMA Wrapped ==
  ASSUME NEW a \in Nat, a >= MOD
  PROVE  (a - MOD) % PIPESIZE = a % PIPESIZE
<1> USE PipeAssumption
<1> DEFINE q == (a - MOD) \div PIPESIZE
           r == (a - MOD) % PIPESIZE
           z == MOD \div PIPESIZE
<1>1. q \in Int /\ r \in 0..(PIPESIZE - 1) /\ z \in Int
  OBVIOUS
<1>2. r = (a - MOD) - PIPESIZE * q /\ MOD % PIPESIZE = MOD - PIPESIZE * z
  OBVIOUS
<1> HIDE DEF q, r, z
<1>3. PIPESIZE * q \in Int /\ PIPESIZE * z \in Int /\ PIPESIZE * (q + z) = PIPESIZE * q + PIPESIZE * z
  BY <1>1
<1>4. MOD = PIPESIZE * z
  BY <1>2, <1>3
<1>5. a = PIPESIZE * (q + z) + r
  BY <1>1, <1>2, <1>3, <1>4
<1>6. a % PIPESIZE = r
  BY <1>1, <1>5, Remainder
<1> QED
  BY <1>6 DEF r

\* What the calls are given.
LEMMA Arguments ==
  /\ \A m \in Message : m \in Seq(Byte) /\ Len(m) \in Nat
  /\ \A n \in Count : n \in Nat \ {0}
<1>1. \A m \in Message : m \in Seq(Byte)
  BY PipeAssumption
<1>2. \A n \in Count : n \in Nat \ {0}
  <2>1. Count \subseteq Nat \ {0}
    BY PipeAssumption
  <2> QED
    BY <2>1
<1> QED
  BY <1>1, <1>2

\* The least of two numbers.
LEMMA MinOfTwo ==
  ASSUME NEW a \in Int, NEW b \in Int
  PROVE  Min({a, b}) = IF a <= b THEN a ELSE b
<1> DEFINE x == IF a <= b THEN a ELSE b
<1>1. x \in {a, b} /\ \A y \in {a, b} : x <= y
  OBVIOUS
<1>2. ASSUME NEW z \in {a, b}, \A y \in {a, b} : z <= y PROVE z = x
  BY <1>2
<1>3. Min({a, b}) \in {a, b} /\ \A y \in {a, b} : Min({a, b}) <= y
  <2> HIDE DEF x
  <2> QED
  BY <1>1, Zenon DEF Min
<1> QED
  BY <1>2, <1>3

\* The greatest of one number.
LEMMA MaxOfOne ==
  ASSUME NEW a \in Int
  PROVE  Max({a}) = a
<1>1. \A y \in {a} : a >= y
  OBVIOUS
<1> QED
  BY <1>1, Zenon DEF Max

-----------------------------------------------------------------------------
(* The ring.                                                               *)

\* How much of the ring is used; none of it when the counters are equal.
LEMMA UsedIs ==
  ASSUME TypeOK
  PROVE  /\ Used = IF nwrite >= nread THEN nwrite - nread ELSE nwrite - nread + MOD
         /\ Used \in 0..PIPESIZE
         /\ Used = 0 <=> nread = nwrite
<1>1. nread \in 0..(MOD - 1) /\ nwrite \in 0..(MOD - 1) /\ Used <= PIPESIZE
  BY DEF TypeOK
<1>2. Used = IF nwrite >= nread THEN nwrite - nread ELSE nwrite - nread + MOD
  BY <1>1, Distance DEF Used
<1> QED
  BY <1>1, <1>2, PipeAssumption

\* The slots that p->nwrite++ goes through are different, and k of them change.
LEMMA StoredAt ==
  ASSUME TypeOK, NEW w \in Writer, NEW k \in 0..PIPESIZE
  PROVE  /\ DOMAIN Stored(w, k) = 0..(PIPESIZE - 1)
         /\ \A m \in 0..(k - 1) :
              Stored(w, k)[(nwrite + m) % PIPESIZE] = msg[w][i[w] + m + 1]
         /\ \A j \in 0..(PIPESIZE - 1) :
              (\A m \in 0..(k - 1) : (nwrite + m) % PIPESIZE # j) => Stored(w, k)[j] = data[j]
<1> USE PipeAssumption
<1> DEFINE M(j) == {m \in 0..(k - 1) : (nwrite + m) % PIPESIZE = j}
           at(j) == IF M(j) = {} THEN data[j] ELSE msg[w][i[w] + Max(M(j)) + 1]
<1>1. Stored(w, k) = [j \in 0..(PIPESIZE - 1) |-> at(j)]
  BY Zenon DEF Stored
<1>2. nwrite \in Nat
  BY DEF TypeOK
<1>3. ASSUME NEW m \in 0..(k - 1) PROVE M((nwrite + m) % PIPESIZE) = {m}
  <2>1. ASSUME NEW x \in 0..(k - 1), NEW y \in 0..(k - 1), x < y
        PROVE  (nwrite + x) % PIPESIZE # (nwrite + y) % PIPESIZE
    <3>1. nwrite + x \in Nat /\ nwrite + y \in Nat /\ nwrite + x < nwrite + y
          /\ nwrite + y < nwrite + x + PIPESIZE
      BY <1>2, <2>1
    <3> QED
      BY <3>1, Slots
  <2> QED
    BY <2>1
<1>4. ASSUME NEW m \in 0..(k - 1) PROVE (nwrite + m) % PIPESIZE \in 0..(PIPESIZE - 1)
  BY <1>2
<1>5. ASSUME NEW m \in 0..(k - 1)
      PROVE  Stored(w, k)[(nwrite + m) % PIPESIZE] = msg[w][i[w] + m + 1]
  <2>1. Max(M((nwrite + m) % PIPESIZE)) = m
    BY <1>3, MaxOfOne
  <2>2. at((nwrite + m) % PIPESIZE) = msg[w][i[w] + m + 1]
    BY <1>3, <2>1
  <2> HIDE DEF at
  <2> QED
    BY <1>1, <1>4, <2>2
<1>6. ASSUME NEW j \in 0..(PIPESIZE - 1), \A m \in 0..(k - 1) : (nwrite + m) % PIPESIZE # j
      PROVE  Stored(w, k)[j] = data[j]
  <2>1. M(j) = {}
    BY <1>6
  <2> HIDE DEF M
  <2> QED
    BY <1>1, <2>1
<1> HIDE DEF at
<1> QED
  BY <1>1, <1>5, <1>6

\* How much one turn of the loop of pipewrite copies.
Fits(w) == Min({Len(msg[w]) - i[w], Space})

\* What pipewrite stores before it sleeps or returns fits into data[].
LEMMA FitsIs ==
  ASSUME TypeOK, Locals, NEW w \in Writer
  PROVE  /\ Fits(w) \in 0..PIPESIZE
         /\ Fits(w) + Used <= PIPESIZE /\ Fits(w) + i[w] <= Len(msg[w])
         /\ i[w] + Fits(w) # Len(msg[w]) => Fits(w) + Used = PIPESIZE
         /\ Len(msg[w]) \in Nat /\ i[w] \in Nat /\ msg[w] \in Seq(Byte)
<1>1. msg[w] \in Seq(Byte)
  <2>1. msg[w] \in Message \cup {<<>>}
    BY DEF Locals
  <2>2. <<>> \in Seq(Byte)
    OBVIOUS
  <2> QED
    BY <2>1, <2>2, PipeAssumption
<1>2. Len(msg[w]) \in Nat /\ i[w] \in Nat /\ i[w] <= Len(msg[w])
  BY <1>1 DEF TypeOK
<1>3. Space \in 0..PIPESIZE /\ Space = PIPESIZE - Used /\ Used \in 0..PIPESIZE
  BY UsedIs, PipeAssumption DEF Space
<1>4. Fits(w) = IF Len(msg[w]) - i[w] <= Space THEN Len(msg[w]) - i[w] ELSE Space
  BY <1>2, <1>3, MinOfTwo, PipeAssumption DEF Fits
<1> QED
  BY <1>1, <1>2, <1>3, <1>4, PipeAssumption

\* How much piperead copies.
Takes(r) == Min({want[r], Used})

\* What piperead takes was written.
LEMMA TakesIs ==
  ASSUME TypeOK, Locals, NEW r \in Reader
  PROVE  Takes(r) \in 0..PIPESIZE /\ Takes(r) <= Used /\ Used \in 0..PIPESIZE
<1>1. want[r] \in Nat
  <2>1. want[r] \in Count \cup {0}
    BY DEF Locals
  <2> QED
    BY <2>1, Arguments
<1>2. Used \in 0..PIPESIZE
  BY UsedIs
<1>3. Takes(r) = IF want[r] <= Used THEN want[r] ELSE Used
  BY <1>1, <1>2, MinOfTwo, PipeAssumption DEF Takes
<1> QED
  BY <1>1, <1>2, <1>3, PipeAssumption

\* The ring holds bytes.
LEMMA StoredBytes ==
  ASSUME TypeOK, Locals, NEW w \in Writer
  PROVE  Stored(w, Fits(w)) \in [0..(PIPESIZE - 1) -> Byte]
<1> DEFINE k == Fits(w)
<1>1. k \in 0..PIPESIZE /\ k + i[w] <= Len(msg[w]) /\ i[w] \in Nat /\ msg[w] \in Seq(Byte) /\ Len(msg[w]) \in Nat
  BY FitsIs
<1> HIDE DEF k
<1>2. ASSUME NEW j \in 0..(PIPESIZE - 1) PROVE Stored(w, k)[j] \in Byte
  <2>1. CASE \A m \in 0..(k - 1) : (nwrite + m) % PIPESIZE # j
    BY <1>1, <2>1, StoredAt, ZenonT(30) DEF TypeOK
  <2>2. ASSUME NEW m \in 0..(k - 1), (nwrite + m) % PIPESIZE = j PROVE Stored(w, k)[j] \in Byte
    <3>1. Stored(w, k)[j] = msg[w][i[w] + m + 1]
      BY <1>1, <2>2, StoredAt
    <3>2. i[w] + m + 1 \in 1..Len(msg[w])
      BY <1>1, PipeAssumption
    <3> QED
      BY <1>1, <3>1, <3>2
  <2> QED
    BY <2>1, <2>2
<1>3. Stored(w, k) = [j \in 0..(PIPESIZE - 1) |-> Stored(w, k)[j]]
  BY DEF Stored
<1>4. Stored(w, k) \in [0..(PIPESIZE - 1) -> Byte]
  BY <1>2, <1>3
<1> QED
  BY <1>4 DEF k

\* Used after a turn of pipewrite, and after piperead.
LEMMA UsedAfterWrite ==
  ASSUME TypeOK, NEW k \in 0..PIPESIZE, k + Used <= PIPESIZE,
         nwrite' = (nwrite + k) % MOD, nread' = nread
  PROVE  nwrite' \in 0..(MOD - 1) /\ Used' = Used + k
<1>1. nread \in 0..(MOD - 1) /\ nwrite \in 0..(MOD - 1)
  BY DEF TypeOK
<1>2. /\ nwrite' = IF nwrite + k < MOD THEN nwrite + k ELSE nwrite + k - MOD
      /\ nwrite' \in 0..(MOD - 1)
  BY <1>1, Advance
<1>3. Used' = IF nwrite' >= nread THEN nwrite' - nread ELSE nwrite' - nread + MOD
  BY <1>1, <1>2, Distance DEF Used
<1> QED
  BY <1>1, <1>2, <1>3, UsedIs, PipeAssumption

\* piperead makes room for what it took, across a wrap of nread.
LEMMA UsedAfterRead ==
  ASSUME TypeOK, NEW k \in 0..PIPESIZE, k <= Used,
         nread' = (nread + k) % MOD, nwrite' = nwrite
  PROVE  nread' \in 0..(MOD - 1) /\ Used' = Used - k
<1>1. nread \in 0..(MOD - 1) /\ nwrite \in 0..(MOD - 1)
  BY DEF TypeOK
<1>2. /\ nread' = IF nread + k < MOD THEN nread + k ELSE nread + k - MOD
      /\ nread' \in 0..(MOD - 1)
  BY <1>1, Advance
<1>3. Used' = IF nwrite >= nread' THEN nwrite - nread' ELSE nwrite - nread' + MOD
  BY <1>1, <1>2, Distance DEF Used
<1> QED
  BY <1>1, <1>2, <1>3, UsedIs, PipeAssumption

\* What is read are bytes of the ring.
LEMMA TakenBytes ==
  ASSUME TypeOK, NEW k \in 0..PIPESIZE
  PROVE  Taken(k) \in Seq(Byte) /\ Len(Taken(k)) = k
<1>1. nread \in Nat /\ k \in Nat
  BY PipeAssumption DEF TypeOK
<1>2. ASSUME NEW m \in 1..k PROVE data[(nread + m - 1) % PIPESIZE] \in Byte
  <2>1. nread + m - 1 \in Int
    BY <1>1
  <2>2. (nread + m - 1) % PIPESIZE \in 0..(PIPESIZE - 1)
    BY <2>1, PipeAssumption
  <2> QED
    BY <2>2 DEF TypeOK
<1> QED
  BY <1>1, <1>2 DEF Taken

-----------------------------------------------------------------------------
(* The invariant, action by action.                                        *)

\* write() enters pipewrite with i = 0.
LEMMA WriteCallIInv ==
  ASSUME IInv, NEW w \in Writer, NEW m \in Message, WriteCall(w, m)
  PROVE  IInv'
<1> USE PipeAssumption DEF IInv, WriteCall, Goto, pipe, Proc, Points, Calling
<1>1. TypeOK'
  <2>1. Len(m) \in Nat /\ i[w] = 0
    BY Arguments DEF Locals
  <2>2. \A v \in Writer : msg'[v] \in Message \cup {<<>>} /\ i'[v] \in 0..Len(msg'[v])
    BY <2>1 DEF TypeOK, Locals
  <2> QED
    BY <2>2 DEF TypeOK, Used
<1>2. Locals'
  BY DEF TypeOK, Locals
<1>3. Descriptors'
  BY DEF TypeOK, Descriptors
<1>4. Ends'
  BY DEF TypeOK, Descriptors, Ends, Deserted, Peers
<1>5. Woken'
  BY DEF TypeOK, Woken, Used, Descriptors, Ends, Deserted
<1> QED
  BY <1>1, <1>2, <1>3, <1>4, <1>5

\* read() enters piperead.
LEMMA ReadCallIInv ==
  ASSUME IInv, NEW r \in Reader, NEW n \in Count, ReadCall(r, n)
  PROVE  IInv'
<1> USE PipeAssumption DEF IInv, ReadCall, Goto, pipe, Proc, Points, Calling
<1>1. TypeOK'
  BY DEF TypeOK, Used, Locals
<1>2. Locals'
  BY DEF TypeOK, Locals
<1>3. Descriptors'
  BY DEF TypeOK, Descriptors
<1>4. Ends'
  BY DEF TypeOK, Descriptors, Ends, Deserted, Peers
<1>5. Woken'
  BY DEF TypeOK, Woken, Used, Descriptors, Ends, Deserted
<1> QED
  BY <1>1, <1>2, <1>3, <1>4, <1>5

\* piperead sleeps only on an empty pipe that can still be written.
LEMMA PipeReadWaitIInv ==
  ASSUME IInv, NEW r \in Reader, PipeReadWait(r)
  PROVE  IInv'
<1> USE PipeAssumption DEF IInv, PipeReadWait, MustWait, Goto, pipe, Proc, Points, Calling
<1>1. TypeOK'
  BY ZenonT(30) DEF TypeOK, Used, Locals
<1>2. Locals'
  BY ZenonT(30) DEF TypeOK, Locals
<1>3. Descriptors'
  BY DEF TypeOK, Descriptors
<1>4. Ends'
  BY DEF TypeOK, Descriptors, Ends, Deserted, Peers
<1>5. Woken'
  BY DEF TypeOK, Woken, Used, Descriptors, Ends, Deserted
<1> QED
  BY <1>1, <1>2, <1>3, <1>4, <1>5

\* piperead wakes every writer after it made room.
LEMMA PipeReadIInv ==
  ASSUME IInv, NEW r \in Reader, PipeRead(r)
  PROVE  IInv'
<1> USE PipeAssumption DEF IInv, PipeRead, MustWait, WakeAfterRead, WakeWriters, Proc, Points, Calling
<1> DEFINE k == Min({want[r], Used})
<1>a. k \in 0..PIPESIZE /\ k <= Used /\ Used \in 0..PIPESIZE
  BY TakesIs DEF Takes
<1>b. got' = Taken(k) /\ nread' = (nread + k) % MOD /\ nwrite' = nwrite
  OBVIOUS
<1> HIDE DEF k
<1>c. nread' \in 0..(MOD - 1) /\ Used' = Used - k
  BY <1>a, <1>b, UsedAfterRead
<1>d. got' \in Seq(Byte)
  BY <1>a, <1>b, TakenBytes
<1>1. TypeOK'
  <2>1. Used' <= PIPESIZE
    BY <1>a, <1>c
  <2>2. \A q \in Reader : want'[q] \in Count \cup {0}
    BY DEF Locals
  <2> QED
    BY <1>c, <1>d, <2>1, <2>2 DEF TypeOK
<1>2. Locals'
  BY <1>d DEF TypeOK, Locals
<1>3. Descriptors'
  BY DEF TypeOK, Descriptors
<1>4. Ends'
  BY DEF TypeOK, Descriptors, Ends, Deserted, Peers
<1>5. Woken'
  BY DEF TypeOK, Woken, Used, Descriptors, Ends, Deserted
<1> QED
  BY <1>1, <1>2, <1>3, <1>4, <1>5

\* fork duplicates a descriptor: an open end stays open.
LEMMA FiledupIInv ==
  ASSUME IInv, NEW p \in Proc, NEW q \in Proc, Filedup(p, q)
  PROVE  IInv'
<1> USE PipeAssumption DEF IInv, Filedup, Peers, Goto, pipe, call, Proc, Points, Calling
<1>1. TypeOK'
  BY DEF TypeOK, Used, Locals
<1>2. Locals'
  BY DEF TypeOK, Locals
<1>3. Descriptors'
  BY DEF TypeOK, Descriptors
<1>4. Ends'
  BY DEF TypeOK, Descriptors, Ends, Deserted, Peers
<1>5. Woken'
  BY DEF TypeOK, Woken, Used, Descriptors, Ends, Deserted
<1> QED
  BY <1>1, <1>2, <1>3, <1>4, <1>5

\* The last fileclose of an end goes on to pipeclose.
LEMMA FilecloseIInv ==
  ASSUME IInv, NEW p \in Proc, Fileclose(p)
  PROVE  IInv'
<1> USE PipeAssumption DEF IInv, Fileclose, LastRef, Peers, Goto, pipe, call, Proc, Points, Calling
<1>1. TypeOK'
  BY DEF TypeOK, Used, Locals
<1>2. Locals'
  BY DEF TypeOK, Locals
<1>3. Descriptors'
  BY DEF TypeOK, Descriptors
<1>4. Ends'
  BY DEF TypeOK, Descriptors, Ends, Deserted, Peers
<1>5. Woken'
  BY DEF TypeOK, Woken, Used, Descriptors, Ends, Deserted
<1> QED
  BY <1>1, <1>2, <1>3, <1>4, <1>5

\* pipeclose clears the flag of its end and wakes the other; the page goes with
\* the second.
LEMMA PipecloseIInv ==
  ASSUME IInv, NEW p \in Proc, Pipeclose(p)
  PROVE  IInv'
<1> USE PipeAssumption DEF IInv, Pipeclose, WakeAtClose, WakeReaders, WakeWriters, call, Proc, Points, Calling
<1>1. TypeOK'
  BY DEF TypeOK, Used, Locals
<1>2. Locals'
  BY DEF TypeOK, Locals
<1>3. Descriptors'
  BY DEF TypeOK, Descriptors
<1>4. Ends'
  BY DEF TypeOK, Descriptors, Ends, Deserted, Peers
<1>5. Woken'
  BY DEF TypeOK, Woken, Used, Descriptors, Ends, Deserted
<1> QED
  BY <1>1, <1>2, <1>3, <1>4, <1>5

\* kill wakes its victim.
LEMMA KillIInv ==
  ASSUME IInv, NEW p \in Proc, Kill(p)
  PROVE  IInv'
<1> USE PipeAssumption DEF IInv, Kill, pipe, call, Proc, Points, Calling
<1>1. TypeOK'
  BY DEF TypeOK, Used, Locals
<1>2. Locals'
  BY DEF TypeOK, Locals
<1>3. Descriptors'
  BY DEF TypeOK, Descriptors
<1>4. Ends'
  BY DEF TypeOK, Descriptors, Ends, Deserted, Peers
<1>5. Woken'
  BY DEF TypeOK, Woken, Used, Descriptors, Ends, Deserted
<1> QED
  BY <1>1, <1>2, <1>3, <1>4, <1>5

\* pipewrite sleeps only on a full pipe, and wakes the readers before.
LEMMA PipeWriteIInv ==
  ASSUME IInv, NEW w \in Writer, PipeWrite(w)
  PROVE  IInv'
<1> DEFINE k == Fits(w)
           done == i[w] + k = Len(msg[w])
<1> USE DEF Proc, Points, Calling
<1>1. /\ pc[w] = "write" /\ w \in Proc /\ TypeOK /\ Locals
      /\ data' = Stored(w, k) /\ nwrite' = (nwrite + k) % MOD
      /\ UNCHANGED <<nread, readopen, writeopen, freed, open, killed, want, got>>
  BY DEF IInv, PipeWrite, Fits
<1>2. \/ done /\ pc' = WakeReaders([pc EXCEPT ![w] = "idle"]) /\ EndWrite(w)
      \/ (~readopen \/ killed[w]) /\ Goto(w, "idle") /\ EndWrite(w)
      \/ /\ ~done /\ readopen
         /\ pc' = WakeReaders([pc EXCEPT ![w] = "wsleep"])
         /\ i' = [i EXCEPT ![w] = @ + k] /\ msg' = msg
  BY DEF PipeWrite, Fits, WakeWhenFull
<1>3. /\ k \in 0..PIPESIZE /\ k + Used <= PIPESIZE /\ k + i[w] <= Len(msg[w])
      /\ ~done => k + Used = PIPESIZE
      /\ Len(msg[w]) \in Nat /\ i[w] \in Nat
  BY <1>1, FitsIs
<1>4. data' \in [0..(PIPESIZE - 1) -> Byte]
  BY <1>1, StoredBytes
<1> HIDE DEF k
<1>5. nwrite' \in 0..(MOD - 1) /\ Used' = Used + k /\ Used \in 0..PIPESIZE
  BY <1>1, <1>3, UsedAfterWrite, UsedIs
<1>6. \/ msg' = [msg EXCEPT ![w] = <<>>] /\ i' = [i EXCEPT ![w] = 0]
      \/ msg' = msg /\ i' = [i EXCEPT ![w] = i[w] + k] /\ pc'[w] = "wsleep"
  BY <1>1, <1>2 DEF TypeOK, EndWrite, WakeReaders
<1>7. \A p \in Proc \ {w} : pc'[p] = pc[p] \/ (pc[p] = "rsleep" /\ pc'[p] = "read")
  BY <1>1, <1>2 DEF TypeOK, WakeReaders, Goto
<1>8. pc'[w] \in {"idle", "wsleep"} /\ pc' \in [Proc -> Points]
  BY <1>1, <1>2 DEF TypeOK, WakeReaders, Goto
<1>9. TypeOK'
  <2>1. \A v \in Writer : msg'[v] \in Message \cup {<<>>} /\ i'[v] \in 0..Len(msg'[v])
    <3>1. CASE msg' = [msg EXCEPT ![w] = <<>>] /\ i' = [i EXCEPT ![w] = 0]
      BY <1>1, <3>1 DEF TypeOK, Locals
    <3>2. CASE msg' = msg /\ i' = [i EXCEPT ![w] = i[w] + k]
      <4>1. i[w] + k \in 0..Len(msg[w])
        BY <1>3, PipeAssumption
      <4> QED
        BY <1>1, <3>2, <4>1 DEF TypeOK, Locals
    <3> QED
      BY <1>6, <3>1, <3>2
  <2>2. Used' <= PIPESIZE
    BY <1>3, <1>5, PipeAssumption
  <2> QED
    BY <1>1, <1>4, <1>5, <1>8, <2>1, <2>2 DEF TypeOK
<1>10. Locals'
  <2>1. i' \in [Writer -> Nat] /\ msg' \in [Writer -> Message \cup {<<>>}]
    <3>1. i[w] + k \in Nat
      BY <1>3, PipeAssumption
    <3> QED
      BY <1>1, <1>6, <3>1 DEF Locals
  <2>2. \A v \in Writer : pc'[v] \notin {"write", "wsleep"} => i'[v] = 0
    BY <1>1, <1>6, <1>7, <1>8 DEF Locals
  <2>3. \A r \in Reader : pc'[r] \in {"read", "rsleep"} => want'[r] \in Count
    BY <1>1, <1>7, <1>8 DEF Locals
  <2> QED
    BY <1>1, <2>1, <2>2, <2>3 DEF Locals
<1>11. Descriptors'
  BY <1>1, <1>7, <1>8 DEF IInv, Descriptors
<1>12. Ends'
  BY <1>1, <1>7, <1>8 DEF IInv, Ends, Deserted, Peers
<1>13. Woken'
  <2>1. ASSUME \A v \in Writer : killed'[v] = FALSE, NEW r \in Reader, pc'[r] = "rsleep"
        PROVE  nread' = nwrite' /\ writeopen' = TRUE
    <3>1. r # w /\ pc[r] = "rsleep"
      BY <1>7, <1>8, <2>1
    <3>2. r \in open /\ readopen = TRUE
      BY <1>1, <3>1 DEF IInv, TypeOK, Descriptors, Ends, Deserted
    <3>3. ~(~readopen \/ killed[w])
      BY <1>1, <2>1, <3>2
    <3>4. pc'[r] = "read"
      BY <1>1, <1>2, <3>1, <3>3 DEF TypeOK, WakeReaders
    <3> QED
      BY <2>1, <3>4
  <2>2. ASSUME NEW v \in Writer, pc'[v] = "wsleep"
        PROVE  Used' = PIPESIZE /\ readopen' = TRUE
    <3>1. CASE v = w
      <4>1. ~done /\ readopen
        BY <1>1, <1>2, <2>2, <3>1 DEF TypeOK, WakeReaders, Goto
      <4> QED
        BY <1>1, <1>3, <1>5, <4>1, PipeAssumption DEF TypeOK
    <3>2. CASE v # w
      <4>1. Used = PIPESIZE /\ readopen = TRUE
        BY <1>7, <2>2, <3>2 DEF IInv, Woken
      <4> QED
        BY <1>1, <1>3, <1>5, <4>1, PipeAssumption
    <3> QED
      BY <3>1, <3>2
  <2> QED
    BY <2>1, <2>2 DEF Woken
<1> QED
  BY <1>9, <1>10, <1>11, <1>12, <1>13 DEF IInv

\* pipealloc: an empty pipe with both ends open.
LEMMA InitIInv == Init => IInv
<1> SUFFICES ASSUME Init PROVE IInv
  OBVIOUS
<1> USE PipeAssumption DEF Init, Proc
<1>0. PICK r \in Reader, w \in Writer :
        /\ open = {r, w}
        /\ pc = [p \in Proc |-> IF p \in {r, w} THEN "idle" ELSE "none"]
  OBVIOUS
<1>1. Used = 0
  BY Distance DEF Used
<1>2. TypeOK
  <2>1. killed \in [Proc -> BOOLEAN] /\ readopen \in BOOLEAN /\ writeopen \in BOOLEAN /\ freed \in BOOLEAN
    BY Zenon
  <2>2. data \in [0..(PIPESIZE - 1) -> Byte] /\ nread \in 0..(MOD - 1) /\ nwrite \in 0..(MOD - 1)
    OBVIOUS
  <2>3. pc \in [Proc -> Points]
    BY <1>0 DEF Points
  <2>4. open \subseteq Proc
    BY <1>0
  <2>5. \A v \in Writer : msg[v] \in Message \cup {<<>>} /\ i[v] \in 0..Len(msg[v])
    OBVIOUS
  <2>6. \A v \in Reader : want[v] \in Count \cup {0} /\ got \in Seq(Byte)
    OBVIOUS
  <2> QED
    BY <1>1, <2>1, <2>2, <2>3, <2>4, <2>5, <2>6 DEF TypeOK
<1>3. Locals
  BY <1>0 DEF Locals
<1>4. Descriptors
  BY <1>0 DEF Descriptors, Calling
<1>5. Ends /\ Woken
  BY <1>0 DEF Ends, Woken
<1> QED
  BY <1>2, <1>3, <1>4, <1>5 DEF IInv

\* A step that changes nothing keeps the invariant.
LEMMA StutterIInv == ASSUME IInv, UNCHANGED vars PROVE IInv'
BY DEF IInv, vars, TypeOK, Used, Locals, Descriptors, Ends, Deserted, Woken

\* Every step keeps the invariant.
LEMMA NextIInv == IInv /\ [Next]_vars => IInv'
<1> SUFFICES ASSUME IInv, [Next]_vars PROVE IInv'
  OBVIOUS
<1>1. CASE UNCHANGED vars
  BY <1>1, StutterIInv
<1>2. ASSUME NEW w \in Writer, NEW m \in Message, WriteCall(w, m) PROVE IInv'
  BY <1>2, WriteCallIInv
<1>3. ASSUME NEW r \in Reader, NEW n \in Count, ReadCall(r, n) PROVE IInv'
  BY <1>3, ReadCallIInv
<1>4. ASSUME NEW p \in Proc, Round(p) PROVE IInv'
  BY <1>4, PipeWriteIInv, PipeReadWaitIInv, PipeReadIInv, PipecloseIInv DEF Round
<1>5. ASSUME NEW p \in Proc, Fileclose(p) \/ Kill(p) \/ \E q \in Proc : Filedup(p, q) PROVE IInv'
  BY <1>5, FilecloseIInv, KillIInv, FiledupIInv
<1> QED
  BY <1>1, <1>2, <1>3, <1>4, <1>5 DEF Next

\* The invariant holds at every point of every run of Pipe.
LEMMA Inductive == Spec => []IInv
BY InitIInv, NextIInv, PTL DEF Spec

\* pipeclose: the page of the pipe is not freed while a process has a descriptor
\* of either end, or is inside pipewrite, piperead or pipeclose.
THEOREM PageAlwaysSafe == Spec => []PageSafe
<1>1. IInv => PageSafe
  <2> SUFFICES ASSUME IInv PROVE NoUseAfterFree
    BY DEF IInv, PageSafe
  <2>1. SUFFICES ASSUME freed = TRUE PROVE open = {} /\ \A p \in Proc : pc[p] \notin Calling \cup {"closing"}
    BY DEF IInv, TypeOK, NoUseAfterFree
  <2>2. Deserted(Reader) /\ Deserted(Writer)
    BY <2>1 DEF IInv, Ends
  <2> QED
    BY <2>2 DEF IInv, TypeOK, Descriptors, Deserted, Proc
<1> QED
  BY <1>1, Inductive, PTL

\* pipewrite and piperead: a writer sleeps only while the pipe is full, a reader
\* only while it is empty (as long as no writer was killed in the middle of a
\* write), and neither after the other end was closed.
THEOREM NobodyEverForgotten == Spec => []NobodyForgotten
<1>1. IInv => NobodyForgotten
  <2> SUFFICES ASSUME IInv PROVE NobodyForgotten
    OBVIOUS
  <2>1. ReaderWoken
    BY DEF IInv, TypeOK, Woken, ReaderWoken, Proc
  <2>2. WriterWoken
    BY DEF IInv, TypeOK, Woken, WriterWoken
  <2> QED
    BY <2>1, <2>2 DEF NobodyForgotten
<1> QED
  BY <1>1, Inductive, PTL

-----------------------------------------------------------------------------
(* The ring is the queue of ByteStream.                                     *)

\* The slot nwrite + j, seen from nread.
LEMMA FromRead ==
  ASSUME TypeOK, NEW j \in Nat
  PROVE  /\ nread + Used + j \in Nat
         /\ (nwrite + j) % PIPESIZE = (nread + Used + j) % PIPESIZE
<1>1. nread \in Nat /\ nwrite \in Nat /\ Used \in Nat /\ MOD \in Nat
  BY UsedIs, PipeAssumption DEF TypeOK
<1>2. CASE nwrite >= nread
  BY <1>1, <1>2, UsedIs
<1>3. CASE nwrite < nread
  <2>1. nwrite + j = (nread + Used + j) - MOD /\ nread + Used + j >= MOD
    BY <1>1, <1>3, UsedIs
  <2> QED
    BY <1>1, <2>1, Wrapped
<1> QED
  BY <1>1, <1>2, <1>3

\* A turn of pipewrite appends to what the readers will find.
LEMMA Appended ==
  ASSUME TypeOK, NEW w \in Writer, NEW k \in 0..PIPESIZE, k + Used <= PIPESIZE
  PROVE  /\ \A m \in 1..Used :
              Stored(w, k)[(nread + m - 1) % PIPESIZE] = data[(nread + m - 1) % PIPESIZE]
         /\ \A m \in (Used + 1)..(Used + k) :
              Stored(w, k)[(nread + m - 1) % PIPESIZE] = msg[w][i[w] + (m - Used)]
<1>1. nread \in Nat /\ Used \in 0..PIPESIZE /\ PIPESIZE \in Nat \ {0}
  BY UsedIs, PipeAssumption DEF TypeOK
<1>2. ASSUME NEW m \in 1..Used
      PROVE  Stored(w, k)[(nread + m - 1) % PIPESIZE] = data[(nread + m - 1) % PIPESIZE]
  <2>1. nread + m - 1 \in Nat /\ (nread + m - 1) % PIPESIZE \in 0..(PIPESIZE - 1)
    BY <1>1
  <2>2. ASSUME NEW j \in 0..(k - 1) PROVE (nwrite + j) % PIPESIZE # (nread + m - 1) % PIPESIZE
    <3>1. j \in Nat /\ nread + Used + j \in Nat
          /\ (nwrite + j) % PIPESIZE = (nread + Used + j) % PIPESIZE
      BY <1>1, FromRead
    <3>2. nread + m - 1 < nread + Used + j /\ nread + Used + j < nread + m - 1 + PIPESIZE
      BY <1>1
    <3> QED
      BY <2>1, <3>1, <3>2, Slots
  <2> QED
    BY <2>1, <2>2, StoredAt
<1>3. ASSUME NEW m \in (Used + 1)..(Used + k)
      PROVE  Stored(w, k)[(nread + m - 1) % PIPESIZE] = msg[w][i[w] + (m - Used)]
  <2> DEFINE j == m - Used - 1
  <2>1. j \in 0..(k - 1) /\ j \in Nat /\ nread + Used + j = nread + m - 1 /\ m - Used \in Nat
    BY <1>1
  <2>2. (nwrite + j) % PIPESIZE = (nread + m - 1) % PIPESIZE
    BY <2>1, FromRead
  <2>3. Stored(w, k)[(nwrite + j) % PIPESIZE] = msg[w][i[w] + j + 1]
    BY <2>1, StoredAt
  <2>4. i[w] + j + 1 = i[w] + (m - Used)
    BY <1>1 DEF TypeOK
  <2> QED
    BY <2>2, <2>3, <2>4
<1> QED
  BY <1>2, <1>3

\* What pipewrite copies in a turn.
Copied(w, k) == [j \in 1..k |-> msg[w][i[w] + j]]

\* pipewrite appends to the stream what it stores, in order, though the slots and
\* the counter wrap.
LEMMA WritePuts ==
  ASSUME IInv, NEW w \in Writer, PipeWrite(w)
  PROVE  [Stream!BNext]_(Stream!bvars)
<1> DEFINE k == Fits(w)
           s == Copied(w, k)
           queue == Taken(Used)
<1>1. /\ data' = Stored(w, k) /\ nwrite' = (nwrite + k) % MOD /\ nread' = nread
      /\ writeopen' = writeopen /\ got' = got /\ TypeOK /\ Locals /\ pc[w] = "write"
  BY DEF IInv, PipeWrite, Fits
<1>2. /\ k \in 0..PIPESIZE /\ k + Used <= PIPESIZE /\ k + i[w] <= Len(msg[w])
      /\ Len(msg[w]) \in Nat /\ i[w] \in Nat /\ msg[w] \in Seq(Byte)
  BY <1>1, FitsIs
<1>3. Used \in 0..PIPESIZE /\ PIPESIZE \in Nat
  BY <1>1, UsedIs, PipeAssumption
<1> HIDE DEF k
<1>4. Used' = Used + k
  BY <1>1, <1>2, UsedAfterWrite
<1>5. writeopen = TRUE
  BY <1>1 DEF IInv, TypeOK, Descriptors, Ends, Deserted, Calling, Proc
<1>6. s \in [1..k -> Byte] /\ s \in Seq(Byte) /\ Len(s) = k
  BY <1>2 DEF Copied
<1>7. queue \in Seq(Byte) /\ Len(queue) = Used
  BY <1>1, <1>3, TakenBytes
<1>8. Taken(Used)' = queue \o s
  <2>1. Taken(Used)' = [m \in 1..(Used + k) |-> data'[(nread + m - 1) % PIPESIZE]]
    BY <1>1, <1>4 DEF Taken
  <2>2. queue \o s = [m \in 1..(Used + k) |-> IF m <= Used THEN queue[m] ELSE s[m - Used]]
    <3> DEFINE f == queue \o s
    <3>1. f \in Seq(Byte) /\ Len(f) = Used + k
      BY <1>6, <1>7, ConcatProperties
    <3>2. \A m \in 1..(Used + k) : f[m] = IF m <= Used THEN queue[m] ELSE s[m - Used]
      <4> HIDE DEF queue, s
      <4>1. \A m \in 1..(Len(queue) + Len(s)) :
              f[m] = IF m <= Len(queue) THEN queue[m] ELSE s[m - Len(queue)]
        BY <1>6, <1>7, ConcatProperties
      <4> HIDE DEF f
      <4> QED
        BY <1>6, <1>7, <4>1
    <3> HIDE DEF f, queue, s
    <3>3. f = [m \in 1..(Used + k) |-> f[m]]
      BY <3>1
    <3>4. f = [m \in 1..(Used + k) |-> IF m <= Used THEN queue[m] ELSE s[m - Used]]
      BY <3>2, <3>3, Zenon
    <3> QED
      BY <3>4 DEF f
  <2>3. ASSUME NEW m \in 1..(Used + k)
        PROVE  data'[(nread + m - 1) % PIPESIZE] = IF m <= Used THEN queue[m] ELSE s[m - Used]
    <3>1. CASE m <= Used
      <4>1. m \in 1..Used
        BY <1>2, <1>3, <3>1
      <4>2. data'[(nread + m - 1) % PIPESIZE] = data[(nread + m - 1) % PIPESIZE]
        BY <1>1, <1>2, <4>1, Appended
      <4> QED
        BY <3>1, <4>1, <4>2 DEF Taken
    <3>2. CASE m > Used
      <4>1. m \in (Used + 1)..(Used + k) /\ m - Used \in 1..k
        BY <1>2, <1>3, <3>2
      <4>2. data'[(nread + m - 1) % PIPESIZE] = msg[w][i[w] + (m - Used)]
        BY <1>1, <1>2, <4>1, Appended
      <4>3. s[m - Used] = msg[w][i[w] + (m - Used)]
        BY <4>1 DEF Copied
      <4> QED
        BY <1>3, <3>2, <4>2, <4>3
    <3> QED
      BY <1>3, <3>1, <3>2
  <2> HIDE DEF queue, s
  <2> QED
    BY <2>1, <2>2, <2>3
<1>9. CASE k = 0
  <2>1. s = <<>> /\ Taken(Used)' = Taken(Used)
    BY <1>6, <1>7, <1>8, <1>9
  <2> QED
    BY <1>1, <2>1 DEF Stream!bvars
<1>10. CASE k # 0
  <2>1. k \in 1..(PIPESIZE - Len(queue))
    BY <1>2, <1>3, <1>7, <1>10
  <2>2. Stream!Put
    <3> HIDE DEF queue, s
    <3>1. \E n \in 1..(PIPESIZE - Len(queue)) : \E t \in [1..n -> Byte] : Taken(Used)' = queue \o t
      BY <1>6, <1>8, <2>1
    <3> QED
      BY <1>1, <1>5, <3>1 DEF Stream!Put, queue
  <2> QED
    BY <2>2 DEF Stream!BNext
<1> QED
  BY <1>9, <1>10

\* piperead takes the oldest bytes of the stream, in order.
LEMMA ReadGets ==
  ASSUME IInv, NEW r \in Reader, PipeRead(r)
  PROVE  [Stream!BNext]_(Stream!bvars)
<1> DEFINE k == Takes(r)
           queue == Taken(Used)
<1>1. /\ got' = Taken(k) /\ nread' = (nread + k) % MOD /\ nwrite' = nwrite
      /\ data' = data /\ writeopen' = writeopen /\ TypeOK /\ Locals
      /\ pc[r] = "read" /\ (nread # nwrite \/ ~writeopen)
  BY DEF IInv, PipeRead, Takes, MustWait
<1>2. k \in 0..PIPESIZE /\ k <= Used /\ Used \in 0..PIPESIZE
  BY <1>1, TakesIs
<1>3. k = 0 => Used = 0
  <2>1. want[r] \in Nat \ {0} /\ Used \in Nat
    <3>1. want[r] \in Count
      BY <1>1 DEF Locals
    <3>2. want[r] \in Nat \ {0}
      BY <3>1, Arguments
    <3> QED
      BY <1>2, <3>2, PipeAssumption
  <2>2. k = IF want[r] <= Used THEN want[r] ELSE Used
    BY <2>1, MinOfTwo DEF Takes
  <2> HIDE DEF k
  <2> QED
    BY <2>1, <2>2
<1> HIDE DEF k
<1>4. Used' = Used - k
  BY <1>1, <1>2, UsedAfterRead
<1>5. queue \in Seq(Byte) /\ Len(queue) = Used
  BY <1>1, <1>2, TakenBytes
<1>6. CASE k = 0
  <2>1. Used = 0 /\ ~writeopen
    BY <1>1, <1>3, <1>6, UsedIs
  <2>2. queue = <<>> /\ got' = <<>>
    BY <1>1, <1>6, <2>1 DEF Taken
  <2>3. Taken(Used)' = <<>>
    BY <1>4, <1>6, <2>1 DEF Taken
  <2> QED
    BY <1>1, <2>1, <2>2, <2>3 DEF Stream!BNext, Stream!GetEnd
<1>7. CASE k # 0
  <2>1. k \in 1..Len(queue)
    BY <1>2, <1>5, <1>7, PipeAssumption
  <2>2. got' = SubSeq(queue, 1, k)
    <3>1. SubSeq(queue, 1, k) = [m \in 1..k |-> queue[m]]
      BY <1>2, <1>5, <2>1
    <3>2. \A m \in 1..k : queue[m] = data[(nread + m - 1) % PIPESIZE]
      BY <1>2, PipeAssumption DEF Taken
    <3> HIDE DEF queue
    <3> QED
      BY <1>1, <3>1, <3>2 DEF Taken
  <2>3. Taken(Used)' = SubSeq(queue, k + 1, Len(queue))
    <3>1. SubSeq(queue, k + 1, Len(queue)) = [m \in 1..(Used - k) |-> queue[k + m]]
      BY <1>2, <1>5, <2>1
    <3>2. ASSUME NEW m \in 1..(Used - k)
          PROVE  queue[k + m] = data[(nread' + m - 1) % PIPESIZE]
      <4>1. queue[k + m] = data[(nread + (k + m) - 1) % PIPESIZE]
        BY <1>2, PipeAssumption DEF Taken
      <4>2. nread \in 0..(MOD - 1) /\ nread' = IF nread + k < MOD THEN nread + k ELSE nread + k - MOD
        BY <1>1, <1>2, Advance DEF TypeOK
      <4>3. (nread' + m - 1) % PIPESIZE = (nread + (k + m) - 1) % PIPESIZE
        <5>1. CASE nread + k < MOD
          <6>1. nread' + m - 1 = nread + (k + m) - 1
            BY <1>2, <4>2, <5>1, PipeAssumption
          <6> QED
            BY <6>1
        <5>2. CASE nread + k >= MOD
          <6>1. /\ nread + (k + m) - 1 \in Nat /\ nread + (k + m) - 1 >= MOD
                /\ nread' + m - 1 = (nread + (k + m) - 1) - MOD
            BY <1>2, <4>2, <5>2, PipeAssumption
          <6> QED
            BY <6>1, Wrapped
        <5> QED
          BY <1>2, <4>2, <5>1, <5>2, PipeAssumption
      <4> QED
        BY <4>1, <4>3
    <3>3. Taken(Used)' = [m \in 1..(Used - k) |-> data[(nread' + m - 1) % PIPESIZE]]
      BY <1>1, <1>4 DEF Taken
    <3> HIDE DEF queue
    <3> QED
      BY <3>1, <3>2, <3>3
  <2> QED
    BY <1>1, <2>1, <2>2, <2>3 DEF Stream!BNext, Stream!Get
<1> QED
  BY <1>6, <1>7

\* pipe.c implements ByteStream: the bytes come out in the order they went in,
\* none lost, none twice, at most PIPESIZE at a time.
THEOREM PipeIsByteStream == Spec => IsByteStream
<1>1. Init => Stream!BInit
  <2> SUFFICES ASSUME Init PROVE Taken(Used) = <<>> /\ got = <<>> /\ (~writeopen) = FALSE
    BY DEF Stream!BInit
  <2>1. nread = 0 /\ nwrite = 0 /\ got = <<>> /\ writeopen = TRUE
    BY DEF Init
  <2>2. Used = 0
    BY <2>1, Distance, PipeAssumption DEF Used
  <2> QED
    BY <2>1, <2>2 DEF Taken
<1>2. IInv /\ [Next]_vars => [Stream!BNext]_(Stream!bvars)
  <2> SUFFICES ASSUME IInv, [Next]_vars PROVE [Stream!BNext]_(Stream!bvars)
    OBVIOUS
  <2>1. ASSUME UNCHANGED <<data, nread, nwrite, writeopen, got>> PROVE UNCHANGED Stream!bvars
    BY <2>1 DEF Stream!bvars, Taken, Used
  <2>2. CASE UNCHANGED vars
    BY <2>1, <2>2 DEF vars
  <2>3. ASSUME NEW w \in Writer, NEW m \in Message, WriteCall(w, m) PROVE UNCHANGED Stream!bvars
    BY <2>1, <2>3 DEF WriteCall, pipe
  <2>4. ASSUME NEW r \in Reader, NEW n \in Count, ReadCall(r, n) PROVE UNCHANGED Stream!bvars
    BY <2>1, <2>4 DEF ReadCall, pipe
  <2>5. ASSUME NEW p \in Proc, Fileclose(p) \/ Kill(p) \/ \E q \in Proc : Filedup(p, q)
        PROVE  UNCHANGED Stream!bvars
    BY <2>1, <2>5 DEF Fileclose, Kill, Filedup, pipe, call
  <2>6. ASSUME NEW r \in Reader, PipeReadWait(r) PROVE UNCHANGED Stream!bvars
    BY <2>1, <2>6 DEF PipeReadWait, pipe
  <2>7. ASSUME NEW p \in Proc, Pipeclose(p) PROVE [Stream!BNext]_(Stream!bvars)
    <3>1. /\ UNCHANGED <<data, nread, nwrite, got>> /\ writeopen \in BOOLEAN
          /\ writeopen' = (writeopen /\ p \notin Writer)
      BY <2>7 DEF Pipeclose, call, IInv, TypeOK
    <3>2. CASE p \in Writer
      <4>1. Taken(Used)' = Taken(Used)
        BY <3>1 DEF Taken, Used
      <4> QED
        BY <3>1, <3>2, <4>1, Zenon DEF Stream!BNext, Stream!End
    <3>3. CASE p \notin Writer
      BY <2>1, <3>1, <3>3, Zenon
    <3> QED
      BY <3>2, <3>3
  <2> QED
    BY <2>2, <2>3, <2>4, <2>5, <2>6, <2>7, WritePuts, ReadGets DEF Next, Round
<1> QED
  BY <1>1, <1>2, Inductive, PTL DEF Spec, IsByteStream, Stream!BSpec
=============================================================================
