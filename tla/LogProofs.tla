------------------------------ MODULE LogProofs ------------------------------
(***************************************************************************)
(* log.c for any number of processes, blocks and log sizes: its safety, and *)
(* that it implements Transactions.                                         *)
(*                                                                         *)
(* None of the invariants is inductive alone: that the log does not         *)
(* overflow rests on the space each call still has reserved (Slots), that   *)
(* on log.outstanding counting the calls exactly, and that on nobody being  *)
(* in a call while a commit or a recovery runs (Mode).                      *)
(***************************************************************************)
EXTENDS Log, FiniteSetTheorems, TLAPS

Active == {p \in Proc : pc[p] \in InOp}

\* The log entries the active calls may still need.
Slots == {s \in Active \X (1..MAXOPBLOCKS) : s[2] > Cardinality(wrote[s[1]])}

Idle == {"out", "asleep", "woken"}

\* Running, committing, or recovering.
Mode ==
  \/ /\ ~committing
     /\ \A p \in Proc : pc[p] \in InOp \cup Idle
  \/ /\ committing /\ outstanding = 0
     /\ \E p \in Proc : /\ pc[p] \in {"write_log", "install", "done"}
                        /\ \A q \in Proc \ {p} : pc[q] \in Idle
  \/ /\ ~committing /\ outstanding = 0
     /\ \E p \in Proc : /\ pc[p] \in {"read_head", "install"}
                        /\ \A q \in Proc \ {p} : pc[q] = "down"

\* A call between bread and the end of log_write holds a block it may log.
Holding ==
  \A p \in Proc : pc[p] \in {"modified", "checked"} =>
    /\ buf[p] \in Block
    /\ buf[p] \in wrote[p] \/ Cardinality(wrote[p]) < MAXOPBLOCKS

Logged == \A p \in Proc : pc[p] \in InOp => wrote[p] \subseteq Listed(lh)

IInv ==
  /\ TypeOK
  /\ Mode
  /\ outstanding = Cardinality(Active)
  /\ Len(lh) + Cardinality(Slots) <= LOGSIZE
  /\ Len(dhead) <= LOGSIZE
  /\ Holding
  /\ Logged

-----------------------------------------------------------------------------

\* Active and Slots are finite, and Slots has at most MAXOPBLOCKS entries for
\* each active call.
LEMMA SlotsFinite ==
  /\ IsFiniteSet(Active) /\ IsFiniteSet(Slots)
  /\ Cardinality(Active) \in Nat /\ Cardinality(Slots) \in Nat
  /\ Cardinality(Slots) <= Cardinality(Active) * MAXOPBLOCKS
<1>1. IsFiniteSet(Active)
  BY FS_Subset, LogAssumption DEF Active
<1>2. IsFiniteSet(1..MAXOPBLOCKS) /\ Cardinality(1..MAXOPBLOCKS) = MAXOPBLOCKS
  BY FS_Interval, LogAssumption
<1>3. /\ IsFiniteSet(Active \X (1..MAXOPBLOCKS))
      /\ Cardinality(Active \X (1..MAXOPBLOCKS)) = Cardinality(Active) * MAXOPBLOCKS
  BY <1>1, <1>2, FS_Product
<1>4. Slots \subseteq Active \X (1..MAXOPBLOCKS)
  BY DEF Slots
<1> QED
  BY <1>1, <1>3, <1>4, FS_Subset, FS_CardinalityType

\* The same of the successor state.
LEMMA SlotsFinite2 ==
  /\ IsFiniteSet(Active') /\ IsFiniteSet(Slots')
  /\ Cardinality(Active') \in Nat /\ Cardinality(Slots') \in Nat
  /\ Cardinality(Slots') <= Cardinality(Active') * MAXOPBLOCKS
<1>1. IsFiniteSet(Active')
  BY FS_Subset, LogAssumption DEF Active
<1>2. IsFiniteSet(1..MAXOPBLOCKS) /\ Cardinality(1..MAXOPBLOCKS) = MAXOPBLOCKS
  BY FS_Interval, LogAssumption
<1>3. /\ IsFiniteSet(Active' \X (1..MAXOPBLOCKS))
      /\ Cardinality(Active' \X (1..MAXOPBLOCKS)) = Cardinality(Active') * MAXOPBLOCKS
  BY <1>1, <1>2, FS_Product
<1>4. Slots' \subseteq Active' \X (1..MAXOPBLOCKS)
  BY DEF Slots
<1> QED
  BY <1>1, <1>3, <1>4, FS_Subset, FS_CardinalityType

\* A step that takes no new slot keeps the reservation.
LEMMA FewerSlots ==
  ASSUME Slots' \subseteq Slots
  PROVE  Cardinality(Slots') <= Cardinality(Slots)
  BY SlotsFinite, FS_Subset

\* With nobody in a call nothing is reserved.
LEMMA NobodyActive ==
  ASSUME \A p \in Proc : pc[p] \notin InOp
  PROVE  Active = {} /\ Slots = {} /\ Cardinality(Active) = 0 /\ Cardinality(Slots) = 0
  BY FS_EmptySet DEF Active, Slots

LEMMA NobodyActive2 ==
  ASSUME \A p \in Proc : pc'[p] \notin InOp
  PROVE  /\ Active' = {} /\ Slots' = {}
         /\ Cardinality(Active') = 0 /\ Cardinality(Slots') = 0
  BY FS_EmptySet DEF Active, Slots

-----------------------------------------------------------------------------

LEMMA AppendFacts ==
  ASSUME NEW S, NEW s \in Seq(S), NEW e \in S
  PROVE  /\ Append(s, e) \in Seq(S) /\ Len(Append(s, e)) = Len(s) + 1
         /\ Listed(Append(s, e)) = Listed(s) \cup {e}
<1> DEFINE t == Append(s, e)
<1>1. /\ t \in Seq(S) /\ Len(t) = Len(s) + 1 /\ Len(s) \in Nat
      /\ DOMAIN s = 1..Len(s) /\ DOMAIN t = 1..Len(t)
      /\ t[Len(s) + 1] = e /\ \A i \in 1..Len(s) : t[i] = s[i]
  OBVIOUS
<1>2. 1..Len(t) = (1..Len(s)) \cup {Len(s) + 1}
  BY <1>1
<1> QED
  BY <1>1, <1>2 DEF Listed

LEMMA WakeFacts ==
  ASSUME NEW f \in [Proc -> Points]
  PROVE  /\ Wake(f) \in [Proc -> Points]
         /\ \A q \in Proc : Wake(f)[q] = f[q] \/ (f[q] \in Idle /\ Wake(f)[q] \in Idle)
<1>1. "woken" \in Points
  BY DEF Points
<1>2. \A q \in Proc : Wake(f)[q] = IF f[q] = "asleep" THEN "woken" ELSE f[q]
  BY DEF Wake
<1>3. Wake(f) \in [Proc -> Points]
  BY <1>1 DEF Wake
<1> QED
  BY <1>2, <1>3 DEF Idle

LEMMA InitIInv == Init => IInv
<1> SUFFICES ASSUME Init PROVE IInv
  OBVIOUS
<1>1. PICK p \in Proc : pc = Boot(p)
  BY DEF Init
<1>2. TypeOK
  <2>1. pc \in [Proc -> Points]
    BY <1>1 DEF Boot, Points, InOp
  <2>2. /\ disk \in [Block -> Value] /\ dlog \in [1..LOGSIZE -> Value]
        /\ cache \in [Block -> Value \cup {None}] /\ dirty \subseteq Block
    BY LogAssumption DEF Init
  <2>3. dhead \in Seq(Block) /\ lh \in Seq(Block)
    BY DEF Init
  <2>4. /\ tail \in [Proc -> 0..LOGSIZE] /\ buf \in [Proc -> Block \cup {None}]
        /\ wrote \in [Proc -> SUBSET Block]
    BY LogAssumption DEF Init
  <2> QED
    BY <2>1, <2>2, <2>3, <2>4 DEF TypeOK, Init
<1>3. Mode
  BY <1>1 DEF Init, Mode, Boot
<1>4. \A q \in Proc : pc[q] \notin InOp
  BY <1>1 DEF Boot, InOp
<1>5. Holding /\ Logged
  BY <1>1 DEF Holding, Logged, Boot, InOp
<1> QED
  BY <1>2, <1>3, <1>4, <1>5, NobodyActive, LogAssumption DEF IInv, Init

-----------------------------------------------------------------------------
(* The calls.                                                              *)

LEMMA BeginOpIInv ==
  ASSUME IInv, NEW p \in Proc, BeginOp(p)
  PROVE  IInv'
<1> USE DEF IInv
<1>0. /\ p \notin Active
      /\ pc \in [Proc -> Points] /\ wrote \in [Proc -> SUBSET Block]
      /\ outstanding \in Nat
  BY DEF BeginOp, Active, InOp, TypeOK
<1>1. CASE ~CanBegin
  <2>1. /\ pc' = [pc EXCEPT ![p] = "asleep"] /\ UNCHANGED outstanding
        /\ UNCHANGED <<dvars, cache, dirty, lh, committing, tail, buf, wrote, panicked>>
    BY <1>1 DEF BeginOp
  <2>2. TypeOK'
    BY <2>1 DEF TypeOK, dvars, Points
  <2>3. Mode'
    BY <2>1, <1>0 DEF Mode, BeginOp, Idle, InOp
  <2>4. Active' = Active
    BY <2>1, <1>0 DEF Active, InOp
  <2>5. Slots' = Slots
    BY <2>1, <2>4 DEF Slots
  <2>6. Holding' /\ Logged'
    BY <2>1, <1>0 DEF Holding, Logged, InOp
  <2> QED
    BY <2>1, <2>2, <2>3, <2>4, <2>5, <2>6 DEF dvars
<1>2. CASE CanBegin
  <2>1. /\ pc' = [pc EXCEPT ![p] = "op"] /\ outstanding' = outstanding + 1
        /\ wrote' = [wrote EXCEPT ![p] = {}]
        /\ UNCHANGED <<dvars, cache, dirty, lh, committing, tail, buf, panicked>>
    BY <1>2 DEF BeginOp, Counted
  <2>2. TypeOK'
    BY <2>1 DEF TypeOK, dvars, Points, InOp
  <2>3. Mode'
    <3>1. pc[p] \in Idle /\ ~committing
      BY <1>2 DEF BeginOp, Idle, CanBegin
    <3> QED
      BY <2>1, <1>0, <3>1 DEF Mode, Idle, InOp
  <2>4. Active' = Active \cup {p}
    BY <2>1, <1>0 DEF Active, InOp
  <2>5. Cardinality(Active') = outstanding + 1
    BY <2>4, <1>0, SlotsFinite, FS_AddElement
  <2>6. Len(lh') + Cardinality(Slots') <= LOGSIZE
    <3>1. Cardinality(Slots') <= (outstanding + 1) * MAXOPBLOCKS
      BY <2>5, SlotsFinite2
    <3>2. Len(lh) + (outstanding + 1) * MAXOPBLOCKS <= LOGSIZE
      BY <1>2 DEF CanBegin
    <3>3. (outstanding + 1) * MAXOPBLOCKS \in Int /\ Len(lh) \in Nat
      BY <1>0, LogAssumption DEF TypeOK
    <3> QED
      BY <3>1, <3>2, <3>3, <2>1, SlotsFinite2, LogAssumption
  <2>7. Holding' /\ Logged'
    BY <2>1, <1>0 DEF Holding, Logged, InOp
  <2> QED
    BY <2>1, <2>2, <2>3, <2>5, <2>6, <2>7 DEF dvars
<1> QED
  BY <1>1, <1>2

LEMMA ModifyBufIInv ==
  ASSUME IInv, NEW p \in Proc, NEW b \in Block, NEW v \in Value, ModifyBuf(p, b, v)
  PROVE  IInv'
<1> USE DEF IInv
<1>1. /\ pc \in [Proc -> Points] /\ buf \in [Proc -> Block \cup {None}]
      /\ pc[p] = "op" /\ pc' = [pc EXCEPT ![p] = "modified"]
      /\ buf' = [buf EXCEPT ![p] = b] /\ cache' = [cache EXCEPT ![b] = v]
      /\ b \in wrote[p] \/ Cardinality(wrote[p]) < MAXOPBLOCKS
      /\ UNCHANGED <<dvars, dirty, lh, outstanding, committing, tail, wrote, panicked>>
  BY DEF ModifyBuf, TypeOK
<1>2. TypeOK'
  BY <1>1 DEF TypeOK, dvars, Points, InOp
<1>3. Mode'
  BY <1>1 DEF Mode, InOp, Idle
<1>4. Active' = Active /\ Slots' = Slots
  <2>1. Active' = Active
    BY <1>1 DEF Active, InOp
  <2> QED
    BY <2>1, <1>1 DEF Slots
<1>5. Holding' /\ Logged'
  BY <1>1 DEF Holding, Logged, InOp
<1> QED
  BY <1>1, <1>2, <1>3, <1>4, <1>5 DEF dvars

LEMMA LogWriteCheckIInv ==
  ASSUME IInv, NEW p \in Proc, LogWriteCheck(p)
  PROVE  IInv'
<1> USE DEF IInv
<1>1. /\ pc \in [Proc -> Points] /\ pc[p] = "modified"
      /\ pc' = pc \/ pc' = [pc EXCEPT ![p] = "checked"]
      /\ panicked' \in BOOLEAN
      /\ UNCHANGED <<dvars, cache, dirty, lh, outstanding, committing, tail, buf, wrote>>
  BY DEF LogWriteCheck, TypeOK
<1>2. TypeOK'
  BY <1>1 DEF TypeOK, dvars, Points, InOp
<1>3. Mode'
  BY <1>1 DEF Mode, InOp, Idle
<1>4. Active' = Active /\ Slots' = Slots
  <2>1. Active' = Active
    BY <1>1 DEF Active, InOp
  <2> QED
    BY <2>1, <1>1 DEF Slots
<1>5. Holding' /\ Logged'
  BY <1>1 DEF Holding, Logged, InOp
<1> QED
  BY <1>1, <1>2, <1>3, <1>4, <1>5 DEF dvars

\* The heart of the argument: a new entry of the log uses up one slot of the
\* call that adds it, and an absorbed block uses up none.
LEMMA LogWriteAppendIInv ==
  ASSUME IInv, NEW p \in Proc, LogWriteAppend(p)
  PROVE  IInv'
<1> USE DEF IInv
<1> DEFINE b == buf[p]
           n == Cardinality(wrote[p])
<1>1. /\ pc \in [Proc -> Points] /\ wrote \in [Proc -> SUBSET Block]
      /\ lh \in Seq(Block) /\ b \in Block
      /\ pc[p] = "checked" /\ pc' = [pc EXCEPT ![p] = "op"]
      /\ b \in wrote[p] \/ n < MAXOPBLOCKS
      /\ lh' = Absorb(b) /\ dirty' = dirty \cup {b}
      /\ wrote' = [wrote EXCEPT ![p] = @ \cup {b}] /\ buf' = [buf EXCEPT ![p] = None]
      /\ UNCHANGED <<dvars, cache, outstanding, committing, tail, panicked>>
  BY DEF LogWriteAppend, TypeOK, Holding, Pin
<1>2. wrote[p] \subseteq Listed(lh)
  BY <1>1 DEF Logged, InOp
<1>3. /\ lh' \in Seq(Block) /\ Listed(lh') = Listed(lh) \cup {b}
      /\ Len(lh') = IF b \in Listed(lh) THEN Len(lh) ELSE Len(lh) + 1
  <2>1. CASE b \in Listed(lh)
    BY <2>1, <1>1 DEF Absorb
  <2>2. CASE b \notin Listed(lh)
    <3>1. lh' = Append(lh, b)
      BY <2>2, <1>1 DEF Absorb
    <3>2. b \in Block /\ lh \in Seq(Block)
      BY <1>1
    <3>3. /\ Append(lh, b) \in Seq(Block) /\ Len(Append(lh, b)) = Len(lh) + 1
          /\ Listed(Append(lh, b)) = Listed(lh) \cup {b}
      BY ONLY <3>2, AppendFacts
    <3> QED
      BY ONLY <3>1, <3>3, <2>2
  <2> QED
    BY <2>1, <2>2
<1>4. TypeOK'
  BY <1>1, <1>3 DEF TypeOK, dvars, Points, InOp
<1>5. Mode'
  BY <1>1 DEF Mode, InOp, Idle
<1>6. Active' = Active /\ p \in Active
  BY <1>1 DEF Active, InOp
<1>7. IsFiniteSet(wrote[p]) /\ n \in Nat
  BY <1>1, LogAssumption, FS_Subset, FS_CardinalityType
<1>8. Cardinality(wrote'[p]) = IF b \in wrote[p] THEN n ELSE n + 1
  BY <1>1, <1>7, FS_AddElement
<1>9. /\ \A q \in Proc \ {p} : wrote'[q] = wrote[q]
      /\ \A q \in Proc : wrote'[q] \subseteq wrote[q] \cup {b}
  BY <1>1
<1>10. Slots' \subseteq Slots
  <2>1. SUFFICES ASSUME NEW q \in Active, NEW i \in 1..MAXOPBLOCKS,
                        i > Cardinality(wrote'[q])
                 PROVE  i > Cardinality(wrote[q])
    BY <1>6 DEF Slots
  <2>2. CASE q = p
    BY <2>2, <2>1, <1>7, <1>8
  <2>3. CASE q # p
    BY <2>3, <2>1, <1>9 DEF Active
  <2> QED
    BY <2>2, <2>3
<1>11. Len(lh') + Cardinality(Slots') <= LOGSIZE
  <2>1. CASE b \in Listed(lh)
    BY <2>1, <1>3, <1>10, FewerSlots, SlotsFinite, SlotsFinite2, LogAssumption
  <2>2. CASE b \notin Listed(lh)
    <3>1. b \notin wrote[p] /\ n < MAXOPBLOCKS /\ Cardinality(wrote'[p]) = n + 1
      BY <2>2, <1>1, <1>2, <1>8
    <3>2. <<p, n + 1>> \in Slots
      BY <3>1, <1>6, <1>7, LogAssumption DEF Slots
    <3>3. <<p, n + 1>> \notin Slots'
      BY <3>1, <1>7 DEF Slots
    <3>4. Slots' \subseteq Slots \ {<<p, n + 1>>}
      BY <3>3, <1>10
    <3>5. /\ IsFiniteSet(Slots \ {<<p, n + 1>>})
          /\ Cardinality(Slots \ {<<p, n + 1>>}) = Cardinality(Slots) - 1
      BY <3>2, SlotsFinite, FS_RemoveElement, ZenonT(30)
    <3>6. Cardinality(Slots') <= Cardinality(Slots) - 1
      BY <3>4, <3>5, FS_Subset
    <3>7. Len(lh) \in Nat
      BY <1>1
    <3> QED
      BY <3>6, <3>7, <2>2, <1>3, SlotsFinite, SlotsFinite2, LogAssumption
  <2> QED
    BY <2>1, <2>2
<1>12. Holding'
  BY <1>1, <1>9 DEF Holding
<1>13. Logged'
  BY <1>1, <1>2, <1>3, <1>9 DEF Logged, InOp
<1> QED
  BY <1>1, <1>4, <1>5, <1>6, <1>11, <1>12, <1>13 DEF dvars

LEMMA EndOpIInv ==
  ASSUME IInv, NEW p \in Proc, EndOp(p)
  PROVE  IInv'
<1> USE DEF IInv
<1>1. /\ pc \in [Proc -> Points] /\ wrote \in [Proc -> SUBSET Block]
      /\ outstanding \in Nat /\ pc[p] = "op" /\ outstanding' = outstanding - 1
      /\ wrote' = [wrote EXCEPT ![p] = {}] /\ panicked' \in BOOLEAN
      /\ UNCHANGED <<dvars, cache, dirty, lh, tail, buf>>
  BY DEF EndOp, TypeOK
<1>2. ~committing /\ \A q \in Proc : pc[q] \in InOp \cup Idle
  BY <1>1 DEF Mode, Idle
<1> DEFINE Commits == /\ outstanding' = 0 /\ committing' = TRUE
                      /\ \/ pc' = [pc EXCEPT ![p] = "write_log"]
                         \/ pc' = [pc EXCEPT ![p] = "done"]
           Leaves == /\ committing' = FALSE
                     /\ pc' = Wake([pc EXCEPT ![p] = "out"])
<1>3. Commits \/ Leaves
  BY <1>1, <1>2 DEF EndOp, LastOut, TypeOK
<1>4. /\ pc' \in [Proc -> Points] /\ pc'[p] \notin InOp
      /\ \A q \in Proc \ {p} : pc'[q] = pc[q] \/ (pc[q] \in Idle /\ pc'[q] \in Idle)
      /\ Commits => pc'[p] \in {"write_log", "install", "done"}
      /\ Leaves => pc'[p] \in Idle
  <2>1. CASE Commits
    <3>1. "write_log" \in Points /\ "done" \in Points
      BY ONLY DEF Points
    <3>2. pc'[p] \in {"write_log", "done"} /\ pc' \in [Proc -> Points]
      BY ONLY <3>1, <2>1, <1>1
    <3>3. \A q \in Proc \ {p} : pc'[q] = pc[q]
      BY ONLY <2>1, <1>1
    <3> QED
      BY <3>2, <3>3, <2>1 DEF InOp
  <2>2. CASE Leaves
    <3>1. /\ [pc EXCEPT ![p] = "out"] \in [Proc -> Points]
          /\ [pc EXCEPT ![p] = "out"][p] = "out"
          /\ \A q \in Proc \ {p} : [pc EXCEPT ![p] = "out"][q] = pc[q]
      BY ONLY <1>1 DEF Points
    <3>2. /\ pc' \in [Proc -> Points] /\ pc'[p] \in Idle
          /\ \A q \in Proc \ {p} : pc'[q] = pc[q] \/ (pc[q] \in Idle /\ pc'[q] \in Idle)
      BY ONLY <3>1, <2>2, WakeFacts DEF Idle
    <3> QED
      BY <3>2, <2>2 DEF InOp, Idle
  <2> QED
    BY ONLY <2>1, <2>2, <1>3
<1>5. Active' = Active \ {p} /\ p \in Active
  BY <1>1, <1>4 DEF Active, InOp, Idle
<1>6. outstanding' = Cardinality(Active') /\ outstanding' \in Nat
  BY <1>1, <1>5, SlotsFinite, SlotsFinite2, FS_RemoveElement
<1>7. TypeOK'
  BY <1>1, <1>3, <1>4, <1>6 DEF TypeOK, dvars
<1>8. \A q \in Proc \ {p} : wrote'[q] = wrote[q]
  BY <1>1
<1>9. Slots' \subseteq Slots
  BY <1>5, <1>8 DEF Slots, Active
<1>10. Len(lh') + Cardinality(Slots') <= LOGSIZE
  <2>1. Len(lh) \in Nat /\ lh' = lh
    BY <1>1 DEF TypeOK
  <2> QED
    BY <2>1, <1>9, FewerSlots, SlotsFinite, SlotsFinite2, LogAssumption
<1>11. Mode'
  <2>1. CASE Commits
    <3>1. Active' = {}
      BY <2>1, <1>6, SlotsFinite2, FS_EmptySet
    <3>2. \A q \in Proc \ {p} : pc'[q] \in Idle
      BY <3>1, <1>2, <1>4 DEF Active
    <3> QED
      BY <2>1, <3>2, <1>4 DEF Mode
  <2>2. CASE Leaves
    BY <2>2, <1>2, <1>4 DEF Mode
  <2> QED
    BY <2>1, <2>2, <1>3
<1>12. Holding'
  <2>1. \A q \in Proc : pc'[q] \in {"modified", "checked"} => q # p /\ pc'[q] = pc[q]
    BY <1>4 DEF InOp, Idle
  <2> QED
    BY <2>1, <1>1, <1>8 DEF Holding
<1>13. Logged'
  <2>1. \A q \in Proc : pc'[q] \in InOp => q # p /\ pc'[q] = pc[q]
    BY <1>4 DEF InOp, Idle
  <2> QED
    BY <2>1, <1>1, <1>8 DEF Logged
<1> QED
  BY <1>1, <1>6, <1>7, <1>10, <1>11, <1>12, <1>13 DEF dvars

-----------------------------------------------------------------------------
(* Commit and recovery: the steps of a thread that is alone.                *)

\* A thread in commit() or recovery is the only one with anything to do.
LEMMA Alone ==
  ASSUME IInv, NEW p \in Proc, pc[p] \in {"read_head", "write_log", "install", "done"}
  PROVE  /\ outstanding = 0
         /\ \A q \in Proc \ {p} : pc[q] \in Idle \cup {"down"}
         /\ committing => \A q \in Proc \ {p} : pc[q] \in Idle
         /\ ~committing => /\ pc[p] \in {"read_head", "install"}
                           /\ \A q \in Proc \ {p} : pc[q] = "down"
  BY DEF IInv, Mode, InOp, Idle

\* A step of such a thread that stays in its phase keeps IInv, if the log in
\* memory and on disk stays within LOGSIZE.
LEMMA AloneStep ==
  ASSUME IInv, NEW p \in Proc, TypeOK',
         pc[p] \in {"read_head", "write_log", "install", "done"},
         \A q \in Proc \ {p} : pc'[q] = pc[q],
         \/ committing /\ pc'[p] \in {"write_log", "install", "done"}
         \/ ~committing /\ pc'[p] \in {"read_head", "install"},
         UNCHANGED <<committing, outstanding>>,
         Len(lh') <= LOGSIZE, Len(dhead') <= LOGSIZE
  PROVE  IInv'
<1>1. /\ outstanding = 0
      /\ committing => \A q \in Proc \ {p} : pc[q] \in Idle
      /\ ~committing => \A q \in Proc \ {p} : pc[q] = "down"
  BY Alone
<1>2. Mode'
  BY <1>1 DEF Mode
<1>3. \A q \in Proc : pc'[q] \notin InOp
  BY <1>1 DEF InOp, Idle
<1>4. Len(lh') + Cardinality(Slots') <= LOGSIZE /\ outstanding' = Cardinality(Active')
  <2>1. Len(lh') \in Nat
    BY DEF TypeOK
  <2> QED
    BY <2>1, <1>1, <1>3, NobodyActive2
<1>5. Holding' /\ Logged'
  BY <1>3 DEF Holding, Logged, InOp
<1> QED
  BY <1>2, <1>4, <1>5 DEF IInv

\* Nothing but the sizes of the log is known to be small of IInv.
LEMMA Sizes ==
  ASSUME IInv
  PROVE  /\ Len(lh) \in Nat /\ Len(lh) <= LOGSIZE /\ Len(dhead) <= LOGSIZE
         /\ TypeOK
<1>1. Len(lh) \in Nat
  BY DEF IInv, TypeOK
<1> QED
  BY <1>1, SlotsFinite, LogAssumption DEF IInv

LEMMA CommitStepIInv ==
  ASSUME IInv, NEW p \in Proc, CommitStep(p)
  PROVE  IInv'
<1>0. /\ Len(lh) \in Nat /\ Len(lh) <= LOGSIZE /\ Len(dhead) <= LOGSIZE /\ TypeOK
  BY Sizes
<1>1. CASE ReadHead(p)
  <2>1. TypeOK'
    BY <1>0, <1>1 DEF ReadHead, HeadOnDisk, TypeOK, dvars, Points
  <2>2. ~committing
    BY <1>1 DEF ReadHead, IInv, Mode, InOp, Idle
  <2> QED
    BY <2>1, <2>2, <1>0, <1>1, AloneStep DEF ReadHead, HeadOnDisk, TypeOK, dvars
<1>2. CASE WriteLog(p)
  <2>1. TypeOK'
    <3>1. lh[tail[p] + 1] \in Block /\ tail[p] + 1 \in 0..LOGSIZE
      BY <1>0, <1>2, LogAssumption DEF WriteLog, TypeOK
    <3>2. cache'[lh[tail[p] + 1]] \in Value \cup {None} /\ Content(lh[tail[p] + 1]) \in Value
      BY <3>1, <1>0, <1>2 DEF WriteLog, Content, TypeOK
    <3> QED
      BY <3>1, <3>2, <1>0, <1>2 DEF WriteLog, TypeOK
  <2>2. committing
    BY <1>2 DEF WriteLog, IInv, Mode, InOp, Idle
  <2> QED
    BY <2>1, <2>2, <1>0, <1>2, AloneStep DEF WriteLog
<1>3. CASE WriteHead(p)
  <2>1. TypeOK'
    BY <1>0, <1>3, LogAssumption DEF WriteHead, TypeOK, Points
  <2>2. committing
    BY <1>3 DEF WriteHead, IInv, Mode, InOp, Idle
  <2> QED
    BY <2>1, <2>2, <1>0, <1>3, AloneStep DEF WriteHead, TypeOK
<1>4. CASE InstallTrans(p)
  <2>1. TypeOK'
    <3>1. lh[tail[p] + 1] \in Block /\ tail[p] + 1 \in 1..LOGSIZE
      BY <1>0, <1>4, LogAssumption DEF InstallTrans, TypeOK
    <3> QED
      BY <3>1, <1>0, <1>4 DEF InstallTrans, TypeOK
  <2>2. /\ pc' = pc /\ pc[p] = "install"
        /\ UNCHANGED <<dhead, lh, committing, outstanding>>
    BY <1>4 DEF InstallTrans
  <2> QED
    BY <2>1, <2>2, <1>0, AloneStep
<1>5. CASE EraseLog(p)
  <2>1. TypeOK'
    BY <1>0, <1>5, LogAssumption DEF EraseLog, TypeOK, Points
  <2>2. Len(lh') = 0 /\ Len(dhead') = 0 /\ UNCHANGED <<committing, outstanding, wrote>>
    BY <1>5 DEF EraseLog
  <2>3. CASE committing
    <3>1. /\ pc[p] = "install" /\ pc'[p] = "done"
          /\ \A q \in Proc \ {p} : pc'[q] = pc[q]
      BY <2>3, <1>0, <1>5 DEF EraseLog, TypeOK
    <3>2. Len(lh') <= LOGSIZE /\ Len(dhead') <= LOGSIZE
      BY <2>2, LogAssumption
    <3> QED
      BY <2>1, <2>2, <2>3, <3>1, <3>2, AloneStep
  <2>4. CASE ~committing
    <3>1. pc' = [q \in Proc |-> "out"] /\ outstanding = 0
      BY <2>4, <1>5, Alone DEF EraseLog
    <3>2. Mode' /\ Holding' /\ Logged'
      BY <3>1, <2>2, <2>4 DEF Mode, Holding, Logged, Idle, InOp
    <3>3. \A q \in Proc : pc'[q] \notin InOp
      BY <3>1 DEF InOp
    <3> QED
      BY <2>1, <2>2, <3>1, <3>2, <3>3, NobodyActive2, LogAssumption DEF IInv
  <2> QED
    BY <2>3, <2>4
<1>6. CASE EndCommit(p)
  <2> DEFINE f == [pc EXCEPT ![p] = "out"]
  <2>1. f \in [Proc -> Points] /\ f[p] = "out" /\ \A q \in Proc \ {p} : f[q] = pc[q]
    BY <1>0 DEF TypeOK, Points
  <2>2. committing /\ outstanding = 0 /\ \A q \in Proc \ {p} : pc[q] \in Idle
    BY <1>6, Alone DEF EndCommit
  <2>3. /\ pc' = Wake(f) /\ committing' = FALSE
        /\ UNCHANGED <<dvars, cache, dirty, lh, outstanding, tail, buf, wrote, panicked>>
    BY <1>6 DEF EndCommit, WakeAtEnd
  <2>4. pc' \in [Proc -> Points] /\ \A q \in Proc : pc'[q] \in Idle
    BY <2>1, <2>2, <2>3, WakeFacts DEF Idle
  <2>5. TypeOK'
    BY <2>3, <2>4, <1>0 DEF TypeOK, dvars
  <2>6. Mode' /\ Holding' /\ Logged'
    BY <2>3, <2>4 DEF Mode, Holding, Logged, Idle, InOp
  <2>7. \A q \in Proc : pc'[q] \notin InOp
    BY <2>4 DEF Idle, InOp
  <2> QED
    <3>1. /\ outstanding' = Cardinality(Active') /\ Len(dhead') <= LOGSIZE
          /\ Len(lh') + Cardinality(Slots') <= LOGSIZE
      <4>1. Cardinality(Active') = 0 /\ Cardinality(Slots') = 0
        BY <2>7, NobodyActive2
      <4>2. lh' = lh /\ dhead' = dhead /\ outstanding' = outstanding
        BY <2>3 DEF dvars
      <4> QED
        BY <4>1, <4>2, <2>2, <1>0
    <3> QED
      BY <3>1, <2>5, <2>6 DEF IInv
<1> QED
  BY <1>1, <1>2, <1>3, <1>4, <1>5, <1>6 DEF CommitStep

-----------------------------------------------------------------------------
(* The buffer cache and the crash.                                         *)

LEMMA CacheIInv ==
  ASSUME IInv, NEW b \in Block, LoadBuf(b) \/ Evict(b)
  PROVE  IInv'
<1>1. /\ TypeOK /\ cache' \in [Block -> Value \cup {None}]
      /\ UNCHANGED <<dvars, dirty, lh, outstanding, committing, pc, tail, buf, wrote, panicked>>
  BY DEF IInv, TypeOK, LoadBuf, Evict
<1>2. TypeOK'
  BY <1>1 DEF TypeOK, dvars
<1>3. Active' = Active /\ Slots' = Slots
  BY <1>1 DEF Active, Slots
<1>4. Mode' /\ Holding' /\ Logged'
  BY <1>1 DEF IInv, Mode, Holding, Logged
<1> QED
  BY <1>1, <1>2, <1>3, <1>4 DEF IInv, dvars

LEMMA CrashIInv ==
  ASSUME IInv, Crash
  PROVE  IInv'
<1>1. PICK p \in Proc : pc' = Boot(p)
  BY DEF Crash
<1>2. pc' \in [Proc -> Points]
  BY <1>1 DEF Boot, Points
<1>3. TypeOK'
  <2>1. /\ UNCHANGED <<disk, dlog, dhead>> /\ TypeOK
        /\ cache' = [b \in Block |-> None] /\ dirty' = {} /\ lh' = <<>>
        /\ outstanding' = 0 /\ committing' = FALSE /\ panicked' = FALSE
        /\ tail' = [q \in Proc |-> 0] /\ buf' = [q \in Proc |-> None]
        /\ wrote' = [q \in Proc |-> {}]
    BY DEF Crash, IInv, dvars
  <2>2. lh' \in Seq(Block)
    BY <2>1
  <2> QED
    <3>1. /\ cache' \in [Block -> Value \cup {None}] /\ tail' \in [Proc -> 0..LOGSIZE]
          /\ buf' \in [Proc -> Block \cup {None}] /\ wrote' \in [Proc -> SUBSET Block]
      BY <2>1, LogAssumption
    <3> QED
      BY <1>2, <2>1, <2>2, <3>1 DEF TypeOK
<1>4. \A q \in Proc : pc'[q] \notin InOp
  BY <1>1 DEF Boot, InOp
<1>5. Mode' /\ Holding' /\ Logged'
  <2>1. ~committing' /\ outstanding' = 0
    BY DEF Crash
  <2>2. pc'[p] = "read_head" /\ \A q \in Proc \ {p} : pc'[q] = "down"
    BY <1>1 DEF Boot
  <2> QED
    BY <2>1, <2>2, <1>4 DEF Mode, Holding, Logged, InOp
<1>6. Len(lh') = 0 /\ outstanding' = 0 /\ dhead' = dhead
  BY DEF Crash, dvars
<1> QED
  BY <1>3, <1>4, <1>5, <1>6, NobodyActive2, LogAssumption DEF IInv

LEMMA NextIInv == IInv /\ [Next]_vars => IInv'
<1> SUFFICES ASSUME IInv, [Next]_vars PROVE IInv'
  OBVIOUS
<1>1. CASE \E p \in Proc : CallStep(p)
  BY <1>1, BeginOpIInv, ModifyBufIInv, LogWriteCheckIInv, LogWriteAppendIInv, EndOpIInv
     DEF CallStep
<1>2. CASE \E p \in Proc : CommitStep(p)
  BY <1>2, CommitStepIInv
<1>3. CASE \E b \in Block : LoadBuf(b) \/ Evict(b)
  BY <1>3, CacheIInv
<1>4. CASE Crash
  BY <1>4, CrashIInv
<1>5. CASE UNCHANGED vars
  <2>1. TypeOK' /\ Mode' /\ Holding' /\ Logged'
    BY <1>5 DEF vars, IInv, TypeOK, Mode, Holding, Logged
  <2>2. Active' = Active /\ Slots' = Slots
    BY <1>5 DEF vars, Active, Slots
  <2> QED
    BY <2>1, <2>2, <1>5 DEF vars, IInv
<1> QED
  BY <1>1, <1>2, <1>3, <1>4, <1>5 DEF Next

LEMMA Inductive == Spec => []IInv
  BY InitIInv, NextIInv, PTL DEF Spec

-----------------------------------------------------------------------------
(* The theorems.                                                           *)

\* Every variable of log.c keeps its type; in particular log.outstanding never
\* becomes negative and the loops of commit() stay inside log.lh.block[].
THEOREM TypeCorrect == Spec => []TypeOK
<1>1. IInv => TypeOK
  BY DEF IInv
<1> QED
  BY <1>1, Inductive, PTL

\* For any number of concurrent calls that keep to MAXOPBLOCKS, the test of
\* begin_op keeps the transaction within LOGSIZE entries.
THEOREM LogNeverOverflows == Spec => []LogFits
<1>1. IInv => LogFits
  BY Sizes DEF LogFits
<1> QED
  BY <1>1, Inductive, PTL

\* commit() and recovery run alone: nobody is inside a call, and no second
\* thread commits.
THEOREM CommitsAlone == Spec => []CommitExclusive
<1>1. IInv => CommitExclusive
  <2> SUFFICES ASSUME IInv, NEW p \in Proc,
                      pc[p] \in {"write_log", "install", "done", "read_head"}
               PROVE  /\ outstanding = 0
                      /\ \A q \in Proc \ {p} :
                           pc[q] \notin InOp \cup {"write_log", "install", "done"}
    BY DEF CommitExclusive
  <2> QED
    BY Alone DEF InOp, Idle
<1> QED
  BY <1>1, Inductive, PTL

\* begin_op, log_write, end_op and commit: the log in memory is never overrun
\* and commits run alone, for any number of calls, blocks and log entries.
THEOREM CallsShareLog == Spec => []LogSafe
  BY TypeCorrect, LogNeverOverflows, CommitsAlone, PTL DEF LogSafe

\* With a log area of at least one block more than LOGSIZE, a call that keeps
\* to MAXOPBLOCKS never meets a panic of log_write or end_op when it logs a
\* block that is new to the transaction.
THEOREM ReservationSuffices ==
  ASSUME NLOG > LOGSIZE
  PROVE  Spec => []ReservationHonoured
<1>1. Init => ReservationHonoured
  BY DEF Init, ReservationHonoured
<1>2. ASSUME IInv, ReservationHonoured, [Next]_vars
      PROVE  ReservationHonoured'
  <2>1. CASE UNCHANGED vars
    BY <1>2, <2>1 DEF vars, ReservationHonoured
  <2>2. CASE Next
    <3> SUFFICES ASSUME panicked'
                 PROVE  (\E p \in Proc : pc[p] = "modified" /\ buf[p] \in Listed(lh))'
      BY DEF ReservationHonoured
    <3>1. PICK p \in Proc : ~panicked /\ (LogWriteCheck(p) \/ EndOp(p))
      BY <2>2 DEF Next, CallStep, CommitStep, BeginOp, ModifyBuf, LogWriteAppend,
         ReadHead, WriteLog, WriteHead, InstallTrans, EraseLog, EndCommit,
         LoadBuf, Evict, Crash
    <3>2. CASE EndOp(p)
      <4>1. committing
        BY <3>1, <3>2 DEF EndOp
      <4>2. pc[p] = "op"
        BY <3>2 DEF EndOp
      <4> QED
        BY <4>1, <4>2, <1>2 DEF IInv, Mode, Idle
    <3>3. CASE LogWriteCheck(p)
      <4>1. /\ pc[p] = "modified" /\ UNCHANGED <<pc, lh, buf>>
            /\ TooBig \/ outstanding < 1
        BY <3>1, <3>3 DEF LogWriteCheck
      <4>2. SUFFICES ASSUME buf[p] \notin Listed(lh) PROVE FALSE
        BY <4>1
      <4>3. p \in Active
        BY <4>1 DEF Active, InOp
      <4>4. outstanding >= 1
        BY <4>3, <1>2, SlotsFinite, FS_EmptySet DEF IInv
      <4>5. /\ buf[p] \notin wrote[p] /\ IsFiniteSet(wrote[p])
            /\ Cardinality(wrote[p]) \in Nat /\ Cardinality(wrote[p]) < MAXOPBLOCKS
        BY <4>1, <4>2, <1>2, LogAssumption, FS_Subset, FS_CardinalityType
           DEF IInv, TypeOK, Holding, Logged, InOp
      <4>6. <<p, Cardinality(wrote[p]) + 1>> \in Slots
        BY <4>3, <4>5, LogAssumption DEF Slots
      <4>7. Cardinality(Slots) >= 1
        BY <4>6, SlotsFinite, FS_EmptySet
      <4>8. Len(lh) < LOGSIZE
        BY <4>7, <1>2, Sizes, SlotsFinite, LogAssumption DEF IInv
      <4> QED
        BY <4>1, <4>4, <4>8, <1>2, Sizes, LogAssumption DEF TooBig, IInv, TypeOK
    <3> QED
      BY <3>1, <3>2, <3>3
  <2> QED
    BY <1>2, <2>1, <2>2
<1> QED
  BY <1>1, <1>2, Inductive, PTL DEF Spec

-----------------------------------------------------------------------------
(***************************************************************************)
(* log.c makes groups of system calls atomic with respect to crashes: the  *)
(* log implements Transactions, for any processes, blocks and log sizes.   *)
(*                                                                         *)
(* The invariant above says who runs and how full the log is; atomicity is *)
(* about where the data of a block is.  DInv follows it through a          *)
(* transaction: in a pinned buffer until write_log is through, in the log  *)
(* block from there to install_trans, on the home block afterwards.  A     *)
(* crash keeps the disk only, so the parts about the disk (no header       *)
(* while calls run, each block listed once, header and log blocks          *)
(* agreeing) must hold between any two block writes.                       *)
(***************************************************************************)

\* A block is listed once.
Once(s) == \A i, j \in 1..Len(s) : s[i] = s[j] => i = j

\* The buffer cache has no other copy of the block than the disk has.
Clean(b) == cache[b] \in {None, disk[b]}

\* The copy in the buffer cache is the only one, and it stays.
Pinned(b) == b \in dirty /\ cache[b] # None

\* The loops of write_log and install_trans.
Committing == {"write_log", "install"}

\* The log lists a block once, in memory and on disk; a loop index is inside the
\* log, and the log is empty when commit() is done and when recovery begins.
Indices ==
  /\ Once(lh) /\ Once(dhead)
  /\ \A p \in Proc :
       /\ pc[p] \in Committing => tail[p] <= Len(lh)
       /\ pc[p] \notin Committing => tail[p] = 0
       /\ pc[p] \in {"done", "read_head"} => lh = <<>>

\* A buffer is locked from bread to brelse.
Buffers ==
  \A p \in Proc :
    /\ buf[p] # None => pc[p] \in {"modified", "checked"} /\ cache[buf[p]] # None
    /\ \A q \in Proc : buf[p] # None /\ buf[p] = buf[q] => p = q

\* No header on the disk
Unlogged ==
  (\A p \in Proc : pc[p] \notin {"install", "read_head"}) =>
    /\ dhead = <<>>
    /\ \A b \in Block : IF b \in Listed(lh) THEN Pinned(b) ELSE Locked(b) \/ Clean(b)

\* write_log: the log blocks so far are copies of the buffers.
Copied ==
  \A p \in Proc : pc[p] = "write_log" => \A i \in 1..tail[p] : dlog[i] = cache[lh[i]]

\* install_trans, in commit() and in recovery: the header is on the disk, the home
\* blocks so far have their contents, and the others are still pinned.
Installing ==
  \A p \in Proc : pc[p] = "install" =>
    /\ dhead = lh
    /\ \A i \in 1..tail[p] : disk[lh[i]] = dlog[i]
    /\ \A b \in Block : Clean(b) \/ (committing /\ \E i \in 1..Len(lh) : i > tail[p] /\ lh[i] = b)
    /\ committing => \A i \in 1..Len(lh) : i > tail[p] => Pinned(lh[i]) /\ cache[lh[i]] = dlog[i]

\* The cache is empty when recovery begins.
Booting == \A p \in Proc : pc[p] = "read_head" => \A b \in Block : cache[b] = None

\* The invariant of the data, on top of IInv.
DInv == Indices /\ Buffers /\ Unlogged /\ Copied /\ Installing /\ Booting

-----------------------------------------------------------------------------
(* The data invariant is kept.                                              *)

\* What the types say of the log and its indices.
LEMMA Bounds ==
  ASSUME IInv, DInv
  PROVE  /\ TypeOK /\ Len(lh) \in Nat /\ Len(lh) <= LOGSIZE /\ DOMAIN lh = 1..Len(lh)
         /\ Len(dhead) \in Nat /\ Len(dhead) <= LOGSIZE /\ DOMAIN dhead = 1..Len(dhead)
         /\ \A i \in 1..Len(lh) : lh[i] \in Block /\ i \in 1..LOGSIZE
         /\ \A i \in 1..Len(dhead) : dhead[i] \in Block /\ i \in 1..LOGSIZE
         /\ \A p \in Proc : tail[p] \in Nat
<1>1. TypeOK /\ Len(lh) \in Nat /\ Len(lh) <= LOGSIZE /\ Len(dhead) <= LOGSIZE
  BY Sizes
<1>2. lh \in Seq(Block) /\ dhead \in Seq(Block) /\ \A p \in Proc : tail[p] \in 0..LOGSIZE
  BY <1>1 DEF TypeOK
<1> QED
  BY <1>1, <1>2, LogAssumption

\* It holds of a new image, at power-on.
LEMMA InitDInv == Init => DInv
<1> SUFFICES ASSUME Init PROVE DInv
  OBVIOUS
<1>1. PICK p \in Proc : pc = Boot(p)
  BY DEF Init
<1>2. pc[p] = "read_head" /\ \A q \in Proc : q # p => pc[q] = "down"
  BY <1>1 DEF Boot
<1>3. Indices
  BY DEF Init, Indices, Once
<1>4. Buffers
  BY DEF Init, Buffers
<1>5. Unlogged /\ Copied /\ Installing /\ Booting
  BY <1>2 DEF Init, Unlogged, Copied, Installing, Booting
<1> QED
  BY <1>3, <1>4, <1>5 DEF DInv

\* A step that writes no block, no buffer and no log keeps the invariant, if
\* nobody gets into or out of a commit on the way.
LEMMA QuietDInv ==
  ASSUME DInv, UNCHANGED <<disk, dlog, dhead, cache, dirty, lh, tail, buf>>,
         committing' = committing \/ \A p \in Proc : pc[p] # "install",
         \A p \in Proc :
           \/ pc'[p] = pc[p]
           \/ /\ pc[p] \notin {"install", "read_head"} /\ pc'[p] \notin {"install", "read_head"}
              /\ pc'[p] = "write_log" => tail[p] = 0 /\ tail[p] <= Len(lh)
              /\ pc[p] # "write_log"
              /\ pc'[p] = "done" => lh = <<>>
              /\ buf[p] # None => pc'[p] \in {"modified", "checked"}
  PROVE  DInv'
<1>1. Indices'
  <2>1. Once(lh)' /\ Once(dhead)'
    BY DEF DInv, Indices, Once
  <2>2. ASSUME NEW p \in Proc
        PROVE  /\ pc'[p] \in Committing => tail'[p] <= Len(lh')
               /\ pc'[p] \notin Committing => tail'[p] = 0
               /\ pc'[p] \in {"done", "read_head"} => lh' = <<>>
    BY DEF DInv, Indices, Committing
  <2> QED
    BY <2>1, <2>2 DEF Indices
<1>2. Buffers'
  BY DEF DInv, Buffers
<1>3. Unlogged'
  <2>1. (\A p \in Proc : pc'[p] \notin {"install", "read_head"}) =>
          \A p \in Proc : pc[p] \notin {"install", "read_head"}
    OBVIOUS
  <2> QED
    BY <2>1 DEF DInv, Unlogged, Pinned, Clean, Locked
<1>4. Copied'
  BY DEF DInv, Copied
<1>5. Installing'
  BY DEF DInv, Installing, Clean, Pinned
<1>6. Booting'
  BY DEF DInv, Booting
<1> QED
  BY <1>1, <1>2, <1>3, <1>4, <1>5, <1>6 DEF DInv

\* begin_op writes nothing.
LEMMA BeginOpDInv ==
  ASSUME IInv, DInv, NEW p \in Proc, BeginOp(p)
  PROVE  DInv'
<1>1. /\ UNCHANGED <<disk, dlog, dhead, cache, dirty, lh, tail, buf, committing>>
      /\ pc[p] \in {"out", "woken"} /\ pc'[p] \in {"op", "asleep"}
      /\ \A q \in Proc : q # p => pc'[q] = pc[q]
  BY DEF BeginOp, dvars, IInv, TypeOK
<1>2. buf[p] = None
  BY <1>1 DEF DInv, Buffers
<1> QED
  BY <1>1, <1>2, QuietDInv

\* The tests of log_write write nothing.
LEMMA LogWriteCheckDInv ==
  ASSUME IInv, DInv, NEW p \in Proc, LogWriteCheck(p)
  PROVE  DInv'
<1>1. /\ UNCHANGED <<disk, dlog, dhead, cache, dirty, lh, tail, buf, committing>>
      /\ pc[p] = "modified" /\ pc'[p] \in {"modified", "checked"}
      /\ \A q \in Proc : q # p => pc'[q] = pc[q]
  BY DEF LogWriteCheck, dvars, IInv, TypeOK
<1> QED
  BY <1>1, QuietDInv

\* end_op writes nothing; a commit starts with its index at 0.
LEMMA EndOpDInv ==
  ASSUME IInv, DInv, NEW p \in Proc, EndOp(p)
  PROVE  DInv'
<1> DEFINE f == [pc EXCEPT ![p] = "out"]
<1>1. /\ UNCHANGED <<disk, dlog, dhead, cache, dirty, lh, tail, buf>> /\ pc[p] = "op"
      /\ f \in [Proc -> Points] /\ f[p] = "out" /\ \A q \in Proc : q # p => f[q] = pc[q]
  BY DEF EndOp, dvars, IInv, TypeOK, Points
<1>2. buf[p] = None /\ tail[p] = 0 /\ Len(lh) \in Nat
  BY <1>1, Bounds DEF DInv, Buffers, Indices, Committing
<1>3. \A q \in Proc : pc[q] # "install"
  BY <1>1 DEF IInv, Mode, InOp, Idle
<1>4. \/ /\ pc'[p] \in {"op", "write_log"} \/ (pc'[p] = "done" /\ lh = <<>>)
         /\ \A q \in Proc : q # p => pc'[q] = pc[q]
      \/ pc' = Wake(f)
  <2>1. Len(lh) > 0 \/ lh = <<>>
    BY <1>2 DEF IInv, TypeOK
  <2> QED
    BY <2>1 DEF EndOp, IInv, TypeOK
<1>5. CASE /\ pc'[p] \in {"op", "write_log"} \/ (pc'[p] = "done" /\ lh = <<>>)
           /\ \A q \in Proc : q # p => pc'[q] = pc[q]
  BY <1>1, <1>2, <1>3, <1>5, QuietDInv
<1>6. CASE pc' = Wake(f)
  <2>1. \A q \in Proc : pc'[q] = f[q] \/ (f[q] \in Idle /\ pc'[q] \in Idle)
    BY <1>1, <1>6, WakeFacts
  <2>2. \A q \in Proc : pc[q] \in Idle => buf[q] = None
    BY DEF DInv, Buffers, Idle
  <2> HIDE DEF f
  <2>3. ASSUME NEW q \in Proc
        PROVE  \/ pc'[q] = pc[q]
               \/ /\ pc[q] \notin {"install", "read_head"} /\ pc'[q] \notin {"install", "read_head"}
                  /\ pc'[q] = "write_log" => tail[q] = 0 /\ tail[q] <= Len(lh)
                  /\ pc[q] # "write_log"
                  /\ pc'[q] = "done" => lh = <<>>
                  /\ buf[q] # None => pc'[q] \in {"modified", "checked"}
    <3>1. CASE q = p
      BY <3>1, <1>1, <1>2, <2>1 DEF Idle
    <3>2. CASE q # p
      BY <3>2, <1>1, <2>1, <2>2 DEF Idle
    <3> QED
      BY <3>1, <3>2
  <2> QED
    BY <1>1, <1>3, <2>3, QuietDInv
<1> QED
  BY <1>4, <1>5, <1>6

\* The end of end_op writes nothing.
LEMMA EndCommitDInv ==
  ASSUME IInv, DInv, NEW p \in Proc, EndCommit(p)
  PROVE  DInv'
<1> DEFINE f == [pc EXCEPT ![p] = "out"]
<1>1. /\ UNCHANGED <<disk, dlog, dhead, cache, dirty, lh, tail, buf>> /\ pc[p] = "done"
      /\ f \in [Proc -> Points] /\ f[p] = "out" /\ \A q \in Proc : q # p => f[q] = pc[q]
      /\ pc' = Wake(f)
  BY DEF EndCommit, WakeAtEnd, dvars, IInv, TypeOK, Points
<1>2. \A q \in Proc : pc[q] # "install"
  BY <1>1, Alone DEF Idle
<1>3. \A q \in Proc : pc[q] \in Idle \cup {"done"} => buf[q] = None
  BY DEF DInv, Buffers, Idle
<1>4. \A q \in Proc : pc'[q] = f[q] \/ (f[q] \in Idle /\ pc'[q] \in Idle)
  BY <1>1, WakeFacts
<1> HIDE DEF f
<1>5. ASSUME NEW q \in Proc
      PROVE  \/ pc'[q] = pc[q]
             \/ /\ pc[q] \notin {"install", "read_head"} /\ pc'[q] \notin {"install", "read_head"}
                /\ pc'[q] = "write_log" => tail[q] = 0 /\ tail[q] <= Len(lh)
                /\ pc[q] # "write_log"
                /\ pc'[q] = "done" => lh = <<>>
                /\ buf[q] # None => pc'[q] \in {"modified", "checked"}
  <2>1. CASE q = p
    BY <2>1, <1>1, <1>3, <1>4 DEF Idle
  <2>2. CASE q # p
    BY <2>2, <1>1, <1>3, <1>4 DEF Idle
  <2> QED
    BY <2>1, <2>2
<1> QED
  BY <1>1, <1>2, <1>5, QuietDInv

\* While a call is inside, or write_log runs, no header is on its way.
LEMMA NoneInstalls ==
  ASSUME IInv, NEW p \in Proc, pc[p] \in InOp \cup {"write_log"}
  PROVE  /\ \A q \in Proc : pc[q] \notin {"install", "read_head"}
         /\ pc[p] \in InOp => \A q \in Proc : pc[q] \notin {"write_log", "done"}
         /\ pc[p] = "write_log" => \A q \in Proc : pc[q] \notin InOp
BY DEF IInv, Mode, InOp, Idle

\* A call modifies a buffer it has locked.
LEMMA ModifyBufDInv ==
  ASSUME IInv, DInv, NEW p \in Proc, NEW b \in Block, NEW v \in Value, ModifyBuf(p, b, v)
  PROVE  DInv'
<1>1. /\ UNCHANGED <<disk, dlog, dhead, dirty, lh, tail, committing>> /\ pc[p] = "op"
      /\ pc'[p] = "modified" /\ \A q \in Proc : q # p => pc'[q] = pc[q]
      /\ buf'[p] = b /\ \A q \in Proc : q # p => buf'[q] = buf[q]
      /\ cache'[b] = v /\ v # None /\ b # None /\ \A a \in Block : a # b => cache'[a] = cache[a]
      /\ \A q \in Proc : buf[q] # b
  BY LogAssumption DEF ModifyBuf, dvars, IInv, TypeOK, Locked
<1>2. \A q \in Proc : pc'[q] \notin {"install", "read_head", "write_log", "done"}
                      /\ pc[q] \notin {"install", "read_head", "write_log", "done"}
  BY <1>1, NoneInstalls DEF InOp
<1>3. Indices'
  BY <1>1, <1>2 DEF DInv, Indices, Committing, Once
<1>4. Buffers'
  <2>1. \A q \in Proc : buf[q] \in Block \cup {None}
    BY DEF IInv, TypeOK
  <2> QED
    BY <1>1, <2>1 DEF DInv, Buffers
<1>5. Unlogged'
  <2>1. \A a \in Block : IF a \in Listed(lh) THEN Pinned(a) ELSE Locked(a) \/ Clean(a)
    BY <1>2 DEF DInv, Unlogged
  <2>2. dhead = <<>>
    BY <1>2 DEF DInv, Unlogged
  <2>3. \A a \in Block : Locked(a) => Locked(a)'
    <3>1. \A a \in Block : \A q \in Proc : buf[q] = a => buf'[q] = a
      <4>1. buf[p] = None
        BY <1>1 DEF DInv, Buffers
      <4> QED
        BY <1>1, <4>1, LogAssumption
    <3> QED
      BY <3>1 DEF Locked
  <2>4. Locked(b)' /\ (b \in dirty => Pinned(b)')
    BY <1>1 DEF Locked, Pinned
  <2>5. \A a \in Block : a # b => (Pinned(a) => Pinned(a)') /\ (Clean(a) => Clean(a)')
    BY <1>1 DEF Pinned, Clean
  <2>6. \A a \in Block : IF a \in Listed(lh)' THEN Pinned(a)' ELSE Locked(a)' \/ Clean(a)'
    <3>1. Listed(lh)' = Listed(lh)
      BY <1>1 DEF Listed
    <3> QED
      BY <2>1, <2>3, <2>4, <2>5, <3>1 DEF Pinned
  <2> QED
    BY <1>1, <2>2, <2>6 DEF Unlogged
<1>6. Copied' /\ Installing' /\ Booting'
  BY <1>2 DEF Copied, Installing, Booting
<1> QED
  BY <1>3, <1>4, <1>5, <1>6 DEF DInv

\* Appending a block the log does not list keeps each block listed once.
LEMMA AppendOnce ==
  ASSUME NEW S, NEW s \in Seq(S), NEW e \in S, Once(s), e \notin Listed(s)
  PROVE  Once(Append(s, e))
<1> DEFINE t == Append(s, e)
<1>1. /\ Len(t) = Len(s) + 1 /\ Len(s) \in Nat /\ DOMAIN s = 1..Len(s)
      /\ t[Len(s) + 1] = e /\ \A i \in 1..Len(s) : t[i] = s[i]
  OBVIOUS
<1>2. \A i \in 1..Len(s) : s[i] # e
  BY <1>1 DEF Listed
<1> HIDE DEF t
<1>3. ASSUME NEW i \in 1..Len(t), NEW j \in 1..Len(t), t[i] = t[j]
      PROVE  i = j
  <2>1. i \in 1..Len(s) \/ i = Len(s) + 1
    BY <1>1
  <2>2. j \in 1..Len(s) \/ j = Len(s) + 1
    BY <1>1
  <2> QED
    BY <1>1, <1>2, <1>3, <2>1, <2>2 DEF Once
<1> QED
  BY <1>3 DEF Once, t

\* log_write pins the buffer and lists it before brelse unlocks it.
LEMMA LogWriteAppendDInv ==
  ASSUME IInv, DInv, NEW p \in Proc, LogWriteAppend(p)
  PROVE  DInv'
<1>1. PICK b \in Block : buf[p] = b
  BY DEF LogWriteAppend, IInv, Holding
<1>2. /\ UNCHANGED <<disk, dlog, dhead, cache, tail, committing>> /\ pc[p] = "checked"
      /\ pc'[p] = "op" /\ \A q \in Proc : q # p => pc'[q] = pc[q]
      /\ buf'[p] = None /\ \A q \in Proc : q # p => buf'[q] = buf[q]
      /\ lh' = Absorb(b) /\ dirty' = dirty \cup {b} /\ lh \in Seq(Block)
      /\ b # None
  BY <1>1, LogAssumption DEF LogWriteAppend, dvars, IInv, TypeOK, Pin
<1>3. \A q \in Proc : pc'[q] \notin {"install", "read_head", "write_log", "done"}
                      /\ pc[q] \notin {"install", "read_head", "write_log", "done"}
  BY <1>2, NoneInstalls DEF InOp
<1>4. Once(lh') /\ Listed(lh') = Listed(lh) \cup {b}
  <2>1. Once(lh)
    BY DEF DInv, Indices
  <2>2. CASE b \in Listed(lh)
    BY <2>1, <2>2, <1>2 DEF Absorb, Once
  <2>3. CASE b \notin Listed(lh)
    <3>1. lh' = Append(lh, b)
      BY <2>3, <1>2 DEF Absorb
    <3>2. Once(Append(lh, b))
      BY <2>1, <2>3, <1>2, AppendOnce
    <3>3. Listed(Append(lh, b)) = Listed(lh) \cup {b}
      BY <1>2, AppendFacts
    <3> QED
      BY <3>1, <3>2, <3>3
  <2> QED
    BY <2>2, <2>3
<1>5. Indices'
  BY <1>2, <1>3, <1>4 DEF DInv, Indices, Committing, Once
<1>6. Buffers'
  BY <1>2 DEF DInv, Buffers
<1>7. Unlogged'
  <2>1. \A a \in Block : IF a \in Listed(lh) THEN Pinned(a) ELSE Locked(a) \/ Clean(a)
    BY <1>3 DEF DInv, Unlogged
  <2>2. dhead = <<>>
    BY <1>3 DEF DInv, Unlogged
  <2>3. \A a \in Block : a # b /\ Locked(a) => Locked(a)'
    BY <1>1, <1>2 DEF Locked
  <2>4. Pinned(b)'
    <3>1. cache[b] # None
      BY <1>1, <1>2 DEF DInv, Buffers
    <3> QED
      BY <3>1, <1>2 DEF Pinned
  <2>5. \A a \in Block : (Pinned(a) => Pinned(a)') /\ (Clean(a) => Clean(a)')
    BY <1>2 DEF Pinned, Clean
  <2>6. \A a \in Block : IF a \in Listed(lh') THEN Pinned(a)' ELSE Locked(a)' \/ Clean(a)'
    BY <1>4, <2>1, <2>3, <2>4, <2>5
  <2> QED
    BY <1>2, <2>2, <2>6 DEF Unlogged
<1>8. Copied' /\ Installing' /\ Booting'
  BY <1>3 DEF Copied, Installing, Booting
<1> QED
  BY <1>5, <1>6, <1>7, <1>8 DEF DInv

\* In commit() and recovery no buffer is locked by a call.
LEMMA NothingLocked ==
  ASSUME IInv, DInv, NEW p \in Proc, pc[p] \in {"read_head", "write_log", "install", "done"}
  PROVE  /\ \A q \in Proc : buf[q] = None
         /\ \A b \in Block : ~Locked(b)
         /\ \A q \in Proc : q # p => tail[q] = 0 /\ pc[q] \in Idle \cup {"down"}
<1>1. \A q \in Proc : q # p => pc[q] \in Idle \cup {"down"}
  BY Alone
<1>2. \A q \in Proc : buf[q] = None
  BY <1>1 DEF DInv, Buffers, Idle
<1>3. \A q \in Proc : q # p => tail[q] = 0
  BY <1>1 DEF DInv, Indices, Committing, Idle
<1> QED
  BY <1>1, <1>2, <1>3, LogAssumption DEF Locked

\* write_log copies a pinned buffer: bread does not read the disk.
LEMMA WriteLogDInv ==
  ASSUME IInv, DInv, NEW p \in Proc, WriteLog(p)
  PROVE  DInv' /\ cache' = cache
<1>1. PICK n \in Nat : n = tail[p]
  BY Bounds
<1>2. /\ UNCHANGED <<disk, dhead, dirty, lh, committing, pc, buf>> /\ pc[p] = "write_log"
      /\ n < Len(lh) /\ tail'[p] = n + 1 /\ \A q \in Proc : q # p => tail'[q] = tail[q]
      /\ dlog' = [dlog EXCEPT ![n + 1] = Content(lh[n + 1])]
      /\ cache' = [cache EXCEPT ![lh[n + 1]] = Content(lh[n + 1])]
  BY <1>1 DEF WriteLog, IInv, TypeOK
<1>3. /\ Len(lh) \in Nat /\ n + 1 \in 1..Len(lh) /\ n + 1 \in 1..LOGSIZE
      /\ dlog \in [1..LOGSIZE -> Value] /\ DOMAIN lh = 1..Len(lh)
      /\ cache \in [Block -> Value \cup {None}] /\ lh[n + 1] \in Block
      /\ \A i \in 1..Len(lh) : i \in 1..LOGSIZE
  <2>1. Len(lh) \in Nat /\ n + 1 \in 1..Len(lh)
    BY <1>2, Bounds
  <2> QED
    BY <2>1, Bounds DEF TypeOK
<1>4. \A q \in Proc : pc[q] \notin {"install", "read_head"}
  BY <1>2, NoneInstalls
<1>5. cache[lh[n + 1]] # None
  <2>1. lh[n + 1] \in Listed(lh)
    BY <1>3 DEF Listed
  <2> QED
    BY <2>1, <1>3, <1>4 DEF DInv, Unlogged, Pinned
<1>6. cache' = cache
  BY <1>2, <1>3, <1>5 DEF Content
<1>7. Indices'
  <2>1. \A q \in Proc : pc[q] \in Committing => tail'[q] <= Len(lh)
    BY <1>2, <1>3 DEF DInv, Indices
  <2>2. \A q \in Proc : pc[q] \notin Committing => tail'[q] = 0
    BY <1>2 DEF DInv, Indices, Committing
  <2> QED
    BY <2>1, <2>2, <1>2 DEF DInv, Indices, Once
<1>8. Buffers'
  BY <1>2, <1>6 DEF DInv, Buffers
<1>9. Unlogged'
  BY <1>2, <1>6 DEF DInv, Unlogged, Pinned, Clean, Locked
<1>10. Copied'
  <2>1. \A q \in Proc : q # p => pc[q] # "write_log"
    BY <1>2, Alone DEF Idle
  <2>2. ASSUME NEW i \in 1..(n + 1)
        PROVE  dlog'[i] = cache[lh[i]]
    <3>1. CASE i = n + 1
      BY <3>1, <1>2, <1>3, <1>5 DEF Content
    <3>2. CASE i # n + 1
      <4>1. i \in 1..n /\ i \in 1..LOGSIZE
        BY <3>2, <1>3
      <4>2. dlog[i] = cache[lh[i]]
        BY <4>1, <1>1, <1>2 DEF DInv, Copied
      <4> QED
        BY <3>2, <4>1, <4>2, <1>2, <1>3
    <3> QED
      BY <3>1, <3>2
  <2> QED
    BY <2>1, <2>2, <1>2, <1>6 DEF Copied
<1>11. Installing' /\ Booting'
  BY <1>2, <1>4 DEF Installing, Booting
<1> QED
  BY <1>6, <1>7, <1>8, <1>9, <1>10, <1>11 DEF DInv

\* write_head: every block the header lists has its copy in the log by now.
LEMMA WriteHeadDInv ==
  ASSUME IInv, DInv, NEW p \in Proc, WriteHead(p)
  PROVE  DInv'
<1>1. /\ UNCHANGED <<disk, dlog, cache, dirty, lh, committing, buf>> /\ pc[p] = "write_log"
      /\ dhead' = lh /\ tail[p] = Len(lh) /\ tail'[p] = 0 /\ pc'[p] = "install"
      /\ \A q \in Proc : q # p => tail'[q] = tail[q] /\ pc'[q] = pc[q]
  BY DEF WriteHead, LogWritten, IInv, TypeOK
<1>2. Len(lh) \in Nat /\ DOMAIN lh = 1..Len(lh) /\ \A i \in 1..Len(lh) : lh[i] \in Block
  BY Bounds
<1>3. \A q \in Proc : pc[q] \notin {"install", "read_head"}
  BY <1>1, NoneInstalls
<1>4. /\ \A q \in Proc : buf[q] = None
      /\ \A b \in Block : ~Locked(b)
      /\ \A q \in Proc : q # p => tail[q] = 0 /\ pc[q] \in Idle \cup {"down"}
  BY <1>1, NothingLocked
<1>5. committing = TRUE
  BY <1>1, Alone DEF IInv, TypeOK
<1>6. Indices'
  <2>1. Once(lh)' /\ Once(dhead)'
    BY <1>1 DEF DInv, Indices, Once
  <2>2. \A q \in Proc : tail'[q] = 0 /\ pc'[q] \notin {"done", "read_head"}
    BY <1>1, <1>4 DEF Idle
  <2> QED
    BY <2>1, <2>2, <1>1, <1>2 DEF Indices
<1>7. Buffers'
  BY <1>1, <1>4 DEF Buffers
<1>8. Unlogged' /\ Copied' /\ Booting'
  BY <1>1, <1>3, <1>4 DEF Unlogged, Copied, Booting, Idle
<1>9. Installing'
  <2>1. ASSUME NEW b \in Block
        PROVE  Clean(b) \/ \E i \in 1..Len(lh) : i > 0 /\ lh[i] = b
    <3>1. CASE b \in Listed(lh)
      <4>1. PICK i \in 1..Len(lh) : lh[i] = b
        BY <3>1, <1>2 DEF Listed
      <4> QED
        BY <4>1
    <3>2. CASE b \notin Listed(lh)
      BY <3>2, <1>3, <1>4 DEF DInv, Unlogged
    <3> QED
      BY <3>1, <3>2
  <2>2. ASSUME NEW i \in 1..Len(lh)
        PROVE  Pinned(lh[i]) /\ cache[lh[i]] = dlog[i]
    <3>1. lh[i] \in Listed(lh) /\ lh[i] \in Block
      BY <1>2 DEF Listed
    <3>2. Pinned(lh[i])
      BY <3>1, <1>3 DEF DInv, Unlogged
    <3>3. cache[lh[i]] = dlog[i]
      BY <1>1 DEF DInv, Copied
    <3> QED
      BY <3>2, <3>3
  <2>3. \A q \in Proc : pc'[q] = "install" => q = p
    BY <1>1, <1>3
  <2>4. \A b \in Block : Clean(b)' = Clean(b)
    BY <1>1 DEF Clean
  <2>5. \A i \in 1..Len(lh) : Pinned(lh[i])' /\ cache'[lh'[i]] = dlog'[i]
    BY <2>2, <1>1 DEF Pinned
  <2> QED
    BY <2>1, <2>3, <2>4, <2>5, <1>1, <1>5 DEF Installing
<1> QED
  BY <1>6, <1>7, <1>8, <1>9 DEF DInv

\* install_trans writes one home block, and no other entry lists that block.
LEMMA InstallTransDInv ==
  ASSUME IInv, DInv, NEW p \in Proc, InstallTrans(p)
  PROVE  DInv'
<1>1. PICK n \in Nat : n = tail[p]
  BY Bounds
<1>2. PICK b \in Block : b = lh[n + 1] /\ n + 1 \in 1..Len(lh) /\ n + 1 \in 1..LOGSIZE
  <2>1. n < Len(lh)
    BY <1>1 DEF InstallTrans
  <2>2. n + 1 \in 1..Len(lh)
    BY <2>1, Bounds
  <2> QED
    BY <2>2, Bounds
<1>3. /\ UNCHANGED <<dlog, dhead, lh, committing, pc, buf>> /\ pc[p] = "install"
      /\ tail'[p] = n + 1 /\ \A q \in Proc : q # p => tail'[q] = tail[q]
      /\ disk'[b] = dlog[n + 1] /\ \A a \in Block : a # b => disk'[a] = disk[a]
      /\ cache'[b] = dlog[n + 1] /\ \A a \in Block : a # b => cache'[a] = cache[a]
      /\ dirty' = dirty \ {b}
  BY <1>1, <1>2 DEF InstallTrans, IInv, TypeOK
<1>4. /\ \A q \in Proc : buf[q] = None
      /\ \A q \in Proc : q # p => tail[q] = 0 /\ pc[q] \in Idle \cup {"down"}
  BY <1>3, NothingLocked
<1>5. Len(lh) \in Nat /\ \A i \in 1..Len(lh) : lh[i] \in Block /\ (lh[i] = b => i = n + 1)
  BY <1>2, Bounds DEF DInv, Indices, Once
<1>6. Indices'
  <2>1. \A q \in Proc : pc[q] \in Committing => tail'[q] <= Len(lh)
    BY <1>2, <1>3, <1>5 DEF DInv, Indices
  <2>2. \A q \in Proc : pc[q] \notin Committing => tail'[q] = 0
    BY <1>3 DEF DInv, Indices, Committing
  <2> QED
    BY <2>1, <2>2, <1>3 DEF DInv, Indices, Once
<1>7. Buffers'
  BY <1>3, <1>4 DEF Buffers
<1>8. Unlogged' /\ Copied' /\ Booting'
  BY <1>3, <1>4 DEF Unlogged, Copied, Booting, Idle
<1>9. Installing'
  <2>1. /\ dhead = lh
        /\ \A i \in 1..n : disk[lh[i]] = dlog[i]
        /\ \A a \in Block : Clean(a) \/ (committing /\ \E i \in 1..Len(lh) : i > n /\ lh[i] = a)
        /\ committing => \A i \in 1..Len(lh) : i > n => Pinned(lh[i]) /\ cache[lh[i]] = dlog[i]
    BY <1>1, <1>3 DEF DInv, Installing
  <2>2. ASSUME NEW i \in 1..(n + 1)
        PROVE  disk'[lh[i]] = dlog[i]
    <3>1. CASE i = n + 1
      BY <3>1, <1>2, <1>3
    <3>2. CASE i # n + 1
      <4>1. i \in 1..n /\ i \in 1..Len(lh)
        BY <3>2, <1>2, <1>5
      <4> QED
        BY <3>2, <4>1, <2>1, <1>3, <1>5
    <3> QED
      BY <3>1, <3>2
  <2>3. ASSUME NEW a \in Block
        PROVE  Clean(a)' \/ (committing /\ \E i \in 1..Len(lh) : i > n + 1 /\ lh[i] = a)
    <3>1. CASE a = b
      BY <3>1, <1>3 DEF Clean
    <3>2. CASE a # b /\ Clean(a)
      BY <3>2, <1>3 DEF Clean
    <3>3. CASE a # b /\ ~Clean(a)
      <4>1. PICK i \in 1..Len(lh) : i > n /\ lh[i] = a /\ committing
        BY <3>3, <2>1
      <4>2. i > n + 1
        <5>1. i # n + 1
          BY <3>3, <4>1, <1>2
        <5> QED
          BY <4>1, <5>1, <1>5
      <4> QED
        BY <4>1, <4>2
    <3> QED
      BY <3>1, <3>2, <3>3
  <2>4. ASSUME committing, NEW i \in 1..Len(lh), i > n + 1
        PROVE  Pinned(lh[i])' /\ cache'[lh[i]] = dlog[i]
    <3>1. i > n /\ lh[i] # b /\ lh[i] \in Block
      BY <2>4, <1>5
    <3>2. Pinned(lh[i]) /\ cache[lh[i]] = dlog[i]
      BY <2>1, <2>4, <3>1
    <3> QED
      BY <3>1, <3>2, <1>3 DEF Pinned
  <2>5. \A q \in Proc : pc[q] = "install" => q = p
    BY <1>4 DEF Idle
  <2> QED
    BY <2>1, <2>2, <2>3, <2>4, <2>5, <1>3 DEF Installing
<1> QED
  BY <1>6, <1>7, <1>8, <1>9 DEF DInv

\* When the header is erased every buffer is as the disk.
LEMMA EraseLogDInv ==
  ASSUME IInv, DInv, NEW p \in Proc, EraseLog(p)
  PROVE  DInv' /\ \A b \in Block : Clean(b)
<1>1. /\ UNCHANGED <<disk, dlog, cache, dirty, committing, buf>> /\ pc[p] = "install"
      /\ tail[p] = Len(lh) /\ lh' = <<>> /\ dhead' = <<>> /\ tail'[p] = 0
      /\ \A q \in Proc : q # p => tail'[q] = tail[q]
  BY DEF EraseLog, Installed, IInv, TypeOK
<1>2. /\ \A q \in Proc : buf[q] = None
      /\ \A q \in Proc : q # p => tail[q] = 0 /\ pc[q] \in Idle \cup {"down"}
  BY <1>1, NothingLocked
<1>3. \A q \in Proc : pc'[q] \in Idle \cup {"down", "done"}
  BY <1>2 DEF EraseLog, IInv, TypeOK, Idle
<1>4. \A b \in Block : Clean(b)
  <2>1. Len(lh) \in Nat
    BY Bounds
  <2> QED
    BY <2>1, <1>1 DEF DInv, Installing
<1>5. Indices'
  <2>1. \A q \in Proc : tail'[q] = 0
    BY <1>1, <1>2
  <2> QED
    BY <2>1, <1>1 DEF Indices, Once
<1>6. Buffers'
  BY <1>1, <1>2 DEF Buffers
<1>7. Unlogged'
  <2>1. Listed(lh') = {}
    BY <1>1 DEF Listed
  <2>2. \A b \in Block : Clean(b)'
    BY <1>1, <1>4 DEF Clean
  <2> QED
    BY <2>1, <2>2, <1>1 DEF Unlogged
<1>8. Copied' /\ Installing' /\ Booting'
  BY <1>3 DEF Copied, Installing, Booting, Idle
<1> QED
  BY <1>4, <1>5, <1>6, <1>7, <1>8 DEF DInv

\* recovery starts with an empty cache, from the header on the disk.
LEMMA ReadHeadDInv ==
  ASSUME IInv, DInv, NEW p \in Proc, ReadHead(p)
  PROVE  DInv'
<1>1. /\ UNCHANGED <<disk, dlog, dhead, cache, dirty, committing, buf, tail>>
      /\ pc[p] = "read_head" /\ lh' = dhead /\ pc'[p] = "install"
      /\ \A q \in Proc : q # p => pc'[q] = pc[q]
  BY DEF ReadHead, HeadOnDisk, dvars, IInv, TypeOK
<1>2. committing = FALSE
  BY <1>1 DEF IInv, Mode, InOp, Idle, TypeOK
<1>3. /\ \A q \in Proc : buf[q] = None
      /\ \A q \in Proc : q # p => tail[q] = 0 /\ pc[q] \in Idle \cup {"down"}
  BY <1>1, NothingLocked
<1>4. tail[p] = 0 /\ Len(dhead) \in Nat
  BY <1>1, Bounds DEF DInv, Indices, Committing
<1>5. Indices'
  <2>1. \A q \in Proc : tail'[q] = 0 /\ pc'[q] \notin {"done", "read_head"}
    BY <1>1, <1>3, <1>4 DEF Idle
  <2>2. Once(lh)' /\ Once(dhead)'
    BY <1>1 DEF DInv, Indices, Once
  <2> QED
    BY <2>1, <2>2, <1>1, <1>4 DEF Indices
<1>6. Buffers'
  BY <1>1, <1>3 DEF Buffers
<1>7. Unlogged' /\ Copied' /\ Booting'
  BY <1>1, <1>3 DEF Unlogged, Copied, Booting, Idle
<1>8. Installing'
  <2>1. \A b \in Block : Clean(b)'
    BY <1>1 DEF DInv, Booting, Clean
  <2>2. \A q \in Proc : pc'[q] = "install" => q = p
    BY <1>1, <1>3 DEF Idle
  <2> QED
    BY <2>1, <2>2, <1>1, <1>2, <1>4 DEF Installing
<1> QED
  BY <1>5, <1>6, <1>7, <1>8 DEF DInv

\* Reading a block into the cache, or recycling a buffer that is not pinned,
\* loses nothing.
LEMMA CacheDInv ==
  ASSUME IInv, DInv, NEW b \in Block, LoadBuf(b) \/ Evict(b)
  PROVE  DInv'
<1>1. /\ UNCHANGED <<disk, dlog, dhead, dirty, lh, committing, pc, tail, buf>>
      /\ ~Pinned(b) /\ cache'[b] \in {None, disk[b]}
      /\ \A a \in Block : a # b => cache'[a] = cache[a]
      /\ Locked(b) => cache'[b] # None
  BY LogAssumption DEF LoadBuf, Evict, dvars, IInv, TypeOK, Pinned
<1>2. \A p \in Proc : pc[p] = "read_head" => cache'[b] = None
  <2>1. ASSUME NEW p \in Proc, pc[p] = "read_head"
        PROVE  Recovering
    BY <2>1 DEF IInv, Mode, InOp, Idle, Recovering
  <2> QED
    BY <2>1 DEF LoadBuf, Evict, IInv, TypeOK
<1>3. \A a \in Block : /\ Pinned(a) => a # b /\ Pinned(a)'
                       /\ Clean(a) => Clean(a)'
                       /\ Locked(a)' = Locked(a)
  BY <1>1 DEF Pinned, Clean, Locked
<1>4. Clean(b)' /\ Len(lh) \in Nat /\ \A i \in 1..Len(lh) : lh[i] \in Block
  BY <1>1, Bounds DEF Clean
<1>5. Indices'
  BY <1>1 DEF DInv, Indices, Once
<1>6. Buffers'
  <2>1. \A p \in Proc : buf[p] = b => cache'[b] # None
    BY <1>1 DEF Locked
  <2>2. \A p \in Proc : buf[p] # None => buf[p] \in Block
    BY DEF IInv, TypeOK
  <2> QED
    BY <2>1, <2>2, <1>1 DEF DInv, Buffers
<1>7. Unlogged'
  <2>1. SUFFICES ASSUME \A p \in Proc : pc[p] \notin {"install", "read_head"}
                 PROVE  /\ dhead = <<>>
                        /\ \A a \in Block : IF a \in Listed(lh) THEN Pinned(a)'
                                            ELSE Locked(a)' \/ Clean(a)'
    BY <1>1 DEF Unlogged
  <2> QED
    BY <2>1, <1>3 DEF DInv, Unlogged
<1>8. Copied'
  <2>1. ASSUME NEW p \in Proc, pc[p] = "write_log", NEW i \in 1..tail[p]
        PROVE  dlog[i] = cache'[lh[i]]
    <3>1. i \in 1..Len(lh)
      BY <2>1, <1>4, Bounds DEF DInv, Indices, Committing
    <3>2. lh[i] \in Listed(lh) /\ lh[i] \in Block
      BY <3>1, Bounds DEF Listed
    <3>3. Pinned(lh[i])
      BY <3>2, <2>1, NoneInstalls DEF DInv, Unlogged
    <3>4. dlog[i] = cache[lh[i]]
      BY <2>1 DEF DInv, Copied
    <3> QED
      BY <3>2, <3>3, <3>4, <1>1, <1>3
  <2> QED
    BY <2>1, <1>1 DEF Copied
<1>9. Installing'
  <2>1. ASSUME NEW p \in Proc, pc[p] = "install"
        PROVE  /\ dhead = lh
               /\ \A i \in 1..tail[p] : disk[lh[i]] = dlog[i]
               /\ \A a \in Block : \/ Clean(a)'
                                   \/ committing /\ \E i \in 1..Len(lh) : i > tail[p] /\ lh[i] = a
               /\ committing => \A i \in 1..Len(lh) : i > tail[p] =>
                                  Pinned(lh[i])' /\ cache'[lh[i]] = dlog[i]
    <3>1. /\ dhead = lh
          /\ \A i \in 1..tail[p] : disk[lh[i]] = dlog[i]
          /\ \A a \in Block : Clean(a) \/ (committing /\ \E i \in 1..Len(lh) : i > tail[p] /\ lh[i] = a)
          /\ committing => \A i \in 1..Len(lh) : i > tail[p] => Pinned(lh[i]) /\ cache[lh[i]] = dlog[i]
      BY <2>1 DEF DInv, Installing
    <3>2. ASSUME committing, NEW i \in 1..Len(lh), i > tail[p]
          PROVE  Pinned(lh[i])' /\ cache'[lh[i]] = dlog[i]
      BY <3>1, <3>2, <1>1, <1>3, <1>4
    <3> QED
      BY <3>1, <3>2, <1>3
  <2>2. \A a : Pinned(a)' = (a \in dirty /\ cache'[a] # None)
    BY <1>1 DEF Pinned
  <2> QED
    BY <2>1, <2>2, <1>1 DEF Installing, Pinned
<1>10. Booting'
  BY <1>1, <1>2 DEF DInv, Booting
<1> QED
  BY <1>5, <1>6, <1>7, <1>8, <1>9, <1>10 DEF DInv

\* A crash keeps what the invariant says of the disk.
LEMMA CrashDInv ==
  ASSUME DInv, Crash
  PROVE  DInv'
<1>1. PICK p \in Proc : pc' = Boot(p)
  BY DEF Crash
<1>2. /\ UNCHANGED <<disk, dlog, dhead>> /\ lh' = <<>> /\ cache' = [b \in Block |-> None]
      /\ tail' = [q \in Proc |-> 0] /\ buf' = [q \in Proc |-> None]
  BY DEF Crash, dvars
<1>3. pc'[p] = "read_head" /\ \A q \in Proc : pc'[q] \in {"read_head", "down"}
  BY <1>1 DEF Boot
<1>4. Indices'
  BY <1>2, <1>3 DEF DInv, Indices, Once, Committing
<1>5. Buffers'
  BY <1>2 DEF Buffers
<1>6. Unlogged' /\ Copied' /\ Installing' /\ Booting'
  BY <1>2, <1>3 DEF Unlogged, Copied, Installing, Booting
<1> QED
  BY <1>4, <1>5, <1>6 DEF DInv

\* Every step keeps the invariant.
LEMMA NextDInv == IInv /\ DInv /\ [Next]_vars => DInv'
<1> SUFFICES ASSUME IInv, DInv, [Next]_vars PROVE DInv'
  OBVIOUS
<1>1. CASE \E p \in Proc : CallStep(p)
  BY <1>1, BeginOpDInv, ModifyBufDInv, LogWriteCheckDInv, LogWriteAppendDInv, EndOpDInv
     DEF CallStep
<1>2. CASE \E p \in Proc : CommitStep(p)
  BY <1>2, ReadHeadDInv, WriteLogDInv, WriteHeadDInv, InstallTransDInv, EraseLogDInv,
     EndCommitDInv DEF CommitStep
<1>3. CASE \E b \in Block : LoadBuf(b) \/ Evict(b)
  BY <1>3, CacheDInv
<1>4. CASE Crash
  BY <1>4, CrashDInv
<1>5. CASE UNCHANGED vars
  BY <1>5, QuietDInv DEF vars
<1> QED
  BY <1>1, <1>2, <1>3, <1>4, <1>5 DEF Next

-----------------------------------------------------------------------------
(* The refinement.                                                          *)

\* The durable disk, block by block.
Recovered ==
  /\ Durable = [b \in Block |-> Durable[b]]
  /\ \A i \in 1..Len(dhead) : Durable[dhead[i]] = dlog[i]
  /\ \A b \in Block : (\A i \in 1..Len(dhead) : dhead[i] # b) => Durable[b] = disk[b]

\* Durable, as the refinement maps it, says that.
LEMMA DurableFacts == IInv /\ DInv => Recovered
<1> SUFFICES ASSUME IInv, DInv PROVE Recovered
  OBVIOUS
<1> DEFINE I(b) == {i \in DOMAIN dhead : dhead[i] = b}
<1>1. DOMAIN dhead = 1..Len(dhead) /\ Len(dhead) \in Nat
      /\ \A i \in 1..Len(dhead) : dhead[i] \in Block
  BY Bounds
<1>2. /\ Durable = [b \in Block |-> Durable[b]]
      /\ \A b \in Block : Durable[b] = IF I(b) = {} THEN disk[b]
                                       ELSE dlog[CHOOSE i \in I(b) : \A j \in I(b) : j <= i]
  BY DEF Durable
<1>3. ASSUME NEW i \in 1..Len(dhead)
      PROVE  Durable[dhead[i]] = dlog[i]
  <2>1. I(dhead[i]) = {i}
    BY <1>1 DEF DInv, Indices, Once
  <2>2. (CHOOSE k \in I(dhead[i]) : \A j \in I(dhead[i]) : j <= k) = i
    <3>1. \A j \in {i} : j <= i
      OBVIOUS
    <3> HIDE DEF I
    <3> QED
      BY <2>1, <3>1
  <2>3. I(dhead[i]) # {} /\ dhead[i] \in Block
    BY <2>1, <1>1
  <2> HIDE DEF I
  <2> QED
    BY <1>2, <2>2, <2>3
<1>4. ASSUME NEW b \in Block, \A i \in 1..Len(dhead) : dhead[i] # b
      PROVE  Durable[b] = disk[b]
  <2>1. I(b) = {}
    BY <1>1, <1>4
  <2> HIDE DEF I
  <2> QED
    BY <1>2, <2>1
<1> QED
  BY <1>2, <1>3, <1>4 DEF Recovered

\* The same of the successor state.
LEMMA DurableFacts2 == IInv' /\ DInv' => Recovered'
BY DurableFacts, PTL

\* Without a header the disk is what a crash leaves.
LEMMA NothingLogged ==
  ASSUME IInv, DInv, dhead = <<>>
  PROVE  \A b \in Block : Durable[b] = disk[b]
<1>1. Len(dhead) = 0
  OBVIOUS
<1> QED
  BY <1>1, DurableFacts DEF Recovered

\* Once a process is past recovery, recovery is over.
LEMMA NotRecovering ==
  ASSUME IInv, NEW p \in Proc, pc[p] \notin {"down", "read_head", "install"}
  PROVE  Recovering = FALSE
BY DEF IInv, Mode, InOp, Idle, Recovering

\* The same of the successor state.
LEMMA NotRecovering2 ==
  ASSUME IInv', NEW p \in Proc, pc'[p] \notin {"down", "read_head", "install"}
  PROVE  Recovering' = FALSE
BY DEF IInv, Mode, InOp, Idle, Recovering

\* A step that writes nothing shows nothing.
LEMMA SameView ==
  ASSUME UNCHANGED <<disk, dlog, dhead, cache>>, Recovering' = Recovering
  PROVE  View' = View /\ Durable' = Durable
BY DEF View, Durable, Content

\* begin_op, the write of a buffer and end_op are steps of Transactions; log_write
\* is none.
LEMMA CallSteps ==
  ASSUME IInv, DInv, IInv', NEW p \in Proc, CallStep(p)
  PROVE  [Trans!ANext]_(Trans!avars)
<1>1. CASE BeginOp(p)
  <2>1. /\ UNCHANGED <<disk, dlog, dhead, cache>>
        /\ pc[p] \in {"out", "woken"} /\ pc'[p] \in {"op", "asleep"}
        /\ \A q \in Proc : q # p => pc'[q] = pc[q]
    BY <1>1 DEF BeginOp, dvars, IInv, TypeOK
  <2>2. View' = View /\ Durable' = Durable
    BY <2>1, NotRecovering, NotRecovering2, SameView
  <2>3. \/ Active' = Active
        \/ p \notin Active /\ Active' = Active \cup {p}
    BY <2>1 DEF Active, InOp
  <2> QED
    BY <2>2, <2>3 DEF Active, Trans!ANext, Trans!ABegin, Trans!avars
<1>2. CASE LogWriteCheck(p) \/ LogWriteAppend(p)
  <2>1. /\ UNCHANGED <<disk, dlog, dhead, cache>>
        /\ pc[p] \in InOp /\ pc'[p] \in InOp
        /\ \A q \in Proc : q # p => pc'[q] = pc[q]
    BY <1>2 DEF LogWriteCheck, LogWriteAppend, dvars, IInv, TypeOK, InOp
  <2>2. View' = View /\ Durable' = Durable
    BY <2>1, NotRecovering, NotRecovering2, SameView DEF InOp
  <2>3. Active' = Active
    BY <2>1 DEF Active
  <2> QED
    BY <2>2, <2>3 DEF Active, Trans!avars
<1>3. CASE EndOp(p)
  <2> DEFINE f == [pc EXCEPT ![p] = "out"]
  <2>1. /\ UNCHANGED <<disk, dlog, dhead, cache>> /\ pc[p] = "op"
        /\ f \in [Proc -> Points] /\ f[p] = "out" /\ \A q \in Proc : q # p => f[q] = pc[q]
    BY <1>3 DEF EndOp, dvars, IInv, TypeOK, Points
  <2>2. committing = FALSE
    BY <2>1 DEF IInv, TypeOK, Mode, InOp, Idle
  <2>3. \/ /\ pc'[p] \in {"write_log", "done"}
           /\ \A q \in Proc : q # p => pc'[q] = pc[q]
        \/ pc' = Wake(f)
    BY <1>3, <2>2 DEF EndOp, IInv, TypeOK
  <2>4. pc'[p] \in {"write_log", "done", "out", "woken", "asleep"}
        /\ \A q \in Proc : q # p => (pc'[q] \in InOp <=> pc[q] \in InOp)
    <3>1. CASE pc' = Wake(f)
      BY <3>1, <2>1, WakeFacts DEF Idle, InOp
    <3>2. CASE pc'[p] \in {"write_log", "done"} /\ \A q \in Proc : q # p => pc'[q] = pc[q]
      BY <3>2
    <3> QED
      BY <2>3, <3>1, <3>2
  <2>5. Active' = Active \ {p} /\ p \in Active
    BY <2>1, <2>4 DEF Active, InOp
  <2>6. View' = View /\ Durable' = Durable
    BY <2>1, <2>4, NotRecovering, NotRecovering2, SameView
  <2> QED
    BY <2>5, <2>6 DEF Active, Trans!ANext, Trans!AEnd
<1>4. ASSUME NEW b \in Block, NEW v \in Value, ModifyBuf(p, b, v)
      PROVE  [Trans!ANext]_(Trans!avars)
  <2>1. /\ UNCHANGED <<disk, dlog, dhead>> /\ pc[p] = "op"
        /\ pc'[p] = "modified" /\ \A q \in Proc : q # p => pc'[q] = pc[q]
        /\ cache'[b] = v /\ v # None /\ \A a \in Block : a # b => cache'[a] = cache[a]
    BY <1>4, LogAssumption DEF ModifyBuf, dvars, IInv, TypeOK
  <2>2. Active' = Active /\ p \in Active
    BY <2>1 DEF Active, InOp
  <2>3. Recovering = FALSE /\ Recovering' = FALSE
    BY <2>1, NotRecovering, NotRecovering2
  <2>4. Durable' = Durable
    BY <2>1 DEF Durable
  <2>5. View = [a \in Block |-> Content(a)] /\ View' = [a \in Block |-> Content(a)']
    BY <2>3 DEF View
  <2>6. Content(b)' = v /\ \A a \in Block : a # b => Content(a)' = Content(a)
    BY <2>1 DEF Content
  <2>7. View' = [View EXCEPT ![b] = v]
    BY <2>5, <2>6
  <2> QED
    BY <2>2, <2>4, <2>7 DEF Active, Trans!ANext, Trans!AWrite
<1> QED
  BY <1>1, <1>2, <1>3, <1>4 DEF CallStep


\* write_head is the commit: at that step, with nobody inside a call, what a crash
\* leaves becomes what the calls see.
LEMMA WriteHeadCommits ==
  ASSUME IInv, DInv, IInv', DInv', NEW p \in Proc, WriteHead(p)
  PROVE  Trans!ACommit
<1>1. /\ UNCHANGED <<disk, dlog, cache, lh>> /\ pc[p] = "write_log"
      /\ dhead' = lh /\ tail[p] = Len(lh) /\ pc'[p] = "install" /\ committing' = committing
      /\ \A q \in Proc : q # p => pc'[q] = pc[q]
  BY DEF WriteHead, LogWritten, IInv, TypeOK
<1>2. committing = TRUE
  BY <1>1, Alone DEF IInv, TypeOK
<1>3. Active = {} /\ Active' = {}
  BY <1>1, Alone DEF Active, InOp, Idle
<1>4. /\ View = [b \in Block |-> Content(b)] /\ View' = [b \in Block |-> Content(b)']
      /\ \A b \in Block : Content(b)' = Content(b)
  BY <1>1, <1>2 DEF View, Recovering, Content
<1>5. \A q \in Proc : pc[q] \notin {"install", "read_head"}
  BY <1>1, NoneInstalls
<1>6. ASSUME NEW b \in Block
      PROVE  Durable'[b] = Content(b)
  <2>0. DOMAIN lh = 1..Len(lh)
    BY Bounds
  <2>1. CASE b \in Listed(lh)
    <3>1. PICK i \in 1..Len(lh) : lh[i] = b
      BY <2>0, <2>1 DEF Listed
    <3>2. Durable'[lh[i]] = dlog[i]
      <4>1. \A j \in 1..Len(dhead') : Durable'[dhead'[j]] = dlog'[j]
        BY DurableFacts2 DEF Recovered
      <4> QED
        BY <4>1, <1>1
    <3>3. dlog[i] = cache[b]
      BY <3>1, <1>1 DEF DInv, Copied
    <3>4. cache[b] # None
      BY <2>1, <1>5 DEF DInv, Unlogged, Pinned
    <3> QED
      BY <3>1, <3>2, <3>3, <3>4 DEF Content
  <2>2. CASE b \notin Listed(lh)
    <3>1. \A i \in 1..Len(dhead') : dhead'[i] # b
      BY <2>0, <2>2, <1>1 DEF Listed
    <3>2. Durable'[b] = disk'[b]
      BY <3>1, DurableFacts2 DEF Recovered
    <3>3. Clean(b)
      BY <2>2, <1>1, <1>5, NothingLocked DEF DInv, Unlogged
    <3> QED
      BY <3>2, <3>3, <1>1 DEF Clean, Content
  <2> QED
    BY <2>1, <2>2
<1>7. Durable' = View
  <2>1. Durable' = [b \in Block |-> Durable'[b]]
    BY DurableFacts2 DEF Recovered
  <2> QED
    BY <2>1, <1>4, <1>6
<1>8. View' = View
  BY <1>4
<1> QED
  BY <1>3, <1>7, <1>8 DEF Trans!ACommit, Active

\* install_trans writes what a crash would restore anyway, and the buffer already
\* has it.
LEMMA InstallUnseen ==
  ASSUME IInv, DInv, IInv', DInv', NEW p \in Proc, InstallTrans(p)
  PROVE  View' = View /\ Durable' = Durable
<1>1. PICK n \in Nat : n = tail[p]
  BY Bounds
<1>2. PICK b \in Block : b = lh[n + 1] /\ n + 1 \in 1..Len(lh) /\ n + 1 \in 1..LOGSIZE
  <2>1. n < Len(lh)
    BY <1>1 DEF InstallTrans
  <2>2. n + 1 \in 1..Len(lh)
    BY <2>1, Bounds
  <2> QED
    BY <2>2, Bounds
<1>3. /\ UNCHANGED <<dlog, dhead, lh, committing, pc>> /\ pc[p] = "install"
      /\ \A a \in Block : a # b => disk'[a] = disk[a]
      /\ cache'[b] = dlog[n + 1] /\ \A a \in Block : a # b => cache'[a] = cache[a]
      /\ dlog[n + 1] # None
  BY <1>1, <1>2, LogAssumption DEF InstallTrans, IInv, TypeOK
<1>4. /\ dhead = lh
      /\ committing => cache[b] = dlog[n + 1]
  <2>1. committing => \A i \in 1..Len(lh) : i > tail[p] => cache[lh[i]] = dlog[i]
    BY <1>3 DEF DInv, Installing
  <2>2. dhead = lh
    BY <1>3 DEF DInv, Installing
  <2> QED
    BY <2>1, <2>2, <1>1, <1>2
<1>5. Durable' = Durable
  <2>1. ASSUME NEW a \in Block
        PROVE  Durable'[a] = Durable[a]
    <3>1. CASE \E i \in 1..Len(dhead) : dhead[i] = a
      BY <3>1, <1>3, DurableFacts, DurableFacts2 DEF Recovered
    <3>2. CASE \A i \in 1..Len(dhead) : dhead[i] # a
      <4>1. a # b
        BY <3>2, <1>2, <1>4
      <4> QED
        BY <3>2, <4>1, <1>3, DurableFacts, DurableFacts2 DEF Recovered
    <3> QED
      BY <3>1, <3>2
  <2>2. Durable = [a \in Block |-> Durable[a]] /\ Durable' = [a \in Block |-> Durable'[a]]
    BY DurableFacts, DurableFacts2 DEF Recovered
  <2> QED
    BY <2>1, <2>2
<1>6. Recovering' = Recovering
  BY <1>3 DEF Recovering
<1>7. committing => \A a \in Block : Content(a)' = Content(a)
  BY <1>3, <1>4 DEF Content
<1>8. ~committing => Recovering
  BY <1>3 DEF Recovering
<1> QED
  BY <1>5, <1>6, <1>7, <1>8 DEF View

\* Erasing the header takes nothing back: every listed block is at home.
LEMMA EraseUnseen ==
  ASSUME IInv, DInv, IInv', DInv', NEW p \in Proc, EraseLog(p)
  PROVE  View' = View /\ Durable' = Durable
<1>1. /\ UNCHANGED <<disk, dlog, cache, committing>> /\ pc[p] = "install"
      /\ tail[p] = Len(lh) /\ dhead' = <<>>
      /\ pc' = IF committing THEN [pc EXCEPT ![p] = "done"] ELSE [q \in Proc |-> "out"]
  BY DEF EraseLog, Installed, IInv, TypeOK
<1>2. pc'[p] \in {"done", "out"}
  BY <1>1 DEF IInv, TypeOK
<1>3. Recovering' = FALSE
  BY <1>2, NotRecovering2
<1>4. \A b \in Block : Clean(b)
  BY EraseLogDInv
<1>5. dhead = lh /\ \A i \in 1..Len(lh) : disk[lh[i]] = dlog[i]
  BY <1>1 DEF DInv, Installing
<1>6. ASSUME NEW b \in Block
      PROVE  Durable[b] = disk[b] /\ Durable'[b] = disk[b]
  <2>1. Durable[b] = disk[b]
    <3>1. CASE \E i \in 1..Len(dhead) : dhead[i] = b
      BY <3>1, <1>5, DurableFacts DEF Recovered
    <3>2. CASE \A i \in 1..Len(dhead) : dhead[i] # b
      BY <3>2, DurableFacts DEF Recovered
    <3> QED
      BY <3>1, <3>2
  <2>2. Len(dhead') = 0
    BY <1>1
  <2> QED
    BY <2>1, <2>2, <1>1, DurableFacts2 DEF Recovered
<1>7. /\ Durable = [b \in Block |-> disk[b]] /\ Durable' = [b \in Block |-> disk[b]]
  <2>1. Durable = [a \in Block |-> Durable[a]] /\ Durable' = [a \in Block |-> Durable'[a]]
    BY DurableFacts, DurableFacts2 DEF Recovered
  <2> QED
    BY <2>1, <1>6
<1>8. \A b \in Block : Content(b) = disk[b] /\ Content(b)' = disk[b]
  BY <1>1, <1>4 DEF Content, Clean
<1>9. View = [b \in Block |-> disk[b]] /\ View' = [b \in Block |-> disk[b]]
  BY <1>3, <1>7, <1>8 DEF View
<1> QED
  BY <1>7, <1>9

\* Of the steps of commit() and recovery only write_head shows.
LEMMA CommitSteps ==
  ASSUME IInv, DInv, IInv', DInv', NEW p \in Proc, CommitStep(p)
  PROVE  [Trans!ANext]_(Trans!avars)
<1>1. ASSUME pc[p] \in {"read_head", "write_log", "install", "done"},
             \A q \in Proc : pc'[q] \notin InOp
      PROVE  Active = {} /\ Active' = {}
  BY <1>1, Alone DEF Active, InOp, Idle
<1>2. CASE ReadHead(p)
  <2>1. /\ UNCHANGED <<disk, dlog, dhead, cache, committing>>
        /\ pc[p] = "read_head" /\ pc'[p] = "install"
        /\ \A q \in Proc : q # p => pc'[q] = pc[q]
    BY <1>2 DEF ReadHead, dvars, IInv, TypeOK
  <2>2. \A q \in Proc : pc'[q] \notin InOp
    BY <2>1, Alone DEF InOp, Idle
  <2>3. Recovering' = Recovering
    BY <2>1 DEF Recovering
  <2> QED
    BY <1>1, <2>1, <2>2, <2>3, SameView DEF Active, Trans!avars
<1>3. CASE WriteLog(p)
  <2>1. UNCHANGED <<disk, dhead, pc, committing>> /\ pc[p] = "write_log"
    BY <1>3 DEF WriteLog
  <2>2. cache' = cache
    BY <1>3, WriteLogDInv
  <2>3. \A q \in Proc : pc'[q] \notin InOp
    BY <2>1, Alone DEF InOp, Idle
  <2>4. dhead = <<>> /\ Len(dhead) = 0
    BY <2>1, NoneInstalls DEF DInv, Unlogged
  <2>5. Durable' = Durable
    <3>1. \A b \in Block : Durable[b] = disk[b] /\ Durable'[b] = disk[b]
      BY <2>1, <2>4, DurableFacts, DurableFacts2 DEF Recovered
    <3>2. Durable = [a \in Block |-> Durable[a]] /\ Durable' = [a \in Block |-> Durable'[a]]
      BY DurableFacts, DurableFacts2 DEF Recovered
    <3> QED
      BY <3>1, <3>2
  <2>6. View' = View
    BY <2>1, <2>2, <2>5 DEF View, Recovering, Content
  <2> QED
    BY <1>1, <2>1, <2>3, <2>5, <2>6 DEF Active, Trans!avars
<1>4. CASE WriteHead(p)
  BY <1>4, WriteHeadCommits DEF Trans!ANext
<1>5. CASE InstallTrans(p)
  <2>1. pc' = pc /\ pc[p] = "install"
    BY <1>5 DEF InstallTrans
  <2> QED
    BY <1>5, <2>1, InstallUnseen DEF Trans!avars
<1>6. CASE EraseLog(p)
  <2>1. \A q \in Proc : pc'[q] \notin InOp
    BY <1>6, Alone DEF EraseLog, IInv, TypeOK, InOp, Idle
  <2>2. pc[p] = "install"
    BY <1>6 DEF EraseLog
  <2> QED
    BY <1>1, <1>6, <2>1, <2>2, EraseUnseen DEF Active, Trans!avars
<1>7. CASE EndCommit(p)
  <2> DEFINE f == [pc EXCEPT ![p] = "out"]
  <2>1. /\ UNCHANGED <<disk, dlog, dhead, cache>> /\ pc[p] = "done"
        /\ f \in [Proc -> Points] /\ f[p] = "out" /\ \A q \in Proc : q # p => f[q] = pc[q]
        /\ pc' = Wake(f)
    BY <1>7 DEF EndCommit, WakeAtEnd, dvars, IInv, TypeOK, Points
  <2>2. pc'[p] \in Idle /\ \A q \in Proc : pc'[q] \notin InOp
    BY <2>1, Alone, WakeFacts, ZenonT(30) DEF InOp, Idle
  <2>3. View' = View /\ Durable' = Durable
    BY <2>1, <2>2, NotRecovering, NotRecovering2, SameView DEF Idle
  <2> QED
    BY <1>1, <2>1, <2>2, <2>3 DEF Active, Trans!avars
<1> QED
  BY <1>2, <1>3, <1>4, <1>5, <1>6, <1>7 DEF CommitStep

\* Reading and recycling buffers shows nothing: a buffer that can be recycled is
\* as the disk.
LEMMA CacheUnseen ==
  ASSUME IInv, DInv, NEW b \in Block, LoadBuf(b) \/ Evict(b)
  PROVE  View' = View /\ Durable' = Durable
<1>1. /\ UNCHANGED <<disk, dlog, dhead, committing, pc>>
      /\ \A a \in Block : a # b => cache'[a] = cache[a]
      /\ cache'[b] \in {None, disk[b]}
  BY DEF LoadBuf, Evict, dvars, IInv, TypeOK
<1>2. Recovering' = Recovering /\ Durable' = Durable
  BY <1>1 DEF Recovering, Durable
<1>3. Recovering \/ Clean(b)
  <2>1. CASE LoadBuf(b)
    BY <2>1 DEF LoadBuf, Clean
  <2>2. CASE Evict(b)
    <3>1. ~Pinned(b) /\ ~Locked(b)
      BY <2>2 DEF Evict, Pinned
    <3>2. CASE \A p \in Proc : pc[p] \notin {"install", "read_head"}
      BY <3>1, <3>2 DEF DInv, Unlogged
    <3>3. ASSUME NEW p \in Proc, pc[p] = "install"
          PROVE  Recovering \/ Clean(b)
      BY <3>1, <3>3 DEF DInv, Installing, Recovering
    <3>4. ASSUME NEW p \in Proc, pc[p] = "read_head"
          PROVE  Recovering
      BY <3>4 DEF IInv, Mode, InOp, Idle, Recovering
    <3> QED
      BY <3>2, <3>3, <3>4
  <2> QED
    BY <2>1, <2>2
<1>4. Clean(b) => Content(b)' = Content(b)
  BY <1>1 DEF Clean, Content
<1>5. \A a \in Block : a # b => Content(a)' = Content(a)
  BY <1>1 DEF Content
<1> QED
  BY <1>2, <1>3, <1>4, <1>5 DEF View

\* A crash, at any point, falls back to what was durable.
LEMMA CrashFallsBack ==
  ASSUME Crash
  PROVE  Trans!ACrash
<1>1. PICK p \in Proc : pc' = Boot(p)
  BY DEF Crash
<1>2. UNCHANGED <<disk, dlog, dhead>> /\ committing' = FALSE
  BY DEF Crash, dvars
<1>3. Durable' = Durable
  BY <1>2 DEF Durable
<1>4. pc'[p] = "read_head" /\ \A q \in Proc : pc'[q] \notin InOp
  BY <1>1 DEF Boot, InOp
<1>5. View' = Durable'
  BY <1>2, <1>4 DEF View, Recovering
<1> QED
  BY <1>3, <1>4, <1>5 DEF Trans!ACrash

\* log.c implements Transactions: however calls interleave and wherever crashes
\* fall, in commit and in recovery too, the file system finds exactly the groups
\* of calls that were committed.
THEOREM LogIsCrashAtomic == Spec => CrashAtomic
<1>1. Init => Trans!AInit
  <2> SUFFICES ASSUME Init PROVE Trans!AInit
    OBVIOUS
  <2>1. PICK p \in Proc : pc = Boot(p)
    BY DEF Init
  <2>2. {q \in Proc : pc[q] \in InOp} = {}
    BY <2>1 DEF Boot, InOp
  <2>3. dhead = <<>> /\ committing = FALSE /\ disk = [b \in Block |-> InitValue]
    BY DEF Init
  <2>4. Durable = [b \in Block |-> InitValue]
    BY <2>3, InitIInv, InitDInv, NothingLogged, DurableFacts DEF Recovered
  <2>5. View = Durable
    BY <2>1, <2>3 DEF View, Recovering, Boot
  <2> QED
    BY <2>2, <2>4, <2>5 DEF Trans!AInit
<1>2. IInv /\ DInv /\ IInv' /\ DInv' /\ [Next]_vars => [Trans!ANext]_(Trans!avars)
  <2> SUFFICES ASSUME IInv, DInv, IInv', DInv', [Next]_vars
               PROVE  [Trans!ANext]_(Trans!avars)
    OBVIOUS
  <2>1. CASE \E p \in Proc : CallStep(p)
    BY <2>1, CallSteps
  <2>2. CASE \E p \in Proc : CommitStep(p)
    BY <2>2, CommitSteps
  <2>3. CASE \E b \in Block : LoadBuf(b) \/ Evict(b)
    <3>1. pc' = pc
      BY <2>3 DEF LoadBuf, Evict
    <3> QED
      BY <2>3, <3>1, CacheUnseen DEF Trans!avars
  <2>4. CASE Crash
    BY <2>4, CrashFallsBack DEF Trans!ANext
  <2>5. CASE UNCHANGED vars
    BY <2>5 DEF vars, Trans!avars, View, Durable, Recovering, Content
  <2> QED
    BY <2>1, <2>2, <2>3, <2>4, <2>5 DEF Next
<1>3. Spec => [](IInv /\ DInv)
  BY InitIInv, InitDInv, NextIInv, NextDInv, PTL DEF Spec
<1> QED
  BY <1>1, <1>2, <1>3, PTL DEF Spec, CrashAtomic, Trans!ASpec
=============================================================================
