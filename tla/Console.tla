------------------------------ MODULE Console ------------------------------
(***************************************************************************)
(* Console input (os-master/console.c, kbd.c, uart.c): scan codes become   *)
(* characters, consoleintr edits a line in a ring buffer and commits it,   *)
(* and readers sleep until something is committed.                         *)
(*                                                                         *)
(* A character is "nl" (\n, and \r which becomes it), "^D", "^U", "^H" or  *)
(* a letter.  The indices r, w, e count for ever in the code; here all     *)
(* three move back by INPUT_BUF once r has gone round.                     *)
(***************************************************************************)
EXTENDS Integers, Sequences, FiniteSets

CONSTANTS
    Readers,        \* processes that read the console
    INPUT_BUF,      \* size of the ring
    MaxRead         \* the largest n of a read

CtlKeys == {"lctl", "rctl"}     \* rctl is sent with an E0 prefix
LetterKeys == {"d", "enter"}
UartChars == {"^U", "^H"}

VARIABLES
    down,           \* the control keys held down
    codes,          \* bytes the keyboard holds: a sequence of [e0] or [key, up]
    shift,          \* kbdgetc's shift: a subset of {"CTL", "E0ESC"}
    ring, r, w, e,  \* input.buf and its indices
    lock,           \* holder of cons.lock across the steps of a read
    rpc,            \* where reader p is
    want, target,   \* n and target of consoleread
    owed            \* history: characters committed and not yet read

ASSUME ConsoleAssumption == INPUT_BUF \in Nat \ {0}

cvars == <<down, codes, shift, ring, r, w, e, lock, rpc, want, target, owed>>

Free == "free"

ConsoleInit ==
    /\ down = {} /\ codes = << >> /\ shift = {}
    /\ ring = [i \in 0 .. INPUT_BUF - 1 |-> "nl"] /\ r = 0 /\ w = 0 /\ e = 0
    /\ lock = Free /\ rpc = [p \in Readers |-> "idle"]
    /\ want = [p \in Readers |-> 0] /\ target = [p \in Readers |-> 0]
    /\ owed = << >>

-----------------------------------------------------------------------------
(* The keyboard (external) and kbd.c.                                      *)

E0 == [key |-> "e0", up |-> FALSE]
Scan(key, up) == IF key = "rctl" THEN <<E0, [key |-> key, up |-> up]>>
                 ELSE <<[key |-> key, up |-> up]>>

\* Somebody presses or releases a key.
Key(key, up) ==
    /\ codes = << >>
    /\ key \in CtlKeys => (up <=> key \in down)
    /\ down' = IF up THEN down \ {key} ELSE IF key \in CtlKeys THEN down \cup {key} ELSE down
    /\ codes' = Scan(key, up)
    /\ UNCHANGED <<shift, ring, r, w, e, lock, rpc, want, target, owed>>

\* shiftcode: with E0ESC the code of the right control key is looked up,
\* without it the left one's.
ShiftCode(key) == IF key \in CtlKeys THEN {"CTL"} ELSE {}

\* shift &= ~(shiftcode[data] | E0ESC)
Released(key, s) == s \ (ShiftCode(key) \cup {"E0ESC"})

Pressed(key, s) == (s \ {"E0ESC"}) \cup ShiftCode(key)

\* charcode[shift & (CTL | SHIFT)][data]; 0 for a key without a character.
CharCode(key, s) ==
    CASE key = "d" -> IF "CTL" \in s THEN "^D" ELSE "d"
      [] key = "enter" -> "nl"
      [] OTHER -> "0"

\* What kbdgetc does with one byte: the new shift and the character.
Kbdgetc(c) ==
    IF c.key = "e0" THEN [shift |-> shift \cup {"E0ESC"}, c |-> "0"]
    ELSE IF c.up THEN [shift |-> Released(c.key, shift), c |-> "0"]
    ELSE [shift |-> Pressed(c.key, shift), c |-> CharCode(c.key, Pressed(c.key, shift))]

-----------------------------------------------------------------------------
(* console.c                                                               *)

At(i) == ring[i % INPUT_BUF]

\* ^U takes back the part of the line after the last newline, from i on.
KillTo(i) == /\ i = w \/ At(i - 1) = "nl"
             /\ \A j \in i + 1 .. e : At(j - 1) # "nl"

\* Mutant: room is measured from the line being typed, not from the reader.
RoomLine == e - w < INPUT_BUF

\* There is room in the ring.
Room == e - r < INPUT_BUF

\* Backspace has something to take back.
Erasable == e # w

Committed == [n \in 1 .. w - r |-> At(r + n - 1)]

\* Everybody who sleeps on &input.r is woken.
Wakeup == rpc' = [p \in Readers |-> IF rpc[p] = "asleep" THEN "loop" ELSE rpc[p]]

\* One turn of consoleintr's loop with character c, cons.lock held.
Consoleintr(c) ==
    /\ lock = Free
    /\ UNCHANGED <<r, lock, want, target>>
    /\ \/ /\ c = "^U" /\ \E i \in w .. e : KillTo(i) /\ e' = i
          /\ UNCHANGED <<ring, w, rpc, owed>>
       \/ /\ c = "^H" /\ e' = (IF Erasable THEN e - 1 ELSE e)
          /\ UNCHANGED <<ring, w, rpc, owed>>
       \/ /\ c \notin {"^U", "^H"}
          /\ IF c = "0" \/ ~Room
             THEN UNCHANGED <<ring, w, e, rpc, owed>>
             ELSE /\ ring' = [ring EXCEPT ![e % INPUT_BUF] = c]
                  /\ e' = e + 1
                  /\ IF c \in {"nl", "^D"} \/ e + 1 = r + INPUT_BUF
                     THEN /\ w' = e + 1
                          /\ owed' = owed \o [n \in 1 .. e + 1 - w |->
                                                IF w + n - 1 = e THEN c ELSE At(w + n - 1)]
                          /\ Wakeup
                     ELSE UNCHANGED <<w, rpc, owed>>

Kbdintr ==
    /\ codes # << >>
    /\ codes' = Tail(codes)
    /\ shift' = Kbdgetc(Head(codes)).shift
    /\ Consoleintr(Kbdgetc(Head(codes)).c)
    /\ UNCHANGED down

Uartintr(c) ==
    /\ Consoleintr(c)
    /\ UNCHANGED <<down, codes, shift>>

-----------------------------------------------------------------------------
(* consoleread                                                             *)

keyVars == <<down, codes, shift>>

Read(p, n) ==
    /\ rpc[p] = "idle"
    /\ rpc' = [rpc EXCEPT ![p] = "loop"]
    /\ want' = [want EXCEPT ![p] = n] /\ target' = [target EXCEPT ![p] = n]
    /\ UNCHANGED <<ring, r, w, e, lock, owed>> /\ UNCHANGED keyVars

Return(p) ==
    /\ rpc' = [rpc EXCEPT ![p] = "idle"] /\ lock' = Free
    /\ want' = [want EXCEPT ![p] = 0] /\ target' = [target EXCEPT ![p] = 0]

\* Nothing committed: sleep, which releases the lock, or give up if killed.
ReadSleep(p) ==
    /\ rpc[p] = "loop" /\ lock \in {Free, p} /\ want[p] > 0 /\ r = w
    /\ \/ /\ rpc' = [rpc EXCEPT ![p] = "asleep"] /\ lock' = Free
          /\ UNCHANGED <<want, target>>
       \/ Return(p)
    /\ UNCHANGED <<ring, r, w, e, owed>> /\ UNCHANGED keyVars

\* r went round: r, w and e go back by INPUT_BUF.
Advance1 == IF r + 1 = INPUT_BUF
            THEN r' = 0 /\ w' = w - INPUT_BUF /\ e' = e - INPUT_BUF
            ELSE r' = r + 1 /\ UNCHANGED <<w, e>>

\* One character; a newline ends the read.
ReadChar(p) ==
    /\ rpc[p] = "loop" /\ lock \in {Free, p} /\ want[p] > 0 /\ r # w
    /\ At(r) # "^D"
    /\ owed' = Tail(owed) /\ Advance1
    /\ IF At(r) = "nl" \/ want[p] = 1
       THEN Return(p)
       ELSE /\ want' = [want EXCEPT ![p] = @ - 1] /\ lock' = p
            /\ UNCHANGED <<rpc, target>>
    /\ UNCHANGED ring /\ UNCHANGED keyVars

\* ^D ends the read; if something was read it is left for the next one.
ReadEof(p) ==
    /\ rpc[p] = "loop" /\ lock \in {Free, p} /\ want[p] > 0 /\ r # w
    /\ At(r) = "^D"
    /\ Return(p)
    /\ IF want[p] < target[p]
       THEN UNCHANGED <<r, w, e, owed>>
       ELSE owed' = Tail(owed) /\ Advance1
    /\ UNCHANGED ring /\ UNCHANGED keyVars

-----------------------------------------------------------------------------
ConsoleNext ==
    \/ \E key \in CtlKeys \cup LetterKeys, up \in BOOLEAN : Key(key, up)
    \/ Kbdintr
    \/ \E c \in UartChars : Uartintr(c)
    \/ \E p \in Readers : \/ \E n \in 1 .. MaxRead : Read(p, n)
                          \/ ReadSleep(p) \/ ReadChar(p) \/ ReadEof(p)

ConsoleSpec == ConsoleInit /\ [][ConsoleNext]_cvars

-----------------------------------------------------------------------------
\* What was committed is read once, in order and unchanged: line editing
\* never reaches behind input.w, a full ring drops new characters and not old
\* ones, and a saved ^D comes back (consoleintr, consoleread).  And no reader
\* sleeps while there is something to read.
InputKept ==
    /\ Committed = owed
    /\ \A p \in Readers : rpc[p] = "asleep" => r = w
=============================================================================
