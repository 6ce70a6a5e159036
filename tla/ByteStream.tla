----------------------------- MODULE ByteStream -----------------------------
(***************************************************************************)
(* What a pipe promises: a bounded queue of bytes between its writers and   *)
(* its readers.  Bytes leave in the order in which they came, each once; a  *)
(* read returns what there is, and reports the end of the stream only when  *)
(* the queue is empty and no writer is left.                                *)
(***************************************************************************)
EXTENDS Integers, Sequences

CONSTANTS Byte, Capacity

VARIABLES
  queue,    \* the bytes on their way
  got,      \* what the last read returned
  ended     \* no writer is left

bvars == <<queue, got, ended>>

BInit ==
  /\ queue = <<>>
  /\ got = <<>>
  /\ ended = FALSE

Put ==
  /\ ~ended
  /\ \E k \in 1..(Capacity - Len(queue)) :
       \E s \in [1..k -> Byte] : queue' = queue \o s
  /\ UNCHANGED <<got, ended>>

Get ==
  /\ \E k \in 1..Len(queue) :
       /\ got' = SubSeq(queue, 1, k)
       /\ queue' = SubSeq(queue, k + 1, Len(queue))
  /\ UNCHANGED ended

GetEnd ==
  /\ queue = <<>> /\ ended
  /\ got' = <<>>
  /\ UNCHANGED <<queue, ended>>

End ==
  /\ ended' = TRUE
  /\ UNCHANGED <<queue, got>>

BNext == Put \/ End \/ Get \/ GetEnd

BSpec == BInit /\ [][BNext]_bvars
=============================================================================
