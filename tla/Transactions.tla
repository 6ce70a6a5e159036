--------------------------- MODULE Transactions ----------------------------
(***************************************************************************)
(* What log.c promises to the file system: a disk of blocks on which        *)
(* groups of system calls take effect atomically with respect to crashes.   *)
(*                                                                         *)
(* "view" is what the running kernel reads, "durable" what it would find    *)
(* after a crash, "active" the system calls between begin_op and end_op.    *)
(* A commit makes everything written so far durable, and happens only when  *)
(* no system call is half way through; a crash falls back to the last       *)
(* commit.                                                                 *)
(***************************************************************************)

CONSTANTS Proc, Block, Value, InitValue

VARIABLES view, durable, active

avars == <<view, durable, active>>

AInit ==
  /\ view = [b \in Block |-> InitValue]
  /\ durable = view
  /\ active = {}

ABegin(p) ==
  /\ p \notin active
  /\ active' = active \cup {p}
  /\ UNCHANGED <<view, durable>>

AWrite(p, b, v) ==
  /\ p \in active
  /\ view' = [view EXCEPT ![b] = v]
  /\ UNCHANGED <<durable, active>>

AEnd(p) ==
  /\ p \in active
  /\ active' = active \ {p}
  /\ UNCHANGED <<view, durable>>

ACommit ==
  /\ active = {}
  /\ durable' = view
  /\ UNCHANGED <<view, active>>

ACrash ==
  /\ view' = durable
  /\ active' = {}
  /\ UNCHANGED durable

ANext ==
  \/ \E p \in Proc : ABegin(p) \/ AEnd(p) \/ \E b \in Block, v \in Value : AWrite(p, b, v)
  \/ ACommit
  \/ ACrash

ASpec == AInit /\ [][ANext]_avars
=============================================================================
