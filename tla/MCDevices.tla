----------------------------- MODULE MCDevices -----------------------------
(***************************************************************************)
(* The interrupt-driven devices together.  The disk and the console share  *)
(* no state and no lock, so a behaviour exercises one of them: part says   *)
(* which, and whether the disk is the IDE disk or the one in memory.       *)
(***************************************************************************)
EXTENDS Disk, Console

VARIABLE part

vars == <<dvars, cvars, part>>

Init == part \in {"ide", "mem", "console"} /\ DiskInit /\ ConsoleInit

Next ==
    /\ UNCHANGED part
    /\ \/ part = "ide" /\ DiskNext /\ UNCHANGED cvars
       \/ part = "mem" /\ MemDiskNext /\ UNCHANGED cvars
       \/ part = "console" /\ ConsoleNext /\ UNCHANGED dvars

\* The disk answers, interrupts are taken, and a thread inside iderw that
\* can go on does; it need not ask for more.
Ide == part = "ide" /\ ~panicked
Mem == part = "mem" /\ ~panicked

Fair ==
    /\ WF_vars(Ide /\ Device /\ UNCHANGED <<cvars, part>>)
    /\ WF_vars(Ide /\ Ideintr /\ UNCHANGED <<cvars, part>>)
    /\ \A t \in Threads :
        /\ WF_vars(Ide /\ (Iderw(t) \/ Woken(t)) /\ UNCHANGED <<cvars, part>>)
        /\ WF_vars(Mem /\ IderwMem(t) /\ UNCHANGED <<cvars, part>>)

Spec == Init /\ [][Next]_vars /\ Fair
=============================================================================
