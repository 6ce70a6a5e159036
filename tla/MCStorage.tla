----------------------------- MODULE MCStorage -----------------------------
(***************************************************************************)
(* File contents, and pages in a swap file.  Files writes blocks and       *)
(* Paging takes a file as a sequence of slots; a behaviour exercises one   *)
(* of them, and level says which.                                          *)
(*                                                                         *)
(* Files: two processes on a disk of nine data blocks, of which the root   *)
(* takes two, the file of mkfs two, and a full file needs five.            *)
(*                                                                         *)
(* Paging: all four builds, with half of the pages in memory as in         *)
(* param.h.  AQ gets four pages and a fifth that has no record; the builds *)
(* that look at accesses or ages get three, one of them swapped out.       *)
(***************************************************************************)
EXTENDS Files, Paging

VARIABLE level

vars == <<filesVars, pagingVars, level>>

Init ==
    /\ level \in {"files", "paging"}
    /\ FilesInit
    /\ PagingInit /\ (level = "files" => policy = "AQ")

Next ==
    /\ UNCHANGED level
    /\ \/ level = "files" /\ FilesNext /\ UNCHANGED pagingVars
       \/ level = "paging" /\ PagingNext /\ UNCHANGED filesVars

Spec == Init /\ [][Next]_vars

MCPolicies == {"SCFIFO", "NFUA", "LAPA", "AQ"}
MCMaxSize == [p \in MCPolicies |-> IF p = "AQ" THEN 5 ELSE 3]
MCMaxLeak == [p \in MCPolicies |-> IF p \in {"NFUA", "LAPA"} THEN 0 ELSE 1]
=============================================================================
