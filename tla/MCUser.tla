------------------------------- MODULE MCUser -------------------------------
(***************************************************************************)
(* User programs: the shell of the kernel, the allocator of its programs   *)
(* and the shell of lab 6.  They share nothing, so a behaviour exercises   *)
(* one of them: program says which.                                        *)
(***************************************************************************)
EXTENDS Shell, Malloc, LabShell

VARIABLE program

userVars == <<vars, mallocVars, labVars, program>>

UserInit == program \in {"sh", "malloc", "lab"} /\ Init /\ MallocInit /\ LabInit

UserNext ==
    /\ UNCHANGED program
    /\ \/ program = "sh" /\ Next /\ UNCHANGED <<mallocVars, labVars>>
       \/ program = "malloc" /\ MallocNext /\ UNCHANGED <<vars, labVars>>
       \/ program = "lab" /\ LabNext /\ UNCHANGED <<vars, mallocVars>>

\* The kernel schedules every process of the shell.
UserSpec == UserInit /\ [][UserNext]_userVars /\ Fairness

-----------------------------------------------------------------------------
\* All lines of up to three tokens, and some longer ones.
MCTokens == {"echo", "cat", "|", ";", "&", "<", "(", ")"}
MCLong == { <<"echo", "f", "f", "|", "cat", "|", "wc">>,
            <<"(", "echo", "f", "|", "cat", ";", "wc", ")", "|", "cat", ">", "f">>,
            <<"cat", "|", "echo", "&", ";", "wc">>,
            <<"echo", ">>", "f", "f", "<", "g", "|", "cat", "f">>,
            <<"echo", "f", "f", "f", "f">>,
            <<"cd", "f">> }
MCBusy == { <<"echo", "f", "|", "cat">> }
MCLines == UNION {[1 .. n -> MCTokens] : n \in 1 .. 3} \cup MCLong

\* Programs in the foreground, in the background and in a pipeline, every
\* command of the shell, and the lines that end it.
MCLabLines == { <<"prog">>, <<"prog", "$x", "<", "f", ">", "g", "&">>, <<"prog", "|", "prog">>,
                <<"procs">>, <<"suspend", "1">>, <<"kill", "1">>, <<"wake", "1">>,
                <<"set", "x", "a">>, <<"set", "x", "~">>, <<"delete", "x">>,
                <<"quit">>, <<"cd", "d">>, <<"|", "prog">>, <<"kill">>, <<"delete">>, <<"set", "x">> }
MCVarNames == "$x" :> "x"
MCPidOf == "1" :> 1
=============================================================================
