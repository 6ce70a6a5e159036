------------------------------ MODULE LabShell ------------------------------
(***************************************************************************)
(* The shell of lab 6 (lab6/task4: myshell.c with LineParser.c): lines are *)
(* parsed into a pipeline, the first word selects a command of the shell   *)
(* or a program to run, programs are kept on a list of jobs and variables  *)
(* on another.  The user may type while background jobs run, stop or end.  *)
(*                                                                         *)
(* A line is a sequence of tokens.  The numbers typed after suspend, kill  *)
(* and wake are pids; pids are not used twice.  What the processes of a    *)
(* pipeline send each other is left out.  The model stops when the shell   *)
(* ends, and when a program of a pipeline cannot be executed: its process  *)
(* then goes on as a second shell on the same input.                       *)
(***************************************************************************)
EXTENDS Integers, Sequences, FiniteSets, SequencesExt

CONSTANTS
    LabLines,       \* the lines the user may type
    MaxPid,         \* bound: processes started
    MAX_ARGUMENTS,
    HOME,           \* getenv("HOME")
    VarNames,       \* [token of a reference "$x" -> the name x]
    PidOf           \* [token -> the number atoi makes of it]

ASSUME LabAssumption == MaxPid \in Nat /\ PidOf \in [DOMAIN PidOf -> 1 .. MaxPid]

RUNNING == 1
SUSPENDED == 0
TERMINATED == -1
NULL == "NULL"
SIGINT == 2
Pids == 1 .. MaxPid

VARIABLES
    gone,           \* the shell has ended, or there are two
    waiting,        \* what the shell still has to waitpid() for; << >> at the prompt
    process_list,   \* mylist: [pid, status], the newest first
    varlist,        \* [name, value]
    kids,           \* the children, as the kernel has them
    code,           \* what waitpid() will say of a zombie
    condemned,      \* history: pids given to the command kill
    collected,      \* history: pids collected before the last listing
    env             \* history: [name -> the value last set, or NULL]

labVars == <<gone, waiting, process_list, varlist, kids, code, condemned, collected, env>>

Names == {VarNames[t] : t \in DOMAIN VarNames}

LabInit ==
    /\ gone = FALSE /\ waiting = << >>
    /\ process_list = << >> /\ varlist = << >>
    /\ kids = [p \in Pids |-> "none"] /\ code = [p \in Pids |-> 0]
    /\ condemned = {} /\ collected = {} /\ env = [n \in Names |-> NULL]

\* What is at the places S of s, in its order.
Only(s, S) ==
    [k \in 1 .. Cardinality(S) |->
        s[CHOOSE i \in S : Cardinality({j \in S : j <= i}) = k]]

-----------------------------------------------------------------------------
(* LineParser.c                                                            *)

\* The tokens before the first of S.
Cut(l, S) ==
    LET stops == {i \in DOMAIN l : l[i] \in S}
    IN  IF stops = {} THEN l
        ELSE SubSeq(l, 1, (CHOOSE i \in stops : \A j \in stops : i <= j) - 1)

\* The word after place i, if there is one before the next redirection.
cloneFirstWord(l, i) ==
    IF i < Len(l) /\ l[i + 1] \notin {"<", ">"} THEN l[i + 1] ELSE NULL

\* The last redirection of a kind counts.
extractRedirections(l, sym) ==
    LET there == {i \in DOMAIN l : l[i] = sym}
    IN  IF there = {} THEN NULL
        ELSE cloneFirstWord(l, CHOOSE i \in there : \A j \in there : j <= i)

\* The words up to the first redirection: what follows its file is lost.
parseSingleCmdLine(l) ==
    LET words == Cut(l, {"<", ">"})
    IN  [arguments |-> SubSeq(words, 1, IF Len(words) < MAX_ARGUMENTS - 1 THEN Len(words)
                                        ELSE MAX_ARGUMENTS - 1),
         inputRedirect |-> extractRedirections(l, "<"),
         outputRedirect |-> extractRedirections(l, ">")]

\* The commands between the bars, up to the first empty one.
ParsePipeline(l) ==
    LET bars == SetToSortSeq({0, Len(l) + 1} \cup {i \in DOMAIN l : l[i] = "|"}, <)
        part == [k \in 1 .. Len(bars) - 1 |-> SubSeq(l, bars[k] + 1, bars[k + 1] - 1)]
        full == {n \in 0 .. Len(part) : \A k \in 1 .. n : part[k] # << >>}
    IN  [k \in 1 .. (CHOOSE n \in full : \A j \in full : j <= n) |-> parseSingleCmdLine(part[k])]

\* The line ends at the first &.  Only the last command may block.
parseCmdLines(l) ==
    LET cmds == ParsePipeline(Cut(l, {"&"}))
    IN  [cmds |-> cmds, blocking |-> Len(cmds) = 1 /\ "&" \notin Range(l)]

CmdLines == {parseCmdLines(l) : l \in LabLines}

-----------------------------------------------------------------------------
(* The variables.                                                          *)

Places(name) == {i \in DOMAIN varlist : varlist[i].name = name}

getvalue(name) ==
    IF Places(name) = {} THEN NULL
    ELSE varlist[CHOOSE i \in Places(name) : \A j \in Places(name) : i <= j].value

addVar(name, value) ==
    varlist' = IF Places(name) = {} THEN Append(varlist, [name |-> name, value |-> value])
               ELSE [varlist EXCEPT ![CHOOSE i \in Places(name) :
                                        \A j \in Places(name) : i <= j].value = value]

delete(name) == varlist' = Only(varlist, DOMAIN varlist \ Places(name))

\* ~ and $x after the first word; a variable that is not set stays as it is.
Replaced(arg) ==
    IF arg = "~" THEN HOME
    ELSE IF arg \in DOMAIN VarNames /\ getvalue(VarNames[arg]) # NULL
         THEN getvalue(VarNames[arg]) ELSE arg

\* The words of the first command of line c.
Arguments(c) ==
    LET args == IF c.cmds = << >> THEN << >> ELSE c.cmds[1].arguments
    IN  [i \in DOMAIN args |-> IF i = 1 THEN args[i] ELSE Replaced(args[i])]

-----------------------------------------------------------------------------
(* Processes and signals, as the kernel has them.                          *)

\* What a signal may do to a process: it may be ignored, and a process that
\* is stopped is interrupted when it continues.
AfterSignal(state, sig) ==
    CASE state = "running" /\ sig = "INT" -> {"running", "zombie"}
      [] state = "running" /\ sig = "TSTP" -> {"running", "stopped"}
      [] state = "stopped" /\ sig = "INT" -> {"interrupted"}
      [] state = "stopped" /\ sig = "CONT" -> {"running"}
      [] state = "interrupted" /\ sig = "CONT" -> {"running", "zombie"}
      [] OTHER -> {state}

Signal(p, sig) ==
    \E s \in AfterSignal(kids[p], sig) :
        /\ kids' = [kids EXCEPT ![p] = s]
        /\ code' = [code EXCEPT ![p] = IF s = "zombie" /\ kids[p] # s THEN SIGINT ELSE @]

\* A program ends, or could not be started: exit(0) or exit(errno).
Ends(p) ==
    /\ kids[p] = "running" /\ kids' = [kids EXCEPT ![p] = "zombie"]
    /\ \E status \in {0, 2} : code' = [code EXCEPT ![p] = 256 * status]
    /\ UNCHANGED <<gone, waiting, process_list, varlist, condemned, collected, env>>

WIFSTOPPED(status) == status % 256 = 127
WIFCONTINUED(status) == status = 65535

-----------------------------------------------------------------------------
(* myshell.c                                                               *)

Prompt == ~gone /\ waiting = << >>
Is(args, word) == args # << >> /\ args[1] = word

updateProcessStatus(p, status) ==
    process_list' = [i \in DOMAIN process_list |->
        IF process_list[i].pid = p THEN [process_list[i] EXCEPT !.status = status]
        ELSE process_list[i]]

\* Mutant: a process that has not changed is taken for one that is gone.
StatusNowEager(e) == IF kids[e.pid] = "zombie" THEN code[e.pid] ELSE TERMINATED

\* updateProcessList: waitpid() stores the status of a zombie, fails for a
\* process that was collected before, and leaves the status of any other.
StatusNow(e) ==
    LET status == IF kids[e.pid] = "zombie" THEN code[e.pid] ELSE e.status
    IN  IF kids[e.pid] = "reaped" THEN TERMINATED
        ELSE IF WIFSTOPPED(status) THEN SUSPENDED
        ELSE IF WIFCONTINUED(status) THEN RUNNING ELSE status

\* printProcessList: collect, show, and drop what is TERMINATED.
printProcessList(args) ==
    /\ Is(args, "procs")
    /\ process_list' =
          Only([i \in DOMAIN process_list |->
                   [process_list[i] EXCEPT !.status = StatusNow(process_list[i])]],
               {i \in DOMAIN process_list : StatusNow(process_list[i]) # TERMINATED})
    /\ kids' = [p \in Pids |-> IF kids[p] = "zombie" /\ \E i \in DOMAIN process_list :
                                                            process_list[i].pid = p
                               THEN "reaped" ELSE kids[p]]
    /\ collected' = {p \in Pids : kids[p] = "reaped"}
    /\ UNCHANGED <<gone, waiting, varlist, code, condemned, env>>

JobCommand(args, word, sig, status) ==
    /\ Is(args, word) /\ Len(args) >= 2 /\ args[2] \in DOMAIN PidOf
    /\ Signal(PidOf[args[2]], sig)
    /\ updateProcessStatus(PidOf[args[2]], status)
    /\ UNCHANGED <<gone, waiting, varlist, collected, env>>

Suspend(args) == JobCommand(args, "suspend", "TSTP", SUSPENDED) /\ UNCHANGED condemned
KillJob(args) ==
    /\ JobCommand(args, "kill", "INT", TERMINATED)
    /\ condemned' = condemned \cup {p \in {PidOf[args[2]]} : kids[p] # "none"}
Wake(args) == JobCommand(args, "wake", "CONT", RUNNING) /\ UNCHANGED condemned

Set(args) ==
    /\ Is(args, "set") /\ Len(args) >= 3 /\ args[2] \in Names
    /\ addVar(args[2], args[3])
    /\ env' = [env EXCEPT ![args[2]] = args[3]]
    /\ UNCHANGED <<gone, waiting, process_list, kids, code, condemned, collected>>

Delete(args) ==
    /\ Is(args, "delete") /\ Len(args) >= 2 /\ args[2] \in Names
    /\ delete(args[2])
    /\ env' = [env EXCEPT ![args[2]] = NULL]
    /\ UNCHANGED <<gone, waiting, process_list, kids, code, condemned, collected>>

\* quit, a cd that fails, a line without a first word and a command without
\* the arguments it uses end the shell.
Quit(args) ==
    /\ \/ args = << >>
       \/ Is(args, "quit") \/ Is(args, "cd")
       \/ (\E w \in {"suspend", "kill", "wake"} : Is(args, w)) /\ Len(args) < 2
       \/ Is(args, "delete") /\ Len(args) < 2 /\ varlist # << >>
       \/ Is(args, "set") /\ Len(args) < 3
    /\ gone' = TRUE
    /\ UNCHANGED <<waiting, process_list, varlist, kids, code, condemned, collected, env>>

Builtins == {"quit", "cd", "procs", "suspend", "kill", "wake", "set", "vars", "delete"}
IsProgram(args) == args # << >> /\ args[1] \notin Builtins
Unused == {p \in Pids : kids[p] = "none"}
Fresh(p) == p \in Unused /\ \A q \in Unused : p <= q
StartAll(S) == kids' = [p \in Pids |-> IF p \in S THEN "running" ELSE kids[p]]

\* The parent of execute(): the job goes to the front of the list and, unless
\* the line has an &, is waited for.  Without fork the shell ends.
execute(c, args) ==
    /\ IsProgram(args) /\ Len(c.cmds) = 1
    /\ \/ \E p \in Pids :
            /\ Fresh(p) /\ StartAll({p})
            /\ process_list' = <<[pid |-> p, status |-> RUNNING]>> \o process_list
            /\ waiting' = IF c.blocking THEN <<p>> ELSE << >>
            /\ UNCHANGED gone
       \/ gone' = TRUE /\ UNCHANGED <<kids, process_list, waiting>>
    /\ UNCHANGED <<varlist, code, condemned, collected, env>>

\* The first two commands of a pipeline, waited for in this order and never on
\* the list.  A fork that fails is not noticed: waitpid(-1) takes any child.
executePipe(c, args) ==
    /\ IsProgram(args) /\ Len(c.cmds) > 1
    /\ \/ \E p, q \in Pids \cup {-1} :
            /\ p = -1 \/ Fresh(p)
            /\ q = -1 \/ (IF p = -1 THEN Fresh(q) ELSE q = p + 1)
            /\ StartAll({p, q}) /\ waiting' = <<p, q>> /\ UNCHANGED gone
       \/ gone' = TRUE /\ UNCHANGED <<kids, waiting>>       \* execvp failed
    /\ UNCHANGED <<process_list, varlist, code, condemned, collected, env>>

\* waitpid(id, ..., 0): a child that is gone, or no child at all, is an error
\* nobody looks at.
waitpid ==
    /\ waiting # << >> /\ waiting' = Tail(waiting)
    /\ LET id == Head(waiting)
           meant == IF id = -1 THEN Pids ELSE {id}
           there == {p \in meant : kids[p] \notin {"none", "reaped"}}
       IN  \/ there = {} /\ UNCHANGED kids
           \/ \E p \in there : kids[p] = "zombie" /\ kids' = [kids EXCEPT ![p] = "reaped"]
    /\ UNCHANGED <<gone, process_list, varlist, code, condemned, collected, env>>

\* One line typed at the prompt.
Line(c, args) ==
    \/ execute(c, args) \/ executePipe(c, args) \/ printProcessList(args)
    \/ Suspend(args) \/ KillJob(args) \/ Wake(args) \/ Set(args) \/ Delete(args) \/ Quit(args)

LabNext ==
    \/ Prompt /\ \E c \in CmdLines : \E args \in {Arguments(c)} : Line(c, args)
    \/ waitpid
    \/ \E p \in Pids : ~gone /\ Ends(p)

LabSpec == LabInit /\ [][LabNext]_labVars

-----------------------------------------------------------------------------
\* Whatever jobs do meanwhile, at the prompt every child that was not collected
\* is on the list, once, or was given to kill (which drops the job whether or
\* not the signal ended it); a job that was collected before a listing is off
\* the list after it; and a variable has the value it was last set to.
JobsKept ==
    /\ \A p \in Pids :
           waiting = << >> /\ kids[p] \notin {"none", "reaped"} /\ p \notin condemned =>
               \E i \in DOMAIN process_list : process_list[i].pid = p
    /\ \A i \in DOMAIN process_list :
           /\ process_list[i].pid \notin collected
           /\ \A j \in DOMAIN process_list : process_list[i].pid = process_list[j].pid => i = j
    /\ \A n \in Names : getvalue(n) = env[n]
=============================================================================
