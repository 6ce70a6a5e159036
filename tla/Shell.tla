------------------------------- MODULE Shell -------------------------------
(***************************************************************************)
(* The shell at work (os-master/sh.c runcmd and main): the processes one   *)
(* command line becomes, their descriptor tables, the pipes between them   *)
(* and the waits that collect them.  Process 0 is the shell itself;        *)
(* init (init.c) restarts it and collects what it leaves behind.           *)
(*                                                                         *)
(* A descriptor is None, "cons", "file" or an end <<k, "r">>, <<k, "w">>   *)
(* of pipe k.  Calls that only touch the caller's own table are grouped    *)
(* with the next one.  The programs are echo, cat and wc of the            *)
(* repository; a redirected-in file and the terminal are at their end.     *)
(***************************************************************************)
EXTENDS ShParse, FiniteSets, FiniteSetsExt

CONSTANTS
    Lines,          \* the lines the user may type
    BusyLines,      \* bound: the ones typed while background commands run
    NProc,          \* bound: processes besides the shell (NPROC)
    NPipe,          \* bound: pipes (pages kalloc still has)
    PipeSize        \* PIPESIZE

ASSUME ShellAssumption == NProc \in Nat /\ NPipe \in Nat /\ PipeSize \in Nat \ {0}

Main == 0
Procs == 0 .. NProc
Fds == 0 .. 5
None == <<0, "none">>
Terminal == <<0, "cons">>
File == <<0, "file">>
Init0 == -1         \* the init process, as a parent
Programs == {"echo", "cat", "wc"}

VARIABLES
    line,           \* buf: the line being run, with what parsecmd makes of it
    at,             \* where process p is
    cmd,            \* the command process p is running
    fds,            \* ofile of process p
    parent,
    ends,           \* p[0] and p[1] of runcmd
    todo,           \* writes process p's program still has to do
    buf,            \* bytes in pipe k
    bg              \* history: p runs below a BACK, or was left by a failed fork

vars == <<line, at, cmd, fds, parent, ends, todo, buf, bg>>

Pipes == 1 .. NPipe
NoLine == [text |-> << >>, parse |-> Panic]
StdFds == [fd \in Fds |-> IF fd <= 2 THEN Terminal ELSE None]
NoFds == [fd \in Fds |-> None]

Live(p) == at[p] \notin {"unused", "zombie"}
Children(p) == {q \in Procs \ {Main} : at[q] # "unused" /\ parent[q] = p}
Below(p) == FoldLeft(LAMBDA S, i : S \cup UNION {Children(q) : q \in S},
                     Children(p), [i \in 1 .. NProc |-> i])
Holders(x) == {p \in Procs : Live(p) /\ \E fd \in Fds : fds[p][fd] = x}

Init ==
    /\ line = NoLine
    /\ at = [p \in Procs |-> IF p = Main THEN "prompt" ELSE "unused"]
    /\ cmd = [p \in Procs |-> NoCmd]
    /\ fds = [p \in Procs |-> IF p = Main THEN StdFds ELSE NoFds]
    /\ parent = [p \in Procs |-> Init0]
    /\ ends = [p \in Procs |-> <<0, 0>>]
    /\ todo = [p \in Procs |-> 0]
    /\ buf = [k \in Pipes |-> 0]
    /\ bg = [p \in Procs |-> FALSE]

-----------------------------------------------------------------------------
(* The kernel calls the shell makes.                                       *)

\* fdalloc: the lowest free descriptor.
FdAlloc(tab, x) == [tab EXCEPT ![Min({fd \in Fds : tab[fd] = None})] = x]
CloseFd(tab, fd) == [tab EXCEPT ![fd] = None]
DupFd(tab, fd) == FdAlloc(tab, tab[fd])

\* Pipes whose last end is gone are freed, and are empty when used again.
Emptied(tabs, live) ==
    [k \in Pipes |-> IF \E p \in live, fd \in Fds, e \in {"r", "w"} : tabs[p][fd] = <<k, e>>
                     THEN buf[k] ELSE 0]

LiveNow == {p \in Procs : Live(p)}

SetFds(p, tab) ==
    /\ fds' = [fds EXCEPT ![p] = tab]
    /\ buf' = Emptied([fds EXCEPT ![p] = tab], LiveNow)

\* exit: descriptors closed, children given to init, which collects the
\* ones that have ended; p itself waits for its parent, or for init.
Exit(p, orphansAreBg) ==
    LET tabs == [fds EXCEPT ![p] = NoFds]
        done == {q \in Children(p) : at[q] = "zombie"}
                  \cup (IF parent[p] = Init0 THEN {p} ELSE {})
    IN  /\ fds' = tabs
        /\ buf' = Emptied(tabs, LiveNow)
        /\ at' = [q \in Procs |-> IF q \in done THEN "unused"
                                  ELSE IF q = p THEN "zombie" ELSE at[q]]
        /\ parent' = [q \in Procs |-> IF q \in Children(p) THEN Init0 ELSE parent[q]]
        /\ bg' = [q \in Procs |-> bg[q] \/ (orphansAreBg /\ q \in Below(p))]
        /\ cmd' = [cmd EXCEPT ![p] = NoCmd]
        /\ ends' = [ends EXCEPT ![p] = <<0, 0>>]
        /\ todo' = [todo EXCEPT ![p] = 0]
        /\ UNCHANGED line

\* fork1: the child starts at "there" with command c; p goes on at "here".
\* A failed fork panics: the caller exits, and what it had already started
\* runs on.
Fork1(p, here, there, c, child) ==
    LET free == {q \in Procs : at[q] = "unused"}
        q == Min(free)
    IN  \/ free = {} /\ p # Main /\ Exit(p, TRUE)
        \/ /\ free # {}
           /\ at' = [at EXCEPT ![p] = here, ![q] = there]
           /\ cmd' = [cmd EXCEPT ![q] = c]
           /\ fds' = [fds EXCEPT ![q] = fds[p]]
           /\ parent' = [parent EXCEPT ![q] = p]
           /\ ends' = [ends EXCEPT ![q] = ends[p]]
           /\ bg' = [bg EXCEPT ![q] = bg[p] \/ child]
           /\ UNCHANGED <<line, todo, buf>>

\* wait: collects an ended child and goes on; -1 at once without children.
Wait(p, from, here, next) ==
    /\ at[p] = from
    /\ \/ \E q \in Children(p) :
            /\ at[q] = "zombie"
            /\ at' = [at EXCEPT ![q] = "unused", ![p] = here]
            /\ parent' = [parent EXCEPT ![q] = Init0]
            /\ bg' = [bg EXCEPT ![q] = FALSE]
       \/ Children(p) = {} /\ at' = [at EXCEPT ![p] = here] /\ UNCHANGED <<parent, bg>>
    /\ cmd' = [cmd EXCEPT ![p] = next]
    /\ UNCHANGED <<line, fds, ends, todo, buf>>

-----------------------------------------------------------------------------
(* main                                                                    *)

\* getcmd, then "cd" in the shell itself (no change of state here) or a
\* child that parses and runs the line.
ReadLine(l) ==
    /\ at[Main] = "prompt"
    /\ (\E p \in Procs \ {Main} : Live(p)) => l \in BusyLines
    /\ Head(l) # "cd" /\ line' = [text |-> l, parse |-> ParseCmd(l)]
    /\ at' = [at EXCEPT ![Main] = "fork"]
    /\ UNCHANGED <<cmd, fds, parent, ends, todo, buf, bg>>

\* Without a process left the shell itself panics, and init starts another.
ForkLine ==
    /\ at[Main] = "fork"
    /\ \/ Fork1(Main, "wait", "parse", NoCmd, FALSE)
       \/ /\ \A q \in Procs : at[q] # "unused"
          /\ at' = [at EXCEPT ![Main] = "dead"]
          /\ UNCHANGED <<line, cmd, fds, parent, ends, todo, buf, bg>>

WaitLine == Wait(Main, "wait", "prompt", NoCmd)

\* End of input: the shell exits.
EndOfInput ==
    /\ at[Main] = "prompt"
    /\ at' = [at EXCEPT ![Main] = "dead"]
    /\ UNCHANGED <<line, cmd, fds, parent, ends, todo, buf, bg>>

\* init: wait returns the shell, and the loop starts it again.
RestartShell ==
    /\ at[Main] = "dead"
    /\ at' = [at EXCEPT ![Main] = "prompt"]
    /\ line' = NoLine
    /\ UNCHANGED <<cmd, fds, parent, ends, todo, buf, bg>>

\* The child looks at the line once; panic() exits.
Parse(p) ==
    /\ at[p] = "parse"
    /\ line' = NoLine
    /\ cmd' = [cmd EXCEPT ![p] = line.parse.cmd]
    /\ at' = [at EXCEPT ![p] = IF line.parse.ok THEN "run" ELSE "end"]
    /\ UNCHANGED <<fds, parent, ends, todo, buf, bg>>

-----------------------------------------------------------------------------
(* runcmd                                                                  *)

Running(p, type) == at[p] = "run" /\ cmd[p].type = type

\* exec replaces the program: with arguments echo writes each one and cat
\* and wc print for each file; cat and wc without arguments read 0.
RunExec(p) ==
    LET argv == cmd[p].argv
        known == argv # << >> /\ argv[1] \in Programs
    IN  /\ Running(p, "EXEC")
        /\ \/ ~known /\ Exit(p, FALSE)
           \/ /\ known
              /\ at' = [at EXCEPT ![p] = IF argv[1] = "echo" \/ Len(argv) > 1
                                         THEN "writing" ELSE "reading"]
              /\ todo' = [todo EXCEPT ![p] = Len(argv) - 1]
              /\ UNCHANGED <<line, cmd, fds, parent, ends, buf, bg>>

\* close(fd), then open: it takes the descriptor just closed, or fails.
RunRedir(p) ==
    /\ Running(p, "REDIR")
    /\ \/ /\ SetFds(p, FdAlloc(CloseFd(fds[p], cmd[p].fd), File))
          /\ cmd' = [cmd EXCEPT ![p] = cmd[p].cmd]
          /\ UNCHANGED <<line, at, parent, ends, todo, bg>>
       \/ Exit(p, FALSE)

RunList(p) ==
    Running(p, "LIST") /\ Fork1(p, "list", "run", cmd[p].left, FALSE)

\* Mutant: the shell does not wait for the left command of a list.
WaitListNot(p) ==
    /\ at[p] = "list"
    /\ at' = [at EXCEPT ![p] = "run"] /\ cmd' = [cmd EXCEPT ![p] = cmd[p].right]
    /\ UNCHANGED <<line, fds, parent, ends, todo, buf, bg>>

WaitList(p) == Wait(p, "list", "run", cmd[p].right)

RunBack(p) ==
    /\ Running(p, "BACK")
    /\ Fork1(p, "end", "run", cmd[p].cmd, TRUE)

\* pipe(p): fails when no page is left for one.
RunPipe(p) ==
    LET free == {k \in Pipes : Holders(<<k, "r">>) \cup Holders(<<k, "w">>) = {}}
        k == Min(free)
        tab == FdAlloc(FdAlloc(fds[p], <<k, "r">>), <<k, "w">>)
        fdOf(e) == CHOOSE fd \in Fds : tab[fd] = <<k, e>>
    IN  /\ Running(p, "PIPE")
        /\ \/ free = {} /\ Exit(p, FALSE)
           \/ /\ free # {}
              /\ fds' = [fds EXCEPT ![p] = tab]
              /\ ends' = [ends EXCEPT ![p] = <<fdOf("r"), fdOf("w")>>]
              /\ at' = [at EXCEPT ![p] = "pipe1"]
              /\ UNCHANGED <<line, cmd, parent, todo, buf, bg>>

ForkLeft(p) == at[p] = "pipe1" /\ Fork1(p, "pipe2", "left", cmd[p].left, FALSE)
ForkRight(p) == at[p] = "pipe2" /\ Fork1(p, "pipe3", "right", cmd[p].right, FALSE)

\* close(p[0]); close(p[1])
BothClosed(tab, e) == CloseFd(CloseFd(tab, e[1]), e[2])

\* close(fd); dup(p[i]); close(p[0]); close(p[1])
Plug(p, where, fd, i) ==
    /\ at[p] = where
    /\ SetFds(p, BothClosed(DupFd(CloseFd(fds[p], fd), ends[p][i]), ends[p]))
    /\ at' = [at EXCEPT ![p] = "run"]
    /\ UNCHANGED <<line, cmd, parent, ends, todo, bg>>

Left(p) == Plug(p, "left", 1, 2)
Right(p) == Plug(p, "right", 0, 1)

\* Mutant: the parent keeps the write end open while it waits.
ParentClosesNot(p) ==
    /\ at[p] = "pipe3"
    /\ SetFds(p, CloseFd(fds[p], ends[p][1]))
    /\ at' = [at EXCEPT ![p] = "wait2"]
    /\ UNCHANGED <<line, cmd, parent, ends, todo, bg>>

ParentCloses(p) ==
    /\ at[p] = "pipe3"
    /\ SetFds(p, BothClosed(fds[p], ends[p]))
    /\ at' = [at EXCEPT ![p] = "wait2"]
    /\ UNCHANGED <<line, cmd, parent, ends, todo, bg>>

WaitFirst(p) == Wait(p, "wait2", "wait1", cmd[p])
WaitSecond(p) == Wait(p, "wait1", "end", cmd[p])
End(p) == at[p] = "end" /\ Exit(p, FALSE)

-----------------------------------------------------------------------------
(* The programs: read and write block on a pipe (pipe.c).                  *)

Write1(p, k) == fds[p][1] = <<k, "w">>

\* One write to descriptor 1 has been done, or has failed.
Wrote(p) ==
    \/ /\ \A k \in Pipes : ~Write1(p, k)
       /\ UNCHANGED buf
    \/ \E k \in Pipes :
         /\ Write1(p, k) /\ Holders(<<k, "r">>) # {} /\ buf[k] < PipeSize
         /\ buf' = [buf EXCEPT ![k] = @ + 1]

Broken(p) == \E k \in Pipes : Write1(p, k) /\ Holders(<<k, "r">>) = {}

Writing(p) ==
    /\ at[p] = "writing"
    /\ \/ (todo[p] = 0 \/ Broken(p)) /\ Exit(p, FALSE)
       \/ /\ todo[p] > 0 /\ ~Broken(p) /\ Wrote(p)
          /\ todo' = [todo EXCEPT ![p] = @ - 1]
          /\ UNCHANGED <<line, at, cmd, fds, parent, ends, bg>>

\* cat writes what it read before it reads again; wc writes at the end.
Reading(p) ==
    LET src == fds[p][0]
        eof == src[2] = "r" => buf[src[1]] = 0 /\ Holders(<<src[1], "w">>) = {}
        isCat == cmd[p].argv[1] = "cat"
    IN  /\ at[p] = "reading"
        /\ \/ eof /\ isCat /\ Exit(p, FALSE)
           \/ /\ eof /\ ~isCat
              /\ at' = [at EXCEPT ![p] = "writing"] /\ todo' = [todo EXCEPT ![p] = 1]
              /\ UNCHANGED <<line, cmd, fds, parent, ends, buf, bg>>
           \/ /\ ~eof /\ buf[src[1]] > 0
              /\ buf' = [buf EXCEPT ![src[1]] = @ - 1]
              /\ at' = [at EXCEPT ![p] = IF isCat THEN "copying" ELSE "reading"]
              /\ UNCHANGED <<line, cmd, fds, parent, ends, todo, bg>>

Copying(p) ==
    /\ at[p] = "copying"
    /\ \/ Broken(p) /\ Exit(p, FALSE)
       \/ /\ ~Broken(p) /\ Wrote(p)
          /\ at' = [at EXCEPT ![p] = "reading"]
          /\ UNCHANGED <<line, cmd, fds, parent, ends, todo, bg>>

-----------------------------------------------------------------------------
Step(p) ==
    \/ Parse(p) \/ RunExec(p) \/ RunRedir(p) \/ RunBack(p)
    \/ RunList(p) \/ WaitList(p)
    \/ RunPipe(p) \/ ForkLeft(p) \/ ForkRight(p) \/ Left(p) \/ Right(p)
    \/ ParentCloses(p) \/ WaitFirst(p) \/ WaitSecond(p) \/ End(p)
    \/ Writing(p) \/ Reading(p) \/ Copying(p)

Next ==
    \/ \E l \in Lines : ReadLine(l)
    \/ ForkLine \/ WaitLine \/ EndOfInput \/ RestartShell
    \/ \E p \in Procs \ {Main} : Step(p)

\* Each process is scheduled; the user need not type.
Fairness ==
    /\ WF_vars(ForkLine \/ WaitLine \/ RestartShell)
    /\ \A p \in Procs \ {Main} : WF_vars(Step(p))

Spec == Init /\ [][Next]_vars /\ Fairness

-----------------------------------------------------------------------------
(* Properties.                                                             *)

\* The tree holds every word, operator and redirection of the line, once and
\* in order, and without parentheses "|" binds closer than "&" and ";"
\* (parseline, parsepipe, parseexec, parseredirs).
ParseFaithful ==
    \A p \in Procs \ {Main} : at[p] = "parse" =>
        LET r == line.parse
        IN  r.ok => /\ Words(r.cmd) = LineWords(line.text)
                    /\ Redirections(r.cmd) = LineRedirections(line.text)
                    /\ ("(" \notin ToSet(line.text) => Grouped(r.cmd))

\* When the shell prompts again, everything the line started has ended,
\* except what was put in the background or left by a fork that failed: the
\* waits of runcmd and main collect the children they mean.
ForegroundDone ==
    at[Main] \in {"prompt", "fork"} => \A p \in Procs \ {Main} : Live(p) => bg[p]

\* Every command line comes to an end and the shell prompts again.
PromptReturns == (at[Main] = "wait") ~> (at[Main] = "prompt")
=============================================================================
