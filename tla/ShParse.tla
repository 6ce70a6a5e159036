------------------------------ MODULE ShParse ------------------------------
(***************************************************************************)
(* The parser of the shell (os-master/sh.c): recursive descent over the    *)
(* tokens gettoken finds.  A line is a sequence of tokens; a token is one  *)
(* of Symbols or a word.  A parse result carries the tree, the tokens that *)
(* are left and ok, which is FALSE once panic() was called: the process    *)
(* that parses has then exited.                                            *)
(***************************************************************************)
EXTENDS Integers, Sequences, SequencesExt

CONSTANT MAXARGS

ASSUME MaxArgsAssumption == MAXARGS \in Nat \ {0}

Symbols == {"<", "|", ">", ">>", "&", ";", "(", ")"}
IsWord(t) == t \notin Symbols

NoCmd == [type |-> "NONE"]
Exec(argv) == [type |-> "EXEC", argv |-> argv]
Redir(cmd, file, fd) == [type |-> "REDIR", cmd |-> cmd, file |-> file, fd |-> fd]
PipeCmd(left, right) == [type |-> "PIPE", left |-> left, right |-> right]
ListCmd(left, right) == [type |-> "LIST", left |-> left, right |-> right]
BackCmd(cmd) == [type |-> "BACK", cmd |-> cmd]

Parsed(cmd, rest) == [cmd |-> cmd, rest |-> rest, ok |-> TRUE]
Panic == [cmd |-> NoCmd, rest |-> << >>, ok |-> FALSE]

Peek(ts, S) == ts # << >> /\ Head(ts) \in S

\* "<" opens for reading on 0, ">" and ">>" for writing on 1.
RedirFd(t) == IF t = "<" THEN 0 ELSE 1

RECURSIVE ParseRedirs(_), ParseArgs(_, _), ParseLine(_), ParsePipe(_)

\* Mutant: the redirections of a command are read but one is kept.
ParseRedirsLast(r) ==
    IF ~r.ok \/ ~Peek(r.rest, {"<", ">", ">>"}) THEN r
    ELSE IF Len(r.rest) < 2 \/ ~IsWord(r.rest[2]) THEN Panic
    ELSE Parsed(Redir(IF r.cmd.type = "REDIR" THEN r.cmd.cmd ELSE r.cmd,
                      r.rest[2], RedirFd(r.rest[1])), SubSeq(r.rest, 3, Len(r.rest)))

ParseRedirs(r) ==
    IF ~r.ok \/ ~Peek(r.rest, {"<", ">", ">>"}) THEN r
    ELSE IF Len(r.rest) < 2 \/ ~IsWord(r.rest[2]) THEN Panic
    ELSE ParseRedirs(Parsed(Redir(r.cmd, r.rest[2], RedirFd(r.rest[1])),
                            SubSeq(r.rest, 3, Len(r.rest))))

\* The innermost command of a chain of redirections is the one that grows.
RECURSIVE AddArg(_, _)
AddArg(cmd, w) == IF cmd.type = "REDIR" THEN [cmd EXCEPT !.cmd = AddArg(@, w)]
                  ELSE [cmd EXCEPT !.argv = Append(@, w)]

\* The loop of parseexec, with argc words so far.
ParseArgs(r, argc) ==
    IF ~r.ok \/ r.rest = << >> \/ Peek(r.rest, {"|", ")", "&", ";"}) THEN r
    ELSE IF ~IsWord(Head(r.rest)) \/ argc + 1 >= MAXARGS THEN Panic
    ELSE ParseArgs(ParseRedirs(Parsed(AddArg(r.cmd, Head(r.rest)), Tail(r.rest))),
                   argc + 1)

ParseBlock(ts) ==
    LET r == ParseLine(Tail(ts))
    IN  IF ~r.ok \/ ~Peek(r.rest, {")"}) THEN Panic
        ELSE ParseRedirs(Parsed(r.cmd, Tail(r.rest)))

ParseExec(ts) ==
    IF Peek(ts, {"("}) THEN ParseBlock(ts)
    ELSE ParseArgs(ParseRedirs(Parsed(Exec(<< >>), ts)), 0)

ParsePipe(ts) ==
    LET l == ParseExec(ts)
    IN  IF ~l.ok \/ ~Peek(l.rest, {"|"}) THEN l
        ELSE LET r == ParsePipe(Tail(l.rest))
             IN  IF r.ok THEN Parsed(PipeCmd(l.cmd, r.cmd), r.rest) ELSE Panic

\* while(peek("&")) of parseline.
RECURSIVE ParseBacks(_)
ParseBacks(r) ==
    IF r.ok /\ Peek(r.rest, {"&"})
    THEN ParseBacks(Parsed(BackCmd(r.cmd), Tail(r.rest))) ELSE r

ParseLine(ts) ==
    LET l == ParseBacks(ParsePipe(ts))
    IN  IF ~l.ok \/ ~Peek(l.rest, {";"}) THEN l
        ELSE LET r == ParseLine(Tail(l.rest))
             IN  IF r.ok THEN Parsed(ListCmd(l.cmd, r.cmd), r.rest) ELSE Panic

\* parsecmd: tokens that are left over are a syntax error.
ParseCmd(line) ==
    LET r == ParseLine(line)
    IN  IF r.ok /\ r.rest = << >> THEN r ELSE Panic

-----------------------------------------------------------------------------
(* What a tree says, to compare with the line it was parsed from.          *)

RECURSIVE Words(_), Redirections(_), Grouped(_)

\* The tokens of a tree in order, without parentheses and redirections.
Words(c) ==
    CASE c.type = "EXEC" -> c.argv
      [] c.type = "REDIR" -> Words(c.cmd)
      [] c.type = "BACK" -> Append(Words(c.cmd), "&")
      [] c.type = "PIPE" -> Words(c.left) \o <<"|">> \o Words(c.right)
      [] c.type = "LIST" -> Words(c.left) \o <<";">> \o Words(c.right)

Redirections(c) ==
    CASE c.type = "EXEC" -> << >>
      [] c.type = "REDIR" -> Append(Redirections(c.cmd), <<c.fd, c.file>>)
      [] c.type = "BACK" -> Redirections(c.cmd)
      [] c.type \in {"PIPE", "LIST"} -> Redirections(c.left) \o Redirections(c.right)

\* Without parentheses "|" binds closer than "&", and "&" than ";".
Grouped(c) ==
    CASE c.type = "EXEC" -> TRUE
      [] c.type = "REDIR" -> c.cmd.type \in {"REDIR", "EXEC"} /\ Grouped(c.cmd)
      [] c.type = "PIPE" -> /\ c.left.type \in {"EXEC", "REDIR"}
                            /\ c.right.type \in {"EXEC", "REDIR", "PIPE"}
                            /\ Grouped(c.left) /\ Grouped(c.right)
      [] c.type = "BACK" -> c.cmd.type # "LIST" /\ Grouped(c.cmd)
      [] c.type = "LIST" -> c.left.type # "LIST" /\ Grouped(c.left) /\ Grouped(c.right)

IsRedir(line, i) == line[i] \in {"<", ">", ">>"}

LineWords(line) ==
    LET kept == {i \in DOMAIN line : /\ ~IsRedir(line, i) /\ line[i] \notin {"(", ")"}
                                     /\ i = 1 \/ ~IsRedir(line, i - 1)}
    IN  [n \in 1 .. Cardinality(kept) |->
            line[CHOOSE i \in kept : Cardinality({j \in kept : j <= i}) = n]]

LineRedirections(line) ==
    LET at == {i \in DOMAIN line : IsRedir(line, i)}
    IN  [n \in 1 .. Cardinality(at) |->
            LET k == CHOOSE i \in at : Cardinality({j \in at : j <= i}) = n
            IN  <<RedirFd(line[k]), line[k + 1]>>]
=============================================================================
