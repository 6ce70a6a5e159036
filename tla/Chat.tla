-------------------------------- MODULE Chat --------------------------------
(***************************************************************************)
(* The chat client (c++/spl/chat_client/Client): main connects and starts  *)
(* two threads on one socket.  output::run reads commands and sends them,  *)
(* Input::run collects bytes until they make a frame, decodes and shows    *)
(* it.  The server is not in the repository: it reads commands, answers    *)
(* each with ACK or ERROR, notifies when it likes and may go away.         *)
(*                                                                         *)
(* A byte is a number; a letter of a name or a text is Letter.  A command  *)
(* is [op, num, words], a message of the server [op, num, nums, words].    *)
(***************************************************************************)
EXTENDS Integers, Sequences, FiniteSets, SequencesExt

CONSTANTS
    Commands,       \* what the user may type
    Messages,       \* notifications the server may send
    MaxFlight,      \* bound: commands and messages under way
    MaxJunk         \* bound: length to which a broken frame grows

Letter == 97
Zero == 0
Word == <<Letter>>

REGISTER == 1
LOGIN == 2
LOGOUT == 3
FOLLOW == 4
POST == 5
PM == 6
USERLIST == 7
STAT == 8
NOTIFICATION == 9
ACK == 10
ERROR == 11

VARIABLES
    open,           \* the socket is open at this end
    peer,           \* the server has not gone away
    ipc, frame,     \* Input::run: where it is, and the frame so far
    iflag,          \* Input's flag
    opc, line,      \* output::run: where it is, and the command typed
    flag, flag2,    \* the flags of Output.cpp
    up, down,       \* bytes to the server, bytes to the client
    typed, sent,    \* history: commands typed and not yet read by the
                    \*   server, messages sent and not yet shown
    loggedIn        \* the server: the user is logged in

chatVars == <<open, peer, ipc, frame, iflag, opc, line, flag, flag2, up, down,
              typed, sent, loggedIn>>

NoLine == [op |-> 0, num |-> 0, words |-> << >>]

ChatInit ==
    /\ open = TRUE /\ peer = TRUE
    /\ ipc = "reading" /\ frame = << >> /\ iflag = FALSE
    /\ opc = "typing" /\ line = NoLine /\ flag = FALSE /\ flag2 = FALSE
    /\ up = << >> /\ down = << >>
    /\ typed = << >> /\ sent = << >>
    /\ loggedIn = FALSE

-----------------------------------------------------------------------------
(* Bytes.                                                                  *)

shortToBytes(n) == <<(n \div 256) % 256, n % 256>>
bytesToShort(s, i) == s[i] * 256 + s[i + 1]

\* Each word followed by a zero.
Terminated(words) == FlattenSeq([i \in 1 .. Len(words) |-> Append(words[i], Zero)])

\* Mutant: the names of FOLLOW keep the blanks between them.
NamesBlanks(words) ==
    Append(FlattenSeq([i \in 1 .. Len(words) |-> Append(words[i], 32)]), Zero)

\* The names of FOLLOW: the blanks become zeros.
Names(words) == Terminated(words)

\* encode: FOLLOW has a byte and the number of names before them, LOGOUT and
\* USERLIST have no words.
encode(c) ==
    shortToBytes(c.op) \o
    (IF c.op = FOLLOW
     THEN <<c.num>> \o shortToBytes(Len(c.words)) \o Names(c.words)
     ELSE Terminated(c.words))

Zeros(s, from) == Cardinality({i \in from .. Len(s) : s[i] = Zero})

\* Mutant: they are counted from the kind on.
NoteZerosEarly(s) == Zeros(s, 3)

\* The zeros of a notification, after its kind.
NoteZeros(s) == Zeros(s, 4)

\* The bytes so far are a frame.
decodeable(s) ==
    /\ Len(s) >= 4
    /\ CASE bytesToShort(s, 1) = NOTIFICATION -> NoteZeros(s) >= 2
         [] bytesToShort(s, 1) = ACK ->
                LET op == bytesToShort(s, 3)
                IN  CASE op = STAT -> Len(s) = 10
                      [] op \in {USERLIST, FOLLOW} -> Zeros(s, 7) >= 1
                      [] OTHER -> TRUE
         [] bytesToShort(s, 1) = ERROR -> Len(s) = 4
         [] OTHER -> FALSE

LogoutAck(s) == Len(s) >= 4 /\ bytesToShort(s, 1) = ACK /\ bytesToShort(s, 3) = LOGOUT

\* answer.find('\0') from index i on; the end if there is none.
FindZero(s, i) ==
    IF \E j \in i .. Len(s) : s[j] = Zero
    THEN CHOOSE j \in i .. Len(s) : s[j] = Zero /\ \A k \in i .. j - 1 : s[k] # Zero
    ELSE Len(s) + 1

\* decode: what is shown of a frame.  Of a notification the poster, up to
\* the first zero, is skipped and the content shown.
decode(s) ==
    LET op == bytesToShort(s, 1)
        about == IF op = NOTIFICATION THEN s[3] ELSE bytesToShort(s, 3)
        z == FindZero(s, 4)
    IN  [op |-> op, num |-> about,
         nums |-> CASE op = ACK /\ about = STAT ->
                           <<bytesToShort(s, 5), bytesToShort(s, 7), bytesToShort(s, 9)>>
                    [] op = ACK /\ about \in {USERLIST, FOLLOW} -> <<bytesToShort(s, 5)>>
                    [] OTHER -> << >>,
         text |-> CASE op = NOTIFICATION -> SubSeq(s, z + 1, FindZero(s, z + 1) - 1)
                    [] op = ACK /\ about \in {USERLIST, FOLLOW} -> SubSeq(s, 7, FindZero(s, 7) - 1)
                    [] OTHER -> << >>]

-----------------------------------------------------------------------------
(* Input::run                                                              *)

inVars == <<ipc, frame, iflag, open>>
outVars == <<opc, line, flag, flag2>>
srvVars == <<up, loggedIn, peer>>

\* One turn of getFrameAscii with byte ch: decodeable closes the socket when
\* it sees the ACK of LOGOUT.
Collect(ch) ==
    LET s == Append(frame, ch)
    IN  /\ frame' = s
        /\ open' = (open /\ ~LogoutAck(s))
        /\ ipc' = IF decodeable(s) THEN "decoding" ELSE "reading"
        /\ UNCHANGED <<iflag, sent, typed>>

GetByte ==
    /\ ipc = "reading" /\ open /\ down # << >>
    /\ Collect(Head(down)) /\ down' = Tail(down)
    /\ UNCHANGED outVars /\ UNCHANGED srvVars

\* The socket is closed, at this end or, with all bytes read, at the other:
\* getBytes returns false, nobody looks, and ch is appended with the value it
\* has, the last byte or, at the start of a frame, whatever was on the stack.
GetByteFails ==
    /\ ipc = "reading" /\ (~open \/ (~peer /\ down = << >>))
    /\ Len(frame) < MaxJunk
    /\ \E ch \in {Zero, ACK, Letter} : /\ frame # << >> => ch = Last(frame)
                                       /\ Collect(ch)
    /\ UNCHANGED down /\ UNCHANGED outVars /\ UNCHANGED srvVars

\* Decode and show; the ACK of LOGOUT ends the thread.
Show ==
    LET leaving == iflag \/ LogoutAck(frame)
    IN  /\ ipc = "decoding"
        /\ sent' = IF sent = << >> THEN sent ELSE Tail(sent)
        /\ frame' = << >>
        /\ iflag' = leaving
        /\ ipc' = IF leaving THEN "ended" ELSE "reading"
        /\ open' = (open /\ ~leaving)
        /\ UNCHANGED <<down, typed>> /\ UNCHANGED outVars /\ UNCHANGED srvVars

-----------------------------------------------------------------------------
(* output::run                                                             *)

\* getline and encode: LOGIN and LOGOUT leave a mark.
Type(c) ==
    /\ opc = "typing" /\ Len(typed) + Len(sent) < MaxFlight
    /\ line' = c /\ opc' = "sending"
    /\ typed' = Append(typed, c)
    /\ flag2' = (flag2 \/ c.op = LOGIN)
    /\ flag' = (flag \/ c.op = LOGOUT)
    /\ UNCHANGED inVars /\ UNCHANGED srvVars /\ UNCHANGED <<down, sent>>

Send ==
    /\ opc = "sending" /\ open /\ peer
    /\ up' = up \o encode(line)
    /\ opc' = "sent" /\ line' = NoLine
    /\ UNCHANGED <<flag, flag2, typed, down, sent, loggedIn, peer>>
    /\ UNCHANGED inVars

\* The connection is gone: sendBytes closes the socket, the thread ends.
SendFails ==
    /\ opc = "sending" /\ (~open \/ ~peer)
    /\ open' = FALSE
    /\ opc' = "ended" /\ line' = NoLine
    /\ UNCHANGED <<ipc, frame, iflag, flag, flag2, typed, sent, down>>
    /\ UNCHANGED srvVars

\* Mutant: a LOGOUT ends the thread only if nobody logged in.
LeavesOut == flag /\ ~flag2

\* if(flag&&flag2) break
Leaves == flag /\ flag2

AfterSend ==
    /\ opc = "sent"
    /\ opc' = IF Leaves THEN "ended" ELSE "typing"
    /\ UNCHANGED <<line, flag, flag2, typed, sent, down>>
    /\ UNCHANGED inVars /\ UNCHANGED srvVars

-----------------------------------------------------------------------------
(* The server (external).                                                  *)

\* The zeros that end command s, counted after its fixed part.
Fixed(op) == IF op = FOLLOW THEN 5 ELSE 2
Strings(s) ==
    LET op == bytesToShort(s, 1)
    IN  CASE op \in {REGISTER, LOGIN, PM} -> 2
          [] op = FOLLOW -> bytesToShort(s, 4)
          [] op \in {POST, STAT} -> 1
          [] OTHER -> 0

\* The lengths at which the bytes that arrived hold a whole command.
Whole == {n \in 2 .. Len(up) : /\ n >= Fixed(bytesToShort(up, 1))
                               /\ LET s == SubSeq(up, 1, n)
                                  IN  Zeros(s, Fixed(bytesToShort(s, 1)) + 1) >= Strings(s)}

\* The words of a command.
RECURSIVE Words(_, _)
Words(s, i) == IF i > Len(s) THEN << >>
               ELSE <<SubSeq(s, i, FindZero(s, i) - 1)>> \o Words(s, FindZero(s, i) + 1)

Parsed(s) ==
    LET op == bytesToShort(s, 1)
    IN  [op |-> op, num |-> IF op = FOLLOW THEN s[3] ELSE 0, words |-> Words(s, Fixed(op) + 1)]

Ack(op) == [op |-> ACK, num |-> op,
            nums |-> CASE op = STAT -> <<1, 256, 0>>
                       [] op \in {USERLIST, FOLLOW} -> <<2>>
                       [] OTHER -> << >>,
            text |-> IF op \in {USERLIST, FOLLOW} THEN <<Letter, 32, Letter>> ELSE << >>]
Error(op) == [op |-> ERROR, num |-> op, nums |-> << >>, text |-> << >>]

\* The bytes of a message; a notification starts with who posted it.
Bytes(m) ==
    shortToBytes(m.op) \o
    CASE m.op = NOTIFICATION -> <<m.num>> \o Word \o <<Zero>> \o m.text \o <<Zero>>
      [] m.op = ACK /\ m.num \in {USERLIST, FOLLOW} ->
             shortToBytes(m.num) \o shortToBytes(m.nums[1]) \o m.text \o <<Zero>>
      [] OTHER -> shortToBytes(m.num) \o
                  FlattenSeq([i \in 1 .. Len(m.nums) |-> shortToBytes(m.nums[i])])

Put(m) == sent' = Append(sent, m) /\ down' = down \o Bytes(m)

\* The command that the server reads next, and its length.
NextLength == CHOOSE n \in Whole : \A k \in Whole : n <= k
NextCommand == Parsed(SubSeq(up, 1, NextLength))

\* The next command is read and answered.
Serve ==
    /\ peer /\ Whole # {}
    /\ up' = SubSeq(up, NextLength + 1, Len(up))
    /\ typed' = IF typed = << >> THEN typed ELSE Tail(typed)
    /\ LET op == NextCommand.op
       IN  \/ /\ op = LOGOUT => loggedIn
              /\ Put(Ack(op))
              /\ loggedIn' = CASE op = LOGIN -> TRUE [] op = LOGOUT -> FALSE [] OTHER -> loggedIn
           \/ Put(Error(op)) /\ UNCHANGED loggedIn
    /\ UNCHANGED peer /\ UNCHANGED inVars /\ UNCHANGED outVars

Notify(m) ==
    /\ peer /\ loggedIn /\ Len(typed) + Len(sent) < MaxFlight
    /\ Put(m)
    /\ UNCHANGED <<up, typed, loggedIn, peer>> /\ UNCHANGED inVars /\ UNCHANGED outVars

\* The server goes away; bytes not yet delivered may be lost.
GoAway ==
    /\ peer /\ peer' = FALSE
    /\ \E n \in 0 .. Len(down) : down' = SubSeq(down, 1, n)
    /\ up' = << >> /\ typed' = << >> /\ sent' = << >>
    /\ UNCHANGED loggedIn /\ UNCHANGED inVars /\ UNCHANGED outVars

-----------------------------------------------------------------------------
InputThread == GetByte \/ GetByteFails \/ Show
OutputThread == Send \/ SendFails \/ AfterSend

ChatNext ==
    \/ InputThread \/ OutputThread
    \/ \E c \in Commands : Type(c)
    \/ Serve \/ GoAway
    \/ \E m \in Messages : Notify(m)

\* Both threads run; the user need not type and the server need not answer.
ChatSpec ==
    ChatInit /\ [][ChatNext]_chatVars /\ WF_chatVars(InputThread) /\ WF_chatVars(OutputThread)

-----------------------------------------------------------------------------
\* What is shown is what the server sent, message by message and in order,
\* while the connection lasts: frames of every kind, with zeros in their
\* numbers and in their kinds, are cut where they end (decodeable, decode).
ShownAsSent ==
    peer /\ ipc = "decoding" => sent # << >> /\ decode(frame) = Head(sent)

\* What the server reads is what was typed, command by command (encode).
TakenAsTyped ==
    peer /\ Whole # {} => typed # << >> /\ NextCommand = Head(typed)

\* Once the server has accepted a LOGOUT both threads end, unless it goes
\* away before the client has read the answer (Output.cpp:21, input.cpp:25).
LogoutEnds ==
    (\E i \in DOMAIN sent : sent[i] = Ack(LOGOUT)) ~>
        (~peer \/ (ipc = "ended" /\ opc = "ended"))
=============================================================================
