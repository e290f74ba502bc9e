------------------------------ MODULE SocketIO ------------------------------
(***************************************************************************)
(* The SocketIO classes: how a message crosses a TCP connection.  A sender *)
(* hands its bytes to the kernel in sendn, the network delivers them in    *)
(* pieces that ignore message ends, and a receiver puts them together      *)
(* again, with readline or with receiveWithPrefix.  version says whose     *)
(* code the receiver runs:                                                 *)
(*   "v1"      readline of Reactor_Version1                                *)
(*   "v1_2"    readline of Reactor_Version1.2 (marked deprecated there)    *)
(*   "v5"      readline of Reactor_Version5.0, the same file in 2.0 to 4.0 *)
(*   "prefix"  receiveWithPrefix of Reactor_Version1.2, and of 2.0 to 5.0  *)
(* A byte is a number; what a receiver may do with the buffer of           *)
(* TcpConnection::receive is kept exactly, so that a byte that is          *)
(* overwritten, skipped or read twice shows.                               *)
(***************************************************************************)
EXTENDS Integers, Sequences, SequencesExt

CONSTANTS Scripts,   \* the sequences of messages a sender may send
          Versions,  \* the versions to consider
          BufferLen, \* sizeof(buffer) in TcpConnection::receive
          Base,      \* the number of values of a byte of the prefix
          Width,     \* sizeof(uint32_t) and sizeof(int), the bytes of the prefix
          MaxCalls   \* bound on the receive calls of a behaviour

NUL == 0
NL == 1

Byte == Nat

\* What 1 counts for in the k-th byte of a number, from the right.
Weight[k \in Nat] == IF k = 0 THEN 1 ELSE Base * Weight[k - 1]

ASSUME SocketIOAssumption ==
  /\ Versions \subseteq {"v1", "v1_2", "v5", "prefix"}
  /\ BufferLen \in Nat \ {0, 1} /\ Base \in Nat \ {0, 1} /\ Width \in Nat \ {0}
  /\ Scripts \subseteq Seq(Seq(Byte))

VARIABLES version, \* whose code runs
          whole,   \* does the network keep messages in one piece?
          msgs,    \* history: the messages of the sender
          todo,    \* those it has not started to send
          out,     \* the bytes the running sendn has left
          sent,    \* the bytes the kernel has accepted from it
          closing, \* how it ended the connection: open, fin or rst
          arrived, \* how many bytes the receiver's kernel has had
          taken,   \* how many of them recv has removed
          end,     \* the end that has arrived: open, fin or rst
          rpc,     \* the receiver: idle, peek, scan, header or body
          buffer,  \* its buffer
          at,      \* pbuffer - buffer in readline
          need,    \* the len of the running recvn, the ret of the last recvPeek
          got      \* history: what receive returned, in order

sender == <<todo, out, sent, closing>>
fixed == <<version, whole, msgs>>
vars == <<fixed, sender, arrived, taken, end, rpc, buffer, at, need, got>>

-----------------------------------------------------------------------------
(* What goes over the wire.                                                *)

\* htonl: the most significant byte first.
Header(n) == [k \in 1 .. Width |-> (n \div Weight[Width - k]) % Base]

\* ntohl of the bytes received.
Length(bytes) ==
  LET number[k \in 0 .. Len(bytes)] == IF k = 0 THEN 0 ELSE number[k - 1] * Base + bytes[k]
  IN number[Len(bytes)]

\* message.size() as a uint32_t; a uint32_t as the int that sendn and recvn take; and back.
Size(m) == Len(m) % Weight[Width]
AsInt(n) == IF 2 * n < Weight[Width] THEN n ELSE n - Weight[Width]
AsUnsigned(n) == IF n < 0 THEN n + Weight[Width] ELSE n

\* sendn sends nothing when its len is negative.
Payload(m) == IF AsInt(Size(m)) > 0 THEN SubSeq(m, 1, AsInt(Size(m))) ELSE <<>>

Encoded(m) == IF version = "prefix" THEN Header(Size(m)) \o Payload(m) ELSE Append(m, NL)

\* The first n messages on the wire; all of them; and where messages end.
Upto(n) == FlattenSeq([k \in 1 .. n |-> Encoded(msgs[k])])
Stream == Upto(Len(msgs))
EndOf(n) == Len(Upto(n))
Ends == {EndOf(n) : n \in 0 .. Len(msgs)}

\* A line has no newline in it and no NUL: the clients send strlen(buf) bytes.  Left out is
\* what is undefined: in 1 and 5.0 pieces longer than the buffer, and strings without a NUL;
\* with a prefix the size whose successor, the size of the receiver's buffer, is 0.
Init ==
  /\ version \in Versions
  /\ whole \in BOOLEAN
  /\ msgs \in Scripts
  /\ version # "prefix" => \A k \in DOMAIN msgs : ToSet(msgs[k]) \cap {NUL, NL} = {}
  /\ version \in {"v1", "v5"} => Len(Stream) < BufferLen
  /\ version = "prefix" => \A k \in DOMAIN msgs : Size(msgs[k]) + 1 # Weight[Width]
  /\ todo = msgs
  /\ out = <<>>
  /\ sent = <<>>
  /\ closing = "open"
  /\ arrived = 0
  /\ taken = 0
  /\ end = "open"
  /\ rpc = "idle"
  /\ buffer = <<>>
  /\ at = 0
  /\ need = 0
  /\ got = <<>>

-----------------------------------------------------------------------------
(* The sender and the network.                                             *)

receiver == <<rpc, buffer, at, need, got>>

\* A call of sendn, or the two of sendWithPrefix one after the other.
SendMessage ==
  /\ closing = "open"
  /\ out = <<>>
  /\ todo # <<>>
  /\ out' = Encoded(Head(todo))
  /\ todo' = Tail(todo)
  /\ UNCHANGED <<fixed, sent, closing, arrived, taken, end, receiver>>

\* Faulty variant: a short write is taken for a complete one.
RemainingNone(n) == <<>>

\* What is left of the message when send has taken n bytes.
Remaining(n) == SubSeq(out, n + 1, Len(out))

\* One send in the loop of sendn: the kernel takes n bytes of those left.
Send(n) ==
  /\ n \in 1 .. Len(out)
  /\ sent' = sent \o SubSeq(out, 1, n)
  /\ out' = Remaining(n)
  /\ UNCHANGED <<fixed, todo, closing, arrived, taken, end, receiver>>

\* The sender closes or exits (fin), or send fails in sendn, which returns
\* short on this and on every later message (rst).
Finish(how) ==
  /\ closing = "open"
  /\ whole => out = <<>>
  /\ closing' = how
  /\ out' = <<>>
  /\ todo' = <<>>
  /\ UNCHANGED <<fixed, sent, arrived, taken, end, receiver>>

\* n more bytes reach the receiver's kernel.
Arrive(n) ==
  /\ end = "open"
  /\ n \in 1 .. Len(sent) - arrived
  /\ whole => arrived + n \in Ends
  /\ arrived' = arrived + n
  /\ UNCHANGED <<fixed, sender, taken, end, receiver>>

\* A FIN follows the bytes; a reset may overtake them.
EndArrives ==
  /\ end = "open"
  /\ closing = "rst" \/ (closing = "fin" /\ arrived = Len(sent))
  /\ end' = closing
  /\ UNCHANGED <<fixed, sender, arrived, taken, receiver>>

-----------------------------------------------------------------------------
(* readline.                                                               *)

Unread == SubSeq(sent, taken + 1, arrived)

AtMost(n, bytes) == SubSeq(bytes, 1, IF Len(bytes) < n THEN Len(bytes) ELSE n)

\* buf after bytes are written from offset pos on.
Written(buf, pos, bytes) ==
  [k \in DOMAIN buf |-> IF k - pos \in DOMAIN bytes THEN bytes[k - pos] ELSE buf[k]]

\* string(buffer): up to the first NUL.
CString(buf) == SubSeq(buf, 1, SelectInSeq(buf, LAMBDA b : b = NUL) - 1)

\* The bytes MSG_PEEK shows: up to left in 1.2, up to maxlen in the others.
Peeked == AtMost(IF version = "v1_2" THEN BufferLen - 1 - at ELSE BufferLen, Unread)

\* Faulty variant: all versions pass buffer.
PeekOffsetStart == 0

\* Where recvPeek puts them: 5.0 passes buffer, the others pbuffer.
PeekOffset == IF version = "v5" THEN 0 ELSE at

\* Where the for loop over the ret bytes at pbuffer finds a newline (i + 1, or 0).
Newline == SelectInSeq(SubSeq(buffer, at + 1, at + need), LAMBDA b : b = NL)

\* receive returns m; readline's locals are gone.
Return(m) ==
  /\ got' = Append(got, m)
  /\ rpc' = "idle"
  /\ buffer' = <<>>
  /\ at' = 0
  /\ need' = 0

\* The string TcpConnection::receive makes of the buffer when readline has
\* found its newline as byte size of the piece.
Received(buf, size) ==
  CASE version = "v1"   -> SubSeq(buf, 1, at + size)
    [] version = "v1_2" -> SubSeq(buf, 1, size - 1)
    [] version = "v5"   -> CString(buf)

\* receive is called: in 5.0 by the loop for a readable connection that isClosed
\* does not report closed, in the blocking servers at any time.  The recvPeek of
\* isClosed uses up the error of a reset connection.
Receive ==
  /\ rpc = "idle"
  /\ Len(got) < MaxCalls
  /\ version = "v5" => Unread # <<>> \/ end = "rst"
  /\ IF version = "prefix"
     THEN rpc' = "header" /\ buffer' = <<>> /\ need' = Width
     ELSE rpc' = "peek" /\ buffer' = [k \in 1 .. BufferLen |-> NUL] /\ need' = 0
  /\ at' = 0
  /\ end' = IF version = "v5" /\ Unread = <<>> THEN "fin" ELSE end
  /\ UNCHANGED <<fixed, sender, arrived, taken, got>>

\* recvPeek returns the number of bytes it has copied.
Peek ==
  /\ rpc = "peek"
  /\ Unread # <<>>
  /\ rpc' = "scan"
  /\ buffer' = Written(buffer, PeekOffset, Peeked)
  /\ need' = Len(Peeked)
  /\ UNCHANGED <<fixed, sender, arrived, taken, end, at, got>>

\* Faulty variant: the newline stays in the kernel.
LineSizeWithout(size) == size - 1

\* How many bytes recvn removes for a line whose newline is byte size.
LineSize(size) == size

\* The newline is found: recvn takes the line, the newline becomes a NUL.
EndOfLine ==
  /\ rpc = "scan"
  /\ Newline # 0
  /\ LET line == Written(buffer, at, AtMost(Newline, Unread))
     IN Return(Received([line EXCEPT ![at + Newline] = NUL], Newline))
  /\ taken' = taken + LineSize(Newline)
  /\ UNCHANGED <<fixed, sender, arrived, end>>

\* Faulty variant: the byte for the NUL is counted as room.
RoomWithNul(n) == at + n <= BufferLen - 1

\* left > 0 after n more bytes.
Room(n) == at + n < BufferLen - 1

\* No newline is found: recvn takes the piece, and the loop goes on while there is
\* room.  A full buffer is returned as it is; only 1 and 5.0 end it with a NUL.
NoNewline ==
  /\ rpc = "scan"
  /\ Newline = 0
  /\ taken' = taken + need
  /\ LET piece == Written(buffer, at, AtMost(need, Unread))
     IN IF Room(need)
        THEN /\ rpc' = "peek"
             /\ buffer' = piece
             /\ at' = at + need
             /\ need' = 0
             /\ got' = got
        ELSE Return(IF version = "v5" THEN CString(piece) ELSE SubSeq(piece, 1, BufferLen - 1))
  /\ UNCHANGED <<fixed, sender, arrived, end>>

\* recvPeek returns -1, and so does recvn of -1 bytes: pbuffer steps back.  At end
\* of file recvPeek returns 0 and the loop goes round without changing anything,
\* which is no step here.
PeekFails ==
  /\ rpc = "peek"
  /\ Unread = <<>>
  /\ end = "rst"
  /\ at' = at - 1
  /\ end' = "fin"
  /\ UNCHANGED <<fixed, sender, arrived, taken, rpc, buffer, need, got>>

-----------------------------------------------------------------------------
(* receiveWithPrefix.                                                      *)

InRecvn == rpc \in {"header", "body"} /\ Len(buffer) < need

\* One recv in the loop of recvn.
Recv ==
  /\ InRecvn
  /\ Unread # <<>>
  /\ LET bytes == AtMost(need - Len(buffer), Unread)
     IN /\ buffer' = buffer \o bytes
        /\ taken' = taken + Len(bytes)
  /\ UNCHANGED <<fixed, sender, arrived, end, rpc, at, need, got>>

\* Faulty variant: what has been received is returned.
ShortRecvnKept == IF rpc = "body" THEN buffer ELSE <<>>

\* The result of a receive whose recvn came back short.
ShortRecvn == <<>>

\* Faulty variant: recvn gives up when the connection ends, before what has arrived is read.
RecvnEndsEarly ==
  /\ InRecvn
  /\ end # "open"
  /\ Return(ShortRecvn)
  /\ end' = "fin"
  /\ UNCHANGED <<fixed, sender, arrived, taken>>

\* recvn meets the end of the stream or an error and returns short.
RecvnEnds ==
  /\ InRecvn
  /\ Unread = <<>>
  /\ end # "open"
  /\ Return(ShortRecvn)
  /\ end' = "fin"
  /\ UNCHANGED <<fixed, sender, arrived, taken>>

\* recvn takes the length as an int.
HeaderReceived ==
  /\ rpc = "header"
  /\ Len(buffer) = need
  /\ rpc' = "body"
  /\ need' = AsInt(Length(buffer))
  /\ buffer' = <<>>
  /\ UNCHANGED <<fixed, sender, arrived, taken, end, at, got>>

\* A byte of new char[length + 1] that nobody wrote, whatever its value.
Unwritten == -1

\* recvn(buffer, need) reads nothing when need is negative, returns need, and is believed.
BodyReceived ==
  /\ rpc = "body"
  /\ ~InRecvn
  /\ Return(IF need < 0 THEN [k \in 1 .. AsUnsigned(need) |-> Unwritten] ELSE buffer)
  /\ UNCHANGED <<fixed, sender, arrived, taken, end>>

-----------------------------------------------------------------------------
Sender == SendMessage \/ (\E n \in 1 .. Len(out) : Send(n))
Network == (\E n \in 1 .. Len(sent) - arrived : Arrive(n)) \/ EndArrives
Line == Peek \/ EndOfLine \/ NoNewline \/ PeekFails
Framed == Recv \/ RecvnEnds \/ HeaderReceived \/ BodyReceived

Next == Sender \/ (\E how \in {"fin", "rst"} : Finish(how)) \/ Network \/ Receive \/ Line \/ Framed

Spec == Init /\ [][Next]_vars

\* sendn and recvn loop until they are done, and the network delivers.
Fairness == WF_vars(Sender) /\ WF_vars(Network) /\ WF_vars(Line) /\ WF_vars(Framed)

FairSpec == Spec /\ Fairness

-----------------------------------------------------------------------------
(* Correctness.                                                            *)

InReadline == rpc \in {"peek", "scan"}

\* The types of the variables, and the order of the counters.
TypeOK ==
  /\ version \in Versions /\ whole \in BOOLEAN
  /\ out \in Seq(Byte) /\ sent \in Seq(Byte) /\ buffer \in Seq(Byte)
  /\ closing \in {"open", "fin", "rst"} /\ end \in {"open", "fin", "rst"}
  /\ rpc \in {"idle", "peek", "scan", "header", "body"}
  /\ at \in -1 .. BufferLen - 2 /\ need \in Int /\ (need >= 0 \/ rpc = "body")
  /\ taken <= arrived /\ arrived <= Len(sent)

\* When the network keeps lines in one piece, every version returns the lines that
\* were sent, in order; version 1 does whatever the pieces are.  Its lines carry
\* the NUL that took the place of the newline.
AsReceived(m) == IF version = "v1" THEN Append(m, NUL) ELSE m

LinesFit == \A k \in DOMAIN msgs : Len(msgs[k]) < BufferLen - 1

LinesInOrder ==
  version = "v1" \/ (version \in {"v1_2", "v5"} /\ whole /\ LinesFit) =>
    IsPrefix(got, [k \in DOMAIN msgs |-> AsReceived(msgs[k])])

\* receiveWithPrefix returns what was sent, a message a call, in order, however the bytes
\* are cut and whenever the connection ends: as it was if an int can hold its length (below
\* 2^31 bytes), else only something of the length announced, and the next call is still
\* given the next message.  It returns empty strings only after the end, when it has
\* returned every message that had arrived completely.
FramesExact ==
  version = "prefix" =>
    \E n \in 0 .. Len(msgs) :
      /\ n <= Len(got)
      /\ \A k \in 1 .. n : /\ Len(got[k]) = Size(msgs[k])
                           /\ 2 * Len(msgs[k]) < Weight[Width] => got[k] = msgs[k]
      /\ \A k \in n + 1 .. Len(got) : got[k] = <<>>
      /\ Len(got) > n => end # "open" /\ (n < Len(msgs) => arrived < EndOf(n + 1))

\* While 1 or 1.2 looks for a newline, its buffer holds exactly the bytes of the
\* line so far: none lost, none twice, none from the line before.
PiecesAssembled ==
  InReadline /\ version # "v5" /\ (closing = "rst" => end # "fin") =>
    /\ SubSeq(buffer, 1, at) = SubSeq(Stream, taken - at + 1, taken)
    /\ NL \notin ToSet(SubSeq(buffer, 1, at))
    /\ taken - at \in Ends \/ ~LinesFit

\* The end of the line has been handed to the kernel; in 5.0 the network keeps the
\* line in one piece, too.
LineDue ==
  InReadline /\ (version # "v5" \/ whole) /\ NL \in ToSet(SubSeq(sent, taken + 1, Len(sent)))

\* There is a message still to come or to read, or the sender has gone.
FrameDue == rpc \in {"header", "body"} /\ (closing # "open" \/ Len(got) < Len(msgs))

\* A receiver inside readline returns when its line is due, unless the connection is
\* reset; one inside receiveWithPrefix also when the sender has gone in the middle of
\* a prefix or of a message.
ReceiveReturns ==
  /\ LineDue ~> (rpc = "idle" \/ closing = "rst")
  /\ FrameDue ~> rpc = "idle"

\* "Look for a newline in the ret bytes peeked": a piece with a newline in it ends
\* the line (SocketIO.cpp:43).  5.0 looks at pbuffer, but has peeked into buffer.
PeekedNewlineFound ==
  [][version = "v5" /\ rpc = "scan" /\ rpc' = "peek" => NL \notin ToSet(AtMost(need, Unread))]_vars

=============================================================================
