---------------------------- MODULE RequestReply -----------------------------
(***************************************************************************)
(* The four small servers that give each connection one answer:            *)
(*   "tcp"    TCP_Communication_Model: greets, then listens                *)
(*   "v1"     Reactor_Version_1_Test.cpp: echoes a line (readline)         *)
(*   "v1.2"   Reactor_Version_1_2_Test.cpp: echoes a message with prefix   *)
(*   "epoll"  Epoll_Communication_Model: echoes, with epoll                *)
(* each with the client that belongs to it.  The first three serve one     *)
(* connection at a time and block in every call.                           *)
(*                                                                         *)
(* A client connects once and asks once; it stands for its socket here.  A *)
(* message is named by the client it comes from.  Messages are short: a    *)
(* send takes one whole and a recv returns it whole; v1.2 sends the prefix *)
(* and the message apart.  (SocketIO.tla cuts the stream anywhere.)        *)
(***************************************************************************)
EXTENDS Naturals, Sequences, SequencesExt

CONSTANTS Clients,
          Quitters,   \* bound: the clients that may be killed
          MaxFaults,  \* bound: how many calls of the server's set-up or accept fail
          NoClient

ASSUME RequestReplyAssumption ==
  /\ Quitters \subseteq Clients
  /\ MaxFaults \in Nat
  /\ NoClient \notin Clients

VARIABLES program,  \* which server, and which clients
          fate,     \* "down", "up" or one of Failures
          at,       \* place of the server
          current,  \* the connection a sequential server is busy with
          message,  \* what the server has received, NoClient for ""
          todo,     \* epoll: what is left of the batch; NoClient is the listener
          faults,   \* how many calls have failed
          backlog,  \* connections established and not yet accepted
          conn,     \* the server's descriptor of each connection
          link,     \* the client's end, as the server's kernel knows it
          inbox,    \* what the server has not yet read
          heard,    \* what the kernel has accepted for the client
          seen,     \* how many of these the client has read
          wrote,    \* how many pieces of its request the client has sent
          client    \* the client program

serverVars == <<fate, at, current, message, todo, faults>>
clientVars == <<seen, wrote, client>>
vars == <<program, serverVars, backlog, conn, link, inbox, heard, clientVars>>

Prefix == "prefix"

\* The pieces of the request of c, and of the answer it should get.
Request(c) == IF program = "v1.2" THEN <<Prefix, c>> ELSE <<c>>
Answer(c) == IF program = "tcp" THEN <<"welcome">> ELSE Request(c)

(***************************************************************************)
(* How a server ends: its set-up fails and the process "exits", or goes on *)
(* "elsewhere", not at the port the clients know; it is "killed" by        *)
(* SIGPIPE, "stuck" in readline, or "deaf", having closed its listener.    *)
(***************************************************************************)
Failures == {"exited", "elsewhere", "killed", "stuck", "deaf"}

StartsAt(p) == IF p = "epoll" THEN "wait" ELSE "accept"

Init ==
  /\ program \in {"tcp", "v1", "v1.2", "epoll"}
  /\ fate = "down" /\ at = StartsAt(program)
  /\ current = NoClient /\ message = NoClient
  /\ todo = {}
  /\ faults = 0
  /\ backlog = <<>>
  /\ conn = [c \in Clients |-> "none"]
  /\ link = [c \in Clients |-> "new"]
  /\ inbox = [c \in Clients |-> <<>>]
  /\ heard = [c \in Clients |-> <<>>]
  /\ seen = [c \in Clients |-> 0]
  /\ wrote = [c \in Clients |-> 0]
  /\ client = [c \in Clients |-> "new"]

Listening == fate \in {"up", "stuck"}

-----------------------------------------------------------------------------
(***************************************************************************)
(* The clients.  link goes from new to open, and when the client has gone  *)
(* to "fin", "poked", "pipe" or "rst", "gone" as in BroadcastReactor.      *)
(***************************************************************************)
Unread(c) == Len(heard[c]) - seen[c]

\* The kernel accepts two connections for listen(fd, 1).
BacklogRoom == program = "tcp" => Len(backlog) < 2

Connect(c) ==
  /\ client[c] = "new"
  /\ Listening /\ BacklogRoom
  /\ client' = [client EXCEPT ![c] = "on"]
  /\ link' = [link EXCEPT ![c] = "open"]
  /\ backlog' = Append(backlog, c)
  /\ UNCHANGED <<program, serverVars, conn, inbox, heard, seen, wrote>>

\* Nobody listens at the port, or not yet.
ConnectFails(c) ==
  /\ client[c] = "new"
  /\ ~Listening
  /\ client' = [client EXCEPT ![c] = "refused"]
  /\ UNCHANGED <<program, serverVars, backlog, conn, link, inbox, heard, seen, wrote>>

\* send and sendn: the next piece of the request.
Asks(c) ==
  /\ wrote[c] < Len(Request(c))
  /\ wrote' = [wrote EXCEPT ![c] = @ + 1]
  /\ inbox' = [inbox EXCEPT ![c] = Append(@, Request(c)[wrote'[c]])]
  /\ UNCHANGED <<program, serverVars, backlog, conn, link, heard, seen, client>>

\* recv and recvn.
Reads(c) ==
  /\ Unread(c) > 0
  /\ seen' = [seen EXCEPT ![c] = @ + 1]
  /\ UNCHANGED <<program, serverVars, backlog, conn, link, inbox, heard, wrote, client>>

\* The client's socket is closed.  What it has not read makes its kernel send a
\* reset, at once or when the rest of it arrives.
Leaves(c, how) ==
  /\ client' = [client EXCEPT ![c] = how]
  /\ \E state \in (IF Unread(c) = 0 THEN {"fin"} ELSE {"rst", "poked"}) :
       link' = [link EXCEPT ![c] = state]
  /\ UNCHANGED <<program, serverVars, backlog, conn, inbox, heard, seen, wrote>>

\* recv returns 0 or -1: the server has closed the connection or is gone.
EndOfStream(c) ==
  /\ Unread(c) = 0
  /\ conn[c] = "closed" \/ ~Listening

TcpClient(c) ==
  \/ Reads(c)
  \/ seen[c] = 1 /\ Asks(c)
  \/ wrote[c] = 1 /\ Leaves(c, "done")

EpollClient(c) ==
  \/ Asks(c)
  \/ wrote[c] = 1 /\ Reads(c)
  \/ seen[c] = 1 /\ Leaves(c, "done")

PrefixClient(c) ==
  \/ Asks(c)
  \/ wrote[c] = 2 /\ Reads(c)
  \/ seen[c] = 2 /\ Leaves(c, "done")

\* A select loop that ends with the connection; its user types the request.
LineClient(c) ==
  \/ Reads(c)
  \/ EndOfStream(c) /\ Leaves(c, "done")

ClientProgram(c) ==
  /\ client[c] = "on"
  /\ \/ program = "tcp" /\ TcpClient(c)
     \/ program = "epoll" /\ EpollClient(c)
     \/ program = "v1.2" /\ PrefixClient(c)
     \/ program = "v1" /\ LineClient(c)
     \/ program # "v1" /\ EndOfStream(c) /\ Leaves(c, "done")

User(c) ==
  \/ Connect(c) \/ ConnectFails(c)
  \/ /\ client[c] = "on"
     /\ \/ program = "v1" /\ Asks(c)
        \/ c \in Quitters /\ Leaves(c, "quit")

\* A closed client answers what it is sent with a reset.
ResetArrives(c) ==
  /\ link[c] = "poked"
  /\ link' = [link EXCEPT ![c] = "pipe"]
  /\ UNCHANGED <<program, serverVars, backlog, conn, inbox, heard, clientVars>>

-----------------------------------------------------------------------------
(* What the servers have in common.                                        *)

Is(p) == program = p /\ fate = "up"

\* The system calls up to listen and epoll_ctl, of which one may fail.
SetUp(p, failure) ==
  /\ program = p /\ fate = "down"
  /\ \/ fate' = "up" /\ UNCHANGED faults
     \/ faults < MaxFaults /\ faults' = faults + 1 /\ fate' = failure
  /\ UNCHANGED <<program, at, current, message, todo, backlog, conn, link, inbox, heard,
                 clientVars>>

Goto(from, to) == at = from /\ at' = to

\* accept: the first client that waits.
Accept ==
  /\ backlog # <<>>
  /\ conn' = [conn EXCEPT ![Head(backlog)] = "open"]
  /\ backlog' = Tail(backlog)
  /\ UNCHANGED <<program, fate, faults, message, link, inbox, heard, clientVars>>

AcceptFails ==
  /\ faults < MaxFaults
  /\ faults' = faults + 1
  /\ UNCHANGED <<program, current, message, backlog, conn, link, inbox, heard, clientVars>>

CloseOf(c) == conn' = [conn EXCEPT ![c] = "closed"]

\* Does recv find the end of the stream, or an error?
Ended(c) == inbox[c] = <<>> /\ link[c] # "open"

\* send on the socket of c: a send after a known reset raises SIGPIPE, for which
\* no server has a handler.
Send(c, piece) ==
  /\ heard' = IF link[c] = "open" THEN [heard EXCEPT ![c] = Append(@, piece)] ELSE heard
  /\ link' = [link EXCEPT ![c] = CASE @ = "fin" -> "poked" [] @ = "rst" -> "gone" [] OTHER -> @]
  /\ fate' = IF link[c] \in {"pipe", "gone"} THEN "killed" ELSE fate

\* send returns -1, for the pending error of the connection.
SendFails(c) == link[c] = "rst"

-----------------------------------------------------------------------------
(* "tcp"                                                                   *)

TcpSetUp == SetUp("tcp", "exited")

TcpAccept == Accept /\ Goto("accept", "greet") /\ current' = Head(backlog) /\ UNCHANGED todo

\* Faulty variant: the listening socket stays open.
TcpAcceptFailsOpen == AcceptFails /\ at = "accept" /\ UNCHANGED <<fate, at, todo>>

\* The listening socket is closed, and every later accept fails, too.
TcpAcceptFails == AcceptFails /\ at = "accept" /\ fate' = "deaf" /\ UNCHANGED <<at, todo>>

\* What send returns is not looked at.
TcpGreet ==
  /\ Goto("greet", "receive")
  /\ Send(current, "welcome")
  /\ UNCHANGED <<program, current, message, todo, faults, backlog, conn, inbox, clientVars>>

\* The connection is closed whatever recv returns.
TcpReceive ==
  /\ Goto("receive", "accept")
  /\ inbox[current] # <<>> \/ Ended(current)
  /\ inbox' = [inbox EXCEPT ![current] = <<>>]
  /\ CloseOf(current)
  /\ UNCHANGED <<program, fate, current, message, todo, faults, backlog, link, heard, clientVars>>

TcpServer == Is("tcp") /\ (TcpAccept \/ TcpAcceptFails \/ TcpGreet \/ TcpReceive)

-----------------------------------------------------------------------------
(* "v1"                                                                    *)

\* Acceptor::ready goes on when bind fails, and listen then takes any free port.
LineSetUp == SetUp("v1", "elsewhere")

LineAccept == Accept /\ Goto("accept", "receive") /\ current' = Head(backlog) /\ UNCHANGED todo

\* A connection with the descriptor -1: recvPeek fails each time, and readline
\* goes on.
LineAcceptFails == AcceptFails /\ at = "accept" /\ fate' = "stuck" /\ UNCHANGED <<at, todo>>

LineReceive ==
  /\ Goto("receive", "reply")
  /\ inbox[current] # <<>>
  /\ message' = Head(inbox[current])
  /\ inbox' = [inbox EXCEPT ![current] = Tail(@)]
  /\ UNCHANGED <<program, fate, current, todo, faults, backlog, conn, link, heard, clientVars>>

\* readline goes round for ever when recvPeek returns 0, or -1 and then 0.  So
\* receive never returns "" or "[NO_DATA]", and main does not come to the cases
\* that it has for them.
LineEnds ==
  /\ at = "receive"
  /\ Ended(current)
  /\ fate' = "stuck"
  /\ UNCHANGED <<program, at, current, message, todo, faults, backlog, conn, link, inbox,
                 heard, clientVars>>

\* send, and the destructor at the end of the loop body.
LineReply ==
  /\ Goto("reply", "accept")
  /\ Send(current, message)
  /\ CloseOf(current)
  /\ UNCHANGED <<program, current, message, todo, faults, backlog, inbox, clientVars>>

LineServer == Is("v1") /\ (LineAccept \/ LineAcceptFails \/ LineReceive \/ LineEnds \/ LineReply)

-----------------------------------------------------------------------------
(* "v1.2"                                                                  *)

PrefixSetUp == SetUp("v1.2", "elsewhere")

PrefixAccept == Accept /\ Goto("accept", "receive") /\ current' = Head(backlog) /\ UNCHANGED todo

\* With the descriptor -1 every call fails, and the loop goes on.
PrefixAcceptFails == AcceptFails /\ at = "accept" /\ UNCHANGED <<fate, at, todo>>

\* Faulty variant: recvn takes the end of the stream for an interruption.
ShortFateEndless == "stuck"

ShortFate == fate

\* Faulty variant: the prefix is taken for the message.
BodyFirst(c) == inbox[c][1]

Body(c) == inbox[c][2]

\* receiveWithPrefix returns the message, or "" when the stream ends before it.
PrefixReceive ==
  /\ Goto("receive", "prefix")
  /\ \/ /\ Len(inbox[current]) = 2
        /\ message' = Body(current)
        /\ UNCHANGED fate
     \/ /\ Len(inbox[current]) < 2 /\ link[current] # "open"
        /\ message' = NoClient
        /\ fate' = ShortFate
  /\ inbox' = [inbox EXCEPT ![current] = <<>>]
  /\ UNCHANGED <<program, current, todo, faults, backlog, conn, link, heard, clientVars>>

\* Faulty variant: the second sendn is forgotten.
BodyFollowsNever == FALSE

\* The message has a body to send, and the prefix has been sent.
BodyFollows == message # NoClient /\ ~SendFails(current)

\* sendWithPrefix, first sendn.
PrefixReply ==
  /\ at = "prefix"
  /\ Send(current, Prefix)
  /\ \/ BodyFollows /\ at' = "body" /\ UNCHANGED conn
     \/ ~BodyFollows /\ at' = "accept" /\ CloseOf(current)
  /\ UNCHANGED <<program, current, message, todo, faults, backlog, inbox, clientVars>>

BodyReply ==
  /\ Goto("body", "accept")
  /\ Send(current, message)
  /\ CloseOf(current)
  /\ UNCHANGED <<program, current, message, todo, faults, backlog, inbox, clientVars>>

PrefixServer ==
  Is("v1.2") /\ (PrefixAccept \/ PrefixAcceptFails \/ PrefixReceive \/ PrefixReply \/ BodyReply)

-----------------------------------------------------------------------------
(* "epoll"                                                                 *)

EpollSetUp == SetUp("epoll", "exited")

Ready == {c \in Clients : conn[c] = "open" /\ (inbox[c] # <<>> \/ Ended(c))}
         \cup (IF backlog = <<>> THEN {} ELSE {NoClient})

\* Time-outs are left out: they only print.
EpollReturn ==
  /\ at = "wait" /\ todo = {}
  /\ Ready # {}
  /\ todo' = Ready
  /\ UNCHANGED <<program, fate, at, current, message, faults, backlog, conn, link, inbox,
                 heard, clientVars>>

EpollAccept ==
  /\ NoClient \in todo
  /\ todo' = todo \ {NoClient}
  /\ Accept
  /\ UNCHANGED <<at, current>>

\* epoll refuses the -1; the client is reported again.
EpollAcceptFails ==
  /\ NoClient \in todo
  /\ todo' = todo \ {NoClient}
  /\ AcceptFails
  /\ UNCHANGED <<fate, at>>

EpollEcho(c) ==
  /\ c \in todo /\ inbox[c] # <<>>
  /\ todo' = todo \ {c}
  /\ Send(c, Head(inbox[c]))
  /\ inbox' = [inbox EXCEPT ![c] = Tail(@)]
  /\ IF SendFails(c) THEN CloseOf(c) ELSE UNCHANGED conn
  /\ UNCHANGED <<program, at, current, message, faults, backlog, clientVars>>

\* Faulty variant: recv_ret < 0 in place of recv_ret <= 0.
EpollEndKept(c) ==
  /\ c \in todo /\ Ended(c)
  /\ todo' = todo \ {c}
  /\ UNCHANGED <<program, fate, at, current, message, faults, backlog, conn, link, inbox,
                 heard, clientVars>>

\* recv returns 0 or -1.
EpollEnd(c) ==
  /\ c \in todo /\ Ended(c)
  /\ todo' = todo \ {c}
  /\ CloseOf(c)
  /\ UNCHANGED <<program, fate, at, current, message, faults, backlog, link, inbox, heard,
                 clientVars>>

EpollServer ==
  /\ Is("epoll")
  /\ \/ EpollReturn \/ EpollAccept \/ EpollAcceptFails
     \/ \E c \in Clients : EpollEcho(c) \/ EpollEnd(c)

-----------------------------------------------------------------------------
Server ==
  \/ TcpSetUp \/ LineSetUp \/ PrefixSetUp \/ EpollSetUp
  \/ TcpServer \/ LineServer \/ PrefixServer \/ EpollServer

Next == Server \/ \E c \in Clients : ClientProgram(c) \/ User(c) \/ ResetArrives(c)

Spec == Init /\ [][Next]_vars

\* The programs run; the users need not do anything.
FairSpec == Spec /\ WF_vars(Server) /\ \A c \in Clients : WF_vars(ClientProgram(c))

-----------------------------------------------------------------------------
\* The types of the variables.
TypeOK ==
  /\ program \in {"tcp", "v1", "v1.2", "epoll"}
  /\ fate \in {"down", "up"} \cup Failures
  /\ at \in {"accept", "greet", "receive", "reply", "prefix", "body", "wait"}
  /\ {current, message} \cup todo \subseteq Clients \cup {NoClient}
  /\ faults \in 0 .. MaxFaults
  /\ backlog \in Seq(Clients)
  /\ conn \in [Clients -> {"none", "open", "closed"}]
  /\ link \in [Clients -> {"new", "open", "fin", "poked", "pipe", "rst", "gone"}]
  /\ client \in [Clients -> {"new", "refused", "on", "done", "quit"}]
  /\ \A c \in Clients :
       /\ inbox[c] \in Seq({Prefix, c})
       /\ heard[c] \in Seq({Prefix, "welcome"} \cup Clients)
       /\ seen[c] \in 0 .. Len(heard[c])
       /\ wrote[c] \in 0 .. Len(Request(c))

(***************************************************************************)
(* Nobody gets anything but his own answer, not twice and not in part: a   *)
(* client program that comes to its end has read all of it, whoever else   *)
(* has left or been killed, unless the server has failed.                  *)
(***************************************************************************)
WholeAnswers ==
  \A c \in Clients :
    /\ IsPrefix(heard[c], Answer(c))
    /\ client[c] = "done" => seen[c] = Len(Answer(c)) \/ fate \in Failures

(***************************************************************************)
(* What a server cannot survive.  Once it listens, the epoll server        *)
(* survives everything.  v1.2 is killed by a client that leaves after its  *)
(* request, because its answer is two sends; one send for each connection  *)
(* is not enough for a SIGPIPE.  v1 never leaves readline when a client    *)
(* leaves without a line; it and "tcp" do not get over a failing accept.   *)
(***************************************************************************)
Survives ==
  /\ fate = "killed" => program = "v1.2" /\ \E c \in Clients : client[c] = "quit" /\ wrote[c] = 2
  /\ fate = "stuck" =>
       program = "v1" /\ (faults > 0 \/ \E c \in Clients : client[c] = "quit" /\ wrote[c] = 0)
  /\ fate \in {"exited", "elsewhere", "deaf"} => faults > 0
  /\ fate \in Failures /\ program = "epoll" => fate = "exited"

\* A sequential server waits for a user who says nothing.
Occupied == program = "v1" /\ at = "receive" /\ inbox[current] = <<>> /\ link[current] = "open"

\* c is connected and has a claim to its answer.
Waits(c) == client[c] = "on" /\ (program = "v1" => wrote[c] = 1)

(***************************************************************************)
(* Everybody who has asked gets through his program, and no descriptor of  *)
(* a client that has left stays open: a server that is up is never blocked *)
(* for good by a client that is killed, whenever that is, nor by accepts   *)
(* that fail; only v1 waits for a user who says nothing.                   *)
(***************************************************************************)
EverybodyServed ==
  []<>(\/ fate \in Failures \/ Occupied
       \/ \A c \in Clients : ~Waits(c) /\ (conn[c] = "open" => link[c] = "open"))
=============================================================================
