--------------------------- MODULE BroadcastReactor ---------------------------
(***************************************************************************)
(* Reactor_Version2.0 and 3.0: one thread that waits with level-triggered  *)
(* epoll, accepts, reads a line from whoever has one and sends it to       *)
(* everybody else (onMessage, TcpConnection::broadcast), and the clients   *)
(* at the other end (Client.cpp), who watch the socket and the keyboard.   *)
(* The two versions do the same; 3.0 wraps it in a TcpServer.              *)
(*                                                                         *)
(* All sockets are blocking: a send to a client that does not read stops   *)
(* the server, and a client that waits to send does not read.  A line goes *)
(* into a buffer as a whole.  Nobody calls unloop.                         *)
(*                                                                         *)
(* A client connects once, so it stands for its connection, too.           *)
(***************************************************************************)
EXTENDS Integers, Sequences, FiniteSetsExt

CONSTANTS Clients,
          Leavers,   \* bound: the clients whose users stop them
          Lines,     \* bound: the lines each client's user types
          Fds,       \* the numbers accept may return
          ListenFd,
          NoClient,
          InBuffer,  \* the lines a client can send ahead of the server
          OutBuffer  \* the lines the server can send ahead of a client

ASSUME BroadcastReactorAssumption ==
  /\ Leavers \subseteq Clients
  /\ Lines \in [Clients -> Nat]
  /\ IsFiniteSet(Clients) /\ IsFiniteSet(Fds)
  /\ Fds \subseteq Nat /\ Cardinality(Clients) <= Cardinality(Fds)
  /\ ListenFd \notin Fds /\ NoClient \notin Clients
  /\ InBuffer \in Nat \ {0} /\ OutBuffer \in Nat \ {0}

VARIABLES up,      \* the server process is alive
          stuck,   \* it loops forever in readline
          todo,    \* what is left to handle of _ready_events
          conns,   \* _conns; its keys are also what epoll watches
          message, \* the line being broadcast
          owed,    \* the connections it has still to be sent to
          recipient, \* the one of them that the for loop has come to
          backlog, \* connections that are waiting for accept
          link,    \* the client's end of a connection, as the server's kernel knows it
          inbox,   \* the lines the server has not yet read
          heard,   \* history: the lines the kernel has accepted for the client
          seen,    \* how many of these the client has received
          sent,    \* how many lines the client has sent
          sending, \* the client is in send
          log      \* history: the lines the server has read, in order

serverVars == <<up, stuck, todo, conns, message, owed, recipient, log>>
vars == <<serverVars, backlog, link, inbox, heard, seen, sent, sending>>

Line == UNION {[from : {c}, num : 1 .. Lines[c]] : c \in Clients}
NoLine == [from |-> NoClient, num |-> 0]
NoFd == -1

Init ==
  /\ up = TRUE /\ stuck = FALSE
  /\ todo = {}
  /\ conns = [fd \in Fds |-> NoClient]
  /\ message = NoLine
  /\ owed = {}
  /\ recipient = NoFd
  /\ backlog = <<>>
  /\ link = [c \in Clients |-> "new"]
  /\ inbox = [c \in Clients |-> <<>>]
  /\ heard = [c \in Clients |-> <<>>]
  /\ seen = [c \in Clients |-> 0]
  /\ sent = [c \in Clients |-> 0]
  /\ sending = [c \in Clients |-> FALSE]
  /\ log = <<>>

Filed == {fd \in Fds : conns[fd] # NoClient}
Held == {conns[fd] : fd \in Filed}
Unread(c) == Len(heard[c]) - seen[c]

-----------------------------------------------------------------------------
(***************************************************************************)
(* The clients.  link goes from new to open.  When the client exits, it is *)
(* "fin"; then "poked" when the reset that answers unwanted data is on its *)
(* way, "pipe" when it has come; or "rst" when the exit resets the         *)
(* connection at once, "gone" when the pending error has been reported.    *)
(***************************************************************************)
Connect(c) ==
  /\ link[c] = "new"
  /\ link' = [link EXCEPT ![c] = "open"]
  /\ backlog' = Append(backlog, c)
  /\ UNCHANGED <<serverVars, inbox, heard, seen, sent, sending>>

MayType(c) == sent[c] < Lines[c]

\* select finds the keyboard ready and the socket not.
Types(c) ==
  /\ link[c] = "open" /\ ~sending[c]
  /\ Unread(c) = 0
  /\ MayType(c)
  /\ sending' = [sending EXCEPT ![c] = TRUE]
  /\ UNCHANGED <<serverVars, backlog, link, inbox, heard, seen, sent>>

\* select finds the socket ready, and perhaps the keyboard, too.  One recv may
\* return several lines.
Reads(c) ==
  /\ link[c] = "open" /\ ~sending[c]
  /\ \E n \in 1 .. Unread(c) : seen' = [seen EXCEPT ![c] = @ + n]
  /\ \E typed \in {FALSE, MayType(c)} : sending' = [sending EXCEPT ![c] = typed]
  /\ UNCHANGED <<serverVars, backlog, link, inbox, heard, sent>>

InboxFull(c) == Len(inbox[c]) = InBuffer

\* send returns when the line has been taken by the kernel.
SendReturns(c) ==
  /\ link[c] = "open" /\ sending[c]
  /\ ~InboxFull(c)
  /\ sent' = [sent EXCEPT ![c] = @ + 1]
  /\ inbox' = [inbox EXCEPT ![c] = Append(@, [from |-> c, num |-> sent'[c]])]
  /\ sending' = [sending EXCEPT ![c] = FALSE]
  /\ UNCHANGED <<serverVars, backlog, link, heard, seen>>

\* The user stops the client, wherever it is.  What it has not read makes its kernel
\* send a reset, at once or when the rest of it arrives.
Exits(c) ==
  /\ c \in Leavers
  /\ link[c] = "open"
  /\ \E state \in (IF Unread(c) = 0 THEN {"fin"} ELSE {"rst", "poked"}) :
       link' = [link EXCEPT ![c] = state]
  /\ sending' = [sending EXCEPT ![c] = FALSE]
  /\ UNCHANGED <<serverVars, backlog, inbox, heard, seen, sent>>

\* A closed client answers what it is sent with a reset.
ResetArrives(c) ==
  /\ link[c] = "poked"
  /\ link' = [link EXCEPT ![c] = "pipe"]
  /\ UNCHANGED <<serverVars, backlog, inbox, heard, seen, sent, sending>>

-----------------------------------------------------------------------------
(* The server: EventLoop.                                                  *)

Broadcasting == owed # {}
Free == up /\ ~stuck /\ ~Broadcasting

Readable(c) == inbox[c] # <<>> \/ link[c] # "open"

ReadyFds == {fd \in Filed : Readable(conns[fd])}
            \cup (IF backlog = <<>> THEN {} ELSE {ListenFd})

\* epoll_wait returns everything that is ready; a timeout changes nothing.
EpollReturn ==
  /\ Free
  /\ todo = {}
  /\ ReadyFds # {}
  /\ todo' = ReadyFds
  /\ UNCHANGED <<up, stuck, conns, message, owed, recipient, log, backlog, link, inbox, heard, seen, sent, sending>>

\* The next event of the batch, in whatever order epoll reports them.
Dispatch(fd) ==
  /\ Free
  /\ fd \in todo
  /\ todo' = todo \ {fd}

\* accept returns the lowest number that is free; a TcpConnection closes its
\* descriptor when it is erased from _conns, the only place that keeps it.
HandleNewConnection ==
  /\ Dispatch(ListenFd)
  /\ conns' = [conns EXCEPT ![Min(Fds \ Filed)] = Head(backlog)]
  /\ backlog' = Tail(backlog)
  /\ UNCHANGED <<up, stuck, message, owed, recipient, log, link, inbox, heard, seen, sent, sending>>

\* Faulty variant: broadcast does not leave out the sender.
AllRecipients(fd) == Filed

\* Whom broadcast sends what comes from fd.
Recipients(fd) == Filed \ {fd}

\* Which of those left the for loop goes to next.  The order of the map is that of the
\* descriptors in 2.0 and arbitrary in 3.0.
NextOf(fds) == IF fds = {} THEN {NoFd} ELSE fds

\* isClosed is false; onMessage receives a line and starts to broadcast it.
HandleLine(fd) ==
  /\ Dispatch(fd)
  /\ LET c == conns[fd] IN
       /\ inbox[c] # <<>>
       /\ message' = Head(inbox[c])
       /\ log' = Append(log, Head(inbox[c]))
       /\ inbox' = [inbox EXCEPT ![c] = Tail(@)]
  /\ owed' = Recipients(fd)
  /\ recipient' \in NextOf(Recipients(fd))
  /\ UNCHANGED <<up, stuck, conns, backlog, link, heard, seen, sent, sending>>

Over == {"fin", "poked", "pipe", "gone"}

\* Faulty variant: a client that has exited counts as closed at once.
ClosedEarly(c) == link[c] \in Over

\* isClosed: the peek returns 0.
IsClosed(c) == inbox[c] = <<>> /\ link[c] \in Over

\* onClose, EPOLL_CTL_DEL, and the connection is erased.
HandleClose(fd) ==
  /\ Dispatch(fd)
  /\ IsClosed(conns[fd])
  /\ conns' = [conns EXCEPT ![fd] = NoClient]
  /\ UNCHANGED <<up, stuck, message, owed, recipient, log, backlog, link, inbox, heard, seen, sent, sending>>

\* isClosed peeks -1, which it takes for an open connection; readline then peeks
\* 0 bytes for ever.
HandleReset(fd) ==
  /\ Dispatch(fd)
  /\ inbox[conns[fd]] = <<>>
  /\ link[conns[fd]] = "rst"
  /\ link' = [link EXCEPT ![conns[fd]] = "gone"]
  /\ stuck' = TRUE
  /\ UNCHANGED <<up, conns, message, owed, recipient, log, backlog, inbox, heard, seen, sent, sending>>

\* The find in _conns succeeds: only the event of a connection erases it.
HandleMessage(fd) ==
  /\ fd \in Filed
  /\ HandleLine(fd) \/ HandleClose(fd) \/ HandleReset(fd)

-----------------------------------------------------------------------------
(* The server: one sendn of TcpConnection::broadcast.                      *)

\* Faulty variant: the kernel takes whatever it is given.
AlwaysRoom(c) == TRUE

\* There is room in the buffers between the server and the client.
Room(c) == Unread(c) < OutBuffer

\* Faulty variant: an error does not end the wait for room.
WaitsForRoom(c) == Room(c)

\* send does not block: there is room, or an error to report.
SendReady(c) == Room(c) \/ link[c] # "open"

\* What send does to the other end.
Poked(state) == CASE state = "fin" -> "poked" [] state = "rst" -> "gone" [] OTHER -> state

\* sendn gives up at an error; a send after a known reset raises SIGPIPE, which
\* kills the server.
SendNext(fd) ==
  /\ up
  /\ fd \in owed /\ fd = recipient
  /\ LET c == conns[fd] IN
       /\ SendReady(c)
       /\ heard' = IF link[c] = "open" THEN [heard EXCEPT ![c] = Append(@, message)] ELSE heard
       /\ link' = [link EXCEPT ![c] = Poked(@)]
       /\ up' = (link[c] \notin {"pipe", "gone"})
  /\ owed' = owed \ {fd}
  /\ recipient' \in NextOf(owed \ {fd})
  /\ UNCHANGED <<stuck, todo, conns, message, log, backlog, inbox, seen, sent, sending>>

-----------------------------------------------------------------------------
Server == \/ EpollReturn
          \/ HandleNewConnection
          \/ \E fd \in Fds : HandleMessage(fd) \/ SendNext(fd)

ClientProgram(c) == up /\ (Reads(c) \/ SendReturns(c))
User(c) == up /\ (Connect(c) \/ Types(c) \/ Exits(c))

Next == Server \/ \E c \in Clients : ClientProgram(c) \/ User(c) \/ ResetArrives(c)

Spec == Init /\ [][Next]_vars

\* The programs run, and epoll reports a descriptor that stays ready; the users need
\* not do anything.
FairSpec == Spec /\ WF_vars(Server) /\ \A c \in Clients : WF_vars(ClientProgram(c))

-----------------------------------------------------------------------------
(***************************************************************************)
(* The types of the variables, and that the kernel's buffers hold no more  *)
(* than they can.                                                          *)
(***************************************************************************)
TypeOK ==
  /\ <<up, stuck>> \in BOOLEAN \X BOOLEAN
  /\ todo \subseteq Fds \cup {ListenFd}
  /\ conns \in [Fds -> Clients \cup {NoClient}]
  /\ message \in Line \cup {NoLine}
  /\ owed \subseteq Filed /\ recipient \in NextOf(owed)
  /\ backlog \in Seq(Clients)
  /\ link \in [Clients -> {"new", "open", "fin", "poked", "pipe", "rst", "gone"}]
  /\ log \in Seq(Line)
  /\ sending \in [Clients -> BOOLEAN]
  /\ \A c \in Clients :
       /\ inbox[c] \in Seq(Line) /\ Len(inbox[c]) <= InBuffer
       /\ heard[c] \in Seq(Line) /\ seen[c] \in 0 .. Len(heard[c]) /\ Unread(c) <= OutBuffer
       /\ sent[c] \in 0 .. Lines[c]

(***************************************************************************)
(* The abstract service: a member is a connection in _conns, deaf when the *)
(* client has exited, and has been through the log up to the line that is  *)
(* being broadcast if the loop of broadcast has still to come to it.       *)
(***************************************************************************)
Service == INSTANCE Broadcast
  WITH Members <- Clients,
       here <- Held,
       deaf <- {c \in Clients : link[c] \notin {"new", "open"}},
       at <- [c \in Clients |-> IF c \notin Held THEN 0
                                ELSE IF c \in {conns[fd] : fd \in owed} THEN Len(log) - 1
                                ELSE Len(log)]

(***************************************************************************)
(* The server is a chat service: all clients hear the same lines in the    *)
(* same order, each line once, nobody hears himself, and nobody who stays  *)
(* misses a line, whatever the order of the events, the exits and the      *)
(* reuse of descriptors.                                                   *)
(***************************************************************************)
ImplementsBroadcast == Service!Spec

(***************************************************************************)
(* Everyone waits on everyone: the server is in send to a client who is in *)
(* send to the server, and neither buffer has room.                        *)
(***************************************************************************)
Jam(fd) ==
  /\ fd \in owed /\ fd = recipient
  /\ sending[conns[fd]] /\ InboxFull(conns[fd])
  /\ ~SendReady(conns[fd])

Jammed == \E fd \in Fds : Jam(fd)

(***************************************************************************)
(* The server catches up.  In the end every line a client has got rid of   *)
(* has been read and sent to everybody, also when the client has exited    *)
(* since; no broadcast hangs, though it waits for each client in turn, and *)
(* nobody is starved by the others.  Only SIGPIPE, a jam or the endless    *)
(* readline after a reset can stop it, not a client that is slow, exits,   *)
(* or is sending while there is room.                                      *)
(***************************************************************************)
EveryLineSaid ==
  <>[](\/ /\ \A line \in Line :
               sent[line.from] >= line.num => \E i \in DOMAIN log : log[i] = line
          /\ ~Broadcasting
       \/ ~up \/ stuck \/ Jammed)
=============================================================================
