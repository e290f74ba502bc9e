------------------------------ MODULE ChatRoom ------------------------------
(***************************************************************************)
(* Epoll_Chat_Room: a server (Server.cpp) that passes what one client says *)
(* to all others, and clients (Client.cpp) that connect when their user    *)
(* types, and again after the server has dropped them.                     *)
(*                                                                         *)
(* The server is one thread: epoll_wait, then one event after the other,   *)
(* then the scan for idle clients.  Connections are edge-triggered and     *)
(* non-blocking.  Between any two of its system calls that meet the        *)
(* network, clients type, read, leave, and time passes.                    *)
(*                                                                         *)
(* Connections are numbered as they are made; which user makes one does    *)
(* not matter, and a user without one is one that may still connect.  The  *)
(* data are units: the n-th unit sent on connection c is <<c, n>>; recv    *)
(* may return several.                                                     *)
(***************************************************************************)
EXTENDS Integers, Sequences, SequencesExt, FiniteSetsExt

CONSTANTS Users,      \* how many people have a client
          MaxConns,   \* bound on the connections made
          MaxTyped,   \* bound on the units typed
          MaxClients, \* MAX_CLINTES
          Timeout,    \* TIMEOUT
          RecvUnits,  \* BUF_SIZE - 1: the units one recv can return
          SendBuffer  \* the units the kernel keeps for a client that does not read

ASSUME ChatRoomAssumption ==
  /\ Users \in Nat /\ MaxConns \in Nat /\ MaxTyped \in Nat /\ Timeout \in Nat
  /\ MaxClients \in Nat \ {0} /\ RecvUnits \in Nat \ {0} /\ SendBuffer \in Nat \ {0}

Conns == 1 .. MaxConns
None == 0

\* Descriptors: the listening one, and enough for all clients and one more, which
\* accept opens before add_client finds the array full.
Listen == 0
Fds == 1 .. MaxClients + 1

VARIABLES up,      \* the server process is alive
          pc,      \* it is in: wait (epoll_wait), dispatch or recv
          todo,    \* what is left of events: fd, hup, and as history the connection
          clients, \* clients[0 .. client_count - 1]: fd, and now - last_active
          owner,   \* the connection an open descriptor stands for
          edge,    \* the descriptors epoll has news of
          backlog, \* connections that are waiting for accept
          link,    \* the client's end of a connection, as the server's kernel knows it
          sentN,   \* how many units the client has sent
          readN,   \* how many of them the server has received
          heard,   \* the units the kernel has accepted for the client
          seen,    \* how many of these the client has received
          inUse,   \* the connections that are the client_fd of a client
          made,    \* how many connections have been made
          typed,   \* how many units have been typed
          dropped  \* history: the connections on which a send came back short

program == <<up, pc, todo, clients, owner>>
data == <<sentN, readN, heard, seen, dropped>>
vars == <<program, edge, backlog, link, data, inUse, made, typed>>

Init ==
  /\ up = TRUE
  /\ pc = "wait"
  /\ todo = <<>>
  /\ clients = <<>>
  /\ owner = [f \in Fds |-> None]
  /\ edge = {}
  /\ backlog = <<>>
  /\ link = [c \in Conns |-> "open"]
  /\ sentN = [c \in Conns |-> 0]
  /\ readN = [c \in Conns |-> 0]
  /\ heard = [c \in Conns |-> <<>>]
  /\ seen = [c \in Conns |-> 0]
  /\ inUse = {}
  /\ made = 0
  /\ typed = 0
  /\ dropped = {}

FdsOf(c) == {f \in Fds : owner[f] = c}
Waiting(c) == c \in ToSet(backlog)

\* The server has closed connection c, or died.
Closed(c) == c <= made /\ (~up \/ (FdsOf(c) = {} /\ ~Waiting(c)))

-----------------------------------------------------------------------------
(* Clients.                                                                *)

Sends(c, n) ==
  /\ typed + n <= MaxTyped
  /\ typed' = typed + n
  /\ sentN' = [sentN EXCEPT ![c] = @ + n]

\* A user types who has no connection: connect, then send.  An empty line connects
\* and sends nothing.
ConnectAndSend(n) ==
  /\ Cardinality(inUse) < Users
  /\ up
  /\ made < MaxConns
  /\ Len(backlog) < MaxClients
  /\ made' = made + 1
  /\ inUse' = inUse \cup {made + 1}
  /\ backlog' = Append(backlog, made + 1)
  /\ Sends(made + 1, n)
  /\ UNCHANGED <<program, edge, link, readN, heard, seen, dropped>>

\* A user types who is connected.
SendLine(c) ==
  /\ c \in inUse
  /\ ~Closed(c)
  /\ Sends(c, 1)
  /\ edge' = edge \cup FdsOf(c)
  /\ UNCHANGED <<program, backlog, link, readN, heard, seen, dropped, inUse, made>>

\* close(client_fd); client_fd = -1, when the server has closed the connection: send
\* fails, or recv returns 0.  (A send that does not fail yet loses its line.)
NoticesEnd(c) ==
  /\ c \in inUse
  /\ Closed(c)
  /\ inUse' = inUse \ {c}
  /\ UNCHANGED <<program, edge, backlog, link, data, made, typed>>

Reads(c) ==
  /\ c \in inUse
  /\ seen[c] < Len(heard[c])
  /\ seen' = [seen EXCEPT ![c] = Len(heard[c])]
  /\ UNCHANGED <<program, edge, backlog, link, sentN, readN, heard, dropped, inUse, made, typed>>

\* The client exits.  Its kernel sends a reset if there is something unread.
Exits(c) ==
  /\ c \in inUse
  /\ ~Closed(c)
  /\ link' = [link EXCEPT ![c] = IF seen[c] < Len(heard[c]) THEN "rst" ELSE "fin"]
  /\ edge' = edge \cup FdsOf(c)
  /\ inUse' = inUse \ {c}
  /\ UNCHANGED <<program, backlog, data, made, typed>>

-----------------------------------------------------------------------------
(* The network, and time.                                                  *)

\* A closed client answers what it is sent with a reset.
ResetArrives(c) ==
  /\ link[c] = "poked"
  /\ link' = [link EXCEPT ![c] = "pipe"]
  /\ edge' = edge \cup FdsOf(c)
  /\ UNCHANGED <<program, backlog, data, inUse, made, typed>>

\* A second passes.  Beyond Timeout + 1 the idle times need not be told apart.
Tick ==
  /\ up
  /\ \E i \in DOMAIN clients : clients[i].idle <= Timeout
  /\ clients' = [i \in DOMAIN clients |->
       [clients[i] EXCEPT !.idle = IF @ <= Timeout THEN @ + 1 ELSE @]]
  /\ UNCHANGED <<up, pc, todo, owner, edge, backlog, link, data, inUse, made, typed>>

-----------------------------------------------------------------------------
(* The server: its client array.                                           *)

\* Faulty variant: the last element is not moved.
CutRemove(array, i) == SubSeq(array, 1, Len(array) - 1)

\* clients[i] = clients[client_count - 1]; client_count--
Without(array, i) == SubSeq([array EXCEPT ![i] = Last(array)], 1, Len(array) - 1)

\* remove_client: nothing happens when fd is not in the array.
RemoveClient(fd) ==
  LET I == {i \in DOMAIN clients : clients[i].fd = fd}
  IN /\ clients' = IF I = {} THEN clients ELSE Without(clients, Min(I))
     /\ owner' = IF I = {} THEN owner ELSE [owner EXCEPT ![fd] = None]
     /\ edge' = IF I = {} THEN edge ELSE edge \ {fd}

\* Faulty variant: front to back.
ScanForward(n) == [k \in 1 .. n |-> k]

\* The order in which check_timeout_clients visits n clients.
ScanOrder(n) == [k \in 1 .. n |-> n + 1 - k]

KickIfIdle(array, i) ==
  IF i \in DOMAIN array /\ array[i].idle > Timeout THEN Without(array, i) ELSE array

FdsIn(array) == {array[i].fd : i \in DOMAIN array}

\* Faulty variant: the scan may come before the last event.
ScanDueEarly == TRUE

\* The for over the events has ended.
ScanDue == todo = <<>>

\* check_timeout_clients, after the last event; then epoll_wait again.
CheckTimeouts ==
  /\ up
  /\ pc = "dispatch"
  /\ ScanDue
  /\ pc' = "wait"
  /\ clients' = FoldLeft(KickIfIdle, clients, ScanOrder(Len(clients)))
  /\ LET kicked == FdsIn(clients) \ FdsIn(clients')
     IN /\ owner' = [f \in Fds |-> IF f \in kicked THEN None ELSE owner[f]]
        /\ edge' = edge \ kicked
  /\ UNCHANGED <<up, todo, backlog, link, data, inUse, made, typed>>

-----------------------------------------------------------------------------
(* The server: events.                                                     *)

\* Faulty variant: EPOLLRDHUP is taken for an error, too.
HasHupRdhup(c) == link[c] # "open"

HasHup(c) == link[c] \in {"rst", "pipe", "gone"}

EventOf(f) ==
  IF f = Listen THEN [fd |-> f, hup |-> FALSE, conn |-> None]
  ELSE [fd |-> f, hup |-> HasHup(owner[f]), conn |-> owner[f]]

\* epoll_wait returns everything that is ready, in any order, or nothing after a
\* second.
EpollWait ==
  /\ up
  /\ pc = "wait"
  /\ LET ready == edge \cup (IF backlog = <<>> THEN {} ELSE {Listen})
     IN \E order \in SetToSeqs(ready) : todo' = [k \in DOMAIN order |-> EventOf(order[k])]
  /\ edge' = {}
  /\ pc' = "dispatch"
  /\ UNCHANGED <<up, clients, owner, backlog, link, data, inUse, made, typed>>

Dispatching == up /\ pc = "dispatch" /\ todo # <<>>

\* EPOLLERR or EPOLLHUP.
HandleError ==
  /\ Dispatching
  /\ Head(todo).hup
  /\ RemoveClient(Head(todo).fd)
  /\ todo' = Tail(todo)
  /\ UNCHANGED <<up, pc, backlog, link, data, inUse, made, typed>>

\* Faulty variant: only what comes later counts.
NewsAtAddNever(c) == FALSE

\* epoll has news of a descriptor that is added to it.
NewsAtAdd(c) == sentN[c] > 0 \/ link[c] # "open"

\* accept, then add_client, which closes the descriptor when the array is full.
HandleAccept ==
  /\ Dispatching
  /\ Head(todo).fd = Listen
  /\ LET c == Head(backlog)
         fd == Min(FdsOf(None))
     IN IF Len(clients) < MaxClients
        THEN /\ clients' = Append(clients, [fd |-> fd, idle |-> 0])
             /\ owner' = [owner EXCEPT ![fd] = c]
             /\ edge' = IF NewsAtAdd(c) THEN edge \cup {fd} ELSE edge
        ELSE UNCHANGED <<clients, owner, edge>>
  /\ backlog' = Tail(backlog)
  /\ todo' = Tail(todo)
  /\ UNCHANGED <<up, pc, link, data, inUse, made, typed>>

HandleReadable ==
  /\ Dispatching
  /\ Head(todo).fd # Listen
  /\ ~Head(todo).hup
  /\ pc' = "recv"
  /\ UNCHANGED <<up, todo, clients, owner, edge, backlog, link, data, inUse, made, typed>>

-----------------------------------------------------------------------------
(* The server: the loop over recv, and broadcast_message.                  *)

Receiving == up /\ pc = "recv"
Fd == Head(todo).fd
Speaker == owner[Fd]
Unread(c) == sentN[c] - readN[c]

\* Faulty variant: the sender is not left out.
OthersAndSelf == {owner[f] : f \in FdsIn(clients)}

\* Whom broadcast_message sends to.
Others == {owner[f] : f \in FdsIn(clients) \ {Fd}}

Room(c) == SendBuffer - (Len(heard[c]) - seen[c])

\* Faulty variant: the whole buffer counts as received.
ChunkWhole(c) == RecvUnits

\* The result of recv.
Chunk(c) == Min({RecvUnits, Unread(c)})

\* What send does to the other end.
Poked(state) == CASE state = "fin" -> "poked" [] state = "rst" -> "gone" [] OTHER -> state

\* Faulty variant: the string ends after the first unit.
MessageCut(n) == [k \in 1 .. Min({n, 1}) |-> <<Speaker, readN[Speaker] + k>>]

\* What broadcast_message is given when recv has returned n units: a string, which holds
\* all of them, as clients send no NUL.
Message(n) == [k \in 1 .. n |-> <<Speaker, readN[Speaker] + k>>]

\* send raises SIGPIPE, which kills the server, when the reset of the connection is known.
Fatal(c) == link[c] \in {"pipe", "gone"}

\* Whom the loop of broadcast_message comes to: it ends with the first fatal send.
Reached ==
  {c \in Others : \A i, j \in DOMAIN clients :
     i < j /\ clients[i].fd # Fd /\ owner[clients[j].fd] = c => ~Fatal(owner[clients[i].fd])}

\* recv returns up to RecvUnits units, the client counts as active, and each other
\* client is sent them; a send on a non-blocking socket is cut to what fits.
RecvData ==
  /\ Receiving
  /\ Unread(Speaker) > 0
  /\ LET n == Chunk(Speaker)
         message == Message(n)
         fits(c) == Min({Len(message), Room(c)})
     IN /\ readN' = [readN EXCEPT ![Speaker] = @ + n]
        /\ heard' = [c \in Conns |-> IF c \in Reached /\ link[c] = "open"
                                     THEN heard[c] \o SubSeq(message, 1, fits(c)) ELSE heard[c]]
        /\ dropped' = dropped \cup {c \in Reached : link[c] = "open" /\ fits(c) < Len(message)}
  /\ clients' = [i \in DOMAIN clients |->
       IF clients[i].fd = Fd THEN [clients[i] EXCEPT !.idle = 0] ELSE clients[i]]
  /\ link' = [c \in Conns |-> IF c \in Reached THEN Poked(link[c]) ELSE link[c]]
  /\ up' = (\A c \in Others : ~Fatal(c))
  /\ UNCHANGED <<pc, todo, owner, edge, backlog, sentN, seen, inUse, made, typed>>

\* recv returns 0 or an error other than EAGAIN.
RecvEnd ==
  /\ Receiving
  /\ Unread(Speaker) = 0
  /\ link[Speaker] # "open"
  /\ RemoveClient(Fd)
  /\ todo' = Tail(todo)
  /\ pc' = "dispatch"
  /\ UNCHANGED <<up, backlog, link, data, inUse, made, typed>>

\* Faulty variant: the loop ends after the first recv.
MayStopEarly(c) == TRUE

\* EAGAIN: everything has been read.
MayStop(c) == Unread(c) = 0 /\ link[c] = "open"

RecvAgain ==
  /\ Receiving
  /\ MayStop(Speaker)
  /\ todo' = Tail(todo)
  /\ pc' = "dispatch"
  /\ UNCHANGED <<up, clients, owner, edge, backlog, link, data, inUse, made, typed>>

-----------------------------------------------------------------------------
Server == EpollWait \/ HandleError \/ HandleAccept \/ HandleReadable
          \/ RecvData \/ RecvEnd \/ RecvAgain \/ CheckTimeouts

Client(c) == SendLine(c) \/ NoticesEnd(c) \/ Reads(c) \/ Exits(c)

Next == \/ Server
        \/ \E n \in {0, 1} : ConnectAndSend(n)
        \/ \E c \in Conns : Client(c) \/ ResetArrives(c)
        \/ Tick

Spec == Init /\ [][Next]_vars

\* epoll_wait returns within a second and nothing else in the server waits.  Nothing
\* is asked of the clock: what must happen may not depend on a client being kicked.
FairSpec == Spec /\ WF_vars(Server)

-----------------------------------------------------------------------------
(* Correctness.                                                            *)

\* The types of the variables.
TypeOK ==
  /\ up \in BOOLEAN
  /\ pc \in {"wait", "dispatch", "recv"}
  /\ pc = "recv" => todo # <<>>
  /\ \A i \in DOMAIN todo : todo[i] \in [fd : Fds \cup {Listen}, hup : BOOLEAN, conn : Conns \cup {None}]
  /\ \A i \in DOMAIN clients : clients[i] \in [fd : Fds, idle : 0 .. Timeout + 1]
  /\ owner \in [Fds -> Conns \cup {None}]
  /\ edge \subseteq Fds
  /\ link \in [Conns -> {"open", "fin", "poked", "pipe", "rst", "gone"}]
  /\ \A c \in Conns : readN[c] <= sentN[c] /\ seen[c] <= Len(heard[c])
  /\ inUse \subseteq 1 .. made

\* The client array, the open descriptors and their connections agree through every
\* order of joining, leaving, kicking and reuse of descriptor numbers: no client is
\* listed twice, none has a closed descriptor, no descriptor is left open.
ArrayMatches ==
  /\ Len(clients) <= MaxClients
  /\ \A i, j \in DOMAIN clients : clients[i].fd = clients[j].fd => i = j
  /\ FdsIn(clients) = {f \in Fds : owner[f] # None}
  /\ \A f, g \in FdsIn(clients) : owner[f] = owner[g] => f = g

\* An event that is still to be handled is about the connection it was reported
\* for, though handling the events before it closes and accepts connections.
BatchFresh ==
  \A i \in DOMAIN todo : todo[i].fd # Listen => owner[todo[i].fd] = todo[i].conn

\* Edge-triggered reading loses no wakeup: while a client has units to be read or
\* has left, epoll has news of it, or its event is being handled or still to be.
NewsNotLost ==
  \A f \in FdsIn(clients) :
    Unread(owner[f]) > 0 \/ link[owner[f]] # "open" =>
      f \in edge \/ \E i \in DOMAIN todo : todo[i].fd = f

\* A reset has come from the client.
HasReset(c) == link[c] \in {"rst", "pipe", "gone"}

HeardUnits(c) == ToSet(heard[c])

\* Nobody hears himself, and what a client hears of another is a gapless part of
\* what that one said, in order, unless a send to the client came back short.
HearsGapless ==
  \A c \in Conns : \A i, j \in DOMAIN heard[c] :
    /\ heard[c][i][1] # c
    /\ i < j /\ heard[c][i][1] = heard[c][j][1] =>
         /\ heard[c][i][2] < heard[c][j][2]
         /\ c \notin dropped =>
              \A n \in heard[c][i][2] .. heard[c][j][2] : <<heard[c][i][1], n>> \in HeardUnits(c)

\* When the scan is over, the clients that are left are exactly those that were not
\* idle too long: the element swapped into a freed place is not missed, and no
\* other one is thrown out.
ScanExact ==
  [][pc = "dispatch" /\ pc' = "wait" =>
       FdsIn(clients') = {clients[i].fd : i \in {j \in DOMAIN clients : clients[j].idle <= Timeout}}]_vars

\* The server closes a connection with text of the client unread only when a reset has
\* come from the client, when the room is full as the connection is accepted, or when
\* the client has been idle too long: not because the client has left after its last
\* words, and not because of an event of another connection.
ReadBeforeClosed ==
  [][\A c \in Conns : ~Closed(c) /\ Closed(c)' /\ up' /\ Unread(c) > 0 =>
       \/ HasReset(c)
       \/ Waiting(c) /\ Len(clients) = MaxClients
       \/ \E i \in DOMAIN clients : owner[clients[i].fd] = c /\ clients[i].idle > Timeout]_vars

\* Nobody waits for ever for the server, in its backlog or in its array: in the end each
\* connection is read up to what has been sent on it, with the client still there, or
\* closed, at the latest by the death of the server.  (Clients make finitely many
\* connections and say finitely many things.)  ReadBeforeClosed says when a connection
\* may be closed before it has been read.
EverybodyServed ==
  []<>(\A c \in 1 .. made : (Unread(c) = 0 /\ link[c] = "open") \/ Closed(c))

=============================================================================
