----------------------------- MODULE EchoServer ------------------------------
(***************************************************************************)
(* The echo server of Reactor_Version5.0, and of 4.0 (Server_Main.cpp,     *)
(* EventLoop.cpp, TcpConnection.cpp): an I/O thread that accepts, reads    *)
(* lines, hands each to the thread pool as a task and sends what the tasks *)
(* post back; the pool's workers; and the clients at the other end of the  *)
(* sockets.                                                                *)
(*                                                                         *)
(* It composes EventLoop (extended: the workers are its callers) with      *)
(* TaskPool (an instance: Threadpool.tla shows that the pool behaves so).  *)
(* A client connects once, so it also stands for its TcpConnection object  *)
(* and its socket.  The object lives while a shared_ptr to it exists: in   *)
(* _conns, in the task being added, in the queue or in a worker's hands.   *)
(* A functor holds a raw pointer.  Clients send whole lines, and a line    *)
(* goes into a buffer as a whole.  send blocks while the buffers between   *)
(* the server and a client who stays are full.                             *)
(***************************************************************************)
EXTENDS EventLoop, FiniteSetsExt

CONSTANTS Clients,
          Hasty,     \* the clients that may close before their echoes come
          Lines,     \* bound: the lines each client sends
          OutBuffer, \* the lines the server can send ahead of a client
          Fds,       \* the numbers accept may return
          ListenFd,
          QueSize,
          NoClient,
          NoTask

Workers == Callers
Line == UNION {[conn : {c}, num : 1..Lines[c]] : c \in Clients}

ASSUME EchoServerAssumption ==
  /\ Hasty \subseteq Clients
  /\ Lines \in [Clients -> Nat]
  /\ OutBuffer \in Nat \ {0}
  /\ Fds \subseteq Nat
  /\ ListenFd \notin Fds /\ OtherFds = Fds \cup {ListenFd}
  /\ Functor = Line
  /\ NoClient \notin Clients /\ NoTask \notin Line

VARIABLES peer,      \* the client's end, as its socket here knows it
          sent,      \* how many lines each client has sent
          inbox,     \* the receive buffer of each socket
          echoes,    \* the lines the kernel has taken for each client
          seen,      \* how many of these the client has received
          backlog,   \* connections established and not yet accepted
          conns,     \* _conns; its keys are also what epoll watches
          fdOf,      \* _fd of each TcpConnection
          adding,    \* the task onMessage is adding to the pool
          que, job,  \* the pool: waiting tasks, the task of each worker
          killed,    \* the process has died
          stuck,     \* the I/O thread loops forever in readline
          dangling   \* history: a functor was run after its connection died

clientVars == <<peer, sent, inbox, echoes, seen, backlog>>
connVars == <<conns, fdOf, adding>>
workVars == <<que, job>>
fateVars == <<killed, stuck, dangling>>
serverVars == <<loopVars, clientVars, connVars, workVars, fateVars>>

Pool == INSTANCE TaskPool
  WITH Workers <- Workers, Capacity <- QueSize, Task <- Line, pending <- que,
       running <- job, submitted <- {}, done <- {}, stopped <- FALSE

Init ==
  /\ LoopInit
  /\ peer = [c \in Clients |-> "new"]
  /\ sent = [c \in Clients |-> 0]
  /\ inbox = [c \in Clients |-> <<>>]
  /\ echoes = [c \in Clients |-> <<>>]
  /\ seen = [c \in Clients |-> 0]
  /\ backlog = <<>>
  /\ conns = [fd \in Fds |-> NoClient]
  /\ fdOf = [c \in Clients |-> 0]
  /\ adding = NoTask
  /\ que = <<>>
  /\ job = [w \in Workers |-> NoTask]
  /\ killed = FALSE /\ stuck = FALSE /\ dangling = FALSE

\* The tasks that exist, each with a shared_ptr to its connection.
Tasks == ({adding} \cup {que[i] : i \in 1..Len(que)} \cup {job[w] : w \in Workers})
         \ {NoTask}

\* Faulty variant: the object dies when it leaves _conns.
Held == {conns[fd] : fd \in Fds} \ {NoClient}
LiveWhileFiled == Held

Unread(c) == Len(echoes[c]) - seen[c]

\* The connections whose object exists.
Live == Held \cup {task.conn : task \in Tasks}

-----------------------------------------------------------------------------
(***************************************************************************)
(* The clients.  peer goes from new to open; then "fin" when the client    *)
(* closes, "finrst" when its kernel has answered what came later with a    *)
(* reset; or "rst" when it closes with unread data, which resets the       *)
(* connection at once, "done" when the pending error has been reported.    *)
(* Nobody has to read.                                                     *)
(***************************************************************************)
Connect(c) ==
  /\ peer[c] = "new"
  /\ peer' = [peer EXCEPT ![c] = "open"]
  /\ backlog' = Append(backlog, c)
  /\ UNCHANGED <<sent, inbox, echoes, seen, loopVars, connVars, workVars, fateVars>>

SendLine(c) ==
  /\ peer[c] = "open"
  /\ sent[c] < Lines[c]
  /\ sent' = [sent EXCEPT ![c] = @ + 1]
  /\ inbox' = [inbox EXCEPT ![c] = Append(@, [conn |-> c, num |-> sent'[c]])]
  /\ UNCHANGED <<peer, echoes, seen, backlog, loopVars, connVars, workVars, fateVars>>

\* One recv may return several lines.
Reads(c) ==
  /\ peer[c] = "open"
  /\ \E n \in 1..Unread(c) : seen' = [seen EXCEPT ![c] = @ + n]
  /\ UNCHANGED <<peer, sent, inbox, echoes, backlog, loopVars, connVars, workVars, fateVars>>

\* What has come and is unread makes the client's kernel send a reset in place of the
\* FIN; what comes after the FIN is answered with one.
CloseClient(c) ==
  /\ peer[c] = "open"
  /\ c \in Hasty \/ (sent[c] = Lines[c] /\ seen[c] = sent[c])
  /\ \E how \in (IF Unread(c) = 0 THEN {"fin"} ELSE {"fin", "finrst", "rst"}) :
       peer' = [peer EXCEPT ![c] = how]
  /\ UNCHANGED <<sent, inbox, echoes, seen, backlog, loopVars, connVars, workVars, fateVars>>

-----------------------------------------------------------------------------
(* The I/O thread; it is free unless it is blocked in addTask or stuck.    *)

IoFree == adding = NoTask /\ ~stuck /\ ~killed

\* The steps of the event loop that touch no connection.
LoopOnly(A) == A /\ UNCHANGED <<clientVars, connVars, workVars, fateVars>>

Readable(c) == inbox[c] # <<>> \/ peer[c] # "open"

\* Faulty variant: EPOLL_CTL_DEL is forgotten when a connection is erased.
ReadyFdsNotDeleted == {fdOf[c] : c \in {d \in Live : Readable(d)}}
                      \cup (IF backlog = <<>> THEN {} ELSE {ListenFd})

ReadyFds == {fd \in Fds : conns[fd] # NoClient /\ Readable(conns[fd])}
            \cup (IF backlog = <<>> THEN {} ELSE {ListenFd})

FreeFds == Fds \ {fdOf[c] : c \in Live}

\* accept takes the lowest free number; unordered_map::insert does nothing if
\* the key is there.
HandleNewConnection ==
  /\ HandleOther(ListenFd)
  /\ FreeFds # {}
  /\ LET fd == Min(FreeFds) IN
       /\ fdOf' = [fdOf EXCEPT ![Head(backlog)] = fd]
       /\ conns' = IF conns[fd] = NoClient
                     THEN [conns EXCEPT ![fd] = Head(backlog)] ELSE conns
  /\ backlog' = Tail(backlog)
  /\ UNCHANGED <<peer, sent, inbox, echoes, seen, adding, workVars, fateVars>>

\* Faulty variant: the listening socket is given up with the failed accept.
AcceptFailsOnce ==
  /\ HandleOther(ListenFd)
  /\ FreeFds = {}
  /\ backlog' = <<>>
  /\ UNCHANGED <<peer, sent, inbox, echoes, seen, connVars, workVars, fateVars>>

\* accept returns -1 and leaves the client waiting.  epoll refuses the -1, and
\* nothing ever names the connection filed under it in _conns.
HandleAcceptFails ==
  /\ FreeFds = {}
  /\ LoopOnly(HandleOther(ListenFd))

\* Faulty variant: the connection is dropped after one request.
HandleLineClose(fd) ==
  /\ HandleOther(fd)
  /\ inbox[conns[fd]] # <<>>
  /\ adding' = Head(inbox[conns[fd]])
  /\ inbox' = [inbox EXCEPT ![conns[fd]] = Tail(@)]
  /\ conns' = [conns EXCEPT ![fd] = NoClient]
  /\ UNCHANGED <<peer, sent, echoes, seen, backlog, fdOf, workVars, fateVars>>

\* isClosed is false and readline takes one line.
HandleLine(fd) ==
  /\ HandleOther(fd)
  /\ inbox[conns[fd]] # <<>>
  /\ adding' = Head(inbox[conns[fd]])
  /\ inbox' = [inbox EXCEPT ![conns[fd]] = Tail(@)]
  /\ UNCHANGED <<peer, sent, echoes, seen, backlog, conns, fdOf, workVars, fateVars>>

\* Faulty variant: the connection stays in _conns.
HandleCloseKeep(fd) ==
  /\ LoopOnly(HandleOther(fd))
  /\ inbox[conns[fd]] = <<>>
  /\ peer[conns[fd]] \in {"fin", "finrst", "done"}

\* isClosed peeks 0 bytes.
HandleClose(fd) ==
  /\ HandleOther(fd)
  /\ inbox[conns[fd]] = <<>>
  /\ peer[conns[fd]] \in {"fin", "finrst", "done"}
  /\ conns' = [conns EXCEPT ![fd] = NoClient]
  /\ UNCHANGED <<clientVars, fdOf, adding, workVars, fateVars>>

\* isClosed peeks -1, which it takes for an open connection; readline then
\* peeks 0 bytes for ever.
HandleReset(fd) ==
  /\ HandleOther(fd)
  /\ inbox[conns[fd]] = <<>>
  /\ peer[conns[fd]] = "rst"
  /\ peer' = [peer EXCEPT ![conns[fd]] = "done"]
  /\ stuck' = TRUE
  /\ UNCHANGED <<sent, inbox, echoes, seen, backlog, connVars, workVars, killed, dangling>>

\* The find in _conns succeeds (BatchFresh).
HandleMessage(fd) ==
  /\ conns[fd] # NoClient
  /\ HandleLine(fd) \/ HandleClose(fd) \/ HandleReset(fd)

\* Faulty variant: a task that finds the queue full is dropped.
AddTaskOrDrop ==
  /\ adding # NoTask
  /\ que' = IF Len(que) < QueSize THEN Append(que, adding) ELSE que
  /\ adding' = NoTask
  /\ UNCHANGED <<loopVars, clientVars, conns, fdOf, job, fateVars>>

AddTask ==
  /\ adding # NoTask
  /\ Pool!Enqueue(adding)
  /\ adding' = NoTask
  /\ UNCHANGED <<loopVars, clientVars, conns, fdOf, job, fateVars>>

\* There is room in the buffers between the server and c.
Room(c) == Unread(c) < OutBuffer

\* Faulty variant: that the client has read something does not end the wait for room.
SendReadyOnce(c) == Len(echoes[c]) < OutBuffer \/ peer[c] # "open"

\* send does not block: there is room, or an end to report.
SendReady(c) == Room(c) \/ peer[c] # "open"

\* sendn on the socket of c; without MSG_NOSIGNAL a broken pipe is fatal.
Send(c, line) ==
  /\ SendReady(c)
  /\ \/ /\ peer[c] = "open"
        /\ echoes' = [echoes EXCEPT ![c] = Append(@, line)]
        /\ UNCHANGED <<peer, killed>>
     \/ /\ peer[c] = "fin"
        /\ \E next \in {"fin", "finrst"} : peer' = [peer EXCEPT ![c] = next]
        /\ UNCHANGED <<echoes, killed>>
     \/ /\ peer[c] = "rst"
        /\ peer' = [peer EXCEPT ![c] = "done"]
        /\ UNCHANGED <<echoes, killed>>
     \/ /\ peer[c] \in {"finrst", "done"}
        /\ killed' = TRUE
        /\ UNCHANGED <<echoes, peer>>

\* The functor calls send on the descriptor of its connection.  If the object has been
\* destroyed the descriptor it reads may be any: that of another socket, or none; or
\* the access faults.
RunSend ==
  /\ RunFunctor
  /\ LET line == Head(batch) IN
       \/ /\ line.conn \in Live
          /\ \E c \in Live : fdOf[c] = fdOf[line.conn] /\ Send(c, line)
          /\ UNCHANGED dangling
       \/ /\ line.conn \notin Live
          /\ dangling' = TRUE
          /\ \/ \E c \in Live : Send(c, line)
             \/ killed' \in BOOLEAN /\ UNCHANGED <<peer, echoes>>
  /\ UNCHANGED <<sent, inbox, seen, backlog, connVars, workVars, stuck>>

IoThread ==
  \/ ~killed /\ AddTask
  \/ /\ IoFree
     /\ \/ LoopOnly(Start \/ LoopBegin \/ LoopTest \/ EpollReturn(ReadyFds))
        \/ LoopOnly(HandleReadEvent \/ SwapFunctors \/ FunctorsDone \/ BatchDone)
        \/ HandleNewConnection \/ HandleAcceptFails
        \/ \E fd \in Fds : HandleMessage(fd)
        \/ RunSend

-----------------------------------------------------------------------------
(* The workers: take a task, run MyTask::process, destroy the task.        *)

TakeTask(w) ==
  /\ Pool!Dequeue(w)
  /\ UNCHANGED <<loopVars, clientVars, connVars, fateVars>>

Process(w) ==
  /\ job[w] # NoTask
  /\ LoopOnly(PushFunctor(w, job[w]))

FinishTask(w) ==
  /\ RunInLoopReturn(w)
  /\ Pool!Release(w)
  /\ UNCHANGED <<clientVars, connVars, que, fateVars>>

Worker(w) ==
  /\ ~killed
  /\ TakeTask(w) \/ Process(w) \/ LoopOnly(Wakeup(w)) \/ FinishTask(w)

Client(c) ==
  /\ ~killed
  /\ Connect(c) \/ SendLine(c) \/ Reads(c) \/ CloseClient(c)

Next ==
  \/ IoThread
  \/ \E w \in Workers : Worker(w)
  \/ \E c \in Clients : Client(c)

Spec == Init /\ [][Next]_serverVars

\* The threads of the server keep running, but for their waits; the clients need not do
\* anything, so one of them may keep the I/O thread in send.
Fairness ==
  /\ WF_serverVars(IoThread)
  /\ \A w \in Workers : WF_serverVars(Worker(w))

FairSpec == Spec /\ Fairness

-----------------------------------------------------------------------------
PeerStates == {"new", "open", "fin", "finrst", "rst", "done"}

\* The types of the server's variables.
TypeOK ==
  /\ LoopTypeOK
  /\ peer \in [Clients -> PeerStates]
  /\ sent \in [Clients -> Nat]
  /\ inbox \in [Clients -> Seq(Line)]
  /\ echoes \in [Clients -> Seq(Line)]
  /\ seen \in [Clients -> Nat] /\ \A c \in Clients : Unread(c) \in 0..OutBuffer
  /\ backlog \in Seq(Clients)
  /\ conns \in [Fds -> Clients \cup {NoClient}]
  /\ fdOf \in [Clients -> Fds \cup {0}]
  /\ adding \in Line \cup {NoTask}
  /\ que \in Seq(Line)
  /\ job \in [Workers -> Line \cup {NoTask}]
  /\ <<killed, stuck, dangling>> \in BOOLEAN \X BOOLEAN \X BOOLEAN

(***************************************************************************)
(* A client gets back its own lines, each at most once, whatever the       *)
(* workers, the other clients and the reuse of descriptor numbers do; as   *)
(* long as no functor has outlived its connection.                         *)
(***************************************************************************)
EchoIntegrity ==
  ~dangling =>
    \A c \in Clients : \A i \in 1..Len(echoes[c]) :
      /\ echoes[c][i] \in [conn : {c}, num : 1..sent[c]]
      /\ \A j \in 1..(i - 1) : echoes[c][j] # echoes[c][i]

(***************************************************************************)
(* A descriptor number belongs to one connection: accept can return it     *)
(* again only when no task holds the old connection, so a late echo does   *)
(* not go to a newcomer, and _conns files every connection under its own.  *)
(***************************************************************************)
FdsUnique ==
  /\ \A c, d \in Held \cup {task.conn : task \in Tasks} : fdOf[c] = fdOf[d] => c = d
  /\ \A fd \in Fds : conns[fd] # NoClient => fdOf[conns[fd]] = fd

(***************************************************************************)
(* The rest of a batch of epoll events stays valid while its first events  *)
(* are handled: none of its descriptors has been closed or reused.         *)
(***************************************************************************)
BatchFresh == \A fd \in todo \cap Fds : conns[fd] # NoClient /\ Readable(conns[fd])

\* c has closed its end without waiting for all its echoes.
Impatient(c) == peer[c] \notin {"new", "open"} /\ seen[c] < sent[c]

\* The process or its I/O thread is lost, or memory has been corrupted.
Ruined == killed \/ stuck \/ dangling

(***************************************************************************)
(* As long as every client that closes has waited for its echoes, no       *)
(* functor outlives its connection, no send breaks a pipe, and the I/O     *)
(* thread does not get stuck.                                              *)
(***************************************************************************)
PatientSafe == Ruined => \E c \in Clients : Impatient(c)

\* c waits to be accepted, and clients that stay have all the descriptors.
Crowded(c) ==
  /\ \E i \in 1..Len(backlog) : backlog[i] = c
  /\ \A fd \in Fds : conns[fd] # NoClient /\ peer[conns[fd]] = "open"

Echoed(line) == \E i \in 1..Len(echoes[line.conn]) : echoes[line.conn][i] = line

\* The I/O thread is in send to c, who stays and has not read what came before.
WaitsFor(c) ==
  /\ ~killed
  /\ batch # <<>> /\ c = Head(batch).conn
  /\ c \in Live /\ peer[c] = "open" /\ ~Room(c)

(***************************************************************************)
(* The server catches up.  Every line of a client that waits is echoed,    *)
(* also when the task queue is full and the I/O thread itself blocks on    *)
(* it, and when accept has failed for want of a descriptor and somebody    *)
(* has left since; and the connection of every client that has gone is     *)
(* released, so that its descriptor can be used again.  Only a client who  *)
(* stays and stops to read with its buffers full can prevent it, by        *)
(* keeping the I/O thread in send for ever.  (Clients send finitely many   *)
(* lines.)                                                                 *)
(***************************************************************************)
CatchesUp ==
  \/ \E c \in Clients : <>[]WaitsFor(c)
  \/ []<>(\/ Ruined
          \/ /\ \A c \in Clients \ Hasty :
                  Crowded(c) \/ \A n \in 1..sent[c] : Echoed([conn |-> c, num |-> n])
             /\ \A c \in Live : peer[c] = "open")

(***************************************************************************)
(* What EventLoop.hpp:30 says of run_in_loop: a functor is submitted       *)
(* safely to the I/O thread, so its connection exists when it runs.        *)
(***************************************************************************)
FunctorsSafe == ~dangling

(***************************************************************************)
(* What TcpConnection.hpp:44 says of isClosed, that it tells whether the   *)
(* connection is closed: no handler reads from a connection that is gone.  *)
(***************************************************************************)
ClosedNoticed == ~stuck
=============================================================================
