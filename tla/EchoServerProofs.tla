--------------------------- MODULE EchoServerProofs ---------------------------
(***************************************************************************)
(* Proofs about EventLoop and EchoServer, for any clients, workers, lines, *)
(* descriptors and queue size.  First the event loop by itself, for any    *)
(* callers and functors.  Every step of the server is a step of EventLoop  *)
(* or leaves the loop alone, so what is proved of the loop holds of the    *)
(* server.  Then the inductive invariant: a line is in one place on its    *)
(* way from the client's socket to the batch of functors and back, and a   *)
(* client is unknown, waiting to be accepted, filed in _conns, or gone.    *)
(***************************************************************************)
EXTENDS EchoServer, SequenceLemmas, FiniteSetTheorems

-----------------------------------------------------------------------------
(***************************************************************************)
(* The event loop.  These proofs use no assumption on the constants.       *)
(***************************************************************************)
\* The steps, named once for the proofs that go through them.
LEMMA LoopSteps ==
  ASSUME LoopNext
  PROVE  \/ Start \/ LoopBegin \/ LoopTest \/ Unloop
         \/ \E others \in SUBSET OtherFds : EpollReturn(others)
         \/ \E fd \in OtherFds : HandleOther(fd)
         \/ HandleReadEvent \/ SwapFunctors \/ RunFunctor \/ FunctorsDone \/ BatchDone
         \/ \E c \in Callers : \/ Wakeup(c) \/ RunInLoopReturn(c)
                               \/ \E f \in Functor : PushFunctor(c, f)
  BY DEF LoopNext, IoStep, OtherEvents, CallerStep

\* Every step keeps the types.
LEMMA LoopTypeStep ==
  ASSUME LoopTypeOK, LoopNext
  PROVE  LoopTypeOK'
<1> USE DEF LoopTypeOK, GotoIo, GotoCaller, IoPlaces
<1>1. CASE Start \/ LoopBegin \/ LoopTest \/ Unloop
  BY <1>1 DEF Start, LoopBegin, LoopTest, Unloop
<1>2. CASE \E others \in SUBSET OtherFds : EpollReturn(others)
  BY <1>2 DEF EpollReturn
<1>3. CASE \E fd \in OtherFds : HandleOther(fd)
  BY <1>3 DEF HandleOther
<1>4. CASE HandleReadEvent
  BY <1>4 DEF HandleReadEvent
<1>5. CASE SwapFunctors
  BY <1>5 DEF SwapFunctors, Left
<1>6. CASE RunFunctor
  BY <1>6 DEF RunFunctor
<1>7. CASE FunctorsDone \/ BatchDone
  BY <1>7 DEF FunctorsDone, BatchDone
<1>8. CASE \E c \in Callers : Wakeup(c)
  BY <1>8 DEF Wakeup, Signalled
<1>9. CASE \E c \in Callers : RunInLoopReturn(c)
  BY <1>9 DEF RunInLoopReturn
<1>10. CASE \E c \in Callers, f \in Functor : PushFunctor(c, f)
  BY <1>10 DEF PushFunctor, Added
<1>11. QED
  BY <1>1, <1>2, <1>3, <1>4, <1>5, <1>6, <1>7, <1>8, <1>9, <1>10, LoopSteps

\* The variables of the loop have their types, and its batches are empty when
\* the I/O thread is not working on them.
THEOREM LoopTypeCorrect == LoopSpec => []LoopTypeOK
<1>1. LoopInit => LoopTypeOK
  <2> SUFFICES ASSUME LoopInit PROVE LoopTypeOK
    OBVIOUS
  <2>1. callpc \in [Callers -> {"idle", "wakeup", "return"}]
    BY DEF LoopInit
  <2>2. <<>> \in Seq(Functor)
    OBVIOUS
  <2>3. QED
    BY <2>1, <2>2 DEF LoopInit, LoopTypeOK, IoPlaces
<1>2. LoopTypeOK /\ [LoopNext]_loopVars => LoopTypeOK'
  BY LoopTypeStep DEF loopVars, LoopTypeOK
<1>3. QED
  BY <1>1, <1>2, PTL DEF LoopSpec

-----------------------------------------------------------------------------
\* No functor is forgotten: pushed before the wakeup, taken after the read.
THEOREM WakeupCorrect == LoopSpec => []WakeupNotLost
<1>1. LoopInit => WakeupNotLost
  BY DEF LoopInit, WakeupNotLost
<1>2. LoopTypeOK /\ WakeupNotLost /\ [LoopNext]_loopVars => WakeupNotLost'
  <2> SUFFICES ASSUME LoopTypeOK, WakeupNotLost, [LoopNext]_loopVars
               PROVE  WakeupNotLost'
    OBVIOUS
  <2> USE DEF LoopTypeOK, WakeupNotLost, GotoIo, GotoCaller
  <2>1. CASE \E c \in Callers, f \in Functor : PushFunctor(c, f)
    BY <2>1 DEF PushFunctor
  <2>2. CASE \E c \in Callers : Wakeup(c)
    BY <2>2 DEF Wakeup, Signalled
  <2>3. CASE \E c \in Callers : RunInLoopReturn(c)
    BY <2>3 DEF RunInLoopReturn
  <2>4. CASE HandleReadEvent
    BY <2>4 DEF HandleReadEvent
  <2>5. CASE SwapFunctors
    BY <2>5 DEF SwapFunctors, Left
  <2>6. CASE \/ Start \/ LoopBegin \/ LoopTest \/ Unloop
             \/ \E others \in SUBSET OtherFds : EpollReturn(others)
             \/ \E fd \in OtherFds : HandleOther(fd)
             \/ RunFunctor \/ FunctorsDone \/ BatchDone \/ UNCHANGED loopVars
    <3>1. \/ UNCHANGED <<pending, counter, callpc>> /\ iopc # "swap"
          \/ UNCHANGED <<pending, counter, callpc, iopc>>
      BY <2>6 DEF Start, LoopBegin, LoopTest, Unloop, EpollReturn, HandleOther, RunFunctor,
                  FunctorsDone, BatchDone, loopVars
    <3>2. QED
      BY <3>1
  <2>7. QED
    BY <2>1, <2>2, <2>3, <2>4, <2>5, <2>6, LoopSteps
<1>3. QED
  BY <1>1, <1>2, LoopTypeCorrect, PTL DEF LoopSpec

-----------------------------------------------------------------------------
\* Every functor is run once, in the order of submission: the functors run, the
\* batch and the pending ones are, in this order, all that was submitted.
THEOREM OrderCorrect == LoopSpec => []OnceInOrder
<1>1. LoopInit => OnceInOrder
  BY DEF LoopInit, OnceInOrder
<1>2. LoopTypeOK /\ OnceInOrder /\ [LoopNext]_loopVars => OnceInOrder'
  <2> SUFFICES ASSUME LoopTypeOK, OnceInOrder, [LoopNext]_loopVars
               PROVE  OnceInOrder'
    OBVIOUS
  <2>0. /\ pending \in Seq(Functor) /\ batch \in Seq(Functor) /\ ran \in Seq(Functor)
        /\ posted = ran \o batch \o pending
        /\ ran \o batch \in Seq(Functor)
    BY ConcatProperties DEF LoopTypeOK, OnceInOrder
  <2>1. CASE \E c \in Callers, f \in Functor : PushFunctor(c, f)
    <3>1. PICK c \in Callers, f \in Functor : PushFunctor(c, f)
      BY <2>1
    <3>2. posted' = Append(posted, f) /\ pending' = Append(pending, f)
          /\ UNCHANGED <<ran, batch>>
      BY <3>1 DEF PushFunctor, Added
    <3>3. posted \in Seq(Functor) /\ <<f>> \in Seq(Functor)
      BY DEF LoopTypeOK
    <3>4. posted' = posted \o <<f>> /\ pending' = pending \o <<f>>
      BY <2>0, <3>2, <3>3, AppendIsConcat
    <3>5. (ran \o batch \o pending) \o <<f>> = (ran \o batch) \o (pending \o <<f>>)
      BY <2>0, <3>3, ConcatAssociative, SMTT(30)
    <3>6. QED
      BY <2>0, <3>2, <3>4, <3>5 DEF OnceInOrder
  <2>2. CASE SwapFunctors
    <3>1. batch = <<>> /\ batch' = pending /\ pending' = <<>> /\ UNCHANGED <<posted, ran>>
      BY <2>2 DEF SwapFunctors, Left, GotoIo, LoopTypeOK
    <3>2. ran \o batch = ran /\ ran \o pending \in Seq(Functor)
      BY <2>0, <3>1, ConcatEmptySeq, ConcatProperties
    <3>3. (ran \o pending) \o <<>> = ran \o pending
      BY <3>2, ConcatEmptySeq
    <3>4. QED
      BY <2>0, <3>1, <3>2, <3>3 DEF OnceInOrder
  <2>3. CASE RunFunctor
    <3>1. /\ batch # <<>> /\ ran' = Append(ran, Head(batch)) /\ batch' = Tail(batch)
          /\ UNCHANGED <<posted, pending>>
      BY <2>3 DEF RunFunctor
    <3>2. /\ batch = <<Head(batch)>> \o Tail(batch)
          /\ Head(batch) \in Functor /\ Tail(batch) \in Seq(Functor)
          /\ <<Head(batch)>> \in Seq(Functor)
      BY <2>0, <3>1, HeadAndTail
    <3>3. ran' = ran \o <<Head(batch)>>
      BY <2>0, <3>1, <3>2, AppendIsConcat
    <3>4. (ran \o <<Head(batch)>>) \o Tail(batch) = ran \o (<<Head(batch)>> \o Tail(batch))
      BY <2>0, <3>2, ConcatAssociative
    <3>5. ran' \o batch' = ran \o batch
      BY <3>1, <3>2, <3>3, <3>4
    <3>6. QED
      BY <2>0, <3>1, <3>5 DEF OnceInOrder
  <2>4. CASE UNCHANGED <<pending, batch, posted, ran>>
    BY <2>4 DEF OnceInOrder
  <2>5. \/ \E c \in Callers, f \in Functor : PushFunctor(c, f)
        \/ SwapFunctors \/ RunFunctor \/ UNCHANGED <<pending, batch, posted, ran>>
    BY LoopSteps
    DEF loopVars, Start, LoopBegin, LoopTest, Unloop, EpollReturn, HandleOther,
        HandleReadEvent, FunctorsDone, BatchDone, Wakeup, RunInLoopReturn
  <2>6. QED
    BY <2>1, <2>2, <2>3, <2>4, <2>5
<1>3. QED
  BY <1>1, <1>2, LoopTypeCorrect, PTL DEF LoopSpec

-----------------------------------------------------------------------------
(***************************************************************************)
(* The echo server: where its lines and its clients are.                   *)
(***************************************************************************)
Jobs == {job[w] : w \in Workers} \ {NoTask}

\* The lines of each client are numbered, and what is left in its socket are the last.
Numbered ==
  \A c \in Clients :
    /\ sent[c] <= Lines[c] /\ Len(inbox[c]) <= sent[c]
    /\ \A i \in 1..Len(inbox[c]) :
         inbox[c][i] = [conn |-> c, num |-> sent[c] - Len(inbox[c]) + i]

\* The lines the I/O thread has read; all that exists behind it are such lines.
Read == {line \in Line : line.num <= sent[line.conn] - Len(inbox[line.conn])}

AllRead == Tasks \cup Range(posted) \subseteq Read

\* A line is one task, and is posted once, by the worker that has it.
OneTask ==
  /\ IsInjective(que)
  /\ \A v, w \in Workers : job[v] = job[w] /\ job[v] # NoTask => v = w
  /\ Range(que) \cap (Jobs \cup Range(posted)) = {}
  /\ adding \notin Range(que) \cup Jobs \cup Range(posted)
  /\ \A w \in Workers : IF callpc[w] = "idle" THEN job[w] \notin Range(posted)
                                              ELSE job[w] \in Range(posted)

\* A posted line is pending, in the batch, or has been run.
OneFunctor ==
  /\ Range(posted) = Range(pending) \cup Range(batch) \cup Range(ran)
  /\ IsInjective(pending) /\ IsInjective(batch)
  /\ Range(pending) \cap (Range(batch) \cup Range(ran)) = {}
  /\ Range(batch) \cap Range(ran) = {}

\* Clients that the server has not accepted, and those it has dropped.
Unaccepted == {c \in Clients : peer[c] = "new"} \cup Range(backlog)

Accepting ==
  /\ IsInjective(backlog)
  /\ \A c \in Range(backlog) : peer[c] # "new"
  /\ \A c \in Unaccepted : c \notin Held /\ Len(inbox[c]) = sent[c]
  /\ ListenFd \in todo => backlog # <<>>

DroppedWhenClosed ==
  \A c \in Clients \ (Unaccepted \cup Held) : peer[c] \in {"fin", "finrst", "done"}

\* A client is sent its own lines, each when its functor is run.
EchoesRun ==
  ~dangling => \A c \in Clients :
    IsInjective(echoes[c]) /\ Range(echoes[c]) \subseteq {line \in Range(ran) : line.conn = c}

\* A client that resets its connection in place of closing it has not seen all its echoes.
ResetImpatient == ~dangling => \A c \in Clients : peer[c] = "rst" => Impatient(c)

LinePlaces == Numbered /\ AllRead /\ OneTask /\ OneFunctor
ClientPlaces == Accepting /\ DroppedWhenClosed /\ FdsUnique /\ BatchFresh

Inv == TypeOK /\ LinePlaces /\ ClientPlaces /\ EchoesRun /\ ResetImpatient /\ PatientSafe
-----------------------------------------------------------------------------
\* The steps, named once for the proofs that go through them.
LEMMA ServerSteps ==
  ASSUME Next
  PROVE  \/ LoopOnly(Start) \/ LoopOnly(LoopBegin) \/ LoopOnly(LoopTest)
         \/ LoopOnly(EpollReturn(ReadyFds)) \/ LoopOnly(HandleReadEvent)
         \/ LoopOnly(SwapFunctors) \/ LoopOnly(FunctorsDone) \/ LoopOnly(BatchDone)
         \/ LoopOnly(HandleOther(ListenFd)) \/ HandleNewConnection
         \/ \E fd \in Fds : conns[fd] # NoClient /\ HandleLine(fd) /\ IoFree
         \/ \E fd \in Fds : conns[fd] # NoClient /\ HandleClose(fd)
         \/ \E fd \in Fds : conns[fd] # NoClient /\ HandleReset(fd)
         \/ RunSend \/ AddTask
         \/ \E w \in Workers : TakeTask(w) \/ Process(w) \/ LoopOnly(Wakeup(w)) \/ FinishTask(w)
         \/ \E c \in Clients : Connect(c) \/ SendLine(c) \/ Reads(c) \/ CloseClient(c)
  BY DEF Next, IoThread, Worker, Client, HandleMessage, HandleAcceptFails, LoopOnly

\* Every step of the server is a step of the event loop, or leaves it alone.
LEMMA LoopStep ==
  ASSUME TypeOK, Next
  PROVE  LoopNext \/ UNCHANGED loopVars
<1> USE EchoServerAssumption DEF LoopNext, IoStep, OtherEvents, CallerStep, LoopOnly, Workers
<1>1. CASE \/ LoopOnly(Start) \/ LoopOnly(LoopBegin) \/ LoopOnly(LoopTest)
           \/ LoopOnly(HandleReadEvent) \/ LoopOnly(SwapFunctors) \/ LoopOnly(FunctorsDone)
           \/ LoopOnly(BatchDone) \/ LoopOnly(HandleOther(ListenFd))
  BY <1>1
<1>2. CASE LoopOnly(EpollReturn(ReadyFds))
  <2>1. ReadyFds \in SUBSET OtherFds
    BY DEF ReadyFds
  <2>2. EpollReturn(ReadyFds)
    BY <1>2
  <2>3. ASSUME NEW others \in SUBSET OtherFds, EpollReturn(others)
        PROVE  EpollReturn({}) \/ \E other \in (SUBSET OtherFds) \ {{}} : EpollReturn(other)
    <3>1. CASE others = {}
      BY <2>3, <3>1 DEF EpollReturn, GotoIo
    <3>2. QED
      BY <2>3, <3>1
  <2>4. QED
    BY <2>1, <2>2, <2>3
<1>3. CASE HandleNewConnection
  BY <1>3 DEF HandleNewConnection
<1>4. CASE \E fd \in Fds : HandleLine(fd) \/ HandleClose(fd) \/ HandleReset(fd)
  BY <1>4 DEF HandleLine, HandleClose, HandleReset
<1>5. CASE RunSend
  BY <1>5 DEF RunSend
<1>6. CASE AddTask
  BY <1>6 DEF AddTask
<1>7. CASE \E w \in Workers : TakeTask(w) \/ LoopOnly(Wakeup(w)) \/ FinishTask(w)
  BY <1>7 DEF TakeTask, FinishTask
<1>8. CASE \E w \in Workers : Process(w)
  BY <1>8 DEF Process, TypeOK
<1>9. CASE \E c \in Clients : Connect(c) \/ SendLine(c) \/ Reads(c) \/ CloseClient(c)
  BY <1>9 DEF Connect, SendLine, Reads, CloseClient
<1>10. QED
  BY <1>1, <1>2, <1>3, <1>4, <1>5, <1>6, <1>7, <1>8, <1>9, ServerSteps

-----------------------------------------------------------------------------
(***************************************************************************)
(* Types.  Those of the loop's variables come from EventLoop.              *)
(***************************************************************************)
LEMMA LineShape ==
  ASSUME NEW line \in Line
  PROVE  line.conn \in Clients /\ line.num \in 1..Lines[line.conn] /\ line.num \in Nat
         /\ line = [conn |-> line.conn, num |-> line.num]
<1>1. PICK c \in Clients : line \in [conn : {c}, num : 1..Lines[c]]
  BY DEF Line
<1>2. QED
  BY <1>1, EchoServerAssumption

LEMMA LineMember ==
  ASSUME NEW c \in Clients, NEW n \in 1..Lines[c]
  PROVE  [conn |-> c, num |-> n] \in Line
  BY DEF Line

LEMMA RangeOfQueue ==
  ASSUME NEW s \in Seq(Line)
  PROVE  Range(s) = {s[i] : i \in 1..Len(s)} /\ Range(s) \subseteq Line
<1>1. DOMAIN s = 1..Len(s) /\ \A i \in 1..Len(s) : s[i] \in Line
  OBVIOUS
<1>2. QED
  BY <1>1 DEF Range

LEMMA TasksAreLines ==
  ASSUME TypeOK
  PROVE  Tasks \subseteq Line /\ Live \subseteq Clients
<1>1. Range(que) \subseteq Line /\ Range(que) = {que[i] : i \in 1..Len(que)}
  BY RangeOfQueue DEF TypeOK
<1>2. Tasks \subseteq Line
  BY <1>1 DEF Tasks, TypeOK
<1>3. \A task \in Tasks : task.conn \in Clients
  BY <1>2, LineShape
<1>4. Held \subseteq Clients
  BY DEF Held, TypeOK
<1>5. QED
  BY <1>2, <1>3, <1>4 DEF Live

LEMMA AcceptStep ==
  ASSUME TypeOK, Accepting, HandleNewConnection
  PROVE  \E c \in Clients, fd \in FreeFds :
           /\ c = Head(backlog) /\ backlog # <<>> /\ backlog' = Tail(backlog)
           /\ fdOf' = [fdOf EXCEPT ![c] = fd]
           /\ conns' = IF conns[fd] = NoClient THEN [conns EXCEPT ![fd] = c] ELSE conns
<1>1. FreeFds \in SUBSET Nat /\ FreeFds # {}
  BY EchoServerAssumption DEF HandleNewConnection, FreeFds
<1>2. Min(FreeFds) \in FreeFds
  BY <1>1, LeastNumber
<1>3. backlog # <<>> /\ Head(backlog) \in Clients
  BY DEF TypeOK, Accepting, HandleNewConnection, HandleOther
<1>4. QED
  BY <1>2, <1>3 DEF HandleNewConnection

\* A send may note the client's reset, or kill the process, or deliver the line.
LEMMA SendTypes ==
  ASSUME TypeOK, NEW c \in Clients, NEW line \in Line, Send(c, line), UNCHANGED seen
  PROVE  /\ peer' \in [Clients -> PeerStates] /\ killed' \in BOOLEAN
         /\ echoes' \in [Clients -> Seq(Line)]
         /\ \A d \in Clients : Unread(d)' \in 0..OutBuffer
<1>0. /\ peer \in [Clients -> PeerStates] /\ echoes \in [Clients -> Seq(Line)]
      /\ killed \in BOOLEAN /\ seen \in [Clients -> Nat]
      /\ \A d \in Clients : Unread(d) \in 0..OutBuffer
  BY DEF TypeOK
<1>1. peer' \in [Clients -> PeerStates] /\ killed' \in BOOLEAN
  BY <1>0 DEF Send, PeerStates
<1>2. \/ UNCHANGED echoes
      \/ echoes' = [echoes EXCEPT ![c] = Append(echoes[c], line)] /\ Unread(c) < OutBuffer
  BY DEF Send, SendReady, Room
<1>3. /\ Append(echoes[c], line) \in Seq(Line)
      /\ Len(Append(echoes[c], line)) = Len(echoes[c]) + 1 /\ Len(echoes[c]) \in Nat
  BY <1>0
<1>4. echoes' \in [Clients -> Seq(Line)]
  BY <1>0, <1>2, <1>3
<1>5. ASSUME NEW d \in Clients
      PROVE  Unread(d)' \in 0..OutBuffer
  <2>1. UNCHANGED echoes => Unread(d)' = Unread(d)
    BY DEF Unread
  <2>2. d # c => Unread(d)' = Unread(d)
    BY <1>0, <1>2 DEF Unread
  <2>3. /\ Unread(c)' = Len(echoes'[c]) - seen[c] /\ Unread(c) = Len(echoes[c]) - seen[c]
        /\ seen[c] \in Nat /\ OutBuffer \in Nat
    BY <1>0, EchoServerAssumption DEF Unread
  <2>4. ~UNCHANGED echoes => Unread(c)' \in 0..OutBuffer
    <3>1. ~UNCHANGED echoes => Len(echoes'[c]) = Len(echoes[c]) + 1 /\ Unread(c) < OutBuffer
      BY <1>0, <1>2, <1>3
    <3>2. QED
      BY <1>0, <1>3, <2>3, <3>1, SMTT(30)
  <2>5. QED
    BY <1>0, <2>1, <2>2, <2>4
<1>6. QED
  BY <1>1, <1>4, <1>5

LEMMA ServerTypes ==
  ASSUME TypeOK, Accepting, Next
  PROVE  TypeOK'
<1> USE DEF TypeOK, Unread
<1>0. LoopTypeOK'
  BY LoopStep, LoopTypeStep DEF loopVars, LoopTypeOK
<1>1. CASE UNCHANGED <<clientVars, connVars, workVars, fateVars>>
  BY <1>0, <1>1 DEF clientVars, connVars, workVars, fateVars
<1>2. CASE HandleNewConnection
  <2>1. PICK c \in Clients, fd \in Fds :
          /\ backlog # <<>> /\ backlog' = Tail(backlog) /\ fdOf' = [fdOf EXCEPT ![c] = fd]
          /\ conns' \in {conns, [conns EXCEPT ![fd] = c]}
    BY <1>2, AcceptStep DEF FreeFds
  <2>2. backlog' \in Seq(Clients) /\ fdOf' \in [Clients -> Fds \cup {0}]
    BY <2>1
  <2>3. conns' \in [Fds -> Clients \cup {NoClient}]
    BY <2>1
  <2>4. QED
    BY <1>0, <1>2, <2>2, <2>3 DEF HandleNewConnection, workVars, fateVars
<1>3. ASSUME NEW fd \in Fds, conns[fd] # NoClient, HandleLine(fd)
      PROVE  TypeOK'
  <2>1. conns[fd] \in Clients /\ inbox[conns[fd]] # <<>>
    BY <1>3 DEF HandleLine
  <2>2. /\ Head(inbox[conns[fd]]) \in Line
        /\ inbox' \in [Clients -> Seq(Line)]
    BY <1>3, <2>1 DEF HandleLine
  <2>3. QED
    BY <1>0, <1>3, <2>2 DEF HandleLine, workVars, fateVars
<1>4. ASSUME NEW fd \in Fds, conns[fd] # NoClient, HandleClose(fd)
      PROVE  TypeOK'
  BY <1>0, <1>4 DEF HandleClose, clientVars, workVars, fateVars
<1>5. ASSUME NEW fd \in Fds, conns[fd] # NoClient, HandleReset(fd)
      PROVE  TypeOK'
  BY <1>0, <1>5 DEF HandleReset, connVars, workVars, PeerStates
<1>6. CASE RunSend
  <2>1. /\ UNCHANGED <<sent, inbox, seen, backlog, connVars, workVars, stuck>>
        /\ dangling' \in BOOLEAN
    BY <1>6 DEF RunSend
  <2>2. Head(batch) \in Line
    BY <1>6, EchoServerAssumption DEF RunSend, RunFunctor, LoopTypeOK
  <2>3. \/ \E c \in Live : Send(c, Head(batch))
        \/ killed' \in BOOLEAN /\ UNCHANGED <<peer, echoes>>
    BY <1>6 DEF RunSend
  <2>4. /\ peer' \in [Clients -> PeerStates] /\ killed' \in BOOLEAN
        /\ echoes' \in [Clients -> Seq(Line)]
        /\ \A c \in Clients : Unread(c)' \in 0..OutBuffer
    BY <2>1, <2>2, <2>3, SendTypes, TasksAreLines
  <2>5. QED
    BY <1>0, <2>1, <2>4 DEF connVars, workVars
<1>7. CASE AddTask
  BY <1>0, <1>7 DEF AddTask, Pool!Enqueue, clientVars, fateVars
<1>8. ASSUME NEW w \in Workers, TakeTask(w)
      PROVE  TypeOK'
  <2>1. que # <<>> /\ Head(que) \in Line /\ Tail(que) \in Seq(Line)
    BY <1>8 DEF TakeTask, Pool!Dequeue
  <2>2. que' \in Seq(Line) /\ job' \in [Workers -> Line \cup {NoTask}]
    BY <1>8, <2>1 DEF TakeTask, Pool!Dequeue
  <2>3. QED
    BY <1>0, <1>8, <2>2 DEF TakeTask, clientVars, connVars, fateVars
<1>9. ASSUME NEW w \in Workers, FinishTask(w)
      PROVE  TypeOK'
  BY <1>0, <1>9 DEF FinishTask, Pool!Release, clientVars, connVars, fateVars
<1>10. ASSUME NEW c \in Clients, Connect(c)
      PROVE  TypeOK'
  BY <1>0, <1>10, SMTT(30) DEF Connect, PeerStates, connVars, workVars, fateVars
<1>11. ASSUME NEW c \in Clients, SendLine(c)
      PROVE  TypeOK'
  <2>1. [conn |-> c, num |-> sent[c] + 1] \in Line
    <3>1. sent[c] \in Nat /\ Lines[c] \in Nat /\ sent[c] < Lines[c]
      BY <1>11, EchoServerAssumption DEF SendLine
    <3>2. sent[c] + 1 \in 1..Lines[c]
      BY ONLY <3>1
    <3>3. QED
      BY ONLY <3>2, <1>11, LineMember
  <2>2. sent' \in [Clients -> Nat] /\ sent'[c] = sent[c] + 1
    BY <1>11 DEF SendLine
  <2>3. inbox' \in [Clients -> Seq(Line)]
    BY <1>11, <2>1, <2>2 DEF SendLine
  <2>4. QED
    BY <1>0, <1>11, <2>2, <2>3 DEF SendLine, connVars, workVars, fateVars
<1>12. ASSUME NEW c \in Clients, CloseClient(c)
      PROVE  TypeOK'
  <2>1. PICK how \in {"fin", "finrst", "rst"} : peer' = [peer EXCEPT ![c] = how]
    BY <1>12 DEF CloseClient
  <2>2. peer' \in [Clients -> PeerStates]
    BY <2>1 DEF PeerStates
  <2>3. QED
    BY <1>0, <1>12, <2>2 DEF CloseClient, connVars, workVars, fateVars
<1>13. ASSUME NEW c \in Clients, Reads(c)
      PROVE  TypeOK'
  <2>1. PICK n \in 1..Unread(c) : seen' = [seen EXCEPT ![c] = seen[c] + n]
    BY <1>13 DEF Reads
  <2>2. seen[c] \in Nat /\ Len(echoes[c]) \in Nat /\ n \in Nat /\ OutBuffer \in Nat
        /\ Len(echoes[c]) - seen[c] \in 0..OutBuffer /\ n <= Len(echoes[c]) - seen[c]
    BY LenProperties, EchoServerAssumption
  <2>3. seen' \in [Clients -> Nat] /\ Len(echoes[c]) - seen'[c] \in 0..OutBuffer
    BY <2>1, <2>2, SMTT(30)
  <2>4. /\ UNCHANGED <<peer, sent, inbox, echoes, backlog, conns, fdOf, adding, que, job>>
        /\ UNCHANGED <<killed, stuck, dangling>>
    BY <1>13 DEF Reads, connVars, workVars, fateVars
  <2>5. \A d \in Clients : Unread(d)' \in 0..OutBuffer
    BY <2>1, <2>3, <2>4
  <2>6. QED
    BY <1>0, <2>3, <2>4, <2>5
<1>14. QED
  <2>1. \/ UNCHANGED <<clientVars, connVars, workVars, fateVars>>
        \/ HandleNewConnection \/ RunSend \/ AddTask
        \/ \E fd \in Fds : conns[fd] # NoClient /\ HandleLine(fd)
        \/ \E fd \in Fds : conns[fd] # NoClient /\ HandleClose(fd)
        \/ \E fd \in Fds : conns[fd] # NoClient /\ HandleReset(fd)
        \/ \E w \in Workers : TakeTask(w) \/ FinishTask(w)
        \/ \E c \in Clients : Connect(c) \/ SendLine(c) \/ Reads(c) \/ CloseClient(c)
    BY ONLY Next, ServerSteps DEF LoopOnly, Process
  <2> HIDE DEF TypeOK
  <2>2. QED
    BY ONLY <2>1, <1>1, <1>2, <1>3, <1>4, <1>5, <1>6, <1>7, <1>8, <1>9, <1>10, <1>11, <1>12,
            <1>13
-----------------------------------------------------------------------------
(***************************************************************************)
(* Where the lines are.  A client's line waits in its socket until the I/O *)
(* thread reads it; it is then a task, until a worker posts it; a posted   *)
(* line is pending, then in the batch, then run.                           *)
(***************************************************************************)
\* The variables that say where the lines are.
lineVars == <<sent, inbox, adding, que, job, posted, pending, batch, ran>>

\* What a step that is not one of these leaves alone.
LEMMA LineSteps ==
  ASSUME Next
  PROVE  \/ \E c \in Clients : SendLine(c)
         \/ \E fd \in Fds : conns[fd] # NoClient /\ HandleLine(fd) /\ IoFree
         \/ AddTask
         \/ \E w \in Workers : TakeTask(w)
         \/ \E w \in Workers : Process(w)
         \/ \E w \in Workers : FinishTask(w)
         \/ LoopOnly(SwapFunctors)
         \/ RunSend
         \/ (\E w \in Workers : Wakeup(w)) /\ UNCHANGED lineVars
         \/ UNCHANGED lineVars /\ UNCHANGED callpc
<1> USE DEF lineVars, LoopOnly, clientVars, connVars, workVars, loopVars
<1>1. CASE \/ LoopOnly(Start) \/ LoopOnly(LoopBegin) \/ LoopOnly(LoopTest)
           \/ LoopOnly(EpollReturn(ReadyFds)) \/ LoopOnly(HandleReadEvent)
           \/ LoopOnly(FunctorsDone) \/ LoopOnly(BatchDone) \/ LoopOnly(HandleOther(ListenFd))
  BY <1>1 DEF Start, LoopBegin, LoopTest, EpollReturn, HandleReadEvent, FunctorsDone,
              BatchDone, HandleOther
<1>2. CASE HandleNewConnection
  BY <1>2 DEF HandleNewConnection, HandleOther
<1>3. CASE \E fd \in Fds : HandleClose(fd) \/ HandleReset(fd)
  BY <1>3 DEF HandleClose, HandleReset, HandleOther
<1>4. CASE \E w \in Workers : LoopOnly(Wakeup(w))
  BY <1>4 DEF Wakeup
<1>5. CASE \E c \in Clients : Connect(c) \/ Reads(c) \/ CloseClient(c)
  BY <1>5 DEF Connect, Reads, CloseClient
<1>6. QED
  BY <1>1, <1>2, <1>3, <1>4, <1>5, ServerSteps

LEMMA NumberedStep ==
  ASSUME TypeOK, Numbered, Next
  PROVE  Numbered'
<1>1. ASSUME NEW c \in Clients, SendLine(c)
      PROVE  Numbered'
  <2>1. /\ sent[c] \in Nat /\ Lines[c] \in Nat /\ sent[c] < Lines[c]
        /\ Len(inbox[c]) \in Nat /\ Len(inbox[c]) <= sent[c]
        /\ inbox[c] \in Seq(Line)
    <3>1. sent \in [Clients -> Nat] /\ inbox \in [Clients -> Seq(Line)]
      BY DEF TypeOK
    <3>2. Lines[c] \in Nat /\ sent[c] < Lines[c] /\ Len(inbox[c]) <= sent[c]
      BY <1>1, EchoServerAssumption DEF SendLine, Numbered
    <3>3. QED
      BY <3>1, <3>2, LenProperties
  <2>2. /\ sent' = [sent EXCEPT ![c] = sent[c] + 1] /\ sent'[c] = sent[c] + 1
        /\ inbox' = [inbox EXCEPT ![c] = Append(inbox[c], [conn |-> c, num |-> sent[c] + 1])]
    BY <1>1 DEF SendLine, TypeOK
  <2>3. inbox'[c] = Append(inbox[c], [conn |-> c, num |-> sent[c] + 1])
    BY <2>2 DEF TypeOK
  <2>4. /\ Len(inbox'[c]) = Len(inbox[c]) + 1
        /\ \A i \in 1..Len(inbox[c]) : inbox'[c][i] = inbox[c][i]
        /\ inbox'[c][Len(inbox[c]) + 1] = [conn |-> c, num |-> sent[c] + 1]
    BY <2>1, <2>3
  <2>5. \A i \in 1..Len(inbox'[c]) :
          inbox'[c][i] = [conn |-> c, num |-> sent'[c] - Len(inbox'[c]) + i]
    <3> TAKE i \in 1..Len(inbox'[c])
    <3>1. CASE i = Len(inbox[c]) + 1
      BY <2>1, <2>2, <2>4, <3>1
    <3>2. CASE i \in 1..Len(inbox[c])
      <4>1. inbox[c][i] = [conn |-> c, num |-> sent[c] - Len(inbox[c]) + i]
        BY <3>2 DEF Numbered
      <4>2. sent'[c] - Len(inbox'[c]) + i = sent[c] - Len(inbox[c]) + i
        BY <2>1, <2>2, <2>4, <3>2
      <4>3. QED
        BY <2>4, <3>2, <4>1, <4>2
    <3>3. QED
      BY <2>1, <2>4, <3>1, <3>2
  <2>6. ASSUME NEW d \in Clients, d # c
        PROVE  sent'[d] = sent[d] /\ inbox'[d] = inbox[d]
    BY <2>2, <2>6 DEF TypeOK
  <2>7. sent'[c] <= Lines[c] /\ Len(inbox'[c]) <= sent'[c]
    BY <2>1, <2>2, <2>4
  <2>8. QED
    BY <2>5, <2>6, <2>7 DEF Numbered
<1>2. ASSUME NEW fd \in Fds, conns[fd] # NoClient, HandleLine(fd)
      PROVE  Numbered'
  <2> DEFINE c == conns[fd]
  <2>1. /\ c \in Clients /\ inbox[c] \in Seq(Line) /\ inbox[c] # <<>>
        /\ sent' = sent /\ inbox' = [inbox EXCEPT ![c] = Tail(inbox[c])]
    BY <1>2 DEF HandleLine, TypeOK
  <2>2. inbox'[c] = Tail(inbox[c]) /\ \A d \in Clients \ {c} : inbox'[d] = inbox[d]
    BY <2>1 DEF TypeOK
  <2>3. /\ Len(inbox[c]) \in Nat /\ Len(inbox'[c]) = Len(inbox[c]) - 1
        /\ \A i \in 1..Len(inbox'[c]) : i + 1 \in 1..Len(inbox[c]) /\ inbox'[c][i] = inbox[c][i + 1]
    <3>1. inbox[c] \in Seq(Line) /\ inbox[c] # <<>>
      BY <2>1
    <3>2. /\ Len(inbox[c]) \in Nat \ {0} /\ Len(Tail(inbox[c])) = Len(inbox[c]) - 1
          /\ \A i \in 1..Len(Tail(inbox[c])) : Tail(inbox[c])[i] = inbox[c][i + 1]
      BY ONLY <3>1, HeadTailProperties, LenProperties, EmptySeq
    <3>3. QED
      BY ONLY <3>2, <2>2
  <2>4. sent[c] \in Nat
    BY <2>1 DEF TypeOK
  <2> HIDE DEF c
  <2>5. \A i \in 1..Len(inbox'[c]) :
          inbox'[c][i] = [conn |-> c, num |-> sent[c] - Len(inbox'[c]) + i]
    <3> TAKE i \in 1..Len(inbox'[c])
    <3>1. inbox'[c][i] = [conn |-> c, num |-> sent[c] - Len(inbox[c]) + (i + 1)]
      <4>1. i + 1 \in 1..Len(inbox[c]) /\ inbox'[c][i] = inbox[c][i + 1]
        BY <2>3
      <4>2. QED
        BY <2>1, <4>1 DEF Numbered
    <3>2. sent[c] - Len(inbox[c]) + (i + 1) = sent[c] - Len(inbox'[c]) + i
      <4>1. \A m, n, k \in Int : m - n + (k + 1) = m - (n - 1) + k
        OBVIOUS
      <4>2. i \in Int /\ Len(inbox[c]) \in Int /\ sent[c] \in Int
        BY <2>3, <2>4
      <4>3. sent[c] - Len(inbox[c]) + (i + 1) = sent[c] - (Len(inbox[c]) - 1) + i
        BY ONLY <4>1, <4>2
      <4>4. Len(inbox'[c]) = Len(inbox[c]) - 1
        BY <2>3
      <4>5. QED
        BY ONLY <4>3, <4>4, Zenon
    <3>3. QED
      BY <3>1, <3>2
  <2>6. Len(inbox'[c]) <= sent[c]
    BY <2>1, <2>3, <2>4 DEF Numbered
  <2>7. QED
    BY <2>1, <2>2, <2>5, <2>6 DEF Numbered
<1>3. UNCHANGED <<sent, inbox>> => Numbered'
  BY DEF Numbered
<1>4. QED
  BY <1>1, <1>2, <1>3, LineSteps
  DEF lineVars, AddTask, TakeTask, Process, FinishTask, RunSend, LoopOnly, clientVars
\* What the tasks are, before and after a step.
LEMMA TasksSplit ==
  ASSUME TypeOK, TypeOK'
  PROVE  /\ Tasks = ({adding} \ {NoTask}) \cup Range(que) \cup Jobs
         /\ Tasks' = ({adding'} \ {NoTask}) \cup Range(que') \cup Jobs'
         /\ Jobs = {job[w] : w \in Workers} \ {NoTask}
         /\ Jobs' = {job'[w] : w \in Workers} \ {NoTask}
         /\ NoTask \notin Range(que) \cup Range(que') \cup Range(posted) \cup Range(posted')
<1>1. /\ que \in Seq(Line) /\ que' \in Seq(Line)
      /\ posted \in Seq(Line) /\ posted' \in Seq(Line)
  BY EchoServerAssumption DEF TypeOK, LoopTypeOK
<1>2. /\ {que[i] : i \in 1..Len(que)} = Range(que) /\ NoTask \notin Range(que)
      /\ {que'[i] : i \in 1..Len(que')} = Range(que') /\ NoTask \notin Range(que')
      /\ NoTask \notin Range(posted) \cup Range(posted')
  BY <1>1, RangeOfQueue, EchoServerAssumption
<1>3. QED
  BY <1>2 DEF Tasks, Jobs

\* The I/O thread reads a line, which nothing behind the socket has been.
LEMMA ReadLinePlaces ==
  ASSUME TypeOK, TypeOK', LinePlaces, IoFree,
         NEW fd \in Fds, conns[fd] # NoClient, HandleLine(fd)
  PROVE  AllRead' /\ OneTask' /\ OneFunctor'
<1> DEFINE c == conns[fd]
           line == Head(inbox[c])
<1>1. /\ c \in Clients /\ inbox[c] \in Seq(Line) /\ inbox[c] # <<>> /\ sent[c] \in Nat
      /\ inbox' = [inbox EXCEPT ![c] = Tail(inbox[c])] /\ adding = NoTask /\ adding' = line
      /\ UNCHANGED <<sent, que, job, callpc, posted, pending, batch, ran>>
  BY DEF HandleLine, HandleOther, TypeOK, IoFree, workVars
<1>2. inbox'[c] = Tail(inbox[c]) /\ \A d \in Clients \ {c} : inbox'[d] = inbox[d]
  BY <1>1 DEF TypeOK
<1> HIDE DEF c
<1>3. /\ Len(inbox[c]) \in Nat \ {0} /\ Len(inbox'[c]) = Len(inbox[c]) - 1
      /\ line = inbox[c][1] /\ line \in Line
  <2>1. /\ Len(inbox[c]) \in Nat \ {0} /\ Len(Tail(inbox[c])) = Len(inbox[c]) - 1
        /\ Head(inbox[c]) = inbox[c][1] /\ Head(inbox[c]) \in Line
    BY ONLY <1>1, HeadTailProperties, LenProperties, EmptySeq
  <2>2. QED
    BY <1>2, <2>1
<1>4. line = [conn |-> c, num |-> sent[c] - Len(inbox[c]) + 1]
  <2>1. 1 \in 1..Len(inbox[c])
    BY <1>3
  <2>2. QED
    BY <1>1, <1>3, <2>1 DEF LinePlaces, Numbered
<1>5. line.conn = c /\ line.num = sent[c] - Len(inbox[c]) + 1
  BY <1>4
<1> HIDE DEF line
<1>6. line \notin Read /\ line \in Read'
  BY <1>1, <1>3, <1>5 DEF Read
<1>7. Read \subseteq Read'
  <2> SUFFICES ASSUME NEW l \in Read PROVE l \in Read'
    OBVIOUS
  <2>1. l \in Line /\ l.conn \in Clients /\ l.num \in Nat
        /\ l.num <= sent[l.conn] - Len(inbox[l.conn])
    BY LineShape DEF Read
  <2>2. CASE l.conn = c
    BY <1>1, <1>3, <2>1, <2>2 DEF Read
  <2>3. CASE l.conn # c
    BY <1>1, <1>2, <2>1, <2>3 DEF Read
  <2>4. QED
    BY <2>2, <2>3
<1>8. Range(posted) \cup Range(que) \cup Jobs \subseteq Read
  BY TasksSplit DEF LinePlaces, AllRead
<1>9. AllRead'
  BY <1>1, <1>6, <1>7, <1>8, TasksSplit DEF LinePlaces, AllRead
<1>10. OneTask'
  BY <1>1, <1>6, <1>8 DEF LinePlaces, OneTask, Jobs
<1>11. OneFunctor'
  BY <1>1 DEF LinePlaces, OneFunctor
<1>12. QED
  BY <1>9, <1>10, <1>11

\* A step that leaves the sockets alone reads nothing.
LEMMA ReadSame ==
  ASSUME UNCHANGED <<sent, inbox>>
  PROVE  Read' = Read
  BY DEF Read

LEMMA AddTaskPlaces ==
  ASSUME TypeOK, TypeOK', LinePlaces, AddTask
  PROVE  AllRead' /\ OneTask' /\ OneFunctor'
<1>1. /\ adding \in Line /\ que \in Seq(Line) /\ que' = Append(que, adding) /\ adding' = NoTask
      /\ UNCHANGED <<sent, inbox, job, callpc, posted, pending, batch, ran>>
  BY DEF AddTask, Pool!Enqueue, TypeOK, loopVars, clientVars
<1>2. /\ Range(que') = Range(que) \cup {adding} /\ IsInjective(que')
  BY <1>1, RangeOfAppend DEF LinePlaces, OneTask
<1>3. Jobs' = Jobs
  BY <1>1 DEF Jobs
<1>4. AllRead'
  BY <1>1, <1>2, <1>3, TasksSplit, ReadSame, EchoServerAssumption DEF LinePlaces, AllRead
<1>5. OneTask'
  BY <1>1, <1>2, <1>3, TasksSplit DEF LinePlaces, OneTask
<1>6. QED
  BY <1>1, <1>4, <1>5 DEF LinePlaces, OneFunctor

LEMMA TakeTaskPlaces ==
  ASSUME TypeOK, TypeOK', LinePlaces, NEW w \in Workers, TakeTask(w)
  PROVE  AllRead' /\ OneTask' /\ OneFunctor'
<1>1. /\ que \in Seq(Line) /\ que # <<>> /\ que' = Tail(que)
      /\ job \in [Workers -> Line \cup {NoTask}] /\ job[w] = NoTask
      /\ job' = [job EXCEPT ![w] = Head(que)]
      /\ UNCHANGED <<sent, inbox, adding, callpc, posted, pending, batch, ran>>
  BY DEF TakeTask, Pool!Dequeue, TypeOK, loopVars, clientVars, connVars
<1>2. /\ Head(que) \in Range(que) /\ Range(que') = Range(que) \ {Head(que)}
      /\ IsInjective(que')
  BY <1>1, RangeOfTail DEF LinePlaces, OneTask
<1>3. Jobs' = Jobs \cup {Head(que)} /\ Head(que) # NoTask
  BY <1>1, <1>2, TasksSplit DEF Jobs
<1>4. AllRead'
  BY <1>1, <1>2, <1>3, TasksSplit, ReadSame DEF LinePlaces, AllRead
<1>5. callpc[w] = "idle"
  BY <1>1, TasksSplit DEF LinePlaces, OneTask
<1>6. \A v \in Workers : job'[v] = IF v = w THEN Head(que) ELSE job[v]
  BY <1>1
<1>7. Head(que) \notin Jobs \cup Range(posted)
  BY <1>2 DEF LinePlaces, OneTask
<1>8. \A u, v \in Workers : job'[u] = job'[v] /\ job'[u] # NoTask => u = v
  BY <1>6, <1>7 DEF Jobs, LinePlaces, OneTask
<1>9. /\ IsInjective(que') /\ Range(que') \cap (Jobs' \cup Range(posted')) = {}
      /\ adding' \notin Range(que') \cup Jobs' \cup Range(posted')
  BY <1>1, <1>2, <1>3 DEF LinePlaces, OneTask
<1>10. \A v \in Workers : IF callpc'[v] = "idle" THEN job'[v] \notin Range(posted')
                                                ELSE job'[v] \in Range(posted')
  BY <1>1, <1>5, <1>6, <1>7 DEF LinePlaces, OneTask
<1>11. QED
  BY <1>1, <1>4, <1>8, <1>9, <1>10 DEF LinePlaces, OneTask, OneFunctor

LEMMA ProcessPlaces ==
  ASSUME TypeOK, TypeOK', LinePlaces, NEW w \in Workers, Process(w)
  PROVE  AllRead' /\ OneTask' /\ OneFunctor'
<1>1. /\ job[w] \in Line /\ posted \in Seq(Line) /\ pending \in Seq(Line)
      /\ posted' = Append(posted, job[w]) /\ pending' = Append(pending, job[w])
      /\ callpc \in [Workers -> {"idle", "wakeup", "return"}]
      /\ callpc[w] = "idle" /\ callpc' = [callpc EXCEPT ![w] = "wakeup"]
      /\ UNCHANGED <<sent, inbox, adding, que, job, batch, ran>>
  BY EchoServerAssumption
  DEF Process, LoopOnly, PushFunctor, Added, GotoCaller, TypeOK, LoopTypeOK, Workers,
      clientVars, connVars, workVars
<1>2. job[w] \notin Range(posted) /\ job[w] \in Jobs
  BY <1>1, EchoServerAssumption DEF LinePlaces, OneTask, Jobs
<1>3. Range(posted') = Range(posted) \cup {job[w]}
  BY <1>1, RangeOfAppend
<1>4. Range(pending') = Range(pending) \cup {job[w]} /\ IsInjective(pending')
  BY <1>1, <1>2, RangeOfAppend DEF LinePlaces, OneFunctor
<1>5. Jobs' = Jobs /\ Tasks' = Tasks /\ Jobs \subseteq Tasks
  <2>1. Jobs' = Jobs
    BY <1>1 DEF Jobs
  <2>2. /\ Tasks = ({adding} \ {NoTask}) \cup Range(que) \cup Jobs
        /\ Tasks' = ({adding'} \ {NoTask}) \cup Range(que') \cup Jobs'
    BY TasksSplit
  <2>3. adding' = adding /\ que' = que
    BY <1>1
  <2>4. QED
    BY ONLY <2>1, <2>2, <2>3
<1>6. AllRead'
  BY <1>1, <1>2, <1>3, <1>5, ReadSame DEF LinePlaces, AllRead
<1>7. \A v \in Workers : IF callpc'[v] = "idle" THEN job'[v] \notin Range(posted')
                                                ELSE job'[v] \in Range(posted')
  <2>1. ASSUME NEW v \in Workers, v # w
        PROVE  job'[v] = job[v] /\ callpc'[v] = callpc[v] /\ job[v] # job[w]
    BY <1>1, <2>1, EchoServerAssumption DEF LinePlaces, OneTask
  <2>2. callpc'[w] = "wakeup"
    BY <1>1
  <2>3. QED
    BY <1>1, <1>3, <2>1, <2>2 DEF LinePlaces, OneTask
<1>8. OneTask'
  BY <1>1, <1>2, <1>3, <1>5, <1>7 DEF LinePlaces, OneTask
<1>9. OneFunctor'
  BY <1>1, <1>2, <1>3, <1>4 DEF LinePlaces, OneFunctor
<1>10. QED
  BY <1>6, <1>8, <1>9

LEMMA FinishTaskPlaces ==
  ASSUME TypeOK, TypeOK', LinePlaces, NEW w \in Workers, FinishTask(w)
  PROVE  AllRead' /\ OneTask' /\ OneFunctor'
<1>1. /\ callpc \in [Workers -> {"idle", "wakeup", "return"}]
      /\ callpc' = [callpc EXCEPT ![w] = "idle"]
      /\ job \in [Workers -> Line \cup {NoTask}] /\ job' = [job EXCEPT ![w] = NoTask]
      /\ UNCHANGED <<sent, inbox, adding, que, posted, pending, batch, ran>>
  BY DEF FinishTask, RunInLoopReturn, GotoCaller, Pool!Release, TypeOK, LoopTypeOK, Workers,
         clientVars, connVars
<1>2. Jobs' \subseteq Jobs
  BY <1>1 DEF Jobs
<1>3. AllRead'
  BY <1>1, <1>2, TasksSplit, ReadSame DEF LinePlaces, AllRead
<1>4. \A v \in Workers : IF v = w THEN callpc'[v] = "idle" /\ job'[v] = NoTask
                                  ELSE callpc'[v] = callpc[v] /\ job'[v] = job[v]
  BY <1>1
<1>5. \A v \in Workers : IF callpc'[v] = "idle" THEN job'[v] \notin Range(posted')
                                                ELSE job'[v] \in Range(posted')
  BY <1>1, <1>4, TasksSplit DEF LinePlaces, OneTask
<1>6. \A u, v \in Workers : job'[u] = job'[v] /\ job'[u] # NoTask => u = v
  BY <1>4 DEF LinePlaces, OneTask
<1>7. OneTask'
  BY <1>1, <1>2, <1>5, <1>6 DEF LinePlaces, OneTask
<1>8. QED
  BY <1>1, <1>3, <1>7 DEF LinePlaces, OneFunctor

LEMMA WakeupPlaces ==
  ASSUME TypeOK, LinePlaces, NEW w \in Workers, Wakeup(w), UNCHANGED lineVars
  PROVE  AllRead' /\ OneTask' /\ OneFunctor'
<1>1. /\ callpc \in [Workers -> {"idle", "wakeup", "return"}]
      /\ callpc[w] = "wakeup" /\ callpc' = [callpc EXCEPT ![w] = "return"]
  BY DEF Wakeup, GotoCaller, TypeOK, LoopTypeOK, Workers
<1>2. \A v \in Workers : callpc'[v] = "idle" <=> callpc[v] = "idle"
  BY <1>1
<1>3. Jobs' = Jobs /\ Tasks' = Tasks /\ Read' = Read
  BY ReadSame DEF Jobs, Tasks, lineVars
<1>4. QED
  BY <1>2, <1>3 DEF lineVars, LinePlaces, AllRead, OneTask, OneFunctor

\* The steps of the I/O thread that move functors.
LEMMA BatchPlaces ==
  ASSUME TypeOK, LinePlaces, LoopOnly(SwapFunctors) \/ RunSend
  PROVE  AllRead' /\ OneTask' /\ OneFunctor'
<1>1. UNCHANGED <<sent, inbox, adding, que, job, callpc, posted>>
  BY DEF LoopOnly, SwapFunctors, RunSend, RunFunctor, clientVars, connVars, workVars
<1>2. Jobs' = Jobs /\ Tasks' = Tasks /\ Read' = Read
  BY <1>1, ReadSame DEF Jobs, Tasks
<1>3. AllRead' /\ OneTask'
  BY <1>1, <1>2 DEF LinePlaces, AllRead, OneTask
<1>4. CASE LoopOnly(SwapFunctors)
  <2>1. batch = <<>> /\ batch' = pending /\ pending' = <<>> /\ ran' = ran
    BY <1>4 DEF LoopOnly, SwapFunctors, Left, GotoIo, TypeOK, LoopTypeOK
  <2>2. Range(<<>>) = {} /\ IsInjective(<<>>)
    BY DEF Range, IsInjective
  <2>3. QED
    BY <1>1, <1>3, <2>1, <2>2 DEF LinePlaces, OneFunctor
<1>5. CASE RunSend
  <2>1. /\ batch \in Seq(Line) /\ ran \in Seq(Line) /\ batch # <<>> /\ batch' = Tail(batch)
        /\ ran' = Append(ran, Head(batch)) /\ pending' = pending /\ Head(batch) \in Line
    BY <1>5, EchoServerAssumption DEF RunSend, RunFunctor, TypeOK, LoopTypeOK
  <2>2. /\ Head(batch) \in Range(batch) /\ Range(batch') = Range(batch) \ {Head(batch)}
        /\ IsInjective(batch')
    BY <2>1, RangeOfTail DEF LinePlaces, OneFunctor
  <2>3. Range(ran') = Range(ran) \cup {Head(batch)}
    BY <2>1, RangeOfAppend
  <2>4. QED
    BY <1>1, <1>3, <2>1, <2>2, <2>3 DEF LinePlaces, OneFunctor
<1>6. QED
  BY <1>4, <1>5

\* A client's send makes nothing read.
LEMMA SendLinePlaces ==
  ASSUME TypeOK, LinePlaces, NEW c \in Clients, SendLine(c)
  PROVE  AllRead' /\ OneTask' /\ OneFunctor'
<1>1. /\ sent \in [Clients -> Nat] /\ inbox \in [Clients -> Seq(Line)]
      /\ sent' = [sent EXCEPT ![c] = sent[c] + 1]
      /\ \E e : inbox' = [inbox EXCEPT ![c] = Append(inbox[c], e)]
      /\ UNCHANGED <<adding, que, job, callpc, posted, pending, batch, ran>>
  BY DEF SendLine, TypeOK, loopVars, connVars, workVars
<1>2. sent[c] \in Nat /\ Len(inbox[c]) \in Nat
  BY <1>1, LenProperties
<1>3. sent'[c] = sent[c] + 1 /\ Len(inbox'[c]) = Len(inbox[c]) + 1
  BY <1>1
<1>4. Read' = Read
  <2>1. ASSUME NEW l \in Line
        PROVE  sent'[l.conn] - Len(inbox'[l.conn]) = sent[l.conn] - Len(inbox[l.conn])
    <3>1. l.conn \in Clients
      BY LineShape
    <3>2. CASE l.conn = c
      BY <1>2, <1>3, <3>2
    <3>3. CASE l.conn # c
      BY <1>1, <3>1, <3>3
    <3>4. QED
      BY <3>2, <3>3
  <2>2. QED
    BY <2>1 DEF Read
<1>5. Jobs' = Jobs /\ Tasks' = Tasks
  BY <1>1 DEF Jobs, Tasks
<1>6. QED
  BY <1>1, <1>4, <1>5 DEF LinePlaces, AllRead, OneTask, OneFunctor

LEMMA LinePlacesStep ==
  ASSUME TypeOK, TypeOK', LinePlaces, Next
  PROVE  LinePlaces'
<1>1. Numbered'
  BY NumberedStep DEF LinePlaces
<1>2. CASE UNCHANGED lineVars /\ UNCHANGED callpc
  <2>1. Jobs' = Jobs /\ Tasks' = Tasks /\ Read' = Read
    BY <1>2, ReadSame DEF Jobs, Tasks, lineVars
  <2>2. QED
    BY <1>1, <1>2, <2>1 DEF lineVars, LinePlaces, AllRead, OneTask, OneFunctor
<1>3. QED
  BY <1>1, <1>2, LineSteps, SendLinePlaces, ReadLinePlaces, AddTaskPlaces, TakeTaskPlaces,
     ProcessPlaces, FinishTaskPlaces, WakeupPlaces, BatchPlaces DEF LinePlaces
-----------------------------------------------------------------------------
(***************************************************************************)
(* Where the clients are: unknown or waiting in the backlog, filed in      *)
(* _conns under the descriptor they have, or dropped.                      *)
(***************************************************************************)
Closed == {"fin", "finrst", "done"}

\* A client that is not accepted has no task: none of its lines has been read.
LEMMA UnacceptedNotLive ==
  ASSUME TypeOK, LinePlaces, Accepting, NEW c \in Unaccepted
  PROVE  c \in Clients /\ c \notin Live
<1>1. c \in Clients
  <2>1. Range(backlog) \subseteq Clients
    BY DEF TypeOK, Range
  <2>2. QED
    BY <2>1 DEF Unaccepted
<1>2. sent[c] \in Nat /\ Len(inbox[c]) = sent[c] /\ c \notin Held
  BY <1>1 DEF TypeOK, Accepting
<1>3. ASSUME NEW task \in Tasks, task.conn = c
      PROVE  FALSE
  <2>1. task \in Line /\ task.num <= sent[c] - Len(inbox[c])
    BY <1>3 DEF LinePlaces, AllRead, Read
  <2>2. task.num \in Nat /\ task.num >= 1
    BY <2>1, <1>1, <1>3, LineShape, EchoServerAssumption
  <2>3. QED
    BY <1>2, <2>1, <2>2
<1>4. QED
  BY <1>1, <1>2, <1>3 DEF Live

\* _conns files a connection once.
LEMMA FiledOnce ==
  ASSUME FdsUnique, NEW f \in Fds, NEW g \in Fds, conns[f] # NoClient, conns[f] = conns[g]
  PROVE  f = g
  BY DEF FdsUnique

\* A step that moves no client: the peers go on as they may, sockets of clients not
\* accepted keep all they get, and a ready socket that is still to be handled stays so.
LEMMA SettledClients ==
  ASSUME TypeOK, ClientPlaces, UNCHANGED <<conns, fdOf, backlog>>,
         Live' \subseteq Live, todo' \subseteq todo,
         \A c \in Clients : /\ peer'[c] = "new" <=> peer[c] = "new"
                            /\ peer[c] \in Closed => peer'[c] \in Closed,
         \A c \in Unaccepted : Len(inbox'[c]) = sent'[c],
         \A fd \in todo' \cap Fds : inbox'[conns[fd]] # <<>> \/ peer'[conns[fd]] # "open"
  PROVE  ClientPlaces'
<1>1. Held' = Held /\ Unaccepted' = Unaccepted
  <2>1. {c \in Clients : peer'[c] = "new"} = {c \in Clients : peer[c] = "new"}
    OBVIOUS
  <2>2. QED
    BY ONLY <2>1, UNCHANGED <<conns, backlog>> DEF Held, Unaccepted
<1>2. \A c \in Range(backlog) : c \in Clients
  BY DEF TypeOK, Range
<1>3. Accepting'
  <2>1. \A c \in Range(backlog) : peer'[c] # "new"
    BY <1>2 DEF ClientPlaces, Accepting
  <2>2. \A c \in Unaccepted : c \notin Held /\ Len(inbox'[c]) = sent'[c]
    BY DEF ClientPlaces, Accepting
  <2>3. IsInjective(backlog) /\ (ListenFd \in todo' => backlog # <<>>)
    BY DEF ClientPlaces, Accepting
  <2>4. QED
    BY ONLY <1>1, <2>1, <2>2, <2>3, UNCHANGED backlog DEF Accepting
<1>4. DroppedWhenClosed'
  <2>1. \A c \in Clients \ (Unaccepted \cup Held) : peer'[c] \in Closed
    BY DEF ClientPlaces, DroppedWhenClosed, Closed
  <2>2. QED
    BY ONLY <1>1, <2>1 DEF DroppedWhenClosed, Closed
<1>5. FdsUnique'
  BY DEF ClientPlaces, FdsUnique, Live
<1>6. BatchFresh'
  BY DEF ClientPlaces, BatchFresh, Readable
<1>7. QED
  BY <1>3, <1>4, <1>5, <1>6 DEF ClientPlaces

LEMMA AcceptPlaces ==
  ASSUME TypeOK, LinePlaces, ClientPlaces, HandleNewConnection
  PROVE  ClientPlaces'
<1>1. PICK c \in Clients, fd \in FreeFds :
        /\ c = Head(backlog) /\ backlog # <<>> /\ backlog' = Tail(backlog)
        /\ fdOf' = [fdOf EXCEPT ![c] = fd]
        /\ conns' = IF conns[fd] = NoClient THEN [conns EXCEPT ![fd] = c] ELSE conns
  BY AcceptStep DEF ClientPlaces
<1>2. /\ UNCHANGED <<peer, sent, inbox, adding, que, job>>
      /\ todo' = todo \ {ListenFd}
  BY EchoServerAssumption, EventLoopAssumption
  DEF HandleNewConnection, HandleOther, workVars
<1>3. /\ c \in Range(backlog) /\ Range(backlog') = Range(backlog) \ {c}
      /\ IsInjective(backlog')
  BY <1>1, RangeOfTail DEF TypeOK, ClientPlaces, Accepting
<1>4. c \in Unaccepted /\ c \notin Live /\ c \notin Held
  BY <1>3, UnacceptedNotLive DEF Unaccepted, ClientPlaces, Live
<1>5. fd \in Fds /\ conns[fd] = NoClient /\ \A d \in Live : fdOf[d] # fd
  <2>1. fd \in Fds /\ \A d \in Live : fdOf[d] # fd
    BY DEF FreeFds
  <2>2. conns[fd] # NoClient => conns[fd] \in Live /\ fdOf[conns[fd]] = fd
    BY <2>1 DEF Live, Held, ClientPlaces, FdsUnique
  <2>3. QED
    BY <2>1, <2>2
<1>6. /\ conns' = [conns EXCEPT ![fd] = c] /\ conns \in [Fds -> Clients \cup {NoClient}]
      /\ fdOf' = [fdOf EXCEPT ![c] = fd] /\ fdOf \in [Clients -> Fds \cup {0}]
      /\ NoClient \notin Clients
  BY <1>1, <1>5, EchoServerAssumption DEF TypeOK
<1>7. Held' = Held \cup {c} /\ Tasks' = Tasks /\ Live' = Live \cup {c}
  <2>1. Held' = Held \cup {c}
    BY <1>5, <1>6 DEF Held
  <2>2. Tasks' = Tasks
    BY <1>2 DEF Tasks
  <2>3. QED
    BY <2>1, <2>2 DEF Live
<1>8. Unaccepted' = Unaccepted \ {c}
  <2>1. peer[c] # "new"
    BY <1>3 DEF ClientPlaces, Accepting
  <2>2. QED
    BY <1>2, <1>3, <2>1 DEF Unaccepted
<1>9. Accepting'
  BY <1>2, <1>3, <1>7, <1>8 DEF ClientPlaces, Accepting
<1>10. DroppedWhenClosed'
  BY <1>2, <1>7, <1>8 DEF ClientPlaces, DroppedWhenClosed
<1>11. FdsUnique'
  <2>1. \A d, e \in Live' : fdOf'[d] = fdOf'[e] => d = e
    <3>1. Live \subseteq Clients
      BY TasksAreLines
    <3>2. \A d \in Live : fdOf'[d] = fdOf[d]
      BY <1>4, <1>6, <3>1
    <3>3. fdOf'[c] = fd
      BY <1>6
    <3>4. \A d, e \in Live : fdOf[d] = fdOf[e] => d = e
      BY DEF ClientPlaces, FdsUnique, Live
    <3>5. QED
      BY <1>5, <1>7, <3>2, <3>3, <3>4
  <2>2. \A f \in Fds : conns'[f] # NoClient => fdOf'[conns'[f]] = f
    <3> TAKE f \in Fds
    <3>1. CASE f = fd
      BY <1>6, <3>1
    <3>2. CASE f # fd
      <4>1. conns'[f] = conns[f] /\ (conns[f] # NoClient => conns[f] \in Clients /\ conns[f] # c)
        BY <1>4, <1>6, <3>2 DEF Held
      <4>2. QED
        BY <1>6, <4>1 DEF ClientPlaces, FdsUnique
    <3>3. QED
      BY <3>1, <3>2
  <2>3. QED
    BY <2>1, <2>2 DEF FdsUnique, Live
<1>12. BatchFresh'
  <2>1. ASSUME NEW f \in todo' \cap Fds
        PROVE  conns'[f] = conns[f] /\ conns[f] # NoClient /\ Readable(conns[f])
    BY <1>2, <1>5, <1>6 DEF ClientPlaces, BatchFresh
  <2>2. QED
    BY <1>2, <2>1 DEF BatchFresh, Readable
<1>13. QED
  BY <1>9, <1>10, <1>11, <1>12 DEF ClientPlaces

LEMMA ClosePlaces ==
  ASSUME TypeOK, ClientPlaces, NEW fd \in Fds, conns[fd] # NoClient, HandleClose(fd)
  PROVE  ClientPlaces'
<1>1. /\ conns' = [conns EXCEPT ![fd] = NoClient] /\ conns \in [Fds -> Clients \cup {NoClient}]
      /\ UNCHANGED <<peer, sent, inbox, backlog, fdOf, adding, que, job>>
      /\ todo' = todo \ {fd} /\ peer[conns[fd]] \in Closed
  BY DEF HandleClose, HandleOther, TypeOK, clientVars, workVars, Closed
<1>2. \A f \in Fds : conns'[f] = IF f = fd THEN NoClient ELSE conns[f]
  BY <1>1
<1>3. Held' = Held \ {conns[fd]} /\ Tasks' = Tasks /\ Live' \subseteq Live
  <2>1. Held' = Held \ {conns[fd]}
    BY <1>2, FiledOnce DEF Held, ClientPlaces
  <2>2. Tasks' = Tasks
    BY <1>1 DEF Tasks
  <2>3. QED
    BY <2>1, <2>2 DEF Live
<1>4. Unaccepted' = Unaccepted
  BY <1>1 DEF Unaccepted
<1>5. Accepting'
  BY <1>1, <1>3, <1>4 DEF ClientPlaces, Accepting
<1>6. DroppedWhenClosed'
  BY <1>1, <1>3, <1>4 DEF ClientPlaces, DroppedWhenClosed, Closed
<1>7. FdsUnique'
  BY <1>1, <1>2, <1>3 DEF ClientPlaces, FdsUnique, Live
<1>8. BatchFresh'
  BY <1>1, <1>2 DEF ClientPlaces, BatchFresh, Readable
<1>9. QED
  BY <1>5, <1>6, <1>7, <1>8 DEF ClientPlaces

LEMMA ConnectPlaces ==
  ASSUME TypeOK, ClientPlaces, NEW c \in Clients, Connect(c)
  PROVE  ClientPlaces'
<1>1. /\ peer \in [Clients -> PeerStates] /\ peer[c] = "new" /\ peer' = [peer EXCEPT ![c] = "open"]
      /\ backlog \in Seq(Clients) /\ backlog' = Append(backlog, c)
      /\ UNCHANGED <<sent, inbox, conns, fdOf, adding, que, job, todo>>
  BY DEF Connect, TypeOK, loopVars, connVars, workVars
<1>2. c \notin Range(backlog)
  BY <1>1 DEF ClientPlaces, Accepting
<1>3. Range(backlog') = Range(backlog) \cup {c} /\ IsInjective(backlog')
  BY <1>1, <1>2, RangeOfAppend DEF ClientPlaces, Accepting
<1>4. Unaccepted' = Unaccepted /\ Held' = Held /\ Tasks' = Tasks /\ c \in Unaccepted
  BY <1>1, <1>3 DEF Unaccepted, Held, Tasks
<1>5. Range(backlog) \subseteq Clients
  BY <1>1 DEF Range
<1>6. backlog' # <<>>
  BY <1>1
<1>7. Accepting'
  BY <1>1, <1>3, <1>4, <1>5, <1>6 DEF ClientPlaces, Accepting
<1>8. DroppedWhenClosed'
  BY <1>1, <1>4 DEF ClientPlaces, DroppedWhenClosed
<1>9. FdsUnique'
  BY <1>1, <1>4 DEF ClientPlaces, FdsUnique
<1>10. BatchFresh'
  <2>1. ASSUME NEW fd \in todo \cap Fds
        PROVE  conns[fd] # NoClient /\ Readable(conns[fd]) /\ conns[fd] \in Clients /\ conns[fd] # c
    BY <1>4 DEF ClientPlaces, Accepting, BatchFresh, Held, TypeOK
  <2>2. QED
    BY <1>1, <2>1 DEF BatchFresh, Readable
<1>11. QED
  BY <1>7, <1>8, <1>9, <1>10 DEF ClientPlaces

LEMMA EpollPlaces ==
  ASSUME TypeOK, ClientPlaces, LoopOnly(EpollReturn(ReadyFds))
  PROVE  ClientPlaces'
<1>1. /\ todo' \subseteq ReadyFds \cup {EventFd}
      /\ UNCHANGED <<peer, sent, inbox, backlog, conns, fdOf, adding, que, job>>
  BY DEF LoopOnly, EpollReturn, clientVars, connVars, workVars
<1>2. EventFd \notin Fds /\ ListenFd \notin Fds /\ EventFd # ListenFd
  BY EventLoopAssumption, EchoServerAssumption
<1>3. Held' = Held /\ Tasks' = Tasks /\ Unaccepted' = Unaccepted
  BY <1>1 DEF Held, Tasks, Unaccepted
<1>4. Accepting'
  BY <1>1, <1>2, <1>3 DEF ClientPlaces, Accepting, ReadyFds
<1>5. BatchFresh'
  BY <1>1, <1>2 DEF BatchFresh, ReadyFds, Readable
<1>6. QED
  BY <1>1, <1>3, <1>4, <1>5 DEF ClientPlaces, DroppedWhenClosed, FdsUnique

\* The steps that keep every client where it is.
LEMMA SettledSteps ==
  ASSUME TypeOK, TypeOK', LinePlaces, ClientPlaces, Next
  PROVE  \/ HandleNewConnection
         \/ \E fd \in Fds : conns[fd] # NoClient /\ HandleClose(fd)
         \/ \E c \in Clients : Connect(c)
         \/ LoopOnly(EpollReturn(ReadyFds))
         \/ ClientPlaces'
<1> USE DEF clientVars, connVars, workVars, loopVars
<1>1. ASSUME UNCHANGED <<peer, sent, inbox, backlog, conns, fdOf>>, Tasks' \subseteq Tasks,
             todo' \subseteq todo
      PROVE  ClientPlaces'
  <2>1. Live' \subseteq Live
    BY <1>1 DEF Live, Held
  <2>2. \A c \in Unaccepted : Len(inbox'[c]) = sent'[c]
    BY <1>1 DEF ClientPlaces, Accepting
  <2>3. \A fd \in todo' \cap Fds : inbox'[conns[fd]] # <<>> \/ peer'[conns[fd]] # "open"
    BY <1>1 DEF ClientPlaces, BatchFresh, Readable
  <2>4. QED
    BY <1>1, <2>1, <2>2, <2>3, SettledClients
<1>2. CASE \/ LoopOnly(Start) \/ LoopOnly(LoopBegin) \/ LoopOnly(LoopTest)
           \/ LoopOnly(HandleReadEvent) \/ LoopOnly(SwapFunctors) \/ LoopOnly(FunctorsDone)
           \/ LoopOnly(BatchDone) \/ LoopOnly(HandleOther(ListenFd))
           \/ \E w \in Workers : Process(w) \/ LoopOnly(Wakeup(w))
  <2>1. UNCHANGED <<clientVars, connVars, workVars>> /\ todo' \subseteq todo
    BY <1>2 DEF LoopOnly, Start, LoopBegin, LoopTest, HandleReadEvent, SwapFunctors,
                FunctorsDone, BatchDone, HandleOther, Wakeup, Process, PushFunctor
  <2>2. Tasks' = Tasks
    BY <2>1 DEF Tasks
  <2>3. QED
    BY <1>1, <2>1, <2>2
<1>3. CASE AddTask
  <2>1. Jobs' = Jobs /\ adding \in Line /\ que' = Append(que, adding) /\ adding' = NoTask
    BY <1>3 DEF AddTask, Pool!Enqueue, Jobs, TypeOK
  <2>2. Range(que') = Range(que) \cup {adding}
    BY <2>1, RangeOfAppend DEF TypeOK
  <2>3. Tasks' \subseteq Tasks
    BY <2>1, <2>2, TasksSplit, EchoServerAssumption
  <2>4. QED
    BY <1>1, <1>3, <2>3 DEF AddTask
<1>4. ASSUME NEW w \in Workers, TakeTask(w)
      PROVE  ClientPlaces'
  <2>1. /\ Head(que) \in Range(que) /\ Range(que') \subseteq Range(que) /\ adding' = adding
        /\ job' = [job EXCEPT ![w] = Head(que)]
    BY <1>4, RangeOfTail DEF TakeTask, Pool!Dequeue, TypeOK, LinePlaces, OneTask
  <2>2. Jobs' \subseteq Jobs \cup {Head(que)}
    BY <2>1 DEF TypeOK, Jobs
  <2>3. Tasks' \subseteq Tasks
    BY <2>1, <2>2, TasksSplit
  <2>4. QED
    BY <1>1, <1>4, <2>3 DEF TakeTask
<1>5. ASSUME NEW w \in Workers, FinishTask(w)
      PROVE  ClientPlaces'
  <2>1. que' = que /\ adding' = adding /\ job' = [job EXCEPT ![w] = NoTask]
    BY <1>5 DEF FinishTask, Pool!Release
  <2>2. Jobs' \subseteq Jobs
    BY <2>1 DEF TypeOK, Jobs
  <2>3. Tasks' \subseteq Tasks
    BY <2>1, <2>2, TasksSplit
  <2>4. QED
    BY <1>1, <1>5, <2>3 DEF FinishTask, RunInLoopReturn
<1>6. ASSUME NEW fd \in Fds, conns[fd] # NoClient, HandleLine(fd), IoFree
      PROVE  ClientPlaces'
  <2>1. /\ conns[fd] \in Clients /\ inbox[conns[fd]] \in Seq(Line) /\ inbox[conns[fd]] # <<>>
        /\ inbox' = [inbox EXCEPT ![conns[fd]] = Tail(@)] /\ adding' = Head(inbox[conns[fd]])
        /\ fd \in todo /\ todo' = todo \ {fd}
        /\ UNCHANGED <<peer, sent, backlog, conns, fdOf, que, job>>
    BY <1>6 DEF HandleLine, HandleOther, TypeOK
  <2>2. conns[fd] \in Held /\ adding'.conn = conns[fd]
    <3>1. Head(inbox[conns[fd]]) = inbox[conns[fd]][1] /\ 1 \in 1..Len(inbox[conns[fd]])
      BY ONLY <2>1, HeadTailProperties, LenProperties, EmptySeq
    <3>2. ASSUME NEW c \in Clients, NEW i \in 1..Len(inbox[c])
          PROVE  inbox[c][i].conn = c
      <4>1. inbox[c][i] = [conn |-> c, num |-> sent[c] - Len(inbox[c]) + i]
        BY DEF LinePlaces, Numbered
      <4>2. QED
        BY <4>1
    <3>3. QED
      BY <1>6, <2>1, <3>1, <3>2 DEF Held
  <2>3. Live' \subseteq Live
    <3>1. Tasks' \subseteq Tasks \cup {adding'} /\ Held' = Held
      BY <2>1 DEF Tasks, Held
    <3>2. QED
      BY <2>2, <3>1 DEF Live
  <2>4. \A c \in Unaccepted : Len(inbox'[c]) = sent'[c]
    BY <2>1, <2>2, UnacceptedNotLive DEF ClientPlaces, Accepting, TypeOK
  <2>5. ASSUME NEW f \in todo' \cap Fds
        PROVE  inbox'[conns[f]] # <<>> \/ peer'[conns[f]] # "open"
    <3>1. f # fd /\ conns[f] # NoClient /\ Readable(conns[f]) /\ conns[f] \in Clients
      BY <2>1 DEF ClientPlaces, BatchFresh, TypeOK
    <3>2. conns[f] # conns[fd]
      BY <1>6, <3>1, FiledOnce DEF ClientPlaces
    <3>3. QED
      BY <2>1, <3>1, <3>2 DEF Readable, TypeOK
  <2>6. QED
    BY <2>1, <2>3, <2>4, <2>5, SettledClients
<1>7. ASSUME UNCHANGED <<sent, inbox, backlog, conns, fdOf, adding, que, job>>,
             todo' \subseteq todo,
             \A c \in Clients : /\ peer'[c] = "new" <=> peer[c] = "new"
                                /\ peer[c] \in Closed => peer'[c] \in Closed
                                /\ peer[c] # "open" => peer'[c] # "open"
      PROVE  ClientPlaces'
  <2>1. Live' \subseteq Live
    BY <1>7 DEF Live, Held, Tasks
  <2>2. \A c \in Unaccepted : Len(inbox'[c]) = sent'[c]
    BY <1>7 DEF ClientPlaces, Accepting
  <2>3. \A fd \in todo' \cap Fds : inbox'[conns[fd]] # <<>> \/ peer'[conns[fd]] # "open"
    BY <1>7 DEF ClientPlaces, BatchFresh, Readable, TypeOK
  <2>4. QED
    BY <1>7, <2>1, <2>2, <2>3, SettledClients
<1>8. ASSUME NEW fd \in Fds, conns[fd] # NoClient, HandleReset(fd)
      PROVE  ClientPlaces'
  <2>1. /\ todo' \subseteq todo /\ peer[conns[fd]] = "rst"
        /\ peer' = [peer EXCEPT ![conns[fd]] = "done"]
        /\ UNCHANGED <<sent, inbox, backlog, conns, fdOf, adding, que, job>>
    BY <1>8 DEF HandleReset, HandleOther
  <2>2. \A c \in Clients : peer'[c] = IF c = conns[fd] THEN "done" ELSE peer[c]
    BY <2>1 DEF TypeOK
  <2>3. QED
    BY <1>7, <2>1, <2>2 DEF Closed
<1>9. CASE RunSend
  <2>1. UNCHANGED <<sent, inbox, backlog, conns, fdOf, adding, que, job, todo>>
    BY <1>9 DEF RunSend, RunFunctor
  <2>2. (\E c, line : Send(c, line)) \/ UNCHANGED peer
    BY <1>9 DEF RunSend
  <2>3. \A c \in Clients : /\ peer'[c] = "new" <=> peer[c] = "new"
                           /\ peer[c] \in Closed => peer'[c] \in Closed
                           /\ peer[c] # "open" => peer'[c] # "open"
    BY <2>2 DEF Send, Closed, TypeOK
  <2>4. QED
    BY <1>7, <2>1, <2>3
<1>10. ASSUME NEW c \in Clients, CloseClient(c)
       PROVE  ClientPlaces'
  <2>1. /\ UNCHANGED <<sent, inbox, backlog, conns, fdOf, adding, que, job, todo>>
        /\ peer[c] = "open"
        /\ \E how \in {"fin", "finrst", "rst"} : peer' = [peer EXCEPT ![c] = how]
    BY <1>10 DEF CloseClient
  <2>2. \A d \in Clients : /\ peer'[d] = "new" <=> peer[d] = "new"
                           /\ peer[d] \in Closed => peer'[d] \in Closed
                           /\ peer[d] # "open" => peer'[d] # "open"
    BY <2>1 DEF Closed, TypeOK
  <2>3. QED
    BY <1>7, <2>1, <2>2
<1>11. ASSUME NEW c \in Clients, SendLine(c)
       PROVE  ClientPlaces'
  <2>1. /\ UNCHANGED <<peer, backlog, conns, fdOf, adding, que, job, todo>>
        /\ sent' = [sent EXCEPT ![c] = sent[c] + 1]
        /\ \E e : inbox' = [inbox EXCEPT ![c] = Append(inbox[c], e)]
    BY <1>11 DEF SendLine
  <2>2. Live' \subseteq Live
    BY <2>1 DEF Live, Held, Tasks
  <2>3. /\ sent'[c] = sent[c] + 1 /\ Len(inbox'[c]) = Len(inbox[c]) + 1 /\ inbox'[c] # <<>>
        /\ \A d \in Clients \ {c} : sent'[d] = sent[d] /\ inbox'[d] = inbox[d]
    <3>1. /\ inbox \in [Clients -> Seq(Line)] /\ inbox[c] \in Seq(Line)
          /\ sent \in [Clients -> Nat]
      BY DEF TypeOK
    <3>2. PICK e : inbox' = [inbox EXCEPT ![c] = Append(inbox[c], e)]
      BY <2>1
    <3>3. Len(Append(inbox[c], e)) = Len(inbox[c]) + 1 /\ Append(inbox[c], e) # <<>>
      BY <3>1
    <3>4. QED
      BY ONLY <2>1, <3>1, <3>2, <3>3, c \in Clients
  <2>4. \A d \in Unaccepted : d \in Clients /\ Len(inbox[d]) = sent[d]
    BY UnacceptedNotLive DEF ClientPlaces, Accepting
  <2>5. \A d \in Unaccepted : Len(inbox'[d]) = sent'[d]
    BY <2>3, <2>4
  <2>6. ASSUME NEW fd \in todo' \cap Fds
        PROVE  inbox'[conns[fd]] # <<>> \/ peer'[conns[fd]] # "open"
    <3>1. conns[fd] \in Clients /\ Readable(conns[fd])
      BY <2>1 DEF ClientPlaces, BatchFresh, TypeOK
    <3>2. QED
      BY <2>1, <2>3, <3>1 DEF Readable
  <2>7. QED
    BY <2>1, <2>2, <2>5, <2>6, SettledClients
<1>12. ASSUME NEW c \in Clients, Reads(c)
       PROVE  ClientPlaces'
  <2>1. UNCHANGED <<peer, sent, inbox, backlog, conns, fdOf, adding, que, job, todo>>
    BY <1>12 DEF Reads, loopVars, connVars, workVars
  <2>2. QED
    BY <1>7, <2>1
<1>13. QED
  BY ONLY Next, ServerSteps, <1>2, <1>3, <1>4, <1>5, <1>6, <1>8, <1>9, <1>10, <1>11, <1>12

LEMMA ClientPlacesStep ==
  ASSUME TypeOK, TypeOK', LinePlaces, ClientPlaces, Next
  PROVE  ClientPlaces'
  BY SettledSteps, AcceptPlaces, ClosePlaces, ConnectPlaces, EpollPlaces

-----------------------------------------------------------------------------
(***************************************************************************)
(* What the clients get.  An echo is sent when its functor is run, once;   *)
(* so a line whose functor has not been run is not among its client's      *)
(* echoes, and the client has fewer echoes than it has sent lines.         *)
(***************************************************************************)
\* The line of a functor goes to its own client, whose descriptor is nobody else's.
LEMMA SendsToOwner ==
  ASSUME FdsUnique, RunSend, Head(batch).conn \in Live
  PROVE  Send(Head(batch).conn, Head(batch)) /\ UNCHANGED dangling
<1>1. PICK c \in Live : fdOf[c] = fdOf[Head(batch).conn] /\ Send(c, Head(batch))
  BY DEF RunSend
<1>2. c = Head(batch).conn
  BY <1>1 DEF FdsUnique, Live
<1>3. QED
  BY <1>1, <1>2 DEF RunSend

LEMMA EchoesStep ==
  ASSUME TypeOK, LinePlaces, FdsUnique, EchoesRun, Next
  PROVE  EchoesRun'
<1>1. CASE UNCHANGED <<echoes, ran, dangling>>
  BY <1>1 DEF EchoesRun
<1>2. ASSUME RunSend, ~dangling'
      PROVE  EchoesRun'
  <2> DEFINE line == Head(batch)
             c == line.conn
  <2>1. /\ c \in Live /\ Send(c, line) /\ ~dangling
        /\ batch \in Seq(Line) /\ batch # <<>> /\ ran \in Seq(Line) /\ ran' = Append(ran, line)
    <3>1. c \in Live
      BY <1>2 DEF RunSend
    <3>2. Send(c, line) /\ UNCHANGED dangling
      BY <1>2, <3>1, SendsToOwner
    <3>3. QED
      BY <1>2, <3>1, <3>2, EchoServerAssumption DEF RunSend, RunFunctor, TypeOK, LoopTypeOK
  <2>2. line \in Line /\ line \in Range(batch) /\ c \in Clients
    BY <2>1, RangeOfTail, TasksAreLines DEF LinePlaces, OneFunctor
  <2>3. line \notin Range(ran) /\ Range(ran') = Range(ran) \cup {line}
    BY <2>1, <2>2, RangeOfAppend DEF LinePlaces, OneFunctor
  <2>4. /\ echoes \in [Clients -> Seq(Line)]
        /\ UNCHANGED echoes \/ echoes' = [echoes EXCEPT ![c] = Append(echoes[c], line)]
    BY <2>1 DEF Send, TypeOK
  <2> HIDE DEF line
  <2>5. line \notin Range(echoes[c]) /\ echoes[c] \in Seq(Line)
    BY <2>1, <2>2, <2>3, <2>4 DEF EchoesRun
  <2>6. /\ Range(Append(echoes[c], line)) = Range(echoes[c]) \cup {line}
        /\ IsInjective(Append(echoes[c], line))
    BY <2>1, <2>2, <2>5, RangeOfAppend DEF EchoesRun
  <2>7. \A d \in Clients : echoes'[d] \in {echoes[d], IF d = c THEN Append(echoes[c], line)
                                                               ELSE echoes[d]}
    BY <2>4
  <2>8. ASSUME NEW d \in Clients, echoes'[d] = echoes[d]
        PROVE  IsInjective(echoes'[d]) /\ Range(echoes'[d]) \subseteq {l \in Range(ran') : l.conn = d}
    BY <2>1, <2>3, <2>8 DEF EchoesRun
  <2>9. Range(echoes[c]) \subseteq {l \in Range(ran) : l.conn = c}
    BY <2>1, <2>2 DEF EchoesRun
  <2>10. ASSUME NEW d \in Clients, d = c, echoes'[d] = Append(echoes[c], line)
         PROVE  IsInjective(echoes'[d]) /\ Range(echoes'[d]) \subseteq {l \in Range(ran') : l.conn = d}
    BY <2>3, <2>6, <2>9, <2>10
  <2>11. ASSUME NEW d \in Clients
         PROVE  IsInjective(echoes'[d]) /\ Range(echoes'[d]) \subseteq {l \in Range(ran') : l.conn = d}
    BY <2>7, <2>8, <2>10
  <2>12. QED
    BY <2>11 DEF EchoesRun
<1>3. UNCHANGED <<echoes, ran, dangling>> \/ RunSend
  BY ServerSteps
  DEF LoopOnly, Start, LoopBegin, LoopTest, EpollReturn, HandleReadEvent, SwapFunctors,
      FunctorsDone, BatchDone, HandleOther, HandleNewConnection, HandleLine, HandleClose,
      HandleReset, AddTask, TakeTask, Process, PushFunctor, Wakeup, FinishTask,
      RunInLoopReturn, Connect, SendLine, Reads, CloseClient, clientVars, connVars, workVars,
      fateVars, loopVars
<1>4. QED
  BY <1>1, <1>2, <1>3 DEF EchoesRun

\* A line of c that is posted has a number that c has sent.
LEMMA PostedSent ==
  ASSUME TypeOK, LinePlaces, NEW line \in Range(posted)
  PROVE  /\ line \in Line /\ line.conn \in Clients /\ line.num \in 1..sent[line.conn]
         /\ line = [conn |-> line.conn, num |-> line.num]
         /\ sent[line.conn] - Len(inbox[line.conn]) >= 1
<1>1. line \in Line /\ line.num <= sent[line.conn] - Len(inbox[line.conn])
  BY DEF LinePlaces, AllRead, Read
<1>2. /\ line.conn \in Clients /\ line.num \in Nat /\ line.num >= 1
      /\ line = [conn |-> line.conn, num |-> line.num]
  BY <1>1, LineShape, EchoServerAssumption
<1>3. sent[line.conn] \in Nat /\ Len(inbox[line.conn]) \in Nat
  BY <1>2, LenProperties DEF TypeOK
<1>4. QED
  BY <1>1, <1>2, <1>3

\* Echoes have different numbers; so there are no more of them than numbers they have.
LEMMA EchoNumbers ==
  ASSUME TypeOK, LinePlaces, EchoesRun, ~dangling, NEW c \in Clients, NEW N \in SUBSET Nat,
         IsFiniteSet(N), \A i \in 1..Len(echoes[c]) : echoes[c][i].num \in N
  PROVE  Len(echoes[c]) <= Cardinality(N)
<1> DEFINE E == 1..Len(echoes[c])
           f == [i \in E |-> echoes[c][i].num]
<1>1. echoes[c] \in Seq(Line) /\ DOMAIN echoes[c] = E /\ Len(echoes[c]) \in Nat
  BY LenProperties DEF TypeOK
<1>2. \A i \in E : echoes[c][i] = [conn |-> c, num |-> echoes[c][i].num]
  <2> TAKE i \in E
  <2>1. echoes[c][i] \in Range(ran) /\ echoes[c][i].conn = c
    BY <1>1 DEF EchoesRun, Range
  <2>2. QED
    BY <2>1, PostedSent DEF LinePlaces, OneFunctor
<1>3. IsInjective(echoes[c])
  BY DEF EchoesRun
<1>4. f \in Injection(E, N)
  <2>1. f \in [E -> N]
    OBVIOUS
  <2>2. ASSUME NEW i \in E, NEW j \in E, f[i] = f[j]
        PROVE  i = j
    <3>1. echoes[c][i] = echoes[c][j]
      BY <1>2, <2>2
    <3>2. QED
      BY <1>1, <1>3, <3>1 DEF IsInjective
  <2>3. QED
    BY <2>1, <2>2 DEF Injection, IsInjective
<1>5. IsFiniteSet(E) /\ Cardinality(E) = Len(echoes[c])
  <2>1. \A n \in Nat : IsFiniteSet(1..n) /\ Cardinality(1..n) = n
    BY FS_Interval
  <2>2. QED
    BY <1>1, <2>1
<1>6. Cardinality(E) <= Cardinality(N)
  BY <1>4, FS_Injection
<1>7. QED
  BY <1>5, <1>6

\* No client has more echoes than it has sent lines.
LEMMA EchoesSent ==
  ASSUME TypeOK, LinePlaces, EchoesRun, ~dangling, NEW c \in Clients
  PROVE  Len(echoes[c]) <= sent[c]
<1>1. ASSUME NEW i \in 1..Len(echoes[c])
      PROVE  echoes[c][i].num \in 1..sent[c]
  <2>1. echoes[c][i] \in Range(echoes[c])
    BY DEF Range, TypeOK
  <2>2. echoes[c][i] \in Range(ran) /\ echoes[c][i].conn = c
    BY <2>1 DEF EchoesRun
  <2>3. QED
    BY <2>2, PostedSent DEF LinePlaces, OneFunctor
<1>2. sent[c] \in Nat
  BY DEF TypeOK
<1>3. IsFiniteSet(1..sent[c]) /\ Cardinality(1..sent[c]) = sent[c] /\ 1..sent[c] \in SUBSET Nat
  BY <1>2, FS_Interval, SMTT(30)
<1>4. QED
  BY <1>1, <1>3, EchoNumbers

\* A line whose functor has not been run is missing among the echoes.
LEMMA FewerEchoes ==
  ASSUME TypeOK, LinePlaces, EchoesRun, ~dangling, NEW line \in Range(posted) \ Range(ran)
  PROVE  Len(echoes[line.conn]) < sent[line.conn]
<1> DEFINE c == line.conn
           N == 1..sent[c]
<1>1. c \in Clients /\ line.num \in N /\ line = [conn |-> c, num |-> line.num]
  BY PostedSent
<1>2. /\ echoes[c] \in Seq(Line) /\ DOMAIN echoes[c] = 1..Len(echoes[c])
      /\ Len(echoes[c]) \in Nat /\ sent[c] \in Nat
  BY <1>1, LenProperties DEF TypeOK
<1>3. ASSUME NEW i \in 1..Len(echoes[c])
      PROVE  echoes[c][i].num \in N \ {line.num}
  <2>1. echoes[c][i] \in Range(echoes[c])
    BY <1>2 DEF Range
  <2>2. echoes[c][i] \in Range(ran) /\ echoes[c][i].conn = c
    BY <1>1, <2>1 DEF EchoesRun
  <2>3. echoes[c][i] \in Range(posted) /\ echoes[c][i] # line
    BY <2>2 DEF LinePlaces, OneFunctor
  <2> HIDE DEF c
  <2>4. /\ echoes[c][i] = [conn |-> c, num |-> echoes[c][i].num]
        /\ echoes[c][i].num \in 1..sent[c]
    BY <2>2, <2>3, PostedSent
  <2>5. QED
    BY <1>1, <2>3, <2>4
<1>4. /\ IsFiniteSet(N \ {line.num}) /\ Cardinality(N \ {line.num}) = sent[c] - 1
      /\ N \ {line.num} \in SUBSET Nat
  <2>1. PICK num \in N : num = line.num
    BY <1>1
  <2>2. \A n \in Nat : IsFiniteSet(1..n) /\ Cardinality(1..n) = n
    BY FS_Interval
  <2>3. IsFiniteSet(N) /\ Cardinality(N) = sent[c] /\ N \in SUBSET Nat
    BY <1>2, <2>2
  <2>4. IsFiniteSet(N \ {num}) /\ Cardinality(N \ {num}) = Cardinality(N) - 1
    BY ONLY <2>3, FS_RemoveElement, num \in N
  <2>5. QED
    BY <2>1, <2>3, <2>4
<1>5. Len(echoes[c]) <= sent[c] - 1
  BY <1>1, <1>3, <1>4, EchoNumbers
<1>6. QED
  BY <1>2, <1>5

-----------------------------------------------------------------------------
(***************************************************************************)
(* Who can bring the server down.  A client that has closed its end too    *)
(* early stays such a client; and each of the three ways to ruin the       *)
(* server needs one, which is there already when it happens.               *)
(***************************************************************************)
LEMMA ImpatientStays ==
  ASSUME TypeOK, Next, NEW c \in Clients, Impatient(c)
  PROVE  Impatient(c)'
<1> USE DEF clientVars, connVars, workVars, fateVars, loopVars
<1> DEFINE Kept == /\ sent'[c] = sent[c] /\ seen'[c] = seen[c]
                   /\ \/ peer'[c] = peer[c]
                      \/ peer[c] = "fin" /\ peer'[c] = "finrst"
                      \/ peer[c] = "rst" /\ peer'[c] = "done"
<1>1. UNCHANGED <<peer, sent, seen>> => Kept
  OBVIOUS
<1>2. /\ peer[c] \in {"fin", "finrst", "rst", "done"} /\ peer \in [Clients -> PeerStates]
      /\ sent \in [Clients -> Nat] /\ seen \in [Clients -> Nat]
  BY DEF Impatient, TypeOK, PeerStates
<1>3. ASSUME NEW d \in Clients, Connect(d) \/ CloseClient(d) \/ SendLine(d) \/ Reads(d)
      PROVE  Kept
  <2>1. peer[d] \in {"new", "open"} /\ c # d
    BY <1>2, <1>3 DEF Connect, CloseClient, SendLine, Reads
  <2>2. \/ UNCHANGED <<sent, seen>> /\ \E how : peer' = [peer EXCEPT ![d] = how]
        \/ UNCHANGED <<peer, seen>> /\ \E n : sent' = [sent EXCEPT ![d] = n]
        \/ UNCHANGED <<peer, sent>> /\ \E n : seen' = [seen EXCEPT ![d] = n]
    BY <1>3 DEF Connect, CloseClient, SendLine, Reads
  <2>3. QED
    BY ONLY <1>2, <2>1, <2>2, c \in Clients
<1>4. ASSUME NEW fd \in Fds, conns[fd] # NoClient, HandleReset(fd)
      PROVE  Kept
  <2>1. /\ peer[conns[fd]] = "rst" /\ peer' = [peer EXCEPT ![conns[fd]] = "done"]
        /\ UNCHANGED <<sent, seen>>
    BY <1>4 DEF HandleReset
  <2>2. QED
    BY ONLY <1>2, <2>1, c \in Clients
<1>5. ASSUME RunSend
      PROVE  Kept
  <2>1. UNCHANGED <<sent, seen>> /\ ((\E d \in Live : Send(d, Head(batch))) \/ UNCHANGED peer)
    BY <1>5 DEF RunSend
  <2>2. ASSUME NEW d \in Clients, Send(d, Head(batch))
        PROVE  Kept
    <3>1. \/ /\ peer[d] = "fin"
             /\ \E next \in {"fin", "finrst"} : peer' = [peer EXCEPT ![d] = next]
          \/ peer[d] = "rst" /\ peer' = [peer EXCEPT ![d] = "done"]
          \/ UNCHANGED peer
      BY <2>2 DEF Send
    <3>2. QED
      BY ONLY <1>2, <2>1, <3>1, c \in Clients, d \in Clients
  <2>3. QED
    BY <2>1, <2>2, TasksAreLines
<1>6. UNCHANGED <<peer, sent, seen>> \/ RunSend
      \/ (\E d \in Clients : Connect(d) \/ CloseClient(d) \/ SendLine(d) \/ Reads(d))
      \/ (\E fd \in Fds : conns[fd] # NoClient /\ HandleReset(fd))
  BY ServerSteps
  DEF LoopOnly, HandleNewConnection, HandleLine, HandleClose, AddTask, TakeTask, Process,
      FinishTask
<1>7. Kept
  <2> HIDE DEF Kept
  <2>1. QED
    BY <1>1, <1>3, <1>4, <1>5, <1>6
<1>8. QED
  BY <1>2, <1>7 DEF Impatient

\* What ruins the server, and when.
LEMMA RuinSteps ==
  ASSUME Next
  PROVE  \/ UNCHANGED <<killed, stuck, dangling>>
         \/ \E fd \in Fds : conns[fd] # NoClient /\ HandleReset(fd)
         \/ RunSend
  BY ServerSteps
  DEF LoopOnly, HandleNewConnection, HandleLine, HandleClose, AddTask, TakeTask, Process,
      FinishTask, Connect, SendLine, Reads, CloseClient, fateVars

\* A client resets its connection when it closes it with unread echoes.
LEMMA ResetStep ==
  ASSUME TypeOK, LinePlaces, EchoesRun, ResetImpatient, Next
  PROVE  ResetImpatient'
<1> USE DEF clientVars, connVars, workVars, fateVars, loopVars
<1> SUFFICES ASSUME ~dangling', NEW c \in Clients, peer'[c] = "rst"
             PROVE  Impatient(c)'
  BY DEF ResetImpatient
<1>1. ~dangling
  <2>1. UNCHANGED dangling \/ RunSend
    BY RuinSteps DEF HandleReset
  <2>2. QED
    BY <2>1 DEF RunSend
<1>2. CASE peer[c] = "rst"
  BY <1>1, <1>2, ImpatientStays DEF ResetImpatient
<1>3. CASE CloseClient(c)
  <2>1. Unread(c) # 0 /\ UNCHANGED <<sent, seen>>
    BY <1>3 DEF CloseClient, TypeOK
  <2>2. /\ sent[c] \in Nat /\ seen[c] \in Nat /\ Len(echoes[c]) \in Nat
        /\ Len(echoes[c]) - seen[c] \in 0..OutBuffer /\ OutBuffer \in Nat
    BY LenProperties, EchoServerAssumption DEF TypeOK, Unread
  <2>3. Len(echoes[c]) <= sent[c]
    BY <1>1, EchoesSent
  <2>4. seen[c] < sent[c]
    BY <2>1, <2>2, <2>3 DEF Unread
  <2>5. QED
    BY <2>1, <2>4 DEF Impatient
<1>4. ASSUME ~CloseClient(c), peer[c] # "rst"
      PROVE  FALSE
  <2>1. \/ UNCHANGED peer \/ RunSend
        \/ \E d \in Clients : Connect(d) \/ CloseClient(d)
        \/ \E fd \in Fds : conns[fd] # NoClient /\ HandleReset(fd)
    BY ServerSteps
    DEF LoopOnly, HandleNewConnection, HandleLine, HandleClose, AddTask, TakeTask, Process,
        FinishTask, SendLine, Reads
  <2>2. \/ UNCHANGED peer
        \/ \E d \in Clients, how \in PeerStates :
             peer' = [peer EXCEPT ![d] = how] /\ (how = "rst" => d # c)
    <3>1. CASE RunSend
      <4>1. UNCHANGED peer \/ \E d \in Live : Send(d, Head(batch))
        BY <3>1 DEF RunSend
      <4>2. QED
        BY <4>1, TasksAreLines DEF Send, PeerStates
    <3>2. CASE \E d \in Clients : Connect(d) \/ CloseClient(d)
      BY <1>4, <3>2 DEF Connect, CloseClient, PeerStates
    <3>3. CASE \E fd \in Fds : conns[fd] # NoClient /\ HandleReset(fd)
      BY <3>3 DEF HandleReset, TypeOK, PeerStates
    <3>4. QED
      BY <2>1, <3>1, <3>2, <3>3
  <2>3. QED
    BY <1>4, <2>2 DEF TypeOK
<1>5. QED
  BY <1>2, <1>3, <1>4

LEMMA PatientStep ==
  ASSUME TypeOK, LinePlaces, ClientPlaces, EchoesRun, ResetImpatient, PatientSafe, Next
  PROVE  PatientSafe'
<1>1. ASSUME NEW c \in Clients, Impatient(c)
      PROVE  PatientSafe'
  BY <1>1, ImpatientStays DEF PatientSafe
<1>2. CASE Ruined
  BY <1>1, <1>2 DEF PatientSafe
<1>3. CASE ~Ruined /\ UNCHANGED <<killed, stuck, dangling>>
  BY <1>3 DEF PatientSafe, Ruined
<1>4. ASSUME NEW fd \in Fds, conns[fd] # NoClient, HandleReset(fd)
      PROVE  PatientSafe'
  <2>1. conns[fd] \in Clients /\ peer[conns[fd]] = "rst"
    BY <1>4 DEF HandleReset, TypeOK
  <2>2. QED
    BY <1>1, <1>2, <2>1 DEF ResetImpatient, Ruined
<1>5. ASSUME RunSend, ~Ruined, Ruined'
      PROVE  PatientSafe'
  <2> DEFINE line == Head(batch)
             c == line.conn
  <2>1. batch \in Seq(Line) /\ batch # <<>>
    BY <1>5, EchoServerAssumption DEF RunSend, RunFunctor, TypeOK, LoopTypeOK
  <2>2. line \in Range(batch)
    BY <2>1, RangeOfTail DEF LinePlaces, OneFunctor
  <2>3. line \in Range(posted) \ Range(ran) /\ ~dangling
    BY <1>5, <2>2 DEF LinePlaces, OneFunctor, Ruined
  <2>4. Len(echoes[c]) < sent[c]
    BY <2>3, FewerEchoes
  <2>5. c \in Clients /\ sent[c] - Len(inbox[c]) >= 1 /\ sent[c] \in Nat
    BY <2>3, PostedSent DEF TypeOK
  <2>9. seen[c] < sent[c]
    <3>1. /\ seen[c] \in Nat /\ Len(echoes[c]) \in Nat
          /\ Len(echoes[c]) - seen[c] \in 0..OutBuffer /\ OutBuffer \in Nat
      BY <2>5, LenProperties, EchoServerAssumption DEF TypeOK, Unread
    <3>2. QED
      BY <2>4, <2>5, <3>1
  <2>6. CASE c \in Live
    <3>1. Send(c, line) /\ UNCHANGED <<dangling, stuck>>
      BY <1>5, <2>6, SendsToOwner DEF ClientPlaces, RunSend
    <3>2. peer[c] \in {"finrst", "done"}
      BY <1>5, <3>1 DEF Send, Ruined
    <3>3. QED
      BY <1>1, <2>5, <2>9, <3>2 DEF Impatient
  <2>7. CASE c \notin Live
    <3>1. c \notin Unaccepted
      BY <2>5 DEF ClientPlaces, Accepting
    <3>2. peer[c] \in {"fin", "finrst", "done"}
      BY <2>5, <2>7, <3>1 DEF ClientPlaces, DroppedWhenClosed, Live
    <3>3. QED
      BY <1>1, <2>5, <2>9, <3>2 DEF Impatient
  <2>8. QED
    BY <2>6, <2>7
<1>6. CASE ~Ruined'
  BY <1>6 DEF PatientSafe
<1>7. QED
  BY <1>2, <1>3, <1>4, <1>5, <1>6, RuinSteps

-----------------------------------------------------------------------------
\* Every step leaves the invariant true.
THEOREM EchoServerInvariant == Spec => []Inv
<1>1. Init => Inv
  <2> SUFFICES ASSUME Init PROVE Inv
    OBVIOUS
  <2> USE DEF Init, LoopInit
  <2>1. /\ \A S : <<>> \in Seq(S)
        /\ Range(<<>>) = {} /\ IsInjective(<<>>) /\ Len(<<>>) = 0
    BY DEF Range, IsInjective
  <2>2. LoopTypeOK
    <3>1. callpc \in [Callers -> {"idle", "wakeup", "return"}]
      OBVIOUS
    <3>2. QED
      BY <2>1, <3>1 DEF LoopTypeOK, IoPlaces
  <2>3. TypeOK
    <3>1. /\ peer \in [Clients -> PeerStates] /\ sent \in [Clients -> Nat]
          /\ conns \in [Fds -> Clients \cup {NoClient}] /\ fdOf \in [Clients -> Fds \cup {0}]
          /\ job \in [Workers -> Line \cup {NoTask}]
      BY DEF PeerStates
    <3>2. <<>> \in Seq(Line)
      BY <2>1
    <3>3. inbox \in [Clients -> Seq(Line)] /\ echoes \in [Clients -> Seq(Line)]
      BY <3>2
    <3>4. QED
      <4>1. seen \in [Clients -> Nat] /\ \A c \in Clients : Unread(c) \in 0..OutBuffer
        BY <2>1, EchoServerAssumption DEF Unread
      <4>2. QED
        BY <2>1, <2>2, <3>1, <3>3, <4>1 DEF TypeOK
  <2>4. Tasks = {} /\ Held = {} /\ Jobs = {}
    BY <2>1 DEF Tasks, Held, Jobs
  <2>5. LinePlaces
    <3>1. Numbered
      <4>1. \A c \in Clients : sent[c] = 0 /\ inbox[c] = <<>> /\ Lines[c] \in Nat
        BY EchoServerAssumption
      <4>2. QED
        BY ONLY <2>1, <4>1 DEF Numbered
    <3>2. AllRead /\ OneFunctor
      BY <2>1, <2>4 DEF AllRead, OneFunctor
    <3>3. OneTask
      BY <2>1, <2>4 DEF OneTask, Workers
    <3>4. QED
      BY <3>1, <3>2, <3>3 DEF LinePlaces
  <2>6. ClientPlaces
    <3>1. Unaccepted = Clients
      BY <2>1 DEF Unaccepted
    <3>2. Accepting /\ DroppedWhenClosed
      BY <2>1, <2>4, <3>1 DEF Accepting, DroppedWhenClosed
    <3>3. FdsUnique /\ BatchFresh
      BY <2>4 DEF FdsUnique, BatchFresh
    <3>4. QED
      BY <3>2, <3>3 DEF ClientPlaces
  <2>7. EchoesRun /\ ResetImpatient /\ PatientSafe
    BY <2>1 DEF EchoesRun, ResetImpatient, PatientSafe, Ruined
  <2>8. QED
    BY <2>3, <2>5, <2>6, <2>7 DEF Inv
<1>2. Inv /\ [Next]_serverVars => Inv'
  <2> SUFFICES ASSUME Inv, [Next]_serverVars PROVE Inv'
    OBVIOUS
  <2>1. CASE Next
    <3>1. TypeOK'
      BY <2>1, ServerTypes DEF Inv, ClientPlaces
    <3>2. QED
      BY <2>1, <3>1, LinePlacesStep, ClientPlacesStep, EchoesStep, ResetStep, PatientStep
      DEF Inv, ClientPlaces
  <2>2. CASE UNCHANGED serverVars
    <3> USE <2>2 DEF serverVars, loopVars, clientVars, connVars, workVars, fateVars
    <3>1. TypeOK'
      BY DEF Inv, TypeOK, Unread, LoopTypeOK
    <3>2. Jobs' = Jobs /\ Tasks' = Tasks /\ Read' = Read /\ Held' = Held
          /\ Unaccepted' = Unaccepted
      BY DEF Jobs, Tasks, Read, Held, Unaccepted
    <3>3. LinePlaces'
      BY <3>2 DEF Inv, LinePlaces, Numbered, AllRead, OneTask, OneFunctor
    <3>4. ClientPlaces'
      BY <3>2 DEF Inv, ClientPlaces, Accepting, DroppedWhenClosed, FdsUnique, BatchFresh, Readable
    <3>5. EchoesRun' /\ ResetImpatient' /\ PatientSafe'
      BY DEF Inv, EchoesRun, ResetImpatient, PatientSafe, Ruined, Impatient
    <3>6. QED
      BY <3>1, <3>3, <3>4, <3>5 DEF Inv
  <2>3. QED
    BY <2>1, <2>2
<1>3. QED
  BY <1>1, <1>2, PTL DEF Spec

\* The variables of the server have their types.
THEOREM EchoTypeCorrect == Spec => []TypeOK
<1>1. Inv => TypeOK
  BY DEF Inv
<1>2. QED
  BY <1>1, EchoServerInvariant, PTL

\* Descriptor numbers: an accepted one is in nobody's hands, and _conns files each
\* connection under its own.
THEOREM FdsCorrect == Spec => []FdsUnique
<1>1. Inv => FdsUnique
  BY DEF Inv, ClientPlaces
<1>2. QED
  BY <1>1, EchoServerInvariant, PTL

\* The events of a batch that are still to be handled are those of connections that
\* are open and ready.
THEOREM BatchCorrect == Spec => []BatchFresh
<1>1. Inv => BatchFresh
  BY DEF Inv, ClientPlaces
<1>2. QED
  BY <1>1, EchoServerInvariant, PTL

\* A client gets its own lines, each at most once, while no functor has outlived its
\* connection.
THEOREM EchoCorrect == Spec => []EchoIntegrity
<1>1. Inv => EchoIntegrity
  <2> SUFFICES ASSUME Inv, ~dangling, NEW c \in Clients, NEW i \in 1..Len(echoes[c])
               PROVE  /\ echoes[c][i] \in [conn : {c}, num : 1..sent[c]]
                      /\ \A j \in 1..(i - 1) : echoes[c][j] # echoes[c][i]
    BY DEF EchoIntegrity
  <2>1. DOMAIN echoes[c] = 1..Len(echoes[c]) /\ Len(echoes[c]) \in Nat
    BY LenProperties DEF Inv, TypeOK
  <2>2. echoes[c][i] \in Range(echoes[c])
    BY <2>1 DEF Range
  <2>3. echoes[c][i] \in Range(posted) /\ echoes[c][i].conn = c
    BY <2>2 DEF Inv, EchoesRun, LinePlaces, OneFunctor
  <2>4. echoes[c][i] = [conn |-> c, num |-> echoes[c][i].num] /\ echoes[c][i].num \in 1..sent[c]
    BY <2>3, PostedSent DEF Inv
  <2>5. ASSUME NEW j \in 1..(i - 1)
        PROVE  echoes[c][j] # echoes[c][i]
    <3>1. j \in 1..Len(echoes[c]) /\ j # i
      BY <2>1
    <3>2. QED
      BY <2>1, <3>1 DEF Inv, EchoesRun, IsInjective
  <2>6. QED
    BY <2>4, <2>5
<1>2. QED
  BY <1>1, EchoServerInvariant, PTL

\* As long as every client that closes has waited for its echoes, nothing is ruined.
THEOREM PatientCorrect == Spec => []PatientSafe
<1>1. Inv => PatientSafe
  BY DEF Inv
<1>2. QED
  BY <1>1, EchoServerInvariant, PTL

\* The server is a user of the event loop: its behaviours are behaviours of EventLoop.
THEOREM EchoUsesLoop == Spec => LoopSpec
<1>1. Init => LoopInit
  BY DEF Init
<1>2. Inv /\ [Next]_serverVars => [LoopNext]_loopVars
  BY LoopStep DEF Inv, serverVars
<1>3. QED
  BY <1>1, <1>2, EchoServerInvariant, PTL DEF Spec, LoopSpec

\* So no functor is forgotten by the server's loop, and they are run in their order.
THEOREM EchoLoopCorrect == Spec => [](WakeupNotLost /\ OnceInOrder)
  BY EchoUsesLoop, WakeupCorrect, OrderCorrect, PTL
=============================================================================
