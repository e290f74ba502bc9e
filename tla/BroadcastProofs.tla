---------------------------- MODULE BroadcastProofs ----------------------------
(***************************************************************************)
(* Proofs about BroadcastReactor, for any clients, lines, descriptors and  *)
(* buffer sizes: the server of Reactor_Version2.0 and 3.0 implements the   *)
(* chat service of Broadcast.  The inductive invariant says where a client *)
(* is (unknown, in the backlog, in _conns under one descriptor, dropped),  *)
(* which of its lines are still in its socket, and that what is being      *)
(* broadcast is the last line of the log.                                  *)
(***************************************************************************)
EXTENDS BroadcastReactor, SequenceLemmas, FiniteSetTheorems

LinkStates == {"new", "open", "fin", "poked", "pipe", "rst", "gone"}

\* TypeOK, with the domains of the functions, and why nobody sends a line too many.
TypeInv ==
  /\ TypeOK
  /\ inbox \in [Clients -> Seq(Line)] /\ heard \in [Clients -> Seq(Line)]
  /\ seen \in [Clients -> Nat] /\ sent \in [Clients -> Nat]
  /\ \A c \in Clients : sending[c] => sent[c] < Lines[c]

\* Clients the server has not accepted have no descriptor and have heard nothing.
Unaccepted == {c \in Clients : link[c] = "new"} \cup Range(backlog)

Accepting ==
  /\ IsInjective(backlog)
  /\ \A c \in Range(backlog) : link[c] # "new"
  /\ \A c \in Unaccepted : c \notin Held /\ heard[c] = <<>>
  /\ ListenFd \in todo => backlog # <<>>

\* A connection is filed once, and the find for an event of the batch succeeds.
Filing ==
  /\ \A f, g \in Filed : conns[f] = conns[g] => f = g
  /\ todo \subseteq Filed \cup {ListenFd}

\* The log holds the first lines of each client, its socket the next ones.
Numbered ==
  \A c \in Clients :
    /\ Service!Said(c) + Len(inbox[c]) = sent[c]
    /\ \A i \in 1 .. Len(inbox[c]) : inbox[c][i] = [from |-> c, num |-> Service!Said(c) + i]

\* What is being broadcast is the line that was said last.
LastSaid == Broadcasting => log # <<>> /\ message = log[Len(log)]

Inv == TypeInv /\ Accepting /\ Filing /\ Numbered /\ LastSaid
-----------------------------------------------------------------------------
\* The steps, named once for the proofs that go through them.
LEMMA ServerSteps ==
  ASSUME Next
  PROVE  \/ EpollReturn \/ HandleNewConnection
         \/ \E fd \in Filed : HandleLine(fd)
         \/ \E fd \in Filed : HandleClose(fd)
         \/ \E fd \in Filed : HandleReset(fd)
         \/ \E fd \in Fds : SendNext(fd)
         \/ \E c \in Clients : Connect(c)
         \/ \E c \in Clients : Types(c)
         \/ \E c \in Clients : Reads(c)
         \/ \E c \in Clients : SendReturns(c)
         \/ \E c \in Clients : Exits(c)
         \/ \E c \in Clients : ResetArrives(c)
  BY DEF Next, Server, ClientProgram, User, HandleMessage

LEMMA FiledMember ==
  ASSUME TypeInv, NEW fd \in Filed
  PROVE  fd \in Fds /\ conns[fd] \in Clients /\ conns[fd] \in Held /\ conns[fd] # NoClient
  BY DEF TypeInv, TypeOK, Filed, Held

LEMMA HeldMember ==
  ASSUME TypeInv
  PROVE  Held \subseteq Clients /\ \A c \in Held : \E fd \in Filed : conns[fd] = c
  BY DEF TypeInv, TypeOK, Filed, Held

LEMMA LineMember ==
  ASSUME NEW c \in Clients, NEW n \in 1 .. Lines[c]
  PROVE  [from |-> c, num |-> n] \in Line
  BY DEF Line

\* There is a descriptor for the connection that accept takes: fewer clients than
\* descriptors are in _conns.
LEMMA FreeDescriptor ==
  ASSUME TypeInv, Accepting, Filing, backlog # <<>>
  PROVE  /\ Min(Fds \ Filed) \in Fds \ Filed
         /\ Head(backlog) \in Clients /\ Head(backlog) \in Range(backlog)
         /\ Tail(backlog) \in Seq(Clients)
<1> DEFINE c == Head(backlog)
           f == [fd \in Filed |-> conns[fd]]
<1>1. backlog \in Seq(Clients) /\ c \in Clients /\ Tail(backlog) \in Seq(Clients)
  BY DEF TypeInv, TypeOK
<1>2. c \in Range(backlog)
  BY <1>1, RangeOfTail DEF Accepting
<1>3. c \notin Held
  BY <1>1, <1>2 DEF Accepting, Unaccepted
<1>4. f \in Injection(Filed, Clients \ {c})
  <2>1. \A fd \in Filed : conns[fd] \in Clients \ {c}
    BY <1>3, FiledMember
  <2>2. f \in [Filed -> Clients \ {c}]
    BY <2>1
  <2>3. QED
    BY <2>2 DEF Injection, IsInjective, Filing
<1>5. /\ IsFiniteSet(Clients \ {c}) /\ Cardinality(Clients \ {c}) = Cardinality(Clients) - 1
      /\ Cardinality(Clients) \in Nat /\ Cardinality(Fds) \in Nat
  BY <1>1, FS_RemoveElement, FS_CardinalityType, BroadcastReactorAssumption
<1>6. Cardinality(Filed) <= Cardinality(Clients \ {c})
  BY <1>4, <1>5, FS_Injection
<1>7. Filed # Fds
  BY <1>5, <1>6, BroadcastReactorAssumption
<1>8. Fds \ Filed \in SUBSET Nat /\ Fds \ Filed # {}
  BY <1>7, BroadcastReactorAssumption DEF Filed
<1>9. QED
  BY <1>1, <1>2, <1>8, LeastNumber

-----------------------------------------------------------------------------
(***************************************************************************)
(* Types.                                                                  *)
(***************************************************************************)
\* What the buffers of one client hold.
Buffers(c) ==
  /\ Len(inbox[c]) <= InBuffer
  /\ seen[c] <= Len(heard[c]) /\ Unread(c) <= OutBuffer
  /\ sent[c] <= Lines[c] /\ (sending[c] => sent[c] < Lines[c])

\* TypeInv, sorted by the parts that a step disturbs.
ServerTypes ==
  /\ up \in BOOLEAN /\ stuck \in BOOLEAN
  /\ todo \subseteq Fds \cup {ListenFd}
  /\ conns \in [Fds -> Clients \cup {NoClient}]
  /\ message \in Line \cup {NoLine}
  /\ owed \subseteq Filed /\ recipient \in NextOf(owed)
  /\ log \in Seq(Line)

ClientTypes ==
  /\ backlog \in Seq(Clients)
  /\ link \in [Clients -> LinkStates]
  /\ sending \in [Clients -> BOOLEAN]
  /\ inbox \in [Clients -> Seq(Line)] /\ heard \in [Clients -> Seq(Line)]
  /\ seen \in [Clients -> Nat] /\ sent \in [Clients -> Nat]

LEMMA TypesSorted == TypeInv <=> ServerTypes /\ ClientTypes /\ \A c \in Clients : Buffers(c)
<1>1. ASSUME ClientTypes, NEW c \in Clients
      PROVE  /\ Len(inbox[c]) \in Nat /\ Len(heard[c]) \in Nat /\ Lines[c] \in Nat
             /\ seen[c] \in 0 .. Len(heard[c]) <=> seen[c] <= Len(heard[c])
             /\ sent[c] \in 0 .. Lines[c] <=> sent[c] <= Lines[c]
             /\ inbox[c] \in Seq(Line) /\ heard[c] \in Seq(Line)
  <2>1. /\ inbox[c] \in Seq(Line) /\ heard[c] \in Seq(Line)
        /\ seen[c] \in Nat /\ sent[c] \in Nat /\ Lines[c] \in Nat
    BY <1>1, BroadcastReactorAssumption DEF ClientTypes
  <2>2. Len(inbox[c]) \in Nat /\ Len(heard[c]) \in Nat
    BY <2>1, LenProperties
  <2>3. QED
    BY <2>1, <2>2
<1>2. QED
  BY <1>1 DEF TypeInv, TypeOK, ServerTypes, ClientTypes, Buffers, LinkStates

\* Buffers is about numbers.
LEMMA BufferNumbers ==
  ASSUME TypeInv, NEW c \in Clients
  PROVE  /\ Len(inbox[c]) \in Nat /\ Len(heard[c]) \in Nat /\ Lines[c] \in Nat
         /\ seen[c] \in Nat /\ sent[c] \in Nat /\ Buffers(c)
         /\ InBuffer \in Nat \ {0} /\ OutBuffer \in Nat \ {0}
         /\ inbox[c] \in Seq(Line) /\ heard[c] \in Seq(Line)
<1>1. /\ inbox[c] \in Seq(Line) /\ heard[c] \in Seq(Line)
      /\ seen[c] \in Nat /\ sent[c] \in Nat /\ Lines[c] \in Nat /\ Buffers(c)
  BY TypesSorted, BroadcastReactorAssumption DEF ClientTypes
<1>2. QED
  BY <1>1, LenProperties, BroadcastReactorAssumption

LEMMA ServerTypesStep ==
  ASSUME TypeInv, Accepting, Filing, Next
  PROVE  ServerTypes'
<1> USE TypesSorted DEF ServerTypes
<1>1. CASE UNCHANGED serverVars
  BY <1>1 DEF serverVars, Filed
<1>2. CASE EpollReturn
  BY <1>2 DEF EpollReturn, ReadyFds, Filed
<1>3. CASE HandleNewConnection
  <2>1. /\ conns' = [conns EXCEPT ![Min(Fds \ Filed)] = Head(backlog)]
        /\ Min(Fds \ Filed) \in Fds /\ Head(backlog) \in Clients
    BY <1>3, FreeDescriptor DEF HandleNewConnection, Dispatch, Accepting
  <2>2. conns' \in [Fds -> Clients \cup {NoClient}]
    BY <2>1
  <2>3. owed' = {}
    BY <1>3 DEF HandleNewConnection, Dispatch, Free, Broadcasting
  <2>4. QED
    BY <1>3, <2>2, <2>3 DEF HandleNewConnection, Dispatch
<1>4. ASSUME NEW fd \in Filed, HandleLine(fd)
      PROVE  ServerTypes'
  <2>1. conns[fd] \in Clients /\ inbox[conns[fd]] # <<>> /\ inbox[conns[fd]] \in Seq(Line)
    BY <1>4, FiledMember, BufferNumbers DEF HandleLine
  <2>2. Head(inbox[conns[fd]]) \in Line
    BY <2>1
  <2>3. log' \in Seq(Line) /\ message' \in Line
    BY <1>4, <2>2 DEF HandleLine
  <2>4. owed' \subseteq Filed'
    BY <1>4 DEF HandleLine, Recipients, Filed
  <2>5. QED
    BY <1>4, <2>3, <2>4 DEF HandleLine, Dispatch
<1>5. ASSUME NEW fd \in Filed, HandleClose(fd)
      PROVE  ServerTypes'
  <2>1. conns' \in [Fds -> Clients \cup {NoClient}] /\ owed' = {}
    BY <1>5, FiledMember DEF HandleClose, Dispatch, Free, Broadcasting
  <2>2. QED
    BY <1>5, <2>1 DEF HandleClose, Dispatch
<1>6. ASSUME NEW fd \in Filed, HandleReset(fd)
      PROVE  ServerTypes'
  BY <1>6 DEF HandleReset, Dispatch, Filed
<1>7. ASSUME NEW fd \in Fds, SendNext(fd)
      PROVE  ServerTypes'
  BY <1>7 DEF SendNext, Filed
<1>8. CASE \E c \in Clients : \/ Connect(c) \/ Types(c) \/ Reads(c) \/ SendReturns(c)
                              \/ Exits(c) \/ ResetArrives(c)
  BY <1>1, <1>8 DEF Connect, Types, Reads, SendReturns, Exits, ResetArrives
<1> HIDE DEF ServerTypes
<1>9. QED
  BY <1>2, <1>3, <1>4, <1>5, <1>6, <1>7, <1>8, ServerSteps

\* One client's socket and counters in a step of its own.
LEMMA SendReturnsStep ==
  ASSUME TypeInv, NEW c \in Clients, SendReturns(c)
  PROVE  /\ sent' = [sent EXCEPT ![c] = sent[c] + 1] /\ sent[c] < Lines[c]
         /\ [from |-> c, num |-> sent[c] + 1] \in Line
         /\ inbox' = [inbox EXCEPT ![c] = Append(inbox[c], [from |-> c, num |-> sent[c] + 1])]
<1>1. sent[c] \in Nat /\ Lines[c] \in Nat /\ sent[c] < Lines[c]
  BY BufferNumbers DEF SendReturns, Buffers
<1>2. sent' = [sent EXCEPT ![c] = sent[c] + 1] /\ sent'[c] = sent[c] + 1
  BY TypesSorted DEF SendReturns, ClientTypes
<1>3. sent[c] + 1 \in 1 .. Lines[c]
  BY <1>1
<1>4. QED
  BY <1>1, <1>2, <1>3, LineMember DEF SendReturns

LEMMA SendNextStep ==
  ASSUME TypeInv, NEW fd \in Fds, SendNext(fd)
  PROVE  /\ fd \in Filed /\ conns[fd] \in Clients /\ message \in Line \cup {NoLine}
         /\ link' \in [Clients -> LinkStates]
         /\ \/ UNCHANGED heard
            \/ /\ heard' = [heard EXCEPT ![conns[fd]] = Append(heard[conns[fd]], message)]
               /\ Room(conns[fd]) /\ link[conns[fd]] = "open"
<1>1. fd \in Filed /\ conns[fd] \in Clients /\ message \in Line \cup {NoLine}
  BY TypesSorted, FiledMember DEF SendNext, ServerTypes
<1>2. link' \in [Clients -> LinkStates]
  BY TypesSorted DEF SendNext, ClientTypes, Poked, LinkStates
<1>3. QED
  BY <1>1, <1>2 DEF SendNext, SendReady

LEMMA ClientTypesStep ==
  ASSUME TypeInv, Accepting, Filing, LastSaid, Next
  PROVE  ClientTypes'
<1> USE TypesSorted DEF ClientTypes
<1>1. CASE EpollReturn
  BY <1>1 DEF EpollReturn
<1>2. CASE HandleNewConnection
  BY <1>2, FreeDescriptor DEF HandleNewConnection, Dispatch, Accepting
<1>3. ASSUME NEW fd \in Filed, HandleLine(fd)
      PROVE  ClientTypes'
  <2>1. conns[fd] \in Clients /\ inbox[conns[fd]] # <<>> /\ inbox[conns[fd]] \in Seq(Line)
    BY <1>3, FiledMember, BufferNumbers DEF HandleLine
  <2>2. Tail(inbox[conns[fd]]) \in Seq(Line)
    BY <2>1
  <2>3. inbox' \in [Clients -> Seq(Line)]
    BY <1>3, <2>2 DEF HandleLine
  <2>4. QED
    BY <1>3, <2>3 DEF HandleLine
<1>4. ASSUME NEW fd \in Filed, HandleClose(fd)
      PROVE  ClientTypes'
  BY <1>4 DEF HandleClose
<1>5. ASSUME NEW fd \in Filed, HandleReset(fd)
      PROVE  ClientTypes'
  BY <1>5 DEF HandleReset, LinkStates
<1>6. ASSUME NEW fd \in Fds, SendNext(fd)
      PROVE  ClientTypes'
  <2>1. message \in Line
    BY <1>6, LastSaid DEF SendNext, LastSaid, Broadcasting, ServerTypes
  <2>2. heard' \in [Clients -> Seq(Line)]
    <3>1. CASE UNCHANGED heard
      BY <3>1
    <3>2. CASE heard' = [heard EXCEPT ![conns[fd]] = Append(heard[conns[fd]], message)]
      <4>1. Append(heard[conns[fd]], message) \in Seq(Line)
        BY <1>6, <2>1, SendNextStep
      <4>2. QED
        BY <3>2, <4>1
    <3>3. QED
      BY <1>6, <3>1, <3>2, SendNextStep
  <2>3. QED
    BY <1>6, <2>2, SendNextStep DEF SendNext
<1>7. ASSUME NEW c \in Clients, Connect(c)
      PROVE  ClientTypes'
  BY <1>7 DEF Connect, LinkStates
<1>8. ASSUME NEW c \in Clients, Types(c)
      PROVE  ClientTypes'
  BY <1>8 DEF Types
<1>9. ASSUME NEW c \in Clients, Reads(c)
      PROVE  ClientTypes'
  <2>1. Unread(c) \in Int /\ seen[c] \in Nat
    BY BufferNumbers DEF Unread
  <2>2. PICK n \in 1 .. Unread(c) : seen' = [seen EXCEPT ![c] = @ + n]
    BY <1>9 DEF Reads
  <2>3. seen[c] + n \in Nat
    BY <2>1
  <2>4. seen' \in [Clients -> Nat]
    BY <2>2, <2>3
  <2>5. PICK typed \in {FALSE, MayType(c)} : sending' = [sending EXCEPT ![c] = typed]
    BY <1>9 DEF Reads
  <2>6. sending' \in [Clients -> BOOLEAN]
    <3>1. MayType(c) \in BOOLEAN
      BY DEF MayType
    <3>2. QED
      BY <2>5, <3>1
  <2>7. QED
    BY <1>9, <2>4, <2>6 DEF Reads
<1>10. ASSUME NEW c \in Clients, SendReturns(c)
       PROVE  ClientTypes'
  <2>1. sent[c] + 1 \in Nat /\ Append(inbox[c], [from |-> c, num |-> sent[c] + 1]) \in Seq(Line)
    BY <1>10, SendReturnsStep
  <2>2. sent' \in [Clients -> Nat] /\ inbox' \in [Clients -> Seq(Line)]
    <3>1. /\ sent' = [sent EXCEPT ![c] = sent[c] + 1]
          /\ inbox' = [inbox EXCEPT ![c] = Append(inbox[c], [from |-> c, num |-> sent[c] + 1])]
      BY <1>10, SendReturnsStep
    <3>2. sent \in [Clients -> Nat] /\ inbox \in [Clients -> Seq(Line)]
      OBVIOUS
    <3>3. QED
      BY ONLY <2>1, <3>1, <3>2
  <2>3. QED
    BY <1>10, <2>2 DEF SendReturns
<1>11. ASSUME NEW c \in Clients, Exits(c)
       PROVE  ClientTypes'
  BY <1>11 DEF Exits, LinkStates
<1>12. ASSUME NEW c \in Clients, ResetArrives(c)
       PROVE  ClientTypes'
  BY <1>12 DEF ResetArrives, LinkStates
<1> HIDE DEF ClientTypes
<1>13. QED
  BY <1>1, <1>2, <1>3, <1>4, <1>5, <1>6, <1>7, <1>8, <1>9, <1>10, <1>11, <1>12, ServerSteps

\* Only four kinds of steps change what a client's buffers hold.
LEMMA BuffersStep ==
  ASSUME TypeInv, LastSaid, Next, NEW c \in Clients
  PROVE  Buffers(c)'
<1>0. Buffers(c) /\ TypeInv
  BY BufferNumbers
<1>1. CASE UNCHANGED <<inbox, heard, seen, sent>> /\ (sending'[c] => sending[c])
  BY <1>0, <1>1 DEF Buffers, Unread
<1>2. CASE EpollReturn
  BY <1>1, <1>2 DEF EpollReturn
<1>3. CASE HandleNewConnection
  BY <1>1, <1>3 DEF HandleNewConnection
<1>4. ASSUME NEW fd \in Filed, HandleLine(fd)
      PROVE  Buffers(c)'
  <2>1. /\ conns[fd] \in Clients /\ inbox[conns[fd]] # <<>>
        /\ inbox' = [inbox EXCEPT ![conns[fd]] = Tail(inbox[conns[fd]])]
        /\ UNCHANGED <<heard, seen, sent, sending>>
    BY <1>4, FiledMember DEF HandleLine
  <2>2. Len(inbox'[c]) <= Len(inbox[c])
    <3>1. CASE c = conns[fd]
      <4>1. inbox[c] \in Seq(Line) /\ inbox[c] # <<>> /\ inbox'[c] = Tail(inbox[c])
        BY <2>1, <3>1, TypesSorted, BufferNumbers DEF ClientTypes
      <4>2. Len(inbox'[c]) = Len(inbox[c]) - 1
        BY <4>1, HeadTailProperties
      <4>3. QED
        BY <4>2, BufferNumbers
    <3>2. CASE c # conns[fd]
      BY <2>1, <3>2, TypesSorted, BufferNumbers DEF ClientTypes
    <3>3. QED
      BY <3>1, <3>2
  <2>3. Len(inbox'[c]) \in Nat
    <3>1. inbox'[c] \in Seq(Line)
      <4>1. Tail(inbox[conns[fd]]) \in Seq(Line)
        BY <2>1, BufferNumbers
      <4>2. QED
        BY <2>1, <4>1, TypesSorted DEF ClientTypes
    <3>2. QED
      BY <3>1, LenProperties
  <2>4. QED
    BY <1>0, <2>1, <2>2, <2>3, BufferNumbers DEF Buffers, Unread
<1>5. ASSUME NEW fd \in Filed, HandleClose(fd) \/ HandleReset(fd)
      PROVE  Buffers(c)'
  BY <1>1, <1>5 DEF HandleClose, HandleReset
<1>6. ASSUME NEW fd \in Fds, SendNext(fd)
      PROVE  Buffers(c)'
  <2>1. UNCHANGED <<inbox, seen, sent, sending>>
    BY <1>6 DEF SendNext
  <2>2. CASE heard'[c] = heard[c]
    BY <1>0, <2>1, <2>2 DEF Buffers, Unread
  <2>3. CASE heard'[c] # heard[c]
    <3>1. /\ c = conns[fd] /\ Room(c)
          /\ heard'[c] = Append(heard[c], message)
      BY <1>6, <2>3, SendNextStep, TypesSorted DEF ClientTypes
    <3>2. message \in Line
      BY <1>6, TypesSorted DEF SendNext, LastSaid, Broadcasting, ServerTypes
    <3>3. heard[c] \in Seq(Line)
      BY BufferNumbers
    <3>4. Len(heard'[c]) = Len(heard[c]) + 1
      BY <3>1, <3>2, <3>3, AppendProperties
    <3>5. QED
      BY <1>0, <2>1, <3>1, <3>4, BufferNumbers DEF Buffers, Unread, Room
  <2>4. QED
    BY <2>2, <2>3
<1>7. ASSUME NEW d \in Clients, Connect(d) \/ ResetArrives(d)
      PROVE  Buffers(c)'
  BY <1>1, <1>7 DEF Connect, ResetArrives
<1>8. ASSUME NEW d \in Clients, Types(d)
      PROVE  Buffers(c)'
  BY <1>0, <1>8, BufferNumbers, TypesSorted DEF Types, Buffers, Unread, MayType, ClientTypes
<1>9. ASSUME NEW d \in Clients, Reads(d)
      PROVE  Buffers(c)'
  <2>1. PICK n \in 1 .. Unread(d) : seen' = [seen EXCEPT ![d] = @ + n]
    BY <1>9 DEF Reads
  <2>2. PICK typed \in {FALSE, MayType(d)} : sending' = [sending EXCEPT ![d] = typed]
    BY <1>9 DEF Reads
  <2>3. UNCHANGED <<inbox, heard, sent>>
    BY <1>9 DEF Reads
  <2>4. seen'[c] \in Nat /\ seen[c] <= seen'[c] /\ seen'[c] <= Len(heard[c])
    <3>1. seen \in [Clients -> Nat] /\ seen[c] \in Nat /\ Len(heard[c]) \in Nat /\ seen[c] <= Len(heard[c])
      BY <1>0, BufferNumbers, TypesSorted DEF ClientTypes, Buffers
    <3>2. seen'[c] = IF c = d THEN seen[c] + n ELSE seen[c]
      BY <2>1, <3>1
    <3>3. c = d => n \in 1 .. Len(heard[c]) - seen[c]
      BY DEF Unread
    <3>4. QED
      BY <3>1, <3>2, <3>3
  <2>5. sending'[c] => sending[c] \/ sent[c] < Lines[c]
    BY <2>2, TypesSorted DEF ClientTypes, MayType
  <2>6. QED
    BY <1>0, <2>3, <2>4, <2>5, BufferNumbers DEF Buffers, Unread
<1>10. ASSUME NEW d \in Clients, SendReturns(d)
       PROVE  Buffers(c)'
  <2>1. CASE c = d
    <3>1. /\ sent'[c] = sent[c] + 1 /\ sent[c] < Lines[c] /\ ~ sending'[c]
          /\ inbox'[c] = Append(inbox[c], [from |-> c, num |-> sent[c] + 1])
          /\ Len(inbox[c]) # InBuffer /\ UNCHANGED <<heard, seen>>
      BY <1>10, <2>1, SendReturnsStep, TypesSorted DEF SendReturns, ClientTypes, InboxFull
    <3>2. Len(inbox'[c]) = Len(inbox[c]) + 1
      BY <1>10, <2>1, <3>1, SendReturnsStep, BufferNumbers, AppendProperties
    <3>3. QED
      BY <1>0, <3>1, <3>2, BufferNumbers DEF Buffers, Unread
  <2>2. CASE c # d
    BY <1>0, <1>10, <2>2, TypesSorted DEF SendReturns, Buffers, Unread, ClientTypes
  <2>3. QED
    BY <2>1, <2>2
<1>11. ASSUME NEW d \in Clients, Exits(d)
       PROVE  Buffers(c)'
  BY <1>1, <1>11, TypesSorted DEF Exits, ClientTypes
<1>12. QED
  BY <1>2, <1>3, <1>4, <1>5, <1>6, <1>7, <1>8, <1>9, <1>10, <1>11, ServerSteps

-----------------------------------------------------------------------------
(***************************************************************************)
(* Where the clients are.                                                  *)
(***************************************************************************)
LEMMA AcceptPlaces ==
  ASSUME TypeInv, Accepting, Filing, HandleNewConnection
  PROVE  \E c \in Clients, fd \in Fds \ Filed :
           /\ c = Head(backlog) /\ backlog # <<>> /\ backlog' = Tail(backlog)
           /\ c \in Range(backlog) /\ c \notin Held
           /\ conns' = [conns EXCEPT ![fd] = c]
           /\ Filed' = Filed \cup {fd} /\ Held' = Held \cup {c}
           /\ \A other \in Filed : conns'[other] = conns[other] /\ conns'[fd] = c
<1>1. backlog # <<>>
  BY DEF HandleNewConnection, Dispatch, Accepting
<1>2. PICK c \in Clients, fd \in Fds \ Filed :
        /\ c = Head(backlog) /\ c \in Range(backlog)
        /\ conns' = [conns EXCEPT ![fd] = c] /\ backlog' = Tail(backlog)
  BY <1>1, FreeDescriptor DEF HandleNewConnection
<1>3. c \notin Held
  BY <1>2 DEF Accepting, Unaccepted
<1>4. conns \in [Fds -> Clients \cup {NoClient}] /\ c # NoClient
  BY <1>2, TypesSorted, BroadcastReactorAssumption DEF ServerTypes
<1>5. conns'[fd] = c /\ \A other \in Fds \ {fd} : conns'[other] = conns[other]
  BY <1>2, <1>4
<1>6. Filed' = Filed \cup {fd}
  BY <1>2, <1>4, <1>5 DEF Filed
<1>7. fd \in Fds \ Filed /\ \A other \in Filed : other \in Fds \ {fd}
  BY <1>2 DEF Filed
<1>8. Held' = Held \cup {c}
  <2>1. Held' = {conns'[other] : other \in Filed \cup {fd}}
    BY <1>6 DEF Held
  <2>2. QED
    BY <1>5, <1>7, <2>1 DEF Held
<1>9. \A other \in Filed : conns'[other] = conns[other] /\ conns'[fd] = c
  BY <1>5, <1>7
<1>10. QED
  BY <1>1, <1>2, <1>3, <1>6, <1>8, <1>9

LEMMA ClosePlaces ==
  ASSUME TypeInv, Filing, NEW fd \in Filed, HandleClose(fd)
  PROVE  /\ Filed' = Filed \ {fd} /\ Held' = Held \ {conns[fd]}
         /\ \A other \in Filed \ {fd} : conns'[other] = conns[other]
         /\ owed = {} /\ owed' = {} /\ todo' = todo \ {fd}
<1>1. conns' = [conns EXCEPT ![fd] = NoClient] /\ todo' = todo \ {fd} /\ owed = {} /\ owed' = {}
  BY DEF HandleClose, Dispatch, Free, Broadcasting
<1>2. conns \in [Fds -> Clients \cup {NoClient}] /\ fd \in Fds
  BY TypesSorted, FiledMember DEF ServerTypes
<1>3. conns'[fd] = NoClient /\ \A other \in Fds \ {fd} : conns'[other] = conns[other]
  BY <1>1, <1>2
<1>4. Filed' = Filed \ {fd}
  BY <1>3 DEF Filed
<1>5. \A other \in Filed \ {fd} : conns'[other] = conns[other] /\ conns[other] # conns[fd]
  BY <1>3 DEF Filing, Filed
<1>6. Held' = Held \ {conns[fd]}
  <2>1. Held' = {conns'[other] : other \in Filed \ {fd}}
    BY <1>4 DEF Held
  <2>2. Held' = {conns[other] : other \in Filed \ {fd}}
    BY <1>5, <2>1
  <2>3. QED
    BY <1>5, <2>2 DEF Held
<1>7. QED
  BY <1>1, <1>4, <1>5, <1>6

\* The other steps, as far as the places of the clients are concerned.
Settled ==
  /\ UNCHANGED <<backlog, conns>>
  /\ \A c \in Clients : link'[c] = "new" <=> link[c] = "new"
  /\ \A c \in Clients : heard'[c] = heard[c] \/ c \in Held

LEMMA PlaceSteps ==
  ASSUME TypeInv, Next
  PROVE  \/ EpollReturn
         \/ HandleNewConnection
         \/ \E fd \in Filed : HandleClose(fd)
         \/ \E c \in Clients : Connect(c)
         \/ Settled /\ todo' \subseteq todo
<1> USE TypesSorted DEF Settled, ClientTypes
<1>1. ASSUME NEW fd \in Filed, HandleLine(fd) \/ HandleReset(fd)
      PROVE  Settled /\ todo' \subseteq todo
  BY <1>1, FiledMember DEF HandleLine, HandleReset, Dispatch
<1>2. ASSUME NEW fd \in Fds, SendNext(fd)
      PROVE  Settled /\ todo' \subseteq todo
  <2>1. UNCHANGED <<backlog, conns, todo>> /\ link' = [link EXCEPT ![conns[fd]] = Poked(@)]
    BY <1>2 DEF SendNext
  <2>2. \A c \in Clients : link'[c] = "new" <=> link[c] = "new"
    BY <2>1 DEF Poked, LinkStates
  <2>3. fd \in Filed /\ \A c \in Clients : heard'[c] = heard[c] \/ c = conns[fd]
    BY <1>2, SendNextStep
  <2>4. QED
    BY <2>1, <2>2, <2>3, FiledMember
<1>3. ASSUME NEW c \in Clients,
             Types(c) \/ Reads(c) \/ SendReturns(c) \/ Exits(c) \/ ResetArrives(c)
      PROVE  Settled /\ todo' \subseteq todo
  BY <1>3 DEF Types, Reads, SendReturns, Exits, ResetArrives, serverVars
<1>4. QED
  BY ONLY <1>1, <1>2, <1>3, Next, ServerSteps

LEMMA AcceptingStep ==
  ASSUME TypeInv, Accepting, Filing, Next
  PROVE  Accepting'
<1>1. CASE EpollReturn
  <2>1. ListenFd \in todo' => backlog # <<>>
    BY <1>1, BroadcastReactorAssumption DEF EpollReturn, ReadyFds, Filed
  <2>2. QED
    BY <1>1, <2>1 DEF EpollReturn, Accepting, Unaccepted, Held, Filed
<1>2. CASE HandleNewConnection
  <2>1. PICK c \in Clients : /\ c = Head(backlog) /\ backlog # <<>> /\ backlog' = Tail(backlog)
                             /\ c \in Range(backlog) /\ Held' = Held \cup {c}
    BY <1>2, AcceptPlaces
  <2>2. Range(backlog') = Range(backlog) \ {c} /\ IsInjective(backlog')
    BY <2>1, RangeOfTail, TypesSorted DEF ClientTypes, Accepting
  <2>3. /\ UNCHANGED <<link, heard>> /\ ListenFd \notin todo'
        /\ link[c] # "new"
    BY <1>2, <2>1 DEF HandleNewConnection, Dispatch, Accepting
  <2>4. QED
    BY <2>1, <2>2, <2>3 DEF Accepting, Unaccepted
<1>3. ASSUME NEW fd \in Filed, HandleClose(fd)
      PROVE  Accepting'
  BY <1>3, ClosePlaces DEF HandleClose, Accepting, Unaccepted
<1>4. ASSUME NEW c \in Clients, Connect(c)
      PROVE  Accepting'
  <2>1. c \notin Range(backlog)
    BY <1>4 DEF Connect, Accepting
  <2>2. Range(backlog') = Range(backlog) \cup {c} /\ IsInjective(backlog') /\ backlog' # <<>>
    <3>1. backlog \in Seq(Clients) /\ backlog' = Append(backlog, c) /\ IsInjective(backlog)
      BY <1>4, TypesSorted DEF Connect, Accepting, ClientTypes
    <3>2. backlog' # <<>>
      BY <3>1, AppendProperties
    <3>3. QED
      BY <2>1, <3>1, <3>2, RangeOfAppend
  <2>3. /\ link'[c] = "open" /\ \A d \in Clients \ {c} : link'[d] = link[d]
        /\ UNCHANGED <<heard, conns, todo>> /\ link[c] = "new"
    BY <1>4, TypesSorted DEF Connect, serverVars, ClientTypes
  <2>4. Range(backlog) \subseteq Clients
    BY TypesSorted DEF ClientTypes, Range
  <2>5. Unaccepted' = Unaccepted
    BY <2>2, <2>3, <2>4 DEF Unaccepted
  <2>6. \A d \in Range(backlog') : link'[d] # "new"
    BY <2>2, <2>3, <2>4 DEF Accepting
  <2>7. Held' = Held
    BY <2>3 DEF Held, Filed
  <2>8. QED
    BY <2>2, <2>3, <2>5, <2>6, <2>7 DEF Accepting
<1>5. CASE Settled /\ todo' \subseteq todo
  <2>1. Held' = Held
    BY <1>5 DEF Settled, Held, Filed
  <2>2. Range(backlog) \subseteq Clients
    BY TypesSorted DEF ClientTypes, Range
  <2>3. Unaccepted' = Unaccepted
    BY <1>5 DEF Settled, Unaccepted
  <2>4. \A c \in Unaccepted : c \in Clients /\ heard'[c] = heard[c]
    BY <1>5, <2>2 DEF Settled, Unaccepted, Accepting
  <2>5. QED
    BY <1>5, <2>1, <2>2, <2>3, <2>4 DEF Settled, Accepting
<1>6. QED
  BY <1>1, <1>2, <1>3, <1>4, <1>5, PlaceSteps

LEMMA FilingStep ==
  ASSUME TypeInv, Accepting, Filing, Next
  PROVE  Filing'
<1>1. CASE EpollReturn
  BY <1>1 DEF EpollReturn, ReadyFds, Filing, Filed
<1>2. CASE HandleNewConnection
  <2>1. PICK c \in Clients, fd \in Fds \ Filed :
          /\ c \notin Held /\ Filed' = Filed \cup {fd}
          /\ \A other \in Filed : conns'[other] = conns[other] /\ conns'[fd] = c
    BY <1>2, AcceptPlaces
  <2>2. \A other \in Filed : conns'[other] = conns[other] /\ conns'[other] # c /\ conns'[fd] = c
    BY <2>1, FiledMember
  <2>3. todo' \subseteq todo
    BY <1>2 DEF HandleNewConnection, Dispatch
  <2>4. \A f, g \in Filed' : conns'[f] = conns'[g] => f = g
    BY <2>1, <2>2 DEF Filing
  <2>5. QED
    BY <2>1, <2>3, <2>4 DEF Filing
<1>3. ASSUME NEW fd \in Filed, HandleClose(fd)
      PROVE  Filing'
  BY <1>3, ClosePlaces DEF Filing
<1>4. CASE UNCHANGED conns /\ todo' \subseteq todo
  BY <1>4 DEF Filing, Filed
<1>5. ASSUME NEW c \in Clients, Connect(c)
      PROVE  Filing'
  BY <1>4, <1>5 DEF Connect, serverVars
<1>6. QED
  BY <1>1, <1>2, <1>3, <1>4, <1>5, PlaceSteps DEF Settled

-----------------------------------------------------------------------------
(***************************************************************************)
(* Where the lines are: a line leaves the client's socket for the log.     *)
(***************************************************************************)
\* The instance has a copy of Cardinality.
LEMMA SameCardinality == \A S : Service!Cardinality(S) = Cardinality(S)
  BY DEF Service!Cardinality, Cardinality

LEMMA SaidType ==
  ASSUME log \in Seq(Line), NEW c \in Clients
  PROVE  Service!Said(c) \in Nat /\ IsFiniteSet({i \in DOMAIN log : log[i].from = c})
<1>1. Len(log) \in Nat /\ DOMAIN log = 1 .. Len(log)
  BY LenProperties
<1>2. \A n \in Nat : IsFiniteSet(1 .. n)
  BY FS_Interval
<1>3. IsFiniteSet({i \in DOMAIN log : log[i].from = c})
  BY <1>1, <1>2, FS_Subset
<1>4. QED
  BY <1>3, SameCardinality, FS_CardinalityType DEF Service!Said

\* A new line counts for the client that it is from.
LEMMA SaidOfAppend ==
  ASSUME log \in Seq(Line), NEW line \in Line, log' = Append(log, line), NEW c \in Clients
  PROVE  Service!Said(c)' = IF line.from = c THEN Service!Said(c) + 1 ELSE Service!Said(c)
<1> DEFINE Mine == {i \in DOMAIN log : log[i].from = c}
           n == Len(log)
<1>1. /\ n \in Nat /\ DOMAIN log = 1 .. n /\ DOMAIN log' = 1 .. n + 1
      /\ \A i \in 1 .. n : log'[i] = log[i]
      /\ log'[n + 1] = line
  BY AppendProperties, LenProperties
<1>2. Mine' = IF line.from = c THEN Mine \cup {n + 1} ELSE Mine
  BY <1>1
<1>3. n + 1 \notin Mine /\ IsFiniteSet(Mine)
  <2>1. n + 1 \notin 1 .. n
    BY <1>1
  <2>2. IsFiniteSet(Mine)
    BY SaidType
  <2>3. QED
    BY <1>1, <2>1, <2>2
<1> HIDE DEF Mine
<1>4. Cardinality(Mine \cup {n + 1}) = Cardinality(Mine) + 1
  BY <1>3, FS_AddElement
<1>5. Service!Said(c) = Cardinality(Mine) /\ Service!Said(c)' = Cardinality(Mine')
  BY SameCardinality DEF Service!Said, Mine
<1>6. QED
  BY <1>2, <1>4, <1>5

\* The line that the server reads from the connection fd.
LEMMA LineRead ==
  ASSUME TypeInv, Numbered, NEW fd \in Filed, HandleLine(fd)
  PROVE  \E c \in Clients, line \in Line :
           /\ c = conns[fd] /\ line = [from |-> c, num |-> Service!Said(c) + 1]
           /\ inbox[c] # <<>> /\ inbox' = [inbox EXCEPT ![c] = Tail(inbox[c])]
           /\ message' = line /\ log' = Append(log, line)
<1> DEFINE c == conns[fd]
<1>1. c \in Clients /\ inbox[c] # <<>> /\ inbox[c] \in Seq(Line)
  BY FiledMember, BufferNumbers DEF HandleLine
<1>2. Len(inbox[c]) \in Nat \ {0} /\ Head(inbox[c]) = inbox[c][1] /\ Head(inbox[c]) \in Line
  BY <1>1, EmptySeq, LenProperties
<1>3. Head(inbox[c]) = [from |-> c, num |-> Service!Said(c) + 1]
  BY <1>1, <1>2 DEF Numbered
<1>4. QED
  BY <1>1, <1>2, <1>3 DEF HandleLine

LEMMA NumberedStep ==
  ASSUME TypeInv, Numbered, Next
  PROVE  Numbered'
<1> DEFINE Fits(c, said, queue, total) ==
             /\ said + Len(queue) = total
             /\ \A i \in 1 .. Len(queue) : queue[i] = [from |-> c, num |-> said + i]
<1>0. /\ Numbered <=> \A c \in Clients : Fits(c, Service!Said(c), inbox[c], sent[c])
      /\ Numbered' <=> \A c \in Clients : Fits(c, Service!Said(c)', inbox'[c], sent'[c])
  BY DEF Numbered
<1>1. ASSUME NEW fd \in Filed, HandleLine(fd), NEW d \in Clients
      PROVE  Fits(d, Service!Said(d)', inbox'[d], sent'[d])
  <2>1. PICK c \in Clients, line \in Line :
          /\ c = conns[fd] /\ line = [from |-> c, num |-> Service!Said(c) + 1]
          /\ inbox[c] # <<>> /\ inbox' = [inbox EXCEPT ![c] = Tail(inbox[c])]
          /\ message' = line /\ log' = Append(log, line)
    BY <1>1, LineRead
  <2>2. /\ Service!Said(d)' = IF c = d THEN Service!Said(d) + 1 ELSE Service!Said(d)
        /\ Service!Said(d) \in Nat
    BY <2>1, SaidOfAppend, SaidType, TypesSorted DEF ServerTypes
  <2>3. sent'[d] = sent[d] /\ Fits(d, Service!Said(d), inbox[d], sent[d])
    BY <1>0, <1>1 DEF HandleLine
  <2>4. CASE c = d
    <3>1. inbox[d] \in Seq(Line) /\ inbox[d] # <<>> /\ inbox'[d] = Tail(inbox[d])
      BY <2>1, <2>4, BufferNumbers, TypesSorted DEF ClientTypes
    <3>2. /\ Len(inbox[d]) \in Nat \ {0} /\ Len(inbox'[d]) = Len(inbox[d]) - 1
          /\ \A i \in 1 .. Len(inbox[d]) - 1 : inbox'[d][i] = inbox[d][i + 1]
      BY <3>1, HeadTailProperties, EmptySeq, LenProperties
    <3>3. Service!Said(d)' = Service!Said(d) + 1
      BY <2>2, <2>4
    <3>4. ASSUME NEW i \in 1 .. Len(inbox'[d])
          PROVE  inbox'[d][i] = [from |-> d, num |-> Service!Said(d)' + i]
      <4>1. i \in Nat /\ i + 1 \in 1 .. Len(inbox[d]) /\ inbox'[d][i] = inbox[d][i + 1]
        BY <3>2
      <4>2. inbox[d][i + 1] = [from |-> d, num |-> Service!Said(d) + (i + 1)]
        BY <2>3, <4>1
      <4>3. Service!Said(d) + (i + 1) = Service!Said(d)' + i
        BY ONLY <2>2, <3>3, <4>1
      <4>4. QED
        BY <4>1, <4>2, <4>3
    <3>5. Service!Said(d)' + Len(inbox'[d]) = sent[d]
      BY <2>2, <2>3, <3>2, <3>3
    <3>6. QED
      BY <2>3, <3>4, <3>5
  <2>5. CASE c # d
    <3>1. inbox'[d] = inbox[d] /\ Service!Said(d)' = Service!Said(d)
      BY <2>1, <2>2, <2>5, TypesSorted DEF ClientTypes
    <3>2. QED
      BY <2>3, <3>1
  <2>6. QED
    BY <2>4, <2>5
<1>2. ASSUME NEW c \in Clients, SendReturns(c), NEW d \in Clients
      PROVE  Fits(d, Service!Said(d)', inbox'[d], sent'[d])
  <2>1. Service!Said(d)' = Service!Said(d) /\ Service!Said(d) \in Nat
    <3>1. log' = log
      BY <1>2 DEF SendReturns, serverVars
    <3>2. QED
      BY <3>1, SaidType, TypesSorted DEF Service!Said, ServerTypes
  <2>2. Fits(d, Service!Said(d), inbox[d], sent[d])
    BY <1>0
  <2>3. CASE c = d
    <3>1. /\ sent'[d] = sent[d] + 1 /\ inbox[d] \in Seq(Line)
          /\ [from |-> d, num |-> sent[d] + 1] \in Line
          /\ inbox'[d] = Append(inbox[d], [from |-> d, num |-> sent[d] + 1])
      BY <1>2, <2>3, SendReturnsStep, BufferNumbers, TypesSorted DEF ClientTypes
    <3>2. /\ Len(inbox[d]) \in Nat /\ Len(inbox'[d]) = Len(inbox[d]) + 1
          /\ \A i \in 1 .. Len(inbox[d]) : inbox'[d][i] = inbox[d][i]
          /\ inbox'[d][Len(inbox[d]) + 1] = [from |-> d, num |-> sent[d] + 1]
      BY <3>1, AppendProperties, LenProperties
    <3>3. sent[d] + 1 = Service!Said(d) + (Len(inbox[d]) + 1)
      BY <2>1, <2>2, <3>2
    <3>4. ASSUME NEW i \in 1 .. Len(inbox'[d])
          PROVE  inbox'[d][i] = [from |-> d, num |-> Service!Said(d) + i]
      <4>1. CASE i = Len(inbox[d]) + 1
        BY <3>2, <3>3, <4>1
      <4>2. CASE i # Len(inbox[d]) + 1
        <5>1. i \in 1 .. Len(inbox[d])
          BY <3>2, <4>2
        <5>2. QED
          BY <2>2, <3>2, <5>1
      <4>3. QED
        BY <4>1, <4>2
    <3>5. Service!Said(d) + Len(inbox'[d]) = sent'[d]
      BY <2>1, <3>1, <3>2, <3>3
    <3>6. QED
      BY <2>1, <3>4, <3>5
  <2>4. CASE c # d
    <3>1. inbox'[d] = inbox[d] /\ sent'[d] = sent[d]
      BY <1>2, <2>4, SendReturnsStep, TypesSorted DEF ClientTypes
    <3>2. QED
      BY <2>1, <2>2, <3>1
  <2>5. QED
    BY <2>3, <2>4
<1>3. CASE UNCHANGED <<log, inbox, sent>>
  BY <1>3 DEF Numbered, Service!Said
<1> HIDE DEF Fits
<1>4. CASE EpollReturn \/ HandleNewConnection
  BY <1>3, <1>4 DEF EpollReturn, HandleNewConnection
<1>5. CASE \E fd \in Fds : HandleClose(fd) \/ HandleReset(fd) \/ SendNext(fd)
  BY <1>3, <1>5 DEF HandleClose, HandleReset, SendNext
<1>6. CASE \E c \in Clients : Connect(c) \/ Types(c) \/ Reads(c) \/ Exits(c) \/ ResetArrives(c)
  BY <1>3, <1>6 DEF Connect, Types, Reads, Exits, ResetArrives, serverVars
<1>7. QED
  <2>1. \A fd \in Filed : fd \in Fds
    BY DEF Filed
  <2>2. QED
    BY ONLY <1>0, <1>1, <1>2, <1>4, <1>5, <1>6, <2>1, Next, ServerSteps

LEMMA LastSaidStep ==
  ASSUME TypeInv, Numbered, LastSaid, Next
  PROVE  LastSaid'
<1>1. ASSUME NEW fd \in Filed, HandleLine(fd)
      PROVE  LastSaid'
  <2>1. PICK line \in Line : message' = line /\ log' = Append(log, line)
    BY <1>1, LineRead
  <2>2. log' # <<>> /\ log'[Len(log')] = line
    BY <2>1, AppendProperties, LenProperties, TypesSorted DEF ServerTypes
  <2>3. QED
    BY <2>1, <2>2 DEF LastSaid
<1>2. CASE UNCHANGED <<log, message>> /\ owed' \subseteq owed
  BY <1>2 DEF LastSaid, Broadcasting
<1>3. CASE EpollReturn \/ HandleNewConnection
  BY <1>2, <1>3 DEF EpollReturn, HandleNewConnection
<1>4. CASE \E fd \in Fds : HandleClose(fd) \/ HandleReset(fd) \/ SendNext(fd)
  BY <1>2, <1>4 DEF HandleClose, HandleReset, SendNext
<1>5. CASE \E c \in Clients : \/ Connect(c) \/ Types(c) \/ Reads(c) \/ SendReturns(c)
                              \/ Exits(c) \/ ResetArrives(c)
  BY <1>2, <1>5 DEF Connect, Types, Reads, SendReturns, Exits, ResetArrives, serverVars
<1>6. QED
  <2>1. \A fd \in Filed : fd \in Fds
    BY DEF Filed
  <2>2. QED
    BY ONLY <1>1, <1>3, <1>4, <1>5, <2>1, Next, ServerSteps

-----------------------------------------------------------------------------
LEMMA TypesSortedNext ==
  ServerTypes' /\ ClientTypes' /\ (\A c \in Clients : Buffers(c)') => TypeInv'
<1> DEFINE Sorted == ServerTypes /\ ClientTypes /\ \A c \in Clients : Buffers(c)
<1>1. Sorted => TypeInv
  BY TypesSorted
<1>2. ServerTypes' /\ ClientTypes' /\ (\A c \in Clients : Buffers(c)') => Sorted'
  OBVIOUS
<1> HIDE DEF Sorted
<1>3. QED
  BY <1>1, <1>2, PTL

\* The parts above hold together in every state.
THEOREM BroadcastInvariant == Spec => []Inv
<1>1. Init => Inv
  <2> SUFFICES ASSUME Init
               PROVE  Inv
    OBVIOUS
  <2>1. \A c \in Clients : Lines[c] \in Nat /\ InBuffer \in Nat /\ OutBuffer \in Nat
    BY BroadcastReactorAssumption
  <2>2. Len(<<>>) = 0 /\ <<>> \in Seq(Clients) /\ <<>> \in Seq(Line)
    OBVIOUS
  <2>3. ServerTypes /\ ClientTypes
    BY <2>2 DEF Init, ServerTypes, ClientTypes, LinkStates, NextOf
  <2>4. \A c \in Clients : Buffers(c)
    BY <2>1, <2>2 DEF Init, Buffers, Unread
  <2>5. Filed = {} /\ Held = {} /\ Range(backlog) = {} /\ IsInjective(backlog)
    BY DEF Init, Filed, Held, Range, IsInjective
  <2>6. Accepting /\ Filing /\ LastSaid
    BY <2>5 DEF Init, Accepting, Unaccepted, Filing, LastSaid, Broadcasting
  <2>7. \A c \in Clients : Service!Said(c) = 0
    <3>1. \A c \in Clients : {i \in DOMAIN log : log[i].from = c} = {}
      BY <2>2 DEF Init
    <3>2. QED
      BY <3>1, SameCardinality, FS_EmptySet DEF Service!Said
  <2>8. Numbered
    BY <2>2, <2>7 DEF Init, Numbered
  <2>9. QED
    BY <2>3, <2>4, <2>6, <2>8, TypesSorted DEF Inv
<1>2. Inv /\ [Next]_vars => Inv'
  <2> SUFFICES ASSUME Inv, [Next]_vars
               PROVE  Inv'
    OBVIOUS
  <2>1. CASE Next
    <3>1. ServerTypes' /\ ClientTypes' /\ \A c \in Clients : Buffers(c)'
      BY <2>1, ServerTypesStep, ClientTypesStep, BuffersStep DEF Inv
    <3>2. TypeInv'
      BY <3>1, TypesSortedNext
    <3>3. QED
      BY <2>1, <3>2, AcceptingStep, FilingStep, NumberedStep, LastSaidStep DEF Inv
  <2>2. CASE UNCHANGED vars
    <3> USE <2>2 DEF vars, serverVars
    <3>1. TypeInv'
      BY DEF Inv, TypeInv, TypeOK, Unread, Filed
    <3>2. Accepting' /\ Filing'
      BY DEF Inv, Accepting, Unaccepted, Held, Filing, Filed
    <3>3. Numbered' /\ LastSaid'
      BY DEF Inv, Numbered, Service!Said, LastSaid, Broadcasting
    <3>4. QED
      BY <3>1, <3>2, <3>3 DEF Inv
  <2>3. QED
    BY <2>1, <2>2
<1>3. QED
  BY <1>1, <1>2, PTL DEF Spec

(***************************************************************************)
(* Type correctness, with the limits of the kernel's buffers.              *)
(***************************************************************************)
THEOREM BroadcastTypeCorrect == Spec => []TypeOK
<1>1. Inv => TypeOK
  BY DEF Inv, TypeInv
<1>2. QED
  BY <1>1, BroadcastInvariant, PTL

-----------------------------------------------------------------------------
(***************************************************************************)
(* The refinement.                                                         *)
(***************************************************************************)
OwedTo == {conns[fd] : fd \in owed}

\* The mapped variables that are not variables of the server.
At == [c \in Clients |-> IF c \notin Held THEN 0
                         ELSE IF c \in OwedTo THEN Len(log) - 1
                         ELSE Len(log)]
Deaf == {c \in Clients : link[c] \notin {"new", "open"}}

LEMMA AbstractSteps ==
  ASSUME NEW c \in Clients
  PROVE  /\ Service!Join(c) <=> /\ c \notin Held /\ heard[c] = <<>> /\ Held' = Held \cup {c}
                                /\ At' = [At EXCEPT ![c] = Len(log)]
                                /\ log' = log /\ Deaf' = Deaf /\ heard' = heard
         /\ Service!Say(c) <=> /\ c \in Held /\ At[c] = Len(log)
                               /\ log' = Append(log, [from |-> c, num |-> Service!Said(c) + 1])
                               /\ At' = [At EXCEPT ![c] = Len(log) + 1]
                               /\ Held' = Held /\ Deaf' = Deaf /\ heard' = heard
         /\ Service!Deliver(c) <=>
              /\ c \in Held /\ At[c] < Len(log) /\ At' = [At EXCEPT ![c] = @ + 1]
              /\ heard' = IF c \in Deaf THEN heard
                          ELSE [heard EXCEPT ![c] = Append(@, log[At[c] + 1])]
              /\ log' = log /\ Held' = Held /\ Deaf' = Deaf
         /\ Service!HangUp(c) <=> /\ Deaf' = Deaf \cup {c}
                                  /\ log' = log /\ Held' = Held /\ At' = At /\ heard' = heard
         /\ Service!Leave(c) <=> /\ c \in Held \cap Deaf /\ Held' = Held \ {c}
                                 /\ At' = [At EXCEPT ![c] = 0]
                                 /\ log' = log /\ Deaf' = Deaf /\ heard' = heard
  BY DEF Service!Join, Service!Say, Service!Deliver, Service!HangUp, Service!Leave, At, Deaf, OwedTo

LEMMA AbstractStutter ==
  ASSUME log' = log, Held' = Held, Deaf' = Deaf, At' = At, heard' = heard
  PROVE  UNCHANGED Service!vars
  BY DEF Service!vars, At, Deaf, OwedTo

\* What At depends on.
LEMMA SamePlaces ==
  ASSUME UNCHANGED conns
  PROVE  Held' = Held /\ (UNCHANGED <<owed, log>> => At' = At)
  BY DEF Held, Filed, At, OwedTo

\* Steps the members of the service do not see.
LEMMA HiddenSteps ==
  ASSUME TypeInv,
         \/ EpollReturn
         \/ \E fd \in Filed : HandleReset(fd)
         \/ \E c \in Clients : Connect(c) \/ Types(c) \/ Reads(c) \/ SendReturns(c) \/ ResetArrives(c)
  PROVE  UNCHANGED Service!vars
<1>1. link \in [Clients -> LinkStates]
  BY TypesSorted DEF ClientTypes
<1>2. UNCHANGED <<conns, owed, log, heard>>
  BY DEF EpollReturn, HandleReset, Connect, Types, Reads, SendReturns, ResetArrives, serverVars
<1>3. Deaf' = Deaf
  BY <1>1 DEF EpollReturn, HandleReset, Connect, Types, Reads, SendReturns, ResetArrives,
              serverVars, Deaf
<1>4. QED
  BY <1>2, <1>3, SamePlaces, AbstractStutter

LEMMA ExitHangsUp ==
  ASSUME TypeInv, NEW c \in Clients, Exits(c)
  PROVE  Service!HangUp(c)
<1>1. link \in [Clients -> LinkStates]
  BY TypesSorted DEF ClientTypes
<1>2. UNCHANGED <<conns, owed, log, heard>>
  BY DEF Exits, serverVars
<1>3. Deaf' = Deaf \cup {c}
  <2>1. link'[c] \in {"fin", "rst", "poked"} /\ \A d \in Clients \ {c} : link'[d] = link[d]
    BY <1>1 DEF Exits
  <2>2. QED
    BY <2>1 DEF Deaf
<1>4. QED
  BY <1>2, <1>3, SamePlaces, AbstractSteps

LEMMA AcceptJoins ==
  ASSUME Inv, HandleNewConnection
  PROVE  \E c \in Clients : Service!Join(c)
<1> USE DEF Inv
<1>1. PICK c \in Clients : c \in Range(backlog) /\ c \notin Held /\ Held' = Held \cup {c}
  BY AcceptPlaces
<1>2. heard[c] = <<>>
  BY <1>1 DEF Accepting, Unaccepted
<1>3. UNCHANGED <<log, link, heard>> /\ owed = {} /\ owed' = {}
  BY DEF HandleNewConnection, Dispatch, Free, Broadcasting
<1>4. OwedTo = {} /\ OwedTo' = {} /\ Deaf' = Deaf
  BY <1>3 DEF OwedTo, Deaf
<1>5. At' = [At EXCEPT ![c] = Len(log)]
  BY <1>1, <1>3, <1>4 DEF At
<1>6. QED
  BY <1>1, <1>2, <1>3, <1>4, <1>5, AbstractSteps

\* The sender has been sent all earlier lines, since no other broadcast is under way;
\* and it alone is not sent this one.
LEMMA LineIsSaid ==
  ASSUME Inv, NEW fd \in Filed, HandleLine(fd)
  PROVE  \E c \in Clients : Service!Say(c)
<1> USE DEF Inv
<1>1. PICK c \in Clients, line \in Line :
        /\ c = conns[fd] /\ line = [from |-> c, num |-> Service!Said(c) + 1]
        /\ log' = Append(log, line)
  BY LineRead
<1>2. /\ UNCHANGED <<conns, link, heard>> /\ owed = {} /\ owed' = Filed \ {fd}
  BY DEF HandleLine, Dispatch, Free, Broadcasting, Recipients
<1>3. OwedTo = {} /\ Held' = Held /\ Deaf' = Deaf /\ c \in Held
  BY <1>1, <1>2, FiledMember, SamePlaces DEF OwedTo, Deaf
<1>4. OwedTo' = Held \ {c}
  <2>1. OwedTo' = {conns[other] : other \in Filed \ {fd}}
    BY <1>2 DEF OwedTo
  <2>2. \A other \in Filed \ {fd} : conns[other] # c
    BY <1>1 DEF Filing
  <2>3. QED
    BY <1>1, <2>1, <2>2 DEF Held
<1>5. Len(log) \in Nat /\ Len(log') = Len(log) + 1
  BY <1>1, AppendProperties, LenProperties, TypesSorted DEF ServerTypes
<1>6. At[c] = Len(log) /\ At' = [At EXCEPT ![c] = Len(log) + 1]
  <2>1. At = [d \in Clients |-> IF d \notin Held THEN 0 ELSE Len(log)]
    BY <1>3 DEF At
  <2>2. At' = [d \in Clients |-> IF d \notin Held THEN 0
                                 ELSE IF d # c THEN Len(log') - 1 ELSE Len(log')]
    BY <1>3, <1>4 DEF At
  <2>3. Len(log') - 1 = Len(log)
    BY <1>5
  <2>4. QED
    BY <1>3, <1>5, <2>1, <2>2, <2>3
<1>7. QED
  BY <1>1, <1>2, <1>3, <1>6, AbstractSteps

LEMMA CloseLeaves ==
  ASSUME Inv, NEW fd \in Filed, HandleClose(fd)
  PROVE  \E c \in Clients : Service!Leave(c)
<1> USE DEF Inv
<1> DEFINE c == conns[fd]
<1>1. c \in Clients /\ c \in Held
  BY FiledMember
<1>2. UNCHANGED <<log, link, heard>> /\ owed = {} /\ owed' = {} /\ Held' = Held \ {c}
  BY ClosePlaces DEF HandleClose
<1>3. c \in Deaf
  BY <1>1 DEF HandleClose, IsClosed, Over, Deaf
<1>4. OwedTo = {} /\ OwedTo' = {} /\ Deaf' = Deaf
  BY <1>2 DEF OwedTo, Deaf
<1>5. At' = [At EXCEPT ![c] = 0]
  BY <1>1, <1>2, <1>4 DEF At
<1>6. QED
  BY <1>1, <1>2, <1>3, <1>4, <1>5, AbstractSteps

\* What is sent is the last line of the log, to one that has been sent the others.
LEMMA SendDelivers ==
  ASSUME Inv, NEW fd \in Fds, SendNext(fd)
  PROVE  \E c \in Clients : Service!Deliver(c)
<1> USE DEF Inv
<1> DEFINE c == conns[fd]
<1>1. fd \in Filed /\ fd \in owed /\ owed \subseteq Filed /\ c \in Clients /\ c \in Held
  BY SendNextStep, FiledMember, TypesSorted DEF SendNext, ServerTypes
<1>2. /\ UNCHANGED <<conns, log>> /\ owed' = owed \ {fd}
      /\ heard' = IF link[c] = "open" THEN [heard EXCEPT ![c] = Append(@, message)] ELSE heard
      /\ link' = [link EXCEPT ![c] = Poked(@)]
  BY DEF SendNext
<1>3. Held' = Held /\ c \in OwedTo
  BY <1>1, <1>2, SamePlaces DEF OwedTo
<1>4. OwedTo' = OwedTo \ {c}
  <2>1. OwedTo' = {conns[other] : other \in owed \ {fd}}
    BY <1>2 DEF OwedTo
  <2>2. \A other \in owed \ {fd} : conns[other] # c
    BY <1>1 DEF Filing
  <2>3. QED
    BY <2>1, <2>2 DEF OwedTo
<1>5. Len(log) \in Nat \ {0} /\ message = log[Len(log)]
  BY <1>1, EmptySeq, LenProperties, TypesSorted DEF LastSaid, Broadcasting, ServerTypes
<1>6. /\ At[c] = Len(log) - 1 /\ At[c] < Len(log) /\ At[c] + 1 = Len(log)
      /\ At' = [At EXCEPT ![c] = @ + 1]
  <2>1. At[c] = Len(log) - 1 /\ Len(log) - 1 + 1 = Len(log) /\ Len(log) - 1 < Len(log)
    BY <1>1, <1>3, <1>5 DEF At
  <2>2. At' = [At EXCEPT ![c] = Len(log)]
    BY <1>1, <1>2, <1>3, <1>4 DEF At
  <2>3. QED
    BY <2>1, <2>2
<1>7. Deaf' = Deaf
  BY <1>1, <1>2, TypesSorted DEF Deaf, Poked, ClientTypes, LinkStates
<1>8. c \in Deaf <=> link[c] # "open"
  <2>1. link[c] # "new"
    BY <1>1 DEF Accepting, Unaccepted
  <2>2. QED
    BY <1>1, <2>1 DEF Deaf
<1>9. heard' = IF c \in Deaf THEN heard ELSE [heard EXCEPT ![c] = Append(@, log[At[c] + 1])]
  BY <1>2, <1>5, <1>6, <1>8
<1>10. QED
  BY <1>1, <1>2, <1>3, <1>6, <1>7, <1>9, AbstractSteps

(***************************************************************************)
(* The server is a chat service (ImplementsBroadcast), whatever the number *)
(* of clients and lines and the sizes of the buffers: one order of lines   *)
(* for all, no line twice, none to its sender, none missing for a client   *)
(* who stays.                                                              *)
(***************************************************************************)
THEOREM BroadcastRefines == Spec => ImplementsBroadcast
<1>1. Init => Service!Init
  <2> SUFFICES ASSUME Init
               PROVE  Service!Init
    OBVIOUS
  <2>1. Filed = {} /\ Held = {} /\ Deaf = {}
    BY DEF Init, Filed, Held, Deaf
  <2>2. At = [c \in Clients |-> 0]
    BY <2>1 DEF At
  <2>3. QED
    BY <2>1, <2>2 DEF Init, Service!Init, At, Deaf, OwedTo
<1>2. Inv /\ [Next]_vars => [Service!Next]_Service!vars
  <2> SUFFICES ASSUME Inv, [Next]_vars
               PROVE  Service!Next \/ UNCHANGED Service!vars
    OBVIOUS
  <2>1. CASE UNCHANGED vars
    <3>1. UNCHANGED <<conns, owed, log, heard, link>>
      BY <2>1 DEF vars, serverVars
    <3>2. QED
      BY <3>1, SamePlaces, AbstractStutter DEF Deaf
  <2>2. CASE Next
    <3>1. CASE \/ EpollReturn
               \/ \E fd \in Filed : HandleReset(fd)
               \/ \E c \in Clients : \/ Connect(c) \/ Types(c) \/ Reads(c)
                                     \/ SendReturns(c) \/ ResetArrives(c)
      BY <3>1, HiddenSteps DEF Inv
    <3>2. CASE \E c \in Clients : Exits(c)
      BY <3>2, ExitHangsUp DEF Inv, Service!Next
    <3>3. CASE HandleNewConnection
      BY <3>3, AcceptJoins DEF Service!Next
    <3>4. CASE \E fd \in Filed : HandleLine(fd)
      BY <3>4, LineIsSaid DEF Service!Next
    <3>5. CASE \E fd \in Filed : HandleClose(fd)
      BY <3>5, CloseLeaves DEF Service!Next
    <3>6. CASE \E fd \in Fds : SendNext(fd)
      BY <3>6, SendDelivers DEF Service!Next
    <3>7. QED
      BY <2>2, <3>1, <3>2, <3>3, <3>4, <3>5, <3>6, ServerSteps
  <2>3. QED
    BY <2>1, <2>2
<1>3. QED
  BY <1>1, <1>2, BroadcastInvariant, PTL DEF Spec, ImplementsBroadcast, Service!Spec
=============================================================================
