---------------------------- MODULE ChatRoomProofs ----------------------------
(***************************************************************************)
(* Proofs about ChatRoom, for any number of users, connections and units,  *)
(* any capacity of the array, any timeout and any sizes of buffers: the    *)
(* client array, the descriptors and the connections agree (ArrayMatches), *)
(* events are fresh when they are handled (BatchFresh), no edge is lost    *)
(* (NewsNotLost), clients hear each other without gaps (HearsGapless), the *)
(* scan kicks exactly the idle clients (ScanExact), and a connection is    *)
(* closed unread for three reasons only (ReadBeforeClosed).                *)
(***************************************************************************)
EXTENDS ChatRoom, SequenceLemmas, FiniteSetTheorems

Ends == {"open", "fin", "poked", "pipe", "rst", "gone"}
Entries == [fd : Fds, idle : 0 .. Timeout + 1]
Events == [fd : Fds \cup {Listen}, hup : BOOLEAN, conn : Conns \cup {None}]

\* The descriptors that are open.
Held == {f \in Fds : owner[f] # None}

\* What each variable is by itself.
Flat ==
  /\ up \in BOOLEAN /\ pc \in {"wait", "dispatch", "recv"}
  /\ todo \in Seq(Events) /\ clients \in Seq(Entries)
  /\ owner \in [Fds -> Conns \cup {None}] /\ edge \subseteq Fds
  /\ backlog \in Seq(Conns) /\ link \in [Conns -> Ends]
  /\ sentN \in [Conns -> Nat] /\ readN \in [Conns -> Nat] /\ seen \in [Conns -> Nat]
  /\ heard \in [Conns -> Seq(Conns \X Nat)]
  /\ made \in 0 .. MaxConns /\ inUse \subseteq 1 .. made /\ dropped \subseteq Conns

\* The batch has at most one event of each descriptor, and it is fresh.
Batched ==
  /\ pc = "wait" => todo = <<>>
  /\ pc = "recv" => todo # <<>> /\ Head(todo).fd # Listen
  /\ \A i, j \in DOMAIN todo : todo[i].fd = todo[j].fd => i = j
  /\ \A i \in DOMAIN todo :
       IF todo[i].fd = Listen THEN backlog # <<>> /\ ~todo[i].hup
       ELSE todo[i].conn # None /\ owner[todo[i].fd] = todo[i].conn

\* A connection is to be made, waits in the backlog, has a descriptor, or is closed.
Filed ==
  /\ IsInjective(backlog)
  /\ \A c \in Range(backlog) : c <= made /\ FdsOf(c) = {} /\ heard[c] = <<>>
  /\ \A f \in Fds : owner[f] <= made
  /\ \A c \in Conns : c > made => heard[c] = <<>>

\* The streams of a connection are read behind what is written, and never more is
\* unread than the kernel keeps.
Streams ==
  \A c \in Conns :
    readN[c] <= sentN[c] /\ seen[c] <= Len(heard[c]) /\ Len(heard[c]) - seen[c] <= SendBuffer

\* c has heard only others, only what the server has received from them, in order.
InOrder(c) ==
  /\ \A i \in DOMAIN heard[c] :
       heard[c][i][1] # c /\ 1 <= heard[c][i][2] /\ heard[c][i][2] <= readN[heard[c][i][1]]
  /\ \A i, j \in DOMAIN heard[c] :
       i < j /\ heard[c][i][1] = heard[c][j][1] => heard[c][i][2] < heard[c][j][2]

\* Without a gap, and as long as it is connected to a living server up to the last.
Gapless(c) ==
  c \notin dropped =>
    /\ \A u, v \in HeardUnits(c) :
         u[1] = v[1] => \A n \in u[2] .. v[2] : <<u[1], n>> \in HeardUnits(c)
    /\ up /\ link[c] = "open" /\ FdsOf(c) # {} =>
         \A u \in HeardUnits(c) : <<u[1], readN[u[1]]>> \in HeardUnits(c)

Heard == \A c \in Conns : InOrder(c) /\ Gapless(c)

Inv == Flat /\ ArrayMatches /\ Batched /\ edge \subseteq Held /\ NewsNotLost /\ Filed /\ Streams /\ Heard

-----------------------------------------------------------------------------
(***************************************************************************)
(* What a step keeps.                                                      *)
(***************************************************************************)
SameFds ==
  Len(clients') = Len(clients) /\ \A i \in DOMAIN clients : clients'[i].fd = clients[i].fd

LEMMA MatchesKept ==
  ASSUME Inv, owner' = owner, clients' \in Seq(Entries), SameFds
  PROVE  ArrayMatches' /\ FdsIn(clients') = FdsIn(clients) /\ Held' = Held
<1>1. clients \in Seq(Entries) /\ clients' \in Seq(Entries) /\ ArrayMatches
  BY DEF Inv, Flat
<1>2. DOMAIN clients' = DOMAIN clients /\ \A i \in DOMAIN clients : clients'[i].fd = clients[i].fd
  BY <1>1, LenProperties DEF SameFds
<1>3. FdsIn(clients') = FdsIn(clients) /\ Held' = Held
  BY <1>2 DEF FdsIn, Held
<1>4. QED
  BY <1>1, <1>2, <1>3 DEF ArrayMatches, SameFds

LEMMA HeardKept ==
  ASSUME Inv, UNCHANGED <<up, heard, readN, dropped>>,
         \A c \in Conns : link'[c] = "open" /\ FdsOf(c)' # {} =>
                            heard[c] = <<>> \/ (link[c] = "open" /\ FdsOf(c) # {})
  PROVE  Heard'
<1>1. ASSUME NEW c \in Conns
      PROVE  InOrder(c)' /\ Gapless(c)'
  <2>1. InOrder(c) /\ Gapless(c) /\ HeardUnits(c)' = HeardUnits(c)
    BY DEF Inv, Heard, HeardUnits
  <2>2. InOrder(c)'
    BY <2>1 DEF InOrder
  <2>3. heard[c] = <<>> => HeardUnits(c) = {}
    BY DEF HeardUnits, ToSet
  <2>4. Gapless(c)'
    BY <2>1, <2>3 DEF Gapless
  <2>5. QED
    BY <2>2, <2>4
<1>2. QED
  BY <1>1 DEF Heard

\* Only the clients move, or the clock.  A change that the server must come to know is
\* news of the descriptor.
LEMMA OutsideStep ==
  ASSUME Inv, Flat', UNCHANGED <<up, pc, todo, owner, readN, heard, dropped>>, SameFds,
         \/ UNCHANGED <<backlog, made>>
         \/ backlog' = Append(backlog, made + 1) /\ made' = made + 1 /\ made + 1 \in Conns,
         edge \subseteq edge', edge' \subseteq Held,
         \A c \in Conns : sentN[c] <= sentN'[c],
         \A c \in Conns : (sentN'[c] = sentN[c] /\ link'[c] = link[c]) \/ FdsOf(c) \subseteq edge',
         \A c \in Conns : link'[c] = "open" => link[c] = "open",
         \A c \in Conns : seen'[c] = seen[c] \/ seen'[c] = Len(heard[c])
  PROVE  Inv'
<1>1. clients \in Seq(Entries) /\ clients' \in Seq(Entries)
  BY DEF Inv, Flat
<1>2. ArrayMatches' /\ FdsIn(clients') = FdsIn(clients) /\ Held' = Held
  BY <1>1, MatchesKept
<1>3. \A c : FdsOf(c)' = FdsOf(c)
  BY DEF FdsOf
<1>4. made \in Nat /\ made' \in Nat /\ made <= made' /\ backlog \in Seq(Conns) /\ Range(backlog) \subseteq Conns
  <2>1. made \in 0 .. MaxConns /\ backlog \in Seq(Conns)
    BY DEF Inv, Flat
  <2>2. Range(backlog) \subseteq Conns
    BY <2>1 DEF Range
  <2>3. QED
    BY <2>1, <2>2, ChatRoomAssumption
<1>5. Batched' /\ edge' \subseteq Held'
  <2>1. backlog # <<>> => backlog' # <<>>
    BY <1>4, AppendProperties
  <2>2. QED
    BY <1>2, <2>1 DEF Inv, Batched
<1>6. NewsNotLost'
  <2>1. SUFFICES ASSUME NEW f \in FdsIn(clients), Unread(owner[f])' > 0 \/ link'[owner[f]] # "open"
                 PROVE  f \in edge' \/ \E i \in DOMAIN todo : todo[i].fd = f
    BY <1>2 DEF NewsNotLost
  <2>2. f \in Fds /\ owner[f] \in Conns /\ f \in FdsOf(owner[f])
    BY DEF Inv, Flat, ArrayMatches, FdsOf
  <2>3. CASE sentN'[owner[f]] = sentN[owner[f]] /\ link'[owner[f]] = link[owner[f]]
    <3>1. Unread(owner[f])' = Unread(owner[f])
      BY <2>3 DEF Unread
    <3>2. QED
      BY <2>1, <2>3, <3>1 DEF Inv, NewsNotLost
  <2>4. CASE FdsOf(owner[f]) \subseteq edge'
    BY <2>2, <2>4
  <2>5. QED
    BY <2>2, <2>3, <2>4
<1>7. Filed'
  <2>1. IsInjective(backlog') /\ \A c \in Range(backlog') : c <= made' /\ FdsOf(c) = {} /\ heard[c] = <<>>
    <3>1. IsInjective(backlog) /\ \A c \in Range(backlog) : c <= made /\ FdsOf(c) = {} /\ heard[c] = <<>>
      BY DEF Inv, Filed
    <3>2. CASE UNCHANGED <<backlog, made>>
      BY <3>1, <3>2
    <3>3. CASE backlog' = Append(backlog, made + 1) /\ made' = made + 1 /\ made + 1 \in Conns
      <4>1. made + 1 \notin Range(backlog)
        BY <1>4, <3>1
      <4>2. FdsOf(made + 1) = {} /\ heard[made + 1] = <<>>
        BY <1>4, <3>3 DEF Inv, Flat, Filed, FdsOf
      <4>3. Range(backlog') = Range(backlog) \cup {made + 1} /\ IsInjective(backlog')
        BY <1>4, <3>1, <3>3, <4>1, RangeOfAppend
      <4>4. \A c \in Range(backlog) : c <= made'
        BY <1>4, <3>1 DEF Conns
      <4>5. QED
        BY <1>4, <3>1, <3>3, <4>2, <4>3, <4>4
    <3>4. QED
      BY <3>2, <3>3
  <2>2. \A f \in Fds : owner[f] <= made'
    <3>1. \A f \in Fds : owner[f] \in Int /\ owner[f] <= made
      BY ChatRoomAssumption DEF Inv, Flat, Filed, Conns, None
    <3>2. QED
      BY <1>4, <3>1
  <2>3. \A c \in Conns : c > made' => heard[c] = <<>>
    BY <1>4 DEF Inv, Filed, Conns
  <2>4. QED
    BY <1>3, <2>1, <2>2, <2>3 DEF Filed
<1>8. Streams'
  <2>1. ASSUME NEW c \in Conns
        PROVE  /\ readN'[c] <= sentN'[c] /\ seen'[c] <= Len(heard'[c])
               /\ Len(heard'[c]) - seen'[c] <= SendBuffer
    <3>1. /\ readN[c] \in Nat /\ sentN[c] \in Nat /\ sentN'[c] \in Nat /\ seen[c] \in Nat
          /\ Len(heard[c]) \in Nat /\ SendBuffer \in Nat
      BY ChatRoomAssumption, LenProperties DEF Inv, Flat
    <3>2. readN[c] <= sentN[c] /\ seen[c] <= Len(heard[c]) /\ Len(heard[c]) - seen[c] <= SendBuffer
      BY DEF Inv, Streams
    <3>3. sentN[c] <= sentN'[c] /\ (seen'[c] = seen[c] \/ seen'[c] = Len(heard[c]))
      OBVIOUS
    <3>4. readN'[c] <= sentN'[c]
      BY <3>1, <3>2, <3>3
    <3>5. seen'[c] <= Len(heard[c]) /\ Len(heard[c]) - seen'[c] <= SendBuffer
      BY <3>1, <3>2, <3>3
    <3>6. QED
      BY <3>4, <3>5
  <2>2. QED
    BY <2>1 DEF Streams
<1>9. Heard'
  BY <1>3, HeardKept
<1>10. QED
  BY <1>2, <1>5, <1>6, <1>7, <1>8, <1>9 DEF Inv

\* The connection a descriptor stands for, and the other way round.
LEMMA FdsHeld ==
  ASSUME Inv, NEW c \in Conns
  PROVE  FdsOf(c) \subseteq Held
  BY DEF FdsOf, Held, Conns, None

LEMMA ConnectAndSendStep ==
  ASSUME Inv, NEW n \in {0, 1}, ConnectAndSend(n)
  PROVE  Inv'
<1>1. /\ made < MaxConns /\ made' = made + 1 /\ inUse' = inUse \cup {made + 1}
      /\ backlog' = Append(backlog, made + 1) /\ sentN' = [sentN EXCEPT ![made + 1] = @ + n]
      /\ UNCHANGED <<up, pc, todo, clients, owner, edge, link, readN, heard, seen, dropped>>
  BY DEF ConnectAndSend, Sends, program
<1>2. made \in 0 .. MaxConns /\ MaxConns \in Nat /\ made + 1 \in Conns /\ made' \in 0 .. MaxConns
  BY <1>1, ChatRoomAssumption DEF Inv, Flat, Conns
<1>3. /\ sentN' \in [Conns -> Nat] /\ \A c \in Conns : sentN[c] <= sentN'[c]
      /\ \A c \in Conns \ {made + 1} : sentN'[c] = sentN[c]
  <2>1. sentN \in [Conns -> Nat]
    BY DEF Inv, Flat
  <2>2. sentN' = [sentN EXCEPT ![made + 1] = sentN[made + 1] + n] /\ sentN[made + 1] + n \in Nat
    BY <1>1, <1>2, <2>1
  <2>3. \A c \in Conns : sentN'[c] = IF c = made + 1 THEN sentN[c] + n ELSE sentN[c]
    BY <1>2, <2>1, <2>2
  <2>4. \A c \in Conns : sentN[c] <= sentN[c] + n
    BY <2>1
  <2>5. sentN' \in [Conns -> Nat]
    BY <2>1, <2>2
  <2>6. QED
    BY <2>1, <2>3, <2>4, <2>5
<1>4. Flat'
  <2>1. backlog' \in Seq(Conns)
    BY <1>1, <1>2, AppendProperties DEF Inv, Flat
  <2>2. inUse' \subseteq 1 .. made'
    BY <1>1, <1>2 DEF Inv, Flat
  <2>3. QED
    BY <1>1, <1>2, <1>3, <2>1, <2>2 DEF Inv, Flat
<1>5. FdsOf(made + 1) = {}
  BY <1>2 DEF FdsOf, Inv, Flat, Filed, Conns
<1>6. edge \subseteq Held
  BY DEF Inv
<1>7. \A c \in Conns : (sentN'[c] = sentN[c] /\ link'[c] = link[c]) \/ FdsOf(c) \subseteq edge'
  BY <1>1, <1>3, <1>5
<1>8. QED
  BY <1>1, <1>2, <1>3, <1>4, <1>6, <1>7, OutsideStep DEF SameFds

LEMMA SendLineStep ==
  ASSUME Inv, NEW c \in Conns, SendLine(c)
  PROVE  Inv'
<1>1. /\ sentN' = [sentN EXCEPT ![c] = @ + 1] /\ edge' = edge \cup FdsOf(c)
      /\ UNCHANGED <<up, pc, todo, clients, owner, backlog, link, readN, heard, seen, dropped, inUse, made>>
  BY DEF SendLine, Sends, program
<1>2. FdsOf(c) \subseteq Held /\ edge \subseteq Held /\ Held \subseteq Fds
  BY FdsHeld DEF Inv, Held
<1>3. /\ sentN' \in [Conns -> Nat] /\ \A d \in Conns : sentN[d] <= sentN'[d]
      /\ \A d \in Conns \ {c} : sentN'[d] = sentN[d]
  BY <1>1 DEF Inv, Flat
<1>4. Flat'
  BY <1>1, <1>2, <1>3 DEF Inv, Flat
<1>5. QED
  BY <1>1, <1>2, <1>3, <1>4, OutsideStep DEF SameFds

LEMMA NoticesEndStep ==
  ASSUME Inv, NEW c \in Conns, NoticesEnd(c)
  PROVE  Inv'
<1>1. /\ inUse' = inUse \ {c}
      /\ UNCHANGED <<up, pc, todo, clients, owner, edge, backlog, link, sentN, readN, heard, seen, dropped, made>>
  BY DEF NoticesEnd, program, data
<1>2. edge \subseteq Held /\ \A d \in Conns : sentN[d] <= sentN[d]
  BY DEF Inv, Flat
<1>3. Flat'
  BY <1>1 DEF Inv, Flat
<1>4. QED
  BY <1>1, <1>2, <1>3, OutsideStep DEF SameFds

LEMMA ReadsStep ==
  ASSUME Inv, NEW c \in Conns, Reads(c)
  PROVE  Inv'
<1>1. /\ seen' = [seen EXCEPT ![c] = Len(heard[c])]
      /\ UNCHANGED <<up, pc, todo, clients, owner, edge, backlog, link, sentN, readN, heard, dropped, inUse, made>>
  BY DEF Reads, program
<1>2. edge \subseteq Held /\ \A d \in Conns : sentN[d] <= sentN[d]
  BY DEF Inv, Flat
<1>3. Len(heard[c]) \in Nat
  BY LenProperties DEF Inv, Flat
<1>4. Flat' /\ \A d \in Conns : seen'[d] = seen[d] \/ seen'[d] = Len(heard[d])
  BY <1>1, <1>3 DEF Inv, Flat
<1>5. QED
  BY <1>1, <1>2, <1>4, OutsideStep DEF SameFds

\* The client's end of a connection moves on.
LEMMA LinkStep ==
  ASSUME Inv, NEW c \in Conns, NEW state \in Ends \ {"open"},
         link' = [link EXCEPT ![c] = state], edge' = edge \cup FdsOf(c), inUse' \subseteq inUse,
         UNCHANGED <<up, pc, todo, clients, owner, backlog, sentN, readN, heard, seen, dropped, made>>
  PROVE  Inv'
<1>1. FdsOf(c) \subseteq Held /\ edge \subseteq Held /\ Held \subseteq Fds
  BY FdsHeld DEF Inv, Held
<1>2. /\ link' \in [Conns -> Ends] /\ link'[c] # "open"
      /\ \A d \in Conns \ {c} : link'[d] = link[d]
  BY DEF Inv, Flat, Ends
<1>3. Flat'
  BY <1>1, <1>2 DEF Inv, Flat
<1>4. \A d \in Conns : sentN[d] <= sentN[d]
  BY DEF Inv, Flat
<1>5. QED
  BY <1>1, <1>2, <1>3, <1>4, OutsideStep DEF SameFds

LEMMA LeavingSteps ==
  ASSUME Inv, NEW c \in Conns, Exits(c) \/ ResetArrives(c)
  PROVE  Inv'
<1>1. CASE Exits(c)
  <2>1. /\ edge' = edge \cup FdsOf(c) /\ inUse' \subseteq inUse
        /\ UNCHANGED <<up, pc, todo, clients, owner, backlog, sentN, readN, heard, seen, dropped, made>>
    BY <1>1 DEF Exits, program, data
  <2>2. link' = [link EXCEPT ![c] = "rst"] \/ link' = [link EXCEPT ![c] = "fin"]
    BY <1>1 DEF Exits
  <2>3. {"rst", "fin"} \subseteq Ends \ {"open"}
    BY DEF Ends
  <2>4. QED
    BY <2>1, <2>2, <2>3, LinkStep
<1>2. CASE ResetArrives(c)
  BY <1>2, LinkStep DEF ResetArrives, program, data, Ends
<1>3. QED
  BY <1>1, <1>2

LEMMA TickStep ==
  ASSUME Inv, Tick
  PROVE  Inv'
<1>1. /\ clients' = [i \in DOMAIN clients |->
           [clients[i] EXCEPT !.idle = IF @ <= Timeout THEN @ + 1 ELSE @]]
      /\ UNCHANGED <<up, pc, todo, owner, edge, backlog, link, sentN, readN, heard, seen, dropped,
                     inUse, made>>
  BY DEF Tick, data
<1>2. clients \in Seq(Entries) /\ edge \subseteq Held /\ \A d \in Conns : sentN[d] <= sentN[d]
  BY DEF Inv, Flat
<1>3. clients' \in Seq(Entries) /\ SameFds
  <2>1. ASSUME NEW i \in DOMAIN clients
        PROVE  clients'[i] \in Entries /\ clients'[i].fd = clients[i].fd
    <3>1. clients[i] \in Entries
      BY <1>2
    <3>2. QED
      BY <1>1, <3>1, ChatRoomAssumption DEF Entries
  <2>2. DOMAIN clients = 1 .. Len(clients) /\ Len(clients) \in Nat /\ DOMAIN clients' = DOMAIN clients
    BY <1>1, <1>2, LenProperties
  <2>3. clients' \in Seq(Entries)
    <3>1. clients' = [i \in 1 .. Len(clients) |-> clients'[i]]
      BY <1>1, <2>2
    <3>2. QED
      BY <2>1, <2>2, <3>1, IsASeq
  <2>4. QED
    BY <2>1, <2>2, <2>3, LenProperties DEF SameFds
<1>4. Flat'
  BY <1>1, <1>3 DEF Inv, Flat
<1>5. QED
  BY <1>1, <1>2, <1>3, <1>4, OutsideStep

-----------------------------------------------------------------------------
(***************************************************************************)
(* The batch of events.                                                    *)
(***************************************************************************)
\* Every order of a finite set has each of its elements.
LEMMA OrderOfSet ==
  ASSUME NEW S, IsFiniteSet(S), NEW order \in SetToSeqs(S)
  PROVE  /\ Cardinality(S) \in Nat /\ DOMAIN order = 1 .. Cardinality(S)
         /\ \A k \in DOMAIN order : order[k] \in S
         /\ \A i, j \in DOMAIN order : order[i] = order[j] => i = j
         /\ \A x \in S : \E k \in DOMAIN order : order[k] = x
<1> DEFINE n == Cardinality(S)
<1>1. n \in Nat
  BY FS_CardinalityType
<1>2. /\ order \in [1 .. n -> S]
      /\ \A i, j \in 1 .. n : i # j => order[i] # order[j]
  BY DEF SetToSeqs
<1>3. order \in Injection(1 .. n, S)
  BY <1>2 DEF Injection, IsInjective
<1>4. IsFiniteSet(1 .. n) /\ Cardinality(1 .. n) = n
  BY <1>1, FS_Interval
<1>5. order \in Surjection(1 .. n, S)
  BY <1>3, <1>4, FS_Injection
<1>6. \A x \in S : \E k \in 1 .. n : order[k] = x
  BY <1>5 DEF Surjection
<1>7. QED
  BY <1>1, <1>2, <1>6

\* What is left when the first event has been handled.
LEMMA RestOfBatch ==
  ASSUME Inv, todo # <<>>
  PROVE  /\ Tail(todo) \in Seq(Events) /\ Head(todo) = todo[1] /\ 1 \in DOMAIN todo
         /\ Head(todo) \in Events
         /\ \A i \in DOMAIN Tail(todo) :
              i + 1 \in DOMAIN todo /\ Tail(todo)[i] = todo[i + 1] /\ todo[i + 1].fd # Head(todo).fd
         /\ \A i \in DOMAIN todo : i # 1 => i - 1 \in DOMAIN Tail(todo) /\ Tail(todo)[i - 1] = todo[i]
         /\ \A i, j \in DOMAIN Tail(todo) : Tail(todo)[i].fd = Tail(todo)[j].fd => i = j
<1>1. todo \in Seq(Events)
  BY DEF Inv, Flat
<1>2. \A i, j \in DOMAIN todo : todo[i].fd = todo[j].fd => i = j
  BY DEF Inv, Batched
<1>3. /\ Len(todo) \in Nat \ {0} /\ DOMAIN todo = 1 .. Len(todo)
      /\ Tail(todo) \in Seq(Events) /\ Len(Tail(todo)) = Len(todo) - 1
      /\ DOMAIN Tail(todo) = 1 .. Len(todo) - 1
      /\ \A i \in 1 .. Len(todo) - 1 : Tail(todo)[i] = todo[i + 1]
      /\ Head(todo) = todo[1] /\ Head(todo) \in Events
  BY <1>1, HeadTailProperties, EmptySeq, LenProperties
<1>4. \A i \in 1 .. Len(todo) - 1 : i + 1 \in DOMAIN todo /\ i + 1 # 1
  BY <1>3
<1>5. \A i \in 2 .. Len(todo) : i - 1 \in 1 .. Len(todo) - 1 /\ Tail(todo)[i - 1] = todo[i]
  BY <1>3
<1>6. 1 \in DOMAIN todo /\ \A i \in DOMAIN todo : i # 1 => i \in 2 .. Len(todo)
  BY <1>3
<1>7. \A i, j \in DOMAIN Tail(todo) : Tail(todo)[i].fd = Tail(todo)[j].fd => i = j
  <2>1. ASSUME NEW i \in DOMAIN Tail(todo), NEW j \in DOMAIN Tail(todo), Tail(todo)[i].fd = Tail(todo)[j].fd
        PROVE  i = j
    <3>1. i + 1 = j + 1
      BY <1>2, <1>3, <1>4, <2>1
    <3>2. i \in Nat /\ j \in Nat
      BY <1>3
    <3>3. QED
      BY <3>1, <3>2
  <2>2. QED
    BY <2>1
<1>8. QED
  BY <1>2, <1>3, <1>4, <1>5, <1>6, <1>7

\* An event of a connection is about one that has a descriptor and is listed.
LEMMA EventHeld ==
  ASSUME Inv, NEW i \in DOMAIN todo, todo[i].fd # Listen
  PROVE  /\ todo[i].fd \in Held /\ todo[i].fd \in FdsIn(clients)
         /\ owner[todo[i].fd] \in Conns
<1>1. todo[i] \in Events
  BY DEF Inv, Flat
<1>2. todo[i].fd \in Fds /\ owner[todo[i].fd] # None
  BY <1>1 DEF Events, Inv, Batched
<1>3. QED
  BY <1>2 DEF Inv, Flat, ArrayMatches, Held

\* Steps that change the batch and nothing else, but may take the news to it.
LEMMA BatchStep ==
  ASSUME Inv, Flat', Batched', edge' \subseteq edge, NewsNotLost',
         UNCHANGED <<up, clients, owner, backlog, link, sentN, readN, heard, seen, dropped, made>>
  PROVE  Inv'
<1>1. Held' = Held /\ \A c : FdsOf(c)' = FdsOf(c)
  BY DEF Held, FdsOf
<1>2. ArrayMatches' /\ edge' \subseteq Held'
  BY <1>1 DEF Inv, ArrayMatches, FdsIn
<1>3. Filed' /\ Streams'
  BY <1>1 DEF Inv, Filed, Streams
<1>4. Heard'
  BY <1>1, HeardKept
<1>5. QED
  BY <1>2, <1>3, <1>4 DEF Inv

LEMMA EpollWaitStep ==
  ASSUME Inv, EpollWait
  PROVE  Inv'
<1> DEFINE ready == edge \cup (IF backlog = <<>> THEN {} ELSE {Listen})
<1>1. /\ pc = "wait" /\ edge' = {} /\ pc' = "dispatch"
      /\ UNCHANGED <<up, clients, owner, backlog, link, sentN, readN, heard, seen, dropped, inUse, made>>
  BY DEF EpollWait, data
<1>2. PICK order \in SetToSeqs(ready) : todo' = [k \in DOMAIN order |-> EventOf(order[k])]
  BY DEF EpollWait
<1>3. IsFiniteSet(ready) /\ ready \subseteq Fds \cup {Listen} /\ edge \subseteq Held /\ Listen \notin Fds
      /\ Held \subseteq Fds
  <2>1. MaxClients \in Nat
    BY ChatRoomAssumption
  <2>2. edge \subseteq Held /\ Held \subseteq Fds /\ ready \subseteq Fds \cup {Listen} /\ Listen \notin Fds
    BY <2>1 DEF Inv, Held, Fds, Listen
  <2>3. IsFiniteSet(Fds \cup {Listen})
    <3>1. MaxClients + 1 \in Int /\ 1 \in Int
      BY <2>1
    <3>2. IsFiniteSet(Fds)
      BY <3>1, FS_Interval DEF Fds
    <3>3. QED
      BY <3>2, FS_AddElement
  <2>4. QED
    BY <2>2, <2>3, FS_Subset
<1> DEFINE n == Cardinality(ready)
<1> HIDE DEF ready
<1>4. /\ n \in Nat /\ DOMAIN order = 1 .. n /\ \A k \in 1 .. n : order[k] \in ready
      /\ \A i, j \in 1 .. n : order[i] = order[j] => i = j
      /\ \A x \in ready : \E k \in 1 .. n : order[k] = x
  BY <1>3, OrderOfSet
<1> HIDE DEF n
<1>5. /\ DOMAIN todo' = 1 .. n
      /\ \A k \in 1 .. n : todo'[k] = EventOf(order[k])
  BY <1>2, <1>4
<1>6. ASSUME NEW k \in 1 .. n
      PROVE  /\ todo'[k] \in Events /\ todo'[k].fd = order[k]
             /\ IF todo'[k].fd = Listen THEN backlog # <<>> /\ ~todo'[k].hup
                ELSE todo'[k].conn # None /\ owner[todo'[k].fd] = todo'[k].conn
  <2>1. order[k] \in ready /\ todo'[k] = EventOf(order[k])
    BY <1>4, <1>5
  <2>2. CASE order[k] = Listen
    BY <1>3, <2>1, <2>2 DEF EventOf, Events, ready
  <2>3. CASE order[k] # Listen
    <3>1. order[k] \in edge /\ order[k] \in Fds /\ owner[order[k]] \in Conns \cup {None} /\ owner[order[k]] # None
      BY <1>3, <2>1, <2>3 DEF ready, Held, Inv, Flat
    <3>2. todo'[k] = [fd |-> order[k], hup |-> HasHup(owner[order[k]]), conn |-> owner[order[k]]]
      BY <2>1, <2>3 DEF EventOf
    <3>3. HasHup(owner[order[k]]) \in BOOLEAN
      BY DEF HasHup
    <3>4. QED
      BY <2>3, <3>1, <3>2, <3>3 DEF Events
  <2>4. QED
    BY <2>2, <2>3
<1>7. todo' \in Seq(Events)
  <2>1. todo' = [k \in 1 .. n |-> todo'[k]]
    BY <1>2, <1>4, <1>5
  <2>2. QED
    BY <1>4, <1>6, <2>1, IsASeq
<1>8. Flat'
  BY <1>1, <1>7 DEF Inv, Flat
<1>9. Batched'
  BY <1>1, <1>4, <1>5, <1>6 DEF Batched
<1>10. NewsNotLost'
  <2>1. SUFFICES ASSUME NEW f \in FdsIn(clients), Unread(owner[f]) > 0 \/ link[owner[f]] # "open"
                 PROVE  \E i \in DOMAIN todo' : todo'[i].fd = f
    BY <1>1 DEF NewsNotLost, FdsIn, Unread
  <2>2. todo = <<>> /\ (f \in edge \/ \E i \in DOMAIN todo : todo[i].fd = f)
    BY <1>1, <2>1 DEF Inv, Batched, NewsNotLost
  <2>3. f \in ready
    BY <2>2 DEF ready
  <2>4. QED
    BY <1>4, <1>5, <1>6, <2>3
<1>11. QED
  BY <1>1, <1>8, <1>9, <1>10, BatchStep

LEMMA HandleReadableStep ==
  ASSUME Inv, HandleReadable
  PROVE  Inv'
<1>1. /\ todo # <<>> /\ Head(todo).fd # Listen /\ pc' = "recv"
      /\ UNCHANGED <<up, todo, clients, owner, edge, backlog, link, sentN, readN, heard, seen, dropped,
                     inUse, made>>
  BY DEF HandleReadable, Dispatching, data
<1>2. Flat' /\ Batched' /\ NewsNotLost'
  BY <1>1 DEF Inv, Flat, Batched, NewsNotLost, FdsIn, Unread
<1>3. QED
  BY <1>1, <1>2, BatchStep

LEMMA RecvAgainStep ==
  ASSUME Inv, RecvAgain
  PROVE  Inv'
<1>1. /\ pc = "recv" /\ todo' = Tail(todo) /\ pc' = "dispatch"
      /\ Unread(owner[Head(todo).fd]) = 0 /\ link[owner[Head(todo).fd]] = "open"
      /\ UNCHANGED <<up, clients, owner, edge, backlog, link, sentN, readN, heard, seen, dropped,
                     inUse, made>>
  BY DEF RecvAgain, Receiving, MayStop, Speaker, Fd, data
<1>2. todo # <<>>
  BY <1>1 DEF Inv, Batched
<1>3. Flat'
  BY <1>1, <1>2, RestOfBatch DEF Inv, Flat
<1>4. Batched'
  BY <1>1, <1>2, RestOfBatch DEF Inv, Batched
<1>5. NewsNotLost'
  <2>1. SUFFICES ASSUME NEW f \in FdsIn(clients), Unread(owner[f]) > 0 \/ link[owner[f]] # "open"
                 PROVE  f \in edge \/ \E i \in DOMAIN Tail(todo) : Tail(todo)[i].fd = f
    BY <1>1 DEF NewsNotLost, FdsIn, Unread
  <2>2. f # Head(todo).fd
    BY <1>1, <2>1
  <2>3. CASE f \in edge
    BY <2>3
  <2>4. CASE \E i \in DOMAIN todo : todo[i].fd = f
    <3>1. PICK i \in DOMAIN todo : todo[i].fd = f
      BY <2>4
    <3>2. i # 1
      BY <1>2, <2>2, <3>1, RestOfBatch
    <3>3. QED
      BY <1>2, <3>1, <3>2, RestOfBatch
  <2>5. QED
    BY <2>1, <2>3, <2>4 DEF Inv, NewsNotLost
<1>6. QED
  BY <1>1, <1>3, <1>4, <1>5, BatchStep

-----------------------------------------------------------------------------
(***************************************************************************)
(* Closing descriptors.                                                    *)
(***************************************************************************)
DistinctFds(array) == \A i, j \in DOMAIN array : array[i].fd = array[j].fd => i = j

\* The last element takes the place of the one that goes.
LEMMA WithoutOne ==
  ASSUME NEW S, NEW a \in Seq(S), NEW i \in DOMAIN a
  PROVE  /\ Without(a, i) \in Seq(S) /\ Len(Without(a, i)) = Len(a) - 1
         /\ DOMAIN Without(a, i) = 1 .. Len(a) - 1
         /\ \A k \in 1 .. Len(a) - 1 : Without(a, i)[k] = IF k = i THEN a[Len(a)] ELSE a[k]
         /\ Len(a) \in Nat \ {0} /\ DOMAIN a = 1 .. Len(a)
<1> DEFINE b == [a EXCEPT ![i] = Last(a)]
<1>1. Len(a) \in Nat \ {0} /\ DOMAIN a = 1 .. Len(a) /\ i \in 1 .. Len(a)
  <2>1. Len(a) \in Nat /\ DOMAIN a = 1 .. Len(a)
    BY LenProperties
  <2>2. QED
    BY <2>1
<1>2. Last(a) = a[Len(a)] /\ Last(a) \in S
  BY <1>1 DEF Last
<1>3. b \in Seq(S) /\ Len(b) = Len(a) /\ \A k \in 1 .. Len(a) : b[k] = IF k = i THEN a[Len(a)] ELSE a[k]
  <2>1. b \in Seq(S) /\ Len(b) = Len(a)
    BY <1>1, <1>2, ExceptSeq
  <2>2. \A k \in 1 .. Len(a) : b[k] = IF k = i THEN a[Len(a)] ELSE a[k]
    BY <1>1, <1>2
  <2>3. QED
    BY <2>1, <2>2
<1> HIDE DEF b
<1>4. 1 \in 1 .. Len(b) + 1 /\ Len(a) - 1 \in 1 - 1 .. Len(b)
  BY <1>1, <1>3
<1>5. /\ SubSeq(b, 1, Len(a) - 1) \in Seq(S) /\ Len(SubSeq(b, 1, Len(a) - 1)) = Len(a) - 1
      /\ \A k \in 1 .. Len(a) - 1 : SubSeq(b, 1, Len(a) - 1)[k] = b[k]
  BY <1>1, <1>3, <1>4, SubSeqProperties
<1>6. Without(a, i) = SubSeq(b, 1, Len(a) - 1)
  BY DEF Without, b
<1>7. DOMAIN SubSeq(b, 1, Len(a) - 1) = 1 .. Len(a) - 1
  BY <1>5, LenProperties
<1>8. QED
  BY <1>1, <1>3, <1>5, <1>6, <1>7

LEMMA WithoutFd ==
  ASSUME NEW a \in Seq(Entries), NEW i \in DOMAIN a, DistinctFds(a)
  PROVE  /\ DistinctFds(Without(a, i))
         /\ FdsIn(Without(a, i)) = FdsIn(a) \ {a[i].fd}
<1>1. /\ DOMAIN Without(a, i) = 1 .. Len(a) - 1 /\ Len(a) \in Nat \ {0} /\ DOMAIN a = 1 .. Len(a)
      /\ \A k \in 1 .. Len(a) - 1 : Without(a, i)[k] = IF k = i THEN a[Len(a)] ELSE a[k]
  BY WithoutOne
<1>2. ASSUME NEW k \in 1 .. Len(a) - 1
      PROVE  \E m \in DOMAIN a : m # i /\ Without(a, i)[k] = a[m] /\ m = IF k = i THEN Len(a) ELSE k
  BY <1>1
<1>3. ASSUME NEW m \in DOMAIN a, m # i
      PROVE  \E k \in 1 .. Len(a) - 1 : Without(a, i)[k] = a[m]
  <2>1. CASE m = Len(a)
    <3>1. i \in 1 .. Len(a) - 1 /\ Without(a, i)[i] = a[m]
      BY <1>1, <1>3, <2>1
    <3>2. QED
      BY <3>1
  <2>2. CASE m # Len(a)
    <3>1. m \in 1 .. Len(a) - 1 /\ Without(a, i)[m] = a[m]
      BY <1>1, <1>3, <2>2
    <3>2. QED
      BY <3>1
  <2>3. QED
    BY <2>1, <2>2
<1>4. DistinctFds(Without(a, i))
  <2>1. ASSUME NEW k \in 1 .. Len(a) - 1, NEW l \in 1 .. Len(a) - 1,
               Without(a, i)[k].fd = Without(a, i)[l].fd
        PROVE  k = l
    <3>1. PICK m \in DOMAIN a : Without(a, i)[k] = a[m] /\ m = IF k = i THEN Len(a) ELSE k
      BY <1>2
    <3>2. PICK o \in DOMAIN a : Without(a, i)[l] = a[o] /\ o = IF l = i THEN Len(a) ELSE l
      BY <1>2
    <3>3. m = o
      BY <2>1, <3>1, <3>2 DEF DistinctFds
    <3>4. QED
      BY <1>1, <3>1, <3>2, <3>3
  <2>2. QED
    BY <1>1, <2>1 DEF DistinctFds
<1>5. FdsIn(Without(a, i)) \subseteq FdsIn(a) \ {a[i].fd}
  BY <1>1, <1>2 DEF FdsIn, DistinctFds
<1>6. FdsIn(a) \ {a[i].fd} \subseteq FdsIn(Without(a, i))
  <2>1. ASSUME NEW m \in DOMAIN a, a[m].fd # a[i].fd
        PROVE  a[m].fd \in FdsIn(Without(a, i))
    <3>1. PICK k \in 1 .. Len(a) - 1 : Without(a, i)[k] = a[m]
      BY <1>3, <2>1
    <3>2. QED
      BY <1>1, <3>1 DEF FdsIn
  <2>2. QED
    BY <2>1 DEF FdsIn
<1>7. QED
  BY <1>4, <1>5, <1>6

\* K is closed.  The events of the batch that go are about descriptors in K.
LEMMA ClosingStep ==
  ASSUME Inv, NEW K \in SUBSET Held,
         clients' \in Seq(Entries), Len(clients') <= Len(clients), DistinctFds(clients'),
         FdsIn(clients') = FdsIn(clients) \ K,
         owner' = [f \in Fds |-> IF f \in K THEN None ELSE owner[f]], edge' = edge \ K,
         todo' \in Seq(Events), pc' \in {"wait", "dispatch"}, pc' = "wait" => todo' = <<>>,
         \A i \in DOMAIN todo' : \E j \in DOMAIN todo : todo'[i] = todo[j] /\ todo[j].fd \notin K,
         \A i, j \in DOMAIN todo' : todo'[i].fd = todo'[j].fd => i = j,
         \A j \in DOMAIN todo : todo[j].fd \in K \/ \E i \in DOMAIN todo' : todo'[i] = todo[j],
         UNCHANGED <<up, backlog, link, sentN, readN, heard, seen, dropped, inUse, made>>
  PROVE  Inv'
<1>1. /\ clients \in Seq(Entries) /\ Len(clients) \in Nat /\ Len(clients') \in Nat
      /\ MaxClients \in Nat /\ owner \in [Fds -> Conns \cup {None}] /\ Held \subseteq Fds
      /\ ArrayMatches /\ None \notin Conns
  BY ChatRoomAssumption, LenProperties DEF Inv, Flat, Held, None, Conns
<1>2. /\ \A f \in Fds \ K : owner'[f] = owner[f]
      /\ \A f \in K : owner'[f] = None
      /\ owner' \in [Fds -> Conns \cup {None}]
  BY <1>1
<1>3. Held' = Held \ K /\ FdsIn(clients) = Held
  BY <1>1, <1>2 DEF Held, ArrayMatches
<1>4. \A c \in Conns : FdsOf(c)' \subseteq FdsOf(c)
  BY <1>1, <1>2 DEF FdsOf
<1>5. Flat'
  BY <1>2 DEF Inv, Flat
<1>6. ArrayMatches'
  <2>1. Len(clients') <= MaxClients
    BY <1>1 DEF ArrayMatches
  <2>2. \A f, g \in FdsIn(clients') : owner'[f] = owner'[g] => f = g
    BY <1>1, <1>2, <1>3 DEF ArrayMatches
  <2>3. FdsIn(clients') = {f \in Fds : owner'[f] # None}
    BY <1>3 DEF Held
  <2>4. QED
    BY <2>1, <2>2, <2>3 DEF ArrayMatches, DistinctFds
<1>7. Batched'
  <2>1. ASSUME NEW i \in DOMAIN todo'
        PROVE  IF todo'[i].fd = Listen THEN backlog # <<>> /\ ~todo'[i].hup
               ELSE todo'[i].conn # None /\ owner'[todo'[i].fd] = todo'[i].conn
    <3>1. PICK j \in DOMAIN todo : todo'[i] = todo[j] /\ todo[j].fd \notin K
      OBVIOUS
    <3>2. todo[j].fd # Listen => todo[j].fd \in Fds
      BY EventHeld DEF Held
    <3>3. QED
      BY <1>2, <3>1, <3>2 DEF Inv, Batched
  <2>2. QED
    BY <2>1 DEF Batched
<1>8. NewsNotLost' /\ edge' \subseteq Held'
  <2>1. SUFFICES ASSUME NEW f \in FdsIn(clients), f \notin K,
                        Unread(owner[f]) > 0 \/ link[owner[f]] # "open"
                 PROVE  f \in edge \/ \E i \in DOMAIN todo' : todo'[i].fd = f
    BY <1>1, <1>2, <1>3 DEF NewsNotLost, FdsIn, Unread, Inv
  <2>2. CASE \E j \in DOMAIN todo : todo[j].fd = f
    BY <2>1, <2>2
  <2>3. QED
    BY <2>1, <2>2 DEF Inv, NewsNotLost
<1>9. Filed'
  <2>1. Range(backlog) \subseteq Conns
    BY DEF Range, Inv, Flat
  <2>2. \A f \in Fds : owner'[f] <= made
    <3>1. made \in Nat /\ \A f \in Fds : owner[f] <= made
      BY ChatRoomAssumption DEF Inv, Flat, Filed
    <3>2. QED
      BY <1>2, <3>1 DEF None
  <2>3. QED
    BY <1>4, <2>1, <2>2 DEF Inv, Filed
<1>10. Streams'
  BY DEF Inv, Streams
<1>11. Heard'
  BY <1>4, HeardKept
<1>12. QED
  BY <1>5, <1>6, <1>7, <1>8, <1>9, <1>10, <1>11 DEF Inv

\* remove_client for the first event of the batch.
LEMMA RemoveHead ==
  ASSUME Inv, todo # <<>>, Head(todo).fd # Listen, RemoveClient(Head(todo).fd), todo' = Tail(todo),
         pc' = "dispatch",
         UNCHANGED <<up, backlog, link, sentN, readN, heard, seen, dropped, inUse, made>>
  PROVE  Inv'
<1> DEFINE fd == Head(todo).fd
           I == {i \in DOMAIN clients : clients[i].fd = fd}
<1>1. /\ 1 \in DOMAIN todo /\ Head(todo) = todo[1] /\ fd \in Held /\ fd \in FdsIn(clients)
      /\ Held \subseteq Fds
  BY RestOfBatch, EventHeld DEF Held
<1>2. clients \in Seq(Entries) /\ DistinctFds(clients) /\ DOMAIN clients \subseteq Nat
  BY LenProperties DEF Inv, Flat, ArrayMatches, DistinctFds
<1>3. I # {} /\ I \subseteq Nat
  BY <1>1, <1>2 DEF FdsIn
<1>4. PICK i \in DOMAIN clients : i = Min(I) /\ clients[i].fd = fd
  <2>1. Min(I) \in I
    BY <1>3, LeastNumber
  <2>2. QED
    BY <2>1
<1>5. /\ clients' = Without(clients, i) /\ owner' = [owner EXCEPT ![fd] = None] /\ edge' = edge \ {fd}
  BY <1>3, <1>4 DEF RemoveClient
<1> HIDE DEF I
<1>6. /\ clients' \in Seq(Entries) /\ DistinctFds(clients') /\ FdsIn(clients') = FdsIn(clients) \ {fd}
  BY <1>2, <1>4, <1>5, WithoutOne, WithoutFd
<1>7. Len(clients') <= Len(clients)
  <2>1. Len(clients') = Len(clients) - 1 /\ Len(clients) \in Nat
    BY <1>2, <1>5, WithoutOne
  <2>2. QED
    BY <2>1
<1>8. owner' = [f \in Fds |-> IF f \in {fd} THEN None ELSE owner[f]]
  BY <1>1, <1>5 DEF Inv, Flat
<1>9. /\ todo' \in Seq(Events)
      /\ \A k \in DOMAIN todo' : \E j \in DOMAIN todo : todo'[k] = todo[j] /\ todo[j].fd \notin {fd}
      /\ \A k, j \in DOMAIN todo' : todo'[k].fd = todo'[j].fd => k = j
      /\ \A j \in DOMAIN todo : todo[j].fd \in {fd} \/ \E k \in DOMAIN todo' : todo'[k] = todo[j]
  <2>1. /\ todo' \in Seq(Events)
        /\ \A k \in DOMAIN todo' : k + 1 \in DOMAIN todo /\ todo'[k] = todo[k + 1] /\ todo[k + 1].fd # fd
        /\ \A j \in DOMAIN todo : j # 1 => j - 1 \in DOMAIN todo' /\ todo'[j - 1] = todo[j]
        /\ \A k, j \in DOMAIN todo' : todo'[k].fd = todo'[j].fd => k = j
    BY RestOfBatch
  <2>2. ASSUME NEW j \in DOMAIN todo
        PROVE  todo[j].fd \in {fd} \/ \E k \in DOMAIN todo' : todo'[k] = todo[j]
    BY <1>1, <2>1
  <2>3. QED
    BY <2>1, <2>2
<1>10. {fd} \in SUBSET Held
  BY <1>1
<1>11. QED
  BY <1>5, <1>6, <1>7, <1>8, <1>9, <1>10, ClosingStep

LEMMA HandleErrorStep ==
  ASSUME Inv, HandleError
  PROVE  Inv'
<1>1. /\ todo # <<>> /\ Head(todo).hup /\ RemoveClient(Head(todo).fd) /\ todo' = Tail(todo)
      /\ pc = "dispatch"
      /\ UNCHANGED <<up, pc, backlog, link, sentN, readN, heard, seen, dropped, inUse, made>>
  BY DEF HandleError, Dispatching, data
<1>2. Head(todo).fd # Listen
  BY <1>1, RestOfBatch DEF Inv, Batched
<1>3. QED
  BY <1>1, <1>2, RemoveHead

LEMMA RecvEndStep ==
  ASSUME Inv, RecvEnd
  PROVE  Inv'
<1>1. /\ pc = "recv" /\ RemoveClient(Head(todo).fd) /\ todo' = Tail(todo) /\ pc' = "dispatch"
      /\ UNCHANGED <<up, backlog, link, sentN, readN, heard, seen, dropped, inUse, made>>
  BY DEF RecvEnd, Receiving, Fd, data
<1>2. todo # <<>> /\ Head(todo).fd # Listen
  BY <1>1 DEF Inv, Batched
<1>3. QED
  BY <1>1, <1>2, RemoveHead

-----------------------------------------------------------------------------
(***************************************************************************)
(* Accepting.                                                              *)
(***************************************************************************)
\* There is a descriptor for one client more than the array can hold.
LEMMA FreeDescriptor ==
  ASSUME Inv, Len(clients) < MaxClients
  PROVE  Min(FdsOf(None)) \in Fds \ Held
<1> DEFINE n == Len(clients)
           place == [f \in Held |-> CHOOSE i \in 1 .. n : clients[i].fd = f]
<1>1. /\ n \in Nat /\ DOMAIN clients = 1 .. n /\ MaxClients \in Nat /\ n < MaxClients
      /\ Held = FdsIn(clients) /\ Held \subseteq Fds /\ Fds \subseteq Nat
  <2>1. clients \in Seq(Entries) /\ MaxClients \in Nat
    BY ChatRoomAssumption DEF Inv, Flat
  <2>2. Fds \subseteq Nat
    BY <2>1 DEF Fds
  <2>3. QED
    BY <2>1, <2>2, LenProperties DEF Inv, ArrayMatches, Held
<1> HIDE DEF n
<1>2. \A f \in Held : place[f] \in 1 .. n /\ clients[place[f]].fd = f
  BY <1>1 DEF FdsIn
<1>3. place \in Injection(Held, 1 .. n)
  <2>1. place \in [Held -> 1 .. n]
    BY <1>2
  <2>2. \A f, g \in Held : place[f] = place[g] => f = g
    BY <1>2
  <2>3. QED
    BY <2>1, <2>2 DEF Injection, IsInjective
<1> HIDE DEF place
<1>4. /\ IsFiniteSet(1 .. n) /\ Cardinality(1 .. n) = n
      /\ IsFiniteSet(Fds) /\ Cardinality(Fds) = MaxClients + 1
  <2>1. MaxClients + 1 \in Int /\ 1 \in Int /\ n \in Int /\ ~ (1 > MaxClients + 1)
        /\ (MaxClients + 1) - 1 + 1 = MaxClients + 1 /\ (IF 1 > n THEN 0 ELSE n - 1 + 1) = n
    BY <1>1
  <2>2. IsFiniteSet(Fds) /\ Cardinality(Fds) = MaxClients + 1
    BY <2>1, FS_Interval DEF Fds
  <2>3. IsFiniteSet(1 .. n) /\ Cardinality(1 .. n) = n
    BY <2>1, FS_Interval
  <2>4. QED
    BY <2>2, <2>3
<1>5. Cardinality(Held) <= n /\ Cardinality(Held) \in Nat
  BY <1>3, <1>4, FS_Injection, FS_CardinalityType
<1>6. Held # Fds
  BY <1>1, <1>4, <1>5
<1>7. FdsOf(None) = Fds \ Held
  BY DEF FdsOf, Held
<1>8. Fds \ Held # {} /\ Fds \ Held \subseteq Nat
  BY <1>1, <1>6
<1>9. Min(Fds \ Held) \in Fds \ Held
  BY <1>8, LeastNumber
<1>10. QED
  BY <1>7, <1>9

\* The listening descriptor has one event, and somebody waits.
LEMMA AcceptEvent ==
  ASSUME Inv, todo # <<>>, Head(todo).fd = Listen
  PROVE  /\ backlog # <<>> /\ \A i \in DOMAIN Tail(todo) : Tail(todo)[i].fd # Listen
         /\ \E c \in Conns :
              /\ c = Head(backlog) /\ c \in Range(backlog) /\ c <= made
              /\ FdsOf(c) = {} /\ heard[c] = <<>>
              /\ Tail(backlog) \in Seq(Conns) /\ IsInjective(Tail(backlog))
              /\ Range(Tail(backlog)) = Range(backlog) \ {c}
<1>1. backlog # <<>> /\ \A i \in DOMAIN Tail(todo) : Tail(todo)[i].fd # Listen
  BY RestOfBatch DEF Inv, Batched
<1>2. backlog \in Seq(Conns) /\ IsInjective(backlog)
  BY DEF Inv, Flat, Filed
<1>3. PICK c \in Conns : c = Head(backlog)
  BY <1>1, <1>2, HeadTailProperties
<1>4. /\ c \in Range(backlog) /\ Tail(backlog) \in Seq(Conns) /\ IsInjective(Tail(backlog))
      /\ Range(Tail(backlog)) = Range(backlog) \ {c}
  BY <1>1, <1>2, <1>3, RangeOfTail, HeadTailProperties
<1>5. QED
  BY <1>1, <1>3, <1>4 DEF Inv, Filed

LEMMA HandleAcceptStep ==
  ASSUME Inv, HandleAccept
  PROVE  Inv'
<1>1. /\ todo # <<>> /\ Head(todo).fd = Listen /\ pc = "dispatch"
      /\ backlog' = Tail(backlog) /\ todo' = Tail(todo)
      /\ UNCHANGED <<up, pc, link, sentN, readN, heard, seen, dropped, inUse, made>>
  BY DEF HandleAccept, Dispatching, data
<1>2. PICK c \in Conns :
        /\ c = Head(backlog) /\ c \in Range(backlog) /\ c <= made
        /\ FdsOf(c) = {} /\ heard[c] = <<>>
        /\ backlog' \in Seq(Conns) /\ IsInjective(backlog')
        /\ Range(backlog') = Range(backlog) \ {c}
  BY <1>1, AcceptEvent
<1>3. /\ todo' \in Seq(Events)
      /\ \A i \in DOMAIN todo' :
           todo'[i].fd # Listen /\ i + 1 \in DOMAIN todo /\ todo'[i] = todo[i + 1]
      /\ \A i \in DOMAIN todo : i # 1 => i - 1 \in DOMAIN todo' /\ todo'[i - 1] = todo[i]
      /\ \A i, j \in DOMAIN todo' : todo'[i].fd = todo'[j].fd => i = j
      /\ todo[1].fd = Listen
  BY <1>1, AcceptEvent, RestOfBatch
<1>4. \A i \in DOMAIN todo' : /\ todo'[i].fd \in Held /\ todo'[i].conn # None
                              /\ owner[todo'[i].fd] = todo'[i].conn
  BY <1>3, EventHeld DEF Inv, Batched
<1>5. /\ clients \in Seq(Entries) /\ owner \in [Fds -> Conns \cup {None}] /\ ArrayMatches
      /\ FdsIn(clients) = Held /\ Held \subseteq Fds /\ Listen \notin Fds /\ None \notin Conns
      /\ MaxClients \in Nat /\ Len(clients) \in Nat /\ Range(backlog) \subseteq Conns
      /\ made \in Nat
  <2>1. /\ clients \in Seq(Entries) /\ owner \in [Fds -> Conns \cup {None}] /\ ArrayMatches
        /\ backlog \in Seq(Conns) /\ made \in Nat /\ MaxClients \in Nat
    BY ChatRoomAssumption DEF Inv, Flat
  <2>2. Listen \notin Fds /\ None \notin Conns
    BY <2>1, ChatRoomAssumption DEF Listen, Fds, None, Conns
  <2>3. FdsIn(clients) = Held /\ Held \subseteq Fds
    BY <2>1 DEF ArrayMatches, Held
  <2>4. Range(backlog) \subseteq Conns
    BY <2>1 DEF Range
  <2>5. Len(clients) \in Nat
    BY <2>1, LenProperties
  <2>6. QED
    BY <2>1, <2>2, <2>3, <2>4, <2>5
<1>6. \A f \in Held : (\E i \in DOMAIN todo : todo[i].fd = f) => \E i \in DOMAIN todo' : todo'[i].fd = f
  <2>1. ASSUME NEW f \in Held, NEW i \in DOMAIN todo, todo[i].fd = f
        PROVE  \E j \in DOMAIN todo' : todo'[j].fd = f
    <3>1. i # 1
      BY <1>3, <1>5, <2>1
    <3>2. QED
      BY <1>3, <2>1, <3>1
  <2>2. QED
    BY <2>1
<1>7. Streams'
  BY <1>1 DEF Inv, Streams
<1>8. CASE ~ (Len(clients) < MaxClients)
  <2>1. UNCHANGED <<clients, owner, edge>>
    BY <1>8 DEF HandleAccept
  <2>2. Flat'
    BY <1>1, <1>2, <1>3, <2>1 DEF Inv, Flat
  <2>3. ArrayMatches' /\ edge' \subseteq Held'
    BY <2>1 DEF Inv, ArrayMatches, FdsIn, Held
  <2>4. Batched'
    BY <1>1, <1>3, <1>4, <2>1 DEF Batched
  <2>5. NewsNotLost'
    <3>1. ASSUME NEW f \in FdsIn(clients), Unread(owner[f]) > 0 \/ link[owner[f]] # "open"
          PROVE  f \in edge \/ \E i \in DOMAIN todo' : todo'[i].fd = f
      BY <1>5, <1>6, <3>1 DEF Inv, NewsNotLost
    <3>2. QED
      BY <1>1, <2>1, <3>1 DEF NewsNotLost, FdsIn, Unread
  <2>6. Filed'
    BY <1>1, <1>2, <2>1 DEF Inv, Filed, FdsOf
  <2>7. Heard'
    BY <1>1, <2>1, HeardKept DEF FdsOf
  <2>8. QED
    BY <1>7, <2>2, <2>3, <2>4, <2>5, <2>6, <2>7 DEF Inv
<1>9. CASE Len(clients) < MaxClients
  <2>1. PICK fd \in Fds \ Held :
          /\ clients' = Append(clients, [fd |-> fd, idle |-> 0])
          /\ owner' = [owner EXCEPT ![fd] = c]
          /\ edge' = IF NewsAtAdd(c) THEN edge \cup {fd} ELSE edge
    BY <1>2, <1>9, FreeDescriptor DEF HandleAccept
  <2>2. [fd |-> fd, idle |-> 0] \in Entries
    BY <2>1, ChatRoomAssumption DEF Entries
  <2>3. /\ clients' \in Seq(Entries) /\ Len(clients') = Len(clients) + 1
        /\ DOMAIN clients' = 1 .. Len(clients) + 1 /\ DOMAIN clients = 1 .. Len(clients)
        /\ \A i \in 1 .. Len(clients) : clients'[i] = clients[i]
        /\ clients'[Len(clients) + 1].fd = fd
    <3>1. /\ clients' \in Seq(Entries) /\ Len(clients') = Len(clients) + 1
          /\ \A i \in 1 .. Len(clients) : clients'[i] = clients[i]
          /\ clients'[Len(clients) + 1] = [fd |-> fd, idle |-> 0]
      BY <1>5, <2>1, <2>2, AppendProperties
    <3>2. DOMAIN clients' = 1 .. Len(clients') /\ DOMAIN clients = 1 .. Len(clients)
      BY <1>5, <3>1, LenProperties
    <3>3. QED
      BY <3>1, <3>2
  <2>4. FdsIn(clients') = Held \cup {fd}
    <3>1. \A i \in DOMAIN clients : i \in DOMAIN clients' /\ clients'[i] = clients[i]
      BY <1>5, <2>3
    <3>2. Len(clients) + 1 \in DOMAIN clients' /\ \A i \in DOMAIN clients' : i \in DOMAIN clients \/ i = Len(clients) + 1
      BY <1>5, <2>3
    <3>3. QED
      BY <1>5, <2>3, <3>1, <3>2 DEF FdsIn
  <2>5. DistinctFds(clients')
    <3>1. ASSUME NEW i \in DOMAIN clients', NEW j \in DOMAIN clients', clients'[i].fd = clients'[j].fd
          PROVE  i = j
      <4>1. \A k \in 1 .. Len(clients) : clients'[k].fd \in Held
        BY <1>5, <2>3 DEF FdsIn
      <4>2. CASE i = Len(clients) + 1 \/ j = Len(clients) + 1
        BY <1>5, <2>1, <2>3, <3>1, <4>1, <4>2
      <4>3. CASE i \in 1 .. Len(clients) /\ j \in 1 .. Len(clients)
        BY <1>5, <2>3, <3>1, <4>3 DEF ArrayMatches
      <4>4. QED
        BY <1>5, <2>3, <4>2, <4>3
    <3>2. QED
      BY <3>1 DEF DistinctFds
  <2>6. /\ owner' \in [Fds -> Conns \cup {None}] /\ owner'[fd] = c
        /\ \A f \in Fds \ {fd} : owner'[f] = owner[f]
    BY <1>5, <2>1
  <2>7. Held' = Held \cup {fd} /\ \A f \in Held : f # fd
    BY <1>2, <1>5, <2>1, <2>6 DEF Held
  <2>8. \A f \in Held : owner[f] # c
    BY <1>2, <1>5 DEF FdsOf
  <2>9. Flat'
    BY <1>1, <1>2, <1>3, <2>1, <2>3, <2>6 DEF Inv, Flat
  <2>10. ArrayMatches'
    <3>1. Len(clients') <= MaxClients
      BY <1>5, <1>9, <2>3
    <3>2. \A f, g \in FdsIn(clients') : owner'[f] = owner'[g] => f = g
      <4>1. \A f, g \in Held : owner[f] = owner[g] => f = g
        BY <1>5 DEF ArrayMatches
      <4>2. QED
        BY <1>5, <2>4, <2>6, <2>7, <2>8, <4>1
    <3>3. FdsIn(clients') = {f \in Fds : owner'[f] # None}
      BY <2>4, <2>7 DEF Held
    <3>4. QED
      BY <2>5, <3>1, <3>2, <3>3 DEF ArrayMatches, DistinctFds
  <2>11. Batched'
    <3>1. \A i \in DOMAIN todo' : owner'[todo'[i].fd] = todo'[i].conn
      BY <1>4, <1>5, <2>6, <2>7
    <3>2. QED
      BY <1>1, <1>3, <1>4, <3>1 DEF Batched
  <2>12. NewsNotLost' /\ edge' \subseteq Held'
    <3>1. edge' \subseteq Held'
      BY <2>1, <2>7 DEF Inv
    <3>2. SUFFICES ASSUME NEW f \in FdsIn(clients'), Unread(owner'[f]) > 0 \/ link[owner'[f]] # "open"
                   PROVE  f \in edge' \/ \E i \in DOMAIN todo' : todo'[i].fd = f
      <4>1. \A d : Unread(d)' = Unread(d)
        BY <1>1 DEF Unread
      <4>2. QED
        BY <1>1, <3>1, <3>2, <4>1 DEF NewsNotLost
    <3>3. CASE f = fd
      <4>1. NewsAtAdd(c)
        <5>1. sentN[c] \in Nat /\ readN[c] \in Nat
          BY DEF Inv, Flat
        <5>2. Unread(c) > 0 => sentN[c] > 0
          BY <5>1 DEF Unread
        <5>3. QED
          BY <2>6, <3>2, <3>3, <5>2 DEF NewsAtAdd
      <4>2. QED
        BY <2>1, <3>3, <4>1
    <3>4. CASE f # fd
      <4>1. f \in Held /\ owner'[f] = owner[f]
        BY <1>5, <2>4, <2>6, <3>4
      <4>2. f \in edge \/ \E i \in DOMAIN todo : todo[i].fd = f
        BY <1>5, <3>2, <4>1 DEF Inv, NewsNotLost
      <4>3. QED
        BY <1>6, <2>1, <4>1, <4>2
    <3>5. QED
      BY <3>3, <3>4
  <2>13. Filed'
    <3>1. ASSUME NEW d \in Range(backlog')
          PROVE  d <= made /\ FdsOf(d)' = {} /\ heard[d] = <<>>
      <4>1. d # c /\ d \in Range(backlog) /\ d \in Conns
        BY <1>2, <1>5
      <4>2. d <= made /\ FdsOf(d) = {} /\ heard[d] = <<>>
        BY <4>1 DEF Inv, Filed
      <4>3. FdsOf(d)' = {}
        BY <2>6, <4>1, <4>2 DEF FdsOf
      <4>4. QED
        BY <4>2, <4>3
    <3>2. \A f \in Fds : owner'[f] <= made
      BY <1>2, <2>6 DEF Inv, Filed
    <3>3. QED
      BY <1>1, <1>2, <3>1, <3>2 DEF Inv, Filed
  <2>14. Heard'
    <3>1. \A d \in Conns : FdsOf(d)' # {} => d = c \/ FdsOf(d) # {}
      BY <2>6 DEF FdsOf
    <3>2. QED
      BY <1>1, <1>2, <3>1, HeardKept
  <2>15. QED
    BY <1>7, <2>9, <2>10, <2>11, <2>12, <2>13, <2>14 DEF Inv
<1>10. QED
  BY <1>8, <1>9

-----------------------------------------------------------------------------
(***************************************************************************)
(* The scan.  FoldLeft is a recursive function on the sets of positions;   *)
(* that there is such a function follows from a least counterexample.      *)
(***************************************************************************)
LEMMA GreatestNumber ==
  ASSUME NEW n \in Nat, NEW T \in SUBSET (1 .. n), T # {}
  PROVE  Max(T) \in T /\ \A x \in T : x <= Max(T)
<1> DEFINE D == {n - x : x \in T}
<1>1. D \in SUBSET Nat /\ D # {}
  <2>1. \A x \in T : n - x \in Nat
    OBVIOUS
  <2>2. D \in SUBSET Nat
    BY <2>1
  <2>3. D # {}
    OBVIOUS
  <2>4. QED
    BY <2>2, <2>3
<1>2. Min(D) \in D /\ \A d \in D : Min(D) <= d
  BY <1>1, LeastNumber
<1>3. PICK m \in T : Min(D) = n - m
  BY <1>2
<1>4. \A x \in T : n - m <= n - x
  BY <1>2, <1>3
<1>5. \A x \in T : m >= x
  BY <1>4
<1>6. Max(T) \in T /\ \A x \in T : Max(T) >= x
  BY <1>5 DEF Max
<1>7. QED
  BY <1>6

Scan(base, seq) == FoldLeft(KickIfIdle, base, seq)

\* The states of the array while the scan goes through seq.
LEMMA FoldSteps ==
  ASSUME NEW base, NEW S, NEW seq \in Seq(S)
  PROVE  \E scan : /\ scan[0] = base
                   /\ \A k \in 1 .. Len(seq) : scan[k] = KickIfIdle(scan[k - 1], seq[k])
                   /\ Scan(base, seq) = scan[Len(seq)]
<1> DEFINE D == 1 .. Len(seq)
           Value(f, s) == IF s = {} THEN base ELSE KickIfIdle(f[s \ {Max(s)}], seq[Max(s)])
           Upto(k) == \E f : \A s \in SUBSET D : Cardinality(s) <= k => f[s] = Value(f, s)
<1>1. Len(seq) \in Nat /\ DOMAIN seq = D
  BY LenProperties
<1>2. \A s \in SUBSET D : IsFiniteSet(s) /\ Cardinality(s) \in Nat /\ Cardinality(s) <= Len(seq)
  <2>1. IsFiniteSet(D) /\ Cardinality(D) = Len(seq)
    BY <1>1, FS_Interval
  <2>2. QED
    BY <2>1, FS_Subset, FS_CardinalityType
<1>3. \A s \in SUBSET D : s # {} => /\ Max(s) \in s /\ s \ {Max(s)} \in SUBSET D
                                    /\ Cardinality(s \ {Max(s)}) = Cardinality(s) - 1
  BY <1>1, <1>2, GreatestNumber, FS_RemoveElement
<1>4. Upto(0)
  <2> DEFINE f == [s \in SUBSET D |-> base]
  <2>1. \A s \in SUBSET D : Cardinality(s) <= 0 => s = {}
    BY <1>2, FS_EmptySet
  <2>2. \A s \in SUBSET D : Cardinality(s) <= 0 => f[s] = Value(f, s)
    BY <2>1
  <2>3. QED
    BY <2>2
<1>5. ASSUME NEW k \in Nat, Upto(k)
      PROVE  Upto(k + 1)
  <2>1. PICK f : \A s \in SUBSET D : Cardinality(s) <= k => f[s] = Value(f, s)
    BY <1>5
  <2> DEFINE g == [s \in SUBSET D |-> Value(f, s)]
  <2>2. ASSUME NEW s \in SUBSET D, Cardinality(s) <= k + 1
        PROVE  g[s] = Value(g, s)
    <3>1. CASE s = {}
      BY <3>1
    <3>2. CASE s # {}
      <4>1. s \ {Max(s)} \in SUBSET D /\ Cardinality(s \ {Max(s)}) <= k
        <5>1. s \ {Max(s)} \in SUBSET D /\ Cardinality(s \ {Max(s)}) = Cardinality(s) - 1
          BY ONLY <1>3, <3>2, s \in SUBSET D
        <5>2. Cardinality(s) \in Nat /\ Cardinality(s) <= k + 1 /\ k \in Nat
          BY ONLY <1>2, <2>2, k \in Nat
        <5>3. Cardinality(s) - 1 <= k
          BY ONLY <5>2
        <5>4. QED
          BY ONLY <5>1, <5>3
      <4>2. f[s \ {Max(s)}] = g[s \ {Max(s)}]
        BY <2>1, <4>1
      <4>3. QED
        BY <3>2, <4>2
    <3>3. QED
      BY <3>1, <3>2
  <2>3. QED
    BY <2>2
<1> HIDE DEF Upto
<1>6. Upto(Len(seq))
  <2> DEFINE T == {k \in Nat : ~Upto(k)}
  <2>1. SUFFICES ASSUME T # {}
                 PROVE  FALSE
    BY <1>1
  <2>2. Min(T) \in T /\ \A k \in T : Min(T) <= k
    BY <2>1, LeastNumber
  <2> DEFINE m == Min(T)
  <2> HIDE DEF m
  <2>3. m \in Nat /\ ~Upto(m) /\ \A k \in Nat : ~Upto(k) => m <= k
    BY <2>2 DEF m
  <2>4. m # 0
    BY <1>4, <2>3
  <2>5. m - 1 \in Nat /\ ~ (m <= m - 1) /\ (m - 1) + 1 = m
    BY <2>3, <2>4
  <2>6. Upto(m - 1)
    BY <2>3, <2>5
  <2>7. Upto((m - 1) + 1)
    BY <1>5, <2>5, <2>6
  <2>8. QED
    BY <2>3, <2>5, <2>7
<1>7. \E iter : iter = [s \in SUBSET D |-> Value(iter, s)]
  <2>1. PICK f : \A s \in SUBSET D : Cardinality(s) <= Len(seq) => f[s] = Value(f, s)
    BY <1>6 DEF Upto
  <2> DEFINE g == [s \in SUBSET D |-> f[s]]
  <2>2. \A s \in SUBSET D : g[s] = Value(g, s)
    BY <1>2, <1>3, <2>1
  <2>3. g = [s \in SUBSET D |-> Value(g, s)]
    BY <2>2
  <2>4. QED
    BY <2>3
<1> DEFINE iter == CHOOSE it : it = [s \in SUBSET D |-> Value(it, s)]
<1>8. Scan(base, seq) = iter[D]
  <2>1. Scan(base, seq) =
         (CHOOSE it : it = [s \in SUBSET (DOMAIN seq) |->
            IF s = {} THEN base ELSE KickIfIdle(it[s \ {Max(s)}], seq[Max(s)])])[DOMAIN seq]
    BY DEF Scan, FoldLeft, MapThenFoldSet
  <2>2. QED
    BY <1>1, <2>1
<1>9. iter = [s \in SUBSET D |-> Value(iter, s)]
  BY <1>7
<1> HIDE DEF iter
<1> DEFINE scan == [k \in 0 .. Len(seq) |-> iter[1 .. k]]
<1>10. scan[0] = base
  <2>1. 1 .. 0 = {} /\ 0 \in 0 .. Len(seq) /\ {} \in SUBSET D
    BY <1>1
  <2>2. iter[{}] = base
    BY <1>9, <2>1
  <2>3. QED
    BY <2>1, <2>2
<1>11. ASSUME NEW k \in 1 .. Len(seq)
       PROVE  scan[k] = KickIfIdle(scan[k - 1], seq[k])
  <2>1. 1 .. k \in SUBSET D /\ 1 .. k # {} /\ k \in 0 .. Len(seq) /\ k - 1 \in 0 .. Len(seq)
    <3>1. k \in Nat /\ 1 <= k /\ k <= Len(seq)
      BY <1>1
    <3>2. \A x \in 1 .. k : x \in 1 .. Len(seq)
      BY <1>1, <3>1
    <3>3. 1 \in 1 .. k
      BY <3>1
    <3>4. k \in 0 .. Len(seq) /\ k - 1 \in 0 .. Len(seq)
      BY <1>1, <3>1
    <3>5. QED
      BY <3>2, <3>3, <3>4
  <2>2. Max(1 .. k) = k
    <3>1. Max(1 .. k) \in 1 .. k /\ \A x \in 1 .. k : x <= Max(1 .. k)
      BY <1>1, <2>1, GreatestNumber
    <3>2. k \in 1 .. k
      BY <1>1
    <3>3. Max(1 .. k) \in Nat /\ k <= Max(1 .. k) /\ Max(1 .. k) <= k
      BY <3>1, <3>2
    <3>4. QED
      BY <3>3
  <2>3. (1 .. k) \ {k} = 1 .. k - 1
    BY <1>1
  <2>4. iter[1 .. k] = KickIfIdle(iter[(1 .. k) \ {k}], seq[k])
    BY <1>9, <2>1, <2>2
  <2>5. QED
    BY <2>1, <2>3, <2>4
<1>12. scan[Len(seq)] = iter[D]
  BY <1>1
<1> HIDE DEF scan
<1>13. QED
  BY <1>8, <1>10, <1>11, <1>12

\* The array when the scan has visited k of the n elements it started with: those it
\* has still to visit are in their places, and all others are not idle too long.
Scanned(start, k, array) ==
  /\ array \in Seq(Entries) /\ DistinctFds(array)
  /\ Len(start) - k <= Len(array) /\ Len(array) <= Len(start)
  /\ \A i \in 1 .. Len(start) - k : array[i] = start[i]
  /\ \A i \in Len(start) - k + 1 .. Len(array) : array[i].idle <= Timeout
  /\ FdsIn(array) = {start[i].fd : i \in {j \in 1 .. Len(start) : j <= Len(start) - k \/ start[j].idle <= Timeout}}

LEMMA ScanOne ==
  ASSUME NEW start \in Seq(Entries), DistinctFds(start),
         NEW k \in Nat, k < Len(start), NEW array, Scanned(start, k, array)
  PROVE  Scanned(start, k + 1, KickIfIdle(array, Len(start) - k))
<1> DEFINE n == Len(start)
           p == Len(start) - k
<1>1. /\ n \in Nat /\ DOMAIN start = 1 .. n /\ array \in Seq(Entries) /\ DistinctFds(array)
      /\ Len(array) \in Nat /\ DOMAIN array = 1 .. Len(array)
  BY LenProperties DEF Scanned
<1> HIDE DEF n
<1>2. /\ p \in 1 .. n /\ p \in DOMAIN array /\ p \in Nat /\ p = n - k /\ n - (k + 1) = p - 1
      /\ p <= Len(array) /\ Len(array) <= n
  BY <1>1 DEF Scanned, n
<1> HIDE DEF p
<1>3. /\ array[p] = start[p] /\ \A i \in 1 .. p : array[i] = start[i]
      /\ \A i \in p + 1 .. Len(array) : array[i].idle <= Timeout
      /\ FdsIn(array) = {start[i].fd : i \in {j \in 1 .. n : j <= p \/ start[j].idle <= Timeout}}
  BY <1>2 DEF Scanned, n
<1>4. \A i \in 1 .. n : start[i].idle \in Nat
  <2>1. \A i \in 1 .. n : start[i] \in Entries
    BY <1>1
  <2>2. QED
    BY <2>1, ChatRoomAssumption DEF Entries
<1>5. Timeout \in Nat
  BY ChatRoomAssumption
<1> DEFINE rest == KickIfIdle(array, p)
           Kept(q) == {j \in 1 .. n : j <= q \/ start[j].idle <= Timeout}
<1>6. SUFFICES /\ rest \in Seq(Entries) /\ DistinctFds(rest) /\ p - 1 <= Len(rest) /\ Len(rest) <= n
               /\ \A i \in 1 .. p - 1 : rest[i] = start[i]
               /\ \A i \in p .. Len(rest) : rest[i].idle <= Timeout
               /\ FdsIn(rest) = {start[i].fd : i \in Kept(p - 1)}
  <2>1. p - 1 + 1 = p /\ n - (k + 1) + 1 = p
    BY <1>2
  <2>2. QED
    BY <1>2, <2>1 DEF Scanned, n, p
<1>7. CASE array[p].idle > Timeout
  <2>1. rest = Without(array, p)
    BY <1>2, <1>7 DEF KickIfIdle
  <2>2. /\ rest \in Seq(Entries) /\ Len(rest) = Len(array) - 1
        /\ \A i \in 1 .. Len(array) - 1 : rest[i] = IF i = p THEN array[Len(array)] ELSE array[i]
        /\ DistinctFds(rest) /\ FdsIn(rest) = FdsIn(array) \ {start[p].fd}
    <3>1. /\ Without(array, p) \in Seq(Entries) /\ Len(Without(array, p)) = Len(array) - 1
          /\ \A i \in 1 .. Len(array) - 1 :
               Without(array, p)[i] = IF i = p THEN array[Len(array)] ELSE array[i]
      <4>1. array \in Seq(Entries) /\ p \in DOMAIN array
        BY <1>1, <1>2
      <4>2. QED
        BY ONLY <4>1, WithoutOne
    <3>2. DistinctFds(Without(array, p)) /\ FdsIn(Without(array, p)) = FdsIn(array) \ {array[p].fd}
      BY <1>1, <1>2, WithoutFd
    <3>3. QED
      BY ONLY <1>3, <2>1, <3>1, <3>2, Zenon
  <2>3. p - 1 <= Len(rest) /\ Len(rest) <= n
    BY <1>1, <1>2, <2>2
  <2>4. \A i \in 1 .. p - 1 : rest[i] = start[i]
    <3>1. \A i \in 1 .. p - 1 : i \in 1 .. Len(array) - 1 /\ i # p /\ i \in 1 .. p
      BY <1>1, <1>2
    <3>2. QED
      BY <1>3, <2>2, <3>1
  <2>5. \A i \in p .. Len(rest) : rest[i].idle <= Timeout
    <3>1. ASSUME NEW i \in p .. Len(rest)
          PROVE  rest[i].idle <= Timeout
      <4>1. i \in 1 .. Len(array) - 1 /\ Len(array) \in p + 1 .. Len(array)
            /\ (i # p => i \in p + 1 .. Len(array))
        BY <1>1, <1>2, <2>2, <3>1
      <4>2. CASE i = p
        BY <1>3, <2>2, <4>1, <4>2
      <4>3. CASE i # p
        BY <1>3, <2>2, <4>1, <4>3
      <4>4. QED
        BY <4>2, <4>3
    <3>2. QED
      BY <3>1
  <2>6. Kept(p - 1) = Kept(p) \ {p}
    <3>1. ~ (start[p].idle <= Timeout)
      BY <1>2, <1>3, <1>4, <1>5, <1>7
    <3>2. \A j \in 1 .. n : j <= p - 1 <=> j <= p /\ j # p
      BY <1>2
    <3>3. QED
      BY <1>2, <3>1, <3>2
  <2>7. \A i, j \in 1 .. n : start[i].fd = start[j].fd => i = j
    BY <1>1 DEF DistinctFds
  <2>8. FdsIn(rest) = {start[i].fd : i \in Kept(p - 1)}
    <3>1. FdsIn(rest) = {start[i].fd : i \in Kept(p)} \ {start[p].fd}
      BY <1>3, <2>2
    <3> HIDE DEF rest
    <3>2. p \in 1 .. n /\ Kept(p) \subseteq 1 .. n
      BY <1>2
    <3> HIDE DEF Kept
    <3>3. \A i \in Kept(p) : start[i].fd = start[p].fd <=> i = p
      BY ONLY <2>7, <3>2
    <3>4. QED
      BY ONLY <2>6, <3>1, <3>3
  <2>9. QED
    BY <2>2, <2>3, <2>4, <2>5, <2>8
<1>8. CASE ~ (array[p].idle > Timeout)
  <2>1. rest = array
    BY <1>8 DEF KickIfIdle
  <2>2. array[p].idle <= Timeout
    BY <1>2, <1>3, <1>4, <1>5, <1>8, SMTT(30)
  <2>3. \A i \in p .. Len(array) : i = p \/ i \in p + 1 .. Len(array)
    BY <1>1, <1>2
  <2>4. \A i \in 1 .. p - 1 : i \in 1 .. p
    BY <1>2
  <2>5. Kept(p - 1) = Kept(p)
    <3>1. \A j \in 1 .. n : j <= p <=> j <= p - 1 \/ j = p
      BY <1>2
    <3>2. start[p].idle <= Timeout
      BY <1>3, <2>2
    <3>3. QED
      BY <1>2, <3>1, <3>2
  <2>6. p - 1 <= Len(array) /\ Len(array) <= n
    BY <1>1, <1>2
  <2>7. QED
    BY <1>1, <1>3, <2>1, <2>2, <2>3, <2>4, <2>5, <2>6
<1>9. QED
  BY <1>7, <1>8

\* What the whole scan leaves.
LEMMA ScanAll ==
  ASSUME NEW start \in Seq(Entries), DistinctFds(start),
         NEW array, array = Scan(start, ScanOrder(Len(start)))
  PROVE  /\ array \in Seq(Entries) /\ DistinctFds(array) /\ Len(array) <= Len(start)
         /\ FdsIn(array) = {start[i].fd : i \in {j \in DOMAIN start : start[j].idle <= Timeout}}
<1> DEFINE n == Len(start)
<1>1. n \in Nat /\ DOMAIN start = 1 .. n
  BY LenProperties
<1>2. ScanOrder(n) \in Seq(Int) /\ Len(ScanOrder(n)) = n /\ \A k \in 1 .. n : ScanOrder(n)[k] = n + 1 - k
  <2>1. \A k \in 1 .. n : n + 1 - k \in Int
    BY <1>1
  <2>2. ScanOrder(n) = [k \in 1 .. n |-> n + 1 - k]
    BY DEF ScanOrder
  <2>3. ScanOrder(n) \in Seq(Int)
    BY <1>1, <2>1, <2>2, IsASeq
  <2>4. DOMAIN ScanOrder(n) = 1 .. n /\ DOMAIN ScanOrder(n) = 1 .. Len(ScanOrder(n)) /\ Len(ScanOrder(n)) \in Nat
    BY <2>2, <2>3, LenProperties
  <2>5. Len(ScanOrder(n)) = n
    BY <1>1, <2>4
  <2>6. QED
    BY <2>2, <2>3, <2>5
<1>3. PICK scan : /\ scan[0] = start
                  /\ \A k \in 1 .. n : scan[k] = KickIfIdle(scan[k - 1], ScanOrder(n)[k])
                  /\ array = scan[n]
  <2> DEFINE order == ScanOrder(n)
  <2>1. order \in Seq(Int) /\ Len(order) = n /\ array = Scan(start, order)
    BY <1>2
  <2> HIDE DEF order, n
  <2>2. \E scan : /\ scan[0] = start
                  /\ \A k \in 1 .. Len(order) : scan[k] = KickIfIdle(scan[k - 1], order[k])
                  /\ Scan(start, order) = scan[Len(order)]
    <3>1. order \in Seq(Int)
      BY <2>1
    <3>2. QED
      BY ONLY <3>1, FoldSteps
  <2>3. \E scan : /\ scan[0] = start
                  /\ \A k \in 1 .. n : scan[k] = KickIfIdle(scan[k - 1], order[k])
                  /\ array = scan[n]
    BY ONLY <2>1, <2>2, Zenon
  <2>4. QED
    BY <2>3 DEF order
<1> HIDE DEF n
<1>4. Scanned(start, 0, scan[0])
  <2>1. {j \in 1 .. n : j <= n - 0 \/ start[j].idle <= Timeout} = 1 .. n
    BY <1>1
  <2>2. FdsIn(start) = {start[i].fd : i \in 1 .. n}
    BY <1>1 DEF FdsIn
  <2>3. \A i \in n - 0 + 1 .. n : FALSE
    BY <1>1
  <2>4. QED
    BY <1>1, <1>3, <2>1, <2>2, <2>3 DEF Scanned, n
<1>5. ASSUME NEW k \in Nat, k < n, Scanned(start, k, scan[k])
      PROVE  Scanned(start, k + 1, scan[k + 1])
  <2>1. k + 1 \in 1 .. n /\ (k + 1) - 1 = k /\ n + 1 - (k + 1) = n - k
    BY <1>1, <1>5
  <2>2. scan[k + 1] = KickIfIdle(scan[k], n - k)
    BY <1>2, <1>3, <2>1
  <2>3. QED
    BY <1>5, <2>2, ScanOne DEF n
<1>6. Scanned(start, n, scan[n])
  <2> DEFINE T == {k \in 0 .. n : ~Scanned(start, k, scan[k])}
  <2>1. SUFFICES ASSUME T # {}
                 PROVE  FALSE
    BY <1>1
  <2>2. T \in SUBSET Nat
    BY <1>1
  <2>3. Min(T) \in T /\ \A k \in T : Min(T) <= k
    BY <2>1, <2>2, LeastNumber
  <2> DEFINE m == Min(T)
  <2>4. /\ m \in 0 .. n /\ ~Scanned(start, m, scan[m])
        /\ \A k \in 0 .. n : ~Scanned(start, k, scan[k]) => m <= k
    BY <2>3
  <2> HIDE DEF m, T
  <2>5. m # 0
    BY <1>4, <2>4
  <2>6. m - 1 \in 0 .. n /\ m - 1 \in Nat /\ m - 1 < n /\ ~ (m <= m - 1) /\ (m - 1) + 1 = m
    BY <1>1, <2>4, <2>5
  <2>7. Scanned(start, m - 1, scan[m - 1])
    BY <2>4, <2>6
  <2>8. Scanned(start, (m - 1) + 1, scan[(m - 1) + 1])
    BY <1>5, <2>6, <2>7
  <2>9. QED
    BY <2>4, <2>6, <2>8
<1>7. {j \in 1 .. n : j <= n - n \/ start[j].idle <= Timeout} = {j \in DOMAIN start : start[j].idle <= Timeout}
  BY <1>1
<1>8. QED
  BY <1>3, <1>6, <1>7 DEF Scanned, n

LEMMA CheckTimeoutsStep ==
  ASSUME Inv, CheckTimeouts
  PROVE  /\ Inv'
         /\ FdsIn(clients') = {clients[i].fd : i \in {j \in DOMAIN clients : clients[j].idle <= Timeout}}
<1> DEFINE K == FdsIn(clients) \ FdsIn(clients')
<1>1. /\ todo = <<>> /\ pc' = "wait"
      /\ owner' = [f \in Fds |-> IF f \in K THEN None ELSE owner[f]]
      /\ edge' = edge \ K
      /\ UNCHANGED <<up, todo, backlog, link, sentN, readN, heard, seen, dropped, inUse, made>>
  BY DEF CheckTimeouts, ScanDue, data
<1>0. clients' = Scan(clients, ScanOrder(Len(clients)))
  BY DEF CheckTimeouts, Scan
<1>2. clients \in Seq(Entries) /\ DistinctFds(clients) /\ FdsIn(clients) = Held
  BY DEF Inv, Flat, ArrayMatches, DistinctFds, Held
<1>3. /\ clients' \in Seq(Entries) /\ DistinctFds(clients') /\ Len(clients') <= Len(clients)
      /\ FdsIn(clients') = {clients[i].fd : i \in {j \in DOMAIN clients : clients[j].idle <= Timeout}}
  BY <1>0, <1>2, ScanAll
<1>4. FdsIn(clients') = FdsIn(clients) \ K /\ K \in SUBSET Held
  <2>1. FdsIn(clients') \subseteq FdsIn(clients)
    BY <1>3 DEF FdsIn
  <2>2. QED
    BY <1>2, <2>1
<1> HIDE DEF K
<1>5. DOMAIN todo' = {} /\ DOMAIN todo = {} /\ todo' \in Seq(Events)
  BY <1>1, EmptySeq
<1>6. Inv'
  BY <1>1, <1>3, <1>4, <1>5, ClosingStep
<1>7. QED
  BY <1>3, <1>6

-----------------------------------------------------------------------------
(***************************************************************************)
(* One recv, and the message to all others.                                *)
(***************************************************************************)
LEMMA LesserOfTwo ==
  ASSUME NEW a \in Nat, NEW b \in Nat
  PROVE  Min({a, b}) \in Nat /\ Min({a, b}) <= a /\ Min({a, b}) <= b /\ (Min({a, b}) = a \/ Min({a, b}) = b)
<1>1. {a, b} \in SUBSET Nat /\ {a, b} # {}
  OBVIOUS
<1>2. Min({a, b}) \in {a, b} /\ \A n \in {a, b} : Min({a, b}) <= n
  BY <1>1, LeastNumber
<1>3. QED
  BY <1>2

\* The speaker is a client, and the others are the other ones.
LEMMA SpeakerAndOthers ==
  ASSUME Inv, pc = "recv"
  PROVE  /\ todo # <<>> /\ Fd \in Held /\ Speaker \in Conns /\ FdsOf(Speaker) # {}
         /\ Others \subseteq Conns /\ Speaker \notin Others
         /\ \A c \in Conns \ {Speaker} : c \in Others <=> FdsOf(c) # {}
<1>1. /\ todo # <<>> /\ Fd \in Held /\ Fd \in FdsIn(clients) /\ Speaker \in Conns
  BY RestOfBatch, EventHeld DEF Inv, Batched, Fd, Speaker
<1>2. /\ FdsIn(clients) = Held /\ Held \subseteq Fds /\ owner \in [Fds -> Conns \cup {None}]
      /\ \A f, g \in Held : owner[f] = owner[g] => f = g
  BY DEF Inv, Flat, ArrayMatches, Held
<1>3. Others = {owner[f] : f \in Held \ {Fd}}
  BY <1>2 DEF Others
<1>4. \A f \in Held : owner[f] \in Conns
  BY <1>2 DEF Held
<1>5. Speaker \notin Others
  BY <1>1, <1>2, <1>3 DEF Speaker
<1>6. ASSUME NEW c \in Conns, c # Speaker
      PROVE  c \in Others <=> FdsOf(c) # {}
  <2>1. FdsOf(c) \subseteq Held \ {Fd}
    BY <1>6, FdsHeld DEF FdsOf, Speaker
  <2>2. QED
    BY <1>2, <1>3, <2>1 DEF FdsOf
<1>7. FdsOf(Speaker) # {}
  BY <1>1, <1>2 DEF FdsOf, Speaker
<1>8. QED
  BY <1>1, <1>3, <1>4, <1>5, <1>6, <1>7

\* m units of the speaker, from the first that c has not got, come to c.
Gains(c, n, m) ==
  /\ m \in 0 .. n /\ heard'[c] \in Seq(Conns \X Nat) /\ Len(heard'[c]) = Len(heard[c]) + m
  /\ \A i \in 1 .. Len(heard[c]) : heard'[c][i] = heard[c][i]
  /\ \A k \in 1 .. m : heard'[c][Len(heard[c]) + k] = <<Speaker, readN[Speaker] + k>>
  /\ m # 0 => c \in Others /\ link[c] = "open" /\ m <= Room(c)
  /\ up' /\ c \in Others /\ link[c] = "open" /\ c \notin dropped' => m = n

\* A server that survives has reached all others.
LEMMA AllReached ==
  ASSUME up' = (\A c \in Others : ~Fatal(c))
  PROVE  Reached \subseteq Others /\ (up' => Reached = Others)
<1>1. \A i \in DOMAIN clients : clients[i].fd # Fd => owner[clients[i].fd] \in Others
  BY DEF Others, FdsIn
<1>2. QED
  BY <1>1 DEF Reached

LEMMA RecvGains ==
  ASSUME Inv, RecvData
  PROVE  \E n \in Nat \ {0} :
           /\ readN' = [readN EXCEPT ![Speaker] = readN[Speaker] + n]
           /\ n <= sentN[Speaker] - readN[Speaker]
           /\ \A c \in Conns : \E m \in 0 .. n : Gains(c, n, m)
           /\ heard' \in [Conns -> Seq(Conns \X Nat)] /\ dropped \subseteq dropped' /\ dropped' \subseteq Conns
<1> DEFINE n == Chunk(Speaker)
           units == Message(n)
           fits(c) == Min({Len(units), Room(c)})
<1>1. pc = "recv" /\ Unread(Speaker) > 0
  BY DEF RecvData, Receiving
<1>2. Speaker \in Conns /\ Others \subseteq Conns
  BY <1>1, SpeakerAndOthers
<1>3. sentN[Speaker] \in Nat /\ readN[Speaker] \in Nat
  BY <1>2 DEF Inv, Flat
<1>4. n \in Nat \ {0} /\ n <= sentN[Speaker] - readN[Speaker]
  <2>1. /\ Unread(Speaker) = sentN[Speaker] - readN[Speaker] /\ Unread(Speaker) \in Nat \ {0}
        /\ RecvUnits \in Nat \ {0}
    BY <1>1, <1>3, ChatRoomAssumption DEF Unread
  <2>2. /\ Min({RecvUnits, Unread(Speaker)}) \in Nat /\ Min({RecvUnits, Unread(Speaker)}) <= Unread(Speaker)
        /\ \/ Min({RecvUnits, Unread(Speaker)}) = RecvUnits
           \/ Min({RecvUnits, Unread(Speaker)}) = Unread(Speaker)
    BY <2>1, LesserOfTwo
  <2>3. QED
    BY <2>1, <2>2 DEF Chunk
<1>5. /\ readN' = [readN EXCEPT ![Speaker] = @ + n]
      /\ heard' = [c \in Conns |-> IF c \in Reached /\ link[c] = "open"
                                   THEN heard[c] \o SubSeq(units, 1, fits(c)) ELSE heard[c]]
      /\ dropped' = dropped \cup {c \in Reached : link[c] = "open" /\ fits(c) < Len(units)}
      /\ up' = (\A c \in Others : ~Fatal(c))
  BY DEF RecvData
<1>6. Reached \subseteq Others /\ (up' => Reached = Others)
  BY <1>5, AllReached
<1> HIDE DEF n
<1>7. units \in Seq(Conns \X Nat) /\ Len(units) = n /\ \A k \in 1 .. n : units[k] = <<Speaker, readN[Speaker] + k>>
  <2>1. \A k \in 1 .. n : <<Speaker, readN[Speaker] + k>> \in Conns \X Nat
    BY <1>2, <1>3, <1>4
  <2>2. units \in Seq(Conns \X Nat)
    BY <1>4, <2>1, IsASeq DEF Message
  <2>3. DOMAIN units = 1 .. n /\ DOMAIN units = 1 .. Len(units) /\ Len(units) \in Nat
    BY <2>2, LenProperties DEF Message
  <2>4. Len(units) = n
    BY <1>4, <2>3
  <2>5. QED
    BY <2>2, <2>4 DEF Message
<1> HIDE DEF units
<1>8. ASSUME NEW c \in Conns
      PROVE  \E m \in 0 .. n : Gains(c, n, m)
  <2>1. heard[c] \in Seq(Conns \X Nat) /\ Len(heard[c]) \in Nat
    BY LenProperties DEF Inv, Flat
  <2>2. CASE c \in Reached /\ link[c] = "open"
    <3>1. Room(c) \in Nat
      <4>1. /\ seen[c] \in Nat /\ SendBuffer \in Nat
            /\ seen[c] <= Len(heard[c]) /\ Len(heard[c]) - seen[c] <= SendBuffer
        BY ChatRoomAssumption DEF Inv, Flat, Streams
      <4>2. QED
        BY <2>1, <4>1 DEF Room
    <3>2. /\ fits(c) \in Nat /\ fits(c) <= n /\ fits(c) <= Room(c)
          /\ fits(c) = n \/ fits(c) = Room(c)
      BY <1>4, <1>7, <3>1, LesserOfTwo
    <3> DEFINE m == fits(c)
    <3>3. c \notin dropped' => ~ (m < n)
      BY <1>5, <1>7, <2>2
    <3>4. heard'[c] = heard[c] \o SubSeq(units, 1, m)
      BY <1>5, <2>2
    <3>5. m \in 0 .. n /\ m <= Room(c) /\ (c \notin dropped' => m = n)
      BY <1>4, <3>2, <3>3
    <3> HIDE DEF m
    <3>6. /\ SubSeq(units, 1, m) \in Seq(Conns \X Nat) /\ Len(SubSeq(units, 1, m)) = m
          /\ \A k \in 1 .. m : SubSeq(units, 1, m)[k] = <<Speaker, readN[Speaker] + k>>
      <4>1. 1 \in 1 .. Len(units) + 1 /\ m \in 1 - 1 .. Len(units)
        BY <1>4, <1>7, <3>5
      <4>2. /\ SubSeq(units, 1, m) \in Seq(Conns \X Nat) /\ Len(SubSeq(units, 1, m)) = m - 1 + 1
            /\ \A k \in 1 .. m - 1 + 1 : SubSeq(units, 1, m)[k] = units[1 + k - 1]
        BY <1>7, <4>1, SubSeqProperties
      <4>3. m - 1 + 1 = m /\ \A k \in 1 .. m : 1 + k - 1 = k /\ k \in 1 .. n
        BY <1>4, <3>5
      <4>4. QED
        BY <1>7, <4>2, <4>3
    <3>7. /\ heard'[c] \in Seq(Conns \X Nat) /\ Len(heard'[c]) = Len(heard[c]) + m
          /\ \A i \in 1 .. Len(heard[c]) : heard'[c][i] = heard[c][i]
          /\ \A k \in 1 .. m : heard'[c][Len(heard[c]) + k] = <<Speaker, readN[Speaker] + k>>
      <4> DEFINE tail == SubSeq(units, 1, m)
      <4>1. tail \in Seq(Conns \X Nat) /\ Len(tail) = m
            /\ heard'[c] = heard[c] \o tail
            /\ \A k \in 1 .. m : tail[k] = <<Speaker, readN[Speaker] + k>>
        BY <3>4, <3>6
      <4> HIDE DEF tail
      <4>2. /\ heard[c] \o tail \in Seq(Conns \X Nat) /\ Len(heard[c] \o tail) = Len(heard[c]) + m
            /\ \A i \in 1 .. Len(heard[c]) + m :
                 (heard[c] \o tail)[i] = IF i <= Len(heard[c]) THEN heard[c][i] ELSE tail[i - Len(heard[c])]
        <5>1. heard[c] \in Seq(Conns \X Nat) /\ tail \in Seq(Conns \X Nat) /\ Len(tail) = m
          BY <2>1, <4>1
        <5>2. QED
          BY ONLY <5>1, ConcatProperties
      <4>3. \A i \in 1 .. Len(heard[c]) : i \in 1 .. Len(heard[c]) + m /\ i <= Len(heard[c])
        BY <2>1, <3>5
      <4>4. \A k \in 1 .. m : /\ Len(heard[c]) + k \in 1 .. Len(heard[c]) + m /\ ~ (Len(heard[c]) + k <= Len(heard[c]))
                              /\ (Len(heard[c]) + k) - Len(heard[c]) = k
        BY <2>1, <3>5
      <4>5. QED
        BY <4>1, <4>2, <4>3, <4>4
    <3>8. Gains(c, n, m)
      BY <1>6, <2>2, <3>5, <3>7 DEF Gains
    <3>9. QED
      BY <3>5, <3>8
  <2>3. CASE ~ (c \in Reached /\ link[c] = "open")
    <3>1. heard'[c] = heard[c]
      BY <1>5, <2>3
    <3>2. Len(heard'[c]) = Len(heard[c]) + 0 /\ 0 \in 0 .. n /\ \A k \in 1 .. 0 : FALSE
      BY <1>4, <2>1, <3>1
    <3>3. Gains(c, n, 0)
      BY <1>6, <2>1, <2>3, <3>1, <3>2 DEF Gains
    <3>4. QED
      BY <3>2, <3>3
  <2>4. QED
    BY <2>2, <2>3
<1>9. heard' \in [Conns -> Seq(Conns \X Nat)]
  <2>1. \A c \in Conns : heard'[c] \in Seq(Conns \X Nat)
    BY <1>8 DEF Gains
  <2>2. heard' = [c \in Conns |-> heard'[c]]
    BY <1>5
  <2>3. QED
    BY ONLY <2>1, <2>2
<1>10. dropped \subseteq dropped' /\ dropped' \subseteq Conns
  BY <1>2, <1>5, <1>6 DEF Inv, Flat
<1>11. QED
  BY <1>4, <1>5, <1>8, <1>9, <1>10

LEMMA GainsInOrder ==
  ASSUME Inv, pc = "recv", NEW n \in Nat \ {0},
         readN' = [readN EXCEPT ![Speaker] = readN[Speaker] + n],
         NEW c \in Conns, NEW m \in 0 .. n, Gains(c, n, m)
  PROVE  /\ InOrder(c)'
         /\ HeardUnits(c)' = HeardUnits(c) \cup {<<Speaker, readN[Speaker] + k>> : k \in 1 .. m}
<1> DEFINE s == Speaker
           r == readN[Speaker]
           l == Len(heard[c])
<1>1. /\ s \in Conns /\ s \notin Others
      /\ readN \in [Conns -> Nat] /\ r \in Nat /\ readN'[s] = r + n
      /\ \A d \in Conns \ {s} : readN'[d] = readN[d]
  BY SpeakerAndOthers DEF Inv, Flat
<1>2. heard[c] \in Seq(Conns \X Nat) /\ l \in Nat /\ DOMAIN heard[c] = 1 .. l
  BY LenProperties DEF Inv, Flat
<1>3. /\ m \in Nat /\ m <= n /\ DOMAIN heard'[c] = 1 .. l + m
      /\ \A i \in 1 .. l : heard'[c][i] = heard[c][i]
      /\ \A k \in 1 .. m : heard'[c][l + k] = <<s, r + k>>
      /\ m # 0 => c \in Others
  <2>1. /\ heard'[c] \in Seq(Conns \X Nat) /\ Len(heard'[c]) = l + m
        /\ \A i \in 1 .. l : heard'[c][i] = heard[c][i]
        /\ \A k \in 1 .. m : heard'[c][l + k] = <<s, r + k>>
        /\ m # 0 => c \in Others
    BY DEF Gains
  <2>2. DOMAIN heard'[c] = 1 .. l + m
    BY <2>1, LenProperties
  <2>3. m \in Nat /\ m <= n
    OBVIOUS
  <2>4. QED
    BY <2>1, <2>2, <2>3
<1> HIDE DEF l
<1>4. \A i \in 1 .. l + m : i \in 1 .. l \/ \E k \in 1 .. m : i = l + k
  <2>1. ASSUME NEW i \in 1 .. l + m, i \notin 1 .. l
        PROVE  i - l \in 1 .. m /\ i = l + (i - l)
    BY <1>2, <1>3, <2>1
  <2>2. QED
    BY <2>1
<1>5. \A i \in 1 .. l : i \in 1 .. l + m
  BY <1>2, <1>3
<1>6. \A k \in 1 .. m : l + k \in 1 .. l + m
  BY <1>2, <1>3
<1> HIDE DEF s, r
<1>7. \A i \in 1 .. l : /\ heard[c][i][1] \in Conns /\ heard[c][i][2] \in Nat
                        /\ heard[c][i][1] # c /\ 1 <= heard[c][i][2]
                        /\ heard[c][i][2] <= readN[heard[c][i][1]]
                        /\ (heard[c][i][1] = s => heard[c][i][2] <= r)
  <2>1. \A i \in 1 .. l : heard[c][i] \in Conns \X Nat
    BY <1>2
  <2>2. QED
    BY <1>2, <2>1 DEF Inv, Heard, InOrder, s, r
<1>8. \A k \in 1 .. m : /\ <<s, r + k>>[1] = s /\ <<s, r + k>>[2] = r + k
                        /\ r + k \in Nat /\ r < r + k /\ 1 <= r + k /\ r + k <= r + n
  BY <1>1, <1>3
<1>9. HeardUnits(c)' = HeardUnits(c) \cup {<<s, r + k>> : k \in 1 .. m}
  <2>1. HeardUnits(c) = {heard[c][i] : i \in 1 .. l}
    BY <1>2 DEF HeardUnits, ToSet
  <2>2. HeardUnits(c)' = {heard'[c][i] : i \in 1 .. l + m}
    BY <1>3 DEF HeardUnits, ToSet
  <2>3. \A i \in 1 .. l + m : heard'[c][i] \in HeardUnits(c) \cup {<<s, r + k>> : k \in 1 .. m}
    <3>1. ASSUME NEW i \in 1 .. l
          PROVE  heard'[c][i] \in HeardUnits(c)
      BY <1>3, <2>1
    <3>2. ASSUME NEW k \in 1 .. m
          PROVE  heard'[c][l + k] \in {<<s, r + j>> : j \in 1 .. m}
      BY <1>3
    <3>3. QED
      BY <1>4, <3>1, <3>2
  <2>4. \A i \in 1 .. l : heard[c][i] \in HeardUnits(c)'
    BY <1>3, <1>5, <2>2
  <2>5. \A k \in 1 .. m : <<s, r + k>> \in HeardUnits(c)'
    BY <1>3, <1>6, <2>2
  <2>6. QED
    BY <2>1, <2>2, <2>3, <2>4, <2>5
<1>10. ASSUME NEW i \in 1 .. l + m
       PROVE  heard'[c][i][1] # c /\ 1 <= heard'[c][i][2] /\ heard'[c][i][2] <= readN'[heard'[c][i][1]]
  <2>1. CASE i \in 1 .. l
    <3>1. heard'[c][i] = heard[c][i]
      BY <1>3, <2>1
    <3>2. readN[heard[c][i][1]] <= readN'[heard[c][i][1]]
      BY <1>1, <1>7, <2>1 DEF s, r
    <3>3. readN[heard[c][i][1]] \in Nat /\ readN'[heard[c][i][1]] \in Nat
      BY <1>1, <1>7, <2>1 DEF s, r
    <3>4. QED
      BY <1>7, <2>1, <3>1, <3>2, <3>3
  <2>2. CASE \E k \in 1 .. m : i = l + k
    <3>1. PICK k \in 1 .. m : i = l + k
      BY <2>2
    <3>2. heard'[c][i] = <<s, r + k>> /\ c # s
      BY <1>1, <1>3, <3>1 DEF s
    <3>3. QED
      BY <1>1, <1>8, <3>2
  <2>3. QED
    BY <1>4, <2>1, <2>2
<1>11. ASSUME NEW i \in 1 .. l + m, NEW j \in 1 .. l + m, i < j, heard'[c][i][1] = heard'[c][j][1]
       PROVE  heard'[c][i][2] < heard'[c][j][2]
  <2>1. CASE j \in 1 .. l
    <3>1. i \in 1 .. l
      BY <1>2, <1>11, <2>1
    <3>2. heard'[c][i] = heard[c][i] /\ heard'[c][j] = heard[c][j]
      BY <1>3, <2>1, <3>1
    <3>3. heard[c][i][2] < heard[c][j][2]
      BY <1>2, <1>11, <2>1, <3>1, <3>2 DEF Inv, Heard, InOrder
    <3>4. QED
      BY <3>2, <3>3
  <2>2. CASE \E k \in 1 .. m : j = l + k
    <3>1. PICK k \in 1 .. m : j = l + k
      BY <2>2
    <3>2. heard'[c][j] = <<s, r + k>>
      BY <1>3, <3>1
    <3>3. CASE i \in 1 .. l
      <4>1. heard'[c][i] = heard[c][i] /\ heard[c][i][1] = s
        BY <1>3, <1>8, <1>11, <3>2, <3>3
      <4>2. heard[c][i][2] <= r /\ heard[c][i][2] \in Nat
        BY <1>7, <3>3, <4>1
      <4>3. QED
        BY <1>1, <1>8, <3>2, <4>1, <4>2
    <3>4. CASE \E g \in 1 .. m : i = l + g
      <4>1. PICK g \in 1 .. m : i = l + g
        BY <3>4
      <4>2. g \in Nat /\ k \in Nat /\ g < k
        BY <1>2, <1>11, <3>1, <4>1
      <4>3. heard'[c][i] = <<s, r + g>>
        BY <1>3, <4>1
      <4>4. r + g < r + k
        BY <1>1, <4>2 DEF r
      <4>5. QED
        BY <1>8, <3>2, <4>3, <4>4
    <3>5. QED
      BY <1>4, <3>3, <3>4
  <2>3. QED
    BY <1>4, <2>1, <2>2
<1>12. InOrder(c)'
  BY <1>3, <1>10, <1>11 DEF InOrder
<1>13. QED
  BY <1>9, <1>12 DEF s, r

LEMMA GainsGapless ==
  ASSUME Inv, up, pc = "recv", NEW n \in Nat \ {0},
         readN' = [readN EXCEPT ![Speaker] = readN[Speaker] + n],
         NEW c \in Conns, NEW m \in 0 .. n, Gains(c, n, m), dropped \subseteq dropped',
         link'[c] = "open" => link[c] = "open", owner' = owner
  PROVE  Gapless(c)'
<1> DEFINE s == Speaker
           r == readN[Speaker]
           H == HeardUnits(c)
<1>1. /\ s \in Conns /\ s \notin Others /\ \A d \in Conns \ {s} : d \in Others <=> FdsOf(d) # {}
      /\ readN \in [Conns -> Nat] /\ r \in Nat /\ readN'[s] = r + n
      /\ \A d \in Conns \ {s} : readN'[d] = readN[d]
  BY SpeakerAndOthers DEF Inv, Flat
<1>2. /\ HeardUnits(c)' = H \cup {<<s, r + k>> : k \in 1 .. m} /\ m \in Nat /\ m <= n
      /\ FdsOf(c)' = FdsOf(c)
  <2>1. HeardUnits(c)' = HeardUnits(c) \cup {<<Speaker, readN[Speaker] + k>> : k \in 1 .. m}
    BY GainsInOrder
  <2>2. FdsOf(c)' = FdsOf(c)
    BY DEF FdsOf
  <2>3. m \in Nat /\ m <= n
    OBVIOUS
  <2>4. QED
    BY <2>1, <2>2, <2>3
<1>3. SUFFICES ASSUME c \notin dropped'
               PROVE  /\ \A u, v \in HeardUnits(c)' :
                           u[1] = v[1] => \A x \in u[2] .. v[2] : <<u[1], x>> \in HeardUnits(c)'
                      /\ up' /\ link'[c] = "open" /\ FdsOf(c) # {} =>
                           \A u \in HeardUnits(c)' : <<u[1], readN'[u[1]]>> \in HeardUnits(c)'
  BY <1>2 DEF Gapless
<1>4. /\ \A u, v \in H : u[1] = v[1] => \A x \in u[2] .. v[2] : <<u[1], x>> \in H
      /\ link[c] = "open" /\ FdsOf(c) # {} => \A u \in H : <<u[1], readN[u[1]]>> \in H
  BY <1>3 DEF Inv, Heard, Gapless
<1>5. \A u \in H : /\ u[1] \in Conns /\ u[2] \in Nat /\ u[1] # c
                   /\ (u[1] = s => u[2] <= r)
  <2>1. heard[c] \in Seq(Conns \X Nat)
    BY DEF Inv, Flat
  <2>2. \A i \in DOMAIN heard[c] : heard[c][i] \in Conns \X Nat
    BY <2>1
  <2>3. \A i \in DOMAIN heard[c] : heard[c][i][1] # c /\ heard[c][i][2] <= readN[heard[c][i][1]]
    BY DEF Inv, Heard, InOrder
  <2>4. QED
    BY <2>2, <2>3 DEF HeardUnits, ToSet
<1>6. /\ m # 0 => c \in Others /\ link[c] = "open"
      /\ up' /\ c \in Others /\ link[c] = "open" => m = n
  BY <1>3 DEF Gains
<1> HIDE DEF s, r, H
<1>7. CASE m = 0
  <2>1. HeardUnits(c)' = H
    BY <1>2, <1>7
  <2>2. ASSUME up', link'[c] = "open", FdsOf(c) # {}, NEW u \in H
        PROVE  <<u[1], readN'[u[1]]>> \in H
    <3>1. c \notin Others
      BY <1>6, <1>7, <2>2
    <3>2. c = s
      BY <1>1, <2>2, <3>1
    <3>3. readN'[u[1]] = readN[u[1]]
      BY <1>1, <1>5, <2>2, <3>2
    <3>4. QED
      BY <1>4, <2>2, <3>3
  <2>3. QED
    BY <1>4, <2>1, <2>2
<1>8. CASE m # 0
  <2>1. c \in Others /\ link[c] = "open" /\ (up' => m = n) /\ FdsOf(c) # {}
    BY <1>1, <1>6, <1>8
  <2>2. \A u \in H : <<u[1], readN[u[1]]>> \in H
    BY <1>4, <2>1
  <2> DEFINE News == {<<s, r + k>> : k \in 1 .. m}
  <2>3. HeardUnits(c)' = H \cup News
    BY <1>2, <2>1
  <2>4. \A x \in Nat : r < x /\ x <= r + m => <<s, x>> \in News
    <3>1. ASSUME NEW x \in Nat, r < x, x <= r + m
          PROVE  x - r \in 1 .. m /\ r + (x - r) = x
      BY <1>1, <3>1 DEF r
    <3>2. QED
      BY <3>1
  <2>5. \A u \in News : u[1] = s /\ u[2] \in Nat /\ r < u[2] /\ u[2] <= r + m
    BY <1>1 DEF r
  <2> HIDE DEF News
  <2>6. ASSUME up', NEW u \in H \cup News
        PROVE  <<u[1], readN'[u[1]]>> \in H \cup News
    <3>1. CASE u[1] = s
      <4>1. <<s, r + m>> \in News
        BY <1>1, <1>2, <1>8, <2>4 DEF r
      <4>2. QED
        BY <1>1, <2>1, <2>6, <3>1, <4>1 DEF r, s
    <3>2. CASE u[1] # s
      <4>1. u \in H /\ readN'[u[1]] = readN[u[1]]
        BY <1>1, <1>5, <2>5, <3>2 DEF s
      <4>2. QED
        BY <2>2, <4>1
    <3>3. QED
      BY <3>1, <3>2
  <2>7. ASSUME NEW u \in H \cup News, NEW v \in H \cup News, u[1] = v[1], NEW x \in u[2] .. v[2]
        PROVE  <<u[1], x>> \in H \cup News
    <3>1. CASE u[1] # s
      <4>1. u \in H /\ v \in H
        BY <2>5, <2>7, <3>1
      <4>2. QED
        BY <1>4, <2>7, <4>1
    <3>2. CASE u[1] = s
      <4>1. /\ u[2] \in Nat /\ v[2] \in Nat /\ r \in Nat /\ v[2] <= r + m
        <5>1. r \in Nat /\ r <= r + m
          BY <1>1 DEF r
        <5>2. \A w \in H \cup News : w[2] \in Nat /\ (w[1] = s => w[2] <= r + m)
          <6>1. \A w \in H : w[2] \in Nat /\ (w[1] = s => w[2] <= r + m)
            <7>1. \A y \in Nat : y <= r => y <= r + m
              BY <5>1
            <7>2. QED
              BY <1>5, <7>1
          <6>2. QED
            BY <2>5, <6>1
        <5>3. QED
          BY <2>7, <3>2, <5>1, <5>2
      <4>2. x \in Nat /\ u[2] <= x /\ x <= r + m
        BY <4>1
      <4>3. CASE r < x
        BY <2>4, <3>2, <4>2, <4>3
      <4>4. CASE ~ (r < x)
        <5>1. u \in H
          BY <2>5, <4>1, <4>2, <4>4
        <5>2. <<s, r>> \in H
          <6>1. <<u[1], readN[u[1]]>> \in H
            BY <2>2, <5>1
          <6>2. QED
            BY <3>2, <6>1 DEF r, s
        <5>3. <<s, r>>[1] = s /\ <<s, r>>[2] = r /\ x \in u[2] .. r
          BY <4>1, <4>2, <4>4
        <5>4. \A y \in u[2] .. <<s, r>>[2] : <<u[1], y>> \in H
          BY <1>4, <3>2, <5>1, <5>2, <5>3
        <5>5. QED
          BY <5>3, <5>4
      <4>5. QED
        BY <4>3, <4>4
    <3>3. QED
      BY <3>1, <3>2
  <2>8. QED
    BY <2>3, <2>6, <2>7
<1>9. QED
  BY <1>7, <1>8

LEMMA RecvDataStep ==
  ASSUME Inv, RecvData
  PROVE  Inv'
<1>1. /\ up /\ pc = "recv" /\ up' \in BOOLEAN
      /\ clients' = [i \in DOMAIN clients |->
           IF clients[i].fd = Fd THEN [clients[i] EXCEPT !.idle = 0] ELSE clients[i]]
      /\ link' = [c \in Conns |-> IF c \in Reached THEN Poked(link[c]) ELSE link[c]]
      /\ \A c \in Conns : c \notin Others => heard'[c] = heard[c]
      /\ UNCHANGED <<pc, todo, owner, edge, backlog, sentN, seen, inUse, made>>
  <2>1. Reached \subseteq Others
    BY AllReached DEF RecvData
  <2>2. QED
    BY <2>1 DEF RecvData, Receiving
<1>2. PICK n \in Nat \ {0} :
        /\ readN' = [readN EXCEPT ![Speaker] = readN[Speaker] + n]
        /\ n <= sentN[Speaker] - readN[Speaker]
        /\ \A c \in Conns : \E m \in 0 .. n : Gains(c, n, m)
        /\ heard' \in [Conns -> Seq(Conns \X Nat)] /\ dropped \subseteq dropped' /\ dropped' \subseteq Conns
  BY RecvGains
<1>3. /\ Speaker \in Conns /\ FdsOf(Speaker) # {}
      /\ \A c \in Conns \ {Speaker} : c \in Others <=> FdsOf(c) # {}
  BY <1>1, SpeakerAndOthers
<1>4. /\ readN \in [Conns -> Nat] /\ sentN \in [Conns -> Nat] /\ readN' \in [Conns -> Nat]
      /\ readN'[Speaker] = readN[Speaker] + n /\ readN'[Speaker] <= sentN[Speaker]
      /\ \A c \in Conns \ {Speaker} : readN'[c] = readN[c]
  <2>1. readN \in [Conns -> Nat] /\ sentN \in [Conns -> Nat]
    BY DEF Inv, Flat
  <2>2. readN[Speaker] + n \in Nat /\ readN[Speaker] + n <= sentN[Speaker]
    BY <1>2, <1>3, <2>1
  <2>3. QED
    BY <1>2, <1>3, <2>1, <2>2
<1>5. /\ link' \in [Conns -> Ends]
      /\ \A c \in Conns : link'[c] = "open" <=> link[c] = "open"
  <2>1. \A state \in Ends : Poked(state) \in Ends /\ (Poked(state) = "open" <=> state = "open")
    BY DEF Ends, Poked
  <2>2. link \in [Conns -> Ends]
    BY DEF Inv, Flat
  <2>3. QED
    BY <1>1, <2>1, <2>2
<1>6. clients' \in Seq(Entries) /\ SameFds
  <2>1. clients \in Seq(Entries) /\ Len(clients) \in Nat /\ DOMAIN clients = 1 .. Len(clients)
    BY LenProperties DEF Inv, Flat
  <2>2. \A i \in 1 .. Len(clients) : clients'[i] \in Entries /\ clients'[i].fd = clients[i].fd
    <3>1. \A e \in Entries : /\ [e EXCEPT !.idle = 0] \in Entries
                             /\ [e EXCEPT !.idle = 0].fd = e.fd
      BY ChatRoomAssumption DEF Entries
    <3>2. \A i \in 1 .. Len(clients) : clients[i] \in Entries
      BY <2>1
    <3>3. \A i \in 1 .. Len(clients) :
            clients'[i] = IF clients[i].fd = Fd THEN [clients[i] EXCEPT !.idle = 0] ELSE clients[i]
      BY <1>1, <2>1
    <3>4. QED
      BY <3>1, <3>2, <3>3
  <2>3. clients' = [i \in 1 .. Len(clients) |-> clients'[i]]
    BY <1>1, <2>1
  <2>4. clients' \in Seq(Entries)
    BY <2>1, <2>2, <2>3, IsASeq
  <2>5. Len(clients') = Len(clients)
    BY <2>1, <2>3, <2>4, LenProperties
  <2>6. QED
    BY <2>1, <2>2, <2>4, <2>5 DEF SameFds
<1>7. Flat'
  BY <1>1, <1>2, <1>4, <1>5, <1>6 DEF Inv, Flat
<1>8. ArrayMatches' /\ FdsIn(clients') = FdsIn(clients) /\ Held' = Held
  BY <1>1, <1>6, MatchesKept
<1>9. Batched' /\ edge' \subseteq Held'
  BY <1>1, <1>8 DEF Inv, Batched
<1>10. \A c : FdsOf(c)' = FdsOf(c)
  BY <1>1 DEF FdsOf
<1>11. NewsNotLost'
  <2>1. \A c \in Conns : Unread(c)' > 0 => Unread(c) > 0
    <3>1. ASSUME NEW c \in Conns
          PROVE  readN[c] \in Nat /\ readN'[c] \in Nat /\ sentN[c] \in Nat /\ readN[c] <= readN'[c]
      BY <1>3, <1>4
    <3>2. QED
      BY <1>1, <3>1 DEF Unread
  <2>2. \A f \in FdsIn(clients) : owner[f] \in Conns
    BY DEF Inv, Flat, ArrayMatches
  <2>3. QED
    BY <1>1, <1>5, <1>8, <2>1, <2>2 DEF Inv, NewsNotLost
<1>12. Filed'
  <2>1. \A c \in Conns : FdsOf(c) = {} => heard'[c] = heard[c]
    BY <1>1, <1>3
  <2>2. Range(backlog) \subseteq Conns
    BY DEF Inv, Flat, Range
  <2>3. \A c \in Conns : c > made => FdsOf(c) = {}
    <3>1. made \in Nat /\ \A f \in Fds : owner[f] \in Int /\ owner[f] <= made
      BY ChatRoomAssumption DEF Inv, Flat, Filed, Conns, None
    <3>2. QED
      BY <3>1 DEF FdsOf, Conns
  <2>4. QED
    BY <1>1, <1>10, <2>1, <2>2, <2>3 DEF Inv, Filed
<1>13. Streams'
  <2>1. ASSUME NEW c \in Conns
        PROVE  /\ readN'[c] <= sentN'[c] /\ seen'[c] <= Len(heard'[c])
               /\ Len(heard'[c]) - seen'[c] <= SendBuffer
    <3>1. PICK m \in 0 .. n : Gains(c, n, m)
      BY <1>2
    <3>2. /\ Len(heard'[c]) = Len(heard[c]) + m
          /\ m # 0 => m <= SendBuffer - (Len(heard[c]) - seen[c])
      BY <3>1 DEF Gains, Room
    <3>3. Len(heard[c]) \in Nat /\ seen[c] \in Nat /\ SendBuffer \in Nat /\ m \in Nat
      BY <1>2, LenProperties, ChatRoomAssumption DEF Inv, Flat
    <3>4. seen[c] <= Len(heard[c]) /\ Len(heard[c]) - seen[c] <= SendBuffer /\ readN[c] <= sentN[c]
      BY DEF Inv, Streams
    <3>5. seen[c] <= Len(heard'[c]) /\ Len(heard'[c]) - seen[c] <= SendBuffer
      BY <3>2, <3>3, <3>4
    <3>6. readN'[c] <= sentN[c]
      BY <1>4, <3>4
    <3>7. QED
      BY <1>1, <3>5, <3>6
  <2>2. QED
    BY <2>1 DEF Streams
<1>14. Heard'
  <2>1. ASSUME NEW c \in Conns
        PROVE  InOrder(c)' /\ Gapless(c)'
    <3>1. PICK m \in 0 .. n : Gains(c, n, m)
      BY <1>2
    <3>2. InOrder(c)'
      BY <1>1, <1>2, <3>1, GainsInOrder
    <3>3. Gapless(c)'
      BY <1>1, <1>2, <1>5, <3>1, GainsGapless
    <3>4. QED
      BY <3>2, <3>3
  <2>2. QED
    BY <2>1 DEF Heard
<1>15. QED
  BY <1>7, <1>8, <1>9, <1>11, <1>12, <1>13, <1>14 DEF Inv

-----------------------------------------------------------------------------
(***************************************************************************)
(* The invariant, and what it says.                                        *)
(***************************************************************************)
LEMMA InitHolds ==
  ASSUME Init
  PROVE  Inv
<1>1. Flat
  <2>1. <<>> \in Seq(Events) /\ <<>> \in Seq(Entries) /\ <<>> \in Seq(Conns) /\ <<>> \in Seq(Conns \X Nat)
    OBVIOUS
  <2>2. 0 \in 0 .. MaxConns
    BY ChatRoomAssumption
  <2>3. QED
    BY <2>1, <2>2 DEF Init, Flat, Ends
<1>2. DOMAIN clients = {} /\ DOMAIN todo = {} /\ Len(clients) = 0 /\ Held = {} /\ FdsIn(clients) = {}
  BY DEF Init, Held, FdsIn
<1>3. ArrayMatches
  BY <1>2, ChatRoomAssumption DEF ArrayMatches, Held
<1>4. Batched /\ edge \subseteq Held /\ NewsNotLost
  BY <1>2 DEF Init, Batched, NewsNotLost
<1>5. Filed
  <2>1. IsInjective(backlog) /\ Range(backlog) = {}
    BY DEF Init, IsInjective, Range
  <2>2. QED
    BY <2>1 DEF Init, Filed, None
<1>6. ASSUME NEW c \in Conns
      PROVE  heard[c] = <<>> /\ Len(heard[c]) = 0 /\ DOMAIN heard[c] = {} /\ HeardUnits(c) = {}
  BY DEF Init, HeardUnits, ToSet
<1>7. Streams
  BY <1>6, ChatRoomAssumption DEF Init, Streams
<1>8. Heard
  BY <1>6 DEF Heard, InOrder, Gapless
<1>9. QED
  BY <1>1, <1>3, <1>4, <1>5, <1>7, <1>8 DEF Inv

LEMMA NextKeeps ==
  ASSUME Inv, Next
  PROVE  Inv'
<1>1. CASE Server
  BY <1>1, EpollWaitStep, HandleErrorStep, HandleAcceptStep, HandleReadableStep, RecvDataStep,
     RecvEndStep, RecvAgainStep, CheckTimeoutsStep DEF Server
<1>2. ASSUME NEW n \in {0, 1}, ConnectAndSend(n)
      PROVE  Inv'
  BY <1>2, ConnectAndSendStep
<1>3. ASSUME NEW c \in Conns, Client(c) \/ ResetArrives(c)
      PROVE  Inv'
  BY <1>3, SendLineStep, NoticesEndStep, ReadsStep, LeavingSteps DEF Client
<1>4. CASE Tick
  BY <1>4, TickStep
<1>5. QED
  BY <1>1, <1>2, <1>3, <1>4 DEF Next

\* The inductive invariant holds in every reachable state.
THEOREM ChatRoomInvariant == Spec => []Inv
<1>1. ASSUME Inv, UNCHANGED vars
      PROVE  Inv'
  <2>1. /\ UNCHANGED <<up, pc, todo, clients, owner, edge, backlog, link>>
        /\ UNCHANGED <<sentN, readN, heard, seen, dropped, inUse, made, typed>>
    BY <1>1 DEF vars, program, data
  <2>2. \A c : FdsOf(c)' = FdsOf(c) /\ HeardUnits(c)' = HeardUnits(c) /\ Unread(c)' = Unread(c)
    BY <2>1 DEF FdsOf, HeardUnits, Unread
  <2>3. Flat' /\ ArrayMatches' /\ Held' = Held
    BY <1>1, <2>1 DEF Inv, Flat, ArrayMatches, Held, FdsIn
  <2>4. Batched' /\ edge' \subseteq Held' /\ NewsNotLost'
    BY <1>1, <2>1, <2>2, <2>3 DEF Inv, Batched, NewsNotLost, FdsIn
  <2>5. Filed' /\ Streams'
    BY <1>1, <2>1, <2>2 DEF Inv, Filed, Streams
  <2>6. Heard'
    BY <1>1, <2>1, <2>2, HeardKept
  <2>7. QED
    BY <2>3, <2>4, <2>5, <2>6 DEF Inv
<1>2. QED
  BY <1>1, InitHolds, NextKeeps, PTL DEF Spec

\* The types of the variables (TypeOK).
THEOREM ChatTypeCorrect == Spec => []TypeOK
<1>1. ASSUME Inv
      PROVE  TypeOK
  <2>1. Flat /\ Streams /\ (pc = "recv" => todo # <<>>)
    BY <1>1 DEF Inv, Batched
  <2>2. \A i \in DOMAIN todo : todo[i] \in Events
    BY <2>1 DEF Flat
  <2>3. \A i \in DOMAIN clients : clients[i] \in Entries
    BY <2>1 DEF Flat
  <2>4. QED
    BY <2>1, <2>2, <2>3 DEF TypeOK, Flat, Streams, Events, Entries, Ends
<1>2. QED
  BY <1>1, ChatRoomInvariant, PTL

\* The client array, the open descriptors and the connections agree (ArrayMatches).
THEOREM ArrayCorrect == Spec => []ArrayMatches
<1>1. Inv => ArrayMatches
  BY DEF Inv
<1>2. QED
  BY <1>1, ChatRoomInvariant, PTL

\* An event is handled for the connection it was reported for (BatchFresh).
THEOREM ChatBatchCorrect == Spec => []BatchFresh
<1>1. Inv => BatchFresh
  BY DEF Inv, Batched, BatchFresh
<1>2. QED
  BY <1>1, ChatRoomInvariant, PTL

\* The reading of edge-triggered descriptors loses no wakeup (NewsNotLost).
THEOREM NewsCorrect == Spec => []NewsNotLost
<1>1. Inv => NewsNotLost
  BY DEF Inv
<1>2. QED
  BY <1>1, ChatRoomInvariant, PTL

\* Nobody hears himself, and the others in order and without a gap (HearsGapless).
THEOREM HearsCorrect == Spec => []HearsGapless
<1>1. ASSUME Inv
      PROVE  HearsGapless
  <2>1. ASSUME NEW c \in Conns, NEW i \in DOMAIN heard[c], NEW j \in DOMAIN heard[c]
        PROVE  /\ heard[c][i][1] # c
               /\ i < j /\ heard[c][i][1] = heard[c][j][1] =>
                    /\ heard[c][i][2] < heard[c][j][2]
                    /\ c \notin dropped =>
                         \A n \in heard[c][i][2] .. heard[c][j][2] : <<heard[c][i][1], n>> \in HeardUnits(c)
    <3>1. InOrder(c) /\ Gapless(c)
      BY <1>1 DEF Inv, Heard
    <3>2. heard[c][i] \in HeardUnits(c) /\ heard[c][j] \in HeardUnits(c)
      BY DEF HeardUnits, ToSet
    <3>3. heard[c][i][1] # c /\ (i < j /\ heard[c][i][1] = heard[c][j][1] => heard[c][i][2] < heard[c][j][2])
      BY <2>1, <3>1 DEF InOrder
    <3>4. c \notin dropped /\ heard[c][i][1] = heard[c][j][1] =>
            \A n \in heard[c][i][2] .. heard[c][j][2] : <<heard[c][i][1], n>> \in HeardUnits(c)
      BY <3>1, <3>2 DEF Gapless
    <3>5. QED
      BY <3>3, <3>4
  <2>2. QED
    BY <2>1 DEF HearsGapless
<1>2. QED
  BY <1>1, ChatRoomInvariant, PTL

\* The scan kicks exactly the clients that were idle too long (ScanExact).
THEOREM ScanCorrect == Spec => ScanExact
<1>1. ASSUME Inv, [Next]_vars, pc = "dispatch", pc' = "wait"
      PROVE  FdsIn(clients') = {clients[i].fd : i \in {j \in DOMAIN clients : clients[j].idle <= Timeout}}
  <2>1. CASE CheckTimeouts
    BY <1>1, <2>1, CheckTimeoutsStep
  <2>2. CASE UNCHANGED vars
    BY <1>1, <2>2 DEF vars, program
  <2>3. CASE Next /\ ~CheckTimeouts
    <3>1. Server => pc' # "wait" \/ pc' = pc
      BY <2>3 DEF Server, EpollWait, HandleError, HandleAccept, HandleReadable, RecvData, RecvEnd, RecvAgain
    <3>2. (\E n \in {0, 1} : ConnectAndSend(n)) \/ Tick => pc' = pc
      BY DEF ConnectAndSend, Tick, program
    <3>3. (\E c \in Conns : Client(c) \/ ResetArrives(c)) => pc' = pc
      BY DEF Client, SendLine, NoticesEnd, Reads, Exits, ResetArrives, program
    <3>4. QED
      BY <1>1, <2>3, <3>1, <3>2, <3>3 DEF Next
  <2>4. QED
    BY <1>1, <2>1, <2>2, <2>3
<1>2. QED
  BY <1>1, ChatRoomInvariant, PTL DEF Spec, ScanExact

-----------------------------------------------------------------------------
(***************************************************************************)
(* Why a connection is closed.                                             *)
(***************************************************************************)
\* Only a client that has left has another end than an open one.
Leavers == \A c \in Conns : c > made \/ c \in inUse => link[c] = "open"

\* An error that was reported is still one: the reset has come.
Errors == \A i \in DOMAIN todo : todo[i].hup => HasReset(todo[i].conn)

\* The step takes events from the batch, and no client moves.
LEMMA FewerErrors ==
  ASSUME Inv, Leavers, Errors, todo' = todo \/ (todo # <<>> /\ todo' = Tail(todo)), link' = link,
         made' = made, inUse' \subseteq inUse
  PROVE  Leavers' /\ Errors'
<1>1. Leavers'
  BY DEF Leavers
<1>2. \A i \in DOMAIN todo' : \E j \in DOMAIN todo : todo'[i] = todo[j]
  BY RestOfBatch
<1>3. QED
  BY <1>1, <1>2 DEF Errors, HasReset

LEMMA ServerErrors ==
  ASSUME Inv, Leavers, Errors, Server
  PROVE  Leavers' /\ Errors'
<1>1. CASE EpollWait
  <2>1. link' = link /\ made' = made /\ inUse' = inUse
    BY <1>1 DEF EpollWait
  <2>2. \A i \in DOMAIN todo' : todo'[i].hup => HasReset(todo'[i].conn)
    <3>1. PICK order : todo' = [k \in DOMAIN order |-> EventOf(order[k])]
      BY <1>1 DEF EpollWait
    <3>2. \A f : EventOf(f).hup => HasReset(EventOf(f).conn)
      BY DEF EventOf, HasHup, HasReset
    <3>3. QED
      BY <3>1, <3>2
  <2>3. QED
    BY <2>1, <2>2 DEF Leavers, Errors, HasReset
<1>2. CASE HandleError \/ HandleAccept \/ HandleReadable \/ CheckTimeouts
  BY <1>2, FewerErrors DEF HandleError, HandleAccept, HandleReadable, CheckTimeouts, Dispatching
<1>3. CASE RecvEnd \/ RecvAgain
  <2>1. todo # <<>>
    BY <1>3 DEF RecvEnd, RecvAgain, Receiving, Inv, Batched
  <2>2. QED
    BY <1>3, <2>1, FewerErrors DEF RecvEnd, RecvAgain
<1>4. CASE RecvData
  <2>1. /\ link' = [c \in Conns |-> IF c \in Reached THEN Poked(link[c]) ELSE link[c]]
        /\ todo' = todo /\ made' = made /\ inUse' = inUse
    BY <1>4 DEF RecvData
  <2>2. /\ \A c \in Conns : link[c] = "open" => link'[c] = "open"
        /\ \A c \in Conns : HasReset(c) => HasReset(c)'
    BY <2>1 DEF Poked, HasReset
  <2>3. \A i \in DOMAIN todo : todo[i].hup => todo[i].conn \in Conns
    <3>1. \A i \in DOMAIN todo : todo[i] \in Events
      BY DEF Inv, Flat
    <3>2. QED
      BY <3>1 DEF Inv, Batched, Events
  <2>4. QED
    BY <2>1, <2>2, <2>3 DEF Leavers, Errors
<1>5. QED
  BY <1>1, <1>2, <1>3, <1>4 DEF Server

LEMMA OutsideErrors ==
  ASSUME Inv, Leavers, Errors, Next, ~Server
  PROVE  Leavers' /\ Errors'
<1>1. /\ made \in Nat /\ inUse \subseteq 1 .. made /\ link \in [Conns -> Ends] /\ Conns \subseteq Nat
      /\ \A i \in DOMAIN todo : todo[i] \in Events
  BY ChatRoomAssumption DEF Inv, Flat, Conns
<1>2. ASSUME NEW n \in {0, 1}, ConnectAndSend(n)
      PROVE  Leavers' /\ Errors'
  <2>1. /\ made' = made + 1 /\ inUse' = inUse \cup {made + 1} /\ link' = link /\ todo' = todo
    BY <1>2 DEF ConnectAndSend, program
  <2>2. \A c \in Conns : c > made' \/ c \in inUse' => c > made \/ c \in inUse
    BY <1>1, <2>1
  <2>3. QED
    BY <2>1, <2>2 DEF Leavers, Errors, HasReset
<1>3. ASSUME NEW c \in Conns, SendLine(c) \/ NoticesEnd(c) \/ Reads(c)
      PROVE  Leavers' /\ Errors'
  BY <1>3, FewerErrors DEF SendLine, NoticesEnd, Reads, program
<1>4. ASSUME NEW c \in Conns, Exits(c) \/ ResetArrives(c)
      PROVE  Leavers' /\ Errors'
  <2>1. /\ todo' = todo /\ made' = made /\ inUse' \subseteq inUse
        /\ \A d \in Conns \ {c} : link'[d] = link[d]
    BY <1>1, <1>4 DEF Exits, ResetArrives, program
  <2>2. c <= made /\ c \notin inUse'
    <3>1. CASE Exits(c)
      BY <1>1, <3>1 DEF Exits
    <3>2. CASE ResetArrives(c)
      BY <1>1, <2>1, <3>2 DEF ResetArrives, Leavers
    <3>3. QED
      BY <1>4, <3>1, <3>2
  <2>3. HasReset(c) => HasReset(c)'
    BY <1>4 DEF Exits, ResetArrives, HasReset, Leavers
  <2>4. Leavers'
    BY <1>1, <2>1, <2>2 DEF Leavers
  <2>5. \A d : HasReset(d) /\ d \in Conns => HasReset(d)'
    BY <2>1, <2>3 DEF HasReset
  <2>6. \A i \in DOMAIN todo : todo[i].hup => todo[i].conn \in Conns
    BY <1>1 DEF Inv, Batched, Events
  <2>7. QED
    BY <2>1, <2>4, <2>5, <2>6 DEF Errors
<1>5. CASE Tick
  BY <1>5, FewerErrors DEF Tick
<1>6. QED
  BY <1>2, <1>3, <1>4, <1>5 DEF Next, Client

\* No more clients are open than before, unless one is accepted or kicked.
LEMMA NothingCloses ==
  ASSUME Inv, NEW c \in Conns, ~Closed(c), Closed(c)', up, up', owner' = owner,
         \/ UNCHANGED <<backlog, made>>
         \/ backlog' = Append(backlog, made + 1) /\ made' = made + 1
  PROVE  FALSE
<1>1. c <= made' /\ FdsOf(c)' = {} /\ FdsOf(c)' = FdsOf(c) /\ ~Waiting(c)'
  BY DEF Closed, FdsOf
<1>2. made \in Nat /\ c \in Nat /\ backlog \in Seq(Conns)
  BY ChatRoomAssumption DEF Inv, Flat, Conns
<1>3. CASE UNCHANGED <<backlog, made>>
  BY <1>1, <1>3 DEF Closed, Waiting
<1>4. CASE backlog' = Append(backlog, made + 1) /\ made' = made + 1
  <2>1. c = made + 1 \/ Waiting(c) => Waiting(c)'
    BY <1>2, <1>4 DEF Waiting, ToSet
  <2>2. c <= made
    BY <1>1, <1>2, <1>4, <2>1
  <2>3. QED
    BY <1>1, <2>1, <2>2 DEF Closed
<1>5. QED
  BY <1>3, <1>4

\* The connection that is closed had a descriptor, and loses it.
LEMMA LosesDescriptor ==
  ASSUME NEW c \in Conns, ~Closed(c), Closed(c)', up, up', UNCHANGED <<backlog, made>>
  PROVE  \E f \in Fds : owner[f] = c /\ owner'[f] # c
  BY DEF Closed, FdsOf, Waiting

\* remove_client closes no other descriptor.
LEMMA RemovesOne ==
  ASSUME Inv, NEW fd \in Fds, RemoveClient(fd), NEW f \in Fds, owner'[f] # owner[f]
  PROVE  f = fd
  BY DEF RemoveClient, Inv, Flat

MayClose(c) ==
  \/ HasReset(c)
  \/ Waiting(c) /\ Len(clients) = MaxClients
  \/ \E i \in DOMAIN clients : owner[clients[i].fd] = c /\ clients[i].idle > Timeout

LEMMA ClosesOnlyThen ==
  ASSUME Inv, Errors, Next, NEW c \in Conns, ~Closed(c), Closed(c)', up', Unread(c) > 0
  PROVE  MayClose(c)
<1>1. up
  BY DEF Next, Server, EpollWait, HandleError, HandleAccept, HandleReadable, RecvData, RecvEnd, RecvAgain,
         CheckTimeouts, Dispatching, Receiving, ConnectAndSend, Client, SendLine, NoticesEnd, Reads, Exits,
         ResetArrives, Tick, program
<1>2. CASE EpollWait \/ HandleReadable \/ RecvData \/ RecvAgain \/ Tick
  BY <1>1, <1>2, NothingCloses DEF EpollWait, HandleReadable, RecvData, RecvAgain, Tick
<1>3. ASSUME NEW n \in {0, 1}, ConnectAndSend(n)
      PROVE  MayClose(c)
  BY <1>1, <1>3, NothingCloses DEF ConnectAndSend, program
<1>4. ASSUME NEW d \in Conns, Client(d) \/ ResetArrives(d)
      PROVE  MayClose(c)
  BY <1>1, <1>4, NothingCloses DEF Client, SendLine, NoticesEnd, Reads, Exits, ResetArrives, program
<1>5. CASE HandleError
  <2>1. /\ todo # <<>> /\ Head(todo).hup /\ RemoveClient(Head(todo).fd) /\ UNCHANGED <<backlog, made>>
    BY <1>5 DEF HandleError, Dispatching
  <2>2. /\ 1 \in DOMAIN todo /\ Head(todo) = todo[1] /\ todo[1].fd # Listen
    BY <2>1, RestOfBatch DEF Inv, Batched
  <2>3. todo[1].fd \in Fds /\ owner[todo[1].fd] = todo[1].conn
    BY <2>2, EventHeld DEF Inv, Batched, Held
  <2>4. PICK f \in Fds : owner[f] = c /\ owner'[f] # c
    BY <1>1, <2>1, LosesDescriptor
  <2>5. f = todo[1].fd
    BY <2>1, <2>2, <2>3, <2>4, RemovesOne
  <2>6. HasReset(todo[1].conn)
    BY <2>1, <2>2 DEF Errors
  <2>7. QED
    BY <2>3, <2>4, <2>5, <2>6 DEF MayClose
<1>6. CASE RecvEnd
  <2>1. /\ pc = "recv" /\ Unread(owner[Head(todo).fd]) = 0 /\ RemoveClient(Head(todo).fd)
        /\ UNCHANGED <<backlog, made>>
    BY <1>6 DEF RecvEnd, Receiving, Fd, Speaker
  <2>2. /\ todo # <<>> /\ Head(todo).fd # Listen
    BY <2>1 DEF Inv, Batched
  <2>3. Head(todo).fd \in Fds
    BY <2>2, RestOfBatch, EventHeld DEF Held
  <2>4. PICK f \in Fds : owner[f] = c /\ owner'[f] # c
    BY <1>1, <2>1, LosesDescriptor
  <2>5. f = Head(todo).fd
    BY <2>1, <2>3, <2>4, RemovesOne
  <2>6. QED
    BY <2>1, <2>4, <2>5
<1>7. CASE HandleAccept
  <2>1. /\ todo # <<>> /\ Head(todo).fd = Listen /\ backlog' = Tail(backlog) /\ made' = made
    BY <1>7 DEF HandleAccept, Dispatching
  <2>2. PICK h \in Conns : h = Head(backlog) /\ h \in Range(backlog) /\ Range(Tail(backlog)) = Range(backlog) \ {h}
    BY <2>1, AcceptEvent
  <2>3. /\ Len(clients) <= MaxClients /\ Len(clients) \in Nat /\ MaxClients \in Nat
        /\ owner \in [Fds -> Conns \cup {None}] /\ None \notin Conns
    BY ChatRoomAssumption, LenProperties DEF Inv, Flat, ArrayMatches, None, Conns
  <2>4. CASE Len(clients) < MaxClients
    <3>1. PICK fd \in Fds \ Held : owner' = [owner EXCEPT ![fd] = h]
      BY <2>2, <2>4, <1>7, FreeDescriptor DEF HandleAccept
    <3>2. FdsOf(c) = {}
      BY <2>3, <3>1 DEF Closed, FdsOf, Held
    <3>3. Waiting(c) /\ ~Waiting(c)' /\ FdsOf(c)' = {}
      BY <1>1, <2>1, <3>2 DEF Closed
    <3>4. c = h
      BY <2>1, <2>2, <3>3 DEF Waiting, ToSet, Range
    <3>5. QED
      BY <2>3, <3>1, <3>3, <3>4 DEF FdsOf
  <2>5. CASE ~ (Len(clients) < MaxClients)
    <3>1. owner' = owner
      BY <1>7, <2>5 DEF HandleAccept
    <3>2. Waiting(c)
      BY <1>1, <2>1, <3>1 DEF Closed, FdsOf
    <3>3. QED
      BY <2>3, <2>5, <3>2 DEF MayClose
  <2>6. QED
    BY <2>4, <2>5
<1>8. CASE CheckTimeouts
  <2>1. /\ UNCHANGED <<backlog, made>>
        /\ owner' = [f \in Fds |-> IF f \in FdsIn(clients) \ FdsIn(clients') THEN None ELSE owner[f]]
    BY <1>8 DEF CheckTimeouts
  <2>2. PICK f \in Fds : owner[f] = c /\ owner'[f] # c
    BY <1>1, <2>1, LosesDescriptor
  <2>3. f \in FdsIn(clients) /\ f \notin FdsIn(clients')
    BY <2>1, <2>2
  <2>4. PICK i \in DOMAIN clients : clients[i].fd = f
    BY <2>3 DEF FdsIn
  <2>5. ~ (clients[i].idle <= Timeout)
    BY <1>8, <2>3, <2>4, CheckTimeoutsStep
  <2>6. clients[i].idle \in Nat /\ Timeout \in Nat
    <3>1. clients[i] \in Entries
      BY DEF Inv, Flat
    <3>2. QED
      BY <3>1, ChatRoomAssumption DEF Entries
  <2>7. QED
    BY <2>2, <2>4, <2>5, <2>6 DEF MayClose
<1>9. QED
  BY <1>2, <1>3, <1>4, <1>5, <1>6, <1>7, <1>8 DEF Next, Server

\* The server closes a connection with text of the client unread only on a reset, for
\* want of room, or after too long a silence (ReadBeforeClosed).
THEOREM ClosedCorrect == Spec => ReadBeforeClosed
<1>1. Init => Leavers /\ Errors
  BY DEF Init, Leavers, Errors
<1>2. ASSUME Inv, Leavers /\ Errors, [Next]_vars
      PROVE  (Leavers /\ Errors)'
  <2>1. CASE Next
    BY <1>2, <2>1, ServerErrors, OutsideErrors
  <2>2. CASE UNCHANGED vars
    BY <1>2, <2>2 DEF vars, program, Leavers, Errors, HasReset
  <2>3. QED
    BY <1>2, <2>1, <2>2
<1>3. ASSUME Inv, Leavers /\ Errors, [Next]_vars
      PROVE  \A c \in Conns : ~Closed(c) /\ Closed(c)' /\ up' /\ Unread(c) > 0 =>
               \/ HasReset(c)
               \/ Waiting(c) /\ Len(clients) = MaxClients
               \/ \E i \in DOMAIN clients : owner[clients[i].fd] = c /\ clients[i].idle > Timeout
  <2>1. CASE Next
    BY <1>3, <2>1, ClosesOnlyThen DEF MayClose
  <2>2. CASE UNCHANGED vars
    BY <2>2 DEF vars, program, Closed, FdsOf, Waiting
  <2>3. QED
    BY <1>3, <2>1, <2>2
<1>4. QED
  BY <1>1, <1>2, <1>3, ChatRoomInvariant, PTL DEF Spec, ReadBeforeClosed
=============================================================================
