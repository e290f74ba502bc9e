-------------------------- MODULE RequestReplyProofs --------------------------
(***************************************************************************)
(* Proofs about RequestReply, for any set of clients, of which any may be  *)
(* killed, and any number of failing calls: the four small servers give    *)
(* whole answers (WholeAnswers) and only the failures that Survives names  *)
(* end them.  The inductive invariant says how the two ends of a           *)
(* connection agree, which connections a server has accepted and which one *)
(* it is busy with, what is still in a socket, and how far the answer of   *)
(* the current connection has come.                                        *)
(***************************************************************************)
EXTENDS RequestReply, SequenceLemmas

Programs == {"tcp", "v1", "v1.2", "epoll"}
Links == {"new", "open", "fin", "poked", "pipe", "rst", "gone"}

\* The variables that are not functions, and the domains of those that are.
Flat ==
  /\ program \in Programs
  /\ fate \in {"down", "up"} \cup Failures
  /\ current \in Clients \cup {NoClient} /\ message \in Clients \cup {NoClient}
  /\ todo \subseteq Clients \cup {NoClient}
  /\ faults \in 0 .. MaxFaults
  /\ backlog \in Seq(Clients)
  /\ conn \in [Clients -> {"none", "open", "closed"}]
  /\ link \in [Clients -> Links]
  /\ client \in [Clients -> {"new", "refused", "on", "done", "quit"}]
  /\ inbox \in [Clients -> Seq(Clients \cup {Prefix})]
  /\ heard \in [Clients -> Seq({Prefix, "welcome"} \cup Clients)]
  /\ seen \in [Clients -> Nat] /\ wrote \in [Clients -> Nat]

(***************************************************************************)
(* What holds of each client.                                              *)
(***************************************************************************)
\* What has been sent can be read, and no more than the request is sent.
Counted(c) == /\ seen[c] <= Len(heard[c]) /\ wrote[c] <= Len(Request(c))
              /\ inbox[c] \in Seq({Prefix, c})

\* The server's kernel and the client program.
Sides(c) ==
  /\ link[c] = "new" <=> client[c] \in {"new", "refused"}
  /\ link[c] = "open" <=> client[c] = "on"
  /\ link[c] = "new" => wrote[c] = 0 /\ conn[c] = "none"
  /\ fate = "down" => link[c] = "new"

\* A socket holds all that the client has sent or, when it has been received, nothing.
Sent(c) == SubSeq(Request(c), 1, wrote[c])

Pieces(c) ==
  /\ inbox[c] \in {<<>>, Sent(c)}
  /\ link[c] \in {"new", "open"} /\ wrote[c] < Len(Request(c)) => inbox[c] = Sent(c)
  /\ conn[c] = "none" => inbox[c] = Sent(c)

\* The client has been sent nothing, so its exit is no reset.
Fresh(c) == heard[c] = <<>> /\ link[c] \in {"new", "open", "fin"}

\* How much of its answer a client has, and when it has all.
Answered(c) ==
  /\ heard[c] \in {<<>>, Answer(c)} \cup (IF program = "v1.2" THEN {<<Prefix>>} ELSE {})
  /\ conn[c] = "none" => Fresh(c)
  /\ conn[c] = "closed" /\ link[c] = "open" => heard[c] = Answer(c)
  /\ program = "epoll" => (inbox[c] # <<>> \/ wrote[c] = 0 => Fresh(c))
  /\ program = "tcp" => (wrote[c] = 1 => seen[c] = 1)
  /\ client[c] = "done" => seen[c] = Len(Answer(c)) \/ fate \in Failures

ClientInv(c) == Counted(c) /\ Sides(c) /\ Pieces(c) /\ Answered(c)

(***************************************************************************)
(* What holds of the server.                                               *)
(***************************************************************************)
Busy == at \notin {"accept", "wait"}

\* A sequential server has one connection open, the current one.
Accepting ==
  /\ IsInjective(backlog)
  /\ \A c \in Range(backlog) : conn[c] = "none" /\ link[c] # "new"
  /\ program = "tcp" => at \in {"accept", "greet", "receive"}
  /\ program = "v1" => at \in {"accept", "receive", "reply"}
  /\ program = "v1.2" => at \in {"accept", "receive", "prefix", "body"}
  /\ program = "epoll" => at = "wait"
  /\ Busy => current \in Clients /\ conn[current] = "open"
  /\ \A c \in Clients : conn[c] = "open" /\ program # "epoll" => Busy /\ c = current
  /\ \A c \in todo \ {NoClient} : program = "epoll" /\ conn[c] = "open"

\* How far the answer to the current client has come.
Answering ==
  /\ at \in {"greet", "reply", "prefix"} => Fresh(current)
  /\ at = "receive" /\ program # "tcp" => Fresh(current) /\ inbox[current] = Sent(current)
  /\ at = "receive" /\ program = "tcp" => (link[current] = "open" => heard[current] = Answer(current))
  /\ at = "reply" => message = current
  /\ at = "prefix" => \/ message = current /\ wrote[current] = 2
                      \/ message = NoClient /\ link[current] # "open"
  /\ at = "body" => /\ message = current /\ wrote[current] = 2
                    /\ heard[current] \in {<<>>, <<Prefix>>}
                    /\ link[current] = "open" => heard[current] = <<Prefix>>

ServerInv == Accepting /\ Answering /\ Survives

Inv == Flat /\ ServerInv /\ \A c \in Clients : ClientInv(c)
-----------------------------------------------------------------------------
(***************************************************************************)
(* The steps, named once for the proofs that go through them.              *)
(***************************************************************************)
SettingUp == SetUp("tcp", "exited") \/ SetUp("v1", "elsewhere") \/ SetUp("v1.2", "elsewhere")
             \/ SetUp("epoll", "exited")

Asking(c) == client[c] = "on" /\ Asks(c) /\ (program = "tcp" => seen[c] = 1)
Reading(c) == client[c] = "on" /\ Reads(c)
Quitting(c) == client[c] = "on" /\ Leaves(c, "quit")

\* The client program is through with its work, or the server does not answer.
Through(c) == /\ seen[c] = Len(Answer(c)) \/ (program = "tcp" /\ wrote[c] = 1) \/ EndOfStream(c)
              /\ client[c] = "on" /\ Leaves(c, "done")

ClientStep(c) ==
  Connect(c) \/ ConnectFails(c) \/ Asking(c) \/ Reading(c) \/ Quitting(c) \/ Through(c) \/ ResetArrives(c)

LEMMA RequestValues ==
  ASSUME program \in Programs, NEW c \in Clients
  PROVE  /\ Request(c) \in Seq(Clients \cup {Prefix})
         /\ program = "v1.2" =>
              /\ Len(Request(c)) = 2 /\ Len(Answer(c)) = 2 /\ Answer(c) = <<Prefix, c>>
              /\ Request(c)[1] = Prefix /\ Request(c)[2] = c /\ Request(c) = <<Prefix, c>>
         /\ program # "v1.2" =>
              /\ Len(Request(c)) = 1 /\ Len(Answer(c)) = 1 /\ Request(c)[1] = c /\ Request(c) = <<c>>
              /\ Answer(c) = IF program = "tcp" THEN <<"welcome">> ELSE <<c>>
<1>1. CASE program = "v1.2"
  <2>1. Request(c) = <<Prefix, c>> /\ Answer(c) = <<Prefix, c>>
    BY <1>1 DEF Request, Answer
  <2>2. QED
    BY <1>1, <2>1
<1>2. CASE program # "v1.2"
  <2>1. Request(c) = <<c>> /\ Answer(c) = IF program = "tcp" THEN <<"welcome">> ELSE <<c>>
    BY <1>2 DEF Request, Answer
  <2>2. QED
    BY <1>2, <2>1
<1>3. QED
  BY <1>1, <1>2

LEMMA Parts ==
  ASSUME NEW S, NEW s \in Seq(S)
  PROVE  /\ SubSeq(s, 1, 0) = <<>> /\ SubSeq(s, 1, Len(s)) = s
         /\ s # <<>> => SubSeq(s, 1, 1) = <<s[1]>>
<1>1. SubSeq(s, 1, 0) = <<>> /\ SubSeq(s, 1, Len(s)) = s
  BY SubSeqEmpty, SubSeqFull
<1>2. ASSUME s # <<>>
      PROVE  SubSeq(s, 1, 1) = <<s[1]>>
  <2>1. Len(s) \in Nat \ {0} /\ s[1] \in S
    BY <1>2, EmptySeq, LenProperties
  <2>2. SubSeq(s, 1, 1) = <<s[1]>> \o SubSeq(s, 1 + 1, 1) /\ SubSeq(s, 1 + 1, 1) = <<>>
    BY <2>1, SubSeqRecursiveFirst, SubSeqEmpty
  <2>3. <<s[1]>> \o <<>> = <<s[1]>>
    <3>1. <<s[1]>> \in Seq(S)
      BY <2>1
    <3>2. QED
      BY ONLY <3>1, ConcatEmptySeq
  <2>4. QED
    BY ONLY <2>2, <2>3, Zenon
<1>3. QED
  BY <1>1, <1>2

LEMMA AppendTwo ==
  ASSUME NEW a, NEW b
  PROVE  Append(<<a>>, b) = <<a, b>>
<1>1. <<a>> \in Seq({a, b}) /\ <<a, b>> \in Seq({a, b}) /\ Len(<<a>>) = 1 /\ <<a>>[1] = a
  OBVIOUS
<1>2. Append(<<a>>, b) \in Seq({a, b}) /\ Len(Append(<<a>>, b)) = 2
  BY <1>1, AppendProperties
<1>3. Append(<<a>>, b)[1] = a /\ Append(<<a>>, b)[2] = b
  BY <1>1, AppendProperties
<1>4. Len(<<a, b>>) = 2 /\ <<a, b>>[1] = a /\ <<a, b>>[2] = b
  OBVIOUS
<1>5. \A i \in 1 .. Len(Append(<<a>>, b)) : Append(<<a>>, b)[i] = <<a, b>>[i]
  <2>1. \A i \in 1 .. 2 : i = 1 \/ i = 2
    OBVIOUS
  <2>2. QED
    BY <1>2, <1>3, <1>4, <2>1
<1>6. QED
  BY <1>1, <1>2, <1>4, <1>5, SeqEqual

LEMMA SentValues ==
  ASSUME program \in Programs, NEW c \in Clients
  PROVE  /\ wrote[c] = 0 => Sent(c) = <<>>
         /\ wrote[c] = 1 => Sent(c) = IF program = "v1.2" THEN <<Prefix>> ELSE <<c>>
         /\ wrote[c] = 2 /\ program = "v1.2" => Sent(c) = <<Prefix, c>>
<1>1. /\ SubSeq(Request(c), 1, 0) = <<>> /\ SubSeq(Request(c), 1, Len(Request(c))) = Request(c)
      /\ Request(c) # <<>> => SubSeq(Request(c), 1, 1) = <<Request(c)[1]>>
  BY RequestValues, Parts
<1>2. Request(c) # <<>>
  BY RequestValues
<1>3. QED
  BY <1>1, <1>2, RequestValues DEF Sent

\* What has been sent when a client that has not sent its request goes on.
LEMMA AskingStep ==
  ASSUME Flat, program' = program, NEW c \in Clients, Asking(c)
  PROVE  /\ wrote[c] < Len(Request(c)) /\ wrote[c] \in {0, 1} /\ (wrote[c] = 1 => program = "v1.2")
         /\ wrote' = [wrote EXCEPT ![c] = wrote[c] + 1]
         /\ inbox' = [inbox EXCEPT ![c] = Append(inbox[c], Request(c)[wrote[c] + 1])]
         /\ Request(c)[wrote[c] + 1] \in {Prefix, c}
         /\ inbox[c] = Sent(c) => inbox'[c] = Sent(c)'
<1>0. program \in Programs /\ wrote[c] \in Nat /\ wrote \in [Clients -> Nat]
      /\ inbox \in [Clients -> Seq(Clients \cup {Prefix})]
  BY DEF Flat, Programs
<1>1. /\ wrote[c] < Len(Request(c)) /\ wrote[c] \in {0, 1} /\ (wrote[c] = 1 => program = "v1.2")
      /\ Request(c)[wrote[c] + 1] \in {Prefix, c}
  <2>1. wrote[c] < Len(Request(c)) /\ Len(Request(c)) = IF program = "v1.2" THEN 2 ELSE 1
    BY <1>0, RequestValues DEF Asking, Asks
  <2>2. wrote[c] \in {0, 1} /\ (wrote[c] = 1 => program = "v1.2")
    BY ONLY <1>0, <2>1
  <2>3. wrote[c] + 1 = IF wrote[c] = 0 THEN 1 ELSE 2
    BY <2>2
  <2>4. /\ program = "v1.2" => Request(c)[1] = Prefix /\ Request(c)[2] = c
        /\ program # "v1.2" => Request(c)[1] = c
    BY <1>0, RequestValues
  <2>5. Request(c)[wrote[c] + 1] \in {Prefix, c}
    BY <2>2, <2>3, <2>4
  <2>6. QED
    BY <2>1, <2>2, <2>5
<1>2. /\ wrote' = [wrote EXCEPT ![c] = wrote[c] + 1] /\ wrote'[c] = wrote[c] + 1
      /\ Request(c)' = Request(c)
  BY <1>0 DEF Asking, Asks, Request
<1>3. inbox' = [inbox EXCEPT ![c] = Append(inbox[c], Request(c)[wrote[c] + 1])]
  BY <1>2 DEF Asking, Asks
<1>4. ASSUME inbox[c] = Sent(c)
      PROVE  inbox'[c] = Sent(c)'
  <2>1. Sent(c)' = SubSeq(Request(c), 1, wrote[c] + 1)
    BY <1>2 DEF Sent
  <2>2. inbox'[c] = Append(Sent(c), Request(c)[wrote[c] + 1])
    BY <1>0, <1>3, <1>4
  <2>3. /\ SubSeq(Request(c), 1, Len(Request(c))) = Request(c)
        /\ Request(c) # <<>> => SubSeq(Request(c), 1, 1) = <<Request(c)[1]>>
    BY <1>0, RequestValues, Parts
  <2>4. CASE program = "v1.2"
    <3>1. /\ Request(c) = <<Prefix, c>> /\ Len(Request(c)) = 2 /\ Request(c) # <<>>
          /\ Request(c)[1] = Prefix /\ Request(c)[2] = c
      BY <1>0, <2>4, RequestValues
    <3>2. CASE wrote[c] = 0
      <4>1. wrote[c] + 1 = 1 /\ Sent(c) = <<>>
        BY <1>0, <3>2, SentValues
      <4>2. Sent(c)' = <<Prefix>> /\ inbox'[c] = Append(<<>>, Prefix)
        BY ONLY <2>1, <2>2, <2>3, <3>1, <4>1, Zenon
      <4>3. QED
        BY <4>2
    <3>3. CASE wrote[c] = 1
      <4>1. wrote[c] + 1 = 2 /\ Sent(c) = <<Prefix>>
        BY <1>0, <2>4, <3>3, SentValues
      <4>2. Sent(c)' = <<Prefix, c>> /\ inbox'[c] = Append(<<Prefix>>, c)
        BY ONLY <2>1, <2>2, <2>3, <3>1, <4>1, Zenon
      <4>3. Append(<<Prefix>>, c) = <<Prefix, c>>
        BY AppendTwo
      <4>4. QED
        BY <4>2, <4>3
    <3>4. QED
      BY <1>1, <3>2, <3>3
  <2>5. CASE program # "v1.2"
    <3>1. Request(c) = <<c>> /\ Len(Request(c)) = 1 /\ Request(c)[1] = c
      BY <1>0, <2>5, RequestValues
    <3>2. wrote[c] + 1 = 1 /\ Sent(c) = <<>>
      BY <1>0, <1>1, <2>5, SentValues
    <3>3. Sent(c)' = <<c>> /\ inbox'[c] = Append(<<>>, c)
      BY ONLY <2>1, <2>2, <2>3, <3>1, <3>2, Zenon
    <3>4. QED
      BY <3>3
  <2>6. QED
    BY <2>4, <2>5
<1>5. QED
  BY <1>1, <1>2, <1>3, <1>4

LEMMA Steps ==
  ASSUME Flat, Next
  PROVE  /\ program' = program
         /\ \/ SettingUp
            \/ program = "tcp" /\ fate = "up" /\ (TcpAccept \/ TcpAcceptFails \/ TcpGreet \/ TcpReceive)
            \/ /\ program = "v1" /\ fate = "up"
               /\ LineAccept \/ LineAcceptFails \/ LineReceive \/ LineEnds \/ LineReply
            \/ /\ program = "v1.2" /\ fate = "up"
               /\ PrefixAccept \/ PrefixAcceptFails \/ PrefixReceive \/ PrefixReply \/ BodyReply
            \/ program = "epoll" /\ fate = "up" /\ (EpollReturn \/ EpollAccept \/ EpollAcceptFails)
            \/ program = "epoll" /\ fate = "up" /\ \E c \in Clients : EpollEcho(c)
            \/ program = "epoll" /\ fate = "up" /\ \E c \in Clients : EpollEnd(c)
            \/ \E c \in Clients : ClientStep(c)
<1>1. CASE TcpSetUp \/ LineSetUp \/ PrefixSetUp \/ EpollSetUp
  BY <1>1 DEF TcpSetUp, LineSetUp, PrefixSetUp, EpollSetUp, SettingUp, SetUp
<1>2. CASE TcpServer
  BY <1>2 DEF TcpServer, Is, TcpAccept, TcpAcceptFails, TcpGreet, TcpReceive, Accept, AcceptFails
<1>3. CASE LineServer
  BY <1>3 DEF LineServer, Is, LineAccept, LineAcceptFails, LineReceive, LineEnds, LineReply,
              Accept, AcceptFails
<1>4. CASE PrefixServer
  BY <1>4 DEF PrefixServer, Is, PrefixAccept, PrefixAcceptFails, PrefixReceive, PrefixReply,
              BodyReply, Accept, AcceptFails
<1>5. CASE EpollServer
  BY <1>5 DEF EpollServer, Is, EpollReturn, EpollAccept, EpollAcceptFails, EpollEcho, EpollEnd,
              Accept, AcceptFails
<1>6. ASSUME NEW c \in Clients, ClientProgram(c)
      PROVE  program' = program /\ ClientStep(c)
  <2>1. program \in Programs
    BY DEF Flat, Programs
  <2>2. Reads(c) \/ Asks(c) \/ Leaves(c, "done")
    BY <1>6 DEF ClientProgram, TcpClient, EpollClient, PrefixClient, LineClient
  <2>3. program' = program
    BY <2>2 DEF Reads, Asks, Leaves
  <2>4. CASE program = "tcp"
    BY <1>6, <2>3, <2>4 DEF ClientProgram, TcpClient, ClientStep, Asking, Reading, Through
  <2>5. CASE program = "epoll"
    BY <1>6, <2>1, <2>3, <2>5, RequestValues DEF ClientProgram, EpollClient, ClientStep, Asking, Reading, Through
  <2>6. CASE program = "v1.2"
    BY <1>6, <2>1, <2>3, <2>6, RequestValues DEF ClientProgram, PrefixClient, ClientStep, Asking, Reading, Through
  <2>7. CASE program = "v1"
    BY <1>6, <2>3, <2>7 DEF ClientProgram, LineClient, ClientStep, Reading, Through
  <2>8. QED
    BY <2>1, <2>3, <2>4, <2>5, <2>6, <2>7 DEF Programs
<1>7. ASSUME NEW c \in Clients, User(c)
      PROVE  program' = program /\ ClientStep(c)
  <2>1. Connect(c) \/ ConnectFails(c) \/ Asking(c) \/ Quitting(c)
    BY <1>7 DEF User, Asking, Quitting
  <2>2. program' = program
    BY <2>1 DEF Connect, ConnectFails, Asking, Asks, Quitting, Leaves
  <2>3. QED
    BY <2>1, <2>2 DEF ClientStep
<1>8. ASSUME NEW c \in Clients, ResetArrives(c)
      PROVE  program' = program /\ ClientStep(c)
  BY <1>8 DEF ResetArrives, ClientStep
<1>9. QED
  BY ONLY <1>1, <1>2, <1>3, <1>4, <1>5, <1>6, <1>7, <1>8, Next DEF Next, Server,
     TcpServer, LineServer, PrefixServer, EpollServer, Is, TcpSetUp, LineSetUp, PrefixSetUp,
     EpollSetUp, SettingUp

-----------------------------------------------------------------------------
(***************************************************************************)
(* What a step has to do for the invariant.  It disturbs at most one       *)
(* client.                                                                 *)
(***************************************************************************)
Untouched(c) ==
  /\ conn'[c] = conn[c] /\ link'[c] = link[c] /\ client'[c] = client[c]
  /\ inbox'[c] = inbox[c] /\ heard'[c] = heard[c] /\ seen'[c] = seen[c] /\ wrote'[c] = wrote[c]

\* The server does not go back, nor recover.
Onward ==
  /\ program' = program
  /\ fate' = "down" => fate = "down"
  /\ fate \in Failures => fate' \in Failures

LEMMA SameRequest ==
  ASSUME program' = program
  PROVE  \A c : Request(c)' = Request(c) /\ Answer(c)' = Answer(c)
  BY DEF Request, Answer

LEMMA UntouchedKept ==
  ASSUME Onward, NEW c, Untouched(c), ClientInv(c)
  PROVE  ClientInv(c)'
<1>1. /\ Request(c)' = Request(c) /\ Answer(c)' = Answer(c) /\ Sent(c)' = Sent(c)
      /\ Fresh(c)' = Fresh(c) /\ program' = program
  BY SameRequest DEF Onward, Untouched, Sent, Fresh
<1>2. Counted(c)' /\ Sides(c)'
  BY <1>1 DEF Onward, Untouched, ClientInv, Counted, Sides
<1>3. Pieces(c)'
  BY <1>1 DEF Onward, Untouched, ClientInv, Pieces
<1>4. Answered(c)'
  BY <1>1 DEF Onward, Untouched, ClientInv, Answered
<1>5. QED
  BY <1>2, <1>3, <1>4 DEF ClientInv

LEMMA OneClient ==
  ASSUME Inv, Onward, Flat', ServerInv',
         NEW c, ClientInv(c)', \A d \in Clients \ {c} : Untouched(d)
  PROVE  Inv'
  BY UntouchedKept DEF Inv

LEMMA NoClients ==
  ASSUME Inv, Onward, Flat', ServerInv', \A d \in Clients : Untouched(d)
  PROVE  Inv'
  BY UntouchedKept DEF Inv

LEMMA SurvivesKept ==
  ASSUME Inv, program' = program, fate' = fate, faults' = faults \/ (faults' \in Nat /\ faults <= faults'),
         \A c \in Clients : client[c] = "quit" => client'[c] = "quit" /\ wrote'[c] = wrote[c]
  PROVE  Survives'
<1>1. faults \in Nat /\ Survives
  BY RequestReplyAssumption DEF Inv, Flat, ServerInv
<1>2. faults > 0 => faults' > 0
  BY <1>1
<1>3. QED
  BY <1>1, <1>2 DEF Survives

\* What a send does to the ends of the connection.
LEMMA SendStep ==
  ASSUME Flat, NEW c \in Clients, NEW piece, Send(c, piece)
  PROVE  /\ link' \in [Clients -> Links]
         /\ link'[c] = "open" <=> link[c] = "open"
         /\ link'[c] = "new" <=> link[c] = "new"
         /\ \A d \in Clients \ {c} : link'[d] = link[d] /\ heard'[d] = heard[d]
         /\ link[c] = "open" => heard' = [heard EXCEPT ![c] = Append(heard[c], piece)]
         /\ link[c] = "open" => heard'[c] = Append(heard[c], piece)
         /\ link[c] # "open" => heard' = heard
         /\ link[c] \in {"pipe", "gone"} => fate' = "killed"
         /\ link[c] \notin {"pipe", "gone"} => fate' = fate
<1>1. link \in [Clients -> Links] /\ heard \in [Clients -> Seq({Prefix, "welcome"} \cup Clients)]
  BY DEF Flat
<1>2. link' = [link EXCEPT ![c] = CASE @ = "fin" -> "poked" [] @ = "rst" -> "gone" [] OTHER -> @]
  BY DEF Send
<1>3. /\ link'[c] = CASE link[c] = "fin" -> "poked" [] link[c] = "rst" -> "gone" [] OTHER -> link[c]
      /\ \A d \in Clients \ {c} : link'[d] = link[d]
  BY <1>1, <1>2
<1>4. link' \in [Clients -> Links] /\ (link'[c] = "open" <=> link[c] = "open")
      /\ (link'[c] = "new" <=> link[c] = "new")
  BY <1>1, <1>2, <1>3 DEF Links
<1>5. QED
  BY <1>1, <1>3, <1>4 DEF Send

\* A client that has been accepted is no stranger.
LEMMA OpenClient ==
  ASSUME Inv, NEW c \in Clients, conn[c] # "none"
  PROVE  link[c] # "new" /\ c \notin Range(backlog) /\ ClientInv(c)
  BY DEF Inv, ClientInv, Sides, ServerInv, Accepting

LEMMA CurrentClient ==
  ASSUME Inv, Busy
  PROVE  current \in Clients /\ conn[current] = "open" /\ link[current] # "new" /\ ClientInv(current)
  BY OpenClient DEF Inv, ServerInv, Accepting

-----------------------------------------------------------------------------
(***************************************************************************)
(* Set-up and accept.                                                      *)
(***************************************************************************)
LEMMA SetUpStep ==
  ASSUME Inv, SettingUp
  PROVE  Inv'
<1> USE DEF SettingUp, SetUp
<1>1. /\ program' = program /\ fate = "down"
      /\ UNCHANGED <<at, current, message, todo, backlog, conn, link, inbox, heard, clientVars>>
  OBVIOUS
<1>2. Onward /\ \A d \in Clients : Untouched(d)
  BY <1>1 DEF Onward, Untouched, clientVars, Failures
<1>3. Flat'
  <2>1. Flat /\ MaxFaults \in Nat
    BY RequestReplyAssumption DEF Inv
  <2>2. faults' \in 0 .. MaxFaults
    BY <2>1 DEF Flat
  <2>3. fate' \in {"down", "up"} \cup Failures
    BY DEF Failures
  <2>4. QED
    BY <1>1, <2>1, <2>2, <2>3 DEF Flat, clientVars
<1>4. Accepting'
  BY <1>1 DEF Inv, ServerInv, Accepting, Busy
<1>5. Answering'
  BY <1>1, SameRequest DEF Inv, ServerInv, Answering, clientVars, Fresh, Sent
<1>6. Survives'
  <2>1. fate' = "up" \/ faults' > 0
    BY RequestReplyAssumption DEF Inv, Flat
  <2>2. fate' \in {"up", "exited", "elsewhere"} /\ (fate' = "elsewhere" => program # "epoll")
    OBVIOUS
  <2>3. QED
    BY <1>1, <2>1, <2>2 DEF Survives, Failures
<1>7. QED
  BY <1>2, <1>3, <1>4, <1>5, <1>6, NoClients DEF ServerInv

LEMMA AcceptPlaces ==
  ASSUME Inv, fate = "up", Accept
  PROVE  \E c \in Clients :
           /\ c = Head(backlog) /\ conn[c] = "none" /\ link[c] # "new"
           /\ conn' \in [Clients -> {"none", "open", "closed"}] /\ conn'[c] = "open"
           /\ \A d \in Clients \ {c} : conn'[d] = conn[d] /\ Untouched(d)
           /\ backlog' \in Seq(Clients) /\ Range(backlog') = Range(backlog) \ {c}
           /\ IsInjective(backlog') /\ Range(backlog) \subseteq Clients
           /\ Onward /\ ClientInv(c)' /\ Fresh(c)' /\ inbox'[c] = Sent(c)'
           /\ UNCHANGED <<program, fate, faults, message, link, inbox, heard, clientVars>>
<1>0. backlog \in Seq(Clients) /\ backlog # <<>> /\ IsInjective(backlog)
  BY DEF Inv, Flat, ServerInv, Accepting, Accept
<1>1. PICK c \in Clients : c = Head(backlog)
  BY <1>0
<1>2. /\ c \in Range(backlog) /\ c \in Clients /\ backlog' = Tail(backlog)
      /\ Range(backlog') = Range(backlog) \ {c} /\ IsInjective(backlog') /\ backlog' \in Seq(Clients)
      /\ Range(backlog) \subseteq Clients
  <2>1. Range(backlog) \subseteq Clients
    BY <1>0 DEF Range
  <2>2. QED
    BY <1>0, <1>1, <2>1, RangeOfTail, HeadTailProperties DEF Accept
<1>3. conn[c] = "none" /\ link[c] # "new" /\ ClientInv(c)
  BY <1>2 DEF Inv, ServerInv, Accepting
<1>4. /\ conn' = [conn EXCEPT ![c] = "open"]
      /\ UNCHANGED <<program, fate, faults, message, link, inbox, heard, clientVars>>
  BY <1>1 DEF Accept
<1>5. /\ conn' \in [Clients -> {"none", "open", "closed"}] /\ conn'[c] = "open"
      /\ \A d \in Clients \ {c} : conn'[d] = conn[d] /\ Untouched(d)
  BY <1>2, <1>4 DEF Inv, Flat, Untouched, clientVars
<1>6. Onward /\ Sent(c)' = Sent(c) /\ Fresh(c)' = Fresh(c)
  <2>1. Onward
    BY <1>4 DEF Onward
  <2>2. Request(c)' = Request(c)
    BY <1>4, SameRequest
  <2>3. QED
    BY <1>4, <2>1, <2>2 DEF Sent, clientVars, Fresh
<1>7. Fresh(c) /\ inbox[c] = Sent(c)
  BY <1>3 DEF ClientInv, Pieces, Answered
<1>8. ClientInv(c)'
  <2>0. Request(c)' = Request(c) /\ Answer(c)' = Answer(c)
    BY <1>4, SameRequest
  <2>1. Counted(c)'
    BY <1>3, <1>4, <2>0 DEF ClientInv, Counted, clientVars
  <2>2. Sides(c)'
    BY <1>3, <1>4, <1>5 DEF ClientInv, Sides, clientVars
  <2>3. Pieces(c)'
    BY <1>3, <1>4, <1>5, <1>6, <2>0 DEF ClientInv, Pieces, clientVars
  <2>4. Answered(c)'
    BY <1>3, <1>4, <1>5, <1>6, <2>0 DEF ClientInv, Answered, clientVars
  <2>5. QED
    BY <2>1, <2>2, <2>3, <2>4 DEF ClientInv
<1>9. QED
  BY <1>1, <1>2, <1>3, <1>4, <1>5, <1>6, <1>7, <1>8

LEMMA SequentialAccept ==
  ASSUME Inv, program # "epoll", fate = "up", Accept, current' = Head(backlog), todo' = todo,
         at = "accept", at' = IF program = "tcp" THEN "greet" ELSE "receive"
  PROVE  Inv'
<1>1. PICK c \in Clients :
        /\ c = Head(backlog) /\ conn[c] = "none" /\ link[c] # "new"
        /\ conn' \in [Clients -> {"none", "open", "closed"}] /\ conn'[c] = "open"
        /\ \A d \in Clients \ {c} : conn'[d] = conn[d] /\ Untouched(d)
        /\ backlog' \in Seq(Clients) /\ Range(backlog') = Range(backlog) \ {c}
        /\ IsInjective(backlog') /\ Range(backlog) \subseteq Clients
        /\ Onward /\ ClientInv(c)' /\ Fresh(c)' /\ inbox'[c] = Sent(c)'
        /\ UNCHANGED <<program, fate, faults, message, link, inbox, heard, clientVars>>
  BY AcceptPlaces
<1>2. Flat'
  BY <1>1 DEF Inv, Flat, clientVars
<1>3. Accepting'
  <2>1. \A d \in Range(backlog') : conn'[d] = "none" /\ link'[d] # "new"
    BY <1>1 DEF Inv, ServerInv, Accepting
  <2>2. Busy' /\ current' = c /\ program' = program
    BY <1>1 DEF Busy
  <2>3. \A d \in Clients : conn'[d] = "open" => d = c
    BY <1>1 DEF Inv, ServerInv, Accepting, Busy
  <2>4. todo' \ {NoClient} = {}
    BY DEF Inv, ServerInv, Accepting
  <2>5. QED
    BY <1>1, <2>1, <2>2, <2>3, <2>4 DEF Inv, ServerInv, Accepting
<1>4. Answering'
  BY <1>1 DEF Answering
<1>5. Survives'
  BY <1>1, SurvivesKept DEF clientVars
<1>6. QED
  BY <1>1, <1>2, <1>3, <1>4, <1>5, OneClient DEF ServerInv

LEMMA EpollAcceptStep ==
  ASSUME Inv, program = "epoll", fate = "up", EpollAccept
  PROVE  Inv'
<1>1. PICK c \in Clients :
        /\ c = Head(backlog) /\ conn[c] = "none" /\ link[c] # "new"
        /\ conn' \in [Clients -> {"none", "open", "closed"}] /\ conn'[c] = "open"
        /\ \A d \in Clients \ {c} : conn'[d] = conn[d] /\ Untouched(d)
        /\ backlog' \in Seq(Clients) /\ Range(backlog') = Range(backlog) \ {c}
        /\ IsInjective(backlog') /\ Range(backlog) \subseteq Clients
        /\ Onward /\ ClientInv(c)' /\ Fresh(c)' /\ inbox'[c] = Sent(c)'
        /\ UNCHANGED <<program, fate, faults, message, link, inbox, heard, clientVars>>
  BY AcceptPlaces DEF EpollAccept
<1>0. at = "wait" /\ at' = at /\ current' = current /\ todo' = todo \ {NoClient}
  BY DEF EpollAccept, Inv, ServerInv, Accepting
<1>2. Flat'
  BY <1>0, <1>1 DEF Inv, Flat, clientVars
<1>3. Accepting'
  <2>1. \A d \in Range(backlog') : conn'[d] = "none" /\ link'[d] # "new"
    BY <1>1 DEF Inv, ServerInv, Accepting
  <2>2. ~Busy' /\ program' = "epoll"
    BY <1>0, <1>1 DEF Busy
  <2>3. \A d \in todo' \ {NoClient} : conn'[d] = "open"
    BY <1>0, <1>1 DEF Inv, ServerInv, Accepting, Flat
  <2>4. QED
    BY <1>0, <1>1, <2>1, <2>2, <2>3 DEF Accepting
<1>4. Answering'
  BY <1>0, <1>1 DEF Answering
<1>5. Survives'
  BY <1>1, SurvivesKept DEF clientVars
<1>6. QED
  BY <1>1, <1>2, <1>3, <1>4, <1>5, OneClient DEF ServerInv

\* A failing accept: "tcp" is deaf from then on, and v1 stuck.
LEMMA AcceptFailsStep ==
  ASSUME Inv, fate = "up", AcceptFails, at' = at, todo' \subseteq todo,
         \/ fate' = fate
         \/ fate' = "deaf" /\ program = "tcp"
         \/ fate' = "stuck" /\ program = "v1"
  PROVE  Inv'
<1>1. /\ UNCHANGED <<program, at, current, message, backlog, conn, link, inbox, heard, clientVars>>
      /\ faults \in Nat /\ faults' = faults + 1 /\ faults' \in 0 .. MaxFaults
  BY RequestReplyAssumption DEF AcceptFails, Inv, Flat
<1>2. Onward /\ \A d \in Clients : Untouched(d)
  BY <1>1 DEF Onward, Untouched, clientVars, Failures
<1>3. Flat'
  BY <1>1 DEF Inv, Flat, clientVars, Failures
<1>4. Accepting'
  BY <1>1 DEF Inv, ServerInv, Accepting, Busy
<1>5. Answering'
  BY <1>1, SameRequest DEF Inv, ServerInv, Answering, clientVars, Fresh, Sent
<1>6. Survives'
  <2>1. faults' > 0
    BY <1>1
  <2>2. QED
    BY <1>1, <2>1 DEF Survives, Failures
<1>7. QED
  BY <1>2, <1>3, <1>4, <1>5, <1>6, NoClients DEF ServerInv

-----------------------------------------------------------------------------
(***************************************************************************)
(* Receiving and answering.                                                *)
(***************************************************************************)
\* What a step of the server has to do for a client that it has accepted.
LEMMA ServedClient ==
  ASSUME Inv, NEW c \in Clients, link[c] # "new", fate = "up", fate' # "down", program' = program,
         UNCHANGED clientVars, conn'[c] \in {"open", "closed"},
         link'[c] = "open" <=> link[c] = "open", link'[c] = "new" <=> link[c] = "new",
         Len(heard[c]) <= Len(heard'[c]), heard'[c] \in Seq({Prefix, "welcome"} \cup Clients),
         heard'[c] \in {<<>>, Answer(c)} \cup (IF program = "v1.2" THEN {<<Prefix>>} ELSE {}),
         \/ inbox'[c] = inbox[c]
         \/ inbox'[c] = <<>> /\ (link[c] = "open" => wrote[c] = Len(Request(c))),
         conn'[c] = "closed" /\ link[c] = "open" => heard'[c] = Answer(c),
         program = "epoll" => (inbox'[c] # <<>> \/ wrote[c] = 0 => Fresh(c)')
  PROVE  ClientInv(c)'
<1>0. /\ Request(c)' = Request(c) /\ Answer(c)' = Answer(c)
      /\ UNCHANGED <<program, client, seen, wrote>> /\ ClientInv(c)
  BY SameRequest DEF clientVars, Inv
<1>1. Sent(c)' = Sent(c)
  BY <1>0 DEF Sent
<1>2. Counted(c)'
  <2>1. heard[c] \in Seq({Prefix, "welcome"} \cup Clients) /\ seen[c] \in Nat
    BY DEF Inv, Flat
  <2>2. Len(heard[c]) \in Nat /\ Len(heard'[c]) \in Nat
    BY <2>1, LenProperties
  <2>3. seen[c] <= Len(heard'[c])
    BY <1>0, <2>1, <2>2 DEF ClientInv, Counted
  <2>4. inbox'[c] \in Seq({Prefix, c})
    <3>1. inbox[c] \in Seq({Prefix, c}) /\ <<>> \in Seq({Prefix, c})
      BY <1>0, EmptySeq DEF ClientInv, Counted
    <3>2. QED
      BY <3>1
  <2>5. QED
    BY <1>0, <2>3, <2>4 DEF ClientInv, Counted
<1>3. Sides(c)'
  BY <1>0 DEF ClientInv, Sides
<1>4. Pieces(c)'
  <2>1. wrote[c] \in Nat /\ Len(Request(c)) \in Nat
    BY RequestValues DEF Inv, Flat
  <2>2. wrote[c] < Len(Request(c)) => wrote[c] # Len(Request(c))
    BY <2>1
  <2>3. inbox'[c] \in {<<>>, Sent(c)'}
    BY <1>0, <1>1 DEF ClientInv, Pieces
  <2>4. conn'[c] # "none" /\ link'[c] # "new" /\ wrote'[c] = wrote[c]
    BY <1>0
  <2>5. link'[c] = "open" /\ wrote[c] < Len(Request(c)) => inbox'[c] = Sent(c)'
    BY <1>0, <1>1, <2>2 DEF ClientInv, Pieces
  <2>6. QED
    BY <1>0, <2>3, <2>4, <2>5 DEF Pieces
<1>5. Answered(c)'
  BY <1>0 DEF ClientInv, Answered, Failures
<1>6. QED
  BY <1>2, <1>3, <1>4, <1>5 DEF ClientInv

\* The first send to a client is not the one that kills.
LEMMA FirstSend ==
  ASSUME Inv, NEW c \in Clients, Fresh(c), NEW piece \in {Prefix, "welcome"} \cup Clients,
         Send(c, piece)
  PROVE  /\ heard'[c] = IF link[c] = "open" THEN <<piece>> ELSE <<>>
         /\ heard[c] = <<>> /\ Len(heard[c]) <= Len(heard'[c])
         /\ heard' \in [Clients -> Seq({Prefix, "welcome"} \cup Clients)]
         /\ heard'[c] \in Seq({Prefix, "welcome"} \cup Clients)
         /\ fate' = fate
<1>1. heard[c] = <<>> /\ fate' = fate
  BY SendStep DEF Inv, Fresh
<1>2. heard \in [Clients -> Seq({Prefix, "welcome"} \cup Clients)]
  BY DEF Inv, Flat
<1>3. CASE link[c] = "open"
  <2>1. heard'[c] = <<piece>> /\ heard' = [heard EXCEPT ![c] = <<piece>>]
    <3>0. /\ heard'[c] = Append(heard[c], piece)
          /\ heard' = [heard EXCEPT ![c] = Append(heard[c], piece)]
      BY <1>3, SendStep DEF Inv
    <3>1. heard'[c] = Append(<<>>, piece) /\ heard' = [heard EXCEPT ![c] = Append(<<>>, piece)]
      BY ONLY <1>1, <3>0, Zenon
    <3>2. Append(<<>>, piece) = <<piece>>
      OBVIOUS
    <3>3. QED
      BY ONLY <3>1, <3>2, Zenon
  <2>2. <<piece>> \in Seq({Prefix, "welcome"} \cup Clients) /\ Len(<<piece>>) = 1 /\ Len(<<>>) = 0
    OBVIOUS
  <2>3. QED
    BY <1>1, <1>2, <1>3, <2>1, <2>2
<1>4. CASE link[c] # "open"
  <2>1. heard' = heard
    BY <1>4, SendStep DEF Inv
  <2>2. Len(heard[c]) <= Len(heard'[c])
    BY <1>1, <2>1
  <2>3. QED
    BY <1>1, <1>2, <1>4, <2>1, <2>2
<1>5. QED
  BY <1>3, <1>4

\* Accepting, in the steps of the sequential servers after accept.
LEMMA StaysOpen ==
  ASSUME Inv, program # "epoll", at' \notin {"accept", "wait"},
         program = "tcp" => at' \in {"greet", "receive"},
         program = "v1" => at' \in {"receive", "reply"},
         program = "v1.2" => at' \in {"receive", "prefix", "body"},
         Busy, UNCHANGED <<program, current, todo, backlog, conn>>,
         \A d \in Clients : link'[d] = "new" <=> link[d] = "new"
  PROVE  Accepting'
<1>1. Range(backlog) \subseteq Clients
  BY DEF Inv, Flat, Range
<1>2. program \in {"tcp", "v1", "v1.2"}
  BY DEF Inv, Flat, Programs
<1>3. QED
  BY <1>1, <1>2 DEF Inv, ServerInv, Accepting, Busy

LEMMA IsClosed ==
  ASSUME Inv, program # "epoll", at' = "accept", NEW c \in Clients, c = current,
         Busy, UNCHANGED <<program, current, todo, backlog>>, CloseOf(c),
         \A d \in Clients : link'[d] = "new" <=> link[d] = "new"
  PROVE  /\ Accepting' /\ conn' \in [Clients -> {"none", "open", "closed"}]
         /\ conn'[c] = "closed" /\ \A d \in Clients \ {c} : conn'[d] = conn[d]
<1>1. Range(backlog) \subseteq Clients /\ conn \in [Clients -> {"none", "open", "closed"}]
  <2>1. backlog \in Seq(Clients) /\ conn \in [Clients -> {"none", "open", "closed"}]
    BY DEF Inv, Flat
  <2>2. QED
    BY ONLY <2>1 DEF Range
<1>2. program \in {"tcp", "v1", "v1.2"} /\ conn[c] = "open"
  BY DEF Inv, Flat, Programs, ServerInv, Accepting
<1>3. /\ conn' \in [Clients -> {"none", "open", "closed"}] /\ conn'[c] = "closed"
      /\ \A d \in Clients \ {c} : conn'[d] = conn[d]
  BY <1>1 DEF CloseOf
<1>4. \A d \in Clients : conn'[d] # "open"
  BY <1>3 DEF Inv, ServerInv, Accepting
<1>5. c \notin Range(backlog)
  BY <1>2 DEF Inv, ServerInv, Accepting
<1>6. \A d \in Range(backlog) : conn'[d] = "none" /\ link'[d] # "new"
  BY <1>1, <1>3, <1>5 DEF Inv, ServerInv, Accepting
<1>7. todo' \ {NoClient} = {}
  BY DEF Inv, ServerInv, Accepting
<1>8. QED
  BY <1>2, <1>3, <1>4, <1>6, <1>7 DEF Inv, ServerInv, Accepting, Busy

LEMMA TcpGreetStep ==
  ASSUME Inv, program = "tcp", fate = "up", TcpGreet
  PROVE  Inv'
<1>0. /\ at = "greet" /\ at' = "receive" /\ Busy /\ Fresh(current) /\ Send(current, "welcome")
      /\ UNCHANGED <<program, current, message, todo, faults, backlog, conn, inbox, clientVars>>
  BY DEF TcpGreet, Goto, Busy, Inv, ServerInv, Answering
<1>1. PICK c \in Clients : /\ c = current /\ conn[c] = "open" /\ link[c] # "new" /\ ClientInv(c)
                           /\ Fresh(c) /\ Answer(c) = <<"welcome">>
  BY <1>0, CurrentClient, RequestValues DEF Inv, Flat
<1>2. /\ heard'[c] = IF link[c] = "open" THEN <<"welcome">> ELSE <<>>
      /\ heard[c] = <<>> /\ Len(heard[c]) <= Len(heard'[c]) /\ fate' = fate
      /\ heard' \in [Clients -> Seq({Prefix, "welcome"} \cup Clients)]
      /\ heard'[c] \in Seq({Prefix, "welcome"} \cup Clients)
  BY <1>0, <1>1, FirstSend
<1>3. /\ link' \in [Clients -> Links] /\ (link'[c] = "open" <=> link[c] = "open")
      /\ (link'[c] = "new" <=> link[c] = "new")
      /\ \A d \in Clients \ {c} : link'[d] = link[d] /\ heard'[d] = heard[d]
  BY <1>0, <1>1, SendStep DEF Inv
<1>4. ClientInv(c)'
  BY <1>0, <1>1, <1>2, <1>3, ServedClient
<1>5. Onward /\ \A d \in Clients \ {c} : Untouched(d)
  BY <1>0, <1>2, <1>3 DEF Onward, Untouched, clientVars
<1>6. Flat'
  BY <1>0, <1>2, <1>3 DEF Inv, Flat, clientVars
<1>7. Accepting'
  BY <1>0, <1>3, StaysOpen
<1>8. Answering'
  <2>1. Answer(c)' = Answer(c)
    BY <1>0, SameRequest
  <2>2. QED
    BY <1>0, <1>1, <1>2, <1>3, <2>1 DEF Answering
<1>9. Survives'
  BY <1>0, <1>2, SurvivesKept DEF clientVars
<1>10. QED
  BY <1>4, <1>5, <1>6, <1>7, <1>8, <1>9, OneClient DEF ServerInv

LEMMA TcpReceiveStep ==
  ASSUME Inv, program = "tcp", fate = "up", TcpReceive
  PROVE  Inv'
<1>0. /\ at = "receive" /\ at' = "accept" /\ Busy
      /\ inbox[current] # <<>> \/ link[current] # "open"
      /\ inbox' = [inbox EXCEPT ![current] = <<>>] /\ CloseOf(current)
      /\ UNCHANGED <<program, fate, current, message, todo, faults, backlog, link, heard, clientVars>>
  BY DEF TcpReceive, Goto, Busy, Ended
<1>1. PICK c \in Clients : /\ c = current /\ conn[c] = "open" /\ link[c] # "new" /\ ClientInv(c)
                           /\ link[c] = "open" => heard[c] = Answer(c)
  BY <1>0, CurrentClient DEF Inv, ServerInv, Answering
<1>2. link[c] = "open" => wrote[c] = Len(Request(c))
  <2>1. program \in Programs /\ wrote[c] \in Nat /\ wrote[c] <= Len(Request(c)) /\ Len(Request(c)) = 1
    BY <1>1, RequestValues DEF Inv, Flat, ClientInv, Counted
  <2>2. inbox[c] # <<>> => wrote[c] # 0
    BY <1>1, <2>1, SentValues DEF ClientInv, Pieces
  <2>3. QED
    BY <1>0, <1>1, <2>1, <2>2
<1>3. /\ Accepting' /\ conn' \in [Clients -> {"none", "open", "closed"}]
      /\ conn'[c] = "closed" /\ \A d \in Clients \ {c} : conn'[d] = conn[d]
  BY <1>0, <1>1, IsClosed
<1>4. /\ inbox'[c] = <<>> /\ inbox' \in [Clients -> Seq(Clients \cup {Prefix})]
      /\ \A d \in Clients \ {c} : inbox'[d] = inbox[d]
  BY <1>0, <1>1 DEF Inv, Flat
<1>5. heard[c] \in Seq({Prefix, "welcome"} \cup Clients) /\ Len(heard[c]) <= Len(heard[c])
  <2>1. heard[c] \in Seq({Prefix, "welcome"} \cup Clients)
    BY DEF Inv, Flat
  <2>2. Len(heard[c]) \in Nat
    BY <2>1, LenProperties
  <2>3. QED
    BY <2>1, <2>2
<1>6. ClientInv(c)'
  BY <1>0, <1>1, <1>2, <1>3, <1>4, <1>5, ServedClient DEF ClientInv, Answered
<1>7. Onward /\ \A d \in Clients \ {c} : Untouched(d)
  BY <1>0, <1>3, <1>4 DEF Onward, Untouched, clientVars
<1>8. Flat'
  BY <1>0, <1>3, <1>4 DEF Inv, Flat, clientVars
<1>9. Answering'
  BY <1>0 DEF Answering
<1>10. Survives'
  BY <1>0, SurvivesKept DEF clientVars
<1>11. QED
  BY <1>3, <1>6, <1>7, <1>8, <1>9, <1>10, OneClient DEF ServerInv

LEMMA SameLength ==
  ASSUME Inv, NEW c \in Clients
  PROVE  heard[c] \in Seq({Prefix, "welcome"} \cup Clients) /\ Len(heard[c]) <= Len(heard[c])
<1>1. heard[c] \in Seq({Prefix, "welcome"} \cup Clients)
  BY DEF Inv, Flat
<1>2. Len(heard[c]) \in Nat
  BY <1>1, LenProperties
<1>3. QED
  BY <1>1, <1>2

LEMMA LineReceiveStep ==
  ASSUME Inv, program = "v1", fate = "up", LineReceive
  PROVE  Inv'
<1>0. /\ at = "receive" /\ at' = "reply" /\ Busy /\ Fresh(current) /\ inbox[current] = Sent(current)
      /\ inbox[current] # <<>> /\ message' = Head(inbox[current])
      /\ inbox' = [inbox EXCEPT ![current] = Tail(@)]
      /\ UNCHANGED <<program, fate, current, todo, faults, backlog, conn, link, heard, clientVars>>
  BY DEF LineReceive, Goto, Busy, Inv, ServerInv, Answering
<1>1. PICK c \in Clients : c = current /\ conn[c] = "open" /\ link[c] # "new" /\ ClientInv(c)
  BY <1>0, CurrentClient
<1>2. wrote[c] = Len(Request(c)) /\ inbox[c] = <<c>>
  <2>1. program \in Programs /\ wrote[c] \in Nat /\ wrote[c] <= Len(Request(c)) /\ Len(Request(c)) = 1
    BY <1>1, RequestValues DEF Inv, Flat, ClientInv, Counted
  <2>2. wrote[c] = 1
    BY <1>0, <1>1, <2>1, SentValues
  <2>3. QED
    BY <1>0, <1>1, <2>1, <2>2, SentValues
<1>3. message' = c /\ inbox' = [inbox EXCEPT ![c] = <<>>]
  BY <1>0, <1>1, <1>2
<1>4. /\ inbox'[c] = <<>> /\ inbox' \in [Clients -> Seq(Clients \cup {Prefix})]
      /\ \A d \in Clients \ {c} : inbox'[d] = inbox[d]
  BY <1>3 DEF Inv, Flat
<1>5. ClientInv(c)'
  BY <1>0, <1>1, <1>2, <1>4, SameLength, ServedClient DEF ClientInv, Answered
<1>6. Onward /\ \A d \in Clients \ {c} : Untouched(d)
  BY <1>0, <1>4 DEF Onward, Untouched, clientVars
<1>7. Flat'
  BY <1>0, <1>3, <1>4 DEF Inv, Flat, clientVars
<1>8. Accepting'
  BY <1>0, StaysOpen
<1>9. Answering'
  BY <1>0, <1>1, <1>3 DEF Answering, Fresh
<1>10. Survives'
  BY <1>0, SurvivesKept DEF clientVars
<1>11. QED
  BY <1>5, <1>6, <1>7, <1>8, <1>9, <1>10, OneClient DEF ServerInv

LEMMA LineReplyStep ==
  ASSUME Inv, program = "v1", fate = "up", LineReply
  PROVE  Inv'
<1>0. /\ at = "reply" /\ at' = "accept" /\ Busy /\ Fresh(current) /\ message = current
      /\ Send(current, message) /\ CloseOf(current)
      /\ UNCHANGED <<program, current, message, todo, faults, backlog, inbox, clientVars>>
  BY DEF LineReply, Goto, Busy, Inv, ServerInv, Answering
<1>1. PICK c \in Clients : /\ c = current /\ conn[c] = "open" /\ link[c] # "new" /\ ClientInv(c)
                           /\ Fresh(c) /\ Answer(c) = <<c>> /\ Send(c, c)
  BY <1>0, CurrentClient, RequestValues DEF Inv, Flat
<1>2. /\ heard'[c] = IF link[c] = "open" THEN <<c>> ELSE <<>>
      /\ heard[c] = <<>> /\ Len(heard[c]) <= Len(heard'[c]) /\ fate' = fate
      /\ heard' \in [Clients -> Seq({Prefix, "welcome"} \cup Clients)]
      /\ heard'[c] \in Seq({Prefix, "welcome"} \cup Clients)
  BY <1>1, FirstSend
<1>3. /\ link' \in [Clients -> Links] /\ (link'[c] = "open" <=> link[c] = "open")
      /\ (link'[c] = "new" <=> link[c] = "new")
      /\ \A d \in Clients \ {c} : link'[d] = link[d] /\ heard'[d] = heard[d]
  BY <1>1, SendStep DEF Inv
<1>4. /\ Accepting' /\ conn' \in [Clients -> {"none", "open", "closed"}]
      /\ conn'[c] = "closed" /\ \A d \in Clients \ {c} : conn'[d] = conn[d]
  BY <1>0, <1>1, <1>3, IsClosed
<1>5. ClientInv(c)'
  BY <1>0, <1>1, <1>2, <1>3, <1>4, ServedClient
<1>6. Onward /\ \A d \in Clients \ {c} : Untouched(d)
  BY <1>0, <1>2, <1>3, <1>4 DEF Onward, Untouched, clientVars
<1>7. Flat'
  BY <1>0, <1>2, <1>3, <1>4 DEF Inv, Flat, clientVars
<1>8. Answering'
  BY <1>0 DEF Answering
<1>9. Survives'
  BY <1>0, <1>2, SurvivesKept DEF clientVars
<1>10. QED
  BY <1>4, <1>5, <1>6, <1>7, <1>8, <1>9, OneClient DEF ServerInv

\* readline is stuck only when the client was killed before it sent its line.
LEMMA LineEndsStep ==
  ASSUME Inv, program = "v1", fate = "up", LineEnds
  PROVE  Inv'
<1>0. /\ at = "receive" /\ Busy /\ Fresh(current) /\ inbox[current] = Sent(current)
      /\ inbox[current] = <<>> /\ link[current] # "open" /\ fate' = "stuck"
      /\ UNCHANGED <<program, at, current, message, todo, faults, backlog, conn, link, inbox, heard,
                     clientVars>>
  BY DEF LineEnds, Ended, Busy, Inv, ServerInv, Answering
<1>1. PICK c \in Clients : /\ c = current /\ conn[c] = "open" /\ link[c] # "new" /\ ClientInv(c)
                           /\ Fresh(c) /\ Len(Answer(c)) = 1
  BY <1>0, CurrentClient, RequestValues DEF Inv, Flat
<1>2. wrote[c] = 0
  <2>1. program \in Programs /\ wrote[c] \in Nat /\ wrote[c] <= Len(Request(c)) /\ Len(Request(c)) = 1
    BY <1>1, RequestValues DEF Inv, Flat, ClientInv, Counted
  <2>2. wrote[c] # 1
    <3>1. wrote[c] = 1 => Sent(c) = <<c>>
      BY <2>1, SentValues
    <3>2. Sent(c) = <<>> /\ <<c>> # <<>>
      BY <1>0, <1>1
    <3>3. QED
      BY <3>1, <3>2
  <2>3. QED
    BY <2>1, <2>2
<1>3. client[c] = "quit"
  <2>1. client[c] \in {"done", "quit"}
    BY <1>0, <1>1 DEF ClientInv, Sides, Inv, Flat
  <2>2. seen[c] \in Nat /\ seen[c] <= 0
    BY <1>1 DEF ClientInv, Counted, Inv, Flat, Fresh
  <2>3. client[c] # "done"
    BY <1>1, <2>2 DEF ClientInv, Answered, Failures
  <2>4. QED
    BY <2>1, <2>3
<1>4. Onward /\ \A d \in Clients : Untouched(d)
  BY <1>0 DEF Onward, Untouched, clientVars, Failures
<1>5. Flat'
  BY <1>0 DEF Inv, Flat, clientVars, Failures
<1>6. Accepting'
  BY <1>0 DEF Inv, ServerInv, Accepting, Busy
<1>7. Answering'
  <2>1. Sent(current)' = Sent(current)
    BY <1>0, SameRequest DEF Sent, clientVars
  <2>2. QED
    BY <1>0, <2>1 DEF Answering, Fresh
<1>8. Survives'
  BY <1>0, <1>2, <1>3 DEF Survives, clientVars
<1>9. QED
  BY <1>4, <1>5, <1>6, <1>7, <1>8, NoClients DEF ServerInv

\* Either the whole request has come, or the client has gone before the end of it.
LEMMA PrefixReceiveStep ==
  ASSUME Inv, program = "v1.2", fate = "up", PrefixReceive
  PROVE  Inv'
<1>0. /\ at = "receive" /\ at' = "prefix" /\ Busy /\ Fresh(current) /\ inbox[current] = Sent(current)
      /\ \/ Len(inbox[current]) = 2 /\ message' = inbox[current][2]
         \/ Len(inbox[current]) < 2 /\ link[current] # "open" /\ message' = NoClient
      /\ inbox' = [inbox EXCEPT ![current] = <<>>]
      /\ UNCHANGED <<program, fate, current, todo, faults, backlog, conn, link, heard, clientVars>>
  BY DEF PrefixReceive, Goto, Busy, Inv, ServerInv, Answering, Body, ShortFate
<1>1. PICK c \in Clients : c = current /\ conn[c] = "open" /\ link[c] # "new" /\ ClientInv(c)
  BY <1>0, CurrentClient
<1>2. /\ Len(inbox[c]) = 2 => wrote[c] = 2 /\ inbox[c] = <<Prefix, c>>
      /\ wrote[c] = 2 => wrote[c] = Len(Request(c))
  <2>1. program \in Programs /\ wrote[c] \in Nat /\ wrote[c] <= Len(Request(c)) /\ Len(Request(c)) = 2
    BY <1>1, RequestValues DEF Inv, Flat, ClientInv, Counted
  <2>2. wrote[c] \in {0, 1, 2}
    BY <2>1
  <2>3. wrote[c] = 0 => Len(inbox[c]) = 0
    BY <1>0, <1>1, <2>1, SentValues
  <2>4. wrote[c] = 1 => Len(inbox[c]) = 1
    <3>1. wrote[c] = 1 => inbox[c] = <<Prefix>>
      BY <1>0, <1>1, <2>1, SentValues
    <3>2. Len(<<Prefix>>) = 1
      OBVIOUS
    <3>3. QED
      BY <3>1, <3>2
  <2>5. wrote[c] = 2 => inbox[c] = <<Prefix, c>>
    BY <1>0, <1>1, <2>1, SentValues
  <2>6. QED
    BY <2>1, <2>2, <2>3, <2>4, <2>5
<1>3. message' \in {c, NoClient} /\ (message' = c => wrote[c] = 2) /\ c # NoClient
      /\ (message' = NoClient => link[c] # "open") /\ (link[c] = "open" => wrote[c] = Len(Request(c)))
  <2>1. c # NoClient
    BY RequestReplyAssumption
  <2>2. CASE Len(inbox[c]) = 2 /\ message' = inbox[c][2]
    <3>1. inbox[c] = <<Prefix, c>>
      BY <1>2, <2>2
    <3>2. message' = c
      BY <2>2, <3>1
    <3>3. QED
      BY <1>2, <2>1, <2>2, <3>2
  <2>3. CASE link[c] # "open" /\ message' = NoClient
    BY <2>1, <2>3
  <2>4. QED
    BY <1>0, <1>1, <2>2, <2>3
<1>4. /\ inbox'[c] = <<>> /\ inbox' \in [Clients -> Seq(Clients \cup {Prefix})]
      /\ \A d \in Clients \ {c} : inbox'[d] = inbox[d]
  BY <1>0, <1>1 DEF Inv, Flat
<1>5. ClientInv(c)'
  BY <1>0, <1>1, <1>3, <1>4, SameLength, ServedClient DEF ClientInv, Answered
<1>6. Onward /\ \A d \in Clients \ {c} : Untouched(d)
  BY <1>0, <1>4 DEF Onward, Untouched, clientVars
<1>7. Flat'
  BY <1>0, <1>3, <1>4 DEF Inv, Flat, clientVars
<1>8. Accepting'
  BY <1>0, StaysOpen
<1>9. Answering'
  BY <1>0, <1>1, <1>3 DEF Answering, Fresh, clientVars
<1>10. Survives'
  BY <1>0, SurvivesKept DEF clientVars
<1>11. QED
  BY <1>5, <1>6, <1>7, <1>8, <1>9, <1>10, OneClient DEF ServerInv

LEMMA PrefixReplyStep ==
  ASSUME Inv, program = "v1.2", fate = "up", PrefixReply
  PROVE  Inv'
<1>0. /\ at = "prefix" /\ Busy /\ Fresh(current) /\ Send(current, Prefix)
      /\ \/ message = current /\ wrote[current] = 2
         \/ message = NoClient /\ link[current] # "open"
      /\ \/ BodyFollows /\ at' = "body" /\ UNCHANGED conn
         \/ ~BodyFollows /\ at' = "accept" /\ CloseOf(current)
      /\ UNCHANGED <<program, current, message, todo, faults, backlog, inbox, clientVars>>
  BY DEF PrefixReply, Busy, Inv, ServerInv, Answering
<1>1. PICK c \in Clients : /\ c = current /\ conn[c] = "open" /\ link[c] # "new" /\ ClientInv(c)
                           /\ Fresh(c) /\ Answer(c) = <<Prefix, c>>
  BY <1>0, CurrentClient, RequestValues DEF Inv, Flat
<1>2. /\ heard'[c] = IF link[c] = "open" THEN <<Prefix>> ELSE <<>>
      /\ heard[c] = <<>> /\ Len(heard[c]) <= Len(heard'[c]) /\ fate' = fate
      /\ heard' \in [Clients -> Seq({Prefix, "welcome"} \cup Clients)]
      /\ heard'[c] \in Seq({Prefix, "welcome"} \cup Clients)
  BY <1>0, <1>1, FirstSend
<1>3. /\ link' \in [Clients -> Links] /\ (link'[c] = "open" <=> link[c] = "open")
      /\ (link'[c] = "new" <=> link[c] = "new")
      /\ \A d \in Clients \ {c} : link'[d] = link[d] /\ heard'[d] = heard[d]
  BY <1>0, <1>1, SendStep DEF Inv
<1>4. /\ conn' \in [Clients -> {"none", "open", "closed"}] /\ Accepting'
      /\ conn'[c] \in {"open", "closed"} /\ (conn'[c] = "closed" => link[c] # "open")
      /\ \A d \in Clients \ {c} : conn'[d] = conn[d]
      /\ at' = "accept" \/ (at' = "body" /\ message = c /\ wrote[c] = 2)
  <2>1. CASE BodyFollows /\ at' = "body" /\ UNCHANGED conn
    <3>1. Accepting'
      BY <1>0, <1>1, <1>3, <2>1, StaysOpen
    <3>2. QED
      BY <1>0, <1>1, <2>1, <3>1 DEF Inv, Flat, BodyFollows
  <2>2. CASE ~BodyFollows /\ at' = "accept" /\ CloseOf(current)
    <3>1. link[c] # "open"
      BY <1>0, <1>1, <2>2, RequestReplyAssumption DEF BodyFollows, SendFails
    <3>2. QED
      BY <1>0, <1>1, <1>3, <2>2, <3>1, IsClosed
  <2>3. QED
    BY <1>0, <2>1, <2>2
<1>5. ClientInv(c)'
  BY <1>0, <1>1, <1>2, <1>3, <1>4, ServedClient
<1>6. Onward /\ \A d \in Clients \ {c} : Untouched(d)
  BY <1>0, <1>2, <1>3, <1>4 DEF Onward, Untouched, clientVars
<1>7. Flat'
  BY <1>0, <1>2, <1>3, <1>4 DEF Inv, Flat, clientVars
<1>8. Answering'
  BY <1>0, <1>1, <1>2, <1>3, <1>4 DEF Answering, clientVars
<1>9. Survives'
  BY <1>0, <1>2, SurvivesKept DEF clientVars
<1>10. QED
  BY <1>4, <1>5, <1>6, <1>7, <1>8, <1>9, OneClient DEF ServerInv

\* The second send kills the server if the client was killed after its request and the
\* reset for the first one has come.
LEMMA BodyReplyStep ==
  ASSUME Inv, program = "v1.2", fate = "up", BodyReply
  PROVE  Inv'
<1>0. /\ at = "body" /\ at' = "accept" /\ Busy /\ message = current /\ wrote[current] = 2
      /\ heard[current] \in {<<>>, <<Prefix>>} /\ (link[current] = "open" => heard[current] = <<Prefix>>)
      /\ Send(current, message) /\ CloseOf(current)
      /\ UNCHANGED <<program, current, message, todo, faults, backlog, inbox, clientVars>>
  BY DEF BodyReply, Goto, Busy, Inv, ServerInv, Answering
<1>1. PICK c \in Clients : /\ c = current /\ conn[c] = "open" /\ link[c] # "new" /\ ClientInv(c)
                           /\ Answer(c) = <<Prefix, c>> /\ Len(Answer(c)) = 2 /\ Send(c, c)
                           /\ wrote[c] = 2 /\ heard[c] \in {<<>>, <<Prefix>>}
                           /\ link[c] = "open" => heard[c] = <<Prefix>>
  BY <1>0, CurrentClient, RequestValues DEF Inv, Flat
<1>2. /\ link' \in [Clients -> Links] /\ (link'[c] = "open" <=> link[c] = "open")
      /\ (link'[c] = "new" <=> link[c] = "new")
      /\ \A d \in Clients \ {c} : link'[d] = link[d] /\ heard'[d] = heard[d]
      /\ fate' = IF link[c] \in {"pipe", "gone"} THEN "killed" ELSE fate
  BY <1>1, SendStep DEF Inv
<1>3. /\ heard' \in [Clients -> Seq({Prefix, "welcome"} \cup Clients)]
      /\ heard'[c] = IF link[c] = "open" THEN <<Prefix, c>> ELSE heard[c]
  <2>1. CASE link[c] = "open"
    <3>1. heard' = [heard EXCEPT ![c] = Append(heard[c], c)] /\ heard[c] = <<Prefix>>
      BY <1>1, <2>1, SendStep DEF Inv
    <3>2. Append(heard[c], c) = <<Prefix, c>>
      BY <3>1, AppendTwo
    <3>3. heard' = [heard EXCEPT ![c] = <<Prefix, c>>]
      BY ONLY <3>1, <3>2, Zenon
    <3>4. QED
      BY <2>1, <3>3 DEF Inv, Flat
  <2>2. CASE link[c] # "open"
    BY <1>1, <2>2, SendStep DEF Inv, Flat
  <2>3. QED
    BY <2>1, <2>2
<1>4. Len(heard[c]) <= 1 /\ Len(heard[c]) <= Len(heard'[c])
  <2>1. Len(<<>>) = 0 /\ Len(<<Prefix>>) = 1 /\ Len(<<Prefix, c>>) = 2
    OBVIOUS
  <2>2. Len(heard[c]) = 0 \/ Len(heard[c]) = 1
    BY <1>1, <2>1
  <2>3. Len(heard'[c]) = Len(heard[c]) \/ Len(heard'[c]) = 2
    BY ONLY <1>3, <2>1, Zenon
  <2>4. \A m, n : (m = 0 \/ m = 1) /\ (n = m \/ n = 2) => m <= 1 /\ m <= n
    OBVIOUS
  <2>5. QED
    BY ONLY <2>2, <2>3, <2>4, Zenon
<1>5. /\ Accepting' /\ conn' \in [Clients -> {"none", "open", "closed"}]
      /\ conn'[c] = "closed" /\ \A d \in Clients \ {c} : conn'[d] = conn[d]
  BY <1>0, <1>1, <1>2, IsClosed
<1>6. ClientInv(c)'
  <2>1. heard'[c] \in Seq({Prefix, "welcome"} \cup Clients)
    BY <1>3
  <2>2. QED
    BY <1>0, <1>1, <1>2, <1>3, <1>4, <1>5, <2>1, ServedClient
<1>7. Onward /\ \A d \in Clients \ {c} : Untouched(d)
  BY <1>0, <1>2, <1>5 DEF Onward, Untouched, clientVars, Failures
<1>8. Flat'
  BY <1>0, <1>2, <1>3, <1>5 DEF Inv, Flat, clientVars, Failures
<1>9. Answering'
  BY <1>0 DEF Answering
<1>10. Survives'
  <2>1. CASE link[c] \in {"pipe", "gone"}
    <3>1. client[c] \in {"done", "quit"}
      BY <1>1, <2>1 DEF ClientInv, Sides, Inv, Flat
    <3>2. seen[c] # Len(Answer(c))
      <4>1. seen[c] \in Nat /\ seen[c] <= Len(heard[c]) /\ Len(heard[c]) \in Nat
        BY <1>1, SameLength, LenProperties DEF ClientInv, Counted, Inv, Flat
      <4>2. QED
        BY <1>1, <1>4, <4>1
    <3>3. client[c] = "quit"
      BY <1>1, <3>1, <3>2 DEF ClientInv, Answered, Failures
    <3>4. QED
      BY <1>0, <1>1, <1>2, <2>1, <3>3 DEF Survives, clientVars
  <2>2. CASE link[c] \notin {"pipe", "gone"}
    BY <1>0, <1>2, <2>2, SurvivesKept DEF clientVars
  <2>3. QED
    BY <2>1, <2>2
<1>11. QED
  BY <1>5, <1>6, <1>7, <1>8, <1>9, <1>10, OneClient DEF ServerInv

-----------------------------------------------------------------------------
(***************************************************************************)
(* The epoll server.  It sends once to each connection, and before that    *)
(* the client's exit is no reset.                                          *)
(***************************************************************************)
LEMMA EpollReturnStep ==
  ASSUME Inv, program = "epoll", fate = "up", EpollReturn
  PROVE  Inv'
<1>0. /\ todo' = Ready
      /\ UNCHANGED <<program, fate, at, current, message, faults, backlog, conn, link, inbox,
                     heard, clientVars>>
  BY DEF EpollReturn
<1>1. Onward /\ \A d \in Clients : Untouched(d)
  BY <1>0 DEF Onward, Untouched, clientVars
<1>2. todo' \subseteq Clients \cup {NoClient} /\ \A c \in todo' \ {NoClient} : conn[c] = "open"
  BY <1>0 DEF Ready
<1>3. Flat'
  BY <1>0, <1>2 DEF Inv, Flat, clientVars
<1>4. Accepting'
  BY <1>0, <1>2 DEF Inv, ServerInv, Accepting, Busy
<1>5. Answering'
  BY <1>0, SameRequest DEF Inv, ServerInv, Answering, Accepting
<1>6. Survives'
  BY <1>0, SurvivesKept DEF clientVars
<1>7. QED
  BY <1>1, <1>3, <1>4, <1>5, <1>6, NoClients DEF ServerInv

LEMMA EpollEchoStep ==
  ASSUME Inv, program = "epoll", fate = "up", NEW c \in Clients, EpollEcho(c)
  PROVE  Inv'
<1>0. /\ c \in todo /\ inbox[c] # <<>> /\ todo' = todo \ {c} /\ Send(c, Head(inbox[c]))
      /\ inbox' = [inbox EXCEPT ![c] = Tail(@)]
      /\ IF SendFails(c) THEN CloseOf(c) ELSE UNCHANGED conn
      /\ UNCHANGED <<program, at, current, message, faults, backlog, clientVars>>
  BY DEF EpollEcho
<1>1. /\ conn[c] = "open" /\ link[c] # "new" /\ ClientInv(c) /\ Fresh(c)
      /\ Request(c) = <<c>> /\ Answer(c) = <<c>> /\ Len(Request(c)) = 1 /\ at = "wait"
  <2>1. conn[c] = "open" /\ at = "wait"
    BY <1>0, RequestReplyAssumption DEF Inv, ServerInv, Accepting
  <2>2. link[c] # "new" /\ ClientInv(c)
    BY <2>1, OpenClient
  <2>3. QED
    BY <1>0, <2>1, <2>2, RequestValues DEF ClientInv, Answered, Inv, Flat
<1>2. wrote[c] = 1 /\ inbox[c] = <<c>>
  <2>1. program \in Programs /\ wrote[c] \in Nat /\ wrote[c] <= 1 /\ inbox[c] = Sent(c)
    BY <1>0, <1>1 DEF Inv, Flat, ClientInv, Counted, Pieces
  <2>2. wrote[c] = 1
    BY <1>0, <2>1, SentValues
  <2>3. QED
    BY <2>1, <2>2, SentValues
<1>3. Send(c, c) /\ inbox' = [inbox EXCEPT ![c] = <<>>]
  BY <1>0, <1>2
<1>4. UNCHANGED conn
  BY <1>0, <1>1 DEF SendFails, Fresh
<1>5. /\ heard'[c] = IF link[c] = "open" THEN <<c>> ELSE <<>>
      /\ heard[c] = <<>> /\ Len(heard[c]) <= Len(heard'[c]) /\ fate' = fate
      /\ heard' \in [Clients -> Seq({Prefix, "welcome"} \cup Clients)]
      /\ heard'[c] \in Seq({Prefix, "welcome"} \cup Clients)
  BY <1>1, <1>3, FirstSend
<1>6. /\ link' \in [Clients -> Links] /\ (link'[c] = "open" <=> link[c] = "open")
      /\ (link'[c] = "new" <=> link[c] = "new")
      /\ \A d \in Clients \ {c} : link'[d] = link[d] /\ heard'[d] = heard[d]
  BY <1>3, SendStep DEF Inv
<1>7. /\ inbox'[c] = <<>> /\ inbox' \in [Clients -> Seq(Clients \cup {Prefix})]
      /\ \A d \in Clients \ {c} : inbox'[d] = inbox[d]
  BY <1>3 DEF Inv, Flat
<1>8. ClientInv(c)'
  <2>1. conn'[c] = "open" /\ wrote[c] # 0 /\ wrote[c] = Len(Request(c))
    BY <1>1, <1>2, <1>4
  <2>2. QED
    BY <1>0, <1>1, <1>5, <1>6, <1>7, <2>1, ServedClient
<1>9. Onward /\ \A d \in Clients \ {c} : Untouched(d)
  BY <1>0, <1>4, <1>5, <1>6, <1>7 DEF Onward, Untouched, clientVars
<1>10. Flat'
  BY <1>0, <1>4, <1>5, <1>6, <1>7 DEF Inv, Flat, clientVars
<1>11. Accepting'
  <2>1. \A d \in Range(backlog) : d # c
    BY <1>1 DEF Inv, ServerInv, Accepting
  <2>2. \A d \in Range(backlog) : d \in Clients
    <3>1. backlog \in Seq(Clients)
      BY DEF Inv, Flat
    <3>2. QED
      BY ONLY <3>1 DEF Range
  <2>3. \A d \in Range(backlog) : link'[d] = link[d]
    BY <1>6, <2>1, <2>2
  <2>4. QED
    BY <1>0, <1>4, <2>3 DEF Inv, ServerInv, Accepting, Busy
<1>12. Answering'
  <2>1. at' = "wait"
    BY <1>0, <1>1
  <2>2. QED
    BY ONLY <2>1 DEF Answering
<1>13. Survives'
  <2>1. fate' = fate /\ UNCHANGED <<program, faults, client, wrote>>
    BY <1>0, <1>5 DEF clientVars
  <2>2. Flat /\ Survives
    BY DEF Inv, ServerInv
  <2>3. faults \in Nat
    BY <2>2, RequestReplyAssumption DEF Flat
  <2>4. faults' \in Nat /\ faults <= faults'
    BY <2>1, <2>3
  <2>5. QED
    BY <2>1, <2>2, <2>4, SurvivesKept
<1>14. QED
  BY <1>8, <1>9, <1>10, <1>11, <1>12, <1>13, OneClient DEF ServerInv

LEMMA EpollEndStep ==
  ASSUME Inv, program = "epoll", fate = "up", NEW c \in Clients, EpollEnd(c)
  PROVE  Inv'
<1>0. /\ c \in todo /\ inbox[c] = <<>> /\ link[c] # "open" /\ todo' = todo \ {c} /\ CloseOf(c)
      /\ UNCHANGED <<program, fate, at, current, message, faults, backlog, link, inbox, heard,
                     clientVars>>
  BY DEF EpollEnd, Ended
<1>1. conn[c] = "open" /\ link[c] # "new" /\ c \notin Range(backlog) /\ ClientInv(c) /\ at = "wait"
  <2>1. conn[c] = "open" /\ at = "wait"
    BY <1>0, RequestReplyAssumption DEF Inv, ServerInv, Accepting
  <2>2. QED
    BY <2>1, OpenClient
<1>2. /\ conn' \in [Clients -> {"none", "open", "closed"}] /\ conn'[c] = "closed"
      /\ \A d \in Clients \ {c} : conn'[d] = conn[d]
  BY <1>0 DEF CloseOf, Inv, Flat
<1>3. ClientInv(c)'
  BY <1>0, <1>1, <1>2, SameLength, ServedClient DEF ClientInv, Answered, Fresh
<1>4. Onward /\ \A d \in Clients \ {c} : Untouched(d)
  BY <1>0, <1>2 DEF Onward, Untouched, clientVars
<1>5. Flat'
  BY <1>0, <1>2 DEF Inv, Flat, clientVars
<1>6. Accepting'
  <2>1. \A d \in Range(backlog) : d \in Clients /\ d # c
    <3>1. backlog \in Seq(Clients)
      BY DEF Inv, Flat
    <3>2. \A d \in Range(backlog) : d \in Clients
      BY ONLY <3>1 DEF Range
    <3>3. QED
      BY <1>1, <3>2
  <2>2. \A d \in Range(backlog) : conn'[d] = conn[d]
    BY <1>2, <2>1
  <2>3. \A d \in todo' \ {NoClient} : conn'[d] = "open"
    BY <1>0, <1>2 DEF Inv, Flat, ServerInv, Accepting
  <2>4. ~Busy'
    BY <1>0, <1>1 DEF Busy
  <2>5. QED
    BY <1>0, <1>1, <2>2, <2>3, <2>4 DEF Inv, ServerInv, Accepting
<1>7. Answering'
  BY <1>0, <1>1 DEF Answering
<1>8. Survives'
  BY <1>0, SurvivesKept DEF clientVars
<1>9. QED
  BY <1>3, <1>4, <1>5, <1>6, <1>7, <1>8, OneClient DEF ServerInv

-----------------------------------------------------------------------------
(***************************************************************************)
(* The clients.                                                            *)
(***************************************************************************)
\* What a client does to the server: it may be the current one.
LEMMA ClientMoves ==
  ASSUME Inv, NEW c \in Clients, UNCHANGED <<program, serverVars, conn, heard>>,
         \A d \in Clients \ {c} : Untouched(d), Flat', ClientInv(c)',
         \/ backlog' = backlog
         \/ backlog' = Append(backlog, c) /\ link[c] = "new" /\ link'[c] = "open",
         link'[c] = "new" => link[c] = "new",
         link'[c] = "open" => link[c] \in {"new", "open"},
         Fresh(c) => link'[c] \in {"new", "open", "fin"},
         wrote[c] = 2 => wrote'[c] = 2,
         inbox[c] = Sent(c) => inbox'[c] = Sent(c)',
         client[c] = "quit" => client'[c] = "quit" /\ wrote'[c] = wrote[c]
  PROVE  Inv'
<1>0. UNCHANGED <<program, fate, at, current, message, todo, faults, conn, heard>>
  BY DEF serverVars
<1>1. Onward
  BY <1>0 DEF Onward
<1>2. ClientInv(c) /\ backlog \in Seq(Clients) /\ IsInjective(backlog) /\ Flat /\ Accepting
  BY DEF Inv, Flat, ServerInv, Accepting
<1>3. Accepting'
  <2>1. IsInjective(backlog') /\ \A d \in Range(backlog') : conn[d] = "none" /\ link'[d] # "new"
    <3>1. Range(backlog) \subseteq Clients
      BY <1>2 DEF Range
    <3>2. \A d \in Range(backlog) : conn[d] = "none" /\ link'[d] # "new"
      BY <1>2, <3>1 DEF Accepting, Untouched
    <3>3. CASE backlog' = backlog
      BY <1>2, <3>2, <3>3
    <3>4. CASE backlog' = Append(backlog, c) /\ link[c] = "new" /\ link'[c] = "open"
      <4>1. c \notin Range(backlog) /\ conn[c] = "none"
        BY <1>2, <3>4 DEF ClientInv, Sides, Accepting
      <4>2. Range(backlog') = Range(backlog) \cup {c} /\ IsInjective(backlog')
        BY <1>2, <3>4, <4>1, RangeOfAppend
      <4>3. QED
        BY <3>2, <3>4, <4>1, <4>2
    <3>5. QED
      BY <3>3, <3>4
  <2>2. QED
    BY <1>0, <1>2, <2>1 DEF Accepting, Busy
<1>4. Answering'
  <2>1. CASE ~Busy
    BY <1>0, <2>1 DEF Busy, Answering
  <2>2. CASE Busy /\ current = c
    <3>1. link[c] # "new" /\ current' = c
      BY <1>0, <2>2, CurrentClient
    <3>2. /\ Request(c)' = Request(c) /\ Answer(c)' = Answer(c)
          /\ heard'[c] = heard[c] /\ (link'[c] = "open" => link[c] = "open")
          /\ Fresh(c) => Fresh(c)'
      BY <1>0, <3>1, SameRequest DEF Fresh
    <3>3. QED
      BY <1>0, <2>2, <3>1, <3>2 DEF Inv, ServerInv, Answering
  <2>3. CASE Busy /\ current # c
    <3>1. current \in Clients /\ current' = current /\ Untouched(current)
      BY <1>0, <2>3, CurrentClient
    <3>2. /\ Answer(current)' = Answer(current) /\ Sent(current)' = Sent(current)
          /\ Fresh(current)' = Fresh(current)
      BY <1>0, <3>1, SameRequest DEF Untouched, Sent, Fresh
    <3>3. QED
      BY <1>0, <3>1, <3>2 DEF Inv, ServerInv, Answering, Untouched
  <2>4. QED
    BY <2>1, <2>2, <2>3
<1>5. Survives'
  <2>1. faults \in Nat /\ faults' = faults
    BY <1>0, <1>2, RequestReplyAssumption DEF Flat
  <2>2. \A d \in Clients : client[d] = "quit" => client'[d] = "quit" /\ wrote'[d] = wrote[d]
    BY DEF Untouched
  <2>3. QED
    BY <1>0, <1>2, <2>1, <2>2, SurvivesKept DEF Inv, ServerInv
<1>6. QED
  BY <1>1, <1>3, <1>4, <1>5, OneClient DEF ServerInv

LEMMA ConnectStep ==
  ASSUME Inv, NEW c \in Clients, Connect(c)
  PROVE  Inv'
<1>0. /\ client[c] = "new" /\ fate # "down"
      /\ client' = [client EXCEPT ![c] = "on"] /\ link' = [link EXCEPT ![c] = "open"]
      /\ backlog' = Append(backlog, c)
      /\ UNCHANGED <<program, serverVars, conn, inbox, heard, seen, wrote>>
      /\ UNCHANGED <<fate, at, current, message, todo, faults>>
  BY DEF Connect, Listening, Failures, serverVars
<1>1. Flat'
  <2>1. backlog' \in Seq(Clients)
    BY <1>0 DEF Inv, Flat
  <2>2. /\ link' \in [Clients -> Links]
        /\ client' \in [Clients -> {"new", "refused", "on", "done", "quit"}]
    BY <1>0 DEF Inv, Flat, Links
  <2>3. QED
    BY <1>0, <2>1, <2>2 DEF Inv, Flat
<1>2. ClientInv(c) /\ link[c] = "new" /\ client'[c] = "on" /\ link'[c] = "open"
  BY <1>0 DEF Inv, Flat, ClientInv, Sides
<1>3. \A d \in Clients \ {c} : Untouched(d)
  BY <1>0 DEF Inv, Flat, Untouched
<1>4. Request(c)' = Request(c) /\ Answer(c)' = Answer(c) /\ Sent(c)' = Sent(c)
  BY <1>0, SameRequest DEF Sent
<1>5. ClientInv(c)'
  <2>1. Fresh(c) => Fresh(c)'
    BY <1>0, <1>2 DEF Fresh
  <2>2. conn[c] = "none" /\ wrote[c] = 0
    BY <1>2 DEF ClientInv, Sides
  <2>3. Counted(c)' /\ Sides(c)'
    BY <1>0, <1>2, <1>4, <2>2 DEF ClientInv, Counted, Sides
  <2>4. Pieces(c)'
    BY <1>0, <1>2, <1>4, <2>2 DEF ClientInv, Pieces
  <2>5. Answered(c)'
    BY <1>0, <1>2, <1>4, <2>1, <2>2 DEF ClientInv, Answered
  <2>6. QED
    BY <2>3, <2>4, <2>5 DEF ClientInv
<1>6. QED
  BY <1>0, <1>1, <1>2, <1>3, <1>4, <1>5, ClientMoves

LEMMA ConnectFailsStep ==
  ASSUME Inv, NEW c \in Clients, ConnectFails(c)
  PROVE  Inv'
<1>0. /\ client[c] = "new" /\ client' = [client EXCEPT ![c] = "refused"]
      /\ UNCHANGED <<program, serverVars, backlog, conn, link, inbox, heard, seen, wrote>>
      /\ UNCHANGED <<fate, at, current, message, todo, faults>>
  BY DEF ConnectFails, serverVars
<1>1. Flat'
  BY <1>0 DEF Inv, Flat
<1>2. ClientInv(c) /\ client'[c] = "refused" /\ link[c] = "new"
  BY <1>0 DEF Inv, Flat, ClientInv, Sides
<1>3. \A d \in Clients \ {c} : Untouched(d)
  BY <1>0 DEF Inv, Flat, Untouched
<1>4. /\ Request(c)' = Request(c) /\ Answer(c)' = Answer(c) /\ Sent(c)' = Sent(c)
      /\ Fresh(c)' = Fresh(c)
  BY <1>0, SameRequest DEF Sent, Fresh
<1>5. ClientInv(c)'
  <2>1. Counted(c)' /\ Sides(c)' /\ Pieces(c)'
    BY <1>0, <1>2, <1>4 DEF ClientInv, Counted, Sides, Pieces
  <2>2. Answered(c)'
    BY <1>0, <1>2, <1>4 DEF ClientInv, Answered
  <2>3. QED
    BY <2>1, <2>2 DEF ClientInv
<1>6. QED
  BY <1>0, <1>1, <1>2, <1>3, <1>4, <1>5, ClientMoves DEF Fresh

LEMMA AskingKeeps ==
  ASSUME Inv, NEW c \in Clients, Asking(c), program' = program
  PROVE  Inv'
<1>0. /\ client[c] = "on" /\ program = "tcp" => seen[c] = 1
      /\ UNCHANGED <<program, serverVars, backlog, conn, link, heard, seen, client>>
      /\ UNCHANGED <<fate, at, current, message, todo, faults>>
  BY DEF Asking, Asks, serverVars
<1>1. /\ wrote[c] < Len(Request(c)) /\ wrote[c] \in {0, 1} /\ (wrote[c] = 1 => program = "v1.2")
      /\ wrote' = [wrote EXCEPT ![c] = wrote[c] + 1]
      /\ inbox' = [inbox EXCEPT ![c] = Append(inbox[c], Request(c)[wrote[c] + 1])]
      /\ Request(c)[wrote[c] + 1] \in {Prefix, c}
      /\ inbox[c] = Sent(c) => inbox'[c] = Sent(c)'
  BY AskingStep DEF Inv
<1>2. ClientInv(c) /\ link[c] = "open" /\ client[c] = "on"
  BY <1>0 DEF Inv, ClientInv, Sides, Asking
<1>3. inbox[c] = Sent(c) /\ inbox'[c] = Sent(c)'
  BY <1>1, <1>2 DEF ClientInv, Pieces
<1>4. /\ wrote' \in [Clients -> Nat] /\ wrote'[c] = wrote[c] + 1
      /\ \A d \in Clients \ {c} : wrote'[d] = wrote[d]
  <2>1. wrote \in [Clients -> Nat]
    BY DEF Inv, Flat
  <2>2. wrote[c] + 1 \in Nat
    BY <2>1
  <2>3. QED
    BY <1>1, <2>1, <2>2
<1>5. /\ inbox' \in [Clients -> Seq(Clients \cup {Prefix})] /\ inbox'[c] \in Seq({Prefix, c})
      /\ \A d \in Clients \ {c} : inbox'[d] = inbox[d]
  <2>1. inbox \in [Clients -> Seq(Clients \cup {Prefix})] /\ inbox[c] \in Seq({Prefix, c})
    BY <1>2 DEF Inv, Flat, ClientInv, Counted
  <2>2. /\ Append(inbox[c], Request(c)[wrote[c] + 1]) \in Seq({Prefix, c})
        /\ Append(inbox[c], Request(c)[wrote[c] + 1]) \in Seq(Clients \cup {Prefix})
    BY <1>1, <2>1, AppendProperties
  <2>3. QED
    BY <1>1, <2>1, <2>2
<1>6. Flat'
  BY <1>0, <1>4, <1>5 DEF Inv, Flat
<1>7. \A d \in Clients \ {c} : Untouched(d)
  BY <1>0, <1>4, <1>5 DEF Untouched
<1>8. Request(c)' = Request(c) /\ Answer(c)' = Answer(c) /\ Fresh(c)' = Fresh(c)
  BY <1>0, SameRequest DEF Fresh
<1>9. ClientInv(c)'
  <2>1. wrote'[c] <= Len(Request(c)) /\ wrote'[c] # 0
    <3>1. Len(Request(c)) \in Nat
      BY RequestValues DEF Inv, Flat
    <3>2. QED
      BY <1>1, <1>4, <3>1
  <2>2. Counted(c)' /\ Sides(c)'
    BY <1>0, <1>2, <1>5, <1>8, <2>1 DEF ClientInv, Counted, Sides
  <2>3. Pieces(c)'
    BY <1>3 DEF Pieces
  <2>4. program = "epoll" => Fresh(c)
    BY <1>1, <1>2 DEF ClientInv, Answered
  <2>5. program = "tcp" => seen'[c] = 1
    BY <1>0 DEF Asking
  <2>6. Answered(c)'
    BY <1>0, <1>2, <1>8, <2>4, <2>5 DEF ClientInv, Answered
  <2>7. QED
    BY <2>2, <2>3, <2>6 DEF ClientInv
<1>10. wrote[c] # 2
  BY <1>1
<1>11. QED
  BY <1>0, <1>2, <1>3, <1>6, <1>7, <1>9, <1>10, ClientMoves DEF Fresh

LEMMA ReadingStep ==
  ASSUME Inv, NEW c \in Clients, Reading(c)
  PROVE  Inv'
<1>0. /\ client[c] = "on" /\ Len(heard[c]) - seen[c] > 0
      /\ seen' = [seen EXCEPT ![c] = seen[c] + 1]
      /\ UNCHANGED <<program, serverVars, backlog, conn, link, inbox, heard, wrote, client>>
      /\ UNCHANGED <<fate, at, current, message, todo, faults>>
  BY DEF Reading, Reads, Unread, serverVars
<1>1. ClientInv(c) /\ link[c] = "open"
  BY <1>0 DEF Inv, ClientInv, Sides
<1>2. /\ seen[c] \in Nat /\ Len(heard[c]) \in Nat /\ seen[c] < Len(heard[c])
      /\ seen' \in [Clients -> Nat] /\ seen'[c] = seen[c] + 1
      /\ \A d \in Clients \ {c} : seen'[d] = seen[d]
  <2>1. seen \in [Clients -> Nat] /\ heard[c] \in Seq({Prefix, "welcome"} \cup Clients)
    BY DEF Inv, Flat
  <2>2. Len(heard[c]) \in Nat
    BY <2>1, LenProperties
  <2>3. QED
    BY <1>0, <2>1, <2>2
<1>3. Flat'
  BY <1>0, <1>2 DEF Inv, Flat
<1>4. \A d \in Clients \ {c} : Untouched(d)
  BY <1>0, <1>2 DEF Untouched
<1>5. /\ Request(c)' = Request(c) /\ Answer(c)' = Answer(c) /\ Sent(c)' = Sent(c)
      /\ Fresh(c)' = Fresh(c)
  BY <1>0, SameRequest DEF Sent, Fresh
<1>6. ClientInv(c)'
  <2>1. seen'[c] <= Len(heard'[c])
    BY <1>0, <1>2
  <2>2. Counted(c)' /\ Sides(c)' /\ Pieces(c)'
    BY <1>0, <1>1, <1>5, <2>1 DEF ClientInv, Counted, Sides, Pieces
  <2>3. program = "tcp" /\ wrote[c] = 1 => FALSE
    <3>1. ASSUME program = "tcp", wrote[c] = 1
          PROVE  FALSE
      <4>1. seen[c] = 1 /\ heard[c] \in {<<>>, <<"welcome">>}
        BY <1>1, <3>1, RequestValues DEF ClientInv, Answered, Inv, Flat
      <4>2. Len(heard[c]) = 0 \/ Len(heard[c]) = 1
        BY <4>1
      <4>3. \A m, n : m = 1 /\ (n = 0 \/ n = 1) => ~ (m < n)
        OBVIOUS
      <4>4. QED
        BY ONLY <1>2, <4>1, <4>2, <4>3, Zenon
    <3>2. QED
      BY <3>1
  <2>4. Answered(c)'
    BY <1>0, <1>1, <1>5, <2>3 DEF ClientInv, Answered
  <2>5. QED
    BY <2>2, <2>4 DEF ClientInv
<1>7. QED
  BY <1>0, <1>1, <1>3, <1>4, <1>5, <1>6, ClientMoves DEF Fresh

\* A client whose socket is closed.
LEMMA LeavingStep ==
  ASSUME Inv, NEW c \in Clients, client[c] = "on", NEW how \in {"done", "quit"}, Leaves(c, how),
         how = "done" => seen[c] = Len(Answer(c)) \/ fate \in Failures
  PROVE  Inv'
<1>0. /\ client' = [client EXCEPT ![c] = how]
      /\ UNCHANGED <<program, serverVars, backlog, conn, inbox, heard, seen, wrote>>
      /\ UNCHANGED <<fate, at, current, message, todo, faults>>
  BY DEF Leaves, serverVars
<1>1. PICK state \in (IF Unread(c) = 0 THEN {"fin"} ELSE {"rst", "poked"}) :
        link' = [link EXCEPT ![c] = state]
  BY DEF Leaves
<1>2. /\ link' \in [Clients -> Links] /\ link'[c] = state /\ state \in {"fin", "rst", "poked"}
      /\ client'[c] = how /\ client' \in [Clients -> {"new", "refused", "on", "done", "quit"}]
      /\ \A d \in Clients \ {c} : link'[d] = link[d] /\ client'[d] = client[d]
  BY <1>0, <1>1 DEF Inv, Flat, Links
<1>3. ClientInv(c) /\ link[c] = "open"
  BY DEF Inv, ClientInv, Sides
<1>4. Fresh(c) => link'[c] = "fin" /\ Fresh(c)'
  <2>1. ASSUME Fresh(c)
        PROVE  Unread(c) = 0
    <3>1. heard[c] = <<>> /\ seen[c] \in Nat /\ seen[c] <= Len(heard[c])
      BY <1>3, <2>1 DEF Fresh, ClientInv, Counted, Inv, Flat
    <3>2. Len(heard[c]) = 0
      BY <3>1
    <3>3. QED
      BY <3>1, <3>2 DEF Unread
  <2>2. QED
    BY <1>0, <1>1, <1>2, <2>1 DEF Fresh
<1>5. Flat'
  BY <1>0, <1>2 DEF Inv, Flat
<1>6. \A d \in Clients \ {c} : Untouched(d)
  BY <1>0, <1>2 DEF Untouched
<1>7. Request(c)' = Request(c) /\ Answer(c)' = Answer(c) /\ Sent(c)' = Sent(c)
  BY <1>0, SameRequest DEF Sent
<1>8. ClientInv(c)'
  <2>1. fate # "down"
    BY <1>3 DEF ClientInv, Sides
  <2>2. Counted(c)' /\ Sides(c)'
    BY <1>0, <1>2, <1>3, <1>7, <2>1 DEF ClientInv, Counted, Sides
  <2>3. Pieces(c)'
    BY <1>0, <1>2, <1>3, <1>7 DEF ClientInv, Pieces
  <2>4. Answered(c)'
    BY <1>0, <1>2, <1>3, <1>4, <1>7 DEF ClientInv, Answered
  <2>5. QED
    BY <2>2, <2>3, <2>4 DEF ClientInv
<1>9. QED
  BY <1>0, <1>2, <1>3, <1>4, <1>5, <1>6, <1>7, <1>8, ClientMoves

\* A client program that ends has its answer, unless the server does not answer.
LEMMA ThroughStep ==
  ASSUME Inv, NEW c \in Clients, Through(c)
  PROVE  Inv'
<1>1. ClientInv(c) /\ client[c] = "on" /\ link[c] = "open" /\ program \in Programs
  BY DEF Inv, Flat, ClientInv, Sides, Through
<1>2. seen[c] = Len(Answer(c)) \/ fate \in Failures
  <2>1. CASE program = "tcp" /\ wrote[c] = 1
    BY <1>1, <2>1, RequestValues DEF ClientInv, Answered
  <2>2. CASE EndOfStream(c) /\ conn[c] = "closed"
    <3>1. heard[c] = Answer(c)
      BY <1>1, <2>2 DEF ClientInv, Answered
    <3>2. Len(heard[c]) \in Nat /\ seen[c] \in Nat /\ Len(heard[c]) - seen[c] = 0
      BY <2>2, LenProperties DEF EndOfStream, Unread, Inv, Flat
    <3>3. seen[c] = Len(heard[c])
      BY <3>2
    <3>4. QED
      BY <3>1, <3>3
  <2>3. CASE ~Listening
    <3>1. fate # "down" /\ fate \in {"down", "up"} \cup Failures
      BY <1>1 DEF Inv, Flat, ClientInv, Sides
    <3>2. QED
      BY <2>3, <3>1 DEF Listening
  <2>4. QED
    BY <2>1, <2>2, <2>3 DEF Through, EndOfStream
<1>3. QED
  BY <1>1, <1>2, LeavingStep DEF Through

LEMMA ResetArrivesStep ==
  ASSUME Inv, NEW c \in Clients, ResetArrives(c)
  PROVE  Inv'
<1>0. /\ link[c] = "poked" /\ link' = [link EXCEPT ![c] = "pipe"]
      /\ UNCHANGED <<program, serverVars, backlog, conn, inbox, heard, clientVars>>
      /\ UNCHANGED <<fate, at, current, message, todo, faults, client, seen, wrote>>
  BY DEF ResetArrives, serverVars, clientVars
<1>1. /\ link' \in [Clients -> Links] /\ link'[c] = "pipe" /\ ClientInv(c)
      /\ \A d \in Clients \ {c} : link'[d] = link[d]
  BY <1>0 DEF Inv, Flat, Links
<1>2. Flat'
  BY <1>0, <1>1 DEF Inv, Flat
<1>3. \A d \in Clients \ {c} : Untouched(d)
  BY <1>0, <1>1 DEF Untouched
<1>4. Request(c)' = Request(c) /\ Answer(c)' = Answer(c) /\ Sent(c)' = Sent(c) /\ ~Fresh(c)
  BY <1>0, SameRequest DEF Sent, Fresh
<1>5. ClientInv(c)'
  <2>1. Counted(c)' /\ Sides(c)' /\ Pieces(c)'
    BY <1>0, <1>1, <1>4 DEF ClientInv, Counted, Sides, Pieces
  <2>2. Answered(c)'
    BY <1>0, <1>1, <1>4 DEF ClientInv, Answered
  <2>3. QED
    BY <2>1, <2>2 DEF ClientInv
<1>6. QED
  BY <1>0, <1>1, <1>2, <1>3, <1>4, <1>5, ClientMoves

-----------------------------------------------------------------------------
(***************************************************************************)
(* The invariant, and what it says.                                        *)
(***************************************************************************)
LEMMA InitHolds ==
  ASSUME Init
  PROVE  Inv
<1>1. program \in Programs /\ fate = "down" /\ at = StartsAt(program)
  BY DEF Init, Programs
<1>2. Flat
  BY <1>1, RequestReplyAssumption DEF Init, Flat, Links
<1>3. ServerInv
  <2>1. at \in {"accept", "wait"} /\ (program = "epoll" <=> at = "wait")
    BY <1>1 DEF StartsAt, Programs
  <2>2. IsInjective(backlog) /\ Range(backlog) = {}
    BY DEF Init, IsInjective, Range
  <2>3. Accepting
    BY <1>1, <2>1, <2>2 DEF Init, Accepting, Busy, Programs
  <2>4. Answering
    BY ONLY <2>1 DEF Answering
  <2>5. Survives
    BY <1>1 DEF Survives, Failures
  <2>6. QED
    BY <2>3, <2>4, <2>5 DEF ServerInv
<1>4. ASSUME NEW c \in Clients
      PROVE  ClientInv(c)
  <2>1. /\ conn[c] = "none" /\ link[c] = "new" /\ client[c] = "new"
        /\ inbox[c] = <<>> /\ heard[c] = <<>> /\ seen[c] = 0 /\ wrote[c] = 0
    BY DEF Init
  <2>2. Sent(c) = <<>> /\ Len(Request(c)) \in Nat /\ Len(heard[c]) = 0
    BY <1>1, <2>1, SentValues, RequestValues
  <2>3. Counted(c)
    BY <2>1, <2>2 DEF Counted
  <2>4. Sides(c) /\ Pieces(c) /\ Answered(c)
    BY <2>1, <2>2 DEF Sides, Pieces, Answered, Fresh
  <2>5. QED
    BY <2>3, <2>4 DEF ClientInv
<1>5. QED
  BY <1>2, <1>3, <1>4 DEF Inv

LEMMA NextKeeps ==
  ASSUME Inv, Next
  PROVE  Inv'
<1>1. Flat
  BY DEF Inv
<1>2. CASE SettingUp
  BY <1>2, SetUpStep DEF SettingUp
<1>3. CASE program = "tcp" /\ fate = "up" /\ (TcpAccept \/ TcpAcceptFails \/ TcpGreet \/ TcpReceive)
  <2>1. CASE TcpAccept
    BY <1>3, <2>1, SequentialAccept DEF TcpAccept, Goto
  <2>2. CASE TcpAcceptFails
    BY <1>3, <2>2, AcceptFailsStep DEF TcpAcceptFails
  <2>3. QED
    BY <1>3, <2>1, <2>2, TcpGreetStep, TcpReceiveStep
<1>4. CASE /\ program = "v1" /\ fate = "up"
           /\ LineAccept \/ LineAcceptFails \/ LineReceive \/ LineEnds \/ LineReply
  <2>1. CASE LineAccept
    BY <1>4, <2>1, SequentialAccept DEF LineAccept, Goto
  <2>2. CASE LineAcceptFails
    BY <1>4, <2>2, AcceptFailsStep DEF LineAcceptFails
  <2>3. QED
    BY <1>4, <2>1, <2>2, LineReceiveStep, LineReplyStep, LineEndsStep
<1>5. CASE /\ program = "v1.2" /\ fate = "up"
           /\ PrefixAccept \/ PrefixAcceptFails \/ PrefixReceive \/ PrefixReply \/ BodyReply
  <2>1. CASE PrefixAccept
    BY <1>5, <2>1, SequentialAccept DEF PrefixAccept, Goto
  <2>2. CASE PrefixAcceptFails
    BY <1>5, <2>2, AcceptFailsStep DEF PrefixAcceptFails
  <2>3. QED
    BY <1>5, <2>1, <2>2, PrefixReceiveStep, PrefixReplyStep, BodyReplyStep
<1>6. CASE program = "epoll" /\ fate = "up" /\ (EpollReturn \/ EpollAccept \/ EpollAcceptFails)
  <2>1. CASE EpollAcceptFails
    BY <1>6, <2>1, AcceptFailsStep DEF EpollAcceptFails
  <2>2. QED
    BY <1>6, <2>1, EpollReturnStep, EpollAcceptStep
<1>7. CASE program = "epoll" /\ fate = "up" /\ \E c \in Clients : EpollEcho(c)
  BY <1>7, EpollEchoStep
<1>8. CASE program = "epoll" /\ fate = "up" /\ \E c \in Clients : EpollEnd(c)
  BY <1>8, EpollEndStep
<1>9. ASSUME NEW c \in Clients, ClientStep(c), program' = program
      PROVE  Inv'
  BY <1>9, ConnectStep, ConnectFailsStep, AskingKeeps, ReadingStep, LeavingStep, ThroughStep,
     ResetArrivesStep DEF ClientStep, Quitting
<1>10. QED
  BY <1>1, <1>2, <1>3, <1>4, <1>5, <1>6, <1>7, <1>8, <1>9, Steps

\* The inductive invariant of the four servers.
THEOREM RequestReplyInvariant == Spec => []Inv
<1>1. ASSUME Inv, UNCHANGED vars
      PROVE  Inv'
  <2>1. Onward /\ \A d \in Clients : Untouched(d)
    BY <1>1 DEF vars, serverVars, clientVars, Onward, Untouched
  <2>2. Flat'
    BY <1>1 DEF vars, serverVars, clientVars, Inv, Flat
  <2>3. Accepting'
    BY <1>1 DEF vars, serverVars, clientVars, Inv, ServerInv, Accepting, Busy
  <2>4. Answering'
    BY <1>1 DEF vars, serverVars, clientVars, Inv, ServerInv, Answering, Fresh, Sent, Request, Answer
  <2>5. Survives'
    BY <1>1 DEF vars, serverVars, clientVars, Inv, ServerInv, Survives
  <2>6. QED
    BY <1>1, <2>1, <2>2, <2>3, <2>4, <2>5, NoClients DEF ServerInv
<1>2. QED
  BY <1>1, InitHolds, NextKeeps, PTL DEF Spec

\* What a client holds is a prefix of its answer.
LEMMA PartOfAnswer ==
  ASSUME Flat, NEW c \in Clients, Answered(c)
  PROVE  IsPrefix(heard[c], Answer(c))
<1>1. program \in Programs /\ Answer(c) \in Seq({Prefix, "welcome"} \cup Clients)
  <2>1. program \in Programs
    BY DEF Flat
  <2>2. CASE program = "v1.2"
    <3>1. Answer(c) = <<Prefix, c>>
      BY <2>1, <2>2, RequestValues
    <3>2. <<Prefix, c>> \in Seq({Prefix, "welcome"} \cup Clients)
      OBVIOUS
    <3>3. QED
      BY ONLY <2>1, <3>1, <3>2, Zenon
  <2>3. CASE program # "v1.2"
    <3>1. Answer(c) = <<"welcome">> \/ Answer(c) = <<c>>
      BY <2>1, <2>3, RequestValues
    <3>2. /\ <<"welcome">> \in Seq({Prefix, "welcome"} \cup Clients)
          /\ <<c>> \in Seq({Prefix, "welcome"} \cup Clients)
      OBVIOUS
    <3>3. QED
      BY ONLY <2>1, <3>1, <3>2, Zenon
  <2>4. QED
    BY <2>2, <2>3
<1>2. CASE heard[c] = Answer(c)
  <2>1. Len(Answer(c)) \in Nat
    BY <1>1, LenProperties
  <2>2. IsPrefix(Answer(c), Answer(c))
    BY <2>1 DEF IsPrefix
  <2>3. QED
    BY ONLY <1>2, <2>2, Zenon
<1>3. CASE heard[c] = <<>>
  <2>1. IsPrefix(<<>>, Answer(c))
    <3>1. Len(Answer(c)) \in Nat /\ SubSeq(Answer(c), 1, 0) = <<>> /\ SubSeq(<<>>, 1, 0) = <<>>
      BY <1>1, LenProperties, SubSeqEmpty
    <3>2. Len(<<>>) = 0 /\ 0 <= Len(Answer(c))
      BY <3>1
    <3>3. QED
      BY <3>1, <3>2 DEF IsPrefix
  <2>2. QED
    BY ONLY <1>3, <2>1, Zenon
<1>4. CASE program = "v1.2" /\ heard[c] = <<Prefix>>
  <2>1. Answer(c) = <<Prefix, c>> /\ Len(<<Prefix, c>>) = 2 /\ Len(<<Prefix>>) = 1
    BY <1>1, <1>4, RequestValues
  <2>2. IsPrefix(<<Prefix>>, <<Prefix, c>>)
    <3>1. /\ <<Prefix>> \in Seq(Clients \cup {Prefix}) /\ <<Prefix, c>> \in Seq(Clients \cup {Prefix})
          /\ <<Prefix>> # <<>> /\ <<Prefix, c>> # <<>>
          /\ <<Prefix>>[1] = Prefix /\ <<Prefix, c>>[1] = Prefix
      OBVIOUS
    <3>2. SubSeq(<<Prefix>>, 1, 1) = <<<<Prefix>>[1]>> /\ SubSeq(<<Prefix, c>>, 1, 1) = <<<<Prefix, c>>[1]>>
      BY ONLY <3>1, Parts
    <3>3. SubSeq(<<Prefix>>, 1, 1) = SubSeq(<<Prefix, c>>, 1, 1)
      BY ONLY <3>1, <3>2, Zenon
    <3>4. QED
      BY <2>1, <3>3 DEF IsPrefix
  <2>3. QED
    BY ONLY <1>4, <2>1, <2>2, Zenon
<1>5. QED
  BY <1>2, <1>3, <1>4 DEF Answered

\* The types of the variables (TypeOK).
THEOREM RequestReplyTypeCorrect == Spec => []TypeOK
<1>1. ASSUME Inv
      PROVE  TypeOK
  <2>1. /\ program \in Programs /\ fate \in {"down", "up"} \cup Failures
        /\ {current, message} \cup todo \subseteq Clients \cup {NoClient}
        /\ faults \in 0 .. MaxFaults /\ backlog \in Seq(Clients)
        /\ conn \in [Clients -> {"none", "open", "closed"}] /\ link \in [Clients -> Links]
        /\ client \in [Clients -> {"new", "refused", "on", "done", "quit"}]
        /\ heard \in [Clients -> Seq({Prefix, "welcome"} \cup Clients)]
        /\ seen \in [Clients -> Nat] /\ wrote \in [Clients -> Nat]
    BY <1>1 DEF Inv, Flat
  <2>2. at \in {"accept", "greet", "receive", "reply", "prefix", "body", "wait"}
    BY <1>1, <2>1 DEF Inv, ServerInv, Accepting, Programs
  <2>3. ASSUME NEW c \in Clients
        PROVE  /\ inbox[c] \in Seq({Prefix, c}) /\ heard[c] \in Seq({Prefix, "welcome"} \cup Clients)
               /\ seen[c] \in 0 .. Len(heard[c]) /\ wrote[c] \in 0 .. Len(Request(c))
    <3>1. Counted(c) /\ heard[c] \in Seq({Prefix, "welcome"} \cup Clients)
          /\ seen[c] \in Nat /\ wrote[c] \in Nat
      BY <1>1, <2>1 DEF Inv, ClientInv
    <3>2. Len(heard[c]) \in Nat /\ Len(Request(c)) \in Nat
      BY <2>1, <3>1, LenProperties, RequestValues
    <3>3. QED
      BY <3>1, <3>2 DEF Counted
  <2>4. QED
    BY <2>1, <2>2, <2>3 DEF TypeOK, Programs, Links
<1>2. QED
  BY <1>1, RequestReplyInvariant, PTL

\* Nobody gets anything but his own answer, and a client program that comes to
\* its end has all of it unless the server has failed (WholeAnswers).
THEOREM AnswersCorrect == Spec => []WholeAnswers
<1>1. ASSUME Inv
      PROVE  WholeAnswers
  <2>1. ASSUME NEW c \in Clients
        PROVE  /\ IsPrefix(heard[c], Answer(c))
               /\ client[c] = "done" => seen[c] = Len(Answer(c)) \/ fate \in Failures
    BY <1>1, PartOfAnswer DEF Inv, ClientInv, Answered
  <2>2. QED
    BY <2>1 DEF WholeAnswers
<1>2. QED
  BY <1>1, RequestReplyInvariant, PTL

\* A server ends only in the ways that Survives allows it.
THEOREM SurvivesCorrect == Spec => []Survives
<1>1. Inv => Survives
  BY DEF Inv, ServerInv
<1>2. QED
  BY <1>1, RequestReplyInvariant, PTL
=============================================================================
