---------------------------- MODULE SocketIOProofs ----------------------------
(***************************************************************************)
(* Proofs about SocketIO, for any messages, any sizes of the buffer and of *)
(* the prefix, and any number of calls: the readline of version 1 puts a   *)
(* line together from any pieces, all versions return whole lines, and     *)
(* receiveWithPrefix returns the messages that were sent.  The inductive   *)
(* invariant says which part of the stream each thing holds: the sender's  *)
(* message, the kernels, the receiver's buffer and the messages received.  *)
(***************************************************************************)
EXTENDS SocketIO, SequenceLemmas

\* The receiver has used up the error of a reset connection, and nothing comes any more.
Reset == closing = "rst" /\ end = "fin"

\* What each variable is by itself.
Flat ==
  /\ version \in Versions /\ whole \in BOOLEAN /\ msgs \in Scripts
  /\ todo \in Seq(Seq(Byte)) /\ out \in Seq(Byte) /\ sent \in Seq(Byte)
  /\ closing \in {"open", "fin", "rst"} /\ end \in {"open", "fin", "rst"}
  /\ rpc \in {"idle", "peek", "scan", "header", "body"}
  /\ arrived \in Nat /\ taken \in Nat /\ at \in Int /\ need \in Int
  /\ buffer \in Seq(Byte) /\ got \in Seq(Seq(Int))

\* What Init demands of the messages of readline.
Fit ==
  /\ version # "prefix" => \A k \in DOMAIN msgs : ToSet(msgs[k]) \cap {NUL, NL} = {}
  /\ version \in {"v1", "v5"} => Len(Stream) < BufferLen

\* The kernel has a first part of the stream; the sender has the rest of the message,
\* and the messages after it, unless it has ended the connection.
Sending ==
  /\ Len(sent) <= Len(Stream) /\ \A i \in 1 .. Len(sent) : sent[i] = Stream[i]
  /\ closing = "open" =>
       \E n \in 0 .. Len(msgs) :
         /\ todo = SubSeq(msgs, n + 1, Len(msgs))
         /\ Len(sent) + Len(out) = EndOf(n)
         /\ \A i \in 1 .. Len(out) : out[i] = Stream[Len(sent) + i]
  /\ closing # "open" => out = <<>> /\ todo = <<>>

\* What has arrived, and how the connection ends.
Arriving ==
  /\ taken <= arrived /\ arrived <= Len(sent)
  /\ whole => arrived \in Ends
  /\ end = "rst" => closing = "rst"
  /\ end = "fin" => closing # "open"
  /\ Reset => taken = arrived

\* The places of the receiver.
Places ==
  /\ IF version = "prefix" THEN rpc \in {"idle", "header", "body"} ELSE rpc \in {"idle", "peek", "scan"}
  /\ ~InReadline => at = 0
  /\ -1 <= at /\ at <= BufferLen - 2
  /\ InReadline => Len(buffer) = BufferLen
  /\ InReadline /\ ~Reset => 0 <= at /\ at <= taken
  /\ version # "prefix" /\ Reset => rpc = "peek"
  /\ rpc # "body" => need >= 0
  /\ rpc = "scan" => 1 <= need /\ need <= arrived - taken
  /\ rpc = "scan" /\ version = "v1_2" => at + need <= BufferLen - 1

\* Version 1 and 1.2 have the line so far in the buffer, and the bytes peeked behind it.
Pieces ==
  version \in {"v1", "v1_2"} =>
    /\ rpc = "idle" /\ LinesFit => taken \in Ends
    /\ InReadline /\ ~Reset =>
         /\ \A i \in 1 .. at : buffer[i] = Stream[taken - at + i] /\ buffer[i] # NL
         /\ LinesFit => taken - at \in Ends
         /\ rpc = "scan" => \A i \in 1 .. need : buffer[at + i] = Stream[taken + i]

\* The lines that have been received, and where the next one begins.
InLines == version = "v1" \/ (version \in {"v1_2", "v5"} /\ whole /\ LinesFit)

Received1 ==
  /\ Len(got) <= Len(msgs) /\ \A k \in 1 .. Len(got) : got[k] = AsReceived(msgs[k])
  /\ rpc = "idle" => taken = EndOf(Len(got))
  /\ InReadline /\ ~Reset =>
       /\ taken - at = EndOf(Len(got))
       /\ version # "v1" =>
            /\ at = 0
            /\ rpc = "scan" => /\ \A i \in 1 .. need : buffer[i] = Stream[taken + i]
                               /\ taken + need >= EndOf(Len(got) + 1)

\* What the receiver of length prefixes has of message n + 1.
Synced(n) ==
  /\ rpc = "idle" => taken = EndOf(n)
  /\ rpc = "header" =>
       /\ need = Width /\ Len(buffer) <= Width /\ taken = EndOf(n) + Len(buffer)
       /\ \A i \in 1 .. Len(buffer) : buffer[i] = Stream[EndOf(n) + i]
  /\ rpc = "body" =>
       /\ n < Len(msgs) /\ need = AsInt(Size(msgs[n + 1])) /\ Len(buffer) <= Len(Payload(msgs[n + 1]))
       /\ taken = EndOf(n) + Width + Len(buffer)
       /\ \A i \in 1 .. Len(buffer) : buffer[i] = Payload(msgs[n + 1])[i]

\* What receiveWithPrefix makes of message m.
Delivered(m) == IF AsInt(Size(m)) < 0 THEN [i \in 1 .. Size(m) |-> Unwritten] ELSE Payload(m)

\* n messages have been received, and after them the end, with no further message complete.
Framing(n) ==
  /\ n <= Len(got)
  /\ \A k \in 1 .. n : got[k] = Delivered(msgs[k])
  /\ \A k \in n + 1 .. Len(got) : got[k] = <<>>
  /\ IF Len(got) = n THEN Synced(n)
     ELSE /\ end = "fin" /\ taken = arrived
          /\ n < Len(msgs) => arrived < EndOf(n + 1)
          /\ rpc # "idle" => rpc = "header" /\ buffer = <<>> /\ need = Width

Receiving ==
  /\ Places /\ Pieces
  /\ InLines => Received1
  /\ version = "prefix" => \E n \in 0 .. Len(msgs) : Framing(n)

Inv == Flat /\ Fit /\ Sending /\ Arriving /\ Receiving

-----------------------------------------------------------------------------
(* The operators of the model.                                              *)

\* What 1 counts for: the powers of Base.
LEMMA WeightSteps ==
  /\ Weight[0] = 1
  /\ \A k \in Nat : Weight[k] \in Nat \ {0} /\ Weight[k + 1] = Base * Weight[k]
<1> DEFINE step == [k \in Nat |-> [x \in Nat \ {0} |-> Base * x]]
           Powers(f) == f = [k \in Nat |-> IF k = 0 THEN 1 ELSE Base * f[k - 1]]
<1>1. Base \in Nat \ {0, 1}
  BY SocketIOAssumption
<1>2. step \in [Nat -> [Nat \ {0} -> Nat \ {0}]]
  BY <1>1
<1>3. \E f \in [Nat -> Nat \ {0}] : Recurs(f, 1, step)
  <2> HIDE DEF step
  <2>1. 1 \in Nat \ {0}
    OBVIOUS
  <2>2. QED
    BY <1>2, <2>1, Recursion
<1>4. PICK f \in [Nat -> Nat \ {0}] : f[0] = 1 /\ \A k \in Nat : f[k + 1] = Base * f[k]
  <2>1. \A k \in Nat, x \in Nat \ {0} : step[k + 1][x] = Base * x
    OBVIOUS
  <2> HIDE DEF step
  <2>2. PICK f \in [Nat -> Nat \ {0}] : f[0] = 1 /\ \A k \in Nat : f[k + 1] = step[k + 1][f[k]]
    BY <1>3 DEF Recurs
  <2>3. \A k \in Nat : f[k] \in Nat \ {0}
    OBVIOUS
  <2>4. \A k \in Nat : f[k + 1] = Base * f[k]
    BY ONLY <2>1, <2>2, <2>3
  <2>5. QED
    BY <2>2, <2>4
<1>5. Powers(f)
  <2>1. ASSUME NEW k \in Nat
        PROVE  f[k] = IF k = 0 THEN 1 ELSE Base * f[k - 1]
    <3>1. k # 0 => k - 1 \in Nat /\ (k - 1) + 1 = k
      OBVIOUS
    <3>2. QED
      BY <1>4, <3>1
  <2>2. QED
    BY <1>4, <2>1
<1>6. Powers(Weight)
  <2>1. \E g : Powers(g)
    BY <1>5
  <2>2. Weight = CHOOSE g : Powers(g)
    BY DEF Weight
  <2> HIDE DEF Powers
  <2>3. QED
    BY <2>1, <2>2
<1>7. Weight[0] = 1 /\ \A k \in Nat : Weight[k + 1] = Base * Weight[k]
  <2>1. \A k \in Nat : k + 1 \in Nat /\ k + 1 # 0 /\ (k + 1) - 1 = k
    OBVIOUS
  <2>2. QED
    BY <1>6, <2>1
<1>8. ASSUME NEW n \in Nat
      PROVE  Weight[n] \in Nat \ {0}
  <2> DEFINE T == {k \in Nat : Weight[k] \in Nat \ {0}}
  <2>1. \A x \in Nat \ {0} : Base * x \in Nat \ {0}
    BY <1>1
  <2>2. 0 \in T /\ \A k \in 0 .. n - 1 : k \in T => k + 1 \in T
    BY <1>7, <2>1
  <2> HIDE DEF T
  <2>3. \A k \in 0 .. n : k \in T
    BY <2>2, UpTo
  <2>4. QED
    BY <2>3 DEF T
<1>9. QED
  BY <1>7, <1>8

\* Length adds up the bytes by Horner's rule.
LEMMA LengthSteps ==
  ASSUME NEW bytes \in Seq(Nat)
  PROVE  \E f : /\ f[0] = 0 /\ Length(bytes) = f[Len(bytes)]
                /\ \A k \in 0 .. Len(bytes) - 1 : f[k + 1] = f[k] * Base + bytes[k + 1]
<1> DEFINE D == 0 .. Len(bytes)
           step == [k \in Nat |-> [x \in Nat |-> IF k \in 1 .. Len(bytes) THEN x * Base + bytes[k] ELSE x]]
           Adds(f) == f = [k \in D |-> IF k = 0 THEN 0 ELSE f[k - 1] * Base + bytes[k]]
<1>1. Base \in Nat /\ Len(bytes) \in Nat /\ \A k \in 1 .. Len(bytes) : bytes[k] \in Nat
  BY SocketIOAssumption, LenProperties, ElementOfSeq
<1>2. step \in [Nat -> [Nat -> Nat]]
  <2>1. \A k \in Nat, x \in Nat : (IF k \in 1 .. Len(bytes) THEN x * Base + bytes[k] ELSE x) \in Nat
    <3>1. \A x, y, z \in Nat : x * y + z \in Nat
      OBVIOUS
    <3>2. QED
      BY <1>1, <3>1
  <2>2. QED
    BY <2>1
<1>3. \E f \in [Nat -> Nat] : Recurs(f, 0, step)
  <2> HIDE DEF step
  <2>1. 0 \in Nat
    OBVIOUS
  <2>2. QED
    BY <1>2, <2>1, Recursion
<1>4. PICK f \in [Nat -> Nat] : f[0] = 0 /\ \A k \in 0 .. Len(bytes) - 1 : f[k + 1] = f[k] * Base + bytes[k + 1]
  <2>1. \A k \in 0 .. Len(bytes) - 1, x \in Nat : k \in Nat /\ step[k + 1][x] = x * Base + bytes[k + 1]
    BY <1>1
  <2> HIDE DEF step
  <2>2. QED
    BY <1>3, <2>1 DEF Recurs
<1>5. Adds([k \in D |-> f[k]])
  <2>1. ASSUME NEW k \in D
        PROVE  f[k] = IF k = 0 THEN 0 ELSE f[k - 1] * Base + bytes[k]
    <3>1. k # 0 => k - 1 \in 0 .. Len(bytes) - 1 /\ (k - 1) + 1 = k
      BY <1>1
    <3>2. QED
      BY <1>4, <3>1
  <2>2. \A k \in D : k # 0 => k - 1 \in D
    BY <1>1
  <2>3. QED
    BY <2>1, <2>2
<1>6. PICK g : Adds(g) /\ Length(bytes) = g[Len(bytes)]
  <2>1. \E g : Adds(g)
    BY <1>5
  <2>2. Length(bytes) = (CHOOSE g : Adds(g))[Len(bytes)]
    BY DEF Length
  <2> HIDE DEF Adds
  <2>3. Adds(CHOOSE g : Adds(g))
    BY <2>1
  <2>4. QED
    BY <2>2, <2>3
<1>7. g[0] = 0 /\ \A k \in 0 .. Len(bytes) - 1 : g[k + 1] = g[k] * Base + bytes[k + 1]
  <2>1. \A k \in 0 .. Len(bytes) - 1 : k + 1 \in D /\ k + 1 # 0 /\ (k + 1) - 1 = k
    BY <1>1
  <2>2. 0 \in D
    BY <1>1
  <2>3. QED
    BY <1>6, <2>1, <2>2
<1>8. QED
  BY <1>6, <1>7

\* ntohl gives back what htonl was given: the receiver of a prefix learns the length that
\* sendWithPrefix put into it, for any length that the prefix can hold.
THEOREM LengthOfHeader ==
  ASSUME NEW n \in Nat, n < Weight[Width]
  PROVE  Header(n) \in Seq(Byte) /\ Len(Header(n)) = Width /\ Length(Header(n)) = n
<1>1. Base \in Nat \ {0, 1} /\ Width \in Nat
  BY SocketIOAssumption
<1>2. \A k \in 0 .. Width : Width - k \in Nat /\ Weight[Width - k] \in Nat \ {0}
  BY <1>1, WeightSteps
<1>3. \A a \in Nat, b \in Nat \ {0} : a \div b \in Nat /\ a % b \in Nat /\ (a \div b) * b + (a % b) = a
  OBVIOUS
<1>4. \A a \in Nat, b, c \in Nat \ {0} : a \div (b * c) = (a \div c) \div b
  OBVIOUS
<1>5. /\ Header(n) \in Seq(Byte) /\ Len(Header(n)) = Width
      /\ \A k \in 1 .. Width : Header(n)[k] = (n \div Weight[Width - k]) % Base
  <2>1. \A k \in 1 .. Width : (n \div Weight[Width - k]) % Base \in Byte
    BY <1>1, <1>2, <1>3 DEF Byte
  <2>2. QED
    BY <1>1, <2>1, IsASeq DEF Header
<1>6. PICK f : /\ f[0] = 0 /\ Length(Header(n)) = f[Width]
               /\ \A k \in 0 .. Width - 1 : f[k + 1] = f[k] * Base + Header(n)[k + 1]
  BY <1>5, LengthSteps DEF Byte
<1> DEFINE T == {k \in 0 .. Width : f[k] = n \div Weight[Width - k]}
<1>7. 0 \in T
  <2>1. \A a \in Nat, b \in Nat \ {0} : a < b => a \div b = 0
    OBVIOUS
  <2>2. QED
    BY <1>1, <1>2, <1>6, <2>1
<1>8. ASSUME NEW k \in 0 .. Width - 1, k \in T
      PROVE  k + 1 \in T
  <2>1. k + 1 \in 1 .. Width /\ Width - k = (Width - (k + 1)) + 1 /\ Width - (k + 1) \in Nat
    BY <1>1
  <2>2. PICK low \in Nat \ {0} : low = Weight[Width - (k + 1)]
    BY <1>2, <2>1
  <2>3. Weight[Width - k] = Base * low
    BY <2>1, <2>2, WeightSteps
  <2>4. f[k] = (n \div low) \div Base
    <3>1. f[k] = n \div (Base * low)
      BY <1>8, <2>3
    <3>2. QED
      BY <1>1, <1>4, <3>1
  <2>5. f[k + 1] = f[k] * Base + ((n \div low) % Base)
    BY <1>5, <1>6, <2>1, <2>2
  <2>6. f[k + 1] = n \div low
    BY <1>1, <1>3, <2>4, <2>5
  <2>7. QED
    BY <2>1, <2>2, <2>6
<1> HIDE DEF T
<1>9. Width \in T
  BY <1>1, <1>7, <1>8, UpTo
<1>10. f[Width] = n
  <2>1. f[Width] = n \div Weight[Width - Width]
    BY <1>9 DEF T
  <2>2. Width - Width = 0 /\ n \div 1 = n
    BY <1>1
  <2>3. QED
    BY <2>1, <2>2, WeightSteps
<1>11. QED
  BY <1>5, <1>6, <1>10

\* FlattenSeq appends one sequence after the other.
LEMMA FlattenSteps ==
  ASSUME NEW S, NEW seqs \in Seq(Seq(S)), NEW f, f[0] = <<>>,
         \A k \in 0 .. Len(seqs) - 1 : f[k] \in Seq(S) /\ f[k + 1] = f[k] \o seqs[k + 1]
  PROVE  FlattenSeq(seqs) = f[Len(seqs)]
<1> DEFINE D == 1 .. Len(seqs)
           Joins(g) == g = [i \in D |-> IF i = 1 THEN seqs[i] ELSE g[i - 1] \o seqs[i]]
<1>1. Len(seqs) \in Nat /\ \A k \in D : seqs[k] \in Seq(S)
  BY LenProperties, ElementOfSeq
<1>2. CASE Len(seqs) = 0
  <2>1. FlattenSeq(seqs) = seqs
    BY <1>2 DEF FlattenSeq
  <2>2. seqs = <<>>
    BY <1>2, EmptySeq
  <2>3. QED
    BY <1>2, <2>1, <2>2
<1>3. CASE Len(seqs) # 0
  <2>1. f[1] = seqs[1]
    <3>1. 0 \in 0 .. Len(seqs) - 1 /\ 1 \in D /\ 0 + 1 = 1
      BY <1>1, <1>3
    <3>2. f[1] = f[0] \o seqs[1] /\ seqs[1] \in Seq(S)
      BY ONLY <1>1, <3>1, \A k \in 0 .. Len(seqs) - 1 : f[k] \in Seq(S) /\ f[k + 1] = f[k] \o seqs[k + 1]
    <3>3. QED
      BY <3>2, ConcatEmptySeq
  <2>2. Joins([i \in D |-> f[i]])
    <3>1. ASSUME NEW i \in D
          PROVE  f[i] = IF i = 1 THEN seqs[i] ELSE [j \in D |-> f[j]][i - 1] \o seqs[i]
      <4>1. i # 1 => i - 1 \in D /\ i - 1 \in 0 .. Len(seqs) - 1 /\ (i - 1) + 1 = i
        BY <1>1
      <4>2. QED
        BY <2>1, <4>1
    <3>2. QED
      BY <3>1
  <2>3. PICK g : Joins(g) /\ FlattenSeq(seqs) = g[Len(seqs)]
    <3>1. \E g : Joins(g)
      BY <2>2
    <3>2. FlattenSeq(seqs) = (CHOOSE g : Joins(g))[Len(seqs)]
      BY <1>3 DEF FlattenSeq
    <3> HIDE DEF Joins
    <3>3. Joins(CHOOSE g : Joins(g))
      BY <3>1
    <3>4. QED
      BY <3>2, <3>3
  <2>4. \A i \in D : g[i] = IF i = 1 THEN seqs[i] ELSE g[i - 1] \o seqs[i]
    BY <2>3
  <2> DEFINE T == {k \in 0 .. Len(seqs) : k = 0 \/ g[k] = f[k]}
  <2>5. ASSUME NEW k \in 0 .. Len(seqs) - 1, k \in T
        PROVE  k + 1 \in T
    <3>1. k + 1 \in D /\ (k + 1) - 1 = k /\ (k # 0 => k + 1 # 1)
      BY <1>1
    <3>2. CASE k = 0
      BY <2>1, <2>4, <3>1, <3>2
    <3>3. CASE k # 0
      <4>1. g[k + 1] = g[k] \o seqs[k + 1]
        BY <2>4, <3>1, <3>3
      <4>2. f[k + 1] = f[k] \o seqs[k + 1] /\ g[k] = f[k]
        BY <2>5, <3>3
      <4>3. g[k + 1] = f[k + 1]
        BY ONLY <4>1, <4>2, Zenon
      <4>4. QED
        BY <3>1, <4>3
    <3>4. QED
      BY <3>2, <3>3
  <2>6. 0 \in T
    BY <1>1
  <2> HIDE DEF T
  <2>7. \A k \in 0 .. Len(seqs) : k \in T
    BY ONLY <1>1, <2>5, <2>6, UpTo
  <2>8. Len(seqs) \in T
    BY <1>1, <2>7
  <2>9. QED
    BY <1>3, <2>3, <2>8 DEF T
<1>4. QED
  BY <1>2, <1>3

LEMMA BytesAreInts ==
  ASSUME NEW m \in Seq(Byte)
  PROVE  m \in Seq(Int)
<1>1. Len(m) \in Nat /\ m = [i \in 1 .. Len(m) |-> m[i]] /\ \A i \in 1 .. Len(m) : m[i] \in Int
  BY LenProperties, ElementOfSeq DEF Byte
<1>2. [i \in 1 .. Len(m) |-> m[i]] \in Seq(Int)
  BY <1>1, IsASeq
<1>3. QED
  BY <1>1, <1>2

\* The prefix of a message holds its length when an int can hold it, and otherwise a number
\* of which the two conversions make the same again.
LEMMA SizeValues ==
  ASSUME NEW m \in Seq(Byte)
  PROVE  /\ Size(m) \in Nat /\ AsInt(Size(m)) \in Int /\ Payload(m) \in Seq(Byte) /\ Len(Payload(m)) \in Nat
         /\ Header(Size(m)) \in Seq(Byte) /\ Len(Header(Size(m))) = Width /\ Length(Header(Size(m))) = Size(m)
         /\ AsInt(Size(m)) >= 0 => AsInt(Size(m)) = Size(m) /\ Len(Payload(m)) = Size(m)
         /\ AsInt(Size(m)) < 0 => AsUnsigned(AsInt(Size(m))) = Size(m) /\ Payload(m) = <<>>
         /\ 2 * Len(m) < Weight[Width] => AsInt(Size(m)) = Len(m) /\ Size(m) = Len(m) /\ Payload(m) = m
<1>1. PICK l \in Nat, w \in Nat \ {0} : l = Len(m) /\ w = Weight[Width]
  <2>1. Width \in Nat
    BY SocketIOAssumption
  <2>2. QED
    BY <2>1, WeightSteps, LenProperties
<1>2. PICK n \in Nat : n = Size(m) /\ n < w /\ (l < w => n = l)
  <2>1. \A a \in Nat, b \in Nat \ {0} : a % b \in Nat /\ a % b < b /\ (a < b => a % b = a)
    OBVIOUS
  <2>2. QED
    BY <1>1, <2>1 DEF Size
<1>3. PICK i \in Int : /\ i = AsInt(Size(m)) /\ (2 * n < w => i = n) /\ (~(2 * n < w) => i = n - w)
  BY <1>1, <1>2 DEF AsInt
<1>4. i >= 0 <=> i = n
  BY <1>2, <1>3
<1>5. i < 0 => AsUnsigned(i) = n
  BY <1>1, <1>2, <1>3 DEF AsUnsigned
<1>6. Payload(m) = IF i > 0 THEN SubSeq(m, 1, i) ELSE <<>>
  BY <1>3 DEF Payload
<1>7. Payload(m) \in Seq(Byte) /\ Len(Payload(m)) \in Nat /\ (i >= 0 => Len(Payload(m)) = n)
  <2>1. CASE i > 0
    <3>1. i \in 0 .. Len(m)
      <4>1. l < w => n = l
        BY <1>2
      <4>2. ~(l < w) => n <= l
        BY <1>1, <1>2
      <4>3. QED
        BY <1>1, <1>2, <1>4, <2>1, <4>1, <4>2
    <3>2. SubSeq(m, 1, i) \in Seq(Byte) /\ Len(SubSeq(m, 1, i)) = i
      BY <3>1, Beginning
    <3>3. QED
      BY <1>4, <1>6, <2>1, <3>2
  <2>2. CASE ~(i > 0)
    <3>1. Payload(m) = <<>>
      BY <1>6, <2>2
    <3>2. i >= 0 => n = 0
      BY <1>4, <2>2
    <3>3. QED
      BY <3>1, <3>2, EmptySeq
  <2>3. QED
    BY <2>1, <2>2
<1>8. ASSUME 2 * l < w
      PROVE  i = l /\ n = l /\ Payload(m) = m
  <2>1. l < w
    BY <1>1, <1>8
  <2>2. n = l
    BY <1>2, <2>1
  <2>3. i = l
    BY <1>3, <1>8, <2>2
  <2>4. l > 0 => SubSeq(m, 1, l) = m
    BY <1>1, SubSeqFull
  <2>5. ~(l > 0) => m = <<>>
    BY <1>1, EmptySeq
  <2>6. QED
    BY <1>6, <2>2, <2>3, <2>4, <2>5
<1>9. Header(n) \in Seq(Byte) /\ Len(Header(n)) = Width /\ Length(Header(n)) = n
  BY <1>1, <1>2, LengthOfHeader
<1>10. i < 0 => Payload(m) = <<>>
  BY <1>6
<1>11. QED
  BY <1>1, <1>2, <1>3, <1>4, <1>5, <1>7, <1>8, <1>9, <1>10

LEMMA PayloadFits ==
  ASSUME NEW m \in Seq(Byte), AsInt(Size(m)) >= 0
  PROVE  Len(Payload(m)) = AsInt(Size(m))
BY SizeValues

\* What receiveWithPrefix makes of a message has the length that the prefix announces.
LEMMA DeliveredValues ==
  ASSUME NEW m \in Seq(Byte)
  PROVE  /\ Delivered(m) \in Seq(Int) /\ Len(Delivered(m)) = Size(m)
         /\ 2 * Len(m) < Weight[Width] => Delivered(m) = m
<1>1. CASE AsInt(Size(m)) < 0
  <2>1. PICK n \in Nat : n = Size(m)
    BY SizeValues
  <2>2. Delivered(m) = [i \in 1 .. n |-> Unwritten]
    BY <1>1, <2>1 DEF Delivered
  <2>3. Unwritten \in Int
    BY DEF Unwritten
  <2>4. [i \in 1 .. n |-> Unwritten] \in Seq(Int) /\ Len([i \in 1 .. n |-> Unwritten]) = n
    BY <2>3, IsASeq
  <2>5. ~(2 * Len(m) < Weight[Width])
    BY <1>1, SizeValues, LenProperties
  <2>6. QED
    BY <2>1, <2>2, <2>4, <2>5
<1>2. CASE ~(AsInt(Size(m)) < 0)
  <2>1. Delivered(m) = Payload(m) /\ AsInt(Size(m)) >= 0
    BY <1>2, SizeValues DEF Delivered
  <2>2. Payload(m) \in Seq(Int)
    BY SizeValues, BytesAreInts
  <2>3. QED
    BY <2>1, <2>2, SizeValues
<1>3. QED
  BY <1>1, <1>2

\* The encoded messages.
LEMMA MessageValues ==
  ASSUME Flat
  PROVE  /\ msgs \in Seq(Seq(Byte)) /\ Len(msgs) \in Nat /\ DOMAIN msgs = 1 .. Len(msgs)
         /\ \A k \in 1 .. Len(msgs) : /\ msgs[k] \in Seq(Byte) /\ Len(msgs[k]) \in Nat
                                      /\ Encoded(msgs[k]) \in Seq(Byte)
<1>1. msgs \in Scripts /\ msgs \in Seq(Seq(Byte))
  BY SocketIOAssumption DEF Flat
<1>2. Len(msgs) \in Nat /\ DOMAIN msgs = 1 .. Len(msgs)
  BY <1>1, LenProperties
<1>3. ASSUME NEW k \in 1 .. Len(msgs)
      PROVE  msgs[k] \in Seq(Byte) /\ Len(msgs[k]) \in Nat
  BY <1>1, <1>2, ElementOfSeq, LenProperties
<1>4. ASSUME NEW k \in 1 .. Len(msgs)
      PROVE  Encoded(msgs[k]) \in Seq(Byte)
  <2>1. Header(Size(msgs[k])) \in Seq(Byte) /\ Payload(msgs[k]) \in Seq(Byte)
    BY <1>3, SizeValues
  <2>2. NL \in Byte
    BY DEF NL, Byte
  <2>3. Header(Size(msgs[k])) \o Payload(msgs[k]) \in Seq(Byte) /\ Append(msgs[k], NL) \in Seq(Byte)
    BY <1>3, <2>1, <2>2, ConcatProperties, AppendProperties
  <2>4. QED
    BY <2>3 DEF Encoded
<1>5. QED
  BY <1>1, <1>2, <1>3, <1>4

\* The stream grows by one message after the other.
LEMMA StreamSteps ==
  ASSUME Flat
  PROVE  /\ Upto(0) = <<>> /\ Stream = Upto(Len(msgs))
         /\ \A n \in 0 .. Len(msgs) : Upto(n) \in Seq(Byte)
         /\ \A n \in 0 .. Len(msgs) - 1 : Upto(n + 1) = Upto(n) \o Encoded(msgs[n + 1])
<1> DEFINE step == [k \in Nat |-> [x \in Seq(Byte) |-> IF k \in 1 .. Len(msgs) THEN x \o Encoded(msgs[k]) ELSE x]]
<1>1. Len(msgs) \in Nat /\ DOMAIN msgs = 1 .. Len(msgs) /\ \A k \in 1 .. Len(msgs) : Encoded(msgs[k]) \in Seq(Byte)
  BY MessageValues
<1>2. step \in [Nat -> [Seq(Byte) -> Seq(Byte)]]
  <2>1. \A k \in Nat, x \in Seq(Byte) : (IF k \in 1 .. Len(msgs) THEN x \o Encoded(msgs[k]) ELSE x) \in Seq(Byte)
    BY <1>1, ConcatProperties
  <2>2. QED
    BY <2>1
<1>3. \E f \in [Nat -> Seq(Byte)] : Recurs(f, <<>>, step)
  <2> HIDE DEF step
  <2>1. <<>> \in Seq(Byte)
    OBVIOUS
  <2>2. QED
    BY <1>2, <2>1, Recursion
<1>4. PICK f \in [Nat -> Seq(Byte)] : f[0] = <<>> /\ \A k \in 0 .. Len(msgs) - 1 : f[k + 1] = f[k] \o Encoded(msgs[k + 1])
  <2>1. \A k \in 0 .. Len(msgs) - 1, x \in Seq(Byte) : k \in Nat /\ step[k + 1][x] = x \o Encoded(msgs[k + 1])
    BY <1>1
  <2> HIDE DEF step
  <2>2. PICK f \in [Nat -> Seq(Byte)] : f[0] = <<>> /\ \A k \in Nat : f[k + 1] = step[k + 1][f[k]]
    BY <1>3 DEF Recurs
  <2>3. \A k \in Nat : f[k] \in Seq(Byte)
    OBVIOUS
  <2>4. \A k \in 0 .. Len(msgs) - 1 : f[k + 1] = f[k] \o Encoded(msgs[k + 1])
    BY ONLY <2>1, <2>2, <2>3
  <2>5. QED
    BY <2>2, <2>4
<1>5. ASSUME NEW n \in 0 .. Len(msgs)
      PROVE  Upto(n) = f[n]
  <2> DEFINE seqs == [k \in 1 .. n |-> Encoded(msgs[k])]
  <2>1. n \in Nat /\ \A k \in 1 .. n : k \in 1 .. Len(msgs)
    BY <1>1
  <2>2. seqs \in Seq(Seq(Byte)) /\ Len(seqs) = n /\ \A k \in 1 .. n : seqs[k] = Encoded(msgs[k])
    BY <1>1, <2>1, IsASeq
  <2> HIDE DEF seqs
  <2>3. \A k \in 0 .. Len(seqs) - 1 : f[k] \in Seq(Byte) /\ f[k + 1] = f[k] \o seqs[k + 1]
    <3>1. \A k \in 0 .. n - 1 : k \in Nat /\ k \in 0 .. Len(msgs) - 1 /\ k + 1 \in 1 .. n
      BY <1>1, <2>1
    <3>2. QED
      BY <1>4, <2>2, <3>1
  <2>4. FlattenSeq(seqs) = f[Len(seqs)]
    BY <1>4, <2>2, <2>3, FlattenSteps
  <2>5. QED
    BY <2>2, <2>4 DEF Upto, seqs
<1>6. Stream = Upto(Len(msgs))
  BY DEF Stream
<1>7. 0 \in 0 .. Len(msgs) /\ \A n \in 0 .. Len(msgs) : n \in Nat
  BY <1>1
<1>8. \A n \in 0 .. Len(msgs) - 1 : n \in 0 .. Len(msgs) /\ n + 1 \in 0 .. Len(msgs)
  BY <1>1
<1> HIDE DEF Upto
<1>9. Upto(0) = <<>> /\ \A n \in 0 .. Len(msgs) : Upto(n) \in Seq(Byte)
  BY <1>4, <1>5, <1>7
<1>10. ASSUME NEW n \in 0 .. Len(msgs) - 1
       PROVE  Upto(n + 1) = Upto(n) \o Encoded(msgs[n + 1])
  <2>1. f[n + 1] = f[n] \o Encoded(msgs[n + 1]) /\ Upto(n) = f[n] /\ Upto(n + 1) = f[n + 1]
    BY <1>4, <1>5, <1>8
  <2>2. QED
    BY ONLY <2>1, Zenon
<1>11. QED
  BY <1>6, <1>9, <1>10

\* What the encoding of a message is made of.
LEMMA EncodedValues ==
  ASSUME Flat, NEW k \in 1 .. Len(msgs)
  PROVE  /\ Len(Encoded(msgs[k])) \in Nat \ {0}
         /\ version = "prefix" =>
              /\ Len(Encoded(msgs[k])) = Width + Len(Payload(msgs[k]))
              /\ \A i \in 1 .. Width : Encoded(msgs[k])[i] = Header(Size(msgs[k]))[i]
              /\ \A i \in 1 .. Len(Payload(msgs[k])) : Encoded(msgs[k])[Width + i] = Payload(msgs[k])[i]
         /\ version # "prefix" =>
              /\ Len(Encoded(msgs[k])) = Len(msgs[k]) + 1
              /\ \A i \in 1 .. Len(msgs[k]) : Encoded(msgs[k])[i] = msgs[k][i]
              /\ Encoded(msgs[k])[Len(msgs[k]) + 1] = NL
<1>1. msgs[k] \in Seq(Byte) /\ Len(msgs[k]) \in Nat /\ Width \in Nat \ {0}
  BY MessageValues, SocketIOAssumption
<1>2. /\ Header(Size(msgs[k])) \in Seq(Byte) /\ Len(Header(Size(msgs[k]))) = Width
      /\ Payload(msgs[k]) \in Seq(Byte) /\ Len(Payload(msgs[k])) \in Nat
  BY <1>1, SizeValues
<1>3. CASE version = "prefix"
  <2>1. Encoded(msgs[k]) = Header(Size(msgs[k])) \o Payload(msgs[k])
    BY <1>3 DEF Encoded
  <2>2. PICK h \in Seq(Byte), m \in Seq(Byte) : h = Header(Size(msgs[k])) /\ m = Payload(msgs[k])
    BY <1>1, <1>2
  <2>3. /\ Len(h \o m) = Len(h) + Len(m)
        /\ \A i \in 1 .. Len(h) + Len(m) : (h \o m)[i] = IF i <= Len(h) THEN h[i] ELSE m[i - Len(h)]
    BY ConcatProperties
  <2>4. Len(h) = Width /\ Len(m) \in Nat
    BY <1>1, <1>2, <2>2
  <2>5. /\ \A i \in 1 .. Width : i \in 1 .. Width + Len(m) /\ i <= Width
        /\ \A i \in 1 .. Len(m) : Width + i \in 1 .. Width + Len(m) /\ ~(Width + i <= Width) /\ (Width + i) - Width = i
    BY <1>1, <2>4
  <2>6. /\ Len(h \o m) = Width + Len(m) /\ Width + Len(m) \in Nat \ {0}
        /\ \A i \in 1 .. Width : (h \o m)[i] = h[i]
        /\ \A i \in 1 .. Len(m) : (h \o m)[Width + i] = m[i]
    BY <1>1, <2>3, <2>4, <2>5
  <2>7. QED
    BY <1>3, <2>1, <2>2, <2>6
<1>4. CASE version # "prefix"
  <2>1. Encoded(msgs[k]) = Append(msgs[k], NL) /\ NL \in Byte
    BY <1>4 DEF Encoded, NL, Byte
  <2>2. QED
    BY <1>1, <1>4, <2>1, AppendProperties
<1>5. QED
  BY <1>3, <1>4

\* Where the messages end, and which bytes of the stream a message is.
LEMMA StreamValues ==
  ASSUME Flat
  PROVE  /\ Stream \in Seq(Byte) /\ Len(Stream) = EndOf(Len(msgs)) /\ Len(Stream) \in Nat
         /\ Ends = {EndOf(n) : n \in 0 .. Len(msgs)}
         /\ EndOf(0) = 0 /\ \A n \in 0 .. Len(msgs) : EndOf(n) \in Nat /\ EndOf(n) <= Len(Stream)
         /\ \A n \in 0 .. Len(msgs) - 1 :
              /\ EndOf(n + 1) = EndOf(n) + Len(Encoded(msgs[n + 1]))
              /\ \A i \in 1 .. Len(Encoded(msgs[n + 1])) : Stream[EndOf(n) + i] = Encoded(msgs[n + 1])[i]
         /\ \A m, n \in 0 .. Len(msgs) : m < n => EndOf(m) < EndOf(n)
<1>1. /\ Len(msgs) \in Nat /\ Stream = Upto(Len(msgs)) /\ Upto(0) = <<>>
      /\ \A n \in 0 .. Len(msgs) : Upto(n) \in Seq(Byte)
      /\ \A n \in 0 .. Len(msgs) - 1 : Upto(n + 1) = Upto(n) \o Encoded(msgs[n + 1])
      /\ \A n \in 0 .. Len(msgs) - 1 : Encoded(msgs[n + 1]) \in Seq(Byte) /\ Len(Encoded(msgs[n + 1])) \in Nat \ {0}
  <2>1. Len(msgs) \in Nat /\ \A k \in 1 .. Len(msgs) : Encoded(msgs[k]) \in Seq(Byte) /\ Len(Encoded(msgs[k])) \in Nat \ {0}
    BY MessageValues, EncodedValues
  <2>2. \A n \in 0 .. Len(msgs) - 1 : n + 1 \in 1 .. Len(msgs)
    BY <2>1
  <2>3. QED
    BY <2>1, <2>2, StreamSteps
<1>2. \A n \in 0 .. Len(msgs) : EndOf(n) = Len(Upto(n)) /\ EndOf(n) \in Nat
  BY <1>1, LenProperties DEF EndOf
<1> HIDE DEF EndOf, Upto
<1>3. ASSUME NEW n \in 0 .. Len(msgs) - 1
      PROVE  /\ EndOf(n + 1) = EndOf(n) + Len(Encoded(msgs[n + 1])) /\ EndOf(n) < EndOf(n + 1)
             /\ \A i \in 1 .. EndOf(n) : Upto(n + 1)[i] = Upto(n)[i]
             /\ \A i \in 1 .. Len(Encoded(msgs[n + 1])) : Upto(n + 1)[EndOf(n) + i] = Encoded(msgs[n + 1])[i]
  <2>1. n \in 0 .. Len(msgs) /\ n + 1 \in 0 .. Len(msgs)
    BY <1>1
  <2>2. PICK a \in Seq(Byte), b \in Seq(Byte) : a = Upto(n) /\ b = Encoded(msgs[n + 1])
    BY <1>1, <2>1
  <2>3. Len(a) = EndOf(n) /\ Len(a) \in Nat /\ Len(b) \in Nat \ {0}
    BY <1>1, <1>2, <2>1, <2>2
  <2>4. Upto(n + 1) = a \o b /\ EndOf(n + 1) = Len(a \o b)
    BY <1>1, <1>2, <2>1, <2>2
  <2>5. /\ Len(a \o b) = Len(a) + Len(b)
        /\ \A i \in 1 .. Len(a) + Len(b) : (a \o b)[i] = IF i <= Len(a) THEN a[i] ELSE b[i - Len(a)]
    BY ConcatProperties
  <2>6. /\ \A i \in 1 .. Len(a) : i \in 1 .. Len(a) + Len(b) /\ i <= Len(a)
        /\ \A i \in 1 .. Len(b) : Len(a) + i \in 1 .. Len(a) + Len(b) /\ ~(Len(a) + i <= Len(a)) /\ (Len(a) + i) - Len(a) = i
    BY <2>3
  <2>7. /\ Len(a \o b) = Len(a) + Len(b) /\ Len(a) < Len(a) + Len(b)
        /\ \A i \in 1 .. Len(a) : (a \o b)[i] = a[i]
        /\ \A i \in 1 .. Len(b) : (a \o b)[Len(a) + i] = b[i]
    <3>1. \A i \in 1 .. Len(a) : (a \o b)[i] = a[i]
      BY ONLY <2>5, <2>6
    <3>2. \A i \in 1 .. Len(b) : (a \o b)[Len(a) + i] = b[i]
      <4>1. ASSUME NEW i \in 1 .. Len(b)
            PROVE  (a \o b)[Len(a) + i] = b[(Len(a) + i) - Len(a)]
        BY ONLY <2>5, <2>6
      <4>2. QED
        BY ONLY <2>6, <4>1, Zenon
    <3>3. Len(a) < Len(a) + Len(b)
      BY ONLY <2>3
    <3>4. QED
      BY <2>5, <3>1, <3>2, <3>3
  <2>8. QED
    BY ONLY <2>2, <2>3, <2>4, <2>7
<1>4. ASSUME NEW n \in 0 .. Len(msgs), NEW m \in n .. Len(msgs)
      PROVE  /\ n < m => EndOf(n) < EndOf(m)
             /\ \A i \in 1 .. EndOf(n) : Upto(m)[i] = Upto(n)[i]
  <2> DEFINE Grown(k) == /\ n < k => EndOf(n) < EndOf(k)
                         /\ \A i \in 1 .. EndOf(n) : Upto(k)[i] = Upto(n)[i]
             T == {k \in 0 .. Len(msgs) : k < n \/ Grown(k)}
  <2>1. 0 \in T
    BY <1>1
  <2>2. ASSUME NEW k \in 0 .. Len(msgs) - 1, k \in T
        PROVE  k + 1 \in T
    <3>1. k \in 0 .. Len(msgs) /\ k + 1 \in 0 .. Len(msgs)
      BY <1>1
    <3>2. CASE k < n
      <4>1. k + 1 < n \/ k + 1 = n
        BY <3>2
      <4>2. QED
        BY <3>1, <4>1
    <3>3. CASE n <= k
      <4>1. Grown(k)
        BY <2>2, <3>3
      <4>2. EndOf(n) \in Nat /\ EndOf(k) \in Nat /\ EndOf(k + 1) \in Nat /\ EndOf(k) < EndOf(k + 1) /\ EndOf(n) <= EndOf(k)
        BY <1>2, <1>3, <3>1, <3>3, <4>1
      <4>3. \A i \in 1 .. EndOf(n) : i \in 1 .. EndOf(k)
        BY <4>2
      <4>4. \A i \in 1 .. EndOf(n) : Upto(k + 1)[i] = Upto(n)[i]
        BY <1>3, <4>1, <4>3
      <4>5. QED
        BY <3>1, <4>2, <4>4
    <3>4. QED
      BY <3>2, <3>3
  <2> HIDE DEF T
  <2>3. \A k \in 0 .. Len(msgs) : k \in T
    BY ONLY <1>1, <2>1, <2>2, UpTo
  <2>4. m \in T /\ ~(m < n)
    BY <1>1, <2>3
  <2>5. QED
    BY <2>4 DEF T
<1>5. Stream \in Seq(Byte) /\ Len(Stream) = EndOf(Len(msgs)) /\ Len(Stream) \in Nat
  <2>1. Len(msgs) \in 0 .. Len(msgs)
    BY <1>1
  <2>2. QED
    BY <1>1, <1>2, <2>1
<1>6. Ends = {EndOf(n) : n \in 0 .. Len(msgs)}
  BY DEF Ends
<1>7. EndOf(0) = 0
  BY <1>1, <1>2
<1>8. \A n \in 0 .. Len(msgs) : EndOf(n) <= Len(Stream)
  <2>1. ASSUME NEW n \in 0 .. Len(msgs)
        PROVE  EndOf(n) <= EndOf(Len(msgs))
    <3>1. Len(msgs) \in n .. Len(msgs) /\ (n < Len(msgs) \/ n = Len(msgs))
      BY <1>1
    <3>2. EndOf(n) \in Nat /\ EndOf(Len(msgs)) \in Nat /\ (n < Len(msgs) => EndOf(n) < EndOf(Len(msgs)))
      BY <1>2, <1>4, <1>5, <3>1
    <3>3. QED
      BY <3>1, <3>2
  <2>2. QED
    BY <1>5, <2>1
<1>9. ASSUME NEW n \in 0 .. Len(msgs) - 1, NEW i \in 1 .. Len(Encoded(msgs[n + 1]))
      PROVE  Stream[EndOf(n) + i] = Encoded(msgs[n + 1])[i]
  <2>1. n \in 0 .. Len(msgs) /\ n + 1 \in 0 .. Len(msgs) /\ Len(msgs) \in n + 1 .. Len(msgs)
    BY <1>1
  <2>2. Len(Encoded(msgs[n + 1])) \in Nat /\ EndOf(n) \in Nat /\ EndOf(n + 1) = EndOf(n) + Len(Encoded(msgs[n + 1]))
    BY <1>1, <1>2, <1>3, <2>1
  <2>3. EndOf(n) + i \in 1 .. EndOf(n + 1)
    BY <2>2
  <2>4. Upto(Len(msgs))[EndOf(n) + i] = Upto(n + 1)[EndOf(n) + i]
    BY <1>4, <2>1, <2>3
  <2>5. Upto(n + 1)[EndOf(n) + i] = Encoded(msgs[n + 1])[i]
    BY <1>3
  <2>6. QED
    BY ONLY <1>1, <2>4, <2>5
<1>10. \A m, n \in 0 .. Len(msgs) : m < n => EndOf(m) < EndOf(n)
  <2>1. ASSUME NEW m \in 0 .. Len(msgs), NEW n \in 0 .. Len(msgs), m < n
        PROVE  EndOf(m) < EndOf(n)
    <3>1. n \in m .. Len(msgs)
      BY <1>1, <2>1
    <3>2. QED
      BY <1>4, <2>1, <3>1
  <2>2. QED
    BY <2>1
<1>11. QED
  BY <1>2, <1>3, <1>5, <1>6, <1>7, <1>8, <1>9, <1>10

-----------------------------------------------------------------------------
(* What a step leaves alone.                                               *)

\* No step changes what is sent, and for whom.
LEMMA FixedStays ==
  ASSUME UNCHANGED fixed
  PROVE  /\ Stream' = Stream /\ Ends' = Ends /\ LinesFit' = LinesFit /\ InLines' = InLines /\ Fit' = Fit
         /\ \A n : EndOf(n)' = EndOf(n)
         /\ \A m : AsReceived(m)' = AsReceived(m)
<1>1. version' = version /\ whole' = whole /\ msgs' = msgs
  BY DEF fixed
<1>2. \A m : Encoded(m)' = Encoded(m) /\ AsReceived(m)' = AsReceived(m)
  BY <1>1 DEF Encoded, AsReceived
<1>3. Stream' = Stream
  BY <1>1 DEF Stream, Upto, Encoded
<1>4. \A n : EndOf(n)' = EndOf(n)
  BY <1>1 DEF EndOf, Upto, Encoded
<1>5. Ends' = Ends
  BY <1>1, <1>4 DEF Ends
<1>6. LinesFit' = LinesFit
  BY <1>1 DEF LinesFit
<1>7. InLines' = InLines
  BY <1>1, <1>6 DEF InLines
<1>8. Fit' = Fit
  BY <1>1, <1>3 DEF Fit
<1>9. QED
  BY <1>2, <1>3, <1>4, <1>5, <1>6, <1>7, <1>8

\* The sender and the network do not touch the receiver.
LEMMA ReceiverStays ==
  ASSUME Flat, Arriving, Receiving, UNCHANGED <<fixed, taken, receiver>>, Reset' = Reset,
         arrived' \in Nat, arrived <= arrived', end = "fin" => end' = "fin" /\ arrived' = arrived
  PROVE  Receiving'
<1>1. /\ version' = version /\ msgs' = msgs /\ whole' = whole /\ taken' = taken
      /\ rpc' = rpc /\ buffer' = buffer /\ at' = at /\ need' = need /\ got' = got
  BY DEF fixed, receiver
<1>2. /\ Stream' = Stream /\ Ends' = Ends /\ LinesFit' = LinesFit /\ InLines' = InLines
      /\ \A n : EndOf(n)' = EndOf(n)
      /\ \A m : AsReceived(m)' = AsReceived(m)
      /\ InReadline' = InReadline
  BY <1>1, FixedStays DEF fixed, InReadline
<1>3. Places'
  <2>1. need \in Int /\ arrived \in Nat /\ taken \in Nat /\ Places
    BY DEF Flat, Receiving
  <2>2. need <= arrived - taken => need <= arrived' - taken
    <3>1. \A a, b, d \in Nat, c \in Int : a <= d /\ c <= a - b => c <= d - b
      OBVIOUS
    <3>2. QED
      BY ONLY <2>1, <3>1, arrived' \in Nat, arrived <= arrived'
  <2>3. QED
    BY <1>1, <1>2, <2>1, <2>2 DEF Places
<1>4. Pieces'
  BY <1>1, <1>2 DEF Receiving, Pieces
<1>5. InLines' => Received1'
  BY <1>1, <1>2 DEF Receiving, Received1
<1>6. \A n : Synced(n)' = Synced(n)
  BY <1>1, <1>2 DEF Synced
<1>7. \A n : Framing(n) => Framing(n)'
  <2>1. ASSUME NEW n, Framing(n)
        PROVE  Framing(n)'
    <3>1. CASE Len(got) = n
      BY <1>1, <1>6, <2>1, <3>1 DEF Framing, Delivered
    <3>2. CASE Len(got) # n
      <4>1. end' = "fin" /\ arrived' = arrived
        BY <2>1, <3>2 DEF Framing
      <4>2. EndOf(n + 1)' = EndOf(n + 1)
        BY <1>2
      <4>3. QED
        BY <1>1, <2>1, <3>2, <4>1, <4>2 DEF Framing, Delivered
    <3>3. QED
      BY <3>1, <3>2
  <2>2. QED
    BY <2>1
<1>8. QED
  BY <1>1, <1>3, <1>4, <1>5, <1>7 DEF Receiving

-----------------------------------------------------------------------------
(* The sender and the network.                                             *)

LEMMA SendMessageStep ==
  ASSUME Inv, SendMessage
  PROVE  Inv'
<1>1. /\ Flat /\ Fit /\ Sending /\ Arriving /\ Receiving
      /\ UNCHANGED fixed /\ UNCHANGED receiver /\ closing = "open" /\ todo # <<>> /\ Len(out) = 0
      /\ version' = version /\ whole' = whole /\ msgs' = msgs /\ sent' = sent /\ closing' = closing
      /\ arrived' = arrived /\ taken' = taken /\ end' = end
      /\ rpc' = rpc /\ buffer' = buffer /\ at' = at /\ need' = need /\ got' = got
      /\ out' = Encoded(Head(todo)) /\ todo' = Tail(todo)
  BY EmptySeq DEF Inv, SendMessage, fixed, receiver
<1>2. /\ Stream' = Stream /\ Ends' = Ends /\ Fit' = Fit
      /\ \A n : EndOf(n)' = EndOf(n)
  BY <1>1, FixedStays
<1>3. PICK n \in 0 .. Len(msgs) : todo = SubSeq(msgs, n + 1, Len(msgs)) /\ Len(sent) + Len(out) = EndOf(n)
  BY <1>1 DEF Sending
<1>4. /\ msgs \in Seq(Seq(Byte)) /\ Len(msgs) \in Nat /\ Len(sent) \in Nat
      /\ \A k \in 1 .. Len(msgs) : msgs[k] \in Seq(Byte) /\ Encoded(msgs[k]) \in Seq(Byte)
  BY <1>1, MessageValues, LenProperties DEF Flat
<1>5. n + 1 \in 1 .. Len(msgs)
  <2>1. n # Len(msgs)
    <3>1. n = Len(msgs) => SubSeq(msgs, n + 1, Len(msgs)) = <<>>
      BY <1>4, SubSeqEmpty
    <3>2. QED
      BY <1>1, <1>3, <3>1
  <2>2. QED
    BY <1>4, <2>1
<1>6. Head(todo) = msgs[n + 1] /\ Tail(todo) = SubSeq(msgs, (n + 1) + 1, Len(msgs))
  <2>1. Len(msgs) \in n + 1 .. Len(msgs)
    BY <1>4, <1>5
  <2>2. QED
    BY <1>3, <1>4, <1>5, <2>1, HeadTailOfSubSeq
<1>7. Len(sent) = EndOf(n) /\ Len(sent) + Len(out') = EndOf(n + 1) /\ \A i \in 1 .. Len(out') : out'[i] = Stream[Len(sent) + i]
  <2>1. n \in 0 .. Len(msgs) - 1 /\ out' = Encoded(msgs[n + 1])
    BY <1>1, <1>4, <1>5, <1>6
  <2>2. Len(sent) = EndOf(n)
    BY <1>1, <1>3, <1>4
  <2>3. /\ EndOf(n + 1) = EndOf(n) + Len(Encoded(msgs[n + 1]))
        /\ \A i \in 1 .. Len(Encoded(msgs[n + 1])) : Stream[EndOf(n) + i] = Encoded(msgs[n + 1])[i]
    BY <1>1, <2>1, StreamValues
  <2>4. QED
    BY ONLY <2>1, <2>2, <2>3, Zenon
<1>8. todo' \in Seq(Seq(Byte)) /\ out' \in Seq(Byte)
  <2>1. todo \in Seq(Seq(Byte))
    BY <1>1 DEF Flat
  <2>2. QED
    BY <1>1, <1>4, <1>5, <1>6, <2>1, HeadTailProperties
<1>9. Flat'
  BY <1>1, <1>8 DEF Flat
<1>10. Sending'
  <2>1. n + 1 \in 0 .. Len(msgs)
    BY <1>4, <1>5
  <2>2. /\ todo' = SubSeq(msgs', (n + 1) + 1, Len(msgs')) /\ Len(sent') + Len(out') = EndOf(n + 1)'
        /\ \A i \in 1 .. Len(out') : out'[i] = Stream'[Len(sent') + i]
    BY <1>1, <1>2, <1>6, <1>7
  <2>3. Len(sent') <= Len(Stream') /\ \A i \in 1 .. Len(sent') : sent'[i] = Stream'[i]
    BY <1>1, <1>2 DEF Sending
  <2>4. QED
    BY <1>1, <2>1, <2>2, <2>3 DEF Sending
<1>11. Arriving' /\ Reset' = Reset
  BY <1>1, <1>2 DEF Arriving, Reset
<1>12. Receiving'
  BY <1>1, <1>11, ReceiverStays DEF Flat
<1>13. QED
  BY <1>1, <1>2, <1>9, <1>10, <1>11, <1>12 DEF Inv

LEMMA SendStep ==
  ASSUME Inv, NEW k \in 1 .. Len(out), Send(k)
  PROVE  Inv'
<1>1. /\ Flat /\ Fit /\ Sending /\ Arriving /\ Receiving
      /\ UNCHANGED fixed /\ UNCHANGED receiver
      /\ version' = version /\ whole' = whole /\ msgs' = msgs /\ todo' = todo /\ closing' = closing
      /\ arrived' = arrived /\ taken' = taken /\ end' = end
      /\ rpc' = rpc /\ buffer' = buffer /\ at' = at /\ need' = need /\ got' = got
      /\ sent' = sent \o SubSeq(out, 1, k) /\ out' = SubSeq(out, k + 1, Len(out))
  BY DEF Inv, Send, Remaining, fixed, receiver
<1>2. /\ Stream' = Stream /\ Ends' = Ends /\ Fit' = Fit
      /\ \A n : EndOf(n)' = EndOf(n)
  BY <1>1, FixedStays
<1>3. /\ out \in Seq(Byte) /\ sent \in Seq(Byte) /\ Len(out) \in Nat /\ Len(sent) \in Nat
      /\ arrived \in Nat /\ taken \in Nat /\ Len(Stream) \in Nat
  BY <1>1, LenProperties, StreamValues DEF Flat
<1>4. closing = "open"
  <2>1. out = <<>> => Len(out) = 0
    BY EmptySeq
  <2>2. QED
    BY <1>1, <1>3, <2>1 DEF Sending
<1>5. PICK n \in 0 .. Len(msgs) :
        /\ todo = SubSeq(msgs, n + 1, Len(msgs))
        /\ Len(sent) + Len(out) = EndOf(n)
        /\ \A i \in 1 .. Len(out) : out[i] = Stream[Len(sent) + i]
  BY <1>1, <1>4 DEF Sending
<1>6. PICK a, b \in Seq(Byte) :
        /\ a = SubSeq(out, 1, k) /\ Len(a) = k /\ \A i \in 1 .. k : a[i] = out[i]
        /\ b = SubSeq(out, k + 1, Len(out)) /\ Len(b) = Len(out) - k /\ \A i \in 1 .. Len(b) : b[i] = out[k + i]
  <2>1. k \in 0 .. Len(out)
    BY <1>3
  <2>2. /\ SubSeq(out, 1, k) \in Seq(Byte) /\ Len(SubSeq(out, 1, k)) = k
        /\ \A i \in 1 .. k : SubSeq(out, 1, k)[i] = out[i]
    BY <1>3, <2>1, Beginning
  <2>3. /\ SubSeq(out, k + 1, Len(out)) \in Seq(Byte) /\ Len(SubSeq(out, k + 1, Len(out))) = Len(out) - k
        /\ \A i \in 1 .. Len(out) - k : SubSeq(out, k + 1, Len(out))[i] = out[k + i]
    BY <1>3, <2>1, Remainder
  <2>4. QED
    BY <2>2, <2>3
<1>7. /\ sent' \in Seq(Byte) /\ Len(sent') = Len(sent) + k
      /\ \A i \in 1 .. Len(sent) + k : sent'[i] = IF i <= Len(sent) THEN sent[i] ELSE out[i - Len(sent)]
  <2>1. /\ sent \o a \in Seq(Byte) /\ Len(sent \o a) = Len(sent) + Len(a)
        /\ \A i \in 1 .. Len(sent) + Len(a) : (sent \o a)[i] = IF i <= Len(sent) THEN sent[i] ELSE a[i - Len(sent)]
    BY <1>3, ConcatProperties
  <2>2. \A i \in 1 .. Len(sent) + k : ~(i <= Len(sent)) => i - Len(sent) \in 1 .. k
    BY <1>3
  <2>3. sent' = sent \o a /\ Len(a) = k
    BY <1>1, <1>6
  <2>4. QED
    BY ONLY <1>6, <2>1, <2>2, <2>3
<1>8. \A i \in 1 .. Len(sent') : sent'[i] = Stream[i]
  <2>1. \A i \in 1 .. Len(sent) : sent[i] = Stream[i]
    BY <1>1 DEF Sending
  <2>2. ASSUME NEW i \in 1 .. Len(sent) + k, ~(i <= Len(sent))
        PROVE  sent'[i] = Stream[i]
    <3>1. i - Len(sent) \in 1 .. Len(out) /\ Len(sent) + (i - Len(sent)) = i
      BY <1>3, <2>2
    <3>2. out[i - Len(sent)] = Stream[i]
      BY <1>5, <3>1
    <3>3. QED
      BY <1>7, <2>2, <3>2
  <2>3. \A i \in 1 .. Len(sent) + k : i <= Len(sent) => i \in 1 .. Len(sent)
    BY <1>3
  <2>4. QED
    BY <1>7, <2>1, <2>2, <2>3
<1>9. /\ Len(out') = Len(out) - k /\ out' \in Seq(Byte) /\ Len(sent') + Len(out') = EndOf(n)
      /\ \A i \in 1 .. Len(out') : out'[i] = Stream[Len(sent') + i]
  <2>1. out' = b
    BY <1>1, <1>6
  <2>2. Len(out') = Len(out) - k /\ out' \in Seq(Byte) /\ \A i \in 1 .. Len(out') : out'[i] = out[k + i]
    BY <1>6, <2>1
  <2>3. \A i \in 1 .. Len(out) - k : k + i \in 1 .. Len(out) /\ Len(sent) + (k + i) = (Len(sent) + k) + i
    BY <1>3
  <2>4. Len(sent') + Len(out') = Len(sent) + Len(out)
    BY <1>3, <1>7, <2>2
  <2>5. ASSUME NEW i \in 1 .. Len(out')
        PROVE  out'[i] = Stream[Len(sent') + i]
    <3>1. out'[i] = out[k + i] /\ k + i \in 1 .. Len(out) /\ Len(sent) + (k + i) = (Len(sent) + k) + i
      BY ONLY <2>2, <2>3, <2>5
    <3>2. out[k + i] = Stream[Len(sent) + (k + i)]
      BY <1>5, <3>1
    <3>3. Len(sent') = Len(sent) + k
      BY <1>7
    <3>4. QED
      BY ONLY <3>1, <3>2, <3>3, Zenon
  <2>6. QED
    BY <1>5, <2>2, <2>4, <2>5
<1>10. Len(sent') <= Len(Stream) /\ arrived <= Len(sent')
  <2>1. EndOf(n) <= Len(Stream) /\ EndOf(n) \in Nat /\ arrived <= Len(sent)
    BY <1>1, StreamValues DEF Arriving
  <2>2. Len(out) - k >= 0 /\ Len(sent') \in Nat
    BY <1>3, <1>7
  <2>3. \A x, y, z, u \in Int : x + y = z /\ y >= 0 /\ z <= u => x <= u
    OBVIOUS
  <2>4. QED
    BY <1>3, <1>7, <1>9, <2>1, <2>2, <2>3, SMTT(30)
<1>11. Flat'
  BY <1>1, <1>7, <1>9 DEF Flat
<1>12. Sending'
  BY <1>1, <1>2, <1>4, <1>5, <1>8, <1>9, <1>10 DEF Sending
<1>13. Arriving' /\ Reset' = Reset
  BY <1>1, <1>2, <1>10 DEF Arriving, Reset
<1>14. Receiving'
  BY <1>1, <1>3, <1>13, ReceiverStays
<1>15. QED
  BY <1>1, <1>2, <1>11, <1>12, <1>13, <1>14 DEF Inv

LEMMA FinishStep ==
  ASSUME Inv, NEW how \in {"fin", "rst"}, Finish(how)
  PROVE  Inv'
<1>1. /\ Flat /\ Fit /\ Sending /\ Arriving /\ Receiving
      /\ UNCHANGED fixed /\ UNCHANGED receiver
      /\ version' = version /\ whole' = whole /\ msgs' = msgs /\ sent' = sent
      /\ arrived' = arrived /\ taken' = taken /\ end' = end
      /\ rpc' = rpc /\ buffer' = buffer /\ at' = at /\ need' = need /\ got' = got
      /\ closing = "open" /\ closing' = how /\ out' = <<>> /\ todo' = <<>>
  BY DEF Inv, Finish, fixed, receiver
<1>2. Stream' = Stream /\ Ends' = Ends /\ Fit' = Fit
  BY <1>1, FixedStays
<1>3. end = "open"
  BY <1>1 DEF Flat, Arriving
<1>4. Flat'
  BY <1>1, EmptySeq DEF Flat
<1>5. Sending'
  BY <1>1, <1>2 DEF Sending
<1>6. Arriving' /\ Reset' = Reset
  BY <1>1, <1>2, <1>3 DEF Arriving, Reset
<1>7. Receiving'
  <2>1. arrived' \in Nat /\ arrived <= arrived' /\ (end = "fin" => end' = "fin" /\ arrived' = arrived)
    BY <1>1 DEF Flat
  <2>2. QED
    BY <1>1, <1>6, <2>1, ReceiverStays
<1>8. QED
  BY <1>1, <1>2, <1>4, <1>5, <1>6, <1>7 DEF Inv

LEMMA ArriveStep ==
  ASSUME Inv, NEW n \in 1 .. Len(sent) - arrived, Arrive(n)
  PROVE  Inv'
<1>1. /\ Flat /\ Fit /\ Sending /\ Arriving /\ Receiving
      /\ UNCHANGED fixed /\ UNCHANGED receiver
      /\ version' = version /\ whole' = whole /\ msgs' = msgs
      /\ todo' = todo /\ out' = out /\ sent' = sent /\ closing' = closing
      /\ arrived' = arrived + n /\ taken' = taken /\ end' = end /\ end = "open"
      /\ rpc' = rpc /\ buffer' = buffer /\ at' = at /\ need' = need /\ got' = got
      /\ whole => arrived + n \in Ends
  BY DEF Inv, Arrive, fixed, receiver, sender
<1>2. /\ Stream' = Stream /\ Ends' = Ends /\ Fit' = Fit
      /\ \A m : EndOf(m)' = EndOf(m)
  BY <1>1, FixedStays
<1>3. /\ arrived' \in Nat /\ arrived <= arrived' /\ arrived' <= Len(sent) /\ taken <= arrived'
  <2>1. arrived \in Nat /\ taken \in Nat /\ Len(sent) \in Nat /\ taken <= arrived
    BY <1>1, LenProperties DEF Flat, Arriving
  <2>2. QED
    BY <1>1, <2>1
<1>4. Flat'
  BY <1>1, <1>3 DEF Flat
<1>5. Sending'
  BY <1>1, <1>2 DEF Sending
<1>6. Arriving' /\ Reset' = Reset
  BY <1>1, <1>2, <1>3 DEF Arriving, Reset
<1>7. Receiving'
  BY <1>1, <1>3, <1>6, ReceiverStays
<1>8. QED
  BY <1>1, <1>2, <1>4, <1>5, <1>6, <1>7 DEF Inv

LEMMA EndArrivesStep ==
  ASSUME Inv, EndArrives
  PROVE  Inv'
<1>1. /\ Flat /\ Fit /\ Sending /\ Arriving /\ Receiving
      /\ UNCHANGED fixed /\ UNCHANGED receiver
      /\ version' = version /\ whole' = whole /\ msgs' = msgs
      /\ todo' = todo /\ out' = out /\ sent' = sent /\ closing' = closing
      /\ arrived' = arrived /\ taken' = taken /\ end = "open" /\ end' = closing /\ closing \in {"fin", "rst"}
      /\ rpc' = rpc /\ buffer' = buffer /\ at' = at /\ need' = need /\ got' = got
  BY DEF Inv, EndArrives, fixed, receiver, sender
<1>2. Stream' = Stream /\ Ends' = Ends /\ Fit' = Fit
  BY <1>1, FixedStays
<1>3. Sending'
  <2>1. \A m : EndOf(m)' = EndOf(m)
    BY <1>1, FixedStays
  <2>2. QED
    BY <1>1, <1>2, <2>1 DEF Sending
<1>4. Flat'
  BY <1>1 DEF Flat
<1>5. Arriving' /\ Reset' = Reset
  BY <1>1, <1>2 DEF Arriving, Reset
<1>6. Receiving'
  <2>1. arrived' \in Nat /\ arrived <= arrived' /\ (end = "fin" => end' = "fin" /\ arrived' = arrived)
    BY <1>1 DEF Flat
  <2>2. QED
    BY <1>1, <1>5, <2>1, ReceiverStays
<1>7. QED
  BY <1>1, <1>2, <1>3, <1>4, <1>5, <1>6 DEF Inv

-----------------------------------------------------------------------------
(* What a receiver finds in the kernel and does to its buffer.             *)

\* The bytes that have arrived and have not been taken.
LEMMA UnreadValues ==
  ASSUME Flat, Sending, Arriving
  PROVE  /\ Unread \in Seq(Byte) /\ Len(Unread) = arrived - taken /\ Len(Unread) \in Nat
         /\ Unread = <<>> <=> taken = arrived
         /\ \A i \in 1 .. arrived - taken : Unread[i] = Stream[taken + i] /\ Unread[i] \in Byte
<1>1. sent \in Seq(Byte) /\ Len(sent) \in Nat /\ arrived \in Nat /\ taken \in Nat /\ taken <= arrived /\ arrived <= Len(sent)
  BY LenProperties DEF Flat, Arriving
<1>2. PICK n \in Nat : n = arrived - taken /\ taken + n = arrived
  BY <1>1
<1>3. /\ SubSeq(sent, taken + 1, taken + n) \in Seq(Byte) /\ Len(SubSeq(sent, taken + 1, taken + n)) = n
      /\ \A i \in 1 .. n : SubSeq(sent, taken + 1, taken + n)[i] = sent[taken + i]
  BY <1>1, <1>2, Cut
<1>4. Unread \in Seq(Byte) /\ Len(Unread) = n /\ \A i \in 1 .. n : Unread[i] = sent[taken + i]
  BY ONLY <1>2, <1>3 DEF Unread
<1>5. \A i \in 1 .. n : taken + i \in 1 .. Len(sent)
  BY <1>1, <1>2
<1>6. \A i \in 1 .. n : Unread[i] = Stream[taken + i]
  BY <1>4, <1>5 DEF Sending
<1>7. \A i \in 1 .. n : Unread[i] \in Byte
  BY <1>4, ElementOfSeq
<1>8. Unread = <<>> <=> taken = arrived
  BY <1>1, <1>2, <1>4, EmptySeq
<1>9. QED
  BY <1>2, <1>4, <1>6, <1>7, <1>8

\* The first n bytes, or all of them.
LEMMA AtMostValues ==
  ASSUME NEW S, NEW bytes \in Seq(S), NEW n \in Nat
  PROVE  /\ AtMost(n, bytes) \in Seq(S)
         /\ Len(AtMost(n, bytes)) = IF Len(bytes) < n THEN Len(bytes) ELSE n
         /\ \A i \in 1 .. Len(AtMost(n, bytes)) : AtMost(n, bytes)[i] = bytes[i]
<1>1. Len(bytes) \in Nat
  BY LenProperties
<1>2. PICK k \in 0 .. Len(bytes) : k = IF Len(bytes) < n THEN Len(bytes) ELSE n
  BY <1>1
<1>3. AtMost(n, bytes) = SubSeq(bytes, 1, k)
  BY <1>2 DEF AtMost
<1>4. /\ SubSeq(bytes, 1, k) \in Seq(S) /\ Len(SubSeq(bytes, 1, k)) = k
      /\ \A i \in 1 .. k : SubSeq(bytes, 1, k)[i] = bytes[i]
  BY Beginning
<1>5. QED
  BY ONLY <1>2, <1>3, <1>4

LEMMA WrittenValues ==
  ASSUME NEW S, NEW buf \in Seq(S), NEW pos \in Int, NEW bytes \in Seq(S)
  PROVE  /\ Written(buf, pos, bytes) \in Seq(S) /\ Len(Written(buf, pos, bytes)) = Len(buf)
         /\ \A k \in 1 .. Len(buf) :
              Written(buf, pos, bytes)[k] = IF k - pos \in 1 .. Len(bytes) THEN bytes[k - pos] ELSE buf[k]
<1>1. Len(buf) \in Nat /\ DOMAIN buf = 1 .. Len(buf) /\ DOMAIN bytes = 1 .. Len(bytes)
  BY LenProperties
<1>2. \A k \in 1 .. Len(buf) : (IF k - pos \in 1 .. Len(bytes) THEN bytes[k - pos] ELSE buf[k]) \in S
  BY ElementOfSeq
<1>3. Written(buf, pos, bytes) = [k \in 1 .. Len(buf) |-> IF k - pos \in 1 .. Len(bytes) THEN bytes[k - pos] ELSE buf[k]]
  BY <1>1 DEF Written
<1>4. QED
  BY <1>1, <1>2, <1>3, IsASeq

\* Where the first b is.
First(s, b) == SelectInSeq(s, LAMBDA x : x = b)

LEMMA FirstValues ==
  ASSUME NEW s \in Seq(Byte), NEW b, NEW p, p = First(s, b)
  PROVE  \/ p = 0 /\ \A i \in 1 .. Len(s) : s[i] # b
         \/ p \in 1 .. Len(s) /\ s[p] = b /\ \A i \in 1 .. Len(s) : i < p => s[i] # b
<1> DEFINE I == {i \in 1 .. Len(s) : s[i] = b}
<1>1. p = IF I # {} THEN Min(I) ELSE 0
  BY DEF First, SelectInSeq
<1>2. Len(s) \in Nat /\ I \in SUBSET Nat
  BY LenProperties
<1>3. CASE I = {}
  BY <1>1, <1>3
<1>4. CASE I # {}
  <2>1. Min(I) \in I /\ \A i \in I : Min(I) <= i
    BY <1>2, <1>4, LeastNumber
  <2>2. p \in I /\ p \in Nat /\ \A i \in I : i \in Nat /\ p <= i
    BY <1>1, <1>2, <1>4, <2>1
  <2>3. \A i \in 1 .. Len(s) : i < p => i \notin I
    <3> HIDE DEF I
    <3>1. \A i \in Nat : i < p => ~(p <= i)
      BY <2>2
    <3>2. QED
      BY <2>2, <3>1
  <2>4. QED
    BY <2>2, <2>3
<1>5. QED
  BY <1>3, <1>4

\* The receiver does not touch the sender and what has arrived.
LEMMA SenderStays ==
  ASSUME Flat, Fit, Sending, Arriving, UNCHANGED <<fixed, sender, arrived>>,
         taken' \in Nat, taken' <= arrived, end' = end \/ (end # "open" /\ end' = "fin"),
         Reset' => taken' = arrived
  PROVE  Fit' /\ Sending' /\ Arriving'
<1>1. /\ version' = version /\ msgs' = msgs /\ whole' = whole
      /\ todo' = todo /\ out' = out /\ sent' = sent /\ closing' = closing /\ arrived' = arrived
  BY DEF fixed, sender
<1>2. /\ Stream' = Stream /\ Ends' = Ends /\ Fit' = Fit
      /\ \A n : EndOf(n)' = EndOf(n)
  BY FixedStays
<1>3. Sending'
  BY <1>1, <1>2 DEF Sending
<1>4. end # "open" => closing # "open"
  BY DEF Flat, Arriving
<1>5. Arriving'
  BY <1>1, <1>2, <1>4 DEF Flat, Arriving
<1>6. QED
  BY <1>2, <1>3, <1>5

\* A line in the stream: letters, and a newline after them.
LEMMA LineValues ==
  ASSUME Flat, Fit, version # "prefix", NEW n \in 0 .. Len(msgs) - 1
  PROVE  /\ Len(msgs[n + 1]) \in Nat /\ msgs[n + 1] \in Seq(Byte) /\ EndOf(n) \in Nat
         /\ EndOf(n + 1) = EndOf(n) + (Len(msgs[n + 1]) + 1)
         /\ \A i \in 1 .. Len(msgs[n + 1]) : /\ Stream[EndOf(n) + i] = msgs[n + 1][i]
                                             /\ msgs[n + 1][i] # NL /\ msgs[n + 1][i] # NUL
         /\ Stream[EndOf(n) + (Len(msgs[n + 1]) + 1)] = NL
<1>1. n + 1 \in 1 .. Len(msgs) /\ n \in 0 .. Len(msgs)
  BY MessageValues
<1>2. msgs[n + 1] \in Seq(Byte) /\ Len(msgs[n + 1]) \in Nat /\ DOMAIN msgs[n + 1] = 1 .. Len(msgs[n + 1]) /\ n + 1 \in DOMAIN msgs
  BY <1>1, MessageValues, LenProperties
<1>3. /\ Len(Encoded(msgs[n + 1])) = Len(msgs[n + 1]) + 1
      /\ \A i \in 1 .. Len(msgs[n + 1]) : Encoded(msgs[n + 1])[i] = msgs[n + 1][i]
      /\ Encoded(msgs[n + 1])[Len(msgs[n + 1]) + 1] = NL
  BY <1>1, EncodedValues
<1>4. EndOf(n) \in Nat /\ EndOf(n + 1) = EndOf(n) + (Len(msgs[n + 1]) + 1)
  BY <1>1, <1>3, StreamValues
<1>5. \A i \in 1 .. Len(msgs[n + 1]) + 1 : Stream[EndOf(n) + i] = Encoded(msgs[n + 1])[i]
  BY <1>3, StreamValues
<1>6. \A i \in 1 .. Len(msgs[n + 1]) : i \in 1 .. Len(msgs[n + 1]) + 1
  BY <1>2
<1>7. Len(msgs[n + 1]) + 1 \in 1 .. Len(msgs[n + 1]) + 1
  BY <1>2
<1>8. \A i \in 1 .. Len(msgs[n + 1]) : msgs[n + 1][i] # NL /\ msgs[n + 1][i] # NUL
  <2>1. ToSet(msgs[n + 1]) \cap {NUL, NL} = {}
    BY <1>2 DEF Fit
  <2>2. \A i \in 1 .. Len(msgs[n + 1]) : msgs[n + 1][i] \in ToSet(msgs[n + 1])
    BY <1>2 DEF ToSet
  <2>3. QED
    BY <2>1, <2>2
<1>9. Stream[EndOf(n) + (Len(msgs[n + 1]) + 1)] = NL
  BY <1>3, <1>5, <1>7
<1>10. QED
  BY <1>2, <1>3, <1>4, <1>5, <1>6, <1>8, <1>9

\* After the end of a message and before the end of the stream there is another message.
LEMMA AnotherMessage ==
  ASSUME Flat, NEW n \in 0 .. Len(msgs), EndOf(n) < Len(Stream)
  PROVE  n \in 0 .. Len(msgs) - 1 /\ n + 1 \in 1 .. Len(msgs) /\ n + 1 \in 0 .. Len(msgs)
<1>1. Len(msgs) \in Nat /\ EndOf(Len(msgs)) = Len(Stream) /\ Len(Stream) \in Nat
  BY MessageValues, StreamValues
<1>2. n # Len(msgs)
  BY <1>1
<1>3. QED
  BY <1>1, <1>2

\* The first newline ends the line, and before it the line has not ended.
LEMMA FirstNewline ==
  ASSUME Flat, Fit, version # "prefix", NEW n \in 0 .. Len(msgs), NEW q \in Nat \ {0},
         EndOf(n) + q <= Len(Stream), \A i \in 1 .. q : i < q => Stream[EndOf(n) + i] # NL
  PROVE  /\ n \in 0 .. Len(msgs) - 1 /\ n + 1 \in 1 .. Len(msgs) /\ n + 1 \in 0 .. Len(msgs)
         /\ Stream[EndOf(n) + q] = NL => q = Len(msgs[n + 1]) + 1 /\ EndOf(n + 1) = EndOf(n) + q
         /\ Stream[EndOf(n) + q] # NL => q <= Len(msgs[n + 1])
<1>1. EndOf(n) \in Nat /\ Len(Stream) \in Nat
  BY StreamValues
<1>2. EndOf(n) < Len(Stream)
  BY <1>1
<1>3. n \in 0 .. Len(msgs) - 1 /\ n + 1 \in 1 .. Len(msgs) /\ n + 1 \in 0 .. Len(msgs)
  BY <1>2, AnotherMessage
<1>4. PICK l \in Nat : /\ l = Len(msgs[n + 1]) /\ EndOf(n + 1) = EndOf(n) + (l + 1)
                       /\ \A i \in 1 .. l : Stream[EndOf(n) + i] # NL
                       /\ Stream[EndOf(n) + (l + 1)] = NL
  BY <1>3, LineValues
<1>5. q <= l + 1
  <2>1. l + 1 < q => l + 1 \in 1 .. q
    OBVIOUS
  <2>2. ~(l + 1 < q)
    BY <1>4, <2>1
  <2>3. QED
    BY <2>2
<1>6. q <= l => q \in 1 .. l
  OBVIOUS
<1>7. q = l + 1 \/ q <= l
  BY <1>5
<1>8. QED
  BY <1>3, <1>4, <1>6, <1>7

\* readline between recvPeek and recvn.
LEMMA ScanValues ==
  ASSUME Inv, rpc = "scan"
  PROVE  /\ version \in {"v1", "v1_2", "v5"} /\ ~Reset
         /\ at \in Nat /\ need \in Nat \ {0} /\ at + need <= BufferLen /\ at <= taken /\ at <= BufferLen - 2
         /\ need <= arrived - taken /\ Len(buffer) = BufferLen
         /\ taken + need <= arrived /\ taken + need <= Len(Stream)
         /\ \/ Newline = 0 /\ \A i \in 1 .. need : buffer[at + i] # NL
            \/ /\ Newline \in 1 .. need /\ buffer[at + Newline] = NL
               /\ \A i \in 1 .. need : i < Newline => buffer[at + i] # NL
<1>1. Flat /\ Fit /\ Sending /\ Arriving /\ Places
  BY DEF Inv, Receiving
<1>2. /\ version \in {"v1", "v1_2", "v5"} /\ ~Reset
      /\ 0 <= at /\ at <= taken /\ at <= BufferLen - 2 /\ 1 <= need /\ need <= arrived - taken /\ Len(buffer) = BufferLen
      /\ version = "v1_2" => at + need <= BufferLen - 1
  <2>1. version \in {"v1", "v1_2", "v5", "prefix"}
    BY <1>1, SocketIOAssumption DEF Flat
  <2>2. QED
    BY <1>1, <2>1 DEF Places, InReadline
<1>3. /\ at \in Int /\ need \in Nat /\ taken \in Nat /\ arrived \in Nat /\ BufferLen \in Nat
      /\ Len(sent) \in Nat /\ Len(Stream) \in Nat /\ arrived <= Len(sent) /\ Len(sent) <= Len(Stream)
      /\ buffer \in Seq(Byte)
  <2>1. need >= 1
    BY <1>1 DEF Places
  <2>2. QED
    BY <1>1, <2>1, SocketIOAssumption, StreamValues, LenProperties DEF Flat, Arriving, Sending
<1>4. at \in Nat /\ need \in Nat \ {0} /\ taken + need <= arrived /\ taken + need <= Len(Stream)
  BY <1>2, <1>3
<1>5. at + need <= BufferLen
  <2>1. CASE version = "v1_2"
    BY <1>2, <1>3, <2>1
  <2>2. CASE version # "v1_2"
    <3>1. Len(Stream) < BufferLen
      BY <1>1, <1>2, <2>2 DEF Fit
    <3>2. QED
      BY <1>2, <1>3, <1>4, <3>1
  <2>3. QED
    BY <2>1, <2>2
<1>6. PICK piece \in Seq(Byte) :
        /\ piece = SubSeq(buffer, at + 1, at + need) /\ Len(piece) = need
        /\ \A i \in 1 .. need : piece[i] = buffer[at + i]
  <2>1. /\ SubSeq(buffer, at + 1, at + need) \in Seq(Byte) /\ Len(SubSeq(buffer, at + 1, at + need)) = need
        /\ \A i \in 1 .. need : SubSeq(buffer, at + 1, at + need)[i] = buffer[at + i]
    <3>1. buffer \in Seq(Byte) /\ at \in Nat /\ need \in Nat /\ at + need <= Len(buffer)
      BY <1>2, <1>3, <1>4, <1>5
    <3>2. QED
      BY ONLY <3>1, Cut
  <2>2. QED
    BY <2>1
<1>7. PICK p : p = Newline /\ p = First(piece, NL)
  BY <1>6 DEF Newline, First, SelectInSeq
<1>8. \/ p = 0 /\ \A i \in 1 .. Len(piece) : piece[i] # NL
      \/ p \in 1 .. Len(piece) /\ piece[p] = NL /\ \A i \in 1 .. Len(piece) : i < p => piece[i] # NL
  BY ONLY <1>7, FirstValues, piece \in Seq(Byte)
<1>9. \/ p = 0 /\ \A i \in 1 .. need : buffer[at + i] # NL
      \/ p \in 1 .. need /\ buffer[at + p] = NL /\ \A i \in 1 .. need : i < p => buffer[at + i] # NL
  BY ONLY <1>6, <1>8
<1>10. QED
  BY <1>2, <1>4, <1>5, <1>7, <1>9

-----------------------------------------------------------------------------
(* readline.                                                               *)

LEMMA ReceiveStep ==
  ASSUME Inv, Receive
  PROVE  Inv'
<1>1. /\ Flat /\ Fit /\ Sending /\ Arriving /\ Receiving /\ Places
      /\ UNCHANGED fixed /\ UNCHANGED sender /\ arrived' = arrived
      /\ version' = version /\ whole' = whole /\ msgs' = msgs
      /\ todo' = todo /\ out' = out /\ sent' = sent /\ closing' = closing
      /\ taken' = taken /\ got' = got /\ rpc = "idle" /\ at' = 0
      /\ version = "v5" => Unread # <<>> \/ end = "rst"
      /\ version = "prefix" => rpc' = "header" /\ buffer' = <<>> /\ need' = Width
      /\ version # "prefix" => rpc' = "peek" /\ buffer' = [k \in 1 .. BufferLen |-> NUL] /\ need' = 0
      /\ end' = IF version = "v5" /\ Unread = <<>> THEN "fin" ELSE end
  BY DEF Inv, Receiving, Receive, fixed, sender
<1>2. /\ Stream' = Stream /\ Ends' = Ends /\ LinesFit' = LinesFit /\ InLines' = InLines
      /\ \A n : EndOf(n)' = EndOf(n)
      /\ \A m : AsReceived(m)' = AsReceived(m)
  BY <1>1, FixedStays
<1>3. BufferLen \in Nat \ {0, 1} /\ Width \in Nat \ {0} /\ taken \in Nat /\ arrived \in Nat /\ taken <= arrived
  BY <1>1, SocketIOAssumption DEF Flat, Arriving
<1>4. (Unread = <<>> <=> taken = arrived) /\ EndOf(0) = 0
  BY <1>1, UnreadValues, StreamValues
<1>5. Reset' => taken' = arrived /\ (Reset \/ version = "v5")
  BY <1>1, <1>4 DEF Reset, Arriving
<1>6. end' = end \/ (end # "open" /\ end' = "fin")
  BY <1>1
<1>7. Fit' /\ Sending' /\ Arriving'
  BY <1>1, <1>3, <1>5, <1>6, SenderStays
<1>8. /\ version # "prefix" => buffer' \in Seq(Byte) /\ Len(buffer') = BufferLen
      /\ version = "prefix" => buffer' \in Seq(Byte) /\ Len(buffer') = 0
  <2>1. NUL \in Byte
    BY DEF NUL, Byte
  <2>2. PICK b : b = [k \in 1 .. BufferLen |-> NUL]
    OBVIOUS
  <2>3. b \in Seq(Byte) /\ Len(b) = BufferLen
    BY <1>3, <2>1, <2>2, IsASeq
  <2>4. QED
    BY <1>1, <2>2, <2>3, EmptySeq
<1>9. Flat'
  <2>1. end' \in {"open", "fin", "rst"} /\ need' \in Int /\ rpc' \in {"idle", "peek", "scan", "header", "body"}
    BY <1>1, <1>3 DEF Flat
  <2>2. QED
    BY <1>1, <1>8, <2>1 DEF Flat
<1>10. Places'
  <2>1. /\ 0 \in Int /\ -1 <= 0 /\ 0 <= BufferLen - 2 /\ 0 <= taken
        /\ 0 >= 0 /\ Width >= 0
    BY <1>3
  <2>2. QED
    BY <1>1, <1>8, <2>1 DEF Places, InReadline
<1>11. Pieces'
  <2>1. version \in {"v1", "v1_2"} => ~Reset' /\ (LinesFit => taken \in Ends)
    BY <1>1, <1>5 DEF Receiving, Pieces, Places
  <2>2. taken - 0 = taken /\ \A i \in 1 .. 0 : FALSE
    BY <1>3
  <2>3. QED
    BY <1>1, <1>2, <2>1, <2>2 DEF Pieces, InReadline
<1>12. InLines' => Received1'
  <2>1. taken - 0 = taken
    BY <1>3
  <2>2. InLines => version # "prefix" /\ Received1
    BY <1>1 DEF Receiving, InLines
  <2>3. QED
    BY <1>1, <1>2, <2>1, <2>2 DEF Received1, InReadline
<1>13. ASSUME version = "prefix", NEW n \in 0 .. Len(msgs), Framing(n)
       PROVE  Framing(n)'
  <2>1. CASE Len(got) = n
    <3>1. Synced(n)'
      <4>1. EndOf(n) \in Nat /\ EndOf(n) + 0 = EndOf(n) /\ taken = EndOf(n)
        BY <1>1, <1>13, <2>1, StreamValues DEF Framing, Synced
      <4>2. \A i \in 1 .. 0 : FALSE
        OBVIOUS
      <4>3. QED
        BY <1>1, <1>2, <1>3, <1>8, <1>13, <4>1, <4>2 DEF Synced
    <3>2. QED
      BY <1>1, <1>13, <2>1, <3>1 DEF Framing, Delivered
  <2>2. CASE Len(got) # n
    BY <1>1, <1>2, <1>13, <2>2 DEF Framing, Delivered
  <2>3. QED
    BY <2>1, <2>2
<1>14. Receiving'
  BY <1>1, <1>10, <1>11, <1>12, <1>13 DEF Receiving
<1>15. QED
  BY <1>7, <1>9, <1>14 DEF Inv

LEMMA PeekStep ==
  ASSUME Inv, Peek
  PROVE  Inv'
<1>1. /\ Flat /\ Fit /\ Sending /\ Arriving /\ Receiving /\ Places
      /\ UNCHANGED fixed /\ UNCHANGED sender /\ arrived' = arrived
      /\ version' = version /\ whole' = whole /\ msgs' = msgs
      /\ todo' = todo /\ out' = out /\ sent' = sent /\ closing' = closing
      /\ taken' = taken /\ got' = got /\ at' = at /\ end' = end /\ rpc = "peek" /\ rpc' = "scan" /\ Unread # <<>>
      /\ buffer' = Written(buffer, PeekOffset, Peeked) /\ need' = Len(Peeked)
  BY DEF Inv, Receiving, Peek, fixed, sender
<1>2. /\ Stream' = Stream /\ Ends' = Ends /\ LinesFit' = LinesFit /\ InLines' = InLines
      /\ \A n : EndOf(n)' = EndOf(n)
      /\ \A m : AsReceived(m)' = AsReceived(m)
  BY <1>1, FixedStays
<1>3. /\ BufferLen \in Nat \ {0, 1} /\ taken \in Nat /\ arrived \in Nat /\ taken <= arrived /\ taken # arrived
      /\ Unread \in Seq(Byte) /\ Len(Unread) = arrived - taken /\ arrived <= Len(Stream) /\ Len(Stream) \in Nat
      /\ \A i \in 1 .. arrived - taken : Unread[i] = Stream[taken + i]
  <2>1. arrived <= Len(sent) /\ Len(sent) <= Len(Stream) /\ Len(sent) \in Nat /\ Len(Stream) \in Nat /\ arrived \in Nat
    BY <1>1, StreamValues, LenProperties DEF Flat, Arriving, Sending
  <2>2. arrived <= Len(Stream)
    BY ONLY <2>1
  <2>3. QED
    BY <1>1, <2>1, <2>2, SocketIOAssumption, UnreadValues DEF Flat, Arriving
<1>4. /\ version \in {"v1", "v1_2", "v5"} /\ ~Reset /\ ~Reset'
      /\ at \in Nat /\ at <= taken /\ at <= BufferLen - 2 /\ Len(buffer) = BufferLen /\ buffer \in Seq(Byte)
  <2>1. version \in {"v1", "v1_2", "v5", "prefix"} /\ at \in Int /\ buffer \in Seq(Byte)
    BY <1>1, SocketIOAssumption DEF Flat
  <2>2. ~Reset
    BY <1>1, <1>3 DEF Arriving
  <2>3. QED
    BY <1>1, <2>1, <2>2 DEF Places, InReadline, Reset
<1>5. PICK limit \in Nat \ {0} :
        /\ Peeked = AtMost(limit, Unread)
        /\ limit = IF version = "v1_2" THEN BufferLen - 1 - at ELSE BufferLen
  <2>1. BufferLen - 1 - at \in Nat \ {0}
    BY <1>3, <1>4
  <2>2. QED
    BY <1>3, <2>1 DEF Peeked
<1>6. PICK bytes \in Seq(Byte) :
        /\ bytes = Peeked /\ Len(bytes) = (IF arrived - taken < limit THEN arrived - taken ELSE limit)
        /\ \A i \in 1 .. Len(bytes) : bytes[i] = Unread[i]
  BY <1>3, <1>5, AtMostValues
<1>7. /\ need' = Len(bytes) /\ need' \in Nat \ {0} /\ need' <= arrived - taken
      /\ version = "v1_2" => at + need' <= BufferLen - 1
      /\ version = "v1" => at + need' <= BufferLen
      /\ version = "v5" => need' <= BufferLen
  <2>1. need' = Len(bytes)
    BY <1>1, <1>6
  <2>2. need' \in Nat \ {0} /\ need' <= arrived - taken /\ need' <= limit
    BY <1>3, <1>6, <2>1
  <2>3. version = "v1" => Len(Stream) < BufferLen
    BY <1>1 DEF Fit
  <2>4. QED
    BY <1>3, <1>4, <1>5, <2>1, <2>2, <2>3
<1>8. \A i \in 1 .. need' : bytes[i] = Stream[taken + i]
  <2>1. \A i \in 1 .. need' : i \in 1 .. Len(bytes) /\ i \in 1 .. arrived - taken
    BY <1>3, <1>7
  <2>2. QED
    BY <1>3, <1>6, <2>1
<1>9. /\ buffer' \in Seq(Byte) /\ Len(buffer') = BufferLen
      /\ \A k \in 1 .. BufferLen : buffer'[k] = IF k - PeekOffset \in 1 .. need' THEN bytes[k - PeekOffset] ELSE buffer[k]
  <2>1. PeekOffset \in Int
    BY <1>4 DEF PeekOffset
  <2>2. PICK pos \in Int : pos = PeekOffset
    BY <2>1
  <2>3. /\ Written(buffer, pos, bytes) \in Seq(Byte) /\ Len(Written(buffer, pos, bytes)) = Len(buffer)
        /\ \A k \in 1 .. Len(buffer) :
             Written(buffer, pos, bytes)[k] = IF k - pos \in 1 .. Len(bytes) THEN bytes[k - pos] ELSE buffer[k]
    BY <1>4, WrittenValues
  <2>4. buffer' = Written(buffer, pos, bytes)
    BY <1>1, <1>6, <2>2
  <2>5. QED
    BY ONLY <1>4, <1>7, <2>2, <2>3, <2>4
<1>10. Fit' /\ Sending' /\ Arriving'
  BY <1>1, <1>3, <1>4, SenderStays
<1>11. Flat'
  BY <1>1, <1>7, <1>9 DEF Flat
<1>12. Places'
  BY <1>1, <1>3, <1>4, <1>7, <1>9 DEF Places, InReadline
\* The bytes peeked lie behind those the buffer holds.
<1>13. ASSUME version # "v5" \/ at = 0
       PROVE  /\ \A i \in 1 .. at : buffer'[i] = buffer[i]
              /\ \A i \in 1 .. need' : buffer'[at + i] = Stream[taken + i]
  <2>1. PeekOffset = at
    BY <1>13 DEF PeekOffset
  <2>2. at + need' <= BufferLen
    BY <1>3, <1>4, <1>7, <1>13
  <2>3. /\ \A i \in 1 .. at : i \in 1 .. BufferLen /\ i - at \notin 1 .. need'
        /\ \A i \in 1 .. need' : at + i \in 1 .. BufferLen /\ (at + i) - at = i
    BY <1>3, <1>4, <1>7, <2>2
  <2>4. QED
    BY <1>8, <1>9, <2>1, <2>3
<1>14. Pieces'
  <2>1. version \in {"v1", "v1_2"} => /\ \A i \in 1 .. at : buffer[i] = Stream[taken - at + i] /\ buffer[i] # NL
                                      /\ LinesFit => taken - at \in Ends
    BY <1>1, <1>4 DEF Receiving, Pieces, InReadline
  <2>2. QED
    BY <1>1, <1>2, <1>13, <2>1 DEF Pieces
<1>15. InLines' => Received1'
  <2>1. SUFFICES ASSUME InLines
                 PROVE  Received1'
    BY <1>2
  <2>2. /\ Received1 /\ Len(got) <= Len(msgs) /\ taken - at = EndOf(Len(got))
        /\ version # "v1" => at = 0 /\ whole /\ LinesFit
    BY <1>1, <1>4, <2>1 DEF Receiving, Received1, InReadline, InLines
  <2>3. PICK n \in 0 .. Len(msgs) : n = Len(got)
    <3>1. Len(got) \in Nat /\ Len(msgs) \in Nat
      BY <1>1, MessageValues, LenProperties DEF Flat
    <3>2. QED
      BY <2>2, <3>1
  <2>4. ASSUME version # "v1"
        PROVE  taken + need' >= EndOf(n + 1)
    <3>1. at = 0 /\ taken = EndOf(n) /\ arrived \in Ends /\ LinesFit
      BY <1>1, <1>3, <2>2, <2>3, <2>4 DEF Arriving
    <3>2. PICK m \in 0 .. Len(msgs) : arrived = EndOf(m)
      BY <1>1, <3>1, StreamValues
    <3>3. n + 1 \in 1 .. Len(msgs) /\ n + 1 \in 0 .. Len(msgs) /\ n \in 0 .. Len(msgs) - 1
      BY <1>1, <1>3, <3>1, AnotherMessage
    <3>4. EndOf(n) \in Nat /\ EndOf(m) \in Nat /\ EndOf(n + 1) \in Nat /\ EndOf(n) < EndOf(m)
      <4>1. \A l \in 0 .. Len(msgs) : EndOf(l) \in Nat
        BY <1>1, StreamValues
      <4>2. EndOf(n) < arrived
        BY <1>3, <3>1
      <4>3. QED
        BY <3>2, <3>3, <4>1, <4>2
    <3>5. n + 1 <= m
      <4>1. m = n \/ m < n \/ n + 1 <= m
        BY <3>3
      <4>2. m < n => EndOf(m) < EndOf(n)
        BY <1>1, StreamValues
      <4>3. QED
        BY <3>4, <4>1, <4>2
    <3>6. EndOf(n + 1) <= arrived
      <4>1. n + 1 = m \/ n + 1 < m
        BY <3>3, <3>5
      <4>2. n + 1 < m => EndOf(n + 1) < EndOf(m)
        BY <1>1, <3>3, StreamValues
      <4>3. QED
        BY <3>2, <3>4, <4>1, <4>2
    <3>7. EndOf(n + 1) - taken <= limit
      <4>1. EndOf(n + 1) = EndOf(n) + (Len(msgs[n + 1]) + 1) /\ Len(msgs[n + 1]) \in Nat
        BY <1>1, <1>4, <3>3, LineValues
      <4>2. Len(msgs[n + 1]) < BufferLen - 1
        <5>1. n + 1 \in DOMAIN msgs
          BY <1>1, <3>3, MessageValues
        <5>2. QED
          BY <3>1, <5>1 DEF LinesFit
      <4>3. limit = BufferLen - 1 \/ limit = BufferLen
        BY <1>3, <1>5, <3>1
      <4>4. PICK l \in Nat : l < BufferLen - 1 /\ EndOf(n + 1) = EndOf(n) + (l + 1)
        BY <4>1, <4>2
      <4>5. EndOf(n + 1) = taken + (l + 1)
        BY ONLY <3>1, <4>4
      <4>6. EndOf(n + 1) - taken = l + 1
        BY ONLY <1>3, <4>5, l \in Nat
      <4>7. QED
        BY <1>3, <4>3, <4>4, <4>6
    <3>8. QED
      BY <1>3, <1>6, <1>7, <3>4, <3>6, <3>7, SMTT(30)
  <2>5. version # "v1" => \A i \in 1 .. need' : buffer'[i] = Stream[taken + i]
    <3>1. \A i \in 1 .. need' : 0 + i = i
      BY <1>7
    <3>2. QED
      BY <1>13, <2>2, <3>1
  <2>6. QED
    BY <1>1, <1>2, <2>2, <2>3, <2>4, <2>5 DEF Received1, InReadline
<1>16. Receiving'
  BY <1>1, <1>4, <1>12, <1>14, <1>15 DEF Receiving
<1>17. QED
  BY <1>10, <1>11, <1>16 DEF Inv

\* The buffer holds the bytes of line n + 1 so far, and behind them those peeked.
Assembled(n) ==
  /\ taken - at = EndOf(n)
  /\ \A i \in 1 .. at : buffer[i] = Stream[taken - at + i] /\ buffer[i] # NL
  /\ \A i \in 1 .. need : buffer[at + i] = Stream[taken + i]

LEMMA AssembledValues ==
  ASSUME Inv, rpc = "scan", NEW n \in 0 .. Len(msgs), Assembled(n)
  PROVE  /\ EndOf(n) + at = taken /\ EndOf(n) \in Nat
         /\ \A i \in 1 .. at + need : buffer[i] = Stream[EndOf(n) + i]
         /\ \A i \in 1 .. need : EndOf(n) + (at + i) = taken + i
<1>1. at \in Nat /\ need \in Nat /\ taken \in Nat /\ EndOf(n) \in Nat /\ taken - at = EndOf(n)
  BY ScanValues, StreamValues DEF Inv, Flat, Assembled
<1>2. EndOf(n) + at = taken
  BY <1>1
<1>3. ASSUME NEW i \in 1 .. at + need
      PROVE  buffer[i] = Stream[EndOf(n) + i]
  <2>1. CASE i <= at
    <3>1. i \in 1 .. at
      BY <1>1, <2>1
    <3>2. buffer[i] = Stream[taken - at + i]
      BY <3>1 DEF Assembled
    <3>3. QED
      BY <1>1, <3>2
  <2>2. CASE at < i
    <3>1. i - at \in 1 .. need /\ at + (i - at) = i /\ taken + (i - at) = EndOf(n) + i
      BY <1>1, <1>2, <2>2
    <3>2. buffer[at + (i - at)] = Stream[taken + (i - at)]
      BY <3>1 DEF Assembled
    <3>3. QED
      BY <3>1, <3>2
  <2>3. QED
    BY <1>1, <2>1, <2>2
<1>4. \A i \in 1 .. need : EndOf(n) + (at + i) = taken + i
  BY <1>1, <1>2
<1>5. QED
  BY <1>1, <1>2, <1>3, <1>4

\* recvn puts the k bytes it takes where they were peeked.
LEMMA TakenValues ==
  ASSUME Inv, rpc = "scan", NEW k \in 1 .. need, NEW piece, piece = Written(buffer, at, AtMost(k, Unread))
  PROVE  /\ piece \in Seq(Byte) /\ Len(piece) = BufferLen
         /\ \A i \in 1 .. at : piece[i] = buffer[i]
         /\ \A i \in 1 .. k : piece[at + i] = Stream[taken + i]
<1>1. /\ at \in Nat /\ need \in Nat /\ at + need <= BufferLen /\ at <= BufferLen
      /\ need <= arrived - taken /\ Len(buffer) = BufferLen /\ buffer \in Seq(Byte) /\ BufferLen \in Nat
      /\ arrived \in Nat /\ taken \in Nat
  BY ScanValues, SocketIOAssumption DEF Inv, Flat
<1>2. /\ Unread \in Seq(Byte) /\ Len(Unread) = arrived - taken
      /\ \A i \in 1 .. arrived - taken : Unread[i] = Stream[taken + i]
  BY UnreadValues DEF Inv
<1>3. k \in Nat /\ (IF Len(Unread) < k THEN Len(Unread) ELSE k) = k
  BY <1>1, <1>2
<1>4. PICK bytes \in Seq(Byte) : /\ bytes = AtMost(k, Unread) /\ Len(bytes) = k
                                 /\ \A i \in 1 .. k : bytes[i] = Unread[i]
  BY <1>2, <1>3, AtMostValues
<1>5. /\ piece \in Seq(Byte) /\ Len(piece) = Len(buffer)
      /\ \A i \in 1 .. Len(buffer) : piece[i] = IF i - at \in 1 .. Len(bytes) THEN bytes[i - at] ELSE buffer[i]
  <2>1. piece = Written(buffer, at, bytes) /\ at \in Int
    BY <1>1, <1>4
  <2>2. /\ Written(buffer, at, bytes) \in Seq(Byte) /\ Len(Written(buffer, at, bytes)) = Len(buffer)
        /\ \A i \in 1 .. Len(buffer) :
             Written(buffer, at, bytes)[i] = IF i - at \in 1 .. Len(bytes) THEN bytes[i - at] ELSE buffer[i]
    <3>1. buffer \in Seq(Byte)
      BY <1>1
    <3>2. QED
      BY ONLY <2>1, <3>1, WrittenValues, bytes \in Seq(Byte)
  <2>3. QED
    BY ONLY <2>1, <2>2
<1>6. /\ \A i \in 1 .. at : i \in 1 .. BufferLen /\ i - at \notin 1 .. k
      /\ \A i \in 1 .. k : at + i \in 1 .. BufferLen /\ (at + i) - at = i /\ i \in 1 .. arrived - taken
  BY <1>1, <1>3
<1>7. \A i \in 1 .. at : piece[i] = buffer[i]
  BY <1>1, <1>4, <1>5, <1>6
<1>8. \A i \in 1 .. k : piece[at + i] = Stream[taken + i]
  BY <1>1, <1>2, <1>4, <1>5, <1>6
<1>9. QED
  BY <1>1, <1>5, <1>7, <1>8

\* The newline that readline finds is the end of line n + 1.
LEMMA LineFound ==
  ASSUME Inv, rpc = "scan", NEW n \in 0 .. Len(msgs), Assembled(n), Newline # 0
  PROVE  /\ n \in 0 .. Len(msgs) - 1 /\ n + 1 \in 1 .. Len(msgs) /\ n + 1 \in 0 .. Len(msgs)
         /\ at + Newline = Len(msgs[n + 1]) + 1 /\ taken + Newline = EndOf(n + 1)
<1>1. PICK p \in Nat \ {0} :
        /\ p = Newline /\ p \in 1 .. need /\ buffer[at + p] = NL
        /\ \A i \in 1 .. need : i < p => buffer[at + i] # NL
  BY ScanValues
<1>2. /\ Flat /\ Fit /\ version # "prefix" /\ at \in Nat /\ need \in Nat /\ taken \in Nat /\ taken + need <= Len(Stream)
      /\ Len(Stream) \in Nat
  BY ScanValues, StreamValues DEF Inv, Flat
<1>3. /\ EndOf(n) + at = taken /\ EndOf(n) \in Nat
      /\ \A i \in 1 .. at + need : buffer[i] = Stream[EndOf(n) + i]
      /\ \A i \in 1 .. need : EndOf(n) + (at + i) = taken + i
  BY AssembledValues
<1>4. PICK q \in Nat \ {0} : q = at + p
  BY <1>2
<1>5. q \in 1 .. at + need /\ EndOf(n) + q <= Len(Stream) /\ EndOf(n) + q = taken + p
  <2>1. q \in 1 .. at + need /\ EndOf(n) + q = taken + p
    BY <1>1, <1>2, <1>3, <1>4
  <2>2. taken + p <= taken + need
    BY <1>1, <1>2
  <2>3. QED
    BY <1>2, <2>1, <2>2
<1>6. Stream[EndOf(n) + q] = NL
  BY <1>1, <1>3, <1>4, <1>5
<1>7. ASSUME NEW i \in 1 .. q, i < q
      PROVE  Stream[EndOf(n) + i] # NL
  <2>1. i \in 1 .. at + need
    BY <1>2, <1>5
  <2>2. buffer[i] # NL
    <3>1. CASE i \in 1 .. at
      BY <3>1 DEF Assembled
    <3>2. CASE i \notin 1 .. at
      <4>1. i - at \in 1 .. need /\ i - at < p /\ at + (i - at) = i
        BY <1>1, <1>2, <1>4, <1>7, <3>2
      <4>2. QED
        BY <1>1, <4>1
    <3>3. QED
      BY <3>1, <3>2
  <2>3. QED
    BY <1>3, <2>1, <2>2
<1>8. QED
  BY <1>1, <1>2, <1>4, <1>5, <1>6, <1>7, FirstNewline

\* What receive makes of the buffer then.
LEMMA LineReceived ==
  ASSUME Inv, rpc = "scan", NEW n \in 0 .. Len(msgs), Assembled(n), Newline # 0, version # "v1" => at = 0,
         NEW line, line = Written(buffer, at, AtMost(Newline, Unread))
  PROVE  Received([line EXCEPT ![at + Newline] = NUL], Newline) = AsReceived(msgs[n + 1])
<1>1. PICK p \in Nat \ {0} : p = Newline /\ p \in 1 .. need
  BY ScanValues
<1>2. /\ Flat /\ Fit /\ version \in {"v1", "v1_2", "v5"} /\ at \in Nat /\ need \in Nat /\ at + need <= BufferLen
      /\ BufferLen \in Nat
  BY ScanValues, SocketIOAssumption DEF Inv
<1>3. /\ n \in 0 .. Len(msgs) - 1 /\ n + 1 \in 1 .. Len(msgs)
      /\ at + p = Len(msgs[n + 1]) + 1
  BY <1>1, LineFound
<1>4. PICK m \in Seq(Byte) : /\ m = msgs[n + 1] /\ Len(m) \in Nat
                             /\ \A i \in 1 .. Len(m) : Stream[EndOf(n) + i] = m[i] /\ m[i] # NUL
  BY <1>2, <1>3, LineValues
<1>5. /\ line \in Seq(Byte) /\ Len(line) = BufferLen
      /\ \A i \in 1 .. at : line[i] = buffer[i]
      /\ \A i \in 1 .. p : line[at + i] = Stream[taken + i]
  BY <1>1, TakenValues
<1>6. ASSUME NEW i \in 1 .. Len(m)
      PROVE  line[i] = m[i]
  <2>1. /\ EndOf(n) + at = taken /\ EndOf(n) \in Nat
        /\ \A j \in 1 .. at + need : buffer[j] = Stream[EndOf(n) + j]
        /\ \A j \in 1 .. need : EndOf(n) + (at + j) = taken + j
    BY AssembledValues
  <2>2. CASE i \in 1 .. at
    <3>1. i \in 1 .. at + need
      BY <1>2, <2>2
    <3>2. QED
      BY <1>4, <1>5, <2>1, <2>2, <3>1
  <2>3. CASE i \notin 1 .. at
    <3>1. i - at \in 1 .. p /\ i - at \in 1 .. need /\ at + (i - at) = i
      BY <1>1, <1>2, <1>3, <1>4, <2>3
    <3>2. line[i] = Stream[EndOf(n) + i]
      BY <1>5, <2>1, <3>1
    <3>3. QED
      BY <1>4, <3>2
  <2>4. QED
    BY <2>2, <2>3
<1>7. PICK buf \in Seq(Byte) : /\ buf = [line EXCEPT ![at + p] = NUL] /\ Len(buf) = BufferLen
                               /\ \A i \in 1 .. BufferLen : buf[i] = IF i = at + p THEN NUL ELSE line[i]
  <2>1. at + p \in 1 .. Len(line) /\ NUL \in Byte
    BY <1>1, <1>2, <1>5 DEF NUL, Byte
  <2>2. PICK k \in 1 .. Len(line) : at + p = k
    BY <2>1
  <2>3. /\ [line EXCEPT ![k] = NUL] \in Seq(Byte) /\ Len([line EXCEPT ![k] = NUL]) = Len(line)
        /\ \A j \in 1 .. Len(line) : [line EXCEPT ![k] = NUL][j] = IF j = k THEN NUL ELSE line[j]
    BY <1>5, <2>1, ExceptSeq
  <2>4. PICK buf \in Seq(Byte) : /\ buf = [line EXCEPT ![k] = NUL] /\ Len(buf) = Len(line)
                                 /\ \A j \in 1 .. Len(line) : buf[j] = IF j = k THEN NUL ELSE line[j]
    BY ONLY <2>3
  <2>5. [line EXCEPT ![k] = NUL] = [line EXCEPT ![at + p] = NUL]
    BY <2>2
  <2>6. buf = [line EXCEPT ![at + p] = NUL]
    BY ONLY <2>4, <2>5, Zenon
  <2>7. Len(buf) = BufferLen /\ \A i \in 1 .. BufferLen : buf[i] = IF i = at + p THEN NUL ELSE line[i]
    BY ONLY <1>5, <2>2, <2>4
  <2>8. QED
    BY <2>6, <2>7, Zenon
<1>8. /\ at + p = Len(m) + 1 /\ Len(m) + 1 <= BufferLen /\ buf[Len(m) + 1] = NUL
      /\ \A i \in 1 .. Len(m) : buf[i] = m[i] /\ buf[i] # NUL
  <2>1. at + p = Len(m) + 1 /\ Len(m) + 1 <= BufferLen
    BY <1>1, <1>2, <1>3, <1>4
  <2>2. Len(m) + 1 \in 1 .. BufferLen /\ \A i \in 1 .. Len(m) : i \in 1 .. BufferLen /\ i # Len(m) + 1
    BY <1>2, <1>4, <2>1
  <2>3. QED
    BY <1>4, <1>6, <1>7, <2>1, <2>2
<1>9. PICK start \in Seq(Byte) : start = SubSeq(buf, 1, Len(m)) /\ start = m
  <2>1. Len(m) \in 0 .. Len(buf)
    BY <1>4, <1>7, <1>8
  <2>2. /\ SubSeq(buf, 1, Len(m)) \in Seq(Byte) /\ Len(SubSeq(buf, 1, Len(m))) = Len(m)
        /\ \A i \in 1 .. Len(m) : SubSeq(buf, 1, Len(m))[i] = buf[i]
    BY <1>4, <2>1, Beginning
  <2>3. PICK s \in Seq(Byte) : s = SubSeq(buf, 1, Len(m)) /\ Len(s) = Len(m) /\ \A i \in 1 .. Len(s) : s[i] = m[i]
    BY <1>8, <2>2
  <2>4. s = m
    BY <2>3, SeqEqual
  <2>5. QED
    BY <2>3, <2>4
<1>10. CASE version = "v1"
  <2>1. Received(buf, p) = SubSeq(buf, 1, Len(m) + 1)
    BY <1>8, <1>10 DEF Received
  <2>2. SubSeq(buf, 1, Len(m) + 1) = SubSeq(buf, 1, Len(m)) \o <<buf[Len(m) + 1]>>
    <3>1. 1 \in 1 .. Len(buf) /\ Len(m) + 1 \in 1 .. Len(buf) /\ (Len(m) + 1) - 1 = Len(m)
      BY <1>4, <1>7, <1>8
    <3>2. SubSeq(buf, 1, Len(m) + 1) = SubSeq(buf, 1, (Len(m) + 1) - 1) \o <<buf[Len(m) + 1]>>
      BY <3>1, SubSeqRecursiveSecond
    <3>3. QED
      BY <3>1, <3>2
  <2>3. m \o <<NUL>> = Append(m, NUL)
    BY AppendIsConcat DEF NUL, Byte
  <2>4. AsReceived(msgs[n + 1]) = Append(m, NUL)
    BY <1>4, <1>10 DEF AsReceived
  <2>5. QED
    BY <1>1, <1>7, <1>8, <1>9, <2>1, <2>2, <2>3, <2>4
<1>11. CASE version = "v1_2"
  <2>1. p - 1 = Len(m)
    BY <1>1, <1>2, <1>4, <1>8, <1>11
  <2>2. Received(buf, p) = SubSeq(buf, 1, Len(m)) /\ AsReceived(msgs[n + 1]) = m
    BY <1>4, <1>11, <2>1 DEF Received, AsReceived
  <2>3. QED
    BY <1>1, <1>7, <1>9, <2>2
<1>12. CASE version = "v5"
  <2>1. Received(buf, p) = CString(buf) /\ AsReceived(msgs[n + 1]) = m
    BY <1>4, <1>12 DEF Received, AsReceived
  <2>2. PICK f : f = First(buf, NUL) /\ CString(buf) = SubSeq(buf, 1, f - 1)
    BY DEF CString, First, SelectInSeq
  <2>3. \/ f = 0 /\ \A i \in 1 .. Len(buf) : buf[i] # NUL
        \/ f \in 1 .. Len(buf) /\ buf[f] = NUL /\ \A i \in 1 .. Len(buf) : i < f => buf[i] # NUL
    BY ONLY <2>2, FirstValues, buf \in Seq(Byte)
  <2>4. Len(m) + 1 \in 1 .. Len(buf)
    BY <1>4, <1>7, <1>8
  <2>5. f - 1 = Len(m)
    <3>1. f \in 1 .. Len(buf) /\ buf[f] = NUL /\ ~(Len(m) + 1 < f)
      BY <1>8, <2>3, <2>4
    <3>2. f \notin 1 .. Len(m)
      BY <1>8, <3>1
    <3>3. f \in Nat \ {0} /\ f <= Len(m) + 1 /\ Len(m) < f
      <4>1. Len(m) \in Nat /\ Len(buf) \in Nat
        BY <1>4, LenProperties
      <4>2. QED
        BY ONLY <3>1, <3>2, <4>1
    <3>4. QED
      BY <1>4, <3>3
  <2>6. QED
    BY <1>1, <1>7, <1>9, <2>1, <2>2, <2>5
<1>13. QED
  BY <1>2, <1>10, <1>11, <1>12

\* The strings that receive makes of the buffer.
LEMMA StringValues ==
  ASSUME NEW buf \in Seq(Byte)
  PROVE  /\ CString(buf) \in Seq(Byte)
         /\ \A k \in Int : k <= Len(buf) => SubSeq(buf, 1, k) \in Seq(Byte)
<1>1. Len(buf) \in Nat
  BY LenProperties
<1>2. ASSUME NEW k \in Int, k <= Len(buf)
      PROVE  SubSeq(buf, 1, k) \in Seq(Byte)
  <2>1. CASE k < 1
    <3>1. SubSeq(buf, 1, k) = <<>>
      BY <2>1, SubSeqEmpty
    <3>2. QED
      BY <3>1, EmptySeq
  <2>2. CASE 1 <= k
    <3>1. k \in 0 .. Len(buf)
      BY <1>1, <1>2, <2>2
    <3>2. QED
      BY <3>1, Beginning
  <2>3. QED
    BY <2>1, <2>2
<1>3. CString(buf) \in Seq(Byte)
  <2>1. PICK f : f = First(buf, NUL) /\ CString(buf) = SubSeq(buf, 1, f - 1)
    BY DEF CString, First, SelectInSeq
  <2>2. f = 0 \/ f \in 1 .. Len(buf)
    BY ONLY <2>1, FirstValues, buf \in Seq(Byte)
  <2>3. f - 1 \in Int /\ f - 1 <= Len(buf)
    BY <1>1, <2>2
  <2>4. QED
    BY <1>2, <2>1, <2>3
<1>4. QED
  BY <1>2, <1>3

\* Which line the buffer of version 1 and 1.2 holds, and in the runs of InLines that
\* of all versions.
LEMMA LineAssembled ==
  ASSUME Inv, rpc = "scan"
  PROVE  /\ version \in {"v1", "v1_2"} /\ LinesFit => \E n \in 0 .. Len(msgs) : Assembled(n)
         /\ InLines => Len(got) \in 0 .. Len(msgs) /\ Assembled(Len(got)) /\ (version # "v1" => at = 0)
<1>1. /\ Flat /\ version \in {"v1", "v1_2", "v5"} /\ ~Reset /\ Pieces /\ (InLines => Received1)
      /\ taken \in Nat /\ at \in Nat /\ need \in Nat
  BY ScanValues DEF Inv, Receiving, Flat
<1>2. ASSUME version \in {"v1", "v1_2"}, LinesFit
      PROVE  \E n \in 0 .. Len(msgs) : Assembled(n)
  <2>1. PICK n \in 0 .. Len(msgs) : taken - at = EndOf(n)
    BY <1>1, <1>2, StreamValues DEF Pieces, InReadline
  <2>2. Assembled(n)
    BY <1>1, <1>2, <2>1 DEF Pieces, InReadline, Assembled
  <2>3. QED
    BY <2>2
<1>3. ASSUME InLines
      PROVE  Len(got) \in 0 .. Len(msgs) /\ Assembled(Len(got)) /\ (version # "v1" => at = 0)
  <2>1. /\ Len(got) <= Len(msgs) /\ taken - at = EndOf(Len(got))
        /\ version # "v1" => at = 0 /\ \A i \in 1 .. need : buffer[i] = Stream[taken + i]
    BY <1>1, <1>3 DEF Received1, InReadline
  <2>2. Len(got) \in 0 .. Len(msgs)
    <3>1. Len(got) \in Nat /\ Len(msgs) \in Nat
      BY <1>1, MessageValues, LenProperties DEF Flat
    <3>2. QED
      BY <2>1, <3>1
  <2>3. CASE version = "v1"
    BY <1>1, <2>1, <2>2, <2>3 DEF Pieces, InReadline, Assembled
  <2>4. CASE version # "v1"
    <3>1. (\A i \in 1 .. at : FALSE) /\ need \in Nat /\ \A i \in 1 .. need : at + i = i
      BY <1>1, <2>1, <2>4 DEF Flat
    <3>2. QED
      BY <2>1, <2>2, <2>4, <3>1 DEF Assembled
  <2>5. QED
    BY <2>3, <2>4
<1>4. QED
  BY <1>2, <1>3

\* A receiver that returns has read all of a line, or neither lines nor pieces matter.
LEMMA ReturnStep ==
  ASSUME Inv, rpc = "scan", UNCHANGED <<fixed, sender, arrived, end>>,
         NEW m \in Seq(Byte), Return(m), taken' \in Nat, taken' <= arrived,
         version \in {"v1", "v1_2"} /\ LinesFit => taken' \in Ends,
         InLines => Len(got) + 1 <= Len(msgs) /\ m = AsReceived(msgs[Len(got) + 1]) /\ taken' = EndOf(Len(got) + 1)
  PROVE  Inv'
<1>1. /\ Flat /\ Fit /\ Sending /\ Arriving /\ Receiving /\ Places
      /\ UNCHANGED fixed /\ UNCHANGED sender
      /\ version' = version /\ whole' = whole /\ msgs' = msgs
      /\ todo' = todo /\ out' = out /\ sent' = sent /\ closing' = closing /\ arrived' = arrived /\ end' = end
      /\ got' = Append(got, m) /\ rpc' = "idle" /\ buffer' = <<>> /\ at' = 0 /\ need' = 0
      /\ ~Reset /\ ~Reset' /\ version \in {"v1", "v1_2", "v5"}
  BY ScanValues DEF Inv, Receiving, Return, fixed, sender, Reset
<1>2. /\ Stream' = Stream /\ Ends' = Ends /\ LinesFit' = LinesFit /\ InLines' = InLines
      /\ \A n : EndOf(n)' = EndOf(n)
      /\ \A l : AsReceived(l)' = AsReceived(l)
  BY <1>1, FixedStays
<1>3. Fit' /\ Sending' /\ Arriving'
  BY <1>1, SenderStays
<1>4. /\ got \in Seq(Seq(Int)) /\ Len(got) \in Nat /\ got' \in Seq(Seq(Int)) /\ Len(got') = Len(got) + 1
      /\ \A k \in 1 .. Len(got) : got'[k] = got[k]
      /\ got'[Len(got) + 1] = m
  <2>1. m \in Seq(Int)
    BY BytesAreInts
  <2>2. QED
    BY <1>1, <2>1, LenProperties, AppendProperties DEF Flat
<1>5. Flat'
  BY <1>1, <1>4, EmptySeq DEF Flat
<1>6. Places'
  <2>1. BufferLen \in Nat \ {0, 1}
    BY SocketIOAssumption
  <2>2. -1 <= 0 /\ 0 <= BufferLen - 2
    BY <2>1
  <2>3. QED
    BY <1>1, <2>2 DEF Places, InReadline
<1>7. Pieces'
  BY <1>1, <1>2 DEF Pieces, InReadline
<1>8. InLines' => Received1'
  <2>1. SUFFICES ASSUME InLines
                 PROVE  Received1'
    BY <1>2
  <2>2. \A k \in 1 .. Len(got) : got[k] = AsReceived(msgs[k])
    BY <1>1, <2>1 DEF Receiving, Received1
  <2>3. \A k \in 1 .. Len(got) + 1 : k \in 1 .. Len(got) \/ k = Len(got) + 1
    BY <1>4
  <2>4. \A k \in 1 .. Len(got') : got'[k] = AsReceived(msgs[k])
    BY <1>4, <2>1, <2>2, <2>3
  <2>5. QED
    BY <1>1, <1>2, <1>4, <2>1, <2>4 DEF Received1, InReadline
<1>9. QED
  BY <1>1, <1>3, <1>5, <1>6, <1>7, <1>8 DEF Inv, Receiving

LEMMA EndOfLineStep ==
  ASSUME Inv, EndOfLine
  PROVE  Inv'
<1>1. PICK p \in Nat : p = Newline /\ p \in 1 .. need
  BY ScanValues DEF EndOfLine
<1>2. PICK line : line = Written(buffer, at, AtMost(p, Unread))
  OBVIOUS
<1>3. PICK m : m = Received([line EXCEPT ![at + p] = NUL], p)
  OBVIOUS
<1>4. /\ rpc = "scan" /\ Newline # 0 /\ Return(m) /\ taken' = taken + p
      /\ UNCHANGED <<fixed, sender, arrived, end>>
  BY <1>1, <1>2, <1>3 DEF EndOfLine, LineSize
<1>5. /\ version \in {"v1", "v1_2", "v5"} /\ at \in Nat /\ need \in Nat /\ at + need <= BufferLen /\ taken + need <= arrived
      /\ BufferLen \in Nat /\ taken \in Nat /\ arrived \in Nat
  BY <1>4, ScanValues, SocketIOAssumption DEF Inv, Flat
<1>6. m \in Seq(Byte)
  <2>1. line \in Seq(Byte) /\ Len(line) = BufferLen
    BY <1>1, <1>2, <1>4, TakenValues
  <2>2. PICK k \in 1 .. Len(line) : at + p = k
    BY <1>1, <1>5, <2>1
  <2>3. PICK buf \in Seq(Byte) : buf = [line EXCEPT ![k] = NUL] /\ Len(buf) = BufferLen
    <3>1. NUL \in Byte
      BY DEF NUL, Byte
    <3>2. [line EXCEPT ![k] = NUL] \in Seq(Byte) /\ Len([line EXCEPT ![k] = NUL]) = Len(line)
      BY <2>1, <3>1, ExceptSeq
    <3>3. QED
      BY <2>1, <3>2
  <2>4. m = Received(buf, p)
    BY <1>3, <2>2, <2>3
  <2>5. at + p \in Int /\ at + p <= Len(buf) /\ p - 1 \in Int /\ p - 1 <= Len(buf)
    BY <1>1, <1>5, <2>3
  <2>6. SubSeq(buf, 1, at + p) \in Seq(Byte) /\ SubSeq(buf, 1, p - 1) \in Seq(Byte) /\ CString(buf) \in Seq(Byte)
    BY <2>5, StringValues
  <2>7. QED
    BY <1>5, <2>4, <2>6 DEF Received
<1>7. taken' \in Nat /\ taken' <= arrived
  BY <1>1, <1>4, <1>5
<1>8. ASSUME version \in {"v1", "v1_2"}, LinesFit
      PROVE  taken' \in Ends
  <2>1. PICK n \in 0 .. Len(msgs) : Assembled(n)
    BY <1>4, <1>8, LineAssembled
  <2>2. taken' = EndOf(n + 1) /\ n + 1 \in 0 .. Len(msgs)
    BY <1>1, <1>4, <2>1, LineFound
  <2>3. QED
    BY <2>2, StreamValues DEF Inv
<1>9. ASSUME InLines
      PROVE  Len(got) + 1 <= Len(msgs) /\ m = AsReceived(msgs[Len(got) + 1]) /\ taken' = EndOf(Len(got) + 1)
  <2>1. PICK n \in 0 .. Len(msgs) : n = Len(got) /\ Assembled(n) /\ (version # "v1" => at = 0)
    BY <1>4, <1>9, LineAssembled
  <2>2. taken' = EndOf(n + 1) /\ n + 1 \in 1 .. Len(msgs)
    BY <1>1, <1>4, <2>1, LineFound
  <2>3. m = AsReceived(msgs[n + 1])
    BY <1>1, <1>2, <1>3, <1>4, <2>1, LineReceived
  <2>4. n + 1 <= Len(msgs)
    BY <2>2
  <2>5. QED
    BY ONLY <2>1, <2>2, <2>3, <2>4, Zenon
<1>10. QED
  BY <1>4, <1>6, <1>7, <1>8, <1>9, ReturnStep

\* Where no newline is found, the line goes on after the bytes peeked.
LEMMA LineGoesOn ==
  ASSUME Inv, rpc = "scan", NEW n \in 0 .. Len(msgs), Assembled(n), Newline = 0
  PROVE  n + 1 \in 1 .. Len(msgs) /\ at + need <= Len(msgs[n + 1]) /\ Len(msgs[n + 1]) \in Nat /\ EndOf(n) \in Nat
         /\ taken + need < EndOf(n + 1) /\ EndOf(n + 1) = EndOf(n) + (Len(msgs[n + 1]) + 1) /\ EndOf(n + 1) <= Len(Stream)
<1>1. /\ Flat /\ Fit /\ version # "prefix" /\ at \in Nat /\ need \in Nat \ {0} /\ taken \in Nat /\ taken + need <= Len(Stream)
      /\ Len(Stream) \in Nat
      /\ \A i \in 1 .. need : buffer[at + i] # NL
  BY ScanValues, StreamValues, SMTT(30) DEF Inv, Flat
<1>2. /\ EndOf(n) + at = taken /\ EndOf(n) \in Nat
      /\ \A i \in 1 .. at + need : buffer[i] = Stream[EndOf(n) + i]
  BY AssembledValues
<1>3. PICK q \in Nat \ {0} : q = at + need
  BY <1>1
<1>4. EndOf(n) + q = taken + need /\ EndOf(n) + q <= Len(Stream)
  <2>1. need \in 1 .. need
    BY <1>1
  <2>2. EndOf(n) + (at + need) = taken + need
    BY <2>1, AssembledValues
  <2>3. QED
    BY <1>1, <1>3, <2>2
<1>5. ASSUME NEW i \in 1 .. q
      PROVE  Stream[EndOf(n) + i] # NL
  <2>1. buffer[i] # NL
    <3>1. CASE i \in 1 .. at
      BY <3>1 DEF Assembled
    <3>2. CASE i \notin 1 .. at
      <4>1. i - at \in 1 .. need /\ at + (i - at) = i
        BY <1>1, <1>3, <3>2
      <4>2. QED
        BY <1>1, <4>1
    <3>3. QED
      BY <3>1, <3>2
  <2>2. QED
    BY <1>2, <1>3, <2>1
<1>6. n \in 0 .. Len(msgs) - 1 /\ n + 1 \in 1 .. Len(msgs) /\ n + 1 \in 0 .. Len(msgs) /\ q <= Len(msgs[n + 1])
  <2>1. Stream[EndOf(n) + q] # NL
    BY <1>5
  <2>2. QED
    BY <1>1, <1>4, <1>5, <2>1, FirstNewline
<1>7. PICK l \in Nat : l = Len(msgs[n + 1]) /\ EndOf(n + 1) = EndOf(n) + (l + 1)
  BY <1>1, <1>6, LineValues
<1>8. taken + need < EndOf(n + 1)
  BY <1>2, <1>4, <1>6, <1>7
<1>9. EndOf(n + 1) <= Len(Stream)
  BY <1>1, <1>6, StreamValues
<1>10. QED
  BY <1>2, <1>3, <1>6, <1>7, <1>8, <1>9

LEMMA NoNewlineStep ==
  ASSUME Inv, NoNewline
  PROVE  Inv'
<1>1. PICK piece : piece = Written(buffer, at, AtMost(need, Unread))
  OBVIOUS
<1>2. /\ rpc = "scan" /\ Newline = 0 /\ taken' = taken + need
      /\ UNCHANGED <<fixed, sender, arrived, end>>
      /\ Room(need) => rpc' = "peek" /\ buffer' = piece /\ at' = at + need /\ need' = 0 /\ got' = got
      /\ ~Room(need) => Return(IF version = "v5" THEN CString(piece) ELSE SubSeq(piece, 1, BufferLen - 1))
  BY <1>1 DEF NoNewline
<1>3. /\ Flat /\ Fit /\ Sending /\ Arriving /\ Receiving /\ version \in {"v1", "v1_2", "v5"} /\ ~Reset
      /\ at \in Nat /\ need \in Nat \ {0} /\ at + need <= BufferLen /\ at <= taken
      /\ taken + need <= arrived /\ BufferLen \in Nat \ {0, 1} /\ taken \in Nat /\ arrived \in Nat
      /\ \A i \in 1 .. need : buffer[at + i] # NL
  BY <1>2, ScanValues, SocketIOAssumption DEF Inv, Flat
<1>4. /\ piece \in Seq(Byte) /\ Len(piece) = BufferLen
      /\ \A i \in 1 .. at : piece[i] = buffer[i]
      /\ \A i \in 1 .. need : piece[at + i] = Stream[taken + i]
  <2>1. need \in 1 .. need
    BY <1>3
  <2>2. QED
    BY <1>1, <1>2, <2>1, TakenValues
<1>5. taken' \in Nat /\ taken' <= arrived
  BY <1>2, <1>3
\* Of the lines that count only that of version 1 is longer than a piece.
<1>6. InLines => version = "v1"
  <2>1. SUFFICES ASSUME InLines, version # "v1"
                 PROVE  FALSE
    OBVIOUS
  <2>2. PICK n \in 0 .. Len(msgs) : n = Len(got) /\ Assembled(n)
    BY <1>2, <2>1, LineAssembled
  <2>3. taken + need >= EndOf(Len(got) + 1)
    BY <1>2, <1>3, <2>1 DEF Receiving, Received1, InReadline
  <2>4. taken + need < EndOf(n + 1) /\ EndOf(n + 1) \in Nat
    <3>1. n + 1 \in 0 .. Len(msgs)
      BY <1>2, <1>3, <2>2, LineGoesOn
    <3>2. taken + need < EndOf(n + 1)
      BY <1>2, <1>3, <2>2, LineGoesOn
    <3>3. EndOf(n + 1) \in Nat
      BY <1>3, <3>1, StreamValues
    <3>4. QED
      BY <3>2, <3>3
  <2>5. taken + need >= EndOf(n + 1)
    BY ONLY <2>2, <2>3, Zenon
  <2>6. QED
    BY <1>3, <2>4, <2>5
<1>7. CASE Room(need)
  <2>1. /\ version' = version /\ whole' = whole /\ msgs' = msgs
        /\ todo' = todo /\ out' = out /\ sent' = sent /\ closing' = closing /\ arrived' = arrived /\ end' = end
        /\ rpc' = "peek" /\ buffer' = piece /\ at' = at + need /\ need' = 0 /\ got' = got /\ taken' = taken + need
        /\ ~Reset'
    BY <1>2, <1>3, <1>7 DEF fixed, sender, Reset
  <2>2. /\ Stream' = Stream /\ Ends' = Ends /\ LinesFit' = LinesFit /\ InLines' = InLines
        /\ \A n : EndOf(n)' = EndOf(n)
        /\ \A m : AsReceived(m)' = AsReceived(m)
    BY <1>2, FixedStays
  <2>3. Fit' /\ Sending' /\ Arriving'
    BY <1>2, <1>3, <1>5, <2>1, SenderStays
  <2>4. Flat'
    BY <1>3, <1>4, <1>5, <2>1 DEF Flat
  <2>5. at' \in Nat /\ at' <= BufferLen - 2 /\ at' <= taken' /\ taken' - at' = taken - at
    BY <1>3, <1>7, <2>1 DEF Room
  <2>6. Places'
    BY <1>3, <1>4, <2>1, <2>5 DEF Places, InReadline
  <2>7. Pieces'
    <3>1. SUFFICES ASSUME version \in {"v1", "v1_2"}
                   PROVE  /\ \A i \in 1 .. at' : piece[i] = Stream[taken - at + i] /\ piece[i] # NL
                          /\ LinesFit => taken - at \in Ends
      BY <1>3, <2>1, <2>2, <2>5 DEF Pieces, InReadline
    <3>2. /\ \A i \in 1 .. at : buffer[i] = Stream[taken - at + i] /\ buffer[i] # NL
          /\ LinesFit => taken - at \in Ends
          /\ \A i \in 1 .. need : buffer[at + i] = Stream[taken + i]
      BY <1>2, <1>3, <3>1 DEF Receiving, Pieces, InReadline
    <3>3. ASSUME NEW i \in 1 .. at', i \notin 1 .. at
          PROVE  piece[i] = Stream[taken - at + i] /\ piece[i] # NL
      <4>1. i - at \in 1 .. need /\ at + (i - at) = i /\ taken + (i - at) = taken - at + i
        BY <1>3, <2>1, <3>3
      <4>2. piece[i] = Stream[taken - at + i]
        BY <1>4, <4>1
      <4>3. buffer[i] # NL /\ buffer[i] = Stream[taken - at + i]
        BY <1>3, <3>2, <4>1
      <4>4. QED
        BY <4>2, <4>3
    <3>4. QED
      BY <1>4, <3>2, <3>3
  <2>8. InLines' => Received1'
    <3>1. InLines => Received1 /\ taken - at = EndOf(Len(got))
      BY <1>2, <1>3 DEF Receiving, Received1, InReadline
    <3>2. QED
      BY <1>6, <2>1, <2>2, <2>5, <3>1 DEF Received1, InReadline
  <2>9. QED
    BY <1>3, <2>1, <2>3, <2>4, <2>6, <2>7, <2>8 DEF Inv, Receiving
<1>8. CASE ~Room(need)
  <2>1. at + need >= BufferLen - 1
    BY <1>3, <1>8 DEF Room
  <2>2. ASSUME NEW n \in 0 .. Len(msgs), Assembled(n), version \in {"v1", "v1_2"}, version = "v1" \/ LinesFit
        PROVE  FALSE
    <3>1. PICK l \in Nat : /\ l = Len(msgs[n + 1]) /\ n + 1 \in 1 .. Len(msgs) /\ at + need <= l
                           /\ EndOf(n) \in Nat /\ EndOf(n + 1) = EndOf(n) + (l + 1) /\ EndOf(n + 1) <= Len(Stream)
      BY <1>2, <2>2, LineGoesOn
    <3>2. CASE version = "v1"
      <4>1. Len(Stream) < BufferLen /\ Len(Stream) \in Nat
        BY <1>3, <3>2, StreamValues DEF Fit
      <4>2. QED
        BY <1>3, <2>1, <3>1, <4>1
    <3>3. CASE LinesFit
      <4>1. n + 1 \in DOMAIN msgs
        BY <1>3, <3>1, MessageValues
      <4>2. l < BufferLen - 1
        BY <3>1, <3>3, <4>1 DEF LinesFit
      <4>3. QED
        BY <1>3, <2>1, <3>1, <4>2
    <3>4. QED
      BY <2>2, <3>2, <3>3
  <2>3. ~(version \in {"v1", "v1_2"} /\ LinesFit) /\ ~InLines
    BY <1>2, <1>6, <2>2, LineAssembled
  <2>4. PICK m \in Seq(Byte) : Return(m)
    <3>1. BufferLen - 1 \in Int /\ BufferLen - 1 <= Len(piece)
      BY <1>3, <1>4
    <3>2. CString(piece) \in Seq(Byte) /\ SubSeq(piece, 1, BufferLen - 1) \in Seq(Byte)
      BY <1>4, <3>1, StringValues
    <3>3. QED
      BY <1>2, <1>8, <3>2
  <2>5. QED
    BY <1>2, <1>5, <2>3, <2>4, ReturnStep
<1>9. QED
  BY <1>7, <1>8

\* After the end of a reset connection the receiver never returns.
LEMMA PeekFailsStep ==
  ASSUME Inv, PeekFails
  PROVE  Inv'
<1>1. /\ Flat /\ Fit /\ Sending /\ Arriving /\ Receiving /\ Places
      /\ UNCHANGED fixed /\ UNCHANGED sender /\ arrived' = arrived
      /\ version' = version /\ whole' = whole /\ msgs' = msgs
      /\ todo' = todo /\ out' = out /\ sent' = sent /\ closing' = closing
      /\ taken' = taken /\ got' = got /\ rpc = "peek" /\ rpc' = "peek" /\ buffer' = buffer /\ need' = need
      /\ at' = at - 1 /\ end = "rst" /\ end' = "fin" /\ Unread = <<>>
  BY DEF Inv, Receiving, PeekFails, fixed, sender
<1>2. /\ Stream' = Stream /\ LinesFit' = LinesFit /\ InLines' = InLines
      /\ \A m : AsReceived(m)' = AsReceived(m)
  BY <1>1, FixedStays
<1>3. Reset' /\ ~Reset /\ taken = arrived /\ taken \in Nat /\ arrived \in Nat
  BY <1>1, UnreadValues DEF Reset, Arriving, Flat
<1>4. at \in Int /\ 0 <= at /\ at <= BufferLen - 2 /\ BufferLen \in Nat
  BY <1>1, <1>3, SocketIOAssumption DEF Places, InReadline, Flat
<1>5. Fit' /\ Sending' /\ Arriving'
  BY <1>1, <1>3, SenderStays
<1>6. Flat'
  BY <1>1, <1>4 DEF Flat
<1>7. Places'
  <2>1. -1 <= at - 1 /\ at - 1 <= BufferLen - 2
    BY <1>4
  <2>2. QED
    BY <1>1, <1>3, <2>1 DEF Places, InReadline
<1>8. Pieces'
  BY <1>1, <1>3 DEF Pieces
<1>9. InLines' => Received1'
  BY <1>1, <1>2, <1>3 DEF Receiving, Received1
<1>10. version' # "prefix"
  BY <1>1 DEF Places
<1>11. QED
  BY <1>5, <1>6, <1>7, <1>8, <1>9, <1>10 DEF Inv, Receiving

-----------------------------------------------------------------------------
(* receiveWithPrefix.                                                      *)

LEMMA FramedStep ==
  ASSUME Inv, version = "prefix", UNCHANGED <<fixed, sender, arrived>>,
         taken' \in Nat, taken' <= arrived, end' = end \/ (end # "open" /\ end' = "fin"), Reset' => taken' = arrived,
         rpc' \in {"idle", "header", "body"}, at' = 0, need' \in Int, rpc' # "body" => need' >= 0, buffer' \in Seq(Byte), got' \in Seq(Seq(Int)),
         NEW n \in 0 .. Len(msgs), Framing(n)'
  PROVE  Inv'
<1>1. /\ Flat /\ Fit /\ Sending /\ Arriving
      /\ version' = version /\ whole' = whole /\ msgs' = msgs
      /\ todo' = todo /\ out' = out /\ sent' = sent /\ closing' = closing /\ arrived' = arrived
  BY DEF Inv, fixed, sender
<1>2. Fit' /\ Sending' /\ Arriving'
  BY <1>1, SenderStays
<1>3. Flat'
  <2>1. end' \in {"open", "fin", "rst"}
    BY <1>1 DEF Flat
  <2>2. QED
    BY <1>1, <2>1 DEF Flat
<1>4. Places'
  <2>1. BufferLen \in Nat \ {0, 1}
    BY SocketIOAssumption
  <2>2. -1 <= 0 /\ 0 <= BufferLen - 2
    BY <2>1
  <2>3. QED
    BY <1>1, <2>2 DEF Places, InReadline
<1>5. Pieces' /\ ~InLines'
  BY <1>1 DEF Pieces, InLines
<1>6. QED
  BY <1>1, <1>2, <1>3, <1>4, <1>5 DEF Inv, Receiving

\* What a receiver has of message n + 1 is a part of its prefix or of itself.
LEMMA FrameValues ==
  ASSUME Flat, version = "prefix", NEW n \in 0 .. Len(msgs) - 1
  PROVE  /\ n \in 0 .. Len(msgs) /\ n + 1 \in 1 .. Len(msgs) /\ n + 1 \in 0 .. Len(msgs)
         /\ msgs[n + 1] \in Seq(Byte) /\ Len(Payload(msgs[n + 1])) \in Nat /\ EndOf(n) \in Nat /\ Width \in Nat \ {0}
         /\ EndOf(n + 1) = EndOf(n) + Width + Len(Payload(msgs[n + 1]))
         /\ \A i \in 1 .. Width : Stream[EndOf(n) + i] = Header(Size(msgs[n + 1]))[i]
         /\ \A i \in 1 .. Len(Payload(msgs[n + 1])) : Stream[EndOf(n) + Width + i] = Payload(msgs[n + 1])[i]
         /\ Header(Size(msgs[n + 1])) \in Seq(Byte) /\ Len(Header(Size(msgs[n + 1]))) = Width
         /\ Length(Header(Size(msgs[n + 1]))) = Size(msgs[n + 1])
<1>1. n \in 0 .. Len(msgs) /\ n + 1 \in 1 .. Len(msgs) /\ n + 1 \in 0 .. Len(msgs)
  BY MessageValues
<1>2. PICK l \in Nat : l = Len(Payload(msgs[n + 1])) /\ msgs[n + 1] \in Seq(Byte)
  BY <1>1, MessageValues, SizeValues
<1>3. Width \in Nat \ {0} /\ EndOf(n) \in Nat
  BY <1>1, SocketIOAssumption, StreamValues
<1>4. /\ Len(Encoded(msgs[n + 1])) = Width + l
      /\ \A i \in 1 .. Width : Encoded(msgs[n + 1])[i] = Header(Size(msgs[n + 1]))[i]
      /\ \A i \in 1 .. l : Encoded(msgs[n + 1])[Width + i] = Payload(msgs[n + 1])[i]
  BY <1>1, <1>2, EncodedValues
<1>5. /\ EndOf(n + 1) = EndOf(n) + (Width + l)
      /\ \A i \in 1 .. Width + l : Stream[EndOf(n) + i] = Encoded(msgs[n + 1])[i]
  BY <1>4, StreamValues
<1>6. /\ EndOf(n) + (Width + l) = EndOf(n) + Width + l
      /\ \A i \in 1 .. Width : i \in 1 .. Width + l
      /\ \A i \in 1 .. l : Width + i \in 1 .. Width + l /\ EndOf(n) + (Width + i) = EndOf(n) + Width + i
  BY <1>3
<1>7. \A i \in 1 .. Width : Stream[EndOf(n) + i] = Header(Size(msgs[n + 1]))[i]
  BY <1>4, <1>5, <1>6
<1>8. \A i \in 1 .. l : Stream[EndOf(n) + Width + i] = Payload(msgs[n + 1])[i]
  BY <1>4, <1>5, <1>6
<1>9. /\ Header(Size(msgs[n + 1])) \in Seq(Byte) /\ Len(Header(Size(msgs[n + 1]))) = Width
      /\ Length(Header(Size(msgs[n + 1]))) = Size(msgs[n + 1])
  BY <1>2, SizeValues
<1>10. QED
  BY <1>1, <1>2, <1>3, <1>5, <1>6, <1>7, <1>8, <1>9

LEMMA RecvStep ==
  ASSUME Inv, Recv
  PROVE  Inv'
<1>1. PICK bytes : bytes = AtMost(need - Len(buffer), Unread)
  OBVIOUS
<1>2. /\ rpc \in {"header", "body"} /\ Len(buffer) < need /\ Unread # <<>>
      /\ buffer' = buffer \o bytes /\ taken' = taken + Len(bytes)
      /\ UNCHANGED <<fixed, sender, arrived, end, rpc, at, need, got>>
      /\ msgs' = msgs /\ rpc' = rpc /\ at' = at /\ need' = need /\ got' = got /\ end' = end /\ closing' = closing
  BY <1>1 DEF Recv, InRecvn, fixed, sender
<1>3. /\ Flat /\ Fit /\ Sending /\ Arriving /\ version = "prefix" /\ at = 0
      /\ Len(buffer) \in Nat /\ buffer \in Seq(Byte) /\ need \in Int /\ taken \in Nat /\ arrived \in Nat /\ taken <= arrived
      /\ got \in Seq(Seq(Int)) /\ taken # arrived /\ ~Reset
      /\ Unread \in Seq(Byte) /\ Len(Unread) = arrived - taken
      /\ \A i \in 1 .. arrived - taken : Unread[i] = Stream[taken + i]
  BY <1>2, UnreadValues, LenProperties DEF Inv, Receiving, Places, InReadline, Flat, Arriving
<1>4. /\ Stream' = Stream
      /\ \A n : EndOf(n)' = EndOf(n)
  BY <1>2, FixedStays
<1>5. PICK n \in 0 .. Len(msgs) : Framing(n)
  BY <1>3 DEF Inv, Receiving
<1>6. Len(got) = n /\ Synced(n)
  BY <1>3, <1>5 DEF Framing
<1>7. PICK k \in Nat : /\ k = Len(bytes) /\ k <= need - Len(buffer) /\ k <= arrived - taken /\ bytes \in Seq(Byte)
                       /\ \A i \in 1 .. k : bytes[i] = Stream[taken + i]
  <2>1. PICK room \in Nat : room = need - Len(buffer)
    <3>1. need - Len(buffer) \in Nat
      BY <1>2, <1>3
    <3>2. QED
      BY <3>1
  <2>2. /\ bytes \in Seq(Byte) /\ Len(bytes) = (IF Len(Unread) < room THEN Len(Unread) ELSE room)
        /\ \A i \in 1 .. Len(bytes) : bytes[i] = Unread[i]
    BY <1>1, <1>3, <2>1, AtMostValues
  <2>3. Len(bytes) \in Nat /\ Len(bytes) <= room /\ Len(bytes) <= arrived - taken
    BY <1>3, <2>1, <2>2
  <2>4. \A i \in 1 .. Len(bytes) : i \in 1 .. arrived - taken
    BY <1>3, <2>3
  <2>5. QED
    BY <1>3, <2>1, <2>2, <2>3, <2>4
<1>8. /\ buffer' \in Seq(Byte) /\ Len(buffer') = Len(buffer) + k
      /\ \A i \in 1 .. Len(buffer) : buffer'[i] = buffer[i]
      /\ \A i \in 1 .. k : buffer'[Len(buffer) + i] = Stream[taken + i]
  <2>1. /\ buffer \o bytes \in Seq(Byte) /\ Len(buffer \o bytes) = Len(buffer) + Len(bytes)
        /\ \A i \in 1 .. Len(buffer) + Len(bytes) :
             (buffer \o bytes)[i] = IF i <= Len(buffer) THEN buffer[i] ELSE bytes[i - Len(buffer)]
    BY <1>3, <1>7, ConcatProperties
  <2>2. /\ \A i \in 1 .. Len(buffer) : i \in 1 .. Len(buffer) + k /\ i <= Len(buffer)
        /\ \A i \in 1 .. k : /\ Len(buffer) + i \in 1 .. Len(buffer) + k /\ ~(Len(buffer) + i <= Len(buffer))
                             /\ (Len(buffer) + i) - Len(buffer) = i
    BY ONLY <1>3, k \in Nat
  <2>3. PICK b : b = buffer \o bytes /\ buffer' = b
    BY <1>2
  <2>4. b \in Seq(Byte) /\ Len(b) = Len(buffer) + k
    BY <1>7, <2>1, <2>3
  <2>5. ASSUME NEW i \in 1 .. Len(buffer)
        PROVE  b[i] = buffer[i]
    BY <1>7, <2>1, <2>2, <2>3
  <2>6. ASSUME NEW i \in 1 .. k
        PROVE  b[Len(buffer) + i] = Stream[taken + i]
    BY <1>7, <2>1, <2>2, <2>3
  <2>7. QED
    BY ONLY <2>3, <2>4, <2>5, <2>6
<1>9. /\ taken' = taken + k /\ taken' \in Nat /\ taken' <= arrived /\ Len(buffer') <= need
      /\ \A i \in 1 .. Len(buffer') : i \in 1 .. Len(buffer) \/ (i - Len(buffer) \in 1 .. k /\ Len(buffer) + (i - Len(buffer)) = i)
  <2>1. taken' = taken + k
    BY <1>2, <1>7
  <2>2. taken' \in Nat /\ taken' <= arrived
    BY <1>3, <1>7, <2>1
  <2>3. Len(buffer') <= need
    BY <1>3, <1>7, <1>8
  <2>4. \A i \in 1 .. Len(buffer) + k :
          i \in 1 .. Len(buffer) \/ (i - Len(buffer) \in 1 .. k /\ Len(buffer) + (i - Len(buffer)) = i)
    BY <1>3
  <2>5. QED
    BY <1>8, <2>1, <2>2, <2>3, <2>4
<1>10. Synced(n)'
  <2>1. CASE rpc = "header"
    <3>1. /\ need = Width /\ taken = EndOf(n) + Len(buffer) /\ EndOf(n) \in Nat
          /\ \A i \in 1 .. Len(buffer) : buffer[i] = Stream[EndOf(n) + i]
      BY <1>3, <1>6, <2>1, StreamValues DEF Synced
    <3>2. taken' = EndOf(n) + Len(buffer')
      <4>1. \A a, b \in Nat : a + b + k = a + (b + k)
        BY k \in Nat
      <4>2. EndOf(n) + Len(buffer) + k = EndOf(n) + (Len(buffer) + k)
        BY <1>3, <3>1, <4>1
      <4>3. QED
        BY ONLY <1>8, <1>9, <3>1, <4>2, Zenon
    <3>3. ASSUME NEW i \in 1 .. Len(buffer')
          PROVE  buffer'[i] = Stream[EndOf(n) + i]
      <4>1. CASE i \in 1 .. Len(buffer)
        BY <1>8, <3>1, <4>1
      <4>2. CASE i \notin 1 .. Len(buffer)
        <5>1. i - Len(buffer) \in 1 .. k /\ Len(buffer) + (i - Len(buffer)) = i
          BY <1>9, <4>2
        <5>2. taken + (i - Len(buffer)) = EndOf(n) + i
          <6>1. EndOf(n) \in Nat /\ Len(buffer) \in Nat /\ i \in Int /\ taken = EndOf(n) + Len(buffer)
            BY <1>3, <3>1
          <6>2. \A a, b \in Nat, c \in Int : (a + b) + (c - b) = a + c
            OBVIOUS
          <6>3. (EndOf(n) + Len(buffer)) + (i - Len(buffer)) = EndOf(n) + i
            BY ONLY <6>1, <6>2
          <6>4. QED
            BY ONLY <6>1, <6>3, Zenon
        <5>3. QED
          BY <1>8, <5>1, <5>2
      <4>3. QED
        BY <4>1, <4>2
    <3>4. QED
      BY <1>2, <1>4, <1>9, <2>1, <3>1, <3>2, <3>3 DEF Synced
  <2>2. CASE rpc = "body"
    <3>1. /\ n < Len(msgs) /\ need = AsInt(Size(msgs[n + 1])) /\ taken = EndOf(n) + Width + Len(buffer)
          /\ \A i \in 1 .. Len(buffer) : buffer[i] = Payload(msgs[n + 1])[i]
      BY <1>6, <2>2 DEF Synced
    <3>2. n \in 0 .. Len(msgs) - 1
      BY <1>3, <3>1, MessageValues
    <3>3. /\ EndOf(n) \in Nat /\ Width \in Nat
          /\ \A i \in 1 .. need : Stream[EndOf(n) + Width + i] = Payload(msgs[n + 1])[i]
          /\ Len(Payload(msgs[n + 1])) = need
      <4>1. need >= 0
        BY <1>2, <1>3
      <4>2. msgs[n + 1] \in Seq(Byte)
        BY <1>3, <3>2, FrameValues
      <4>3. Len(Payload(msgs[n + 1])) = need
        BY ONLY <3>1, <4>1, <4>2, PayloadFits
      <4>4. /\ EndOf(n) \in Nat /\ Width \in Nat
            /\ \A i \in 1 .. Len(Payload(msgs[n + 1])) : Stream[EndOf(n) + Width + i] = Payload(msgs[n + 1])[i]
        BY <1>3, <3>2, FrameValues
      <4>5. QED
        BY ONLY <4>3, <4>4
    <3>4. taken' = EndOf(n) + Width + Len(buffer')
      <4>1. \A a, b, c \in Nat : a + b + c + k = a + b + (c + k)
        BY k \in Nat
      <4>2. EndOf(n) + Width + Len(buffer) + k = EndOf(n) + Width + (Len(buffer) + k)
        BY <1>3, <3>3, <4>1, SMTT(30)
      <4>3. QED
        BY ONLY <1>8, <1>9, <3>1, <4>2, Zenon
    <3>5. ASSUME NEW i \in 1 .. Len(buffer')
          PROVE  buffer'[i] = Payload(msgs[n + 1])[i]
      <4>1. CASE i \in 1 .. Len(buffer)
        BY <1>8, <3>1, <4>1
      <4>2. CASE i \notin 1 .. Len(buffer)
        <5>1. i - Len(buffer) \in 1 .. k /\ Len(buffer) + (i - Len(buffer)) = i
          BY <1>9, <4>2
        <5>2. taken + (i - Len(buffer)) = EndOf(n) + Width + i
          <6>1. /\ EndOf(n) \in Nat /\ Width \in Nat /\ Len(buffer) \in Nat /\ i \in Int
                /\ taken = EndOf(n) + Width + Len(buffer)
            BY <1>3, <3>1, <3>3
          <6>2. \A a, d, b \in Nat, c \in Int : (a + d + b) + (c - b) = a + d + c
            OBVIOUS
          <6>3. (EndOf(n) + Width + Len(buffer)) + (i - Len(buffer)) = EndOf(n) + Width + i
            BY ONLY <6>1, <6>2
          <6>4. QED
            BY ONLY <6>1, <6>3, Zenon
        <5>3. i \in 1 .. need
          BY <1>3, <1>8, <1>9
        <5>4. QED
          BY <1>8, <3>1, <3>3, <5>1, <5>2, <5>3
      <4>3. QED
        BY <4>1, <4>2
    <3>6. QED
      BY <1>2, <1>4, <1>9, <2>2, <3>1, <3>3, <3>4, <3>5 DEF Synced
  <2>3. QED
    BY <1>2, <2>1, <2>2
<1>11. Framing(n)'
  BY <1>2, <1>5, <1>6, <1>10 DEF Framing
<1>12. ~Reset'
  BY <1>2, <1>3 DEF Reset
<1>13. need' >= 0
  BY <1>2, <1>3
<1>14. QED
  BY <1>2, <1>3, <1>8, <1>9, <1>11, <1>12, <1>13, FramedStep

LEMMA RecvnEndsStep ==
  ASSUME Inv, RecvnEnds
  PROVE  Inv'
<1>1. /\ InRecvn /\ rpc \in {"header", "body"} /\ Len(buffer) < need /\ Unread = <<>> /\ end # "open" /\ end' = "fin"
      /\ got' = Append(got, <<>>) /\ rpc' = "idle" /\ buffer' = <<>> /\ at' = 0 /\ need' = 0
      /\ taken' = taken /\ arrived' = arrived /\ msgs' = msgs /\ end' # "open"
      /\ UNCHANGED <<fixed, sender, arrived>>
  BY DEF RecvnEnds, InRecvn, Return, ShortRecvn, fixed
<1>2. /\ Flat /\ version = "prefix" /\ taken = arrived /\ taken \in Nat /\ got \in Seq(Seq(Int))
      /\ buffer \in Seq(Byte) /\ Len(buffer) \in Nat /\ need \in Int
  BY <1>1, UnreadValues, LenProperties DEF Inv, Receiving, Places, Flat
<1>3. <<>> \in Seq(Byte) /\ <<>> \in Seq(Int)
  BY EmptySeq
<1>4. /\ got' \in Seq(Seq(Int)) /\ Len(got') = Len(got) + 1 /\ Len(got) \in Nat
      /\ \A k \in 1 .. Len(got) : got'[k] = got[k]
      /\ got'[Len(got) + 1] = <<>>
  BY <1>1, <1>2, <1>3, AppendProperties, LenProperties
<1>5. PICK n \in 0 .. Len(msgs) : Framing(n)
  BY <1>2 DEF Inv, Receiving
<1>6. n < Len(msgs) => arrived < EndOf(n + 1)
  <2>1. CASE Len(got) # n
    BY <1>5, <2>1 DEF Framing
  <2>2. CASE Len(got) = n /\ n < Len(msgs)
    <3>1. n \in 0 .. Len(msgs) - 1 /\ Synced(n)
      BY <1>2, <1>5, <2>2, MessageValues DEF Framing
    <3>2. PICK l \in Nat, w \in Nat, e \in Nat :
            /\ l = Len(Payload(msgs[n + 1])) /\ w = Width /\ e = EndOf(n) /\ EndOf(n + 1) = e + w + l
            /\ msgs[n + 1] \in Seq(Byte)
      BY <1>2, <3>1, FrameValues
    <3>3. CASE rpc = "header"
      <4>1. taken = e + Len(buffer) /\ Len(buffer) < w
        BY <1>1, <3>1, <3>2, <3>3 DEF Synced
      <4>2. QED
        BY <1>2, <3>2, <4>1
    <3>4. CASE rpc = "body"
      <4>1. /\ taken = e + w + Len(buffer) /\ need = AsInt(Size(msgs[n + 1]))
        BY <3>1, <3>2, <3>4 DEF Synced
      <4>2. need >= 0
        BY <1>1, <1>2
      <4>3. l = need
        BY ONLY <3>2, <4>1, <4>2, PayloadFits
      <4>4. Len(buffer) < l
        BY <1>1, <4>3
      <4>5. QED
        BY <1>2, <3>2, <4>1, <4>4, SMTT(30)
    <3>5. QED
      BY <1>1, <3>3, <3>4
  <2>3. QED
    BY <2>1, <2>2
<1>7. Framing(n)'
  <2>1. /\ n \in Nat /\ n <= Len(got) /\ \A k \in 1 .. n : got[k] = Delivered(msgs[k])
        /\ \A k \in n + 1 .. Len(got) : got[k] = <<>>
    <3>1. n \in Nat
      BY <1>2, MessageValues
    <3>2. QED
      BY <1>5, <3>1 DEF Framing
  <2>2. /\ n <= Len(got') /\ Len(got') # n
        /\ \A k \in 1 .. n : k \in 1 .. Len(got)
        /\ \A k \in n + 1 .. Len(got') : k = Len(got) + 1 \/ (k \in n + 1 .. Len(got) /\ k \in 1 .. Len(got))
    BY <1>4, <2>1
  <2>3. (\A k \in 1 .. n : got'[k] = Delivered(msgs[k])) /\ \A k \in n + 1 .. Len(got') : got'[k] = <<>>
    BY <1>4, <2>1, <2>2
  <2>4. \A m : EndOf(m)' = EndOf(m)
    BY <1>1, FixedStays
  <2>5. QED
    BY <1>1, <1>2, <1>6, <2>2, <2>3, <2>4 DEF Framing, Delivered
<1>8. taken' <= arrived /\ 0 \in Int /\ 0 >= 0
  BY <1>1, <1>2
<1>9. QED
  BY <1>1, <1>2, <1>3, <1>4, <1>7, <1>8, FramedStep

LEMMA HeaderReceivedStep ==
  ASSUME Inv, HeaderReceived
  PROVE  Inv'
<1>1. /\ rpc = "header" /\ Len(buffer) = need /\ rpc' = "body" /\ need' = AsInt(Length(buffer)) /\ buffer' = <<>>
      /\ UNCHANGED <<fixed, sender, arrived, taken, end, at, got>>
      /\ msgs' = msgs /\ taken' = taken /\ end' = end /\ at' = at /\ got' = got /\ closing' = closing /\ arrived' = arrived
  BY DEF HeaderReceived, fixed, sender
<1>2. /\ Flat /\ Sending /\ Arriving /\ version = "prefix" /\ at = 0 /\ Reset' = Reset
      /\ taken \in Nat /\ arrived \in Nat /\ taken <= arrived /\ buffer \in Seq(Byte)
      /\ got \in Seq(Seq(Int)) /\ Width \in Nat \ {0}
  BY <1>1, SocketIOAssumption DEF Inv, Receiving, Places, InReadline, Flat, Arriving, Reset
<1>3. /\ Stream' = Stream
      /\ \A n : EndOf(n)' = EndOf(n)
  BY <1>1, FixedStays
<1>4. PICK n \in 0 .. Len(msgs) : Framing(n)
  BY <1>2 DEF Inv, Receiving
<1>5. /\ Len(got) = n /\ Len(buffer) = Width /\ taken = EndOf(n) + Width
      /\ \A i \in 1 .. Len(buffer) : buffer[i] = Stream[EndOf(n) + i]
  <2>1. Len(got) = n
    <3>1. Len(<<>>) # Width
      BY <1>2, EmptySeq
    <3>2. QED
      BY <1>1, <1>4, <3>1 DEF Framing
  <2>2. QED
    BY <1>1, <1>4, <2>1 DEF Framing, Synced
<1>6. n \in 0 .. Len(msgs) - 1
  <2>1. /\ EndOf(n) \in Nat /\ Len(sent) \in Nat /\ Len(Stream) \in Nat
        /\ arrived <= Len(sent) /\ Len(sent) <= Len(Stream)
    BY <1>2, StreamValues, LenProperties DEF Flat, Arriving, Sending
  <2>2. EndOf(n) < Len(Stream)
    BY <1>2, <1>5, <2>1
  <2>3. QED
    BY <1>2, <2>2, AnotherMessage
<1>7. PICK h \in Seq(Byte) :
        /\ h = Header(Size(msgs[n + 1])) /\ Len(h) = Width /\ Length(h) = Size(msgs[n + 1])
        /\ \A i \in 1 .. Width : Stream[EndOf(n) + i] = h[i]
  BY <1>2, <1>6, FrameValues
<1>8. buffer = h
  <2>1. Len(buffer) = Len(h) /\ \A i \in 1 .. Len(buffer) : buffer[i] = h[i]
    BY <1>5, <1>7
  <2>2. QED
    BY <1>2, <2>1, SeqEqual
<1>9. /\ need' = AsInt(Size(msgs[n + 1])) /\ need' \in Int /\ n < Len(msgs) /\ EndOf(n) \in Nat
      /\ Len(Payload(msgs[n + 1])) \in Nat
      /\ buffer' \in Seq(Byte) /\ Len(buffer') = 0
  BY <1>1, <1>2, <1>6, <1>7, <1>8, FrameValues, SizeValues, EmptySeq
<1>10. Synced(n)'
  <2>1. taken' = EndOf(n) + Width + Len(buffer') /\ Len(buffer') <= Len(Payload(msgs[n + 1])) /\ \A i \in 1 .. Len(buffer') : FALSE
    BY <1>1, <1>2, <1>5, <1>9
  <2>2. QED
    BY <1>1, <1>3, <1>9, <2>1 DEF Synced, Payload, AsInt, Size
<1>11. Framing(n)'
  BY <1>1, <1>4, <1>5, <1>10 DEF Framing, Delivered
<1>12. Reset' => taken' = arrived
  BY <1>1, <1>2 DEF Arriving
<1>13. QED
  BY <1>1, <1>2, <1>9, <1>11, <1>12, FramedStep

LEMMA BodyReceivedStep ==
  ASSUME Inv, BodyReceived
  PROVE  Inv'
<1>1. PICK m : m = IF need < 0 THEN [k \in 1 .. AsUnsigned(need) |-> Unwritten] ELSE buffer
  OBVIOUS
<1>2. /\ rpc = "body" /\ ~(Len(buffer) < need)
      /\ got' = Append(got, m) /\ rpc' = "idle" /\ buffer' = <<>> /\ at' = 0 /\ need' = 0
      /\ UNCHANGED <<fixed, sender, arrived, taken, end>>
      /\ msgs' = msgs /\ taken' = taken /\ end' = end /\ closing' = closing /\ arrived' = arrived
  BY <1>1 DEF BodyReceived, InRecvn, Return, fixed, sender
<1>3. /\ Flat /\ version = "prefix" /\ Arriving /\ Reset' = Reset
      /\ taken \in Nat /\ arrived \in Nat /\ taken <= arrived /\ buffer \in Seq(Byte) /\ Len(buffer) \in Nat
      /\ got \in Seq(Seq(Int)) /\ need \in Int
  BY <1>2, LenProperties DEF Inv, Receiving, Places, Flat, Arriving, Reset
<1>4. \A n : EndOf(n)' = EndOf(n)
  BY <1>2, FixedStays
<1>5. PICK n \in 0 .. Len(msgs) : Framing(n)
  BY <1>3 DEF Inv, Receiving
<1>6. Len(got) = n /\ Synced(n)
  BY <1>2, <1>5 DEF Framing
<1>7. n \in 0 .. Len(msgs) - 1
  BY <1>2, <1>3, <1>6, MessageValues DEF Synced
<1>8. PICK message \in Seq(Byte), whole1 \in Seq(Byte) :
        /\ message = msgs[n + 1] /\ whole1 = Payload(message) /\ need = AsInt(Size(message))
        /\ Len(buffer) <= Len(whole1) /\ \A i \in 1 .. Len(buffer) : buffer[i] = whole1[i]
        /\ taken = EndOf(n) + Width + Len(buffer) /\ EndOf(n + 1) = EndOf(n) + Width + Len(whole1)
  <2>1. msgs[n + 1] \in Seq(Byte) /\ Payload(msgs[n + 1]) \in Seq(Byte)
    BY <1>3, <1>7, FrameValues, SizeValues
  <2>2. QED
    BY <1>2, <1>3, <1>6, <1>7, <2>1, FrameValues DEF Synced
<1>9. Len(buffer) = Len(whole1)
  <2>1. Len(whole1) \in Nat /\ (need >= 0 => Len(whole1) = need) /\ (need < 0 => Len(whole1) = 0)
    BY <1>8, SizeValues, EmptySeq
  <2>2. QED
    BY <1>2, <1>3, <1>8, <2>1
<1>10. buffer = whole1 /\ taken = EndOf(n + 1)
  <2>1. buffer = whole1
    BY <1>3, <1>8, <1>9, SeqEqual
  <2>2. QED
    BY <1>8, <1>9, <2>1
<1>11. m = Delivered(message) /\ m \in Seq(Int)
  <2>1. m = IF need < 0 THEN [k \in 1 .. AsUnsigned(need) |-> Unwritten] ELSE Payload(message)
    BY <1>1, <1>8, <1>10
  <2>2. need < 0 => AsUnsigned(need) = Size(message)
    BY <1>8, SizeValues
  <2>3. m = Delivered(message)
    BY <1>8, <2>1, <2>2 DEF Delivered
  <2>4. QED
    BY <2>3, DeliveredValues
<1>12. /\ got' \in Seq(Seq(Int)) /\ Len(got') = Len(got) + 1 /\ Len(got) \in Nat
       /\ \A k \in 1 .. Len(got) : got'[k] = got[k]
       /\ got'[Len(got) + 1] = m
  BY <1>2, <1>3, <1>11, AppendProperties, LenProperties
<1>13. n + 1 \in 0 .. Len(msgs) /\ n \in Nat /\ Len(got') = n + 1
  BY <1>6, <1>7, <1>12
<1>14. Framing(n + 1)'
  <2>1. \A k \in 1 .. n + 1 : k \in 1 .. n \/ k = n + 1
    BY <1>13
  <2>2. \A k \in 1 .. n : got[k] = Delivered(msgs[k]) /\ k \in 1 .. Len(got)
    BY <1>5, <1>6 DEF Framing
  <2>3. \A k \in 1 .. n + 1 : got'[k] = Delivered(msgs[k])
    <3>1. got'[n + 1] = Delivered(msgs[n + 1])
      BY <1>6, <1>8, <1>11, <1>12
    <3>2. QED
      BY <1>12, <2>1, <2>2, <3>1
  <2>4. \A k \in (n + 1) + 1 .. Len(got') : FALSE
    BY <1>13
  <2>5. Synced(n + 1)'
    BY <1>2, <1>4, <1>10 DEF Synced
  <2>6. n + 1 <= Len(got')
    BY <1>13
  <2>7. QED
    BY <1>2, <1>13, <2>3, <2>4, <2>5, <2>6 DEF Framing, Delivered
<1>15. Reset' => taken' = arrived
  BY <1>2, <1>3 DEF Arriving
<1>16. 0 \in Int /\ 0 >= 0 /\ <<>> \in Seq(Byte)
  BY EmptySeq
<1>17. QED
  BY <1>2, <1>3, <1>12, <1>13, <1>14, <1>15, <1>16, FramedStep

-----------------------------------------------------------------------------
(* The invariant.                                                           *)

LEMMA InitHolds == Init => Inv
<1> SUFFICES ASSUME Init
             PROVE  Inv
  OBVIOUS
<1>1. /\ version \in Versions /\ whole \in BOOLEAN /\ msgs \in Scripts
      /\ todo = msgs /\ out = <<>> /\ sent = <<>> /\ closing = "open" /\ end = "open"
      /\ arrived = 0 /\ taken = 0 /\ rpc = "idle" /\ buffer = <<>> /\ at = 0 /\ need = 0 /\ got = <<>>
  BY DEF Init
<1>2. /\ BufferLen \in Nat \ {0, 1} /\ Versions \subseteq {"v1", "v1_2", "v5", "prefix"}
      /\ msgs \in Seq(Seq(Byte))
  BY <1>1, SocketIOAssumption
<1>3. Flat
  <2>1. <<>> \in Seq(Byte) /\ <<>> \in Seq(Seq(Byte))
    OBVIOUS
  <2>2. QED
    BY <1>1, <1>2, <2>1 DEF Flat
<1>4. Fit
  BY DEF Init, Fit
<1>5. /\ Len(msgs) \in Nat /\ Len(Stream) \in Nat /\ EndOf(0) = 0 /\ 0 \in Ends /\ 0 \in 0 .. Len(msgs)
  <2>1. Len(msgs) \in Nat
    BY <1>3, MessageValues
  <2>2. EndOf(0) = 0 /\ Len(Stream) \in Nat /\ Ends = {EndOf(n) : n \in 0 .. Len(msgs)}
    BY <1>3, StreamValues
  <2>3. 0 \in 0 .. Len(msgs)
    BY <2>1
  <2>4. QED
    BY <2>1, <2>2, <2>3
<1>6. Len(sent) = 0 /\ Len(out) = 0 /\ Len(got) = 0 /\ Len(buffer) = 0
  BY <1>1
<1>7. Sending
  <2>1. todo = SubSeq(msgs, 0 + 1, Len(msgs))
    <3>1. SubSeq(msgs, 1, Len(msgs)) = msgs
      BY <1>2, SubSeqFull
    <3>2. QED
      BY <1>1, <3>1
  <2>2. Len(sent) + Len(out) = EndOf(0)
    BY <1>5, <1>6
  <2>3. \E n \in 0 .. Len(msgs) :
          /\ todo = SubSeq(msgs, n + 1, Len(msgs))
          /\ Len(sent) + Len(out) = EndOf(n)
          /\ \A i \in 1 .. Len(out) : out[i] = Stream[Len(sent) + i]
    BY <1>5, <1>6, <2>1, <2>2
  <2>4. QED
    BY <1>1, <1>5, <1>6, <2>3 DEF Sending
<1>8. Arriving
  BY <1>1, <1>5, <1>6 DEF Arriving, Reset
<1>9. Places /\ Pieces
  BY <1>1, <1>2, <1>5 DEF Places, Pieces, InReadline, Reset
<1>10. Received1
  BY <1>1, <1>5, <1>6 DEF Received1, InReadline
<1>11. Framing(0)
  BY <1>1, <1>5, <1>6 DEF Framing, Synced
<1>12. QED
  BY <1>3, <1>4, <1>5, <1>7, <1>8, <1>9, <1>10, <1>11 DEF Inv, Receiving

LEMMA StutterStep ==
  ASSUME Inv, UNCHANGED vars
  PROVE  Inv'
<1>1. /\ UNCHANGED fixed /\ UNCHANGED sender /\ UNCHANGED receiver
      /\ arrived' = arrived /\ taken' = taken /\ end' = end
      /\ version' = version /\ whole' = whole /\ msgs' = msgs
      /\ todo' = todo /\ out' = out /\ sent' = sent /\ closing' = closing
      /\ rpc' = rpc /\ buffer' = buffer /\ at' = at /\ need' = need /\ got' = got
  BY DEF vars, fixed, sender, receiver
<1>2. Reset' = Reset
  BY <1>1 DEF Reset
<1>3. /\ Flat /\ Fit /\ Sending /\ Arriving /\ Receiving
      /\ arrived \in Nat /\ taken \in Nat /\ taken <= arrived /\ (Reset => taken = arrived)
  BY DEF Inv, Flat, Arriving
<1>4. Flat'
  BY <1>1, <1>3 DEF Flat
<1>5. Fit' /\ Sending' /\ Arriving'
  <2>1. UNCHANGED <<fixed, sender, arrived>>
    BY <1>1
  <2>2. QED
    BY <1>1, <1>2, <1>3, <2>1, SenderStays
<1>6. Receiving'
  <2>1. UNCHANGED <<fixed, taken, receiver>>
    BY <1>1
  <2>2. arrived' \in Nat /\ arrived <= arrived' /\ (end = "fin" => end' = "fin" /\ arrived' = arrived)
    BY <1>1, <1>3
  <2>3. QED
    BY <1>2, <1>3, <2>1, <2>2, ReceiverStays
<1>7. QED
  BY <1>4, <1>5, <1>6 DEF Inv

LEMMA NextKeeps == Inv /\ [Next]_vars => Inv'
<1> SUFFICES ASSUME Inv, [Next]_vars
             PROVE  Inv'
  OBVIOUS
<1>1. CASE SendMessage
  BY <1>1, SendMessageStep
<1>2. ASSUME NEW n \in 1 .. Len(out), Send(n)
      PROVE  Inv'
  BY <1>2, SendStep
<1>3. ASSUME NEW how \in {"fin", "rst"}, Finish(how)
      PROVE  Inv'
  BY <1>3, FinishStep
<1>4. ASSUME NEW n \in 1 .. Len(sent) - arrived, Arrive(n)
      PROVE  Inv'
  BY <1>4, ArriveStep
<1>5. CASE EndArrives
  BY <1>5, EndArrivesStep
<1>6. CASE Receive
  BY <1>6, ReceiveStep
<1>7. CASE Line
  BY <1>7, PeekStep, EndOfLineStep, NoNewlineStep, PeekFailsStep DEF Line
<1>8. CASE Framed
  BY <1>8, RecvStep, RecvnEndsStep, HeaderReceivedStep, BodyReceivedStep DEF Framed
<1>9. CASE UNCHANGED vars
  BY <1>9, StutterStep
<1>10. QED
  BY <1>1, <1>2, <1>3, <1>4, <1>5, <1>6, <1>7, <1>8, <1>9 DEF Next, Sender, Network

\* Which part of the stream each thing holds, as the definitions above say.
THEOREM SocketIOInvariant == Spec => []Inv
<1>1. Inv /\ [Next]_vars => Inv'
  BY NextKeeps
<1>2. QED
  BY <1>1, InitHolds, PTL DEF Spec

-----------------------------------------------------------------------------
(* What the runs check.                                                     *)

\* s is a prefix of t when t goes on where s ends.
LEMMA PrefixByElements ==
  ASSUME NEW S, NEW s \in Seq(S), NEW t \in Seq(S), Len(s) <= Len(t), \A k \in 1 .. Len(s) : s[k] = t[k]
  PROVE  IsPrefix(s, t)
<1>1. PICK l \in Nat : l = Len(s)
  BY LenProperties
<1>2. SubSeq(s, 1, l) = s
  BY <1>1, SubSeqFull
<1>3. SubSeq(t, 1, l) \in Seq(S) /\ Len(SubSeq(t, 1, l)) = l /\ \A k \in 1 .. l : SubSeq(t, 1, l)[k] = t[k]
  <2>1. l \in 0 .. Len(t)
    BY <1>1, LenProperties
  <2>2. QED
    BY <2>1, Beginning
<1>4. SubSeq(t, 1, l) = s
  BY <1>1, <1>3, SeqEqual
<1>5. QED
  BY <1>1, <1>2, <1>4 DEF IsPrefix

\* The variables have their types, the counters of bytes keep their order and pbuffer
\* stays between one byte before the buffer and its last but one.
THEOREM SocketIOTypeCorrect == Spec => []TypeOK
<1>1. Inv => TypeOK
  BY DEF Inv, Flat, Arriving, Receiving, Places, TypeOK
<1>2. QED
  BY <1>1, SocketIOInvariant, PTL

\* Whatever the messages and however the bytes are cut, the readline of version 1
\* returns the lines in order; so do 1.2 and 5.0 when no line is cut.
THEOREM LinesCorrect == Spec => []LinesInOrder
<1>1. ASSUME Inv, InLines
      PROVE  IsPrefix(got, [k \in DOMAIN msgs |-> AsReceived(msgs[k])])
  <2> DEFINE lines == [k \in DOMAIN msgs |-> AsReceived(msgs[k])]
  <2>1. /\ Len(got) <= Len(msgs) /\ got \in Seq(Seq(Int))
        /\ \A k \in 1 .. Len(got) : got[k] = AsReceived(msgs[k])
    BY <1>1 DEF Inv, Flat, Receiving, Received1
  <2>2. Len(msgs) \in Nat /\ DOMAIN msgs = 1 .. Len(msgs) /\ \A k \in 1 .. Len(msgs) : msgs[k] \in Seq(Byte)
    BY <1>1, MessageValues DEF Inv
  <2>3. \A m \in Seq(Byte) : AsReceived(m) \in Seq(Byte)
    <3>1. \A m \in Seq(Byte) : Append(m, NUL) \in Seq(Byte)
      BY AppendProperties DEF NUL, Byte
    <3>2. QED
      BY <3>1 DEF AsReceived
  <2>4. lines \in Seq(Seq(Int)) /\ Len(lines) = Len(msgs) /\ \A k \in 1 .. Len(msgs) : lines[k] = AsReceived(msgs[k])
    <3>1. \A k \in 1 .. Len(msgs) : AsReceived(msgs[k]) \in Seq(Int)
      BY <2>2, <2>3, BytesAreInts
    <3>2. QED
      BY <2>2, <3>1, IsASeq
  <2>5. \A k \in 1 .. Len(got) : k \in 1 .. Len(msgs)
    <3>1. Len(got) \in Nat
      BY <2>1, LenProperties
    <3>2. QED
      BY <2>1, <2>2, <3>1
  <2> HIDE DEF lines
  <2>6. IsPrefix(got, lines)
    BY <2>1, <2>4, <2>5, PrefixByElements
  <2>7. QED
    BY <2>6 DEF lines
<1>2. Inv => LinesInOrder
  BY <1>1 DEF LinesInOrder, InLines
<1>3. QED
  BY <1>2, SocketIOInvariant, PTL

\* receiveWithPrefix returns a message a call, in order and complete, or something of the
\* length announced for one that no int can measure, and empty strings only after the end.
THEOREM FramesCorrect == Spec => []FramesExact
<1>1. ASSUME Inv, version = "prefix"
      PROVE  FramesExact
  <2>1. PICK n \in 0 .. Len(msgs) : Framing(n)
    BY <1>1 DEF Inv, Receiving
  <2>2. n <= Len(got) /\ \A k \in n + 1 .. Len(got) : got[k] = <<>>
    BY <2>1 DEF Framing
  <2>3. Len(got) > n => end # "open" /\ (n < Len(msgs) => arrived < EndOf(n + 1))
    <3>1. got \in Seq(Seq(Int)) /\ n \in Int
      BY <1>1 DEF Inv, Flat
    <3>2. Len(got) \in Nat
      BY <3>1, LenProperties
    <3>3. QED
      BY <2>1, <3>1, <3>2 DEF Framing
  <2>4. ASSUME NEW k \in 1 .. n
        PROVE  /\ Len(got[k]) = Size(msgs[k])
               /\ 2 * Len(msgs[k]) < Weight[Width] => got[k] = msgs[k]
    <3>1. got[k] = Delivered(msgs[k])
      BY <2>1 DEF Framing
    <3>2. msgs[k] \in Seq(Byte)
      BY <1>1, MessageValues DEF Inv
    <3>3. QED
      BY <3>1, <3>2, DeliveredValues
  <2>5. QED
    BY <2>2, <2>3, <2>4 DEF FramesExact
<1>2. Inv => FramesExact
  BY <1>1 DEF FramesExact
<1>3. QED
  BY <1>2, SocketIOInvariant, PTL

\* The buffer of 1 and 1.2 holds exactly the bytes of the line so far.
THEOREM PiecesCorrect == Spec => []PiecesAssembled
<1>1. ASSUME Inv, InReadline, version # "v5", closing = "rst" => end # "fin"
      PROVE  /\ SubSeq(buffer, 1, at) = SubSeq(Stream, taken - at + 1, taken)
             /\ NL \notin ToSet(SubSeq(buffer, 1, at))
             /\ taken - at \in Ends \/ ~LinesFit
  <2>1. version \in {"v1", "v1_2"} /\ ~Reset
    <3>1. version \in {"v1", "v1_2", "v5", "prefix"}
      BY <1>1, SocketIOAssumption DEF Inv, Flat
    <3>2. version # "prefix"
      BY <1>1 DEF Inv, Receiving, Places, InReadline
    <3>3. QED
      BY <1>1, <3>1, <3>2 DEF Reset
  <2>2. /\ \A i \in 1 .. at : buffer[i] = Stream[taken - at + i] /\ buffer[i] # NL
        /\ LinesFit => taken - at \in Ends
    BY <1>1, <2>1 DEF Inv, Receiving, Pieces
  <2>3. /\ Len(buffer) = BufferLen /\ buffer \in Seq(Byte) /\ at \in Nat /\ at <= Len(buffer)
        /\ taken \in Nat /\ at <= taken /\ BufferLen \in Nat
    BY <1>1, <2>1, SocketIOAssumption DEF Inv, Flat, Receiving, Places
  <2>4. Stream \in Seq(Byte) /\ taken <= Len(Stream)
    <3>1. Stream \in Seq(Byte) /\ Len(Stream) \in Nat
      BY <1>1, StreamValues DEF Inv
    <3>2. taken <= arrived /\ arrived <= Len(sent) /\ Len(sent) <= Len(Stream)
      BY <1>1 DEF Inv, Arriving, Sending
    <3>3. arrived \in Nat /\ Len(sent) \in Nat
      BY <1>1, LenProperties DEF Inv, Flat
    <3>4. QED
      BY <2>3, <3>1, <3>2, <3>3
  <2>5. PICK start \in Nat : start = taken - at /\ start + at = taken
    BY <2>3
  <2>6. /\ SubSeq(buffer, 1, at) \in Seq(Byte) /\ Len(SubSeq(buffer, 1, at)) = at
        /\ \A i \in 1 .. at : SubSeq(buffer, 1, at)[i] = buffer[i]
    <3>1. at \in 0 .. Len(buffer)
      BY <2>3
    <3>2. QED
      BY <2>3, <3>1, Beginning
  <2>7. /\ SubSeq(Stream, start + 1, taken) \in Seq(Byte) /\ Len(SubSeq(Stream, start + 1, taken)) = at
        /\ \A i \in 1 .. at : SubSeq(Stream, start + 1, taken)[i] = Stream[start + i]
    BY <2>3, <2>4, <2>5, Cut
  <2>8. \A i \in 1 .. at : buffer[i] = Stream[start + i]
    BY <2>2, <2>5
  <2>9. SubSeq(buffer, 1, at) = SubSeq(Stream, start + 1, taken)
    BY <2>6, <2>7, <2>8, SeqEqual
  <2>10. NL \notin ToSet(SubSeq(buffer, 1, at))
    <3>1. DOMAIN SubSeq(buffer, 1, at) = 1 .. at
      BY <2>6, LenProperties
    <3>2. \A i \in 1 .. at : SubSeq(buffer, 1, at)[i] # NL
      BY <2>2, <2>6
    <3>3. QED
      BY <3>1, <3>2 DEF ToSet
  <2>11. QED
    BY <2>2, <2>5, <2>9, <2>10
<1>2. Inv => PiecesAssembled
  BY <1>1 DEF PiecesAssembled
<1>3. QED
  BY <1>2, SocketIOInvariant, PTL
=============================================================================
