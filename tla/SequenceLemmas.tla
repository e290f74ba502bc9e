---------------------------- MODULE SequenceLemmas ----------------------------
(***************************************************************************)
(* Lemmas about sequences and numbers that the proofs of several modules   *)
(* need.  The queues of this code are sequences; what matters of a queue   *)
(* is mostly which elements it holds (Range) and that none is in it twice  *)
(* (IsInjective).                                                          *)
(***************************************************************************)
EXTENDS FiniteSetsExt, Sequences, TLAPS, SequenceTheorems, WellFoundedInduction

\* A sequence is its head and its tail.
LEMMA HeadAndTail ==
  ASSUME NEW S, NEW s \in Seq(S), s # <<>>
  PROVE  s = <<Head(s)>> \o Tail(s) /\ Head(s) \in S /\ Tail(s) \in Seq(S)
<1>1. Len(s) \in Nat \ {0}
  BY EmptySeq
<1>2. SubSeq(s, 1, Len(s)) = <<s[1]>> \o SubSeq(s, 2, Len(s))
  BY <1>1, SubSeqRecursiveFirst
<1>3. SubSeq(s, 1, Len(s)) = s /\ SubSeq(s, 2, Len(s)) = Tail(s)
  BY SubSeqFull, TailIsSubSeq
<1>4. Head(s) = s[1]
  OBVIOUS
<1>5. QED
  BY <1>2, <1>3, <1>4, HeadTailProperties

\* What a queue holds when an element comes or the first one goes.
LEMMA RangeOfAppend ==
  ASSUME NEW S, NEW s \in Seq(S), NEW e \in S
  PROVE  /\ Range(Append(s, e)) = Range(s) \cup {e}
         /\ IsInjective(s) /\ e \notin Range(s) => IsInjective(Append(s, e))
<1>1. /\ Len(s) \in Nat /\ Len(Append(s, e)) = Len(s) + 1
      /\ \A i \in 1 .. Len(s) : Append(s, e)[i] = s[i]
      /\ Append(s, e)[Len(s) + 1] = e
  BY AppendProperties, LenProperties
<1>2. QED
  BY <1>1 DEF Range, IsInjective

LEMMA RangeOfTail ==
  ASSUME NEW S, NEW s \in Seq(S), s # <<>>, IsInjective(s)
  PROVE  /\ Head(s) \in Range(s)
         /\ Range(Tail(s)) = Range(s) \ {Head(s)}
         /\ IsInjective(Tail(s))
<1>1. /\ Len(s) \in Nat \ {0} /\ DOMAIN s = 1 .. Len(s)
      /\ Len(Tail(s)) = Len(s) - 1 /\ DOMAIN Tail(s) = 1 .. Len(s) - 1
      /\ \A i \in 1 .. Len(s) - 1 : Tail(s)[i] = s[i + 1]
      /\ Head(s) = s[1]
  BY HeadTailProperties, EmptySeq, LenProperties
<1>2. Range(Tail(s)) \subseteq Range(s) \ {Head(s)}
  BY <1>1 DEF Range, IsInjective
<1>3. ASSUME NEW i \in 1 .. Len(s), s[i] # Head(s)
      PROVE  s[i] \in Range(Tail(s))
  <2>1. i - 1 \in 1 .. Len(s) - 1 /\ Tail(s)[i - 1] = s[i]
    BY <1>1, <1>3
  <2>2. QED
    BY <1>1, <2>1 DEF Range
<1>4. QED
  BY <1>1, <1>2, <1>3 DEF Range, IsInjective

\* A set of numbers that is not empty has a least element.
LEMMA LeastNumber ==
  ASSUME NEW T \in SUBSET Nat, T # {}
  PROVE  Min(T) \in T /\ \A n \in T : Min(T) <= n
<1> DEFINE R == OpToRel(<, Nat)
<1>1. T \subseteq Nat /\ \A m, n \in Nat : <<n, m>> \in R <=> n < m
  BY DEF OpToRel
<1>2. IsWellFoundedOn(R, Nat)
  BY NatLessThanWellFounded
<1> HIDE DEF R
<1>3. PICK m \in T : \A n \in T : ~ (<<n, m>> \in R)
  <2>1. \E m \in T : \A n \in T : ~ (<<n, m>> \in R)
    BY ONLY <1>1, <1>2, T # {}, WFMin, Zenon
  <2>2. QED
    BY <2>1
<1>4. \A n \in T : ~ (n < m)
  BY <1>1, <1>3
<1>5. m \in Nat /\ \A n \in T : n \in Nat
  OBVIOUS
<1>6. \A n \in T : m <= n
  BY <1>4, <1>5
<1>7. QED
  BY <1>6 DEF Min

\* Induction from 0 to n, over the set of the numbers that have the property.
LEMMA UpTo ==
  ASSUME NEW n \in Nat, NEW T, 0 \in T, \A k \in 0 .. n - 1 : k \in T => k + 1 \in T
  PROVE  \A k \in 0 .. n : k \in T
<1> DEFINE M == {k \in 0 .. n : k \notin T}
<1>1. SUFFICES ASSUME M # {}
               PROVE  FALSE
  OBVIOUS
<1>2. M \in SUBSET Nat
  OBVIOUS
<1>3. Min(M) \in M /\ \A k \in M : Min(M) <= k
  BY <1>1, <1>2, LeastNumber
<1>4. Min(M) \in 1 .. n /\ Min(M) \notin T
  BY <1>3
<1>5. /\ Min(M) - 1 \in 0 .. n - 1 /\ Min(M) - 1 \in 0 .. n
      /\ (Min(M) - 1) + 1 = Min(M) /\ ~(Min(M) <= Min(M) - 1)
  BY <1>4
<1>6. Min(M) - 1 \in T
  BY <1>3, <1>5
<1>7. QED
  BY <1>4, <1>5, <1>6

\* f is defined by recursion over the numbers; there is such a function.
Recurs(f, base, step) == f[0] = base /\ \A k \in Nat : f[k + 1] = step[k + 1][f[k]]

LEMMA Recursion ==
  ASSUME NEW V, NEW base \in V, NEW step \in [Nat -> [V -> V]]
  PROVE  \E f \in [Nat -> V] : Recurs(f, base, step)
<1> DEFINE Starts(f, n) == f[0] = base /\ \A k \in 0 .. n - 1 : f[k + 1] = step[k + 1][f[k]]
           Defined(n) == \E f \in [Nat -> V] : Starts(f, n)
<1>1. Defined(0)
  <2>1. Starts([k \in Nat |-> base], 0)
    OBVIOUS
  <2>2. QED
    BY <2>1
<1>2. ASSUME NEW n \in Nat, Defined(n)
      PROVE  Defined(n + 1)
  <2>1. PICK f \in [Nat -> V] : Starts(f, n)
    BY <1>2
  <2> DEFINE g == [f EXCEPT ![n + 1] = step[n + 1][f[n]]]
  <2>2. step[n + 1][f[n]] \in V
    OBVIOUS
  <2>3. g \in [Nat -> V] /\ \A k \in Nat : g[k] = IF k = n + 1 THEN step[n + 1][f[n]] ELSE f[k]
    BY <2>2
  <2>4. ASSUME NEW k \in 0 .. (n + 1) - 1
        PROVE  g[k + 1] = step[k + 1][g[k]]
    <3>1. g[k] = f[k] /\ (k # n => g[k + 1] = f[k + 1] /\ k \in 0 .. n - 1)
      BY <2>3
    <3>2. QED
      BY <2>1, <2>3, <3>1
  <2>5. g[0] = base
    BY <2>1, <2>3
  <2>6. QED
    BY <2>3, <2>4, <2>5
<1> HIDE DEF Defined
<1>3. ASSUME NEW n \in Nat
      PROVE  Defined(n)
  <2> DEFINE T == {k \in Nat : Defined(k)}
  <2>1. 0 \in T /\ \A k \in 0 .. n - 1 : k \in T => k + 1 \in T
    BY <1>1, <1>2
  <2> HIDE DEF T
  <2>2. \A k \in 0 .. n : k \in T
    BY <2>1, UpTo
  <2>3. QED
    BY <2>2 DEF T
<1>4. PICK F : \A n \in Nat : F[n] \in [Nat -> V] /\ Starts(F[n], n)
  <2> DEFINE F == [n \in Nat |-> CHOOSE f \in [Nat -> V] : Starts(f, n)]
  <2>1. \A n \in Nat : F[n] \in [Nat -> V] /\ Starts(F[n], n)
    BY <1>3, Zenon DEF Defined
  <2> HIDE DEF F
  <2>2. QED
    BY <2>1
\* Two such functions agree as far as both are defined.
<1>5. ASSUME NEW n \in Nat, NEW f \in [Nat -> V], NEW g \in [Nat -> V], Starts(f, n), Starts(g, n)
      PROVE  f[n] = g[n]
  <2> DEFINE T == {k \in 0 .. n : f[k] = g[k]}
  <2>1. ASSUME NEW k \in 0 .. n - 1, f[k] = g[k]
        PROVE  f[k + 1] = g[k + 1] /\ k + 1 \in 0 .. n
    <3>1. f[k + 1] = step[k + 1][f[k]] /\ g[k + 1] = step[k + 1][g[k]]
      BY <1>5
    <3>2. QED
      BY <2>1, <3>1
  <2>2. 0 \in T /\ \A k \in 0 .. n - 1 : k \in T => k + 1 \in T
    BY <1>5, <2>1
  <2> HIDE DEF T
  <2>3. \A k \in 0 .. n : k \in T
    BY <2>2, UpTo
  <2>4. QED
    BY <2>3 DEF T
<1> DEFINE f == [n \in Nat |-> F[n][n]]
<1>6. f \in [Nat -> V]
  BY <1>4
<1>7. f[0] = base
  BY <1>4
<1>8. ASSUME NEW k \in Nat
      PROVE  f[k + 1] = step[k + 1][f[k]]
  <2>1. F[k + 1] \in [Nat -> V] /\ Starts(F[k + 1], k + 1) /\ Starts(F[k + 1], k)
    BY <1>4
  <2>2. F[k] \in [Nat -> V] /\ Starts(F[k], k)
    BY <1>4
  <2>3. F[k + 1][k] = F[k][k]
    BY <1>5, <2>1, <2>2
  <2>4. F[k + 1][k + 1] = step[k + 1][F[k + 1][k]]
    BY <2>1
  <2>5. QED
    BY <2>3, <2>4
<1>9. QED
  BY <1>6, <1>7, <1>8 DEF Recurs

\* n elements of a sequence, after the first a.
LEMMA Cut ==
  ASSUME NEW S, NEW s \in Seq(S), NEW a \in Nat, NEW n \in Nat, a + n <= Len(s)
  PROVE  /\ SubSeq(s, a + 1, a + n) \in Seq(S) /\ Len(SubSeq(s, a + 1, a + n)) = n
         /\ \A i \in 1 .. n : SubSeq(s, a + 1, a + n)[i] = s[a + i]
<1>1. Len(s) \in Nat /\ \A i \in 1 .. Len(s) : s[i] \in S
  BY LenProperties, ElementOfSeq
<1>2. a + 1 \in Int /\ a + n \in Int /\ \A i \in a + 1 .. a + n : i \in 1 .. Len(s)
  BY <1>1
<1>3. PICK c, d \in Int : c = a + 1 /\ d = a + n
  BY <1>2
<1>4. \A i \in c .. d : s[i] \in S
  BY <1>1, <1>2, <1>3
<1>5. /\ SubSeq(s, c, d) \in Seq(S) /\ Len(SubSeq(s, c, d)) = IF c <= d THEN d - c + 1 ELSE 0
      /\ \A i \in 1 .. d - c + 1 : SubSeq(s, c, d)[i] = s[c + i - 1]
  BY ONLY <1>4, SubSeqProperties, c \in Int, d \in Int
<1>6. (IF c <= d THEN d - c + 1 ELSE 0) = n /\ d - c + 1 = n /\ \A i \in 1 .. n : c + i - 1 = a + i
  BY <1>3
<1>7. QED
  BY <1>3, <1>5, <1>6

\* The first n elements.
LEMMA Beginning ==
  ASSUME NEW S, NEW s \in Seq(S), NEW n \in 0 .. Len(s)
  PROVE  /\ SubSeq(s, 1, n) \in Seq(S) /\ Len(SubSeq(s, 1, n)) = n
         /\ \A i \in 1 .. n : SubSeq(s, 1, n)[i] = s[i]
<1>1. 0 \in Nat /\ n \in Nat /\ 0 + n <= Len(s)
  BY LenProperties
<1>2. /\ SubSeq(s, 0 + 1, 0 + n) \in Seq(S) /\ Len(SubSeq(s, 0 + 1, 0 + n)) = n
      /\ \A i \in 1 .. n : SubSeq(s, 0 + 1, 0 + n)[i] = s[0 + i]
  BY <1>1, Cut
<1>3. 0 + 1 = 1 /\ 0 + n = n /\ \A i \in 1 .. n : 0 + i = i
  BY <1>1
<1>4. QED
  BY <1>2, <1>3

\* The elements after the first a.
LEMMA Remainder ==
  ASSUME NEW S, NEW s \in Seq(S), NEW a \in 0 .. Len(s)
  PROVE  /\ SubSeq(s, a + 1, Len(s)) \in Seq(S) /\ Len(SubSeq(s, a + 1, Len(s))) = Len(s) - a
         /\ \A i \in 1 .. Len(s) - a : SubSeq(s, a + 1, Len(s))[i] = s[a + i]
<1>1. PICK l \in Nat : l = Len(s)
  BY LenProperties
<1>2. PICK n \in Nat : n = l - a /\ a + n = l /\ a \in Nat
  <2>1. a \in 0 .. l
    BY <1>1
  <2>2. l - a \in Nat /\ a + (l - a) = l /\ a \in Nat
    BY ONLY <2>1, l \in Nat
  <2>3. QED
    BY <2>2
<1>3. a + n <= Len(s)
  BY <1>1, <1>2
<1>4. /\ SubSeq(s, a + 1, a + n) \in Seq(S) /\ Len(SubSeq(s, a + 1, a + n)) = n
      /\ \A i \in 1 .. n : SubSeq(s, a + 1, a + n)[i] = s[a + i]
  BY ONLY <1>2, <1>3, Cut, s \in Seq(S)
<1>5. QED
  BY ONLY <1>1, <1>2, <1>4
=============================================================================
