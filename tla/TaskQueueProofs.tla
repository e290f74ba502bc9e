--------------------------- MODULE TaskQueueProofs ---------------------------
(***************************************************************************)
(* Proofs about TaskQueue, for any number of producers and consumers and   *)
(* any queue size.  The inductive invariant is built in three parts: types *)
(* and arguments, then who may hold the mutex and who may sleep, then the  *)
(* counting arguments about wakeups, which need the first two.             *)
(***************************************************************************)
EXTENDS TaskQueue, TLAPS, FiniteSetTheorems

\* A producer inside push carries a task.
ArgOK ==
  \A t \in Producers : pc[t] \in {"pushLock", "pushTest", "pushWait"} => elem[t] \in Task

TypeInv == TypeOK /\ ArgOK

-----------------------------------------------------------------------------
\* Each step of a producer keeps the types.
LEMMA ProducerTypes ==
  ASSUME TypeInv, NEW t \in Producers,
         \/ \E task \in Task : PushCall(t, task)
         \/ PushStep(t) \/ WakeAllCall(t) \/ WakeAllStep(t)
  PROVE  TypeInv'
<1> USE TaskQueueAssumption DEF TypeInv, TypeOK, ArgOK, ProducerPlaces, ConsumerPlaces,
                                Threads, Goto
<1>1. CASE \E task \in Task : PushCall(t, task)
  BY <1>1 DEF PushCall
<1>2. CASE PushLock(t)
  BY <1>2 DEF PushLock, Lock
<1>3. CASE PushWake(t)
  BY <1>3 DEF PushWake, Lock
<1>4. CASE PushWait(t)
  BY <1>4 DEF PushWait, Unlock
<1>5. CASE PushItem(t)
  BY <1>5 DEF PushItem, Unlock, NotifyConsumer, NotifyOne
<1>6. CASE WakeAllCall(t)
  BY <1>6 DEF WakeAllCall
<1>7. CASE SetStop(t)
  BY <1>7 DEF SetStop
<1>8. CASE Broadcast(t)
  BY <1>8 DEF Broadcast
<1>9. QED
  BY <1>1, <1>2, <1>3, <1>4, <1>5, <1>6, <1>7, <1>8 DEF PushStep, WakeAllStep

\* Each step of a consumer keeps the types.
LEMMA ConsumerTypes ==
  ASSUME TypeInv, NEW t \in Consumers, PopCall(t) \/ PopStep(t)
  PROVE  TypeInv'
<1> USE TaskQueueAssumption DEF TypeInv, TypeOK, ArgOK, ProducerPlaces, ConsumerPlaces,
                                Threads, Goto
<1>1. CASE PopCall(t)
  BY <1>1 DEF PopCall
<1>2. CASE PopLock(t)
  BY <1>2 DEF PopLock, Lock
<1>3. CASE PopWake(t)
  BY <1>3 DEF PopWake, Lock
<1>4. CASE PopTest(t)
  BY <1>4 DEF PopTest
<1>5. CASE PopWait(t)
  BY <1>5 DEF PopWait, Unlock
<1>6. CASE PopTake(t)
  BY <1>6 DEF PopTake, Unlock, NotifyProducer, NotifyOne, Rest, Empty
<1>7. CASE PopNull(t)
  BY <1>7 DEF PopNull, Unlock
<1>8. QED
  BY <1>1, <1>2, <1>3, <1>4, <1>5, <1>6, <1>7 DEF PopStep

\* A return or a spurious wakeup keeps the types.
LEMMA OtherTypes ==
  ASSUME TypeInv, NEW t \in Threads, Return(t) \/ SpuriousWakeup(t)
  PROVE  TypeInv'
  BY TaskQueueAssumption
  DEF TypeInv, TypeOK, ArgOK, ProducerPlaces, ConsumerPlaces, Threads, Goto, Return,
      SpuriousWakeup

\* The variables have their types in every state of every behaviour, and no
\* producer is inside push without a task.
THEOREM TypeCorrect == Spec => []TypeInv
<1>1. Init => TypeInv
  <2> SUFFICES ASSUME Init PROVE TypeInv
    OBVIOUS
  <2>1. pc = [t \in Threads |-> "idle"] /\ elem = [t \in Threads |-> NoTask]
    BY DEF Init, QueueInit
  <2>2. \A t \in Threads : pc[t] = "idle"
    BY <2>1
  <2>3. ArgOK
    BY <2>2 DEF ArgOK, Threads
  <2>4. pc \in [Threads -> ProducerPlaces \cup ConsumerPlaces]
    BY <2>1 DEF ProducerPlaces
  <2>5. elem \in [Threads -> Task \cup {NoTask}]
    BY <2>1
  <2>6. \A t \in Producers : pc[t] \in ProducerPlaces
    BY <2>2 DEF Threads, ProducerPlaces
  <2>7. \A t \in Consumers : pc[t] \in ConsumerPlaces
    BY <2>2 DEF Threads, ConsumerPlaces
  <2>8. que \in Seq(Task)
    BY DEF Init, QueueInit
  <2>9. /\ owner \in Threads \cup {NoThread}
        /\ notFull \subseteq Producers /\ notEmpty \subseteq Consumers
        /\ is_stop \in BOOLEAN
    BY DEF Init, QueueInit
  <2>10. QED
    BY <2>3, <2>4, <2>5, <2>6, <2>7, <2>8, <2>9 DEF TypeInv, TypeOK
<1>2. TypeInv /\ [Next]_queueVars => TypeInv'
  <2> SUFFICES ASSUME TypeInv, [Next]_queueVars PROVE TypeInv'
    OBVIOUS
  <2>1. CASE UNCHANGED queueVars
    BY <2>1 DEF queueVars, TypeInv, TypeOK, ArgOK
  <2>2. CASE Next
    BY <2>2, ProducerTypes, ConsumerTypes, OtherTypes DEF Next
  <2>3. QED
    BY <2>1, <2>2
<1>3. QED
  BY <1>1, <1>2, PTL DEF Spec

\* TypeOK, the part of it that the runs check.
THEOREM TypesHold == Spec => []TypeOK
<1>1. TypeInv => TypeOK
  BY DEF TypeInv
<1>2. QED
  BY <1>1, TypeCorrect, PTL

-----------------------------------------------------------------------------
(***************************************************************************)
(* Who may hold the mutex, and who may be in a wait set: exactly the       *)
(* thread between lock and unlock owns it, only threads inside the wait    *)
(* sleep, and a consumer about to sleep has seen an empty queue, which     *)
(* nobody can fill before it sleeps.                                       *)
(***************************************************************************)
Holding == {"pushTest", "popTest", "popSleep"}

MutexOK ==
  /\ \A t \in Threads : pc[t] \in Holding <=> owner = t
  /\ \A t \in notFull : pc[t] = "pushWait"
  /\ \A t \in notEmpty : pc[t] = "popWait"
  /\ \A t \in Consumers : pc[t] = "popSleep" => que = <<>>

\* Each step of a producer keeps MutexOK.
LEMMA ProducerMutex ==
  ASSUME TypeInv, MutexOK, NEW t \in Producers,
         \/ \E task \in Task : PushCall(t, task)
         \/ PushStep(t) \/ WakeAllCall(t) \/ WakeAllStep(t)
  PROVE  MutexOK'
<1> USE TaskQueueAssumption DEF MutexOK, TypeInv, TypeOK, Threads, Goto, Holding
<1>1. CASE \E task \in Task : PushCall(t, task)
  BY <1>1 DEF PushCall
<1>2. CASE PushLock(t)
  BY <1>2 DEF PushLock, Lock
<1>3. CASE PushWake(t)
  BY <1>3 DEF PushWake, Lock
<1>4. CASE PushWait(t)
  BY <1>4 DEF PushWait, Unlock
<1>5. CASE PushItem(t)
  BY <1>5 DEF PushItem, Unlock, NotifyConsumer, NotifyOne
<1>6. CASE WakeAllCall(t)
  BY <1>6 DEF WakeAllCall
<1>7. CASE SetStop(t)
  BY <1>7 DEF SetStop
<1>8. CASE Broadcast(t)
  BY <1>8 DEF Broadcast
<1>9. QED
  BY <1>1, <1>2, <1>3, <1>4, <1>5, <1>6, <1>7, <1>8 DEF PushStep, WakeAllStep

\* Each step of a consumer keeps MutexOK.
LEMMA ConsumerMutex ==
  ASSUME TypeInv, MutexOK, NEW t \in Consumers, PopCall(t) \/ PopStep(t)
  PROVE  MutexOK'
<1> USE TaskQueueAssumption DEF MutexOK, TypeInv, TypeOK, Threads, Goto, Holding
<1>1. CASE PopCall(t)
  BY <1>1 DEF PopCall
<1>2. CASE PopLock(t)
  BY <1>2 DEF PopLock, Lock
<1>3. CASE PopWake(t)
  BY <1>3 DEF PopWake, Lock
<1>4. CASE PopTest(t)
  BY <1>4 DEF PopTest, Empty
<1>5. CASE PopWait(t)
  BY <1>5 DEF PopWait, Unlock
<1>6. CASE PopTake(t)
  BY <1>6 DEF PopTake, Unlock, NotifyProducer, NotifyOne, Rest, Empty
<1>7. CASE PopNull(t)
  BY <1>7 DEF PopNull, Unlock
<1>8. QED
  BY <1>1, <1>2, <1>3, <1>4, <1>5, <1>6, <1>7 DEF PopStep

\* The mutex keeps push and pop apart, and nobody sleeps elsewhere.
THEOREM MutexCorrect == Spec => []MutexOK
<1>1. Init => MutexOK
  <2> SUFFICES ASSUME Init PROVE MutexOK
    OBVIOUS
  <2>1. \A t \in Threads : pc[t] = "idle" /\ owner # t
    BY TaskQueueAssumption DEF Init, QueueInit
  <2>2. notFull = {} /\ notEmpty = {} /\ que = <<>>
    BY DEF Init, QueueInit
  <2>3. QED
    BY <2>1, <2>2 DEF MutexOK, Holding
<1>2. TypeInv /\ MutexOK /\ [Next]_queueVars => MutexOK'
  <2> SUFFICES ASSUME TypeInv, MutexOK, [Next]_queueVars PROVE MutexOK'
    OBVIOUS
  <2>1. CASE UNCHANGED queueVars
    BY <2>1 DEF queueVars, MutexOK
  <2>2. CASE \E t \in Threads : Return(t) \/ SpuriousWakeup(t)
    BY <2>2, TaskQueueAssumption
    DEF Return, SpuriousWakeup, MutexOK, TypeInv, TypeOK, Threads, Goto, Holding
  <2>3. CASE Next
    BY <2>2, <2>3, ProducerMutex, ConsumerMutex DEF Next
  <2>4. QED
    BY <2>1, <2>3
<1>3. QED
  BY <1>1, <1>2, TypeCorrect, PTL DEF Spec

-----------------------------------------------------------------------------
\* The queue never holds more than _queSize tasks.
THEOREM CapacityCorrect == Spec => []CapacityRespected
<1>1. Init => CapacityRespected
  BY TaskQueueAssumption DEF Init, QueueInit, CapacityRespected
<1>2. TypeInv /\ CapacityRespected /\ [Next]_queueVars => CapacityRespected'
  <2> SUFFICES ASSUME TypeInv, CapacityRespected, [Next]_queueVars
               PROVE  CapacityRespected'
    OBVIOUS
  <2> USE TaskQueueAssumption DEF CapacityRespected, TypeInv, TypeOK
  <2>1. CASE \E t \in Producers : PushItem(t)
    <3>1. PICK t \in Producers : PushItem(t)
      BY <2>1
    <3>2. Len(que') = Len(que) + 1 /\ Len(que) # QueSize
      BY <3>1 DEF PushItem, Full
    <3>3. QED
      BY <3>2
  <2>2. CASE \E t \in Consumers : PopTake(t)
    <3>1. PICK t \in Consumers : PopTake(t)
      BY <2>2
    <3>2. Len(que') = Len(que) - 1
      BY <3>1 DEF PopTake, Rest, Empty
    <3>3. QED
      BY <3>2
  <2>3. CASE UNCHANGED que
    BY <2>3
  <2>4. (\E t \in Producers : PushItem(t)) \/ (\E t \in Consumers : PopTake(t))
        \/ UNCHANGED que
    BY DEF Next, queueVars, PushCall, PushStep, PushLock, PushWake, PushWait, WakeAllCall,
           WakeAllStep, SetStop, Broadcast, PopCall, PopStep, PopLock, PopWake, PopTest,
           PopWait, PopNull, Return, SpuriousWakeup, Lock
  <2>5. QED
    BY <2>1, <2>2, <2>3, <2>4
<1>3. QED
  BY <1>1, <1>2, TypeCorrect, PTL DEF Spec

-----------------------------------------------------------------------------
\* How many elements a set has, when it covers another, with one more or all
\* but one.
LEMMA Covers ==
  ASSUME NEW S, NEW T, IsFiniteSet(T), S \subseteq T
  PROVE  Cardinality(S) \in Nat /\ Cardinality(T) \in Nat /\ Cardinality(S) <= Cardinality(T)
  BY FS_Subset, FS_CardinalityType

LEMMA CoversOneMore ==
  ASSUME NEW S, NEW T, IsFiniteSet(T), S \subseteq T, NEW x \in T, x \notin S
  PROVE  Cardinality(S) + 1 <= Cardinality(T)
<1>1. IsFiniteSet(S) /\ Cardinality(S) \in Nat
  BY FS_Subset, FS_CardinalityType
<1>2. Cardinality(S \cup {x}) = Cardinality(S) + 1
  BY <1>1, FS_AddElement
<1>3. QED
  BY <1>2, Covers, S \cup {x} \subseteq T

LEMMA CoversAllButOne ==
  ASSUME NEW S, NEW T, NEW x, IsFiniteSet(S), IsFiniteSet(T), S \ {x} \subseteq T
  PROVE  Cardinality(S) <= Cardinality(T) + 1
<1>1. /\ Cardinality(S) \in Nat /\ Cardinality(T) \in Nat
      /\ Cardinality(S \ {x}) \in Nat
      /\ Cardinality(S \ {x}) <= Cardinality(T)
  BY Covers, FS_CardinalityType
<1>2. Cardinality(S) <= Cardinality(S \ {x}) + 1
  <2>1. CASE x \in S
    <3>1. Cardinality(S \ {x}) = Cardinality(S) - 1
      BY <2>1, FS_RemoveElement
    <3>2. QED
      BY <3>1, <1>1
  <2>2. CASE x \notin S
    <3>1. S \ {x} = S
      BY <2>2
    <3>2. QED
      BY <3>1, <1>1
  <2>3. QED
    BY <2>1, <2>2
<1>3. QED
  BY <1>1, <1>2

\* The sets that are counted are finite.
LEMMA AwakeFinite ==
  /\ IsFiniteSet(Pushing) /\ Cardinality(Pushing) \in Nat
  /\ IsFiniteSet(Popping) /\ Cardinality(Popping) \in Nat
<1>1. Pushing \subseteq Producers /\ Popping \subseteq Consumers
  BY DEF Pushing, Popping
<1>2. QED
  BY <1>1, TaskQueueAssumption, FS_Subset, FS_CardinalityType

LEMMA AwakeFiniteNext ==
  /\ IsFiniteSet(Pushing') /\ Cardinality(Pushing') \in Nat
  /\ IsFiniteSet(Popping') /\ Cardinality(Popping') \in Nat
<1>1. Pushing' \subseteq Producers /\ Popping' \subseteq Consumers
  BY DEF Pushing, Popping
<1>2. QED
  BY <1>1, TaskQueueAssumption, FS_Subset, FS_CardinalityType

-----------------------------------------------------------------------------
(***************************************************************************)
(* NoSleepingOnWork.  A push adds one task and, if a consumer sleeps, one  *)
(* awake consumer; a pop removes one of each; a consumer goes to sleep     *)
(* only when the queue is empty.                                           *)
(***************************************************************************)
WorkInv == TypeInv /\ MutexOK /\ NoSleepingOnWork

LEMMA ProducerWork ==
  ASSUME WorkInv, NEW t \in Producers,
         \/ \E task \in Task : PushCall(t, task)
         \/ PushStep(t) \/ WakeAllCall(t) \/ WakeAllStep(t)
  PROVE  NoSleepingOnWork'
<1> USE TaskQueueAssumption, AwakeFinite, AwakeFiniteNext
    DEF WorkInv, TypeInv, TypeOK, NoSleepingOnWork, Goto, Threads
<1>1. CASE PushItem(t)
  <2> SUFFICES ASSUME ~is_stop', notEmpty' # {}
               PROVE  Len(que') <= Cardinality(Popping')
    OBVIOUS
  <2>1. PICK w \in notEmpty : notEmpty' = notEmpty \ {w}
    BY <1>1 DEF PushItem, NotifyConsumer, NotifyOne
  <2>2. w \in Consumers /\ pc[w] = "popWait" /\ pc'[w] = "popWait"
    BY <1>1, <2>1 DEF PushItem, MutexOK
  <2>3. w \in Popping' /\ w \notin Popping
    BY <2>1, <2>2 DEF Popping
  <2>4. Popping \subseteq Popping'
    BY <1>1, <2>1 DEF PushItem, Popping
  <2>5. Cardinality(Popping) + 1 <= Cardinality(Popping')
    BY <2>3, <2>4, CoversOneMore
  <2>6. Len(que') = Len(que) + 1 /\ Len(que) <= Cardinality(Popping)
    BY <1>1, <2>1 DEF PushItem, ArgOK
  <2>7. QED
    BY <2>5, <2>6
<1>2. CASE SetStop(t) \/ Broadcast(t)
  BY <1>2 DEF SetStop, Broadcast
<1>3. CASE \/ \E task \in Task : PushCall(t, task)
           \/ PushLock(t) \/ PushWake(t) \/ PushWait(t) \/ WakeAllCall(t)
  <2>1. UNCHANGED <<que, notEmpty, is_stop>>
    BY <1>3 DEF PushCall, PushLock, PushWake, PushWait, WakeAllCall, Lock
  <2>2. \A c \in Consumers : pc'[c] = pc[c]
    BY <1>3 DEF PushCall, PushLock, PushWake, PushWait, WakeAllCall, Lock
  <2>3. Popping' = Popping
    BY <2>1, <2>2 DEF Popping
  <2>4. QED
    BY <2>1, <2>3
<1>4. QED
  BY <1>1, <1>2, <1>3 DEF PushStep, WakeAllStep

LEMMA ConsumerWork ==
  ASSUME WorkInv, NEW t \in Consumers, PopCall(t) \/ PopStep(t)
  PROVE  NoSleepingOnWork'
<1> USE TaskQueueAssumption, AwakeFinite, AwakeFiniteNext
    DEF WorkInv, TypeInv, TypeOK, NoSleepingOnWork, Goto, Threads
<1>1. CASE PopCall(t) \/ PopLock(t) \/ PopWake(t)
  <2>1. UNCHANGED <<que, notEmpty, is_stop>>
    BY <1>1 DEF PopCall, PopLock, PopWake, Lock
  <2>2. Popping \subseteq Popping'
    BY <1>1 DEF PopCall, PopLock, PopWake, Lock, Popping
  <2>3. Cardinality(Popping) <= Cardinality(Popping')
    BY <2>2, Covers
  <2>4. Len(que) \in Nat
    OBVIOUS
  <2>5. QED
    BY <2>1, <2>3, <2>4
<1>2. CASE PopTest(t)
  BY <1>2 DEF PopTest, Empty
<1>3. CASE PopWait(t)
  BY <1>3 DEF PopWait, MutexOK
<1>4. CASE PopTake(t)
  <2>1. UNCHANGED <<notEmpty, is_stop>> /\ Len(que') = Len(que) - 1 /\ Len(que) \in Nat
    BY <1>4 DEF PopTake, Rest, Empty
  <2>2. Popping \ {t} \subseteq Popping'
    BY <1>4 DEF PopTake, Popping
  <2>3. Cardinality(Popping) <= Cardinality(Popping') + 1
    BY <2>2, CoversAllButOne
  <2>4. QED
    BY <2>1, <2>3
<1>5. CASE PopNull(t)
  BY <1>5 DEF PopNull
<1>6. QED
  BY <1>1, <1>2, <1>3, <1>4, <1>5 DEF PopStep

LEMMA OtherWork ==
  ASSUME WorkInv, NEW t \in Threads, Return(t) \/ SpuriousWakeup(t)
  PROVE  NoSleepingOnWork'
<1> USE TaskQueueAssumption, AwakeFinite, AwakeFiniteNext
    DEF WorkInv, TypeInv, TypeOK, NoSleepingOnWork, Goto, Threads
<1>1. UNCHANGED <<que, is_stop>> /\ notEmpty' \subseteq notEmpty
  BY DEF Return, SpuriousWakeup
<1>2. Popping \subseteq Popping'
  BY DEF Return, SpuriousWakeup, Popping
<1>3. Cardinality(Popping) <= Cardinality(Popping')
  BY <1>2, Covers
<1>4. Len(que) \in Nat
  OBVIOUS
<1>5. QED
  BY <1>1, <1>3, <1>4

\* No task waits behind a sleeping consumer, whatever the numbers of threads
\* and the queue size.
THEOREM WorkCorrect == Spec => []NoSleepingOnWork
<1>1. Init => NoSleepingOnWork
  BY DEF Init, QueueInit, NoSleepingOnWork
<1>2. TypeInv /\ MutexOK /\ NoSleepingOnWork /\ [Next]_queueVars => NoSleepingOnWork'
  <2> SUFFICES ASSUME WorkInv, [Next]_queueVars PROVE NoSleepingOnWork'
    BY DEF WorkInv
  <2>1. CASE UNCHANGED queueVars
    BY <2>1 DEF queueVars, WorkInv, NoSleepingOnWork, Popping
  <2>2. CASE Next
    BY <2>2, ProducerWork, ConsumerWork, OtherWork DEF Next
  <2>3. QED
    BY <2>1, <2>2
<1>3. QED
  BY <1>1, <1>2, TypeCorrect, MutexCorrect, PTL DEF Spec

-----------------------------------------------------------------------------
(***************************************************************************)
(* NoSleepingOnSpace.  A pop frees one slot and, if a producer sleeps,     *)
(* wakes one; a push takes a slot and leaves; a producer goes to sleep     *)
(* only when the queue is full.                                            *)
(***************************************************************************)
SpaceInv == TypeInv /\ MutexOK /\ NoSleepingOnSpace

LEMMA ProducerSpace ==
  ASSUME SpaceInv, NEW t \in Producers,
         \/ \E task \in Task : PushCall(t, task)
         \/ PushStep(t) \/ WakeAllCall(t) \/ WakeAllStep(t)
  PROVE  NoSleepingOnSpace'
<1> USE TaskQueueAssumption, AwakeFinite, AwakeFiniteNext
    DEF SpaceInv, TypeInv, TypeOK, NoSleepingOnSpace, Goto, Threads
<1>1. CASE PushItem(t)
  <2>1. notFull' = notFull /\ Len(que') = Len(que) + 1 /\ Len(que) \in Nat
    BY <1>1 DEF PushItem, ArgOK
  <2>2. Pushing \ {t} \subseteq Pushing'
    BY <1>1 DEF PushItem, Pushing
  <2>3. Cardinality(Pushing) <= Cardinality(Pushing') + 1
    BY <2>2, CoversAllButOne
  <2>4. QED
    BY <2>1, <2>3
<1>2. CASE PushWait(t)
  <2>1. que' = que /\ Len(que) = QueSize
    BY <1>2 DEF PushWait, Full
  <2>2. QED
    BY <2>1
<1>3. CASE \/ \E task \in Task : PushCall(t, task)
           \/ PushLock(t) \/ PushWake(t) \/ WakeAllCall(t) \/ WakeAllStep(t)
  <2>1. UNCHANGED <<que, notFull>> /\ Len(que) \in Nat
    BY <1>3 DEF PushCall, PushLock, PushWake, WakeAllCall, WakeAllStep, SetStop, Broadcast,
                Lock
  <2>2. Pushing \subseteq Pushing'
    BY <1>3 DEF PushCall, PushLock, PushWake, WakeAllCall, WakeAllStep, SetStop, Broadcast,
                Lock, Pushing
  <2>3. Cardinality(Pushing) <= Cardinality(Pushing')
    BY <2>2, Covers
  <2>4. QED
    BY <2>1, <2>3
<1>4. QED
  BY <1>1, <1>2, <1>3 DEF PushStep

LEMMA ConsumerSpace ==
  ASSUME SpaceInv, NEW t \in Consumers, PopCall(t) \/ PopStep(t)
  PROVE  NoSleepingOnSpace'
<1> USE TaskQueueAssumption, AwakeFinite, AwakeFiniteNext
    DEF SpaceInv, TypeInv, TypeOK, NoSleepingOnSpace, Goto, Threads
<1>1. CASE PopTake(t)
  <2> SUFFICES ASSUME notFull' # {}
               PROVE  QueSize <= Len(que') + Cardinality(Pushing')
    OBVIOUS
  <2>1. PICK w \in notFull : notFull' = notFull \ {w}
    BY <1>1 DEF PopTake, NotifyProducer, NotifyOne
  <2>2. w \in Producers /\ pc[w] = "pushWait" /\ pc'[w] = "pushWait"
    BY <1>1, <2>1 DEF PopTake, MutexOK
  <2>3. w \in Pushing' /\ w \notin Pushing
    BY <2>1, <2>2 DEF Pushing
  <2>4. Pushing \subseteq Pushing'
    BY <1>1, <2>1 DEF PopTake, Pushing
  <2>5. Cardinality(Pushing) + 1 <= Cardinality(Pushing')
    BY <2>3, <2>4, CoversOneMore
  <2>6. Len(que') = Len(que) - 1 /\ Len(que) \in Nat
    BY <1>1 DEF PopTake, Rest, Empty
  <2>7. QED
    BY <2>1, <2>5, <2>6
<1>2. CASE PopCall(t) \/ PopLock(t) \/ PopWake(t) \/ PopTest(t) \/ PopWait(t) \/ PopNull(t)
  <2>1. UNCHANGED <<que, notFull>>
    BY <1>2 DEF PopCall, PopLock, PopWake, PopTest, PopWait, PopNull, Lock
  <2>2. \A p \in Producers : pc'[p] = pc[p]
    BY <1>2 DEF PopCall, PopLock, PopWake, PopTest, PopWait, PopNull, Lock
  <2>3. Pushing' = Pushing
    BY <2>1, <2>2 DEF Pushing
  <2>4. QED
    BY <2>1, <2>3
<1>3. QED
  BY <1>1, <1>2 DEF PopStep

LEMMA OtherSpace ==
  ASSUME SpaceInv, NEW t \in Threads, Return(t) \/ SpuriousWakeup(t)
  PROVE  NoSleepingOnSpace'
<1> USE TaskQueueAssumption, AwakeFinite, AwakeFiniteNext
    DEF SpaceInv, TypeInv, TypeOK, NoSleepingOnSpace, Goto, Threads
<1>1. que' = que /\ notFull' \subseteq notFull /\ Len(que) \in Nat
  BY DEF Return, SpuriousWakeup
<1>2. Pushing \subseteq Pushing'
  BY DEF Return, SpuriousWakeup, Pushing
<1>3. Cardinality(Pushing) <= Cardinality(Pushing')
  BY <1>2, Covers
<1>4. QED
  BY <1>1, <1>3

\* No free slot is left to a sleeping producer, whatever the numbers of threads
\* and the queue size.
THEOREM SpaceCorrect == Spec => []NoSleepingOnSpace
<1>1. Init => NoSleepingOnSpace
  BY DEF Init, QueueInit, NoSleepingOnSpace
<1>2. TypeInv /\ MutexOK /\ NoSleepingOnSpace /\ [Next]_queueVars => NoSleepingOnSpace'
  <2> SUFFICES ASSUME SpaceInv, [Next]_queueVars PROVE NoSleepingOnSpace'
    BY DEF SpaceInv
  <2>1. CASE UNCHANGED queueVars
    BY <2>1 DEF queueVars, SpaceInv, NoSleepingOnSpace, Pushing
  <2>2. CASE Next
    BY <2>2, ProducerSpace, ConsumerSpace, OtherSpace DEF Next
  <2>3. QED
    BY <2>1, <2>2
<1>3. QED
  BY <1>1, <1>2, TypeCorrect, MutexCorrect, PTL DEF Spec
=============================================================================
