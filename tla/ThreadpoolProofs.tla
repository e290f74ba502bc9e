--------------------------- MODULE ThreadpoolProofs ---------------------------
(***************************************************************************)
(* Proofs about Threadpool, for any workers, tasks and queue size.  The    *)
(* inductive invariant says where a task can be: waiting in the queue, in  *)
(* the hands of one thread, or done, and nowhere twice; and how far Main   *)
(* has come when the flags are set, the queue is empty, or nobody runs.    *)
(* From it follow what the runs check of a stop, and that every step of    *)
(* the pool is one of TaskPool or none.                                    *)
(***************************************************************************)
EXTENDS Threadpool, SequenceLemmas

MainPlaces == ProducerPlaces \cup {"start", "stopPoll", "setExit", "stopped"}
WorkerPlaces == ConsumerPlaces \cup {"new", "failed", "exited"}

TypeInv == PoolTypeOK /\ pc \in [Threads -> MainPlaces \cup WorkerPlaces]

\* Who holds a task: Main inside push, a worker between pop and the end of the task.
Pushes == {"pushLock", "pushTest", "pushWait"}

HandsOK ==
  /\ elem[Main] # NoTask <=> pc[Main] \in Pushes
  /\ \A w \in Workers : pc[w] # "popped" => elem[w] = NoTask

\* The flags are set in their order, and a null task is popped only after that.
Exiting == {"setStop", "broadcast", "woken", "stopped"}

FlagsOK ==
  /\ isExit <=> pc[Main] \in Exiting
  /\ is_stop => isExit
  /\ NullMeansExit

\* What Main can rely on: the queue stays empty once it has seen it so, and a thread
\* that is not running has not started, could not start, or has left its loop.
StagesOK ==
  /\ pc[Main] \in Exiting \cup {"setExit"} => que = <<>>
  /\ pc[Main] # "start" => \A w \in Workers : pc[w] # "new"
  /\ \A w \in Workers : ~isRunning[w] => pc[w] \in {"new", "failed", "exited"}
  /\ pc[Main] = "stopped" => \A w \in Workers : ~isRunning[w]

\* Where the submitted tasks are.
InHand == {elem[t] : t \in Threads} \ {NoTask}

Accounted == submitted = done \cup Range(que) \cup InHand

OnePlace ==
  /\ Range(que) \cap InHand = {}
  /\ done \cap (Range(que) \cup InHand) = {}
  /\ IsInjective(que)
  /\ \A t, u \in Threads : elem[t] = elem[u] /\ elem[t] # NoTask => t = u

Flow == HandsOK /\ FlagsOK /\ StagesOK
Places == Accounted /\ OnePlace

Inv == TypeInv /\ Flow /\ Places /\ CapacityRespected

-----------------------------------------------------------------------------
\* The steps, named once for the proofs that go through them.
LEMMA MainSteps ==
  ASSUME MainCall \/ MainStep \/ MainLock
  PROVE  \/ StopCall \/ StartReturn \/ StopPoll \/ SetExit \/ StopReturn
         \/ \E task \in Task : AddTask(task)
         \/ \E w \in Workers : StartThread(w) \/ Join(w)
         \/ QueueOnly(PushLock(Main)) \/ QueueOnly(PushWake(Main))
         \/ QueueOnly(PushWait(Main)) \/ QueueOnly(PushItem(Main))
         \/ QueueOnly(SetStop(Main)) \/ QueueOnly(Broadcast(Main))
  BY DEF MainCall, MainStep, MainLock, QueueOnly, WakeAllStep

LEMMA WorkerSteps ==
  ASSUME NEW w \in Workers, WorkerStep(w) \/ WorkerLock(w)
  PROVE  \/ LoopPop(w) \/ LoopExit(w) \/ RunTask(w)
         \/ QueueOnly(PopLock(w)) \/ QueueOnly(PopWake(w)) \/ QueueOnly(PopTest(w))
         \/ QueueOnly(PopWait(w)) \/ QueueOnly(PopTake(w)) \/ QueueOnly(PopNull(w))
  BY DEF WorkerStep, WorkerLock, QueueOnly

\* Main is not a worker.
LEMMA MainApart == Threads = Workers \cup {Main} /\ Main \notin Workers /\ NoTask \notin Task
  BY TaskQueueAssumption, ThreadpoolAssumption DEF Threads, Workers

\* Every step keeps the types.  That done tasks were submitted follows from where
\* the tasks are.
LEMMA MainTypes ==
  ASSUME TypeInv, HandsOK, MainCall \/ MainStep \/ MainLock
  PROVE  TypeInv'
<1> USE MainApart DEF TypeInv, PoolTypeOK, MainPlaces, WorkerPlaces, ProducerPlaces,
                      ConsumerPlaces, Goto, onlyPc, queueVars, QueueOnly
<1>1. CASE StopCall \/ StartReturn \/ StopPoll
  BY <1>1 DEF StopCall, StartReturn, StopPoll
<1>10. CASE SetExit \/ StopReturn
  BY <1>10 DEF SetExit, StopReturn
<1>2. ASSUME NEW task \in Task, AddTask(task)
      PROVE  TypeInv'
  BY <1>2 DEF AddTask, PushCall
<1>3. ASSUME NEW w \in Workers, StartThread(w)
      PROVE  TypeInv'
  <2>1. CASE Goto(w, "idle") /\ isRunning' = [isRunning EXCEPT ![w] = TRUE]
    BY <1>3, <2>1 DEF StartThread
  <2>2. CASE Goto(w, "failed") /\ UNCHANGED isRunning
    BY <1>3, <2>2 DEF StartThread
  <2>3. QED
    BY <1>3, <2>1, <2>2 DEF StartThread
<1>4. CASE \E w \in Workers : Join(w)
  BY <1>4 DEF Join
<1>5. CASE QueueOnly(PushLock(Main)) \/ QueueOnly(PushWake(Main))
  BY <1>5 DEF PushLock, PushWake, Lock
<1>6. CASE QueueOnly(PushWait(Main))
  BY <1>6 DEF PushWait, Unlock
<1>7. CASE QueueOnly(PushItem(Main))
  <2>1. elem[Main] \in Task
    BY <1>7 DEF PushItem, HandsOK, Pushes
  <2>2. QED
    BY <1>7, <2>1 DEF PushItem, Unlock, NotifyConsumer, NotifyOne
<1>8. CASE QueueOnly(SetStop(Main)) \/ QueueOnly(Broadcast(Main))
  BY <1>8 DEF SetStop, Broadcast
<1>9. QED
  BY <1>1, <1>2, <1>3, <1>4, <1>5, <1>6, <1>7, <1>8, <1>10, MainSteps

LEMMA WorkerTypes ==
  ASSUME TypeInv, Accounted, NEW w \in Workers, WorkerStep(w) \/ WorkerLock(w)
  PROVE  TypeInv'
<1> USE MainApart DEF TypeInv, PoolTypeOK, MainPlaces, WorkerPlaces, ProducerPlaces,
                      ConsumerPlaces, Goto, onlyPc, queueVars, QueueOnly
<1>1. CASE LoopPop(w) \/ LoopExit(w)
  BY <1>1 DEF LoopPop, PopCall, LoopExit
<1>2. CASE RunTask(w)
  <2>1. Called(w) \subseteq submitted
    BY DEF Called, Accounted, InHand
  <2>2. QED
    BY <1>2, <2>1 DEF RunTask
<1>3. CASE QueueOnly(PopLock(w)) \/ QueueOnly(PopWake(w))
  BY <1>3 DEF PopLock, PopWake, Lock
<1>4. CASE QueueOnly(PopTest(w))
  BY <1>4 DEF PopTest
<1>5. CASE QueueOnly(PopWait(w))
  BY <1>5 DEF PopWait, Unlock
<1>6. CASE QueueOnly(PopTake(w))
  BY <1>6 DEF PopTake, Unlock, NotifyProducer, NotifyOne, Rest, Empty
<1>7. CASE QueueOnly(PopNull(w))
  BY <1>7 DEF PopNull, Unlock
<1>8. QED
  BY <1>1, <1>2, <1>3, <1>4, <1>5, <1>6, <1>7, WorkerSteps

LEMMA SpuriousTypes ==
  ASSUME TypeInv, NEW t \in Threads, QueueOnly(SpuriousWakeup(t))
  PROVE  TypeInv'
  BY DEF TypeInv, PoolTypeOK, QueueOnly, SpuriousWakeup

-----------------------------------------------------------------------------
(***************************************************************************)
(* Hands, flags and stages: every step of a thread changes only its own    *)
(* place, and what the other threads' parts of the invariant say of Main   *)
(* stays true because Main's places after the drain come in their order.   *)
(***************************************************************************)
LEMMA MainFlow ==
  ASSUME TypeInv, Flow, MainCall \/ MainStep \/ MainLock
  PROVE  Flow'
<1> USE MainApart DEF TypeInv, PoolTypeOK, Flow, HandsOK, FlagsOK, StagesOK, NullMeansExit,
                      Pushes, Exiting, Goto, onlyPc, queueVars, QueueOnly
<1>1. CASE StopCall \/ StartReturn \/ SetExit
  BY <1>1 DEF StopCall, StartReturn, SetExit
<1>2. CASE StopPoll
  BY <1>2 DEF StopPoll, Drained, Empty
<1>3. CASE StopReturn
  BY <1>3 DEF StopReturn
<1>4. CASE \E task \in Task : AddTask(task)
  BY <1>4 DEF AddTask, PushCall
<1>5. CASE \E w \in Workers : StartThread(w)
  BY <1>5 DEF StartThread
<1>6. CASE \E w \in Workers : Join(w)
  BY <1>6 DEF Join
<1>7. CASE QueueOnly(PushLock(Main)) \/ QueueOnly(PushWake(Main))
  BY <1>7 DEF PushLock, PushWake, Lock
<1>8. CASE QueueOnly(PushWait(Main))
  BY <1>8 DEF PushWait, Unlock
<1>9. CASE QueueOnly(PushItem(Main))
  BY <1>9 DEF PushItem, Unlock
<1>10. CASE QueueOnly(SetStop(Main)) \/ QueueOnly(Broadcast(Main))
  BY <1>10 DEF SetStop, Broadcast
<1>11. QED
  BY <1>1, <1>2, <1>3, <1>4, <1>5, <1>6, <1>7, <1>8, <1>9, <1>10, MainSteps

LEMMA WorkerFlow ==
  ASSUME TypeInv, Flow, NEW w \in Workers, WorkerStep(w) \/ WorkerLock(w)
  PROVE  Flow'
<1> USE MainApart DEF TypeInv, PoolTypeOK, Flow, HandsOK, FlagsOK, StagesOK, NullMeansExit,
                      Pushes, Exiting, Goto, onlyPc, queueVars, QueueOnly
<1>1. CASE LoopPop(w) \/ LoopExit(w)
  BY <1>1 DEF LoopPop, PopCall, LoopExit
<1>2. CASE RunTask(w)
  BY <1>2 DEF RunTask
<1>3. CASE QueueOnly(PopLock(w)) \/ QueueOnly(PopWake(w))
  BY <1>3 DEF PopLock, PopWake, Lock
<1>4. CASE QueueOnly(PopTest(w))
  BY <1>4 DEF PopTest
<1>5. CASE QueueOnly(PopWait(w))
  BY <1>5 DEF PopWait, Unlock
<1>6. CASE QueueOnly(PopTake(w))
  <2>1. que # <<>> /\ Head(que) \in Task
    BY <1>6 DEF PopTake, Empty
  <2>2. QED
    BY <1>6, <2>1 DEF PopTake, Unlock
<1>7. CASE QueueOnly(PopNull(w))
  BY <1>7 DEF PopNull, Unlock
<1>8. QED
  BY <1>1, <1>2, <1>3, <1>4, <1>5, <1>6, <1>7, WorkerSteps

-----------------------------------------------------------------------------
(***************************************************************************)
(* Where the tasks are.  Five steps move one: addTask puts it into Main's  *)
(* hands, the end of push into the queue, the end of pop into a worker's   *)
(* hands, and the return of the task makes it done.                        *)
(***************************************************************************)
LEMMA AddPlaces ==
  ASSUME TypeInv, Flow, Places, NEW task \in Task, AddTask(task)
  PROVE  Places'
<1> USE MainApart DEF Flow, HandsOK, Pushes
<1>1. /\ que' = que /\ done' = done /\ submitted' = submitted \cup {task}
      /\ elem' = [elem EXCEPT ![Main] = task] /\ elem[Main] = NoTask
      /\ task \notin submitted /\ elem \in [Threads -> Task \cup {NoTask}]
  BY DEF AddTask, PushCall, TypeInv, PoolTypeOK
<1>2. InHand' = InHand \cup {task}
  BY <1>1 DEF InHand
<1>3. task \notin InHand /\ task \notin Range(que) /\ task \notin done
  BY <1>1 DEF Places, Accounted
<1>4. Accounted'
  BY <1>1, <1>2 DEF Places, Accounted
<1>5. \A t, u \in Threads : elem'[t] = elem'[u] /\ elem'[t] # NoTask => t = u
  BY <1>1, <1>3 DEF Places, OnePlace, InHand
<1>6. QED
  BY <1>1, <1>2, <1>3, <1>4, <1>5 DEF Places, OnePlace

LEMMA PushPlaces ==
  ASSUME TypeInv, Flow, Places, QueueOnly(PushItem(Main))
  PROVE  Places'
<1>1. /\ elem[Main] \in InHand /\ elem[Main] \in Task /\ que \in Seq(Task)
      /\ elem \in [Threads -> Task \cup {NoTask}]
      /\ que' = Append(que, elem[Main]) /\ elem' = [elem EXCEPT ![Main] = NoTask]
      /\ done' = done /\ submitted' = submitted
  BY MainApart DEF QueueOnly, PushItem, Flow, HandsOK, Pushes, InHand, TypeInv, PoolTypeOK
<1>2. InHand' = InHand \ {elem[Main]}
  BY <1>1, MainApart DEF InHand, Places, OnePlace
<1>3. Range(que') = Range(que) \cup {elem[Main]} /\ IsInjective(que')
  BY <1>1, RangeOfAppend DEF Places, OnePlace
<1>4. \A t, u \in Threads : elem'[t] = elem'[u] /\ elem'[t] # NoTask => t = u
  BY <1>1 DEF Places, OnePlace
<1>5. QED
  BY <1>1, <1>2, <1>3, <1>4 DEF Places, Accounted, OnePlace

LEMMA TakePlaces ==
  ASSUME TypeInv, Flow, Places, NEW w \in Workers, QueueOnly(PopTake(w))
  PROVE  Places'
<1>1. /\ que # <<>> /\ que \in Seq(Task) /\ elem \in [Threads -> Task \cup {NoTask}]
      /\ elem[w] = NoTask /\ w \in Threads
      /\ que' = Tail(que) /\ elem' = [elem EXCEPT ![w] = Head(que)]
      /\ done' = done /\ submitted' = submitted
  BY MainApart DEF QueueOnly, PopTake, Flow, HandsOK, Empty, Rest, TypeInv, PoolTypeOK
<1>2. /\ Head(que) \in Range(que) /\ Range(que') = Range(que) \ {Head(que)}
      /\ IsInjective(que') /\ Head(que) \in Task /\ Head(que) # NoTask
  BY <1>1, RangeOfTail, MainApart DEF Places, OnePlace
<1>3. InHand' = InHand \cup {Head(que)}
  BY <1>1, <1>2 DEF InHand
<1>4. \A t, u \in Threads : elem'[t] = elem'[u] /\ elem'[t] # NoTask => t = u
  BY <1>1, <1>2 DEF Places, OnePlace, InHand
<1>5. QED
  BY <1>1, <1>2, <1>3, <1>4 DEF Places, Accounted, OnePlace

LEMMA RunPlaces ==
  ASSUME TypeInv, Flow, Places, NEW w \in Workers, RunTask(w)
  PROVE  Places'
<1>1. /\ elem \in [Threads -> Task \cup {NoTask}] /\ w \in Threads
      /\ elem' = [elem EXCEPT ![w] = NoTask]
      /\ done' = done \cup ({elem[w]} \ {NoTask})
      /\ que' = que /\ submitted' = submitted
  BY MainApart DEF RunTask, Called, TypeInv, PoolTypeOK
<1>2. InHand' = InHand \ {elem[w]}
  BY <1>1 DEF InHand, Places, OnePlace
<1>3. {elem[w]} \ {NoTask} \subseteq InHand
  BY <1>1 DEF InHand
<1>4. \A t, u \in Threads : elem'[t] = elem'[u] /\ elem'[t] # NoTask => t = u
  BY <1>1 DEF Places, OnePlace
<1>5. QED
  BY <1>1, <1>2, <1>3, <1>4 DEF Places, Accounted, OnePlace, InHand

\* A step that changes neither the queue nor what anybody holds.
LEMMA StillPlaces ==
  ASSUME Places, UNCHANGED <<que, elem, submitted, done>>
  PROVE  Places'
  BY DEF Places, Accounted, OnePlace, InHand

LEMMA MainPlacesStep ==
  ASSUME TypeInv, Flow, Places, MainCall \/ MainStep \/ MainLock
  PROVE  Places'
<1>1. \/ \E task \in Task : AddTask(task)
      \/ QueueOnly(PushItem(Main))
      \/ UNCHANGED <<que, elem, submitted, done>>
  BY MainSteps
  DEF QueueOnly, onlyPc, queueVars, StopCall, StartReturn, StopPoll, SetExit, StopReturn,
      StartThread, Join, PushLock, PushWake, PushWait, Lock, SetStop, Broadcast
<1>2. QED
  BY <1>1, AddPlaces, PushPlaces, StillPlaces

LEMMA WorkerPlacesStep ==
  ASSUME TypeInv, Flow, Places, NEW w \in Workers, WorkerStep(w) \/ WorkerLock(w)
  PROVE  Places'
<1>1. CASE QueueOnly(PopNull(w))
  <2>1. UNCHANGED <<que, submitted, done>> /\ elem' = [elem EXCEPT ![w] = NoTask]
        /\ elem[w] = NoTask /\ elem \in [Threads -> Task \cup {NoTask}]
    BY <1>1 DEF QueueOnly, PopNull, Flow, HandsOK, TypeInv, PoolTypeOK
  <2>2. elem' = elem
    BY <2>1
  <2>3. QED
    BY <2>1, <2>2, StillPlaces
<1>2. CASE QueueOnly(PopTake(w)) \/ RunTask(w)
  BY <1>2, TakePlaces, RunPlaces
<1>3. CASE UNCHANGED <<que, elem, submitted, done>>
  BY <1>3, StillPlaces
<1>4. \/ QueueOnly(PopNull(w)) \/ QueueOnly(PopTake(w)) \/ RunTask(w)
      \/ UNCHANGED <<que, elem, submitted, done>>
  BY WorkerSteps
  DEF QueueOnly, onlyPc, queueVars, LoopPop, PopCall, LoopExit, PopLock, PopWake, Lock,
      PopTest, PopWait
<1>5. QED
  BY <1>1, <1>2, <1>3, <1>4

-----------------------------------------------------------------------------
\* A push adds a task to a queue that is not full; nothing else adds one.
LEMMA CapacityStep ==
  ASSUME TypeInv, CapacityRespected, PoolNext
  PROVE  CapacityRespected'
<1> USE TaskQueueAssumption DEF CapacityRespected
<1>1. que \in Seq(Task) /\ Len(que) \in Nat
  BY DEF TypeInv, PoolTypeOK
<1>2. CASE QueueOnly(PushItem(Main))
  <2>1. Len(que) # QueSize /\ Len(que') = Len(que) + 1
    BY <1>1, <1>2 DEF QueueOnly, PushItem, Full
  <2>2. QED
    BY <1>1, <2>1
<1>3. CASE \E w \in Workers : QueueOnly(PopTake(w))
  <2>1. Len(que') = Len(que) - 1
    BY <1>1, <1>3 DEF QueueOnly, PopTake, Empty, Rest
  <2>2. QED
    BY <1>1, <2>1
<1>4. CASE UNCHANGED que
  BY <1>4
<1>5. QueueOnly(PushItem(Main)) \/ (\E w \in Workers : QueueOnly(PopTake(w))) \/ UNCHANGED que
  <2>1. CASE MainCall \/ MainStep \/ MainLock
    BY <2>1, MainSteps
    DEF QueueOnly, onlyPc, queueVars, StopCall, StartReturn, StopPoll, SetExit, StopReturn,
        AddTask, PushCall, StartThread, Join, PushLock, PushWake, PushWait, Lock, SetStop,
        Broadcast
  <2>2. CASE \E w \in Workers : WorkerStep(w) \/ WorkerLock(w)
    BY <2>2, WorkerSteps
    DEF QueueOnly, onlyPc, queueVars, LoopPop, PopCall, LoopExit, RunTask, PopLock, PopWake,
        Lock, PopTest, PopWait, PopNull
  <2>3. CASE \E t \in Threads : QueueOnly(SpuriousWakeup(t))
    BY <2>3 DEF QueueOnly, SpuriousWakeup
  <2>4. QED
    BY <2>1, <2>2, <2>3 DEF PoolNext
<1>6. QED
  BY <1>2, <1>3, <1>4, <1>5

LEMMA InvInit == PoolInit => Inv
<1> SUFFICES ASSUME PoolInit PROVE Inv
  OBVIOUS
<1> USE MainApart
<1>1. pc = [t \in Threads |-> IF t = Main THEN "start" ELSE "new"]
  BY DEF PoolInit
<1>2. /\ que = <<>> /\ owner = NoThread /\ notFull = {} /\ notEmpty = {} /\ is_stop = FALSE
      /\ elem = [t \in Threads |-> NoTask] /\ isExit = FALSE /\ submitted = {} /\ done = {}
      /\ isRunning = [w \in Workers |-> FALSE]
  BY DEF PoolInit, QueueInit
<1>3. pc[Main] = "start" /\ \A w \in Workers : pc[w] = "new"
  BY <1>1
<1>4. TypeInv
  <2>1. pc \in [Threads -> MainPlaces \cup WorkerPlaces]
    BY <1>1 DEF MainPlaces, WorkerPlaces
  <2>2. que \in Seq(Task)
    BY <1>2
  <2>3. elem \in [Threads -> Task \cup {NoTask}] /\ isRunning \in [Workers -> BOOLEAN]
    BY <1>2
  <2>4. /\ owner \in Threads \cup {NoThread}
        /\ notFull \subseteq {Main} /\ notEmpty \subseteq Workers
        /\ isExit \in BOOLEAN /\ is_stop \in BOOLEAN
        /\ submitted \subseteq Task /\ done \subseteq submitted
    BY <1>2
  <2>5. QED
    BY <1>3, <2>1, <2>2, <2>3, <2>4 DEF TypeInv, PoolTypeOK
<1>5. Flow
  BY <1>2, <1>3 DEF Flow, HandsOK, FlagsOK, StagesOK, NullMeansExit, Pushes, Exiting
<1>6. Places
  BY <1>2 DEF Places, Accounted, OnePlace, InHand, Range, IsInjective
<1>7. CapacityRespected
  BY <1>2, TaskQueueAssumption DEF CapacityRespected
<1>8. QED
  BY <1>4, <1>5, <1>6, <1>7 DEF Inv

LEMMA InvStep == Inv /\ [PoolNext]_poolVars => Inv'
<1> SUFFICES ASSUME Inv, [PoolNext]_poolVars PROVE Inv'
  OBVIOUS
<1> USE DEF Inv
<1>1. CASE MainCall \/ MainStep \/ MainLock
  <2>1. PoolNext
    BY <1>1 DEF PoolNext
  <2>2. HandsOK
    BY DEF Flow
  <2>3. QED
    BY <1>1, <2>1, <2>2, MainTypes, MainFlow, MainPlacesStep, CapacityStep
<1>2. CASE \E w \in Workers : WorkerStep(w) \/ WorkerLock(w)
  <2>1. PoolNext
    BY <1>2 DEF PoolNext
  <2>2. Accounted
    BY DEF Places
  <2>3. QED
    BY <1>2, <2>1, <2>2, WorkerTypes, WorkerFlow, WorkerPlacesStep, CapacityStep
<1>3. CASE \E t \in Threads : QueueOnly(SpuriousWakeup(t))
  <2>1. UNCHANGED <<que, elem, pc, is_stop, isExit, isRunning, submitted, done>>
    BY <1>3 DEF QueueOnly, SpuriousWakeup
  <2>2. Flow' /\ Places' /\ CapacityRespected'
    BY <2>1, StillPlaces
    DEF Flow, HandsOK, FlagsOK, StagesOK, NullMeansExit, CapacityRespected
  <2>3. QED
    BY <1>3, <2>2, SpuriousTypes
<1>4. CASE UNCHANGED poolVars
  BY <1>4
  DEF poolVars, queueVars, TypeInv, PoolTypeOK, Flow, HandsOK, FlagsOK, StagesOK,
      NullMeansExit, Places, Accounted, OnePlace, InHand, CapacityRespected
<1>5. QED
  BY <1>1, <1>2, <1>3, <1>4 DEF PoolNext

\* The invariant of the pool.
THEOREM PoolInvariant == PoolSpec => []Inv
  BY InvInit, InvStep, PTL DEF PoolSpec

\* The pool's variables keep their types; a task that is done was submitted.
THEOREM PoolTypeCorrect == PoolSpec => []PoolTypeOK
<1>1. Inv => PoolTypeOK
  BY DEF Inv, TypeInv
<1>2. QED
  BY <1>1, PoolInvariant, PTL

\* A worker that pops a null task finds _isExit set when it comes round.
THEOREM NullCorrect == PoolSpec => []NullMeansExit
<1>1. Inv => NullMeansExit
  BY DEF Inv, Flow, FlagsOK
<1>2. QED
  BY <1>1, PoolInvariant, PTL

\* A stopped pool has run all it was given: Main saw the queue empty and put nothing
\* in it since, and every thread that ran has been joined, so nobody holds a task.
LEMMA JoinedIsDrained ==
  ASSUME Inv, pc[Main] \in Exiting, \A w \in Workers : ~isRunning[w]
  PROVE  done = submitted /\ que = <<>>
<1> USE MainApart DEF Inv, Flow
<1>1. que = <<>>
  BY DEF StagesOK, Exiting
<1>2. elem[Main] = NoTask
  BY DEF HandsOK, Pushes, Exiting
<1>3. \A w \in Workers : elem[w] = NoTask
  BY DEF HandsOK, StagesOK
<1>4. InHand = {}
  BY <1>2, <1>3 DEF InHand
<1>5. Range(que) = {}
  BY <1>1 DEF Range
<1>6. QED
  BY <1>1, <1>4, <1>5 DEF Places, Accounted

THEOREM DrainCorrect == PoolSpec => []StopDrains
<1>1. Inv => StopDrains
  BY JoinedIsDrained DEF Inv, Flow, StagesOK, StopDrains, Exiting
<1>2. QED
  BY <1>1, PoolInvariant, PTL

\* The queue's bound holds in the pool, too.
THEOREM PoolCapacityCorrect == PoolSpec => []CapacityRespected
<1>1. Inv => CapacityRespected
  BY DEF Inv
<1>2. QED
  BY <1>1, PoolInvariant, PTL

-----------------------------------------------------------------------------
(***************************************************************************)
(* The pool implements TaskPool.  Bar is what the mapping takes for the    *)
(* submitted tasks: all but the one that Main is still pushing.            *)
(***************************************************************************)
Bar == submitted \ ({elem[Main]} \ {NoTask})
Running == [w \in Workers |-> elem[w]]

LEMMA MapUnchanged ==
  ASSUME Bar' = Bar, que' = que, Running' = Running, done' = done,
         (pc[Main] = "stopped")' = (pc[Main] = "stopped")
  PROVE  UNCHANGED Pool!poolVars
  BY DEF Pool!poolVars, Bar, Running

\* The end of push submits the task.
LEMMA PushSubmits ==
  ASSUME Inv, QueueOnly(PushItem(Main))
  PROVE  Pool!Next
<1> USE MainApart DEF Inv, Flow
<1>1. /\ elem \in [Threads -> Task \cup {NoTask}] /\ que \in Seq(Task)
      /\ pc \in [Threads -> MainPlaces \cup WorkerPlaces]
  BY DEF TypeInv, PoolTypeOK
<1>2. /\ que' = Append(que, elem[Main]) /\ elem' = [elem EXCEPT ![Main] = NoTask]
      /\ pc' = [pc EXCEPT ![Main] = "idle"] /\ Len(que) # QueSize
      /\ done' = done /\ submitted' = submitted /\ pc[Main] = "pushTest"
  BY DEF QueueOnly, PushItem, Goto, Full
<1>3. elem[Main] \in Task /\ elem[Main] \in InHand
  BY <1>1, <1>2 DEF HandsOK, Pushes, InHand
<1>4. elem[Main] \in submitted
  BY <1>3 DEF Places, Accounted
<1>5. Bar = submitted \ {elem[Main]} /\ Bar' = Bar \cup {elem[Main]}
  BY <1>1, <1>2, <1>3, <1>4 DEF Bar
<1>6. Len(que) < QueSize
  BY <1>1, <1>2, TaskQueueAssumption DEF CapacityRespected
<1>7. Running' = Running
  BY <1>1, <1>2 DEF Running
<1>8. pc[Main] # "stopped" /\ pc'[Main] # "stopped"
  BY <1>1, <1>2
<1>9. Pool!Submit(elem[Main])
  BY <1>2, <1>3, <1>5, <1>6, <1>7, <1>8 DEF Pool!Submit, Pool!Enqueue, Bar, Running
<1>10. QED
  BY <1>3, <1>9 DEF Pool!Next

\* A pop that takes a task starts it.
LEMMA TakeStarts ==
  ASSUME Inv, NEW w \in Workers, QueueOnly(PopTake(w))
  PROVE  Pool!Next
<1> USE MainApart DEF Inv, Flow
<1>1. /\ elem \in [Threads -> Task \cup {NoTask}] /\ que \in Seq(Task)
      /\ pc \in [Threads -> MainPlaces \cup WorkerPlaces]
  BY DEF TypeInv, PoolTypeOK
<1>2. /\ que # <<>> /\ que' = Tail(que) /\ elem' = [elem EXCEPT ![w] = Head(que)]
      /\ pc' = [pc EXCEPT ![w] = "popped"] /\ pc[w] = "popTest"
      /\ done' = done /\ submitted' = submitted
  BY DEF QueueOnly, PopTake, Goto, Empty, Rest
<1>3. Running[w] = NoTask
  BY <1>2 DEF HandsOK, Running
<1>4. Running' = [Running EXCEPT ![w] = Head(que)] /\ elem'[Main] = elem[Main]
  BY <1>1, <1>2 DEF Running
<1>5. pc'[Main] = pc[Main]
  BY <1>1, <1>2
<1>6. Pool!Start(w)
  BY <1>2, <1>3, <1>4, <1>5 DEF Pool!Start, Pool!Dequeue, Running, Bar
<1>7. QED
  BY <1>6 DEF Pool!Next

\* The return of a task finishes it; a null task is none.
LEMMA RunFinishes ==
  ASSUME Inv, NEW w \in Workers, RunTask(w)
  PROVE  Pool!Next \/ UNCHANGED Pool!poolVars
<1> USE MainApart DEF Inv, Flow
<1>1. elem \in [Threads -> Task \cup {NoTask}] /\ pc \in [Threads -> MainPlaces \cup WorkerPlaces]
  BY DEF TypeInv, PoolTypeOK
<1>2. /\ elem' = [elem EXCEPT ![w] = NoTask] /\ pc' = [pc EXCEPT ![w] = "idle"]
      /\ done' = done \cup ({elem[w]} \ {NoTask})
      /\ que' = que /\ submitted' = submitted
  BY DEF RunTask, Called, Goto
<1>3. pc'[Main] = pc[Main] /\ elem'[Main] = elem[Main]
  BY <1>1, <1>2
<1>4. Running' = [Running EXCEPT ![w] = NoTask] /\ Running[w] = elem[w]
  BY <1>1, <1>2 DEF Running
<1>5. CASE elem[w] = NoTask
  <2>1. Running' = Running /\ done' = done /\ Bar' = Bar
    BY <1>1, <1>2, <1>3, <1>5 DEF Running, Bar
  <2>2. QED
    BY <1>2, <1>3, <2>1, MapUnchanged
<1>6. CASE elem[w] # NoTask
  <2>1. elem[w] \in InHand
    BY <1>6 DEF InHand
  <2>2. elem[w] \notin done
    BY <2>1 DEF Places, OnePlace
  <2>3. Pool!Finish(w)
    BY <1>2, <1>3, <1>4, <1>6, <2>2 DEF Pool!Finish, Pool!Release, Running, Bar
  <2>4. QED
    BY <2>3 DEF Pool!Next
<1>7. QED
  BY <1>5, <1>6

\* The return of stopThreadPool stops the pool.
LEMMA ReturnStops ==
  ASSUME Inv, StopReturn
  PROVE  Pool!Next
<1> USE MainApart
<1>1. /\ pc \in [Threads -> MainPlaces \cup WorkerPlaces]
      /\ pc' = [pc EXCEPT ![Main] = "stopped"] /\ pc[Main] = "woken"
      /\ UNCHANGED <<que, elem, submitted, done>>
  BY DEF Inv, TypeInv, StopReturn, Goto, onlyPc
<1>2. pc'[Main] = "stopped"
  BY <1>1
<1>3. done = submitted
  BY <1>1, JoinedIsDrained DEF StopReturn, Exiting
<1>4. elem[Main] = NoTask
  BY <1>1 DEF Inv, Flow, HandsOK, Pushes
<1>5. Bar = submitted
  BY <1>4 DEF Bar
<1>6. Pool!Stop
  BY <1>1, <1>2, <1>3, <1>5 DEF Pool!Stop, Bar
<1>7. QED
  BY <1>6 DEF Pool!Next

\* Main's other steps are none of TaskPool's: a task counts from its push on.
LEMMA MainMaps ==
  ASSUME Inv, MainCall \/ MainStep \/ MainLock
  PROVE  Pool!Next \/ UNCHANGED Pool!poolVars
<1> USE MainApart
<1>1. elem \in [Threads -> Task \cup {NoTask}] /\ pc \in [Threads -> MainPlaces \cup WorkerPlaces]
  BY DEF Inv, TypeInv, PoolTypeOK
<1>2. CASE \E task \in Task : AddTask(task)
  <2>1. PICK task \in Task : AddTask(task)
    BY <1>2
  <2>2. /\ elem' = [elem EXCEPT ![Main] = task] /\ elem[Main] = NoTask
        /\ submitted' = submitted \cup {task} /\ task \notin submitted
        /\ que' = que /\ done' = done
        /\ pc' = [pc EXCEPT ![Main] = "pushLock"] /\ pc[Main] = "idle"
    BY <2>1 DEF AddTask, PushCall, Goto, Inv, Flow, HandsOK, Pushes
  <2>3. Bar' = Bar /\ Running' = Running
    BY <1>1, <2>2 DEF Bar, Running
  <2>4. (pc[Main] = "stopped")' = (pc[Main] = "stopped")
    BY <1>1, <2>2
  <2>5. QED
    BY <2>2, <2>3, <2>4, MapUnchanged
<1>3. CASE QueueOnly(PushItem(Main)) \/ StopReturn
  BY <1>3, PushSubmits, ReturnStops
<1>4. CASE UNCHANGED <<que, elem, submitted, done>> /\ pc[Main] # "stopped" /\ pc'[Main] # "stopped"
  BY <1>4, MapUnchanged DEF Bar, Running
<1>5. \/ \E task \in Task : AddTask(task)
      \/ QueueOnly(PushItem(Main)) \/ StopReturn
      \/ UNCHANGED <<que, elem, submitted, done>> /\ pc[Main] # "stopped" /\ pc'[Main] # "stopped"
  BY <1>1, MainSteps
  DEF QueueOnly, onlyPc, queueVars, Goto, StopCall, StartReturn, StopPoll, SetExit, StartThread,
      Join, PushLock, PushWake, PushWait, Lock, SetStop, Broadcast
<1>6. QED
  BY <1>2, <1>3, <1>4, <1>5

LEMMA WorkerMaps ==
  ASSUME Inv, NEW w \in Workers, WorkerStep(w) \/ WorkerLock(w)
  PROVE  Pool!Next \/ UNCHANGED Pool!poolVars
<1> USE MainApart
<1>1. elem \in [Threads -> Task \cup {NoTask}] /\ pc \in [Threads -> MainPlaces \cup WorkerPlaces]
  BY DEF Inv, TypeInv, PoolTypeOK
<1>2. CASE QueueOnly(PopTake(w)) \/ RunTask(w)
  BY <1>2, TakeStarts, RunFinishes
<1>3. CASE UNCHANGED <<que, elem, submitted, done>> /\ pc'[Main] = pc[Main]
  BY <1>3, MapUnchanged DEF Bar, Running
<1>4. QueueOnly(PopNull(w)) => UNCHANGED <<que, elem, submitted, done>>
  BY <1>1 DEF QueueOnly, PopNull, Inv, Flow, HandsOK
<1>5. \/ QueueOnly(PopTake(w)) \/ RunTask(w)
      \/ UNCHANGED <<que, elem, submitted, done>> /\ pc'[Main] = pc[Main]
  BY <1>1, <1>4, WorkerSteps
  DEF QueueOnly, onlyPc, queueVars, Goto, LoopPop, PopCall, LoopExit, PopLock, PopWake, Lock,
      PopTest, PopWait, PopNull
<1>6. QED
  BY <1>2, <1>3, <1>5

(***************************************************************************)
(* Mutex, condition variables, flags and joins amount to a TaskPool: tasks *)
(* are started in the order of submission, each by one worker, and run     *)
(* once; at most _queSize wait; a stopped pool has run them all.           *)
(***************************************************************************)
THEOREM PoolRefines == PoolSpec => ImplementsTaskPool
<1>1. PoolInit => Pool!Init
  BY MainApart DEF PoolInit, QueueInit, Pool!Init
<1>2. Inv /\ [PoolNext]_poolVars => [Pool!Next]_Pool!poolVars
  <2> SUFFICES ASSUME Inv, [PoolNext]_poolVars
               PROVE  Pool!Next \/ UNCHANGED Pool!poolVars
    OBVIOUS
  <2>1. CASE MainCall \/ MainStep \/ MainLock
    BY <2>1, MainMaps
  <2>2. CASE \E w \in Workers : WorkerStep(w) \/ WorkerLock(w)
    BY <2>2, WorkerMaps
  <2>3. CASE (\E t \in Threads : QueueOnly(SpuriousWakeup(t))) \/ UNCHANGED poolVars
    <3>1. UNCHANGED <<que, elem, submitted, done, pc>>
      BY <2>3 DEF QueueOnly, SpuriousWakeup, poolVars, queueVars
    <3>2. QED
      BY <3>1, MapUnchanged DEF Bar, Running
  <2>4. QED
    BY <2>1, <2>2, <2>3 DEF PoolNext
<1>3. QED
  BY <1>1, <1>2, PoolInvariant, PTL DEF PoolSpec, ImplementsTaskPool, Pool!Spec
=============================================================================
