------------------------------ MODULE TaskQueue ------------------------------
(***************************************************************************)
(* The bounded blocking queue of Reactor_Version5.0 (TaskQueue.cpp), with  *)
(* the mutex and the two condition variables it is built from.             *)
(*                                                                         *)
(* A thread's place inside an operation is pc[t]; elem[t] is the argument  *)
(* of its push or the result of its pop.  One action is one critical       *)
(* section, or one part of it between two accesses to shared state: the    *)
(* test in pop is apart from the wait that follows it, because is_stop and *)
(* the broadcast of wakeUpAllThread are not protected by the mutex.        *)
(***************************************************************************)
EXTENDS Naturals, Sequences, FiniteSets

CONSTANTS Producers,  \* threads that call push and wakeUpAllThread
          Consumers,  \* threads that call pop
          QueSize,    \* _queSize
          Task,       \* the non-null tasks
          NoTask,     \* a null Task (an empty std::function)
          NoThread    \* the owner of a free mutex

Threads == Producers \cup Consumers

ASSUME TaskQueueAssumption ==
  /\ IsFiniteSet(Producers)
  /\ IsFiniteSet(Consumers)
  /\ Producers \cap Consumers = {}
  /\ NoThread \notin Threads
  /\ NoTask \notin Task
  /\ QueSize \in Nat

VARIABLES que,       \* _que
          owner,     \* the holder of _mutex
          notFull,   \* the threads blocked on _notFull
          notEmpty,  \* the threads blocked on _notEmpty
          is_stop,   \* _is_stop
          pc,
          elem

queueVars == <<que, owner, notFull, notEmpty, is_stop, pc, elem>>

QueueInit ==
  /\ que = <<>>
  /\ owner = NoThread
  /\ notFull = {}
  /\ notEmpty = {}
  /\ is_stop = FALSE
  /\ elem = [t \in Threads |-> NoTask]

Full == Len(que) = QueSize
Empty == que = <<>>

-----------------------------------------------------------------------------
(***************************************************************************)
(* The mutex and the condition variables.  A waiting thread t has been     *)
(* woken when it has left the wait set; it still needs the mutex.          *)
(***************************************************************************)
Goto(t, to) == pc' = [pc EXCEPT ![t] = to]

Lock(t, from, to) ==
  /\ pc[t] = from
  /\ owner = NoThread
  /\ owner' = t
  /\ Goto(t, to)
  /\ UNCHANGED <<que, notFull, notEmpty, is_stop, elem>>

Unlock == owner' = NoThread

\* The wait sets notify_one may leave behind: one waiter fewer, if there is one.
NotifyOne(waiters) ==
  IF waiters = {} THEN {{}} ELSE {waiters \ {t} : t \in waiters}

\* pthread_cond_wait may return without a notification.
SpuriousWakeup(t) ==
  /\ t \in notFull \cup notEmpty
  /\ notFull' = notFull \ {t}
  /\ notEmpty' = notEmpty \ {t}
  /\ UNCHANGED <<que, owner, is_stop, pc, elem>>

-----------------------------------------------------------------------------
(* push: block while the queue is full, append, notify one consumer.       *)

PushCall(t, task) ==
  /\ pc[t] = "idle"
  /\ Goto(t, "pushLock")
  /\ elem' = [elem EXCEPT ![t] = task]
  /\ UNCHANGED <<que, owner, notFull, notEmpty, is_stop>>

PushLock(t) == Lock(t, "pushLock", "pushTest")

\* Faulty variant: an if in place of the while, no second look at the queue.
PushWakeNoRetest(t) ==
  /\ pc[t] = "pushWait"
  /\ t \notin notFull
  /\ owner = NoThread
  /\ que' = Append(que, elem[t])
  /\ Goto(t, "idle")
  /\ elem' = [elem EXCEPT ![t] = NoTask]
  /\ UNCHANGED <<owner, notFull, notEmpty, is_stop>>

PushWake(t) == t \notin notFull /\ Lock(t, "pushWait", "pushTest")

\* Faulty variant: the producer waits on _notEmpty.
PushWaitWrongCondition(t) ==
  /\ pc[t] = "pushTest"
  /\ Full
  /\ notEmpty' = notEmpty \cup {t}
  /\ Unlock
  /\ Goto(t, "pushWait")
  /\ UNCHANGED <<que, notFull, is_stop, elem>>

PushWait(t) ==
  /\ pc[t] = "pushTest"
  /\ Full
  /\ notFull' = notFull \cup {t}
  /\ Unlock
  /\ Goto(t, "pushWait")
  /\ UNCHANGED <<que, notEmpty, is_stop, elem>>

\* Faulty variants: notify only when the queue was empty, or never.
NotifyConsumerIfEmpty == IF Empty THEN NotifyOne(notEmpty) ELSE {notEmpty}
NotifyNobody == {notEmpty}

NotifyConsumer == NotifyOne(notEmpty)

PushItem(t) ==
  /\ pc[t] = "pushTest"
  /\ ~Full
  /\ que' = Append(que, elem[t])
  /\ notEmpty' \in NotifyConsumer
  /\ Unlock
  /\ Goto(t, "idle")
  /\ elem' = [elem EXCEPT ![t] = NoTask]
  /\ UNCHANGED <<notFull, is_stop>>

-----------------------------------------------------------------------------
(* pop: block while the queue is empty and not stopped; a null result once *)
(* stopped.                                                                *)

PopCall(t) ==
  /\ pc[t] = "idle"
  /\ Goto(t, "popLock")
  /\ UNCHANGED <<que, owner, notFull, notEmpty, is_stop, elem>>

PopLock(t) == Lock(t, "popLock", "popTest")
PopWake(t) == t \notin notEmpty /\ Lock(t, "popWait", "popTest")

\* The loop condition was true; is_stop may change before the wait begins.
PopTest(t) ==
  /\ pc[t] = "popTest"
  /\ Empty
  /\ ~is_stop
  /\ Goto(t, "popSleep")
  /\ UNCHANGED <<que, owner, notFull, notEmpty, is_stop, elem>>

PopWait(t) ==
  /\ pc[t] = "popSleep"
  /\ notEmpty' = notEmpty \cup {t}
  /\ Unlock
  /\ Goto(t, "popWait")
  /\ UNCHANGED <<que, notFull, is_stop, elem>>

\* Faulty variants: notify only when the queue was full; front without pop.
NotifyProducerIfFull == IF Full THEN NotifyOne(notFull) ELSE {notFull}
RestUnpopped == que

NotifyProducer == NotifyOne(notFull)
Rest == Tail(que)

PopTake(t) ==
  /\ pc[t] = "popTest"
  /\ ~Empty
  /\ ~is_stop
  /\ elem' = [elem EXCEPT ![t] = Head(que)]
  /\ que' = Rest
  /\ notFull' \in NotifyProducer
  /\ Unlock
  /\ Goto(t, "popped")
  /\ UNCHANGED <<notEmpty, is_stop>>

PopNull(t) ==
  /\ pc[t] = "popTest"
  /\ is_stop
  /\ elem' = [elem EXCEPT ![t] = NoTask]
  /\ Unlock
  /\ Goto(t, "popped")
  /\ UNCHANGED <<que, notFull, notEmpty, is_stop>>

-----------------------------------------------------------------------------
(* wakeUpAllThread: two steps, neither under the mutex.                    *)

SetStop(t) ==
  /\ pc[t] = "setStop"
  /\ is_stop' = TRUE
  /\ Goto(t, "broadcast")
  /\ UNCHANGED <<que, owner, notFull, notEmpty, elem>>

Broadcast(t) ==
  /\ pc[t] = "broadcast"
  /\ notEmpty' = {}
  /\ Goto(t, "woken")
  /\ UNCHANGED <<que, owner, notFull, is_stop, elem>>

-----------------------------------------------------------------------------
(***************************************************************************)
(* The queue on its own: any number of threads call it as often as they    *)
(* like.  Threadpool.tla puts the pool's threads in place of these callers.*)
(***************************************************************************)
WakeAllCall(t) ==
  /\ pc[t] = "idle"
  /\ Goto(t, "setStop")
  /\ UNCHANGED <<que, owner, notFull, notEmpty, is_stop, elem>>

Return(t) ==
  /\ pc[t] \in {"popped", "woken"}
  /\ Goto(t, "idle")
  /\ elem' = [elem EXCEPT ![t] = NoTask]
  /\ UNCHANGED <<que, owner, notFull, notEmpty, is_stop>>

PushStep(t) == PushLock(t) \/ PushWake(t) \/ PushWait(t) \/ PushItem(t)

PopStep(t) ==
  PopLock(t) \/ PopWake(t) \/ PopTest(t) \/ PopWait(t) \/ PopTake(t) \/ PopNull(t)

WakeAllStep(t) == SetStop(t) \/ Broadcast(t)

Init == QueueInit /\ pc = [t \in Threads |-> "idle"]

Next ==
  \/ \E t \in Producers :
       \/ \E task \in Task : PushCall(t, task)
       \/ PushStep(t)
       \/ WakeAllCall(t)
       \/ WakeAllStep(t)
  \/ \E t \in Consumers : PopCall(t) \/ PopStep(t)
  \/ \E t \in Threads : Return(t) \/ SpuriousWakeup(t)

Spec == Init /\ [][Next]_queueVars

-----------------------------------------------------------------------------
ProducerPlaces ==
  {"idle", "pushLock", "pushTest", "pushWait", "setStop", "broadcast", "woken"}
ConsumerPlaces ==
  {"idle", "popLock", "popTest", "popSleep", "popWait", "popped"}

\* The types of the queue's variables.
TypeOK ==
  /\ que \in Seq(Task)
  /\ owner \in Threads \cup {NoThread}
  /\ notFull \subseteq Producers
  /\ notEmpty \subseteq Consumers
  /\ is_stop \in BOOLEAN
  /\ pc \in [Threads -> ProducerPlaces \cup ConsumerPlaces]
  /\ elem \in [Threads -> Task \cup {NoTask}]
  /\ \A t \in Producers : pc[t] \in ProducerPlaces
  /\ \A t \in Consumers : pc[t] \in ConsumerPlaces

\* The threads inside a push (a pop) that are not asleep: each of them will
\* test the queue again before it can block.
Pushing == {t \in Producers : \/ pc[t] \in {"pushLock", "pushTest"}
                              \/ pc[t] = "pushWait" /\ t \notin notFull}
Popping == {t \in Consumers : \/ pc[t] \in {"popLock", "popTest"}
                              \/ pc[t] = "popWait" /\ t \notin notEmpty}

(***************************************************************************)
(* The queue never holds more than _queSize tasks: a producer woken from   *)
(* _notFull finds the slot taken by another one and must wait again, which *)
(* is what the loop around the wait in push is for.                        *)
(***************************************************************************)
CapacityRespected == Len(que) <= QueSize

(***************************************************************************)
(* No task is left behind a sleeping consumer.  Until the queue is         *)
(* stopped, whenever some consumer sleeps on _notEmpty there are at least  *)
(* as many awake consumers inside pop as there are tasks in the queue: one *)
(* notify_one per push is enough, although woken consumers race for tasks  *)
(* with newly arriving ones and wakeups may be spurious.                   *)
(***************************************************************************)
NoSleepingOnWork ==
  ~is_stop /\ notEmpty # {} => Len(que) <= Cardinality(Popping)

(***************************************************************************)
(* The same for producers: whenever some producer sleeps on _notFull there *)
(* are at least as many awake producers inside push as there are free      *)
(* slots.                                                                  *)
(***************************************************************************)
NoSleepingOnSpace ==
  notFull # {} => QueSize <= Len(que) + Cardinality(Pushing)
=============================================================================
