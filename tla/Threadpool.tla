----------------------------- MODULE Threadpool ------------------------------
(***************************************************************************)
(* The thread pool of Reactor_Version5.0 (Threadpool.cpp, MyThread.cpp) on *)
(* top of its TaskQueue.  The only producer is Main, the thread that calls *)
(* startThreadPool, then addTask any number of times, then stopThreadPool  *)
(* (in the echo server: main, which runs the event loop).  The consumers   *)
(* are the workers; each runs doTask.                                      *)
(*                                                                         *)
(* Places of Main:   start, idle, push..., stopPoll, setExit, setStop,     *)
(*                   broadcast, woken (joining), stopped                   *)
(* Places of worker: new, failed, idle (the while of doTask), pop...,      *)
(*                   popped (the task runs), exited                        *)
(***************************************************************************)
EXTENDS TaskQueue

CONSTANT Main

Workers == Consumers

ASSUME ThreadpoolAssumption == Producers = {Main}

VARIABLES isExit,     \* _isExit
          isRunning,  \* _isRunning of each MyThread
          submitted,  \* history: the tasks addTask was called with
          done        \* history: the tasks that have returned

poolVars == <<queueVars, isExit, isRunning, submitted, done>>

PoolInit ==
  /\ QueueInit
  /\ pc = [t \in Threads |-> IF t = Main THEN "start" ELSE "new"]
  /\ isExit = FALSE
  /\ isRunning = [w \in Workers |-> FALSE]
  /\ submitted = {}
  /\ done = {}

onlyPc == <<que, owner, notFull, notEmpty, is_stop, elem>>

-----------------------------------------------------------------------------
(* startThreadPool: pthread_create may fail, which start only reports.     *)

StartThread(w) ==
  /\ pc[Main] = "start"
  /\ pc[w] = "new"
  /\ \/ Goto(w, "idle") /\ isRunning' = [isRunning EXCEPT ![w] = TRUE]
     \/ Goto(w, "failed") /\ UNCHANGED isRunning
  /\ UNCHANGED <<onlyPc, isExit, submitted, done>>

StartReturn ==
  /\ pc[Main] = "start"
  /\ \A w \in Workers : pc[w] # "new"
  /\ Goto(Main, "idle")
  /\ UNCHANGED <<onlyPc, isExit, isRunning, submitted, done>>

AddTask(task) ==
  /\ task \notin submitted
  /\ PushCall(Main, task)
  /\ submitted' = submitted \cup {task}
  /\ UNCHANGED <<isExit, isRunning, done>>

-----------------------------------------------------------------------------
(* stopThreadPool                                                          *)

StopCall ==
  /\ pc[Main] = "idle"
  /\ Goto(Main, "stopPoll")
  /\ UNCHANGED <<onlyPc, isExit, isRunning, submitted, done>>

\* Faulty variant: stop without waiting for the queue.
DrainedSkipped == TRUE

\* The queue is polled once a second, without the mutex.
Drained == Empty

StopPoll ==
  /\ pc[Main] = "stopPoll"
  /\ Drained
  /\ Goto(Main, "setExit")
  /\ UNCHANGED <<onlyPc, isExit, isRunning, submitted, done>>

\* Faulty variant: _isExit is left alone.
SetExitForgotten ==
  /\ pc[Main] = "setExit"
  /\ Goto(Main, "setStop")
  /\ UNCHANGED <<onlyPc, isExit, isRunning, submitted, done>>

SetExit ==
  /\ pc[Main] = "setExit"
  /\ isExit' = TRUE
  /\ Goto(Main, "setStop")
  /\ UNCHANGED <<onlyPc, isRunning, submitted, done>>

Join(w) ==
  /\ pc[Main] = "woken"
  /\ isRunning[w]
  /\ pc[w] = "exited"
  /\ isRunning' = [isRunning EXCEPT ![w] = FALSE]
  /\ UNCHANGED <<queueVars, isExit, submitted, done>>

StopReturn ==
  /\ pc[Main] = "woken"
  /\ \A w \in Workers : ~isRunning[w]
  /\ Goto(Main, "stopped")
  /\ UNCHANGED <<onlyPc, isExit, isRunning, submitted, done>>

-----------------------------------------------------------------------------
(* doTask                                                                  *)

LoopPop(w) ==
  /\ ~isExit
  /\ PopCall(w)
  /\ UNCHANGED <<isExit, isRunning, submitted, done>>

LoopExit(w) ==
  /\ pc[w] = "idle"
  /\ isExit
  /\ Goto(w, "exited")
  /\ UNCHANGED <<onlyPc, isExit, isRunning, submitted, done>>

\* Faulty variant: the result of pop is called without a look at it.
CalledUnchecked(w) == {elem[w]}

\* if(task) task(): a null task is skipped.
Called(w) == {elem[w]} \ {NoTask}

\* The task returns.
RunTask(w) ==
  /\ pc[w] = "popped"
  /\ done' = done \cup Called(w)
  /\ elem' = [elem EXCEPT ![w] = NoTask]
  /\ Goto(w, "idle")
  /\ UNCHANGED <<que, owner, notFull, notEmpty, is_stop, isExit, isRunning, submitted>>

-----------------------------------------------------------------------------
QueueOnly(A) == A /\ UNCHANGED <<isExit, isRunning, submitted, done>>

MainStep ==
  \/ StartReturn
  \/ \E w \in Workers : StartThread(w) \/ Join(w)
  \/ StopPoll \/ SetExit \/ StopReturn
  \/ QueueOnly(PushWait(Main) \/ PushItem(Main) \/ WakeAllStep(Main))

MainLock == QueueOnly(PushLock(Main) \/ PushWake(Main))

\* What Main's caller decides.
MainCall == StopCall \/ \E task \in Task : AddTask(task)

WorkerStep(w) ==
  \/ LoopPop(w) \/ LoopExit(w) \/ RunTask(w)
  \/ QueueOnly(PopTest(w) \/ PopWait(w) \/ PopTake(w) \/ PopNull(w))

WorkerLock(w) == QueueOnly(PopLock(w) \/ PopWake(w))

PoolNext ==
  \/ MainCall \/ MainStep \/ MainLock
  \/ \E w \in Workers : WorkerStep(w) \/ WorkerLock(w)
  \/ \E t \in Threads : QueueOnly(SpuriousWakeup(t))

PoolSpec == PoolInit /\ [][PoolNext]_poolVars

(***************************************************************************)
(* Every thread keeps running (tasks return), and a thread that waits for  *)
(* the mutex gets it if it is free again and again.  Nothing forces Main's *)
(* caller to call, or a spurious wakeup to happen.                         *)
(***************************************************************************)
Fairness ==
  /\ WF_poolVars(MainStep)
  /\ SF_poolVars(MainLock)
  /\ \A w \in Workers : WF_poolVars(WorkerStep(w)) /\ SF_poolVars(WorkerLock(w))

FairPoolSpec == PoolSpec /\ Fairness

-----------------------------------------------------------------------------
\* The types of the pool's variables.
PoolTypeOK ==
  /\ que \in Seq(Task)
  /\ owner \in Threads \cup {NoThread}
  /\ notFull \subseteq {Main}
  /\ notEmpty \subseteq Workers
  /\ pc[Main] \in ProducerPlaces \cup {"start", "stopPoll", "setExit", "stopped"}
  /\ \A w \in Workers : pc[w] \in ConsumerPlaces \cup {"new", "failed", "exited"}
  /\ elem \in [Threads -> Task \cup {NoTask}]
  /\ isExit \in BOOLEAN /\ is_stop \in BOOLEAN
  /\ isRunning \in [Workers -> BOOLEAN]
  /\ submitted \subseteq Task
  /\ done \subseteq submitted

(***************************************************************************)
(* stopThreadPool drops nothing (Threadpool.cpp:28): when it has returned, *)
(* every submitted task has been run, although it looks at the queue only  *)
(* once, without the mutex, while workers may still hold tasks.            *)
(***************************************************************************)
StopDrains == pc[Main] = "stopped" => done = submitted /\ que = <<>>

(***************************************************************************)
(* pop returns a null task only to a worker that will leave its loop: the  *)
(* two flags are set in the order that keeps a stopped worker from going   *)
(* round on null tasks.                                                    *)
(***************************************************************************)
NullMeansExit ==
  \A w \in Workers : pc[w] = "popped" /\ elem[w] = NoTask => isExit

(***************************************************************************)
(* The pool implements TaskPool: what a task goes through is waiting, in   *)
(* the hands of one worker, and done, and a stopped pool has none left.    *)
(***************************************************************************)
Pool == INSTANCE TaskPool
  WITH Capacity <- QueSize,
       submitted <- submitted \ ({elem[Main]} \ {NoTask}),
       pending <- que,
       running <- [w \in Workers |-> elem[w]],
       stopped <- pc[Main] = "stopped"

ImplementsTaskPool == Pool!Spec

(***************************************************************************)
(* Every task is run in the end, if any worker started: the producer is    *)
(* not left waiting on a full queue, nor a task with all workers asleep.   *)
(***************************************************************************)
AllTasksRun ==
  \A task \in Task :
    (task \in submitted /\ \E w \in Workers : isRunning[w]) ~> task \in done

(***************************************************************************)
(* stopThreadPool returns if no worker was between the test and the wait   *)
(* of pop when wakeUpAllThread ran: then the two flags reach every worker. *)
(***************************************************************************)
StopReturnsUnlessMissed ==
  (/\ pc[Main] = "woken"
   /\ \A w \in Workers : pc[w] # "popSleep" /\ w \notin notEmpty)
    ~> pc[Main] = "stopped"

(***************************************************************************)
(* What the comment on Threadpool.cpp:34 says of the call to               *)
(* wakeUpAllThread: every worker blocked on the queue sees the exit flag   *)
(* and leaves, so that the joins that follow return.                       *)
(***************************************************************************)
StopReturns == pc[Main] = "setStop" ~> pc[Main] = "stopped"
=============================================================================
