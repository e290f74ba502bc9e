------------------------------ MODULE TaskPool -------------------------------
(***************************************************************************)
(* What a thread pool with a bounded queue promises to the code that gives *)
(* it tasks: tasks are started in the order they were submitted, each is   *)
(* run by one worker, once; at most Capacity tasks wait; a pool that has   *)
(* stopped has run everything it was given.  No mutex, no condition        *)
(* variable and no flag appears here.  Threadpool.tla shows that the       *)
(* pthread implementation of Reactor_Version5.0 keeps the promise, and     *)
(* EchoServer.tla builds on the promise alone.                             *)
(***************************************************************************)
EXTENDS Naturals, Sequences

CONSTANTS Workers, Capacity, Task, NoTask

VARIABLES submitted,  \* the tasks addTask has been given
          pending,    \* the tasks waiting to be started
          running,    \* the task each worker is running, or NoTask
          done,       \* the tasks that have returned
          stopped     \* stopThreadPool has returned

poolVars == <<submitted, pending, running, done, stopped>>

Init ==
  /\ submitted = {}
  /\ pending = <<>>
  /\ running = [w \in Workers |-> NoTask]
  /\ done = {}
  /\ stopped = FALSE

Enqueue(task) ==
  /\ Len(pending) < Capacity
  /\ pending' = Append(pending, task)

Dequeue(w) ==
  /\ pending # <<>>
  /\ running[w] = NoTask
  /\ running' = [running EXCEPT ![w] = Head(pending)]
  /\ pending' = Tail(pending)

Release(w) ==
  /\ running[w] # NoTask
  /\ running' = [running EXCEPT ![w] = NoTask]

Submit(task) ==
  /\ ~stopped
  /\ task \notin submitted
  /\ submitted' = submitted \cup {task}
  /\ Enqueue(task)
  /\ UNCHANGED <<running, done, stopped>>

Start(w) ==
  /\ Dequeue(w)
  /\ UNCHANGED <<submitted, done, stopped>>

Finish(w) ==
  /\ running[w] \notin done
  /\ done' = done \cup {running[w]}
  /\ Release(w)
  /\ UNCHANGED <<submitted, pending, stopped>>

Stop ==
  /\ done = submitted
  /\ stopped' = TRUE
  /\ UNCHANGED <<submitted, pending, running, done>>

Next ==
  \/ \E task \in Task : Submit(task)
  \/ \E w \in Workers : Start(w) \/ Finish(w)
  \/ Stop

Spec == Init /\ [][Next]_poolVars
=============================================================================
