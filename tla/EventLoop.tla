------------------------------ MODULE EventLoop ------------------------------
(***************************************************************************)
(* The event loop of Reactor_Version5.0 (EventLoop.cpp): one I/O thread in *)
(* epoll_wait, and other threads that hand it functors with run_in_loop.   *)
(*                                                                         *)
(* pending is written only under _mutex, in critical sections of a single  *)
(* access, so each of them is one step.  The eventfd counter and isLooping *)
(* are shared without the mutex.  What the other descriptors do is left    *)
(* open here (HandleOther); EchoServer.tla fills it in.                    *)
(*                                                                         *)
(* Places of the I/O thread: outside, starting (TcpServer::start), test    *)
(* (the while of loop), wait (epoll_wait), dispatch (the for over the      *)
(* ready events), swap and run (doPendingFunctors).                        *)
(***************************************************************************)
EXTENDS Naturals, Sequences

CONSTANTS Callers,   \* the threads that call run_in_loop
          Functor,   \* what they submit, each at most once
          OtherFds,  \* the descriptors other than the eventfd
          EventFd    \* _event_fd

ASSUME EventLoopAssumption == EventFd \notin OtherFds

VARIABLES pending,    \* _pendingFunctors
          counter,    \* the counter of the eventfd
          batch,      \* what is left to run of temp_vec
          todo,       \* what is left to handle of _ready_events
          isLooping,  \* _isLooping
          iopc,       \* place of the I/O thread
          callpc,     \* place of each caller
          posted,     \* history: the functors submitted, in order
          ran         \* history: the functors run, in order

loopVars == <<pending, counter, batch, todo, isLooping, iopc, callpc, posted, ran>>

LoopInit ==
  /\ pending = <<>>
  /\ counter = 0
  /\ batch = <<>>
  /\ todo = {}
  /\ isLooping = FALSE
  /\ iopc = "outside"
  /\ callpc = [c \in Callers |-> "idle"]
  /\ posted = <<>>
  /\ ran = <<>>

GotoCaller(c, from, to) ==
  /\ callpc[c] = from
  /\ callpc' = [callpc EXCEPT ![c] = to]

GotoIo(from, to) == iopc = from /\ iopc' = to

-----------------------------------------------------------------------------
(* run_in_loop: append under the mutex, then wake the I/O thread.          *)

\* Faulty variant: insert at the front.
AddedFront(f) == <<f>> \o pending

Added(f) == Append(pending, f)

PushFunctor(c, f) ==
  /\ GotoCaller(c, "idle", "wakeup")
  /\ \A i \in 1..Len(posted) : posted[i] # f
  /\ pending' = Added(f)
  /\ posted' = Append(posted, f)
  /\ UNCHANGED <<counter, batch, todo, isLooping, iopc, ran>>

\* Faulty variant: write only if the I/O thread is waiting at this moment.
SignalledIfWaiting == IF iopc = "wait" THEN counter + 1 ELSE counter

Signalled == counter + 1

Wakeup(c) ==
  /\ GotoCaller(c, "wakeup", "return")
  /\ counter' = Signalled
  /\ UNCHANGED <<pending, batch, todo, isLooping, iopc, posted, ran>>

RunInLoopReturn(c) ==
  /\ GotoCaller(c, "return", "idle")
  /\ UNCHANGED <<pending, counter, batch, todo, isLooping, iopc, posted, ran>>

-----------------------------------------------------------------------------
(* loop and wait_epoll_fd                                                  *)

Start ==
  /\ GotoIo("outside", "starting")
  /\ UNCHANGED <<pending, counter, batch, todo, isLooping, callpc, posted, ran>>

LoopBegin ==
  /\ GotoIo("starting", "test")
  /\ isLooping' = TRUE
  /\ UNCHANGED <<pending, counter, batch, todo, callpc, posted, ran>>

LoopTest ==
  /\ \/ isLooping /\ GotoIo("test", "wait")
     \/ ~isLooping /\ GotoIo("test", "outside")
  /\ UNCHANGED <<pending, counter, batch, todo, isLooping, callpc, posted, ran>>

\* Faulty variant: no timeout.
EpollReturnNoTimeout(others) ==
  /\ GotoIo("wait", "dispatch")
  /\ todo' = others \cup (IF counter > 0 THEN {EventFd} ELSE {})
  /\ todo' # {}
  /\ UNCHANGED <<pending, counter, batch, isLooping, callpc, posted, ran>>

\* Fewer than MAX_EVENTS descriptors are ready: epoll_wait reports them all.
\* It reports none when TIMEOUT expires, or a signal comes, with none ready.
EpollReturn(others) ==
  /\ GotoIo("wait", "dispatch")
  /\ todo' = others \cup (IF counter > 0 THEN {EventFd} ELSE {})
  /\ UNCHANGED <<pending, counter, batch, isLooping, callpc, posted, ran>>

HandleOther(fd) ==
  /\ iopc = "dispatch"
  /\ fd \in todo \ {EventFd}
  /\ todo' = todo \ {fd}
  /\ UNCHANGED <<pending, counter, batch, isLooping, iopc, callpc, posted, ran>>

HandleReadEvent ==
  /\ EventFd \in todo
  /\ GotoIo("dispatch", "swap")
  /\ todo' = todo \ {EventFd}
  /\ counter' = 0
  /\ UNCHANGED <<pending, batch, isLooping, callpc, posted, ran>>

\* Faulty variant: temp_vec is a copy.
LeftCopied == pending

Left == <<>>

SwapFunctors ==
  /\ GotoIo("swap", "run")
  /\ batch' = pending
  /\ pending' = Left
  /\ UNCHANGED <<counter, todo, isLooping, callpc, posted, ran>>

RunFunctor ==
  /\ iopc = "run"
  /\ batch # <<>>
  /\ ran' = Append(ran, Head(batch))
  /\ batch' = Tail(batch)
  /\ UNCHANGED <<pending, counter, todo, isLooping, iopc, callpc, posted>>

\* Faulty variant: the eventfd is read again after the batch.
FunctorsDoneRead ==
  /\ batch = <<>>
  /\ GotoIo("run", "dispatch")
  /\ counter' = 0
  /\ UNCHANGED <<pending, batch, todo, isLooping, callpc, posted, ran>>

FunctorsDone ==
  /\ batch = <<>>
  /\ GotoIo("run", "dispatch")
  /\ UNCHANGED <<pending, counter, batch, todo, isLooping, callpc, posted, ran>>

\* Faulty variant: leave the for before its end.
BatchDoneEarly ==
  /\ GotoIo("dispatch", "test")
  /\ UNCHANGED <<pending, counter, batch, todo, isLooping, callpc, posted, ran>>

BatchDone ==
  /\ todo = {}
  /\ GotoIo("dispatch", "test")
  /\ UNCHANGED <<pending, counter, batch, todo, isLooping, callpc, posted, ran>>

Unloop ==
  /\ isLooping' = FALSE
  /\ UNCHANGED <<pending, counter, batch, todo, iopc, callpc, posted, ran>>

-----------------------------------------------------------------------------
IoStep ==
  \/ LoopBegin \/ LoopTest \/ BatchDone
  \/ EpollReturn({})
  \/ \E fd \in OtherFds : HandleOther(fd)
  \/ HandleReadEvent \/ SwapFunctors \/ RunFunctor \/ FunctorsDone

\* Other descriptors may become ready, and need not.
OtherEvents == \E others \in (SUBSET OtherFds) \ {{}} : EpollReturn(others)

CallerStep(c) == Wakeup(c) \/ RunInLoopReturn(c)

LoopNext ==
  \/ Start \/ Unloop \/ IoStep \/ OtherEvents
  \/ \E c \in Callers : CallerStep(c) \/ \E f \in Functor : PushFunctor(c, f)

LoopSpec == LoopInit /\ [][LoopNext]_loopVars

\* Every thread keeps running.  Nobody has to start, stop or call the loop.
LoopFairness ==
  /\ WF_loopVars(IoStep)
  /\ \A c \in Callers : WF_loopVars(CallerStep(c))

FairLoopSpec == LoopSpec /\ LoopFairness

-----------------------------------------------------------------------------
IoPlaces == {"outside", "starting", "test", "wait", "dispatch", "swap", "run"}

\* The types of the loop's variables, and where the two batches are empty.
LoopTypeOK ==
  /\ pending \in Seq(Functor)
  /\ counter \in Nat
  /\ batch \in Seq(Functor)
  /\ todo \subseteq OtherFds \cup {EventFd}
  /\ isLooping \in BOOLEAN
  /\ iopc \in IoPlaces
  /\ callpc \in [Callers -> {"idle", "wakeup", "return"}]
  /\ posted \in Seq(Functor)
  /\ ran \in Seq(Functor)
  /\ iopc # "run" => batch = <<>>
  /\ iopc \in {"outside", "starting", "test", "wait"} => todo = {}

(***************************************************************************)
(* No functor is forgotten: while some are pending, the eventfd is         *)
(* readable, or a caller is on its way to make it so, or the I/O thread    *)
(* has read it and is about to take them all.  It depends on both orders:  *)
(* push before wakeup, read before swap.                                   *)
(***************************************************************************)
WakeupNotLost ==
  pending # <<>> => \/ counter > 0
                    \/ \E c \in Callers : callpc[c] = "wakeup"
                    \/ iopc = "swap"

(***************************************************************************)
(* Functors are run once each, in the order of the push_backs, however the *)
(* callers race with the swap and with the batch being run.                *)
(***************************************************************************)
OnceInOrder == posted = ran \o batch \o pending

(***************************************************************************)
(* A functor given to run_in_loop is run, if the loop is never left for    *)
(* good: the I/O thread does not sleep in epoll_wait with work pending.    *)
(***************************************************************************)
FunctorsRun ==
  <>[](iopc # "outside") =>
    \A f \in Functor : (\E i \in 1..Len(posted) : posted[i] = f)
                       ~> (\E i \in 1..Len(ran) : ran[i] = f)

(***************************************************************************)
(* Once unloop has cleared the flag the loop ends: unloop does not write   *)
(* the eventfd, but epoll_wait has a timeout.                              *)
(***************************************************************************)
UnloopEnds == ~isLooping /\ iopc # "starting" ~> iopc = "outside"
=============================================================================
