# NetworkSocket: a verification model in TLA+

NetworkSocket is a series of C++ network programs of growing ambition: blocking
servers (`Reactor_Version1`, `1.2`), a single-threaded reactor (`2.0`, `3.0`), a
reactor with a thread pool (`4.0`, `5.0`), an epoll chat room and smaller demos.
`Reactor_Version5.0` is the last of the series and contains the parts of the others
in their final form, so the modules start there; `SocketIO` then compares how the
versions read messages from a socket, `BroadcastReactor` models the broadcasting
reactors, `ChatRoom` the chat room, and `RequestReply` the four small servers that give
each connection one answer. `Reactor_Version4.0` is the same program as 5.0 (next section).

## Inventory

| Part | State | Operations | Talks to |
|---|---|---|---|
| `TaskQueue` with `MutexLock`, `SmartMutexLock`, `Condition_va` | `_que`, `_is_stop`, mutex, two wait sets | `push`, `pop`, `wakeUpAllThread`, `empty`, `full` | called by `Threadpool` |
| `Threadpool`, `MyThread` | `_isExit`, `_isRunning` of each thread | `startThreadPool`, `addTask`, `doTask`, `stopThreadPool`, `start`, `join` | queue; runs tasks |
| `EventLoop` | `_pendingFunctors`, eventfd counter, `_isLooping`, ready events, `_conns` | `loop`, `unloop`, `run_in_loop`, `wakeup`, `handleReadEvent`, `doPendingFunctors`, `handle_new_connection`, `handle_message` | epoll, `Acceptor`, `TcpConnection`; workers call `run_in_loop` |
| `TcpConnection`, `Socket`, `SocketIO` | descriptor, reference count, `_isShutDownWrite` | `receive`, `send`, `sendInLoop`, `isClosed`, destructor | kernel sockets; `EventLoop` |
| `EchoServer`, `MyTask`, `TcpServer` (`Server_Main.cpp`) | the pool and the server | `onMessage`, `MyTask::process`, `start`, `stop` | all of the above |
| Clients | one socket | connect, send a line, receive, close | server |
| Reactors 2.0, 3.0, 4.0 | as 5.0, without pool (2, 3) | `onMessage` broadcasts to `getConnections()` (2, 3) | |
| Reactors 1, 1.2 | one connection at a time | `readline`; `sendWithPrefix`, `receiveWithPrefix`; test programs that answer one message | one client at a time |
| Chat room | client array, edge-triggered epoll | accept, receive and broadcast, timeout scan, remove | clients that reconnect |
| Epoll and TCP communication models | sockets | greeting, echo | their clients |
| Endianness demo | none | prints the bytes of an integer | |

How the parts of 5.0 interact. The main thread runs the event loop (the *I/O
thread*). It accepts connections, reads a line when a socket is readable, wraps
line and `shared_ptr` of the connection in a task and pushes it into the pool's
queue, blocking while the queue is full. A worker pops the task and runs
`MyTask::process`, which calls `sendInLoop`: it pushes a functor, bound to the *raw*
pointer of the connection, into `_pendingFunctors` under a mutex and writes the
eventfd. epoll then reports the eventfd, and the I/O thread reads it, swaps the
vector out and runs the functors, which send. Connections are destroyed, and their
descriptors closed, by whichever thread drops the last `shared_ptr`.

4.0 differs from 5.0 in three places: the pool is a global object, `onMessage` and the
other callbacks are free functions, and `handle_new_connection` calls `setEventLoop` (with
the pointer that the constructor has already set) and inserts into `_conns` before it sets
the callbacks, all in the I/O thread. `TaskQueue`, `SocketIO`, `TcpServer` and `Acceptor`
are the same files. No step of the modules tells the two apart, so what is said of 5.0
below holds of 4.0, and several definitions point to its lines.

What is hard in it: which thread is asleep on which condition variable when an item
arrives; two stop flags and a broadcast outside the mutex; the eventfd handshake;
object lifetime across three holders; the reuse of descriptor numbers; peers that
close or reset in the middle; a blocked I/O thread; threads that fail to start.
`PROJECT.json` lists these under `hazards`, each at its line.

The chat room is one thread with edge-triggered epoll: it accepts, reads a
descriptor until `EAGAIN`, sends what it has read to every other entry of its client
array, removes clients that end or fail, and after each batch of events those that
said nothing for `TIMEOUT` seconds. Hard there: an array from which loops remove
elements, events that are told only once, descriptor numbers that come back, sends
that fall short or hit a client that has gone.

The small servers are sequential programs (but for the epoll one) in blocking calls.
Hard there is what their peers and the kernel may do between two calls: a client that is
killed before, within or after its request, an `accept` or a set-up call that fails, a
reset that arrives between the two sends of one answer.

What makes each part correct:

* queue: it stays within its bound, and no thread sleeps while there is something
  for it to do;
* pool: every task is run once by one worker, in order of submission; a stop drops
  nothing and returns;
* loop: each functor is run once, in order, and soon; a stop ends the loop;
* server: each client gets its own lines back, once, whatever others do;
  descriptors, `_conns` and epoll batches stay consistent; nothing leaks;
* message framing: the messages received are those sent, however the stream is cut;
* chat room: the client array names exactly the open connections, what one client
  says reaches all others once and in order, nobody waits for ever, and a connection is
  closed with something unread only when the code means it;
* small servers: everybody who asks gets his own whole answer, and a server fails only in
  the ways its code makes inevitable.

## Modules

| Module | Models | Checked by |
|---|---|---|
| `TaskQueue` | `TaskQueue.cpp`, mutex and condition variables | `MCTaskQueue`, `TaskQueueProofs` |
| `TaskPool` | abstract: what a bounded pool promises | through `Threadpool` |
| `Threadpool` (extends `TaskQueue`) | `Threadpool.cpp`, `MyThread.cpp` | `MCThreadpool`, `ThreadpoolProofs` |
| `EventLoop` | loop, eventfd, pending functors of `EventLoop.cpp`, `TcpServer::start`/`stop` | `MCEventLoop`, `EchoServerProofs` |
| `EchoServer` (extends `EventLoop`, instantiates `TaskPool`) | `Server_Main.cpp`, connection handling of `EventLoop.cpp`, `TcpConnection.cpp` | `MCEchoServer`, `EchoServerProofs` |
| `SocketIO` | `SocketIO.cpp` and `TcpConnection::receive` of 1, 1.2 and 5.0 (the file is the same in 2.0 to 4.0) | `MCSocketIO`, `SocketIOProofs` |
| `Broadcast` | abstract: one log of lines, heard by all | through `BroadcastReactor` |
| `BroadcastReactor` (instantiates `Broadcast`) | event loop, `TcpConnection`, `Server_Main.cpp` and `Client.cpp` of 2.0 and 3.0 | `MCBroadcastReactor`, `BroadcastProofs` |
| `ChatRoom` | `Server.cpp` and `Client.cpp` of the chat room | `ChatRoom.cfg`, `ChatRoomProofs` |
| `RequestReply` | the TCP and the epoll communication model, the test programs of 1 and 1.2, and their clients | `RequestReply.cfg`, `RequestReplyProofs` |
| `SequenceLemmas` | no code: facts about sequences, least numbers and recursive functions that the proofs share | |

**TaskQueue.** `owner` is the holder of `_mutex`, `notFull` and `notEmpty` are the
threads blocked in the two `Condition_va::wait`, `pc[t]` the place of thread `t` and
`elem[t]` the argument of its push or the result of its pop. A step is a critical
section or a part of one between two accesses to shared state. The test of `pop`
(`PopTest`) is apart from the start of the wait (`PopWait`), because
`wakeUpAllThread` takes no mutex and can come between them. `notify_one` wakes any
waiter, and a waiter may wake by itself. On its own the module lets any number of
threads call the operations in any order, including `wakeUpAllThread` by several
producers.

**Threadpool** puts Main and the workers in place of these callers: Main goes
through `startThreadPool` (each `pthread_create` may fail), calls `addTask` for each
task of a finite set at most once, then possibly `stopThreadPool` (poll, `_isExit`,
`wakeUpAllThread`, joins). Workers run `doTask`. `sleep(1)` is a wait for the next
poll. The refinement mapping to `TaskPool` takes the waiting tasks from `que` and
the running ones from `elem` of the workers. In the mapping a task counts as
submitted once its push has happened, not when `addTask` was called.

**EventLoop.** `pending` is `_pendingFunctors`, `counter` the eventfd, `batch` what is
left of `temp_vec`, `todo` what is left of the ready events. The critical sections
have a single access each, so they are one step. Handlers of other descriptors are
open here: `HandleOther` only removes the event.

**EchoServer** fills that in. Every action of it conjoins an action of `EventLoop` or leaves
its variables alone, so what is checked and proved of `EventLoop` holds of it. The workers
use `TaskPool`'s `Enqueue`, `Dequeue` and `Release`, justified by `ImplementsTaskPool`. A
client stands for its socket and its `TcpConnection` object; the object is alive while
`conns`, the task being added, the queue or a worker refers to it, and its descriptor is
taken as long as it is alive. The kernel gives the lowest free number; when there is none,
`accept` returns -1 and the client stays in the backlog (`HandleAcceptFails`). The code then
registers -1 with epoll, which refuses it, and files a connection under -1 that no event
ever names, so nothing else changes, and the level-triggered listener is reported again.
`peer` follows what Linux reports: end of file after a close; a reset after a send to a
closed socket (a second send raises SIGPIPE, which nobody handles); a pending error when a
client closes with unread data (the next receive returns -1 once, then 0). If a functor's
connection is gone the behaviour is undefined: the process dies, nothing happens, or another
live socket gets the line; `dangling` records that it happened. `echoes` are the lines the
kernel has taken for a client and `seen` how many of these the client has received
(`Reads`); nobody has to read. The functor sends on the descriptor of its connection
(`RunSend`), and `sendn` keeps the I/O thread waiting (`SendReady`) while `OutBuffer` lines
are on their way to a client that stays. A line goes into the buffers as a whole.

**SocketIO.** A sender (`sendn`, once or twice for a message), the network, and a
receiver. `sent` is the byte stream the kernel has accepted, `arrived` and `taken`
how far the receiver's kernel and the receiver are in it; `Arrive` cuts it anywhere,
or only at message ends when `whole` holds. `version` chooses the receiver's code:
the `readline` of 1, 1.2 or 5.0, or `receiveWithPrefix`. `buffer` and `at` are the
buffer and `pbuffer - buffer`. A round of the `readline` loop is two steps, `Peek`
and what follows it; the `recvn` inside it asks only for bytes that are there, so it
is part of the second. A round that changes nothing (`recvPeek` returned 0) is no
step. Streams longer than the buffer are left out for 1 and 5.0: past its end the
code's behaviour is undefined. A line has no newline in it and, as the clients send
`strlen(buf)` bytes, no NUL; a message with a prefix may hold any byte. `Header` and
`Length` are `htonl` and `ntohl`, with `Weight[k]` for what a digit counts. A length keeps
its width: `size()` becomes a `uint32_t` (`Size`) and that the `int` which `sendn` and
`recvn` take (`AsInt`). From 2^31 on it is negative, so `sendn` sends no byte of the message
(`Payload`), and `recvn` reads none and returns what it was asked for, which
`receiveWithPrefix` believes: it returns a string of bytes that nobody wrote
(`Unwritten`). The length 2^32 - 1 is left out, since its buffer has no byte.

**BroadcastReactor.** 2.0 and 3.0 have the same loop and the same `broadcast`, so one module
stands for both and its definitions point to lines of either. `todo` is what is left of the
batch, `message` the line being broadcast, `owed` the connections the loop in `broadcast`
has not served and `recipient` the one it is at; one `sendn` is a step (`SendNext`), because
between two of them the clients go on, and because it blocks when the client's buffer is
full. A client is in `select`, or in `send` (`sending`), where it waits for room in the
server's buffer and reads nothing. `link` is as in the chat room. What 2.0 and 3.0 do
differently cannot be seen by a client: the order of the map, `shutdown` before `close` in
the destructor of 2.0 (a FIN either way), `unloop`, which is empty in 2.0 and not called in
3.0. Clients send whole lines, which are not empty (`broadcast` sends a line without its
newline, so nothing would be sent for an empty one); what 2.0 to 5.0 make of a line in
pieces is `SocketIO`'s subject.

**Broadcast** is what a chat service promises: `log`, the lines in the order the
service read them, and for each member how far it has been taken through the log.
The mapping takes `here` from `_conns`, `deaf` from the clients that have exited, and
puts a member that is still `owed` the current line one line behind the end. That a
member may only `Say` something when it is at the end of the log is the strong part:
the server must have finished one broadcast before it reads the next line.

**ChatRoom.** `clients` is the array up to `client_count`, with the idle time in place of
`last_active`; `owner` the open descriptors, `edge` what epoll has to report, `todo` what is
left of the batch. Each `recv` with the broadcast that follows is a step, each event handler
without a `recv` is one, and so is the scan. `link` follows the client's end: a send to a
closed client (`fin`) is answered by a reset (`poked`, then `pipe`), a client that exits
with something unread resets at once (`rst`), a send that meets this error uses it up
(`gone`), and a send to `pipe` or `gone` raises SIGPIPE and ends the server (`up`):
`Reached` are those whom the loop of `broadcast_message` comes to, in the order of the
array, before that. A client that reconnects is a new connection. The server writes
`buffer[len]` before it looks at `len`, so each `EAGAIN` writes the byte before the buffer;
the byte belongs to no variable the model has.

**RequestReply.** `program`, chosen in the initial state, says which of the four servers
runs, with its own client. Each server has a section of its own: its set-up, which may
fail, and its loop. A sequential server has a place `at` and a `current` connection; the
epoll server has a batch `todo`. `conn` is the server's descriptor of a connection, `link`
the client's end, as in `BroadcastReactor`; `fate` says how the server has ended. A client
program goes through its calls by itself, except that in 1 a user types the line; a client
of `Quitters` may be killed at any moment. In v1.2 the prefix and the message are
separate pieces on both ways, since a client may be killed, and a reset may arrive, between
them. `MaxFaults` bounds the failing calls. A closed descriptor is closed in the handler
of its own event, so the epoll server needs no descriptor numbers.

## Runs

| Run | Question | Bounds |
|---|---|---|
| `queue` | Does the queue respect its bound, and is nobody asleep who could work or push? | 2 producers, 3 consumers, queue of 2 |
| `pool` | Does the pool implement `TaskPool`? Does a stop drop tasks, can a worker go round on null tasks? Are all tasks run, does a stop return? | 2 workers, queue of 1, 3 tasks |
| `loop` | Are functors forgotten, repeated, reordered, left waiting? Does unloop end the loop? | 2 callers, 3 functors, 1 other descriptor |
| `echo` | Clients that close or reset at any time among others that wait: descriptors, batches, echoes; who can do harm; is every line echoed and every closed connection released, also when `accept` fails for a while? Whom can a client hold up who leaves its echoes unread? | 3 clients with 2, 1 and no line, the second may leave at any time; a worker, queue of 1, 2 descriptors, 1 line on its way to a client |
| `socketio` | Which messages come through, whole or cut, with any end of the connection? Does receive return? | seven scripts of one to three messages, among them empty ones, one with newline and NUL in it (for prefixes only), one of six bytes, negative as an `int`, and one of nine, longer than the buffer and too long for the prefix; buffer of 7; prefixes of 3 bytes with 2 values; 4 calls |
| `broadcast` | Is the reactor a chat service with a single log? Does a broadcast end, is every line said? | 3 clients with 2, 1 and 1 lines, one of whom may exit, buffers of 1 line in each direction |
| `chat` | Do array, descriptors and epoll agree? Which connections are closed with something unread? Do clients hear each other in order, and without a gap while no send falls short? Does anybody wait for ever? Is the idle scan exact? | 2 users with 3 connections for a room of 2, 3 units, of which `recv` takes up to 2, sockets that hold 1, `Timeout` 0 |
| `requests` | Does everybody get his whole answer? What ends each server? Does a server that is up serve everybody, and close what it opened? | 3 clients, of whom 2 may be killed, 1 failing call |
| `pool_stop`, `echo_dangling`, `echo_reset`, `socketio_cut` | counterexamples, below | |

Three consumers let one be woken, one arrive and one sleep at the same time, and two
producers do the same on the other side; a third of them only repeats a role. A queue of one
or two is full and empty within a few steps. In `echo` three clients on two descriptors give
a failing `accept`, and reuse: the next accept gets a number back exactly when its
connection has died, while another is open. The third client sends nothing and only takes a
descriptor. Three lines are enough for a task to be with the worker, one in the queue of
one, and one waiting for room, and two of them from one client for its second echo to meet a
full buffer, with an echo for another client behind it. The client that may leave has one
line, so it never leaves with its buffer full: there `SendReady` is covered by the proofs
only, which are about safety. Several workers meet in the queue and in `run_in_loop` only,
which `pool` and `loop` check with two, and the proofs with any number. `echo_dangling` and
`echo_reset` need only two clients. `Lines` and the sets of tasks and functors are the only
caps on counters. Symmetry is used in `queue` only, which checks no liveness, on threads,
which the module only compares.

In `socketio` the stream is cut at every byte, and seven bytes of buffer hold every line but
one, which makes 1.2 fill its buffer. A prefix of three bits makes 4 and more negative as an
`int`, so the message of six bytes meets both conversions, that of nine is sent as one of a
single byte, and the lengths below 4 need both lower digits. In `chat` a room for two is
full when a user who has left comes back before the server has noticed, and the third
connection is turned away or given a descriptor that was in use; with `Timeout` 0 a second
of silence is too long, and both clients may be idle in one scan. A gap needs three units,
of which the middle one is missing; a socket that holds one makes sends of two fall short,
so that such gaps do occur, to clients in `dropped`. In `broadcast` three clients are needed
to compare what two hear of a third; four lines let a client jam, and let two lines meet a
client that has exited, which kills the server. Any number of clients may exit in the code;
one here keeps the run short, and `Leavers` is the bound.

In `requests` a sequential server has one client at hand while a second waits and a third
comes; two of them may be killed, so one always has a claim to be served after both. One
request for each client is what the client programs of 1.2 and the communication models
send; a user of 1 may type more, but the server has closed after the first line.

Deadlock is checked, except where the program may really stop: a stopped pool, or
one with no worker (`pool_*`), and a process killed by SIGPIPE or with its I/O
thread stuck (`echo`, `echo_dangling`, `echo_reset`), or when the senders and
clients have nothing more to say (`socketio`, `socketio_cut`, `chat`, `broadcast`, `requests`).

Fairness. Threads keep running (weak fairness of each thread's steps), which assumes that
the tasks of `Threadpool` and the functors of `EventLoop` return. A thread that waits for
the mutex gets it if it is free again and again (strong fairness of the lock steps):
spurious wakeups could otherwise keep it from a thread for ever. In `EventLoop` every
critical section is a step, and weak fairness is enough. In `SocketIO` the loops of `sendn`
and `recvn` and the network go on; in `ChatRoom` only the server does: with fairness for the
clock the kick of an idle client would hide a message that is never read. In
`BroadcastReactor` the server and the client programs run: a client that is not in `send`
reads what has come, which its `select` loop does without its user. In `RequestReply` the
server and the client programs run, but not the users of 1, and nobody has to connect or be
killed. In `EchoServer` the threads of the server run, but for their waits, and the clients
need do nothing. A client that stays keeps its descriptor, so `CatchesUp` lets another wait
as long as those who stay hold all of them (`Crowded`); and a client that stays and stops
reading with its buffers full keeps the I/O thread in `sendn`, which `CatchesUp` names as
the one other way for the server to stop (`WaitsFor`). Callers, clients, stops and spurious
wakeups are under no fairness.

### What the violations show

* `pool_stop`: a worker tests `empty() && !_is_stop`; Main sets the flag and
  broadcasts; the worker starts to wait. It is never woken again and `join` hangs.
  `StopReturnsUnlessMissed` shows that this is the only way. Taking `_mutex` in
  `wakeUpAllThread` would close it.
* `echo_dangling`: the client closes after sending; the I/O thread erases the
  connection, the worker posts the functor and drops the last reference, and the
  functor runs on a destroyed object. `PatientSafe` shows that it takes a client that
  closes without waiting for its echoes.
* `echo_reset`: `isClosed` takes the -1 of a reset connection for "open" and
  `readline` then loops on zero bytes for ever.
* `socketio_cut`: a line comes as two pieces; 5.0 takes the first, peeks the second
  into the *start* of its buffer and looks for the newline behind the first. It
  overlooks the newline and goes on reading into the next lines. `LinesInOrder` and
  `ReceiveReturns` show that 5.0 is right when lines arrive whole, and version 1 always.

More weaknesses follow from the models, without a run of their own. A `stop` of 5.0 while
the server is starting is overwritten by `_isLooping = true`; `UnloopEnds` leaves it out
with `iopc # "starting"`. In 2.0 and 3.0 server and client can wait for each other for ever,
each in a blocking `send` to the other with both buffers full: `Jam` describes this state,
which is reached with two lines from the client and two to it, and `EveryLineSaid` shows
that apart from SIGPIPE it is the only thing that keeps a broadcast from ending. In 5.0 the
same blocking `send` lets one client that does not read keep the I/O thread, and so
everybody, waiting (`WaitsFor`): the run `echo` reaches it, and `CatchesUp` shows that
nothing else stops the server but SIGPIPE, the endless `readline` and a functor that has
outlived its connection. In the chat room a client's text can be closed unread in three
ways, which `ReadBeforeClosed` names: no room, an idle time that is over, or a reset. The
reset that passes for an open connection (`echo_reset`) stops the single thread of 2.0 and
3.0 in the same way (`stuck`). In all versions `readline` goes round for ever when the
connection ends in the middle of a line (nothing is taken, nothing changes), so
`ReceiveReturns` asks for the end of the line; and the deprecated `readline` of 1.2 returns
the length of the last piece only, so `LinesInOrder` holds for it with whole lines only.
`receiveWithPrefix` has neither (`FramesExact`, `ReceiveReturns`), but a message of 2^31
bytes or more comes out as a string of that length which nobody wrote; the next message is
still read rightly, since `sendn` sends none of it.

`Survives` lists what ends each small server. The test program of 1 has a case for a closed
connection (`Reactor_Version_1_Test.cpp:21`) that it never reaches, since `readline` does not
return: a client that leaves without a line stops the server for all others. A client of
1.2 that leaves between its request and the answer can kill the server, because the answer
is two sends and the first may be answered by a reset. The TCP server closes its listening
socket when one `accept` fails. `Acceptor::ready` goes on when `bind` fails, so 1 and 1.2
then listen at a port nobody knows. The epoll server has none of this.

Each property of a passing run has a faulty variant of a definition beside it in
the module (named in `PROJECT.json` under `mutants`) under which TLC finds the
property violated.

## Proofs

Each `...Proofs` module holds the theorems about one component, for every value of its
constants that the `ASSUME` of the module allows. Those assumptions say that sets are
finite or disjoint and that sizes are natural numbers, at least 1 where the code has at
least 1: no bound of a run is among them. The proofs of `RequestReply` and `ChatRoom`
cover any number of clients, connections, lines and failing calls.

A property is proved from an inductive invariant (`Inv`; in `TaskQueueProofs`, and for
the event loop, its parts one after the other), with one lemma for each action or group
of actions that change the same variables. TLC checked each `Inv` on the constants of the
component's run before it was proved. The properties that the runs
check are parts of `Inv` or follow from it. `SequenceLemmas` has the facts about appending,
taking the first element, cutting out a part, least numbers and recursive functions that
several proofs need; `Range` and
`IsInjective` are those of the community module `Functions`.

**`TaskQueueProofs`**

1. `TypeInv`: types, and a producer inside push carries a task;
2. `MutexOK`, relative to 1: a thread is between lock and unlock iff it is the owner;
   threads are in a wait set only inside the wait; a consumer about to sleep has an
   empty queue. This is what makes the next two inductive: between `PopTest` and
   `PopWait` nobody can push;
3. `CapacityRespected`;
4. `NoSleepingOnWork` and `NoSleepingOnSpace`, relative to 1 and 2, by counting: the
   set of awake consumers (producers) grows by one when a push (pop) notifies, loses
   one when a pop (push) takes an item (slot), and a thread goes to sleep only when
   there is nothing to take. `Covers`, `CoversOneMore` and `CoversAllButOne` are the
   facts about cardinalities it needs. These two are inductive relative to the first
   two parts, as stated.

**`ThreadpoolProofs`.** A submitted task is in the queue, in one thread's hands or done, and
nowhere twice (`Accounted`, `OnePlace`); the flags are set in the order `_isExit`,
`_is_stop` (`FlagsOK`); once Main has seen an empty queue it stays empty, and a thread that
is not running has left its loop or never got there (`StagesOK`). `StopDrains` and
`NullMeansExit` follow. `PoolRefines` then takes each step to one of `TaskPool`: the end of
a push is `Submit`, the pop of a task is `Start`, its end is `Finish`, the return of
`stopThreadPool` is `Stop`, and every other step changes nothing the mapping shows. `Start`
needs the invariant to know that the worker's hands are empty, `Stop` that no task is left.

**`EchoServerProofs`** begins with the event loop by itself, from no assumption on the
constants: `LoopTypeOK` (checked as a part of `TypeOK` in `echo`), then `WakeupNotLost` and
`OnceInOrder` (with the library's facts on concatenation), for any callers, functors and
descriptors. Then the server. `EchoUsesLoop` shows first that every step of the server is a
step of `EventLoop` or leaves its variables alone, so the three results on the loop hold of
the server, too (`EchoLoopCorrect`). `Inv` adds where a line is (`LinePlaces`: the last
lines of a client are in its socket, what was read is one task, is posted once by the worker
that has it, is pending, in the batch or has been run) and where a client is
(`ClientPlaces`). From the first follows `EchoIntegrity`; the second holds `FdsUnique` and
`BatchFresh`, which are inductive only together with the rule that an accepted number is
nobody's. `PatientSafe` is part of `Inv`. Its hard step is a functor that runs on a
destroyed connection: the client's lines are `1 .. sent`, this one has been posted and not
run, so the echoes are fewer than the lines (by counting), and the client has closed without
having received them all. The same count says it of a client that resets its connection by
closing it with something unread (`ResetImpatient`). That a functor's line goes to its own
client, although `RunSend` goes by descriptor, rests on `FdsUnique` (`SendsToOwner`).

**`BroadcastProofs`.** `Inv`: a client is unknown, in the backlog, in `_conns` under one
descriptor, or gone; the log has the first lines of a client and its socket the next
(`Numbered`); what is being broadcast is the last line of the log. `BroadcastRefines` takes
`HandleNewConnection` to `Join`, `HandleLine` to `Say`, each `sendn` to `Deliver`, an exit
to `HangUp`, `HandleClose` to `Leave`, and shows that all else changes nothing of the
service. That a member who says something has heard the whole log is where it uses that
`broadcast` is finished before the loop goes on.

**`RequestReplyProofs`.** For each client, the two ends of its connection agree (`Sides`),
its socket holds all it has sent or nothing (`Pieces`), and it has nothing, the prefix or the
whole of its answer, by what the server has done (`Answered`). For the server, what it is
busy with (`Accepting`) and what it has received (`Answering`). `WholeAnswers` needs all of
it, in all four programs at once; `Survives` is part of it.

**`ChatRoomProofs`.** `Inv` has `ArrayMatches` and `NewsNotLost` as the runs check them;
`Batched`, a batch that names a descriptor once, so that handling an event closes the
descriptor of no event to come; `Filed`, where connections are; `Streams`, bounds on what is
unread; and `Heard`, a stronger form of `HearsGapless`: while the server lives, a client is
connected and no send to it came back short, what it has heard of another reaches to the
last unit that the server has read (`Gapless`). Without this the next message could leave a
gap. Two steps need an argument of their own. `accept` finds a free number because there is
one number more than clients in a full array (`FreeDescriptor`, by counting). The scan is a
fold over the array it shortens: `ScanAll` shows, for every number of visits made, that
those visited and kept are the ones that were not idle too long, and that those not visited
are still in their places, which is where visiting them from the back matters. `ScanExact`
is an action property and follows for every step, as only the scan goes from `dispatch` to
`wait`. `ReadBeforeClosed` is one, too, and needs two more invariants: a connection in use
that nobody has left is open at both ends (`Leavers`), and an error in the batch is that of
a connection that has been reset (`Errors`).

**`SocketIOProofs`**, for any messages, any sizes of the buffer and of the prefix, and any
number of calls. `Inv` says which part of the stream each thing holds:

* `Sending`: the receiver's and the sender's kernel have a first part of the stream
  (`sent`); the running `sendn` has the next bytes up to the end of a message, and the
  messages after it wait;
* `Arriving`: `taken`, `arrived` and the length of `sent` are in this order, and when the
  network keeps messages whole, what has arrived ends with one;
* `Places`: the receiver's program counter, and `pbuffer`, which stays in the buffer (`Reset`
  apart, see below) with the bytes peeked behind it;
* `Pieces`: in 1 and 1.2 the bytes before `pbuffer` are those of the line so far, the bytes
  peeked are the next ones, and none before `pbuffer` is a newline;
* `Received1`, where `LinesInOrder` promises something: the lines received are the first
  ones sent, and the next begins at `taken - at`;
* `Framing(n)`, for prefixes: n messages have been received, each as `Delivered` (the message
  itself, or unwritten bytes from 2^31 on); the prefix or the message being received is a
  first part of the next (`Synced`), or the connection has ended, the next message has not
  arrived completely, and nothing but empty messages follows.

A `readline` that has used up the error of a reset connection never leaves its loop
(`echo_reset` shows it in 5.0); the error has moved its `pbuffer` back by one, perhaps to
before the buffer, so `Inv` says of this state (`Reset`) only where the receiver is and that
nothing more comes. Three arguments carry the
proof. The first newline behind the
line so far is the end of that line (`FirstNewline`), because the message has none in it. In
1.2 and 5.0, where `LinesInOrder` needs whole lines, a peek gets the whole of the next line
(`taken + need` reaches its end in `Received1`): otherwise it would return a piece. And
`HeaderReceived` needs to know that the length read is the size the sender wrote: that is
`LengthOfHeader`, an induction along the bytes of the prefix by Horner's rule; `SizeValues`
says what the conversions to `int` and back then make of it.

About recursion. The library's induction theorems cannot be used here, since they take an
operator as a parameter. A statement about every `n` is proved from the least `n` for which
it fails (`LeastNumber`, and `UpTo` for the numbers up to a bound, in `SequenceLemmas`): this
reaches recursive functions and folds of sequences (`FoldSteps` unrolls `FoldLeft` from its
definition). A recursive function is the `CHOOSE` of one that satisfies its equation, so the
equation can be used only when such a function exists: `Recursion` says that it does when
each value is a function of the one before. From it follow the equations of `Weight`,
`Length` and the community module's `FlattenSeq` (`WeightSteps`, `LengthSteps`,
`FlattenSteps`). This would not reach a `RECURSIVE` operator, and the modules have none.

Only model-checked: all liveness properties (`AllTasksRun`, `StopReturnsUnlessMissed`,
`FunctorsRun`, `UnloopEnds`, `CatchesUp`, `ReceiveReturns`, `EveryLineSaid` and
`EverybodyServed`), as liveness under fairness is out of the prover's reach. Every invariant
and every action property of a passing run has a theorem, and so has every refinement.

## Not modelled

Socket options, logging, address formatting; the set-up of the reactors and of the chat room
(`RequestReply` has that of the small servers); partial lines in `EchoServer` and
`RequestReply` (they are `SocketIO`'s subject); a failing `accept` in `BroadcastReactor`
(the same code as in 5.0) and in `ChatRoom` (which only prints and goes on); more than
`MAX_EVENTS` ready descriptors at once; a failing `new`; a message of 2^32 - 1 bytes;
`TcpConnection::shutdown` and, in 2.0 and 3.0, `unloop`, which nothing calls; a second
request in a client of the epoll model, which its program does not send. The endianness demo
keeps no state and has no operation: it prints the bytes of one integer and ends, so there
is nothing to check of it; the byte order of the length prefix is in `SocketIO` (`Header`,
`Length`).

## Plan

1. *(done)* `TaskQueue`, `Threadpool` and `TaskPool`, `EventLoop`, `EchoServer`; proofs of the
   queue and of the loop.
2. *(done)* `SocketIO` with the length prefixes of 1.2; `ChatRoom`.
3. *(done)* `BroadcastReactor` and `Broadcast`.
4. *(done)* `RequestReply`; the failing `accept` in `EchoServer`; 4.0.
5. *(done)* Proofs: `Threadpool` with the refinement of `TaskPool`, `EchoServer`,
   `BroadcastReactor` with the refinement of `Broadcast`, `RequestReply`, `ChatRoom`.
6. *(done)* Proofs: `TypeOK`, `PiecesAssembled`, `LinesInOrder` and `FramesExact` of `SocketIO`.
