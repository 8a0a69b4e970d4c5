# A verification project for suduo

suduo is a C++ network library: one event loop per thread, non-blocking
sockets, timers, and a few thread utilities. This directory holds TLA+ models
of its loops, connections, clients, threads and logger, the TLC runs that check them on small instances, and
TLAPS proofs of the properties that matter most. `PROJECT.json` lists every
component, run, mapped definition, hazard, finding and theorem; this file says
what they mean.

Run a model with `tlc -config X.cfg M`, check a proof module with `tlapm M.tla`.

## 1. Inventory

| Component | State | Operations | What is hard | What makes it correct |
|---|---|---|---|---|
| `net/EventLoop` | `_running`, `_pending_functors` (mutex), `_calling_pending_functors`, eventfd | `loop`, `quit`, `run_in_loop`, `queue_in_loop`, `wakeup` | other threads queue and quit at any point of the loop; the wakeup is a separate system call | no functor and no quit is slept through; functors are run once, in order |
| `net/EventLoopThread` | `_loop` (mutex, condition), the thread | `start_loop`, `thread_func`, destructor | the loop is an object on the new thread's stack; the destructor reads `_loop` without the mutex | pointer never dangles, start and destruction complete |
| `net/TimerQueue`, `Timer` | `_timers`, `_active_timers`, timerfd | `add_timer`, `cancel`, `handle_read` | callbacks add and cancel timers while the map is being walked | timerfd armed while timers wait, each timer run, not twice and not early |
| `net/TcpConnection`, `Channel` | `_state`, channel's events, output buffer, socket | four event handlers, `send`, `shutdown`, `force_close`, `start_read`, `stop_read`, `connect_established`, `connect_destroyed` | events, functors, timers and calls of other threads for a connection that is being torn down | closed once, callbacks paired, freed Disconnected and out of the poller, no output lost |
| `net/TcpServer` | `_connections` | `new_connection`, `remove_connection`, destructor | a connection hops base loop → I/O loop → base loop → I/O loop | every removal finds its connection, dead connections are freed |
| `net/Poller`, `EPollPoller`, `PollPoller` | tables of channels, kernel's interest set | `poll`, `update_channel`, `remove_channel` | the last entry moves into the gap of a removed one; descriptors are used again; the two differ in what they report for a channel with no events | a channel is disabled before it is removed, the kernel is asked for what each channel wants, and reports go to the channel that owns the descriptor now |
| `base/Mutex`, `Condition` | pthread mutex, `_holder` | `lock`, `unlock`, `wait`, `notify` | `_holder` is written outside the lock | — |
| `base/ThreadPool` | `_task_queue`, `_running` | `start`, `run`, `stop`, workers | lost wakeups on two conditions, stop racing waits | tasks run, queue bounded, everybody returns |
| `net/Connector`, `TcpClient` | `_state`, `_connect`, channel, retry delay; `_connection` | `start`, `stop`, `restart`, `retry`; `connect`, `disconnect`, destructor | retry timers and functors overlap start and stop; late answers of the network; the destructor during any of it | one attempt at a time, each socket closed once, a wanted connection made |
| `net/Acceptor` | listening socket, idle fd | `listen`, `handle_read` | running out of descriptors | — |
| `net/EventLoopThreadPool` | loops, `_next` | `start`, `get_next_loop` | — | round robin |
| `net/Buffer` | vector, two indices | `append`, `retrieve`, `prepend`, `make_space`, `shrink`, `read_fd`, integers in network order | index arithmetic | contents kept |
| `base/AsyncLogger`, `LogFile` | current, next and full buffers; count, day and size of the file | `append`, `thread_func`, `start`, `stop`; `append`, `roll_file`, `flush` | exchange of buffers with a thread that may fall behind; a buffer that never fills | order kept, nothing lost or duplicated but whole dropped buffers, all flushed in the end |
| `base/CountDownLatch`, `BlockingQueue`, `BoundedBlockingQueue`, `CircularBuffer` | counter; queue, ring | wait, push, pop, drain | one notify for several waiters, spurious wakeups, wrapping indices | FIFO, nobody sleeps beside what he waits for |
| `bench/http` | parser state, input buffer | `parseRequest`, `onMessage`, `onRequest` | input cut anywhere, several requests at once | one answer per request, whatever the cut; the parser's loop ends |
| `base/Logger`, `LogStream`, `Timestamp`, `net/InetAddress`, `SocketOpt`, ... | — | formatting, conversions, system calls | — | — |

Interaction: everything that is not on a loop's thread reaches it through
`queue_in_loop()`; a loop's thread calls channels' handlers, which call the
user's callbacks, which call back into connections, timers and loops. An
`EventLoopThread` owns an `EventLoop`; `TcpServer` uses one base loop and the
I/O loops of an `EventLoopThreadPool`. `TcpClient` and its `Connector` share one
loop with their connection. `Logger` hands records to `AsyncLogger`, whose
thread owns the `LogFile`.

## 2. Modules

Conventions. Variables and actions keep the names of the code. An operator
whose name contains `__` (`drained__clear`) is a *faulty variant*: a plausible
mistake in the definition without the suffix. No specification uses it; the
project substitutes it for the definition to show that a property notices.

| Module | Models | Notes |
|---|---|---|
| `SerialExecutor` | (abstract) | what a loop promises to those who queue functors: a FIFO, each functor run once |
| `EventLoop` | `net/EventLoop` | each access to shared state is a step: the test of `_running`, the return of `poll`, the swap, each functor; `queue_in_loop` and `quit` are followed by a separate `wakeup` |
| `EventLoopThread` | `net/EventLoopThread` | extends `EventLoop`: the whole loop runs inside `thread_func` |
| `EventLoopProofs` | | theorems about `EventLoop` and `EventLoopThread` |
| `TimerQueue` | `net/TimerQueue`, `net/Timer` | the loop thread only; time in units of 100 µs, the least delay the timerfd is armed with |
| `TimerQueueProofs` | | theorems about `TimerQueue` |
| `TcpConnection` | `net/TcpConnection`, `net/Channel`, what both pollers report | no variables: a record per connection, and each handler a function from the record to the new record, functors to queue, and calls that follow |
| `IoLoop` | a loop as its connections see it | extends `TcpConnection`: polls, dispatches, takes the batch of functors and runs it; relies on what `EventLoop` is shown to give |
| `IoLoopProofs` | | lemmas that the next two share: the sequences of tasks of a loop, and what each handler of a connection changes |
| `TcpServer` | `net/TcpServer`, `net/Acceptor`, other threads, peers | extends `IoLoop`, and adds the base loop |
| `TcpServerProofs` | | theorems about `TcpServer` and the connections it owns |
| `Client` | `net/Connector`, `net/TcpClient`, the network | extends `IoLoop`: connector, client and connection on one loop |
| `ClientProofs` | | theorems about `Client` |
| `Monitor` | `base/Mutex`, `base/Condition` | the stages of a thread in a class protected by one mutex |
| `ThreadPool` | `base/ThreadPool` | extends `Monitor` |
| `ThreadPoolProofs` | | theorems about `ThreadPool` |
| `AsyncLogger` | `base/AsyncLogger`, `base/LogFile`, `FileAppender`, `CountDownLatch` | front ends, the thread, the owner and the clock |
| `AsyncLoggerProofs` | | theorems about `AsyncLogger` |
| `Buffer` | `net/Buffer` | each method an operator on a record, and a machine that calls them in any order |
| `HttpServer` | `bench/http`: parser, server | extends `Buffer`: the input buffer is the real one |
| `Pollers` | both pollers' tables, `Channel`'s index | the kind of poller is chosen at the start |
| `Queues` | `BlockingQueue`, `BoundedBlockingQueue`, `CircularBuffer` | threads that wait are counted |
| `StructuresProofs` | | theorems about `Pollers`, `Queues`, `Buffer` and `HttpServer`, and the lemmas on induction |
| `MC*` | | instances for TLC; `MCStructures` explores the last four and `ThreadPool`, one at a time |

### EventLoop

`pc` is where the loop thread is: `idle` (before `loop()`), `test`
(`while (_running)`), `poll`, `dispatch` (the for loop over channels), `user`
(in a callback or a functor), `drain` (the for loop over functors), `exited`.
`pending` and `batch` are the two vectors, `wakeups` the eventfd's counter,
`waking` the threads between their change of the shared state and
`wakeup()`. `executed`, `inlined` and `early` are history: functors run from
the queue, functors `run_in_loop()` ran at once, and functors the loop thread
queued before `loop()`. Functors are model values, each queued at most once;
channels other than the eventfd are one channel `io`.

### EventLoopThread

`opc` and `wpc` are the program points of the owner and of the thread,
`loop_ptr` is `_loop` (null or not), `mutex` its holder. `Settled` restricts
the environment: the owner destroys the object only after a functor of the
loop was run, so that `loop()` has certainly set `_running`. `Quitter` are the
threads that may call `quit()`.

### TimerQueue

`timers` is the ordered map (a set of `<<expiration, id>>`), `active` the index
by id, `fd` the time at which the timerfd becomes readable. `handle_read()` is
split at the callbacks: its start, the call of one callback, its return, its
end; between call and return user code may `run_at`, `run_every` and `cancel`.
`_canceling_timers` is left out: `cancel()` always queues, so `cancel_in_loop()`
never runs inside `handle_read()` and the set stays empty. `aborted` is history:
the assert at the start of `insert()` did not hold (`sizes_agree`), and a build
with asserts would have stopped there; the default build is `Release` with
`NDEBUG` and goes on. `CallbackDelays` are the delays callbacks may ask for. The calls of
`add_timer()` from other threads are left out: it changes both maps without a
lock, a data race without outcomes to enumerate.

### TcpConnection and TcpServer

A connection's record holds `_state`, the events its channel is enabled for,
whether it is registered, the number of bytes in the output buffer, the peer's
state, and counters of callbacks. `Revents` says what the poller reports:
epoll keeps reporting a hang-up for a channel with no events, poll does not,
because `PollPoller` negates the descriptor. `handle_event` is
`Channel::handle_event_with_guard`. `todo` is the I/O thread's remaining work
in the handler it is in; functors are tagged as holding a `shared_ptr` or a raw
`this`, and a connection is freed when nothing owns it. All connections share
one I/O loop, which is the base loop itself when `IoIsBase`. `write()` accepts
any number of bytes, none included; data are byte counts. `delayed` is one boolean
for all the timers of `force_close_with_delay()` on a connection: each of them
does nothing once the connection is closed.

`IoLoop` holds `conn`, `pending`, `batch`, `phase`, `revents`, `todo` and
`kept` (the connections that functors of the running batch still point to).

### Client

The `Connector` is one record (see the module's header) and each of its methods
an operator that returns the new record, the functors it queues and the calls
that follow. `connector.failed` collects the asserts that did not hold, so that
they are stated as an invariant; `made` and `closed` count sockets. A connect
is answered by `net_answers` (up, refused, or connected to itself), or fails at
once (`Outcome`: worth a retry, or not). The write event of a connect that was
refused carries an error, so `handle_error()` runs before `handle_write()`.
`retry_expired` is a retry timer, `keeper_expired` the timer with which
`~TcpClient()` keeps the connector alive for a second. The TcpConnection a
client owns is `TcpConnection`'s, with all of its handlers; `rebound` are those
whose close callback `~TcpClient()` has replaced. `disconnect` is called on any
thread: on another than the loop's, `shutdown()` tests `_state` and sets it in two
steps between which the loop may close the connection (`shutdown_away`).
`destroy_client` is the destructor as the passing run has it called;
`destroy_away` (on another thread: the new close callback is only queued, and
`set_close_callback` is that functor) is part of `AwaySpec` only.

### Monitor and ThreadPool

A critical section is one step, since everything it touches is protected by the
mutex, but taking the mutex is a step of its own, and so are sleeping and
waking. `_running` is read outside the mutex and that read is a step. Tasks are
numbered in the order of the calls. `_holder` is left out: `unlock()` clears it
after the mutex is free, so that it may be 0 while another thread is inside;
only `assert_locked()` looks at it.

### AsyncLogger

A record is its number and takes one unit of a buffer. Each critical section is
one step, cut at `time_wait()`; writing a buffer to the file, the refill of the
spares, the test of `_running` and the notification of `stop()` are steps of
their own. `log` is the `LogFile` with everything written to any file (`data`)
and how much of it has left the stdio buffer (`flushed`). Errors of `fwrite()`
are left out. The notice of dropped messages is record 0. `dropped`, `starved`
`log.late` and `log.worst` (appends to the open file after its day, and the most of
them any file took, the append that rolls it included) are history.

### Buffer, HttpServer, Pollers, Queues

`Buffer`: `store`, `read_index` and `write_index`; a byte is a binary digit.
`HttpServer`: bytes are symbols (a CR, an LF, a request or header line without
its end), which TCP may cut at any place; a turn of the loop of `parseRequest()` is
the function `turn_of_loop`, and the loop a recursive function over as many turns
as it can have, and one more. `Pollers`: `chan[ch].index`,
`_channels`, `_poll_fds` with negated descriptors, and the epoll set; the
asserts of `PollPoller` on its tables are collected in `asserts`; the one on its
caller (line 94: the channel is disabled) is `RemovedDisabled` of `TcpServer`. `Queues`: `waiting` and
`woken` count the threads of each side on the conditions.

## 3. Runs

| Run | Shows |
|---|---|
| `loop` | The loop inside its `EventLoopThread`, with the owner, another thread and the loop's own, three functors and up to three quits, under `Settled`. `poll()` never sleeps on a waiting functor or a cleared flag (`NoStrandedFunctor`, `QuitWakesPoll`); the two vectors implement `SerialExecutor`; a turn runs only what was queued before it (`BatchOnlyShrinks`); functors run although the 10 s poll timeout need never expire (`PromptExecution`); `_calling_pending_functors` is exact (`TypeOK`); `start_loop()` and the destructor return, and the published pointer never dangles (`StartReturns`, `DtorReturns`, `PublishedLoopAlive`). |
| `thread_join` (violated) | Without `Settled` the destructor can hang: `quit()` before `loop()` is overwritten by `_running = true`. |
| `timers` | Deadlines in the past, now and later, timers added and cancelled anywhere on the loop thread, without asserts: the timerfd is armed (`TimerFdArmed`), cancellation is final, one-shot timers run once, the maps differ only by timers added behind the walk (`IndexAgrees`), every other timer runs, though it may be early (`EventuallyRun`), and the walk's iterators stay valid (`IteratorsValid`). |
| `timer_lost` (violated) | The first callback of a pass adds a timer behind the walk's position (a past deadline): the asserts of `insert()` hold, and the one at the end of the next `cancel_in_loop()` fails (`CancelSizes`). |
| `tcp` | Two connections on one epoll loop; users send, shut down, stop and start reading; the server is destroyed between two callbacks. Every removal finds its connection, nothing freed is in the poller, no output is cut off, no `shutdown()` forgotten. |
| `tcp_threads` | One connection on an I/O thread with `PollPoller`, forced closes (immediate and delayed), a third thread that sends; closed once, up and down callbacks paired (`CallbacksPaired`), its channel disabled before it is removed (`RemovedDisabled`), freed `Disconnected`, and freed once its peer is gone. |
| `tcp_hup` (violated) | With epoll and an I/O thread the hang-up is reported again before `connect_destroyed()` has run: the connection is closed twice. |
| `tcp_destroyed` (violated) | A server destroyed while a connection is half closed: `connect_destroyed()` passes over a `Disconnecting` connection, which is freed in that state (`FreedDisconnected`), without a down callback. Its channel is removed enabled, against `RemovedDisabled` and an assert of `PollPoller`. |
| `client` | A client that retries, with refused, failed and self-connected attempts and lost connections, stopped, disconnected from any thread, and destroyed on its loop's thread: all asserts of `Connector` (its destructor's too) and `TcpClient` hold and no channel is destroyed while the poller knows it (`AssertionsHold`); each socket is in one place or closed once (`SocketsConserved`); a wanted connection is made (`EventuallyConnected`); a destroyed client leaves nothing (`DestroyedIsReleased`). |
| `client_away` (violated) | A client destroyed on another thread, as `TcpClient_reg2` and `TcpClient_reg3` do: a close that comes before the queued `set_close_callback()` calls the destroyed client (`CalledBackAlive`). |
| `log` | Files, buffers in flight, full buffers and the current one hold the appended records in order, but for dropped buffers (`LogConserved`); the thread never takes a spare from an empty vector (`BuffersSuffice`); a file takes at most `_check_every_N_times` appends after its day, the one that finds the day over and is written before the roll included (`DayRolled`); every record is flushed while the logger runs (`EventuallyFlushed`). |
| `structures` | Any sequence of calls on a `Buffer` keeps its bytes (`BufferHoldsBytes`); the HTTP server's answers are those a reference reading of the text calls for, however it is cut, and its parser's loop ends on whatever arrives next (`RequestsConserved`); both pollers agree with their channels (`PollerAgrees`); the blocking queues are FIFOs in which nobody sleeps beside an item or a place (`QueueDelivers`). In a `ThreadPool` no wakeup is lost on either condition, also with a wait that returns spuriously: while a worker sleeps every queued task has a worker on its way (`NoIdleWorker`), and likewise producers and free places (`NoIdlePlace`); tasks run and `stop()` returns (`EveryTaskRuns`, `StopReturns`). Each part moves on its own: `turn` says which. |

### Restrictions the passing runs need

They are conditions on how the code is used; outside them the code misbehaves.

* `loop`: destruction waits until the loop is known to run (`Settled`; else
  `thread_join`), and nobody quits the loop before `start_loop()` has seen it: a
  functor that does leaves `start_loop()` waiting for a pointer that was cleared again.
  Two states the model reaches are not excluded by any property. After a `quit()`
  that is not the destructor's, the destructor may read the null that
  `thread_func()` has just stored, skip the join and destroy a mutex that is still
  held (`Mutex.h:37` asserts that it is not). And the `wakeup()` of any `quit()` may
  come after the end of the loop, and touch a destroyed object: the comment at
  `EventLoop.cpp:102` says so.
* `timers`: a build without asserts, the default. With asserts it stops at
  `TimerQueue.cpp:123`, in `insert()`, when a callback other than the first of a
  pass adds a timer, since `handle_read()` takes what it has run out of the index at
  once and out of the map in the end (`aborted`). Calls on the loop's thread; the
  properties except the timers named by `lost`. That timers are run in time is not
  claimed: one added in a callback ahead of the walk's end is run in the same pass,
  before its deadline, and how late others are depends on what else the loop does.
* `tcp` leaves out `force_close()`: with epoll a hang-up that arrives before the
  queued functor is run leads to a second close. The server is not destroyed
  while channels of the same poll wait to be dispatched, and users do not start
  or stop reading once it is destroyed. `CallbacksPaired`, `FreedDisconnected` and
  `RemovedDisabled` do not hold there: `tcp_destroyed` shows why.
* `tcp_threads` leaves out `start_read()` and `stop_read()`, which do not look
  at `_state` and may register the channel of a closed connection again, and
  lets the third thread only send: a `shutdown()` that tests `_state` and stalls
  overwrites `Disconnected`. The functor of that `send()` holds
  a raw `this` and may run on a freed connection; the model reaches it, and no
  property is about it.
* `client`: `connect()` is called only while the connector is `Disconnected`
  and has neither a timer nor a functor pending; otherwise `start_in_loop()`
  fails its assert (after a connection was lost without retry the connector is
  still `Connected`), or two attempts overlap. The client is destroyed on
  its loop's thread (else `client_away`) and not in a timer callback: there
  `TimerQueue` may run the timer that is to keep the connector for a second in the
  pass that adds it, before the queued `stop_in_loop()`, and `~Connector()` fails
  its assert. With a connection it is destroyed only if it holds the last pointer to
  it and nothing is queued for the connector: else the connection is freed while
  open, or a functor runs on a freed connector (`FIXME: unsafe` in the code).
  Otherwise turns of the loop are shorter than a retry delay (500 ms) and the
  keeper's second, so that a `reset_channel()` is run before the retry timer set with
  it, and a `stop_in_loop()` before the keeper. A `disconnect()` on another thread
  may leave a closed connection `Disconnecting`, in which state it is freed, against
  the assert of `~TcpConnection()`; the properties of this run hold nevertheless.
* `log`: `append()` is not called after `stop()` has returned. What is appended
  between the thread's last swap and its end is never written: `LogConserved`
  counts it as still in a buffer.
* `structures`: the guards named in the modules' headers, which are duties of
  the callers (that a channel is disabled before it is removed is none of them:
  `tcp_destroyed` shows a caller that breaks it). `~Acceptor()` of a server that was never started breaks one: its
  channel's first update enables nothing, and with `PollPoller` the assert at
  `PollPoller.cpp:101` fails. HTTP request lines with a known method and a broken
  rest are left out: parsed again, they fail the assert of `setMethod()`.
* the pool: producers call `run()` after `start()` has returned, and tasks do not
  call `run()`.

### Bounds

Each is a named constant. `loop`: three functors let one run while one waits
in each vector; two quits let one race another, and a third is the destructor's;
two foreign threads let two `wakeup()`s overlap. `timers`: three timers are one that fires, one that a
callback adds behind or before the walk, and one more in the map; `MaxTime = 4`
leaves two units for deadlines to pass. `tcp*`: `HighWater = 2` lets the output
buffer cross it; two or three calls let each operation follow each other; one
byte from the peer is enough for a message callback. `structures` (the pool): one place, two
producers and three tasks make producers wait and overtake each other;
`MaxSpurious = 1` lets any one wait return early. `client`: three calls are a
connect, a stop or disconnect, and a destruction; two faults let a retry fail
again or a connection made by a retry be lost, and bring the delay to its
maximum; there are as many sockets as calls and faults, since each attempt takes
one of either. `log`: five records fill two buffers (a buffer of 2 takes one record
before it is full) and exceed `DropAbove = 2`; four units of time cross the end
of a day. `structures`: a vector that grows from 5 to 8 cells with calls of up
to 3 bytes meets every case of `make_space()` and `read_fd()`; the streams hold
pipelined, persistent, closing and malformed requests, and header values with
white space at their end or more than one word; four channels, two of
them on one descriptor, let any entry be first, middle or last when another
goes; five items wrap a ring of one, two or three cells.
`CHECK_DEADLOCK FALSE` is used throughout: every system here may legitimately
stop (the loop exits, the bounds on calls and time are reached).

### Fairness

* `EventLoopThread!FairThreadSpec`: the loop thread goes on, user code returns, a
  thread inside a call reaches its `wakeup()`, and `poll()` returns once the eventfd
  is readable; owner and thread go on inside `start_loop()`, `thread_func()` and the
  destructor, and a thread that keeps asking for the mutex gets it (strong fairness
  of the lock steps, what a pthread mutex gives in practice). No call, no I/O and no
  poll timeout is assumed.
* `TimerQueue!FairSpec`: the clock advances, the loop polls, callbacks return.
* `TcpServer!FairSpec`: both loops keep turning and user code returns. Peers and
  users owe nothing.
* `Client!FairSpec`: the loop turns, user code returns, the kernel ends every
  connect. A timer can fire only between two callbacks, which the model enables
  and disables again and again; strong fairness of the two timers stands for
  what `TimerQueue` is shown to give, that a timer whose time has come is run.
* `AsyncLogger!FairSpec`: the thread runs, its waits time out, calls of the owner
  go on; nobody has to append, start or stop, and the clock need not advance.
* `ThreadPool!PoolFairness`: threads run and get a mutex that is free. With bounded
  calls and wakeups weak fairness is enough.

## 4. Proofs

For every set of threads, of functors and of quitters, and any bound on quits:

* `TypeCorrect`, `NoFunctorStranded`, `QuitNotSleptThrough`: invariants of
  the `loop` run. `NoStrandedFunctor` and `QuitWakesPoll` speak of `pc = "poll"`
  only and the former is not inductive: a functor may arrive earlier, while the
  loop is testing `_running`. The strengthening `Guarded` states the same at
  every point from which `poll()` is reached without passing
  `do_pending_functors()`: there, either only early functors wait, or a wakeup is
  in the eventfd or about to be written. `_calling_pending_functors` is why it
  holds: the type invariant says that the flag is true exactly while the batch
  runs, which is when the loop thread itself must write the eventfd.
  `Inv == TypeOK /\ Guarded /\ QuitWakesPoll` is preserved by each action.
* `BatchShrinks`: the action property, from the type invariant.
* `Refinement`: `EventLoop` implements `SerialExecutor` with `batch \o pending`
  as the queue. Two lemmas on sequences (`AppendToSecond`, `TakeFromFirst`)
  say that appending to `pending` appends to the queue and that the head of a
  non-empty `batch` is its head; the swap is a stutter.
* `ThreadTypeCorrect`, `PublishedAlive`: for the loop inside `EventLoopThread`,
  whoever quits and whenever the object is destroyed, `_loop` is non-null exactly
  while the thread is between publishing and clearing it, hence never dangles.
* `BuffersAlwaysSuffice`: for buffers of any size and any number of records, the
  logging thread finds a buffer for each spare it refills. The property only says
  that it never took one from an empty vector; the invariant `BuffersInv` counts:
  `_next_buffer` is missing only when a full buffer was left in its place
  (`NextOrFull`), so a thread that gives its second spare away took two buffers
  out (`TakenEnough`), and dropping keeps two.
* `DayAlwaysRolled`: for days of any length. `FileInv` relates the open file to
  its last roll (its day is that of the roll) and bounds the appends that came
  after that day by the counter towards `_check_every_N_times`, hence the append
  that reaches it is at most the `_check_every_N_times`-th; a second roll in
  the same second changes nothing of this.
* `LogAlwaysConserved`: for any buffers, files and batches, no record is lost,
  written twice or out of order. `LinesInv` states the order between the file, the
  buffers the thread has still to write, the full ones and the current one part
  by part, that what they hold is what was appended and not dropped, and that the
  thread holds buffers only from its swap to its refill: a swap overwrites none.
  That only the records of the buffers given up go with `thread_drop` follows
  from the strict order.
* `NoWorkerIdle`, `NoPlaceIdle`: for any finite sets of workers and producers and
  any bound of the queue. `PoolInv` ties the wait sets of the conditions to the
  threads asleep (a `notify()` that finds the set empty found nobody asleep); each
  step is then an argument about cardinalities: a push adds one task and wakes
  one sleeper, a worker that leaves takes one task with it.
* `WalkIteratorsValid`, `WaitingTimerArmed`, `CancelledNeverRun`,
  `MapAndIndexAgree`, `OneShotRunsOnce`: for any delays, intervals, number of
  timers and time. `TimerInv` says what the position of `handle_read()` in the map
  means: before it lie exactly the timers already run and those a callback added
  there, which are lost (`WalkSplits`), the index holds the others (`IndexSplits`),
  and the walk has not passed `iter` (`WalkInside`). The order of the map is
  proved to be a strict total order with a least key (`LessOrders`,
  `FirstIsLeast`).
* `PollersAgree`: for any set of channels and any descriptors. `PollFdsOK` states
  the bijection between entries and registered channels, which the swap with the
  last entry in `remove_channel()` must keep, through the negated descriptors.
  Channels may be removed while enabled; that they are not, which `PollPoller`
  asserts of its callers, is `RemovedAreDisabled` below.
* `QueuesDeliver`: for both queues, any size and number of threads. The ring is
  related to the sequence it holds across the wrap of its indices.
* `BufferKeepsBytes`: for any sizes and any calls, `Buffer` holds the bytes put in
  and not yet taken out, and an integer of any width is read back as written. One
  lemma per method says what it does to the readable bytes; `EnsureOK` is the one
  with the arithmetic of growing and moving. That the digits of a number add up to
  it (`RoundTrip`) is an induction over the width: the k leading digits stand for
  the number divided by the power of two that is left.
* `RequestsNeverLost`, `ParserAlwaysReturns`: for any streams of symbols, cut
  anywhere, and buffers of any size. The loop of `parseRequest()` and the reference
  are both runs of a step function. A turn of the loop with a complete line takes
  the parser to where obeying the line takes the reference (`TurnServes`), and
  leaves fewer bytes (`TurnGoesOn`): so the loop ends, at the state the reference
  is in, after one request, or at a line both reject (`ParseResult`). The property
  speaks of the answers only and is not inductive; `HttpInv` says that the whole
  state of the reference, resumed from the parser's state over the bytes in the
  buffer, becomes the one it has after the text that arrived, and that between two
  messages the parser never stands at `kGotAll`. That the reference can be stopped
  and resumed anywhere (`ServedConcat`) and does not look at the answers given
  (`ServedOut`) are inductions over the text.
* `BufferedBytesSent`: for any number of connections, on either poller, if other
  threads only send (`OthersSend`). Other threads that call `shutdown()` or
  `force_close()` write `_state` without a lock and may overwrite `Disconnected`;
  with them the invariant does not hold. `ServerInv` says what a record promises
  by itself (`RecordOK`) and that a connection is established once and has no
  other step before that.
* `ShutdownCarriedOut`: on either poller and with a server that may be destroyed,
  under `OthersSend` too. The invariant `FlushInv` says that a channel watched for
  writing has bytes to write (`Watched`), that a `Disconnecting` connection whose
  buffer is empty has sent its FIN, has its delayed close pending or has a forced
  close among its tasks (`Settled`), and where in a turn of the loop such tasks
  can be.
* `ClosedOnce`, `CallbacksArePaired`, `RemovalsFindTheirs`,
  `FreedAreDisconnected`, `RemovedAreDisabled`, `FreedLeftPoller`: the life of a connection of an
  orderly server (`Orderly`: `OthersSend`, `PollPoller`, the server lives as long
  as its loops, no `start_read()` or `stop_read()`). The first hypothesis is needed as above;
  with epoll, `ClosesOpenConnection` is violated (the run `tcp_hup`);
  `~TcpServer()` removes and frees connections that are half closed
  (`tcp_destroyed`), and `start_read()` puts a closed connection's channel back. The
  invariant `LifeInv` says that at most one task in all queues of both loops
  (`connect_established`, `close_callback`, the removal in the base loop,
  `connect_destroyed`, `remove`) tells of the life of each connection, which of
  them goes with which state (`Young`, `Grown`, `Old`), and that events wait for
  dispatch only on open connections.
* `ClientAssertionsHold`, `SocketsAlwaysConserved`: with either poller, with or
  without retry, for any number of calls and faults. Neither property is
  inductive. `ClientInv` says that one attempt at most is under way, to come or
  waiting for its timer (`OneAttempt`); that a channel is reset before another is
  made, and by a `reset_channel()` that is queued (`ChannelOK`), which runs before
  the connection that came up can be closed (`ResetInTime`), so that a restart
  never meets the old channel; what the events of the connector and the handing
  over of its socket find (`EventsOK`, `HandedOK`); that a connection of the client
  is closed only during the callbacks of a poll, while it is the current one, and
  once, which is the assert of `remove_connection()` (`Fate`, which goes by the
  count of down callbacks, since a stale `disconnect()` may overwrite the state);
  who owns the connector
  after `~TcpClient()` (`OwnInv`); and where each socket is (`SocketInv`). The
  guards of `connect`, `destroy_client` and the timers (above) are hypotheses of
  these theorems too.

Recursive functions and inductions over data (digits, symbols of a text, turns of a
loop) rest on three lemmas of `StructuresProofs`: every set of naturals has a least
member (`LeastNumber`, from the library's `WFMin`), hence induction for a property
given as a set (`InductionUpTo`), and hence a function with given recursion steps
exists (`RecursionUpTo`, the steps given as a function). In this form they need no
operator as a parameter, which the provers could not instantiate.

Each inductive invariant was checked by TLC on the instances of the runs, and of
`TcpServer` on instances with two connections and with each loop arrangement,
before it was proved.

The assumptions are those named in the modules: the loop thread is a thread,
owner and loop thread differ, bounds are naturals, workers, producers and
connections are finitely many, `NoChannel` is no channel, streams consist of the
symbols of `HttpServer`. Theorems that need more
say so in an ASSUME of their own.

Only model-checked: liveness, since fairness is out of the prover's reach
(`PromptExecution`, `StartReturns`, `DtorReturns`, `EventuallyRun`, `GoneIsFreed`,
`EveryTaskRuns`, `StopReturns`, `EventuallyConnected`, `DestroyedIsReleased`,
`EventuallyFlushed`). Every invariant and every action property of a passing run is
a theorem.

## 5. Findings

The violated runs contradict an assertion, a comment or a test of the code;
`PROJECT.json` quotes each. Where it is an assertion a debug build stops; the default build
(`NDEBUG`) goes on with the state shown.

* `thread_join`: a `quit()` before `loop()` is lost, and the destructor joins for ever.
* `timer_lost`: a timer that a timer callback adds may be neither run nor kept.
* `tcp_hup`: a connection is closed twice on epoll.
* `tcp_destroyed`: a half closed connection of a destroyed server is freed as it is.
* `client_away`: a client destroyed on another thread is called back.

What the restrictions above tell of the code besides was met while modelling; the
hazards of `PROJECT.json` name the lines.

## 6. Not modelled, and plan

* `EventLoopThreadPool::start()` and the round over several loops; stopping the
  I/O loops in `~TcpServer()`, which drops the functors still queued in them.
  The next step of the model: it needs several loops in one module.
* Data races without outcomes to enumerate: `add_timer()` from another thread
  (both maps are changed without a lock), `ThreadPool::run()` during `start()`,
  `BlockingQueue::swap()`.
* The clock: deadlines are wall-clock times and the timerfd is monotonic; the
  model has one clock, which is never set back.
* Running out of descriptors: `sockets::accept()` aborts the process, so that
  `Acceptor`'s handling of `EMFILE` is never reached.
* Tasks that call `ThreadPool::run()` on a full queue (a deadlock by design), a
  pool started twice, a loop quit before its owner has left `start_loop()`.
* Disk errors in `FileAppender`, errors of pthread and epoll calls (logged and
  ignored, or fatal), the formatting of records, `Timestamp`, `InetAddress`,
  socket options (wrappers without state of their own), and the other benchmarks
  (drivers of the library).
