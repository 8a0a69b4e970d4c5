------------------------------ MODULE EventLoop ------------------------------
(***************************************************************************)
(* suduo::net::EventLoop: one thread (LoopThread) polls, dispatches events *)
(* and runs the functors that it and the other threads queue.              *)
(*                                                                         *)
(* State of the C++ object      Variable                                   *)
(*   _running                   running                                    *)
(*   _calling_pending_functors  calling                                    *)
(*   _pending_functors          pending  (always accessed under _mutex)    *)
(*   functors (local vector)    batch    (the part not yet run)            *)
(*   _active_channel            active   (the part not yet handled)        *)
(*   counter of wakeup_fd       wakeups                                    *)
(*   position in loop()         pc                                         *)
(* Every other channel is abstracted to the single channel "io", whose     *)
(* callback is user code: pc = "user".  A functor's body is user code too. *)
(* User code may call queue_in_loop(), run_in_loop() and quit() any number *)
(* of times before it returns.                                             *)
(*                                                                         *)
(* Definitions whose names contain "__" are faulty variants of the         *)
(* definition that follows them.  They are not part of the specification:  *)
(* each shows that some property notices the fault.                        *)
(***************************************************************************)
EXTENDS Naturals, Sequences, Functions

CONSTANTS Thread,      \* threads that use the loop
          LoopThread,  \* the thread that constructed it, _thread_ID
          Functor,     \* functors; each is handed to the loop at most once
          Quitter,     \* threads that call quit()
          MaxQuit      \* bound: how many calls of quit() a behaviour has

ASSUME ThreadAssumption == LoopThread \in Thread /\ Quitter \subseteq Thread
ASSUME MaxQuitAssumption == MaxQuit \in Nat

VARIABLES pc, running, calling, pending, batch, active, wakeups,
          waking,    \* threads inside queue_in_loop()/quit(), before wakeup()
          executed,  \* history: functors run by do_pending_functors()
          inlined,   \* history: functors run_in_loop() called directly
          early,     \* history: functors the loop thread queued before loop()
          quits      \* history: number of calls of quit()

vars == <<pc, running, calling, pending, batch, active, wakeups, waking,
          executed, inlined, early, quits>>

Channel == {"wakeup", "io"}

\* The type of every variable, and that _calling_pending_functors is true
\* exactly while do_pending_functors() runs: a stale flag would make
\* queue_in_loop() skip, or repeat, wakeups.
TypeOK ==
  /\ pc \in {"idle", "test", "poll", "dispatch", "user", "swap", "drain", "exited"}
  /\ running \in BOOLEAN
  /\ calling \in BOOLEAN
  /\ pending \in Seq(Functor)
  /\ batch \in Seq(Functor)
  /\ active \in SUBSET Channel
  /\ wakeups \in Nat
  /\ waking \in SUBSET Thread
  /\ executed \in Seq(Functor)
  /\ inlined \in SUBSET Functor
  /\ early \in SUBSET Functor
  /\ quits \in Nat
  /\ calling => pc \in {"drain", "user"}
  /\ pc = "drain" => calling
  /\ batch # <<>> => calling

Init ==
  /\ pc = "idle"
  /\ running = FALSE
  /\ calling = FALSE
  /\ pending = <<>>
  /\ batch = <<>>
  /\ active = {}
  /\ wakeups = 0
  /\ waking = {}
  /\ executed = <<>>
  /\ inlined = {}
  /\ early = {}
  /\ quits = 0

(***************************************************************************)
(* Calls that any thread makes.                                            *)
(***************************************************************************)
is_in_loop_thread(t) == t = LoopThread

\* A thread can make a call when it is not inside one.  The loop thread runs
\* user code before loop() ("idle") and inside callbacks and functors ("user").
CanCall(t) ==
  /\ t \notin waking
  /\ is_in_loop_thread(t) => pc \in {"idle", "user"}

Fresh(f) == f \notin Range(pending \o batch \o executed) \cup inlined

\* Variant: a functor that queues a functor does not wake the loop.
wakeup_needed__foreign_only(t) == ~is_in_loop_thread(t)

\* The test at the end of queue_in_loop().
wakeup_needed(t) == ~is_in_loop_thread(t) \/ calling

queue_in_loop(t, f) ==
  /\ CanCall(t)
  /\ Fresh(f)
  /\ pending' = Append(pending, f)
  /\ waking' = IF wakeup_needed(t) THEN waking \cup {t} ELSE waking
  /\ early' = IF is_in_loop_thread(t) /\ pc = "idle" THEN early \cup {f} ELSE early
  /\ UNCHANGED <<pc, running, calling, batch, active, wakeups, executed, inlined, quits>>

\* On the loop thread cb() runs at once, inside the caller; on any other
\* thread run_in_loop() is queue_in_loop().
run_in_loop(t, f) ==
  \/ /\ is_in_loop_thread(t)
     /\ CanCall(t)
     /\ Fresh(f)
     /\ inlined' = inlined \cup {f}
     /\ UNCHANGED <<pc, running, calling, pending, batch, active, wakeups, waking,
                    executed, early, quits>>
  \/ ~is_in_loop_thread(t) /\ queue_in_loop(t, f)

\* Variant: the flag is cleared and poll() is left to its timeout.
quit_wakes__never(t) == FALSE

quit_wakes(t) == ~is_in_loop_thread(t)

quit(t) ==
  /\ CanCall(t)
  /\ t \in Quitter
  /\ quits < MaxQuit
  /\ quits' = quits + 1
  /\ running' = FALSE
  /\ waking' = IF quit_wakes(t) THEN waking \cup {t} ELSE waking
  /\ UNCHANGED <<pc, calling, pending, batch, active, wakeups, executed, inlined, early>>

\* The second half of queue_in_loop() and quit(): write 1 to the eventfd.
wakeup(t) ==
  /\ t \in waking
  /\ waking' = waking \ {t}
  /\ wakeups' = wakeups + 1
  /\ UNCHANGED <<pc, running, calling, pending, batch, active, executed, inlined, early, quits>>

(***************************************************************************)
(* Steps of loop(), taken by the loop thread outside user code.            *)
(***************************************************************************)
\* while (_running): the flag is read here and not again until the next turn.
loop_test ==
  /\ pc = "test"
  /\ pc' = IF running THEN "poll" ELSE "exited"
  /\ active' = {}
  /\ UNCHANGED <<running, calling, pending, batch, wakeups, waking, executed, inlined, early, quits>>

\* loop() sets _running whatever quit() did to it before.
loop ==
  /\ pc = "idle"
  /\ LoopThread \notin waking
  /\ running' = TRUE
  /\ pc' = "test"
  /\ UNCHANGED <<calling, pending, batch, active, wakeups, waking, executed, inlined, early, quits>>

\* poll() returns a nonempty set of ready channels.  It may leave a ready one
\* out: the poller hands over at most 16 events at a time.
poll(ready) ==
  /\ pc = "poll"
  /\ ready # {}
  /\ "wakeup" \in ready => wakeups > 0
  /\ active' = ready
  /\ pc' = "dispatch"
  /\ UNCHANGED <<running, calling, pending, batch, wakeups, waking, executed, inlined, early, quits>>

\* POLL_TIME_MS passed and nothing was ready.
poll_timeout ==
  /\ pc = "poll"
  /\ wakeups = 0
  /\ active' = {}
  /\ pc' = "dispatch"
  /\ UNCHANGED <<running, calling, pending, batch, wakeups, waking, executed, inlined, early, quits>>

\* The wakeup channel's callback: one read empties the eventfd counter.
handle_read ==
  /\ pc = "dispatch"
  /\ "wakeup" \in active
  /\ active' = active \ {"wakeup"}
  /\ wakeups' = 0
  /\ UNCHANGED <<pc, running, calling, pending, batch, waking, executed, inlined, early, quits>>

\* Another channel's callback starts.
handle_event ==
  /\ pc = "dispatch"
  /\ "io" \in active
  /\ active' = active \ {"io"}
  /\ pc' = "user"
  /\ UNCHANGED <<running, calling, pending, batch, wakeups, waking, executed, inlined, early, quits>>

dispatched ==
  /\ pc = "dispatch"
  /\ active = {}
  /\ pc' = "swap"
  /\ UNCHANGED <<running, calling, pending, batch, active, wakeups, waking, executed,
                 inlined, early, quits>>

\* do_pending_functors() up to the end of its critical section.  The flag it
\* sets first is read by the loop thread alone.
swap_pending_functors ==
  /\ pc = "swap"
  /\ calling' = TRUE
  /\ batch' = pending
  /\ pending' = <<>>
  /\ pc' = "drain"
  /\ UNCHANGED <<running, active, wakeups, waking, executed, inlined, early, quits>>

\* Variant: functors queued meanwhile join the batch that is being run.
run_functor__refill ==
  /\ pc = "drain"
  /\ batch # <<>>
  /\ executed' = Append(executed, Head(batch))
  /\ batch' = Tail(batch) \o pending
  /\ pending' = <<>>
  /\ pc' = "user"
  /\ UNCHANGED <<running, calling, active, wakeups, waking, inlined, early, quits>>

\* The next functor of the local vector is called.
run_functor ==
  /\ pc = "drain"
  /\ batch # <<>>
  /\ executed' = Append(executed, Head(batch))
  /\ batch' = Tail(batch)
  /\ pc' = "user"
  /\ UNCHANGED <<running, calling, pending, active, wakeups, waking, inlined, early, quits>>

\* User code returns: to the for loop over functors or over channels.
callback_return ==
  /\ pc = "user"
  /\ LoopThread \notin waking
  /\ pc' = IF calling THEN "drain" ELSE "dispatch"
  /\ UNCHANGED <<running, calling, pending, batch, active, wakeups, waking, executed,
                 inlined, early, quits>>

\* Variant: the flag is not reset.
drained__flag_left ==
  /\ pc = "drain"
  /\ batch = <<>>
  /\ pc' = "test"
  /\ UNCHANGED <<running, calling, pending, batch, active, wakeups, waking, executed,
                 inlined, early, quits>>

\* Variant: _pending_functors is cleared after the run, with what came meanwhile.
drained__clear ==
  /\ pc = "drain"
  /\ batch = <<>>
  /\ calling' = FALSE
  /\ pending' = <<>>
  /\ pc' = "test"
  /\ UNCHANGED <<running, batch, active, wakeups, waking, executed, inlined, early, quits>>

\* do_pending_functors() returns.
drained ==
  /\ pc = "drain"
  /\ batch = <<>>
  /\ calling' = FALSE
  /\ pc' = "test"
  /\ UNCHANGED <<running, pending, batch, active, wakeups, waking, executed, inlined, early, quits>>

LoopStep ==
  \/ loop_test
  \/ handle_read
  \/ handle_event
  \/ dispatched
  \/ swap_pending_functors
  \/ run_functor
  \/ callback_return
  \/ drained

CallStep ==
  \/ \E t \in Thread, f \in Functor : queue_in_loop(t, f) \/ run_in_loop(t, f)
  \/ \E t \in Thread : quit(t) \/ wakeup(t)

PollStep == poll_timeout \/ \E ready \in SUBSET Channel : poll(ready)

Next == CallStep \/ loop \/ PollStep \/ LoopStep

Spec == Init /\ [][Next]_vars

\* poll() returns because the eventfd is readable.
WakeupReady == wakeups > 0 /\ \E ready \in SUBSET Channel : poll(ready)

(***************************************************************************)
(* Properties.                                                             *)
(***************************************************************************)
\* A wakeup is in the eventfd or about to be written.
WakeupComing == wakeups > 0 \/ waking # {}

\* EventLoop::queue_in_loop() never strands a functor: whenever the loop
\* blocks in poll() with functors waiting in _pending_functors, a wakeup has
\* been written or some thread is about to write one.  The only exceptions are
\* the functors the loop thread itself queued before loop(): nothing wakes the
\* first poll() for them.
NoStrandedFunctor ==
  pc = "poll" /\ (\E i \in 1..Len(pending) : pending[i] \notin early) => WakeupComing

\* EventLoop::quit() is never slept through: if the loop blocks in poll() and
\* _running is already false, a wakeup is on its way.
QuitWakesPoll == pc = "poll" /\ ~running => WakeupComing

\* The loop implements a serial FIFO executor: the functors swapped out and not
\* yet run, followed by those still in _pending_functors, form one queue that
\* is run in order, each functor once, and by which nothing is dropped.
Executor == INSTANCE SerialExecutor WITH queue <- batch \o pending
ImplementsExecutor == Executor!Spec

\* A functor that do_pending_functors() leaves behind waits for the next turn:
\* within one turn a functor may queue another, but the batch only shrinks, so
\* a functor that requeues itself cannot keep the loop away from poll().
BatchOnlyShrinks ==
  [][calling /\ calling' => \E n \in 0..1 : batch' = SubSeq(batch, 1 + n, Len(batch))]_vars

InLoop == pc \notin {"idle", "exited"}

\* Once loop() runs, a queued functor is run without waiting for the 10 s poll
\* timeout, unless the loop exits first: the wakeup protocol alone suffices.
PromptExecution ==
  \A f \in Functor :
    InLoop /\ f \in Range(pending \o batch) \ early
      ~> f \in Range(executed) \/ pc = "exited"

=============================================================================
