----------------------------- MODULE TimerQueue -----------------------------
(***************************************************************************)
(* suduo::net::TimerQueue: the timers of one EventLoop, driven by a single *)
(* timerfd.  Everything here runs on the loop thread; what interleaves is  *)
(* the clock, the poller's report of the timerfd, other callbacks of the   *)
(* same turn of the loop, and user code inside the timers' callbacks,      *)
(* which may add and cancel timers while handle_read() walks the map.      *)
(*                                                                         *)
(* Time is counted in units of 100 us, the shortest delay the code arms    *)
(* the timerfd with.                                                       *)
(*                                                                         *)
(*   _timers                    timers, the keys {expiration, id}          *)
(*   _active_timers             active, the ids                            *)
(*   Timer::_interval           interval                                   *)
(*   Timer::_created            nextId                                     *)
(*   setting of _timer_fd       fd: when it becomes readable, or Never     *)
(*   now, iter, ptr, expired    hnow, iter, ptr, expired                   *)
(*     (locals of handle_read)                                             *)
(*   cancel_in_loop functors    cancels                                    *)
(* _canceling_timers is left out: cancel_in_loop() runs only as a functor, *)
(* hence never while _calling_expired_timers is true, so the set is empty. *)
(* Names that contain "__" are faulty variants, as in EventLoop.           *)
(***************************************************************************)
EXTENDS Integers, Sequences, FiniteSets

CONSTANTS Delays,         \* run_at(now + d): the values of d, in time units
          Intervals,      \* run_every(i): the values of i
          CallbackDelays, \* the delays that callbacks of timers add timers with
          MaxTimers,      \* bound: timers created in a behaviour
          MaxTime         \* bound: the clock stops here

ASSUME DelaysAssumption == Delays \subseteq Int /\ CallbackDelays \subseteq Int
ASSUME IntervalsAssumption == Intervals \subseteq Nat \ {0}
ASSUME BoundsAssumption == MaxTimers \in Nat /\ MaxTime \in Nat

VARIABLES now, timers, active, interval, nextId, fd,
          ready,      \* poll() reported the timerfd; its callback is to come
          pc, hnow, iter, ptr, expired, cancels,
          lost,       \* history: ids a callback added behind the walk's position
          fired,      \* history: ids of one-shot timers that were run
          cancelled,  \* history: ids cancel_in_loop() was called for
          aborted     \* history: the assert of insert() has failed

vars == <<now, timers, active, interval, nextId, fd, ready, pc, hnow, iter, ptr,
          expired, cancels, lost, fired, cancelled, aborted>>
passVars == <<pc, hnow, iter, ptr, expired>>

Id == 1..MaxTimers
Key == Nat \X Id     \* <<expiration, id>>, as in TimerMap
When(k) == k[1]
KeyId(k) == k[2]
Ids(S) == {KeyId(k) : k \in S}

Never == 0           \* a disarmed timerfd; an armed one expires later than now
End == <<0, 0>>      \* _timers.end(): no timer has the id 0

Init ==
  /\ now = 1
  /\ timers = {}
  /\ active = {}
  /\ interval = [i \in Id |-> 0]
  /\ nextId = 1
  /\ fd = Never
  /\ ready = FALSE
  /\ pc = "idle"
  /\ hnow = 0
  /\ iter = End
  /\ ptr = End
  /\ expired = <<>>
  /\ cancels = <<>>
  /\ lost = {}
  /\ fired = {}
  /\ cancelled = {}
  /\ aborted = FALSE

(***************************************************************************)
(* The ordered map.                                                        *)
(***************************************************************************)
\* std::pair's operator<.
Less(j, k) == When(j) < When(k) \/ (When(j) = When(k) /\ KeyId(j) < KeyId(k))

\* The iterator to the least key of S; end() when there is none.
First(S) == IF S = {} THEN End
            ELSE CHOOSE k \in S : \A j \in S \ {k} : Less(k, j)

\* lower_bound({t, UINT64_MAX}).
lower_bound(S, t) == First({k \in S : When(k) > t})

\* ptr++.
Successor(S, k) == First({j \in S : Less(k, j)})

(***************************************************************************)
(* The timerfd.                                                            *)
(***************************************************************************)
Readable == fd # Never /\ fd <= now

\* Variant: a deadline that has passed is not raised to the least delay; zero
\* disarms the timerfd.
reset_timer_fd__zero(when) == IF when <= now THEN Never ELSE when

\* how_much_time_from_now() never asks for less than one unit.
reset_timer_fd(when) == IF when < now + 1 THEN now + 1 ELSE when

(***************************************************************************)
(* Operations.                                                             *)
(***************************************************************************)
\* insert() begins with assert(_timers.size() == _active_timers.size()).  The
\* build of CMakeLists.txt defines NDEBUG, so the code goes on when it fails.
sizes_agree(T, A) == Cardinality(T) = Cardinality(A)

\* Variant: the timerfd is left alone when an earlier timer arrives.
insert__no_earlier(S, when) == S = {}

\* insert() reports that the new timer is the earliest.  During handle_read()
\* the entries already run still count: they are erased at its end.
insert(S, when) == S = {} \/ \A k \in S : when < When(k)

\* Code on the loop thread: another channel's callback or a functor between
\* two handle_read() calls, or a timer's callback.
CanCall == pc \in {"idle", "callback"}

add_timer(when, ival) ==
  /\ CanCall
  /\ nextId <= MaxTimers
  /\ nextId' = nextId + 1
  /\ interval' = [interval EXCEPT ![nextId] = ival]
  /\ timers' = timers \cup {<<when, nextId>>}
  /\ active' = active \cup {nextId}
  /\ fd' = IF insert(timers, when) THEN reset_timer_fd(when) ELSE fd
  /\ lost' = IF pc = "callback" /\ Less(<<when, nextId>>, ptr) THEN lost \cup {nextId} ELSE lost
  /\ aborted' = (aborted \/ ~sizes_agree(timers, active))
  /\ UNCHANGED <<now, ready, passVars, cancels, fired, cancelled>>

\* run_at(), and run_after() for d >= 0.
run_at(d) ==
  /\ d \in IF pc = "callback" THEN CallbackDelays ELSE Delays
  /\ now + d >= 0
  /\ add_timer(now + d, 0)

run_every(i) ==
  /\ pc = "callback" => i \in CallbackDelays
  /\ add_timer(now + i, i)

\* Variant: cancel() uses run_in_loop(), and so erases the entry at once.
cancel__run_in_loop(i) ==
  /\ CanCall
  /\ i < nextId
  /\ i \notin cancelled
  /\ timers' = {k \in timers : KeyId(k) # i}
  /\ active' = active \ {i}
  /\ cancelled' = cancelled \cup {i}
  /\ UNCHANGED <<now, interval, nextId, fd, ready, passVars, cancels, lost, fired, aborted>>

\* cancel() only queues a functor.  Cancelling a timer again does nothing more,
\* so the model does it once.
cancel(i) ==
  /\ CanCall
  /\ i < nextId
  /\ i \notin cancelled
  /\ \A n \in 1..Len(cancels) : cancels[n] # i
  /\ cancels' = Append(cancels, i)
  /\ UNCHANGED <<now, timers, active, interval, nextId, fd, ready, passVars, lost,
                 fired, cancelled, aborted>>

\* Variant: only the index by id is updated.
cancel_in_loop__index_only ==
  /\ pc = "idle" /\ ~ready
  /\ cancels # <<>>
  /\ LET i == Head(cancels) IN
       /\ active' = active \ {i}
       /\ cancelled' = cancelled \cup {i}
  /\ cancels' = Tail(cancels)
  /\ UNCHANGED <<now, timers, interval, nextId, fd, ready, passVars, lost, fired, aborted>>

\* The functor, run by do_pending_functors(), after the channels' callbacks.
cancel_in_loop ==
  /\ pc = "idle" /\ ~ready
  /\ cancels # <<>>
  /\ LET i == Head(cancels) IN
       /\ timers' = IF i \in active THEN {k \in timers : KeyId(k) # i} ELSE timers
       /\ active' = active \ {i}
       /\ cancelled' = cancelled \cup {i}
  /\ cancels' = Tail(cancels)
  /\ UNCHANGED <<now, interval, nextId, fd, ready, passVars, lost, fired, aborted>>

\* poll() returns the timerfd among the active channels.
poll ==
  /\ pc = "idle" /\ ~ready
  /\ Readable
  /\ ready' = TRUE
  /\ UNCHANGED <<now, timers, active, interval, nextId, fd, passVars, cancels, lost,
                 fired, cancelled, aborted>>

\* handle_read() up to the while loop.  An add_timer() of an earlier callback
\* of the same turn may have rearmed the timerfd: the read then fails, is
\* logged, and the timer stays armed.
handle_read ==
  /\ pc = "idle" /\ ready
  /\ ready' = FALSE
  /\ hnow' = now
  /\ fd' = IF Readable THEN Never ELSE fd
  /\ iter' = lower_bound(timers, now)
  /\ ptr' = First(timers)
  /\ expired' = <<>>
  /\ pc' = "walk"
  /\ UNCHANGED <<now, timers, active, interval, nextId, cancels, lost, fired, cancelled,
                 aborted>>

\* ptr->second->run() is called.
run_timer ==
  /\ pc = "walk"
  /\ ptr # iter
  /\ pc' = "callback"
  /\ fired' = IF interval[KeyId(ptr)] = 0 THEN fired \cup {KeyId(ptr)} ELSE fired
  /\ UNCHANGED <<now, timers, active, interval, nextId, fd, ready, hnow, iter, ptr,
                 expired, cancels, lost, cancelled, aborted>>

\* The callback returned: the rest of the loop's body.
timer_done ==
  /\ pc = "callback"
  /\ active' = active \ {KeyId(ptr)}
  /\ expired' = Append(expired, KeyId(ptr))
  /\ ptr' = Successor(timers, ptr)
  /\ pc' = "walk"
  /\ UNCHANGED <<now, timers, interval, nextId, fd, ready, hnow, iter, cancels, lost,
                 fired, cancelled, aborted>>

\* Variant: reset() puts every expired timer back, the one-shot ones too.
Restarted__all ==
  {<<hnow + interval[i], i>> : i \in {expired[n] : n \in 1..Len(expired)}}

\* The repeating timers of the pass, restarted relative to its start.
Restarted ==
  {<<hnow + interval[i], i>> : i \in {j \in {expired[n] : n \in 1..Len(expired)} :
                                        interval[j] > 0}}

\* The entries that _timers.erase(begin, iter) spares.
Spared == {k \in timers : iter # End /\ ~Less(k, iter)}

\* erase() and reset().  Each insert() of reset() adds one timer to both maps, so
\* that its assert holds every time or never.
finish ==
  /\ pc = "walk"
  /\ ptr = iter
  /\ timers' = Spared \cup Restarted
  /\ active' = active \cup Ids(Restarted)
  /\ fd' = IF timers' = {} THEN fd ELSE reset_timer_fd(When(First(timers')))
  /\ pc' = "idle"
  /\ aborted' = (aborted \/ (Restarted # {} /\ ~sizes_agree(Spared, active)))
  /\ UNCHANGED <<now, interval, nextId, ready, hnow, iter, ptr, expired, cancels,
                 lost, fired, cancelled>>

\* The clock.  Before the bound it leaves room for the last pass to end.
tick ==
  /\ now < IF pc = "idle" THEN MaxTime ELSE MaxTime - 2
  /\ now' = now + 1
  /\ UNCHANGED <<timers, active, interval, nextId, fd, ready, passVars, cancels, lost,
                 fired, cancelled, aborted>>

Pass == handle_read \/ run_timer \/ timer_done \/ finish

Next ==
  \/ \E d \in Delays \cup CallbackDelays : run_at(d)
  \/ \E i \in Intervals : run_every(i)
  \/ \E i \in Id : cancel(i)
  \/ cancel_in_loop
  \/ poll
  \/ Pass
  \/ tick

Spec == Init /\ [][Next]_vars

\* Time passes, callbacks return, the loop polls and runs its functors.
FairSpec == Spec /\ WF_vars(tick) /\ WF_vars(poll) /\ WF_vars(Pass) /\ WF_vars(cancel_in_loop)

(***************************************************************************)
(* Properties.                                                             *)
(***************************************************************************)
\* While handle_read() runs user code, the iterators it keeps are end() or
\* entries of the map: no callback erases what they point to.
IteratorsValid ==
  pc # "idle" => /\ iter = End \/ iter \in timers
                 /\ ptr = End \/ ptr \in timers

\* Between two passes the map and its index by id hold the same timers, but
\* for those a callback added behind the position of the walk: erase() drops
\* these from the map unrun, and the index keeps a reference to each.  Nothing
\* else, whatever callbacks add and cancel, makes the two disagree.
IndexAgrees ==
  pc = "idle" =>
    /\ Ids(timers) = active \ lost
    /\ Cardinality(timers) = Cardinality(active \ lost)

\* Between two passes the timerfd is armed whenever a timer is waiting, and it
\* fires no later than the earliest deadline (or one unit after being armed,
\* for a deadline already past): no timer waits for somebody else's event.
TimerFdArmed ==
  pc = "idle" /\ timers # {} =>
    /\ fd # Never
    /\ fd <= now + 1 \/ \A k \in timers : fd <= When(k)

\* cancel_in_loop() is final: the timer is not run again, even a repeating one
\* whose cancellation was asked for inside its own callback.
CancelFinal == pc = "callback" => KeyId(ptr) \notin cancelled

\* A one-shot timer is run once, whatever its callback adds to the map.
OneShotOnce == [][pc = "walk" /\ pc' = "callback" => KeyId(ptr) \notin fired]_vars

\* cancel_in_loop() asserts, before it returns, that the map and its index have
\* the same size.  A build with asserts gets there only if those of insert()
\* have held so far.
CancelSizes ==
  [][cancelled' # cancelled /\ ~aborted => sizes_agree(timers', active')]_vars

\* Every one-shot timer whose deadline lies before the bound of the clock is
\* run or cancelled, unless it was dropped as IndexAgrees describes.  One that a
\* callback adds ahead of the walk's end is run early, in the same pass.
EventuallyRun ==
  \A i \in Id :
    (\E k \in timers : KeyId(k) = i /\ interval[i] = 0 /\ When(k) <= MaxTime - 2)
      ~> i \in fired \cup cancelled \cup lost
=============================================================================
