--------------------------- MODULE EventLoopProofs ---------------------------
(***************************************************************************)
(* Proofs about EventLoop for any threads, functors and number of quits,   *)
(* and about EventLoopThread, which runs it, with no assumption on when    *)
(* its owner destroys it or, but for the last, on who calls quit().        *)
(***************************************************************************)
EXTENDS EventLoopThread, SequenceTheorems, TLAPS

(***************************************************************************)
(* The inductive invariant.  NoStrandedFunctor speaks of poll() only; what *)
(* makes it inductive is that the same holds at every point of the loop    *)
(* from which poll() is reached without passing do_pending_functors().     *)
(***************************************************************************)
BeforePoll == pc \in {"idle", "test", "poll", "drain"} \/ (pc = "user" /\ calling)

Waiting == \E i \in 1..Len(pending) : pending[i] \notin early

Guarded == BeforePoll /\ Waiting => WakeupComing

Inv == TypeOK /\ Guarded /\ QuitWakesPoll

\* The constructor leaves a loop that satisfies the invariant.
LEMMA InitInv == Init => Inv
<1> SUFFICES ASSUME Init PROVE Inv
  OBVIOUS
<1>1. TypeOK
  <2>1. running \in BOOLEAN /\ calling \in BOOLEAN
    BY DEF Init
  <2>2. ~calling /\ batch = <<>> /\ pc = "idle"
    BY DEF Init
  <2> QED
    BY <2>1, <2>2 DEF Init, TypeOK
<1>2. ~Waiting
  BY DEF Init, Waiting
<1> QED
  BY <1>1, <1>2 DEF Init, Inv, Guarded, QuitWakesPoll

\* Every call and every step of loop() preserves the types, and the
\* _calling_pending_functors flag stays exact.
LEMMA TypeStep == TypeOK /\ [Next]_vars => TypeOK'
<1> SUFFICES ASSUME TypeOK, [Next]_vars PROVE TypeOK'
  OBVIOUS
<1> USE ThreadAssumption, MaxQuitAssumption DEF TypeOK, Channel
<1>1. ASSUME NEW t \in Thread, NEW f \in Functor, queue_in_loop(t, f) PROVE TypeOK'
  BY <1>1 DEF queue_in_loop
<1>2. ASSUME NEW t \in Thread, NEW f \in Functor, run_in_loop(t, f) PROVE TypeOK'
  <2>1. CASE is_in_loop_thread(t)
    <3>1. inlined' = inlined \cup {f}
      BY <1>2, <2>1 DEF run_in_loop
    <3>2. UNCHANGED <<pc, running, calling, pending, batch, active, wakeups, waking,
                      executed, early, quits>>
      BY <1>2, <2>1 DEF run_in_loop
    <3> QED
      BY <3>1, <3>2
  <2>2. CASE ~is_in_loop_thread(t)
    BY <1>1, <1>2, <2>2 DEF run_in_loop
  <2> QED
    BY <2>1, <2>2
<1>3. ASSUME NEW t \in Thread, quit(t) PROVE TypeOK'
  <2>1. running' \in BOOLEAN
    BY <1>3 DEF quit
  <2>2. waking' \in SUBSET Thread
    BY <1>3 DEF quit
  <2> QED
    BY <1>3, <2>1, <2>2 DEF quit
<1>4. ASSUME NEW t \in Thread, wakeup(t) PROVE TypeOK'
  BY <1>4 DEF wakeup
<1>5. CASE loop
  BY <1>5 DEF loop
<1>6. CASE poll_timeout
  BY <1>6 DEF poll_timeout
<1>7. ASSUME NEW ready \in SUBSET Channel, poll(ready) PROVE TypeOK'
  BY <1>7 DEF poll
<1>8. CASE loop_test
  BY <1>8 DEF loop_test
<1>9. CASE handle_read
  BY <1>9 DEF handle_read
<1>10. CASE handle_event
  BY <1>10 DEF handle_event
<1>11. CASE dispatched
  BY <1>11 DEF dispatched
<1>12. CASE swap_pending_functors
  BY <1>12 DEF swap_pending_functors
<1>13. CASE run_functor
  BY <1>13 DEF run_functor
<1>14. CASE callback_return
  BY <1>14 DEF callback_return
<1>15. CASE drained
  BY <1>15 DEF drained
<1>16. CASE UNCHANGED vars
  BY <1>16 DEF vars
<1> QED
  BY <1>1, <1>2, <1>3, <1>4, <1>5, <1>6, <1>7, <1>8, <1>9, <1>10, <1>11, <1>12, <1>13,
     <1>14, <1>15, <1>16 DEF Next, CallStep, PollStep, LoopStep

\* A functor in _pending_functors always has a wakeup behind it when the loop
\* can reach poll() before do_pending_functors().
LEMMA GuardedStep == TypeOK /\ Guarded /\ [Next]_vars => Guarded'
<1> SUFFICES ASSUME TypeOK, Guarded, [Next]_vars PROVE Guarded'
  OBVIOUS
<1> USE DEF Guarded, BeforePoll, WakeupComing
<1>0. ASSUME pending' = pending, early' = early PROVE Waiting' = Waiting
  BY <1>0 DEF Waiting
<1>1. ASSUME NEW t \in Thread, NEW f \in Functor, queue_in_loop(t, f) PROVE Guarded'
  <2>1. CASE wakeup_needed(t)
    BY <1>1, <2>1 DEF queue_in_loop
  <2>2. CASE ~wakeup_needed(t) /\ pc = "idle"
    <3>1. pending' = Append(pending, f) /\ early' = early \cup {f}
      BY <1>1, <2>2 DEF queue_in_loop, wakeup_needed, is_in_loop_thread
    <3>2. Waiting' => Waiting
      <4>1. SUFFICES ASSUME NEW i \in 1..Len(pending'), pending'[i] \notin early'
                     PROVE  i \in 1..Len(pending) /\ pending[i] \notin early
        BY <4>1 DEF Waiting
      <4>2. i # Len(pending) + 1
        BY <3>1, <4>1 DEF TypeOK
      <4> QED
        BY <3>1, <4>1, <4>2 DEF TypeOK
    <3> QED
      BY <1>1, <2>2, <3>2 DEF queue_in_loop
  <2>3. CASE ~wakeup_needed(t) /\ pc # "idle"
    BY <1>1, <2>3 DEF queue_in_loop, wakeup_needed, CanCall, is_in_loop_thread
  <2> QED
    BY <2>1, <2>2, <2>3
<1>2. ASSUME NEW t \in Thread, NEW f \in Functor, run_in_loop(t, f) PROVE Guarded'
  BY <1>0, <1>1, <1>2 DEF run_in_loop
<1>3. ASSUME NEW t \in Thread, quit(t) PROVE Guarded'
  BY <1>0, <1>3 DEF quit
<1>4. ASSUME NEW t \in Thread, wakeup(t) PROVE Guarded'
  BY <1>4 DEF wakeup, TypeOK
<1>5. CASE loop
  BY <1>0, <1>5 DEF loop
<1>6. CASE poll_timeout
  BY <1>6 DEF poll_timeout
<1>7. ASSUME NEW ready \in SUBSET Channel, poll(ready) PROVE Guarded'
  BY <1>7 DEF poll
<1>8. CASE loop_test
  BY <1>0, <1>8 DEF loop_test
<1>9. CASE handle_read
  BY <1>9 DEF handle_read
<1>10. CASE handle_event
  BY <1>10 DEF handle_event, TypeOK
<1>11. CASE dispatched
  BY <1>11 DEF dispatched
<1>12. CASE swap_pending_functors
  BY <1>12 DEF swap_pending_functors, Waiting
<1>13. CASE run_functor
  BY <1>0, <1>13 DEF run_functor
<1>14. CASE callback_return
  BY <1>0, <1>14 DEF callback_return
<1>15. CASE drained
  BY <1>0, <1>15 DEF drained
<1>16. CASE UNCHANGED vars
  BY <1>0, <1>16 DEF vars
<1> QED
  BY <1>1, <1>2, <1>3, <1>4, <1>5, <1>6, <1>7, <1>8, <1>9, <1>10, <1>11, <1>12, <1>13,
     <1>14, <1>15, <1>16 DEF Next, CallStep, PollStep, LoopStep

\* quit() from another thread leaves a wakeup behind; the loop thread's own
\* quit() is read by loop_test before the next poll().
LEMMA QuitStep == TypeOK /\ QuitWakesPoll /\ [Next]_vars => QuitWakesPoll'
  BY DEF TypeOK, QuitWakesPoll, WakeupComing, Next, CallStep, PollStep, LoopStep, vars,
         queue_in_loop, run_in_loop, quit, wakeup, loop, poll_timeout, poll, loop_test,
         handle_read, handle_event, dispatched, swap_pending_functors, run_functor,
         callback_return, drained, CanCall, is_in_loop_thread, quit_wakes

\* The conjunction is an invariant of every behaviour of the loop.
THEOREM Invariance == Spec => []Inv
<1>1. Inv /\ [Next]_vars => Inv'
  BY TypeStep, GuardedStep, QuitStep DEF Inv
<1> QED
  BY InitInv, <1>1, PTL DEF Spec

\* The types hold and _calling_pending_functors is exact.
THEOREM TypeCorrect == Spec => []TypeOK
  BY Invariance, PTL DEF Inv

\* No interleaving of queue_in_loop() with loop() strands a functor in poll().
THEOREM NoFunctorStranded == Spec => []NoStrandedFunctor
<1>1. Inv => NoStrandedFunctor
  BY DEF Inv, Guarded, BeforePoll, Waiting, NoStrandedFunctor
<1> QED
  BY Invariance, <1>1, PTL

\* No interleaving of quit() with loop() leaves poll() asleep on a cleared flag.
THEOREM QuitNotSleptThrough == Spec => []QuitWakesPoll
  BY Invariance, PTL DEF Inv

\* Within one do_pending_functors() the batch only loses its head: functors
\* queued meanwhile wait for the next turn of the loop.
THEOREM BatchShrinks == Spec => BatchOnlyShrinks
<1> DEFINE A == calling /\ calling' => \E n \in 0..1 : batch' = SubSeq(batch, 1 + n, Len(batch))
<1>1. TypeOK /\ [Next]_vars => [A]_vars
  <2> SUFFICES ASSUME TypeOK, [Next]_vars, calling, calling'
               PROVE  \E n \in 0..1 : batch' = SubSeq(batch, 1 + n, Len(batch))
    OBVIOUS
  <2>1. CASE run_functor
    <3>1. batch' = SubSeq(batch, 1 + 1, Len(batch))
      BY <2>1 DEF run_functor, TypeOK
    <3> QED
      BY <3>1
  <2>2. CASE batch' = batch
    <3>1. batch' = SubSeq(batch, 1 + 0, Len(batch))
      BY <2>2 DEF TypeOK
    <3> QED
      BY <3>1
  <2>3. ~swap_pending_functors
    BY DEF swap_pending_functors, TypeOK
  <2> QED
    BY <2>1, <2>2, <2>3 DEF Next, CallStep, PollStep, LoopStep, vars, queue_in_loop,
       run_in_loop, quit, wakeup, loop, poll_timeout, poll, loop_test, handle_read,
       handle_event, dispatched, callback_return, drained
<1> QED
  BY <1>1, TypeCorrect, PTL DEF Spec, BatchOnlyShrinks

(***************************************************************************)
(* Refinement: the two vectors together behave as one FIFO.                *)
(***************************************************************************)
\* Appending to the second of two concatenated vectors appends to the whole.
LEMMA AppendToSecond ==
  ASSUME NEW s \in Seq(Functor), NEW u \in Seq(Functor), NEW f \in Functor
  PROVE  s \o Append(u, f) = Append(s \o u, f)
  OBVIOUS

\* The head of a nonempty first vector is the head of the whole.
LEMMA TakeFromFirst ==
  ASSUME NEW s \in Seq(Functor), NEW u \in Seq(Functor), s # <<>>
  PROVE  /\ s \o u # <<>>
         /\ Head(s \o u) = Head(s)
         /\ Tail(s \o u) = Tail(s) \o u
  OBVIOUS

\* Every step of the loop is a step of the abstract executor or leaves it alone.
LEMMA ExecutorStep == TypeOK /\ [Next]_vars => [Executor!Next]_<<batch \o pending, executed>>
<1> SUFFICES ASSUME TypeOK, [Next]_vars
             PROVE  [Executor!Next]_<<batch \o pending, executed>>
  OBVIOUS
<1> DEFINE Refined == [Executor!Next]_<<batch \o pending, executed>>
<1>0. ASSUME UNCHANGED <<batch, pending, executed>> PROVE Refined
  BY <1>0
<1>1. ASSUME NEW t \in Thread, NEW f \in Functor, queue_in_loop(t, f) PROVE Refined
  <2>1. (batch \o pending)' = Append(batch \o pending, f)
    BY <1>1, AppendToSecond DEF queue_in_loop, TypeOK
  <2> QED
    BY <1>1, <2>1 DEF queue_in_loop, Executor!Next, Executor!Submit
<1>2. ASSUME NEW t \in Thread, NEW f \in Functor, run_in_loop(t, f) PROVE Refined
  BY <1>0, <1>1, <1>2 DEF run_in_loop
<1>3. CASE swap_pending_functors
  <2>1. batch = <<>>
    BY <1>3 DEF swap_pending_functors, TypeOK
  <2>2. batch \o pending = pending /\ pending \o <<>> = pending
    BY <2>1 DEF TypeOK
  <2> QED
    BY <1>3, <2>2 DEF swap_pending_functors
<1>4. CASE run_functor
  <2>1. Executor!Execute
    BY <1>4, TakeFromFirst DEF run_functor, TypeOK, Executor!Execute
  <2> QED
    BY <2>1 DEF Executor!Next
<1>5. CASE \/ UNCHANGED vars \/ loop \/ PollStep \/ \E t \in Thread : quit(t) \/ wakeup(t)
         \/ loop_test \/ handle_read \/ handle_event \/ dispatched \/ callback_return \/ drained
  BY <1>0, <1>5 DEF vars, loop, PollStep, poll, poll_timeout, quit, wakeup, loop_test,
     handle_read, handle_event, dispatched, callback_return, drained
<1> QED
  BY <1>1, <1>2, <1>3, <1>4, <1>5 DEF Next, CallStep, LoopStep

\* EventLoop implements SerialExecutor: functors run in queueing order, each
\* one once, and none is dropped between the two vectors.
THEOREM Refinement == Spec => ImplementsExecutor
<1>1. Init => Executor!Init
  BY DEF Init, Executor!Init
<1> QED
  BY <1>1, ExecutorStep, TypeCorrect, PTL DEF Spec, ImplementsExecutor, Executor!Spec

(***************************************************************************)
(* EventLoopThread.  PublishedLoopAlive alone is not inductive: the loop   *)
(* must not only exist while _loop points to it, thread_func() must be     *)
(* between the two assignments to _loop, since only there can nothing      *)
(* destroy the loop.                                                       *)
(***************************************************************************)
PointerExact == loop_ptr => wpc \in {"published", "looping"}

\* The thread is started only once.
NotStarted == opc = "unstarted" => wpc = "none"

ThreadInv == ThreadTypeOK /\ PointerExact /\ NotStarted

\* The two threads are distinct, and neither is nobody.
LEMMA Distinct == Owner # LoopThread /\ NoThread # Owner /\ NoThread # LoopThread
  BY OwnerAssumption, ThreadAssumption

\* The steps of the loop and the calls into it do not touch the variables of
\* EventLoopThread.
LEMMA LoopStepsApart == UserCall \/ LoopRun \/ Wakeup => UNCHANGED threadVars
  BY DEF UserCall, LoopRun, Wakeup

\* Every step of the owner and of thread_func() preserves the invariant.
LEMMA ThreadStep == ThreadInv /\ [ThreadNext]_allVars => ThreadInv'
<1> SUFFICES ASSUME ThreadInv, [ThreadNext]_allVars PROVE ThreadInv'
  OBVIOUS
<1> USE Distinct DEF ThreadInv, ThreadTypeOK, PointerExact, NotStarted
<1>1. CASE start_thread
  BY <1>1 DEF start_thread
<1>2. CASE start_lock
  BY <1>2 DEF start_lock
<1>3. CASE start_check
  BY <1>3 DEF start_check
<1>4. CASE spurious_wakeup
  BY <1>4 DEF spurious_wakeup
<1>5. CASE publish
  BY <1>5 DEF publish
<1>6. CASE publish_unlock
  BY <1>6 DEF publish_unlock
<1>7. CASE clear
  BY <1>7 DEF clear
<1>8. CASE clear_unlock
  BY <1>8 DEF clear_unlock
<1>9. CASE destroy_loop
  BY <1>9 DEF destroy_loop
<1>10. CASE dtor_read
  BY <1>10 DEF dtor_read
<1>11. CASE dtor_quit
  BY <1>11 DEF dtor_quit
<1>12. CASE dtor_join
  BY <1>12 DEF dtor_join
<1>13. CASE UserCall \/ LoopRun \/ Wakeup
  BY <1>13, LoopStepsApart DEF threadVars
<1>14. CASE UNCHANGED allVars
  BY <1>14 DEF allVars, threadVars
<1> QED
  BY <1>1, <1>2, <1>3, <1>4, <1>5, <1>6, <1>7, <1>8, <1>9, <1>10, <1>11, <1>12, <1>13,
     <1>14 DEF ThreadNext, StartLoop, ThreadFunc, Dtor

\* The invariant holds in every behaviour.
THEOREM ThreadInvariance == ThreadSpec => []ThreadInv
<1>1. ThreadInit => ThreadInv
  BY Distinct DEF ThreadInit, ThreadInv, ThreadTypeOK, PointerExact, NotStarted
<1> QED
  BY <1>1, ThreadStep, PTL DEF ThreadSpec

\* The mutex of the EventLoopThread is held exactly by the thread that is in a
\* critical section.
THEOREM ThreadTypeCorrect == ThreadSpec => []ThreadTypeOK
  BY ThreadInvariance, PTL DEF ThreadInv

\* _loop never dangles: the EventLoop it points to exists, whoever quits the
\* loop and whenever the object is destroyed.
THEOREM PublishedAlive == ThreadSpec => []PublishedLoopAlive
<1>1. ThreadInv => PublishedLoopAlive
  BY DEF ThreadInv, PointerExact, PublishedLoopAlive, LoopAlive
<1> QED
  BY ThreadInvariance, <1>1, PTL
=============================================================================
