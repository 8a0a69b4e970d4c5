--------------------------- MODULE SerialExecutor ---------------------------
(***************************************************************************)
(* What EventLoop::queue_in_loop() promises to the threads that call it:   *)
(* one logical FIFO of functors; each functor enters it at most once and   *)
(* leaves it by being run, in the order of entry, by a single executor.    *)
(* The two vectors of the implementation (_pending_functors and the local  *)
(* vector swapped out by do_pending_functors()), the eventfd, the poller   *)
(* and the flags are all absent here.                                      *)
(***************************************************************************)
EXTENDS Sequences

CONSTANT Functor

VARIABLES queue,     \* functors accepted and not yet run, oldest first
          executed   \* functors run from the queue, oldest first

Init == queue = <<>> /\ executed = <<>>

\* A thread hands in a functor.
Submit(f) ==
  /\ queue' = Append(queue, f)
  /\ UNCHANGED executed

\* The executor runs the oldest functor.
Execute ==
  /\ queue # <<>>
  /\ executed' = Append(executed, Head(queue))
  /\ queue' = Tail(queue)

Next == Execute \/ \E f \in Functor : Submit(f)

Spec == Init /\ [][Next]_<<queue, executed>>
=============================================================================
