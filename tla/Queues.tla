------------------------------- MODULE Queues -------------------------------
(***************************************************************************)
(* suduo::BlockingQueue and suduo::BoundedBlockingQueue, the latter on a   *)
(* suduo::detail::CircularBuffer, with threads that push and threads that  *)
(* pop.  A critical section is one step; a thread that has to wait gives   *)
(* the mutex up and tests again when it is woken.                          *)
(*                                                                         *)
(* Threads are interchangeable, and counted: waiting.pop threads wait on   *)
(* _not_empty, waiting.push on _not_full; woken ones were notified, or     *)
(* woke for no reason, and have yet to get the mutex back.                 *)
(***************************************************************************)
EXTENDS Integers, Sequences, FiniteSets

CONSTANTS Bounds,       \* maximal sizes; 0 stands for BlockingQueue, which has none
          Threads,      \* bound: threads on each side
          MaxItems      \* bound: items pushed

ASSUME QueueAssumption == Bounds \subseteq Nat /\ Threads \in Nat /\ MaxItems \in Nat

VARIABLES bound, deque, ring, waiting, woken, pushed, popped

queueVars == <<bound, deque, ring, waiting, woken, pushed, popped>>

IsBounded == bound > 0

NewRing(n) == [cells |-> [i \in 0..n - 1 |-> 0], begin |-> 0, end |-> 0, size |-> 0]

QueueInit ==
  /\ bound \in Bounds
  /\ deque = <<>>
  /\ ring = NewRing(IF IsBounded THEN bound ELSE 1)
  /\ waiting = [push |-> 0, pop |-> 0]
  /\ woken = [push |-> 0, pop |-> 0]
  /\ pushed = 0
  /\ popped = <<>>

\* CircularBuffer
Capacity == Cardinality(DOMAIN ring.cells)

\* Variant: the index wraps one step late.
wrap__late(i) == IF i > Capacity THEN 0 ELSE i
wrap(i) == IF i >= Capacity THEN 0 ELSE i

ring_push(x) == [ring EXCEPT !.cells[ring.end] = x, !.end = wrap(@ + 1), !.size = @ + 1]
ring_pop == [ring EXCEPT !.begin = wrap(@ + 1), !.size = @ - 1]

\* The std::deque of BlockingQueue
deque_push(x) == Append(deque, x)
deque_pop == Tail(deque)

full == IsBounded /\ ring.size = Capacity
empty == IF IsBounded THEN ring.size = 0 ELSE deque = <<>>

\* A thread of a side comes to its critical section: a new call, or woken.
Enters(side, from) ==
  IF from = "woken" THEN woken[side] > 0 ELSE waiting[side] + woken[side] < Threads

Left(side, from) == IF from = "woken" THEN [woken EXCEPT ![side] = @ - 1] ELSE woken

Wait(side, from) ==
  /\ waiting' = [waiting EXCEPT ![side] = @ + 1]
  /\ woken' = Left(side, from)
  /\ UNCHANGED <<bound, deque, ring, pushed, popped>>

\* Condition::notify() wakes one thread of the other side, if one waits.
Notify(other, left) ==
  IF waiting[other] > 0
  THEN /\ waiting' = [waiting EXCEPT ![other] = @ - 1]
       /\ woken' = [left EXCEPT ![other] = @ + 1]
  ELSE woken' = left /\ UNCHANGED waiting

push(from) ==
  /\ Enters("push", from)
  /\ pushed < MaxItems
  /\ \/ full /\ Wait("push", from)
     \/ /\ ~full
        /\ pushed' = pushed + 1
        /\ IF IsBounded THEN ring' = ring_push(pushed') /\ UNCHANGED deque
           ELSE deque' = deque_push(pushed') /\ UNCHANGED ring
        /\ Notify("pop", Left("push", from))
        /\ UNCHANGED <<bound, popped>>

\* Only the bounded queue has threads to notify here.
pop(from) ==
  /\ Enters("pop", from)
  /\ \/ empty /\ Wait("pop", from)
     \/ /\ ~empty
        /\ IF IsBounded
           THEN popped' = Append(popped, ring.cells[ring.begin]) /\ ring' = ring_pop /\ UNCHANGED deque
           ELSE popped' = Append(popped, Head(deque)) /\ deque' = deque_pop /\ UNCHANGED ring
        /\ Notify("push", Left("pop", from))
        /\ UNCHANGED <<bound, pushed>>

\* BlockingQueue::drain()
drain ==
  /\ ~IsBounded
  /\ popped' = popped \o deque
  /\ deque' = <<>>
  /\ UNCHANGED <<bound, ring, waiting, woken, pushed>>

wait_returns(side) ==
  /\ waiting[side] > 0
  /\ waiting' = [waiting EXCEPT ![side] = @ - 1]
  /\ woken' = [woken EXCEPT ![side] = @ + 1]
  /\ UNCHANGED <<bound, deque, ring, pushed, popped>>

QueueNext ==
  \/ \E from \in {"call", "woken"} : push(from) \/ pop(from)
  \/ drain
  \/ \E side \in {"push", "pop"} : wait_returns(side)

QueueSpec == QueueInit /\ [][QueueNext]_queueVars

Contents ==
  IF IsBounded THEN [i \in 1..ring.size |-> ring.cells[(ring.begin + i - 1) % Capacity]] ELSE deque

\* Items leave in the order they came, each once, however the ring's indices
\* wrap; and no thread sleeps on what there is for it: while consumers wait, as
\* many others are awake as there are items, and so for producers and places.
QueueDelivers ==
  /\ popped \o Contents = [i \in 1..pushed |-> i]
  /\ waiting.pop > 0 => woken.pop >= Len(Contents)
  /\ waiting.push > 0 => woken.push >= Capacity - ring.size
=============================================================================
