------------------------------ MODULE Monitor ------------------------------
(***************************************************************************)
(* suduo::MutexLock with its MutexLockGuard, and the Conditions that wait  *)
(* on it: what a class of suduo/base that protects its state with one      *)
(* mutex is built from.  A thread inside such a class is at m[t]:          *)
(*                                                                         *)
(*   out       outside                                                     *)
(*   want      in pthread_mutex_lock()                                     *)
(*   in        in the critical section                                     *)
(*   asleep    in pthread_cond_wait()                                      *)
(*   woken     signalled, or woken spuriously: wants the mutex back        *)
(*                                                                         *)
(* A class's own step runs at "in" and ends in pthread_mutex_unlock() or   *)
(* in pthread_cond_wait().                                                 *)
(* _holder, which only assert_locked() reads, is left out: unlock() clears *)
(* it after the mutex is free, so it may be 0 while a thread is inside.    *)
(* Names that contain "__" are faulty variants, as in EventLoop.           *)
(***************************************************************************)
EXTENDS Naturals

CONSTANTS Agent,      \* threads
          Cond,       \* the condition variables
          NoAgent,    \* the mutex is free
          MaxSpurious \* bound: waits that return without a signal

ASSUME NoAgentAssumption == NoAgent \notin Agent
ASSUME SpuriousAssumption == MaxSpurious \in Nat

VARIABLES owner,      \* who holds the pthread mutex
          waiters,    \* the threads blocked on each condition
          m,
          spurious    \* the number of waits that returned so

monitorVars == <<owner, waiters, m, spurious>>

Stage == {"out", "want", "in", "asleep", "woken"}

MonitorInit ==
  /\ owner = NoAgent
  /\ waiters = [c \in Cond |-> {}]
  /\ m = [t \in Agent |-> "out"]
  /\ spurious = 0

\* MutexLock::lock(), and the end of pthread_cond_wait(): the mutex is taken.
lock(t) ==
  /\ m[t] \in {"want", "woken"}
  /\ owner = NoAgent
  /\ owner' = t
  /\ m' = [m EXCEPT ![t] = "in"]
  /\ UNCHANGED <<waiters, spurious>>

\* A MutexLockGuard is constructed: t goes on to lock().
Enter(t) ==
  /\ m[t] = "out"
  /\ m' = [m EXCEPT ![t] = "want"]
  /\ UNCHANGED <<owner, waiters, spurious>>

\* pthread_cond_wait() may return without a signal.
spurious_wakeup(t) ==
  /\ m[t] = "asleep"
  /\ spurious < MaxSpurious
  /\ spurious' = spurious + 1
  /\ m' = [m EXCEPT ![t] = "woken"]
  /\ waiters' = [c \in Cond |-> waiters[c] \ {t}]
  /\ UNCHANGED owner

\* Condition::wait(), called in the critical section.
wait(t, c) ==
  /\ owner' = NoAgent
  /\ waiters' = [waiters EXCEPT ![c] = @ \cup {t}]
  /\ m' = [m EXCEPT ![t] = "asleep"]
  /\ UNCHANGED spurious

\* ~MutexLockGuard(): t releases the mutex, having notified the
\* threads of woken.
Leave(t, woken) ==
  /\ waiters' = [c \in Cond |-> waiters[c] \ woken]
  /\ m' = [u \in Agent |-> IF u = t THEN "out" ELSE IF u \in woken THEN "woken" ELSE m[u]]
  /\ owner' = NoAgent
  /\ UNCHANGED spurious

\* Whom notify() may wake: one of the waiting threads, if there is one.
notify(c) == IF waiters[c] = {} THEN {{}} ELSE {{t} : t \in waiters[c]}

=============================================================================
