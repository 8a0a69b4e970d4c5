-------------------------- MODULE ThreadPoolProofs --------------------------
(***************************************************************************)
(* Proofs about ThreadPool, for any finite sets of workers and producers,  *)
(* any bound of the queue, and any number of tasks and spurious wakeups.   *)
(***************************************************************************)
EXTENDS ThreadPool, FiniteSetTheorems, TLAPS

(***************************************************************************)
(* The wait sets are exactly the threads asleep, workers on not_empty and  *)
(* producers on not_full: so a notify() that finds nobody finds nobody     *)
(* asleep.  Before start() nobody is inside.                               *)
(***************************************************************************)
PoolTypeOK ==
  /\ m \in [Agent -> Stage]
  /\ waiters \in [Cond -> SUBSET Agent]
  /\ running \in BOOLEAN
  /\ queue \in Seq(Nat)
  /\ job \in [Agent -> Nat]
  /\ given \in Nat
  /\ pc \in [Worker -> {"none", "test", "get", "got", "done"}]

WaitSets ==
  /\ waiters["not_empty"] = Asleep(Worker)
  /\ waiters["not_full"] = Asleep(Producer)

BeforeStart ==
  /\ running => opc # "new"
  /\ opc = "new" => /\ queue = <<>>
                    /\ \A t \in Agent : m[t] = "out"
                    /\ \A w \in Worker : pc[w] = "none"

PoolInv == PoolTypeOK /\ WaitSets /\ BeforeStart

\* The three kinds of threads.
LEMMA Agents ==
  /\ Worker \subseteq Agent /\ Producer \subseteq Agent /\ Owner \in Agent
  /\ Worker \cap Producer = {} /\ Owner \notin Worker /\ Owner \notin Producer
  BY AgentAssumption

(***************************************************************************)
(* The steps of the monitor.                                               *)
(***************************************************************************)
\* A thread asks for the mutex, or gets it.
LEMMA EnterOrLock ==
  ASSUME PoolTypeOK, WaitSets, NEW t \in Agent, Enter(t) \/ lock(t)
  PROVE  /\ m' \in [Agent -> Stage] /\ waiters' \in [Cond -> SUBSET Agent]
         /\ WaitSets'
         /\ \A S \in SUBSET Agent : Asleep(S)' = Asleep(S) /\ Coming(S) \subseteq Coming(S)'
<1> USE DEF PoolTypeOK, Stage
<1>1. m' \in [Agent -> Stage] /\ waiters' = waiters
  BY DEF Enter, lock
<1>2. \A u \in Agent : /\ m'[u] = "asleep" <=> m[u] = "asleep"
                       /\ m[u] \in {"want", "woken", "in"} => m'[u] \in {"want", "woken", "in"}
  BY DEF Enter, lock
<1>3. \A S \in SUBSET Agent : Asleep(S)' = Asleep(S) /\ Coming(S) \subseteq Coming(S)'
  BY <1>2 DEF Asleep, Coming
<1> QED
  BY <1>1, <1>3, Agents DEF WaitSets

\* A thread goes to sleep on the condition of its side.
LEMMA Waits ==
  ASSUME PoolTypeOK, WaitSets, NEW t \in Agent, m[t] = "in", NEW c \in Cond, wait(t, c),
         (t \in Worker /\ c = "not_empty") \/ (t \in Producer /\ c = "not_full")
  PROVE  /\ m' \in [Agent -> Stage] /\ waiters' \in [Cond -> SUBSET Agent]
         /\ WaitSets'
         /\ \A S \in SUBSET Agent :
              t \notin S => Asleep(S)' = Asleep(S) /\ Coming(S)' = Coming(S)
<1> USE DEF PoolTypeOK, Stage
<1>1. m' = [m EXCEPT ![t] = "asleep"] /\ waiters' = [waiters EXCEPT ![c] = @ \cup {t}]
  BY DEF wait
<1>2. m' \in [Agent -> Stage] /\ waiters' \in [Cond -> SUBSET Agent]
  BY <1>1
<1>3. Asleep(Worker)' = IF t \in Worker THEN Asleep(Worker) \cup {t} ELSE Asleep(Worker)
  BY <1>1, Agents DEF Asleep
<1>4. Asleep(Producer)' = IF t \in Producer THEN Asleep(Producer) \cup {t} ELSE Asleep(Producer)
  BY <1>1, Agents DEF Asleep
<1>5. WaitSets'
  BY <1>1, <1>3, <1>4, Agents, CondAssumption DEF WaitSets
<1>6. \A S \in SUBSET Agent : t \notin S => Asleep(S)' = Asleep(S) /\ Coming(S)' = Coming(S)
  BY <1>1 DEF Asleep, Coming
<1> QED
  BY <1>2, <1>5, <1>6

\* A thread leaves, having woken some threads that were asleep.
LEMMA Leaves ==
  ASSUME PoolTypeOK, WaitSets, NEW t \in Agent, m[t] = "in", NEW woken \in SUBSET Agent,
         \A u \in woken : m[u] = "asleep", Leave(t, woken)
  PROVE  /\ m' \in [Agent -> Stage] /\ waiters' \in [Cond -> SUBSET Agent]
         /\ WaitSets'
         /\ \A S \in SUBSET Agent : /\ Asleep(S)' = Asleep(S) \ woken
                                    /\ Coming(S)' = (Coming(S) \ {t}) \cup (woken \cap S)
<1> USE DEF PoolTypeOK, Stage
<1>1. /\ m' = [u \in Agent |-> IF u = t THEN "out" ELSE IF u \in woken THEN "woken" ELSE m[u]]
      /\ waiters' = [c \in Cond |-> waiters[c] \ woken]
  BY DEF Leave
<1>2. m' \in [Agent -> Stage] /\ waiters' \in [Cond -> SUBSET Agent]
  BY <1>1
<1>3. t \notin woken
  OBVIOUS
<1>4. \A S \in SUBSET Agent : Asleep(S)' = Asleep(S) \ woken
  BY <1>1, <1>3 DEF Asleep
<1>5. \A S \in SUBSET Agent : Coming(S)' = (Coming(S) \ {t}) \cup (woken \cap S)
  BY <1>1, <1>3 DEF Coming
<1>6. WaitSets'
  BY <1>1, <1>4, Agents, CondAssumption DEF WaitSets
<1> QED
  BY <1>2, <1>4, <1>5, <1>6

\* A wait returns without a signal.
LEMMA WakesUp ==
  ASSUME PoolTypeOK, WaitSets, NEW t \in Agent, spurious_wakeup(t)
  PROVE  /\ m' \in [Agent -> Stage] /\ waiters' \in [Cond -> SUBSET Agent]
         /\ WaitSets'
         /\ \A S \in SUBSET Agent : /\ Asleep(S)' = Asleep(S) \ {t}
                                    /\ Coming(S) \subseteq Coming(S)'
<1> USE DEF PoolTypeOK, Stage
<1>1. /\ m' = [m EXCEPT ![t] = "woken"]
      /\ waiters' = [c \in Cond |-> waiters[c] \ {t}]
      /\ m[t] = "asleep"
  BY DEF spurious_wakeup
<1>2. m' \in [Agent -> Stage] /\ waiters' \in [Cond -> SUBSET Agent]
  BY <1>1
<1>3. \A S \in SUBSET Agent : Asleep(S)' = Asleep(S) \ {t}
  BY <1>1 DEF Asleep
<1>4. \A S \in SUBSET Agent : Coming(S) \subseteq Coming(S)'
  BY <1>1 DEF Coming
<1>5. WaitSets'
  BY <1>1, <1>3, Agents, CondAssumption DEF WaitSets
<1> QED
  BY <1>2, <1>3, <1>4, <1>5

\* What notify() wakes: one sleeping thread of the side, unless none sleeps.
LEMMA Notifies ==
  ASSUME PoolTypeOK, WaitSets, NEW S, NEW c \in Cond,
         (S = Worker /\ c = "not_empty") \/ (S = Producer /\ c = "not_full"),
         NEW woken \in notify(c)
  PROVE  /\ woken \in SUBSET Agent /\ woken \subseteq Asleep(S)
         /\ \A u \in woken : m[u] = "asleep"
         /\ Asleep(S) # {} => \E u \in Asleep(S) : woken = {u}
<1>1. waiters[c] = Asleep(S)
  BY DEF WaitSets
<1>2. IF Asleep(S) = {} THEN woken = {} ELSE \E u \in Asleep(S) : woken = {u}
  BY <1>1 DEF notify
<1>3. \A u \in Asleep(S) : u \in Agent /\ m[u] = "asleep"
  BY Agents DEF Asleep
<1> QED
  BY <1>2, <1>3

(***************************************************************************)
(* Counting the threads on their way.                                      *)
(***************************************************************************)
\* The threads of a side on their way can be counted, and more are more.
LEMMA Counts ==
  ASSUME NEW S, IsFiniteSet(S)
  PROVE  /\ IsFiniteSet(Coming(S)) /\ Cardinality(Coming(S)) \in Nat
         /\ IsFiniteSet(Coming(S)') /\ Cardinality(Coming(S)') \in Nat
         /\ Coming(S) \subseteq Coming(S)' => Cardinality(Coming(S)) <= Cardinality(Coming(S)')
<1>1. Coming(S) \in SUBSET S /\ Coming(S)' \in SUBSET S
  BY DEF Coming
<1>2. IsFiniteSet(Coming(S)) /\ IsFiniteSet(Coming(S)')
  BY <1>1, FS_Subset
<1> QED
  BY <1>2, FS_Subset, FS_CardinalityType

\* One thread less on its way, or one more.
LEMMA CountsOne ==
  ASSUME NEW S, IsFiniteSet(S), NEW t
  PROVE  /\ Coming(S)' = Coming(S) \ {t} => Cardinality(Coming(S)') >= Cardinality(Coming(S)) - 1
         /\ Coming(S)' = Coming(S) \cup {t} /\ t \notin Coming(S)
              => Cardinality(Coming(S)') = Cardinality(Coming(S)) + 1
  BY Counts, FS_RemoveElement, FS_AddElement

(***************************************************************************)
(* The invariant.                                                          *)
(***************************************************************************)
\* The notifications of the pool's critical sections are notify() of a
\* condition, or nothing, or everybody.
LEMMA PoolWakes ==
  ASSUME PoolInv
  PROVE  /\ \A woken \in push_notifies \cup get_notifies \cup {stop_notifies} \cup {{}} :
              woken \in SUBSET Agent /\ \A u \in woken : m[u] = "asleep"
<1> USE DEF PoolInv
<1>1. "not_empty" \in Cond /\ "not_full" \in Cond
  BY CondAssumption
<1>2. \A woken \in notify("not_empty") \cup notify("not_full") :
        woken \in SUBSET Agent /\ \A u \in woken : m[u] = "asleep"
  BY <1>1, Notifies
<1>3. stop_notifies \in SUBSET Agent /\ \A u \in stop_notifies : m[u] = "asleep"
  BY Agents DEF stop_notifies, WaitSets, Asleep
<1> QED
  BY <1>2, <1>3 DEF push_notifies, get_notifies

\* Every step preserves the types, the wait sets and what holds before start().
LEMMA PoolStep == PoolInv /\ [Next]_vars => PoolInv'
<1> SUFFICES ASSUME PoolInv, [Next]_vars PROVE PoolInv'
  OBVIOUS
<1> USE Agents DEF PoolInv
<1>1. ASSUME UNCHANGED <<m, waiters>>,
             start \/ start_thread \/ start_return \/ stop_return
               \/ (\E t \in Agent : run_inline(t)) \/ \E w \in Worker : run_task(w)
      PROVE  PoolInv'
  <2>1. WaitSets'
    BY <1>1 DEF WaitSets, Asleep
  <2>2. CASE start
    BY <1>1, <2>1, <2>2 DEF PoolTypeOK, BeforeStart, start
  <2>5. CASE start_return \/ stop_return
    BY <1>1, <2>1, <2>5 DEF PoolTypeOK, BeforeStart, start_return, stop_return
  <2>6. ASSUME NEW t \in Agent, run_inline(t)
        PROVE  PoolInv'
    <3>1. given' \in Nat
      BY <2>6 DEF PoolTypeOK, run_inline
    <3> QED
      BY <1>1, <2>1, <2>6, <3>1 DEF PoolTypeOK, BeforeStart, run_inline
  <2>3. CASE start_thread
    <3>1. PICK w \in Worker : pc' = [pc EXCEPT ![w] = "test"]
      BY <2>3 DEF start_thread
    <3> QED
      BY <1>1, <2>1, <2>3, <3>1 DEF PoolTypeOK, BeforeStart, start_thread
  <2>4. ASSUME NEW w \in Worker, run_task(w)
        PROVE  PoolInv'
    BY <1>1, <2>1, <2>4 DEF PoolTypeOK, BeforeStart, run_task, NoTask
  <2> QED
    BY <1>1, <2>2, <2>3, <2>4, <2>5, <2>6
<1>2. CASE stop
  BY <1>2, EnterOrLock DEF stop, PoolTypeOK, BeforeStart
<1>3. CASE stop_body
  BY <1>3, Leaves, PoolWakes DEF stop_body, PoolTypeOK, BeforeStart
<1>4. ASSUME NEW p \in Producer, run(p)
      PROVE  PoolInv'
  <2>1. m' \in [Agent -> Stage] /\ waiters' \in [Cond -> SUBSET Agent] /\ WaitSets'
    BY <1>4, EnterOrLock DEF run
  <2>2. given' \in Nat /\ job' \in [Agent -> Nat]
    BY <1>4 DEF run, PoolTypeOK
  <2> QED
    BY <1>4, <2>1, <2>2 DEF run, PoolTypeOK, BeforeStart, Started
<1>5. ASSUME NEW p \in Producer, ProducerStep(p)
      PROVE  PoolInv'
  <2>1. CASE run_wait(p)
    <3>1. m' \in [Agent -> Stage] /\ waiters' \in [Cond -> SUBSET Agent] /\ WaitSets'
      BY <2>1, Waits, CondAssumption DEF run_wait
    <3> QED
      BY <2>1, <3>1 DEF run_wait, PoolTypeOK, BeforeStart, poolVars
  <2>2. CASE run_refused(p)
    <3>1. m' \in [Agent -> Stage] /\ waiters' \in [Cond -> SUBSET Agent] /\ WaitSets'
      BY <2>2, Leaves DEF run_refused
    <3> QED
      BY <2>2, <3>1 DEF run_refused, PoolTypeOK, BeforeStart, poolVars
  <2>3. CASE run_push(p)
    <3>1. m' \in [Agent -> Stage] /\ waiters' \in [Cond -> SUBSET Agent] /\ WaitSets'
      BY <2>3, Leaves, PoolWakes DEF run_push
    <3>2. queue' \in Seq(Nat)
      BY <2>3 DEF run_push, PoolTypeOK
    <3> QED
      BY <2>3, <3>1, <3>2 DEF run_push, PoolTypeOK, BeforeStart
  <2> QED
    BY <1>5, <2>1, <2>2, <2>3 DEF ProducerStep
<1>6. ASSUME NEW w \in Worker, thread_test(w) \/ get_wait(w) \/ get_nothing(w) \/ get_task(w)
      PROVE  PoolInv'
  <2>1. CASE thread_test(w)
    <3>1. m' \in [Agent -> Stage] /\ waiters' \in [Cond -> SUBSET Agent] /\ WaitSets'
      BY <2>1, EnterOrLock DEF thread_test, monitorVars, PoolTypeOK, WaitSets, Asleep
    <3>2. pc[w] = "test" /\ opc # "new"
      BY <2>1 DEF thread_test, BeforeStart
    <3> QED
      BY <2>1, <3>1, <3>2 DEF thread_test, PoolTypeOK, BeforeStart
  <2>2. CASE get_wait(w)
    <3>1. m' \in [Agent -> Stage] /\ waiters' \in [Cond -> SUBSET Agent] /\ WaitSets'
      BY <2>2, Waits, CondAssumption DEF get_wait
    <3> QED
      BY <2>2, <3>1 DEF get_wait, PoolTypeOK, BeforeStart, poolVars
  <2>3. CASE get_nothing(w)
    <3>1. m' \in [Agent -> Stage] /\ waiters' \in [Cond -> SUBSET Agent] /\ WaitSets'
      BY <2>3, Leaves DEF get_nothing
    <3> QED
      BY <2>3, <3>1 DEF get_nothing, PoolTypeOK, BeforeStart
  <2>4. CASE get_task(w)
    <3>1. m' \in [Agent -> Stage] /\ waiters' \in [Cond -> SUBSET Agent] /\ WaitSets'
      BY <2>4, Leaves, PoolWakes DEF get_task
    <3>2. queue' \in Seq(Nat) /\ Head(queue) \in Nat
      BY <2>4 DEF get_task, PoolTypeOK
    <3> QED
      BY <2>4, <3>1, <3>2 DEF get_task, PoolTypeOK, BeforeStart
  <2> QED
    BY <1>6, <2>1, <2>2, <2>3, <2>4
<1>7. ASSUME NEW t \in Agent, MutexStep(t)
      PROVE  PoolInv'
  BY <1>7, EnterOrLock DEF MutexStep, lock, PoolTypeOK, BeforeStart, poolVars
<1>8. ASSUME NEW t \in Agent, spurious_wakeup(t), UNCHANGED poolVars
      PROVE  PoolInv'
  BY <1>8, WakesUp DEF spurious_wakeup, PoolTypeOK, BeforeStart, poolVars
<1>9. CASE UNCHANGED vars
  BY <1>9 DEF vars, monitorVars, poolVars, PoolTypeOK, WaitSets, BeforeStart, Asleep
<1> QED
  BY <1>1, <1>2, <1>3, <1>4, <1>5, <1>6, <1>7, <1>8, <1>9
     DEF Next, OwnerStep, WorkerStep, start, start_thread, start_return, stop_return,
         run_inline, run_task, monitorVars

\* The invariant holds in every behaviour.
THEOREM PoolInvariance == Spec => []PoolInv
<1>1. Init => PoolInv
  <2> SUFFICES ASSUME Init PROVE PoolInv
    OBVIOUS
  <2> USE DEF Init, MonitorInit
  <2>1. m \in [Agent -> Stage] /\ waiters \in [Cond -> SUBSET Agent]
    BY DEF Stage
  <2>2. queue \in Seq(Nat) /\ given \in Nat
    OBVIOUS
  <2>6. running \in BOOLEAN
    OBVIOUS
  <2>3. job \in [Agent -> Nat] /\ pc \in [Worker -> {"none", "test", "get", "got", "done"}]
    BY DEF NoTask
  <2>4. WaitSets
    BY Agents, CondAssumption DEF WaitSets, Asleep
  <2>5. BeforeStart
    BY DEF BeforeStart
  <2> QED
    BY <2>1, <2>2, <2>3, <2>4, <2>5, <2>6 DEF PoolInv, PoolTypeOK
<1> QED
  BY <1>1, PoolStep, PTL DEF Spec

(***************************************************************************)
(* Nobody sleeps beside work.                                              *)
(***************************************************************************)
\* The steps that concern neither side: they move nobody, or send a thread to
\* the mutex, or end the pool, or wake a thread for nothing.
Neutral ==
  \/ start \/ start_thread \/ start_return \/ stop \/ stop_body \/ stop_return
  \/ \E t \in Agent : run_inline(t) \/ MutexStep(t) \/ (spurious_wakeup(t) /\ UNCHANGED poolVars)
  \/ \E p \in Producer : run(p) \/ run_refused(p)
  \/ \E w \in Worker : thread_test(w) \/ get_nothing(w) \/ run_task(w)
  \/ UNCHANGED vars

\* After them, a pool that runs has the queue it had, everyone asleep was so
\* before, and everyone on the way still is; or it has just been started.
LEMMA NeutralKeeps ==
  ASSUME PoolInv, Neutral, running', NEW S \in SUBSET Agent
  PROVE  \/ queue' = queue /\ running /\ Asleep(S)' \subseteq Asleep(S) /\ Coming(S) \subseteq Coming(S)'
         \/ Asleep(S)' = {}
<1> USE DEF PoolInv
<1>1. ASSUME NEW t \in Agent, Enter(t) \/ MutexStep(t), UNCHANGED <<queue, running>>
      PROVE  queue' = queue /\ running /\ Asleep(S)' \subseteq Asleep(S) /\ Coming(S) \subseteq Coming(S)'
  BY <1>1, EnterOrLock DEF MutexStep
<1>2. ASSUME UNCHANGED <<m, queue, running>>
      PROVE  queue' = queue /\ running /\ Asleep(S)' \subseteq Asleep(S) /\ Coming(S) \subseteq Coming(S)'
  BY <1>2 DEF Asleep, Coming
<1>3. CASE start
  BY <1>3 DEF start, BeforeStart, Asleep, monitorVars
<1>4. CASE start_thread \/ start_return \/ stop_return \/ UNCHANGED vars
  BY <1>2, <1>4 DEF start_thread, start_return, stop_return, vars, monitorVars, poolVars
<1>5. CASE stop \/ stop_body
  BY <1>1, <1>5, Agents DEF stop, stop_body
<1>6. ASSUME NEW t \in Agent, run_inline(t) \/ MutexStep(t) \/ (spurious_wakeup(t) /\ UNCHANGED poolVars)
      PROVE  queue' = queue /\ running /\ Asleep(S)' \subseteq Asleep(S) /\ Coming(S) \subseteq Coming(S)'
  <2>1. CASE run_inline(t)
    BY <1>2, <2>1 DEF run_inline, monitorVars
  <2>2. CASE MutexStep(t)
    BY <1>1, <2>2 DEF MutexStep, poolVars
  <2>3. CASE spurious_wakeup(t) /\ UNCHANGED poolVars
    BY <2>3, WakesUp DEF poolVars
  <2> QED
    BY <1>6, <2>1, <2>2, <2>3
<1>7. ASSUME NEW p \in Producer, run(p) \/ run_refused(p)
      PROVE  queue' = queue /\ running /\ Asleep(S)' \subseteq Asleep(S) /\ Coming(S) \subseteq Coming(S)'
  BY <1>1, <1>7, Agents DEF run, run_refused, poolVars
<1>8. ASSUME NEW w \in Worker, thread_test(w) \/ get_nothing(w) \/ run_task(w)
      PROVE  queue' = queue /\ running /\ Asleep(S)' \subseteq Asleep(S) /\ Coming(S) \subseteq Coming(S)'
  BY <1>1, <1>2, <1>8, Agents DEF thread_test, get_nothing, run_task, monitorVars
<1> QED
  BY <1>3, <1>4, <1>5, <1>6, <1>7, <1>8 DEF Neutral

\* The steps that are not neutral.
LEMMA StepKinds ==
  ASSUME [Next]_vars
  PROVE  \/ Neutral
         \/ \E p \in Producer : run_wait(p) \/ run_push(p)
         \/ \E w \in Worker : get_wait(w) \/ get_task(w)
  BY DEF Next, OwnerStep, ProducerStep, WorkerStep, Neutral

\* While a worker sleeps, no step leaves a task without a worker on its way.
LEMMA WorkerKept == PoolInv /\ NoIdleWorker /\ [Next]_vars => NoIdleWorker'
<1> SUFFICES ASSUME PoolInv, NoIdleWorker, [Next]_vars, running', Asleep(Worker)' # {}
             PROVE  Len(queue') <= Cardinality(Coming(Worker)')
  BY DEF NoIdleWorker
<1> DEFINE n == Cardinality(Coming(Worker))
<1>0. n \in Nat /\ Cardinality(Coming(Worker)') \in Nat /\ Len(queue) \in Nat /\ queue \in Seq(Nat)
  BY Counts, FiniteAssumption DEF PoolInv, PoolTypeOK
<1>1. CASE Neutral
  <2>1. /\ queue' = queue /\ running
        /\ Asleep(Worker)' \subseteq Asleep(Worker) /\ Coming(Worker) \subseteq Coming(Worker)'
    BY <1>1, NeutralKeeps, Agents
  <2>2. Len(queue) <= n
    BY <2>1 DEF NoIdleWorker
  <2>3. n <= Cardinality(Coming(Worker)')
    BY <2>1, Counts, FiniteAssumption
  <2> QED
    BY <1>0, <2>1, <2>2, <2>3
<1>2. ASSUME NEW p \in Producer, run_wait(p)
      PROVE  Len(queue') <= Cardinality(Coming(Worker)')
  <2>1. Asleep(Worker)' = Asleep(Worker) /\ Coming(Worker)' = Coming(Worker)
    BY <1>2, Waits, Agents, CondAssumption DEF run_wait, PoolInv
  <2> QED
    BY <1>2, <2>1 DEF run_wait, poolVars, NoIdleWorker
<1>3. ASSUME NEW p \in Producer, run_push(p)
      PROVE  Len(queue') <= Cardinality(Coming(Worker)')
  <2>1. PICK woken \in notify("not_empty") : Leave(p, woken)
    BY <1>3 DEF run_push, push_notifies
  <2>2. /\ woken \in SUBSET Agent /\ woken \subseteq Asleep(Worker)
        /\ \A u \in woken : m[u] = "asleep"
        /\ Asleep(Worker) # {} => \E u \in Asleep(Worker) : woken = {u}
    BY Notifies, CondAssumption DEF PoolInv
  <2>3. /\ Asleep(Worker)' = Asleep(Worker) \ woken
        /\ Coming(Worker)' = (Coming(Worker) \ {p}) \cup (woken \cap Worker)
    BY <1>3, <2>1, <2>2, Leaves, Agents DEF run_push, PoolInv
  <2>4. PICK u \in Asleep(Worker) : woken = {u}
    BY <2>2, <2>3
  <2>5. Coming(Worker)' = Coming(Worker) \cup {u} /\ u \notin Coming(Worker)
    BY <2>3, <2>4, Agents DEF Coming, Asleep
  <2>6. Cardinality(Coming(Worker)') = n + 1
    BY <2>5, CountsOne, FiniteAssumption
  <2>7. running /\ Len(queue') = Len(queue) + 1
    BY <1>0, <1>3, Agents DEF run_push, PoolInv, PoolTypeOK
  <2>8. Len(queue) <= n
    BY <2>4, <2>7 DEF NoIdleWorker
  <2> QED
    BY <1>0, <2>6, <2>7, <2>8
<1>4. ASSUME NEW w \in Worker, get_wait(w)
      PROVE  Len(queue') <= Cardinality(Coming(Worker)')
  BY <1>0, <1>4 DEF get_wait, poolVars
<1>5. ASSUME NEW w \in Worker, get_task(w)
      PROVE  Len(queue') <= Cardinality(Coming(Worker)')
  <2>1. PICK woken \in get_notifies : Leave(w, woken)
    BY <1>5 DEF get_task
  <2>2. /\ woken \in SUBSET Agent /\ \A u \in woken : m[u] = "asleep"
        /\ woken \cap Worker = {}
    BY Notifies, CondAssumption, Agents, PoolWakes DEF PoolInv, get_notifies, Asleep
  <2>3. Asleep(Worker)' = Asleep(Worker) \ woken /\ Coming(Worker)' = Coming(Worker) \ {w}
    BY <1>5, <2>1, <2>2, Leaves, Agents DEF get_task, PoolInv
  <2>4. Cardinality(Coming(Worker)') >= n - 1
    BY <2>3, CountsOne, FiniteAssumption
  <2>5. running /\ Len(queue') = Len(queue) - 1
    BY <1>0, <1>5 DEF get_task
  <2>6. Len(queue) <= n
    BY <2>3, <2>5 DEF NoIdleWorker
  <2> QED
    BY <1>0, <2>4, <2>5, <2>6
<1> QED
  BY <1>1, <1>2, <1>3, <1>4, <1>5, StepKinds

\* While a producer sleeps, no step leaves a free place without a producer on
\* its way.
LEMMA ProducerKept == PoolInv /\ NoIdlePlace /\ [Next]_vars => NoIdlePlace'
<1> SUFFICES ASSUME PoolInv, NoIdlePlace, [Next]_vars, running', Asleep(Producer)' # {}
             PROVE  MaxQueueSize - Len(queue') <= Cardinality(Coming(Producer)')
  BY DEF NoIdlePlace
<1> DEFINE n == Cardinality(Coming(Producer))
<1>0. /\ n \in Nat /\ Cardinality(Coming(Producer)') \in Nat
      /\ queue \in Seq(Nat) /\ Len(queue) \in Nat /\ MaxQueueSize \in Nat
  BY Counts, FiniteAssumption, SizeAssumption DEF PoolInv, PoolTypeOK
<1>1. CASE Neutral
  <2>1. /\ queue' = queue /\ running
        /\ Asleep(Producer)' \subseteq Asleep(Producer) /\ Coming(Producer) \subseteq Coming(Producer)'
    BY <1>1, NeutralKeeps, Agents
  <2>2. MaxQueueSize - Len(queue) <= n
    BY <2>1 DEF NoIdlePlace
  <2>3. n <= Cardinality(Coming(Producer)')
    BY <2>1, Counts, FiniteAssumption
  <2> QED
    BY <1>0, <2>1, <2>2, <2>3
<1>2. ASSUME NEW w \in Worker, get_wait(w)
      PROVE  MaxQueueSize - Len(queue') <= Cardinality(Coming(Producer)')
  <2>1. Asleep(Producer)' = Asleep(Producer) /\ Coming(Producer)' = Coming(Producer)
    BY <1>2, Waits, Agents, CondAssumption DEF get_wait, PoolInv
  <2> QED
    BY <1>2, <2>1 DEF get_wait, poolVars, NoIdlePlace
<1>3. ASSUME NEW p \in Producer, run_wait(p)
      PROVE  MaxQueueSize - Len(queue') <= Cardinality(Coming(Producer)')
  BY <1>0, <1>3 DEF run_wait, is_full, poolVars
<1>4. ASSUME NEW p \in Producer, run_push(p)
      PROVE  MaxQueueSize - Len(queue') <= Cardinality(Coming(Producer)')
  <2>1. PICK woken \in notify("not_empty") : Leave(p, woken)
    BY <1>4 DEF run_push, push_notifies
  <2>2. /\ woken \in SUBSET Agent /\ \A u \in woken : m[u] = "asleep"
        /\ woken \cap Producer = {}
    BY Notifies, CondAssumption, Agents DEF PoolInv, Asleep
  <2>3. Asleep(Producer)' = Asleep(Producer) \ woken /\ Coming(Producer)' = Coming(Producer) \ {p}
    BY <1>4, <2>1, <2>2, Leaves, Agents DEF run_push, PoolInv
  <2>4. Cardinality(Coming(Producer)') >= n - 1
    BY <2>3, CountsOne, FiniteAssumption
  <2>5. running /\ Len(queue') = Len(queue) + 1
    BY <1>0, <1>4, Agents DEF run_push, PoolInv, PoolTypeOK
  <2>6. MaxQueueSize - Len(queue) <= n
    BY <2>3, <2>5 DEF NoIdlePlace
  <2> QED
    BY <1>0, <2>4, <2>5, <2>6
<1>5. ASSUME NEW w \in Worker, get_task(w)
      PROVE  MaxQueueSize - Len(queue') <= Cardinality(Coming(Producer)')
  <2>1. Len(queue') = Len(queue) - 1 /\ running /\ Len(queue') \in Nat
    BY <1>0, <1>5 DEF get_task
  <2>2. CASE MaxQueueSize = 0
    BY <1>0, <2>1, <2>2
  <2>3. CASE MaxQueueSize > 0
    <3>1. PICK woken \in notify("not_full") : Leave(w, woken)
      BY <1>5, <2>3 DEF get_task, get_notifies
    <3>2. /\ woken \in SUBSET Agent /\ woken \subseteq Asleep(Producer)
          /\ \A u \in woken : m[u] = "asleep"
          /\ Asleep(Producer) # {} => \E u \in Asleep(Producer) : woken = {u}
      BY Notifies, CondAssumption DEF PoolInv
    <3>3. /\ Asleep(Producer)' = Asleep(Producer) \ woken
          /\ Coming(Producer)' = (Coming(Producer) \ {w}) \cup (woken \cap Producer)
      BY <1>5, <3>1, <3>2, Leaves, Agents DEF get_task, PoolInv
    <3>4. PICK u \in Asleep(Producer) : woken = {u}
      BY <3>2, <3>3
    <3>5. Coming(Producer)' = Coming(Producer) \cup {u} /\ u \notin Coming(Producer)
      BY <3>3, <3>4, Agents DEF Coming, Asleep
    <3>6. Cardinality(Coming(Producer)') = n + 1
      BY <3>5, CountsOne, FiniteAssumption
    <3>7. MaxQueueSize - Len(queue) <= n
      BY <2>1, <3>4 DEF NoIdlePlace
    <3> QED
      BY <1>0, <2>1, <3>6, <3>7
  <2> QED
    BY <1>0, <2>2, <2>3
<1> QED
  BY <1>1, <1>2, <1>3, <1>4, <1>5, StepKinds

\* notify() instead of notifyAll() suffices in run(): as long as a worker sleeps
\* in get_next_task(), each queued task has a worker on its way to it, however
\* many workers and producers there are.
THEOREM NoWorkerIdle == Spec => []NoIdleWorker
<1>1. Init => NoIdleWorker
  BY DEF Init, NoIdleWorker
<1> QED
  BY <1>1, PoolInvariance, WorkerKept, PTL DEF Spec

\* And so in get_next_task(): as long as a producer sleeps in run(), each free
\* place of the queue has a producer on its way to it.
THEOREM NoPlaceIdle == Spec => []NoIdlePlace
<1>1. Init => NoIdlePlace
  BY DEF Init, NoIdlePlace
<1> QED
  BY <1>1, PoolInvariance, ProducerKept, PTL DEF Spec
=============================================================================
