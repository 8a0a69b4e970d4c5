----------------------------- MODULE ThreadPool -----------------------------
(***************************************************************************)
(* suduo::ThreadPool: workers that take tasks from a queue, producers that *)
(* call run() from other threads, and the owner that starts and stops the  *)
(* pool.                                                                   *)
(*                                                                         *)
(*   _running                 running                                      *)
(*   _task_queue              queue                                        *)
(*   _thread_pool             threads, the workers that were started       *)
(*   thread_func()            pc[w], with the task got in job[w]           *)
(*   run()                    job[p], the task run() was called with       *)
(*   start(), stop()          opc                                          *)
(*                                                                         *)
(* Producers call run() once start() has returned: while it runs, run()    *)
(* would read the vector start() is filling.                               *)
(***************************************************************************)
EXTENDS Naturals, Sequences, FiniteSets, Monitor

CONSTANTS Worker, Producer, Owner,
          MaxQueueSize,       \* set_max_queue_size(); 0 means no bound
          MaxTasks            \* bound: calls of run()

ASSUME AgentAssumption ==
  /\ Agent = Worker \cup Producer \cup {Owner}
  /\ Worker \cap Producer = {}
  /\ Owner \notin Worker \cup Producer
ASSUME FiniteAssumption == IsFiniteSet(Worker) /\ IsFiniteSet(Producer)
ASSUME CondAssumption == Cond = {"not_empty", "not_full"}
ASSUME SizeAssumption == MaxQueueSize \in Nat /\ MaxTasks \in Nat

VARIABLES running, queue, threads, pc, opc, job,
          given,      \* the number of tasks run() was called with
          executed    \* history: the tasks that were run

Task == 1..MaxTasks    \* in the order of the calls of run()
NoTask == 0

poolVars == <<running, queue, threads, pc, opc, job, given, executed>>
vars == <<monitorVars, poolVars>>

Init ==
  /\ MonitorInit
  /\ running = FALSE
  /\ queue = <<>>
  /\ threads = {}
  /\ pc = [w \in Worker |-> "none"]
  /\ opc = "new"
  /\ job = [t \in Agent |-> NoTask]
  /\ given = 0
  /\ executed = {}

(***************************************************************************)
(* The owner.                                                              *)
(***************************************************************************)
start ==
  /\ opc = "new"
  /\ running' = TRUE
  /\ opc' = "starting"
  /\ UNCHANGED <<monitorVars, queue, threads, pc, job, given, executed>>

\* The next thread of the vector; the workers are numbered in that order.
start_thread ==
  /\ opc = "starting"
  /\ Worker \ threads # {}
  /\ LET w == CHOOSE x \in Worker \ threads : TRUE
     IN threads' = threads \cup {w} /\ pc' = [pc EXCEPT ![w] = "test"]
  /\ UNCHANGED <<monitorVars, running, queue, opc, job, given, executed>>

start_return ==
  /\ opc = "starting"
  /\ threads = Worker
  /\ opc' = "started"
  /\ UNCHANGED <<monitorVars, running, queue, threads, pc, job, given, executed>>

\* stop(), or ~ThreadPool() of a running pool, calls lock().
stop ==
  /\ opc = "started"
  /\ opc' = "stopping"
  /\ Enter(Owner)
  /\ UNCHANGED <<running, queue, threads, pc, job, given, executed>>

\* Variant: only the producers are woken.
stop_notifies__not_full == waiters["not_full"]
stop_notifies == waiters["not_empty"] \cup waiters["not_full"]

\* Its critical section, with two notifyAll().
stop_body ==
  /\ m[Owner] = "in"
  /\ running' = FALSE
  /\ Leave(Owner, stop_notifies)
  /\ opc' = "joining"
  /\ UNCHANGED <<queue, threads, pc, job, given, executed>>

\* Every thread has been joined.
stop_return ==
  /\ opc = "joining"
  /\ m[Owner] = "out"
  /\ \A w \in threads : pc[w] = "done"
  /\ opc' = "stopped"
  /\ UNCHANGED <<monitorVars, running, queue, threads, pc, job, given, executed>>

(***************************************************************************)
(* run().                                                                  *)
(***************************************************************************)
Started == opc \notin {"new", "starting"}

\* A pool without threads, also one that the owner has yet to start, runs the
\* task on the caller's thread.
run_inline(t) ==
  /\ m[t] = "out"
  /\ (t = Owner /\ opc = "new") \/ (t \in Producer /\ Started)
  /\ threads = {}
  /\ given < MaxTasks
  /\ given' = given + 1
  /\ executed' = executed \cup {given + 1}
  /\ UNCHANGED <<monitorVars, running, queue, threads, pc, opc, job>>

run(p) ==
  /\ Started
  /\ threads # {}
  /\ given < MaxTasks
  /\ given' = given + 1
  /\ job' = [job EXCEPT ![p] = given + 1]
  /\ Enter(p)
  /\ UNCHANGED <<running, queue, threads, pc, opc, executed>>

is_full == MaxQueueSize > 0 /\ Len(queue) >= MaxQueueSize

run_wait(p) ==
  /\ m[p] = "in"
  /\ is_full /\ running
  /\ wait(p, "not_full")
  /\ UNCHANGED poolVars

run_refused(p) ==
  /\ m[p] = "in"
  /\ ~running
  /\ Leave(p, {})
  /\ UNCHANGED poolVars

\* Variant: the wrong condition is notified.
push_notifies__not_full == notify("not_full")
push_notifies == notify("not_empty")

run_push(p) ==
  /\ m[p] = "in"
  /\ ~is_full /\ running
  /\ queue' = Append(queue, job[p])
  /\ \E woken \in push_notifies : Leave(p, woken)
  /\ UNCHANGED <<running, threads, pc, opc, job, given, executed>>

(***************************************************************************)
(* thread_func() and get_next_task().                                      *)
(***************************************************************************)
\* while (_running), read without the mutex; then lock().
thread_test(w) ==
  /\ pc[w] = "test"
  /\ IF running
     THEN /\ pc' = [pc EXCEPT ![w] = "get"]
          /\ Enter(w)
     ELSE /\ pc' = [pc EXCEPT ![w] = "done"]
          /\ UNCHANGED monitorVars
  /\ UNCHANGED <<running, queue, threads, opc, job, given, executed>>

get_wait(w) ==
  /\ m[w] = "in"
  /\ queue = <<>> /\ running
  /\ wait(w, "not_empty")
  /\ UNCHANGED poolVars

\* Stopped with nothing left to do.
get_nothing(w) ==
  /\ m[w] = "in"
  /\ queue = <<>> /\ ~running
  /\ pc' = [pc EXCEPT ![w] = "got"]
  /\ Leave(w, {})
  /\ UNCHANGED <<running, queue, threads, opc, job, given, executed>>

\* Variant: the producers are not told.
get_notifies__none == {{}}
get_notifies == IF MaxQueueSize > 0 THEN notify("not_full") ELSE {{}}

get_task(w) ==
  /\ m[w] = "in"
  /\ queue # <<>>
  /\ job' = [job EXCEPT ![w] = Head(queue)]
  /\ queue' = Tail(queue)
  /\ pc' = [pc EXCEPT ![w] = "got"]
  /\ \E woken \in get_notifies : Leave(w, woken)
  /\ UNCHANGED <<running, threads, opc, given, executed>>

\* get_next_task() has returned: the task, if any, is run.
run_task(w) ==
  /\ pc[w] = "got"
  /\ m[w] = "out"
  /\ executed' = executed \cup ({job[w]} \ {NoTask})
  /\ job' = [job EXCEPT ![w] = NoTask]
  /\ pc' = [pc EXCEPT ![w] = "test"]
  /\ UNCHANGED <<monitorVars, running, queue, threads, opc, given>>

ProducerStep(p) == run_wait(p) \/ run_refused(p) \/ run_push(p)
WorkerStep(w) == thread_test(w) \/ get_wait(w) \/ get_nothing(w) \/ get_task(w) \/ run_task(w)
OwnerStep == start_thread \/ start_return \/ stop_body \/ stop_return
MutexStep(t) == lock(t) /\ UNCHANGED poolVars

Next ==
  \/ start \/ stop \/ OwnerStep
  \/ \E t \in Agent : run_inline(t)
  \/ \E p \in Producer : run(p)
  \/ \E p \in Producer : ProducerStep(p)
  \/ \E w \in Worker : WorkerStep(w)
  \/ \E t \in Agent : MutexStep(t)
  \/ \E t \in Agent : spurious_wakeup(t) /\ UNCHANGED poolVars

Spec == Init /\ [][Next]_vars

\* Threads run, tasks return, and a thread that asks for a free mutex gets it.
\* Nobody has to call start(), stop() or run(), or to be woken without a
\* signal.
PoolFairness ==
  /\ WF_vars(OwnerStep \/ MutexStep(Owner))
  /\ \A p \in Producer : WF_vars(ProducerStep(p) \/ MutexStep(p))
  /\ \A w \in Worker : WF_vars(WorkerStep(w) \/ MutexStep(w))

(***************************************************************************)
(* Properties.                                                             *)
(***************************************************************************)

Asleep(S) == {t \in S : m[t] = "asleep"}
Coming(S) == {t \in S : m[t] \in {"want", "woken", "in"}}

\* No task waits for a busy worker while another worker sleeps: as long as a
\* worker is asleep, each task of the queue has a worker on its way to it.
NoIdleWorker ==
  running /\ Asleep(Worker) # {} => Len(queue) <= Cardinality(Coming(Worker))

\* No producer sleeps beside a free place of the queue: as long as one is
\* asleep, each free place has a producer on its way to it.
NoIdlePlace ==
  running /\ Asleep(Producer) # {} => MaxQueueSize - Len(queue) <= Cardinality(Coming(Producer))

\* The pool catches up with its producers: every task run() was called with is
\* run, unless the pool is stopped; then it may be dropped.
EveryTaskRuns == opc = "started" ~> executed = 1..given \/ ~running

\* stop() ends every worker, the sleeping ones too, and returns.
StopReturns == opc = "stopping" ~> opc = "stopped"
=============================================================================
