--------------------------- MODULE EventLoopThread ---------------------------
(***************************************************************************)
(* suduo::net::EventLoopThread: an object, used by its Owner, that starts  *)
(* a thread (LoopThread) whose stack holds an EventLoop.  start_loop()     *)
(* hands the loop's address to the owner through _loop, _mutex and _cond;  *)
(* the destructor reads _loop, without the mutex, calls quit() and joins.  *)
(*                                                                         *)
(*   _loop != nullptr           loop_ptr                                   *)
(*   holder of _mutex           mutex                                      *)
(*   position of the owner      opc                                        *)
(*   position of thread_func()  wpc                                        *)
(* The loop itself is EventLoop, step by step; only its calls are gated by *)
(* when the two threads can make them.                                     *)
(***************************************************************************)
EXTENDS EventLoop

CONSTANTS Owner,   \* the thread that creates and destroys the object
          Settled  \* TRUE: it destroys it only after one of its functors ran

NoThread == "nobody"   \* the holder of a free mutex

ASSUME OwnerAssumption ==
  /\ Owner \in Thread \ {LoopThread}
  /\ NoThread \notin Thread
  /\ Settled \in BOOLEAN

VARIABLES opc, wpc, loop_ptr, mutex

threadVars == <<opc, wpc, loop_ptr, mutex>>
allVars == <<vars, threadVars>>

\* The types, and that the mutex is held exactly by the thread whose position
\* is inside a critical section.
ThreadTypeOK ==
  /\ opc \in {"unstarted", "locking", "checking", "waiting", "started", "quit", "join", "gone"}
  /\ wpc \in {"none", "init", "published", "looping", "cleared", "unlocked", "finished"}
  /\ loop_ptr \in BOOLEAN
  /\ mutex \in {NoThread, Owner, LoopThread}
  /\ mutex = Owner <=> opc = "checking"
  /\ mutex = LoopThread <=> wpc \in {"published", "cleared"}

ThreadInit ==
  /\ Init
  /\ opc = "unstarted"
  /\ wpc = "none"
  /\ loop_ptr = FALSE
  /\ mutex = NoThread

\* The EventLoop object on the thread's stack exists.
LoopAlive == wpc \in {"init", "published", "looping", "cleared", "unlocked"}

(***************************************************************************)
(* start_loop()                                                            *)
(***************************************************************************)
start_thread ==
  /\ opc = "unstarted"
  /\ opc' = "locking"
  /\ wpc' = "init"
  /\ UNCHANGED <<loop_ptr, mutex, vars>>

start_lock ==
  /\ opc = "locking"
  /\ mutex = NoThread
  /\ mutex' = Owner
  /\ opc' = "checking"
  /\ UNCHANGED <<wpc, loop_ptr, vars>>

\* while (_loop == nullptr) _cond.wait(): the wait gives up the mutex.
start_check ==
  /\ opc = "checking"
  /\ mutex' = NoThread
  /\ opc' = IF loop_ptr THEN "started" ELSE "waiting"
  /\ UNCHANGED <<wpc, loop_ptr, vars>>

\* pthread_cond_wait() may return without a notification.
spurious_wakeup ==
  /\ opc = "waiting"
  /\ opc' = "locking"
  /\ UNCHANGED <<wpc, loop_ptr, mutex, vars>>

(***************************************************************************)
(* thread_func()                                                           *)
(***************************************************************************)
\* Variant: the address is published and the owner is not notified.
publish__silent ==
  /\ wpc = "init"
  /\ LoopThread \notin waking
  /\ mutex = NoThread
  /\ mutex' = LoopThread
  /\ loop_ptr' = TRUE
  /\ wpc' = "published"
  /\ UNCHANGED <<opc, vars>>

\* _loop = &loop; _cond.notify(); after the init callback, under the mutex.
publish ==
  /\ wpc = "init"
  /\ LoopThread \notin waking
  /\ mutex = NoThread
  /\ mutex' = LoopThread
  /\ loop_ptr' = TRUE
  /\ opc' = IF opc = "waiting" THEN "locking" ELSE opc
  /\ wpc' = "published"
  /\ UNCHANGED vars

publish_unlock ==
  /\ wpc = "published"
  /\ mutex' = NoThread
  /\ wpc' = "looping"
  /\ UNCHANGED <<opc, loop_ptr, vars>>

\* Variant: the pointer is left set when loop() has returned.
clear__keep ==
  /\ wpc = "looping"
  /\ pc = "exited"
  /\ mutex = NoThread
  /\ mutex' = LoopThread
  /\ wpc' = "cleared"
  /\ UNCHANGED <<opc, loop_ptr, vars>>

\* loop() has returned: _loop = nullptr under the mutex.
clear ==
  /\ wpc = "looping"
  /\ pc = "exited"
  /\ mutex = NoThread
  /\ mutex' = LoopThread
  /\ loop_ptr' = FALSE
  /\ wpc' = "cleared"
  /\ UNCHANGED <<opc, vars>>

\* The guard is destroyed first, then the loop.
clear_unlock ==
  /\ wpc = "cleared"
  /\ mutex' = NoThread
  /\ wpc' = "unlocked"
  /\ UNCHANGED <<opc, loop_ptr, vars>>

destroy_loop ==
  /\ wpc = "unlocked"
  /\ wpc' = "finished"
  /\ UNCHANGED <<opc, loop_ptr, mutex, vars>>

(***************************************************************************)
(* ~EventLoopThread()                                                      *)
(***************************************************************************)
\* The unlocked read of _loop.  A null pointer skips quit() and join(): the
\* members, _mutex among them, are destroyed at once.
dtor_read ==
  /\ \/ opc = "unstarted"
     \/ /\ opc = "started"
        /\ Owner \notin waking
        /\ Settled => Range(executed) \ early # {}
  /\ opc' = IF loop_ptr THEN "quit" ELSE "gone"
  /\ UNCHANGED <<wpc, loop_ptr, mutex, vars>>

\* Variant: join() without quit().
dtor_quit__skip ==
  /\ opc = "quit"
  /\ opc' = "join"
  /\ UNCHANGED <<wpc, loop_ptr, mutex, vars>>

dtor_quit ==
  /\ opc = "quit"
  /\ quit(Owner)
  /\ opc' = "join"
  /\ UNCHANGED <<wpc, loop_ptr, mutex>>

dtor_join ==
  /\ opc = "join"
  /\ Owner \notin waking
  /\ wpc = "finished"
  /\ opc' = "gone"
  /\ UNCHANGED <<wpc, loop_ptr, mutex, vars>>

(***************************************************************************)
(* Calls into the loop, and the loop's own steps.                          *)
(***************************************************************************)
\* The owner, and threads it gives the pointer to, call between start_loop() and
\* the destructor; code on the loop thread runs in the init callback, in event
\* callbacks and in functors.
MayUse(t) ==
  \/ t # LoopThread /\ opc = "started" /\ LoopAlive
  \/ t = LoopThread /\ (pc = "idle" => wpc = "init")

\* A duty of the user: nobody quits the loop before start_loop() has seen it, or
\* _loop is null again and start_loop() waits for ever.
StartedLoop == opc \notin {"unstarted", "locking", "checking", "waiting"}

\* One call of quit() is kept for the destructor.
UserCall ==
  /\ \E t \in Thread :
       /\ MayUse(t)
       /\ \/ \E f \in Functor : queue_in_loop(t, f) \/ run_in_loop(t, f)
          \/ StartedLoop /\ quits + 1 < MaxQuit /\ quit(t)
  /\ UNCHANGED threadVars

LoopRun ==
  /\ wpc = "looping"
  /\ loop \/ PollStep \/ LoopStep
  /\ UNCHANGED threadVars

Wakeup == (\E t \in Thread : wakeup(t)) /\ UNCHANGED threadVars

StartLoop == start_thread \/ start_lock \/ start_check
ThreadFunc == publish \/ publish_unlock \/ clear \/ clear_unlock \/ destroy_loop
Dtor == dtor_read \/ dtor_quit \/ dtor_join

ThreadNext ==
  StartLoop \/ spurious_wakeup \/ ThreadFunc \/ Dtor \/ UserCall \/ LoopRun \/ Wakeup

ThreadSpec == ThreadInit /\ [][ThreadNext]_allVars

(***************************************************************************)
(* Fairness.  The threads go on inside the code of the two classes: one in *)
(* queue_in_loop() or quit() reaches wakeup(), the loop thread goes on     *)
(* with thread_func() and loop(), user code returns, and poll() returns    *)
(* once the eventfd is readable.  Nobody has to call anything or destroy   *)
(* the object, no I/O has to arrive, and not even the 10 s poll timeout    *)
(* has to expire.  A thread that asks for the mutex again and again gets   *)
(* it, even if the other one keeps returning from its wait spuriously:     *)
(* strong fairness of the locks.                                           *)
(***************************************************************************)
ThreadFairness ==
  /\ SF_allVars(start_lock) /\ SF_allVars(publish) /\ SF_allVars(clear)
  /\ WF_allVars(start_check)
  /\ WF_allVars(publish_unlock \/ clear_unlock \/ destroy_loop)
  /\ WF_allVars(LoopRun /\ (loop \/ LoopStep))
  /\ WF_allVars(LoopRun /\ WakeupReady)
  /\ \A t \in Thread : WF_allVars(Wakeup /\ wakeup(t))
  /\ WF_allVars(dtor_quit \/ dtor_join)

FairThreadSpec == ThreadSpec /\ ThreadFairness

(***************************************************************************)
(* Properties.                                                             *)
(***************************************************************************)
\* thread_func() never leaves a dangling pointer in _loop: whenever it is not
\* null, the EventLoop it points to exists.
PublishedLoopAlive == loop_ptr => LoopAlive

\* start_loop() returns: the notification is not missed.
StartReturns == opc = "locking" ~> opc = "started"

\* ~EventLoopThread() returns: quit() ends the loop and the join succeeds.
DtorReturns == opc = "quit" ~> opc = "gone"
=============================================================================
