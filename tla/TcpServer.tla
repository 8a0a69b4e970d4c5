------------------------------ MODULE TcpServer ------------------------------
(***************************************************************************)
(* suduo::net::TcpServer and the life of its TcpConnections: accepted on   *)
(* the base loop, run on an I/O loop, erased from _connections on the base *)
(* loop and destroyed on the I/O loop.  All connections here share one I/O *)
(* loop, which with no threads in the pool is the base loop itself.        *)
(*                                                                         *)
(* The I/O loop is IoLoop's.  ~TcpServer() leaves the I/O loops running:   *)
(* stopping them is EventLoopThread's.                                     *)
(***************************************************************************)
EXTENDS IoLoop

CONSTANTS IoIsBase,     \* TRUE: set_thread_num(0)
          UserOps,      \* the calls user code makes
          ForeignOps,   \* the calls another thread makes on a connection it holds
          MayDestroy,   \* TRUE: the server may be destroyed
          MaxOps,       \* bound: calls by user code in a behaviour
          MaxIn         \* bound: bytes a peer sends

ASSUME OpsAssumption ==
  UserOps \subseteq UserOp /\ ForeignOps \subseteq {"send", "shutdown", "force_close"}
ASSUME FlagAssumption == IoIsBase \in BOOLEAN /\ MayDestroy \in BOOLEAN
ASSUME ServerBounds == MaxOps \in Nat /\ MaxIn \in Nat

VARIABLES started,      \* _started, and with it the thread pool's
          listening,    \* Acceptor::_listening, the channel reading
          accepted,     \* the connections that were constructed
          connections,  \* _connections
          held,         \* connections another thread holds a pointer to
          foreign,      \* the call that thread is in, after its test of _state
          alive,        \* the TcpServer object exists
          baseQueue,    \* removals queued in the base loop
          ops

serverVars == <<started, listening, accepted, connections, held, foreign, alive, baseQueue, ops>>
vars == <<ioVars, serverVars>>

Idle == <<>>            \* the other thread is in no call

Init ==
  /\ IoInit
  /\ started = FALSE
  /\ listening = FALSE
  /\ accepted = {}
  /\ connections = {}
  /\ held = {}
  /\ foreign = Idle
  /\ alive = TRUE
  /\ baseQueue = <<>>
  /\ ops = 0

\* A TcpConnection lives while some shared_ptr points to it: in _connections,
\* in a functor, in the call under way, or in another thread's hands.
Owned(c) == c \in connections \cup held \cup Entries(baseQueue) \/ HeldByLoop(c)

Freed(c) == c \in accepted /\ ~Owned(c)

(***************************************************************************)
(* The base loop.                                                          *)
(***************************************************************************)
\* The base loop can run a callback: always if it has a thread of its own,
\* otherwise between two callbacks of the I/O loop.
BaseRuns == IoIsBase => BetweenCallbacks

\* EventLoopThreadPool::get_next_loop() gives the base loop itself if the pool
\* has no threads; run_in_loop() is then a plain call.
RunInIoLoop(calls) ==
  /\ IF IoIsBase THEN todo' = calls \o todo /\ UNCHANGED pending
     ELSE pending' = pending \o calls /\ UNCHANGED todo
  /\ UNCHANGED <<conn, batch, phase, revents, kept>>

\* A second start() does nothing.
start ==
  /\ BaseRuns /\ alive
  /\ ~started
  /\ started' = TRUE
  /\ listening' = TRUE
  /\ UNCHANGED <<ioVars, accepted, connections, held, foreign, alive, baseQueue, ops>>

new_connection(c) ==
  /\ accepted' = accepted \cup {c}
  /\ connections' = connections \cup {c}
  /\ RunInIoLoop(<<<<"connect_established", c>>>>)

\* Acceptor::handle_read().  An accept() that fails ends the process in
\* sockets::accept(), so the handling of EMFILE is never reached.
accept(c) ==
  /\ BaseRuns
  /\ listening
  /\ c \notin accepted
  /\ new_connection(c)
  /\ UNCHANGED <<started, listening, held, foreign, alive, baseQueue, ops>>

\* Variant: the connection stays in the map.
erase__leak(c) == connections
erase(c) == connections \ {c}

\* remove_connection_in_loop() on a base loop with a thread of its own.
remove_connection_in_loop ==
  /\ baseQueue # <<>>
  /\ connections' = erase(Head(baseQueue))
  /\ pending' = Append(pending, <<"connect_destroyed", Head(baseQueue)>>)
  /\ baseQueue' = Tail(baseQueue)
  /\ UNCHANGED <<conn, batch, phase, revents, todo, kept>>
  /\ UNCHANGED <<started, listening, accepted, held, foreign, alive, ops>>

\* ~TcpServer(): connect_destroyed() for every connection of the map, one at a
\* time, in any order (the order of the names is not modelled), then the
\* Acceptor goes.  On the loop of the connections it must not run while their
\* channels wait to be dispatched: that is the caller's duty, the code does not
\* see to it.
destroy_server ==
  /\ MayDestroy
  /\ BaseRuns
  /\ IoIsBase => all_dispatched
  /\ alive
  /\ alive' = FALSE
  /\ listening' = FALSE
  /\ connections' = {}
  /\ \E order \in [1..Cardinality(connections) -> connections] :
       /\ {order[i] : i \in DOMAIN order} = connections
       /\ RunInIoLoop([i \in DOMAIN order |-> <<"connect_destroyed", order[i]>>])
  /\ UNCHANGED <<started, accepted, held, foreign, baseQueue, ops>>

(***************************************************************************)
(* The I/O loop.                                                           *)
(***************************************************************************)
Ready == [c \in Conn |-> IF c \in accepted /\ ~Freed(c) THEN Revents(conn[c]) ELSE {}]

\* TcpServer::remove_connection(), bound to the server's raw pointer: on the
\* base loop's own thread it erases the connection at once.
close_callback ==
  /\ todo # <<>> /\ Head(todo)[1] = "close_callback"
  /\ LET c == Head(todo)[2] IN
       IF IoIsBase
       THEN /\ connections' = erase(c)
            /\ pending' = Append(pending, <<"connect_destroyed", c>>)
            /\ UNCHANGED baseQueue
       ELSE /\ baseQueue' = Append(baseQueue, c)
            /\ UNCHANGED <<connections, pending>>
  /\ todo' = Tail(todo)
  /\ UNCHANGED <<conn, batch, phase, revents, kept>>
  /\ UNCHANGED <<started, listening, accepted, held, foreign, alive, ops>>

LoopStep ==
  /\ \/ poll(Ready)
     \/ \E c \in Conn : dispatch(c, handle_event(revents[c]))
     \/ swap
     \/ run_functor
     \/ drained
     \/ perform
     \/ user_return
  /\ UNCHANGED serverVars

IoStep == LoopStep \/ close_callback

\* User code calls a method of the connection it was called for.  It does not
\* call start_read() or stop_read() once the server is destroyed: they do not
\* look at _state and would put the channel back into the poller.
user_call(op) ==
  /\ InUserCode
  /\ op \in {"start_read", "stop_read"} => alive
  /\ ops < MaxOps
  /\ ops' = ops + 1
  /\ LET c == Head(todo)[2] IN
       \E n \in write(conn[c], 1) : Apply(c, Call(op, conn[c], n), todo)
  /\ UNCHANGED <<started, listening, accepted, connections, held, foreign, alive, baseQueue>>

\* User code gives another thread a TcpConnectionPtr.
user_share ==
  /\ InUserCode
  /\ ForeignOps # {}
  /\ held' = held \cup {Head(todo)[2]}
  /\ UNCHANGED <<ioVars, started, listening, accepted, connections, foreign, alive, baseQueue, ops>>

\* The timer of force_close_with_delay(): a weak pointer to the connection.
delay_expired(c) ==
  /\ BetweenCallbacks
  /\ c \in accepted /\ ~Freed(c)
  /\ conn[c].delayed
  /\ Apply(c, force_close([conn[c] EXCEPT !.delayed = FALSE]), <<>>)
  /\ UNCHANGED serverVars

(***************************************************************************)
(* Another thread: send(), shutdown() and force_close() test _state first  *)
(* and act on it later.                                                    *)
(***************************************************************************)
foreign_test(op, c) ==
  /\ foreign = Idle
  /\ c \in held
  /\ ops < MaxOps
  /\ ops' = ops + 1
  /\ conn[c].state = "Connected" \/ (op = "force_close" /\ conn[c].state = "Disconnecting")
  /\ foreign' = <<op, c>>
  /\ UNCHANGED <<ioVars, started, listening, accepted, connections, held, alive, baseQueue>>

\* The functor each of them queues.
InLoop == [send |-> "send_in_loop", shutdown |-> "shutdown_in_loop",
           force_close |-> "force_close_in_loop"]

foreign_act ==
  /\ foreign # Idle
  /\ LET op == foreign[1]
         c == foreign[2]
     IN /\ pending' = Append(pending, <<InLoop[op], c>>)
        /\ conn' = IF op = "send" THEN conn
                   ELSE [conn EXCEPT ![c].state = "Disconnecting"]
  /\ foreign' = Idle
  /\ UNCHANGED <<batch, phase, revents, todo, kept>>
  /\ UNCHANGED <<started, listening, accepted, connections, held, alive, baseQueue, ops>>

foreign_release(c) ==
  /\ foreign = Idle
  /\ c \in held
  /\ held' = held \ {c}
  /\ UNCHANGED <<ioVars, started, listening, accepted, connections, foreign, alive, baseQueue, ops>>

(***************************************************************************)
(* The peer, external.                                                     *)
(***************************************************************************)
peer_sends(c) ==
  /\ conn[c].peer = "open" /\ conn[c].inbox < MaxIn
  /\ conn' = [conn EXCEPT ![c].inbox = @ + 1]
  /\ UNCHANGED turnVars

peer_acts(c) ==
  /\ c \in accepted /\ ~Freed(c)
  /\ peer_sends(c) \/ peer_closes(c) \/ peer_resets(c)
  /\ UNCHANGED serverVars

Next ==
  \/ IoStep
  \/ start
  \/ remove_connection_in_loop
  \/ destroy_server
  \/ user_share
  \/ foreign_act
  \/ \E op \in UserOps : user_call(op)
  \/ \E c \in Conn :
       \/ accept(c)
       \/ delay_expired(c)
       \/ foreign_release(c)
       \/ peer_acts(c)
       \/ \E op \in ForeignOps : foreign_test(op, c)

Spec == Init /\ [][Next]_vars

\* Both loops keep turning and user code returns; peers and users do as they
\* please.
FairSpec == Spec /\ WF_vars(IoStep) /\ WF_vars(remove_connection_in_loop)

(***************************************************************************)
(* Properties.                                                             *)
(***************************************************************************)

\* TcpConnection::handle_close() runs only on an open connection, as its assert
\* demands: no event, functor or timer closes a connection twice.
ClosesOpenConnection ==
  [][\A c \in Conn : conn'[c].closes # conn[c].closes => Open(conn[c])]_vars

\* remove_connection_in_loop() finds the connection it erases: every removal
\* under way is the only one for its connection, which is still in the map.
RemovalFindsConnection ==
  LET removing == baseQueue \o [i \in 1..Len(todo) |->
                                  IF todo[i][1] = "close_callback" THEN todo[i][2] ELSE <<>>]
  IN \A i \in 1..Len(removing) : removing[i] # <<>> /\ alive =>
       /\ removing[i] \in connections
       /\ \A j \in 1..Len(removing) \ {i} : removing[j] # removing[i]

\* The connection callback is called once for up and once for down, in that
\* order, and a connection is not freed between the two.
CallbacksPaired ==
  \A c \in Conn :
    /\ conn[c].ups <= 1
    /\ conn[c].downs <= conn[c].ups
    /\ Freed(c) => conn[c].downs = conn[c].ups

\* A connection that is freed is Disconnected, as ~TcpConnection() asserts.  A
\* server destroyed while a connection is half closed breaks this, the one before
\* and the one after: connect_destroyed() leaves a Disconnecting connection as it
\* is, its channel enabled, and only takes it out of the poller.
FreedDisconnected == \A c \in Conn : Freed(c) => conn[c].state = "Disconnected"

\* A channel that is taken out of the poller is disabled, as
\* PollPoller::remove_channel() asserts: everything that leads a connection to
\* connect_destroyed() has disabled its channel, and nothing has enabled it since.
RemovedDisabled ==
  todo # <<>> /\ Head(todo)[1] = "remove" => conn[Head(todo)[2]].events = {}

\* A connection that is freed has left the poller: no Channel pointer dangles
\* in the epoll set.
FreedUnregistered == \A c \in Conn : Freed(c) => ~conn[c].registered

\* shutdown() never cuts off bytes still in the output buffer, and while bytes
\* wait there on an open connection the channel is watched for writing.
OutputKept ==
  \A c \in Conn : /\ conn[c].lost = 0
                  /\ conn[c].out > 0 /\ Open(conn[c]) => "out" \in conn[c].events

\* A shutdown() that had to wait for the buffer is carried out when the buffer
\* drains: a connection of which the write side should be shut down, and that
\* has nothing left to send, is never left open for writing between two polls.
ShutdownNotForgotten ==
  \A c \in Conn :
    phase = "poll" /\ conn[c].state = "Disconnecting" /\ conn[c].out = 0 /\ ~conn[c].delayed
      => conn[c].fin \/ \E f \in {"shutdown_in_loop", "force_close_in_loop"} : <<f, c>> \in Queued

\* A connection whose peer is gone, or that was force-closed, is freed, unless
\* another thread holds on to it.
GoneIsFreed ==
  \A c \in Conn :
    c \in accepted \ held /\ (conn[c].peer # "open" \/ <<"force_close_in_loop", c>> \in Queued)
      ~> Freed(c) \/ c \in held
==============================================================================
