------------------------------- MODULE Client -------------------------------
(***************************************************************************)
(* suduo::net::Connector and suduo::net::TcpClient on one loop: a          *)
(* connector that tries sockets one after the other until one is           *)
(* connected, and a client that turns it into a TcpConnection and may      *)
(* start again when that connection is gone.                               *)
(*                                                                         *)
(* The Connector is the record connector:                                  *)
(*   want     _connect                  state    _state                    *)
(*   channel  the socket of _channel    watched  the one in the poller     *)
(*   delay    retry_delay_ms            timers   pending retry timers      *)
(* and, as history: made, the sockets created; closed, how often each was  *)
(* closed by the connector; gave_up, that an error ended the attempts;     *)
(* failed, the asserts that did not hold.  0 stands for no socket.  As in  *)
(* TcpConnection a handler returns the record, the functors it queues and  *)
(* what is still to happen inside the call.                                *)
(*                                                                         *)
(* Duties of the caller that the code does not see to are guards of        *)
(* connect and destroy_client; AwaySpec leaves out those of the second.    *)
(***************************************************************************)
EXTENDS IoLoop

CONSTANTS Retry,        \* TcpClient::_retry
          InitDelay, MaxDelay,
          MaxCalls,     \* bound: calls of the client's methods
          MaxFaults     \* bound: failed attempts and connections lost

ASSUME ClientAssumption ==
  /\ Retry \in BOOLEAN /\ MaxDelay \in Nat /\ InitDelay \in 1..MaxDelay
  /\ MaxCalls \in Nat /\ MaxFaults \in Nat
ASSUME SocketAssumption == Conn = 1..(MaxCalls + MaxFaults)

VARIABLES connector,
          net,          \* the kernel's side of a connect
          again,        \* TcpClient::_connect
          connection,   \* TcpClient::_connection
          adopted,      \* the sockets that became TcpConnections
          alive,        \* the TcpClient exists
          rebound,      \* connections with detail::remove_connection as close callback
          keeper,       \* the 1 s timer of ~TcpClient() is pending
          calls, faults

clientVars == <<connector, net, again, connection, adopted, alive, rebound, keeper, calls, faults>>
vars == <<ioVars, clientVars>>

NewConnector ==
  [want |-> FALSE, state |-> "Disconnected", channel |-> 0, watched |-> 0, delay |-> InitDelay,
   timers |-> 0, made |-> 0, closed |-> [s \in Conn |-> 0], gave_up |-> FALSE, failed |-> {}]

Init ==
  /\ IoInit
  /\ connector = NewConnector
  /\ net = [s \in Conn |-> "pending"]
  /\ again = TRUE
  /\ connection = 0
  /\ adopted = {}
  /\ alive = TRUE
  /\ rebound = {}
  /\ keeper = FALSE
  /\ calls = 0
  /\ faults = 0

(***************************************************************************)
(* Connector.                                                              *)
(***************************************************************************)
Assert(k, holds, name) == IF holds THEN k ELSE [k EXCEPT !.failed = @ \cup {name}]

close(k, s) == [k EXCEPT !.closed[s] = @ + 1]

\* Variant: no timer is set.
retry__no_timer(k, s) == [close(k, s) EXCEPT !.state = "Disconnected"]
\* Variant: the socket is not closed.
retry__leak(k, s) == [k EXCEPT !.state = "Disconnected"]

retry(k, s) ==
  LET off == [close(k, s) EXCEPT !.state = "Disconnected"] IN
  IF ~k.want THEN off
  ELSE [off EXCEPT !.timers = @ + 1,
                   !.delay = IF 2 * @ < MaxDelay THEN 2 * @ ELSE MaxDelay]

connecting(k, s) ==
  [Assert(k, k.channel = 0, "connecting") EXCEPT !.state = "Connecting", !.channel = s,
                                                 !.watched = s]

\* Outcomes of connect(2): under way, worth another try, or an error that ends
\* the attempts.
Outcome == {"ok", "again", "fatal"}

connect_socket(k, outcome) ==
  LET s == k.made + 1
      fresh == [k EXCEPT !.made = s]
  IN CASE outcome = "ok"    -> connecting(fresh, s)
       [] outcome = "again" -> retry(fresh, s)
       [] outcome = "fatal" -> [close(fresh, s) EXCEPT !.gave_up = TRUE]

start_in_loop(k, outcome) ==
  LET checked == Assert(k, k.state = "Disconnected", "start_in_loop") IN
  Done(IF k.want THEN connect_socket(checked, outcome) ELSE checked)

\* disable_all() and remove(); reset_channel is queued, since the channel may be
\* the one that is calling.
remove_and_reset_channel(k) == [k EXCEPT !.watched = 0]

stop_in_loop(k) ==
  IF k.state = "Connecting"
  THEN Result(retry(remove_and_reset_channel(k), k.channel), <<"reset_channel">>, <<>>)
  ELSE Done(k)

reset_channel(k) == Done([k EXCEPT !.channel = 0])

\* Variant: a connection that came up after stop() is not closed.
unwanted__leak(k, s) == k
unwanted(k, s) == close(k, s)

get_socket_error(s) == net[s] = "refused"
is_self_connect(s) == net[s] = "self"

\* Connector::handle_write().
connector_write(k) ==
  LET s == k.channel
      off == remove_and_reset_channel(k)
      up == [off EXCEPT !.state = "Connected"]
  IN IF k.state # "Connecting"
     THEN Done(Assert(k, k.state = "Disconnected", "handle_write"))
     ELSE IF get_socket_error(s) \/ is_self_connect(s) THEN Result(retry(off, s), <<"reset_channel">>, <<>>)
     ELSE IF k.want THEN Result(up, <<"reset_channel">>, <<"new_connection">>)
     ELSE Result(unwanted(up, s), <<"reset_channel">>, <<>>)

\* Connector::handle_error().
connector_error(k) ==
  IF k.state = "Connecting"
  THEN Result(retry(remove_and_reset_channel(k), k.channel), <<"reset_channel">>, <<>>)
  ELSE Done(k)

ConnectorFunctor == {"start_in_loop", "stop_in_loop", "reset_channel"}
ConnectorStep == ConnectorFunctor \cup {"connector_write", "connector_error"}

ConnectorQueued == \E f \in ConnectorFunctor : <<f, 0>> \in Queued \cup Entries(todo)

\* The Connector object exists: the client, the keeper or a retry timer owns it.
ConnectorOwned == alive \/ keeper \/ connector.timers > 0

\* The thread performs the next step of the Connector.  The bound on sockets follows
\* from those on calls and faults: each attempt takes one of either.
connector_step ==
  /\ todo # <<>>
  /\ Head(todo)[1] \in ConnectorStep
  /\ \E outcome \in IF Head(todo)[1] = "start_in_loop" /\ connector.want THEN Outcome ELSE {"ok"} :
       LET step == Head(todo)[1]
           k == connector
           result == CASE step = "start_in_loop"   -> start_in_loop(k, outcome)
                       [] step = "stop_in_loop"    -> stop_in_loop(k)
                       [] step = "reset_channel"   -> reset_channel(k)
                       [] step = "connector_write" -> connector_write(k)
                       [] step = "connector_error" -> connector_error(k)
       IN /\ connector' = result.r
          /\ pending' = pending \o Tagged(0, result.q)
          /\ todo' = Tagged(k.channel, result.todo) \o Tail(todo)
          /\ faults' = faults + IF outcome = "ok" THEN 0 ELSE 1
          /\ faults' <= MaxFaults
          /\ connector'.made <= MaxCalls + MaxFaults
  /\ UNCHANGED <<conn, batch, phase, revents, kept>>
  /\ UNCHANGED <<net, again, connection, adopted, alive, rebound, keeper, calls>>

(***************************************************************************)
(* TcpClient: its own callbacks.                                           *)
(***************************************************************************)
\* The TcpConnection takes over the socket.
new_connection ==
  /\ todo # <<>> /\ Head(todo)[1] = "new_connection"
  /\ LET s == Head(todo)[2] IN
       /\ connection' = s
       /\ adopted' = adopted \cup {s}
       /\ todo' = <<<<"connect_established", s>>>> \o Tail(todo)
  /\ UNCHANGED <<conn, pending, batch, phase, revents, kept>>
  /\ UNCHANGED <<connector, net, again, alive, rebound, keeper, calls, faults>>

\* Variant: the connector is started again although its state is Connected.
restart__no_state(k) == [k EXCEPT !.delay = InitDelay, !.want = TRUE]
\* Connector::restart() up to its call of start_in_loop().
restart(k) == [k EXCEPT !.state = "Disconnected", !.delay = InitDelay, !.want = TRUE]

\* remove_connection(), or detail::remove_connection() once ~TcpClient() has
\* put that in its place.
close_callback ==
  /\ todo # <<>> /\ Head(todo)[1] = "close_callback"
  /\ LET c == Head(todo)[2]
         mine == c \notin rebound
         reconnect == mine /\ Retry /\ again
         checked == Assert(connector, mine => alive /\ connection = c, "remove_connection")
     IN /\ connection' = IF mine THEN 0 ELSE connection
        /\ pending' = Append(pending, <<"connect_destroyed", c>>)
        /\ connector' = IF reconnect THEN restart(checked) ELSE checked
        /\ todo' = (IF reconnect THEN <<<<"start_in_loop", 0>>>> ELSE <<>>) \o Tail(todo)
  /\ UNCHANGED <<conn, batch, phase, revents, kept>>
  /\ UNCHANGED <<net, again, adopted, alive, rebound, keeper, calls, faults>>

(***************************************************************************)
(* TcpClient: its callers, on the loop's thread or (away) on another.      *)
(***************************************************************************)
Calling == alive /\ calls < MaxCalls /\ calls' = calls + 1

OnLoopThread == phase # "poll" /\ (todo = <<>> \/ InUserCode)

\* Connector::start() and stop() up to their calls of run_in_loop() and
\* queue_in_loop().
Started(k) == [k EXCEPT !.want = TRUE]
Stopped(k) == [k EXCEPT !.want = FALSE]

\* The caller connects only a connector that is at rest: one that is Connected,
\* even if that connection is gone, fails the assert of start_in_loop().
connect(away) ==
  /\ Calling
  /\ away \/ OnLoopThread
  /\ connector.state = "Disconnected" /\ connector.timers = 0
  /\ \A f \in {"start_in_loop", "reset_channel"} : <<f, 0>> \notin Queued \cup Entries(todo)
  /\ again' = TRUE
  /\ connector' = Started(connector)
  /\ IF away THEN pending' = Append(pending, <<"start_in_loop", 0>>) /\ UNCHANGED todo
     ELSE todo' = <<<<"start_in_loop", 0>>>> \o todo /\ UNCHANGED pending
  /\ UNCHANGED <<conn, batch, phase, revents, kept>>
  /\ UNCHANGED <<net, connection, adopted, alive, rebound, keeper, faults>>

stop ==
  /\ Calling
  /\ again' = FALSE
  /\ connector' = Stopped(connector)
  /\ pending' = Append(pending, <<"stop_in_loop", 0>>)
  /\ UNCHANGED <<conn, batch, phase, revents, todo, kept>>
  /\ UNCHANGED <<net, connection, adopted, alive, rebound, keeper, faults>>

\* TcpConnection::shutdown() on another thread, which tests _state and sets it
\* later: the loop may have closed the connection in between, though not taken it
\* out of the client, whose _mutex is held.
shutdown_away(c) ==
  /\ \/ /\ conn[c].state # "Connected"
        /\ UNCHANGED <<conn, pending>>
     \/ /\ conn[c].state # "Connecting"
        /\ conn' = [conn EXCEPT ![c].state = "Disconnecting"]
        /\ pending' = Append(pending, <<"shutdown_in_loop", c>>)
  /\ UNCHANGED <<batch, phase, revents, todo, kept>>

disconnect(away) ==
  /\ Calling
  /\ away \/ OnLoopThread
  /\ again' = FALSE
  /\ IF connection = 0 THEN UNCHANGED ioVars
     ELSE IF away THEN shutdown_away(connection)
     ELSE Apply(connection, Call("shutdown", conn[connection], 0), todo)
  /\ UNCHANGED <<connector, net, connection, adopted, alive, rebound, keeper, faults>>

\* ~TcpClient() of a client with no connection, up to its timer.
StopConnector ==
  /\ connector' = Stopped(connector)
  /\ pending' = Append(pending, <<"stop_in_loop", 0>>)
  /\ UNCHANGED <<rebound, conn, batch, phase, revents, todo, kept>>

\* ~TcpClient(), called on the loop's thread, outside timer callbacks, when the
\* connection is unique (else it would be freed while open) and the connector,
\* freed with the client, has nothing queued.
destroy_client ==
  /\ Calling
  /\ OnLoopThread
  /\ connection # 0 => ~HeldByLoop(connection) /\ ~ConnectorQueued
  /\ alive' = FALSE
  /\ connection' = 0
  /\ IF connection # 0
     THEN /\ rebound' = rebound \cup {connection}
          /\ Apply(connection, force_close(conn[connection]), todo)
          /\ UNCHANGED <<connector, keeper>>
     ELSE StopConnector /\ keeper' = TRUE
  /\ UNCHANGED <<net, again, adopted, faults>>

(***************************************************************************)
(* ~TcpClient() on another thread, which the code does not exclude.        *)
(***************************************************************************)
\* On another thread the new close callback is only queued, and whether the
\* connection is unique depends on what the loop is doing.
destroy_away ==
  /\ Calling
  /\ alive' = FALSE
  /\ connection' = 0
  /\ IF connection # 0
     THEN LET closing == IF HeldByLoop(connection) THEN Done(conn[connection])
                         ELSE force_close(conn[connection])
          IN /\ conn' = [conn EXCEPT ![connection] = closing.r]
             /\ pending' = pending \o Tagged(connection, <<"set_close_callback">> \o closing.q)
             /\ UNCHANGED <<connector, keeper, rebound, batch, phase, revents, todo, kept>>
     ELSE StopConnector /\ keeper' = TRUE
  /\ UNCHANGED <<net, again, adopted, faults>>

\* The queued functor, which also points to the connection.
set_close_callback ==
  /\ todo # <<>> /\ Head(todo)[1] = "set_close_callback"
  /\ rebound' = rebound \cup {Head(todo)[2]}
  /\ kept' = kept \cup {Head(todo)[2]}
  /\ todo' = Tail(todo)
  /\ UNCHANGED <<conn, pending, batch, phase, revents>>
  /\ UNCHANGED <<connector, net, again, connection, adopted, alive, keeper, calls, faults>>

(***************************************************************************)
(* The loop, its timers and the network.                                   *)
(***************************************************************************)
Freed(c) ==
  /\ c \in adopted /\ c # connection
  /\ ~HeldByLoop(c) /\ <<"set_close_callback", c>> \notin Queued

Live(c) == c \in adopted /\ ~Freed(c)

\* Channel::handle_event() of the connector's channel, which has no read and
\* no close callback.
connector_event(events) ==
  (IF "err" \in events THEN <<"connector_error">> ELSE <<>>) \o <<"connector_write">>

ConnectEvents(s) == CASE net[s] = "pending" -> {}
                      [] net[s] = "refused" -> {"out", "err"}
                      [] OTHER -> {"out"}

Ready == [s \in Conn |-> IF s = connector.watched THEN ConnectEvents(s)
                         ELSE IF Live(s) THEN Revents(conn[s]) ELSE {}]

LoopStep ==
  /\ \/ poll(Ready)
     \/ \E c \in adopted : dispatch(c, handle_event(revents[c]))
     \/ swap
     \/ run_functor
     \/ drained
     \/ perform
     \/ user_return
  /\ UNCHANGED clientVars

\* The connector's channel; its callbacks are bound to the Connector.
connector_dispatch ==
  /\ connector.watched # 0
  /\ connector.watched \notin adopted
  /\ BetweenCallbacks
  /\ revents[connector.watched] # {}
  /\ todo' = Tagged(0, connector_event(revents[connector.watched]))
  /\ revents' = [revents EXCEPT ![connector.watched] = {}]
  /\ UNCHANGED <<conn, pending, batch, phase, kept>>
  /\ UNCHANGED clientVars

ClientStep ==
  \/ LoopStep \/ connector_dispatch \/ connector_step \/ new_connection \/ close_callback

\* The turns of the loop take less than a retry delay: what the attempt that
\* failed has queued has run when its timer fires.
retry_expired ==
  /\ BetweenCallbacks
  /\ <<"reset_channel", 0>> \notin Queued
  /\ connector.timers > 0
  /\ connector' = [connector EXCEPT !.timers = @ - 1]
  /\ todo' = <<<<"start_in_loop", 0>>>>
  /\ UNCHANGED <<conn, pending, batch, phase, revents, kept>>
  /\ UNCHANGED <<net, again, connection, adopted, alive, rebound, keeper, calls, faults>>

\* The turns of the loop take less than the keeper's second: what stop() queued
\* when that was set has run, and what this has queued.  In a timer callback, where
\* destroy_client is not called, the code would not see to it: TimerQueue may run a
\* timer in the pass that adds it.
keeper_expired ==
  /\ BetweenCallbacks
  /\ ~ConnectorQueued
  /\ keeper
  /\ keeper' = FALSE
  /\ UNCHANGED <<ioVars, connector, net, again, connection, adopted, alive, rebound, calls, faults>>

\* The network, external: a connect succeeds, is refused, or meets itself.
net_answers(s, answer) ==
  /\ s = connector.watched
  /\ net[s] = "pending"
  /\ faults' = faults + IF answer = "up" THEN 0 ELSE 1
  /\ faults' <= MaxFaults
  /\ net' = [net EXCEPT ![s] = answer]
  /\ UNCHANGED <<ioVars, connector, again, connection, adopted, alive, rebound, keeper, calls>>

peer_acts(c) ==
  /\ Live(c)
  /\ faults < MaxFaults
  /\ faults' = faults + 1
  /\ peer_closes(c) \/ peer_resets(c)
  /\ UNCHANGED <<connector, net, again, connection, adopted, alive, rebound, keeper, calls>>

Next ==
  \/ ClientStep
  \/ \E away \in BOOLEAN : connect(away)
  \/ \E away \in BOOLEAN : disconnect(away)
  \/ stop
  \/ destroy_client
  \/ retry_expired
  \/ keeper_expired
  \/ \E s \in Conn : peer_acts(s) \/ \E answer \in {"up", "refused", "self"} : net_answers(s, answer)

Spec == Init /\ [][Next]_vars

\* The same, with a client that may be destroyed on another thread.
AwaySpec == Init /\ [][Next \/ destroy_away \/ set_close_callback]_vars

\* The loop keeps turning, user code returns, and the kernel ends every
\* connect.  A timer is enabled only between callbacks: the poll after its
\* deadline dispatches it, which strong fairness stands for.
FairSpec ==
  /\ Spec
  /\ WF_vars(ClientStep)
  /\ \A s \in Conn : WF_vars(\E answer \in {"up", "refused", "self"} : net_answers(s, answer))
  /\ SF_vars(retry_expired) /\ SF_vars(keeper_expired)

(***************************************************************************)
(* Properties.                                                             *)
(***************************************************************************)
\* ~Connector() finds no channel, as it asserts.
ConnectorReleased == ~ConnectorOwned => connector.channel = 0

\* TcpClient::remove_connection() is called for the current connection, as it
\* asserts, of a client that exists.
CalledBackAlive == "remove_connection" \notin connector.failed

\* The asserts of Connector (start_in_loop, connecting, handle_write, the
\* destructor) and of TcpClient::remove_connection() hold, a destroyed client is
\* never called back, nothing queued for the connector outlives it, and a channel
\* is never destroyed while the poller knows it (by a reset_channel() of an earlier
\* attempt, for one), whatever the order of answers, timers, stop(), disconnect()
\* and a destructor that is called on the loop's thread, outside timer callbacks.
AssertionsHold ==
  /\ connector.failed = {}
  /\ ConnectorReleased
  /\ (\E f \in ConnectorFunctor : <<f, 0>> \in Queued) => ConnectorOwned
  /\ connector.watched # 0 => connector.watched = connector.channel

\* Every socket that was made is the connector's, or a connection's (the current
\* one, or the next step of the thread), or was closed, exactly once.
SocketsConserved ==
  \A s \in 1..connector.made :
    LET trying == connector.state = "Connecting" /\ connector.channel = s
        handed == <<"new_connection", s>> \in Entries(todo)
    IN connector.closed[s] + Cardinality({b \in {"trying", "handed", "adopted"} :
                                            CASE b = "trying"  -> trying
                                              [] b = "handed"  -> handed
                                              [] b = "adopted" -> s \in adopted}) = 1

\* A wanted connection is made in the end, however many attempts fail before,
\* unless stop() ends them or connect(2) gives an error that is not retried.
EventuallyConnected ==
  connector.want /\ connector.state # "Connected"
    ~> connector.state = "Connected" \/ ~connector.want \/ connector.gave_up

\* A destroyed client leaves nothing behind: its connections are freed, its
\* sockets closed and its connector destroyed with no channel.
DestroyedIsReleased ==
  ~alive ~> /\ \A s \in 1..connector.made : connector.closed[s] = 1 \/ Freed(s)
            /\ ~ConnectorOwned
            /\ connector.channel = 0
=============================================================================
