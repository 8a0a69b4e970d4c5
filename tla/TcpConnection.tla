---------------------------- MODULE TcpConnection ----------------------------
(***************************************************************************)
(* suduo::net::TcpConnection with its Channel and its socket, as one       *)
(* record, and each of its handlers as an operator from that record to     *)
(*   [r    |-> the record after the handler,                               *)
(*    q    |-> the functors it queues in its loop, in order,               *)
(*    todo |-> what is still to happen inside the call, in order].         *)
(* A handler that calls user code ends at the call: "user" heads its todo  *)
(* and the rest of its body follows.  TcpServer says when they run.        *)
(*                                                                         *)
(*   _state            state                                               *)
(*   _reading          reading                                             *)
(*   _channel->events  events, a subset of {"in", "out"}                   *)
(*   in the poller     registered                                          *)
(*   _output_buffer    out, its number of bytes                            *)
(*   socket (kernel)   inbox: bytes to read; fin: write side shut down;    *)
(*                     peer: "open", "fin" or "rst"; err: SO_ERROR         *)
(*   pending timer of force_close_with_delay()   delayed                   *)
(* ups, downs, closes and lost are history: calls of the connection        *)
(* callback, calls of handle_close(), bytes behind a FIN.  Names with "__" *)
(* are faulty variants, as in EventLoop.                                   *)
(***************************************************************************)
EXTENDS Integers, Sequences

CONSTANTS Poller,      \* "epoll", or "poll" when SUDUO_USE_POLL is set
          HighWater    \* _hight_water_mark, in bytes

ASSUME PollerAssumption == Poller \in {"epoll", "poll"}
ASSUME HighWaterAssumption == HighWater \in Nat \ {0}

State == {"Disconnected", "Connecting", "Connected", "Disconnecting"}

\* Functors that hold a shared_ptr to the connection, and those that are bound
\* to the raw pointer.
SharedFunctor == {"connect_established", "connect_destroyed", "force_close_in_loop",
                  "write_complete", "high_water_mark"}
RawFunctor == {"send_in_loop", "shutdown_in_loop"}

\* What a connection can still have to do inside a call.
Step == SharedFunctor \cup RawFunctor \cup
        {"user", "close_callback", "remove", "handle_close", "handle_error", "handle_read",
         "handle_write"}

UserOp == {"send", "shutdown", "force_close", "force_close_with_delay", "start_read",
           "stop_read"}

Record ==
  [state : State, reading : BOOLEAN, events : SUBSET {"in", "out"}, registered : BOOLEAN,
   out : Nat, inbox : Nat, fin : BOOLEAN, peer : {"open", "fin", "rst"}, err : BOOLEAN,
   delayed : BOOLEAN, ups : Nat, downs : Nat, closes : Nat, lost : Nat]

\* The constructor.
New == [state |-> "Connecting", reading |-> TRUE, events |-> {}, registered |-> FALSE,
        out |-> 0, inbox |-> 0, fin |-> FALSE, peer |-> "open", err |-> FALSE,
        delayed |-> FALSE, ups |-> 0, downs |-> 0, closes |-> 0, lost |-> 0]

Result(r, q, todo) == [r |-> r, q |-> q, todo |-> todo]
Done(r) == Result(r, <<>>, <<>>)

\* Channel::update(): the poller adds a channel it does not know.
update(r, events) == [r EXCEPT !.events = events, !.registered = TRUE]

\* sockets::write(): the bytes taken, 0 for EWOULDBLOCK; Broken for EPIPE and
\* ECONNRESET.
Broken == -1
write(r, len) == IF r.fin \/ r.peer = "rst" THEN {Broken} ELSE 0..len

(***************************************************************************)
(* What the poller reports, external to this repository: EPOLLHUP means    *)
(* that both directions are closed, and it is reported whatever events the *)
(* channel asked for.  PollPoller hides a disabled channel by negating its *)
(* descriptor; EPollPoller leaves it in the epoll set with no events.      *)
(***************************************************************************)
Hidden(r) == ~r.registered \/ (Poller = "poll" /\ r.events = {})

Revents(r) ==
  IF Hidden(r) THEN {}
  ELSE {e \in {"in", "out", "hup", "err"} :
          \/ e = "in" /\ "in" \in r.events /\ (r.inbox > 0 \/ r.peer # "open")
          \/ e = "out" /\ "out" \in r.events
          \/ e = "hup" /\ (r.peer = "rst" \/ (r.peer = "fin" /\ r.fin))
          \/ e = "err" /\ r.err}

\* Variant: a hang-up closes the connection although there is input to read.
handle_event__hup_and_in(revents) ==
  (IF "hup" \in revents THEN <<"handle_close">> ELSE <<>>)
  \o (IF "err" \in revents THEN <<"handle_error">> ELSE <<>>)
  \o (IF "in" \in revents THEN <<"handle_read">> ELSE <<>>)
  \o (IF "out" \in revents THEN <<"handle_write">> ELSE <<>>)

\* Channel::handle_event_with_guard(): the callbacks, in order.
handle_event(revents) ==
  (IF "hup" \in revents /\ "in" \notin revents THEN <<"handle_close">> ELSE <<>>)
  \o (IF "err" \in revents THEN <<"handle_error">> ELSE <<>>)
  \o (IF "in" \in revents THEN <<"handle_read">> ELSE <<>>)
  \o (IF "out" \in revents THEN <<"handle_write">> ELSE <<>>)

(***************************************************************************)
(* Handlers.                                                               *)
(***************************************************************************)
\* Variant: the connection is left Disconnecting.
handle_close__disconnecting(r) ==
  Result([update(r, {}) EXCEPT !.state = "Disconnecting", !.closes = @ + 1, !.downs = @ + 1],
         <<>>, <<"user", "close_callback">>)

\* Variant: the state is not set.
handle_close__no_state(r) ==
  Result([update(r, {}) EXCEPT !.closes = @ + 1, !.downs = @ + 1],
         <<>>, <<"user", "close_callback">>)

\* Variant: the channel is not disabled.
handle_close__enabled(r) ==
  Result([r EXCEPT !.state = "Disconnected", !.closes = @ + 1, !.downs = @ + 1],
         <<>>, <<"user", "close_callback">>)

\* The connection callback (down), then the close callback.
handle_close(r) ==
  Result([update(r, {}) EXCEPT !.state = "Disconnected", !.closes = @ + 1, !.downs = @ + 1],
         <<>>, <<"user", "close_callback">>)

handle_error(r) == Done([r EXCEPT !.err = FALSE])

\* One read() takes everything; a pending error comes before the end of file.
handle_read(r) ==
  IF r.inbox > 0 THEN Result([r EXCEPT !.inbox = 0], <<>>, <<"user">>)
  ELSE IF r.err THEN handle_error(r)
  ELSE handle_close(r)

\* Variant: shutdown() does not wait for the output buffer.
shutdown_in_loop__now(r) == Done([r EXCEPT !.fin = TRUE, !.lost = @ + r.out])

\* Bytes still buffered when the write side is shut down would be lost.
shutdown_in_loop(r) ==
  Done(IF "out" \in r.events THEN r ELSE [r EXCEPT !.fin = TRUE, !.lost = @ + r.out])

\* Variant: a shutdown() that waited for the buffer is forgotten.
handle_write__no_shutdown(r, n) ==
  LET s == [r EXCEPT !.out = @ - n] IN
  IF "out" \notin r.events \/ n <= 0 THEN Done(r)
  ELSE IF s.out > 0 THEN Done(s)
  ELSE Result(update(s, s.events \ {"out"}), <<"write_complete">>, <<>>)

handle_write(r, n) ==
  LET s == [r EXCEPT !.out = @ - n]
      idle == update(s, s.events \ {"out"})
  IN IF "out" \notin r.events \/ n <= 0 THEN Done(r)
     ELSE IF s.out > 0 THEN Done(s)
     ELSE Result(IF r.state = "Disconnecting" THEN shutdown_in_loop(idle).r ELSE idle,
                 <<"write_complete">>, <<>>)

\* A message of one byte; n is what the direct write would return.
send_in_loop(r, n) ==
  LET direct == "out" \notin r.events /\ r.out = 0
      high == r.out + 1 >= HighWater /\ r.out < HighWater
      buffered == update([r EXCEPT !.out = @ + 1], r.events \cup {"out"})
  IN IF r.state = "Disconnected" THEN Done(r)
     ELSE IF direct /\ n = 1 THEN Result(r, <<"write_complete">>, <<>>)
     ELSE IF direct /\ n = Broken THEN Done([r EXCEPT !.err = FALSE])
     ELSE Result(buffered, IF high THEN <<"high_water_mark">> ELSE <<>>, <<>>)

start_read_in_loop(r) ==
  Done(IF ~r.reading \/ "in" \notin r.events
       THEN [update(r, r.events \cup {"in"}) EXCEPT !.reading = TRUE] ELSE r)

stop_read_in_loop(r) ==
  Done(IF r.reading \/ "in" \in r.events
       THEN [update(r, r.events \ {"in"}) EXCEPT !.reading = FALSE] ELSE r)

\* The connection callback (up) is the user code.
connect_established(r) ==
  Result([update(r, r.events \cup {"in"}) EXCEPT !.state = "Connected", !.ups = @ + 1],
         <<>>, <<"user">>)

\* Variant: the channel is not removed from the poller.
connect_destroyed__keep(r) ==
  IF r.state = "Connected"
  THEN Result([update(r, {}) EXCEPT !.state = "Disconnected", !.downs = @ + 1],
              <<>>, <<"user">>)
  ELSE Done(r)

connect_destroyed(r) ==
  IF r.state = "Connected"
  THEN Result([update(r, {}) EXCEPT !.state = "Disconnected", !.downs = @ + 1],
              <<>>, <<"user", "remove">>)
  ELSE Result(r, <<>>, <<"remove">>)

remove(r) == Done([r EXCEPT !.registered = FALSE])

Open(r) == r.state \in {"Connected", "Disconnecting"}

\* Variant: the state is not tested again in the loop.
force_close_in_loop__always(r) == handle_close(r)

force_close_in_loop(r) == IF Open(r) THEN handle_close(r) ELSE Done(r)

\* One step inside a call; n is the result of its write(), if it makes one.
Perform(step, r, n) ==
  CASE step = "connect_established" -> connect_established(r)
    [] step = "connect_destroyed"   -> connect_destroyed(r)
    [] step = "force_close_in_loop" -> force_close_in_loop(r)
    [] step = "send_in_loop"        -> send_in_loop(r, n)
    [] step = "shutdown_in_loop"    -> shutdown_in_loop(r)
    [] step = "handle_close"        -> handle_close(r)
    [] step = "handle_error"        -> handle_error(r)
    [] step = "handle_read"         -> handle_read(r)
    [] step = "handle_write"        -> handle_write(r, n)
    [] step = "remove"              -> remove(r)
    [] step \in {"write_complete", "high_water_mark"} -> Result(r, <<>>, <<"user">>)

(***************************************************************************)
(* The public calls, on the loop's thread: run_in_loop() is a plain call.  *)
(***************************************************************************)
force_close(r) ==
  IF Open(r) THEN Result([r EXCEPT !.state = "Disconnecting"], <<"force_close_in_loop">>, <<>>)
  ELSE Done(r)

Call(op, r, n) ==
  CASE op = "send" -> IF r.state = "Connected" THEN send_in_loop(r, n) ELSE Done(r)
    [] op = "shutdown" ->
         IF r.state = "Connected" THEN shutdown_in_loop([r EXCEPT !.state = "Disconnecting"])
         ELSE Done(r)
    [] op = "force_close" -> force_close(r)
    [] op = "force_close_with_delay" ->
         Done(IF Open(r) THEN [r EXCEPT !.state = "Disconnecting", !.delayed = TRUE] ELSE r)
    [] op = "start_read" -> start_read_in_loop(r)
    [] op = "stop_read" -> stop_read_in_loop(r)
=============================================================================
