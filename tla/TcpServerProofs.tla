--------------------------- MODULE TcpServerProofs ---------------------------
(***************************************************************************)
(* Proofs about TcpServer, for any number of connections, any calls by     *)
(* user code and any traffic.  What is proved in which configuration is    *)
(* said by two hypotheses on the constants.                                *)
(*                                                                         *)
(* The tasks of the I/O loop are what it is in the middle of, the batch it *)
(* runs and what is pending.  The life of a connection is told by one task *)
(* that wanders: connect_established before it is open; then, once it is   *)
(* closed, its close callback, its removal in the base loop,               *)
(* connect_destroyed and the removal of its channel.                       *)
(***************************************************************************)
EXTENDS TcpServer, IoLoopProofs, FiniteSetTheorems

\* Another thread only sends: shutdown() and force_close() overwrite the state.
OthersSend == ForeignOps \subseteq {"send"}

\* Besides, PollPoller, a server that lives as long as its loops, and no calls
\* of start_read() or stop_read().
Orderly ==
  /\ OthersSend
  /\ Poller = "poll"
  /\ ~MayDestroy
  /\ UserOps \cap {"start_read", "stop_read"} = {}

Task == Step \X Conn
Tasks == Entries(todo) \cup Entries(batch) \cup Entries(pending)

ServerTypeOK ==
  /\ conn \in [Conn -> Record]
  /\ todo \in Seq(Task) /\ batch \in Seq(Task) /\ pending \in Seq(Task)
  /\ phase \in {"poll", "dispatch", "drain"}
  /\ revents \in [Conn -> SUBSET {"in", "out", "hup", "err"}]
  /\ kept \in SUBSET Conn
  /\ accepted \in SUBSET Conn /\ connections \in SUBSET Conn /\ held \in SUBSET Conn
  /\ foreign = Idle \/ foreign \in {"send"} \X Conn
  /\ baseQueue \in Seq(Conn)

\* What a connection's record promises by itself.
RecordOK(r) ==
  /\ r \in Record
  /\ r.lost = 0
  /\ r.out > 0 /\ Open(r) => "out" \in r.events
  /\ r.state = "Connecting" => r.out = 0 /\ r.events = {} /\ ~r.registered /\ ~r.delayed

\* A connection that is not established yet: nobody knows it but its server.
NotEstablished ==
  \A c \in Conn : conn[c].state = "Connecting" =>
    /\ \A f \in Step : <<f, c>> \in Tasks =>
                         f \in {"connect_established", "connect_destroyed", "remove"}
    /\ c \notin held
    /\ revents[c] = {}

NotAccepted ==
  \A c \in Conn \ accepted :
    /\ conn[c].state = "Connecting"
    /\ \A f \in Step : <<f, c>> \notin Tasks
    /\ c \notin connections /\ c \notin Entries(baseQueue)

Establish(c) == {<<"connect_established", c>>}

\* It is established once.
EstablishedOnce ==
  \A c \in Conn :
    /\ OnceIn(Establish(c), todo, batch, pending)
    /\ <<"connect_established", c>> \in Tasks => conn[c].state = "Connecting" /\ c \in accepted

NoLateShutdown == \A c \in Conn : <<"shutdown_in_loop", c>> \notin Tasks

ForeignHolds == foreign # Idle => foreign[2] \in held

ServerInv ==
  /\ ServerTypeOK
  /\ \A c \in Conn : RecordOK(conn[c])
  /\ NotEstablished /\ NotAccepted /\ EstablishedOnce
  /\ NoLateShutdown /\ ForeignHolds

(***************************************************************************)
(* The orderly server.                                                     *)
(***************************************************************************)
LifeStep == {"connect_established", "connect_destroyed", "close_callback", "remove"}
ClosingStep == {"handle_close", "handle_read", "force_close_in_loop"}
Life(c) == LifeStep \X {c}
Closing(c) == (LifeStep \cup ClosingStep) \X {c}

Alone(c) == Tasks \cap Life(c) = {}
Leaving(c) == <<"close_callback", c>> \in Tasks \/ c \in Entries(baseQueue)

Phases ==
  /\ phase # "drain" => batch = <<>>
  /\ phase = "poll" => todo = <<>>
  /\ phase # "dispatch" => \A c \in Conn : revents[c] = {}

OnlyFunctors == \A e \in Queued : e[1] \in SharedFunctor \cup RawFunctor

\* One task at most tells of the life of a connection, and one step at most of
\* what the loop is in the middle of can close it.
OneLife(c) ==
  /\ OnceIn(Life(c), todo, batch, pending)
  /\ AtMostOne(todo, Closing(c))
  /\ AtMostOne(baseQueue, {c})
  /\ c \in Entries(baseQueue) => Alone(c)

Young(c) == conn[c].state = "Connecting" =>
  /\ conn[c].ups = 0 /\ conn[c].downs = 0
  /\ c \in accepted => c \in connections
  /\ c \notin Entries(baseQueue)
  /\ \A f \in Step : <<f, c>> \in Tasks => f = "connect_established"

Grown(c) == Open(conn[c]) =>
  /\ conn[c].ups = 1 /\ conn[c].downs = 0
  /\ c \in connections
  /\ Alone(c) /\ c \notin Entries(baseQueue)

Old(c) == conn[c].state = "Disconnected" =>
  /\ conn[c].ups = 1 /\ conn[c].downs = 1
  /\ conn[c].events = {}
  /\ conn[c].registered => ~Alone(c) \/ c \in Entries(baseQueue)
  /\ c \in connections <=> Leaving(c)

\* Events are dispatched, and reads and closes begun, on open connections only.
EventsOpen(c) ==
  /\ revents[c] # {} => Open(conn[c]) /\ Without(todo, Closing(c))
  /\ \A f \in {"handle_close", "handle_read"} : <<f, c>> \in Tasks => Open(conn[c])

Fate(c) == OneLife(c) /\ Young(c) /\ Grown(c) /\ Old(c) /\ EventsOpen(c)

LifeInv == ServerInv /\ Phases /\ OnlyFunctors /\ \A c \in Conn : Fate(c)

(***************************************************************************)
(* Sequences of tasks.                                                     *)
(***************************************************************************)
\* How tasks move between what the loop does, the batch and the queue.
LEMMA Moves ==
  ASSUME NEW t \in Seq(Task), NEW b \in Seq(Task), NEW p \in Seq(Task), NEW X, OnceIn(X, t, b, p)
  PROVE  /\ t # <<>> => /\ OnceIn(X, Tail(t), b, p)
                        /\ Head(t) \in X => Without(Tail(t), X) /\ Without(b, X) /\ Without(p, X)
         /\ b # <<>> => OnceIn(X, <<Head(b)>>, Tail(b), p)
         /\ OnceIn(X, <<>>, b, p) /\ OnceIn(X, <<>>, p, <<>>)
         /\ \A s \in Seq(Task) : Without(s, X) => OnceIn(X, s \o t, b, p) /\ OnceIn(X, t, b, p \o s)
         /\ \A e \in Task : e \notin X => OnceIn(X, t, b, Append(p, e))
         /\ \A e \in Task : Without(t, X) /\ Without(b, X) /\ Without(p, X) =>
              OnceIn(X, <<e>> \o t, b, p) /\ OnceIn(X, t, b, Append(p, e))
         /\ \A s \in Seq(Task) : AtMostOne(s, X) /\ Without(t, X) /\ Without(b, X) /\ Without(p, X) =>
              OnceIn(X, s \o t, b, p)
BY MovesOf

\* Steps bound to their connection.
LEMMA TaggedSteps ==
  ASSUME NEW c \in Conn, NEW F \in SUBSET Step, NEW steps \in Seq(F)
  PROVE  /\ Tagged(c, steps) \in Seq(Task)
         /\ \A e \in Entries(Tagged(c, steps)) : e[1] \in F /\ e[2] = c /\ e = <<e[1], c>>
         /\ \A X : (\A f \in F : <<f, c>> \notin X) => Without(Tagged(c, steps), X)
         /\ steps = <<>> => Entries(Tagged(c, steps)) = {}
<1>1. \A f \in F : <<f, c>> \in Task
  BY DEF Task
<1> QED
  BY <1>1, TaggedOf

(***************************************************************************)
(* The handlers of TcpConnection.                                          *)
(***************************************************************************)
Functor == {"write_complete", "high_water_mark", "force_close_in_loop"}
Inner == {"user", "close_callback", "remove"}

\* What every handler keeps: the record's promises; and it neither makes a
\* connection new again nor calls user code or queues functors for a new one.
ResultOK(r, res) ==
  /\ RecordOK(res.r) /\ res.q \in Seq(Functor) /\ res.todo \in Seq(Inner)
  /\ res.r.state = "Connecting" => /\ r.state = "Connecting" /\ res.q = <<>>
                                   /\ res.todo \in Seq({"remove"})

LEMMA SmallSequences ==
  /\ <<>> \in Seq(Functor) /\ <<>> \in Seq(Inner) /\ <<>> \in Seq({"remove"})
  /\ \A f \in Functor : <<f>> \in Seq(Functor)
  /\ <<"user">> \in Seq(Inner) /\ <<"remove">> \in Seq(Inner) /\ <<"remove">> \in Seq({"remove"})
  /\ <<"user", "remove">> \in Seq(Inner) /\ <<"user", "close_callback">> \in Seq(Inner)
BY DEF Inner, Functor

\* The records that keep the promises.
LEMMA PromisesKept ==
  ASSUME NEW r, RecordOK(r), NEW s
  PROVE  /\ Kept(r, s, {"registered"}) /\ r.state # "Connecting" => RecordOK(s)
         /\ Kept(r, s, {}) => RecordOK(s)
         /\ Kept(r, s, {"state"}) /\ s.state \in {"Disconnecting"} /\ Open(r) => RecordOK(s)
         /\ Kept(r, s, {"state", "events", "registered", "downs", "closes"})
              /\ s.state = "Disconnected" => RecordOK(s)
<1>1. r \in Record /\ r.lost = 0 /\ r.state \in State
  BY FieldTypes DEF RecordOK
<1>2. ASSUME Kept(r, s, {"registered"}), r.state # "Connecting" PROVE RecordOK(s)
  BY <1>2 DEF RecordOK, Kept, Field, Open
<1>3. ASSUME Kept(r, s, {}) PROVE RecordOK(s)
  BY <1>3 DEF RecordOK, Kept, Field, Open
<1>4. ASSUME Kept(r, s, {"state"}), s.state \in {"Disconnecting"}, Open(r) PROVE RecordOK(s)
  BY <1>4 DEF RecordOK, Kept, Field, Open
<1>5. ASSUME Kept(r, s, {"state", "events", "registered", "downs", "closes"}),
             s.state = "Disconnected"
      PROVE  RecordOK(s)
  BY <1>1, <1>5 DEF RecordOK, Kept, Field, Open
<1> QED
  BY <1>2, <1>3, <1>4, <1>5

LEMMA CloseOK ==
  ASSUME NEW r, RecordOK(r)
  PROVE  ResultOK(r, handle_close(r))
<1>1. PICK s : s = handle_close(r).r
  OBVIOUS
<1>2. handle_close(r).q = <<>> /\ handle_close(r).todo = <<"user", "close_callback">>
  BY DEF handle_close, Result
<1>3. RecordOK(s) /\ s.state = "Disconnected"
  BY <1>1, CloseEffect, PromisesKept DEF RecordOK
<1> QED
  BY <1>1, <1>2, <1>3, SmallSequences DEF ResultOK

\* A handler that only changes the record, in a way that keeps the promises.
LEMMA QuietOK ==
  ASSUME NEW r, RecordOK(r), NEW s, Kept(r, s, {}), NEW q \in Seq(Functor), NEW t \in Seq(Inner),
         r.state = "Connecting" => q = <<>> /\ t \in Seq({"remove"})
  PROVE  ResultOK(r, Result(s, q, t))
<1>1. RecordOK(s) /\ s.state = r.state
  BY PromisesKept DEF Kept, Field
<1> QED
  BY <1>1 DEF ResultOK, Result

LEMMA PlainOK ==
  ASSUME NEW r, NEW s, RecordOK(s), s.state = "Connecting" => r.state = "Connecting"
  PROVE  ResultOK(r, Done(s)) /\ Done(s).todo = <<>>
<1>1. Done(s).r = s /\ Done(s).q = <<>> /\ Done(s).todo = <<>>
  BY DEF Done, Result
<1> QED
  BY <1>1, SmallSequences DEF ResultOK

LEMMA SendOK ==
  ASSUME NEW r, RecordOK(r), r.state # "Connecting", NEW n
  PROVE  ResultOK(r, send_in_loop(r, n)) /\ send_in_loop(r, n).todo = <<>>
<1>1. PICK s : s = send_in_loop(r, n).r
  OBVIOUS
<1>2. RecordOK(s) /\ s.state = r.state
  <2>1. r \in Record
    BY DEF RecordOK
  <2>2. CASE Kept(r, s, {})
    BY <2>2, PromisesKept DEF Kept, Field
  <2>3. CASE /\ r.state # "Disconnected"
             /\ Kept(r, s, {"events", "registered", "out"})
             /\ s.events = r.events \cup {"out"} /\ s.registered
    BY <2>3 DEF RecordOK, Kept, Field
  <2> QED
    BY <1>1, <2>1, <2>2, <2>3, SendEffect
<1>3. send_in_loop(r, n).q \in Seq(Functor) /\ send_in_loop(r, n).todo = <<>>
  <2>1. send_in_loop(r, n).todo = <<>> /\ send_in_loop(r, n).q \in
          {<<>>, <<"write_complete">>, <<"high_water_mark">>}
    BY DEF send_in_loop, Done, Result
  <2> QED
    BY <2>1, SmallSequences DEF Functor
<1> QED
  BY <1>1, <1>2, <1>3, SmallSequences DEF ResultOK

LEMMA WriteOK ==
  ASSUME NEW r, RecordOK(r), r.state # "Connecting", NEW n \in Int, n <= r.out
  PROVE  ResultOK(r, handle_write(r, n))
<1>1. PICK s : s = handle_write(r, n).r
  OBVIOUS
<1>2. RecordOK(s) /\ s.state = r.state
  <2>1. r \in Record
    BY DEF RecordOK
  <2>2. CASE s = r
    BY <2>2
  <2>3. CASE Kept(r, s, {"out"}) /\ "out" \in r.events
    BY <2>3 DEF RecordOK, Kept, Field
  <2>4. CASE /\ Kept(r, s, {"events", "registered", "out"})
             /\ s.out = 0 /\ s.events = r.events \ {"out"} /\ "out" \in r.events
    BY <2>4 DEF RecordOK, Kept, Field
  <2> QED
    BY <1>1, <2>1, <2>2, <2>3, <2>4, WriteEffect
<1>3. handle_write(r, n).q \in Seq(Functor) /\ handle_write(r, n).todo = <<>>
  <2>1. handle_write(r, n).todo = <<>> /\ handle_write(r, n).q \in {<<>>, <<"write_complete">>}
    BY DEF handle_write, Done, Result
  <2> QED
    BY <2>1, SmallSequences DEF Functor
<1> QED
  BY <1>1, <1>2, <1>3, SmallSequences DEF ResultOK

\* Only connect_established() runs on a connection that is not established,
\* or connect_destroyed() if the server goes first.
LEMMA HandlerOK ==
  ASSUME NEW r, RecordOK(r), NEW step \in Step \ {"user", "close_callback", "shutdown_in_loop"},
         NEW n \in write(r, IF step = "handle_write" THEN r.out ELSE 1),
         r.state = "Connecting" => step \in {"connect_established", "connect_destroyed", "remove"},
         step = "connect_established" => r.state = "Connecting"
  PROVE  ResultOK(r, Perform(step, r, n))
<1>1. r \in Record /\ r.out \in Nat
  BY FieldTypes DEF RecordOK
<1>2. CASE step = "connect_established"
  <2>1. Perform(step, r, n) = connect_established(r)
    BY <1>2 DEF Perform
  <2>2. PICK s : s = connect_established(r).r
    OBVIOUS
  <2>3. /\ Kept(r, s, {"state", "events", "registered", "ups"}) /\ s.state = "Connected"
        /\ s.events = r.events \cup {"in"}
    BY <1>1, <2>2, EstablishEffect
  <2>4. RecordOK(s)
    BY <1>2, <2>3 DEF RecordOK, Kept, Field, Open
  <2>5. connect_established(r).q = <<>> /\ connect_established(r).todo = <<"user">>
    BY DEF connect_established, Result
  <2> QED
    BY <2>1, <2>2, <2>3, <2>4, <2>5, SmallSequences DEF ResultOK
<1>3. ASSUME r.state # "Connecting" PROVE ResultOK(r, handle_error(r))
  BY <1>1, <1>3, Assignments, QuietOK, SmallSequences DEF handle_error, Done
<1>4. CASE step = "handle_close"
  BY <1>4, CloseOK DEF Perform
<1>5. CASE step = "handle_error"
  BY <1>3, <1>5 DEF Perform
<1>6. Kept(r, r, {})
  BY <1>1 DEF Kept
<1>7. CASE step = "force_close_in_loop"
  <2>1. Perform(step, r, n) = force_close_in_loop(r)
    BY <1>7 DEF Perform
  <2>2. ResultOK(r, Done(r))
    BY <1>6, <1>7, QuietOK, SmallSequences DEF Done
  <2> QED
    BY <2>1, <2>2, CloseOK DEF force_close_in_loop
<1>8. CASE step = "handle_read"
  <2>1. Perform(step, r, n) = handle_read(r) /\ r.state # "Connecting"
    BY <1>8 DEF Perform
  <2>2. Kept(r, [r EXCEPT !.inbox = 0], {})
    BY <1>1, Assignments
  <2>3. ResultOK(r, Result([r EXCEPT !.inbox = 0], <<>>, <<"user">>))
    BY <1>8, <2>2, QuietOK, SmallSequences
  <2> QED
    BY <1>3, <2>1, <2>3, CloseOK DEF handle_read
<1>9. CASE step = "connect_destroyed"
  <2>1. Perform(step, r, n) = connect_destroyed(r)
    BY <1>9 DEF Perform
  <2>2. CASE r.state = "Connected"
    <3>1. PICK s : s = connect_destroyed(r).r
      OBVIOUS
    <3>2. Kept(r, s, {"state", "events", "registered", "downs"}) /\ s.state = "Disconnected"
      BY <1>1, <2>2, <3>1, DestroyEffect
    <3>3. RecordOK(s)
      BY <1>1, <3>2 DEF RecordOK, Kept, Field, Open
    <3>4. connect_destroyed(r).q = <<>> /\ connect_destroyed(r).todo = <<"user", "remove">>
      BY <2>2 DEF connect_destroyed, Result
    <3> QED
      BY <2>1, <3>1, <3>2, <3>3, <3>4, SmallSequences DEF ResultOK
  <2>3. CASE r.state # "Connected"
    <3>1. connect_destroyed(r) = Result(r, <<>>, <<"remove">>)
      BY <2>3 DEF connect_destroyed
    <3> QED
      BY <1>6, <2>1, <3>1, QuietOK, SmallSequences
  <2> QED
    BY <2>2, <2>3
<1>10. CASE step = "remove"
  <2>1. Perform(step, r, n) = Done([r EXCEPT !.registered = FALSE])
    BY <1>10 DEF Perform, remove
  <2>2. PICK s : s = [r EXCEPT !.registered = FALSE]
    OBVIOUS
  <2>3. Kept(r, s, {"registered"}) /\ ~s.registered
    BY <1>1, <2>2, Assignments
  <2>4. RecordOK(s) /\ s.state = r.state
    BY <2>3 DEF RecordOK, Kept, Field, Open
  <2> QED
    BY <2>1, <2>2, <2>4, PlainOK
<1>11. CASE step \in {"write_complete", "high_water_mark"}
  <2>1. Perform(step, r, n) = Result(r, <<>>, <<"user">>)
    BY <1>11 DEF Perform
  <2> QED
    BY <1>6, <1>11, <2>1, QuietOK, SmallSequences
<1>12. CASE step = "send_in_loop"
  BY <1>12, SendOK DEF Perform
<1>13. CASE step = "handle_write"
  <2>1. Perform(step, r, n) = handle_write(r, n)
    BY <1>13 DEF Perform
  <2>2. n \in Int /\ n <= r.out
    BY <1>1, <1>13 DEF write, Broken
  <2> QED
    BY <1>13, <2>1, <2>2, WriteOK
<1> QED
  BY <1>2, <1>4, <1>5, <1>7, <1>8, <1>9, <1>10, <1>11, <1>12, <1>13
  DEF Step, SharedFunctor, RawFunctor

\* The public calls, on an established connection.
LEMMA CallOK ==
  ASSUME NEW r, RecordOK(r), r.state # "Connecting", NEW op \in UserOp, NEW n
  PROVE  ResultOK(r, Call(op, r, n)) /\ Call(op, r, n).todo = <<>>
<1>1. r \in Record
  BY DEF RecordOK
<1>2. ResultOK(r, Done(r)) /\ Done(r).todo = <<>>
  BY PlainOK
<1>3. ASSUME NEW s, RecordOK(s), s.state # "Connecting"
      PROVE  ResultOK(r, Done(s)) /\ Done(s).todo = <<>>
  BY <1>3, PlainOK
<1>4. CASE op = "send"
  <2>1. Call(op, r, n) = IF r.state = "Connected" THEN send_in_loop(r, n) ELSE Done(r)
    BY <1>4 DEF Call
  <2> QED
    BY <1>2, <2>1, SendOK
<1>5. CASE op = "shutdown"
  <2>1. Call(op, r, n) = IF r.state = "Connected"
                         THEN shutdown_in_loop([r EXCEPT !.state = "Disconnecting"]) ELSE Done(r)
    BY <1>5 DEF Call
  <2>2. CASE r.state = "Connected"
    <3>1. PICK d : d = [r EXCEPT !.state = "Disconnecting"]
      OBVIOUS
    <3>2. Kept(r, d, {"state"}) /\ d.state = "Disconnecting"
      BY <1>1, <3>1, Assignments DEF State
    <3>3. RecordOK(d) /\ d \in Record
      BY <2>2, <3>2, PromisesKept DEF Open, Kept
    <3>4. "out" \in d.events \/ d.out = 0
      BY <3>2, <3>3, FieldTypes DEF RecordOK, Open
    <3>5. PICK s : s = shutdown_in_loop(d).r
      OBVIOUS
    <3>6. Kept(d, s, {})
      BY <3>3, <3>4, <3>5, ShutdownEffect
    <3>7. RecordOK(s) /\ s.state = "Disconnecting"
      BY <3>2, <3>3, <3>6, PromisesKept DEF Kept, Field
    <3>8. Call(op, r, n) = Done(s)
      BY <2>1, <2>2, <3>1, <3>5 DEF shutdown_in_loop, Done, Result
    <3> QED
      BY <1>3, <3>7, <3>8
  <2> QED
    BY <1>2, <2>1, <2>2
<1>6. ASSUME Open(r)
      PROVE  RecordOK([r EXCEPT !.state = "Disconnecting"])
             /\ [r EXCEPT !.state = "Disconnecting"].state = "Disconnecting"
  BY <1>1, <1>6, Assignments, PromisesKept DEF State
<1>7. CASE op = "force_close"
  <2>1. Call(op, r, n) = force_close(r)
    BY <1>7 DEF Call
  <2>2. CASE Open(r)
    <3>1. force_close(r) = Result([r EXCEPT !.state = "Disconnecting"], <<"force_close_in_loop">>, <<>>)
      BY <2>2 DEF force_close
    <3>2. <<"force_close_in_loop">> \in Seq(Functor)
      BY DEF Functor
    <3>3. PICK res : res = force_close(r)
      OBVIOUS
    <3>4. /\ res.q = <<"force_close_in_loop">> /\ res.todo = <<>>
          /\ res.r = [r EXCEPT !.state = "Disconnecting"]
      BY <3>1, <3>3 DEF Result
    <3>5. RecordOK(res.r) /\ res.r.state = "Disconnecting"
      BY <1>6, <2>2, <3>4
    <3>6. ResultOK(r, res)
      BY <3>2, <3>4, <3>5, SmallSequences DEF ResultOK
    <3> QED
      BY <2>1, <3>3, <3>4, <3>6
  <2> QED
    BY <1>2, <2>1, <2>2 DEF force_close
<1>8. CASE op = "force_close_with_delay"
  <2>1. Call(op, r, n) = Done(IF Open(r) THEN [r EXCEPT !.state = "Disconnecting", !.delayed = TRUE]
                              ELSE r)
    BY <1>8 DEF Call
  <2>2. CASE Open(r)
    <3>1. PICK d : d = [r EXCEPT !.state = "Disconnecting"]
      OBVIOUS
    <3>2. d \in Record /\ RecordOK(d) /\ d.state = "Disconnecting"
      BY <1>6, <2>2, <3>1 DEF RecordOK
    <3>3. PICK s : s = [d EXCEPT !.delayed = TRUE]
      OBVIOUS
    <3>4. Kept(d, s, {"delayed"})
      BY <3>2, <3>3, Assignments
    <3>5. RecordOK(s) /\ s.state # "Connecting"
      BY <3>2, <3>4 DEF RecordOK, Kept, Field, Open
    <3>6. s = [r EXCEPT !.state = "Disconnecting", !.delayed = TRUE]
      BY <3>1, <3>3
    <3> QED
      BY <1>3, <2>1, <2>2, <3>5, <3>6
  <2> QED
    BY <1>2, <2>1, <2>2
<1>9. ASSUME NEW ev \in SUBSET {"in", "out"}, ev \ {"in"} = r.events \ {"in"}, NEW v \in BOOLEAN
      PROVE  LET s == [update(r, ev) EXCEPT !.reading = v] IN RecordOK(s) /\ s.state # "Connecting"
  <2>1. PICK u : u = update(r, ev)
    OBVIOUS
  <2>2. Kept(r, u, {"events", "registered"}) /\ u.events = ev
    BY <1>1, <2>1, Assignments
  <2>3. RecordOK(u) /\ u \in Record /\ u.state # "Connecting"
    BY <1>9, <2>2 DEF RecordOK, Kept, Field, Open
  <2>4. Kept(u, [u EXCEPT !.reading = v], {})
    BY <2>3, Assignments
  <2> QED
    <3>1. PICK s : s = [u EXCEPT !.reading = v]
      OBVIOUS
    <3>2. RecordOK(s) /\ s.state # "Connecting"
      BY <2>3, <2>4, <3>1, PromisesKept DEF Kept, Field
    <3> QED
      BY <2>1, <3>1, <3>2
<1>10. CASE op = "start_read"
  <2>1. r.events \cup {"in"} \in SUBSET {"in", "out"} /\ (r.events \cup {"in"}) \ {"in"} = r.events \ {"in"}
    BY <1>1, FieldTypes
  <2> QED
    BY <1>2, <1>3, <1>9, <1>10, <2>1 DEF Call, start_read_in_loop
<1>11. CASE op = "stop_read"
  <2>1. r.events \ {"in"} \in SUBSET {"in", "out"} /\ (r.events \ {"in"}) \ {"in"} = r.events \ {"in"}
    BY <1>1, FieldTypes
  <2> QED
    BY <1>2, <1>3, <1>9, <1>11, <2>1 DEF Call, stop_read_in_loop
<1> QED
  BY <1>4, <1>5, <1>7, <1>8, <1>10, <1>11 DEF UserOp

(***************************************************************************)
(* The invariant of any server, destroyed or not, on either poller.        *)
(***************************************************************************)
\* Every step but accept(): N are the tasks it adds.
LEMMA Frame ==
  ASSUME ServerInv, NEW N \in SUBSET Task,
         ServerTypeOK', \A c \in Conn : RecordOK(conn'[c]), accepted' = accepted,
         \A c \in Conn : conn'[c].state = "Connecting" =>
                           conn[c].state = "Connecting" /\ revents'[c] = {} /\ c \notin held',
         \A c \in Conn : conn[c].state = "Connecting" =>
                           \/ conn'[c].state = "Connecting"
                           \/ c \in accepted /\ <<"connect_established", c>> \notin Tasks',
         Tasks' \subseteq Tasks \cup N,
         \A e \in N : /\ e[1] \notin {"connect_established", "shutdown_in_loop"}
                      /\ e[2] \in accepted
                      /\ conn'[e[2]].state = "Connecting" => e[1] \in {"connect_destroyed", "remove"},
         \A c \in Conn \ accepted : c \notin connections' /\ c \notin Entries(baseQueue'),
         \A c \in Conn : OnceIn(Establish(c), todo', batch', pending'),
         ForeignHolds'
  PROVE  ServerInv'
<1>1. /\ NotEstablished /\ NotAccepted /\ EstablishedOnce /\ NoLateShutdown
  BY DEF ServerInv
<1>2. ASSUME NEW f, NEW c, <<f, c>> \in N
      PROVE  /\ f \notin {"connect_established", "shutdown_in_loop"} /\ c \in accepted
             /\ conn'[c].state = "Connecting" => f \in {"connect_destroyed", "remove"}
  BY <1>2
<1>3. NotEstablished'
  <2> SUFFICES ASSUME NEW c \in Conn, conn'[c].state = "Connecting"
               PROVE  /\ \A f \in Step : <<f, c>> \in Tasks' =>
                                f \in {"connect_established", "connect_destroyed", "remove"}
                      /\ c \notin held' /\ revents'[c] = {}
    BY DEF NotEstablished
  <2>1. \A f \in Step : <<f, c>> \in Tasks => f \in {"connect_established", "connect_destroyed", "remove"}
    BY <1>1 DEF NotEstablished
  <2> QED
    BY <1>2, <2>1
<1>4. NotAccepted'
  <2> SUFFICES ASSUME NEW c \in Conn \ accepted
               PROVE  /\ conn'[c].state = "Connecting"
                      /\ \A f \in Step : <<f, c>> \notin Tasks'
                      /\ c \notin connections' /\ c \notin Entries(baseQueue')
    BY DEF NotAccepted, Entries
  <2>1. conn[c].state = "Connecting" /\ \A f \in Step : <<f, c>> \notin Tasks
    BY <1>1 DEF NotAccepted
  <2> QED
    BY <1>2, <2>1
<1>5. EstablishedOnce'
  <2> SUFFICES ASSUME NEW c \in Conn, <<"connect_established", c>> \in Tasks'
               PROVE  conn'[c].state = "Connecting" /\ c \in accepted'
    BY DEF EstablishedOnce, Establish
  <2>1. <<"connect_established", c>> \in Tasks
    BY <1>2
  <2>2. conn[c].state = "Connecting" /\ c \in accepted
    BY <1>1, <2>1 DEF EstablishedOnce
  <2> QED
    BY <2>2
<1>6. NoLateShutdown'
  BY <1>1, <1>2 DEF NoLateShutdown
<1> QED
  BY <1>3, <1>4, <1>5, <1>6 DEF ServerInv

\* A step that changes no connection: what is left to show.
LEMMA QuietFrame ==
  ASSUME ServerInv, NEW N \in SUBSET Task,
         ServerTypeOK', conn' = conn, accepted' = accepted, revents' = revents, held' = held,
         Tasks' \subseteq Tasks \cup N,
         \A e \in N : /\ e[1] \notin {"connect_established", "shutdown_in_loop"}
                      /\ e[2] \in accepted
                      /\ conn[e[2]].state = "Connecting" => e[1] \in {"connect_destroyed", "remove"},
         \A c \in Conn \ accepted : c \notin connections' /\ c \notin Entries(baseQueue'),
         \A c \in Conn : OnceIn(Establish(c), todo', batch', pending'),
         ForeignHolds'
  PROVE  ServerInv'
<1>1. \A c \in Conn : conn[c].state = "Connecting" => revents[c] = {} /\ c \notin held
  BY DEF ServerInv, NotEstablished
<1>2. \A c \in Conn : RecordOK(conn[c])
  BY DEF ServerInv
<1>3. \A c \in Conn : RecordOK(conn'[c])
  BY <1>2
<1> QED
  BY <1>1, <1>3, Frame

LEMMA ShrinkFrame ==
  ASSUME ServerInv, ServerTypeOK', conn' = conn, accepted' = accepted, revents' = revents, held' = held,
         Tasks' \subseteq Tasks,
         \A c \in Conn \ accepted : c \notin connections' /\ c \notin Entries(baseQueue'),
         \A c \in Conn : OnceIn(Establish(c), todo', batch', pending'),
         ForeignHolds'
  PROVE  ServerInv'
<1>1. PICK N : N = {}
  OBVIOUS
<1>2. N \in SUBSET Task /\ Tasks' \subseteq Tasks \cup N
  BY <1>1
<1> QED
  BY <1>1, <1>2, QuietFrame

\* A task of the loop is of an accepted connection.
LEMMA TaskKnown ==
  ASSUME ServerInv, NEW f \in Step, NEW c \in Conn, <<f, c>> \in Tasks
  PROVE  /\ c \in accepted /\ f # "shutdown_in_loop"
         /\ conn[c].state = "Connecting" => f \in {"connect_established", "connect_destroyed", "remove"}
         /\ f = "connect_established" => conn[c].state = "Connecting"
BY DEF ServerInv, NotAccepted, NotEstablished, NoLateShutdown, EstablishedOnce

\* The head of what the loop is in the middle of.
LEMMA HeadTask ==
  ASSUME ServerInv, todo # <<>>
  PROVE  /\ Head(todo) \in Task /\ Head(todo)[1] \in Step /\ Head(todo)[2] \in Conn
         /\ Head(todo) = <<Head(todo)[1], Head(todo)[2]>> /\ Head(todo) \in Tasks
         /\ Tail(todo) \in Seq(Task) /\ Entries(Tail(todo)) \subseteq Entries(todo)
         /\ \A c \in Conn : OnceIn(Establish(c), Tail(todo), batch, pending)
<1>1. todo \in Seq(Task) /\ batch \in Seq(Task) /\ pending \in Seq(Task)
  BY DEF ServerInv, ServerTypeOK
<1>2. /\ Head(todo) \in Task /\ Tail(todo) \in Seq(Task)
      /\ Entries(todo) = {Head(todo)} \cup Entries(Tail(todo))
  BY <1>1, EntriesOf
<1>3. ASSUME NEW c \in Conn PROVE OnceIn(Establish(c), Tail(todo), batch, pending)
  <2>1. OnceIn(Establish(c), todo, batch, pending)
    BY DEF ServerInv, EstablishedOnce
  <2> QED
    BY <1>1, <2>1, Moves
<1> QED
  BY <1>2, <1>3 DEF Task, Tasks

\* A handler's result takes effect.
LEMMA ApplyOK ==
  ASSUME ServerInv, NEW c \in accepted, NEW res, ResultOK(conn[c], res),
         NEW rest \in Seq(Task), Entries(rest) \subseteq Entries(todo),
         \A d \in Conn : OnceIn(Establish(d), rest, batch, pending),
         <<"connect_established", c>> \in Entries(rest) \cup Entries(batch) \cup Entries(pending)
           => res.r.state = "Connecting",
         Apply(c, res, rest), UNCHANGED <<accepted, connections, held, foreign, baseQueue>>
  PROVE  ServerInv'
<1>1. /\ ServerTypeOK /\ NotEstablished /\ NotAccepted /\ ForeignHolds /\ \A d \in Conn : RecordOK(conn[d])
  BY DEF ServerInv
<1>2. /\ c \in Conn /\ conn \in [Conn -> Record] /\ pending \in Seq(Task) /\ batch \in Seq(Task)
  BY <1>1 DEF ServerTypeOK
<1>3. /\ conn' = [conn EXCEPT ![c] = res.r] /\ pending' = pending \o Tagged(c, res.q)
      /\ todo' = Tagged(c, res.todo) \o rest
      /\ batch' = batch /\ phase' = phase /\ revents' = revents /\ kept' = kept
  BY DEF Apply
<1>4. /\ RecordOK(res.r) /\ res.r \in Record /\ res.q \in Seq(Functor) /\ res.todo \in Seq(Inner)
      /\ res.r.state = "Connecting" => /\ conn[c].state = "Connecting" /\ res.q = <<>>
                                       /\ res.todo \in Seq({"remove"})
  BY DEF ResultOK, RecordOK
<1>5. Functor \in SUBSET Step /\ Inner \in SUBSET Step /\ {"remove"} \in SUBSET Step
  BY DEF Functor, Inner, Step, SharedFunctor
<1>6. PICK q : q = Tagged(c, res.q)
  OBVIOUS
<1>7. PICK t : t = Tagged(c, res.todo)
  OBVIOUS
<1>8. /\ q \in Seq(Task) /\ \A e \in Entries(q) : e[1] \in Functor /\ e[2] = c /\ e = <<e[1], c>>
      /\ \A X : (\A f \in Functor : <<f, c>> \notin X) => Without(q, X)
      /\ res.q = <<>> => Entries(q) = {}
  BY <1>2, <1>4, <1>5, <1>6, TaggedSteps, ZenonT(60)
<1>9. /\ t \in Seq(Task) /\ \A e \in Entries(t) : e[1] \in Inner /\ e[2] = c /\ e = <<e[1], c>>
      /\ \A X : (\A f \in Inner : <<f, c>> \notin X) => Without(t, X)
  BY <1>2, <1>4, <1>5, <1>7, TaggedSteps
<1>10. res.todo \in Seq({"remove"}) => \A e \in Entries(t) : e[1] = "remove"
  <2>1. ASSUME NEW F \in SUBSET Step, res.todo \in Seq(F)
        PROVE  \A e \in Entries(t) : e[1] \in F
    BY <1>2, <1>7, <2>1, TaggedSteps
  <2> QED
    BY <1>5, <2>1
<1>11. /\ t \o rest \in Seq(Task) /\ Entries(t \o rest) = Entries(t) \cup Entries(rest)
       /\ pending \o q \in Seq(Task) /\ Entries(pending \o q) = Entries(pending) \cup Entries(q)
  BY <1>2, <1>8, <1>9, EntriesOf
<1>12. \A d \in Conn : conn'[d] = IF d = c THEN res.r ELSE conn[d]
  BY <1>2, <1>3
<1>13. ServerTypeOK'
  BY <1>1, <1>2, <1>3, <1>4, <1>6, <1>7, <1>11 DEF ServerTypeOK
<1>14. \A d \in Conn : RecordOK(conn'[d])
  BY <1>1, <1>4, <1>12
<1>15. Tasks' = Entries(t) \cup Entries(rest) \cup Entries(batch) \cup Entries(pending) \cup Entries(q)
  BY <1>3, <1>6, <1>7, <1>11 DEF Tasks
<1>16. PICK N : N = Entries(t) \cup Entries(q)
  OBVIOUS
<1>17. N \in SUBSET Task /\ Tasks' \subseteq Tasks \cup N
  BY <1>8, <1>9, <1>15, <1>16, EntriesOf DEF Tasks
<1>18. \A e \in N : /\ e[1] \notin {"connect_established", "shutdown_in_loop"}
                    /\ e[2] \in accepted
                    /\ conn'[e[2]].state = "Connecting" => e[1] \in {"connect_destroyed", "remove"}
  BY <1>2, <1>4, <1>8, <1>9, <1>10, <1>12, <1>16 DEF Functor, Inner
<1>19. ASSUME NEW d \in Conn PROVE OnceIn(Establish(d), todo', batch', pending')
  <2>1. Without(t, Establish(d)) /\ Without(q, Establish(d))
    BY <1>8, <1>9, ZenonT(60) DEF Establish, Functor, Inner
  <2>2. OnceIn(Establish(d), t \o rest, batch, pending)
    BY <1>2, <1>9, <2>1, Moves
  <2>3. OnceIn(Establish(d), t \o rest, batch, pending \o q)
    BY <1>2, <1>8, <1>11, <2>1, <2>2, Moves
  <2> QED
    BY <1>3, <1>6, <1>7, <2>3
<1>20. \A d \in Conn : conn'[d].state = "Connecting" =>
                         conn[d].state = "Connecting" /\ revents'[d] = {} /\ d \notin held'
  BY <1>1, <1>3, <1>4, <1>12 DEF NotEstablished
<1>21. ASSUME NEW d \in Conn, conn[d].state = "Connecting", conn'[d].state # "Connecting"
       PROVE  d \in accepted /\ <<"connect_established", d>> \notin Tasks'
  <2>1. d = c /\ res.r.state # "Connecting"
    BY <1>12, <1>21
  <2>2. <<"connect_established", c>> \notin Entries(t) \cup Entries(q)
    BY <1>16, <1>18
  <2> QED
    BY <1>15, <2>1, <2>2
<1>22. \A d \in Conn \ accepted : d \notin connections' /\ d \notin Entries(baseQueue')
  BY <1>1 DEF NotAccepted
<1>23. ForeignHolds'
  BY <1>1 DEF ForeignHolds
<1> QED
  BY <1>13, <1>14, <1>17, <1>18, <1>19, <1>20, <1>21, <1>22, <1>23, Frame

\* The channel of a connection that is not established has no events.
LEMMA ReadyOK ==
  ASSUME ServerInv
  PROVE  /\ Ready \in [Conn -> SUBSET {"in", "out", "hup", "err"}]
         /\ \A c \in Conn : conn[c].state = "Connecting" => Ready[c] = {}
<1>1. ASSUME NEW c \in Conn
      PROVE  /\ Revents(conn[c]) \in SUBSET {"in", "out", "hup", "err"}
             /\ conn[c].state = "Connecting" => Revents(conn[c]) = {}
  BY DEF Revents, Hidden, ServerInv, RecordOK
<1> QED
  BY <1>1 DEF Ready

\* The steps of the I/O loop.
LEMMA LoopKeeps ==
  ASSUME ServerInv, LoopStep
  PROVE  ServerInv'
<1>1. /\ ServerTypeOK /\ NotEstablished /\ NotAccepted /\ EstablishedOnce /\ ForeignHolds
      /\ \A c \in Conn : RecordOK(conn[c])
  BY DEF ServerInv
<1>2. /\ todo \in Seq(Task) /\ batch \in Seq(Task) /\ pending \in Seq(Task)
      /\ \A c \in Conn : OnceIn(Establish(c), todo, batch, pending)
  BY <1>1 DEF ServerTypeOK, EstablishedOnce
<1>3. /\ accepted' = accepted /\ connections' = connections /\ held' = held /\ foreign' = foreign
      /\ baseQueue' = baseQueue
  BY DEF LoopStep, serverVars
<1>4. /\ \A c \in Conn \ accepted : c \notin connections' /\ c \notin Entries(baseQueue')
      /\ ForeignHolds'
  BY <1>1, <1>3 DEF NotAccepted, ForeignHolds
<1>5. CASE poll(Ready)
  <2>1. /\ conn' = conn /\ todo' = todo /\ batch' = batch /\ pending' = pending /\ kept' = kept
        /\ revents' = Ready /\ phase' = "dispatch"
    BY <1>5 DEF poll
  <2>2. ServerTypeOK'
    BY <1>1, <1>3, <2>1, ReadyOK DEF ServerTypeOK
  <2>3. \A c \in Conn : conn'[c].state = "Connecting" =>
                          conn[c].state = "Connecting" /\ revents'[c] = {} /\ c \notin held'
    BY <1>1, <1>3, <2>1, ReadyOK DEF NotEstablished
  <2>4. \A c \in Conn : RecordOK(conn'[c])
    BY <1>1, <2>1
  <2>5. Tasks' = Tasks
    BY <2>1 DEF Tasks
  <2>6. \A c \in Conn : OnceIn(Establish(c), todo', batch', pending')
    BY <1>2, <2>1
  <2>7. \A c \in Conn : conn[c].state = "Connecting" => conn'[c].state = "Connecting"
    BY <2>1
  <2> QED
    BY <1>3, <1>4, <2>2, <2>3, <2>4, <2>5, <2>6, <2>7, Frame
<1>6. ASSUME NEW c \in Conn, dispatch(c, handle_event(revents[c])) PROVE ServerInv'
  <2>1. PICK t : t = Tagged(c, handle_event(revents[c]))
    OBVIOUS
  <2>2. /\ conn' = conn /\ todo' = t /\ batch' = batch /\ pending' = pending /\ kept' = kept
        /\ phase' = phase /\ revents' = [revents EXCEPT ![c] = {}] /\ revents[c] # {} /\ todo = <<>>
    BY <1>6, <2>1 DEF dispatch, BetweenCallbacks
  <2>3. Callback \in SUBSET Step
    BY DEF Callback, Step
  <2>4. /\ t \in Seq(Task) /\ \A e \in Entries(t) : e[1] \in Callback /\ e[2] = c /\ e = <<e[1], c>>
        /\ \A X : (\A f \in Callback : <<f, c>> \notin X) => Without(t, X)
    BY <2>1, <2>3, TaggedSteps, EventCallbacks
  <2>5. revents \in [Conn -> SUBSET {"in", "out", "hup", "err"}]
    BY <1>1 DEF ServerTypeOK
  <2>6. conn[c].state # "Connecting" /\ c \in accepted
    BY <1>1, <2>2 DEF NotEstablished, NotAccepted
  <2>7. ServerTypeOK'
    BY <1>1, <1>3, <2>2, <2>4, <2>5 DEF ServerTypeOK
  <2>8. \A d \in Conn : conn'[d].state = "Connecting" =>
                          conn[d].state = "Connecting" /\ revents'[d] = {} /\ d \notin held'
    BY <1>1, <1>3, <2>2, <2>5 DEF NotEstablished
  <2>9. \A d \in Conn : RecordOK(conn'[d])
    BY <1>1, <2>2
  <2>10. Entries(t) \in SUBSET Task /\ Tasks' \subseteq Tasks \cup Entries(t)
    BY <2>2, <2>4, EntriesOf DEF Tasks
  <2>11. \A e \in Entries(t) : /\ e[1] \notin {"connect_established", "shutdown_in_loop"}
                               /\ e[2] \in accepted
                               /\ conn'[e[2]].state = "Connecting" => e[1] \in {"connect_destroyed", "remove"}
    BY <2>2, <2>4, <2>6 DEF Callback
  <2>12. ASSUME NEW d \in Conn PROVE OnceIn(Establish(d), todo', batch', pending')
    <3>1. Without(t, Establish(d))
      BY <2>4 DEF Establish, Callback
    <3>2. OnceIn(Establish(d), t \o todo, batch, pending)
      BY <1>2, <2>4, <3>1, Moves
    <3>3. t \o todo = t
      BY <2>2, <2>4
    <3> QED
      BY <2>2, <3>2, <3>3
  <2>13. \A d \in Conn : conn[d].state = "Connecting" => conn'[d].state = "Connecting"
    BY <2>2
  <2> QED
    BY <1>3, <1>4, <2>7, <2>8, <2>9, <2>10, <2>11, <2>12, <2>13, Frame
<1>7. CASE swap
  <2>1. /\ conn' = conn /\ todo' = todo /\ batch' = pending /\ pending' = <<>> /\ revents' = revents
        /\ kept' \in SUBSET Conn /\ phase' = "drain" /\ todo = <<>>
    BY <1>7 DEF swap, BetweenCallbacks
  <2>2. ServerTypeOK'
    BY <1>1, <1>3, <2>1 DEF ServerTypeOK
  <2>3. Tasks' \subseteq Tasks
    BY <2>1 DEF Tasks, Entries
  <2>4. ASSUME NEW c \in Conn PROVE OnceIn(Establish(c), todo', batch', pending')
    <3>1. OnceIn(Establish(c), todo, batch, pending)
      BY <1>2
    <3>2. OnceIn(Establish(c), <<>>, pending, <<>>)
      BY <1>2, <3>1, Moves
    <3> QED
      BY <2>1, <3>2
  <2> QED
    BY <1>3, <1>4, <2>1, <2>2, <2>3, <2>4, ShrinkFrame
<1>8. CASE run_functor
  <2>1. /\ conn' = conn /\ todo' = <<Head(batch)>> /\ batch' = Tail(batch) /\ pending' = pending
        /\ revents' = revents /\ kept' = kept /\ phase' = phase /\ batch # <<>>
    BY <1>8 DEF run_functor
  <2>2. Head(batch) \in Task /\ Tail(batch) \in Seq(Task) /\ Entries(batch) = {Head(batch)} \cup Entries(Tail(batch))
    BY <1>2, <2>1, EntriesOf
  <2>3. <<Head(batch)>> \in Seq(Task) /\ Entries(<<Head(batch)>>) = {Head(batch)}
    BY <2>2 DEF Entries
  <2>4. ServerTypeOK'
    BY <1>1, <1>3, <2>1, <2>2, <2>3 DEF ServerTypeOK
  <2>5. Tasks' \subseteq Tasks
    BY <2>1, <2>2, <2>3 DEF Tasks
  <2>6. ASSUME NEW c \in Conn PROVE OnceIn(Establish(c), todo', batch', pending')
    <3>1. OnceIn(Establish(c), todo, batch, pending)
      BY <1>2
    <3>2. OnceIn(Establish(c), <<Head(batch)>>, Tail(batch), pending)
      BY <1>2, <2>1, <3>1, Moves
    <3> QED
      BY <2>1, <3>2
  <2> QED
    BY <1>3, <1>4, <2>1, <2>4, <2>5, <2>6, ShrinkFrame
<1>9. CASE drained
  <2>1. /\ conn' = conn /\ todo' = todo /\ batch' = batch /\ pending' = pending /\ revents' = revents
        /\ kept' = {} /\ phase' = "poll"
    BY <1>9 DEF drained
  <2>2. ServerTypeOK'
    BY <1>1, <1>3, <2>1 DEF ServerTypeOK
  <2>3. Tasks' = Tasks
    BY <2>1 DEF Tasks
  <2>4. \A c \in Conn : OnceIn(Establish(c), todo', batch', pending')
    BY <1>2, <2>1
  <2> QED
    BY <1>3, <1>4, <2>1, <2>2, <2>3, <2>4, ShrinkFrame
<1>10. CASE user_return
  <2>1. /\ conn' = conn /\ todo' = Tail(todo) /\ batch' = batch /\ pending' = pending
        /\ revents' = revents /\ kept' = kept /\ phase' = phase /\ todo # <<>>
    BY <1>10 DEF user_return, InUserCode
  <2>2. /\ Tail(todo) \in Seq(Task) /\ Entries(Tail(todo)) \subseteq Entries(todo)
        /\ \A c \in Conn : OnceIn(Establish(c), Tail(todo), batch, pending)
    BY <2>1, HeadTask
  <2>3. ServerTypeOK'
    BY <1>1, <1>3, <2>1, <2>2 DEF ServerTypeOK
  <2>4. Tasks' \subseteq Tasks
    BY <2>1, <2>2 DEF Tasks
  <2>5. \A c \in Conn : OnceIn(Establish(c), todo', batch', pending')
    BY <2>1, <2>2
  <2> QED
    BY <1>3, <1>4, <2>1, <2>3, <2>4, <2>5, ShrinkFrame
<1>11. CASE perform
  <2>1. PICK step, c : step = Head(todo)[1] /\ c = Head(todo)[2]
    OBVIOUS
  <2>2. todo # <<>> /\ step \in Step \ {"user", "close_callback"}
    BY <1>11, <2>1 DEF perform
  <2>3. PICK n \in write(conn[c], IF step = "handle_write" THEN conn[c].out ELSE 1) :
          Apply(c, Perform(step, conn[c], n), Tail(todo))
    BY <1>11, <2>1 DEF perform
  <2>4. /\ c \in Conn /\ Head(todo) = <<step, c>> /\ <<step, c>> \in Tasks
        /\ Tail(todo) \in Seq(Task) /\ Entries(Tail(todo)) \subseteq Entries(todo)
        /\ \A d \in Conn : OnceIn(Establish(d), Tail(todo), batch, pending)
    BY <2>1, <2>2, HeadTask
  <2>5. /\ c \in accepted /\ step # "shutdown_in_loop"
        /\ conn[c].state = "Connecting" => step \in {"connect_established", "connect_destroyed", "remove"}
        /\ step = "connect_established" => conn[c].state = "Connecting"
    BY <2>2, <2>4, TaskKnown
  <2>6. PICK res : res = Perform(step, conn[c], n)
    OBVIOUS
  <2>7. ResultOK(conn[c], res)
    BY <1>1, <2>2, <2>4, <2>5, <2>6, HandlerOK
  <2>8. <<"connect_established", c>> \in Entries(Tail(todo)) \cup Entries(batch) \cup Entries(pending)
          => res.r.state = "Connecting"
    <3>1. SUFFICES ASSUME <<"connect_established", c>> \in
                            Entries(Tail(todo)) \cup Entries(batch) \cup Entries(pending)
                   PROVE  res.r.state = "Connecting"
      OBVIOUS
    <3>2. conn[c].state = "Connecting"
      BY <1>1, <2>4, <3>1 DEF EstablishedOnce, Tasks
    <3>3. step # "connect_established"
      <4>1. OnceIn(Establish(c), todo, batch, pending)
        BY <1>2, <2>4
      <4>2. Head(todo) \in Establish(c) => /\ Without(Tail(todo), Establish(c))
              /\ Without(batch, Establish(c)) /\ Without(pending, Establish(c))
        BY <1>2, <2>2, <4>1, Moves
      <4> QED
        BY <2>4, <3>1, <4>2 DEF Establish, Without
    <3>4. step \in {"connect_destroyed", "remove"}
      BY <2>5, <3>2, <3>3
    <3>5. conn[c] \in Record
      BY <1>1, <2>4 DEF RecordOK
    <3>6. res.r.state = conn[c].state
      <4>1. CASE step = "connect_destroyed"
        BY <2>6, <3>2, <4>1 DEF Perform, connect_destroyed, Result
      <4>2. CASE step = "remove"
        <5>1. res.r = [conn[c] EXCEPT !.registered = FALSE]
          BY <2>6, <4>2 DEF Perform, remove, Done, Result
        <5>2. Kept(conn[c], res.r, {"registered"})
          BY <3>5, <5>1, Assignments
        <5> QED
          BY <5>2 DEF Kept, Field
      <4> QED
        BY <3>4, <4>1, <4>2
    <3> QED
      BY <3>2, <3>6
  <2> QED
    BY <1>3, <2>3, <2>4, <2>5, <2>6, <2>7, <2>8, ApplyOK
<1> QED
  BY <1>5, <1>6, <1>7, <1>8, <1>9, <1>10, <1>11 DEF LoopStep

\* remove_connection() and remove_connection_in_loop().
LEMMA RemovalKeeps ==
  ASSUME ServerInv, close_callback \/ remove_connection_in_loop
  PROVE  ServerInv'
<1>1. /\ ServerTypeOK /\ NotEstablished /\ NotAccepted /\ EstablishedOnce /\ ForeignHolds
  BY DEF ServerInv
<1>2. /\ todo \in Seq(Task) /\ batch \in Seq(Task) /\ pending \in Seq(Task) /\ baseQueue \in Seq(Conn)
      /\ \A c \in Conn : OnceIn(Establish(c), todo, batch, pending)
  BY <1>1 DEF ServerTypeOK, EstablishedOnce
<1>3. /\ conn' = conn /\ accepted' = accepted /\ revents' = revents /\ held' = held /\ batch' = batch
      /\ phase' = phase /\ kept' = kept /\ foreign' = foreign
  BY DEF close_callback, remove_connection_in_loop
<1>4. ForeignHolds'
  BY <1>1, <1>3 DEF ForeignHolds
<1>5. ASSUME NEW c \in Conn
      PROVE  /\ <<"connect_destroyed", c>> \in Task
             /\ Append(pending, <<"connect_destroyed", c>>) \in Seq(Task)
             /\ Entries(Append(pending, <<"connect_destroyed", c>>)) =
                  Entries(pending) \cup {<<"connect_destroyed", c>>}
  <2>1. <<"connect_destroyed", c>> \in Task
    BY DEF Task, Step, SharedFunctor
  <2>2. \A e \in Task : Entries(Append(pending, e)) = Entries(pending) \cup {e}
    BY <1>2, EntriesOf
  <2>3. \A e \in Task : Append(pending, e) \in Seq(Task)
    BY <1>2
  <2> QED
    BY <2>1, <2>2, <2>3
<1>6. ASSUME NEW c \in Conn, NEW t \in Seq(Task), NEW d \in Conn,
             OnceIn(Establish(d), t, batch, pending)
      PROVE  OnceIn(Establish(d), t, batch, Append(pending, <<"connect_destroyed", c>>))
  <2>1. <<"connect_destroyed", c>> \notin Establish(d)
    BY DEF Establish
  <2> QED
    BY <1>2, <1>5, <1>6, <2>1, Moves
<1>7. CASE close_callback
  <2>1. PICK c : c = Head(todo)[2]
    OBVIOUS
  <2>2. todo # <<>> /\ Head(todo)[1] = "close_callback" /\ todo' = Tail(todo)
    BY <1>7 DEF close_callback
  <2>3. /\ c \in Conn /\ <<"close_callback", c>> \in Tasks
        /\ Tail(todo) \in Seq(Task) /\ Entries(Tail(todo)) \subseteq Entries(todo)
        /\ \A d \in Conn : OnceIn(Establish(d), Tail(todo), batch, pending)
    BY <2>1, <2>2, HeadTask
  <2>4. c \in accepted
    BY <2>3, TaskKnown DEF Step
  <2>5. CASE IoIsBase
    <3>1. /\ connections' = connections \ {c} /\ baseQueue' = baseQueue
          /\ pending' = Append(pending, <<"connect_destroyed", c>>)
      BY <1>7, <2>1, <2>5 DEF close_callback, erase
    <3>2. ServerTypeOK'
      BY <1>1, <1>3, <1>5, <2>2, <2>3, <3>1 DEF ServerTypeOK
    <3>3. Tasks' \subseteq Tasks \cup {<<"connect_destroyed", c>>}
      BY <1>3, <1>5, <2>2, <2>3, <3>1 DEF Tasks
    <3>4. \A d \in Conn : OnceIn(Establish(d), todo', batch', pending')
      BY <1>3, <1>6, <2>2, <2>3, <3>1
    <3>5. \A d \in Conn \ accepted : d \notin connections' /\ d \notin Entries(baseQueue')
      BY <1>1, <3>1 DEF NotAccepted
    <3>6. PICK N : N = {<<"connect_destroyed", c>>}
      OBVIOUS
    <3>7. N \in SUBSET Task
      BY <1>5, <2>3, <3>6
    <3>8. \A e \in N : /\ e[1] \notin {"connect_established", "shutdown_in_loop"} /\ e[2] \in accepted
                       /\ conn[e[2]].state = "Connecting" => e[1] \in {"connect_destroyed", "remove"}
      BY <2>4, <3>6
    <3> QED
      BY <1>3, <1>4, <3>2, <3>3, <3>4, <3>5, <3>6, <3>7, <3>8, QuietFrame
  <2>6. CASE ~IoIsBase
    <3>1. connections' = connections /\ baseQueue' = Append(baseQueue, c) /\ pending' = pending
      BY <1>7, <2>1, <2>6 DEF close_callback
    <3>2. baseQueue' \in Seq(Conn) /\ Entries(baseQueue') = Entries(baseQueue) \cup {c}
      BY <1>2, <2>3, <3>1, EntriesOf
    <3>3. ServerTypeOK'
      BY <1>1, <1>3, <2>2, <2>3, <3>1, <3>2 DEF ServerTypeOK
    <3>4. Tasks' \subseteq Tasks
      BY <1>3, <2>2, <2>3, <3>1 DEF Tasks
    <3>5. \A d \in Conn : OnceIn(Establish(d), todo', batch', pending')
      BY <1>3, <2>2, <2>3, <3>1
    <3>6. \A d \in Conn \ accepted : d \notin connections' /\ d \notin Entries(baseQueue')
      BY <1>1, <2>4, <3>1, <3>2 DEF NotAccepted
    <3> QED
      BY <1>3, <1>4, <3>3, <3>4, <3>5, <3>6, ShrinkFrame
  <2> QED
    BY <2>5, <2>6
<1>8. CASE remove_connection_in_loop
  <2>1. PICK c : c = Head(baseQueue)
    OBVIOUS
  <2>2. /\ baseQueue # <<>> /\ connections' = connections \ {c} /\ baseQueue' = Tail(baseQueue)
        /\ pending' = Append(pending, <<"connect_destroyed", c>>) /\ todo' = todo
    BY <1>8, <2>1 DEF remove_connection_in_loop, erase
  <2>3. /\ c \in Conn /\ Tail(baseQueue) \in Seq(Conn)
        /\ Entries(baseQueue) = {c} \cup Entries(Tail(baseQueue))
    BY <1>2, <2>1, <2>2, EntriesOf
  <2>4. c \in accepted
    BY <1>1, <2>3 DEF NotAccepted
  <2>5. ServerTypeOK'
    BY <1>1, <1>3, <1>5, <2>2, <2>3 DEF ServerTypeOK
  <2>6. Tasks' \subseteq Tasks \cup {<<"connect_destroyed", c>>}
    BY <1>3, <1>5, <2>2, <2>3 DEF Tasks
  <2>7. \A d \in Conn : OnceIn(Establish(d), todo', batch', pending')
    BY <1>2, <1>3, <1>6, <2>2, <2>3
  <2>8. \A d \in Conn \ accepted : d \notin connections' /\ d \notin Entries(baseQueue')
    BY <1>1, <2>2, <2>3 DEF NotAccepted
  <2>9. PICK N : N = {<<"connect_destroyed", c>>}
    OBVIOUS
  <2>10. N \in SUBSET Task
    BY <1>5, <2>3, <2>9
  <2>11. \A e \in N : /\ e[1] \notin {"connect_established", "shutdown_in_loop"} /\ e[2] \in accepted
                      /\ conn[e[2]].state = "Connecting" => e[1] \in {"connect_destroyed", "remove"}
    BY <2>4, <2>9
  <2> QED
    BY <1>3, <1>4, <2>5, <2>6, <2>7, <2>8, <2>9, <2>10, <2>11, QuietFrame
<1> QED
  BY <1>7, <1>8

LEMMA AcceptKeeps ==
  ASSUME ServerInv, NEW c \in Conn, accept(c)
  PROVE  ServerInv'
<1>1. /\ ServerTypeOK /\ NotEstablished /\ NotAccepted /\ EstablishedOnce /\ NoLateShutdown
      /\ ForeignHolds /\ \A d \in Conn : RecordOK(conn[d])
  BY DEF ServerInv
<1>2. /\ todo \in Seq(Task) /\ batch \in Seq(Task) /\ pending \in Seq(Task)
  BY <1>1 DEF ServerTypeOK
<1>3. /\ accepted' = accepted \cup {c} /\ connections' = connections \cup {c} /\ c \notin accepted
      /\ conn' = conn /\ batch' = batch /\ phase' = phase /\ revents' = revents /\ kept' = kept
      /\ held' = held /\ foreign' = foreign /\ baseQueue' = baseQueue
  BY DEF accept, new_connection, RunInIoLoop
<1>4. PICK e : e = <<"connect_established", c>>
  OBVIOUS
<1>5. e \in Task /\ <<e>> \in Seq(Task) /\ Entries(<<e>>) = {e} /\ e \in Establish(c)
  BY <1>4 DEF Task, Step, SharedFunctor, Entries, Establish
<1>6. \/ todo' = <<e>> \o todo /\ pending' = pending
      \/ pending' = pending \o <<e>> /\ todo' = todo
  BY <1>4 DEF accept, new_connection, RunInIoLoop
<1>7. pending \o <<e>> = Append(pending, e)
  BY <1>2, <1>5
<1>8. /\ Entries(<<e>> \o todo) = Entries(<<e>>) \cup Entries(todo) /\ <<e>> \o todo \in Seq(Task)
      /\ Entries(pending \o <<e>>) = Entries(pending) \cup Entries(<<e>>) /\ pending \o <<e>> \in Seq(Task)
  <2>1. PICK u : u = <<e>>
    OBVIOUS
  <2>2. u \in Seq(Task)
    BY <1>5, <2>1
  <2>3. /\ Entries(u \o todo) = Entries(u) \cup Entries(todo) /\ u \o todo \in Seq(Task)
        /\ Entries(pending \o u) = Entries(pending) \cup Entries(u) /\ pending \o u \in Seq(Task)
    BY <1>2, <2>2, EntriesOf
  <2> QED
    BY <2>1, <2>3
<1>9. Tasks' = Tasks \cup {e}
  <2>1. CASE todo' = <<e>> \o todo /\ pending' = pending
    BY <1>3, <1>5, <1>8, <2>1 DEF Tasks
  <2>2. CASE pending' = pending \o <<e>> /\ todo' = todo
    BY <1>3, <1>5, <1>8, <2>2 DEF Tasks
  <2> QED
    BY <1>6, <2>1, <2>2
<1>10. ServerTypeOK'
  BY <1>1, <1>3, <1>6, <1>8 DEF ServerTypeOK
<1>11. conn[c].state = "Connecting" /\ \A f \in Step : <<f, c>> \notin Tasks
  BY <1>1, <1>3 DEF NotAccepted
<1>12. NotEstablished'
  <2> SUFFICES ASSUME NEW d \in Conn, conn[d].state = "Connecting"
               PROVE  /\ \A f \in Step : <<f, d>> \in Tasks' =>
                                f \in {"connect_established", "connect_destroyed", "remove"}
                      /\ d \notin held /\ revents[d] = {}
    BY <1>3 DEF NotEstablished
  <2> QED
    BY <1>1, <1>4, <1>9 DEF NotEstablished
<1>13. NotAccepted'
  <2> SUFFICES ASSUME NEW d \in Conn \ (accepted \cup {c})
               PROVE  /\ conn[d].state = "Connecting" /\ \A f \in Step : <<f, d>> \notin Tasks'
                      /\ d \notin connections \cup {c} /\ d \notin Entries(baseQueue)
    BY <1>3 DEF NotAccepted
  <2> QED
    BY <1>1, <1>4, <1>9 DEF NotAccepted
<1>14. EstablishedOnce'
  <2>1. ASSUME NEW d \in Conn PROVE OnceIn(Establish(d), todo', batch', pending')
    <3>1. OnceIn(Establish(d), todo, batch, pending)
      BY <1>1 DEF EstablishedOnce
    <3>2. CASE d # c
      <4>1. Without(<<e>>, Establish(d))
        BY <1>4, <1>5, <3>2 DEF Without, Establish
      <4>2. OnceIn(Establish(d), <<e>> \o todo, batch, pending) /\ OnceIn(Establish(d), todo, batch, pending \o <<e>>)
        BY <1>2, <1>5, <3>1, <4>1, Moves
      <4> QED
        BY <1>3, <1>6, <4>2
    <3>3. CASE d = c
      <4>1. Without(todo, Establish(d)) /\ Without(batch, Establish(d)) /\ Without(pending, Establish(d))
        BY <1>4, <1>5, <1>11, <3>3 DEF Without, Establish, Tasks, Step, SharedFunctor
      <4>2. OnceIn(Establish(d), <<e>> \o todo, batch, pending) /\ OnceIn(Establish(d), todo, batch, Append(pending, e))
        BY <1>2, <1>5, <3>1, <4>1, Moves
      <4> QED
        BY <1>3, <1>6, <1>7, <4>2
    <3> QED
      BY <3>2, <3>3
  <2>2. ASSUME NEW d \in Conn, <<"connect_established", d>> \in Tasks'
        PROVE  conn'[d].state = "Connecting" /\ d \in accepted'
    BY <1>1, <1>3, <1>4, <1>9, <1>11, <2>2 DEF EstablishedOnce
  <2> QED
    BY <2>1, <2>2 DEF EstablishedOnce, Establish
<1>15. NoLateShutdown'
  BY <1>1, <1>4, <1>9 DEF NoLateShutdown
<1>16. ForeignHolds' /\ \A d \in Conn : RecordOK(conn'[d])
  BY <1>1, <1>3 DEF ForeignHolds
<1> QED
  BY <1>10, <1>12, <1>13, <1>14, <1>15, <1>16 DEF ServerInv

\* ~TcpServer().
LEMMA DestroyKeeps ==
  ASSUME ServerInv, destroy_server
  PROVE  ServerInv'
<1>1. /\ ServerTypeOK /\ NotAccepted /\ EstablishedOnce /\ ForeignHolds
  BY DEF ServerInv
<1>2. /\ todo \in Seq(Task) /\ batch \in Seq(Task) /\ pending \in Seq(Task) /\ connections \in SUBSET Conn
      /\ \A c \in Conn : OnceIn(Establish(c), todo, batch, pending)
  BY <1>1 DEF ServerTypeOK, EstablishedOnce
<1>3. PICK order \in [1..Cardinality(connections) -> connections] :
        RunInIoLoop([i \in DOMAIN order |-> <<"connect_destroyed", order[i]>>])
  BY DEF destroy_server
<1>4. Cardinality(connections) \in Nat
  BY <1>2, ConnAssumption, FS_Subset, FS_CardinalityType
<1>5. PICK s : s = [i \in DOMAIN order |-> <<"connect_destroyed", order[i]>>]
  OBVIOUS
<1>6. /\ conn' = conn /\ batch' = batch /\ phase' = phase /\ revents' = revents /\ kept' = kept
      /\ accepted' = accepted /\ held' = held /\ foreign' = foreign /\ baseQueue' = baseQueue
      /\ connections' = {}
      /\ \/ todo' = s \o todo /\ pending' = pending
         \/ pending' = pending \o s /\ todo' = todo
  BY <1>3, <1>5 DEF destroy_server, RunInIoLoop
<1>7. \A i \in 1..Cardinality(connections) : <<"connect_destroyed", order[i]>> \in Task
  BY <1>2 DEF Task, Step, SharedFunctor
<1>8. s \in Seq(Task) /\ Len(s) = Cardinality(connections)
  BY <1>4, <1>5, <1>7
<1>9. \A e \in Entries(s) : e[1] = "connect_destroyed" /\ e[2] \in accepted
  <2>1. connections \subseteq accepted
    BY <1>1, <1>2 DEF NotAccepted
  <2>2. ASSUME NEW i \in 1..Cardinality(connections) PROVE s[i] = <<"connect_destroyed", order[i]>>
    BY <1>5
  <2> QED
    BY <1>8, <2>1, <2>2 DEF Entries
<1>10. /\ s \o todo \in Seq(Task) /\ Entries(s \o todo) = Entries(s) \cup Entries(todo)
       /\ pending \o s \in Seq(Task) /\ Entries(pending \o s) = Entries(pending) \cup Entries(s)
       /\ Entries(s) \in SUBSET Task
  BY <1>2, <1>8, EntriesOf
<1>11. ServerTypeOK'
  BY <1>1, <1>6, <1>10 DEF ServerTypeOK
<1>12. Tasks' \subseteq Tasks \cup Entries(s)
  BY <1>6, <1>10 DEF Tasks
<1>13. ASSUME NEW c \in Conn PROVE OnceIn(Establish(c), todo', batch', pending')
  <2>1. Without(s, Establish(c))
    BY <1>9 DEF Without, Establish
  <2>2. OnceIn(Establish(c), todo, batch, pending)
    BY <1>2
  <2>3. OnceIn(Establish(c), s \o todo, batch, pending) /\ OnceIn(Establish(c), todo, batch, pending \o s)
    BY <1>2, <1>8, <2>1, <2>2, Moves
  <2> QED
    BY <1>6, <2>3
<1>14. \A c \in Conn \ accepted : c \notin connections' /\ c \notin Entries(baseQueue')
  BY <1>1, <1>6 DEF NotAccepted
<1>15. ForeignHolds'
  BY <1>1, <1>6 DEF ForeignHolds
<1>16. \A e \in Entries(s) : /\ e[1] \notin {"connect_established", "shutdown_in_loop"} /\ e[2] \in accepted
                             /\ conn[e[2]].state = "Connecting" => e[1] \in {"connect_destroyed", "remove"}
  BY <1>9
<1> QED
  BY <1>6, <1>10, <1>11, <1>12, <1>13, <1>14, <1>15, <1>16, QuietFrame

\* The peers change nothing that the promises speak of.
LEMMA PeerEffect ==
  ASSUME NEW c \in Conn, conn \in [Conn -> Record], conn[c] \in Record, peer_acts(c)
  PROVE  conn' = [conn EXCEPT ![c] = conn'[c]] /\ Kept(conn[c], conn'[c], {})
<1>1. PICK r : r = conn'[c]
  OBVIOUS
<1>2. CASE peer_sends(c)
  <2>1. conn' = [conn EXCEPT ![c].inbox = @ + 1]
    BY <1>2 DEF peer_sends
  <2>2. r = [conn[c] EXCEPT !.inbox = @ + 1] /\ conn' = [conn EXCEPT ![c] = r]
    BY <1>1, <2>1
  <2>3. Kept(conn[c], r, {})
    BY <2>2 DEF Record, Kept, Field
  <2> QED
    BY <1>1, <2>2, <2>3
<1>3. CASE peer_closes(c)
  <2>1. conn' = [conn EXCEPT ![c].peer = "fin"]
    BY <1>3 DEF peer_closes
  <2>2. r = [conn[c] EXCEPT !.peer = "fin"] /\ conn' = [conn EXCEPT ![c] = r]
    BY <1>1, <2>1
  <2>3. Kept(conn[c], r, {})
    BY <2>2 DEF Record, Kept, Field
  <2> QED
    BY <1>1, <2>2, <2>3
<1>4. CASE peer_resets(c)
  <2>1. conn' = [conn EXCEPT ![c].peer = "rst", ![c].err = TRUE]
    BY <1>4 DEF peer_resets
  <2>2. r = [conn[c] EXCEPT !.peer = "rst", !.err = TRUE] /\ conn' = [conn EXCEPT ![c] = r]
    BY <1>1, <2>1
  <2>3. Kept(conn[c], r, {})
    BY <2>2 DEF Record, Kept, Field
  <2> QED
    BY <1>1, <2>2, <2>3
<1> QED
  BY <1>2, <1>3, <1>4 DEF peer_acts

\* The other thread and the peers.
LEMMA OthersKeep ==
  ASSUME ServerInv, OthersSend, NEW c \in Conn,
         \/ user_share \/ foreign_act \/ foreign_release(c) \/ peer_acts(c)
         \/ \E op \in ForeignOps : foreign_test(op, c)
  PROVE  ServerInv'
<1>1. /\ ServerTypeOK /\ NotEstablished /\ NotAccepted /\ EstablishedOnce /\ NoLateShutdown
      /\ ForeignHolds /\ \A d \in Conn : RecordOK(conn[d])
  BY DEF ServerInv
<1>2. /\ todo \in Seq(Task) /\ batch \in Seq(Task) /\ pending \in Seq(Task)
      /\ \A d \in Conn : OnceIn(Establish(d), todo, batch, pending)
  BY <1>1 DEF ServerTypeOK, EstablishedOnce
<1>3. /\ accepted' = accepted /\ connections' = connections /\ baseQueue' = baseQueue
      /\ todo' = todo /\ batch' = batch /\ phase' = phase /\ revents' = revents /\ kept' = kept
  BY DEF user_share, foreign_act, foreign_release, foreign_test, peer_acts, peer_sends, peer_closes,
         peer_resets, ioVars, turnVars, serverVars
<1>4. \A d \in Conn \ accepted : d \notin connections' /\ d \notin Entries(baseQueue')
  BY <1>1, <1>3 DEF NotAccepted
<1>5. CASE user_share
  <2>1. PICK d : d = Head(todo)[2]
    OBVIOUS
  <2>2. /\ todo # <<>> /\ Head(todo)[1] = "user" /\ held' = held \cup {d}
        /\ conn' = conn /\ pending' = pending /\ foreign' = foreign
    BY <1>5, <2>1 DEF user_share, InUserCode, ioVars, turnVars
  <2>3. d \in Conn /\ <<"user", d>> \in Tasks
    BY <2>1, <2>2, HeadTask
  <2>4. conn[d].state # "Connecting"
    BY <1>1, <2>3 DEF NotEstablished, Step
  <2>5. ServerTypeOK'
    BY <1>1, <1>3, <2>2, <2>3 DEF ServerTypeOK
  <2>6. Tasks' = Tasks
    BY <1>3, <2>2 DEF Tasks
  <2>7. NotEstablished' /\ NotAccepted' /\ ForeignHolds' /\ \A x \in Conn : RecordOK(conn'[x])
    BY <1>1, <1>3, <2>2, <2>4, <2>6 DEF NotEstablished, NotAccepted, ForeignHolds
  <2>8. EstablishedOnce' /\ NoLateShutdown'
    BY <1>1, <1>3, <2>2, <2>6 DEF EstablishedOnce, NoLateShutdown, Establish
  <2> QED
    BY <2>5, <2>7, <2>8 DEF ServerInv
<1>6. CASE foreign_act
  <2>1. PICK d : d = foreign[2]
    OBVIOUS
  <2>2. foreign # Idle /\ foreign' = Idle /\ held' = held
    BY <1>6 DEF foreign_act
  <2>3. foreign \in {"send"} \X Conn /\ d \in held
    BY <1>1, <2>1, <2>2 DEF ServerTypeOK, ForeignHolds
  <2>4. d \in Conn /\ foreign[1] = "send"
    BY <2>1, <2>3
  <2>5. conn[d].state # "Connecting" /\ d \in accepted
    BY <1>1, <2>3, <2>4 DEF NotEstablished, NotAccepted
  <2>6. PICK e : e = <<"send_in_loop", d>>
    OBVIOUS
  <2>7. e \in Task
    BY <2>4, <2>6 DEF Task, Step, RawFunctor
  <2>8. pending' = Append(pending, e) /\ conn' = conn
    BY <1>6, <2>1, <2>4, <2>6 DEF foreign_act, InLoop
  <2>9. pending' \in Seq(Task) /\ Entries(pending') = Entries(pending) \cup {e}
    BY <1>2, <2>7, <2>8, EntriesOf
  <2>10. ServerTypeOK'
    BY <1>1, <1>3, <2>2, <2>8, <2>9 DEF ServerTypeOK
  <2>11. Tasks' \subseteq Tasks \cup {e}
    BY <1>3, <2>9 DEF Tasks
  <2>12. ASSUME NEW x \in Conn PROVE OnceIn(Establish(x), todo', batch', pending')
    <3>1. e \notin Establish(x)
      BY <2>6 DEF Establish
    <3>2. OnceIn(Establish(x), todo, batch, Append(pending, e))
      BY <1>2, <2>7, <3>1, Moves
    <3> QED
      BY <1>3, <2>8, <3>2
  <2>13. ForeignHolds'
    BY <2>2 DEF ForeignHolds
  <2>14. PICK N : N = {e}
    OBVIOUS
  <2>15. N \in SUBSET Task /\ Tasks' \subseteq Tasks \cup N
    BY <2>7, <2>11, <2>14
  <2>16. \A y \in N : /\ y[1] \notin {"connect_established", "shutdown_in_loop"} /\ y[2] \in accepted
                      /\ conn[y[2]].state = "Connecting" => y[1] \in {"connect_destroyed", "remove"}
    BY <2>5, <2>6, <2>14
  <2> QED
    BY <1>3, <1>4, <2>2, <2>8, <2>10, <2>12, <2>13, <2>15, <2>16, QuietFrame
<1>7. CASE foreign_release(c)
  <2>1. /\ conn' = conn /\ pending' = pending /\ foreign' = foreign /\ foreign = Idle /\ held' = held \ {c}
    BY <1>7 DEF foreign_release, ioVars, turnVars
  <2>2. ServerTypeOK'
    BY <1>1, <1>3, <2>1 DEF ServerTypeOK
  <2>3. Tasks' = Tasks
    BY <1>3, <2>1 DEF Tasks
  <2>4. NotEstablished' /\ NotAccepted' /\ ForeignHolds' /\ \A x \in Conn : RecordOK(conn'[x])
    BY <1>1, <1>3, <2>1, <2>3 DEF NotEstablished, NotAccepted, ForeignHolds
  <2>5. EstablishedOnce' /\ NoLateShutdown'
    BY <1>1, <1>3, <2>1, <2>3 DEF EstablishedOnce, NoLateShutdown, Establish
  <2> QED
    BY <2>2, <2>4, <2>5 DEF ServerInv
<1>8. CASE peer_acts(c)
  <2>1. PICK r : r = conn'[c]
    OBVIOUS
  <2>2. conn \in [Conn -> Record] /\ conn[c] \in Record
    BY <1>1 DEF ServerTypeOK
  <2>3. conn' = [conn EXCEPT ![c] = r] /\ Kept(conn[c], r, {})
    BY <1>8, <2>1, <2>2, PeerEffect
  <2>4. r \in Record /\ r.state = conn[c].state
    BY <2>3 DEF Kept, Field
  <2>5. \A d \in Conn : conn'[d] = IF d = c THEN r ELSE conn[d]
    BY <2>2, <2>3
  <2>6. \A d \in Conn : RecordOK(conn'[d]) /\ conn'[d].state = conn[d].state
    BY <1>1, <2>3, <2>4, <2>5, PromisesKept
  <2>7. pending' = pending /\ held' = held /\ foreign' = foreign
    BY <1>8 DEF peer_acts, peer_sends, peer_closes, peer_resets, turnVars, serverVars
  <2>8. ServerTypeOK'
    BY <1>1, <1>3, <2>2, <2>3, <2>4, <2>7 DEF ServerTypeOK
  <2>9. Tasks' = Tasks
    BY <1>3, <2>7 DEF Tasks
  <2>10. NotEstablished' /\ NotAccepted' /\ ForeignHolds'
    BY <1>1, <1>3, <2>6, <2>7, <2>9 DEF NotEstablished, NotAccepted, ForeignHolds
  <2>11. EstablishedOnce' /\ NoLateShutdown'
    BY <1>1, <1>3, <2>6, <2>7, <2>9 DEF EstablishedOnce, NoLateShutdown, Establish
  <2> QED
    BY <2>6, <2>8, <2>10, <2>11 DEF ServerInv
<1>9. ASSUME NEW op \in ForeignOps, foreign_test(op, c) PROVE ServerInv'
  <2>1. /\ conn' = conn /\ pending' = pending /\ held' = held /\ foreign' = <<op, c>> /\ c \in held
    BY <1>9 DEF foreign_test, ioVars, turnVars
  <2>2. op = "send" /\ foreign' \in {"send"} \X Conn /\ foreign'[2] = c
    BY <1>9, <2>1 DEF OthersSend
  <2>3. ServerTypeOK'
    BY <1>1, <1>3, <2>1, <2>2 DEF ServerTypeOK
  <2>4. Tasks' = Tasks
    BY <1>3, <2>1 DEF Tasks
  <2>5. NotEstablished' /\ NotAccepted' /\ ForeignHolds' /\ \A x \in Conn : RecordOK(conn'[x])
    BY <1>1, <1>3, <2>1, <2>2, <2>4 DEF NotEstablished, NotAccepted, ForeignHolds
  <2>6. EstablishedOnce' /\ NoLateShutdown'
    BY <1>1, <1>3, <2>1, <2>4 DEF EstablishedOnce, NoLateShutdown, Establish
  <2> QED
    BY <2>3, <2>5, <2>6 DEF ServerInv
<1> QED
  BY <1>5, <1>6, <1>7, <1>8, <1>9

\* User code, and the timer of force_close_with_delay().
LEMMA UserKeeps ==
  ASSUME ServerInv, \/ \E op \in UserOps : user_call(op)
                    \/ \E c \in Conn : delay_expired(c)
  PROVE  ServerInv'
<1>1. /\ ServerTypeOK /\ NotEstablished /\ EstablishedOnce /\ \A d \in Conn : RecordOK(conn[d])
  BY DEF ServerInv
<1>2. /\ todo \in Seq(Task) /\ batch \in Seq(Task) /\ pending \in Seq(Task) /\ accepted \in SUBSET Conn
      /\ \A d \in Conn : OnceIn(Establish(d), todo, batch, pending)
  BY <1>1 DEF ServerTypeOK, EstablishedOnce
<1>3. \A c \in Conn : conn[c].state # "Connecting" => <<"connect_established", c>> \notin Tasks
  BY <1>1 DEF EstablishedOnce
<1>4. ASSUME NEW op \in UserOps, user_call(op) PROVE ServerInv'
  <2>1. PICK c : c = Head(todo)[2]
    OBVIOUS
  <2>2. /\ todo # <<>> /\ Head(todo)[1] = "user"
        /\ UNCHANGED <<accepted, connections, held, foreign, baseQueue>>
    BY <1>4 DEF user_call, InUserCode
  <2>3. c \in Conn /\ <<"user", c>> \in Tasks
    BY <2>1, <2>2, HeadTask
  <2>4. conn[c].state # "Connecting" /\ c \in accepted
    BY <2>3, TaskKnown DEF Step
  <2>5. PICK n : Apply(c, Call(op, conn[c], n), todo)
    BY <1>4, <2>1 DEF user_call
  <2>6. ResultOK(conn[c], Call(op, conn[c], n))
    BY <1>1, <2>3, <2>4, CallOK, OpsAssumption
  <2>7. <<"connect_established", c>> \notin Entries(todo) \cup Entries(batch) \cup Entries(pending)
    BY <1>3, <2>3, <2>4 DEF Tasks
  <2> QED
    BY <1>2, <2>2, <2>4, <2>5, <2>6, <2>7, ApplyOK
<1>5. ASSUME NEW c \in Conn, delay_expired(c) PROVE ServerInv'
  <2>1. PICK r : r = [conn[c] EXCEPT !.delayed = FALSE]
    OBVIOUS
  <2>2. /\ c \in accepted /\ conn[c].delayed /\ Apply(c, force_close(r), <<>>) /\ todo = <<>>
        /\ UNCHANGED <<accepted, connections, held, foreign, baseQueue>>
    BY <1>5, <2>1 DEF delay_expired, BetweenCallbacks, serverVars
  <2>3. conn[c] \in Record /\ RecordOK(conn[c]) /\ conn[c].state # "Connecting"
    BY <1>1, <2>2 DEF RecordOK
  <2>4. Kept(conn[c], r, {"delayed"})
    BY <2>1, <2>3, Assignments
  <2>5. RecordOK(r) /\ r.state # "Connecting"
    BY <2>3, <2>4 DEF RecordOK, Kept, Field, Open
  <2>6. ResultOK(r, force_close(r))
    <3>1. Call("force_close", r, 0) = force_close(r)
      BY DEF Call
    <3>2. "force_close" \in UserOp
      BY DEF UserOp
    <3> QED
      BY <2>5, <3>1, <3>2, CallOK
  <2>7. ResultOK(conn[c], force_close(r))
    BY <2>5, <2>6 DEF ResultOK
  <2>8. <<>> \in Seq(Task) /\ Entries(<<>>) \subseteq Entries(todo) /\ Entries(<<>>) = {}
    BY DEF Entries
  <2>9. <<"connect_established", c>> \notin Entries(<<>>) \cup Entries(batch) \cup Entries(pending)
    BY <1>3, <2>3, <2>8 DEF Tasks
  <2>10. \A d \in Conn : OnceIn(Establish(d), <<>>, batch, pending)
    BY <1>2, <2>2
  <2> QED
    BY <2>2, <2>7, <2>8, <2>9, <2>10, ApplyOK
<1> QED
  BY <1>4, <1>5

LEMMA StartServerInv == Init => ServerInv
<1> SUFFICES ASSUME Init PROVE ServerInv
  OBVIOUS
<1>1. /\ conn = [c \in Conn |-> New] /\ pending = <<>> /\ batch = <<>> /\ todo = <<>> /\ phase = "poll"
      /\ revents = [c \in Conn |-> {}] /\ kept = {} /\ accepted = {} /\ connections = {} /\ held = {}
      /\ foreign = Idle /\ baseQueue = <<>>
  BY DEF Init, IoInit
<1>2. New \in Record
  BY DEF New, Record, State
<1>3. /\ New.lost = 0 /\ New.out = 0 /\ New.events = {} /\ ~New.registered /\ ~New.delayed
      /\ New.state = "Connecting"
  BY DEF New
<1>4. RecordOK(New)
  BY <1>2, <1>3 DEF RecordOK
<1>5. ServerTypeOK
  BY <1>1, <1>2 DEF ServerTypeOK
<1>6. Entries(<<>>) = {} /\ Tasks = {}
  BY <1>1 DEF Entries, Tasks
<1>7. \A c \in Conn : conn[c] = New
  BY <1>1
<1>8. NotEstablished /\ NotAccepted /\ NoLateShutdown
  BY <1>1, <1>3, <1>6, <1>7 DEF NotEstablished, NotAccepted, NoLateShutdown
<1>9. \A X : OnceIn(X, todo, batch, pending)
  BY <1>1 DEF OnceIn, AtMostOne, Without, Entries
<1> QED
  BY <1>1, <1>4, <1>5, <1>6, <1>7, <1>8, <1>9 DEF ServerInv, EstablishedOnce, ForeignHolds

LEMMA ServerInvStep ==
  ASSUME OthersSend, ServerInv, [Next]_vars
  PROVE  ServerInv'
<1>1. CASE UNCHANGED <<ioVars, accepted, connections, held, foreign, baseQueue>>
  <2>1. /\ UNCHANGED <<conn, pending, batch, phase, revents, todo, kept>>
        /\ UNCHANGED <<accepted, connections, held, foreign, baseQueue>>
    BY <1>1 DEF ioVars, turnVars
  <2>2. Tasks' = Tasks
    BY <2>1 DEF Tasks
  <2>3. ServerTypeOK' /\ NotEstablished' /\ NotAccepted' /\ ForeignHolds'
    BY <2>1, <2>2 DEF ServerInv, ServerTypeOK, NotEstablished, NotAccepted, ForeignHolds
  <2>4. EstablishedOnce' /\ NoLateShutdown' /\ \A c \in Conn : RecordOK(conn'[c])
    BY <2>1, <2>2 DEF ServerInv, EstablishedOnce, NoLateShutdown, Establish
  <2> QED
    BY <2>3, <2>4 DEF ServerInv
<1>2. CASE start
  BY <1>1, <1>2 DEF start
<1>3. CASE UNCHANGED vars
  BY <1>1, <1>3 DEF vars, serverVars
<1>4. CASE IoStep
  BY <1>4, LoopKeeps, RemovalKeeps DEF IoStep
<1>5. ASSUME user_share \/ foreign_act PROVE ServerInv'
  <2>1. CASE Conn # {}
    BY <1>5, <2>1, OthersKeep
  <2>2. CASE Conn = {}
    <3>1. Task = {}
      BY <2>2 DEF Task
    <3>2. todo = <<>> /\ foreign = Idle
      BY <2>2, <3>1 DEF ServerInv, ServerTypeOK
    <3> QED
      BY <1>5, <3>2 DEF user_share, InUserCode, foreign_act
  <2> QED
    BY <2>1, <2>2
<1> QED
  BY <1>2, <1>3, <1>4, <1>5, RemovalKeeps, DestroyKeeps, UserKeeps, AcceptKeeps, OthersKeep DEF Next

\* The inductive invariant of a server whose connections other threads only
\* send on.
THEOREM ServerInvariance ==
  ASSUME OthersSend
  PROVE  Spec => []ServerInv
<1>1. ServerInv /\ [Next]_vars => ServerInv'
  BY ServerInvStep
<1> QED
  BY <1>1, StartServerInv, PTL DEF Spec

\* shutdown() never cuts off buffered bytes, and while bytes wait on an open
\* connection its channel is watched for writing: TcpConnection's send_in_loop(),
\* handle_write() and shutdown_in_loop() keep this on either poller, whatever the
\* server and the peers do, as long as other threads only send.
THEOREM BufferedBytesSent ==
  ASSUME OthersSend
  PROVE  Spec => []OutputKept
<1>1. ServerInv => OutputKept
  BY DEF ServerInv, RecordOK, OutputKept
<1> QED
  BY <1>1, ServerInvariance, PTL

(***************************************************************************)
(* The life of a connection.                                               *)
(***************************************************************************)
\* The connection stays in the stage of its life that it is in.
StageKept(r, s) ==
  /\ s.ups = r.ups /\ s.downs = r.downs /\ s.closes = r.closes
  /\ s.state = r.state \/ (Open(r) /\ Open(s))
  /\ r.state = "Disconnected" => s.events = r.events /\ (s.registered => r.registered)

LEMMA KeptStage ==
  ASSUME NEW r, NEW s, Kept(r, s, {"out", "delayed"})
  PROVE  StageKept(r, s)
BY DEF Kept, Field, StageKept

\* What a step does to the life of its connection.
LEMMA HandlerStages ==
  ASSUME NEW r, RecordOK(r), r.state = "Disconnected" => r.events = {},
         NEW step \in Step \ {"user", "close_callback", "shutdown_in_loop"},
         NEW n \in write(r, IF step = "handle_write" THEN r.out ELSE 1),
         r.state = "Connecting" <=> step = "connect_established",
         step \in {"connect_destroyed", "remove"} => r.state = "Disconnected",
         step \in {"handle_close", "handle_read"} => Open(r),
         NEW res, res = Perform(step, r, n)
  PROVE  \/ step \notin LifeStep /\ StageKept(r, res.r) /\ res.todo \in Seq({"user"})
         \/ step = "connect_established" /\ res = connect_established(r)
         \/ step \in ClosingStep /\ Open(r) /\ res = handle_close(r)
         \/ step \in {"connect_destroyed", "remove"}
<1>1. r \in Record /\ r.out \in Nat /\ r.events \in SUBSET {"in", "out"}
  BY FieldTypes DEF RecordOK
<1>2. CASE step \in {"connect_established", "connect_destroyed", "remove"}
  BY <1>2 DEF Perform
<1>3. <<>> \in Seq({"user"}) /\ <<"user">> \in Seq({"user"})
  OBVIOUS
<1>4. ASSUME NEW s, Kept(r, s, {}) PROVE StageKept(r, s)
  BY <1>4 DEF Kept, Field, StageKept
<1>5. StageKept(r, r)
  BY DEF StageKept
<1>6. CASE step = "handle_close"
  BY <1>6 DEF Perform, ClosingStep
<1>7. StageKept(r, handle_error(r).r) /\ handle_error(r).todo = <<>>
  <2>1. handle_error(r).r = [r EXCEPT !.err = FALSE] /\ handle_error(r).todo = <<>>
    BY DEF handle_error, Done, Result
  <2>2. Kept(r, [r EXCEPT !.err = FALSE], {})
    BY <1>1, Assignments
  <2> QED
    BY <1>4, <2>1, <2>2
<1>8. CASE step = "handle_error"
  BY <1>3, <1>7, <1>8 DEF Perform, LifeStep
<1>9. CASE step = "handle_read"
  <2>1. res = handle_read(r)
    BY <1>9 DEF Perform
  <2>2. CASE r.inbox > 0
    <3>1. res.r = [r EXCEPT !.inbox = 0] /\ res.todo = <<"user">>
      BY <2>1, <2>2 DEF handle_read, Result
    <3>2. Kept(r, [r EXCEPT !.inbox = 0], {})
      BY <1>1, Assignments
    <3> QED
      BY <1>3, <1>4, <1>9, <3>1, <3>2 DEF LifeStep
  <2>3. CASE ~(r.inbox > 0)
    BY <1>3, <1>7, <1>9, <2>1, <2>3 DEF handle_read, LifeStep, ClosingStep
  <2> QED
    BY <2>2, <2>3
<1>10. CASE step = "force_close_in_loop"
  <2>1. res = force_close_in_loop(r)
    BY <1>10 DEF Perform
  <2>2. Done(r).r = r /\ Done(r).todo = <<>>
    BY DEF Done, Result
  <2> QED
    BY <1>3, <1>5, <1>10, <2>1, <2>2 DEF force_close_in_loop, LifeStep, ClosingStep
<1>11. CASE step \in {"write_complete", "high_water_mark"}
  <2>1. res = Result(r, <<>>, <<"user">>)
    BY <1>11 DEF Perform
  <2>2. res.r = r /\ res.todo = <<"user">>
    BY <2>1 DEF Result
  <2> QED
    BY <1>3, <1>5, <1>11, <2>2 DEF LifeStep
<1>12. CASE step = "send_in_loop"
  <2>1. res = send_in_loop(r, n)
    BY <1>12 DEF Perform
  <2>2. res.todo = <<>>
    BY <2>1 DEF send_in_loop, Done, Result
  <2>3. \/ Kept(r, res.r, {})
        \/ r.state # "Disconnected" /\ Kept(r, res.r, {"events", "registered", "out"})
    BY <1>1, <2>1, SendEffect
  <2>4. StageKept(r, res.r)
    BY <2>3 DEF Kept, Field, StageKept
  <2> QED
    BY <1>3, <1>12, <2>2, <2>4 DEF LifeStep
<1>13. CASE step = "handle_write"
  <2>1. res = handle_write(r, n)
    BY <1>13 DEF Perform
  <2>2. res.todo = <<>>
    BY <2>1 DEF handle_write, Done, Result
  <2>3. n \in Int /\ n <= r.out
    BY <1>1, <1>13 DEF write, Broken
  <2>4. \/ res.r = r
        \/ Kept(r, res.r, {"out"})
        \/ "out" \in r.events /\ Kept(r, res.r, {"events", "registered", "out"})
    BY <1>1, <2>1, <2>3, WriteEffect
  <2>5. StageKept(r, res.r)
    BY <1>5, <2>4 DEF Kept, Field, StageKept
  <2> QED
    BY <1>3, <1>13, <2>2, <2>5 DEF LifeStep
<1> QED
  BY <1>2, <1>6, <1>8, <1>9, <1>10, <1>11, <1>12, <1>13 DEF Step, SharedFunctor, RawFunctor

\* Calls by user code do not end the life of a connection: they may begin to.
LEMMA CallStages ==
  ASSUME NEW r \in Record, RecordOK(r), NEW op \in UserOp \ {"start_read", "stop_read"}, NEW n
  PROVE  StageKept(r, Call(op, r, n).r)
<1>1. StageKept(r, r) /\ Done(r).r = r
  BY DEF StageKept, Done, Result
<1>2. ASSUME Open(r)
      PROVE  LET d == [r EXCEPT !.state = "Disconnecting"] IN
               /\ Kept(r, d, {"state"}) /\ d.state = "Disconnecting" /\ d \in Record
               /\ StageKept(r, d) /\ ("out" \in d.events \/ d.out = 0)
  <2>1. PICK d : d = [r EXCEPT !.state = "Disconnecting"]
    OBVIOUS
  <2>2. Kept(r, d, {"state"}) /\ d.state = "Disconnecting"
    BY <2>1, Assignments DEF State
  <2>3. d \in Record /\ StageKept(r, d)
    BY <1>2, <2>2 DEF Kept, Field, StageKept, Open
  <2>4. "out" \in d.events \/ d.out = 0
    BY <1>2, <2>2, FieldTypes DEF RecordOK, Kept, Field
  <2> QED
    BY <2>1, <2>2, <2>3, <2>4
<1>3. CASE op = "send"
  <2>1. Call(op, r, n) = IF r.state = "Connected" THEN send_in_loop(r, n) ELSE Done(r)
    BY <1>3 DEF Call
  <2>2. \/ Kept(r, send_in_loop(r, n).r, {})
        \/ r.state # "Disconnected" /\ Kept(r, send_in_loop(r, n).r, {"events", "registered", "out"})
    BY SendEffect
  <2>3. StageKept(r, send_in_loop(r, n).r)
    BY <2>2 DEF Kept, Field, StageKept
  <2> QED
    BY <1>1, <2>1, <2>3
<1>4. CASE op = "shutdown"
  <2>1. PICK d : d = [r EXCEPT !.state = "Disconnecting"]
    OBVIOUS
  <2>2. Call(op, r, n) = IF r.state = "Connected" THEN shutdown_in_loop(d) ELSE Done(r)
    BY <1>4, <2>1 DEF Call
  <2>3. CASE r.state = "Connected"
    <3>1. /\ Kept(r, d, {"state"}) /\ d.state = "Disconnecting" /\ d \in Record
          /\ "out" \in d.events \/ d.out = 0
      BY <1>2, <2>1, <2>3 DEF Open
    <3>2. PICK s : s = shutdown_in_loop(d).r
      OBVIOUS
    <3>3. Kept(d, s, {})
      BY <3>1, <3>2, ShutdownEffect
    <3>4. StageKept(r, s)
      BY <2>3, <3>1, <3>3 DEF Kept, Field, StageKept, Open
    <3> QED
      BY <2>2, <2>3, <3>2, <3>4
  <2> QED
    BY <1>1, <2>2, <2>3
<1>5. CASE op = "force_close"
  <2>1. Call(op, r, n) = force_close(r)
    BY <1>5 DEF Call
  <2>2. Open(r) => force_close(r).r = [r EXCEPT !.state = "Disconnecting"]
    BY DEF force_close, Result
  <2>3. ~Open(r) => force_close(r).r = r
    BY <1>1 DEF force_close
  <2> QED
    BY <1>1, <1>2, <2>1, <2>2, <2>3
<1>6. CASE op = "force_close_with_delay"
  <2>1. Call(op, r, n) = Done(IF Open(r) THEN [r EXCEPT !.state = "Disconnecting", !.delayed = TRUE]
                              ELSE r)
    BY <1>6 DEF Call
  <2>2. CASE Open(r)
    <3>1. PICK d : d = [r EXCEPT !.state = "Disconnecting"]
      OBVIOUS
    <3>2. Kept(r, d, {"state"}) /\ d.state = "Disconnecting" /\ d \in Record
      BY <1>2, <2>2, <3>1
    <3>3. Kept(d, [d EXCEPT !.delayed = TRUE], {"delayed"})
      BY <3>2, Assignments
    <3>4. PICK s : s = [d EXCEPT !.delayed = TRUE]
      OBVIOUS
    <3>5. StageKept(r, s)
      BY <2>2, <3>2, <3>3, <3>4 DEF Kept, Field, StageKept, Open
    <3>6. Call(op, r, n).r = s
      BY <2>1, <2>2, <3>1, <3>4 DEF Done, Result
    <3> QED
      BY <3>5, <3>6
  <2> QED
    BY <1>1, <2>1, <2>2
<1> QED
  BY <1>3, <1>4, <1>5, <1>6 DEF UserOp

\* A connection whose life a step does not touch.
LEMMA Untouched ==
  ASSUME NEW d \in Conn, Fate(d), conn[d].state \in State, StageKept(conn[d], conn'[d]),
         d \in accepted' <=> d \in accepted, d \in connections' <=> d \in connections,
         d \in Entries(baseQueue') <=> d \in Entries(baseQueue), AtMostOne(baseQueue', {d}),
         \A f \in LifeStep : <<f, d>> \in Tasks' <=> <<f, d>> \in Tasks,
         \A f \in {"handle_close", "handle_read"} :
           <<f, d>> \in Tasks' => <<f, d>> \in Tasks \/ Open(conn[d]),
         conn[d].state = "Connecting" => \A f \in Step : <<f, d>> \in Tasks' => <<f, d>> \in Tasks,
         OnceIn(Life(d), todo', batch', pending'), AtMostOne(todo', Closing(d)),
         revents'[d] # {} => Open(conn[d]) /\ Without(todo', Closing(d))
  PROVE  Fate(d)'
<1>1. Alone(d)' <=> Alone(d)
  BY DEF Alone, Life
<1>2. /\ Open(conn'[d]) <=> Open(conn[d])
      /\ conn'[d].state = "Connecting" <=> conn[d].state = "Connecting"
      /\ conn'[d].state = "Disconnected" <=> conn[d].state = "Disconnected"
  BY DEF StageKept, Open, State
<1>3. OneLife(d)'
  BY <1>1 DEF Fate, OneLife, Life, Closing, Entries
<1>4. Young(d)'
  BY <1>2 DEF Fate, Young, StageKept, Entries
<1>5. Grown(d)'
  BY <1>1, <1>2 DEF Fate, Grown, StageKept, Entries
<1>6. Leaving(d)' <=> Leaving(d)
  BY DEF Leaving, LifeStep, Entries
<1>7. Old(d)'
  BY <1>1, <1>2, <1>6 DEF Fate, Old, StageKept, Entries
<1>8. EventsOpen(d)'
  BY <1>2 DEF Fate, EventsOpen, Without, Closing, Entries
<1> QED
  BY <1>3, <1>4, <1>5, <1>7, <1>8 DEF Fate

\* The state after a handler's result took effect: t and q are its tasks.
Applied(c, res, rest, t, q) ==
  /\ t \in Seq(Task) /\ \A e \in Entries(t) : e[1] \in Inner /\ e[2] = c /\ e = <<e[1], c>>
  /\ q \in Seq(Task) /\ \A e \in Entries(q) : e[1] \in Functor /\ e[2] = c /\ e = <<e[1], c>>
  /\ todo' = t \o rest /\ batch' = batch /\ pending' = pending \o q
  /\ phase' = phase /\ revents' = revents /\ kept' = kept
  /\ todo' \in Seq(Task) /\ pending' \in Seq(Task)
  /\ Entries(todo') = Entries(t) \cup Entries(rest)
  /\ Entries(pending') = Entries(pending) \cup Entries(q)
  /\ Tasks' = Entries(t) \cup Entries(rest) \cup Entries(batch) \cup Entries(pending) \cup Entries(q)
  /\ \A d \in Conn : conn'[d] = IF d = c THEN res.r ELSE conn[d]

LEMMA ApplyParts ==
  ASSUME ServerInv, NEW c \in Conn, NEW res, res.q \in Seq(Functor), res.todo \in Seq(Inner),
         NEW rest \in Seq(Task), Apply(c, res, rest)
  PROVE  Applied(c, res, rest, Tagged(c, res.todo), Tagged(c, res.q))
<1> DEFINE t == Tagged(c, res.todo)
           q == Tagged(c, res.q)
<1>1. Functor \in SUBSET Step /\ Inner \in SUBSET Step
  BY DEF Functor, Inner, Step, SharedFunctor
<1>2. t \in Seq(Task) /\ \A e \in Entries(t) : e[1] \in Inner /\ e[2] = c /\ e = <<e[1], c>>
  BY <1>1, TaggedSteps
<1>3. q \in Seq(Task) /\ \A e \in Entries(q) : e[1] \in Functor /\ e[2] = c /\ e = <<e[1], c>>
  BY <1>1, TaggedSteps
<1>4. /\ todo' = t \o rest /\ batch' = batch /\ pending' = pending \o q
      /\ phase' = phase /\ revents' = revents /\ kept' = kept /\ conn' = [conn EXCEPT ![c] = res.r]
  BY DEF Apply
<1>5. pending \in Seq(Task) /\ conn \in [Conn -> Record]
  BY DEF ServerInv, ServerTypeOK
<1> HIDE DEF t, q
<1>6. /\ t \o rest \in Seq(Task) /\ Entries(t \o rest) = Entries(t) \cup Entries(rest)
      /\ pending \o q \in Seq(Task) /\ Entries(pending \o q) = Entries(pending) \cup Entries(q)
  BY <1>2, <1>3, <1>5, EntriesOf
<1>7. /\ Entries(todo') = Entries(t) \cup Entries(rest)
      /\ Entries(pending') = Entries(pending) \cup Entries(q)
  BY <1>4, <1>6
<1>8. Tasks' = Entries(t) \cup Entries(rest) \cup Entries(batch) \cup Entries(pending) \cup Entries(q)
  BY <1>4, <1>7 DEF Tasks, Entries
<1>9. \A d \in Conn : conn'[d] = IF d = c THEN res.r ELSE conn[d]
  BY <1>4, <1>5
<1>10. Applied(c, res, rest, t, q)
  BY <1>2, <1>3, <1>4, <1>6, <1>7, <1>8, <1>9 DEF Applied
<1> QED
  BY <1>10 DEF t, q

\* What the loop has left to do after the step it is at, or all of it when user
\* code makes a call.
Remains(c, rest) ==
  /\ rest \in Seq(Task) /\ Entries(rest) \subseteq Entries(todo)
  /\ \A e \in Entries(todo) : e[2] # c => e \in Entries(rest)
  /\ \A d \in Conn : OnceIn(Life(d), rest, batch, pending) /\ AtMostOne(rest, Closing(d))

\* The other connections.
LEMMA ApplyOthers ==
  ASSUME LifeInv, NEW c \in Conn, NEW res, res.q \in Seq(Functor), res.todo \in Seq(Inner),
         NEW rest, Remains(c, rest), Apply(c, res, rest), phase # "poll",
         UNCHANGED <<accepted, connections, baseQueue>>
  PROVE  Phases' /\ OnlyFunctors' /\ \A d \in Conn \ {c} : Fate(d)'
<1>1. ServerInv /\ Phases /\ OnlyFunctors /\ \A d \in Conn : Fate(d)
  BY DEF LifeInv
<1>2. batch \in Seq(Task) /\ pending \in Seq(Task) /\ rest \in Seq(Task)
  BY <1>1 DEF ServerInv, ServerTypeOK, Remains
<1>3. PICK t : t = Tagged(c, res.todo)
  OBVIOUS
<1>4. PICK q : q = Tagged(c, res.q)
  OBVIOUS
<1>5. /\ t \in Seq(Task) /\ \A e \in Entries(t) : e[1] \in Inner /\ e[2] = c /\ e = <<e[1], c>>
      /\ q \in Seq(Task) /\ \A e \in Entries(q) : e[1] \in Functor /\ e[2] = c /\ e = <<e[1], c>>
      /\ todo' = t \o rest /\ batch' = batch /\ pending' = pending \o q
      /\ phase' = phase /\ revents' = revents
      /\ Entries(todo') = Entries(t) \cup Entries(rest)
      /\ Entries(pending') = Entries(pending) \cup Entries(q)
      /\ Tasks' = Entries(t) \cup Entries(rest) \cup Entries(batch) \cup Entries(pending) \cup Entries(q)
      /\ \A d \in Conn : conn'[d] = IF d = c THEN res.r ELSE conn[d]
  <2>1. Applied(c, res, rest, t, q)
    BY <1>1, <1>2, <1>3, <1>4, ApplyParts
  <2> QED
    BY <2>1 DEF Applied
<1>6. Phases'
  BY <1>1, <1>5 DEF Phases
<1>7. OnlyFunctors'
  <2>1. Queued' = Entries(pending) \cup Entries(q) \cup Entries(batch)
    BY <1>5, ZenonT(60) DEF Queued, Entries
  <2>2. Functor \subseteq SharedFunctor \cup RawFunctor
    BY DEF Functor, SharedFunctor
  <2> QED
    BY <1>1, <1>5, <2>1, <2>2 DEF OnlyFunctors, Queued
<1>8. ASSUME NEW d \in Conn \ {c} PROVE Fate(d)'
  <2>1. Fate(d) /\ conn[d].state \in State /\ conn'[d] = conn[d]
    BY <1>1, <1>5, FieldTypes DEF ServerInv, RecordOK
  <2>2. StageKept(conn[d], conn'[d])
    BY <2>1 DEF StageKept
  <2>3. \A f : <<f, d>> \in Tasks' <=> <<f, d>> \in Tasks
    <3>1. \A f : <<f, d>> \notin Entries(t) \cup Entries(q)
      BY <1>5
    <3>2. \A f : <<f, d>> \in Entries(rest) <=> <<f, d>> \in Entries(todo)
      BY DEF Remains
    <3> QED
      BY <1>5, <3>1, <3>2 DEF Tasks
  <2>4. OnceIn(Life(d), todo', batch', pending')
    <3>1. Without(t, Life(d)) /\ Without(q, Life(d))
      BY <1>5 DEF Without, Life
    <3>2. OnceIn(Life(d), rest, batch, pending)
      BY DEF Remains
    <3>3. OnceIn(Life(d), t \o rest, batch, pending)
      BY <1>2, <1>5, <3>1, <3>2, Moves
    <3>4. PICK u : u = t \o rest
      OBVIOUS
    <3>5. u \in Seq(Task)
      BY <1>2, <1>5, <3>4
    <3>6. OnceIn(Life(d), u, batch, pending \o q)
      BY <1>2, <1>5, <3>1, <3>3, <3>4, <3>5, Moves
    <3> QED
      BY <1>5, <3>4, <3>6
  <2>5. Entries(t) \cap Closing(d) = {}
    BY <1>5 DEF Closing
  <2>6. AtMostOne(todo', Closing(d))
    <3>1. AtMostOne(t, Closing(d))
      BY <2>5 DEF AtMostOne, Entries
    <3>2. AtMostOne(t \o rest, Closing(d))
      BY <1>2, <1>5, <2>5, <3>1, OneOf DEF Remains
    <3> QED
      BY <1>5, <3>2
  <2>7. revents'[d] # {} => Open(conn[d]) /\ Without(todo', Closing(d))
    BY <1>5, <2>1, <2>5 DEF Fate, EventsOpen, Without, Remains
  <2>8. AtMostOne(baseQueue', {d})
    BY <2>1 DEF Fate, OneLife
  <2> QED
    BY <2>1, <2>2, <2>3, <2>4, <2>6, <2>7, <2>8, Untouched
<1> QED
  BY <1>6, <1>7, <1>8

\* A handler that leaves its connection in the stage of life it is in.
LEMMA ApplyQuiet ==
  ASSUME LifeInv, NEW c \in Conn, NEW res, res.q \in Seq(Functor), res.todo \in Seq({"user"}),
         StageKept(conn[c], res.r), conn[c].state # "Connecting",
         NEW rest, Remains(c, rest), Apply(c, res, rest),
         \A f \in LifeStep : <<f, c>> \in Entries(todo) => <<f, c>> \in Entries(rest),
         UNCHANGED <<accepted, connections, baseQueue>>
  PROVE  Fate(c)'
<1>1. ServerInv /\ Fate(c)
  BY DEF LifeInv
<1>2. batch \in Seq(Task) /\ pending \in Seq(Task) /\ rest \in Seq(Task) /\ conn[c].state \in State
  BY <1>1, FieldTypes DEF ServerInv, ServerTypeOK, Remains, RecordOK
<1>3. {"user"} \subseteq Inner /\ {"user"} \in SUBSET Step
  BY DEF Inner, Step
<1>4. res.todo \in Seq(Inner)
  BY <1>3
<1>5. PICK t : t = Tagged(c, res.todo)
  OBVIOUS
<1>6. PICK q : q = Tagged(c, res.q)
  OBVIOUS
<1>7. /\ t \in Seq(Task)
      /\ q \in Seq(Task) /\ \A e \in Entries(q) : e[1] \in Functor /\ e[2] = c /\ e = <<e[1], c>>
      /\ todo' = t \o rest /\ batch' = batch /\ pending' = pending \o q
      /\ phase' = phase /\ revents' = revents
      /\ Entries(todo') = Entries(t) \cup Entries(rest)
      /\ Tasks' = Entries(t) \cup Entries(rest) \cup Entries(batch) \cup Entries(pending) \cup Entries(q)
      /\ conn'[c] = res.r
  <2>1. Applied(c, res, rest, t, q)
    BY <1>1, <1>2, <1>4, <1>5, <1>6, ApplyParts
  <2> QED
    BY <2>1 DEF Applied
<1>8. \A e \in Entries(t) : e[1] = "user"
  <2>1. ASSUME NEW F \in SUBSET Step, res.todo \in Seq(F)
        PROVE  \A e \in Entries(t) : e[1] \in F
    BY <1>5, <2>1, TaggedSteps
  <2> QED
    BY <1>3, <2>1
<1>9. \A f \in LifeStep : <<f, c>> \in Tasks' <=> <<f, c>> \in Tasks
  <2>1. ASSUME NEW f \in LifeStep PROVE <<f, c>> \notin Entries(t) \cup Entries(q)
    BY <1>7, <1>8 DEF LifeStep, Functor
  <2>2. \A f \in LifeStep : <<f, c>> \in Entries(rest) <=> <<f, c>> \in Entries(todo)
    BY DEF Remains
  <2> QED
    BY <1>7, <2>1, <2>2 DEF Tasks
<1>10. \A f \in {"handle_close", "handle_read"} : <<f, c>> \in Tasks' => <<f, c>> \in Tasks
  <2>1. ASSUME NEW f \in {"handle_close", "handle_read"}
        PROVE  <<f, c>> \notin Entries(t) \cup Entries(q)
    BY <1>7, <1>8 DEF Functor
  <2> QED
    BY <1>7, <2>1 DEF Tasks, Remains
<1>11. Without(t, Life(c)) /\ Without(q, Life(c)) /\ Entries(t) \cap Closing(c) = {}
  BY <1>7, <1>8 DEF Without, Life, LifeStep, Functor, Closing, ClosingStep
<1>12. OnceIn(Life(c), todo', batch', pending')
  <2>1. OnceIn(Life(c), rest, batch, pending)
    BY DEF Remains
  <2>2. OnceIn(Life(c), t \o rest, batch, pending)
    BY <1>2, <1>7, <1>11, <2>1, Moves
  <2>3. PICK u : u = t \o rest
    OBVIOUS
  <2>4. u \in Seq(Task)
    BY <1>2, <1>7, <2>3
  <2>5. OnceIn(Life(c), u, batch, pending \o q)
    BY <1>2, <1>7, <1>11, <2>2, <2>3, <2>4, Moves
  <2> QED
    BY <1>7, <2>3, <2>5
<1>13. AtMostOne(todo', Closing(c))
  <2>1. AtMostOne(t, Closing(c))
    BY <1>11 DEF AtMostOne, Entries
  <2>2. AtMostOne(t \o rest, Closing(c))
    BY <1>2, <1>7, <1>11, <2>1, OneOf DEF Remains
  <2> QED
    BY <1>7, <2>2
<1>14. revents'[c] # {} => Open(conn[c]) /\ Without(todo', Closing(c))
  BY <1>1, <1>7, <1>11 DEF Fate, EventsOpen, Without, Remains
<1>15. AtMostOne(baseQueue', {c})
  BY <1>1 DEF Fate, OneLife
<1> QED
  BY <1>1, <1>2, <1>7, <1>9, <1>10, <1>12, <1>13, <1>14, <1>15, Untouched

LEMMA TaggedFew ==
  ASSUME NEW c, NEW a, NEW b
  PROVE  /\ Entries(Tagged(c, <<>>)) = {}
         /\ Entries(Tagged(c, <<a>>)) = {<<a, c>>}
         /\ Entries(Tagged(c, <<a, b>>)) = {<<a, c>>, <<b, c>>}
         /\ \A X : AtMostOne(Tagged(c, <<>>), X) /\ AtMostOne(Tagged(c, <<a>>), X)
         /\ \A X : <<a, c>> \notin X => AtMostOne(Tagged(c, <<a, b>>), X)
<1>1. /\ Len(Tagged(c, <<>>)) = 0
      /\ Len(Tagged(c, <<a>>)) = 1 /\ Tagged(c, <<a>>)[1] = <<a, c>>
      /\ Len(Tagged(c, <<a, b>>)) = 2 /\ Tagged(c, <<a, b>>)[1] = <<a, c>>
      /\ Tagged(c, <<a, b>>)[2] = <<b, c>>
  BY DEF Tagged
<1>2. 1..0 = {} /\ 1..1 = {1} /\ 1..2 = {1, 2}
  OBVIOUS
<1>3. Entries(Tagged(c, <<>>)) = {} /\ \A X : AtMostOne(Tagged(c, <<>>), X)
  BY <1>1, <1>2 DEF Entries, AtMostOne
<1>4. Entries(Tagged(c, <<a>>)) = {<<a, c>>} /\ \A X : AtMostOne(Tagged(c, <<a>>), X)
  BY <1>1, <1>2 DEF Entries, AtMostOne
<1>5. PICK u : u = Tagged(c, <<a, b>>)
  OBVIOUS
<1>6. Entries(u) = {u[1], u[2]} /\ u[1] = <<a, c>> /\ u[2] = <<b, c>>
  BY <1>1, <1>2, <1>5, SMTT(60) DEF Entries
<1>7. ASSUME NEW X, <<a, c>> \notin X PROVE AtMostOne(u, X)
  <2>1. 1..Len(u) = {1, 2} /\ u[1] \notin X
    BY <1>1, <1>2, <1>5, <1>7
  <2> QED
    BY <2>1 DEF AtMostOne
<1> QED
  BY <1>3, <1>4, <1>5, <1>6, <1>7

\* What is left after the step the loop is at.
LEMMA StepRemains ==
  ASSUME LifeInv, todo # <<>>
  PROVE  /\ Remains(Head(todo)[2], Tail(todo))
         /\ \A e \in Entries(todo) : e # Head(todo) => e \in Entries(Tail(todo))
         /\ \A d \in Conn : Head(todo) \in Life(d) =>
              Without(Tail(todo), Life(d)) /\ Without(batch, Life(d)) /\ Without(pending, Life(d))
         /\ \A d \in Conn : Head(todo) \in Closing(d) => Without(Tail(todo), Closing(d))
<1>1. /\ todo \in Seq(Task) /\ batch \in Seq(Task) /\ pending \in Seq(Task)
      /\ \A d \in Conn : OnceIn(Life(d), todo, batch, pending) /\ AtMostOne(todo, Closing(d))
  BY DEF LifeInv, ServerInv, ServerTypeOK, Fate, OneLife
<1>2. /\ Head(todo) \in Task /\ Tail(todo) \in Seq(Task)
      /\ Entries(todo) = {Head(todo)} \cup Entries(Tail(todo))
  BY <1>1, EntriesOf
<1>3. ASSUME NEW d \in Conn
      PROVE  /\ OnceIn(Life(d), Tail(todo), batch, pending)
             /\ Head(todo) \in Life(d) =>
                  Without(Tail(todo), Life(d)) /\ Without(batch, Life(d)) /\ Without(pending, Life(d))
  <2>1. OnceIn(Life(d), todo, batch, pending)
    BY <1>1
  <2> QED
    BY <1>1, <2>1, Moves
<1>4. ASSUME NEW d \in Conn
      PROVE  /\ AtMostOne(Tail(todo), Closing(d))
             /\ Head(todo) \in Closing(d) => Without(Tail(todo), Closing(d))
  <2>1. AtMostOne(todo, Closing(d))
    BY <1>1
  <2> QED
    BY <1>1, <2>1, OneOf DEF Without
<1> QED
  BY <1>2, <1>3, <1>4 DEF Remains

\* The step the loop is at tells in which stage its connection is.
LEMMA StepStage ==
  ASSUME LifeInv, NEW c \in Conn, NEW f \in Step, <<f, c>> \in Tasks
  PROVE  /\ conn[c].state \in State /\ c \in accepted
         /\ conn[c].state = "Connecting" <=> f = "connect_established"
         /\ f \in {"connect_destroyed", "remove", "close_callback"} => conn[c].state = "Disconnected"
         /\ f \in {"handle_close", "handle_read"} => Open(conn[c])
<1>1. ServerInv /\ Fate(c)
  BY DEF LifeInv
<1>2. conn[c].state \in State
  BY <1>1, FieldTypes DEF ServerInv, RecordOK
<1>3. c \in accepted /\ (f = "connect_established" => conn[c].state = "Connecting")
  BY <1>1, TaskKnown
<1>4. conn[c].state = "Connecting" => f = "connect_established"
  BY <1>1 DEF Fate, Young
<1>5. f \in LifeStep => ~Open(conn[c])
  BY <1>1 DEF Fate, Grown, Alone, Life
<1>6. f \in {"handle_close", "handle_read"} => Open(conn[c])
  BY <1>1 DEF Fate, EventsOpen
<1> QED
  BY <1>2, <1>3, <1>4, <1>5, <1>6 DEF State, Open, LifeStep

\* The new stage of a connection whose last life task was at the head, or that
\* had none: t are the tasks the handler leaves in the call.
LEMMA NewStage ==
  ASSUME LifeInv, NEW c \in Conn, NEW res, NEW rest \in Seq(Task), NEW t, NEW q,
         Applied(c, res, rest, t, q), Entries(q) = {}, Entries(rest) \subseteq Entries(todo),
         Without(rest, Life(c)), Without(batch, Life(c)), Without(pending, Life(c)),
         Without(rest, Closing(c)),
         \A X : <<"user", c>> \notin X => AtMostOne(t, X),
         c \notin Entries(baseQueue), baseQueue' = baseQueue
  PROVE  /\ OneLife(c)'
         /\ Tasks' \cap Life(c) = Entries(t) \cap Life(c)
         /\ \A f \in {"handle_close", "handle_read"} : <<f, c>> \notin Tasks'
<1>1. ServerInv /\ OnlyFunctors /\ Fate(c)
  BY DEF LifeInv
<1>2. batch \in Seq(Task) /\ pending \in Seq(Task)
  BY <1>1 DEF ServerInv, ServerTypeOK
<1>3. /\ t \in Seq(Task) /\ \A e \in Entries(t) : e[1] \in Inner /\ e[2] = c /\ e = <<e[1], c>>
      /\ q \in Seq(Task)
      /\ todo' = t \o rest /\ batch' = batch /\ pending' = pending \o q
      /\ Tasks' = Entries(t) \cup Entries(rest) \cup Entries(batch) \cup Entries(pending) \cup Entries(q)
  BY DEF Applied
<1>4. <<"user", c>> \notin Life(c) /\ <<"user", c>> \notin Closing(c)
  BY DEF Life, Closing, LifeStep, ClosingStep
<1>5. AtMostOne(t, Life(c)) /\ AtMostOne(t, Closing(c))
  BY <1>4
<1>6. OnceIn(Life(c), todo', batch', pending')
  <2>1. OnceIn(Life(c), rest, batch, pending)
    <3>1. AtMostOne(rest, Life(c)) /\ AtMostOne(batch, Life(c)) /\ AtMostOne(pending, Life(c))
      BY DEF Without, AtMostOne, Entries
    <3> QED
      BY <3>1 DEF OnceIn
  <2>2. OnceIn(Life(c), t \o rest, batch, pending)
    BY <1>2, <1>3, <1>5, <2>1, Moves
  <2>3. Without(q, Life(c))
    BY DEF Without
  <2>4. PICK u : u = t \o rest
    OBVIOUS
  <2>5. u \in Seq(Task)
    BY <1>3, <2>4
  <2>6. OnceIn(Life(c), u, batch, pending \o q)
    BY <1>2, <1>3, <2>2, <2>3, <2>4, <2>5, Moves
  <2> QED
    BY <1>3, <2>4, <2>6
<1>7. AtMostOne(todo', Closing(c))
  <2>1. AtMostOne(rest, Closing(c))
    BY DEF Without, AtMostOne, Entries
  <2>2. AtMostOne(t \o rest, Closing(c))
    BY <1>3, <1>5, <2>1, OneOf DEF Without
  <2> QED
    BY <1>3, <2>2
<1>8. AtMostOne(baseQueue', {c}) /\ c \notin Entries(baseQueue')
  BY <1>1 DEF Fate, OneLife
<1>9. OneLife(c)'
  BY <1>6, <1>7, <1>8 DEF OneLife, Life, Closing, Entries
<1>10. Tasks' \cap Life(c) = Entries(t) \cap Life(c)
  BY <1>3 DEF Without
<1>11. ASSUME NEW f \in {"handle_close", "handle_read"} PROVE <<f, c>> \notin Tasks'
  <2>1. <<f, c>> \notin Entries(t)
    BY <1>3 DEF Inner
  <2>2. <<f, c>> \notin Entries(rest)
    BY DEF Without, Closing, ClosingStep
  <2>3. <<f, c>> \notin Entries(batch) \cup Entries(pending)
    BY <1>1 DEF OnlyFunctors, Queued, SharedFunctor, RawFunctor
  <2> QED
    BY <1>3, <2>1, <2>2, <2>3
<1> QED
  BY <1>9, <1>10, <1>11

\* The thread performs a step of a handler.
LEMMA PerformFate ==
  ASSUME LifeInv, perform, UNCHANGED serverVars
  PROVE  /\ Phases' /\ OnlyFunctors' /\ \A d \in Conn : Fate(d)'
         /\ \A d \in Conn : conn'[d].closes # conn[d].closes => Open(conn[d])
<1>1. ServerInv /\ Phases /\ OnlyFunctors /\ \A d \in Conn : Fate(d)
  BY DEF LifeInv
<1>2. UNCHANGED <<accepted, connections, baseQueue>>
  BY DEF serverVars
<1>3. PICK step, c : step = Head(todo)[1] /\ c = Head(todo)[2]
  OBVIOUS
<1>4. todo # <<>> /\ step \in Step \ {"user", "close_callback"}
  BY <1>3 DEF perform
<1>5. PICK n \in write(conn[c], IF step = "handle_write" THEN conn[c].out ELSE 1) :
        Apply(c, Perform(step, conn[c], n), Tail(todo))
  BY <1>3 DEF perform
<1>6. PICK res : res = Perform(step, conn[c], n)
  OBVIOUS
<1>7. PICK rest : rest = Tail(todo)
  OBVIOUS
<1>8. PICK r : r = conn[c]
  OBVIOUS
<1>9. c \in Conn /\ Head(todo) = <<step, c>> /\ <<step, c>> \in Tasks /\ rest \in Seq(Task)
  BY <1>1, <1>3, <1>4, <1>7, HeadTask
<1>10. /\ Remains(c, rest)
       /\ \A e \in Entries(todo) : e # <<step, c>> => e \in Entries(rest)
       /\ <<step, c>> \in Life(c) =>
            Without(rest, Life(c)) /\ Without(batch, Life(c)) /\ Without(pending, Life(c))
       /\ <<step, c>> \in Closing(c) => Without(rest, Closing(c))
  BY <1>3, <1>4, <1>7, <1>9, StepRemains
<1>11. /\ r.state \in State /\ c \in accepted
       /\ r.state = "Connecting" <=> step = "connect_established"
       /\ step \in {"connect_destroyed", "remove"} => r.state = "Disconnected"
       /\ step \in {"handle_close", "handle_read"} => Open(r)
  BY <1>4, <1>8, <1>9, StepStage
<1>12. step # "shutdown_in_loop" /\ RecordOK(r) /\ r \in Record
  BY <1>1, <1>4, <1>8, <1>9, TaskKnown DEF ServerInv, RecordOK
<1>13. ResultOK(r, res)
  BY <1>4, <1>5, <1>6, <1>8, <1>11, <1>12, HandlerOK
<1>14. res.q \in Seq(Functor) /\ res.todo \in Seq(Inner)
  BY <1>13 DEF ResultOK
<1>15. phase # "poll" /\ Apply(c, res, rest)
  BY <1>1, <1>4, <1>5, <1>6, <1>7 DEF Phases
<1>16. Phases' /\ OnlyFunctors' /\ \A d \in Conn \ {c} : Fate(d)'
  BY <1>2, <1>9, <1>10, <1>14, <1>15, ApplyOthers
<1>17. PICK t : t = Tagged(c, res.todo)
  OBVIOUS
<1>18. PICK q : q = Tagged(c, res.q)
  OBVIOUS
<1>19. Applied(c, res, rest, t, q)
  BY <1>1, <1>9, <1>14, <1>15, <1>17, <1>18, ApplyParts
<1>20. conn'[c] = res.r /\ revents' = revents /\ \A d \in Conn \ {c} : conn'[d] = conn[d]
  BY <1>9, <1>19 DEF Applied
<1>21. r.state = "Disconnected" => r.events = {}
  BY <1>1, <1>8, <1>9 DEF Fate, Old
<1>22. Entries(rest) \subseteq Entries(todo)
  BY <1>10 DEF Remains
<1>23. \/ step \notin LifeStep /\ StageKept(r, res.r) /\ res.todo \in Seq({"user"})
       \/ step = "connect_established" /\ res = connect_established(r)
       \/ step \in ClosingStep /\ Open(r) /\ res = handle_close(r)
       \/ step \in {"connect_destroyed", "remove"}
  BY <1>4, <1>5, <1>6, <1>8, <1>11, <1>12, <1>21, HandlerStages
<1>24. CASE step \notin LifeStep /\ StageKept(r, res.r) /\ res.todo \in Seq({"user"})
  <2>1. \A f \in LifeStep : <<f, c>> \in Entries(todo) => <<f, c>> \in Entries(rest)
    BY <1>10, <1>24
  <2>2. r.state # "Connecting"
    BY <1>11, <1>24 DEF LifeStep
  <2>3. Fate(c)'
    BY <1>2, <1>8, <1>9, <1>10, <1>14, <1>15, <1>24, <2>1, <2>2, ApplyQuiet
  <2>4. conn'[c].closes = conn[c].closes
    BY <1>8, <1>20, <1>24 DEF StageKept
  <2> QED
    BY <1>16, <1>20, <2>3, <2>4
<1>25. c \in Entries(baseQueue) => Alone(c)
  BY <1>1, <1>9 DEF Fate, OneLife
<1>26. ASSUME step \in LifeStep
       PROVE  /\ Without(rest, Life(c)) /\ Without(batch, Life(c)) /\ Without(pending, Life(c))
              /\ Without(rest, Closing(c)) /\ c \notin Entries(baseQueue)
              /\ \A f \in LifeStep \ {step} : <<f, c>> \notin Tasks
  <2>1. <<step, c>> \in Life(c) /\ <<step, c>> \in Closing(c)
    BY <1>26 DEF Life, Closing
  <2>2. c \notin Entries(baseQueue)
    BY <1>9, <1>25, <2>1 DEF Alone
  <2>3. \A f \in LifeStep \ {step} : <<f, c>> \notin Tasks
    BY <1>10, <2>1 DEF Without, Life, Tasks
  <2> QED
    BY <1>10, <2>1, <2>2, <2>3
<1>27. CASE step = "connect_established" /\ res = connect_established(r)
  <2>1. res.q = <<>> /\ res.todo = <<"user">>
    BY <1>27 DEF connect_established, Result
  <2>2. Entries(q) = {} /\ Entries(t) = {<<"user", c>>} /\ \A X : AtMostOne(t, X)
    BY <1>17, <1>18, <2>1, TaggedFew
  <2>3. /\ res.r.state = "Connected" /\ res.r.ups = r.ups + 1 /\ res.r.downs = r.downs
        /\ res.r.closes = r.closes
    BY <1>12, <1>27, EstablishEffect DEF Kept, Field
  <2>4. /\ OneLife(c)' /\ Tasks' \cap Life(c) = Entries(t) \cap Life(c)
    BY <1>2, <1>9, <1>19, <1>22, <1>26, <1>27, <2>2, NewStage DEF LifeStep
  <2>5. r.state = "Connecting" /\ r.ups = 0 /\ r.downs = 0 /\ c \in connections /\ revents[c] = {}
    BY <1>1, <1>8, <1>9, <1>11, <1>27 DEF Fate, Young, ServerInv, NotEstablished
  <2>6. Alone(c)' /\ c \notin Entries(baseQueue')
    BY <1>2, <1>26, <1>27, <2>2, <2>4 DEF Alone, Life, LifeStep
  <2>7. Open(conn'[c]) /\ conn'[c].state = "Connected" /\ conn'[c].ups = 1 /\ conn'[c].downs = 0
    BY <1>20, <2>3, <2>5 DEF Open
  <2>8. Young(c)' /\ Grown(c)' /\ Old(c)'
    BY <1>2, <2>5, <2>6, <2>7 DEF Young, Grown, Old, Entries
  <2>9. EventsOpen(c)'
    BY <1>20, <2>5, <2>7 DEF EventsOpen
  <2>10. Fate(c)'
    BY <2>4, <2>8, <2>9 DEF Fate
  <2> QED
    BY <1>8, <1>16, <1>20, <2>3, <2>10
<1>28. CASE step \in ClosingStep /\ Open(r) /\ res = handle_close(r)
  <2>1. res.q = <<>> /\ res.todo = <<"user", "close_callback">>
    BY <1>28 DEF handle_close, Result
  <2>2. /\ Entries(q) = {} /\ Entries(t) = {<<"user", c>>, <<"close_callback", c>>}
        /\ \A X : <<"user", c>> \notin X => AtMostOne(t, X)
    <3>1. t = Tagged(c, <<"user", "close_callback">>) /\ q = Tagged(c, <<>>)
      BY <1>17, <1>18, <2>1
    <3>2. /\ Entries(Tagged(c, <<"user", "close_callback">>)) = {<<"user", c>>, <<"close_callback", c>>}
          /\ \A X : <<"user", c>> \notin X => AtMostOne(Tagged(c, <<"user", "close_callback">>), X)
      BY TaggedFew
    <3>3. Entries(Tagged(c, <<>>)) = {}
      BY TaggedFew
    <3> QED
      BY <3>1, <3>2, <3>3
  <2>3. /\ res.r.state = "Disconnected" /\ res.r.ups = r.ups /\ res.r.downs = r.downs + 1
        /\ res.r.events = {}
    <3>1. PICK u : u = handle_close(r).r
      OBVIOUS
    <3>2. /\ Kept(r, u, {"state", "events", "registered", "downs", "closes"})
          /\ u.state = "Disconnected" /\ u.events = {} /\ u.downs = r.downs + 1
      BY <1>12, <3>1, CloseEffect
    <3> QED
      BY <1>28, <3>1, <3>2 DEF Kept, Field
  <2>4. r.ups = 1 /\ r.downs = 0 /\ c \in connections /\ Alone(c) /\ c \notin Entries(baseQueue)
    BY <1>1, <1>8, <1>9, <1>28 DEF Fate, Grown
  <2>5. /\ Without(todo, Life(c)) /\ Without(batch, Life(c)) /\ Without(pending, Life(c))
    BY <2>4 DEF Alone, Tasks, Without
  <2>6. Without(rest, Life(c))
    BY <1>22, <2>5 DEF Without
  <2>7. <<step, c>> \in Closing(c)
    BY <1>28 DEF Closing
  <2>8. Without(rest, Closing(c))
    BY <1>10, <2>7
  <2>9. /\ OneLife(c)' /\ Tasks' \cap Life(c) = Entries(t) \cap Life(c)
        /\ \A f \in {"handle_close", "handle_read"} : <<f, c>> \notin Tasks'
    BY <1>2, <1>9, <1>19, <1>22, <2>2, <2>4, <2>5, <2>6, <2>8, NewStage
  <2>10. <<"close_callback", c>> \in Tasks' /\ <<"close_callback", c>> \in Life(c)
    BY <2>2, <2>9 DEF Life, LifeStep
  <2>11. ~Alone(c)' /\ Leaving(c)'
    BY <2>10 DEF Alone, Leaving, Life
  <2>12. /\ conn'[c].state = "Disconnected" /\ conn'[c].ups = 1 /\ conn'[c].downs = 1
         /\ conn'[c].events = {} /\ ~Open(conn'[c])
    BY <1>20, <2>3, <2>4 DEF Open
  <2>13. Young(c)' /\ Grown(c)' /\ Old(c)'
    BY <1>2, <2>4, <2>11, <2>12 DEF Young, Grown, Old
  <2>14. revents[c] = {}
    <3>1. <<step, c>> \in Entries(todo)
      <4>1. todo \in Seq(Task)
        BY <1>1 DEF ServerInv, ServerTypeOK
      <4> QED
        BY <1>4, <1>9, <4>1, EntriesOf
    <3> QED
      BY <1>1, <1>9, <2>7, <3>1 DEF Fate, EventsOpen, Without
  <2>15. EventsOpen(c)'
    BY <1>20, <2>9, <2>14 DEF EventsOpen
  <2>16. Fate(c)'
    BY <2>9, <2>13, <2>15 DEF Fate
  <2> QED
    BY <1>8, <1>16, <1>20, <1>28, <2>16
<1>29. CASE step \in {"connect_destroyed", "remove"}
  <2>1. step \in LifeStep /\ r.state = "Disconnected" /\ ~Open(r)
    BY <1>11, <1>29 DEF LifeStep, Open
  <2>2. /\ res.q = <<>>
        /\ \/ res.r = r /\ res.todo = <<"remove">>
           \/ Kept(r, res.r, {"registered"}) /\ ~res.r.registered /\ res.todo = <<>>
    <3>1. CASE step = "connect_destroyed"
      <4>1. res = Result(r, <<>>, <<"remove">>)
        BY <1>6, <1>8, <2>1, <3>1 DEF Perform, connect_destroyed
      <4> QED
        BY <4>1 DEF Result
    <3>2. CASE step = "remove"
      <4>1. res = Done([r EXCEPT !.registered = FALSE])
        BY <1>6, <1>8, <3>2 DEF Perform, remove
      <4>2. res.r = [r EXCEPT !.registered = FALSE] /\ res.q = <<>> /\ res.todo = <<>>
        BY <4>1 DEF Done, Result
      <4>3. Kept(r, [r EXCEPT !.registered = FALSE], {"registered"})
            /\ ~[r EXCEPT !.registered = FALSE].registered
        BY <1>12, Assignments
      <4> QED
        BY <4>2, <4>3
    <3> QED
      BY <1>29, <3>1, <3>2
  <2>3. /\ res.r.state = "Disconnected" /\ res.r.ups = r.ups /\ res.r.downs = r.downs
        /\ res.r.closes = r.closes /\ res.r.events = r.events
        /\ res.r.registered => res.todo = <<"remove">>
    BY <2>1, <2>2 DEF Kept, Field
  <2>4. /\ Entries(q) = {} /\ \A X : AtMostOne(t, X)
        /\ res.todo = <<"remove">> => Entries(t) = {<<"remove", c>>}
        /\ Entries(t) \subseteq {<<"remove", c>>}
    BY <1>17, <1>18, <2>2, TaggedFew
  <2>5. /\ OneLife(c)' /\ Tasks' \cap Life(c) = Entries(t) \cap Life(c)
        /\ \A f \in {"handle_close", "handle_read"} : <<f, c>> \notin Tasks'
    BY <1>2, <1>9, <1>19, <1>22, <1>26, <2>1, <2>4, NewStage
  <2>6. r.ups = 1 /\ r.downs = 1 /\ r.events = {} /\ c \notin connections
    <3>1. <<"close_callback", c>> \notin Tasks
      BY <1>26, <1>29, <2>1 DEF LifeStep
    <3> QED
      BY <1>1, <1>8, <1>9, <1>26, <2>1, <3>1 DEF Fate, Old, Leaving
  <2>7. ~Leaving(c)'
    <3>1. <<"close_callback", c>> \in Life(c) /\ <<"close_callback", c>> \notin Entries(t)
      BY <2>4 DEF Life, LifeStep
    <3> QED
      BY <1>2, <1>26, <2>1, <2>5, <3>1 DEF Leaving, Entries
  <2>8. res.r.registered => ~Alone(c)'
    <3>1. <<"remove", c>> \in Life(c)
      BY DEF Life, LifeStep
    <3> QED
      BY <2>3, <2>4, <2>5, <3>1 DEF Alone, Life
  <2>9. /\ conn'[c].state = "Disconnected" /\ conn'[c].ups = 1 /\ conn'[c].downs = 1
        /\ conn'[c].events = {} /\ ~Open(conn'[c])
    BY <1>20, <2>3, <2>6 DEF Open
  <2>10. Young(c)' /\ Grown(c)' /\ Old(c)'
    BY <1>2, <1>20, <2>6, <2>7, <2>8, <2>9 DEF Young, Grown, Old
  <2>11. EventsOpen(c)'
    BY <1>1, <1>8, <1>9, <1>20, <2>1, <2>5 DEF Fate, EventsOpen
  <2>12. Fate(c)'
    BY <2>5, <2>10, <2>11 DEF Fate
  <2> QED
    BY <1>8, <1>16, <1>20, <2>3, <2>12
<1> QED
  BY <1>23, <1>24, <1>27, <1>28, <1>29

\* Steps that move no task.
LEMMA StillFate ==
  ASSUME LifeInv, UNCHANGED <<pending, batch, phase, revents, todo, accepted, connections, baseQueue>>,
         \A d \in Conn : StageKept(conn[d], conn'[d])
  PROVE  Phases' /\ OnlyFunctors' /\ \A d \in Conn : Fate(d)'
<1>1. ServerInv /\ Phases /\ OnlyFunctors /\ \A d \in Conn : Fate(d)
  BY DEF LifeInv
<1>2. Phases' /\ OnlyFunctors'
  BY <1>1 DEF Phases, OnlyFunctors, Queued
<1>3. Tasks' = Tasks
  BY DEF Tasks
<1>4. ASSUME NEW d \in Conn PROVE Fate(d)'
  <2>1. Fate(d) /\ conn[d].state \in State
    BY <1>1, FieldTypes DEF ServerInv, RecordOK
  <2>2. /\ OnceIn(Life(d), todo', batch', pending') /\ AtMostOne(todo', Closing(d))
        /\ AtMostOne(baseQueue', {d})
        /\ revents'[d] # {} => Open(conn[d]) /\ Without(todo', Closing(d))
    BY <2>1 DEF Fate, OneLife, EventsOpen
  <2> QED
    BY <1>3, <2>1, <2>2, Untouched
<1> QED
  BY <1>2, <1>4

\* The turn of the loop: poll, dispatch and the batch of functors.
LEMMA TurnFate ==
  ASSUME Orderly, LifeInv, UNCHANGED serverVars,
         \/ poll(Ready) \/ \E c \in Conn : dispatch(c, handle_event(revents[c]))
         \/ swap \/ run_functor \/ drained \/ user_return
  PROVE  conn' = conn /\ Phases' /\ OnlyFunctors' /\ \A d \in Conn : Fate(d)'
<1>1. ServerInv /\ Phases /\ OnlyFunctors /\ \A d \in Conn : Fate(d)
  BY DEF LifeInv
<1>2. UNCHANGED <<accepted, connections, baseQueue>>
  BY DEF serverVars
<1>3. /\ todo \in Seq(Task) /\ batch \in Seq(Task) /\ pending \in Seq(Task)
      /\ revents \in [Conn -> SUBSET {"in", "out", "hup", "err"}]
      /\ \A d \in Conn : /\ OnceIn(Life(d), todo, batch, pending) /\ AtMostOne(todo, Closing(d))
                         /\ AtMostOne(baseQueue', {d})
                         /\ conn[d].state \in State
  BY <1>1, <1>2, FieldTypes DEF ServerInv, ServerTypeOK, Fate, OneLife, RecordOK
<1>4. conn' = conn /\ \A d \in Conn : StageKept(conn[d], conn'[d])
  BY DEF poll, dispatch, swap, run_functor, drained, user_return, StageKept
<1>5. CASE poll(Ready)
  <2>1. /\ phase = "poll" /\ todo' = todo /\ batch' = batch /\ pending' = pending /\ revents' = Ready
        /\ phase' = "dispatch"
    BY <1>5 DEF poll
  <2>2. todo = <<>> /\ batch = <<>>
    BY <1>1, <2>1 DEF Phases
  <2>3. Phases' /\ OnlyFunctors'
    BY <1>1, <2>1, <2>2 DEF Phases, OnlyFunctors, Queued
  <2>4. Tasks' = Tasks
    BY <2>1 DEF Tasks
  <2>5. ASSUME NEW d \in Conn, Ready[d] # {} PROVE Open(conn[d])
    <3>1. Revents(conn[d]) # {}
      BY <2>5 DEF Ready
    <3>2. conn[d].registered /\ conn[d].events # {}
      BY <3>1 DEF Revents, Hidden, Orderly
    <3>3. conn[d].state # "Connecting"
      BY <1>1, <3>2 DEF ServerInv, RecordOK
    <3>4. conn[d].state # "Disconnected"
      BY <1>1, <3>2 DEF Fate, Old
    <3> QED
      BY <1>3, <3>3, <3>4 DEF Open, State
  <2>6. \A d \in Conn : Without(todo', Closing(d))
    BY <2>1, <2>2 DEF Without, Entries
  <2>7. ASSUME NEW d \in Conn PROVE Fate(d)'
    <3>1. revents'[d] # {} => Open(conn[d]) /\ Without(todo', Closing(d))
      BY <2>1, <2>5, <2>6
    <3>2. OnceIn(Life(d), todo', batch', pending') /\ AtMostOne(todo', Closing(d))
      BY <1>3, <2>1
    <3> QED
      BY <1>1, <1>2, <1>3, <1>4, <2>4, <3>1, <3>2, Untouched
  <2> QED
    BY <1>4, <2>3, <2>7
<1>6. ASSUME NEW c \in Conn, dispatch(c, handle_event(revents[c]))
      PROVE  conn' = conn /\ Phases' /\ OnlyFunctors' /\ \A d \in Conn : Fate(d)'
  <2>1. PICK steps : steps = handle_event(revents[c])
    OBVIOUS
  <2>2. PICK t : t = Tagged(c, steps)
    OBVIOUS
  <2>3. /\ todo' = t /\ batch' = batch /\ pending' = pending /\ phase = "dispatch"
        /\ phase' = phase /\ revents' = [revents EXCEPT ![c] = {}] /\ revents[c] # {} /\ todo = <<>>
    BY <1>6, <2>1, <2>2 DEF dispatch, BetweenCallbacks
  <2>4. Callback \in SUBSET Step
    BY DEF Callback, Step
  <2>5. steps \in Seq(Callback) /\ AtMostOne(steps, {"handle_close", "handle_read"})
    BY <2>1, EventCallbacks
  <2>6. t \in Seq(Task) /\ \A e \in Entries(t) : e[1] \in Callback /\ e[2] = c /\ e = <<e[1], c>>
    BY <2>2, <2>4, <2>5, TaggedSteps
  <2>7. Len(t) = Len(steps) /\ \A i \in 1..Len(steps) : t[i] = <<steps[i], c>> /\ steps[i] \in Callback
    BY <2>2, <2>5 DEF Tagged
  <2>8. AtMostOne(t, Closing(c))
    <3> SUFFICES ASSUME NEW i \in 1..Len(t), NEW j \in 1..Len(t), t[i] \in Closing(c), t[j] \in Closing(c)
                 PROVE  i = j
      BY DEF AtMostOne
    <3>1. \A k \in 1..Len(t) : t[k] \in Closing(c) => steps[k] \in {"handle_close", "handle_read"}
      BY <2>7 DEF Closing, LifeStep, ClosingStep, Callback
    <3> QED
      BY <2>5, <2>7, <3>1 DEF AtMostOne
  <2>9. Open(conn[c])
    BY <1>1, <2>3 DEF Fate, EventsOpen
  <2>10. Entries(todo) = {}
    BY <2>3 DEF Entries
  <2>11. Tasks' = Tasks \cup Entries(t)
    BY <2>3, <2>10 DEF Tasks
  <2>12. Phases' /\ OnlyFunctors'
    BY <1>1, <2>3 DEF Phases, OnlyFunctors, Queued
  <2>13. ASSUME NEW d \in Conn PROVE Fate(d)'
    <3>1. Without(t, Life(d))
      BY <2>6 DEF Without, Life, LifeStep, Callback
    <3>2. OnceIn(Life(d), todo', batch', pending')
      <4>1. OnceIn(Life(d), t \o todo, batch, pending)
        BY <1>3, <2>6, <3>1, Moves
      <4>2. t \o todo = t
        BY <2>3, <2>6
      <4> QED
        BY <2>3, <4>1, <4>2
    <3>3. d # c => Without(t, Closing(d))
      BY <2>6 DEF Without, Closing
    <3>4. AtMostOne(todo', Closing(d))
      <4>1. CASE d = c
        BY <2>3, <2>8, <4>1
      <4>2. CASE d # c
        BY <2>3, <3>3, <4>2 DEF Without, AtMostOne, Entries
      <4> QED
        BY <4>1, <4>2
    <3>5. revents'[d] # {} => Open(conn[d]) /\ Without(todo', Closing(d))
      <4>1. revents'[c] = {} /\ (d # c => revents'[d] = revents[d])
        BY <1>3, <2>3
      <4> QED
        BY <1>1, <2>3, <3>3, <4>1 DEF Fate, EventsOpen
    <3>6. \A f : <<f, d>> \in Entries(t) => d = c /\ f \in Callback
      BY <2>6
    <3>7. /\ \A f \in LifeStep : <<f, d>> \in Tasks' <=> <<f, d>> \in Tasks
          /\ \A f \in {"handle_close", "handle_read"} :
               <<f, d>> \in Tasks' => <<f, d>> \in Tasks \/ Open(conn[d])
      BY <2>9, <2>11, <3>6 DEF LifeStep, Callback
    <3>8. conn[d].state = "Connecting" => \A f \in Step : <<f, d>> \in Tasks' => <<f, d>> \in Tasks
      BY <2>9, <2>11, <3>6 DEF Open
    <3> QED
      BY <1>1, <1>2, <1>3, <1>4, <3>2, <3>4, <3>5, <3>7, <3>8, Untouched
  <2> QED
    BY <1>4, <2>12, <2>13
<1>7. CASE swap
  <2>1. /\ todo' = todo /\ batch' = pending /\ pending' = <<>> /\ revents' = revents
        /\ phase = "dispatch" /\ phase' = "drain" /\ todo = <<>> /\ \A c \in Conn : revents[c] = {}
    BY <1>7 DEF swap, BetweenCallbacks, all_dispatched
  <2>2. batch = <<>> /\ Entries(<<>>) = {}
    BY <1>1, <2>1 DEF Phases, Entries
  <2>3. Tasks' = Tasks /\ Queued' = Queued
    BY <2>1, <2>2 DEF Tasks, Queued
  <2>4. Phases' /\ OnlyFunctors'
    BY <1>1, <2>1, <2>3 DEF Phases, OnlyFunctors
  <2>5. ASSUME NEW d \in Conn PROVE Fate(d)'
    <3>1. OnceIn(Life(d), todo, batch, pending)
      BY <1>3
    <3>2. OnceIn(Life(d), <<>>, pending, <<>>)
      BY <1>3, <3>1, Moves
    <3>3. OnceIn(Life(d), todo', batch', pending') /\ AtMostOne(todo', Closing(d)) /\ revents'[d] = {}
      BY <1>3, <2>1, <3>2
    <3> QED
      BY <1>1, <1>2, <1>3, <1>4, <2>3, <3>3, Untouched
  <2> QED
    BY <1>4, <2>4, <2>5
<1>8. CASE run_functor
  <2>1. /\ todo' = <<Head(batch)>> /\ batch' = Tail(batch) /\ pending' = pending /\ todo = <<>>
        /\ revents' = revents /\ phase' = phase /\ phase = "drain" /\ batch # <<>>
    BY <1>8 DEF run_functor
  <2>2. Head(batch) \in Task /\ Tail(batch) \in Seq(Task) /\ Entries(batch) = {Head(batch)} \cup Entries(Tail(batch))
    BY <1>3, <2>1, EntriesOf
  <2>3. Entries(<<Head(batch)>>) = {Head(batch)} /\ Entries(<<>>) = {}
    BY DEF Entries
  <2>4. Tasks' = Tasks /\ Queued' \subseteq Queued
    BY <2>1, <2>2, <2>3 DEF Tasks, Queued
  <2>5. Phases' /\ OnlyFunctors' /\ \A d \in Conn : revents'[d] = {}
    BY <1>1, <2>1, <2>4 DEF Phases, OnlyFunctors
  <2>6. ASSUME NEW d \in Conn PROVE Fate(d)'
    <3>1. OnceIn(Life(d), todo, batch, pending)
      BY <1>3
    <3>2. OnceIn(Life(d), <<Head(batch)>>, Tail(batch), pending)
      BY <1>3, <2>1, <3>1, Moves
    <3>3. OnceIn(Life(d), todo', batch', pending') /\ AtMostOne(todo', Closing(d))
      BY <2>1, <3>2 DEF AtMostOne
    <3> QED
      BY <1>1, <1>2, <1>3, <1>4, <2>4, <2>5, <3>3, Untouched
  <2> QED
    BY <1>4, <2>5, <2>6
<1>9. CASE drained
  <2>1. /\ todo' = todo /\ batch' = batch /\ pending' = pending /\ revents' = revents
        /\ phase' = "poll" /\ phase = "drain" /\ todo = <<>> /\ batch = <<>>
    BY <1>9 DEF drained
  <2>2. Tasks' = Tasks /\ Queued' = Queued
    BY <2>1 DEF Tasks, Queued
  <2>3. Phases' /\ OnlyFunctors'
    BY <1>1, <2>1, <2>2 DEF Phases, OnlyFunctors
  <2>4. ASSUME NEW d \in Conn PROVE Fate(d)'
    <3>1. /\ OnceIn(Life(d), todo', batch', pending') /\ AtMostOne(todo', Closing(d))
          /\ revents'[d] # {} => Open(conn[d]) /\ Without(todo', Closing(d))
      BY <1>1, <1>3, <2>1 DEF Fate, EventsOpen
    <3> QED
      BY <1>1, <1>2, <1>3, <1>4, <2>2, <3>1, Untouched
  <2> QED
    BY <1>4, <2>3, <2>4
<1>10. CASE user_return
  <2>1. /\ todo' = Tail(todo) /\ batch' = batch /\ pending' = pending /\ Head(todo)[1] = "user"
        /\ revents' = revents /\ phase' = phase /\ todo # <<>>
    BY <1>10 DEF user_return, InUserCode
  <2>2. /\ Remains(Head(todo)[2], Tail(todo))
        /\ \A e \in Entries(todo) : e # Head(todo) => e \in Entries(Tail(todo))
    BY <2>1, StepRemains
  <2>3. \A f \in Step \ {"user"} : \A d \in Conn : <<f, d>> \in Tasks' <=> <<f, d>> \in Tasks
    BY <2>1, <2>2 DEF Tasks, Remains
  <2>4. \A e : e \in Tasks' => e \in Tasks
    BY <2>1, <2>2 DEF Tasks, Remains
  <2>5. Phases' /\ OnlyFunctors'
    BY <1>1, <2>1 DEF Phases, OnlyFunctors, Queued
  <2>6. LifeStep \subseteq Step \ {"user"}
    BY DEF LifeStep, Step, SharedFunctor
  <2>7. ASSUME NEW d \in Conn PROVE Fate(d)'
    <3>1. /\ OnceIn(Life(d), todo', batch', pending') /\ AtMostOne(todo', Closing(d))
          /\ revents'[d] # {} => Open(conn[d]) /\ Without(todo', Closing(d))
      BY <1>1, <2>1, <2>2 DEF Fate, EventsOpen, Remains, Without
    <3>2. \A f \in LifeStep : <<f, d>> \in Tasks' <=> <<f, d>> \in Tasks
      BY <2>3, <2>6
    <3> QED
      BY <1>1, <1>2, <1>3, <1>4, <2>4, <3>1, <3>2, Untouched
  <2> QED
    BY <1>4, <2>5, <2>7
<1> QED
  BY <1>5, <1>6, <1>7, <1>8, <1>9, <1>10

\* connect_destroyed() is queued for a connection that leaves the map and had
\* no other life task: rest is what the loop has left to do.
LEMMA DestroyQueued ==
  ASSUME LifeInv, NEW c \in Conn, conn[c].state = "Disconnected",
         NEW rest, Remains(c, rest), NEW keep \in Seq(Conn),
         \A f \in Step \ {"close_callback"} : \A d \in Conn :
           <<f, d>> \in Entries(todo) => <<f, d>> \in Entries(rest),
         Without(rest, Life(c)), Without(batch, Life(c)), Without(pending, Life(c)),
         c \notin Entries(keep), \A d \in Conn : AtMostOne(keep, {d}),
         \A d \in Conn \ {c} : d \in Entries(keep) <=> d \in Entries(baseQueue),
         UNCHANGED <<conn, batch, phase, revents, accepted>>, todo' = rest, baseQueue' = keep,
         phase = "poll" => rest = <<>>,
         connections' = connections \ {c}, pending' = Append(pending, <<"connect_destroyed", c>>)
  PROVE  Phases' /\ OnlyFunctors' /\ \A d \in Conn : Fate(d)'
<1>1. ServerInv /\ Phases /\ OnlyFunctors /\ \A d \in Conn : Fate(d)
  BY DEF LifeInv
<1>2. batch \in Seq(Task) /\ pending \in Seq(Task) /\ rest \in Seq(Task)
  BY <1>1 DEF ServerInv, ServerTypeOK, Remains
<1>3. PICK e : e = <<"connect_destroyed", c>>
  OBVIOUS
<1>4. e \in Task /\ e \in Life(c)
  BY <1>3 DEF Task, Life, LifeStep, Step, SharedFunctor
<1>5. pending' = Append(pending, e) /\ Entries(pending') = Entries(pending) \cup {e}
  <2>1. \A x \in Task : Entries(Append(pending, x)) = Entries(pending) \cup {x}
    BY <1>2, EntriesOf
  <2> QED
    BY <1>3, <1>4, <2>1
<1>6. Tasks' = Entries(rest) \cup Entries(batch) \cup Entries(pending) \cup {e}
  BY <1>5, ZenonT(60) DEF Tasks, Entries
<1>7. Phases'
  BY <1>1 DEF Phases
<1>8. OnlyFunctors'
  <2>1. Queued' = Queued \cup {e}
    BY <1>5 DEF Queued, Entries
  <2> QED
    BY <1>1, <1>3, <2>1 DEF OnlyFunctors, SharedFunctor
<1>9. ASSUME NEW d \in Conn \ {c} PROVE Fate(d)'
  <2>1. Fate(d) /\ conn[d].state \in State
    BY <1>1, FieldTypes DEF ServerInv, RecordOK
  <2>2. StageKept(conn[d], conn'[d])
    BY DEF StageKept
  <2>3. \A f : <<f, d>> \in Tasks' <=> <<f, d>> \in Tasks
    <3>1. \A f : <<f, d>> \in Entries(rest) <=> <<f, d>> \in Entries(todo)
      BY DEF Remains
    <3> QED
      BY <1>3, <1>6, <3>1 DEF Tasks
  <2>4. OnceIn(Life(d), todo', batch', pending')
    <3>1. OnceIn(Life(d), rest, batch, pending)
      BY DEF Remains
    <3>2. e \notin Life(d)
      BY <1>3 DEF Life
    <3>3. OnceIn(Life(d), rest, batch, Append(pending, e))
      BY <1>2, <1>4, <3>1, <3>2, Moves
    <3> QED
      BY <1>5, <3>3
  <2>5. /\ AtMostOne(todo', Closing(d))
        /\ revents'[d] # {} => Open(conn[d]) /\ Without(todo', Closing(d))
    BY <2>1 DEF Fate, EventsOpen, Without, Remains
  <2>6. AtMostOne(baseQueue', {d}) /\ (d \in Entries(baseQueue') <=> d \in Entries(baseQueue))
    OBVIOUS
  <2> QED
    BY <2>1, <2>2, <2>3, <2>4, <2>5, <2>6, Untouched
<1>10. Fate(c)'
  <2>1. OnceIn(Life(c), todo', batch', pending')
    <3>1. OnceIn(Life(c), rest, batch, pending)
      BY DEF Remains
    <3>2. OnceIn(Life(c), rest, batch, Append(pending, e))
      BY <1>2, <1>4, <3>1, Moves
    <3> QED
      BY <1>5, <3>2
  <2>2. AtMostOne(todo', Closing(c)) /\ AtMostOne(baseQueue', {c}) /\ c \notin Entries(baseQueue')
    BY DEF Remains
  <2>3. OneLife(c)'
    BY <2>1, <2>2 DEF OneLife, Life, Closing, Entries
  <2>4. /\ conn'[c].state = "Disconnected" /\ ~Open(conn'[c])
        /\ conn'[c].ups = 1 /\ conn'[c].downs = 1 /\ conn'[c].events = {}
    BY <1>1 DEF Fate, Old, Open
  <2>5. ~Alone(c)'
    BY <1>4, <1>6 DEF Alone, Life
  <2>6. ~Leaving(c)'
    <3>1. <<"close_callback", c>> \in Life(c)
      BY DEF Life, LifeStep
    <3>2. <<"close_callback", c>> \notin Tasks'
      BY <1>3, <1>6, <3>1 DEF Without
    <3> QED
      BY <2>2, <3>2 DEF Leaving, Entries
  <2>7. Young(c)' /\ Grown(c)' /\ Old(c)'
    BY <2>4, <2>5, <2>6 DEF Young, Grown, Old
  <2>8. revents[c] = {} /\ \A f \in {"handle_close", "handle_read"} : <<f, c>> \notin Tasks
    BY <1>1 DEF Fate, EventsOpen, Open
  <2>9. \A f \in {"handle_close", "handle_read"} : <<f, c>> \notin Tasks'
    BY <1>3, <1>6, <2>8 DEF Tasks, Remains
  <2>10. EventsOpen(c)'
    BY <2>8, <2>9 DEF EventsOpen
  <2> QED
    BY <2>3, <2>7, <2>10 DEF Fate
<1> QED
  BY <1>7, <1>8, <1>9, <1>10

LEMMA RemovalFate ==
  ASSUME LifeInv, close_callback \/ remove_connection_in_loop
  PROVE  conn' = conn /\ Phases' /\ OnlyFunctors' /\ \A d \in Conn : Fate(d)'
<1>1. ServerInv /\ Phases /\ OnlyFunctors /\ \A d \in Conn : Fate(d)
  BY DEF LifeInv
<1>2. /\ todo \in Seq(Task) /\ batch \in Seq(Task) /\ pending \in Seq(Task) /\ baseQueue \in Seq(Conn)
  BY <1>1 DEF ServerInv, ServerTypeOK
<1>3. UNCHANGED <<conn, batch, phase, revents, accepted>>
  BY DEF close_callback, remove_connection_in_loop
<1>4. CASE close_callback
  <2>1. PICK c : c = Head(todo)[2]
    OBVIOUS
  <2>2. todo # <<>> /\ Head(todo)[1] = "close_callback" /\ todo' = Tail(todo)
    BY <1>4 DEF close_callback
  <2>3. /\ c \in Conn /\ Head(todo) = <<"close_callback", c>> /\ <<"close_callback", c>> \in Tasks
        /\ Tail(todo) \in Seq(Task)
    BY <1>1, <2>1, <2>2, HeadTask
  <2>4. conn[c].state = "Disconnected"
    BY <2>3, StepStage DEF Step
  <2>5. PICK rest : rest = Tail(todo)
    OBVIOUS
  <2>6. Head(todo) \in Life(c)
    BY <2>3 DEF Life, LifeStep
  <2>7. /\ Remains(c, rest) /\ \A e \in Entries(todo) : e # Head(todo) => e \in Entries(rest)
        /\ Without(rest, Life(c)) /\ Without(batch, Life(c)) /\ Without(pending, Life(c))
    BY <2>1, <2>2, <2>3, <2>5, <2>6, StepRemains
  <2>8. \A f \in Step \ {"close_callback"} : \A d \in Conn :
          <<f, d>> \in Entries(todo) => <<f, d>> \in Entries(rest)
    BY <2>3, <2>7
  <2>9. c \notin Entries(baseQueue)
    BY <1>1, <2>3, <2>6 DEF Fate, OneLife, Alone
  <2>10. \A d \in Conn : AtMostOne(baseQueue, {d})
    BY <1>1 DEF Fate, OneLife
  <2>11. phase = "poll" => rest = <<>>
    BY <1>1, <2>2 DEF Phases
  <2>12. CASE IoIsBase
    <3>1. /\ connections' = connections \ {c} /\ baseQueue' = baseQueue
          /\ pending' = Append(pending, <<"connect_destroyed", c>>)
      BY <1>4, <2>1, <2>12 DEF close_callback, erase
    <3> QED
      BY <1>2, <1>3, <2>2, <2>3, <2>4, <2>5, <2>7, <2>8, <2>9, <2>10, <2>11, <3>1, DestroyQueued
  <2>13. CASE ~IoIsBase
    <3>1. connections' = connections /\ baseQueue' = Append(baseQueue, c) /\ pending' = pending
      BY <1>4, <2>1, <2>13 DEF close_callback
    <3>2. baseQueue' \in Seq(Conn) /\ Entries(baseQueue') = Entries(baseQueue) \cup {c}
      BY <1>2, <2>3, <3>1, EntriesOf
    <3>3. Tasks' = Entries(rest) \cup Entries(batch) \cup Entries(pending)
      BY <1>3, <2>2, <2>5, <3>1 DEF Tasks
    <3>4. Phases' /\ OnlyFunctors'
      BY <1>1, <1>3, <2>2, <2>5, <2>11, <3>1 DEF Phases, OnlyFunctors, Queued
    <3>5. ASSUME NEW d \in Conn PROVE AtMostOne(baseQueue', {d})
      <4>1. c \notin {d} \/ Entries(baseQueue) \cap {d} = {}
        BY <2>9
      <4>2. \A e \in Conn : e \notin {d} \/ Entries(baseQueue) \cap {d} = {} => AtMostOne(Append(baseQueue, e), {d})
        BY <1>2, <2>10, OneOf
      <4> QED
        BY <2>3, <3>1, <4>1, <4>2
    <3>6. ASSUME NEW d \in Conn \ {c} PROVE Fate(d)'
      <4>1. Fate(d) /\ conn[d].state \in State
        BY <1>1, FieldTypes DEF ServerInv, RecordOK
      <4>2. StageKept(conn[d], conn'[d])
        BY <1>3 DEF StageKept
      <4>3. \A f : <<f, d>> \in Tasks' <=> <<f, d>> \in Tasks
        <5>1. \A f : <<f, d>> \in Entries(rest) <=> <<f, d>> \in Entries(todo)
          BY <2>7 DEF Remains
        <5> QED
          BY <3>3, <5>1 DEF Tasks
      <4>4. OnceIn(Life(d), todo', batch', pending') /\ AtMostOne(todo', Closing(d))
        BY <1>3, <2>2, <2>5, <2>7, <3>1 DEF Remains
      <4>5. revents'[d] # {} => Open(conn[d]) /\ Without(todo', Closing(d))
        BY <1>3, <2>2, <2>5, <2>7, <4>1 DEF Fate, EventsOpen, Without, Remains
      <4>6. /\ d \in accepted' <=> d \in accepted
            /\ d \in connections' <=> d \in connections
            /\ d \in Entries(baseQueue') <=> d \in Entries(baseQueue)
        BY <1>3, <3>1, <3>2
      <4> QED
        BY <3>5, <4>1, <4>2, <4>3, <4>4, <4>5, <4>6, Untouched
    <3>7. Fate(c)'
      <4>1. Alone(c)'
        BY <2>7, <3>3 DEF Alone, Life, Without
      <4>2. OnceIn(Life(c), todo', batch', pending') /\ AtMostOne(todo', Closing(c))
        BY <1>3, <2>2, <2>5, <2>7, <2>3, <3>1 DEF Remains
      <4>3. OneLife(c)'
        BY <2>3, <3>5, <4>1, <4>2 DEF OneLife, Life, Closing
      <4>4. /\ conn'[c].state = "Disconnected" /\ ~Open(conn'[c])
            /\ conn'[c].ups = 1 /\ conn'[c].downs = 1 /\ conn'[c].events = {}
        BY <1>1, <1>3, <2>3, <2>4 DEF Fate, Old, Open
      <4>5. c \in connections' /\ c \in Entries(baseQueue)'
        BY <1>1, <2>3, <2>4, <3>1, <3>2 DEF Fate, Old, Leaving, Entries
      <4>6. Young(c)' /\ Grown(c)' /\ Old(c)'
        BY <4>4, <4>5 DEF Young, Grown, Old, Leaving
      <4>7. revents[c] = {} /\ \A f \in {"handle_close", "handle_read"} : <<f, c>> \notin Tasks
        BY <1>1, <2>3, <2>4 DEF Fate, EventsOpen, Open
      <4>8. EventsOpen(c)'
        BY <1>3, <2>7, <3>3, <4>7 DEF EventsOpen, Tasks, Remains
      <4> QED
        BY <4>3, <4>6, <4>8 DEF Fate
    <3> QED
      BY <1>3, <3>4, <3>6, <3>7
  <2> QED
    BY <2>12, <2>13
<1>5. CASE remove_connection_in_loop
  <2>1. PICK c : c = Head(baseQueue)
    OBVIOUS
  <2>2. /\ baseQueue # <<>> /\ connections' = connections \ {c} /\ baseQueue' = Tail(baseQueue)
        /\ pending' = Append(pending, <<"connect_destroyed", c>>) /\ todo' = todo
    BY <1>5, <2>1 DEF remove_connection_in_loop, erase
  <2>3. /\ c \in Conn /\ Tail(baseQueue) \in Seq(Conn)
        /\ Entries(baseQueue) = {c} \cup Entries(Tail(baseQueue))
    BY <1>2, <2>1, <2>2, EntriesOf
  <2>4. conn[c].state \in State
    BY <1>1, <2>3, FieldTypes DEF ServerInv, RecordOK
  <2>5. conn[c].state = "Disconnected" /\ Alone(c)
    BY <1>1, <2>3, <2>4 DEF Fate, OneLife, Young, Grown, Open, State
  <2>6. Without(todo, Life(c)) /\ Without(batch, Life(c)) /\ Without(pending, Life(c))
    BY <2>5 DEF Alone, Tasks, Without
  <2>7. Remains(c, todo)
    BY <1>1, <1>2 DEF Fate, OneLife, Remains
  <2>8. ASSUME NEW d \in Conn
        PROVE  AtMostOne(Tail(baseQueue), {d}) /\ (d = c => d \notin Entries(Tail(baseQueue)))
    <3>1. AtMostOne(baseQueue, {d})
      BY <1>1 DEF Fate, OneLife
    <3>2. /\ AtMostOne(Tail(baseQueue), {d})
          /\ Head(baseQueue) \in {d} => Entries(Tail(baseQueue)) \cap {d} = {}
      BY <1>2, <2>2, <3>1, OneOf
    <3> QED
      BY <2>1, <3>2
  <2>9. \A d \in Conn \ {c} : d \in Entries(Tail(baseQueue)) <=> d \in Entries(baseQueue)
    BY <2>3
  <2>10. phase = "poll" => todo = <<>>
    BY <1>1 DEF Phases
  <2> QED
    BY <1>3, <2>2, <2>3, <2>5, <2>6, <2>7, <2>8, <2>9, <2>10, DestroyQueued
<1> QED
  BY <1>4, <1>5

LEMMA AcceptFate ==
  ASSUME LifeInv, NEW c \in Conn, accept(c)
  PROVE  conn' = conn /\ Phases' /\ OnlyFunctors' /\ \A d \in Conn : Fate(d)'
<1>1. ServerInv /\ Phases /\ OnlyFunctors /\ \A d \in Conn : Fate(d)
  BY DEF LifeInv
<1>2. /\ todo \in Seq(Task) /\ batch \in Seq(Task) /\ pending \in Seq(Task)
  BY <1>1 DEF ServerInv, ServerTypeOK
<1>3. /\ accepted' = accepted \cup {c} /\ connections' = connections \cup {c} /\ c \notin accepted
      /\ conn' = conn /\ batch' = batch /\ phase' = phase /\ revents' = revents /\ baseQueue' = baseQueue
  BY DEF accept, new_connection, RunInIoLoop
<1>4. PICK e : e = <<"connect_established", c>>
  OBVIOUS
<1>5. e \in Task /\ <<e>> \in Seq(Task) /\ Entries(<<e>>) = {e} /\ e \in Life(c)
  BY <1>4 DEF Task, Step, SharedFunctor, Entries, Life, LifeStep
<1>6. \/ todo' = <<e>> \o todo /\ pending' = pending /\ phase # "poll"
      \/ pending' = pending \o <<e>> /\ todo' = todo
  BY <1>4 DEF accept, new_connection, RunInIoLoop, BaseRuns, BetweenCallbacks
<1>7. pending \o <<e>> = Append(pending, e)
  BY <1>2, <1>5
<1>8. /\ Entries(<<e>> \o todo) = {e} \cup Entries(todo)
      /\ Entries(pending \o <<e>>) = Entries(pending) \cup {e}
  <2>1. PICK u : u = <<e>>
    OBVIOUS
  <2>2. u \in Seq(Task) /\ Entries(u) = {e}
    BY <1>5, <2>1
  <2>3. /\ Entries(u \o todo) = Entries(u) \cup Entries(todo)
        /\ Entries(pending \o u) = Entries(pending) \cup Entries(u)
    BY <1>2, <2>2, EntriesOf
  <2> QED
    BY <2>1, <2>2, <2>3
<1>9. Tasks' = Tasks \cup {e} /\ Entries(todo') \subseteq Entries(todo) \cup {e}
  <2>1. CASE todo' = <<e>> \o todo /\ pending' = pending
    BY <1>3, <1>8, <2>1 DEF Tasks
  <2>2. CASE pending' = pending \o <<e>> /\ todo' = todo
    BY <1>3, <1>8, <2>2 DEF Tasks
  <2> QED
    BY <1>6, <2>1, <2>2
<1>10. Phases'
  BY <1>1, <1>3, <1>6 DEF Phases
<1>11. OnlyFunctors'
  <2>1. Queued' \subseteq Queued \cup {e}
    BY <1>3, <1>6, <1>8 DEF Queued
  <2> QED
    BY <1>1, <1>4, <2>1 DEF OnlyFunctors, SharedFunctor
<1>12. /\ conn[c].state = "Connecting" /\ \A f \in Step : <<f, c>> \notin Tasks
       /\ c \notin Entries(baseQueue) /\ revents[c] = {}
  BY <1>1, <1>3 DEF ServerInv, NotAccepted, NotEstablished
<1>13. Life(c) \subseteq Closing(c) /\ Closing(c) \subseteq Step \X {c}
  BY DEF Life, Closing, LifeStep, ClosingStep, Step, SharedFunctor
<1>14. ASSUME NEW d \in Conn
       PROVE  OnceIn(Life(d), todo', batch', pending') /\ AtMostOne(todo', Closing(d))
              /\ (d # c /\ Without(todo, Closing(d)) => Without(todo', Closing(d)))
  <2>1. OnceIn(Life(d), todo, batch, pending) /\ AtMostOne(todo, Closing(d))
    BY <1>1 DEF Fate, OneLife
  <2>2. CASE d # c
    <3>1. e \notin Life(d) /\ e \notin Closing(d)
      BY <1>4, <2>2 DEF Life, Closing
    <3>2. Without(<<e>>, Life(d)) /\ Entries(<<e>>) \cap Closing(d) = {} /\ AtMostOne(<<e>>, Closing(d))
      BY <1>5, <3>1 DEF Without, AtMostOne
    <3>3. OnceIn(Life(d), <<e>> \o todo, batch, pending) /\ OnceIn(Life(d), todo, batch, pending \o <<e>>)
      BY <1>2, <1>5, <2>1, <3>2, Moves
    <3>4. AtMostOne(<<e>> \o todo, Closing(d))
      BY <1>2, <1>5, <2>1, <3>2, OneOf, ZenonT(60)
    <3>5. Without(todo, Closing(d)) => Without(todo', Closing(d))
      BY <1>9, <3>1 DEF Without
    <3> QED
      BY <1>3, <1>6, <2>1, <3>3, <3>4, <3>5
  <2>3. CASE d = c
    <3>1. Tasks \cap (Step \X {c}) = {}
      BY <1>12
    <3>2. /\ Without(todo, Life(d)) /\ Without(batch, Life(d)) /\ Without(pending, Life(d))
          /\ Without(todo, Closing(d))
      BY <1>13, <2>3, <3>1 DEF Without, Tasks
    <3>3. OnceIn(Life(d), <<e>> \o todo, batch, pending) /\ OnceIn(Life(d), todo, batch, Append(pending, e))
      BY <1>2, <1>5, <2>1, <3>2, Moves
    <3>4. AtMostOne(<<e>>, Closing(d))
      BY DEF AtMostOne
    <3>5. AtMostOne(<<e>> \o todo, Closing(d))
      BY <1>2, <1>5, <2>1, <3>2, <3>4, OneOf, ZenonT(60) DEF Without
    <3> QED
      BY <1>3, <1>6, <1>7, <2>1, <2>3, <3>3, <3>5
  <2> QED
    BY <2>2, <2>3
<1>15. ASSUME NEW d \in Conn \ {c} PROVE Fate(d)'
  <2>1. Fate(d) /\ conn[d].state \in State /\ StageKept(conn[d], conn'[d])
    BY <1>1, <1>3, FieldTypes DEF ServerInv, RecordOK, StageKept
  <2>2. \A f : <<f, d>> \in Tasks' <=> <<f, d>> \in Tasks
    BY <1>4, <1>9
  <2>3. revents'[d] # {} => Open(conn[d]) /\ Without(todo', Closing(d))
    BY <1>3, <1>14, <2>1 DEF Fate, EventsOpen
  <2>4. AtMostOne(baseQueue', {d})
    BY <1>3, <2>1 DEF Fate, OneLife
  <2> QED
    BY <1>3, <1>14, <2>1, <2>2, <2>3, <2>4, Untouched
<1>16. Fate(c)'
  <2>1. conn'[c].state = "Connecting" /\ ~Open(conn'[c]) /\ c \notin Entries(baseQueue')
    BY <1>3, <1>12 DEF Open
  <2>2. AtMostOne(baseQueue', {c}) /\ conn'[c].ups = 0 /\ conn'[c].downs = 0
    BY <1>1, <1>3, <1>12 DEF Fate, OneLife, Young
  <2>3. OneLife(c)'
    BY <1>14, <2>1, <2>2 DEF OneLife, Life, Closing, Entries
  <2>4. \A f \in Step : <<f, c>> \in Tasks' => f = "connect_established"
    BY <1>4, <1>9, <1>12
  <2>5. Young(c)' /\ Grown(c)' /\ Old(c)'
    BY <1>3, <2>1, <2>2, <2>4 DEF Young, Grown, Old, Entries
  <2>6. EventsOpen(c)'
    BY <1>3, <1>12, <2>4 DEF EventsOpen, Step
  <2> QED
    BY <2>3, <2>5, <2>6 DEF Fate
<1> QED
  BY <1>3, <1>10, <1>11, <1>15, <1>16

\* User code, the timer of force_close_with_delay(), and a send() from another
\* thread.
LEMMA CallFate ==
  ASSUME Orderly, LifeInv,
         \/ \E op \in UserOps : user_call(op)
         \/ \E c \in Conn : delay_expired(c)
         \/ foreign_act
  PROVE  /\ Phases' /\ OnlyFunctors' /\ \A d \in Conn : Fate(d)'
         /\ \A d \in Conn : conn'[d].closes = conn[d].closes
<1>1. ServerInv /\ Phases /\ OnlyFunctors /\ \A d \in Conn : Fate(d)
  BY DEF LifeInv
<1>2. /\ todo \in Seq(Task) /\ batch \in Seq(Task) /\ pending \in Seq(Task) /\ accepted \in SUBSET Conn
  BY <1>1 DEF ServerInv, ServerTypeOK
<1>3. \A c : Remains(c, todo)
  BY <1>1, <1>2 DEF Remains, Fate, OneLife
<1>4. ASSUME NEW c \in Conn, NEW res, ResultOK(conn[c], res), res.todo = <<>>,
             StageKept(conn[c], res.r), conn[c].state # "Connecting", phase # "poll",
             Apply(c, res, todo), UNCHANGED <<accepted, connections, baseQueue>>
      PROVE  /\ Phases' /\ OnlyFunctors' /\ \A d \in Conn : Fate(d)'
             /\ \A d \in Conn : conn'[d].closes = conn[d].closes
  <2>1. /\ res.q \in Seq(Functor) /\ res.todo \in Seq(Inner) /\ res.todo \in Seq({"user"})
    BY <1>4 DEF ResultOK
  <2>2. Phases' /\ OnlyFunctors' /\ \A d \in Conn \ {c} : Fate(d)'
    BY <1>3, <1>4, <2>1, ApplyOthers
  <2>3. Fate(c)'
    BY <1>3, <1>4, <2>1, ApplyQuiet
  <2>4. Applied(c, res, todo, Tagged(c, res.todo), Tagged(c, res.q))
    BY <1>1, <1>2, <1>4, <2>1, ApplyParts
  <2>5. \A d \in Conn : conn'[d] = IF d = c THEN res.r ELSE conn[d]
    BY <2>4 DEF Applied
  <2>6. \A d \in Conn : conn'[d].closes = conn[d].closes
    BY <1>4, <2>5 DEF StageKept
  <2> QED
    BY <2>2, <2>3, <2>6
<1>5. ASSUME NEW op \in UserOps, user_call(op)
      PROVE  /\ Phases' /\ OnlyFunctors' /\ \A d \in Conn : Fate(d)'
             /\ \A d \in Conn : conn'[d].closes = conn[d].closes
  <2>1. PICK c : c = Head(todo)[2]
    OBVIOUS
  <2>2. todo # <<>> /\ Head(todo)[1] = "user" /\ UNCHANGED <<accepted, connections, baseQueue>>
    BY <1>5 DEF user_call, InUserCode
  <2>3. c \in Conn /\ <<"user", c>> \in Tasks
    BY <1>1, <2>1, <2>2, HeadTask
  <2>4. conn[c].state # "Connecting" /\ phase # "poll"
    BY <1>1, <2>2, <2>3, TaskKnown DEF Step, Phases
  <2>5. PICK n : Apply(c, Call(op, conn[c], n), todo)
    BY <1>5, <2>1 DEF user_call
  <2>6. op \in UserOp \ {"start_read", "stop_read"}
    BY OpsAssumption DEF Orderly
  <2>7. conn[c] \in Record /\ RecordOK(conn[c])
    BY <1>1, <2>3 DEF ServerInv, RecordOK
  <2>8. ResultOK(conn[c], Call(op, conn[c], n)) /\ Call(op, conn[c], n).todo = <<>>
    BY <2>4, <2>6, <2>7, CallOK
  <2>9. StageKept(conn[c], Call(op, conn[c], n).r)
    BY <2>6, <2>7, CallStages
  <2> QED
    BY <1>4, <2>2, <2>3, <2>4, <2>5, <2>8, <2>9
<1>6. ASSUME NEW c \in Conn, delay_expired(c)
      PROVE  /\ Phases' /\ OnlyFunctors' /\ \A d \in Conn : Fate(d)'
             /\ \A d \in Conn : conn'[d].closes = conn[d].closes
  <2>1. PICK r : r = [conn[c] EXCEPT !.delayed = FALSE]
    OBVIOUS
  <2>2. /\ c \in accepted /\ conn[c].delayed /\ Apply(c, force_close(r), todo) /\ phase # "poll"
        /\ UNCHANGED <<accepted, connections, baseQueue>>
    BY <1>6, <2>1 DEF delay_expired, BetweenCallbacks, serverVars
  <2>3. conn[c] \in Record /\ RecordOK(conn[c]) /\ conn[c].state # "Connecting"
    BY <1>1, <2>2 DEF ServerInv, RecordOK
  <2>4. Kept(conn[c], r, {"delayed"})
    BY <2>1, <2>3, Assignments
  <2>5. RecordOK(r) /\ r \in Record /\ r.state # "Connecting"
    BY <2>3, <2>4 DEF RecordOK, Kept, Field, Open
  <2>6. "force_close" \in UserOp \ {"start_read", "stop_read"} /\ Call("force_close", r, 0) = force_close(r)
    BY DEF UserOp, Call
  <2>7. ResultOK(r, force_close(r)) /\ force_close(r).todo = <<>> /\ StageKept(r, force_close(r).r)
    <3>1. ResultOK(r, Call("force_close", r, 0)) /\ Call("force_close", r, 0).todo = <<>>
      BY <2>5, <2>6, CallOK
    <3>2. StageKept(r, Call("force_close", r, 0).r)
      BY <2>5, <2>6, CallStages
    <3> QED
      BY <2>6, <3>1, <3>2
  <2>8. ResultOK(conn[c], force_close(r))
    BY <2>5, <2>7 DEF ResultOK
  <2>9. StageKept(conn[c], force_close(r).r)
    BY <2>4, <2>7 DEF StageKept, Kept, Field, Open
  <2> QED
    BY <1>4, <2>2, <2>3, <2>7, <2>8, <2>9
<1>7. CASE foreign_act
  <2>1. PICK c : c = foreign[2]
    OBVIOUS
  <2>2. foreign # Idle /\ foreign \in {"send"} \X Conn /\ c \in held
    BY <1>1, <1>7, <2>1 DEF foreign_act, ServerInv, ServerTypeOK, ForeignHolds
  <2>3. c \in Conn /\ foreign[1] = "send"
    BY <2>1, <2>2
  <2>4. PICK e : e = <<"send_in_loop", c>>
    OBVIOUS
  <2>5. e \in Task
    BY <2>3, <2>4 DEF Task, Step, RawFunctor
  <2>6. /\ pending' = Append(pending, e) /\ conn' = conn
        /\ UNCHANGED <<batch, phase, revents, todo, accepted, connections, baseQueue>>
    BY <1>7, <2>1, <2>3, <2>4 DEF foreign_act, InLoop
  <2>7. Entries(pending') = Entries(pending) \cup {e}
    BY <1>2, <2>5, <2>6, EntriesOf
  <2>8. Tasks' = Tasks \cup {e} /\ Queued' = Queued \cup {e}
    BY <2>6, <2>7 DEF Tasks, Queued
  <2>9. Phases' /\ OnlyFunctors'
    BY <1>1, <2>4, <2>6, <2>8 DEF Phases, OnlyFunctors, RawFunctor
  <2>10. conn[c].state # "Connecting"
    BY <1>1, <2>2, <2>3 DEF ServerInv, NotEstablished
  <2>11. ASSUME NEW d \in Conn PROVE Fate(d)'
    <3>1. Fate(d) /\ conn[d].state \in State /\ StageKept(conn[d], conn'[d])
      BY <1>1, <2>6, FieldTypes DEF ServerInv, RecordOK, StageKept
    <3>2. \A f \in LifeStep \cup {"handle_close", "handle_read"} : <<f, d>> \in Tasks' <=> <<f, d>> \in Tasks
      BY <2>4, <2>8 DEF LifeStep
    <3>3. conn[d].state = "Connecting" => \A f \in Step : <<f, d>> \in Tasks' => <<f, d>> \in Tasks
      BY <2>4, <2>8, <2>10
    <3>4. OnceIn(Life(d), todo', batch', pending')
      <4>1. e \notin Life(d)
        BY <2>4 DEF Life, LifeStep
      <4>2. OnceIn(Life(d), todo, batch, pending)
        BY <3>1 DEF Fate, OneLife
      <4>3. OnceIn(Life(d), todo, batch, Append(pending, e))
        BY <1>2, <2>5, <4>1, <4>2, Moves
      <4> QED
        BY <2>6, <4>3
    <3>5. /\ AtMostOne(todo', Closing(d)) /\ AtMostOne(baseQueue', {d})
          /\ revents'[d] # {} => Open(conn[d]) /\ Without(todo', Closing(d))
      BY <2>6, <3>1 DEF Fate, OneLife, EventsOpen
    <3> QED
      BY <2>6, <3>1, <3>2, <3>3, <3>4, <3>5, Untouched
  <2> QED
    BY <2>6, <2>9, <2>11
<1> QED
  BY <1>5, <1>6, <1>7

LEMMA StartLifeInv == Init => LifeInv
<1> SUFFICES ASSUME Init PROVE LifeInv
  OBVIOUS
<1>1. ServerInv
  BY StartServerInv
<1>2. /\ conn = [c \in Conn |-> New] /\ pending = <<>> /\ batch = <<>> /\ todo = <<>> /\ phase = "poll"
      /\ revents = [c \in Conn |-> {}] /\ accepted = {} /\ baseQueue = <<>>
  BY DEF Init, IoInit
<1>3. New.state = "Connecting" /\ New.ups = 0 /\ New.downs = 0
  BY DEF New
<1>4. Entries(<<>>) = {} /\ Tasks = {} /\ Queued = {}
  BY <1>2 DEF Entries, Tasks, Queued
<1>5. \A X : /\ OnceIn(X, todo, batch, pending) /\ AtMostOne(todo, X) /\ AtMostOne(baseQueue, X)
             /\ Without(todo, X)
  BY <1>2 DEF OnceIn, AtMostOne, Without, Entries
<1>6. ASSUME NEW c \in Conn PROVE Fate(c)
  <2>1. conn[c].state = "Connecting" /\ conn[c].ups = 0 /\ conn[c].downs = 0 /\ ~Open(conn[c])
    BY <1>2, <1>3 DEF Open
  <2>2. OneLife(c)
    BY <1>2, <1>4, <1>5 DEF OneLife
  <2>3. Young(c) /\ Grown(c) /\ Old(c)
    BY <1>2, <1>4, <2>1 DEF Young, Grown, Old
  <2>4. EventsOpen(c)
    BY <1>2, <1>4 DEF EventsOpen
  <2> QED
    BY <2>2, <2>3, <2>4 DEF Fate
<1> QED
  BY <1>1, <1>2, <1>4, <1>6 DEF LifeInv, Phases, OnlyFunctors

LEMMA LifeInvStep ==
  ASSUME Orderly, LifeInv, [Next]_vars
  PROVE  /\ LifeInv'
         /\ \A c \in Conn : conn'[c].closes # conn[c].closes => Open(conn[c])
<1>1. OthersSend /\ ServerInv
  BY DEF Orderly, LifeInv
<1>2. ServerInv'
  BY <1>1, ServerInvStep
<1>3. SUFFICES /\ Phases' /\ OnlyFunctors' /\ \A d \in Conn : Fate(d)'
               /\ \A c \in Conn : conn'[c].closes # conn[c].closes => Open(conn[c])
  BY <1>2 DEF LifeInv
<1>4. CASE LoopStep
  <2>1. UNCHANGED serverVars
    BY <1>4 DEF LoopStep
  <2>2. CASE perform
    BY <2>1, <2>2, PerformFate
  <2>3. CASE ~perform
    <3>1. \/ poll(Ready) \/ \E c \in Conn : dispatch(c, handle_event(revents[c]))
          \/ swap \/ run_functor \/ drained \/ user_return
      BY <1>4, <2>3 DEF LoopStep
    <3> QED
      BY <2>1, <3>1, TurnFate
  <2> QED
    BY <2>2, <2>3
<1>5. CASE close_callback \/ remove_connection_in_loop
  BY <1>5, RemovalFate
<1>6. ASSUME NEW c \in Conn, accept(c)
      PROVE  /\ Phases' /\ OnlyFunctors' /\ \A d \in Conn : Fate(d)'
             /\ \A d \in Conn : conn'[d].closes # conn[d].closes => Open(conn[d])
  BY <1>6, AcceptFate
<1>7. CASE (\E op \in UserOps : user_call(op)) \/ (\E c \in Conn : delay_expired(c)) \/ foreign_act
  BY <1>7, CallFate
<1>8. ASSUME UNCHANGED <<pending, batch, phase, revents, todo, accepted, connections, baseQueue>>,
             conn' = conn
      PROVE  /\ Phases' /\ OnlyFunctors' /\ \A d \in Conn : Fate(d)'
             /\ \A d \in Conn : conn'[d].closes # conn[d].closes => Open(conn[d])
  <2>1. \A d \in Conn : StageKept(conn[d], conn'[d])
    BY <1>8 DEF StageKept
  <2> QED
    BY <1>8, <2>1, StillFate
<1>9. ASSUME NEW c \in Conn, peer_acts(c)
      PROVE  /\ Phases' /\ OnlyFunctors' /\ \A d \in Conn : Fate(d)'
             /\ \A d \in Conn : conn'[d].closes # conn[d].closes => Open(conn[d])
  <2>1. conn \in [Conn -> Record] /\ conn[c] \in Record
    BY <1>1 DEF ServerInv, ServerTypeOK
  <2>2. PICK r : r = conn'[c]
    OBVIOUS
  <2>3. conn' = [conn EXCEPT ![c] = r] /\ Kept(conn[c], r, {})
    BY <1>9, <2>1, <2>2, PeerEffect
  <2>4. StageKept(conn[c], r)
    BY <2>3 DEF Kept, Field, StageKept
  <2>5. \A d \in Conn : conn'[d] = IF d = c THEN r ELSE conn[d]
    BY <2>1, <2>3
  <2>6. \A d \in Conn : StageKept(conn[d], conn'[d])
    BY <2>4, <2>5 DEF StageKept
  <2>7. UNCHANGED <<pending, batch, phase, revents, todo, accepted, connections, baseQueue>>
    BY <1>9 DEF peer_acts, peer_sends, peer_closes, peer_resets, turnVars, serverVars
  <2>8. \A d \in Conn : conn'[d].closes = conn[d].closes
    BY <2>6 DEF StageKept
  <2> QED
    BY <2>6, <2>7, <2>8, StillFate
<1>10. CASE start \/ user_share \/ UNCHANGED vars
  <2>1. UNCHANGED <<pending, batch, phase, revents, todo, accepted, connections, baseQueue>> /\ conn' = conn
    BY <1>10 DEF start, user_share, vars, serverVars, ioVars, turnVars
  <2> QED
    BY <1>8, <2>1
<1>11. ASSUME NEW c \in Conn, foreign_release(c) \/ \E op \in ForeignOps : foreign_test(op, c)
       PROVE  /\ Phases' /\ OnlyFunctors' /\ \A d \in Conn : Fate(d)'
              /\ \A d \in Conn : conn'[d].closes # conn[d].closes => Open(conn[d])
  <2>1. UNCHANGED <<pending, batch, phase, revents, todo, accepted, connections, baseQueue>> /\ conn' = conn
    BY <1>11 DEF foreign_release, foreign_test, ioVars, turnVars
  <2> QED
    BY <1>8, <2>1
<1>12. ~destroy_server
  BY DEF destroy_server, Orderly
<1> QED
  BY <1>4, <1>5, <1>6, <1>7, <1>9, <1>10, <1>11, <1>12 DEF Next, IoStep

\* The inductive invariant of an orderly server.
THEOREM LifeInvariance ==
  ASSUME Orderly
  PROVE  Spec => []LifeInv
<1>1. LifeInv /\ [Next]_vars => LifeInv'
  BY LifeInvStep
<1> QED
  BY <1>1, StartLifeInv, PTL DEF Spec

\* No event, functor or timer runs TcpConnection::handle_close() on a connection
\* that is not open: the assert of handle_close() holds.
THEOREM ClosedOnce ==
  ASSUME Orderly
  PROVE  Spec => ClosesOpenConnection
<1>1. LifeInv /\ [Next]_vars =>
        [\A c \in Conn : conn'[c].closes # conn[c].closes => Open(conn[c])]_vars
  BY LifeInvStep
<1> QED
  BY <1>1, LifeInvariance, PTL DEF Spec, ClosesOpenConnection

\* A connection that no shared_ptr points to was closed, its close was carried
\* through to the end, and it has left the poller.
LEMMA FreedFate ==
  ASSUME LifeInv, NEW c \in Conn, Freed(c)
  PROVE  /\ conn[c].state = "Disconnected" /\ ~conn[c].registered
         /\ conn[c].ups = 1 /\ conn[c].downs = 1
<1>1. ServerInv /\ OnlyFunctors /\ Fate(c)
  BY DEF LifeInv
<1>2. c \in accepted /\ c \notin connections /\ c \notin Entries(baseQueue) /\ ~HeldByLoop(c)
  BY DEF Freed, Owned
<1>3. conn[c].state \in State
  BY <1>1, FieldTypes DEF ServerInv, RecordOK
<1>4. conn[c].state = "Disconnected"
  BY <1>1, <1>2, <1>3 DEF Fate, Young, Grown, Open, State
<1>5. Alone(c)
  <2> SUFFICES ASSUME NEW f \in LifeStep, <<f, c>> \in Tasks PROVE FALSE
    BY DEF Alone, Life
  <2>1. <<f, c>> \notin Entries(todo)
    BY <1>2 DEF HeldByLoop, Entries
  <2>2. <<f, c>> \in Queued
    BY <2>1 DEF Tasks, Queued
  <2>3. f \in SharedFunctor
    BY <1>1, <2>2 DEF OnlyFunctors, LifeStep, SharedFunctor, RawFunctor
  <2> QED
    BY <1>2, <2>2, <2>3 DEF HeldByLoop
<1> QED
  BY <1>1, <1>2, <1>4, <1>5 DEF Fate, Old

\* ~TcpConnection() finds its connection Disconnected, as it asserts.
THEOREM FreedAreDisconnected ==
  ASSUME Orderly
  PROVE  Spec => []FreedDisconnected
<1>1. LifeInv => FreedDisconnected
  BY FreedFate DEF FreedDisconnected
<1> QED
  BY <1>1, LifeInvariance, PTL

\* No Channel of a freed connection is left in the poller.
THEOREM FreedLeftPoller ==
  ASSUME Orderly
  PROVE  Spec => []FreedUnregistered
<1>1. LifeInv => FreedUnregistered
  BY FreedFate DEF FreedUnregistered
<1> QED
  BY <1>1, LifeInvariance, PTL

\* A channel that is taken out of the poller is disabled, as
\* PollPoller::remove_channel() asserts.
THEOREM RemovedAreDisabled ==
  ASSUME Orderly
  PROVE  Spec => []RemovedDisabled
<1>1. ASSUME LifeInv, todo # <<>>, Head(todo)[1] = "remove"
      PROVE  conn[Head(todo)[2]].events = {}
  <2>1. PICK c \in Conn : Head(todo) = <<"remove", c>> /\ Head(todo)[2] = c
    <3>1. todo \in Seq(Task)
      BY <1>1 DEF LifeInv, ServerInv, ServerTypeOK
    <3>2. Head(todo) \in Task
      BY <1>1, <3>1
    <3> QED
      BY <1>1, <3>2 DEF Task
  <2>2. <<"remove", c>> \in Tasks
    <3>1. todo \in Seq(Task)
      BY <1>1 DEF LifeInv, ServerInv, ServerTypeOK
    <3>2. 1 \in 1..Len(todo) /\ Head(todo) = todo[1]
      BY <1>1, <3>1
    <3> QED
      BY <2>1, <3>2 DEF Tasks, Entries
  <2>3. Fate(c) /\ conn[c].state \in State
    BY <1>1, FieldTypes DEF LifeInv, ServerInv, RecordOK
  <2>4. conn[c].state # "Connecting"
    BY <2>2, <2>3 DEF Fate, Young, Step
  <2>5. ~Open(conn[c])
    BY <2>2, <2>3 DEF Fate, Grown, Alone, Life, LifeStep
  <2>6. conn[c].state = "Disconnected"
    BY <2>3, <2>4, <2>5 DEF State, Open
  <2> QED
    BY <2>1, <2>3, <2>6 DEF Fate, Old
<1>2. LifeInv => RemovedDisabled
  BY <1>1 DEF RemovedDisabled
<1> QED
  BY <1>2, LifeInvariance, PTL

\* The connection callback is called once for up and once for down, in that
\* order, and both before the connection is freed.
THEOREM CallbacksArePaired ==
  ASSUME Orderly
  PROVE  Spec => []CallbacksPaired
<1>1. ASSUME LifeInv PROVE CallbacksPaired
  <2> SUFFICES ASSUME NEW c \in Conn
               PROVE  /\ conn[c].ups <= 1 /\ conn[c].downs <= conn[c].ups
                      /\ Freed(c) => conn[c].downs = conn[c].ups
    BY DEF CallbacksPaired
  <2>1. conn[c].state \in State
    BY <1>1, FieldTypes DEF LifeInv, ServerInv, RecordOK
  <2>2. conn[c].ups \in {0, 1} /\ conn[c].downs \in {0, 1} /\ (conn[c].downs = 1 => conn[c].ups = 1)
    BY <1>1, <2>1 DEF LifeInv, Fate, Young, Grown, Old, Open, State
  <2>3. Freed(c) => conn[c].downs = conn[c].ups
    BY <1>1, FreedFate
  <2> QED
    BY <2>2, <2>3
<1> QED
  BY <1>1, LifeInvariance, PTL

\* TcpServer::remove_connection_in_loop() finds the connection it erases in the
\* map, and no connection is removed twice.
THEOREM RemovalsFindTheirs ==
  ASSUME Orderly
  PROVE  Spec => []RemovalFindsConnection
<1>1. ASSUME LifeInv PROVE RemovalFindsConnection
  <2>1. todo \in Seq(Task) /\ baseQueue \in Seq(Conn) /\ Len(todo) \in Nat /\ Len(baseQueue) \in Nat
    BY <1>1 DEF LifeInv, ServerInv, ServerTypeOK
  <2>2. \A c \in Conn : Fate(c) /\ conn[c].state \in State
    BY <1>1, FieldTypes DEF LifeInv, ServerInv, RecordOK
  <2>3. PICK closing : closing = [i \in 1..Len(todo) |->
                                    IF todo[i][1] = "close_callback" THEN todo[i][2] ELSE <<>>]
    OBVIOUS
  <2>4. PICK removing : removing = baseQueue \o closing
    OBVIOUS
  <2>5. closing \in Seq(Conn \cup {<<>>}) /\ Len(closing) = Len(todo)
    <3>1. \A i \in 1..Len(todo) : todo[i][2] \in Conn
      BY <2>1 DEF Task
    <3> QED
      BY <2>1, <2>3, <3>1
  <2>6. /\ Len(removing) = Len(baseQueue) + Len(todo)
        /\ \A i \in 1..Len(removing) : removing[i] = IF i <= Len(baseQueue) THEN baseQueue[i]
                                                     ELSE closing[i - Len(baseQueue)]
    <3>1. baseQueue \in Seq(Conn \cup {<<>>})
      BY <2>1
    <3>2. /\ Len(baseQueue \o closing) = Len(baseQueue) + Len(closing)
          /\ \A i \in 1..Len(baseQueue) + Len(closing) :
                (baseQueue \o closing)[i] = IF i <= Len(baseQueue) THEN baseQueue[i]
                                             ELSE closing[i - Len(baseQueue)]
      BY <2>5, <3>1, ConcatProperties
    <3> QED
      BY <2>4, <2>5, <3>2
  <2>7. ASSUME NEW i \in 1..Len(removing), removing[i] # <<>>
        PROVE  \/ i \in 1..Len(baseQueue) /\ removing[i] = baseQueue[i]
               \/ /\ ~(i <= Len(baseQueue)) /\ i - Len(baseQueue) \in 1..Len(todo)
                  /\ todo[i - Len(baseQueue)] = <<"close_callback", removing[i]>>
    <3>1. CASE i <= Len(baseQueue)
      BY <2>1, <2>6, <3>1
    <3>2. CASE ~(i <= Len(baseQueue))
      <4>1. i - Len(baseQueue) \in 1..Len(todo) /\ removing[i] = closing[i - Len(baseQueue)]
        BY <2>1, <2>6, <3>2
      <4>2. PICK k \in 1..Len(todo) : k = i - Len(baseQueue)
        BY <4>1
      <4>3. todo[k][1] = "close_callback" /\ removing[i] = todo[k][2]
        BY <2>3, <2>7, <4>1, <4>2
      <4>4. todo[k] \in Task
        BY <2>1
      <4>5. todo[k] = <<"close_callback", removing[i]>>
        BY <4>3, <4>4 DEF Task
      <4> QED
        BY <3>2, <4>1, <4>2, <4>5
    <3> QED
      BY <3>1, <3>2
  <2>8. ASSUME NEW i \in 1..Len(removing), removing[i] # <<>>
        PROVE  /\ removing[i] \in Conn /\ removing[i] \in connections
               /\ \A j \in 1..Len(removing) \ {i} : removing[j] # removing[i]
    <3>1. PICK c : c = removing[i]
      OBVIOUS
    <3>2. c \in Conn /\ (c \in Entries(baseQueue) \/ <<"close_callback", c>> \in Entries(todo))
      <4>1. CASE i \in 1..Len(baseQueue) /\ removing[i] = baseQueue[i]
        BY <2>1, <3>1, <4>1 DEF Entries
      <4>2. CASE /\ ~(i <= Len(baseQueue)) /\ i - Len(baseQueue) \in 1..Len(todo)
                 /\ todo[i - Len(baseQueue)] = <<"close_callback", removing[i]>>
        <5>1. <<"close_callback", c>> \in Entries(todo)
          BY <3>1, <4>2 DEF Entries
        <5>2. <<"close_callback", c>> \in Task
          BY <2>1, <5>1, EntriesOf
        <5> QED
          BY <5>1, <5>2 DEF Task
      <4> QED
        BY <2>7, <2>8, <4>1, <4>2
    <3>3. Leaving(c) /\ <<"close_callback", c>> \in Life(c)
      BY <3>2 DEF Leaving, Tasks, Life, LifeStep
    <3>4. Fate(c) /\ conn[c].state \in State
      BY <2>2, <3>2
    <3>5. ~Open(conn[c])
      BY <3>3, <3>4 DEF Fate, Grown, Leaving, Alone
    <3>6. conn[c].state # "Connecting"
      BY <3>3, <3>4 DEF Fate, Young, Leaving, Step
    <3>7. c \in connections
      BY <3>3, <3>4, <3>5, <3>6 DEF Fate, Old, Open, State
    <3>8. ASSUME NEW j \in 1..Len(removing), removing[j] = c PROVE j = i
      <4>1. c # <<>>
        BY <2>8, <3>1
      <4>2. \/ i \in 1..Len(baseQueue) /\ c = baseQueue[i]
            \/ /\ ~(i <= Len(baseQueue)) /\ i - Len(baseQueue) \in 1..Len(todo)
               /\ todo[i - Len(baseQueue)] = <<"close_callback", c>>
        BY <2>7, <2>8, <3>1
      <4>3. \/ j \in 1..Len(baseQueue) /\ c = baseQueue[j]
            \/ /\ ~(j <= Len(baseQueue)) /\ j - Len(baseQueue) \in 1..Len(todo)
               /\ todo[j - Len(baseQueue)] = <<"close_callback", c>>
        BY <2>7, <3>8, <4>1
      <4>4. AtMostOne(baseQueue, {c}) /\ AtMostOne(todo, Life(c)) /\ (c \in Entries(baseQueue) => Alone(c))
        BY <3>4 DEF Fate, OneLife, OnceIn
      <4>5. \A k \in 1..Len(todo) : todo[k] = <<"close_callback", c>> =>
              todo[k] \in Life(c) /\ ~Alone(c)
        BY <3>3 DEF Alone, Tasks, Entries
      <4>6. \A k \in 1..Len(baseQueue) : baseQueue[k] = c => Alone(c)
        BY <4>4 DEF Entries
      <4>7. CASE i \in 1..Len(baseQueue) /\ c = baseQueue[i]
        BY <4>3, <4>4, <4>5, <4>6, <4>7 DEF AtMostOne
      <4>8. CASE /\ ~(i <= Len(baseQueue)) /\ i - Len(baseQueue) \in 1..Len(todo)
                 /\ todo[i - Len(baseQueue)] = <<"close_callback", c>>
        <5>1. /\ j - Len(baseQueue) \in 1..Len(todo)
              /\ todo[j - Len(baseQueue)] = <<"close_callback", c>>
          BY <4>3, <4>5, <4>6, <4>8
        <5>2. j - Len(baseQueue) = i - Len(baseQueue)
          BY <4>4, <4>5, <4>8, <5>1 DEF AtMostOne
        <5> QED
          BY <2>1, <5>2
      <4> QED
        BY <4>2, <4>7, <4>8
    <3> QED
      BY <3>1, <3>2, <3>7, <3>8
  <2> QED
    BY <2>3, <2>4, <2>8 DEF RemovalFindsConnection
<1> QED
  BY <1>1, LifeInvariance, PTL

(***************************************************************************)
(* shutdown() with bytes in the output buffer.  A channel that is watched  *)
(* for writing has bytes to write, so handle_write() comes and carries the *)
(* shutdown out; and what is Disconnecting for another reason is on its    *)
(* way to be closed.                                                       *)
(***************************************************************************)
Watched(r) == Open(r) /\ "out" \in r.events => r.out > 0
Settled(r) == r.state = "Disconnecting" /\ r.out = 0 /\ ~r.delayed => r.fin

ForceClose(c) == <<"force_close_in_loop", c>>

FlushInv ==
  /\ phase = "poll" => todo = <<>>
  /\ phase # "drain" => batch = <<>>
  /\ \A c \in Conn : Watched(conn[c]) /\ (Settled(conn[c]) \/ ForceClose(c) \in Tasks)

\* The record s comes after r.
Settles(r, s) == Watched(s) /\ (Settled(r) => Settled(s))

LEMMA ClosedSettles ==
  ASSUME NEW r, NEW s, ~Open(s)
  PROVE  Settles(r, s) /\ Settled(s)
BY DEF Settles, Watched, Settled, Open

LEMMA OutputSettles ==
  ASSUME NEW r \in Record, Watched(r)
  PROVE  /\ \A n : Settles(r, send_in_loop(r, n).r)
         /\ \A n \in Int : n <= r.out => Settles(r, handle_write(r, n).r)
         /\ r.state = "Connected" =>
              Settles(r, shutdown_in_loop([r EXCEPT !.state = "Disconnecting"]).r)
<1> USE DEF Done, Result, Settles, Watched, Settled, Open, Record
<1>1. ASSUME NEW n PROVE Settles(r, send_in_loop(r, n).r)
  BY DEF send_in_loop, update
<1>2. ASSUME NEW n \in Int, n <= r.out PROVE Settles(r, handle_write(r, n).r)
  BY <1>2 DEF handle_write, shutdown_in_loop, update
<1>3. ASSUME r.state = "Connected"
      PROVE  Settles(r, shutdown_in_loop([r EXCEPT !.state = "Disconnecting"]).r)
  BY <1>3 DEF shutdown_in_loop
<1> HIDE DEF Settles
<1> QED
  BY <1>1, <1>2, <1>3, Zenon

LEMMA InputSettles ==
  ASSUME NEW r \in Record, Watched(r)
  PROVE  /\ Settles(r, r) /\ Settles(r, handle_error(r).r) /\ Settles(r, [r EXCEPT !.inbox = 0])
         /\ Settles(r, remove(r).r)
         /\ Settles(r, start_read_in_loop(r).r) /\ Settles(r, stop_read_in_loop(r).r)
         /\ r.events = {} => Settles(r, connect_established(r).r)
<1> USE DEF Done, Result, Settles, Watched, Settled, Open, Record
<1>1. Settles(r, r)
  OBVIOUS
<1>2. Settles(r, handle_error(r).r) /\ Settles(r, [r EXCEPT !.inbox = 0]) /\ Settles(r, remove(r).r)
  BY DEF handle_error, remove
<1>3. Settles(r, start_read_in_loop(r).r)
  BY DEF start_read_in_loop, update
<1>4. Settles(r, stop_read_in_loop(r).r)
  BY DEF stop_read_in_loop, update
<1>5. r.events = {} => Settles(r, connect_established(r).r)
  BY DEF connect_established, update
<1> HIDE DEF Settles
<1> QED
  BY <1>1, <1>2, <1>3, <1>4, <1>5, Zenon

\* What a step does, and that force_close_in_loop() leaves nothing to settle.
LEMMA HandlerSettles ==
  ASSUME NEW r, RecordOK(r), Watched(r),
         NEW step \in Step \ {"user", "close_callback", "shutdown_in_loop"},
         NEW n \in write(r, IF step = "handle_write" THEN r.out ELSE 1),
         step = "connect_established" => r.state = "Connecting",
         NEW res, res = Perform(step, r, n)
  PROVE  Settles(r, res.r) /\ (step = "force_close_in_loop" => Settled(res.r))
<1>1. r \in Record /\ r.out \in Nat
  BY FieldTypes DEF RecordOK
<1>2. Settles(r, handle_close(r).r) /\ Settled(handle_close(r).r)
  BY <1>1, CloseEffect, ClosedSettles DEF Open
<1>3. CASE step = "connect_established"
  <2>1. r.events = {}
    BY <1>3 DEF RecordOK
  <2> QED
    BY <1>1, <1>3, <2>1, InputSettles DEF Perform
<1>4. CASE step = "handle_close"
  BY <1>2, <1>4 DEF Perform
<1>5. CASE step = "handle_error"
  BY <1>1, <1>5, InputSettles DEF Perform
<1>6. CASE step = "force_close_in_loop"
  <2>1. res = force_close_in_loop(r)
    BY <1>6 DEF Perform
  <2>2. CASE Open(r)
    BY <1>2, <2>1, <2>2 DEF force_close_in_loop
  <2>3. CASE ~Open(r)
    BY <2>1, <2>3, ClosedSettles DEF force_close_in_loop, Done, Result
  <2> QED
    BY <2>2, <2>3
<1>7. CASE step = "handle_read"
  <2>1. res = handle_read(r)
    BY <1>7 DEF Perform
  <2>2. res.r \in {[r EXCEPT !.inbox = 0], handle_error(r).r, handle_close(r).r}
    BY <2>1 DEF handle_read, Result
  <2> QED
    BY <1>1, <1>2, <1>7, <2>2, InputSettles
<1>8. CASE step = "connect_destroyed"
  <2>1. res.r = connect_destroyed(r).r
    BY <1>8 DEF Perform
  <2>2. CASE r.state = "Connected"
    <3>1. ~Open(res.r)
      BY <1>1, <2>1, <2>2, DestroyEffect DEF Open
    <3> QED
      BY <1>8, <3>1, ClosedSettles
  <2>3. CASE r.state # "Connected"
    <3>1. res.r = r
      BY <1>1, <2>1, <2>3, DestroyEffect
    <3> QED
      BY <1>1, <1>8, <3>1, InputSettles
  <2> QED
    BY <2>2, <2>3
<1>9. CASE step = "remove"
  BY <1>1, <1>9, InputSettles DEF Perform
<1>10. CASE step \in {"write_complete", "high_water_mark"}
  BY <1>1, <1>10, InputSettles DEF Perform, Result
<1>11. CASE step = "send_in_loop"
  BY <1>1, <1>11, OutputSettles DEF Perform
<1>12. CASE step = "handle_write"
  <2>1. n \in Int /\ n <= r.out
    BY <1>1, <1>12 DEF write, Broken
  <2> QED
    BY <1>1, <1>12, <2>1, OutputSettles DEF Perform
<1> QED
  BY <1>3, <1>4, <1>5, <1>6, <1>7, <1>8, <1>9, <1>10, <1>11, <1>12
  DEF Step, SharedFunctor, RawFunctor

\* A public call leaves nothing to settle that it does not queue.
LEMMA CallSettles ==
  ASSUME NEW r, RecordOK(r), Watched(r), NEW op \in UserOp, NEW n, NEW res, res = Call(op, r, n)
  PROVE  Watched(res.r) /\ (Settled(r) => Settled(res.r) \/ res.q = <<"force_close_in_loop">>)
<1>1. r \in Record
  BY DEF RecordOK
<1>2. Settles(r, r) /\ Done(r).r = r
  BY <1>1, InputSettles DEF Done, Result
<1>3. CASE op = "send"
  <2>1. res = IF r.state = "Connected" THEN send_in_loop(r, n) ELSE Done(r)
    BY <1>3 DEF Call
  <2> QED
    BY <1>1, <1>2, <2>1, OutputSettles DEF Settles
<1>4. CASE op = "shutdown"
  <2>1. res = IF r.state = "Connected" THEN shutdown_in_loop([r EXCEPT !.state = "Disconnecting"])
              ELSE Done(r)
    BY <1>4 DEF Call
  <2> QED
    BY <1>1, <1>2, <2>1, OutputSettles DEF Settles
<1>5. CASE op = "force_close"
  <2>1. res = force_close(r)
    BY <1>5 DEF Call
  <2>2. CASE Open(r)
    BY <1>1, <2>1, <2>2 DEF force_close, Result, Watched, Open, Record
  <2>3. CASE ~Open(r)
    BY <1>2, <2>1, <2>3 DEF force_close, Settles
  <2> QED
    BY <2>2, <2>3
<1>6. CASE op = "force_close_with_delay"
  <2>1. res.r = IF Open(r) THEN [r EXCEPT !.state = "Disconnecting", !.delayed = TRUE] ELSE r
    BY <1>6 DEF Call, Done, Result
  <2>2. CASE Open(r)
    BY <1>1, <2>1, <2>2 DEF Watched, Settled, Open, Record
  <2>3. CASE ~Open(r)
    BY <1>2, <2>1, <2>3 DEF Settles
  <2> QED
    BY <2>2, <2>3
<1>7. CASE op \in {"start_read", "stop_read"}
  <2>1. res.r \in {start_read_in_loop(r).r, stop_read_in_loop(r).r}
    BY <1>7 DEF Call
  <2> QED
    BY <1>1, <2>1, InputSettles DEF Settles
<1> QED
  BY <1>3, <1>4, <1>5, <1>6, <1>7 DEF UserOp

\* A step that changes no record and drops no forced close.
LEMMA FlushFrame ==
  ASSUME FlushInv, conn' = conn, \A c \in Conn : ForceClose(c) \in Tasks => ForceClose(c) \in Tasks',
         phase' = "poll" => todo' = <<>>, phase' # "drain" => batch' = <<>>
  PROVE  FlushInv'
BY DEF FlushInv, ForceClose

\* A handler's result takes effect.
LEMMA FlushApply ==
  ASSUME ServerInv, FlushInv, phase # "poll", NEW c \in Conn, NEW res, res.q \in Seq(Functor),
         res.todo \in Seq(Inner), NEW rest \in Seq(Task), Apply(c, res, rest),
         \A d \in Conn \ {c} : ForceClose(d) \in Entries(todo) => ForceClose(d) \in Entries(rest),
         Watched(res.r),
         \/ Settled(res.r)
         \/ ForceClose(c) \in Entries(rest) \cup Entries(batch) \cup Entries(pending)
         \/ res.q = <<"force_close_in_loop">>
  PROVE  FlushInv'
<1>1. PICK t : t = Tagged(c, res.todo)
  OBVIOUS
<1>2. PICK q : q = Tagged(c, res.q)
  OBVIOUS
<1>3. Applied(c, res, rest, t, q)
  BY <1>1, <1>2, ApplyParts
<1>4. /\ phase' = phase /\ batch' = batch
      /\ Tasks' = Entries(t) \cup Entries(rest) \cup Entries(batch) \cup Entries(pending) \cup Entries(q)
      /\ \A d \in Conn : conn'[d] = IF d = c THEN res.r ELSE conn[d]
  BY <1>3 DEF Applied
<1>5. ASSUME res.q = <<"force_close_in_loop">> PROVE ForceClose(c) \in Entries(q)
  <2>1. q = [i \in 1..1 |-> <<"force_close_in_loop", c>>]
    BY <1>2, <1>5 DEF Tagged
  <2> QED
    BY <2>1 DEF Entries, ForceClose
<1>6. Watched(conn'[c]) /\ (Settled(conn'[c]) \/ ForceClose(c) \in Tasks')
  BY <1>4, <1>5
<1>7. ASSUME NEW d \in Conn \ {c}
      PROVE  Watched(conn'[d]) /\ (Settled(conn'[d]) \/ ForceClose(d) \in Tasks')
  BY <1>4 DEF FlushInv, Tasks
<1> QED
  BY <1>4, <1>6, <1>7 DEF FlushInv, ForceClose

\* The steps of the I/O loop.
LEMMA FlushLoop ==
  ASSUME ServerInv, FlushInv, LoopStep
  PROVE  FlushInv'
<1>1. /\ todo \in Seq(Task) /\ batch \in Seq(Task) /\ pending \in Seq(Task)
      /\ \A c \in Conn : RecordOK(conn[c]) /\ Watched(conn[c])
  BY DEF ServerInv, ServerTypeOK, FlushInv
<1>2. Entries(<<>>) = {}
  BY DEF Entries
<1>3. CASE poll(Ready)
  BY <1>3, FlushFrame DEF poll, Tasks, Entries, FlushInv
<1>4. CASE \E c \in Conn : dispatch(c, handle_event(revents[c]))
  <2>1. /\ conn' = conn /\ phase' = phase /\ phase = "dispatch" /\ todo = <<>>
        /\ batch' = batch /\ pending' = pending
    BY <1>4 DEF dispatch, BetweenCallbacks
  <2>2. Tasks \subseteq Tasks'
    BY <1>2, <2>1 DEF Tasks, Entries
  <2> QED
    BY <2>1, <2>2, FlushFrame DEF FlushInv
<1>5. CASE swap
  <2>1. /\ conn' = conn /\ phase' = "drain" /\ phase = "dispatch" /\ batch' = pending
        /\ pending' = <<>> /\ todo' = todo
    BY <1>5 DEF swap, BetweenCallbacks
  <2>2. batch = <<>>
    BY <2>1 DEF FlushInv
  <2>3. Tasks = Tasks'
    BY <1>2, <2>1, <2>2 DEF Tasks
  <2> QED
    BY <2>1, <2>3, FlushFrame
<1>6. CASE run_functor
  <2>1. /\ conn' = conn /\ phase' = phase /\ phase = "drain" /\ todo' = <<Head(batch)>>
        /\ pending' = pending /\ batch' = Tail(batch) /\ batch # <<>> /\ todo = <<>>
    BY <1>6 DEF run_functor
  <2>2. Entries(batch) = {Head(batch)} \cup Entries(Tail(batch))
    BY <1>1, <2>1, EntriesOf
  <2>3. Entries(<<Head(batch)>>) = {Head(batch)}
    BY DEF Entries
  <2>4. Tasks = Tasks'
    BY <1>2, <2>1, <2>2, <2>3 DEF Tasks
  <2> QED
    BY <2>1, <2>4, FlushFrame
<1>7. CASE drained
  BY <1>7, FlushFrame DEF drained, Tasks, Entries, FlushInv
<1>8. CASE user_return
  <2>1. /\ conn' = conn /\ phase' = phase /\ batch' = batch /\ pending' = pending
        /\ todo # <<>> /\ todo' = Tail(todo) /\ Head(todo)[1] = "user"
    BY <1>8 DEF user_return, InUserCode
  <2>2. Entries(todo) = {Head(todo)} \cup Entries(todo')
    BY <1>1, <2>1, EntriesOf
  <2>3. \A c \in Conn : ForceClose(c) # Head(todo)
    BY <2>1 DEF ForceClose
  <2>4. \A c \in Conn : ForceClose(c) \in Tasks => ForceClose(c) \in Tasks'
    BY <2>1, <2>2, <2>3 DEF Tasks, Entries
  <2>5. phase # "poll"
    BY <2>1 DEF FlushInv
  <2> QED
    BY <2>1, <2>4, <2>5, FlushFrame DEF FlushInv
<1>9. CASE perform
  <2>1. todo # <<>> /\ phase # "poll"
    BY <1>9 DEF perform, FlushInv
  <2>2. PICK step : step = Head(todo)[1]
    OBVIOUS
  <2>3. PICK c : c = Head(todo)[2]
    OBVIOUS
  <2>4. /\ c \in Conn /\ step \in Step /\ Head(todo) = <<step, c>> /\ <<step, c>> \in Tasks
        /\ Tail(todo) \in Seq(Task)
    BY <2>1, <2>2, <2>3, HeadTask
  <2>5. /\ step \in Step \ {"user", "close_callback"}
        /\ \E n \in write(conn[c], IF step = "handle_write" THEN conn[c].out ELSE 1) :
             Apply(c, Perform(step, conn[c], n), Tail(todo))
    BY <1>9, <2>2, <2>3, Zenon DEF perform
  <2>6. PICK n \in write(conn[c], IF step = "handle_write" THEN conn[c].out ELSE 1) :
             Apply(c, Perform(step, conn[c], n), Tail(todo))
    BY <2>5
  <2>7. /\ step # "shutdown_in_loop"
        /\ conn[c].state = "Connecting" => step \in {"connect_established", "connect_destroyed", "remove"}
        /\ step = "connect_established" => conn[c].state = "Connecting"
    BY <2>4, TaskKnown
  <2>8. PICK res : res = Perform(step, conn[c], n)
    OBVIOUS
  <2>9. res.q \in Seq(Functor) /\ res.todo \in Seq(Inner)
    BY <1>1, <2>4, <2>5, <2>6, <2>7, <2>8, HandlerOK DEF ResultOK
  <2>10. Settles(conn[c], res.r) /\ (step = "force_close_in_loop" => Settled(res.r))
    BY <1>1, <2>4, <2>5, <2>6, <2>7, <2>8, HandlerSettles
  <2>11. Entries(todo) = {<<step, c>>} \cup Entries(Tail(todo))
    BY <1>1, <2>1, <2>4, EntriesOf
  <2>12. \A d \in Conn \ {c} : ForceClose(d) \in Entries(todo) => ForceClose(d) \in Entries(Tail(todo))
    BY <2>11 DEF ForceClose
  <2>13. \/ Settled(res.r)
         \/ ForceClose(c) \in Entries(Tail(todo)) \cup Entries(batch) \cup Entries(pending)
    BY <2>4, <2>10, <2>11 DEF FlushInv, Settles, Tasks, ForceClose
  <2> QED
    BY <2>1, <2>4, <2>6, <2>8, <2>9, <2>10, <2>12, <2>13, FlushApply DEF Settles
<1> QED
  BY <1>3, <1>4, <1>5, <1>6, <1>7, <1>8, <1>9 DEF LoopStep

\* The server: tasks are added, and what it takes from the loop is a close callback.
LEMMA FlushServer ==
  ASSUME ServerInv, FlushInv,
         \/ close_callback \/ remove_connection_in_loop \/ destroy_server
         \/ (\E c \in Conn : accept(c)) \/ foreign_act
  PROVE  FlushInv'
<1>1. /\ todo \in Seq(Task) /\ batch \in Seq(Task) /\ pending \in Seq(Task)
      /\ connections \in SUBSET Conn
  BY DEF ServerInv, ServerTypeOK
<1>2. ASSUME NEW s \in Seq(Task), RunInIoLoop(s), IoIsBase => phase = "dispatch"
      PROVE  FlushInv'
  <2>1. /\ conn' = conn /\ batch' = batch /\ phase' = phase
        /\ \/ todo' = s \o todo /\ pending' = pending /\ phase = "dispatch"
           \/ todo' = todo /\ pending' = pending \o s
    BY <1>2 DEF RunInIoLoop
  <2>2. Entries(s \o todo) = Entries(s) \cup Entries(todo) /\ Entries(pending \o s) = Entries(pending) \cup Entries(s)
    BY <1>1, EntriesOf
  <2>3. Tasks \subseteq Tasks'
    <3>1. CASE todo' = s \o todo /\ pending' = pending
      BY <2>1, <2>2, <3>1 DEF Tasks
    <3>2. CASE todo' = todo /\ pending' = pending \o s
      BY <2>1, <2>2, <3>2 DEF Tasks
    <3> QED
      BY <2>1, <3>1, <3>2
  <2> QED
    BY <2>1, <2>3, FlushFrame DEF FlushInv
<1>3. ASSUME NEW e \in Task, pending' \in {pending, Append(pending, e)}, conn' = conn, batch' = batch, phase' = phase,
             \/ todo' = todo
             \/ todo # <<>> /\ todo' = Tail(todo) /\ Head(todo)[1] = "close_callback"
      PROVE  FlushInv'
  <2>1. Entries(pending) \subseteq Entries(pending')
    <3>1. Entries(Append(pending, e)) = Entries(pending) \cup {e}
      BY <1>1, EntriesOf
    <3> QED
      BY <1>3, <3>1
  <2>2. \A c \in Conn : ForceClose(c) \in Entries(todo) => ForceClose(c) \in Entries(todo')
    <3>1. CASE todo' = todo
      BY <3>1
    <3>2. CASE todo # <<>> /\ todo' = Tail(todo) /\ Head(todo)[1] = "close_callback"
      <4>1. Entries(todo) = {Head(todo)} \cup Entries(todo')
        BY <1>1, <3>2, EntriesOf
      <4>2. \A c \in Conn : ForceClose(c) # Head(todo)
        BY <3>2 DEF ForceClose
      <4> QED
        BY <4>1, <4>2
    <3> QED
      BY <1>3, <3>1, <3>2
  <2>3. \A c \in Conn : ForceClose(c) \in Tasks => ForceClose(c) \in Tasks'
    BY <1>3, <2>1, <2>2 DEF Tasks, Entries
  <2>4. phase = "poll" => todo' = todo
    BY <1>3 DEF FlushInv
  <2> QED
    BY <1>3, <2>3, <2>4, FlushFrame DEF FlushInv
<1>4. CASE close_callback
  <2>1. PICK c : c = Head(todo)[2]
    OBVIOUS
  <2>2. /\ todo # <<>> /\ Head(todo)[1] = "close_callback" /\ todo' = Tail(todo)
        /\ conn' = conn /\ batch' = batch /\ phase' = phase
        /\ pending' \in {pending, Append(pending, <<"connect_destroyed", c>>)}
    BY <1>4, <2>1 DEF close_callback
  <2>3. <<"connect_destroyed", c>> \in Task
    BY <2>1, <2>2, HeadTask DEF Task, Step, SharedFunctor
  <2> QED
    BY <1>3, <2>2, <2>3
<1>5. CASE remove_connection_in_loop
  <2>1. PICK c : c = Head(baseQueue)
    OBVIOUS
  <2>2. /\ baseQueue # <<>> /\ todo' = todo /\ conn' = conn /\ batch' = batch /\ phase' = phase
        /\ pending' = Append(pending, <<"connect_destroyed", c>>)
    BY <1>5, <2>1 DEF remove_connection_in_loop
  <2>3. c \in Conn
    BY <2>1, <2>2 DEF ServerInv, ServerTypeOK
  <2>4. <<"connect_destroyed", c>> \in Task
    BY <2>3 DEF Task, Step, SharedFunctor
  <2> QED
    BY <1>3, <2>2, <2>4
<1>6. CASE destroy_server
  <2>1. PICK order \in [1..Cardinality(connections) -> connections] :
          RunInIoLoop([i \in DOMAIN order |-> <<"connect_destroyed", order[i]>>])
    BY <1>6 DEF destroy_server
  <2>2. Cardinality(connections) \in Nat
    BY <1>1, ConnAssumption, FS_Subset, FS_CardinalityType
  <2>3. PICK s : s = [i \in DOMAIN order |-> <<"connect_destroyed", order[i]>>]
    OBVIOUS
  <2>4. \A i \in 1..Cardinality(connections) : <<"connect_destroyed", order[i]>> \in Task
    BY <1>1 DEF Task, Step, SharedFunctor
  <2>5. s \in Seq(Task) /\ RunInIoLoop(s)
    BY <2>1, <2>2, <2>3, <2>4
  <2>6. IoIsBase => phase = "dispatch"
    BY <1>6 DEF destroy_server, BaseRuns, BetweenCallbacks
  <2> QED
    BY <1>2, <2>5, <2>6
<1>7. ASSUME NEW c \in Conn, accept(c) PROVE FlushInv'
  <2>1. <<<<"connect_established", c>>>> \in Seq(Task)
    BY DEF Task, Step, SharedFunctor
  <2> QED
    BY <1>2, <1>7, <2>1 DEF accept, new_connection, BaseRuns, BetweenCallbacks
<1>8. CASE foreign_act
  <2>1. foreign \in {"send"} \X Conn /\ foreign # Idle
    BY <1>8 DEF foreign_act, ServerInv, ServerTypeOK
  <2>2. PICK d \in Conn : d = foreign[2]
    BY <2>1
  <2>3. <<"send_in_loop", d>> \in Task
    BY DEF Task, Step, RawFunctor
  <2>4. /\ pending' = Append(pending, <<"send_in_loop", d>>) /\ conn' = conn
        /\ todo' = todo /\ batch' = batch /\ phase' = phase
    BY <1>8, <2>1, <2>2 DEF foreign_act, InLoop
  <2> QED
    BY <1>3, <2>3, <2>4
<1> QED
  BY <1>4, <1>5, <1>6, <1>7, <1>8

\* Calls by user code, the timer of force_close_with_delay(), the peers.
LEMMA FlushOthers ==
  ASSUME ServerInv, FlushInv, \/ \E op \in UserOps : user_call(op)
                              \/ \E c \in Conn : delay_expired(c) \/ peer_acts(c)
  PROVE  FlushInv'
<1>1. \A d \in Conn : RecordOK(conn[d]) /\ Watched(conn[d])
  BY DEF ServerInv, FlushInv
<1>2. todo \in Seq(Task)
  BY DEF ServerInv, ServerTypeOK
<1>3. ASSUME NEW op \in UserOps, user_call(op) PROVE FlushInv'
  <2>1. PICK c : c = Head(todo)[2]
    OBVIOUS
  <2>2. todo # <<>> /\ Head(todo)[1] = "user" /\ phase # "poll"
    BY <1>3 DEF user_call, InUserCode, FlushInv
  <2>3. c \in Conn /\ <<"user", c>> \in Tasks
    BY <2>1, <2>2, HeadTask
  <2>4. conn[c].state # "Connecting"
    BY <2>3, TaskKnown DEF Step
  <2>5. PICK n : Apply(c, Call(op, conn[c], n), todo)
    BY <1>3, <2>1 DEF user_call
  <2>6. PICK res : res = Call(op, conn[c], n)
    OBVIOUS
  <2>7. res.q \in Seq(Functor) /\ res.todo \in Seq(Inner)
    BY <1>1, <2>3, <2>4, <2>6, CallOK, OpsAssumption DEF ResultOK
  <2>8. Watched(res.r) /\ (Settled(conn[c]) => Settled(res.r) \/ res.q = <<"force_close_in_loop">>)
    BY <1>1, <2>3, <2>6, CallSettles, OpsAssumption
  <2>9. \/ Settled(res.r) \/ res.q = <<"force_close_in_loop">>
        \/ ForceClose(c) \in Entries(todo) \cup Entries(batch) \cup Entries(pending)
    BY <2>3, <2>8 DEF FlushInv, Tasks
  <2> QED
    BY <1>2, <2>2, <2>3, <2>5, <2>6, <2>7, <2>8, <2>9, FlushApply
<1>4. ASSUME NEW c \in Conn, delay_expired(c) PROVE FlushInv'
  <2>1. PICK r : r = [conn[c] EXCEPT !.delayed = FALSE]
    OBVIOUS
  <2>2. conn[c].delayed /\ Apply(c, force_close(r), <<>>) /\ todo = <<>> /\ phase # "poll"
    BY <1>4, <2>1 DEF delay_expired, BetweenCallbacks
  <2>3. conn[c] \in Record /\ RecordOK(conn[c]) /\ conn[c].state # "Connecting"
    BY <1>1, <2>2 DEF RecordOK
  <2>4. Kept(conn[c], r, {"delayed"})
    BY <2>1, <2>3, Assignments
  <2>5. RecordOK(r) /\ r.state # "Connecting" /\ Watched(r)
    BY <1>1, <2>3, <2>4 DEF RecordOK, Kept, Field, Open, Watched
  <2>6. PICK res : res = force_close(r)
    OBVIOUS
  <2>7. res = Call("force_close", r, 0) /\ "force_close" \in UserOp
    BY <2>6 DEF Call, UserOp
  <2>8. res.q \in Seq(Functor) /\ res.todo \in Seq(Inner)
    BY <2>5, <2>7, CallOK DEF ResultOK
  <2>9. Watched(res.r)
    BY <2>5, <2>7, CallSettles
  <2>10. Settled(res.r) \/ res.q = <<"force_close_in_loop">>
    <3>1. CASE Open(r)
      BY <2>6, <3>1 DEF force_close, Result
    <3>2. CASE ~Open(r)
      <4>1. res.r = r
        BY <2>6, <3>2 DEF force_close, Done, Result
      <4> QED
        BY <3>2, <4>1, ClosedSettles
    <3> QED
      BY <3>1, <3>2
  <2>11. <<>> \in Seq(Task) /\ Entries(todo) = {}
    BY <2>2 DEF Entries
  <2> QED
    BY <2>2, <2>6, <2>8, <2>9, <2>10, <2>11, FlushApply
<1>5. ASSUME NEW c \in Conn, peer_acts(c) PROVE FlushInv'
  <2>1. conn \in [Conn -> Record] /\ conn[c] \in Record
    BY DEF ServerInv, ServerTypeOK
  <2>2. /\ todo' = todo /\ batch' = batch /\ pending' = pending /\ phase' = phase
        /\ conn' = [conn EXCEPT ![c] = conn'[c]] /\ Kept(conn[c], conn'[c], {})
    BY <1>5, <2>1, PeerEffect DEF peer_acts, peer_sends, peer_closes, peer_resets, turnVars
  <2>3. conn'[c].fin = conn[c].fin
    BY <1>5, <2>1 DEF peer_acts, peer_sends, peer_closes, peer_resets, Record
  <2>4. \A d \in Conn : Watched(conn'[d]) /\ (Settled(conn[d]) => Settled(conn'[d]))
    <3>1. Watched(conn'[c]) /\ (Settled(conn[c]) => Settled(conn'[c]))
      BY <1>1, <2>2, <2>3 DEF Kept, Field, Watched, Settled, Open
    <3>2. \A d \in Conn \ {c} : conn'[d] = conn[d]
      BY <2>1, <2>2
    <3> QED
      BY <1>1, <3>1, <3>2
  <2>5. Tasks' = Tasks
    BY <2>2 DEF Tasks, Entries
  <2> QED
    BY <2>2, <2>4, <2>5 DEF FlushInv, ForceClose
<1> QED
  BY <1>3, <1>4, <1>5

\* A shutdown() that had to wait for the output buffer is carried out when the
\* buffer is empty: TcpConnection's send_in_loop(), handle_write() and
\* shutdown_in_loop() on either poller, whatever server, users and peers do, as
\* long as other threads only send.
THEOREM ShutdownCarriedOut ==
  ASSUME OthersSend
  PROVE  Spec => []ShutdownNotForgotten
<1>1. Init => FlushInv
  BY DEF Init, IoInit, FlushInv, New, Watched, Settled, Open
<1>2. ServerInv /\ FlushInv /\ [Next]_vars => FlushInv'
  <2> SUFFICES ASSUME ServerInv, FlushInv, [Next]_vars PROVE FlushInv'
    OBVIOUS
  <2>1. CASE UNCHANGED ioVars
    BY <2>1, FlushFrame DEF ioVars, turnVars, Tasks, Entries, FlushInv
  <2>2. CASE IoStep
    BY <2>2, FlushLoop, FlushServer DEF IoStep
  <2>3. CASE \/ start \/ user_share \/ UNCHANGED vars
             \/ \E c \in Conn : foreign_release(c) \/ \E op \in ForeignOps : foreign_test(op, c)
    BY <2>1, <2>3 DEF start, user_share, foreign_release, foreign_test, vars
  <2> QED
    BY <2>2, <2>3, FlushServer, FlushOthers DEF Next
<1>3. FlushInv => ShutdownNotForgotten
  <2> SUFFICES ASSUME FlushInv, NEW c \in Conn, phase = "poll", conn[c].state = "Disconnecting",
                      conn[c].out = 0, ~conn[c].delayed
               PROVE  conn[c].fin \/ <<"force_close_in_loop", c>> \in Queued
    BY DEF ShutdownNotForgotten
  <2>1. conn[c].fin \/ <<"force_close_in_loop", c>> \in Tasks
    BY DEF FlushInv, Settled, ForceClose
  <2>2. Tasks = Queued
    BY DEF FlushInv, Tasks, Queued, Entries
  <2> QED
    BY <2>1, <2>2
<1> QED
  BY <1>1, <1>2, <1>3, ServerInvariance, PTL DEF Spec
==============================================================================
