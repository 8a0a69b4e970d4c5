---------------------------- MODULE ClientProofs ----------------------------
(***************************************************************************)
(* Proofs about Client, for either poller, with or without retry, and any  *)
(* number of calls and faults: the asserts hold and no socket is lost.     *)
(* Spec is that of a client which is destroyed as destroy_client demands:  *)
(* on its loop's thread, outside timer callbacks, with a connection that   *)
(* nothing else points to.  AwaySpec breaks the first demand, and an       *)
(* assert with it.                                                         *)
(***************************************************************************)
EXTENDS Client, IoLoopProofs, FiniteSetTheorems

(***************************************************************************)
(* Tasks are what the loop's thread is in the middle of, the batch it runs *)
(* and what is pending.  Those of the connector are bound to 0, the others *)
(* to a socket.                                                            *)
(***************************************************************************)
Task == (Step \cup ConnectorStep \cup {"new_connection"}) \X (Conn \cup {0})
Tasks == Queued \cup Entries(todo)

Start == <<"start_in_loop", 0>>
Stop == <<"stop_in_loop", 0>>
Reset == <<"reset_channel", 0>>
ErrorEvent == <<"connector_error", 0>>
WriteEvent == <<"connector_write", 0>>

\* What a handler of a connection leaves for later, what closes a connection, and
\* what only a functor does.
Later == {"user", "close_callback", "remove", "handle_close", "handle_error", "handle_read",
          "handle_write"}
Closer == {"handle_close", "handle_read", "close_callback", "force_close_in_loop"}
Closers == Closer \X Conn
Functor == {"connect_destroyed", "force_close_in_loop", "shutdown_in_loop"}

\* The connections that the client has not given away.
Mine == adopted \ rebound

Event == {"in", "out", "hup", "err"}

ConnectorRecord ==
  [want : BOOLEAN, state : {"Disconnected", "Connecting", "Connected"}, channel : Nat,
   watched : Nat, delay : Nat, timers : {0, 1}, made : Nat, closed : [Conn -> Nat],
   gave_up : BOOLEAN, failed : {{}}]

ClientTypeOK ==
  /\ conn \in [Conn -> Record]
  /\ pending \in Seq(Task) /\ batch \in Seq(Task) /\ todo \in Seq(Task)
  /\ phase \in {"poll", "dispatch", "drain"}
  /\ revents \in [Conn -> SUBSET Event]
  /\ connector \in ConnectorRecord
  /\ adopted \subseteq Conn /\ rebound \subseteq adopted
  /\ alive \in BOOLEAN /\ keeper \in BOOLEAN

(***************************************************************************)
(* What the queues and the thread hold, and when.                          *)
(***************************************************************************)
QueueOK(s) == Entries(s) \subseteq {Start, Stop, Reset} \cup (Functor \X adopted)

ThreadOK ==
  Entries(todo) \subseteq
    {Start, Stop, Reset, ErrorEvent, WriteEvent} \cup ({"new_connection"} \X Conn)
      \cup ((Functor \cup Later \cup {"connect_established"}) \X adopted)

Phases ==
  /\ phase = "poll" => todo = <<>>
  /\ phase # "drain" => /\ batch = <<>>
                        /\ Stop \notin Entries(todo) /\ Reset \notin Entries(todo)
                        /\ \A c \in Conn, f \in Functor \cup {"remove"} : <<f, c>> \notin Entries(todo)
  /\ phase # "dispatch" => \A c \in Conn : revents[c] = {}

\* Behind its head the thread has only what handlers left for later; the events of
\* the connector and the handing over of its socket are alone.
Behind ==
  /\ todo # <<>> => Entries(Tail(todo)) \subseteq (Later \X adopted) \cup {WriteEvent}
  /\ ErrorEvent \in Entries(todo) => phase = "dispatch" /\ todo = <<ErrorEvent, WriteEvent>>
  /\ WriteEvent \in Entries(todo) => phase = "dispatch" /\ todo \in {<<ErrorEvent, WriteEvent>>, <<WriteEvent>>}
  /\ \A c \in Conn, f \in {"new_connection", "connect_established"} :
       <<f, c>> \in Entries(todo) => phase = "dispatch" /\ todo = <<<<f, c>>>>
  /\ AtMostOne(todo, Closers)

ShapeInv == QueueOK(pending) /\ QueueOK(batch) /\ ThreadOK /\ Phases /\ Behind

(***************************************************************************)
(* The connector.                                                          *)
(***************************************************************************)
\* One attempt at most is under way or to come.
OneAttempt ==
  /\ connector.state # "Disconnected" => Start \notin Tasks /\ connector.timers = 0
  /\ Start \in Tasks => connector.timers = 0
  /\ OnceIn({Start}, todo, batch, pending)

\* The channel is there until it is reset, and none is made before that.
ChannelOK ==
  /\ connector.channel <= connector.made /\ connector.made <= MaxCalls + MaxFaults
  /\ connector.watched = IF connector.state = "Connecting" THEN connector.channel ELSE 0
  /\ connector.state = "Connecting" =>
       connector.channel # 0 /\ connector.channel \notin adopted /\ Reset \notin Tasks
  /\ connector.state # "Connecting" /\ connector.channel # 0 => Reset \in Tasks
  /\ Start \in Tasks => Reset \notin Tasks

EventsOK ==
  WriteEvent \in Entries(todo) =>
    \/ connector.state = "Connecting" /\ revents[connector.channel] = {}
    \/ connector.state = "Disconnected" /\ todo = <<WriteEvent>>

HandedOK ==
  \A s \in Conn : <<"new_connection", s>> \in Entries(todo) =>
    /\ connector.state = "Connected" /\ connection = 0 /\ alive
    /\ s \notin adopted /\ s <= connector.made /\ revents[s] = {}

ClosesSoon(c) == \E f \in Closer : <<f, c>> \in Entries(todo)

\* The reset queued when a connection came up runs before that can be closed.
ResetInTime ==
  connector.state = "Connected" =>
    /\ phase = "poll" => Reset \notin Tasks
    /\ phase = "drain" => Reset \notin Entries(pending)
    /\ phase = "dispatch" /\ Reset \in Tasks /\ connection # 0 =>
         revents[connection] = {} /\ ~ClosesSoon(connection)

ConnectorInv == OneAttempt /\ ChannelOK /\ EventsOK /\ HandedOK /\ ResetInTime

(***************************************************************************)
(* The connections.                                                        *)
(***************************************************************************)
\* The channel of c leaves the poller before the next poll.
Leaves(c) ==
  \/ ~conn[c].registered
  \/ phase = "dispatch" /\ <<"connect_destroyed", c>> \in Entries(pending)
  \/ phase = "drain" /\ (<<"connect_destroyed", c>> \in Entries(batch) \cup Entries(todo)
                         \/ <<"remove", c>> \in Entries(todo))

CurrentOK == connection # 0 => connection \in Mine /\ connector.state = "Connected" /\ alive

NotAdopted ==
  \A c \in Conn \ adopted : conn[c] = New /\ (revents[c] # {} => c = connector.watched)

OnlyGivenAway == \A c \in adopted : <<"force_close_in_loop", c>> \in Tasks => c \in rebound

NoOutput == \A c \in adopted : conn[c].events \subseteq {"in"}

\* A connection of the client is closed once, during the callbacks of a poll, while
\* it is the current one.  Its state does not tell whether it is closed, since a
\* disconnect() on another thread may set that afterwards: the down callback does.
Fate(c) ==
  /\ conn[c].state = "Connecting" => <<"connect_established", c>> \in Entries(todo)
  /\ <<"connect_established", c>> \in Entries(todo) => conn[c].downs = 0
  /\ (\/ conn[c].downs = 0 \/ ClosesSoon(c) \/ revents[c] # {}
      \/ <<"connect_established", c>> \in Entries(todo)) => connection = c
  /\ ClosesSoon(c) => phase = "dispatch" /\ revents[c] = {}
  /\ <<"close_callback", c>> \in Entries(todo) => conn[c].downs # 0
  /\ revents[c] # {} => conn[c].downs = 0
  /\ \A f \in {"handle_close", "handle_read"} :
       <<f, c>> \in Entries(todo) => conn[c].downs = 0
  /\ conn[c].downs # 0 => <<"close_callback", c>> \in Entries(todo) \/ Leaves(c)

LifeInv == CurrentOK /\ NotAdopted /\ OnlyGivenAway /\ NoOutput /\ \A c \in Mine : Fate(c)

(***************************************************************************)
(* The owners of the connector, and the sockets.                           *)
(***************************************************************************)
OwnInv ==
  ~alive =>
    /\ connection = 0
    /\ connector.want => connector.state = "Connected"
    /\ connector.state = "Connecting" => Stop \in Tasks
    /\ ~keeper => Stop \notin Tasks /\ Reset \notin Tasks /\ Start \notin Queued

Trying(s) == connector.state = "Connecting" /\ connector.channel = s
Handed(s) == <<"new_connection", s>> \in Entries(todo)

SocketInv ==
  /\ \A s \in Conn : s > connector.made => connector.closed[s] = 0 /\ s \notin adopted
  /\ \A s \in 1..connector.made :
       /\ connector.closed[s] = IF Trying(s) \/ Handed(s) \/ s \in adopted THEN 0 ELSE 1
       /\ ~(Trying(s) /\ Handed(s)) /\ ~(Trying(s) /\ s \in adopted) /\ ~(Handed(s) /\ s \in adopted)

ClientInv == ClientTypeOK /\ ShapeInv /\ ConnectorInv /\ LifeInv /\ OwnInv /\ SocketInv

(***************************************************************************)
(* Tasks.                                                                  *)
(***************************************************************************)
LEMMA Invariants ==
  ASSUME ClientInv
  PROVE  /\ ClientTypeOK /\ QueueOK(pending) /\ QueueOK(batch) /\ ThreadOK /\ Phases /\ Behind
         /\ OneAttempt /\ ChannelOK /\ EventsOK /\ HandedOK /\ ResetInTime
         /\ CurrentOK /\ NotAdopted /\ OnlyGivenAway /\ NoOutput /\ \A c \in Mine : Fate(c)
         /\ OwnInv /\ SocketInv
BY DEF ClientInv, ShapeInv, ConnectorInv, LifeInv

LEMMA TasksOf ==
  ASSUME NEW s \in Seq(Task), NEW t \in Seq(Task)
  PROVE  /\ Entries(<<>>) = {}
         /\ Entries(s) \subseteq Task
         /\ s \o t \in Seq(Task) /\ Entries(s \o t) = Entries(s) \cup Entries(t)
         /\ \A e \in Task : Append(s, e) \in Seq(Task) /\ Entries(Append(s, e)) = Entries(s) \cup {e}
         /\ s # <<>> => /\ Head(s) \in Task /\ Tail(s) \in Seq(Task)
                        /\ Entries(s) = {Head(s)} \cup Entries(Tail(s))
<1>1. s \o t \in Seq(Task) /\ \A e \in Task : Append(s, e) \in Seq(Task)
  OBVIOUS
<1> QED
  BY <1>1, EntriesOf

LEMMA OneOfTasks ==
  ASSUME NEW s \in Seq(Task), NEW t \in Seq(Task), NEW X, AtMostOne(s, X), AtMostOne(t, X),
         Entries(s) \cap X = {} \/ Entries(t) \cap X = {}
  PROVE  AtMostOne(s \o t, X)
BY OneOf

LEMMA Few ==
  ASSUME NEW a \in Task, NEW b \in Task
  PROVE  /\ <<a>> \in Seq(Task) /\ Entries(<<a>>) = {a}
         /\ <<a, b>> \in Seq(Task) /\ Entries(<<a, b>>) = {a, b}
         /\ Head(<<a>>) = a /\ Tail(<<a>>) = <<>> /\ Head(<<a, b>>) = a /\ Tail(<<a, b>>) = <<b>>
<1>1. /\ <<a>> \in Seq(Task) /\ Entries(<<a>>) = {a}
      /\ <<a, b>> \in Seq(Task) /\ Entries(<<a, b>>) = {a, b}
  BY DEF Entries
<1>2. Head(<<a>>) = a /\ Tail(<<a>>) = <<>> /\ Head(<<a, b>>) = a /\ Tail(<<a, b>>) = <<b>>
  OBVIOUS
<1> QED
  BY <1>1, <1>2

\* A few tasks put before others.
LEMMA Prefix ==
  ASSUME NEW a \in Task, NEW b \in Task, NEW s \in Seq(Task)
  PROVE  /\ <<a>> \in Seq(Task) /\ Entries(<<a>>) = {a}
         /\ <<a, b>> \in Seq(Task) /\ Entries(<<a, b>>) = {a, b}
         /\ <<>> \o s = s
         /\ <<a>> \o s \in Seq(Task) /\ <<a>> \o s # <<>>
         /\ Head(<<a>> \o s) = a /\ Tail(<<a>> \o s) = s
         /\ <<a, b>> \o s \in Seq(Task) /\ <<a, b>> \o s # <<>>
         /\ Head(<<a, b>> \o s) = a /\ Tail(<<a, b>> \o s) = <<b>> \o s
         /\ Entries(<<a>> \o s) = {a} \cup Entries(s)
         /\ Entries(<<a, b>> \o s) = {a, b} \cup Entries(s)
         /\ <<a>> \o <<>> = <<a>>
         /\ Head(<<a>>) = a /\ Tail(<<a>>) = <<>> /\ Head(<<a, b>>) = a /\ Tail(<<a, b>>) = <<b>>
<1>1. /\ <<a>> \in Seq(Task) /\ Entries(<<a>>) = {a}
      /\ <<a, b>> \in Seq(Task) /\ Entries(<<a, b>>) = {a, b}
  BY DEF Entries
<1>2. /\ <<a>> \o s \in Seq(Task) /\ <<a, b>> \o s \in Seq(Task)
      /\ Entries(<<a>> \o s) = {a} \cup Entries(s)
      /\ Entries(<<a, b>> \o s) = {a, b} \cup Entries(s)
  <2>1. PICK x, y : x = <<a>> /\ y = <<a, b>>
    OBVIOUS
  <2>2. x \in Seq(Task) /\ y \in Seq(Task)
    BY <1>1, <2>1
  <2>3. x \o s \in Seq(Task) /\ Entries(x \o s) = Entries(x) \cup Entries(s)
    BY <2>2, TasksOf
  <2>4. y \o s \in Seq(Task) /\ Entries(y \o s) = Entries(y) \cup Entries(s)
    BY <2>2, TasksOf
  <2> QED
    BY <1>1, <2>1, <2>3, <2>4
<1>3. /\ <<>> \o s = s /\ <<a>> \o <<>> = <<a>>
      /\ <<a>> \o s # <<>> /\ <<a, b>> \o s # <<>>
      /\ Head(<<a>> \o s) = a /\ Head(<<a, b>> \o s) = a
  OBVIOUS
<1>4. Tail(<<a>> \o s) = s
  OBVIOUS
<1>5. Tail(<<a, b>> \o s) = <<b>> \o s
  OBVIOUS
<1>6. Head(<<a>>) = a /\ Tail(<<a>>) = <<>> /\ Head(<<a, b>>) = a /\ Tail(<<a, b>>) = <<b>>
  OBVIOUS
<1> QED
  BY <1>1, <1>2, <1>3, <1>4, <1>5, <1>6

\* The tasks of the connector, those of connections, and that they differ.
LEMMA Distinct ==
  /\ 0 \notin Conn
  /\ {Start, Stop, Reset, ErrorEvent, WriteEvent} \subseteq Task
  /\ \A c \in Conn, f \in Step \cup {"new_connection"} :
       <<f, c>> \in Task /\ <<f, c>> \notin {Start, Stop, Reset, ErrorEvent, WriteEvent}
  /\ Later \subseteq Step /\ Functor \subseteq Step /\ Closer \subseteq Step
BY SocketAssumption, ClientAssumption
DEF Task, Start, Stop, Reset, ErrorEvent, WriteEvent, ConnectorStep, ConnectorFunctor, Step, Later,
    Functor, Closer, SharedFunctor, RawFunctor

\* Behind the head are tasks that handlers left for later.
LEMMA RestOf ==
  ASSUME ClientInv, todo # <<>>, Head(todo) # ErrorEvent
  PROVE  Entries(Tail(todo)) \subseteq Later \X adopted
<1>1. todo \in Seq(Task) /\ Behind
  BY Invariants DEF ClientTypeOK
<1>2. Tail(todo) \in Seq(Task) /\ Entries(todo) = {Head(todo)} \cup Entries(Tail(todo)) /\ Entries(<<>>) = {}
  BY <1>1, TasksOf
<1>3. Entries(Tail(todo)) \subseteq (Later \X adopted) \cup {WriteEvent}
  BY <1>1 DEF Behind
<1>4. WriteEvent \notin Entries(Tail(todo))
  <2> SUFFICES ASSUME WriteEvent \in Entries(Tail(todo)) PROVE FALSE
    OBVIOUS
  <2>1. todo \in {<<ErrorEvent, WriteEvent>>, <<WriteEvent>>}
    BY <1>1, <1>2 DEF Behind
  <2>2. Head(<<ErrorEvent, WriteEvent>>) = ErrorEvent /\ Tail(<<WriteEvent>>) = <<>>
    BY <1>1, Prefix, Distinct
  <2> QED
    BY <1>2, <2>1, <2>2
<1> QED
  BY <1>3, <1>4

\* What the thread does next and what comes behind it.
LEMMA HeadOf ==
  ASSUME ClientInv, todo # <<>>, NEW h, h = Head(todo), NEW R, R = Tail(todo)
  PROVE  /\ h \in Task /\ R \in Seq(Task) /\ Entries(todo) = {h} \cup Entries(R)
         /\ h = ErrorEvent => R = <<WriteEvent>> /\ phase = "dispatch"
         /\ h = WriteEvent => R = <<>> /\ phase = "dispatch"
         /\ \A c \in Conn : h \in {<<"new_connection", c>>, <<"connect_established", c>>} =>
                             R = <<>> /\ phase = "dispatch"
         /\ AtMostOne(R, Closers) /\ (h \in Closers => Entries(R) \cap Closers = {})
         /\ OnceIn({Start}, R, batch, pending)
         /\ h = Start => Start \notin Queued
         /\ R # <<>> => Entries(Tail(R)) \subseteq Entries(R)
         /\ phase # "poll"
<1>1. /\ todo \in Seq(Task) /\ batch \in Seq(Task) /\ pending \in Seq(Task)
      /\ Behind /\ Phases /\ OneAttempt
  BY Invariants DEF ClientTypeOK
<1>2. /\ h \in Task /\ R \in Seq(Task) /\ Entries(todo) = {h} \cup Entries(R)
  BY <1>1, TasksOf
<1>3. R # <<>> => Entries(Tail(R)) \subseteq Entries(R)
  BY <1>2, TasksOf, ZenonT(60)
<1>4. ASSUME ErrorEvent \in Entries(todo) PROVE h = ErrorEvent /\ R = <<WriteEvent>> /\ phase = "dispatch"
  <2>1. todo = <<ErrorEvent, WriteEvent>> /\ phase = "dispatch"
    BY <1>1, <1>4 DEF Behind
  <2> QED
    BY <2>1, Prefix, Distinct
<1>5. ASSUME WriteEvent \in Entries(todo), h # ErrorEvent
      PROVE  h = WriteEvent /\ R = <<>> /\ phase = "dispatch"
  <2>1. todo \in {<<ErrorEvent, WriteEvent>>, <<WriteEvent>>} /\ phase = "dispatch"
    BY <1>1, <1>5 DEF Behind
  <2> QED
    BY <1>5, <2>1, Prefix, Distinct
<1>7. ErrorEvent # WriteEvent
  BY DEF ErrorEvent, WriteEvent
<1>8. ASSUME NEW c \in Conn, NEW f \in {"new_connection", "connect_established"}, h = <<f, c>>
      PROVE  R = <<>> /\ phase = "dispatch"
  <2>1. todo = <<<<f, c>>>> /\ phase = "dispatch"
    BY <1>1, <1>2, <1>8 DEF Behind
  <2> QED
    BY <2>1
<1>9. AtMostOne(R, Closers) /\ (h \in Closers => Entries(R) \cap Closers = {})
  BY <1>1, OneOf DEF Behind
<1>10. OnceIn({Start}, todo, batch, pending)
  BY <1>1 DEF OneAttempt
<1>11. /\ OnceIn({Start}, R, batch, pending)
       /\ h \in {Start} => Without(batch, {Start}) /\ Without(pending, {Start})
  BY <1>1, <1>10, MovesOf
<1>12. h = Start => Start \notin Queued
  BY <1>11 DEF Without, Queued
<1>13. phase # "poll"
  BY <1>1 DEF Phases
<1> QED
  BY <1>2, <1>3, <1>4, <1>5, <1>7, <1>8, <1>9, <1>11, <1>12, <1>13

(***************************************************************************)
(* Steps of a connection.                                                  *)
(***************************************************************************)
\* Only connection c and what is still to happen inside the call change.
LEMMA ConnectionFrame ==
  ASSUME ClientInv, todo # <<>>, NEW f \in Step, NEW c \in adopted, Head(todo) = <<f, c>>,
         NEW s \in Record, s.events \subseteq {"in"},
         NEW N \in Seq(Task), Entries(N) \subseteq {"user", "close_callback", "remove"} \X {c},
         AtMostOne(N, Closers), Entries(N) \cap Closers # {} => f \in Closer,
         <<"remove", c>> \in Entries(N) => phase = "drain",
         conn' = [conn EXCEPT ![c] = s], todo' = N \o Tail(todo),
         UNCHANGED <<pending, batch, phase, revents, clientVars>>,
         c \in Mine => Fate(c)'
  PROVE  ClientInv'
<1>1. /\ ClientTypeOK /\ QueueOK(pending) /\ QueueOK(batch) /\ ThreadOK /\ Phases /\ Behind
      /\ OneAttempt /\ ChannelOK /\ EventsOK /\ HandedOK /\ ResetInTime
      /\ CurrentOK /\ NotAdopted /\ OnlyGivenAway /\ NoOutput /\ \A d \in Mine : Fate(d)
      /\ OwnInv /\ SocketInv
  BY Invariants
<1>2. PICK h, R : h = Head(todo) /\ R = Tail(todo)
  OBVIOUS
<1>3. c \in Conn /\ conn \in [Conn -> Record] /\ adopted \subseteq Conn
  BY <1>1 DEF ClientTypeOK
<1>4. h = <<f, c>> /\ h \notin {Start, Stop, Reset, ErrorEvent, WriteEvent} /\ f # "new_connection"
  <2>1. f # "new_connection"
    BY DEF Step, SharedFunctor, RawFunctor
  <2> QED
    BY <1>2, <1>3, <2>1, Distinct
<1>5. /\ R \in Seq(Task) /\ Entries(todo) = {h} \cup Entries(R)
      /\ Entries(R) \subseteq Later \X adopted
      /\ AtMostOne(R, Closers) /\ (h \in Closers => Entries(R) \cap Closers = {})
      /\ OnceIn({Start}, R, batch, pending) /\ phase # "poll"
  BY <1>2, <1>4, HeadOf, RestOf
<1>6. todo' \in Seq(Task) /\ Entries(todo') = Entries(N) \cup Entries(R)
  BY <1>2, <1>5, TasksOf
<1>7. Entries(todo') \subseteq Later \X adopted
  BY <1>5, <1>6 DEF Later
<1>8. \A e \in {Start, Stop, Reset, ErrorEvent, WriteEvent} :
        e \notin Entries(todo) /\ e \notin Entries(todo')
  BY <1>3, <1>4, <1>5, <1>7, Distinct
<1>9. \A d \in Conn : <<"new_connection", d>> \notin Entries(todo) /\ <<"new_connection", d>> \notin Entries(todo')
                      /\ <<"connect_established", d>> \notin Entries(todo')
  BY <1>4, <1>5, <1>7 DEF Later
<1>10. Queued' = Queued /\ \A e \in {Start, Stop, Reset} : e \in Tasks' <=> e \in Tasks
  BY <1>8 DEF Queued, Tasks
<1>11. \A d \in Conn : conn'[d] = IF d = c THEN s ELSE conn[d]
  BY <1>3
<1>12. UNCHANGED <<connector, net, again, connection, adopted, alive, rebound, keeper, calls, faults>>
  BY DEF clientVars
<1>13. ASSUME NEW d \in Conn, d # c, NEW g
       PROVE  <<g, d>> \in Entries(todo') <=> <<g, d>> \in Entries(todo)
  BY <1>4, <1>5, <1>6, <1>13
<1>14. ASSUME NEW d \in Conn, ClosesSoon(d)' PROVE ClosesSoon(d)
  <2>1. PICK g \in Closer : <<g, d>> \in Entries(todo')
    BY <1>14 DEF ClosesSoon
  <2>2. CASE <<g, d>> \in Entries(R)
    BY <1>5, <2>2 DEF ClosesSoon
  <2>3. CASE <<g, d>> \in Entries(N)
    <3>1. d = c /\ <<g, d>> \in Closers
      BY <2>3 DEF Closers
    <3>2. f \in Closer
      BY <2>3, <3>1
    <3> QED
      BY <1>4, <1>5, <3>1, <3>2 DEF ClosesSoon
  <2> QED
    BY <1>6, <2>1, <2>2, <2>3
<1>20. ClientTypeOK'
  BY <1>1, <1>3, <1>6, <1>12 DEF ClientTypeOK
<1>21. QueueOK(pending)' /\ QueueOK(batch)'
  BY <1>1, <1>12 DEF QueueOK
<1>22. ThreadOK'
  BY <1>7, <1>12 DEF ThreadOK
<1>23. Phases'
  <2>1. ASSUME phase # "drain", NEW d \in Conn, NEW g \in Functor \cup {"remove"}
        PROVE  <<g, d>> \notin Entries(todo')
    <3>1. <<g, d>> \notin Entries(R) /\ <<"remove", d>> \notin Entries(N)
      BY <1>1, <1>5, <2>1 DEF Phases
    <3> QED
      BY <1>6, <2>1, <3>1 DEF Functor
  <2> QED
    BY <1>1, <1>5, <1>8, <2>1 DEF Phases
<1>24. Behind'
  <2>1. todo' # <<>> => Entries(Tail(todo')) \subseteq Later \X adopted
    <3>1. PICK t : t = todo'
      OBVIOUS
    <3>2. t # <<>> => Entries(Tail(t)) \subseteq Entries(t)
      BY <1>6, <3>1, TasksOf
    <3> QED
      BY <1>7, <3>1, <3>2
  <2>2. AtMostOne(todo', Closers)
    <3>1. Entries(N) \cap Closers = {} \/ Entries(R) \cap Closers = {}
      BY <1>3, <1>4, <1>5 DEF Closers
    <3> QED
      BY <1>2, <1>5, <3>1, OneOfTasks
  <2> QED
    BY <1>8, <1>9, <1>12, <2>1, <2>2 DEF Behind, Closers
<1>25. OneAttempt'
  <2>1. Without(N, {Start})
    BY <1>3, Distinct DEF Without, Start
  <2>2. OnceIn({Start}, todo', batch, pending)
    BY <1>1, <1>2, <1>5, <2>1, MovesOf DEF ClientTypeOK
  <2> QED
    BY <1>1, <1>10, <1>12, <2>2 DEF OneAttempt
<1>26. ChannelOK' /\ EventsOK' /\ HandedOK'
  BY <1>1, <1>8, <1>9, <1>10, <1>12 DEF ChannelOK, EventsOK, HandedOK
<1>27. ResetInTime'
  <2>1. connection # 0 => connection \in Conn
    BY <1>1, <1>3 DEF CurrentOK, Mine
  <2> QED
    BY <1>1, <1>10, <1>12, <1>14, <2>1 DEF ResetInTime
<1>28. CurrentOK' /\ OwnInv'
  BY <1>1, <1>10, <1>12 DEF CurrentOK, OwnInv, Mine
<1>29. NotAdopted'
  BY <1>1, <1>11, <1>12 DEF NotAdopted
<1>30. OnlyGivenAway'
  <2>1. \A d \in adopted : <<"force_close_in_loop", d>> \notin Entries(todo')
    BY <1>7 DEF Later
  <2> QED
    BY <1>1, <1>10, <1>12, <2>1 DEF OnlyGivenAway, Tasks
<1>31. NoOutput'
  BY <1>1, <1>3, <1>11, <1>12 DEF NoOutput
<1>32. SocketInv'
  <2>1. \A d \in Conn : (Handed(d)' <=> Handed(d)) /\ (Trying(d)' <=> Trying(d))
    BY <1>9, <1>12 DEF Handed, Trying
  <2>2. \A d \in 1..connector.made : d \in Conn
    BY <1>1, SocketAssumption, ClientAssumption DEF ChannelOK, ClientTypeOK, ConnectorRecord
  <2> QED
    BY <1>1, <1>12, <2>1, <2>2 DEF SocketInv
<1>33. \A d \in Mine' : Fate(d)'
  <2> SUFFICES ASSUME NEW d \in Mine, d # c PROVE Fate(d)'
    BY <1>12 DEF Mine
  <2>1. d \in Conn /\ Fate(d)
    BY <1>1, <1>3 DEF Mine
  <2>2. conn'[d] = conn[d] /\ revents'[d] = revents[d]
    BY <1>11, <2>1
  <2>3. \A g : <<g, d>> \in Entries(todo') <=> <<g, d>> \in Entries(todo)
    BY <1>13, <2>1
  <2>4. ClosesSoon(d)' <=> ClosesSoon(d)
    BY <2>3 DEF ClosesSoon
  <2>5. Leaves(d)' <=> Leaves(d)
    BY <2>2, <2>3 DEF Leaves
  <2> QED
    BY <1>12, <2>1, <2>2, <2>3, <2>4, <2>5 DEF Fate
<1> QED
  BY <1>20, <1>21, <1>22, <1>23, <1>24, <1>25, <1>26, <1>27, <1>28, <1>29, <1>30, <1>31, <1>32, <1>33
  DEF ClientInv, ShapeInv, ConnectorInv, LifeInv


\* What a step of a connection that writes nothing does.
LEMMA PerformEffect ==
  ASSUME NEW r \in Record, r.events \subseteq {"in"}, NEW n,
         NEW step \in Functor \cup {"connect_established", "remove", "handle_close", "handle_error",
                                    "handle_read", "handle_write"},
         NEW res, res = Perform(step, r, n)
  PROVE  /\ res.r \in Record /\ res.r.events \subseteq {"in"} /\ res.q = <<>>
         /\ \/ /\ step = "connect_established" /\ res.r.state = "Connected" /\ res.r.downs = r.downs
               /\ res.todo = <<"user">>
            \/ /\ step \in {"handle_close", "handle_read", "force_close_in_loop"}
               /\ res.r.state = "Disconnected" /\ res.r.downs # 0 /\ res.todo = <<"user", "close_callback">>
            \/ /\ step \in {"handle_error", "handle_read", "handle_write", "force_close_in_loop",
                            "shutdown_in_loop"}
               /\ res.r.state = r.state /\ res.r.downs = r.downs /\ res.r.registered = r.registered
               /\ res.todo \in {<<>>, <<"user">>}
            \/ /\ step = "connect_destroyed" /\ res.r.state \in {r.state, "Disconnected"}
               /\ res.r.downs = r.downs \/ res.r.downs # 0
               /\ res.todo \in {<<"user", "remove">>, <<"remove">>}
            \/ /\ step = "remove" /\ res.r.state = r.state /\ res.r.downs = r.downs
               /\ ~res.r.registered /\ res.todo = <<>>
<1>1. PICK s : s = res.r
  OBVIOUS
<1>2. Kept(r, r, {})
  BY DEF Kept
<1>3. ASSUME NEW t, t \in Record, t.events = r.events
      PROVE  t \in Record /\ t.events \subseteq {"in"}
  BY <1>3
<1>4. CASE step = "connect_established"
  <2>1. res = connect_established(r)
    BY <1>4 DEF Perform
  <2>2. Kept(r, s, {"state", "events", "registered", "ups"}) /\ s.state = "Connected"
        /\ s.events = r.events \cup {"in"}
    BY <1>1, <2>1, EstablishEffect
  <2>4. s.downs = r.downs
    BY <2>2 DEF Kept, Field
  <2>3. res.q = <<>> /\ res.todo = <<"user">>
    BY <2>1 DEF connect_established, Result
  <2> QED
    BY <1>1, <1>4, <2>2, <2>3, <2>4 DEF Kept
<1>5. ASSUME step \in {"handle_close", "handle_read", "force_close_in_loop"}, res = handle_close(r)
      PROVE  /\ res.r \in Record /\ res.r.events \subseteq {"in"} /\ res.q = <<>>
             /\ res.r.state = "Disconnected" /\ res.r.downs # 0 /\ res.todo = <<"user", "close_callback">>
  <2>1. Kept(r, s, {"state", "events", "registered", "downs", "closes"})
        /\ s.state = "Disconnected" /\ s.events = {} /\ s.downs = r.downs + 1
    BY <1>1, <1>5, CloseEffect
  <2>3. s.downs # 0
    BY <2>1, FieldTypes
  <2>2. res.q = <<>> /\ res.todo = <<"user", "close_callback">>
    BY <1>5 DEF handle_close, Result
  <2> QED
    BY <1>1, <2>1, <2>2, <2>3 DEF Kept
<1>6. ASSUME step \in {"handle_error", "handle_read", "handle_write", "force_close_in_loop"},
             NEW t, Kept(r, t, {}), NEW w \in {<<>>, <<"user">>}, res = Result(t, <<>>, w)
      PROVE  /\ res.r \in Record /\ res.r.events \subseteq {"in"} /\ res.q = <<>>
             /\ res.r.state = r.state /\ res.r.downs = r.downs /\ res.r.registered = r.registered
             /\ res.todo \in {<<>>, <<"user">>}
  <2>1. /\ t \in Record /\ t.events = r.events /\ t.state = r.state /\ t.registered = r.registered
        /\ t.downs = r.downs
    BY <1>6 DEF Kept, Field
  <2>2. res.r = t /\ res.q = <<>> /\ res.todo = w
    BY <1>6 DEF Result
  <2> QED
    BY <2>1, <2>2
<1>7. Kept(r, [r EXCEPT !.err = FALSE], {}) /\ Kept(r, [r EXCEPT !.inbox = 0], {})
  BY Assignments
<1>8. CASE step = "handle_close"
  BY <1>5, <1>8 DEF Perform
<1>9. CASE step = "handle_error"
  <2>1. res = Result([r EXCEPT !.err = FALSE], <<>>, <<>>)
    BY <1>9 DEF Perform, handle_error, Done
  <2> QED
    BY <1>6, <1>7, <1>9, <2>1
<1>10. CASE step = "handle_read"
  <2>1. \/ res = Result([r EXCEPT !.inbox = 0], <<>>, <<"user">>)
        \/ res = Result([r EXCEPT !.err = FALSE], <<>>, <<>>)
        \/ res = handle_close(r)
    BY <1>10 DEF Perform, handle_read, handle_error, Done
  <2> QED
    BY <1>5, <1>6, <1>7, <1>10, <2>1
<1>11. CASE step = "handle_write"
  <2>1. res = Result(r, <<>>, <<>>)
    BY <1>11 DEF Perform, handle_write, Done
  <2> QED
    BY <1>2, <1>6, <1>11, <2>1
<1>12. CASE step = "force_close_in_loop"
  <2>1. \/ res = Result(r, <<>>, <<>>)
        \/ res = handle_close(r)
    BY <1>12 DEF Perform, force_close_in_loop, Done
  <2> QED
    BY <1>2, <1>5, <1>6, <1>12, <2>1
<1>13. CASE step = "connect_destroyed"
  <2>1. res = connect_destroyed(r)
    BY <1>13 DEF Perform
  <2>2. /\ s \in Record /\ s.events \subseteq {"in"} /\ s.state \in {r.state, "Disconnected"}
        /\ s.downs \in {r.downs, r.downs + 1}
    BY <1>1, <2>1, DestroyEffect DEF Kept
  <2>4. s.downs = r.downs \/ s.downs # 0
    BY <2>2, FieldTypes
  <2>3. res.q = <<>> /\ res.todo \in {<<"user", "remove">>, <<"remove">>}
    BY <2>1 DEF connect_destroyed, Result
  <2> QED
    BY <1>1, <1>13, <2>2, <2>3, <2>4
<1>14. CASE step = "remove"
  <2>1. res = Result([r EXCEPT !.registered = FALSE], <<>>, <<>>)
    BY <1>14 DEF Perform, remove, Done
  <2>2. s = [r EXCEPT !.registered = FALSE] /\ res.q = <<>> /\ res.todo = <<>>
    BY <1>1, <2>1 DEF Result
  <2>3. Kept(r, s, {"registered"}) /\ ~s.registered
    BY <2>2, Assignments
  <2>4. s \in Record /\ s.events = r.events /\ s.state = r.state /\ s.downs = r.downs
    BY <2>3 DEF Kept, Field
  <2> QED
    BY <1>1, <1>14, <2>2, <2>3, <2>4
<1>15. CASE step = "shutdown_in_loop"
  <2>1. res = Result([r EXCEPT !.fin = TRUE, !.lost = @ + r.out], <<>>, <<>>)
    BY <1>15 DEF Perform, shutdown_in_loop, Done
  <2>2. s = [r EXCEPT !.fin = TRUE, !.lost = @ + r.out] /\ res.q = <<>> /\ res.todo = <<>>
    BY <1>1, <2>1 DEF Result
  <2>3. r.lost + r.out \in Nat
    BY FieldTypes
  <2>4. /\ s \in Record /\ s.events = r.events /\ s.state = r.state /\ s.registered = r.registered
        /\ s.downs = r.downs
    BY <2>2, <2>3, ZenonT(60) DEF Record
  <2> QED
    BY <1>1, <1>15, <2>2, <2>4
<1> QED
  BY <1>4, <1>8, <1>9, <1>10, <1>11, <1>12, <1>13, <1>14, <1>15 DEF Functor

\* Short results, bound to their connection.
LEMMA TaggedShort ==
  ASSUME NEW c \in Conn \cup {0}
  PROVE  /\ Tagged(c, <<>>) = <<>>
         /\ \A f : Tagged(c, <<f>>) = <<<<f, c>>>>
         /\ \A f, g : Tagged(c, <<f, g>>) = <<<<f, c>>, <<g, c>>>>
<1>1. Tagged(c, <<>>) = <<>>
  BY DEF Tagged
<1>2. ASSUME NEW f PROVE Tagged(c, <<f>>) = <<<<f, c>>>>
  BY DEF Tagged
<1>3. ASSUME NEW f, NEW g PROVE Tagged(c, <<f, g>>) = <<<<f, c>>, <<g, c>>>>
  BY DEF Tagged
<1> QED
  BY <1>1, <1>2, <1>3


\* What a handler leaves to do inside the call.
LEMMA InnerTasks ==
  ASSUME NEW c \in Conn,
         NEW w \in {<<>>, <<"user">>, <<"remove">>, <<"user", "remove">>, <<"user", "close_callback">>},
         NEW N, N = Tagged(c, w)
  PROVE  /\ N \in Seq(Task) /\ AtMostOne(N, Closers)
         /\ Entries(N) \subseteq {"user", "close_callback", "remove"} \X {c}
         /\ w = <<>> => Entries(N) = {}
         /\ w = <<"user">> => Entries(N) = {<<"user", c>>}
         /\ w = <<"remove">> => Entries(N) = {<<"remove", c>>}
         /\ w = <<"user", "remove">> => Entries(N) = {<<"user", c>>, <<"remove", c>>}
         /\ w = <<"user", "close_callback">> => Entries(N) = {<<"user", c>>, <<"close_callback", c>>}
<1>1. PICK u, r, k : u = <<"user", c>> /\ r = <<"remove", c>> /\ k = <<"close_callback", c>>
  OBVIOUS
<1>2. u \in Task /\ r \in Task /\ k \in Task
  BY <1>1, Distinct DEF Step
<1>3. u \notin Closers /\ r \notin Closers
  BY <1>1 DEF Closers, Closer
<1>4. /\ AtMostOne(<<>>, Closers) /\ AtMostOne(<<u>>, Closers) /\ AtMostOne(<<r>>, Closers)
      /\ AtMostOne(<<u, r>>, Closers) /\ AtMostOne(<<u, k>>, Closers)
  BY <1>3 DEF AtMostOne
<1>5. /\ <<>> \in Seq(Task) /\ Entries(<<>>) = {}
      /\ <<u>> \in Seq(Task) /\ Entries(<<u>>) = {u}
      /\ <<r>> \in Seq(Task) /\ Entries(<<r>>) = {r}
      /\ <<u, r>> \in Seq(Task) /\ Entries(<<u, r>>) = {u, r}
      /\ <<u, k>> \in Seq(Task) /\ Entries(<<u, k>>) = {u, k}
  <2>1. <<>> \in Seq(Task) /\ Entries(<<>>) = {}
    BY DEF Entries
  <2>2. \A a \in Task : <<a>> \in Seq(Task) /\ Entries(<<a>>) = {a}
    BY <2>1, Prefix
  <2>3. \A a \in Task, b \in Task : <<a, b>> \in Seq(Task) /\ Entries(<<a, b>>) = {a, b}
    BY <2>1, Prefix
  <2> QED
    BY <1>2, <2>1, <2>2, <2>3
<1>6. /\ w = <<>> => N = <<>>
      /\ w = <<"user">> => N = <<u>>
      /\ w = <<"remove">> => N = <<r>>
      /\ w = <<"user", "remove">> => N = <<u, r>>
      /\ w = <<"user", "close_callback">> => N = <<u, k>>
  BY <1>1, TaggedShort
<1>7. {u, r, k} \subseteq {"user", "close_callback", "remove"} \X {c}
  BY <1>1
<1> QED
  <2>1. /\ w = <<>> => Entries(N) = {}
        /\ w = <<"user">> => Entries(N) = {u}
        /\ w = <<"remove">> => Entries(N) = {r}
        /\ w = <<"user", "remove">> => Entries(N) = {u, r}
        /\ w = <<"user", "close_callback">> => Entries(N) = {u, k}
    BY <1>5, <1>6
  <2>2. N \in Seq(Task) /\ AtMostOne(N, Closers)
    BY <1>4, <1>5, <1>6
  <2>3. Entries(N) \subseteq {u, r, k}
    BY <2>1
  <2> QED
    BY <1>1, <1>7, <2>1, <2>2, <2>3

LEMMA PerformOK ==
  ASSUME ClientInv, perform, UNCHANGED clientVars
  PROVE  ClientInv'
<1>1. /\ ClientTypeOK /\ ThreadOK /\ Phases /\ Behind /\ OnlyGivenAway /\ NoOutput
      /\ \A d \in Mine : Fate(d)
  BY Invariants
<1>2. PICK h, R : h = Head(todo) /\ R = Tail(todo)
  OBVIOUS
<1>3. todo # <<>> /\ h[1] \in Step \ {"user", "close_callback"}
  BY <1>2 DEF perform
<1>4. /\ h \in Task /\ R \in Seq(Task) /\ Entries(todo) = {h} \cup Entries(R)
      /\ h \in Closers => Entries(R) \cap Closers = {}
  BY <1>2, <1>3, HeadOf
<1>5. PICK f, c : f = h[1] /\ c = h[2]
  OBVIOUS
<1>6. /\ h = <<f, c>> /\ c \in adopted
      /\ f \in Functor \cup {"connect_established", "remove", "handle_close", "handle_error",
                             "handle_read", "handle_write"}
  <2>1. h \in {Start, Stop, Reset, ErrorEvent, WriteEvent} \cup ({"new_connection"} \X Conn)
                \cup ((Functor \cup Later \cup {"connect_established"}) \X adopted)
    BY <1>1, <1>4 DEF ThreadOK
  <2>2. h \notin {Start, Stop, Reset, ErrorEvent, WriteEvent} /\ h \notin {"new_connection"} \X Conn
    BY <1>3 DEF Start, Stop, Reset, ErrorEvent, WriteEvent, Step, SharedFunctor, RawFunctor
  <2>3. h \in (Functor \cup Later \cup {"connect_established"}) \X adopted
    BY <2>1, <2>2
  <2> QED
    BY <1>3, <1>5, <2>3 DEF Later, Functor
<1>7. c \in Conn /\ conn[c] \in Record /\ conn[c].events \subseteq {"in"} /\ f \in Step
  BY <1>1, <1>3, <1>5, <1>6 DEF ClientTypeOK, NoOutput
<1>8. PICK n : Apply(c, Perform(f, conn[c], n), R)
  BY <1>2, <1>5 DEF perform
<1>9. PICK res : res = Perform(f, conn[c], n)
  OBVIOUS
<1>10. PICK s, N : s = res.r /\ N = Tagged(c, res.todo)
  OBVIOUS
<1>11. /\ s \in Record /\ s.events \subseteq {"in"} /\ res.q = <<>>
       /\ \/ /\ f = "connect_established" /\ s.state = "Connected" /\ s.downs = conn[c].downs
             /\ res.todo = <<"user">>
          \/ /\ f \in {"handle_close", "handle_read", "force_close_in_loop"}
             /\ s.state = "Disconnected" /\ s.downs # 0 /\ res.todo = <<"user", "close_callback">>
          \/ /\ f \in {"handle_error", "handle_read", "handle_write", "force_close_in_loop",
                       "shutdown_in_loop"}
             /\ s.state = conn[c].state /\ s.downs = conn[c].downs /\ s.registered = conn[c].registered
             /\ res.todo \in {<<>>, <<"user">>}
          \/ /\ f = "connect_destroyed" /\ s.state \in {conn[c].state, "Disconnected"}
             /\ s.downs = conn[c].downs \/ s.downs # 0
             /\ res.todo \in {<<"user", "remove">>, <<"remove">>}
          \/ /\ f = "remove" /\ s.state = conn[c].state /\ s.downs = conn[c].downs /\ ~s.registered /\ res.todo = <<>>
  BY <1>6, <1>7, <1>9, <1>10, PerformEffect
<1>12. res.todo \in {<<>>, <<"user">>, <<"remove">>, <<"user", "remove">>, <<"user", "close_callback">>}
  BY <1>11
<1>13. /\ N \in Seq(Task) /\ AtMostOne(N, Closers)
       /\ Entries(N) \subseteq {"user", "close_callback", "remove"} \X {c}
       /\ \/ /\ f = "connect_established" /\ s.state = "Connected" /\ s.downs = conn[c].downs
             /\ Entries(N) = {<<"user", c>>}
          \/ /\ f \in {"handle_close", "handle_read", "force_close_in_loop"}
             /\ s.state = "Disconnected" /\ s.downs # 0
             /\ Entries(N) = {<<"user", c>>, <<"close_callback", c>>}
          \/ /\ f \in {"handle_error", "handle_read", "handle_write", "force_close_in_loop",
                       "shutdown_in_loop"}
             /\ s.state = conn[c].state /\ s.downs = conn[c].downs /\ s.registered = conn[c].registered
             /\ Entries(N) \subseteq {<<"user", c>>}
          \/ /\ f = "connect_destroyed" /\ s.state \in {conn[c].state, "Disconnected"}
             /\ s.downs = conn[c].downs \/ s.downs # 0
             /\ Entries(N) \subseteq {<<"user", c>>, <<"remove", c>>} /\ <<"remove", c>> \in Entries(N)
          \/ /\ f = "remove" /\ s.state = conn[c].state /\ s.downs = conn[c].downs /\ ~s.registered /\ Entries(N) = {}
  <2>1. /\ N \in Seq(Task) /\ AtMostOne(N, Closers)
        /\ Entries(N) \subseteq {"user", "close_callback", "remove"} \X {c}
        /\ res.todo = <<>> => Entries(N) = {}
        /\ res.todo = <<"user">> => Entries(N) = {<<"user", c>>}
        /\ res.todo = <<"remove">> => Entries(N) = {<<"remove", c>>}
        /\ res.todo = <<"user", "remove">> => Entries(N) = {<<"user", c>>, <<"remove", c>>}
        /\ res.todo = <<"user", "close_callback">> => Entries(N) = {<<"user", c>>, <<"close_callback", c>>}
    BY <1>7, <1>10, <1>12, InnerTasks
  <2> QED
    BY <1>11, <2>1
<1>14. /\ conn' = [conn EXCEPT ![c] = s] /\ todo' = N \o Tail(todo)
       /\ UNCHANGED <<pending, batch, phase, revents, clientVars>>
  <2>1. Tagged(c, res.q) = <<>>
    BY <1>7, <1>11, TaggedShort
  <2>2. pending' = pending \o <<>>
    BY <1>8, <1>9, <2>1 DEF Apply
  <2>3. pending' = pending
    BY <1>1, <2>2 DEF ClientTypeOK
  <2> QED
    BY <1>2, <1>8, <1>9, <1>10, <2>3 DEF Apply
<1>15. <<"remove", c>> \in Entries(N) => phase = "drain"
  <2>1. <<"remove", c>> \in Entries(N) => f = "connect_destroyed"
    BY <1>13
  <2> QED
    BY <1>1, <1>4, <1>6, <1>7, <2>1 DEF Phases, Functor
<1>16. Entries(N) \cap Closers # {} => f \in Closer
  <2>1. Entries(N) \cap Closers # {} => <<"close_callback", c>> \in Entries(N)
    BY <1>13 DEF Closers, Closer
  <2>2. <<"close_callback", c>> \in Entries(N) => f \in {"handle_close", "handle_read", "force_close_in_loop"}
    BY <1>13
  <2> QED
    BY <2>1, <2>2 DEF Closer
<1>17. ASSUME c \in Mine PROVE Fate(c)'
  <2>1. Fate(c)
    BY <1>1, <1>17
  <2>2. /\ conn'[c] = s /\ phase' = phase /\ revents' = revents /\ connection' = connection
        /\ pending' = pending /\ batch' = batch
    BY <1>1, <1>7, <1>14 DEF ClientTypeOK, clientVars
  <2>3. Entries(todo') = Entries(N) \cup Entries(R)
    BY <1>2, <1>4, <1>13, <1>14, TasksOf, ZenonT(60)
  <2>4. Entries(R) \subseteq Later \X adopted
    <3>1. h # ErrorEvent
      BY <1>6, <1>7, Distinct
    <3> QED
      BY <1>2, <1>3, <3>1, RestOf
  <2>5. /\ <<"connect_established", c>> \notin Entries(todo')
        /\ \A g : <<g, c>> \in Entries(todo') => g \in Later
    BY <1>13, <2>3, <2>4 DEF Later
  <2>6. \A g : <<g, c>> \in Entries(todo) <=> g = f \/ <<g, c>> \in Entries(R)
    BY <1>4, <1>6
  <2>7. conn[c].state = "Connecting" => f = "connect_established"
    <3>1. <<"connect_established", c>> \notin Entries(R)
      BY <2>4 DEF Later
    <3> QED
      BY <2>1, <2>6, <3>1 DEF Fate
  <2>8. ClosesSoon(c)' => ClosesSoon(c)
    <3>1. ASSUME NEW g \in Closer, <<g, c>> \in Entries(N) PROVE f \in Closer
      BY <1>7, <1>16, <3>1 DEF Closers
    <3> QED
      BY <2>3, <2>6, <3>1 DEF ClosesSoon
  <2>9. CASE f = "connect_established"
    <3>1. s.state = "Connected" /\ R = <<>> /\ Entries(N) = {<<"user", c>>}
      BY <1>2, <1>3, <1>6, <1>7, <1>13, <2>9, HeadOf
    <3>2. \A g : <<g, c>> \in Entries(todo') => g = "user"
      BY <1>4, <2>3, <3>1, TasksOf
    <3>3. connection = c /\ ~ClosesSoon(c)'
      BY <2>1, <2>6, <2>9, <3>2 DEF Fate, ClosesSoon, Closer
    <3>4. s.downs = 0
      BY <1>13, <2>1, <2>6, <2>9 DEF Fate
    <3> QED
      BY <2>2, <2>5, <3>1, <3>2, <3>3, <3>4 DEF Fate
  <2>10. CASE s.state = "Disconnected" /\ s.downs # 0 /\ Entries(N) = {<<"user", c>>, <<"close_callback", c>>}
              /\ f \in {"handle_close", "handle_read"}
    <3>1. ClosesSoon(c) /\ <<f, c>> \in Closers
      BY <1>7, <2>6, <2>10 DEF ClosesSoon, Closer, Closers
    <3>2. connection = c /\ phase = "dispatch" /\ revents[c] = {}
      BY <2>1, <3>1 DEF Fate
    <3>3. \A g \in {"handle_close", "handle_read"} : <<g, c>> \notin Entries(todo')
      BY <1>4, <1>6, <1>7, <2>3, <2>10, <3>1 DEF Closers, Closer
    <3>4. <<"close_callback", c>> \in Entries(todo')
      BY <2>3, <2>10
    <3> QED
      BY <2>2, <2>5, <2>10, <3>2, <3>3, <3>4 DEF Fate
  <2>11. CASE /\ f \in {"handle_error", "handle_read", "handle_write", "shutdown_in_loop"}
              /\ s.state = conn[c].state /\ s.downs = conn[c].downs /\ s.registered = conn[c].registered
              /\ Entries(N) \subseteq {<<"user", c>>}
    <3>1. \A g : g # "user" /\ <<g, c>> \in Entries(todo') => <<g, c>> \in Entries(todo)
      BY <2>3, <2>6, <2>11
    <3>2. \A g : g # f /\ <<g, c>> \in Entries(todo) => <<g, c>> \in Entries(todo')
      BY <2>3, <2>6
    <3>3. Leaves(c) => Leaves(c)'
      BY <2>2, <2>11, <3>2 DEF Leaves
    <3> QED
      BY <2>1, <2>2, <2>5, <2>7, <2>8, <2>11, <3>1, <3>2, <3>3 DEF Fate
  <2>12. CASE f \in {"connect_destroyed", "remove"}
    <3>1. phase = "drain"
      BY <1>1, <1>4, <1>6, <1>7, <2>12 DEF Phases, Functor
    <3>2. ~ClosesSoon(c) /\ ~ClosesSoon(c)' /\ revents[c] = {}
      BY <1>1, <1>7, <2>1, <2>8, <3>1 DEF Fate, Phases
    <3>3. \A g \in {"close_callback", "handle_close", "handle_read"} : <<g, c>> \notin Entries(todo')
      BY <3>2 DEF ClosesSoon, Closer
    <3>4. (s.downs = conn[c].downs \/ s.downs # 0) /\ s.state # "Connecting"
      BY <1>13, <2>7, <2>12
    <3>5. Leaves(c)'
      BY <1>13, <2>2, <2>3, <2>12, <3>1 DEF Leaves
    <3>6. s.downs = 0 => connection = c
      BY <2>1, <3>4 DEF Fate
    <3> QED
      BY <2>2, <2>5, <3>2, <3>3, <3>4, <3>5, <3>6 DEF Fate
  <2>13. f # "force_close_in_loop"
    BY <1>1, <1>6, <1>17, <2>6 DEF OnlyGivenAway, Tasks, Mine
  <2> QED
    BY <1>13, <2>9, <2>10, <2>11, <2>12, <2>13
<1> QED
  BY <1>2, <1>3, <1>6, <1>7, <1>11, <1>13, <1>14, <1>15, <1>16, <1>17, ConnectionFrame

LEMMA UserReturnOK ==
  ASSUME ClientInv, user_return, UNCHANGED clientVars
  PROVE  ClientInv'
<1>1. /\ ClientTypeOK /\ ThreadOK /\ NoOutput /\ \A d \in Mine : Fate(d)
  BY Invariants
<1>2. PICK h, R : h = Head(todo) /\ R = Tail(todo)
  OBVIOUS
<1>3. todo # <<>> /\ h[1] = "user"
  BY <1>2 DEF user_return, InUserCode
<1>4. /\ h \in Task /\ R \in Seq(Task) /\ Entries(todo) = {h} \cup Entries(R)
  BY <1>2, <1>3, HeadOf
<1>5. PICK c : c = h[2]
  OBVIOUS
<1>6. h = <<"user", c>> /\ c \in adopted
  <2>1. h \in {Start, Stop, Reset, ErrorEvent, WriteEvent} \cup ({"new_connection"} \X Conn)
                \cup ((Functor \cup Later \cup {"connect_established"}) \X adopted)
    BY <1>1, <1>4 DEF ThreadOK
  <2>2. h \notin {Start, Stop, Reset, ErrorEvent, WriteEvent} /\ h \notin {"new_connection"} \X Conn
    BY <1>3 DEF Start, Stop, Reset, ErrorEvent, WriteEvent
  <2> QED
    BY <1>3, <1>5, <2>1, <2>2
<1>7. c \in Conn /\ conn[c] \in Record /\ conn[c].events \subseteq {"in"} /\ "user" \in Step
  BY <1>1, <1>6 DEF ClientTypeOK, NoOutput, Step
<1>8. PICK N : N = <<>>
  OBVIOUS
<1>9. N \in Seq(Task) /\ AtMostOne(N, Closers) /\ Entries(N) = {}
  BY <1>8 DEF AtMostOne, Entries
<1>10. conn' = [conn EXCEPT ![c] = conn[c]] /\ todo' = N \o Tail(todo)
       /\ UNCHANGED <<pending, batch, phase, revents, clientVars>>
  <2>1. N \o R = R
    BY <1>4, <1>8
  <2> QED
    BY <1>1, <1>2, <2>1 DEF user_return, ClientTypeOK
<1>11. ASSUME c \in Mine PROVE Fate(c)'
  <2>1. todo' = R /\ phase' = phase /\ revents' = revents /\ conn' = conn /\ pending' = pending
        /\ batch' = batch /\ connection' = connection
    BY <1>2 DEF user_return, clientVars
  <2>2. \A g : g # "user" => (<<g, c>> \in Entries(todo') <=> <<g, c>> \in Entries(todo))
    BY <1>4, <1>6, <2>1
  <2>3. (ClosesSoon(c)' <=> ClosesSoon(c)) /\ (Leaves(c)' <=> Leaves(c))
    BY <2>1, <2>2 DEF ClosesSoon, Leaves, Closer
  <2> QED
    BY <1>1, <1>11, <2>1, <2>2, <2>3 DEF Fate
<1> QED
  BY <1>2, <1>3, <1>6, <1>7, <1>9, <1>10, <1>11, ConnectionFrame


(***************************************************************************)
(* Steps of the loop.                                                      *)
(***************************************************************************)
LEMMA DispatchOK ==
  ASSUME ClientInv, NEW c \in adopted, dispatch(c, handle_event(revents[c])), UNCHANGED clientVars
  PROVE  ClientInv'
<1>1. /\ ClientTypeOK /\ QueueOK(pending) /\ QueueOK(batch) /\ ThreadOK /\ Phases /\ Behind
      /\ OneAttempt /\ ChannelOK /\ EventsOK /\ HandedOK /\ ResetInTime
      /\ CurrentOK /\ NotAdopted /\ OnlyGivenAway /\ NoOutput /\ \A d \in Mine : Fate(d)
      /\ OwnInv /\ SocketInv
  BY Invariants
<1>2. PICK steps : steps = handle_event(revents[c])
  OBVIOUS
<1>3. /\ phase = "dispatch" /\ todo = <<>> /\ revents[c] # {} /\ todo' = Tagged(c, steps)
      /\ revents' = [revents EXCEPT ![c] = {}]
      /\ conn' = conn /\ pending' = pending /\ batch' = batch /\ phase' = phase
  BY <1>2 DEF dispatch, BetweenCallbacks
<1>4. /\ c \in Conn /\ adopted \subseteq Conn /\ revents \in [Conn -> SUBSET Event]
      /\ pending \in Seq(Task) /\ batch \in Seq(Task)
  BY <1>1 DEF ClientTypeOK
<1>5. steps \in Seq(Callback) /\ AtMostOne(steps, {"handle_close", "handle_read"})
  BY <1>2, EventCallbacks
<1>6. /\ todo' \in Seq(Task) /\ \A e \in Entries(todo') : e[1] \in Callback /\ e[2] = c /\ e = <<e[1], c>>
  <2>1. \A f \in Callback : <<f, c>> \in Task
    BY <1>4, Distinct DEF Callback, Step
  <2> QED
    BY <1>3, <1>5, <2>1, TaggedOf
<1>7. AtMostOne(todo', Closers)
  <2>1. Len(steps) \in Nat /\ Len(todo') = Len(steps) /\ \A i \in 1..Len(steps) : todo'[i] = <<steps[i], c>>
    BY <1>3, <1>5 DEF Tagged
  <2>2. \A i \in 1..Len(steps) : steps[i] \in Callback
    BY <1>5
  <2>3. \A i \in 1..Len(steps) : todo'[i] \in Closers => steps[i] \in {"handle_close", "handle_read"}
    BY <2>1, <2>2 DEF Closers, Closer, Callback
  <2> QED
    BY <1>5, <2>1, <2>3 DEF AtMostOne
<1>8. Entries(todo') \subseteq Later \X adopted /\ Entries(todo) = {}
  <2>1. Entries(todo') \subseteq Later \X adopted
    BY <1>6 DEF Later, Callback
  <2> QED
    BY <1>3, <1>6, <2>1, TasksOf
<1>9. \A e \in {Start, Stop, Reset, ErrorEvent, WriteEvent} :
        e \notin Entries(todo) /\ e \notin Entries(todo')
  BY <1>4, <1>8, Distinct
<1>10. \A d \in Conn : /\ <<"new_connection", d>> \notin Entries(todo')
                       /\ <<"connect_established", d>> \notin Entries(todo')
                       /\ <<"close_callback", d>> \notin Entries(todo')
  BY <1>6 DEF Callback
<1>11. Queued' = Queued /\ \A e \in {Start, Stop, Reset} : e \in Tasks' <=> e \in Tasks
  BY <1>3, <1>9 DEF Queued, Tasks
<1>12. UNCHANGED <<connector, net, again, connection, adopted, alive, rebound, keeper, calls, faults>>
  BY DEF clientVars
<1>13. \A d \in Conn : revents'[d] = IF d = c THEN {} ELSE revents[d]
  BY <1>3, <1>4
<1>14. \A d \in Conn : d # c => ~ClosesSoon(d)'
  BY <1>6 DEF ClosesSoon
<1>20. ClientTypeOK'
  BY <1>1, <1>3, <1>6, <1>12 DEF ClientTypeOK
<1>21. QueueOK(pending)' /\ QueueOK(batch)'
  BY <1>1, <1>3, <1>12 DEF QueueOK
<1>22. ThreadOK'
  BY <1>8, <1>12 DEF ThreadOK
<1>23. Phases'
  <2>1. \A d \in Conn, g \in Functor \cup {"remove"} : <<g, d>> \notin Entries(todo')
    BY <1>6 DEF Functor, Callback
  <2> QED
    BY <1>1, <1>3, <1>9, <1>13, <2>1 DEF Phases
<1>24. Behind'
  <2>1. todo' # <<>> => Entries(Tail(todo')) \subseteq Later \X adopted
    <3>1. PICK t : t = todo'
      OBVIOUS
    <3>2. t # <<>> => Entries(Tail(t)) \subseteq Entries(t)
      BY <1>6, <3>1, TasksOf
    <3> QED
      BY <1>8, <3>1, <3>2
  <2> QED
    BY <1>7, <1>9, <1>10, <1>12, <2>1 DEF Behind, Closers
<1>25. OneAttempt'
  <2>1. Without(todo', {Start}) /\ AtMostOne(todo', {Start})
    BY <1>9 DEF Without, AtMostOne, Entries
  <2>2. OnceIn({Start}, todo', batch, pending)
    BY <1>1, <2>1 DEF OneAttempt, OnceIn
  <2> QED
    BY <1>1, <1>3, <1>11, <1>12, <2>2 DEF OneAttempt
<1>26. ChannelOK' /\ EventsOK' /\ HandedOK'
  BY <1>1, <1>9, <1>10, <1>11, <1>12 DEF ChannelOK, EventsOK, HandedOK
<1>27. ResetInTime'
  <2>1. connection # 0 => connection \in Conn
    BY <1>1, <1>4 DEF CurrentOK, Mine
  <2> QED
    BY <1>1, <1>3, <1>11, <1>12, <1>13, <1>14, <2>1 DEF ResetInTime
<1>28. CurrentOK' /\ OwnInv'
  BY <1>1, <1>11, <1>12 DEF CurrentOK, OwnInv, Mine
<1>29. NotAdopted'
  BY <1>1, <1>3, <1>12, <1>13 DEF NotAdopted
<1>30. OnlyGivenAway' /\ NoOutput'
  <2>1. \A d \in adopted : <<"force_close_in_loop", d>> \notin Entries(todo')
    BY <1>8 DEF Later
  <2> QED
    BY <1>1, <1>3, <1>11, <1>12, <2>1 DEF OnlyGivenAway, NoOutput, Tasks
<1>32. SocketInv'
  <2>1. \A d \in Conn : (Handed(d)' <=> Handed(d)) /\ (Trying(d)' <=> Trying(d))
    BY <1>8, <1>10, <1>12 DEF Handed, Trying
  <2>2. \A d \in 1..connector.made : d \in Conn
    BY <1>1, SocketAssumption, ClientAssumption DEF ChannelOK, ClientTypeOK, ConnectorRecord
  <2> QED
    BY <1>1, <1>12, <2>1, <2>2 DEF SocketInv
<1>33. ASSUME NEW d \in Mine PROVE Fate(d)'
  <2>1. d \in Conn /\ Fate(d) /\ conn'[d] = conn[d]
    BY <1>1, <1>3, <1>4 DEF Mine
  <2>2. Leaves(d) => Leaves(d)'
    BY <1>3, <2>1 DEF Leaves
  <2>3. conn[d].state # "Connecting" /\ (conn[d].downs # 0 => Leaves(d)')
    BY <1>8, <2>1, <2>2 DEF Fate
  <2>4. conn[d].downs = 0 => connection = d
    BY <2>1 DEF Fate
  <2>5. CASE d = c
    <3>1. connection = d /\ conn[d].downs = 0
      BY <1>3, <2>1, <2>5 DEF Fate
    <3> QED
      BY <1>3, <1>10, <1>12, <1>13, <2>1, <2>3, <2>5, <3>1 DEF Fate
  <2>6. CASE d # c
    <3>1. \A g : <<g, d>> \notin Entries(todo')
      BY <1>6, <2>6
    <3>2. ~ClosesSoon(d)' /\ revents'[d] = revents[d]
      BY <1>13, <1>14, <2>1, <2>6
    <3> QED
      BY <1>12, <2>1, <2>3, <2>4, <3>1, <3>2 DEF Fate
  <2> QED
    BY <2>5, <2>6
<1> QED
  BY <1>12, <1>20, <1>21, <1>22, <1>23, <1>24, <1>25, <1>26, <1>27, <1>28, <1>29, <1>30, <1>32, <1>33
  DEF ClientInv, ShapeInv, ConnectorInv, LifeInv, Mine

LEMMA PollOK ==
  ASSUME ClientInv, poll(Ready), UNCHANGED clientVars
  PROVE  ClientInv'
<1>1. /\ ClientTypeOK /\ QueueOK(pending) /\ QueueOK(batch) /\ ThreadOK /\ Phases /\ Behind
      /\ OneAttempt /\ ChannelOK /\ EventsOK /\ HandedOK /\ ResetInTime
      /\ CurrentOK /\ NotAdopted /\ OnlyGivenAway /\ NoOutput /\ \A d \in Mine : Fate(d)
      /\ OwnInv /\ SocketInv
  BY Invariants
<1>2. /\ phase = "poll" /\ phase' = "dispatch" /\ revents' = Ready
      /\ conn' = conn /\ pending' = pending /\ batch' = batch /\ todo' = todo
  BY DEF poll
<1>3. /\ adopted \subseteq Conn /\ conn \in [Conn -> Record] /\ todo \in Seq(Task)
  BY <1>1 DEF ClientTypeOK
<1>4. UNCHANGED <<connector, net, again, connection, adopted, alive, rebound, keeper, calls, faults>>
  BY DEF clientVars
<1>5. todo = <<>> /\ Entries(todo) = {} /\ batch = <<>> /\ Entries(batch) = {}
  BY <1>1, <1>2, <1>3, TasksOf DEF Phases
<1>6. Queued' = Queued /\ Tasks' = Tasks
  BY <1>2 DEF Queued, Tasks
<1>7. connector.watched \notin adopted
  BY <1>1, <1>3, Distinct DEF ChannelOK
<1>8. ASSUME NEW s \in Conn
      PROVE  /\ revents'[s] \in SUBSET Event
             /\ s \in adopted => revents'[s] \in {Revents(conn[s]), {}}
             /\ s \notin adopted /\ revents'[s] # {} => s = connector.watched
  <2>1. revents'[s] = IF s = connector.watched THEN ConnectEvents(s)
                      ELSE IF Live(s) THEN Revents(conn[s]) ELSE {}
    BY <1>2 DEF Ready
  <2>2. ConnectEvents(s) \in SUBSET Event /\ Revents(conn[s]) \in SUBSET Event
    BY DEF ConnectEvents, Revents, Event
  <2> QED
    BY <1>7, <2>1, <2>2 DEF Live
<1>9. ASSUME NEW s \in Conn, ~conn[s].registered PROVE Revents(conn[s]) = {}
  BY <1>9 DEF Revents, Hidden
<1>20. ClientTypeOK'
  <2>1. revents' \in [Conn -> SUBSET Event]
    BY <1>2, <1>8 DEF Ready
  <2> QED
    BY <1>1, <1>2, <1>4, <2>1 DEF ClientTypeOK
<1>21. QueueOK(pending)' /\ QueueOK(batch)' /\ ThreadOK'
  BY <1>1, <1>2, <1>4 DEF QueueOK, ThreadOK
<1>22. Phases'
  BY <1>2, <1>5 DEF Phases
<1>23. Behind'
  BY <1>1, <1>2, <1>5 DEF Behind, Closers
<1>24. OneAttempt' /\ ChannelOK' /\ EventsOK' /\ HandedOK'
  BY <1>1, <1>2, <1>4, <1>5, <1>6 DEF OneAttempt, ChannelOK, EventsOK, HandedOK
<1>25. ResetInTime'
  BY <1>1, <1>2, <1>4, <1>6 DEF ResetInTime
<1>26. CurrentOK' /\ OwnInv'
  BY <1>1, <1>4, <1>6 DEF CurrentOK, OwnInv, Mine
<1>27. NotAdopted'
  BY <1>1, <1>2, <1>4, <1>8 DEF NotAdopted
<1>28. OnlyGivenAway' /\ NoOutput'
  BY <1>1, <1>2, <1>4, <1>6 DEF OnlyGivenAway, NoOutput
<1>29. SocketInv'
  BY <1>1, <1>2, <1>4 DEF SocketInv, Trying, Handed
<1>30. ASSUME NEW d \in Mine PROVE Fate(d)'
  <2>1. d \in Conn /\ d \in adopted /\ Fate(d) /\ conn'[d] = conn[d]
    BY <1>1, <1>2, <1>3 DEF Mine
  <2>2. ~ClosesSoon(d) /\ ~ClosesSoon(d)' /\ \A g : <<g, d>> \notin Entries(todo')
    BY <1>2, <1>5 DEF ClosesSoon
  <2>3. conn[d].state # "Connecting"
    BY <1>5, <2>1 DEF Fate
  <2>4. conn[d].downs # 0 => ~conn[d].registered
    BY <1>2, <1>5, <2>1 DEF Fate, Leaves
  <2>5. revents'[d] # {} => conn[d].downs = 0
    BY <1>8, <1>9, <2>1, <2>4
  <2>6. conn[d].downs = 0 => connection = d
    BY <2>1 DEF Fate
  <2>7. conn[d].downs # 0 => Leaves(d)'
    BY <2>1, <2>4 DEF Leaves
  <2> QED
    BY <1>4, <2>1, <2>2, <2>3, <2>5, <2>6, <2>7 DEF Fate
<1> QED
  BY <1>4, <1>20, <1>21, <1>22, <1>23, <1>24, <1>25, <1>26, <1>27, <1>28, <1>29, <1>30
  DEF ClientInv, ShapeInv, ConnectorInv, LifeInv, Mine

LEMMA SwapOK ==
  ASSUME ClientInv, swap, UNCHANGED clientVars
  PROVE  ClientInv'
<1>1. /\ ClientTypeOK /\ QueueOK(pending) /\ QueueOK(batch) /\ ThreadOK /\ Phases /\ Behind
      /\ OneAttempt /\ ChannelOK /\ EventsOK /\ HandedOK /\ ResetInTime
      /\ CurrentOK /\ NotAdopted /\ OnlyGivenAway /\ NoOutput /\ \A d \in Mine : Fate(d)
      /\ OwnInv /\ SocketInv
  BY Invariants
<1>2. /\ phase = "dispatch" /\ phase' = "drain" /\ todo = <<>> /\ todo' = todo
      /\ batch' = pending /\ pending' = <<>> /\ conn' = conn /\ revents' = revents
      /\ \A c \in Conn : revents[c] = {}
  BY DEF swap, BetweenCallbacks, all_dispatched
<1>3. /\ adopted \subseteq Conn /\ todo \in Seq(Task) /\ pending \in Seq(Task) /\ batch \in Seq(Task)
  BY <1>1 DEF ClientTypeOK
<1>4. UNCHANGED <<connector, net, again, connection, adopted, alive, rebound, keeper, calls, faults>>
  BY DEF clientVars
<1>5. /\ Entries(todo) = {} /\ batch = <<>> /\ Entries(batch) = {} /\ Entries(pending') = {}
      /\ Entries(batch') = Entries(pending)
  BY <1>1, <1>2, <1>3, TasksOf DEF Phases
<1>6. Queued' = Queued /\ Tasks' = Tasks
  BY <1>2, <1>5 DEF Queued, Tasks
<1>20. ClientTypeOK'
  BY <1>1, <1>2, <1>4 DEF ClientTypeOK
<1>21. QueueOK(pending)' /\ QueueOK(batch)' /\ ThreadOK'
  BY <1>1, <1>2, <1>4, <1>5 DEF QueueOK, ThreadOK
<1>22. Phases'
  BY <1>2 DEF Phases
<1>23. Behind'
  BY <1>1, <1>2, <1>5 DEF Behind, Closers
<1>24. OneAttempt'
  <2>1. OnceIn({Start}, <<>>, pending, <<>>)
    BY <1>1, <1>3, MovesOf DEF OneAttempt
  <2> QED
    BY <1>1, <1>2, <1>4, <1>6, <2>1 DEF OneAttempt
<1>25. ChannelOK' /\ EventsOK' /\ HandedOK'
  BY <1>1, <1>2, <1>4, <1>5, <1>6 DEF ChannelOK, EventsOK, HandedOK
<1>26. ResetInTime'
  BY <1>2, <1>5 DEF ResetInTime
<1>27. CurrentOK' /\ OwnInv'
  BY <1>1, <1>4, <1>6 DEF CurrentOK, OwnInv, Mine
<1>28. NotAdopted' /\ OnlyGivenAway' /\ NoOutput'
  BY <1>1, <1>2, <1>4, <1>6 DEF NotAdopted, OnlyGivenAway, NoOutput
<1>29. SocketInv'
  BY <1>1, <1>2, <1>4 DEF SocketInv, Trying, Handed
<1>30. ASSUME NEW d \in Mine PROVE Fate(d)'
  <2>1. d \in Conn /\ Fate(d) /\ conn'[d] = conn[d]
    BY <1>1, <1>2, <1>3 DEF Mine
  <2>2. ~ClosesSoon(d)'
    BY <1>2, <1>5 DEF ClosesSoon
  <2>3. Leaves(d) => Leaves(d)'
    BY <1>2, <1>5, <2>1 DEF Leaves
  <2> QED
    BY <1>2, <1>4, <1>5, <2>1, <2>2, <2>3 DEF Fate
<1> QED
  BY <1>4, <1>20, <1>21, <1>22, <1>23, <1>24, <1>25, <1>26, <1>27, <1>28, <1>29, <1>30
  DEF ClientInv, ShapeInv, ConnectorInv, LifeInv, Mine

LEMMA DrainedOK ==
  ASSUME ClientInv, drained, UNCHANGED clientVars
  PROVE  ClientInv'
<1>1. /\ ClientTypeOK /\ QueueOK(pending) /\ QueueOK(batch) /\ ThreadOK /\ Phases /\ Behind
      /\ OneAttempt /\ ChannelOK /\ EventsOK /\ HandedOK /\ ResetInTime
      /\ CurrentOK /\ NotAdopted /\ OnlyGivenAway /\ NoOutput /\ \A d \in Mine : Fate(d)
      /\ OwnInv /\ SocketInv
  BY Invariants
<1>2. /\ phase = "drain" /\ phase' = "poll" /\ todo = <<>> /\ todo' = todo /\ batch = <<>>
      /\ batch' = batch /\ pending' = pending /\ conn' = conn /\ revents' = revents
  BY DEF drained
<1>3. /\ adopted \subseteq Conn /\ todo \in Seq(Task)
  BY <1>1 DEF ClientTypeOK
<1>4. UNCHANGED <<connector, net, again, connection, adopted, alive, rebound, keeper, calls, faults>>
  BY DEF clientVars
<1>5. /\ Entries(todo) = {} /\ Entries(batch) = {}
  BY <1>2, <1>3, TasksOf
<1>6. Queued' = Queued /\ Tasks' = Tasks
  BY <1>2 DEF Queued, Tasks
<1>20. ClientTypeOK'
  BY <1>1, <1>2, <1>4 DEF ClientTypeOK
<1>21. QueueOK(pending)' /\ QueueOK(batch)' /\ ThreadOK'
  BY <1>1, <1>2, <1>4, <1>5 DEF QueueOK, ThreadOK
<1>22. Phases' /\ Behind'
  BY <1>1, <1>2, <1>5 DEF Phases, Behind, Closers
<1>24. OneAttempt'
  BY <1>1, <1>2, <1>4, <1>6 DEF OneAttempt
<1>25. ChannelOK' /\ EventsOK' /\ HandedOK'
  BY <1>1, <1>2, <1>4, <1>5, <1>6 DEF ChannelOK, EventsOK, HandedOK
<1>26. ResetInTime'
  BY <1>1, <1>2, <1>4, <1>5, <1>6 DEF ResetInTime, Tasks, Queued
<1>27. CurrentOK' /\ OwnInv'
  BY <1>1, <1>4, <1>6 DEF CurrentOK, OwnInv, Mine
<1>28. NotAdopted' /\ OnlyGivenAway' /\ NoOutput'
  BY <1>1, <1>2, <1>4, <1>6 DEF NotAdopted, OnlyGivenAway, NoOutput
<1>29. SocketInv'
  BY <1>1, <1>2, <1>4 DEF SocketInv, Trying, Handed
<1>30. ASSUME NEW d \in Mine PROVE Fate(d)'
  <2>1. d \in Conn /\ Fate(d) /\ conn'[d] = conn[d]
    BY <1>1, <1>2, <1>3 DEF Mine
  <2>2. ~ClosesSoon(d)'
    BY <1>2, <1>5 DEF ClosesSoon
  <2>3. Leaves(d) => Leaves(d)'
    BY <1>2, <1>5, <2>1 DEF Leaves
  <2> QED
    BY <1>2, <1>4, <1>5, <2>1, <2>2, <2>3 DEF Fate
<1> QED
  BY <1>4, <1>20, <1>21, <1>22, <1>24, <1>25, <1>26, <1>27, <1>28, <1>29, <1>30
  DEF ClientInv, ShapeInv, ConnectorInv, LifeInv, Mine

LEMMA RunFunctorOK ==
  ASSUME ClientInv, run_functor, UNCHANGED clientVars
  PROVE  ClientInv'
<1>1. /\ ClientTypeOK /\ QueueOK(pending) /\ QueueOK(batch) /\ ThreadOK /\ Phases /\ Behind
      /\ OneAttempt /\ ChannelOK /\ EventsOK /\ HandedOK /\ ResetInTime
      /\ CurrentOK /\ NotAdopted /\ OnlyGivenAway /\ NoOutput /\ \A d \in Mine : Fate(d)
      /\ OwnInv /\ SocketInv
  BY Invariants
<1>2. PICK h, B : h = Head(batch) /\ B = Tail(batch)
  OBVIOUS
<1>3. /\ phase = "drain" /\ phase' = phase /\ todo = <<>> /\ todo' = <<h>> /\ batch # <<>>
      /\ batch' = B /\ pending' = pending /\ conn' = conn /\ revents' = revents
  BY <1>2 DEF run_functor
<1>4. /\ adopted \subseteq Conn /\ todo \in Seq(Task) /\ batch \in Seq(Task) /\ pending \in Seq(Task)
  BY <1>1 DEF ClientTypeOK
<1>5. UNCHANGED <<connector, net, again, connection, adopted, alive, rebound, keeper, calls, faults>>
  BY DEF clientVars
<1>6. /\ Entries(todo) = {} /\ h \in Task /\ B \in Seq(Task) /\ Entries(batch) = {h} \cup Entries(B)
  BY <1>2, <1>3, <1>4, TasksOf
<1>7. /\ todo' \in Seq(Task) /\ Entries(todo') = {h} /\ Tail(todo') = <<>> /\ Entries(<<>>) = {}
  BY <1>3, <1>4, <1>6, Prefix, TasksOf
<1>8. Queued' \subseteq Queued /\ Tasks' = Tasks
  BY <1>3, <1>6, <1>7 DEF Queued, Tasks
<1>9. h \in {Start, Stop, Reset} \cup (Functor \X adopted)
  BY <1>1, <1>6 DEF QueueOK
<1>10. /\ h \notin {ErrorEvent, WriteEvent}
       /\ \A c : h \notin {<<"new_connection", c>>, <<"connect_established", c>>, <<"close_callback", c>>,
                           <<"handle_close", c>>, <<"handle_read", c>>}
  BY <1>9 DEF Functor, Start, Stop, Reset, ErrorEvent, WriteEvent
<1>20. ClientTypeOK'
  BY <1>1, <1>3, <1>5, <1>6, <1>7 DEF ClientTypeOK
<1>21. QueueOK(pending)' /\ QueueOK(batch)' /\ ThreadOK'
  BY <1>1, <1>3, <1>5, <1>6, <1>7, <1>9 DEF QueueOK, ThreadOK
<1>22. Phases'
  BY <1>1, <1>3 DEF Phases
<1>23. Behind'
  <2>1. AtMostOne(todo', Closers)
    BY <1>3 DEF AtMostOne
  <2> QED
    BY <1>7, <1>10, <2>1 DEF Behind, Closers
<1>24. OneAttempt'
  <2>1. OnceIn({Start}, <<h>>, B, pending)
    BY <1>1, <1>2, <1>3, <1>4, MovesOf DEF OneAttempt
  <2> QED
    BY <1>1, <1>3, <1>5, <1>8, <2>1 DEF OneAttempt
<1>25. ChannelOK' /\ EventsOK' /\ HandedOK'
  BY <1>1, <1>3, <1>5, <1>7, <1>8, <1>10 DEF ChannelOK, EventsOK, HandedOK
<1>26. ResetInTime'
  BY <1>1, <1>3, <1>5 DEF ResetInTime
<1>27. CurrentOK' /\ OwnInv'
  BY <1>1, <1>5, <1>8 DEF CurrentOK, OwnInv, Mine
<1>28. NotAdopted' /\ OnlyGivenAway' /\ NoOutput'
  BY <1>1, <1>3, <1>5, <1>8 DEF NotAdopted, OnlyGivenAway, NoOutput
<1>29. SocketInv'
  <2>1. \A d : (Handed(d)' <=> Handed(d)) /\ (Trying(d)' <=> Trying(d))
    BY <1>5, <1>6, <1>7, <1>10 DEF Handed, Trying
  <2> QED
    BY <1>1, <1>5, <2>1 DEF SocketInv
<1>30. ASSUME NEW d \in Mine PROVE Fate(d)'
  <2>1. d \in Conn /\ d \in adopted /\ d \notin rebound /\ Fate(d) /\ conn'[d] = conn[d]
    BY <1>1, <1>3, <1>4 DEF Mine
  <2>2. h # <<"force_close_in_loop", d>>
    BY <1>1, <1>6, <2>1 DEF OnlyGivenAway, Tasks, Queued
  <2>3. ~ClosesSoon(d)'
    BY <1>7, <1>10, <2>2 DEF ClosesSoon, Closer
  <2>4. Leaves(d) => Leaves(d)'
    BY <1>3, <1>6, <1>7, <2>1 DEF Leaves
  <2>5. conn[d].state # "Connecting" /\ (conn[d].downs # 0 => Leaves(d)')
    BY <1>6, <2>1, <2>4 DEF Fate
  <2> QED
    BY <1>3, <1>5, <1>7, <1>10, <2>1, <2>3, <2>5 DEF Fate
<1> QED
  BY <1>5, <1>20, <1>21, <1>22, <1>23, <1>24, <1>25, <1>26, <1>27, <1>28, <1>29, <1>30
  DEF ClientInv, ShapeInv, ConnectorInv, LifeInv, Mine

LEMMA ConnectorDispatchOK ==
  ASSUME ClientInv, connector_dispatch
  PROVE  ClientInv'
<1>1. /\ ClientTypeOK /\ QueueOK(pending) /\ QueueOK(batch) /\ ThreadOK /\ Phases /\ Behind
      /\ OneAttempt /\ ChannelOK /\ EventsOK /\ HandedOK /\ ResetInTime
      /\ CurrentOK /\ NotAdopted /\ OnlyGivenAway /\ NoOutput /\ \A d \in Mine : Fate(d)
      /\ OwnInv /\ SocketInv
  BY Invariants
<1>2. PICK w : w = connector.watched
  OBVIOUS
<1>3. /\ phase = "dispatch" /\ phase' = phase /\ todo = <<>> /\ w # 0 /\ w \notin adopted
      /\ todo' = Tagged(0, connector_event(revents[w]))
      /\ revents' = [revents EXCEPT ![w] = {}]
      /\ batch' = batch /\ pending' = pending /\ conn' = conn
  BY <1>2 DEF connector_dispatch, BetweenCallbacks
<1>4. /\ adopted \subseteq Conn /\ todo \in Seq(Task) /\ batch \in Seq(Task) /\ pending \in Seq(Task)
      /\ revents \in [Conn -> SUBSET Event] /\ connector \in ConnectorRecord
  BY <1>1 DEF ClientTypeOK
<1>5. UNCHANGED <<connector, net, again, connection, adopted, alive, rebound, keeper, calls, faults>>
  BY DEF connector_dispatch, clientVars
<1>6. connector.state = "Connecting" /\ connector.channel = w /\ w \in Conn
  <2>1. connector.state = "Connecting" /\ connector.channel = w /\ w <= connector.made
        /\ connector.made <= MaxCalls + MaxFaults
    BY <1>1, <1>2, <1>3 DEF ChannelOK
  <2>2. w \in Nat /\ connector.made \in Nat
    BY <1>2, <1>4 DEF ConnectorRecord
  <2> QED
    BY <1>3, <2>1, <2>2, SocketAssumption, ClientAssumption
<1>7. todo' \in {<<WriteEvent>>, <<ErrorEvent, WriteEvent>>}
  <2>1. connector_event(revents[w]) \in {<<"connector_write">>, <<"connector_error", "connector_write">>}
    <3>1. <<"connector_error">> \o <<"connector_write">> = <<"connector_error", "connector_write">>
      <4>1. PICK S : S = {"connector_error", "connector_write"}
        OBVIOUS
      <4>2. "connector_error" \in S /\ "connector_write" \in S
        BY <4>1
      <4> QED
        BY <4>2, PairOf
    <3>2. <<>> \o <<"connector_write">> = <<"connector_write">>
      OBVIOUS
    <3> QED
      BY <3>1, <3>2 DEF connector_event
  <2> QED
    BY <1>3, <2>1, TaggedShort DEF WriteEvent, ErrorEvent
<1>8. /\ todo' \in Seq(Task) /\ Entries(todo') \subseteq {ErrorEvent, WriteEvent}
      /\ Entries(Tail(todo')) \subseteq {WriteEvent} /\ Entries(<<>>) = {} /\ Entries(todo) = {}
  <2>1. /\ <<WriteEvent>> \in Seq(Task) /\ Entries(<<WriteEvent>>) = {WriteEvent}
        /\ <<ErrorEvent, WriteEvent>> \in Seq(Task)
        /\ Entries(<<ErrorEvent, WriteEvent>>) = {ErrorEvent, WriteEvent}
        /\ Tail(<<WriteEvent>>) = <<>> /\ Tail(<<ErrorEvent, WriteEvent>>) = <<WriteEvent>>
    <3>1. WriteEvent \in Task /\ ErrorEvent \in Task
      BY Distinct
    <3>2. \A a \in Task : <<a>> \in Seq(Task) /\ Entries(<<a>>) = {a} /\ Tail(<<a>>) = <<>>
      BY Few
    <3>3. \A a, b \in Task : /\ <<a, b>> \in Seq(Task) /\ Entries(<<a, b>>) = {a, b}
                             /\ Tail(<<a, b>>) = <<b>>
      BY Few
    <3> QED
      BY <3>1, <3>2, <3>3
  <2>2. Entries(<<>>) = {}
    BY <1>4, TasksOf
  <2> QED
    BY <1>3, <1>7, <2>1, <2>2
<1>9. /\ \A e \in {Start, Stop, Reset} : e \notin Entries(todo')
      /\ \A f \in Step \cup {"new_connection"}, d \in Conn : <<f, d>> \notin Entries(todo')
  <2>1. \A e \in {Start, Stop, Reset} : e \notin {ErrorEvent, WriteEvent}
    BY DEF Start, Stop, Reset, ErrorEvent, WriteEvent
  <2> QED
    BY <1>8, <2>1, Distinct
<1>10. Queued' = Queued /\ \A e \in {Start, Stop, Reset} : e \in Tasks' <=> e \in Tasks
  BY <1>3, <1>8, <1>9 DEF Queued, Tasks
<1>11. \A d \in Conn : revents'[d] = IF d = w THEN {} ELSE revents[d]
  BY <1>3, <1>4
<1>20. ClientTypeOK'
  BY <1>1, <1>3, <1>5, <1>8 DEF ClientTypeOK
<1>21. QueueOK(pending)' /\ QueueOK(batch)' /\ ThreadOK'
  BY <1>1, <1>3, <1>5, <1>8 DEF QueueOK, ThreadOK
<1>22. Phases'
  <2>1. \A d \in Conn, g \in Functor \cup {"remove"} : <<g, d>> \notin Entries(todo')
    BY <1>9, Distinct DEF Later
  <2> QED
    BY <1>1, <1>3, <1>9, <1>11, <2>1 DEF Phases
<1>23. Behind'
  <2>1. AtMostOne(todo', Closers)
    BY <1>7, Distinct DEF AtMostOne, Closers
  <2>2. ErrorEvent \in Entries(todo') => todo' = <<ErrorEvent, WriteEvent>>
    <3>1. Entries(<<WriteEvent>>) = {WriteEvent} /\ ErrorEvent # WriteEvent
      BY <1>4, Prefix, Distinct DEF ErrorEvent, WriteEvent
    <3> QED
      BY <1>7, <3>1
  <2>3. \A d \in Conn, f \in {"new_connection", "connect_established"} : <<f, d>> \notin Entries(todo')
    BY <1>9 DEF Step, SharedFunctor
  <2> QED
    BY <1>3, <1>7, <1>8, <2>1, <2>2, <2>3 DEF Behind, Closers
<1>24. OneAttempt'
  <2>1. Without(todo', {Start}) /\ AtMostOne(todo', {Start})
    BY <1>9 DEF Without, AtMostOne, Entries
  <2>2. OnceIn({Start}, todo', batch, pending)
    BY <1>1, <2>1 DEF OneAttempt, OnceIn
  <2> QED
    BY <1>1, <1>3, <1>5, <1>10, <2>2 DEF OneAttempt
<1>25. ChannelOK' /\ HandedOK'
  BY <1>1, <1>5, <1>9, <1>10 DEF ChannelOK, HandedOK
<1>26. EventsOK'
  BY <1>5, <1>6, <1>11 DEF EventsOK
<1>27. ResetInTime'
  BY <1>5, <1>6 DEF ResetInTime
<1>28. CurrentOK' /\ OwnInv'
  BY <1>1, <1>5, <1>10 DEF CurrentOK, OwnInv, Mine
<1>29. NotAdopted'
  BY <1>1, <1>3, <1>5, <1>11 DEF NotAdopted
<1>30. OnlyGivenAway' /\ NoOutput'
  <2>1. \A d \in adopted : <<"force_close_in_loop", d>> \notin Entries(todo')
    BY <1>4, <1>9 DEF Step, SharedFunctor
  <2> QED
    BY <1>1, <1>3, <1>5, <1>10, <2>1 DEF OnlyGivenAway, NoOutput, Tasks
<1>31. SocketInv'
  <2>1. \A d \in Conn : (Handed(d)' <=> Handed(d)) /\ (Trying(d)' <=> Trying(d))
    BY <1>5, <1>8, <1>9 DEF Handed, Trying
  <2>2. \A d \in 1..connector.made : d \in Conn
    BY <1>1, SocketAssumption, ClientAssumption DEF ChannelOK, ClientTypeOK, ConnectorRecord
  <2> QED
    BY <1>1, <1>5, <2>1, <2>2 DEF SocketInv
<1>32. ASSUME NEW d \in Mine PROVE Fate(d)'
  <2>1. d \in Conn /\ d # w /\ Fate(d) /\ conn'[d] = conn[d] /\ revents'[d] = revents[d]
    BY <1>1, <1>3, <1>4, <1>11 DEF Mine
  <2>2. \A f \in Step : <<f, d>> \notin Entries(todo')
    BY <1>9, <2>1
  <2>3. ~ClosesSoon(d)' /\ (Leaves(d) => Leaves(d)')
    BY <1>3, <2>1, <2>2, Distinct DEF ClosesSoon, Leaves
  <2>4. conn[d].state # "Connecting" /\ (conn[d].downs # 0 => Leaves(d))
    BY <1>8, <2>1 DEF Fate
  <2>5. \A f \in {"connect_established", "close_callback", "handle_close", "handle_read"} :
          <<f, d>> \notin Entries(todo')
    BY <2>2 DEF Step, SharedFunctor
  <2> QED
    BY <1>5, <2>1, <2>3, <2>4, <2>5 DEF Fate
<1> QED
  BY <1>5, <1>20, <1>21, <1>22, <1>23, <1>24, <1>25, <1>26, <1>27, <1>28, <1>29, <1>30, <1>31, <1>32
  DEF ClientInv, ShapeInv, ConnectorInv, LifeInv, Mine

\* The connector does not change and no task but, perhaps, a shutdown is queued; a
\* connection may be shut down.
LEMMA ShutdownFrame ==
  ASSUME ClientInv, conn' \in [Conn -> Record],
         \A c \in Conn : \/ conn'[c] = conn[c]
                         \/ /\ c \in adopted /\ conn'[c].events \subseteq {"in"}
                            /\ conn'[c].registered = conn[c].registered
                            /\ conn'[c].downs = conn[c].downs
                            /\ \/ conn'[c].state = conn[c].state
                               \/ conn[c].state # "Connecting" /\ conn'[c].state = "Disconnecting",
         NEW E \in SUBSET ({"shutdown_in_loop"} \X adopted),
         pending' \in Seq(Task), Entries(pending') = Entries(pending) \cup E,
         OnceIn({Start}, todo, batch, pending'),
         UNCHANGED <<batch, phase, revents, todo>>,
         UNCHANGED <<connector, connection, adopted, alive, rebound>>,
         keeper' \in BOOLEAN, OwnInv'
  PROVE  ClientInv'
<1>1. /\ ClientTypeOK /\ QueueOK(pending) /\ QueueOK(batch) /\ ThreadOK /\ Phases /\ Behind
      /\ OneAttempt /\ ChannelOK /\ EventsOK /\ HandedOK /\ ResetInTime
      /\ CurrentOK /\ NotAdopted /\ OnlyGivenAway /\ NoOutput /\ \A d \in Mine : Fate(d)
      /\ SocketInv
  BY Invariants
<1>2. adopted \subseteq Conn
  BY <1>1 DEF ClientTypeOK
<1>3. ClientTypeOK'
  BY <1>1 DEF ClientTypeOK
<1>4. Queued' = Queued \cup E /\ Tasks' = Tasks \cup E /\ \A d : ClosesSoon(d)' <=> ClosesSoon(d)
  BY DEF Queued, Tasks, ClosesSoon
<1>5. /\ Start \notin E /\ Stop \notin E /\ Reset \notin E
      /\ \A d : <<"force_close_in_loop", d>> \notin E /\ <<"connect_destroyed", d>> \notin E
  BY DEF Start, Stop, Reset
<1>6. QueueOK(pending)' /\ QueueOK(batch)'
  BY <1>1 DEF QueueOK, Functor
<1>7. ThreadOK' /\ Phases' /\ Behind'
  BY <1>1 DEF ThreadOK, Phases, Behind, Closers
<1>8. OneAttempt' /\ ChannelOK' /\ EventsOK' /\ HandedOK' /\ ResetInTime'
  BY <1>1, <1>4, <1>5 DEF OneAttempt, ChannelOK, EventsOK, HandedOK, ResetInTime
<1>9. CurrentOK' /\ NotAdopted' /\ OnlyGivenAway' /\ NoOutput'
  BY <1>1, <1>2, <1>4, <1>5 DEF CurrentOK, NotAdopted, OnlyGivenAway, NoOutput, Mine
<1>10. SocketInv'
  BY <1>1 DEF SocketInv, Trying, Handed
<1>11. ASSUME NEW d \in Mine PROVE Fate(d)'
  <2>1. d \in Conn /\ Fate(d)
    BY <1>1, <1>2 DEF Mine
  <2>2. /\ conn'[d].registered = conn[d].registered /\ conn'[d].downs = conn[d].downs
        /\ \/ conn'[d].state = conn[d].state
           \/ conn[d].state # "Connecting" /\ conn'[d].state = "Disconnecting"
    BY <2>1
  <2>3. Leaves(d)' <=> Leaves(d)
    BY <1>5, <2>2 DEF Leaves
  <2> QED
    BY <1>4, <2>1, <2>2, <2>3 DEF Fate
<1> QED
  BY <1>3, <1>6, <1>7, <1>8, <1>9, <1>10, <1>11 DEF ClientInv, ShapeInv, ConnectorInv, LifeInv, Mine

\* The same, with nothing queued.
LEMMA RecordFrame ==
  ASSUME ClientInv, conn' \in [Conn -> Record],
         \A c \in Conn : \/ conn'[c] = conn[c]
                         \/ /\ c \in adopted /\ conn'[c].events \subseteq {"in"}
                            /\ conn'[c].registered = conn[c].registered
                            /\ conn'[c].downs = conn[c].downs
                            /\ \/ conn'[c].state = conn[c].state
                               \/ conn[c].state # "Connecting" /\ conn'[c].state = "Disconnecting",
         UNCHANGED <<pending, batch, phase, revents, todo>>,
         UNCHANGED <<connector, connection, adopted, alive, rebound>>,
         keeper' \in BOOLEAN, OwnInv'
  PROVE  ClientInv'
<1>1. ClientTypeOK /\ OneAttempt
  BY Invariants
<1>2. pending' \in Seq(Task) /\ OnceIn({Start}, todo, batch, pending')
  BY <1>1 DEF ClientTypeOK, OneAttempt
<1>3. Entries(pending') = Entries(pending) \cup {}
  OBVIOUS
<1>4. {} \in SUBSET ({"shutdown_in_loop"} \X adopted)
  OBVIOUS
<1> QED
  BY <1>2, <1>3, <1>4, ShutdownFrame

LEMMA OwnersKept ==
  ASSUME ClientInv, UNCHANGED <<pending, batch, todo, connector, connection, alive, keeper>>
  PROVE  OwnInv'
<1>1. OwnInv
  BY Invariants
<1>2. Queued' = Queued /\ Tasks' = Tasks
  BY DEF Queued, Tasks
<1> QED
  BY <1>1, <1>2 DEF OwnInv

LEMMA OutsideOK ==
  ASSUME ClientInv,
         \/ UNCHANGED vars
         \/ keeper_expired
         \/ \E s \in Conn : peer_acts(s) \/ \E answer \in {"up", "refused", "self"} : net_answers(s, answer)
  PROVE  ClientInv'
<1>1. ClientTypeOK /\ OwnInv /\ NoOutput
  BY Invariants
<1>2. conn \in [Conn -> Record] /\ adopted \subseteq Conn /\ keeper \in BOOLEAN
  BY <1>1 DEF ClientTypeOK
<1>3. CASE UNCHANGED vars
  <2>1. UNCHANGED <<conn, pending, batch, phase, revents, todo, connector, connection, adopted, alive,
                    rebound, keeper>>
    BY <1>3 DEF vars, ioVars, turnVars, clientVars
  <2>2. OwnInv'
    BY <2>1, OwnersKept
  <2> QED
    BY <1>2, <2>1, <2>2, RecordFrame
<1>4. CASE keeper_expired
  <2>1. UNCHANGED <<conn, pending, batch, phase, revents, todo, connector, connection, adopted, alive, rebound>>
        /\ keeper' = FALSE
    BY <1>4 DEF keeper_expired, ioVars, turnVars
  <2>2. Start \notin Tasks /\ Stop \notin Tasks /\ Reset \notin Tasks
    BY <1>4 DEF keeper_expired, ConnectorQueued, ConnectorFunctor, Tasks, Start, Stop, Reset
  <2>3. Queued' = Queued /\ Tasks' = Tasks
    BY <2>1 DEF Queued, Tasks
  <2>4. OwnInv'
    BY <1>1, <2>1, <2>2, <2>3 DEF OwnInv, Tasks
  <2> QED
    BY <1>2, <2>1, <2>4, RecordFrame
<1>5. ASSUME NEW s \in Conn, NEW answer, net_answers(s, answer) PROVE ClientInv'
  <2>1. UNCHANGED <<conn, pending, batch, phase, revents, todo, connector, connection, adopted, alive,
                    rebound, keeper>>
    BY <1>5 DEF net_answers, ioVars, turnVars
  <2>2. OwnInv'
    BY <2>1, OwnersKept
  <2> QED
    BY <1>2, <2>1, <2>2, RecordFrame
<1>6. ASSUME NEW s \in Conn, peer_acts(s) PROVE ClientInv'
  <2>1. UNCHANGED <<pending, batch, phase, revents, todo, connector, connection, adopted, alive,
                    rebound, keeper>> /\ s \in adopted
    BY <1>6 DEF peer_acts, peer_closes, peer_resets, turnVars, Live
  <2>2. PICK r : r = conn[s]
    OBVIOUS
  <2>3. r \in Record /\ r.events \subseteq {"in"}
    BY <1>1, <1>2, <2>1, <2>2 DEF NoOutput
  <2>4. \/ conn' = [conn EXCEPT ![s].peer = "fin"]
        \/ conn' = [conn EXCEPT ![s].peer = "rst", ![s].err = TRUE]
    BY <1>6 DEF peer_acts, peer_closes, peer_resets
  <2>5. PICK q \in {[r EXCEPT !.peer = "fin"], [r EXCEPT !.peer = "rst", !.err = TRUE]} :
          conn' = [conn EXCEPT ![s] = q]
    BY <1>2, <2>2, <2>4
  <2>6. /\ q \in Record /\ q.state = r.state /\ q.registered = r.registered /\ q.events = r.events
        /\ q.downs = r.downs
    BY <2>3, ZenonT(60) DEF Record
  <2>7. conn' \in [Conn -> Record] /\ \A c \in Conn : conn'[c] = IF c = s THEN q ELSE conn[c]
    BY <1>2, <2>5, <2>6
  <2>8. OwnInv'
    BY <2>1, OwnersKept
  <2> QED
    BY <1>2, <2>1, <2>2, <2>3, <2>6, <2>7, <2>8, RecordFrame
<1> QED
  BY <1>3, <1>4, <1>5, <1>6

LEMMA DisconnectOK ==
  ASSUME ClientInv, disconnect(FALSE)
  PROVE  ClientInv'
<1>1. ClientTypeOK /\ NoOutput /\ CurrentOK
  BY Invariants
<1>2. conn \in [Conn -> Record] /\ adopted \subseteq Conn /\ keeper \in BOOLEAN /\ pending \in Seq(Task)
      /\ todo \in Seq(Task)
  BY <1>1 DEF ClientTypeOK
<1>3. UNCHANGED <<connector, connection, adopted, alive, rebound, keeper>>
  BY DEF disconnect
<1>4. CASE connection = 0
  <2>1. UNCHANGED <<conn, pending, batch, phase, revents, todo>>
    BY <1>4 DEF disconnect, ioVars, turnVars
  <2>2. OwnInv'
    BY <1>3, <2>1, OwnersKept
  <2> QED
    BY <1>2, <1>3, <2>1, <2>2, RecordFrame
<1>5. CASE connection # 0
  <2>1. PICK c, r : c = connection /\ r = conn[c]
    OBVIOUS
  <2>2. c \in adopted /\ c \in Conn /\ r \in Record /\ r.events \subseteq {"in"}
    BY <1>1, <1>2, <1>5, <2>1 DEF CurrentOK, Mine, NoOutput
  <2>3. PICK res : res = Call("shutdown", r, 0)
    OBVIOUS
  <2>4. /\ res.q = <<>> /\ res.todo = <<>>
        /\ \/ res.r = r
           \/ /\ r.state = "Connected"
              /\ res.r = [r EXCEPT !.state = "Disconnecting", !.fin = TRUE, !.lost = @ + r.out]
    <3>1. res = IF r.state = "Connected" THEN shutdown_in_loop([r EXCEPT !.state = "Disconnecting"])
                ELSE Done(r)
      BY <2>3 DEF Call
    <3>2. PICK d : d = [r EXCEPT !.state = "Disconnecting"]
      OBVIOUS
    <3>3. d.events = r.events /\ d.out = r.out /\ "out" \notin d.events
      BY <2>2, <3>2 DEF Record
    <3>4. shutdown_in_loop(d) = Result([d EXCEPT !.fin = TRUE, !.lost = @ + r.out], <<>>, <<>>)
      BY <3>3 DEF shutdown_in_loop, Done
    <3>5. [d EXCEPT !.fin = TRUE, !.lost = @ + r.out]
            = [r EXCEPT !.state = "Disconnecting", !.fin = TRUE, !.lost = @ + r.out]
      BY <2>2, <3>2 DEF Record
    <3> QED
      BY <3>1, <3>2, <3>4, <3>5 DEF Done, Result
  <2>5. /\ res.r \in Record /\ res.r.events = r.events /\ res.r.registered = r.registered
        /\ res.r.downs = r.downs
        /\ \/ res.r.state = r.state
           \/ r.state = "Connected" /\ res.r.state = "Disconnecting"
    <3>1. r.lost + r.out \in Nat
      BY <2>2, FieldTypes
    <3>2. CASE res.r = r
      BY <2>2, <3>2
    <3>3. CASE r.state = "Connected"
               /\ res.r = [r EXCEPT !.state = "Disconnecting", !.fin = TRUE, !.lost = @ + r.out]
      BY <2>2, <3>1, <3>3, ZenonT(60) DEF Record, State
    <3> QED
      BY <2>4, <3>2, <3>3
  <2>6. /\ conn' = [conn EXCEPT ![c] = res.r] /\ pending' = pending /\ todo' = todo
        /\ UNCHANGED <<batch, phase, revents>>
    <3>1. Apply(c, res, todo)
      BY <1>5, <2>1, <2>3 DEF disconnect
    <3>2. Tagged(c, res.q) = <<>> /\ Tagged(c, res.todo) = <<>>
      BY <2>2, <2>4, TaggedShort
    <3>3. pending \o <<>> = pending /\ <<>> \o todo = todo
      BY <1>2
    <3> QED
      BY <3>1, <3>2, <3>3 DEF Apply
  <2>7. conn' \in [Conn -> Record] /\ \A d \in Conn : conn'[d] = IF d = c THEN res.r ELSE conn[d]
    BY <1>2, <2>5, <2>6
  <2>8. OwnInv'
    BY <1>3, <2>6, OwnersKept
  <2> QED
    BY <1>2, <1>3, <2>1, <2>2, <2>5, <2>6, <2>7, <2>8, RecordFrame
<1> QED
  BY <1>4, <1>5

\* disconnect() on another thread.
LEMMA DisconnectAwayOK ==
  ASSUME ClientInv, disconnect(TRUE)
  PROVE  ClientInv'
<1>1. ClientTypeOK /\ OneAttempt /\ NoOutput /\ CurrentOK /\ OwnInv
  BY Invariants
<1>2. conn \in [Conn -> Record] /\ adopted \subseteq Conn /\ keeper \in BOOLEAN /\ pending \in Seq(Task)
      /\ todo \in Seq(Task) /\ batch \in Seq(Task)
  BY <1>1 DEF ClientTypeOK
<1>3. UNCHANGED <<connector, connection, adopted, alive, rebound, keeper>>
  BY DEF disconnect
<1>4. CASE UNCHANGED <<conn, pending, batch, phase, revents, todo>>
  <2>1. OwnInv'
    BY <1>3, <1>4, OwnersKept
  <2> QED
    BY <1>2, <1>3, <1>4, <2>1, RecordFrame
<1>5. CASE connection # 0 /\ ~UNCHANGED <<conn, pending, batch, phase, revents, todo>>
  <2>1. PICK c, r, e : c = connection /\ r = conn[c] /\ e = <<"shutdown_in_loop", c>>
    OBVIOUS
  <2>2. c \in adopted /\ c \in Conn /\ r \in Record /\ r.events \subseteq {"in"}
    BY <1>1, <1>2, <1>5, <2>1 DEF CurrentOK, Mine, NoOutput
  <2>3. /\ r.state # "Connecting" /\ conn' = [conn EXCEPT ![c].state = "Disconnecting"]
        /\ pending' = Append(pending, e) /\ UNCHANGED <<batch, phase, revents, todo>>
    BY <1>5, <2>1 DEF disconnect, shutdown_away
  <2>4. PICK q : q = [r EXCEPT !.state = "Disconnecting"]
    OBVIOUS
  <2>5. /\ q \in Record /\ q.state = "Disconnecting" /\ q.registered = r.registered /\ q.events = r.events
        /\ q.downs = r.downs
    <3>1. Kept(r, q, {"state"}) /\ q.state = "Disconnecting"
      BY <2>2, <2>4, Assignments DEF State
    <3> QED
      BY <3>1 DEF Kept, Field
  <2>6. conn' \in [Conn -> Record] /\ \A d \in Conn : conn'[d] = IF d = c THEN q ELSE conn[d]
    BY <1>2, <2>1, <2>2, <2>3, <2>4, <2>5
  <2>7. e \in Task /\ e # Start /\ e # Stop /\ e # Reset
    BY <2>1, <2>2, Distinct DEF Step, RawFunctor, Start, Stop, Reset
  <2>8. pending' \in Seq(Task) /\ Entries(pending') = Entries(pending) \cup {e}
    BY <1>2, <2>3, <2>7, TasksOf
  <2>9. OnceIn({Start}, todo, batch, pending')
    BY <1>1, <1>2, <2>3, <2>7, MovesOf DEF OneAttempt
  <2>10. OwnInv'
    <3>1. Queued' = Queued \cup {e} /\ Tasks' = Tasks \cup {e}
      BY <2>3, <2>8 DEF Queued, Tasks
    <3> QED
      BY <1>1, <1>3, <2>7, <3>1 DEF OwnInv
  <2>11. {e} \in SUBSET ({"shutdown_in_loop"} \X adopted)
    BY <2>1, <2>2
  <2> QED
    BY <1>2, <1>3, <2>1, <2>2, <2>3, <2>5, <2>6, <2>8, <2>9, <2>10, <2>11, ShutdownFrame
<1>6. CASE connection = 0
  BY <1>4, <1>6 DEF disconnect, ioVars, turnVars
<1> QED
  BY <1>4, <1>5, <1>6

(***************************************************************************)
(* Calls and callbacks of the client.                                      *)
(***************************************************************************)
\* Nothing happens to connection d.
LEMMA FateKept ==
  ASSUME NEW d \in Conn, Fate(d), conn'[d] = conn[d], revents'[d] = revents[d], phase' = phase,
         connection = d => connection' = d,
         \A f \in Step : <<f, d>> \in Entries(todo') <=> <<f, d>> \in Entries(todo),
         \A f \in Step : <<f, d>> \in Entries(pending') <=> <<f, d>> \in Entries(pending),
         \A f \in Step : <<f, d>> \in Entries(batch') <=> <<f, d>> \in Entries(batch)
  PROVE  Fate(d)'
<1>1. /\ {"connect_established", "close_callback", "handle_close", "handle_read", "remove",
          "connect_destroyed"} \subseteq Step /\ Closer \subseteq Step
  BY Distinct DEF Step, SharedFunctor
<1>2. ClosesSoon(d)' <=> ClosesSoon(d)
  BY <1>1 DEF ClosesSoon
<1>3. Leaves(d)' <=> Leaves(d)
  BY <1>1 DEF Leaves
<1>4. \A f \in {"connect_established", "close_callback", "handle_close", "handle_read"} :
        <<f, d>> \in Entries(todo') <=> <<f, d>> \in Entries(todo)
  BY <1>1
<1> QED
  BY <1>2, <1>3, <1>4 DEF Fate

LEMMA StopOK ==
  ASSUME ClientInv, stop
  PROVE  ClientInv'
<1>1. /\ ClientTypeOK /\ QueueOK(pending) /\ QueueOK(batch) /\ ThreadOK /\ Phases /\ Behind
      /\ OneAttempt /\ ChannelOK /\ EventsOK /\ HandedOK /\ ResetInTime
      /\ CurrentOK /\ NotAdopted /\ OnlyGivenAway /\ NoOutput /\ \A d \in Mine : Fate(d)
      /\ OwnInv /\ SocketInv
  BY Invariants
<1>2. /\ connector' = [connector EXCEPT !.want = FALSE] /\ pending' = Append(pending, Stop)
      /\ alive /\ UNCHANGED <<conn, batch, phase, revents, todo, connection, adopted, alive, rebound, keeper>>
  BY DEF stop, Calling, Stopped, Stop
<1>3. /\ adopted \subseteq Conn /\ todo \in Seq(Task) /\ batch \in Seq(Task) /\ pending \in Seq(Task)
      /\ connector \in ConnectorRecord
  BY <1>1 DEF ClientTypeOK
<1>4. Stop \in Task /\ Stop # Start /\ Stop # Reset
  BY Distinct DEF Start, Stop, Reset
<1>5. pending' \in Seq(Task) /\ Entries(pending') = Entries(pending) \cup {Stop}
  BY <1>2, <1>3, <1>4, TasksOf
<1>6. /\ connector' \in ConnectorRecord
      /\ \A f \in {"state", "channel", "watched", "timers", "made", "closed"} : connector'[f] = connector[f]
  BY <1>2, <1>3 DEF ConnectorRecord
<1>7. /\ connector'.state = connector.state /\ connector'.channel = connector.channel
      /\ connector'.watched = connector.watched /\ connector'.timers = connector.timers
      /\ connector'.made = connector.made /\ connector'.closed = connector.closed
  BY <1>6
<1>8. /\ Tasks' = Tasks \cup {Stop} /\ (Reset \in Tasks' <=> Reset \in Tasks)
      /\ (Start \in Tasks' <=> Start \in Tasks) /\ \A d : ClosesSoon(d)' <=> ClosesSoon(d)
  BY <1>2, <1>4, <1>5 DEF Tasks, Queued, ClosesSoon
<1>9. \A d \in Conn, f \in Step : <<f, d>> # Stop
  BY Distinct
<1>20. ClientTypeOK'
  BY <1>1, <1>2, <1>5, <1>6 DEF ClientTypeOK
<1>21. QueueOK(pending)' /\ QueueOK(batch)' /\ ThreadOK' /\ Phases' /\ Behind'
  BY <1>1, <1>2, <1>5 DEF QueueOK, ThreadOK, Phases, Behind, Closers
<1>22. OneAttempt'
  <2>1. OnceIn({Start}, todo, batch, pending')
    BY <1>1, <1>2, <1>3, <1>4, MovesOf DEF OneAttempt
  <2> QED
    BY <1>1, <1>2, <1>7, <1>8, <2>1 DEF OneAttempt
<1>23. ChannelOK' /\ EventsOK' /\ HandedOK'
  BY <1>1, <1>2, <1>7, <1>8 DEF ChannelOK, EventsOK, HandedOK
<1>24. ResetInTime'
  BY <1>1, <1>2, <1>4, <1>5, <1>7, <1>8 DEF ResetInTime
<1>25. CurrentOK' /\ NotAdopted' /\ NoOutput'
  BY <1>1, <1>2, <1>7 DEF CurrentOK, NotAdopted, NoOutput, Mine
<1>26. OnlyGivenAway'
  BY <1>1, <1>2, <1>3, <1>8, <1>9 DEF OnlyGivenAway, Step, SharedFunctor
<1>27. OwnInv'
  BY <1>2 DEF OwnInv
<1>28. SocketInv'
  BY <1>1, <1>2, <1>7 DEF SocketInv, Trying, Handed
<1>29. ASSUME NEW d \in Mine PROVE Fate(d)'
  <2>1. d \in Conn /\ Fate(d)
    BY <1>1, <1>3 DEF Mine
  <2> QED
    BY <1>2, <1>5, <1>9, <2>1, FateKept
<1> QED
  BY <1>2, <1>20, <1>21, <1>22, <1>23, <1>24, <1>25, <1>26, <1>27, <1>28, <1>29
  DEF ClientInv, ShapeInv, ConnectorInv, LifeInv, Mine

\* The thread calls start_in_loop(): from user code, from a timer or from the close callback.
LEMMA Starts ==
  ASSUME ClientInv, NEW R \in Seq(Task), Entries(R) \subseteq Later \X adopted, AtMostOne(R, Closers),
         Start \notin Queued
  PROVE  LET t == <<Start>> \o R IN
         /\ t \in Seq(Task) /\ t # <<>> /\ Entries(t) = {Start} \cup Entries(R)
         /\ Entries(Tail(t)) \subseteq Later \X adopted
         /\ AtMostOne(t, Closers) /\ OnceIn({Start}, t, batch, pending)
<1>1. /\ adopted \subseteq Conn /\ batch \in Seq(Task) /\ pending \in Seq(Task)
      /\ OnceIn({Start}, todo, batch, pending)
  BY Invariants DEF ClientTypeOK, OneAttempt
<1>2. Start \in Task /\ Start \notin Closers /\ \A f, c : <<f, c>> \in Later \X adopted => <<f, c>> # Start
  BY <1>1, Distinct DEF Closers
<1>3. PICK t, s : t = <<Start>> \o R /\ s = <<Start>>
  OBVIOUS
<1>4. /\ t \in Seq(Task) /\ t # <<>> /\ Entries(t) = {Start} \cup Entries(R) /\ Tail(t) = R
      /\ s \in Seq(Task) /\ Entries(s) = {Start}
  BY <1>2, <1>3, Prefix, ZenonT(60)
<1>5. AtMostOne(s, Closers) /\ AtMostOne(s, {Start})
  BY <1>3 DEF AtMostOne
<1>6. AtMostOne(t, Closers)
  BY <1>2, <1>3, <1>4, <1>5, OneOfTasks, ZenonT(60)
<1>7. Without(R, {Start}) /\ AtMostOne(R, {Start})
  <2>1. Start \notin Entries(R)
    BY <1>1, Distinct
  <2> QED
    BY <2>1 DEF Without, AtMostOne, Entries
<1>8. AtMostOne(t, {Start})
  BY <1>3, <1>4, <1>5, <1>7, OneOfTasks DEF Without
<1>9. Without(batch, {Start}) /\ Without(pending, {Start})
  BY DEF Without, Queued
<1>10. OnceIn({Start}, t, batch, pending)
  BY <1>1, <1>8, <1>9 DEF OnceIn
<1> QED
  BY <1>3, <1>4, <1>6, <1>10

LEMMA OnLoop ==
  ASSUME ClientInv, OnLoopThread
  PROVE  /\ phase # "poll" /\ Entries(todo) \subseteq Later \X adopted
         /\ \A e \in {Start, Stop, Reset, ErrorEvent, WriteEvent} : e \notin Entries(todo)
         /\ \A c \in Conn, f \in {"new_connection", "connect_established"} : <<f, c>> \notin Entries(todo)
<1>1. ClientTypeOK /\ ThreadOK
  BY Invariants
<1>2. todo \in Seq(Task) /\ adopted \subseteq Conn
  BY <1>1 DEF ClientTypeOK
<1>3. Entries(todo) \subseteq Later \X adopted
  <2>1. CASE todo = <<>>
    BY <1>2, <2>1, TasksOf
  <2>2. CASE todo # <<>> /\ Head(todo)[1] = "user"
    <3>1. Entries(todo) = {Head(todo)} \cup Entries(Tail(todo))
      BY <1>2, <2>2, TasksOf
    <3>2. Head(todo) \in {Start, Stop, Reset, ErrorEvent, WriteEvent} \cup ({"new_connection"} \X Conn)
                \cup ((Functor \cup Later \cup {"connect_established"}) \X adopted)
      BY <1>1, <3>1 DEF ThreadOK
    <3>3. Head(todo) \notin {Start, Stop, Reset, ErrorEvent, WriteEvent}
          /\ Head(todo) \notin {"new_connection"} \X Conn
      BY <2>2 DEF Start, Stop, Reset, ErrorEvent, WriteEvent
    <3>4. Head(todo) \in Later \X adopted
      BY <2>2, <3>2, <3>3 DEF Later, Functor
    <3>5. Entries(Tail(todo)) \subseteq Later \X adopted
      BY <2>2, <3>3, RestOf
    <3> QED
      BY <3>1, <3>4, <3>5
  <2> QED
    BY <2>1, <2>2 DEF OnLoopThread, InUserCode
<1>4. \A e \in {Start, Stop, Reset, ErrorEvent, WriteEvent} : e \notin Entries(todo)
  BY <1>2, <1>3, Distinct
<1>5. \A c \in Conn, f \in {"new_connection", "connect_established"} : <<f, c>> \notin Entries(todo)
  BY <1>3 DEF Later
<1> QED
  BY <1>3, <1>4, <1>5 DEF OnLoopThread

LEMMA ConnectOK ==
  ASSUME ClientInv, NEW away \in BOOLEAN, connect(away)
  PROVE  ClientInv'
<1>1. /\ ClientTypeOK /\ QueueOK(pending) /\ QueueOK(batch) /\ ThreadOK /\ Phases /\ Behind
      /\ OneAttempt /\ ChannelOK /\ EventsOK /\ HandedOK /\ ResetInTime
      /\ CurrentOK /\ NotAdopted /\ OnlyGivenAway /\ NoOutput /\ \A d \in Mine : Fate(d)
      /\ OwnInv /\ SocketInv
  BY Invariants
<1>2. /\ connector' = [connector EXCEPT !.want = TRUE] /\ connector.state = "Disconnected"
      /\ connector.timers = 0 /\ Start \notin Tasks /\ Reset \notin Tasks
      /\ alive /\ UNCHANGED <<conn, batch, phase, revents, connection, adopted, alive, rebound, keeper>>
  BY DEF connect, Calling, Started, Start, Reset, Tasks
<1>3. /\ adopted \subseteq Conn /\ todo \in Seq(Task) /\ batch \in Seq(Task) /\ pending \in Seq(Task)
      /\ connector \in ConnectorRecord
  BY <1>1 DEF ClientTypeOK
<1>4. Start \in Task /\ Start # Stop /\ Start # Reset /\ Start # WriteEvent /\ Start # ErrorEvent
      /\ \A d \in Conn, f \in Step \cup {"new_connection"} : <<f, d>> # Start
  BY Distinct DEF Start, Stop, Reset, ErrorEvent, WriteEvent
<1>5. /\ connector' \in ConnectorRecord
      /\ \A f \in {"state", "channel", "watched", "timers", "made", "closed"} : connector'[f] = connector[f]
  BY <1>2, <1>3 DEF ConnectorRecord
<1>6. /\ connector'.state = connector.state /\ connector'.channel = connector.channel
      /\ connector'.watched = connector.watched /\ connector'.timers = connector.timers
      /\ connector'.made = connector.made /\ connector'.closed = connector.closed
  BY <1>5
<1>7. \/ /\ away /\ todo' = todo /\ pending' = Append(pending, Start)
      \/ /\ ~away /\ OnLoopThread /\ todo' = <<Start>> \o todo /\ pending' = pending
  BY DEF connect, Start
<1>8. /\ pending' \in Seq(Task) /\ todo' \in Seq(Task)
      /\ OnceIn({Start}, todo', batch, pending')
      /\ \/ todo' = todo /\ Entries(pending') = Entries(pending) \cup {Start}
         \/ /\ pending' = pending /\ Entries(todo') = Entries(todo) \cup {Start}
            /\ phase # "poll" /\ Entries(todo) \subseteq Later \X adopted
            /\ todo' # <<>> /\ Entries(Tail(todo')) \subseteq Later \X adopted
            /\ AtMostOne(todo', Closers)
            /\ \A e \in {Start, Stop, Reset, ErrorEvent, WriteEvent} : e \notin Entries(todo)
            /\ \A c \in Conn, f \in {"new_connection", "connect_established"} : <<f, c>> \notin Entries(todo)
  <2>1. Start \notin Queued /\ Start \notin Entries(todo)
    BY <1>2 DEF Tasks
  <2>2. CASE away
    <3>1. Entries(pending') = Entries(pending) \cup {Start} /\ pending' \in Seq(Task)
      <4>1. pending' = Append(pending, Start)
        BY <1>7, <2>2
      <4> QED
        BY <1>3, <1>4, <4>1, TasksOf
    <3>2. Without(todo, {Start}) /\ Without(batch, {Start}) /\ Without(pending, {Start})
      BY <2>1 DEF Without, Queued
    <3>3. OnceIn({Start}, todo, batch, Append(pending, Start))
      BY <1>1, <1>3, <1>4, <3>2, MovesOf DEF OneAttempt
    <3> QED
      BY <1>3, <1>7, <2>2, <3>1, <3>3
  <2>3. CASE ~away
    <3>1. OnLoopThread
      BY <1>7, <2>3
    <3>2. /\ phase # "poll" /\ Entries(todo) \subseteq Later \X adopted
          /\ \A e \in {Start, Stop, Reset, ErrorEvent, WriteEvent} : e \notin Entries(todo)
          /\ \A c \in Conn, f \in {"new_connection", "connect_established"} : <<f, c>> \notin Entries(todo)
      BY <3>1, OnLoop
    <3>3. AtMostOne(todo, Closers)
      BY <1>1 DEF Behind
    <3>4. PICK t : t = <<Start>> \o todo
      OBVIOUS
    <3>5. /\ t \in Seq(Task) /\ t # <<>> /\ Entries(t) = {Start} \cup Entries(todo)
          /\ Entries(Tail(t)) \subseteq Later \X adopted
          /\ AtMostOne(t, Closers) /\ OnceIn({Start}, t, batch, pending)
      BY <1>3, <2>1, <3>2, <3>3, <3>4, Starts
    <3> QED
      BY <1>3, <1>7, <2>3, <3>2, <3>4, <3>5
  <2> QED
    BY <2>2, <2>3
<1>9. /\ Tasks' = Tasks \cup {Start} /\ Queued' \subseteq Queued \cup {Start}
      /\ \A e : e # Start => /\ e \in Entries(todo') <=> e \in Entries(todo)
                             /\ e \in Entries(pending') <=> e \in Entries(pending)
  BY <1>2, <1>8 DEF Tasks, Queued
<1>20. ClientTypeOK'
  BY <1>1, <1>2, <1>5, <1>8 DEF ClientTypeOK
<1>21. QueueOK(pending)' /\ QueueOK(batch)' /\ ThreadOK'
  BY <1>1, <1>2, <1>8 DEF QueueOK, ThreadOK
<1>22. Phases'
  <2>1. \A d \in Conn, f \in Functor \cup {"remove"} : <<f, d>> # Start
    BY <1>4, Distinct DEF Later
  <2> QED
    BY <1>1, <1>2, <1>4, <1>8, <1>9, <2>1 DEF Phases
<1>23. Behind'
  <2>1. CASE todo' = todo
    BY <1>1, <1>2, <2>1 DEF Behind, Closers
  <2>2. CASE todo' # todo
    <3>1. \A e \in {ErrorEvent, WriteEvent} : e \notin Entries(todo')
      BY <1>4, <1>8, <2>2
    <3>2. \A c \in Conn, f \in {"new_connection", "connect_established"} : <<f, c>> \notin Entries(todo')
      <4>1. \A c \in Conn, f \in {"new_connection", "connect_established"} : <<f, c>> # Start
        BY DEF Start
      <4> QED
        BY <1>8, <2>2, <4>1
    <3> QED
      BY <1>2, <1>8, <2>2, <3>1, <3>2 DEF Behind, Closers
  <2> QED
    BY <2>1, <2>2
<1>24. OneAttempt'
  BY <1>2, <1>6, <1>8 DEF OneAttempt
<1>25. ChannelOK'
  BY <1>1, <1>2, <1>4, <1>6, <1>9 DEF ChannelOK
<1>26. EventsOK'
  <2>1. WriteEvent \in Entries(todo') => todo' = todo
    BY <1>4, <1>8
  <2> QED
    BY <1>1, <1>2, <1>4, <1>6, <1>9, <2>1 DEF EventsOK
<1>27. HandedOK'
  <2>1. \A s \in Conn : <<"new_connection", s>> # Start
    BY <1>4
  <2> QED
    BY <1>1, <1>2, <1>6, <1>9, <2>1 DEF HandedOK
<1>28. ResetInTime'
  BY <1>2, <1>6 DEF ResetInTime
<1>29. CurrentOK' /\ NotAdopted' /\ NoOutput'
  BY <1>1, <1>2, <1>6 DEF CurrentOK, NotAdopted, NoOutput, Mine
<1>30. OnlyGivenAway'
  BY <1>1, <1>2, <1>3, <1>4, <1>9 DEF OnlyGivenAway, Step, SharedFunctor
<1>31. OwnInv'
  BY <1>2 DEF OwnInv
<1>32. SocketInv'
  <2>1. \A s \in Conn : (Handed(s)' <=> Handed(s)) /\ (Trying(s)' <=> Trying(s))
    BY <1>4, <1>6, <1>9 DEF Handed, Trying
  <2>2. \A d \in 1..connector.made : d \in Conn
    BY <1>1, SocketAssumption, ClientAssumption DEF ChannelOK, ClientTypeOK, ConnectorRecord
  <2> QED
    BY <1>1, <1>2, <1>6, <2>1, <2>2 DEF SocketInv
<1>33. ASSUME NEW d \in Mine PROVE Fate(d)'
  <2>1. d \in Conn /\ Fate(d)
    BY <1>1, <1>3 DEF Mine
  <2>2. \A f \in Step : /\ <<f, d>> \in Entries(todo') <=> <<f, d>> \in Entries(todo)
                        /\ <<f, d>> \in Entries(pending') <=> <<f, d>> \in Entries(pending)
    BY <1>4, <1>9, <2>1
  <2> QED
    BY <1>2, <2>1, <2>2, FateKept
<1> QED
  BY <1>2, <1>20, <1>21, <1>22, <1>23, <1>24, <1>25, <1>26, <1>27, <1>28, <1>29, <1>30, <1>31, <1>32, <1>33
  DEF ClientInv, ShapeInv, ConnectorInv, LifeInv, Mine

LEMMA RetryOK ==
  ASSUME ClientInv, retry_expired
  PROVE  ClientInv'
<1>1. /\ ClientTypeOK /\ QueueOK(pending) /\ QueueOK(batch) /\ ThreadOK /\ Phases /\ Behind
      /\ OneAttempt /\ ChannelOK /\ EventsOK /\ HandedOK /\ ResetInTime
      /\ CurrentOK /\ NotAdopted /\ OnlyGivenAway /\ NoOutput /\ \A d \in Mine : Fate(d)
      /\ OwnInv /\ SocketInv
  BY Invariants
<1>2. /\ connector' = [connector EXCEPT !.timers = @ - 1] /\ connector.timers > 0
      /\ phase = "dispatch" /\ todo = <<>> /\ todo' = <<Start>>
      /\ UNCHANGED <<conn, pending, batch, phase, revents, connection, adopted, alive, rebound, keeper>>
  BY DEF retry_expired, BetweenCallbacks, Start
<1>3. /\ adopted \subseteq Conn /\ batch \in Seq(Task) /\ pending \in Seq(Task)
      /\ connector \in ConnectorRecord /\ todo \in Seq(Task)
  BY <1>1 DEF ClientTypeOK
<1>4. Start \in Task /\ Start # Stop /\ Start # Reset /\ Start # WriteEvent /\ Start # ErrorEvent
      /\ \A d \in Conn, f \in Step \cup {"new_connection"} : <<f, d>> # Start
  BY Distinct DEF Start, Stop, Reset, ErrorEvent, WriteEvent
<1>6. connector.timers = 1
  BY <1>2, <1>3 DEF ConnectorRecord
<1>5. Start \notin Tasks /\ Reset \notin Tasks /\ Start \notin Queued
  <2>1. Start \notin Tasks
    BY <1>1, <1>6 DEF OneAttempt
  <2>2. Reset \notin Queued /\ Entries(todo) = {}
    BY <1>2, <1>3, TasksOf DEF retry_expired, Reset
  <2> QED
    BY <2>1, <2>2 DEF Tasks
<1>7. /\ connector' = [connector EXCEPT !.timers = 0]
  BY <1>2, <1>3, <1>6 DEF ConnectorRecord
<1>8. /\ connector' \in ConnectorRecord /\ connector'.timers = 0
      /\ \A f \in {"want", "state", "channel", "watched", "made", "closed"} : connector'[f] = connector[f]
  BY <1>3, <1>7 DEF ConnectorRecord
<1>9. /\ connector'.state = connector.state /\ connector'.channel = connector.channel
      /\ connector'.watched = connector.watched /\ connector'.want = connector.want
      /\ connector'.made = connector.made /\ connector'.closed = connector.closed
  BY <1>8
<1>10. connector.state = "Disconnected"
  BY <1>1, <1>6 DEF OneAttempt
<1>11. /\ Entries(todo) = {} /\ Entries(<<>>) = {} /\ todo' \in Seq(Task) /\ Entries(todo') = {Start}
       /\ Tail(todo') = <<>>
  BY <1>2, <1>3, <1>4, TasksOf, Few
<1>12. /\ OnceIn({Start}, todo', batch, pending) /\ AtMostOne(todo', Closers)
  <2>1. AtMostOne(todo', {Start}) /\ AtMostOne(todo', Closers)
    BY <1>2 DEF AtMostOne
  <2>2. Without(batch, {Start}) /\ Without(pending, {Start})
    BY <1>5 DEF Without, Queued
  <2> QED
    BY <1>1, <2>1, <2>2 DEF OneAttempt, OnceIn
<1>13. Queued' = Queued /\ Tasks' = Tasks \cup {Start}
  BY <1>2, <1>11 DEF Queued, Tasks
<1>20. ClientTypeOK'
  BY <1>1, <1>2, <1>8, <1>11 DEF ClientTypeOK
<1>21. QueueOK(pending)' /\ QueueOK(batch)' /\ ThreadOK'
  BY <1>1, <1>2, <1>11 DEF QueueOK, ThreadOK
<1>22. Phases'
  <2>1. \A d \in Conn, f \in Functor \cup {"remove"} : <<f, d>> # Start
    BY <1>4, Distinct DEF Later
  <2> QED
    BY <1>1, <1>2, <1>4, <1>11, <2>1 DEF Phases
<1>23. Behind'
  BY <1>4, <1>11, <1>12 DEF Behind, Closers, Step, SharedFunctor
<1>24. OneAttempt'
  BY <1>2, <1>8, <1>9, <1>10, <1>12 DEF OneAttempt
<1>25. ChannelOK'
  BY <1>1, <1>2, <1>4, <1>5, <1>9, <1>13 DEF ChannelOK
<1>26. EventsOK' /\ HandedOK'
  BY <1>4, <1>11 DEF EventsOK, HandedOK
<1>27. ResetInTime'
  BY <1>9, <1>10 DEF ResetInTime
<1>28. CurrentOK' /\ NotAdopted' /\ NoOutput'
  BY <1>1, <1>2, <1>9 DEF CurrentOK, NotAdopted, NoOutput, Mine
<1>29. OnlyGivenAway'
  BY <1>1, <1>2, <1>3, <1>4, <1>13 DEF OnlyGivenAway, Step, SharedFunctor
<1>30. OwnInv'
  BY <1>1, <1>2, <1>4, <1>5, <1>9, <1>10, <1>13 DEF OwnInv
<1>31. SocketInv'
  <2>1. \A s \in Conn : (Handed(s)' <=> Handed(s)) /\ (Trying(s)' <=> Trying(s))
    BY <1>4, <1>9, <1>11 DEF Handed, Trying
  <2>2. \A d \in 1..connector.made : d \in Conn
    BY <1>1, SocketAssumption, ClientAssumption DEF ChannelOK, ClientTypeOK, ConnectorRecord
  <2> QED
    BY <1>1, <1>2, <1>9, <2>1, <2>2 DEF SocketInv
<1>32. ASSUME NEW d \in Mine PROVE Fate(d)'
  <2>1. d \in Conn /\ Fate(d)
    BY <1>1, <1>3 DEF Mine
  <2>2. \A f \in Step : <<f, d>> \in Entries(todo') <=> <<f, d>> \in Entries(todo)
    BY <1>4, <1>11, <2>1
  <2> QED
    BY <1>2, <2>1, <2>2, FateKept
<1> QED
  BY <1>2, <1>20, <1>21, <1>22, <1>23, <1>24, <1>25, <1>26, <1>27, <1>28, <1>29, <1>30, <1>31, <1>32
  DEF ClientInv, ShapeInv, ConnectorInv, LifeInv, Mine

\* ~TcpClient() of a client that has no connection.
LEMMA DestroyIdleOK ==
  ASSUME ClientInv, destroy_client, connection = 0
  PROVE  ClientInv'
<1>1. /\ ClientTypeOK /\ QueueOK(pending) /\ QueueOK(batch) /\ ThreadOK /\ Phases /\ Behind
      /\ OneAttempt /\ ChannelOK /\ EventsOK /\ HandedOK /\ ResetInTime
      /\ CurrentOK /\ NotAdopted /\ OnlyGivenAway /\ NoOutput /\ \A d \in Mine : Fate(d)
      /\ OwnInv /\ SocketInv
  BY Invariants
<1>2. /\ connector' = [connector EXCEPT !.want = FALSE] /\ pending' = Append(pending, Stop)
      /\ OnLoopThread /\ keeper' = TRUE /\ alive' = FALSE /\ connection' = 0
      /\ UNCHANGED <<conn, batch, phase, revents, todo, adopted, rebound>>
  BY DEF destroy_client, StopConnector, Calling, Stopped, Stop
<1>3. /\ adopted \subseteq Conn /\ todo \in Seq(Task) /\ batch \in Seq(Task) /\ pending \in Seq(Task)
      /\ connector \in ConnectorRecord
  BY <1>1 DEF ClientTypeOK
<1>4. Stop \in Task /\ Stop # Start /\ Stop # Reset
  BY Distinct DEF Start, Stop, Reset
<1>5. pending' \in Seq(Task) /\ Entries(pending') = Entries(pending) \cup {Stop}
  BY <1>2, <1>3, <1>4, TasksOf
<1>6. /\ connector' \in ConnectorRecord /\ ~connector'.want
      /\ \A f \in {"state", "channel", "watched", "timers", "made", "closed"} : connector'[f] = connector[f]
  BY <1>2, <1>3 DEF ConnectorRecord
<1>7. /\ connector'.state = connector.state /\ connector'.channel = connector.channel
      /\ connector'.watched = connector.watched /\ connector'.timers = connector.timers
      /\ connector'.made = connector.made /\ connector'.closed = connector.closed
  BY <1>6
<1>8. /\ Tasks' = Tasks \cup {Stop} /\ (Reset \in Tasks' <=> Reset \in Tasks)
      /\ (Start \in Tasks' <=> Start \in Tasks) /\ \A d : ClosesSoon(d)' <=> ClosesSoon(d)
  BY <1>2, <1>4, <1>5 DEF Tasks, Queued, ClosesSoon
<1>9. \A d \in Conn, f \in Step : <<f, d>> # Stop
  BY Distinct
<1>10. \A c \in Conn : <<"new_connection", c>> \notin Entries(todo)
  BY <1>2, OnLoop
<1>20. ClientTypeOK'
  BY <1>1, <1>2, <1>5, <1>6 DEF ClientTypeOK
<1>21. QueueOK(pending)' /\ QueueOK(batch)' /\ ThreadOK' /\ Phases' /\ Behind'
  BY <1>1, <1>2, <1>5 DEF QueueOK, ThreadOK, Phases, Behind, Closers
<1>22. OneAttempt'
  <2>1. OnceIn({Start}, todo, batch, pending')
    BY <1>1, <1>2, <1>3, <1>4, MovesOf DEF OneAttempt
  <2> QED
    BY <1>1, <1>2, <1>7, <1>8, <2>1 DEF OneAttempt
<1>23. ChannelOK' /\ EventsOK' /\ HandedOK'
  BY <1>1, <1>2, <1>7, <1>8, <1>10 DEF ChannelOK, EventsOK, HandedOK
<1>24. ResetInTime'
  BY <1>1, <1>2, <1>4, <1>5, <1>7, <1>8 DEF ResetInTime
<1>25. CurrentOK' /\ NotAdopted' /\ NoOutput'
  BY <1>1, <1>2, <1>7 DEF CurrentOK, NotAdopted, NoOutput, Mine
<1>26. OnlyGivenAway'
  BY <1>1, <1>2, <1>3, <1>8, <1>9 DEF OnlyGivenAway, Step, SharedFunctor
<1>27. OwnInv'
  BY <1>2, <1>6, <1>8 DEF OwnInv
<1>28. SocketInv'
  BY <1>1, <1>2, <1>7 DEF SocketInv, Trying, Handed
<1>29. ASSUME NEW d \in Mine PROVE Fate(d)'
  <2>1. d \in Conn /\ Fate(d) /\ connection # d
    BY <1>1, <1>3, Distinct DEF Mine
  <2> QED
    BY <1>2, <1>5, <1>9, <2>1, FateKept
<1> QED
  BY <1>2, <1>20, <1>21, <1>22, <1>23, <1>24, <1>25, <1>26, <1>27, <1>28, <1>29
  DEF ClientInv, ShapeInv, ConnectorInv, LifeInv, Mine

\* ~TcpClient() of a client that has a connection, which it gives away.
LEMMA DestroyConnectedOK ==
  ASSUME ClientInv, destroy_client, connection # 0
  PROVE  ClientInv'
<1>1. /\ ClientTypeOK /\ QueueOK(pending) /\ QueueOK(batch) /\ ThreadOK /\ Phases /\ Behind
      /\ OneAttempt /\ ChannelOK /\ EventsOK /\ HandedOK /\ ResetInTime
      /\ CurrentOK /\ NotAdopted /\ OnlyGivenAway /\ NoOutput /\ \A d \in Mine : Fate(d)
      /\ OwnInv /\ SocketInv
  BY Invariants
<1>2. PICK c, r, res : c = connection /\ r = conn[c] /\ res = force_close(r)
  OBVIOUS
<1>3. /\ Apply(c, res, todo) /\ ~ConnectorQueued
      /\ alive' = FALSE /\ connection' = 0 /\ rebound' = rebound \cup {c}
      /\ UNCHANGED <<connector, adopted, keeper>>
  BY <1>2 DEF destroy_client
<1>4. /\ adopted \subseteq Conn /\ todo \in Seq(Task) /\ batch \in Seq(Task) /\ pending \in Seq(Task)
      /\ conn \in [Conn -> Record] /\ rebound \subseteq adopted
  BY <1>1 DEF ClientTypeOK
<1>5. /\ c \in Mine /\ c \in adopted /\ c \in Conn /\ r \in Record /\ r.events \subseteq {"in"}
      /\ connector.state = "Connected" /\ c # 0
  BY <1>1, <1>2, <1>4 DEF CurrentOK, Mine, NoOutput
<1>6. /\ res.todo = <<>> /\ res.q \in {<<>>, <<"force_close_in_loop">>}
      /\ res.r \in Record /\ res.r.events \subseteq {"in"}
  <2>1. \/ res = Result([r EXCEPT !.state = "Disconnecting"], <<"force_close_in_loop">>, <<>>)
        \/ res = Result(r, <<>>, <<>>)
    BY <1>2 DEF force_close, Done
  <2>2. PICK d : d = [r EXCEPT !.state = "Disconnecting"]
    OBVIOUS
  <2>3. d \in Record /\ d.events = r.events
    BY <1>5, <2>2 DEF Record, State
  <2>4. CASE res = Result(d, <<"force_close_in_loop">>, <<>>)
    BY <1>5, <2>3, <2>4 DEF Result
  <2>5. CASE res = Result(r, <<>>, <<>>)
    BY <1>5, <2>5 DEF Result
  <2> QED
    BY <2>1, <2>2, <2>4, <2>5
<1>7. PICK q : q = Tagged(c, res.q)
  OBVIOUS
<1>8. /\ q \in Seq(Task) /\ Entries(q) \subseteq {<<"force_close_in_loop", c>>}
  <2>1. <<"force_close_in_loop", c>> \in Task
    BY <1>5, Distinct DEF Step, SharedFunctor
  <2>2. q \in {<<>>, <<<<"force_close_in_loop", c>>>>}
    BY <1>5, <1>6, <1>7, TaggedShort
  <2>3. Entries(<<>>) = {}
    BY <1>4, TasksOf
  <2>4. PICK e : e = <<"force_close_in_loop", c>>
    OBVIOUS
  <2>5. <<e>> \in Seq(Task) /\ Entries(<<e>>) = {e}
    BY <2>1, <2>4, Few
  <2>6. q = <<>> \/ q = <<e>>
    BY <2>2, <2>4
  <2>7. <<>> \in Seq(Task)
    OBVIOUS
  <2> QED
    BY <2>3, <2>4, <2>5, <2>6, <2>7
<1>9. /\ conn' = [conn EXCEPT ![c] = res.r] /\ pending' = pending \o q /\ todo' = todo
      /\ UNCHANGED <<batch, phase, revents>>
  <2>1. Tagged(c, res.todo) = <<>> /\ <<>> \o todo = todo
    BY <1>4, <1>5, <1>6, TaggedShort
  <2> QED
    BY <1>3, <1>7, <2>1 DEF Apply
<1>10. /\ pending' \in Seq(Task)
       /\ Entries(pending) \subseteq Entries(pending')
       /\ Entries(pending') \subseteq Entries(pending) \cup {<<"force_close_in_loop", c>>}
  BY <1>4, <1>8, <1>9, TasksOf
<1>11. \A d \in Conn : conn'[d] = IF d = c THEN res.r ELSE conn[d]
  BY <1>4, <1>5, <1>9
<1>12. Start \notin Tasks /\ Stop \notin Tasks /\ Reset \notin Tasks
  BY <1>3 DEF ConnectorQueued, ConnectorFunctor, Tasks, Start, Stop, Reset
<1>13. <<"force_close_in_loop", c>> \notin {Start, Stop, Reset, ErrorEvent, WriteEvent}
  BY <1>5, Distinct DEF Step, SharedFunctor
<1>14. /\ Tasks' \subseteq Tasks \cup {<<"force_close_in_loop", c>>}
       /\ Queued' \subseteq Tasks'
       /\ Start \notin Tasks' /\ Stop \notin Tasks' /\ Reset \notin Tasks'
  BY <1>9, <1>10, <1>12, <1>13 DEF Tasks, Queued
<1>15. \A s \in Conn : <<"new_connection", s>> \notin Entries(todo)
  BY <1>1, <1>2, <1>5 DEF HandedOK
<1>20. ClientTypeOK'
  <2>1. conn' \in [Conn -> Record]
    BY <1>4, <1>5, <1>6, <1>9
  <2>2. rebound' \subseteq adopted'
    BY <1>3, <1>4, <1>5
  <2> QED
    BY <1>1, <1>3, <1>9, <1>10, <2>1, <2>2 DEF ClientTypeOK
<1>21. QueueOK(pending)' /\ QueueOK(batch)' /\ ThreadOK'
  BY <1>1, <1>3, <1>5, <1>9, <1>10 DEF QueueOK, ThreadOK, Functor
<1>22. Phases' /\ Behind'
  BY <1>1, <1>3, <1>9 DEF Phases, Behind, Closers
<1>23. OneAttempt'
  <2>1. Without(q, {Start})
    BY <1>8, <1>13 DEF Without
  <2>2. OnceIn({Start}, todo, batch, pending \o q)
    BY <1>1, <1>4, <1>8, <2>1, MovesOf DEF OneAttempt
  <2> QED
    BY <1>1, <1>3, <1>9, <1>12, <1>14, <2>2 DEF OneAttempt
<1>24. ChannelOK' /\ EventsOK' /\ HandedOK'
  BY <1>1, <1>3, <1>9, <1>12, <1>14, <1>15 DEF ChannelOK, EventsOK, HandedOK
<1>25. ResetInTime'
  BY <1>3, <1>14 DEF ResetInTime, Tasks, Queued
<1>26. CurrentOK' /\ OwnInv'
  BY <1>3, <1>5, <1>14 DEF CurrentOK, OwnInv
<1>27. NotAdopted' /\ NoOutput'
  BY <1>1, <1>3, <1>4, <1>5, <1>6, <1>9, <1>11 DEF NotAdopted, NoOutput
<1>28. OnlyGivenAway'
  BY <1>1, <1>3, <1>14 DEF OnlyGivenAway
<1>29. SocketInv'
  BY <1>1, <1>3, <1>9 DEF SocketInv, Trying, Handed
<1>30. ASSUME NEW d \in Mine, d # c PROVE Fate(d)'
  <2>1. d \in Conn /\ Fate(d) /\ connection # d
    BY <1>1, <1>2, <1>4, <1>30 DEF Mine
  <2>2. \A f : <<f, d>> \in Entries(pending') <=> <<f, d>> \in Entries(pending)
    BY <1>10, <1>30
  <2> QED
    BY <1>9, <1>11, <1>30, <2>1, <2>2, FateKept
<1>31. \A d \in Mine' : d \in Mine /\ d # c
  BY <1>3 DEF Mine
<1> QED
  BY <1>20, <1>21, <1>22, <1>23, <1>24, <1>25, <1>26, <1>27, <1>28, <1>29, <1>30, <1>31
  DEF ClientInv, ShapeInv, ConnectorInv, LifeInv

LEMMA NewConnectionOK ==
  ASSUME ClientInv, new_connection
  PROVE  ClientInv'
<1>1. /\ ClientTypeOK /\ QueueOK(pending) /\ QueueOK(batch) /\ ThreadOK /\ Phases /\ Behind
      /\ OneAttempt /\ ChannelOK /\ EventsOK /\ HandedOK /\ ResetInTime
      /\ CurrentOK /\ NotAdopted /\ OnlyGivenAway /\ NoOutput /\ \A d \in Mine : Fate(d)
      /\ OwnInv /\ SocketInv
  BY Invariants
<1>2. PICK h, R, s : h = Head(todo) /\ R = Tail(todo) /\ s = Head(todo)[2]
  OBVIOUS
<1>3. /\ todo # <<>> /\ h[1] = "new_connection" /\ connection' = s /\ adopted' = adopted \cup {s}
      /\ todo' = <<<<"connect_established", s>>>> \o R
      /\ UNCHANGED <<conn, pending, batch, phase, revents, connector, alive, rebound, keeper>>
  BY <1>2 DEF new_connection
<1>4. /\ adopted \subseteq Conn /\ todo \in Seq(Task) /\ batch \in Seq(Task) /\ pending \in Seq(Task)
      /\ rebound \subseteq adopted
  BY <1>1 DEF ClientTypeOK
<1>5. h \in Task /\ R \in Seq(Task) /\ Entries(todo) = {h} \cup Entries(R)
  BY <1>2, <1>3, HeadOf
<1>6. h = <<"new_connection", s>> /\ s \in Conn
  <2>1. h \in {Start, Stop, Reset, ErrorEvent, WriteEvent} \cup ({"new_connection"} \X Conn)
                \cup ((Functor \cup Later \cup {"connect_established"}) \X adopted)
    BY <1>1, <1>5 DEF ThreadOK
  <2>2. h \notin {Start, Stop, Reset, ErrorEvent, WriteEvent}
        /\ h \notin (Functor \cup Later \cup {"connect_established"}) \X adopted
    BY <1>3 DEF Start, Stop, Reset, ErrorEvent, WriteEvent, Functor, Later
  <2>3. h \in {"new_connection"} \X Conn
    BY <2>1, <2>2
  <2> QED
    BY <1>2, <2>3
<1>7. R = <<>> /\ phase = "dispatch"
  BY <1>2, <1>3, <1>6, HeadOf
<1>8. /\ connector.state = "Connected" /\ connection = 0 /\ alive /\ s \notin adopted
      /\ s <= connector.made /\ revents[s] = {}
  BY <1>1, <1>5, <1>6 DEF HandedOK
<1>9. PICK e : e = <<"connect_established", s>>
  OBVIOUS
<1>10. /\ e \in Task /\ e \notin {Start, Stop, Reset, ErrorEvent, WriteEvent}
       /\ todo' = <<e>> /\ todo' \in Seq(Task) /\ Entries(todo') = {e} /\ Tail(todo') = <<>>
       /\ Entries(<<>>) = {} /\ Entries(todo) = {h}
  <2>1. e \in Task /\ e \notin {Start, Stop, Reset, ErrorEvent, WriteEvent}
    BY <1>6, <1>9, Distinct DEF Step, SharedFunctor
  <2>2. todo' = <<e>>
    BY <1>3, <1>4, <1>7, <1>9, <2>1, Prefix
  <2>3. Entries(<<>>) = {}
    BY <1>4, TasksOf
  <2> QED
    BY <1>5, <1>7, <2>1, <2>2, <2>3, Few
<1>11. h \notin {Start, Stop, Reset, ErrorEvent, WriteEvent}
  BY <1>6, Distinct
<1>12. /\ Queued' = Queued
       /\ Start \notin Entries(todo) /\ Start \notin Entries(todo')
       /\ Reset \notin Entries(todo) /\ Reset \notin Entries(todo')
       /\ (Start \in Tasks' <=> Start \in Tasks) /\ (Stop \in Tasks' <=> Stop \in Tasks)
       /\ (Reset \in Tasks' <=> Reset \in Tasks)
  BY <1>3, <1>10, <1>11 DEF Queued, Tasks
<1>20. ClientTypeOK'
  BY <1>1, <1>3, <1>6, <1>10 DEF ClientTypeOK
<1>21. QueueOK(pending)' /\ QueueOK(batch)' /\ ThreadOK'
  <2>1. QueueOK(pending)' /\ QueueOK(batch)'
    BY <1>1, <1>3 DEF QueueOK
  <2> QED
    BY <1>3, <1>9, <1>10, <2>1 DEF ThreadOK
<1>22. Phases'
  BY <1>1, <1>3, <1>7, <1>9, <1>10 DEF Phases, Functor
<1>23. Behind'
  <2>1. AtMostOne(todo', Closers)
    BY <1>10 DEF AtMostOne
  <2>2. \A d \in Conn, f \in {"new_connection", "connect_established"} :
          <<f, d>> \in Entries(todo') => <<f, d>> = e
    BY <1>10
  <2> QED
    BY <1>3, <1>7, <1>10, <2>1, <2>2 DEF Behind, Closers
<1>24. OneAttempt'
  <2>1. Without(todo', {Start}) /\ AtMostOne(todo', {Start})
    BY <1>12 DEF Without, AtMostOne, Entries
  <2>2. OnceIn({Start}, todo', batch, pending)
    BY <1>1, <2>1 DEF OneAttempt, OnceIn
  <2> QED
    BY <1>1, <1>3, <1>12, <2>2 DEF OneAttempt
<1>25. ChannelOK'
  BY <1>1, <1>3, <1>8, <1>12 DEF ChannelOK
<1>26. EventsOK' /\ HandedOK'
  BY <1>9, <1>10 DEF EventsOK, HandedOK
<1>27. ~ClosesSoon(s)' /\ \A d \in Conn, f \in Step : <<f, d>> \in Entries(todo') => d = s /\ f = "connect_established"
  BY <1>9, <1>10 DEF ClosesSoon, Closer
<1>28. ResetInTime'
  BY <1>1, <1>3, <1>7, <1>8, <1>27 DEF ResetInTime
<1>29. CurrentOK' /\ OwnInv'
  BY <1>3, <1>4, <1>8 DEF CurrentOK, OwnInv, Mine
<1>30. NotAdopted'
  BY <1>1, <1>3 DEF NotAdopted
<1>31. conn[s] = New
  BY <1>1, <1>6, <1>8 DEF NotAdopted
<1>32. NoOutput'
  BY <1>1, <1>3, <1>31 DEF NoOutput, New
<1>33. OnlyGivenAway'
  <2>1. <<"force_close_in_loop", s>> \notin Queued
    BY <1>1, <1>8 DEF QueueOK, Queued, Start, Stop, Reset
  <2>2. \A d \in adopted' : <<"force_close_in_loop", d>> \notin Entries(todo')
    BY <1>9, <1>10
  <2> QED
    BY <1>1, <1>3, <1>12, <2>1, <2>2 DEF OnlyGivenAway, Tasks
<1>34. SocketInv'
  <2>1. \A d : Trying(d)' <=> Trying(d)
    BY <1>3 DEF Trying
  <2>2. \A d \in Conn : (Handed(d) <=> d = s) /\ ~Handed(d)'
    BY <1>6, <1>9, <1>10 DEF Handed
  <2>3. \A d \in 1..connector.made : d \in Conn
    BY <1>1, SocketAssumption, ClientAssumption DEF ChannelOK, ClientTypeOK, ConnectorRecord
  <2>4. s \in Nat /\ connector.made \in Nat
    BY <1>1, <1>6, SocketAssumption DEF ClientTypeOK, ConnectorRecord
  <2>5. ~(s > connector.made) /\ ~Trying(s)
    BY <1>8, <2>4 DEF Trying
  <2> QED
    BY <1>1, <1>3, <2>1, <2>2, <2>3, <2>5 DEF SocketInv
<1>35. Fate(s)'
  <2>1. conn'[s].state = "Connecting" /\ conn'[s].downs = 0 /\ revents'[s] = {} /\ e \in Entries(todo')
    BY <1>3, <1>8, <1>10, <1>31 DEF New
  <2> QED
    BY <1>3, <1>9, <1>10, <1>27, <2>1 DEF Fate
<1>36. ASSUME NEW d \in Mine PROVE Fate(d)'
  <2>1. d \in Conn /\ d # s /\ Fate(d) /\ connection # d
    BY <1>1, <1>4, <1>8, Distinct DEF Mine
  <2>2. \A f \in Step : <<f, d>> \in Entries(todo') <=> <<f, d>> \in Entries(todo)
    BY <1>6, <1>9, <1>10, <2>1
  <2> QED
    BY <1>3, <2>1, <2>2, FateKept
<1>37. \A d \in Mine' : d = s \/ d \in Mine
  BY <1>3 DEF Mine
<1> QED
  BY <1>20, <1>21, <1>22, <1>23, <1>24, <1>25, <1>26, <1>28, <1>29, <1>30, <1>32, <1>33, <1>34, <1>35,
     <1>36, <1>37
  DEF ClientInv, ShapeInv, ConnectorInv, LifeInv


\* remove_connection(), or detail::remove_connection() of a connection that was given away.
LEMMA CloseCallbackOK ==
  ASSUME ClientInv, close_callback
  PROVE  ClientInv'
<1>1. /\ ClientTypeOK /\ QueueOK(pending) /\ QueueOK(batch) /\ ThreadOK /\ Phases /\ Behind
      /\ OneAttempt /\ ChannelOK /\ EventsOK /\ HandedOK /\ ResetInTime
      /\ CurrentOK /\ NotAdopted /\ OnlyGivenAway /\ NoOutput /\ \A d \in Mine : Fate(d)
      /\ OwnInv /\ SocketInv
  BY Invariants
<1>2. PICK h, R, c, e : /\ h = Head(todo) /\ R = Tail(todo) /\ c = Head(todo)[2]
                        /\ e = <<"connect_destroyed", c>>
  OBVIOUS
<1>3. /\ adopted \subseteq Conn /\ todo \in Seq(Task) /\ batch \in Seq(Task) /\ pending \in Seq(Task)
      /\ connector \in ConnectorRecord /\ rebound \subseteq adopted /\ conn \in [Conn -> Record]
  BY <1>1 DEF ClientTypeOK
<1>4. /\ todo # <<>> /\ h[1] = "close_callback" /\ pending' = Append(pending, e)
      /\ UNCHANGED <<conn, batch, phase, revents, adopted, alive, rebound, keeper>>
  BY <1>2 DEF close_callback
<1>5. h \in Task /\ R \in Seq(Task) /\ Entries(todo) = {h} \cup Entries(R) /\ phase # "poll"
  BY <1>2, <1>4, HeadOf
<1>6. h = <<"close_callback", c>> /\ c \in adopted /\ c \in Conn
  <2>1. h \in {Start, Stop, Reset, ErrorEvent, WriteEvent} \cup ({"new_connection"} \X Conn)
                \cup ((Functor \cup Later \cup {"connect_established"}) \X adopted)
    BY <1>1, <1>5 DEF ThreadOK
  <2>2. h \notin {Start, Stop, Reset, ErrorEvent, WriteEvent} /\ h \notin {"new_connection"} \X Conn
    BY <1>4 DEF Start, Stop, Reset, ErrorEvent, WriteEvent
  <2>3. h \in (Functor \cup Later \cup {"connect_established"}) \X adopted
    BY <2>1, <2>2
  <2> QED
    BY <1>2, <1>3, <1>4, <2>3
<1>7. h \in Closers /\ h # ErrorEvent
  BY <1>6 DEF Closers, Closer, ErrorEvent
<1>8. Entries(R) \subseteq Later \X adopted /\ AtMostOne(R, Closers) /\ Entries(R) \cap Closers = {}
  <2>1. Entries(R) \subseteq Later \X adopted
    BY <1>2, <1>4, <1>7, RestOf
  <2> QED
    BY <1>2, <1>4, <1>7, <2>1, HeadOf
<1>9. /\ e \in Task /\ e \notin {Start, Stop, Reset, ErrorEvent, WriteEvent}
  BY <1>2, <1>6, Distinct DEF Step, SharedFunctor
<1>10. pending' \in Seq(Task) /\ Entries(pending') = Entries(pending) \cup {e}
  BY <1>3, <1>4, <1>9, TasksOf
<1>11. /\ \A d \in Conn, f \in {"new_connection", "connect_established"} : <<f, d>> \notin Entries(todo)
       /\ \A x \in {Start, Stop, Reset, ErrorEvent, WriteEvent} : x \notin Entries(todo)
  <2>1. \A d \in Conn, f \in {"new_connection", "connect_established"} : <<f, d>> \notin Entries(todo)
    BY <1>5, <1>6, <1>8 DEF Later
  <2>2. h \notin {Start, Stop, Reset, ErrorEvent, WriteEvent}
    BY <1>4 DEF Start, Stop, Reset, ErrorEvent, WriteEvent
  <2> QED
    BY <1>3, <1>5, <1>8, <2>1, <2>2, Distinct
\* What the callback does to the connector.
<1>12. c \in Mine => /\ connection = c /\ alive /\ phase = "dispatch" /\ revents[c] = {}
                     /\ conn[c].downs # 0 /\ connector.state = "Connected"
                     /\ Reset \notin Tasks /\ connector.channel = 0
  <2> HAVE c \in Mine
  <2>1. ClosesSoon(c) /\ Fate(c) /\ c # 0
    BY <1>1, <1>5, <1>6, Distinct DEF ClosesSoon, Closer
  <2>2. connection = c /\ phase = "dispatch" /\ revents[c] = {} /\ conn[c].downs # 0
    BY <1>5, <1>6, <2>1 DEF Fate
  <2>3. alive /\ connector.state = "Connected"
    BY <1>1, <2>1, <2>2 DEF CurrentOK
  <2>4. Reset \notin Tasks
    BY <1>1, <2>1, <2>2, <2>3 DEF ResetInTime
  <2>5. connector.channel = 0
    BY <1>1, <2>3, <2>4 DEF ChannelOK
  <2> QED
    BY <2>2, <2>3, <2>4, <2>5
<1>13. connection' = IF c \in Mine THEN 0 ELSE connection
  BY <1>2, <1>6 DEF close_callback, Mine
<1>14. \/ connector' = connector /\ todo' = <<>> \o R
       \/ /\ c \in Mine /\ todo' = <<Start>> \o R
          /\ connector' = [connector EXCEPT !.state = "Disconnected", !.delay = InitDelay, !.want = TRUE]
  <2>1. c \notin rebound => alive /\ connection = c
    BY <1>6, <1>12 DEF Mine
  <2> QED
    BY <1>2, <1>6, <2>1 DEF close_callback, Assert, restart, Start, Mine
<1>15. c \in Mine => Start \notin Queued
  BY <1>1, <1>12 DEF OneAttempt, Tasks
<1>16. \/ /\ connector' = connector /\ todo' = R
       \/ /\ c \in Mine /\ connector' \in ConnectorRecord /\ connector'.state = "Disconnected"
          /\ \A f \in {"channel", "watched", "timers", "made", "closed"} : connector'[f] = connector[f]
          /\ todo' \in Seq(Task) /\ todo' # <<>> /\ Entries(todo') = {Start} \cup Entries(R)
          /\ Entries(Tail(todo')) \subseteq Later \X adopted /\ AtMostOne(todo', Closers)
          /\ OnceIn({Start}, todo', batch, pending)
  <2>1. CASE connector' = connector /\ todo' = <<>> \o R
    BY <1>5, <2>1
  <2>2. CASE /\ c \in Mine /\ todo' = <<Start>> \o R
             /\ connector' = [connector EXCEPT !.state = "Disconnected", !.delay = InitDelay, !.want = TRUE]
    <3>1. connector' \in ConnectorRecord /\ connector'.state = "Disconnected"
          /\ \A f \in {"channel", "watched", "timers", "made", "closed"} : connector'[f] = connector[f]
      <4>1. InitDelay \in Nat
        BY ClientAssumption
      <4> QED
        BY <1>3, <2>2, <4>1 DEF ConnectorRecord
    <3>2. PICK t : t = <<Start>> \o R
      OBVIOUS
    <3>3. /\ t \in Seq(Task) /\ t # <<>> /\ Entries(t) = {Start} \cup Entries(R)
          /\ Entries(Tail(t)) \subseteq Later \X adopted
          /\ AtMostOne(t, Closers) /\ OnceIn({Start}, t, batch, pending)
      BY <1>5, <1>8, <1>15, <2>2, <3>2, Starts
    <3> QED
      BY <2>2, <3>1, <3>2, <3>3
  <2> QED
    BY <1>14, <2>1, <2>2
<1>17. /\ connector' \in ConnectorRecord
       /\ connector'.channel = connector.channel /\ connector'.watched = connector.watched
       /\ connector'.timers = connector.timers
       /\ connector'.made = connector.made /\ connector'.closed = connector.closed
       /\ connector'.state # connector.state => c \in Mine /\ connector'.state = "Disconnected"
  BY <1>3, <1>16
<1>18. /\ todo' \in Seq(Task) /\ AtMostOne(todo', Closers) /\ OnceIn({Start}, todo', batch, pending)
       /\ todo' # <<>> => Entries(Tail(todo')) \subseteq Later \X adopted
       /\ Entries(todo') \subseteq {Start} \cup Entries(R) /\ Entries(R) \subseteq Entries(todo')
       /\ Start \in Entries(todo') => c \in Mine /\ connector'.state = "Disconnected"
  <2>1. /\ R # <<>> => Entries(Tail(R)) \subseteq Entries(R)
        /\ OnceIn({Start}, R, batch, pending)
    BY <1>2, <1>4, HeadOf
  <2>2. Start \notin Entries(R)
    BY <1>5, <1>11
  <2> QED
    BY <1>5, <1>8, <1>16, <2>1, <2>2
<1>19. /\ \A x : x # Start /\ x # h => (x \in Entries(todo') <=> x \in Entries(todo))
       /\ \A x : x # e => (x \in Entries(pending') <=> x \in Entries(pending))
  BY <1>5, <1>10, <1>18
<1>20. ClientTypeOK'
  BY <1>1, <1>4, <1>10, <1>13, <1>17, <1>18 DEF ClientTypeOK
<1>21. QueueOK(pending)' /\ QueueOK(batch)' /\ ThreadOK'
  <2>1. e \in Functor \X adopted
    BY <1>2, <1>6 DEF Functor
  <2>2. QueueOK(pending)' /\ QueueOK(batch)'
    BY <1>1, <1>4, <1>10, <2>1 DEF QueueOK
  <2> QED
    BY <1>4, <1>8, <1>18, <2>2 DEF ThreadOK
<1>22. Phases'
  <2>1. \A d \in Conn, f \in Functor \cup {"remove"} : <<f, d>> # Start /\ <<f, d>> # h
    BY <1>6 DEF Start, Functor
  <2>2. Stop # Start /\ Reset # Start /\ Stop # h /\ Reset # h
    BY <1>6 DEF Start, Stop, Reset
  <2> QED
    BY <1>1, <1>4, <1>5, <1>19, <2>1, <2>2 DEF Phases
<1>23. Behind'
  <2>1. ErrorEvent # Start /\ WriteEvent # Start /\ ErrorEvent # h /\ WriteEvent # h
        /\ \A d \in Conn, f \in {"new_connection", "connect_established"} : <<f, d>> # Start /\ <<f, d>> # h
    BY <1>6 DEF Start, ErrorEvent, WriteEvent
  <2>2. /\ ErrorEvent \notin Entries(todo') /\ WriteEvent \notin Entries(todo')
        /\ \A d \in Conn, f \in {"new_connection", "connect_established"} : <<f, d>> \notin Entries(todo')
    BY <1>11, <1>19, <2>1
  <2> QED
    BY <1>4, <1>18, <2>2 DEF Behind, Closers
<1>24. Queued' = Queued \cup {e} /\ (Start \in Queued' <=> Start \in Queued)
       /\ (Reset \in Tasks' <=> Reset \in Tasks) /\ (Stop \in Tasks' <=> Stop \in Tasks)
  <2>1. Stop # Start /\ Reset # Start /\ Stop # h /\ Reset # h
    BY <1>6 DEF Start, Stop, Reset
  <2> QED
    BY <1>4, <1>9, <1>10, <1>19, <2>1 DEF Queued, Tasks
<1>25. OneAttempt'
  <2>1. OnceIn({Start}, todo', batch, pending')
    BY <1>3, <1>4, <1>9, <1>18, MovesOf
  <2>2. c \in Mine => connector.timers = 0
    BY <1>1, <1>12 DEF OneAttempt
  <2>3. Start \in Tasks' => Start \in Tasks \/ (c \in Mine /\ connector'.state = "Disconnected")
    BY <1>18, <1>24 DEF Tasks
  <2> QED
    BY <1>1, <1>4, <1>17, <2>1, <2>2, <2>3 DEF OneAttempt
<1>26. ChannelOK'
  <2>1. c \in Mine => connector.watched = 0
    BY <1>1, <1>12 DEF ChannelOK
  <2>2. Start \in Tasks' => Start \in Tasks \/ Reset \notin Tasks
    BY <1>12, <1>18, <1>24 DEF Tasks
  <2> QED
    BY <1>1, <1>4, <1>12, <1>17, <1>24, <2>1, <2>2 DEF ChannelOK
<1>27. EventsOK' /\ HandedOK'
  BY <1>11, <1>19, <1>6 DEF EventsOK, HandedOK, Start, WriteEvent
<1>28. \A d : ClosesSoon(d)' => ClosesSoon(d)
  <2>1. \A f, d : <<f, d>> \in Entries(todo') /\ f \in Closer => <<f, d>> \in Entries(todo)
    BY <1>5, <1>18 DEF Closer, Start
  <2> QED
    BY <2>1 DEF ClosesSoon
<1>29. ResetInTime'
  <2>1. c \in Mine => Reset \notin Tasks'
    BY <1>12, <1>24
  <2>2. Reset \in Entries(pending') <=> Reset \in Entries(pending)
    BY <1>9, <1>10
  <2>3. Reset \in Entries(pending') => Reset \in Tasks'
    BY DEF Tasks, Queued
  <2> QED
    BY <1>1, <1>4, <1>13, <1>17, <1>24, <1>28, <2>1, <2>2, <2>3 DEF ResetInTime
<1>30. CurrentOK'
  BY <1>1, <1>4, <1>13, <1>17 DEF CurrentOK, Mine
<1>31. NotAdopted' /\ NoOutput'
  BY <1>1, <1>4, <1>17 DEF NotAdopted, NoOutput
<1>32. OnlyGivenAway'
  <2>1. \A d \in adopted : <<"force_close_in_loop", d>> # Start /\ <<"force_close_in_loop", d>> # h
                           /\ <<"force_close_in_loop", d>> # e
    BY <1>2, <1>6 DEF Start
  <2> QED
    BY <1>1, <1>4, <1>19, <2>1 DEF OnlyGivenAway, Tasks, Queued
<1>33. OwnInv'
  <2>1. c \in Mine => alive
    BY <1>12
  <2>2. c \notin Mine => connector' = connector /\ connection' = connection
    BY <1>13, <1>16
  <2> QED
    BY <1>1, <1>4, <1>24, <2>1, <2>2 DEF OwnInv
<1>34. SocketInv'
  <2>1. \A s \in Conn : (Handed(s)' <=> Handed(s))
    BY <1>11, <1>19, <1>6 DEF Handed, Start
  <2>2. \A s : Trying(s)' <=> Trying(s)
    BY <1>12, <1>17 DEF Trying
  <2>3. \A d \in 1..connector.made : d \in Conn
    BY <1>1, SocketAssumption, ClientAssumption DEF ChannelOK, ClientTypeOK, ConnectorRecord
  <2> QED
    BY <1>1, <1>4, <1>17, <2>1, <2>2, <2>3 DEF SocketInv
<1>35. ASSUME NEW d \in Mine, d # c PROVE Fate(d)'
  <2>1. d \in Conn /\ Fate(d)
    BY <1>1, <1>3 DEF Mine
  <2>2. \A f \in Step : <<f, d>> # Start /\ <<f, d>> # h /\ <<f, d>> # e
    BY <1>2, <1>6, <1>35, <2>1, Distinct
  <2>3. connection = d => connection' = d
    BY <1>12, <1>13, <1>35
  <2> QED
    BY <1>4, <1>19, <2>1, <2>2, <2>3, FateKept
<1>36. ASSUME c \in Mine PROVE Fate(c)'
  <2>1. \A f \in Closer : <<f, c>> \notin Entries(todo')
    <3>1. \A f \in Closer : <<f, c>> \in Closers /\ <<f, c>> # Start
      BY <1>6 DEF Closers, Closer, Start
    <3> QED
      BY <1>8, <1>18, <3>1
  <2>2. ~ClosesSoon(c)' /\ <<"connect_established", c>> \notin Entries(todo')
    BY <1>6, <1>11, <1>19, <2>1 DEF ClosesSoon, Start
  <2>3. Leaves(c)'
    BY <1>2, <1>4, <1>10, <1>12, <1>36 DEF Leaves
  <2>4. conn[c].state # "Connecting"
    BY <1>1, <1>12, <1>36 DEF Fate
  <2> QED
    BY <1>4, <1>12, <1>36, <2>1, <2>2, <2>3, <2>4 DEF Fate, Closer
<1> QED
  BY <1>4, <1>20, <1>21, <1>22, <1>23, <1>25, <1>26, <1>27, <1>29, <1>30, <1>31, <1>32, <1>33, <1>34, <1>35, <1>36
  DEF ClientInv, ShapeInv, ConnectorInv, LifeInv, Mine

(***************************************************************************)
(* Steps of the connector.                                                 *)
(***************************************************************************)
\* The thread performs task h, with R behind it; q is what that queues.
Turn(h, R, q) ==
  /\ todo # <<>> /\ h = Head(todo) /\ R = Tail(todo)
  /\ h \in {Start, Stop, Reset, ErrorEvent, WriteEvent}
  /\ q \in {<<>>, <<Reset>>} /\ pending' = pending \o q
  /\ UNCHANGED <<conn, batch, phase, revents, connection, adopted, alive, rebound, keeper>>

LEMMA TurnTasks ==
  ASSUME ClientInv, NEW h, NEW R, NEW q, Turn(h, R, q)
  PROVE  /\ R \in Seq(Task) /\ Entries(todo) = {h} \cup Entries(R)
         /\ Entries(R) \subseteq (Later \X adopted) \cup {WriteEvent}
         /\ WriteEvent \in Entries(R) => h = ErrorEvent /\ R = <<WriteEvent>>
         /\ \A e \in {Start, Stop, Reset, ErrorEvent} : e \notin Entries(R)
         /\ \A s \in Conn : ~Handed(s) /\ <<"connect_established", s>> \notin Entries(todo)
         /\ pending' \in Seq(Task) /\ Entries(pending') = Entries(pending) \cup Entries(q)
         /\ Entries(q) \subseteq {Reset} /\ (q # <<>> => Reset \in Entries(pending'))
         /\ (h \in {ErrorEvent, WriteEvent} => phase = "dispatch") /\ (h \in {Stop, Reset} => phase = "drain")
         /\ h = Start => Start \notin Queued
<1>1. ClientTypeOK /\ Phases
  BY Invariants
<1>2. adopted \subseteq Conn /\ todo \in Seq(Task) /\ pending \in Seq(Task) /\ todo # <<>>
  BY <1>1 DEF ClientTypeOK, Turn
<1>3. h \in {Start, Stop, Reset, ErrorEvent, WriteEvent}
  BY DEF Turn
<1>4. /\ R \in Seq(Task) /\ Entries(todo) = {h} \cup Entries(R) /\ phase # "poll"
      /\ h = ErrorEvent => R = <<WriteEvent>> /\ phase = "dispatch"
      /\ h = WriteEvent => R = <<>> /\ phase = "dispatch"
      /\ h = Start => Start \notin Queued
  BY HeadOf DEF Turn
<1>5. Entries(<<WriteEvent>>) = {WriteEvent}
  BY Few, Distinct
<1>6. h # ErrorEvent => Entries(R) \subseteq Later \X adopted
  BY RestOf DEF Turn
<1>7. Entries(R) \subseteq (Later \X adopted) \cup {WriteEvent}
  BY <1>4, <1>5, <1>6
<1>8. \A x \in Later \X adopted : x \notin {Start, Stop, Reset, ErrorEvent, WriteEvent}
  BY <1>2, Distinct
<1>9. WriteEvent \in Entries(R) => h = ErrorEvent /\ R = <<WriteEvent>>
  BY <1>4, <1>6, <1>8
<1>10. \A e \in {Start, Stop, Reset, ErrorEvent} : e # WriteEvent
  BY DEF Start, Stop, Reset, ErrorEvent, WriteEvent
<1>11. \A e \in {Start, Stop, Reset, ErrorEvent} : e \notin Entries(R)
  BY <1>7, <1>8, <1>10
<1>12. \A s \in Conn : ~Handed(s) /\ <<"connect_established", s>> \notin Entries(todo)
  <2>1. \A s \in Conn, f \in {"new_connection", "connect_established"} :
          <<f, s>> \notin {Start, Stop, Reset, ErrorEvent, WriteEvent} /\ <<f, s>> \notin Later \X adopted
    BY DEF Start, Stop, Reset, ErrorEvent, WriteEvent, Later
  <2> QED
    BY <1>3, <1>4, <1>7, <2>1 DEF Handed
<1>13. /\ q \in Seq(Task) /\ Entries(q) \subseteq {Reset} /\ (q # <<>> => Reset \in Entries(q))
  <2>1. <<Reset>> \in Seq(Task) /\ Entries(<<Reset>>) = {Reset}
    BY Few, Distinct
  <2>2. <<>> \in Seq(Task) /\ Entries(<<>>) = {}
    BY <1>2, TasksOf
  <2> QED
    BY <2>1, <2>2 DEF Turn
<1>14. pending' \in Seq(Task) /\ Entries(pending') = Entries(pending) \cup Entries(q)
  BY <1>2, <1>13, TasksOf DEF Turn
<1>15. h \in {Stop, Reset} => phase = "drain"
  BY <1>1, <1>4 DEF Phases, ClientTypeOK
<1> QED
  BY <1>4, <1>7, <1>9, <1>11, <1>12, <1>13, <1>14, <1>15

\* What the thread and the connections keep, and who is left to be looked after.
LEMMA TurnFrame ==
  ASSUME ClientInv, NEW h, NEW R, NEW q, Turn(h, R, q), connector' \in ConnectorRecord,
         \/ todo' = R
         \/ h = WriteEvent /\ \E s \in Conn : todo' = <<<<"new_connection", s>>>>,
         OneAttempt /\ OnceIn({Start}, todo', batch', pending') => OneAttempt',
         ChannelOK', EventsOK', HandedOK', ResetInTime', CurrentOK', NotAdopted', OwnInv', SocketInv'
  PROVE  ClientInv'
<1>1. /\ ClientTypeOK /\ QueueOK(pending) /\ QueueOK(batch) /\ ThreadOK /\ Phases /\ Behind
      /\ OneAttempt /\ OnlyGivenAway /\ NoOutput /\ \A d \in Mine : Fate(d)
  BY Invariants
<1>2. /\ adopted \subseteq Conn /\ todo \in Seq(Task) /\ batch \in Seq(Task) /\ pending \in Seq(Task)
  BY <1>1 DEF ClientTypeOK
<1>3. /\ UNCHANGED <<conn, batch, phase, revents, connection, adopted, alive, rebound, keeper>>
      /\ pending' = pending \o q /\ h \in {Start, Stop, Reset, ErrorEvent, WriteEvent}
  BY DEF Turn
<1>4. /\ R \in Seq(Task) /\ Entries(todo) = {h} \cup Entries(R)
      /\ Entries(R) \subseteq (Later \X adopted) \cup {WriteEvent}
      /\ WriteEvent \in Entries(R) => h = ErrorEvent /\ R = <<WriteEvent>>
      /\ \A e \in {Start, Stop, Reset, ErrorEvent} : e \notin Entries(R)
      /\ \A s \in Conn : ~Handed(s) /\ <<"connect_established", s>> \notin Entries(todo)
      /\ pending' \in Seq(Task) /\ Entries(pending') = Entries(pending) \cup Entries(q)
      /\ Entries(q) \subseteq {Reset}
      /\ h \in {ErrorEvent, WriteEvent} => phase = "dispatch"
  BY TurnTasks
<1>5. /\ phase # "poll" /\ AtMostOne(R, Closers) /\ OnceIn({Start}, R, batch, pending)
      /\ (R # <<>> => Entries(Tail(R)) \subseteq Entries(R)) /\ (h = WriteEvent => R = <<>>)
      /\ h = ErrorEvent => R = <<WriteEvent>>
  BY HeadOf DEF Turn
<1>6. /\ \/ todo' = R
         \/ /\ phase = "dispatch" /\ R = <<>>
            /\ \E s \in Conn : todo' = <<<<"new_connection", s>>>> /\ Entries(todo') = {<<"new_connection", s>>}
      /\ todo' \in Seq(Task) /\ AtMostOne(todo', Closers) /\ OnceIn({Start}, todo', batch, pending)
      /\ todo' # <<>> => Entries(Tail(todo')) \subseteq Entries(R)
  <2>1. CASE todo' = R
    BY <1>4, <1>5, <2>1
  <2>2. ASSUME h = WriteEvent, NEW s \in Conn, NEW n, n = <<"new_connection", s>>, todo' = <<n>>
        PROVE  /\ phase = "dispatch" /\ R = <<>> /\ Entries(todo') = {n}
               /\ todo' \in Seq(Task) /\ AtMostOne(todo', Closers) /\ OnceIn({Start}, todo', batch, pending)
               /\ Entries(Tail(todo')) \subseteq Entries(R)
    <3>1. n \in Task /\ n # Start
      BY <2>2, Distinct
    <3>2. <<n>> \in Seq(Task) /\ Entries(<<n>>) = {n} /\ Tail(<<n>>) = <<>> /\ Entries(<<>>) = {}
      BY <1>2, <3>1, Few, TasksOf
    <3>3. AtMostOne(<<n>>, Closers) /\ AtMostOne(<<n>>, {Start}) /\ Without(<<n>>, {Start})
      BY <3>1, <3>2 DEF AtMostOne, Without
    <3>4. OnceIn({Start}, <<n>>, batch, pending)
      BY <1>5, <3>3 DEF OnceIn
    <3> QED
      BY <1>4, <1>5, <2>2, <3>2, <3>3, <3>4
  <2> QED
    BY <2>1, <2>2
<1>7. /\ Entries(todo') \subseteq Entries(R) \cup ({"new_connection"} \X Conn)
      /\ Entries(R) \subseteq Entries(todo')
  <2>1. Entries(<<>>) = {}
    BY <1>2, TasksOf
  <2> QED
    BY <1>6, <2>1
<1>8. \A d \in Conn, f \in Step : /\ <<f, d>> \in Entries(todo') <=> <<f, d>> \in Entries(todo)
                                  /\ <<f, d>> \in Entries(pending') <=> <<f, d>> \in Entries(pending)
  <2>1. \A d \in Conn, f \in Step : /\ <<f, d>> \notin {Start, Stop, Reset, ErrorEvent, WriteEvent}
                                    /\ f # "new_connection"
    <3>1. "new_connection" \notin Step
      BY DEF Step, SharedFunctor, RawFunctor
    <3> QED
      BY <3>1, Distinct
  <2> QED
    BY <1>3, <1>4, <1>7, <2>1
<1>20. ClientTypeOK'
  BY <1>1, <1>3, <1>4, <1>6 DEF ClientTypeOK
<1>21. QueueOK(pending)' /\ QueueOK(batch)' /\ ThreadOK'
  BY <1>1, <1>3, <1>4, <1>7 DEF QueueOK, ThreadOK
<1>22. Phases'
  <2>1. Stop \notin Entries(todo') /\ Reset \notin Entries(todo')
    BY <1>4, <1>7 DEF Stop, Reset
  <2>2. \A d \in Conn, f \in Functor \cup {"remove"} : <<f, d>> \in Entries(todo') => <<f, d>> \in Entries(todo)
    BY <1>8, Distinct DEF Later
  <2> QED
    BY <1>1, <1>3, <1>5, <2>1, <2>2 DEF Phases
<1>23. Behind'
  <2>1. ErrorEvent \notin Entries(todo')
    BY <1>4, <1>7 DEF ErrorEvent
  <2>2. WriteEvent \in Entries(todo') => phase = "dispatch" /\ todo' = <<WriteEvent>>
    <3>1. WriteEvent \in Entries(todo') => WriteEvent \in Entries(R)
      BY <1>7 DEF WriteEvent
    <3>2. CASE todo' = R
      BY <1>4, <3>1, <3>2
    <3>3. CASE R = <<>>
      BY <1>2, <3>1, <3>3, TasksOf
    <3> QED
      BY <1>6, <3>2, <3>3
  <2>3. ASSUME NEW d \in Conn, NEW f \in {"new_connection", "connect_established"}, <<f, d>> \in Entries(todo')
        PROVE  phase = "dispatch" /\ todo' = <<<<f, d>>>>
    <3>1. <<f, d>> \notin Entries(todo)
      BY <1>4 DEF Handed
    <3>2. <<f, d>> \notin Entries(R)
      BY <1>4, <3>1
    <3> QED
      BY <1>6, <2>3, <3>2
  <2> QED
    BY <1>3, <1>4, <1>6, <2>1, <2>2, <2>3 DEF Behind, Closers
<1>24. OneAttempt'
  <2>1. q = <<>> \/ q = <<Reset>>
    BY DEF Turn
  <2>2. q \in Seq(Task) /\ Without(q, {Start})
    <3>1. Reset # Start /\ Reset \in Task
      BY Distinct DEF Reset, Start
    <3>2. <<>> \in Seq(Task) /\ <<Reset>> \in Seq(Task)
      BY <3>1, Few
    <3> QED
      BY <1>4, <2>1, <3>1, <3>2 DEF Without
  <2>3. OnceIn({Start}, todo', batch, pending \o q)
    BY <1>2, <1>6, <2>2, MovesOf
  <2> QED
    BY <1>1, <1>3, <2>3
<1>25. OnlyGivenAway' /\ NoOutput'
  <2>1. "force_close_in_loop" \in Step
    BY DEF Step, SharedFunctor
  <2> QED
    BY <1>1, <1>2, <1>3, <1>8, <2>1 DEF OnlyGivenAway, NoOutput, Tasks, Queued
<1>26. ASSUME NEW d \in Mine PROVE Fate(d)'
  <2>1. d \in Conn /\ Fate(d)
    BY <1>1, <1>2 DEF Mine
  <2> QED
    BY <1>3, <1>8, <2>1, FateKept
<1> QED
  BY <1>3, <1>20, <1>21, <1>22, <1>23, <1>24, <1>25, <1>26 DEF ClientInv, ShapeInv, ConnectorInv, LifeInv, Mine

\* The sockets that were made are sockets.
LEMMA Made ==
  ASSUME ClientInv
  PROVE  /\ connector.made \in Nat /\ connector.channel \in Nat /\ connector.timers \in {0, 1}
         /\ connector.delay \in Nat /\ connector.closed \in [Conn -> Nat]
         /\ \A d \in 1..connector.made : d \in Conn
         /\ \A d \in Conn : d \in Nat /\ d # 0 /\ (d \in 1..connector.made <=> ~(d > connector.made))
         /\ connector.channel # 0 => connector.channel \in Conn /\ connector.channel \in 1..connector.made
<1>1. ClientTypeOK /\ ChannelOK
  BY Invariants
<1>2. /\ connector.made \in Nat /\ connector.channel \in Nat /\ connector.timers \in {0, 1}
      /\ connector.delay \in Nat /\ connector.closed \in [Conn -> Nat]
  BY <1>1 DEF ClientTypeOK, ConnectorRecord
<1>3. connector.channel <= connector.made /\ connector.made <= MaxCalls + MaxFaults
  BY <1>1 DEF ChannelOK
<1> QED
  BY <1>2, <1>3, SocketAssumption, ClientAssumption

\* A task that finds nothing to do.
LEMMA IdleTurn ==
  ASSUME ClientInv, NEW h, NEW R, Turn(h, R, <<>>), connector' = connector, todo' = R,
         h # Reset, h = Stop => connector.state # "Connecting"
  PROVE  ClientInv'
<1>1. /\ ClientTypeOK /\ OneAttempt /\ ChannelOK /\ EventsOK /\ HandedOK /\ ResetInTime
      /\ CurrentOK /\ NotAdopted /\ OwnInv /\ SocketInv
  BY Invariants
<1>2. UNCHANGED <<conn, batch, phase, revents, connection, adopted, alive, rebound, keeper>>
  BY DEF Turn
<1>3. /\ R \in Seq(Task) /\ Entries(todo) = {h} \cup Entries(R)
      /\ WriteEvent \in Entries(R) => h = ErrorEvent /\ R = <<WriteEvent>>
      /\ \A s \in Conn : ~Handed(s) /\ <<"connect_established", s>> \notin Entries(todo)
      /\ Entries(pending') = Entries(pending)
  <2>1. Entries(<<>>) = {}
    BY <1>1, TasksOf DEF ClientTypeOK
  <2>2. PICK q : q = <<>>
    OBVIOUS
  <2>3. Turn(h, R, q)
    BY <2>2
  <2>4. /\ R \in Seq(Task) /\ Entries(todo) = {h} \cup Entries(R)
        /\ WriteEvent \in Entries(R) => h = ErrorEvent /\ R = <<WriteEvent>>
        /\ \A s \in Conn : ~Handed(s) /\ <<"connect_established", s>> \notin Entries(todo)
        /\ Entries(pending') = Entries(pending) \cup Entries(q)
    BY <2>3, TurnTasks
  <2> QED
    BY <2>1, <2>2, <2>4
<1>4. /\ Queued' = Queued /\ Tasks' \subseteq Tasks /\ (Reset \in Tasks' <=> Reset \in Tasks)
      /\ h # Stop => (Stop \in Tasks' <=> Stop \in Tasks)
      /\ \A d : ClosesSoon(d)' => ClosesSoon(d)
  BY <1>2, <1>3 DEF Queued, Tasks, ClosesSoon
<1>5. ErrorEvent # WriteEvent
  BY DEF ErrorEvent, WriteEvent
<1>6. EventsOK'
  <2>1. WriteEvent \in Entries(R) => todo # <<WriteEvent>>
    <3>1. Head(<<WriteEvent>>) = WriteEvent
      BY Few, Distinct
    <3> QED
      BY <1>3, <1>5, <3>1 DEF Turn
  <2> QED
    BY <1>1, <1>2, <1>3, <2>1 DEF EventsOK
<1>7. HandedOK'
  BY <1>3 DEF HandedOK, Handed
<1>8. ChannelOK' /\ CurrentOK' /\ NotAdopted'
  BY <1>1, <1>2, <1>4 DEF ChannelOK, CurrentOK, NotAdopted, Mine
<1>9. ResetInTime'
  BY <1>1, <1>2, <1>3, <1>4 DEF ResetInTime
<1>10. OwnInv'
  BY <1>1, <1>2, <1>4 DEF OwnInv
<1>11. SocketInv'
  <2>1. \A s \in Conn : ~Handed(s)' /\ (Trying(s)' <=> Trying(s))
    BY <1>3 DEF Handed, Trying
  <2> QED
    BY <1>1, <1>2, <1>3, <2>1, Made DEF SocketInv
<1>12. OneAttempt /\ OnceIn({Start}, todo', batch', pending') => OneAttempt'
  BY <1>4 DEF OneAttempt
<1>13. connector' \in ConnectorRecord
  BY <1>1 DEF ClientTypeOK
<1> QED
  BY <1>6, <1>7, <1>8, <1>9, <1>10, <1>11, <1>12, <1>13, TurnFrame

\* reset_channel().
LEMMA ResetTurn ==
  ASSUME ClientInv, NEW R, Turn(Reset, R, <<>>), connector' = [connector EXCEPT !.channel = 0], todo' = R
  PROVE  ClientInv'
<1>1. /\ ClientTypeOK /\ OneAttempt /\ ChannelOK /\ EventsOK /\ HandedOK /\ ResetInTime
      /\ CurrentOK /\ NotAdopted /\ OwnInv /\ SocketInv
  BY Invariants
<1>2. UNCHANGED <<conn, batch, phase, revents, connection, adopted, alive, rebound, keeper>>
  BY DEF Turn
<1>3. /\ R \in Seq(Task) /\ Entries(todo) = {Reset} \cup Entries(R)
      /\ WriteEvent \notin Entries(R)
      /\ \A s \in Conn : ~Handed(s) /\ <<"connect_established", s>> \notin Entries(todo)
      /\ Entries(pending') = Entries(pending) /\ phase = "drain"
  <2>1. Entries(<<>>) = {}
    BY <1>1, TasksOf DEF ClientTypeOK
  <2>2. Reset # ErrorEvent
    BY DEF Reset, ErrorEvent
  <2>3. PICK h, q : h = Reset /\ q = <<>>
    OBVIOUS
  <2>4. Turn(h, R, q)
    BY <2>3
  <2>5. /\ R \in Seq(Task) /\ Entries(todo) = {h} \cup Entries(R)
        /\ WriteEvent \in Entries(R) => h = ErrorEvent /\ R = <<WriteEvent>>
        /\ \A s \in Conn : ~Handed(s) /\ <<"connect_established", s>> \notin Entries(todo)
        /\ Entries(pending') = Entries(pending) \cup Entries(q) /\ (h \in {Stop, Reset} => phase = "drain")
    BY <2>4, TurnTasks
  <2> QED
    BY <2>1, <2>2, <2>3, <2>5
<1>4. /\ connector' \in ConnectorRecord /\ connector'.channel = 0
      /\ \A f \in {"want", "state", "watched", "timers", "made", "closed"} : connector'[f] = connector[f]
  BY <1>1 DEF ClientTypeOK, ConnectorRecord
<1>5. /\ connector'.state = connector.state /\ connector'.watched = connector.watched
      /\ connector'.timers = connector.timers /\ connector'.want = connector.want
      /\ connector'.made = connector.made /\ connector'.closed = connector.closed
  BY <1>4
<1>6. connector.state # "Connecting" /\ connector.watched = 0 /\ Start \notin Tasks
  BY <1>1, <1>3 DEF ChannelOK, Tasks
<1>7. /\ Queued' = Queued /\ Tasks' \subseteq Tasks
      /\ \A d : ClosesSoon(d)' => ClosesSoon(d)
  BY <1>2, <1>3 DEF Queued, Tasks, ClosesSoon
<1>8. (Stop \in Tasks' <=> Stop \in Tasks)
  BY <1>2, <1>3 DEF Queued, Tasks, Stop, Reset
<1>9. EventsOK' /\ HandedOK'
  BY <1>3 DEF EventsOK, HandedOK, Handed
<1>10. ChannelOK'
  BY <1>1, <1>4, <1>5, <1>6, <1>7, Made DEF ChannelOK
<1>11. CurrentOK' /\ NotAdopted' /\ OwnInv'
  BY <1>1, <1>2, <1>5, <1>6, <1>7 DEF CurrentOK, NotAdopted, OwnInv, Mine
<1>12. ResetInTime'
  BY <1>1, <1>2, <1>3, <1>5, <1>7 DEF ResetInTime
<1>13. SocketInv'
  <2>1. \A s \in Conn : ~Handed(s)' /\ ~Trying(s)' /\ ~Trying(s)
    BY <1>3, <1>5, <1>6 DEF Handed, Trying
  <2> QED
    BY <1>1, <1>2, <1>3, <1>5, <2>1, Made, ZenonT(60) DEF SocketInv
<1>14. OneAttempt /\ OnceIn({Start}, todo', batch', pending') => OneAttempt'
  BY <1>5, <1>7 DEF OneAttempt
<1> QED
  BY <1>4, <1>9, <1>10, <1>11, <1>12, <1>13, <1>14, TurnFrame

\* An attempt under way ends: the channel is off, reset_channel() is queued, and the socket is
\* closed (timers are set when it is to be tried again) or handed over.
LEMMA EndTurn ==
  ASSUME ClientInv, NEW h, NEW R, Turn(h, R, <<Reset>>), h \in {Stop, ErrorEvent, WriteEvent},
         connector.state = "Connecting", NEW s, s = connector.channel,
         connector' \in ConnectorRecord,
         connector'.channel = s, connector'.watched = 0, connector'.made = connector.made,
         connector'.want = connector.want,
         \/ /\ connector'.state = "Disconnected" /\ todo' = R
            /\ connector'.closed = [connector.closed EXCEPT ![s] = @ + 1]
         \/ /\ connector'.state = "Connected" /\ h = WriteEvent /\ connector'.timers = 0
            /\ \/ ~connector.want /\ todo' = R /\ connector'.closed = [connector.closed EXCEPT ![s] = @ + 1]
               \/ connector.want /\ todo' = <<<<"new_connection", s>>>> /\ connector'.closed = connector.closed
  PROVE  ClientInv'
<1>1. /\ ClientTypeOK /\ OneAttempt /\ ChannelOK /\ EventsOK /\ HandedOK /\ ResetInTime /\ Phases
      /\ CurrentOK /\ NotAdopted /\ OwnInv /\ SocketInv
  BY Invariants
<1>2. UNCHANGED <<conn, batch, phase, revents, connection, adopted, alive, rebound, keeper>>
  BY DEF Turn
<1>3. /\ R \in Seq(Task) /\ Entries(todo) = {h} \cup Entries(R)
      /\ WriteEvent \in Entries(R) => h = ErrorEvent /\ R = <<WriteEvent>>
      /\ \A e \in {Start, Stop, Reset, ErrorEvent} : e \notin Entries(R)
      /\ \A d \in Conn : ~Handed(d) /\ <<"connect_established", d>> \notin Entries(todo)
      /\ h \in {ErrorEvent, WriteEvent} => phase = "dispatch"
      /\ h \in {Stop, Reset} => phase = "drain"
  BY TurnTasks
<1>4. Entries(pending') = Entries(pending) \cup {Reset}
  <2>1. PICK q : q = <<Reset>>
    OBVIOUS
  <2>2. Turn(h, R, q) /\ q # <<>>
    BY <2>1
  <2>3. Entries(pending') = Entries(pending) \cup Entries(q)
    BY <2>2, TurnTasks
  <2>4. Entries(q) = {Reset}
    BY <2>1, Few, Distinct
  <2> QED
    BY <2>3, <2>4
<1>5. s # 0 /\ s \in Conn /\ s \in 1..connector.made /\ s \notin adopted /\ Reset \notin Tasks
  BY <1>1, Made DEF ChannelOK
<1>6. Start \notin Tasks /\ connector.timers = 0 /\ connection = 0
  BY <1>1 DEF OneAttempt, CurrentOK
<1>7. revents[s] = {}
  <2>1. CASE h = Stop
    BY <1>1, <1>3, <1>5, <2>1 DEF Phases
  <2>2. CASE h # Stop
    <3>1. WriteEvent \in Entries(todo)
      <4>1. h = ErrorEvent => R = <<WriteEvent>>
        BY HeadOf DEF Turn
      <4>2. Entries(<<WriteEvent>>) = {WriteEvent}
        BY Few, Distinct
      <4> QED
        BY <1>3, <2>2, <4>1, <4>2
    <3> QED
      BY <1>1, <3>1 DEF EventsOK
  <2> QED
    BY <2>1, <2>2
<1>8. ~alive => keeper /\ ~connector.want
  BY <1>1 DEF OwnInv, ClientTypeOK
<1>9. PICK n : n = <<"new_connection", s>>
  OBVIOUS
<1>10. n \in Task /\ n \notin {Start, Stop, Reset, ErrorEvent, WriteEvent} /\ Entries(<<n>>) = {n}
  <2>1. n \in Task /\ n \notin {Start, Stop, Reset, ErrorEvent, WriteEvent}
    BY <1>5, <1>9, Distinct
  <2> QED
    BY <2>1, Few
<1>11. /\ todo' = R \/ (todo' = <<n>> /\ h = WriteEvent)
       /\ Entries(todo') \subseteq Entries(R) \cup {n}
  BY <1>9, <1>10
<1>12. /\ Reset \in Tasks' /\ Start \notin Tasks'
  <2>1. Start # Reset /\ Start # n
    BY <1>10 DEF Start, Reset
  <2> QED
    BY <1>2, <1>3, <1>4, <1>6, <1>11, <2>1 DEF Tasks, Queued
<1>13. ChannelOK'
  BY <1>1, <1>12 DEF ChannelOK
<1>14. EventsOK'
  <2>1. WriteEvent \in Entries(todo') => todo' = R /\ h = ErrorEvent /\ R = <<WriteEvent>>
    BY <1>3, <1>10, <1>11 DEF ErrorEvent, WriteEvent
  <2>2. ErrorEvent # WriteEvent
    BY DEF ErrorEvent, WriteEvent
  <2> QED
    BY <2>1, <2>2 DEF EventsOK
<1>15. \A d \in Conn : <<"new_connection", d>> \in Entries(todo') =>
                         d = s /\ connector'.state = "Connected" /\ connector.want /\ todo' = <<n>>
  BY <1>3, <1>9, <1>10, ZenonT(60) DEF Handed
<1>16. HandedOK'
  BY <1>2, <1>5, <1>6, <1>7, <1>8, <1>15 DEF HandedOK
<1>17. ResetInTime'
  BY <1>2, <1>3, <1>6 DEF ResetInTime
<1>18. CurrentOK'
  BY <1>2, <1>6 DEF CurrentOK
<1>19. NotAdopted'
  <2>1. connector.watched = s
    BY <1>1 DEF ChannelOK
  <2> QED
    BY <1>1, <1>2, <1>7, <2>1 DEF NotAdopted
<1>20. OwnInv'
  BY <1>2, <1>6, <1>8 DEF OwnInv
<1>21. SocketInv'
  <2>1. \A d \in Conn : ~Trying(d)' /\ (Trying(d) <=> d = s)
    BY DEF Trying
  <2>2. connector.closed[s] = 0 /\ connector.closed \in [Conn -> Nat]
    BY <1>1, <1>5, <2>1, Made DEF SocketInv
  <2>3. CASE todo' = R /\ connector'.closed = [connector.closed EXCEPT ![s] = @ + 1]
    <3>1. \A d \in Conn : connector'.closed[d] = IF d = s THEN 1 ELSE connector.closed[d]
      BY <1>5, <2>2, <2>3
    <3>2. \A d \in Conn : ~Handed(d)'
      BY <1>3, <2>3 DEF Handed
    <3>3. ~(s > connector.made)
      BY <1>5, Made
    <3>4. ASSUME NEW d \in Conn, d > connector'.made PROVE connector'.closed[d] = 0 /\ d \notin adopted'
      BY <1>1, <1>2, <3>1, <3>3, <3>4 DEF SocketInv
    <3>5. ASSUME NEW d \in 1..connector'.made
          PROVE  connector'.closed[d] = IF d \in adopted THEN 0 ELSE 1
      <4>1. d \in Conn /\ d \in 1..connector.made
        BY <3>5, Made
      <4>2. CASE d = s
        BY <1>5, <3>1, <4>1, <4>2
      <4>3. CASE d # s
        BY <1>1, <1>3, <2>1, <3>1, <4>1, <4>3, ZenonT(60) DEF SocketInv
      <4> QED
        BY <4>2, <4>3
    <3>6. \A d \in 1..connector'.made : d \in Conn
      BY Made
    <3> QED
      BY <1>2, <2>1, <3>2, <3>4, <3>5, <3>6 DEF SocketInv
  <2>4. CASE todo' = <<n>> /\ connector'.closed = connector.closed
    <3>1. \A d \in Conn : Handed(d)' <=> d = s
      BY <1>9, <1>10, <2>4 DEF Handed
    <3>2. ~(s > connector.made)
      BY <1>5, Made
    <3> QED
      BY <1>1, <1>2, <1>3, <1>5, <2>1, <2>4, <3>1, <3>2, Made, ZenonT(60) DEF SocketInv
  <2> QED
    BY <1>9, <2>3, <2>4
<1>22. OneAttempt /\ OnceIn({Start}, todo', batch', pending') => OneAttempt'
  BY <1>12 DEF OneAttempt
<1>23. \/ todo' = R
       \/ h = WriteEvent /\ \E d \in Conn : todo' = <<<<"new_connection", d>>>>
  BY <1>5
<1> QED
  BY <1>13, <1>14, <1>16, <1>17, <1>18, <1>19, <1>20, <1>21, <1>22, <1>23, TurnFrame

\* start_in_loop() makes a socket that is under way, or is closed at once.
LEMMA StartTurn ==
  ASSUME ClientInv, NEW R, Turn(Start, R, <<>>), todo' = R, connector.want,
         NEW s, s = connector.made + 1, s <= MaxCalls + MaxFaults,
         connector' \in ConnectorRecord, connector'.made = s, connector'.want,
         \/ /\ connector'.state = "Connecting" /\ connector'.channel = s /\ connector'.watched = s
            /\ connector'.timers = 0 /\ connector'.closed = connector.closed
         \/ /\ connector'.state = "Disconnected" /\ connector'.channel = 0 /\ connector'.watched = 0
            /\ connector'.closed = [connector.closed EXCEPT ![s] = @ + 1]
  PROVE  ClientInv'
<1>1. /\ ClientTypeOK /\ OneAttempt /\ ChannelOK /\ EventsOK /\ HandedOK /\ ResetInTime
      /\ CurrentOK /\ NotAdopted /\ OwnInv /\ SocketInv
  BY Invariants
<1>2. UNCHANGED <<conn, batch, phase, revents, connection, adopted, alive, rebound, keeper>>
  BY DEF Turn
<1>3. /\ R \in Seq(Task) /\ Entries(todo) = {Start} \cup Entries(R)
      /\ WriteEvent \notin Entries(R) /\ Start \notin Entries(R) /\ Start \notin Queued
      /\ \A d \in Conn : ~Handed(d) /\ <<"connect_established", d>> \notin Entries(todo)
      /\ Entries(pending') = Entries(pending)
  <2>1. Entries(<<>>) = {}
    BY <1>1, TasksOf DEF ClientTypeOK
  <2>2. Start # ErrorEvent
    BY DEF Start, ErrorEvent
  <2>3. PICK h, q : h = Start /\ q = <<>>
    OBVIOUS
  <2>4. Turn(h, R, q)
    BY <2>3
  <2>5. /\ R \in Seq(Task) /\ Entries(todo) = {h} \cup Entries(R)
        /\ WriteEvent \in Entries(R) => h = ErrorEvent /\ R = <<WriteEvent>>
        /\ \A e \in {Start, Stop, Reset, ErrorEvent} : e \notin Entries(R)
        /\ \A d \in Conn : ~Handed(d) /\ <<"connect_established", d>> \notin Entries(todo)
        /\ Entries(pending') = Entries(pending) \cup Entries(q)
        /\ h = Start => Start \notin Queued
    BY <2>4, TurnTasks
  <2> QED
    BY <2>1, <2>2, <2>3, <2>5
<1>4. Start \in Tasks
  BY <1>3 DEF Tasks
<1>5. /\ connector.state = "Disconnected" /\ connector.timers = 0 /\ Reset \notin Tasks
      /\ connector.watched = 0 /\ connection = 0 /\ alive
  <2>1. connector.state = "Disconnected" /\ connector.timers = 0
    BY <1>1, <1>4 DEF OneAttempt
  <2> QED
    BY <1>1, <1>4, <2>1 DEF ChannelOK, CurrentOK, OwnInv
<1>6. /\ connector.made \in Nat /\ s \in Nat /\ s \in Conn /\ s > connector.made /\ connector.made < s
  BY Made, SocketAssumption, ClientAssumption
<1>7. /\ Queued' = Queued /\ Tasks' \subseteq Tasks /\ Start \notin Tasks'
  BY <1>2, <1>3 DEF Queued, Tasks
<1>8. EventsOK' /\ HandedOK'
  BY <1>3 DEF EventsOK, HandedOK, Handed
<1>9. connector.closed[s] = 0 /\ s \notin adopted
  BY <1>1, <1>6 DEF SocketInv
<1>10. ChannelOK'
  BY <1>2, <1>5, <1>6, <1>7, <1>9 DEF ChannelOK
<1>11. NotAdopted'
  <2>1. \A d \in Conn \ adopted : revents[d] = {} /\ conn[d] = New
    BY <1>1, <1>5, Distinct DEF NotAdopted
  <2> QED
    BY <1>2, <2>1 DEF NotAdopted
<1>12. CurrentOK' /\ OwnInv' /\ ResetInTime'
  BY <1>2, <1>5 DEF CurrentOK, OwnInv, ResetInTime
<1>13. OneAttempt /\ OnceIn({Start}, todo', batch', pending') => OneAttempt'
  BY <1>7 DEF OneAttempt
<1>14. SocketInv'
  <2>1. connector.closed \in [Conn -> Nat]
    BY Made
  <2>2. \A d \in Conn : ~Handed(d)' /\ ~Trying(d)
    BY <1>3, <1>5 DEF Handed, Trying
  <2>3. \A d \in Conn : d # s => connector'.closed[d] = connector.closed[d]
    BY <1>6, <2>1
  <2>4. \A d \in Conn : Trying(d)' => d = s
    BY <1>6 DEF Trying
  <2>5. connector'.closed[s] = IF Trying(s)' THEN 0 ELSE 1
    BY <1>6, <1>9, <2>1 DEF Trying
  <2>6. ASSUME NEW d \in Conn, d > connector'.made PROVE connector'.closed[d] = 0 /\ d \notin adopted'
    <3>1. d \in Nat /\ d # s /\ d > connector.made
      BY <1>6, <2>6, Made
    <3> QED
      BY <1>1, <1>2, <2>3, <3>1 DEF SocketInv
  <2>7. ASSUME NEW d \in 1..connector'.made
        PROVE  /\ d \in Conn
               /\ connector'.closed[d] = IF Trying(d)' \/ d \in adopted THEN 0 ELSE 1
               /\ ~(Trying(d)' /\ d \in adopted)
    <3>1. CASE d = s
      BY <1>6, <1>9, <2>5, <3>1
    <3>2. CASE d # s
      <4>1. d \in 1..connector.made /\ d \in Conn
        BY <1>6, <2>7, <3>2, Made
      <4> QED
        BY <1>1, <1>3, <2>2, <2>3, <2>4, <3>2, <4>1 DEF SocketInv
    <3> QED
      BY <3>1, <3>2
  <2> QED
    BY <1>2, <2>2, <2>6, <2>7 DEF SocketInv
<1> QED
  BY <1>8, <1>10, <1>11, <1>12, <1>13, <1>14, TurnFrame

\* What Connector::retry() returns for a connector whose attempt failed.
LEMMA RetryEffect ==
  ASSUME NEW k \in ConnectorRecord, NEW s \in Conn, k.timers = 0, NEW t, t = retry(k, s)
  PROVE  /\ t \in ConnectorRecord /\ t.state = "Disconnected" /\ t.channel = k.channel
         /\ t.watched = k.watched /\ t.made = k.made /\ t.want = k.want
         /\ t.closed = [k.closed EXCEPT ![s] = @ + 1]
<1>1. PICK z : z = [k.closed EXCEPT ![s] = @ + 1]
  OBVIOUS
<1>2. k.closed \in [Conn -> Nat] /\ k.delay \in Nat /\ z \in [Conn -> Nat]
  BY <1>1 DEF ConnectorRecord
<1>3. PICK off : off = [k EXCEPT !.closed = z, !.state = "Disconnected"]
  OBVIOUS
<1>4. [close(k, s) EXCEPT !.state = "Disconnected"] = off
  BY <1>1, <1>3 DEF close, ConnectorRecord
<1>5. /\ off \in ConnectorRecord /\ off.state = "Disconnected" /\ off.closed = z
      /\ \A f \in {"channel", "watched", "made", "want", "timers", "delay"} : off[f] = k[f]
  BY <1>2, <1>3 DEF ConnectorRecord
<1>6. CASE ~k.want
  <2>1. t = off
    BY <1>4, <1>6 DEF retry
  <2> QED
    BY <1>1, <1>5, <2>1
<1>7. CASE k.want
  <2>1. PICK n : n = IF 2 * off.delay < MaxDelay THEN 2 * off.delay ELSE MaxDelay
    OBVIOUS
  <2>2. n \in Nat
    BY <1>2, <1>5, <2>1, ClientAssumption
  <2>3. t = [off EXCEPT !.timers = @ + 1, !.delay = IF 2 * @ < MaxDelay THEN 2 * @ ELSE MaxDelay]
    BY <1>4, <1>7 DEF retry
  <2>4. t = [off EXCEPT !.timers = 1, !.delay = n]
    <3>1. off.timers + 1 = 1
      BY <1>5
    <3>2. t = [off EXCEPT !.timers = off.timers + 1, !.delay = n]
      BY <1>5, <2>1, <2>3
    <3> QED
      BY <3>1, <3>2
  <2>5. /\ t \in ConnectorRecord /\ t.state = "Disconnected" /\ t.closed = z
        /\ \A f \in {"channel", "watched", "made", "want"} : t[f] = off[f]
    BY <1>5, <2>2, <2>4 DEF ConnectorRecord
  <2> QED
    BY <1>1, <1>5, <2>5
<1> QED
  BY <1>6, <1>7 DEF ConnectorRecord

\* Connector::start_in_loop().
LEMMA StartStepOK ==
  ASSUME ClientInv, NEW R, Turn(Start, R, <<>>), todo' = R, NEW outcome \in Outcome,
         connector' = start_in_loop(connector, outcome).r, connector'.made <= MaxCalls + MaxFaults
  PROVE  ClientInv'
<1>1. ClientTypeOK /\ OneAttempt /\ ChannelOK
  BY Invariants
<1>2. PICK k : k = connector
  OBVIOUS
<1>3. k \in ConnectorRecord
  BY <1>1, <1>2 DEF ClientTypeOK
<1>4. k.state = "Disconnected" /\ k.timers = 0 /\ k.channel = 0 /\ k.watched = 0
  <2>1. Start \in Tasks
    <3>1. todo \in Seq(Task) /\ todo # <<>> /\ Head(todo) = Start
      BY <1>1 DEF ClientTypeOK, Turn
    <3>2. Head(todo) \in Entries(todo)
      BY <3>1, TasksOf
    <3> QED
      BY <3>1, <3>2 DEF Tasks
  <2>2. k.state = "Disconnected" /\ k.timers = 0
    BY <1>1, <1>2, <2>1 DEF OneAttempt
  <2> QED
    BY <1>1, <1>2, <2>1, <2>2 DEF ChannelOK
<1>5. start_in_loop(k, outcome).r = IF k.want THEN connect_socket(k, outcome) ELSE k
  BY <1>4 DEF start_in_loop, Assert, Done, Result
<1>6. CASE ~k.want
  <2>1. connector' = connector
    BY <1>2, <1>5, <1>6
  <2>2. PICK h : h = Start
    OBVIOUS
  <2>3. h # Reset /\ h # Stop /\ Turn(h, R, <<>>)
    BY <2>2 DEF Start, Reset, Stop
  <2> QED
    BY <2>1, <2>3, IdleTurn
<1>7. CASE k.want
  <2>1. PICK s, fresh : s = k.made + 1 /\ fresh = [k EXCEPT !.made = s]
    OBVIOUS
  <2>2. connector' = CASE outcome = "ok"    -> connecting(fresh, s)
                       [] outcome = "again" -> retry(fresh, s)
                       [] outcome = "fatal" -> [close(fresh, s) EXCEPT !.gave_up = TRUE]
    BY <1>2, <1>5, <1>7, <2>1 DEF connect_socket
  <2>3. k.made \in Nat /\ s \in Nat /\ s # 0
    BY <1>3, <2>1 DEF ConnectorRecord
  <2>4. /\ fresh \in ConnectorRecord /\ fresh.made = s
        /\ \A f \in {"want", "state", "channel", "watched", "timers", "closed"} : fresh[f] = k[f]
    BY <1>3, <2>1, <2>3 DEF ConnectorRecord
  <2>5. /\ fresh.want /\ fresh.state = "Disconnected" /\ fresh.channel = 0 /\ fresh.watched = 0
        /\ fresh.timers = 0 /\ fresh.closed = k.closed
    BY <1>4, <1>7, <2>4
  <2>6. CASE outcome = "ok"
    <3>1. connector' = [fresh EXCEPT !.state = "Connecting", !.channel = s, !.watched = s]
      BY <2>2, <2>5, <2>6 DEF connecting, Assert
    <3>2. /\ connector' \in ConnectorRecord /\ connector'.state = "Connecting"
          /\ connector'.channel = s /\ connector'.watched = s
          /\ \A f \in {"want", "timers", "made", "closed"} : connector'[f] = fresh[f]
      BY <2>3, <2>4, <3>1 DEF ConnectorRecord
    <3>3. connector'.want /\ connector'.timers = 0 /\ connector'.made = s /\ connector'.closed = connector.closed
      BY <1>2, <2>4, <2>5, <3>2
    <3> QED
      BY <1>2, <1>7, <2>1, <3>2, <3>3, StartTurn
  <2>7. ASSUME outcome # "ok"
        PROVE  /\ connector' \in ConnectorRecord /\ connector'.state = "Disconnected"
               /\ connector'.channel = 0 /\ connector'.watched = 0 /\ connector'.made = s
               /\ connector'.want /\ connector'.closed = [connector.closed EXCEPT ![s] = @ + 1]
    <3>1. PICK z : z = [fresh.closed EXCEPT ![s] = @ + 1]
      OBVIOUS
    <3>2. fresh.closed \in [Conn -> Nat]
      BY <2>4 DEF ConnectorRecord
    <3>3. z \in [Conn -> Nat]
      <4>1. connector'.made = s
        BY <2>2, <2>4, <2>7 DEF retry, close, ConnectorRecord, Outcome
      <4>2. s \in Conn
        BY <2>3, <4>1, SocketAssumption, ClientAssumption
      <4> QED
        BY <3>1, <3>2, <4>2
    <3>4. CASE outcome = "fatal"
      <4>1. connector' = [fresh EXCEPT !.closed = z, !.gave_up = TRUE]
        BY <2>2, <2>4, <3>1, <3>4 DEF close, ConnectorRecord
      <4>2. /\ connector' \in ConnectorRecord /\ connector'.closed = z
            /\ \A f \in {"want", "state", "channel", "watched", "made"} : connector'[f] = fresh[f]
        BY <2>4, <3>3, <4>1 DEF ConnectorRecord
      <4> QED
        BY <1>2, <2>4, <2>5, <3>1, <4>2
    <3>5. CASE outcome = "again"
      <4>1. connector' = retry(fresh, s)
        BY <2>2, <3>5
      <4>2. CASE s \in Conn
        <5>1. /\ connector' \in ConnectorRecord /\ connector'.state = "Disconnected"
              /\ connector'.channel = fresh.channel
              /\ connector'.watched = fresh.watched /\ connector'.made = fresh.made
              /\ connector'.want = fresh.want
              /\ connector'.closed = [fresh.closed EXCEPT ![s] = @ + 1]
          <6>1. fresh \in ConnectorRecord /\ fresh.timers = 0
            BY <2>4, <2>5
          <6> QED
            BY <4>1, <4>2, <6>1, RetryEffect
        <5> QED
          BY <1>2, <2>4, <2>5, <5>1
      <4>3. CASE s \notin Conn
        <5>1. connector'.made = s
          BY <2>4, <4>1 DEF retry, close, ConnectorRecord
        <5> QED
          BY <2>3, <4>3, <5>1, SocketAssumption, ClientAssumption
      <4> QED
        BY <4>2, <4>3
    <3> QED
      BY <2>7, <3>4, <3>5 DEF Outcome
  <2>8. CASE outcome # "ok"
    BY <1>2, <1>7, <2>1, <2>7, <2>8, StartTurn
  <2> QED
    BY <2>6, <2>8
<1> QED
  BY <1>6, <1>7

\* Connector::handle_error() and stop_in_loop().
LEMMA RetryStepOK ==
  ASSUME ClientInv, NEW h \in {Stop, ErrorEvent, WriteEvent}, NEW R, Turn(h, R, <<Reset>>), todo' = R,
         connector.state = "Connecting",
         connector' = retry(remove_and_reset_channel(connector), connector.channel)
  PROVE  ClientInv'
<1>1. ClientTypeOK /\ OneAttempt /\ ChannelOK
  BY Invariants
<1>2. PICK s, off : s = connector.channel /\ off = [connector EXCEPT !.watched = 0]
  OBVIOUS
<1>3. s \in Conn /\ connector \in ConnectorRecord
  BY <1>1, <1>2, Made DEF ChannelOK, ClientTypeOK
<1>4. /\ off \in ConnectorRecord /\ off.watched = 0
      /\ \A f \in {"want", "state", "channel", "timers", "made", "closed"} : off[f] = connector[f]
  BY <1>2, <1>3 DEF ConnectorRecord
<1>5. off.timers = 0
  BY <1>1, <1>4 DEF OneAttempt
<1>6. connector' = retry(off, s)
  BY <1>2 DEF remove_and_reset_channel
<1>7. /\ connector' \in ConnectorRecord /\ connector'.state = "Disconnected" /\ connector'.channel = off.channel
      /\ connector'.watched = off.watched /\ connector'.made = off.made /\ connector'.want = off.want
      /\ connector'.closed = [off.closed EXCEPT ![s] = @ + 1]
  BY <1>3, <1>4, <1>5, <1>6, RetryEffect
<1>8. /\ connector'.channel = s /\ connector'.watched = 0 /\ connector'.made = connector.made
      /\ connector'.want = connector.want /\ connector'.closed = [connector.closed EXCEPT ![s] = @ + 1]
  BY <1>2, <1>4, <1>7
<1> QED
  BY <1>2, <1>7, <1>8, EndTurn

\* Connector::handle_write() of a connect that succeeded.
LEMMA UpStepOK ==
  ASSUME ClientInv, NEW R, NEW up, up = [remove_and_reset_channel(connector) EXCEPT !.state = "Connected"],
         Turn(WriteEvent, R, <<Reset>>), connector.state = "Connecting", NEW s, s = connector.channel,
         IF connector.want THEN connector' = up /\ todo' = <<<<"new_connection", s>>>>
         ELSE connector' = unwanted(up, s) /\ todo' = R
  PROVE  ClientInv'
<1>1. ClientTypeOK /\ OneAttempt /\ ChannelOK
  BY Invariants
<1>2. s \in Conn /\ connector \in ConnectorRecord
  BY <1>1, Made DEF ChannelOK, ClientTypeOK
<1>3. up = [connector EXCEPT !.watched = 0, !.state = "Connected"]
  BY <1>2 DEF remove_and_reset_channel, ConnectorRecord
<1>4. /\ up \in ConnectorRecord /\ up.watched = 0 /\ up.state = "Connected"
      /\ \A f \in {"want", "channel", "timers", "made", "closed"} : up[f] = connector[f]
  <2>1. PICK v : v = [connector EXCEPT !.watched = 0, !.state = "Connected"]
    OBVIOUS
  <2>2. v \in ConnectorRecord
    BY <1>2, <2>1 DEF ConnectorRecord
  <2>3. /\ v.watched = 0 /\ v.state = "Connected" /\ v.want = connector.want /\ v.channel = connector.channel
        /\ v.timers = connector.timers /\ v.made = connector.made /\ v.closed = connector.closed
    BY <1>2, <2>1 DEF ConnectorRecord
  <2> QED
    BY <1>3, <2>1, <2>2, <2>3
<1>5. /\ up.want = connector.want /\ up.channel = s /\ up.timers = 0 /\ up.made = connector.made
      /\ up.closed = connector.closed
  BY <1>1, <1>4 DEF OneAttempt
<1>6. PICK h : h = WriteEvent
  OBVIOUS
<1>7. Turn(h, R, <<Reset>>) /\ h \in {Stop, ErrorEvent, WriteEvent}
  BY <1>6
<1>8. CASE connector.want
  <2>1. connector' = up /\ todo' = <<<<"new_connection", s>>>>
    BY <1>8
  <2>2. /\ connector' \in ConnectorRecord /\ connector'.channel = s /\ connector'.watched = 0
        /\ connector'.made = connector.made /\ connector'.want = connector.want
        /\ connector'.state = "Connected" /\ connector'.timers = 0 /\ connector'.closed = connector.closed
    BY <1>4, <1>5, <2>1
  <2> QED
    BY <1>6, <1>7, <1>8, <2>1, <2>2, EndTurn
<1>9. CASE ~connector.want
  <2>1. PICK z : z = [connector.closed EXCEPT ![s] = @ + 1]
    OBVIOUS
  <2>2. z \in [Conn -> Nat]
    BY <1>2, <2>1, Made
  <2>3. connector' = [up EXCEPT !.closed = z] /\ todo' = R
    BY <1>4, <1>5, <1>9, <2>1 DEF unwanted, close, ConnectorRecord
  <2>4. /\ connector' \in ConnectorRecord /\ connector'.closed = z
        /\ \A f \in {"want", "state", "watched", "channel", "timers", "made"} : connector'[f] = up[f]
    BY <1>4, <2>2, <2>3 DEF ConnectorRecord
  <2>5. /\ connector'.want = connector.want /\ connector'.state = "Connected" /\ connector'.watched = 0
        /\ connector'.channel = s /\ connector'.timers = 0 /\ connector'.made = connector.made
    BY <1>4, <1>5, <2>4
  <2> QED
    BY <1>6, <1>7, <1>9, <2>1, <2>3, <2>4, <2>5, EndTurn
<1> QED
  BY <1>8, <1>9

LEMMA ConnectorStepOK ==
  ASSUME ClientInv, connector_step
  PROVE  ClientInv'
<1>1. ClientTypeOK /\ ThreadOK /\ ChannelOK /\ EventsOK /\ OneAttempt
  BY Invariants
<1>2. PICK h, R, k : h = Head(todo) /\ R = Tail(todo) /\ k = connector
  OBVIOUS
<1>3. PICK outcome, result :
        /\ outcome \in Outcome
        /\ result = CASE h[1] = "start_in_loop"   -> start_in_loop(k, outcome)
                      [] h[1] = "stop_in_loop"    -> stop_in_loop(k)
                      [] h[1] = "reset_channel"   -> reset_channel(k)
                      [] h[1] = "connector_write" -> connector_write(k)
                      [] h[1] = "connector_error" -> connector_error(k)
        /\ connector' = result.r
        /\ pending' = pending \o Tagged(0, result.q)
        /\ todo' = Tagged(k.channel, result.todo) \o R
        /\ connector'.made <= MaxCalls + MaxFaults
  <2>1. PICK o \in IF Head(todo)[1] = "start_in_loop" /\ connector.want THEN Outcome ELSE {"ok"} :
          LET step == Head(todo)[1]
              result == CASE step = "start_in_loop"   -> start_in_loop(connector, o)
                          [] step = "stop_in_loop"    -> stop_in_loop(connector)
                          [] step = "reset_channel"   -> reset_channel(connector)
                          [] step = "connector_write" -> connector_write(connector)
                          [] step = "connector_error" -> connector_error(connector)
          IN /\ connector' = result.r
             /\ pending' = pending \o Tagged(0, result.q)
             /\ todo' = Tagged(connector.channel, result.todo) \o Tail(todo)
             /\ connector'.made <= MaxCalls + MaxFaults
    BY ZenonT(60) DEF connector_step
  <2>2. o \in Outcome
    BY <2>1 DEF Outcome
  <2>3. PICK res : res = CASE h[1] = "start_in_loop"   -> start_in_loop(k, o)
                           [] h[1] = "stop_in_loop"    -> stop_in_loop(k)
                           [] h[1] = "reset_channel"   -> reset_channel(k)
                           [] h[1] = "connector_write" -> connector_write(k)
                           [] h[1] = "connector_error" -> connector_error(k)
    BY SMTT(60)
  <2>4. /\ connector' = res.r /\ pending' = pending \o Tagged(0, res.q)
        /\ todo' = Tagged(k.channel, res.todo) \o R /\ connector'.made <= MaxCalls + MaxFaults
    BY <1>2, <2>1, <2>3, ZenonT(60)
  <2> QED
    BY <2>2, <2>3, <2>4
<1>4. /\ todo # <<>> /\ h[1] \in ConnectorStep
      /\ UNCHANGED <<conn, batch, phase, revents, connection, adopted, alive, rebound, keeper>>
  BY <1>2 DEF connector_step
<1>5. h \in Task /\ R \in Seq(Task) /\ Entries(todo) = {h} \cup Entries(R)
  BY <1>2, <1>4, HeadOf
<1>6. h \in {Start, Stop, Reset, ErrorEvent, WriteEvent}
  <2>1. h \in {Start, Stop, Reset, ErrorEvent, WriteEvent} \cup ({"new_connection"} \X Conn)
                \cup ((Functor \cup Later \cup {"connect_established"}) \X adopted)
    BY <1>1, <1>5 DEF ThreadOK
  <2>2. /\ "new_connection" \notin ConnectorStep
        /\ \A f \in Functor \cup Later \cup {"connect_established"} : f \notin ConnectorStep
    BY DEF ConnectorStep, ConnectorFunctor, Functor, Later
  <2>3. /\ h \notin {"new_connection"} \X Conn
        /\ h \notin (Functor \cup Later \cup {"connect_established"}) \X adopted
    BY <1>4, <2>2
  <2> QED
    BY <2>1, <2>3
<1>7. k.channel \in Conn \cup {0}
  BY <1>2, Made
<1>8. /\ Tagged(0, <<>>) = <<>> /\ Tagged(0, <<"reset_channel">>) = <<Reset>>
      /\ Tagged(k.channel, <<>>) \o R = R
      /\ Tagged(k.channel, <<"new_connection">>) = <<<<"new_connection", k.channel>>>>
  <2>1. Tagged(k.channel, <<>>) = <<>> /\ <<>> \o R = R
    BY <1>5, <1>7, TaggedShort
  <2>2. Tagged(k.channel, <<"new_connection">>) = <<<<"new_connection", k.channel>>>>
    BY <1>7, TaggedShort, SMTT(60)
  <2>3. Tagged(0, <<>>) = <<>> /\ Tagged(0, <<"reset_channel">>) = <<Reset>>
    BY TaggedShort DEF Reset
  <2> QED
    BY <2>1, <2>2, <2>3
\* The three kinds of results.
<1>20. /\ connector' = result.r /\ pending' = pending \o Tagged(0, result.q)
       /\ todo' = Tagged(k.channel, result.todo) \o R
  BY <1>3
<1>9. ASSUME NEW t, result = Result(t, <<>>, <<>>)
      PROVE  Turn(h, R, <<>>) /\ connector' = t /\ todo' = R
  <2>1. result.r = t /\ result.q = <<>> /\ result.todo = <<>>
    BY <1>9 DEF Result
  <2>2. connector' = t /\ pending' = pending \o <<>> /\ todo' = R
    BY <1>8, <1>20, <2>1
  <2> QED
    BY <1>2, <1>4, <1>6, <2>2 DEF Turn
<1>10. ASSUME NEW t, result = Result(t, <<"reset_channel">>, <<>>)
       PROVE  Turn(h, R, <<Reset>>) /\ connector' = t /\ todo' = R
  <2>1. result.r = t /\ result.q = <<"reset_channel">> /\ result.todo = <<>>
    BY <1>10 DEF Result
  <2>2. connector' = t /\ pending' = pending \o <<Reset>> /\ todo' = R
    BY <1>8, <1>20, <2>1
  <2> QED
    BY <1>2, <1>4, <1>6, <2>2 DEF Turn
<1>11. ASSUME NEW t, result = Result(t, <<"reset_channel">>, <<"new_connection">>), R = <<>>, k.channel \in Conn
       PROVE  Turn(h, R, <<Reset>>) /\ connector' = t /\ todo' = <<<<"new_connection", k.channel>>>>
  <2>1. PICK n : n = <<"new_connection", k.channel>>
    OBVIOUS
  <2>2. n \in Task
    BY <1>11, <2>1, Distinct
  <2>3. <<n>> \o <<>> = <<n>>
    BY <1>5, <2>2, Prefix
  <2>4. result.r = t /\ result.q = <<"reset_channel">> /\ result.todo = <<"new_connection">>
    BY <1>11 DEF Result
  <2>5. pending' = pending \o <<Reset>> /\ connector' = t /\ todo' = <<n>> \o R
    BY <1>8, <1>20, <2>1, <2>4
  <2> QED
    BY <1>2, <1>4, <1>6, <1>11, <2>1, <2>3, <2>5 DEF Turn
<1>12. CASE h = Start
  <2>1. result = start_in_loop(k, outcome)
    BY <1>3, <1>12 DEF Start
  <2>2. PICK t : result = Result(t, <<>>, <<>>)
    BY <2>1 DEF start_in_loop, Done
  <2>3. Turn(Start, R, <<>>) /\ todo' = R
    BY <1>9, <1>12, <2>2
  <2>4. connector' = start_in_loop(connector, outcome).r
    BY <1>2, <1>3, <2>1
  <2> QED
    BY <1>3, <2>3, <2>4, StartStepOK
<1>13. ASSUME h \in {Stop, ErrorEvent},
              result = IF k.state = "Connecting"
                       THEN Result(retry(remove_and_reset_channel(k), k.channel), <<"reset_channel">>, <<>>)
                       ELSE Done(k)
       PROVE  ClientInv'
  <2>1. CASE k.state = "Connecting"
    <3>1. PICK t : t = retry(remove_and_reset_channel(k), k.channel)
      OBVIOUS
    <3>2. result = Result(t, <<"reset_channel">>, <<>>)
      BY <1>13, <2>1, <3>1
    <3>3. Turn(h, R, <<Reset>>) /\ connector' = t /\ todo' = R
      BY <1>10, <3>2
    <3> QED
      BY <1>2, <1>13, <2>1, <3>1, <3>3, RetryStepOK
  <2>2. CASE k.state # "Connecting"
    <3>1. result = Result(k, <<>>, <<>>)
      BY <1>13, <2>2 DEF Done
    <3>2. Turn(h, R, <<>>) /\ connector' = k /\ todo' = R
      BY <1>9, <3>1
    <3>3. h # Reset
      BY <1>13 DEF Stop, Reset, ErrorEvent
    <3> QED
      BY <1>2, <2>2, <3>2, <3>3, IdleTurn
  <2> QED
    BY <2>1, <2>2
<1>14. CASE h = Stop
  <2>1. result = stop_in_loop(k)
    BY <1>3, <1>14 DEF Stop
  <2> QED
    BY <1>13, <1>14, <2>1 DEF stop_in_loop
<1>15. CASE h = ErrorEvent
  <2>1. result = connector_error(k)
    BY <1>3, <1>15 DEF ErrorEvent
  <2> QED
    BY <1>13, <1>15, <2>1 DEF connector_error
<1>16. CASE h = Reset
  <2>1. PICK t : t = [k EXCEPT !.channel = 0]
    OBVIOUS
  <2>2. result = Result(t, <<>>, <<>>)
    BY <1>3, <1>16, <2>1 DEF Reset, reset_channel, Done
  <2>3. Turn(Reset, R, <<>>) /\ connector' = t /\ todo' = R
    BY <1>9, <1>16, <2>2
  <2> QED
    BY <1>2, <2>1, <2>3, ResetTurn
<1>17. CASE h = WriteEvent
  <2>1. PICK s, off, up : /\ s = k.channel /\ off = remove_and_reset_channel(k)
                          /\ up = [off EXCEPT !.state = "Connected"]
    OBVIOUS
  <2>2. result = connector_write(k)
    BY <1>3, <1>17 DEF WriteEvent
  <2>3. R = <<>>
    BY <1>2, <1>4, <1>17, HeadOf
  <2>4. WriteEvent \in Entries(todo)
    BY <1>5, <1>17
  <2>5. CASE k.state # "Connecting"
    <3>1. k.state = "Disconnected"
      BY <1>1, <1>2, <2>4, <2>5 DEF EventsOK
    <3>2. result = Result(k, <<>>, <<>>)
      BY <2>2, <2>5, <3>1 DEF connector_write, Assert, Done
    <3>3. Turn(h, R, <<>>) /\ connector' = k /\ todo' = R
      BY <1>9, <3>2
    <3>4. h # Reset
      BY <1>17 DEF WriteEvent, Reset
    <3> QED
      BY <1>2, <2>5, <3>3, <3>4, IdleTurn
  <2>6. CASE k.state = "Connecting"
    <3>1. \/ result = Result(retry(off, s), <<"reset_channel">>, <<>>)
          \/ k.want /\ result = Result(up, <<"reset_channel">>, <<"new_connection">>)
          \/ ~k.want /\ result = Result(unwanted(up, s), <<"reset_channel">>, <<>>)
      BY <2>1, <2>2, <2>6 DEF connector_write
    <3>2. CASE result = Result(retry(off, s), <<"reset_channel">>, <<>>)
      <4>1. Turn(h, R, <<Reset>>) /\ connector' = retry(off, s) /\ todo' = R
        BY <1>10, <3>2
      <4> QED
        BY <1>2, <1>17, <2>1, <2>6, <4>1, RetryStepOK
    <3>3. CASE k.want /\ result = Result(up, <<"reset_channel">>, <<"new_connection">>)
      <4>1. s \in Conn
        BY <1>1, <1>2, <2>1, <2>6, Made DEF ChannelOK
      <4>2. Turn(h, R, <<Reset>>) /\ connector' = up /\ todo' = <<<<"new_connection", s>>>>
        BY <1>11, <2>1, <2>3, <3>3, <4>1
      <4> QED
        BY <1>2, <1>17, <2>1, <2>6, <3>3, <4>2, UpStepOK
    <3>4. CASE ~k.want /\ result = Result(unwanted(up, s), <<"reset_channel">>, <<>>)
      <4>1. Turn(h, R, <<Reset>>) /\ connector' = unwanted(up, s) /\ todo' = R
        BY <1>10, <3>4
      <4> QED
        BY <1>2, <1>17, <2>1, <2>6, <3>4, <4>1, UpStepOK
    <3> QED
      BY <3>1, <3>2, <3>3, <3>4
  <2> QED
    BY <2>5, <2>6
<1> QED
  BY <1>6, <1>12, <1>14, <1>15, <1>16, <1>17

(***************************************************************************)
(* The theorems.                                                           *)
(***************************************************************************)
LEMMA InitOK ==
  ASSUME Init
  PROVE  ClientInv
<1>1. /\ conn = [c \in Conn |-> New] /\ pending = <<>> /\ batch = <<>> /\ phase = "poll"
      /\ revents = [c \in Conn |-> {}] /\ todo = <<>> /\ connector = NewConnector
      /\ connection = 0 /\ adopted = {} /\ alive = TRUE /\ rebound = {} /\ keeper = FALSE
  BY DEF Init, IoInit
<1>2. New \in Record
  BY DEF New, Record, State
<1>3. /\ connector \in ConnectorRecord /\ connector.state = "Disconnected" /\ connector.channel = 0
      /\ connector.watched = 0 /\ connector.timers = 0 /\ connector.made = 0
      /\ connector.closed = [s \in Conn |-> 0]
  <2>1. InitDelay \in Nat
    BY ClientAssumption
  <2> QED
    BY <1>1, <2>1 DEF NewConnector, ConnectorRecord
<1>4. Entries(<<>>) = {} /\ AtMostOne(<<>>, Closers) /\ AtMostOne(<<>>, {Start}) /\ Without(<<>>, {Start})
  BY DEF Entries, AtMostOne, Without
<1>5. ClientTypeOK
  <2>1. conn \in [Conn -> Record]
    BY <1>1, <1>2
  <2>2. revents \in [Conn -> SUBSET Event]
    BY <1>1
  <2>3. <<>> \in Seq(Task)
    OBVIOUS
  <2> QED
    BY <1>1, <1>3, <2>1, <2>2, <2>3 DEF ClientTypeOK
<1>6. ShapeInv
  BY <1>1, <1>4 DEF ShapeInv, QueueOK, ThreadOK, Phases, Behind
<1>7. ConnectorInv
  <2>1. Tasks = {} /\ OnceIn({Start}, todo, batch, pending)
    BY <1>1, <1>4 DEF Tasks, Queued, OnceIn
  <2> QED
    BY <1>1, <1>3, <1>4, <2>1, ClientAssumption
    DEF ConnectorInv, OneAttempt, ChannelOK, EventsOK, HandedOK, ResetInTime
<1>8. LifeInv
  BY <1>1 DEF LifeInv, CurrentOK, NotAdopted, OnlyGivenAway, NoOutput, Mine
<1>9. OwnInv
  BY <1>1 DEF OwnInv
<1>10. SocketInv
  BY <1>1, <1>3 DEF SocketInv
<1> QED
  BY <1>5, <1>6, <1>7, <1>8, <1>9, <1>10 DEF ClientInv

LEMMA NextOK ==
  ASSUME ClientInv, [Next]_vars
  PROVE  ClientInv'
<1>1. CASE LoopStep
  BY <1>1, PollOK, DispatchOK, SwapOK, RunFunctorOK, DrainedOK, PerformOK, UserReturnOK DEF LoopStep
<1>2. CASE ClientStep
  BY <1>1, <1>2, ConnectorDispatchOK, ConnectorStepOK, NewConnectionOK, CloseCallbackOK DEF ClientStep
<1>3. CASE destroy_client
  BY <1>3, DestroyIdleOK, DestroyConnectedOK
<1> QED
  BY <1>2, <1>3, ConnectOK, StopOK, DisconnectOK, DisconnectAwayOK, RetryOK, OutsideOK DEF Next

\* ClientInv is inductive.
THEOREM ClientInvariant == Spec => []ClientInv
BY InitOK, NextOK, PTL DEF Spec

\* As long as the client is destroyed on its loop's thread, outside timer callbacks
\* and with a connection that is unique, and connect() finds a connector at rest: the
\* asserts of Connector (start_in_loop(), connecting(), handle_write(), the
\* destructor) and of
\* TcpClient::remove_connection() hold, what is queued for the connector finds it,
\* and the channel the poller knows is the connector's: there is never a second
\* attempt while one is under way, to come, or not yet reset, and the connection
\* that closes is the current one of a client that still exists.
THEOREM ClientAssertionsHold == Spec => []AssertionsHold
<1>1. ASSUME ClientInv PROVE AssertionsHold
  <2>1. ClientTypeOK /\ ChannelOK /\ OwnInv
    BY <1>1, Invariants
  <2>2. connector.failed = {}
    BY <2>1 DEF ClientTypeOK, ConnectorRecord
  <2>3. (\E f \in ConnectorFunctor : <<f, 0>> \in Queued) => ConnectorOwned
    BY <2>1 DEF OwnInv, ConnectorFunctor, ConnectorOwned, Start, Stop, Reset, Tasks
  <2>4. connector.watched # 0 => connector.watched = connector.channel
    BY <2>1 DEF ChannelOK
  <2>5. ConnectorReleased
    BY <2>1 DEF OwnInv, ChannelOK, ConnectorReleased, ConnectorOwned
  <2> QED
    BY <2>2, <2>3, <2>4, <2>5 DEF AssertionsHold
<1> QED
  BY <1>1, ClientInvariant, PTL

\* No socket that Connector::connect() made is lost or closed twice: it is the
\* connector's, or is being handed to new_connection(), or belongs to a
\* TcpConnection, or the connector closed it, exactly once.
THEOREM SocketsAlwaysConserved == Spec => []SocketsConserved
<1>1. ASSUME ClientInv PROVE SocketsConserved
  <2> SUFFICES ASSUME NEW s \in 1..connector.made,
                      NEW S, S = {b \in {"trying", "handed", "adopted"} :
                                    CASE b = "trying"  -> Trying(s)
                                      [] b = "handed"  -> Handed(s)
                                      [] b = "adopted" -> s \in adopted}
               PROVE  connector.closed[s] + Cardinality(S) = 1
    BY DEF SocketsConserved, Trying, Handed
  <2>1. SocketInv
    BY <1>1, Invariants
  <2>2. /\ connector.closed[s] = IF Trying(s) \/ Handed(s) \/ s \in adopted THEN 0 ELSE 1
        /\ ~(Trying(s) /\ Handed(s)) /\ ~(Trying(s) /\ s \in adopted) /\ ~(Handed(s) /\ s \in adopted)
    BY <2>1 DEF SocketInv
  <2>3. S = (IF Trying(s) THEN {"trying"} ELSE {}) \cup (IF Handed(s) THEN {"handed"} ELSE {})
              \cup (IF s \in adopted THEN {"adopted"} ELSE {})
    OBVIOUS
  <2>4. Cardinality({}) = 0 /\ \A b : Cardinality({b}) = 1
    BY FS_EmptySet, FS_Singleton
  <2>5. \/ connector.closed[s] = 0 /\ \E b : S = {b}
        \/ connector.closed[s] = 1 /\ S = {}
    BY <2>2, <2>3, ZenonT(60)
  <2>6. \/ connector.closed[s] = 0 /\ Cardinality(S) = 1
        \/ connector.closed[s] = 1 /\ Cardinality(S) = 0
    BY <2>4, <2>5
  <2>7. PICK x, n : x = connector.closed[s] /\ n = Cardinality(S)
    OBVIOUS
  <2>8. x + n = 1
    <3>1. (x = 0 /\ n = 1) \/ (x = 1 /\ n = 0)
      BY <2>6, <2>7
    <3> QED
      BY <3>1
  <2> QED
    BY <2>7, <2>8
<1> QED
  BY <1>1, ClientInvariant, PTL
=============================================================================
