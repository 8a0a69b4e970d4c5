------------------------------- MODULE IoLoop -------------------------------
(***************************************************************************)
(* The loop that TcpConnections run on, used through what EventLoop        *)
(* guarantees: a FIFO of functors of which the loop runs, after the        *)
(* callbacks of a poll, the batch queued so far.  What is queued during a  *)
(* poll's callbacks runs before the next poll.                             *)
(*                                                                         *)
(*   phase    poll, dispatch (the for loop over the active channels) or    *)
(*            drain (do_pending_functors)                                  *)
(*   revents  the active channels not yet dispatched and their events      *)
(*   pending  _pending_functors; batch: those the loop took out to run     *)
(*   todo     what the loop's thread is in the middle of                   *)
(*   kept     connections the functors of the batch point to               *)
(*                                                                         *)
(* Steps and functors are pairs of a name and what they are bound to.      *)
(***************************************************************************)
EXTENDS TcpConnection, FiniteSets

CONSTANT Conn           \* names of connections

ASSUME ConnAssumption == IsFiniteSet(Conn)

VARIABLES conn,         \* the connection objects
          pending, batch, phase, revents, todo, kept

turnVars == <<pending, batch, phase, revents, todo, kept>>
ioVars == <<conn, turnVars>>

IoInit ==
  /\ conn = [c \in Conn |-> New]
  /\ pending = <<>>
  /\ batch = <<>>
  /\ phase = "poll"
  /\ revents = [c \in Conn |-> {}]
  /\ todo = <<>>
  /\ kept = {}

Entries(s) == {s[i] : i \in 1..Len(s)}
Tagged(c, steps) == [i \in 1..Len(steps) |-> <<steps[i], c>>]
Queued == Entries(pending) \cup Entries(batch)

\* A functor or the call under way (Channel::_tie) holds a pointer to c.
HeldByLoop(c) ==
  \/ c \in kept
  \/ \E f \in SharedFunctor : <<f, c>> \in Queued
  \/ \E i \in 1..Len(todo) : todo[i][2] = c

\* The loop's thread is between two callbacks of a poll.
BetweenCallbacks == phase = "dispatch" /\ todo = <<>>

\* poll() returns the ready channels, or none on a wakeup or timeout.
poll(ready) ==
  /\ phase = "poll"
  /\ revents' = ready
  /\ phase' = "dispatch"
  /\ UNCHANGED <<conn, pending, batch, todo, kept>>

\* The next active channel's handle_event().
dispatch(c, callbacks) ==
  /\ BetweenCallbacks
  /\ revents[c] # {}
  /\ todo' = Tagged(c, callbacks)
  /\ revents' = [revents EXCEPT ![c] = {}]
  /\ UNCHANGED <<conn, pending, batch, phase, kept>>

all_dispatched == \A c \in Conn : revents[c] = {}

\* do_pending_functors() takes the batch.
swap ==
  /\ BetweenCallbacks
  /\ all_dispatched
  /\ batch' = pending
  /\ pending' = <<>>
  /\ kept' = {c \in Conn : \E f \in SharedFunctor : <<f, c>> \in Entries(pending)}
  /\ phase' = "drain"
  /\ UNCHANGED <<conn, revents, todo>>

run_functor ==
  /\ phase = "drain" /\ todo = <<>>
  /\ batch # <<>>
  /\ todo' = <<Head(batch)>>
  /\ batch' = Tail(batch)
  /\ UNCHANGED <<conn, pending, phase, revents, kept>>

\* do_pending_functors() returns and its vector of functors is destroyed.
drained ==
  /\ phase = "drain" /\ todo = <<>>
  /\ batch = <<>>
  /\ phase' = "poll"
  /\ kept' = {}
  /\ UNCHANGED <<conn, pending, batch, revents, todo>>

\* A handler's result takes effect; rest is what the thread had to do after it.
Apply(c, result, rest) ==
  /\ conn' = [conn EXCEPT ![c] = result.r]
  /\ pending' = pending \o Tagged(c, result.q)
  /\ todo' = Tagged(c, result.todo) \o rest
  /\ UNCHANGED <<batch, phase, revents, kept>>

\* The thread performs the next step of the connection's handler it is in.
perform ==
  /\ todo # <<>>
  /\ LET step == Head(todo)[1]
         c == Head(todo)[2]
     IN /\ step \in Step \ {"user", "close_callback"}
        /\ \E n \in write(conn[c], IF step = "handle_write" THEN conn[c].out ELSE 1) :
             Apply(c, Perform(step, conn[c], n), Tail(todo))

InUserCode == todo # <<>> /\ Head(todo)[1] = "user"

user_return ==
  /\ InUserCode
  /\ todo' = Tail(todo)
  /\ UNCHANGED <<conn, pending, batch, phase, revents, kept>>

\* The peers, external: data, a close, a reset.
peer_closes(c) ==
  /\ conn[c].peer = "open"
  /\ conn' = [conn EXCEPT ![c].peer = "fin"]
  /\ UNCHANGED turnVars

peer_resets(c) ==
  /\ conn[c].peer # "rst"
  /\ conn' = [conn EXCEPT ![c].peer = "rst", ![c].err = TRUE]
  /\ UNCHANGED turnVars

=============================================================================
