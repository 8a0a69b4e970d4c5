------------------------------ MODULE Pollers ------------------------------
(***************************************************************************)
(* suduo::net::EPollPoller and suduo::net::PollPoller: the tables that     *)
(* connect a loop's Channels with what is registered in the kernel.        *)
(*                                                                         *)
(*   chan[ch]    the Channel: _events and _index; stage says whether it is *)
(*               new, registered or removed                                *)
(*   channels    Poller::_channels, from descriptor to Channel             *)
(*   poll_fds    PollPoller::_poll_fds; a disabled entry has its           *)
(*               descriptor fd turned into -fd - 1                         *)
(*   epoll       the kernel's epoll set: per descriptor the events and the *)
(*               Channel pointer                                           *)
(*                                                                         *)
(* Duties of the callers, guards here: a Channel's first update enables an *)
(* event, and it is not used after it was removed.  Descriptors are used   *)
(* again by later Channels.                                                *)
(*                                                                         *)
(* asserts collects the asserts on the tables.  The one on the caller,     *)
(* that a Channel is disabled before it is removed, is not among them, and *)
(* is no guard either, since a TcpConnection breaks it: see                *)
(* RemovedDisabled in TcpServer.                                           *)
(***************************************************************************)
EXTENDS Integers, Sequences, FiniteSets

CONSTANTS Channel, Fd(_)        \* Channels and their descriptors

ASSUME FdAssumption == \A ch \in Channel : Fd(ch) \in Nat

VARIABLES kind, chan, channels, poll_fds, epoll, asserts

pollerVars == <<kind, chan, channels, poll_fds, epoll, asserts>>

NoChannel == "none"
ASSUME ChannelAssumption == NoChannel \notin Channel

Fds == {Fd(ch) : ch \in Channel}
Event == {"in", "out"}
Absent == [events |-> {}, ptr |-> NoChannel]

NewChannel == [events |-> {}, index |-> -1, stage |-> "new"]

\* Poller::new_default_poller(): SUDUO_USE_POLL decides.
PollerInit ==
  /\ kind \in {"poll", "epoll"}
  /\ chan = [ch \in Channel |-> NewChannel]
  /\ channels = [fd \in Fds |-> NoChannel]
  /\ poll_fds = <<>>
  /\ epoll = [fd \in Fds |-> Absent]
  /\ asserts = TRUE

has_channel(ch) == channels[Fd(ch)] = ch

Hide(fd) == -fd - 1
Entry(ch, events) == [fd |-> IF events = {} THEN Hide(Fd(ch)) ELSE Fd(ch), events |-> events]

\* PollPoller::update_channel()
poll_update(ch, events) ==
  LET idx == chan[ch].index IN
  /\ UNCHANGED epoll
  /\ IF idx < 0
     THEN /\ asserts' = (asserts /\ channels[Fd(ch)] = NoChannel)
          /\ poll_fds' = Append(poll_fds, [fd |-> Fd(ch), events |-> events])
          /\ channels' = [channels EXCEPT ![Fd(ch)] = ch]
          /\ chan' = [chan EXCEPT ![ch].events = events, ![ch].index = Len(poll_fds),
                                  ![ch].stage = "in"]
     ELSE /\ asserts' = (/\ asserts
                         /\ has_channel(ch)
                         /\ idx < Len(poll_fds)
                         /\ poll_fds[idx + 1].fd \in {Fd(ch), Hide(Fd(ch))})
          /\ poll_fds' = [poll_fds EXCEPT ![idx + 1] = Entry(ch, events)]
          /\ chan' = [chan EXCEPT ![ch].events = events]
          /\ UNCHANGED channels

\* EPollPoller::update(): what epoll_ctl(2) is told.
Registration(ch, events) == [events |-> events, ptr |-> ch]

\* EPollPoller::update_channel()
epoll_update(ch, events) ==
  /\ UNCHANGED <<poll_fds, asserts>>
  /\ channels' = IF channels[Fd(ch)] = NoChannel THEN [channels EXCEPT ![Fd(ch)] = ch] ELSE channels
  /\ epoll' = [epoll EXCEPT ![Fd(ch)] = Registration(ch, events)]
  /\ chan' = [chan EXCEPT ![ch].events = events, ![ch].stage = "in"]

\* Channel::enable_reading() and its likes.
update_channel(ch, events) ==
  /\ \/ chan[ch].stage = "in"
     \/ chan[ch].stage = "new" /\ events # {} /\ channels[Fd(ch)] = NoChannel
  /\ IF kind = "poll" THEN poll_update(ch, events) ELSE epoll_update(ch, events)
  /\ UNCHANGED kind

\* Variant: the entry moved into the gap keeps its old index.
moved__stale(fd, idx) == chan
\* The Channel of the last entry learns its new place.
moved(fd, idx) == [chan EXCEPT ![channels[IF fd < 0 THEN Hide(fd) ELSE fd]].index = idx]

\* PollPoller::remove_channel(): the last entry takes the place of the removed,
\* which is what its Channel asks for and so, if that is disabled, a hidden one.
poll_remove(ch) ==
  LET idx == chan[ch].index
      last == Len(poll_fds)
      index == IF idx = last - 1 THEN chan ELSE moved(poll_fds[last].fd, idx)
  IN /\ asserts' = (/\ asserts
                    /\ has_channel(ch)
                    /\ idx \in 0..last - 1
                    /\ poll_fds[idx + 1] = Entry(ch, chan[ch].events))
     /\ channels' = [channels EXCEPT ![Fd(ch)] = NoChannel]
     /\ poll_fds' = [i \in 1..last - 1 |-> IF i = idx + 1 THEN poll_fds[last] ELSE poll_fds[i]]
     /\ chan' = [index EXCEPT ![ch].stage = "removed"]
     /\ UNCHANGED epoll

\* EPollPoller::remove_channel()
epoll_remove(ch) ==
  /\ channels' = [channels EXCEPT ![Fd(ch)] = NoChannel]
  /\ epoll' = [epoll EXCEPT ![Fd(ch)] = Absent]
  /\ chan' = [chan EXCEPT ![ch].stage = "removed"]
  /\ UNCHANGED <<poll_fds, asserts>>

remove_channel(ch) ==
  /\ chan[ch].stage = "in"
  /\ IF kind = "poll" THEN poll_remove(ch) ELSE epoll_remove(ch)
  /\ UNCHANGED kind

PollerNext ==
  \E ch \in Channel : remove_channel(ch) \/ \E events \in SUBSET Event : update_channel(ch, events)

PollerSpec == PollerInit /\ [][PollerNext]_pollerVars

\* fill_active_channels(), when the kernel has something for the descriptors in
\* ready: poll() finds the Channel by its descriptor, epoll by the pointer.
poll_active(ready) ==
  {channels[poll_fds[i].fd] : i \in {j \in 1..Len(poll_fds) : poll_fds[j].fd \in ready}}

epoll_active(ready) == {epoll[fd].ptr : fd \in ready} \ {NoChannel}

fill_active_channels(ready) == IF kind = "poll" THEN poll_active(ready) ELSE epoll_active(ready)

\* The kernel was asked for the events of the Channel, under its descriptor.
Asked(ch) ==
  IF kind = "poll"
  THEN /\ chan[ch].index \in 0..Len(poll_fds) - 1
       /\ poll_fds[chan[ch].index + 1] = Entry(ch, chan[ch].events)
  ELSE epoll[Fd(ch)].events = chan[ch].events

\* The pollers' asserts on their tables hold, and in whatever order Channels
\* come, change and go, disabled or not, what the kernel is asked for is what each registered Channel wants and
\* what it reports goes to the Channel that now owns the descriptor: never to a
\* removed one and, with poll(), never to a disabled one.
PollerAgrees ==
  LET In == {ch \in Channel : chan[ch].stage = "in"} IN
  /\ asserts
  /\ \A ch \in Channel : has_channel(ch) <=> ch \in In
  /\ \A ch \in In : Asked(ch)
  /\ \A ready \in SUBSET Fds :
       fill_active_channels(ready) =
         {ch \in In : Fd(ch) \in ready /\ (kind = "poll" => chan[ch].events # {})}
============================================================================
