-------------------------- MODULE StructuresProofs --------------------------
(***************************************************************************)
(* Proofs about the structures the rest is built on: the tables of the two *)
(* pollers, the blocking queues, the byte buffer and the HTTP server that  *)
(* reads from one, for any channels and descriptors, any sizes, any number *)
(* of threads, items and bytes, and any streams of requests.               *)
(***************************************************************************)
EXTENDS Pollers, Queues, HttpServer, FiniteSetTheorems, SequenceTheorems, TLAPS

(***************************************************************************)
(* Pollers.  The invariant ties the tables together in both directions: a  *)
(* registered Channel knows its entry, and every entry belongs to a        *)
(* registered Channel, which the descriptor leads to.                      *)
(***************************************************************************)
In == {ch \in Channel : chan[ch].stage = "in"}

PollerTypeOK ==
  /\ kind \in {"poll", "epoll"}
  /\ chan \in [Channel -> [events : SUBSET Event, index : Int, stage : {"new", "in", "removed"}]]
  /\ channels \in [Fds -> Channel \cup {NoChannel}]
  /\ poll_fds \in Seq([fd : Int, events : SUBSET Event])
  /\ epoll \in [Fds -> [events : SUBSET Event, ptr : Channel \cup {NoChannel}]]

\* _channels leads from its descriptor to each registered Channel.
ChannelsOK ==
  /\ \A ch \in Channel : has_channel(ch) <=> ch \in In
  /\ \A fd \in Fds : channels[fd] # NoChannel => Fd(channels[fd]) = fd

\* With PollPoller the entries and the registered Channels name each other.
PollFdsOK ==
  /\ \A ch \in In : /\ chan[ch].index \in 0..Len(poll_fds) - 1
                    /\ poll_fds[chan[ch].index + 1] = Entry(ch, chan[ch].events)
  /\ \A i \in 1..Len(poll_fds) : \E ch \in In : chan[ch].index = i - 1
  /\ \A ch \in Channel : chan[ch].stage = "new" => chan[ch].index = -1

\* With EPollPoller the kernel knows the registered Channels and no others.
EpollOK ==
  \A fd \in Fds : epoll[fd] = IF channels[fd] = NoChannel THEN Absent
                              ELSE Registration(channels[fd], chan[channels[fd]].events)

PollerInv ==
  /\ PollerTypeOK
  /\ asserts = TRUE
  /\ ChannelsOK
  /\ kind = "poll" => PollFdsOK
  /\ kind = "epoll" => EpollOK

\* A function on 1..n is a sequence.
LEMMA FunctionIsSeq ==
  ASSUME NEW S, NEW n \in Nat, NEW f \in [1..n -> S]
  PROVE  f \in Seq(S)
  BY SeqDef, Zenon

\* A poll entry tells the descriptor of its Channel, disabled or not.
LEMMA EntryTells ==
  ASSUME NEW ch \in Channel, NEW events \in SUBSET Event
  PROVE  LET e == Entry(ch, events) IN
         /\ e \in [fd : Int, events : SUBSET Event]
         /\ e.events = events
         /\ (IF e.fd < 0 THEN Hide(e.fd) ELSE e.fd) = Fd(ch)
         /\ e.fd >= 0 <=> events # {}
         /\ e.fd \in {Fd(ch), Hide(Fd(ch))}
  BY FdAssumption DEF Entry, Hide

\* Two registered Channels never share an entry.
LEMMA OwnEntry ==
  ASSUME PollerInv, kind = "poll", NEW a \in In, NEW b \in In, chan[a].index = chan[b].index
  PROVE  a = b
<1>1. /\ a \in Channel /\ b \in Channel
      /\ chan[a].events \in SUBSET Event /\ chan[b].events \in SUBSET Event
  BY DEF In, PollerInv, PollerTypeOK
<1>2. Entry(a, chan[a].events) = Entry(b, chan[b].events)
  BY DEF PollerInv, PollFdsOK
<1>3. Fd(a) = Fd(b)
  BY <1>1, <1>2, EntryTells
<1>4. channels[Fd(a)] = a /\ channels[Fd(b)] = b
  BY <1>1 DEF PollerInv, ChannelsOK, has_channel
<1> QED
  BY <1>3, <1>4

\* A Channel registers itself: its entry is the last.
LEMMA PollAdds ==
  ASSUME PollerInv, kind = "poll", NEW ch \in Channel, NEW events \in SUBSET Event,
         chan[ch].stage = "new", events # {}, channels[Fd(ch)] = NoChannel,
         poll_update(ch, events), kind' = kind
  PROVE  PollerInv'
<1> USE DEF PollerInv
<1>1. chan[ch].index = -1
  BY DEF PollFdsOK
<1>2. /\ asserts' = TRUE /\ epoll' = epoll
      /\ poll_fds' = Append(poll_fds, [fd |-> Fd(ch), events |-> events])
      /\ channels' = [channels EXCEPT ![Fd(ch)] = ch]
      /\ chan' = [chan EXCEPT ![ch].events = events, ![ch].index = Len(poll_fds),
                              ![ch].stage = "in"]
  <2>1. chan[ch].index < 0
    BY <1>1
  <2> QED
    BY <2>1, Zenon DEF poll_update
<1>3. Fd(ch) \in Fds /\ Fd(ch) \in Nat
  BY FdAssumption DEF Fds
<1>4. /\ chan'[ch] = [events |-> events, index |-> Len(poll_fds), stage |-> "in"]
      /\ \A c \in Channel \ {ch} : chan'[c] = chan[c]
      /\ chan' \in [Channel -> [events : SUBSET Event, index : Int,
                                stage : {"new", "in", "removed"}]]
  BY <1>2 DEF PollerTypeOK
<1>5. In' = In \cup {ch}
  BY <1>4 DEF In
<1>6. /\ Len(poll_fds') = Len(poll_fds) + 1 /\ Len(poll_fds) \in Nat
      /\ poll_fds'[Len(poll_fds) + 1] = [fd |-> Fd(ch), events |-> events]
      /\ \A i \in 1..Len(poll_fds) : poll_fds'[i] = poll_fds[i]
      /\ poll_fds' \in Seq([fd : Int, events : SUBSET Event])
  BY <1>2, <1>3 DEF PollerTypeOK
<1>7. PollerTypeOK'
  BY <1>2, <1>3, <1>4, <1>6 DEF PollerTypeOK
<1>8. ch \notin In /\ \A c \in In : Fd(c) # Fd(ch)
  BY ChannelAssumption DEF ChannelsOK, has_channel, In
<1>9. ChannelsOK'
  <2>1. \A c \in Channel : channels'[Fd(c)] = IF Fd(c) = Fd(ch) THEN ch ELSE channels[Fd(c)]
    BY <1>2, <1>3 DEF PollerTypeOK, Fds
  <2>2. \A c \in Channel : channels'[Fd(c)] = c <=> c \in In'
    <3> SUFFICES ASSUME NEW c \in Channel PROVE channels'[Fd(c)] = c <=> c \in In'
      OBVIOUS
    <3>1. CASE c = ch
      BY <1>5, <2>1, <3>1
    <3>2. CASE c # ch
      BY <1>5, <1>8, <2>1, <3>2 DEF ChannelsOK, has_channel
    <3> QED
      BY <3>1, <3>2
  <2>3. \A fd \in Fds : channels'[fd] # NoChannel => Fd(channels'[fd]) = fd
    BY <1>2, <1>3 DEF PollerTypeOK, ChannelsOK
  <2> QED
    BY <2>2, <2>3 DEF ChannelsOK, has_channel
<1>10. PollFdsOK'
  <2>1. Entry(ch, events) = [fd |-> Fd(ch), events |-> events]
    BY DEF Entry
  <2>2. \A c \in In : /\ c \in Channel \ {ch} /\ chan[c].index \in 0..Len(poll_fds) - 1
                      /\ poll_fds[chan[c].index + 1] = Entry(c, chan[c].events)
    BY <1>8 DEF PollFdsOK, In
  <2>3. \A c \in In' : /\ chan'[c].index \in 0..Len(poll_fds') - 1
                       /\ poll_fds'[chan'[c].index + 1] = Entry(c, chan'[c].events)
    <3>1. /\ chan'[ch].index \in 0..Len(poll_fds') - 1
          /\ poll_fds'[chan'[ch].index + 1] = Entry(ch, chan'[ch].events)
      BY <1>4, <1>6, <2>1
    <3>2. \A c \in In : /\ chan'[c] = chan[c]
                        /\ chan[c].index + 1 \in 1..Len(poll_fds)
                        /\ chan[c].index \in 0..Len(poll_fds') - 1
      BY <1>4, <1>6, <2>2
    <3>3. \A c \in In : poll_fds'[chan'[c].index + 1] = Entry(c, chan'[c].events)
      BY <1>6, <2>2, <3>2
    <3> QED
      BY <1>5, <3>1, <3>2, <3>3
  <2>4. \A i \in 1..Len(poll_fds') : \E c \in In' : chan'[c].index = i - 1
    <3> SUFFICES ASSUME NEW i \in 1..Len(poll_fds') PROVE \E c \in In' : chan'[c].index = i - 1
      OBVIOUS
    <3>1. CASE i = Len(poll_fds) + 1
      BY <1>4, <1>5, <1>6, <3>1
    <3>2. CASE i \in 1..Len(poll_fds)
      BY <1>4, <1>5, <2>2, <3>2 DEF PollFdsOK
    <3> QED
      BY <1>6, <3>1, <3>2
  <2>5. \A c \in Channel : chan'[c].stage = "new" => chan'[c].index = -1
    BY <1>4 DEF PollFdsOK
  <2> QED
    BY <2>3, <2>4, <2>5 DEF PollFdsOK, Entry
<1> QED
  BY <1>2, <1>7, <1>9, <1>10

\* A registered Channel changes its events, in its own entry.
LEMMA PollChanges ==
  ASSUME PollerInv, kind = "poll", NEW ch \in In, NEW events \in SUBSET Event,
         poll_update(ch, events), kind' = kind
  PROVE  PollerInv'
<1> USE DEF PollerInv
<1> DEFINE idx == chan[ch].index
<1>1. /\ ch \in Channel /\ idx \in 0..Len(poll_fds) - 1 /\ has_channel(ch)
      /\ poll_fds[idx + 1] = Entry(ch, chan[ch].events) /\ chan[ch].events \in SUBSET Event
  BY DEF In, PollFdsOK, ChannelsOK, PollerTypeOK
<1>2. poll_fds[idx + 1].fd \in {Fd(ch), Hide(Fd(ch))}
  BY <1>1, EntryTells
<1>3. /\ asserts' = TRUE /\ epoll' = epoll /\ channels' = channels
      /\ poll_fds' = [poll_fds EXCEPT ![idx + 1] = Entry(ch, events)]
      /\ chan' = [chan EXCEPT ![ch].events = events]
  <2>1. ~(idx < 0) /\ idx < Len(poll_fds)
    BY <1>1 DEF PollerTypeOK
  <2> QED
    BY <1>1, <1>2, <2>1, Zenon DEF poll_update
<1>4. /\ chan'[ch].events = events /\ chan'[ch].index = idx /\ chan'[ch].stage = "in"
      /\ \A c \in Channel \ {ch} : chan'[c] = chan[c]
      /\ chan' \in [Channel -> [events : SUBSET Event, index : Int,
                                stage : {"new", "in", "removed"}]]
  BY <1>1, <1>3 DEF PollerTypeOK, In
<1>5. In' = In
  BY <1>1, <1>4 DEF In
<1>6. /\ Len(poll_fds') = Len(poll_fds) /\ Len(poll_fds) \in Nat
      /\ poll_fds'[idx + 1] = Entry(ch, events)
      /\ \A i \in 1..Len(poll_fds) : i # idx + 1 => poll_fds'[i] = poll_fds[i]
      /\ poll_fds' \in Seq([fd : Int, events : SUBSET Event])
  <2>1. Entry(ch, events) \in [fd : Int, events : SUBSET Event]
    BY <1>1, EntryTells
  <2> QED
    BY <1>1, <1>3, <2>1 DEF PollerTypeOK
<1>7. PollerTypeOK'
  BY <1>3, <1>4, <1>6 DEF PollerTypeOK
<1>8. ChannelsOK'
  BY <1>3, <1>5 DEF ChannelsOK, has_channel
<1>9. PollFdsOK'
  <2>1. \A c \in In \ {ch} : /\ chan'[c] = chan[c] /\ chan[c].index # idx
                             /\ chan[c].index \in 0..Len(poll_fds) - 1
                             /\ poll_fds[chan[c].index + 1] = Entry(c, chan[c].events)
    BY <1>4, OwnEntry DEF PollFdsOK, In
  <2>2. \A c \in In' : /\ chan'[c].index \in 0..Len(poll_fds') - 1
                       /\ poll_fds'[chan'[c].index + 1] = Entry(c, chan'[c].events)
    <3>1. /\ chan'[ch].index \in 0..Len(poll_fds') - 1
          /\ poll_fds'[chan'[ch].index + 1] = Entry(ch, chan'[ch].events)
      BY <1>1, <1>4, <1>6
    <3>2. \A c \in In \ {ch} : /\ chan[c].index + 1 \in 1..Len(poll_fds)
                               /\ chan[c].index + 1 # idx + 1
                               /\ chan[c].index \in 0..Len(poll_fds') - 1
      <4> SUFFICES ASSUME NEW c \in In \ {ch}
                   PROVE  /\ chan[c].index + 1 \in 1..Len(poll_fds)
                          /\ chan[c].index + 1 # idx + 1
                          /\ chan[c].index \in 0..Len(poll_fds') - 1
        OBVIOUS
      <4>1. chan[c].index \in 0..Len(poll_fds) - 1 /\ chan[c].index # idx
        BY <2>1
      <4> HIDE DEF idx
      <4> QED
        BY <1>1, <1>6, <4>1, SMTT(60)
    <3>3. \A c \in In \ {ch} : poll_fds'[chan'[c].index + 1] = Entry(c, chan'[c].events)
      BY <1>6, <2>1, <3>2
    <3> QED
      BY <1>5, <2>1, <3>1, <3>2, <3>3
  <2>3. \A i \in 1..Len(poll_fds') : \E c \in In' : chan'[c].index = i - 1
    BY <1>4, <1>5, <1>6, <2>1 DEF PollFdsOK
  <2>4. \A c \in Channel : chan'[c].stage = "new" => chan'[c].index = -1
    BY <1>4 DEF PollFdsOK
  <2> QED
    BY <2>2, <2>3, <2>4 DEF PollFdsOK, Entry
<1> QED
  BY <1>3, <1>7, <1>8, <1>9

\* The last entry moves into the gap: its Channel, which the descriptor leads
\* to, disabled or not, learns the new place.
LEMMA PollRemoves ==
  ASSUME PollerInv, kind = "poll", NEW ch \in In, poll_remove(ch), kind' = kind
  PROVE  PollerInv'
<1> USE DEF PollerInv
<1> DEFINE idx == chan[ch].index
           last == Len(poll_fds)
<1>1. /\ ch \in Channel /\ idx \in 0..last - 1 /\ has_channel(ch) /\ last \in Nat
      /\ poll_fds[idx + 1] = Entry(ch, chan[ch].events)
  <2>1. ch \in Channel /\ last \in Nat
    BY DEF In, PollerTypeOK
  <2>2. idx \in 0..last - 1 /\ poll_fds[idx + 1] = Entry(ch, chan[ch].events)
    BY DEF PollFdsOK
  <2> QED
    BY <2>1, <2>2 DEF ChannelsOK
<1>2. PICK mover \in In : chan[mover].index = last - 1
  BY <1>1 DEF PollFdsOK
<1>3. mover \in Channel /\ (mover = ch <=> idx = last - 1)
  BY <1>2, OwnEntry DEF In
<1>4. poll_fds[last] = Entry(mover, chan[mover].events) /\ chan[mover].events \in SUBSET Event
  BY <1>1, <1>2, <1>3 DEF PollFdsOK, PollerTypeOK
<1>5. moved(poll_fds[last].fd, idx) = [chan EXCEPT ![mover].index = idx]
  <2>1. (IF poll_fds[last].fd < 0 THEN Hide(poll_fds[last].fd) ELSE poll_fds[last].fd) = Fd(mover)
    BY <1>3, <1>4, EntryTells
  <2>2. channels[Fd(mover)] = mover
    BY <1>2, <1>3 DEF ChannelsOK, has_channel
  <2> QED
    BY <2>1, <2>2 DEF moved
<1>6. /\ asserts' = TRUE /\ epoll' = epoll
      /\ channels' = [channels EXCEPT ![Fd(ch)] = NoChannel]
      /\ poll_fds' = [i \in 1..last - 1 |-> IF i = idx + 1 THEN poll_fds[last] ELSE poll_fds[i]]
      /\ chan' = [(IF idx = last - 1 THEN chan ELSE [chan EXCEPT ![mover].index = idx])
                    EXCEPT ![ch].stage = "removed"]
  BY <1>1, <1>5 DEF poll_remove
<1>7. /\ chan'[ch].stage = "removed"
      /\ mover # ch => /\ chan'[mover].index = idx /\ chan'[mover].stage = "in"
                       /\ chan'[mover].events = chan[mover].events
      /\ \A c \in Channel \ {ch, mover} : chan'[c] = chan[c]
      /\ chan' \in [Channel -> [events : SUBSET Event, index : Int,
                                stage : {"new", "in", "removed"}]]
  <2>1. CASE mover = ch
    <3>1. chan' = [chan EXCEPT ![ch].stage = "removed"]
      BY <1>3, <1>6, <2>1
    <3> QED
      BY <1>1, <2>1, <3>1 DEF PollerTypeOK
  <2>2. CASE mover # ch
    <3> DEFINE m == [chan EXCEPT ![mover].index = idx]
    <3>1. /\ m[mover].index = idx /\ m[mover].stage = "in" /\ m[mover].events = chan[mover].events
          /\ \A c \in Channel \ {mover} : m[c] = chan[c]
          /\ m \in [Channel -> [events : SUBSET Event, index : Int,
                                stage : {"new", "in", "removed"}]]
      BY <1>1, <1>2, <1>3 DEF PollerTypeOK, In
    <3>2. chan' = [m EXCEPT ![ch].stage = "removed"]
      BY <1>3, <1>6, <2>2
    <3> HIDE DEF m
    <3> QED
      BY <1>1, <1>3, <2>2, <3>1, <3>2
  <2> QED
    BY <2>1, <2>2
<1>8. In' = In \ {ch}
  BY <1>1, <1>2, <1>3, <1>7 DEF In
<1>9. /\ poll_fds' \in Seq([fd : Int, events : SUBSET Event])
      /\ Len(poll_fds') = last - 1
      /\ \A i \in 1..last - 1 : poll_fds'[i] = IF i = idx + 1 THEN poll_fds[last] ELSE poll_fds[i]
  <2> DEFINE R == [fd : Int, events : SUBSET Event]
  <2>1. \A i \in 1..last : poll_fds[i] \in R
    BY ElementOfSeq DEF PollerTypeOK
  <2>2. last - 1 \in Nat /\ \A i \in 1..last - 1 : i \in 1..last
    BY <1>1
  <2>3. \A i \in 1..last - 1 : (IF i = idx + 1 THEN poll_fds[last] ELSE poll_fds[i]) \in R
    BY <1>1, <2>1, <2>2
  <2>4. poll_fds' \in [1..last - 1 -> R]
    BY <1>6, <2>3
  <2>5. Len(poll_fds') = last - 1
    BY <1>6, <2>2
  <2> HIDE DEF R
  <2>6. poll_fds' \in Seq(R)
    BY <2>2, <2>4, FunctionIsSeq
  <2> QED
    BY <1>6, <2>5, <2>6 DEF R
<1>10. Fd(ch) \in Fds
  BY <1>1 DEF Fds
<1>11. PollerTypeOK'
  BY <1>6, <1>7, <1>9, <1>10 DEF PollerTypeOK
<1>12. ChannelsOK'
  <2>1. \A c \in In' : Fd(c) # Fd(ch)
    BY <1>1, <1>8 DEF ChannelsOK, has_channel, In
  <2>2. \A c \in Channel : channels'[Fd(c)] = IF Fd(c) = Fd(ch) THEN NoChannel ELSE channels[Fd(c)]
    BY <1>6, <1>10 DEF PollerTypeOK, Fds
  <2>3. \A c \in Channel : channels'[Fd(c)] = c <=> c \in In'
    BY <1>8, <2>1, <2>2, ChannelAssumption DEF ChannelsOK, has_channel
  <2>4. \A fd \in Fds : channels'[fd] # NoChannel => Fd(channels'[fd]) = fd
    BY <1>6, <1>10 DEF PollerTypeOK, ChannelsOK
  <2> QED
    BY <2>3, <2>4 DEF ChannelsOK, has_channel
<1>13. PollFdsOK'
  <2>1. \A c \in In' : c # mover =>
          /\ chan'[c] = chan[c] /\ chan[c].index # idx /\ chan[c].index # last - 1
          /\ chan[c].index \in 0..last - 1
          /\ poll_fds[chan[c].index + 1] = Entry(c, chan[c].events)
    BY <1>2, <1>7, <1>8, OwnEntry DEF PollFdsOK, In
  <2>2. \A c \in In' : /\ chan'[c].index \in 0..last - 2
                       /\ poll_fds'[chan'[c].index + 1] = Entry(c, chan'[c].events)
    <3> SUFFICES ASSUME NEW c \in In'
                 PROVE  /\ chan'[c].index \in 0..last - 2
                        /\ poll_fds'[chan'[c].index + 1] = Entry(c, chan'[c].events)
      OBVIOUS
    <3>1. CASE c = mover
      <4>1. mover # ch /\ chan'[c].index = idx /\ chan'[c].events = chan[mover].events
        BY <1>7, <1>8, <3>1
      <4>2. idx \in 0..last - 2 /\ idx + 1 \in 1..last - 1
        BY <1>1, <1>3, <4>1
      <4> QED
        BY <1>4, <1>9, <3>1, <4>1, <4>2
    <3>2. CASE c # mover
      <4>1. /\ chan[c].index \in 0..last - 2 /\ chan[c].index + 1 \in 1..last - 1
            /\ chan[c].index + 1 # idx + 1
        BY <1>1, <2>1, <3>2
      <4> QED
        BY <1>9, <2>1, <3>2, <4>1
    <3> QED
      BY <3>1, <3>2
  <2>3. \A i \in 1..last - 1 : \E c \in In' : chan'[c].index = i - 1
    <3> SUFFICES ASSUME NEW i \in 1..last - 1 PROVE \E c \in In' : chan'[c].index = i - 1
      OBVIOUS
    <3>1. CASE i = idx + 1
      BY <1>1, <1>2, <1>3, <1>7, <1>8, <3>1
    <3>2. CASE i # idx + 1
      <4>1. PICK c \in In : chan[c].index = i - 1
        BY <1>1 DEF PollFdsOK
      <4>2. c # ch /\ c # mover
        BY <1>1, <1>2, <3>2, <4>1
      <4> QED
        BY <1>8, <2>1, <4>1, <4>2
    <3> QED
      BY <3>1, <3>2
  <2>4. \A c \in Channel : chan'[c].stage = "new" => chan'[c].index = -1
    BY <1>7 DEF PollFdsOK
  <2>5. Len(poll_fds') - 1 = last - 2
    BY <1>1, <1>9
  <2> QED
    BY <1>9, <2>2, <2>3, <2>4, <2>5 DEF PollFdsOK, Entry
<1> QED
  BY <1>6, <1>11, <1>12, <1>13

\* EPollPoller registers a Channel or changes what it asks the kernel for.
LEMMA EpollUpdates ==
  ASSUME PollerInv, kind = "epoll", NEW ch \in Channel, NEW events \in SUBSET Event,
         ch \in In \/ channels[Fd(ch)] = NoChannel, epoll_update(ch, events), kind' = kind
  PROVE  PollerInv'
<1> USE DEF PollerInv
<1>1. Fd(ch) \in Fds
  BY DEF Fds
<1>2. /\ poll_fds' = poll_fds /\ asserts' = TRUE
      /\ epoll' = [epoll EXCEPT ![Fd(ch)] = Registration(ch, events)]
      /\ chan' = [chan EXCEPT ![ch].events = events, ![ch].stage = "in"]
  BY Zenon DEF epoll_update
<1>3. channels' = [channels EXCEPT ![Fd(ch)] = ch]
  <2>1. CASE channels[Fd(ch)] = NoChannel
    BY <2>1 DEF epoll_update
  <2>2. CASE channels[Fd(ch)] # NoChannel
    <3>1. channels[Fd(ch)] = ch /\ channels' = channels
      BY <2>2 DEF epoll_update, ChannelsOK, has_channel
    <3> QED
      BY <1>1, <3>1 DEF PollerTypeOK
  <2> QED
    BY <2>1, <2>2
<1>4. /\ chan'[ch].events = events /\ chan'[ch].stage = "in"
      /\ \A c \in Channel \ {ch} : chan'[c] = chan[c]
      /\ chan' \in [Channel -> [events : SUBSET Event, index : Int,
                                stage : {"new", "in", "removed"}]]
  BY <1>2, ZenonT(60) DEF PollerTypeOK
<1>5. In' = In \cup {ch}
  BY <1>4 DEF In
<1>6. PollerTypeOK'
  BY <1>1, <1>2, <1>3, <1>4 DEF PollerTypeOK, Registration
<1>7. \A c \in In : c # ch => Fd(c) # Fd(ch)
  BY ChannelAssumption DEF ChannelsOK, has_channel, In
<1>8. \A fd \in Fds : channels'[fd] = IF fd = Fd(ch) THEN ch ELSE channels[fd]
  BY <1>3 DEF PollerTypeOK
<1>9. ChannelsOK'
  <2>1. \A c \in Channel : Fd(c) \in Fds
    BY DEF Fds
  <2>2. \A c \in Channel : channels'[Fd(c)] = c <=> c \in In'
    BY <1>5, <1>7, <1>8, <2>1 DEF ChannelsOK, has_channel
  <2>3. \A fd \in Fds : channels'[fd] # NoChannel => Fd(channels'[fd]) = fd
    BY <1>8 DEF ChannelsOK
  <2> QED
    BY <2>2, <2>3 DEF ChannelsOK, has_channel
<1>10. EpollOK'
  <2> SUFFICES ASSUME NEW fd \in Fds
               PROVE  epoll'[fd] = IF channels'[fd] = NoChannel THEN Absent
                                   ELSE Registration(channels'[fd], chan'[channels'[fd]].events)
    BY DEF EpollOK, Absent, Registration
  <2>1. CASE fd = Fd(ch)
    BY <1>2, <1>4, <1>8, <2>1, ChannelAssumption DEF PollerTypeOK
  <2>2. CASE fd # Fd(ch)
    <3>1. epoll'[fd] = epoll[fd] /\ channels'[fd] = channels[fd]
      BY <1>2, <1>8, <2>2 DEF PollerTypeOK
    <3>2. channels[fd] # NoChannel => channels[fd] \in Channel \ {ch}
      BY <2>2 DEF PollerTypeOK, ChannelsOK
    <3> QED
      BY <1>4, <3>1, <3>2 DEF EpollOK
  <2> QED
    BY <2>1, <2>2
<1> QED
  BY <1>2, <1>6, <1>9, <1>10

\* EPollPoller forgets a Channel; the kernel does too.
LEMMA EpollRemoves ==
  ASSUME PollerInv, kind = "epoll", NEW ch \in In, epoll_remove(ch), kind' = kind
  PROVE  PollerInv'
<1> USE DEF PollerInv
<1>1. ch \in Channel /\ Fd(ch) \in Fds
  BY DEF Fds, In
<1>2. /\ poll_fds' = poll_fds /\ asserts' = TRUE
      /\ epoll' = [epoll EXCEPT ![Fd(ch)] = Absent]
      /\ channels' = [channels EXCEPT ![Fd(ch)] = NoChannel]
      /\ chan' = [chan EXCEPT ![ch].stage = "removed"]
  BY Zenon DEF epoll_remove
<1>3. /\ chan'[ch].stage = "removed"
      /\ \A c \in Channel \ {ch} : chan'[c] = chan[c]
      /\ chan' \in [Channel -> [events : SUBSET Event, index : Int,
                                stage : {"new", "in", "removed"}]]
  BY <1>1, <1>2, ZenonT(60) DEF PollerTypeOK
<1>4. In' = In \ {ch}
  BY <1>1, <1>3 DEF In
<1>5. PollerTypeOK'
  BY <1>1, <1>2, <1>3 DEF PollerTypeOK, Absent
<1>6. \A c \in In : c # ch => Fd(c) # Fd(ch)
  BY <1>1 DEF ChannelsOK, has_channel, In
<1>7. \A fd \in Fds : channels'[fd] = IF fd = Fd(ch) THEN NoChannel ELSE channels[fd]
  BY <1>2 DEF PollerTypeOK
<1>8. ChannelsOK'
  <2>1. \A c \in Channel : Fd(c) \in Fds
    BY DEF Fds
  <2>2. \A c \in Channel : channels'[Fd(c)] = c <=> c \in In'
    BY <1>4, <1>6, <1>7, <2>1, ChannelAssumption DEF ChannelsOK, has_channel
  <2>3. \A fd \in Fds : channels'[fd] # NoChannel => Fd(channels'[fd]) = fd
    BY <1>7 DEF ChannelsOK
  <2> QED
    BY <2>2, <2>3 DEF ChannelsOK, has_channel
<1>9. EpollOK'
  <2> SUFFICES ASSUME NEW fd \in Fds
               PROVE  epoll'[fd] = IF channels'[fd] = NoChannel THEN Absent
                                   ELSE Registration(channels'[fd], chan'[channels'[fd]].events)
    BY DEF EpollOK, Absent, Registration
  <2>1. CASE fd = Fd(ch)
    BY <1>2, <1>7, <2>1 DEF PollerTypeOK
  <2>2. CASE fd # Fd(ch)
    <3>1. epoll'[fd] = epoll[fd] /\ channels'[fd] = channels[fd]
      BY <1>2, <1>7, <2>2 DEF PollerTypeOK
    <3>2. channels[fd] # NoChannel => channels[fd] \in Channel \ {ch}
      BY <2>2 DEF PollerTypeOK, ChannelsOK
    <3> QED
      BY <1>3, <3>1, <3>2 DEF EpollOK
  <2> QED
    BY <2>1, <2>2
<1> QED
  BY <1>2, <1>5, <1>8, <1>9

\* What the kernel reports goes to the registered Channels, with poll() only to
\* the enabled ones.
LEMMA ReportsReach ==
  ASSUME PollerInv, NEW ready \in SUBSET Fds
  PROVE  fill_active_channels(ready) =
           {ch \in In : Fd(ch) \in ready /\ (kind = "poll" => chan[ch].events # {})}
<1> USE DEF PollerInv
<1>1. ready \in SUBSET Nat /\ \A ch \in In : ch \in Channel /\ Fd(ch) \in Fds
  BY FdAssumption DEF Fds, In
<1>2. \A ch \in In : channels[Fd(ch)] = ch
  BY <1>1 DEF ChannelsOK, has_channel
<1>3. CASE kind = "poll"
  <2> DEFINE reported == {j \in 1..Len(poll_fds) : poll_fds[j].fd \in ready}
  <2>1. \A ch \in In : /\ chan[ch].events \in SUBSET Event
                       /\ poll_fds[chan[ch].index + 1] = Entry(ch, chan[ch].events)
                       /\ chan[ch].index + 1 \in 1..Len(poll_fds)
                       /\ chan[ch].index \in Int
    BY <1>1, <1>3 DEF PollFdsOK, PollerTypeOK
  <2>2. \A ch \in In : chan[ch].events # {} => Entry(ch, chan[ch].events).fd = Fd(ch)
    BY DEF Entry
  <2>3. ASSUME NEW ch \in In, Fd(ch) \in ready, chan[ch].events # {}
        PROVE  ch \in {channels[poll_fds[i].fd] : i \in reported}
    <3>1. chan[ch].index + 1 \in reported /\ poll_fds[chan[ch].index + 1].fd = Fd(ch)
      BY <2>1, <2>2, <2>3
    <3> QED
      BY <1>2, <3>1
  <2>4. ASSUME NEW i \in reported
        PROVE  /\ channels[poll_fds[i].fd] \in In
               /\ Fd(channels[poll_fds[i].fd]) \in ready
               /\ chan[channels[poll_fds[i].fd]].events # {}
    <3>1. PICK ch \in In : chan[ch].index = i - 1
      BY <1>3 DEF PollFdsOK
    <3>2. poll_fds[i] = Entry(ch, chan[ch].events)
      <4>1. chan[ch].index + 1 = i
        BY <3>1
      <4> QED
        BY <2>1, <4>1
    <3>3. poll_fds[i].fd \in ready /\ poll_fds[i].fd \in Nat
      BY <1>1
    <3>4. chan[ch].events # {}
      BY <1>1, <2>1, <3>2, <3>3, EntryTells
    <3> QED
      BY <1>2, <2>2, <3>2, <3>3, <3>4
  <2> QED
    BY <1>3, <2>3, <2>4 DEF fill_active_channels, poll_active
<1>4. CASE kind = "epoll"
  <2>1. ASSUME NEW fd \in Fds
        PROVE  epoll[fd].ptr = channels[fd]
    <3>1. CASE channels[fd] = NoChannel
      <4>1. epoll[fd] = Absent
        BY <1>4, <3>1 DEF EpollOK
      <4> QED
        BY <3>1, <4>1 DEF Absent
    <3>2. CASE channels[fd] # NoChannel
      <4>1. epoll[fd] = Registration(channels[fd], chan[channels[fd]].events)
        BY <1>4, <3>2 DEF EpollOK
      <4> QED
        BY <4>1 DEF Registration
    <3> QED
      BY <3>1, <3>2
  <2>2. ASSUME NEW fd \in ready, channels[fd] # NoChannel
        PROVE  channels[fd] \in In /\ Fd(channels[fd]) = fd
    BY <2>2 DEF PollerTypeOK, ChannelsOK, has_channel
  <2>3. \A ch \in In : ch # NoChannel
    BY <1>1, ChannelAssumption
  <2>4. epoll_active(ready) = {channels[fd] : fd \in ready} \ {NoChannel}
    BY <2>1 DEF epoll_active
  <2>5. {channels[fd] : fd \in ready} \ {NoChannel} = {ch \in In : Fd(ch) \in ready}
    BY <1>2, <2>2, <2>3
  <2> QED
    BY <1>4, <2>4, <2>5 DEF fill_active_channels
<1> QED
  BY <1>3, <1>4 DEF PollerTypeOK

\* Both pollers ask the kernel for what each registered Channel wants and give
\* its reports to the Channel that now owns the descriptor, in whatever order
\* Channels come, change and go, disabled before that or not, and their asserts
\* on the tables hold.
THEOREM PollersAgree == PollerSpec => []PollerAgrees
<1>1. PollerInit => PollerInv
  <2> SUFFICES ASSUME PollerInit PROVE PollerInv
    OBVIOUS
  <2>1. In = {}
    BY DEF PollerInit, In, NewChannel
  <2>2. PollerTypeOK
    BY DEF PollerInit, PollerTypeOK, NewChannel, Absent
  <2>3. ChannelsOK
    BY <2>1, ChannelAssumption DEF PollerInit, ChannelsOK, has_channel, Fds
  <2>4. PollFdsOK /\ EpollOK
    BY <2>1 DEF PollerInit, PollFdsOK, EpollOK, NewChannel
  <2> QED
    BY <2>2, <2>3, <2>4, Zenon DEF PollerInv, PollerInit
<1>2. PollerInv /\ [PollerNext]_pollerVars => PollerInv'
  <2> SUFFICES ASSUME PollerInv, [PollerNext]_pollerVars PROVE PollerInv'
    OBVIOUS
  <2>1. CASE UNCHANGED pollerVars
    BY <2>1, Zenon DEF pollerVars, PollerInv, PollerTypeOK, ChannelsOK, PollFdsOK, EpollOK, In,
                       has_channel, Entry, Absent, Registration
  <2>2. ASSUME NEW ch \in Channel, NEW events \in SUBSET Event, update_channel(ch, events)
        PROVE  PollerInv'
    <3>1. kind' = kind /\ kind \in {"poll", "epoll"}
      BY <2>2 DEF update_channel, PollerInv, PollerTypeOK
    <3>2. CASE kind = "poll" /\ ch \in In
      BY <2>2, <3>1, <3>2, PollChanges DEF update_channel
    <3>3. CASE kind = "poll" /\ ch \notin In
      BY <2>2, <3>1, <3>3, PollAdds DEF update_channel, In
    <3>4. CASE kind = "epoll"
      BY <2>2, <3>1, <3>4, EpollUpdates DEF update_channel, In
    <3> QED
      BY <3>1, <3>2, <3>3, <3>4
  <2>3. ASSUME NEW ch \in Channel, remove_channel(ch)
        PROVE  PollerInv'
    <3>1. kind' = kind /\ kind \in {"poll", "epoll"} /\ ch \in In
      BY <2>3 DEF remove_channel, PollerInv, PollerTypeOK, In
    <3> QED
      BY <2>3, <3>1, PollRemoves, EpollRemoves DEF remove_channel
  <2> QED
    BY <2>1, <2>2, <2>3 DEF PollerNext
<1>3. PollerInv => PollerAgrees
  <2> SUFFICES ASSUME PollerInv PROVE PollerAgrees
    OBVIOUS
  <2>1. asserts /\ \A ch \in Channel : has_channel(ch) <=> ch \in In
    BY Zenon DEF PollerInv, ChannelsOK
  <2>2. \A ch \in In : Asked(ch)
    <3> SUFFICES ASSUME NEW ch \in In PROVE Asked(ch)
      OBVIOUS
    <3>1. channels[Fd(ch)] = ch /\ ch # NoChannel /\ Fd(ch) \in Fds
      BY ChannelAssumption DEF PollerInv, ChannelsOK, has_channel, In, Fds
    <3> QED
      BY <3>1 DEF Asked, PollerInv, PollerTypeOK, PollFdsOK, EpollOK, Registration
  <2> QED
    BY <2>1, <2>2, ReportsReach, Zenon DEF PollerAgrees, In
<1> QED
  BY <1>1, <1>2, <1>3, PTL DEF PollerSpec

(***************************************************************************)
(* Queues.  The contents of the ring are the cells from begin to end, in   *)
(* the circle; Cell says which is the i-th from b in a ring of n cells     *)
(* without a division.                                                     *)
(***************************************************************************)
Cell(b, i, n) == IF b + i < n THEN b + i ELSE b + i - n
Next1(c, n) == IF c + 1 >= n THEN 0 ELSE c + 1

LEMMA Circle ==
  ASSUME NEW n \in Nat \ {0}, NEW b \in 0..n - 1
  PROVE  /\ Cell(b, 0, n) = b
         /\ \A i \in 0..n : Cell(b, i, n) \in 0..n - 1
         /\ \A i \in 0..n - 1 : /\ Next1(Cell(b, i, n), n) = Cell(b, i + 1, n)
                                /\ Cell(Next1(b, n), i, n) = Cell(b, i + 1, n)
         /\ \A i, j \in 0..n - 1 : i # j => Cell(b, i, n) # Cell(b, j, n)
<1>1. Cell(b, 0, n) = b /\ \A i \in 0..n : Cell(b, i, n) \in 0..n - 1
  BY DEF Cell
<1>2. ASSUME NEW i \in 0..n - 1
      PROVE  Next1(Cell(b, i, n), n) = Cell(b, i + 1, n) /\ Cell(Next1(b, n), i, n) = Cell(b, i + 1, n)
  BY DEF Cell, Next1
<1>3. ASSUME NEW i \in 0..n - 1, NEW j \in 0..n - 1, i # j
      PROVE  Cell(b, i, n) # Cell(b, j, n)
  BY <1>3 DEF Cell
<1> QED
  BY <1>1, <1>2, <1>3

\* Cell is what the model's % computes, which turns round the ring once.
LEMMA OneTurn ==
  ASSUME NEW n \in Nat \ {0}, NEW b \in 0..n - 1, NEW i \in 0..n
  PROVE  (b + i) % n = Cell(b, i, n)
<1>1. CASE b + i < n
  BY <1>1 DEF Cell
<1>2. CASE b + i >= n
  <2>1. (b + i - n) % n = b + i - n
    BY <1>2
  <2>2. (b + i) % n = (b + i - n) % n
    BY <1>2
  <2> QED
    BY <1>2, <2>1, <2>2 DEF Cell
<1> QED
  BY <1>1, <1>2

Size == IF IsBounded THEN bound ELSE 1
Amount == IF IsBounded THEN ring.size ELSE Len(deque)
Ring == [cells : [0..Size - 1 -> Nat], begin : 0..Size - 1, end : 0..Size - 1, size : 0..Size]

QueueTypeOK ==
  /\ bound \in Nat /\ pushed \in Nat
  /\ deque \in Seq(Nat) /\ popped \in Seq(Nat)
  /\ ring \in Ring
  /\ waiting \in [push : Nat, pop : Nat] /\ woken \in [push : Nat, pop : Nat]

\* The ring's indices agree, and one of the two stores is idle.
RingOK ==
  /\ ring.end = Cell(ring.begin, ring.size, Size)
  /\ ~IsBounded => ring.size = 0 /\ waiting.push = 0
  /\ IsBounded => deque = <<>>

\* What was popped and what is stored continue each other.
Ordered ==
  /\ Len(popped) + Amount = pushed
  /\ \A i \in 1..Len(popped) : popped[i] = i
  /\ IsBounded => \A i \in 0..ring.size - 1 :
                    ring.cells[Cell(ring.begin, i, Size)] = Len(popped) + i + 1
  /\ ~IsBounded => \A i \in 1..Len(deque) : deque[i] = Len(popped) + i

\* Enough threads are awake for what there is.
Awake ==
  /\ waiting.pop > 0 => woken.pop >= Amount
  /\ waiting.push > 0 => woken.push >= Size - ring.size

QueueInv == QueueTypeOK /\ RingOK /\ Ordered /\ Awake

LEMMA CapacityIsSize ==
  ASSUME QueueTypeOK
  PROVE  Capacity = Size /\ Size \in Nat \ {0}
<1>1. Size \in Nat \ {0}
  BY DEF QueueTypeOK, Size, IsBounded
<1>2. DOMAIN ring.cells = 0..Size - 1
  BY DEF QueueTypeOK, Ring
<1>3. Cardinality(0..Size - 1) = Size
  <2>1. 0 \in Int /\ Size - 1 \in Int /\ 0 <= Size - 1 /\ (Size - 1) - 0 + 1 = Size
    BY <1>1
  <2> QED
    BY <2>1, FS_Interval
<1> QED
  BY <1>1, <1>2, <1>3 DEF Capacity

\* A thread that goes to sleep leaves the other side alone.
LEMMA SleepCounts ==
  ASSUME QueueTypeOK, NEW side \in {"push", "pop"}, NEW other \in {"push", "pop"} \ {side},
         NEW from \in {"call", "woken"}, Enters(side, from), Wait(side, from)
  PROVE  /\ waiting' \in [push : Nat, pop : Nat] /\ woken' \in [push : Nat, pop : Nat]
         /\ waiting'[other] = waiting[other] /\ woken'[other] = woken[other]
<1>1. CASE from = "woken"
  BY <1>1, SMTT(60) DEF QueueTypeOK, Enters, Wait, Left
<1>2. CASE from = "call"
  BY <1>2, SMTT(60) DEF QueueTypeOK, Enters, Wait, Left
<1> QED
  BY <1>1, <1>2

\* A thread that acts is at most one fewer of the woken ones of its side; if
\* threads of the other side still sleep afterwards, it woke one more of them.
LEMMA NotifyCounts ==
  ASSUME QueueTypeOK, NEW side \in {"push", "pop"}, NEW other \in {"push", "pop"} \ {side},
         NEW from \in {"call", "woken"}, Enters(side, from), Notify(other, Left(side, from))
  PROVE  /\ waiting' \in [push : Nat, pop : Nat] /\ woken' \in [push : Nat, pop : Nat]
         /\ waiting'[side] = waiting[side] /\ woken'[side] >= woken[side] - 1
         /\ waiting'[other] > 0 => waiting[other] > 0 /\ woken'[other] = woken[other] + 1
<1>1. PICK left : left = Left(side, from)
  OBVIOUS
<1>2. left \in [push : Nat, pop : Nat] /\ left[other] = woken[other] /\ left[side] >= woken[side] - 1
  <2>1. CASE from = "woken"
    BY <1>1, <2>1 DEF QueueTypeOK, Enters, Left
  <2>2. CASE from = "call"
    BY <1>1, <2>2 DEF QueueTypeOK, Left
  <2> QED
    BY <2>1, <2>2
<1>3. waiting \in [push : Nat, pop : Nat] /\ woken \in [push : Nat, pop : Nat]
  BY DEF QueueTypeOK
<1>4. CASE waiting[other] > 0
  <2>1. waiting' = [waiting EXCEPT ![other] = @ - 1] /\ woken' = [left EXCEPT ![other] = @ + 1]
    BY <1>1, <1>4 DEF Notify
  <2> QED
    BY <1>2, <1>3, <1>4, <2>1
<1>5. CASE ~(waiting[other] > 0)
  <2>1. waiting' = waiting /\ woken' = left
    BY <1>1, <1>5 DEF Notify
  <2> QED
    BY <1>2, <1>3, <1>5, <2>1
<1> QED
  BY <1>4, <1>5

\* An item goes into the cell behind the last.
LEMMA RingPush ==
  ASSUME QueueInv, IsBounded, ~full, NEW x \in Nat, ring' = ring_push(x), bound' = bound
  PROVE  /\ Size' = Size /\ ring' \in Ring /\ ring.size \in Nat
         /\ ring'.begin = ring.begin /\ ring'.size = ring.size + 1 /\ ring.size < Size
         /\ ring'.end = Cell(ring.begin, ring'.size, Size)
         /\ \A i \in 0..ring.size - 1 : ring'.cells[Cell(ring.begin, i, Size)] =
                                          ring.cells[Cell(ring.begin, i, Size)]
         /\ ring'.cells[Cell(ring.begin, ring.size, Size)] = x
<1> USE DEF QueueInv
<1>1. Capacity = Size /\ Size \in Nat \ {0}
  BY CapacityIsSize
<1>2. Size' = Size
  BY DEF Size, IsBounded
<1>3. /\ ring.begin \in 0..Size - 1 /\ ring.end \in 0..Size - 1 /\ ring.size \in 0..Size
      /\ ring.cells \in [0..Size - 1 -> Nat]
  BY DEF QueueTypeOK, Ring
<1>4. ring.size < Size /\ ring.size \in 0..Size - 1 /\ ring.size \in Nat
  BY <1>1, <1>3 DEF full
<1>5. ring' = [cells |-> [ring.cells EXCEPT ![ring.end] = x], begin |-> ring.begin,
               end |-> Next1(ring.end, Size), size |-> ring.size + 1]
  BY <1>1 DEF ring_push, wrap, Next1, QueueTypeOK, Ring
<1>6. ring.end = Cell(ring.begin, ring.size, Size)
  BY DEF RingOK
<1> DEFINE at(i) == Cell(ring.begin, i, Size)
<1>0. /\ \A i \in 0..Size : at(i) \in 0..Size - 1
      /\ \A i \in 0..Size - 1 : Next1(at(i), Size) = at(i + 1)
      /\ \A i, j \in 0..Size - 1 : i # j => at(i) # at(j)
  BY <1>1, <1>3, Circle, ZenonT(60)
<1> HIDE DEF at
<1>7. /\ Next1(ring.end, Size) = Cell(ring.begin, ring.size + 1, Size)
      /\ Next1(ring.end, Size) \in 0..Size - 1
  <2>1. ring.size + 1 \in 0..Size
    BY <1>1, <1>4
  <2>2. ring.end = at(ring.size)
    BY <1>6 DEF at
  <2>3. Next1(ring.end, Size) = at(ring.size + 1)
    BY <1>0, <1>4, <2>2
  <2>4. at(ring.size + 1) \in 0..Size - 1
    BY <1>0, <2>1
  <2> QED
    BY <2>3, <2>4 DEF at
<1>8. ring' \in Ring
  <2>1. [ring.cells EXCEPT ![ring.end] = x] \in [0..Size - 1 -> Nat]
    BY <1>3
  <2>2. ring.size + 1 \in 0..Size
    BY <1>1, <1>4
  <2> QED
    BY <1>3, <1>5, <1>7, <2>1, <2>2 DEF Ring
<1>9. ASSUME NEW i \in 0..ring.size - 1
      PROVE  Cell(ring.begin, i, Size) \in 0..Size - 1 /\ Cell(ring.begin, i, Size) # ring.end
  <2>1. i \in 0..Size - 1 /\ i # ring.size /\ i \in 0..Size
    BY <1>1, <1>4
  <2>2. ring.end = at(ring.size)
    BY <1>6 DEF at
  <2>3. at(i) \in 0..Size - 1 /\ at(i) # at(ring.size)
    BY <1>0, <1>4, <2>1
  <2> QED
    BY <2>2, <2>3 DEF at
<1>10. \A i \in 0..ring.size - 1 : ring'.cells[Cell(ring.begin, i, Size)] =
                                     ring.cells[Cell(ring.begin, i, Size)]
  BY <1>3, <1>5, <1>9
<1>11. ring'.cells[ring.end] = x
  <2>1. ring'.cells = [ring.cells EXCEPT ![ring.end] = x]
    BY <1>5
  <2> QED
    BY <1>3, <2>1
<1> QED
  BY <1>2, <1>4, <1>5, <1>6, <1>7, <1>8, <1>10, <1>11

\* The first item goes; the others move up by one.
LEMMA RingPop ==
  ASSUME QueueInv, IsBounded, ~empty, ring' = ring_pop, bound' = bound
  PROVE  /\ Size' = Size /\ ring' \in Ring /\ ring.size \in Nat \ {0}
         /\ ring'.size = ring.size - 1
         /\ ring'.end = Cell(ring'.begin, ring'.size, Size)
         /\ \A i \in 0..ring'.size - 1 : ring'.cells[Cell(ring'.begin, i, Size)] =
                                           ring.cells[Cell(ring.begin, i + 1, Size)]
         /\ ring.begin = Cell(ring.begin, 0, Size)
<1> USE DEF QueueInv
<1>1. Capacity = Size /\ Size \in Nat \ {0}
  BY CapacityIsSize
<1>2. Size' = Size
  BY DEF Size, IsBounded
<1>3. /\ ring.begin \in 0..Size - 1 /\ ring.end \in 0..Size - 1 /\ ring.size \in 0..Size
      /\ ring.cells \in [0..Size - 1 -> Nat]
  BY DEF QueueTypeOK, Ring
<1>4. ring.size \in Nat \ {0} /\ ring.size - 1 \in 0..Size - 1 /\ (ring.size - 1) + 1 = ring.size
  BY <1>1, <1>3 DEF empty
<1>5. ring' = [cells |-> ring.cells, begin |-> Next1(ring.begin, Size), end |-> ring.end,
               size |-> ring.size - 1]
  BY <1>1 DEF ring_pop, wrap, Next1, QueueTypeOK, Ring
<1>6. ring.end = Cell(ring.begin, ring.size, Size)
  BY DEF RingOK
<1>7. /\ \A i \in 0..Size - 1 : Cell(Next1(ring.begin, Size), i, Size) = Cell(ring.begin, i + 1, Size)
      /\ ring.begin = Cell(ring.begin, 0, Size)
  BY <1>1, <1>3, Circle, ZenonT(60)
<1>8. ring' \in Ring
  <2>1. Next1(ring.begin, Size) \in 0..Size - 1 /\ ring.size - 1 \in 0..Size
    BY <1>1, <1>3, <1>4, SMTT(60) DEF Next1
  <2> QED
    BY <1>3, <1>5, <2>1 DEF Ring
<1>9. ring'.end = Cell(ring'.begin, ring'.size, Size)
  BY <1>4, <1>5, <1>6, <1>7
<1>10. ASSUME NEW i \in 0..ring'.size - 1
       PROVE  ring'.cells[Cell(ring'.begin, i, Size)] = ring.cells[Cell(ring.begin, i + 1, Size)]
  <2>1. i \in 0..Size - 1
    BY <1>1, <1>4, <1>5
  <2> QED
    BY <1>5, <1>7, <2>1
<1> QED
  BY <1>2, <1>4, <1>5, <1>7, <1>8, <1>9, <1>10

\* The invariant when the stores are left alone.
LEMMA QuietStep ==
  ASSUME QueueInv, UNCHANGED <<bound, deque, ring, pushed, popped>>,
         waiting' \in [push : Nat, pop : Nat], woken' \in [push : Nat, pop : Nat],
         ~IsBounded => waiting'.push = 0, Awake'
  PROVE  QueueInv'
<1>1. /\ (IsBounded' <=> IsBounded) /\ Size' = Size /\ Amount' = Amount /\ Ring' = Ring
  BY DEF IsBounded, Size, Amount, Ring
<1>2. QueueTypeOK'
  BY <1>1 DEF QueueInv, QueueTypeOK
<1>3. RingOK' /\ Ordered'
  BY <1>1 DEF QueueInv, RingOK, Ordered
<1> QED
  BY <1>2, <1>3 DEF QueueInv

\* push() and put().
LEMMA PushStep ==
  ASSUME QueueInv, NEW from \in {"call", "woken"}, push(from)
  PROVE  QueueInv'
<1> USE DEF QueueInv
<1>1. Capacity = Size /\ Size \in Nat \ {0}
  BY CapacityIsSize
<1>2. CASE full /\ Wait("push", from)
  <2>1. /\ waiting' \in [push : Nat, pop : Nat] /\ woken' \in [push : Nat, pop : Nat]
        /\ waiting'.pop = waiting.pop /\ woken'.pop = woken.pop
    BY <1>2, SleepCounts DEF push
  <2>2. IsBounded /\ Size - ring.size = 0 /\ UNCHANGED <<bound, deque, ring, pushed, popped>>
    BY <1>1, <1>2 DEF full, Wait
  <2>3. Size' = Size /\ Amount' = Amount
    BY <2>2 DEF Size, Amount, IsBounded
  <2>4. Awake'
    BY <2>1, <2>2, <2>3 DEF Awake
  <2> QED
    BY <2>1, <2>2, <2>4, QuietStep
<1>3. CASE ~(full /\ Wait("push", from))
  <2>1. ~full /\ pushed' = pushed + 1 /\ Notify("pop", Left("push", from)) /\ UNCHANGED <<bound, popped>>
    BY <1>3 DEF push
  <2>2. /\ waiting' \in [push : Nat, pop : Nat] /\ woken' \in [push : Nat, pop : Nat]
        /\ waiting'.push = waiting.push /\ woken'.push >= woken.push - 1
        /\ waiting'.pop > 0 => waiting.pop > 0 /\ woken'.pop = woken.pop + 1
    BY <2>1, NotifyCounts DEF push
  <2>3. (IsBounded' <=> IsBounded) /\ Size' = Size /\ Ring' = Ring
    BY <2>1 DEF IsBounded, Size, Ring
  <2>4. /\ pushed \in Nat /\ pushed' \in Nat /\ Len(popped) \in Nat
        /\ waiting \in [push : Nat, pop : Nat] /\ woken \in [push : Nat, pop : Nat]
    BY <2>1 DEF QueueTypeOK
  <2>5. CASE IsBounded
    <3>1. ring' = ring_push(pushed') /\ deque' = deque
      BY <1>3, <2>5 DEF push
    <3>2. /\ ring' \in Ring /\ ring.size \in Nat
          /\ ring'.begin = ring.begin /\ ring'.size = ring.size + 1 /\ ring.size < Size
          /\ ring'.end = Cell(ring.begin, ring'.size, Size)
          /\ \A i \in 0..ring.size - 1 : ring'.cells[Cell(ring.begin, i, Size)] =
                                           ring.cells[Cell(ring.begin, i, Size)]
          /\ ring'.cells[Cell(ring.begin, ring.size, Size)] = pushed'
      BY <2>1, <2>4, <2>5, <3>1, RingPush
    <3>3. Amount = ring.size /\ Amount' = ring'.size
      BY <2>3, <2>5 DEF Amount
    <3>4. QueueTypeOK'
      BY <2>1, <2>2, <2>3, <2>4, <3>1, <3>2 DEF QueueTypeOK
    <3>5. RingOK'
      BY <2>3, <2>5, <3>1, <3>2 DEF RingOK
    <3>6. Len(popped) + Amount' = pushed'
      BY <2>1, <2>4, <3>2, <3>3 DEF Ordered
    <3>7. ASSUME NEW i \in 0..ring'.size - 1
          PROVE  ring'.cells[Cell(ring'.begin, i, Size)] = Len(popped) + i + 1
      <4>1. CASE i = ring.size
        BY <2>4, <3>2, <3>3, <3>6, <4>1
      <4>2. CASE i # ring.size
        <5>1. i \in 0..ring.size - 1
          BY <3>2, <4>2
        <5> QED
          BY <2>5, <3>2, <5>1 DEF Ordered
      <4> QED
        BY <4>1, <4>2
    <3>8. Ordered'
      BY <2>1, <2>3, <2>5, <3>6, <3>7 DEF Ordered
    <3>9. Awake'
      <4>1. waiting'.pop > 0 => woken'.pop >= Amount'
        BY <2>2, <2>4, <3>2, <3>3 DEF Awake
      <4>2. waiting'.push > 0 => woken'.push >= Size - ring'.size
        BY <1>1, <2>2, <2>4, <3>2, SMTT(60) DEF Awake
      <4> QED
        BY <2>3, <4>1, <4>2 DEF Awake
    <3> QED
      BY <3>4, <3>5, <3>8, <3>9
  <2>6. CASE ~IsBounded
    <3>1. deque' = Append(deque, pushed') /\ ring' = ring
      BY <1>3, <2>6 DEF push, deque_push
    <3>2. deque \in Seq(Nat) /\ Len(deque) \in Nat
      BY DEF QueueTypeOK
    <3>3. /\ deque' \in Seq(Nat) /\ Len(deque') = Len(deque) + 1
          /\ \A i \in 1..Len(deque) : deque'[i] = deque[i]
          /\ deque'[Len(deque) + 1] = pushed'
      BY <2>4, <3>1, <3>2
    <3>4. Amount = Len(deque) /\ Amount' = Len(deque')
      BY <2>3, <2>6 DEF Amount
    <3>5. QueueTypeOK'
      BY <2>1, <2>2, <2>3, <2>4, <3>1, <3>3 DEF QueueTypeOK
    <3>6. RingOK'
      BY <2>2, <2>3, <2>6, <3>1 DEF RingOK
    <3>7. Len(popped) + Amount' = pushed'
      BY <2>1, <2>4, <3>2, <3>3, <3>4 DEF Ordered
    <3>8. ASSUME NEW i \in 1..Len(deque')
          PROVE  deque'[i] = Len(popped) + i
      <4>1. CASE i = Len(deque) + 1
        BY <2>4, <3>2, <3>3, <3>4, <3>7, <4>1
      <4>2. CASE i # Len(deque) + 1
        <5>1. i \in 1..Len(deque)
          BY <3>2, <3>3, <4>2
        <5> QED
          BY <2>6, <3>3, <5>1 DEF Ordered
      <4> QED
        BY <4>1, <4>2
    <3>9. Ordered'
      BY <2>1, <2>3, <2>6, <3>7, <3>8 DEF Ordered
    <3>10. Awake'
      <4>1. waiting'.pop > 0 => woken'.pop >= Amount'
        BY <2>2, <2>4, <3>2, <3>3, <3>4 DEF Awake
      <4>2. waiting'.push = 0
        BY <2>2, <2>6 DEF RingOK
      <4> QED
        BY <2>3, <4>1, <4>2 DEF Awake
    <3> QED
      BY <3>5, <3>6, <3>9, <3>10
  <2> QED
    BY <2>5, <2>6
<1> QED
  BY <1>2, <1>3

\* pop() and take().
LEMMA PopStep ==
  ASSUME QueueInv, NEW from \in {"call", "woken"}, pop(from)
  PROVE  QueueInv'
<1> USE DEF QueueInv
<1>1. Capacity = Size /\ Size \in Nat \ {0}
  BY CapacityIsSize
<1>2. CASE empty /\ Wait("pop", from)
  <2>1. /\ waiting' \in [push : Nat, pop : Nat] /\ woken' \in [push : Nat, pop : Nat]
        /\ waiting'.push = waiting.push /\ woken'.push = woken.push
    BY <1>2, SleepCounts DEF pop
  <2>2. Amount = 0 /\ UNCHANGED <<bound, deque, ring, pushed, popped>>
    BY <1>2 DEF empty, Wait, Amount
  <2>3. Size' = Size /\ Amount' = Amount
    BY <2>2 DEF Size, Amount, IsBounded
  <2>4. Awake'
    BY <2>1, <2>2, <2>3 DEF Awake
  <2>5. ~IsBounded => waiting'.push = 0
    BY <2>1 DEF RingOK
  <2> QED
    BY <2>1, <2>2, <2>4, <2>5, QuietStep
<1>3. CASE ~(empty /\ Wait("pop", from))
  <2>1. ~empty /\ Notify("push", Left("pop", from)) /\ UNCHANGED <<bound, pushed>>
    BY <1>3 DEF pop
  <2>2. /\ waiting' \in [push : Nat, pop : Nat] /\ woken' \in [push : Nat, pop : Nat]
        /\ waiting'.pop = waiting.pop /\ woken'.pop >= woken.pop - 1
        /\ waiting'.push > 0 => waiting.push > 0 /\ woken'.push = woken.push + 1
    BY <2>1, NotifyCounts DEF pop
  <2>3. (IsBounded' <=> IsBounded) /\ Size' = Size /\ Ring' = Ring
    BY <2>1 DEF IsBounded, Size, Ring
  <2>4. /\ pushed \in Nat /\ popped \in Seq(Nat) /\ Len(popped) \in Nat
        /\ waiting \in [push : Nat, pop : Nat] /\ woken \in [push : Nat, pop : Nat]
    BY DEF QueueTypeOK
  <2>5. ASSUME NEW x, x = Len(popped) + 1, popped' = Append(popped, x)
        PROVE  /\ popped' \in Seq(Nat) /\ Len(popped') = Len(popped) + 1
               /\ \A i \in 1..Len(popped') : popped'[i] = i
    <3>1. x \in Nat
      BY <2>4, <2>5
    <3>2. popped' \in Seq(Nat) /\ Len(popped') = Len(popped) + 1
      BY <2>4, <2>5, <3>1
    <3>3. /\ \A i \in 1..Len(popped) : popped'[i] = popped[i]
          /\ popped'[Len(popped) + 1] = x
      BY <2>4, <2>5, <3>1
    <3>4. \A i \in 1..Len(popped') : i = Len(popped) + 1 \/ i \in 1..Len(popped)
      BY <2>4, <3>2
    <3> QED
      BY <2>5, <3>2, <3>3, <3>4 DEF Ordered
  <2>6. CASE IsBounded
    <3>1. popped' = Append(popped, ring.cells[ring.begin]) /\ ring' = ring_pop /\ deque' = deque
      BY <1>3, <2>6 DEF pop
    <3>2. /\ ring' \in Ring /\ ring.size \in Nat \ {0}
          /\ ring'.size = ring.size - 1
          /\ ring'.end = Cell(ring'.begin, ring'.size, Size)
          /\ \A i \in 0..ring'.size - 1 : ring'.cells[Cell(ring'.begin, i, Size)] =
                                            ring.cells[Cell(ring.begin, i + 1, Size)]
          /\ ring.begin = Cell(ring.begin, 0, Size)
      BY <2>1, <2>6, <3>1, RingPop
    <3>3. ring.cells[ring.begin] = Len(popped) + 1
      <4>1. 0 \in 0..ring.size - 1
        BY <3>2
      <4>2. ring.cells[Cell(ring.begin, 0, Size)] = Len(popped) + 0 + 1
        BY <2>6, <4>1 DEF Ordered
      <4> QED
        BY <2>4, <3>2, <4>2
    <3>4. /\ popped' \in Seq(Nat) /\ Len(popped') = Len(popped) + 1
          /\ \A i \in 1..Len(popped') : popped'[i] = i
      BY <2>5, <3>1, <3>3
    <3>5. Amount = ring.size /\ Amount' = ring'.size
      BY <2>3, <2>6 DEF Amount
    <3>6. QueueTypeOK'
      BY <2>1, <2>2, <2>3, <3>1, <3>2, <3>4 DEF QueueTypeOK
    <3>7. RingOK'
      BY <2>3, <2>6, <3>1, <3>2 DEF RingOK
    <3>8. Len(popped') + Amount' = pushed'
      BY <2>1, <2>4, <3>2, <3>4, <3>5 DEF Ordered
    <3>9. ASSUME NEW i \in 0..ring'.size - 1
          PROVE  ring'.cells[Cell(ring'.begin, i, Size)] = Len(popped') + i + 1
      <4>1. i + 1 \in 0..ring.size - 1 /\ i \in Nat
        BY <3>2
      <4>2. ring.cells[Cell(ring.begin, i + 1, Size)] = Len(popped) + (i + 1) + 1
        BY <2>6, <4>1 DEF Ordered
      <4> QED
        BY <2>4, <3>2, <3>4, <4>1, <4>2, SMTT(60)
    <3>10. Ordered'
      BY <2>3, <2>6, <3>4, <3>8, <3>9 DEF Ordered
    <3>11. Awake'
      <4>1. waiting'.pop > 0 => woken'.pop >= Amount'
        BY <2>2, <2>4, <3>2, <3>5 DEF Awake
      <4>2. waiting'.push > 0 => woken'.push >= Size - ring'.size
        BY <1>1, <2>2, <2>4, <3>2 DEF Awake
      <4> QED
        BY <2>3, <4>1, <4>2 DEF Awake
    <3> QED
      BY <3>6, <3>7, <3>10, <3>11
  <2>7. CASE ~IsBounded
    <3>1. popped' = Append(popped, Head(deque)) /\ deque' = Tail(deque) /\ ring' = ring
      BY <1>3, <2>7 DEF pop, deque_pop
    <3>2. deque \in Seq(Nat) /\ Len(deque) \in Nat \ {0}
      BY <2>1, <2>7 DEF QueueTypeOK, empty
    <3>3. /\ Head(deque) = deque[1] /\ deque' \in Seq(Nat) /\ Len(deque') = Len(deque) - 1
          /\ \A i \in 1..Len(deque') : deque'[i] = deque[i + 1]
      BY <3>1, <3>2
    <3>4. Head(deque) = Len(popped) + 1
      BY <2>7, <3>2, <3>3 DEF Ordered
    <3>5. /\ popped' \in Seq(Nat) /\ Len(popped') = Len(popped) + 1
          /\ \A i \in 1..Len(popped') : popped'[i] = i
      BY <2>5, <3>1, <3>4
    <3>6. Amount = Len(deque) /\ Amount' = Len(deque')
      BY <2>3, <2>7 DEF Amount
    <3>7. QueueTypeOK'
      BY <2>1, <2>2, <2>3, <3>1, <3>3, <3>5 DEF QueueTypeOK
    <3>8. waiting'.push = 0
      BY <2>2, <2>7 DEF RingOK
    <3>9. RingOK'
      BY <2>3, <2>7, <3>1, <3>8 DEF RingOK
    <3>10. Len(popped') + Amount' = pushed'
      <4>1. Len(popped) + Len(deque) = pushed
        BY <3>6 DEF Ordered
      <4>2. Len(popped') + Len(deque') = Len(popped) + Len(deque)
        BY <2>4, <3>2, <3>3, <3>5
      <4> QED
        BY <2>1, <3>6, <4>1, <4>2
    <3>11. ASSUME NEW i \in 1..Len(deque')
           PROVE  deque'[i] = Len(popped') + i
      <4>1. i + 1 \in 1..Len(deque) /\ i \in Nat
        BY <3>2, <3>3
      <4>2. deque[i + 1] = Len(popped) + (i + 1)
        BY <2>7, <4>1 DEF Ordered
      <4> QED
        BY <2>4, <3>3, <3>5, <4>1, <4>2
    <3>12. Ordered'
      BY <2>3, <2>7, <3>5, <3>10, <3>11 DEF Ordered
    <3>13. Awake'
      <4>1. waiting'.pop > 0 => woken'.pop >= Amount'
        BY <2>2, <2>4, <3>2, <3>3, <3>6 DEF Awake
      <4> QED
        BY <2>3, <3>8, <4>1 DEF Awake
    <3> QED
      BY <3>7, <3>9, <3>12, <3>13
  <2> QED
    BY <2>6, <2>7
<1> QED
  BY <1>2, <1>3

\* BlockingQueue::drain().
LEMMA DrainStep ==
  ASSUME QueueInv, drain
  PROVE  QueueInv'
<1> USE DEF QueueInv
<1>1. /\ ~IsBounded /\ popped' = popped \o deque /\ deque' = <<>>
      /\ UNCHANGED <<bound, ring, waiting, woken, pushed>>
  BY DEF drain
<1>2. ~IsBounded' /\ Size' = Size /\ Ring' = Ring /\ Amount = Len(deque) /\ Amount' = 0
  BY <1>1 DEF IsBounded, Size, Ring, Amount
<1>3. /\ popped \in Seq(Nat) /\ deque \in Seq(Nat) /\ Len(popped) \in Nat /\ Len(deque) \in Nat
      /\ woken.pop \in Nat
  BY DEF QueueTypeOK
<1>4. /\ popped' \in Seq(Nat) /\ Len(popped') = Len(popped) + Len(deque)
      /\ \A i \in 1..Len(popped') : popped'[i] = IF i <= Len(popped) THEN popped[i]
                                                 ELSE deque[i - Len(popped)]
  BY <1>1, <1>3, ConcatProperties
<1>5. ASSUME NEW i \in 1..Len(popped')
      PROVE  popped'[i] = i
  <2>1. CASE i <= Len(popped)
    BY <1>3, <1>4, <2>1, SMTT(60) DEF Ordered
  <2>2. CASE ~(i <= Len(popped))
    <3>1. i - Len(popped) \in 1..Len(deque) /\ Len(popped) + (i - Len(popped)) = i
      BY <1>3, <1>4, <2>2
    <3>2. deque[i - Len(popped)] = Len(popped) + (i - Len(popped))
      BY <1>1, <3>1 DEF Ordered
    <3> QED
      BY <1>4, <2>2, <3>1, <3>2
  <2> QED
    BY <2>1, <2>2
<1>6. QueueTypeOK'
  BY <1>1, <1>2, <1>4 DEF QueueTypeOK
<1>7. RingOK'
  BY <1>1, <1>2 DEF RingOK
<1>8. Ordered'
  <2>1. Len(popped') + Amount' = pushed'
    BY <1>1, <1>2, <1>3, <1>4 DEF Ordered
  <2>2. 1..Len(deque') = {}
    BY <1>1
  <2> QED
    BY <1>2, <1>5, <2>1, <2>2 DEF Ordered
<1>9. Awake'
  BY <1>1, <1>2, <1>3 DEF Awake
<1> QED
  BY <1>6, <1>7, <1>8, <1>9

\* A wakeup without a notification leaves one more thread awake.
LEMMA SpuriousStep ==
  ASSUME QueueInv, NEW side \in {"push", "pop"}, wait_returns(side)
  PROVE  QueueInv'
<1> USE DEF QueueInv
<1>1. /\ waiting[side] > 0 /\ UNCHANGED <<bound, deque, ring, pushed, popped>>
      /\ waiting' = [waiting EXCEPT ![side] = @ - 1] /\ woken' = [woken EXCEPT ![side] = @ + 1]
  BY DEF wait_returns
<1>2. waiting \in [push : Nat, pop : Nat] /\ woken \in [push : Nat, pop : Nat]
  BY DEF QueueTypeOK
<1>3. Size' = Size /\ Amount' = Amount
  BY <1>1 DEF Size, Amount, IsBounded
<1>4. CASE side = "push"
  <2>1. /\ waiting' \in [push : Nat, pop : Nat] /\ woken' \in [push : Nat, pop : Nat]
        /\ waiting.push > 0 /\ woken'.push = woken.push + 1
        /\ waiting'.pop = waiting.pop /\ woken'.pop = woken.pop
    BY <1>1, <1>2, <1>4
  <2>2. IsBounded
    BY <2>1 DEF RingOK
  <2>3. Size - ring.size \in Int
    BY CapacityIsSize DEF QueueTypeOK, Ring
  <2>4. Awake'
    BY <1>1, <1>2, <1>3, <2>1, <2>3 DEF Awake
  <2> QED
    BY <1>1, <2>1, <2>2, <2>4, QuietStep
<1>5. CASE side = "pop"
  <2>1. /\ waiting' \in [push : Nat, pop : Nat] /\ woken' \in [push : Nat, pop : Nat]
        /\ waiting.pop > 0 /\ woken'.pop = woken.pop + 1
        /\ waiting'.push = waiting.push /\ woken'.push = woken.push
    BY <1>1, <1>2, <1>5
  <2>2. ~IsBounded => waiting'.push = 0
    BY <2>1 DEF RingOK
  <2>3. Amount \in Nat
    BY DEF QueueTypeOK, Ring, Amount, Size
  <2>4. Awake'
    BY <1>1, <1>2, <1>3, <2>1, <2>3 DEF Awake
  <2> QED
    BY <1>1, <2>1, <2>2, <2>4, QuietStep
<1> QED
  BY <1>4, <1>5

\* The contents, as the model writes them with %, continue what was popped.
LEMMA ContentsFollow ==
  ASSUME QueueInv
  PROVE  /\ Contents \in Seq(Nat) /\ Len(Contents) = Amount /\ Amount \in Nat
         /\ \A i \in 1..Amount : Contents[i] = Len(popped) + i
<1> USE DEF QueueInv
<1>1. Capacity = Size /\ Size \in Nat \ {0}
  BY CapacityIsSize
<1>2. Len(popped) \in Nat
  BY DEF QueueTypeOK
<1>3. CASE IsBounded
  <2>1. /\ Amount = ring.size /\ ring.size \in 0..Size /\ ring.size \in Nat
        /\ ring.begin \in 0..Size - 1
    BY <1>1, <1>3 DEF Amount, QueueTypeOK, Ring
  <2>2. Contents = [i \in 1..ring.size |-> ring.cells[(ring.begin + i - 1) % Capacity]]
    BY <1>3 DEF Contents
  <2>3. ASSUME NEW i \in 1..ring.size
        PROVE  ring.cells[(ring.begin + i - 1) % Capacity] = Len(popped) + i
    <3>1. i - 1 \in 0..ring.size - 1 /\ i - 1 \in 0..Size /\ Len(popped) + (i - 1) + 1 = Len(popped) + i
      BY <1>1, <1>2, <2>1
    <3>2. ring.begin + i - 1 = ring.begin + (i - 1)
      BY <1>1, <2>1
    <3>3. (ring.begin + (i - 1)) % Size = Cell(ring.begin, i - 1, Size)
      BY <1>1, <2>1, <3>1, OneTurn
    <3>4. ring.cells[Cell(ring.begin, i - 1, Size)] = Len(popped) + (i - 1) + 1
      BY <1>3, <3>1 DEF Ordered
    <3> QED
      BY <1>1, <3>1, <3>2, <3>3, <3>4
  <2>4. Contents = [i \in 1..ring.size |-> Len(popped) + i]
    BY <2>2, <2>3
  <2> QED
    BY <1>2, <2>1, <2>4
<1>4. CASE ~IsBounded
  BY <1>4 DEF Amount, Contents, QueueTypeOK, Ordered
<1> QED
  BY <1>3, <1>4

\* Both queues deliver every item once and in order, whatever the threads and
\* however often the ring wraps, and keep no thread asleep next to something
\* for it to do.
THEOREM QueuesDeliver == QueueSpec => []QueueDelivers
<1>1. QueueInit => QueueInv
  <2> SUFFICES ASSUME QueueInit PROVE QueueInv
    OBVIOUS
  <2>1. bound \in Nat /\ Size \in Nat \ {0}
    BY QueueAssumption DEF QueueInit, Size, IsBounded
  <2>2. ring = [cells |-> [i \in 0..Size - 1 |-> 0], begin |-> 0, end |-> 0, size |-> 0]
    BY DEF QueueInit, NewRing, Size
  <2>3. Amount = 0
    BY <2>2 DEF QueueInit, Amount
  <2>4. QueueTypeOK
    BY <2>1, <2>2 DEF QueueInit, QueueTypeOK, Ring
  <2>5. RingOK /\ Ordered /\ Awake
    BY <2>1, <2>2, <2>3 DEF QueueInit, RingOK, Ordered, Awake, Cell
  <2> QED
    BY <2>4, <2>5 DEF QueueInv
<1>2. QueueInv /\ [QueueNext]_queueVars => QueueInv'
  <2> SUFFICES ASSUME QueueInv, [QueueNext]_queueVars PROVE QueueInv'
    OBVIOUS
  <2>1. CASE UNCHANGED queueVars
    <3>1. UNCHANGED <<bound, deque, ring, pushed, popped, waiting, woken>>
      BY <2>1 DEF queueVars
    <3>2. Awake'
      BY <3>1 DEF QueueInv, Awake, Size, Amount, IsBounded
    <3> QED
      BY <3>1, <3>2, QuietStep DEF QueueInv, QueueTypeOK, RingOK
  <2> QED
    BY <2>1, PushStep, PopStep, DrainStep, SpuriousStep DEF QueueNext
<1>3. QueueInv => QueueDelivers
  <2> SUFFICES ASSUME QueueInv PROVE QueueDelivers
    OBVIOUS
  <2>1. /\ Contents \in Seq(Nat) /\ Len(Contents) = Amount /\ Amount \in Nat
        /\ \A i \in 1..Amount : Contents[i] = Len(popped) + i
    BY ContentsFollow
  <2>2. /\ popped \in Seq(Nat) /\ Len(popped) \in Nat /\ pushed \in Nat
        /\ Len(popped) + Amount = pushed /\ \A i \in 1..Len(popped) : popped[i] = i
    BY DEF QueueInv, QueueTypeOK, Ordered
  <2> DEFINE all == popped \o Contents
             count == [i \in 1..pushed |-> i]
  <2>3. /\ all \in Seq(Nat) /\ Len(all) = pushed
        /\ \A i \in 1..pushed : all[i] = IF i <= Len(popped) THEN popped[i]
                                         ELSE Contents[i - Len(popped)]
    BY <2>1, <2>2, ConcatProperties
  <2>4. ASSUME NEW i \in 1..pushed PROVE all[i] = i
    <3>1. CASE i <= Len(popped)
      BY <2>2, <2>3, <3>1
    <3>2. CASE ~(i <= Len(popped))
      <4>1. i - Len(popped) \in 1..Amount /\ Len(popped) + (i - Len(popped)) = i
        BY <2>1, <2>2, <3>2
      <4> QED
        BY <2>1, <2>3, <3>2, <4>1
    <3> QED
      BY <3>1, <3>2
  <2>5. all = count
    <3>1. count \in Seq(Nat) /\ Len(count) = pushed /\ \A i \in 1..pushed : count[i] = i
      BY <2>2
    <3> HIDE DEF all, count
    <3> QED
      BY <2>3, <2>4, <3>1, SeqEqual
  <2>6. Capacity = Size
    BY CapacityIsSize DEF QueueInv
  <2> QED
    BY <2>1, <2>5, <2>6 DEF QueueDelivers, QueueInv, Awake
<1> QED
  BY <1>1, <1>2, <1>3, PTL DEF QueueSpec

(***************************************************************************)
(* Induction.  The provers take no operator as a parameter; a set they do: *)
(* a property is the set of the numbers that have it, and the step of a    *)
(* recursive definition a function.                                        *)
(***************************************************************************)
\* Every set of natural numbers with an element has a least one.
LEMMA LeastNumber ==
  ASSUME NEW T, T \subseteq Nat, T # {}
  PROVE  \E x \in T : \A y \in T : x <= y
<1> DEFINE R == OpToRel(<, Nat)
<1>1. IsWellFoundedOn(R, Nat)
  BY NatLessThanWellFounded
<1>2. \A x, y \in Nat : x < y => <<x, y>> \in R
  BY DEF OpToRel
<1> HIDE DEF R
<1>3. PICK x \in T : \A y \in T : ~(<<y, x>> \in R)
  BY <1>1, WFMin
<1>4. ASSUME NEW y \in T PROVE x <= y
  <2>1. ~(y < x)
    BY <1>2, <1>3
  <2> QED
    BY <2>1
<1> QED
  BY <1>4

\* Induction up to n, the property as the set of numbers that have it.
LEMMA InductionUpTo ==
  ASSUME NEW n \in Nat, NEW P, 0 \in P, \A k \in 0..n - 1 : k \in P => k + 1 \in P
  PROVE  0..n \subseteq P
<1> DEFINE T == {k \in 0..n : k \notin P}
<1> SUFFICES ASSUME T # {} PROVE FALSE
  OBVIOUS
<1>1. PICK x \in T : \A y \in T : x <= y
  <2>1. T \subseteq Nat
    OBVIOUS
  <2> HIDE DEF T
  <2> QED
    BY <2>1, LeastNumber
<1>2. x \in 1..n /\ x - 1 \in 0..n - 1 /\ x - 1 \notin T
  BY <1>1
<1> QED
  BY <1>2

\* A function on 0..n that is defined by recursion exists.
LEMMA RecursionUpTo ==
  ASSUME NEW S, NEW a \in S, NEW n \in Nat, NEW F \in [1..n -> [S -> S]]
  PROVE  \E f \in [0..n -> S] : f[0] = a /\ \A k \in 1..n : f[k] = F[k][f[k - 1]]
<1> DEFINE Good(f, m) == f[0] = a /\ \A k \in 1..m : f[k] = F[k][f[k - 1]]
           P == {m \in 0..n : \E f \in [0..m -> S] : Good(f, m)}
<1>1. 0 \in P
  <2>1. [k \in 0..0 |-> a] \in [0..0 -> S] /\ Good([k \in 0..0 |-> a], 0)
    OBVIOUS
  <2> HIDE DEF Good
  <2> QED
    BY <2>1
<1>2. ASSUME NEW m \in 0..n - 1, m \in P PROVE m + 1 \in P
  <2>1. PICK f \in [0..m -> S] : Good(f, m)
    BY <1>2
  <2> DEFINE g == [k \in 0..m + 1 |-> IF k = m + 1 THEN F[m + 1][f[m]] ELSE f[k]]
  <2>2. f[m] \in S /\ m + 1 \in 1..n
    OBVIOUS
  <2>3. F[m + 1][f[m]] \in S
    BY <2>2
  <2>4. g \in [0..m + 1 -> S]
    BY <2>3
  <2>5. g[0] = a
    BY <2>1
  <2>6. ASSUME NEW k \in 1..m + 1 PROVE g[k] = F[k][g[k - 1]]
    <3>1. CASE k = m + 1
      <4>1. g[m + 1] = F[m + 1][f[m]] /\ g[m] = f[m] /\ k - 1 = m
        BY <3>1
      <4> QED
        BY <3>1, <4>1
    <3>2. CASE k # m + 1
      BY <2>1, <3>2
    <3> QED
      BY <3>1, <3>2
  <2> HIDE DEF g
  <2>7. Good(g, m + 1)
    BY <2>5, <2>6
  <2> HIDE DEF Good
  <2> QED
    BY <2>2, <2>4, <2>7
<1>3. n \in P
  <2>1. 0..n \subseteq P
    <3> HIDE DEF P
    <3> QED
      BY <1>1, <1>2, InductionUpTo
  <2> HIDE DEF P
  <2> QED
    BY <2>1
<1> QED
  BY <1>3
(***************************************************************************)
(* Buffer.  Each method keeps the indices in order and inside the vector,  *)
(* leaves room for a prepend within it, and does to the readable bytes     *)
(* what it promises.  Byte is what a cell can hold, here and in the HTTP   *)
(* server's buffer.                                                        *)
(***************************************************************************)
\* TwoTo is what it is defined to be: the powers of two.
LEMMA Powers ==
  /\ TwoTo \in [0..MaxChunk -> Nat \ {0}]
  /\ TwoTo[0] = 1
  /\ \A n \in 1..MaxChunk : TwoTo[n] = 2 * TwoTo[n - 1]
<1> DEFINE S == Nat \ {0}
           F == [k \in 1..MaxChunk |-> [y \in S |-> 2 * y]]
           Rec(f) == f = [n \in 0..MaxChunk |-> IF n = 0 THEN 1 ELSE 2 * f[n - 1]]
<1>0. MaxChunk \in Nat
  BY BufferAssumption
<1>1. F \in [1..MaxChunk -> [S -> S]]
  OBVIOUS
<1>2. PICK f \in [0..MaxChunk -> S] : f[0] = 1 /\ \A k \in 1..MaxChunk : f[k] = F[k][f[k - 1]]
  <2>1. 1 \in S
    OBVIOUS
  <2> HIDE DEF S, F
  <2> QED
    BY <1>0, <1>1, <2>1, RecursionUpTo
<1>3. Rec(f)
  <2>1. ASSUME NEW k \in 1..MaxChunk PROVE f[k] = 2 * f[k - 1]
    <3>1. f[k - 1] \in S /\ f[k] = F[k][f[k - 1]]
      BY <1>0, <1>2
    <3> QED
      BY <3>1
  <2> QED
    BY <1>0, <1>2, <2>1
<1>4. Rec(TwoTo)
  <2>1. TwoTo = CHOOSE g : Rec(g)
    BY DEF TwoTo
  <2> HIDE DEF Rec
  <2> QED
    BY <1>3, <2>1
<1>5. TwoTo[0] = 1 /\ \A n \in 1..MaxChunk : TwoTo[n] = 2 * TwoTo[n - 1]
  BY <1>0, <1>4
<1> DEFINE P == {n \in 0..MaxChunk : TwoTo[n] \in S}
<1>6. 0..MaxChunk \subseteq P
  <2>1. 0 \in P
    BY <1>0, <1>5
  <2>2. \A k \in 0..MaxChunk - 1 : k \in P => k + 1 \in P
    BY <1>0, <1>5
  <2> HIDE DEF P
  <2> QED
    BY <1>0, <2>1, <2>2, InductionUpTo
<1>7. TwoTo \in [0..MaxChunk -> S]
  <2>1. \A n \in 0..MaxChunk : TwoTo[n] \in S
    BY <1>6
  <2>2. TwoTo = [n \in 0..MaxChunk |-> TwoTo[n]]
    BY <1>4
  <2> HIDE DEF S
  <2> QED
    BY <2>1, <2>2
<1> QED
  BY <1>5, <1>7

\* What network_to_host() sums up, digit by digit.
LEMMA SumOf ==
  ASSUME NEW data \in Seq({0, 1})
  PROVE  \E sum \in [0..Len(data) -> Nat] :
           /\ sum[0] = 0
           /\ \A i \in 1..Len(data) : sum[i] = 2 * sum[i - 1] + data[i]
           /\ network_to_host(data) = sum[Len(data)]
<1> DEFINE n == Len(data)
           S == Nat
           F == [k \in 1..n |-> [y \in S |-> 2 * y + data[k]]]
           Rec(f) == f = [i \in 0..n |-> IF i = 0 THEN 0 ELSE 2 * f[i - 1] + data[i]]
           sum == CHOOSE g : Rec(g)
<1>0. n \in Nat /\ \A i \in 1..n : data[i] \in Nat
  OBVIOUS
<1>8. network_to_host(data) = sum[n]
  BY DEF network_to_host
<1> HIDE DEF n
<1>1. F \in [1..n -> [S -> S]]
  BY <1>0
<1>2. PICK f \in [0..n -> S] : f[0] = 0 /\ \A k \in 1..n : f[k] = F[k][f[k - 1]]
  <2> DEFINE a == 0
  <2>1. n \in Nat /\ a \in S
    BY <1>0
  <2> HIDE DEF F, S, a
  <2>2. \E f \in [0..n -> S] : f[0] = a /\ \A k \in 1..n : f[k] = F[k][f[k - 1]]
    BY <1>1, <2>1, RecursionUpTo, SMTT(60)
  <2> QED
    BY <2>2 DEF a
<1>3. Rec(f)
  <2>1. ASSUME NEW k \in 1..n PROVE f[k] = 2 * f[k - 1] + data[k]
    <3>1. f[k - 1] \in S /\ f[k] = F[k][f[k - 1]]
      <4> HIDE DEF F, S
      <4> QED
        BY <1>0, <1>2
    <3> QED
      BY <3>1
  <2> QED
    BY <1>0, <1>2, <2>1
<1>4. Rec(sum)
  <2> HIDE DEF Rec
  <2> QED
    BY <1>3
<1> HIDE DEF sum
<1>5. sum[0] = 0 /\ \A i \in 1..n : sum[i] = 2 * sum[i - 1] + data[i]
  BY <1>0, <1>4
<1> DEFINE P == {i \in 0..n : sum[i] \in Nat}
<1>6. 0..n \subseteq P
  <2>1. 0 \in P
    BY <1>0, <1>5
  <2>2. \A k \in 0..n - 1 : k \in P => k + 1 \in P
    <3> SUFFICES ASSUME NEW k \in 0..n - 1, sum[k] \in Nat PROVE sum[k + 1] \in Nat
      BY <1>0
    <3>1. k + 1 \in 1..n /\ (k + 1) - 1 = k
      BY <1>0
    <3>2. sum[k + 1] = 2 * sum[k] + data[k + 1] /\ data[k + 1] \in Nat
      BY <1>0, <1>5, <3>1
    <3> QED
      BY <3>2
  <2> HIDE DEF P
  <2> QED
    BY <1>0, <2>1, <2>2, InductionUpTo
<1>7. sum \in [0..n -> Nat]
  <2>1. sum = [i \in 0..n |-> sum[i]]
    BY <1>4
  <2> QED
    BY <1>6, <2>1
<1> QED
  BY <1>5, <1>7, <1>8 DEF n

\* The digits of an integer, each a 0 or a 1.
LEMMA Digits ==
  ASSUME NEW w \in Width, NEW x \in 0..TwoTo[w] - 1
  PROVE  /\ w \in Nat /\ x \in Nat
         /\ host_to_network(x, w) \in Seq({0, 1})
         /\ Len(host_to_network(x, w)) = w
         /\ \A i \in 1..w : host_to_network(x, w)[i] = (x \div TwoTo[w - i]) % 2
<1>1. w \in 1..MaxChunk /\ MaxChunk \in Nat
  BY BufferAssumption DEF Width
<1>2. x \in Nat
  BY <1>1, Powers
<1>3. ASSUME NEW i \in 1..w PROVE (x \div TwoTo[w - i]) % 2 \in {0, 1}
  <2>1. TwoTo[w - i] \in Nat \ {0}
    BY <1>1, Powers
  <2> QED
    BY <1>2, <2>1
<1>4. host_to_network(x, w) \in [1..w -> {0, 1}]
  BY <1>3 DEF host_to_network
<1> QED
  BY <1>1, <1>2, <1>4 DEF host_to_network

LEMMA Halve ==
  \A x, d \in Nat : d > 0 => x \div d \in Nat /\ x \div (2 * d) = (x \div d) \div 2
  OBVIOUS

\* An integer of w bytes, to network order and back, is the same integer.
LEMMA RoundTrip ==
  ASSUME NEW w \in Width, NEW x \in 0..TwoTo[w] - 1
  PROVE  network_to_host(host_to_network(x, w)) = x
<1> DEFINE h == host_to_network(x, w)
<1>0. w \in 1..MaxChunk /\ MaxChunk \in Nat /\ x \in Nat
  BY BufferAssumption, Digits DEF Width
<1>1. /\ h \in Seq({0, 1}) /\ Len(h) = w
      /\ \A i \in 1..w : h[i] = (x \div TwoTo[w - i]) % 2
  BY Digits
<1> HIDE DEF h
<1>2. PICK sum \in [0..w -> Nat] :
        /\ sum[0] = 0
        /\ \A i \in 1..w : sum[i] = 2 * sum[i - 1] + h[i]
        /\ network_to_host(h) = sum[w]
  BY <1>1, SumOf
<1> DEFINE P == {i \in 0..w : sum[i] = x \div TwoTo[w - i]}
<1>3. 0 \in P
  <2>1. TwoTo[w] \in Nat \ {0} /\ x < TwoTo[w]
    BY <1>0, Powers
  <2>2. x \div TwoTo[w] = 0
    BY <1>0, <2>1
  <2> QED
    BY <1>0, <1>2, <2>2
<1>4. ASSUME NEW i \in 0..w - 1, i \in P PROVE i + 1 \in P
  <2> DEFINE d == TwoTo[w - (i + 1)]
  <2>1. d \in Nat \ {0} /\ TwoTo[w - i] = 2 * d
    <3>1. w - i \in 1..MaxChunk /\ (w - i) - 1 = w - (i + 1) /\ w - (i + 1) \in 0..MaxChunk
      BY <1>0
    <3> QED
      BY <3>1, Powers
  <2>2. sum[i + 1] = 2 * sum[i] + h[i + 1] /\ h[i + 1] = (x \div d) % 2
    <3>1. i + 1 \in 1..w /\ (i + 1) - 1 = i
      BY <1>0
    <3> QED
      BY <1>1, <1>2, <3>1
  <2>3. sum[i] = x \div (2 * d)
    BY <1>4, <2>1
  <2> HIDE DEF d
  <2>4. x \div d \in Nat /\ x \div (2 * d) = (x \div d) \div 2
    <3>1. x \in Nat /\ d \in Nat /\ d > 0
      BY <1>0, <2>1
    <3> QED
      BY <3>1, Halve
  <2>5. sum[i + 1] = x \div d
    BY <2>2, <2>3, <2>4
  <2> QED
    BY <1>0, <2>5 DEF d
<1>5. 0..w \subseteq P
  <2>1. w \in Nat
    BY <1>0
  <2> HIDE DEF P
  <2> QED
    BY <2>1, <1>3, <1>4, InductionUpTo
<1>6. sum[w] = x \div TwoTo[0] /\ TwoTo[0] = 1
  BY <1>0, <1>5, Powers
<1> QED
  BY <1>0, <1>2, <1>6 DEF h
Byte == {0, 1} \cup Symbol

BufferOK(b) ==
  /\ b \in [store : Seq(Byte), read_index : Nat, write_index : Nat]
  /\ b.read_index <= b.write_index
  /\ b.write_index <= Len(b.store)
  /\ pre_append_size <= Len(b.store)

\* What is put in a buffer is a sequence of cells.
LEMMA DataCells ==
  /\ \A data \in Chunk : data \in Seq(Byte)
  /\ \A w \in Width : \A x \in 0..TwoTo[w] - 1 :
       host_to_network(x, w) \in Seq(Byte) /\ Len(host_to_network(x, w)) = w /\ w \in Nat
<1>1. ASSUME NEW data \in Chunk PROVE data \in Seq(Byte)
  <2>1. PICK n \in 0..MaxChunk : data \in [1..n -> {0, 1}]
    BY DEF Chunk
  <2>2. n \in Nat
    BY BufferAssumption
  <2>3. data \in [1..n -> Byte]
    BY <2>1 DEF Byte
  <2> HIDE DEF Byte
  <2> QED
    BY <2>2, <2>3
<1>2. ASSUME NEW w \in Width, NEW x \in 0..TwoTo[w] - 1
      PROVE  host_to_network(x, w) \in Seq(Byte) /\ Len(host_to_network(x, w)) = w /\ w \in Nat
  <2>1. {0, 1} \subseteq Byte
    BY DEF Byte
  <2> HIDE DEF Byte
  <2> QED
    BY <2>1, Digits
<1> QED
  BY <1>1, <1>2

\* Zeros are cells.
LEMMA ZeroCells == \A n \in Nat : Zeros(n) \in Seq(Byte) /\ Len(Zeros(n)) = n
<1>1. 0 \in Byte
  BY DEF Byte
<1> QED
  BY <1>1 DEF Zeros

\* std::copy changes the cells it covers.
LEMMA CopyCells ==
  ASSUME NEW s \in Seq(Byte), NEW at \in Nat, NEW data \in Seq(Byte)
  PROVE  /\ copy(s, at, data) \in Seq(Byte)
         /\ Len(copy(s, at, data)) = Len(s)
         /\ \A i \in 1..Len(s) : i <= at \/ i > at + Len(data) => copy(s, at, data)[i] = s[i]
         /\ \A i \in 1..Len(data) : at + i <= Len(s) => copy(s, at, data)[at + i] = data[i]
<1> DEFINE c == copy(s, at, data)
<1>0. Len(s) \in Nat /\ Len(data) \in Nat
  OBVIOUS
<1>1. c = [i \in 1..Len(s) |-> IF i - at \in 1..Len(data) THEN data[i - at] ELSE s[i]]
  BY DEF copy
<1> HIDE DEF c
<1>2. \A i \in 1..Len(s) : (IF i - at \in 1..Len(data) THEN data[i - at] ELSE s[i]) \in Byte
  OBVIOUS
<1>3. c \in [1..Len(s) -> Byte]
  BY <1>1, <1>2
<1>4. c \in Seq(Byte) /\ Len(c) = Len(s)
  BY <1>0, <1>1, <1>3
<1>5. ASSUME NEW i \in 1..Len(s), i <= at \/ i > at + Len(data) PROVE c[i] = s[i]
  <2>1. i - at \notin 1..Len(data)
    BY <1>0, <1>5
  <2> QED
    BY <1>1, <2>1
<1>6. ASSUME NEW i \in 1..Len(data), at + i <= Len(s) PROVE c[at + i] = data[i]
  <2>1. at + i \in 1..Len(s) /\ (at + i) - at = i
    BY <1>0, <1>6
  <2> QED
    BY <1>1, <2>1
<1> QED
  BY <1>4, <1>5, <1>6 DEF c

\* A part of a sequence, one by one.
LEMMA PartOf ==
  ASSUME NEW S, NEW s \in Seq(S), NEW m \in Nat, NEW n \in Nat, m <= n, n <= Len(s)
  PROVE  /\ SubSeq(s, m + 1, n) \in Seq(S)
         /\ Len(SubSeq(s, m + 1, n)) = n - m
         /\ \A i \in 1..n - m : SubSeq(s, m + 1, n)[i] = s[m + i]
  OBVIOUS

\* The readable bytes, one by one.
LEMMA ReadableBytes ==
  ASSUME NEW b, BufferOK(b)
  PROVE  /\ to_string(b) \in Seq(Byte)
         /\ Len(to_string(b)) = b.write_index - b.read_index
         /\ \A i \in 1..b.write_index - b.read_index : to_string(b)[i] = b.store[b.read_index + i]
<1>1. b.store \in Seq(Byte) /\ b.read_index \in Nat /\ b.write_index \in Nat
  BY DEF BufferOK
<1>2. b.read_index <= b.write_index /\ b.write_index <= Len(b.store) /\ Len(b.store) \in Nat
  BY <1>1 DEF BufferOK
<1> QED
  BY <1>1, <1>2, SMTT(60) DEF to_string

\* A sequence that agrees with the cells is what the buffer holds.
LEMMA IsString ==
  ASSUME NEW b, BufferOK(b), NEW s \in Seq(Byte), Len(s) = b.write_index - b.read_index,
         \A i \in 1..Len(s) : b.store[b.read_index + i] = s[i]
  PROVE  to_string(b) = s
<1>1. Len(to_string(b)) = Len(s) /\ \A i \in 1..Len(s) : to_string(b)[i] = s[i]
  BY ReadableBytes
<1> QED
  BY <1>1, ReadableBytes, SeqEqual

\* A fresh buffer is empty.
LEMMA NewOK == BufferOK(NewBuffer) /\ to_string(NewBuffer) = <<>>
<1>1. pre_append_size \in Nat /\ init_size \in Nat
  BY BufferAssumption
<1>2. /\ Zeros(pre_append_size + init_size) \in Seq(Byte)
      /\ Len(Zeros(pre_append_size + init_size)) = pre_append_size + init_size
  BY <1>1, ZeroCells
<1>3. BufferOK(NewBuffer)
  BY <1>1, <1>2 DEF NewBuffer, BufferOK
<1>4. Len(to_string(NewBuffer)) = 0 /\ to_string(NewBuffer) \in Seq(Byte)
  BY <1>1, <1>3, ReadableBytes DEF NewBuffer
<1> QED
  BY <1>3, <1>4

\* Bytes copied behind the readable ones, where they fit, are added to them.
LEMMA Fill ==
  ASSUME NEW b, BufferOK(b), NEW data \in Seq(Byte), Len(data) <= writeable_bytes(b)
  PROVE  LET f == has_written([b EXCEPT !.store = copy(b.store, b.write_index, data)], Len(data))
         IN BufferOK(f) /\ to_string(f) = to_string(b) \o data
                        /\ f.write_index = b.write_index + Len(data) /\ Len(f.store) = Len(b.store)
<1> DEFINE c == copy(b.store, b.write_index, data)
           g == [b EXCEPT !.store = c]
           f == has_written(g, Len(data))
           r == b.read_index
           w == b.write_index
           s == to_string(b)
<1>0. /\ b.store \in Seq(Byte) /\ r \in Nat /\ w \in Nat /\ r <= w /\ Len(data) \in Nat
      /\ Len(b.store) \in Nat /\ w + Len(data) <= Len(b.store) /\ pre_append_size <= Len(b.store)
  BY DEF BufferOK, writeable_bytes
<1>1. /\ c \in Seq(Byte) /\ Len(c) = Len(b.store)
      /\ \A i \in 1..Len(b.store) : i <= w \/ i > w + Len(data) => c[i] = b.store[i]
      /\ \A i \in 1..Len(data) : w + i <= Len(b.store) => c[w + i] = data[i]
  BY <1>0, CopyCells
<1> HIDE DEF c
<1>2. /\ f \in [store : Seq(Byte), read_index : Nat, write_index : Nat]
      /\ f.store = c /\ f.read_index = r /\ f.write_index = w + Len(data)
  <2>1. b \in [store : Seq(Byte), read_index : Nat, write_index : Nat]
    BY DEF BufferOK
  <2>2. /\ g \in [store : Seq(Byte), read_index : Nat, write_index : Nat]
        /\ g.store = c /\ g.read_index = r /\ g.write_index = w
    BY <1>1, <2>1
  <2> HIDE DEF g
  <2>3. f = [g EXCEPT !.write_index = w + Len(data)]
    BY <2>2 DEF has_written
  <2>4. w + Len(data) \in Nat
    BY <1>0
  <2> HIDE DEF f, r, w
  <2> QED
    BY <2>2, <2>3, <2>4
<1> HIDE DEF f, g
<1>3. BufferOK(f)
  BY <1>0, <1>1, <1>2 DEF BufferOK
<1>4. s \in Seq(Byte) /\ Len(s) = w - r /\ \A i \in 1..w - r : s[i] = b.store[r + i]
  BY ReadableBytes
<1> HIDE DEF s, r, w
<1>5. s \o data \in Seq(Byte) /\ Len(s \o data) = (w - r) + Len(data)
  BY <1>4
<1>6. ASSUME NEW i \in 1..Len(s \o data) PROVE f.store[r + i] = (s \o data)[i]
  <2>1. CASE i <= w - r
    <3>1. (s \o data)[i] = s[i] /\ i \in 1..w - r
      BY <1>0, <1>4, <2>1
    <3>2. r + i \in 1..Len(b.store) /\ r + i <= w
      BY <1>0, <2>1
    <3> QED
      BY <1>1, <1>2, <1>4, <3>1, <3>2
  <2>2. CASE i > w - r
    <3> DEFINE j == i - (w - r)
    <3>1. j \in 1..Len(data) /\ r + i = w + j /\ w + j <= Len(b.store)
      BY <1>0, <1>5, <2>2
    <3>2. (s \o data)[i] = data[j]
      BY <1>0, <1>4, <1>5, <2>2, ConcatProperties
    <3> HIDE DEF j
    <3> QED
      BY <1>1, <1>2, <3>1, <3>2
  <2> QED
    BY <1>0, <1>5, <2>1, <2>2
<1>7. Len(s \o data) = f.write_index - f.read_index
  BY <1>0, <1>2, <1>5
<1>8. to_string(f) = s \o data
  BY <1>2, <1>3, <1>5, <1>6, <1>7, IsString
<1> QED
  BY <1>1, <1>2, <1>3, <1>8 DEF f, g, c, s, w

\* Buffer::ensure_writeable_bytes() makes room, whether it grows the vector or
\* moves the bytes to the front, and leaves the readable bytes what they were.
LEMMA EnsureOK ==
  ASSUME NEW b, BufferOK(b), NEW len \in Nat
  PROVE  LET e == ensure_writeable_bytes(b, len)
         IN BufferOK(e) /\ to_string(e) = to_string(b) /\ len <= writeable_bytes(e)
<1> DEFINE r == b.read_index
           w == b.write_index
           n == Len(b.store)
           s == to_string(b)
           p == pre_append_size
<1>0. /\ b.store \in Seq(Byte) /\ r \in Nat /\ w \in Nat /\ r <= w /\ n \in Nat /\ w <= n
      /\ p \in Nat /\ p <= n
      /\ b \in [store : Seq(Byte), read_index : Nat, write_index : Nat]
  BY BufferAssumption DEF BufferOK
<1>1. s \in Seq(Byte) /\ Len(s) = w - r /\ \A i \in 1..w - r : s[i] = b.store[r + i]
  BY ReadableBytes
<1>2. CASE ~(writeable_bytes(b) < len)
  <2>1. ensure_writeable_bytes(b, len) = b
    BY <1>2 DEF ensure_writeable_bytes
  <2> QED
    BY <1>0, <1>2, <2>1 DEF writeable_bytes
<1>3. CASE writeable_bytes(b) < len /\ must_grow(b, len)
  <2> DEFINE z == Zeros(w + len - n)
             e == [b EXCEPT !.store = b.store \o z]
  <2>1. ensure_writeable_bytes(b, len) = e
    BY <1>3 DEF ensure_writeable_bytes, make_space
  <2>2. w + len - n \in Nat
    BY <1>0, <1>3 DEF writeable_bytes
  <2>3. z \in Seq(Byte) /\ Len(z) = w + len - n
    BY <2>2, ZeroCells
  <2> HIDE DEF z
  <2> DEFINE t == b.store \o z
  <2>4. t \in Seq(Byte) /\ Len(t) = w + len /\ \A i \in 1..n : t[i] = b.store[i]
    <3>1. t \in Seq(Byte) /\ Len(t) = n + Len(z) /\ \A i \in 1..n : t[i] = b.store[i]
      BY <1>0, <2>3
    <3> HIDE DEF t
    <3> QED
      BY <1>0, <2>3, <3>1
  <2> HIDE DEF t
  <2>5. /\ e \in [store : Seq(Byte), read_index : Nat, write_index : Nat]
        /\ e.store = t /\ e.read_index = r /\ e.write_index = w
    BY <1>0, <2>4 DEF t
  <2> HIDE DEF e
  <2>6. BufferOK(e)
    BY <1>0, <2>2, <2>4, <2>5 DEF BufferOK
  <2>7. \A i \in 1..Len(s) : e.store[e.read_index + i] = s[i]
    BY <1>0, <1>1, <2>4, <2>5, SMTT(60)
  <2>8. to_string(e) = s
    BY <1>1, <2>5, <2>6, <2>7, IsString, ZenonT(60)
  <2>9. len <= writeable_bytes(e)
    BY <1>0, <2>4, <2>5 DEF writeable_bytes
  <2> QED
    BY <2>1, <2>6, <2>8, <2>9
<1>4. CASE writeable_bytes(b) < len /\ ~must_grow(b, len)
  <2> DEFINE c == copy(b.store, p, s)
             e == [store |-> c, read_index |-> p, write_index |-> p + (w - r)]
  <2>1. ensure_writeable_bytes(b, len) = e
    BY <1>4 DEF ensure_writeable_bytes, make_space, readable_bytes
  <2>2. len + p <= n - w + r
    BY <1>0, <1>4 DEF must_grow, writeable_bytes
  <2>3. /\ c \in Seq(Byte) /\ Len(c) = n
        /\ \A i \in 1..Len(s) : p + i <= n => c[p + i] = s[i]
    BY <1>0, <1>1, CopyCells
  <2> HIDE DEF c
  <2>4. e \in [store : Seq(Byte), read_index : Nat, write_index : Nat]
    BY <1>0, <2>3
  <2>5. e.store = c /\ e.read_index = p /\ e.write_index = p + (w - r)
    OBVIOUS
  <2> HIDE DEF e
  <2>6. BufferOK(e)
    BY <1>0, <2>2, <2>3, <2>4, <2>5 DEF BufferOK
  <2>7. \A i \in 1..Len(s) : e.store[e.read_index + i] = s[i]
    BY <1>0, <1>1, <2>2, <2>3, <2>5
  <2>8. Len(s) = e.write_index - e.read_index
    BY <1>0, <1>1, <2>5
  <2>9. to_string(e) = s
    BY <1>1, <2>6, <2>7, <2>8, IsString
  <2>10. len <= writeable_bytes(e)
    BY <1>0, <2>2, <2>3, <2>5 DEF writeable_bytes
  <2> QED
    BY <2>1, <2>6, <2>9, <2>10
<1> QED
  BY <1>2, <1>3, <1>4

\* Buffer::append().
LEMMA AppendBytes ==
  ASSUME NEW b, BufferOK(b), NEW data \in Seq(Byte)
  PROVE  BufferOK(append(b, data)) /\ to_string(append(b, data)) = to_string(b) \o data
<1> DEFINE e == ensure_writeable_bytes(b, Len(data))
<1>1. BufferOK(e) /\ to_string(e) = to_string(b) /\ Len(data) <= writeable_bytes(e)
  BY EnsureOK
<1>2. append(b, data) =
        has_written([e EXCEPT !.store = copy(e.store, e.write_index, data)], Len(data))
  BY DEF append
<1> HIDE DEF e
<1> QED
  BY <1>1, <1>2, Fill

\* Buffer::read_fd(), when the bytes fit and when they end in the extra buffer.
LEMMA ReadBytes ==
  ASSUME NEW b, BufferOK(b), NEW data \in Seq(Byte)
  PROVE  BufferOK(read_fd(b, data)) /\ to_string(read_fd(b, data)) = to_string(b) \o data
<1> DEFINE room == writeable_bytes(b)
           one == SubSeq(data, 1, room)
           two == SubSeq(data, room + 1, Len(data))
           f == has_written([b EXCEPT !.store = copy(b.store, b.write_index, one)], Len(one))
           filled == [b EXCEPT !.store = copy(b.store, b.write_index, one)]
           g == [filled EXCEPT !.write_index = Len(b.store)]
<1>0. room \in Nat /\ Len(data) \in Nat
  BY DEF BufferOK, writeable_bytes
<1>3. b.write_index + room = Len(b.store)
  BY DEF BufferOK, writeable_bytes
<1>1. CASE Len(data) <= room
  <2>1. read_fd(b, data) =
          has_written([b EXCEPT !.store = copy(b.store, b.write_index, data)], Len(data))
    BY <1>1 DEF read_fd
  <2> QED
    BY <1>1, <2>1, Fill
<1>2. CASE ~(Len(data) <= room)
  <2>1. read_fd(b, data) = append(g, two)
    BY <1>2 DEF read_fd
  <2> HIDE DEF room
  <2>2. one \in Seq(Byte) /\ Len(one) = room /\ two \in Seq(Byte) /\ one \o two = data
    <3>1. one \in Seq(Byte) /\ Len(one) = room /\ \A i \in 1..room : one[i] = data[i]
      BY <1>0, <1>2
    <3>2. /\ two \in Seq(Byte) /\ Len(two) = Len(data) - room
          /\ \A i \in 1..Len(data) - room : two[i] = data[room + i]
      BY <1>0, <1>2
    <3>3. one \o two = data
      <4>1. 1 \in 1..Len(data) + 1 /\ room \in 1 - 1..Len(data) /\ Len(data) \in room..Len(data)
        BY <1>0, <1>2
      <4>2. one \o two = SubSeq(data, 1, Len(data))
        BY <4>1, ConcatAdjacentSubSeq
      <4> QED
        BY <4>2, SubSeqFull
    <3> QED
      BY <3>1, <3>2, <3>3
  <2> HIDE DEF one, two
  <2>3. BufferOK(f) /\ to_string(f) = to_string(b) \o one
    <3>1. Len(one) <= writeable_bytes(b)
      BY <1>0, <2>2 DEF room
    <3> QED
      BY <2>2, <3>1, Fill
  <2>4. f = g
    <3>1. filled.write_index = b.write_index
      BY DEF BufferOK
    <3> HIDE DEF filled
    <3>2. f = [filled EXCEPT !.write_index = filled.write_index + room]
      BY <2>2 DEF has_written, filled
    <3> QED
      BY <1>3, <3>1, <3>2
  <2>5. BufferOK(append(g, two)) /\ to_string(append(g, two)) = (to_string(b) \o one) \o two
    BY <2>2, <2>3, <2>4, AppendBytes
  <2>6. (to_string(b) \o one) \o two = to_string(b) \o data
    <3> DEFINE s == to_string(b)
    <3>1. s \in Seq(Byte) /\ one \in Seq(Byte) /\ two \in Seq(Byte)
      BY <2>2, ReadableBytes
    <3> HIDE DEF s
    <3>2. (s \o one) \o two = s \o (one \o two)
      BY <3>1, ConcatAssociative
    <3> QED
      BY <2>2, <3>2 DEF s
  <2> QED
    BY <2>1, <2>5, <2>6
<1> QED
  BY <1>1, <1>2

\* Buffer::retrieve(), of some bytes or, with retrieve_all(), of all.
LEMMA RetrieveBytes ==
  ASSUME NEW b, BufferOK(b), NEW len \in Nat
  PROVE  /\ BufferOK(retrieve(b, len))
         /\ to_string(retrieve(b, len)) = SubSeq(to_string(b), len + 1, Len(to_string(b)))
<1> DEFINE r == b.read_index
           w == b.write_index
           s == to_string(b)
           rest == SubSeq(s, len + 1, Len(s))
           p == pre_append_size
<1>0. /\ b \in [store : Seq(Byte), read_index : Nat, write_index : Nat]
      /\ r \in Nat /\ w \in Nat /\ r <= w /\ w <= Len(b.store) /\ Len(b.store) \in Nat
      /\ p \in Nat /\ p <= Len(b.store)
  BY BufferAssumption DEF BufferOK
<1>1. s \in Seq(Byte) /\ Len(s) = w - r /\ \A i \in 1..w - r : s[i] = b.store[r + i]
  BY ReadableBytes
<1>2. CASE len < w - r
  <2> DEFINE f == [b EXCEPT !.read_index = r + len]
  <2>1. retrieve(b, len) = f
    BY <1>2 DEF retrieve, readable_bytes
  <2>2. /\ f \in [store : Seq(Byte), read_index : Nat, write_index : Nat]
        /\ f.store = b.store /\ f.read_index = r + len /\ f.write_index = w
    BY <1>0
  <2> HIDE DEF f, s
  <2>3. BufferOK(f)
    BY <1>0, <1>2, <2>2 DEF BufferOK
  <2>4. /\ rest \in Seq(Byte) /\ Len(rest) = w - r - len
        /\ \A i \in 1..w - r - len : rest[i] = s[len + i]
    <3>1. Len(s) \in Nat /\ len <= Len(s)
      BY <1>0, <1>1, <1>2
    <3>2. /\ rest \in Seq(Byte) /\ Len(rest) = Len(s) - len
          /\ \A i \in 1..Len(s) - len : rest[i] = s[len + i]
      BY <1>1, <3>1, PartOf
    <3> HIDE DEF rest
    <3> QED
      BY <1>1, <3>2
  <2> HIDE DEF rest
  <2>5. ASSUME NEW i \in 1..Len(rest) PROVE f.store[f.read_index + i] = rest[i]
    <3>1. len + i \in 1..w - r /\ r + (len + i) = r + len + i
      BY <1>0, <2>4
    <3> QED
      BY <1>1, <2>2, <2>4, <3>1
  <2>6. Len(rest) = f.write_index - f.read_index
    BY <1>0, <2>2, <2>4
  <2>7. to_string(f) = rest
    BY <2>3, <2>4, <2>5, <2>6, IsString
  <2> QED
    BY <2>1, <2>3, <2>7 DEF rest, s
<1>3. CASE ~(len < w - r)
  <2> DEFINE f == [b EXCEPT !.read_index = p, !.write_index = p]
  <2>1. retrieve(b, len) = f
    BY <1>3 DEF retrieve, readable_bytes, retrieve_all
  <2>2. /\ f \in [store : Seq(Byte), read_index : Nat, write_index : Nat]
        /\ f.store = b.store /\ f.read_index = p /\ f.write_index = p
    BY <1>0
  <2> HIDE DEF f, s
  <2>3. BufferOK(f)
    BY <1>0, <2>2 DEF BufferOK
  <2>4. rest = <<>>
    BY <1>0, <1>1, <1>3, SubSeqEmpty
  <2>5. to_string(f) \in Seq(Byte) /\ Len(to_string(f)) = 0
    BY <1>0, <2>2, <2>3, ReadableBytes
  <2>6. to_string(f) = <<>>
    BY <2>5
  <2> QED
    BY <2>1, <2>3, <2>4, <2>6 DEF s
<1> QED
  BY <1>2, <1>3

\* Buffer::prepend(), of bytes that fit in front.
LEMMA PrependBytes ==
  ASSUME NEW b, BufferOK(b), NEW data \in Seq(Byte), Len(data) <= b.read_index
  PROVE  BufferOK(prepend(b, data)) /\ to_string(prepend(b, data)) = data \o to_string(b)
<1> DEFINE r == b.read_index
           w == b.write_index
           s == to_string(b)
           k == r - Len(data)
           c == copy(b.store, k, data)
           f == [b EXCEPT !.read_index = k, !.store = c]
           t == data \o s
<1>0. /\ b \in [store : Seq(Byte), read_index : Nat, write_index : Nat] /\ b.store \in Seq(Byte)
      /\ r \in Nat /\ w \in Nat /\ r <= w /\ w <= Len(b.store) /\ Len(b.store) \in Nat
      /\ pre_append_size <= Len(b.store) /\ Len(data) \in Nat /\ k \in Nat /\ k + Len(data) = r
  BY DEF BufferOK
<1>1. s \in Seq(Byte) /\ Len(s) = w - r /\ \A i \in 1..w - r : s[i] = b.store[r + i]
  BY ReadableBytes
<1>2. prepend(b, data) = f
  BY DEF prepend
<1> HIDE DEF k
<1>3. /\ c \in Seq(Byte) /\ Len(c) = Len(b.store)
      /\ \A i \in 1..Len(b.store) : i <= k \/ i > k + Len(data) => c[i] = b.store[i]
      /\ \A i \in 1..Len(data) : k + i <= Len(b.store) => c[k + i] = data[i]
  BY <1>0, CopyCells
<1> HIDE DEF c
<1>4. /\ f \in [store : Seq(Byte), read_index : Nat, write_index : Nat]
      /\ f.store = c /\ f.read_index = k /\ f.write_index = w
  BY <1>0, <1>3
<1> HIDE DEF f, s
<1>5. BufferOK(f)
  BY <1>0, <1>3, <1>4 DEF BufferOK
<1>6. /\ t \in Seq(Byte) /\ Len(t) = Len(data) + Len(s)
      /\ \A i \in 1..Len(data) : t[i] = data[i]
      /\ \A i \in 1..Len(s) : t[Len(data) + i] = s[i]
  BY <1>1
<1> HIDE DEF t, r, w
<1>7. ASSUME NEW i \in 1..Len(t) PROVE f.store[f.read_index + i] = t[i]
  <2>1. CASE i <= Len(data)
    <3>1. i \in 1..Len(data) /\ k + i <= Len(b.store)
      BY <1>0, <2>1
    <3> QED
      BY <1>3, <1>4, <1>6, <3>1
  <2>2. CASE i > Len(data)
    <3> DEFINE j == i - Len(data)
    <3>1. j \in 1..Len(s) /\ j \in 1..w - r /\ Len(data) + j = i
      BY <1>0, <1>1, <1>6, <2>2
    <3>2. k + i = r + j /\ k + i \in 1..Len(b.store) /\ k + i > k + Len(data)
      BY <1>0, <3>1, <2>2, SMTT(60)
    <3> HIDE DEF j
    <3>3. c[k + i] = b.store[r + j] /\ t[i] = s[j]
      BY <1>3, <1>6, <3>1, <3>2
    <3> QED
      BY <1>1, <1>4, <3>1, <3>3
  <2> QED
    BY <1>0, <1>6, <2>1, <2>2
<1>8. Len(t) = f.write_index - f.read_index
  BY <1>0, <1>1, <1>4, <1>6
<1>9. to_string(f) = t
  BY <1>5, <1>6, <1>7, <1>8, IsString
<1> QED
  BY <1>2, <1>5, <1>9 DEF t, s

\* Buffer::unwrite(), of bytes that are there.
LEMMA UnwriteBytes ==
  ASSUME NEW b, BufferOK(b), NEW len \in 1..Len(to_string(b))
  PROVE  /\ BufferOK(unwrite(b, len))
         /\ to_string(unwrite(b, len)) = SubSeq(to_string(b), 1, Len(to_string(b)) - len)
<1> DEFINE r == b.read_index
           w == b.write_index
           s == to_string(b)
           f == [b EXCEPT !.write_index = w - len]
           rest == SubSeq(s, 1, Len(s) - len)
<1>0. /\ b \in [store : Seq(Byte), read_index : Nat, write_index : Nat]
      /\ r \in Nat /\ w \in Nat /\ r <= w /\ w <= Len(b.store) /\ Len(b.store) \in Nat
      /\ pre_append_size <= Len(b.store)
  BY DEF BufferOK
<1>1. s \in Seq(Byte) /\ Len(s) = w - r /\ \A i \in 1..w - r : s[i] = b.store[r + i]
  BY ReadableBytes
<1>2. unwrite(b, len) = f
  BY DEF unwrite
<1>3. len \in Nat /\ len <= w - r /\ w - len \in Nat
  BY <1>0, <1>1
<1>4. /\ f \in [store : Seq(Byte), read_index : Nat, write_index : Nat]
      /\ f.store = b.store /\ f.read_index = r /\ f.write_index = w - len
  BY <1>0, <1>3
<1> HIDE DEF f, s
<1>5. BufferOK(f)
  BY <1>0, <1>3, <1>4 DEF BufferOK
<1>6. /\ rest \in Seq(Byte) /\ Len(rest) = w - r - len
      /\ \A i \in 1..w - r - len : rest[i] = s[i]
  <2>1. Len(s) - len \in Nat /\ Len(s) - len <= Len(s) /\ 0 + 1 = 1
    BY <1>0, <1>1, <1>3
  <2>2. /\ rest \in Seq(Byte) /\ Len(rest) = (Len(s) - len) - 0
        /\ \A i \in 1..(Len(s) - len) - 0 : rest[i] = s[0 + i]
    BY <1>1, <2>1, PartOf
  <2> HIDE DEF rest
  <2> QED
    BY <1>0, <1>1, <1>3, <2>2
<1> HIDE DEF rest
<1>7. \A i \in 1..Len(rest) : f.store[f.read_index + i] = rest[i]
  BY <1>0, <1>1, <1>3, <1>4, <1>6
<1>8. Len(rest) = f.write_index - f.read_index
  BY <1>0, <1>3, <1>4, <1>6
<1>9. to_string(f) = rest
  BY <1>5, <1>6, <1>7, <1>8, IsString
<1> QED
  BY <1>2, <1>5, <1>9 DEF rest, s

\* Buffer::shrink().
LEMMA ShrinkBytes ==
  ASSUME NEW b, BufferOK(b), NEW reserve \in Nat
  PROVE  BufferOK(shrink(b, reserve)) /\ to_string(shrink(b, reserve)) = to_string(b)
<1> DEFINE s == to_string(b)
           e == ensure_writeable_bytes(NewBuffer, readable_bytes(b) + reserve)
<1>1. s \in Seq(Byte)
  BY ReadableBytes
<1>2. readable_bytes(b) + reserve \in Nat
  BY DEF BufferOK, readable_bytes
<1>3. BufferOK(e) /\ to_string(e) = <<>>
  BY <1>2, NewOK, EnsureOK
<1>4. shrink(b, reserve) = append(e, s)
  BY DEF shrink
<1> HIDE DEF e, s
<1>5. BufferOK(append(e, s)) /\ to_string(append(e, s)) = <<>> \o s
  BY <1>1, <1>3, AppendBytes
<1>6. <<>> \o s = s
  BY <1>1, ConcatEmptySeq
<1> QED
  BY <1>4, <1>5, <1>6 DEF s

\* Buffer::peek_int_64() and its like see the first readable bytes.
LEMMA PeekBytes ==
  ASSUME NEW b, BufferOK(b), NEW w \in Nat, NEW h \in Seq(Byte), NEW s \in Seq(Byte), Len(h) = w,
         to_string(b) = h \o s
  PROVE  SubSeq(b.store, b.read_index + 1, b.read_index + w) = h
<1> DEFINE r == b.read_index
           peek == SubSeq(b.store, r + 1, r + w)
<1>1. /\ b.store \in Seq(Byte) /\ r \in Nat /\ b.write_index \in Nat
      /\ b.write_index <= Len(b.store) /\ Len(b.store) \in Nat
  BY DEF BufferOK
<1>2. /\ Len(h \o s) = w + Len(s) /\ Len(s) \in Nat
      /\ \A i \in 1..w : (h \o s)[i] = h[i]
  <2>1. Len(s) \in Nat /\ Len(h) \in Nat
    BY LenProperties
  <2>2. Len(h \o s) = Len(h) + Len(s)
    BY ConcatProperties
  <2>3. \A i \in 1..Len(h) + Len(s) : (h \o s)[i] = IF i <= Len(h) THEN h[i] ELSE s[i - Len(h)]
    BY ConcatProperties
  <2> QED
    BY <2>1, <2>2, <2>3
<1>3. /\ Len(h \o s) = b.write_index - r
      /\ \A i \in 1..b.write_index - r : (h \o s)[i] = b.store[r + i]
  <2> DEFINE t == h \o s
  <2>1. to_string(b) = t
    OBVIOUS
  <2> HIDE DEF t
  <2>2. Len(t) = b.write_index - r /\ \A i \in 1..b.write_index - r : t[i] = b.store[r + i]
    BY <2>1, ReadableBytes
  <2> QED
    BY <2>2 DEF t
<1> DEFINE e == r + w
<1>4. e \in Nat /\ r \in Nat /\ r <= e /\ e <= Len(b.store) /\ e - r = w /\ w <= b.write_index - r
  BY <1>1, <1>2, <1>3
<1>5. /\ peek \in Seq(Byte) /\ Len(peek) = w
      /\ \A i \in 1..w : peek[i] = b.store[r + i]
  <2> DEFINE st == b.store
  <2>1. st \in Seq(Byte) /\ e <= Len(st) /\ peek = SubSeq(st, r + 1, e)
    BY <1>1, <1>4
  <2> HIDE DEF peek, r, e, st
  <2>2. /\ peek \in Seq(Byte) /\ Len(peek) = e - r
        /\ \A i \in 1..e - r : peek[i] = st[r + i]
    BY <1>4, <2>1, PartOf
  <2> QED
    BY <1>4, <2>2 DEF st
<1> HIDE DEF peek, r, e
<1>6. ASSUME NEW i \in 1..w PROVE peek[i] = h[i]
  <2>1. i \in 1..b.write_index - r
    BY <1>1, <1>4
  <2> QED
    BY <1>2, <1>3, <1>5, <2>1
<1>7. Len(peek) = Len(h)
  BY <1>5
<1>8. peek = h
  BY <1>5, <1>6, <1>7, SeqEqual
<1> QED
  BY <1>8 DEF peek, r

\* An integer that was prepended, or appended to an empty buffer, is read back.
LEMMA IntegersReadBack ==
  ASSUME NEW b, BufferOK(b), NEW w \in Width, NEW x \in 0..TwoTo[w] - 1
  PROVE  /\ w <= b.read_index => peek_int(prepend_int(b, x, w), w) = x
         /\ to_string(b) = <<>> => read_int(append_int(b, x, w), w).value = x
<1> DEFINE h == host_to_network(x, w)
           s == to_string(b)
<1>1. h \in Seq(Byte) /\ Len(h) = w /\ w \in Nat
  BY DataCells
<1>2. network_to_host(h) = x
  BY RoundTrip
<1>3. s \in Seq(Byte)
  BY ReadableBytes
<1>4. ASSUME w <= b.read_index PROVE peek_int(prepend_int(b, x, w), w) = x
  <2> DEFINE p == prepend(b, h)
  <2>1. prepend_int(b, x, w) = p
    BY DEF prepend_int
  <2> HIDE DEF h, s
  <2>2. BufferOK(p) /\ to_string(p) = h \o s
    BY <1>1, <1>4, PrependBytes DEF s
  <2> HIDE DEF p
  <2>3. SubSeq(p.store, p.read_index + 1, p.read_index + w) = h
    BY <1>1, <1>3, <2>2, PeekBytes
  <2> QED
    BY <1>2, <2>1, <2>3 DEF peek_int
<1>5. ASSUME s = <<>> PROVE read_int(append_int(b, x, w), w).value = x
  <2> DEFINE p == append(b, h)
  <2>1. append_int(b, x, w) = p
    BY DEF append_int
  <2> HIDE DEF h, s
  <2>2. BufferOK(p) /\ to_string(p) = s \o h
    BY <1>1, AppendBytes DEF s
  <2>3. s \o h = h \o s
    BY <1>1, <1>3, <1>5, ConcatEmptySeq
  <2> HIDE DEF p
  <2>4. SubSeq(p.store, p.read_index + 1, p.read_index + w) = h
    BY <1>1, <1>3, <2>2, <2>3, PeekBytes
  <2> QED
    BY <1>2, <2>1, <2>4 DEF read_int, peek_int
<1> QED
  BY <1>4, <1>5

BufferInv == BufferOK(buf) /\ bytes = to_string(buf)

\* Every method preserves the invariant of the buffer.
LEMMA BufferStep == BufferInv /\ [BufferNext]_bufferVars => BufferInv'
<1> SUFFICES ASSUME BufferInv, [BufferNext]_bufferVars PROVE BufferInv'
  OBVIOUS
<1> USE DEF BufferInv
<1>0. BufferOK(buf) /\ bytes = to_string(buf) /\ bytes \in Seq(Byte)
  BY ReadableBytes
<1>1. CASE call_append
  BY <1>0, <1>1, DataCells, AppendBytes DEF call_append
<1>2. CASE call_append_int
  BY <1>0, <1>2, DataCells, AppendBytes DEF call_append_int, append_int
<1>3. CASE call_retrieve
  <2>1. \A len \in 0..MaxStore : len \in Nat
    BY BufferAssumption
  <2> QED
    BY <1>0, <1>3, <2>1, RetrieveBytes DEF call_retrieve
<1>4. CASE call_read_int
  <2>1. \A w \in Width : w \in Nat
    BY BufferAssumption DEF Width
  <2> QED
    BY <1>0, <1>4, <2>1, RetrieveBytes DEF call_read_int, read_int
<1>5. CASE call_prepend
  <2>0. PICK w \in Width : \E x \in 0..TwoTo[w] - 1 :
          /\ w <= buf.read_index /\ buf' = prepend(buf, host_to_network(x, w))
          /\ bytes' = host_to_network(x, w) \o bytes
    BY <1>5 DEF call_prepend, prepend_int
  <2>1. PICK x \in 0..TwoTo[w] - 1 :
          /\ w <= buf.read_index /\ buf' = prepend(buf, host_to_network(x, w))
          /\ bytes' = host_to_network(x, w) \o bytes
    BY <2>0
  <2>2. host_to_network(x, w) \in Seq(Byte) /\ Len(host_to_network(x, w)) <= buf.read_index
    BY <2>1, DataCells
  <2> QED
    BY <1>0, <2>1, <2>2, PrependBytes
<1>6. CASE call_unwrite
  BY <1>0, <1>6, UnwriteBytes DEF call_unwrite
<1>7. CASE call_shrink
  <2>1. \A reserve \in 0..MaxChunk : reserve \in Nat
    BY BufferAssumption
  <2> QED
    BY <1>0, <1>7, <2>1, ShrinkBytes DEF call_shrink
<1>8. CASE call_read_fd
  BY <1>0, <1>8, DataCells, ReadBytes DEF call_read_fd
<1>9. CASE UNCHANGED bufferVars
  BY <1>0, <1>9 DEF bufferVars
<1> QED
  BY <1>1, <1>2, <1>3, <1>4, <1>5, <1>6, <1>7, <1>8, <1>9 DEF BufferNext

\* Whatever methods of Buffer are called, in whatever order and with whatever sizes,
\* the readable bytes are those that were put in and not yet taken out, and an
\* integer of any width is read back as it was written.
THEOREM BufferKeepsBytes == BufferSpec => []BufferHoldsBytes
<1>1. BufferInit => BufferInv
  BY NewOK DEF BufferInit, BufferInv
<1>2. BufferInv => BufferHoldsBytes
  <2> SUFFICES ASSUME BufferInv PROVE BufferHoldsBytes
    OBVIOUS
  <2>1. BytesKept
    BY DEF BufferInv, BufferOK, BytesKept
  <2>2. BufferOK(buf) /\ bytes = to_string(buf)
    BY DEF BufferInv
  <2> QED
    BY <2>1, <2>2, IntegersReadBack DEF BufferHoldsBytes
<1> QED
  BY <1>1, <1>2, BufferStep, PTL DEF BufferSpec

(***************************************************************************)
(* The HTTP server.  The parser's loop and the reference are both runs of  *)
(* a step function, and are compared by induction: a complete line takes   *)
(* both of them to the same place (TurnServes), so that parseRequest()     *)
(* stops where the reference is (ParseResult), and a message keeps the     *)
(* invariant HttpInv: from where the parser is, the reference goes over    *)
(* the bytes in the buffer to where it is after all that arrived.          *)
(***************************************************************************)
\* The values of an HttpContext, of an answer and of the reference's state.
Context == [state : {"kExpectRequestLine", "kExpectHeaders", "kGotAll"},
            version : {""} \cup RequestLine,
            connection : {"", "close", "keepalive", "unknown"}]
Response == {"400"} \cup (({""} \cup RequestLine) \X BOOLEAN)
Acc == [line : Seq(Byte), ctx : Context, out : Seq(Response), open : BOOLEAN]

\* What a line does to the parser's state has the type of one.
LEMMA ContextTypes ==
  ASSUME NEW c \in Context, NEW line \in Seq(Byte)
  PROVE  /\ addHeader(c, line) \in Context /\ addHeader(c, line).state = c.state
         /\ processRequestLine(line)
              => [c EXCEPT !.state = "kExpectHeaders", !.version = line[1]] \in Context
         /\ NewContext \in Context /\ closes(c) \in BOOLEAN /\ Answer(c) \in Response
<1>1. addHeader(c, line) \in Context /\ addHeader(c, line).state = c.state
  <2>1. CASE line[1] \notin {"close", "keepalive"}
    BY <2>1 DEF addHeader
  <2>2. CASE line[1] \in {"close", "keepalive"}
    <3> DEFINE v == IF ToSet(Tail(line)) \subseteq {"cr", "lf"} THEN line[1] ELSE "unknown"
    <3>1. v \in {"", "close", "keepalive", "unknown"}
      BY <2>2
    <3>2. addHeader(c, line) = [c EXCEPT !.connection = v]
      BY <2>2 DEF addHeader
    <3> HIDE DEF v
    <3> QED
      BY <3>1, <3>2 DEF Context
  <2> QED
    BY <2>1, <2>2
<1>2. processRequestLine(line)
        => [c EXCEPT !.state = "kExpectHeaders", !.version = line[1]] \in Context
  <2> SUFFICES ASSUME processRequestLine(line)
               PROVE  [c EXCEPT !.state = "kExpectHeaders", !.version = line[1]] \in Context
    OBVIOUS
  <2> DEFINE v == line[1]
  <2>1. v \in {""} \cup RequestLine
    BY DEF processRequestLine
  <2> HIDE DEF v
  <2>2. [c EXCEPT !.state = "kExpectHeaders", !.version = v] \in Context
    BY <2>1 DEF Context
  <2> QED
    BY <2>2 DEF v
<1>3. NewContext \in Context
  BY DEF NewContext, Context
<1>4. closes(c) \in BOOLEAN
  BY DEF closes
<1>5. Answer(c) \in Response
  <2>1. c.version \in {""} \cup RequestLine
    BY DEF Context
  <2> QED
    BY <1>4, <2>1 DEF Answer, Response
<1> QED
  BY <1>1, <1>2, <1>3, <1>4, <1>5

\* The reference at the start of a line.
LEMMA StartType ==
  ASSUME NEW c \in Context, NEW out \in Seq(Response), NEW isOpen \in BOOLEAN
  PROVE  /\ Start(c, out, isOpen) \in Acc
         /\ Start(c, out, isOpen).line = <<>> /\ Start(c, out, isOpen).ctx = c
         /\ Start(c, out, isOpen).out = out /\ Start(c, out, isOpen).open = isOpen
  BY DEF Start, Acc

\* A line obeyed leads to the start of the next.
LEMMA ObeyType ==
  ASSUME NEW acc \in Acc, NEW line \in Seq(Byte)
  PROVE  Obey(acc, line) \in Acc /\ Obey(acc, line).line = <<>>
<1> DEFINE c == acc.ctx
<1>1. c \in Context /\ acc.out \in Seq(Response) /\ acc.open \in BOOLEAN
  BY DEF Acc
<1>2. "400" \in Response /\ Answer(c) \in Response /\ (~closes(c)) \in BOOLEAN /\ NewContext \in Context
  <2>1. "400" \in Response
    BY DEF Response
  <2>2. Answer(c) \in Response /\ closes(c) \in BOOLEAN /\ NewContext \in Context
    BY <1>1, ContextTypes
  <2> QED
    BY <2>1, <2>2
<1>3. Append(acc.out, "400") \in Seq(Response) /\ Append(acc.out, Answer(c)) \in Seq(Response)
  BY <1>1, <1>2
<1>4. CASE ~acc.open
  BY <1>1, <1>4, StartType DEF Obey
<1>5. CASE acc.open /\ c.state = "kExpectRequestLine" /\ processRequestLine(line)
  <2> DEFINE d == [c EXCEPT !.state = "kExpectHeaders", !.version = line[1]]
  <2>1. Obey(acc, line) = Start(d, acc.out, TRUE)
    BY <1>5 DEF Obey
  <2>2. d \in Context
    BY <1>1, <1>5, ContextTypes
  <2> HIDE DEF d
  <2> QED
    BY <1>1, <2>1, <2>2 DEF Start, Acc
<1>6. CASE acc.open /\ c.state = "kExpectRequestLine" /\ ~processRequestLine(line)
  BY <1>1, <1>3, <1>6, StartType DEF Obey
<1>7. CASE acc.open /\ c.state # "kExpectRequestLine" /\ HasColon(line)
  <2>1. Obey(acc, line) = Start(addHeader(c, line), acc.out, TRUE)
    BY <1>7 DEF Obey
  <2>2. addHeader(c, line) \in Context
    BY <1>1, ContextTypes
  <2> QED
    BY <1>1, <2>1, <2>2 DEF Start, Acc
<1>8. CASE acc.open /\ c.state # "kExpectRequestLine" /\ ~HasColon(line)
  <2> DEFINE o == Append(acc.out, Answer(c))
             q == ~closes(c)
  <2>1. Obey(acc, line) = Start(NewContext, o, q)
    BY <1>8 DEF Obey
  <2>2. NewContext \in Context /\ o \in Seq(Response) /\ q \in BOOLEAN
    BY <1>2, <1>3
  <2> HIDE DEF o, q
  <2> QED
    BY <2>1, <2>2, StartType
<1> QED
  BY <1>1, <1>4, <1>5, <1>6, <1>7, <1>8

\* The reference after a symbol.
LEMMA ServeType ==
  ASSUME NEW acc \in Acc, NEW symbol \in Byte
  PROVE  Serve(acc, symbol) \in Acc
<1>1. acc.line \in Seq(Byte)
  BY DEF Acc
<1>2. CASE symbol = "lf" /\ acc.line # <<>> /\ Last(acc.line) = "cr"
  <2>1. Front(acc.line) \in Seq(Byte)
    <3> DEFINE l == acc.line
    <3>1. l \in Seq(Byte) /\ Len(l) \in Nat /\ Len(l) > 0
      BY <1>1, <1>2
    <3> HIDE DEF l
    <3>2. SubSeq(l, 1, Len(l) - 1) \in Seq(Byte)
      BY <3>1
    <3> QED
      BY <3>2 DEF Front, l
  <2> QED
    BY <1>2, <2>1, ObeyType DEF Serve
<1>3. CASE ~(symbol = "lf" /\ acc.line # <<>> /\ Last(acc.line) = "cr")
  <2>1. Serve(acc, symbol) = [acc EXCEPT !.line = Append(acc.line, symbol)]
    BY <1>3 DEF Serve
  <2>2. Append(acc.line, symbol) \in Seq(Byte)
    BY <1>1
  <2> QED
    BY <2>1, <2>2 DEF Acc
<1> QED
  BY <1>2, <1>3

\* Two sequences of values that begin alike and go on alike are alike.
LEMMA RunsAgree ==
  ASSUME NEW n \in Nat, NEW f, NEW g, f[0] = g[0],
         \A k \in 0..n - 1 : f[k] = g[k] => f[k + 1] = g[k + 1]
  PROVE  \A k \in 0..n : f[k] = g[k]
<1> DEFINE P == {k \in 0..n : f[k] = g[k]}
<1>1. 0 \in P
  OBVIOUS
<1>2. \A k \in 0..n - 1 : k \in P => k + 1 \in P
  OBVIOUS
<1>3. 0..n \subseteq P
  <2> HIDE DEF P
  <2> QED
    BY <1>1, <1>2, InductionUpTo
<1> QED
  BY <1>3

\* The reference symbol by symbol.
LEMMA ServedRun ==
  ASSUME NEW acc \in Acc, NEW text \in Seq(Byte)
  PROVE  \E run \in [0..Len(text) -> Acc] :
           /\ run[0] = acc
           /\ \A k \in 0..Len(text) - 1 : run[k + 1] = Serve(run[k], text[k + 1])
           /\ Served(acc, text) = run[Len(text)]
<1> DEFINE n == Len(text)
           F == [k \in 1..n |-> [a \in Acc |-> Serve(a, text[k])]]
           Rec(f) == f = [k \in 0..n |-> IF k = 0 THEN acc ELSE Serve(f[k - 1], text[k])]
           run == CHOOSE g : Rec(g)
<1>0. n \in Nat /\ \A k \in 1..n : text[k] \in Byte
  OBVIOUS
<1>1. Served(acc, text) = run[n]
  BY DEF Served
<1> HIDE DEF n
<1>2. F \in [1..n -> [Acc -> Acc]]
  BY <1>0, ServeType
<1>3. PICK f \in [0..n -> Acc] : f[0] = acc /\ \A k \in 1..n : f[k] = F[k][f[k - 1]]
  <2>1. n \in Nat
    BY <1>0
  <2> HIDE DEF F
  <2> QED
    BY <1>2, <2>1, RecursionUpTo, SMTT(60)
<1>4. Rec(f)
  <2>1. ASSUME NEW k \in 1..n PROVE f[k] = Serve(f[k - 1], text[k])
    <3>1. f[k - 1] \in Acc /\ f[k] = F[k][f[k - 1]]
      <4> HIDE DEF F
      <4> QED
        BY <1>0, <1>3
    <3> QED
      BY <3>1
  <2> QED
    BY <1>0, <1>3, <2>1
<1>5. Rec(run)
  <2> HIDE DEF Rec
  <2> QED
    BY <1>4
<1> HIDE DEF run
<1>6. run[0] = acc /\ \A k \in 1..n : run[k] = Serve(run[k - 1], text[k])
  BY <1>0, <1>5
<1>7. ASSUME NEW k \in 0..n - 1 PROVE run[k + 1] = Serve(run[k], text[k + 1])
  <2>1. k + 1 \in 1..n /\ (k + 1) - 1 = k
    BY <1>0
  <2> QED
    BY <1>6, <2>1
<1>8. \A k \in 0..n : run[k] \in Acc
  <2> DEFINE P == {k \in 0..n : run[k] \in Acc}
  <2>1. 0 \in P
    BY <1>0, <1>6
  <2>2. ASSUME NEW k \in 0..n - 1, k \in P PROVE k + 1 \in P
    <3>1. k + 1 \in 1..n /\ run[k] \in Acc
      BY <1>0, <2>2
    <3>2. text[k + 1] \in Byte /\ run[k + 1] = Serve(run[k], text[k + 1])
      BY <1>0, <1>7, <3>1
    <3>3. run[k + 1] \in Acc
      BY <3>1, <3>2, ServeType
    <3> QED
      BY <1>0, <3>1, <3>3
  <2>3. 0..n \subseteq P
    <3> HIDE DEF P
    <3> QED
      BY <1>0, <2>1, <2>2, InductionUpTo
  <2> QED
    BY <2>3
<1>9. run \in [0..n -> Acc]
  <2>1. run = [k \in 0..n |-> run[k]]
    BY <1>5
  <2> QED
    BY <1>8, <2>1
<1> QED
  BY <1>1, <1>6, <1>7, <1>9 DEF n

\* The reference after a text.
LEMMA ServedType ==
  ASSUME NEW acc \in Acc, NEW text \in Seq(Byte)
  PROVE  Served(acc, text) \in Acc
<1>1. PICK run \in [0..Len(text) -> Acc] : Served(acc, text) = run[Len(text)]
  BY ServedRun
<1>2. Len(text) \in 0..Len(text)
  OBVIOUS
<1> QED
  BY <1>1, <1>2

\* The reference may be stopped and resumed anywhere.
LEMMA ServedConcat ==
  ASSUME NEW acc \in Acc, NEW s \in Seq(Byte), NEW t \in Seq(Byte)
  PROVE  Served(acc, s \o t) = Served(Served(acc, s), t)
<1> DEFINE m == Len(s)
           n == Len(t)
           st == s \o t
           mid == Served(acc, s)
<1>1. /\ m \in Nat /\ n \in Nat /\ st \in Seq(Byte) /\ Len(st) = m + n
      /\ \A i \in 1..m : st[i] = s[i]
      /\ \A i \in 1..n : st[m + i] = t[i]
  <2>1. m \in Nat /\ n \in Nat
    BY LenProperties
  <2>2. st \in Seq(Byte) /\ Len(st) = m + n
    BY ConcatProperties
  <2>3. \A i \in 1..m + n : st[i] = IF i <= m THEN s[i] ELSE t[i - m]
    BY ConcatProperties
  <2> HIDE DEF st, m, n
  <2>4. \A i \in 1..m : i \in 1..m + n /\ i <= m
    BY <2>1
  <2>5. \A i \in 1..n : m + i \in 1..m + n /\ ~(m + i <= m) /\ (m + i) - m = i
    BY <2>1
  <2> QED
    BY <2>1, <2>2, <2>3, <2>4, <2>5
<1>2. mid \in Acc
  BY ServedType
<1> HIDE DEF st, mid
<1>3. PICK f \in [0..m -> Acc] :
        /\ f[0] = acc /\ \A k \in 0..m - 1 : f[k + 1] = Serve(f[k], s[k + 1])
        /\ mid = f[m]
  BY ServedRun DEF mid
<1>4. PICK g \in [0..n -> Acc] :
        /\ g[0] = mid /\ \A k \in 0..n - 1 : g[k + 1] = Serve(g[k], t[k + 1])
        /\ Served(mid, t) = g[n]
  BY <1>2, ServedRun
<1>5. PICK h \in [0..Len(st) -> Acc] :
        /\ h[0] = acc /\ \A k \in 0..Len(st) - 1 : h[k + 1] = Serve(h[k], st[k + 1])
        /\ Served(acc, st) = h[Len(st)]
  BY <1>1, ServedRun
<1> HIDE DEF m, n
<1>6. \A k \in 0..m : h[k] = f[k]
  <2>1. ASSUME NEW k \in 0..m - 1, h[k] = f[k] PROVE h[k + 1] = f[k + 1]
    <3>1. k \in 0..Len(st) - 1 /\ k + 1 \in 1..m
      BY <1>1
    <3>2. st[k + 1] = s[k + 1]
      BY <1>1, <3>1
    <3> QED
      BY <1>3, <1>5, <2>1, <3>1, <3>2
  <2>2. h[0] = f[0] /\ m \in Nat
    BY <1>1, <1>3, <1>5
  <2> QED
    BY <2>1, <2>2, RunsAgree
<1> DEFINE h2 == [k \in 0..n |-> h[m + k]]
<1>7. \A k \in 0..n : h2[k] = g[k]
  <2>1. ASSUME NEW k \in 0..n - 1, h2[k] = g[k] PROVE h2[k + 1] = g[k + 1]
    <3>1. k \in 0..n /\ k + 1 \in 0..n /\ k + 1 \in 1..n
      BY <1>1
    <3>2. h2[k] = h[m + k] /\ h2[k + 1] = h[m + (k + 1)]
      BY <3>1
    <3>3. m + k \in 0..Len(st) - 1 /\ (m + k) + 1 = m + (k + 1)
      BY <1>1
    <3>4. h[m + (k + 1)] = Serve(h[m + k], st[m + (k + 1)])
      BY <1>5, <3>3
    <3>5. st[m + (k + 1)] = t[k + 1]
      BY <1>1, <3>1
    <3>6. g[k + 1] = Serve(g[k], t[k + 1])
      BY <1>4
    <3> HIDE DEF h2
    <3> QED
      BY <2>1, <3>2, <3>4, <3>5, <3>6
  <2>2. h2[0] = g[0] /\ n \in Nat
    <3>1. 0 \in 0..n /\ m + 0 = m /\ m \in 0..m
      BY <1>1
    <3>2. h2[0] = h[m]
      BY <3>1
    <3> HIDE DEF h2
    <3> QED
      BY <1>1, <1>3, <1>4, <1>6, <3>1, <3>2
  <2> HIDE DEF h2
  <2> QED
    BY <2>1, <2>2, RunsAgree
<1>8. h[m + n] = g[n]
  <2>1. n \in 0..n
    BY <1>1
  <2>2. h2[n] = h[m + n]
    BY <2>1
  <2> HIDE DEF h2
  <2> QED
    BY <1>7, <2>1, <2>2
<1> QED
  BY <1>1, <1>4, <1>5, <1>8 DEF st, mid

\* Buffer::find_CRLF() finds the first CRLF.
LEMMA FindsLine ==
  ASSUME NEW text \in Seq(Byte), find_CRLF(text) # -1
  PROVE  LET len == find_CRLF(text)
         IN /\ len \in Nat /\ len + 2 <= Len(text)
            /\ text[len + 1] = "cr" /\ text[len + 2] = "lf"
            /\ \A i \in 1..len : ~(text[i] = "cr" /\ text[i + 1] = "lf")
<1> DEFINE ends == {i \in 1..Len(text) : ends_line(text, i)}
           first == CHOOSE i \in ends : \A j \in ends : i <= j
<1>1. ends # {} /\ find_CRLF(text) = first - 1
  BY DEF find_CRLF
<1>2. Len(text) \in Nat
  OBVIOUS
<1>3. first \in ends /\ \A j \in ends : first <= j
  <2>1. ends \subseteq Nat
    BY <1>2
  <2> HIDE DEF ends
  <2>2. \E i \in ends : \A j \in ends : i <= j
    BY <1>1, <2>1, LeastNumber
  <2> QED
    BY <2>2
<1> HIDE DEF first
<1>4. /\ first \in 1..Len(text) /\ first < Len(text)
      /\ text[first] = "cr" /\ text[first + 1] = "lf"
  BY <1>3 DEF ends_line
<1>5. ASSUME NEW i \in 1..first - 1, text[i] = "cr", text[i + 1] = "lf" PROVE FALSE
  <2>1. i \in 1..Len(text) /\ i < Len(text) /\ ~(first <= i)
    BY <1>2, <1>4
  <2>2. i \in ends
    BY <1>5, <2>1 DEF ends_line
  <2> QED
    BY <1>3, <2>1, <2>2
<1>6. first - 1 \in Nat /\ (first - 1) + 2 <= Len(text) /\ (first - 1) + 1 = first /\ (first - 1) + 2 = first + 1
  BY <1>2, <1>4
<1> QED
  BY <1>1, <1>4, <1>5, <1>6

\* To obey a line the reference does not look at the symbols it has kept.
LEMMA ObeyAny ==
  ASSUME NEW acc \in Acc, NEW l, NEW line \in Seq(Byte)
  PROVE  Obey([acc EXCEPT !.line = l], line) = Obey(acc, line)
<1> DEFINE a == [acc EXCEPT !.line = l]
<1>1. a.ctx = acc.ctx /\ a.out = acc.out /\ a.open = acc.open
  BY DEF Acc
<1> HIDE DEF a
<1>2. Obey(a, line) = Obey(acc, line)
  BY <1>1 DEF Obey
<1> QED
  BY <1>2 DEF a

\* Over a line and its end the reference obeys the line.
LEMMA ServedHead ==
  ASSUME NEW acc \in Acc, acc.line = <<>>, NEW head \in Seq(Byte), NEW len \in Nat,
         Len(head) = len + 2, head[len + 1] = "cr", head[len + 2] = "lf",
         \A i \in 1..len : ~(head[i] = "cr" /\ head[i + 1] = "lf")
  PROVE  Served(acc, head) = Obey(acc, SubSeq(head, 1, len))
<1> DEFINE part(k) == SubSeq(head, 1, k)
           kept(k) == [acc EXCEPT !.line = part(k)]
<1>0. /\ part(0) = <<>>
      /\ \A k \in 0..len + 1 : /\ part(k) \in Seq(Byte) /\ Len(part(k)) = k
                               /\ part(k + 1) = Append(part(k), head[k + 1])
                               /\ k # 0 => part(k)[k] = head[k]
  <2>1. part(0) = <<>>
    BY SubSeqEmpty
  <2>2. ASSUME NEW k \in 0..len + 1
        PROVE  /\ part(k) \in Seq(Byte) /\ Len(part(k)) = k
               /\ part(k + 1) = Append(part(k), head[k + 1])
               /\ k # 0 => part(k)[k] = head[k]
    <3>1. 0 \in Nat /\ k \in Nat /\ k + 1 \in Nat /\ k <= Len(head) /\ k + 1 <= Len(head)
      OBVIOUS
    <3>2. /\ part(k) \in Seq(Byte) /\ Len(part(k)) = k
          /\ \A i \in 1..k : part(k)[i] = head[i]
      BY <3>1
    <3>3. /\ part(k + 1) \in Seq(Byte) /\ Len(part(k + 1)) = k + 1
          /\ \A i \in 1..k + 1 : part(k + 1)[i] = head[i]
      BY <3>1
    <3> DEFINE p == part(k)
               q == part(k + 1)
               r == Append(p, head[k + 1])
    <3>4. head[k + 1] \in Byte
      BY <3>1
    <3> HIDE DEF part
    <3>5. r \in Seq(Byte) /\ Len(r) = k + 1 /\ r[k + 1] = head[k + 1] /\ \A i \in 1..k : r[i] = p[i]
      BY <3>1, <3>2, <3>4, AppendProperties
    <3> HIDE DEF r
    <3>6. \A i \in 1..k + 1 : q[i] = r[i]
      <4>1. \A i \in 1..k + 1 : i \in 1..k \/ i = k + 1
        BY <3>1
      <4> QED
        BY <3>1, <3>2, <3>3, <3>5, <4>1
    <3>7. q = r
      BY <3>3, <3>5, <3>6, SeqEqual
    <3>8. k # 0 => k \in 1..k
      BY <3>1
    <3> QED
      BY <3>2, <3>7, <3>8 DEF r
  <2> QED
    BY <2>1, <2>2
<1> HIDE DEF part
<1>1. PICK run \in [0..Len(head) -> Acc] :
        /\ run[0] = acc
        /\ \A k \in 0..Len(head) - 1 : run[k + 1] = Serve(run[k], head[k + 1])
        /\ Served(acc, head) = run[Len(head)]
  BY ServedRun
<1> DEFINE g == [k \in 0..len + 1 |-> kept(k)]
<1>2. \A k \in 0..len + 1 : run[k] = g[k]
  <2>1. run[0] = g[0] /\ len + 1 \in Nat
    <3>1. kept(0) = acc
      BY <1>0 DEF Acc
    <3>2. 0 \in 0..len + 1
      OBVIOUS
    <3> QED
      BY <1>1, <3>1, <3>2
  <2>2. ASSUME NEW k \in 0..(len + 1) - 1, run[k] = g[k] PROVE run[k + 1] = g[k + 1]
    <3>1. k \in 0..Len(head) - 1 /\ k \in 0..len + 1 /\ k + 1 \in 0..len + 1
      OBVIOUS
    <3>2. g[k] = kept(k) /\ g[k + 1] = kept(k + 1)
      BY <3>1
    <3>3. run[k + 1] = Serve(kept(k), head[k + 1])
      BY <1>1, <2>2, <3>1, <3>2
    <3>4. kept(k).line = part(k) /\ kept(k) \in Acc
      BY <1>0, <3>1 DEF Acc
    <3>5. ~(head[k + 1] = "lf" /\ part(k) # <<>> /\ Last(part(k)) = "cr")
      <4>1. CASE k = 0
        BY <1>0, <4>1
      <4>2. CASE k # 0
        <5>1. k \in 1..len
          BY <4>2
        <5>2. Len(part(k)) = k /\ part(k)[k] = head[k]
          BY <1>0, <3>1, <4>2
        <5>3. Last(part(k)) = head[k]
          BY <5>2 DEF Last
        <5> QED
          BY <5>1, <5>3
      <4> QED
        BY <4>1, <4>2
    <3>6. Serve(kept(k), head[k + 1]) = [kept(k) EXCEPT !.line = Append(part(k), head[k + 1])]
      <4> HIDE DEF kept
      <4> QED
        BY <3>4, <3>5 DEF Serve
    <3>7. [kept(k) EXCEPT !.line = Append(part(k), head[k + 1])] = kept(k + 1)
      BY <1>0, <3>1 DEF Acc
    <3> HIDE DEF g, kept
    <3> QED
      BY <3>2, <3>3, <3>6, <3>7
  <2> DEFINE n == len + 1
  <2> HIDE DEF g, n
  <2> DEFINE P == {k \in 0..n : run[k] = g[k]}
  <2>3. n \in Nat /\ 0 \in P
    BY <2>1 DEF n
  <2>4. \A k \in 0..n - 1 : k \in P => k + 1 \in P
    BY <2>2 DEF n
  <2>5. 0..n \subseteq P
    <3> HIDE DEF P
    <3> QED
      BY <2>3, <2>4, InductionUpTo
  <2>6. \A k \in 0..n : run[k] = g[k]
    BY <2>5
  <2> QED
    BY <2>6 DEF n
<1>3. run[len + 1] = kept(len + 1)
  <2>1. len + 1 \in 0..len + 1
    OBVIOUS
  <2>2. g[len + 1] = kept(len + 1)
    BY <2>1
  <2> HIDE DEF g, kept
  <2> QED
    BY <1>2, <2>1, <2>2
<1>4. run[len + 2] = Serve(kept(len + 1), "lf")
  <2>1. len + 1 \in 0..Len(head) - 1 /\ (len + 1) + 1 = len + 2
    OBVIOUS
  <2> HIDE DEF kept
  <2> QED
    BY <1>1, <1>3, <2>1
<1>5. kept(len + 1).line = part(len + 1)
  BY DEF Acc
<1>6. part(len + 1) # <<>> /\ Last(part(len + 1)) = "cr"
  <2>1. len + 1 \in 0..len + 1 /\ len + 1 # 0
    OBVIOUS
  <2>2. Len(part(len + 1)) = len + 1 /\ part(len + 1)[len + 1] = "cr"
    BY <1>0, <2>1
  <2>3. part(len + 1) # <<>>
    BY <2>1, <2>2
  <2> QED
    BY <2>2, <2>3 DEF Last
<1>7. Front(part(len + 1)) = part(len)
  <2> DEFINE p == part(len + 1)
             q == part(len)
  <2>1. p \in Seq(Byte) /\ Len(p) = len + 1 /\ q \in Seq(Byte) /\ Len(q) = len /\ p = Append(q, head[len + 1])
    <3>1. len \in 0..len + 1 /\ len + 1 \in 0..len + 1
      OBVIOUS
    <3> QED
      BY <1>0, <3>1
  <2>2. head[len + 1] \in Byte
    OBVIOUS
  <2>3. Front(p) = SubSeq(p, 1, len)
    BY <2>1 DEF Front
  <2> HIDE DEF p, q
  <2>4. SubSeq(Append(q, head[len + 1]), 1, len) = q
    BY <2>1, <2>2
  <2> QED
    BY <2>1, <2>3, <2>4 DEF p, q
<1>8. Serve(kept(len + 1), "lf") = Obey(kept(len + 1), part(len))
  <2> HIDE DEF kept
  <2> QED
    BY <1>5, <1>6, <1>7 DEF Serve
<1>9. Obey(kept(len + 1), part(len)) = Obey(acc, part(len))
  <2>1. len \in 0..len + 1
    OBVIOUS
  <2>2. part(len) \in Seq(Byte)
    BY <1>0, <2>1
  <2> QED
    BY <2>2, ObeyAny
<1> HIDE DEF kept
<1> QED
  BY <1>1, <1>4, <1>8, <1>9 DEF part

\* The reference over a text with a complete line: it obeys the line and goes on.
LEMMA ServedLine ==
  ASSUME NEW acc \in Acc, acc.line = <<>>, NEW text \in Seq(Byte), find_CRLF(text) # -1
  PROVE  LET len == find_CRLF(text)
         IN /\ SubSeq(text, 1, len) \in Seq(Byte)
            /\ SubSeq(text, len + 3, Len(text)) \in Seq(Byte)
            /\ Len(SubSeq(text, len + 3, Len(text))) = Len(text) - (len + 2)
            /\ Served(acc, text) = Served(Obey(acc, SubSeq(text, 1, len)), SubSeq(text, len + 3, Len(text)))
<1> DEFINE len == find_CRLF(text)
           head == SubSeq(text, 1, len + 2)
           rest == SubSeq(text, len + 3, Len(text))
           line == SubSeq(text, 1, len)
<1>1. /\ len \in Nat /\ len + 2 <= Len(text)
      /\ text[len + 1] = "cr" /\ text[len + 2] = "lf"
      /\ \A i \in 1..len : ~(text[i] = "cr" /\ text[i + 1] = "lf")
  BY FindsLine
<1> HIDE DEF len
<1>2. Len(text) \in Nat
  OBVIOUS
<1>3. head \in Seq(Byte) /\ Len(head) = len + 2 /\ \A i \in 1..len + 2 : head[i] = text[i]
  BY <1>1, <1>2
<1>4. line \in Seq(Byte) /\ Len(line) = len /\ \A i \in 1..len : line[i] = text[i]
  BY <1>1, <1>2
<1>5. rest \in Seq(Byte) /\ Len(rest) = Len(text) - (len + 2)
  BY <1>1, <1>2
<1>6. head \o rest = text
  <2>1. 1 \in 1..Len(text) + 1 /\ len + 2 \in 1 - 1..Len(text) /\ Len(text) \in len + 2..Len(text)
        /\ (len + 2) + 1 = len + 3
    BY <1>1, <1>2
  <2>2. SubSeq(text, 1, len + 2) \o SubSeq(text, (len + 2) + 1, Len(text)) = SubSeq(text, 1, Len(text))
    BY <2>1, ConcatAdjacentSubSeq
  <2> QED
    BY <2>1, <2>2, SubSeqFull
<1>7. SubSeq(head, 1, len) = line
  <2> HIDE DEF head, line
  <2>1. /\ SubSeq(head, 1, len) \in Seq(Byte) /\ Len(SubSeq(head, 1, len)) = len
        /\ \A i \in 1..len : SubSeq(head, 1, len)[i] = head[i]
    BY <1>1, <1>3
  <2>2. \A i \in 1..len : i \in 1..len + 2
    BY <1>1
  <2>3. \A i \in 1..len : SubSeq(head, 1, len)[i] = line[i]
    BY <1>3, <1>4, <2>1, <2>2
  <2> QED
    BY <1>4, <2>1, <2>3, SeqEqual
<1> HIDE DEF head, rest, line
<1>8. Served(acc, head) = Obey(acc, line)
  <2>1. head[len + 1] = "cr" /\ head[len + 2] = "lf"
    BY <1>1, <1>3
  <2>2. ASSUME NEW i \in 1..len PROVE ~(head[i] = "cr" /\ head[i + 1] = "lf")
    <3>1. i \in 1..len + 2 /\ i + 1 \in 1..len + 2
      BY <1>1
    <3> QED
      BY <1>1, <1>3, <3>1
  <2>3. Served(acc, head) = Obey(acc, SubSeq(head, 1, len))
    BY <1>1, <1>3, <2>1, <2>2, ServedHead
  <2> QED
    BY <1>7, <2>3
<1>9. Served(acc, text) = Served(Obey(acc, line), rest)
  <2>1. Served(acc, head \o rest) = Served(Served(acc, head), rest)
    BY <1>3, <1>5, ServedConcat
  <2> QED
    BY <1>6, <1>8, <2>1
<1> QED
  BY <1>4, <1>5, <1>9 DEF len, line, rest

\* A line without its last symbol.
LEMMA FrontType ==
  ASSUME NEW l \in Seq(Byte), l # <<>>
  PROVE  Front(l) \in Seq(Byte)
<1>1. Len(l) \in Nat /\ Len(l) > 0
  OBVIOUS
<1>2. SubSeq(l, 1, Len(l) - 1) \in Seq(Byte)
  BY <1>1
<1> QED
  BY <1>2 DEF Front

\* After the end of the connection the reference answers nothing.
LEMMA ServedClosed ==
  ASSUME NEW acc \in Acc, ~acc.open, NEW text \in Seq(Byte)
  PROVE  ~Served(acc, text).open /\ Served(acc, text).out = acc.out
<1> DEFINE Closed == {a \in Acc : ~a.open /\ a.out = acc.out}
           n == Len(text)
<1>0. n \in Nat /\ \A i \in 1..n : text[i] \in Byte
  OBVIOUS
<1>1. ASSUME NEW a \in Closed, NEW symbol \in Byte PROVE Serve(a, symbol) \in Closed
  <2>1. Serve(a, symbol) \in Acc
    BY ServeType
  <2>2. CASE symbol = "lf" /\ a.line # <<>> /\ Last(a.line) = "cr"
    <3>1. Serve(a, symbol) = Start(a.ctx, a.out, FALSE)
      BY <2>2 DEF Serve, Obey
    <3> QED
      BY <2>1, <3>1 DEF Start
  <2>3. CASE ~(symbol = "lf" /\ a.line # <<>> /\ Last(a.line) = "cr")
    <3>1. Serve(a, symbol) = [a EXCEPT !.line = Append(a.line, symbol)]
      BY <2>3 DEF Serve
    <3> QED
      BY <2>1, <3>1 DEF Acc
  <2> QED
    BY <2>2, <2>3
<1>2. PICK run \in [0..n -> Acc] :
        /\ run[0] = acc
        /\ \A k \in 0..n - 1 : run[k + 1] = Serve(run[k], text[k + 1])
        /\ Served(acc, text) = run[n]
  BY ServedRun
<1>3. acc \in Closed
  OBVIOUS
<1>4. run[n] \in Closed
  <2> DEFINE P == {k \in 0..n : run[k] \in Closed}
  <2> HIDE DEF n, Closed
  <2>1. 0 \in P
    BY <1>0, <1>2, <1>3
  <2>2. ASSUME NEW k \in 0..n - 1, k \in P PROVE k + 1 \in P
    <3>1. k + 1 \in 1..n /\ k + 1 \in 0..n
      BY <1>0
    <3> QED
      BY <1>0, <1>1, <1>2, <2>2, <3>1
  <2>3. 0..n \subseteq P
    <3> HIDE DEF P
    <3> QED
      BY <1>0, <2>1, <2>2, InductionUpTo
  <2> QED
    BY <1>0, <2>3
<1> HIDE DEF n
<1> QED
  BY <1>2, <1>4

\* A line obeyed, field by field.
LEMMA ObeyCases ==
  ASSUME NEW acc \in Acc, NEW line \in Seq(Byte)
  PROVE  LET c == acc.ctx
             o == Obey(acc, line)
             first == c.state = "kExpectRequestLine"
         IN /\ ~acc.open => o.ctx = c /\ o.out = acc.out /\ ~o.open
            /\ acc.open /\ first /\ processRequestLine(line) =>
                 /\ o.ctx = [c EXCEPT !.state = "kExpectHeaders", !.version = line[1]]
                 /\ o.out = acc.out /\ o.open
            /\ acc.open /\ first /\ ~processRequestLine(line) =>
                 o.ctx = c /\ o.out = Append(acc.out, "400") /\ ~o.open
            /\ acc.open /\ ~first /\ HasColon(line) =>
                 o.ctx = addHeader(c, line) /\ o.out = acc.out /\ o.open
            /\ acc.open /\ ~first /\ ~HasColon(line) =>
                 o.ctx = NewContext /\ o.out = Append(acc.out, Answer(c)) /\ (o.open <=> ~closes(c))
  BY DEF Obey, Start

\* A request line that is none is answered at once, and the connection closed.
LEMMA ObeyBadLine ==
  ASSUME NEW acc \in Acc, NEW line \in Seq(Byte), acc.open,
         acc.ctx.state = "kExpectRequestLine", ~processRequestLine(line)
  PROVE  Obey(acc, line).out = Append(acc.out, "400") /\ ~Obey(acc, line).open
  BY ObeyCases

\* The answers given so far stand before the ones to come, and change nothing else.
LEMMA ServedOut ==
  ASSUME NEW acc \in Acc, NEW text \in Seq(Byte), acc.out = <<>>, NEW a \in Seq(Response)
  PROVE  Served([acc EXCEPT !.out = a], text).out = a \o Served(acc, text).out
<1> DEFINE n == Len(text)
           Before(t, s) == t.line = s.line /\ t.ctx = s.ctx /\ (t.open <=> s.open) /\ t.out = a \o s.out
           start == [acc EXCEPT !.out = a]
<1>0. n \in Nat /\ \A i \in 1..n : text[i] \in Byte
  OBVIOUS
<1>1. ASSUME NEW s \in Acc, NEW t \in Acc, Before(t, s), NEW symbol \in Byte
      PROVE  Before(Serve(t, symbol), Serve(s, symbol))
  <2>0. s.out \in Seq(Response) /\ s.ctx \in Context /\ s.line \in Seq(Byte)
    BY DEF Acc
  <2>1. t.line = s.line /\ t.ctx = s.ctx /\ (t.open <=> s.open) /\ t.out = a \o s.out
    BY <1>1
  <2>2. CASE symbol = "lf" /\ s.line # <<>> /\ Last(s.line) = "cr"
    <3> DEFINE l == Front(s.line)
               c == s.ctx
               p == Obey(s, l)
               q == Obey(t, l)
               first == c.state = "kExpectRequestLine"
    <3>1. Serve(t, symbol) = q /\ Serve(s, symbol) = p
      BY <2>1, <2>2 DEF Serve
    <3>2. l \in Seq(Byte)
      BY <2>0, <2>2, FrontType
    <3>3. ASSUME NEW r \in Response PROVE a \o Append(s.out, r) = Append(a \o s.out, r)
      BY <2>0
    <3>4. "400" \in Response /\ Answer(c) \in Response
      <4>1. "400" \in Response
        BY DEF Response
      <4>3. Answer(c) \in Response
        BY <2>0, <3>2, ContextTypes
      <4> QED
        BY <4>1, <4>3
    <3>5. a \o Append(s.out, "400") = Append(t.out, "400") /\ a \o Append(s.out, Answer(c)) = Append(t.out, Answer(c))
      BY <2>1, <3>3, <3>4
    <3>6. p.line = <<>> /\ q.line = <<>>
      BY <3>2, ObeyType
    <3> HIDE DEF p, q, l
    <3>7. p.ctx = q.ctx /\ (q.open <=> p.open) /\ q.out = a \o p.out
      <4>1. CASE ~s.open
        <5>1. p.ctx = c /\ p.out = s.out /\ ~p.open
          BY <3>2, <4>1, ObeyCases DEF p
        <5>2. q.ctx = c /\ q.out = t.out /\ ~q.open
          BY <2>1, <3>2, <4>1, ObeyCases DEF q
        <5> QED
          BY <2>1, <5>1, <5>2
      <4>2. CASE s.open /\ first /\ processRequestLine(l)
        <5> DEFINE d == [c EXCEPT !.state = "kExpectHeaders", !.version = l[1]]
        <5>0. t.open /\ t.ctx = c /\ t.ctx.state = "kExpectRequestLine"
          BY <2>1, <4>2
        <5>1. p.ctx = d /\ p.out = s.out /\ p.open
          BY <3>2, <4>2, ObeyCases DEF p
        <5>2. q.ctx = d /\ q.out = t.out /\ q.open
          BY <3>2, <4>2, <5>0, ObeyCases DEF q
        <5> QED
          BY <2>1, <5>1, <5>2
      <4>3. CASE s.open /\ first /\ ~processRequestLine(l)
        <5>0. t.open /\ t.ctx = c /\ t.ctx.state = "kExpectRequestLine"
          BY <2>1, <4>3
        <5>1. p.ctx = c /\ p.out = Append(s.out, "400") /\ ~p.open
          BY <3>2, <4>3, ObeyCases DEF p
        <5>2. q.ctx = c /\ q.out = Append(t.out, "400") /\ ~q.open
          BY <3>2, <4>3, <5>0, ObeyCases DEF q
        <5> QED
          BY <3>5, <5>1, <5>2
      <4>4. CASE s.open /\ ~first /\ HasColon(l)
        <5>0. t.open /\ t.ctx = c /\ t.ctx.state # "kExpectRequestLine"
          BY <2>1, <4>4
        <5>1. p.ctx = addHeader(c, l) /\ p.out = s.out /\ p.open
          BY <3>2, <4>4, ObeyCases DEF p
        <5>2. q.ctx = addHeader(c, l) /\ q.out = t.out /\ q.open
          BY <3>2, <4>4, <5>0, ObeyCases DEF q
        <5> QED
          BY <2>1, <5>1, <5>2
      <4>5. CASE s.open /\ ~first /\ ~HasColon(l)
        <5>0. t.open /\ t.ctx = c /\ t.ctx.state # "kExpectRequestLine"
          BY <2>1, <4>5
        <5>1. p.ctx = NewContext /\ p.out = Append(s.out, Answer(c)) /\ (p.open <=> ~closes(c))
          BY <3>2, <4>5, ObeyCases DEF p
        <5>2. q.ctx = NewContext /\ q.out = Append(t.out, Answer(c)) /\ (q.open <=> ~closes(c))
          BY <3>2, <4>5, <5>0, ObeyCases DEF q
        <5> QED
          BY <3>5, <5>1, <5>2
      <4> QED
        BY <4>1, <4>2, <4>3, <4>4, <4>5
    <3> QED
      BY <3>1, <3>6, <3>7
  <2>3. CASE ~(symbol = "lf" /\ s.line # <<>> /\ Last(s.line) = "cr")
    <3>1. Serve(t, symbol) = [t EXCEPT !.line = Append(s.line, symbol)]
      BY <2>1, <2>3 DEF Serve
    <3>2. Serve(s, symbol) = [s EXCEPT !.line = Append(s.line, symbol)]
      BY <2>3 DEF Serve
    <3> QED
      BY <2>1, <3>1, <3>2 DEF Acc
  <2> QED
    BY <2>2, <2>3
<1>2. start \in Acc /\ Before(start, acc)
  <2>1. a \o <<>> = a
    BY ConcatEmptySeq
  <2>2. a \o acc.out = a
    BY <2>1
  <2> QED
    BY <2>2 DEF Acc
<1> HIDE DEF start, Before
<1>3. PICK f \in [0..n -> Acc] :
        /\ f[0] = acc
        /\ \A k \in 0..n - 1 : f[k + 1] = Serve(f[k], text[k + 1])
        /\ Served(acc, text) = f[n]
  BY ServedRun
<1>4. PICK g \in [0..n -> Acc] :
        /\ g[0] = start
        /\ \A k \in 0..n - 1 : g[k + 1] = Serve(g[k], text[k + 1])
        /\ Served(start, text) = g[n]
  BY <1>2, ServedRun
<1>5. Before(g[n], f[n])
  <2> DEFINE P == {k \in 0..n : Before(g[k], f[k])}
  <2> HIDE DEF n
  <2>1. 0 \in P
    BY <1>0, <1>2, <1>3, <1>4
  <2>2. ASSUME NEW k \in 0..n - 1, k \in P PROVE k + 1 \in P
    <3>1. k \in 0..n /\ k + 1 \in 1..n /\ k + 1 \in 0..n
      BY <1>0
    <3>2. f[k] \in Acc /\ g[k] \in Acc /\ text[k + 1] \in Byte /\ Before(g[k], f[k])
      BY <1>0, <1>3, <2>2, <3>1
    <3>3. Before(Serve(g[k], text[k + 1]), Serve(f[k], text[k + 1]))
      BY <1>1, <3>2
    <3> QED
      BY <1>3, <1>4, <3>1, <3>3
  <2>3. 0..n \subseteq P
    <3> HIDE DEF P
    <3> QED
      BY <1>0, <2>1, <2>2, InductionUpTo
  <2> QED
    BY <1>0, <2>3
<1> QED
  BY <1>3, <1>4, <1>5 DEF Before, start

\* The values of the buffer, and of the variables of parseRequest().
Buf == {b \in [store : Seq(Byte), read_index : Nat, write_index : Nat] : BufferOK(b)}
Parse == [ctx : Context, buf : Buf, ok : BOOLEAN, hasMore : BOOLEAN]

\* From parser state c, with the answers o sent, the text leads the reference to W.
Resumes(c, o, text, W) ==
  \E s \in Acc : s.line = <<>> /\ s.ctx = c /\ s.out = o /\ s.open /\ Served(s, text) = W

Ended(o, W) == ~W.open /\ W.out = o

\* What the local variables of the loop promise: where the reference goes from here.
LoopServes(p, a, W) ==
  /\ p.hasMore => p.ok
  /\ ~p.ok => p.ctx.state # "kGotAll" /\ Ended(Append(a, "400"), W)
  /\ p.ok /\ p.ctx.state # "kGotAll" => Resumes(p.ctx, a, to_string(p.buf), W)
  /\ p.ok /\ p.ctx.state = "kGotAll" =>
       IF closes(p.ctx) THEN Ended(Append(a, Answer(p.ctx)), W)
       ELSE Resumes(NewContext, Append(a, Answer(p.ctx)), to_string(p.buf), W)

\* A complete line in the buffer, and the buffer without it.
LEMMA TakenLine ==
  ASSUME NEW b \in Buf, find_CRLF(to_string(b)) # -1
  PROVE  /\ first_line(b) \in Seq(Byte)
         /\ retrieve_line(b) \in Buf
         /\ to_string(b) \in Seq(Byte) /\ to_string(retrieve_line(b)) \in Seq(Byte)
         /\ Len(to_string(retrieve_line(b))) < Len(to_string(b))
         /\ \A s \in Acc : s.line = <<>> =>
              Served(s, to_string(b)) = Served(Obey(s, first_line(b)), to_string(retrieve_line(b)))
<1> DEFINE text == to_string(b)
           len == find_CRLF(text)
           r == retrieve_line(b)
<1>1. BufferOK(b)
  BY DEF Buf
<1>2. text \in Seq(Byte) /\ Len(text) \in Nat
  BY <1>1, ReadableBytes
<1>3. len \in Nat /\ len + 2 <= Len(text)
  <2> HIDE DEF text
  <2> QED
    BY <1>2, FindsLine DEF text
<1>4. r = retrieve(b, len + 2) /\ first_line(b) = SubSeq(text, 1, len)
  BY DEF retrieve_line, first_line
<1>5. BufferOK(r) /\ to_string(r) = SubSeq(text, (len + 2) + 1, Len(text))
  <2>1. len + 2 \in Nat
    BY <1>3
  <2> HIDE DEF len, r
  <2> QED
    BY <1>1, <1>4, <2>1, RetrieveBytes
<1>6. r \in Buf
  <2> HIDE DEF r
  <2> QED
    BY <1>5 DEF Buf, BufferOK
<1>7. (len + 2) + 1 = len + 3
  BY <1>3
<1> DEFINE rest == SubSeq(text, len + 3, Len(text))
<1>8. to_string(r) = rest
  BY <1>5, <1>7
<1> HIDE DEF r
<1>9. ASSUME NEW s \in Acc, s.line = <<>>
      PROVE  /\ SubSeq(text, 1, len) \in Seq(Byte) /\ rest \in Seq(Byte)
             /\ Len(rest) = Len(text) - (len + 2)
             /\ Served(s, text) = Served(Obey(s, SubSeq(text, 1, len)), rest)
  <2>1. text \in Seq(Byte) /\ find_CRLF(text) # -1
    BY <1>2
  <2> HIDE DEF text
  <2> QED
    BY <1>9, <2>1, ServedLine
<1>10. \E s \in Acc : s.line = <<>>
  <2>1. NewContext \in Context
    BY DEF NewContext, Context
  <2>2. [line |-> <<>>, ctx |-> NewContext, out |-> <<>>, open |-> TRUE] \in Acc
    BY <2>1 DEF Acc
  <2> QED
    BY <2>2
<1> HIDE DEF text, len, rest
<1>11. Len(rest) < Len(text)
  BY <1>2, <1>3, <1>9, <1>10
<1> QED
  BY <1>2, <1>4, <1>6, <1>8, <1>9, <1>10, <1>11 DEF text, r

\* A turn of the loop: its variables keep their types, it does not stop with
\* the request read and more to do, and a turn that goes on has taken bytes.
LEMMA TurnGoesOn ==
  ASSUME NEW p \in Parse, p.hasMore => p.ctx.state # "kGotAll"
  PROVE  LET q == turn_of_loop(p)
         IN /\ q \in Parse
            /\ q.hasMore => q.ctx.state # "kGotAll"
            /\ q.hasMore => p.hasMore /\ Len(to_string(q.buf)) < Len(to_string(p.buf))
<1> DEFINE b == p.buf
           c == p.ctx
           line == first_line(b)
           q == turn_of_loop(p)
<1>0. b \in Buf /\ c \in Context /\ p.ok \in BOOLEAN /\ p.hasMore \in BOOLEAN
  BY DEF Parse
<1>1. CASE ~p.hasMore \/ c.state = "kGotAll"
  <2>1. q = p
    BY <1>1 DEF turn_of_loop
  <2> QED
    BY <1>1, <2>1
<1>2. CASE p.hasMore /\ c.state # "kGotAll" /\ find_CRLF(to_string(b)) = -1
  <2>1. q = [p EXCEPT !.hasMore = FALSE]
    BY <1>2 DEF turn_of_loop
  <2> QED
    BY <2>1 DEF Parse
<1>3. CASE p.hasMore /\ c.state # "kGotAll" /\ find_CRLF(to_string(b)) # -1
  <2>1. /\ line \in Seq(Byte) /\ retrieve_line(b) \in Buf
        /\ Len(to_string(retrieve_line(b))) < Len(to_string(b))
    BY <1>0, <1>3, TakenLine
  <2>2. CASE c.state = "kExpectRequestLine" /\ processRequestLine(line)
    <3> DEFINE d == [c EXCEPT !.state = "kExpectHeaders", !.version = line[1]]
    <3>1. q = [p EXCEPT !.ctx = d, !.buf = retrieve_line(b)]
      BY <1>3, <2>2 DEF turn_of_loop, expectRequestLine
    <3>2. d \in Context /\ d.state = "kExpectHeaders"
      <4>1. d \in Context
        BY <1>0, <2>1, <2>2, ContextTypes
      <4>2. d.state = "kExpectHeaders"
        BY <1>0 DEF Context
      <4> QED
        BY <4>1, <4>2
    <3> HIDE DEF d
    <3> QED
      BY <1>0, <1>3, <2>1, <3>1, <3>2 DEF Parse
  <2>3. CASE c.state = "kExpectRequestLine" /\ ~processRequestLine(line)
    <3>1. q = [p EXCEPT !.ok = FALSE, !.hasMore = FALSE]
      BY <1>3, <2>3 DEF turn_of_loop, expectRequestLine
    <3> QED
      BY <3>1 DEF Parse
  <2>4. CASE c.state # "kExpectRequestLine" /\ HasColon(line)
    <3> DEFINE d == addHeader(c, line)
    <3>1. q = [p EXCEPT !.ctx = d, !.buf = retrieve_line(b)]
      BY <1>3, <2>4 DEF turn_of_loop, expectHeaders
    <3>2. d \in Context /\ d.state = c.state
      BY <1>0, <2>1, ContextTypes
    <3> HIDE DEF d
    <3> QED
      BY <1>0, <1>3, <2>1, <3>1, <3>2 DEF Parse
  <2>5. CASE c.state # "kExpectRequestLine" /\ ~HasColon(line)
    <3> DEFINE d == [c EXCEPT !.state = "kGotAll"]
    <3>1. q = [p EXCEPT !.ctx = d, !.buf = retrieve_line(b), !.hasMore = FALSE]
      BY <1>3, <2>5 DEF turn_of_loop, expectHeaders
    <3>2. d \in Context
      BY <1>0 DEF Context
    <3> HIDE DEF d
    <3> QED
      BY <1>0, <1>3, <2>1, <3>1, <3>2 DEF Parse
  <2> QED
    BY <2>2, <2>3, <2>4, <2>5
<1> QED
  BY <1>0, <1>1, <1>2, <1>3

\* A line obeyed by the reference is where a turn of the loop leads to.
LEMMA TurnServes ==
  ASSUME NEW p \in Parse, p.hasMore => p.ctx.state # "kGotAll",
         NEW a \in Seq(Response), NEW W, LoopServes(p, a, W)
  PROVE  LoopServes(turn_of_loop(p), a, W)
<1> DEFINE b == p.buf
           c == p.ctx
           line == first_line(b)
           r == retrieve_line(b)
           q == turn_of_loop(p)
<1> SUFFICES LoopServes(q, a, W)
  OBVIOUS
<1>0. b \in Buf /\ c \in Context /\ p.ok \in BOOLEAN /\ p.hasMore \in BOOLEAN
  BY DEF Parse
<1>1. CASE ~p.hasMore \/ c.state = "kGotAll"
  <2>1. q = p
    BY <1>1 DEF turn_of_loop
  <2> QED
    BY <2>1
<1>2. CASE p.hasMore /\ c.state # "kGotAll" /\ find_CRLF(to_string(b)) = -1
  <2>1. q = [p EXCEPT !.hasMore = FALSE]
    BY <1>2 DEF turn_of_loop
  <2>2. q.ctx = c /\ q.buf = b /\ q.ok = p.ok /\ ~q.hasMore
    BY <2>1 DEF Parse
  <2> HIDE DEF q
  <2> QED
    BY <2>2 DEF LoopServes
<1>3. CASE p.hasMore /\ c.state # "kGotAll" /\ find_CRLF(to_string(b)) # -1
  <2>1. /\ line \in Seq(Byte) /\ r \in Buf /\ to_string(r) \in Seq(Byte)
        /\ \A s \in Acc : s.line = <<>> => Served(s, to_string(b)) = Served(Obey(s, line), to_string(r))
    BY <1>0, <1>3, TakenLine
  <2>2. p.ok /\ Resumes(c, a, to_string(b), W)
    BY <1>3 DEF LoopServes
  <2>3. PICK s \in Acc : s.line = <<>> /\ s.ctx = c /\ s.out = a /\ s.open /\ Served(s, to_string(b)) = W
    BY <2>2 DEF Resumes
  <2> DEFINE o == Obey(s, line)
  <2>4. o \in Acc /\ o.line = <<>> /\ Served(o, to_string(r)) = W
    BY <2>1, <2>3, ObeyType
  <2>5. ~o.open => Ended(o.out, W)
    <3>1. ~o.open => ~Served(o, to_string(r)).open /\ Served(o, to_string(r)).out = o.out
      <4> HIDE DEF o, r
      <4> QED
        BY <2>1, <2>4, ServedClosed
    <3> QED
      BY <2>4, <3>1 DEF Ended
  <2>6. o.open => Resumes(o.ctx, o.out, to_string(r), W)
    <3> HIDE DEF o, r
    <3> QED
      BY <2>4 DEF Resumes
  <2>7. CASE c.state = "kExpectRequestLine" /\ processRequestLine(line)
    <3> DEFINE d == [c EXCEPT !.state = "kExpectHeaders", !.version = line[1]]
    <3>1. q = [p EXCEPT !.ctx = d, !.buf = r]
      BY <1>3, <2>7 DEF turn_of_loop, expectRequestLine
    <3>2. d.state = "kExpectHeaders"
      BY <1>0 DEF Context
    <3>3. o.ctx = d /\ o.out = a /\ o.open
      BY <2>1, <2>3, <2>7, ObeyCases
    <3> HIDE DEF d, o, r
    <3>4. q.ctx = d /\ q.buf = r /\ q.ok = p.ok
      BY <3>1 DEF Parse
    <3> HIDE DEF q
    <3> QED
      BY <2>2, <2>6, <3>2, <3>3, <3>4 DEF LoopServes
  <2>8. CASE c.state = "kExpectRequestLine" /\ ~processRequestLine(line)
    <3>1. q = [p EXCEPT !.ok = FALSE, !.hasMore = FALSE]
      BY <1>3, <2>8 DEF turn_of_loop, expectRequestLine
    <3>2. o.out = Append(a, "400") /\ ~o.open
      BY <2>1, <2>3, <2>8, ObeyBadLine
    <3> HIDE DEF o, r
    <3>3. q.ctx = c /\ ~q.ok /\ ~q.hasMore
      BY <3>1 DEF Parse
    <3> HIDE DEF q
    <3> QED
      BY <1>3, <2>5, <3>2, <3>3 DEF LoopServes
  <2>9. CASE c.state # "kExpectRequestLine" /\ HasColon(line)
    <3> DEFINE d == addHeader(c, line)
    <3>1. q = [p EXCEPT !.ctx = d, !.buf = r]
      BY <1>3, <2>9 DEF turn_of_loop, expectHeaders
    <3>2. d.state = c.state
      BY <1>0, <2>1, ContextTypes
    <3>3. o.ctx = d /\ o.out = a /\ o.open
      <4>1. line \in Seq(Byte) /\ s.open /\ s.ctx.state # "kExpectRequestLine" /\ s.ctx = c /\ s.out = a
        BY <2>1, <2>3, <2>9
      <4> HIDE DEF line, c
      <4> QED
        BY <2>9, <4>1, ObeyCases
    <3> HIDE DEF d, o, r
    <3>4. q.ctx = d /\ q.buf = r /\ q.ok = p.ok
      BY <3>1 DEF Parse
    <3> HIDE DEF q
    <3> QED
      BY <1>3, <2>2, <2>6, <3>2, <3>3, <3>4 DEF LoopServes
  <2>10. CASE c.state # "kExpectRequestLine" /\ ~HasColon(line)
    <3> DEFINE d == [c EXCEPT !.state = "kGotAll"]
    <3>1. q = [p EXCEPT !.ctx = d, !.buf = r, !.hasMore = FALSE]
      BY <1>3, <2>10 DEF turn_of_loop, expectHeaders
    <3>2. d.state = "kGotAll" /\ Answer(d) = Answer(c) /\ (closes(d) <=> closes(c))
      <4>1. d.state = "kGotAll" /\ d.version = c.version /\ d.connection = c.connection
        BY <1>0 DEF Context
      <4> HIDE DEF d
      <4> QED
        BY <4>1 DEF Answer, closes
    <3>3. o.ctx = NewContext /\ o.out = Append(a, Answer(c)) /\ (o.open <=> ~closes(c))
      <4>1. line \in Seq(Byte) /\ s.open /\ s.ctx.state # "kExpectRequestLine" /\ s.ctx = c /\ s.out = a
        BY <2>1, <2>3, <2>10
      <4> HIDE DEF line, c
      <4> QED
        BY <2>10, <4>1, ObeyCases
    <3> HIDE DEF d, o, r
    <3>4. q.ctx = d /\ q.buf = r /\ q.ok = p.ok /\ ~q.hasMore
      BY <3>1 DEF Parse
    <3> HIDE DEF q
    <3>5. CASE closes(c)
      BY <2>2, <2>5, <3>2, <3>3, <3>4, <3>5 DEF LoopServes
    <3>6. CASE ~closes(c)
      BY <2>2, <2>6, <3>2, <3>3, <3>4, <3>6 DEF LoopServes
    <3> QED
      BY <3>5, <3>6
  <2> QED
    BY <2>7, <2>8, <2>9, <2>10
<1> QED
  BY <1>0, <1>1, <1>2, <1>3

\* The states the loop's variables go through.
Loop == {p \in Parse : p.hasMore => p.ctx.state # "kGotAll"}

\* A turn leads from a state of the loop to a state of the loop.
LEMMA TurnType ==
  ASSUME NEW p \in Loop
  PROVE  turn_of_loop(p) \in Loop
  BY TurnGoesOn DEF Loop

\* The turns of the loop, from the first on.
LEMMA ParseRun ==
  ASSUME NEW c \in Context, c.state # "kGotAll", NEW b \in Buf
  PROVE  /\ readable_bytes(b) \in Nat /\ Len(to_string(b)) = readable_bytes(b)
         /\ \E run \in [0..readable_bytes(b) + 1 -> Loop] :
              /\ run[0] = [ctx |-> c, buf |-> b, ok |-> TRUE, hasMore |-> TRUE]
              /\ \A k \in 0..readable_bytes(b) : run[k + 1] = turn_of_loop(run[k])
              /\ parseRequest(c, b) = run[readable_bytes(b) + 1]
<1> DEFINE m == readable_bytes(b)
           n == m + 1
           p0 == [ctx |-> c, buf |-> b, ok |-> TRUE, hasMore |-> TRUE]
           F == [k \in 1..n |-> [p \in Loop |-> turn_of_loop(p)]]
           Rec(f) == f = [k \in 0..n |-> IF k = 0 THEN p0 ELSE turn_of_loop(f[k - 1])]
           run == CHOOSE g : Rec(g)
<1>0. m \in Nat /\ Len(to_string(b)) = m
  <2>1. BufferOK(b)
    BY DEF Buf
  <2>2. Len(to_string(b)) = m
    BY <2>1, ReadableBytes DEF readable_bytes
  <2>3. to_string(b) \in Seq(Byte)
    BY <2>1, ReadableBytes
  <2> HIDE DEF m
  <2> QED
    BY <2>2, <2>3
<1>1. parseRequest(c, b) = run[n]
  BY DEF parseRequest
<1>2. p0 \in Loop
  BY DEF Loop, Parse
<1> HIDE DEF m, p0
<1>3. n \in Nat
  BY <1>0
<1> HIDE DEF n
<1>4. F \in [1..n -> [Loop -> Loop]]
  BY TurnType
<1>5. PICK f \in [0..n -> Loop] : f[0] = p0 /\ \A k \in 1..n : f[k] = F[k][f[k - 1]]
  <2> HIDE DEF F
  <2> QED
    BY <1>2, <1>3, <1>4, RecursionUpTo, SMTT(60)
<1>6. Rec(f)
  <2>1. ASSUME NEW k \in 1..n PROVE f[k] = turn_of_loop(f[k - 1])
    <3>1. f[k - 1] \in Loop /\ f[k] = F[k][f[k - 1]]
      <4> HIDE DEF F
      <4> QED
        BY <1>3, <1>5
    <3> QED
      BY <3>1
  <2> QED
    BY <1>3, <1>5, <2>1
<1>7. Rec(run)
  <2> HIDE DEF Rec
  <2> QED
    BY <1>6
<1> HIDE DEF run
<1>8. run[0] = p0 /\ \A k \in 1..n : run[k] = turn_of_loop(run[k - 1])
  BY <1>3, <1>7
<1>9. ASSUME NEW k \in 0..n - 1 PROVE run[k + 1] = turn_of_loop(run[k])
  <2>1. k + 1 \in 1..n /\ (k + 1) - 1 = k
    BY <1>3
  <2> QED
    BY <1>8, <2>1
<1>10. \A k \in 0..n : run[k] \in Loop
  <2> DEFINE P == {k \in 0..n : run[k] \in Loop}
  <2>1. 0 \in P
    BY <1>2, <1>3, <1>8
  <2>2. ASSUME NEW k \in 0..n - 1, k \in P PROVE k + 1 \in P
    <3>1. k + 1 \in 0..n /\ run[k] \in Loop
      BY <1>3, <2>2
    <3>2. run[k + 1] \in Loop
      BY <1>9, <3>1, TurnType
    <3> QED
      BY <3>1, <3>2
  <2>3. 0..n \subseteq P
    <3> HIDE DEF P
    <3> QED
      BY <1>3, <2>1, <2>2, InductionUpTo
  <2> QED
    BY <2>3
<1>11. run \in [0..n -> Loop]
  <2>1. run = [k \in 0..n |-> run[k]]
    BY <1>7
  <2> QED
    BY <1>10, <2>1
<1>12. \A k \in 0..m : run[k + 1] = turn_of_loop(run[k])
  <2>1. n - 1 = m
    BY <1>0 DEF n
  <2> QED
    BY <1>9, <2>1
<1> QED
  BY <1>0, <1>1, <1>8, <1>11, <1>12 DEF m, n, p0

\* The loop of parseRequest() ends, and leaves the parser where the reference
\* is: to be resumed, after a request, or at a line it rejects.
LEMMA ParseResult ==
  ASSUME NEW c \in Context, c.state # "kGotAll", NEW b \in Buf
  PROVE  /\ parseRequest(c, b) \in Parse
         /\ ~parseRequest(c, b).hasMore
         /\ \A a \in Seq(Response) : \A W \in Acc :
              Resumes(c, a, to_string(b), W) => LoopServes(parseRequest(c, b), a, W)
<1> DEFINE m == readable_bytes(b)
           p0 == [ctx |-> c, buf |-> b, ok |-> TRUE, hasMore |-> TRUE]
<1>1. m \in Nat /\ Len(to_string(b)) = m
  BY ParseRun
<1>2. PICK run \in [0..m + 1 -> Loop] :
        /\ run[0] = p0
        /\ \A k \in 0..m : run[k + 1] = turn_of_loop(run[k])
        /\ parseRequest(c, b) = run[m + 1]
  BY ParseRun
<1>3. p0.ctx = c /\ p0.buf = b /\ p0.ok /\ p0.hasMore
  OBVIOUS
<1> HIDE DEF m, p0
<1>4. m + 1 \in Nat /\ m + 1 \in 0..m + 1 /\ 0 \in 0..m + 1 /\ (m + 1) - 1 = m
  BY <1>1
<1>5. \A k \in 0..m + 1 : run[k] \in Parse /\ (run[k].hasMore => run[k].ctx.state # "kGotAll")
  BY <1>2 DEF Loop
<1>6. \A k \in 0..m + 1 : Len(to_string(run[k].buf)) \in Nat
  <2>1. ASSUME NEW k \in 0..m + 1 PROVE Len(to_string(run[k].buf)) \in Nat
    <3>1. run[k].buf \in Buf
      BY <1>5 DEF Parse
    <3>2. BufferOK(run[k].buf)
      BY <3>1 DEF Buf
    <3>3. to_string(run[k].buf) \in Seq(Byte)
      BY <3>2, ReadableBytes
    <3> QED
      BY <3>3
  <2> QED
    BY <2>1
<1>7. ~run[m + 1].hasMore
  <2> DEFINE P == {k \in 0..m + 1 : run[k].hasMore => Len(to_string(run[k].buf)) + k <= m}
  <2>1. 0 \in P
    BY <1>1, <1>2, <1>3, <1>4
  <2>2. ASSUME NEW k \in 0..m, k \in P PROVE k + 1 \in P
    <3>1. k \in 0..m + 1 /\ k + 1 \in 0..m + 1
      BY <1>1
    <3>2. run[k].hasMore => Len(to_string(run[k].buf)) + k <= m
      BY <2>2
    <3>3. run[k + 1].hasMore => /\ run[k].hasMore
                                /\ Len(to_string(run[k + 1].buf)) < Len(to_string(run[k].buf))
      <4>1. run[k + 1] = turn_of_loop(run[k])
        BY <1>2
      <4>2. run[k] \in Parse /\ (run[k].hasMore => run[k].ctx.state # "kGotAll")
        BY <1>5, <3>1
      <4> QED
        BY <4>1, <4>2, TurnGoesOn
    <3>4. Len(to_string(run[k].buf)) \in Nat /\ Len(to_string(run[k + 1].buf)) \in Nat
      BY <1>6, <3>1
    <3> DEFINE x == Len(to_string(run[k].buf))
               y == Len(to_string(run[k + 1].buf))
    <3>5. ASSUME run[k + 1].hasMore PROVE y + (k + 1) <= m
      <4>1. y < x /\ x + k <= m /\ x \in Nat /\ y \in Nat
        BY <3>2, <3>3, <3>4, <3>5
      <4> HIDE DEF x, y
      <4> QED
        BY <1>1, <4>1
    <3> QED
      BY <3>1, <3>5
  <2>3. 0..m + 1 \subseteq P
    <3> DEFINE n == m + 1
    <3>1. n \in Nat /\ \A k \in 0..n - 1 : k \in P => k + 1 \in P
      BY <1>4, <2>2
    <3> HIDE DEF P, n
    <3>2. 0..n \subseteq P
      BY <2>1, <3>1, InductionUpTo
    <3> QED
      BY <3>2 DEF n
  <2>4. run[m + 1].hasMore => Len(to_string(run[m + 1].buf)) + (m + 1) <= m
    BY <1>4, <2>3
  <2> DEFINE z == Len(to_string(run[m + 1].buf))
  <2>5. z \in Nat
    BY <1>4, <1>6
  <2>6. ~(z + (m + 1) <= m)
    <3> HIDE DEF z
    <3> QED
      BY <1>1, <2>5
  <2> QED
    BY <2>4, <2>6
<1>8. ASSUME NEW a \in Seq(Response), NEW W \in Acc, Resumes(c, a, to_string(b), W)
      PROVE  LoopServes(run[m + 1], a, W)
  <2> DEFINE P == {k \in 0..m + 1 : LoopServes(run[k], a, W)}
  <2>1. LoopServes(p0, a, W)
    BY <1>3, <1>8 DEF LoopServes
  <2>2. 0 \in P
    BY <1>2, <1>4, <2>1
  <2>3. ASSUME NEW k \in 0..m, k \in P PROVE k + 1 \in P
    <3>1. k \in 0..m + 1 /\ k + 1 \in 0..m + 1
      BY <1>1
    <3>2. run[k + 1] = turn_of_loop(run[k]) /\ LoopServes(run[k], a, W)
      BY <1>2, <2>3
    <3>3. run[k] \in Parse /\ (run[k].hasMore => run[k].ctx.state # "kGotAll")
      BY <1>5, <3>1
    <3>4. LoopServes(run[k + 1], a, W)
      BY <3>2, <3>3, TurnServes
    <3> QED
      BY <3>1, <3>4
  <2>4. 0..m + 1 \subseteq P
    <3> DEFINE n == m + 1
    <3>1. n \in Nat /\ \A k \in 0..n - 1 : k \in P => k + 1 \in P
      BY <1>4, <2>3
    <3> HIDE DEF P, n
    <3>2. 0..n \subseteq P
      BY <2>2, <3>1, InductionUpTo
    <3> QED
      BY <3>2 DEF n
  <2> QED
    BY <1>4, <2>4
<1>9. run[m + 1] \in Parse
  BY <1>4, <1>5
<1> QED
  BY <1>2, <1>7, <1>8, <1>9

\* The reference before the first byte, and after the n-th.
Base == [line |-> <<>>, ctx |-> NewContext, out |-> <<>>, open |-> TRUE]
After(n) == Served(Base, SubSeq(stream, 1, n))

\* Between two messages the parser is never left at a complete request.
HttpTypeOK ==
  /\ stream \in Seq(Symbol) /\ sent \in 0..Len(stream)
  /\ input \in Buf
  /\ context \in Context /\ context.state # "kGotAll"
  /\ answers \in Seq(Response)
  /\ open \in BOOLEAN

\* While the connection is open the reference, resumed at the parser's state over the
\* bytes in the buffer, gets where it gets over all that arrived; afterwards every
\* answer it gives has been sent.
HttpInv ==
  /\ HttpTypeOK
  /\ open => Resumes(context, answers, to_string(input), After(sent))
  /\ ~open => Ended(answers, After(sent))

\* The reference starts in a state of its own, and the parser in one to go on from.
LEMMA BaseType == Base \in Acc /\ NewContext \in Context /\ NewContext.state # "kGotAll"
  BY DEF Base, Acc, NewContext, Context

\* What arrives, and what the buffer holds then.
LEMMA Arrival ==
  ASSUME HttpTypeOK, NEW n \in Nat, n <= Len(stream) - sent
  PROVE  LET data == SubSeq(stream, sent + 1, sent + n)
             b == read_fd(input, data)
         IN /\ data \in Seq(Byte) /\ b \in Buf
            /\ to_string(input) \in Seq(Byte) /\ to_string(b) = to_string(input) \o data
            /\ After(sent) \in Acc /\ After(sent + n) = Served(After(sent), data)
<1> DEFINE data == SubSeq(stream, sent + 1, sent + n)
           b == read_fd(input, data)
           head == SubSeq(stream, 1, sent)
<1>1. stream \in Seq(Byte) /\ sent \in Nat /\ sent + n \in Nat /\ sent + n <= Len(stream) /\ sent <= sent + n
  BY DEF HttpTypeOK, Byte
<1>2. data \in Seq(Byte) /\ Len(data) = n /\ \A i \in 1..n : data[i] = stream[sent + i]
  BY <1>1, PartOf
<1>3. head \in Seq(Byte) /\ Len(head) = sent /\ \A i \in 1..sent : head[i] = stream[i]
  BY <1>1
<1>4. BufferOK(input) /\ to_string(input) \in Seq(Byte)
  BY ReadableBytes DEF HttpTypeOK, Buf
<1>5. BufferOK(b) /\ to_string(b) = to_string(input) \o data
  <2> HIDE DEF data
  <2> QED
    BY <1>2, <1>4, ReadBytes
<1>6. b \in Buf
  <2> HIDE DEF b
  <2> QED
    BY <1>5 DEF Buf, BufferOK
<1>7. SubSeq(stream, 1, sent + n) = head \o data
  <2> DEFINE whole == SubSeq(stream, 1, sent + n)
  <2>1. whole \in Seq(Byte) /\ Len(whole) = sent + n /\ \A i \in 1..sent + n : whole[i] = stream[i]
    BY <1>1
  <2> HIDE DEF whole, head, data
  <2>2. head \o data \in Seq(Byte) /\ Len(head \o data) = sent + n
    BY <1>1, <1>2, <1>3
  <2>3. \A i \in 1..sent + n : (head \o data)[i] = stream[i]
    <3> TAKE i \in 1..sent + n
    <3>1. CASE i <= sent
      BY <1>1, <1>2, <1>3, <3>1
    <3>2. CASE i > sent
      <4>1. i - sent \in 1..n /\ sent + (i - sent) = i
        BY <1>1, <3>2
      <4>2. (head \o data)[i] = data[i - sent]
        BY <1>1, <1>2, <1>3, <3>2, SMTT(60)
      <4> QED
        BY <1>2, <4>1, <4>2
    <3>3. i <= sent \/ i > sent
      BY <1>1
    <3> QED
      BY <3>1, <3>2, <3>3
  <2>4. whole = head \o data
    BY <2>1, <2>2, <2>3, SeqEqual
  <2> QED
    BY <2>4 DEF whole
<1>8. After(sent) = Served(Base, head) /\ After(sent + n) = Served(Base, head \o data)
  BY <1>7 DEF After
<1> HIDE DEF head, data, b
<1>9. After(sent) \in Acc
  BY <1>3, <1>8, BaseType, ServedType
<1>10. After(sent + n) = Served(After(sent), data)
  BY <1>2, <1>3, <1>8, BaseType, ServedConcat
<1> QED
  BY <1>2, <1>4, <1>5, <1>6, <1>9, <1>10 DEF data, b

\* The invariant holds on a new connection.
LEMMA HttpStarts == HttpInit => HttpInv
<1> SUFFICES ASSUME HttpInit
             PROVE  HttpInv
  OBVIOUS
<1>1. stream \in Seq(Symbol) /\ sent = 0
  BY StreamsAssumption DEF HttpInit
<1>2. input \in Buf /\ to_string(input) = <<>>
  <2>1. BufferOK(NewBuffer) /\ to_string(NewBuffer) = <<>>
    BY NewOK
  <2> QED
    BY <2>1 DEF HttpInit, Buf, BufferOK
<1>3. HttpTypeOK
  BY <1>1, <1>2, BaseType DEF HttpInit, HttpTypeOK
<1>4. SubSeq(stream, 1, sent) = <<>>
  BY <1>1
<1>5. Resumes(context, answers, to_string(input), After(sent))
  BY <1>2, <1>4, BaseType DEF HttpInit, Resumes, After, Base
<1> QED
  BY <1>3, <1>5 DEF HttpInit, HttpInv

\* A message leaves the connection where the reference is after the same bytes.
LEMMA HttpGoesOn ==
  ASSUME HttpInv, NEW n \in 1..Len(stream), onMessage(n)
  PROVE  HttpInv'
<1> DEFINE data == SubSeq(stream, sent + 1, sent + n)
           b == read_fd(input, data)
           q == Parsed(n)
           W == After(sent)
           V == After(sent + n)
           got == q.ctx.state = "kGotAll"
<1>0. HttpTypeOK /\ n \in Nat /\ n <= Len(stream) - sent
  BY DEF HttpInv, onMessage, HttpTypeOK
<1>1. /\ data \in Seq(Byte) /\ b \in Buf
      /\ to_string(input) \in Seq(Byte) /\ to_string(b) = to_string(input) \o data
      /\ W \in Acc /\ V = Served(W, data)
  BY <1>0, Arrival
<1>2. q = parseRequest(context, b)
  BY DEF Parsed
<1>3. sent' = sent + n /\ stream' = stream /\ After(sent)' = V
  BY DEF onMessage, After
<1>4. /\ input' = q.buf
      /\ context' = IF got THEN NewContext ELSE q.ctx
      /\ open' = (open /\ q.ok /\ ~(got /\ closes(q.ctx)))
  BY DEF onMessage, reset
<1>5. /\ ~open => answers' = answers
      /\ open /\ ~q.ok => answers' = answers \o <<"400">>
      /\ open /\ q.ok /\ got => answers' = answers \o <<Answer(q.ctx)>>
      /\ open /\ q.ok /\ ~got => answers' = answers \o <<>>
  BY DEF onMessage
<1> HIDE DEF data, b, q, W, V
<1>6. V \in Acc
  BY <1>1, ServedType
<1>7. context \in Context /\ context.state # "kGotAll" /\ answers \in Seq(Response) /\ open \in BOOLEAN
  BY <1>0 DEF HttpTypeOK
<1>8. q \in Parse
  BY <1>1, <1>2, <1>7, ParseResult
<1>9. /\ q.buf \in Buf /\ q.ctx \in Context /\ q.ok \in BOOLEAN
      /\ Answer(q.ctx) \in Response /\ closes(q.ctx) \in BOOLEAN /\ "400" \in Response
  <2>1. q.buf \in Buf /\ q.ctx \in Context /\ q.ok \in BOOLEAN
    BY <1>8 DEF Parse
  <2>2. <<>> \in Seq(Byte)
    OBVIOUS
  <2>3. Answer(q.ctx) \in Response /\ closes(q.ctx) \in BOOLEAN
    BY <2>1, <2>2, ContextTypes
  <2> QED
    BY <2>1, <2>3 DEF Response
<1>10. /\ answers \o <<"400">> = Append(answers, "400")
       /\ answers \o <<Answer(q.ctx)>> = Append(answers, Answer(q.ctx))
       /\ answers \o <<>> = answers
  BY <1>7, <1>9
<1>11. answers' \in Seq(Response)
  <2>1. /\ answers \o <<"400">> \in Seq(Response) /\ answers \o <<Answer(q.ctx)>> \in Seq(Response)
        /\ answers \o <<>> \in Seq(Response)
    <3> DEFINE r == Answer(q.ctx)
               s == "400"
    <3>1. r \in Response /\ s \in Response
      BY <1>9
    <3> HIDE DEF r, s
    <3>2. <<r>> \in Seq(Response) /\ <<s>> \in Seq(Response) /\ <<>> \in Seq(Response)
      BY <3>1
    <3>3. answers \o <<r>> \in Seq(Response) /\ answers \o <<s>> \in Seq(Response)
      BY <1>7, <3>2
    <3> QED
      BY <1>7, <1>10, <3>3 DEF r, s
  <2> QED
    BY <1>5, <1>7, <1>9, <2>1
<1>12. HttpTypeOK'
  <2>1. sent' \in 0..Len(stream') /\ stream' \in Seq(Symbol)
    BY <1>0, <1>3 DEF HttpTypeOK
  <2>2. context' \in Context /\ context'.state # "kGotAll"
    BY <1>4, <1>9, BaseType
  <2>3. input' \in Buf /\ open' \in BOOLEAN
    BY <1>4, <1>7, <1>9
  <2> QED
    BY <1>11, <2>1, <2>2, <2>3 DEF HttpTypeOK
<1>13. CASE ~open
  <2>1. Ended(answers, W)
    BY <1>13 DEF HttpInv, W
  <2>2. Ended(answers, V)
    BY <1>1, <2>1, ServedClosed DEF Ended
  <2>3. Ended(answers', V) /\ ~open'
    BY <1>4, <1>5, <1>13, <2>2
  <2> QED
    BY <1>3, <1>12, <2>3 DEF HttpInv
<1>14. CASE open
  <2>1. Resumes(context, answers, to_string(input), W)
    BY <1>14 DEF HttpInv, W
  <2>2. Resumes(context, answers, to_string(b), V)
    <3>1. PICK s \in Acc : /\ s.line = <<>> /\ s.ctx = context /\ s.out = answers /\ s.open
                           /\ Served(s, to_string(input)) = W
      BY <2>1 DEF Resumes
    <3>2. Served(s, to_string(b)) = V
      BY <1>1, <3>1, ServedConcat
    <3> QED
      BY <3>1, <3>2 DEF Resumes
  <2>3. LoopServes(q, answers, V)
    BY <1>1, <1>2, <1>6, <1>7, <2>2, ParseResult
  <2>4. CASE ~q.ok
    <3>1. Ended(answers', V) /\ ~open'
      BY <1>4, <1>5, <1>10, <1>14, <2>3, <2>4 DEF LoopServes
    <3> QED
      BY <1>3, <1>12, <3>1 DEF HttpInv
  <2>5. CASE q.ok /\ ~got
    <3>1. Resumes(q.ctx, answers, to_string(q.buf), V)
      BY <2>3, <2>5 DEF LoopServes
    <3>2. Resumes(context', answers', to_string(input'), V) /\ open'
      BY <1>4, <1>5, <1>10, <1>14, <2>5, <3>1
    <3> QED
      BY <1>3, <1>12, <3>2 DEF HttpInv
  <2>6. CASE q.ok /\ got /\ closes(q.ctx)
    <3>1. Ended(answers', V) /\ ~open'
      BY <1>4, <1>5, <1>10, <1>14, <2>3, <2>6 DEF LoopServes
    <3> QED
      BY <1>3, <1>12, <3>1 DEF HttpInv
  <2>7. CASE q.ok /\ got /\ ~closes(q.ctx)
    <3>1. Resumes(NewContext, Append(answers, Answer(q.ctx)), to_string(q.buf), V)
      BY <2>3, <2>7 DEF LoopServes
    <3>2. Resumes(context', answers', to_string(input'), V) /\ open'
      BY <1>4, <1>5, <1>10, <1>14, <2>7, <3>1
    <3> QED
      BY <1>3, <1>12, <3>2 DEF HttpInv
  <2> QED
    BY <2>4, <2>5, <2>6, <2>7
<1> QED
  BY <1>7, <1>13, <1>14

\* The invariant of the connection.
LEMMA HttpInvariant == HttpSpec => []HttpInv
<1>1. HttpInit => HttpInv
  BY HttpStarts
<1>2. HttpInv /\ [HttpNext]_httpVars => HttpInv'
  <2> SUFFICES ASSUME HttpInv, [HttpNext]_httpVars
               PROVE  HttpInv'
    OBVIOUS
  <2>1. CASE HttpNext
    BY <2>1, HttpGoesOn DEF HttpNext
  <2>2. CASE UNCHANGED httpVars
    BY <2>2 DEF httpVars, HttpInv, HttpTypeOK, After, Base
  <2> QED
    BY <2>1, <2>2
<1> QED
  BY <1>1, <1>2, PTL DEF HttpSpec

\* From a state of the invariant parseRequest() comes back, whatever arrives.
LEMMA InvReturns ==
  ASSUME HttpInv
  PROVE  ParserReturns
<1> SUFFICES ASSUME NEW n \in 0..Len(stream) - sent
             PROVE  ~Parsed(n).hasMore
  BY DEF ParserReturns
<1> DEFINE b == read_fd(input, SubSeq(stream, sent + 1, sent + n))
<1>1. HttpTypeOK /\ n \in Nat /\ n <= Len(stream) - sent
  BY DEF HttpInv, HttpTypeOK
<1>2. b \in Buf
  BY <1>1, Arrival
<1>3. context \in Context /\ context.state # "kGotAll"
  BY <1>1 DEF HttpTypeOK
<1>4. Parsed(n) = parseRequest(context, b)
  BY DEF Parsed
<1> HIDE DEF b
<1> QED
  BY <1>2, <1>3, <1>4, ParseResult

\* The invariant says what the property says, with the answers sent put before
\* the ones the reference has still to give.
LEMMA InvConserves ==
  ASSUME HttpInv
  PROVE  RequestsConserved
<1> DEFINE text == to_string(input)
           W == After(sent)
           n0 == [line |-> <<>>, ctx |-> context, out |-> <<>>, open |-> open]
<1>1. HttpTypeOK /\ (open => Resumes(context, answers, text, W)) /\ (~open => Ended(answers, W))
  BY DEF HttpInv
<1>2. context \in Context /\ answers \in Seq(Response) /\ open \in BOOLEAN
  BY <1>1 DEF HttpTypeOK
<1>3. text \in Seq(Byte)
  BY <1>1, ReadableBytes DEF HttpTypeOK, Buf
<1>4. n0 \in Acc /\ n0.out = <<>> /\ (n0.open <=> open)
  BY <1>2 DEF Acc
<1>5. Wanted(context, text, open) = Served(n0, text).out
  BY DEF Wanted, Start
<1>6. Wanted(NewContext, SubSeq(stream, 1, sent), TRUE) = W.out
  BY DEF Wanted, Start, After, Base
<1>7. answers \o Served(n0, text).out = W.out
  <2>1. CASE open
    <3>1. PICK s \in Acc : /\ s.line = <<>> /\ s.ctx = context /\ s.out = answers /\ s.open
                           /\ Served(s, text) = W
      BY <1>1, <2>1 DEF Resumes
    <3>2. [n0 EXCEPT !.out = answers] = s
      <4> DEFINE m == [n0 EXCEPT !.out = answers]
      <4>1. n0.line = <<>> /\ n0.ctx = context
        OBVIOUS
      <4> HIDE DEF n0
      <4>2. m \in Acc
        BY <1>2, <1>4 DEF Acc
      <4>3. m.line = s.line /\ m.ctx = s.ctx /\ m.out = s.out
        BY <1>4, <3>1, <4>1 DEF Acc
      <4>4. m.open = s.open
        <5>1. m.open = n0.open
          BY <1>4 DEF Acc
        <5>2. n0.open \in BOOLEAN /\ s.open \in BOOLEAN
          BY <1>4 DEF Acc
        <5> QED
          BY <1>4, <2>1, <3>1, <5>1, <5>2, Zenon
      <4> HIDE DEF m
      <4>5. m = s
        BY <4>2, <4>3, <4>4 DEF Acc
      <4> QED
        BY <4>5 DEF m
    <3> HIDE DEF n0, text, W
    <3>3. Served([n0 EXCEPT !.out = answers], text).out = answers \o Served(n0, text).out
      BY <1>2, <1>3, <1>4, ServedOut
    <3> QED
      BY <3>1, <3>2, <3>3
  <2>2. CASE ~open
    <3> HIDE DEF n0, text, W
    <3>1. Served(n0, text).out = <<>>
      BY <1>3, <1>4, <2>2, ServedClosed
    <3>2. answers \o <<>> = answers
      BY <1>2
    <3> QED
      BY <1>1, <2>2, <3>1, <3>2 DEF Ended
  <2> QED
    BY <2>1, <2>2
<1> QED
  BY <1>5, <1>6, <1>7, InvReturns DEF RequestsConserved

\* However TCP cuts what a client sends, the answers HttpServer has sent and those
\* that _input_buffer and the HttpContext still call for are together the answers to
\* the text that arrived: no request is lost, split or answered twice; and
\* parseRequest() comes back from whatever arrives next.
THEOREM RequestsNeverLost == HttpSpec => []RequestsConserved
<1>1. HttpInv => RequestsConserved
  BY InvConserves
<1> QED
  BY <1>1, HttpInvariant, PTL

\* The loop of HttpContext::parseRequest() ends, whatever bytes arrive next: it never
\* meets state kGotAll, for which it has no branch, and each turn takes a line.
THEOREM ParserAlwaysReturns == HttpSpec => []ParserReturns
<1>1. HttpInv => ParserReturns
  BY InvReturns
<1> QED
  BY <1>1, HttpInvariant, PTL
=============================================================================
