-------------------------- MODULE TimerQueueProofs --------------------------
(***************************************************************************)
(* Proofs about TimerQueue, for any delays and intervals, any number of    *)
(* timers and any time, whatever callbacks add and cancel.                 *)
(***************************************************************************)
EXTENDS TimerQueue, FiniteSetTheorems, WellFoundedInduction, TLAPS

(***************************************************************************)
(* The order of the map.                                                   *)
(***************************************************************************)
\* A key is its two parts; no key is end().
LEMMA Keys ==
  /\ \A k \in Key : When(k) \in Nat /\ KeyId(k) \in Id /\ k = <<When(k), KeyId(k)>>
  /\ \A t \in Nat, i \in Id : <<t, i>> \in Key /\ When(<<t, i>>) = t /\ KeyId(<<t, i>>) = i
  /\ End \notin Key
  BY BoundsAssumption DEF Key, When, KeyId, Id, End

\* std::pair's operator< is a strict total order on the keys.
LEMMA LessOrders ==
  ASSUME NEW j \in Key, NEW k \in Key, NEW l \in Key
  PROVE  /\ ~Less(j, j)
         /\ Less(j, k) => ~Less(k, j)
         /\ Less(j, k) /\ Less(k, l) => Less(j, l)
         /\ j # k => Less(j, k) \/ Less(k, j)
         /\ ~Less(j, k) => When(k) <= When(j)
<1>1. /\ When(j) \in Nat /\ KeyId(j) \in Int /\ When(k) \in Nat /\ KeyId(k) \in Int
      /\ When(l) \in Nat /\ KeyId(l) \in Int
  BY Keys, BoundsAssumption DEF Id
<1>2. j # k => When(j) # When(k) \/ KeyId(j) # KeyId(k)
  BY Keys
<1> QED
  BY <1>1, <1>2 DEF Less

\* A nonempty set of naturals has a least element.
LEMMA Least ==
  ASSUME NEW T \in SUBSET Nat, T # {}
  PROVE  \E x \in T : \A y \in T : x <= y
<1> DEFINE R == {ss \in Nat \X Nat : ss[1] < ss[2]}
<1>1. IsWellFoundedOn(R, Nat)
  BY NatLessThanWellFounded, Zenon DEF OpToRel
<1>2. PICK x \in T : \A y \in T : ~(<<y, x>> \in R)
  <2> HIDE DEF R
  <2> QED
    BY <1>1, WFMin
<1>3. \A y \in T : ~(y < x)
  BY <1>2
<1> QED
  BY <1>3

\* begin() of a map that is not empty is its least key.
LEMMA FirstIsLeast ==
  ASSUME NEW S \in SUBSET Key, S # {}
  PROVE  /\ First(S) \in S
         /\ \A j \in S : ~Less(j, First(S))
<1>1. PICK t \in {When(k) : k \in S} : \A u \in {When(k) : k \in S} : t <= u
  <2>1. {When(k) : k \in S} \in SUBSET Nat /\ {When(k) : k \in S} # {}
    BY Keys
  <2> QED
    BY <2>1, Least
<1> DEFINE earliest == {k \in S : When(k) = t}
<1>2. PICK i \in {KeyId(k) : k \in earliest} : \A u \in {KeyId(k) : k \in earliest} : i <= u
  <2>1. {KeyId(k) : k \in earliest} \in SUBSET Nat /\ {KeyId(k) : k \in earliest} # {}
    BY <1>1, Keys, BoundsAssumption DEF Id
  <2> QED
    BY <2>1, Least
<1>3. PICK k \in S : When(k) = t /\ KeyId(k) = i
  BY <1>2
<1>4. \A j \in S \ {k} : Less(k, j)
  <2> SUFFICES ASSUME NEW j \in S \ {k} PROVE Less(k, j)
    OBVIOUS
  <2>1. t <= When(j) /\ (When(j) = t => i <= KeyId(j))
    BY <1>1, <1>2
  <2>2. When(j) # t \/ KeyId(j) # i
    BY <1>3, Keys
  <2>3. When(j) \in Nat /\ KeyId(j) \in Int /\ t \in Nat /\ i \in Int
    BY <1>3, Keys, BoundsAssumption DEF Id
  <2> QED
    BY <1>3, <2>1, <2>2, <2>3 DEF Less
<1>5. First(S) \in S /\ \A j \in S \ {First(S)} : Less(First(S), j)
  BY <1>4 DEF First
<1> QED
  BY <1>5, LessOrders

(***************************************************************************)
(* The invariant.  During a pass the position of the walk splits the map:  *)
(* before it are the timers already run and those that a callback added    *)
(* there, which are lost; the index holds the others.  Since iter is an    *)
(* entry too, or end(), the walk meets it and never passes it, and what    *)
(* erase() drops at the end is exactly what lies before it.                *)
(***************************************************************************)
Expired == {expired[n] : n \in 1..Len(expired)}

TimerTypeOK ==
  /\ now \in Nat /\ fd \in Nat /\ hnow \in Nat
  /\ timers \in SUBSET Key
  /\ active \in SUBSET Id /\ lost \in SUBSET Id /\ fired \in SUBSET Id /\ cancelled \in SUBSET Id
  /\ interval \in [Id -> Nat]
  /\ nextId \in Nat \ {0}
  /\ pc \in {"idle", "walk", "callback"}
  /\ expired \in Seq(Id) /\ cancels \in Seq(Id)

\* Ids are given out once, and each names one entry at most.
IdsIssued ==
  /\ Ids(timers) \cup active \cup lost \cup fired \cup cancelled \subseteq 1..(nextId - 1)
  /\ \A n \in 1..Len(cancels) : cancels[n] \in 1..(nextId - 1)

OneEntry == \A j, k \in timers : KeyId(j) = KeyId(k) => j = k

\* The walk has not passed iter.
WalkInside ==
  pc # "idle" => /\ iter = End \/ (iter \in timers /\ ptr # End /\ ~Less(iter, ptr))
                 /\ ptr = End \/ ptr \in timers
                 /\ pc = "callback" => ptr # iter

Before(k) == ptr = End \/ Less(k, ptr)

WalkSplits ==
  pc # "idle" => /\ \A k \in timers : Before(k) <=> KeyId(k) \in Expired \cup lost
                 /\ Expired \subseteq Ids(timers) \ lost

IndexSplits ==
  /\ active \ lost = Ids(timers) \ ((IF pc = "idle" THEN {} ELSE Expired) \cup lost)
  /\ pc = "idle" => Ids(timers) \cap lost = {}

CancelledGone == Ids(timers) \cap cancelled = {}

FiredGone ==
  \A i \in fired :
    /\ interval[i] = 0
    /\ i \in Ids(timers) => /\ pc # "idle"
                            /\ i \in Expired \/ (pc = "callback" /\ i = KeyId(ptr))

MapInv == TimerTypeOK /\ IdsIssued /\ OneEntry /\ WalkInside /\ WalkSplits /\ IndexSplits
TimerInv == MapInv /\ CancelledGone /\ FiredGone /\ TimerFdArmed

\* Ids(S) holds the ids of the keys of S.
LEMMA IdsOf ==
  /\ \A S : \A k \in S : KeyId(k) \in Ids(S)
  /\ \A S : \A i \in Ids(S) : \E k \in S : KeyId(k) = i
  BY DEF Ids

\* The steps that leave the map, its index and the position of the walk alone.
LEMMA ApartStep ==
  ASSUME TimerInv, poll \/ tick \/ \E i \in Id : cancel(i)
  PROVE  TimerInv'
<1> USE DEF TimerInv, MapInv, passVars
<1>1. UNCHANGED <<timers, active, interval, nextId, fd, pc, hnow, iter, ptr, expired, lost,
                  fired, cancelled>>
  BY DEF poll, tick, cancel
<1>2. /\ Expired' = Expired /\ Ids(timers)' = Ids(timers)
      /\ \A k : Before(k)' <=> Before(k)
  BY <1>1 DEF Expired, Ids, Before
<1>3. now' \in Nat /\ now <= now'
  BY DEF poll, tick, cancel, TimerTypeOK
<1>4. cancels' \in Seq(Id) /\ \A n \in 1..Len(cancels') : cancels'[n] \in 1..(nextId - 1)
  <2>1. CASE poll \/ tick
    BY <2>1 DEF poll, tick, TimerTypeOK, IdsIssued
  <2>2. ASSUME NEW i \in Id, cancel(i)
        PROVE  cancels' \in Seq(Id) /\ \A n \in 1..Len(cancels') : cancels'[n] \in 1..(nextId - 1)
    <3>1. i \in 1..(nextId - 1) /\ cancels' = Append(cancels, i)
      BY <2>2 DEF cancel, Id, TimerTypeOK
    <3> QED
      BY <3>1 DEF TimerTypeOK, IdsIssued
  <2> QED
    BY <2>1, <2>2
<1>5. TimerTypeOK'
  BY <1>1, <1>3, <1>4 DEF TimerTypeOK
<1>6. IdsIssued'
  BY <1>1, <1>2, <1>4 DEF IdsIssued
<1>7. OneEntry' /\ WalkInside'
  BY <1>1 DEF OneEntry, WalkInside
<1>8. WalkSplits' /\ IndexSplits'
  BY <1>1, <1>2 DEF WalkSplits, IndexSplits
<1>9. CancelledGone' /\ FiredGone'
  BY <1>1, <1>2 DEF CancelledGone, FiredGone
<1>10. TimerFdArmed'
  <2>0. now \in Nat /\ fd \in Nat
    BY DEF TimerTypeOK
  <2>1. \A a, b, c \in Nat : c <= a + 1 /\ a <= b => c <= b + 1
    OBVIOUS
  <2>2. fd <= now + 1 => fd <= now' + 1
    BY <1>3, <2>0, <2>1
  <2> QED
    BY <1>1, <2>2 DEF TimerFdArmed
<1> QED
  BY <1>5, <1>6, <1>7, <1>8, <1>9, <1>10

\* A new timer: it lies before the position of the walk exactly if it is lost.
LEMMA AddStep ==
  ASSUME TimerInv, NEW when \in Nat, NEW ival \in Nat, add_timer(when, ival)
  PROVE  TimerInv'
<1> USE DEF TimerInv, MapInv
<1> DEFINE k0 == <<when, nextId>>
<1>1. /\ nextId \in Id /\ k0 \in Key /\ When(k0) = when /\ KeyId(k0) = nextId
      /\ pc \in {"idle", "callback"}
  BY Keys DEF add_timer, CanCall, Id, TimerTypeOK
<1> HIDE DEF k0
<1>2. /\ timers' = timers \cup {k0} /\ active' = active \cup {nextId} /\ nextId' = nextId + 1
      /\ interval' = [interval EXCEPT ![nextId] = ival]
      /\ lost' = IF pc = "callback" /\ Less(k0, ptr) THEN lost \cup {nextId} ELSE lost
      /\ UNCHANGED <<now, pc, hnow, iter, ptr, expired, cancels, fired, cancelled>>
  BY DEF add_timer, passVars, k0
<1>3. /\ Expired' = Expired /\ \A k : Before(k)' <=> Before(k)
      /\ Ids(timers)' = Ids(timers) \cup {nextId}
  BY <1>1, <1>2 DEF Expired, Before, Ids
<1>4. /\ nextId \notin Ids(timers) \cup active \cup lost \cup fired \cup cancelled
      /\ pc # "idle" => nextId \notin Expired
  BY DEF IdsIssued, WalkSplits, TimerTypeOK
<1>5. TimerTypeOK'
  <2>1. fd' \in Nat
    BY DEF add_timer, reset_timer_fd, TimerTypeOK
  <2> QED
    BY <1>1, <1>2, <2>1, SMTT(60) DEF TimerTypeOK
<1>6. IdsIssued'
  <2>1. 1..(nextId' - 1) = 1..(nextId - 1) \cup {nextId}
    BY <1>2 DEF TimerTypeOK
  <2> QED
    BY <1>2, <1>3, <2>1 DEF IdsIssued
<1>7. OneEntry'
  BY <1>1, <1>2, <1>4, IdsOf DEF OneEntry
<1>8. WalkInside'
  BY <1>2 DEF WalkInside
<1>9. WalkSplits'
  <2>1. pc = "callback" => ptr # End
    BY DEF WalkInside
  <2> SUFFICES ASSUME pc = "callback"
               PROVE  /\ \A k \in timers' : Before(k) <=> KeyId(k) \in Expired \cup lost'
                      /\ Expired \subseteq (Ids(timers) \cup {nextId}) \ lost'
    BY <1>1, <1>2, <1>3 DEF WalkSplits
  <2>2. Before(k0) <=> KeyId(k0) \in Expired \cup lost'
    BY <1>1, <1>2, <1>4, <2>1 DEF Before
  <2>3. \A k \in timers : KeyId(k) # nextId
    BY <1>4, IdsOf
  <2>4. \A k \in timers : Before(k) <=> KeyId(k) \in Expired \cup lost'
    BY <1>2, <2>3 DEF WalkSplits
  <2> QED
    BY <1>2, <1>4, <2>2, <2>4 DEF WalkSplits
<1>10. IndexSplits'
  BY <1>1, <1>2, <1>3, <1>4 DEF IndexSplits
<1>11. CancelledGone'
  BY <1>2, <1>3, <1>4 DEF CancelledGone
<1>12. FiredGone'
  BY <1>1, <1>2, <1>3, <1>4 DEF FiredGone, TimerTypeOK
<1>13. TimerFdArmed'
  <2> SUFFICES ASSUME pc = "idle"
               PROVE  fd' # Never /\ (fd' <= now + 1 \/ \A k \in timers' : fd' <= When(k))
    BY <1>2 DEF TimerFdArmed
  <2>0. \A k \in timers : When(k) \in Nat
    BY Keys DEF TimerTypeOK
  <2>1. CASE insert(timers, when)
    <3>1. fd' = reset_timer_fd(when)
      BY <2>1 DEF add_timer
    <3>2. fd' # Never /\ (fd' <= now + 1 \/ fd' = when)
      BY <3>1 DEF reset_timer_fd, Never, TimerTypeOK
    <3>3. \A k \in timers : when <= When(k)
      BY <2>0, <2>1 DEF insert
    <3> QED
      BY <1>1, <1>2, <3>2, <3>3
  <2>2. CASE ~insert(timers, when)
    <3>1. fd' = fd
      BY <2>2 DEF add_timer
    <3>2. PICK k \in timers : When(k) <= when
      BY <2>0, <2>2 DEF insert
    <3>3. fd # Never /\ (fd <= now + 1 \/ \A j \in timers : fd <= When(j))
      BY <3>2 DEF TimerFdArmed
    <3>4. fd <= When(k) => fd <= when
      BY <2>0, <3>2 DEF TimerTypeOK
    <3> QED
      BY <1>1, <1>2, <3>1, <3>2, <3>3, <3>4
  <2> QED
    BY <2>1, <2>2
<1> QED
  BY <1>5, <1>6, <1>7, <1>8, <1>9, <1>10, <1>11, <1>12, <1>13

\* Between two passes the index holds every entry's id: the map loses exactly
\* the timer that is cancelled.
LEMMA CancelStep ==
  ASSUME TimerInv, cancel_in_loop
  PROVE  TimerInv'
<1> USE DEF TimerInv, MapInv
<1>1. PICK i : i = Head(cancels)
  OBVIOUS
<1>2. /\ pc = "idle" /\ i \in Id /\ i \in 1..(nextId - 1)
      /\ cancels' \in Seq(Id) /\ \A n \in 1..Len(cancels') : cancels'[n] \in 1..(nextId - 1)
  BY <1>1 DEF cancel_in_loop, TimerTypeOK, IdsIssued
<1>3. /\ timers' = IF i \in active THEN {k \in timers : KeyId(k) # i} ELSE timers
      /\ active' = active \ {i} /\ cancelled' = cancelled \cup {i}
      /\ UNCHANGED <<now, interval, nextId, fd, pc, hnow, iter, ptr, expired, lost, fired>>
  BY <1>1 DEF cancel_in_loop, passVars
<1>4. Ids(timers) \subseteq active
  BY <1>2 DEF IndexSplits
<1>5. timers' = {k \in timers : KeyId(k) # i}
  BY <1>3, <1>4, IdsOf
<1>6. Ids(timers)' = Ids(timers) \ {i}
  BY <1>5 DEF Ids
<1>7. TimerTypeOK'
  BY <1>2, <1>3, <1>5 DEF TimerTypeOK
<1>8. IdsIssued'
  BY <1>2, <1>3, <1>6 DEF IdsIssued
<1>9. OneEntry' /\ WalkInside' /\ WalkSplits'
  BY <1>2, <1>3, <1>5 DEF OneEntry, WalkInside, WalkSplits
<1>10. IndexSplits' /\ CancelledGone' /\ FiredGone'
  BY <1>2, <1>3, <1>6 DEF IndexSplits, CancelledGone, FiredGone
<1>11. TimerFdArmed'
  BY <1>3, <1>5 DEF TimerFdArmed
<1> QED
  BY <1>7, <1>8, <1>9, <1>10, <1>11

\* A pass begins: nothing lies before the first entry.
LEMMA ReadStep ==
  ASSUME TimerInv, handle_read
  PROVE  TimerInv'
<1> USE DEF TimerInv, MapInv
<1>1. /\ pc = "idle" /\ pc' = "walk" /\ hnow' = now /\ fd' \in {Never, fd} /\ expired' = <<>>
      /\ iter' = First({k \in timers : When(k) > now}) /\ ptr' = First(timers)
      /\ UNCHANGED <<now, timers, active, interval, nextId, cancels, lost, fired, cancelled>>
  BY DEF handle_read, lower_bound
<1>2. Expired' = {}
  BY <1>1 DEF Expired
<1>3. timers \in SUBSET Key
  BY DEF TimerTypeOK
<1>4. timers = {} => iter' = End /\ ptr' = End
  BY <1>1 DEF First
<1>5. timers # {} => ptr' \in timers /\ \A j \in timers : ~Less(j, ptr')
  BY <1>1, <1>3, FirstIsLeast
<1>6. iter' = End \/ iter' \in timers
  <2> DEFINE S == {k \in timers : When(k) > now}
  <2>1. S = {} => iter' = End
    BY <1>1 DEF First
  <2>2. S # {} => iter' \in S
    BY <1>1, <1>3, FirstIsLeast
  <2> QED
    BY <2>1, <2>2
<1>7. TimerTypeOK'
  BY <1>1 DEF TimerTypeOK, Never
<1>8. IdsIssued' /\ OneEntry' /\ CancelledGone'
  BY <1>1 DEF IdsIssued, OneEntry, CancelledGone, Ids
<1>9. WalkInside'
  BY <1>1, <1>3, <1>4, <1>5, <1>6, Keys DEF WalkInside
<1>10. WalkSplits'
  <2>1. \A k \in timers : ~Before(k)'
    BY <1>1, <1>3, <1>5, Keys DEF Before
  <2>2. \A k \in timers : KeyId(k) \notin lost
    BY <1>1, IdsOf DEF IndexSplits
  <2> QED
    BY <1>1, <1>2, <2>1, <2>2 DEF WalkSplits
<1>11. IndexSplits'
  BY <1>1, <1>2 DEF IndexSplits, Ids
<1>12. FiredGone'
  BY <1>1 DEF FiredGone, Ids
<1>13. TimerFdArmed'
  BY <1>1 DEF TimerFdArmed
<1> QED
  BY <1>7, <1>8, <1>9, <1>10, <1>11, <1>12, <1>13

\* In the loop's body the walk stands on an entry, one that was neither run in
\* this pass nor lost.
LEMMA WalkStands ==
  ASSUME TimerInv, pc # "idle", ptr # iter
  PROVE  /\ ptr \in timers /\ ptr \in Key
         /\ KeyId(ptr) \in Id /\ KeyId(ptr) \in Ids(timers) \ (Expired \cup lost \cup cancelled)
<1> USE DEF TimerInv, MapInv
<1>1. ptr \in timers /\ ptr \in Key
  BY DEF WalkInside, TimerTypeOK
<1>2. ~Before(ptr)
  BY <1>1, Keys, LessOrders DEF Before
<1> QED
  BY <1>1, <1>2, Keys, IdsOf DEF WalkSplits, CancelledGone

\* A callback is called: the timer was not run before, if it is a one-shot.
LEMMA RunStep ==
  ASSUME TimerInv, run_timer
  PROVE  TimerInv' /\ (KeyId(ptr) \notin fired)
<1> USE DEF TimerInv, MapInv
<1>1. /\ pc = "walk" /\ pc' = "callback" /\ ptr # iter
      /\ fired' = IF interval[KeyId(ptr)] = 0 THEN fired \cup {KeyId(ptr)} ELSE fired
      /\ UNCHANGED <<now, timers, active, interval, nextId, fd, hnow, iter, ptr, expired, cancels,
                     lost, cancelled>>
  BY DEF run_timer
<1>2. KeyId(ptr) \in Id /\ KeyId(ptr) \in Ids(timers) \ Expired
  BY <1>1, WalkStands
<1>3. Expired' = Expired /\ Ids(timers)' = Ids(timers) /\ \A k : Before(k)' <=> Before(k)
  BY <1>1 DEF Expired, Ids, Before
<1>4. KeyId(ptr) \notin fired
  BY <1>1, <1>2 DEF FiredGone
<1>5. TimerTypeOK' /\ IdsIssued'
  BY <1>1, <1>2, <1>3 DEF TimerTypeOK, IdsIssued
<1>6. OneEntry' /\ WalkInside' /\ WalkSplits' /\ IndexSplits'
  BY <1>1, <1>3 DEF OneEntry, WalkInside, WalkSplits, IndexSplits
<1>7. CancelledGone' /\ FiredGone' /\ TimerFdArmed'
  BY <1>1, <1>2, <1>3 DEF CancelledGone, FiredGone, TimerFdArmed
<1> QED
  BY <1>4, <1>5, <1>6, <1>7

\* The walk advances: it passes the entry it stood on and no other.
LEMMA DoneStep ==
  ASSUME TimerInv, timer_done
  PROVE  TimerInv'
<1> USE DEF TimerInv, MapInv
<1> DEFINE S == {j \in timers : Less(ptr, j)}
<1>1. /\ pc = "callback" /\ pc' = "walk" /\ ptr' = First(S)
      /\ active' = active \ {KeyId(ptr)} /\ expired' = Append(expired, KeyId(ptr))
      /\ UNCHANGED <<now, timers, interval, nextId, fd, hnow, iter, cancels, lost, fired,
                     cancelled>>
  BY DEF timer_done, Successor
<1>2. ptr # iter
  BY <1>1 DEF WalkInside
<1>3. /\ ptr \in timers /\ ptr \in Key /\ KeyId(ptr) \in Id
      /\ KeyId(ptr) \in Ids(timers) \ (Expired \cup lost)
  BY <1>1, <1>2, WalkStands
<1>4. Expired' = Expired \cup {KeyId(ptr)}
  BY <1>1, <1>3, SMTT(60) DEF Expired, TimerTypeOK
<1>5. S \in SUBSET Key /\ timers \in SUBSET Key
  BY DEF TimerTypeOK
<1>6. S = {} => ptr' = End
  BY <1>1 DEF First
<1>7. S # {} => ptr' \in S /\ \A j \in S : ~Less(j, ptr')
  <2> HIDE DEF S
  <2> QED
    BY <1>1, <1>5, FirstIsLeast
<1>8. \A k \in timers : Before(k)' <=> Before(k) \/ k = ptr
  <2> SUFFICES ASSUME NEW k \in timers
               PROVE  Before(k)' <=> Less(k, ptr) \/ k = ptr
    BY <1>3, Keys DEF Before
  <2>1. k \in Key
    BY <1>5
  <2>2. (Less(k, ptr) \/ k = ptr) <=> k \notin S
    BY <1>3, <2>1, LessOrders
  <2>3. CASE S = {}
    BY <1>6, <2>2, <2>3 DEF Before
  <2>4. CASE S # {}
    <3>1. ptr' \in Key /\ Less(ptr, ptr') /\ ptr' # End
      BY <1>5, <1>7, <2>4, Keys
    <3>2. k \in S => ~Less(k, ptr')
      BY <1>7, <2>4
    <3>3. (Less(k, ptr) \/ k = ptr) => Less(k, ptr')
      BY <1>3, <2>1, <3>1, LessOrders
    <3> QED
      BY <2>2, <3>1, <3>2, <3>3 DEF Before
  <2> QED
    BY <2>3, <2>4
<1>9. WalkInside'
  <2>1. iter # End => iter \in S
    <3>1. iter # End => iter \in timers /\ iter \in Key /\ ~Less(iter, ptr)
      BY <1>1, <1>5 DEF WalkInside
    <3> QED
      BY <1>2, <1>3, <3>1, LessOrders
  <2>2. iter # End => iter \in timers /\ ptr' # End /\ ~Less(iter, ptr')
    BY <1>5, <1>7, <2>1, Keys
  <2>3. ptr' = End \/ ptr' \in timers
    BY <1>6, <1>7
  <2> QED
    BY <1>1, <2>2, <2>3 DEF WalkInside
<1>10. WalkSplits'
  <2>1. \A k \in timers : k = ptr <=> KeyId(k) = KeyId(ptr)
    BY <1>3 DEF OneEntry
  <2>2. \A k \in timers : Before(k)' <=> KeyId(k) \in Expired' \cup lost
    BY <1>1, <1>4, <1>8, <2>1 DEF WalkSplits
  <2>3. Expired' \subseteq Ids(timers) \ lost
    BY <1>1, <1>3, <1>4 DEF WalkSplits
  <2> QED
    BY <1>1, <2>2, <2>3 DEF WalkSplits, Ids
<1>11. TimerTypeOK'
  BY <1>1, <1>3 DEF TimerTypeOK
<1>12. IdsIssued' /\ OneEntry' /\ CancelledGone' /\ TimerFdArmed'
  BY <1>1 DEF IdsIssued, OneEntry, CancelledGone, TimerFdArmed, Ids
<1>13. IndexSplits'
  BY <1>1, <1>3, <1>4 DEF IndexSplits, Ids
<1>14. FiredGone'
  BY <1>1, <1>4 DEF FiredGone, Ids
<1> QED
  BY <1>9, <1>10, <1>11, <1>12, <1>13, <1>14

\* A pass ends at iter: erase() spares what was neither run nor lost, and
\* reset() puts back, under the same ids, the repeating timers that were run.
LEMMA FinishStep ==
  ASSUME TimerInv, finish
  PROVE  TimerInv'
<1> USE DEF TimerInv, MapInv
<1>1. /\ pc = "walk" /\ pc' = "idle" /\ ptr = iter /\ timers' = Spared \cup Restarted
      /\ active' = active \cup Ids(Restarted)
      /\ fd' = IF timers' = {} THEN fd ELSE reset_timer_fd(When(First(timers')))
      /\ UNCHANGED <<now, interval, nextId, hnow, expired, cancels, lost, fired, cancelled>>
  BY DEF finish
<1>2. Spared = {k \in timers : KeyId(k) \notin Expired \cup lost}
  BY <1>1 DEF Spared, WalkSplits, Before
<1> DEFINE Again == {i \in Expired : interval[i] > 0}
<1>3. Expired \subseteq Id /\ Expired \subseteq Ids(timers) \ lost
  BY <1>1 DEF WalkSplits, Expired, TimerTypeOK
<1>4. /\ Restarted \in SUBSET Key
      /\ Ids(Restarted) = Again
      /\ \A j, k \in Restarted : KeyId(j) = KeyId(k) => j = k
  <2>1. Restarted = {<<hnow + interval[i], i>> : i \in Again}
    BY DEF Restarted, Expired
  <2>2. \A i \in Again : i \in Id /\ hnow + interval[i] \in Nat
    BY <1>3 DEF TimerTypeOK
  <2>3. \A i \in Again : <<hnow + interval[i], i>> \in Key /\ KeyId(<<hnow + interval[i], i>>) = i
    BY <2>2, Keys
  <2> DEFINE entry(i) == <<hnow + interval[i], i>>
  <2>4. /\ \A i \in Again : entry(i) \in Restarted
        /\ \A k \in Restarted : \E i \in Again : k = entry(i)
        /\ \A i \in Again : entry(i) \in Key /\ KeyId(entry(i)) = i
    BY <2>1, <2>3
  <2> HIDE DEF Again, entry
  <2> QED
    BY <2>4 DEF Ids
<1>5. Ids(Spared) = Ids(timers) \ (Expired \cup lost)
  BY <1>2 DEF Ids
<1>6. Ids(timers)' = (Ids(timers) \ (Expired \cup lost)) \cup Again
  <2>1. Ids(timers)' = Ids(Spared) \cup Ids(Restarted)
    BY <1>1 DEF Ids
  <2> QED
    BY <1>4, <1>5, <2>1
<1>7. timers' \in SUBSET Key
  BY <1>1, <1>2, <1>4 DEF TimerTypeOK
<1>8. timers' # {} => First(timers') \in timers' /\ \A j \in timers' : ~Less(j, First(timers'))
  BY <1>7, FirstIsLeast
<1>9. timers' # {} => /\ When(First(timers')) \in Nat
                      /\ \A j \in timers' : When(First(timers')) <= When(j)
  BY <1>7, <1>8, Keys, LessOrders
<1>10. TimerTypeOK'
  <2>1. fd' \in Nat
    BY <1>1, <1>9 DEF TimerTypeOK, reset_timer_fd
  <2>2. active' \in SUBSET Id
    BY <1>1, <1>3, <1>4 DEF TimerTypeOK
  <2> QED
    BY <1>1, <1>7, <2>1, <2>2 DEF TimerTypeOK
<1>11. IdsIssued' /\ CancelledGone'
  BY <1>1, <1>3, <1>4, <1>6, ZenonT(60) DEF IdsIssued, CancelledGone
<1>12. OneEntry'
  <2>1. \A k \in Spared : KeyId(k) \notin Expired /\ k \in timers
    BY <1>2
  <2>2. \A k \in Restarted : KeyId(k) \in Expired
    BY <1>4, IdsOf
  <2> QED
    BY <1>1, <1>4, <2>1, <2>2 DEF OneEntry
<1>13. WalkInside' /\ WalkSplits'
  BY <1>1 DEF WalkInside, WalkSplits
<1>14. IndexSplits'
  <2>1. active \ lost = Ids(timers) \ (Expired \cup lost)
    BY <1>1 DEF IndexSplits
  <2> QED
    BY <1>1, <1>3, <1>4, <1>6, <2>1 DEF IndexSplits
<1>15. FiredGone'
  <2>1. \A i \in fired : interval[i] = 0 /\ (i \in Ids(timers) => i \in Expired)
    BY <1>1 DEF FiredGone
  <2>2. \A i \in fired : i \notin Again
    BY <2>1
  <2>3. \A i \in fired : i \notin Ids(timers)'
    BY <1>6, <2>1, <2>2
  <2> QED
    BY <1>1, <2>1, <2>3 DEF FiredGone
<1>16. TimerFdArmed'
  <2>1. ASSUME timers' # {}
        PROVE  fd' # Never /\ (fd' <= now + 1 \/ \A k \in timers' : fd' <= When(k))
    <3>1. fd' = reset_timer_fd(When(First(timers')))
      BY <1>1, <2>1
    <3>2. fd' # Never /\ (fd' <= now + 1 \/ fd' = When(First(timers')))
      BY <1>9, <2>1, <3>1 DEF reset_timer_fd, Never, TimerTypeOK
    <3> QED
      BY <1>9, <2>1, <3>2
  <2> QED
    BY <1>1, <2>1 DEF TimerFdArmed
<1> QED
  BY <1>10, <1>11, <1>12, <1>13, <1>14, <1>15, <1>16

(***************************************************************************)
(* The theorems.                                                           *)
(***************************************************************************)
\* Every step of the specification preserves the invariant.
LEMMA TimerStep ==
  ASSUME TimerInv, [Next]_vars
  PROVE  TimerInv'
<1>1. CASE UNCHANGED vars
  <2>1. /\ Expired' = Expired /\ Ids(timers)' = Ids(timers)
        /\ \A k : Before(k)' <=> Before(k)
    BY <1>1 DEF vars, passVars, Expired, Ids, Before
  <2>2. TimerTypeOK' /\ IdsIssued' /\ OneEntry' /\ WalkInside'
    BY <1>1, <2>1 DEF vars, passVars, TimerInv, MapInv, TimerTypeOK, IdsIssued, OneEntry, WalkInside
  <2>3. WalkSplits' /\ IndexSplits' /\ CancelledGone' /\ FiredGone' /\ TimerFdArmed'
    BY <1>1, <2>1 DEF vars, passVars, TimerInv, MapInv, WalkSplits, IndexSplits, CancelledGone,
                      FiredGone, TimerFdArmed
  <2> QED
    BY <2>2, <2>3 DEF TimerInv, MapInv
<1>2. now \in Nat
  BY DEF TimerInv, MapInv, TimerTypeOK
<1>3. ASSUME NEW d \in Delays \cup CallbackDelays, run_at(d) PROVE TimerInv'
  <2>1. now + d \in Nat
    BY <1>2, <1>3, DelaysAssumption DEF run_at
  <2> QED
    BY <1>3, <2>1, AddStep DEF run_at
<1>4. ASSUME NEW i \in Intervals, run_every(i) PROVE TimerInv'
  <2>1. i \in Nat /\ now + i \in Nat
    BY <1>2, IntervalsAssumption
  <2> QED
    BY <1>4, <2>1, AddStep DEF run_every
<1>5. CASE poll \/ tick \/ \E i \in Id : cancel(i)
  BY <1>5, ApartStep
<1> QED
  BY <1>1, <1>3, <1>4, <1>5, CancelStep, ReadStep, RunStep, DoneStep, FinishStep DEF Next, Pass

\* The strengthened invariant is inductive.
THEOREM TimerInvariance == Spec => []TimerInv
<1>1. Init => TimerInv
  <2> SUFFICES ASSUME Init PROVE TimerInv
    OBVIOUS
  <2>1. timers = {} /\ Ids(timers) = {} /\ Expired = {}
    BY DEF Init, Ids, Expired
  <2>2. TimerTypeOK /\ IdsIssued
    BY <2>1 DEF Init, TimerTypeOK, IdsIssued, Never
  <2>3. OneEntry /\ WalkInside /\ WalkSplits /\ IndexSplits
    BY <2>1 DEF Init, OneEntry, WalkInside, WalkSplits, IndexSplits
  <2>4. CancelledGone /\ FiredGone /\ TimerFdArmed
    BY <2>1 DEF Init, CancelledGone, FiredGone, TimerFdArmed
  <2> QED
    BY <2>2, <2>3, <2>4 DEF TimerInv, MapInv
<1> QED
  BY <1>1, TimerStep, PTL DEF Spec

\* While handle_read() runs callbacks, what these add and cancel never erases
\* the entries its two iterators point to.
THEOREM WalkIteratorsValid == Spec => []IteratorsValid
<1>1. TimerInv => IteratorsValid
  BY DEF TimerInv, MapInv, WalkInside, IteratorsValid
<1> QED
  BY <1>1, TimerInvariance, PTL

\* Between two passes a waiting timer has the timerfd armed, no later than the
\* earliest deadline or the least delay reset_timer_fd() asks for.
THEOREM WaitingTimerArmed == Spec => []TimerFdArmed
<1>1. TimerInv => TimerFdArmed
  BY DEF TimerInv
<1> QED
  BY <1>1, TimerInvariance, PTL

\* handle_read() calls no timer after cancel_in_loop() ran for it.
THEOREM CancelledNeverRun == Spec => []CancelFinal
<1>1. TimerInv => CancelFinal
  <2> SUFFICES ASSUME TimerInv, pc = "callback" PROVE KeyId(ptr) \notin cancelled
    BY DEF CancelFinal
  <2>1. ptr # iter
    BY DEF TimerInv, MapInv, WalkInside
  <2> QED
    BY <2>1, WalkStands
<1> QED
  BY <1>1, TimerInvariance, PTL

\* A map in which every id names one entry has as many entries as ids.
LEMMA OneEntryCounts ==
  ASSUME TimerTypeOK, OneEntry
  PROVE  Cardinality(timers) = Cardinality(Ids(timers))
<1>1. IsFiniteSet(Ids(timers))
  <2>1. Ids(timers) \subseteq Id
    BY Keys DEF TimerTypeOK, Ids
  <2>2. IsFiniteSet(Id)
    BY FS_Interval, BoundsAssumption DEF Id
  <2> QED
    BY <2>1, <2>2, FS_Subset
<1>2. ExistsBijection(Ids(timers), timers)
  <2> DEFINE f == [i \in Ids(timers) |-> CHOOSE k \in timers : KeyId(k) = i]
  <2>1. \A i \in Ids(timers) : f[i] \in timers /\ KeyId(f[i]) = i
    BY IdsOf
  <2>2. \A k \in timers : KeyId(k) \in Ids(timers) /\ f[KeyId(k)] = k
    BY <2>1, IdsOf DEF OneEntry
  <2>3. f \in [Ids(timers) -> timers]
    BY <2>1
  <2> HIDE DEF f
  <2>4. f \in Bijection(Ids(timers), timers)
    BY <2>1, <2>2, <2>3 DEF Bijection, Injection, Surjection, IsInjective
  <2> QED
    BY <2>4 DEF ExistsBijection
<1> QED
  BY <1>1, <1>2, FS_Bijection

\* Between two passes _timers and _active_timers hold the same timers, one
\* entry each, but for those a callback added behind the walk.
THEOREM MapAndIndexAgree == Spec => []IndexAgrees
<1>1. TimerInv => IndexAgrees
  BY OneEntryCounts DEF TimerInv, MapInv, IndexSplits, IndexAgrees
<1> QED
  BY <1>1, TimerInvariance, PTL

\* handle_read() calls a one-shot timer once at most, whatever is added to the
\* map while it walks.
THEOREM OneShotRunsOnce == Spec => OneShotOnce
<1>1. TimerInv /\ [Next]_vars => [pc = "walk" /\ pc' = "callback" => KeyId(ptr) \notin fired]_vars
  <2> SUFFICES ASSUME TimerInv, Next, pc = "walk", pc' = "callback"
               PROVE  KeyId(ptr) \notin fired
    BY DEF vars
  <2>1. run_timer
    BY DEF Next, Pass, run_at, run_every, add_timer, CanCall, cancel, cancel_in_loop, poll,
           handle_read, timer_done, finish, tick, passVars
  <2> QED
    BY <2>1, RunStep
<1> QED
  BY <1>1, TimerInvariance, PTL DEF Spec, OneShotOnce
=============================================================================
