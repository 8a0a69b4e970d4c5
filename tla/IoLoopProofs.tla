---------------------------- MODULE IoLoopProofs ----------------------------
(***************************************************************************)
(* What the proofs about TcpServer and Client share: facts about the       *)
(* sequences of tasks of an I/O loop (what it is in the middle of, the     *)
(* batch it runs and what is pending), and what the handlers of a          *)
(* TcpConnection do to its record.                                         *)
(***************************************************************************)
EXTENDS IoLoop, SequenceTheorems, TLAPS

\* At most one place of the sequence holds a member of X.
AtMostOne(s, X) == \A i, j \in 1..Len(s) : s[i] \in X /\ s[j] \in X => i = j
Without(s, X) == Entries(s) \cap X = {}

\* The same for three sequences together.
OnceIn(X, t, b, p) ==
  /\ AtMostOne(t, X) /\ AtMostOne(b, X) /\ AtMostOne(p, X)
  /\ Without(t, X) \/ (Without(b, X) /\ Without(p, X))
  /\ Without(b, X) \/ Without(p, X)

(***************************************************************************)
(* Sequences of tasks.                                                     *)
(***************************************************************************)
LEMMA EntriesOf ==
  ASSUME NEW S, NEW s \in Seq(S), NEW t \in Seq(S)
  PROVE  /\ Entries(<<>>) = {}
         /\ Entries(s) \subseteq S
         /\ Entries(s \o t) = Entries(s) \cup Entries(t)
         /\ \A e \in S : Entries(Append(s, e)) = Entries(s) \cup {e}
         /\ s # <<>> => /\ Head(s) \in S /\ Tail(s) \in Seq(S)
                        /\ Entries(s) = {Head(s)} \cup Entries(Tail(s))
<1>1. Entries(<<>>) = {} /\ Entries(s) \subseteq S
  BY DEF Entries
<1>2. Entries(s \o t) = Entries(s) \cup Entries(t)
  <2>1. /\ Len(s \o t) = Len(s) + Len(t) /\ Len(s) \in Nat /\ Len(t) \in Nat
        /\ \A i \in 1..Len(s) + Len(t) : (s \o t)[i] = IF i <= Len(s) THEN s[i] ELSE t[i - Len(s)]
    BY ConcatProperties
  <2>2. \A i \in 1..Len(s) + Len(t) : i \in 1..Len(s) \/ (~(i <= Len(s)) /\ i - Len(s) \in 1..Len(t))
    BY <2>1
  <2>3. \A i \in 1..Len(s) : i \in 1..Len(s) + Len(t) /\ (s \o t)[i] = s[i]
    BY <2>1
  <2>4. \A i \in 1..Len(t) : i + Len(s) \in 1..Len(s) + Len(t) /\ (s \o t)[i + Len(s)] = t[i]
    BY <2>1
  <2>5. Entries(s) \subseteq Entries(s \o t)
    BY <2>1, <2>3 DEF Entries
  <2>6. Entries(t) \subseteq Entries(s \o t)
    <3> SUFFICES ASSUME NEW i \in 1..Len(t) PROVE t[i] \in Entries(s \o t)
      BY DEF Entries
    <3>1. i + Len(s) \in 1..Len(s \o t) /\ (s \o t)[i + Len(s)] = t[i]
      BY <2>1, <2>4
    <3> QED
      BY <3>1 DEF Entries
  <2>7. Entries(s \o t) \subseteq Entries(s) \cup Entries(t)
    BY <2>1, <2>2 DEF Entries
  <2> QED
    BY <2>5, <2>6, <2>7
<1>3. ASSUME NEW e \in S PROVE Entries(Append(s, e)) = Entries(s) \cup {e}
  <2>1. /\ Len(Append(s, e)) = Len(s) + 1 /\ Len(s) \in Nat
        /\ \A i \in 1..Len(s) : Append(s, e)[i] = s[i]
        /\ Append(s, e)[Len(s) + 1] = e
    OBVIOUS
  <2>2. \A i \in 1..Len(s) + 1 : i \in 1..Len(s) \/ i = Len(s) + 1
    BY <2>1
  <2>3. Entries(Append(s, e)) \subseteq Entries(s) \cup {e}
    BY <2>1, <2>2 DEF Entries
  <2>4. Entries(s) \cup {e} \subseteq Entries(Append(s, e))
    BY <2>1 DEF Entries
  <2> QED
    BY <2>3, <2>4
<1>4. ASSUME s # <<>>
      PROVE  /\ Head(s) \in S /\ Tail(s) \in Seq(S)
             /\ Entries(s) = {Head(s)} \cup Entries(Tail(s))
  <2>1. /\ Head(s) = s[1] /\ Head(s) \in S /\ Tail(s) \in Seq(S)
        /\ Len(s) \in Nat \ {0} /\ Len(Tail(s)) = Len(s) - 1
        /\ \A i \in 1..Len(s) - 1 : Tail(s)[i] = s[i + 1]
    BY <1>4
  <2>2. \A i \in 1..Len(s) : i = 1 \/ i - 1 \in 1..Len(s) - 1
    BY <2>1
  <2>3. \A i \in 1..Len(s) - 1 : i + 1 \in 1..Len(s) /\ Tail(s)[i] = s[i + 1]
    BY <2>1
  <2>4. \A i \in 1..Len(s) : i = 1 \/ Tail(s)[i - 1] = s[i]
    BY <2>1, <2>2
  <2>5. Entries(s) \subseteq {Head(s)} \cup Entries(Tail(s))
    BY <2>1, <2>2, <2>4 DEF Entries
  <2>6. {Head(s)} \cup Entries(Tail(s)) \subseteq Entries(s)
    BY <2>1, <2>3 DEF Entries
  <2> QED
    BY <2>1, <2>5, <2>6
<1> QED
  BY <1>1, <1>2, <1>3, <1>4

LEMMA PairOf ==
  ASSUME NEW S, NEW a \in S, NEW b \in S
  PROVE  <<a>> \o <<b>> = <<a, b>>
<1>1. PICK s, t, u : s = <<a>> /\ t = <<b>> /\ u = <<a, b>>
  OBVIOUS
<1>2. s \in Seq(S) /\ t \in Seq(S) /\ u \in Seq(S)
  BY <1>1
<1>3. Len(s) = 1 /\ Len(t) = 1 /\ Len(u) = 2 /\ s[1] = a /\ t[1] = b /\ u[1] = a /\ u[2] = b
  BY <1>1
<1>4. s \o t \in Seq(S) /\ Len(s \o t) = 2 /\ (s \o t)[1] = a /\ (s \o t)[2] = b
  BY <1>2, <1>3, ConcatProperties
<1>5. \A i \in 1..2 : (s \o t)[i] = u[i]
  BY <1>3, <1>4
<1>6. s \o t = u
  BY <1>2, <1>3, <1>4, <1>5, SeqEqual
<1> QED
  BY <1>1, <1>6

LEMMA OneOf ==
  ASSUME NEW S, NEW s \in Seq(S), NEW t \in Seq(S), NEW X, AtMostOne(s, X), AtMostOne(t, X)
  PROVE  /\ Entries(s) \cap X = {} \/ Entries(t) \cap X = {} => AtMostOne(s \o t, X)
         /\ \A e \in S : e \notin X \/ Entries(s) \cap X = {} => AtMostOne(Append(s, e), X)
         /\ s # <<>> => /\ AtMostOne(Tail(s), X)
                        /\ Head(s) \in X => Entries(Tail(s)) \cap X = {}
<1>1. ASSUME Entries(s) \cap X = {} \/ Entries(t) \cap X = {}
      PROVE  AtMostOne(s \o t, X)
  <2>1. /\ Len(s \o t) = Len(s) + Len(t) /\ Len(s) \in Nat /\ Len(t) \in Nat
        /\ \A i \in 1..Len(s) + Len(t) : (s \o t)[i] = IF i <= Len(s) THEN s[i] ELSE t[i - Len(s)]
    BY ConcatProperties
  <2> SUFFICES ASSUME NEW i \in 1..Len(s) + Len(t), NEW j \in 1..Len(s) + Len(t),
                      (s \o t)[i] \in X, (s \o t)[j] \in X
               PROVE  i = j
    BY <2>1 DEF AtMostOne
  <2>2. \A k \in 1..Len(s) + Len(t) : (s \o t)[k] \in X =>
          \/ k \in 1..Len(s) /\ s[k] \in X
          \/ ~(k <= Len(s)) /\ k - Len(s) \in 1..Len(t) /\ t[k - Len(s)] \in X
    BY <2>1
  <2>3. CASE Entries(s) \cap X = {}
    <3>1. \A k \in 1..Len(s) : s[k] \notin X
      BY <2>3 DEF Entries
    <3>2. i - Len(s) = j - Len(s)
      BY <2>2, <3>1 DEF AtMostOne
    <3> QED
      BY <2>1, <3>2
  <2>4. CASE Entries(t) \cap X = {}
    <3>1. \A k \in 1..Len(t) : t[k] \notin X
      BY <2>4 DEF Entries
    <3> QED
      BY <2>2, <3>1 DEF AtMostOne
  <2> QED
    BY <1>1, <2>3, <2>4
<1>2. ASSUME NEW e \in S, e \notin X \/ Entries(s) \cap X = {}
      PROVE  AtMostOne(Append(s, e), X)
  <2>1. /\ Len(Append(s, e)) = Len(s) + 1 /\ Len(s) \in Nat
        /\ \A i \in 1..Len(s) : Append(s, e)[i] = s[i]
        /\ Append(s, e)[Len(s) + 1] = e
        /\ \A i \in 1..Len(s) + 1 : i \in 1..Len(s) \/ i = Len(s) + 1
    OBVIOUS
  <2>2. CASE e \notin X
    BY <2>1, <2>2 DEF AtMostOne
  <2>3. CASE Entries(s) \cap X = {}
    <3>1. \A i \in 1..Len(s) : s[i] \notin X
      BY <2>3 DEF Entries
    <3> QED
      BY <2>1, <3>1 DEF AtMostOne
  <2> QED
    BY <1>2, <2>2, <2>3
<1>3. ASSUME s # <<>>
      PROVE  AtMostOne(Tail(s), X) /\ (Head(s) \in X => Entries(Tail(s)) \cap X = {})
  <2>1. /\ Head(s) = s[1] /\ Tail(s) \in Seq(S) /\ Len(s) \in Nat \ {0} /\ 1 \in 1..Len(s)
        /\ Len(Tail(s)) = Len(s) - 1
    BY <1>3
  <2>2. \A i \in 1..Len(s) - 1 : Tail(s)[i] = s[i + 1] /\ i + 1 \in 1..Len(s) /\ i + 1 # 1 /\ i \in Nat
    BY <1>3, <2>1
  <2>3. ASSUME NEW i \in 1..Len(s) - 1, NEW j \in 1..Len(s) - 1, Tail(s)[i] \in X, Tail(s)[j] \in X
        PROVE  i = j
    <3>1. i + 1 = j + 1
      BY <2>2, <2>3 DEF AtMostOne
    <3> QED
      BY <2>2, <3>1
  <2>4. Head(s) \in X => \A i \in 1..Len(s) - 1 : Tail(s)[i] \notin X
    BY <2>1, <2>2 DEF AtMostOne
  <2> QED
    BY <2>1, <2>3, <2>4 DEF AtMostOne, Entries
<1> QED
  BY <1>1, <1>2, <1>3

\* How tasks move between what the loop does, the batch and the queue.
LEMMA MovesOf ==
  ASSUME NEW S, NEW t \in Seq(S), NEW b \in Seq(S), NEW p \in Seq(S), NEW X, OnceIn(X, t, b, p)
  PROVE  /\ t # <<>> => /\ OnceIn(X, Tail(t), b, p)
                        /\ Head(t) \in X => Without(Tail(t), X) /\ Without(b, X) /\ Without(p, X)
         /\ b # <<>> => OnceIn(X, <<Head(b)>>, Tail(b), p)
         /\ OnceIn(X, <<>>, b, p) /\ OnceIn(X, <<>>, p, <<>>)
         /\ \A s \in Seq(S) : Without(s, X) => OnceIn(X, s \o t, b, p) /\ OnceIn(X, t, b, p \o s)
         /\ \A e \in S : e \notin X => OnceIn(X, t, b, Append(p, e))
         /\ \A e \in S : Without(t, X) /\ Without(b, X) /\ Without(p, X) =>
              OnceIn(X, <<e>> \o t, b, p) /\ OnceIn(X, t, b, Append(p, e))
         /\ \A s \in Seq(S) : AtMostOne(s, X) /\ Without(t, X) /\ Without(b, X) /\ Without(p, X) =>
              OnceIn(X, s \o t, b, p)
<1>1. /\ AtMostOne(t, X) /\ AtMostOne(b, X) /\ AtMostOne(p, X)
      /\ Without(t, X) \/ (Without(b, X) /\ Without(p, X))
      /\ Without(b, X) \/ Without(p, X)
  BY DEF OnceIn
<1>2. <<>> \in Seq(S) /\ AtMostOne(<<>>, X) /\ Without(<<>>, X)
  BY DEF AtMostOne, Without, Entries
<1>3. ASSUME NEW e \in S
      PROVE  <<e>> \in Seq(S) /\ AtMostOne(<<e>>, X) /\ Entries(<<e>>) = {e}
  BY DEF AtMostOne, Entries
<1>4. ASSUME NEW s \in Seq(S), s # <<>>, AtMostOne(s, X)
      PROVE  /\ Tail(s) \in Seq(S) /\ Head(s) \in S /\ AtMostOne(Tail(s), X)
             /\ Without(s, X) => Without(Tail(s), X) /\ Head(s) \notin X
             /\ Head(s) \in X => Without(Tail(s), X)
  <2>1. Head(s) \in S /\ Tail(s) \in Seq(S) /\ Entries(s) = {Head(s)} \cup Entries(Tail(s))
    BY <1>4, EntriesOf
  <2>2. AtMostOne(Tail(s), X) /\ (Head(s) \in X => Entries(Tail(s)) \cap X = {})
    BY <1>4, OneOf
  <2> QED
    BY <2>1, <2>2 DEF Without
<1>5. ASSUME t # <<>>
      PROVE  /\ OnceIn(X, Tail(t), b, p)
             /\ Head(t) \in X => Without(Tail(t), X) /\ Without(b, X) /\ Without(p, X)
  BY <1>1, <1>4, <1>5 DEF OnceIn
<1>6. ASSUME b # <<>> PROVE OnceIn(X, <<Head(b)>>, Tail(b), p)
  <2>1. /\ Head(b) \in S /\ Tail(b) \in Seq(S) /\ AtMostOne(Tail(b), X)
        /\ Without(b, X) => Without(Tail(b), X) /\ Head(b) \notin X
        /\ Head(b) \in X => Without(Tail(b), X)
    BY <1>1, <1>4, <1>6
  <2>2. AtMostOne(<<Head(b)>>, X) /\ (Head(b) \notin X => Without(<<Head(b)>>, X))
    BY <1>3, <2>1 DEF Without
  <2> QED
    BY <1>1, <2>1, <2>2 DEF OnceIn
<1>7. OnceIn(X, <<>>, b, p) /\ OnceIn(X, <<>>, p, <<>>)
  BY <1>1, <1>2 DEF OnceIn
<1>8. ASSUME NEW s \in Seq(S), Without(s, X)
      PROVE  OnceIn(X, s \o t, b, p) /\ OnceIn(X, t, b, p \o s)
  <2>1. AtMostOne(s, X)
    BY <1>8 DEF Without, AtMostOne, Entries
  <2>2. AtMostOne(s \o t, X) /\ AtMostOne(p \o s, X)
    BY <1>1, <1>8, <2>1, OneOf DEF Without
  <2>3. Entries(s \o t) = Entries(s) \cup Entries(t) /\ Entries(p \o s) = Entries(p) \cup Entries(s)
    BY EntriesOf
  <2>4. (Without(t, X) => Without(s \o t, X)) /\ (Without(p, X) => Without(p \o s, X))
    BY <1>8, <2>3 DEF Without
  <2> QED
    BY <1>1, <2>2, <2>4 DEF OnceIn
<1>9. ASSUME NEW e \in S, e \notin X \/ Without(p, X)
      PROVE  /\ AtMostOne(Append(p, e), X)
             /\ e \notin X /\ Without(p, X) => Without(Append(p, e), X)
  <2>1. Entries(Append(p, e)) = Entries(p) \cup {e}
    BY EntriesOf
  <2>2. AtMostOne(Append(p, e), X)
    BY <1>1, <1>9, OneOf DEF Without
  <2> QED
    BY <2>1, <2>2 DEF Without
<1>10. ASSUME NEW e \in S, e \notin X PROVE OnceIn(X, t, b, Append(p, e))
  BY <1>1, <1>9, <1>10 DEF OnceIn
<1>11. ASSUME NEW e \in S, Without(t, X), Without(b, X), Without(p, X)
       PROVE  OnceIn(X, <<e>> \o t, b, p) /\ OnceIn(X, t, b, Append(p, e))
  <2>1. AtMostOne(<<e>> \o t, X)
    BY <1>1, <1>3, <1>11, OneOf DEF Without
  <2> QED
    BY <1>1, <1>9, <1>11, <2>1 DEF OnceIn
<1>12. ASSUME NEW s \in Seq(S), AtMostOne(s, X), Without(t, X), Without(b, X), Without(p, X)
       PROVE  OnceIn(X, s \o t, b, p)
  <2>1. AtMostOne(s \o t, X)
    BY <1>1, <1>12, OneOf DEF Without
  <2> QED
    BY <1>1, <1>12, <2>1 DEF OnceIn
<1> QED
  BY <1>5, <1>6, <1>7, <1>8, <1>10, <1>11, <1>12

\* Steps bound to their connection.
LEMMA TaggedOf ==
  ASSUME NEW S, NEW c, NEW F, \A f \in F : <<f, c>> \in S, NEW steps \in Seq(F)
  PROVE  /\ Tagged(c, steps) \in Seq(S)
         /\ \A e \in Entries(Tagged(c, steps)) : e[1] \in F /\ e[2] = c /\ e = <<e[1], c>>
         /\ \A X : (\A f \in F : <<f, c>> \notin X) => Without(Tagged(c, steps), X)
         /\ steps = <<>> => Entries(Tagged(c, steps)) = {}
<1>1. Len(steps) \in Nat /\ \A i \in 1..Len(steps) : steps[i] \in F /\ <<steps[i], c>> \in S
  OBVIOUS
<1>2. /\ Tagged(c, steps) \in Seq(S) /\ Len(Tagged(c, steps)) = Len(steps)
      /\ \A i \in 1..Len(steps) : Tagged(c, steps)[i] = <<steps[i], c>>
  BY <1>1 DEF Tagged
<1>3. ASSUME NEW e \in Entries(Tagged(c, steps))
      PROVE  e[1] \in F /\ e[2] = c /\ e = <<e[1], c>>
  <2>1. PICK i \in 1..Len(steps) : e = <<steps[i], c>>
    BY <1>2 DEF Entries
  <2> QED
    BY <1>1, <2>1
<1>4. steps = <<>> => Entries(Tagged(c, steps)) = {}
  BY <1>2 DEF Entries
<1> QED
  BY <1>2, <1>3, <1>4 DEF Without

(***************************************************************************)
(* The handlers of TcpConnection.                                          *)
(***************************************************************************)
\* The fields the promises speak of; s differs from r in those of F at most.
Field == {"state", "events", "registered", "out", "delayed", "ups", "downs", "closes", "lost"}
Kept(r, s, F) == s \in Record /\ \A f \in Field \ F : s[f] = r[f]

LEMMA Assignments ==
  ASSUME NEW r \in Record
  PROVE  /\ \A v \in State : /\ Kept(r, [r EXCEPT !.state = v], {"state"})
                             /\ [r EXCEPT !.state = v].state = v
         /\ \A v \in SUBSET {"in", "out"} : /\ Kept(r, update(r, v), {"events", "registered"})
                                            /\ update(r, v).events = v /\ update(r, v).registered
         /\ \A v \in Nat : /\ Kept(r, [r EXCEPT !.out = v], {"out"}) /\ [r EXCEPT !.out = v].out = v
                           /\ Kept(r, [r EXCEPT !.ups = v], {"ups"}) /\ [r EXCEPT !.ups = v].ups = v
                           /\ Kept(r, [r EXCEPT !.downs = v], {"downs"})
                           /\ [r EXCEPT !.downs = v].downs = v
                           /\ Kept(r, [r EXCEPT !.closes = v], {"closes"})
                           /\ [r EXCEPT !.closes = v].closes = v
         /\ \A v \in BOOLEAN : /\ Kept(r, [r EXCEPT !.delayed = v], {"delayed"})
                               /\ [r EXCEPT !.delayed = v].delayed = v
                               /\ Kept(r, [r EXCEPT !.reading = v], {})
         /\ Kept(r, [r EXCEPT !.registered = FALSE], {"registered"})
         /\ ~[r EXCEPT !.registered = FALSE].registered
         /\ Kept(r, [r EXCEPT !.err = FALSE], {})
         /\ Kept(r, [r EXCEPT !.inbox = 0], {})
<1>1. ASSUME NEW v \in State
      PROVE  Kept(r, [r EXCEPT !.state = v], {"state"}) /\ [r EXCEPT !.state = v].state = v
  BY DEF Record, Kept, Field
<1>2. ASSUME NEW v \in SUBSET {"in", "out"}
      PROVE  /\ Kept(r, update(r, v), {"events", "registered"})
             /\ update(r, v).events = v /\ update(r, v).registered
  BY DEF Record, Kept, Field, update
<1>3. ASSUME NEW v \in Nat
      PROVE  /\ Kept(r, [r EXCEPT !.out = v], {"out"}) /\ [r EXCEPT !.out = v].out = v
             /\ Kept(r, [r EXCEPT !.ups = v], {"ups"}) /\ [r EXCEPT !.ups = v].ups = v
             /\ Kept(r, [r EXCEPT !.downs = v], {"downs"}) /\ [r EXCEPT !.downs = v].downs = v
             /\ Kept(r, [r EXCEPT !.closes = v], {"closes"}) /\ [r EXCEPT !.closes = v].closes = v
  <2>1. Kept(r, [r EXCEPT !.out = v], {"out"}) /\ [r EXCEPT !.out = v].out = v
    BY DEF Record, Kept, Field
  <2>2. Kept(r, [r EXCEPT !.ups = v], {"ups"}) /\ [r EXCEPT !.ups = v].ups = v
    BY DEF Record, Kept, Field
  <2>3. Kept(r, [r EXCEPT !.downs = v], {"downs"}) /\ [r EXCEPT !.downs = v].downs = v
    BY DEF Record, Kept, Field
  <2>4. Kept(r, [r EXCEPT !.closes = v], {"closes"}) /\ [r EXCEPT !.closes = v].closes = v
    BY DEF Record, Kept, Field
  <2> QED
    BY <2>1, <2>2, <2>3, <2>4
<1>4. ASSUME NEW v \in BOOLEAN
      PROVE  /\ Kept(r, [r EXCEPT !.delayed = v], {"delayed"})
             /\ [r EXCEPT !.delayed = v].delayed = v
  BY DEF Record, Kept, Field
<1>5. ASSUME NEW v \in BOOLEAN PROVE Kept(r, [r EXCEPT !.reading = v], {})
  BY DEF Record, Kept, Field
<1>6. /\ Kept(r, [r EXCEPT !.registered = FALSE], {"registered"})
      /\ ~[r EXCEPT !.registered = FALSE].registered
  BY DEF Record, Kept, Field
<1>7. Kept(r, [r EXCEPT !.err = FALSE], {}) /\ Kept(r, [r EXCEPT !.inbox = 0], {})
  BY DEF Record, Kept, Field
<1> QED
  BY <1>1, <1>2, <1>3, <1>4, <1>5, <1>6, <1>7

\* The types of the fields the promises speak of.
LEMMA FieldTypes ==
  ASSUME NEW r \in Record
  PROVE  /\ r.state \in State /\ r.events \in SUBSET {"in", "out"} /\ r.registered \in BOOLEAN
         /\ r.out \in Nat /\ r.delayed \in BOOLEAN /\ r.lost \in Nat
         /\ r.ups \in Nat /\ r.downs \in Nat /\ r.closes \in Nat
BY DEF Record

\* What handle_close() does to the record, and connect_established() and
\* connect_destroyed().
LEMMA CloseEffect ==
  ASSUME NEW r \in Record, NEW s, s = handle_close(r).r
  PROVE  /\ Kept(r, s, {"state", "events", "registered", "downs", "closes"})
         /\ s.state = "Disconnected" /\ s.events = {} /\ s.registered
         /\ s.downs = r.downs + 1 /\ s.closes = r.closes + 1
<1>1. PICK u : u = update(r, {})
  OBVIOUS
<1>2. Kept(r, u, {"events", "registered"}) /\ u.events = {} /\ u.registered
  BY <1>1, Assignments
<1>3. u \in Record
  BY <1>2 DEF Kept
<1>4. s = [u EXCEPT !.state = "Disconnected", !.closes = @ + 1, !.downs = @ + 1]
  BY <1>1 DEF handle_close, Result
<1>5. Kept(u, s, {"state", "downs", "closes"}) /\ s.state = "Disconnected"
      /\ s.downs = u.downs + 1 /\ s.closes = u.closes + 1
  <2>1. PICK a : a = [u EXCEPT !.state = "Disconnected"]
    OBVIOUS
  <2>2. Kept(u, a, {"state"}) /\ a.state = "Disconnected"
    BY <1>3, <2>1, Assignments DEF State
  <2>3. a \in Record /\ a.closes = u.closes /\ a.downs = u.downs /\ u.closes + 1 \in Nat /\ u.downs + 1 \in Nat
    BY <1>3, <2>2, FieldTypes DEF Kept, Field
  <2>4. PICK b : b = [a EXCEPT !.closes = u.closes + 1]
    OBVIOUS
  <2>5. Kept(a, b, {"closes"}) /\ b.closes = u.closes + 1
    BY <2>3, <2>4, Assignments
  <2>6. b \in Record /\ b.downs = u.downs
    BY <2>3, <2>5 DEF Kept, Field
  <2>7. Kept(b, [b EXCEPT !.downs = u.downs + 1], {"downs"}) /\ [b EXCEPT !.downs = u.downs + 1].downs = u.downs + 1
    BY <2>3, <2>6, Assignments
  <2>8. s = [b EXCEPT !.downs = u.downs + 1]
    BY <1>3, <1>4, <2>1, <2>4 DEF Record
  <2> QED
    BY <2>2, <2>5, <2>7, <2>8 DEF Kept, Field
<1> QED
  BY <1>2, <1>5 DEF Kept, Field

LEMMA EstablishEffect ==
  ASSUME NEW r \in Record, NEW s, s = connect_established(r).r
  PROVE  /\ Kept(r, s, {"state", "events", "registered", "ups"})
         /\ s.state = "Connected" /\ s.events = r.events \cup {"in"} /\ s.registered
         /\ s.ups = r.ups + 1
<1>1. PICK u : u = update(r, r.events \cup {"in"})
  OBVIOUS
<1>2. Kept(r, u, {"events", "registered"}) /\ u.events = r.events \cup {"in"} /\ u.registered
  BY <1>1, Assignments, FieldTypes, ZenonT(60)
<1>3. u \in Record
  BY <1>2 DEF Kept
<1>4. s = [u EXCEPT !.state = "Connected", !.ups = @ + 1]
  BY <1>1 DEF connect_established, Result
<1>5. Kept(u, s, {"state", "ups"}) /\ s.state = "Connected" /\ s.ups = u.ups + 1
  <2>1. PICK a : a = [u EXCEPT !.state = "Connected"]
    OBVIOUS
  <2>2. Kept(u, a, {"state"}) /\ a.state = "Connected"
    BY <1>3, <2>1, Assignments DEF State
  <2>3. a \in Record /\ a.ups = u.ups /\ u.ups + 1 \in Nat
    BY <1>3, <2>2, FieldTypes DEF Kept, Field
  <2>4. Kept(a, [a EXCEPT !.ups = u.ups + 1], {"ups"}) /\ [a EXCEPT !.ups = u.ups + 1].ups = u.ups + 1
    BY <2>3, Assignments
  <2>5. s = [a EXCEPT !.ups = u.ups + 1]
    BY <1>3, <1>4, <2>1 DEF Record
  <2> QED
    BY <2>2, <2>4, <2>5 DEF Kept, Field
<1> QED
  BY <1>2, <1>5 DEF Kept, Field

LEMMA DestroyEffect ==
  ASSUME NEW r \in Record, NEW s, s = connect_destroyed(r).r
  PROVE  /\ r.state = "Connected" =>
              /\ Kept(r, s, {"state", "events", "registered", "downs"})
              /\ s.state = "Disconnected" /\ s.events = {} /\ s.registered /\ s.downs = r.downs + 1
         /\ r.state # "Connected" => s = r
<1>1. PICK u : u = update(r, {})
  OBVIOUS
<1>2. Kept(r, u, {"events", "registered"}) /\ u.events = {} /\ u.registered
  BY <1>1, Assignments
<1>3. u \in Record
  BY <1>2 DEF Kept
<1>4. r.state = "Connected" => s = [u EXCEPT !.state = "Disconnected", !.downs = @ + 1]
  BY <1>1 DEF connect_destroyed, Result
<1>5. r.state = "Connected" =>
        Kept(u, s, {"state", "downs"}) /\ s.state = "Disconnected" /\ s.downs = u.downs + 1
  <2>1. PICK a : a = [u EXCEPT !.state = "Disconnected"]
    OBVIOUS
  <2>2. Kept(u, a, {"state"}) /\ a.state = "Disconnected"
    BY <1>3, <2>1, Assignments DEF State
  <2>3. a \in Record /\ a.downs = u.downs /\ u.downs + 1 \in Nat
    BY <1>3, <2>2, FieldTypes DEF Kept, Field
  <2>4. Kept(a, [a EXCEPT !.downs = u.downs + 1], {"downs"}) /\ [a EXCEPT !.downs = u.downs + 1].downs = u.downs + 1
    BY <2>3, Assignments
  <2>5. r.state = "Connected" => s = [a EXCEPT !.downs = u.downs + 1]
    BY <1>3, <1>4, <2>1 DEF Record
  <2> QED
    BY <2>2, <2>4, <2>5 DEF Kept, Field
<1>6. r.state # "Connected" => s = r
  BY DEF connect_destroyed, Result
<1> QED
  BY <1>2, <1>5, <1>6 DEF Kept, Field

\* The handlers of output.
LEMMA ShutdownEffect ==
  ASSUME NEW r \in Record, "out" \in r.events \/ r.out = 0, NEW s, s = shutdown_in_loop(r).r
  PROVE  Kept(r, s, {})
<1>1. CASE "out" \in r.events
  BY <1>1 DEF shutdown_in_loop, Done, Result, Kept
<1>2. CASE "out" \notin r.events
  <2>1. r.out = 0 /\ s = [r EXCEPT !.fin = TRUE, !.lost = @ + r.out]
    BY <1>2 DEF shutdown_in_loop, Done, Result
  <2>2. r.lost + r.out = r.lost
    BY <2>1, FieldTypes
  <2>3. s = [r EXCEPT !.fin = TRUE]
    BY <2>1, <2>2 DEF Record
  <2> QED
    BY <2>3 DEF Record, Kept, Field
<1> QED
  BY <1>1, <1>2

LEMMA SendEffect ==
  ASSUME NEW r \in Record, NEW n, NEW s, s = send_in_loop(r, n).r
  PROVE  \/ Kept(r, s, {})
         \/ /\ r.state # "Disconnected"
            /\ Kept(r, s, {"events", "registered", "out"})
            /\ s.events = r.events \cup {"out"} /\ s.registered
<1>1. PICK o : o = [r EXCEPT !.out = @ + 1]
  OBVIOUS
<1>2. Kept(r, o, {"out"})
  <2>1. r.out + 1 \in Nat
    BY FieldTypes
  <2> QED
    BY <1>1, <2>1, Assignments
<1>3. o \in Record /\ o.events = r.events
  BY <1>2 DEF Kept, Field
<1>4. PICK u : u = update(o, r.events \cup {"out"})
  OBVIOUS
<1>5. Kept(o, u, {"events", "registered"}) /\ u.events = r.events \cup {"out"} /\ u.registered
  BY <1>3, <1>4, Assignments, FieldTypes, ZenonT(60)
<1>6. Kept(r, u, {"events", "registered", "out"})
  BY <1>2, <1>5 DEF Kept, Field
<1>7. \/ s = r
      \/ s = [r EXCEPT !.err = FALSE]
      \/ r.state # "Disconnected" /\ s = u
  BY <1>1, <1>4 DEF send_in_loop, Done, Result
<1>8. Kept(r, r, {}) /\ Kept(r, [r EXCEPT !.err = FALSE], {})
  BY Assignments DEF Kept
<1> QED
  BY <1>5, <1>6, <1>7, <1>8

LEMMA WriteEffect ==
  ASSUME NEW r \in Record, NEW n \in Int, n <= r.out, NEW s, s = handle_write(r, n).r
  PROVE  \/ s = r
         \/ Kept(r, s, {"out"}) /\ "out" \in r.events
         \/ /\ Kept(r, s, {"events", "registered", "out"})
            /\ s.out = 0 /\ s.events = r.events \ {"out"} /\ "out" \in r.events
<1>1. CASE "out" \notin r.events \/ n <= 0
  BY <1>1 DEF handle_write, Done, Result
<1>2. CASE ~("out" \notin r.events \/ n <= 0)
  <2>1. PICK o : o = [r EXCEPT !.out = @ - n]
    OBVIOUS
  <2>2. r.out - n \in Nat
    BY FieldTypes
  <2>3. Kept(r, o, {"out"}) /\ o.out = r.out - n
    BY <2>1, <2>2, Assignments
  <2>4. o \in Record /\ o.events = r.events /\ o.out \in Nat
    BY <2>2, <2>3 DEF Kept, Field
  <2>5. PICK u : u = update(o, o.events \ {"out"})
    OBVIOUS
  <2>6. Kept(o, u, {"events", "registered"}) /\ u.events = r.events \ {"out"}
    <3>1. r.events \ {"out"} \in SUBSET {"in", "out"}
      BY FieldTypes
    <3>2. \A v \in SUBSET {"in", "out"} :
            Kept(o, update(o, v), {"events", "registered"}) /\ update(o, v).events = v
      BY <2>4, Assignments
    <3>3. u = update(o, r.events \ {"out"})
      BY <2>4, <2>5
    <3> QED
      BY <3>1, <3>2, <3>3
  <2>7. CASE o.out > 0
    <3>1. s = o
      BY <1>2, <2>1, <2>7 DEF handle_write, Done, Result
    <3> QED
      BY <1>2, <2>3, <3>1
  <2>8. CASE ~(o.out > 0)
    <3>1. s = IF r.state = "Disconnecting" THEN shutdown_in_loop(u).r ELSE u
      BY <1>2, <2>1, <2>5, <2>8 DEF handle_write, Result
    <3>2. u \in Record /\ u.out = 0
      BY <2>4, <2>6, <2>8 DEF Kept, Field
    <3>3. Kept(u, shutdown_in_loop(u).r, {}) /\ Kept(u, u, {})
      BY <3>2, ShutdownEffect DEF Kept
    <3>4. Kept(u, s, {})
      BY <3>1, <3>3
    <3> QED
      BY <1>2, <2>3, <2>6, <3>2, <3>4 DEF Kept, Field
  <2> QED
    BY <2>7, <2>8
<1> QED
  BY <1>1, <1>2

\* Channel::handle_event(): the callbacks of a poll.
Callback == {"handle_close", "handle_error", "handle_read", "handle_write"}

LEMMA EventCallbacks ==
  ASSUME NEW ev
  PROVE  /\ handle_event(ev) \in Seq(Callback)
         /\ AtMostOne(handle_event(ev), {"handle_close", "handle_read"})
<1> DEFINE X == {"handle_close", "handle_read"}
           p1 == IF "hup" \in ev /\ "in" \notin ev THEN <<"handle_close">> ELSE <<>>
           p2 == IF "err" \in ev THEN <<"handle_error">> ELSE <<>>
           p3 == IF "in" \in ev THEN <<"handle_read">> ELSE <<>>
           p4 == IF "out" \in ev THEN <<"handle_write">> ELSE <<>>
<1>1. p1 \in Seq(Callback) /\ p2 \in Seq(Callback) /\ p3 \in Seq(Callback) /\ p4 \in Seq(Callback)
  <2>1. ASSUME NEW f \in Callback PROVE <<f>> \in Seq(Callback)
    OBVIOUS
  <2>2. <<>> \in Seq(Callback)
    OBVIOUS
  <2>3. /\ <<"handle_close">> \in Seq(Callback) /\ <<"handle_error">> \in Seq(Callback)
        /\ <<"handle_read">> \in Seq(Callback) /\ <<"handle_write">> \in Seq(Callback)
    BY <2>1 DEF Callback
  <2> QED
    BY <2>2, <2>3
<1>2. AtMostOne(p1, X) /\ AtMostOne(p2, X) /\ AtMostOne(p3, X) /\ AtMostOne(p4, X)
  BY DEF AtMostOne
<1>3. Entries(p2) \cap X = {} /\ Entries(p4) \cap X = {} /\ (Entries(p1) \cap X = {} \/ Entries(p3) \cap X = {})
  BY DEF Entries
<1>4. handle_event(ev) = ((p1 \o p2) \o p3) \o p4
  BY DEF handle_event
<1> HIDE DEF p1, p2, p3, p4, X
<1>5. /\ p1 \o p2 \in Seq(Callback) /\ AtMostOne(p1 \o p2, X)
      /\ Entries(p1 \o p2) = Entries(p1) \cup Entries(p2)
  BY <1>1, <1>2, <1>3, OneOf, EntriesOf
<1>6. Entries(p1 \o p2) \cap X = {} \/ Entries(p3) \cap X = {}
  BY <1>3, <1>5
<1>7. PICK a : a = p1 \o p2
  OBVIOUS
<1>8. a \o p3 \in Seq(Callback) /\ AtMostOne(a \o p3, X)
  <2>1. a \in Seq(Callback) /\ AtMostOne(a, X) /\ (Entries(a) \cap X = {} \/ Entries(p3) \cap X = {})
    BY <1>5, <1>6, <1>7
  <2>2. a \o p3 \in Seq(Callback)
    BY <1>1, <2>1
  <2>3. AtMostOne(a \o p3, X)
    BY <1>1, <1>2, <2>1, OneOf
  <2> QED
    BY <2>2, <2>3
<1>9. PICK b : b = a \o p3
  OBVIOUS
<1>10. b \o p4 \in Seq(Callback) /\ AtMostOne(b \o p4, X)
  <2>1. b \in Seq(Callback) /\ AtMostOne(b, X)
    BY <1>8, <1>9
  <2>2. b \o p4 \in Seq(Callback)
    BY <1>1, <2>1
  <2>3. AtMostOne(b \o p4, X)
    BY <1>1, <1>2, <1>3, <2>1, OneOf
  <2> QED
    BY <2>2, <2>3
<1> QED
  BY <1>4, <1>7, <1>9, <1>10 DEF X

=============================================================================
