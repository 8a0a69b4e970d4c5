-------------------------- MODULE AsyncLoggerProofs --------------------------
(***************************************************************************)
(* Proofs about AsyncLogger, for buffers, files and days of any size, any  *)
(* number of records and any time.                                         *)
(***************************************************************************)
EXTENDS AsyncLogger, TLAPS

(***************************************************************************)
(* The buffers.  That the thread can always refill its two spares rests on *)
(* how many buffers it took out: one, and a second one if it gave away its *)
(* second spare, since _next_buffer is missing only when a full buffer was *)
(* left in its place.  Dropping keeps two.                                 *)
(***************************************************************************)
PC == {"none", "born", "test", "lock", "wait", "woken", "drop", "write", "exit"}

BuffersTypeOK ==
  /\ pc \in PC
  /\ next \in BOOLEAN /\ spare1 \in BOOLEAN /\ spare2 \in BOOLEAN /\ starved \in BOOLEAN
  /\ appended \in Nat /\ now \in Nat /\ at \in Nat \ {0}
  /\ current \in Seq(Nat)
  /\ pool \in Seq(Seq(Nat))
  /\ taken \in Seq(Seq(Nat))

\* The thread is started only once.
NotStarted == owner = "new" => pc = "none"

NextOrFull == ~next => pool # <<>>
SparesWhole == pc \notin {"drop", "write"} => spare1 /\ spare2
TakenEnough == pc \in {"drop", "write"} => Len(taken) >= IF spare2 THEN 1 ELSE 2

BuffersInv ==
  BuffersTypeOK /\ NotStarted /\ NextOrFull /\ SparesWhole /\ TakenEnough /\ ~starved

\* The steps that only the owner, the clock and the file see.
LEMMA BuffersApart ==
  ASSUME BuffersInv, start \/ started \/ stop \/ stop_notify \/ joined \/ thread_begin
                     \/ thread_test \/ thread_wait \/ wait_timeout \/ tick
  PROVE  BuffersInv'
<1> USE DEF BuffersInv, BuffersTypeOK, PC, NotStarted, NextOrFull, SparesWhole, TakenEnough,
            frontVars, backVars
<1>1. CASE start
  BY <1>1 DEF start
<1>2. CASE started \/ stop \/ joined
  BY <1>2, SMTT(60) DEF started, stop, joined
<1>3. CASE stop_notify
  BY <1>3 DEF stop_notify, Notified
<1>4. CASE thread_begin \/ thread_test
  BY <1>4, SMTT(60) DEF thread_begin, thread_test
<1>5. CASE thread_wait \/ wait_timeout
  BY <1>5 DEF thread_wait, wait_timeout
<1>6. CASE tick
  BY <1>6 DEF tick
<1> QED
  BY <1>1, <1>2, <1>3, <1>4, <1>5, <1>6

\* A front end that takes _next_buffer, or finds it gone, leaves a full buffer.
LEMMA BuffersAppend == BuffersInv /\ append => BuffersInv'
<1> SUFFICES ASSUME BuffersInv, append PROVE BuffersInv'
  OBVIOUS
<1> USE DEF BuffersInv, BuffersTypeOK, PC, NotStarted, NextOrFull, SparesWhole, TakenEnough,
            backVars, append
<1>0. appended' \in Nat
  OBVIOUS
<1>1. CASE availability
  <2>1. current' = Append(current, appended')
    BY <1>1
  <2>2. current' \in Seq(Nat)
    BY <1>0, <2>1
  <2> QED
    BY <1>0, <1>1, <2>2
<1>2. CASE ~availability
  <2>1. pool' = Append(pool, current) /\ current' = <<appended'>> /\ pc' = Notified
    BY <1>2
  <2>2. pool' \in Seq(Seq(Nat)) /\ Len(pool') = Len(pool) + 1 /\ current' \in Seq(Nat)
    BY <1>0, <2>1
  <2>3. pool' # <<>>
    BY <2>2
  <2>4. pc' = pc \/ (pc = "wait" /\ pc' = "woken")
    BY <2>1 DEF Notified
  <2> QED
    BY <1>0, <1>2, <2>2, <2>3, <2>4
<1> QED
  BY <1>1, <1>2

\* The thread takes at least as many buffers as it gives spares away.
LEMMA BuffersSwap == BuffersInv /\ thread_swap => BuffersInv'
<1> SUFFICES ASSUME BuffersInv, thread_swap PROVE BuffersInv'
  OBVIOUS
<1> USE DEF BuffersInv, BuffersTypeOK, PC, NotStarted, NextOrFull, SparesWhole, TakenEnough,
            thread_swap, batch
<1>1. taken' \in Seq(Seq(Nat)) /\ Len(taken') = Len(pool) + 1
  OBVIOUS
<1>2. ~next => Len(pool) >= 1
  OBVIOUS
<1>3. spare1 /\ spare2
  OBVIOUS
<1>4. next' /\ (spare2' <=> next)
  BY <1>3
<1>5. Len(taken') >= IF spare2' THEN 1 ELSE 2
  BY <1>1, <1>2, <1>4
<1>6. current' \in Seq(Nat) /\ pool' \in Seq(Seq(Nat))
  OBVIOUS
<1>7. next' \in BOOLEAN /\ spare1' \in BOOLEAN /\ spare2' \in BOOLEAN
  OBVIOUS
<1>8. at' \in Nat \ {0} /\ appended' \in Nat /\ now' \in Nat /\ pc' = "drop" /\ owner' # "new"
  OBVIOUS
<1>9. BuffersTypeOK'
  BY <1>1, <1>6, <1>7, <1>8
<1> QED
  BY <1>4, <1>5, <1>8, <1>9

\* Dropping leaves two buffers.
LEMMA BuffersDrop == BuffersInv /\ thread_drop => BuffersInv'
<1> SUFFICES ASSUME BuffersInv, thread_drop PROVE BuffersInv'
  OBVIOUS
<1> USE DEF BuffersInv, BuffersTypeOK, PC, NotStarted, NextOrFull, SparesWhole, TakenEnough,
            thread_drop, frontVars
<1>1. CASE Len(taken) > DropAbove
  <2>1. taken' = SubSeq(taken, 1, 2)
    BY <1>1 DEF kept_buffers
  <2>2. taken' \in Seq(Seq(Nat)) /\ Len(taken') = 2
    BY <1>1, <2>1, LoggerAssumption
  <2> QED
    BY <2>2
<1>2. CASE ~(Len(taken) > DropAbove)
  BY <1>2
<1> QED
  BY <1>1, <1>2

\* The refill finds what it needs.
LEMMA BuffersRefill == BuffersInv /\ (thread_write \/ thread_refill) => BuffersInv'
<1> SUFFICES ASSUME BuffersInv, thread_write \/ thread_refill PROVE BuffersInv'
  OBVIOUS
<1> USE DEF BuffersInv, BuffersTypeOK, PC, NotStarted, NextOrFull, SparesWhole, TakenEnough,
            frontVars
<1>1. CASE thread_write
  BY <1>1 DEF thread_write
<1>2. CASE thread_refill
  <2>1. ~(Len(taken) < (IF spare1 THEN 0 ELSE 1) + (IF spare2 THEN 0 ELSE 1))
    BY <1>2 DEF thread_refill
  <2>2. starved' = FALSE
    BY <1>2, <2>1 DEF thread_refill
  <2> QED
    BY <1>2, <2>2 DEF thread_refill
<1> QED
  BY <1>1, <1>2

\* Every step preserves the invariant on the buffers.
LEMMA BuffersStep == BuffersInv /\ [Next]_vars => BuffersInv'
<1> SUFFICES ASSUME BuffersInv, [Next]_vars PROVE BuffersInv'
  OBVIOUS
<1>1. CASE Next
  BY <1>1, BuffersApart, BuffersAppend, BuffersSwap, BuffersDrop, BuffersRefill
     DEF Next, ThreadStep, OwnerStep
<1>2. CASE UNCHANGED vars
  BY <1>2 DEF vars, frontVars, backVars, BuffersInv, BuffersTypeOK, NotStarted, NextOrFull,
              SparesWhole, TakenEnough
<1> QED
  BY <1>1, <1>2

\* The invariant on the buffers holds initially.
LEMMA BuffersInit == Init => BuffersInv
<1> SUFFICES ASSUME Init PROVE BuffersInv
  OBVIOUS
<1>1. current \in Seq(Nat) /\ pool \in Seq(Seq(Nat)) /\ taken \in Seq(Seq(Nat))
  BY DEF Init
<1>2. next /\ spare1 /\ spare2 /\ ~starved
  BY DEF Init
<1>3. next \in BOOLEAN /\ spare1 \in BOOLEAN /\ spare2 \in BOOLEAN /\ starved \in BOOLEAN
  BY DEF Init
<1>4. pc = "none" /\ appended \in Nat /\ now \in Nat /\ at \in Nat \ {0}
  BY DEF Init
<1> QED
  BY <1>1, <1>2, <1>3, <1>4
     DEF BuffersInv, BuffersTypeOK, PC, NotStarted, NextOrFull, SparesWhole, TakenEnough

\* AsyncLogger::thread_func() never calls back() of an empty vector, and starts
\* every turn with both of its spare buffers.
THEOREM BuffersAlwaysSuffice == Spec => []BuffersSuffice
<1>1. BuffersInv => BuffersSuffice
  BY DEF BuffersInv, SparesWhole, BuffersSuffice
<1> QED
  BY <1>1, BuffersInit, BuffersStep, PTL DEF Spec

(***************************************************************************)
(* The file.  A file is late only by appends that were counted since the   *)
(* last check, and the count never reaches CheckEvery: the append that     *)
(* would bring it there, the last late one, finds the day over and rolls.  *)
(* A roll that does nothing, the second one at one time, is harmless: the  *)
(* file then has the period of that very time.                             *)
(***************************************************************************)
LogRecord == [data : Seq(Nat), flushed : Nat, written : Nat, count : Nat, start : Int,
              last_roll : Nat, last_flush : Nat, late : Nat, worst : Nat]

FileOK(f) ==
  /\ f \in LogRecord
  /\ f.last_roll <= now
  /\ f.start = Period(f.last_roll)
  /\ f.count < CheckEvery
  /\ f.worst <= CheckEvery

FileInv == FileOK(log) /\ log.late <= log.count

\* A period is an integer, and the first one starts at 0.
LEMMA PeriodInt == Period(0) = 0 /\ \A t \in Nat : Period(t) \in Int
  BY LoggerAssumption DEF Period

\* Flushing touches nothing but the record of what was flushed.
LEMMA FlushOK ==
  ASSUME NEW f, FileOK(f)
  PROVE  FileOK(flush(f)) /\ flush(f).late = f.late /\ flush(f).count = f.count
<1>1. Len(f.data) \in Nat
  BY DEF FileOK, LogRecord
<1> QED
  BY <1>1 DEF FileOK, LogRecord, flush

\* After roll_file() the file is in its day, or it already was.
LEMMA RollOK ==
  ASSUME now \in Nat, NEW f, FileOK(f), Period(now) = f.start => f.late = 0
  PROVE  FileOK(roll_file(f)) /\ roll_file(f).late = 0 /\ roll_file(f).count = f.count
<1>1. CASE now > f.last_roll
  <2>1. FileOK(flush(f)) /\ flush(f).count = f.count
    BY FlushOK
  <2>2. roll_file(f) = [flush(f) EXCEPT !.last_roll = now, !.last_flush = now,
                                        !.start = Period(now), !.written = 0, !.late = 0]
    BY <1>1 DEF roll_file
  <2>3. Period(now) \in Int
    BY PeriodInt
  <2>4. roll_file(f) \in LogRecord
    <3> DEFINE b == flush(f)
    <3>1. b \in LogRecord
      BY <2>1 DEF FileOK
    <3> HIDE DEF b
    <3>2. [b EXCEPT !.last_roll = now, !.last_flush = now, !.start = Period(now),
                    !.written = 0, !.late = 0] \in LogRecord
      BY <3>1, <2>3 DEF LogRecord
    <3> QED
      BY <2>2, <3>2 DEF b
  <2>5. /\ roll_file(f).last_roll = now /\ roll_file(f).start = Period(now)
        /\ roll_file(f).late = 0 /\ roll_file(f).count = f.count
        /\ roll_file(f).worst = flush(f).worst
    BY <2>1, <2>2 DEF FileOK, LogRecord
  <2> QED
    BY <2>1, <2>4, <2>5 DEF FileOK
<1>2. CASE ~(now > f.last_roll)
  <2>1. roll_file(f) = f
    BY <1>2 DEF roll_file
  <2>2. f.last_roll = now
    BY <1>2 DEF FileOK, LogRecord
  <2>3. f.late = 0
    BY <2>2 DEF FileOK
  <2> QED
    BY <2>1, <2>3
<1> QED
  BY <1>1, <1>2

\* LogFile::append_unlocked() keeps the file within its day, by size or by count.
LEMMA AppendOK ==
  ASSUME now \in Nat, NEW f, FileOK(f), f.late <= f.count, NEW records \in Seq(Nat)
  PROVE  LET h == append_unlocked(f, records) IN FileOK(h) /\ h.late <= h.count
<1> DEFINE g == [write(f, records) EXCEPT !.late = Late(f), !.worst = Worst(f)]
           checked == [g EXCEPT !.count = 0]
<1>1. f.data \o records \in Seq(Nat) /\ f.written + Len(records) \in Nat
  BY DEF FileOK, LogRecord
<1>2. /\ FileOK(g) /\ g.count = f.count /\ g.late <= f.count + 1 /\ g.start = f.start
      /\ Period(now) = g.start => g.late = 0
  <2>1. g = [f EXCEPT !.data = f.data \o records, !.written = f.written + Len(records),
                      !.late = Late(f), !.worst = Worst(f)]
    BY DEF write, FileOK, LogRecord
  <2>2. f.late \in Nat /\ f.count \in Nat
    BY DEF FileOK, LogRecord
  <2> HIDE DEF g
  <2>3. g \in LogRecord
    <3>1. f \in LogRecord
      BY DEF FileOK
    <3>2. Late(f) \in Nat /\ Worst(f) \in Nat
      BY <2>2 DEF Late, Worst, FileOK, LogRecord
    <3> QED
      BY <1>1, <2>1, <3>1, <3>2 DEF LogRecord
  <2>4. /\ g.count = f.count /\ g.start = f.start /\ g.last_roll = f.last_roll
        /\ g.late = Late(f) /\ g.worst = Worst(f)
    BY <2>1 DEF FileOK, LogRecord
  <2>5. /\ Late(f) \in Nat /\ Late(f) <= f.count + 1 /\ f.count + 1 <= CheckEvery
        /\ Period(now) = f.start => Late(f) = 0
    BY <2>2, LoggerAssumption DEF Late, FileOK
  <2>6. f.worst \in Nat /\ f.worst <= CheckEvery
    BY DEF FileOK, LogRecord
  <2>7. Worst(f) <= CheckEvery
    BY <2>2, <2>5, <2>6, LoggerAssumption DEF Worst
  <2> QED
    BY <2>2, <2>3, <2>4, <2>5, <2>7 DEF FileOK
<1> HIDE DEF g
<1>3. /\ FileOK(checked) /\ checked.count = 0 /\ checked.late = g.late
      /\ checked.start = g.start
  BY <1>2, LoggerAssumption DEF FileOK, LogRecord
<1>4. append_unlocked(f, records) =
        IF g.written > RollSize THEN roll_file(g)
        ELSE IF ~check_due(g) THEN [g EXCEPT !.count = @ + 1]
        ELSE IF Period(now) # g.start THEN roll_file(checked)
        ELSE IF now - g.last_flush > FlushInterval
             THEN [flush(checked) EXCEPT !.last_flush = now]
        ELSE checked
  BY DEF append_unlocked, g
<1> HIDE DEF checked
<1>5. CASE g.written > RollSize
  <2>1. append_unlocked(f, records) = roll_file(g)
    BY <1>4, <1>5
  <2>2. FileOK(roll_file(g)) /\ roll_file(g).late = 0 /\ roll_file(g).count = g.count
    BY <1>2, RollOK
  <2>3. g.count \in Nat
    BY <1>2 DEF FileOK, LogRecord
  <2> QED
    BY <2>1, <2>2, <2>3
<1>6. CASE ~(g.written > RollSize) /\ ~check_due(g)
  <2>1. append_unlocked(f, records) = [g EXCEPT !.count = @ + 1]
    BY <1>4, <1>6
  <2>2. g.count + 1 < CheckEvery
    BY <1>2, <1>6, LoggerAssumption, SMTT(60) DEF check_due, FileOK, LogRecord
  <2>3. g.count \in Nat /\ g.late \in Nat
    BY <1>2 DEF FileOK, LogRecord
  <2> DEFINE h == [g EXCEPT !.count = g.count + 1]
  <2>4. h \in LogRecord
    <3>1. g \in LogRecord /\ g.count + 1 \in Nat
      BY <1>2, <2>3 DEF FileOK
    <3> QED
      BY <3>1 DEF LogRecord
  <2>5. /\ h.count = g.count + 1 /\ h.late = g.late /\ h.last_roll = g.last_roll
        /\ h.start = g.start /\ h.worst = g.worst
    BY <1>2 DEF FileOK, LogRecord
  <2>6. append_unlocked(f, records) = h
    BY <2>1
  <2> HIDE DEF h
  <2>7. FileOK(h)
    BY <1>2, <2>2, <2>4, <2>5 DEF FileOK
  <2> QED
    BY <1>2, <2>3, <2>5, <2>6, <2>7
<1>7. CASE ~(g.written > RollSize) /\ check_due(g) /\ Period(now) # g.start
  <2>1. append_unlocked(f, records) = roll_file(checked)
    BY <1>4, <1>7
  <2>2. FileOK(roll_file(checked)) /\ roll_file(checked).late = 0 /\ roll_file(checked).count = 0
    BY <1>3, <1>7, RollOK
  <2> QED
    BY <2>1, <2>2
<1>8. CASE ~(g.written > RollSize) /\ check_due(g) /\ Period(now) = g.start
  <2>1. checked.late = 0
    BY <1>2, <1>3, <1>8
  <2>2. CASE now - g.last_flush > FlushInterval
    <3>1. append_unlocked(f, records) = [flush(checked) EXCEPT !.last_flush = now]
      BY <1>4, <1>8, <2>2
    <3>2. FileOK(flush(checked)) /\ flush(checked).late = 0 /\ flush(checked).count = 0
      BY <1>3, <2>1, FlushOK
    <3> DEFINE b == flush(checked)
               h == [b EXCEPT !.last_flush = now]
    <3> HIDE DEF b
    <3>3. /\ b \in LogRecord /\ b.last_roll <= now /\ b.start = Period(b.last_roll)
          /\ b.count = 0 /\ b.late = 0 /\ b.worst <= CheckEvery
      BY <3>2 DEF b, FileOK
    <3>4. h \in LogRecord
      BY <3>3 DEF LogRecord
    <3>5. h.count = 0 /\ h.late = 0 /\ h.last_roll = b.last_roll /\ h.start = b.start
          /\ h.worst = b.worst
      BY <3>3 DEF LogRecord
    <3>6. append_unlocked(f, records) = h
      BY <3>1 DEF b
    <3> HIDE DEF h
    <3> QED
      BY <3>3, <3>4, <3>5, <3>6, LoggerAssumption DEF FileOK
  <2>3. CASE ~(now - g.last_flush > FlushInterval)
    BY <1>3, <1>4, <1>8, <2>1, <2>3
  <2> QED
    BY <2>2, <2>3
<1> QED
  BY <1>5, <1>6, <1>7, <1>8

\* Every step preserves the invariant on the file.
LEMMA FileStep == BuffersInv /\ FileInv /\ [Next]_vars => FileInv'
<1> SUFFICES ASSUME BuffersInv, FileInv, [Next]_vars PROVE FileInv'
  OBVIOUS
<1>0. now \in Nat
  BY DEF BuffersInv, BuffersTypeOK
<1>1. CASE UNCHANGED <<log, now>>
  BY <1>1 DEF FileInv, FileOK, Period
<1>2. CASE tick
  BY <1>0, <1>2 DEF tick, FileInv, FileOK, LogRecord, Period
<1>3. CASE thread_begin
  <2>1. FileOK(NoFile) /\ NoFile.late = 0 /\ NoFile.count = 0
    BY <1>0, PeriodInt, LoggerAssumption DEF NoFile, FileOK, LogRecord
  <2>2. FileOK(roll_file(NoFile)) /\ roll_file(NoFile).late = 0 /\ roll_file(NoFile).count = 0
    BY <1>0, <2>1, RollOK
  <2>3. log' = roll_file(NoFile) /\ now' = now
    BY <1>3 DEF thread_begin
  <2> QED
    BY <2>2, <2>3 DEF FileInv, FileOK, Period
<1>4. CASE thread_test \/ thread_refill
  <2>1. (log' = log \/ log' = flush(log)) /\ now' = now
    BY <1>4 DEF thread_test, thread_refill, turn_flush
  <2>2. FileOK(flush(log)) /\ flush(log).late <= flush(log).count
    BY FlushOK DEF FileInv
  <2> HIDE DEF flush
  <2> QED
    BY <2>1, <2>2 DEF FileInv, FileOK, Period
<1>5. CASE thread_drop
  <2>1. <<0>> \in Seq(Nat)
    OBVIOUS
  <2>2. (log' = log \/ log' = append_unlocked(log, <<0>>)) /\ now' = now
    BY <1>5 DEF thread_drop
  <2>3. LET h == append_unlocked(log, <<0>>) IN FileOK(h) /\ h.late <= h.count
    BY <1>0, <2>1, AppendOK DEF FileInv
  <2> QED
    BY <2>2, <2>3 DEF FileInv, FileOK, Period
<1>6. CASE thread_write
  <2>1. taken[at] \in Seq(Nat)
    BY <1>6 DEF thread_write, BuffersInv, BuffersTypeOK
  <2>2. log' = append_unlocked(log, taken[at]) /\ now' = now
    BY <1>6 DEF thread_write
  <2>3. LET h == append_unlocked(log, taken[at]) IN FileOK(h) /\ h.late <= h.count
    BY <1>0, <2>1, AppendOK DEF FileInv
  <2> QED
    BY <2>2, <2>3 DEF FileInv, FileOK, Period
<1>7. CASE start \/ started \/ stop \/ stop_notify \/ joined \/ append \/ thread_wait
           \/ thread_swap \/ wait_timeout
  BY <1>1, <1>7 DEF start, started, stop, stop_notify, joined, append, thread_wait, thread_swap,
                    wait_timeout
<1>8. CASE UNCHANGED vars
  BY <1>1, <1>8 DEF vars
<1> QED
  BY <1>2, <1>3, <1>4, <1>5, <1>6, <1>7, <1>8 DEF Next, ThreadStep, OwnerStep

\* However sizes, counts and the clock meet, LogFile::append_unlocked() makes at
\* most CheckEvery appends to a file whose day is over, the one that rolls it
\* included.
THEOREM DayAlwaysRolled == Spec => []DayRolled
<1>1. Init => BuffersInv /\ FileInv
  <2>1. Init => FileInv
    BY PeriodInt, LoggerAssumption DEF Init, NoFile, FileInv, FileOK, LogRecord
  <2> QED
    BY <2>1, BuffersInit
<1>2. BuffersInv /\ FileInv /\ [Next]_vars => (BuffersInv /\ FileInv)'
  BY BuffersStep, FileStep
<1>3. FileInv => DayRolled
  BY LoggerAssumption DEF FileInv, FileOK, LogRecord, DayRolled
<1> QED
  BY <1>1, <1>2, <1>3, PTL DEF Spec

(***************************************************************************)
(* The records.  The file, the buffers that are still to be written, the   *)
(* full ones and the current one are increasing, and each is before those  *)
(* that follow it; that is stated for the parts one by one, where a step   *)
(* moves only one of them.  The thread holds buffers only from its swap to *)
(* its refill, so a swap overwrites none.                                  *)
(***************************************************************************)
LinesTypeOK ==
  /\ log \in LogRecord
  /\ at <= Len(taken) + 1
  /\ pc \notin {"drop", "write"} => taken = <<>>
  /\ pc = "drop" => at = 1
  /\ pc \in {"none", "born"} => log.data = <<>>
  /\ dropped \subseteq 0..appended

Sorted ==
  /\ Increasing(log.data) /\ Increasing(current)
  /\ \A b \in at..Len(taken) : Increasing(taken[b])
  /\ \A b \in 1..Len(pool) : Increasing(pool[b])

FileFirst ==
  /\ \A b \in at..Len(taken) : Before(log.data, taken[b])
  /\ \A b \in 1..Len(pool) : Before(log.data, pool[b])
  /\ Before(log.data, current)

TakenNext ==
  \A b \in at..Len(taken) :
    /\ \A c \in at..Len(taken) : b < c => Before(taken[b], taken[c])
    /\ \A c \in 1..Len(pool) : Before(taken[b], pool[c])
    /\ Before(taken[b], current)

PoolNext ==
  \A b \in 1..Len(pool) :
    /\ \A c \in 1..Len(pool) : b < c => Before(pool[b], pool[c])
    /\ Before(pool[b], current)

TakenRecords == UNION {Records(taken[b]) : b \in at..Len(taken)}
PoolRecords == UNION {Records(pool[b]) : b \in 1..Len(pool)}
Held == Records(log.data) \cup TakenRecords \cup PoolRecords \cup Records(current)

LinesInv ==
  /\ LinesTypeOK /\ Sorted /\ FileFirst /\ TakenNext /\ PoolNext
  /\ Held = (1..appended) \ dropped

\* What a sequence made of two holds, and when it is increasing.
LEMMA RecordsConcat ==
  ASSUME NEW s \in Seq(Nat), NEW t \in Seq(Nat)
  PROVE  /\ Records(s \o t) = Records(s) \cup Records(t)
         /\ Increasing(s) /\ Increasing(t) /\ Before(s, t) => Increasing(s \o t)
<1> DEFINE u == s \o t
<1>1. u \in Seq(Nat) /\ Len(u) = Len(s) + Len(t) /\ Len(s) \in Nat /\ Len(t) \in Nat
  OBVIOUS
<1>2. \A i \in 1..Len(s) : u[i] = s[i]
  OBVIOUS
<1>3. \A i \in 1..Len(t) : u[Len(s) + i] = t[i]
  OBVIOUS
<1>4. \A i \in 1..Len(u) : i \in 1..Len(s) \/ i - Len(s) \in 1..Len(t)
  BY <1>1
<1>5. \A i \in 1..Len(u) : i \notin 1..Len(s) => u[i] = t[i - Len(s)]
  BY <1>1
<1> HIDE DEF u
<1>6. ToSet(u) = ToSet(s) \cup ToSet(t)
  <2>1. DOMAIN u = 1..Len(u) /\ DOMAIN s = 1..Len(s) /\ DOMAIN t = 1..Len(t)
    BY <1>1
  <2>2. \A i \in 1..Len(t) : Len(s) + i \in 1..Len(u)
    BY <1>1
  <2>3. \A i \in 1..Len(s) : i \in 1..Len(u)
    BY <1>1
  <2>4. ToSet(u) \subseteq ToSet(s) \cup ToSet(t)
    BY <1>2, <1>4, <1>5, <2>1 DEF ToSet
  <2>5. ToSet(s) \subseteq ToSet(u)
    BY <1>2, <2>1, <2>3 DEF ToSet
  <2>6. ToSet(t) \subseteq ToSet(u)
    BY <1>3, <2>1, <2>2 DEF ToSet
  <2> QED
    BY <2>4, <2>5, <2>6
<1>7. Records(u) = Records(s) \cup Records(t)
  BY <1>6 DEF Records
<1>8. ASSUME Increasing(s), Increasing(t), Before(s, t) PROVE Increasing(u)
  <2> SUFFICES ASSUME NEW i \in 1..Len(u), NEW j \in 1..Len(u), i < j, u[j] # 0
               PROVE  u[i] < u[j]
    BY DEF Increasing
  <2>1. CASE j \in 1..Len(s)
    <3>1. i \in 1..Len(s)
      BY <1>1, <2>1
    <3>2. u[i] = s[i] /\ u[j] = s[j]
      BY <1>2, <2>1, <3>1
    <3> QED
      BY <1>8, <2>1, <3>1, <3>2 DEF Increasing
  <2>2. CASE j \notin 1..Len(s) /\ i \notin 1..Len(s)
    <3> DEFINE x == i - Len(s)
               y == j - Len(s)
    <3>1. x \in 1..Len(t) /\ y \in 1..Len(t) /\ x < y
      BY <1>1, <1>4, <2>2
    <3>2. u[i] = t[x] /\ u[j] = t[y]
      BY <1>5, <2>2
    <3> HIDE DEF x, y
    <3> QED
      BY <1>8, <3>1, <3>2 DEF Increasing
  <2>3. CASE j \notin 1..Len(s) /\ i \in 1..Len(s)
    <3> DEFINE y == j - Len(s)
    <3>1. y \in 1..Len(t) /\ u[i] = s[i] /\ u[j] = t[y]
      BY <1>2, <1>4, <1>5, <2>3
    <3> HIDE DEF y
    <3>2. s[i] \in Nat /\ t[y] \in Nat /\ t[y] # 0
      BY <2>3, <3>1, SMTT(60)
    <3>3. s[i] \in ToSet(s) /\ t[y] \in ToSet(t)
      BY <2>3, <3>1 DEF ToSet
    <3>4. s[i] = 0 \/ (s[i] \in Records(s) /\ t[y] \in Records(t))
      BY <3>2, <3>3 DEF Records
    <3>5. s[i] = 0 \/ s[i] < t[y]
      BY <1>8, <3>4 DEF Before
    <3> QED
      BY <3>1, <3>2, <3>5
  <2> QED
    BY <2>1, <2>2, <2>3
<1> QED
  BY <1>7, <1>8 DEF u

\* Sequences of no record and of one.
LEMMA RecordsShort ==
  /\ Records(<<>>) = {} /\ Increasing(<<>>)
  /\ \A r \in Nat : Records(<<r>>) = {r} \ {0} /\ Increasing(<<r>>)
<1>1. Records(<<>>) = {} /\ Increasing(<<>>)
  BY DEF Records, ToSet, Increasing
<1>2. ASSUME NEW r \in Nat PROVE Records(<<r>>) = {r} \ {0} /\ Increasing(<<r>>)
  <2>1. ToSet(<<r>>) = {r}
    BY DEF ToSet
  <2>2. Increasing(<<r>>)
    BY DEF Increasing
  <2> QED
    BY <2>1, <2>2 DEF Records
<1> QED
  BY <1>1, <1>2

\* Records are numbers.
LEMMA RecordsNat == \A s \in Seq(Nat) : Records(s) \subseteq Nat \ {0}
<1> SUFFICES ASSUME NEW s \in Seq(Nat) PROVE Records(s) \subseteq Nat \ {0}
  OBVIOUS
<1>1. ToSet(s) \subseteq Nat
  BY DEF ToSet
<1> QED
  BY <1>1 DEF Records

\* Appending to the log file adds the records at the end of its data, whether
\* LogFile rolls, flushes or only counts.
LEMMA AppendData ==
  ASSUME NEW f \in LogRecord, NEW records \in Seq(Nat)
  PROVE  append_unlocked(f, records).data = f.data \o records
<1> DEFINE g == [write(f, records) EXCEPT !.late = Late(f), !.worst = Worst(f)]
           checked == [g EXCEPT !.count = 0]
<1>1. DOMAIN g = DOMAIN f /\ g.data = f.data \o records
  BY DEF write, LogRecord
<1>2. "data" \in DOMAIN f
  BY DEF LogRecord
<1>3. append_unlocked(f, records) =
        IF g.written > RollSize THEN roll_file(g)
        ELSE IF ~check_due(g) THEN [g EXCEPT !.count = @ + 1]
        ELSE IF Period(now) # g.start THEN roll_file(checked)
        ELSE IF now - g.last_flush > FlushInterval
             THEN [flush(checked) EXCEPT !.last_flush = now]
        ELSE checked
  BY DEF append_unlocked, g
<1> HIDE DEF g
<1>4. DOMAIN checked = DOMAIN f /\ checked.data = g.data
  BY <1>1, <1>2
<1> HIDE DEF checked
<1>5. ASSUME NEW h, DOMAIN h = DOMAIN f
      PROVE  /\ flush(h).data = h.data
             /\ [flush(h) EXCEPT !.last_flush = now].data = h.data
             /\ roll_file(h).data = h.data
             /\ [h EXCEPT !.count = @ + 1].data = h.data
  BY <1>2, <1>5 DEF flush, roll_file
<1> QED
  BY <1>1, <1>3, <1>4, <1>5

\* What is held is numbered by the appends made so far.
LEMMA HeldOld ==
  ASSUME BuffersInv, LinesInv
  PROVE  /\ \A r \in Records(log.data) \cup Records(current) : r \in Nat /\ r <= appended
         /\ \A b \in at..Len(taken) : \A r \in Records(taken[b]) : r \in Nat /\ r <= appended
         /\ \A b \in 1..Len(pool) : \A r \in Records(pool[b]) : r \in Nat /\ r <= appended
<1>1. \A r \in Held : r \in Nat /\ r <= appended
  BY DEF LinesInv, BuffersInv, BuffersTypeOK
<1>2. \A b \in at..Len(taken) : Records(taken[b]) \subseteq Held
  BY Zenon DEF Held, TakenRecords
<1>3. \A b \in 1..Len(pool) : Records(pool[b]) \subseteq Held
  BY Zenon DEF Held, PoolRecords
<1>4. Records(log.data) \cup Records(current) \subseteq Held
  BY DEF Held
<1> QED
  BY <1>1, <1>2, <1>3, <1>4

\* The steps that move no record.
LEMMA LinesApart ==
  ASSUME BuffersInv, LinesInv, UNCHANGED <<current, pool, appended, taken, at, dropped>>,
         log' \in LogRecord, log'.data = log.data,
         pc' = pc \/ {pc, pc'} \cap {"drop", "write"} = {},
         pc' \in {"none", "born"} => pc \in {"none", "born"}
  PROVE  LinesInv'
<1>1. LinesTypeOK'
  BY DEF LinesInv, LinesTypeOK, BuffersInv, BuffersTypeOK
<1>2. Sorted' /\ FileFirst'
  BY DEF LinesInv, Sorted, FileFirst
<1>3. TakenNext' /\ PoolNext'
  BY DEF LinesInv, TakenNext, PoolNext
<1>4. Held' = (1..appended') \ dropped'
  BY DEF LinesInv, Held, TakenRecords, PoolRecords
<1> QED
  BY <1>1, <1>2, <1>3, <1>4 DEF LinesInv

\* AsyncLogger::append() adds the last record at the end of the last buffer.
LEMMA LinesAppend == BuffersInv /\ LinesInv /\ append => LinesInv'
<1> SUFFICES ASSUME BuffersInv, LinesInv, append PROVE LinesInv'
  OBVIOUS
<1> DEFINE n == appended + 1
<1>0. /\ appended \in Nat /\ current \in Seq(Nat) /\ pool \in Seq(Seq(Nat))
      /\ n \in Nat /\ n # 0
  BY DEF BuffersInv, BuffersTypeOK
<1>1. /\ appended' = n /\ UNCHANGED <<log, taken, at, dropped>>
      /\ pc' = pc \/ (pc = "wait" /\ pc' = "woken")
  BY DEF append, backVars, Notified
<1>2. LinesTypeOK'
  BY <1>0, <1>1 DEF LinesInv, LinesTypeOK
<1>3. Records(<<n>>) = {n} /\ Increasing(<<n>>)
  BY <1>0, RecordsShort
<1>4. n \notin dropped /\ Held \cup {n} = (1..n) \ dropped
  <2>1. dropped \subseteq 0..appended
    BY DEF LinesInv, LinesTypeOK
  <2> QED
    BY <1>0, <2>1 DEF LinesInv
<1>5. CASE availability
  <2>1. current' = current \o <<n>> /\ pool' = pool
    <3>1. current' = Append(current, n) /\ pool' = pool
      BY <1>1, <1>5 DEF append
    <3> HIDE DEF n
    <3>2. Append(current, n) = current \o <<n>>
      BY <1>0
    <3> QED
      BY <3>1, <3>2
  <2>2. \A r \in Records(current) : r < n
    BY <1>0, HeldOld
  <2>3. Before(current, <<n>>)
    BY <1>3, <2>2 DEF Before
  <2>4. Records(current') = Records(current) \cup {n} /\ Increasing(current')
    <3> HIDE DEF n
    <3>1. <<n>> \in Seq(Nat) /\ Increasing(current)
      BY <1>0 DEF LinesInv, Sorted
    <3> QED
      BY <1>0, <1>3, <2>1, <2>3, <3>1, RecordsConcat
  <2>5. ASSUME NEW s, Before(s, current), \A r \in Records(s) : r \in Nat /\ r <= appended
        PROVE  Before(s, current')
    BY <1>0, <2>4, <2>5 DEF Before
  <2>6. Sorted'
    BY <1>1, <2>1, <2>4 DEF LinesInv, Sorted
  <2>7. FileFirst'
    BY <1>1, <2>1, <2>5, HeldOld DEF LinesInv, FileFirst
  <2>8. TakenNext' /\ PoolNext'
    BY <1>1, <2>1, <2>5, HeldOld DEF LinesInv, TakenNext, PoolNext
  <2>9. Held' = Held \cup {n}
    BY <1>1, <2>1, <2>4 DEF Held, TakenRecords, PoolRecords
  <2> QED
    BY <1>1, <1>2, <1>4, <2>6, <2>7, <2>8, <2>9 DEF LinesInv
<1>6. CASE ~availability
  <2>1. pool' = Append(pool, current) /\ current' = <<n>>
    BY <1>1, <1>6 DEF append
  <2>2. /\ Len(pool') = Len(pool) + 1 /\ pool'[Len(pool) + 1] = current
        /\ \A b \in 1..Len(pool) : pool'[b] = pool[b]
        /\ Len(pool) \in Nat
    BY <1>0, <2>1
  <2>3. \A b \in 1..Len(pool') : b \in 1..Len(pool) \/ b = Len(pool) + 1
    BY <2>2
  <2>4. ASSUME NEW s, \A r \in Records(s) : r \in Nat /\ r <= appended
        PROVE  Before(s, current')
    <3>1. Records(current') = {n}
      BY <1>3, <2>1
    <3> QED
      BY <1>0, <2>4, <3>1 DEF Before
  <2>5. Sorted'
    BY <1>1, <1>3, <2>1, <2>2, <2>3 DEF LinesInv, Sorted
  <2>6. FileFirst'
    BY <1>1, <2>2, <2>3, <2>4, HeldOld DEF LinesInv, FileFirst
  <2>7. TakenNext'
    BY <1>1, <2>2, <2>3, <2>4, HeldOld DEF LinesInv, TakenNext
  <2>8. PoolNext'
    <3>1. ASSUME NEW b \in 1..Len(pool') PROVE Before(pool'[b], current')
      BY <2>2, <2>3, <2>4, HeldOld
    <3>2. ASSUME NEW b \in 1..Len(pool'), NEW c \in 1..Len(pool'), b < c
          PROVE  Before(pool'[b], pool'[c])
      <4>1. b \in 1..Len(pool)
        BY <2>2, <2>3, <3>2
      <4> QED
        BY <2>2, <2>3, <3>2, <4>1 DEF LinesInv, PoolNext
    <3> QED
      BY <3>1, <3>2 DEF PoolNext
  <2>9. Held' = Held \cup {n}
    <3>1. PoolRecords' = PoolRecords \cup Records(current)
      <4>1. 1..Len(pool') = (1..Len(pool)) \cup {Len(pool) + 1}
        BY <2>2
      <4>2. \A b \in 1..Len(pool) : b \in 1..Len(pool')
        BY <4>1
      <4>3. Len(pool) + 1 \in 1..Len(pool')
        BY <4>1
      <4>4. PoolRecords' \subseteq PoolRecords \cup Records(current)
        BY <2>2, <2>3, Zenon DEF PoolRecords
      <4>5. PoolRecords \subseteq PoolRecords'
        BY <2>2, <4>2, Zenon DEF PoolRecords
      <4>6. Records(current) \subseteq PoolRecords'
        BY <2>2, <4>3, Zenon DEF PoolRecords
      <4> QED
        BY <4>4, <4>5, <4>6
    <3>2. TakenRecords' = TakenRecords /\ Records(current') = {n}
      BY <1>1, <1>3, <2>1 DEF TakenRecords
    <3> QED
      BY <1>1, <3>1, <3>2 DEF Held
  <2> QED
    BY <1>1, <1>2, <1>4, <2>5, <2>6, <2>7, <2>8, <2>9 DEF LinesInv
<1> QED
  BY <1>5, <1>6

\* The swap takes the full buffers and then the current one, and overwrites none:
\* the buffers of the turn before were all written.
LEMMA LinesSwap == BuffersInv /\ LinesInv /\ thread_swap => LinesInv'
<1> SUFFICES ASSUME BuffersInv, LinesInv, thread_swap PROVE LinesInv'
  OBVIOUS
<1>0. current \in Seq(Nat) /\ pool \in Seq(Seq(Nat)) /\ appended \in Nat
  BY DEF BuffersInv, BuffersTypeOK
<1>1. /\ taken' = Append(pool, current) /\ current' = <<>> /\ pool' = <<>> /\ at' = 1
      /\ pc' = "drop" /\ UNCHANGED <<appended, log, dropped>>
  BY DEF thread_swap, batch
<1>2. taken = <<>> /\ at \in Nat \ {0}
  BY DEF thread_swap, LinesInv, LinesTypeOK, BuffersInv, BuffersTypeOK
<1>3. /\ Len(taken') = Len(pool) + 1 /\ taken'[Len(pool) + 1] = current
      /\ \A b \in 1..Len(pool) : taken'[b] = pool[b]
      /\ Len(pool) \in Nat
  BY <1>0, <1>1
<1>4. \A b \in at'..Len(taken') : b \in 1..Len(pool) \/ b = Len(pool) + 1
  BY <1>1, <1>3
<1>5. 1..Len(pool') = {} /\ Records(current') = {} /\ Increasing(current')
  BY <1>1, RecordsShort
<1>6. \A s : Before(s, current')
  BY <1>5 DEF Before
<1>7. LinesTypeOK'
  BY <1>0, <1>1, <1>3 DEF LinesInv, LinesTypeOK
<1>8. Sorted'
  BY <1>1, <1>3, <1>4, <1>5 DEF LinesInv, Sorted
<1>9. FileFirst'
  BY <1>1, <1>3, <1>4, <1>5, <1>6 DEF LinesInv, FileFirst
<1>10. TakenNext' /\ PoolNext'
  <2>1. ASSUME NEW b \in at'..Len(taken'), NEW c \in at'..Len(taken'), b < c
        PROVE  Before(taken'[b], taken'[c])
    <3>1. b \in 1..Len(pool)
      BY <1>1, <1>3, <1>4, <2>1
    <3> QED
      BY <1>3, <1>4, <2>1, <3>1 DEF LinesInv, PoolNext
  <2> QED
    BY <1>5, <1>6, <2>1 DEF TakenNext, PoolNext
<1>11. Held' = Held
  <2>1. TakenRecords = {}
    <3>1. at..Len(taken) = {}
      BY <1>2
    <3> QED
      BY <3>1 DEF TakenRecords
  <2>2. PoolRecords' = {}
    BY <1>5 DEF PoolRecords
  <2>3. TakenRecords' = PoolRecords \cup Records(current)
    <3>1. \A b \in 1..Len(pool) : b \in at'..Len(taken')
      BY <1>1, <1>3
    <3>2. Len(pool) + 1 \in at'..Len(taken')
      BY <1>1, <1>3
    <3>3. TakenRecords' \subseteq PoolRecords \cup Records(current)
      BY <1>3, <1>4, Zenon DEF TakenRecords, PoolRecords
    <3>4. PoolRecords \subseteq TakenRecords'
      BY <1>3, <3>1, Zenon DEF TakenRecords, PoolRecords
    <3>5. Records(current) \subseteq TakenRecords'
      BY <1>3, <3>2, Zenon DEF TakenRecords
    <3> QED
      BY <3>3, <3>4, <3>5
  <2> QED
    BY <1>1, <1>5, <2>1, <2>2, <2>3 DEF Held
<1> QED
  BY <1>1, <1>7, <1>8, <1>9, <1>10, <1>11 DEF LinesInv

\* A thread that is too far behind gives up the records of the buffers from the
\* third on, and no others.
LEMMA LinesDrop == BuffersInv /\ LinesInv /\ FileInv' /\ thread_drop => LinesInv'
<1> SUFFICES ASSUME BuffersInv, LinesInv, FileInv', thread_drop PROVE LinesInv'
  OBVIOUS
<1>0. /\ taken \in Seq(Seq(Nat)) /\ pool \in Seq(Seq(Nat)) /\ current \in Seq(Nat)
      /\ log \in LogRecord /\ log.data \in Seq(Nat) /\ appended \in Nat
      /\ Len(taken) \in Nat /\ at = 1
  BY DEF BuffersInv, BuffersTypeOK, LinesInv, LinesTypeOK, LogRecord, thread_drop
<1>1. UNCHANGED <<current, pool, appended, at>> /\ pc = "drop" /\ pc' = "write"
  BY DEF thread_drop, frontVars
<1>2. CASE ~(Len(taken) > DropAbove)
  <2>1. UNCHANGED <<taken, dropped, log>>
    BY <1>2 DEF thread_drop
  <2>2. LinesTypeOK'
    BY <1>1, <2>1 DEF LinesInv, LinesTypeOK
  <2>3. Sorted' /\ FileFirst' /\ TakenNext' /\ PoolNext'
    BY <1>1, <2>1 DEF LinesInv, Sorted, FileFirst, TakenNext, PoolNext
  <2>4. Held' = Held
    BY <1>1, <2>1 DEF Held, TakenRecords, PoolRecords
  <2> QED
    BY <1>1, <2>1, <2>2, <2>3, <2>4 DEF LinesInv
<1>3. CASE Len(taken) > DropAbove
  <2> DEFINE gone == UNION {ToSet(taken[b]) : b \in 3..Len(taken)}
  <2>1. /\ taken' = SubSeq(taken, 1, 2) /\ log' = append_unlocked(log, <<0>>)
        /\ dropped' = dropped \cup gone
    BY <1>3 DEF thread_drop, kept_buffers
  <2>2. Len(taken) > 2
    BY <1>0, <1>3, LoggerAssumption
  <2>3. Len(taken') = 2 /\ \A b \in 1..2 : taken'[b] = taken[b]
    BY <1>0, <2>1, <2>2
  <2>4. log'.data = log.data \o <<0>> /\ <<0>> \in Seq(Nat)
    <3>1. <<0>> \in Seq(Nat)
      OBVIOUS
    <3>2. append_unlocked(log, <<0>>).data = log.data \o <<0>>
      BY <1>0, <3>1, AppendData
    <3> QED
      BY <2>1, <3>1, <3>2
  <2>5. Records(<<0>>) = {} /\ Increasing(<<0>>)
    BY RecordsShort
  <2>6. Before(log.data, <<0>>)
    BY <2>5 DEF Before
  <2>7. Records(log'.data) = Records(log.data) /\ Increasing(log'.data)
    <3>1. Records(log.data \o <<0>>) = Records(log.data) \cup Records(<<0>>)
      BY <1>0, <2>4, RecordsConcat
    <3>2. Increasing(log.data)
      BY DEF LinesInv, Sorted
    <3>3. Increasing(log.data \o <<0>>)
      BY <1>0, <2>4, <2>5, <2>6, <3>2, RecordsConcat
    <3> QED
      BY <2>4, <2>5, <3>1, <3>3
  <2>8. \A s : Before(log.data, s) => Before(log'.data, s)
    BY <2>7 DEF Before
  <2>9. \A b \in 3..Len(taken) : ToSet(taken[b]) \subseteq Records(taken[b]) \cup {0}
    BY DEF Records
  <2>10. gone \subseteq 0..appended
    <3>1. \A b \in 3..Len(taken) : \A r \in Records(taken[b]) : r \in Nat /\ r <= appended
      BY <1>0, HeldOld
    <3>2. \A b \in 3..Len(taken) : ToSet(taken[b]) \subseteq 0..appended
      <4> SUFFICES ASSUME NEW b \in 3..Len(taken), NEW r \in ToSet(taken[b])
                   PROVE  r \in 0..appended
        OBVIOUS
      <4>1. r = 0 \/ r \in Records(taken[b])
        BY <2>9
      <4>2. r = 0 \/ (r \in Nat /\ r <= appended)
        BY <3>1, <4>1
      <4> QED
        BY <1>0, <4>2
    <3> QED
      BY <3>2, Zenon
  <2>11. log' \in LogRecord
    BY DEF FileInv, FileOK
  <2>12. LinesTypeOK'
    <3> HIDE DEF gone
    <3>1. dropped' \subseteq 0..appended'
      BY <1>1, <2>1, <2>10 DEF LinesInv, LinesTypeOK
    <3> QED
      BY <1>0, <1>1, <2>3, <2>11, <3>1 DEF LinesTypeOK
  <2>13. \A b \in at'..Len(taken') : b \in at..Len(taken) /\ taken'[b] = taken[b]
    BY <1>0, <1>1, <2>2, <2>3
  <2>14. Sorted'
    BY <1>1, <2>7, <2>13 DEF LinesInv, Sorted
  <2>15. FileFirst'
    BY <1>1, <2>8, <2>13 DEF LinesInv, FileFirst
  <2>16. TakenNext' /\ PoolNext'
    BY <1>1, <2>13 DEF LinesInv, TakenNext, PoolNext
  <2>17. Held' = Held \ gone
    <3>1. PoolRecords' = PoolRecords /\ Records(current') = Records(current)
      BY <1>1 DEF PoolRecords
    <3>2. \A b \in 1..2 : b \in at..Len(taken)
      BY <1>0, <2>2
    <3>3. \A b \in 3..Len(taken) : b \in at..Len(taken)
      BY <1>0
    <3>4. ASSUME NEW r, NEW b \in 3..Len(taken), r \in ToSet(taken[b])
          PROVE  /\ r \notin Records(log.data) /\ r \notin PoolRecords
                 /\ r \notin Records(current) /\ r \notin TakenRecords'
      <4>1. CASE r = 0
        BY <4>1 DEF Records, PoolRecords, TakenRecords
      <4>2. CASE r # 0
        <5>1. r \in Records(taken[b]) /\ b \in at..Len(taken)
          BY <3>3, <3>4, <4>2 DEF Records
        <5>2. r \in Nat
          BY <5>1, HeldOld
        <5>3. ~(r < r)
          BY <5>2
        <5>4. r \notin Records(log.data)
          BY <5>1, <5>3 DEF LinesInv, FileFirst, Before
        <5>5. r \notin Records(current)
          BY <5>1, <5>3 DEF LinesInv, TakenNext, Before
        <5>6. \A c \in 1..Len(pool) : r \notin Records(pool[c])
          BY <5>1, <5>3 DEF LinesInv, TakenNext, Before
        <5>7. \A c \in 1..2 : c < b
          OBVIOUS
        <5>8. \A c \in 1..2 : r \notin Records(taken[c])
          BY <3>2, <5>1, <5>3, <5>7 DEF LinesInv, TakenNext, Before
        <5>9. r \notin PoolRecords
          BY <5>6, Zenon DEF PoolRecords
        <5>10. \A c \in at'..Len(taken') : c \in 1..2
          BY <1>0, <1>1, <2>3
        <5>11. r \notin TakenRecords'
          BY <2>3, <5>8, <5>10, Zenon DEF TakenRecords
        <5> QED
          BY <5>4, <5>5, <5>9, <5>11
      <4> QED
        BY <4>1, <4>2
    <3>5. gone \cap (Records(log.data) \cup PoolRecords \cup Records(current) \cup TakenRecords') = {}
      BY <3>4, Zenon
    <3>6. TakenRecords' \subseteq TakenRecords
      BY <2>13, Zenon DEF TakenRecords
    <3>7. TakenRecords \subseteq TakenRecords' \cup gone
      <4>1. \A b \in at..Len(taken) : b \in 3..Len(taken) \/ b \in 1..2
        BY <1>0
      <4>2. \A b \in 1..2 : b \in at'..Len(taken')
        BY <1>0, <1>1, <2>3
      <4>3. \A b \in 1..2 : Records(taken[b]) \subseteq TakenRecords'
        BY <2>3, <4>2, Zenon DEF TakenRecords
      <4>4. \A b \in 3..Len(taken) : Records(taken[b]) \subseteq gone
        BY Zenon DEF Records
      <4> QED
        BY <4>1, <4>3, <4>4, Zenon DEF TakenRecords
    <3> HIDE DEF gone
    <3> QED
      BY <2>7, <3>1, <3>5, <3>6, <3>7 DEF Held
  <2> HIDE DEF gone
  <2> QED
    BY <1>1, <2>1, <2>12, <2>14, <2>15, <2>16, <2>17 DEF LinesInv
<1> QED
  BY <1>2, <1>3

\* A write moves the records of the first buffer left to the end of the file.
LEMMA LinesWrite == BuffersInv /\ LinesInv /\ FileInv' /\ thread_write => LinesInv'
<1> SUFFICES ASSUME BuffersInv, LinesInv, FileInv', thread_write PROVE LinesInv'
  OBVIOUS
<1>0. /\ taken \in Seq(Seq(Nat)) /\ log \in LogRecord /\ log.data \in Seq(Nat)
      /\ Len(taken) \in Nat /\ at \in Nat \ {0} /\ at <= Len(taken)
  BY DEF BuffersInv, BuffersTypeOK, LinesInv, LinesTypeOK, LogRecord, thread_write
<1>1. /\ UNCHANGED <<current, pool, appended, taken, dropped>> /\ at' = at + 1
      /\ pc = "write" /\ pc' = "write" /\ log' = append_unlocked(log, taken[at])
  BY DEF thread_write, frontVars
<1>2. taken[at] \in Seq(Nat) /\ at \in at..Len(taken)
  BY <1>0
<1>3. log'.data = log.data \o taken[at]
  BY <1>0, <1>1, <1>2, AppendData
<1>4. Records(log'.data) = Records(log.data) \cup Records(taken[at])
  BY <1>0, <1>2, <1>3, RecordsConcat
<1>5. Increasing(log'.data)
  <2>1. Increasing(log.data) /\ Increasing(taken[at]) /\ Before(log.data, taken[at])
    BY <1>2 DEF LinesInv, Sorted, FileFirst
  <2> QED
    BY <1>0, <1>2, <1>3, <2>1, RecordsConcat
<1>6. \A s : Before(log.data, s) /\ Before(taken[at], s) => Before(log'.data, s)
  BY <1>4 DEF Before
<1>7. \A b \in at'..Len(taken) : b \in at..Len(taken) /\ at < b
  BY <1>0, <1>1
<1>8. LinesTypeOK'
  <2>1. log' \in LogRecord
    BY DEF FileInv, FileOK
  <2> QED
    BY <1>0, <1>1, <2>1 DEF LinesInv, LinesTypeOK
<1>9. Sorted'
  BY <1>1, <1>5, <1>7 DEF LinesInv, Sorted
<1>10. FileFirst'
  BY <1>1, <1>2, <1>6, <1>7 DEF LinesInv, FileFirst, TakenNext
<1>11. TakenNext' /\ PoolNext'
  BY <1>1, <1>7 DEF LinesInv, TakenNext, PoolNext
<1>12. Held' = Held
  <2>1. TakenRecords = Records(taken[at]) \cup TakenRecords'
    <3>1. \A b \in at..Len(taken) : b = at \/ b \in at'..Len(taken)
      BY <1>0, <1>1
    <3>2. TakenRecords \subseteq Records(taken[at]) \cup TakenRecords'
      BY <1>1, <3>1, Zenon DEF TakenRecords
    <3>3. Records(taken[at]) \subseteq TakenRecords
      BY <1>2, Zenon DEF TakenRecords
    <3>4. TakenRecords' \subseteq TakenRecords
      BY <1>1, <1>7, Zenon DEF TakenRecords
    <3> QED
      BY <3>2, <3>3, <3>4
  <2>2. PoolRecords' = PoolRecords /\ Records(current') = Records(current)
    BY <1>1 DEF PoolRecords
  <2> QED
    BY <1>4, <2>1, <2>2 DEF Held
<1> QED
  BY <1>1, <1>8, <1>9, <1>10, <1>11, <1>12 DEF LinesInv

\* The refill gives up buffers that were all written.
LEMMA LinesRefill == BuffersInv /\ LinesInv /\ thread_refill => LinesInv'
<1> SUFFICES ASSUME BuffersInv, LinesInv, thread_refill PROVE LinesInv'
  OBVIOUS
<1>0. /\ taken \in Seq(Seq(Nat)) /\ log \in LogRecord /\ log.data \in Seq(Nat)
      /\ Len(taken) \in Nat /\ at \in Nat /\ at > Len(taken)
  BY DEF BuffersInv, BuffersTypeOK, LinesInv, LinesTypeOK, LogRecord, thread_refill
<1>1. /\ UNCHANGED <<current, pool, appended, dropped>> /\ taken' = <<>> /\ at' = 1
      /\ pc' = "test" /\ log' = flush(log)
  BY DEF thread_refill, frontVars, turn_flush
<1>2. log' \in LogRecord /\ log'.data = log.data
  <2>1. Len(log.data) \in Nat
    BY <1>0
  <2> QED
    BY <1>0, <1>1, <2>1 DEF flush, LogRecord
<1>3. at..Len(taken) = {} /\ at'..Len(taken') = {}
  BY <1>0, <1>1
<1>4. LinesTypeOK'
  BY <1>1, <1>2 DEF LinesInv, LinesTypeOK
<1>5. Sorted' /\ FileFirst'
  BY <1>1, <1>2, <1>3 DEF LinesInv, Sorted, FileFirst
<1>6. TakenNext' /\ PoolNext'
  BY <1>1, <1>3 DEF LinesInv, TakenNext, PoolNext
<1>7. Held' = Held
  BY <1>1, <1>2, <1>3 DEF Held, TakenRecords, PoolRecords
<1> QED
  BY <1>1, <1>4, <1>5, <1>6, <1>7 DEF LinesInv

\* Every step preserves the invariant on the records.
LEMMA LinesStep == BuffersInv /\ FileInv' /\ LinesInv /\ [Next]_vars => LinesInv'
<1> SUFFICES ASSUME BuffersInv, FileInv', LinesInv, [Next]_vars PROVE LinesInv'
  OBVIOUS
<1> USE DEF frontVars, backVars
<1>0. log \in LogRecord /\ log' \in LogRecord /\ log.data \in Seq(Nat)
  BY DEF FileInv, FileOK, LinesInv, LinesTypeOK, LogRecord
<1>1. CASE start
  <2>1. pc = "none" /\ pc' = "born"
    BY <1>1 DEF start, BuffersInv, NotStarted
  <2> QED
    BY <1>0, <1>1, <2>1, LinesApart DEF start
<1>2. CASE started \/ stop \/ joined \/ tick \/ UNCHANGED vars
  <2>1. UNCHANGED <<current, pool, appended, taken, at, dropped, log, pc>>
    BY <1>2 DEF started, stop, joined, tick, vars
  <2> QED
    BY <1>0, <2>1, LinesApart
<1>3. CASE stop_notify \/ thread_wait \/ wait_timeout
  <2>1. /\ UNCHANGED <<current, pool, appended, taken, at, dropped, log>>
        /\ pc' = pc \/ (pc \in {"lock", "wait"} /\ pc' \in {"wait", "woken"})
    BY <1>3 DEF stop_notify, thread_wait, wait_timeout, Notified
  <2> QED
    BY <1>0, <2>1, LinesApart
<1>4. CASE thread_begin
  <2>1. /\ UNCHANGED <<current, pool, appended, taken, at, dropped>>
        /\ log' = roll_file(NoFile) /\ pc = "born" /\ pc' = "test"
    BY <1>4 DEF thread_begin
  <2>2. roll_file(NoFile).data = <<>>
    BY DEF roll_file, flush, NoFile
  <2>3. log'.data = log.data
    BY <2>1, <2>2 DEF LinesInv, LinesTypeOK
  <2> QED
    BY <1>0, <2>1, <2>3, LinesApart
<1>5. CASE thread_test
  <2>1. /\ UNCHANGED <<current, pool, appended, taken, at, dropped>>
        /\ log' = log \/ log' = flush(log)
        /\ pc = "test" /\ pc' \in {"lock", "exit"}
    BY <1>5 DEF thread_test
  <2>2. log'.data = log.data
    BY <1>0, <2>1 DEF flush, LogRecord
  <2> QED
    BY <1>0, <2>1, <2>2, LinesApart
<1> QED
  BY <1>1, <1>2, <1>3, <1>4, <1>5, LinesAppend, LinesSwap, LinesDrop, LinesWrite, LinesRefill
     DEF Next, ThreadStep, OwnerStep

\* The invariant on the records holds initially.
LEMMA LinesInit == Init => LinesInv
<1> SUFFICES ASSUME Init PROVE LinesInv
  OBVIOUS
<1>1. /\ log = NoFile /\ current = <<>> /\ pool = <<>> /\ taken = <<>> /\ at = 1
      /\ dropped = {} /\ appended = 0 /\ pc = "none"
  BY DEF Init
<1>2. log \in LogRecord /\ log.data = <<>>
  BY <1>1 DEF NoFile, LogRecord
<1>3. at..Len(taken) = {} /\ 1..Len(pool) = {} /\ 1..appended = {}
  BY <1>1
<1>4. LinesTypeOK
  BY <1>1, <1>2 DEF LinesTypeOK
<1>5. Sorted
  BY <1>1, <1>2, <1>3, RecordsShort DEF Sorted
<1>6. Records(log.data) = {} /\ Records(current) = {}
  BY <1>1, <1>2, RecordsShort
<1>7. FileFirst /\ TakenNext /\ PoolNext
  BY <1>3, <1>6 DEF FileFirst, TakenNext, PoolNext, Before
<1>8. Held = {}
  BY <1>3, <1>6 DEF Held, TakenRecords, PoolRecords
<1> QED
  BY <1>1, <1>3, <1>4, <1>5, <1>7, <1>8 DEF LinesInv

\* Where the elements of two sequences are in their concatenation.
LEMMA ConcatParts ==
  ASSUME NEW S, NEW s \in Seq(S), NEW t \in Seq(S)
  PROVE  /\ s \o t \in Seq(S) /\ Len(s \o t) = Len(s) + Len(t)
         /\ Len(s) \in Nat /\ Len(t) \in Nat
         /\ \A i \in 1..Len(s) : (s \o t)[i] = s[i]
         /\ \A i \in 1..Len(t) : (s \o t)[Len(s) + i] = t[i]
  OBVIOUS

\* The lines, one by one: the file, the buffers that are still to be written, the
\* full ones and the current one.
LEMMA LinesParts ==
  ASSUME BuffersInv, LinesInv
  PROVE  LET n == Len(taken) - at + 1
             p == Len(pool)
         IN /\ n \in Nat /\ p \in Nat /\ Len(lines) = n + p + 2
            /\ lines[1] = log.data /\ lines[n + p + 2] = current
            /\ \A b \in 1..n : lines[b + 1] = taken[at - 1 + b]
            /\ \A b \in 1..p : lines[n + 1 + b] = pool[b]
<1> DEFINE n == Len(taken) - at + 1
           p == Len(pool)
           rest == SubSeq(taken, at, Len(taken))
           one == <<log.data>> \o rest
           two == one \o pool
<1>1. /\ taken \in Seq(Seq(Nat)) /\ pool \in Seq(Seq(Nat)) /\ current \in Seq(Nat)
      /\ log.data \in Seq(Nat) /\ Len(taken) \in Nat /\ at \in Nat \ {0}
      /\ at <= Len(taken) + 1
  BY DEF BuffersInv, BuffersTypeOK, LinesInv, LinesTypeOK, LogRecord
<1>2. n \in Nat /\ p \in Nat
  BY <1>1
<1>3. /\ rest \in Seq(Seq(Nat)) /\ Len(rest) = n
      /\ \A b \in 1..n : rest[b] = taken[at - 1 + b]
  BY <1>1
<1> HIDE DEF rest
<1>4. /\ one \in Seq(Seq(Nat)) /\ Len(one) = n + 1 /\ one[1] = log.data
      /\ \A b \in 1..n : one[b + 1] = rest[b]
  <2>1. <<log.data>> \in Seq(Seq(Nat)) /\ Len(<<log.data>>) = 1 /\ <<log.data>>[1] = log.data
    BY <1>1
  <2>2. /\ one \in Seq(Seq(Nat)) /\ Len(one) = 1 + n /\ one[1] = log.data
        /\ \A b \in 1..n : one[1 + b] = rest[b]
    BY <1>3, <2>1, ConcatParts
  <2> HIDE DEF one, n
  <2> QED
    BY <1>2, <2>2
<1> HIDE DEF one, n
<1>5. /\ two \in Seq(Seq(Nat)) /\ Len(two) = n + 1 + p
      /\ \A b \in 1..n + 1 : two[b] = one[b]
      /\ \A b \in 1..p : two[n + 1 + b] = pool[b]
  <2>1. /\ two \in Seq(Seq(Nat)) /\ Len(two) = Len(one) + Len(pool)
        /\ \A b \in 1..Len(one) : two[b] = one[b]
        /\ \A b \in 1..Len(pool) : two[Len(one) + b] = pool[b]
    <3>1. one \in Seq(Seq(Nat)) /\ pool \in Seq(Seq(Nat))
      BY <1>1, <1>4
    <3> QED
      BY <3>1, ConcatParts
  <2> HIDE DEF two
  <2> QED
    BY <1>4, <2>1
<1> HIDE DEF two, p
<1>6. lines = two \o <<current>>
  BY DEF lines, two, one, rest
<1>7. /\ Len(lines) = n + p + 2 /\ lines[n + p + 2] = current
      /\ \A b \in 1..n + 1 + p : lines[b] = two[b]
  <2>1. <<current>> \in Seq(Seq(Nat)) /\ Len(<<current>>) = 1 /\ <<current>>[1] = current
    BY <1>1
  <2>2. /\ Len(lines) = n + 1 + p + 1 /\ lines[n + 1 + p + 1] = current
        /\ \A b \in 1..n + 1 + p : lines[b] = two[b]
    BY <1>5, <1>6, <2>1, ConcatParts
  <2> QED
    BY <1>2, <2>2
<1>8. lines[1] = log.data
  BY <1>2, <1>4, <1>5, <1>7
<1>9. ASSUME NEW b \in 1..n PROVE lines[b + 1] = taken[at - 1 + b]
  <2>1. b + 1 \in 1..n + 1 /\ b + 1 \in 1..n + 1 + p
    BY <1>2
  <2> QED
    BY <1>3, <1>4, <1>5, <1>7, <2>1, ZenonT(60)
<1>10. ASSUME NEW b \in 1..p PROVE lines[n + 1 + b] = pool[b]
  <2>1. n + 1 + b \in 1..n + 1 + p
    BY <1>2
  <2> QED
    BY <1>5, <1>7, <2>1
<1> QED
  BY <1>2, <1>7, <1>8, <1>9, <1>10 DEF n, p

\* Whatever is appended, and however the thread, the front ends and the owner of
\* the AsyncLogger interleave, every record is written once and in order, or is
\* still to be written, or was in a buffer that the thread dropped.
THEOREM LogAlwaysConserved == Spec => []LogConserved
<1>1. BuffersInv /\ LinesInv => LogConserved
  <2> SUFFICES ASSUME BuffersInv, LinesInv PROVE LogConserved
    OBVIOUS
  <2> DEFINE n == Len(taken) - at + 1
             p == Len(pool)
             InTaken(b) == b \in 2..n + 1 /\ at - 2 + b \in at..Len(taken)
                           /\ lines[b] = taken[at - 2 + b]
             InPool(b) == b \in n + 2..n + p + 1 /\ b - n - 1 \in 1..p
                          /\ lines[b] = pool[b - n - 1]
  <2>0. /\ n \in Nat /\ p \in Nat /\ Len(lines) = n + p + 2
        /\ lines[1] = log.data /\ lines[n + p + 2] = current
        /\ \A b \in 1..n : lines[b + 1] = taken[at - 1 + b]
        /\ \A b \in 1..p : lines[n + 1 + b] = pool[b]
    BY LinesParts
  <2>1. Len(taken) \in Nat /\ at \in Nat \ {0} /\ at <= Len(taken) + 1
    BY DEF BuffersInv, BuffersTypeOK, LinesInv, LinesTypeOK
  <2>2. ASSUME NEW b \in 1..Len(lines)
        PROVE  b = 1 \/ InTaken(b) \/ InPool(b) \/ b = n + p + 2
    <3>1. CASE b = 1
      BY <3>1
    <3>2. CASE b \in 2..n + 1
      <4>1. b - 1 \in 1..n /\ (b - 1) + 1 = b /\ at - 1 + (b - 1) = at - 2 + b
        BY <2>0, <2>1, <3>2
      <4>2. lines[b] = taken[at - 2 + b]
        BY <2>0, <4>1
      <4>3. at - 2 + b \in at..Len(taken)
        BY <2>1, <3>2
      <4> QED
        BY <3>2, <4>2, <4>3
    <3>3. CASE b \in n + 2..n + p + 1
      <4> HIDE DEF n, p
      <4>1. b - n - 1 \in 1..p /\ n + 1 + (b - n - 1) = b
        BY <2>0, <3>3
      <4>2. lines[b] = pool[b - n - 1]
        BY <2>0, <4>1
      <4> QED
        BY <3>3, <4>1, <4>2
    <3>4. CASE b = n + p + 2
      BY <3>4
    <3> HIDE DEF InTaken, InPool, n, p
    <3> QED
      BY <2>0, <3>1, <3>2, <3>3, <3>4
  <2>3. \A b \in 1..Len(lines) : Increasing(lines[b])
    BY <2>0, <2>2 DEF LinesInv, Sorted
  <2>4. ASSUME NEW b \in 1..Len(lines), NEW c \in 1..Len(lines), b < c
        PROVE  Before(lines[b], lines[c])
    <3>1. CASE b = 1
      <4>1. InTaken(c) \/ InPool(c) \/ c = n + p + 2
        BY <2>2, <2>4, <3>1
      <4> QED
        BY <2>0, <3>1, <4>1 DEF LinesInv, FileFirst
    <3>2. CASE InTaken(b)
      <4>1. InTaken(c) \/ InPool(c) \/ c = n + p + 2
        <5> HIDE DEF n, p, InPool
        <5> QED
          BY <2>2, <2>4, <3>2
      <4>2. CASE InTaken(c)
        <5>1. at - 2 + b < at - 2 + c
          BY <2>1, <2>4
        <5> HIDE DEF n, p
        <5> QED
          BY <3>2, <4>2, <5>1 DEF LinesInv, TakenNext
      <4>3. CASE InPool(c)
        BY <3>2, <4>3 DEF LinesInv, TakenNext
      <4>4. CASE c = n + p + 2
        BY <2>0, <3>2, <4>4 DEF LinesInv, TakenNext
      <4> QED
        BY <4>1, <4>2, <4>3, <4>4
    <3>3. CASE InPool(b)
      <4>1. InPool(c) \/ c = n + p + 2
        <5> HIDE DEF n, p
        <5> QED
          BY <2>0, <2>2, <2>4, <3>3
      <4>2. CASE InPool(c)
        <5> HIDE DEF n
        <5>1. b - n - 1 < c - n - 1
          BY <2>0, <2>4
        <5> QED
          BY <3>3, <4>2, <5>1 DEF LinesInv, PoolNext
      <4>3. CASE c = n + p + 2
        BY <2>0, <3>3, <4>3 DEF LinesInv, PoolNext
      <4> QED
        BY <4>1, <4>2, <4>3
    <3>4. b # n + p + 2
      <4> HIDE DEF n, p
      <4> QED
        BY <2>0, <2>4
    <3> QED
      BY <2>2, <3>1, <3>2, <3>3, <3>4
  <2>5. UNION {Records(lines[b]) : b \in 1..Len(lines)} = Held
    <3> DEFINE all == UNION {Records(lines[b]) : b \in 1..Len(lines)}
    <3>1. \A b \in at..Len(taken) : Records(taken[b]) \subseteq TakenRecords
      BY Zenon DEF TakenRecords
    <3>2. \A b \in 1..Len(pool) : Records(pool[b]) \subseteq PoolRecords
      BY Zenon DEF PoolRecords
    <3>3. \A b \in 1..Len(lines) : Records(lines[b]) \subseteq Held
      BY <2>0, <2>2, <3>1, <3>2 DEF Held
    <3>4. \A b \in 1..Len(lines) : Records(lines[b]) \subseteq all
      BY Zenon
    <3>5. Records(log.data) \subseteq all /\ Records(current) \subseteq all
      <4>1. 1 \in 1..Len(lines) /\ n + p + 2 \in 1..Len(lines)
        <5> HIDE DEF n, p
        <5> QED
          BY <2>0
      <4> HIDE DEF all
      <4> QED
        BY <2>0, <3>4, <4>1
    <3>6. ASSUME NEW b \in at..Len(taken) PROVE Records(taken[b]) \subseteq all
      <4>1. b - at + 1 \in 1..n /\ at - 1 + (b - at + 1) = b
        BY <2>1
      <4>2. (b - at + 1) + 1 \in 1..Len(lines)
        BY <2>0, <4>1
      <4>3. lines[(b - at + 1) + 1] = taken[b]
        BY <2>0, <4>1
      <4> HIDE DEF all
      <4> QED
        BY <3>4, <4>2, <4>3
    <3>7. ASSUME NEW b \in 1..Len(pool) PROVE Records(pool[b]) \subseteq all
      <4> HIDE DEF n, all
      <4>1. n + 1 + b \in 1..Len(lines) /\ lines[n + 1 + b] = pool[b]
        BY <2>0
      <4> QED
        BY <3>4, <4>1
    <3>8. TakenRecords \subseteq all
      <4> HIDE DEF all
      <4> QED
        BY <3>6, Zenon DEF TakenRecords
    <3>9. PoolRecords \subseteq all
      <4> HIDE DEF all
      <4> QED
        BY <3>7, Zenon DEF PoolRecords
    <3>10. all \subseteq Held
      BY <3>3, Zenon
    <3> QED
      BY <3>5, <3>8, <3>9, <3>10 DEF Held
  <2> QED
    BY <2>3, <2>4, <2>5 DEF LogConserved, LinesInv
<1>2. Init => BuffersInv /\ FileInv /\ LinesInv
  <2>1. Init => FileInv
    BY PeriodInt, LoggerAssumption DEF Init, NoFile, FileInv, FileOK, LogRecord
  <2> QED
    BY <2>1, BuffersInit, LinesInit
<1>3. BuffersInv /\ FileInv /\ LinesInv /\ [Next]_vars => (BuffersInv /\ FileInv /\ LinesInv)'
  BY BuffersStep, FileStep, LinesStep
<1> QED
  BY <1>1, <1>2, <1>3, PTL DEF Spec
==============================================================================
