---------------------------- MODULE AsyncLogger ----------------------------
(***************************************************************************)
(* suduo::AsyncLogger: front-end threads append records to buffers under a *)
(* mutex, and one thread takes the buffers out and writes them through     *)
(* suduo::LogFile, which rolls to a new file by size and by day.           *)
(*                                                                         *)
(* A record is its number, in the order of the appends, and takes one unit *)
(* of a buffer.  The mutex orders the critical sections, each of which is  *)
(* one step here; time_wait() gives it up in the middle of one.            *)
(*                                                                         *)
(*   current, pool     _current_buffer, _buffer_poll: their records        *)
(*   next              _next_buffer is not null                            *)
(*   spare1, spare2    new_buffer_1, new_buffer_2 are not null             *)
(*   taken, at         buffer_to_write, and the one being written          *)
(*   log               the LogFile: data, the records of all its files     *)
(*                     (0 is the notice of dropped messages), and flushed, *)
(*                     how many of them have left the stdio buffer         *)
(***************************************************************************)
EXTENDS Integers, Sequences, SequencesExt

CONSTANTS BufferSize,   \* MAX_BUFFER_SIZE, in records
          DropAbove,    \* 25 in the code
          RollSize,     \* _roll_size
          CheckEvery,   \* _check_every_N_times
          FlushInterval,\* LogFile::_flush_interval
          Day,          \* roll_per_seconds_
          MaxRecords,   \* bound: records appended
          MaxTime       \* bound: the clock

ASSUME LoggerAssumption ==
  /\ BufferSize \in Nat /\ DropAbove \in Nat /\ RollSize \in Nat
  /\ CheckEvery \in Nat /\ FlushInterval \in Nat /\ Day \in Nat
  /\ BufferSize > 1 /\ DropAbove >= 2 /\ CheckEvery > 0 /\ Day > 0

VARIABLES running, owner, latch,             \* the owner's side
          current, next, pool, appended,     \* behind the mutex
          pc, spare1, spare2, taken, at,     \* the logger's thread
          log, now,
          dropped, starved                   \* history

frontVars == <<current, next, pool, appended>>
backVars == <<spare1, spare2, taken, at>>
vars == <<running, owner, latch, frontVars, pc, backVars, log, now, dropped, starved>>

Period(t) == (t \div Day) * Day

NoFile == [data |-> <<>>, flushed |-> 0, written |-> 0, count |-> 0, start |-> 0,
           last_roll |-> 0, last_flush |-> 0, late |-> 0, worst |-> 0]

Init ==
  /\ running = FALSE /\ owner = "new" /\ latch = 1
  /\ current = <<>> /\ next = TRUE /\ pool = <<>> /\ appended = 0
  /\ pc = "none" /\ spare1 = TRUE /\ spare2 = TRUE /\ taken = <<>> /\ at = 1
  /\ log = NoFile
  /\ now = 1
  /\ dropped = {}
  /\ starved = FALSE

(***************************************************************************)
(* LogFile, as operators on its record.  late and worst are history: the   *)
(* appends made to the file since its day was over, and the most that any  *)
(* file has taken, the one that made it roll included.                     *)
(***************************************************************************)
\* FileAppender::append(), which repeats fwrite() until all is taken.
write(f, records) == [f EXCEPT !.data = @ \o records, !.written = @ + Len(records)]

flush(f) == [f EXCEPT !.flushed = Len(f.data)]

\* Closing the old file flushes it.  Nothing happens twice at one time.
roll_file(f) ==
  IF now > f.last_roll
  THEN [flush(f) EXCEPT !.last_roll = now, !.last_flush = now, !.start = Period(now),
                        !.written = 0, !.late = 0]
  ELSE f

\* Variant: one append more between two checks.
check_due__late(f) == f.count + 1 > CheckEvery
check_due(f) == f.count + 1 >= CheckEvery

\* The history of an append to f, which is written before anything is checked.
Late(f) == IF Period(now) = f.start THEN 0 ELSE f.late + 1
Worst(f) == IF Late(f) > f.worst THEN Late(f) ELSE f.worst

append_unlocked(f, records) ==
  LET g == [write(f, records) EXCEPT !.late = Late(f), !.worst = Worst(f)]
      checked == [g EXCEPT !.count = 0]
  IN IF g.written > RollSize THEN roll_file(g)
     ELSE IF ~check_due(g) THEN [g EXCEPT !.count = @ + 1]
     ELSE IF Period(now) # g.start THEN roll_file(checked)
     ELSE IF now - g.last_flush > FlushInterval THEN [flush(checked) EXCEPT !.last_flush = now]
     ELSE checked

(***************************************************************************)
(* The owner.                                                              *)
(***************************************************************************)
\* start() up to _latch.wait().
start ==
  /\ owner = "new"
  /\ running' = TRUE
  /\ pc' = "born"
  /\ owner' = "starting"
  /\ UNCHANGED <<latch, frontVars, backVars, log, now, dropped, starved>>

\* CountDownLatch::wait() returns.
started ==
  /\ owner = "starting"
  /\ latch <= 0
  /\ owner' = "started"
  /\ UNCHANGED <<running, latch, frontVars, pc, backVars, log, now, dropped, starved>>

stop ==
  /\ owner = "started"
  /\ running' = FALSE
  /\ owner' = "notify"
  /\ UNCHANGED <<latch, frontVars, pc, backVars, log, now, dropped, starved>>

\* A thread that is not in time_wait() does not notice.
Notified == IF pc = "wait" THEN "woken" ELSE pc

\* stop() notifies without the mutex.
stop_notify ==
  /\ owner = "notify"
  /\ pc' = Notified
  /\ owner' = "join"
  /\ UNCHANGED <<running, latch, frontVars, backVars, log, now, dropped, starved>>

\* Thread::join() returns.
joined ==
  /\ owner = "join"
  /\ pc = "exit"
  /\ owner' = "stopped"
  /\ UNCHANGED <<running, latch, frontVars, pc, backVars, log, now, dropped, starved>>

(***************************************************************************)
(* Front ends.                                                             *)
(***************************************************************************)
\* availability() > len, strictly: a buffer is never filled to the last unit.
availability == BufferSize - Len(current) > 1

append ==
  /\ appended < MaxRecords
  /\ owner # "stopped"
  /\ appended' = appended + 1
  /\ IF availability
     THEN /\ current' = Append(current, appended')
          /\ UNCHANGED <<next, pool, pc>>
     ELSE /\ pool' = Append(pool, current)
          /\ current' = <<appended'>>
          /\ next' = FALSE
          /\ pc' = Notified
  /\ UNCHANGED <<running, owner, latch, backVars, log, now, dropped, starved>>

(***************************************************************************)
(* thread_func().                                                          *)
(***************************************************************************)
count_down == latch' = latch - 1

thread_begin ==
  /\ pc = "born"
  /\ count_down
  /\ log' = roll_file(NoFile)
  /\ pc' = "test"
  /\ UNCHANGED <<running, owner, frontVars, backVars, now, dropped, starved>>

thread_test ==
  /\ pc = "test"
  /\ IF running THEN pc' = "lock" /\ UNCHANGED log
     ELSE pc' = "exit" /\ log' = flush(log)
  /\ UNCHANGED <<running, owner, latch, frontVars, backVars, now, dropped, starved>>

thread_wait ==
  /\ pc = "lock"
  /\ pool = <<>>
  /\ pc' = "wait"
  /\ UNCHANGED <<running, owner, latch, frontVars, backVars, log, now, dropped, starved>>

\* The flush interval is over, or the wait ends for no reason.
wait_timeout ==
  /\ pc = "wait"
  /\ pc' = "woken"
  /\ UNCHANGED <<running, owner, latch, frontVars, backVars, log, now, dropped, starved>>

\* Variant: the current buffer is taken out before the full ones.
batch__reversed == <<current>> \o pool
batch == Append(pool, current)

\* The rest of the critical section: every buffer is taken out, the current one
\* too, even if empty.
thread_swap ==
  /\ (pc = "lock" /\ pool # <<>>) \/ pc = "woken"
  /\ taken' = batch
  /\ current' = <<>>
  /\ spare1' = FALSE
  /\ pool' = <<>>
  /\ next' = (next \/ spare2)
  /\ spare2' = (spare2 /\ next)
  /\ at' = 1
  /\ pc' = "drop"
  /\ UNCHANGED <<running, owner, latch, appended, log, now, dropped, starved>>

\* Variant: one buffer is left.
kept_buffers__one == 1
kept_buffers == 2

thread_drop ==
  /\ pc = "drop"
  /\ IF Len(taken) > DropAbove
     THEN /\ taken' = SubSeq(taken, 1, kept_buffers)
          /\ dropped' = dropped \cup UNION {ToSet(taken[b]) : b \in kept_buffers + 1..Len(taken)}
          /\ log' = append_unlocked(log, <<0>>)
     ELSE UNCHANGED <<taken, dropped, log>>
  /\ pc' = "write"
  /\ UNCHANGED <<running, owner, latch, frontVars, spare1, spare2, at, now, starved>>

thread_write ==
  /\ pc = "write"
  /\ at <= Len(taken)
  /\ log' = append_unlocked(log, taken[at])
  /\ at' = at + 1
  /\ UNCHANGED <<running, owner, latch, frontVars, pc, spare1, spare2, taken, now, dropped, starved>>

\* Variant: the turn ends without a flush.
turn_flush__none(f) == f
turn_flush(f) == flush(f)

\* The spare buffers are refilled from those written; back() of an empty vector
\* would be undefined.
thread_refill ==
  /\ pc = "write"
  /\ at > Len(taken)
  /\ starved' = (starved \/ Len(taken) < (IF spare1 THEN 0 ELSE 1) + (IF spare2 THEN 0 ELSE 1))
  /\ spare1' = TRUE
  /\ spare2' = TRUE
  /\ taken' = <<>>
  /\ at' = 1
  /\ log' = turn_flush(log)
  /\ pc' = "test"
  /\ UNCHANGED <<running, owner, latch, frontVars, now, dropped>>

tick ==
  /\ now < MaxTime
  /\ now' = now + 1
  /\ UNCHANGED <<running, owner, latch, frontVars, pc, backVars, log, dropped, starved>>

ThreadStep ==
  \/ thread_begin \/ thread_test \/ thread_wait \/ thread_swap \/ thread_drop
  \/ thread_write \/ thread_refill

OwnerStep == started \/ stop_notify \/ joined

Next == ThreadStep \/ OwnerStep \/ start \/ stop \/ append \/ wait_timeout \/ tick

Spec == Init /\ [][Next]_vars

\* The thread runs, its waits time out, and the calls of the owner go on; nobody
\* has to start, stop or append.
FairSpec ==
  Spec /\ WF_vars(ThreadStep) /\ WF_vars(OwnerStep) /\ WF_vars(wait_timeout)

(***************************************************************************)
(* Properties.                                                             *)
(***************************************************************************)
\* The records of a buffer or a file.  Record 0 is the notice of dropped ones.
Records(s) == ToSet(s) \ {0}

Increasing(s) == \A i, j \in 1..Len(s) : i < j /\ s[j] # 0 => s[i] < s[j]
Before(s, t) == \A r \in Records(s), q \in Records(t) : r < q

\* The files, the buffers being written, the full ones and the current one.
lines == <<log.data>> \o SubSeq(taken, at, Len(taken)) \o pool \o <<current>>

\* Files, buffers being written, full buffers and the current one together hold
\* every record appended, in that order and once, but for those of buffers that
\* the thread dropped because it was too far behind.
LogConserved ==
  /\ \A b \in 1..Len(lines) : Increasing(lines[b])
  /\ \A b, c \in 1..Len(lines) : b < c => Before(lines[b], lines[c])
  /\ UNION {Records(lines[b]) : b \in 1..Len(lines)} = (1..appended) \ dropped

\* The thread never runs out of buffers to refill its two spares with: a front
\* end that took _next_buffer has left a full buffer in its place.
BuffersSuffice ==
  /\ ~starved
  /\ pc \in {"test", "lock", "wait", "woken"} => spare1 /\ spare2

\* No file takes more than CheckEvery appends after its day is over, the append
\* that finds the day over, and is written before the file is rolled, included.
DayRolled == log.worst <= CheckEvery

\* Every record reaches the disk (or is dropped with its buffer) while the
\* logger runs, although nothing may follow it that fills its buffer.
EventuallyFlushed ==
  \A r \in 1..MaxRecords :
    r <= appended /\ running
      ~> r \in ToSet(SubSeq(log.data, 1, log.flushed)) \cup dropped \/ ~running
============================================================================
