----------------------------- MODULE SinkProofs -----------------------------
(* Five sinks implement DurableSink and keep every row but those they are seen *)
(* to drop, which only an event outside the promise of the sink makes them do: *)
(* BigQuerySink, for every number of callers, records and failed load jobs,    *)
(* every batch size and every set of rows that cannot be mapped; S3Sink, which *)
(* drops none, for its one caller and every number of records, file size,      *)
(* failed upload and crash; StorageWriteSink, for every number of callers,     *)
(* records and failed appends, and every size of a request; RedisSink, for     *)
(* every number of callers, keys and records, every command Redis refuses and  *)
(* every attempt whose outcome the caller never learns; and KafkaSink, for     *)
(* every number of callers without transactions and for one caller with them.  *)
(* The sinks keep their state in variables of the same names, so the other     *)
(* four are instantiated here with the variables of BigQuerySink; nothing else *)
(* connects them.                                                              *)
EXTENDS BigQuerySink, FiniteSetTheorems, TLAPS

\* The records of StorageWriteSink that take two units of a request.
CONSTANT Large

\* The markers RedisSink leaves for its list and stream scripts.
VARIABLE marks

\* The transaction of KafkaSink and the confirmations of the producer.
VARIABLES in_transaction, delivery, txn, torn

Contract == INSTANCE DurableSink WITH durable <- Durable, excused <- Excused

\* What the sink is configured with, and a bound on the records.
Bounded ==
    /\ End \in Nat
    /\ Configs \subseteq [batch_size : Nat, truncate : BOOLEAN]

Call == [call : {"idle", "write", "flush", "close"}, own : SUBSET Records,
         promise : SUBSET Records, batch : Seq(Records), truncate : BOOLEAN, ran : BOOLEAN]
Job == [id : Nat, batch : Seq(Records), truncate : BOOLEAN, ran : BOOLEAN]
Stats == [truncate_pending : BOOLEAN, flushed : BOOLEAN, failed : BOOLEAN, loaded : Nat,
          last_flush_succeeded : {"none", "yes", "no"}, last_error : BOOLEAN]

Types ==
    /\ config \in [batch_size : Nat, truncate : BOOLEAN]
    /\ task \in [Tasks -> Call]
    /\ buffer \in Seq(Records)
    /\ store \in Seq(0..End)
    /\ stats \in Stats
    /\ given \in 0..End
    /\ faults \in Nat
    /\ abandoned \subseteq Job
    /\ overlapped \in BOOLEAN

\* A call promises what was accepted when it began, and only that is ever settled.
History ==
    /\ settled \subseteq accepted
    /\ accepted \subseteq 1..given
    /\ \A t \in Tasks : Loading(t) => task[t].promise \subseteq accepted
                                      /\ task[t].own \subseteq 1..given

-----------------------------------------------------------------------------
(* Sequences of rows.                                                        *)

\* Rows appended to rows.
LEMMA AppendRows ==
  ASSUME NEW S, NEW s \in Seq(S), NEW r \in Seq(S)
  PROVE  /\ s \o r \in Seq(S)
         /\ Len(s \o r) = Len(s) + Len(r)
         /\ \A i \in 1..Len(s) : (s \o r)[i] = s[i]
         /\ \A i \in 1..Len(r) : (s \o r)[Len(s) + i] = r[i]
         /\ ToSet(s \o r) = ToSet(s) \cup ToSet(r)
<1>1. /\ s \o r \in Seq(S)
      /\ Len(s \o r) = Len(s) + Len(r)
      /\ \A i \in 1..Len(s) : (s \o r)[i] = s[i]
      /\ \A i \in 1..Len(r) : (s \o r)[Len(s) + i] = r[i]
  OBVIOUS
<1>2. ToSet(s \o r) \subseteq ToSet(s) \cup ToSet(r)
  <2> SUFFICES ASSUME NEW i \in DOMAIN (s \o r) PROVE (s \o r)[i] \in ToSet(s) \cup ToSet(r)
    BY DEF ToSet
  <2>1. CASE i \in 1..Len(s)
    BY <1>1, <2>1 DEF ToSet
  <2>2. CASE i \notin 1..Len(s)
    <3>1. i - Len(s) \in 1..Len(r) /\ i = Len(s) + (i - Len(s))
      BY <1>1, <2>2
    <3>2. (s \o r)[i] = r[i - Len(s)]
      BY <1>1, <3>1
    <3> QED
      BY <3>1, <3>2 DEF ToSet
  <2> QED
    BY <2>1, <2>2
<1>3. ToSet(s) \subseteq ToSet(s \o r)
  <2> SUFFICES ASSUME NEW i \in DOMAIN s PROVE s[i] \in ToSet(s \o r)
    BY DEF ToSet
  <2>1. i \in 1..Len(s) /\ i \in DOMAIN (s \o r)
    BY <1>1
  <2> QED
    BY <1>1, <2>1 DEF ToSet
<1>4. ToSet(r) \subseteq ToSet(s \o r)
  <2> SUFFICES ASSUME NEW i \in DOMAIN r PROVE r[i] \in ToSet(s \o r)
    BY DEF ToSet
  <2>1. i \in 1..Len(r) /\ Len(s) + i \in DOMAIN (s \o r)
    BY <1>1
  <2> QED
    BY <1>1, <2>1 DEF ToSet
<1> QED
  BY <1>1, <1>2, <1>3, <1>4

\* Rows dropped from the front.
LEMMA DropRows ==
  ASSUME NEW S, NEW s \in Seq(S), NEW n \in Nat, n <= Len(s)
  PROVE  /\ SubSeq(s, n + 1, Len(s)) \in Seq(S)
         /\ Len(SubSeq(s, n + 1, Len(s))) = Len(s) - n
         /\ \A i \in 1..(Len(s) - n) : SubSeq(s, n + 1, Len(s))[i] = s[n + i]
         /\ ToSet(s) \subseteq {s[i] : i \in 1..n} \cup ToSet(SubSeq(s, n + 1, Len(s)))
<1> DEFINE r == SubSeq(s, n + 1, Len(s))
<1>1. r \in Seq(S) /\ Len(r) = Len(s) - n /\ \A i \in 1..(Len(s) - n) : r[i] = s[n + i]
  OBVIOUS
<1> HIDE DEF r
<1>2. ToSet(s) \subseteq {s[i] : i \in 1..n} \cup ToSet(r)
  <2> SUFFICES ASSUME NEW i \in DOMAIN s, i \notin 1..n PROVE s[i] \in ToSet(r)
    BY DEF ToSet
  <2>0. DOMAIN s = 1..Len(s) /\ Len(s) \in Nat
    OBVIOUS
  <2>1. i \in 1..Len(s) /\ i - n \in 1..(Len(s) - n) /\ i = n + (i - n)
    BY <2>0
  <2>2. i - n \in DOMAIN r /\ r[i - n] = s[i]
    BY <1>1, <2>1
  <2> QED
    BY <2>2 DEF ToSet
<1> QED
  BY <1>1, <1>2 DEF r

-----------------------------------------------------------------------------
(* Steps.                                                                    *)

\* The call c of task t begins: it leaves the rows in the buffer, of g records handed
\* over, and returns at once, raises, or goes on with a load job.
NewRows(rows, g) ==
    /\ Len(rows) = Len(buffer) + (g - given)
    /\ \A i \in 1..Len(buffer) : rows[i] = buffer[i]
    /\ \A i \in 1..(g - given) : rows[Len(buffer) + i] = given + i
    /\ ToSet(rows) = ToSet(buffer) \cup (given + 1)..g

Ends(t, c) ==
    /\ task' = [task EXCEPT ![t] = Idle]
    /\ accepted' = accepted \cup c.own
    /\ settled' = settled \cup c.promise
    /\ UNCHANGED <<stats, overlapped>>

Begins(t, c, rows) ==
    /\ rows # <<>>
    /\ task' = [task EXCEPT ![t] = [c EXCEPT !.batch = rows, !.truncate = stats.truncate_pending]]
    /\ overlapped' = (overlapped \/ \E u \in Tasks \ {t} : Loading(u))
    /\ UNCHANGED <<stats, accepted, settled>>

Enters(t, c, rows, g) ==
    /\ ~Loading(t)
    /\ c.call # "idle" /\ ~c.ran
    /\ c.own \subseteq 1..g
    /\ c.promise = {} \/ (rows = buffer /\ c.promise = accepted)
    /\ given <= g /\ given' = g
    /\ buffer' = rows
    /\ NewRows(rows, g)
    /\ UNCHANGED <<config, store, faults, abandoned, dropped>>
    /\ \/ Ends(t, c) /\ (c.promise = {} \/ rows = <<>>)
       \/ Raises(t) /\ UNCHANGED overlapped
       \/ Begins(t, c, rows)

Entering(t) ==
    \E c \in Call, rows \in Seq(Records), g \in 0..End : Enters(t, c, rows, g)

\* What Flush leaves to these three.
LEMMA FlushEnters ==
  ASSUME NEW t \in Tasks, NEW c \in Call, NEW rows \in Seq(Records), Flush(t, c, rows)
  PROVE  \/ Ends(t, c) /\ rows = <<>>
         \/ Raises(t) /\ UNCHANGED overlapped
         \/ Begins(t, c, rows)
  BY DEF Flush, Returns, Ends, Begins

\* A call is the idle one with its name and its records.
WriteCall(o) == [Idle EXCEPT !.call = "write", !.own = o]
FlushCall(m, q) == [Idle EXCEPT !.call = m, !.promise = q]

LEMMA IdleCall == Idle \in Call /\ ~Idle.ran /\ Idle.own = {} /\ Idle.promise = {}
<1>1. <<>> \in Seq(Records) /\ {} \in SUBSET Records
  OBVIOUS
<1> QED
  BY <1>1 DEF Idle, Call

LEMMA WriteCallFacts ==
  ASSUME NEW o \in SUBSET Records
  PROVE  /\ WriteCall(o) \in Call /\ WriteCall(o).call = "write" /\ ~WriteCall(o).ran
         /\ WriteCall(o).own = o /\ WriteCall(o).promise = {}
<1>1. WriteCall(o) \in Call
  BY IdleCall DEF WriteCall, Call
<1>2. WriteCall(o).call = "write" /\ WriteCall(o).own = o
  BY IdleCall DEF WriteCall, Call
<1>3. WriteCall(o).ran = Idle.ran /\ WriteCall(o).promise = Idle.promise
  BY IdleCall DEF WriteCall, Call
<1> QED
  BY <1>1, <1>2, <1>3, IdleCall

LEMMA FlushCallFacts ==
  ASSUME NEW m \in {"flush", "close"}, NEW q \in SUBSET Records
  PROVE  /\ FlushCall(m, q) \in Call /\ FlushCall(m, q).call = m /\ ~FlushCall(m, q).ran
         /\ FlushCall(m, q).own = {} /\ FlushCall(m, q).promise = q
<1>1. FlushCall(m, q) \in Call
  BY IdleCall DEF FlushCall, Call
<1>2. FlushCall(m, q).call = m /\ FlushCall(m, q).promise = q
  BY IdleCall DEF FlushCall, Call
<1>3. FlushCall(m, q).ran = Idle.ran /\ FlushCall(m, q).own = Idle.own
  BY IdleCall DEF FlushCall, Call
<1> QED
  BY <1>1, <1>2, <1>3, IdleCall

LEMMA WriteEnters ==
  ASSUME Bounded, Types, NEW t \in Tasks, NEW n \in 1..2, Write(t, n)
  PROVE  Entering(t)
<1> DEFINE c == WriteCall((given + 1)..(given + n))
           r == [i \in 1..n |-> given + i]
           rows == buffer \o r
           g == given + n
<1>1. End \in Nat /\ given \in Nat /\ g \in 0..End /\ given <= g /\ n \in Nat
  BY DEF Bounded, Types, Write
<1>2. (given + 1)..g \subseteq Records /\ (given + 1)..g \subseteq 1..g
  BY <1>1 DEF Records
<1>3. /\ c \in Call
      /\ c.call = "write" /\ ~c.ran /\ c.own = (given + 1)..g /\ c.promise = {}
  BY <1>2, WriteCallFacts
<1>4. r \in Seq(Records) /\ Len(r) = n /\ \A i \in 1..n : r[i] = given + i
  BY <1>1 DEF Records
<1>5. ToSet(r) = (given + 1)..g
  <2>1. DOMAIN r = 1..n
    OBVIOUS
  <2>2. ToSet(r) \subseteq (given + 1)..g
    BY <1>1, <1>4, <2>1 DEF ToSet
  <2>3. ASSUME NEW x \in (given + 1)..g PROVE x \in ToSet(r)
    <3>1. x - given \in 1..n /\ r[x - given] = x
      BY <1>1
    <3> HIDE DEF r
    <3> QED
      BY <2>1, <3>1 DEF ToSet
  <2> QED
    BY <2>2, <2>3
<1> HIDE DEF r
<1>6. buffer \in Seq(Records)
  BY DEF Types
<1>7. rows \in Seq(Records) /\ NewRows(rows, g)
  BY <1>1, <1>4, <1>5, <1>6, AppendRows DEF NewRows
<1>8. /\ ~Loading(t)
      /\ given' = g
      /\ buffer' = rows
      /\ UNCHANGED <<config, store, faults, abandoned, dropped>>
      /\ \/ Flush(t, c, rows)
         \/ Returns(t, c) /\ UNCHANGED <<stats, overlapped>>
  BY DEF Write, WriteCall, r
<1>9. c.call # "idle" /\ ~c.ran /\ c.own \subseteq 1..g /\ c.promise = {}
  BY <1>2, <1>3
<1> HIDE DEF c, rows, g
<1>10. \/ Ends(t, c)
       \/ Raises(t) /\ UNCHANGED overlapped
       \/ Begins(t, c, rows)
  <2>1. CASE Flush(t, c, rows)
    BY <1>3, <1>7, <2>1, FlushEnters
  <2>2. CASE Returns(t, c) /\ UNCHANGED <<stats, overlapped>>
    BY <2>2 DEF Returns, Ends
  <2> QED
    BY <1>8, <2>1, <2>2
<1>11. Enters(t, c, rows, g)
  BY <1>1, <1>7, <1>8, <1>9, <1>10 DEF Enters, g
<1> QED
  BY <1>1, <1>3, <1>7, <1>11 DEF Entering, g

LEMMA FlushOrCloseEnters ==
  ASSUME Bounded, Types, History, NEW t \in Tasks, NEW call \in {"flush", "close"},
         FlushOrClose(t, call)
  PROVE  Entering(t)
<1> DEFINE c == FlushCall(call, accepted)
<1>1. End \in Nat /\ given \in Nat /\ given \in 0..End /\ given <= given
  BY DEF Bounded, Types
<1>2. accepted \in SUBSET Records
  BY <1>1 DEF Records, History
<1>3. /\ c \in Call
      /\ c.call = call /\ ~c.ran /\ c.own = {} /\ c.promise = accepted
  BY <1>2, FlushCallFacts
<1>4. buffer \in Seq(Records)
  BY DEF Types
<1>5. NewRows(buffer, given)
  BY <1>1, <1>4 DEF NewRows
<1>6. /\ ~Loading(t)
      /\ Flush(t, c, buffer)
      /\ UNCHANGED <<config, buffer, store, given, faults, abandoned, dropped>>
  BY DEF FlushOrClose, FlushCall
<1>7. c.call # "idle" /\ ~c.ran /\ c.own \subseteq 1..given /\ c.promise = accepted
  BY <1>3
<1> HIDE DEF c
<1>8. \/ Ends(t, c) /\ buffer = <<>>
      \/ Raises(t) /\ UNCHANGED overlapped
      \/ Begins(t, c, buffer)
  BY <1>3, <1>4, <1>6, FlushEnters
<1>9. Enters(t, c, buffer, given)
  BY <1>1, <1>5, <1>6, <1>7, <1>8 DEF Enters
<1> QED
  BY <1>1, <1>3, <1>4, <1>9 DEF Entering

\* Every step is one of five.
LEMMA Steps ==
  ASSUME Bounded, Types, History, Next
  PROVE  \/ \E t \in Tasks : Entering(t) \/ RunJob(t) \/ JobReturns(t) \/ JobFails(t)
         \/ \E j \in abandoned : RunLate(j)
  BY WriteEnters, FlushOrCloseEnters DEF Next

\* Where the tasks are after a step.
LEMMA TaskFacts ==
  ASSUME Types, NEW t \in Tasks
  PROVE  /\ task' = [task EXCEPT ![t] = Idle] =>
               /\ ~Loading(t)'
               /\ \A u \in Tasks : u # t => task'[u] = task[u]
               /\ task' \in [Tasks -> Call]
         /\ \A c \in Call, rows \in Seq(Records) : Begins(t, c, rows) =>
               /\ task'[t].call = c.call /\ task'[t].own = c.own
               /\ task'[t].promise = c.promise /\ task'[t].batch = rows
               /\ task'[t].truncate = stats.truncate_pending /\ task'[t].ran = c.ran
               /\ \A u \in Tasks : u # t => task'[u] = task[u]
               /\ task' \in [Tasks -> Call]
         /\ task' = [task EXCEPT ![t].ran = TRUE] =>
               /\ task'[t].call = task[t].call /\ task'[t].own = task[t].own
               /\ task'[t].promise = task[t].promise /\ task'[t].batch = task[t].batch
               /\ task'[t].truncate = task[t].truncate /\ task'[t].ran = TRUE
               /\ \A u \in Tasks : u # t => task'[u] = task[u]
               /\ task' \in [Tasks -> Call]
<1>1. task \in [Tasks -> Call] /\ stats.truncate_pending \in BOOLEAN
  BY DEF Types, Stats
<1>2. ASSUME task' = [task EXCEPT ![t] = Idle]
      PROVE  /\ ~Loading(t)'
             /\ \A u \in Tasks : u # t => task'[u] = task[u]
             /\ task' \in [Tasks -> Call]
  <2>1. Idle.call = "idle"
    BY DEF Idle
  <2> QED
    BY <1>1, <1>2, <2>1, IdleCall DEF Loading
<1>3. ASSUME NEW c \in Call, NEW rows \in Seq(Records), Begins(t, c, rows)
      PROVE  /\ task'[t].call = c.call /\ task'[t].own = c.own
             /\ task'[t].promise = c.promise /\ task'[t].batch = rows
             /\ task'[t].truncate = stats.truncate_pending /\ task'[t].ran = c.ran
             /\ \A u \in Tasks : u # t => task'[u] = task[u]
             /\ task' \in [Tasks -> Call]
  <2> DEFINE d == [c EXCEPT !.batch = rows, !.truncate = stats.truncate_pending]
  <2>1. /\ d.call = c.call /\ d.own = c.own /\ d.promise = c.promise /\ d.batch = rows
        /\ d.truncate = stats.truncate_pending /\ d.ran = c.ran
        /\ d \in Call
    BY <1>1 DEF Call
  <2>2. task' = [task EXCEPT ![t] = d]
    BY <1>3 DEF Begins
  <2> HIDE DEF d
  <2> QED
    BY <1>1, <2>1, <2>2
<1>4. ASSUME task' = [task EXCEPT ![t].ran = TRUE]
      PROVE  /\ task'[t].call = task[t].call /\ task'[t].own = task[t].own
             /\ task'[t].promise = task[t].promise /\ task'[t].batch = task[t].batch
             /\ task'[t].truncate = task[t].truncate /\ task'[t].ran = TRUE
             /\ \A u \in Tasks : u # t => task'[u] = task[u]
             /\ task' \in [Tasks -> Call]
  BY <1>1, <1>4 DEF Call
<1> QED
  BY <1>2, <1>3, <1>4

\* The counters after a load job that succeeded with n rows, and after an error.
Counted(n) ==
    stats' = [stats EXCEPT !.truncate_pending = FALSE, !.flushed = TRUE,
                 !.loaded = @ + n, !.last_flush_succeeded = "yes", !.last_error = FALSE]

LEMMA ErrorStats ==
  ASSUME Types, CountError
  PROVE  /\ stats' \in Stats
         /\ stats'.truncate_pending = stats.truncate_pending
         /\ stats'.failed = TRUE
  BY DEF Types, CountError, Stats

LEMMA LoadedStats ==
  ASSUME Types, NEW n \in Nat, Counted(n)
  PROVE  /\ stats' \in Stats
         /\ stats'.truncate_pending = FALSE /\ stats'.flushed = TRUE
         /\ stats'.failed = stats.failed /\ stats'.loaded = stats.loaded + n
<1>1. stats \in Stats /\ stats.loaded + n \in Nat
  BY DEF Types, Stats
<1>2. stats' = [stats EXCEPT !.truncate_pending = FALSE, !.flushed = TRUE,
                   !.loaded = stats.loaded + n, !.last_flush_succeeded = "yes",
                   !.last_error = FALSE]
  BY <1>1 DEF Counted, Stats
<1>3. stats' \in Stats
  BY <1>1, <1>2 DEF Stats
<1>4. stats'.truncate_pending = FALSE /\ stats'.flushed = TRUE
  BY <1>1, <1>2 DEF Stats
<1>5. stats'.failed = stats.failed /\ stats'.loaded = stats.loaded + n
  BY <1>1, <1>2 DEF Stats
<1> QED
  BY <1>3, <1>4, <1>5

\* What a load job leaves in the table.
LEMMA LoadFacts ==
  ASSUME Bounded, Types, NEW b \in Seq(Records), NEW tr \in BOOLEAN
  PROVE  /\ Load(b, tr) \in Seq(0..End)
         /\ ToSet(b) \subseteq ToSet(Load(b, tr))
         /\ ToSet(b) \subseteq Records
         /\ ~tr => ToSet(Load(b, tr)) = ToSet(store) \cup ToSet(b)
<1>1. b \in Seq(0..End) /\ store \in Seq(0..End)
  BY DEF Bounded, Types, Records
<1>2. /\ store \o b \in Seq(0..End)
      /\ ToSet(store \o b) = ToSet(store) \cup ToSet(b)
  BY <1>1, AppendRows
<1>3. ToSet(b) \subseteq Records
  BY DEF ToSet
<1> QED
  BY <1>1, <1>2, <1>3 DEF Load

-----------------------------------------------------------------------------
(* Types and history.                                                        *)

LEMMA TypesStep ==
  ASSUME Bounded, Types, History, [Next]_vars
  PROVE  Types'
<1>1. CASE UNCHANGED vars
  BY <1>1 DEF vars, Types
<1>2. ASSUME NEW t \in Tasks, Entering(t) PROVE Types'
  <2>1. PICK c \in Call, rows \in Seq(Records), g \in 0..End : Enters(t, c, rows, g)
    BY <1>2 DEF Entering
  <2>2. /\ UNCHANGED <<config, store, faults, abandoned>>
        /\ buffer' = rows /\ given' = g
    BY <2>1 DEF Enters
  <2>3. task' \in [Tasks -> Call] /\ stats' \in Stats /\ overlapped' \in BOOLEAN
    <3>1. CASE Ends(t, c)
      BY <3>1, TaskFacts DEF Ends, Types
    <3>2. CASE Raises(t) /\ UNCHANGED overlapped
      BY <3>2, TaskFacts, ErrorStats DEF Raises, Types
    <3>3. CASE Begins(t, c, rows)
      <4>1. task' \in [Tasks -> Call]
        BY <3>3, TaskFacts
      <4>2. stats' \in Stats /\ overlapped' \in BOOLEAN
        BY <3>3 DEF Begins, Types
      <4> QED
        BY <4>1, <4>2
    <3> QED
      BY <2>1, <3>1, <3>2, <3>3 DEF Enters
  <2> QED
    BY <2>2, <2>3 DEF Types
<1>3. ASSUME NEW t \in Tasks, RunJob(t) PROVE Types'
  <2>1. task[t].batch \in Seq(Records) /\ task[t].truncate \in BOOLEAN
    BY DEF Types, Call
  <2>2. store' \in Seq(0..End) /\ task' \in [Tasks -> Call]
    BY <1>3, <2>1, LoadFacts, TaskFacts DEF RunJob
  <2> QED
    BY <1>3, <2>2 DEF RunJob, Types
<1>4. ASSUME NEW t \in Tasks, JobReturns(t) PROVE Types'
  <2>1. task[t].batch \in Seq(Records) /\ Len(task[t].batch) \in Nat
    BY DEF Types, Call
  <2>2. buffer' \in Seq(Records)
    BY <1>4, <2>1 DEF JobReturns, RowsAfter, Types
  <2>3. stats' \in Stats
    <3>1. Counted(Len(task[t].batch))
      BY <1>4 DEF JobReturns, Counted
    <3> QED
      BY <2>1, <3>1, LoadedStats
  <2>4. task' \in [Tasks -> Call]
    BY <1>4, TaskFacts DEF JobReturns, Returns
  <2> QED
    BY <1>4, <2>2, <2>3, <2>4 DEF JobReturns, Types
<1>5. ASSUME NEW t \in Tasks, JobFails(t) PROVE Types'
  <2>1. /\ task[t].batch \in Seq(Records) /\ task[t].truncate \in BOOLEAN
        /\ task[t].ran \in BOOLEAN /\ faults \in Nat
    BY DEF Types, Call
  <2>2. [id |-> faults, batch |-> task[t].batch, truncate |-> task[t].truncate,
         ran |-> task[t].ran] \in Job
    BY <2>1 DEF Job
  <2>3. abandoned' \subseteq Job /\ faults' \in Nat
    BY <1>5, <2>1, <2>2 DEF JobFails, Types
  <2>4. task' \in [Tasks -> Call] /\ stats' \in Stats
    BY <1>5, TaskFacts, ErrorStats DEF JobFails, Raises
  <2> QED
    BY <1>5, <2>3, <2>4 DEF JobFails, Types
<1>6. ASSUME NEW j \in abandoned, RunLate(j) PROVE Types'
  <2>1. j \in Job
    BY DEF Types
  <2>2. store' \in Seq(0..End)
    BY <1>6, <2>1, LoadFacts DEF RunLate, Job
  <2>3. [j EXCEPT !.ran = TRUE] \in Job
    BY <2>1 DEF Job
  <2> QED
    BY <1>6, <2>2, <2>3 DEF RunLate, Types
<1> QED
  BY <1>1, <1>2, <1>3, <1>4, <1>5, <1>6, Steps

LEMMA HistoryStep ==
  ASSUME Bounded, Types, History, [Next]_vars
  PROVE  History'
<1> USE DEF Loading
<1>1. given \in Nat /\ settled \subseteq accepted /\ accepted \subseteq 1..given
  BY DEF Types, History, Bounded
<1>2. CASE UNCHANGED vars
  BY <1>2 DEF vars, History
<1>3. ASSUME NEW t \in Tasks, NEW o \in SUBSET (1..given'), NEW q \in SUBSET accepted,
             given <= given', given' \in Nat,
             task' = [task EXCEPT ![t] = Idle],
             \/ accepted' = accepted \cup o /\ settled' = settled \cup q
             \/ accepted' = accepted /\ settled' = settled
      PROVE  History'
  <2>1. ~Loading(t)' /\ \A u \in Tasks : u # t => task'[u] = task[u]
    BY <1>3, TaskFacts
  <2>2. 1..given \subseteq 1..given' /\ accepted \subseteq accepted'
    BY <1>1, <1>3
  <2>3. settled' \subseteq accepted' /\ accepted' \subseteq 1..given'
    BY <1>1, <1>3, <2>2
  <2> QED
    BY <2>1, <2>2, <2>3 DEF History
<1>4. ASSUME NEW t \in Tasks, Entering(t) PROVE History'
  <2>1. PICK c \in Call, rows \in Seq(Records), g \in 0..End : Enters(t, c, rows, g)
    BY <1>4 DEF Entering
  <2>2. /\ given <= given' /\ given' = g /\ given' \in Nat
        /\ c.own \subseteq 1..given' /\ c.promise \subseteq accepted
    BY <2>1 DEF Enters, Bounded
  <2>3. CASE Ends(t, c)
    BY <1>3, <2>2, <2>3 DEF Ends
  <2>4. CASE Raises(t)
    BY <1>3, <2>2, <2>4 DEF Raises
  <2>5. CASE Begins(t, c, rows)
    <3>1. /\ task'[t].own = c.own /\ task'[t].promise = c.promise
          /\ \A u \in Tasks : u # t => task'[u] = task[u]
      BY <2>5, TaskFacts
    <3>2. accepted' = accepted /\ settled' = settled
      BY <2>5 DEF Begins
    <3>3. 1..given \subseteq 1..given'
      BY <1>1, <2>2
    <3>4. \A u \in Tasks : Loading(u)' => /\ task'[u].promise \subseteq accepted'
                                          /\ task'[u].own \subseteq 1..given'
      BY <2>2, <3>1, <3>2, <3>3 DEF History
    <3> QED
      BY <1>1, <3>2, <3>3, <3>4 DEF History
  <2> QED
    BY <2>1, <2>3, <2>4, <2>5 DEF Enters
<1>5. ASSUME NEW t \in Tasks, RunJob(t) PROVE History'
  <2>1. /\ task'[t].own = task[t].own /\ task'[t].promise = task[t].promise
        /\ task'[t].call = task[t].call
        /\ \A u \in Tasks : u # t => task'[u] = task[u]
    BY <1>5, TaskFacts DEF RunJob
  <2> QED
    BY <1>5, <2>1 DEF RunJob, History
<1>6. ASSUME NEW t \in Tasks, JobReturns(t) PROVE History'
  <2>1. task[t].own \subseteq 1..given /\ task[t].promise \subseteq accepted
    BY <1>6 DEF JobReturns, History
  <2>2. /\ given' = given /\ task' = [task EXCEPT ![t] = Idle]
        /\ accepted' = accepted \cup task[t].own
        /\ settled' = settled \cup task[t].promise
    BY <1>6 DEF JobReturns, Returns
  <2>3. /\ task[t].own \in SUBSET (1..given') /\ task[t].promise \in SUBSET accepted
        /\ given <= given' /\ given' \in Nat
    BY <1>1, <2>1, <2>2
  <2> QED
    BY <1>3, <2>2, <2>3
<1>7. ASSUME NEW t \in Tasks, JobFails(t) PROVE History'
  <2>1. /\ given' = given /\ task' = [task EXCEPT ![t] = Idle]
        /\ accepted' = accepted /\ settled' = settled
    BY <1>7 DEF JobFails, Raises
  <2>2. /\ {} \in SUBSET (1..given') /\ {} \in SUBSET accepted
        /\ given <= given' /\ given' \in Nat
    BY <1>1, <2>1
  <2> QED
    BY <1>3, <2>1, <2>2
<1>8. ASSUME NEW j \in abandoned, RunLate(j) PROVE History'
  BY <1>8 DEF RunLate, History
<1> QED
  BY <1>2, <1>4, <1>5, <1>6, <1>7, <1>8, Steps

-----------------------------------------------------------------------------
(* Rows.                                                                     *)

\* As long as load jobs do not overlap there is one at a time, with the front of the buffer.
OneJob == \A t, u \in Tasks : Loading(t) /\ Loading(u) => t = u

FrontOfBuffer ==
    \A t \in Tasks : Loading(t) =>
        /\ Len(task[t].batch) <= Len(buffer)
        /\ \A i \in 1..Len(task[t].batch) : task[t].batch[i] = buffer[i]

\* A job truncates as long as none has succeeded; until then the table has no record, but
\* for those of a job that has run and not yet returned.
TruncatesOnce ==
    /\ \A t \in Tasks : Loading(t) => task[t].truncate = stats.truncate_pending
    /\ stats.truncate_pending => abandoned = {}
    /\ stats.truncate_pending /\ (\A t \in Tasks : Loading(t) => ~task[t].ran) =>
          ToSet(store) \cap Records = {}

Kept == ~Excused => OneJob /\ FrontOfBuffer /\ TruncatesOnce /\ dropped = {}

\* Whatever overlaps and runs late: a row is where it should be, or it was dropped. A job that
\* ran has its rows in the table.
RanIsLoaded ==
    \A t \in Tasks : Loading(t) /\ task[t].ran => ToSet(task[t].batch) \subseteq ToSet(store) \cup dropped

\* What a flush promises is in the table or in its batch.
Promised ==
    \A t \in Tasks : Loading(t) =>
        task[t].promise \subseteq ToSet(store) \cup ToSet(task[t].batch) \cup dropped

AllKept == 1..given \subseteq ToSet(store) \cup ToSet(buffer) \cup dropped

SettledIsStored == settled \subseteq ToSet(store) \cup dropped

Accounted == RanIsLoaded /\ Promised /\ AllKept /\ SettledIsStored

\* The rows at the front of the buffer are those of the batch.
LEMMA FrontRows ==
  ASSUME Types, NEW t \in Tasks, Len(task[t].batch) <= Len(buffer),
         \A i \in 1..Len(task[t].batch) : task[t].batch[i] = buffer[i]
  PROVE  /\ RowsAfter(Len(task[t].batch)) \in Seq(Records)
         /\ Len(RowsAfter(Len(task[t].batch))) = Len(buffer) - Len(task[t].batch)
         /\ \A i \in 1..(Len(buffer) - Len(task[t].batch)) :
               RowsAfter(Len(task[t].batch))[i] = buffer[Len(task[t].batch) + i]
         /\ ToSet(buffer) \subseteq ToSet(task[t].batch) \cup ToSet(RowsAfter(Len(task[t].batch)))
<1> DEFINE n == Len(task[t].batch)
<1>1. task[t].batch \in Seq(Records) /\ n \in Nat /\ buffer \in Seq(Records)
  BY DEF Types, Call
<1>2. {buffer[i] : i \in 1..n} \subseteq ToSet(task[t].batch)
  BY <1>1 DEF ToSet
<1> HIDE DEF n
<1>3. /\ SubSeq(buffer, n + 1, Len(buffer)) \in Seq(Records)
      /\ Len(SubSeq(buffer, n + 1, Len(buffer))) = Len(buffer) - n
      /\ \A i \in 1..(Len(buffer) - n) : SubSeq(buffer, n + 1, Len(buffer))[i] = buffer[n + i]
      /\ ToSet(buffer) \subseteq {buffer[i] : i \in 1..n}
                                  \cup ToSet(SubSeq(buffer, n + 1, Len(buffer)))
  BY <1>1, DropRows DEF n
<1>4. ToSet(buffer) \subseteq ToSet(task[t].batch) \cup ToSet(SubSeq(buffer, n + 1, Len(buffer)))
  BY <1>2, <1>3
<1> QED
  BY <1>3, <1>4 DEF RowsAfter, n

\* What leaves the front of the buffer is in the batch, or is dropped.
LEMMA RowsLeave ==
  ASSUME Types, NEW n \in Nat
  PROVE  ToSet(buffer) \subseteq RowsBefore(n) \cup ToSet(RowsAfter(n))
<1>1. buffer \in Seq(Records)
  BY DEF Types
<1> SUFFICES ASSUME NEW i \in DOMAIN buffer, ~(i <= n) PROVE buffer[i] \in ToSet(RowsAfter(n))
  BY DEF ToSet, RowsBefore
<1>2. i \in 1..Len(buffer) /\ n < Len(buffer) /\ Len(buffer) \in Nat
  BY <1>1
<1> DEFINE r == SubSeq(buffer, n + 1, Len(buffer))
<1>3. Len(r) = Len(buffer) - n /\ \A k \in 1..(Len(buffer) - n) : r[k] = buffer[n + k]
  BY <1>1, <1>2
<1>4. DOMAIN r = 1..Len(r)
  BY <1>1, <1>2
<1> HIDE DEF r
<1>5. i - n \in 1..(Len(buffer) - n) /\ n + (i - n) = i
  BY <1>2
<1>6. r[i - n] = buffer[i] /\ i - n \in DOMAIN r
  BY <1>3, <1>4, <1>5
<1> QED
  BY <1>6 DEF RowsAfter, r, ToSet

\* A job that runs takes from the table only what is dropped.
LEMMA Loads ==
  ASSUME Bounded, Types, NEW b \in Seq(Records), NEW tr \in BOOLEAN,
         store' = Load(b, tr), dropped' = dropped \cup Erased(b, tr)
  PROVE  /\ (ToSet(store) \cap Records) \cup dropped \subseteq ToSet(store') \cup dropped'
         /\ ToSet(b) \subseteq ToSet(store')
         /\ dropped \subseteq dropped'
<1>1. ToSet(b) \subseteq ToSet(store')
  BY LoadFacts
<1>2. CASE tr
  BY <1>1, <1>2 DEF Erased
<1>3. CASE ~tr
  BY <1>1, <1>3, LoadFacts
<1> QED
  BY <1>1, <1>2, <1>3

\* A call that begins.
LEMMA EntersKept ==
  ASSUME Bounded, Types, History, Kept, NEW t \in Tasks, Entering(t)
  PROVE  Kept'
<1>1. PICK c \in Call, rows \in Seq(Records), g \in 0..End : Enters(t, c, rows, g)
  BY DEF Entering
<1>2. /\ UNCHANGED <<config, store, faults, abandoned, dropped>>
      /\ buffer' = rows /\ given' = g /\ given <= g
      /\ NewRows(rows, g) /\ ~Loading(t) /\ c.call # "idle" /\ ~c.ran
  BY <1>1 DEF Enters
<1>3. given \in Nat /\ g \in Nat /\ Len(buffer) \in Nat
  BY DEF Types, Bounded
<1>4. overlapped => overlapped'
  BY <1>1 DEF Enters, Ends, Begins
<1>5. SUFFICES ASSUME ~Excused'
               PROVE  OneJob' /\ FrontOfBuffer' /\ TruncatesOnce' /\ dropped' = {}
  BY DEF Kept
<1>6. ~Excused
  BY <1>2, <1>4, <1>5 DEF Excused
<1>7. OneJob /\ FrontOfBuffer /\ TruncatesOnce /\ dropped' = {}
  BY <1>2, <1>6 DEF Kept
<1>8. /\ Len(buffer) <= Len(rows)
      /\ \A i \in 1..Len(buffer) : rows[i] = buffer[i]
  BY <1>2, <1>3 DEF NewRows
<1>10. \A u \in Tasks : Loading(u) =>
          /\ Len(task[u].batch) <= Len(rows)
          /\ \A i \in 1..Len(task[u].batch) : task[u].batch[i] = rows[i]
  <2> SUFFICES ASSUME NEW u \in Tasks, Loading(u)
               PROVE  /\ Len(task[u].batch) <= Len(rows)
                      /\ \A i \in 1..Len(task[u].batch) : task[u].batch[i] = rows[i]
    OBVIOUS
  <2>1. /\ Len(task[u].batch) \in Nat /\ Len(task[u].batch) <= Len(buffer)
        /\ \A i \in 1..Len(task[u].batch) : task[u].batch[i] = buffer[i]
    BY <1>7 DEF FrontOfBuffer, Types, Call
  <2>2. Len(rows) \in Nat
    OBVIOUS
  <2> HIDE DEF Loading
  <2> QED
    BY <1>3, <1>8, <2>1, <2>2
<1>11. ASSUME task' = [task EXCEPT ![t] = Idle],
              stats'.truncate_pending = stats.truncate_pending
       PROVE  OneJob' /\ FrontOfBuffer' /\ TruncatesOnce'
  <2>1. \A u \in Tasks : Loading(u)' => Loading(u) /\ task'[u] = task[u] /\ u # t
    <3>1. ~Loading(t)' /\ \A u \in Tasks : u # t => task'[u] = task[u]
      BY <1>11, TaskFacts
    <3> QED
      BY <3>1 DEF Loading
  <2>2. OneJob' /\ FrontOfBuffer'
    BY <1>2, <1>7, <1>10, <2>1 DEF OneJob, FrontOfBuffer
  <2>3. TruncatesOnce'
    <3>1. \A u \in Tasks : Loading(u) => Loading(u)' /\ task'[u] = task[u]
      <4>1. \A u \in Tasks : u # t => task'[u] = task[u]
        BY <1>11, TaskFacts
      <4> QED
        BY <1>2, <4>1 DEF Loading
    <3> QED
      BY <1>2, <1>7, <1>11, <2>1, <3>1 DEF TruncatesOnce, Records
  <2> QED
    BY <2>2, <2>3
<1>12. CASE Ends(t, c)
  BY <1>7, <1>11, <1>12 DEF Ends
<1>13. CASE Raises(t) /\ UNCHANGED overlapped
  <2>1. stats'.truncate_pending = stats.truncate_pending
    BY <1>13, ErrorStats DEF Raises
  <2> QED
    BY <1>7, <1>11, <1>13, <2>1 DEF Raises
<1>14. CASE Begins(t, c, rows)
  <2>1. /\ task'[t].call = c.call /\ task'[t].promise = c.promise /\ task'[t].batch = rows
        /\ task'[t].truncate = stats.truncate_pending /\ task'[t].ran = c.ran
        /\ \A u \in Tasks : u # t => task'[u] = task[u]
    BY <1>14, TaskFacts
  <2>2. \A u \in Tasks : u # t => ~Loading(u)
    BY <1>5, <1>14 DEF Begins, Excused
  <2>3. \A u \in Tasks : ~Loading(u)
    BY <1>2, <2>2
  <2>4. \A u \in Tasks : Loading(u)' => u = t
    BY <2>1, <2>2 DEF Loading
  <2>5. OneJob'
    BY <2>4 DEF OneJob
  <2>6. FrontOfBuffer'
    BY <1>2, <2>1, <2>4 DEF FrontOfBuffer
  <2>8. UNCHANGED <<stats, settled>>
    BY <1>14 DEF Begins
  <2>9. TruncatesOnce'
    BY <1>2, <1>7, <2>1, <2>3, <2>4, <2>8 DEF TruncatesOnce, Records
  <2> QED
    BY <1>7, <2>5, <2>6, <2>9
<1> QED
  BY <1>1, <1>12, <1>13, <1>14 DEF Enters

LEMMA EntersAccounted ==
  ASSUME Bounded, Types, History, Accounted, NEW t \in Tasks, Entering(t)
  PROVE  Accounted'
<1>1. PICK c \in Call, rows \in Seq(Records), g \in 0..End : Enters(t, c, rows, g)
  BY DEF Entering
<1>2. /\ store' = store /\ dropped' = dropped
      /\ buffer' = rows /\ given' = g /\ given <= g
      /\ NewRows(rows, g) /\ ~Loading(t) /\ ~c.ran
  BY <1>1 DEF Enters
<1>3. given \in Nat /\ g \in Nat
  BY DEF Types, Bounded
<1>4. ToSet(rows) = ToSet(buffer) \cup (given + 1)..g
  BY <1>2 DEF NewRows
<1>5. AllKept'
  <2>1. 1..g = 1..given \cup (given + 1)..g
    BY <1>2, <1>3
  <2>2. 1..g \subseteq ToSet(store) \cup ToSet(rows) \cup dropped
    BY <1>4, <2>1 DEF Accounted, AllKept
  <2> QED
    BY <1>2, <2>2 DEF AllKept
<1>6. accepted \subseteq ToSet(store) \cup ToSet(buffer) \cup dropped
  BY DEF Accounted, AllKept, History
<1>7. c.promise = {} \/ (rows = buffer /\ c.promise = accepted)
  BY <1>1 DEF Enters
<1>8. ASSUME task' = [task EXCEPT ![t] = Idle],
             \/ settled' = settled
             \/ settled' \subseteq settled \cup accepted /\ rows = buffer /\ rows = <<>>
      PROVE  RanIsLoaded' /\ Promised' /\ SettledIsStored'
  <2>1. \A u \in Tasks : Loading(u)' => Loading(u) /\ task'[u] = task[u] /\ u # t
    <3>1. ~Loading(t)' /\ \A u \in Tasks : u # t => task'[u] = task[u]
      BY <1>8, TaskFacts
    <3> QED
      BY <3>1 DEF Loading
  <2>2. RanIsLoaded' /\ Promised'
    BY <1>2, <2>1 DEF Accounted, RanIsLoaded, Promised
  <2>3. SettledIsStored'
    <3>1. CASE settled' = settled
      BY <1>2, <3>1 DEF Accounted, SettledIsStored
    <3>2. CASE settled' \subseteq settled \cup accepted /\ rows = buffer /\ rows = <<>>
      <4>1. ToSet(buffer) = {}
        BY <3>2 DEF ToSet
      <4> QED
        BY <1>2, <1>6, <3>2, <4>1 DEF Accounted, SettledIsStored
    <3> QED
      BY <1>8, <3>1, <3>2
  <2> QED
    BY <2>2, <2>3
<1>9. CASE Ends(t, c) /\ (c.promise = {} \/ rows = <<>>)
  <2>1. \/ settled' = settled
        \/ settled' \subseteq settled \cup accepted /\ rows = buffer /\ rows = <<>>
    BY <1>7, <1>9 DEF Ends
  <2> QED
    BY <1>5, <1>8, <1>9, <2>1 DEF Ends, Accounted
<1>10. CASE Raises(t)
  BY <1>5, <1>8, <1>10 DEF Raises, Accounted
<1>11. CASE Begins(t, c, rows)
  <2>1. /\ task'[t].promise = c.promise /\ task'[t].batch = rows /\ task'[t].ran = c.ran
        /\ \A u \in Tasks : u # t => task'[u] = task[u]
    BY <1>11, TaskFacts
  <2>2. RanIsLoaded'
    BY <1>2, <2>1 DEF Accounted, RanIsLoaded, Loading
  <2>3. c.promise \subseteq ToSet(store) \cup ToSet(rows) \cup dropped
    BY <1>6, <1>7
  <2>4. Promised'
    BY <1>2, <2>1, <2>3 DEF Accounted, Promised, Loading
  <2>5. SettledIsStored'
    BY <1>2, <1>11 DEF Begins, Accounted, SettledIsStored
  <2> QED
    BY <1>5, <2>2, <2>4, <2>5 DEF Accounted
<1> QED
  BY <1>1, <1>9, <1>10, <1>11 DEF Enters

\* BigQuery runs a job: a truncating one finds no record in the table.
LEMMA RunJobKept ==
  ASSUME Bounded, Types, History, Kept, NEW t \in Tasks, RunJob(t)
  PROVE  Kept'
<1>1. /\ Loading(t) /\ ~task[t].ran /\ store' = Load(task[t].batch, task[t].truncate)
      /\ dropped' = dropped \cup Erased(task[t].batch, task[t].truncate)
      /\ UNCHANGED <<buffer, stats, given, settled, abandoned, overlapped>>
  BY DEF RunJob
<1>2. SUFFICES ASSUME ~Excused
               PROVE  OneJob' /\ FrontOfBuffer' /\ TruncatesOnce' /\ dropped' = {}
  BY <1>1 DEF Kept, Excused
<1>3. OneJob /\ FrontOfBuffer /\ TruncatesOnce /\ dropped = {}
  BY <1>2 DEF Kept
<1>5. \A u \in Tasks : Loading(u) => u = t
  BY <1>1, <1>3 DEF OneJob
<1>6. /\ task'[t].call = task[t].call /\ task'[t].promise = task[t].promise
      /\ task'[t].batch = task[t].batch /\ task'[t].truncate = task[t].truncate
      /\ task'[t].ran = TRUE
      /\ \A u \in Tasks : u # t => task'[u] = task[u]
  BY TaskFacts DEF RunJob
<1>7. Loading(t)' /\ \A u \in Tasks : Loading(u)' => u = t
  BY <1>1, <1>5, <1>6 DEF Loading
<1>8. dropped' = {}
  <2>1. CASE task[t].truncate
    <3>1. ToSet(store) \cap Records = {}
      BY <1>1, <1>3, <1>5, <2>1 DEF TruncatesOnce
    <3> QED
      BY <1>1, <1>3, <3>1 DEF Erased
  <2>2. CASE ~task[t].truncate
    BY <1>1, <1>3, <2>2 DEF Erased
  <2> QED
    BY <2>1, <2>2
<1>12. OneJob' /\ FrontOfBuffer'
  BY <1>1, <1>3, <1>6, <1>7 DEF OneJob, FrontOfBuffer
<1>13. TruncatesOnce'
  <2>1. \A u \in Tasks : Loading(u)' => task'[u].truncate = stats'.truncate_pending
    BY <1>1, <1>3, <1>6, <1>7 DEF TruncatesOnce
  <2>2. ~(\A u \in Tasks : Loading(u)' => ~task'[u].ran)
    BY <1>6, <1>7
  <2> QED
    BY <1>1, <1>3, <2>1, <2>2 DEF TruncatesOnce
<1> QED
  BY <1>8, <1>12, <1>13

\* A job that runs, in time or late: b are its rows, and t, if any, is the task that waits.
LEMMA LoadsAccounted ==
  ASSUME Bounded, Types, History, Accounted, NEW b \in Seq(Records), NEW tr \in BOOLEAN,
         store' = Load(b, tr), dropped' = dropped \cup Erased(b, tr),
         buffer' = buffer, given' = given, settled' = settled,
         \A u \in Tasks : /\ task'[u].call = task[u].call /\ task'[u].promise = task[u].promise
                          /\ task'[u].batch = task[u].batch
                          /\ task'[u].ran => task[u].ran \/ task[u].batch = b
  PROVE  Accounted'
<1>1. /\ (ToSet(store) \cap Records) \cup dropped \subseteq ToSet(store') \cup dropped'
      /\ ToSet(b) \subseteq ToSet(store')
  BY Loads
<1>2. 1..given \subseteq Records
  BY DEF Types, Bounded, Records
<1>3. AllKept'
  BY <1>1, <1>2 DEF Accounted, AllKept
<1>4. SettledIsStored'
  BY <1>1, <1>2 DEF Accounted, SettledIsStored, History
<1>5. ASSUME NEW u \in Tasks, Loading(u)'
      PROVE  /\ task'[u].promise \subseteq ToSet(store') \cup ToSet(task'[u].batch) \cup dropped'
             /\ task'[u].ran => ToSet(task'[u].batch) \subseteq ToSet(store') \cup dropped'
  <2>1. Loading(u) /\ ToSet(task[u].batch) \subseteq Records
    <3>1. task[u].batch \in Seq(Records)
      BY DEF Types, Call
    <3> QED
      BY <1>5, <3>1 DEF Loading, ToSet
  <2>2. task[u].promise \subseteq Records
    BY <1>2, <2>1 DEF History
  <2>3. task[u].promise \subseteq ToSet(store) \cup ToSet(task[u].batch) \cup dropped
    BY <2>1 DEF Accounted, Promised
  <2>4. task'[u].promise \subseteq ToSet(store') \cup ToSet(task'[u].batch) \cup dropped'
    BY <1>1, <2>2, <2>3
  <2>5. task[u].ran => ToSet(task[u].batch) \subseteq ToSet(store) \cup dropped
    BY <2>1 DEF Accounted, RanIsLoaded
  <2>6. task'[u].ran => ToSet(task'[u].batch) \subseteq ToSet(store') \cup dropped'
    BY <1>1, <2>1, <2>5
  <2> QED
    BY <2>4, <2>6
<1>6. RanIsLoaded' /\ Promised'
  BY <1>5 DEF RanIsLoaded, Promised
<1> QED
  BY <1>3, <1>4, <1>6 DEF Accounted

LEMMA RunJobAccounted ==
  ASSUME Bounded, Types, History, Accounted, NEW t \in Tasks, RunJob(t)
  PROVE  Accounted'
<1>1. /\ store' = Load(task[t].batch, task[t].truncate)
      /\ dropped' = dropped \cup Erased(task[t].batch, task[t].truncate)
      /\ buffer' = buffer /\ given' = given /\ settled' = settled
  BY DEF RunJob
<1>2. task[t].batch \in Seq(Records) /\ task[t].truncate \in BOOLEAN
  BY DEF Types, Call
<1>3. \A u \in Tasks : /\ task'[u].call = task[u].call /\ task'[u].promise = task[u].promise
                       /\ task'[u].batch = task[u].batch
                       /\ task'[u].ran => task[u].ran \/ task[u].batch = task[t].batch
  BY TaskFacts DEF RunJob
<1> QED
  BY <1>1, <1>2, <1>3, LoadsAccounted

\* A call that leaves with its job, returned or failed, leaves no other behind.
LEMMA LeavesAlone ==
  ASSUME Types, OneJob, NEW t \in Tasks, Loading(t), task' = [task EXCEPT ![t] = Idle]
  PROVE  \A u \in Tasks : ~Loading(u)'
<1>1. ~Loading(t)' /\ \A u \in Tasks : u # t => task'[u] = task[u]
  BY TaskFacts
<1>2. \A u \in Tasks : Loading(u) => u = t
  BY DEF OneJob
<1> QED
  BY <1>1, <1>2 DEF Loading

\* The call of a job that ran returns: alone, it drops no row but those of its batch.
LEMMA JobReturnsKept ==
  ASSUME Bounded, Types, History, Kept, NEW t \in Tasks, JobReturns(t)
  PROVE  Kept'
<1> DEFINE n == Len(task[t].batch)
<1>1. /\ Loading(t) /\ task[t].ran /\ task' = [task EXCEPT ![t] = Idle]
      /\ Counted(n) /\ dropped' = dropped \cup (RowsBefore(n) \ ToSet(task[t].batch))
      /\ UNCHANGED <<store, given, abandoned, overlapped>>
  BY DEF JobReturns, Returns, Counted
<1>2. SUFFICES ASSUME ~Excused
               PROVE  OneJob' /\ FrontOfBuffer' /\ TruncatesOnce' /\ dropped' = {}
  BY <1>1 DEF Kept, Excused
<1>3. OneJob /\ FrontOfBuffer /\ TruncatesOnce /\ dropped = {}
  BY <1>2 DEF Kept
<1>4. \A u \in Tasks : ~Loading(u)'
  BY <1>1, <1>3, LeavesAlone
<1>5. n \in Nat /\ task[t].batch \in Seq(Records) /\ buffer \in Seq(Records)
  BY DEF Types, Call
<1>6. stats'.truncate_pending = FALSE
  BY <1>1, <1>5, LoadedStats
<1>7. RowsBefore(n) \subseteq ToSet(task[t].batch)
  <2> SUFFICES ASSUME NEW i \in DOMAIN buffer, i <= n PROVE buffer[i] \in ToSet(task[t].batch)
    BY DEF RowsBefore
  <2>1. i \in 1..n /\ DOMAIN task[t].batch = 1..n
    BY <1>5
  <2>2. task[t].batch[i] = buffer[i]
    BY <1>1, <1>3, <2>1 DEF FrontOfBuffer
  <2> QED
    BY <2>1, <2>2 DEF ToSet
<1>8. dropped' = {}
  BY <1>1, <1>3, <1>7
<1>10. OneJob' /\ FrontOfBuffer'
  BY <1>4 DEF OneJob, FrontOfBuffer
<1>11. TruncatesOnce'
  BY <1>4, <1>6 DEF TruncatesOnce
<1> QED
  BY <1>8, <1>10, <1>11

LEMMA JobReturnsAccounted ==
  ASSUME Bounded, Types, History, Accounted, NEW t \in Tasks, JobReturns(t)
  PROVE  Accounted'
<1> DEFINE n == Len(task[t].batch)
<1>1. /\ Loading(t) /\ task[t].ran /\ task' = [task EXCEPT ![t] = Idle]
      /\ buffer' = RowsAfter(n) /\ settled' = settled \cup task[t].promise
      /\ dropped' = dropped \cup (RowsBefore(n) \ ToSet(task[t].batch))
      /\ store' = store /\ given' = given
  BY DEF JobReturns, Returns
<1>2. n \in Nat
  BY DEF Types, Call
<1> HIDE DEF n
<1>3. ToSet(task[t].batch) \subseteq ToSet(store) \cup dropped
  BY <1>1 DEF Accounted, RanIsLoaded
<1>4. ToSet(buffer) \subseteq RowsBefore(n) \cup ToSet(buffer')
  BY <1>1, <1>2, RowsLeave
<1>5. AllKept'
  BY <1>1, <1>3, <1>4 DEF Accounted, AllKept
<1>6. SettledIsStored'
  BY <1>1, <1>3 DEF Accounted, SettledIsStored, Promised
<1>7. \A u \in Tasks : Loading(u)' => Loading(u) /\ task'[u] = task[u]
  <2>1. ~Loading(t)' /\ \A u \in Tasks : u # t => task'[u] = task[u]
    BY <1>1, TaskFacts
  <2> QED
    BY <2>1 DEF Loading
<1>8. RanIsLoaded' /\ Promised'
  BY <1>1, <1>7 DEF Accounted, RanIsLoaded, Promised
<1> QED
  BY <1>5, <1>6, <1>8 DEF Accounted

\* The job fails: a truncating one that ran, or may run later, is excused.
LEMMA JobFailsKept ==
  ASSUME Bounded, Types, History, Kept, NEW t \in Tasks, JobFails(t)
  PROVE  Kept'
<1> DEFINE j == [id |-> faults, batch |-> task[t].batch, truncate |-> task[t].truncate,
                 ran |-> task[t].ran]
<1>1. /\ Loading(t) /\ task' = [task EXCEPT ![t] = Idle] /\ CountError
      /\ UNCHANGED <<buffer, store, given, settled, overlapped, dropped>>
      /\ (abandoned' = abandoned /\ ~task[t].ran) \/ abandoned' = abandoned \cup {j}
  BY DEF JobFails, Raises
<1>2. SUFFICES ASSUME ~Excused'
               PROVE  OneJob' /\ FrontOfBuffer' /\ TruncatesOnce' /\ dropped' = {}
  BY DEF Kept
<1>3. ~Excused
  BY <1>1, <1>2 DEF Excused
<1>4. OneJob /\ FrontOfBuffer /\ TruncatesOnce /\ dropped = {}
  BY <1>3 DEF Kept
<1>5. \A u \in Tasks : ~Loading(u)'
  BY <1>1, <1>4, LeavesAlone
<1>6. stats'.truncate_pending = stats.truncate_pending
  BY <1>1, ErrorStats
<1>7. TruncatesOnce'
  <2>1. SUFFICES ASSUME stats.truncate_pending
                 PROVE  abandoned' = {} /\ ToSet(store) \cap Records = {}
    BY <1>1, <1>5, <1>6 DEF TruncatesOnce, Records
  <2>2. task[t].truncate /\ j.truncate
    BY <1>1, <1>4, <2>1 DEF TruncatesOnce
  <2>3. abandoned' = abandoned /\ ~task[t].ran
    BY <1>1, <1>2, <2>2 DEF Excused
  <2>4. \A u \in Tasks : Loading(u) => u = t
    BY <1>1, <1>4 DEF OneJob
  <2> QED
    BY <1>4, <2>1, <2>3, <2>4 DEF TruncatesOnce
<1>8. OneJob' /\ FrontOfBuffer'
  BY <1>5 DEF OneJob, FrontOfBuffer
<1> QED
  BY <1>1, <1>4, <1>7, <1>8

LEMMA JobFailsAccounted ==
  ASSUME Bounded, Types, History, Accounted, NEW t \in Tasks, JobFails(t)
  PROVE  Accounted'
<1>1. /\ task' = [task EXCEPT ![t] = Idle]
      /\ UNCHANGED <<buffer, store, given, settled, dropped>>
  BY DEF JobFails, Raises
<1>2. \A u \in Tasks : Loading(u)' => Loading(u) /\ task'[u] = task[u]
  <2>1. ~Loading(t)' /\ \A u \in Tasks : u # t => task'[u] = task[u]
    BY <1>1, TaskFacts
  <2> QED
    BY <2>1 DEF Loading
<1> QED
  BY <1>1, <1>2 DEF Accounted, RanIsLoaded, Promised, AllKept, SettledIsStored

\* A job whose call has given up runs: it does not truncate, and only adds rows.
LEMMA RunLateKept ==
  ASSUME Bounded, Types, History, Kept, NEW j \in abandoned, RunLate(j)
  PROVE  Kept'
<1> DEFINE k == [j EXCEPT !.ran = TRUE]
<1>1. /\ dropped' = dropped \cup Erased(j.batch, j.truncate)
      /\ abandoned' = (abandoned \ {j}) \cup {k}
      /\ UNCHANGED <<task, buffer, stats, given, settled, overlapped>>
  BY DEF RunLate
<1>2. j \in Job
  BY DEF Types
<1>3. k.truncate = j.truncate
  BY <1>2 DEF Job
<1>4. SUFFICES ASSUME ~Excused'
               PROVE  OneJob' /\ FrontOfBuffer' /\ TruncatesOnce' /\ dropped' = {}
  BY DEF Kept
<1> HIDE DEF k
<1>5. ~j.truncate /\ ~Excused
  BY <1>1, <1>3, <1>4 DEF Excused
<1>6. OneJob /\ FrontOfBuffer /\ TruncatesOnce /\ dropped = {}
  BY <1>5 DEF Kept
<1>7. dropped' = {}
  BY <1>1, <1>5, <1>6 DEF Erased
<1>8. ~stats.truncate_pending
  BY <1>6 DEF TruncatesOnce
<1>9. OneJob' /\ FrontOfBuffer'
  BY <1>1, <1>6 DEF OneJob, FrontOfBuffer, Loading
<1>10. TruncatesOnce'
  BY <1>1, <1>6, <1>8 DEF TruncatesOnce, Loading
<1> QED
  BY <1>7, <1>9, <1>10

LEMMA RunLateAccounted ==
  ASSUME Bounded, Types, History, Accounted, NEW j \in abandoned, RunLate(j)
  PROVE  Accounted'
<1>1. j.batch \in Seq(Records) /\ j.truncate \in BOOLEAN
  BY DEF Types, Job
<1>2. /\ store' = Load(j.batch, j.truncate) /\ dropped' = dropped \cup Erased(j.batch, j.truncate)
      /\ buffer' = buffer /\ given' = given /\ settled' = settled /\ task' = task
  BY DEF RunLate
<1> QED
  BY <1>1, <1>2, LoadsAccounted

LEMMA KeptStep ==
  ASSUME Bounded, Types, History, Kept, [Next]_vars
  PROVE  Kept'
<1>1. CASE UNCHANGED vars
  BY <1>1 DEF vars, Kept, Excused, OneJob, FrontOfBuffer, TruncatesOnce, Loading
<1>2. CASE Next
  BY <1>2, Steps, EntersKept, RunJobKept, JobReturnsKept, JobFailsKept, RunLateKept
<1> QED
  BY <1>1, <1>2

LEMMA AccountedStep ==
  ASSUME Bounded, Types, History, Accounted, [Next]_vars
  PROVE  Accounted'
<1>1. CASE UNCHANGED vars
  BY <1>1 DEF vars, Accounted, RanIsLoaded, Promised, AllKept, SettledIsStored, Loading
<1>2. CASE Next
  BY <1>2, Steps, EntersAccounted, RunJobAccounted, JobReturnsAccounted, JobFailsAccounted,
     RunLateAccounted
<1> QED
  BY <1>1, <1>2

LEMMA InitKept ==
  ASSUME Bounded, Init
  PROVE  Types /\ History /\ Kept /\ Accounted
<1>1. /\ config \in Configs /\ task = [t \in Tasks |-> Idle] /\ buffer = <<>>
      /\ store = <<0>> /\ given = 0 /\ accepted = {} /\ settled = {} /\ faults = 0
      /\ abandoned = {} /\ overlapped = FALSE /\ dropped = {}
      /\ stats = [truncate_pending |-> config.truncate, flushed |-> FALSE, failed |-> FALSE,
                  loaded |-> 0, last_flush_succeeded |-> "none", last_error |-> FALSE]
  BY DEF Init, OldRow
<1>2. End \in Nat /\ 0 \in 0..End /\ 1..0 = {}
  BY DEF Bounded
<1>3. <<0>> \in Seq(0..End) /\ <<>> \in Seq(Records) /\ ToSet(<<0>>) = {0}
  BY <1>2 DEF ToSet
<1>4. config \in [batch_size : Nat, truncate : BOOLEAN] /\ stats \in Stats
  BY <1>1 DEF Bounded, Stats
<1>5. \A t \in Tasks : ~Loading(t)
  BY <1>1 DEF Loading, Idle
<1>6. Types
  BY <1>1, <1>2, <1>3, <1>4, IdleCall DEF Types
<1>7. History
  BY <1>1, <1>5 DEF History
<1>8. 0 \notin Records
  BY <1>2 DEF Records
<1>9. Kept
  BY <1>1, <1>3, <1>5, <1>8 DEF Kept, OneJob, FrontOfBuffer, TruncatesOnce
<1>10. Accounted
  BY <1>1, <1>2, <1>5 DEF Accounted, RanIsLoaded, Promised, AllKept, SettledIsStored
<1> QED
  BY <1>6, <1>7, <1>9, <1>10

LEMMA Invariance ==
  ASSUME Bounded
  PROVE  Spec => [](Types /\ History /\ Kept /\ Accounted)
<1> DEFINE I == Types /\ History /\ Kept /\ Accounted
<1>1. Init => I
  BY InitKept
<1>2. I /\ [Next]_vars => I'
  BY TypesStep, HistoryStep, KeptStep, AccountedStep
<1> QED
  BY <1>1, <1>2, PTL DEF Spec

-----------------------------------------------------------------------------
(* What the sink promises.                                                   *)

\* Every row is accounted for (BigQuerySink.flush, submit_load_job): whatever fails, overlaps,
\* is tried again or is appended while a load job runs, a record that was handed over is in the
\* table or in the buffer, or it is one of the rows taken from the buffer for a job without
\* them or erased by a truncating job; and there is no such row unless flushes overlapped or a
\* truncating job was given up.
THEOREM NoRowLost == ASSUME Bounded PROVE Spec => []RowsKept
<1>1. Types /\ Kept /\ Accounted => RowsKept
  <2> SUFFICES ASSUME Types, Kept, Accounted
               PROVE  /\ 1..given \subseteq Durable \cup ToSet(buffer) \cup dropped
                      /\ dropped # {} => Excused
    BY DEF RowsKept
  <2>1. 1..given \subseteq Records
    BY DEF Types, Bounded, Records
  <2>2. 1..given \subseteq ToSet(store) \cup ToSet(buffer) \cup dropped
    BY DEF Accounted, AllKept
  <2> QED
    BY <2>1, <2>2 DEF Durable, Kept
<1> QED
  BY <1>1, Invariance, PTL

\* A sink whose health_snapshot() is ready has every record it was handed in the table, but for
\* the rows it dropped: an empty buffer is empty because load jobs have run.
THEOREM ReadyMeansWritten == ASSUME Bounded PROVE Spec => []ReadyIsWritten
<1>1. RowsKept => ReadyIsWritten
  <2> SUFFICES ASSUME RowsKept, health_snapshot.ready
               PROVE  1..given \subseteq Durable \cup dropped
    BY DEF ReadyIsWritten
  <2>1. buffer = <<>>
    BY DEF health_snapshot
  <2>2. ToSet(buffer) = {}
    BY <2>1 DEF ToSet
  <2> QED
    BY <2>2 DEF RowsKept
<1> QED
  BY <1>1, NoRowLost, PTL

\* The table and the dropped rows never lose a record together.
LEMMA StoreGrows ==
  ASSUME Bounded, Types, History, [Next]_vars
  PROVE  /\ ToSet(store) \cap Records \subseteq ToSet(store') \cup dropped'
         /\ dropped \subseteq dropped'
<1>1. CASE UNCHANGED vars
  BY <1>1 DEF vars
<1>2. ASSUME NEW t \in Tasks, Entering(t) PROVE store' = store /\ dropped' = dropped
  BY <1>2 DEF Entering, Enters
<1>3. ASSUME NEW t \in Tasks, RunJob(t)
      PROVE  ToSet(store) \cap Records \subseteq ToSet(store') \cup dropped' /\ dropped \subseteq dropped'
  <2>1. task[t].batch \in Seq(Records) /\ task[t].truncate \in BOOLEAN
    BY DEF Types, Call
  <2>2. /\ store' = Load(task[t].batch, task[t].truncate)
        /\ dropped' = dropped \cup Erased(task[t].batch, task[t].truncate)
    BY <1>3 DEF RunJob
  <2> QED
    BY <2>1, <2>2, Loads
<1>4. ASSUME NEW t \in Tasks, JobReturns(t) \/ JobFails(t)
      PROVE  store' = store /\ dropped \subseteq dropped'
  BY <1>4 DEF JobReturns, JobFails
<1>5. ASSUME NEW j \in abandoned, RunLate(j)
      PROVE  ToSet(store) \cap Records \subseteq ToSet(store') \cup dropped' /\ dropped \subseteq dropped'
  <2>1. j.batch \in Seq(Records) /\ j.truncate \in BOOLEAN
    BY DEF Types, Job
  <2>2. store' = Load(j.batch, j.truncate) /\ dropped' = dropped \cup Erased(j.batch, j.truncate)
    BY <1>5 DEF RunLate
  <2> QED
    BY <2>1, <2>2, Loads
<1> QED
  BY <1>1, <1>2, <1>3, <1>4, <1>5, Steps

\* Every step of the sink is a step of the contract.
LEMMA StepsKeepContract ==
  ASSUME Bounded, Types, History, Types', History', Kept', Accounted', [Next]_vars
  PROVE  [Contract!Step]_Contract!vars
<1>1. settled \subseteq settled'
  <2>1. CASE UNCHANGED vars
    BY <2>1 DEF vars
  <2>2. ASSUME NEW t \in Tasks, Entering(t) PROVE settled \subseteq settled'
    <3>1. PICK c \in Call, rows \in Seq(Records), g \in 0..End : Enters(t, c, rows, g)
      BY <2>2 DEF Entering
    <3> QED
      BY <3>1 DEF Enters, Ends, Begins, Raises
  <2>3. ASSUME NEW t \in Tasks, RunJob(t) \/ JobReturns(t) \/ JobFails(t)
        PROVE  settled \subseteq settled'
    BY <2>3 DEF RunJob, JobReturns, Returns, JobFails, Raises
  <2>4. ASSUME NEW j \in abandoned, RunLate(j) PROVE settled \subseteq settled'
    BY <2>4 DEF RunLate
  <2> QED
    BY <2>1, <2>2, <2>3, <2>4, Steps
<1>2. settled' \subseteq accepted' /\ settled' \subseteq Records
  <2>1. 1..given' \subseteq Records
    BY DEF Types, Bounded, Records
  <2> QED
    BY <2>1 DEF History
<1>3. /\ ToSet(store) \cap Records \subseteq ToSet(store') \cup dropped'
      /\ dropped \subseteq dropped'
  BY StoreGrows
<1>4. settled' \subseteq ToSet(store') \cup dropped'
  BY DEF Accounted, SettledIsStored
<1>5. Durable' = ToSet(store') \cap Records
  BY DEF Durable, Records
<1>6. Durable \subseteq Durable' \cup dropped'
  BY <1>3, <1>5 DEF Durable
<1>7. settled' \subseteq accepted' \cap (Durable' \cup dropped')
  BY <1>2, <1>4, <1>5
<1>8. dropped' # {} => Excused'
  BY DEF Kept
<1> QED
  BY <1>1, <1>3, <1>6, <1>7, <1>8 DEF Contract!Step

\* BigQuerySink keeps the contract of a sink: what was accepted before a flush() or close()
\* that has returned is in the table and stays there, through failed load jobs, retries, jobs
\* that run after their call has given up, and a first job that truncates the table. The rows
\* it drops are excepted, one by one: those that overlapping flushes take from the buffer for
\* another job, and those that a truncating job erases which runs late or overlaps another.
THEOREM BigQuerySinkImplementsContract == ASSUME Bounded PROVE Spec => Contract!Spec
<1>1. Init => Contract!Init
  <2> SUFFICES ASSUME Init PROVE Contract!Init
    OBVIOUS
  <2>1. store = <<0>> /\ abandoned = {} /\ overlapped = FALSE /\ accepted = {} /\ settled = {}
        /\ dropped = {}
    BY DEF Init, OldRow
  <2>2. ToSet(store) = {0} /\ 0 \notin Records
    BY <2>1 DEF ToSet, Records, Bounded
  <2>3. Durable = {} /\ ~Excused
    BY <2>1, <2>2 DEF Durable, Excused
  <2> QED
    BY <2>1, <2>3 DEF Contract!Init
<1> DEFINE I == Types /\ History /\ Kept /\ Accounted
<1>2. I /\ I' /\ [Next]_vars => [Contract!Step]_Contract!vars
  BY StepsKeepContract
<1>3. Spec => []I
  BY Invariance
<1> QED
  BY <1>1, <1>2, <1>3, PTL DEF Spec, Contract!Spec

-----------------------------------------------------------------------------
(* What an accepted report says. As long as no flush has failed, the table holds the first *)
(* records in their order, and the buffer the ones after them.                             *)

Table(n, old) == Len(store) = old + n /\ \A i \in 1..(old + n) : store[i] = i - old
OldRows(kept) == IF kept THEN 1 ELSE 0

BufferIsRest ==
    /\ stats.loaded + Len(buffer) = given
    /\ \A i \in 1..Len(buffer) : buffer[i] = stats.loaded + i

FirstTruncates ==
    stats.truncate_pending => config.truncate /\ stats.loaded = 0 /\ ~stats.flushed

TableIsLoaded ==
    (\A t \in Tasks : Loading(t) => ~task[t].ran) =>
        Table(stats.loaded, OldRows(~config.truncate \/ stats.truncate_pending))

TableIsRan ==
    \A t \in Tasks : Loading(t) /\ task[t].ran =>
        Table(stats.loaded + Len(task[t].batch), OldRows(~config.truncate))

Exact ==
    ~overlapped /\ ~stats.failed =>
        /\ abandoned = {}
        /\ \A t \in Tasks : Loading(t) => task[t].batch # <<>>
        /\ BufferIsRest /\ FirstTruncates /\ TableIsLoaded /\ TableIsRan

\* A call that begins: the records it brings come after those of the buffer.
LEMMA EntersExact ==
  ASSUME Bounded, Types, Kept, Exact, NEW t \in Tasks, Entering(t)
  PROVE  Exact'
<1>1. PICK c \in Call, rows \in Seq(Records), g \in 0..End : Enters(t, c, rows, g)
  BY DEF Entering
<1>2. /\ UNCHANGED <<config, store, faults, abandoned>>
      /\ buffer' = rows /\ given' = g /\ given <= g
      /\ NewRows(rows, g) /\ ~Loading(t) /\ c.call # "idle" /\ ~c.ran
  BY <1>1 DEF Enters
<1>3. SUFFICES ASSUME ~overlapped', ~stats'.failed
               PROVE  /\ abandoned' = {}
                      /\ \A u \in Tasks : Loading(u)' => task'[u].batch # <<>>
                      /\ BufferIsRest' /\ FirstTruncates' /\ TableIsLoaded' /\ TableIsRan'
  BY DEF Exact
<1>4. stats' = stats /\ (Ends(t, c) \/ Begins(t, c, rows))
  <2>1. ~Raises(t)
    BY <1>3, ErrorStats DEF Raises
  <2> QED
    BY <1>1, <2>1 DEF Enters, Ends, Begins
<1>5. ~overlapped /\ ~stats.failed
  <2>1. overlapped => overlapped'
    BY <1>4 DEF Ends, Begins
  <2> QED
    BY <1>3, <1>4, <2>1
<1>6. /\ abandoned = {}
      /\ \A u \in Tasks : Loading(u) => task[u].batch # <<>>
      /\ BufferIsRest /\ FirstTruncates /\ TableIsLoaded /\ TableIsRan
  BY <1>5 DEF Exact
<1>7. BufferIsRest'
  <2> DEFINE l == stats.loaded
             m == Len(buffer)
  <2>1. l \in Nat /\ m \in Nat /\ given \in Nat /\ g \in Nat
    BY DEF Types, Stats, Bounded
  <2>2. /\ l + m = given /\ \A i \in 1..m : buffer[i] = l + i
        /\ Len(rows) = m + (g - given) /\ \A i \in 1..m : rows[i] = buffer[i]
        /\ \A i \in 1..(g - given) : rows[m + i] = given + i
    BY <1>2, <1>6 DEF BufferIsRest, NewRows
  <2> HIDE DEF l, m
  <2>3. l + Len(rows) = g
    BY <1>2, <2>1, <2>2
  <2>4. ASSUME NEW i \in 1..Len(rows) PROVE rows[i] = l + i
    <3>1. CASE i <= m
      BY <2>1, <2>2, <3>1
    <3>2. CASE i > m
      <4>1. i - m \in 1..(g - given) /\ i = m + (i - m)
        BY <1>2, <2>1, <2>2, <3>2
      <4>2. rows[i] = given + (i - m)
        BY <2>2, <4>1
      <4> QED
        BY <2>1, <2>2, <4>2
    <3> QED
      BY <2>1, <3>1, <3>2
  <2> QED
    BY <1>2, <1>4, <2>3, <2>4 DEF BufferIsRest, l
<1>8. /\ \A u \in Tasks : u # t => task'[u] = task[u]
      /\ Loading(t)' => task'[t].batch # <<>> /\ ~task'[t].ran
  <2>1. CASE Ends(t, c)
    BY <2>1, TaskFacts DEF Ends
  <2>2. CASE Begins(t, c, rows)
    <3>1. task'[t].batch = rows /\ task'[t].ran = c.ran /\ \A u \in Tasks : u # t => task'[u] = task[u]
      BY <2>2, TaskFacts
    <3> QED
      BY <1>2, <2>2, <3>1 DEF Begins
  <2> QED
    BY <1>4, <2>1, <2>2
<1>9. \A u \in Tasks : Loading(u)' => task'[u].batch # <<>>
  BY <1>6, <1>8 DEF Loading
<1>10. FirstTruncates'
  BY <1>2, <1>4, <1>6 DEF FirstTruncates
<1>11. TableIsLoaded'
  <2>1. SUFFICES ASSUME \A u \in Tasks : Loading(u)' => ~task'[u].ran
                 PROVE  Table(stats.loaded, OldRows(~config.truncate \/ stats.truncate_pending))'
    BY <1>4 DEF TableIsLoaded
  <2>2. \A u \in Tasks : Loading(u) => ~task[u].ran
    BY <1>2, <1>8, <2>1 DEF Loading
  <2> QED
    BY <1>2, <1>4, <1>6, <2>2 DEF TableIsLoaded, Table, OldRows
<1>12. TableIsRan'
  <2>1. \A u \in Tasks : Loading(u)' /\ task'[u].ran => Loading(u) /\ task'[u] = task[u]
    BY <1>8 DEF Loading
  <2> QED
    BY <1>2, <1>4, <1>6, <2>1 DEF TableIsRan, Table
<1> QED
  BY <1>2, <1>6, <1>7, <1>9, <1>10, <1>11, <1>12

\* The table after a job with the rows that come next.
LEMMA LoadTable ==
  ASSUME Bounded, Types, NEW b \in Seq(Records), NEW n \in Nat, NEW old \in {0, 1},
         NEW tr \in BOOLEAN,
         \A i \in 1..Len(b) : b[i] = n + i,
         tr => n = 0 /\ old = 0,
         ~tr => Table(n, old),
         store' = Load(b, tr)
  PROVE  Len(store') = old + (n + Len(b)) /\ \A i \in 1..(old + (n + Len(b))) : store'[i] = i - old
<1>1. Len(b) \in Nat /\ old \in Nat /\ store \in Seq(0..End) /\ End \in Nat
  BY DEF Types, Bounded
<1>2. CASE tr
  <2>1. store' = b
    BY <1>2 DEF Load
  <2>2. n = 0 /\ old = 0
    BY <1>2
  <2>3. old + (n + Len(b)) = Len(b)
    BY <1>1, <2>2
  <2>4. \A i \in 1..Len(b) : b[i] = i - old
    BY <1>1, <2>2
  <2> QED
    BY <2>1, <2>3, <2>4
<1>3. CASE ~tr
  <2>1. store' = store \o b
    BY <1>3 DEF Load
  <2>2. b \in Seq(0..End)
    BY <1>1 DEF Records
  <2>3. /\ Len(store') = Len(store) + Len(b)
        /\ \A i \in 1..Len(store) : store'[i] = store[i]
        /\ \A i \in 1..Len(b) : store'[Len(store) + i] = b[i]
    BY <1>1, <2>1, <2>2, AppendRows
  <2>4. Len(store) = old + n /\ \A i \in 1..(old + n) : store[i] = i - old
    BY <1>3 DEF Table
  <2>5. Len(store') = old + (n + Len(b))
    BY <1>1, <2>3, <2>4
  <2>6. ASSUME NEW i \in 1..(old + (n + Len(b))) PROVE store'[i] = i - old
    <3>1. CASE i <= old + n
      BY <1>1, <2>3, <2>4, <3>1
    <3>2. CASE i > old + n
      <4> DEFINE m == i - (old + n)
      <4>1. m \in 1..Len(b) /\ i = Len(store) + m
        BY <1>1, <2>4, <3>2
      <4>2. store'[i] = b[m] /\ b[m] = n + m
        BY <2>3, <4>1
      <4> QED
        BY <1>1, <4>2
    <3> QED
      BY <1>1, <3>1, <3>2
  <2> QED
    BY <2>5, <2>6
<1> QED
  BY <1>2, <1>3

LEMMA RunJobExact ==
  ASSUME Bounded, Types, Kept, Exact, NEW t \in Tasks, RunJob(t)
  PROVE  Exact'
<1>1. /\ Loading(t) /\ ~task[t].ran /\ store' = Load(task[t].batch, task[t].truncate)
      /\ UNCHANGED <<config, buffer, stats, given, abandoned, overlapped>>
  BY DEF RunJob
<1>2. SUFFICES ASSUME ~overlapped, ~stats.failed
               PROVE  /\ abandoned' = {}
                      /\ \A u \in Tasks : Loading(u)' => task'[u].batch # <<>>
                      /\ BufferIsRest' /\ FirstTruncates' /\ TableIsLoaded' /\ TableIsRan'
  BY <1>1 DEF Exact
<1>3. /\ abandoned = {}
      /\ \A u \in Tasks : Loading(u) => task[u].batch # <<>>
      /\ BufferIsRest /\ FirstTruncates /\ TableIsLoaded /\ TableIsRan
  BY <1>2 DEF Exact
<1>4. OneJob /\ FrontOfBuffer /\ TruncatesOnce
  BY <1>2, <1>3 DEF Kept, Excused
<1>5. /\ task'[t].call = task[t].call /\ task'[t].batch = task[t].batch
      /\ task'[t].ran = TRUE
      /\ \A u \in Tasks : u # t => task'[u] = task[u]
  BY TaskFacts DEF RunJob
<1>6. \A u \in Tasks : Loading(u) => u = t
  BY <1>1, <1>4 DEF OneJob
<1>7. Loading(t)' /\ \A u \in Tasks : Loading(u)' => u = t
  BY <1>1, <1>5, <1>6 DEF Loading
<1>8. /\ task[t].batch \in Seq(Records) /\ task[t].truncate \in BOOLEAN
      /\ stats.loaded \in Nat /\ config.truncate \in BOOLEAN /\ Len(buffer) \in Nat
  BY DEF Types, Call, Stats
<1> DEFINE b == task[t].batch
           old == OldRows(~config.truncate)
<1>9. \A i \in 1..Len(b) : b[i] = stats.loaded + i
  BY <1>1, <1>3, <1>4, <1>8 DEF FrontOfBuffer, BufferIsRest
<1>10. old \in {0, 1}
  BY DEF OldRows
<1>11. task[t].truncate => stats.loaded = 0 /\ old = 0
  BY <1>1, <1>3, <1>4 DEF TruncatesOnce, FirstTruncates, OldRows
<1>12. ~task[t].truncate => Table(stats.loaded, old)
  BY <1>1, <1>3, <1>4, <1>6 DEF TruncatesOnce, TableIsLoaded, OldRows
<1> HIDE DEF b, old
<1>13. Len(store') = old + (stats.loaded + Len(b))
       /\ \A i \in 1..(old + (stats.loaded + Len(b))) : store'[i] = i - old
  BY <1>1, <1>8, <1>9, <1>10, <1>11, <1>12, LoadTable DEF b
<1>14. TableIsRan'
  BY <1>1, <1>5, <1>7, <1>13 DEF TableIsRan, Table, OldRows, b, old
<1>15. TableIsLoaded'
  BY <1>5, <1>7 DEF TableIsLoaded
<1>16. \A u \in Tasks : Loading(u)' => task'[u].batch # <<>>
  BY <1>1, <1>3, <1>5, <1>7
<1>17. BufferIsRest' /\ FirstTruncates'
  BY <1>1, <1>3 DEF BufferIsRest, FirstTruncates
<1> QED
  BY <1>1, <1>3, <1>14, <1>15, <1>16, <1>17

LEMMA JobReturnsExact ==
  ASSUME Bounded, Types, Kept, Exact, NEW t \in Tasks, JobReturns(t)
  PROVE  Exact'
<1> DEFINE n == Len(task[t].batch)
<1>1. /\ Loading(t) /\ task[t].ran /\ task' = [task EXCEPT ![t] = Idle]
      /\ buffer' = RowsAfter(n) /\ Counted(n)
      /\ UNCHANGED <<config, store, given, abandoned, overlapped>>
  BY DEF JobReturns, Returns, Counted
<1>2. /\ n \in Nat /\ stats.loaded \in Nat /\ Len(buffer) \in Nat /\ given \in Nat
      /\ config.truncate \in BOOLEAN
  BY DEF Types, Call, Stats, Bounded
<1>3. /\ stats'.truncate_pending = FALSE /\ stats'.failed = stats.failed
      /\ stats'.loaded = stats.loaded + n
  BY <1>1, <1>2, LoadedStats
<1>4. SUFFICES ASSUME ~overlapped, ~stats.failed
               PROVE  /\ abandoned' = {}
                      /\ \A u \in Tasks : Loading(u)' => task'[u].batch # <<>>
                      /\ BufferIsRest' /\ FirstTruncates' /\ TableIsLoaded' /\ TableIsRan'
  BY <1>1, <1>3 DEF Exact
<1>5. abandoned = {} /\ BufferIsRest /\ TableIsRan
  BY <1>4 DEF Exact
<1>6. OneJob /\ FrontOfBuffer
  BY <1>4, <1>5 DEF Kept, Excused
<1>7. \A u \in Tasks : ~Loading(u)'
  BY <1>1, <1>6, LeavesAlone
<1>8. n <= Len(buffer) /\ \A i \in 1..n : task[t].batch[i] = buffer[i]
  BY <1>1, <1>6 DEF FrontOfBuffer
<1>9. /\ Len(buffer') = Len(buffer) - n
      /\ \A i \in 1..(Len(buffer) - n) : buffer'[i] = buffer[n + i]
  BY <1>1, <1>8, FrontRows
<1> HIDE DEF n
<1>10. BufferIsRest'
  <2>1. stats'.loaded + Len(buffer') = given'
    BY <1>1, <1>2, <1>3, <1>5, <1>8, <1>9 DEF BufferIsRest
  <2>2. ASSUME NEW i \in 1..Len(buffer') PROVE buffer'[i] = stats'.loaded + i
    <3>1. i \in 1..(Len(buffer) - n) /\ n + i \in 1..Len(buffer)
      BY <1>2, <1>8, <1>9
    <3>2. buffer'[i] = buffer[n + i] /\ buffer[n + i] = stats.loaded + (n + i)
      BY <1>5, <1>9, <3>1 DEF BufferIsRest
    <3> QED
      BY <1>2, <1>3, <3>2
  <2> QED
    BY <2>1, <2>2 DEF BufferIsRest
<1>11. FirstTruncates' /\ TableIsRan'
  BY <1>3, <1>7 DEF FirstTruncates, TableIsRan
<1>12. TableIsLoaded'
  <2>1. Table(stats.loaded + n, OldRows(~config.truncate))
    BY <1>1, <1>5 DEF TableIsRan, n
  <2> QED
    BY <1>1, <1>3, <2>1 DEF TableIsLoaded, Table, OldRows
<1> QED
  BY <1>1, <1>5, <1>7, <1>10, <1>11, <1>12

LEMMA ExactStep ==
  ASSUME Bounded, Types, History, Kept, Exact, [Next]_vars
  PROVE  Exact'
<1>1. CASE UNCHANGED vars
  BY <1>1 DEF vars, Exact, BufferIsRest, FirstTruncates, TableIsLoaded, TableIsRan, Table, Loading
<1>2. ASSUME NEW t \in Tasks, JobFails(t) PROVE Exact'
  BY <1>2, ErrorStats DEF JobFails, Raises, Exact
<1>3. ASSUME NEW j \in abandoned, RunLate(j) PROVE Exact'
  BY <1>3 DEF RunLate, Exact
<1> QED
  BY <1>1, <1>2, <1>3, Steps, EntersExact, RunJobExact, JobReturnsExact

LEMMA InitExact ==
  ASSUME Bounded, Init
  PROVE  Exact
<1>1. /\ task = [t \in Tasks |-> Idle] /\ buffer = <<>> /\ store = <<0>> /\ given = 0
      /\ abandoned = {} /\ config \in Configs
      /\ stats.truncate_pending = config.truncate /\ stats.flushed = FALSE /\ stats.loaded = 0
  BY DEF Init, OldRow
<1>2. \A t \in Tasks : ~Loading(t)
  BY <1>1 DEF Loading, Idle
<1>3. config.truncate \in BOOLEAN
  BY <1>1 DEF Bounded
<1>4. OldRows(~config.truncate \/ stats.truncate_pending) = 1
  BY <1>1, <1>3 DEF OldRows
<1>5. Table(0, 1)
  BY <1>1 DEF Table
<1> QED
  BY <1>1, <1>2, <1>4, <1>5 DEF Exact, BufferIsRest, FirstTruncates, TableIsLoaded, TableIsRan

\* An acceptance_report() that passed tells the truth (observability.evaluate over
\* metrics_snapshot()): every record that was handed over is in the table, exactly once,
\* and a truncating sink has left nothing of the old table, unless load jobs overlapped.
THEOREM PassedReportIsTrue == ASSUME Bounded PROVE Spec => []ReportIsTrue
<1> DEFINE I == Types /\ History /\ Kept
<1>1. Init => Exact
  BY InitExact
<1>2. I /\ Exact /\ [Next]_vars => Exact'
  BY ExactStep
<1>3. I /\ Exact => ReportIsTrue
  <2> SUFFICES ASSUME I, Exact, evaluate(metrics_snapshot), ~overlapped
               PROVE  /\ ToSet(store) = 1..given \cup (IF config.truncate THEN {} ELSE {OldRow})
                      /\ IsInjective(store)
                      /\ stats.loaded = given
    BY DEF ReportIsTrue
  <2>1. stats.flushed /\ Len(buffer) <= 0 /\ ~stats.failed
    BY DEF evaluate, metrics_snapshot, max_buffered_row_count
  <2>2. Len(buffer) = 0 /\ given \in Nat /\ stats.loaded \in Nat /\ config.truncate \in BOOLEAN
    BY <2>1 DEF Types, Stats, Bounded
  <2>3. /\ abandoned = {} /\ \A t \in Tasks : Loading(t) => task[t].batch # <<>>
        /\ BufferIsRest /\ FirstTruncates /\ TableIsLoaded
    BY <2>1 DEF Exact
  <2>4. stats.loaded = given /\ ~stats.truncate_pending
    BY <2>1, <2>2, <2>3 DEF BufferIsRest, FirstTruncates
  <2>5. \A t \in Tasks : ~Loading(t)
    <3>1. FrontOfBuffer
      BY <2>3 DEF Kept, Excused
    <3>2. \A t \in Tasks : task[t].batch \in Seq(Records) /\ Len(task[t].batch) \in Nat
      BY DEF Types, Call
    <3>3. \A t \in Tasks : Loading(t) => Len(task[t].batch) = 0
      BY <2>2, <3>1, <3>2 DEF FrontOfBuffer
    <3> QED
      BY <2>3, <3>2, <3>3
  <2> DEFINE old == OldRows(~config.truncate)
  <2>6. Table(given, old)
    BY <2>3, <2>4, <2>5 DEF TableIsLoaded
  <2>7. old \in {0, 1} /\ store \in Seq(0..End) /\ DOMAIN store = 1..Len(store)
    BY DEF OldRows, Types
  <2>8. old = 0 <=> config.truncate
    BY <2>2 DEF OldRows
  <2> HIDE DEF old
  <2>9. DOMAIN store = 1..(old + given) /\ \A i \in 1..(old + given) : store[i] = i - old
    BY <2>6, <2>7 DEF Table
  <2>10. IsInjective(store)
    <3>1. ASSUME NEW i \in 1..(old + given), NEW k \in 1..(old + given), store[i] = store[k]
          PROVE  i = k
      <4>1. i - old = k - old /\ i \in Int /\ k \in Int /\ old \in Int
        BY <2>2, <2>7, <2>9, <3>1
      <4> QED
        BY <4>1
    <3> QED
      BY <2>9, <3>1 DEF IsInjective
  <2>11. ToSet(store) = (1 - old)..given
    <3>1. ToSet(store) \subseteq (1 - old)..given
      <4>1. ASSUME NEW i \in 1..(old + given) PROVE i - old \in (1 - old)..given
        BY <2>2, <2>7
      <4> QED
        BY <2>9, <4>1 DEF ToSet
    <3>2. ASSUME NEW x \in (1 - old)..given PROVE x \in ToSet(store)
      <4>1. x + old \in 1..(old + given) /\ (x + old) - old = x
        BY <2>2, <2>7
      <4> QED
        BY <2>9, <4>1 DEF ToSet
    <3> QED
      BY <3>1, <3>2
  <2>12. (1 - old)..given = 1..given \cup (IF config.truncate THEN {} ELSE {OldRow})
    <3>1. CASE config.truncate
      BY <2>2, <2>8, <3>1
    <3>2. CASE ~config.truncate
      <4>1. old = 1
        BY <2>7, <2>8, <3>2
      <4>2. 0..given = 1..given \cup {0}
        BY <2>2
      <4> QED
        BY <3>2, <4>1, <4>2 DEF OldRow
    <3> QED
      BY <3>1, <3>2
  <2> QED
    BY <2>4, <2>10, <2>11, <2>12
<1>4. Spec => []I
  BY Invariance
<1> QED
  BY <1>1, <1>2, <1>3, <1>4, PTL DEF Spec

-----------------------------------------------------------------------------
(* S3Sink (s3/sinks/s3.py, upload_runtime.py). It keeps its state in the same     *)
(* places: a local file in buffer, the objects of the bucket in store.             *)

S3 == INSTANCE S3Sink
S3Contract == INSTANCE DurableSink WITH durable <- S3!Durable, dropped <- {}, excused <- FALSE

\* The runner writes to a sink from one task.
OneCaller == \A t, u \in Tasks : t = u

S3Keys == {<<>>} \cup (Nat \X {"a", "b"} \X Nat)
S3Partitions == {"", "a", "b"}
S3File == [state : {"none", "open", "closed"}, partition : S3Partitions, key : S3Keys,
           rows : Seq(Nat)]
S3Object == [key : S3Keys, rows : Seq(Nat)]
S3Call == [call : {"idle", "write", "close"}, stage : {"idle", "write", "put"},
           own : SUBSET Nat, todo : Seq(Nat), promise : SUBSET Nat,
           ran : {"no", "yes", "refused"}]
S3Stats == [run_id : Nat, file_index : Nat, uploaded : Nat, last_error : BOOLEAN,
            restarts : Nat]

S3Types ==
    /\ task \in [Tasks -> S3Call]
    /\ buffer \in S3File
    /\ store \in Seq(S3Object)
    /\ stats \in S3Stats
    /\ given \in Nat
    /\ accepted \subseteq Nat
    /\ abandoned \subseteq S3File

\* What a call in progress has done so far: a write has put the records it is past into
\* the active file or an object, close() answers for what was accepted, and an upload
\* that has run has the rows of the active file in an object.
S3Progress(c, acc, dur, rows) ==
    /\ c.call = "idle" => c.stage = "idle"
    /\ c.stage = "write" => c.call = "write"
    /\ c.call = "write" => c.promise = {} /\ c.own \ ToSet(c.todo) \subseteq dur \cup rows
    /\ c.call = "close" => c.own = {} /\ c.promise \subseteq acc
    /\ c.stage = "put" /\ c.ran = "yes" => rows \subseteq dur

S3Calls == \A t \in Tasks : S3Progress(task[t], accepted, S3!Durable, ToSet(buffer.rows))

S3Kept ==
    /\ S3!RowsKept
    /\ buffer.state = "none" => buffer.rows = <<>>
    /\ settled \subseteq accepted \cap S3!Durable
    /\ client \in {"open", "closed"}
    /\ client = "open" => settled = {}
    /\ client = "closed" => \A t \in Tasks : task[t] = S3!Idle

S3Inv == S3Types /\ S3Calls /\ S3Kept

LEMMA S3IdleCall ==
  /\ S3!Idle \in S3Call /\ S3!Idle.call = "idle" /\ S3!Idle.stage = "idle"
  /\ S3!Idle.own = {} /\ S3!Idle.promise = {} /\ S3!Idle.todo = <<>> /\ S3!Idle.ran = "no"
<1>1. <<>> \in Seq(Nat)
  OBVIOUS
<1> QED
  BY <1>1 DEF S3!Idle, S3Call

LEMMA S3SomeFile ==
  ASSUME NEW p \in S3Partitions, NEW k \in S3Keys, NEW r \in Seq(Nat),
         NEW s \in {"none", "open", "closed"}
  PROVE  LET f == [state |-> s, partition |-> p, key |-> k, rows |-> r]
         IN  f \in S3File /\ f.rows = r /\ f.state = s
<1> HIDE DEF S3Keys, S3Partitions
<1> QED
  BY DEF S3File

LEMMA S3NoFile ==
  /\ S3!NoFile \in S3File /\ S3!NoFile.rows = <<>> /\ S3!NoFile.state = "none"
<1>1. <<>> \in Seq(Nat) /\ <<>> \in S3Keys
  BY DEF S3Keys
<1>2. "" \in S3Partitions
  BY Zenon DEF S3Partitions
<1> QED
  BY <1>1, <1>2, S3SomeFile, Zenon DEF S3!NoFile

LEMMA S3IdleProgress ==
  ASSUME NEW acc, NEW dur, NEW rows
  PROVE  S3Progress(S3!Idle, acc, dur, rows)
BY S3IdleCall DEF S3Progress

LEMMA S3EmptyRows == ToSet(<<>>) = {}
BY DEF ToSet

LEMMA S3AppendRows ==
  ASSUME NEW s \in Seq(Nat), NEW r \in Nat
  PROVE  ToSet(Append(s, r)) = ToSet(s) \cup {r} /\ Append(s, r) \in Seq(Nat)
<1>1. /\ Append(s, r) \in Seq(Nat) /\ DOMAIN Append(s, r) = 1..(Len(s) + 1) /\ Len(s) \in Nat
      /\ DOMAIN s = 1..Len(s)
      /\ \A i \in 1..Len(s) : Append(s, r)[i] = s[i]
      /\ Append(s, r)[Len(s) + 1] = r
  OBVIOUS
<1>2. DOMAIN Append(s, r) = DOMAIN s \cup {Len(s) + 1}
  BY <1>1
<1> QED
  BY <1>1, <1>2 DEF ToSet

LEMMA S3TailRows ==
  ASSUME NEW s \in Seq(Nat), s # <<>>
  PROVE  /\ Head(s) \in Nat /\ Tail(s) \in Seq(Nat)
         /\ ToSet(s) = ToSet(Tail(s)) \cup {Head(s)}
<1>1. /\ Len(s) \in Nat \ {0} /\ DOMAIN s = 1..Len(s) /\ Head(s) = s[1] /\ Tail(s) \in Seq(Nat)
      /\ DOMAIN Tail(s) = 1..(Len(s) - 1) /\ \A i \in 1..(Len(s) - 1) : Tail(s)[i] = s[i + 1]
      /\ Head(s) \in Nat
  OBVIOUS
<1>2. ASSUME NEW x \in ToSet(s) PROVE x \in ToSet(Tail(s)) \cup {Head(s)}
  <2>1. PICK i \in 1..Len(s) : x = s[i]
    BY <1>1 DEF ToSet
  <2>2. CASE i = 1
    BY <1>1, <2>1, <2>2
  <2>3. CASE i # 1
    <3>1. i - 1 \in 1..(Len(s) - 1) /\ (i - 1) + 1 = i
      BY <1>1, <2>1, <2>3
    <3>2. Tail(s)[i - 1] = x
      BY <1>1, <2>1, <3>1
    <3> QED
      BY <1>1, <3>1, <3>2 DEF ToSet
  <2> QED
    BY <2>2, <2>3
<1>3. ASSUME NEW x \in ToSet(Tail(s)) PROVE x \in ToSet(s)
  <2>1. PICK i \in 1..(Len(s) - 1) : x = Tail(s)[i]
    BY <1>1 DEF ToSet
  <2>2. i + 1 \in 1..Len(s) /\ x = s[i + 1]
    BY <1>1, <2>1
  <2> QED
    BY <1>1, <2>2 DEF ToSet
<1>4. Head(s) \in ToSet(s)
  <2>1. 1 \in DOMAIN s
    BY <1>1
  <2> QED
    BY <1>1, <2>1 DEF ToSet
<1> QED
  BY <1>1, <1>2, <1>3, <1>4

\* put_object() with IfNoneMatch: what is stored stays, and an object that did not exist
\* has the rows of the file.
LEMMA S3PutFacts ==
  ASSUME store \in Seq(S3Object), NEW f \in S3File, S3!Put(f)
  PROVE  /\ store' \in Seq(S3Object)
         /\ S3!Durable \subseteq S3!Durable'
         /\ ~S3!Exists(f.key) => ToSet(f.rows) \subseteq S3!Durable'
<1>1. CASE S3!Exists(f.key)
  BY <1>1 DEF S3!Put, S3!Durable
<1>2. CASE ~S3!Exists(f.key)
  <2> DEFINE o == [key |-> f.key, rows |-> f.rows]
  <2>1. f.key \in S3Keys /\ f.rows \in Seq(Nat)
    BY DEF S3File
  <2>2. o \in S3Object /\ o.rows = f.rows
    <3> HIDE DEF S3Keys
    <3> QED
      BY <2>1 DEF S3Object
  <2>3. store' = Append(store, o)
    BY <1>2 DEF S3!Put
  <2> HIDE DEF o
  <2>4. /\ store' \in Seq(S3Object) /\ DOMAIN store' = 1..(Len(store) + 1) /\ Len(store) \in Nat
        /\ DOMAIN store = 1..Len(store)
        /\ \A i \in 1..Len(store) : store'[i] = store[i]
        /\ store'[Len(store) + 1] = o
    BY <2>2, <2>3
  <2>5. S3!Durable \subseteq S3!Durable'
    <3>1. \A i \in DOMAIN store : i \in DOMAIN store' /\ store'[i] = store[i]
      BY <2>4
    <3> QED
      BY <3>1 DEF S3!Durable
  <2>6. ToSet(f.rows) \subseteq S3!Durable'
    <3>1. Len(store) + 1 \in DOMAIN store' /\ store'[Len(store) + 1].rows = f.rows
      BY <2>2, <2>4
    <3> QED
      BY <3>1 DEF S3!Durable, ToSet, S3!ToSet
  <2> QED
    BY <2>4, <2>5, <2>6
<1> QED
  BY <1>1, <1>2

-----------------------------------------------------------------------------
LEMMA S3SameSet == \A s : S3!ToSet(s) = ToSet(s)
BY DEF ToSet, S3!ToSet

LEMMA S3SameStore == store' = store => S3!Durable' = S3!Durable
BY DEF S3!Durable

\* With one caller, its call is all there is to say about the calls after a step.
LEMMA S3OnlyCall ==
  ASSUME OneCaller, NEW t \in Tasks,
         S3Progress(task'[t], accepted', S3!Durable', ToSet(buffer'.rows))
  PROVE  S3Calls'
BY DEF OneCaller, S3Calls

LEMMA S3Record ==
  ASSUME NEW c \in S3Call
  PROVE  /\ c.call \in {"idle", "write", "close"} /\ c.stage \in {"idle", "write", "put"}
         /\ c.own \subseteq Nat /\ c.todo \in Seq(Nat) /\ c.promise \subseteq Nat
         /\ c.ran \in {"no", "yes", "refused"}
BY DEF S3Call

LEMMA S3ClosedFile ==
  ASSUME NEW f \in S3File
  PROVE  LET g == [f EXCEPT !.state = "closed"]
         IN  g \in S3File /\ g.rows = f.rows /\ g.state = "closed"
<1> HIDE DEF S3Keys, S3Partitions
<1> QED
  BY DEF S3File

LEMMA S3TakenCall ==
  ASSUME NEW c \in S3Call, c.todo # <<>>
  PROVE  LET d == [c EXCEPT !.todo = Tail(c.todo)]
         IN  /\ d \in S3Call /\ d.todo = Tail(c.todo) /\ d.ran = c.ran /\ d.stage = c.stage
             /\ d.call = c.call /\ d.own = c.own /\ d.promise = c.promise
<1>1. Tail(c.todo) \in Seq(Nat)
  BY S3Record, S3TailRows
<1> QED
  BY <1>1 DEF S3Call

LEMMA S3FilledFile ==
  ASSUME NEW f \in S3File, NEW r \in Nat
  PROVE  LET g == [f EXCEPT !.rows = Append(f.rows, r)]
         IN  g \in S3File /\ g.rows = Append(f.rows, r) /\ g.state = f.state
<1>1. f.rows \in Seq(Nat)
  BY DEF S3File
<1>2. Append(f.rows, r) \in Seq(Nat)
  BY <1>1
<1> HIDE DEF S3Keys, S3Partitions
<1> QED
  BY <1>2 DEF S3File

LEMMA S3OpenedFile ==
  ASSUME S3Types, NEW r \in Nat
  PROVE  LET g == [state |-> "open", partition |-> S3!Partition(r),
                   key |-> S3!ObjectKey(S3!Partition(r)), rows |-> <<>>]
         IN  g \in S3File /\ g.rows = <<>> /\ g.state = "open"
<1>1. S3!Partition(r) \in {"a", "b"}
  BY DEF S3!Partition
<1>2. stats.run_id \in Nat /\ stats.file_index \in Nat
  BY DEF S3Types, S3Stats
<1>3. S3!ObjectKey(S3!Partition(r)) \in S3Keys
  BY <1>1, <1>2 DEF S3!ObjectKey, S3Keys
<1>4. <<>> \in Seq(Nat)
  OBVIOUS
<1>5. S3!Partition(r) \in S3Partitions
  BY <1>1, Zenon DEF S3Partitions
<1> HIDE DEF S3Keys, S3!ObjectKey, S3!Partition
<1> QED
  BY <1>3, <1>4, <1>5, S3SomeFile

-----------------------------------------------------------------------------
\* What every step of the sink does.
S3Goal == S3Inv' /\ S3!Durable \subseteq S3!Durable' /\ settled \subseteq settled'

\* write() and write_batch() begin.
LEMMA S3WriteStep ==
  ASSUME OneCaller, S3Inv, NEW t \in Tasks, NEW n \in 1..2, S3!Write(t, n)
  PROVE  S3Goal
<1> DEFINE own == (given + 1)..(given + n)
           todo == [i \in 1..n |-> given + i]
           c == [S3!Idle EXCEPT !.call = "write", !.stage = "write", !.own = own, !.todo = todo]
<1>0. given \in Nat
  BY DEF S3Inv, S3Types
<1>1. own \subseteq Nat /\ todo \in Seq(Nat)
  BY <1>0
<1>2. own \subseteq ToSet(todo)
  <2> SUFFICES ASSUME NEW r \in own PROVE r \in ToSet(todo)
    OBVIOUS
  <2>1. r - given \in DOMAIN todo /\ todo[r - given] = r
    BY <1>0
  <2> HIDE DEF todo
  <2> QED
    BY <2>1 DEF ToSet
<1>3. task' = [task EXCEPT ![t] = c]
  BY DEF S3!Write
<1> HIDE DEF own, todo
<1>4. /\ c \in S3Call /\ c.call = "write" /\ c.stage = "write" /\ c.own = own /\ c.todo = todo
      /\ c.promise = {}
  BY <1>1 DEF S3!Idle, S3Call
<1> HIDE DEF c
<1>5. /\ client = "open" /\ client' = client /\ buffer' = buffer /\ store' = store
      /\ stats' = stats /\ accepted' = accepted /\ settled' = settled /\ abandoned' = abandoned
      /\ given' = given + n
  BY DEF S3!Write
<1>6. S3!Durable' = S3!Durable
  BY <1>5, S3SameStore
<1>7. S3Types'
  <2>1. task' \in [Tasks -> S3Call] /\ given' \in Nat
    BY <1>0, <1>3, <1>4, <1>5 DEF S3Inv, S3Types
  <2> QED
    BY <1>5, <2>1 DEF S3Inv, S3Types
<1>8. S3Calls'
  <2>1. task'[t] = c
    BY <1>3 DEF S3Inv, S3Types
  <2>2. S3Progress(c, accepted', S3!Durable', ToSet(buffer'.rows))
    BY <1>2, <1>4 DEF S3Progress
  <2> QED
    BY <2>1, <2>2, S3OnlyCall
<1>9. S3Kept'
  BY <1>5, <1>6 DEF S3Inv, S3Kept, S3!RowsKept
<1> QED
  BY <1>5, <1>6, <1>7, <1>8, <1>9 DEF S3Goal, S3Inv

\* finalize_active_file() begins an upload: the rows of the file stay where they are.
LEMMA S3UploadStep ==
  ASSUME OneCaller, S3Inv, NEW t \in Tasks, NEW c \in S3Call, NEW f \in S3File,
         S3!Upload(t, c, f), client = "open", c.call \in {"write", "close"},
         S3Progress(c, accepted, S3!Durable, ToSet(f.rows)),
         ToSet(buffer.rows) \subseteq ToSet(f.rows),
         client' = client, store' = store, stats' = stats, given' = given, abandoned' = abandoned
  PROVE  S3Goal
<1> DEFINE d == [c EXCEPT !.stage = "put", !.ran = "no"]
           g == [f EXCEPT !.state = "closed"]
<1>1. task' = [task EXCEPT ![t] = d] /\ buffer' = g /\ accepted' = accepted /\ settled' = settled
  BY DEF S3!Upload
<1>2. /\ d \in S3Call /\ d.stage = "put" /\ d.ran = "no"
      /\ d.call = c.call /\ d.own = c.own /\ d.todo = c.todo /\ d.promise = c.promise
  BY DEF S3Call
<1>3. g \in S3File /\ g.rows = f.rows /\ g.state = "closed"
  BY S3ClosedFile
<1> HIDE DEF d, g
<1>4. S3!Durable' = S3!Durable
  BY S3SameStore
<1>5. S3Types'
  <2>1. task' \in [Tasks -> S3Call]
    BY <1>1, <1>2 DEF S3Inv, S3Types
  <2> QED
    BY <1>1, <1>3, <2>1 DEF S3Inv, S3Types
<1>6. S3Calls'
  <2>1. task'[t] = d /\ buffer'.rows = f.rows
    BY <1>1, <1>3 DEF S3Inv, S3Types
  <2>2. S3Progress(d, accepted, S3!Durable, ToSet(f.rows))
    BY <1>2 DEF S3Progress
  <2> QED
    BY <1>1, <1>4, <2>1, <2>2, S3OnlyCall
<1>7. S3Kept'
  <2>1. S3!RowsKept'
    <3>1. accepted \subseteq S3!Durable \cup ToSet(buffer.rows)
      BY S3SameSet DEF S3Inv, S3Kept, S3!RowsKept
    <3>2. accepted' \subseteq S3!Durable' \cup ToSet(buffer'.rows)
      BY <1>1, <1>3, <1>4, <3>1
    <3> QED
      BY <3>2, S3SameSet DEF S3!RowsKept
  <2>2. buffer'.state # "none"
    BY <1>1, <1>3
  <2> QED
    BY <1>1, <1>4, <2>1, <2>2 DEF S3Inv, S3Kept
<1> QED
  BY <1>1, <1>4, <1>5, <1>6, <1>7 DEF S3Goal, S3Inv

\* The call of t ends with everything it carried kept, or with an error.
LEMMA S3EndStep ==
  ASSUME OneCaller, S3Inv, NEW t \in Tasks,
         task' = [task EXCEPT ![t] = S3!Idle],
         accepted' \subseteq Nat, accepted \subseteq accepted',
         accepted' \subseteq S3!Durable \cup ToSet(buffer'.rows),
         buffer' \in S3File, buffer'.state = "none" => buffer'.rows = <<>>,
         settled \subseteq settled', settled' \subseteq accepted' \cap S3!Durable,
         client' \in {"open", "closed"}, client' = "open" => settled' = {},
         store' = store, given' = given, stats' \in S3Stats, abandoned' \subseteq S3File
  PROVE  S3Goal
<1>1. S3!Durable' = S3!Durable
  BY S3SameStore
<1>2. task'[t] = S3!Idle /\ task' \in [Tasks -> S3Call]
  BY S3IdleCall DEF S3Inv, S3Types
<1>3. S3Types'
  BY <1>2 DEF S3Inv, S3Types
<1>4. S3Calls'
  BY <1>2, S3IdleProgress, S3OnlyCall
<1>5. S3Kept'
  <2>1. S3!RowsKept'
    BY <1>1, S3SameSet DEF S3!RowsKept
  <2>2. \A u \in Tasks : task'[u] = S3!Idle
    BY <1>2 DEF OneCaller
  <2> QED
    BY <1>1, <2>1, <2>2 DEF S3Kept
<1> QED
  BY <1>1, <1>3, <1>4, <1>5 DEF S3Goal, S3Inv

LEMMA S3RaiseStep ==
  ASSUME OneCaller, S3Inv, NEW t \in Tasks, S3!Raises(t), client' = client, buffer' = buffer,
         store' = store, given' = given, stats' \in S3Stats, abandoned' \subseteq S3File
  PROVE  S3Goal
<1>1. /\ task' = [task EXCEPT ![t] = S3!Idle] /\ accepted' = accepted /\ settled' = settled
  BY DEF S3!Raises
<1>2. accepted \subseteq S3!Durable \cup ToSet(buffer.rows)
  BY S3SameSet DEF S3Inv, S3Kept, S3!RowsKept
<1>3. accepted \subseteq Nat /\ buffer \in S3File
  BY DEF S3Inv, S3Types
<1>4. /\ buffer.state = "none" => buffer.rows = <<>>
      /\ settled \subseteq accepted \cap S3!Durable
      /\ client \in {"open", "closed"}
      /\ client = "open" => settled = {}
  BY DEF S3Inv, S3Kept
<1>5. /\ accepted' \subseteq Nat /\ accepted \subseteq accepted'
      /\ accepted' \subseteq S3!Durable \cup ToSet(buffer'.rows)
      /\ buffer' \in S3File /\ settled \subseteq settled'
      /\ settled' \subseteq accepted' \cap S3!Durable
      /\ client' \in {"open", "closed"}
  BY <1>1, <1>2, <1>3, <1>4
<1>6. /\ buffer'.state = "none" => buffer'.rows = <<>>
      /\ client' = "open" => settled' = {}
  BY <1>1, <1>4
<1> QED
  BY <1>1, <1>5, <1>6, S3EndStep

\* write() goes on with the next record.
LEMMA S3WriteRecordStep ==
  ASSUME OneCaller, S3Inv, NEW t \in Tasks, S3!WriteRecord(t)
  PROVE  S3Goal
<1> DEFINE b == task[t]
           r == Head(b.todo)
           c == [b EXCEPT !.todo = Tail(b.todo)]
           opened == [state |-> "open", partition |-> S3!Partition(r),
                      key |-> S3!ObjectKey(S3!Partition(r)), rows |-> <<>>]
           file == IF buffer.state # "none" THEN buffer ELSE opened
           filled == [file EXCEPT !.rows = Append(file.rows, r)]
<1>1. b \in S3Call /\ b.stage = "write" /\ buffer \in S3File /\ accepted \subseteq Nat
      /\ stats \in S3Stats /\ abandoned \subseteq S3File
  BY DEF S3!WriteRecord, S3Inv, S3Types
<1>2. b.call = "write" /\ S3Progress(b, accepted, S3!Durable, ToSet(buffer.rows))
  BY <1>1 DEF S3Inv, S3Calls, S3Progress
<1>3. /\ client' = client /\ store' = store /\ stats' = stats /\ given' = given
      /\ abandoned' = abandoned
  BY DEF S3!WriteRecord
<1>4. /\ b.own \subseteq Nat /\ b.todo \in Seq(Nat) /\ b.promise = {}
      /\ b.own \ ToSet(b.todo) \subseteq S3!Durable \cup ToSet(buffer.rows)
  BY <1>1, <1>2, S3Record DEF S3Progress
<1>5. /\ accepted \subseteq S3!Durable \cup ToSet(buffer.rows)
      /\ buffer.state = "none" => buffer.rows = <<>>
      /\ settled \subseteq accepted \cap S3!Durable
      /\ client \in {"open", "closed"}
      /\ client = "open" => settled = {}
  BY S3SameSet DEF S3Inv, S3Kept, S3!RowsKept
<1>6. client = "open"
  BY <1>1, <1>2, S3IdleCall DEF S3Inv, S3Kept
<1>7. \/ b.todo = <<>> /\ S3!Returns(t, b) /\ buffer' = buffer
      \/ b.todo # <<>> /\ S3!Upload(t, b, file)
      \/ b.todo # <<>> /\ S3!Raises(t) /\ buffer' = buffer
      \/ b.todo # <<>> /\ file.state = "open" /\ S3!Upload(t, c, filled)
      \/ /\ b.todo # <<>> /\ file.state = "open" /\ buffer' = filled
         /\ task' = [task EXCEPT ![t] = c] /\ accepted' = accepted /\ settled' = settled
  BY DEF S3!WriteRecord
<1>8. CASE b.todo = <<>> /\ S3!Returns(t, b) /\ buffer' = buffer
  <2>1. /\ task' = [task EXCEPT ![t] = S3!Idle] /\ accepted' = accepted \cup b.own
        /\ settled' = settled \cup b.promise
    BY <1>8 DEF S3!Returns
  <2> HIDE DEF b, c, r, file, filled, opened
  <2>2. b.own \subseteq S3!Durable \cup ToSet(buffer.rows)
    BY <1>4, <1>8, S3EmptyRows
  <2>3. settled' = settled
    BY <1>4, <2>1
  <2>4. /\ accepted' \subseteq Nat /\ accepted \subseteq accepted'
        /\ accepted' \subseteq S3!Durable \cup ToSet(buffer'.rows)
        /\ buffer' \in S3File /\ settled \subseteq settled'
        /\ settled' \subseteq accepted' \cap S3!Durable
        /\ client' \in {"open", "closed"}
    BY <1>1, <1>3, <1>4, <1>5, <1>8, <2>1, <2>2, <2>3
  <2>5. /\ buffer'.state = "none" => buffer'.rows = <<>>
        /\ client' = "open" => settled' = {}
    BY <1>3, <1>5, <1>8, <2>3
  <2>6. stats' \in S3Stats /\ abandoned' \subseteq S3File
    BY <1>1, <1>3
  <2> QED
    BY <1>3, <2>1, <2>4, <2>5, <2>6, S3EndStep
<1>9. CASE b.todo # <<>> /\ S3!Raises(t) /\ buffer' = buffer
  BY <1>1, <1>3, <1>9, S3RaiseStep
<1>10. ASSUME b.todo # <<>>
       PROVE  /\ r \in Nat /\ file \in S3File /\ ToSet(file.rows) = ToSet(buffer.rows)
              /\ file.state # "none"
              /\ ToSet(b.todo) = ToSet(Tail(b.todo)) \cup {r}
  <2>1. r \in Nat /\ ToSet(b.todo) = ToSet(Tail(b.todo)) \cup {r}
    BY <1>4, <1>10, S3TailRows
  <2> HIDE DEF r, b
  <2>2. opened \in S3File /\ opened.rows = <<>> /\ opened.state = "open"
    BY <2>1, S3OpenedFile DEF S3Inv
  <2> HIDE DEF opened
  <2>3. CASE buffer.state # "none"
    BY <1>1, <2>1, <2>3
  <2>4. CASE buffer.state = "none"
    BY <1>1, <1>5, <2>1, <2>2, <2>4
  <2> QED
    BY <2>3, <2>4
<1>11. CASE b.todo # <<>> /\ S3!Upload(t, b, file)
  <2>1. S3Progress(b, accepted, S3!Durable, ToSet(file.rows))
    BY <1>2, <1>10, <1>11
  <2> HIDE DEF file, b
  <2> QED
    BY <1>1, <1>2, <1>3, <1>6, <1>10, <1>11, <2>1, S3UploadStep
<1>12. ASSUME b.todo # <<>>
       PROVE  /\ c \in S3Call /\ c.call = "write" /\ c.stage = "write"
              /\ filled \in S3File /\ filled.state = file.state
              /\ ToSet(buffer.rows) \subseteq ToSet(filled.rows)
              /\ S3Progress(c, accepted, S3!Durable, ToSet(filled.rows))
  <2>1. /\ c \in S3Call /\ c.todo = Tail(b.todo) /\ c.stage = b.stage
        /\ c.call = b.call /\ c.own = b.own /\ c.promise = b.promise
    BY <1>1, <1>12, S3TakenCall
  <2>2. r \in Nat /\ file \in S3File /\ ToSet(file.rows) = ToSet(buffer.rows)
        /\ ToSet(b.todo) = ToSet(Tail(b.todo)) \cup {r}
    BY <1>10, <1>12
  <2> HIDE DEF r, file, b, c
  <2>3. filled \in S3File /\ filled.rows = Append(file.rows, r) /\ filled.state = file.state
    BY <2>2, S3FilledFile
  <2>4. file.rows \in Seq(Nat)
    BY <2>2 DEF S3File
  <2> HIDE DEF filled
  <2>5. ToSet(filled.rows) = ToSet(buffer.rows) \cup {r}
    BY <2>2, <2>3, <2>4, S3AppendRows
  <2>6. S3Progress(c, accepted, S3!Durable, ToSet(filled.rows))
    BY <1>1, <1>2, <1>4, <2>1, <2>2, <2>5 DEF S3Progress
  <2> QED
    BY <1>1, <1>2, <2>1, <2>3, <2>5, <2>6
<1>13. CASE b.todo # <<>> /\ file.state = "open" /\ S3!Upload(t, c, filled)
  <2> HIDE DEF filled, c, b, file
  <2> QED
    BY <1>3, <1>6, <1>12, <1>13, S3UploadStep
<1>14. CASE /\ b.todo # <<>> /\ file.state = "open" /\ buffer' = filled
            /\ task' = [task EXCEPT ![t] = c] /\ accepted' = accepted /\ settled' = settled
  <2>1. /\ c \in S3Call /\ filled \in S3File /\ filled.state # "none"
        /\ ToSet(buffer.rows) \subseteq ToSet(filled.rows)
        /\ S3Progress(c, accepted, S3!Durable, ToSet(filled.rows))
    BY <1>10, <1>12, <1>14
  <2> HIDE DEF filled, c, b, file
  <2>2. S3!Durable' = S3!Durable
    BY <1>3, S3SameStore
  <2>3. task'[t] = c /\ task' \in [Tasks -> S3Call]
    BY <1>14, <2>1 DEF S3Inv, S3Types
  <2>4. S3Types'
    BY <1>3, <1>14, <2>1, <2>3 DEF S3Inv, S3Types
  <2>5. S3Calls'
    BY <1>14, <2>1, <2>2, <2>3, S3OnlyCall
  <2>6. S3!RowsKept'
    BY <1>5, <1>14, <2>1, <2>2, S3SameSet DEF S3!RowsKept
  <2>7. S3Kept'
    BY <1>3, <1>5, <1>6, <1>14, <2>1, <2>2, <2>6 DEF S3Kept
  <2> QED
    BY <1>14, <2>2, <2>4, <2>5, <2>7 DEF S3Goal, S3Inv
<1> QED
  BY <1>7, <1>8, <1>9, <1>11, <1>13, <1>14

\* flush() leaves everything as it is; close() uploads the active file, or has nothing to do.
LEMMA S3FlushOrCloseStep ==
  ASSUME OneCaller, S3Inv, NEW t \in Tasks, NEW call \in {"flush", "close"},
         S3!FlushOrClose(t, call)
  PROVE  S3Goal
<1>1. /\ client = "open" /\ store' = store /\ stats' = stats /\ given' = given
      /\ abandoned' = abandoned
  BY DEF S3!FlushOrClose
<1>2. /\ accepted \subseteq S3!Durable \cup ToSet(buffer.rows)
      /\ buffer.state = "none" => buffer.rows = <<>>
      /\ settled = {}
  BY <1>1, S3SameSet DEF S3Inv, S3Kept, S3!RowsKept
<1>3. /\ accepted \subseteq Nat /\ buffer \in S3File /\ stats \in S3Stats
      /\ abandoned \subseteq S3File
  BY DEF S3Inv, S3Types
<1>4. CASE call = "flush"
  <2>1. task' = task /\ buffer' = buffer /\ accepted' = accepted /\ settled' = settled
        /\ client' = client
    BY <1>4 DEF S3!FlushOrClose
  <2>2. S3!Durable' = S3!Durable
    BY <1>1, S3SameStore
  <2>3. S3Types' /\ S3Calls' /\ S3Kept'
    BY <1>1, <2>1, <2>2 DEF S3Inv, S3Types, S3Calls, S3Kept, S3!RowsKept
  <2> QED
    BY <2>1, <2>2, <2>3 DEF S3Goal, S3Inv
<1>5. CASE call = "close" /\ buffer.state = "none"
  <2> DEFINE c == [S3!Idle EXCEPT !.promise = accepted]
  <2>1. S3!Returns(t, c) /\ client' = "closed" /\ buffer' = buffer
    BY <1>5 DEF S3!FlushOrClose
  <2>2. c.own = {} /\ c.promise = accepted
    BY DEF S3!Idle
  <2>3. /\ task' = [task EXCEPT ![t] = S3!Idle] /\ accepted' = accepted \cup c.own
        /\ settled' = settled \cup c.promise
    BY <2>1 DEF S3!Returns
  <2> HIDE DEF c
  <2>4. accepted' = accepted /\ settled' = accepted /\ accepted \subseteq S3!Durable
    BY <1>2, <1>5, <2>2, <2>3, S3EmptyRows
  <2>5. /\ accepted' \subseteq Nat /\ accepted \subseteq accepted'
        /\ accepted' \subseteq S3!Durable \cup ToSet(buffer'.rows)
        /\ buffer' \in S3File /\ settled \subseteq settled'
        /\ settled' \subseteq accepted' \cap S3!Durable
        /\ client' \in {"open", "closed"}
    BY <1>2, <1>3, <2>1, <2>4
  <2>6. /\ buffer'.state = "none" => buffer'.rows = <<>>
        /\ client' = "open" => settled' = {}
    BY <1>2, <2>1
  <2>7. stats' \in S3Stats /\ abandoned' \subseteq S3File
    BY <1>1, <1>3
  <2> QED
    BY <1>1, <2>3, <2>5, <2>6, <2>7, S3EndStep
<1>6. CASE call = "close" /\ buffer.state # "none"
  <2> DEFINE c == [S3!Idle EXCEPT !.call = "close", !.promise = accepted]
  <2>1. S3!Upload(t, c, buffer) /\ client' = client
    BY <1>6 DEF S3!FlushOrClose
  <2>2. <<>> \in Seq(Nat)
    OBVIOUS
  <2>3. /\ c \in S3Call /\ c.call = "close" /\ c.stage = "idle" /\ c.own = {}
        /\ c.promise = accepted
    BY <1>3, <2>2 DEF S3!Idle, S3Call
  <2> HIDE DEF c
  <2>4. S3Progress(c, accepted, S3!Durable, ToSet(buffer.rows))
    BY <2>3 DEF S3Progress
  <2> QED
    BY <1>1, <1>3, <2>1, <2>3, <2>4, S3UploadStep
<1> QED
  BY <1>4, <1>5, <1>6

\* The bucket runs the upload that a call waits for.
LEMMA S3RunPutStep ==
  ASSUME OneCaller, S3Inv, NEW t \in Tasks, S3!RunPut(t)
  PROVE  S3Goal
<1> DEFINE ran == IF S3!Exists(buffer.key) THEN "refused" ELSE "yes"
           d == [task[t] EXCEPT !.ran = ran]
<1>1. /\ task[t].stage = "put" /\ S3!Put(buffer) /\ task' = [task EXCEPT ![t].ran = ran]
      /\ client' = client /\ buffer' = buffer /\ stats' = stats /\ given' = given
      /\ accepted' = accepted /\ settled' = settled /\ abandoned' = abandoned
  BY DEF S3!RunPut
<1>2. task \in [Tasks -> S3Call] /\ buffer \in S3File /\ store \in Seq(S3Object)
  BY DEF S3Inv, S3Types
<1>3. /\ store' \in Seq(S3Object) /\ S3!Durable \subseteq S3!Durable'
      /\ ~S3!Exists(buffer.key) => ToSet(buffer.rows) \subseteq S3!Durable'
  BY <1>1, <1>2, S3PutFacts
<1>5. /\ task' = [task EXCEPT ![t] = d]
  BY <1>1, <1>2
<1> HIDE DEF ran
<1>6. /\ d \in S3Call /\ d.stage = "put" /\ d.ran = ran /\ d.call = task[t].call
      /\ d.own = task[t].own /\ d.todo = task[t].todo /\ d.promise = task[t].promise
  <2>1. ran \in {"no", "yes", "refused"} /\ task[t] \in S3Call
    BY <1>2, <1>3 DEF ran
  <2> QED
    BY <1>1, <2>1 DEF S3Call
<1>7. ran = "yes" => ToSet(buffer.rows) \subseteq S3!Durable'
  BY <1>3 DEF ran
<1> HIDE DEF d
<1>8. task' \in [Tasks -> S3Call] /\ task'[t] = d
  BY <1>2, <1>5, <1>6
<1>9. S3Types'
  BY <1>1, <1>3, <1>8 DEF S3Inv, S3Types
<1>10. S3Calls'
  <2>1. S3Progress(task[t], accepted, S3!Durable, ToSet(buffer.rows))
    BY DEF S3Inv, S3Calls
  <2>2. S3Progress(d, accepted, S3!Durable', ToSet(buffer.rows))
    BY <1>1, <1>3, <1>6, <1>7, <2>1 DEF S3Progress
  <2> QED
    BY <1>1, <1>8, <2>2, S3OnlyCall
<1>11. S3Kept'
  <2>1. S3!RowsKept'
    <3>1. accepted \subseteq S3!Durable \cup ToSet(buffer.rows)
      BY S3SameSet DEF S3Inv, S3Kept, S3!RowsKept
    <3> QED
      BY <1>1, <1>3, <3>1, S3SameSet DEF S3!RowsKept
  <2>2. client # "closed"
    BY <1>1, S3IdleCall DEF S3Inv, S3Kept
  <2> QED
    BY <1>1, <1>3, <2>1, <2>2 DEF S3Inv, S3Kept
<1> QED
  BY <1>1, <1>3, <1>9, <1>10, <1>11 DEF S3Goal, S3Inv

\* put_object() returns: the rows of the active file are in the bucket, and it is dropped.
LEMMA S3PutReturnsStep ==
  ASSUME OneCaller, S3Inv, NEW t \in Tasks, S3!PutReturns(t)
  PROVE  S3Goal
<1>1. /\ task[t].stage = "put" /\ task[t].ran = "yes" /\ buffer' = S3!NoFile
      /\ store' = store /\ given' = given /\ abandoned' = abandoned
      /\ stats' = [stats EXCEPT !.file_index = stats.file_index + 1,
                                !.uploaded = stats.uploaded + Len(buffer.rows),
                                !.last_error = FALSE]
  BY DEF S3!PutReturns
<1>2. /\ task[t] \in S3Call /\ task \in [Tasks -> S3Call] /\ buffer \in S3File
      /\ stats \in S3Stats /\ accepted \subseteq Nat /\ abandoned \subseteq S3File
  BY DEF S3Inv, S3Types
<1>3. stats' \in S3Stats
  <2>1. stats.file_index + 1 \in Nat /\ stats.uploaded + Len(buffer.rows) \in Nat
    <3>1. stats.file_index \in Nat /\ stats.uploaded \in Nat
      BY <1>2 DEF S3Stats
    <3>2. buffer.rows \in Seq(Nat)
      BY <1>2 DEF S3File
    <3>3. Len(buffer.rows) \in Nat
      BY <3>2
    <3> QED
      BY <3>1, <3>3
  <2> QED
    BY <1>1, <1>2, <2>1 DEF S3Stats
<1>4. /\ accepted \subseteq S3!Durable \cup ToSet(buffer.rows)
      /\ settled \subseteq accepted \cap S3!Durable
  BY S3SameSet DEF S3Inv, S3Kept, S3!RowsKept
<1>5. S3Progress(task[t], accepted, S3!Durable, ToSet(buffer.rows))
  BY DEF S3Inv, S3Calls
<1>6. ToSet(buffer.rows) \subseteq S3!Durable /\ accepted \subseteq S3!Durable
  BY <1>1, <1>4, <1>5 DEF S3Progress
<1>7. task[t].call \in {"write", "close"}
  BY <1>1, <1>2, <1>5 DEF S3Progress, S3Call
<1>8. client = "open" /\ settled = {}
  BY <1>1, S3IdleCall DEF S3Inv, S3Kept
<1>9. CASE task[t].call = "close"
  <2>1. /\ task' = [task EXCEPT ![t] = S3!Idle] /\ accepted' = accepted \cup task[t].own
        /\ settled' = settled \cup task[t].promise /\ client' = "closed"
    BY <1>9 DEF S3!PutReturns, S3!Returns
  <2>2. task[t].own = {} /\ task[t].promise \subseteq accepted
    BY <1>5, <1>9 DEF S3Progress
  <2>3. accepted' = accepted
    BY <2>1, <2>2
  <2>4. /\ accepted' \subseteq Nat /\ accepted \subseteq accepted'
        /\ accepted' \subseteq S3!Durable \cup ToSet(buffer'.rows)
        /\ settled \subseteq settled' /\ settled' \subseteq accepted' \cap S3!Durable
        /\ client' \in {"open", "closed"}
    BY <1>2, <1>4, <1>6, <2>1, <2>2, <2>3
  <2>5. /\ buffer' \in S3File
        /\ buffer'.state = "none" => buffer'.rows = <<>>
        /\ client' = "open" => settled' = {}
    BY <1>1, <2>1, S3NoFile
  <2>6. abandoned' \subseteq S3File
    BY <1>1, <1>2
  <2> QED
    BY <1>1, <1>3, <2>1, <2>4, <2>5, <2>6, S3EndStep
<1>10. CASE task[t].call = "write"
  <2> DEFINE d == [task[t] EXCEPT !.stage = "write"]
  <2>1. /\ task' = [task EXCEPT ![t].stage = "write"] /\ client' = client
        /\ accepted' = accepted /\ settled' = settled
    BY <1>10 DEF S3!PutReturns
  <2>2. task' = [task EXCEPT ![t] = d]
    BY <1>2, <2>1
  <2>3. /\ d \in S3Call /\ d.stage = "write" /\ d.call = task[t].call
        /\ d.own = task[t].own /\ d.todo = task[t].todo /\ d.promise = task[t].promise
    BY <1>2 DEF S3Call
  <2> HIDE DEF d
  <2>4. S3!Durable' = S3!Durable
    BY <1>1, S3SameStore
  <2>5. task' \in [Tasks -> S3Call] /\ task'[t] = d
    BY <1>2, <2>2, <2>3
  <2>6. S3Types'
    BY <1>1, <1>3, <2>1, <2>5, S3NoFile DEF S3Inv, S3Types
  <2>7. S3Progress(d, accepted, S3!Durable, ToSet(<<>>))
    BY <1>5, <1>6, <1>10, <2>3 DEF S3Progress
  <2>8. S3Calls'
    BY <1>1, <2>1, <2>4, <2>5, <2>7, S3NoFile, S3OnlyCall
  <2>9. S3!RowsKept'
    BY <1>6, <2>1, <2>4 DEF S3!RowsKept
  <2>10. buffer'.rows = <<>>
    BY <1>1, S3NoFile
  <2>11. S3Kept'
    BY <1>4, <1>8, <2>1, <2>4, <2>9, <2>10 DEF S3Kept
  <2> QED
    BY <2>1, <2>4, <2>6, <2>8, <2>11 DEF S3Goal, S3Inv
<1> QED
  BY <1>7, <1>9, <1>10

\* put_object() raises: the file stays active, whatever became of the upload.
LEMMA S3PutFailsStep ==
  ASSUME OneCaller, S3Inv, NEW t \in Tasks, S3!PutFails(t)
  PROVE  S3Goal
<1>1. /\ S3!Raises(t) /\ client' = client /\ buffer' = buffer /\ store' = store /\ given' = given
      /\ stats' = [stats EXCEPT !.last_error = TRUE]
      /\ abandoned' = abandoned \/ abandoned' = abandoned \cup {buffer}
  BY DEF S3!PutFails
<1>2. buffer \in S3File /\ stats \in S3Stats /\ abandoned \subseteq S3File
  BY DEF S3Inv, S3Types
<1>3. stats' \in S3Stats
  BY <1>1, <1>2 DEF S3Stats
<1>4. abandoned' \subseteq S3File
  BY <1>1, <1>2
<1> QED
  BY <1>1, <1>3, <1>4, S3RaiseStep

\* An upload whose caller has given up runs late: it can only add an object.
LEMMA S3RunLateStep ==
  ASSUME OneCaller, S3Inv, NEW f \in abandoned, S3!RunLate(f)
  PROVE  S3Goal
<1>1. /\ S3!Put(f) /\ abandoned' = abandoned \ {f} /\ client' = client /\ task' = task
      /\ buffer' = buffer /\ stats' = stats /\ given' = given /\ accepted' = accepted
      /\ settled' = settled
  BY DEF S3!RunLate
<1>2. f \in S3File /\ store \in Seq(S3Object)
  BY DEF S3Inv, S3Types
<1>3. store' \in Seq(S3Object) /\ S3!Durable \subseteq S3!Durable'
  BY <1>1, <1>2, S3PutFacts
<1>4. S3Types'
  BY <1>1, <1>3 DEF S3Inv, S3Types
<1>5. S3Calls'
  BY <1>1, <1>3 DEF S3Inv, S3Calls, S3Progress
<1>6. S3Kept'
  BY <1>1, <1>3 DEF S3Inv, S3Kept, S3!RowsKept
<1> QED
  BY <1>1, <1>3, <1>4, <1>5, <1>6 DEF S3Goal, S3Inv

\* The process dies before it has closed the sink: nothing was settled yet.
LEMMA S3CrashStep ==
  ASSUME OneCaller, S3Inv, S3!Crash
  PROVE  S3Goal
<1>1. /\ client = "open" /\ client' = client /\ task' = [t \in Tasks |-> S3!Idle]
      /\ buffer' = S3!NoFile /\ given' = 0 /\ accepted' = {} /\ store' = store
      /\ settled' = settled /\ abandoned' = abandoned
  BY DEF S3!Crash
<1>2. S3!Durable' = S3!Durable
  BY <1>1, S3SameStore
<1>3. stats' \in S3Stats
  <2>1. PICK run \in {stats.run_id, stats.run_id + 1} : stats' = S3!Started(run, stats.restarts + 1)
    BY DEF S3!Crash
  <2>2. stats.run_id \in Nat /\ stats.restarts \in Nat
    BY DEF S3Inv, S3Types, S3Stats
  <2>3. run \in Nat /\ stats.restarts + 1 \in Nat
    BY <2>1, <2>2
  <2> QED
    BY <2>1, <2>3 DEF S3!Started, S3Stats
<1>4. S3Types'
  BY <1>1, <1>3, S3IdleCall, S3NoFile DEF S3Inv, S3Types
<1>5. S3Calls'
  BY <1>1, S3IdleProgress DEF S3Calls
<1>6. S3Kept'
  <2>1. settled' = {} /\ buffer'.rows = <<>> /\ client' = "open"
    BY <1>1, S3NoFile DEF S3Inv, S3Kept
  <2>2. S3!RowsKept'
    BY <1>1 DEF S3!RowsKept
  <2> QED
    BY <2>1, <2>2 DEF S3Kept
<1> QED
  BY <1>1, <1>2, <1>4, <1>5, <1>6 DEF S3Goal, S3Inv

LEMMA S3InitInv == S3!Init => S3Inv
<1> SUFFICES ASSUME S3!Init PROVE S3Inv
  OBVIOUS
<1>1. /\ client = "open" /\ task = [t \in Tasks |-> S3!Idle] /\ buffer = S3!NoFile /\ store = <<>>
      /\ stats = S3!Started(1, 0) /\ given = 0 /\ accepted = {} /\ settled = {} /\ abandoned = {}
  BY DEF S3!Init
<1>2. stats \in S3Stats /\ store \in Seq(S3Object)
  BY <1>1 DEF S3!Started, S3Stats
<1>3. S3Types
  BY <1>1, <1>2, S3IdleCall, S3NoFile DEF S3Types
<1>4. S3Calls
  BY <1>1, S3IdleProgress DEF S3Calls
<1>5. S3Kept
  BY <1>1, S3NoFile DEF S3Kept, S3!RowsKept
<1> QED
  BY <1>3, <1>4, <1>5 DEF S3Inv

LEMMA S3Step ==
  ASSUME OneCaller, S3Inv, [S3!Next]_S3!vars
  PROVE  S3Goal
<1>1. CASE UNCHANGED S3!vars
  <2>1. /\ client' = client /\ task' = task /\ buffer' = buffer /\ store' = store /\ stats' = stats
        /\ given' = given /\ accepted' = accepted /\ settled' = settled /\ abandoned' = abandoned
    BY <1>1 DEF S3!vars
  <2>2. S3!Durable' = S3!Durable
    BY <2>1, S3SameStore
  <2>3. S3Types' /\ S3Calls' /\ S3Kept'
    BY <2>1, <2>2 DEF S3Inv, S3Types, S3Calls, S3Kept, S3!RowsKept
  <2> QED
    BY <2>1, <2>2, <2>3 DEF S3Goal, S3Inv
<1> QED
  BY <1>1, S3WriteStep, S3FlushOrCloseStep, S3WriteRecordStep, S3RunPutStep, S3PutReturnsStep,
     S3PutFailsStep, S3RunLateStep, S3CrashStep DEF S3!Next

LEMMA S3Invariance == ASSUME OneCaller PROVE S3!Spec => []S3Inv
<1>1. S3Inv /\ [S3!Next]_S3!vars => S3Inv'
  BY S3Step DEF S3Goal
<1> QED
  BY <1>1, S3InitInv, PTL DEF S3!Spec

\* No record is lost (S3Sink.write, finalize_active_file): one that was accepted is in an
\* object or in the active file, through failed, refused and late uploads, for one caller.
THEOREM S3NoRowLost == ASSUME OneCaller PROVE S3!Spec => []S3!RowsKept
<1>1. S3Inv => S3!RowsKept
  BY DEF S3Inv, S3Kept
<1> QED
  BY <1>1, S3Invariance, PTL

\* S3Sink keeps the contract of a sink: what close() has answered for is in objects of the
\* bucket, and no retry, late upload, conditional PUT or restart takes it away.
THEOREM S3SinkImplementsContract == ASSUME OneCaller PROVE S3!Spec => S3Contract!Spec
<1>1. S3!Init => S3Contract!Init
  <2> SUFFICES ASSUME S3!Init PROVE S3Contract!Init
    OBVIOUS
  <2>1. accepted = {} /\ settled = {} /\ store = <<>>
    BY DEF S3!Init
  <2>2. S3!Durable = {}
    BY <2>1 DEF S3!Durable
  <2> QED
    BY <2>1, <2>2 DEF S3Contract!Init
<1>2. S3Inv /\ [S3!Next]_S3!vars => [S3Contract!Step]_S3Contract!vars
  <2> SUFFICES ASSUME S3Inv, [S3!Next]_S3!vars PROVE S3Contract!Step
    OBVIOUS
  <2>1. S3!Durable \subseteq S3!Durable' /\ settled \subseteq settled' /\ S3Kept'
    BY S3Step DEF S3Goal, S3Inv
  <2> QED
    BY <2>1 DEF S3Kept, S3Contract!Step
<1> QED
  BY <1>1, <1>2, S3Invariance, PTL DEF S3!Spec, S3Contract!Spec

-----------------------------------------------------------------------------
(* StorageWriteSink. The inductive invariant accounts for every row: those of  *)
(* a request that has run are in the table, and a row is in the table, in the  *)
(* buffer or dropped. As long as flushes do not overlap, the rows of a flush   *)
(* that are not confirmed are the front of the buffer, and none is dropped.    *)

SW == INSTANCE StorageWriteSink
SwContract == INSTANCE DurableSink WITH durable <- SW!Durable, excused <- SW!Excused

SwCall == [call : {"idle", "write", "flush", "close"}, own : SUBSET Records, promise : SUBSET Records,
           stage : {"idle", "open", "append"}, rows : Seq(Records), ran : BOOLEAN]
SwJob == [id : Nat, batch : Seq(Records), ran : BOOLEAN]
SwStats == [flushed : BOOLEAN, failed : BOOLEAN, appended : Nat,
            last_append_succeeded : {"none", "yes", "no"}, last_error : BOOLEAN]

SwTypes ==
    /\ task \in [Tasks -> SwCall]
    /\ buffer \in Seq(Records) /\ store \in Seq(Records)
    /\ stats \in SwStats
    /\ given \in 0..End /\ faults \in Nat
    /\ abandoned \subseteq SwJob
    /\ overlapped \in BOOLEAN
    /\ \A t \in Tasks : task[t].stage # "append" => task[t].ran = FALSE
    /\ \A t \in Tasks : task[t].stage # "idle" => task[t].call # "idle"
    /\ \A t \in Tasks : task[t].stage = "append" => task[t].rows # <<>>

\* A call promises what was accepted when it began, and only that is ever settled.
SwHistory ==
    /\ settled \subseteq accepted
    /\ accepted \subseteq 1..given
    /\ \A t \in Tasks : task[t].promise \subseteq accepted /\ task[t].own \subseteq 1..given

\* The rows of the request that has run are in the table; what the flush promises is there,
\* among the rows it has not confirmed, or dropped.
SwSending(x) ==
    /\ x.ran => ToSet(SW!Request(x.rows)) \subseteq ToSet(store)
    /\ x.promise \subseteq ToSet(store) \cup ToSet(x.rows) \cup dropped

SwAccounted ==
    /\ \A t \in Tasks : task[t].stage = "append" => SwSending(task[t])
    /\ 1..given \subseteq ToSet(store) \cup ToSet(buffer) \cup dropped
    /\ settled \subseteq ToSet(store) \cup dropped

\* The rows a flush has not confirmed are the front of the buffer.
SwFront(x) ==
    /\ x.rows # <<>> /\ Len(x.rows) <= Len(buffer)
    /\ \A i \in 1..Len(x.rows) : buffer[i] = x.rows[i]

SwKept ==
    /\ \A t, u \in Tasks : task[t].stage = "append" /\ task[u].stage = "append" => t = u
    /\ \A t \in Tasks : task[t].stage = "append" => SwFront(task[t])
    /\ dropped = {}

\* As long as no append has failed, the table holds the rows that were appended, and those
\* of the request that has run, in order; the buffer holds the others.
SwExact ==
    /\ abandoned = {}
    /\ stats.appended <= given
    /\ Len(buffer) = given - stats.appended
    /\ \A i \in 1..Len(buffer) : buffer[i] = stats.appended + i
    /\ \A i \in 1..Len(store) : store[i] = i
    /\ (\A t \in Tasks : task[t].stage = "append" => ~task[t].ran) => Len(store) = stats.appended
    /\ \A t \in Tasks : task[t].stage = "append" /\ task[t].ran =>
           Len(store) = stats.appended + Len(SW!Request(task[t].rows))

SwInv ==
    /\ SwTypes /\ SwHistory /\ SwAccounted
    /\ ~overlapped => SwKept
    /\ ~overlapped /\ ~stats.failed => SwExact

LEMMA SwSameSet == \A s : SW!ToSet(s) = ToSet(s)
  BY DEF SW!ToSet, ToSet

LEMMA SwSameRecords == SW!Records = Records
  BY DEF SW!Records, Records

\* A call that does not change keeps its request.
LEMMA SwSameRequest ==
  ASSUME NEW u \in Tasks, task'[u] = task[u], config' = config
  PROVE  SW!Request(task[u].rows)' = SW!Request(task[u].rows)
BY DEF SW!Request, SW!Size

\* A request takes at least one of the rows that are left, and no more than there are.
LEMMA SwRequestFacts ==
  ASSUME NEW rows \in Seq(Records), rows # <<>>
  PROVE  /\ Len(SW!Request(rows)) \in 1..Len(rows) /\ SW!Request(rows) \in Seq(Records)
         /\ \A i \in 1..Len(SW!Request(rows)) : SW!Request(rows)[i] = rows[i]
<1> DEFINE S == {n \in 1..Len(rows) : SW!Size(rows, n) <= config.max_request}
           fit == SW!Cardinality(S)
           k == IF fit = 0 THEN 1 ELSE fit
<1>1. Len(rows) \in Nat /\ Len(rows) >= 1
  OBVIOUS
<1>2. fit \in 0..Len(rows)
  <2>1. /\ IsFiniteSet(1..Len(rows))
        /\ Cardinality(1..Len(rows)) = (IF 1 > Len(rows) THEN 0 ELSE Len(rows) - 1 + 1)
    BY <1>1, FS_Interval
  <2>2. S \subseteq 1..Len(rows)
    OBVIOUS
  <2> HIDE DEF S
  <2>3. Cardinality(S) <= Cardinality(1..Len(rows)) /\ IsFiniteSet(S)
    BY <2>1, <2>2, FS_Subset
  <2>4. Cardinality(S) \in Nat
    BY <2>3, FS_CardinalityType
  <2>5. Cardinality(1..Len(rows)) = Len(rows)
    BY <1>1, <2>1
  <2>6. SW!Cardinality(S) = Cardinality(S)
    BY DEF SW!Cardinality, Cardinality
  <2> QED
    BY <1>1, <2>3, <2>4, <2>5, <2>6
<1> HIDE DEF fit
<1>3. k \in 1..Len(rows)
  BY <1>1, <1>2
<1>4. SW!Request(rows) = SubSeq(rows, 1, k)
  BY DEF SW!Request, fit
<1> HIDE DEF k
<1>5. /\ SubSeq(rows, 1, k) \in Seq(Records) /\ Len(SubSeq(rows, 1, k)) = k
      /\ \A i \in 1..k : SubSeq(rows, 1, k)[i] = rows[i]
  BY <1>1, <1>3
<1> QED
  BY <1>3, <1>4, <1>5

-----------------------------------------------------------------------------
(* Calls.                                                                    *)

SwBegun(c, rows) == [c EXCEPT !.stage = "append", !.rows = rows]
SwOpening(c) == [c EXCEPT !.stage = "open"]
SwWriteCall(o) == [SW!Idle EXCEPT !.call = "write", !.own = o]
SwEndings == {"flush", "close"}
SwFlushCall(m, q) == [SW!Idle EXCEPT !.call = m, !.promise = q]

LEMMA SwIdleCall ==
  /\ SW!Idle \in SwCall /\ SW!Idle.stage = "idle" /\ SW!Idle.ran = FALSE
  /\ SW!Idle.own = {} /\ SW!Idle.promise = {}
<1>1. <<>> \in Seq(Records) /\ {} \in SUBSET Records
  OBVIOUS
<1> QED
  BY <1>1 DEF SW!Idle, SwCall

LEMMA SwBegunFacts ==
  ASSUME NEW c \in SwCall, NEW rows \in Seq(Records)
  PROVE  /\ SwBegun(c, rows) \in SwCall /\ SwBegun(c, rows).stage = "append"
         /\ SwBegun(c, rows).rows = rows /\ SwBegun(c, rows).promise = c.promise
         /\ SwBegun(c, rows).own = c.own /\ SwBegun(c, rows).ran = c.ran /\ SwBegun(c, rows).call = c.call
         /\ SwOpening(c) \in SwCall /\ SwOpening(c).stage = "open"
         /\ SwOpening(c).promise = c.promise /\ SwOpening(c).own = c.own /\ SwOpening(c).ran = c.ran
         /\ SwOpening(c).call = c.call
<1>1. SwBegun(c, rows) \in SwCall /\ SwOpening(c) \in SwCall
  BY DEF SwCall, SwBegun, SwOpening
<1>2. /\ SwBegun(c, rows).stage = "append" /\ SwBegun(c, rows).rows = rows
      /\ SwBegun(c, rows).promise = c.promise /\ SwBegun(c, rows).own = c.own
      /\ SwBegun(c, rows).ran = c.ran /\ SwBegun(c, rows).call = c.call
  BY DEF SwCall, SwBegun
<1>3. /\ SwOpening(c).stage = "open" /\ SwOpening(c).promise = c.promise /\ SwOpening(c).own = c.own
      /\ SwOpening(c).ran = c.ran /\ SwOpening(c).call = c.call
  BY DEF SwCall, SwOpening
<1> QED
  BY <1>1, <1>2, <1>3

LEMMA SwWriteCallFacts ==
  ASSUME NEW o \in SUBSET Records
  PROVE  /\ SwWriteCall(o) \in SwCall /\ SwWriteCall(o).own = o /\ SwWriteCall(o).promise = {}
         /\ SwWriteCall(o).ran = FALSE /\ SwWriteCall(o).call = "write"
<1>1. SwWriteCall(o) \in SwCall
  BY SwIdleCall DEF SwWriteCall, SwCall
<1>2. /\ SwWriteCall(o).own = o /\ SwWriteCall(o).promise = SW!Idle.promise
      /\ SwWriteCall(o).ran = SW!Idle.ran /\ SwWriteCall(o).call = "write"
  BY SwIdleCall DEF SwWriteCall, SwCall
<1> QED
  BY <1>1, <1>2, SwIdleCall

SwPromises(c, m, q) ==
    c \in SwCall /\ c.own = {} /\ c.promise = q /\ c.ran = FALSE /\ c.call = m

LEMMA SwFlushCallFacts ==
  ASSUME NEW m \in SwEndings, NEW q \in SUBSET Records
  PROVE  SwPromises(SwFlushCall(m, q), m, q)
<1>1. SwFlushCall(m, q) \in SwCall
  BY SwIdleCall DEF SwFlushCall, SwCall, SwEndings
<1>2. /\ SwFlushCall(m, q).own = SW!Idle.own /\ SwFlushCall(m, q).promise = q
      /\ SwFlushCall(m, q).ran = SW!Idle.ran /\ SwFlushCall(m, q).call = m
  BY SwIdleCall DEF SwFlushCall, SwCall
<1> QED
  BY <1>1, <1>2, SwIdleCall DEF SwPromises

SwError(s) == [s EXCEPT !.failed = TRUE, !.last_append_succeeded = "no", !.last_error = TRUE]
SwCounted(s, n) == [s EXCEPT !.flushed = TRUE, !.appended = s.appended + n,
                             !.last_append_succeeded = "yes", !.last_error = FALSE]

LEMMA SwStatsFacts ==
  ASSUME NEW s \in SwStats, NEW n \in Nat
  PROVE  /\ SwError(s) \in SwStats /\ SwError(s).failed
         /\ SwCounted(s, n) \in SwStats /\ SwCounted(s, n).appended = s.appended + n
         /\ SwCounted(s, n).failed = s.failed
<1>1. SwError(s).failed = TRUE
  BY DEF SwStats, SwError
<1>2. SwError(s) \in SwStats
  BY DEF SwStats, SwError
<1>3. SwCounted(s, n).appended = s.appended + n /\ SwCounted(s, n).failed = s.failed
  BY DEF SwStats, SwCounted
<1>4. SwCounted(s, n) \in SwStats
  <2> DEFINE m == s.appended + n
  <2>1. m \in Nat
    BY DEF SwStats
  <2> HIDE DEF m
  <2>2. [s EXCEPT !.flushed = TRUE, !.appended = m, !.last_append_succeeded = "yes",
                  !.last_error = FALSE] \in SwStats
    BY <2>1 DEF SwStats
  <2> QED
    BY <2>2 DEF SwCounted, m
<1> QED
  BY <1>1, <1>2, <1>3, <1>4

\* One task goes on, the others stay.
SwOne(t) == /\ task' \in [Tasks -> SwCall]
            /\ \A u \in Tasks : u # t => task'[u] = task[u]

LEMMA SwOneTask ==
  ASSUME SwTypes, NEW t \in Tasks, NEW x \in SwCall, task' = [task EXCEPT ![t] = x]
  PROVE  SwOne(t) /\ task'[t] = x
  BY DEF SwTypes, SwOne

-----------------------------------------------------------------------------
(* Calls that begin, or go on after the stream is open.                      *)

\* The call c of task t returns, raises, sends its first request or opens the stream.
SwBranch(t, c, rows) ==
    \/ /\ c.promise = {} \/ rows = <<>>
       /\ task'[t] = SW!Idle /\ accepted' = accepted \cup c.own /\ settled' = settled \cup c.promise
       /\ stats' = stats /\ overlapped' = overlapped
    \/ /\ task'[t] = SW!Idle /\ accepted' = accepted /\ settled' = settled
       /\ stats' = SwError(stats) /\ overlapped' = overlapped
    \/ /\ rows # <<>> /\ task'[t] = SwBegun(c, rows)
       /\ overlapped' = (overlapped \/ \E u \in Tasks \ {t} : SW!Flushing(u))
       /\ accepted' = accepted /\ settled' = settled /\ stats' = stats
    \/ /\ task'[t] = SwOpening(c)
       /\ overlapped' = overlapped
       /\ accepted' = accepted /\ settled' = settled /\ stats' = stats

\* It leaves the rows in the buffer, of g records handed over.
SwEnters(t, c, rows, g) ==
    /\ task[t].stage # "append" /\ c.ran = FALSE /\ c.call # "idle"
    /\ c.promise \subseteq accepted /\ c.own \subseteq 1..g
    /\ given <= g /\ given' = g /\ buffer' = rows /\ NewRows(rows, g)
    /\ store' = store /\ abandoned' = abandoned /\ faults' \in Nat /\ config' = config
    /\ dropped' = dropped
    /\ SwOne(t) /\ SwBranch(t, c, rows)

\* What all four have in common.
LEMMA SwEntersFacts ==
  ASSUME End \in Nat, SwInv, NEW t \in Tasks, NEW c \in SwCall, NEW rows \in Seq(Records),
         NEW g \in 0..End, SwEnters(t, c, rows, g)
  PROVE  /\ accepted \subseteq accepted' /\ accepted' \subseteq accepted \cup c.own
         /\ settled' \subseteq settled \cup c.promise
         /\ overlapped' \in BOOLEAN /\ (overlapped => overlapped')
         /\ stats' \in SwStats /\ (stats'.failed \/ stats' = stats)
         /\ task'[t].promise \subseteq c.promise /\ task'[t].own \subseteq c.own
         /\ \/ task'[t].stage # "append"
            \/ /\ task'[t].stage = "append" /\ task'[t].rows = rows /\ task'[t].ran = FALSE /\ rows # <<>>
               /\ (~overlapped' => \A u \in Tasks : task[u].stage # "append")
         /\ settled' = settled \/ (settled' = settled \cup c.promise /\ rows = <<>>)
         /\ task'[t].ran = FALSE /\ (task'[t].stage # "idle" => task'[t].call # "idle")
<1>0. c.ran = FALSE /\ c.call # "idle"
  BY DEF SwEnters
<1>1. stats \in SwStats /\ overlapped \in BOOLEAN /\ 0 \in Nat
  BY DEF SwInv, SwTypes
<1>2. /\ SwError(stats) \in SwStats /\ SwError(stats).failed
  BY <1>1, SwStatsFacts
<1>3. CASE /\ c.promise = {} \/ rows = <<>>
           /\ task'[t] = SW!Idle /\ accepted' = accepted \cup c.own /\ settled' = settled \cup c.promise
           /\ stats' = stats /\ overlapped' = overlapped
  <2>1. /\ task'[t].stage # "append" /\ task'[t].promise \subseteq c.promise /\ task'[t].own \subseteq c.own
        /\ task'[t].ran = FALSE /\ task'[t].stage = "idle"
    BY <1>3, SwIdleCall
  <2>2. settled' = settled \/ (settled' = settled \cup c.promise /\ rows = <<>>)
    BY <1>3
  <2> QED
    BY <1>1, <1>3, <2>1, <2>2
<1>4. CASE /\ task'[t] = SW!Idle /\ accepted' = accepted /\ settled' = settled
           /\ stats' = SwError(stats) /\ overlapped' = overlapped
  <2>1. /\ task'[t].stage # "append" /\ task'[t].promise \subseteq c.promise /\ task'[t].own \subseteq c.own
        /\ task'[t].ran = FALSE /\ task'[t].stage = "idle"
    BY <1>4, SwIdleCall
  <2>2. stats' \in SwStats /\ stats'.failed
    BY <1>2, <1>4
  <2> QED
    BY <1>1, <1>4, <2>1, <2>2
<1>5. CASE /\ rows # <<>> /\ task'[t] = SwBegun(c, rows)
           /\ overlapped' = (overlapped \/ \E u \in Tasks \ {t} : SW!Flushing(u))
           /\ accepted' = accepted /\ settled' = settled /\ stats' = stats
  <2>1. /\ task'[t].stage = "append" /\ task'[t].rows = rows /\ task'[t].promise = c.promise
        /\ task'[t].own = c.own /\ task'[t].ran = FALSE /\ task'[t].call # "idle"
    <3>1. task'[t] = SwBegun(c, rows)
      BY <1>5
    <3>2. /\ SwBegun(c, rows).stage = "append" /\ SwBegun(c, rows).rows = rows
          /\ SwBegun(c, rows).promise = c.promise
          /\ SwBegun(c, rows).own = c.own /\ SwBegun(c, rows).ran = c.ran /\ SwBegun(c, rows).call = c.call
      BY SwBegunFacts
    <3> QED
      BY <1>0, <3>1, <3>2
  <2>2. overlapped' \in BOOLEAN /\ (overlapped => overlapped')
    BY <1>1, <1>5
  <2>3. ~overlapped' => \A u \in Tasks : task[u].stage # "append"
    BY <1>5 DEF SW!Flushing, SwEnters
  <2>4. c.ran = FALSE
    BY DEF SwEnters
  <2> QED
    BY <1>1, <1>5, <2>1, <2>2, <2>3, <2>4
<1>6. CASE /\ task'[t] = SwOpening(c) /\ overlapped' = overlapped
           /\ accepted' = accepted /\ settled' = settled /\ stats' = stats
  <2>1. /\ task'[t].stage = "open" /\ task'[t].promise = c.promise /\ task'[t].own = c.own
        /\ task'[t].ran = FALSE /\ task'[t].call # "idle"
    BY <1>0, <1>6, SwBegunFacts
  <2> QED
    BY <1>1, <1>6, <2>1
<1> QED
  BY <1>3, <1>4, <1>5, <1>6 DEF SwEnters, SwBranch

LEMMA SwEntersInv ==
  ASSUME End \in Nat, SwInv, NEW t \in Tasks, NEW c \in SwCall, NEW rows \in Seq(Records),
         NEW g \in 0..End, SwEnters(t, c, rows, g)
  PROVE  SwInv'
<1>1. /\ task[t].stage # "append" /\ c.promise \subseteq accepted /\ c.own \subseteq 1..g
      /\ given <= g /\ given' = g /\ buffer' = rows /\ NewRows(rows, g)
      /\ store' = store /\ abandoned' = abandoned /\ faults' \in Nat /\ config' = config
      /\ dropped' = dropped
      /\ task' \in [Tasks -> SwCall] /\ \A u \in Tasks : u # t => task'[u] = task[u]
  BY DEF SwEnters, SwOne
<1>2. /\ accepted \subseteq accepted' /\ accepted' \subseteq accepted \cup c.own
      /\ settled' \subseteq settled \cup c.promise
      /\ overlapped' \in BOOLEAN /\ (overlapped => overlapped')
      /\ stats' \in SwStats /\ (stats'.failed \/ stats' = stats)
      /\ task'[t].promise \subseteq c.promise /\ task'[t].own \subseteq c.own
      /\ \/ task'[t].stage # "append"
         \/ /\ task'[t].stage = "append" /\ task'[t].rows = rows /\ task'[t].ran = FALSE /\ rows # <<>>
            /\ (~overlapped' => \A u \in Tasks : task[u].stage # "append")
      /\ settled' = settled \/ (settled' = settled \cup c.promise /\ rows = <<>>)
      /\ task'[t].ran = FALSE /\ (task'[t].stage # "idle" => task'[t].call # "idle")
  BY SwEntersFacts
<1>3. given \in Nat /\ g \in Nat /\ buffer \in Seq(Records) /\ Len(buffer) \in Nat /\ Len(rows) \in Nat
  BY DEF SwInv, SwTypes
<1>4. /\ Len(rows) = Len(buffer) + (g - given)
      /\ \A i \in 1..Len(buffer) : rows[i] = buffer[i]
      /\ \A i \in 1..(g - given) : rows[Len(buffer) + i] = given + i
      /\ ToSet(rows) = ToSet(buffer) \cup (given + 1)..g
  BY <1>1 DEF NewRows
<1>5. SwTypes'
  <2>1. \A u \in Tasks : /\ task'[u].stage # "append" => task'[u].ran = FALSE
                         /\ task'[u].stage # "idle" => task'[u].call # "idle"
                         /\ task'[u].stage = "append" => task'[u].rows # <<>>
    BY <1>1, <1>2 DEF SwInv, SwTypes
  <2> QED
    BY <1>1, <1>2, <2>1 DEF SwInv, SwTypes
<1>6. SwHistory'
  <2>1. settled \subseteq accepted /\ accepted \subseteq 1..given /\ 1..given \subseteq 1..g
    BY <1>1, <1>3 DEF SwInv, SwHistory
  <2>2. \A u \in Tasks : task'[u].promise \subseteq accepted' /\ task'[u].own \subseteq 1..g
    <3> TAKE u \in Tasks
    <3>1. CASE u = t
      BY <1>1, <1>2, <3>1
    <3>2. CASE u # t
      BY <1>1, <1>2, <2>1, <3>2 DEF SwInv, SwHistory
    <3> QED
      BY <3>1, <3>2
  <2> QED
    BY <1>1, <1>2, <2>1, <2>2 DEF SwHistory
<1>7. SwAccounted'
  <2>1. SwAccounted /\ SwHistory
    BY DEF SwInv
  <2>2. 1..given' \subseteq ToSet(store)' \cup ToSet(buffer)' \cup dropped'
    <3>1. 1..g \subseteq 1..given \cup (given + 1)..g
      BY <1>1, <1>3
    <3> QED
      BY <1>1, <1>4, <2>1, <3>1 DEF SwAccounted
  <2>3. c.promise \subseteq ToSet(store) \cup ToSet(rows) \cup dropped
    BY <1>1, <1>4, <2>1 DEF SwAccounted, SwHistory
  <2>4. settled' \subseteq ToSet(store)' \cup dropped'
    <3>1. rows = <<>> => ToSet(rows) = {}
      BY DEF ToSet
    <3> QED
      BY <1>1, <1>2, <2>1, <2>3, <3>1 DEF SwAccounted
  <2>5. ASSUME NEW u \in Tasks, task'[u].stage = "append" PROVE SwSending(task[u])'
    <3>1. CASE u = t
      <4>1. task'[t].rows = rows /\ task'[t].ran = FALSE /\ task'[t].promise \subseteq c.promise
        BY <1>2, <2>5, <3>1
      <4> QED
        BY <1>1, <2>3, <3>1, <4>1 DEF SwSending
    <3>2. CASE u # t
      <4>1. task'[u] = task[u] /\ task[u].stage = "append"
        BY <1>1, <2>5, <3>2
      <4>2. SwSending(task[u])
        BY <2>1, <4>1 DEF SwAccounted
      <4>3. SW!Request(task[u].rows)' = SW!Request(task[u].rows)
        BY <1>1, <4>1 DEF SW!Request, SW!Size
      <4> QED
        BY <1>1, <4>1, <4>2, <4>3 DEF SwSending
    <3> QED
      BY <3>1, <3>2
  <2> QED
    BY <2>2, <2>4, <2>5 DEF SwAccounted
<1>8. ASSUME ~overlapped' PROVE SwKept'
  <2>1. SwKept
    BY <1>2, <1>8 DEF SwInv
  <2>5. ASSUME NEW u \in Tasks, task'[u].stage = "append" PROVE SwFront(task[u])'
    <3>1. CASE u = t
      <4>1. task'[t].rows = rows /\ rows # <<>>
        BY <1>2, <2>5, <3>1
      <4> QED
        BY <1>1, <1>3, <3>1, <4>1 DEF SwFront
    <3>2. CASE u # t
      <4>1. task'[u] = task[u] /\ task[u].stage = "append"
        BY <1>1, <2>5, <3>2
      <4>2. /\ task[u].rows # <<>> /\ Len(task[u].rows) <= Len(buffer)
            /\ \A i \in 1..Len(task[u].rows) : buffer[i] = task[u].rows[i]
        BY <2>1, <4>1 DEF SwKept, SwFront
      <4>3. task[u].rows \in Seq(Records) /\ Len(task[u].rows) \in Nat
        BY DEF SwInv, SwTypes, SwCall
      <4>4. Len(task[u].rows) <= Len(rows) /\ \A i \in 1..Len(task[u].rows) : rows[i] = task[u].rows[i]
        <5>1. Len(buffer) <= Len(rows) /\ 1..Len(task[u].rows) \subseteq 1..Len(buffer)
          BY <1>1, <1>3, <1>4, <4>2, <4>3
        <5> QED
          BY <1>3, <1>4, <4>2, <4>3, <5>1
      <4> QED
        BY <1>1, <4>1, <4>2, <4>4 DEF SwFront
    <3> QED
      BY <3>1, <3>2
  <2>6. ASSUME NEW u \in Tasks, NEW v \in Tasks, task'[u].stage = "append", task'[v].stage = "append"
        PROVE  u = v
    <3>1. CASE task'[t].stage # "append"
      BY <1>1, <2>1, <2>6, <3>1 DEF SwKept
    <3>2. CASE task'[t].stage = "append"
      <4>1. \A w \in Tasks : task[w].stage # "append"
        BY <1>2, <1>8, <3>2
      <4> QED
        BY <1>1, <2>6, <4>1
    <3> QED
      BY <3>1, <3>2
  <2> QED
    BY <1>1, <2>1, <2>5, <2>6 DEF SwKept
<1>9. ASSUME ~overlapped', ~stats'.failed PROVE SwExact'
  <2>1. SwExact /\ stats' = stats /\ stats.appended \in Nat
    BY <1>2, <1>9 DEF SwInv, SwTypes, SwStats
  <2> DEFINE a == stats.appended
  <2> HIDE DEF a
  <2>2. /\ a \in Nat /\ a <= given /\ Len(buffer) = given - a /\ \A i \in 1..Len(buffer) : buffer[i] = a + i
        /\ abandoned = {} /\ \A i \in 1..Len(store) : store[i] = i
        /\ (\A u \in Tasks : task[u].stage = "append" => ~task[u].ran) => Len(store) = a
        /\ \A u \in Tasks : task[u].stage = "append" /\ task[u].ran =>
               Len(store) = a + Len(SW!Request(task[u].rows))
    BY <2>1 DEF SwExact, a
  <2>3. a <= g /\ Len(rows) = g - a
    BY <1>1, <1>3, <1>4, <2>2
  <2>4. \A i \in 1..Len(rows) : rows[i] = a + i
    <3> TAKE i \in 1..Len(rows)
    <3>1. CASE i \in 1..Len(buffer)
      BY <1>4, <2>2, <3>1
    <3>2. CASE i \notin 1..Len(buffer)
      <4> DEFINE j == i - Len(buffer)
      <4>0. \A x, b, d, e, f \in Nat : x \in 1..(b + (d - e)) /\ x \notin 1..b /\ e <= d /\ f <= e /\ b = e - f =>
                x - b \in 1..(d - e) /\ x = b + (x - b) /\ e + (x - b) = f + x
        OBVIOUS
      <4>1. j \in 1..(g - given) /\ i = Len(buffer) + j /\ given + j = a + i
        <5>1. i \in Nat /\ i \in 1..(Len(buffer) + (g - given))
          BY <1>3, <1>4
        <5> QED
          BY <1>1, <1>3, <2>2, <3>2, <4>0, <5>1
      <4> HIDE DEF j
      <4> QED
        BY <1>4, <4>1
    <3> QED
      BY <3>1, <3>2
  <2>5. (\A u \in Tasks : task'[u].stage = "append" => ~task'[u].ran) => Len(store) = a
    <3> SUFFICES ASSUME \A u \in Tasks : task'[u].stage = "append" => ~task'[u].ran,
                        NEW u \in Tasks, task[u].stage = "append"
                 PROVE  ~task[u].ran
      BY <2>2
    <3> QED
      BY <1>1
  <2>6. ASSUME NEW u \in Tasks, task'[u].stage = "append", task'[u].ran
        PROVE  Len(store) = a + Len(SW!Request(task[u].rows)')
    <3>1. u # t
      BY <1>2, <2>6
    <3>2. task'[u] = task[u]
      BY <1>1, <3>1
    <3>3. SW!Request(task[u].rows)' = SW!Request(task[u].rows)
      BY <1>1, <3>2 DEF SW!Request, SW!Size
    <3> QED
      BY <2>2, <2>6, <3>2, <3>3
  <2> QED
    BY <1>1, <2>1, <2>2, <2>3, <2>4, <2>5, <2>6 DEF SwExact, a
<1> QED
  BY <1>5, <1>6, <1>7, <1>8, <1>9 DEF SwInv

\* flush() and the part of it after the stream is open are one of the four.
LEMMA SwFlushBranch ==
  ASSUME SwTypes, NEW t \in Tasks, NEW c \in SwCall, NEW rows \in Seq(Records),
         \/ SW!Flush(t, c, rows)
         \/ SW!BeginAppends(t, c, rows)
         \/ c.promise = {} /\ SW!Returns(t, c, client) /\ stats' = stats /\ overlapped' = overlapped
         \/ SW!Raises(t, c, client) /\ overlapped' = overlapped
  PROVE  SwOne(t) /\ SwBranch(t, c, rows)
<1>1. SW!Idle \in SwCall /\ SwBegun(c, rows) \in SwCall /\ SwOpening(c) \in SwCall
  BY SwIdleCall, SwBegunFacts
<1>2. ASSUME NEW s, SW!Returns(t, c, s), rows = <<>> \/ c.promise = {}, stats' = stats, overlapped' = overlapped
      PROVE  SwOne(t) /\ SwBranch(t, c, rows)
  BY <1>1, <1>2, SwOneTask DEF SW!Returns, SwBranch
<1>3. ASSUME NEW s, SW!Raises(t, c, s), overlapped' = overlapped
      PROVE  SwOne(t) /\ SwBranch(t, c, rows)
  BY <1>1, <1>3, SwOneTask DEF SW!Raises, SW!CountError, SwError, SwBranch
<1>4. ASSUME SW!BeginAppends(t, c, rows) PROVE SwOne(t) /\ SwBranch(t, c, rows)
  <2>1. CASE rows = <<>> /\ SW!Returns(t, c, "open") /\ stats' = stats /\ overlapped' = overlapped
    BY <1>2, <2>1
  <2>2. CASE SW!Raises(t, c, "open") /\ overlapped' = overlapped
    BY <1>3, <2>2
  <2>3. CASE /\ rows # <<>> /\ task' = [task EXCEPT ![t] = SwBegun(c, rows)]
             /\ overlapped' = (overlapped \/ \E u \in Tasks \ {t} : SW!Flushing(u))
             /\ accepted' = accepted /\ settled' = settled /\ stats' = stats
    <3>1. SwOne(t) /\ task'[t] = SwBegun(c, rows)
      BY <1>1, <2>3, SwOneTask
    <3> QED
      BY <2>3, <3>1 DEF SwBranch
  <2> QED
    BY <1>4, <2>1, <2>2, <2>3 DEF SW!BeginAppends, SwBegun
<1>5. ASSUME SW!Flush(t, c, rows) PROVE SwOne(t) /\ SwBranch(t, c, rows)
  <2>1. CASE rows = <<>> /\ SW!Returns(t, c, client) /\ stats' = stats /\ overlapped' = overlapped
    BY <1>2, <2>1
  <2>2. CASE /\ task' = [task EXCEPT ![t] = SwOpening(c)] /\ overlapped' = overlapped
             /\ accepted' = accepted /\ settled' = settled /\ stats' = stats
    <3>1. SwOne(t) /\ task'[t] = SwOpening(c)
      BY <1>1, <2>2, SwOneTask
    <3> QED
      BY <2>2, <3>1 DEF SwBranch
  <2> QED
    BY <1>4, <1>5, <2>1, <2>2 DEF SW!Flush, SwOpening
<1> QED
  BY <1>2, <1>3, <1>4, <1>5

SwEntering(t) ==
    \E c \in SwCall, rows \in Seq(Records), g \in 0..End : SwEnters(t, c, rows, g)

LEMMA SwWriteEnters ==
  ASSUME End \in Nat, SwInv, NEW t \in Tasks, NEW n \in 1..2, SW!Write(t, n)
  PROVE  SwEntering(t)
<1> DEFINE c == SwWriteCall((given + 1)..(given + n))
           r == [i \in 1..n |-> given + i]
           rows == buffer \o r
           g == given + n
<1>1. given \in Nat /\ g \in 0..End /\ given <= g /\ n \in Nat /\ faults \in Nat
  <2>1. given \in 0..End /\ faults \in Nat
    BY DEF SwInv, SwTypes
  <2>2. given + n <= End
    BY DEF SW!Write
  <2> QED
    BY <2>1, <2>2
<1>2. (given + 1)..g \subseteq Records /\ (given + 1)..g \subseteq 1..g
  BY <1>1 DEF Records
<1>3. c \in SwCall /\ c.ran = FALSE /\ c.call # "idle" /\ c.own = (given + 1)..g /\ c.promise = {}
  BY <1>2, SwWriteCallFacts
<1>4. r \in Seq(Records) /\ Len(r) = n /\ \A i \in 1..n : r[i] = given + i
  BY <1>1 DEF Records
<1>5. ToSet(r) = (given + 1)..g
  <2>1. DOMAIN r = 1..n
    OBVIOUS
  <2>2. ToSet(r) \subseteq (given + 1)..g
    BY <1>1, <1>4, <2>1 DEF ToSet
  <2>3. ASSUME NEW x \in (given + 1)..g PROVE x \in ToSet(r)
    <3>1. x - given \in 1..n /\ r[x - given] = x
      BY <1>1
    <3> HIDE DEF r
    <3> QED
      BY <2>1, <3>1 DEF ToSet
  <2> QED
    BY <2>2, <2>3
<1> HIDE DEF r
<1>6. buffer \in Seq(Records) /\ SwTypes
  BY DEF SwInv, SwTypes
<1>7. rows \in Seq(Records) /\ NewRows(rows, g)
  BY <1>1, <1>4, <1>5, <1>6, AppendRows DEF NewRows
<1>8. /\ ~SW!Busy(t) /\ given' = g /\ buffer' = rows
      /\ store' = store /\ abandoned' = abandoned /\ faults' = faults /\ config' = config
      /\ dropped' = dropped
      /\ \/ SW!Flush(t, c, rows)
         \/ SW!Returns(t, c, client) /\ stats' = stats /\ overlapped' = overlapped
  BY DEF SW!Write, SwWriteCall, r
<1>9. c.own \subseteq 1..g /\ c.promise \subseteq accepted
  BY <1>2, <1>3
<1>10. task[t].stage # "append"
  BY <1>8 DEF SW!Busy, SwInv, SwTypes
<1> HIDE DEF c, rows, g
<1>11. SwOne(t) /\ SwBranch(t, c, rows)
  BY <1>3, <1>6, <1>7, <1>8, SwFlushBranch
<1>12. SwEnters(t, c, rows, g)
  BY <1>1, <1>3, <1>7, <1>8, <1>9, <1>10, <1>11 DEF SwEnters
<1> QED
  BY <1>1, <1>3, <1>7, <1>12 DEF SwEntering

\* flush(), close(), and the stream that is open, or not to be had.
LEMMA SwCallEnters ==
  ASSUME End \in Nat, SwInv, NEW t \in Tasks,
         \/ \E call \in {"flush", "close"} : SW!FlushOrClose(t, call)
         \/ SW!Opened(t) \/ SW!OpenFails(t)
  PROVE  SwEntering(t)
<1>1. given \in 0..End /\ given <= given /\ faults \in Nat /\ buffer \in Seq(Records) /\ SwTypes
  BY DEF SwInv, SwTypes
<1>2. NewRows(buffer, given)
  BY <1>1 DEF NewRows
<1>3. ASSUME NEW c \in SwCall, c.ran = FALSE, c.call # "idle", c.promise \subseteq accepted, c.own \subseteq 1..given,
             task[t].stage # "append", faults' \in Nat,
             /\ config' = config /\ buffer' = buffer /\ store' = store
             /\ given' = given /\ abandoned' = abandoned /\ dropped' = dropped,
             \/ SW!Flush(t, c, buffer)
             \/ SW!BeginAppends(t, c, buffer)
             \/ SW!Raises(t, c, client) /\ overlapped' = overlapped
      PROVE  SwEntering(t)
  <2>1. SwOne(t) /\ SwBranch(t, c, buffer)
    BY <1>1, <1>3, SwFlushBranch
  <2>2. SwEnters(t, c, buffer, given)
    BY <1>1, <1>2, <1>3, <2>1 DEF SwEnters
  <2> QED
    BY <1>1, <2>2 DEF SwEntering
<1>4. ASSUME NEW call \in {"flush", "close"}, SW!FlushOrClose(t, call) PROVE SwEntering(t)
  <2> DEFINE c == SwFlushCall(call, accepted)
  <2>1. accepted \in SUBSET Records
    BY <1>1 DEF Records, SwInv, SwHistory
  <2>2. c \in SwCall /\ c.ran = FALSE /\ c.call = call /\ c.own = {} /\ c.promise = accepted
    <3>1. call \in SwEndings
      BY DEF SwEndings
    <3>2. SwPromises(c, call, accepted)
      BY <2>1, <3>1, SwFlushCallFacts
    <3> QED
      BY <3>2 DEF SwPromises
  <2>3. SW!Flush(t, c, buffer) /\ ~SW!Busy(t)
    BY <1>4 DEF SW!FlushOrClose, SwFlushCall
  <2>4. /\ config' = config /\ buffer' = buffer /\ store' = store
        /\ given' = given /\ abandoned' = abandoned /\ dropped' = dropped /\ faults' = faults
    BY <1>4 DEF SW!FlushOrClose
  <2>5. task[t].stage # "append"
    BY <2>3 DEF SW!Busy, SwInv, SwTypes
  <2> HIDE DEF c
  <2> QED
    BY <1>1, <1>3, <2>2, <2>3, <2>4, <2>5
<1>5. ASSUME SW!Opened(t) \/ SW!OpenFails(t) PROVE SwEntering(t)
  <2>1. task[t].stage = "open" /\ task[t] \in SwCall
    BY <1>1, <1>5 DEF SW!Opened, SW!OpenFails, SwTypes
  <2>2. task[t].ran = FALSE /\ task[t].call # "idle" /\ task[t].promise \subseteq accepted /\ task[t].own \subseteq 1..given
    BY <2>1 DEF SwInv, SwTypes, SwHistory
  <2>3. /\ config' = config /\ buffer' = buffer /\ store' = store
        /\ given' = given /\ abandoned' = abandoned /\ dropped' = dropped /\ faults' \in Nat
    BY <1>1, <1>5 DEF SW!Opened, SW!OpenFails
  <2>4. \/ SW!BeginAppends(t, task[t], buffer)
        \/ SW!Raises(t, task[t], client) /\ overlapped' = overlapped
    BY <1>5 DEF SW!Opened, SW!OpenFails
  <2> QED
    BY <1>3, <2>1, <2>2, <2>3, <2>4
<1> QED
  BY <1>4, <1>5

-----------------------------------------------------------------------------
(* Requests.                                                                 *)

SwRan(c) == [c EXCEPT !.ran = TRUE]
SwRest(c, rest) == [c EXCEPT !.rows = rest, !.ran = FALSE]

LEMMA SwRequestCalls ==
  ASSUME NEW c \in SwCall, NEW rest \in Seq(Records)
  PROVE  /\ SwRan(c) \in SwCall /\ SwRan(c).ran = TRUE /\ SwRan(c).call = c.call
         /\ SwRan(c).stage = c.stage /\ SwRan(c).rows = c.rows
         /\ SwRan(c).promise = c.promise /\ SwRan(c).own = c.own
         /\ SwRest(c, rest) \in SwCall /\ SwRest(c, rest).ran = FALSE /\ SwRest(c, rest).call = c.call
         /\ SwRest(c, rest).stage = c.stage /\ SwRest(c, rest).rows = rest
         /\ SwRest(c, rest).promise = c.promise /\ SwRest(c, rest).own = c.own
<1>1. SwRan(c) \in SwCall /\ SwRest(c, rest) \in SwCall
  BY DEF SwCall, SwRan, SwRest
<1>2. /\ SwRan(c).ran = TRUE /\ SwRan(c).call = c.call
      /\ SwRan(c).stage = c.stage /\ SwRan(c).rows = c.rows
      /\ SwRan(c).promise = c.promise /\ SwRan(c).own = c.own
  BY DEF SwCall, SwRan
<1>3. /\ SwRest(c, rest).ran = FALSE /\ SwRest(c, rest).call = c.call
      /\ SwRest(c, rest).stage = c.stage /\ SwRest(c, rest).rows = rest
      /\ SwRest(c, rest).promise = c.promise /\ SwRest(c, rest).own = c.own
  BY DEF SwCall, SwRest
<1> QED
  BY <1>1, <1>2, <1>3

\* A request of a flush that overlaps no other runs.
LEMMA SwRunAppendInv ==
  ASSUME SwInv, NEW t \in Tasks, SW!RunAppend(t)
  PROVE  SwInv'
<1> DEFINE r == SW!Request(task[t].rows)
<1>1. /\ task[t].stage = "append" /\ ~task[t].ran /\ store' = store \o r
      /\ task' = [task EXCEPT ![t] = SwRan(task[t])]
      /\ config' = config /\ buffer' = buffer /\ stats' = stats /\ given' = given
      /\ accepted' = accepted /\ settled' = settled /\ faults' = faults
      /\ abandoned' = abandoned /\ overlapped' = overlapped /\ dropped' = dropped
  BY DEF SW!RunAppend, SW!Flushing, SwRan
<1>2. /\ task[t] \in SwCall /\ task[t].rows \in Seq(Records) /\ task[t].rows # <<>>
      /\ store \in Seq(Records) /\ buffer \in Seq(Records) /\ SwTypes /\ SwHistory
  BY <1>1 DEF SwInv, SwTypes, SwCall
<1>3. /\ Len(r) \in 1..Len(task[t].rows) /\ r \in Seq(Records)
      /\ \A i \in 1..Len(r) : r[i] = task[t].rows[i]
  BY <1>2, SwRequestFacts
<1>4. /\ SwRan(task[t]) \in SwCall /\ SwRan(task[t]).ran = TRUE /\ SwRan(task[t]).call = task[t].call
      /\ SwRan(task[t]).stage = task[t].stage /\ SwRan(task[t]).rows = task[t].rows
      /\ SwRan(task[t]).promise = task[t].promise /\ SwRan(task[t]).own = task[t].own
  BY <1>2, SwRequestCalls
<1>5. /\ task' \in [Tasks -> SwCall] /\ task'[t] = SwRan(task[t])
      /\ \A u \in Tasks : u # t => task'[u] = task[u]
  BY <1>1, <1>2, <1>4, SwOneTask DEF SwOne
<1>6. SW!Request(task[t].rows)' = r
  BY <1>1, <1>4, <1>5 DEF SW!Request, SW!Size
<1> HIDE DEF r
<1>7. /\ store' \in Seq(Records) /\ Len(store') = Len(store) + Len(r)
      /\ \A i \in 1..Len(store) : store'[i] = store[i]
      /\ \A i \in 1..Len(r) : store'[Len(store) + i] = r[i]
      /\ ToSet(store') = ToSet(store) \cup ToSet(r)
  BY <1>1, <1>2, <1>3, AppendRows
<1>8. SwTypes'
  <2>1. \A u \in Tasks : /\ task'[u].stage # "append" => task'[u].ran = FALSE
                         /\ task'[u].stage # "idle" => task'[u].call # "idle"
                         /\ task'[u].stage = "append" => task'[u].rows # <<>>
    BY <1>1, <1>2, <1>4, <1>5 DEF SwTypes
  <2>2. /\ task' \in [Tasks -> SwCall] /\ buffer' \in Seq(Records) /\ store' \in Seq(Records)
        /\ stats' \in SwStats /\ given' \in 0..End /\ faults' \in Nat
        /\ abandoned' \subseteq SwJob /\ overlapped' \in BOOLEAN
    BY <1>1, <1>2, <1>5, <1>7 DEF SwTypes
  <2> QED
    BY <2>1, <2>2 DEF SwTypes
<1>9. SwHistory'
  <2>1. \A u \in Tasks : task'[u].promise \subseteq accepted /\ task'[u].own \subseteq 1..given
    BY <1>2, <1>4, <1>5 DEF SwHistory
  <2> QED
    BY <1>1, <1>2, <2>1 DEF SwHistory
<1>10. ASSUME ~overlapped
       PROVE  SwKept /\ \A u \in Tasks : task'[u].stage = "append" => u = t
  <2>1. SwKept
    BY <1>10 DEF SwInv
  <2> QED
    BY <1>1, <1>5, <2>1 DEF SwKept
<1>11. ASSUME ~overlapped' PROVE SwKept'
  <2>1. SwKept /\ SwFront(task[t]) /\ \A u \in Tasks : task'[u].stage = "append" => u = t
    BY <1>1, <1>10, <1>11 DEF SwKept
  <2>2. SwFront(task[t])'
    BY <1>1, <1>4, <1>5, <2>1 DEF SwFront
  <2>3. ASSUME NEW u \in Tasks, task'[u].stage = "append" PROVE SwFront(task[u])'
    <3>1. u = t
      BY <2>1, <2>3
    <3> QED
      BY <2>2, <3>1
  <2> QED
    BY <1>1, <2>1, <2>3 DEF SwKept
<1>12. ASSUME ~overlapped', ~stats'.failed PROVE SwExact'
  <2>1. ~overlapped /\ SwExact
    BY <1>1, <1>12 DEF SwInv
  <2>2. SwKept /\ SwFront(task[t]) /\ \A u \in Tasks : task'[u].stage = "append" => u = t
    BY <1>1, <1>10, <2>1 DEF SwKept
  <2> DEFINE a == stats.appended
  <2>3. a \in Nat
    BY <1>2 DEF SwTypes, SwStats
  <2> HIDE DEF a
  <2>4. \A u \in Tasks : task[u].stage = "append" => ~task[u].ran
    BY <1>1, <1>5, <2>2
  <2>5. /\ a <= given /\ Len(buffer) = given - a /\ \A i \in 1..Len(buffer) : buffer[i] = a + i
        /\ abandoned = {} /\ \A i \in 1..Len(store) : store[i] = i
        /\ Len(store) = a
    BY <2>1, <2>4 DEF SwExact, a
  <2>6. \A i \in 1..Len(r) : r[i] = a + i
    <3> TAKE i \in 1..Len(r)
    <3>1. i \in 1..Len(task[t].rows) /\ i \in 1..Len(buffer)
      BY <1>2, <1>3, <2>2 DEF SwFront
    <3>2. r[i] = task[t].rows[i]
      BY <1>3
    <3>3. buffer[i] = task[t].rows[i]
      BY <2>2, <3>1 DEF SwFront
    <3> QED
      BY <2>5, <3>1, <3>2, <3>3
  <2>7. \A i \in 1..Len(store') : store'[i] = i
    <3> TAKE i \in 1..Len(store')
    <3>1. Len(r) \in Nat /\ Len(store') = a + Len(r) /\ i \in Nat
      BY <1>2, <1>3, <1>7, <2>5
    <3>2. CASE i \in 1..a
      BY <1>7, <2>5, <3>2
    <3>3. CASE i \notin 1..a
      <4> DEFINE j == i - a
      <4>1. j \in 1..Len(r) /\ i = a + j
        BY <2>3, <3>1, <3>3
      <4> HIDE DEF j
      <4> QED
        BY <1>7, <2>5, <2>6, <4>1
    <3> QED
      BY <3>2, <3>3
  <2>8. task'[t].stage = "append" /\ task'[t].ran
    BY <1>1, <1>4, <1>5
  <2>9. ASSUME NEW u \in Tasks, task'[u].stage = "append"
        PROVE  Len(store') = a + Len(SW!Request(task[u].rows)')
    <3>1. u = t
      BY <2>2, <2>9
    <3> QED
      BY <1>6, <1>7, <2>5, <3>1
  <2> QED
    BY <1>1, <2>5, <2>7, <2>8, <2>9 DEF SwExact, a
<1>13. SwAccounted'
  <2>1. ASSUME NEW u \in Tasks, task'[u].stage = "append" PROVE SwSending(task[u])'
    <3>1. CASE u = t
      <4>1. SwSending(task[t])
        BY <1>1 DEF SwInv, SwAccounted
      <4> QED
        BY <1>1, <1>4, <1>5, <1>6, <1>7, <3>1, <4>1 DEF SwSending
    <3>2. CASE u # t
      <4>1. task'[u] = task[u]
        BY <1>5, <3>2
      <4>2. SwSending(task[u])
        BY <2>1, <4>1 DEF SwInv, SwAccounted
      <4>3. SW!Request(task[u].rows)' = SW!Request(task[u].rows)
        BY <1>1, <4>1, SwSameRequest
      <4> QED
        BY <1>1, <1>7, <4>1, <4>2, <4>3 DEF SwSending
    <3> QED
      BY <3>1, <3>2
  <2> QED
    BY <1>1, <1>7, <2>1 DEF SwInv, SwAccounted
<1> QED
  BY <1>8, <1>9, <1>11, <1>12, <1>13 DEF SwInv

\* What leaves the front of the buffer is in the request, or is dropped.
LEMMA SwRowsLeave ==
  ASSUME buffer \in Seq(Records), NEW n \in Nat
  PROVE  ToSet(buffer) \subseteq SW!RowsBefore(n) \cup ToSet(SubSeq(buffer, n + 1, Len(buffer)))
<1> SUFFICES ASSUME NEW i \in DOMAIN buffer, ~(i <= n)
             PROVE  buffer[i] \in ToSet(SubSeq(buffer, n + 1, Len(buffer)))
  BY DEF ToSet, SW!RowsBefore
<1>1. i \in 1..Len(buffer) /\ n < Len(buffer) /\ Len(buffer) \in Nat
  OBVIOUS
<1> DEFINE r == SubSeq(buffer, n + 1, Len(buffer))
<1>2. Len(r) = Len(buffer) - n /\ \A k \in 1..(Len(buffer) - n) : r[k] = buffer[n + k]
  BY <1>1
<1>3. DOMAIN r = 1..Len(r)
  BY <1>1
<1> HIDE DEF r
<1>4. i - n \in 1..(Len(buffer) - n) /\ n + (i - n) = i
  BY <1>1
<1>5. r[i - n] = buffer[i] /\ i - n \in DOMAIN r
  BY <1>2, <1>3, <1>4
<1> QED
  BY <1>5 DEF r, ToSet

\* The rows that are dropped from a buffer leave a buffer.
LEMMA SwTail ==
  ASSUME NEW s \in Seq(Records), NEW n \in Nat
  PROVE  SubSeq(s, n + 1, Len(s)) \in Seq(Records)
<1>1. CASE n <= Len(s)
  BY <1>1, DropRows
<1>2. CASE ~(n <= Len(s))
  <2>1. n + 1 > Len(s) /\ n + 1 \in Nat /\ Len(s) \in Nat
    BY <1>2
  <2>2. SubSeq(s, n + 1, Len(s)) = <<>>
    BY <2>1
  <2>3. <<>> \in Seq(Records)
    OBVIOUS
  <2> QED
    BY <2>2, <2>3
<1> QED
  BY <1>1, <1>2

\* append_serialized_rows() returns: the call returns, or goes on with the rows that are left.
LEMMA SwAppendReturnsInv ==
  ASSUME End \in Nat, SwInv, NEW t \in Tasks, SW!AppendReturns(t)
  PROVE  SwInv'
<1> DEFINE r == SW!Request(task[t].rows)
           n == Len(r)
           rows == task[t].rows
           rest == SubSeq(rows, n + 1, Len(rows))
<1>1. /\ task[t].stage = "append" /\ task[t].ran
      /\ buffer' = SubSeq(buffer, n + 1, Len(buffer)) /\ stats' = SwCounted(stats, n)
      /\ config' = config /\ store' = store /\ given' = given /\ faults' = faults
      /\ abandoned' = abandoned /\ overlapped' = overlapped
      /\ dropped' = dropped \cup (SW!RowsBefore(n) \ ToSet(r))
  BY SwSameSet DEF SW!AppendReturns, SW!Flushing, SwCounted
<1>2. \/ /\ rest = <<>> /\ task' = [task EXCEPT ![t] = SW!Idle]
         /\ accepted' = accepted \cup task[t].own /\ settled' = settled \cup task[t].promise
      \/ /\ rest # <<>> /\ task' = [task EXCEPT ![t] = SwRest(task[t], rest)]
         /\ accepted' = accepted /\ settled' = settled
  BY DEF SW!AppendReturns, SW!Returns, SwRest
<1>3. /\ task[t] \in SwCall /\ rows \in Seq(Records) /\ rows # <<>>
      /\ store \in Seq(Records) /\ buffer \in Seq(Records) /\ stats \in SwStats /\ SwTypes /\ SwHistory
  BY <1>1 DEF SwInv, SwTypes, SwCall
<1>4. /\ n \in 1..Len(rows) /\ r \in Seq(Records)
      /\ \A i \in 1..n : r[i] = rows[i]
  BY <1>3, SwRequestFacts
<1> HIDE DEF r
<1>5. n \in Nat /\ n >= 1 /\ n <= Len(rows) /\ Len(rows) \in Nat /\ Len(buffer) \in Nat
  BY <1>3, <1>4
<1>6. {rows[i] : i \in 1..n} = ToSet(r)
  <2>1. DOMAIN r = 1..n
    BY <1>4
  <2> QED
    BY <1>4, <2>1 DEF ToSet
<1> HIDE DEF n
<1>7. /\ rest \in Seq(Records) /\ Len(rest) = Len(rows) - n
      /\ \A i \in 1..(Len(rows) - n) : rest[i] = rows[n + i]
      /\ ToSet(rows) \subseteq ToSet(r) \cup ToSet(rest)
  BY <1>3, <1>5, <1>6, DropRows
<1>8. buffer' \in Seq(Records)
  BY <1>1, <1>3, <1>5, SwTail
<1> HIDE DEF rest
<1>9. /\ stats' \in SwStats /\ stats'.appended = stats.appended + n /\ stats'.failed = stats.failed
  BY <1>1, <1>3, <1>5, SwStatsFacts
<1>10. /\ task' \in [Tasks -> SwCall] /\ \A u \in Tasks : u # t => task'[u] = task[u]
       /\ \/ /\ rest = <<>> /\ task'[t] = SW!Idle
             /\ accepted' = accepted \cup task[t].own /\ settled' = settled \cup task[t].promise
          \/ /\ rest # <<>> /\ task'[t] = SwRest(task[t], rest)
             /\ accepted' = accepted /\ settled' = settled
  <2>1. SW!Idle \in SwCall /\ SwRest(task[t], rest) \in SwCall
    BY <1>3, <1>7, SwIdleCall, SwRequestCalls
  <2> QED
    BY <1>2, <1>3, <2>1, SwOneTask DEF SwOne
<1>11. /\ task'[t].ran = FALSE /\ task'[t].promise \subseteq task[t].promise
       /\ task'[t].own \subseteq task[t].own
       /\ \/ task'[t].stage = "idle"
          \/ /\ task'[t].stage = "append" /\ task'[t].call = task[t].call
             /\ task'[t].rows = rest /\ rest # <<>>
  <2>1. CASE rest = <<>> /\ task'[t] = SW!Idle
    BY <2>1, SwIdleCall
  <2>2. CASE rest # <<>> /\ task'[t] = SwRest(task[t], rest)
    <3>1. /\ SwRest(task[t], rest).ran = FALSE /\ SwRest(task[t], rest).call = task[t].call
          /\ SwRest(task[t], rest).stage = task[t].stage /\ SwRest(task[t], rest).rows = rest
          /\ SwRest(task[t], rest).promise = task[t].promise /\ SwRest(task[t], rest).own = task[t].own
      BY <1>3, <1>7, SwRequestCalls
    <3> QED
      BY <1>1, <2>2, <3>1
  <2> QED
    BY <1>10, <2>1, <2>2
<1>12. SwTypes'
  <2>1. \A u \in Tasks : /\ task'[u].stage # "append" => task'[u].ran = FALSE
                         /\ task'[u].stage # "idle" => task'[u].call # "idle"
                         /\ task'[u].stage = "append" => task'[u].rows # <<>>
    <3> TAKE u \in Tasks
    <3>1. CASE u # t
      BY <1>3, <1>10, <3>1 DEF SwTypes
    <3>2. task[t].call # "idle"
      BY <1>1, <1>3 DEF SwTypes
    <3>3. CASE u = t
      BY <1>11, <3>2, <3>3
    <3> QED
      BY <3>1, <3>3
  <2>2. /\ task' \in [Tasks -> SwCall] /\ buffer' \in Seq(Records) /\ store' \in Seq(Records)
        /\ stats' \in SwStats /\ given' \in 0..End /\ faults' \in Nat
        /\ abandoned' \subseteq SwJob /\ overlapped' \in BOOLEAN
    BY <1>1, <1>3, <1>8, <1>9, <1>10 DEF SwTypes
  <2> QED
    BY <2>1, <2>2 DEF SwTypes
<1>13. accepted \subseteq accepted' /\ accepted' \subseteq accepted \cup task[t].own
       /\ settled' \subseteq settled \cup task[t].promise
  BY <1>10
<1>14. SwHistory'
  <2>1. /\ settled \subseteq accepted /\ accepted \subseteq 1..given
        /\ \A u \in Tasks : task[u].promise \subseteq accepted /\ task[u].own \subseteq 1..given
    BY <1>3 DEF SwHistory
  <2>2. \A u \in Tasks : task'[u].promise \subseteq accepted' /\ task'[u].own \subseteq 1..given
    <3> TAKE u \in Tasks
    <3>1. CASE u # t
      BY <1>10, <1>13, <2>1, <3>1
    <3>2. CASE u = t
      BY <1>11, <1>13, <2>1, <3>2
    <3> QED
      BY <3>1, <3>2
  <2>3. settled' \subseteq accepted' /\ accepted' \subseteq 1..given
    BY <1>13, <2>1
  <2> QED
    BY <1>1, <2>2, <2>3 DEF SwHistory
<1>15. ASSUME ~overlapped
       PROVE  /\ SwKept /\ \A u \in Tasks : task'[u].stage = "append" => u = t
              /\ Len(rows) <= Len(buffer) /\ \A i \in 1..Len(rows) : buffer[i] = rows[i]
              /\ n <= Len(buffer) /\ Len(buffer') = Len(buffer) - n
              /\ \A i \in 1..(Len(buffer) - n) : buffer'[i] = buffer[n + i]
              /\ SW!RowsBefore(n) \subseteq ToSet(r)
  <2>1. SwKept
    BY <1>15 DEF SwInv
  <2>2. \A u \in Tasks : task'[u].stage = "append" => u = t
    BY <1>1, <1>10, <2>1 DEF SwKept
  <2>3. SwFront(task[t])
    BY <1>1, <2>1 DEF SwKept
  <2>4. Len(rows) <= Len(buffer) /\ \A i \in 1..Len(rows) : buffer[i] = rows[i]
    BY <2>3 DEF SwFront
  <2>5. n <= Len(buffer) /\ 1..n \subseteq 1..Len(rows) /\ DOMAIN buffer = 1..Len(buffer)
    BY <1>3, <1>5, <2>4
  <2>6. SW!RowsBefore(n) \subseteq ToSet(r)
    <3>1. ASSUME NEW i \in DOMAIN buffer, i <= n PROVE buffer[i] \in {rows[k] : k \in 1..n}
      <4>1. i \in 1..n /\ i \in 1..Len(rows)
        BY <1>5, <2>5, <3>1
      <4> QED
        BY <2>4, <4>1
    <3> QED
      BY <1>6, <3>1 DEF SW!RowsBefore
  <2>7. /\ Len(buffer') = Len(buffer) - n
        /\ \A i \in 1..(Len(buffer) - n) : buffer'[i] = buffer[n + i]
    BY <1>1, <1>3, <1>5, <2>5, DropRows
  <2> QED
    BY <2>1, <2>2, <2>4, <2>5, <2>6, <2>7
<1>16. ASSUME ~overlapped' PROVE SwKept'
  <2>1. ~overlapped
    BY <1>1, <1>16
  <2>2. /\ SwKept /\ \A u \in Tasks : task'[u].stage = "append" => u = t
        /\ Len(rows) <= Len(buffer) /\ \A i \in 1..Len(rows) : buffer[i] = rows[i]
        /\ n <= Len(buffer) /\ Len(buffer') = Len(buffer) - n
        /\ \A i \in 1..(Len(buffer) - n) : buffer'[i] = buffer[n + i]
        /\ SW!RowsBefore(n) \subseteq ToSet(r)
    BY <1>15, <2>1
  <2>3. dropped' = {}
    BY <1>1, <2>2 DEF SwKept
  <2>4. \A u, v \in Tasks : task'[u].stage = "append" /\ task'[v].stage = "append" => u = v
    BY <2>2
  <2>5. ASSUME task'[t].stage = "append" PROVE SwFront(task[t])'
    <3>1. task'[t].rows = rest /\ rest # <<>>
      BY <1>11, <2>5
    <3>2. Len(rest) <= Len(buffer')
      BY <1>5, <1>7, <2>2
    <3>3. \A i \in 1..Len(rest) : buffer'[i] = rest[i]
      <4> TAKE i \in 1..Len(rest)
      <4>1. i \in 1..(Len(rows) - n) /\ i \in 1..(Len(buffer) - n) /\ n + i \in 1..Len(rows)
        BY <1>5, <1>7, <2>2
      <4> QED
        BY <1>7, <2>2, <4>1
    <3> QED
      BY <3>1, <3>2, <3>3 DEF SwFront
  <2>6. ASSUME NEW u \in Tasks, task'[u].stage = "append" PROVE SwFront(task[u])'
    <3>1. u = t
      BY <2>2, <2>6
    <3> QED
      BY <2>5, <2>6, <3>1
  <2> QED
    BY <2>3, <2>4, <2>6 DEF SwKept
<1>17. ASSUME ~overlapped', ~stats'.failed PROVE SwExact'
  <2>1. ~overlapped /\ SwExact
    BY <1>1, <1>9, <1>17 DEF SwInv
  <2>2. /\ \A u \in Tasks : task'[u].stage = "append" => u = t
        /\ n <= Len(buffer) /\ Len(buffer') = Len(buffer) - n
        /\ \A i \in 1..(Len(buffer) - n) : buffer'[i] = buffer[n + i]
    BY <1>15, <2>1
  <2> DEFINE a == stats.appended
  <2>3. a \in Nat /\ given \in Nat
    BY <1>3 DEF SwTypes, SwStats
  <2> HIDE DEF a
  <2>4. /\ a <= given /\ Len(buffer) = given - a /\ \A i \in 1..Len(buffer) : buffer[i] = a + i
        /\ abandoned = {} /\ \A i \in 1..Len(store) : store[i] = i
        /\ Len(store) = a + n
    BY <1>1, <2>1 DEF SwExact, a, n, r
  <2>5. stats'.appended = a + n /\ a + n <= given /\ Len(buffer') = given - (a + n)
    BY <1>5, <1>9, <2>2, <2>3, <2>4 DEF a
  <2>6. \A i \in 1..Len(buffer') : buffer'[i] = (a + n) + i
    <3> TAKE i \in 1..Len(buffer')
    <3>1. i \in 1..(Len(buffer) - n) /\ n + i \in 1..Len(buffer)
      BY <1>5, <2>2
    <3>2. buffer'[i] = a + (n + i)
      BY <2>2, <2>4, <3>1
    <3> QED
      BY <1>5, <2>3, <3>1, <3>2
  <2>7. \A u \in Tasks : task'[u].stage = "append" => ~task'[u].ran
    BY <1>11, <2>2
  <2> QED
    BY <1>1, <2>4, <2>5, <2>6, <2>7 DEF SwExact
<1>18. SwAccounted'
  <2>1. /\ 1..given \subseteq ToSet(store) \cup ToSet(buffer) \cup dropped
        /\ settled \subseteq ToSet(store) \cup dropped
        /\ ToSet(r) \subseteq ToSet(store)
        /\ task[t].promise \subseteq ToSet(store) \cup ToSet(rows) \cup dropped
    BY <1>1 DEF SwInv, SwAccounted, SwSending, r
  <2>2. ToSet(buffer) \subseteq SW!RowsBefore(n) \cup ToSet(buffer')
    BY <1>1, <1>3, <1>5, SwRowsLeave
  <2>3. 1..given' \subseteq ToSet(store') \cup ToSet(buffer') \cup dropped'
    BY <1>1, <2>1, <2>2
  <2>4. task[t].promise \subseteq ToSet(store') \cup ToSet(rest) \cup dropped' /\ dropped \subseteq dropped'
    BY <1>1, <1>7, <2>1
  <2>5. settled' \subseteq ToSet(store') \cup dropped'
    <3>1. rest = <<>> => ToSet(rest) = {}
      BY DEF ToSet
    <3> QED
      BY <1>1, <1>10, <2>1, <2>4, <3>1
  <2>6. ASSUME NEW u \in Tasks, task'[u].stage = "append" PROVE SwSending(task[u])'
    <3>1. CASE u = t
      <4>1. task'[t].rows = rest /\ task'[t].ran = FALSE /\ task'[t].promise \subseteq task[t].promise
        BY <1>11, <2>6, <3>1
      <4> QED
        BY <2>4, <3>1, <4>1 DEF SwSending
    <3>2. CASE u # t
      <4>1. task'[u] = task[u] /\ SwSending(task[u])
        BY <1>10, <2>6, <3>2 DEF SwInv, SwAccounted
      <4>2. SW!Request(task[u].rows)' = SW!Request(task[u].rows)
        BY <1>1, <4>1 DEF SW!Request, SW!Size
      <4> QED
        BY <1>1, <2>4, <4>1, <4>2 DEF SwSending
    <3> QED
      BY <3>1, <3>2
  <2> QED
    BY <2>3, <2>5, <2>6 DEF SwAccounted
<1> QED
  BY <1>12, <1>14, <1>16, <1>17, <1>18 DEF SwInv

\* A failed request stays in the buffer; it may run later.
LEMMA SwAppendFailsInv ==
  ASSUME End \in Nat, SwInv, NEW t \in Tasks, SW!AppendFails(t)
  PROVE  SwInv'
<1>1. /\ task[t].stage = "append" /\ task' = [task EXCEPT ![t] = SW!Idle]
      /\ stats' = SwError(stats) /\ faults' = faults + 1
      /\ config' = config /\ buffer' = buffer /\ store' = store /\ given' = given
      /\ accepted' = accepted /\ settled' = settled /\ overlapped' = overlapped
      /\ dropped' = dropped
  BY DEF SW!AppendFails, SW!Flushing, SW!Raises, SW!CountError, SwError
<1>2. /\ task[t] \in SwCall /\ task[t].rows \in Seq(Records) /\ task[t].rows # <<>> /\ faults \in Nat
      /\ stats \in SwStats /\ abandoned \subseteq SwJob /\ SwTypes /\ SwHistory /\ task[t].ran \in BOOLEAN
  BY <1>1 DEF SwInv, SwTypes, SwCall
<1>3. SW!Request(task[t].rows) \in Seq(Records)
  BY <1>2, SwRequestFacts
<1>4. abandoned' \subseteq SwJob
  <2> DEFINE b == SW!Request(task[t].rows)
             j == [id |-> faults, batch |-> b, ran |-> task[t].ran]
  <2>1. abandoned' = abandoned \/ abandoned' = abandoned \cup {j}
    BY DEF SW!AppendFails
  <2>2. j \in SwJob
    <3> HIDE DEF b
    <3> QED
      BY <1>2, <1>3 DEF SwJob, b
  <2> HIDE DEF j
  <2> QED
    BY <1>2, <2>1, <2>2
<1>5. stats' \in SwStats /\ stats'.failed
  <2>1. 0 \in Nat
    OBVIOUS
  <2> QED
    BY <1>1, <1>2, <2>1, SwStatsFacts
<1>6. /\ task' \in [Tasks -> SwCall] /\ task'[t] = SW!Idle /\ \A u \in Tasks : u # t => task'[u] = task[u]
      /\ task'[t].stage = "idle" /\ task'[t].ran = FALSE /\ task'[t].promise = {} /\ task'[t].own = {}
  <2>1. /\ SW!Idle \in SwCall /\ SW!Idle.stage = "idle" /\ SW!Idle.ran = FALSE
        /\ SW!Idle.own = {} /\ SW!Idle.promise = {}
    BY SwIdleCall
  <2>2. /\ task' \in [Tasks -> SwCall] /\ task'[t] = SW!Idle /\ \A u \in Tasks : u # t => task'[u] = task[u]
    BY <1>1, <1>2, <2>1, SwOneTask DEF SwOne
  <2> QED
    BY <2>1, <2>2
<1>7. SwTypes'
  <2>1. \A u \in Tasks : /\ task'[u].stage # "append" => task'[u].ran = FALSE
                         /\ task'[u].stage # "idle" => task'[u].call # "idle"
                         /\ task'[u].stage = "append" => task'[u].rows # <<>>
    BY <1>2, <1>6 DEF SwTypes
  <2>2. /\ buffer' \in Seq(Records) /\ store' \in Seq(Records)
        /\ given' \in 0..End /\ faults' \in Nat /\ overlapped' \in BOOLEAN
    BY <1>1, <1>2 DEF SwTypes
  <2> QED
    BY <1>4, <1>5, <1>6, <2>1, <2>2 DEF SwTypes
<1>8. SwHistory'
  <2>1. \A u \in Tasks : task'[u].promise \subseteq accepted /\ task'[u].own \subseteq 1..given
    BY <1>2, <1>6 DEF SwHistory
  <2> QED
    BY <1>1, <1>2, <2>1 DEF SwHistory
<1>9. ASSUME ~overlapped' PROVE SwKept'
  <2>1. SwKept
    BY <1>1, <1>9 DEF SwInv
  <2>2. \A u \in Tasks : task'[u].stage # "append"
    BY <1>1, <1>6, <2>1 DEF SwKept
  <2> QED
    BY <1>1, <2>1, <2>2 DEF SwKept
<1>10. SwAccounted'
  <2>1. ASSUME NEW u \in Tasks, task'[u].stage = "append" PROVE SwSending(task[u])'
    <3>1. task'[u] = task[u]
      BY <1>6, <2>1
    <3>2. SwSending(task[u])
      BY <2>1, <3>1 DEF SwInv, SwAccounted
    <3>3. SW!Request(task[u].rows)' = SW!Request(task[u].rows)
      BY <1>1, <3>1, SwSameRequest
    <3> QED
      BY <1>1, <3>1, <3>2, <3>3 DEF SwSending
  <2> QED
    BY <1>1, <2>1 DEF SwInv, SwAccounted
<1> QED
  BY <1>5, <1>7, <1>8, <1>9, <1>10 DEF SwInv

\* A request that was given up runs after all: the table grows.
LEMMA SwRunLateInv ==
  ASSUME End \in Nat, SwInv, NEW j \in abandoned, SW!RunLate(j)
  PROVE  SwInv'
<1> DEFINE k == [j EXCEPT !.ran = TRUE]
<1>1. /\ store' = store \o j.batch /\ abandoned' = (abandoned \ {j}) \cup {k}
      /\ config' = config /\ task' = task /\ buffer' = buffer /\ stats' = stats /\ given' = given
      /\ accepted' = accepted /\ settled' = settled /\ faults' = faults /\ overlapped' = overlapped
      /\ dropped' = dropped
  BY DEF SW!RunLate
<1>2. SwTypes /\ SwHistory /\ store \in Seq(Records) /\ j \in SwJob
  BY DEF SwInv, SwTypes
<1>3. k \in SwJob /\ j.batch \in Seq(Records)
  BY <1>2 DEF SwJob
<1> HIDE DEF k
<1>4. store' \in Seq(Records) /\ ToSet(store') = ToSet(store) \cup ToSet(j.batch)
  BY <1>1, <1>2, <1>3, AppendRows
<1>5. SwTypes'
  BY <1>1, <1>2, <1>3, <1>4 DEF SwTypes
<1>6. SwHistory'
  BY <1>1, <1>2 DEF SwHistory
<1>7. SwAccounted'
  <2>1. ASSUME NEW u \in Tasks, task[u].stage = "append" PROVE SwSending(task[u])'
    <3>1. SwSending(task[u])
      BY <2>1 DEF SwInv, SwAccounted
    <3>2. SW!Request(task[u].rows)' = SW!Request(task[u].rows)
      BY <1>1 DEF SW!Request, SW!Size
    <3> QED
      BY <1>1, <1>4, <3>1, <3>2 DEF SwSending
  <2> QED
    BY <1>1, <1>4, <2>1 DEF SwInv, SwAccounted
<1>8. ~overlapped' => stats'.failed
  <2>1. ~overlapped /\ ~stats.failed => abandoned = {}
    BY DEF SwInv, SwExact
  <2> QED
    BY <1>1, <2>1
<1>9. ~overlapped' => SwKept'
  BY <1>1 DEF SwInv, SwKept, SwFront
<1> QED
  BY <1>5, <1>6, <1>7, <1>8, <1>9 DEF SwInv

LEMMA SwInitInv == ASSUME End \in Nat, SW!Init PROVE SwInv
<1>1. /\ task = [t \in Tasks |-> SW!Idle] /\ buffer = <<>> /\ store = <<>>
      /\ stats = [flushed |-> FALSE, failed |-> FALSE, appended |-> 0,
                  last_append_succeeded |-> "none", last_error |-> FALSE]
      /\ given = 0 /\ accepted = {} /\ settled = {}
      /\ faults = 0 /\ abandoned = {} /\ overlapped = FALSE /\ dropped = {}
  BY DEF SW!Init
<1>2. /\ SW!Idle \in SwCall /\ SW!Idle.stage = "idle" /\ SW!Idle.ran = FALSE
      /\ SW!Idle.own = {} /\ SW!Idle.promise = {}
  BY SwIdleCall
<1>3. <<>> \in Seq(Records) /\ Len(<<>>) = 0 /\ 1..0 = {} /\ 0 \in 0..End
  OBVIOUS
<1>4. stats \in SwStats /\ stats.appended = 0
  BY <1>1 DEF SwStats
<1>5. /\ task \in [Tasks -> SwCall]
      /\ \A t \in Tasks : /\ task[t].stage = "idle" /\ task[t].ran = FALSE
                           /\ task[t].own = {} /\ task[t].promise = {}
  BY <1>1, <1>2
<1>6. SwTypes
  BY <1>1, <1>3, <1>4, <1>5 DEF SwTypes
<1>7. SwHistory
  BY <1>1, <1>5 DEF SwHistory
<1>8. SwKept
  BY <1>1, <1>3, <1>5 DEF SwKept
<1>9. SwExact
  BY <1>1, <1>3, <1>4, <1>5 DEF SwExact
<1>10. SwAccounted
  BY <1>1, <1>3, <1>5 DEF SwAccounted
<1> QED
  BY <1>6, <1>7, <1>8, <1>9, <1>10 DEF SwInv

\* Every step is one of five.
LEMMA SwSteps ==
  ASSUME End \in Nat, SwInv, SW!Next
  PROVE  \/ \E t \in Tasks : \/ SwEntering(t) \/ SW!RunAppend(t)
                            \/ SW!AppendReturns(t) \/ SW!AppendFails(t)
         \/ \E j \in abandoned : SW!RunLate(j)
  BY SwWriteEnters, SwCallEnters DEF SW!Next

LEMMA SwStep == ASSUME End \in Nat, SwInv, [SW!Next]_SW!vars PROVE SwInv'
<1>1. CASE UNCHANGED SW!vars
  <2>1. /\ config' = config /\ task' = task /\ buffer' = buffer /\ store' = store /\ stats' = stats
        /\ given' = given /\ accepted' = accepted /\ settled' = settled /\ faults' = faults
        /\ abandoned' = abandoned /\ overlapped' = overlapped /\ dropped' = dropped
    BY <1>1 DEF SW!vars
  <2>2. \A u \in Tasks : SW!Request(task[u].rows)' = SW!Request(task[u].rows)
    BY <2>1 DEF SW!Request, SW!Size
  <2>3. SwTypes' /\ SwHistory'
    BY <2>1 DEF SwInv, SwTypes, SwHistory
  <2>4. SwAccounted' /\ (SwKept => SwKept')
    BY <2>1, <2>2 DEF SwInv, SwAccounted, SwSending, SwKept, SwFront
  <2>5. SwExact => SwExact'
    BY <2>1, <2>2 DEF SwExact
  <2> QED
    BY <2>1, <2>3, <2>4, <2>5 DEF SwInv
<1>2. ASSUME NEW t \in Tasks, SwEntering(t) PROVE SwInv'
  BY <1>2, SwEntersInv DEF SwEntering
<1>3. CASE SW!Next
  BY <1>2, <1>3, SwSteps, SwRunAppendInv, SwAppendReturnsInv, SwAppendFailsInv, SwRunLateInv
<1> QED
  BY <1>1, <1>3

LEMMA SwInvariance == ASSUME End \in Nat PROVE SW!Spec => []SwInv
<1>1. SW!Init => SwInv
  BY SwInitInv
<1>2. SwInv /\ [SW!Next]_SW!vars => SwInv'
  BY SwStep
<1> QED
  BY <1>1, <1>2, PTL DEF SW!Spec

-----------------------------------------------------------------------------
(* What the sink promises.                                                   *)

\* Every row is accounted for (StorageWriteFlush.flush, append_serialized_rows): whatever
\* fails, overlaps, is tried again or is appended while requests are out, a record that was
\* handed over is in the table or in the buffer, or it is one of the rows that left the buffer
\* for a request without them; and there is no such row unless two flushes overlapped.
THEOREM StorageWriteNoRowLost == ASSUME End \in Nat PROVE SW!Spec => []SW!RowsKept
<1>1. SwInv => SW!RowsKept
  <2> SUFFICES ASSUME SwInv
               PROVE  /\ 1..given \subseteq SW!Durable \cup SW!ToSet(buffer) \cup dropped
                      /\ dropped # {} => overlapped
    BY DEF SW!RowsKept, SW!Excused
  <2>1. 1..given \subseteq ToSet(store) \cup ToSet(buffer) \cup dropped
    BY DEF SwInv, SwAccounted
  <2>2. dropped # {} => overlapped
    BY DEF SwInv, SwKept
  <2> QED
    BY <2>1, <2>2, SwSameSet DEF SW!Durable
<1> QED
  BY <1>1, SwInvariance, PTL

\* A sink whose health_snapshot() is ready has every record it was handed in the table, but for
\* the rows it dropped.
THEOREM StorageWriteReadyMeansWritten == ASSUME End \in Nat PROVE SW!Spec => []SW!ReadyIsWritten
<1>1. SW!RowsKept => SW!ReadyIsWritten
  <2> SUFFICES ASSUME SW!RowsKept, SW!health_snapshot.ready
               PROVE  1..given \subseteq SW!Durable \cup dropped
    BY DEF SW!ReadyIsWritten
  <2>1. buffer = <<>>
    BY DEF SW!health_snapshot
  <2>2. SW!ToSet(buffer) = {}
    BY <2>1 DEF SW!ToSet
  <2> QED
    BY <2>2 DEF SW!RowsKept
<1> QED
  BY <1>1, StorageWriteNoRowLost, PTL

\* An acceptance_report() that passes with its default thresholds tells the truth: every
\* record that was handed over is in the table, once and in order, and each was counted,
\* unless two flushes overlapped.
THEOREM StorageWriteReportIsTrue == ASSUME End \in Nat PROVE SW!Spec => []SW!ReportIsTrue
<1>1. SwInv => SW!ReportIsTrue
  <2> SUFFICES ASSUME SwInv, SW!evaluate(SW!metrics_snapshot), ~overlapped
               PROVE  store = [i \in 1..given |-> i] /\ stats.appended = given
    BY DEF SW!ReportIsTrue
  <2>1. ~stats.failed /\ Len(buffer) <= 0
    BY DEF SW!evaluate, SW!metrics_snapshot, SW!max_buffered_row_count
  <2>2. SwExact /\ SwKept /\ SwTypes
    BY <2>1 DEF SwInv
  <2>3. given \in Nat /\ stats.appended \in Nat /\ Len(buffer) \in Nat /\ store \in Seq(Records)
    BY <2>2 DEF SwTypes, SwStats
  <2>4. Len(buffer) = 0 /\ stats.appended = given
    BY <2>1, <2>2, <2>3 DEF SwExact
  <2>5. \A t \in Tasks : task[t].stage # "append"
    <3> SUFFICES ASSUME NEW t \in Tasks, task[t].stage = "append" PROVE FALSE
      OBVIOUS
    <3>1. task[t].rows # <<>> /\ Len(task[t].rows) <= 0 /\ task[t].rows \in Seq(Records)
      BY <2>2, <2>4 DEF SwKept, SwFront, SwTypes, SwCall
    <3> QED
      BY <3>1
  <2>6. Len(store) = given /\ \A i \in 1..Len(store) : store[i] = i
    BY <2>2, <2>4, <2>5 DEF SwExact
  <2>7. store = [i \in 1..Len(store) |-> store[i]]
    BY <2>3
  <2> QED
    BY <2>4, <2>6, <2>7
<1> QED
  BY <1>1, SwInvariance, PTL

\* Every step of the sink is a step of the contract.
LEMMA SwContractStep ==
  ASSUME End \in Nat, SwInv, SwInv', [SW!Next]_SW!vars
  PROVE  [SwContract!Step]_SwContract!vars
<1>1. /\ ToSet(store) \subseteq ToSet(store') /\ settled \subseteq settled'
      /\ dropped \subseteq dropped'
  <2>1. CASE UNCHANGED SW!vars
    BY <2>1 DEF SW!vars
  <2>2. ASSUME NEW t \in Tasks, SwEntering(t)
        PROVE  store' = store /\ settled \subseteq settled' /\ dropped' = dropped
    <3>1. PICK c \in SwCall, rows \in Seq(Records), g \in 0..End : SwEnters(t, c, rows, g)
      BY <2>2 DEF SwEntering
    <3>2. dropped' = dropped /\ store' = store
      BY <3>1 DEF SwEnters
    <3>3. settled \subseteq settled'
      BY <3>1 DEF SwEnters, SwBranch
    <3> QED
      BY <3>2, <3>3
  <2>3. ASSUME NEW t \in Tasks, SW!RunAppend(t)
        PROVE  ToSet(store) \subseteq ToSet(store') /\ settled' = settled /\ dropped' = dropped
    <3>1. task[t].rows \in Seq(Records) /\ task[t].rows # <<>> /\ store \in Seq(Records)
      BY <2>3 DEF SW!RunAppend, SW!Flushing, SwInv, SwTypes, SwCall
    <3>2. SW!Request(task[t].rows) \in Seq(Records)
      BY <3>1, SwRequestFacts
    <3>3. store' = store \o SW!Request(task[t].rows) /\ settled' = settled /\ dropped' = dropped
      BY <2>3 DEF SW!RunAppend
    <3> QED
      BY <3>1, <3>2, <3>3, AppendRows
  <2>4. ASSUME NEW t \in Tasks, SW!AppendReturns(t) \/ SW!AppendFails(t)
        PROVE  store' = store /\ settled \subseteq settled' /\ dropped \subseteq dropped'
    BY <2>4 DEF SW!AppendReturns, SW!Returns, SW!AppendFails, SW!Raises
  <2>5. ASSUME NEW j \in abandoned, SW!RunLate(j)
        PROVE  ToSet(store) \subseteq ToSet(store') /\ settled' = settled /\ dropped' = dropped
    <3>1. j.batch \in Seq(Records) /\ store \in Seq(Records)
      BY DEF SwInv, SwTypes, SwJob
    <3>2. store' = store \o j.batch /\ settled' = settled /\ dropped' = dropped
      BY <2>5 DEF SW!RunLate
    <3> QED
      BY <3>1, <3>2, AppendRows
  <2> QED
    BY <2>1, <2>2, <2>3, <2>4, <2>5, SwSteps
<1>2. settled' \subseteq accepted' /\ settled' \subseteq Records
  <2>1. 1..given' \subseteq Records
    BY DEF SwInv, SwTypes, Records
  <2> QED
    BY <2>1 DEF SwInv, SwHistory
<1>3. settled' \subseteq ToSet(store') \cup dropped' /\ (dropped' # {} => overlapped')
  BY DEF SwInv, SwAccounted, SwKept
<1>4. SW!Durable = ToSet(store) /\ SW!Durable' = ToSet(store') /\ SW!Excused' = overlapped'
  BY DEF SW!Durable, SW!Excused, SW!ToSet, ToSet
<1> QED
  BY <1>1, <1>2, <1>3, <1>4 DEF SwContract!Step

\* BigQueryStorageWriteSink keeps the contract of a sink: what was accepted before a flush()
\* or close() that has returned is in the table and stays there, through requests that fail
\* one by one, the stream that opens in the middle of a flush, retries and late appends. The
\* rows that overlapping flushes take from the buffer without having appended them are
\* excepted, one by one.
THEOREM StorageWriteSinkImplementsContract == ASSUME End \in Nat PROVE SW!Spec => SwContract!Spec
<1>1. SW!Init => SwContract!Init
  <2> SUFFICES ASSUME SW!Init PROVE SwContract!Init
    OBVIOUS
  <2>1. store = <<>> /\ overlapped = FALSE /\ accepted = {} /\ settled = {} /\ dropped = {}
    BY DEF SW!Init
  <2>2. SW!Durable = {} /\ ~SW!Excused
    BY <2>1 DEF SW!Durable, SW!Excused, SW!ToSet
  <2> QED
    BY <2>1, <2>2 DEF SwContract!Init
<1>2. SwInv /\ SwInv' /\ [SW!Next]_SW!vars => [SwContract!Step]_SwContract!vars
  BY SwContractStep
<1>3. SW!Spec => []SwInv
  BY SwInvariance
<1> QED
  BY <1>1, <1>2, <1>3, PTL DEF SW!Spec, SwContract!Spec

-----------------------------------------------------------------------------
(* RedisSink. The inductive invariant says of every call that the commands its *)
(* attempt has executed are in Redis, and, as long as no two calls or attempts *)
(* overlap, that a key holds the newest of them: the records of the call in    *)
(* progress come after every record accepted before.                           *)
RS == INSTANCE RedisSink
RsContract == INSTANCE DurableSink WITH durable <- RS!Durable, dropped <- RS!Masked,
                                       excused <- RS!Excused

RsAssumptions ==
    /\ End \in Nat
    /\ \A c \in Configs : c.mset \in BOOLEAN /\ (c.mset => c.mode = "set")

RsCall == [call : {"idle", "write"}, own : SUBSET Nat, batch : Seq(Nat), attempt : Nat, done : Nat,
           refused : {"no", "retryable", "final"}]
RsJob == [id : Nat, batch : Seq(Nat), rest : Seq(Nat)]

RsMarks == {S \in SUBSET Nat : IsFiniteSet(S)}

RsTypes ==
    /\ config \in Configs
    /\ task \in [Tasks -> RsCall]
    /\ store \in Seq(Nat) /\ marks \in RsMarks
    /\ given \in Nat /\ given <= End
    /\ accepted \in SUBSET (1..given) /\ settled \in SUBSET accepted
    /\ stats \in [accepted_record_count : Nat, redis_mutation_count : Nat]
    /\ abandoned \in SUBSET RsJob /\ faults \in Nat
    /\ overlapped \in BOOLEAN

\* What a command for it has reached: a marker hides a record from the list script.
RsHeld == ToSet(store) \cup IF config.mode = "list" THEN marks ELSE {}

\* A batch: the records of the call, or the last of every key; of two for the same key the
\* later one comes later.
RsBatch(own, batch, mset) ==
    /\ ToSet(batch) \subseteq own
    /\ \A i, j \in 1..Len(batch) : i < j => batch[i] # batch[j]
    /\ \A i, j \in 1..Len(batch) : i < j /\ RS!Key(batch[i]) = RS!Key(batch[j]) =>
                                       batch[i] < batch[j] /\ ~mset
    /\ \A r \in own : \E s \in ToSet(batch) : RS!Key(s) = RS!Key(r) /\ s >= r
    /\ ~mset => own \subseteq ToSet(batch)

\* What an attempt that no command was refused of has executed is held.
RsExecuted(c, held) == c.refused = "no" => \A i \in 1..c.done : c.batch[i] \in held

RsCalls ==
    /\ \A t \in Tasks : /\ task[t].own \subseteq (1..given) \ accepted
                        /\ RsBatch(task[t].own, task[t].batch, config.mset)
                        /\ task[t].done <= Len(task[t].batch)
                        /\ RsExecuted(task[t], RsHeld)
                        /\ task[t].call = "idle" => task[t].own = {} /\ task[t].batch = <<>>
    /\ \A t, u \in Tasks : t # u => task[t].own \cap task[u].own = {}

\* A record that was accepted is held, or a later one of its key is.
RsAccepted ==
    \A r \in accepted : IF config.mode = "set" THEN \E s \in ToSet(store) : RS!Key(s) = RS!Key(r) /\ s >= r
                                               ELSE r \in RsHeld

RsCounts ==
    /\ stats.accepted_record_count = Cardinality(accepted)
    /\ stats.redis_mutation_count <= Cardinality(accepted \cap RsHeld)

\* The key of r holds it or a later record, in a store s.
RsHolds(r, s) ==
    \E i \in DOMAIN s : /\ RS!Key(s[i]) = RS!Key(r) /\ s[i] >= r
                        /\ \A j \in DOMAIN s : RS!Key(s[j]) = RS!Key(r) => j <= i

\* A call on its own.
RsAlone ==
    ~overlapped =>
        /\ \A t, u \in Tasks : t # u => task[t].call = "idle" \/ task[u].call = "idle"
        /\ \A t \in Tasks : \A r \in accepted, s \in task[t].own : r < s

RsNewest ==
    config.mode = "set" /\ ~overlapped =>
        /\ \A r \in accepted : RsHolds(r, store)
        /\ \A t \in Tasks : task[t].refused = "no" =>
               \A i \in 1..task[t].done : RsHolds(task[t].batch[i], store)

RsInv == RsTypes /\ RsCalls /\ RsAccepted /\ RsCounts /\ RsAlone /\ RsNewest

-----------------------------------------------------------------------------
LEMMA RsSameSet == \A s : RS!ToSet(s) = ToSet(s)
  BY DEF RS!ToSet, ToSet

\* One row more, or several.
LEMMA RsAppended ==
  ASSUME NEW s \in Seq(Nat), NEW x \in Nat
  PROVE  /\ Append(s, x) \in Seq(Nat) /\ Len(Append(s, x)) = Len(s) + 1 /\ Len(s) \in Nat
         /\ \A i \in 1..Len(s) : Append(s, x)[i] = s[i]
         /\ Append(s, x)[Len(s) + 1] = x
         /\ ToSet(Append(s, x)) = ToSet(s) \cup {x}
  BY S3AppendRows

\* A sequence without repetitions is as long as the set of its members is large, and any
\* other is longer.
LEMMA RsLength ==
  ASSUME NEW s \in Seq(Nat)
  PROVE  /\ IsFiniteSet(ToSet(s)) /\ ToSet(s) \in SUBSET Nat
         /\ Cardinality(ToSet(s)) \in Nat /\ Cardinality(ToSet(s)) <= Len(s)
         /\ (\A i, j \in 1..Len(s) : i < j => s[i] # s[j]) => Cardinality(ToSet(s)) = Len(s)
<1>1. Len(s) \in Nat /\ DOMAIN s = 1..Len(s) /\ s \in [1..Len(s) -> Nat]
  OBVIOUS
<1>2. s \in [1..Len(s) -> ToSet(s)] /\ \A t \in ToSet(s) : \E i \in 1..Len(s) : s[i] = t
  BY <1>1 DEF ToSet
<1>3. s \in Surjection(1..Len(s), ToSet(s))
  BY <1>2 DEF Surjection
<1>4. IsFiniteSet(1..Len(s)) /\ Cardinality(1..Len(s)) = Len(s)
  <2> DEFINE n == Len(s)
  <2>1. n \in Nat /\ 1 \in Int /\ n \in Int
    BY <1>1
  <2> HIDE DEF n
  <2>2. IsFiniteSet(1..n) /\ Cardinality(1..n) = n
    BY <2>1, FS_Interval
  <2> QED
    BY <2>2 DEF n
<1>5. /\ IsFiniteSet(ToSet(s)) /\ Cardinality(ToSet(s)) <= Cardinality(1..Len(s))
      /\ (Cardinality(ToSet(s)) = Cardinality(1..Len(s)) <=> s \in Injection(1..Len(s), ToSet(s)))
  BY <1>3, <1>4, FS_Surjection
<1>6. ASSUME \A i, j \in 1..Len(s) : i < j => s[i] # s[j] PROVE s \in Injection(1..Len(s), ToSet(s))
  <2>1. ASSUME NEW i \in 1..Len(s), NEW j \in 1..Len(s), s[i] = s[j] PROVE i = j
    <3>1. i \in Nat /\ j \in Nat /\ ~(i < j) /\ ~(j < i)
      BY <1>1, <1>6, <2>1
    <3> QED
      BY <3>1
  <2> QED
    BY <1>2, <2>1 DEF Injection, IsInjective
<1>7. ToSet(s) \in SUBSET Nat
  BY <1>1 DEF ToSet
<1>8. Cardinality(ToSet(s)) \in Nat
  BY <1>5, FS_CardinalityType
<1> QED
  BY <1>4, <1>5, <1>6, <1>7, <1>8

\* SetToSeq() gives each member of a finite set its place.
LEMMA RsSetToSeq ==
  ASSUME NEW S \in SUBSET Nat, IsFiniteSet(S)
  PROVE  /\ RS!SetToSeq(S) \in Seq(Nat) /\ ToSet(RS!SetToSeq(S)) = S
         /\ \A i, j \in 1..Len(RS!SetToSeq(S)) : i < j => RS!SetToSeq(S)[i] # RS!SetToSeq(S)[j]
<1> DEFINE n == Cardinality(S)
<1>1. n \in Nat /\ ExistsBijection(1..n, S)
  BY FS_CardinalityType
<1>2. RS!Cardinality(S) = n
  BY DEF RS!Cardinality, Cardinality
<1> HIDE DEF n
<1>3. \E f \in [1..n -> S] : RS!IsInjective(f)
  <2>1. PICK f \in Bijection(1..n, S) : TRUE
    BY <1>1 DEF ExistsBijection
  <2>2. f \in [1..n -> S] /\ \A x, y \in DOMAIN f : f[x] = f[y] => x = y
    BY <2>1 DEF Bijection, Injection, IsInjective
  <2> QED
    BY <2>2 DEF RS!IsInjective
<1> DEFINE q == RS!SetToSeq(S)
<1>4. q \in [1..n -> S] /\ RS!IsInjective(q)
  BY <1>2, <1>3 DEF RS!SetToSeq
<1> HIDE DEF q
<1>5. q \in Injection(1..n, S)
  BY <1>4 DEF Injection, IsInjective, RS!IsInjective
<1>6. Cardinality(1..n) = n
  BY <1>1, FS_Interval
<1>7. q \in Surjection(1..n, S)
  BY <1>5, <1>6, FS_Injection DEF n
<1>8. \A t \in S : \E i \in 1..n : q[i] = t
  BY <1>7 DEF Surjection
<1>9. q \in Seq(Nat) /\ DOMAIN q = 1..n /\ Len(q) = n
  <2>1. q \in [1..n -> Nat] /\ DOMAIN q = 1..n
    BY <1>4
  <2> QED
    BY <1>1, <2>1
<1>10. ASSUME NEW i \in 1..n, NEW j \in 1..n, i < j PROVE q[i] # q[j]
  BY <1>1, <1>4, <1>9, <1>10 DEF RS!IsInjective
<1>11. ToSet(q) = S
  BY <1>4, <1>8, <1>9 DEF ToSet
<1>12. \A i, j \in 1..Len(q) : i < j => q[i] # q[j]
  BY <1>9, <1>10
<1> QED
  BY <1>9, <1>11, <1>12 DEF q

-----------------------------------------------------------------------------
\* A key that holds r or a later record still does when one is set that is not before r.
LEMMA RsSetOne ==
  ASSUME NEW r \in Nat, NEW x \in Nat, NEW old \in Seq(Nat), NEW new, new = Append(old, x),
         RsHolds(r, old), RS!Key(x) = RS!Key(r) => x >= r
  PROVE  RsHolds(r, new)
<1>1. /\ Len(new) = Len(old) + 1 /\ Len(old) \in Nat /\ new[Len(old) + 1] = x
      /\ \A i \in 1..Len(old) : new[i] = old[i]
      /\ DOMAIN old = 1..Len(old) /\ DOMAIN new = 1..(Len(old) + 1)
  BY RsAppended
<1>2. CASE RS!Key(x) = RS!Key(r)
  <2>1. Len(old) + 1 \in DOMAIN new /\ \A j \in DOMAIN new : j <= Len(old) + 1
    BY <1>1
  <2> QED
    BY <1>1, <1>2, <2>1 DEF RsHolds
<1>3. CASE RS!Key(x) # RS!Key(r)
  <2>1. PICK i \in 1..Len(old) :
           /\ RS!Key(old[i]) = RS!Key(r) /\ old[i] >= r
           /\ \A j \in 1..Len(old) : RS!Key(old[j]) = RS!Key(r) => j <= i
    BY <1>1 DEF RsHolds
  <2>2. i \in DOMAIN new /\ RS!Key(new[i]) = RS!Key(r) /\ new[i] >= r
    BY <1>1, <2>1
  <2>3. ASSUME NEW j \in DOMAIN new, RS!Key(new[j]) = RS!Key(r) PROVE j <= i
    <3>1. j # Len(old) + 1
      BY <1>1, <1>3, <2>3
    <3>2. j \in 1..Len(old)
      BY <1>1, <3>1
    <3> QED
      BY <1>1, <2>1, <2>3, <3>2
  <2> QED
    BY <2>2, <2>3 DEF RsHolds
<1> QED
  BY <1>2, <1>3

\* The record that was set last.
LEMMA RsSetLast ==
  ASSUME NEW x \in Nat, NEW old \in Seq(Nat), NEW new, new = Append(old, x)
  PROVE  RsHolds(x, new)
<1>1. /\ Len(old) \in Nat /\ new[Len(old) + 1] = x /\ DOMAIN new = 1..(Len(old) + 1)
  BY RsAppended
<1>2. Len(old) + 1 \in DOMAIN new /\ \A j \in DOMAIN new : j <= Len(old) + 1
  BY <1>1
<1> QED
  BY <1>1, <1>2 DEF RsHolds

\* Several keys set at once.
LEMMA RsSetMany ==
  ASSUME NEW r \in Nat, NEW b \in Seq(Nat), NEW old \in Seq(Nat), NEW new, new = old \o b,
         \A i, j \in 1..Len(b) : i < j => RS!Key(b[i]) # RS!Key(b[j]),
         \A i \in 1..Len(b) : RS!Key(b[i]) = RS!Key(r) => b[i] >= r,
         RsHolds(r, old) \/ \E i \in 1..Len(b) : RS!Key(b[i]) = RS!Key(r)
  PROVE  RsHolds(r, new)
<1>1. /\ Len(new) = Len(old) + Len(b) /\ Len(old) \in Nat /\ Len(b) \in Nat
      /\ \A i \in 1..Len(old) : new[i] = old[i]
      /\ \A i \in 1..Len(b) : new[Len(old) + i] = b[i]
      /\ DOMAIN old = 1..Len(old) /\ DOMAIN new = 1..(Len(old) + Len(b))
  BY AppendRows
<1>2. \A j \in 1..(Len(old) + Len(b)) : j \notin 1..Len(old) =>
          j - Len(old) \in 1..Len(b) /\ j = Len(old) + (j - Len(old))
  BY <1>1
<1>3. CASE \E i \in 1..Len(b) : RS!Key(b[i]) = RS!Key(r)
  <2>1. PICK i \in 1..Len(b) : RS!Key(b[i]) = RS!Key(r)
    BY <1>3
  <2>2. Len(old) + i \in DOMAIN new /\ new[Len(old) + i] = b[i] /\ b[i] >= r
    BY <1>1, <2>1
  <2>3. ASSUME NEW j \in DOMAIN new, RS!Key(new[j]) = RS!Key(r) PROVE j <= Len(old) + i
    <3>1. CASE j \in 1..Len(old)
      BY <1>1, <3>1
    <3>2. CASE j \notin 1..Len(old)
      <4> DEFINE k == j - Len(old)
      <4>1. k \in 1..Len(b) /\ j = Len(old) + k
        BY <1>1, <1>2, <3>2
      <4> HIDE DEF k
      <4>2. RS!Key(b[k]) = RS!Key(b[i])
        BY <1>1, <2>1, <2>3, <4>1
      <4>3. ~(i < k)
        BY <4>1, <4>2
      <4> QED
        BY <1>1, <4>1, <4>3
    <3> QED
      BY <3>1, <3>2
  <2> QED
    BY <2>1, <2>2, <2>3 DEF RsHolds
<1>4. CASE RsHolds(r, old) /\ \A i \in 1..Len(b) : RS!Key(b[i]) # RS!Key(r)
  <2>1. PICK i \in 1..Len(old) :
           /\ RS!Key(old[i]) = RS!Key(r) /\ old[i] >= r
           /\ \A j \in 1..Len(old) : RS!Key(old[j]) = RS!Key(r) => j <= i
    BY <1>1, <1>4 DEF RsHolds
  <2>2. i \in DOMAIN new /\ RS!Key(new[i]) = RS!Key(r) /\ new[i] >= r
    BY <1>1, <2>1
  <2>3. ASSUME NEW j \in DOMAIN new, RS!Key(new[j]) = RS!Key(r) PROVE j <= i
    <3>1. j \in 1..Len(old)
      BY <1>1, <1>2, <1>4, <2>3
    <3> QED
      BY <1>1, <2>1, <2>3, <3>1
  <2> QED
    BY <2>2, <2>3 DEF RsHolds
<1> QED
  BY <1>3, <1>4

-----------------------------------------------------------------------------
LEMMA RsFinite ==
  ASSUME RsTypes
  PROVE  /\ IsFiniteSet(1..given) /\ IsFiniteSet(accepted)
         /\ \A T \in SUBSET accepted : IsFiniteSet(T) /\ Cardinality(T) \in Nat
<1>1. IsFiniteSet(1..given)
  BY FS_Interval DEF RsTypes
<1>2. IsFiniteSet(accepted)
  BY <1>1, FS_Subset DEF RsTypes
<1> QED
  BY <1>1, <1>2, FS_Subset, FS_CardinalityType

\* What Redis holds only grows, and with it what is known of the accepted records.
LEMMA RsGrow ==
  ASSUME RsInv, config' = config, accepted' = accepted, stats' = stats,
         store' \in Seq(Nat), ToSet(store) \subseteq ToSet(store'), marks \subseteq marks'
  PROVE  RsHeld \subseteq RsHeld' /\ RsAccepted' /\ RsCounts'
<1>1. RsHeld \subseteq RsHeld'
  BY DEF RsHeld
<1>2. RsAccepted'
  BY <1>1 DEF RsInv, RsAccepted
<1>3. RsCounts'
  <2> DEFINE S == accepted \cap RsHeld
             T == accepted \cap RsHeld'
  <2>1. S \in SUBSET T /\ IsFiniteSet(T) /\ Cardinality(S) \in Nat /\ Cardinality(T) \in Nat
    BY <1>1, RsFinite DEF RsInv
  <2> HIDE DEF S, T
  <2>2. Cardinality(S) <= Cardinality(T)
    BY <2>1, FS_Subset
  <2>3. stats.redis_mutation_count \in Nat
    BY DEF RsInv, RsTypes
  <2>4. stats.redis_mutation_count <= Cardinality(S)
    BY DEF RsInv, RsCounts, S
  <2>5. stats.redis_mutation_count <= Cardinality(T)
    BY <2>1, <2>2, <2>3, <2>4
  <2> QED
    BY <2>5 DEF RsInv, RsCounts, T
<1> QED
  BY <1>1, <1>2, <1>3

\* One call goes on, and nothing is accepted.
LEMMA RsStep ==
  ASSUME RsAssumptions, RsInv, NEW t \in Tasks, NEW n \in RsCall, task' = [task EXCEPT ![t] = n],
         config' = config, accepted' = accepted, settled' = settled, stats' = stats,
         store' \in Seq(Nat), marks' \in RsMarks,
         ToSet(store) \subseteq ToSet(store'), marks \subseteq marks',
         given' \in Nat, given <= given', given' <= End, faults' \in Nat, abandoned' \in SUBSET RsJob,
         overlapped' \in BOOLEAN,
         n.own \subseteq (1..given') \ accepted, RsBatch(n.own, n.batch, config.mset),
         n.done <= Len(n.batch), RsExecuted(n, RsHeld'),
         n.call = "idle" => n.own = {} /\ n.batch = <<>>,
         \A u \in Tasks : u # t => n.own \cap task[u].own = {},
         ~overlapped' => ~overlapped,
         ~overlapped' => \A u \in Tasks : u # t => n.call = "idle" \/ task[u].call = "idle",
         ~overlapped' => \A r \in accepted, s \in n.own : r < s,
         config.mode = "set" /\ ~overlapped' => \A r \in accepted : RsHolds(r, store'),
         config.mode = "set" /\ ~overlapped' /\ n.refused = "no" =>
             \A i \in 1..n.done : RsHolds(n.batch[i], store'),
         config.mode = "set" /\ ~overlapped' =>
             \A u \in Tasks : u # t /\ task[u].refused = "no" =>
                 \A i \in 1..task[u].done : RsHolds(task[u].batch[i], store')
  PROVE  RsInv'
<1>1. RsHeld \subseteq RsHeld' /\ RsAccepted' /\ RsCounts'
  BY RsGrow
<1>2. /\ task \in [Tasks -> RsCall] /\ task'[t] = n
      /\ \A u \in Tasks : u # t => task'[u] = task[u]
  BY DEF RsInv, RsTypes
<1>3. RsTypes'
  <2>1. task' \in [Tasks -> RsCall]
    BY <1>2
  <2>2. given \in Nat /\ accepted \in SUBSET (1..given) /\ settled \in SUBSET accepted
        /\ config \in Configs /\ stats \in [accepted_record_count : Nat, redis_mutation_count : Nat]
    BY DEF RsInv, RsTypes
  <2>3. accepted \in SUBSET (1..given')
    BY <2>2
  <2> QED
    BY <2>1, <2>2, <2>3 DEF RsTypes
<1>4. ASSUME NEW u \in Tasks
      PROVE  /\ task'[u].own \subseteq (1..given') \ accepted
             /\ RsBatch(task'[u].own, task'[u].batch, config.mset)
             /\ task'[u].done <= Len(task'[u].batch)
             /\ RsExecuted(task'[u], RsHeld')
             /\ task'[u].call = "idle" => task'[u].own = {} /\ task'[u].batch = <<>>
  <2>1. CASE u = t
    BY <1>2, <2>1
  <2>2. CASE u # t
    <3>1. /\ task[u].own \subseteq (1..given) \ accepted
          /\ RsBatch(task[u].own, task[u].batch, config.mset)
          /\ task[u].done <= Len(task[u].batch)
          /\ RsExecuted(task[u], RsHeld)
          /\ task[u].call = "idle" => task[u].own = {} /\ task[u].batch = <<>>
      BY DEF RsInv, RsCalls
    <3>2. RsExecuted(task[u], RsHeld')
      BY <1>1, <3>1 DEF RsExecuted
    <3>3. given \in Nat
      BY DEF RsInv, RsTypes
    <3> QED
      BY <1>2, <2>2, <3>1, <3>2, <3>3
  <2> QED
    BY <2>1, <2>2
<1>5. ASSUME NEW u \in Tasks, NEW v \in Tasks, u # v PROVE task'[u].own \cap task'[v].own = {}
  <2>1. task[u].own \cap task[v].own = {}
    BY <1>5 DEF RsInv, RsCalls
  <2>2. CASE u = t
    BY <1>2, <1>5, <2>2
  <2>3. CASE v = t
    BY <1>2, <1>5, <2>3
  <2>4. CASE u # t /\ v # t
    BY <1>2, <2>1, <2>4
  <2> QED
    BY <2>2, <2>3, <2>4
<1>6. RsCalls'
  BY <1>4, <1>5 DEF RsCalls, RsBatch, RsExecuted
<1>7. RsAlone'
  <2> SUFFICES ASSUME ~overlapped'
               PROVE  /\ \A u, v \in Tasks : u # v => task'[u].call = "idle" \/ task'[v].call = "idle"
                      /\ \A u \in Tasks : \A r \in accepted, s \in task'[u].own : r < s
    BY DEF RsAlone
  <2>1. /\ \A u, v \in Tasks : u # v => task[u].call = "idle" \/ task[v].call = "idle"
        /\ \A u \in Tasks : \A r \in accepted, s \in task[u].own : r < s
    BY DEF RsInv, RsAlone
  <2>2. ASSUME NEW u \in Tasks, NEW v \in Tasks, u # v
        PROVE  task'[u].call = "idle" \/ task'[v].call = "idle"
    BY <1>2, <2>1, <2>2
  <2>3. ASSUME NEW u \in Tasks PROVE \A r \in accepted, s \in task'[u].own : r < s
    BY <1>2, <2>1
  <2> QED
    BY <2>2, <2>3
<1>8. RsNewest'
  <2> SUFFICES ASSUME config.mode = "set", ~overlapped'
               PROVE  /\ \A r \in accepted : RsHolds(r, store')
                      /\ \A u \in Tasks : task'[u].refused = "no" =>
                             \A i \in 1..task'[u].done : RsHolds(task'[u].batch[i], store')
    BY DEF RsNewest, RsHolds
  <2>1. ASSUME NEW u \in Tasks, task'[u].refused = "no"
        PROVE  \A i \in 1..task'[u].done : RsHolds(task'[u].batch[i], store')
    BY <1>2, <2>1
  <2> QED
    BY <2>1
<1> QED
  BY <1>1, <1>3, <1>6, <1>7, <1>8 DEF RsInv

\* Nothing of Redis changes, so what a key holds stays.
LEMMA RsQuiet ==
  ASSUME RsInv, config.mode = "set", ~overlapped, store' = store
  PROVE  /\ \A r \in accepted : RsHolds(r, store')
         /\ \A u \in Tasks : task[u].refused = "no" =>
                \A i \in 1..task[u].done : RsHolds(task[u].batch[i], store')
  BY DEF RsInv, RsNewest

-----------------------------------------------------------------------------
LEMMA RsEmpty == ToSet(<<>>) = {} /\ <<>> \in Seq(Nat) /\ Len(<<>>) = 0
  BY DEF ToSet

LEMMA RsIdle ==
  /\ RS!Idle \in RsCall /\ RS!Idle.call = "idle" /\ RS!Idle.own = {} /\ RS!Idle.batch = <<>>
  /\ RS!Idle.done = 0 /\ RS!Idle.refused = "no"
  /\ \A m : RsBatch({}, <<>>, m)
<1>1. \A m : RsBatch({}, <<>>, m)
  BY RsEmpty DEF RsBatch
<1>2. <<>> \in Seq(Nat)
  BY RsEmpty
<1> QED
  BY <1>1, <1>2 DEF RS!Idle, RsCall

\* What is known of a call.
LEMMA RsTask ==
  ASSUME RsInv, NEW t \in Tasks
  PROVE  /\ task[t] \in RsCall /\ task[t].batch \in Seq(Nat) /\ Len(task[t].batch) \in Nat
         /\ task[t].done \in Nat /\ task[t].attempt \in Nat
         /\ task[t].own \in SUBSET Nat /\ task[t].own \subseteq (1..given) \ accepted
         /\ RsBatch(task[t].own, task[t].batch, config.mset)
         /\ task[t].done <= Len(task[t].batch)
         /\ RsExecuted(task[t], RsHeld)
         /\ task[t].call = "idle" => task[t].own = {} /\ task[t].batch = <<>>
         /\ task[t].refused \in {"no", "retryable", "final"} /\ task[t].call \in {"idle", "write"}
         /\ \A u \in Tasks : u # t => task[t].own \cap task[u].own = {}
         /\ ~overlapped => \A u \in Tasks : u # t => task[t].call = "idle" \/ task[u].call = "idle"
         /\ ~overlapped => \A r \in accepted, s \in task[t].own : r < s
<1>1. task[t] \in RsCall
  BY DEF RsInv, RsTypes
<1>2. task[t].batch \in Seq(Nat)
  BY <1>1 DEF RsCall
<1>3. Len(task[t].batch) \in Nat
  BY <1>2
<1>4. /\ task[t].own \subseteq (1..given) \ accepted
      /\ RsBatch(task[t].own, task[t].batch, config.mset)
      /\ task[t].done <= Len(task[t].batch)
      /\ RsExecuted(task[t], RsHeld)
      /\ task[t].call = "idle" => task[t].own = {} /\ task[t].batch = <<>>
      /\ \A u \in Tasks : u # t => task[t].own \cap task[u].own = {}
  BY DEF RsInv, RsCalls
<1>5. /\ ~overlapped => \A u \in Tasks : u # t => task[t].call = "idle" \/ task[u].call = "idle"
      /\ ~overlapped => \A r \in accepted, s \in task[t].own : r < s
  BY DEF RsInv, RsAlone
<1>6. /\ task[t].done \in Nat /\ task[t].attempt \in Nat /\ task[t].own \in SUBSET Nat
      /\ task[t].refused \in {"no", "retryable", "final"} /\ task[t].call \in {"idle", "write"}
  BY <1>1 DEF RsCall
<1> QED
  BY <1>1, <1>2, <1>3, <1>4, <1>5, <1>6

LEMMA RsHas ==
  ASSUME RsInv
  PROVE  /\ config \in Configs /\ store \in Seq(Nat) /\ marks \in RsMarks
         /\ given \in Nat /\ given <= End /\ faults \in Nat /\ abandoned \in SUBSET RsJob
         /\ overlapped \in BOOLEAN /\ accepted \in SUBSET (1..given)
  BY DEF RsInv, RsTypes

\* The last records of every key.
LEMMA RsMapping ==
  ASSUME NEW g \in Nat, NEW k \in 1..2
  PROVE  LET batch == [i \in 1..k |-> g + i]
         IN  /\ batch \in Seq(Nat) /\ RS!ToSet(batch) = (g + 1)..(g + k)
             /\ RsBatch((g + 1)..(g + k), batch, FALSE)
             /\ RS!Mapping(batch) \in Seq(Nat) /\ RsBatch((g + 1)..(g + k), RS!Mapping(batch), TRUE)
<1> DEFINE batch == [i \in 1..k |-> g + i]
           own == (g + 1)..(g + k)
           S == {r \in own : \A s \in own : RS!Key(s) = RS!Key(r) => s <= r}
<1>1. batch \in Seq(Nat) /\ Len(batch) = k /\ DOMAIN batch = 1..k /\ k \in Nat
      /\ \A i \in 1..k : batch[i] = g + i
  OBVIOUS
<1>2. ToSet(batch) = own
  <2>1. \A r \in own : r - g \in 1..k /\ r = g + (r - g)
    OBVIOUS
  <2>2. \A i \in 1..k : g + i \in own
    OBVIOUS
  <2> QED
    BY <1>1, <2>1, <2>2 DEF ToSet
<1>3. RsBatch(own, batch, FALSE)
  <2> HIDE DEF batch
  <2>1. \A i, j \in 1..k : i < j => batch[i] < batch[j] /\ batch[i] # batch[j]
    BY <1>1
  <2>2. \A r \in own : r >= r
    OBVIOUS
  <2> HIDE DEF own
  <2> QED
    BY <1>1, <1>2, <2>1, <2>2 DEF RsBatch
<1>4. S \in SUBSET Nat /\ IsFiniteSet(S) /\ S \subseteq own
  <2>1. IsFiniteSet(own) /\ own \in SUBSET Nat
    BY FS_Interval
  <2> QED
    BY <2>1, FS_Subset
<1>5. \A r \in own : \E s \in S : RS!Key(s) = RS!Key(r) /\ s >= r
  <2> SUFFICES ASSUME NEW r \in own PROVE \E s \in S : RS!Key(s) = RS!Key(r) /\ s >= r
    OBVIOUS
  <2>1. own \subseteq {g + 1, g + 2} /\ (g + 2 \in own => k = 2)
    OBVIOUS
  <2>2. CASE g + 2 \in own /\ RS!Key(g + 2) = RS!Key(r)
    <3>1. g + 2 \in S /\ g + 2 >= r
      BY <2>1, <2>2
    <3> QED
      BY <2>2, <3>1
  <2>3. CASE ~(g + 2 \in own /\ RS!Key(g + 2) = RS!Key(r))
    <3>1. r = g + 1 /\ r >= r
      BY <2>1, <2>3
    <3>2. \A s \in own : RS!Key(s) = RS!Key(r) => s <= r
      BY <2>1, <2>3, <3>1
    <3> QED
      BY <3>1, <3>2
  <2> QED
    BY <2>2, <2>3
<1> DEFINE m == RS!SetToSeq(S)
<1>6. /\ m \in Seq(Nat) /\ ToSet(m) = S
      /\ \A i, j \in 1..Len(m) : i < j => m[i] # m[j]
  BY <1>4, RsSetToSeq
<1>7. RS!Mapping(batch) = m
  BY <1>2, RsSameSet DEF RS!Mapping
<1> HIDE DEF m
<1>8. \A i \in 1..Len(m) : m[i] \in S
  <2>1. DOMAIN m = 1..Len(m)
    BY <1>6
  <2>2. \A i \in 1..Len(m) : m[i] \in ToSet(m)
    BY <2>1 DEF ToSet
  <2> QED
    BY <1>6, <2>2
<1>9. ASSUME NEW i \in 1..Len(m), NEW j \in 1..Len(m), i < j PROVE RS!Key(m[i]) # RS!Key(m[j])
  <2>1. m[i] \in S /\ m[j] \in S /\ m[i] # m[j]
    BY <1>6, <1>8, <1>9
  <2>2. RS!Key(m[i]) = RS!Key(m[j]) => m[i] <= m[j] /\ m[j] <= m[i]
    BY <2>1
  <2>3. m[i] \in Nat /\ m[j] \in Nat
    BY <1>4, <2>1
  <2> QED
    BY <2>1, <2>2, <2>3
<1>10. RsBatch(own, m, TRUE)
  <2> HIDE DEF S, own
  <2> QED
    BY <1>4, <1>5, <1>6, <1>9 DEF RsBatch
<1> QED
  BY <1>1, <1>2, <1>3, <1>6, <1>7, <1>10, RsSameSet

LEMMA RsWriteInv ==
  ASSUME RsAssumptions, RsInv, NEW t \in Tasks, NEW k \in 1..2, RS!Write(t, k)
  PROVE  RsInv'
<1> DEFINE batch == [i \in 1..k |-> given + i]
           own == (given + 1)..(given + k)
           q == IF config.mset THEN RS!Mapping(batch) ELSE batch
           n == [RS!Idle EXCEPT !.call = "write", !.own = own, !.attempt = 1, !.batch = q]
<1>1. given \in Nat /\ k \in Nat /\ given + k <= End /\ config.mset \in BOOLEAN
      /\ config \in Configs /\ store \in Seq(Nat) /\ marks \in RsMarks /\ faults \in Nat
      /\ abandoned \in SUBSET RsJob /\ overlapped \in BOOLEAN /\ accepted \in SUBSET (1..given)
  BY RsHas DEF RsAssumptions, RS!Write
<1>2. /\ batch \in Seq(Nat) /\ RS!ToSet(batch) = own /\ RsBatch(own, batch, FALSE)
      /\ RS!Mapping(batch) \in Seq(Nat) /\ RsBatch(own, RS!Mapping(batch), TRUE)
  BY <1>1, RsMapping
<1>3. /\ given' = given + k /\ config' = config /\ stats' = stats /\ store' = store
      /\ accepted' = accepted /\ settled' = settled /\ faults' = faults /\ marks' = marks
      /\ abandoned' = abandoned
      /\ overlapped' = (overlapped \/ \E u \in Tasks : RS!Busy(u))
      /\ task' = [task EXCEPT ![t] = n]
  BY <1>2 DEF RS!Write
<1> HIDE DEF batch
<1>4. q \in Seq(Nat) /\ RsBatch(own, q, config.mset)
  BY <1>1, <1>2
<1>5. own \in SUBSET Nat /\ own \subseteq 1..(given + k) /\ own \cap (1..given) = {}
      /\ \A r \in accepted, s \in own : r < s
  BY <1>1
<1> HIDE DEF q, own
<1>6. /\ n \in RsCall /\ n.call = "write" /\ n.own = own /\ n.batch = q /\ n.done = 0
      /\ n.refused = "no"
  BY <1>4, <1>5, RsIdle DEF RsCall
<1> HIDE DEF n
<1>7. /\ n.own \subseteq (1..given') \ accepted /\ n.done <= Len(n.batch) /\ RsExecuted(n, RsHeld')
      /\ RsBatch(n.own, n.batch, config.mset) /\ given' \in Nat /\ given <= given' /\ given' <= End
      /\ n.call # "idle"
  <2>1. Len(q) \in Nat
    BY <1>4
  <2> QED
    BY <1>1, <1>3, <1>4, <1>5, <1>6, <2>1 DEF RsExecuted
<1>8. \A u \in Tasks : u # t => n.own \cap task[u].own = {}
  BY <1>5, <1>6, RsTask
<1>9. /\ overlapped' \in BOOLEAN /\ (~overlapped' => ~overlapped)
      /\ ~overlapped' => \A u \in Tasks : task[u].call = "idle"
  BY <1>1, <1>3 DEF RS!Busy
<1>10. /\ config.mode = "set" /\ ~overlapped' => \A r \in accepted : RsHolds(r, store')
       /\ config.mode = "set" /\ ~overlapped' =>
             \A u \in Tasks : u # t /\ task[u].refused = "no" =>
                 \A i \in 1..task[u].done : RsHolds(task[u].batch[i], store')
       /\ \A i \in 1..n.done : RsHolds(n.batch[i], store')
  BY <1>3, <1>6, <1>9, RsQuiet
<1>11. ~overlapped' => \A r \in accepted, s \in n.own : r < s
  BY <1>5, <1>6
<1> QED
  BY <1>1, <1>3, <1>6, <1>7, <1>8, <1>9, <1>10, <1>11, RsStep

-----------------------------------------------------------------------------
LEMMA RsMarked == \A S \in RsMarks, r \in Nat : S \cup {r} \in RsMarks
  BY FS_AddElement DEF RsMarks

\* A call ends without an answer that counts, or tries again.
LEMMA RsRetryOrRaise ==
  ASSUME RsAssumptions, RsInv, NEW t \in Tasks, RS!Retry(t) \/ RS!Raise(t),
         config' = config, accepted' = accepted, settled' = settled, stats' = stats,
         store' = store, marks' = marks, given' = given, overlapped' = overlapped,
         faults' \in Nat, abandoned' \in SUBSET RsJob
  PROVE  RsInv'
<1> DEFINE c == task[t]
           k == c.attempt + 1
           a == [c EXCEPT !.attempt = k, !.done = 0, !.refused = "no"]
<1>1. /\ c \in RsCall /\ c.attempt \in Nat /\ c.own \subseteq (1..given) \ accepted
      /\ RsBatch(c.own, c.batch, config.mset) /\ Len(c.batch) \in Nat
      /\ c.call = "idle" => c.own = {} /\ c.batch = <<>>
      /\ \A u \in Tasks : u # t => c.own \cap task[u].own = {}
      /\ ~overlapped => \A u \in Tasks : u # t => c.call = "idle" \/ task[u].call = "idle"
      /\ ~overlapped => \A r \in accepted, s \in c.own : r < s
  BY RsTask
<1>2. task \in [Tasks -> RsCall]
  BY DEF RsInv, RsTypes
<1>3. task' = [task EXCEPT ![t] = a] \/ task' = [task EXCEPT ![t] = RS!Idle]
  <2>1. CASE RS!Retry(t)
    BY <1>2, <2>1 DEF RS!Retry, RsCall
  <2>2. CASE RS!Raise(t)
    BY <2>2 DEF RS!Raise
  <2> QED
    BY <2>1, <2>2
<1>4. k \in Nat /\ 0 \in Nat /\ "no" \in {"no", "retryable", "final"}
  BY <1>1
<1> HIDE DEF c, k
<1>5. /\ a \in RsCall /\ a.call = c.call /\ a.own = c.own /\ a.batch = c.batch /\ a.done = 0
      /\ a.refused = "no"
  BY <1>1, <1>4 DEF RsCall
<1> HIDE DEF a
<1>6. ASSUME NEW n \in RsCall, task' = [task EXCEPT ![t] = n], n.done = 0,
             n.own \subseteq (1..given) \ accepted, RsBatch(n.own, n.batch, config.mset),
             n.call = "idle" => n.own = {} /\ n.batch = <<>>,
             \A u \in Tasks : u # t => n.own \cap task[u].own = {},
             ~overlapped => \A u \in Tasks : u # t => n.call = "idle" \/ task[u].call = "idle",
             ~overlapped => \A r \in accepted, s \in n.own : r < s
      PROVE  RsInv'
  <2>1. RsExecuted(n, RsHeld') /\ \A i \in 1..n.done : RsHolds(n.batch[i], store')
    BY <1>6 DEF RsExecuted
  <2>2. /\ config.mode = "set" /\ ~overlapped' => \A r \in accepted : RsHolds(r, store')
        /\ config.mode = "set" /\ ~overlapped' =>
               \A u \in Tasks : u # t /\ task[u].refused = "no" =>
                   \A i \in 1..task[u].done : RsHolds(task[u].batch[i], store')
    BY RsQuiet
  <2>3. /\ store' \in Seq(Nat) /\ marks' \in RsMarks /\ given' \in Nat /\ given <= given'
        /\ given' <= End /\ overlapped' \in BOOLEAN
    BY RsHas
  <2>4. n.done <= Len(n.batch)
    <3>1. n.batch \in Seq(Nat)
      BY DEF RsCall
    <3>2. Len(n.batch) \in Nat
      BY <3>1
    <3> QED
      BY <1>6, <3>2
  <2> QED
    BY <1>6, <2>1, <2>2, <2>3, <2>4, RsStep
<1>7. CASE task' = [task EXCEPT ![t] = a]
  <2>1. /\ a.own \subseteq (1..given) \ accepted /\ RsBatch(a.own, a.batch, config.mset)
        /\ (a.call = "idle" => a.own = {} /\ a.batch = <<>>)
        /\ (\A u \in Tasks : u # t => a.own \cap task[u].own = {})
        /\ (~overlapped => \A u \in Tasks : u # t => a.call = "idle" \/ task[u].call = "idle")
        /\ (~overlapped => \A r \in accepted, s \in a.own : r < s)
    BY <1>1, <1>5
  <2> QED
    BY <1>5, <1>6, <1>7, <2>1
<1>8. CASE task' = [task EXCEPT ![t] = RS!Idle]
  <2>1. RsBatch(RS!Idle.own, RS!Idle.batch, config.mset)
    BY RsIdle
  <2> QED
    BY <1>6, <1>8, <2>1, RsIdle
<1> QED
  BY <1>3, <1>7, <1>8

LEMMA RsFailsInv ==
  ASSUME RsAssumptions, RsInv, NEW t \in Tasks, RS!AttemptFails(t)
  PROVE  RsInv'
<1> DEFINE c == task[t]
           open == SubSeq(c.batch, c.done + 1, Len(c.batch))
<1>1. /\ config' = config /\ accepted' = accepted /\ settled' = settled /\ stats' = stats
      /\ store' = store /\ marks' = marks /\ given' = given /\ overlapped' = overlapped
      /\ faults' = faults + 1 /\ (RS!Retry(t) \/ RS!Raise(t))
  BY DEF RS!AttemptFails
<1>2. PICK rest \in {<<>>, open} :
         abandoned' = abandoned \cup {[id |-> faults + 1, batch |-> c.batch, rest |-> rest]}
  BY DEF RS!AttemptFails
<1>3. c.batch \in Seq(Nat) /\ c.done \in Nat /\ faults \in Nat /\ abandoned \in SUBSET RsJob
  BY RsTask, RsHas
<1> HIDE DEF c
<1>4. open \in Seq(Nat)
  BY <1>3
<1> HIDE DEF open
<1>5. rest \in Seq(Nat) /\ faults' \in Nat
  <2>1. rest = <<>> \/ rest = open
    BY <1>2
  <2>2. rest \in Seq(Nat)
    BY <1>4, <2>1, RsEmpty
  <2>3. faults' \in Nat
    BY <1>1, <1>3
  <2> QED
    BY <2>2, <2>3
<1>6. abandoned' \in SUBSET RsJob
  BY <1>2, <1>3, <1>5 DEF RsJob
<1> QED
  BY <1>1, <1>5, <1>6, RsRetryOrRaise

\* A call goes on with more of its commands done: a command was refused, or executed.
LEMMA RsDoneInv ==
  ASSUME RsAssumptions, RsInv, NEW t \in Tasks, NEW d \in Nat, NEW why \in {"no", "retryable", "final"},
         task[t].call # "idle", d <= Len(task[t].batch),
         task' = [task EXCEPT ![t].done = d, ![t].refused = why],
         config' = config, accepted' = accepted, settled' = settled, stats' = stats,
         given' = given, overlapped' = overlapped, abandoned' = abandoned, faults' \in Nat,
         store' \in Seq(Nat), marks' \in RsMarks,
         ToSet(store) \subseteq ToSet(store'), marks \subseteq marks',
         why = "no" => \A i \in 1..d : task[t].batch[i] \in RsHeld',
         config.mode = "set" /\ ~overlapped => \A r \in accepted : RsHolds(r, store'),
         config.mode = "set" /\ ~overlapped /\ why = "no" =>
             \A i \in 1..d : RsHolds(task[t].batch[i], store')
  PROVE  RsInv'
<1> DEFINE c == task[t]
           n == [c EXCEPT !.done = d, !.refused = why]
<1>1. /\ c \in RsCall /\ c.own \subseteq (1..given) \ accepted
      /\ RsBatch(c.own, c.batch, config.mset)
      /\ \A u \in Tasks : u # t => c.own \cap task[u].own = {}
      /\ ~overlapped => \A u \in Tasks : u # t => c.call = "idle" \/ task[u].call = "idle"
      /\ ~overlapped => \A r \in accepted, s \in c.own : r < s
  BY RsTask
<1>2. task' = [task EXCEPT ![t] = n]
  <2>1. task \in [Tasks -> RsCall]
    BY DEF RsInv, RsTypes
  <2> QED
    BY <2>1 DEF RsCall
<1>3. c.call # "idle" /\ d <= Len(c.batch)
      /\ (why = "no" => \A i \in 1..d : c.batch[i] \in RsHeld')
      /\ (config.mode = "set" /\ ~overlapped /\ why = "no" => \A i \in 1..d : RsHolds(c.batch[i], store'))
  OBVIOUS
<1>4. ASSUME NEW u \in Tasks, u # t, ~overlapped PROVE task[u].done = 0
  <2>1. task[u].call = "idle" /\ task[u].done \in Nat /\ task[u].done <= Len(task[u].batch)
        /\ task[u].batch = <<>>
    BY <1>1, <1>3, <1>4, RsTask
  <2> QED
    BY <2>1, RsEmpty
<1> HIDE DEF c
<1>5. /\ n \in RsCall /\ n.call = c.call /\ n.own = c.own /\ n.batch = c.batch /\ n.done = d
      /\ n.refused = why
  BY <1>1 DEF RsCall
<1> HIDE DEF n
<1>6. RsExecuted(n, RsHeld')
  BY <1>3, <1>5 DEF RsExecuted
<1>7. config.mode = "set" /\ ~overlapped' =>
             \A u \in Tasks : u # t /\ task[u].refused = "no" =>
                 \A i \in 1..task[u].done : RsHolds(task[u].batch[i], store')
  BY <1>4
<1>8. config.mode = "set" /\ ~overlapped' /\ n.refused = "no" =>
             \A i \in 1..n.done : RsHolds(n.batch[i], store')
  BY <1>3, <1>5
<1>9. /\ n.own \subseteq (1..given') \ accepted /\ RsBatch(n.own, n.batch, config.mset)
      /\ n.done <= Len(n.batch) /\ (n.call = "idle" => n.own = {} /\ n.batch = <<>>)
      /\ (\A u \in Tasks : u # t => n.own \cap task[u].own = {})
      /\ (~overlapped' => \A u \in Tasks : u # t => n.call = "idle" \/ task[u].call = "idle")
      /\ (~overlapped' => \A r \in accepted, s \in n.own : r < s)
  BY <1>1, <1>3, <1>5
<1>10. given' \in Nat /\ given <= given' /\ given' <= End /\ overlapped' \in BOOLEAN
       /\ abandoned' \in SUBSET RsJob /\ (~overlapped' => ~overlapped)
       /\ (config.mode = "set" /\ ~overlapped' => \A r \in accepted : RsHolds(r, store'))
  BY RsHas
<1> QED
  BY <1>2, <1>5, <1>6, <1>7, <1>8, <1>9, <1>10, RsStep

LEMMA RsRefuseInv ==
  ASSUME RsAssumptions, RsInv, NEW t \in Tasks, RS!Refuse(t)
  PROVE  RsInv'
<1> DEFINE c == task[t]
<1>1. /\ c.batch \in Seq(Nat) /\ Len(c.batch) \in Nat /\ c.done \in Nat /\ c.done <= Len(c.batch)
      /\ (c.call = "idle" => c.batch = <<>>) /\ c.refused \in {"no", "retryable", "final"}
      /\ faults \in Nat /\ store \in Seq(Nat) /\ marks \in RsMarks
      /\ task \in [Tasks -> RsCall]
  BY RsTask, RsHas DEF RsInv, RsTypes
<1>2. /\ c.done < Len(c.batch) /\ faults' = faults + 1
      /\ config' = config /\ stats' = stats /\ store' = store /\ given' = given
      /\ accepted' = accepted /\ settled' = settled /\ abandoned' = abandoned
      /\ overlapped' = overlapped
  BY DEF RS!Refuse
<1>3. PICK why \in {"retryable", "final"} :
         /\ task' = [task EXCEPT
                 ![t].done = IF config.mset THEN Len(c.batch) ELSE @ + 1,
                 ![t].refused = IF @ = "final" THEN @ ELSE why]
         /\ marks' = IF why = "final" /\ config.mode = "list"
                     THEN marks \cup {c.batch[c.done + 1]} ELSE marks
  BY DEF RS!Refuse
<1> DEFINE d == IF config.mset THEN Len(c.batch) ELSE c.done + 1
           w == IF c.refused = "final" THEN c.refused ELSE why
<1>4. task' = [task EXCEPT ![t].done = d, ![t].refused = w]
  BY <1>1, <1>3 DEF RsCall
<1>5. c.call # "idle" /\ d \in Nat /\ d <= Len(c.batch) /\ w \in {"no", "retryable", "final"} /\ w # "no"
  BY <1>1, <1>2, RsEmpty
<1>6. c.done + 1 \in 1..Len(c.batch)
  BY <1>1, <1>2
<1>7. marks' \in RsMarks /\ marks \subseteq marks'
  <2>1. c.batch[c.done + 1] \in Nat
    BY <1>1, <1>6
  <2> QED
    BY <1>1, <1>3, <2>1, RsMarked
<1>8. faults' \in Nat /\ store' \in Seq(Nat) /\ ToSet(store) \subseteq ToSet(store')
  BY <1>1, <1>2
<1>9. config.mode = "set" /\ ~overlapped => \A r \in accepted : RsHolds(r, store')
  BY <1>2, RsQuiet
<1> HIDE DEF d, w
<1> QED
  BY <1>2, <1>4, <1>5, <1>7, <1>8, <1>9, RsDoneInv

-----------------------------------------------------------------------------
\* One command of the server.
LEMMA RsRun ==
  ASSUME RsInv, NEW r \in Nat, RS!Run(r)
  PROVE  /\ store' \in Seq(Nat) /\ marks' \in RsMarks
         /\ ToSet(store) \subseteq ToSet(store') /\ marks \subseteq marks'
         /\ config' = config => r \in RsHeld'
         /\ config.mode = "set" => store' = Append(store, r)
<1>1. store \in Seq(Nat) /\ marks \in RsMarks
  BY RsHas
<1>2. /\ Append(store, r) \in Seq(Nat) /\ ToSet(Append(store, r)) = ToSet(store) \cup {r}
  BY <1>1, RsAppended
<1>3. CASE config.mode = "list"
  <2>1. /\ store' = (IF r \in marks THEN store ELSE Append(store, r)) /\ marks' = marks \cup {r}
    BY <1>3 DEF RS!Run
  <2> QED
    BY <1>1, <1>2, <1>3, <2>1, RsMarked DEF RsHeld
<1>4. CASE config.mode # "list"
  <2>1. store' = Append(store, r) /\ marks' = marks
    BY <1>4 DEF RS!Run
  <2> QED
    BY <1>1, <1>2, <1>4, <2>1 DEF RsHeld
<1> QED
  BY <1>3, <1>4

\* The records of a call are newer than those accepted before, and each is of a later
\* record than those its attempt has set already.
LEMMA RsExecuteInv ==
  ASSUME RsAssumptions, RsInv, NEW t \in Tasks, RS!Execute(t)
  PROVE  RsInv'
<1> DEFINE c == task[t]
           b == c.batch
           why == c.refused
<1>1. /\ b \in Seq(Nat) /\ Len(b) \in Nat /\ c.done \in Nat /\ c.done <= Len(b)
      /\ RsBatch(c.own, b, config.mset) /\ c.own \in SUBSET Nat
      /\ (why = "no" => \A i \in 1..c.done : b[i] \in RsHeld)
      /\ (c.call = "idle" => b = <<>>) /\ why \in {"no", "retryable", "final"}
      /\ (~overlapped => \A r \in accepted, s \in c.own : r < s)
      /\ faults \in Nat /\ store \in Seq(Nat) /\ marks \in RsMarks
      /\ task \in [Tasks -> RsCall] /\ accepted \in SUBSET Nat /\ config \in Configs
      /\ (c.call # "idle" => TRUE)
  <2>1. accepted \in SUBSET Nat
    BY RsHas
  <2>2. RsExecuted(c, RsHeld)
    BY RsTask
  <2> QED
    BY <2>1, <2>2, RsTask, RsHas DEF RsInv, RsTypes, RsExecuted
<1>2. /\ c.done < Len(b) /\ faults' = faults
      /\ config' = config /\ stats' = stats /\ given' = given
      /\ accepted' = accepted /\ settled' = settled /\ abandoned' = abandoned
      /\ overlapped' = overlapped
  BY DEF RS!Execute
<1>3. c.call # "idle"
  BY <1>1, <1>2, RsEmpty
<1>4. \A i \in 1..Len(b) : b[i] \in Nat /\ b[i] \in c.own
  <2>1. DOMAIN b = 1..Len(b) /\ ToSet(b) \subseteq c.own
    BY <1>1 DEF RsBatch
  <2> QED
    BY <1>1, <2>1 DEF ToSet
<1>5. \A i, j \in 1..Len(b) : i < j /\ RS!Key(b[i]) = RS!Key(b[j]) => b[i] < b[j] /\ ~config.mset
  BY <1>1 DEF RsBatch
<1>6. config.mode = "set" /\ ~overlapped =>
         /\ \A r \in accepted : RsHolds(r, store)
         /\ why = "no" => \A i \in 1..c.done : RsHolds(b[i], store)
  BY DEF RsInv, RsNewest
<1>7. CASE config.mset
  <2>1. /\ store' = store \o b /\ marks' = marks
        /\ task' = [task EXCEPT ![t].done = Len(b)]
    BY <1>7 DEF RS!Execute
  <2>2. task' = [task EXCEPT ![t].done = Len(b), ![t].refused = why]
    BY <1>1, <2>1 DEF RsCall
  <2>3. /\ store \o b \in Seq(Nat) /\ ToSet(store \o b) = ToSet(store) \cup ToSet(b)
    BY <1>1, AppendRows
  <2>4. store' \in Seq(Nat) /\ ToSet(store) \subseteq ToSet(store') /\ \A i \in 1..Len(b) : b[i] \in RsHeld'
    <3>1. DOMAIN b = 1..Len(b)
      BY <1>1
    <3>2. \A i \in 1..Len(b) : b[i] \in ToSet(b)
      BY <3>1 DEF ToSet
    <3> QED
      BY <2>1, <2>3, <3>2 DEF RsHeld
  <2>5. \A i, j \in 1..Len(b) : i < j => RS!Key(b[i]) # RS!Key(b[j])
    BY <1>5, <1>7
  <2>6. ASSUME ~overlapped, config.mode = "set", NEW r \in accepted PROVE RsHolds(r, store')
    <3>1. r \in Nat /\ RsHolds(r, store) /\ \A i \in 1..Len(b) : b[i] >= r
      BY <1>1, <1>4, <1>6, <2>6
    <3> HIDE DEF b
    <3> QED
      BY <1>1, <2>1, <2>5, <3>1, RsSetMany
  <2>7. ASSUME NEW i \in 1..Len(b) PROVE RsHolds(b[i], store')
    <3>1. \A j \in 1..Len(b) : RS!Key(b[j]) = RS!Key(b[i]) => b[j] >= b[i]
      <4>1. ASSUME NEW j \in 1..Len(b), RS!Key(b[j]) = RS!Key(b[i]) PROVE b[j] >= b[i]
        <5>1. ~(i < j) /\ ~(j < i)
          BY <2>5, <4>1
        <5>2. i = j
          BY <5>1
        <5> QED
          BY <1>4, <5>2
      <4> QED
        BY <4>1
    <3>2. b[i] \in Nat /\ \E j \in 1..Len(b) : RS!Key(b[j]) = RS!Key(b[i])
      BY <1>4
    <3> DEFINE r == b[i]
    <3>3. /\ r \in Nat /\ \E j \in 1..Len(b) : RS!Key(b[j]) = RS!Key(r)
          /\ \A j \in 1..Len(b) : RS!Key(b[j]) = RS!Key(r) => b[j] >= r
      BY <3>1, <3>2
    <3> HIDE DEF r, b
    <3>4. RsHolds(r, store')
      BY <1>1, <2>1, <2>5, <3>3, RsSetMany
    <3> QED
      BY <3>4 DEF r
  <2>8. marks' \in RsMarks /\ marks \subseteq marks' /\ faults' \in Nat /\ Len(b) <= Len(b)
    BY <1>1, <1>2, <2>1
  <2> QED
    BY <1>1, <1>2, <1>3, <2>2, <2>4, <2>6, <2>7, <2>8, RsDoneInv
<1>8. CASE ~config.mset
  <2> DEFINE d == c.done + 1
             x == b[d]
  <2>1. d \in 1..Len(b) /\ d \in Nat /\ d <= Len(b) /\ x \in Nat /\ x \in c.own
        /\ \A i \in 1..d : i \in 1..c.done \/ i = d
    <3> DEFINE l == Len(b)
               e == c.done
    <3>1. l \in Nat /\ e \in Nat /\ e < l
      BY <1>1, <1>2
    <3> HIDE DEF l, e
    <3>2. e + 1 \in 1..l /\ e + 1 \in Nat /\ e + 1 <= l /\ \A i \in 1..(e + 1) : i \in 1..e \/ i = e + 1
      BY <3>1
    <3>3. d \in 1..Len(b) /\ d \in Nat /\ d <= Len(b) /\ \A i \in 1..d : i \in 1..c.done \/ i = d
      BY <3>2 DEF l, e
    <3> QED
      BY <1>4, <3>3
  <2>2. RS!Run(x) /\ task' = [task EXCEPT ![t].done = d]
    BY <1>8 DEF RS!Execute
  <2>3. task' = [task EXCEPT ![t].done = d, ![t].refused = why]
    BY <1>1, <2>2 DEF RsCall
  <2>4. \A i \in 1..c.done : i \in 1..Len(b) /\ (RS!Key(b[i]) = RS!Key(x) => b[i] < x)
    <3> SUFFICES ASSUME NEW i \in 1..c.done
                 PROVE  i \in 1..Len(b) /\ (RS!Key(b[i]) = RS!Key(x) => b[i] < x)
      OBVIOUS
    <3>1. i \in 1..Len(b) /\ i < d
      <4> DEFINE l == Len(b)
                 e == c.done
      <4>1. l \in Nat /\ e \in Nat /\ e < l /\ i \in 1..e
        BY <1>1, <1>2
      <4> HIDE DEF l, e
      <4>2. i \in 1..l /\ i < e + 1
        BY <4>1
      <4> QED
        BY <4>2 DEF l, e
    <3> QED
      BY <1>5, <2>1, <3>1
  <2> HIDE DEF x
  <2>5. /\ store' \in Seq(Nat) /\ marks' \in RsMarks
        /\ ToSet(store) \subseteq ToSet(store') /\ marks \subseteq marks'
        /\ x \in RsHeld'
        /\ config.mode = "set" => store' = Append(store, x)
    BY <1>2, <2>1, <2>2, RsRun
  <2>6. RsHeld \subseteq RsHeld'
    BY <1>2, <2>5 DEF RsHeld
  <2>7. why = "no" => \A i \in 1..d : b[i] \in RsHeld'
    BY <1>1, <2>1, <2>5, <2>6 DEF x
  <2>8. ASSUME ~overlapped, config.mode = "set", NEW r \in accepted PROVE RsHolds(r, store')
    <3>1. r \in Nat /\ RsHolds(r, store) /\ x >= r
      BY <1>1, <1>6, <2>1, <2>8
    <3> QED
      BY <1>1, <2>1, <2>5, <2>8, <3>1, RsSetOne
  <2>9. ASSUME ~overlapped, config.mode = "set", why = "no", NEW i \in 1..d PROVE RsHolds(b[i], store')
    <3>1. CASE i = d
      <4>1. RsHolds(x, store')
        BY <1>1, <2>1, <2>5, <2>9, RsSetLast
      <4> QED
        BY <3>1, <4>1 DEF x
    <3>2. CASE i \in 1..c.done
      <4> DEFINE r == b[i]
      <4>1. r \in Nat /\ RsHolds(r, store) /\ (RS!Key(x) = RS!Key(r) => x >= r)
        BY <1>4, <1>6, <2>1, <2>4, <2>9, <3>2
      <4> HIDE DEF r
      <4>2. RsHolds(r, store')
        BY <1>1, <2>1, <2>5, <2>9, <4>1, RsSetOne
      <4> QED
        BY <4>2 DEF r
    <3> QED
      BY <2>1, <3>1, <3>2
  <2>10. faults' \in Nat
    BY <1>1, <1>2
  <2> HIDE DEF d
  <2> QED
    BY <1>1, <1>2, <1>3, <2>1, <2>3, <2>5, <2>7, <2>8, <2>9, <2>10, RsDoneInv
<1> QED
  BY <1>1, <1>7, <1>8 DEF RsAssumptions

\* What an attempt that was given up does: calls and attempts overlap from here on.
LEMMA RsRunLateInv ==
  ASSUME RsAssumptions, RsInv, NEW j \in abandoned, RS!RunLate(j)
  PROVE  RsInv'
<1>1. /\ config' = config /\ stats' = stats /\ task' = task /\ given' = given
      /\ accepted' = accepted /\ settled' = settled /\ faults' = faults
      /\ overlapped' = TRUE /\ j.rest # <<>>
  BY DEF RS!RunLate
<1>2. j \in RsJob /\ j.rest \in Seq(Nat) /\ store \in Seq(Nat) /\ marks \in RsMarks
      /\ config \in Configs
  BY RsHas DEF RsJob
<1>3. Head(j.rest) \in Nat /\ Tail(j.rest) \in Seq(Nat)
  BY <1>1, <1>2
<1>4. store' \in Seq(Nat) /\ marks' \in RsMarks
      /\ ToSet(store) \subseteq ToSet(store') /\ marks \subseteq marks'
  <2>1. CASE config.mset
    <3>1. store' = store \o j.rest /\ marks' = marks
      BY <2>1 DEF RS!RunLate
    <3>2. store \o j.rest \in Seq(Nat) /\ ToSet(store \o j.rest) = ToSet(store) \cup ToSet(j.rest)
      BY <1>2, AppendRows
    <3> QED
      BY <1>2, <3>1, <3>2
  <2>2. CASE ~config.mset
    <3>1. RS!Run(Head(j.rest))
      BY <2>2 DEF RS!RunLate
    <3> QED
      BY <1>3, <3>1, RsRun
  <2> QED
    BY <1>2, <2>1, <2>2 DEF RsAssumptions
<1>5. abandoned' \in SUBSET RsJob
  <2> DEFINE q == IF config.mset THEN <<>> ELSE Tail(j.rest)
  <2>1. abandoned' = (abandoned \ {j}) \cup {[j EXCEPT !.rest = q]}
    BY DEF RS!RunLate
  <2>2. q \in Seq(Nat)
    BY <1>3, RsEmpty
  <2> HIDE DEF q
  <2>3. [j EXCEPT !.rest = q] \in RsJob
    BY <1>2, <2>2 DEF RsJob
  <2> QED
    BY <2>1, <2>3, RsHas
<1>6. RsHeld \subseteq RsHeld' /\ RsAccepted' /\ RsCounts'
  BY <1>1, <1>4, RsGrow
<1>7. RsTypes'
  BY <1>1, <1>4, <1>5 DEF RsInv, RsTypes
<1>8. RsCalls'
  <2>1. ASSUME NEW u \in Tasks PROVE RsExecuted(task[u], RsHeld')
    <3>1. RsExecuted(task[u], RsHeld)
      BY DEF RsInv, RsCalls
    <3> QED
      BY <1>6, <3>1 DEF RsExecuted
  <2>2. \A u \in Tasks : RsExecuted(task[u], RsHeld)'
    BY <1>1, <2>1 DEF RsExecuted
  <2>3. \A u \in Tasks : RsBatch(task[u].own, task[u].batch, config.mset)'
    BY <1>1 DEF RsInv, RsCalls, RsBatch
  <2> QED
    BY <1>1, <2>2, <2>3 DEF RsInv, RsCalls
<1>9. RsAlone' /\ RsNewest'
  BY <1>1 DEF RsAlone, RsNewest
<1> QED
  BY <1>6, <1>7, <1>8, <1>9 DEF RsInv

\* Nothing changes but the client and what is settled.
LEMMA RsSettleInv ==
  ASSUME RsInv, config' = config, task' = task, store' = store, marks' = marks, given' = given,
         accepted' = accepted, settled' \in SUBSET accepted, stats' = stats, abandoned' = abandoned,
         faults' = faults, overlapped' = overlapped
  PROVE  RsInv'
<1>1. RsTypes'
  BY DEF RsInv, RsTypes
<1>2. RsHeld' = RsHeld
  BY DEF RsHeld
<1>3. RsCalls'
  BY <1>2 DEF RsInv, RsCalls, RsBatch, RsExecuted
<1>4. RsAccepted' /\ RsCounts'
  BY <1>2 DEF RsInv, RsAccepted, RsCounts
<1>5. RsAlone' /\ RsNewest'
  BY DEF RsInv, RsAlone, RsNewest, RsHolds
<1> QED
  BY <1>1, <1>3, <1>4, <1>5 DEF RsInv

\* The call of t is accepted: its attempt has executed the whole batch.
LEMMA RsAcceptInv ==
  ASSUME RsAssumptions, RsInv, NEW t \in Tasks,
         task[t].done = Len(task[t].batch), task[t].refused = "no",
         accepted' = accepted \cup task[t].own,
         stats' = [stats EXCEPT !.accepted_record_count = @ + RS!Cardinality(task[t].own),
                                !.redis_mutation_count = @ + Len(task[t].batch)],
         task' = [task EXCEPT ![t] = RS!Idle],
         config' = config, store' = store, marks' = marks, given' = given, settled' = settled,
         abandoned' = abandoned, faults' = faults, overlapped' = overlapped
  PROVE  RsInv'
<1> DEFINE c == task[t]
           b == c.batch
           own == c.own
<1>1. /\ b \in Seq(Nat) /\ Len(b) \in Nat /\ own \in SUBSET Nat
      /\ own \subseteq (1..given) \ accepted
      /\ RsBatch(own, b, config.mset)
      /\ RsExecuted(c, RsHeld)
      /\ (c.call = "idle" => own = {} /\ b = <<>>)
      /\ \A u \in Tasks : u # t => own \cap task[u].own = {}
      /\ ~overlapped => \A r \in accepted, s \in own : r < s
      /\ task \in [Tasks -> RsCall]
      /\ accepted \in SUBSET (1..given) /\ given \in Nat
  BY RsTask, RsHas DEF RsInv, RsTypes
<1>2. DOMAIN b = 1..Len(b) /\ \A i \in 1..Len(b) : b[i] \in RsHeld /\ b[i] \in Nat
  BY <1>1 DEF RsExecuted
<1>3. ToSet(b) \subseteq RsHeld /\ ToSet(b) \subseteq own
  BY <1>1, <1>2 DEF ToSet, RsBatch
<1>4. /\ task'[t] = RS!Idle /\ \A u \in Tasks : u # t => task'[u] = task[u]
      /\ task' \in [Tasks -> RsCall]
  BY <1>1, RsIdle
<1>5. RsHeld' = RsHeld
  BY DEF RsHeld
<1>6. stats \in [accepted_record_count : Nat, redis_mutation_count : Nat]
  BY DEF RsInv, RsTypes
<1>7. IsFiniteSet(own) /\ IsFiniteSet(accepted) /\ Cardinality(own) \in Nat /\ Cardinality(accepted) \in Nat
  <2>1. IsFiniteSet(1..given)
    BY RsFinite DEF RsInv
  <2>2. own \in SUBSET (1..given)
    BY <1>1
  <2>3. IsFiniteSet(own)
    BY <2>1, <2>2, FS_Subset
  <2>4. IsFiniteSet(accepted)
    BY RsFinite DEF RsInv
  <2> QED
    BY <2>3, <2>4, FS_CardinalityType
<1>8. RS!Cardinality(own) = Cardinality(own)
  BY DEF RS!Cardinality, Cardinality
<1>9. /\ stats'.accepted_record_count = stats.accepted_record_count + Cardinality(own)
      /\ stats'.redis_mutation_count = stats.redis_mutation_count + Len(b)
      /\ stats' \in [accepted_record_count : Nat, redis_mutation_count : Nat]
  <2> DEFINE x == stats.accepted_record_count + Cardinality(own)
             y == stats.redis_mutation_count + Len(b)
  <2>1. stats' = [stats EXCEPT !.accepted_record_count = x, !.redis_mutation_count = y]
    BY <1>6, <1>8
  <2>2. x \in Nat /\ y \in Nat
    BY <1>1, <1>6, <1>7
  <2> HIDE DEF x, y
  <2>3. /\ stats' \in [accepted_record_count : Nat, redis_mutation_count : Nat]
        /\ stats'.accepted_record_count = x /\ stats'.redis_mutation_count = y
    BY <1>6, <2>1, <2>2
  <2> QED
    BY <2>3 DEF x, y
<1>10. RsTypes'
  <2>1. accepted' \in SUBSET (1..given) /\ settled \in SUBSET accepted'
    BY <1>1 DEF RsInv, RsTypes
  <2> QED
    BY <1>4, <1>9, <2>1 DEF RsInv, RsTypes
<1>11. RsCounts'
  <2>1. Cardinality(accepted') = Cardinality(accepted) + Cardinality(own)
    <3>1. accepted \cap own = {} /\ Cardinality({}) = 0
      BY <1>1, FS_EmptySet
    <3>2. Cardinality(accepted \cup own) = Cardinality(accepted) + Cardinality(own) - Cardinality(accepted \cap own)
      BY <1>7, FS_Union
    <3>3. Cardinality(accepted \cap own) = 0 /\ accepted' = accepted \cup own
      BY <3>1
    <3> DEFINE x == Cardinality(accepted)
               y == Cardinality(own)
               z == Cardinality(accepted \cap own)
    <3>4. x \in Nat /\ y \in Nat /\ z = 0 /\ Cardinality(accepted') = x + y - z
      BY <1>7, <3>2, <3>3
    <3> HIDE DEF x, y, z
    <3>5. Cardinality(accepted') = x + y
      BY <3>4
    <3> QED
      BY <3>5 DEF x, y
  <2>2. stats'.redis_mutation_count <= Cardinality(accepted' \cap RsHeld)
    <3> DEFINE S == accepted \cap RsHeld
               T == ToSet(b)
               U == accepted' \cap RsHeld
    <3>1. IsFiniteSet(S) /\ Cardinality(S) \in Nat /\ IsFiniteSet(T) /\ Cardinality(T) = Len(b)
      <4>1. \A i, j \in 1..Len(b) : i < j => b[i] # b[j]
        BY <1>1 DEF RsBatch
      <4> QED
        BY <1>1, <4>1, RsFinite, RsLength DEF RsInv
    <3>2. S \cap T = {} /\ S \cup T \in SUBSET U /\ IsFiniteSet(U)
      <4>1. IsFiniteSet(accepted')
        BY <1>7, FS_Union
      <4>2. U \in SUBSET accepted'
        OBVIOUS
      <4>3. IsFiniteSet(U)
        BY <4>1, <4>2, FS_Subset
      <4> QED
        BY <1>1, <1>3, <4>3
    <3>3. Cardinality(U) \in Nat /\ Cardinality(S \cup T) <= Cardinality(U)
      BY <3>2, FS_Subset, FS_CardinalityType
    <3>4. Cardinality(S \cup T) = Cardinality(S) + Cardinality(T) - Cardinality(S \cap T) /\ Cardinality({}) = 0
      BY <3>1, FS_Union, FS_EmptySet
    <3>5. stats.redis_mutation_count <= Cardinality(S) /\ stats.redis_mutation_count \in Nat
      BY <1>6 DEF RsInv, RsCounts
    <3> HIDE DEF S, T, U
    <3>6. Cardinality(S \cup T) = Cardinality(S) + Len(b)
      <4> DEFINE x == Cardinality(S)
                 y == Cardinality(T)
                 z == Cardinality(S \cap T)
      <4>1. x \in Nat /\ y \in Nat /\ y = Len(b) /\ z = 0 /\ Cardinality(S \cup T) = x + y - z
        BY <1>1, <3>1, <3>2, <3>4
      <4> HIDE DEF x, y, z
      <4>2. Cardinality(S \cup T) = x + y
        BY <4>1
      <4> QED
        BY <4>1, <4>2 DEF x
    <3> DEFINE l == Len(b)
    <3>7. l \in Nat /\ Cardinality(S) + l <= Cardinality(U) /\ stats'.redis_mutation_count = stats.redis_mutation_count + l
      BY <1>1, <1>9, <3>3, <3>6
    <3> HIDE DEF l
    <3>8. stats'.redis_mutation_count <= Cardinality(U)
      BY <3>1, <3>3, <3>5, <3>7
    <3> QED
      BY <3>8 DEF U
  <2>3. stats'.accepted_record_count = Cardinality(accepted')
    BY <1>9, <2>1 DEF RsInv, RsCounts
  <2> QED
    BY <1>5, <2>2, <2>3 DEF RsCounts
<1>12. RsCalls'
  <2>1. ASSUME NEW u \in Tasks
        PROVE  /\ task'[u].own \subseteq (1..given) \ accepted'
               /\ RsBatch(task'[u].own, task'[u].batch, config.mset)
               /\ task'[u].done <= Len(task'[u].batch)
               /\ RsExecuted(task'[u], RsHeld)
               /\ task'[u].call = "idle" => task'[u].own = {} /\ task'[u].batch = <<>>
    <3>1. CASE u = t
      <4> DEFINE n == RS!Idle
      <4>1. /\ n.own = {} /\ n.batch = <<>> /\ n.done = 0 /\ RsBatch(n.own, n.batch, config.mset)
            /\ Len(n.batch) = 0
        BY RsIdle, RsEmpty
      <4>2. task'[u] = n
        BY <1>4, <3>1
      <4> HIDE DEF n
      <4>3. RsExecuted(n, RsHeld) /\ n.done <= Len(n.batch)
        BY <4>1 DEF RsExecuted
      <4> QED
        BY <4>1, <4>2, <4>3
    <3>2. CASE u # t
      <4>1. task'[u] = task[u] /\ task[u].own \cap own = {}
        BY <1>1, <1>4, <3>2
      <4> QED
        BY <4>1 DEF RsInv, RsCalls
    <3> QED
      BY <3>1, <3>2
  <2>2. ASSUME NEW u \in Tasks, NEW v \in Tasks, u # v PROVE task'[u].own \cap task'[v].own = {}
    <3>1. task[u].own \cap task[v].own = {}
      BY <2>2 DEF RsInv, RsCalls
    <3> QED
      BY <1>4, <2>2, <3>1, RsIdle
  <2> QED
    BY <1>5, <2>1, <2>2 DEF RsCalls, RsBatch, RsExecuted
<1>13. RsAccepted'
  <2> SUFFICES ASSUME NEW r \in accepted'
               PROVE  IF config.mode = "set" THEN \E s \in ToSet(store) : RS!Key(s) = RS!Key(r) /\ s >= r
                                              ELSE r \in RsHeld
    BY <1>5 DEF RsAccepted
  <2>1. CASE r \in accepted
    BY <2>1 DEF RsInv, RsAccepted
  <2>2. CASE r \in own /\ config.mode = "set"
    <3>1. RsHeld = ToSet(store)
      BY <2>2 DEF RsHeld
    <3>2. \E s \in ToSet(b) : RS!Key(s) = RS!Key(r) /\ s >= r
      BY <1>1, <2>2 DEF RsBatch
    <3> QED
      BY <1>3, <2>2, <3>1, <3>2
  <2>3. CASE r \in own /\ config.mode # "set"
    <3>1. ~config.mset
      BY <2>3 DEF RsAssumptions, RsInv, RsTypes
    <3> QED
      BY <1>1, <1>3, <2>3, <3>1 DEF RsBatch
  <2> QED
    BY <2>1, <2>2, <2>3
<1>14. RsAlone'
  <2> SUFFICES ASSUME ~overlapped
               PROVE  /\ \A u, v \in Tasks : u # v => task'[u].call = "idle" \/ task'[v].call = "idle"
                      /\ \A u \in Tasks : \A r \in accepted', s \in task'[u].own : r < s
    BY DEF RsAlone
  <2>1. ASSUME NEW u \in Tasks, NEW v \in Tasks, u # v PROVE task'[u].call = "idle" \/ task'[v].call = "idle"
    BY <1>4, <2>1, RsIdle DEF RsInv, RsAlone
  <2>2. ASSUME NEW u \in Tasks, NEW r \in accepted', NEW s \in task'[u].own PROVE r < s
    <3>1. u # t /\ s \in task[u].own
      BY <1>4, <2>2, RsIdle
    <3>2. task[u].call # "idle"
      BY <3>1, RsTask
    <3>3. r \notin own
      BY <1>1, <3>1, <3>2, RsTask
    <3> QED
      BY <3>1, <3>3, RsTask
  <2> QED
    BY <2>1, <2>2
<1>15. RsNewest'
  <2> SUFFICES ASSUME config.mode = "set", ~overlapped
               PROVE  /\ \A r \in accepted' : RsHolds(r, store)
                      /\ \A u \in Tasks : task'[u].refused = "no" =>
                             \A i \in 1..task'[u].done : RsHolds(task'[u].batch[i], store)
    BY DEF RsNewest, RsHolds
  <2>1. /\ \A r \in accepted : RsHolds(r, store)
        /\ \A u \in Tasks : task[u].refused = "no" =>
               \A i \in 1..task[u].done : RsHolds(task[u].batch[i], store)
    BY DEF RsInv, RsNewest
  <2>2. ASSUME NEW u \in Tasks, task'[u].refused = "no"
        PROVE  \A i \in 1..task'[u].done : RsHolds(task'[u].batch[i], store)
    BY <1>4, <2>1, <2>2, RsIdle
  <2>3. ASSUME NEW r \in own PROVE RsHolds(r, store)
    <3>1. PICK s \in ToSet(b) : RS!Key(s) = RS!Key(r) /\ s >= r
      BY <1>1 DEF RsBatch
    <3>2. PICK i \in 1..Len(b) : b[i] = s
      BY <1>2 DEF ToSet
    <3>3. RsHolds(s, store)
      BY <2>1, <3>2
    <3>4. PICK k \in DOMAIN store :
             /\ RS!Key(store[k]) = RS!Key(s) /\ store[k] >= s
             /\ \A j \in DOMAIN store : RS!Key(store[j]) = RS!Key(s) => j <= k
      BY <3>3 DEF RsHolds
    <3>5. store[k] \in Nat /\ s \in Nat /\ r \in Nat
      <4>1. store \in Seq(Nat)
        BY RsHas
      <4> QED
        BY <1>1, <1>2, <3>2, <4>1
    <3>6. store[k] >= r
      BY <3>1, <3>4, <3>5
    <3> QED
      BY <3>1, <3>4, <3>6 DEF RsHolds
  <2> QED
    BY <2>1, <2>2, <2>3
<1> QED
  BY <1>10, <1>11, <1>12, <1>13, <1>14, <1>15 DEF RsInv

-----------------------------------------------------------------------------
LEMMA RsAnswerInv ==
  ASSUME RsAssumptions, RsInv, NEW t \in Tasks, RS!Answer(t)
  PROVE  RsInv'
<1>1. /\ config' = config /\ store' = store /\ marks' = marks /\ given' = given
      /\ settled' = settled /\ faults' = faults /\ overlapped' = overlapped
      /\ task[t].done = Len(task[t].batch)
  BY DEF RS!Answer
<1>2. CASE task[t].refused = "no"
  <2>1. /\ accepted' = accepted \cup task[t].own
        /\ stats' = [stats EXCEPT !.accepted_record_count = @ + RS!Cardinality(task[t].own),
                                  !.redis_mutation_count = @ + Len(task[t].batch)]
        /\ task' = [task EXCEPT ![t] = RS!Idle]
        /\ abandoned' = abandoned
    BY <1>2 DEF RS!Answer
  <2> QED
    BY <1>1, <1>2, <2>1, RsAcceptInv
<1>3. CASE task[t].refused # "no"
  <2>1. /\ accepted' = accepted /\ stats' = stats
        /\ abandoned' = abandoned \cup {[id |-> faults, batch |-> task[t].batch, rest |-> <<>>]}
        /\ RS!Retry(t) \/ RS!Raise(t)
    BY <1>3 DEF RS!Answer
  <2>2. [id |-> faults, batch |-> task[t].batch, rest |-> <<>>] \in RsJob
    BY RsTask, RsHas, RsEmpty DEF RsJob
  <2>3. abandoned' \in SUBSET RsJob /\ faults' \in Nat
    BY <1>1, <2>1, <2>2, RsHas
  <2> QED
    BY <1>1, <2>1, <2>3, RsRetryOrRaise
<1> QED
  BY <1>2, <1>3

LEMMA RsOpenOrCloseInv ==
  ASSUME RsInv, NEW t \in Tasks, NEW call, RS!Open(t) \/ RS!FlushOrClose(t, call)
  PROVE  RsInv'
<1>1. settled' = settled \/ settled' = settled \cup accepted
  BY DEF RS!Open, RS!FlushOrClose
<1>2. settled' \in SUBSET accepted
  BY <1>1 DEF RsInv, RsTypes
<1>3. /\ config' = config /\ task' = task /\ store' = store /\ marks' = marks /\ given' = given
      /\ accepted' = accepted /\ stats' = stats /\ abandoned' = abandoned /\ faults' = faults
      /\ overlapped' = overlapped
  BY DEF RS!Open, RS!FlushOrClose
<1> QED
  BY <1>2, <1>3, RsSettleInv

LEMMA RsInitInv == ASSUME RsAssumptions PROVE RS!Init => RsInv
<1> SUFFICES ASSUME RS!Init PROVE RsInv
  OBVIOUS
<1>1. /\ config \in Configs /\ task = [t \in Tasks |-> RS!Idle] /\ store = <<>> /\ marks = {}
      /\ given = 0 /\ accepted = {} /\ settled = {} /\ faults = 0 /\ abandoned = {}
      /\ overlapped = FALSE /\ stats = [accepted_record_count |-> 0, redis_mutation_count |-> 0]
  BY DEF RS!Init
<1>2. \A t \in Tasks : task[t] = RS!Idle
  BY <1>1
<1>3. RsTypes
  <2>1. task \in [Tasks -> RsCall] /\ store \in Seq(Nat)
    BY <1>1, RsIdle, RsEmpty
  <2>2. marks \in RsMarks
    BY <1>1, FS_EmptySet DEF RsMarks
  <2>3. given \in Nat /\ given <= End
    BY <1>1 DEF RsAssumptions
  <2>4. stats \in [accepted_record_count : Nat, redis_mutation_count : Nat]
    BY <1>1
  <2> QED
    BY <1>1, <2>1, <2>2, <2>3, <2>4 DEF RsTypes
<1>4. RsCalls
  <2> DEFINE n == RS!Idle
  <2>1. /\ n.own = {} /\ n.batch = <<>> /\ n.done = 0 /\ RsBatch(n.own, n.batch, config.mset)
        /\ Len(n.batch) = 0
    BY RsIdle, RsEmpty
  <2>2. \A t \in Tasks : task[t] = n
    BY <1>2
  <2> HIDE DEF n
  <2>3. RsExecuted(n, RsHeld) /\ n.done <= Len(n.batch)
    BY <2>1 DEF RsExecuted
  <2> QED
    BY <2>1, <2>2, <2>3 DEF RsCalls
<1>5. RsAccepted
  BY <1>1 DEF RsAccepted
<1>6. RsCounts
  <2>1. {} \cap RsHeld = {} /\ Cardinality({}) = 0
    BY FS_EmptySet
  <2> QED
    BY <1>1, <2>1 DEF RsCounts
<1>7. RsAlone
  BY <1>1, <1>2, RsIdle DEF RsAlone
<1>8. RsNewest
  BY <1>1, <1>2, RsIdle DEF RsNewest
<1> QED
  BY <1>3, <1>4, <1>5, <1>6, <1>7, <1>8 DEF RsInv

LEMMA RsNextInv == ASSUME RsAssumptions, RsInv, [RS!Next]_RS!vars PROVE RsInv'
<1>1. CASE UNCHANGED RS!vars
  BY <1>1, RsSettleInv DEF RS!vars, RsInv, RsTypes
<1>2. ASSUME NEW t \in Tasks,
             \/ RS!Open(t)
             \/ \E n \in 1..2 : RS!Write(t, n)
             \/ \E call \in {"flush", "close"} : RS!FlushOrClose(t, call)
             \/ RS!Answer(t) \/ RS!AttemptFails(t) \/ RS!Execute(t) \/ RS!Refuse(t)
      PROVE  RsInv'
  BY <1>2, RsOpenOrCloseInv, RsWriteInv, RsAnswerInv, RsFailsInv, RsExecuteInv, RsRefuseInv
<1>3. CASE \E j \in abandoned : RS!RunLate(j)
  BY <1>3, RsRunLateInv
<1> QED
  BY <1>1, <1>2, <1>3 DEF RS!Next

LEMMA RsAlways == ASSUME RsAssumptions PROVE RS!Spec => []RsInv
<1>1. RS!Init => RsInv
  BY RsInitInv
<1>2. RsInv /\ [RS!Next]_RS!vars => RsInv'
  BY RsNextInv
<1> QED
  BY <1>1, <1>2, PTL DEF RS!Spec

-----------------------------------------------------------------------------
\* What the sink has, or has masked, is what Redis holds: a record, a later one of its key, or
\* a marker.
LEMMA RsDurable ==
  RS!Durable \cup RS!Masked =
      IF config.mode = "set"
      THEN {r \in RS!Records : \E s \in ToSet(store) : RS!Key(s) = RS!Key(r) /\ s >= r}
      ELSE RsHeld
<1>1. RS!ToSet(store) = ToSet(store)
  BY RsSameSet
<1> QED
  BY <1>1 DEF RS!Durable, RS!Masked, RsHeld

LEMMA RsKept == ASSUME RsAssumptions, RsInv PROVE accepted \subseteq RS!Durable \cup RS!Masked
<1>1. ASSUME NEW r \in accepted PROVE r \in RS!Records
  <2>1. r \in 1..given /\ given \in Nat /\ given <= End /\ End \in Nat
    BY <1>1, RsHas DEF RsAssumptions
  <2> QED
    BY <2>1 DEF RS!Records
<1> QED
  BY <1>1, RsDurable DEF RsInv, RsAccepted

\* The list script pushes the record of every marker it sets, but for a command that is refused.
RsPushed == faults = 0 /\ config.mode = "list" => marks \subseteq ToSet(store)

LEMMA RsPushedStep ==
  ASSUME RsAssumptions, RsInv, RsPushed, [RS!Next]_RS!vars
  PROVE  RsPushed'
<1> SUFFICES ASSUME faults' = 0, config'.mode = "list" PROVE marks' \subseteq ToSet(store')
  BY DEF RsPushed
<1>1. config' = config /\ faults \in Nat /\ store \in Seq(Nat) /\ config.mode = "list" /\ ~config.mset
  BY DEF RS!Next, RS!vars, RS!Open, RS!Write, RS!FlushOrClose, RS!Answer, RS!AttemptFails, RS!Execute,
     RS!Refuse, RS!RunLate, RsInv, RsTypes, RsAssumptions
<1>2. CASE store' = store /\ marks' = marks /\ faults' = faults
  BY <1>1, <1>2 DEF RsPushed
<1>3. ASSUME NEW r \in Nat, RS!Run(r), faults' = faults PROVE marks' \subseteq ToSet(store')
  <2>1. ToSet(Append(store, r)) = ToSet(store) \cup {r}
    BY <1>1, RsAppended
  <2> QED
    BY <1>1, <1>3, <2>1 DEF RS!Run, RsPushed
<1>4. ASSUME NEW t \in Tasks, RS!Execute(t) PROVE marks' \subseteq ToSet(store')
  <2>1. RS!Run(task[t].batch[task[t].done + 1]) /\ faults' = faults
    BY <1>1, <1>4 DEF RS!Execute
  <2>2. task[t].batch \in Seq(Nat) /\ task[t].done < Len(task[t].batch) /\ task[t].done \in Nat
    BY <1>4, RsTask DEF RS!Execute
  <2>3. task[t].batch[task[t].done + 1] \in Nat
    <3> DEFINE d == task[t].done
               b == task[t].batch
    <3>1. d + 1 \in 1..Len(b)
      BY <2>2
    <3> QED
      BY <2>2, <3>1
  <2> QED
    BY <1>3, <2>1, <2>3
<1>5. ASSUME NEW j \in abandoned, RS!RunLate(j) PROVE marks' \subseteq ToSet(store')
  <2>1. j.rest \in Seq(Nat) /\ j.rest # <<>>
    BY <1>5, RsHas DEF RsJob, RS!RunLate
  <2>2. RS!Run(Head(j.rest)) /\ Head(j.rest) \in Nat /\ faults' = faults
    BY <1>1, <1>5, <2>1 DEF RS!RunLate
  <2> QED
    BY <1>3, <2>2
<1>6. ASSUME NEW t \in Tasks, RS!Refuse(t) \/ RS!AttemptFails(t) PROVE FALSE
  BY <1>1, <1>6 DEF RS!Refuse, RS!AttemptFails
<1> QED
  BY <1>2, <1>4, <1>5, <1>6 DEF RS!Next, RS!vars, RS!Open, RS!Write, RS!FlushOrClose, RS!Answer

LEMMA RsPushedAlways == ASSUME RsAssumptions PROVE RS!Spec => []RsPushed
<1>1. RS!Init => RsPushed
  BY DEF RS!Init, RsPushed
<1>2. RsInv /\ RsPushed /\ [RS!Next]_RS!vars => RsPushed'
  BY RsPushedStep
<1> QED
  BY <1>1, <1>2, RsAlways, PTL DEF RS!Spec

LEMMA RsExcused == RsInv /\ RsPushed => (RS!Masked # {} => RS!Excused)
BY RsSameSet, RsHas DEF RsPushed, RS!Masked, RS!Excused

\* A record that a call of RedisSink has accepted is written, or a later one of its key is, or
\* its marker hides it from the list script and it is in no list; no record is hidden unless a
\* command was refused or an attempt failed; and a key holds the newest record as long as no
\* calls or attempts overlap: for any callers, records, refused commands and attempts whose
\* outcome is not known, that end or go on (RedisSink.write_batch).
THEOREM RedisNoRowLost == ASSUME RsAssumptions PROVE RS!Spec => []RS!RowsKept
<1>1. RsInv /\ RsPushed => RS!RowsKept
  <2> SUFFICES ASSUME RsInv, RsPushed PROVE RS!RowsKept
    OBVIOUS
  <2>1. ASSUME config.mode = "set", ~overlapped, NEW r \in accepted PROVE RS!HoldsSince(r)
    BY <2>1 DEF RsInv, RsNewest, RsHolds, RS!HoldsSince
  <2> QED
    BY <2>1, RsKept, RsExcused DEF RS!RowsKept
<1> QED
  BY <1>1, RsAlways, RsPushedAlways, PTL

\* What metrics_snapshot() counts: every record accepted, and no mutation more than the commands
\* Redis has executed and the records that their markers have hidden, which it counts as well,
\* however often a command was tried.
THEOREM RedisReportIsTrue == ASSUME RsAssumptions PROVE RS!Spec => []RS!ReportIsTrue
<1>1. RsInv => RS!ReportIsTrue
  <2> SUFFICES ASSUME RsInv
               PROVE  /\ stats.accepted_record_count = RS!Cardinality(accepted)
                      /\ stats.redis_mutation_count <= Len(store) + RS!Cardinality(RS!Masked)
    BY DEF RS!ReportIsTrue, RS!metrics_snapshot
  <2>1. \A S : RS!Cardinality(S) = Cardinality(S)
    BY DEF RS!Cardinality, Cardinality
  <2> DEFINE H == accepted \cap RsHeld
             T == ToSet(store)
             l == Len(store)
             n == stats.redis_mutation_count
  <2>2. store \in Seq(Nat) /\ l \in Nat /\ n \in Nat /\ marks \in RsMarks
    BY DEF RsInv, RsTypes
  <2>3. IsFiniteSet(H) /\ Cardinality(H) \in Nat /\ n <= Cardinality(H)
    BY RsFinite DEF RsInv, RsCounts
  <2>4. IsFiniteSet(T) /\ Cardinality(T) \in Nat /\ Cardinality(T) <= l
    BY <2>2, RsLength
  <2>5. IsFiniteSet(RS!Masked) /\ H \in SUBSET (T \cup RS!Masked)
    <3>1. RS!Masked = {} \/ RS!Masked \in SUBSET marks
      BY DEF RS!Masked
    <3>2. IsFiniteSet(RS!Masked)
      BY <2>2, <3>1, FS_EmptySet, FS_Subset DEF RsMarks
    <3> QED
      BY <3>2, RsSameSet DEF RsHeld, RS!Masked
  <2> DEFINE M == RS!Masked
  <2>6. IsFiniteSet(M) /\ Cardinality(M) \in Nat /\ H \in SUBSET (T \cup M)
    BY <2>5, FS_CardinalityType
  <2> HIDE DEF H, T, M, l, n
  <2>7. /\ IsFiniteSet(T \cup M) /\ IsFiniteSet(T \cap M)
        /\ Cardinality(T \cup M) = Cardinality(T) + Cardinality(M) - Cardinality(T \cap M)
    <3>1. T \cap M \in SUBSET M
      OBVIOUS
    <3> QED
      BY <2>4, <2>6, <3>1, FS_Union, FS_Subset
  <2>8. /\ Cardinality(T \cup M) \in Nat /\ Cardinality(T \cap M) \in Nat
        /\ Cardinality(H) <= Cardinality(T \cup M)
    BY <2>6, <2>7, FS_Subset, FS_CardinalityType
  <2> DEFINE x == Cardinality(T)
             y == Cardinality(M)
             z == Cardinality(T \cap M)
             h == Cardinality(H)
  <2>9. /\ x \in Nat /\ y \in Nat /\ z \in Nat /\ h \in Nat /\ h <= x + y - z /\ x <= l /\ n <= h
        /\ l \in Nat /\ n \in Nat
    BY <2>2, <2>3, <2>4, <2>6, <2>7, <2>8
  <2> HIDE DEF x, y, z, h
  <2>10. n <= l + y
    BY <2>9
  <2>11. stats.accepted_record_count = Cardinality(accepted)
    BY DEF RsInv, RsCounts
  <2> QED
    BY <2>1, <2>10, <2>11 DEF n, l, y, M
<1> QED
  BY <1>1, RsAlways, PTL

LEMMA RsContractStep ==
  ASSUME RsAssumptions, RsInv, [RS!Next]_RS!vars, RsInv', RsPushed',
         (accepted \subseteq RS!Durable \cup RS!Masked)'
  PROVE  RsContract!Step
<1>1. config' = config /\ settled \subseteq settled'
  BY DEF RS!Next, RS!vars, RS!Open, RS!Write, RS!FlushOrClose, RS!Answer, RS!AttemptFails, RS!Execute,
     RS!Refuse, RS!RunLate
<1> DEFINE Grows == /\ ToSet(store) \subseteq ToSet(store') /\ marks \subseteq marks'
                    /\ config.mode = "list" => marks \cap ToSet(store') \subseteq ToSet(store)
<1>2. Grows
  <2>1. CASE store' = store /\ marks' = marks
    BY <2>1
  <2>0. ASSUME NEW r \in Nat, RS!Run(r) PROVE Grows
    <3>1. ToSet(Append(store, r)) = ToSet(store) \cup {r}
      BY RsHas, RsAppended
    <3> QED
      BY <2>0, <3>1, RsHas DEF RS!Run, RsMarks
  <2>2. ASSUME NEW t \in Tasks, RS!Execute(t) PROVE Grows
    <3> DEFINE b == task[t].batch
               x == b[task[t].done + 1]
    <3>1. b \in Seq(Nat) /\ store \in Seq(Nat) /\ task[t].done < Len(b) /\ task[t].done \in Nat
          /\ Len(b) \in Nat
      BY <2>2, RsTask, RsHas DEF RS!Execute
    <3>2. CASE config.mset
      <4>1. store' = store \o b /\ marks' = marks
        BY <2>2, <3>2 DEF RS!Execute
      <4>2. config.mode = "set"
        BY <3>2 DEF RsAssumptions, RsInv, RsTypes
      <4> HIDE DEF b
      <4> QED
        BY <3>1, <4>1, <4>2, AppendRows
    <3>3. CASE ~config.mset
      <4>1. RS!Run(x)
        BY <2>2, <3>3 DEF RS!Execute
      <4>2. x \in Nat
        <5> DEFINE d == task[t].done
        <5>1. d + 1 \in 1..Len(b)
          BY <3>1
        <5> QED
          BY <3>1, <5>1
      <4> HIDE DEF x
      <4> QED
        BY <2>0, <4>1, <4>2
    <3> QED
      BY <3>2, <3>3 DEF RsAssumptions, RsInv, RsTypes
  <2>3. ASSUME NEW t \in Tasks, RS!Refuse(t) PROVE store' = store /\ marks \subseteq marks'
    BY <2>3 DEF RS!Refuse
  <2>4. ASSUME NEW j \in abandoned, RS!RunLate(j)
        PROVE  Grows
    <3>1. j.rest \in Seq(Nat) /\ store \in Seq(Nat) /\ j.rest # <<>>
      BY <2>4, RsHas DEF RsJob, RS!RunLate
    <3>2. CASE config.mset
      <4>1. store' = store \o j.rest /\ marks' = marks
        BY <2>4, <3>2 DEF RS!RunLate
      <4>2. config.mode = "set"
        BY <3>2 DEF RsAssumptions, RsInv, RsTypes
      <4> QED
        BY <3>1, <4>1, <4>2, AppendRows
    <3>3. CASE ~config.mset
      <4>1. RS!Run(Head(j.rest)) /\ Head(j.rest) \in Nat
        BY <2>4, <3>1, <3>3 DEF RS!RunLate
      <4> QED
        BY <2>0, <4>1
    <3> QED
      BY <3>2, <3>3 DEF RsAssumptions, RsInv, RsTypes
  <2>5. \/ store' = store /\ marks' = marks
        \/ \E t \in Tasks : RS!Execute(t) \/ RS!Refuse(t)
        \/ \E j \in abandoned : RS!RunLate(j)
    BY DEF RS!Next, RS!vars, RS!Open, RS!Write, RS!FlushOrClose, RS!Answer, RS!AttemptFails
  <2> QED
    BY <2>1, <2>2, <2>3, <2>4, <2>5
<1>3. RsHeld \subseteq RsHeld'
  BY <1>1, <1>2 DEF RsHeld
<1>4. RS!Durable \subseteq RS!Durable' /\ RS!Masked \subseteq RS!Masked'
  BY <1>1, <1>2, RsSameSet DEF RS!Durable, RS!Masked
<1>5. settled' \subseteq accepted'
  BY DEF RsInv, RsTypes
<1>6. accepted' \subseteq RS!Durable' \cup RS!Masked'
  OBVIOUS
<1>7. RS!Masked' # {} => RS!Excused'
  <2>1. faults' \in Nat
    BY DEF RsInv, RsTypes
  <2> QED
    BY <2>1, RsSameSet DEF RsPushed, RS!Masked, RS!Excused
<1> QED
  BY <1>1, <1>4, <1>5, <1>6, <1>7 DEF RsContract!Step

\* RedisSink keeps the contract of a sink: what it settles Redis has, and no call, retry or
\* command that runs late takes it back. The records that a script which failed half-way hides
\* behind their markers are excepted, one by one: they are settled and in no list.
THEOREM RedisSinkImplementsContract == ASSUME RsAssumptions PROVE RS!Spec => RsContract!Spec
<1>1. RS!Init => RsContract!Init
  <2> SUFFICES ASSUME RS!Init PROVE RsContract!Init
    OBVIOUS
  <2>1. accepted = {} /\ settled = {} /\ store = <<>> /\ marks = {} /\ faults = 0
    BY DEF RS!Init
  <2>2. ToSet(store) = {} /\ RsHeld = {}
    BY <2>1, RsEmpty DEF RsHeld
  <2>3. RS!Durable = {} /\ RS!Masked = {}
    BY <2>2, RsDurable
  <2>4. ~RS!Excused
    BY <2>1 DEF RS!Excused
  <2> QED
    BY <2>1, <2>3, <2>4 DEF RsContract!Init
<1>2. RsAssumptions /\ RsInv => accepted \subseteq RS!Durable \cup RS!Masked
  BY RsKept
<1>3. /\ RsInv /\ RsInv' /\ RsPushed'
      /\ (accepted \subseteq RS!Durable \cup RS!Masked)' /\ [RS!Next]_RS!vars
      => RsContract!Step
  BY RsContractStep
<1>4. RsInv => accepted \subseteq RS!Durable \cup RS!Masked
  BY <1>2
<1> QED
  BY <1>1, <1>3, <1>4, RsAlways, RsPushedAlways, PTL DEF RS!Spec, RsContract!Spec
-----------------------------------------------------------------------------
(* KafkaSink. The inductive invariant follows every record that was handed     *)
(* over: not sent, it is only in the call that has it; sent, its confirmation  *)
(* is outstanding until it is in the topic or in the open transaction, unless  *)
(* the record is one of those dropped. It also says where each kind of call    *)
(* can be while a transaction is open, because nothing but the order of the    *)
(* calls keeps an abort from dropping the records of another batch: with       *)
(* transactions, one caller at a time; and that a batch which joined a         *)
(* transaction left open by a failed commit or abort is dropped as a whole.    *)
KS == INSTANCE KafkaSink
KsContract == INSTANCE DurableSink WITH durable <- KS!Durable, excused <- KS!Excused

KsAssumptions ==
    /\ End \in Nat
    /\ \A c \in Configs : /\ c.mode \in {"plain", "per_batch", "manual"}
                          /\ c.mode # "plain" => \A t, u \in c.callers : t = u

KsStages == {"idle", "send", "ack", "drain", "flush", "begin", "commit", "abort"}
KsCall == [call : {"idle", "write", "flush", "close", "begin", "commit", "abort"},
           own : SUBSET Nat, promise : SUBSET Nat, todo : Seq(Nat),
           stage : KsStages, oldest : Nat, wrapped : BOOLEAN]

KsTypes ==
    /\ config \in Configs
    /\ task \in [Tasks -> KsCall]
    /\ buffer \in Seq(Nat) /\ store \in Seq(Nat) /\ txn \in Seq(Nat)
    /\ ToSet(store) \subseteq Records
    /\ given \in Nat /\ given <= End
    /\ accepted \in SUBSET Records /\ settled \in SUBSET accepted
    /\ in_transaction \in BOOLEAN
    /\ delivery \in [Records -> {"none", "sent", "ok", "failed"}]

\* How far each kind of call can be.
KsStaged(c) ==
    /\ c.call = "idle" => c.stage = "idle" /\ c.promise = {}
    /\ c.call \notin {"write", "commit"} => c.own = {}
    /\ c.call \notin {"flush", "close"} => c.promise = {}
    /\ c.oldest # 0 <=> c.stage \in {"ack", "drain"}
    /\ c.stage \in {"send", "ack"} => c.call = "write"
    /\ c.stage = "drain" => c.call \in {"write", "commit", "flush", "close"}
    /\ c.stage = "send" => c.todo # <<>>
    /\ c.stage = "begin" /\ c.call = "write" => c.todo # <<>> /\ c.wrapped
    /\ c.stage \in {"idle", "drain", "flush", "commit"} => c.todo = <<>>
    /\ c.stage = "flush" => c.call \in {"flush", "close"}
    /\ c.stage = "begin" => c.call \in {"begin", "write"}
    /\ c.stage = "commit" => c.call \in {"commit", "write"}
    /\ c.wrapped => c.call = "write"
    /\ c.call # "write" => c.todo = <<>>
    /\ c.stage = "abort" /\ ~c.wrapped => c.call \in {"abort", "close"}

KsCalls == \A t \in Tasks : KsStaged(task[t]) /\ (t \notin config.callers => task[t].call = "idle")

\* A record that was handed over and not yet sent is nowhere but in the call that has it.
KsUnsentCall(c, d, g) ==
    /\ ToSet(c.todo) \cup c.own \cup c.promise \subseteq 1..g
    /\ \A i, j \in 1..Len(c.todo) : i # j => c.todo[i] # c.todo[j]
    /\ \A r \in ToSet(c.todo) : d[r] = "none"
    /\ \A r \in c.own \ ToSet(c.todo) : d[r] # "none"
    /\ \A r \in c.promise : d[r] # "none"
    /\ c.oldest # 0 => c.oldest \in Records /\ d[c.oldest] # "none"

KsApart(c, e) == ToSet(c.todo) \cap (ToSet(e.todo) \cup e.own) = {}

KsUnsent ==
    /\ \A t \in Tasks : KsUnsentCall(task[t], delivery, given)
    /\ \A t, u \in Tasks : t # u => KsApart(task[t], task[u])
    /\ \A r \in accepted \cup ToSet(buffer) \cup ToSet(txn) : r \in Records /\ delivery[r] # "none"
    /\ \A r \in Records : r > given => delivery[r] = "none"

\* Where the one caller can be while a transaction is open, and where while none is.
KsMay(c, open, broken, lost) ==
    /\ config.mode = "per_batch" => /\ open => c.wrapped \/ broken
                                    /\ c.call \in {"idle", "write", "flush", "close"}
                                    /\ c.call = "write" => c.wrapped \/ c.own \subseteq lost
    /\ config.mode = "manual" => ~c.wrapped /\ (c.call = "write" => c.own = {})

KsTxnCall(c, open, acks, tx, broken, lost) ==
    /\ KsMay(c, open, broken, lost)
    /\ ~open => acks = <<>> /\ tx = <<>> /\ c.stage \in {"idle", "begin", "flush"}
    /\ c.stage = "begin" => ~open
    /\ c.stage \in {"commit", "abort"} => acks = <<>>

KsPlainCall(c) == /\ ~c.wrapped /\ c.stage \notin {"begin", "commit", "abort"}
                  /\ c.stage = "drain" => c.call \in {"flush", "close"}

KsModes ==
    IF config.mode = "plain"
    THEN ~in_transaction /\ txn = <<>> /\ \A t \in Tasks : KsPlainCall(task[t])
    ELSE \A t \in config.callers \cap Tasks : KsTxnCall(task[t], in_transaction, buffer, txn, torn, dropped)

\* The records whose confirmation calls other than t's await.
KsOthers(t) == {task[u].oldest : u \in Tasks \ {t}} \ {0}
KsAwaited == ToSet(buffer) \cup ({task[t].oldest : t \in Tasks} \ {0})

\* But for what was dropped, a record that was sent and not answered is awaited, one that
\* is awaited and confirmed is in the topic or in the transaction, so is what a call has
\* sent, and what was accepted is in the topic or, without transactions, awaited.
KsPlaces ==
    /\ \A r \in Records : delivery[r] = "sent" =>
          r \in KsAwaited \cup dropped \/ \E t \in Tasks : task[t].stage = "abort"
    /\ \A r \in KsAwaited : delivery[r] = "ok" => r \in ToSet(store) \cup ToSet(txn)
    /\ accepted \subseteq ToSet(store) \cup dropped \cup IF config.mode = "plain" THEN KsAwaited ELSE {}
    /\ \A t \in Tasks : task[t].stage # "abort" =>
          task[t].own \ ToSet(task[t].todo)
             \subseteq ToSet(store) \cup ToSet(txn) \cup KsAwaited \cup dropped
    /\ \A t \in Tasks : task[t].stage = "flush" => task[t].promise \cap ToSet(buffer) = {}
    /\ settled \subseteq ToSet(store) \cup dropped

\* Nothing is dropped but after a failed commit or abort, or beside a call that awaits.
KsDropped == dropped # {} => torn \/ overlapped

KsBase == KsTypes /\ KsCalls /\ KsUnsent
KsInv == KsBase /\ KsModes /\ KsPlaces /\ KsDropped

-----------------------------------------------------------------------------
LEMMA KsSame == (\A s : KS!ToSet(s) = ToSet(s)) /\ KS!Records = Records
  BY DEF KS!ToSet, ToSet, KS!Records, Records

LEMMA KsIdle ==
  /\ KS!Idle \in KsCall /\ KS!Idle.call = "idle" /\ KS!Idle.own = {} /\ KS!Idle.promise = {}
  /\ KS!Idle.todo = <<>> /\ KS!Idle.stage = "idle" /\ KS!Idle.oldest = 0 /\ KS!Idle.wrapped = FALSE
  /\ KsStaged(KS!Idle) /\ KsPlainCall(KS!Idle)
<1>1. /\ KS!Idle \in KsCall /\ KS!Idle.call = "idle" /\ KS!Idle.own = {} /\ KS!Idle.promise = {}
      /\ KS!Idle.todo = <<>> /\ KS!Idle.stage = "idle" /\ KS!Idle.oldest = 0 /\ KS!Idle.wrapped = FALSE
  <2>1. <<>> \in Seq(Nat)
    OBVIOUS
  <2> QED
    BY <2>1 DEF KS!Idle, KsCall, KsStages
<1> QED
  BY <1>1 DEF KsStaged, KsPlainCall

LEMMA KsIdleUnsent ==
  ASSUME NEW d, NEW g
  PROVE  KsUnsentCall(KS!Idle, d, g)
<1>1. ToSet(<<>>) = {} /\ Len(<<>>) = 0
  BY DEF ToSet
<1> QED
  BY <1>1, KsIdle DEF KsUnsentCall

\* A call that goes on while another step happens: it may lose a record that is reported.
KsKeeps(e, f) ==
    /\ f.call = e.call /\ f.promise = e.promise /\ f.todo = e.todo /\ f.stage = e.stage
    /\ f.oldest = e.oldest /\ f.wrapped = e.wrapped /\ f.own \subseteq e.own

LEMMA KsKept ==
  ASSUME NEW e, NEW f, KsKeeps(e, f), NEW d, NEW g
  PROVE  /\ KsStaged(e) => KsStaged(f)
         /\ KsUnsentCall(e, d, g) => KsUnsentCall(f, d, g)
         /\ KsPlainCall(e) => KsPlainCall(f)
<1>1. KsStaged(e) => KsStaged(f)
  BY DEF KsKeeps, KsStaged
<1>2. KsPlainCall(e) => KsPlainCall(f)
  BY DEF KsKeeps, KsPlainCall
<1>3. KsUnsentCall(e, d, g) => KsUnsentCall(f, d, g)
  BY DEF KsKeeps, KsUnsentCall
<1> QED
  BY <1>1, <1>2, <1>3

\* What a step may not do to what is not a call.
KsRest ==
    /\ config' = config
    /\ store' \in Seq(Nat) /\ txn' \in Seq(Nat) /\ buffer' \in Seq(Nat)
    /\ ToSet(store) \subseteq ToSet(store') /\ ToSet(store') \subseteq Records
    /\ given' \in Nat /\ given' <= End /\ in_transaction' \in BOOLEAN
    /\ delivery' \in [Records -> {"none", "sent", "ok", "failed"}]
    /\ (torn => torn') /\ (overlapped => overlapped') /\ dropped \subseteq dropped'

\* What holds whatever failed: the calls but t's go on, and t's is consistent.
LEMMA KsBaseStep ==
  ASSUME KsBase, KsRest, NEW t \in Tasks,
         task' \in [Tasks -> KsCall],
         \A u \in Tasks \ {t} : KsKeeps(task[u], task'[u]),
         KsStaged(task'[t]), t \notin config.callers => task'[t].call = "idle",
         KsUnsentCall(task'[t], delivery', given'),
         \A u \in Tasks \ {t} : KsUnsentCall(task[u], delivery', given'),
         \A u \in Tasks \ {t} : KsApart(task'[t], task[u]) /\ KsApart(task[u], task'[t]),
         accepted' \in SUBSET Records, settled' \in SUBSET accepted',
         \A r \in accepted' \cup ToSet(buffer') \cup ToSet(txn') : r \in Records /\ delivery'[r] # "none",
         \A r \in Records : r > given' => delivery'[r] = "none"
  PROVE  KsBase'
<1>1. KsTypes'
  BY DEF KsBase, KsTypes, KsRest
<1>2. KsCalls'
  <2> SUFFICES ASSUME NEW u \in Tasks
               PROVE  KsStaged(task'[u]) /\ (u \notin config.callers => task'[u].call = "idle")
    BY DEF KsCalls, KsRest
  <2>1. CASE u = t
    BY <2>1
  <2>2. CASE u # t
    <3>1. KsKeeps(task[u], task'[u]) /\ KsStaged(task[u])
          /\ (u \notin config.callers => task[u].call = "idle")
      BY <2>2 DEF KsBase, KsCalls
    <3> QED
      BY <3>1, KsKept DEF KsKeeps
  <2> QED
    BY <2>1, <2>2
<1>3. \A u \in Tasks : KsUnsentCall(task'[u], delivery', given')
  BY KsKept
<1>4. \A u, v \in Tasks : u # v => KsApart(task'[u], task'[v])
  <2> SUFFICES ASSUME NEW u \in Tasks, NEW v \in Tasks, u # v PROVE KsApart(task'[u], task'[v])
    OBVIOUS
  <2>1. CASE u = t
    BY <2>1 DEF KsApart, KsKeeps
  <2>2. CASE v = t
    BY <2>2 DEF KsApart, KsKeeps
  <2>3. CASE u # t /\ v # t
    <3>1. KsApart(task[u], task[v])
      BY DEF KsBase, KsUnsent
    <3> QED
      BY <2>3, <3>1 DEF KsApart, KsKeeps
  <2> QED
    BY <2>1, <2>2, <2>3
<1>5. KsUnsent'
  BY <1>3, <1>4 DEF KsUnsent
<1> QED
  BY <1>1, <1>2, <1>5 DEF KsBase

\* One call goes on, the others wait.
LEMMA KsOne ==
  ASSUME task \in [Tasks -> KsCall], NEW t \in Tasks, NEW n \in KsCall,
         task' = [task EXCEPT ![t] = n]
  PROVE  /\ task' \in [Tasks -> KsCall] /\ task'[t] = n
         /\ \A u \in Tasks \ {t} : task'[u] = task[u] /\ KsKeeps(task[u], task'[u])
<1>1. /\ task' \in [Tasks -> KsCall] /\ task'[t] = n
      /\ \A u \in Tasks \ {t} : task'[u] = task[u]
  OBVIOUS
<1> QED
  BY <1>1 DEF KsKeeps

\* One call raises, and an error that names a record takes it from the others.
LEMMA KsOneRaises ==
  ASSUME task \in [Tasks -> KsCall], NEW t \in Tasks, NEW failed,
         task' = [u \in Tasks |-> IF u = t THEN KS!Idle ELSE [task[u] EXCEPT !.own = @ \ failed]]
  PROVE  /\ task' \in [Tasks -> KsCall] /\ task'[t] = KS!Idle
         /\ \A u \in Tasks \ {t} : KsKeeps(task[u], task'[u]) /\ task'[u].own = task[u].own \ failed
<1>1. task'[t] = KS!Idle
  OBVIOUS
<1>2. ASSUME NEW u \in Tasks \ {t}
      PROVE  KsKeeps(task[u], task'[u]) /\ task'[u].own = task[u].own \ failed /\ task'[u] \in KsCall
  <2>1. task[u] \in KsCall /\ task'[u] = [task[u] EXCEPT !.own = @ \ failed]
    OBVIOUS
  <2> QED
    BY <2>1 DEF KsCall, KsKeeps
<1>3. \A u \in Tasks : task'[u] \in KsCall
  BY <1>1, <1>2, KsIdle
<1> QED
  BY <1>1, <1>2, <1>3

-----------------------------------------------------------------------------
\* A call c that waits for nothing, with the confirmations acks outstanding: what the
\* answer it just had leaves behind, and what each way to go on needs.
KsReadyBase(t, c, acks) ==
    /\ c \in KsCall /\ acks \in Seq(Nat)
    /\ KsUnsentCall(c, delivery', given')
    /\ \A u \in Tasks \ {t} : KsUnsentCall(task[u], delivery', given')
    /\ \A u \in Tasks \ {t} : KsApart(c, task[u]) /\ KsApart(task[u], c)
    /\ \A r \in accepted \cup ToSet(acks) \cup ToSet(txn') : r \in Records /\ delivery'[r] # "none"
    /\ \A r \in Records : r > given' => delivery'[r] = "none"

KsWaiting(t, acks) == ToSet(acks) \cup KsOthers(t)

\* What the call has sent.
KsOwned(t, c, acks) ==
    c.own \ ToSet(c.todo) \subseteq ToSet(store') \cup ToSet(txn') \cup KsWaiting(t, acks) \cup dropped'

KsReady(t, acks, failed) ==
    /\ \A r \in Records : delivery'[r] = "sent" => r \in KsWaiting(t, acks) \cup dropped'
    /\ \A r \in KsWaiting(t, acks) : delivery'[r] = "ok" => r \in ToSet(store') \cup ToSet(txn')
    /\ accepted \ (failed \ settled) \subseteq
          ToSet(store') \cup dropped' \cup IF config.mode = "plain" THEN KsWaiting(t, acks) ELSE {}
    /\ \A u \in Tasks \ {t} :
          (task[u].own \ failed) \ ToSet(task[u].todo) \subseteq
              ToSet(store') \cup ToSet(txn') \cup KsWaiting(t, acks) \cup dropped'
    /\ \A u \in Tasks \ {t} : task[u].stage = "flush" => task[u].promise \cap ToSet(acks) = {}
    /\ \A u \in Tasks \ {t} : task[u].stage # "abort"
    /\ settled \subseteq ToSet(store') \cup dropped'
    /\ config.mode = "plain" =>
          ~in_transaction' /\ txn' = <<>> /\ \A u \in Tasks \ {t} : KsPlainCall(task[u])
    /\ config.mode # "plain" => \A u \in config.callers \cap Tasks : u = t

LEMMA KsGoesBase ==
  ASSUME KsBase, KsRest, NEW t \in Tasks, t \in config.callers, NEW c, NEW acks,
         KsReadyBase(t, c, acks), NEW n \in KsCall,
         n.own = c.own, n.promise = c.promise, n.todo = c.todo, KsStaged(n),
         ToSet(buffer') \subseteq ToSet(acks), n.oldest \in ToSet(acks) \cup {0},
         task' = [task EXCEPT ![t] = n], accepted' = accepted, settled' = settled
  PROVE  KsBase'
<1>1. task \in [Tasks -> KsCall] /\ accepted \in SUBSET Records /\ settled \in SUBSET accepted
  BY DEF KsBase, KsTypes
<1>2. /\ task' \in [Tasks -> KsCall] /\ task'[t] = n
      /\ \A u \in Tasks \ {t} : task'[u] = task[u] /\ KsKeeps(task[u], task'[u])
  BY <1>1, KsOne
<1>3. \A r \in accepted \cup ToSet(acks) \cup ToSet(txn') : r \in Records /\ delivery'[r] # "none"
  BY DEF KsReadyBase
<1>4. KsUnsentCall(n, delivery', given')
  <2>1. n.oldest # 0 => n.oldest \in Records /\ delivery'[n.oldest] # "none"
    BY <1>3
  <2> QED
    BY <2>1 DEF KsReadyBase, KsUnsentCall
<1>5. \A u \in Tasks \ {t} : KsApart(n, task[u]) /\ KsApart(task[u], n)
  BY DEF KsReadyBase, KsApart
<1> QED
  BY <1>1, <1>2, <1>3, <1>4, <1>5, KsBaseStep DEF KsReadyBase

\* Who awaits what, after a step of t.
LEMMA KsAwaitedAfter ==
  ASSUME NEW t \in Tasks, \A u \in Tasks \ {t} : task'[u].oldest = task[u].oldest
  PROVE  KsAwaited' = ToSet(buffer') \cup ({task'[t].oldest} \ {0}) \cup KsOthers(t)
<1>1. {task'[u].oldest : u \in Tasks} = {task'[t].oldest} \cup {task'[u].oldest : u \in Tasks \ {t}}
  OBVIOUS
<1>2. {task'[u].oldest : u \in Tasks \ {t}} = {task[u].oldest : u \in Tasks \ {t}}
  OBVIOUS
<1> QED
  BY <1>1, <1>2 DEF KsAwaited, KsOthers

LEMMA KsGoesPlaces ==
  ASSUME KsBase, KsRest, NEW t \in Tasks, t \in config.callers, NEW c, NEW acks,
         KsReady(t, acks, {}), KsOwned(t, c, acks), NEW n \in KsCall,
         n.own = c.own, n.todo = c.todo, n.stage # "abort",
         ToSet(acks) = ToSet(buffer') \cup ({n.oldest} \ {0}),
         n.stage = "flush" => buffer' = <<>>,
         IF config.mode = "plain" THEN KsPlainCall(n)
                                  ELSE KsTxnCall(n, in_transaction', buffer', txn', torn', dropped'),
         task' = [task EXCEPT ![t] = n], accepted' = accepted, settled' = settled
  PROVE  KsModes' /\ KsPlaces'
<1>1. /\ task' \in [Tasks -> KsCall] /\ task'[t] = n
      /\ \A u \in Tasks \ {t} : task'[u] = task[u]
  BY KsOne DEF KsBase, KsTypes
<1>2. KsAwaited' = KsWaiting(t, acks)
  BY <1>1, KsAwaitedAfter DEF KsWaiting
<1>3. KsModes'
  BY <1>1 DEF KsModes, KsReady, KsRest, KsTxnCall, KsMay
<1>4. /\ accepted \subseteq ToSet(store') \cup dropped'
                       \cup IF config.mode = "plain" THEN KsWaiting(t, acks) ELSE {}
      /\ settled \subseteq ToSet(store') \cup dropped'
  BY DEF KsReady
<1>5. \A u \in Tasks : task'[u].own \ ToSet(task'[u].todo)
                          \subseteq ToSet(store') \cup ToSet(txn') \cup KsWaiting(t, acks) \cup dropped'
  BY <1>1 DEF KsReady, KsOwned
<1>6. \A u \in Tasks : task'[u].stage = "flush" => task'[u].promise \cap ToSet(buffer') = {}
  <2>1. ToSet(<<>>) = {}
    BY DEF ToSet
  <2>2. \A u \in Tasks \ {t} : task[u].stage = "flush" => task[u].promise \cap ToSet(acks) = {}
    BY DEF KsReady
  <2> QED
    BY <1>1, <2>1, <2>2
<1> QED
  BY <1>2, <1>3, <1>4, <1>5, <1>6 DEF KsPlaces, KsReady, KsRest

LEMMA KsAbortsPlaces ==
  ASSUME KsBase, KsRest, NEW t \in Tasks, t \in config.callers, config.mode # "plain",
         \A u \in config.callers \cap Tasks : u = t,
         accepted \subseteq ToSet(store') \cup dropped', settled \subseteq ToSet(store') \cup dropped',
         NEW n \in KsCall,
         n.stage = "abort", n.oldest = 0, buffer' = <<>>,
         KsTxnCall(n, in_transaction', buffer', txn', torn', dropped'),
         task' = [task EXCEPT ![t] = n], accepted' = accepted, settled' = settled
  PROVE  KsModes' /\ KsPlaces'
<1>1. /\ task' \in [Tasks -> KsCall] /\ task'[t] = n
      /\ \A u \in Tasks \ {t} : task'[u] = task[u]
  BY KsOne DEF KsBase, KsTypes
<1>2. \A u \in Tasks \ {t} : task[u].own = {} /\ task[u].stage = "idle" /\ task[u].oldest = 0
  BY DEF KsBase, KsCalls, KsStaged
<1>3. KsModes'
  BY <1>1 DEF KsModes, KsRest, KsTxnCall, KsMay
<1>4. KsAwaited' = {}
  BY <1>1, <1>2 DEF KsAwaited, ToSet
<1>5. \E u \in Tasks : task'[u].stage = "abort"
  BY <1>1
<1>6. \A u \in Tasks : /\ task'[u].stage # "abort" => task'[u].own = {}
                       /\ task'[u].stage # "flush"
  BY <1>1, <1>2
<1> QED
  BY <1>3, <1>4, <1>5, <1>6 DEF KsPlaces, KsRest

-----------------------------------------------------------------------------
\* A call returns: its records are accepted and its promise is settled.
LEMMA KsReturnsBase ==
  ASSUME KsAssumptions, KsBase, KsRest, NEW t \in Tasks, NEW c, NEW acks,
         KsReadyBase(t, c, acks), c.todo = <<>>, KS!Returns(t, c), ToSet(buffer') \subseteq ToSet(acks)
  PROVE  KsBase'
<1>1. task \in [Tasks -> KsCall] /\ accepted \in SUBSET Records /\ settled \in SUBSET accepted
  BY DEF KsBase, KsTypes
<1>2. /\ task' \in [Tasks -> KsCall] /\ task'[t] = KS!Idle
      /\ \A u \in Tasks \ {t} : KsKeeps(task[u], task'[u])
  BY <1>1, KsOne, KsIdle DEF KS!Returns
<1>3. accepted' = accepted \cup c.own /\ settled' = settled \cup (c.promise \cap accepted)
  BY DEF KS!Returns
<1>4. \A r \in c.own : r \in Records /\ delivery'[r] # "none"
  <2>1. ToSet(<<>>) = {}
    BY DEF ToSet
  <2>2. ToSet(c.todo) = {}
    BY <2>1
  <2>3. c.own \subseteq 1..given' /\ given' \in Nat /\ given' <= End
    BY DEF KsReadyBase, KsUnsentCall, KsRest
  <2>5. \A r \in c.own \ ToSet(c.todo) : delivery'[r] # "none"
    BY DEF KsReadyBase, KsUnsentCall
  <2> QED
    BY <2>2, <2>3, <2>5 DEF Records, KsAssumptions
<1>5. \A r \in accepted' \cup ToSet(buffer') \cup ToSet(txn') : r \in Records /\ delivery'[r] # "none"
  BY <1>3, <1>4 DEF KsReadyBase
<1>6. KsUnsentCall(task'[t], delivery', given') /\ KsStaged(task'[t]) /\ task'[t].call = "idle"
  BY <1>2, KsIdle, KsIdleUnsent
<1>7. \A u \in Tasks \ {t} : KsApart(task'[t], task[u]) /\ KsApart(task[u], task'[t])
  BY <1>2, KsIdle DEF KsApart, ToSet
<1>8. accepted' \in SUBSET Records /\ settled' \in SUBSET accepted'
  BY <1>1, <1>3, <1>4
<1>9. /\ \A u \in Tasks \ {t} : KsUnsentCall(task[u], delivery', given')
      /\ \A r \in Records : r > given' => delivery'[r] = "none"
  BY DEF KsReadyBase
<1> QED
  BY <1>2, <1>5, <1>6, <1>7, <1>8, <1>9, KsBaseStep

LEMMA KsReturnsPlaces ==
  ASSUME KsBase, KsRest, NEW t \in Tasks, NEW c, NEW acks,
         KsReady(t, acks, {}), KsOwned(t, c, acks), c.todo = <<>>, KS!Returns(t, c), buffer' = acks,
         config.mode # "plain" => c.own \subseteq ToSet(store') \cup dropped',
         c.promise \cap accepted \subseteq ToSet(store') \cup dropped',
         config.mode # "plain" => KsTxnCall(KS!Idle, in_transaction', buffer', txn', torn', dropped')
  PROVE  KsModes' /\ KsPlaces'
<1>1. /\ task' \in [Tasks -> KsCall] /\ task'[t] = KS!Idle
      /\ \A u \in Tasks \ {t} : task'[u] = task[u]
  BY KsOne, KsIdle DEF KsBase, KsTypes, KS!Returns
<1>2. KsAwaited' = KsWaiting(t, acks)
  <2>1. {KS!Idle.oldest} \ {0} = {}
    BY KsIdle
  <2> QED
    BY <1>1, <2>1, KsAwaitedAfter DEF KsWaiting
<1>3. KsModes'
  BY <1>1, KsIdle DEF KsModes, KsReady, KsRest, KsTxnCall, KsMay
<1>4. accepted' = accepted \cup c.own /\ settled' = settled \cup (c.promise \cap accepted)
  BY DEF KS!Returns
<1>5. ToSet(<<>>) = {}
  BY DEF ToSet
<1>6. accepted' \subseteq ToSet(store') \cup dropped'
                       \cup IF config.mode = "plain" THEN KsWaiting(t, acks) ELSE {}
  <2>1. accepted \subseteq ToSet(store') \cup dropped'
                       \cup IF config.mode = "plain" THEN KsWaiting(t, acks) ELSE {}
    BY DEF KsReady
  <2>2. c.own \subseteq ToSet(store') \cup ToSet(txn') \cup KsWaiting(t, acks) \cup dropped'
    BY <1>5 DEF KsOwned
  <2>3. config.mode = "plain" => txn' = <<>>
    BY DEF KsReady
  <2> QED
    BY <1>4, <1>5, <2>1, <2>2, <2>3
<1>7. \A u \in Tasks : task'[u].own \ ToSet(task'[u].todo)
                          \subseteq ToSet(store') \cup ToSet(txn') \cup KsWaiting(t, acks) \cup dropped'
  BY <1>1, KsIdle DEF KsReady
<1>8. \A u \in Tasks : task'[u].stage = "flush" => task'[u].promise \cap ToSet(buffer') = {}
  BY <1>1, KsIdle DEF KsReady
<1>9. settled' \subseteq ToSet(store') \cup dropped'
  BY <1>4 DEF KsReady
<1> QED
  BY <1>2, <1>3, <1>6, <1>7, <1>8, <1>9 DEF KsPlaces, KsReady, KsRest

\* A call raises, and the record whose confirmation failed is reported with the error.
LEMMA KsRaisesBase ==
  ASSUME KsBase, KsRest, NEW t \in Tasks, NEW c, NEW acks, NEW failed,
         KsReadyBase(t, c, acks), KS!Raises(t, c, failed), ToSet(buffer') \subseteq ToSet(acks)
  PROVE  KsBase'
<1>1. task \in [Tasks -> KsCall] /\ accepted \in SUBSET Records /\ settled \in SUBSET accepted
  BY DEF KsBase, KsTypes
<1>2. /\ task' \in [Tasks -> KsCall] /\ task'[t] = KS!Idle
      /\ \A u \in Tasks \ {t} : KsKeeps(task[u], task'[u])
  BY <1>1, KsOneRaises DEF KS!Raises
<1>3. accepted' = accepted \ (failed \ settled) /\ settled' = settled
  BY DEF KS!Raises
<1>5. \A r \in accepted' \cup ToSet(buffer') \cup ToSet(txn') : r \in Records /\ delivery'[r] # "none"
  BY <1>3 DEF KsReadyBase
<1>6. KsUnsentCall(task'[t], delivery', given') /\ KsStaged(task'[t]) /\ task'[t].call = "idle"
  BY <1>2, KsIdle, KsIdleUnsent
<1>7. \A u \in Tasks \ {t} : KsApart(task'[t], task[u]) /\ KsApart(task[u], task'[t])
  BY <1>2, KsIdle DEF KsApart, ToSet
<1>8. accepted' \in SUBSET Records /\ settled' \in SUBSET accepted'
  BY <1>1, <1>3
<1>9. /\ \A u \in Tasks \ {t} : KsUnsentCall(task[u], delivery', given')
      /\ \A r \in Records : r > given' => delivery'[r] = "none"
  BY DEF KsReadyBase
<1> QED
  BY <1>2, <1>5, <1>6, <1>7, <1>8, <1>9, KsBaseStep

LEMMA KsRaisesPlaces ==
  ASSUME KsBase, KsRest, NEW t \in Tasks, NEW c, NEW acks, NEW failed,
         KsReady(t, acks, failed), KS!Raises(t, c, failed), buffer' = acks,
         config.mode # "plain" => KsTxnCall(KS!Idle, in_transaction', buffer', txn', torn', dropped')
  PROVE  KsModes' /\ KsPlaces'
<1>1. /\ task' \in [Tasks -> KsCall] /\ task'[t] = KS!Idle
      /\ \A u \in Tasks \ {t} : KsKeeps(task[u], task'[u]) /\ task'[u].own = task[u].own \ failed
  BY KsOneRaises DEF KsBase, KsTypes, KS!Raises
<1>2. KsAwaited' = KsWaiting(t, acks)
  <2>1. {KS!Idle.oldest} \ {0} = {}
    BY KsIdle
  <2>2. \A u \in Tasks \ {t} : task'[u].oldest = task[u].oldest
    BY <1>1 DEF KsKeeps
  <2> QED
    BY <1>1, <2>1, <2>2, KsAwaitedAfter DEF KsWaiting
<1>3. KsModes'
  <2>1. config.mode = "plain" => \A u \in Tasks : KsPlainCall(task'[u])
    BY <1>1, KsIdle, KsKept DEF KsReady
  <2> QED
    BY <1>1, <2>1 DEF KsModes, KsReady, KsRest, KsTxnCall, KsMay
<1>4. accepted' = accepted \ (failed \ settled) /\ settled' = settled
  BY DEF KS!Raises
<1>7. \A u \in Tasks : task'[u].own \ ToSet(task'[u].todo)
                          \subseteq ToSet(store') \cup ToSet(txn') \cup KsWaiting(t, acks) \cup dropped'
  BY <1>1, KsIdle DEF KsReady, KsKeeps
<1>8. \A u \in Tasks : task'[u].stage = "flush" => task'[u].promise \cap ToSet(buffer') = {}
  BY <1>1, KsIdle DEF KsReady, KsKeeps
<1> QED
  BY <1>2, <1>3, <1>4, <1>7, <1>8 DEF KsPlaces, KsReady, KsRest

-----------------------------------------------------------------------------
(* The ways in which a call goes on, as the code shares them.                *)

\* What kind of call has what.
KsShape(c) ==
    /\ c.call # "idle" /\ c.call \notin {"write", "commit"} => c.own = {}
    /\ c.call # "idle" /\ c.call \notin {"flush", "close"} => c.promise = {}
    /\ c.wrapped => c.call = "write"
    /\ c.call # "write" => c.todo = <<>>
    /\ c.call # "idle"

KsWith(c, o) == [c EXCEPT !.oldest = o]
KsAs(n, c, s, o) == /\ n.stage = s /\ n.oldest = o /\ n.call = c.call /\ n.own = c.own
                    /\ n.promise = c.promise /\ n.todo = c.todo /\ n.wrapped = c.wrapped

LEMMA KsGotoStage ==
  ASSUME NEW c \in KsCall, NEW s \in KsStages, NEW t, KS!Goto(t, c, s)
  PROVE  \E n \in KsCall : KsAs(n, c, s, c.oldest) /\ task' = [task EXCEPT ![t] = n]
<1> DEFINE n == [c EXCEPT !.stage = s]
<1>1. n \in KsCall /\ KsAs(n, c, s, c.oldest)
  BY DEF KsCall, KsAs
<1>2. task' = [task EXCEPT ![t] = n]
  BY DEF KS!Goto
<1> QED
  BY <1>1, <1>2

LEMMA KsGoto ==
  ASSUME NEW c \in KsCall, NEW o \in Nat, NEW s \in KsStages, NEW t, KS!Goto(t, KsWith(c, o), s)
  PROVE  \E n \in KsCall : KsAs(n, c, s, o) /\ task' = [task EXCEPT ![t] = n]
<1> DEFINE m == KsWith(c, o)
<1>1. /\ m \in KsCall /\ m.oldest = o /\ m.call = c.call /\ m.own = c.own
      /\ m.promise = c.promise /\ m.todo = c.todo /\ m.wrapped = c.wrapped
  BY DEF KsCall, KsWith
<1>2. KS!Goto(t, m, s)
  OBVIOUS
<1> HIDE DEF m
<1>3. PICK n \in KsCall : KsAs(n, m, s, m.oldest) /\ task' = [task EXCEPT ![t] = n]
  BY <1>1, <1>2, KsGotoStage
<1>4. KsAs(n, c, s, o)
  BY <1>1, <1>3 DEF KsAs
<1> QED
  BY <1>3, <1>4

LEMMA KsFirst ==
  ASSUME NEW acks \in Seq(Nat), acks # <<>>
  PROVE  Head(acks) \in Nat /\ Tail(acks) \in Seq(Nat) /\ ToSet(acks) = ToSet(Tail(acks)) \cup {Head(acks)}
  BY S3TailRows

\* The oldest confirmation is awaited next.
LEMMA KsAwaits ==
  ASSUME KsAssumptions, KsBase, KsRest, NEW t \in Tasks, t \in config.callers, NEW c, NEW acks,
         KsReadyBase(t, c, acks), KsShape(c), acks # <<>>, NEW stage \in {"ack", "drain"},
         stage = "ack" => c.call = "write", 
         stage = "drain" => c.todo = <<>> /\ c.call \in {"write", "commit", "flush", "close"},
         KS!Goto(t, KsWith(c, Head(acks)), stage),
         buffer' = Tail(acks), accepted' = accepted, settled' = settled
  PROVE  /\ KsBase'
         /\ KsReady(t, acks, {}) /\ KsOwned(t, c, acks)
            /\ (config.mode = "plain" => ~c.wrapped /\ (stage = "drain" => c.call \in {"flush", "close"}))
            /\ (config.mode # "plain" => in_transaction' /\ KsMay(c, TRUE, torn', dropped'))
              => KsModes' /\ KsPlaces'
<1>1. c \in KsCall /\ acks \in Seq(Nat) /\ stage \in KsStages
  BY DEF KsReadyBase, KsStages
<1>2. Head(acks) \in Nat /\ ToSet(acks) = ToSet(Tail(acks)) \cup {Head(acks)}
  BY <1>1, KsFirst
<1>3. Head(acks) \in Records /\ Head(acks) # 0
  BY <1>2 DEF KsReadyBase, Records, KsAssumptions
<1>5. PICK n \in KsCall : KsAs(n, c, stage, Head(acks)) /\ task' = [task EXCEPT ![t] = n]
  BY <1>1, <1>2, KsGoto
<1>4. /\ n \in KsCall /\ n.stage = stage /\ n.oldest = Head(acks) /\ n.call = c.call /\ n.own = c.own
      /\ n.promise = c.promise /\ n.todo = c.todo /\ n.wrapped = c.wrapped
  BY <1>5 DEF KsAs
<1>6. KsStaged(n)
  BY <1>3, <1>4 DEF KsStaged, KsShape
<1>7. KsBase'
  BY <1>2, <1>4, <1>5, <1>6, KsGoesBase
<1>8. ASSUME KsReady(t, acks, {}) /\ KsOwned(t, c, acks), 
             config.mode = "plain" => ~c.wrapped /\ (stage = "drain" => c.call \in {"flush", "close"}),
             config.mode # "plain" => in_transaction' /\ KsMay(c, TRUE, torn', dropped')
      PROVE  KsModes' /\ KsPlaces'
  <2>1. IF config.mode = "plain" THEN KsPlainCall(n)
                                  ELSE KsTxnCall(n, in_transaction', buffer', txn', torn', dropped')
    <3>1. config.mode # "plain" => KsMay(n, in_transaction', torn', dropped')
      BY <1>4, <1>8 DEF KsMay
    <3> QED
      BY <1>4, <1>8, <3>1 DEF KsPlainCall, KsTxnCall
  <2>2. ToSet(acks) = ToSet(buffer') \cup ({n.oldest} \ {0})
    BY <1>2, <1>3, <1>4
  <2>3. /\ n.stage # "abort" /\ (n.stage = "flush" => buffer' = <<>>)
        /\ n.own = c.own /\ n.todo = c.todo /\ task' = [task EXCEPT ![t] = n]
    BY <1>4, <1>5
  <2>4. KsReady(t, acks, {}) /\ KsOwned(t, c, acks)
    BY <1>8
  <2> QED
    BY <2>1, <2>2, <2>3, <2>4, KsGoesPlaces
<1> QED
  BY <1>7, <1>8

\* The confirmations are drained, and when there are none the call goes on to its stage.
LEMMA KsDrains ==
  ASSUME KsAssumptions, KsBase, KsRest, NEW t \in Tasks, t \in config.callers, NEW c, NEW acks,
         KsReadyBase(t, c, acks), KsShape(c), c.todo = <<>>, NEW stage \in {"flush", "commit"},
         stage = "flush" => c.call \in {"flush", "close"},
         stage = "commit" => c.call \in {"write", "commit"},
         KS!Drain(t, c, acks, stage)
  PROVE  /\ KsBase'
         /\ KsReady(t, acks, {}) /\ KsOwned(t, c, acks)
            /\ (config.mode = "plain" => ~c.wrapped /\ stage = "flush")
            /\ (config.mode # "plain" => /\ KsMay(c, in_transaction', torn', dropped')
                                         /\ ~in_transaction' => acks = <<>> /\ txn' = <<>> /\ stage = "flush")
              => KsModes' /\ KsPlaces'
<1>1. CASE acks # <<>>
  <2>1. /\ KS!Goto(t, KsWith(c, Head(acks)), "drain")
        /\ buffer' = Tail(acks) /\ accepted' = accepted /\ settled' = settled
    BY <1>1 DEF KS!Drain, KsWith, KS!Same
  <2> QED
    BY <1>1, <2>1, KsAwaits DEF KsMay
<1>2. CASE acks = <<>>
  <2>0. KS!Goto(t, KsWith(c, 0), stage) /\ buffer' = <<>> /\ accepted' = accepted /\ settled' = settled
    BY <1>2 DEF KS!Drain, KsWith, KS!Same
  <2>9. PICK n \in KsCall : KsAs(n, c, stage, 0) /\ task' = [task EXCEPT ![t] = n]
    BY <2>0, KsGoto DEF KsReadyBase, KsStages
  <2>1. task' = [task EXCEPT ![t] = n] /\ buffer' = <<>> /\ accepted' = accepted /\ settled' = settled
    BY <2>0, <2>9
  <2>2. /\ n \in KsCall /\ n.stage = stage /\ n.oldest = 0 /\ n.call = c.call /\ n.own = c.own
        /\ n.promise = c.promise /\ n.todo = c.todo /\ n.wrapped = c.wrapped
    BY <2>9 DEF KsAs
  <2>3. KsStaged(n)
    BY <2>2 DEF KsStaged, KsShape
  <2>4. KsBase'
    BY <1>2, <2>1, <2>2, <2>3, KsGoesBase
  <2>5. ASSUME KsReady(t, acks, {}) /\ KsOwned(t, c, acks), config.mode = "plain" => ~c.wrapped /\ stage = "flush",
               config.mode # "plain" => /\ KsMay(c, in_transaction', torn', dropped')
                                        /\ ~in_transaction' => acks = <<>> /\ txn' = <<>> /\ stage = "flush"
        PROVE  KsModes' /\ KsPlaces'
    <3>1. IF config.mode = "plain" THEN KsPlainCall(n)
                                    ELSE KsTxnCall(n, in_transaction', buffer', txn', torn', dropped')
      <4>1. config.mode # "plain" => KsMay(n, in_transaction', torn', dropped')
        BY <2>2, <2>5 DEF KsMay
      <4> QED
        BY <1>2, <2>1, <2>2, <2>5, <4>1 DEF KsPlainCall, KsTxnCall
    <3>2. ToSet(acks) = ToSet(buffer') \cup ({n.oldest} \ {0})
      BY <1>2, <2>1, <2>2
    <3>3. n.stage # "abort"
      BY <2>2
    <3> QED
      BY <2>1, <2>2, <2>5, <3>1, <3>2, <3>3, KsGoesPlaces
  <2> QED
    BY <2>4, <2>5
<1> QED
  BY <1>1, <1>2

\* The next record of the batch, or the end of the records.
LEMMA KsSendsNext ==
  ASSUME KsAssumptions, KsBase, KsRest, NEW t \in Tasks, t \in config.callers, NEW c, NEW acks,
         KsReadyBase(t, c, acks), KsShape(c), c.call = "write", c.oldest = 0,
         KS!SendNext(t, c, acks)
  PROVE  /\ KsBase'
         /\ KsReady(t, acks, {}) /\ KsOwned(t, c, acks)
            /\ (config.mode = "plain" => ~c.wrapped)
            /\ (config.mode # "plain" => in_transaction' /\ KsMay(c, TRUE, torn', dropped'))
              => KsModes' /\ KsPlaces'
<1>1. CASE c.todo # <<>> /\ KS!Goto(t, c, "send") /\ buffer' = acks /\ KS!Same
  <2>0. KS!Goto(t, c, "send") /\ buffer' = acks /\ accepted' = accepted /\ settled' = settled
    BY <1>1 DEF KS!Same
  <2>9. PICK n \in KsCall : KsAs(n, c, "send", c.oldest) /\ task' = [task EXCEPT ![t] = n]
    BY <2>0, KsGotoStage DEF KsReadyBase, KsStages
  <2>1. task' = [task EXCEPT ![t] = n] /\ buffer' = acks /\ accepted' = accepted /\ settled' = settled
    BY <2>0, <2>9
  <2>2. /\ n \in KsCall /\ n.stage = "send" /\ n.oldest = 0 /\ n.call = c.call /\ n.own = c.own
        /\ n.promise = c.promise /\ n.todo = c.todo /\ n.wrapped = c.wrapped
    BY <2>9 DEF KsAs
  <2>3. KsStaged(n)
    BY <1>1, <2>2 DEF KsStaged, KsShape
  <2>4. KsBase'
    BY <1>1, <2>1, <2>2, <2>3, KsGoesBase
  <2>5. ASSUME KsReady(t, acks, {}) /\ KsOwned(t, c, acks), config.mode = "plain" => ~c.wrapped,
               config.mode # "plain" => in_transaction' /\ KsMay(c, TRUE, torn', dropped')
        PROVE  KsModes' /\ KsPlaces'
    <3>1. IF config.mode = "plain" THEN KsPlainCall(n)
                                    ELSE KsTxnCall(n, in_transaction', buffer', txn', torn', dropped')
      <4>1. config.mode # "plain" => KsMay(n, in_transaction', torn', dropped')
        BY <2>2, <2>5 DEF KsMay
      <4> QED
        BY <2>2, <2>5, <4>1 DEF KsPlainCall, KsTxnCall
    <3>2. ToSet(acks) = ToSet(buffer') \cup ({n.oldest} \ {0})
      BY <2>1, <2>2
    <3>3. n.stage # "abort" /\ n.stage # "flush"
      BY <2>2
    <3> QED
      BY <2>1, <2>2, <2>5, <3>1, <3>2, <3>3, KsGoesPlaces
  <2> QED
    BY <2>4, <2>5
<1>2. CASE c.todo = <<>> /\ c.wrapped /\ KS!Drain(t, c, acks, "commit")
  <2>1. ASSUME config.mode = "plain" => ~c.wrapped PROVE config.mode # "plain"
    BY <1>2, <2>1
  <2> QED
    BY <1>2, <2>1, KsDrains DEF KsMay
<1>3. CASE c.todo = <<>> /\ ~c.wrapped /\ KS!Returns(t, c) /\ buffer' = acks
  <2>1. KsBase'
    BY <1>3, KsReturnsBase
  <2>2. ASSUME KsReady(t, acks, {}) /\ KsOwned(t, c, acks),
               config.mode # "plain" => in_transaction' /\ KsMay(c, TRUE, torn', dropped')
        PROVE  KsModes' /\ KsPlaces'
    <3>1. /\ config.mode \in {"plain", "per_batch", "manual"} /\ config' = config
          /\ torn => torn' /\ dropped \subseteq dropped'
      BY DEF KsRest, KsBase, KsTypes, KsAssumptions
    <3>2. config.mode # "plain" => c.own \subseteq ToSet(store') \cup dropped'
      BY <1>3, <2>2, <3>1 DEF KsMay
    <3>3. config.mode # "plain" => KsTxnCall(KS!Idle, in_transaction', buffer', txn', torn', dropped')
      BY <1>3, <2>2, <3>1, KsIdle DEF KsMay, KsTxnCall
    <3>4. c.promise \cap accepted \subseteq ToSet(store') \cup dropped'
      BY DEF KsShape
    <3> QED
      BY <1>3, <2>2, <3>2, <3>3, <3>4, KsReturnsPlaces
  <2> QED
    BY <2>1, <2>2
<1> QED
  BY <1>1, <1>2, <1>3 DEF KS!SendNext

\* An error: the call aborts its transaction, or raises.
LEMMA KsFailing ==
  ASSUME KsAssumptions, KsBase, KsRest, NEW t \in Tasks, t \in config.callers, NEW c, NEW acks,
         NEW failed, KsReadyBase(t, c, acks), KsShape(c), c.wrapped \in BOOLEAN,
         KS!Fails(t, c, acks, failed)
  PROVE  /\ KsBase'
         /\ KsReady(t, acks, failed)
            /\ (config.mode = "plain" => ~c.wrapped)
            /\ (config.mode # "plain" => in_transaction' /\ KsMay(c, TRUE, torn', dropped')
                                         /\ accepted \subseteq ToSet(store') \cup dropped')
              => KsModes' /\ KsPlaces'
<1>1. CASE c.wrapped
  <2>0. KS!Goto(t, KsWith(c, 0), "abort") /\ buffer' = <<>> /\ accepted' = accepted /\ settled' = settled
    BY <1>1 DEF KS!Fails, KsWith, KS!Same
  <2>9. PICK n \in KsCall : KsAs(n, c, "abort", 0) /\ task' = [task EXCEPT ![t] = n]
    BY <2>0, KsGoto DEF KsReadyBase, KsStages
  <2>1. task' = [task EXCEPT ![t] = n] /\ buffer' = <<>> /\ accepted' = accepted /\ settled' = settled
    BY <2>0, <2>9
  <2>2. /\ n \in KsCall /\ n.stage = "abort" /\ n.oldest = 0 /\ n.call = c.call /\ n.own = c.own
        /\ n.promise = c.promise /\ n.todo = c.todo /\ n.wrapped = c.wrapped
    BY <2>9 DEF KsAs
  <2>3. KsStaged(n)
    BY <1>1, <2>2 DEF KsStaged, KsShape
  <2>4. KsBase'
    <3>1. ToSet(buffer') \subseteq ToSet(acks)
      BY <2>1 DEF ToSet
    <3> QED
      BY <2>1, <2>2, <2>3, <3>1, KsGoesBase
  <2>5. ASSUME KsReady(t, acks, failed), config.mode = "plain" => ~c.wrapped,
               config.mode # "plain" => in_transaction' /\ KsMay(c, TRUE, torn', dropped')
                                        /\ accepted \subseteq ToSet(store') \cup dropped'
        PROVE  KsModes' /\ KsPlaces'
    <3>1. config.mode # "plain" /\ in_transaction' /\ accepted \subseteq ToSet(store') \cup dropped'
      BY <1>1, <2>5
    <3>2. KsTxnCall(n, in_transaction', buffer', txn', torn', dropped')
      <4>1. KsMay(n, in_transaction', torn', dropped')
        BY <2>2, <2>5, <3>1 DEF KsMay
      <4> QED
        BY <2>1, <2>2, <3>1, <4>1 DEF KsTxnCall
    <3>3. settled \subseteq ToSet(store') \cup dropped' /\ \A u \in config.callers \cap Tasks : u = t
      BY <2>5, <3>1 DEF KsReady
    <3> QED
      BY <2>1, <2>2, <3>1, <3>2, <3>3, KsAbortsPlaces
  <2> QED
    BY <2>4, <2>5
<1>2. CASE ~c.wrapped
  <2>1. KS!Raises(t, c, failed) /\ buffer' = acks
    BY <1>2 DEF KS!Fails
  <2>2. KsBase'
    BY <2>1, KsRaisesBase
  <2>3. ASSUME KsReady(t, acks, failed),
               config.mode # "plain" => in_transaction' /\ KsMay(c, TRUE, torn', dropped')
        PROVE  KsModes' /\ KsPlaces'
    <3>1. config.mode \in {"plain", "per_batch", "manual"} /\ config' = config /\ (torn => torn')
      BY DEF KsRest, KsBase, KsTypes, KsAssumptions
    <3>2. config.mode # "plain" => KsTxnCall(KS!Idle, in_transaction', buffer', txn', torn', dropped')
      BY <1>2, <2>3, <3>1, KsIdle DEF KsMay, KsTxnCall
    <3> QED
      BY <2>1, <2>3, <3>2, KsRaisesPlaces
  <2> QED
    BY <2>2, <2>3
<1> QED
  BY <1>1, <1>2

-----------------------------------------------------------------------------
(* The steps.                                                                *)

\* What a call may do it may do still.
LEMMA KsMayStill ==
  ASSUME KsRest, NEW c, NEW open, NEW acks, NEW tx
  PROVE  /\ KsMay(c, open, torn, dropped) => KsMay(c, open, torn', dropped')
         /\ KsTxnCall(c, open, acks, tx, torn, dropped) => KsTxnCall(c, open, acks, tx, torn', dropped')
  BY DEF KsRest, KsMay, KsTxnCall

\* Most steps drop nothing.
LEMMA KsNoneDropped == ASSUME KsInv, KsRest, dropped' = dropped PROVE KsDropped'
  BY DEF KsInv, KsRest, KsDropped

\* With transactions there is one caller, and nobody else does anything.
LEMMA KsAlone ==
  ASSUME KsAssumptions, KsBase, NEW t \in Tasks, t \in config.callers
  PROVE  /\ config.mode \in {"plain", "per_batch", "manual"}
         /\ config.mode # "plain" => \A u \in config.callers \cap Tasks : u = t
         /\ config.mode # "plain" => \A u \in Tasks \ {t} : task[u].stage = "idle" /\ task[u].oldest = 0
                                                            /\ task[u].own = {}
<1>1. /\ config.mode \in {"plain", "per_batch", "manual"}
      /\ config.mode # "plain" => \A u \in config.callers \cap Tasks : u = t
  BY DEF KsAssumptions, KsBase, KsTypes
<1>2. \A u \in Tasks \ {t} : config.mode # "plain" => task[u].call = "idle" /\ KsStaged(task[u])
  BY <1>1 DEF KsBase, KsCalls
<1> QED
  BY <1>1, <1>2 DEF KsStaged

\* open(), close() of the producer, and calls that raise before they do anything.
LEMMA KsQuiet ==
  ASSUME KsInv, config' = config, task' = task, buffer' = buffer, store' = store, txn' = txn,
         accepted' = accepted, settled' = settled, in_transaction' = in_transaction,
         delivery' = delivery, torn' = torn, overlapped' = overlapped,
         dropped \subseteq dropped', dropped' # dropped => torn,
         given' \in Nat, given <= given', given' <= End
  PROVE  KsInv'
<1>1. KsTypes'
  BY DEF KsInv, KsBase, KsTypes
<1>2. KsCalls'
  BY DEF KsInv, KsBase, KsCalls
<1>3. KsUnsent'
  <2>1. given \in Nat
    BY DEF KsInv, KsBase, KsTypes
  <2>2. 1..given \subseteq 1..given'
    BY <2>1
  <2>3. \A t \in Tasks : KsUnsentCall(task[t], delivery, given) => KsUnsentCall(task[t], delivery, given')
    BY <2>2 DEF KsUnsentCall
  <2>4. \A r \in Records : r > given' => r > given
    BY <2>1 DEF Records
  <2> QED
    BY <2>3, <2>4 DEF KsInv, KsBase, KsUnsent
<1>4. KsModes'
  BY DEF KsInv, KsModes, KsTxnCall, KsMay
<1>5. KsPlaces'
  BY DEF KsInv, KsPlaces, KsAwaited
<1>6. KsDropped'
  BY DEF KsInv, KsDropped
<1> QED
  BY <1>1, <1>2, <1>3, <1>4, <1>5, <1>6 DEF KsInv, KsBase

\* The broker answers for a record, or the producer sends it again.
LEMMA KsAnswered ==
  ASSUME KsAssumptions, KsInv, NEW r \in Records, NEW d \in {"sent", "ok", "failed"},
         delivery[r] # "none", delivery' = [delivery EXCEPT ![r] = d],
         UNCHANGED <<config, task, buffer, given, accepted, settled, in_transaction,
                     torn, overlapped, dropped>>,
         \/ UNCHANGED <<store, txn>> /\ d # "ok"
         \/ ~in_transaction /\ store' = Append(store, r) /\ txn' = txn
         \/ in_transaction /\ txn' = Append(txn, r) /\ store' = store,
         d = "sent" => r \in KsAwaited
  PROVE  KsInv'
<1>1. store \in Seq(Nat) /\ txn \in Seq(Nat) /\ r \in Nat /\ ToSet(store) \subseteq Records
  BY DEF KsInv, KsBase, KsTypes, Records
<1>2. /\ store' \in Seq(Nat) /\ txn' \in Seq(Nat)
      /\ ToSet(store') \subseteq Records /\ ToSet(store) \subseteq ToSet(store')
      /\ ToSet(txn) \subseteq ToSet(txn') /\ ToSet(txn') \subseteq ToSet(txn) \cup {r}
      /\ d = "ok" => r \in ToSet(store') \cup ToSet(txn')
      /\ ~in_transaction => txn' = txn
  <2>1. /\ Append(store, r) \in Seq(Nat) /\ ToSet(Append(store, r)) = ToSet(store) \cup {r}
        /\ Append(txn, r) \in Seq(Nat) /\ ToSet(Append(txn, r)) = ToSet(txn) \cup {r}
    BY <1>1, S3AppendRows
  <2> QED
    BY <1>1, <2>1
<1>3. delivery' \in [Records -> {"none", "sent", "ok", "failed"}]
  BY DEF KsInv, KsBase, KsTypes
<1>4. \A s \in Records : delivery'[s] = IF s = r THEN d ELSE delivery[s]
  BY DEF KsInv, KsBase, KsTypes
<1>5. KsTypes'
  BY <1>2, <1>3 DEF KsInv, KsBase, KsTypes
<1>6. KsCalls'
  BY DEF KsInv, KsBase, KsCalls
<1>7. KsUnsent'
  <2>1. r <= given
    <3>1. given \in Nat /\ r \in Nat /\ ~(r > given)
      BY <1>1 DEF KsInv, KsBase, KsTypes, KsUnsent
    <3> QED
      BY <3>1
  <2>2. ASSUME NEW t \in Tasks PROVE KsUnsentCall(task[t], delivery', given)
    <3>1. KsUnsentCall(task[t], delivery, given) /\ given \in Nat /\ given <= End
      BY DEF KsInv, KsBase, KsTypes, KsUnsent
    <3>2. ToSet(task[t].todo) \cup task[t].own \cup task[t].promise \subseteq Records
      <4>1. 1..given \subseteq Records
        BY <3>1 DEF Records, KsAssumptions
      <4> QED
        BY <3>1, <4>1 DEF KsUnsentCall
    <3> QED
      BY <1>4, <3>1, <3>2 DEF KsUnsentCall
  <2>3. \A s \in accepted \cup ToSet(buffer) \cup ToSet(txn') : s \in Records /\ delivery'[s] # "none"
    BY <1>2, <1>4 DEF KsInv, KsBase, KsUnsent
  <2>4. \A s \in Records : s > given => delivery'[s] = "none"
    BY <1>1, <1>4, <2>1 DEF KsInv, KsBase, KsTypes, KsUnsent, Records
  <2> QED
    BY <2>2, <2>3, <2>4 DEF KsInv, KsBase, KsUnsent
<1>8. KsModes'
  BY <1>2 DEF KsInv, KsModes, KsTxnCall, KsMay
<1>9. KsPlaces'
  <2>1. KsAwaited' = KsAwaited
    BY DEF KsAwaited
  <2>2. \A s \in KsAwaited : s \in Records
    BY DEF KsAwaited, KsInv, KsBase, KsUnsent, KsUnsentCall
  <2>3. \A s \in KsAwaited : delivery'[s] = "ok" => s \in ToSet(store') \cup ToSet(txn')
    BY <1>2, <1>4, <2>2 DEF KsInv, KsPlaces
  <2>4. \A s \in Records : delivery'[s] = "sent" =>
           s \in KsAwaited \cup dropped \/ \E t \in Tasks : task[t].stage = "abort"
    BY <1>4 DEF KsInv, KsPlaces
  <2> QED
    BY <1>2, <2>1, <2>3, <2>4 DEF KsInv, KsPlaces
<1>10. KsDropped'
  BY DEF KsInv, KsDropped
<1> QED
  BY <1>5, <1>6, <1>7, <1>8, <1>9, <1>10 DEF KsInv, KsBase

\* What t awaits besides the buffer is nothing, unless it awaits its oldest confirmation.
LEMMA KsWaits ==
  ASSUME NEW t \in Tasks
  PROVE  KsAwaited = KsWaiting(t, buffer) \cup ({task[t].oldest} \ {0})
<1>1. {task[u].oldest : u \in Tasks} = {task[t].oldest} \cup {task[u].oldest : u \in Tasks \ {t}}
  OBVIOUS
<1> QED
  BY <1>1 DEF KsAwaited, KsWaiting, KsOthers

\* The broker and the producer have not moved: a call begins, or goes on from an answer.
LEMMA KsStandsBase ==
  ASSUME KsAssumptions, KsInv, KsRest, NEW t \in Tasks, NEW c \in KsCall,
         delivery' = delivery, ToSet(txn') \subseteq ToSet(txn), given <= given',
         KsUnsentCall(c, delivery, given'),
         \A u \in Tasks \ {t} : KsApart(c, task[u]) /\ KsApart(task[u], c)
  PROVE  KsReadyBase(t, c, buffer)
<1>1. given \in Nat /\ given' \in Nat
  BY DEF KsInv, KsBase, KsTypes, KsRest
<1>2. 1..given \subseteq 1..given' /\ \A r \in Records : r > given' => r > given
  BY <1>1 DEF Records
<1>3. \A u \in Tasks : KsUnsentCall(task[u], delivery, given')
  BY <1>2 DEF KsInv, KsBase, KsUnsent, KsUnsentCall
<1>4. \A r \in Records : r > given' => delivery[r] = "none"
  BY <1>2 DEF KsInv, KsBase, KsUnsent
<1>5. \A r \in accepted \cup ToSet(buffer) \cup ToSet(txn') : r \in Records /\ delivery[r] # "none"
  BY DEF KsInv, KsBase, KsUnsent
<1> QED
  BY <1>3, <1>4, <1>5 DEF KsReadyBase, KsInv, KsBase, KsTypes

LEMMA KsStands ==
  ASSUME KsAssumptions, KsInv, KsRest, NEW t \in Tasks, t \in config.callers,
         task[t].oldest = 0, task[t].stage # "abort",
         delivery' = delivery, txn' = txn, store' = store,
         config.mode = "plain" => in_transaction' = in_transaction
  PROVE  KsReady(t, buffer, {}) /\ KsWaiting(t, buffer) = KsAwaited
<1>1. KsModes /\ KsPlaces
  BY DEF KsInv
<1>2. KsWaiting(t, buffer) = KsAwaited
  BY KsWaits
<1>3. \A u \in Tasks : task[u].stage # "abort"
  BY <1>1, KsAlone DEF KsInv, KsModes, KsPlainCall
<1>4. config.mode # "plain" => \A u \in config.callers \cap Tasks : u = t
  BY KsAlone DEF KsInv
<1>5. /\ \A r \in Records : delivery'[r] = "sent" => r \in KsAwaited \cup dropped'
      /\ \A r \in KsAwaited : delivery'[r] = "ok" => r \in ToSet(store') \cup ToSet(txn')
      /\ accepted \subseteq ToSet(store') \cup dropped' \cup IF config.mode = "plain" THEN KsAwaited ELSE {}
      /\ \A u \in Tasks : task[u].own \ ToSet(task[u].todo)
                            \subseteq ToSet(store') \cup ToSet(txn') \cup KsAwaited \cup dropped'
      /\ \A u \in Tasks : task[u].stage = "flush" => task[u].promise \cap ToSet(buffer) = {}
      /\ settled \subseteq ToSet(store') \cup dropped'
  BY <1>1, <1>3 DEF KsPlaces, KsRest
<1>6. config.mode = "plain" => ~in_transaction' /\ txn' = <<>> /\ \A u \in Tasks \ {t} : KsPlainCall(task[u])
  BY <1>1 DEF KsModes
<1> QED
  BY <1>2, <1>3, <1>4, <1>5, <1>6 DEF KsReady

\* A call in progress.
LEMMA KsTask ==
  ASSUME KsBase, NEW t \in Tasks
  PROVE  /\ task[t] \in KsCall /\ KsStaged(task[t]) /\ KsUnsentCall(task[t], delivery, given)
         /\ task[t].call # "idle" => t \in config.callers /\ KsShape(task[t])
         /\ task[t].stage # "idle" => task[t].call # "idle"
         /\ \A u \in Tasks \ {t} : KsApart(task[t], task[u]) /\ KsApart(task[u], task[t])
         /\ given \in Nat /\ given <= End /\ task[t].wrapped \in BOOLEAN
<1>1. task[t] \in KsCall /\ KsStaged(task[t]) /\ KsUnsentCall(task[t], delivery, given)
      /\ (t \notin config.callers => task[t].call = "idle")
      /\ \A u \in Tasks \ {t} : KsApart(task[t], task[u]) /\ KsApart(task[u], task[t])
  BY DEF KsBase, KsTypes, KsCalls, KsUnsent
<1>2. task[t].wrapped \in BOOLEAN
  BY <1>1 DEF KsCall
<1>3. given \in Nat /\ given <= End
  BY DEF KsBase, KsTypes
<1> QED
  BY <1>1, <1>2, <1>3 DEF KsStaged, KsShape

LEMMA KsStandsCall ==
  ASSUME KsAssumptions, KsInv, KsRest, NEW t \in Tasks,
         delivery' = delivery, ToSet(txn') \subseteq ToSet(txn), given' = given
  PROVE  KsReadyBase(t, task[t], buffer)
<1>1. /\ task[t] \in KsCall /\ KsUnsentCall(task[t], delivery, given')
      /\ \A u \in Tasks \ {t} : KsApart(task[t], task[u]) /\ KsApart(task[u], task[t])
  BY KsTask DEF KsInv
<1>2. given <= given'
  BY DEF KsInv, KsBase, KsTypes
<1> QED
  BY <1>1, <1>2, KsStandsBase

\* A call that ends leaves the caller where it may be.
LEMMA KsIdleMay ==
  ASSUME NEW c, NEW open, NEW acks, NEW tx, NEW broken, NEW lost,
         KsTxnCall(c, open, acks, tx, broken, lost),
         config.mode = "per_batch" => ~open \/ broken
  PROVE  KsTxnCall(KS!Idle, open, acks, tx, broken, lost)
  BY KsIdle DEF KsTxnCall, KsMay

-----------------------------------------------------------------------------
\* The confirmations that are left are records.
LEMMA KsLeft ==
  ASSUME NEW t, NEW c, NEW acks \in Seq(Nat)
  PROVE  /\ \A failed : KS!Fails(t, c, acks, failed) => buffer' \in Seq(Nat)
         /\ \A stage : KS!Drain(t, c, acks, stage) => buffer' \in Seq(Nat)
         /\ KS!SendNext(t, c, acks) => buffer' \in Seq(Nat)
<1>1. <<>> \in Seq(Nat) /\ (acks # <<>> => Tail(acks) \in Seq(Nat))
  OBVIOUS
<1>2. \A failed : KS!Fails(t, c, acks, failed) => buffer' \in Seq(Nat)
  BY <1>1 DEF KS!Fails
<1>3. \A stage : KS!Drain(t, c, acks, stage) => buffer' \in Seq(Nat)
  BY <1>1 DEF KS!Drain
<1> QED
  BY <1>1, <1>2, <1>3 DEF KS!SendNext

\* With a transaction open, its caller may go on.
LEMMA KsOpenMay ==
  ASSUME KsInv, KsRest, NEW t \in Tasks, t \in config.callers,
         task[t].stage \in {"send", "ack", "drain"}, in_transaction' = in_transaction
  PROVE  /\ config.mode = "plain" => ~task[t].wrapped
         /\ config.mode # "plain" => in_transaction' /\ KsMay(task[t], TRUE, torn', dropped')
                                     /\ accepted \subseteq ToSet(store') \cup dropped'
<1>1. config.mode # "plain" => KsTxnCall(task[t], in_transaction, buffer, txn, torn, dropped)
  BY DEF KsInv, KsModes
<1>2. config.mode # "plain" => in_transaction /\ KsMay(task[t], TRUE, torn, dropped)
  BY <1>1 DEF KsTxnCall, KsMay
<1>3. config.mode # "plain" => KsMay(task[t], TRUE, torn', dropped')
  BY <1>2, KsMayStill
<1>4. config.mode # "plain" => accepted \subseteq ToSet(store') \cup dropped'
  BY DEF KsInv, KsPlaces, KsRest
<1>5. config.mode = "plain" => ~task[t].wrapped
  BY DEF KsInv, KsModes, KsPlainCall
<1> QED
  BY <1>2, <1>3, <1>4, <1>5

\* A call that has no transaction open, or leaves it torn, may be followed by any other.
LEMMA KsLeaves ==
  ASSUME KsInv, KsRest, NEW t \in Tasks, t \in config.callers, config.mode # "plain",
         in_transaction' = in_transaction, buffer' = buffer, txn' = txn \/ txn' = <<>>,
         task[t].wrapped => torn' \/ ~in_transaction
  PROVE  KsTxnCall(KS!Idle, in_transaction', buffer', txn', torn', dropped')
<1>1. KsTxnCall(task[t], in_transaction, buffer, txn, torn, dropped)
  BY DEF KsInv, KsModes
<1>2. KsTxnCall(task[t], in_transaction', buffer', txn', torn', dropped')
  <2>1. KsMay(task[t], in_transaction', torn', dropped')
    BY <1>1, KsMayStill DEF KsTxnCall
  <2> QED
    BY <1>1, <2>1 DEF KsTxnCall
<1>3. config.mode = "per_batch" => ~in_transaction' \/ torn'
  BY <1>2 DEF KsTxnCall, KsMay
<1> QED
  BY <1>2, <1>3, KsIdleMay

LEMMA KsSendFailsInv == ASSUME KsAssumptions, KsInv, NEW t \in Tasks, KS!SendFails(t) PROVE KsInv'
<1>1. KsRest
  <2>1. buffer' \in Seq(Nat)
    BY KsLeft DEF KS!SendFails, KsInv, KsBase, KsTypes
  <2> QED
    BY <2>1 DEF KS!SendFails, KsRest, KsInv, KsBase, KsTypes
<1>2. /\ task[t].stage = "send" /\ KS!Fails(t, task[t], buffer, {}) /\ delivery' = delivery /\ txn' = txn
      /\ store' = store /\ given' = given /\ in_transaction' = in_transaction /\ dropped' = dropped
  BY DEF KS!SendFails
<1>3. /\ KsStaged(task[t]) /\ t \in config.callers /\ KsShape(task[t]) /\ task[t].wrapped \in BOOLEAN
      /\ task[t].oldest = 0
  BY <1>2, KsTask DEF KsInv, KsStaged
<1>4. KsReadyBase(t, task[t], buffer)
  BY <1>1, <1>2, KsStandsCall
<1>5. KsReady(t, buffer, {})
  BY <1>1, <1>2, <1>3, KsStands
<1>6. /\ config.mode = "plain" => ~task[t].wrapped
      /\ config.mode # "plain" => in_transaction' /\ KsMay(task[t], TRUE, torn', dropped')
                                  /\ accepted \subseteq ToSet(store') \cup dropped'
  BY <1>1, <1>2, <1>3, KsOpenMay
<1>7. KsBase' /\ KsModes' /\ KsPlaces'
  BY <1>1, <1>2, <1>3, <1>4, <1>5, <1>6, KsFailing DEF KsInv
<1> QED
  BY <1>1, <1>2, <1>7, KsNoneDropped DEF KsInv

LEMMA KsFlushReturnsInv == ASSUME KsAssumptions, KsInv, NEW t \in Tasks, KS!FlushReturns(t) PROVE KsInv'
<1>1. /\ task[t].stage = "flush" /\ KS!Returns(t, task[t]) /\ delivery' = delivery /\ txn' = txn
      /\ store' = store /\ given' = given /\ in_transaction' = in_transaction /\ buffer' = buffer
      /\ \A r \in Records : delivery[r] # "sent"
      /\ config' = config /\ torn' = torn /\ dropped' = dropped \cup KsOthers(t)
      /\ overlapped' = (overlapped \/ KsOthers(t) # {})
  BY KsSame DEF KS!FlushReturns, KsOthers
<1>2. KsRest
  <2>1. overlapped => overlapped'
    BY <1>1
  <2> QED
    BY <1>1, <2>1 DEF KsRest, KsInv, KsBase, KsTypes
<1>3. /\ KsStaged(task[t]) /\ t \in config.callers /\ KsShape(task[t]) /\ ~task[t].wrapped
      /\ task[t].oldest = 0 /\ task[t].todo = <<>> /\ task[t].call \in {"flush", "close"} /\ task[t].own = {}
  BY <1>1, KsTask DEF KsInv, KsStaged
<1>4. KsReadyBase(t, task[t], buffer)
  BY <1>1, <1>2, KsStandsCall
<1>5. KsBase'
  BY <1>1, <1>2, <1>3, <1>4, KsReturnsBase DEF KsInv
<1>6. KsModes' /\ KsPlaces'
  <2>1. KsReady(t, buffer, {}) /\ KsWaiting(t, buffer) = KsAwaited
    BY <1>1, <1>2, <1>3, KsStands
  <2>2. KsOwned(t, task[t], buffer)
    BY <1>3 DEF KsOwned
  <2>3. task[t].promise \cap accepted \subseteq ToSet(store') \cup dropped'
    <3>1. KsAwaited = ToSet(buffer) \cup KsOthers(t)
      BY <2>1 DEF KsWaiting
    <3>2. task[t].promise \cap ToSet(buffer) = {}
      BY <1>1 DEF KsInv, KsPlaces
    <3>3. accepted \subseteq ToSet(store) \cup dropped \cup KsAwaited
      BY DEF KsInv, KsPlaces
    <3> QED
      BY <1>1, <3>1, <3>2, <3>3
  <2>4. config.mode # "plain" => KsTxnCall(KS!Idle, in_transaction', buffer', txn', torn', dropped')
    BY <1>1, <1>2, <1>3, KsLeaves
  <2>5. config.mode # "plain" => task[t].own \subseteq ToSet(store') \cup dropped'
    BY <1>3
  <2> QED
    BY <1>1, <1>2, <1>3, <2>1, <2>2, <2>3, <2>4, <2>5, KsReturnsPlaces DEF KsInv
<1>7. KsDropped'
  BY <1>1, <1>2 DEF KsInv, KsDropped, KsRest
<1> QED
  BY <1>5, <1>6, <1>7 DEF KsInv

LEMMA KsBeginReturnsInv == ASSUME KsAssumptions, KsInv, NEW t \in Tasks, KS!BeginReturns(t) PROVE KsInv'
<1>1. KsRest
  <2>1. buffer' \in Seq(Nat)
    BY KsLeft DEF KS!BeginReturns, KsInv, KsBase, KsTypes
  <2> QED
    BY <2>1 DEF KS!BeginReturns, KsRest, KsInv, KsBase, KsTypes
<1>2. /\ task[t].stage = "begin" /\ delivery' = delivery /\ txn' = txn
      /\ store' = store /\ given' = given /\ in_transaction' = TRUE /\ dropped' = dropped
      /\ \/ task[t].call = "begin" /\ KS!Returns(t, task[t]) /\ buffer' = buffer
         \/ /\ task[t].call # "begin" /\ KS!Goto(t, task[t], "send") /\ KS!Same /\ buffer' = buffer
         \/ task[t].call # "begin" /\ KS!Fails(t, task[t], buffer, {})
  BY DEF KS!BeginReturns
<1>3. /\ task[t] \in KsCall /\ KsStaged(task[t]) /\ t \in config.callers /\ KsShape(task[t])
      /\ task[t].wrapped \in BOOLEAN /\ task[t].oldest = 0 /\ task[t].call \in {"begin", "write"}
      /\ task[t].promise = {} /\ (task[t].call = "begin" => task[t].own = {})
      /\ (task[t].call = "write" => task[t].todo # <<>> /\ task[t].wrapped)
  BY <1>2, KsTask DEF KsInv, KsStaged
<1>4. KsReadyBase(t, task[t], buffer)
  BY <1>1, <1>2, KsStandsCall
<1>5. /\ KsReady(t, buffer, {}) /\ KsOwned(t, task[t], buffer) /\ config.mode # "plain"
      /\ KsMay(task[t], TRUE, torn', dropped') /\ buffer = <<>> /\ txn = <<>>
      /\ accepted \subseteq ToSet(store') \cup dropped'
      /\ (task[t].call = "begin" => config.mode = "manual")
  <2>1. KsModes /\ KsPlaces
    BY <1>1 DEF KsInv
  <2>2. config.mode # "plain"
    BY <1>2, <2>1 DEF KsModes, KsPlainCall
  <2>3. KsTxnCall(task[t], in_transaction, buffer, txn, torn, dropped)
    BY <1>3, <2>1, <2>2 DEF KsModes
  <2>4. ~in_transaction /\ KsMay(task[t], FALSE, torn', dropped') /\ buffer = <<>> /\ txn = <<>>
    BY <1>1, <1>2, <2>3, KsMayStill DEF KsTxnCall, KsMay
  <2>5. KsReady(t, buffer, {}) /\ KsWaiting(t, buffer) = KsAwaited
    BY <1>1, <1>2, <1>3, <2>2, KsStands
  <2>6. KsOwned(t, task[t], buffer)
    BY <1>2, <2>1, <2>5 DEF KsOwned, KsPlaces
  <2>7. KsMay(task[t], TRUE, torn', dropped') /\ (task[t].call = "begin" => config.mode = "manual")
    BY <1>3, <2>2, <2>4, KsAlone DEF KsMay, KsInv
  <2> QED
    BY <1>2, <2>1, <2>2, <2>4, <2>5, <2>6, <2>7 DEF KsPlaces
<1>5a. KsDropped'
  BY <1>1, <1>2, KsNoneDropped
<1>6. CASE task[t].call = "begin" /\ KS!Returns(t, task[t]) /\ buffer' = buffer
  <2>0. task[t].todo = <<>> /\ task[t].own = {} /\ task[t].promise = {}
    BY <1>3, <1>6 DEF KsShape
  <2>1. KsBase'
    BY <1>1, <1>4, <1>6, <2>0, KsReturnsBase DEF KsInv
  <2>2. KsModes' /\ KsPlaces'
    <3>1. KsTxnCall(KS!Idle, in_transaction', buffer', txn', torn', dropped')
      BY <1>2, <1>5, <1>6, KsIdle DEF KsTxnCall, KsMay
    <3>2. /\ KsReady(t, buffer, {}) /\ KsOwned(t, task[t], buffer)
          /\ task[t].own \subseteq ToSet(store') \cup dropped'
          /\ task[t].promise \cap accepted \subseteq ToSet(store') \cup dropped'
      BY <1>5, <2>0
    <3> QED
      BY <1>1, <1>6, <2>0, <3>1, <3>2, KsReturnsPlaces DEF KsInv
  <2> QED
    BY <1>5a, <2>1, <2>2 DEF KsInv
<1>7. CASE task[t].call # "begin" /\ KS!Goto(t, task[t], "send") /\ KS!Same /\ buffer' = buffer
  <2>1. PICK n \in KsCall : KsAs(n, task[t], "send", task[t].oldest) /\ task' = [task EXCEPT ![t] = n]
    BY <1>3, <1>7, KsGotoStage DEF KsStages
  <2>2. /\ n.stage = "send" /\ n.oldest = 0 /\ n.call = "write" /\ n.own = task[t].own
        /\ n.promise = task[t].promise /\ n.todo = task[t].todo /\ n.wrapped = task[t].wrapped
        /\ accepted' = accepted /\ settled' = settled
    BY <1>3, <1>7, <2>1 DEF KsAs, KS!Same
  <2>3. KsStaged(n)
    BY <1>3, <1>7, <2>2 DEF KsStaged
  <2>4. KsBase'
    <3>1. ToSet(buffer') \subseteq ToSet(buffer) /\ n.oldest \in ToSet(buffer) \cup {0}
      BY <1>7, <2>2
    <3> QED
      BY <1>1, <1>3, <1>4, <2>1, <2>2, <2>3, <3>1, KsGoesBase DEF KsInv
  <2>5. KsModes' /\ KsPlaces'
    <3>1. KsTxnCall(n, in_transaction', buffer', txn', torn', dropped')
      <4>1. KsMay(n, in_transaction', torn', dropped')
        BY <1>2, <1>3, <1>5, <2>2 DEF KsMay
      <4> QED
        BY <1>2, <2>2, <4>1 DEF KsTxnCall
    <3>2. ToSet(buffer) = ToSet(buffer') \cup ({n.oldest} \ {0})
      BY <1>7, <2>2
    <3>3. /\ n.stage # "abort" /\ (n.stage = "flush" => buffer' = <<>>)
          /\ KsReady(t, buffer, {}) /\ KsOwned(t, task[t], buffer) /\ config.mode # "plain"
      BY <1>5, <2>2
    <3> QED
      BY <1>1, <1>3, <2>1, <2>2, <3>1, <3>2, <3>3, KsGoesPlaces DEF KsInv
  <2> QED
    BY <1>5a, <2>4, <2>5 DEF KsInv
<1>8. CASE task[t].call # "begin" /\ KS!Fails(t, task[t], buffer, {})
  <2>1. KsBase'
    BY <1>1, <1>3, <1>4, <1>8, KsFailing DEF KsInv
  <2>2. KsModes' /\ KsPlaces'
    BY <1>1, <1>2, <1>3, <1>4, <1>5, <1>8, KsFailing DEF KsInv
  <2> QED
    BY <1>5a, <2>1, <2>2 DEF KsInv
<1> QED
  BY <1>2, <1>6, <1>7, <1>8

\* The transaction becomes visible, or is dropped.
LEMMA KsCommitted ==
  ASSUME KsInv
  PROVE  /\ store \o txn \in Seq(Nat) /\ ToSet(store \o txn) = ToSet(store) \cup ToSet(txn)
         /\ ToSet(store \o txn) \subseteq Records
<1>1. store \in Seq(Nat) /\ txn \in Seq(Nat) /\ ToSet(store) \subseteq Records /\ ToSet(txn) \subseteq Records
  BY DEF KsInv, KsBase, KsTypes, KsUnsent
<1>2. store \o txn \in Seq(Nat) /\ ToSet(store \o txn) = ToSet(store) \cup ToSet(txn)
  BY <1>1, AppendRows
<1> QED
  BY <1>1, <1>2

LEMMA KsEmpty == <<>> \in Seq(Nat) /\ ToSet(<<>>) = {}
  BY DEF ToSet

\* A call that has the whole transaction and no confirmation outstanding is alone.
LEMMA KsEnds ==
  ASSUME KsAssumptions, KsInv, NEW t \in Tasks, task[t].stage \in {"commit", "abort"}
  PROVE  /\ config.mode # "plain" /\ t \in config.callers /\ buffer = <<>>
         /\ KsWaiting(t, buffer) = {} /\ KsAwaited = {}
         /\ accepted \subseteq ToSet(store) \cup dropped /\ settled \subseteq ToSet(store) \cup dropped
         /\ task[t].stage = "commit" => \A r \in Records : delivery[r] = "sent" => r \in dropped
         /\ \A u \in config.callers \cap Tasks : u = t
         /\ \A u \in Tasks \ {t} : task[u].stage = "idle" /\ task[u].oldest = 0 /\ task[u].own = {}
         /\ KsTxnCall(task[t], in_transaction, buffer, txn, torn, dropped)
<1>1. KsModes /\ KsPlaces
  BY DEF KsInv
<1>2. t \in config.callers /\ task[t].oldest = 0
  BY KsTask DEF KsInv, KsStaged
<1>3. config.mode # "plain"
  BY <1>1 DEF KsModes, KsPlainCall
<1>4. KsTxnCall(task[t], in_transaction, buffer, txn, torn, dropped)
  BY <1>1, <1>2, <1>3 DEF KsModes
<1>5. buffer = <<>>
  BY <1>4 DEF KsTxnCall
<1>6. /\ \A u \in config.callers \cap Tasks : u = t
      /\ \A u \in Tasks \ {t} : task[u].stage = "idle" /\ task[u].oldest = 0 /\ task[u].own = {}
  BY <1>2, <1>3, KsAlone DEF KsInv
<1>7. KsWaiting(t, buffer) = {} /\ KsAwaited = {}
  BY <1>2, <1>5, <1>6, KsEmpty, KsWaits DEF KsWaiting, KsOthers
<1>8. task[t].stage = "commit" => \A u \in Tasks : task[u].stage # "abort"
  BY <1>6
<1> QED
  BY <1>1, <1>2, <1>3, <1>4, <1>5, <1>6, <1>7, <1>8 DEF KsPlaces

\* Such a call raises: the caller may go on, with the transaction open or without it.
LEMMA KsEndsRaising ==
  ASSUME KsAssumptions, KsInv, KsRest, NEW t \in Tasks, task[t].stage \in {"commit", "abort"},
         KS!Raises(t, task[t], {}), buffer' = buffer,
         \A r \in Records : delivery'[r] = "sent" => r \in dropped',
         KsTxnCall(KS!Idle, in_transaction', buffer', txn', torn', dropped')
  PROVE  KsModes' /\ KsPlaces'
<1>1. /\ config.mode # "plain" /\ t \in config.callers /\ buffer = <<>>
      /\ KsWaiting(t, buffer) = {}
      /\ accepted \subseteq ToSet(store) \cup dropped /\ settled \subseteq ToSet(store) \cup dropped
      /\ \A u \in config.callers \cap Tasks : u = t
      /\ \A u \in Tasks \ {t} : task[u].stage = "idle" /\ task[u].oldest = 0 /\ task[u].own = {}
  BY KsEnds
<1>2. KsReady(t, buffer, {})
  BY <1>1 DEF KsReady, KsRest
<1> QED
  BY <1>1, <1>2, KsRaisesPlaces DEF KsInv

LEMMA KsCallFailsInv == ASSUME KsAssumptions, KsInv, NEW t \in Tasks, KS!CallFails(t) PROVE KsInv'
<1>1. /\ task[t].stage \in {"flush", "begin", "abort"} /\ KS!Raises(t, task[t], {})
      /\ delivery' = delivery /\ txn' = txn /\ buffer' = buffer /\ config' = config
      /\ store' = store /\ given' = given /\ in_transaction' = in_transaction
      /\ overlapped' = overlapped /\ torn' = (torn \/ task[t].stage = "abort")
      /\ dropped' = dropped \cup {r \in Records : task[t].stage = "abort" /\ delivery[r] = "sent"}
  BY KsSame DEF KS!CallFails
<1>2. KsRest
  <2>1. torn => torn'
    BY <1>1
  <2> QED
    BY <1>1, <2>1 DEF KsRest, KsInv, KsBase, KsTypes
<1>3. /\ KsStaged(task[t]) /\ t \in config.callers /\ KsShape(task[t]) /\ task[t].oldest = 0
  BY <1>1, KsTask DEF KsInv, KsStaged
<1>4. KsReadyBase(t, task[t], buffer)
  BY <1>1, <1>2, KsStandsCall
<1>5. KsBase'
  BY <1>1, <1>2, <1>4, KsRaisesBase DEF KsInv
<1>6. config.mode # "plain" => KsTxnCall(KS!Idle, in_transaction', buffer', txn', torn', dropped')
  <2>1. ASSUME config.mode # "plain" PROVE task[t].wrapped => torn' \/ ~in_transaction
    <3>1. CASE task[t].stage = "abort"
      BY <1>1, <3>1
    <3>2. CASE task[t].stage = "begin"
      BY <1>3, <2>1, <3>2 DEF KsInv, KsModes, KsTxnCall
    <3>3. CASE task[t].stage = "flush"
      BY <1>3, <3>3 DEF KsStaged
    <3> QED
      BY <1>1, <3>1, <3>2, <3>3
  <2> QED
    BY <1>1, <1>2, <1>3, <2>1, KsLeaves
<1>7. KsModes' /\ KsPlaces'
  <2>1. CASE task[t].stage # "abort"
    <3>1. KsReady(t, buffer, {})
      BY <1>1, <1>2, <1>3, <2>1, KsStands
    <3> QED
      BY <1>1, <1>2, <1>6, <3>1, KsRaisesPlaces DEF KsInv
  <2>2. CASE task[t].stage = "abort"
    <3>1. config.mode # "plain"
      BY <2>2, KsEnds
    <3>2. \A r \in Records : delivery'[r] = "sent" => r \in dropped'
      BY <1>1, <2>2
    <3> QED
      BY <1>1, <1>2, <1>6, <2>2, <3>1, <3>2, KsEndsRaising
  <2> QED
    BY <2>1, <2>2
<1>8. KsDropped'
  BY <1>1, <1>2 DEF KsInv, KsDropped, KsRest
<1> QED
  BY <1>5, <1>7, <1>8 DEF KsInv

LEMMA KsCommitFailsInv == ASSUME KsAssumptions, KsInv, NEW t \in Tasks, KS!CommitFails(t) PROVE KsInv'
<1>1. KsRest
  BY KsCommitted, KsEmpty DEF KS!CommitFails, KsRest, KsInv, KsBase, KsTypes
<1>2. /\ task[t].stage = "commit" /\ KS!Raises(t, task[t], {}) /\ buffer' = buffer /\ torn'
      /\ delivery' = delivery /\ given' = given /\ ToSet(txn') \subseteq ToSet(txn)
      /\ in_transaction' = in_transaction /\ dropped' = dropped /\ (txn' = txn \/ txn' = <<>>)
  BY KsEmpty DEF KS!CommitFails
<1>3. KsReadyBase(t, task[t], buffer)
  BY <1>1, <1>2, KsStandsCall
<1>4. KsBase'
  BY <1>1, <1>2, <1>3, KsRaisesBase DEF KsInv
<1>5. /\ config.mode # "plain" /\ t \in config.callers
      /\ \A r \in Records : delivery[r] = "sent" => r \in dropped
  BY <1>2, KsEnds
<1>6. KsTxnCall(KS!Idle, in_transaction', buffer', txn', torn', dropped')
  BY <1>1, <1>2, <1>5, KsLeaves
<1>7. KsModes' /\ KsPlaces'
  BY <1>1, <1>2, <1>5, <1>6, KsEndsRaising
<1> QED
  BY <1>1, <1>2, <1>4, <1>7, KsNoneDropped DEF KsInv

LEMMA KsCommitReturnsInv == ASSUME KsAssumptions, KsInv, NEW t \in Tasks, KS!CommitReturns(t) PROVE KsInv'
<1>1. KsRest
  BY KsCommitted, KsEmpty DEF KS!CommitReturns, KsRest, KsInv, KsBase, KsTypes
<1>2. /\ task[t].stage = "commit" /\ KS!Returns(t, task[t]) /\ buffer' = buffer /\ in_transaction' = FALSE
      /\ delivery' = delivery /\ given' = given /\ txn' = <<>> /\ store' = store \o txn
      /\ (\A r \in Records : delivery[r] # "sent") /\ dropped' = dropped
  BY KsSame DEF KS!CommitReturns
<1>3. /\ KsStaged(task[t]) /\ KsShape(task[t]) /\ task[t].oldest = 0 /\ task[t].todo = <<>>
      /\ task[t].promise = {}
  BY <1>2, KsTask DEF KsInv, KsStaged
<1>4. KsReadyBase(t, task[t], buffer)
  BY <1>1, <1>2, KsEmpty, KsStandsCall
<1>5. KsBase'
  BY <1>1, <1>2, <1>3, <1>4, KsReturnsBase DEF KsInv
<1>6. KsModes' /\ KsPlaces'
  <2>1. KsModes /\ KsPlaces
    BY DEF KsInv
  <2>2. /\ config.mode # "plain" /\ t \in config.callers /\ buffer = <<>>
        /\ KsWaiting(t, buffer) = {} /\ KsAwaited = {}
        /\ accepted \subseteq ToSet(store) \cup dropped /\ settled \subseteq ToSet(store) \cup dropped
        /\ \A u \in config.callers \cap Tasks : u = t
        /\ \A u \in Tasks \ {t} : task[u].stage = "idle" /\ task[u].oldest = 0 /\ task[u].own = {}
        /\ KsTxnCall(task[t], in_transaction, buffer, txn, torn, dropped)
    BY <1>2, <2>1, KsEnds
  <2>3. ToSet(store') = ToSet(store) \cup ToSet(txn)
    BY <1>2, KsCommitted
  <2>4. task[t].own \subseteq ToSet(store') \cup dropped'
    <3>1. task[t].own \ ToSet(task[t].todo) \subseteq ToSet(store) \cup ToSet(txn) \cup KsAwaited \cup dropped
      BY <1>2, <2>1 DEF KsPlaces
    <3> QED
      BY <1>2, <1>3, <2>2, <2>3, <3>1, KsEmpty
  <2>5. KsReady(t, buffer, {})
    BY <1>2, <2>2, <2>3 DEF KsReady
  <2>6. KsOwned(t, task[t], buffer)
    BY <2>4 DEF KsOwned
  <2>7. KsTxnCall(KS!Idle, in_transaction', buffer', txn', torn', dropped')
    BY <1>2, <2>2, KsIdle DEF KsTxnCall, KsMay
  <2> QED
    BY <1>1, <1>2, <1>3, <2>2, <2>4, <2>5, <2>6, <2>7, KsReturnsPlaces DEF KsInv
<1> QED
  BY <1>1, <1>2, <1>5, <1>6, KsNoneDropped DEF KsInv

LEMMA KsAbortReturnsInv == ASSUME KsAssumptions, KsInv, NEW t \in Tasks, KS!AbortReturns(t) PROVE KsInv'
<1>0. delivery' = [r \in Records |-> IF delivery[r] = "sent" THEN "failed" ELSE delivery[r]]
  BY KsSame DEF KS!AbortReturns
<1>1. KsRest
  <2>1. delivery' \in [Records -> {"none", "sent", "ok", "failed"}]
    BY <1>0 DEF KsInv, KsBase, KsTypes
  <2> QED
    BY <2>1, KsEmpty DEF KS!AbortReturns, KsRest, KsInv, KsBase, KsTypes
<1>2. /\ task[t].stage = "abort" /\ buffer' = buffer /\ in_transaction' = FALSE
      /\ given' = given /\ txn' = <<>> /\ store' = store /\ dropped' = dropped
      /\ IF task[t].wrapped THEN KS!Raises(t, task[t], {}) ELSE KS!Returns(t, task[t])
  BY DEF KS!AbortReturns
<1>3. /\ task[t] \in KsCall /\ KsStaged(task[t]) /\ KsShape(task[t]) /\ task[t].oldest = 0
      /\ task[t].wrapped \in BOOLEAN
  BY <1>2, KsTask DEF KsInv, KsStaged
<1>4. KsReadyBase(t, task[t], buffer)
  <2>1. \A r \in Records : (delivery[r] = "none") <=> (delivery'[r] = "none")
    BY <1>0
  <2>2. given \in Nat /\ given <= End /\ 1..given \subseteq Records
    BY DEF KsInv, KsBase, KsTypes, KsAssumptions, Records
  <2>3. ASSUME NEW u \in Tasks PROVE KsUnsentCall(task[u], delivery', given')
    <3>1. KsUnsentCall(task[u], delivery, given)
      BY DEF KsInv, KsBase, KsUnsent
    <3>2. ToSet(task[u].todo) \cup task[u].own \cup task[u].promise \subseteq Records
      BY <2>2, <3>1 DEF KsUnsentCall
    <3> QED
      BY <1>2, <2>1, <3>1, <3>2 DEF KsUnsentCall
  <2>4. \A r \in accepted \cup ToSet(buffer) \cup ToSet(txn') : r \in Records /\ delivery'[r] # "none"
    BY <1>2, <2>1, KsEmpty DEF KsInv, KsBase, KsUnsent
  <2>5. \A r \in Records : r > given' => delivery'[r] = "none"
    BY <1>2, <2>1 DEF KsInv, KsBase, KsUnsent
  <2>6. \A u \in Tasks \ {t} : KsApart(task[t], task[u]) /\ KsApart(task[u], task[t])
    BY KsTask DEF KsInv
  <2> QED
    BY <1>3, <2>3, <2>4, <2>5, <2>6 DEF KsReadyBase, KsInv, KsBase, KsTypes
<1>5. /\ KsReady(t, buffer, {}) /\ config.mode # "plain"
      /\ KsTxnCall(KS!Idle, in_transaction', buffer', txn', torn', dropped')
      /\ accepted \subseteq ToSet(store') \cup dropped'
      /\ \A u \in config.callers \cap Tasks : u = t
  <2>1. KsModes /\ KsPlaces
    BY DEF KsInv
  <2>2. /\ config.mode # "plain" /\ t \in config.callers /\ buffer = <<>>
        /\ KsWaiting(t, buffer) = {} /\ KsAwaited = {}
        /\ accepted \subseteq ToSet(store) \cup dropped /\ settled \subseteq ToSet(store) \cup dropped
        /\ \A u \in config.callers \cap Tasks : u = t
        /\ \A u \in Tasks \ {t} : task[u].stage = "idle" /\ task[u].oldest = 0 /\ task[u].own = {}
        /\ KsTxnCall(task[t], in_transaction, buffer, txn, torn, dropped)
    BY <1>2, <2>1, KsEnds
  <2>3. \A r \in Records : delivery'[r] # "sent"
    BY <1>0
  <2>4. KsReady(t, buffer, {})
    BY <1>2, <2>2, <2>3 DEF KsReady
  <2>5. KsTxnCall(KS!Idle, in_transaction', buffer', txn', torn', dropped')
    BY <1>2, <2>2, KsIdle DEF KsTxnCall, KsMay
  <2> QED
    BY <1>2, <2>2, <2>4, <2>5
<1>5a. KsDropped'
  BY <1>1, <1>2, KsNoneDropped
<1>6. CASE task[t].wrapped
  <2>1. KS!Raises(t, task[t], {})
    BY <1>2, <1>6
  <2>2. KsBase'
    BY <1>1, <1>2, <1>4, <2>1, KsRaisesBase DEF KsInv
  <2>3. KsModes' /\ KsPlaces'
    BY <1>1, <1>2, <1>5, <2>1, KsRaisesPlaces DEF KsInv
  <2> QED
    BY <1>5a, <2>2, <2>3 DEF KsInv
<1>7. CASE ~task[t].wrapped
  <2>1. KS!Returns(t, task[t]) /\ task[t].own = {} /\ task[t].todo = <<>>
    BY <1>2, <1>3, <1>7 DEF KsStaged
  <2>2. KsBase'
    BY <1>1, <1>2, <1>4, <2>1, KsReturnsBase DEF KsInv
  <2>3. KsModes' /\ KsPlaces'
    <3>1. KsOwned(t, task[t], buffer)
      BY <2>1 DEF KsOwned
    <3>2. /\ task[t].own \subseteq ToSet(store') \cup dropped'
          /\ task[t].promise \cap accepted \subseteq ToSet(store') \cup dropped'
      BY <1>5, <2>1
    <3> QED
      BY <1>1, <1>2, <1>5, <2>1, <3>1, <3>2, KsReturnsPlaces DEF KsInv
  <2> QED
    BY <1>5a, <2>2, <2>3 DEF KsInv
<1> QED
  BY <1>3, <1>6, <1>7

-----------------------------------------------------------------------------
LEMMA KsTail ==
  ASSUME NEW s \in Seq(Nat), s # <<>>, \A i, j \in 1..Len(s) : i # j => s[i] # s[j]
  PROVE  /\ \A i, j \in 1..Len(Tail(s)) : i # j => Tail(s)[i] # Tail(s)[j]
         /\ Head(s) \notin ToSet(Tail(s))
<1>1. /\ Len(s) \in Nat \ {0} /\ Len(Tail(s)) = Len(s) - 1 /\ Head(s) = s[1]
      /\ \A i \in 1..(Len(s) - 1) : Tail(s)[i] = s[i + 1]
      /\ DOMAIN Tail(s) = 1..(Len(s) - 1)
  OBVIOUS
<1>2. ASSUME NEW i \in 1..(Len(s) - 1) PROVE i \in Nat /\ i + 1 \in 1..Len(s) /\ i + 1 # 1
  BY <1>1
<1>3. \A i \in 1..(Len(s) - 1) : Tail(s)[i] # s[1]
  <2>1. 1 \in 1..Len(s)
    BY <1>1
  <2> SUFFICES ASSUME NEW i \in 1..(Len(s) - 1) PROVE Tail(s)[i] # s[1]
    OBVIOUS
  <2>2. s[i + 1] # s[1]
    BY <1>2, <2>1
  <2> QED
    BY <1>1, <2>2
<1>4. ASSUME NEW i \in 1..(Len(s) - 1), NEW j \in 1..(Len(s) - 1), i # j PROVE Tail(s)[i] # Tail(s)[j]
  <2>1. i + 1 # j + 1 /\ i + 1 \in 1..Len(s) /\ j + 1 \in 1..Len(s)
    BY <1>2, <1>4
  <2>2. s[i + 1] # s[j + 1]
    BY <2>1
  <2> QED
    BY <1>1, <2>2
<1>5. Head(s) \notin ToSet(Tail(s))
  BY <1>1, <1>3 DEF ToSet
<1> QED
  BY <1>1, <1>4, <1>5

KsTodoLeft(n, e) == /\ \A i, j \in 1..Len(n.todo) : i # j => n.todo[i] # n.todo[j]
                    /\ Head(e.todo) \notin ToSet(n.todo)

LEMMA KsTodo ==
  ASSUME NEW e \in KsCall, NEW n \in KsCall, n.todo = Tail(e.todo), e.todo # <<>>,
         NEW d, NEW g, KsUnsentCall(e, d, g)
  PROVE  KsTodoLeft(n, e)
<1> DEFINE s == e.todo
<1>1. s \in Seq(Nat) /\ s # <<>>
  BY DEF KsCall
<1>2. \A i, j \in 1..Len(s) : i # j => s[i] # s[j]
  BY DEF KsUnsentCall
<1>3. n.todo = Tail(s) /\ Head(e.todo) = Head(s)
  OBVIOUS
<1> HIDE DEF s
<1>4. /\ \A i, j \in 1..Len(Tail(s)) : i # j => Tail(s)[i] # Tail(s)[j]
      /\ Head(s) \notin ToSet(Tail(s))
  BY <1>1, <1>2, KsTail
<1> QED
  BY <1>3, <1>4 DEF KsTodoLeft

\* The next record of the call is in the producer, and its confirmation is outstanding.
LEMMA KsSent ==
  ASSUME KsAssumptions, KsInv, KsRest, NEW t \in Tasks, task[t].stage = "send",
         delivery' = [delivery EXCEPT ![Head(task[t].todo)] = "sent"],
         txn' = txn, store' = store, given' = given, in_transaction' = in_transaction,
         NEW c, c = [task[t] EXCEPT !.todo = Tail(@)],
         NEW acks, acks = Append(buffer, Head(task[t].todo))
  PROVE  /\ KsReadyBase(t, c, acks) /\ KsShape(c) /\ c.call = "write" /\ c.oldest = 0 /\ acks # <<>>
         /\ c.wrapped = task[t].wrapped /\ t \in config.callers /\ c.own = task[t].own
         /\ KsReady(t, acks, {}) /\ KsOwned(t, c, acks)
<1> DEFINE r == Head(task[t].todo)
<1>1. /\ task[t] \in KsCall /\ KsStaged(task[t]) /\ t \in config.callers /\ KsShape(task[t])
      /\ KsUnsentCall(task[t], delivery, given) /\ task[t].call = "write" /\ task[t].oldest = 0
      /\ task[t].todo # <<>> /\ task[t].todo \in Seq(Nat) /\ given \in Nat /\ given <= End
      /\ \A u \in Tasks \ {t} : KsApart(task[t], task[u]) /\ KsApart(task[u], task[t])
  BY KsTask DEF KsInv, KsStaged, KsCall
<1>2. /\ r \in Nat /\ Tail(task[t].todo) \in Seq(Nat)
      /\ ToSet(task[t].todo) = ToSet(Tail(task[t].todo)) \cup {r}
  BY <1>1, KsFirst
<1>3. /\ c \in KsCall /\ c.todo = Tail(task[t].todo) /\ c.own = task[t].own
      /\ c.promise = task[t].promise /\ c.call = "write" /\ c.oldest = 0 /\ c.wrapped = task[t].wrapped
  BY <1>1, <1>2 DEF KsCall
<1>4. r \in 1..given /\ r \in Records /\ delivery[r] = "none"
  BY <1>1, <1>2 DEF KsUnsentCall, Records, KsAssumptions
<1>5. /\ acks \in Seq(Nat) /\ ToSet(acks) = ToSet(buffer) \cup {r} /\ acks # <<>>
  <2>1. buffer \in Seq(Nat)
    BY DEF KsInv, KsBase, KsTypes
  <2> QED
    BY <1>2, <2>1, S3AppendRows
<1>6. delivery' = [delivery EXCEPT ![r] = "sent"] /\ delivery \in [Records -> {"none", "sent", "ok", "failed"}]
  BY DEF KsInv, KsBase, KsTypes
<1> HIDE DEF r
<1>7. \A s \in Records : delivery'[s] = IF s = r THEN "sent" ELSE delivery[s]
  BY <1>4, <1>6
<1>8. 1..given \subseteq Records
  BY <1>1 DEF Records, KsAssumptions
<1>9. KsTodoLeft(c, task[t])
  <2>1. /\ task[t] \in KsCall /\ c \in KsCall /\ c.todo = Tail(task[t].todo) /\ task[t].todo # <<>>
        /\ KsUnsentCall(task[t], delivery, given)
    BY <1>1, <1>3
  <2> QED
    BY <2>1, KsTodo
<1>10. KsUnsentCall(c, delivery', given')
  <2>1. /\ ToSet(c.todo) \cup c.own \cup c.promise \subseteq 1..given
        /\ \A i, j \in 1..Len(c.todo) : i # j => c.todo[i] # c.todo[j]
        /\ c.oldest = 0
    BY <1>1, <1>2, <1>3, <1>9 DEF KsUnsentCall, KsTodoLeft
  <2>2. r \notin ToSet(c.todo)
    BY <1>9 DEF KsTodoLeft, r
  <2>3. /\ \A s \in ToSet(c.todo) : s \in Records /\ delivery[s] = "none"
        /\ \A s \in c.own \ ToSet(c.todo) : s \in Records /\ (s = r \/ delivery[s] # "none")
        /\ \A s \in c.promise : s \in Records /\ delivery[s] # "none"
    BY <1>1, <1>2, <1>3, <1>8 DEF KsUnsentCall
  <2> QED
    BY <1>7, <2>1, <2>2, <2>3 DEF KsUnsentCall
<1>11. ASSUME NEW u \in Tasks \ {t}
       PROVE  KsUnsentCall(task[u], delivery', given') /\ KsApart(c, task[u]) /\ KsApart(task[u], c)
  <2>1. KsUnsentCall(task[u], delivery, given)
    BY DEF KsInv, KsBase, KsUnsent
  <2>2. r \notin ToSet(task[u].todo)
    BY <1>1, <1>2 DEF KsApart
  <2>3. KsUnsentCall(task[u], delivery', given')
    BY <1>7, <1>8, <2>1, <2>2 DEF KsUnsentCall
  <2> QED
    BY <1>1, <1>2, <1>3, <2>3 DEF KsApart
<1>12. \A s \in accepted \cup ToSet(acks) \cup ToSet(txn') : s \in Records /\ delivery'[s] # "none"
  BY <1>4, <1>5, <1>7 DEF KsInv, KsBase, KsUnsent
<1>13. \A s \in Records : s > given' => delivery'[s] = "none"
  <2>1. ~(r > given)
    BY <1>1, <1>4
  <2> QED
    BY <1>7, <2>1 DEF KsInv, KsBase, KsUnsent
<1>14. KsReadyBase(t, c, acks)
  BY <1>3, <1>5, <1>10, <1>11, <1>12, <1>13 DEF KsReadyBase
<1>15. KsShape(c)
  BY <1>1, <1>3 DEF KsShape
<1>16. KsReady(t, acks, {}) /\ KsOwned(t, c, acks)
  <2>1. KsModes /\ KsPlaces
    BY DEF KsInv
  <2>2. KsWaiting(t, acks) = KsAwaited \cup {r}
    BY <1>1, <1>5, KsWaits DEF KsWaiting
  <2>3. \A u \in Tasks : task[u].stage # "abort"
    BY <1>1, <2>1, KsAlone DEF KsInv, KsModes, KsPlainCall
  <2>4. r \notin KsAwaited
    <3>1. \A s \in KsAwaited : s \in Records /\ delivery[s] # "none"
      BY DEF KsAwaited, KsInv, KsBase, KsUnsent, KsUnsentCall
    <3> QED
      BY <1>4, <3>1
  <2>5. \A s \in Records : delivery'[s] = "sent" => s \in KsWaiting(t, acks) \cup dropped'
    BY <1>7, <2>1, <2>2, <2>3 DEF KsPlaces, KsRest
  <2>6. \A s \in KsWaiting(t, acks) : delivery'[s] = "ok" => s \in ToSet(store') \cup ToSet(txn')
    <3>1. \A s \in KsAwaited : s \in Records
      BY DEF KsAwaited, KsInv, KsBase, KsUnsent, KsUnsentCall
    <3> QED
      BY <1>4, <1>7, <2>1, <2>2, <3>1 DEF KsPlaces
  <2>7. \A u \in Tasks \ {t} : task[u].stage = "flush" => task[u].promise \cap ToSet(acks) = {}
    <3>1. \A u \in Tasks : r \notin task[u].promise
      BY <1>4 DEF KsInv, KsBase, KsUnsent, KsUnsentCall
    <3> QED
      BY <1>5, <2>1, <3>1 DEF KsPlaces
  <2>8. \A u \in Tasks : task[u].own \ ToSet(task[u].todo)
                            \subseteq ToSet(store') \cup ToSet(txn') \cup KsAwaited \cup dropped'
    BY <2>1, <2>3 DEF KsPlaces, KsRest
  <2>9. config.mode # "plain" => \A u \in config.callers \cap Tasks : u = t
    BY <1>1, KsAlone DEF KsInv
  <2>10. config.mode = "plain" => ~in_transaction' /\ txn' = <<>> /\ \A u \in Tasks \ {t} : KsPlainCall(task[u])
    BY <2>1 DEF KsModes
  <2>11. /\ accepted \subseteq ToSet(store') \cup dropped'
                          \cup IF config.mode = "plain" THEN KsWaiting(t, acks) ELSE {}
         /\ settled \subseteq ToSet(store') \cup dropped'
    BY <2>1, <2>2 DEF KsPlaces, KsRest
  <2>12. KsReady(t, acks, {})
    BY <2>2, <2>3, <2>5, <2>6, <2>7, <2>8, <2>9, <2>10, <2>11 DEF KsReady
  <2>13. KsOwned(t, c, acks)
    BY <1>2, <1>3, <2>2, <2>8 DEF KsOwned
  <2> QED
    BY <2>12, <2>13
<1> QED
  BY <1>1, <1>3, <1>5, <1>14, <1>15, <1>16

LEMMA KsSendReturnsInv == ASSUME KsAssumptions, KsInv, NEW t \in Tasks, KS!SendReturns(t) PROVE KsInv'
<1> DEFINE c == [task[t] EXCEPT !.todo = Tail(@)]
           acks == Append(buffer, Head(task[t].todo))
<1>1. /\ task[t].stage = "send" /\ delivery' = [delivery EXCEPT ![Head(task[t].todo)] = "sent"]
      /\ txn' = txn /\ store' = store /\ given' = given /\ in_transaction' = in_transaction
      /\ torn' = torn /\ overlapped' = overlapped /\ dropped' = dropped /\ config' = config
      /\ \/ KS!Goto(t, KsWith(c, Head(acks)), "ack") /\ buffer' = Tail(acks) /\ KS!Same
         \/ KS!SendNext(t, c, acks)
  BY DEF KS!SendReturns, KsWith
<1>2. c = [task[t] EXCEPT !.todo = Tail(@)] /\ acks = Append(buffer, Head(task[t].todo))
  OBVIOUS
<1> HIDE DEF c, acks
<1>3. KsRest
  <2>1. /\ task[t].todo \in Seq(Nat) /\ task[t].todo # <<>> /\ buffer \in Seq(Nat)
        /\ delivery \in [Records -> {"none", "sent", "ok", "failed"}]
    BY <1>1, KsTask DEF KsInv, KsBase, KsTypes, KsCall, KsStaged
  <2>2. Head(task[t].todo) \in Nat
    BY <2>1, KsFirst
  <2>3. acks \in Seq(Nat) /\ acks # <<>>
    BY <1>2, <2>1, <2>2, S3AppendRows, KsEmpty
  <2>4. buffer' \in Seq(Nat)
    BY <1>1, <2>3, KsFirst, KsLeft
  <2>5. delivery' \in [Records -> {"none", "sent", "ok", "failed"}]
    BY <1>1, <2>1
  <2> QED
    BY <1>1, <2>4, <2>5 DEF KsRest, KsInv, KsBase, KsTypes
<1>4. /\ KsReadyBase(t, c, acks) /\ KsShape(c) /\ c.call = "write" /\ c.oldest = 0 /\ acks # <<>>
      /\ c.wrapped = task[t].wrapped /\ t \in config.callers /\ c.own = task[t].own
      /\ KsReady(t, acks, {}) /\ KsOwned(t, c, acks)
  <2>1. KsInv /\ KsRest /\ task[t].stage = "send"
    BY <1>1, <1>3
  <2> QED
    BY <1>1, <1>2, <2>1, KsSent
<1>5. /\ config.mode = "plain" => ~c.wrapped
      /\ config.mode # "plain" => in_transaction' /\ KsMay(c, TRUE, torn', dropped')
  <2>1. task[t].stage = "send" => task[t].call = "write"
    BY KsTask DEF KsInv, KsStaged
  <2> QED
    BY <1>1, <1>3, <1>4, <2>1, KsOpenMay DEF KsMay
<1>6. KsDropped'
  BY <1>1, <1>3, KsNoneDropped
<1>7. CASE KS!Goto(t, KsWith(c, Head(acks)), "ack") /\ buffer' = Tail(acks) /\ KS!Same
  <2>1. accepted' = accepted /\ settled' = settled
    BY <1>7 DEF KS!Same
  <2> QED
    BY <1>3, <1>4, <1>5, <1>6, <1>7, <2>1, KsAwaits DEF KsInv
<1>8. CASE KS!SendNext(t, c, acks)
  BY <1>3, <1>4, <1>5, <1>6, <1>8, KsSendsNext DEF KsInv
<1> QED
  BY <1>1, <1>7, <1>8

-----------------------------------------------------------------------------
\* The confirmation that a call awaited has arrived, or has failed for good and is
\* reported: the others are still awaited.
LEMMA KsArrived ==
  ASSUME KsAssumptions, KsInv, KsRest, NEW t \in Tasks,
         task[t].stage \in {"ack", "drain"},
         delivery' = delivery, txn' = txn, store' = store, in_transaction' = in_transaction,
         NEW failed, \/ delivery[task[t].oldest] = "ok" /\ failed = {}
                     \/ delivery[task[t].oldest] = "failed" /\ failed = {task[t].oldest}
  PROVE  /\ KsReady(t, buffer, failed)
         /\ KsAwaited = KsWaiting(t, buffer) \cup {task[t].oldest}
         /\ delivery[task[t].oldest] = "ok" => task[t].oldest \in ToSet(store) \cup ToSet(txn)
<1> DEFINE o == task[t].oldest
<1>1. KsModes /\ KsPlaces
  BY DEF KsInv
<1>2. t \in config.callers /\ o # 0 /\ o \in Records
  BY KsTask DEF KsInv, KsStaged, KsUnsentCall
<1>3. KsAwaited = KsWaiting(t, buffer) \cup {o}
  BY <1>2, KsWaits
<1>4. \A u \in Tasks : task[u].stage # "abort"
  BY <1>1, <1>2, KsAlone DEF KsInv, KsModes, KsPlainCall
<1>5. /\ \A r \in Records : delivery[r] = "sent" => r \in KsAwaited \cup dropped
      /\ \A r \in KsAwaited : delivery[r] = "ok" => r \in ToSet(store) \cup ToSet(txn)
      /\ accepted \subseteq ToSet(store) \cup dropped \cup IF config.mode = "plain" THEN KsAwaited ELSE {}
      /\ \A u \in Tasks : task[u].own \ ToSet(task[u].todo)
                            \subseteq ToSet(store) \cup ToSet(txn) \cup KsAwaited \cup dropped
      /\ \A u \in Tasks : task[u].stage = "flush" => task[u].promise \cap ToSet(buffer) = {}
      /\ settled \subseteq ToSet(store) \cup dropped /\ dropped \subseteq dropped'
  BY <1>1, <1>4 DEF KsPlaces, KsRest
<1>6. /\ config.mode = "plain" => ~in_transaction /\ txn = <<>> /\ \A u \in Tasks \ {t} : KsPlainCall(task[u])
      /\ config.mode # "plain" => \A u \in config.callers \cap Tasks : u = t
  BY <1>1, <1>2, KsAlone DEF KsModes, KsInv
<1>7. o \in failed \/ o \in ToSet(store) \cup ToSet(txn)
  BY <1>3, <1>5
<1> HIDE DEF o
<1>8. delivery[o] # "sent"
  BY DEF o
<1>9. \A r \in Records : delivery'[r] = "sent" => r \in KsWaiting(t, buffer) \cup dropped'
  BY <1>3, <1>5, <1>8
<1>10. \A u \in Tasks \ {t} : (task[u].own \ failed) \ ToSet(task[u].todo)
                          \subseteq ToSet(store') \cup ToSet(txn') \cup KsWaiting(t, buffer) \cup dropped'
  BY <1>3, <1>5, <1>7
<1>11. accepted \ (failed \ settled)
         \subseteq ToSet(store') \cup dropped' \cup IF config.mode = "plain" THEN KsWaiting(t, buffer) ELSE {}
  BY <1>3, <1>5, <1>6, <1>7, KsEmpty
<1>12. KsReady(t, buffer, failed)
  BY <1>3, <1>4, <1>5, <1>6, <1>9, <1>10, <1>11 DEF KsReady
<1> QED
  BY <1>3, <1>5, <1>12 DEF o

LEMMA KsConfirmedInv == ASSUME KsAssumptions, KsInv, NEW t \in Tasks, KS!Confirmed(t) PROVE KsInv'
<1> DEFINE c == KsWith(task[t], 0)
<1>1. /\ task[t].stage \in {"ack", "drain"} /\ delivery[task[t].oldest] = "ok"
      /\ config' = config /\ store' = store /\ given' = given /\ in_transaction' = in_transaction
      /\ delivery' = delivery /\ txn' = txn /\ torn' = torn /\ overlapped' = overlapped
      /\ dropped' = dropped
      /\ IF task[t].stage = "ack" THEN KS!SendNext(t, c, buffer)
         ELSE KS!Drain(t, c, buffer, IF c.call \in {"flush", "close"} THEN "flush" ELSE "commit")
  BY DEF KS!Confirmed, KsWith
<1>2. /\ task[t] \in KsCall /\ KsStaged(task[t]) /\ t \in config.callers /\ KsShape(task[t])
      /\ KsUnsentCall(task[t], delivery, given) /\ given \in Nat
      /\ \A u \in Tasks \ {t} : KsApart(task[t], task[u]) /\ KsApart(task[u], task[t])
  BY <1>1, KsTask DEF KsInv, KsStaged
<1>3. /\ c \in KsCall /\ c.call = task[t].call /\ c.own = task[t].own /\ c.promise = task[t].promise
      /\ c.todo = task[t].todo /\ c.wrapped = task[t].wrapped /\ c.oldest = 0
  BY <1>2 DEF KsWith, KsCall
<1> HIDE DEF c
<1>4. KsRest
  <2>1. buffer' \in Seq(Nat)
    BY <1>1, KsLeft DEF KsInv, KsBase, KsTypes
  <2> QED
    BY <1>1, <2>1 DEF KsRest, KsInv, KsBase, KsTypes
<1>5. KsReadyBase(t, c, buffer) /\ KsShape(c)
  <2>1. KsUnsentCall(c, delivery, given')
    BY <1>1, <1>2, <1>3 DEF KsUnsentCall
  <2>2. \A u \in Tasks \ {t} : KsApart(c, task[u]) /\ KsApart(task[u], c)
    BY <1>2, <1>3 DEF KsApart
  <2>3. KsShape(c) /\ given <= given'
    BY <1>1, <1>2, <1>3 DEF KsShape
  <2> QED
    BY <1>1, <1>3, <1>4, <2>1, <2>2, <2>3, KsStandsBase
<1>6. KsReady(t, buffer, {}) /\ KsOwned(t, c, buffer)
  <2>1. KsReady(t, buffer, {}) /\ KsAwaited = KsWaiting(t, buffer) \cup {task[t].oldest}
        /\ task[t].oldest \in ToSet(store) \cup ToSet(txn)
    BY <1>1, <1>4, KsArrived
  <2>2. task[t].own \ ToSet(task[t].todo) \subseteq ToSet(store) \cup ToSet(txn) \cup KsAwaited \cup dropped
    BY <1>1 DEF KsInv, KsPlaces
  <2> QED
    BY <1>1, <1>3, <2>1, <2>2 DEF KsOwned
<1>7. /\ config.mode = "plain" => ~c.wrapped /\ (task[t].stage = "drain" => c.call \in {"flush", "close"})
      /\ config.mode # "plain" => in_transaction' /\ KsMay(c, TRUE, torn', dropped')
  <2>1. config.mode = "plain" => KsPlainCall(task[t])
    BY DEF KsInv, KsModes
  <2>2. config.mode # "plain" => in_transaction' /\ KsMay(task[t], TRUE, torn', dropped')
    BY <1>1, <1>2, <1>4, KsOpenMay
  <2> QED
    BY <1>3, <2>1, <2>2 DEF KsPlainCall, KsMay
<1>7a. KsDropped'
  BY <1>1, <1>4, KsNoneDropped
<1>8. CASE task[t].stage = "ack"
  <2>1. KS!SendNext(t, c, buffer) /\ c.call = "write"
    BY <1>1, <1>2, <1>3, <1>8 DEF KsStaged
  <2>2. KsBase'
    BY <1>2, <1>3, <1>4, <1>5, <2>1, KsSendsNext DEF KsInv
  <2>3. KsModes' /\ KsPlaces'
    BY <1>2, <1>3, <1>4, <1>5, <1>6, <1>7, <2>1, KsSendsNext DEF KsInv
  <2> QED
    BY <1>7a, <2>2, <2>3 DEF KsInv
<1>9. CASE task[t].stage = "drain"
  <2> DEFINE stage == IF c.call \in {"flush", "close"} THEN "flush" ELSE "commit"
  <2>1. KS!Drain(t, c, buffer, stage)
    BY <1>1, <1>9
  <2>2. /\ stage \in {"flush", "commit"} /\ c.todo = <<>>
        /\ stage = "flush" => c.call \in {"flush", "close"}
        /\ stage = "commit" => c.call \in {"write", "commit"}
    <3>1. c.call \in {"write", "flush", "close", "commit"}
      BY <1>2, <1>3, <1>9 DEF KsStaged
    <3> QED
      BY <1>2, <1>3, <1>9, <3>1 DEF KsStaged
  <2> HIDE DEF stage
  <2>3. KsBase'
    BY <1>2, <1>3, <1>4, <1>5, <2>1, <2>2, KsDrains DEF KsInv
  <2>4. KsModes' /\ KsPlaces'
    <3>1. config.mode = "plain" => ~c.wrapped /\ stage = "flush"
      BY <1>7, <1>9 DEF stage
    <3>2. config.mode # "plain" => /\ KsMay(c, in_transaction', torn', dropped')
                                   /\ ~in_transaction' => buffer = <<>> /\ txn' = <<>> /\ stage = "flush"
      BY <1>7 DEF KsMay
    <3> QED
      BY <1>2, <1>3, <1>4, <1>5, <1>6, <2>1, <2>2, <3>1, <3>2, KsDrains DEF KsInv
  <2> QED
    BY <1>7a, <2>3, <2>4 DEF KsInv
<1> QED
  BY <1>1, <1>8, <1>9

LEMMA KsSendAgainInv == ASSUME KsAssumptions, KsInv, NEW t \in Tasks, KS!SendAgain(t) PROVE KsInv'
<1> DEFINE o == task[t].oldest
<1>1. /\ task[t].stage \in {"ack", "drain"} /\ delivery[o] = "failed"
      /\ delivery' = [delivery EXCEPT ![o] = "sent"] /\ UNCHANGED <<store, txn>>
      /\ UNCHANGED <<config, task, buffer, given, accepted, settled, in_transaction,
                   torn, overlapped, dropped>>
  BY DEF KS!SendAgain
<1>2. o # 0 /\ o \in Records
  BY <1>1, KsTask DEF KsInv, KsStaged, KsUnsentCall
<1>3. o \in KsAwaited
  BY <1>2 DEF KsAwaited
<1> HIDE DEF o
<1>4. delivery[o] # "none"
  BY <1>1
<1> QED
  BY <1>1, <1>2, <1>3, <1>4, KsAnswered

LEMMA KsDeliverInv == ASSUME KsAssumptions, KsInv, NEW r \in Records, KS!Deliver(r) PROVE KsInv'
<1>1. /\ delivery[r] # "none" /\ delivery' = [delivery EXCEPT ![r] = "ok"]
      /\ UNCHANGED <<config, task, buffer, given, accepted, settled, in_transaction,
                   torn, overlapped, dropped>>
      /\ \/ ~in_transaction /\ store' = Append(store, r) /\ txn' = txn
         \/ in_transaction /\ txn' = Append(txn, r) /\ store' = store
  BY DEF KS!Deliver
<1> QED
  BY <1>1, KsAnswered

LEMMA KsDeliveryFailsInv == ASSUME KsAssumptions, KsInv, NEW r \in Records, KS!DeliveryFails(r) PROVE KsInv'
<1>1. /\ delivery[r] # "none" /\ delivery' = [delivery EXCEPT ![r] = "failed"]
      /\ UNCHANGED <<config, task, buffer, given, accepted, settled, in_transaction,
                   torn, overlapped, dropped>>
      /\ \/ UNCHANGED <<store, txn>>
         \/ ~in_transaction /\ store' = Append(store, r) /\ txn' = txn
         \/ in_transaction /\ txn' = Append(txn, r) /\ store' = store
  BY DEF KS!DeliveryFails
<1> QED
  BY <1>1, KsAnswered

LEMMA KsDeliveryRaisesInv == ASSUME KsAssumptions, KsInv, NEW t \in Tasks, KS!DeliveryRaises(t) PROVE KsInv'
<1> DEFINE o == task[t].oldest
<1>1. /\ task[t].stage \in {"ack", "drain"} /\ delivery[o] = "failed"
      /\ config' = config /\ store' = store /\ given' = given /\ in_transaction' = in_transaction
      /\ delivery' = delivery /\ txn' = txn /\ overlapped' = overlapped /\ dropped' = dropped
      /\ \/ task[t].stage = "ack" /\ KS!Fails(t, task[t], buffer, {o}) /\ torn' = torn
         \/ /\ task[t].stage = "drain" /\ KS!Raises(t, task[t], {o}) /\ buffer' = buffer
            /\ torn' = (torn \/ task[t].call \notin {"flush", "close"})
  BY DEF KS!DeliveryRaises
<1>2. /\ KsStaged(task[t]) /\ t \in config.callers /\ KsShape(task[t]) /\ task[t].wrapped \in BOOLEAN
  BY <1>1, KsTask DEF KsInv, KsStaged
<1>3. KsRest
  <2>1. buffer' \in Seq(Nat)
    BY <1>1, KsLeft DEF KsInv, KsBase, KsTypes
  <2>2. (torn => torn') /\ (overlapped => overlapped')
    <3>1. overlapped => overlapped'
      BY <1>1
    <3>2. torn => torn'
      <4>1. ASSUME torn PROVE torn'
        BY <1>1, <4>1
      <4> QED
        BY <4>1
    <3> QED
      BY <3>1, <3>2
  <2>3. given \in Nat /\ given <= End
    BY DEF KsInv, KsBase, KsTypes
  <2> QED
    BY <1>1, <2>1, <2>2, <2>3 DEF KsRest, KsInv, KsBase, KsTypes
<1>4. KsReadyBase(t, task[t], buffer)
  BY <1>1, <1>3, KsStandsCall
<1>5. KsReady(t, buffer, {o})
  BY <1>1, <1>3, KsArrived
<1>6. KsDropped'
  BY <1>1, <1>3, KsNoneDropped
<1> HIDE DEF o
<1>7. CASE task[t].stage = "ack" /\ KS!Fails(t, task[t], buffer, {o}) /\ torn' = torn
  <2>1. KsBase'
    BY <1>2, <1>3, <1>4, <1>7, KsFailing DEF KsInv
  <2>2. /\ config.mode = "plain" => ~task[t].wrapped
        /\ config.mode # "plain" => in_transaction' /\ KsMay(task[t], TRUE, torn', dropped')
                                    /\ accepted \subseteq ToSet(store') \cup dropped'
    BY <1>1, <1>2, <1>3, KsOpenMay
  <2>3. KsModes' /\ KsPlaces'
    BY <1>2, <1>3, <1>4, <1>5, <1>7, <2>2, KsFailing DEF KsInv
  <2> QED
    BY <1>6, <2>1, <2>3 DEF KsInv
<1>8. CASE /\ task[t].stage = "drain" /\ KS!Raises(t, task[t], {o}) /\ buffer' = buffer
           /\ torn' = (torn \/ task[t].call \notin {"flush", "close"})
  <2>1. KsBase'
    BY <1>3, <1>4, <1>8, KsRaisesBase DEF KsInv
  <2>2. task[t].wrapped => torn'
    BY <1>2, <1>8 DEF KsShape
  <2>3. config.mode # "plain" => KsTxnCall(KS!Idle, in_transaction', buffer', txn', torn', dropped')
    BY <1>1, <1>2, <1>3, <1>8, <2>2, KsLeaves
  <2>4. KsModes' /\ KsPlaces'
    BY <1>3, <1>5, <1>8, <2>3, KsRaisesPlaces DEF KsInv
  <2> QED
    BY <1>6, <2>1, <2>4 DEF KsInv
<1> QED
  BY <1>1, <1>7, <1>8

LEMMA KsOpenInv == ASSUME KsInv, NEW t \in Tasks, KS!Open(t) PROVE KsInv'
<1>1. given' = given /\ given \in Nat /\ given <= End
  BY DEF KS!Open, KsInv, KsBase, KsTypes
<1>2. given' \in Nat /\ given <= given' /\ given' <= End
  BY <1>1
<1> QED
  BY <1>2, KsQuiet DEF KS!Open

\* A call begins.
LEMMA KsCaller ==
  ASSUME KsAssumptions, KsInv, NEW t \in Tasks, KS!Ready(t)
  PROVE  /\ t \in config.callers /\ task[t].stage = "idle" /\ task[t].oldest = 0 /\ ~task[t].wrapped
         /\ config.mode \in {"plain", "per_batch", "manual"}
         /\ config.mode = "plain" => ~in_transaction /\ txn = <<>>
         /\ config.mode # "plain" => KsTxnCall(task[t], in_transaction, buffer, txn, torn, dropped)
         /\ config.mode = "per_batch" => ~in_transaction \/ torn
         /\ config.mode # "plain" => accepted \subseteq ToSet(store) \cup dropped
         /\ settled \subseteq ToSet(store) \cup dropped
<1>1. t \in config.callers /\ task[t].call = "idle"
  BY DEF KS!Ready, KS!Busy
<1>2. KsStaged(task[t]) /\ task[t].wrapped \in BOOLEAN
  BY KsTask DEF KsInv
<1>3. task[t].stage = "idle" /\ task[t].oldest = 0 /\ ~task[t].wrapped
  BY <1>1, <1>2 DEF KsStaged
<1>4. config.mode \in {"plain", "per_batch", "manual"}
  BY <1>1, KsAlone DEF KsInv
<1>5. config.mode # "plain" => KsTxnCall(task[t], in_transaction, buffer, txn, torn, dropped)
  BY <1>1 DEF KsInv, KsModes
<1>6. config.mode = "per_batch" => ~in_transaction \/ torn
  BY <1>3, <1>5 DEF KsTxnCall, KsMay
<1> QED
  BY <1>1, <1>3, <1>4, <1>5, <1>6 DEF KsInv, KsModes, KsPlaces

\* A call that sends nothing itself.
LEMMA KsFresh ==
  ASSUME KsAssumptions, KsInv, KsRest, NEW t \in Tasks, NEW c \in KsCall, c.todo = <<>>, c.oldest = 0,
         \A r \in c.own \cup c.promise : r \in Records /\ delivery[r] # "none",
         delivery' = delivery, txn' = txn, given' = given
  PROVE  KsReadyBase(t, c, buffer)
<1>1. ToSet(c.todo) = {} /\ Len(c.todo) = 0
  BY KsEmpty
<1>2. given \in Nat
  BY DEF KsInv, KsBase, KsTypes
<1>3. \A r \in Records : delivery[r] # "none" => r \in 1..given
  BY <1>2 DEF KsInv, KsBase, KsUnsent, Records
<1>4. KsUnsentCall(c, delivery, given')
  BY <1>1, <1>3 DEF KsUnsentCall
<1>5. \A u \in Tasks \ {t} : KsApart(c, task[u]) /\ KsApart(task[u], c)
  <2> SUFFICES ASSUME NEW u \in Tasks \ {t} PROVE KsApart(c, task[u]) /\ KsApart(task[u], c)
    OBVIOUS
  <2>1. \A r \in ToSet(task[u].todo) : delivery[r] = "none"
    BY DEF KsInv, KsBase, KsUnsent, KsUnsentCall
  <2> QED
    BY <1>1, <2>1 DEF KsApart
<1> QED
  BY <1>2, <1>4, <1>5, KsStandsBase

\* Calls that wait for begin or abort first.
LEMMA KsBegins ==
  ASSUME KsAssumptions, KsInv, KsRest, NEW t \in Tasks, KS!Ready(t), NEW c \in KsCall,
         KsReadyBase(t, c, buffer), KsShape(c), c.oldest = 0, NEW s \in {"begin", "abort", "send"},
         s = "begin" => /\ c.call \in {"begin", "write"} /\ ~in_transaction /\ config.mode # "plain"
                        /\ buffer' = buffer /\ (c.call = "write" => c.wrapped),
         c.call = "write" => c.todo # <<>>,
         s = "abort" => /\ c.call \in {"abort", "close"} /\ buffer' = <<>>
                        /\ in_transaction /\ ~c.wrapped,
         s = "send" => /\ c.call = "write" /\ buffer' = buffer /\ ~c.wrapped
                       /\ config.mode = "per_batch" => in_transaction /\ c.own \subseteq dropped'
                       /\ config.mode = "manual" => in_transaction,
         s # "abort" => c.own \subseteq ToSet(c.todo),
         config.mode = "per_batch" => /\ c.call \in {"write", "close"}
                                      /\ c.call = "write" /\ s # "send" => c.wrapped,
         config.mode = "manual" => ~c.wrapped /\ (c.call = "write" => c.own = {}),
         KS!Goto(t, c, s), accepted' = accepted, settled' = settled, dropped' # dropped => torn,
         delivery' = delivery, txn' = txn, store' = store, in_transaction' = in_transaction
  PROVE  KsInv'
<1>1. /\ t \in config.callers /\ task[t].stage = "idle" /\ task[t].oldest = 0
      /\ config.mode \in {"plain", "per_batch", "manual"}
  BY KsCaller
<1>2. s \in KsStages
  BY DEF KsStages
<1>3. PICK n \in KsCall : KsAs(n, c, s, c.oldest) /\ task' = [task EXCEPT ![t] = n]
  BY <1>2, KsGotoStage
<1>4. /\ n.stage = s /\ n.oldest = 0 /\ n.call = c.call /\ n.own = c.own
      /\ n.promise = c.promise /\ n.todo = c.todo /\ n.wrapped = c.wrapped
  BY <1>3 DEF KsAs
<1>5. KsStaged(n)
  BY <1>4 DEF KsStaged, KsShape
<1>6. KsBase'
  <2>1. ToSet(buffer') \subseteq ToSet(buffer) /\ n.oldest \in ToSet(buffer) \cup {0}
    BY <1>4, KsEmpty
  <2> QED
    BY <1>1, <1>3, <1>4, <1>5, <2>1, KsGoesBase DEF KsInv
<1>7. KsModes' /\ KsPlaces'
  <2>1. (torn => torn') /\ dropped \subseteq dropped'
    BY DEF KsRest
  <2>2. /\ config.mode = "plain" => ~in_transaction /\ txn = <<>>
        /\ config.mode # "plain" => KsTxnCall(task[t], in_transaction, buffer, txn, torn, dropped)
        /\ config.mode = "per_batch" => ~in_transaction \/ torn
        /\ config.mode # "plain" => accepted \subseteq ToSet(store) \cup dropped
        /\ settled \subseteq ToSet(store) \cup dropped
    BY KsCaller
  <2>3. config.mode # "plain" => KsTxnCall(n, in_transaction', buffer', txn', torn', dropped')
    <3>1. ASSUME config.mode # "plain" PROVE KsMay(n, in_transaction', torn', dropped')
      BY <1>1, <1>4, <2>1, <2>2, <3>1 DEF KsMay
    <3>2. config.mode # "plain" /\ ~in_transaction => buffer = <<>> /\ txn = <<>>
      BY <2>2 DEF KsTxnCall
    <3>3. config.mode # "plain" /\ ~in_transaction => s = "begin"
      BY <1>1
    <3>4. s = "begin" => ~in_transaction /\ buffer' = buffer
      OBVIOUS
    <3>5. s = "abort" => buffer' = <<>>
      OBVIOUS
    <3> QED
      BY <1>4, <3>1, <3>2, <3>3, <3>4, <3>5 DEF KsTxnCall
  <2>4. CASE s = "abort"
    <3>1. config.mode # "plain" /\ buffer' = <<>>
      BY <2>2, <2>4
    <3>2. \A u \in config.callers \cap Tasks : u = t
      BY <1>1, <3>1, KsAlone DEF KsInv
    <3>3. accepted \subseteq ToSet(store') \cup dropped' /\ settled \subseteq ToSet(store') \cup dropped'
      BY <2>1, <2>2, <3>1
    <3>4. KsTxnCall(n, in_transaction', buffer', txn', torn', dropped')
      BY <2>3, <3>1
    <3>5. n.stage = "abort" /\ n.oldest = 0
      BY <1>4, <2>4
    <3>6. KsBase /\ task' = [task EXCEPT ![t] = n]
      BY <1>3 DEF KsInv
    <3> QED
      BY <1>1, <3>1, <3>2, <3>3, <3>4, <3>5, <3>6, KsAbortsPlaces
  <2>5. CASE s # "abort"
    <3>1. KsReady(t, buffer, {})
      BY <1>1, KsStands
    <3>2. KsOwned(t, c, buffer)
      BY <2>5 DEF KsOwned
    <3>3. IF config.mode = "plain" THEN KsPlainCall(n)
                                   ELSE KsTxnCall(n, in_transaction', buffer', txn', torn', dropped')
      <4>1. config.mode = "plain" => s = "send" /\ ~n.wrapped
        BY <1>4, <2>5
      <4> QED
        BY <1>4, <2>3, <4>1 DEF KsPlainCall
    <3>4. ToSet(buffer) = ToSet(buffer') \cup ({n.oldest} \ {0})
      BY <1>4, <2>5
    <3>5. n.stage # "abort" /\ n.stage # "flush"
      BY <1>4, <2>5
    <3> QED
      BY <1>1, <1>3, <1>4, <3>1, <3>2, <3>3, <3>4, <3>5, KsGoesPlaces DEF KsInv
  <2> QED
    BY <2>4, <2>5
<1>8. KsDropped'
  BY DEF KsInv, KsDropped, KsRest
<1> QED
  BY <1>6, <1>7, <1>8 DEF KsInv

\* Calls that drain the confirmations first.
LEMMA KsBeginsDrain ==
  ASSUME KsAssumptions, KsInv, KsRest, NEW t \in Tasks, KS!Ready(t), NEW c \in KsCall,
         KsReadyBase(t, c, buffer), KsShape(c), c.oldest = 0, c.todo = <<>>, ~c.wrapped,
         NEW stage \in {"flush", "commit"},
         stage = "flush" => c.call \in {"flush", "close"} /\ c.own = {},
         stage = "commit" => c.call = "commit" /\ config.mode = "manual" /\ in_transaction,
         KsOwned(t, c, buffer), KS!Drain(t, c, buffer, stage), dropped' = dropped,
         delivery' = delivery, txn' = txn, store' = store, in_transaction' = in_transaction
  PROVE  KsInv'
<1>1. /\ t \in config.callers /\ task[t].stage = "idle" /\ task[t].oldest = 0
      /\ config.mode \in {"plain", "per_batch", "manual"}
  BY KsCaller
<1>2. stage = "commit" => c.call \in {"write", "commit"}
  OBVIOUS
<1>3. stage = "flush" => c.call \in {"flush", "close"}
  OBVIOUS
<1>4. KsBase'
  BY <1>1, <1>2, <1>3, KsDrains DEF KsInv
<1>5. KsModes' /\ KsPlaces'
  <2>1. torn => torn'
    BY DEF KsRest
  <2>2. /\ config.mode # "plain" => KsTxnCall(task[t], in_transaction, buffer, txn, torn, dropped)
        /\ config.mode = "per_batch" => ~in_transaction \/ torn
    BY KsCaller
  <2>3. KsReady(t, buffer, {}) /\ KsOwned(t, c, buffer)
    BY <1>1, KsStands
  <2>4. config.mode = "plain" => ~c.wrapped /\ stage = "flush"
    OBVIOUS
  <2>5. config.mode # "plain" => /\ KsMay(c, in_transaction', torn', dropped')
                                 /\ ~in_transaction' => buffer = <<>> /\ txn' = <<>> /\ stage = "flush"
    <3>1. config.mode # "plain" => KsMay(c, in_transaction', torn', dropped')
      BY <1>1, <2>1, <2>2 DEF KsMay
    <3>2. config.mode # "plain" /\ ~in_transaction => buffer = <<>> /\ txn = <<>>
      BY <2>2 DEF KsTxnCall
    <3>3. stage = "commit" => in_transaction
      OBVIOUS
    <3> QED
      BY <3>1, <3>2, <3>3
  <2> QED
    BY <1>1, <1>2, <1>3, <2>3, <2>4, <2>5, KsDrains DEF KsInv
<1> QED
  BY <1>4, <1>5, KsNoneDropped DEF KsInv

LEMMA KsRecords == KsAssumptions => Records \subseteq Nat
  BY DEF Records, KsAssumptions

LEMMA KsFlushOrCloseInv ==
  ASSUME KsAssumptions, KsInv, NEW t \in Tasks, NEW call \in {"flush", "close"}, KS!FlushOrClose(t, call)
  PROVE  KsInv'
<1> DEFINE promise == IF call = "flush" \/ ~in_transaction THEN accepted ELSE {}
           c == [KS!Idle EXCEPT !.call = call, !.promise = promise]
<1>1. /\ KS!Ready(t) /\ config' = config /\ store' = store /\ given' = given /\ delivery' = delivery
      /\ in_transaction' = in_transaction /\ txn' = txn /\ torn' = torn /\ overlapped' = overlapped
      /\ dropped' = dropped
      /\ IF call = "close" /\ in_transaction
         THEN KS!Goto(t, c, "abort") /\ buffer' = <<>> /\ accepted' = accepted /\ settled' = settled
         ELSE KS!Drain(t, c, buffer, "flush")
  BY DEF KS!FlushOrClose, KS!Same
<1>2. promise \subseteq accepted /\ accepted \in SUBSET Records /\ promise \in SUBSET Nat
  BY KsRecords DEF KsInv, KsBase, KsTypes
<1> HIDE DEF promise
<1>3. /\ c \in KsCall /\ c.call = call /\ c.own = {} /\ c.promise = promise /\ c.todo = <<>>
      /\ c.oldest = 0 /\ ~c.wrapped
  <2>1. <<>> \in Seq(Nat)
    OBVIOUS
  <2> QED
    BY <1>2, <2>1 DEF KS!Idle, KsCall, KsStages
<1> HIDE DEF c
<1>4. KsRest
  <2>1. buffer' \in Seq(Nat)
    BY <1>1, KsLeft, KsEmpty DEF KsInv, KsBase, KsTypes
  <2> QED
    BY <1>1, <2>1 DEF KsRest, KsInv, KsBase, KsTypes
<1>5. KsReadyBase(t, c, buffer) /\ KsShape(c)
  <2>1. \A r \in c.own \cup c.promise : r \in Records /\ delivery[r] # "none"
    BY <1>2, <1>3 DEF KsInv, KsBase, KsUnsent
  <2> QED
    BY <1>1, <1>3, <1>4, <2>1, KsFresh DEF KsShape
<1>6. CASE call = "close" /\ in_transaction
  <2>1. KS!Goto(t, c, "abort") /\ buffer' = <<>> /\ accepted' = accepted /\ settled' = settled
    BY <1>1, <1>6
  <2> QED
    BY <1>1, <1>3, <1>4, <1>5, <1>6, <2>1, KsBegins
<1>7. CASE ~(call = "close" /\ in_transaction)
  <2>1. KS!Drain(t, c, buffer, "flush")
    BY <1>1, <1>7
  <2>2. KsOwned(t, c, buffer)
    BY <1>3 DEF KsOwned
  <2> QED
    BY <1>1, <1>3, <1>4, <1>5, <2>1, <2>2, KsBeginsDrain
<1> QED
  BY <1>6, <1>7

LEMMA KsTransactionInv ==
  ASSUME KsAssumptions, KsInv, NEW t \in Tasks, NEW call \in {"begin", "commit", "abort"},
         KS!Transaction(t, call)
  PROVE  KsInv'
<1> DEFINE own == IF call = "commit" THEN ToSet(txn) \cup {r \in Records : delivery[r] = "sent"}
                                          \cup ToSet(buffer) ELSE {}
           c == [KS!Idle EXCEPT !.call = call, !.own = own]
<1>1. /\ KS!Ready(t) /\ config.mode = "manual" /\ ((call = "begin") <=> ~in_transaction)
      /\ config' = config /\ store' = store /\ given' = given /\ delivery' = delivery
      /\ in_transaction' = in_transaction /\ txn' = txn /\ torn' = torn /\ overlapped' = overlapped
      /\ dropped' = dropped
      /\ \/ call = "begin" /\ KS!Goto(t, c, "begin") /\ buffer' = buffer
            /\ accepted' = accepted /\ settled' = settled
         \/ call = "commit" /\ KS!Drain(t, c, buffer, "commit")
         \/ call = "abort" /\ KS!Goto(t, c, "abort") /\ buffer' = <<>>
            /\ accepted' = accepted /\ settled' = settled
  BY KsSame DEF KS!Transaction, KS!Same
<1>2. /\ \A r \in own : r \in Records /\ delivery[r] # "none"
      /\ own \in SUBSET Nat /\ (call # "commit" => own = {})
      /\ call = "commit" => own \subseteq ToSet(txn) \cup {r \in Records : delivery[r] = "sent"} \cup ToSet(buffer)
  <2>1. \A r \in own : r \in Records /\ delivery[r] # "none"
    BY DEF KsInv, KsBase, KsUnsent
  <2> QED
    BY <2>1, KsRecords
<1> HIDE DEF own
<1>3. /\ c \in KsCall /\ c.call = call /\ c.own = own /\ c.promise = {} /\ c.todo = <<>>
      /\ c.oldest = 0 /\ ~c.wrapped
  <2>1. <<>> \in Seq(Nat)
    OBVIOUS
  <2> QED
    BY <1>2, <2>1 DEF KS!Idle, KsCall, KsStages
<1> HIDE DEF c
<1>4. KsRest
  <2>1. buffer' \in Seq(Nat)
    BY <1>1, KsLeft, KsEmpty DEF KsInv, KsBase, KsTypes
  <2> QED
    BY <1>1, <2>1 DEF KsRest, KsInv, KsBase, KsTypes
<1>5. KsReadyBase(t, c, buffer) /\ KsShape(c)
  <2>1. \A r \in c.own \cup c.promise : r \in Records /\ delivery[r] # "none"
    BY <1>2, <1>3
  <2> QED
    BY <1>1, <1>2, <1>3, <1>4, <2>1, KsFresh DEF KsShape
<1>6. CASE call = "begin"
  <2>1. KS!Goto(t, c, "begin") /\ buffer' = buffer /\ accepted' = accepted /\ settled' = settled
    BY <1>1, <1>6
  <2>2. ~in_transaction /\ c.own \subseteq ToSet(c.todo)
    BY <1>1, <1>2, <1>3, <1>6
  <2> QED
    BY <1>1, <1>3, <1>4, <1>5, <1>6, <2>1, <2>2, KsBegins
<1>7. CASE call = "abort"
  <2>1. KS!Goto(t, c, "abort") /\ buffer' = <<>> /\ accepted' = accepted /\ settled' = settled
    BY <1>1, <1>7
  <2>2. in_transaction
    BY <1>1, <1>7
  <2> QED
    BY <1>1, <1>3, <1>4, <1>5, <1>7, <2>1, <2>2, KsBegins
<1>8. CASE call = "commit"
  <2>1. KS!Drain(t, c, buffer, "commit") /\ in_transaction
    BY <1>1, <1>8
  <2>2. KsOwned(t, c, buffer)
    <3>1. task[t].stage = "idle" /\ task[t].oldest = 0 /\ t \in config.callers
      BY <1>1, KsCaller
    <3>2. KsReady(t, buffer, {})
      BY <1>1, <1>4, <3>1, KsStands
    <3>3. \A r \in Records : delivery[r] = "sent" => r \in KsWaiting(t, buffer) \cup dropped'
      BY <1>1, <3>2 DEF KsReady
    <3> QED
      BY <1>1, <1>2, <1>3, <1>8, <3>3 DEF KsOwned, KsWaiting
  <2> QED
    BY <1>1, <1>3, <1>4, <1>5, <1>8, <2>1, <2>2, KsBeginsDrain
<1> QED
  BY <1>6, <1>7, <1>8

\* write() and write_batch(): the records handed over are in the call only.
LEMMA KsWriteInv ==
  ASSUME KsAssumptions, KsInv, NEW t \in Tasks, NEW n \in 1..2, NEW batch \in BOOLEAN,
         KS!Write(t, n, batch)
  PROVE  KsInv'
<1> DEFINE own == IF config.mode = "manual" THEN {} ELSE (given + 1)..(given + n)
           todo == [i \in 1..n |-> given + i]
           c == [KS!Idle EXCEPT !.call = "write", !.todo = todo, !.own = own]
           wrapping == config.mode = "per_batch" /\ ~in_transaction
           w == [c EXCEPT !.wrapped = TRUE]
<1>1. /\ KS!Ready(t) /\ given + n <= End /\ given' = given + n
      /\ config.mode = "manual" => in_transaction
      /\ config' = config /\ buffer' = buffer /\ store' = store /\ accepted' = accepted
      /\ settled' = settled /\ in_transaction' = in_transaction /\ delivery' = delivery
      /\ txn' = txn /\ torn' = torn /\ overlapped' = overlapped
      /\ dropped \subseteq dropped' /\ (dropped' # dropped => config.mode = "per_batch" /\ in_transaction)
      /\ config.mode = "per_batch" /\ in_transaction => own \subseteq dropped'
      /\ \/ wrapping /\ KS!Goto(t, w, "begin")
         \/ ~wrapping /\ (KS!Goto(t, c, "send") \/ task' = task)
  BY DEF KS!Write
<1> HIDE DEF wrapping
<1>2. given \in Nat /\ given <= End /\ n \in Nat /\ n >= 1
  BY DEF KsInv, KsBase, KsTypes
<1>3. given' \in Nat /\ given' <= End /\ given <= given'
  BY <1>1, <1>2
<1>4. KsRest
  BY <1>1, <1>3 DEF KsRest, KsInv, KsBase, KsTypes
<1>5. /\ todo \in Seq(Nat) /\ todo # <<>> /\ Len(todo) = n /\ \A i \in 1..n : todo[i] = given + i
      /\ ToSet(todo) = (given + 1)..(given + n)
  <2>1. /\ todo \in Seq(Nat) /\ Len(todo) = n /\ \A i \in 1..n : todo[i] = given + i
        /\ DOMAIN todo = 1..n
    BY <1>2
  <2> HIDE DEF todo
  <2>2. todo # <<>>
    BY <1>2, <2>1
  <2>3. ASSUME NEW r \in (given + 1)..(given + n) PROVE r \in ToSet(todo)
    <3>1. r - given \in 1..n /\ given + (r - given) = r
      BY <1>2
    <3> QED
      BY <2>1, <3>1 DEF ToSet
  <2>4. ASSUME NEW r \in ToSet(todo) PROVE r \in (given + 1)..(given + n)
    <3>1. PICK i \in 1..n : r = todo[i]
      BY <2>1 DEF ToSet
    <3> QED
      BY <1>2, <2>1, <3>1
  <2> QED
    BY <2>1, <2>2, <2>3, <2>4
<1>6. own \subseteq ToSet(todo) /\ own \in SUBSET Nat /\ (config.mode = "manual" => own = {})
  BY <1>2, <1>5
<1> HIDE DEF todo, own
<1>7. /\ c \in KsCall /\ c.call = "write" /\ c.own = own /\ c.promise = {} /\ c.todo = todo
      /\ c.oldest = 0 /\ ~c.wrapped /\ c.wrapped \in BOOLEAN
  BY <1>5, <1>6 DEF KS!Idle, KsCall, KsStages
<1> HIDE DEF c
<1>8. /\ w \in KsCall /\ w.call = "write" /\ w.own = own /\ w.promise = {} /\ w.todo = todo
      /\ w.oldest = 0 /\ w.wrapped
  BY <1>7 DEF KsCall
<1> HIDE DEF w
<1>9. ASSUME NEW m \in KsCall, m.call = "write", m.own = own, m.promise = {}, m.todo = todo, m.oldest = 0
      PROVE  KsReadyBase(t, m, buffer) /\ KsShape(m)
  <2>1. \A r \in Records : r > given => delivery[r] = "none"
    BY DEF KsInv, KsBase, KsUnsent
  <2>2. \A r \in ToSet(todo) : r \in Records /\ r > given /\ r \in 1..given' /\ r \notin 1..given
    BY <1>1, <1>2, <1>5 DEF Records, KsAssumptions
  <2>3. \A i, j \in 1..Len(todo) : i # j => todo[i] # todo[j]
    <3>1. \A i, j \in 1..n : i # j => given + i # given + j
      BY <1>2
    <3> QED
      BY <1>5, <3>1
  <2>4. KsUnsentCall(m, delivery, given')
    <3>1. \A r \in ToSet(m.todo) : delivery[r] = "none"
      BY <1>9, <2>1, <2>2
    <3>2. ToSet(m.todo) \cup m.own \cup m.promise \subseteq 1..given'
      BY <1>6, <1>9, <2>2
    <3>3. m.own \ ToSet(m.todo) = {} /\ m.promise = {} /\ m.oldest = 0
      BY <1>6, <1>9
    <3>4. \A i, j \in 1..Len(m.todo) : i # j => m.todo[i] # m.todo[j]
      BY <1>9, <2>3
    <3> QED
      BY <3>1, <3>2, <3>3, <3>4 DEF KsUnsentCall
  <2>5. ASSUME NEW u \in Tasks \ {t} PROVE KsApart(m, task[u]) /\ KsApart(task[u], m)
    <3>1. ToSet(task[u].todo) \cup task[u].own \subseteq 1..given
      BY DEF KsInv, KsBase, KsUnsent, KsUnsentCall
    <3>2. ToSet(m.todo) \cup m.own \subseteq ToSet(todo)
      BY <1>6, <1>9
    <3> QED
      BY <2>2, <3>1, <3>2 DEF KsApart
  <2>6. KsReadyBase(t, m, buffer)
    BY <1>1, <1>3, <1>4, <2>4, <2>5, KsStandsBase
  <2> QED
    BY <1>9, <2>6 DEF KsShape
<1>10. config.mode \in {"plain", "per_batch", "manual"}
  BY <1>1, KsCaller
<1>10a. dropped' # dropped => torn
  BY <1>1, KsCaller
<1>11. CASE wrapping /\ KS!Goto(t, w, "begin")
  <2>1. config.mode = "per_batch" /\ ~in_transaction
    BY <1>11 DEF wrapping
  <2>2. KsReadyBase(t, w, buffer) /\ KsShape(w) /\ w.own \subseteq ToSet(w.todo) /\ w.todo # <<>>
    BY <1>5, <1>6, <1>8, <1>9
  <2> QED
    BY <1>1, <1>4, <1>8, <1>10a, <1>11, <2>1, <2>2, KsBegins
<1>12. CASE ~wrapping /\ KS!Goto(t, c, "send")
  <2>1. config.mode = "per_batch" => in_transaction /\ c.own \subseteq dropped'
    BY <1>1, <1>7, <1>12 DEF wrapping
  <2>2. KsReadyBase(t, c, buffer) /\ KsShape(c) /\ c.own \subseteq ToSet(c.todo) /\ c.todo # <<>>
    BY <1>5, <1>6, <1>7, <1>9
  <2>3. config.mode = "manual" => in_transaction /\ c.own = {}
    BY <1>1, <1>6, <1>7
  <2> QED
    BY <1>1, <1>4, <1>7, <1>10a, <1>12, <2>1, <2>2, <2>3, KsBegins
<1>13. CASE task' = task
  BY <1>1, <1>3, <1>10a, <1>13, KsQuiet
<1> QED
  BY <1>1, <1>11, <1>12, <1>13

LEMMA KsInitInv == ASSUME KsAssumptions, KS!Init PROVE KsInv
<1>1. /\ config \in Configs /\ task = [t \in Tasks |-> KS!Idle] /\ buffer = <<>> /\ store = <<>>
      /\ txn = <<>> /\ given = 0 /\ accepted = {} /\ settled = {} /\ in_transaction = FALSE
      /\ delivery = [r \in Records |-> "none"] /\ torn = FALSE /\ overlapped = FALSE
      /\ dropped = {}
  BY KsSame DEF KS!Init
<1>2. \A t \in Tasks : task[t] = KS!Idle
  BY <1>1
<1>3. KsTypes
  <2>1. task \in [Tasks -> KsCall]
    BY <1>1, KsIdle
  <2>2. delivery \in [Records -> {"none", "sent", "ok", "failed"}] /\ in_transaction \in BOOLEAN
    BY <1>1
  <2>3. /\ buffer \in Seq(Nat) /\ store \in Seq(Nat) /\ txn \in Seq(Nat)
        /\ ToSet(store) \subseteq Records
    BY <1>1, KsEmpty
  <2>4. /\ given \in Nat /\ given <= End /\ accepted \in SUBSET Records /\ settled \in SUBSET accepted
    BY <1>1 DEF KsAssumptions
  <2> QED
    BY <1>1, <2>1, <2>2, <2>3, <2>4 DEF KsTypes
<1>4. KsCalls
  BY <1>2, KsIdle DEF KsCalls
<1>5. KsUnsent
  <2>1. \A t, u \in Tasks : KsApart(task[t], task[u])
    BY <1>2, KsIdle, KsEmpty DEF KsApart
  <2>2. \A t \in Tasks : KsUnsentCall(task[t], delivery, given)
    BY <1>2, KsIdleUnsent
  <2> QED
    BY <1>1, <2>1, <2>2, KsEmpty DEF KsUnsent
<1>6. KsModes
  <2>1. \A t \in Tasks : KsPlainCall(task[t]) /\ KsTxnCall(task[t], in_transaction, buffer, txn, torn, dropped)
    BY <1>1, <1>2, KsIdle DEF KsTxnCall, KsMay
  <2> QED
    BY <1>1, <2>1 DEF KsModes
<1>7. KsPlaces
  <2>1. KsAwaited = {}
    BY <1>1, <1>2, KsIdle, KsEmpty DEF KsAwaited
  <2> QED
    BY <1>1, <1>2, <2>1, KsIdle, KsEmpty DEF KsPlaces
<1> QED
  BY <1>1, <1>3, <1>4, <1>5, <1>6, <1>7 DEF KsInv, KsBase, KsDropped

LEMMA KsNextInv == ASSUME KsAssumptions, KsInv, [KS!Next]_KS!vars PROVE KsInv'
<1>1. ASSUME NEW t \in Tasks, KS!Open(t) PROVE KsInv'
  BY <1>1, KsOpenInv
<1>2. ASSUME NEW t \in Tasks, NEW n \in 1..2, NEW batch \in BOOLEAN, KS!Write(t, n, batch) PROVE KsInv'
  BY <1>2, KsWriteInv
<1>3. ASSUME NEW t \in Tasks, NEW call \in {"flush", "close"}, KS!FlushOrClose(t, call) PROVE KsInv'
  BY <1>3, KsFlushOrCloseInv
<1>4. ASSUME NEW t \in Tasks, NEW call \in {"begin", "commit", "abort"}, KS!Transaction(t, call) PROVE KsInv'
  BY <1>4, KsTransactionInv
<1>5. ASSUME NEW t \in Tasks,
             \/ KS!SendReturns(t) \/ KS!SendFails(t) \/ KS!Confirmed(t) \/ KS!SendAgain(t)
             \/ KS!DeliveryRaises(t) \/ KS!FlushReturns(t) \/ KS!BeginReturns(t)
             \/ KS!CommitReturns(t) \/ KS!CommitFails(t) \/ KS!AbortReturns(t) \/ KS!CallFails(t)
      PROVE  KsInv'
  BY <1>5, KsSendReturnsInv, KsSendFailsInv, KsConfirmedInv, KsSendAgainInv, KsDeliveryRaisesInv,
     KsFlushReturnsInv, KsBeginReturnsInv, KsCommitReturnsInv, KsCommitFailsInv, KsAbortReturnsInv,
     KsCallFailsInv
<1>6. ASSUME NEW r \in KS!Records, KS!Deliver(r) \/ KS!DeliveryFails(r) PROVE KsInv'
  BY <1>6, KsSame, KsDeliverInv, KsDeliveryFailsInv
<1>7. CASE UNCHANGED KS!vars
  <2>1. given' = given /\ given \in Nat /\ given <= End
    BY <1>7 DEF KS!vars, KsInv, KsBase, KsTypes
  <2>2. given' \in Nat /\ given <= given' /\ given' <= End
    BY <2>1
  <2> QED
    BY <1>7, <2>2, KsQuiet DEF KS!vars
<1> QED
  BY <1>1, <1>2, <1>3, <1>4, <1>5, <1>6, <1>7 DEF KS!Next

LEMMA KsAlways == ASSUME KsAssumptions PROVE KS!Spec => []KsInv
<1>1. KS!Init => KsInv
  BY KsInitInv
<1>2. KsInv /\ [KS!Next]_KS!vars => KsInv'
  BY KsNextInv
<1> QED
  BY <1>1, <1>2, PTL DEF KS!Spec

\* A record that KafkaSink accepted is in the topic, or its confirmation is outstanding and
\* a call will await it, whatever failed and whatever overlapped, but for the records that
\* a call has answered for without their confirmation: a batch that joined a transaction
\* which a failed commit or abort left open, records that were on their way when such an
\* abort failed, and confirmations that another call awaited when flush() returned.
THEOREM KafkaNoRowLost == ASSUME KsAssumptions PROVE KS!Spec => []KS!RowsKept
<1>1. KsInv => KS!RowsKept
  <2> SUFFICES ASSUME KsInv PROVE KS!RowsKept
    OBVIOUS
  <2>1. accepted \subseteq ToSet(store) \cup dropped \cup KsAwaited
    BY DEF KsInv, KsPlaces
  <2>2. KsAwaited \subseteq ToSet(buffer) \cup {task[t].oldest : t \in Tasks}
    BY DEF KsAwaited
  <2>3. dropped # {} => torn \/ overlapped
    BY DEF KsInv, KsDropped
  <2> QED
    BY <2>1, <2>2, <2>3, KsSame DEF KS!RowsKept, KS!Durable, KS!Excused
<1> QED
  BY <1>1, KsAlways, PTL

LEMMA KsContractStep ==
  ASSUME KsAssumptions, KsInv, KsInv', [KS!Next]_KS!vars PROVE KsContract!Step
<1>1. ToSet(store) \subseteq ToSet(store')
  <2>1. \A r \in Records : ToSet(store) \subseteq ToSet(Append(store, r))
    <3>1. \A r \in Records : r \in Nat
      BY KsRecords
    <3> QED
      BY <3>1, S3AppendRows DEF KsInv, KsBase, KsTypes
  <2>2. ToSet(store) \subseteq ToSet(store \o txn)
    BY KsCommitted
  <2>3. \/ store' = store \/ store' = store \o txn
        \/ \E r \in Records : store' = Append(store, r)
    BY KsSame DEF KS!Next, KS!vars, KS!Open, KS!Write, KS!FlushOrClose, KS!Transaction, KS!SendReturns,
       KS!SendFails, KS!Confirmed, KS!SendAgain, KS!DeliveryRaises, KS!FlushReturns, KS!BeginReturns,
       KS!CommitReturns, KS!CommitFails, KS!AbortReturns, KS!CallFails, KS!Deliver, KS!DeliveryFails
  <2> QED
    BY <2>1, <2>2, <2>3
<1>2. settled \subseteq settled'
  <2>1. /\ \A t, c : KS!Returns(t, c) => settled \subseteq settled'
        /\ \A t, c, failed : KS!Raises(t, c, failed) => settled' = settled
    BY DEF KS!Returns, KS!Raises
  <2>2. \A t, c, acks, stage : KS!Drain(t, c, acks, stage) => settled' = settled
    BY DEF KS!Drain, KS!Same
  <2>3. \A t, c, acks : KS!SendNext(t, c, acks) => settled \subseteq settled'
    BY <2>1, <2>2 DEF KS!SendNext, KS!Same
  <2>4. \A t, c, acks, failed : KS!Fails(t, c, acks, failed) => settled' = settled
    BY <2>1 DEF KS!Fails, KS!Same
  <2>5. ASSUME NEW t \in Tasks, KS!Open(t)
       PROVE  settled \subseteq settled'
    BY <2>5, <2>1, <2>2, <2>3, <2>4 DEF KS!Open, KS!Same
  <2>6. ASSUME NEW t \in Tasks, NEW n \in 1..2, NEW batch \in BOOLEAN, KS!Write(t, n, batch)
       PROVE  settled \subseteq settled'
    BY <2>6, <2>1, <2>2, <2>3, <2>4 DEF KS!Write, KS!Same
  <2>7. ASSUME NEW t \in Tasks, NEW call \in {"flush", "close"}, KS!FlushOrClose(t, call)
       PROVE  settled \subseteq settled'
    BY <2>7, <2>1, <2>2, <2>3, <2>4 DEF KS!FlushOrClose, KS!Same
  <2>8. ASSUME NEW t \in Tasks, NEW call \in {"begin", "commit", "abort"}, KS!Transaction(t, call)
       PROVE  settled \subseteq settled'
    BY <2>8, <2>1, <2>2, <2>3, <2>4 DEF KS!Transaction, KS!Same
  <2>9. ASSUME NEW t \in Tasks, KS!SendReturns(t) \/ KS!SendFails(t)
       PROVE  settled \subseteq settled'
    BY <2>9, <2>1, <2>2, <2>3, <2>4 DEF KS!SendReturns, KS!SendFails, KS!Same
  <2>10. ASSUME NEW t \in Tasks, KS!Confirmed(t) \/ KS!SendAgain(t) \/ KS!DeliveryRaises(t)
       PROVE  settled \subseteq settled'
    BY <2>10, <2>1, <2>2, <2>3, <2>4 DEF KS!Confirmed, KS!SendAgain, KS!DeliveryRaises, KS!Same
  <2>11. ASSUME NEW t \in Tasks, KS!FlushReturns(t) \/ KS!BeginReturns(t)
       PROVE  settled \subseteq settled'
    BY <2>11, <2>1, <2>2, <2>3, <2>4 DEF KS!FlushReturns, KS!BeginReturns, KS!Same
  <2>12. ASSUME NEW t \in Tasks, KS!CommitReturns(t) \/ KS!CommitFails(t)
       PROVE  settled \subseteq settled'
    BY <2>12, <2>1, <2>2, <2>3, <2>4 DEF KS!CommitReturns, KS!CommitFails, KS!Same
  <2>13. ASSUME NEW t \in Tasks, KS!AbortReturns(t) \/ KS!CallFails(t)
       PROVE  settled \subseteq settled'
    BY <2>13, <2>1, <2>2, <2>3, <2>4 DEF KS!AbortReturns, KS!CallFails, KS!Same
  <2>14. ASSUME NEW r \in KS!Records, KS!Deliver(r) \/ KS!DeliveryFails(r)
       PROVE  settled \subseteq settled'
    BY <2>14, <2>1, <2>2, <2>3, <2>4 DEF KS!Deliver, KS!DeliveryFails, KS!Same
  <2>15. CASE UNCHANGED KS!vars
    BY <2>15 DEF KS!vars
  <2> QED
    BY <2>5, <2>6, <2>7, <2>8, <2>9, <2>10, <2>11, <2>12, <2>13, <2>14, <2>15 DEF KS!Next
<1>3. dropped \subseteq dropped'
  <2>1. ASSUME NEW t \in Tasks, KS!Open(t) PROVE dropped \subseteq dropped'
    BY <2>1 DEF KS!Open
  <2>2. ASSUME NEW t \in Tasks, NEW n \in 1..2, NEW batch \in BOOLEAN, KS!Write(t, n, batch)
        PROVE  dropped \subseteq dropped'
    BY <2>2 DEF KS!Write
  <2>3. ASSUME NEW t \in Tasks, NEW call \in {"flush", "close"}, KS!FlushOrClose(t, call)
        PROVE  dropped \subseteq dropped'
    BY <2>3 DEF KS!FlushOrClose
  <2>4. ASSUME NEW t \in Tasks, NEW call \in {"begin", "commit", "abort"}, KS!Transaction(t, call)
        PROVE  dropped \subseteq dropped'
    BY <2>4 DEF KS!Transaction
  <2>5. ASSUME NEW t \in Tasks,
               \/ KS!SendReturns(t) \/ KS!SendFails(t) \/ KS!Confirmed(t) \/ KS!SendAgain(t)
               \/ KS!DeliveryRaises(t) \/ KS!BeginReturns(t) \/ KS!CommitReturns(t)
               \/ KS!CommitFails(t) \/ KS!AbortReturns(t)
        PROVE  dropped \subseteq dropped'
    BY <2>5 DEF KS!SendReturns, KS!SendFails, KS!Confirmed, KS!SendAgain, KS!DeliveryRaises,
       KS!BeginReturns, KS!CommitReturns, KS!CommitFails, KS!AbortReturns
  <2>6. ASSUME NEW t \in Tasks, KS!FlushReturns(t) \/ KS!CallFails(t) PROVE dropped \subseteq dropped'
    BY <2>6 DEF KS!FlushReturns, KS!CallFails
  <2>7. ASSUME NEW r \in KS!Records, KS!Deliver(r) \/ KS!DeliveryFails(r) PROVE dropped \subseteq dropped'
    BY <2>7 DEF KS!Deliver, KS!DeliveryFails
  <2>8. CASE UNCHANGED KS!vars
    BY <2>8 DEF KS!vars
  <2> QED
    BY <2>1, <2>2, <2>3, <2>4, <2>5, <2>6, <2>7, <2>8 DEF KS!Next
<1>4. settled' \subseteq accepted' /\ settled' \subseteq ToSet(store') \cup dropped'
  BY DEF KsInv, KsBase, KsTypes, KsPlaces
<1>5. dropped' # {} => KS!Excused'
  BY DEF KsInv, KsDropped, KS!Excused
<1>6. KS!Durable = ToSet(store) /\ KS!Durable' = ToSet(store')
  BY KsSame DEF KS!Durable
<1> QED
  BY <1>1, <1>2, <1>3, <1>4, <1>5, <1>6 DEF KsContract!Step

\* KafkaSink keeps the contract of a sink, whatever the producer, the broker and the retries
\* do: what flush() or close() has answered for is in the topic, record by record, but for
\* the records that the comment of KafkaNoRowLost names, and an error takes back nothing
\* that was answered for. A failed commit or an overlapping call excuses no other record.
THEOREM KafkaSinkImplementsContract == ASSUME KsAssumptions PROVE KS!Spec => KsContract!Spec
<1>1. KS!Init => KsContract!Init
  <2> SUFFICES ASSUME KS!Init PROVE KsContract!Init
    OBVIOUS
  <2>1. /\ accepted = {} /\ settled = {} /\ store = <<>> /\ torn = FALSE /\ overlapped = FALSE
        /\ dropped = {}
    BY DEF KS!Init
  <2>2. KS!Durable = {} /\ ~KS!Excused
    BY <2>1, KsSame, KsEmpty DEF KS!Durable, KS!Excused
  <2> QED
    BY <2>1, <2>2 DEF KsContract!Init
<1>2. KsInv /\ KsInv' /\ [KS!Next]_KS!vars => [KsContract!Step]_KsContract!vars
  BY KsContractStep
<1> QED
  BY <1>1, <1>2, KsAlways, PTL DEF KS!Spec, KsContract!Spec

-----------------------------------------------------------------------------
(* S3Sink: its counter of uploaded records. The records that this run of the sink *)
(* has uploaded are a set U of their own: a file has each of its records once,    *)
(* none of them in U, and the records a call still has to write are in neither,   *)
(* so U grows by the length of a file. Without a failure the bucket holds U, or U *)
(* and the active file while its upload returns.                                  *)

S3Counted(U, n, rows, g, dur) ==
    /\ U \in SUBSET Nat /\ IsFiniteSet(U) /\ Cardinality(U) = n /\ U \subseteq dur
    /\ \A i, j \in DOMAIN rows : rows[i] = rows[j] => i = j
    /\ \A r \in ToSet(rows) : r \notin U
    /\ \A r \in U \cup ToSet(rows) : r <= g

S3Coming(U, rows, g, todo) ==
    /\ \A i, j \in DOMAIN todo : todo[i] = todo[j] => i = j
    /\ \A r \in ToSet(todo) : r <= g /\ r \notin U /\ r \notin ToSet(rows)

S3Exactly(U, c, rows, dur) ==
    \/ dur = U
    \/ c.stage = "put" /\ c.ran = "yes" /\ dur = U \cup ToSet(rows)

S3Count(U) ==
    /\ faults \in Nat /\ (faults = 0 => abandoned = {})
    /\ S3Counted(U, stats.uploaded, buffer.rows, given, S3!Durable)
    /\ \A t \in Tasks : S3Coming(U, buffer.rows, given, task[t].todo)
    /\ \A t \in Tasks : faults = 0 => S3Exactly(U, task[t], buffer.rows, S3!Durable)

S3CountGoal == \E U : S3Count(U)'

LEMMA S3OnlyCount ==
  ASSUME OneCaller, NEW t \in Tasks, NEW U, faults' \in Nat, faults' = 0 => abandoned' = {},
         S3Counted(U, stats'.uploaded, buffer'.rows, given', S3!Durable'),
         S3Coming(U, buffer'.rows, given', task'[t].todo),
         faults' = 0 => S3Exactly(U, task'[t], buffer'.rows, S3!Durable')
  PROVE  S3CountGoal
<1>1. \A u \in Tasks : u = t
  BY DEF OneCaller
<1>2. /\ \A u \in Tasks : S3Coming(U, buffer'.rows, given', task'[u].todo)
      /\ \A u \in Tasks : faults' = 0 => S3Exactly(U, task'[u], buffer'.rows, S3!Durable')
  BY <1>1
<1>3. S3Count(U)'
  BY <1>2 DEF S3Count, S3Counted, S3Coming, S3Exactly
<1> QED
  BY <1>3 DEF S3CountGoal

\* Nothing is left to write when a call has ended.
LEMMA S3NothingComing ==
  ASSUME NEW U, NEW rows, NEW g PROVE S3Coming(U, rows, g, <<>>)
BY DEF S3Coming, ToSet

LEMMA S3NothingWritten ==
  ASSUME NEW g PROVE S3Counted({}, 0, <<>>, g, S3!Durable)
<1>1. IsFiniteSet({}) /\ Cardinality({}) = 0
  BY FS_EmptySet
<1> QED
  BY <1>1 DEF S3Counted, ToSet

LEMMA S3PutExactly ==
  ASSUME store \in Seq(S3Object), NEW f \in S3File, S3!Put(f)
  PROVE  /\ S3!Exists(f.key) => S3!Durable' = S3!Durable
         /\ ~S3!Exists(f.key) => S3!Durable' = S3!Durable \cup ToSet(f.rows)
<1>1. ASSUME S3!Exists(f.key) PROVE S3!Durable' = S3!Durable
  BY <1>1 DEF S3!Put, S3!Durable
<1>2. ASSUME ~S3!Exists(f.key) PROVE S3!Durable' = S3!Durable \cup ToSet(f.rows)
  <2> DEFINE o == [key |-> f.key, rows |-> f.rows]
  <2>1. f.key \in S3Keys /\ f.rows \in Seq(Nat)
    BY DEF S3File
  <2>2. o \in S3Object /\ o.rows = f.rows
    <3> HIDE DEF S3Keys
    <3> QED
      BY <2>1 DEF S3Object
  <2>3. store' = Append(store, o)
    BY <1>2 DEF S3!Put
  <2> HIDE DEF o
  <2>4. /\ DOMAIN store' = DOMAIN store \cup {Len(store) + 1}
        /\ \A i \in DOMAIN store : store'[i] = store[i]
        /\ store'[Len(store) + 1] = o
    BY <2>2, <2>3
  <2>5. ASSUME NEW x \in S3!Durable' PROVE x \in S3!Durable \cup ToSet(f.rows)
    <3>1. PICK i \in DOMAIN store' : x \in S3!ToSet(store'[i].rows)
      BY <2>5 DEF S3!Durable
    <3>2. CASE i \in DOMAIN store
      BY <2>4, <3>1, <3>2 DEF S3!Durable
    <3>3. CASE i = Len(store) + 1
      BY <2>2, <2>4, <3>1, <3>3, S3SameSet
    <3> QED
      BY <2>4, <3>1, <3>2, <3>3
  <2>6. S3!Durable \subseteq S3!Durable' /\ ToSet(f.rows) \subseteq S3!Durable'
    BY <1>2, S3PutFacts
  <2> QED
    BY <2>5, <2>6
<1> QED
  BY <1>1, <1>2

LEMMA S3DurableFinite ==
  ASSUME store \in Seq(S3Object) PROVE IsFiniteSet(S3!Durable)
<1> DEFINE f == [i \in DOMAIN store |-> ToSet(store[i].rows)]
           parts == {f[i] : i \in DOMAIN store}
<1>1. IsFiniteSet(DOMAIN store)
  BY FS_Interval
<1>2. f \in Surjection(DOMAIN store, parts)
  BY DEF Surjection
<1>3. IsFiniteSet(parts)
  BY <1>1, <1>2, FS_Surjection
<1>4. \A T \in parts : IsFiniteSet(T)
  <2> SUFFICES ASSUME NEW i \in DOMAIN store PROVE IsFiniteSet(ToSet(store[i].rows))
    OBVIOUS
  <2>1. store[i].rows \in Seq(Nat)
    <3>1. store[i] \in S3Object
      OBVIOUS
    <3> QED
      BY <3>1 DEF S3Object
  <2> QED
    BY <2>1, RsLength
<1>5. S3!Durable = UNION parts
  BY S3SameSet DEF S3!Durable
<1> HIDE DEF parts
<1> QED
  BY <1>3, <1>4, <1>5, FS_UNION

\* What is known before a step.
LEMMA S3CountFacts ==
  ASSUME S3Inv, NEW U, S3Count(U), NEW t \in Tasks
  PROVE  /\ faults \in Nat /\ (faults = 0 => abandoned = {}) /\ given \in Nat
         /\ task[t] \in S3Call /\ task \in [Tasks -> S3Call] /\ task[t].todo \in Seq(Nat)
         /\ buffer \in S3File /\ buffer.rows \in Seq(Nat) /\ stats \in S3Stats
         /\ (buffer.state = "none" => buffer.rows = <<>>)
         /\ S3Counted(U, stats.uploaded, buffer.rows, given, S3!Durable)
         /\ S3Coming(U, buffer.rows, given, task[t].todo)
         /\ (faults = 0 => S3Exactly(U, task[t], buffer.rows, S3!Durable))
<1>1. /\ faults \in Nat /\ (faults = 0 => abandoned = {})
      /\ S3Counted(U, stats.uploaded, buffer.rows, given, S3!Durable)
      /\ S3Coming(U, buffer.rows, given, task[t].todo)
      /\ (faults = 0 => S3Exactly(U, task[t], buffer.rows, S3!Durable))
  BY DEF S3Count
<1>2. /\ given \in Nat /\ task \in [Tasks -> S3Call] /\ buffer \in S3File /\ stats \in S3Stats
  BY DEF S3Inv, S3Types
<1>3. buffer.state = "none" => buffer.rows = <<>>
  BY DEF S3Inv, S3Kept
<1>4. task[t].todo \in Seq(Nat) /\ buffer.rows \in Seq(Nat)
  BY <1>2 DEF S3Call, S3File
<1> QED
  BY <1>1, <1>2, <1>3, <1>4

\* A call ends, or fails: what was counted stays counted.
LEMMA S3CountEnd ==
  ASSUME OneCaller, S3Inv, NEW U, S3Count(U), NEW t \in Tasks, task' = [task EXCEPT ![t] = S3!Idle],
         buffer' = buffer, store' = store, given' = given, stats'.uploaded = stats.uploaded,
         faults' \in Nat, faults' = 0 => faults = 0 /\ abandoned' = abandoned,
         task[t].stage = "put" => task[t].ran # "yes" \/ faults' # 0
  PROVE  S3CountGoal
<1>1. S3!Durable' = S3!Durable
  BY S3SameStore
<1>2. task'[t] = S3!Idle
  BY S3CountFacts
<1>3. S3Coming(U, buffer'.rows, given', task'[t].todo)
  BY <1>2, S3IdleCall, S3NothingComing
<1>4. S3Counted(U, stats'.uploaded, buffer'.rows, given', S3!Durable')
  BY <1>1, S3CountFacts
<1>5. faults' = 0 => S3Exactly(U, task'[t], buffer'.rows, S3!Durable') /\ abandoned' = {}
  BY <1>1, S3CountFacts DEF S3Exactly
<1> QED
  BY <1>3, <1>4, <1>5, S3OnlyCount

\* write() and write_batch() begin with records that the sink has not seen.
LEMMA S3CountWrite ==
  ASSUME OneCaller, S3Inv, NEW U, S3Count(U), NEW t \in Tasks, NEW n \in 1..2, S3!Write(t, n)
  PROVE  S3CountGoal
<1> DEFINE own == (given + 1)..(given + n)
           todo == [i \in 1..n |-> given + i]
           c == [S3!Idle EXCEPT !.call = "write", !.stage = "write", !.own = own, !.todo = todo]
<1>1. /\ task' = [task EXCEPT ![t] = c] /\ given' = given + n /\ buffer' = buffer /\ store' = store
      /\ stats' = stats /\ faults' = faults /\ abandoned' = abandoned /\ task[t].call = "idle"
  BY DEF S3!Write, S3!Busy
<1>2. given \in Nat /\ task[t].stage # "put"
  BY <1>1, S3CountFacts DEF S3Inv, S3Calls, S3Progress
<1>3. /\ \A i, j \in DOMAIN todo : todo[i] = todo[j] => i = j
      /\ \A r \in ToSet(todo) : r > given /\ r <= given'
  <2>1. ToSet(todo) = {todo[i] : i \in 1..n}
    BY DEF ToSet
  <2> QED
    BY <1>1, <1>2, <2>1
<1> HIDE DEF own, todo
<1>4. c.todo = todo
  BY DEF S3!Idle
<1> HIDE DEF c
<1>5. task'[t].todo = todo
  BY <1>1, <1>4, S3CountFacts
<1>6. S3!Durable' = S3!Durable
  BY <1>1, S3SameStore
<1>7. \A r \in U \cup ToSet(buffer.rows) : r \in Nat /\ r <= given
  <2>1. ToSet(buffer.rows) \in SUBSET Nat
    BY S3CountFacts, RsLength
  <2>2. U \in SUBSET Nat /\ \A r \in U \cup ToSet(buffer.rows) : r <= given
    BY S3CountFacts DEF S3Counted
  <2> QED
    BY <2>1, <2>2
<1>8. \A r \in U \cup ToSet(buffer.rows) : r <= given'
  BY <1>1, <1>2, <1>7
<1>9. S3Counted(U, stats'.uploaded, buffer'.rows, given', S3!Durable')
  <2>1. S3Counted(U, stats.uploaded, buffer.rows, given, S3!Durable)
    BY S3CountFacts
  <2> QED
    BY <1>1, <1>6, <1>8, <2>1 DEF S3Counted
<1>10. S3Coming(U, buffer'.rows, given', todo)
  <2>1. ASSUME NEW r \in ToSet(todo) PROVE r \notin U \cup ToSet(buffer.rows)
    <3>1. r > given
      BY <1>3
    <3>2. r \in U \cup ToSet(buffer.rows) => r \in Nat /\ r <= given
      BY <1>7
    <3> QED
      BY <1>2, <3>1, <3>2
  <2> QED
    BY <1>1, <1>3, <2>1 DEF S3Coming
<1>11. faults' = 0 => S3Exactly(U, task'[t], buffer'.rows, S3!Durable')
  BY <1>1, <1>2, <1>6, S3CountFacts DEF S3Exactly
<1>12. faults' \in Nat /\ (faults' = 0 => abandoned' = {})
  BY <1>1, S3CountFacts
<1> QED
  BY <1>5, <1>9, <1>10, <1>11, <1>12, S3OnlyCount

\* An upload begins: nothing is counted yet.
LEMMA S3CountUpload ==
  ASSUME OneCaller, S3Inv, NEW U, S3Count(U), NEW t \in Tasks, task[t].stage # "put",
         NEW c, NEW f, S3!Upload(t, c, f), c \in S3Call, f \in S3File, store' = store, given' = given,
         stats' = stats, faults' = faults, abandoned' = abandoned,
         S3Counted(U, stats.uploaded, f.rows, given, S3!Durable), S3Coming(U, f.rows, given, c.todo)
  PROVE  S3CountGoal
<1> DEFINE d == [c EXCEPT !.stage = "put", !.ran = "no"]
           g == [f EXCEPT !.state = "closed"]
<1>1. task' = [task EXCEPT ![t] = d] /\ buffer' = g
  BY DEF S3!Upload
<1>2. d.todo = c.todo /\ d.ran = "no"
  BY DEF S3Call
<1>3. g.rows = f.rows
  BY S3ClosedFile
<1> HIDE DEF d, g
<1>4. task'[t] = d /\ S3!Durable' = S3!Durable
  BY <1>1, S3CountFacts, S3SameStore
<1>5. S3Exactly(U, task'[t], buffer'.rows, S3!Durable') \/ faults # 0
  BY <1>4, S3CountFacts DEF S3Exactly
<1>6. /\ S3Counted(U, stats'.uploaded, buffer'.rows, given', S3!Durable')
      /\ S3Coming(U, buffer'.rows, given', task'[t].todo)
  BY <1>1, <1>2, <1>3, <1>4
<1>7. faults' \in Nat /\ (faults' = 0 => abandoned' = {})
  BY S3CountFacts
<1> QED
  BY <1>5, <1>6, <1>7, S3OnlyCount

\* A record moves from the call to the active file.
LEMMA S3CountTaken ==
  ASSUME NEW U, NEW n, NEW g, NEW dur, NEW rows \in Seq(Nat), NEW todo \in Seq(Nat), todo # <<>>,
         S3Counted(U, n, rows, g, dur), S3Coming(U, rows, g, todo)
  PROVE  /\ S3Counted(U, n, Append(rows, Head(todo)), g, dur)
         /\ S3Coming(U, Append(rows, Head(todo)), g, Tail(todo))
<1> DEFINE r == Head(todo)
           more == Append(rows, r)
           rest == Tail(todo)
<1>1. /\ r \in Nat /\ rest \in Seq(Nat) /\ ToSet(todo) = ToSet(rest) \cup {r}
      /\ ToSet(more) = ToSet(rows) \cup {r} /\ more \in Seq(Nat)
  BY S3TailRows, S3AppendRows
<1>2. /\ DOMAIN more = 1..(Len(rows) + 1) /\ DOMAIN rows = 1..Len(rows) /\ Len(rows) \in Nat
      /\ \A i \in 1..Len(rows) : more[i] = rows[i]
      /\ more[Len(rows) + 1] = r
  BY <1>1
<1>3. /\ DOMAIN rest = 1..(Len(todo) - 1) /\ DOMAIN todo = 1..Len(todo) /\ Len(todo) \in Nat \ {0}
      /\ \A i \in 1..(Len(todo) - 1) : rest[i] = todo[i + 1]
      /\ r = todo[1]
  OBVIOUS
<1> HIDE DEF r, more, rest
<1>4. r \in ToSet(todo) /\ r <= g /\ r \notin U /\ r \notin ToSet(rows)
  BY <1>1 DEF S3Coming
<1>5. \A i, j \in DOMAIN more : more[i] = more[j] => i = j
  <2> SUFFICES ASSUME NEW i \in DOMAIN more, NEW j \in DOMAIN more, more[i] = more[j] PROVE i = j
    OBVIOUS
  <2>1. ASSUME NEW k \in DOMAIN more, k # Len(rows) + 1
        PROVE  k \in DOMAIN rows /\ more[k] = rows[k] /\ rows[k] # r
    <3>1. k \in 1..(Len(rows) + 1) /\ Len(rows) \in Nat
      BY <1>2
    <3>2. k \in 1..Len(rows)
      BY <2>1, <3>1
    <3>3. k \in DOMAIN rows /\ more[k] = rows[k]
      BY <1>2, <3>2
    <3> QED
      BY <1>4, <3>3 DEF ToSet
  <2>2. CASE i = Len(rows) + 1 \/ j = Len(rows) + 1
    BY <1>2, <2>1, <2>2
  <2>3. CASE i # Len(rows) + 1 /\ j # Len(rows) + 1
    BY <2>1, <2>3 DEF S3Counted
  <2> QED
    BY <2>2, <2>3
<1>6. S3Counted(U, n, more, g, dur)
  BY <1>1, <1>4, <1>5 DEF S3Counted
<1>7. \A i, j \in DOMAIN rest : rest[i] = rest[j] => i = j
  <2> SUFFICES ASSUME NEW i \in DOMAIN rest, NEW j \in DOMAIN rest, rest[i] = rest[j] PROVE i = j
    OBVIOUS
  <2> DEFINE n1 == Len(todo) - 1
  <2>0. i \in 1..n1 /\ j \in 1..n1 /\ Len(todo) \in Nat \ {0}
    BY <1>3
  <2>1. i + 1 \in DOMAIN todo /\ j + 1 \in DOMAIN todo /\ todo[i + 1] = todo[j + 1]
    <3>1. rest[i] = todo[i + 1] /\ rest[j] = todo[j + 1]
      BY <1>3, <2>0
    <3>2. i + 1 \in 1..Len(todo) /\ j + 1 \in 1..Len(todo)
      BY <2>0
    <3> QED
      BY <1>3, <3>1, <3>2
  <2>2. i + 1 = j + 1
    BY <2>1 DEF S3Coming
  <2> QED
    BY <1>3, <2>2
<1>8. r \notin ToSet(rest)
  <2> SUFFICES ASSUME NEW i \in DOMAIN rest, rest[i] = r PROVE FALSE
    BY DEF ToSet
  <2>1. i + 1 \in DOMAIN todo /\ 1 \in DOMAIN todo /\ todo[i + 1] = todo[1]
    BY <1>3
  <2>2. i + 1 = 1
    BY <2>1 DEF S3Coming
  <2> QED
    BY <1>3, <2>2
<1>9. S3Coming(U, more, g, rest)
  BY <1>1, <1>7, <1>8 DEF S3Coming
<1> QED
  BY <1>6, <1>9 DEF r, more, rest

\* write() goes on with the next record.
LEMMA S3CountWriteRecord ==
  ASSUME OneCaller, S3Inv, NEW U, S3Count(U), NEW t \in Tasks, S3!WriteRecord(t)
  PROVE  S3CountGoal
<1> DEFINE b == task[t]
           r == Head(b.todo)
           c == [b EXCEPT !.todo = Tail(b.todo)]
           opened == [state |-> "open", partition |-> S3!Partition(r),
                      key |-> S3!ObjectKey(S3!Partition(r)), rows |-> <<>>]
           file == IF buffer.state # "none" THEN buffer ELSE opened
           filled == [file EXCEPT !.rows = Append(file.rows, r)]
<1>1. b \in S3Call /\ b.stage = "write" /\ buffer \in S3File /\ b.todo \in Seq(Nat)
  BY S3CountFacts DEF S3!WriteRecord
<1>2. /\ store' = store /\ stats' = stats /\ given' = given /\ faults' = faults
      /\ abandoned' = abandoned
  BY DEF S3!WriteRecord
<1>3. \/ b.todo = <<>> /\ S3!Returns(t, b) /\ buffer' = buffer
      \/ b.todo # <<>> /\ S3!Upload(t, b, file)
      \/ b.todo # <<>> /\ S3!Raises(t) /\ buffer' = buffer
      \/ b.todo # <<>> /\ S3!Upload(t, c, filled)
      \/ b.todo # <<>> /\ buffer' = filled /\ task' = [task EXCEPT ![t] = c]
  BY DEF S3!WriteRecord
<1>4. /\ faults \in Nat /\ buffer.rows \in Seq(Nat) /\ (faults = 0 => abandoned = {})
      /\ S3Counted(U, stats.uploaded, buffer.rows, given, S3!Durable)
      /\ S3Coming(U, buffer.rows, given, b.todo)
      /\ (faults = 0 => S3!Durable = U)
  BY <1>1, S3CountFacts DEF S3Exactly
<1>5. CASE task' = [task EXCEPT ![t] = S3!Idle] /\ buffer' = buffer
  BY <1>1, <1>2, <1>4, <1>5, S3CountEnd
<1>6. ASSUME b.todo # <<>>
      PROVE  /\ file \in S3File /\ file.rows = buffer.rows
             /\ c \in S3Call /\ c.todo = Tail(b.todo) /\ c.stage = "write"
             /\ filled \in S3File /\ filled.rows = Append(buffer.rows, r)
  <2>1. r \in Nat
    BY <1>1, <1>6, S3TailRows
  <2>2. c \in S3Call /\ c.todo = Tail(b.todo) /\ c.stage = "write"
    BY <1>1, <1>6, S3TakenCall
  <2> HIDE DEF r, b, c
  <2>3. opened \in S3File /\ opened.rows = <<>>
    BY <2>1, S3OpenedFile DEF S3Inv
  <2> HIDE DEF opened
  <2>4. buffer.state = "none" => buffer.rows = <<>>
    BY DEF S3Inv, S3Kept
  <2>5. file \in S3File /\ file.rows = buffer.rows
    BY <1>1, <2>3, <2>4
  <2> HIDE DEF file
  <2> QED
    BY <2>1, <2>2, <2>5, S3FilledFile
<1> HIDE DEF r, c, opened, file, filled
<1>7. ASSUME b.todo # <<>>
      PROVE  S3Counted(U, stats.uploaded, filled.rows, given, S3!Durable)
             /\ S3Coming(U, filled.rows, given, c.todo)
  <2>1. /\ S3Counted(U, stats.uploaded, Append(buffer.rows, Head(b.todo)), given, S3!Durable)
        /\ S3Coming(U, Append(buffer.rows, Head(b.todo)), given, Tail(b.todo))
    BY <1>1, <1>4, <1>7, S3CountTaken
  <2> QED
    BY <1>6, <1>7, <2>1 DEF r
<1>8. CASE b.todo # <<>> /\ S3!Upload(t, b, file)
  <2>1. S3Counted(U, stats.uploaded, file.rows, given, S3!Durable) /\ S3Coming(U, file.rows, given, b.todo)
    BY <1>4, <1>6, <1>8
  <2> QED
    BY <1>1, <1>2, <1>6, <1>8, <2>1, S3CountUpload
<1>9. CASE b.todo # <<>> /\ S3!Upload(t, c, filled)
  BY <1>1, <1>2, <1>6, <1>7, <1>9, S3CountUpload
<1>10. CASE b.todo # <<>> /\ buffer' = filled /\ task' = [task EXCEPT ![t] = c]
  <2>1. task'[t] = c /\ S3!Durable' = S3!Durable
    BY <1>2, <1>10, S3CountFacts, S3SameStore
  <2>2. faults' = 0 => S3Exactly(U, task'[t], buffer'.rows, S3!Durable')
    BY <1>2, <1>4, <2>1 DEF S3Exactly
  <2>3. /\ S3Counted(U, stats'.uploaded, buffer'.rows, given', S3!Durable')
        /\ S3Coming(U, buffer'.rows, given', task'[t].todo)
    BY <1>2, <1>7, <1>10, <2>1
  <2> QED
    BY <1>2, <1>4, <2>2, <2>3, S3OnlyCount
<1> QED
  BY <1>3, <1>5, <1>8, <1>9, <1>10 DEF S3!Returns, S3!Raises

LEMMA S3CountFlushOrClose ==
  ASSUME OneCaller, S3Inv, NEW U, S3Count(U), NEW t \in Tasks, NEW call \in {"flush", "close"},
         S3!FlushOrClose(t, call)
  PROVE  S3CountGoal
<1>1. /\ store' = store /\ stats' = stats /\ given' = given /\ faults' = faults
      /\ abandoned' = abandoned /\ task[t].call = "idle"
  BY DEF S3!FlushOrClose, S3!Busy
<1>2. task[t].stage # "put" /\ accepted \subseteq Nat
  BY <1>1 DEF S3Inv, S3Types, S3Calls, S3Progress
<1>3. /\ faults \in Nat /\ (faults = 0 => abandoned = {}) /\ buffer \in S3File
      /\ S3Counted(U, stats.uploaded, buffer.rows, given, S3!Durable)
      /\ S3Coming(U, buffer.rows, given, task[t].todo)
      /\ (faults = 0 => S3Exactly(U, task[t], buffer.rows, S3!Durable))
  BY S3CountFacts
<1>4. CASE call = "flush"
  <2>1. task' = task /\ buffer' = buffer /\ S3!Durable' = S3!Durable
    BY <1>1, <1>4, S3SameStore DEF S3!FlushOrClose
  <2> QED
    BY <1>1, <1>3, <2>1, S3OnlyCount
<1>5. CASE call = "close" /\ buffer.state = "none"
  <2>1. task' = [task EXCEPT ![t] = S3!Idle] /\ buffer' = buffer
    BY <1>5 DEF S3!FlushOrClose, S3!Returns
  <2> QED
    BY <1>1, <1>2, <1>3, <2>1, S3CountEnd
<1>6. CASE call = "close" /\ buffer.state # "none"
  <2> DEFINE c == [S3!Idle EXCEPT !.call = "close", !.promise = accepted]
  <2>1. S3!Upload(t, c, buffer)
    BY <1>6 DEF S3!FlushOrClose
  <2>2. <<>> \in Seq(Nat)
    OBVIOUS
  <2>3. c \in S3Call /\ c.todo = <<>>
    BY <1>2, <2>2 DEF S3!Idle, S3Call
  <2> HIDE DEF c
  <2>4. S3Coming(U, buffer.rows, given, c.todo)
    BY <2>3, S3NothingComing
  <2> QED
    BY <1>1, <1>2, <1>3, <2>1, <2>3, <2>4, S3CountUpload
<1> QED
  BY <1>4, <1>5, <1>6

\* The bucket runs the upload: it stores a file whose key is free, and only that.
LEMMA S3CountRunPut ==
  ASSUME OneCaller, S3Inv, NEW U, S3Count(U), NEW t \in Tasks, S3!RunPut(t)
  PROVE  S3CountGoal
<1> DEFINE ran == IF S3!Exists(buffer.key) THEN "refused" ELSE "yes"
           d == [task[t] EXCEPT !.ran = ran]
<1>1. /\ task[t].stage = "put" /\ task[t].ran = "no" /\ S3!Put(buffer)
      /\ task' = [task EXCEPT ![t].ran = ran]
      /\ buffer' = buffer /\ stats' = stats /\ given' = given /\ faults' = faults
      /\ abandoned' = abandoned
  BY DEF S3!RunPut
<1>2. /\ faults \in Nat /\ (faults = 0 => abandoned = {}) /\ task[t] \in S3Call
      /\ task \in [Tasks -> S3Call] /\ buffer \in S3File
      /\ S3Counted(U, stats.uploaded, buffer.rows, given, S3!Durable)
      /\ S3Coming(U, buffer.rows, given, task[t].todo)
      /\ (faults = 0 => S3!Durable = U)
  BY <1>1, S3CountFacts DEF S3Exactly
<1>3. store \in Seq(S3Object)
  BY DEF S3Inv, S3Types
<1>4. /\ S3!Exists(buffer.key) => S3!Durable' = S3!Durable
      /\ ~S3!Exists(buffer.key) => S3!Durable' = S3!Durable \cup ToSet(buffer.rows)
  BY <1>1, <1>2, <1>3, S3PutExactly
<1>5. d.stage = "put" /\ d.ran = ran /\ d.todo = task[t].todo /\ task'[t] = d
  BY <1>1, <1>2 DEF S3Call
<1>6. ran # "yes" => S3!Durable' = S3!Durable
  BY <1>4
<1>7. S3!Durable \subseteq S3!Durable' /\ S3!Durable' \subseteq S3!Durable \cup ToSet(buffer.rows)
      /\ (S3!Durable' = S3!Durable \/ S3!Durable' = S3!Durable \cup ToSet(buffer.rows))
  BY <1>4
<1> HIDE DEF ran, d
<1>8. faults' = 0 => S3Exactly(U, task'[t], buffer'.rows, S3!Durable')
  BY <1>1, <1>2, <1>5, <1>6, <1>7 DEF S3Exactly
<1>9. S3Counted(U, stats'.uploaded, buffer'.rows, given', S3!Durable')
  BY <1>1, <1>2, <1>7 DEF S3Counted
<1>10. S3Coming(U, buffer'.rows, given', task'[t].todo)
  BY <1>1, <1>2, <1>5
<1> QED
  BY <1>1, <1>2, <1>8, <1>9, <1>10, S3OnlyCount

\* put_object() returns: the records of the file are counted, each of them once.
LEMMA S3CountPutReturns ==
  ASSUME OneCaller, S3Inv, NEW U, S3Count(U), NEW t \in Tasks, S3!PutReturns(t)
  PROVE  S3CountGoal
<1> DEFINE rows == buffer.rows
           V == U \cup ToSet(rows)
<1>1. /\ task[t].stage = "put" /\ task[t].ran = "yes" /\ buffer' = S3!NoFile
      /\ store' = store /\ given' = given /\ abandoned' = abandoned /\ faults' = faults
      /\ stats' = [stats EXCEPT !.file_index = stats.file_index + 1,
                                !.uploaded = stats.uploaded + Len(rows),
                                !.last_error = FALSE]
      /\ \/ task' = [task EXCEPT ![t] = S3!Idle]
         \/ task' = [task EXCEPT ![t].stage = "write"]
  BY DEF S3!PutReturns, S3!Returns
<1>2. /\ faults \in Nat /\ (faults = 0 => abandoned = {}) /\ task[t] \in S3Call
      /\ task \in [Tasks -> S3Call] /\ rows \in Seq(Nat) /\ stats \in S3Stats
      /\ S3Counted(U, stats.uploaded, rows, given, S3!Durable)
      /\ S3Coming(U, rows, given, task[t].todo)
      /\ (faults = 0 => S3Exactly(U, task[t], rows, S3!Durable))
  BY S3CountFacts
<1>3. ToSet(rows) \subseteq S3!Durable
  BY <1>1 DEF S3Inv, S3Calls, S3Progress
<1>4. stats'.uploaded = stats.uploaded + Len(rows) /\ buffer'.rows = <<>> /\ S3!Durable' = S3!Durable
  BY <1>1, <1>2, S3NoFile, S3SameStore DEF S3Stats
<1>5. task'[t].todo = <<>> \/ task'[t].todo = task[t].todo
  <2>1. CASE task' = [task EXCEPT ![t] = S3!Idle]
    BY <1>2, <2>1, S3IdleCall
  <2>2. CASE task' = [task EXCEPT ![t].stage = "write"]
    BY <1>2, <2>2 DEF S3Call
  <2> QED
    BY <1>1, <2>1, <2>2
<1> HIDE DEF rows
<1>6. IsFiniteSet(ToSet(rows)) /\ ToSet(rows) \in SUBSET Nat /\ Cardinality(ToSet(rows)) = Len(rows)
  <2>1. \A i, j \in DOMAIN rows : rows[i] = rows[j] => i = j
    BY <1>2 DEF S3Counted
  <2>2. DOMAIN rows = 1..Len(rows) /\ Len(rows) \in Nat
    BY <1>2
  <2>3. \A i, j \in 1..Len(rows) : i < j => rows[i] # rows[j]
    BY <2>1, <2>2
  <2> QED
    BY <1>2, <2>3, RsLength
<1>7. /\ U \in SUBSET Nat /\ IsFiniteSet(U) /\ Cardinality(U) = stats.uploaded /\ U \subseteq S3!Durable
      /\ U \cap ToSet(rows) = {}
      /\ \A r \in U \cup ToSet(rows) : r <= given
  BY <1>2 DEF S3Counted
<1>8. IsFiniteSet(V) /\ Cardinality(V) = stats'.uploaded
  <2>1. /\ IsFiniteSet(V)
        /\ Cardinality(V) = Cardinality(U) + Cardinality(ToSet(rows)) - Cardinality(U \cap ToSet(rows))
    BY <1>6, <1>7, FS_Union
  <2>2. Cardinality({}) = 0 /\ Cardinality(U) \in Nat /\ Len(rows) \in Nat
    BY <1>2, <1>7, FS_EmptySet, FS_CardinalityType
  <2>3. Cardinality(U \cap ToSet(rows)) = 0
    BY <1>7, <2>2
  <2> DEFINE n == Cardinality(U)
             both == Cardinality(U \cap ToSet(rows))
             k == Cardinality(V)
  <2>4. k = n + Len(rows) - both /\ both = 0 /\ n \in Nat /\ Len(rows) \in Nat
    BY <1>6, <2>1, <2>2, <2>3
  <2> HIDE DEF n, both, k
  <2>5. k = n + Len(rows)
    BY <2>4
  <2> QED
    BY <1>4, <1>7, <2>1, <2>5 DEF n, k
<1>9. S3Counted(V, stats'.uploaded, <<>>, given, S3!Durable)
  <2>1. ToSet(<<>>) = {} /\ DOMAIN <<>> = {}
    BY DEF ToSet
  <2> QED
    BY <1>3, <1>6, <1>7, <1>8, <2>1 DEF S3Counted
<1>10. S3Coming(V, <<>>, given, task'[t].todo)
  <2>1. S3Coming(V, <<>>, given, task[t].todo)
    BY <1>2 DEF S3Coming, ToSet
  <2> QED
    BY <1>5, <2>1, S3NothingComing
<1>11. faults = 0 => S3Exactly(V, task'[t], <<>>, S3!Durable)
  BY <1>2, <1>3 DEF S3Exactly
<1> HIDE DEF V
<1> QED
  BY <1>1, <1>2, <1>4, <1>9, <1>10, <1>11, S3OnlyCount

LEMMA S3CountPutFails ==
  ASSUME OneCaller, S3Inv, NEW U, S3Count(U), NEW t \in Tasks, S3!PutFails(t)
  PROVE  S3CountGoal
<1>1. /\ task' = [task EXCEPT ![t] = S3!Idle] /\ buffer' = buffer /\ store' = store /\ given' = given
      /\ stats' = [stats EXCEPT !.last_error = TRUE]
      /\ \/ task[t].ran = "refused" /\ faults' = faults /\ abandoned' = abandoned
         \/ faults' = faults + 1
  BY DEF S3!PutFails, S3!Raises
<1>2. stats'.uploaded = stats.uploaded
  BY <1>1, S3CountFacts DEF S3Stats
<1>3. /\ faults' \in Nat /\ (faults' = 0 => faults = 0 /\ abandoned' = abandoned)
      /\ (task[t].stage = "put" => task[t].ran # "yes" \/ faults' # 0)
  BY <1>1, S3CountFacts
<1> QED
  BY <1>1, <1>2, <1>3, S3CountEnd

LEMMA S3CountRunLate ==
  ASSUME OneCaller, S3Inv, NEW U, S3Count(U), NEW f \in abandoned, S3!RunLate(f)
  PROVE  S3CountGoal
<1>1. /\ S3!Put(f) /\ task' = task /\ buffer' = buffer /\ stats' = stats /\ given' = given
      /\ faults' = faults
  BY DEF S3!RunLate
<1>2. f \in S3File /\ store \in Seq(S3Object)
  BY DEF S3Inv, S3Types
<1>3. S3!Durable \subseteq S3!Durable'
  BY <1>1, <1>2, S3PutExactly
<1>4. faults \in Nat /\ faults # 0
  BY DEF S3Count
<1>5. S3Counted(U, stats.uploaded, buffer.rows, given, S3!Durable')
  BY <1>3 DEF S3Count, S3Counted
<1>6. S3Count(U)'
  BY <1>1, <1>4, <1>5 DEF S3Count, S3Counted, S3Coming
<1> QED
  BY <1>6 DEF S3CountGoal

\* The next process has uploaded nothing yet.
LEMMA S3CountCrash ==
  ASSUME OneCaller, S3Inv, NEW U, S3Count(U), S3!Crash
  PROVE  S3CountGoal
<1>1. /\ task' = [t \in Tasks |-> S3!Idle] /\ buffer' = S3!NoFile /\ given' = 0 /\ store' = store
      /\ faults' = faults + 1
      /\ \E run : stats' = S3!Started(run, stats.restarts + 1)
  BY DEF S3!Crash
<1>2. faults \in Nat /\ faults' \in Nat /\ faults' # 0
  BY <1>1 DEF S3Count
<1>3. stats'.uploaded = 0 /\ buffer'.rows = <<>> /\ S3!Durable' = S3!Durable
  BY <1>1, S3NoFile, S3SameStore DEF S3!Started
<1>4. S3Counted({}, stats'.uploaded, buffer'.rows, given', S3!Durable')
  BY <1>3, S3NothingWritten
<1>5. \A t \in Tasks : S3Coming({}, buffer'.rows, given', task'[t].todo)
  BY <1>1, S3IdleCall, S3NothingComing
<1>6. S3Count({})'
  BY <1>2, <1>4, <1>5 DEF S3Count, S3Counted, S3Coming
<1> QED
  BY <1>6 DEF S3CountGoal

LEMMA S3CountStep ==
  ASSUME OneCaller, S3Inv, \E U : S3Count(U), [S3!Next]_S3!vars PROVE S3CountGoal
<1>1. PICK U : S3Count(U)
  OBVIOUS
<1>2. CASE UNCHANGED S3!vars
  <2>1. /\ task' = task /\ buffer' = buffer /\ store' = store /\ stats' = stats /\ given' = given
        /\ faults' = faults /\ abandoned' = abandoned
    BY <1>2 DEF S3!vars
  <2>2. S3!Durable' = S3!Durable
    BY <2>1, S3SameStore
  <2>3. S3Count(U)'
    BY <1>1, <2>1, <2>2 DEF S3Count, S3Counted, S3Coming, S3Exactly
  <2> QED
    BY <2>3 DEF S3CountGoal
<1> QED
  BY <1>1, <1>2, S3CountWrite, S3CountFlushOrClose, S3CountWriteRecord, S3CountRunPut,
     S3CountPutReturns, S3CountPutFails, S3CountRunLate, S3CountCrash DEF S3!Next

LEMMA S3CountInit == S3!Init => \E U : S3Count(U)
<1> SUFFICES ASSUME S3!Init PROVE \E U : S3Count(U)
  OBVIOUS
<1>1. /\ task = [t \in Tasks |-> S3!Idle] /\ buffer = S3!NoFile /\ store = <<>>
      /\ stats = S3!Started(1, 0) /\ given = 0 /\ faults = 0 /\ abandoned = {}
  BY DEF S3!Init
<1>2. stats.uploaded = 0 /\ buffer.rows = <<>> /\ S3!Durable = {}
  BY <1>1, S3NoFile DEF S3!Started, S3!Durable
<1>3. S3Counted({}, stats.uploaded, buffer.rows, given, S3!Durable)
  BY <1>2, S3NothingWritten
<1>4. \A t \in Tasks : S3Coming({}, buffer.rows, given, task[t].todo)
  BY <1>1, S3IdleCall, S3NothingComing
<1>5. S3Count({})
  BY <1>1, <1>2, <1>3, <1>4 DEF S3Count, S3Exactly
<1> QED
  BY <1>5

\* metrics_snapshot() never counts more uploaded records than the bucket holds, and counts
\* exactly those while no upload and no process has failed, save for an upload that has
\* run and has not returned.
THEOREM S3ReportIsTrue == ASSUME OneCaller, Tasks # {} PROVE S3!Spec => []S3!ReportIsTrue
<1>1. S3!Spec => []S3Inv
  BY S3Invariance
<1>2. S3!Init => \E U : S3Count(U)
  BY S3CountInit
<1>3. S3Inv /\ (\E U : S3Count(U)) /\ [S3!Next]_S3!vars => (\E U : S3Count(U))'
  BY S3CountStep DEF S3CountGoal
<1>4. S3Inv /\ (\E U : S3Count(U)) => S3!ReportIsTrue
  <2> SUFFICES ASSUME S3Inv, NEW U, S3Count(U) PROVE S3!ReportIsTrue
    OBVIOUS
  <2>1. PICK t \in Tasks : TRUE
    OBVIOUS
  <2>2. /\ Cardinality(U) = stats.uploaded /\ U \subseteq S3!Durable
        /\ (faults = 0 => S3Exactly(U, task[t], buffer.rows, S3!Durable))
    BY S3CountFacts DEF S3Counted
  <2>3. IsFiniteSet(S3!Durable)
    BY S3DurableFinite DEF S3Inv, S3Types
  <2>4. Cardinality(U) <= Cardinality(S3!Durable)
    BY <2>2, <2>3, FS_Subset
  <2>5. faults = 0 => Cardinality(U) = Cardinality(S3!Durable) \/ task[t].ran = "yes"
    BY <2>2 DEF S3Exactly
  <2>6. S3!Cardinality(S3!Durable) = Cardinality(S3!Durable)
    BY DEF S3!Cardinality, Cardinality
  <2>7. S3!metrics_snapshot.uploaded_record_count = stats.uploaded
    BY DEF S3!metrics_snapshot
  <2> QED
    BY <2>2, <2>4, <2>5, <2>6, <2>7 DEF S3!ReportIsTrue
<1> QED
  BY <1>1, <1>2, <1>3, <1>4, PTL DEF S3!Spec
=============================================================================
