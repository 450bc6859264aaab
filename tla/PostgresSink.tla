----------------------------- MODULE PostgresSink -----------------------------
(***************************************************************************)
(* PostgresSink (postgres/sinks): rows are buffered, a full buffer is      *)
(* flushed in one transaction with retries, a rejected buffer goes to the  *)
(* poison sink, and close() flushes what is left.  Connections come from   *)
(* the sink's own pool, or are the one connection of a sink without pool.  *)
(*                                                                         *)
(* Tasks are the callers.  They share the buffer and the pool; a step runs *)
(* from one await to the next.  deliver() is RedisPostgresRuntime's: write,*)
(* flush, then acknowledge.                                                *)
(***************************************************************************)
EXTENDS Integers, Sequences, FiniteSets, SequencesExt

CONSTANTS
    Tasks,          \* callers of the sink
    End,            \* the records to write are 1..End
    Rejected,       \* rows the database rejects with a classified SQLSTATE
    Misfit,         \* rows without the conflict key: they cannot be aligned to
                    \* the target columns, though the database would take them
    Configs,        \* the configurations to consider
    MaxAttempts,    \* max_attempts of the retry policy
    MaxFaults       \* bound on failed calls

Rows == 1..End
Methods == {"write", "deliver", "flush", "close"}

\* The callers and the methods they use; batch_size; pool_size;
\* write_safety_policy = align_to_target; insert_mode = "copy" (never retried);
\* whether there is a poison sink; pool_health_check; pool_acquire_timeout_s # None.
Config == [callers : SUBSET Tasks, methods : SUBSET Methods,
           batch_size : Nat \ {0}, pool_size : Nat \ {0}, align : BOOLEAN,
           copy : BOOLEAN, poison_sink : BOOLEAN, health_check : BOOLEAN, timeout : BOOLEAN]

\* Callers overlap only on a sink with a pool.
ASSUME SinkAssumption ==
    /\ IsFiniteSet(Tasks)
    /\ End \in Nat
    /\ Rejected \subseteq Rows /\ Misfit \subseteq Rows
    /\ MaxAttempts \in Nat \ {0} /\ MaxFaults \in Nat
    /\ Configs \subseteq Config
    /\ \A k \in Configs : k.pool_size = 1 => Cardinality(k.callers) = 1

VARIABLES
    config,
    \* the sink
    buffer,         \* _buffer
    cached,         \* _target_columns_cache is not None
    single,         \* _conn is not None
    idle,           \* connections in _write_pool
    open,           \* _write_pool_open_connections
    closed,         \* close() has ended
    \* each caller
    pc,             \* where it is
    op,             \* the method it called
    todo,           \* rows of its call not yet appended
    mine,           \* rows of its call
    snap,           \* rows its flush or its poison write took from the buffer
    attempt,        \* attempts its flush has made
    then,           \* what follows once its connection is discarded
    \* outside
    table,          \* rows committed to the target table
    dlq,            \* rows the poison sink took
    given,          \* records handed to the sink so far
    faults,
    \* history
    appended,       \* rows that entered the buffer
    told,           \* rows of calls that raised
    acked,          \* records deliver() acknowledged
    promised,       \* rows appended when a flush() or close() last returned
    overlapped      \* two calls were in progress at the same time

poolVars == <<single, idle, open>>
taskVars == <<pc, op, todo, mine, snap, attempt, then>>
worldVars == <<table, dlq, given, faults>>
history == <<appended, told, acked, promised, overlapped>>
vars == <<config, buffer, cached, closed, poolVars, taskVars, worldVars, history>>

Pooled == config.pool_size > 1

Goto(t, where) == pc' = [pc EXCEPT ![t] = where]

-----------------------------------------------------------------------------
(* Calls, and how they end.                                                *)

Busy(t) == pc[t] # "idle"

\* A caller enters method m with the next n records.  The sink is closed when
\* no other call is in progress, and no call follows.
Call(t, m, n) ==
    /\ ~Busy(t) /\ ~closed /\ t \in config.callers /\ m \in config.methods
    /\ \A u \in Tasks : op[u] # "close" /\ (m = "close" => ~Busy(u))
    /\ given + n <= End
    /\ given' = given + n
    /\ Goto(t, "start")
    /\ op' = [op EXCEPT ![t] = m]
    /\ todo' = [todo EXCEPT ![t] = [i \in 1..n |-> given + i]]
    /\ mine' = [mine EXCEPT ![t] = given + 1 .. given + n]
    /\ overlapped' = (overlapped \/ \E u \in Tasks : Busy(u))
    /\ UNCHANGED <<buffer, cached, closed, poolVars, snap, attempt, then, table, dlq, faults,
                   appended, told, acked, promised>>

\* The call of t returns (ok) or raises.
Leave(t, ok) ==
    /\ Goto(t, "idle")
    /\ op' = [op EXCEPT ![t] = "none"]
    /\ todo' = [todo EXCEPT ![t] = <<>>]
    /\ mine' = [mine EXCEPT ![t] = {}]
    /\ snap' = [snap EXCEPT ![t] = <<>>]
    /\ attempt' = [attempt EXCEPT ![t] = 0]
    /\ then' = [then EXCEPT ![t] = "none"]
    /\ told' = IF ok THEN told ELSE told \cup mine[t]

\* discard_buffer_indexes({0, ..., n-1}) and clear_buffer_prefix(n)
Without(n, buf) == SubSeq(buf, n + 1, Len(buf))

\* flush() copies the buffer buf and prepares its batches: the target columns
\* are loaded unless they are cached.
BeginFlush(t, m, rest, buf) ==
    /\ Goto(t, IF config.align /\ ~cached' THEN "prepare" ELSE "acquire")
    /\ op' = [op EXCEPT ![t] = m]
    /\ todo' = [todo EXCEPT ![t] = rest]
    /\ snap' = [snap EXCEPT ![t] = buf]
    /\ attempt' = [attempt EXCEPT ![t] = 1]
    /\ then' = [then EXCEPT ![t] = "none"]
    /\ UNCHANGED <<mine, told>>

\* A call of method m whose flushes are done leaves the buffer buf.
Finish(t, m, buf) ==
    /\ buffer' = buf
    /\ Leave(t, TRUE)
    /\ acked' = IF m = "deliver_flush" THEN acked \cup mine[t] ELSE acked
    /\ promised' = IF m \in {"flush", "close"} THEN appended ELSE promised
    /\ closed' = (m = "close")

\* flush() as called by method m, on the buffer buf.
FlushNow(t, m, buf) ==
    \/ buf = <<>> /\ Finish(t, m, buf)
    \/ /\ buf # <<>>
       /\ buffer' = buf
       /\ BeginFlush(t, m, <<>>, buf)
       /\ UNCHANGED <<closed, acked, promised>>

\* Mutant: deliver() acknowledges what it wrote before it is flushed.
WriteDoneAcks(t, m, buf) ==
    \/ m = "write" /\ Finish(t, m, buf)
    \/ m = "deliver" /\ Finish(t, "deliver_flush", buf)

\* The write of method m is over: write() returns, deliver() flushes.
WriteDone(t, m, buf) ==
    \/ m = "write" /\ Finish(t, m, buf)
    \/ m = "deliver" /\ FlushNow(t, "deliver_flush", buf)

\* _enqueue_row() for the rows of s, as far as the one that fills the buffer.
EnqueueRows(t, m, s, buf) ==
    LET room == IF config.batch_size > Len(buf) THEN config.batch_size - Len(buf) ELSE 1
        n    == IF room < Len(s) THEN room ELSE Len(s)
        full == buf \o SubSeq(s, 1, n)
    IN  /\ appended' = appended \cup {s[i] : i \in 1..n}
        /\ \/ /\ Len(full) >= config.batch_size
              /\ buffer' = full
              /\ BeginFlush(t, m, Without(n, s), full)
              /\ UNCHANGED <<closed, acked, promised>>
           \/ /\ Len(full) < config.batch_size
              /\ WriteDone(t, m, full)

\* A flush of t returned and left the buffer buf.
FlushReturns(t, buf) ==
    \/ /\ todo[t] # <<>>
       /\ EnqueueRows(t, op[t], todo[t], buf)
    \/ /\ todo[t] = <<>> /\ op[t] \in {"write", "deliver"}
       /\ WriteDone(t, op[t], buf)
       /\ UNCHANGED appended
    \/ /\ op[t] \in {"deliver_flush", "flush", "close"}
       /\ Finish(t, op[t], buf)
       /\ UNCHANGED appended

\* Mutant: a failed buffer is always dropped.
DropsBufferAlways(known) == TRUE

\* With a one-row batch and no poison sink a classified rejection is left to
\* the caller's policy.
DropsBuffer(known) == ~config.poison_sink /\ config.batch_size = 1 /\ known

\* A flush of t raised.  A write or close() first hands the buffer to the
\* poison sink; flush() does not.
FlushRaises(t, known) ==
    LET inWrite == op[t] \in {"write", "deliver"}
        routes  == (inWrite \/ op[t] = "close") /\ config.poison_sink /\ buffer # <<>>
    IN  /\ \/ /\ routes
              /\ Goto(t, "poison")
              /\ snap' = [snap EXCEPT ![t] = buffer]
              /\ then' = [then EXCEPT ![t] = "none"]
              /\ UNCHANGED <<buffer, closed, op, todo, mine, attempt, told>>
           \/ /\ ~routes
              /\ buffer' = IF inWrite /\ DropsBuffer(known) THEN <<>> ELSE buffer
              /\ closed' = (op[t] = "close")
              /\ Leave(t, FALSE)
        /\ UNCHANGED <<appended, acked, promised>>

\* close() closes every connection whatever its flush did.
Teardown ==
    IF closed' THEN single' = FALSE /\ idle' = 0 /\ open' = 0
               ELSE UNCHANGED poolVars

\* write(), write_batch() or deliver() begin: rows are aligned to the target
\* columns, loaded on the shared connection unless cached, and appended.  A
\* row that does not fit raises before any row is appended.
Begin(t) ==
    /\ pc[t] = "start" /\ op[t] \in {"write", "deliver"}
    /\ cached' = (cached \/ config.align)
    /\ single' = (single \/ (config.align /\ ~cached))
    /\ \/ /\ config.align /\ mine[t] \cap Misfit # {}
          /\ Leave(t, FALSE)
          /\ UNCHANGED <<buffer, closed, appended, acked, promised>>
       \/ /\ config.align => mine[t] \cap Misfit = {}
          /\ EnqueueRows(t, op[t], todo[t], buffer)
    /\ UNCHANGED <<idle, open, worldVars, overlapped>>

\* flush() or close() begin.
BeginBare(t) ==
    /\ pc[t] = "start" /\ op[t] \in {"flush", "close"}
    /\ UNCHANGED cached
    /\ FlushNow(t, op[t], buffer)
    /\ Teardown
    /\ UNCHANGED <<worldVars, appended, overlapped>>

\* The target columns are loaded within flush().
Prepare(t) ==
    /\ pc[t] = "prepare"
    /\ cached' = TRUE /\ single' = TRUE
    /\ Goto(t, "acquire")
    /\ UNCHANGED <<buffer, closed, idle, open, op, todo, mine, snap, attempt, then,
                   worldVars, history>>

\* Loading the target columns fails: write() raises as it is, flush() wraps it.
ColumnsFail(t) ==
    /\ faults < MaxFaults /\ faults' = faults + 1
    /\ \/ /\ pc[t] = "start" /\ op[t] \in {"write", "deliver"}
          /\ config.align /\ ~cached
          /\ Leave(t, FALSE)
          /\ UNCHANGED <<buffer, closed, appended, acked, promised>>
       \/ pc[t] = "prepare" /\ FlushRaises(t, FALSE)
    /\ Teardown
    /\ UNCHANGED <<cached, table, dlq, given, overlapped>>

\* The schema adapter changed the table: invalidate_target_columns_cache().
Invalidate ==
    /\ cached /\ faults < MaxFaults /\ faults' = faults + 1
    /\ cached' = FALSE
    /\ UNCHANGED <<buffer, closed, poolVars, taskVars, table, dlq, given, history>>

-----------------------------------------------------------------------------
(* Connections: acquire_write_conn(), release_write_conn().                *)

\* Mutant: the pool may grow one beyond its size.
HasRoomOffByOne == open <= config.pool_size

HasRoom == open < config.pool_size

\* Up to the first await: an idle connection, a new one, or a wait.
Acquire(t) ==
    /\ pc[t] = "acquire"
    /\ \/ /\ ~Pooled
          /\ Goto(t, IF single THEN "execute" ELSE "connect")
          /\ UNCHANGED <<idle, open>>
       \/ /\ Pooled /\ idle > 0
          /\ idle' = idle - 1
          /\ Goto(t, IF config.health_check THEN "check" ELSE "execute")
          /\ UNCHANGED open
       \/ /\ Pooled /\ idle = 0 /\ HasRoom
          /\ open' = open + 1
          /\ Goto(t, "connect")
          /\ UNCHANGED idle
       \/ /\ Pooled /\ idle = 0 /\ ~HasRoom
          /\ Goto(t, "wait")
          /\ UNCHANGED <<idle, open>>
    /\ UNCHANGED <<buffer, cached, closed, single, op, todo, mine, snap, attempt, then,
                   worldVars, history>>

\* A connection was put back for a waiting task.
Wake(t) ==
    /\ pc[t] = "wait" /\ idle > 0
    /\ idle' = idle - 1
    /\ Goto(t, IF config.health_check THEN "check" ELSE "execute")
    /\ UNCHANGED <<buffer, cached, closed, single, open, op, todo, mine, snap, attempt,
                   then, worldVars, history>>

Connected(t) ==
    /\ pc[t] = "connect"
    /\ single' = (single \/ ~Pooled)
    /\ Goto(t, "execute")
    /\ UNCHANGED <<buffer, cached, closed, idle, open, op, todo, mine, snap, attempt,
                   then, worldVars, history>>

\* The health check passes.
Healthy(t) ==
    /\ pc[t] = "check"
    /\ Goto(t, "execute")
    /\ UNCHANGED <<buffer, cached, closed, poolVars, op, todo, mine, snap, attempt, then,
                   worldVars, history>>

Unhealthy(t) ==
    /\ pc[t] = "check"
    /\ faults < MaxFaults /\ faults' = faults + 1
    /\ Goto(t, "discard")
    /\ then' = [then EXCEPT ![t] = "acquire"]
    /\ UNCHANGED <<buffer, cached, closed, poolVars, op, todo, mine, snap, attempt,
                   table, dlq, given, history>>

\* Mutant: one attempt too many.
MayRetryOnceMore(t) == ~config.copy /\ attempt[t] <= MaxAttempts

\* retry_async() tries a retryable error again; COPY is tried once.
MayRetry(t) == ~config.copy /\ attempt[t] < MaxAttempts

\* No connection: the attempt is repeated or the flush raises.
NoConnection(t) ==
    \/ /\ MayRetry(t)
       /\ Goto(t, "acquire")
       /\ attempt' = [attempt EXCEPT ![t] = @ + 1]
       /\ UNCHANGED <<buffer, closed, op, todo, mine, snap, then, appended, told, acked,
                      promised>>
    \/ FlushRaises(t, FALSE)

ConnectFails(t) ==
    /\ pc[t] = "connect"
    /\ faults < MaxFaults /\ faults' = faults + 1
    /\ NoConnection(t)
    /\ IF closed' THEN Teardown
                  ELSE /\ open' = IF Pooled /\ open > 0 THEN open - 1 ELSE open
                       /\ UNCHANGED <<single, idle>>
    /\ UNCHANGED <<cached, table, dlq, given, overlapped>>

\* Mutant: a waiting task is never timed out.
TimeoutNever(t) == FALSE /\ UNCHANGED vars

\* pool_acquire_timeout_s passes.
Timeout(t) ==
    /\ pc[t] = "wait" /\ config.timeout
    /\ NoConnection(t)
    /\ Teardown
    /\ UNCHANGED <<cached, worldVars, overlapped>>

\* A connection that saw an error is closed and gives up its slot.
Discard(t) ==
    /\ pc[t] = "discard"
    /\ \/ /\ then[t] = "acquire"
          /\ Goto(t, "acquire")
          /\ then' = [then EXCEPT ![t] = "none"]
          /\ UNCHANGED <<buffer, closed, op, todo, mine, snap, attempt, appended, told, acked,
                         promised>>
       \/ then[t] \in {"known", "unknown"} /\ FlushRaises(t, then[t] = "known")
    /\ IF closed' THEN Teardown
                  ELSE /\ open' = IF Pooled /\ open > 0 THEN open - 1 ELSE open
                       /\ single' = (single /\ Pooled)
                       /\ UNCHANGED idle
    /\ UNCHANGED <<cached, worldVars, overlapped>>

-----------------------------------------------------------------------------
(* The transaction of a flush, and the poison sink.                        *)

\* All rows of the flush are committed, the connection goes back, and the
\* rows leave the buffer.
Commit(t) ==
    /\ pc[t] = "execute"
    /\ ToSet(snap[t]) \cap Rejected = {}
    /\ table' = table \cup ToSet(snap[t])
    /\ UNCHANGED cached
    /\ FlushReturns(t, Without(Len(snap[t]), buffer))
    /\ IF closed' THEN Teardown
                  ELSE /\ idle' = IF Pooled THEN idle + 1 ELSE idle
                       /\ UNCHANGED <<single, open>>
    /\ UNCHANGED <<dlq, given, faults, overlapped>>

\* The database rejects a row: nothing is written.
Reject(t) ==
    /\ pc[t] = "execute"
    /\ ToSet(snap[t]) \cap Rejected # {}
    /\ Goto(t, "discard")
    /\ then' = [then EXCEPT ![t] = "known"]
    /\ UNCHANGED <<buffer, cached, closed, poolVars, op, todo, mine, snap, attempt,
                   worldVars, history>>

\* The connection breaks, before the commit or after it.
ExecuteFails(t) ==
    /\ pc[t] = "execute"
    /\ faults < MaxFaults /\ faults' = faults + 1
    /\ \/ UNCHANGED table
       \/ /\ ToSet(snap[t]) \cap Rejected = {}
          /\ table' = table \cup ToSet(snap[t])
    /\ Goto(t, "discard")
    /\ \/ /\ MayRetry(t)
          /\ attempt' = [attempt EXCEPT ![t] = @ + 1]
          /\ then' = [then EXCEPT ![t] = "acquire"]
       \/ /\ then' = [then EXCEPT ![t] = "unknown"]
          /\ UNCHANGED attempt
    /\ UNCHANGED <<buffer, cached, closed, poolVars, op, todo, mine, snap, dlq, given, history>>

\* The poison sink took the rows: they leave the buffer, a write raises all
\* the same, close() does not.
PoisonWritten(t) ==
    LET rest == Without(Len(snap[t]), buffer)
    IN  /\ pc[t] = "poison"
        /\ dlq' = dlq \cup ToSet(snap[t])
        /\ \/ /\ op[t] = "close"
              /\ Finish(t, "close", rest)
           \/ /\ op[t] # "close"
              /\ buffer' = rest
              /\ Leave(t, FALSE)
              /\ UNCHANGED <<closed, acked, promised>>
        /\ Teardown
        /\ UNCHANGED <<cached, table, given, faults, appended, overlapped>>

\* Mutant: close() forgets the error of the poison sink.
PoisonFailsQuietly(t) ==
    /\ pc[t] = "poison"
    /\ faults < MaxFaults /\ faults' = faults + 1
    /\ IF op[t] = "close"
       THEN Finish(t, "close", buffer)
       ELSE Leave(t, FALSE) /\ UNCHANGED <<buffer, closed, acked, promised>>
    /\ Teardown
    /\ UNCHANGED <<cached, table, dlq, given, appended, overlapped>>

\* The poison sink fails: the buffer is kept and its error raised.
PoisonFails(t) ==
    /\ pc[t] = "poison"
    /\ faults < MaxFaults /\ faults' = faults + 1
    /\ Leave(t, FALSE)
    /\ closed' = (op[t] = "close")
    /\ Teardown
    /\ UNCHANGED <<buffer, cached, table, dlq, given, appended, acked, promised, overlapped>>

-----------------------------------------------------------------------------
Init ==
    /\ config \in Configs
    /\ buffer = <<>> /\ cached = FALSE /\ closed = FALSE
    /\ single = FALSE /\ idle = 0 /\ open = 0
    /\ pc = [t \in Tasks |-> "idle"]
    /\ op = [t \in Tasks |-> "none"]
    /\ todo = [t \in Tasks |-> <<>>]
    /\ mine = [t \in Tasks |-> {}]
    /\ snap = [t \in Tasks |-> <<>>]
    /\ attempt = [t \in Tasks |-> 0]
    /\ then = [t \in Tasks |-> "none"]
    /\ table = {} /\ dlq = {} /\ given = 0 /\ faults = 0
    /\ appended = {} /\ told = {} /\ acked = {} /\ promised = {}
    /\ overlapped = FALSE

Enter(t) ==
    \/ \E n \in 1..2 : Call(t, "write", n)
    \/ Call(t, "deliver", 1) \/ Call(t, "flush", 0) \/ Call(t, "close", 0)

\* Steps of a task inside a call.
Proceed(t) ==
    \/ Begin(t) \/ BeginBare(t) \/ Prepare(t) \/ ColumnsFail(t)
    \/ Acquire(t) \/ Wake(t) \/ Connected(t) \/ Healthy(t) \/ Unhealthy(t)
    \/ ConnectFails(t) \/ Timeout(t) \/ Discard(t)
    \/ Commit(t) \/ Reject(t) \/ ExecuteFails(t)
    \/ PoisonWritten(t) \/ PoisonFails(t)

Step == Invalidate \/ \E t \in Tasks : Enter(t) \/ Proceed(t)

Next == Step /\ UNCHANGED config

Spec == Init /\ [][Next]_vars

\* asyncio runs every ready task, a database call returns or fails, and the
\* acquire timeout passes.
Fairness == \A t \in Tasks : WF_vars(Proceed(t) /\ UNCHANGED config)

FairSpec == Spec /\ Fairness

-----------------------------------------------------------------------------
(* Properties.                                                             *)

Where == {"idle", "start", "prepare", "acquire", "wait", "connect", "check",
          "execute", "discard", "poison"}

\* Types of the sink's memory, of its callers and of the database.
TypeOK ==
    /\ config \in Configs
    /\ buffer \in Seq(Rows)
    /\ cached \in BOOLEAN /\ closed \in BOOLEAN /\ single \in BOOLEAN
    /\ idle \in Nat /\ open \in Nat
    /\ pc \in [Tasks -> Where]
    /\ op \in [Tasks -> {"none", "write", "deliver", "deliver_flush", "flush", "close"}]
    /\ todo \in [Tasks -> Seq(Rows)]
    /\ mine \in [Tasks -> SUBSET Rows]
    /\ snap \in [Tasks -> Seq(Rows)]
    /\ attempt \in [Tasks -> 0..MaxAttempts]
    /\ then \in [Tasks -> {"none", "acquire", "known", "unknown"}]
    /\ table \subseteq Rows /\ dlq \subseteq Rows
    /\ given \in 0..End /\ faults \in 0..MaxFaults
    /\ appended \subseteq Rows /\ told \subseteq Rows /\ acked \subseteq Rows
    /\ promised \subseteq Rows /\ overlapped \in BOOLEAN

\* As long as calls do not overlap, a row that entered the buffer leaves it
\* only into the table or the poison sink, or with an error its own call raised,
\* whatever fails and is retried in between.
RowsKept ==
    ~overlapped =>
        appended \subseteq ToSet(buffer) \cup table \cup dlq \cup told

\* When flush() or close() returns, every row accepted before is in the table or
\* in the poison sink, or its own call raised (calls that do not overlap).
FlushIsDurable ==
    ~overlapped => promised \subseteq table \cup dlq \cup told

\* RedisPostgresRuntime: "XACK cannot precede a durable PostgreSQL write", also
\* when deliveries overlap on a pool and delete rows from the buffer by position.
AckedIsDurable == acked \subseteq table

\* The tasks that have a pooled connection, or a slot for one.
Holders == {t \in Tasks : pc[t] \in {"connect", "check", "execute", "discard"}}

\* The counter of the pool is the number of connections there are, and never more
\* than pool_size, whoever fails to connect, is discarded or waits.
PoolBound ==
    Pooled => /\ open <= config.pool_size
              /\ open = idle + Cardinality(Holders)

\* Every call ends.  A connection that is discarded wakes no waiting task, so it
\* is the acquire timeout that ends its wait.
CallsEnd == \A t \in Tasks : (config.timeout /\ Busy(t)) ~> ~Busy(t)
=============================================================================
