---------------------------- MODULE RedisPostgres ----------------------------
(* The pipeline from a Redis stream into PostgreSQL: a message is transformed, written   *)
(* with its delivery key, flushed and only then acknowledged.                    *)
(* postgres/redis.py                                                          *)
(*                                                                          *)
(* The source is reduced to its group (RedisStreamSource has the rest) and the sink to    *)
(* its buffer (PostgresSink has the rest). A mapper that puts a value of its own into    *)
(* the field of the delivery key is left out.                                  *)
EXTENDS Naturals, Sequences, SequencesExt, FiniteSets

CONSTANTS
    Consumers,  \* processes of the consumer group
    End,        \* messages of the stream
    MaxFaults,  \* bound: failed calls, dead processes
    MaxTurns,   \* bound: sessions and deliveries
    Configs     \* [builder, upsert, copy, business, strict, ack_on_success]: built by
                \* build_redis_postgres_sink, or a sink of the caller's: upsert, insert_mode =
                \* copy, a conflict key that messages share, strict write safety

VARIABLES
    config, faults, turns,
    call,       \* each consumer: closed, idle, write, flush, ack
    current,    \* the message that deliver() works on
    buffer,     \* rows in the sink
    pending,    \* _pending_ack_ids of the source
    lastId, pel,  \* the group: last message delivered, messages not acknowledged
    store,      \* rows of the table, each known by its message
    acked,      \* history: messages acknowledged
    passed      \* history: ensure_ready() has passed

vars == <<config, faults, turns, call, current, buffer, pending, lastId, pel, store, acked, passed>>

\* The builder refuses a sink that cannot be replayed.
build_redis_postgres_sink(k) == k.builder => k.upsert /\ ~k.copy /\ ~k.business /\ k.strict

Init ==
    /\ config \in {k \in Configs : build_redis_postgres_sink(k)}
    /\ faults = 0 /\ turns = 0
    /\ call = [c \in Consumers |-> "closed"] /\ current = [c \in Consumers |-> 0]
    /\ buffer = [c \in Consumers |-> <<>>] /\ pending = [c \in Consumers |-> <<>>]
    /\ lastId = 0 /\ pel = {} /\ store = <<>> /\ acked = {} /\ passed = FALSE

-----------------------------------------------------------------------------
(* The table.                                                                *)

\* The conflict key of a row: with_redis_delivery_fields keeps the delivery key through
\* any mapper.
with_redis_delivery_fields(row) == IF config.business THEN 0 ELSE row
Same(r, s) == with_redis_delivery_fields(r) = with_redis_delivery_fields(s)

\* The rows of the table that a statement leaves alone, and of each conflict key the
\* first row that the table has none for.
Untouched(rows, table) == {r \in ToSet(table) : \A s \in ToSet(rows) : ~Same(r, s)}
Missing(rows, table) ==
    {rows[i] : i \in {j \in DOMAIN rows :
        \A s \in ToSet(table) \cup ToSet(SubSeq(rows, 1, j - 1)) : ~Same(rows[j], s)}}

\* Rows are appended, put in place of those they conflict with, or left out.
Written(rows, table) ==
    IF config.copy THEN table \o rows
    ELSE IF config.upsert THEN SetToSeq(Untouched(rows, table)) \o rows
    ELSE table \o SetToSeq(Missing(rows, table))

\* One statement may not update a row twice.
Writable(rows) ==
    config.upsert => \A i, j \in DOMAIN rows : i # j => ~Same(rows[i], rows[j])

-----------------------------------------------------------------------------
(* The runtime.                                                              *)

Turn == turns < MaxTurns /\ turns' = turns + 1
Fault == faults < MaxFaults /\ faults' = faults + 1

\* The sink opens, then the source; when the source does not, the sink is closed again.
Open(c) ==
    /\ call[c] = "closed" /\ Turn
    /\ \/ call' = [call EXCEPT ![c] = "idle"] /\ UNCHANGED faults
       \/ Fault /\ UNCHANGED call
    /\ UNCHANGED <<config, current, buffer, pending, lastId, pel, store, acked, passed>>

\* A finding keeps the report from passing. Only the builder declares that the sink is
\* safe to replay.
acceptance_report(c) ==
    /\ call[c] # "closed"
    /\ config.ack_on_success /\ config.upsert /\ ~config.business /\ config.strict
    /\ config.builder

ensure_ready(c) ==
    /\ call[c] = "idle" /\ acceptance_report(c) /\ ~passed /\ passed' = TRUE
    /\ UNCHANGED <<config, faults, turns, call, current, buffer, pending, lastId, pel, store, acked>>

\* drain() pulls a message: a new one, or one that was delivered long ago and never
\* acknowledged. Without ack_on_success there is no hook, and deliver() raises.
drain(c) ==
    /\ call[c] = "idle" /\ Turn
    /\ \E e \in pel \cup {lastId + 1} :
          /\ e <= End /\ lastId' = (IF e > lastId THEN e ELSE lastId) /\ pel' = pel \cup {e}
          /\ \/ /\ config.ack_on_success
                /\ call' = [call EXCEPT ![c] = "write"] /\ current' = [current EXCEPT ![c] = e]
             \/ ~config.ack_on_success /\ UNCHANGED <<call, current>>
    /\ UNCHANGED <<config, faults, buffer, pending, store, acked, passed>>

\* transform and write(); what raises here leaves the buffer alone.
Write(c) ==
    /\ call[c] = "write"
    /\ \/ /\ call' = [call EXCEPT ![c] = "flush"]
          /\ buffer' = [buffer EXCEPT ![c] = Append(@, current[c])]
          /\ UNCHANGED faults
       \/ Fault /\ call' = [call EXCEPT ![c] = "idle"] /\ UNCHANGED buffer
    /\ UNCHANGED <<config, turns, current, pending, lastId, pel, store, acked, passed>>

\* flush() writes all rows of the buffer in one transaction. A flush that raises keeps
\* the buffer, though its commit may have been made.
Flush(c) ==
    /\ call[c] = "flush"
    /\ \/ /\ Writable(buffer[c]) /\ store' = Written(buffer[c], store)
          /\ \/ /\ buffer' = [buffer EXCEPT ![c] = <<>>] /\ call' = [call EXCEPT ![c] = "ack"]
                /\ UNCHANGED faults
             \/ Fault /\ call' = [call EXCEPT ![c] = "idle"] /\ UNCHANGED buffer
       \/ /\ ~Writable(buffer[c]) \/ faults < MaxFaults
          /\ faults' = (IF Writable(buffer[c]) THEN faults + 1 ELSE faults)
          /\ call' = [call EXCEPT ![c] = "idle"] /\ UNCHANGED <<buffer, store>>
    /\ UNCHANGED <<config, turns, current, pending, lastId, pel, acked, passed>>

XAck(ids) == acked' = acked \cup ToSet(ids) /\ pel' = pel \ ToSet(ids)

\* The ack hook and flush_delivery_acks(). A call that raises keeps its identifiers for
\* the next one, though they may be acknowledged.
Acknowledge(c) ==
    LET ids == Append(pending[c], current[c])
    IN  /\ call[c] = "ack" /\ call' = [call EXCEPT ![c] = "idle"]
        /\ \/ XAck(ids) /\ pending' = [pending EXCEPT ![c] = <<>>] /\ UNCHANGED faults
           \/ /\ Fault /\ pending' = [pending EXCEPT ![c] = ids]
              /\ XAck(ids) \/ UNCHANGED <<acked, pel>>
        /\ UNCHANGED <<config, turns, current, buffer, lastId, store, passed>>

\* The source closes first and acknowledges what it still has, then the sink, which
\* flushes; neither keeps the other from closing, and rows that are not written stay.
Close(c) ==
    /\ call[c] = "idle" /\ call' = [call EXCEPT ![c] = "closed"]
    /\ XAck(pending[c]) /\ pending' = [pending EXCEPT ![c] = <<>>]
    /\ \/ /\ Writable(buffer[c]) /\ UNCHANGED faults
          /\ store' = Written(buffer[c], store) /\ buffer' = [buffer EXCEPT ![c] = <<>>]
       \/ /\ ~Writable(buffer[c]) \/ faults < MaxFaults
          /\ faults' = (IF Writable(buffer[c]) THEN faults + 1 ELSE faults)
          /\ UNCHANGED <<buffer, store>>
    /\ UNCHANGED <<config, turns, current, lastId, passed>>

Crash(c) ==
    /\ call[c] # "closed" /\ Fault /\ call' = [call EXCEPT ![c] = "closed"]
    /\ buffer' = [buffer EXCEPT ![c] = <<>>] /\ pending' = [pending EXCEPT ![c] = <<>>]
    /\ UNCHANGED <<config, turns, current, lastId, pel, store, acked, passed>>

Next == \E c \in Consumers :
    \/ Open(c) \/ ensure_ready(c) \/ drain(c) \/ Write(c) \/ Flush(c) \/ Acknowledge(c)
    \/ Close(c) \/ Crash(c)

Spec == Init /\ [][Next]_vars

-----------------------------------------------------------------------------
(* Properties.                                                               *)

\* In a pipeline that has passed ensure_ready(), an acknowledged message has its row in
\* the table, whatever was retried, reclaimed by another consumer or lost on the way.
RowsKept == passed => acked \subseteq ToSet(store)

\* ... and no message has two rows, however often it was delivered.
DuplicatesExplained == passed => IsInjective(store)
=============================================================================
