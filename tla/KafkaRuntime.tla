---------------------------- MODULE KafkaRuntime ----------------------------
(* KafkaTransformSinkRuntime: records of one Kafka partition are delivered to a *)
(* sink and acknowledged, by processes of one consumer group.                 *)
(* kafka/runtime.py, with the Kafka -> PostgreSQL and Kafka -> Redis builders   *)
(* and acceptance gates on top of it.                                         *)
(*                                                                          *)
(* The source is reduced to what a delivery uses of it: the consumer's         *)
(* position, the committable offset and the count of pending commits (the rest *)
(* is KafkaSource). Offset r is the r-th record; committed counts records and   *)
(* 0 stands for "no committed offset".                                        *)
EXTENDS Integers, Sequences, SequencesExt, FiniteSets

CONSTANTS
    Procs,      \* processes of the consumer group
    End,        \* bound: no partition has more records
    Configs     \* [sink, flush, commit_every, poll, procs, health, records, max_faults,
                \* max_opens]; sink is "upsert" (rows keyed by the delivery key), "append" or
                \* "transactional" (offsets in the transaction). The last three are bounds:
                \* records, failed calls and dead processes, sessions

VARIABLES
    config, faults, opens,
    log,        \* the broker: records in the partition
    committed,  \* the broker: committed offset of the group
    owner,      \* the group: the process the partition is assigned to
    session,    \* session[p]: the runtime of process p
    store,      \* the sink's table, stream or topic, as consumers see it
    lost,       \* history: rows that were in a sink's memory when the session ended
    passed_over,\* history: records that a second drain of a session left undelivered behind it
    report      \* the last acceptance report

vars == <<config, faults, opens, log, committed, owner, session, store, lost, passed_over, report>>

Records == 1..End
NoCount == -1
NoCache == [valid |-> FALSE]
Closed == [stage |-> "closed", position |-> 0, batch |-> <<>>, record |-> 0, committable |-> 0,
           pending |-> 0, buffer |-> <<>>, txn |-> <<>>, torn |-> FALSE, behind |-> {},
           cache |-> NoCache, probe |-> NoCache]
Transactional == config.sink = "transactional"

Init ==
    /\ config \in Configs
    /\ faults = 0 /\ opens = 0
    /\ log = (IF config.health THEN 0 ELSE config.records) /\ committed = 0
    /\ owner \in config.procs
    /\ session = [p \in Procs |-> Closed]
    /\ store = <<>>
    /\ lost = {} /\ passed_over = {}
    /\ report = [passed |-> FALSE]

At(p, stages) == session[p].stage \in stages
Go(p, s) == session' = [session EXCEPT ![p] = s]
Fault == faults < config.max_faults /\ faults' = faults + 1
Max0(n, k) == IF n > k THEN n - k ELSE 0

\* Kafka -> PostgreSQL rows carry the delivery key (topic, partition, offset), which is
\* the conflict key of the upsert.
with_kafka_delivery_fields(rows) == SetToSeq(ToSet(rows) \ ToSet(store))
Written(rows) == IF config.sink = "upsert" THEN store \o with_kafka_delivery_fields(rows)
                                           ELSE store \o rows

-----------------------------------------------------------------------------
(* The session.                                                              *)

\* The sink opens first; when the source does not, the sink is closed again. The new
\* member takes the partition over: the old one commits what it has pending, drops its
\* tracking state, and goes on with the batch it holds.
Open(p) ==
    /\ p \in config.procs /\ At(p, {"closed"})
    /\ opens < config.max_opens /\ opens' = opens + 1
    /\ \/ Fault /\ UNCHANGED <<session, committed, owner>>
       \/ /\ LET old == session[owner] IN
             /\ committed' = IF old.pending > 0 THEN old.committable ELSE committed
             /\ session' = [q \in Procs |->
                   IF q = p THEN [Closed EXCEPT !.stage = "stopped", !.position = committed']
                   ELSE IF q = owner /\ old.stage # "closed"
                        THEN [old EXCEPT !.pending = 0, !.committable = 0, !.cache = NoCache]
                        ELSE session[q]]
          /\ owner' = p
          /\ UNCHANGED faults
    /\ UNCHANGED <<config, log, store, lost, passed_over, report>>

\* drain_to() starts a stream, which goes on at the position of the consumer: what an
\* earlier stream of the session fetched and did not deliver stays behind it.
Drain(p) ==
    /\ At(p, {"stopped"})
    /\ passed_over' = passed_over \cup session[p].behind
    /\ Go(p, [session[p] EXCEPT !.stage = "streaming", !.pending = 0, !.committable = 0,
                                !.behind = {}, !.batch = <<>>, !.cache = NoCache])
    /\ UNCHANGED <<config, faults, opens, log, committed, owner, store, lost, report>>

Produce ==
    /\ log < config.records /\ log' = log + 1
    /\ UNCHANGED <<config, faults, opens, committed, owner, session, store, lost, passed_over, report>>

\* consumer.getmany()
Fetch(p) ==
    /\ At(p, {"streaming"}) /\ owner = p /\ session[p].batch = <<>>
    /\ \E n \in 1..config.poll :
          /\ session[p].position + n <= log
          /\ Go(p, [session[p] EXCEPT !.batch = [i \in 1..n |-> session[p].position + i],
                                      !.position = @ + n, !.cache = NoCache])
    /\ UNCHANGED <<config, faults, opens, log, committed, owner, store, lost, passed_over, report>>

\* anext(stream), then deliver().
Emit(p) ==
    /\ At(p, {"streaming"}) /\ session[p].batch # <<>>
    /\ Go(p, [session[p] EXCEPT !.record = Head(session[p].batch), !.batch = Tail(@), !.cache = NoCache,
                                !.stage = IF Transactional THEN "begin" ELSE "write"])
    /\ UNCHANGED <<config, faults, opens, log, committed, owner, store, lost, passed_over, report>>

\* The stream is closed: it commits what is pending.
LeaveStream(s) ==
    [s EXCEPT !.behind = ToSet(s.batch) \cup ({s.record} \ {0}), !.batch = <<>>, !.record = 0,
              !.stage = IF s.pending > 0 THEN "leave" ELSE "stopped"]

\* drain() has its max_records, or the source is idle for long enough.
Finish(p) ==
    /\ At(p, {"streaming"})
    /\ Go(p, LeaveStream(session[p]))
    /\ UNCHANGED <<config, faults, opens, log, committed, owner, store, lost, passed_over, report>>

-----------------------------------------------------------------------------
(* deliver().                                                                *)

\* begin_transaction(): the sink refuses while an older transaction is open.
Begin(p) ==
    /\ At(p, {"begin"})
    /\ Go(p, IF session[p].torn THEN LeaveStream(session[p])
             ELSE [session[p] EXCEPT !.stage = "write", !.txn = <<>>])
    /\ UNCHANGED <<config, faults, opens, log, committed, owner, store, lost, passed_over, report>>

\* The success callback: the offset is committable, and committed when enough are pending.
ack(s) ==
    [s EXCEPT !.committable = s.record, !.pending = @ + 1, !.cache = NoCache,
              !.stage = IF s.pending + 1 >= config.commit_every THEN "commit" ELSE "streaming",
              !.record = IF s.pending + 1 >= config.commit_every THEN @ ELSE 0]

\* sink.write(): the row is in the sink's buffer. Without flush the delivery is
\* acknowledged right away.
Write(p) ==
    /\ At(p, {"write"})
    /\ LET s == [session[p] EXCEPT !.buffer = Append(@, session[p].record)] IN
       Go(p, IF config.flush THEN [s EXCEPT !.stage = "flush"]
             ELSE IF Transactional THEN [s EXCEPT !.stage = "offsets"] ELSE ack(s))
    /\ UNCHANGED <<config, faults, opens, log, committed, owner, store, lost, passed_over, report>>

Flush(p) ==
    /\ At(p, {"flush"})
    /\ IF Transactional
       THEN UNCHANGED store /\ Go(p, [session[p] EXCEPT !.stage = "offsets"])
       ELSE store' = Written(session[p].buffer) /\ Go(p, ack([session[p] EXCEPT !.buffer = <<>>]))
    /\ UNCHANGED <<config, faults, opens, log, committed, owner, lost, passed_over, report>>

\* send_offsets_to_transaction(): the group's id and the offset, no generation.
Offsets(p) ==
    /\ At(p, {"offsets"})
    /\ Go(p, [session[p] EXCEPT !.stage = "commit_transaction", !.txn = session[p].buffer])
    /\ UNCHANGED <<config, faults, opens, log, committed, owner, store, lost, passed_over, report>>

\* The broker makes rows and offset visible together; then the committed callback.
CommitTransaction(p) ==
    /\ At(p, {"commit_transaction"})
    /\ store' = store \o session[p].txn /\ committed' = session[p].record
    /\ Go(p, [session[p] EXCEPT !.committable = session[p].record, !.pending = 0, !.record = 0,
                                !.txn = <<>>, !.buffer = <<>>, !.stage = "streaming",
                                !.cache = NoCache])
    /\ UNCHANGED <<config, faults, opens, log, owner, lost, passed_over, report>>

\* consumer.commit(), of a delivery, of a stream that is left, or of close(). The broker
\* refuses a process the partition was taken from.
Commit(p) ==
    /\ At(p, {"commit", "leave"}) /\ owner = p
    /\ committed' = session[p].committable
    /\ Go(p, [session[p] EXCEPT !.pending = 0, !.record = 0, !.cache = NoCache,
                                !.stage = IF @ = "leave" THEN "stopped" ELSE "streaming"])
    /\ UNCHANGED <<config, faults, opens, log, owner, store, lost, passed_over, report>>

\* A call raises, executed or not; the error ends the drain. Inside a transaction it is
\* aborted first. The sink keeps the rows it could not write.
Raise(p) ==
    /\ At(p, {"begin", "write", "flush", "offsets", "commit_transaction", "commit", "leave"})
    /\ \/ At(p, {"commit", "leave"}) /\ owner # p /\ UNCHANGED faults
       \/ Fault
    /\ LET s == session[p]
           done == s.stage = "commit_transaction"
       IN  /\ \/ UNCHANGED <<store, committed>>
              \/ /\ s.stage = "flush" /\ ~Transactional
                 /\ store' = Written(s.buffer) /\ UNCHANGED committed
              \/ done /\ store' = store \o s.txn /\ committed' = s.record
              \/ s.stage \in {"commit", "leave"} /\ owner = p
                 /\ committed' = s.committable /\ UNCHANGED store
           /\ Go(p, IF Transactional /\ s.stage \in {"write", "flush", "offsets", "commit_transaction"}
                    THEN [s EXCEPT !.stage = "abort"]
                    ELSE IF s.stage = "leave" THEN [s EXCEPT !.stage = "stopped"]
                    ELSE LeaveStream(s))
    /\ UNCHANGED <<config, opens, log, owner, lost, passed_over, report>>

\* abort_transaction(); when it fails too, the sink's transaction stays open.
Abort(p) ==
    /\ At(p, {"abort"})
    /\ \/ UNCHANGED faults
          /\ Go(p, LeaveStream([session[p] EXCEPT !.txn = <<>>, !.buffer = <<>>]))
       \/ Fault /\ Go(p, LeaveStream([session[p] EXCEPT !.torn = TRUE]))
    /\ UNCHANGED <<config, opens, log, committed, owner, store, lost, passed_over, report>>

-----------------------------------------------------------------------------
(* The end of a session.                                                     *)

\* The source closes first and commits what is pending (an error is logged) ...
Close(p) ==
    /\ At(p, {"stopped"})
    /\ \/ session[p].pending > 0 /\ owner = p /\ committed' = session[p].committable
          /\ UNCHANGED faults
       \/ (IF session[p].pending > 0 /\ owner = p THEN Fault ELSE UNCHANGED faults)
          /\ UNCHANGED committed
    /\ Go(p, [session[p] EXCEPT !.stage = "closing", !.pending = 0, !.cache = NoCache,
                                !.probe = NoCache])
    /\ UNCHANGED <<config, opens, log, owner, store, lost, passed_over, report>>

\* ... then the sink, whether or not that failed. It writes what it has buffered.
CloseSink(p) ==
    /\ At(p, {"closing"})
    /\ \/ /\ store' = IF Transactional THEN store ELSE Written(session[p].buffer)
          /\ UNCHANGED <<faults, lost>>
       \/ /\ Fault /\ UNCHANGED store
          /\ lost' = lost \cup ToSet(session[p].buffer)
    /\ Go(p, Closed)
    /\ UNCHANGED <<config, opens, log, committed, owner, passed_over, report>>

Crash(p) ==
    /\ ~At(p, {"closed"}) /\ Fault
    /\ lost' = lost \cup ToSet(session[p].buffer)
    /\ Go(p, Closed)
    /\ UNCHANGED <<config, opens, log, committed, owner, store, passed_over, report>>

-----------------------------------------------------------------------------
(* Readiness.                                                                *)

\* The probes read the position and the committed offset, then the end of the partition.
health_snapshot(p, s, end) ==
    [valid |-> TRUE, end |-> end, ready |-> owner = p,
     pending |-> s.pending, lag |-> Max0(end, s.probe.position),
     commit_lag |-> IF s.probe.committed = 0 THEN NoCount ELSE Max0(end, s.probe.committed)]

\* A count that is not known passes the gate. Ages and error counts may refuse it too.
check_max(count, max) == count = NoCount \/ count <= max

\* The source is ready and the sink is open.
build_runtime_health_snapshot(health, s) == health.ready /\ s.stage \notin {"closed", "closing"}

evaluate_kafka_redis(health, s) ==
    /\ build_runtime_health_snapshot(health, s)
    /\ check_max(health.pending, 0)
    /\ check_max(health.lag, 0)
    /\ check_max(health.commit_lag, 0)

\* Upserts keyed by the delivery key are required, and an empty buffer.
evaluate_kafka_postgres(health, s) ==
    /\ config.sink = "upsert"
    /\ check_max(Len(s.buffer), 0)
    /\ build_runtime_health_snapshot(health, s)
    /\ check_max(health.pending, 0)
    /\ check_max(health.lag, 0)
    /\ check_max(health.commit_lag, 0)

evaluate(health, s) == IF config.sink = "append" THEN evaluate_kafka_redis(health, s)
                                                 ELSE evaluate_kafka_postgres(health, s)

\* ensure_ready() with the cached snapshot of the source, or after new probes.
EnsureReady(p) ==
    /\ config.health /\ ~At(p, {"closed", "closing"}) /\ ~session[p].probe.valid
    /\ IF session[p].cache.valid
       THEN report' = [passed |-> evaluate(session[p].cache, session[p]), health |-> session[p].cache]
            /\ UNCHANGED session
       ELSE /\ Go(p, [session[p] EXCEPT !.probe = [valid |-> TRUE, position |-> session[p].position,
                                                   committed |-> committed]])
            /\ UNCHANGED report
    /\ UNCHANGED <<config, faults, opens, log, committed, owner, store, lost, passed_over>>

\* The snapshot is cached although the source may have changed during the probes.
ProbesReturn(p) ==
    /\ session[p].probe.valid
    /\ LET health == health_snapshot(p, session[p], log) IN
       /\ report' = [passed |-> evaluate(health, session[p]), health |-> health]
       /\ Go(p, [session[p] EXCEPT !.cache = health, !.probe = NoCache])
    /\ UNCHANGED <<config, faults, opens, log, committed, owner, store, lost, passed_over>>

CacheExpires(p) ==
    /\ session[p].cache.valid
    /\ Go(p, [session[p] EXCEPT !.cache = NoCache])
    /\ UNCHANGED <<config, faults, opens, log, committed, owner, store, lost, passed_over, report>>

Next ==
    \/ Produce
    \/ \E p \in Procs :
          \/ Open(p) \/ Drain(p) \/ Fetch(p) \/ Emit(p) \/ Finish(p)
          \/ Begin(p) \/ Write(p) \/ Flush(p) \/ Offsets(p) \/ CommitTransaction(p)
          \/ Commit(p) \/ Raise(p) \/ Abort(p) \/ Close(p) \/ CloseSink(p) \/ Crash(p)
          \/ EnsureReady(p) \/ ProbesReturn(p) \/ CacheExpires(p)

Spec == Init /\ [][Next]_vars

-----------------------------------------------------------------------------
\* Outside what the runtime promises: a drain that stops with records in hand (at max_records,
\* or because a delivery raised) leaves them to nobody. The next drain of the session goes on
\* behind them and its commits pass them: they are lost (passed_over). And without flush a sink
\* may hold acknowledged rows in memory, and a session that ends badly loses them (lost).
Excused == passed_over \cup IF config.flush THEN {} ELSE lost

\* A record below the committed offset is in the store, or in the memory of a sink that
\* the runtime was told not to flush, or is one of the two kinds that are lost.
RowsKept ==
    \A r \in 1..committed :
        r \in ToSet(store) \cup Excused \cup
              IF config.flush THEN {} ELSE UNION {ToSet(session[p].buffer) : p \in Procs}

Copies(r) == Cardinality({i \in DOMAIN store : store[i] = r})

\* Rows keyed by the delivery key are there once; a transaction is repeated only when
\* the partition moves to another member of the group; otherwise a copy more for each fault or new session.
DuplicatesExplained ==
    \A r \in Records :
        \/ config.sink = "upsert" /\ Copies(r) <= 1
        \/ Transactional /\ Copies(r) <= IF Cardinality(config.procs) = 1 THEN 1 ELSE opens
        \/ config.sink = "append" /\ Copies(r) <= opens + faults

\* The gate passed: every record up to the end that the probes saw is stored, but for those
\* that are lost: the gate compares offsets, and does not see what a drain passed over or a
\* sink forgot. It is not promised to a group that had never committed anything.
ReportIsTrue ==
    report.passed /\ report.health.commit_lag # NoCount
        => 1..report.health.end \subseteq ToSet(store) \cup Excused
=============================================================================
