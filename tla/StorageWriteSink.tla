-------------------------- MODULE StorageWriteSink --------------------------
(* BigQueryStorageWriteSink: rows are buffered and appended to the default   *)
(* stream of the table in requests of bounded size.                          *)
(* bigquery/sinks/storage_write.py, storage_write_flush.py,                  *)
(* storage_write_session.py                                                  *)
(*                                                                          *)
(* The variables are those of BigQuerySink. A flush waits for the table's    *)
(* metadata when the stream is not open, then for one append per request.    *)
EXTENDS Naturals, Sequences, SequencesExt, FiniteSets

CONSTANTS
    Tasks,      \* callers
    End,        \* bound: records handed over
    Misfit,     \* records that cannot be mapped, serialized or fitted in a request
    Large,      \* records that take two units of a request
    MaxFaults,  \* bound: failed calls of the service
    Configs     \* [batch_size, max_request]

VARIABLES
    config, client, task, buffer, store, stats, given, accepted, settled, faults, abandoned,
    overlapped,
    dropped     \* history: rows taken from the buffer for a request that did not have them

vars == <<config, client, task, buffer, store, stats, given, accepted, settled,
          faults, abandoned, overlapped, dropped>>

Records == 1..End
Idle == [call |-> "idle", own |-> {}, promise |-> {}, stage |-> "idle", rows |-> <<>>, ran |-> FALSE]
Busy(t) == task[t].call # "idle"
Flushing(t) == task[t].stage = "append"
NotClosing == client # "closed" /\ \A t \in Tasks : task[t].call # "close"

Init ==
    /\ config \in Configs
    /\ client = "none"      \* no stream; "open": stream, serializer and clients; "closed"
    /\ task = [t \in Tasks |-> Idle]
    /\ buffer = <<>>
    /\ store = <<>>
    /\ stats = [flushed |-> FALSE, failed |-> FALSE, appended |-> 0,
                last_append_succeeded |-> "none", last_error |-> FALSE]
    /\ given = 0 /\ accepted = {} /\ settled = {}
    /\ faults = 0 /\ abandoned = {} /\ overlapped = FALSE /\ dropped = {}

CountError == stats' = [stats EXCEPT !.failed = TRUE, !.last_append_succeeded = "no",
                                     !.last_error = TRUE]

\* Session.close() runs flush() and then closes the stream, whether flush() raised or
\* not. session is what open() inside this call has left of the client.
AfterCall(c, session) == IF c.call = "close" THEN "closed" ELSE session

Returns(t, c, session) ==
    /\ task' = [task EXCEPT ![t] = Idle]
    /\ accepted' = accepted \cup c.own
    /\ settled' = settled \cup c.promise
    /\ client' = AfterCall(c, session)

Raises(t, c, session) ==
    /\ task' = [task EXCEPT ![t] = Idle]
    /\ CountError
    /\ client' = AfterCall(c, session)
    /\ UNCHANGED <<accepted, settled>>

\* serialize_row(): the message of a row, or an error.
Serializable(r) == r \notin Misfit

\* The first n rows take one unit of a request each, the rows of Large two; a row too
\* large for any request is a misfit.
Size(rows, n) == n + Cardinality({i \in 1..n : rows[i] \in Large})

\* chunk_serialized_rows(): a request takes the first row that is left and the rows after
\* it as long as they fit. Requests are cut off one by one here, all at once in the code.
Request(rows) ==
    LET fit == Cardinality({n \in 1..Len(rows) : Size(rows, n) <= config.max_request})
    IN  SubSeq(rows, 1, IF fit = 0 THEN 1 ELSE fit)

\* The buffer is copied, mapped and serialized; one row that does not pass fails the flush
\* before anything is sent.
BeginAppends(t, c, rows) ==
    \/ rows = <<>> /\ Returns(t, c, "open") /\ UNCHANGED <<stats, overlapped>>
    \/ (\E r \in ToSet(rows) : ~Serializable(r)) /\ Raises(t, c, "open") /\ UNCHANGED overlapped
    \/ /\ rows # <<>> /\ \A r \in ToSet(rows) : Serializable(r)
       /\ task' = [task EXCEPT ![t] = [c EXCEPT !.stage = "append", !.rows = rows]]
       /\ overlapped' = (overlapped \/ \E u \in Tasks \ {t} : Flushing(u))
       /\ client' = "open"
       /\ UNCHANGED <<stats, accepted, settled>>

\* flush(): nothing to do, open the stream first, or begin.
Flush(t, c, rows) ==
    \/ rows = <<>> /\ Returns(t, c, client) /\ UNCHANGED <<stats, overlapped>>
    \/ /\ rows # <<>> /\ client = "none"
       /\ task' = [task EXCEPT ![t] = [c EXCEPT !.stage = "open"]]
       /\ UNCHANGED <<stats, overlapped, accepted, settled, client>>
    \/ rows # <<>> /\ client = "open" /\ BeginAppends(t, c, rows)

Write(t, n) ==
    /\ ~Busy(t) /\ NotClosing
    /\ given + n <= End
    /\ given' = given + n
    /\ LET c == [Idle EXCEPT !.call = "write", !.own = (given + 1)..(given + n)]
           rows == buffer \o [i \in 1..n |-> given + i]
       IN  /\ buffer' = rows
           /\ IF Len(rows) >= config.batch_size
              THEN Flush(t, c, rows)
              ELSE Returns(t, c, client) /\ UNCHANGED <<stats, overlapped>>
    /\ UNCHANGED <<config, store, faults, abandoned, dropped>>

\* close() comes last, when no other call is in progress.
FlushOrClose(t, call) ==
    /\ ~Busy(t) /\ NotClosing
    /\ call = "close" => \A u \in Tasks : ~Busy(u)
    /\ Flush(t, [Idle EXCEPT !.call = call, !.promise = accepted], buffer)
    /\ UNCHANGED <<config, buffer, store, given, faults, abandoned, dropped>>

\* open() inside flush(): the metadata arrived and the stream exists now, unless
\* another task has opened it meanwhile. The buffer is copied only after that: it may
\* have grown, or another task may have emptied it.
Opened(t) ==
    /\ task[t].stage = "open"
    /\ BeginAppends(t, task[t], buffer)
    /\ UNCHANGED <<config, buffer, store, given, faults, abandoned, dropped>>

OpenFails(t) ==
    /\ task[t].stage = "open"
    /\ faults < MaxFaults /\ faults' = faults + 1
    /\ Raises(t, task[t], client)
    /\ UNCHANGED <<config, buffer, store, given, abandoned, overlapped, dropped>>

\* BigQuery appends the rows of a request, all of them.
RunAppend(t) ==
    /\ Flushing(t) /\ ~task[t].ran
    /\ store' = store \o Request(task[t].rows)
    /\ task' = [task EXCEPT ![t].ran = TRUE]
    /\ UNCHANGED <<config, client, buffer, stats, given, accepted, settled, faults,
                   abandoned, overlapped, dropped>>

\* The first n rows of the buffer.
RowsBefore(n) == {buffer[i] : i \in {i \in DOMAIN buffer : i <= n}}

\* append_serialized_rows() returns: as many rows leave the front of the buffer, whichever
\* they are by now, and the next request goes out, or the call returns.
AppendReturns(t) ==
    /\ Flushing(t) /\ task[t].ran
    /\ LET n == Len(Request(task[t].rows))
           rest == SubSeq(task[t].rows, n + 1, Len(task[t].rows))
       IN  /\ buffer' = SubSeq(buffer, n + 1, Len(buffer))
           /\ dropped' = dropped \cup (RowsBefore(n) \ ToSet(Request(task[t].rows)))
           /\ stats' = [stats EXCEPT !.flushed = TRUE, !.appended = @ + n,
                            !.last_append_succeeded = "yes", !.last_error = FALSE]
           /\ IF rest = <<>>
              THEN Returns(t, task[t], client)
              ELSE /\ task' = [task EXCEPT ![t].rows = rest, ![t].ran = FALSE]
                   /\ UNCHANGED <<accepted, settled, client>>
    /\ UNCHANGED <<config, store, given, faults, abandoned, overlapped>>

\* An error status, row errors, or append_timeout_s: the rows were appended, were not,
\* or are appended later.
AppendFails(t) ==
    /\ Flushing(t)
    /\ faults < MaxFaults /\ faults' = faults + 1
    /\ \E later \in BOOLEAN :
          /\ later => ~task[t].ran
          /\ abandoned' = IF task[t].ran \/ later
                          THEN abandoned \cup {[id |-> faults, batch |-> Request(task[t].rows),
                                                ran |-> task[t].ran]}
                          ELSE abandoned
    /\ Raises(t, task[t], client)
    /\ UNCHANGED <<config, buffer, store, given, overlapped, dropped>>

RunLate(j) ==
    /\ ~j.ran
    /\ store' = store \o j.batch
    /\ abandoned' = (abandoned \ {j}) \cup {[j EXCEPT !.ran = TRUE]}
    /\ UNCHANGED <<config, client, task, buffer, stats, given, accepted, settled, faults,
                   overlapped, dropped>>

Next ==
    \/ \E t \in Tasks :
          \/ \E n \in 1..2 : Write(t, n)
          \/ \E call \in {"flush", "close"} : FlushOrClose(t, call)
          \/ Opened(t) \/ OpenFails(t)
          \/ RunAppend(t) \/ AppendReturns(t) \/ AppendFails(t)
    \/ \E j \in abandoned : RunLate(j)

Spec == Init /\ [][Next]_vars

-----------------------------------------------------------------------------

\* connection_ready() needs the stream, which close() gives up.
metrics_snapshot ==
    [connection_ready      |-> client = "open",
     buffered_row_count    |-> Len(buffer),
     flushed               |-> stats.flushed,
     failed                |-> stats.failed,
     last_append_succeeded |-> stats.last_append_succeeded]

\* The default thresholds: nothing buffered, no failed append.
max_buffered_row_count == 0

\* acceptance_report().passed with the default thresholds. An open stream has a name,
\* and submitted and appended rows are counted together.
evaluate(snapshot) ==
    /\ snapshot.connection_ready
    /\ snapshot.flushed
    /\ snapshot.last_append_succeeded = "yes"
    /\ snapshot.buffered_row_count <= max_buffered_row_count
    /\ ~snapshot.failed

health_snapshot == [ready |-> client = "open" /\ buffer = <<>> /\ ~stats.last_error]

\* Flushes that overlap take each other's rows from the buffer.
Excused == overlapped
Durable == ToSet(store)

\* A record that was handed over is in the table or still in the buffer, unless it is one of
\* the rows that overlapping flushes have dropped: those are lost, and only those.
RowsKept ==
    /\ 1..given \subseteq Durable \cup ToSet(buffer) \cup dropped
    /\ dropped # {} => Excused

\* An accepted report tells the truth: every record is in the table, once, in order.
ReportIsTrue ==
    evaluate(metrics_snapshot) /\ ~overlapped => store = [i \in 1..given |-> i] /\ stats.appended = given

\* A row that was appended is not appended again by the retry of a failed flush,
\* unless the sink did not learn that it was.
DuplicatesExplained ==
    ~overlapped => \A r \in Records :
        Cardinality({i \in DOMAIN store : store[i] = r})
            <= 1 + Cardinality({j \in abandoned : r \in ToSet(j.batch)})

\* A sink that is ready has written what it accepted, but for the rows it dropped.
ReadyIsWritten == health_snapshot.ready => 1..given \subseteq Durable \cup dropped
=============================================================================
