---------------------------- MODULE BigQuerySink ----------------------------
(* BigQuerySink: rows are buffered and written by load jobs.                 *)
(* bigquery/sinks/bigquery.py, bigquery_flush.py, bigquery_load_job.py       *)
(*                                                                          *)
(* Tasks are callers of one sink. A call runs to its end in one step unless *)
(* it flushes: then it waits for a load job in a thread. Records are         *)
(* numbered in the order in which they are handed over.                      *)
EXTENDS Naturals, Sequences, SequencesExt, FiniteSets

CONSTANTS
    Tasks,      \* callers
    End,        \* bound: records handed over
    Misfit,     \* records that row_mapper does not map to a dict
    MaxFaults,  \* bound: failed load jobs
    Configs     \* [batch_size, truncate]

VARIABLES
    config,     \* configuration, never changes
    client,     \* "none", "open" or "closed"
    task,       \* task[t]: the call in progress, or Idle
    buffer,     \* _buffer
    store,      \* the rows of the table
    stats,      \* truncate_pending, the rows loaded, whether flush_count and
                \* flush_error_count are above 0, and the outcome of the last flush
    given,      \* records handed over so far
    accepted, settled, faults,   \* history and bound
    abandoned,  \* load jobs whose outcome the sink did not learn: they may still run
    overlapped, \* history: two load jobs were in progress at once
    dropped     \* history: rows taken from the buffer for a job that did not have them, or
                \* erased from the table by a job that truncates it

vars == <<config, client, task, buffer, store, stats, given, accepted, settled,
          faults, abandoned, overlapped, dropped>>

Records == 1..End
OldRow == 0     \* a row that was in the table before
Idle == [call |-> "idle", own |-> {}, promise |-> {}, batch |-> <<>>, truncate |-> FALSE, ran |-> FALSE]
Loading(t) == task[t].call # "idle"
NotClosing == client # "closed" /\ \A t \in Tasks : task[t].call # "close"

Init ==
    /\ config \in Configs
    /\ client = "none"
    /\ task = [t \in Tasks |-> Idle]
    /\ buffer = <<>>
    /\ store = <<OldRow>>
    /\ stats = [truncate_pending |-> config.truncate, flushed |-> FALSE, failed |-> FALSE,
                loaded |-> 0, last_flush_succeeded |-> "none", last_error |-> FALSE]
    /\ given = 0 /\ accepted = {} /\ settled = {}
    /\ faults = 0 /\ abandoned = {} /\ overlapped = FALSE /\ dropped = {}

\* flush() failed: counters, and the call raises. The rows stay in the buffer.
CountError == stats' = [stats EXCEPT !.failed = TRUE, !.last_flush_succeeded = "no",
                                     !.last_error = TRUE]

\* The call c of task t returns: the records it carried are accepted, and flush() and
\* close() settle what was accepted when they began.
Returns(t, c) ==
    /\ task' = [task EXCEPT ![t] = Idle]
    /\ accepted' = accepted \cup c.own
    /\ settled' = settled \cup c.promise
    /\ client' = IF c.call = "close" THEN "closed" ELSE client

\* Mutant: the error of the load job is swallowed.
RaisesNothing(t) ==
    /\ task' = [task EXCEPT ![t] = Idle]
    /\ CountError
    /\ accepted' = accepted \cup task[t].own
    /\ settled' = settled \cup task[t].promise

Raises(t) ==
    /\ task' = [task EXCEPT ![t] = Idle]
    /\ CountError
    /\ UNCHANGED <<accepted, settled>>

Coercible(rows) == ToSet(rows) \cap Misfit = {}

\* flush(): nothing to do, a row that cannot be mapped, or one load job with a
\* copy of the buffer (rows), which is truncating until one has succeeded.
Flush(t, c, rows) ==
    \/ /\ rows = <<>>
       /\ Returns(t, c)
       /\ UNCHANGED <<stats, overlapped>>
    \/ /\ rows # <<>>
       /\ client' = IF client = "none" THEN "open" ELSE client
       /\ \/ /\ ~Coercible(rows)
             /\ Raises(t)
             /\ UNCHANGED overlapped
          \/ /\ Coercible(rows)
             /\ task' = [task EXCEPT ![t] =
                             [c EXCEPT !.batch = rows, !.truncate = stats.truncate_pending]]
             /\ overlapped' = (overlapped \/ \E u \in Tasks \ {t} : Loading(u))
             /\ UNCHANGED <<stats, accepted, settled>>

\* write() and write_batch() of n records: append, and flush a full buffer.
Write(t, n) ==
    /\ ~Loading(t) /\ NotClosing
    /\ given + n <= End
    /\ given' = given + n
    /\ LET c == [Idle EXCEPT !.call = "write", !.own = (given + 1)..(given + n)]
           rows == buffer \o [i \in 1..n |-> given + i]
       IN  /\ buffer' = rows
           /\ IF Len(rows) >= config.batch_size
              THEN Flush(t, c, rows)
              ELSE Returns(t, c) /\ UNCHANGED <<stats, overlapped>>
    /\ UNCHANGED <<config, store, faults, abandoned, dropped>>

\* flush() by the runner, and close(): flush, then close the client. close() comes
\* last, when no other call is in progress.
FlushOrClose(t, call) ==
    /\ ~Loading(t) /\ NotClosing
    /\ call = "close" => \A u \in Tasks : ~Loading(u)
    /\ Flush(t, [Idle EXCEPT !.call = call, !.promise = accepted], buffer)
    /\ UNCHANGED <<config, buffer, store, given, faults, abandoned, dropped>>

Load(rows, truncate) == IF truncate THEN rows ELSE store \o rows

\* The records of the table that such a job does not write again.
Erased(rows, truncate) == IF truncate THEN (ToSet(store) \cap Records) \ ToSet(rows) ELSE {}

\* BigQuery runs the job, which is atomic.
RunJob(t) ==
    /\ Loading(t) /\ ~task[t].ran
    /\ store' = Load(task[t].batch, task[t].truncate)
    /\ dropped' = dropped \cup Erased(task[t].batch, task[t].truncate)
    /\ task' = [task EXCEPT ![t].ran = TRUE]
    /\ UNCHANGED <<config, client, buffer, stats, given, accepted, settled, faults,
                   abandoned, overlapped>>

\* Mutant: the buffer is cleared, with the rows that came while the job ran.
NothingAfter(n) == <<>>

RowsAfter(n) == SubSeq(buffer, n + 1, Len(buffer))

\* The first n rows of the buffer.
RowsBefore(n) == {buffer[i] : i \in {i \in DOMAIN buffer : i <= n}}

\* submit_load_job() returns: as many rows as the batch has leave the front of the buffer,
\* whichever they are by now.
JobReturns(t) ==
    /\ Loading(t) /\ task[t].ran
    /\ LET n == Len(task[t].batch)
       IN  /\ buffer' = RowsAfter(n)
           /\ dropped' = dropped \cup (RowsBefore(n) \ ToSet(task[t].batch))
           /\ stats' = [stats EXCEPT !.truncate_pending = FALSE, !.flushed = TRUE,
                            !.loaded = @ + n, !.last_flush_succeeded = "yes", !.last_error = FALSE]
    /\ Returns(t, task[t])
    /\ UNCHANGED <<config, store, given, faults, abandoned, overlapped>>

\* load_job.result() raises: the job did run, will not run, or runs later.
JobFails(t) ==
    /\ Loading(t)
    /\ faults < MaxFaults
    /\ faults' = faults + 1
    /\ \E later \in BOOLEAN :
          /\ later => ~task[t].ran
          /\ abandoned' = IF task[t].ran \/ later
                          THEN abandoned \cup {[id |-> faults, batch |-> task[t].batch,
                                                truncate |-> task[t].truncate, ran |-> task[t].ran]}
                          ELSE abandoned
    /\ Raises(t)
    /\ UNCHANGED <<config, client, buffer, store, given, overlapped, dropped>>

RunLate(j) ==
    /\ ~j.ran
    /\ store' = Load(j.batch, j.truncate)
    /\ dropped' = dropped \cup Erased(j.batch, j.truncate)
    /\ abandoned' = (abandoned \ {j}) \cup {[j EXCEPT !.ran = TRUE]}
    /\ UNCHANGED <<config, client, task, buffer, stats, given, accepted, settled, faults,
                   overlapped>>

Next ==
    \/ \E t \in Tasks :
          \/ \E n \in 1..2 : Write(t, n)
          \/ \E call \in {"flush", "close"} : FlushOrClose(t, call)
          \/ RunJob(t) \/ JobReturns(t) \/ JobFails(t)
    \/ \E j \in abandoned : RunLate(j)

Spec == Init /\ [][Next]_vars

-----------------------------------------------------------------------------
(* What the sink shows to an operator.                                       *)

metrics_snapshot ==
    [connection_ready     |-> client # "none",
     buffered_row_count   |-> Len(buffer),
     flushed              |-> stats.flushed,
     failed               |-> stats.failed,
     last_flush_succeeded |-> stats.last_flush_succeeded]

\* The default thresholds: nothing buffered, no failed flush.
max_buffered_row_count == 0

\* Mutant: rows still buffered are not looked at.
evaluate_flushes(snapshot) ==
    /\ snapshot.connection_ready
    /\ snapshot.flushed
    /\ snapshot.last_flush_succeeded = "yes"
    /\ ~snapshot.failed

\* acceptance_report().passed with the default thresholds. The job id is retained with
\* every flush, and submit_load_job() reports len(rows) rows as loaded, so two of the
\* conditions of evaluate() always hold.
evaluate(snapshot) ==
    /\ snapshot.connection_ready
    /\ snapshot.flushed
    /\ snapshot.last_flush_succeeded = "yes"
    /\ snapshot.buffered_row_count <= max_buffered_row_count
    /\ ~snapshot.failed

\* Mutant: a client without an error is ready, whatever is buffered.
health_of_client == [ready |-> client # "none" /\ ~stats.last_error]

health_snapshot == [ready |-> client # "none" /\ buffer = <<>> /\ ~stats.last_error]

\* Outside what the sink promises: flushes that overlap take each other's rows from the
\* buffer, and a truncating job whose call has given up may run late and empty the table.
Excused == overlapped \/ \E j \in abandoned : j.truncate

Durable == ToSet(store) \cap Records

\* A record that was handed over is in the table or still in the buffer, whatever failed,
\* also when it was appended while a load job ran, unless it is one of the rows that
\* overlapping flushes or a late truncating job have dropped: those are lost, and only those.
RowsKept ==
    /\ 1..given \subseteq Durable \cup ToSet(buffer) \cup dropped
    /\ dropped # {} => Excused

\* An accepted report tells the truth: every record is in the table, once, and a
\* truncating sink has left nothing else there.
ReportIsTrue ==
    evaluate(metrics_snapshot) /\ ~overlapped =>
        /\ ToSet(store) = 1..given \cup (IF config.truncate THEN {} ELSE {OldRow})
        /\ IsInjective(store)
        /\ stats.loaded = given

\* Whatever fails and is tried again, a row is in the table at most once, and once
\* more for every load job with it whose outcome the sink did not learn.
DuplicatesExplained ==
    ~overlapped => \A r \in Records :
        Cardinality({i \in DOMAIN store : store[i] = r})
            <= 1 + Cardinality({j \in abandoned : r \in ToSet(j.batch)})

\* A sink that is ready has written what it accepted, but for the rows it dropped.
ReadyIsWritten == health_snapshot.ready => 1..given \subseteq Durable \cup dropped
=============================================================================
