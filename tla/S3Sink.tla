------------------------------- MODULE S3Sink -------------------------------
(* S3Sink: records go to a local file; a full file becomes one object.       *)
(* s3/sinks/s3.py, s3/sinks/upload_runtime.py                                *)
(*                                                                          *)
(* One caller. A call waits for put_object() when it finalizes the active    *)
(* file. A crash loses the local file; the next process starts again from    *)
(* the first record, under the same run id or a new one.                     *)
EXTENDS Naturals, Sequences, SequencesExt, FiniteSets

CONSTANTS
    Tasks,      \* the caller
    End,        \* bound: records handed over
    MaxFaults,  \* bound: failed uploads and crashes
    Configs     \* [max_records_per_file]

VARIABLES
    config, client, task, given, accepted, settled, faults,
    buffer,     \* the active file: [state, partition, key, rows]; state is "none",
                \* "open", or "closed" once finalize_active_file() has closed it
    store,      \* the objects of the bucket: [key, rows]
    stats,      \* run_id, file_index, uploaded_record_count, last_error, and the
                \* number of restarts (history)
    abandoned   \* uploads whose outcome the sink did not learn: they may still run

vars == <<config, client, task, buffer, store, stats, given, accepted, settled,
          faults, abandoned>>

Records == 1..End
Partition(r) == IF r = 2 THEN "b" ELSE "a"      \* partition_path_fn
Idle == [call |-> "idle", stage |-> "idle", own |-> {}, todo |-> <<>>, promise |-> {},
         ran |-> "no"]
NoFile == [state |-> "none", partition |-> "", key |-> <<>>, rows |-> <<>>]
Busy(t) == task[t].call # "idle"
Started(run, n) == [run_id |-> run, file_index |-> 0, uploaded |-> 0, last_error |-> FALSE,
                    restarts |-> n]

Init ==
    /\ config \in Configs
    /\ client = "open"
    /\ task = [t \in Tasks |-> Idle]
    /\ buffer = NoFile /\ store = <<>> /\ stats = Started(1, 0)
    /\ given = 0 /\ accepted = {} /\ settled = {}
    /\ faults = 0 /\ abandoned = {}

\* build_object_key()
ObjectKey(partition) == <<stats.run_id, partition, stats.file_index>>

Raises(t) == task' = [task EXCEPT ![t] = Idle] /\ UNCHANGED <<accepted, settled>>

Returns(t, c) ==
    /\ task' = [task EXCEPT ![t] = Idle]
    /\ accepted' = accepted \cup c.own
    /\ settled' = settled \cup c.promise

\* write() and write_batch() of n records.
Write(t, n) ==
    /\ ~Busy(t) /\ client = "open"
    /\ given + n <= End /\ given' = given + n
    /\ task' = [task EXCEPT ![t] = [Idle EXCEPT !.call = "write", !.stage = "write",
                                        !.own = (given + 1)..(given + n),
                                        !.todo = [i \in 1..n |-> given + i]]]
    /\ UNCHANGED <<config, client, buffer, store, stats, accepted, settled, faults, abandoned>>

\* finalize_active_file() closes the local file and uploads it.
Upload(t, c, file) ==
    /\ buffer' = [file EXCEPT !.state = "closed"]
    /\ task' = [task EXCEPT ![t] = [c EXCEPT !.stage = "put", !.ran = "no"]]
    /\ UNCHANGED <<accepted, settled>>

\* write() of the next record: a file of another partition is uploaded first, a full
\* one afterwards. A file that a failed upload has closed takes no more records.
WriteRecord(t) ==
    /\ task[t].stage = "write"
    /\ LET c == [task[t] EXCEPT !.todo = Tail(@)]
           r == Head(task[t].todo)
           file == IF buffer.state # "none" THEN buffer
                   ELSE [state |-> "open", partition |-> Partition(r),
                         key |-> ObjectKey(Partition(r)), rows |-> <<>>]
           filled == [file EXCEPT !.rows = Append(@, r)]
       IN  \/ task[t].todo = <<>> /\ Returns(t, task[t]) /\ UNCHANGED buffer
           \/ /\ task[t].todo # <<>> /\ file.partition # Partition(r)
              /\ Upload(t, task[t], file)
           \/ /\ task[t].todo # <<>> /\ file.partition = Partition(r) /\ file.state = "closed"
              /\ Raises(t) /\ UNCHANGED buffer
           \/ /\ task[t].todo # <<>> /\ file.partition = Partition(r) /\ file.state = "open"
              /\ IF Len(filled.rows) >= config.size
                 THEN Upload(t, c, filled)
                 ELSE /\ buffer' = filled /\ task' = [task EXCEPT ![t] = c]
                      /\ UNCHANGED <<accepted, settled>>
    /\ UNCHANGED <<config, client, store, stats, given, faults, abandoned>>

\* flush() reaches the local file only: nothing is settled. close() uploads the active file.
FlushOrClose(t, call) ==
    /\ ~Busy(t) /\ client = "open"
    /\ IF call = "flush"
       THEN UNCHANGED <<task, buffer, accepted, settled, client>>
       ELSE IF buffer.state = "none"
       THEN Returns(t, [Idle EXCEPT !.promise = accepted]) /\ client' = "closed" /\ UNCHANGED buffer
       ELSE Upload(t, [Idle EXCEPT !.call = "close", !.promise = accepted], buffer)
            /\ UNCHANGED client
    /\ UNCHANGED <<config, store, stats, given, faults, abandoned>>

\* put_object(IfNoneMatch="*"): an object that exists is not written again.
Exists(key) == \E i \in DOMAIN store : store[i].key = key
Put(file) ==
    store' = IF Exists(file.key) THEN store
             ELSE Append(store, [key |-> file.key, rows |-> file.rows])

RunPut(t) ==
    /\ task[t].stage = "put" /\ task[t].ran = "no"
    /\ Put(buffer)
    /\ task' = [task EXCEPT ![t].ran = IF Exists(buffer.key) THEN "refused" ELSE "yes"]
    /\ UNCHANGED <<config, client, buffer, stats, given, accepted, settled, faults, abandoned>>

\* put_object() returns: no file is active, the next one has another index.
PutReturns(t) ==
    /\ task[t].stage = "put" /\ task[t].ran = "yes"
    /\ stats' = [stats EXCEPT !.file_index = @ + 1, !.uploaded = @ + Len(buffer.rows),
                              !.last_error = FALSE]
    /\ buffer' = NoFile
    /\ IF task[t].call = "close"
       THEN Returns(t, task[t]) /\ client' = "closed"
       ELSE /\ task' = [task EXCEPT ![t].stage = "write"]
            /\ UNCHANGED <<client, accepted, settled>>
    /\ UNCHANGED <<config, store, given, faults, abandoned>>

\* It raises: the object exists already, or the outcome is unknown. The file stays active.
PutFails(t) ==
    /\ task[t].stage = "put"
    /\ \/ task[t].ran = "refused" /\ UNCHANGED <<faults, abandoned>>
       \/ /\ task[t].ran # "refused"
          /\ faults < MaxFaults /\ faults' = faults + 1
          /\ \/ UNCHANGED abandoned
             \/ task[t].ran = "no" /\ abandoned' = abandoned \cup {buffer}
    /\ stats' = [stats EXCEPT !.last_error = TRUE]
    /\ Raises(t)
    /\ UNCHANGED <<config, client, buffer, store, given>>

RunLate(file) ==
    /\ Put(file)
    /\ abandoned' = abandoned \ {file}
    /\ UNCHANGED <<config, client, task, buffer, stats, given, accepted, settled, faults>>

\* The process dies; bind_context() gives the next one a run id.
Crash ==
    /\ client = "open"
    /\ faults < MaxFaults /\ faults' = faults + 1
    /\ task' = [t \in Tasks |-> Idle]
    /\ buffer' = NoFile
    /\ \E run \in {stats.run_id, stats.run_id + 1} : stats' = Started(run, stats.restarts + 1)
    /\ given' = 0 /\ accepted' = {}
    /\ UNCHANGED <<config, client, store, settled, abandoned>>

Next ==
    \/ \E t \in Tasks :
          \/ \E n \in 1..2 : Write(t, n)
          \/ \E call \in {"flush", "close"} : FlushOrClose(t, call)
          \/ WriteRecord(t) \/ RunPut(t) \/ PutReturns(t) \/ PutFails(t)
    \/ \E file \in abandoned : RunLate(file)
    \/ Crash

Spec == Init /\ [][Next]_vars

-----------------------------------------------------------------------------
metrics_snapshot == [uploaded_record_count |-> stats.uploaded]

Durable == UNION {ToSet(store[i].rows) : i \in DOMAIN store}

\* A record that was accepted is in an object or in the active file.
RowsKept == accepted \subseteq Durable \cup ToSet(buffer.rows)

\* The counter of uploaded records never exceeds what the bucket holds, and is what
\* this run has uploaded unless an upload or a process has failed.
ReportIsTrue ==
    /\ metrics_snapshot.uploaded_record_count <= Cardinality(Durable)
    /\ faults = 0 => metrics_snapshot.uploaded_record_count = Cardinality(Durable) \/ \E t \in Tasks : task[t].ran = "yes"

\* A record is in one object, and in one more for every restart.
DuplicatesExplained ==
    \A r \in Records :
        Cardinality({i \in DOMAIN store : r \in ToSet(store[i].rows)}) <= 1 + stats.restarts
=============================================================================
