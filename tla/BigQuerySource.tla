--------------------------- MODULE BigQuerySource ---------------------------
(* BigQuerySource: rows of a query job, read by a thread (pump_query_batches) *)
(* that hands batches to the stream through a queue of length one.           *)
(* bigquery/sources/bigquery.py, stream_runtime.py, query_runtime.py         *)
(*                                                                          *)
(* The runner handles a row at a time, saves the checkpoint it finds then,   *)
(* may give the stream up and resume. Rows are numbered in query order; two  *)
(* rows share a value of the checkpoint column, the tiebreaker tells them    *)
(* apart. The checkpoint column is never NULL.                               *)
EXTENDS Naturals, Sequences, FiniteSets

CONSTANTS
    End,        \* rows of the table
    MaxFaults,  \* bound: failed queries and streams given up
    Configs     \* [checkpoint, log_and_continue, batch_size, bad, unmapped]; checkpoint is
                \* "none", "unique" (checkpoint_column_is_unique) or "tiebreaker";
                \* row_mapper fails on the rows of bad and maps those of unmapped to None

VARIABLES
    config, faults,
    call,       \* the stream: "idle", "get" (waiting for the queue), "emit", "yielded",
                \* "closing" (waiting for the pump)
    pump,       \* the thread: "off", "query", "read", "put" or "end"
    item,       \* what the pump puts: [event, rows]
    queue,      \* event_queue, at most one item
    stop,       \* stop_event
    getter,     \* a cancelled stream has left a thread in Queue.get()
    stranded,   \* threads left in the Queue.get() of a queue nobody puts into any more
    params,     \* _resume_cursor
    rows,       \* rows of the job that the pump has not read
    batch,      \* rows of the batch the stream has not emitted
    progress,   \* _rows_seen, _last_checkpoint_cursor, whether _last_error is set, and
                \* whether any stream has dropped or failed on a row
    success,    \* the stream has seen the end of the query
    emitted, done, saved

vars == <<config, faults, call, pump, item, queue, stop, getter, stranded, params, rows, batch,
          progress, success, emitted, done, saved>>
threadVars == <<getter, stranded>>

NoProgress == [seen |-> 0, cursor |-> 0, error |-> FALSE, dropped |-> FALSE]
NoItem == [event |-> "none", rows |-> <<>>]

Init ==
    /\ config \in Configs
    /\ faults = 0
    /\ call = "idle" /\ pump = "off" /\ item = NoItem /\ queue = <<>> /\ stop = FALSE
    /\ getter = FALSE /\ stranded = 0
    /\ params = 0 /\ rows = <<>> /\ batch = <<>> /\ progress = NoProgress
    /\ success = FALSE
    /\ emitted = <<>> /\ done = {} /\ saved = 0

-----------------------------------------------------------------------------
\* A checkpoint names a row by its column, or by its column and its tiebreaker.
Column(r) == IF config.checkpoint = "unique" THEN r ELSE (r + 1) \div 2
Tiebreaker(r) == r

\* build_query(): the WHERE clause of a resumed query, and its rows, which ORDER BY puts
\* in ascending order.
After(r, cursor) ==
    \/ cursor = 0
    \/ Column(r) > Column(cursor)
    \/ /\ config.checkpoint = "tiebreaker"
       /\ Column(r) = Column(cursor) /\ Tiebreaker(r) > Tiebreaker(cursor)

Query(cursor) ==
    LET selected == {r \in 1..End : After(r, cursor)}
    IN  CHOOSE s \in [1..Cardinality(selected) -> selected] :
            \A i, j \in DOMAIN s : i < j => s[i] < s[j]

\* prepare_resume() and the start of stream(): the pump thread is started.
Start ==
    /\ call = "idle" /\ pump = "off"
    /\ call' = "get" /\ pump' = "query" /\ stop' = FALSE /\ queue' = <<>> /\ item' = NoItem
    /\ params' = IF config.checkpoint = "none" THEN 0 ELSE saved
    /\ progress' = [NoProgress EXCEPT !.dropped = progress.dropped] /\ success' = FALSE
    /\ emitted' = <<>> /\ batch' = <<>> /\ rows' = <<>>
    /\ UNCHANGED <<config, faults, threadVars, done, saved>>

-----------------------------------------------------------------------------
(* The pump thread.                                                          *)

\* Mutant: the pump ends without telling the stream of its error.
PutRows(event, some) ==
    IF stop \/ event = "error" THEN pump' = "end" /\ UNCHANGED item
    ELSE item' = [event |-> event, rows |-> some] /\ pump' = "put"

\* queue_put_with_stop() returns at once when the stream has stopped.
Put(event, some) ==
    IF stop THEN pump' = "end" /\ UNCHANGED item
    ELSE item' = [event |-> event, rows |-> some] /\ pump' = "put"

StartQuery ==
    /\ pump = "query"
    /\ \/ /\ rows' = Query(params)
          /\ Put("started", <<>>) /\ UNCHANGED faults
       \/ /\ faults < MaxFaults /\ faults' = faults + 1
          /\ Put("error", <<>>) /\ UNCHANGED rows
    /\ UNCHANGED <<config, call, queue, stop, threadVars, params, batch, progress, success,
                   emitted, done, saved>>

\* read_row_batch(), unless the stream has stopped
ReadRows ==
    /\ pump = "read"
    /\ LET n == IF Len(rows) < config.batch_size THEN Len(rows) ELSE config.batch_size IN
       \/ /\ stop
          /\ pump' = "end" /\ UNCHANGED <<faults, item, rows>>
       \/ /\ ~stop /\ UNCHANGED faults
          /\ rows' = SubSeq(rows, n + 1, Len(rows))
          /\ IF n = 0 THEN Put("completed", <<>>) ELSE Put("batch", SubSeq(rows, 1, n))
       \/ /\ faults < MaxFaults /\ faults' = faults + 1
          /\ Put("error", <<>>) /\ UNCHANGED rows
    /\ UNCHANGED <<config, call, queue, stop, threadVars, params, batch, progress, success,
                   emitted, done, saved>>

\* It waits while the queue is full and the stream has not stopped; a put that has begun
\* before the stop succeeds when there is room.
PutItem ==
    /\ pump = "put"
    /\ \/ /\ stop
          /\ pump' = "end" /\ UNCHANGED queue
       \/ /\ queue = <<>>
          /\ queue' = Append(queue, item)
          /\ pump' = IF item.event \in {"completed", "error"} THEN "end" ELSE "read"
    /\ UNCHANGED <<config, faults, call, item, stop, threadVars, params, rows, batch, progress,
                   success, emitted, done, saved>>

-----------------------------------------------------------------------------
(* The stream.                                                               *)

\* finally: the pump is told to stop and awaited.
Finish == call' = "closing" /\ stop' = TRUE /\ batch' = <<>>

GetItem ==
    /\ call = "get" /\ queue # <<>>
    /\ queue' = <<>>
    /\ LET got == Head(queue) IN
       \/ got.event = "started" /\ UNCHANGED <<call, stop, batch, progress, success>>
       \/ got.event = "batch" /\ call' = "emit" /\ batch' = got.rows
            /\ UNCHANGED <<stop, progress, success>>
       \/ got.event = "completed" /\ Finish /\ success' = TRUE /\ UNCHANGED progress
       \/ got.event = "error" /\ Finish /\ progress' = [progress EXCEPT !.error = TRUE]
            /\ UNCHANGED success
    /\ UNCHANGED <<config, faults, pump, item, threadVars, params, rows, emitted, done, saved>>

\* The next row of the batch: mapped and yielded after the cursor has moved to it,
\* dropped, or the end of the stream.
EmitRow ==
    /\ call = "emit"
    /\ \/ /\ batch = <<>>
          /\ call' = "get" /\ UNCHANGED <<stop, batch, progress, emitted, done>>
       \/ /\ batch # <<>>
          /\ LET r == Head(batch)
                 seen == [progress EXCEPT !.seen = @ + 1]
             IN  \/ /\ r \notin config.bad \cup config.unmapped
                    /\ progress' = [seen EXCEPT !.cursor = IF config.checkpoint = "none" THEN 0 ELSE r]
                    /\ emitted' = Append(emitted, r)
                    /\ call' = "yielded" /\ batch' = Tail(batch)
                    /\ UNCHANGED <<stop, done>>
                 \/ /\ r \in config.unmapped \/ (r \in config.bad /\ config.log_and_continue)
                    /\ progress' = [seen EXCEPT !.error = @ \/ r \in config.bad, !.dropped = TRUE]
                    /\ done' = done \cup {r} /\ batch' = Tail(batch)
                    /\ UNCHANGED <<call, stop, emitted>>
                 \/ /\ r \in config.bad /\ ~config.log_and_continue
                    /\ progress' = [seen EXCEPT !.error = TRUE, !.dropped = TRUE]
                    /\ Finish /\ UNCHANGED <<emitted, done>>
    /\ UNCHANGED <<config, faults, pump, item, queue, threadVars, params, rows, success, saved>>

\* The runner has handled the row, and may save the checkpoint before it asks for more.
Handle(save) ==
    /\ call = "yielded"
    /\ call' = "emit"
    /\ done' = done \cup {emitted[Len(emitted)]}
    /\ saved' = IF save /\ progress.cursor # 0 THEN progress.cursor ELSE saved
    /\ UNCHANGED <<config, faults, pump, item, queue, stop, threadVars, params, rows, batch,
                   progress, success, emitted>>

\* The runner gives the stream up, while it holds a row or waits for one. A cancelled
\* await leaves the thread in Queue.get(), unless the executor had not started it.
GiveUp ==
    /\ call \in {"get", "yielded"}
    /\ faults < MaxFaults /\ faults' = faults + 1
    /\ Finish
    /\ getter' \in (IF call = "get" THEN BOOLEAN ELSE {FALSE})
    /\ UNCHANGED <<config, pump, item, queue, stranded, params, rows, progress, success,
                   emitted, done, saved>>

\* The thread that was left takes what the pump has still put; nobody sees the item.
GetterReturns ==
    /\ getter /\ queue # <<>>
    /\ getter' = FALSE /\ queue' = <<>>
    /\ UNCHANGED <<config, faults, call, pump, item, stop, stranded, params, rows, batch,
                   progress, success, emitted, done, saved>>

\* The pump has ended, and the stream with it. A thread that is left in an empty queue
\* stays there.
Close ==
    /\ call = "closing" /\ pump = "end"
    /\ call' = "idle" /\ pump' = "off"
    /\ stranded' = IF getter /\ queue = <<>> THEN stranded + 1 ELSE stranded
    /\ getter' = FALSE
    /\ UNCHANGED <<config, faults, item, queue, stop, params, rows, batch, progress, success,
                   emitted, done, saved>>

Next ==
    \/ Start \/ StartQuery \/ ReadRows \/ PutItem \/ GetItem \/ EmitRow \/ GiveUp
    \/ GetterReturns \/ Close
    \/ \E save \in BOOLEAN : Handle(save)

Spec == Init /\ [][Next]_vars

-----------------------------------------------------------------------------
metrics_snapshot ==
    [active_stream_count   |-> IF call = "idle" THEN 0 ELSE 1,
     dropped               |-> progress.dropped,
     last_stream_succeeded |-> call = "idle" /\ success]

health_snapshot == [ready |-> call = "idle" /\ ~progress.error]

\* acceptance_report().passed with the default thresholds; a query that was executed
\* has a job id.
evaluate(snapshot) ==
    snapshot.last_stream_succeeded /\ ~snapshot.dropped /\ snapshot.active_stream_count <= 1

\* A report that passes is true: the last stream has emitted every row there was after
\* its checkpoint, and the source is ready again.
ReportIsTrue ==
    evaluate(metrics_snapshot) =>
        /\ emitted = Query(params)
        /\ health_snapshot.ready

\* A stream gives its rows in order, each once, and only those after its checkpoint.
EmittedInOrder ==
    \A i \in DOMAIN emitted : emitted[i] > params /\ (i > 1 => emitted[i - 1] < emitted[i])

\* A stream that reports success has given the runner every row there is.
CompletedIsDone == success => 1..End \subseteq done

\* Nobody waits for somebody who has gone: a stream that waits for the queue has a pump
\* that will put something, or something to get; a pump that waits for room has a stream
\* that will take something, or has been told to stop. Nothing is promised to the thread
\* that a cancelled stream leaves behind.
NobodyWaitsForever ==
    /\ call = "get" => queue # <<>> \/ pump \in {"query", "read", "put"}
    /\ pump = "put" => call \in {"get", "emit", "yielded"} \/ stop

\* Not so: told to stop, the pump leaves without putting anything (query_runtime.py:153),
\* and a thread that a cancelled stream has left in Queue.get() is never woken.
NoThreadStranded == stranded = 0
=============================================================================
