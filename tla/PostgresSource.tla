--------------------------- MODULE PostgresSource ---------------------------
(* PostgresSource: rows of a query, read in batches from a primary or a      *)
(* standby, with a guard against standbys that lag behind.                   *)
(* postgres/sources/postgres.py, _stream_runtime.py, _resume_runtime.py      *)
(*                                                                          *)
(* "stream" is the stream() the runner iterates, "health" a health check of  *)
(* the same source; both open connections of their own. The runner handles a *)
(* row at a time, saves the checkpoint it finds then, and may crash and      *)
(* resume.                                                                   *)
EXTENDS Naturals, Sequences, SequencesExt, FiniteSets

CONSTANTS
    End,        \* rows of the table, in cursor order
    MaxFaults,  \* bound: errors, lag, failovers and crashes
    Configs     \* [health_checks, checkpoint, log_and_continue, read_routing, guard, route_primary,
                \*  batch_size, bad, unmapped]: row_mapper fails on the rows of bad and
                \*  maps those of unmapped to None

Actors == {"stream", "health"}

VARIABLES
    config, faults,
    call,       \* call[a]: what actor a does: [stage, attempt, conn, fallback]
    conns,      \* connections that are open: [id, role, stale]
    leaked,     \* history: connections nobody will close
    params,     \* the cursor parameter of the query, 0 for the configured start
    rows,       \* rows of the cursor that are not fetched yet
    batch,      \* rows fetched and not emitted yet
    progress,   \* _rows_seen, _last_checkpoint_cursor, whether a row was dropped or failed
    success,    \* _last_stream_succeeded: "none", "yes" or "no"
    left,       \* history: the runner closed the last stream before its end
    emitted,    \* history: rows emitted by this stream
    done, saved

vars == <<config, faults, call, conns, leaked, params, rows, batch, progress,
          success, left, emitted, done, saved>>

Idle == [stage |-> "idle", attempt |-> 1, conn |-> 0, fallback |-> FALSE]
NoProgress == [seen |-> 0, cursor |-> 0, dropped |-> FALSE]
MaxAttempts == 3

Init ==
    /\ config \in Configs
    /\ faults = 0
    /\ call = [a \in Actors |-> Idle]
    /\ conns = {} /\ leaked = {}
    /\ params = 0 /\ rows = <<>> /\ batch = <<>>
    /\ progress = NoProgress /\ success = "none" /\ left = FALSE
    /\ emitted = <<>> /\ done = {} /\ saved = 0

Goto(a, stage) == call' = [call EXCEPT ![a].stage = stage]
Conn(a) == CHOOSE c \in conns : c.id = call[a].conn
Streaming == call["stream"].stage # "idle"

\* _replica_is_stale(), with what pg_is_in_recovery() says of the role
Stale(c) == config.guard /\ c.role = "standby" /\ c.stale

-----------------------------------------------------------------------------
(* The runner.                                                               *)

\* prepare_resume(): the checkpoint's cursor replaces the configured parameter. Without
\* checkpoint fields a checkpoint has no cursor and the query starts again.
PrepareResume ==
    /\ ~Streaming
    /\ progress' = NoProgress
    /\ params' = IF config.checkpoint THEN saved ELSE 0
    /\ emitted' = <<>>
    /\ UNCHANGED <<config, faults, call, conns, leaked, rows, batch, success, left, done, saved>>

\* stream() resets the progress and connects.
Start ==
    /\ ~Streaming
    /\ progress.cursor = 0      \* the runner resumes after every stream
    /\ params = IF config.checkpoint THEN saved ELSE 0
    /\ progress' = NoProgress
    /\ call' = [call EXCEPT !["stream"] = [Idle EXCEPT !.stage = "connect"]]
    /\ emitted' = <<>>
    /\ UNCHANGED <<config, faults, conns, leaked, params, rows, batch, success, left, done, saved>>

\* The runner has handled the row it was given. It may save the checkpoint, then it
\* asks for the next row.
Handle(save) ==
    /\ call["stream"].stage = "yielded"
    /\ Goto("stream", "emit")
    /\ done' = done \cup {emitted[Len(emitted)]}
    /\ saved' = IF save /\ config.checkpoint THEN progress.cursor ELSE saved
    /\ UNCHANGED <<config, faults, conns, leaked, params, rows, batch, progress,
                   success, left, emitted>>

\* The runner closes the stream while it holds a row. What is raised then is no
\* Exception, so the stream counts as successful.
Leave ==
    /\ call["stream"].stage = "yielded"
    /\ faults < MaxFaults /\ faults' = faults + 1
    /\ conns' = {c \in conns : c.id # call["stream"].conn}
    /\ call' = [call EXCEPT !["stream"] = Idle]
    /\ rows' = <<>> /\ batch' = <<>>
    /\ success' = "yes" /\ left' = TRUE
    /\ UNCHANGED <<config, leaked, params, progress, emitted, done, saved>>

\* The process dies, and with it its connections.
Crash ==
    /\ Streaming
    /\ faults < MaxFaults /\ faults' = faults + 1
    /\ call' = [a \in Actors |-> Idle]
    /\ conns' = {} /\ leaked' = {}
    /\ params' = 0 /\ rows' = <<>> /\ batch' = <<>>
    /\ progress' = NoProgress /\ emitted' = <<>>
    /\ success' = "none" /\ left' = FALSE
    /\ UNCHANGED <<config, done, saved>>

-----------------------------------------------------------------------------
(* Connections: _resolve_read_connection() of the stream and the health check. *)

\* target_session_attrs, resolved by libpq.
Roles(routing) == CASE routing = "primary" -> {"primary"}
                    [] routing = "standby" -> {"standby"}
                    [] OTHER -> {"primary", "standby"}

HealthCheck ==
    /\ config.health_checks
    /\ call["health"].stage = "idle" /\ faults < MaxFaults
    /\ call' = [call EXCEPT !["health"] = [Idle EXCEPT !.stage = "connect"]]
    /\ UNCHANGED <<config, faults, conns, leaked, params, rows, batch, progress,
                   success, left, emitted, done, saved>>

\* The id of a connection, free again when it is closed.
NewId == CHOOSE i \in 1..(Cardinality(conns) + 1) : \A c \in conns : c.id # i

Connected(a) ==
    /\ call[a].stage = "connect"
    /\ \E role \in Roles(IF call[a].fallback THEN "primary" ELSE config.read_routing),
          stale \in BOOLEAN :
          /\ role = "primary" => ~stale
          /\ conns' = conns \cup {[id |-> NewId, role |-> role, stale |-> stale]}
    /\ call' = [call EXCEPT ![a].conn = NewId, ![a].stage = "inspect"]
    /\ UNCHANGED <<config, faults, leaked, params, rows, batch, progress, success, left, emitted,
                   done, saved>>

\* Mutant: a connection that is not good enough stays open.
CloseNothing(a) == UNCHANGED conns

Close(a) == conns' = {c \in conns : c.id # call[a].conn}

\* stream() after an error: it tries again while no row was seen, or raises. A health
\* check ends with the error as its result.
Fails(a, retriable) ==
    IF /\ a = "stream" /\ retriable
       /\ progress.seen = 0 /\ progress.cursor = 0 /\ call[a].attempt < MaxAttempts
    THEN /\ call' = [call EXCEPT ![a] = [Idle EXCEPT !.stage = "connect", !.attempt = call[a].attempt + 1]]
         /\ UNCHANGED <<success, left>>
    ELSE /\ call' = [call EXCEPT ![a] = Idle]
         /\ IF a = "stream" THEN success' = "no" /\ left' = FALSE ELSE UNCHANGED <<success, left>>

Inspected(a) ==
    /\ call[a].stage = "inspect"
    /\ LET c == Conn(a) IN
       \/ /\ IF call[a].fallback THEN c.role = "primary" ELSE ~Stale(c)
          /\ UNCHANGED <<success, left>>
          /\ IF a = "health" THEN Close(a) /\ call' = [call EXCEPT ![a] = Idle]
                             ELSE Goto(a, "execute") /\ UNCHANGED conns
       \/ /\ ~call[a].fallback /\ Stale(c) /\ config.route_primary
          /\ Close(a) /\ UNCHANGED <<success, left>>
          /\ call' = [call EXCEPT ![a].fallback = TRUE, ![a].stage = "connect", ![a].conn = 0]
       \/ /\ IF call[a].fallback THEN c.role # "primary" ELSE Stale(c) /\ ~config.route_primary
          /\ Close(a) /\ Fails(a, FALSE)
    /\ UNCHANGED <<config, faults, leaked, params, rows, batch, progress, emitted,
                   done, saved>>

\* Connecting fails, or the connection breaks while it is inspected: then nobody closes it.
ConnectFails(a) ==
    /\ call[a].stage \in {"connect", "inspect"}
    /\ faults < MaxFaults /\ faults' = faults + 1
    /\ leaked' = IF call[a].stage = "inspect" THEN leaked \cup {call[a].conn} ELSE leaked
    /\ \E retriable \in BOOLEAN : Fails(a, retriable)
    /\ UNCHANGED <<config, conns, params, rows, batch, progress, emitted, done, saved>>

-----------------------------------------------------------------------------
(* The stream.                                                               *)

\* The safety controls and the query: its rows are those after the cursor.
Execute ==
    /\ call["stream"].stage = "execute"
    /\ rows' = [i \in 1..(End - params) |-> params + i]
    /\ Goto("stream", "fetch")
    /\ UNCHANGED <<config, faults, conns, leaked, params, batch, progress,
                   success, left, emitted, done, saved>>

\* The end of an attempt by an error; async with closes the connection.
Abort(retriable) ==
    /\ Close("stream") /\ Fails("stream", retriable)
    /\ rows' = <<>> /\ batch' = <<>>

\* _enforce_active_replica_freshness(), then fetchmany(); without rows the stream ends.
Fetch ==
    /\ call["stream"].stage = "fetch"
    /\ LET c == Conn("stream")
           n == IF Len(rows) < config.batch_size THEN Len(rows) ELSE config.batch_size
       IN  \/ Stale(c) /\ Abort(FALSE)
           \/ /\ ~Stale(c) /\ rows # <<>>
              /\ batch' = SubSeq(rows, 1, n) /\ rows' = SubSeq(rows, n + 1, Len(rows))
              /\ Goto("stream", "emit") /\ UNCHANGED <<conns, success, left>>
           \/ /\ ~Stale(c) /\ rows = <<>>
              /\ Close("stream") /\ call' = [call EXCEPT !["stream"] = Idle]
              /\ success' = "yes" /\ left' = FALSE
              /\ UNCHANGED <<rows, batch>>
    /\ UNCHANGED <<config, faults, leaked, params, progress, emitted, done, saved>>

\* The query, a fetch or the freshness check fails.
ReadFails ==
    /\ call["stream"].stage \in {"execute", "fetch"}
    /\ faults < MaxFaults /\ faults' = faults + 1
    /\ \E retriable \in BOOLEAN : Abort(retriable)
    /\ UNCHANGED <<config, leaked, params, progress, emitted, done, saved>>

\* _emit_rows() for the next row. A mapped row is yielded after the cursor has moved to
\* it, a row mapped to None is dropped; a row that fails is dropped with the cursor where
\* it was, or ends the stream.
EmitRow ==
    /\ call["stream"].stage = "emit"
    /\ \/ /\ batch = <<>>
          /\ Goto("stream", "fetch")
          /\ UNCHANGED <<conns, rows, batch, progress, success, left, emitted, done>>
       \/ /\ batch # <<>>
          /\ LET r == Head(batch)
                 seen == [progress EXCEPT !.seen = @ + 1]
             IN  \/ /\ r \notin config.bad
                    /\ progress' = [seen EXCEPT !.cursor = r, !.dropped = @ \/ r \in config.unmapped]
                    /\ batch' = Tail(batch)
                    /\ IF r \in config.unmapped
                       THEN done' = done \cup {r} /\ UNCHANGED <<call, emitted>>
                       ELSE /\ emitted' = Append(emitted, r)
                            /\ Goto("stream", "yielded") /\ UNCHANGED done
                    /\ UNCHANGED <<conns, rows, success, left>>
                 \/ /\ r \in config.bad /\ config.log_and_continue
                    /\ progress' = [seen EXCEPT !.dropped = TRUE]
                    /\ batch' = Tail(batch) /\ done' = done \cup {r}
                    /\ UNCHANGED <<call, conns, rows, success, left, emitted>>
                 \/ /\ r \in config.bad /\ ~config.log_and_continue
                    /\ progress' = [seen EXCEPT !.dropped = TRUE]
                    /\ Close("stream") /\ call' = [call EXCEPT !["stream"] = Idle]
                    /\ rows' = <<>> /\ batch' = <<>>
                    /\ success' = "no" /\ left' = FALSE
                    /\ UNCHANGED <<emitted, done>>
    /\ UNCHANGED <<config, faults, leaked, params, saved>>

\* A standby falls behind, or is promoted; a primary is demoted.
ServerChanges ==
    /\ faults < MaxFaults /\ faults' = faults + 1
    /\ \E c \in conns : \E role \in {"primary", "standby"}, stale \in BOOLEAN :
          /\ role = "primary" => ~stale
          /\ conns' = (conns \ {c}) \cup {[c EXCEPT !.role = role, !.stale = stale]}
    /\ UNCHANGED <<config, call, leaked, params, rows, batch, progress,
                   success, left, emitted, done, saved>>

Next ==
    \/ PrepareResume \/ Start \/ Leave \/ Crash \/ HealthCheck \/ ServerChanges
    \/ \E save \in BOOLEAN : Handle(save)
    \/ \E a \in Actors : Connected(a) \/ Inspected(a) \/ ConnectFails(a)
    \/ Execute \/ Fetch \/ ReadFails \/ EmitRow

Spec == Init /\ [][Next]_vars

-----------------------------------------------------------------------------
metrics_snapshot ==
    [active_stream_count   |-> IF Streaming THEN 1 ELSE 0,
     dropped               |-> progress.dropped,
     last_stream_succeeded |-> success]

\* The thresholds that can fail by default: no record error, no dropped record.
evaluate_source(snapshot) == ~snapshot.dropped /\ snapshot.active_stream_count <= 1

\* A report that passes after a stream that succeeded is true: every row after the
\* checkpoint was emitted. (A stream the runner has left says it succeeded, too.)
ReportIsTrue ==
    /\ evaluate_source(metrics_snapshot) /\ metrics_snapshot.last_stream_succeeded = "yes"
    /\ ~left /\ ~Streaming /\ progress.seen > 0
    => emitted = [i \in 1..(End - params) |-> params + i]

\* A stream gives its rows in cursor order, each once and none twice, retries included.
EmittedInOrder ==
    \A i \in DOMAIN emitted : emitted[i] > params /\ (i > 1 => emitted[i - 1] < emitted[i])

\* A connection that is open is in use, or was lost when its inspection failed.
ConnectionsAccounted ==
    {c.id : c \in conns} = leaked \cup ({call[a].conn : a \in Actors} \ {0})
=============================================================================
