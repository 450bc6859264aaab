---------------------------- MODULE SchemaAdapter ----------------------------
(* PostgresSchemaAdapter: the table follows the schema of the records.        *)
(* postgres/sinks/schema_adapter.py, _schema_ddl_runtime.py,                  *)
(* _schema_column_sync_runtime.py and the sink's cache of target columns.     *)
(*                                                                          *)
(* Version v of the schema has the columns 1..v. Each DDL statement is a       *)
(* transaction of its own, taken under an advisory lock of the table; a lock   *)
(* timeout is one of the failures. Buffering and flushes are PostgresSink's.   *)
EXTENDS Naturals, FiniteSets

CONSTANTS
    Procs,      \* processes, each with an adapter
    Tasks,      \* tasks that write
    Versions,   \* bound: schema versions are 1..Versions
    Required,   \* columns that are not nullable
    MaxFaults,  \* bound: failed statements
    Configs     \* [proc, policy, table]: proc[t] is the process of task t, policy is "align"
                \* (ALIGN_TO_TARGET) or "strict", table tells whether version 1 exists

VARIABLES
    config, faults, task,
    adapter,    \* adapter[p]: schema of the context, _applied_schema_hash, _table_created,
                \* _existing_columns, _schema_apply_lock and the sink's _target_columns_cache
    table,      \* PostgreSQL: does the table exist, its columns, has it rows
    raced,      \* history: processes whose CREATE found the table of another one
    stale,      \* history: processes that cached columns read before their adapter learned of more
    dropped     \* history: processes that stored a row without one of its values

vars == <<config, faults, task, adapter, table, raced, stale, dropped>>

Columns(v) == 1..v
NoCache == {0}
Idle == [stage |-> "idle", row |-> 0, new |-> {}, rows |-> FALSE, read |-> {}]
NewAdapter == [schema |-> 1, applied |-> 0, created |-> FALSE, existing |-> {}, locked |-> FALSE,
               cache |-> NoCache]
P(t) == config.proc[t]
A(t) == adapter[P(t)]

Init ==
    /\ config \in Configs
    /\ faults = 0
    /\ task = [t \in Tasks |-> Idle]
    /\ adapter = [p \in Procs |-> NewAdapter]
    /\ table = [exists |-> config.table, cols |-> IF config.table THEN Columns(1) ELSE {},
                notnull |-> {}, rows |-> config.table]
    /\ raced = {} /\ stale = {} /\ dropped = {}

At(t, stage) == task[t].stage = stage
Go(t, stage) == task' = [task EXCEPT ![t].stage = stage]
Set(t, a) == adapter' = [adapter EXCEPT ![P(t)] = a]
Seen == UNCHANGED <<raced, stale, dropped>>

\* SchemaMiddleware puts the next version into the context.
Evolve(p) ==
    /\ adapter[p].schema < Versions
    /\ adapter' = [adapter EXCEPT ![p].schema = @ + 1]
    /\ Seen /\ UNCHANGED <<config, faults, task, table>>

\* write() of a record of the current schema.
Write(t) ==
    /\ At(t, "idle")
    /\ task' = [task EXCEPT ![t].row = A(t).schema,
                            ![t].stage = IF A(t).applied = A(t).schema THEN "columns" ELSE "lock"]
    /\ Seen /\ UNCHANGED <<config, faults, adapter, table>>

-----------------------------------------------------------------------------
(* _ensure_schema_applied(), for the schema the call found in the context.    *)

Lock(t) ==
    /\ At(t, "lock") /\ ~A(t).locked
    /\ IF A(t).applied = task[t].row THEN Go(t, "columns") /\ UNCHANGED adapter
       ELSE Go(t, "exists") /\ Set(t, [A(t) EXCEPT !.locked = TRUE])
    /\ Seen /\ UNCHANGED <<config, faults, table>>

\* SELECT EXISTS
TableExists(t) ==
    /\ At(t, "exists")
    /\ Go(t, IF table.exists THEN "load" ELSE "create")
    /\ Set(t, [A(t) EXCEPT !.created = @ \/ table.exists])
    /\ Seen /\ UNCHANGED <<config, faults, table>>

\* CREATE TABLE IF NOT EXISTS; the adapter takes the columns for its schema's.
create_table_if_not_exists(t) ==
    /\ At(t, "create")
    /\ Go(t, "alter")
    /\ Set(t, [A(t) EXCEPT !.created = TRUE, !.existing = Columns(task[t].row)])
    /\ IF table.exists THEN raced' = raced \cup {P(t)} /\ UNCHANGED table
       ELSE /\ table' = [exists |-> TRUE, cols |-> Columns(task[t].row), rows |-> FALSE,
                         notnull |-> Columns(task[t].row) \cap Required]
            /\ UNCHANGED raced
    /\ UNCHANGED <<config, faults, stale, dropped>>

\* A failure is only logged; without a known column the query is repeated once.
load_existing_columns(t) ==
    /\ At(t, "load") \/ At(t, "reload")
    /\ \/ Set(t, [A(t) EXCEPT !.existing = table.cols]) /\ UNCHANGED faults
       \/ faults < MaxFaults /\ faults' = faults + 1 /\ UNCHANGED adapter
    /\ Go(t, IF At(t, "load") /\ adapter'[P(t)].existing = {} THEN "reload" ELSE "alter")
    /\ Seen /\ UNCHANGED <<config, table>>

\* Mutant: the sink's cache of target columns is not invalidated.
AppliedOnly(t) == [A(t) EXCEPT !.applied = task[t].row, !.locked = FALSE]

Applied(t) == [A(t) EXCEPT !.applied = task[t].row, !.locked = FALSE, !.cache = NoCache]

alter_table_add_columns(t) ==
    /\ At(t, "alter")
    /\ LET new == Columns(task[t].row) \ A(t).existing IN
       IF new = {} THEN Go(t, "columns") /\ Set(t, Applied(t))
       ELSE task' = [task EXCEPT ![t].new = new, ![t].stage = "rows"] /\ UNCHANGED adapter
    /\ Seen /\ UNCHANGED <<config, faults, table>>

table_has_rows(t) ==
    /\ At(t, "rows")
    /\ task' = [task EXCEPT ![t].rows = table.rows, ![t].stage = "add"]
    /\ Seen /\ UNCHANGED <<config, faults, adapter, table>>

Next1(cols) == CHOOSE c \in cols : \A d \in cols : c <= d

\* ALTER TABLE ADD COLUMN IF NOT EXISTS, NOT NULL when the table looked empty: PostgreSQL
\* refuses that when it has got rows meanwhile.
AddColumn(t) ==
    /\ At(t, "add")
    /\ LET c == Next1(task[t].new)
           notnull == c \in Required /\ ~task[t].rows
           added == [A(t) EXCEPT !.existing = @ \cup {c}]
       IN  IF c \notin table.cols /\ notnull /\ table.rows
           THEN task' = [task EXCEPT ![t] = Idle] /\ Set(t, [A(t) EXCEPT !.locked = FALSE])
                /\ UNCHANGED table
           ELSE /\ table' = IF c \in table.cols THEN table
                            ELSE [table EXCEPT !.cols = @ \cup {c},
                                               !.notnull = IF notnull THEN @ \cup {c} ELSE @]
                /\ IF task[t].new = {c}
                   THEN Go(t, "columns") /\ Set(t, [Applied(t) EXCEPT !.existing = @ \cup {c}])
                   ELSE task' = [task EXCEPT ![t].new = @ \ {c}] /\ Set(t, added)
    /\ Seen /\ UNCHANGED <<config, faults>>

-----------------------------------------------------------------------------
(* The row.                                                                  *)

\* ALIGN_TO_TARGET asks for the target columns, unless they are cached.
load_target_columns(t) ==
    /\ At(t, "columns")
    /\ IF config.policy = "align" /\ A(t).cache = NoCache
       THEN task' = [task EXCEPT ![t].read = table.cols, ![t].stage = "answer"]
       ELSE Go(t, "insert")
    /\ Seen /\ UNCHANGED <<config, faults, adapter, table>>

\* The answer is cached, also when the cache was invalidated during the query.
TargetColumns(t) ==
    /\ At(t, "answer")
    /\ Go(t, "insert")
    /\ Set(t, [A(t) EXCEPT !.cache = task[t].read])
    /\ stale' = IF A(t).existing \subseteq task[t].read THEN stale ELSE stale \cup {P(t)}
    /\ UNCHANGED <<config, faults, table, raced, dropped>>

normalize_row_to_target(row, a) ==
    IF config.policy = "align" /\ a.cache # NoCache THEN Columns(row) \cap a.cache ELSE Columns(row)

\* INSERT: unknown columns and missing values are errors.
Insert(t) ==
    /\ At(t, "insert")
    /\ task' = [task EXCEPT ![t] = Idle]
    /\ LET cols == normalize_row_to_target(task[t].row, A(t)) IN
       IF cols \subseteq table.cols /\ table.notnull \subseteq cols
       THEN /\ table' = [table EXCEPT !.rows = TRUE]
            /\ dropped' = IF cols = Columns(task[t].row) THEN dropped ELSE dropped \cup {P(t)}
       ELSE UNCHANGED <<table, dropped>>
    /\ UNCHANGED <<config, faults, adapter, raced, stale>>

\* A statement raises: what ran is rolled back, the call ends.
Fails(t) ==
    /\ task[t].stage \in {"exists", "create", "rows", "add", "columns", "insert"}
    /\ faults < MaxFaults /\ faults' = faults + 1
    /\ task' = [task EXCEPT ![t] = Idle]
    /\ Set(t, [A(t) EXCEPT !.locked = IF task[t].stage \in {"columns", "insert"} THEN @ ELSE FALSE])
    /\ Seen /\ UNCHANGED <<config, table>>

Next ==
    \/ \E p \in Procs : Evolve(p)
    \/ \E t \in Tasks :
          \/ Write(t) \/ Lock(t) \/ TableExists(t) \/ create_table_if_not_exists(t)
          \/ load_existing_columns(t) \/ alter_table_add_columns(t) \/ table_has_rows(t)
          \/ AddColumn(t) \/ load_target_columns(t) \/ TargetColumns(t) \/ Insert(t) \/ Fails(t)

Spec == Init /\ [][Next]_vars

-----------------------------------------------------------------------------
\* A process that has applied a schema finds its columns in the table, and stores rows
\* whole, unless another process created the table between its look and its CREATE, or it
\* cached columns that were read before it added one.
ViewIsTrue ==
    \A p \in Procs :
        /\ Columns(adapter[p].applied) \subseteq table.cols \/ p \in raced
        /\ p \in dropped => p \in raced \cup stale
=============================================================================
