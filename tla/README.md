# Verification of agora-etl-plugins

TLA+ models of the stateful parts of `agora_plugins` (the official Agora ETL
plugins), TLC configurations that check them on small instances, and TLAPS
proofs of the main results. Paths below are relative to the repository unless
they name a module of this directory; `PROJECT.json` maps every definition to
the lines it models.

## 1. The system

Every plugin runs inside one asyncio process driven by Agora's runner, which is
not part of this repository: it opens sources and sinks, pulls records out of
`source.stream()`, writes them to sinks, calls the delivery hook of a record
once it is handled, saves checkpoints, and closes everything. Within a process
nothing is preempted: a step runs from one `await` to the next. What is hard
is what may happen during an `await` - another task of the same source, a
rebalance, an operator call, a lost reply, the death of the process.

| Component | State it keeps | Operations | Interacts with | Correct when |
|---|---|---|---|---|
| Worker leases (`distributed/lease_*`, `primary_lease_store`, `coordinator*`, `worker_session`) | `lease_tokens`, local fallback counters, renewal task; lease and fence keys in Redis | acquire, validate, renew, release, renewal loop, start, stop, local fallback | Redis Lua scripts; the runner; other workers | until a fence counter expires a token never belongs to two runs and a live lease carries the newest, a lost lease is noticed, a stopped session is quiet |
| Redlock (`distributed/redlock_*`) | `lease_tokens`, the nodes of each lease; a lease key per node, the fence key on the primary | majority acquire with rollback, renew, release, validate | N Redis nodes | two owners never hold a majority; a failed round leaves nothing behind |
| Worker registry (`distributed/worker_registry`) | worker key with TTL, heartbeat task | register, heartbeat, deregister, list | Redis | a stopped worker disappears |
| Kafka source (`kafka/sources`) | processed, committable and resume offsets, pending count, current batch, paused partitions | stream, acknowledge, commit, seek, pause, resume, poison policies, rebalance callbacks, checkpoint, close | aiokafka consumer and its coordinator task; the runner; operator | neither the committed offset nor the checkpoint passes an unhandled record; what is acknowledged is committed by close |
| Kafka sink (`kafka/sinks`) | producer, transaction, `_pending_acks` | write, write_batch, flush, transaction with source offsets, close | broker; Kafka source | a transaction is all or nothing; errors surface before the next checkpoint |
| Kafka DLQ (`kafka/dlq`, `kafka/_dlq_*`) | compaction state of a scan | write, replay, acknowledge by a delete envelope, scan to the high watermark | broker | a scan offers what was written and not acknowledged |
| Pipelines (`kafka/runtime`, `postgres/kafka`, `postgres/redis`) | open session, cached health, acceptance report | deliver, drain, accept, close | a source, a sink | a record is acknowledged only after its rows are durable |
| Schema registry (`kafka/_schema_registry_*`) | id of the writer, caches of the reader | register, fetch, encode, decode | HTTP registry | the schema id in front of a payload is the one it was written with |
| PostgreSQL sink (`postgres/sinks`) | row buffer, schema cache, connection or pool | write, write_batch, flush, poison routing, close | database; DLQ sink | a row leaves the buffer only into the table or the DLQ; the pool never exceeds its size |
| PostgreSQL source (`postgres/sources`) | keyset cursor, resume cursor | stream, checkpoint, resume | database | every row once per run, resume after the last checkpointed key |
| PostgreSQL schema adapter (`postgres/sinks/*schema*`) | known columns, cached fingerprint | create table, add column, column cache | database; other processes | a row is written with the columns the table has |
| PostgreSQL DLQ (`postgres/dlq`) | one connection and its transaction | write, replay, acknowledge, scan | database | a letter is kept until it is acknowledged |
| Redis stream source (`redis/sources`) | pending acks, reclaim cursor, last id | stream, ack, reclaim, resume by SETID, reconnect, close | Redis consumer group | an entry leaves the pending list only after it was handled |
| Redis sink (`redis/sinks`) | client, counters | write, write_batch with retries, close | Redis pipeline, idempotency markers | a retry writes nothing twice that has a marker |
| Redis DLQ, dedup, state, AI cache | keys and indexes in Redis; embedding lock | write, replay, acknowledge, scan; check-and-add; compare-and-set; get/set | Redis | indexes and records agree; the lock holder is the only writer |
| BigQuery sinks (`bigquery/sinks`) | row buffer, truncation still due, write stream, counters | write, flush by load job, flush by chunked appends, close | BigQuery, a thread | a row leaves the buffer only into the table; readiness is not claimed over rows that failed |
| BigQuery source (`bigquery/sources`) | reader thread, queue, last row | stream, checkpoint | BigQuery; a thread | rows in order; stream and reader thread do not wait for each other in vain |
| S3 sink, source (`s3`) | spool file, upload; object list and position | write, upload, scan, download | S3 | an object appears whole or not at all |
| Anthropic provider (`anthropic`) | client, semaphore | complete, stream, message batches with polling | HTTP API | every permit is returned; an answer belongs to its prompt |
| Cron, DLQ policy, source identity, configuration, metrics, doctor | none that outlives a call | pure computations and rendering | - | - |

The hazards this leaves (interleavings, crashes, lost replies, stale reads) are
listed with their lines in `PROJECT.json`.

## 2. Plan

Order: the parts where a defect loses or duplicates work first.

1. `WorkerLeases`, `WorkerLeasesProofs` - done.
2. `KafkaSource`, `KafkaSourceProofs` - done.
3. `RedisStreamSource`, `RedisStreamSourceProofs` - done.
4. `PostgresSink`, `PostgresSinkProofs` (buffer, flush, retry, poison, close,
   connection pool) - done; next its `open()`.
5. `Redlock`, `RedlockProofs` - done; next the worker registry.
6. Kafka around the source: `KafkaSink` with transactions, `KafkaDLQ`,
   `KafkaPoison`, `KafkaOperator`, `PluginProofs`, `SchemaRegistry` - done.
7. The other sinks, sources and stores: `BigQuerySink`, `StorageWriteSink`,
   `BigQuerySource`, `PostgresSource`, `PostgresDLQ`, `SchemaAdapter`, `S3Sink`,
   `S3Source`, `RedisSink`, `RedisDLQ`, `RedisState`, `EmbeddingStore`,
   `AnthropicProvider` - done.
8. Compositions: `KafkaRuntime` (Kafka source with a sink), `RedisPostgres` (Redis
   stream with the PostgreSQL sink) - done.
9. Contracts: `DurableSink`, implemented by the five other sinks, and
   `ResumableSource`, implemented by the three sources with a cursor - checked with TLC, and
   proved in `SinkProofs` and `SourceProofs` for all eight. Left: a fenced-lease
   service (one owner at a time, growing tokens) that `WorkerLeases` and `Redlock` implement.

Theorems worth proving next: `LettersKept` and `ScanIsTrue` of `RedisDLQ`; `ScanIsTrue` of
`KafkaDLQ`; `DuplicatesExplained` of the sinks.

## 3. What is modelled

### WorkerLeases

`RedisWorkerCoordinator` with a single Redis. A worker is one process; its
tasks (one runner per pipeline, the renewal loop, `stop()`) share
`lease_tokens`. Each Redis call is an `await` and therefore three steps: send,
execution of the script (`Execute`), and the application of the reply by the
task (`...Return`), to whatever the dictionary holds by then.

| Model | Code |
|---|---|
| `leaseKey`, `fence` | the lease and fence keys; `AcquireScript`, `ReleaseScript`, `Matches`, `Reply` are the Lua scripts of `primary_lease_store.py` |
| `lease_tokens`, `local_fencing_tokens` | the dictionaries of `lease_runtime.py` |
| `TryAcquire`, `Release`, `Validate`, `Renew` and their `Return`s | `lease_operations.py`, `lease_manager.py`, `primary_lease_store.py` |
| `AcquireLocal`, `StartLocal`, `StopLocal` | `fallback_to_local` |
| `LoopWake`, `LoopRenew`, `LoopCycleEnd`, `LoopDeadline` | the renewal loop of `lease_controller.py` |
| `Start`, `StopBegin`, `StopRelease`, `StopFinish` | `coordinator_lifecycle.py` |
| `CallError`, `ExecuteLate`, `Crash`, `Expire` | a failed round trip, a command that reaches Redis after its caller gave up, death of the process, the TTL |

Time is abstract: `Expire` may happen whenever a key exists. With `FencingKeyTtl`
(`fencing_key_ttl_seconds > 0`) so may `ExpireFence`, also under a live lease: acquisitions
set the TTL of the fence counter, renewals extend the lease only. The counter then starts
again at 1. `expired` remembers that it happened: uniqueness and order of tokens are
promised until then, and `release-notes/0.4.2.md:44-47` says as much. The runner
(`run`) is external: it starts a run with the token it was granted and
releases it at the end.

### Redlock

The same coordinator with `redlock_redis_urls`: one pipeline, its lease on several
independent nodes, the fencing token from the primary. An operation calls its nodes
together and waits for all of them; each call is executed by its node (`Execute`),
fails (`NodeError`), or is given up and executed later (`ExecuteLate`). Time is a
clock in ticks, because the code measures it: an operation counts only if it took
less than TTL minus drift, and a key may expire from that age on (`Expire`), which
is what a node whose clock runs fast does.

| Model | Code |
|---|---|
| `key`, `Script`, `SaysYes`, `Matches` | the Lua scripts of `redlock_scripts.py`, `lease_payload_matches_redlock` |
| `quorum`, `Validity`, `Valid` | `quorum()`, `validity_s()` |
| `Reserve`, `ReserveFails`, `AcquireReturn` | `_reserve_fencing_token()`, `try_acquire()` |
| `Renew`, `RenewReturn`, `UndoRenewReturn` | `renew()`, called by the renewal loop or by the runner |
| `RenewDeadline` | `renew_leases_once()` with `mark_all_leases_lost()` |
| `Validate`, `ValidateReturn`, `Release` | `validate()`, `release_all_nodes()` |
| `Crash`, `Expire`, `Tick` | external: death of the process, TTL, time |

A run is covered (`Owner`) from the time its lease was granted or last renewed, for
the validity time, unless it has ended or a renewal has failed; `confirmed` and
`granted` are history. A renewal that misses its quorum releases the nodes that said
yes before the runner is told, so the run goes on uncovered for a moment:
the model has that moment, and the properties do not call it covered.
The callback for a lost lease is taken to return at once; the fence counter does not expire
(`fencing_key_ttl_seconds`, by default 0; `WorkerLeases` has the case where it does); a
node does not lose its data.

### KafkaSource

One `KafkaSource` as a member of a consumer group. The generator, the rebalance
listener, the operator, `close()` and a delivery hook that outlives its stream
are tasks over one `KafkaCursorState`. A batch is an interval `lo[p]..hi[p]-1`
per partition; a commit call remembers the offsets it was sent with (`sent`)
and returns later (`reply`).

| Model | Code |
|---|---|
| `pending`, `processed`, `committable`, `start_offsets`, `resume_offsets` | `_cursor_state.py` |
| `CommitNeeded`, `CallCommit`, `CommitReturn` | `_commit_runtime.py` |
| `Open`, `CloseBegin`, `CloseReturn` | `_session_runtime.py` |
| `StreamBegin`, `Bootstrap`, `Poll`, `Emit`, `StreamFlush`, `IdleExit`, `Interrupt` | `_stream_runtime.py`, `_consumer_runtime.py` |
| `PoisonRecord`, `DropRecord`, `DecodeBatch`, `PoisonBatch`, `DropBatch` | `_delivery.py`, `_poison.py`, `_deserializer_runtime.py` |
| `Ack`, `LateAck`, `AckTransaction`, `SaveCheckpoint` | `_delivery.py`, `_cursor_state.py` |
| `Revoke`, `RevokeReturn`, `Assign` | `_rebalance.py`, `_consumer_runtime.py` |
| `CommitNow`, `Seek` | `_operator_api.py`, `_operator_controls.py` |
| `BrokerCommit`, `CommitFails`, `AutoCommit`, `OtherMember`, `StopConsumer`, `Write`, `Crash` | external: broker, other members, aiokafka, runner |

`handled`, `skipped` and `discarded` are history: the records the runner wrote or the
poison policy dropped, those an operator jumped over with a seek, and those the
positioning probe fetched and threw away. The configuration names the subscribed
partitions, the checkpoint of an earlier run (`before`), and whether aiokafka commits on
its own (`auto`, `enable_auto_commit`). `Gated` says that it does not, and that nobody
calls `commit_now()` without tracked offsets; otherwise fetch positions are committed
and `CommittedIsHandled` and `CheckpointIsHandled` promise nothing.

### RedisStreamSource

The consumers of one consumer group on one stream. Redis is the group's
last-delivered id, the pending list with its owners and the entries idle for
longer than `reclaim_idle_ms`. In a consumer, the generator (`"stream"`), the
delivery hook the runner calls (`"hook"`) and `close()` (`"close"`) share
`_pending_ack_ids`; each may be in a flush or a reconnect (`stage`) with the
ids it swapped out (`sent`).

| Model | Code |
|---|---|
| `pending`, `sent`, `Flush`, `Enqueue`, `AckReturns`, `AckFails`, `Restored` | `_ack_runtime.py` |
| `Reconnected`, `ReconnectFails` | `_connection_runtime.py` |
| `LoopTurn`, `Reclaim`, `Read`, `ReadFails`, `Yield`, `DropPoison`, `RaisePoison`, `BatchDone`, `Cancel` | `_stream_runtime.py` |
| `StreamBegin`, `CheckConsumers`, `SetId`, `ResumeFails` | `_resume_runtime.py` |
| `Open`, `Close`, `FlushDeliveryAcks`, `SaveCheckpoint`, `CallHook`, `HandleFailure` | `redis.py`, `_ack_runtime.py` |
| `Deliver`, `ReadNew`, `ClaimedEntries`, `NextCursor`, `XAck`, `Age` | external: XREADGROUP, XAUTOCLAIM, XACK, idle time |
| `Pull`, `Handle`, `Crash` | external: runner, death of the process |

A failed call may have been executed. `handled`, `seen` and `owed` are history:
what the runner handled or the poison policy dropped, the largest id delivered,
and the ids the living process accepted for acknowledgement.

### PostgresSink

The callers of one sink share its buffer and its connections. A call is a few
steps, each from one `await` to the next: columns loaded, connection acquired,
transaction ended, connection discarded, poison sink answered. What follows an
answer without an `await` (the next rows of a batch, the next flush, the
acknowledgement of `deliver()`) is part of the same step. A flush is one
transaction: strict batches are never split, and aligned batches with different
columns are committed together.

| Model | Code |
|---|---|
| `EnqueueRows`, `FlushReturns`, `DropsBuffer` | `_write_buffer.py` |
| `FlushNow`, `BeginFlush`, `Finish`, `Without`, `Prepare`, `ColumnsFail` | `_flush_runtime.py`, `_write_preparation.py`, `_sink_compat.py` |
| `Commit`, `Reject`, `ExecuteFails`, `MayRetry` | `_write_strategies.py`, `_poison_runtime.py`, the retry policy |
| `Acquire`, `Wake`, `Timeout`, `Connected`, `ConnectFails`, `Healthy`, `Unhealthy`, `Discard` | `_pool.py`, `_connection_runtime.py` |
| `PoisonWritten`, `PoisonFails`, `FlushRaises`, `Teardown` | `_poison_runtime.py`, `_close_runtime.py` |
| `WriteDone`, the method `"deliver"` | `postgres/redis.py` |

`appended`, `told`, `acked`, `promised` and `overlapped` are history: rows that
entered the buffer, rows whose own call raised, records acknowledged, rows
accepted when `flush()` or `close()` returned, and whether two calls were ever in
progress together.

### Contracts

`DurableSink` says what a sink promises the runner: a record is accepted when the
call that carried it returns, and *settled* when a `flush()` or `close()` that began
after that has returned; a settled record is durable and stays so, unless the sink has
*dropped* it. The runner saves checkpoints after `flush()`, so a settled record is never
read again. Four of the five sinks lose records in some sequences of calls and
do not say so. The contract does not hide that: such records are collected one by one in
`dropped`, there are none before an event that the sink's module names (`excused`), the
durable set is what the service has, before such an event and after it, and every record
that is not dropped stays promised.
`ResumableSource` says what a source promises: the saved checkpoint passes only rows
that are done (handled, or dropped as the failure policy says), and never goes
back. `MCPlugins` maps the state of each part onto these with `INSTANCE ... WITH` and
checks the contract as a PROPERTY.

### Sinks: BigQuerySink, StorageWriteSink, KafkaSink, RedisSink, S3Sink

Several callers share one sink (one for S3). Records are numbered in the order in
which they are handed over; `store` is the service; `accepted`, `settled`, `given`
and `overlapped` are history. A call that fails may have been executed, and one that
its caller has given up may be executed later (`RunLate`, `abandoned`).

| Module | State and steps | Code |
|---|---|---|
| `BigQuerySink` | `buffer`; `Write`, `FlushOrClose`, `RunJob`, `JobReturns`, `JobFails`; truncation by the first job; `stats` are the metrics, health and acceptance | `bigquery.py`, `bigquery_flush.py`, `bigquery_load_job.py` |
| `StorageWriteSink` | `Request` cuts the next request off the rows of a flush; `RunAppend`, `AppendReturns`, `AppendFails`; rows of acknowledged requests leave the buffer | `storage_write*.py` |
| `KafkaSink` | `buffer` is `_pending_acks`; `SendReturns`, `Confirmed`, `SendAgain`, `Transaction`, `CommitReturns`, `CommitFails`, `AbortReturns`; `Deliver` is the broker | `kafka/sinks/kafka.py` |
| `RedisSink` | an attempt is a sequence of commands (`Execute`, `Refuse`), `AttemptFails` starts the next; modes set, list and stream, `Mapping` for MSET, markers | `redis/sinks/redis.py` |
| `S3Sink` | the active file, `Upload`, `RunPut` under a conditional PUT; a `Crash` loses the file and starts again from the first record | `s3/sinks` |

`Request` of `StorageWriteSink` takes the rows that fit, at least one; rows are small or
`Large`, which counts double. In `RedisSink` an MSET writes the `Mapping` of a batch, the last record of
every key; `HoldsSince` says that a key holds a record or a later one, which is what tells an
overwritten record from a lost one.

What each sink drops, and after which event:

| Sink | Dropped records, all of them lost or possibly lost | Event |
|---|---|---|
| `BigQuerySink` | rows taken from the front of the buffer by a flush whose job did not have them; rows erased by a truncating job that runs beside another flush or after its caller has given up | two flushes were in progress at once, or a truncating job was given up |
| `StorageWriteSink` | rows taken from the front of the buffer for a request that did not have them | two flushes were in progress at once |
| `KafkaSink` | the records of a batch that joins a transaction which a failed commit or abort left open; records on their way when an abort failed; a record whose confirmation another call awaited when `flush()` returned | a commit or an abort failed, or `flush()` overlapped such a call |
| `RedisSink` | `Masked`: the marker of the idempotent script is set, the push after it fails on a key of another type, the answer of the attempt is lost, and the retry takes the marker for a push (`redis.py:41-48`) | a command was refused or an attempt failed |
| `S3Sink` | none | |

The TTL of a Redis marker and the trimming of lists are not modelled.

### Sources: PostgresSource, BigQuerySource, S3Source

| Module | State and steps | Code |
|---|---|---|
| `PostgresSource` | stream and health check with connections of their own (`Connected`, `Inspected`, `Close`), roles and the staleness guard (`Stale`), `Execute`, `Fetch`, `ReadFails` with retry, `EmitRow` | `postgres/sources` |
| `BigQuerySource` | the reader thread (`StartQuery`, `ReadRows`, `PutItem`), its queue of length one, the stream (`GetItem`, `EmitRow`), `GiveUp`, `Close`, the thread that a cancelled stream leaves in `Queue.get()` (`getter`, `GetterReturns`, `stranded`) | `bigquery/sources` |
| `S3Source` | the listing (`NextKey`) while uploaders add objects, `Download`, `EmitRow` | `s3/sources` |

The runner handles a row at a time and saves the checkpoint it finds then
(`Handle`). Rows become visible in cursor order and the checkpoint column is not NULL;
two rows of the BigQuery model share a value of it, and the tiebreaker tells them
apart. `Query` of `BigQuerySource` lists the rows its WHERE clause selects in ascending order.

### Dead-letter queues: PostgresDLQ, RedisDLQ, KafkaDLQ

`PostgresDLQ` has one connection whose open transaction its callers share (`view`
beside the committed `store`), with reconnects (`Lost`, `Again`). `RedisDLQ` has a hash
per letter, the primary and secondary lists, the scripts and the two-step path of
clusters with letters of an older release. `KafkaDLQ` has put and delete
envelopes in the producer and in the partitions, and a scan that joins, seeks and polls
up to the high watermark or until idle. `written`, `removed`, `replays` and `mixed` are
history. The replay loop that calls `replay()` and filters by
`max_attempts` is the runner's and external; a rebalance during a Kafka scan is not
modelled; a Redis scan reads one key per chunk. Letters of `PostgresDLQ` are
numbered in the order of `created_at`, by which `Select` sorts.

### Kafka around the source: KafkaPoison, KafkaOperator, KafkaRuntime, SchemaRegistry

- `KafkaPoison` (`_poison.py`, `_poison_controller.py`, `_delivery.py`): records that
  cannot be deserialized are skipped, raised or written as dead letters, one at a time
  or per batch, before their offset may be committed.
- `KafkaOperator` (`_operator_controls.py`, `_operator_api.py`): pause and resume of
  some or all partitions, what the controller remembers (`paused`, `pause_all`) and what
  the consumer holds (`held`), across rebalances, polls and sessions. Rebalances are
  eager, and aiokafka raises for a partition that is not assigned (`Handled`).
- `KafkaRuntime` (`kafka/runtime.py` and the acceptance gates on top of it): processes of
  one group deliver, flush, commit (with a transactional sink: send offsets, commit the
  transaction), close and crash; the health snapshot with its cache, which
  readiness probes share. The source is reduced to position, committable offset and pending count;
  `store` is a sequence with each row once when the sink upserts.
- `SchemaRegistry` (`_schema_registry_*.py`): writers resolve an id in `open()`
  in each mode, messages carry the wire prefix (ids and message indexes in bytes), readers
  look the id up and cache it; a restarted writer may have a newer schema.

### Stores and the rest: RedisState, EmbeddingStore, SchemaAdapter, RedisPostgres, AnthropicProvider

- `RedisState` (`redis/state/redis.py`): one key with the client's expiry and the
  Redis TTL; `get()` and `delete_prefix()` delete with a second command what they
  saw with the first. Values are counters, so that a lost compare-and-set would show.
- `EmbeddingStore` (`redis/dedup/stores/embedding.py`): `exists()`, `add()` and
  `mark_if_new()` under the renewed lock, with entries that expire under their index and
  a lock that can be lost. SSCAN returns the index in one batch.
- `SchemaAdapter` (`schema_adapter.py`, `_schema_*_runtime.py`): processes with
  different schema versions create and alter one table under the advisory lock; adapter
  and column caches; alignment of the row. `auto_create` and `auto_alter` are on; the
  preflight of upsert constraints is not modelled. `stale` is history: the
  processes that cached columns read before another task of theirs added one.
- `RedisPostgres` (`postgres/redis.py`): a message is transformed, written with its
  delivery key, flushed and acknowledged; processes crash, are reclaimed from and
  redelivered to. `Writable` is PostgreSQL's rule that one
  `ON CONFLICT DO UPDATE` may not touch a row twice; `Written` is the table after such a
  statement, `Untouched` and `Missing` the rows it leaves alone and adds. A mapper that overwrites
  the delivery key is excluded.
- `AnthropicProvider` (`anthropic/`): calls, streams and batches under one semaphore,
  retries, cancellation, and calls made while a stream is open.

## 4. Runs

`tlc -config <cfg> <MC module>`; `MCWorkerLeases`, `MCRedlock`, `MCKafkaSource`,
`MCRedisStreamSource`, `MCPostgresSink` and `MCPlugins` hold the small sets the configurations use.

| Run | Question | Bounds |
|---|---|---|
| `leases_safety` | two workers on one pipeline, lost replies, a crash, expiries of the lease and of the fence counter: types, unique tokens, newest token, quiet stop, a running lease is only lost to its TTL | 2 workers, 1 pipeline, 2 tokens, 1 fault |
| `leases_sessions` | sessions on Redis and on local leases alternate, two pipelines renewed from one snapshot; a lease gone from Redis is eventually dropped | 1 worker, 2 pipelines, 1 token, no fault, no TTL of the counter |
| `leases_shutdown` | violation, see below | 1 worker, no fault |
| `redlock_exclusion` | two workers on three nodes, calls that fail, come late or outlive their caller, deadlines, a crash, keys that expire early: never two covered runs, a covered run has its quorum, a grant is live, a minority is given back | 2 workers, 3 nodes, 2 tokens, 1 tick (TTL 2, drift 1), 1 renewal or validation, 1 fault |
| `kafka_delivery` | one partition under every configuration (poison policy, single or batch mode, transactional sink, auto-commit, operator seeks, operator flushes of tracked offsets), or two of which one has a checkpoint to resume from; rebalance, failed commit or crash, restart from the checkpoint | 2 records, the second poison, polls of 2, 1 rebalance, 1 fault |
| `kafka_commit_now`, `kafka_close` | violations, see below | the smallest that show the case |
| `redis_stream_delivery` | one consumer of two entries with a poison record under both policies, and two consumers that contend for one entry; lost calls, reconnects, crashes, reclaim, resume by SETID: nothing lost, no acknowledgement forgotten | 2 consumers, 2 entries, batches of 2, 1 fault |
| `redis_stream_progress` | reclaimed entries do not starve new ones; an entry whose reply was lost is handled in the end | 1 consumer, 2 entries, batches of 1, 1 fault; acks and the claim limit on and off |
| `redis_stream_rewind` | violation, see below | 2 consumers, 1 entry, no fault |
| `postgres_writes` | one caller under every policy, and three deliveries on a pool of two: no row is lost, `flush()` and `close()` are durable, an acknowledged record is committed, the pool keeps its size, every call ends | 3 records (one rejected, one that cannot be aligned), 2 attempts, 1 fault |
| `plugin_contracts` | every other sink, source, dead-letter queue, store and runtime under its configurations, against the contract of its kind and the properties below | per part, in `MCPlugins`: 1 or 2 callers or processes, 2 to 5 records, 1 or 2 faults |

`plugin_contracts` explores twenty modules that do not interact with each other: a
behaviour picks one (`part`) and takes the steps of that module only; variables it
does not have keep the value `Unused`. A property of the run is the conjunction, over
the parts, of the property of that name in the part's module.

| Property of `plugin_contracts` | Says |
|---|---|
| `SinkContract`, `SourceContract` | the contracts above, for five sinks and three sources; the sinks' with the records they drop excepted one by one |
| `RowsKept` | a record between the caller and the service, or between a source and the sink a runtime writes to, is written, buffered or awaited, or it is one of the records that the part names as dropped, masked, passed over or lost; the sinks have none before the event that the table of sinks names |
| `DuplicatesExplained` | a record is written twice, or told to be new twice, only when an outcome was lost or a guard expired |
| `ReportIsTrue` | counters, positions, readiness, acceptance and answers after failures and retries tell what has happened; not promised for BigQuery flushes that overlap; Redis counts a masked record as a mutation, and the gate of the Kafka runtime does not see what a drain passed over |
| `ReadyIsWritten` | a BigQuery sink that shows itself ready has written what it accepted, but for what it dropped |
| `EmittedInOrder` | rows and chunks come in order, without gaps nobody has decided on |
| `ConnectionsAccounted` | connections and permits are free or in the hands of a call that will return them |
| `NobodyWaitsForever` | the BigQuery stream waits only for a thread that will answer, and the thread only for a stream that listens; not promised to the thread a cancelled stream leaves behind |
| `LettersKept`, `ScanIsTrue`, `AttemptsCounted` | a letter is kept until acknowledged, a scan shows the letters that are there, attempts count replays |
| `ViewIsTrue` | the index, value, pause, columns or schema a process relies on is the real one, or a race that the history names has made it false |

Bounds are chosen so that each conflict can occur: two workers and two tokens
are the smallest instance in which a stale owner meets a newer one; one fault is
enough for a lost reply followed by a retry, and the fault may be a crash; two
records leave one in hand and one acknowledged or unread (`AtLeastOnce` is proved
for a log of any length); one tick ends the validity time of everything before it,
so a lease can be lost to its TTL and acquired by the other worker (`Exclusion` is
proved for any time); `CommitEvery = 2` makes the commit gate open and stay shut; in `plugin_contracts` a
record that cannot be written or mapped, one that is too large for its request, and a batch
smaller than the input make flushes succeed, fail and fail in part.
The configuration of a source is a variable that never changes (`config`), so one
run covers every configuration. Workers are interchangeable in `leases_safety`,
workers and nodes in `redlock_exclusion`
and consumers in `redis_stream_delivery`
(SYMMETRY; no liveness there).
`CHECK_DEADLOCK FALSE` everywhere: with the bounds used up, or all
sessions stopped, the systems really do stop.

Fairness (`leases_sessions`): weak fairness of the renewal loop's own steps and
of Redis executing a command that was sent. The loop sleeps for a finite interval
and asyncio runs every ready task; a call to a reachable Redis is answered or
fails. Nothing is assumed about the runner or about expiry.

Fairness (`redis_stream_progress`): weak fairness of the generator with the runner
that pulls from it, of every task that waits for Redis, of handling a record and
calling its hook, and of an unacknowledged entry growing old. asyncio runs every
ready task, a call to Redis returns or fails (the number of failures is bounded),
and time passes. Nothing forces a consumer to start, to be cancelled or to close;
both properties end when it stops streaming.

Fairness (`postgres_writes`): weak fairness of the steps of a call in progress:
database calls return or fail, and a wait with `pool_acquire_timeout_s` ends. The
deployments considered have that timeout; without it `CallsEnd` does not hold,
because a discarded connection wakes no waiting task.

### Findings

Each is a `violation` run; `PROJECT.json` quotes the sentence or test the code
departs from.

- `leases_shutdown`: a refused renewal of an older run discards the lease of a
  newer run, and `stop()` then leaves that lease in Redis until its TTL.
- `kafka_commit_now`: `commit_now()` without tracked offsets commits fetch
  positions, past records not yet handled. The same property (`BrokerCommitsGated`) is also
  broken by the positioning probe: resuming from a checkpoint that names a partition not
  assigned yet, it polls with timeout 0 and throws a prefetched record away, and the next
  commit passes it. TLC shows that one with `Configs <- ResumingOnly` and `MaxRebalances = 0`;
  the passing run has the step too and excepts exactly the records in `discarded`.
- `kafka_close`: a record acknowledged while a commit is awaited loses its pending
  count, so `close()` does not flush it.
- `redis_stream_rewind`: XINFO CONSUMERS and XGROUP SETID are separate calls; a
  consumer that joins between them has the group rewound under it.

More behaviours are in the models but stated by no run, because no document
promises the opposite: overlapping flushes of a `PostgresSink` delete buffered rows
by position and can drop one that was never written, which is why `RowsKept` and
`FlushIsDurable` speak of calls that do not overlap (`AckedIsDurable` does not need
that); a renewal in flight across `release_lease()` writes the
released lease back into `lease_tokens`; and acknowledging a record of a revoked partition
puts the partition back into the committable offsets.

In the parts of `plugin_contracts` the history variables name such cases:

- overlapping flushes of the BigQuery sinks take rows of each other from the buffer
  (`dropped`, `overlapped`);
- a truncating load job that outlives its caller can empty a table written since (`dropped`);
- after a failed commit or abort of a Kafka sink later batches join the open transaction and
  are answered for, and a `flush()` returns while another call awaits a confirmation (`dropped`);
- a Redis script that fails between its marker and its push, in an attempt whose answer is
  lost, hides the record from the retry (`Masked`);
- `drain_to()` with a maximum, or one that raised, closes the stream with fetched records in
  hand; the next drain of the session goes on behind them and its commit passes them
  (`passed_over`, `runtime.py:226-246`);
- a BigQuery stream cancelled while it waits for the queue leaves a thread of the default
  executor in `Queue.get()` for ever (`stranded`, after `Start`, `GiveUp`,
  `StartQuery`, `Close`), and the executor waits for it at shutdown;
- a call made while a stream is open waits for the permit that the stream holds, for
  ever if `max_concurrency` is one;
- `resume()` of everything, after `pause()`, a rebalance and `pause([p])`, resumes `p`
  only and leaves the others held (`left`); the remembered set survives `close()`, and the pause at
  the next start is refused while a partition in it is not assigned (`refused`);
- after a failed flush, the same message delivered again in one process puts two rows
  of one key into one upsert, which PostgreSQL refuses until the buffer is gone;
- `validate()` of Redlock adds up answers that nodes gave at different moments.

`PROJECT.json` lists the ones a property is about as hazards.

Four properties were first stated too strongly, which larger bounds or a proof attempt showed:
a Kafka scan need not see the state at the end of the log, since a letter can be deleted and
put again behind it (`ScanIsTrue` now speaks of letters of which nothing was delivered since
the scan began); and attempts are not counted for a letter that somebody is acknowledging
(`PostgresDLQ`) or that a replay brought back (`RedisDLQ`), nor under Kafka start offsets when
messages fetched while the scan joined lie before the offset and envelopes between them
and the offset are skipped (`hasty`).

## 5. Proofs

Checked by `tlapm` (Z3, Zenon, LS4).

`WorkerLeasesProofs`, for any sets of workers and pipelines and any bounds:

- `TypeCorrect`: types.
- `StopQuiesces`: a stopped worker has no task in flight and believes in no lease.
  `StoppedIsQuiet` is not inductive; `QuietInv` adds what holds in the phases on
  the way there (the loop is off and its slot idle once `stop()` has begun, and
  only pipelines still to be released keep a token).
- `NewestToken`: a lease in Redis carries the current value of its fence counter, or the
  counter has expired and is gone.
- `FencingTokensUnique`: until a counter has expired, one token is never known by two
  workers; `CountersStay`: without `fencing_key_ttl_seconds` none expires. The inductive
  invariant says that every token anyone knows - in a dictionary, a run, a command or
  reply in flight, a command abandoned by its caller or the lease key - was issued by
  the counter, and to one worker (`TokensIssued`, `OwnCalls`).
- `FallbackHolds`: on the local fallback the dictionary is exactly the runs, and no task
  of an earlier session is at work. A worker can come to the fallback again after a session
  on Redis, so `SessionInv` says what it carries from phase to phase: no run outside a
  session, an empty dictionary in a new process.
- `LeaseStable`, an action property, again until a counter has expired: only the TTL takes the lease of a run in progress out of
  Redis. What could break it is a release that arrives late. `ReleaseInv` says who
  may release at all (`TaskOps`), that every token that can reach the script was issued
  (`IssuedInv`), and that the token of an abandoned release is retired: its worker runs
  under another one and no answer under way brings it back (`RetiredInv`).

`RedlockProofs`, for any workers, any finite set of at least three nodes, any TTL
and drift, and any number of ticks, tokens and faults:

- `CoveredHasQuorum`, `Exclusion`, `GrantsAreLive`. `OwnerHasQuorum` is not
  inductive: a worker decides from yes answers, and an answer is worth a key only if
  nothing has removed the key since. `IInv` says of every acquisition and of every
  renewal of a covered run that its yes answers are keys as long as it is valid
  (`AnswersHold`), that the token of an acquisition is used by nothing else
  (`AcquireInv`), and that nothing under way releases the token of a covered run
  (`CoverInv`). `Step` summarises what any step does to one worker, so that the
  parts of the invariant are proved from it without going through the actions
  again; `LeaseStays` is the only argument about keys. Exclusion then follows
  because two quorums have a node in common.
- `TypeCorrect`: types.
- `NothingLeftBehind`: as long as no call fails, a key belongs to a granted lease or to a
  call of its worker that is under way. `PartialUndone` is not inductive: `PartialInv` adds
  that nothing was given up, and that the acquisition has the node among its yes
  answers, or the release still has it to do (`Undecided`).

`KafkaSourceProofs`, for any finite set of partitions, any log length, commit
interval and poison set:

- `TypeCorrect`, `PendingTracked` (a pending count implies a tracked offset, so
  a forced commit never falls back to fetch positions), from `BaseInv`.
- `AtLeastOnce` and `CheckpointSafe`: committed offset and saved checkpoint cover only
  records that were handled, skipped by the operator or thrown away by the probe
  (`discarded`), wherever commits are `Gated`: manual, and no `commit_now()` without tracked
  offsets. `HandledInv` carries the argument:
  everything below an offset that may still become a commit - committable, sent
  in a call, resume target, the record in hand, the batch, the fetch position - is
  handled, skipped, discarded, or still between the committed position and the fetch position
  in the consumer's hands. It is needed because an offset travels through all these
  places before the broker sees it.

`RedisStreamSourceProofs`, for any set of consumers, any stream, batch sizes,
poison set and number of faults:

- `TypeCorrect`: types.
- `AtLeastOnce`: an entry the group has moved past was handled or is pending.
  `NothingLost` alone is not inductive, because SETID can move the group's cursor
  to a checkpoint and XACK removes whatever ids a task swapped out. `LogInv` adds
  that no cursor, checkpoint or batch is beyond the largest id ever delivered, that
  everything up to that id is handled or pending, and that only ids of handled
  entries are queued or on their way to XACK.
- `NoAckForgotten`: an id that `enqueue_ack()` accepted is in the list, in an XACK under way,
  or no longer pending. Tasks swap the list, send it and put it back; `KeptInv` adds that a
  task which awaits no XACK has sent nothing (`SentInv`), and where the generator and
  `close()` can be while they await Redis (`PlaceInv`), so that no task overwrites what
  another one has sent.

`PostgresSinkProofs`, for any finite set of callers, any pool size and any number of
failures:

- `PoolKeepsSize`: the slot counter equals the idle connections plus the tasks
  that have one or a slot for one, and stays within `pool_size`. `PoolInv` adds
  that a call of `close()` is alone and that nothing follows it: without that,
  the reset of the counter in `close()` would be wrong for a connection in use.
- `TypeCorrect`: types.
- `AckedAfterCommit`: what is acknowledged is in the table, also when calls overlap. `deliver()`
  decides from the return of its flush; `DeliverInv` follows the rows of a delivery: still to
  be appended, in the snapshot its flush works on, or in the table, whatever other callers
  delete from the buffer.
- `NoRowLost`, `FlushKeepsPromise`: without overlap, a row of the buffer goes to the table
  or the poison sink or its call raises, and a flush that returned has left none behind.
  `KeptInv` adds that there is one call, that its snapshot is the buffer it deletes from, and
  that with a batch of one row the buffer, which is then dropped on an error, has no row of
  a finished call (`SingleRow`).

The run `plugin_contracts` checks conjunctions over the parts. A theorem of `SourceProofs`,
`SinkProofs` or `PluginProofs` states the conjunct of one part, for every value of its constants; it has
the name of the module it is about in front of the `!`, or none if the proof module extends it.

`SourceProofs`, one part for each source with a cursor and one each for the PostgreSQL and the
Kafka dead-letter queue, for any configurations and any number of faults.

`S3Source` (`Objects \in Nat`, any set of bad rows):

- `PlaceIsFrontier`: everything before the place the stream reads from is done, and so
  is everything the checkpoint passes.
- `SourceImplementsContract`: `S3Source` implements `ResumableSource` under the mapping
  `MCPlugins` uses: initial states map to initial states, every step to a step of the
  contract or to a stutter. The contract alone is not inductive: what is saved is the last
  object completed, not the set of rows done. `Inv` says where the stream stands
  in its page and its object (`Places`), that all rows before that place are done
  (`Frontier`), and that the object completed last, or the one the stream resumed from,
  is done and not before the saved checkpoint (`Checkpoints`).
- `RowsInOrder`: rows come in key order, once, after the checkpoint. `Order` adds that no
  row given is after the place the stream has reached.
- `EndMeansDone`: a stream that ended has given or dropped every row it listed (`Ended`).

`PostgresSource` (`End` and the batch sizes are numbers):

- `PostgresResumes` (it implements `ResumableSource`), `PostgresInOrder`,
  `PostgresReportIsTrue`, `PostgresConnections`. The rows of the query not yet seen are the batch
  and what the cursor has still to fetch, next to each other (`PgPlace`); what lies before them is done, and
  no saved checkpoint is past them (`PgDone`); what was emitted lies before them (`PgOrder`)
  and is all of it until a row is dropped (`PgComplete`). A read is retried only before the
  first row, which is why a retry repeats nothing. `PgConns` says that every open connection
  belongs to one of the two actors or was lost, and to no two; it is needed because a step that
  closes one names it by the id its call has.

`BigQuerySource` (`BqConfigs`: the kinds of checkpoint there are, batches of at least one row):

- `BigQueryResumes` (it implements `ResumableSource`), `BigQueryInOrder`, `BigQueryCompleted`,
  `BigQueryReportIsTrue`, `BigQueryNobodyWaits`. The pump thread is ahead of the stream: rows are
  in its batch, in the queue and with the stream, in this order and next to each other
  (`BqPlace`), so what the stream emits next follows what it has emitted (`BqOrder`), and
  what is done is a prefix (`BqDone`). `BqThreads` says which stages of stream, pump and queue go
  together: a pump that has ended has left its last item in the queue, unless the stream has
  told it to stop; then it leaves nothing, and a thread that a cancelled stream has left in
  `Queue.get()` stays there (`stranded`; `NoThreadStranded` does not hold). `BqComplete` adds that, until rows are dropped, what was emitted is what
  the stream has seen of the query, and all of it when it succeeds.

`PostgresDLQ`:

- `DeadLettersKept`, without assumptions. The letters of the table are not enough, because the
  connection's open transaction becomes the table when anyone commits: `PdKept` says of every
  call that has returned that its effect is in both, unless its caller still has statements in
  the transaction, and `PdNamed` that the id and the letter of a row belong together.
- `DeadLettersScanned` (`Letters \subseteq Nat`): the rows selected and not yet offered
  follow those offered, in order, and together they are what was there (`PdScan`).
- `DeadLettersCounted`, for configurations with finitely many callers (`PdFew`; the property is about one).
  What a rollback takes away must belong to the one caller, which has not been told that
  it succeeded: an open or failed transaction is that call's own (`PdOwned`). Besides, a letter has one
  row, with enough attempts, in the table and in the transaction (`PdRows`); a row that a scan has
  read is still the letter's row until the caller replays it (`PdSteady`), so the attempt that
  `replay()` writes, one more than was read, is ahead of what is stored (`PdReplaying`).

`KafkaDLQ` (`Letters \subseteq Nat`, which gives a letter its partition):

- `KafkaLettersKept`. Deliveries to one partition overtake those to the other, so the buffer
  followed by the topic is not the order of the calls. `KdKept` says it per letter: the last envelope of
  the letter is in the buffer, or, if the buffer has none, in the letter's partition, and it is the
  one of the last call. It holds until a delivery fails or the process dies, and `KdTypes` adds that
  a closed sink has an empty buffer.

`SinkProofs`, one part for each sink, for any number of records and failures.

`BigQuerySink` with any callers and any set of rows that cannot be mapped (assumption
`Bounded`: `End` is a number, configurations have a batch size and a flag):

- `NoRowLost`, `ReadyMeansWritten`: what the load-job sink was handed is in the table, in
  the buffer or dropped, and if it is ready, in the table or dropped. The accounting (`Accounted`)
  holds through overlaps too: a job that has run has its rows in the table unless they were
  erased (`RanIsLoaded`). That nothing is dropped before an overlap or a truncating job that was
  given up is `Kept`: deleting from the buffer by count is right as long as the job has
  the front of the buffer (`FrontOfBuffer`), there is one job (`OneJob`), and a job truncates
  only while the table has no record (`TruncatesOnce`).
- `BigQuerySinkImplementsContract`: it implements `DurableSink`; `Promised` follows
  what a flush has promised through its batch into the table, but for dropped rows.
- `PassedReportIsTrue`: a report that passes means every record is in the table exactly
  once. `Exact` counts: the buffer is the rest of what was handed over after the rows loaded
  (`BufferIsRest`), and the table is the old row, unless truncated, followed by the rows
  loaded or run (`TableIsLoaded`, `TableIsRan`), as long as no flush has failed.

`StorageWriteSink` with any callers, request limits and sets of large or bad rows (`End \in Nat`):

- `StorageWriteNoRowLost`, `StorageWriteReadyMeansWritten`, `StorageWriteReportIsTrue`,
  `StorageWriteSinkImplementsContract`. A flush sends several requests and shortens the buffer
  after each. `SwAccounted` follows every row, also when flushes overlap, into the table, the
  buffer or `dropped`. `SwKept` says that the rest a flush has still to send is the front of the
  buffer and that nothing is dropped, as long as flushes do not overlap. `SwExact` adds, until an append fails, that table and buffer together
  are the records in order, which is what the counters of a passed report rest on.

`S3Sink` with any file size and crashes, and one caller (assumption `OneCaller`, which is
how the runner calls a sink):

- `S3NoRowLost`, `S3SinkImplementsContract`: what the S3 sink accepted is in an object or in
  the active file, and what `close()` answered for is in the bucket. `S3Inv` adds what a call
  has done so far (`S3Progress`): a write has put what it is past into the file or an
  object, and an upload that ran has the rows of the active file in an object, which is why
  the file may be dropped; and that nothing is settled before the sink is closed, which
  is why a crash takes nothing back.
- `S3ReportIsTrue` (and there is a caller): no more records are counted than objects hold, and as many, until
  an upload or a process fails. It counts the rows of objects file by file.

`RedisSink` with any callers (`RsAssumptions`: MSET is used for values of keys only):

- `RedisNoRowLost`, `RedisReportIsTrue`, `RedisSinkImplementsContract`. An attempt whose outcome
  is not known may still be carried out beside its retry. `RsCalls` says that what
  the commands of an attempt have executed is written, or has a marker in list mode, and that
  calls have records of their own; `RsAccepted` that an accepted record or a later one of its key
  stays, or its marker does (these are the records `Masked` excepts), `RsCounts` that no more
  mutations are counted than that. Without overlap there is one
  call, with records after all accepted ones (`RsAlone`), so that a key holds the newest (`RsNewest`).

`KafkaSink` (`KsAssumptions`: any callers without transactions, one caller with them):

- `KafkaNoRowLost`, `KafkaSinkImplementsContract`. A confirmation changes hands: a send adds it to
  `_pending_acks`, a call swaps the list out and awaits it. `KsBase` says how far a call of each kind can be, and that
  a record not yet sent is in one call and nowhere else; `KsModes` which stages a transaction
  allows; `KsPlaces` that, but for what was dropped, a record that was sent and not answered is
  awaited, one that is awaited and confirmed is in the topic or the open transaction, and
  accepted records are among these: also after a commit or an abort has failed. `KsDropped`
  says that nothing is dropped before that, or before `flush()` returned beside a call that
  awaits a confirmation.

`PluginProofs`, one part for each of eight other modules.

`KafkaOperator`, for any set of partitions (numbers, `Parts \subseteq Nat`) and any
number of calls, rebalances and sessions:

- `PausesAreTrue`: in a stream the consumer holds back exactly what the controller has as
  paused. `ViewIsTrue` is not inductive, because partitions left held by a `resume()` of
  everything could come to be counted twice or missed at the start of a stream: `Inv` adds that they are held,
  assigned, and unknown to the controller (`Leftovers`), and that before the stream
  begins nothing else is held than what the controller wants (`Views`).
- `PauseReportIsTrue`: the reported number of paused partitions, from it.

`AnthropicProvider`, for any finite set of tasks and any number of permits, chunks and prompts (`ApAssumptions`):

- `AnthropicPermits`, `AnthropicInOrder`, `AnthropicBatchInPlace`. The semaphore's value plus the
  tasks in a stage that holds a permit is its size; per task, `ApTaskOk` says that what was yielded
  is a prefix of one attempt's response and what a batch has collected is an answer in its place.

`KafkaPoison`, for any of the policies (`KpAssumptions`):

- `PoisonNothingSkipped`, `PoisonReportIsTrue`. A capture can be interrupted between two dead
  letters of a batch, so `KpInv` says how far the batch in hand reaches above the committed
  offset, and that the letters already sent in the capture under way are stored.

`KafkaRuntime`, for any processes of a group and any number of records (`KrAssumptions`):

- `RuntimeNoRowLost`: the committed offset passes only rows that are stored, in the memory of a sink
  that is not flushed, or lost in one of the two ways the module names: passed over by a second
  drain, or gone with such a memory. What may become the committed
  offset is in a session first, so `KrHolds` says that what a session may commit is kept, and that up to the
  position of its consumer every other record is in its batch, in hand or left behind.
- `RuntimeReportIsTrue`, with `KrOneMemory`: where health is probed, the runtime flushes, or there is
  one process and the sink is not an appending one. Without flush, delivered rows are in the
  memory of a process, and another process's probe cannot tell them from stored ones.
  The cached snapshot was true when it was taken, and offset and store only grow.

`RedisPostgres`, without assumptions:

- `PipelineNoRowLost`, `PipelineOneRow`: an acknowledged message has its row, and no message
  has two in a pipeline that passed `ensure_ready()`. A delivery is written, flushed
  and then acknowledged: `RpKept` says that the message being flushed is in the buffer, that
  what awaits its acknowledgement is in the table, and that the table has no row twice.

`EmbeddingStore` (`EsAssumptions`: callers are workers, and `"none"` is not one):

- `EmbeddingOnce`: whoever holds the lock and is about to store has seen every similar text
  in its scan (`EsSeen`), and nobody else can store meanwhile (`EsGuarded`), unless the lock
  was lost or a member hidden.
- `EmbeddingIndexed`: a value without its index member is between the two writes
  of a call, hidden, or stored without the lock (`EsIndexed`).

`RedisState` (`RbAssumptions`: times are numbers below `Never`, a client's clock runs ahead by a number):

- `StateNoLostUpdate`, `StateOneCreation`: until a client deletes a value too early, `RbHeld` says, a value is
  stored as long as anybody it was new to has a claim on it, which ends with the TTL.

`SchemaAdapter`, for any processes, tasks and schema versions (`SaAssumptions`):

- `AdapterViewIsTrue`. A task is past the schema step with the row of an older or newer
  schema than the process has applied last, so `SaKnown` says that the process never forgets a
  column, and `SaCached` that its cache has the columns of every row under way. With three tasks in a
  process a cache can be read before one of them adds a column and installed after; `stale`
  names these processes.

Only model-checked:

- liveness under fairness, which is outside what the prover does: `LostLeaseNoticed`,
  `NewEntriesRead`, `PendingEventuallyHandled`, `CallsEnd`;
- `ViewIsTrue` of `SchemaRegistry`, which parses the wire prefix with a recursive operator. `MCPlugins`
  reaches it and therefore holds no theorem: the theorems are about the modules it
  instantiates, and its properties are their conjunctions;
- `DuplicatesExplained` of the sinks, `KafkaRuntime` and `KafkaPoison`: how often a row occurs in a
  table is the size of a set of positions, and is left for later;
- `LettersKept`, `ScanIsTrue` and `AttemptsCounted` of `RedisDLQ`, and the last two of `KafkaDLQ`,
  whose scan folds messages into a table: what it computes needs an induction over data;
- the violation runs.

## 6. Not modelled

- The worker registry and its heartbeat: nothing else reads what they write, and the
  leases do not depend on them.
- Cron, shared DLQ policy and redaction, source identity, configuration parsing,
  doctor checks, metrics rendering and tracing: pure computations or output, without state that outlives
  a call. SQL, DDL and identifier quoting, payload codecs and request bodies: text and
  data, reduced to what the properties tell apart.
- In the modelled components: the wording of errors, logging, latency
  histograms, the measurement of lag, wall-clock durations; the `psycopg_pool`
  variant of the PostgreSQL pool; `open()` of the PostgreSQL sink with its upsert preflight;
  overlapping callers of a `PostgresSink` without a pool, which share one transaction
  (listed as a hazard without a property); start and close of the Redlock clients and a
  node that loses its data; a rebalance during a scan of the Kafka DLQ; the TTL of Redis
  markers; overlapping callers of the S3 sink.
- Outside the repository, and modelled only as this code uses them: Agora's runner, aiokafka,
  redis-py, psycopg, the BigQuery, S3 and Anthropic clients and the services behind them.
