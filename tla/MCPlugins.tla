----------------------------- MODULE MCPlugins -----------------------------
(* The plug-ins around the runner on small instances: sinks, sources, dead-   *)
(* letter queues, stores, codecs and runtimes, checked against the contracts   *)
(* of their kind. part says which one a behaviour is about; variables that it  *)
(* does not have keep the value Unused.                                       *)
EXTENDS Integers, Sequences, TLC

CONSTANTS a, b, Unused

VARIABLES
    part, config,
    client, task, buffer, store, stats, given, accepted, settled, faults, abandoned,
    overlapped, in_transaction, delivery, txn, torn, marks, call, conns, leaked, params,
    rows, batch, progress, success, left, emitted, done, saved, pump, item, queue, stop,
    getter, stranded, listed, conn, scan, hand, written, removed, gone, replays, mixed, index, revived,
    dropped, position, intent, hasty, opens, log, committed, owner, session, lost,
    passed_over, report, sent, missed, events, assigned, held, rejoining, active, paused,
    pause_all, fetched, refused, turns, current, pending, lastId, pel, acked, passed,
    values, dims, lock, fresh, hidden, bypassed, unguarded, now, stored, updates, swept,
    adapter, table, raced, stale, writer, reader, registry, topic, cache, decoded, permits,
    yielded

Both(x, y) == (a :> x) @@ (b :> y)

B == INSTANCE BigQuerySink WITH
        Tasks <- {a, b}, End <- 3, Misfit <- {3}, MaxFaults <- 1,
        Configs <- [batch_size : {2}, truncate : BOOLEAN]
W == INSTANCE StorageWriteSink WITH
        Tasks <- {a, b}, End <- 4, Misfit <- {4}, Large <- {2}, MaxFaults <- 1,
        Configs <- [batch_size : {3}, max_request : {2}]
K == INSTANCE KafkaSink WITH
        Tasks <- {a, b}, End <- 4, Misfit <- {4}, MaxFaults <- 1,
        Configs <- [callers : {{a, b}}, max_pending : {2}, mode : {"plain"}] \cup
                   [callers : {{a}}, max_pending : {1, 2}, mode : {"plain", "per_batch", "manual"}]
R == INSTANCE RedisSink WITH
        Tasks <- {a, b}, End <- 3, MaxFaults <- 2,
        Configs <- [callers : {{a, b}}, mode : {"list"}, mset : {FALSE}] \cup
                   [callers : {{a}}, mode : {"set", "xadd"}, mset : {FALSE}] \cup
                   [callers : {{a}}, mode : {"set"}, mset : {TRUE}]
S == INSTANCE S3Sink WITH
        Tasks <- {a}, End <- 4, MaxFaults <- 2, Configs <- [size : {1, 2}]

PSBase == [health_checks |-> FALSE, checkpoint |-> TRUE, log_and_continue |-> TRUE,
           read_routing |-> "any", guard |-> TRUE, route_primary |-> TRUE, batch_size |-> 2,
           bad |-> {2}, unmapped |-> {1}]
PS == INSTANCE PostgresSource WITH
        End <- 3, MaxFaults <- 2,
        Configs <- {PSBase, [PSBase EXCEPT !.checkpoint = FALSE, !.bad = {}, !.unmapped = {}],
                    [PSBase EXCEPT !.health_checks = TRUE, !.log_and_continue = FALSE,
                                   !.read_routing = "standby", !.route_primary = FALSE,
                                   !.batch_size = 1, !.unmapped = {}]}
BS == INSTANCE BigQuerySource WITH
        End <- 5, MaxFaults <- 2,
        Configs <- [checkpoint : {"none", "unique", "tiebreaker"}, log_and_continue : BOOLEAN,
                    batch_size : {2}, bad : {{3}}, unmapped : {{2}}] \cup
                   [checkpoint : {"tiebreaker"}, log_and_continue : {TRUE}, batch_size : {2},
                    bad : {{}}, unmapped : {{}}]
SS == INSTANCE S3Source WITH
        Objects <- 3, Bad <- {4}, MaxFaults <- 2, Configs <- [log_and_continue : BOOLEAN]

PDOne(calls, sealed) == [writers |-> {a}, handlers |-> {a}, calls |-> calls, sealed |-> sealed]
PD == INSTANCE PostgresDLQ WITH
        Tasks <- {a, b}, Letters <- {1, 2}, MaxAttempts <- 1, MaxFaults <- 1,
        Configs <- {PDOne({"batch", "replay", "acknowledge"}, FALSE), PDOne({"replay"}, TRUE),
                    [PDOne({"acknowledge"}, FALSE) EXCEPT !.handlers = {b}]}
RDOne(calls) == [letters |-> {1, 2}, faults |-> 1, writers |-> {a}, handlers |-> {a},
                 calls |-> calls, sealed |-> FALSE, cluster |-> FALSE, old |-> {},
                 filter |-> "primary"]
RD == INSTANCE RedisDLQ WITH
        Tasks <- {a, b}, Letters <- {1, 2}, MaxAttempts <- 1,
        Configs <- {RDOne({"batch", "replay", "acknowledge"}),
                    [RDOne({"replay", "acknowledge", "rewrite"}) EXCEPT
                        !.handlers = {a, b}, !.faults = 0, !.letters = {1}],
                    [RDOne({"acknowledge"}) EXCEPT
                        !.handlers = {b}, !.cluster = TRUE, !.old = {1}, !.filter = "pipeline"],
                    [RDOne({"acknowledge", "rewrite"}) EXCEPT
                        !.cluster = TRUE, !.letters = {1}, !.old = {1}],
                    [RDOne({"replay"}) EXCEPT !.sealed = TRUE, !.filter = "pipeline", !.old = {1}]}
KD == INSTANCE KafkaDLQ WITH
        Letters <- {1, 2}, MaxAttempts <- 1, MaxEvents <- 3, IdlePolls <- 2,
        Configs <- [start : {[p \in {0, 1} |-> -1]}, highwater : BOOLEAN, crash : {TRUE}] \cup
                   [start : {[p \in {0, 1} |-> p]}, highwater : {TRUE}, crash : {FALSE}]

KPBase == [policy |-> "dlq_and_continue", default |-> "fail_closed", batching |-> TRUE,
           write_batch |-> FALSE, poll |-> 2, bad |-> {2, 4},
           error |-> {"schema_validation", "deserialization"}]
KP == INSTANCE KafkaPoison WITH
        End <- 4, MaxOpens <- 3, MaxFaults <- 2,
        Configs <- {KPBase, [KPBase EXCEPT !.write_batch = TRUE],
                    [KPBase EXCEPT !.policy = "dlq_and_fail_closed"],
                    [KPBase EXCEPT !.batching = FALSE, !.error = {}],
                    [KPBase EXCEPT !.policy = "none", !.batching = FALSE],
                    [KPBase EXCEPT !.policy = "none", !.default = "log_and_continue"]}

KO == INSTANCE KafkaOperator WITH
        Parts <- {0, 1, 2}, MaxEvents <- 6, Configs <- [manual : BOOLEAN]

RPBase == [builder |-> TRUE, upsert |-> TRUE, copy |-> FALSE, business |-> FALSE, strict |-> TRUE,
           ack_on_success |-> TRUE]
RP == INSTANCE RedisPostgres WITH
        Consumers <- {a, b}, End <- 2, MaxFaults <- 2, MaxTurns <- 5,
        Configs <- {RPBase, [RPBase EXCEPT !.ack_on_success = FALSE],
                    [RPBase EXCEPT !.builder = FALSE, !.upsert = FALSE, !.copy = TRUE],
                    [RPBase EXCEPT !.builder = FALSE, !.upsert = FALSE],
                    [RPBase EXCEPT !.builder = FALSE, !.business = TRUE]}

KRBase == [sink |-> "upsert", flush |-> TRUE, commit_every |-> 1, poll |-> 2, procs |-> {a},
           health |-> FALSE, records |-> 2, max_faults |-> 1, max_opens |-> 3]
KR == INSTANCE KafkaRuntime WITH
        Procs <- {a, b}, End <- 3,
        Configs <- {[KRBase EXCEPT !.health = TRUE, !.commit_every = 2],
                    [KRBase EXCEPT !.sink = "append", !.procs = {a, b}, !.max_opens = 2],
                    [KRBase EXCEPT !.sink = "append", !.health = TRUE],
                    [KRBase EXCEPT !.flush = FALSE, !.health = TRUE],
                    [KRBase EXCEPT !.sink = "transactional", !.procs = {a, b}, !.max_opens = 2],
                    [KRBase EXCEPT !.sink = "transactional", !.flush = FALSE, !.poll = 1]}

ESBase == [keys |-> {1, 2}, workers |-> {a, b}, calls |-> {"mark_if_new"}, search |-> FALSE,
           cluster |-> FALSE, ttl |-> FALSE]
ES == INSTANCE EmbeddingStore WITH
        Workers <- {a, b}, Keys <- 1..3, Class <- <<1, 1, 2>>, Dims <- <<1, 1, 2>>,
        MaxEntries <- 2, MaxFaults <- 2,
        Configs <- {[ESBase EXCEPT !.calls = {"mark_if_new", "exists"}, !.ttl = TRUE],
                    [ESBase EXCEPT !.workers = {a}, !.keys = 1..3, !.calls = {"mark_if_new", "add"},
                                   !.cluster = TRUE],
                    [ESBase EXCEPT !.search = TRUE, !.keys = 1..3, !.ttl = TRUE]}
RS == INSTANCE RedisState WITH
        Clients <- {a, b}, MaxTime <- 4, MaxValue <- 3,
        Configs <- [skew : {Both(0, 0), Both(0, 1)}, ttl : {0, 2},
                    calls : {{"get", "set_if_absent"}, {"get", "set_if_absent", "delete_prefix"}}]
                   \cup [skew : {Both(0, 0)}, ttl : {0, 2}, calls : {{"get", "set"}}]

SA == INSTANCE SchemaAdapter WITH
        Procs <- {a, b}, Tasks <- {a, b}, Versions <- 2, Required <- {2}, MaxFaults <- 1,
        Configs <- [proc : {Both(a, b)}, policy : {"align", "strict"}, table : BOOLEAN] \cup
                   [proc : {Both(a, a)}, policy : {"align"}, table : {TRUE}]
Token(keyword, name) == [keyword |-> keyword, name |-> name]
Close == Token("}", "")
Block(name) == <<Token("message", name), Close>>
Package == <<Token("package", <<"P">>)>>
SRBase == [kind |-> "AVRO", mode |-> "missing_subject", schema |-> Both(1, 2),
           indexes |-> Both(<<0>>, <<0>>), type |-> <<>>, limit |-> 1, readers |-> {a, b},
           accepts |-> {1}]
SR == INSTANCE SchemaRegistry WITH
        FirstId <- 255, MaxMessages <- 2, MaxFaults <- 1,
        Tokens <- <<Package \o <<Token("message", "A"), Token("enum", "E"), Close>> \o Block("B")
                    \o Block("C") \o <<Close>> \o Block("D"),
                    Package \o Block("D") \o <<Token("message", "A")>> \o Block("C")
                    \o <<Token("oneof", "o"), Close, Close>>,
                    [i \in 1..130 |-> Block("C")[1 + ((i - 1) % 2)]]>>,
        Configs <- {SRBase, [SRBase EXCEPT !.kind = "JSON", !.mode = "always"],
                    [SRBase EXCEPT !.mode = "disabled"],
                    [SRBase EXCEPT !.kind = "PROTOBUF", !.mode = "always", !.limit = 2,
                                   !.indexes = Both(<<0, 1>>, <<1, 0>>), !.type = <<"P", "A", "C">>],
                    [SRBase EXCEPT !.kind = "PROTOBUF", !.schema = a :> 3, !.readers = {a},
                                   !.indexes = a :> <<64>>, !.type = <<"C">>]}

AP == INSTANCE AnthropicProvider WITH
        Tasks <- {a, b}, Prompts <- 2, Chunks <- 2, MaxAttempts <- 2, MaxFaults <- 2,
        Configs <- [job : {Both("complete", "nested"), Both("nested", "nested"),
                           Both("stream", "batch")}, permits : {1, 2}, format : {"none"}] \cup
                   [job : {Both("complete", "complete")}, permits : {1}, format : {"tool", "prompt"}]


-----------------------------------------------------------------------------
(* Variables by the parts that have them.                                    *)

SinkVars == <<accepted, settled>>
KOnly == <<in_transaction, delivery, txn, torn>>
PSOnly == <<conns, leaked>>
SourceVars == <<params, rows, progress, success, emitted, saved>>
BSOnly == <<pump, item, queue, stop, getter, stranded>>
PDOnly == <<conn, removed, mixed>>
LetterVars == <<scan, hand, replays>>
LetterVars2 == <<written, gone>>
KDOnly == <<intent, hasty>>
SharedVars == <<opens, committed>>
KROnly == <<log, owner, session, lost, passed_over, report>>
KPOnly == <<sent, missed>>
KOOnly == <<events, assigned, rejoining, active, paused, pause_all, fetched, refused>>
RPOnly == <<turns, current, pending, lastId, pel, acked, passed>>
ESOnly == <<values, dims, lock, fresh, hidden, bypassed, unguarded>>
RSOnly == <<now, stored, updates, swept>>
SAOnly == <<adapter, table, raced, stale>>
SROnly == <<writer, reader, registry, topic, cache, decoded>>
APOnly == <<permits, yielded>>
Sinks == <<SinkVars, abandoned, overlapped, KOnly, marks>>
Sources == <<PSOnly, SourceVars, BSOnly, listed>>
Letters == <<PDOnly, LetterVars, LetterVars2, revived, KDOnly>>

SinkParts == {"bigquery_sink", "storage_write_sink", "kafka_sink", "redis_sink", "s3_sink"}
SourceParts == {"postgres_source", "bigquery_source", "s3_source"}
LetterParts == {"postgres_dlq", "redis_dlq", "kafka_dlq"}

NotHad ==
    /\ part \notin {"bigquery_sink", "storage_write_sink", "kafka_sink", "redis_sink",
            "s3_sink", "kafka_dlq", "redis_state"} => client = Unused
    /\ part \in {"postgres_source", "bigquery_source", "s3_source", "kafka_dlq",
            "kafka_runtime", "kafka_poison", "kafka_operator", "redis_postgres",
            "redis_state", "schema_registry"} => task = Unused
    /\ part \notin {"bigquery_sink", "storage_write_sink", "kafka_sink", "s3_sink",
            "kafka_dlq", "redis_postgres"} => buffer = Unused
    /\ part \in {"postgres_source", "bigquery_source", "kafka_operator",
            "embedding_store", "redis_state", "schema_adapter", "schema_registry",
            "anthropic"} => store = Unused
    /\ part \notin {"bigquery_sink", "storage_write_sink", "redis_sink", "s3_sink",
            "kafka_poison"} => stats = Unused
    /\ part \notin {"bigquery_sink", "storage_write_sink", "kafka_sink", "redis_sink",
            "s3_sink", "kafka_dlq"} => given = Unused
    /\ part \notin SinkParts
       => accepted = Unused /\ settled = Unused
    /\ part \in {"kafka_dlq", "kafka_operator", "redis_state"} => faults = Unused
    /\ part \notin {"bigquery_sink", "storage_write_sink", "redis_sink", "s3_sink"}
       => abandoned = Unused
    /\ part \notin {"bigquery_sink", "storage_write_sink", "kafka_sink", "redis_sink"}
       => overlapped = Unused
    /\ part # "kafka_sink"
       => in_transaction = Unused /\ delivery = Unused /\ txn = Unused /\ torn = Unused
    /\ part # "redis_sink" => marks = Unused
    /\ part \notin {"postgres_source", "bigquery_source", "s3_source", "kafka_poison",
            "kafka_operator", "redis_postgres"} => call = Unused
    /\ part # "postgres_source"
       => conns = Unused /\ leaked = Unused
    /\ part \notin SourceParts
       => params = Unused /\ rows = Unused /\ progress = Unused /\ success = Unused
          /\ emitted = Unused /\ saved = Unused
    /\ part \notin {"postgres_source", "bigquery_source", "s3_source", "kafka_poison",
            "anthropic"} => batch = Unused
    /\ part \notin {"postgres_source", "kafka_operator"} => left = Unused
    /\ part \notin {"postgres_source", "bigquery_source", "s3_source", "kafka_poison"}
       => done = Unused
    /\ part # "bigquery_source"
       => pump = Unused /\ item = Unused /\ queue = Unused /\ stop = Unused
          /\ getter = Unused /\ stranded = Unused
    /\ part # "s3_source" => listed = Unused
    /\ part # "postgres_dlq"
       => conn = Unused /\ removed = Unused /\ mixed = Unused
    /\ part \notin LetterParts
       => scan = Unused /\ hand = Unused /\ replays = Unused
    /\ part \notin {"postgres_dlq", "redis_dlq"}
       => written = Unused /\ gone = Unused
    /\ part \notin {"redis_dlq", "embedding_store"} => index = Unused
    /\ part # "redis_dlq" => revived = Unused
    /\ part \notin {"bigquery_sink", "storage_write_sink", "kafka_sink", "kafka_dlq",
            "schema_adapter"} => dropped = Unused
    /\ part \notin {"kafka_dlq", "kafka_poison"} => position = Unused
    /\ part # "kafka_dlq"
       => intent = Unused /\ hasty = Unused
    /\ part \notin {"kafka_runtime", "kafka_poison"}
       => opens = Unused /\ committed = Unused
    /\ part # "kafka_runtime"
       => log = Unused /\ owner = Unused /\ session = Unused /\ lost = Unused
          /\ passed_over = Unused /\ report = Unused
    /\ part # "kafka_poison"
       => sent = Unused /\ missed = Unused
    /\ part # "kafka_operator"
       => events = Unused /\ assigned = Unused /\ rejoining = Unused /\ active = Unused
          /\ paused = Unused /\ pause_all = Unused /\ fetched = Unused /\ refused = Unused
    /\ part \notin {"kafka_operator", "redis_state"} => held = Unused
    /\ part # "redis_postgres"
       => turns = Unused /\ current = Unused /\ pending = Unused /\ lastId = Unused
          /\ pel = Unused /\ acked = Unused /\ passed = Unused
    /\ part # "embedding_store"
       => values = Unused /\ dims = Unused /\ lock = Unused /\ fresh = Unused
          /\ hidden = Unused /\ bypassed = Unused /\ unguarded = Unused
    /\ part # "redis_state"
       => now = Unused /\ stored = Unused /\ updates = Unused /\ swept = Unused
    /\ part # "schema_adapter"
       => adapter = Unused /\ table = Unused /\ raced = Unused /\ stale = Unused
    /\ part # "schema_registry"
       => writer = Unused /\ reader = Unused /\ registry = Unused /\ topic = Unused
          /\ cache = Unused /\ decoded = Unused
    /\ part # "anthropic"
       => permits = Unused /\ yielded = Unused

Init ==
    /\ \/ part = "bigquery_sink" /\ B!Init
       \/ part = "storage_write_sink" /\ W!Init
       \/ part = "kafka_sink" /\ K!Init
       \/ part = "redis_sink" /\ R!Init
       \/ part = "s3_sink" /\ S!Init
       \/ part = "postgres_source" /\ PS!Init
       \/ part = "bigquery_source" /\ BS!Init
       \/ part = "s3_source" /\ SS!Init
       \/ part = "postgres_dlq" /\ PD!Init
       \/ part = "redis_dlq" /\ RD!Init
       \/ part = "kafka_dlq" /\ KD!Init
       \/ part = "kafka_runtime" /\ KR!Init
       \/ part = "kafka_poison" /\ KP!Init
       \/ part = "kafka_operator" /\ KO!Init
       \/ part = "redis_postgres" /\ RP!Init
       \/ part = "embedding_store" /\ ES!Init
       \/ part = "redis_state" /\ RS!Init
       \/ part = "schema_adapter" /\ SA!Init
       \/ part = "schema_registry" /\ SR!Init
       \/ part = "anthropic" /\ AP!Init
    /\ NotHad

Next ==
    /\ UNCHANGED part
    /\ \/ /\ part = "bigquery_sink" /\ B!Next
          /\ UNCHANGED <<KOnly, marks, call, Sources, batch, left, done, Letters, index,
                       position, SharedVars, KROnly, KPOnly, KOOnly, held, RPOnly,
                       ESOnly, RSOnly, SAOnly, SROnly, APOnly>>
       \/ /\ part = "storage_write_sink" /\ W!Next
          /\ UNCHANGED <<KOnly, marks, call, Sources, batch, left, done, Letters, index,
                       position, SharedVars, KROnly, KPOnly, KOOnly, held, RPOnly,
                       ESOnly, RSOnly, SAOnly, SROnly, APOnly>>
       \/ /\ part = "kafka_sink" /\ K!Next
          /\ UNCHANGED <<stats, abandoned, marks, call, Sources, batch, left, done,
                       Letters, index, position, SharedVars, KROnly, KPOnly,
                       KOOnly, held, RPOnly, ESOnly, RSOnly, SAOnly, SROnly, APOnly>>
       \/ /\ part = "redis_sink" /\ R!Next
          /\ UNCHANGED <<buffer, KOnly, call, Sources, batch, left, done, Letters, index,
                       dropped, position, SharedVars, KROnly, KPOnly, KOOnly, held, RPOnly,
                       ESOnly, RSOnly, SAOnly, SROnly, APOnly>>
       \/ /\ part = "s3_sink" /\ S!Next
          /\ UNCHANGED <<overlapped, KOnly, marks, call, Sources, batch, left, done,
                       Letters, index, dropped, position, SharedVars, KROnly, KPOnly,
                       KOOnly, held, RPOnly, ESOnly, RSOnly, SAOnly, SROnly, APOnly>>
       \/ /\ part = "postgres_source" /\ PS!Next
          /\ UNCHANGED <<client, task, buffer, store, stats, given, Sinks, BSOnly, listed,
                       Letters, index, dropped, position, SharedVars, KROnly, KPOnly,
                       KOOnly, held, RPOnly, ESOnly, RSOnly, SAOnly, SROnly, APOnly>>
       \/ /\ part = "bigquery_source" /\ BS!Next
          /\ UNCHANGED <<client, task, buffer, store, stats, given, Sinks, PSOnly, left,
                       listed, Letters, index, dropped, position, SharedVars, KROnly,
                       KPOnly, KOOnly, held, RPOnly, ESOnly, RSOnly, SAOnly, SROnly, APOnly>>
       \/ /\ part = "s3_source" /\ SS!Next
          /\ UNCHANGED <<client, task, buffer, stats, given, Sinks, PSOnly, left, BSOnly,
                       Letters, index, dropped, position, SharedVars, KROnly, KPOnly,
                       KOOnly, held, RPOnly, ESOnly, RSOnly, SAOnly, SROnly, APOnly>>
       \/ /\ part = "postgres_dlq" /\ PD!Next
          /\ UNCHANGED <<client, buffer, stats, given, Sinks, call, Sources, batch, left,
                       done, index, revived, dropped, position, KDOnly, SharedVars, KROnly,
                       KPOnly, KOOnly, held, RPOnly, ESOnly, RSOnly, SAOnly, SROnly, APOnly>>
       \/ /\ part = "redis_dlq" /\ RD!Next
          /\ UNCHANGED <<client, buffer, stats, given, Sinks, call, Sources, batch, left,
                       done, PDOnly, dropped, position, KDOnly, SharedVars, KROnly, KPOnly,
                       KOOnly, held, RPOnly, ESOnly, RSOnly, SAOnly, SROnly, APOnly>>
       \/ /\ part = "kafka_dlq" /\ KD!Next
          /\ UNCHANGED <<task, stats, Sinks, faults, call, Sources, batch, left, done,
                       PDOnly, LetterVars2, index, revived, SharedVars, KROnly, KPOnly,
                       KOOnly, held, RPOnly, ESOnly, RSOnly, SAOnly, SROnly, APOnly>>
       \/ /\ part = "kafka_runtime" /\ KR!Next
          /\ UNCHANGED <<client, task, buffer, stats, given, Sinks, call, Sources, batch,
                       left, done, Letters, index, dropped, position, KPOnly, KOOnly, held,
                       RPOnly, ESOnly, RSOnly, SAOnly, SROnly, APOnly>>
       \/ /\ part = "kafka_poison" /\ KP!Next
          /\ UNCHANGED <<client, task, buffer, given, Sinks, Sources, left, Letters, index,
                       dropped, KROnly, KOOnly, held, RPOnly, ESOnly, RSOnly, SAOnly,
                       SROnly, APOnly>>
       \/ /\ part = "kafka_operator" /\ KO!Next
          /\ UNCHANGED <<client, task, buffer, store, stats, given, Sinks, faults, Sources,
                       batch, done, Letters, index, dropped, position, SharedVars, KROnly,
                       KPOnly, RPOnly, ESOnly, RSOnly, SAOnly, SROnly, APOnly>>
       \/ /\ part = "redis_postgres" /\ RP!Next
          /\ UNCHANGED <<client, task, stats, given, Sinks, Sources, batch, left, done,
                       Letters, index, dropped, position, SharedVars, KROnly, KPOnly,
                       KOOnly, held, ESOnly, RSOnly, SAOnly, SROnly, APOnly>>
       \/ /\ part = "embedding_store" /\ ES!Next
          /\ UNCHANGED <<client, buffer, store, stats, given, Sinks, call, Sources, batch,
                       left, done, Letters, dropped, position, SharedVars, KROnly, KPOnly,
                       KOOnly, held, RPOnly, RSOnly, SAOnly, SROnly, APOnly>>
       \/ /\ part = "redis_state" /\ RS!Next
          /\ UNCHANGED <<task, buffer, store, stats, given, Sinks, faults, call, Sources,
                       batch, left, done, Letters, index, dropped, position, SharedVars,
                       KROnly, KPOnly, KOOnly, RPOnly, ESOnly, SAOnly, SROnly, APOnly>>
       \/ /\ part = "schema_adapter" /\ SA!Next
          /\ UNCHANGED <<client, buffer, store, stats, given, Sinks, call, Sources, batch,
                       left, done, Letters, index, position, SharedVars, KROnly, KPOnly,
                       KOOnly, held, RPOnly, ESOnly, RSOnly, SROnly, APOnly>>
       \/ /\ part = "schema_registry" /\ SR!Next
          /\ UNCHANGED <<client, task, buffer, store, stats, given, Sinks, call, Sources,
                       batch, left, done, Letters, index, dropped, position, SharedVars,
                       KROnly, KPOnly, KOOnly, held, RPOnly, ESOnly, RSOnly, SAOnly, APOnly>>
       \/ /\ part = "anthropic" /\ AP!Next
          /\ UNCHANGED <<client, buffer, store, stats, given, Sinks, call, Sources, left,
                       done, Letters, index, dropped, position, SharedVars, KROnly, KPOnly,
                       KOOnly, held, RPOnly, ESOnly, RSOnly, SAOnly, SROnly>>

Spec == Init /\ [][Next]_<<part, config, client, task, buffer, store, stats, given, Sinks,
                         faults, call, Sources, batch, left, done, Letters, index, dropped,
                         position, SharedVars, KROnly, KPOnly, KOOnly, held, RPOnly,
                         ESOnly, RSOnly, SAOnly, SROnly, APOnly>>

-----------------------------------------------------------------------------
(* The contracts.                                                            *)

\* Every sink keeps the contract of a durable sink: what flush() or close() has settled
\* is in the service, whatever failed on the way and whatever ran late, but for the records
\* that the sink has dropped. Which these are, and after which events, is in its module:
\* overlapping flushes, a late truncating job, a failed commit or abort, a script that failed
\* half-way. An S3Sink drops nothing.
Durable == CASE part = "bigquery_sink" -> B!Durable
             [] part = "storage_write_sink" -> W!Durable
             [] part = "kafka_sink" -> K!Durable
             [] part = "redis_sink" -> R!Durable
             [] part = "s3_sink" -> S!Durable
             [] OTHER -> {}
Dropped == CASE part \in {"bigquery_sink", "storage_write_sink", "kafka_sink"} -> dropped
             [] part = "redis_sink" -> R!Masked
             [] OTHER -> {}
Excused == CASE part = "bigquery_sink" -> B!Excused
             [] part = "storage_write_sink" -> W!Excused
             [] part = "kafka_sink" -> K!Excused
             [] part = "redis_sink" -> R!Excused
             [] OTHER -> FALSE
IsSink == part \in SinkParts
Sink == INSTANCE DurableSink WITH
    durable <- Durable,
    dropped <- Dropped,
    excused <- Excused,
    accepted <- IF IsSink THEN accepted ELSE {},
    settled <- IF IsSink THEN settled ELSE {}
SinkContract == Sink!Spec

\* Every source keeps the contract of a resumable source: a saved checkpoint passes only
\* rows that are done, and never goes back, whatever failed and was resumed.
IsSource == part \in SourceParts
Source == INSTANCE ResumableSource WITH
    done <- IF IsSource THEN done ELSE {},
    saved <- IF IsSource THEN saved ELSE 0
SourceContract == Source!Spec

-----------------------------------------------------------------------------
(* Properties that several parts have.                                       *)

\* A record between the caller and the service is written, still buffered, or on its way with
\* somebody waiting for its confirmation, or it is one of those that the part is known to lose:
\* the module of each part names them record by record (dropped, Masked, passed_over, lost),
\* and the events without which there are none.
RowsKept == CASE part = "bigquery_sink" -> B!RowsKept
              [] part = "storage_write_sink" -> W!RowsKept
              [] part = "kafka_sink" -> K!RowsKept
              [] part = "redis_sink" -> R!RowsKept
              [] part = "s3_sink" -> S!RowsKept
              [] part = "kafka_runtime" -> KR!RowsKept
              [] part = "kafka_poison" -> KP!RowsKept
              [] part = "redis_postgres" -> RP!RowsKept
              [] OTHER -> TRUE

\* What a part reports after failures and retries (counters, positions, readiness,
\* success, answers) is what has happened. The modules say which records a report does not
\* see: a masked one is counted as a mutation, one that was passed over as delivered.
ReportIsTrue == CASE part = "bigquery_sink" -> B!ReportIsTrue
                  [] part = "storage_write_sink" -> W!ReportIsTrue
                  [] part = "redis_sink" -> R!ReportIsTrue
                  [] part = "s3_sink" -> S!ReportIsTrue
                  [] part = "postgres_source" -> PS!ReportIsTrue
                  [] part = "bigquery_source" -> BS!ReportIsTrue /\ BS!CompletedIsDone
                  [] part = "s3_source" -> SS!CompletedIsDone
                  [] part = "kafka_runtime" -> KR!ReportIsTrue
                  [] part = "kafka_poison" -> KP!ReportIsTrue
                  [] part = "kafka_operator" -> KO!ReportIsTrue
                  [] part = "anthropic" -> AP!ReportIsTrue
                  [] OTHER -> TRUE

\* A record is written twice, or told to be new twice, only when an outcome was lost or a
\* guard expired.
DuplicatesExplained == CASE part = "bigquery_sink" -> B!DuplicatesExplained
                         [] part = "storage_write_sink" -> W!DuplicatesExplained
                         [] part = "kafka_sink" -> K!DuplicatesExplained
                         [] part = "redis_sink" -> R!DuplicatesExplained
                         [] part = "s3_sink" -> S!DuplicatesExplained
                         [] part = "kafka_runtime" -> KR!DuplicatesExplained
                         [] part = "kafka_poison" -> KP!DuplicatesExplained
                         [] part = "redis_postgres" -> RP!DuplicatesExplained
                         [] part = "embedding_store" -> ES!DuplicatesExplained
                         [] part = "redis_state" -> RS!DuplicatesExplained
                         [] OTHER -> TRUE

\* A sink that shows itself ready has written what it accepted, but for what it dropped.
ReadyIsWritten == CASE part = "bigquery_sink" -> B!ReadyIsWritten
                    [] part = "storage_write_sink" -> W!ReadyIsWritten
                    [] OTHER -> TRUE

\* What a consumer gets is in order and without gaps that nobody has decided on.
EmittedInOrder == CASE part = "postgres_source" -> PS!EmittedInOrder
                    [] part = "bigquery_source" -> BS!EmittedInOrder
                    [] part = "s3_source" -> SS!EmittedInOrder
                    [] part = "anthropic" -> AP!EmittedInOrder
                    [] OTHER -> TRUE

\* Connections and permits are free or in the hands of a call that will return them.
ConnectionsAccounted == CASE part = "postgres_source" -> PS!ConnectionsAccounted
                          [] part = "anthropic" -> AP!ConnectionsAccounted
                          [] OTHER -> TRUE

\* The reader of the BigQuery source waits only for a thread that will answer.
NobodyWaitsForever == part = "bigquery_source" => BS!NobodyWaitsForever

\* A dead letter is kept until somebody acknowledges it, and not longer.
LettersKept == CASE part = "postgres_dlq" -> PD!LettersKept
                 [] part = "redis_dlq" -> RD!LettersKept
                 [] part = "kafka_dlq" -> KD!LettersKept
                 [] OTHER -> TRUE

\* A scan of a dead-letter queue shows the letters that are there.
ScanIsTrue == CASE part = "postgres_dlq" -> PD!ScanIsTrue
                [] part = "redis_dlq" -> RD!ScanIsTrue
                [] part = "kafka_dlq" -> KD!ScanIsTrue
                [] OTHER -> TRUE

\* The attempts of a letter count its replays, up to the limit.
AttemptsCounted == CASE part = "postgres_dlq" -> PD!AttemptsCounted
                     [] part = "redis_dlq" -> RD!AttemptsCounted
                     [] part = "kafka_dlq" -> KD!AttemptsCounted
                     [] OTHER -> TRUE

\* What a process believes of shared state (an index, a value, the partitions held, the
\* columns of a table, the schema of a message) is true, or a race that the history names
\* has made it false.
ViewIsTrue == CASE part = "embedding_store" -> ES!EntriesIndexed
                [] part = "redis_state" -> RS!ViewIsTrue
                [] part = "kafka_operator" -> KO!ViewIsTrue
                [] part = "schema_adapter" -> SA!ViewIsTrue
                [] part = "schema_registry" -> SR!ViewIsTrue
                [] OTHER -> TRUE
=============================================================================
