--------------------------- MODULE SchemaRegistry ---------------------------
(* Schema-registry codecs of the Kafka plug-in: writers resolve the id of      *)
(* their schema in open(), messages carry it, readers look it up and cache it. *)
(* kafka/_schema_registry_*.py                                               *)
(*                                                                          *)
(* A schema is a number; what the codecs read of a Protobuf schema is its list *)
(* of tokens. The payload is left out, the prefix of a message is there byte by *)
(* byte because the ids and message indexes are encoded with varying lengths.  *)
EXTENDS Integers, Sequences, SequencesExt

CONSTANTS
    Tokens,     \* Tokens[s]: tokens [keyword, name] of schema s: package, the heads of
                \* blocks (message, enum, ...) and "}"
    FirstId,    \* the first id the registry gives
    MaxMessages,\* bound: messages written
    MaxFaults,  \* bound: failed requests
    Configs     \* [kind, mode, schema, indexes, type, limit, readers, accepts]: schema[w] and
                \* indexes[w] of writer w, type is the message class of the process, limit the size
                \* of the cache, readers the calls of the deserializer that are made, accepts the
                \* schemas whose payloads a JSON reader schema accepts

VARIABLES
    config, faults, writer, reader,
    registry,   \* the registry: schemas of the subject by version
    topic,      \* messages: bytes, and the schema and indexes of the writer
    cache,      \* _writer_schemas or _registered_schemas: ids, oldest first
    decoded     \* history: messages and the schema and indexes they were decoded with

vars == <<config, faults, writer, reader, registry, topic, cache, decoded>>

Protobuf == config.kind = "PROTOBUF"
Id(version) == FirstId + version - 1
SchemaOf(id) == registry[id - FirstId + 1]

-----------------------------------------------------------------------------
(* The wire format.                                                          *)

RECURSIVE encode_unsigned_varint(_)
encode_unsigned_varint(n) ==
    IF n < 128 THEN <<n>> ELSE <<128 + (n % 128)>> \o encode_unsigned_varint(n \div 128)

RECURSIVE decode_unsigned_varint(_, _)
decode_unsigned_varint(bytes, i) ==
    IF bytes[i] < 128 THEN [value |-> bytes[i], next |-> i + 1]
    ELSE LET rest == decode_unsigned_varint(bytes, i + 1)
         IN  [value |-> bytes[i] - 128 + 128 * rest.value, next |-> rest.next]

encode_zigzag_varint(n) == encode_unsigned_varint(2 * n)

decode_zigzag_varint(bytes, i) ==
    LET d == decode_unsigned_varint(bytes, i)
    IN  [value |-> IF d.value % 2 = 0 THEN d.value \div 2 ELSE -(d.value \div 2) - 1,
         next |-> d.next]

\* The first message of a schema has an abbreviation.
encode_message_indexes(indexes) ==
    IF indexes = <<0>> THEN <<0>>
    ELSE encode_zigzag_varint(Len(indexes))
         \o FlattenSeq([i \in DOMAIN indexes |-> encode_zigzag_varint(indexes[i])])

RECURSIVE DecodeIndexes(_, _, _)
DecodeIndexes(bytes, i, n) ==
    IF n = 0 THEN <<>>
    ELSE LET d == decode_zigzag_varint(bytes, i)
         IN  <<d.value>> \o DecodeIndexes(bytes, d.next, n - 1)

decode_message_indexes(bytes, i) ==
    IF bytes[i] = 0 THEN <<0>>
    ELSE LET d == decode_zigzag_varint(bytes, i) IN DecodeIndexes(bytes, d.next, d.value)

encode_confluent_prefix(id, indexes) ==
    <<0, 0, id \div 65536, (id \div 256) % 256, id % 256>>
    \o IF Protobuf THEN encode_message_indexes(indexes) ELSE <<>>

decode_confluent_prefix(bytes) ==
    [id |-> 65536 * bytes[3] + 256 * bytes[4] + bytes[5],
     indexes |-> IF Protobuf THEN decode_message_indexes(bytes, 6) ELSE <<>>]

-----------------------------------------------------------------------------
(* Which message of a Protobuf schema do the indexes name?                    *)

Empty == [package |-> <<>>, messages |-> <<>>, stack |-> <<>>, braces |-> <<>>]

\* One token: a package, the head of a block, or the end of a block. messages lists
\* [name, parent] in the order of the text; braces says which open blocks are messages.
ParseToken(p, token) ==
    LET message == token.keyword \in {"message", "group"}
        outer == IF p.stack = <<>> THEN 0 ELSE Last(p.stack)
    IN  CASE token.keyword = "package" -> [p EXCEPT !.package = token.name]
          [] token.keyword = "}" ->
                [p EXCEPT !.stack = IF Last(p.braces) THEN Front(@) ELSE @, !.braces = Front(@)]
          [] OTHER ->
                [p EXCEPT !.messages = IF message THEN Append(@, [name |-> token.name, parent |-> outer])
                                                  ELSE @,
                          !.stack = IF message THEN Append(@, Len(p.messages) + 1) ELSE @,
                          !.braces = Append(@, message)]

RECURSIVE ParseFrom(_, _, _)
ParseFrom(p, tokens, i) ==
    CASE i > Len(tokens) -> p
      [] i <= Len(tokens) /\ tokens[i].keyword = "}" /\ p.braces = <<>> -> Empty
      [] OTHER -> ParseFrom(ParseToken(p, tokens[i]), tokens, i + 1)

\* A schema with a brace too many or too few has no messages.
parse_proto_message_tree(tokens) ==
    LET p == ParseFrom(Empty, tokens, 1) IN IF p.braces = <<>> THEN p ELSE Empty

\* The names on the path, or <<>> when an index is out of range.
resolve_proto_message_full_name(tokens, indexes) ==
    LET tree == parse_proto_message_tree(tokens)
        messages == tree.messages
        Children(m) == SelectSeq([i \in DOMAIN messages |-> i], LAMBDA i : messages[i].parent = m)
        Down(at, index) ==
            IF at.ok /\ index < Len(Children(at.node))
            THEN LET n == Children(at.node)[index + 1]
                 IN  [ok |-> TRUE, node |-> n, path |-> Append(at.path, messages[n].name)]
            ELSE [ok |-> FALSE, node |-> 0, path |-> <<>>]
    IN  FoldLeft(Down, [ok |-> TRUE, node |-> 0, path |-> tree.package], indexes).path

validate_protobuf_schema_binding(s, indexes) ==
    Protobuf => resolve_proto_message_full_name(Tokens[s], indexes) = config.type

-----------------------------------------------------------------------------
Closed == [stage |-> "closed", id |-> 0]
Idle == [stage |-> "idle", message |-> 0]

Init ==
    /\ config \in Configs
    /\ faults = 0
    /\ writer = [w \in DOMAIN config.schema |-> Closed]
    /\ reader = [r \in config.readers |-> Idle]
    /\ registry = <<>> /\ topic = <<>> /\ cache = <<>>
    /\ decoded = {}

Fault == faults < MaxFaults /\ faults' = faults + 1
Writer(w, stage, id) == writer' = [writer EXCEPT ![w] = [stage |-> stage, id |-> id]]
Reads == UNCHANGED <<config, reader, topic, cache, decoded>>

\* open(): resolve_registered_schema(). A Protobuf serializer checks its binding first.
Open(w) ==
    /\ writer[w].stage = "closed"
    /\ validate_protobuf_schema_binding(config.schema[w], config.indexes[w])
    /\ Writer(w, IF config.mode = "always" THEN "register" ELSE "latest", 0)
    /\ Reads /\ UNCHANGED <<faults, registry>>

\* The latest schema must be the writer's; only a missing subject is registered.
get_latest_schema(w) ==
    /\ writer[w].stage = "latest"
    /\ \/ /\ registry = <<>>
          /\ IF config.mode = "missing_subject" THEN Writer(w, "register", 0)
                                                ELSE writer' = [writer EXCEPT ![w] = Closed]
       \/ /\ registry # <<>>
          /\ IF Last(registry) = config.schema[w] THEN Writer(w, "open", Id(Len(registry)))
                                                  ELSE writer' = [writer EXCEPT ![w] = Closed]
    /\ Reads /\ UNCHANGED <<faults, registry>>

\* The registry gives a schema one id, also when it is registered again.
Registered(s) == IF s \in ToSet(registry) THEN registry ELSE Append(registry, s)

register_schema(w) ==
    /\ writer[w].stage = "register"
    /\ registry' = Registered(config.schema[w])
    /\ Writer(w, "open", Id(SelectInSeq(registry', LAMBDA s : s = config.schema[w])))
    /\ Reads /\ UNCHANGED faults

\* A request fails, or only its answer is lost: open() raises.
RequestFails(w) ==
    /\ writer[w].stage \in {"latest", "register"} /\ Fault
    /\ registry' \in {registry} \cup IF writer[w].stage = "register"
                                     THEN {Registered(config.schema[w])} ELSE {}
    /\ writer' = [writer EXCEPT ![w] = Closed]
    /\ Reads

\* The bytes in front of a payload that conforms to the schema (a JSON payload that does
\* not makes the call raise).
Message(w) == [bytes |-> encode_confluent_prefix(writer[w].id, config.indexes[w]),
               schema |-> config.schema[w],
               indexes |-> IF Protobuf THEN config.indexes[w] ELSE <<>>]

\* __call__() of the serializer.
Serialize(w) ==
    /\ writer[w].stage = "open" /\ Len(topic) < MaxMessages
    /\ topic' = Append(topic, Message(w))
    /\ UNCHANGED <<config, faults, writer, reader, registry, cache, decoded>>

Restart(w) ==
    /\ writer[w].stage = "open"
    /\ writer' = [writer EXCEPT ![w] = Closed]
    /\ Reads /\ UNCHANGED <<faults, registry>>

-----------------------------------------------------------------------------
(* The deserializer.                                                         *)

lru_cache_get(id) == IF id \in ToSet(cache) THEN Append(Remove(cache, id), id) ELSE cache

lru_cache_put(id) ==
    LET added == Append(Remove(cache, id), id)
    IN  IF Len(added) > config.limit THEN Tail(added) ELSE added

jsonschema_validate(s) == config.kind = "JSON" => s \in config.accepts

\* The record is decoded with the writer's schema; Protobuf messages of another class and
\* JSON payloads that the reader schema does not accept are refused. (The cache of checked
\* bindings stores None and never hits.)
Decoded(m, prefix) ==
    IF /\ validate_protobuf_schema_binding(SchemaOf(prefix.id), prefix.indexes)
       /\ jsonschema_validate(SchemaOf(prefix.id))
    THEN decoded \cup {[message |-> m, schema |-> SchemaOf(prefix.id), indexes |-> prefix.indexes]}
    ELSE decoded

\* __call__() of the deserializer, for any message of the topic.
Deserialize(r, m) ==
    /\ reader[r] = Idle
    /\ LET prefix == decode_confluent_prefix(topic[m].bytes) IN
       /\ cache' = lru_cache_get(prefix.id)
       /\ IF prefix.id \in ToSet(cache)
          THEN decoded' = Decoded(m, prefix) /\ UNCHANGED reader
          ELSE reader' = [reader EXCEPT ![r] = [stage |-> "get_schema", message |-> m]]
               /\ UNCHANGED decoded
    /\ UNCHANGED <<config, faults, writer, registry, topic>>

\* The answer comes, or the request fails and the call raises.
get_schema(r) ==
    /\ reader[r].stage = "get_schema"
    /\ reader' = [reader EXCEPT ![r] = Idle]
    /\ LET prefix == decode_confluent_prefix(topic[reader[r].message].bytes) IN
       \/ /\ cache' = lru_cache_put(prefix.id)
          /\ decoded' = Decoded(reader[r].message, prefix) /\ UNCHANGED faults
       \/ Fault /\ UNCHANGED <<cache, decoded>>
    /\ UNCHANGED <<config, writer, registry, topic>>

Next ==
    \/ \E w \in DOMAIN config.schema : \/ Open(w) \/ get_latest_schema(w) \/ register_schema(w)
                          \/ RequestFails(w) \/ Serialize(w) \/ Restart(w)
    \/ \E r \in config.readers : get_schema(r) \/ \E m \in DOMAIN topic : Deserialize(r, m)

Spec == Init /\ [][Next]_vars

-----------------------------------------------------------------------------
\* Whatever writers and restarts did to the subject, a message is decoded with the schema
\* and as the message class that its writer meant, and the cache keeps to its limit.
ViewIsTrue ==
    /\ Len(cache) <= config.limit
    /\ \A d \in decoded :
          /\ d.schema = topic[d.message].schema
          /\ d.indexes = topic[d.message].indexes
=============================================================================
