------------------------------ MODULE RedisDLQ ------------------------------
(* RedisDLQSink and RedisDLQSource: a hash for every dead letter and lists   *)
(* that index them. redis/dlq.py, redis/_dlq_runtime.py, _dlq_keyspace.py    *)
(*                                                                           *)
(* A letter stands for its record key. With redis_cluster the keys of new    *)
(* letters carry a hash tag; letters of an older release keep the prefix      *)
(* without it, have no secondary index and are not changed by the scripts.   *)
EXTENDS Naturals, Sequences, SequencesExt, FiniteSets

CONSTANTS
    Tasks,        \* callers
    Letters,      \* numbers of letters
    MaxAttempts,  \* max_attempts of every letter
    Configs       \* [letters, faults, writers, handlers, calls, sealed, cluster, old, filter]: the
                  \* letters there are, a bound on calls that fail, who writes and who handles
                  \* letters and how; old: letters of an older release; filter: the index a
                  \* scan asks for

VARIABLES
    config, task, store, faults, scan, hand,
    index,    \* index[prefix][kind]: the lists
    written,  \* letters that write() has stored for good: it returned, no acknowledge()
              \* has begun since write() began
    gone,     \* letters whose acknowledge() returned, no write() has begun since it began
    replays,  \* replays[l]: the attempt last written and the replay() calls that returned since
    revived   \* history: letters whose hash a replay() brought back after its removal, or
              \* whose hash and lists came apart where no script changes both in one step

vars == <<config, task, store, faults, scan, hand, index, written, gone, replays, revived>>

NoHash == [full |-> FALSE, attempt |-> 0, meta |-> FALSE, there |-> FALSE]
Nothing == [letter |-> 0, attempt |-> 0]
NoScan == [stage |-> "closed", list |-> <<>>, keys |-> <<>>, todo |-> <<>>, seen |-> <<>>, must |-> {}]
Idle == [call |-> "idle", todo |-> <<>>, rec |-> Nothing, read |-> NoHash, stage |-> "idle",
         clean |-> TRUE]
Busy(t) == task[t].call # "idle"
OneCaller == Cardinality(config.writers \cup config.handlers) = 1

\* index_prefix_for_record_key()
Prefix(l) == IF config.cluster /\ l \in config.old THEN "legacy" ELSE "tagged"

Init ==
    /\ config \in Configs
    /\ task = [t \in Tasks |-> Idle]
    /\ store = [l \in Letters |-> IF l \in config.old
                                  THEN [NoHash EXCEPT !.full = TRUE, !.there = TRUE] ELSE NoHash]
    /\ index = [p \in {"tagged", "legacy"} |-> [k \in {"primary", "pipeline"} |->
                    SetToSortSeq({l \in config.old : k = "primary" /\ Prefix(l) = p}, <)]]
    /\ faults = 0 /\ scan = NoScan /\ hand = [l \in Letters |-> Nothing]
    /\ written = config.old /\ gone = {} /\ replays = [l \in Letters |-> 0] /\ revived = {}

-----------------------------------------------------------------------------
(* Calls.                                                                    *)

Letter(t) == IF task[t].call = "write" THEN Head(task[t].todo) ELSE task[t].rec.letter
InCall(l, call) == {t \in Tasks : task[t].call = call /\ l \in ToSet(task[t].todo)}

Begin(t, c) ==
    /\ ~Busy(t)
    /\ task' = [u \in Tasks |->
                  IF u = t
                  THEN [c EXCEPT !.stage = "start",
                                 !.clean = \A l \in ToSet(c.todo) :
                                     InCall(l, "write") \cup InCall(l, "acknowledge") = {}]
                  ELSE [task[u] EXCEPT !.clean = @ /\ ToSet(task[u].todo) \cap ToSet(c.todo) = {}]]
    /\ UNCHANGED <<config, store, faults, hand, index, replays, revived>>

\* write() and write_batch(), of new letters or again of one that a scan has offered, with the
\* storage key it has.
Write(t, letters) ==
    /\ t \in config.writers /\ ToSet(letters) \subseteq config.letters
    /\ \A l \in ToSet(letters) :
           \/ "rewrite" \in config.calls /\ hand[l] # Nothing
           \/ l \notin written \cup gone /\ InCall(l, "acknowledge") = {}
    /\ Begin(t, [Idle EXCEPT !.call = "write", !.todo = letters, !.rec = hand[Head(letters)]])
    /\ gone' = gone \ ToSet(letters)
    /\ UNCHANGED <<written, scan>>

\* replay() and acknowledge() of a letter that a scan has offered.
Handle(t, call, l) ==
    /\ t \in config.handlers /\ call \in config.calls /\ hand[l] # Nothing
    /\ InCall(l, call) = {}
    /\ call = "acknowledge" => l \notin gone
    /\ call = "replay" => hand[l].attempt < MaxAttempts /\ replays[l] <= MaxAttempts
    /\ Begin(t, [Idle EXCEPT !.call = call, !.todo = <<l>>, !.rec = hand[l]])
    /\ written' = IF call = "acknowledge" THEN written \ {l} ELSE written
    /\ scan' = IF call = "acknowledge" THEN [scan EXCEPT !.must = @ \ {l}] ELSE scan
    /\ UNCHANGED gone

Without(list, l) == SelectSeq(list, LAMBDA m : m # l)
Listed(p, k, l) == l \in ToSet(index[p][k])

\* HSET of all fields of a record.
Hashed(l, attempt) == [store EXCEPT ![l] = [full |-> TRUE, attempt |-> attempt, meta |-> TRUE, there |-> TRUE]]

\* The indexes after an upsert: a new key is pushed to all of them, one that exists moves
\* to the end of its secondary indexes.
Upserted(l, exists) ==
    LET p == Prefix(l)
    IN  [index EXCEPT ![p].primary = IF exists THEN @ ELSE Append(@, l),
                      ![p].pipeline = IF exists THEN Append(Without(@, l), l) ELSE Append(@, l)]
Unindexed(l) == [index EXCEPT ![Prefix(l)] = [k \in DOMAIN @ |-> Without(@[k], l)]]

\* A call's answer; write_batch() goes on with the next letter.
Answered(t) ==
    LET c == task[t]
        more == c.call = "write" /\ Len(c.todo) > 1
    IN  /\ task' = [task EXCEPT ![t] = IF more THEN [c EXCEPT !.todo = Tail(@), !.stage = "start",
                                                              !.rec = hand[c.todo[2]]] ELSE Idle]
        /\ written' = IF c.call = "write" /\ c.clean THEN written \cup {Letter(t)} ELSE written
        /\ gone' = IF c.call = "acknowledge" /\ c.clean THEN gone \cup {Letter(t)} ELSE gone
        /\ replays' = CASE c.call = "replay" -> [replays EXCEPT ![Letter(t)] = @ + 1]
                        [] c.call = "acknowledge" -> [replays EXCEPT ![Letter(t)] = 0]
                        [] c.call = "write" -> [replays EXCEPT ![Letter(t)] = c.rec.attempt]
        /\ hand' = IF c.call = "replay" /\ hand[Letter(t)] = c.rec
                   THEN [hand EXCEPT ![Letter(t)].attempt = @ + 1] ELSE hand
        /\ UNCHANGED faults

Fails(t) ==
    /\ faults < config.faults /\ faults' = faults + 1
    /\ task' = [task EXCEPT ![t] = Idle]
    /\ UNCHANGED <<written, gone, replays, hand>>

\* The letter is stored by the script, unless its key has the old prefix.
Upsert(t) ==
    /\ task[t].call = "write" /\ task[t].stage = "start" /\ Prefix(Letter(t)) = "tagged"
    /\ store' = Hashed(Letter(t), task[t].rec.attempt)
    /\ index' = Upserted(Letter(t), store[Letter(t)].there)
    /\ Answered(t) \/ Fails(t)
    /\ UNCHANGED <<config, scan, revived>>

\* HSET of the attempt. If the letter has been acknowledged by another caller, this makes a
\* hash of one field that no list names.
SetAttempt(t) ==
    /\ task[t].call = "replay"
    /\ store' = [store EXCEPT ![Letter(t)].attempt = task[t].rec.attempt + 1, ![Letter(t)].there = TRUE]
    /\ revived' = IF store[Letter(t)].there THEN revived ELSE revived \cup {Letter(t)}
    /\ Answered(t) \/ Fails(t)
    /\ UNCHANGED <<config, scan, index>>

\* The script removes the hash and the entries of all lists in one step.
RemoveLetter(t) ==
    /\ task[t].call = "acknowledge" /\ task[t].stage = "start"
    /\ Prefix(Letter(t)) = "tagged" /\ (config.cluster => store[Letter(t)].meta)
    /\ store' = [store EXCEPT ![Letter(t)] = NoHash]
    /\ index' = Unindexed(Letter(t))
    /\ Answered(t) \/ Fails(t)
    /\ UNCHANGED <<config, scan, revived>>

\* Otherwise the hash is read first ...
Read(t) ==
    /\ task[t].stage = "start" /\ task[t].call \in {"write", "acknowledge"}
    /\ \/ Prefix(Letter(t)) = "legacy"
       \/ task[t].call = "acknowledge" /\ config.cluster /\ ~store[Letter(t)].meta
    /\ task' = [task EXCEPT ![t].stage = "hash", ![t].read = store[Letter(t)]]
    /\ UNCHANGED <<config, store, faults, scan, hand, index, written, gone, replays, revived>>

\* ... and the pipeline, which is not a transaction in a cluster, changes the hash and then
\* the lists, as that reading says.
ChangeHash(t) ==
    /\ task[t].stage = "hash"
    /\ \/ task' = [task EXCEPT ![t].stage = "lists"] /\ UNCHANGED <<faults, written, gone, replays, hand>>
       \/ Fails(t)
    /\ store' = IF task[t].call = "write" THEN Hashed(Letter(t), task[t].rec.attempt)
                ELSE [store EXCEPT ![Letter(t)] = NoHash]
    /\ revived' = IF task[t].clean /\ faults' = faults THEN revived ELSE revived \cup {Letter(t)}
    /\ UNCHANGED <<config, scan, index>>
ChangeLists(t) ==
    /\ task[t].stage = "lists"
    /\ index' = IF task[t].call = "write" THEN Upserted(Letter(t), task[t].read.there)
                ELSE Unindexed(Letter(t))
    /\ revived' = IF task[t].clean THEN revived ELSE revived \cup {Letter(t)}
    /\ Answered(t) \/ Fails(t)
    /\ UNCHANGED <<config, store, scan>>

\* The command is not carried out.
Refused(t) ==
    /\ task[t].stage = "start" /\ Fails(t)
    /\ UNCHANGED <<config, store, scan, index, revived>>

-----------------------------------------------------------------------------
(* The source.                                                               *)

\* hash_to_record(): the record of an encrypted payload (sealed) is as it was written.
AsRead(l) == [letter |-> l, attempt |-> IF config.sealed THEN 0 ELSE store[l].attempt]
Live(l) == store[l].full /\ Listed(Prefix(l), "primary", l)

\* resolve_index_key(): the index asked for, that of the old prefix, and the primary ones,
\* whichever exists first.
Candidates ==
    LET prefixes == IF config.cluster THEN <<"tagged", "legacy">> ELSE <<"tagged">>
        of(k) == [i \in DOMAIN prefixes |-> <<prefixes[i], k>>]
    IN  of(config.filter) \o of("primary")
Resolve ==
    /\ scan.stage = "closed"
    /\ OneCaller => \A t \in Tasks : ~Busy(t)
    /\ LET there == SelectSeq(Candidates, LAMBDA c : index[c[1]][c[2]] # <<>>)
       IN  scan' = [NoScan EXCEPT !.stage = "list", !.must = written,
                                  !.list = IF there = <<>> THEN <<"tagged", "primary">> ELSE Head(there)]
    /\ hand' = [l \in Letters |-> Nothing]
    /\ UNCHANGED <<config, task, store, faults, index, written, gone, replays, revived>>

\* LRANGE: the whole list at once, since it changes while the scan goes on.
List ==
    /\ scan.stage = "list"
    /\ scan' = [scan EXCEPT !.stage = "fetch", !.keys = index[scan.list[1]][scan.list[2]]]
    /\ UNCHANGED <<config, task, store, faults, hand, index, written, gone, replays, revived>>

\* HGETALL of a chunk (one key here). A removed letter is skipped; a hash without the fields
\* of a record ends the scan with an error; used-up letters are passed over by stream().
Fetch ==
    /\ scan.stage = "fetch" /\ scan.keys # <<>>
    /\ LET l == Head(scan.keys)
           due == store[l].full /\ AsRead(l).attempt < MaxAttempts
       IN  scan' = [scan EXCEPT !.keys = Tail(@), !.todo = IF due THEN <<AsRead(l)>> ELSE @,
                                !.must = IF store[l].full /\ ~due THEN @ \ {l} ELSE @,
                                !.stage = CASE due -> "offer"
                                            [] store[l].there /\ ~store[l].full -> "failed"
                                            [] OTHER -> "fetch"]
    /\ UNCHANGED <<config, task, store, faults, hand, index, written, gone, replays, revived>>

Offer ==
    /\ scan.stage = "offer"
    /\ scan' = [scan EXCEPT !.stage = "fetch", !.todo = <<>>, !.seen = @ \o scan.todo]
    /\ hand' = [hand EXCEPT ![Head(scan.todo).letter] = Head(scan.todo)]
    /\ UNCHANGED <<config, task, store, faults, index, written, gone, replays, revived>>

ScanEnds ==
    /\ scan.stage = "failed" \/ (scan.stage = "fetch" /\ scan.keys = <<>>)
    /\ scan' = NoScan
    /\ UNCHANGED <<config, task, store, faults, hand, index, written, gone, replays, revived>>

Next ==
    \/ \E t \in Tasks :
        \/ \E l \in Letters : Write(t, <<l>>) \/ Handle(t, "replay", l) \/ Handle(t, "acknowledge", l)
        \/ "batch" \in config.calls /\ Write(t, SetToSortSeq(Letters, <))
        \/ Upsert(t) \/ SetAttempt(t) \/ RemoveLetter(t) \/ Read(t)
        \/ ChangeHash(t) \/ ChangeLists(t) \/ Refused(t)
    \/ Resolve \/ List \/ Fetch \/ Offer \/ ScanEnds

Spec == Init /\ [][Next]_vars

-----------------------------------------------------------------------------
\* A letter whose write() has returned is whole and in the primary index, once, until
\* somebody acknowledges it, and in no list after that, whatever calls failed half-way.
\* The exception is a hash that a replay, or a write that is not one step, brought back.
LettersKept ==
    /\ \A l \in written \ revived : Live(l)
    /\ \A l \in gone \ revived : ~store[l].there /\ \A k \in {"primary", "pipeline"} : ~Listed(Prefix(l), k, l)

\* A scan that ends has offered every letter that was there all the time, with attempts
\* left, and none twice. Letters of the older release are passed over while an index of
\* newer ones exists. Only a hash that was brought back makes a scan fail.
Hidden(l) == l \in config.old /\ scan.list # <<Prefix(l), "primary">>
ScanIsTrue ==
    /\ scan.stage = "fetch" /\ scan.keys = <<>> =>
        /\ revived = {} => IsInjective([i \in DOMAIN scan.seen |-> scan.seen[i].letter])
        /\ \A l \in scan.must \ revived :
               ~Hidden(l) => \E i \in DOMAIN scan.seen : scan.seen[i].letter = l
    /\ scan.stage = "failed" => revived # {}

\* With one caller every replay of a letter counts, unless the payload is encrypted or its
\* hash and its lists came apart.
AttemptsCounted ==
    OneCaller /\ ~config.sealed => \A l \in written \ revived : store[l].attempt >= replays[l]
=============================================================================
