----------------------------- MODULE RedisSink -----------------------------
(* RedisSink: every call writes its records before it returns.               *)
(* redis/sinks/redis.py                                                      *)
(*                                                                          *)
(* A call sends its commands in an attempt and, when the connection fails,   *)
(* in another one. The server executes the commands of an attempt one after  *)
(* the other; an attempt that the client has given up may go on. Records     *)
(* are numbered in the order in which they are handed over.                  *)
EXTENDS Naturals, Sequences, SequencesExt, FiniteSets

CONSTANTS
    Tasks,      \* callers
    End,        \* bound: records handed over
    MaxFaults,  \* bound: attempts that fail and commands that are refused
    Configs     \* [callers, mode, mset]; mode is "set", "list" (lpush, rpush) or
                \* "xadd"; mset: no TTL and no cluster, a batch is one MSET

VARIABLES
    config, client, task, store, given, accepted, settled, faults,
    stats,      \* accepted_record_count and redis_mutation_count
    marks,      \* the operation ids the list script has seen: one for each record
    abandoned,  \* attempts given up: [batch, rest], rest are the commands still to run
    overlapped  \* history: commands of two calls or attempts ran at once

vars == <<config, client, task, store, given, accepted, settled, faults, stats, marks,
          abandoned, overlapped>>

Records == 1..End
Key(r) == r % 2     \* key_fn
MaxAttempts == 3    \* _effective_retry_policy()
Idle == [call |-> "idle", own |-> {}, batch |-> <<>>, attempt |-> 0, done |-> 0, refused |-> "no"]
Busy(t) == task[t].call # "idle"

Init ==
    /\ config \in Configs
    /\ client = "none"
    /\ stats = [accepted_record_count |-> 0, redis_mutation_count |-> 0]
    /\ task = [t \in Tasks |-> Idle]
    /\ store = <<>> /\ marks = {}
    /\ given = 0 /\ accepted = {} /\ settled = {}
    /\ faults = 0 /\ abandoned = {} /\ overlapped = FALSE

-----------------------------------------------------------------------------
(* Calls of the runner.                                                      *)

Open(t) ==
    /\ client = "none" /\ t \in config.callers
    /\ client' = "open"
    /\ UNCHANGED <<config, task, store, given, accepted, settled, faults, stats, marks,
                   abandoned, overlapped>>

\* The values of a batch as one mapping: the last record of every key.
Mapping(batch) ==
    SetToSeq({r \in ToSet(batch) : \A s \in ToSet(batch) : Key(s) = Key(r) => s <= r})

\* write() of one record, write_batch() of n.
Write(t, n) ==
    /\ ~Busy(t) /\ client = "open" /\ t \in config.callers
    /\ given + n <= End
    /\ given' = given + n
    /\ LET batch == [i \in 1..n |-> given + i]
       IN  task' = [task EXCEPT ![t] =
                       [Idle EXCEPT !.call = "write", !.own = ToSet(batch), !.attempt = 1,
                            !.batch = IF config.mset THEN Mapping(batch) ELSE batch]]
    /\ overlapped' = (overlapped \/ \E u \in Tasks : Busy(u))
    /\ UNCHANGED <<config, stats, client, store, accepted, settled, faults, marks, abandoned>>

\* flush() has nothing to do. close() comes last.
FlushOrClose(t, call) ==
    /\ ~Busy(t) /\ client = "open" /\ t \in config.callers
    /\ call = "close" => \A u \in Tasks : ~Busy(u)
    /\ client' = IF call = "close" THEN "closed" ELSE client
    /\ settled' = settled \cup accepted
    /\ UNCHANGED <<config, stats, task, store, given, accepted, faults, marks, abandoned, overlapped>>

\* retry_async(): another attempt with the same operation ids, or the error.
Retry(t) ==
    /\ task[t].attempt < MaxAttempts
    /\ task' = [task EXCEPT ![t].attempt = @ + 1, ![t].done = 0, ![t].refused = "no"]

Raise(t) == task' = [task EXCEPT ![t] = Idle]

\* The attempt returns. A refused command makes the whole attempt fail.
Answer(t) ==
    /\ Busy(t) /\ task[t].done = Len(task[t].batch)
    /\ \/ /\ task[t].refused = "no"
          /\ accepted' = accepted \cup task[t].own
          /\ stats' = [stats EXCEPT !.accepted_record_count = @ + Cardinality(task[t].own),
                                    !.redis_mutation_count = @ + Len(task[t].batch)]
          /\ task' = [task EXCEPT ![t] = Idle]
          /\ UNCHANGED abandoned
       \/ /\ task[t].refused # "no"
          /\ IF task[t].refused = "retryable" /\ task[t].attempt < MaxAttempts
             THEN Retry(t) ELSE Raise(t)
          /\ abandoned' = abandoned \cup {[id |-> faults, batch |-> task[t].batch, rest |-> <<>>]}
          /\ UNCHANGED <<accepted, stats>>
    /\ UNCHANGED <<config, client, store, given, settled, faults, marks, overlapped>>

\* The connection is lost or times out. The commands the server has not executed are
\* dropped, or run later.
AttemptFails(t) ==
    /\ Busy(t)
    /\ faults < MaxFaults /\ faults' = faults + 1
    /\ LET open == SubSeq(task[t].batch, task[t].done + 1, Len(task[t].batch))
       IN  \E rest \in {<<>>, open} :
              abandoned' = abandoned \cup {[id |-> faults + 1, batch |-> task[t].batch, rest |-> rest]}
    /\ IF task[t].attempt < MaxAttempts THEN Retry(t) ELSE Raise(t)
    /\ UNCHANGED <<config, stats, client, store, given, accepted, settled, marks, overlapped>>

-----------------------------------------------------------------------------
(* The Redis server.                                                         *)

\* One command: the list script does nothing for an operation id it has seen.
Run(r) ==
    IF config.mode = "list"
    THEN /\ store' = IF r \in marks THEN store ELSE Append(store, r)
         /\ marks' = marks \cup {r}
    ELSE store' = Append(store, r) /\ UNCHANGED marks

\* The next command of an attempt; MSET writes all its keys at once.
Execute(t) ==
    /\ task[t].done < Len(task[t].batch)
    /\ IF config.mset
       THEN /\ store' = store \o task[t].batch
            /\ task' = [task EXCEPT ![t].done = Len(task[t].batch)]
            /\ UNCHANGED marks
       ELSE Run(task[t].batch[task[t].done + 1]) /\ task' = [task EXCEPT ![t].done = @ + 1]
    /\ UNCHANGED <<config, stats, client, given, accepted, settled, faults, abandoned, overlapped>>

\* The server refuses a command and goes on with the next. A list script that meets a
\* key of another type fails after it has set its marker, and is not retried.
Refuse(t) ==
    /\ task[t].done < Len(task[t].batch)
    /\ faults < MaxFaults /\ faults' = faults + 1
    /\ \E why \in {"retryable", "final"} :
          /\ task' = [task EXCEPT
                 ![t].done = IF config.mset THEN Len(task[t].batch) ELSE @ + 1,
                 ![t].refused = IF @ = "final" THEN @ ELSE why]
          /\ marks' = IF why = "final" /\ config.mode = "list"
                      THEN marks \cup {task[t].batch[task[t].done + 1]} ELSE marks
    /\ UNCHANGED <<config, stats, client, store, given, accepted, settled, abandoned, overlapped>>

RunLate(j) ==
    /\ j.rest # <<>>
    /\ IF config.mset THEN store' = store \o j.rest /\ UNCHANGED marks ELSE Run(Head(j.rest))
    /\ abandoned' = (abandoned \ {j}) \cup
                        {[j EXCEPT !.rest = IF config.mset THEN <<>> ELSE Tail(@)]}
    /\ overlapped' = TRUE
    /\ UNCHANGED <<config, stats, client, task, given, accepted, settled, faults>>

Next ==
    \/ \E t \in Tasks :
          \/ Open(t)
          \/ \E n \in 1..2 : Write(t, n)
          \/ \E call \in {"flush", "close"} : FlushOrClose(t, call)
          \/ Answer(t) \/ AttemptFails(t) \/ Execute(t) \/ Refuse(t)
    \/ \E j \in abandoned : RunLate(j)

Spec == Init /\ [][Next]_vars

-----------------------------------------------------------------------------
metrics_snapshot ==
    [connection_ready |-> client = "open", accepted_record_count |-> stats.accepted_record_count,
     redis_mutation_count |-> stats.redis_mutation_count]

\* The gate asks for a connection and no more.
evaluate_sink(snapshot) == snapshot.connection_ready

\* A key holds the last value that was set: it is r or a later record.
HoldsSince(r) ==
    \E i \in DOMAIN store : /\ Key(store[i]) = Key(r) /\ store[i] >= r
                            /\ \A j \in DOMAIN store : Key(store[j]) = Key(r) => j <= i

\* Outside what the sink promises: a script whose push was refused has left its marker. When
\* the answer of that attempt is lost too, the next attempt takes the marker for a push. These
\* records are in no list, and never will be. It takes a command that was refused.
Masked == IF config.mode = "list" THEN marks \ ToSet(store) ELSE {}
Excused == faults > 0

Durable == IF config.mode = "set"
           THEN {r \in Records : \E s \in ToSet(store) : Key(s) = Key(r) /\ s >= r}
           ELSE ToSet(store)

\* A record that a call has accepted is written, and is the value of its key until a
\* later one is, unless its marker hid it from the retry: then it was accepted and is lost.
RowsKept ==
    /\ accepted \subseteq Durable \cup Masked
    /\ Masked # {} => Excused
    /\ config.mode = "set" /\ ~overlapped => \A r \in accepted : HoldsSince(r)

\* A sink that passes has counted every record it accepted, and no mutation twice, however
\* often a command was tried. It counts what it asked for: a record hidden by its marker is
\* counted as a mutation that Redis has not made.
ReportIsTrue ==
    evaluate_sink(metrics_snapshot) =>
        /\ metrics_snapshot.accepted_record_count = Cardinality(accepted)
        /\ metrics_snapshot.redis_mutation_count <= Len(store) + Cardinality(Masked)

\* What the sink declares of a retried write: SET overwrites, the list script
\* deduplicates, XADD adds another entry.
delivery_capability ==
    [idempotency |-> CASE config.mode = "set" -> "application_managed"
                       [] config.mode = "list" -> "sink_native"
                       [] config.mode = "xadd" -> "none"]

\* A sink that declares its writes idempotent writes a record once, however often it was
\* tried; the others once more for every attempt that was given up.
DuplicatesExplained ==
    \A r \in Records :
        Cardinality({i \in DOMAIN store : store[i] = r})
            <= 1 + (IF delivery_capability.idempotency = "sink_native" THEN 0
                    ELSE Cardinality({j \in abandoned : r \in ToSet(j.batch)}))
=============================================================================
