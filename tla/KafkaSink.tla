------------------------------ MODULE KafkaSink ------------------------------
(* KafkaSink: records go to an aiokafka producer, confirmations come later.  *)
(* kafka/sinks/kafka.py                                                      *)
(*                                                                          *)
(* buffer is _pending_acks, the records sent whose confirmation nobody has   *)
(* awaited yet. A call waits for the producer (send, flush, begin, commit,   *)
(* abort) or for the confirmation of the oldest record.                      *)
EXTENDS Naturals, Sequences, SequencesExt, FiniteSets

CONSTANTS
    Tasks,      \* callers
    End,        \* bound: records handed over
    Misfit,     \* records that the serializer rejects
    MaxFaults,  \* bound: failed producer calls and deliveries
    Configs     \* [callers, max_pending, mode]; mode is "plain" (no transactions),
                \* "per_batch" (transaction_per_batch) or "manual" (transactional_id only)

VARIABLES
    config, client, task, buffer, store, given, accepted, settled, faults,
    in_transaction, \* _in_transaction
    delivery,   \* delivery[r]: "none", "sent", "ok" or "failed"
    txn,        \* the broker: records of the transaction that is not yet committed
    torn,       \* history: a commit or an abort failed and left its transaction open
    overlapped, \* history: flush() returned while another call awaited a confirmation
    dropped     \* history: records that a call answers for without having their confirmation,
                \* or while they are in an open transaction that nobody commits

vars == <<config, client, task, buffer, store, given, accepted, settled, faults,
          in_transaction, delivery, txn, torn, overlapped, dropped>>

Records == 1..End
Idle == [call |-> "idle", own |-> {}, promise |-> {}, todo |-> <<>>, stage |-> "idle",
         oldest |-> 0, wrapped |-> FALSE]
Busy(t) == task[t].call # "idle"
NotClosing == client = "open" /\ \A t \in Tasks : task[t].call # "close"

Init ==
    /\ config \in Configs
    /\ client = "none"
    /\ task = [t \in Tasks |-> Idle]
    /\ buffer = <<>> /\ store = <<>> /\ txn = <<>>
    /\ given = 0 /\ accepted = {} /\ settled = {} /\ faults = 0
    /\ in_transaction = FALSE
    /\ delivery = [r \in Records |-> "none"]
    /\ torn = FALSE /\ overlapped = FALSE /\ dropped = {}

-----------------------------------------------------------------------------
(* How a call goes on after an answer, up to its next await.                 *)

Goto(t, c, stage) == task' = [task EXCEPT ![t] = [c EXCEPT !.stage = stage]]
Same == UNCHANGED <<accepted, settled, client>>

Returns(t, c) ==
    /\ task' = [task EXCEPT ![t] = Idle]
    /\ accepted' = accepted \cup c.own
    /\ settled' = settled \cup (c.promise \cap accepted)
    /\ client' = IF c.call = "close" THEN "closed" ELSE client

\* close() gives up the producer whether flush() or abort raised or not. The record
\* whose confirmation failed, if any, is reported with the error.
Raises(t, c, failed) ==
    /\ task' = [u \in Tasks |-> IF u = t THEN Idle ELSE [task[u] EXCEPT !.own = @ \ failed]]
    /\ accepted' = accepted \ (failed \ settled)
    /\ client' = IF c.call = "close" THEN "closed" ELSE client
    /\ UNCHANGED settled

\* The next record of a batch, or the end of the records: a transaction of the call's
\* own is committed, which drains the confirmations first.
Drain(t, c, acks, stage) ==
    IF acks = <<>>
    THEN Goto(t, [c EXCEPT !.oldest = 0], stage) /\ buffer' = <<>> /\ Same
    ELSE Goto(t, [c EXCEPT !.oldest = Head(acks)], "drain") /\ buffer' = Tail(acks) /\ Same

SendNext(t, c, acks) ==
    \/ c.todo # <<>> /\ Goto(t, c, "send") /\ buffer' = acks /\ Same
    \/ c.todo = <<>> /\ c.wrapped /\ Drain(t, c, acks, "commit")
    \/ c.todo = <<>> /\ ~c.wrapped /\ Returns(t, c) /\ buffer' = acks

\* An error inside transaction() aborts it: the confirmations are forgotten.
Fails(t, c, acks, failed) ==
    IF c.wrapped
    THEN Goto(t, [c EXCEPT !.oldest = 0], "abort") /\ buffer' = <<>> /\ Same
    ELSE Raises(t, c, failed) /\ buffer' = acks

-----------------------------------------------------------------------------
(* Calls of the runner.                                                      *)

Ready(t) == ~Busy(t) /\ t \in config.callers /\ NotClosing

\* open(): a producer that does not start is given up.
Open(t) ==
    /\ t \in config.callers /\ client = "none" /\ task[t] = Idle
    /\ \/ client' = "open" /\ UNCHANGED faults
       \/ faults < MaxFaults /\ faults' = faults + 1 /\ UNCHANGED client
    /\ UNCHANGED <<config, task, buffer, store, given, accepted, settled, in_transaction,
                   delivery, txn, torn, overlapped, dropped>>

\* The batch is serialized before its first record is sent.
Serialized(records) == ToSet(records) \cap Misfit = {}

\* write() of one record, write_batch() of n. In a manual transaction records count
\* as accepted when the transaction is committed. A batch that finds a transaction open
\* joins it, and answers for its records although nothing will commit them.
Write(t, n, batch) ==
    /\ Ready(t)
    /\ batch \/ n = 1
    /\ given + n <= End /\ given' = given + n
    /\ batch \/ config.mode # "per_batch"
    /\ config.mode = "manual" => in_transaction
    /\ LET own == (given + 1)..(given + n)
           c == [Idle EXCEPT !.call = "write", !.todo = [i \in 1..n |-> given + i],
                             !.own = IF config.mode = "manual" THEN {} ELSE own]
       IN  \/ /\ config.mode = "per_batch" /\ ~in_transaction
              /\ Goto(t, [c EXCEPT !.wrapped = TRUE], "begin")
           \/ /\ ~(config.mode = "per_batch" /\ ~in_transaction)
              /\ IF Serialized(c.todo) THEN Goto(t, c, "send") ELSE UNCHANGED task
       /\ dropped' = IF config.mode = "per_batch" /\ in_transaction THEN dropped \cup own ELSE dropped
    /\ UNCHANGED <<config, client, buffer, store, accepted, settled, faults, in_transaction,
                   delivery, txn, torn, overlapped>>

\* flush(), and close(), which comes last: it aborts a transaction that is open.
FlushOrClose(t, call) ==
    /\ Ready(t)
    /\ call = "close" => \A u \in Tasks : ~Busy(u)
    /\ LET c == [Idle EXCEPT !.call = call, !.promise = IF call = "flush" \/ ~in_transaction
                                                        THEN accepted ELSE {}]
       IN  IF call = "close" /\ in_transaction
           THEN Goto(t, c, "abort") /\ buffer' = <<>> /\ Same
           ELSE Drain(t, c, buffer, "flush")
    /\ UNCHANGED <<config, store, given, faults, in_transaction, delivery, txn, torn, overlapped, dropped>>

\* begin_transaction(), commit_transaction() and abort_transaction().
Transaction(t, call) ==
    /\ Ready(t) /\ config.mode = "manual"
    /\ (call = "begin") <=> ~in_transaction
    /\ LET c == [Idle EXCEPT !.call = call, !.own = IF call = "commit" THEN ToSet(txn) \cup
                                {r \in Records : delivery[r] = "sent"} \cup ToSet(buffer) ELSE {}]
       IN  \/ call = "begin" /\ Goto(t, c, "begin") /\ UNCHANGED buffer /\ Same
           \/ call = "commit" /\ Drain(t, c, buffer, "commit")
           \/ call = "abort" /\ Goto(t, c, "abort") /\ buffer' = <<>> /\ Same
    /\ UNCHANGED <<config, store, given, faults, in_transaction, delivery, txn, torn, overlapped, dropped>>

-----------------------------------------------------------------------------
(* Answers of the producer.                                                  *)

\* producer.send(): the record is in the producer's batches; when max_pending_acks
\* confirmations are outstanding the oldest is awaited.
SendReturns(t) ==
    /\ task[t].stage = "send"
    /\ LET c == [task[t] EXCEPT !.todo = Tail(@)]
           r == Head(task[t].todo)
           acks == Append(buffer, r)
       IN  /\ delivery' = [delivery EXCEPT ![r] = "sent"]
           /\ IF Len(acks) >= config.max_pending
              THEN /\ Goto(t, [c EXCEPT !.oldest = Head(acks)], "ack")
                   /\ buffer' = Tail(acks) /\ Same
              ELSE SendNext(t, c, acks)
    /\ UNCHANGED <<config, store, given, faults, in_transaction, txn, torn, overlapped, dropped>>

\* send() raises once the retry policy gives up.
SendFails(t) ==
    /\ task[t].stage = "send"
    /\ faults < MaxFaults /\ faults' = faults + 1
    /\ Fails(t, task[t], buffer, {})
    /\ UNCHANGED <<config, store, given, in_transaction, delivery, txn, torn, overlapped, dropped>>

\* The confirmation of the oldest record arrived.
Confirmed(t) ==
    /\ task[t].stage \in {"ack", "drain"} /\ delivery[task[t].oldest] = "ok"
    /\ LET c == [task[t] EXCEPT !.oldest = 0]
       IN  IF task[t].stage = "ack" THEN SendNext(t, c, buffer)
           ELSE Drain(t, c, buffer, IF c.call \in {"flush", "close"} THEN "flush" ELSE "commit")
    /\ UNCHANGED <<config, store, given, faults, in_transaction, delivery, txn, torn, overlapped, dropped>>

\* The delivery failed and may be retried: the record is sent again.
SendAgain(t) ==
    /\ task[t].stage \in {"ack", "drain"} /\ delivery[task[t].oldest] = "failed"
    /\ delivery' = [delivery EXCEPT ![task[t].oldest] = "sent"]
    /\ UNCHANGED <<config, client, task, buffer, store, given, accepted, settled, faults,
                   in_transaction, txn, torn, overlapped, dropped>>

\* The delivery failed for good. In commit_transaction() the error comes after the body
\* of transaction(): nothing aborts, the transaction stays open.
DeliveryRaises(t) ==
    /\ task[t].stage \in {"ack", "drain"} /\ delivery[task[t].oldest] = "failed"
    /\ LET c == task[t] IN
       IF c.stage = "ack"
       THEN Fails(t, c, buffer, {c.oldest}) /\ UNCHANGED torn
       ELSE /\ Raises(t, c, {c.oldest}) /\ UNCHANGED buffer
            /\ torn' = (torn \/ c.call \notin {"flush", "close"})
    /\ UNCHANGED <<config, store, given, faults, in_transaction, delivery, txn, overlapped, dropped>>

\* producer.flush() returns when every record sent has been answered. It does not look at
\* the confirmation that another call has taken out of _pending_acks.
FlushReturns(t) ==
    /\ task[t].stage = "flush"
    /\ \A r \in Records : delivery[r] # "sent"
    /\ Returns(t, task[t])
    /\ LET others == {task[u].oldest : u \in Tasks \ {t}} \ {0}
       IN  /\ overlapped' = (overlapped \/ others # {})
           /\ dropped' = dropped \cup others
    /\ UNCHANGED <<config, buffer, store, given, faults, in_transaction, delivery, txn, torn>>

BeginReturns(t) ==
    /\ task[t].stage = "begin"
    /\ in_transaction' = TRUE
    /\ LET c == task[t] IN
       \/ c.call = "begin" /\ Returns(t, c) /\ UNCHANGED buffer
       \/ c.call # "begin" /\ Serialized(c.todo) /\ Goto(t, c, "send") /\ Same /\ UNCHANGED buffer
       \/ c.call # "begin" /\ ~Serialized(c.todo) /\ Fails(t, c, buffer, {})
    /\ UNCHANGED <<config, store, given, faults, delivery, txn, torn, overlapped, dropped>>

\* The broker makes the transaction visible. The producer sends what it holds first.
CommitReturns(t) ==
    /\ task[t].stage = "commit"
    /\ \A r \in Records : delivery[r] # "sent"
    /\ store' = store \o txn /\ txn' = <<>>
    /\ in_transaction' = FALSE
    /\ Returns(t, task[t])
    /\ UNCHANGED <<config, buffer, given, faults, delivery, torn, overlapped, dropped>>

\* The commit raises, executed or not; _in_transaction stays set.
CommitFails(t) ==
    /\ task[t].stage = "commit"
    /\ faults < MaxFaults /\ faults' = faults + 1
    /\ \/ store' = store \o txn /\ txn' = <<>>
       \/ UNCHANGED <<store, txn>>
    /\ Raises(t, task[t], {})
    /\ torn' = TRUE
    /\ UNCHANGED <<config, buffer, given, in_transaction, delivery, overlapped, dropped>>

\* The broker drops the transaction. The call that aborted after an error raises it.
AbortReturns(t) ==
    /\ task[t].stage = "abort"
    /\ txn' = <<>>
    /\ delivery' = [r \in Records |-> IF delivery[r] = "sent" THEN "failed" ELSE delivery[r]]
    /\ in_transaction' = FALSE
    /\ IF task[t].wrapped THEN Raises(t, task[t], {}) ELSE Returns(t, task[t])
    /\ UNCHANGED <<config, buffer, store, given, faults, torn, overlapped, dropped>>

\* flush, begin or abort raises. The abort has forgotten the confirmations by then.
CallFails(t) ==
    /\ task[t].stage \in {"flush", "begin", "abort"}
    /\ faults < MaxFaults /\ faults' = faults + 1
    /\ Raises(t, task[t], {})
    /\ LET aborted == task[t].stage = "abort"
       IN  /\ torn' = (torn \/ aborted)
           /\ dropped' = dropped \cup {r \in Records : aborted /\ delivery[r] = "sent"}
    /\ UNCHANGED <<config, buffer, store, given, in_transaction, delivery, txn, overlapped>>

\* The broker answers for a record of the producer's batches.
Deliver(r) ==
    /\ delivery[r] = "sent"
    /\ delivery' = [delivery EXCEPT ![r] = "ok"]
    /\ IF in_transaction THEN txn' = Append(txn, r) /\ UNCHANGED store
                         ELSE store' = Append(store, r) /\ UNCHANGED txn
    /\ UNCHANGED <<config, client, task, buffer, given, accepted, settled, faults,
                   in_transaction, torn, overlapped, dropped>>

\* It fails, or only its answer is lost.
DeliveryFails(r) ==
    /\ delivery[r] = "sent"
    /\ faults < MaxFaults /\ faults' = faults + 1
    /\ delivery' = [delivery EXCEPT ![r] = "failed"]
    /\ \/ UNCHANGED <<store, txn>>
       \/ ~in_transaction /\ store' = Append(store, r) /\ UNCHANGED txn
       \/ in_transaction /\ txn' = Append(txn, r) /\ UNCHANGED store
    /\ UNCHANGED <<config, client, task, buffer, given, accepted, settled,
                   in_transaction, torn, overlapped, dropped>>

Next ==
    \/ \E t \in Tasks :
          \/ Open(t)
          \/ \E n \in 1..2, batch \in BOOLEAN : Write(t, n, batch)
          \/ \E call \in {"flush", "close"} : FlushOrClose(t, call)
          \/ \E call \in {"begin", "commit", "abort"} : Transaction(t, call)
          \/ SendReturns(t) \/ SendFails(t) \/ Confirmed(t) \/ SendAgain(t) \/ DeliveryRaises(t)
          \/ FlushReturns(t) \/ BeginReturns(t) \/ CommitReturns(t) \/ CommitFails(t)
          \/ AbortReturns(t) \/ CallFails(t)
    \/ \E r \in Records : Deliver(r) \/ DeliveryFails(r)

Spec == Init /\ [][Next]_vars

-----------------------------------------------------------------------------
\* Outside what the sink promises: once a commit or an abort has failed, later batches join
\* the open transaction and are told to be written although nothing commits them; and a
\* flush() does not wait for a confirmation that an overlapping call awaits.
Excused == torn \/ overlapped
Durable == ToSet(store)

\* A record that was accepted is in the topic, or has a confirmation that a call awaits or
\* will await, unless it is one of those the sink has dropped: the call that answers for
\* them does not know whether they reach the topic.
RowsKept ==
    /\ accepted \subseteq Durable \cup ToSet(buffer) \cup {task[t].oldest : t \in Tasks} \cup dropped
    /\ dropped # {} => Excused

\* A record is in the topic once, and once more for every answer that was lost.
DuplicatesExplained ==
    \A r \in Records : Cardinality({i \in DOMAIN store : store[i] = r}) <= 1 + faults
=============================================================================
