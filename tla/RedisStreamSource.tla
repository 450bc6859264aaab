-------------------------- MODULE RedisStreamSource --------------------------
(***************************************************************************)
(* RedisStreamSource (redis/sources): the consumers of one consumer group  *)
(* read a stream with XREADGROUP, take over idle entries with XAUTOCLAIM,  *)
(* acknowledge what was handled in batches and rewind the group with       *)
(* XGROUP SETID when they resume from a checkpoint.                        *)
(*                                                                         *)
(* The tasks of a consumer share its memory: the generator ("stream"), a   *)
(* delivery hook called by the runner ("hook") and close().  A Redis call  *)
(* is sent in one step and answered in another; it may fail with or        *)
(* without having been executed.                                           *)
(***************************************************************************)
EXTENDS Integers, Sequences, FiniteSets

CONSTANTS
    Consumers,      \* names of the consumers of the group
    NoOne,          \* the owner of an entry that is not in the pending list
    End,            \* no stream holds more than the entries 1..End
    Poison,         \* entries the deserializer rejects
    BatchSize,      \* batch_size, also reclaim_batch_size
    AckBatch,       \* ack_batch_size
    Configs,        \* the configurations to consider
    MaxFaults       \* bound on failed calls and crashes

Entries == 1..End
Tasks == {"stream", "hook", "close"}

\* A deployment: the consumers that run and the entries the stream holds;
\* ack_on_success, reclaim_idle_ms # None, max_consecutive_reclaim_batches
\* (0 for None), decode_responses, on_deserialize_error = LOG_AND_CONTINUE,
\* and whether the runner saves checkpoints.
Config == [members : SUBSET Consumers, entries : 0..End,
           ack : BOOLEAN, reclaim : BOOLEAN, limit : Nat, decode : BOOLEAN,
           drop : BOOLEAN, checkpoint : BOOLEAN]

ASSUME StreamAssumption ==
    /\ NoOne \notin Consumers
    /\ End \in Nat /\ Poison \subseteq Entries
    /\ BatchSize \in Nat \ {0} /\ AckBatch \in Nat \ {0}
    /\ MaxFaults \in Nat
    /\ Configs \subseteq Config

VARIABLES
    config,
    \* Redis
    lastId,         \* last delivered id of the group
    pel,            \* entry -> consumer whose pending list holds it
    idle,           \* pending entries idle for longer than reclaim_idle_ms
    group,          \* the consumers the group knows
    \* memory of each consumer
    client,         \* _client is not None
    at,             \* where its generator is
    batch,          \* entries read and not yet yielded (in the order of their ids)
    reclaimed,      \* _active_reclaimed_message_ids
    last,           \* _last_message_id, 0 for None
    resume,         \* _resume_cursor while _resume_group_seek_pending, else 0
    reclaim_cursor, \* _reclaim_cursor, 0 for "0-0"
    streak,         \* _consecutive_reclaim_batch_count, counted up to the limit
    pending,        \* _pending_ack_ids
    stage,          \* task -> where it is in flush_pending_acks or in a reconnect
    sent,           \* task -> ids it swapped out of pending
    \* the runner
    hooks,          \* entries whose delivery hook was taken and not called
    failed,         \* entry of the last SourceRecordError, 0 for none
    failureAck,     \* that error carries on_handled
    saved,          \* checkpoint, 0 for none
    faults,
    \* history
    handled,        \* entries the runner handled or the poison policy dropped
    seen,           \* largest id ever delivered
    owed            \* ids given to enqueue_ack by the living process

redisVars == <<lastId, pel, idle, group>>
ackVars == <<pending, stage, sent>>
readVars == <<batch, reclaimed, last, resume, reclaim_cursor, streak>>
runVars == <<hooks, failed, failureAck, saved>>
history == <<handled, seen, owed>>
vars == <<config, redisVars, client, at, readVars, ackVars, runVars, faults, history>>

Ids(s) == {s[i] : i \in DOMAIN s}

-----------------------------------------------------------------------------
(* Redis: XREADGROUP, XAUTOCLAIM, XACK on the group's pending list.        *)

LeastN(S, n) == {e \in S : Cardinality({f \in S : f < e}) < n}

\* The last-delivered id after XREADGROUP with ">", and the entries it returns.
NewLast == IF lastId + BatchSize <= config.entries THEN lastId + BatchSize
                                                   ELSE config.entries

NewEntries == {e \in Entries : lastId < e /\ e <= NewLast}

\* The ids XAUTOCLAIM returns, scanning from the cursor.
ClaimedEntries(c) == LeastN({e \in idle : e >= reclaim_cursor[c]}, BatchSize)

\* Mutant: a cursor that never advances.
NextCursorZero(S, n) == n = 0

\* The cursor n XAUTOCLAIM returns with the entries of S: the pending entry
\* after the last one claimed when it stopped at COUNT, 0 when the scan
\* reached the end.
NextCursor(S, n) ==
    LET rest == {e \in Entries : pel[e] # NoOne /\ \A f \in S : e > f}
    IN  IF Cardinality(S) < BatchSize \/ rest = {}
        THEN n = 0
        ELSE n \in rest /\ \A e \in rest : n <= e

\* Hands the entries of S to consumer c, which the command also registers.
Deliver(c, S) ==
    /\ pel' = [e \in Entries |-> IF e \in S THEN c ELSE pel[e]]
    /\ idle' = idle \ S
    /\ group' = group \cup {c}
    /\ owed' = [d \in Consumers |-> owed[d] \ {e \in S : pel[e] = NoOne}]

ReadNew(c) ==
    /\ Deliver(c, NewEntries)
    /\ lastId' = NewLast
    /\ seen' = IF NewLast > seen THEN NewLast ELSE seen

XAck(S) ==
    /\ pel' = [e \in Entries |-> IF e \in S THEN NoOne ELSE pel[e]]
    /\ idle' = idle \ S
    /\ UNCHANGED <<lastId, group>>

\* Time passes: a pending entry crosses reclaim_idle_ms.
Age(e) ==
    /\ pel[e] # NoOne
    /\ e \notin idle
    /\ idle' = idle \cup {e}
    /\ UNCHANGED <<lastId, pel, group, client, at, readVars, ackVars, runVars, faults, history>>

-----------------------------------------------------------------------------
(* Lifecycle.                                                              *)

\* Mutant: the cursor is set one id back, with or without a checkpoint.
OpenInclusive(c) ==
    /\ c \in config.members
    /\ at[c] = "off"
    /\ \A t \in Tasks : stage[c][t] = "idle"
    /\ client' = [client EXCEPT ![c] = TRUE]
    /\ resume' = [resume EXCEPT ![c] = saved[c] - 1]
    /\ at' = [at EXCEPT ![c] = "open"]
    /\ UNCHANGED <<redisVars, batch, reclaimed, last, reclaim_cursor, streak, ackVars,
                   runVars, faults, history>>

\* open() and prepare_resume() with the checkpoint the runner saved.
Open(c) ==
    /\ c \in config.members
    /\ at[c] = "off"
    /\ \A t \in Tasks : stage[c][t] = "idle"
    /\ client' = [client EXCEPT ![c] = TRUE]
    /\ resume' = [resume EXCEPT ![c] = saved[c]]
    /\ at' = [at EXCEPT ![c] = "open"]
    /\ UNCHANGED <<redisVars, batch, reclaimed, last, reclaim_cursor, streak, ackVars,
                   runVars, faults, history>>

\* stream(): apply_resume_checkpoint() only when a group seek is pending.
StreamBegin(c) ==
    /\ at[c] = "open"
    /\ at' = [at EXCEPT ![c] = IF resume[c] = 0 THEN "loop" ELSE "check"]
    /\ UNCHANGED <<redisVars, client, readVars, ackVars, runVars, faults, history>>

\* ensure_resume_single_consumer_group(): XINFO CONSUMERS.
CheckConsumers(c) ==
    /\ at[c] = "check"
    /\ at' = [at EXCEPT ![c] = IF Cardinality(group) > 1 THEN "ended" ELSE "seek"]
    /\ resume' = [resume EXCEPT ![c] = IF Cardinality(group) > 1 THEN 0 ELSE @]
    /\ UNCHANGED <<redisVars, client, batch, reclaimed, last, reclaim_cursor, streak,
                   ackVars, runVars, faults, history>>

\* XGROUP SETID
SetId(c) ==
    /\ at[c] = "seek"
    /\ lastId' = resume[c]
    /\ resume' = [resume EXCEPT ![c] = 0]
    /\ at' = [at EXCEPT ![c] = "loop"]
    /\ UNCHANGED <<pel, idle, group, client, batch, reclaimed, last, reclaim_cursor,
                   streak, ackVars, runVars, faults, history>>

\* XINFO or SETID fails; the seek stays pending, SETID may have been executed.
ResumeFails(c) ==
    /\ faults < MaxFaults
    /\ at[c] \in {"check", "seek"}
    /\ at' = [at EXCEPT ![c] = "ended"]
    /\ \/ UNCHANGED lastId
       \/ at[c] = "seek" /\ lastId' = resume[c]
    /\ faults' = faults + 1
    /\ UNCHANGED <<pel, idle, group, client, readVars, ackVars, runVars, history>>

-----------------------------------------------------------------------------
(* flush_pending_acks() and the reconnect every task may run.              *)

\* Where the generator goes on when its flush or reconnect ends.
After(where, ok) ==
    CASE where = "poison" -> IF ok THEN "raised" ELSE "ended"
      [] where = "drop"   -> IF ok THEN "entries" ELSE "ended"
      [] where = "reclaim" -> IF ok THEN "read" ELSE "ended"
      [] where = "read"   -> IF ok THEN "loop" ELSE "ended"
      [] OTHER -> "ended"

\* The task leaves flush_pending_acks() or its reconnect.
Finish(c, t, ok) ==
    /\ stage' = [stage EXCEPT ![c][t] = "idle"]
    /\ sent' = [sent EXCEPT ![c][t] = <<>>]
    /\ at' = CASE t = "stream" -> [at EXCEPT ![c] = After(at[c], ok)]
               [] t = "close"  -> [at EXCEPT ![c] = "off"]
               [] OTHER -> at

\* What close() does next: the client, whoever made it, is closed.
Disconnect(c, t) == client' = [client EXCEPT ![c] = @ /\ t # "close"]

\* flush_pending_acks() of the list p by task t, when it is due: without a
\* client, or with nothing to send, it returns at once.
Flush(c, t, p, due) ==
    LET sends == due /\ client[c] /\ p # <<>>
    IN  /\ pending' = [pending EXCEPT ![c] = IF sends THEN <<>> ELSE p]
        /\ sent' = [sent EXCEPT ![c][t] = IF sends THEN p ELSE @]
        /\ stage' = [stage EXCEPT ![c][t] = IF sends THEN "ack" ELSE @]

\* enqueue_ack()
Enqueue(c, t, e) ==
    /\ owed' = [owed EXCEPT ![c] = @ \cup {e}]
    /\ Flush(c, t, Append(pending[c], e), Len(pending[c]) + 1 >= AckBatch)

\* XACK succeeds; an XACK without ids is refused by Redis.
AckReturns(c, t) ==
    /\ stage[c][t] \in {"ack", "again"}
    /\ sent[c][t] # <<>>
    /\ XAck(Ids(sent[c][t]))
    /\ Finish(c, t, TRUE)
    /\ Disconnect(c, t)
    /\ UNCHANGED <<readVars, pending, runVars, faults, history>>

\* Mutant: what other tasks enqueued during the await is overwritten.
RestoredOnly(c, t) == sent[c][t]

\* The ids a failed XACK goes back to the list with.
Restored(c, t) == sent[c][t] \o pending[c]

\* XACK fails, executed or not.  The ids go back to the list; a retryable
\* error of the first attempt starts a reconnect, any other one is raised.
AckFails(c, t) ==
    /\ \/ faults < MaxFaults /\ faults' = faults + 1 /\ stage[c][t] \in {"ack", "again"}
       \/ stage[c][t] = "again" /\ sent[c][t] = <<>> /\ UNCHANGED faults
    /\ pending' = [pending EXCEPT ![c] = Restored(c, t)]
    /\ \/ UNCHANGED redisVars
       \/ XAck(Ids(sent[c][t]))
    /\ \/ /\ stage[c][t] = "ack"
          /\ stage' = [stage EXCEPT ![c][t] = "reconnect"]
          /\ sent' = [sent EXCEPT ![c][t] = <<>>]
          /\ client' = [client EXCEPT ![c] = FALSE]
          /\ UNCHANGED at
       \/ /\ Finish(c, t, FALSE)
          /\ Disconnect(c, t)
    /\ UNCHANGED <<readVars, runVars, history>>

\* reconnect_client() builds a client.  A read or a reclaim goes on in the
\* loop; a flush sends whatever the list holds now.
Reconnected(c, t) ==
    /\ stage[c][t] = "reconnect"
    /\ client' = [client EXCEPT ![c] = TRUE]
    /\ IF t = "stream" /\ at[c] \in {"read", "reclaim"}
       THEN /\ Finish(c, t, TRUE)
            /\ UNCHANGED pending
       ELSE /\ stage' = [stage EXCEPT ![c][t] = "again"]
            /\ sent' = [sent EXCEPT ![c][t] = pending[c]]
            /\ pending' = [pending EXCEPT ![c] = <<>>]
            /\ UNCHANGED at
    /\ streak' = [streak EXCEPT ![c] = IF t = "stream" /\ at[c] = "reclaim" THEN 0 ELSE @]
    /\ UNCHANGED <<redisVars, batch, reclaimed, last, resume, reclaim_cursor, runVars,
                   faults, history>>

\* The retries are used up: the error is raised.
ReconnectFails(c, t) ==
    /\ faults < MaxFaults
    /\ stage[c][t] = "reconnect"
    /\ Finish(c, t, FALSE)
    /\ Disconnect(c, t)
    /\ faults' = faults + 1
    /\ UNCHANGED <<redisVars, readVars, pending, runVars, history>>

-----------------------------------------------------------------------------
(* The read loop.                                                          *)

\* Mutant: the limit on consecutive reclaim batches is ignored.
ShouldReadReclaimedAlways(c) == TRUE

\* should_read_reclaimed_messages()
ShouldReadReclaimed(c) ==
    \/ config.limit = 0
    \/ ~config.reclaim
    \/ streak[c] < config.limit

\* One turn of the loop up to its first await.  Without a client
\* require_client() raises.
LoopTurn(c) ==
    LET claims == ShouldReadReclaimed(c) /\ config.reclaim /\ client[c]
    IN  /\ at[c] = "loop"
        /\ at' = [at EXCEPT ![c] = IF claims THEN "reclaim"
                                   ELSE IF client[c] THEN "read" ELSE "ended"]
        /\ streak' = [streak EXCEPT ![c] = IF claims THEN @ ELSE 0]
        /\ UNCHANGED <<redisVars, client, batch, reclaimed, last, resume, reclaim_cursor,
                       ackVars, runVars, faults, history>>

\* The reply of XAUTOCLAIM.  parse_xautoclaim_response() keeps the cursor
\* only when it is text.  With nothing claimed the loop reads new entries.
Reclaim(c) ==
    LET S == ClaimedEntries(c)
    IN  /\ at[c] = "reclaim" /\ stage[c]["stream"] = "idle"
        /\ Deliver(c, S)
        /\ \E n \in 0..End :
              /\ NextCursor(S, n)
              /\ reclaim_cursor' = [reclaim_cursor EXCEPT ![c] =
                                      IF config.decode THEN n ELSE 0]
        /\ streak' = [streak EXCEPT ![c] = IF S = {} THEN 0
                                          ELSE IF @ < config.limit THEN @ + 1 ELSE @]
        /\ batch' = [batch EXCEPT ![c] = S]
        /\ reclaimed' = [reclaimed EXCEPT ![c] = IF S = {} THEN @ ELSE S]
        /\ at' = [at EXCEPT ![c] = IF S # {} THEN "entries"
                                   ELSE IF client[c] THEN "read" ELSE "ended"]
        /\ UNCHANGED <<lastId, client, last, resume, ackVars, runVars, faults, handled, seen>>

\* The reply of XREADGROUP, empty when the block timed out.
Read(c) ==
    /\ at[c] = "read" /\ stage[c]["stream"] = "idle"
    /\ ReadNew(c)
    /\ batch' = [batch EXCEPT ![c] = NewEntries]
    /\ at' = [at EXCEPT ![c] = IF NewEntries = {} THEN "loop" ELSE "entries"]
    /\ UNCHANGED <<client, reclaimed, last, resume, reclaim_cursor, streak, ackVars, runVars,
                   faults, handled>>

\* XREADGROUP or XAUTOCLAIM fails, executed or not: a reconnect, or the
\* error is raised.
ReadFails(c) ==
    /\ faults < MaxFaults
    /\ at[c] \in {"read", "reclaim"} /\ stage[c]["stream"] = "idle"
    /\ \/ UNCHANGED <<redisVars, seen, owed>>
       \/ at[c] = "read" /\ ReadNew(c)
       \/ at[c] = "reclaim" /\ Deliver(c, ClaimedEntries(c)) /\ UNCHANGED <<lastId, seen>>
    /\ \/ /\ stage' = [stage EXCEPT ![c]["stream"] = "reconnect"]
          /\ client' = [client EXCEPT ![c] = FALSE]
          /\ UNCHANGED at
       \/ /\ at' = [at EXCEPT ![c] = "ended"]
          /\ UNCHANGED <<stage, client>>
    /\ faults' = faults + 1
    /\ UNCHANGED <<readVars, pending, sent, runVars, handled>>

\* yield_entries() takes the next entry of the batch.
Take(c, e) ==
    /\ at[c] = "entries"
    /\ e \in batch[c]
    /\ \A f \in batch[c] : e <= f
    /\ last' = [last EXCEPT ![c] = e]
    /\ reclaimed' = [reclaimed EXCEPT ![c] = @ \ {e}]
    /\ batch' = [batch EXCEPT ![c] = @ \ {e}]
    /\ UNCHANGED <<redisVars, client, resume, reclaim_cursor, streak, saved, faults>>

\* The record is yielded; the runner takes its delivery hook.
Yield(c, e) ==
    /\ Take(c, e)
    /\ e \notin Poison
    /\ at' = [at EXCEPT ![c] = "yielded"]
    /\ hooks' = [hooks EXCEPT ![c] = IF config.ack THEN @ \cup {e} ELSE @]
    /\ UNCHANGED <<ackVars, failed, failureAck, history>>

\* LOG_AND_CONTINUE: the record is dropped and acknowledged.
DropPoison(c, e) ==
    /\ Take(c, e)
    /\ config.drop
    /\ e \in Poison
    /\ handled' = handled \cup {e}
    /\ Enqueue(c, "stream", e)
    /\ at' = [at EXCEPT ![c] = IF stage'[c]["stream"] = "ack" THEN "drop" ELSE "entries"]
    /\ UNCHANGED <<hooks, failed, failureAck, seen>>

\* Otherwise the acknowledgements so far are flushed and the error is raised,
\* with an on_handled callback when the entry was reclaimed.
RaisePoison(c, e) ==
    /\ Take(c, e)
    /\ ~config.drop
    /\ e \in Poison
    /\ Flush(c, "stream", pending[c], TRUE)
    /\ at' = [at EXCEPT ![c] = IF stage'[c]["stream"] = "ack" THEN "poison" ELSE "raised"]
    /\ failed' = [failed EXCEPT ![c] = e]
    /\ failureAck' = [failureAck EXCEPT ![c] = e \in reclaimed[c]]
    /\ UNCHANGED <<hooks, history>>

BatchDone(c) ==
    /\ at[c] = "entries"
    /\ batch[c] = {}
    /\ at' = [at EXCEPT ![c] = "loop"]
    /\ UNCHANGED <<redisVars, client, readVars, ackVars, runVars, faults, history>>

-----------------------------------------------------------------------------
(* The runner.                                                             *)

\* It asks for the next record; it runs ahead only when it holds a hook.
Pull(c) ==
    /\ at[c] = "yielded"
    /\ config.ack \/ last[c] \in handled
    /\ at' = [at EXCEPT ![c] = "entries"]
    /\ UNCHANGED <<redisVars, client, readVars, ackVars, runVars, faults, history>>

\* It handles a record it took; one without a hook while the record is in hand.
Handle(c, e) ==
    /\ e \in hooks[c] \/ (at[c] = "yielded" /\ last[c] = e)
    /\ e \notin handled
    /\ handled' = handled \cup {e}
    /\ UNCHANGED <<redisVars, client, at, readVars, ackVars, runVars, faults, seen, owed>>

\* It calls the hook of a handled record.  The hook raises without a client.
CallHook(c, e) ==
    /\ e \in hooks[c] \cap handled
    /\ stage[c]["hook"] = "idle"
    /\ hooks' = [hooks EXCEPT ![c] = @ \ {e}]
    /\ IF client[c]
       THEN Enqueue(c, "hook", e)
       ELSE UNCHANGED <<ackVars, owed>>
    /\ UNCHANGED <<redisVars, client, at, readVars, failed, failureAck, saved, faults,
                   handled, seen>>

\* A composed delivery profile calls flush_delivery_acks() after its hooks.
FlushDeliveryAcks(c) ==
    /\ stage[c]["hook"] = "idle"
    /\ client[c] /\ pending[c] # <<>>
    /\ Flush(c, "hook", pending[c], TRUE)
    /\ UNCHANGED <<redisVars, client, at, readVars, runVars, faults, history>>

\* Mutant: the checkpoint names the next id instead of the last one.
SaveCheckpointNext(c) ==
    /\ config.checkpoint
    /\ at[c] = "yielded" /\ last[c] \in handled
    /\ saved' = [saved EXCEPT ![c] = last[c] + 1]
    /\ UNCHANGED <<redisVars, client, at, readVars, ackVars, hooks, failed, failureAck,
                   faults, history>>

\* It saves current_checkpoint() once the record in hand is handled.
SaveCheckpoint(c) ==
    /\ config.checkpoint
    /\ \/ at[c] = "yielded" /\ last[c] \in handled
       \/ at[c] = "raised" /\ failed[c] = 0
    /\ saved' = [saved EXCEPT ![c] = last[c]]
    /\ UNCHANGED <<redisVars, client, at, readVars, ackVars, hooks, failed, failureAck,
                   faults, history>>

\* It handles the record of a SourceRecordError and calls on_handled, which
\* acknowledges the entry directly, may fail, and raises without a client.
HandleFailure(c) ==
    /\ at[c] = "raised" /\ failed[c] # 0
    /\ handled' = handled \cup {failed[c]}
    /\ failed' = [failed EXCEPT ![c] = 0]
    /\ \/ /\ failureAck[c] /\ client[c]
          /\ XAck({failed[c]})
          /\ UNCHANGED faults
       \/ /\ failureAck[c] => ~client[c]
          /\ UNCHANGED <<redisVars, faults>>
       \/ /\ failureAck[c] /\ client[c] /\ faults < MaxFaults
          /\ faults' = faults + 1
          /\ UNCHANGED redisVars
    /\ UNCHANGED <<client, at, readVars, ackVars, hooks, failureAck, saved, seen, owed>>

\* It cancels the stream: a pending read flushes first; at a yield, or during
\* a reclaim, the generator just ends.
Cancel(c) ==
    /\ \/ at[c] \in {"yielded", "raised"}
       \/ at[c] \in {"read", "reclaim"} /\ stage[c]["stream"] = "idle"
    /\ Flush(c, "stream", pending[c], at[c] = "read")
    /\ at' = [at EXCEPT ![c] = IF stage'[c]["stream"] = "ack" THEN "cancelled" ELSE "ended"]
    /\ UNCHANGED <<redisVars, client, readVars, runVars, faults, history>>

\* close(): flush, errors suppressed, then the client is closed.  Without a
\* client, or with one a failed reconnect took away, nothing is left to close.
Close(c) ==
    /\ at[c] = "ended"
    /\ stage[c]["close"] = "idle"
    /\ Flush(c, "close", pending[c], TRUE)
    /\ at' = [at EXCEPT ![c] = IF stage'[c]["close"] = "ack" THEN "closing" ELSE "off"]
    /\ client' = [client EXCEPT ![c] = @ /\ stage'[c]["close"] = "ack"]
    /\ batch' = [batch EXCEPT ![c] = {}]
    /\ UNCHANGED <<redisVars, reclaimed, last, resume, reclaim_cursor, streak, runVars,
                   faults, history>>

\* The process dies and its memory with it.
Crash(c) ==
    /\ faults < MaxFaults
    /\ at[c] # "off"
    /\ client' = [client EXCEPT ![c] = FALSE]
    /\ at' = [at EXCEPT ![c] = "off"]
    /\ batch' = [batch EXCEPT ![c] = {}]
    /\ reclaimed' = [reclaimed EXCEPT ![c] = {}]
    /\ last' = [last EXCEPT ![c] = 0]
    /\ resume' = [resume EXCEPT ![c] = 0]
    /\ reclaim_cursor' = [reclaim_cursor EXCEPT ![c] = 0]
    /\ streak' = [streak EXCEPT ![c] = 0]
    /\ pending' = [pending EXCEPT ![c] = <<>>]
    /\ stage' = [stage EXCEPT ![c] = [t \in Tasks |-> "idle"]]
    /\ sent' = [sent EXCEPT ![c] = [t \in Tasks |-> <<>>]]
    /\ hooks' = [hooks EXCEPT ![c] = {}]
    /\ failed' = [failed EXCEPT ![c] = 0]
    /\ failureAck' = [failureAck EXCEPT ![c] = FALSE]
    /\ owed' = [owed EXCEPT ![c] = {}]
    /\ faults' = faults + 1
    /\ UNCHANGED <<redisVars, saved, handled, seen>>

-----------------------------------------------------------------------------
Init ==
    /\ config \in Configs
    /\ lastId = 0
    /\ pel = [e \in Entries |-> NoOne]
    /\ idle = {}
    /\ group = {}
    /\ client = [c \in Consumers |-> FALSE]
    /\ at = [c \in Consumers |-> "off"]
    /\ batch = [c \in Consumers |-> {}]
    /\ reclaimed = [c \in Consumers |-> {}]
    /\ last = [c \in Consumers |-> 0]
    /\ resume = [c \in Consumers |-> 0]
    /\ reclaim_cursor = [c \in Consumers |-> 0]
    /\ streak = [c \in Consumers |-> 0]
    /\ pending = [c \in Consumers |-> <<>>]
    /\ stage = [c \in Consumers |-> [t \in Tasks |-> "idle"]]
    /\ sent = [c \in Consumers |-> [t \in Tasks |-> <<>>]]
    /\ hooks = [c \in Consumers |-> {}]
    /\ failed = [c \in Consumers |-> 0]
    /\ failureAck = [c \in Consumers |-> FALSE]
    /\ saved = [c \in Consumers |-> 0]
    /\ faults = 0
    /\ handled = {}
    /\ seen = 0
    /\ owed = [c \in Consumers |-> {}]

\* Steps of the generator and of the runner that pulls from it.
Generate(c) ==
    \/ LoopTurn(c) \/ Reclaim(c) \/ Read(c) \/ BatchDone(c) \/ Pull(c)
    \/ \E e \in Entries : Yield(c, e) \/ DropPoison(c, e) \/ RaisePoison(c, e)

\* Steps of a task that waits for Redis in flush_pending_acks().
Settle(c, t) ==
    \/ AckReturns(c, t) \/ AckFails(c, t)
    \/ Reconnected(c, t) \/ ReconnectFails(c, t)

Lifecycle(c) ==
    \/ Open(c) \/ StreamBegin(c) \/ CheckConsumers(c) \/ SetId(c)
    \/ ResumeFails(c) \/ ReadFails(c)
    \/ Cancel(c) \/ Close(c) \/ Crash(c)

Run(c) ==
    \/ \E e \in Entries : Handle(c, e) \/ CallHook(c, e)
    \/ FlushDeliveryAcks(c) \/ SaveCheckpoint(c) \/ HandleFailure(c)

Step ==
    \/ \E e \in Entries : Age(e)
    \/ \E c \in Consumers :
          \/ Lifecycle(c) \/ Generate(c) \/ Run(c)
          \/ \E t \in Tasks : Settle(c, t)

Next == Step /\ UNCHANGED config

Spec == Init /\ [][Next]_vars

\* asyncio runs every ready task and a Redis call returns or fails; the runner
\* goes on pulling, handling and calling hooks; time passes.
Fairness ==
    /\ \A c \in Consumers :
          /\ WF_vars(Generate(c) /\ UNCHANGED config)
          /\ \A t \in Tasks : WF_vars(Settle(c, t) /\ UNCHANGED config)
          /\ \A e \in Entries :
                WF_vars((Handle(c, e) \/ CallHook(c, e)) /\ UNCHANGED config)
    /\ \A e \in Entries : WF_vars(Age(e) /\ UNCHANGED config)

FairSpec == Spec /\ Fairness

-----------------------------------------------------------------------------
(* Properties.                                                             *)

Where == {"off", "open", "check", "seek", "loop", "reclaim", "read", "entries",
          "yielded", "drop", "poison", "raised", "cancelled", "ended", "closing"}

\* Types of Redis, of each consumer's memory and of the runner's state.
TypeOK ==
    /\ config \in Configs
    /\ lastId \in 0..End
    /\ pel \in [Entries -> Consumers \cup {NoOne}]
    /\ idle \subseteq Entries
    /\ group \subseteq Consumers
    /\ client \in [Consumers -> BOOLEAN]
    /\ at \in [Consumers -> Where]
    /\ batch \in [Consumers -> SUBSET Entries]
    /\ reclaimed \in [Consumers -> SUBSET Entries]
    /\ last \in [Consumers -> 0..End]
    /\ resume \in [Consumers -> 0..End]
    /\ reclaim_cursor \in [Consumers -> 0..End]
    /\ streak \in [Consumers -> Nat]
    /\ pending \in [Consumers -> Seq(Entries)]
    /\ stage \in [Consumers -> [Tasks -> {"idle", "ack", "reconnect", "again"}]]
    /\ sent \in [Consumers -> [Tasks -> Seq(Entries)]]
    /\ hooks \in [Consumers -> SUBSET Entries]
    /\ failed \in [Consumers -> 0..End]
    /\ failureAck \in [Consumers -> BOOLEAN]
    /\ saved \in [Consumers -> 0..End]
    /\ faults \in 0..MaxFaults
    /\ handled \subseteq Entries
    /\ seen \in 0..End
    /\ owed \in [Consumers -> SUBSET Entries]

\* At-least-once delivery: an entry the group has moved past, by reading it or
\* by XGROUP SETID, was handled or is still in the pending list, whatever
\* fails, crashes or is resumed.
NothingLost ==
    \A e \in Entries : e <= lastId => e \in handled \/ pel[e] # NoOne

\* An acknowledgement accepted by enqueue_ack() is not forgotten while the
\* process lives: flushes of several tasks swap the list, put it back and
\* reconnect without losing an id that Redis has not removed.
AcksKept ==
    \A c \in Consumers : \A e \in owed[c] :
        \/ pel[e] = NoOne
        \/ e \in Ids(pending[c])
        \/ \E t \in Tasks : e \in Ids(sent[c][t])

\* The docstring of prepare_resume(): "When the group has more than one
\* consumer, stream() fails before rewinding the group cursor."
RewindAlone ==
    [][\A c \in Consumers : SetId(c) => Cardinality(group) <= 1]_vars

Streaming(c) == at[c] \in {"loop", "reclaim", "read", "entries", "yielded", "drop"}

\* With max_consecutive_reclaim_batches set, reclaimed entries do not starve
\* new ones: a streaming consumer reads on even if its claims become idle again
\* at once.
NewEntriesRead ==
    \A c \in Consumers, n \in 0..End - 1 :
        (config.limit > 0 /\ lastId = n /\ n < config.entries /\ Streaming(c)) ~> (lastId # n \/ ~Streaming(c))

\* With reclaim_idle_ms set (and a text cursor), an entry that some consumer
\* read and never handled is handled by any consumer that keeps streaming.
PendingEventuallyHandled ==
    \A c \in Consumers, e \in Entries :
        (config.reclaim /\ config.decode /\ pel[e] # NoOne /\ Streaming(c))
            ~> (e \in handled \/ ~Streaming(c))
=============================================================================
