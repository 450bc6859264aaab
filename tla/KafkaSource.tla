---------------------------- MODULE KafkaSource ----------------------------
(***************************************************************************)
(* One KafkaSource in a consumer group: the poll and delivery loop, offset *)
(* tracking, gated commits, rebalances, operator controls, checkpoint      *)
(* resume, close and restart.                                              *)
(*                                                                         *)
(* The stream generator, the rebalance listener (called from aiokafka's    *)
(* coordinator task), the operator, close() and an acknowledgement kept    *)
(* past the end of its stream are separate asyncio tasks over one          *)
(* KafkaCursorState.  consumer.commit() is an await: the offsets are read  *)
(* before it, pending_commit_count is cleared after it.                    *)
(*                                                                         *)
(* Offsets of a partition are 0..End[p]-1; a batch is, per partition, the  *)
(* interval lo..hi-1 of messages fetched and not yet taken up.             *)
(***************************************************************************)
EXTENDS Integers, FiniteSets

CONSTANTS
    Parts,           \* partitions
    End,             \* End[p]: messages of each
    CommitEvery,     \* commit_every
    Poison,          \* Poison[p]: the offsets whose deserialization fails
    Configs,         \* the configurations a source is built with
    UseCheckpoint,   \* the runner resumes from its last saved checkpoint
    NoRecord,        \* no active delivery, no kept acknowledgement
    MaxPoll,         \* bound: max_poll_records
    MaxRebalances,   \* bound: rebalances
    MaxFaults        \* bound: failed commits, crashes

NoOffset == -1
OffsetMap == [Parts -> {NoOffset} \cup Nat]
Policies == {"fail_closed", "log_and_continue", "dlq_and_continue", "dlq_and_fail_closed"}
Tasks == {"stream", "rebalance", "operator", "close", "late"}

\* The partitions subscribed to, the checkpoint of an earlier run that handled and
\* committed all it covers, the poison_record_policy, whether a
\* batch_deserializer is configured, whether the sink commits the offsets inside
\* its own transaction, enable_auto_commit, and the operator controls used.
Config == [parts : SUBSET Parts, before : OffsetMap, policy : Policies, batch : BOOLEAN,
           transactional : BOOLEAN, auto : BOOLEAN,
           calls : SUBSET {"commit_now", "commit_tracked", "seek"}]

ASSUME ConstantAssumption ==
    /\ IsFiniteSet(Parts)
    /\ End \in [Parts -> Nat]
    /\ CommitEvery \in Nat \ {0}
    /\ Poison \in [Parts -> SUBSET Nat]
    /\ Configs \subseteq Config
    /\ UseCheckpoint \in BOOLEAN
    /\ NoRecord \notin Parts \X Nat
    /\ MaxPoll \in Nat
    /\ MaxRebalances \in Nat
    /\ MaxFaults \in Nat

VARIABLES
    config,         \* how the source was built
    committed,      \* broker: the group's committed position of each partition
    group,          \* this member: out, joining, stable or revoking
    assigned,       \* aiokafka: the partitions assigned to this member
    position,       \* aiokafka: next offset to fetch
    open,           \* self._consumer is set
    pending,        \* _pending_commit_count
    processed,      \* _processed_offsets
    committable,    \* _committable_offsets
    start_offsets,  \* _start_offsets
    resume_offsets, \* _resume_offsets
    stream,         \* where the generator is
    decoded,        \* batch mode: the current batch went through the deserializer
    lo, hi,         \* the rest of the current batch
    cur,            \* the record the generator is suspended on
    kept,           \* an acknowledgement whose generator has been closed
    sent,           \* the offsets of each task's commit call, NoOffset where absent
    reply,          \* none, wait, ok or error for each task's commit call
    handled,        \* history: records written by the runner or dropped by the policy
    skipped,        \* history: records an operator seek jumped over
    saved,          \* the runner's last saved checkpoint
    discarded,      \* history: records fetched and thrown away by the positioning probe
    rebalances, faults

brokerVars == <<committed>>
groupVars == <<group, assigned, rebalances>>
cursorVars == <<pending, processed, committable>>
targetVars == <<start_offsets, resume_offsets>>
batchVars == <<lo, hi, decoded>>
commitVars == <<sent, reply>>
historyVars == <<handled, skipped, saved, discarded>>
vars == <<config, committed, group, assigned, position, open, pending, processed, committable,
          start_offsets, resume_offsets, stream, decoded, lo, hi, cur, kept, sent, reply,
          handled, skipped, saved, discarded, rebalances, faults>>

NoOffsets == [p \in Parts |-> NoOffset]

Init ==
    /\ config \in Configs
    /\ committed = [p \in Parts |-> config.before[p] + 1]
    /\ group = "out"
    /\ assigned = {}
    /\ position = [p \in Parts |-> 0]
    /\ open = FALSE
    /\ pending = 0
    /\ processed = NoOffsets
    /\ committable = NoOffsets
    /\ start_offsets = NoOffsets
    /\ resume_offsets = NoOffsets
    /\ stream = "off"
    /\ decoded = FALSE
    /\ lo = [p \in Parts |-> 0]
    /\ hi = [p \in Parts |-> 0]
    /\ cur = NoRecord
    /\ kept = NoRecord
    /\ sent = [t \in Tasks |-> NoOffsets]
    /\ reply = [t \in Tasks |-> "none"]
    /\ handled = [p \in Parts |-> 0..config.before[p]]
    /\ skipped = [p \in Parts |-> {}]
    /\ saved = config.before
    /\ discarded = [p \in Parts |-> {}]
    /\ rebalances = 0
    /\ faults = 0

-----------------------------------------------------------------------------
(* Commits *)

Keys(offsets) == {p \in Parts : offsets[p] # NoOffset}

\* The pending count after n more acknowledgements; auto-commit counts none.
Counted(n) == IF config.auto THEN pending ELSE pending + n

\* The gate of commit_if_needed, for a pending count n.
CommitNeeded(n, force) ==
    open /\ ~config.auto /\ n > 0 /\ (force \/ n >= CommitEvery)

\* What consumer.commit is called with: the tracked offsets plus one, or, when
\* none is tracked, nothing, and then aiokafka commits every assigned position.
build_commit_offsets(c) ==
    IF Keys(c) # {}
    THEN [p \in Parts |-> IF c[p] = NoOffset THEN NoOffset ELSE c[p] + 1]
    ELSE [p \in Parts |-> IF p \in assigned THEN position[p] ELSE NoOffset]

CallCommit(t, c) ==
    /\ sent' = [sent EXCEPT ![t] = build_commit_offsets(c)]
    /\ reply' = [reply EXCEPT ![t] = "wait"]

\* commit_if_needed by task t, with n pending and offsets c.
CommitIfNeeded(t, n, c, force) ==
    IF CommitNeeded(n, force) THEN CallCommit(t, c) ELSE UNCHANGED commitVars

Returned(t) == reply[t] \in {"ok", "error"}

\* Mutant: the gate's batch size is subtracted instead of clearing the count.
CommitReturnSubtract(t) ==
    /\ reply' = [reply EXCEPT ![t] = "none"]
    /\ sent' = [sent EXCEPT ![t] = NoOffsets]
    /\ pending' = IF reply[t] = "ok" THEN pending - CommitEvery ELSE pending

\* The call returns: on success the pending count is cleared, whatever was
\* acknowledged in the meantime; on failure commit_if_needed raises.
CommitReturn(t) ==
    /\ reply' = [reply EXCEPT ![t] = "none"]
    /\ sent' = [sent EXCEPT ![t] = NoOffsets]
    /\ pending' = IF reply[t] = "ok" THEN 0 ELSE pending

\* The broker takes a commit of partitions this member owns and refuses others.
BrokerCommit(t) ==
    /\ reply[t] = "wait"
    /\ IF Keys(sent[t]) \subseteq assigned
       THEN /\ committed' = [p \in Parts |-> IF sent[t][p] = NoOffset THEN committed[p]
                                             ELSE sent[t][p]]
            /\ reply' = [reply EXCEPT ![t] = "ok"]
       ELSE UNCHANGED committed /\ reply' = [reply EXCEPT ![t] = "error"]
    /\ UNCHANGED <<groupVars, position, open, cursorVars, targetVars, stream, batchVars,
                   cur, kept, sent, historyVars, faults>>

\* A commit that fails without reaching the broker.
CommitFails(t) ==
    /\ reply[t] = "wait"
    /\ faults < MaxFaults
    /\ faults' = faults + 1
    /\ reply' = [reply EXCEPT ![t] = "error"]
    /\ UNCHANGED <<brokerVars, groupVars, position, open, cursorVars, targetVars, stream,
                   batchVars, cur, kept, sent, historyVars>>

\* enable_auto_commit: aiokafka commits the fetch positions of its own accord.
AutoCommit ==
    /\ config.auto
    /\ group = "stable"
    /\ committed' = [p \in Parts |-> IF p \in assigned THEN position[p] ELSE committed[p]]
    /\ UNCHANGED <<groupVars, position, open, cursorVars, targetVars, stream, batchVars, cur,
                   kept, commitVars, historyVars, faults>>

-----------------------------------------------------------------------------
(* Opening, streaming, closing *)

\* prepare_resume with the runner's checkpoint, then open(): subscribe and join.
Open ==
    /\ ~open
    /\ open' = TRUE
    /\ group' = "joining"
    /\ resume_offsets' = IF UseCheckpoint THEN saved ELSE NoOffsets
    /\ stream' = "off"
    /\ UNCHANGED <<brokerVars, assigned, rebalances, position, cursorVars, start_offsets,
                   batchVars, cur, kept, commitVars, historyVars, faults>>

\* stream(), once per open(): reset_run_state and reset_for_stream.
StreamBegin ==
    /\ open
    /\ stream = "off"
    /\ kept = NoRecord
    /\ stream' = "bootstrap"
    /\ pending' = 0
    /\ processed' = NoOffsets
    /\ committable' = NoOffsets
    /\ lo' = hi
    /\ UNCHANGED <<brokerVars, groupVars, position, open, targetVars, hi, decoded, cur, kept,
                   commitVars, historyVars, faults>>

positioning_targets == IF Keys(start_offsets) # {} THEN start_offsets ELSE resume_offsets

\* Exact start offsets are sought as they are, checkpoint offsets plus one.
SeekTarget(p) ==
    IF Keys(start_offsets) # {} THEN start_offsets[p] ELSE resume_offsets[p] + 1

\* bootstrap_consumer_state.  When some target is not assigned it polls once with
\* timeout 0, for the sake of the assignment: a record that was prefetched comes
\* back and is thrown away.  Then it seeks the targets it has; the position of
\* any other partition has passed the record.  (The first probe is made when
\* nothing is assigned and finds nothing.)
Bootstrap ==
    /\ stream = "bootstrap"
    /\ group = "stable"
    /\ LET targets == Keys(positioning_targets)
           sought == targets \cap assigned
           probed == IF targets \subseteq assigned THEN {}
                     ELSE {p \in assigned : position[p] < End[p]} IN
         /\ \E lost \in {{}} \cup {{p} : p \in probed \ sought} :
              /\ position' = [p \in Parts |-> IF p \in sought THEN SeekTarget(p)
                                             ELSE IF p \in lost THEN position[p] + 1
                                             ELSE position[p]]
              /\ discarded' = [p \in Parts |-> discarded[p] \cup
                                  (IF p \in lost THEN {position[p]} ELSE {})]
         /\ stream' = IF targets # {} /\ assigned = {} THEN "done" ELSE "ready"
    /\ UNCHANGED <<brokerVars, groupVars, open, cursorVars, targetVars, batchVars, cur, kept,
                   commitVars, handled, skipped, saved, faults>>

BatchEmpty == \A p \in Parts : lo[p] = hi[p]

Size(n) == Cardinality({r \in Parts \X (1..MaxPoll) : r[2] <= n[r[1]]})

\* getmany: some records of some assigned partitions.  During a rebalance
\* aiokafka keeps the call waiting.
Poll ==
    /\ stream = "ready"
    /\ BatchEmpty
    /\ group = "stable"
    /\ \E n \in [Parts -> 0..MaxPoll] :
         /\ Size(n) \in 1..MaxPoll
         /\ \A p \in Parts : n[p] > 0 => p \in assigned /\ position[p] + n[p] <= End[p]
         /\ lo' = position
         /\ hi' = [p \in Parts |-> position[p] + n[p]]
         /\ position' = [p \in Parts |-> position[p] + n[p]]
    /\ decoded' = ~config.batch
    /\ UNCHANGED <<brokerVars, groupVars, open, cursorVars, targetVars, stream, cur, kept,
                   commitVars, historyVars, faults>>

\* max_idle_polls empty polls in a row end the stream.
IdleExit ==
    /\ stream = "ready"
    /\ BatchEmpty
    /\ stream' = "ending"
    /\ UNCHANGED <<brokerVars, groupVars, position, open, cursorVars, targetVars, batchVars,
                   cur, kept, commitVars, historyVars, faults>>

\* The task is cancelled, or the call raises, at the await of a poll or a commit.
Interrupt ==
    /\ faults < MaxFaults
    /\ faults' = faults + 1
    /\ \/ stream = "ready" /\ BatchEmpty
       \/ stream = "committing"
    /\ stream' = "failing"
    /\ sent' = [sent EXCEPT !["stream"] = NoOffsets]
    /\ reply' = [reply EXCEPT !["stream"] = "none"]
    /\ UNCHANGED <<brokerVars, groupVars, position, open, cursorVars, targetVars, batchVars,
                   cur, kept, historyVars>>

should_continue == config.policy \in {"log_and_continue", "dlq_and_continue"}

\* mark_delivered_message, then commit_if_needed, by the stream task.
MarkDelivered(p, o) ==
    /\ processed' = [processed EXCEPT ![p] = o]
    /\ committable' = [committable EXCEPT ![p] = o]
    /\ pending' = Counted(1)
    /\ CommitIfNeeded("stream", pending', committable', FALSE)
    /\ stream' = IF CommitNeeded(pending', FALSE) THEN "committing" ELSE "ready"

Batch(p) == lo[p]..(hi[p] - 1)

\* batch_deserializer raises, or returns the wrong number of records, when a
\* message of the batch is poison.
BatchIsPoison == \E p \in Parts : Batch(p) \cap Poison[p] # {}

DecodeBatch ==
    /\ stream = "ready"
    /\ ~BatchEmpty
    /\ ~decoded
    /\ ~BatchIsPoison
    /\ decoded' = TRUE
    /\ UNCHANGED <<brokerVars, groupVars, position, open, cursorVars, targetVars, stream, lo,
                   hi, cur, kept, commitVars, historyVars, faults>>

\* A poison batch fails the stream, or, under a continue policy, is dropped as a
\* whole and counted as delivered.
PoisonBatch ==
    /\ stream = "ready"
    /\ ~BatchEmpty
    /\ ~decoded
    /\ BatchIsPoison
    /\ ~should_continue
    /\ stream' = "failing"
    /\ UNCHANGED <<brokerVars, groupVars, position, open, cursorVars, targetVars, batchVars,
                   cur, kept, commitVars, historyVars, faults>>

BatchSize == Size([p \in Parts |-> hi[p] - lo[p]])

DropBatch ==
    /\ stream = "ready"
    /\ ~BatchEmpty
    /\ ~decoded
    /\ BatchIsPoison
    /\ should_continue
    /\ lo' = hi
    /\ processed' = [p \in Parts |-> IF lo[p] < hi[p] THEN hi[p] - 1 ELSE processed[p]]
    /\ committable' = [p \in Parts |-> IF lo[p] < hi[p] THEN hi[p] - 1 ELSE committable[p]]
    /\ handled' = [p \in Parts |-> handled[p] \cup Batch(p)]
    /\ pending' = Counted(BatchSize)
    /\ CommitIfNeeded("stream", pending', committable', FALSE)
    /\ stream' = IF CommitNeeded(pending', FALSE) THEN "committing" ELSE "ready"
    /\ UNCHANGED <<brokerVars, groupVars, position, open, targetVars, hi, decoded, cur, kept,
                   skipped, saved, discarded, faults>>

\* The next message of p fails to deserialize: it fails the stream, or is dropped
\* and counted as delivered.
PoisonRecord(p) ==
    /\ stream = "ready"
    /\ decoded
    /\ lo[p] < hi[p]
    /\ lo[p] \in Poison[p]
    /\ ~should_continue
    /\ lo' = [lo EXCEPT ![p] = @ + 1]
    /\ stream' = "failing"
    /\ UNCHANGED <<brokerVars, groupVars, position, open, cursorVars, targetVars, hi, decoded,
                   cur, kept, commitVars, historyVars, faults>>

DropRecord(p) ==
    /\ stream = "ready"
    /\ decoded
    /\ lo[p] < hi[p]
    /\ lo[p] \in Poison[p]
    /\ should_continue
    /\ lo' = [lo EXCEPT ![p] = @ + 1]
    /\ MarkDelivered(p, lo[p])
    /\ handled' = [handled EXCEPT ![p] = @ \cup {lo[p]}]
    /\ UNCHANGED <<brokerVars, groupVars, position, open, targetVars, hi, decoded, cur, kept,
                   skipped, saved, discarded, faults>>

\* Mutant: the last offset of the batch is remembered with its first record.
EmitRemembersBatch(p) ==
    /\ stream = "ready"
    /\ decoded
    /\ lo[p] < hi[p]
    /\ lo[p] \notin Poison[p]
    /\ lo' = [lo EXCEPT ![p] = @ + 1]
    /\ cur' = <<p, lo[p]>>
    /\ processed' = [processed EXCEPT ![p] = hi[p] - 1]
    /\ stream' = "yielded"
    /\ UNCHANGED <<brokerVars, groupVars, position, open, pending, committable, targetVars, hi,
                   decoded, kept, commitVars, historyVars, faults>>

\* _emit_record: the offset counts as processed before the record is yielded.
Emit(p) ==
    /\ stream = "ready"
    /\ decoded
    /\ lo[p] < hi[p]
    /\ lo[p] \notin Poison[p]
    /\ lo' = [lo EXCEPT ![p] = @ + 1]
    /\ cur' = <<p, lo[p]>>
    /\ processed' = [processed EXCEPT ![p] = lo[p]]
    /\ stream' = "yielded"
    /\ UNCHANGED <<brokerVars, groupVars, position, open, pending, committable, targetVars, hi,
                   decoded, kept, commitVars, historyVars, faults>>

\* The runner has written the record (external).
Write ==
    /\ stream = "yielded"
    /\ stream' = "written"
    /\ handled' = [handled EXCEPT ![cur[1]] = @ \cup {cur[2]}]
    /\ UNCHANGED <<brokerVars, groupVars, position, open, cursorVars, targetVars, batchVars,
                   cur, kept, commitVars, skipped, saved, discarded, faults>>

\* The runner saves current_checkpoint() after the write (external).
SaveCheckpoint ==
    /\ stream = "written"
    /\ Keys(processed) # {}
    /\ saved' = processed
    /\ UNCHANGED <<brokerVars, groupVars, position, open, cursorVars, targetVars, stream,
                   batchVars, cur, kept, commitVars, handled, skipped, discarded, faults>>

\* The runner acknowledges, or resumes the generator, which acknowledges.
Ack ==
    /\ ~config.transactional
    /\ stream = "written"
    /\ MarkDelivered(cur[1], cur[2])
    /\ cur' = NoRecord
    /\ UNCHANGED <<brokerVars, groupVars, position, open, targetVars, batchVars, kept,
                   historyVars, faults>>

\* Mutant: the transaction carries the fetch position.
AckTransactionPosition ==
    /\ config.transactional
    /\ stream = "written"
    /\ committed' = [committed EXCEPT ![cur[1]] = position[cur[1]]]
    /\ processed' = [processed EXCEPT ![cur[1]] = cur[2]]
    /\ committable' = [committable EXCEPT ![cur[1]] = cur[2]]
    /\ pending' = 0
    /\ stream' = "ready"
    /\ cur' = NoRecord
    /\ UNCHANGED <<groupVars, position, open, targetVars, batchVars, kept, commitVars,
                   historyVars, faults>>

\* The sink's transaction has committed offset + 1: mark_transaction_committed.
\* It carries the group id only, so the broker takes it from any member.
AckTransaction ==
    /\ config.transactional
    /\ stream = "written"
    /\ committed' = [committed EXCEPT ![cur[1]] = cur[2] + 1]
    /\ processed' = [processed EXCEPT ![cur[1]] = cur[2]]
    /\ committable' = [committable EXCEPT ![cur[1]] = cur[2]]
    /\ pending' = 0
    /\ stream' = "ready"
    /\ cur' = NoRecord
    /\ UNCHANGED <<groupVars, position, open, targetVars, batchVars, kept, commitVars,
                   historyVars, faults>>

\* The runner closes the generator at its yield, or is cancelled there; it may
\* keep the acknowledgement of a record it has written.
Abort ==
    /\ stream \in {"yielded", "written"}
    /\ stream' = "ending"
    /\ kept' \in {NoRecord} \cup (IF stream = "written" THEN {cur} ELSE {})
    /\ cur' = NoRecord
    /\ UNCHANGED <<brokerVars, groupVars, position, open, cursorVars, targetVars, batchVars,
                   commitVars, historyVars, faults>>

\* The kept acknowledgement is called after all.
LateAck ==
    /\ kept # NoRecord
    /\ reply["late"] = "none"
    /\ processed' = [processed EXCEPT ![kept[1]] = kept[2]]
    /\ committable' = [committable EXCEPT ![kept[1]] = kept[2]]
    /\ pending' = Counted(1)
    /\ CommitIfNeeded("late", pending', committable', FALSE)
    /\ kept' = NoRecord
    /\ UNCHANGED <<brokerVars, groupVars, position, open, targetVars, stream, batchVars, cur,
                   historyVars, faults>>

\* The commit of an acknowledgement returns.  An error is raised in the
\* generator, or in the runner, which then closes the generator.
StreamCommitReturn ==
    /\ stream = "committing"
    /\ Returned("stream")
    /\ CommitReturn("stream")
    /\ stream' \in IF reply["stream"] = "ok" THEN {"ready"} ELSE {"failing", "ending"}
    /\ UNCHANGED <<brokerVars, groupVars, position, open, processed, committable, targetVars,
                   batchVars, cur, kept, historyVars, faults>>

\* The forced commits of stream(): one in the except clause when it fails, one
\* in the finally clause always.
FlushPhase(s) == IF s = "failing" THEN "ending" ELSE "done"

StreamFlush ==
    /\ stream \in {"failing", "ending"}
    /\ reply["stream"] = "none"
    /\ CommitIfNeeded("stream", pending, committable, TRUE)
    /\ stream' = IF CommitNeeded(pending, TRUE) THEN stream ELSE FlushPhase(stream)
    /\ UNCHANGED <<brokerVars, groupVars, position, open, cursorVars, targetVars, batchVars,
                   cur, kept, historyVars, faults>>

StreamFlushReturn ==
    /\ stream \in {"failing", "ending"}
    /\ Returned("stream")
    /\ CommitReturn("stream")
    /\ stream' = FlushPhase(stream)
    /\ UNCHANGED <<brokerVars, groupVars, position, open, processed, committable, targetVars,
                   batchVars, cur, kept, historyVars, faults>>

\* close() after the stream has ended: a forced commit, then stop().
CloseBegin ==
    /\ open
    /\ stream \in {"off", "done"}
    /\ reply["close"] = "none"
    /\ CommitNeeded(pending, TRUE)
    /\ CallCommit("close", committable)
    /\ UNCHANGED <<brokerVars, groupVars, position, open, cursorVars, targetVars, stream,
                   batchVars, cur, kept, historyVars, faults>>

\* consumer.stop() leaves the group and ends every other call on the consumer.
StopConsumer ==
    /\ open' = FALSE
    /\ group' = "out"
    /\ assigned' = {}
    /\ sent' = [t \in Tasks |-> NoOffsets]
    /\ reply' = [t \in Tasks |-> "none"]

CloseReturn ==
    /\ open
    /\ stream \in {"off", "done"}
    /\ \/ reply["close"] = "none" /\ ~CommitNeeded(pending, TRUE)
       \/ Returned("close")
    /\ pending' = IF reply["close"] = "ok" THEN 0 ELSE pending
    /\ StopConsumer
    /\ UNCHANGED <<brokerVars, rebalances, position, processed, committable, targetVars,
                   stream, batchVars, cur, kept, historyVars, faults>>

\* The process dies: only the broker and the checkpoint store remember.
Crash ==
    /\ faults < MaxFaults
    /\ faults' = faults + 1
    /\ open
    /\ StopConsumer
    /\ pending' = 0
    /\ processed' = NoOffsets
    /\ committable' = NoOffsets
    /\ start_offsets' = NoOffsets
    /\ resume_offsets' = NoOffsets
    /\ stream' = "off"
    /\ lo' = hi
    /\ cur' = NoRecord
    /\ kept' = NoRecord
    /\ UNCHANGED <<brokerVars, rebalances, position, hi, decoded, historyVars>>

-----------------------------------------------------------------------------
(* Rebalances: aiokafka revokes everything, then assigns anew *)

DropRevoked ==
    /\ processed' = [p \in Parts |-> IF p \in assigned THEN NoOffset ELSE processed[p]]
    /\ committable' = [p \in Parts |-> IF p \in assigned THEN NoOffset ELSE committable[p]]

\* handle_partitions_revoked: a forced commit first.
Revoke ==
    /\ open
    /\ group = "stable"
    /\ rebalances < MaxRebalances
    /\ rebalances' = rebalances + 1
    /\ CommitIfNeeded("rebalance", pending, committable, TRUE)
    /\ IF CommitNeeded(pending, TRUE)
       THEN group' = "revoking" /\ UNCHANGED <<assigned, processed, committable>>
       ELSE group' = "joining" /\ assigned' = {} /\ DropRevoked
    /\ UNCHANGED <<brokerVars, position, open, pending, targetVars, stream, batchVars, cur,
                   kept, historyVars, faults>>

\* The commit returns; when it raised, aiokafka logs the listener's error and
\* goes on, and nothing is dropped.
RevokeReturn ==
    /\ group = "revoking"
    /\ Returned("rebalance")
    /\ CommitReturn("rebalance")
    /\ group' = "joining"
    /\ assigned' = {}
    /\ IF reply["rebalance"] = "ok" THEN DropRevoked ELSE UNCHANGED <<processed, committable>>
    /\ UNCHANGED <<brokerVars, rebalances, position, open, targetVars, stream, batchVars, cur,
                   kept, historyVars, faults>>

\* handle_partitions_assigned: positions start at the committed offsets.
Assign(S) ==
    /\ group = "joining"
    /\ group' = "stable"
    /\ assigned' = S
    /\ position' = [p \in Parts |-> IF p \in S THEN committed[p] ELSE position[p]]
    /\ UNCHANGED <<brokerVars, rebalances, open, cursorVars, targetVars, stream, batchVars,
                   cur, kept, commitVars, historyVars, faults>>

\* Another member of the group handles and commits the next record of p.
OtherMember(p) ==
    /\ group \in {"stable", "out"}
    /\ p \in config.parts \ assigned
    /\ committed[p] < End[p]
    /\ handled' = [handled EXCEPT ![p] = @ \cup {committed[p]}]
    /\ committed' = [committed EXCEPT ![p] = @ + 1]
    /\ UNCHANGED <<groupVars, position, open, cursorVars, targetVars, stream, batchVars, cur,
                   kept, commitVars, skipped, saved, discarded, faults>>

-----------------------------------------------------------------------------
(* Operator controls *)

\* commit_now has no gate; the careful operator ("commit_tracked") calls it only
\* when health() shows tracked offsets.
CommitNow ==
    /\ \/ "commit_now" \in config.calls
       \/ "commit_tracked" \in config.calls /\ Keys(committable) # {}
    /\ open
    /\ reply["operator"] = "none"
    /\ CallCommit("operator", committable)
    /\ UNCHANGED <<brokerVars, groupVars, position, open, cursorVars, targetVars, stream,
                   batchVars, cur, kept, historyVars, faults>>

\* The calls after which their task does nothing more.
PlainReturn(t) ==
    /\ Returned(t)
    /\ CommitReturn(t)
    /\ UNCHANGED <<brokerVars, groupVars, position, open, processed, committable, targetVars,
                   stream, batchVars, cur, kept, historyVars, faults>>

\* Mutant: the pending count survives the seek.
DiscardTrackingKeepPending ==
    /\ UNCHANGED pending
    /\ processed' = NoOffsets
    /\ committable' = NoOffsets

DiscardTracking ==
    /\ pending' = 0
    /\ processed' = NoOffsets
    /\ committable' = NoOffsets

\* seek_to_offsets of one partition, seek_to_beginning (o = 0) and seek_to_end
\* (o = End[p]): exact offsets stay behind as start offsets, the others clear them.
Seek(p, o, exact) ==
    /\ "seek" \in config.calls
    /\ open
    /\ group = "stable"
    /\ p \in assigned
    /\ position' = [position EXCEPT ![p] = o]
    /\ start_offsets' = IF exact THEN [NoOffsets EXCEPT ![p] = o] ELSE NoOffsets
    /\ resume_offsets' = NoOffsets
    /\ DiscardTracking
    /\ skipped' = [skipped EXCEPT ![p] = @ \cup 0..(o - 1)]
    /\ UNCHANGED <<brokerVars, groupVars, open, stream, batchVars, cur, kept, commitVars,
                   handled, saved, discarded, faults>>

-----------------------------------------------------------------------------
StreamStep ==
    \/ StreamBegin \/ Bootstrap \/ Poll \/ IdleExit \/ Interrupt
    \/ DecodeBatch \/ PoisonBatch \/ DropBatch
    \/ Write \/ SaveCheckpoint \/ Ack \/ AckTransaction \/ Abort \/ LateAck
    \/ StreamCommitReturn \/ StreamFlush \/ StreamFlushReturn

SessionStep ==
    \/ Open \/ CloseBegin \/ CloseReturn \/ Crash \/ Revoke \/ RevokeReturn \/ CommitNow
    \/ AutoCommit

Step ==
    \/ StreamStep
    \/ SessionStep
    \/ \E p \in Parts : PoisonRecord(p) \/ DropRecord(p) \/ Emit(p) \/ OtherMember(p)
    \/ \E t \in Tasks : BrokerCommit(t) \/ CommitFails(t)
    \/ \E t \in {"operator", "late"} : PlainReturn(t)
    \/ \E S \in SUBSET config.parts : Assign(S)
    \/ \E p \in Parts : \E o \in 0..End[p] :
          Seek(p, o, TRUE) \/ (o \in {0, End[p]} /\ Seek(p, o, FALSE))

Next == Step /\ UNCHANGED config

Spec == Init /\ [][Next]_vars

-----------------------------------------------------------------------------
(* Properties *)

TypeOK ==
    /\ config \in Configs
    /\ committed \in [Parts -> Nat]
    /\ group \in {"out", "joining", "stable", "revoking"}
    /\ assigned \subseteq Parts
    /\ position \in [Parts -> Nat]
    /\ open \in BOOLEAN
    /\ pending \in Nat
    /\ processed \in OffsetMap
    /\ committable \in OffsetMap
    /\ start_offsets \in OffsetMap
    /\ resume_offsets \in OffsetMap
    /\ stream \in {"off", "bootstrap", "ready", "yielded", "written", "committing",
                   "failing", "ending", "done"}
    /\ decoded \in BOOLEAN
    /\ lo \in [Parts -> Nat]
    /\ hi \in [Parts -> Nat]
    /\ cur \in {NoRecord} \cup (Parts \X Nat)
    /\ kept \in {NoRecord} \cup (Parts \X Nat)
    /\ sent \in [Tasks -> OffsetMap]
    /\ reply \in [Tasks -> {"none", "wait", "ok", "error"}]
    /\ handled \in [Parts -> SUBSET Nat]
    /\ skipped \in [Parts -> SUBSET Nat]
    /\ saved \in OffsetMap
    /\ discarded \in [Parts -> SUBSET Nat]
    /\ rebalances \in Nat
    /\ faults \in Nat

\* Every record below o is handled, was skipped by the operator or thrown away by
\* the positioning probe.
Covered(p, o) == \A i \in 0..(o - 1) : i \in handled[p] \cup skipped[p] \cup discarded[p]

\* Offsets are committed by this source alone, and commit_now() is called only
\* when health() shows tracked offsets: otherwise bare fetch positions are.
Gated == ~config.auto /\ "commit_now" \notin config.calls

\* Broker commits are gated on handled delivery: whatever is committed, a new
\* member that starts there misses nothing but what the positioning probe has
\* lost, through rebalances, stale batches, failed commits, crashes and seeks.
CommittedCovered == \A p \in Parts : Covered(p, committed[p])
CommittedIsHandled == Gated => CommittedCovered

\* The same for the checkpoint the runner saved: resuming at offset + 1 misses
\* nothing more.
CheckpointCovered == \A p \in Keys(saved) : Covered(p, saved[p] + 1)
CheckpointIsHandled == Gated => CheckpointCovered

\* "Broker commits remain gated on handled delivery" (_stream_runtime.py:207) with
\* manual commits: what is committed was handled or skipped by the operator.
\* commit_now() without tracked offsets and the positioning probe break it.
BrokerCommitsGated ==
    ~config.auto => \A p \in Parts :
        \A i \in 0..(committed[p] - 1) : i \in handled[p] \cup skipped[p]

\* commit_if_needed never falls back to committing aiokafka's fetch positions:
\* a pending acknowledgement always has a tracked offset.
PendingIsTracked == pending > 0 => Keys(committable) # {}

\* close() flushes pending manual commits: when it ends without an error, every
\* acknowledged offset of a partition the member still owns is committed.
CloseFlushes ==
    [][CloseReturn /\ reply["close"] # "error" =>
         \A p \in Keys(committable) \cap assigned : committed[p] > committable[p]]_vars
=============================================================================
