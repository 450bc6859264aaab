------------------------- MODULE KafkaSourceProofs -------------------------
(***************************************************************************)
(* Type correctness, tracked pending commits and at-least-once delivery of *)
(* the Kafka source, for any number of partitions, records, rebalances and *)
(* faults.                                                                 *)
(***************************************************************************)
EXTENDS KafkaSource, TLAPS, FiniteSetTheorems

USE ConstantAssumption

\* A record is in delivery exactly while the generator is suspended on it.
Delivering == stream \in {"yielded", "written"} <=> cur # NoRecord

\* A closed source has left the group and streams nothing.
Closed == ~open => stream \in {"off", "done"} /\ assigned = {} /\ group = "out"

BatchOK == \A p \in Parts : lo[p] <= hi[p]

\* With auto-commit nothing is pending.
AutoCounts == config.auto => pending = 0

BaseInv == TypeOK /\ Delivering /\ Closed /\ BatchOK /\ PendingIsTracked /\ AutoCounts

LEMMA BuildType ==
    ASSUME TypeOK, NEW c \in OffsetMap
    PROVE  build_commit_offsets(c) \in OffsetMap
<1>1. \A p \in Parts : c[p] # NoOffset => c[p] + 1 \in Nat
  BY DEF OffsetMap, NoOffset
<1>2. \A p \in Parts : position[p] \in Nat
  BY DEF TypeOK
<1> QED BY <1>1, <1>2 DEF build_commit_offsets, OffsetMap

LEMMA CallCommitType ==
    ASSUME TypeOK, NEW t \in Tasks, NEW c \in OffsetMap, CallCommit(t, c)
    PROVE  /\ sent' \in [Tasks -> OffsetMap]
           /\ reply' \in [Tasks -> {"none", "wait", "ok", "error"}]
BY BuildType DEF CallCommit, TypeOK

LEMMA CommitIfNeededType ==
    ASSUME TypeOK, NEW t \in Tasks, NEW c \in OffsetMap, NEW n, NEW f,
           CommitIfNeeded(t, n, c, f)
    PROVE  /\ sent' \in [Tasks -> OffsetMap]
           /\ reply' \in [Tasks -> {"none", "wait", "ok", "error"}]
<1>1. CASE CommitNeeded(n, f)
  BY <1>1, CallCommitType DEF CommitIfNeeded
<1>2. CASE ~CommitNeeded(n, f)
  BY <1>2 DEF CommitIfNeeded, commitVars, TypeOK
<1> QED BY <1>1, <1>2

LEMMA NoOffsetsType == NoOffsets \in OffsetMap
BY DEF NoOffsets, OffsetMap

LEMMA CommitReturnType ==
    ASSUME TypeOK, NEW t \in Tasks, CommitReturn(t)
    PROVE  /\ sent' \in [Tasks -> OffsetMap]
           /\ reply' \in [Tasks -> {"none", "wait", "ok", "error"}]
           /\ pending' \in Nat
BY NoOffsetsType DEF CommitReturn, TypeOK

LEMMA SizeType ==
    ASSUME NEW n
    PROVE  Size(n) \in Nat
<1>1. IsFiniteSet(1..MaxPoll)
  BY FS_Interval
<1>2. IsFiniteSet(Parts \X (1..MaxPoll))
  BY <1>1, FS_Product
<1>3. IsFiniteSet({r \in Parts \X (1..MaxPoll) : r[2] <= n[r[1]]})
  BY <1>2, FS_Subset
<1> QED BY <1>3, FS_CardinalityType DEF Size

LEMMA MarkDeliveredType ==
    ASSUME TypeOK, NEW p \in Parts, NEW o \in Nat, MarkDelivered(p, o)
    PROVE  /\ processed' \in OffsetMap
           /\ committable' \in OffsetMap
           /\ committable'[p] = o
           /\ pending' \in Nat
           /\ sent' \in [Tasks -> OffsetMap]
           /\ reply' \in [Tasks -> {"none", "wait", "ok", "error"}]
           /\ stream' \in {"committing", "ready"}
<1>1. /\ processed' \in OffsetMap
      /\ committable' \in OffsetMap
      /\ committable'[p] = o
      /\ pending' \in Nat
  BY DEF MarkDelivered, TypeOK, OffsetMap, Counted
<1>2. "stream" \in Tasks /\ CommitIfNeeded("stream", pending', committable', FALSE)
  BY DEF MarkDelivered, Tasks
<1>3. /\ sent' \in [Tasks -> OffsetMap]
      /\ reply' \in [Tasks -> {"none", "wait", "ok", "error"}]
  BY <1>1, <1>2, CommitIfNeededType
<1> QED BY <1>1, <1>3 DEF MarkDelivered

LEMMA AutoStep ==
    ASSUME AutoCounts, [Next]_vars
    PROVE  AutoCounts'
<1>1. config' = config
  BY DEF Next, vars
<1>2. SUFFICES ASSUME config.auto, pending = 0 PROVE pending' = 0
  BY <1>1 DEF AutoCounts
<1> USE <1>1, <1>2 DEF cursorVars
<1>3. CASE pending' = pending
  BY <1>3
<1>4. CASE DropBatch \/ LateAck
  BY <1>4 DEF DropBatch, LateAck, Counted
<1>5. CASE Ack
  BY <1>5 DEF Ack, MarkDelivered, Counted
<1>6. ASSUME NEW p \in Parts, DropRecord(p) PROVE pending' = 0
  BY <1>6 DEF DropRecord, MarkDelivered, Counted
<1>7. CASE StreamBegin \/ AckTransaction \/ CloseReturn \/ Crash
  BY <1>7 DEF StreamBegin, AckTransaction, CloseReturn, Crash
<1>8. CASE StreamCommitReturn \/ StreamFlushReturn \/ RevokeReturn
  BY <1>8 DEF StreamCommitReturn, StreamFlushReturn, RevokeReturn, CommitReturn
<1>9. ASSUME NEW t \in {"operator", "late"}, PlainReturn(t) PROVE pending' = 0
  BY <1>9 DEF PlainReturn, CommitReturn
<1>10. ASSUME NEW p \in Parts, NEW o, NEW e, Seek(p, o, e) PROVE pending' = 0
  BY <1>10 DEF Seek, DiscardTracking
<1>11. \/ pending' = pending
       \/ DropBatch \/ LateAck \/ Ack
       \/ StreamBegin \/ AckTransaction \/ CloseReturn \/ Crash
       \/ StreamCommitReturn \/ StreamFlushReturn \/ RevokeReturn
       \/ \E p \in Parts : DropRecord(p)
       \/ \E t \in {"operator", "late"} : PlainReturn(t)
       \/ \E p \in Parts : \E o \in 0..End[p] : \E e \in BOOLEAN : Seek(p, o, e)
  BY DEF Next, Step, StreamStep, SessionStep, vars, Open, Bootstrap, Poll, IdleExit, Interrupt,
    DecodeBatch, PoisonBatch, Write, SaveCheckpoint, Abort, StreamFlush, CloseBegin, Revoke,
    CommitNow, AutoCommit, PoisonRecord, Emit, OtherMember, BrokerCommit, CommitFails, Assign
<1> QED BY <1>3, <1>4, <1>5, <1>6, <1>7, <1>8, <1>9, <1>10, <1>11

\* Every action keeps the base invariant.
LEMMA BaseStep ==
    ASSUME BaseInv, [Next]_vars
    PROVE  BaseInv'
<1>c. config' = config
  BY DEF Next, vars
<1>d. AutoCounts'
  BY AutoStep DEF BaseInv
<1> USE <1>c, <1>d, NoOffsetsType DEF BaseInv, brokerVars, groupVars, cursorVars, targetVars, batchVars,
      commitVars, historyVars
<1>1. CASE Open
  <2>1. TypeOK'
    BY <1>1 DEF Open, TypeOK
  <2>2. Delivering' /\ Closed' /\ BatchOK' /\ PendingIsTracked'
    BY <1>1 DEF Open, TypeOK, Delivering, Closed, BatchOK, PendingIsTracked, Keys
  <2> QED BY <2>1, <2>2
<1>2. CASE StreamBegin
  <2>1. TypeOK'
    BY <1>2 DEF StreamBegin, TypeOK
  <2>2. Delivering' /\ Closed' /\ BatchOK' /\ PendingIsTracked'
    BY <1>2 DEF StreamBegin, TypeOK, Delivering, Closed, BatchOK, PendingIsTracked, Keys,
          NoOffsets, NoOffset
  <2> QED BY <2>1, <2>2
<1>3. CASE Bootstrap
  <2>1. position' \in [Parts -> Nat]
    BY <1>3 DEF Bootstrap, TypeOK, SeekTarget, positioning_targets, Keys, OffsetMap,
          NoOffset
  <2>2. TypeOK'
    BY <1>3, <2>1 DEF Bootstrap, TypeOK
  <2>3. Delivering' /\ Closed' /\ BatchOK' /\ PendingIsTracked'
    BY <1>3, <2>1 DEF Bootstrap, TypeOK, Delivering, Closed, BatchOK, PendingIsTracked, Keys
  <2> QED BY <2>2, <2>3
<1>4. CASE Poll
  <2>1. TypeOK'
    BY <1>4 DEF Poll, TypeOK
  <2>2. Delivering' /\ Closed' /\ BatchOK' /\ PendingIsTracked'
    BY <1>4 DEF Poll, TypeOK, Delivering, Closed, BatchOK, PendingIsTracked, Keys
  <2> QED BY <2>1, <2>2
<1>5. CASE IdleExit
  <2>1. TypeOK'
    BY <1>5 DEF IdleExit, TypeOK
  <2>2. Delivering' /\ Closed' /\ BatchOK' /\ PendingIsTracked'
    BY <1>5 DEF IdleExit, TypeOK, Delivering, Closed, BatchOK, PendingIsTracked, Keys
  <2> QED BY <2>1, <2>2
<1>6. CASE Interrupt
  <2>1. /\ sent' \in [Tasks -> OffsetMap]
        /\ reply' \in [Tasks -> {"none", "wait", "ok", "error"}]
    BY <1>6 DEF Interrupt, TypeOK, Tasks
  <2>2. TypeOK'
    BY <1>6, <2>1 DEF Interrupt, TypeOK
  <2>3. Delivering' /\ Closed' /\ BatchOK' /\ PendingIsTracked'
    BY <1>6, <2>1 DEF Interrupt, TypeOK, Delivering, Closed, BatchOK, PendingIsTracked, Keys
  <2> QED BY <2>2, <2>3
<1>7. CASE DecodeBatch
  <2>1. TypeOK'
    BY <1>7 DEF DecodeBatch, TypeOK
  <2>2. Delivering' /\ Closed' /\ BatchOK' /\ PendingIsTracked'
    BY <1>7 DEF DecodeBatch, TypeOK, Delivering, Closed, BatchOK, PendingIsTracked, Keys
  <2> QED BY <2>1, <2>2
<1>8. CASE PoisonBatch
  <2>1. TypeOK'
    BY <1>8 DEF PoisonBatch, TypeOK
  <2>2. Delivering' /\ Closed' /\ BatchOK' /\ PendingIsTracked'
    BY <1>8 DEF PoisonBatch, TypeOK, Delivering, Closed, BatchOK, PendingIsTracked, Keys
  <2> QED BY <2>1, <2>2
<1>9. CASE DropBatch
  <2>1. /\ processed' \in OffsetMap
        /\ committable' \in OffsetMap
    BY <1>9 DEF DropBatch, TypeOK, OffsetMap
  <2>2. pending' \in Nat
    BY <1>9, <2>1, SizeType DEF DropBatch, TypeOK, BatchSize, Counted
  <2>3. handled' \in [Parts -> SUBSET Nat]
    BY <1>9, <2>1, <2>2 DEF DropBatch, TypeOK, Batch
  <2>4. "stream" \in Tasks
    BY <1>9, <2>1, <2>2, <2>3 DEF DropBatch, TypeOK, Tasks
  <2>5. /\ sent' \in [Tasks -> OffsetMap]
        /\ reply' \in [Tasks -> {"none", "wait", "ok", "error"}]
    BY <1>9, <2>1, <2>2, <2>3, <2>4, CommitIfNeededType DEF DropBatch, TypeOK
  <2>6. \E p \in Parts : lo[p] < hi[p]
    BY <1>9, <2>1, <2>2, <2>3, <2>4, <2>5, SMTT(40) DEF DropBatch, TypeOK, BatchEmpty, BatchOK
  <2>7. \A p \in Parts : lo[p] < hi[p] => committable'[p] = hi[p] - 1 /\ hi[p] - 1 # NoOffset
    BY <1>9, <2>1, <2>2, <2>3, <2>4, <2>5, <2>6 DEF DropBatch, TypeOK, NoOffset
  <2>8. TypeOK'
    BY <1>9, <2>1, <2>2, <2>3, <2>4, <2>5, <2>6, <2>7 DEF DropBatch, TypeOK
  <2>9. Delivering' /\ Closed' /\ BatchOK' /\ PendingIsTracked'
    BY <1>9, <2>1, <2>2, <2>3, <2>4, <2>5, <2>6, <2>7 DEF DropBatch, TypeOK, Delivering,
          Closed, BatchOK, PendingIsTracked, Keys
  <2> QED BY <2>8, <2>9
<1>10. CASE Write
  <2>1. cur \in Parts \X Nat
    BY <1>10 DEF Write, TypeOK, Delivering
  <2>2. TypeOK'
    BY <1>10, <2>1 DEF Write, TypeOK
  <2>3. Delivering' /\ Closed' /\ BatchOK' /\ PendingIsTracked'
    BY <1>10, <2>1 DEF Write, TypeOK, Delivering, Closed, BatchOK, PendingIsTracked, Keys
  <2> QED BY <2>2, <2>3
<1>11. CASE SaveCheckpoint
  <2>1. TypeOK'
    BY <1>11 DEF SaveCheckpoint, TypeOK
  <2>2. Delivering' /\ Closed' /\ BatchOK' /\ PendingIsTracked'
    BY <1>11 DEF SaveCheckpoint, TypeOK, Delivering, Closed, BatchOK, PendingIsTracked, Keys
  <2> QED BY <2>1, <2>2
<1>12. CASE Ack
  <2>1. cur \in Parts \X Nat
    BY <1>12 DEF Ack, TypeOK, Delivering
  <2>2. /\ processed' \in OffsetMap
        /\ committable' \in OffsetMap
        /\ pending' \in Nat
        /\ sent' \in [Tasks -> OffsetMap]
        /\ reply' \in [Tasks -> {"none", "wait", "ok", "error"}]
        /\ stream' \in {"committing", "ready"}
        /\ committable'[cur[1]] = cur[2]
    BY <1>12, <2>1, MarkDeliveredType DEF Ack, TypeOK
  <2>3. TypeOK'
    BY <1>12, <2>1, <2>2 DEF Ack, TypeOK
  <2>4. Delivering' /\ Closed' /\ BatchOK' /\ PendingIsTracked'
    BY <1>12, <2>1, <2>2 DEF Ack, TypeOK, Delivering, Closed, BatchOK, PendingIsTracked,
          Keys, NoOffset
  <2> QED BY <2>3, <2>4
<1>13. CASE AckTransaction
  <2>1. cur \in Parts \X Nat
    BY <1>13 DEF AckTransaction, TypeOK, Delivering
  <2>2. /\ processed' \in OffsetMap
        /\ committable' \in OffsetMap
        /\ committed' \in [Parts -> Nat]
    BY <1>13, <2>1 DEF AckTransaction, TypeOK, OffsetMap
  <2>3. TypeOK'
    BY <1>13, <2>1, <2>2 DEF AckTransaction, TypeOK
  <2>4. Delivering' /\ Closed' /\ BatchOK' /\ PendingIsTracked'
    BY <1>13, <2>1, <2>2 DEF AckTransaction, TypeOK, Delivering, Closed, BatchOK,
          PendingIsTracked, Keys
  <2> QED BY <2>3, <2>4
<1>14. CASE Abort
  <2>1. TypeOK'
    BY <1>14 DEF Abort, TypeOK
  <2>2. Delivering' /\ Closed' /\ BatchOK' /\ PendingIsTracked'
    BY <1>14 DEF Abort, TypeOK, Delivering, Closed, BatchOK, PendingIsTracked, Keys
  <2> QED BY <2>1, <2>2
<1>15. CASE LateAck
  <2>1. kept \in Parts \X Nat
    BY <1>15 DEF LateAck, TypeOK
  <2>2. /\ processed' \in OffsetMap
        /\ committable' \in OffsetMap
        /\ committable'[kept[1]] = kept[2]
    BY <1>15, <2>1 DEF LateAck, TypeOK, OffsetMap
  <2>3. "late" \in Tasks
    BY <1>15, <2>1, <2>2 DEF LateAck, TypeOK, Tasks
  <2>4. /\ sent' \in [Tasks -> OffsetMap]
        /\ reply' \in [Tasks -> {"none", "wait", "ok", "error"}]
    BY <1>15, <2>1, <2>2, <2>3, CommitIfNeededType DEF LateAck, TypeOK
  <2>5. TypeOK'
    BY <1>15, <2>1, <2>2, <2>3, <2>4 DEF LateAck, TypeOK, Counted
  <2>6. Delivering' /\ Closed' /\ BatchOK' /\ PendingIsTracked'
    BY <1>15, <2>1, <2>2, <2>3, <2>4 DEF LateAck, TypeOK, Delivering, Closed, BatchOK,
          PendingIsTracked, Keys, NoOffset
  <2> QED BY <2>5, <2>6
<1>16. CASE StreamCommitReturn
  <2>1. "stream" \in Tasks
    BY <1>16 DEF StreamCommitReturn, TypeOK, Tasks
  <2>2. /\ sent' \in [Tasks -> OffsetMap]
        /\ reply' \in [Tasks -> {"none", "wait", "ok", "error"}]
        /\ pending' \in Nat
        /\ pending' \in {0, pending}
    BY <1>16, <2>1, CommitReturnType DEF StreamCommitReturn, TypeOK, CommitReturn
  <2>3. TypeOK'
    BY <1>16, <2>1, <2>2 DEF StreamCommitReturn, TypeOK
  <2>4. Delivering' /\ Closed' /\ BatchOK' /\ PendingIsTracked'
    BY <1>16, <2>1, <2>2 DEF StreamCommitReturn, TypeOK, Delivering, Closed, BatchOK,
          PendingIsTracked, Keys
  <2> QED BY <2>3, <2>4
<1>17. CASE StreamFlush
  <2>1. "stream" \in Tasks
    BY <1>17 DEF StreamFlush, TypeOK, Tasks
  <2>2. /\ sent' \in [Tasks -> OffsetMap]
        /\ reply' \in [Tasks -> {"none", "wait", "ok", "error"}]
    BY <1>17, <2>1, CommitIfNeededType DEF StreamFlush, TypeOK
  <2>3. TypeOK'
    BY <1>17, <2>1, <2>2 DEF StreamFlush, TypeOK, FlushPhase
  <2>4. Delivering' /\ Closed' /\ BatchOK' /\ PendingIsTracked'
    BY <1>17, <2>1, <2>2 DEF StreamFlush, TypeOK, Delivering, Closed, BatchOK,
          PendingIsTracked, Keys, FlushPhase
  <2> QED BY <2>3, <2>4
<1>18. CASE StreamFlushReturn
  <2>1. "stream" \in Tasks
    BY <1>18 DEF StreamFlushReturn, TypeOK, Tasks
  <2>2. /\ sent' \in [Tasks -> OffsetMap]
        /\ reply' \in [Tasks -> {"none", "wait", "ok", "error"}]
        /\ pending' \in Nat
        /\ pending' \in {0, pending}
    BY <1>18, <2>1, CommitReturnType DEF StreamFlushReturn, TypeOK, CommitReturn
  <2>3. TypeOK'
    BY <1>18, <2>1, <2>2 DEF StreamFlushReturn, TypeOK, FlushPhase
  <2>4. Delivering' /\ Closed' /\ BatchOK' /\ PendingIsTracked'
    BY <1>18, <2>1, <2>2 DEF StreamFlushReturn, TypeOK, Delivering, Closed, BatchOK,
          PendingIsTracked, Keys, FlushPhase
  <2> QED BY <2>3, <2>4
<1>19. CASE CloseBegin
  <2>1. "close" \in Tasks
    BY <1>19 DEF CloseBegin, TypeOK, Tasks
  <2>2. /\ sent' \in [Tasks -> OffsetMap]
        /\ reply' \in [Tasks -> {"none", "wait", "ok", "error"}]
    BY <1>19, <2>1, CallCommitType DEF CloseBegin, TypeOK
  <2>3. TypeOK'
    BY <1>19, <2>1, <2>2 DEF CloseBegin, TypeOK
  <2>4. Delivering' /\ Closed' /\ BatchOK' /\ PendingIsTracked'
    BY <1>19, <2>1, <2>2 DEF CloseBegin, TypeOK, Delivering, Closed, BatchOK,
          PendingIsTracked, Keys
  <2> QED BY <2>3, <2>4
<1>20. CASE CloseReturn
  <2>1. /\ sent' \in [Tasks -> OffsetMap]
        /\ reply' \in [Tasks -> {"none", "wait", "ok", "error"}]
    BY <1>20 DEF CloseReturn, TypeOK, StopConsumer
  <2>2. TypeOK'
    BY <1>20, <2>1 DEF CloseReturn, TypeOK, StopConsumer
  <2>3. Delivering' /\ Closed' /\ BatchOK' /\ PendingIsTracked'
    BY <1>20, <2>1 DEF CloseReturn, TypeOK, Delivering, Closed, BatchOK, PendingIsTracked,
          Keys, StopConsumer
  <2> QED BY <2>2, <2>3
<1>21. CASE Crash
  <2>1. /\ sent' \in [Tasks -> OffsetMap]
        /\ reply' \in [Tasks -> {"none", "wait", "ok", "error"}]
    BY <1>21 DEF Crash, TypeOK, StopConsumer
  <2>2. open' \in BOOLEAN
    BY <1>21, <2>1 DEF Crash, TypeOK, StopConsumer
  <2>3. /\ group' = "out" /\ assigned' = {}
        /\ pending' = 0 /\ faults' \in Nat
    BY <1>21, <2>1, <2>2 DEF Crash, TypeOK, StopConsumer
  <2>4. /\ processed' \in OffsetMap /\ committable' \in OffsetMap
        /\ start_offsets' \in OffsetMap /\ resume_offsets' \in OffsetMap
    BY <1>21, <2>1, <2>2, <2>3 DEF Crash, TypeOK
  <2>5. TypeOK'
    BY <1>21, <2>1, <2>2, <2>3, <2>4 DEF Crash, TypeOK
  <2>6. Delivering' /\ Closed' /\ BatchOK' /\ PendingIsTracked'
    BY <1>21, <2>1, <2>2, <2>3, <2>4 DEF Crash, TypeOK, Delivering, Closed, BatchOK,
          PendingIsTracked, Keys, StopConsumer, NoOffsets, NoOffset
  <2> QED BY <2>5, <2>6
<1>22. CASE Revoke
  <2>1. "rebalance" \in Tasks
    BY <1>22 DEF Revoke, TypeOK, Tasks
  <2>2. /\ sent' \in [Tasks -> OffsetMap]
        /\ reply' \in [Tasks -> {"none", "wait", "ok", "error"}]
    BY <1>22, <2>1, CommitIfNeededType DEF Revoke, TypeOK
  <2>3. \/ /\ CommitNeeded(pending, TRUE)
           /\ group' = "revoking"
           /\ UNCHANGED <<assigned, processed, committable>>
        \/ /\ ~CommitNeeded(pending, TRUE)
           /\ group' = "joining" /\ assigned' = {} /\ DropRevoked
    BY <1>22, <2>1, <2>2 DEF Revoke, TypeOK
  <2>4. /\ processed' \in OffsetMap
        /\ committable' \in OffsetMap
    <3>1. processed \in OffsetMap /\ committable \in OffsetMap
      BY DEF TypeOK
    <3>2. CASE UNCHANGED <<processed, committable>>
      BY <3>1, <3>2
    <3>3. CASE DropRevoked
      BY <3>1, <3>3 DEF DropRevoked, OffsetMap
    <3> QED BY <2>3, <3>2, <3>3
  <2>5. rebalances' \in Nat
    BY <1>22, <2>1, <2>2, <2>3, <2>4 DEF Revoke, TypeOK
  <2>6. TypeOK'
    BY <1>22, <2>1, <2>2, <2>3, <2>4, <2>5 DEF Revoke, TypeOK
  <2>7. Delivering' /\ Closed' /\ BatchOK' /\ PendingIsTracked'
    BY <1>22, <2>1, <2>2, <2>3, <2>4, <2>5 DEF Revoke, TypeOK, Delivering, Closed, BatchOK,
          PendingIsTracked, Keys, CommitNeeded, AutoCounts
  <2> QED BY <2>6, <2>7
<1>23. CASE RevokeReturn
  <2>1. "rebalance" \in Tasks
    BY <1>23 DEF RevokeReturn, TypeOK, Tasks
  <2>2. /\ sent' \in [Tasks -> OffsetMap]
        /\ reply' \in [Tasks -> {"none", "wait", "ok", "error"}]
        /\ pending' \in Nat
        /\ pending' \in {0, pending}
    BY <1>23, <2>1, CommitReturnType DEF RevokeReturn, TypeOK, CommitReturn
  <2>3. /\ processed' \in OffsetMap
        /\ committable' \in OffsetMap
    BY <1>23, <2>1, <2>2 DEF RevokeReturn, TypeOK, DropRevoked, OffsetMap
  <2>4. pending' = 0 \/ committable' = committable
    BY <1>23, <2>1, <2>2, <2>3 DEF RevokeReturn, TypeOK, CommitReturn
  <2>5. TypeOK'
    BY <1>23, <2>1, <2>2, <2>3, <2>4 DEF RevokeReturn, TypeOK
  <2>6. Delivering' /\ Closed' /\ BatchOK' /\ PendingIsTracked'
    BY <1>23, <2>1, <2>2, <2>3, <2>4 DEF RevokeReturn, TypeOK, Delivering, Closed, BatchOK,
          PendingIsTracked, Keys
  <2> QED BY <2>5, <2>6
<1>24. CASE CommitNow
  <2>1. "operator" \in Tasks
    BY <1>24 DEF CommitNow, TypeOK, Tasks
  <2>2. /\ sent' \in [Tasks -> OffsetMap]
        /\ reply' \in [Tasks -> {"none", "wait", "ok", "error"}]
    BY <1>24, <2>1, CallCommitType DEF CommitNow, TypeOK
  <2>3. TypeOK'
    BY <1>24, <2>1, <2>2 DEF CommitNow, TypeOK
  <2>4. Delivering' /\ Closed' /\ BatchOK' /\ PendingIsTracked'
    BY <1>24, <2>1, <2>2 DEF CommitNow, TypeOK, Delivering, Closed, BatchOK,
          PendingIsTracked, Keys
  <2> QED BY <2>3, <2>4
<1>25. ASSUME NEW p \in Parts, PoisonRecord(p) PROVE BaseInv'
  <2>1. lo' \in [Parts -> Nat]
    BY <1>25 DEF PoisonRecord, TypeOK
  <2>2. TypeOK'
    BY <1>25, <2>1 DEF PoisonRecord, TypeOK
  <2>3. Delivering' /\ Closed' /\ BatchOK' /\ PendingIsTracked'
    BY <1>25, <2>1 DEF PoisonRecord, TypeOK, Delivering, Closed, BatchOK, PendingIsTracked,
          Keys
  <2> QED BY <2>2, <2>3
<1>26. ASSUME NEW p \in Parts, DropRecord(p) PROVE BaseInv'
  <2>1. lo[p] \in Nat
    BY <1>26 DEF DropRecord, TypeOK
  <2>2. /\ processed' \in OffsetMap
        /\ committable' \in OffsetMap
        /\ pending' \in Nat
        /\ sent' \in [Tasks -> OffsetMap]
        /\ reply' \in [Tasks -> {"none", "wait", "ok", "error"}]
        /\ stream' \in {"committing", "ready"}
        /\ committable'[p] = lo[p]
    BY <1>26, <2>1, MarkDeliveredType DEF DropRecord, TypeOK
  <2>3. lo' \in [Parts -> Nat] /\ handled' \in [Parts -> SUBSET Nat]
    BY <1>26, <2>1, <2>2 DEF DropRecord, TypeOK
  <2>4. TypeOK'
    BY <1>26, <2>1, <2>2, <2>3 DEF DropRecord, TypeOK
  <2>5. Delivering' /\ Closed' /\ BatchOK' /\ PendingIsTracked'
    BY <1>26, <2>1, <2>2, <2>3 DEF DropRecord, TypeOK, Delivering, Closed, BatchOK,
          PendingIsTracked, Keys, NoOffset
  <2> QED BY <2>4, <2>5
<1>27. ASSUME NEW p \in Parts, Emit(p) PROVE BaseInv'
  <2>1. processed' \in OffsetMap
    BY <1>27 DEF Emit, TypeOK, OffsetMap
  <2>2. cur' \in Parts \X Nat
    BY <1>27, <2>1 DEF Emit, TypeOK
  <2>3. lo' \in [Parts -> Nat]
    BY <1>27, <2>1, <2>2 DEF Emit, TypeOK
  <2>4. TypeOK'
    BY <1>27, <2>1, <2>2, <2>3 DEF Emit, TypeOK
  <2>5. Delivering' /\ Closed' /\ BatchOK' /\ PendingIsTracked'
    BY <1>27, <2>1, <2>2, <2>3 DEF Emit, TypeOK, Delivering, Closed, BatchOK,
          PendingIsTracked, Keys
  <2> QED BY <2>4, <2>5
<1>28. ASSUME NEW p \in Parts, OtherMember(p) PROVE BaseInv'
  <2>1. TypeOK'
    BY <1>28 DEF OtherMember, TypeOK
  <2>2. Delivering' /\ Closed' /\ BatchOK' /\ PendingIsTracked'
    BY <1>28 DEF OtherMember, TypeOK, Delivering, Closed, BatchOK, PendingIsTracked, Keys
  <2> QED BY <2>1, <2>2
<1>29. ASSUME NEW t \in Tasks, BrokerCommit(t) PROVE BaseInv'
  <2>1. committed' \in [Parts -> Nat]
    BY <1>29 DEF BrokerCommit, TypeOK, OffsetMap, NoOffset
  <2>2. reply' \in [Tasks -> {"none", "wait", "ok", "error"}]
    BY <1>29, <2>1 DEF BrokerCommit, TypeOK
  <2>3. TypeOK'
    BY <1>29, <2>1, <2>2 DEF BrokerCommit, TypeOK
  <2>4. Delivering' /\ Closed' /\ BatchOK' /\ PendingIsTracked'
    BY <1>29, <2>1, <2>2 DEF BrokerCommit, TypeOK, Delivering, Closed, BatchOK,
          PendingIsTracked, Keys
  <2> QED BY <2>3, <2>4
<1>30. ASSUME NEW t \in Tasks, CommitFails(t) PROVE BaseInv'
  <2>1. TypeOK'
    BY <1>30 DEF CommitFails, TypeOK
  <2>2. Delivering' /\ Closed' /\ BatchOK' /\ PendingIsTracked'
    BY <1>30 DEF CommitFails, TypeOK, Delivering, Closed, BatchOK, PendingIsTracked, Keys
  <2> QED BY <2>1, <2>2
<1>31. ASSUME NEW t \in {"operator", "late"}, PlainReturn(t) PROVE BaseInv'
  <2>1. t \in Tasks
    BY <1>31 DEF PlainReturn, TypeOK, Tasks
  <2>2. /\ sent' \in [Tasks -> OffsetMap]
        /\ reply' \in [Tasks -> {"none", "wait", "ok", "error"}]
        /\ pending' \in Nat
        /\ pending' \in {0, pending}
    BY <1>31, <2>1, CommitReturnType DEF PlainReturn, TypeOK, CommitReturn
  <2>3. TypeOK'
    BY <1>31, <2>1, <2>2 DEF PlainReturn, TypeOK
  <2>4. Delivering' /\ Closed' /\ BatchOK' /\ PendingIsTracked'
    BY <1>31, <2>1, <2>2 DEF PlainReturn, TypeOK, Delivering, Closed, BatchOK,
          PendingIsTracked, Keys
  <2> QED BY <2>3, <2>4
<1>32. ASSUME NEW S \in SUBSET config.parts, Assign(S) PROVE BaseInv'
  <2>0. S \subseteq Parts
    BY DEF TypeOK, Config
  <2>1. TypeOK'
    BY <1>32, <2>0 DEF Assign, TypeOK
  <2>2. Delivering' /\ Closed' /\ BatchOK' /\ PendingIsTracked'
    BY <1>32 DEF Assign, TypeOK, Delivering, Closed, BatchOK, PendingIsTracked, Keys
  <2> QED BY <2>1, <2>2
<1>33. ASSUME NEW p \in Parts, NEW o \in 0..End[p], NEW e \in BOOLEAN, Seek(p, o, e) PROVE BaseInv'
  <2>1. start_offsets' \in OffsetMap
    BY <1>33 DEF Seek, TypeOK, OffsetMap, NoOffsets, NoOffset
  <2>2. position' \in [Parts -> Nat]
    BY <1>33, <2>1 DEF Seek, TypeOK
  <2>3. skipped' \in [Parts -> SUBSET Nat]
    BY <1>33, <2>1, <2>2 DEF Seek, TypeOK
  <2>4. TypeOK'
    BY <1>33, <2>1, <2>2, <2>3 DEF Seek, TypeOK, DiscardTracking
  <2>5. Delivering' /\ Closed' /\ BatchOK' /\ PendingIsTracked'
    BY <1>33, <2>1, <2>2, <2>3 DEF Seek, TypeOK, Delivering, Closed, BatchOK,
          PendingIsTracked, Keys, DiscardTracking
  <2> QED BY <2>4, <2>5
<1>35. CASE AutoCommit
  <2>1. TypeOK'
    BY <1>35 DEF AutoCommit, TypeOK
  <2>2. Delivering' /\ Closed' /\ BatchOK' /\ PendingIsTracked'
    BY <1>35 DEF AutoCommit, TypeOK, Delivering, Closed, BatchOK, PendingIsTracked, Keys
  <2> QED BY <2>1, <2>2
<1>34. CASE UNCHANGED vars
  BY <1>34 DEF vars, TypeOK, Delivering, Closed, BatchOK, PendingIsTracked, Keys
<1> QED
  BY <1>1, <1>2, <1>3, <1>4, <1>5, <1>6, <1>7, <1>8, <1>9, <1>10, <1>11, <1>12, <1>13,
        <1>14, <1>15, <1>16, <1>17, <1>18, <1>19, <1>20, <1>21, <1>22, <1>23, <1>24, <1>25,
              <1>26, <1>27, <1>28, <1>29, <1>30, <1>31, <1>32, <1>33, <1>34, <1>35 DEF Next, Step,
                    StreamStep, SessionStep
LEMMA BaseInit == Init => BaseInv
<1> HAVE Init
<1>1. NoOffsets \in OffsetMap
  BY NoOffsetsType
<1>7. config \in Config
  BY DEF Init
<1>0. config.before \in OffsetMap
  BY <1>7 DEF Config
<1>8. \A p \in Parts : config.before[p] + 1 \in Nat /\ 0..config.before[p] \subseteq Nat
  BY <1>0 DEF OffsetMap, NoOffset
<1>6. committed \in [Parts -> Nat] /\ handled \in [Parts -> SUBSET Nat]
  BY <1>8 DEF Init
<1>2. /\ processed \in OffsetMap /\ committable \in OffsetMap
      /\ start_offsets \in OffsetMap /\ resume_offsets \in OffsetMap
      /\ saved \in OffsetMap /\ sent \in [Tasks -> OffsetMap]
  BY <1>0, <1>1 DEF Init
<1>3. open \in BOOLEAN /\ decoded \in BOOLEAN
  BY DEF Init
<1>4. TypeOK
  BY <1>2, <1>3, <1>6 DEF Init, TypeOK
<1>5. Delivering /\ Closed /\ BatchOK /\ PendingIsTracked /\ AutoCounts
  BY DEF Init, Delivering, Closed, BatchOK, PendingIsTracked, AutoCounts
<1> QED BY <1>4, <1>5 DEF BaseInv

\* Types hold in every reachable state of the source, whatever the broker, the
\* group, the operator and the runner do.
THEOREM TypeCorrect == Spec => []TypeOK
<1>1. Init => BaseInv
  BY BaseInit
<1>2. BaseInv /\ [Next]_vars => BaseInv'
  BY BaseStep
<1>3. BaseInv => TypeOK
  BY DEF BaseInv
<1> QED BY <1>1, <1>2, <1>3, PTL DEF Spec

\* commit_if_needed never falls back to committing fetch positions: a pending
\* acknowledgement always has a tracked offset, although drop_revoked, seeks
\* and commits of other tasks change both between the awaits.
THEOREM PendingTracked == Spec => []PendingIsTracked
<1>1. Init => BaseInv
  BY BaseInit
<1>2. BaseInv /\ [Next]_vars => BaseInv'
  BY BaseStep
<1>3. BaseInv => PendingIsTracked
  BY DEF BaseInv
<1> QED BY <1>1, <1>2, <1>3, PTL DEF Spec

-----------------------------------------------------------------------------
(* At-least-once delivery.  Covered(p, o) is carried from the place where a *)
(* position starts (a committed offset, a checkpoint, an operator seek)     *)
(* along the batch and the record in delivery to what is committed.         *)

Live == stream \in {"ready", "yielded", "written", "committing"}

Done(p, i) == i \in handled[p] \/ i \in skipped[p] \/ i \in discarded[p]

CommittableCovered == \A p \in Keys(committable) : Covered(p, committable[p] + 1)

SentCovered == \A t \in Tasks : \A p \in Keys(sent[t]) : Covered(p, sent[t][p])

ResumeCovered ==
    /\ \A p \in Keys(resume_offsets) : Covered(p, resume_offsets[p] + 1)
    /\ \A p \in Keys(start_offsets) : Covered(p, start_offsets[p])

\* Everything before the record in delivery is done, and the record itself once
\* it is written; a kept acknowledgement is of a written record.
RecordCovered ==
    /\ cur # NoRecord => Covered(cur[1], cur[2])
    /\ stream = "written" => cur[2] \in handled[cur[1]]
    /\ kept # NoRecord => Covered(kept[1], kept[2] + 1)

\* Below the rest of the batch everything is done but the record in delivery.
BatchCovered ==
    Live => \A p \in Parts : lo[p] < hi[p] =>
              \A i \in Nat : i < lo[p] => Done(p, i) \/ <<p, i>> = cur

\* Below the fetch position everything is done, in the batch or in delivery.
PositionCovered ==
    Live => \A p \in assigned : \A i \in Nat :
              i < position[p] => \/ Done(p, i)
                                 \/ lo[p] <= i /\ i < hi[p]
                                 \/ <<p, i>> = cur

\* The same for the offsets a checkpoint would be made of.
ProcessedCovered ==
    Live \/ stream = "bootstrap" => \A p \in Keys(processed) : \A i \in Nat :
              i <= processed[p] => Done(p, i) \/ <<p, i>> = cur

\* Before a stream polls, its positions are covered and it holds no batch.
FreshCovered ==
    /\ stream \in {"off", "bootstrap"} => \A p \in assigned : Covered(p, position[p])
    /\ stream = "bootstrap" => BatchEmpty

HandledInv ==
    /\ CommittedCovered
    /\ CheckpointCovered
    /\ CommittableCovered
    /\ SentCovered
    /\ ResumeCovered
    /\ RecordCovered
    /\ BatchCovered
    /\ PositionCovered
    /\ ProcessedCovered
    /\ FreshCovered

\* Records are never taken out of the history.
Grow == \A p \in Parts :
    /\ handled[p] \subseteq handled'[p]
    /\ skipped[p] \subseteq skipped'[p]
    /\ discarded[p] \subseteq discarded'[p]

LEMMA StepGrows ==
    ASSUME BaseInv, [Next]_vars
    PROVE  Grow
<1> USE DEF BaseInv, TypeOK, Grow, historyVars
<1>1. CASE UNCHANGED <<handled, skipped, discarded>>
  BY <1>1
<1>2. CASE DropBatch
  BY <1>2 DEF DropBatch
<1>3. CASE Write
  BY <1>3 DEF Write
<1>8. CASE Bootstrap
  BY <1>8 DEF Bootstrap
<1>4. ASSUME NEW p \in Parts, DropRecord(p) PROVE Grow
  BY <1>4 DEF DropRecord
<1>5. ASSUME NEW p \in Parts, OtherMember(p) PROVE Grow
  BY <1>5 DEF OtherMember
<1>6. ASSUME NEW p \in Parts, NEW o, NEW e, Seek(p, o, e) PROVE Grow
  BY <1>6 DEF Seek
<1>7. \/ UNCHANGED <<handled, skipped, discarded>>
      \/ DropBatch
      \/ Write
      \/ Bootstrap
      \/ \E p \in Parts : DropRecord(p) \/ OtherMember(p)
      \/ \E p \in Parts : \E o \in 0..End[p] : \E e \in BOOLEAN : Seek(p, o, e)
  BY DEF Next, Step, StreamStep, SessionStep, vars, Open, StreamBegin, Poll, IdleExit,
    Interrupt, DecodeBatch, PoisonBatch, SaveCheckpoint, Ack, AckTransaction, Abort, LateAck,
    StreamCommitReturn, StreamFlush, StreamFlushReturn, CloseBegin, CloseReturn, Crash, Revoke,
    RevokeReturn, CommitNow, AutoCommit, PoisonRecord, Emit, BrokerCommit, CommitFails, PlainReturn, Assign
<1> QED BY <1>1, <1>2, <1>3, <1>4, <1>5, <1>6, <1>7, <1>8

\* Covered after the step; o is not primed.
CoveredNext(p, o) == \A i \in 0..(o - 1) : i \in handled'[p] \cup skipped'[p] \cup discarded'[p]

\* A part of the invariant whose own variables do not change still holds.
LEMMA Unaffected ==
    ASSUME BaseInv, HandledInv, Grow
    PROVE  /\ UNCHANGED committed => CommittedCovered'
           /\ UNCHANGED saved => CheckpointCovered'
           /\ UNCHANGED committable => CommittableCovered'
           /\ UNCHANGED sent => SentCovered'
           /\ UNCHANGED <<resume_offsets, start_offsets>> => ResumeCovered'
           /\ UNCHANGED <<cur, kept, stream>> => RecordCovered'
           /\ UNCHANGED <<stream, lo, hi, cur>> => BatchCovered'
           /\ UNCHANGED <<stream, assigned, position, lo, hi, cur>> => PositionCovered'
           /\ UNCHANGED <<stream, processed, cur>> => ProcessedCovered'
           /\ UNCHANGED <<stream, assigned, position, lo, hi>> => FreshCovered'
<1> USE DEF BaseInv, HandledInv
<1>1. UNCHANGED committed => CommittedCovered'
  BY DEF CommittedCovered, Covered, Grow
<1>2. UNCHANGED saved => CheckpointCovered'
  BY DEF CheckpointCovered, Covered, Grow, Keys
<1>3. UNCHANGED committable => CommittableCovered'
  BY DEF CommittableCovered, Covered, Grow, Keys
<1>4. UNCHANGED sent => SentCovered'
  BY DEF SentCovered, Covered, Grow, Keys
<1>5. UNCHANGED <<resume_offsets, start_offsets>> => ResumeCovered'
  BY DEF ResumeCovered, Covered, Grow, Keys
<1>6. UNCHANGED <<cur, kept, stream>> => RecordCovered'
  BY DEF RecordCovered, Covered, Grow, TypeOK, Delivering
<1>7. UNCHANGED <<stream, lo, hi, cur>> => BatchCovered'
  BY DEF BatchCovered, Live, Done, Grow
<1>8. UNCHANGED <<stream, assigned, position, lo, hi, cur>> => PositionCovered'
  BY DEF PositionCovered, Live, Done, Grow, TypeOK
<1>9. UNCHANGED <<stream, processed, cur>> => ProcessedCovered'
  BY DEF ProcessedCovered, Live, Done, Grow, Keys
<1>10. UNCHANGED <<stream, assigned, position, lo, hi>> => FreshCovered'
  BY DEF FreshCovered, Covered, Grow, BatchEmpty, TypeOK
<1> QED BY <1>1, <1>2, <1>3, <1>4, <1>5, <1>6, <1>7, <1>8, <1>9, <1>10

\* What is sent is covered when the tracked offsets are.
LEMMA BuildCovered ==
    ASSUME TypeOK, NEW c \in OffsetMap, Keys(c) # {},
           \A p \in Keys(c) : CoveredNext(p, c[p] + 1)
    PROVE  \A p \in Keys(build_commit_offsets(c)) : CoveredNext(p, build_commit_offsets(c)[p])
BY DEF build_commit_offsets, Keys

LEMMA CallCommitCovered ==
    ASSUME BaseInv, SentCovered, Grow, NEW t \in Tasks, NEW c \in OffsetMap, Keys(c) # {},
           \A p \in Keys(c) : CoveredNext(p, c[p] + 1), CallCommit(t, c)
    PROVE  SentCovered'
<1>1. \A p \in Keys(build_commit_offsets(c)) : CoveredNext(p, build_commit_offsets(c)[p])
  BY BuildCovered DEF BaseInv
<1>2. /\ sent'[t] = build_commit_offsets(c)
      /\ \A u \in Tasks : u # t => sent'[u] = sent[u]
  BY DEF CallCommit, BaseInv, TypeOK
<1>3. \A u \in Tasks : u # t => \A p \in Keys(sent[u]) : CoveredNext(p, sent[u][p])
  BY <1>2 DEF SentCovered, Covered, CoveredNext, Grow, Keys
<1>4. \A u \in Tasks : \A p \in Keys(sent'[u]) : CoveredNext(p, sent'[u][p])
  BY <1>1, <1>2, <1>3
<1> QED BY <1>4 DEF SentCovered, Keys, Covered, CoveredNext

LEMMA CommitIfNeededCovered ==
    ASSUME BaseInv, SentCovered, Grow, NEW t \in Tasks, NEW c \in OffsetMap, NEW n, NEW f,
           n > 0 => Keys(c) # {},
           \A p \in Keys(c) : CoveredNext(p, c[p] + 1), CommitIfNeeded(t, n, c, f)
    PROVE  SentCovered'
<1>1. CASE CommitNeeded(n, f)
  BY <1>1, CallCommitCovered DEF CommitIfNeeded, CommitNeeded
<1>2. CASE ~CommitNeeded(n, f)
  BY <1>2 DEF CommitIfNeeded, commitVars, SentCovered, Covered, Grow, Keys
<1> QED BY <1>1, <1>2

LEMMA CommitReturnCovered ==
    ASSUME BaseInv, SentCovered, Grow, NEW t \in Tasks, sent' = [sent EXCEPT ![t] = NoOffsets]
    PROVE  SentCovered'
BY DEF BaseInv, TypeOK, SentCovered, Covered, Grow, Keys, NoOffsets, NoOffset

\* Every action keeps the delivery invariant.
LEMMA HandledStep ==
    ASSUME BaseInv, HandledInv, [Next]_vars,
           Gated
    PROVE  HandledInv'
<1>a. Grow
  BY StepGrows
<1>b. BaseInv'
  BY BaseStep
<1>c. /\ UNCHANGED committed => CommittedCovered'
      /\ UNCHANGED saved => CheckpointCovered'
      /\ UNCHANGED committable => CommittableCovered'
      /\ UNCHANGED sent => SentCovered'
      /\ UNCHANGED <<resume_offsets, start_offsets>> => ResumeCovered'
      /\ UNCHANGED <<cur, kept, stream>> => RecordCovered'
      /\ UNCHANGED <<stream, lo, hi, cur>> => BatchCovered'
      /\ UNCHANGED <<stream, assigned, position, lo, hi, cur>> => PositionCovered'
      /\ UNCHANGED <<stream, processed, cur>> => ProcessedCovered'
      /\ UNCHANGED <<stream, assigned, position, lo, hi>> => FreshCovered'
  BY <1>a, Unaffected
<1> USE DEF HandledInv, brokerVars, groupVars, cursorVars, targetVars, batchVars, commitVars,
      historyVars
<1>1. CASE Open
  <2>1. /\ CommittedCovered'
        /\ CheckpointCovered'
        /\ CommittableCovered'
        /\ SentCovered'
    BY <1>1, <1>c DEF Open
  <2>2. ResumeCovered'
    BY <1>1, <1>a DEF Open, BaseInv, TypeOK, ResumeCovered, Covered, Grow, Keys, NoOffset,
          NoOffsets, CheckpointCovered
  <2>3. RecordCovered'
    BY <1>1, <1>a DEF Open, BaseInv, TypeOK, RecordCovered, Covered, Grow, Closed,
          Delivering
  <2>4. BatchCovered'
    BY <1>1, <1>a DEF Open, BaseInv, TypeOK, BatchCovered, Live, Done, Grow
  <2>5. PositionCovered'
    BY <1>1, <1>a DEF Open, BaseInv, TypeOK, PositionCovered, Live, Done, Grow
  <2>6. ProcessedCovered'
    BY <1>1, <1>a DEF Open, BaseInv, TypeOK, ProcessedCovered, Live, Done, Grow, Keys,
          NoOffset
  <2>7. FreshCovered'
    BY <1>1, <1>a DEF Open, BaseInv, TypeOK, FreshCovered, Covered, Grow, BatchEmpty, Closed
  <2> QED BY <2>1, <2>2, <2>3, <2>4, <2>5, <2>6, <2>7
<1>2. CASE StreamBegin
  <2>1. CommittedCovered' /\ CheckpointCovered' /\ SentCovered' /\ ResumeCovered'
    BY <1>2, <1>c DEF StreamBegin
  <2>2. CommittableCovered'
    BY <1>2, <1>a DEF StreamBegin, BaseInv, TypeOK, CommittableCovered, Covered,
          CoveredNext, Grow, Keys, NoOffset, NoOffsets
  <2>3. RecordCovered'
    BY <1>2, <1>a DEF StreamBegin, BaseInv, TypeOK, RecordCovered, Covered, Grow
  <2>4. BatchCovered'
    BY <1>2, <1>a DEF StreamBegin, BaseInv, TypeOK, BatchCovered, Live, Done, Grow
  <2>5. PositionCovered'
    BY <1>2, <1>a DEF StreamBegin, BaseInv, TypeOK, PositionCovered, Live, Done, Grow
  <2>6. ProcessedCovered'
    BY <1>2, <1>a DEF StreamBegin, BaseInv, TypeOK, ProcessedCovered, Live, Done, Grow,
          Keys, NoOffset, NoOffsets
  <2>7. FreshCovered'
    BY <1>2, <1>a DEF StreamBegin, BaseInv, TypeOK, FreshCovered, Covered, Grow, BatchEmpty
  <2> QED BY <2>1, <2>2, <2>3, <2>4, <2>5, <2>6, <2>7
<1>3. CASE Bootstrap
  <2>1. cur = NoRecord
    BY <1>3, <1>a DEF Bootstrap, BaseInv, TypeOK, Delivering
  <2>2. stream' \in {"done", "ready"}
    BY <1>3, <1>a, <2>1 DEF Bootstrap, BaseInv, TypeOK
  <2>3. \A p \in assigned : CoveredNext(p, position'[p])
    <3> SUFFICES ASSUME NEW p \in assigned PROVE CoveredNext(p, position'[p])
      OBVIOUS
    <3>1. p \in Parts /\ position[p] \in Nat /\ Covered(p, position[p])
      BY <1>3 DEF Bootstrap, BaseInv, TypeOK, FreshCovered
    <3>2. CASE p \in Keys(positioning_targets)
      <4>1. position'[p] = SeekTarget(p)
        BY <1>3, <3>1, <3>2 DEF Bootstrap
      <4>2. Covered(p, SeekTarget(p))
        BY <3>1, <3>2 DEF SeekTarget, positioning_targets, ResumeCovered, Keys
      <4> QED BY <1>a, <3>1, <4>1, <4>2 DEF Covered, CoveredNext, Grow
    <3>3. CASE p \notin Keys(positioning_targets)
      <4>1. \/ position'[p] = position[p]
            \/ position'[p] = position[p] + 1 /\ position[p] \in discarded'[p]
        BY <1>3, <3>1, <3>3 DEF Bootstrap
      <4> QED BY <1>a, <3>1, <4>1 DEF Covered, CoveredNext, Grow
    <3> QED BY <3>2, <3>3
  <2>4. /\ position' \in [Parts -> Nat]
        /\ UNCHANGED <<assigned, handled, skipped, cur>>
        /\ assigned \subseteq Parts
    BY <1>3, <1>b DEF Bootstrap, BaseInv, TypeOK
  <2>5. /\ CommittedCovered'
        /\ CheckpointCovered'
        /\ CommittableCovered'
        /\ SentCovered'
        /\ ResumeCovered'
    BY <1>3, <1>c DEF Bootstrap
  <2>6. RecordCovered'
    BY <1>3, <1>a, <2>1, <2>2, <2>3, <2>4 DEF Bootstrap, BaseInv, TypeOK, RecordCovered,
          Covered, Grow
  <2>7. BatchCovered'
    BY <1>3, <1>a, <2>1, <2>2, <2>3, <2>4 DEF Bootstrap, BaseInv, TypeOK, BatchCovered,
          Live, Done, Grow, BatchEmpty, FreshCovered
  <2>8. PositionCovered'
    BY <1>a, <2>1, <2>2, <2>3, <2>4 DEF PositionCovered, CoveredNext, Live, Done
  <2>9. ProcessedCovered'
    BY <1>3, <1>a, <2>1, <2>2, <2>3, <2>4 DEF Bootstrap, BaseInv, TypeOK, ProcessedCovered,
          Live, Done, Grow, Keys, NoOffset
  <2>10. FreshCovered'
    BY <1>3, <1>a, <2>1, <2>2, <2>3, <2>4 DEF Bootstrap, BaseInv, TypeOK, FreshCovered,
          Covered, Grow, BatchEmpty
  <2> QED BY <2>5, <2>6, <2>7, <2>8, <2>9, <2>10
<1>4. CASE Poll
  <2>1. cur = NoRecord
    BY <1>4, <1>a DEF Poll, BaseInv, TypeOK, Delivering
  <2>2. /\ CommittedCovered'
        /\ CheckpointCovered'
        /\ CommittableCovered'
        /\ SentCovered'
        /\ ResumeCovered'
        /\ RecordCovered'
        /\ ProcessedCovered'
    BY <1>4, <1>c DEF Poll
  <2>3. BatchCovered'
    BY <1>4, <1>a, <2>1 DEF Poll, BaseInv, TypeOK, BatchCovered, Live, Done, Grow,
          BatchEmpty, PositionCovered
  <2>4. PositionCovered'
    BY <1>4, <1>a, <2>1 DEF Poll, BaseInv, TypeOK, PositionCovered, Live, Done, Grow,
          BatchEmpty
  <2>5. FreshCovered'
    BY <1>4, <1>a, <2>1 DEF Poll, BaseInv, TypeOK, FreshCovered, Covered, Grow, BatchEmpty
  <2> QED BY <2>2, <2>3, <2>4, <2>5
<1>5. CASE IdleExit
  <2>1. /\ CommittedCovered'
        /\ CheckpointCovered'
        /\ CommittableCovered'
        /\ SentCovered'
        /\ ResumeCovered'
    BY <1>5, <1>c DEF IdleExit
  <2>2. RecordCovered'
    BY <1>5, <1>a DEF IdleExit, BaseInv, TypeOK, RecordCovered, Covered, Grow
  <2>3. BatchCovered'
    BY <1>5, <1>a DEF IdleExit, BaseInv, TypeOK, BatchCovered, Live, Done, Grow
  <2>4. PositionCovered'
    BY <1>5, <1>a DEF IdleExit, BaseInv, TypeOK, PositionCovered, Live, Done, Grow
  <2>5. ProcessedCovered'
    BY <1>5, <1>a DEF IdleExit, BaseInv, TypeOK, ProcessedCovered, Live, Done, Grow, Keys,
          NoOffset
  <2>6. FreshCovered'
    BY <1>5, <1>a DEF IdleExit, BaseInv, TypeOK, FreshCovered, Covered, Grow, BatchEmpty
  <2> QED BY <2>1, <2>2, <2>3, <2>4, <2>5, <2>6
<1>6. CASE Interrupt
  <2>1. "stream" \in Tasks
    BY <1>6, <1>a DEF Interrupt, BaseInv, TypeOK, Tasks
  <2>2. /\ CommittedCovered'
        /\ CheckpointCovered'
        /\ CommittableCovered'
        /\ ResumeCovered'
    BY <1>6, <1>c DEF Interrupt
  <2>3. SentCovered'
    BY <1>6, <1>a, <2>1, CommitReturnCovered DEF Interrupt, BaseInv, TypeOK, SentCovered
  <2>4. RecordCovered'
    BY <1>6, <1>a, <2>1 DEF Interrupt, BaseInv, TypeOK, RecordCovered, Covered, Grow
  <2>5. BatchCovered'
    BY <1>6, <1>a, <2>1 DEF Interrupt, BaseInv, TypeOK, BatchCovered, Live, Done, Grow
  <2>6. PositionCovered'
    BY <1>6, <1>a, <2>1 DEF Interrupt, BaseInv, TypeOK, PositionCovered, Live, Done, Grow
  <2>7. ProcessedCovered'
    BY <1>6, <1>a, <2>1 DEF Interrupt, BaseInv, TypeOK, ProcessedCovered, Live, Done, Grow,
          Keys, NoOffset
  <2>8. FreshCovered'
    BY <1>6, <1>a, <2>1 DEF Interrupt, BaseInv, TypeOK, FreshCovered, Covered, Grow,
          BatchEmpty
  <2> QED BY <2>2, <2>3, <2>4, <2>5, <2>6, <2>7, <2>8
<1>7. CASE DecodeBatch
  <2>1. /\ CommittedCovered'
        /\ CheckpointCovered'
        /\ CommittableCovered'
        /\ SentCovered'
        /\ ResumeCovered'
        /\ RecordCovered'
        /\ BatchCovered'
        /\ PositionCovered'
        /\ ProcessedCovered'
        /\ FreshCovered'
    BY <1>7, <1>c DEF DecodeBatch
  <2> QED BY <2>1
<1>8. CASE PoisonBatch
  <2>1. /\ CommittedCovered'
        /\ CheckpointCovered'
        /\ CommittableCovered'
        /\ SentCovered'
        /\ ResumeCovered'
    BY <1>8, <1>c DEF PoisonBatch
  <2>2. RecordCovered'
    BY <1>8, <1>a DEF PoisonBatch, BaseInv, TypeOK, RecordCovered, Covered, Grow
  <2>3. BatchCovered'
    BY <1>8, <1>a DEF PoisonBatch, BaseInv, TypeOK, BatchCovered, Live, Done, Grow
  <2>4. PositionCovered'
    BY <1>8, <1>a DEF PoisonBatch, BaseInv, TypeOK, PositionCovered, Live, Done, Grow
  <2>5. ProcessedCovered'
    BY <1>8, <1>a DEF PoisonBatch, BaseInv, TypeOK, ProcessedCovered, Live, Done, Grow,
          Keys, NoOffset
  <2>6. FreshCovered'
    BY <1>8, <1>a DEF PoisonBatch, BaseInv, TypeOK, FreshCovered, Covered, Grow, BatchEmpty
  <2> QED BY <2>1, <2>2, <2>3, <2>4, <2>5, <2>6
<1>9. CASE DropBatch
  <2>1. "stream" \in Tasks
    BY <1>9, <1>a DEF DropBatch, BaseInv, TypeOK, Tasks
  <2>2. cur = NoRecord
    BY <1>9, <1>a, <2>1 DEF DropBatch, BaseInv, TypeOK, Delivering
  <2>3. \A p \in Parts : lo[p] < hi[p] => CoveredNext(p, hi[p])
    BY <1>9, <1>a, <2>1, <2>2 DEF DropBatch, BaseInv, TypeOK, Batch, CoveredNext,
          BatchCovered, Live, Done, Grow
  <2>4. CommittableCovered'
    BY <1>9, <1>a, <2>1, <2>2, <2>3 DEF DropBatch, BaseInv, TypeOK, CoveredNext,
          CommittableCovered, Covered, Grow, Keys, NoOffset
  <2>5. PendingIsTracked' /\ committable' \in OffsetMap
    BY <1>9, <1>a, <2>1, <2>2, <2>3, <2>4, <1>b DEF DropBatch, BaseInv, TypeOK
  <2>6. \A p \in Keys(committable') : CoveredNext(p, committable'[p] + 1)
    BY <1>9, <1>a, <2>1, <2>2, <2>3, <2>4, <2>5 DEF DropBatch, BaseInv, TypeOK,
          CommittableCovered, Covered, CoveredNext, Keys
  <2>7. /\ CommitIfNeeded("stream", pending', committable', FALSE)
        /\ pending' > 0 => Keys(committable') # {}
    BY <1>9, <1>a, <2>1, <2>2, <2>3, <2>4, <2>5, <2>6 DEF DropBatch, BaseInv, TypeOK,
          PendingIsTracked, Keys
  <2>8. CommittedCovered' /\ CheckpointCovered' /\ ResumeCovered'
    BY <1>9, <1>c DEF DropBatch
  <2>9. CommittableCovered'
    BY <1>9, <1>a, <2>1, <2>2, <2>3, <2>4, <2>5, <2>6, <2>7 DEF DropBatch, BaseInv, TypeOK,
          CommittableCovered, Covered, CoveredNext, Grow, Keys, NoOffset
  <2>10. SentCovered'
    BY <1>a, <2>1, <2>2, <2>3, <2>4, <2>5, <2>6, <2>7, CommitIfNeededCovered
  <2>11. RecordCovered'
    BY <1>9, <1>a, <2>1, <2>2, <2>3, <2>4, <2>5, <2>6, <2>7 DEF DropBatch, BaseInv, TypeOK,
          RecordCovered, Covered, Grow
  <2>12. BatchCovered'
    BY <1>9, <1>a, <2>1, <2>2, <2>3, <2>4, <2>5, <2>6, <2>7 DEF DropBatch, BaseInv, TypeOK,
          BatchCovered, Live, Done, Grow
  <2>13. PositionCovered'
    BY <1>9, <1>a, <2>1, <2>2, <2>3, <2>4, <2>5, <2>6, <2>7 DEF DropBatch, BaseInv, TypeOK,
          PositionCovered, Live, Done, Grow, CoveredNext, BatchOK
  <2>14. ProcessedCovered'
    BY <1>9, <1>a, <2>1, <2>2, <2>3, <2>4, <2>5, <2>6, <2>7 DEF DropBatch, BaseInv, TypeOK,
          ProcessedCovered, Live, Done, Grow, Keys, NoOffset, CoveredNext
  <2>15. FreshCovered'
    BY <1>9, <1>a, <2>1, <2>2, <2>3, <2>4, <2>5, <2>6, <2>7 DEF DropBatch, BaseInv, TypeOK,
          FreshCovered, Covered, Grow, BatchEmpty
  <2> QED BY <2>8, <2>9, <2>10, <2>11, <2>12, <2>13, <2>14, <2>15
<1>10. CASE Write
  <2>1. cur \in Parts \X Nat
    BY <1>10, <1>a DEF Write, BaseInv, TypeOK, Delivering
  <2>2. /\ CommittedCovered'
        /\ CheckpointCovered'
        /\ CommittableCovered'
        /\ SentCovered'
        /\ ResumeCovered'
    BY <1>10, <1>c DEF Write
  <2>3. RecordCovered'
    BY <1>10, <1>a, <2>1 DEF Write, BaseInv, TypeOK, RecordCovered, Covered, Grow
  <2>4. BatchCovered'
    BY <1>10, <1>a, <2>1 DEF Write, BaseInv, TypeOK, BatchCovered, Live, Done, Grow
  <2>5. PositionCovered'
    BY <1>10, <1>a, <2>1 DEF Write, BaseInv, TypeOK, PositionCovered, Live, Done, Grow
  <2>6. ProcessedCovered'
    BY <1>10, <1>a, <2>1 DEF Write, BaseInv, TypeOK, ProcessedCovered, Live, Done, Grow,
          Keys, NoOffset
  <2>7. FreshCovered'
    BY <1>10, <1>a, <2>1 DEF Write, BaseInv, TypeOK, FreshCovered, Covered, Grow, BatchEmpty
  <2> QED BY <2>2, <2>3, <2>4, <2>5, <2>6, <2>7
<1>11. CASE SaveCheckpoint
  <2>1. cur \in Parts \X Nat
    BY <1>11, <1>a DEF SaveCheckpoint, BaseInv, TypeOK, Delivering
  <2>2. cur[2] \in handled[cur[1]]
    BY <1>11, <1>a, <2>1 DEF SaveCheckpoint, BaseInv, TypeOK, RecordCovered
  <2>3. \A p \in Parts, i \in Nat : <<p, i>> = cur => i \in handled[p]
    BY <1>11, <1>a, <2>1, <2>2 DEF SaveCheckpoint, BaseInv, TypeOK
  <2>4. \A p \in Keys(processed) : \A i \in Nat : i <= processed[p] => Done(p, i)
    BY <1>11, <1>a, <2>1, <2>2, <2>3 DEF SaveCheckpoint, BaseInv, TypeOK, ProcessedCovered,
          Live, Done
  <2>5. /\ saved' = processed /\ UNCHANGED <<handled, skipped, discarded>>
        /\ \A p \in Keys(processed) : processed[p] \in Nat
    BY <1>11, <1>a, <2>1, <2>2, <2>3, <2>4 DEF SaveCheckpoint, BaseInv, TypeOK, Keys,
          OffsetMap
  <2>6. /\ CommittedCovered'
        /\ CommittableCovered'
        /\ SentCovered'
        /\ ResumeCovered'
        /\ RecordCovered'
        /\ BatchCovered'
        /\ PositionCovered'
        /\ ProcessedCovered'
        /\ FreshCovered'
    BY <1>11, <1>c DEF SaveCheckpoint
  <2>7. CheckpointCovered'
    BY <1>a, <2>1, <2>2, <2>3, <2>4, <2>5 DEF CheckpointCovered, Covered, Keys, Done
  <2> QED BY <2>6, <2>7
<1>12. CASE Ack
  <2>1. "stream" \in Tasks
    BY <1>12, <1>a DEF Ack, BaseInv, TypeOK, Tasks
  <2>2. cur \in Parts \X Nat
    BY <1>12, <1>a, <2>1 DEF Ack, BaseInv, TypeOK, Delivering
  <2>3. cur[2] \in handled[cur[1]]
    BY <1>12, <1>a, <2>1, <2>2 DEF Ack, BaseInv, TypeOK, RecordCovered
  <2>4. CoveredNext(cur[1], cur[2] + 1)
    BY <1>12, <1>a, <2>1, <2>2, <2>3 DEF Ack, BaseInv, TypeOK, RecordCovered, Covered,
          CoveredNext, Grow
  <2>5. \A p \in Parts, i \in Nat : <<p, i>> = cur => i \in handled[p]
    BY <1>12, <1>a, <2>1, <2>2, <2>3, <2>4 DEF Ack, BaseInv, TypeOK
  <2>6. /\ committable' = [committable EXCEPT ![cur[1]] = cur[2]]
        /\ processed' = [processed EXCEPT ![cur[1]] = cur[2]]
        /\ stream' \in {"ready", "committing"}
        /\ pending' = Counted(1)
        /\ CommitIfNeeded("stream", pending', committable', FALSE)
    BY <1>12, <1>a, <2>1, <2>2, <2>3, <2>4, <2>5 DEF Ack, BaseInv, TypeOK, MarkDelivered
  <2>7. CommittableCovered'
    BY <1>12, <1>a, <2>1, <2>2, <2>3, <2>4, <2>5, <2>6 DEF Ack, BaseInv, TypeOK,
          CoveredNext, CommittableCovered, Covered, Grow, Keys, NoOffset
  <2>8. PendingIsTracked' /\ committable' \in OffsetMap
    BY <1>12, <1>a, <2>1, <2>2, <2>3, <2>4, <2>5, <2>6, <2>7, <1>b DEF Ack, BaseInv, TypeOK
  <2>9. \A p \in Keys(committable') : CoveredNext(p, committable'[p] + 1)
    BY <1>12, <1>a, <2>1, <2>2, <2>3, <2>4, <2>5, <2>6, <2>7, <2>8 DEF Ack, BaseInv,
          TypeOK, CommittableCovered, Covered, CoveredNext, Keys
  <2>10. /\ CommitIfNeeded("stream", pending', committable', FALSE)
        /\ pending' > 0 => Keys(committable') # {}
    BY <1>12, <1>a, <2>1, <2>2, <2>3, <2>4, <2>5, <2>6, <2>7, <2>8, <2>9 DEF Ack, BaseInv,
          TypeOK, PendingIsTracked, Keys
  <2>11. CommittedCovered' /\ CheckpointCovered' /\ ResumeCovered'
    BY <1>12, <1>c DEF Ack
  <2>12. CommittableCovered'
    BY <1>12, <1>a, <2>1, <2>2, <2>3, <2>4, <2>5, <2>6, <2>7, <2>8, <2>9, <2>10 DEF Ack,
          BaseInv, TypeOK, CommittableCovered, Covered, CoveredNext, Grow, Keys, NoOffset
  <2>13. SentCovered'
    BY <1>a, <2>1, <2>2, <2>3, <2>4, <2>5, <2>6, <2>7, <2>8, <2>9, <2>10,
          CommitIfNeededCovered
  <2>14. RecordCovered'
    BY <1>12, <1>a, <2>1, <2>2, <2>3, <2>4, <2>5, <2>6, <2>7, <2>8, <2>9, <2>10 DEF Ack,
          BaseInv, TypeOK, RecordCovered, Covered, Grow
  <2>15. BatchCovered'
    BY <1>12, <1>a, <2>1, <2>2, <2>3, <2>4, <2>5, <2>6, <2>7, <2>8, <2>9, <2>10 DEF Ack,
          BaseInv, TypeOK, BatchCovered, Live, Done, Grow
  <2>16. PositionCovered'
    BY <1>12, <1>a, <2>1, <2>2, <2>3, <2>4, <2>5, <2>6, <2>7, <2>8, <2>9, <2>10 DEF Ack,
          BaseInv, TypeOK, PositionCovered, Live, Done, Grow
  <2>17. ProcessedCovered'
    BY <1>12, <1>a, <2>1, <2>2, <2>3, <2>4, <2>5, <2>6, <2>7, <2>8, <2>9, <2>10 DEF Ack,
          BaseInv, TypeOK, ProcessedCovered, Live, Done, Grow, Keys, NoOffset,
                RecordCovered, Covered, CoveredNext
  <2>18. FreshCovered'
    BY <1>12, <1>a, <2>1, <2>2, <2>3, <2>4, <2>5, <2>6, <2>7, <2>8, <2>9, <2>10 DEF Ack,
          BaseInv, TypeOK, FreshCovered, Covered, Grow, BatchEmpty
  <2> QED BY <2>11, <2>12, <2>13, <2>14, <2>15, <2>16, <2>17, <2>18
<1>13. CASE AckTransaction
  <2>1. cur \in Parts \X Nat
    BY <1>13, <1>a DEF AckTransaction, BaseInv, TypeOK, Delivering
  <2>2. cur[2] \in handled[cur[1]]
    BY <1>13, <1>a, <2>1 DEF AckTransaction, BaseInv, TypeOK, RecordCovered
  <2>3. CoveredNext(cur[1], cur[2] + 1)
    BY <1>13, <1>a, <2>1, <2>2 DEF AckTransaction, BaseInv, TypeOK, RecordCovered, Covered,
          CoveredNext, Grow
  <2>4. \A p \in Parts, i \in Nat : <<p, i>> = cur => i \in handled[p]
    BY <1>13, <1>a, <2>1, <2>2, <2>3 DEF AckTransaction, BaseInv, TypeOK
  <2>5. CheckpointCovered' /\ SentCovered' /\ ResumeCovered'
    BY <1>13, <1>c DEF AckTransaction
  <2>6. CommittedCovered'
    BY <1>13, <1>a, <2>1, <2>2, <2>3, <2>4 DEF AckTransaction, BaseInv, TypeOK,
          CommittedCovered, Covered, Grow, CoveredNext
  <2>7. CommittableCovered'
    BY <1>13, <1>a, <2>1, <2>2, <2>3, <2>4 DEF AckTransaction, BaseInv, TypeOK,
          CommittableCovered, Covered, CoveredNext, Grow, Keys, NoOffset
  <2>8. RecordCovered'
    BY <1>13, <1>a, <2>1, <2>2, <2>3, <2>4 DEF AckTransaction, BaseInv, TypeOK,
          RecordCovered, Covered, Grow
  <2>9. BatchCovered'
    BY <1>13, <1>a, <2>1, <2>2, <2>3, <2>4 DEF AckTransaction, BaseInv, TypeOK,
          BatchCovered, Live, Done, Grow
  <2>10. PositionCovered'
    BY <1>13, <1>a, <2>1, <2>2, <2>3, <2>4 DEF AckTransaction, BaseInv, TypeOK,
          PositionCovered, Live, Done, Grow
  <2>11. ProcessedCovered'
    BY <1>13, <1>a, <2>1, <2>2, <2>3, <2>4 DEF AckTransaction, BaseInv, TypeOK,
          ProcessedCovered, Live, Done, Grow, Keys, NoOffset, CoveredNext
  <2>12. FreshCovered'
    BY <1>13, <1>a, <2>1, <2>2, <2>3, <2>4 DEF AckTransaction, BaseInv, TypeOK,
          FreshCovered, Covered, Grow, BatchEmpty
  <2> QED BY <2>5, <2>6, <2>7, <2>8, <2>9, <2>10, <2>11, <2>12
<1>14. CASE Abort
  <2>1. cur \in Parts \X Nat
    BY <1>14, <1>a DEF Abort, BaseInv, TypeOK, Delivering
  <2>2. /\ CommittedCovered'
        /\ CheckpointCovered'
        /\ CommittableCovered'
        /\ SentCovered'
        /\ ResumeCovered'
    BY <1>14, <1>c DEF Abort
  <2>3. RecordCovered'
    BY <1>14, <1>a, <2>1 DEF Abort, BaseInv, TypeOK, RecordCovered, Covered, Grow
  <2>4. BatchCovered'
    BY <1>14, <1>a, <2>1 DEF Abort, BaseInv, TypeOK, BatchCovered, Live, Done, Grow
  <2>5. PositionCovered'
    BY <1>14, <1>a, <2>1 DEF Abort, BaseInv, TypeOK, PositionCovered, Live, Done, Grow
  <2>6. ProcessedCovered'
    BY <1>14, <1>a, <2>1 DEF Abort, BaseInv, TypeOK, ProcessedCovered, Live, Done, Grow,
          Keys, NoOffset
  <2>7. FreshCovered'
    BY <1>14, <1>a, <2>1 DEF Abort, BaseInv, TypeOK, FreshCovered, Covered, Grow, BatchEmpty
  <2> QED BY <2>2, <2>3, <2>4, <2>5, <2>6, <2>7
<1>15. CASE LateAck
  <2>1. "late" \in Tasks
    BY <1>15, <1>a DEF LateAck, BaseInv, TypeOK, Tasks
  <2>2. kept \in Parts \X Nat
    BY <1>15, <1>a, <2>1 DEF LateAck, BaseInv, TypeOK
  <2>3. CommittableCovered'
    BY <1>15, <1>a, <2>1, <2>2 DEF LateAck, BaseInv, TypeOK, CoveredNext,
          CommittableCovered, RecordCovered, Covered, Grow, Keys, NoOffset
  <2>4. PendingIsTracked' /\ committable' \in OffsetMap
    BY <1>15, <1>a, <2>1, <2>2, <2>3, <1>b DEF LateAck, BaseInv, TypeOK
  <2>5. \A p \in Keys(committable') : CoveredNext(p, committable'[p] + 1)
    BY <1>15, <1>a, <2>1, <2>2, <2>3, <2>4 DEF LateAck, BaseInv, TypeOK,
          CommittableCovered, Covered, CoveredNext, Keys
  <2>6. /\ CommitIfNeeded("late", pending', committable', FALSE)
        /\ pending' > 0 => Keys(committable') # {}
    BY <1>15, <1>a, <2>1, <2>2, <2>3, <2>4, <2>5 DEF LateAck, BaseInv, TypeOK,
          PendingIsTracked, Keys
  <2>7. /\ CommittedCovered'
        /\ CheckpointCovered'
        /\ ResumeCovered'
        /\ BatchCovered'
        /\ PositionCovered'
        /\ FreshCovered'
    BY <1>15, <1>c DEF LateAck
  <2>8. CommittableCovered'
    BY <1>15, <1>a, <2>1, <2>2, <2>3, <2>4, <2>5, <2>6 DEF LateAck, BaseInv, TypeOK,
          CommittableCovered, Covered, CoveredNext, Grow, Keys, NoOffset
  <2>9. SentCovered'
    BY <1>a, <2>1, <2>2, <2>3, <2>4, <2>5, <2>6, CommitIfNeededCovered
  <2>10. RecordCovered'
    BY <1>15, <1>a, <2>1, <2>2, <2>3, <2>4, <2>5, <2>6 DEF LateAck, BaseInv, TypeOK,
          RecordCovered, Covered, Grow
  <2>11. ProcessedCovered'
    BY <1>15, <1>a, <2>1, <2>2, <2>3, <2>4, <2>5, <2>6 DEF LateAck, BaseInv, TypeOK,
          ProcessedCovered, Live, Done, Grow, Keys, NoOffset, RecordCovered, Covered,
                CoveredNext
  <2> QED BY <2>7, <2>8, <2>9, <2>10, <2>11
<1>16. CASE StreamCommitReturn
  <2>1. "stream" \in Tasks
    BY <1>16, <1>a DEF StreamCommitReturn, BaseInv, TypeOK, Tasks
  <2>2. /\ CommittedCovered'
        /\ CheckpointCovered'
        /\ CommittableCovered'
        /\ ResumeCovered'
    BY <1>16, <1>c DEF StreamCommitReturn
  <2>3. SentCovered'
    BY <1>16, <1>a, <2>1, CommitReturnCovered DEF StreamCommitReturn, BaseInv, TypeOK,
          SentCovered, CommitReturn
  <2>4. RecordCovered'
    BY <1>16, <1>a, <2>1 DEF StreamCommitReturn, BaseInv, TypeOK, RecordCovered, Covered,
          Grow, Delivering
  <2>5. BatchCovered'
    BY <1>16, <1>a, <2>1 DEF StreamCommitReturn, BaseInv, TypeOK, BatchCovered, Live, Done,
          Grow
  <2>6. PositionCovered'
    BY <1>16, <1>a, <2>1 DEF StreamCommitReturn, BaseInv, TypeOK, PositionCovered, Live,
          Done, Grow
  <2>7. ProcessedCovered'
    BY <1>16, <1>a, <2>1 DEF StreamCommitReturn, BaseInv, TypeOK, ProcessedCovered, Live,
          Done, Grow, Keys, NoOffset
  <2>8. FreshCovered'
    BY <1>16, <1>a, <2>1 DEF StreamCommitReturn, BaseInv, TypeOK, FreshCovered, Covered,
          Grow, BatchEmpty
  <2> QED BY <2>2, <2>3, <2>4, <2>5, <2>6, <2>7, <2>8
<1>17. CASE StreamFlush
  <2>1. "stream" \in Tasks
    BY <1>17, <1>a DEF StreamFlush, BaseInv, TypeOK, Tasks
  <2>2. \A p \in Keys(committable) : CoveredNext(p, committable[p] + 1)
    BY <1>17, <1>a, <2>1 DEF StreamFlush, BaseInv, TypeOK, CommittableCovered, Covered,
          CoveredNext, Grow, Keys
  <2>3. PendingIsTracked /\ committable \in OffsetMap
    BY <1>17, <1>a, <2>1, <2>2 DEF StreamFlush, BaseInv, TypeOK
  <2>4. /\ CommittedCovered'
        /\ CheckpointCovered'
        /\ CommittableCovered'
        /\ ResumeCovered'
    BY <1>17, <1>c DEF StreamFlush
  <2>5. SentCovered'
    BY <1>17, <1>a, <2>1, <2>2, <2>3, CommitIfNeededCovered DEF StreamFlush, BaseInv,
          TypeOK, SentCovered, PendingIsTracked
  <2>6. RecordCovered'
    BY <1>17, <1>a, <2>1, <2>2, <2>3 DEF StreamFlush, BaseInv, TypeOK, RecordCovered,
          Covered, Grow, FlushPhase
  <2>7. BatchCovered'
    BY <1>17, <1>a, <2>1, <2>2, <2>3 DEF StreamFlush, BaseInv, TypeOK, BatchCovered, Live,
          Done, Grow, FlushPhase
  <2>8. PositionCovered'
    BY <1>17, <1>a, <2>1, <2>2, <2>3 DEF StreamFlush, BaseInv, TypeOK, PositionCovered,
          Live, Done, Grow, FlushPhase
  <2>9. ProcessedCovered'
    BY <1>17, <1>a, <2>1, <2>2, <2>3 DEF StreamFlush, BaseInv, TypeOK, ProcessedCovered,
          Live, Done, Grow, Keys, NoOffset, FlushPhase
  <2>10. FreshCovered'
    BY <1>17, <1>a, <2>1, <2>2, <2>3 DEF StreamFlush, BaseInv, TypeOK, FreshCovered,
          Covered, Grow, BatchEmpty, FlushPhase
  <2> QED BY <2>4, <2>5, <2>6, <2>7, <2>8, <2>9, <2>10
<1>18. CASE StreamFlushReturn
  <2>1. "stream" \in Tasks
    BY <1>18, <1>a DEF StreamFlushReturn, BaseInv, TypeOK, Tasks
  <2>2. /\ CommittedCovered'
        /\ CheckpointCovered'
        /\ CommittableCovered'
        /\ ResumeCovered'
    BY <1>18, <1>c DEF StreamFlushReturn
  <2>3. SentCovered'
    BY <1>18, <1>a, <2>1, CommitReturnCovered DEF StreamFlushReturn, BaseInv, TypeOK,
          SentCovered, CommitReturn
  <2>4. RecordCovered'
    BY <1>18, <1>a, <2>1 DEF StreamFlushReturn, BaseInv, TypeOK, RecordCovered, Covered,
          Grow, FlushPhase
  <2>5. BatchCovered'
    BY <1>18, <1>a, <2>1 DEF StreamFlushReturn, BaseInv, TypeOK, BatchCovered, Live, Done,
          Grow, FlushPhase
  <2>6. PositionCovered'
    BY <1>18, <1>a, <2>1 DEF StreamFlushReturn, BaseInv, TypeOK, PositionCovered, Live,
          Done, Grow, FlushPhase
  <2>7. ProcessedCovered'
    BY <1>18, <1>a, <2>1 DEF StreamFlushReturn, BaseInv, TypeOK, ProcessedCovered, Live,
          Done, Grow, Keys, NoOffset, FlushPhase
  <2>8. FreshCovered'
    BY <1>18, <1>a, <2>1 DEF StreamFlushReturn, BaseInv, TypeOK, FreshCovered, Covered,
          Grow, BatchEmpty, FlushPhase
  <2> QED BY <2>2, <2>3, <2>4, <2>5, <2>6, <2>7, <2>8
<1>19. CASE CloseBegin
  <2>1. "close" \in Tasks
    BY <1>19, <1>a DEF CloseBegin, BaseInv, TypeOK, Tasks
  <2>2. \A p \in Keys(committable) : CoveredNext(p, committable[p] + 1)
    BY <1>19, <1>a, <2>1 DEF CloseBegin, BaseInv, TypeOK, CommittableCovered, Covered,
          CoveredNext, Grow, Keys
  <2>3. PendingIsTracked /\ committable \in OffsetMap
    BY <1>19, <1>a, <2>1, <2>2 DEF CloseBegin, BaseInv, TypeOK
  <2>4. /\ CommittedCovered'
        /\ CheckpointCovered'
        /\ CommittableCovered'
        /\ ResumeCovered'
        /\ RecordCovered'
        /\ BatchCovered'
        /\ PositionCovered'
        /\ ProcessedCovered'
        /\ FreshCovered'
    BY <1>19, <1>c DEF CloseBegin
  <2>5. SentCovered'
    BY <1>19, <1>a, <2>1, <2>2, <2>3, CallCommitCovered DEF CloseBegin, BaseInv, TypeOK,
          SentCovered, PendingIsTracked, CommitNeeded
  <2> QED BY <2>4, <2>5
<1>20. CASE CloseReturn
  <2>1. assigned' = {} /\ sent' = [t \in Tasks |-> NoOffsets]
    BY <1>20, <1>a DEF CloseReturn, BaseInv, TypeOK, StopConsumer
  <2>2. /\ CommittedCovered'
        /\ CheckpointCovered'
        /\ CommittableCovered'
        /\ ResumeCovered'
        /\ RecordCovered'
        /\ BatchCovered'
        /\ ProcessedCovered'
    BY <1>20, <1>c DEF CloseReturn
  <2>3. SentCovered'
    BY <1>20, <1>a, <2>1 DEF CloseReturn, BaseInv, TypeOK, SentCovered, Keys, NoOffsets
  <2>4. PositionCovered'
    BY <1>20, <1>a, <2>1 DEF CloseReturn, BaseInv, TypeOK, PositionCovered, Live, Done, Grow
  <2>5. FreshCovered'
    BY <1>20, <1>a, <2>1 DEF CloseReturn, BaseInv, TypeOK, FreshCovered, Covered, Grow,
          BatchEmpty
  <2> QED BY <2>2, <2>3, <2>4, <2>5
<1>21. CASE Crash
  <2>1. assigned' = {} /\ sent' = [t \in Tasks |-> NoOffsets]
    BY <1>21, <1>a DEF Crash, BaseInv, TypeOK, StopConsumer
  <2>2. CommittedCovered' /\ CheckpointCovered'
    BY <1>21, <1>c DEF Crash
  <2>3. CommittableCovered'
    BY <1>21, <1>a, <2>1 DEF Crash, BaseInv, TypeOK, CommittableCovered, Covered,
          CoveredNext, Grow, Keys, NoOffset, NoOffsets
  <2>4. SentCovered'
    BY <1>21, <1>a, <2>1 DEF Crash, BaseInv, TypeOK, SentCovered, Keys, NoOffsets
  <2>5. ResumeCovered'
    BY <1>21, <1>a, <2>1 DEF Crash, BaseInv, TypeOK, ResumeCovered, Covered, Grow, Keys,
          NoOffset, NoOffsets
  <2>6. RecordCovered'
    BY <1>21, <1>a, <2>1 DEF Crash, BaseInv, TypeOK, RecordCovered, Covered, Grow
  <2>7. BatchCovered'
    BY <1>21, <1>a, <2>1 DEF Crash, BaseInv, TypeOK, BatchCovered, Live, Done, Grow
  <2>8. PositionCovered'
    BY <1>21, <1>a, <2>1 DEF Crash, BaseInv, TypeOK, PositionCovered, Live, Done, Grow
  <2>9. ProcessedCovered'
    BY <1>21, <1>a, <2>1 DEF Crash, BaseInv, TypeOK, ProcessedCovered, Live, Done, Grow,
          Keys, NoOffset
  <2>10. FreshCovered'
    BY <1>21, <1>a, <2>1 DEF Crash, BaseInv, TypeOK, FreshCovered, Covered, Grow, BatchEmpty
  <2> QED BY <2>2, <2>3, <2>4, <2>5, <2>6, <2>7, <2>8, <2>9, <2>10
<1>22. CASE Revoke
  <2>1. "rebalance" \in Tasks
    BY <1>22, <1>a DEF Revoke, BaseInv, TypeOK, Tasks
  <2>2. \A p \in Keys(committable) : CoveredNext(p, committable[p] + 1)
    BY <1>22, <1>a, <2>1 DEF Revoke, BaseInv, TypeOK, CommittableCovered, Covered,
          CoveredNext, Grow, Keys
  <2>3. PendingIsTracked /\ committable \in OffsetMap
    BY <1>22, <1>a, <2>1, <2>2 DEF Revoke, BaseInv, TypeOK
  <2>4. \A p \in Parts : committable'[p] \in {NoOffset, committable[p]} /\ processed'[p] \in {NoOffset, processed[p]}
    BY <1>22, <1>a, <2>1, <2>2, <2>3, ZenonT(40) DEF Revoke, BaseInv, TypeOK, DropRevoked
  <2>5. assigned' \subseteq assigned
    BY <1>22, <1>a, <2>1, <2>2, <2>3, <2>4 DEF Revoke, BaseInv, TypeOK
  <2>6. /\ CommittedCovered'
        /\ CheckpointCovered'
        /\ ResumeCovered'
        /\ RecordCovered'
        /\ BatchCovered'
    BY <1>22, <1>c DEF Revoke
  <2>7. CommittableCovered'
    BY <1>22, <1>a, <2>1, <2>2, <2>3, <2>4, <2>5 DEF Revoke, BaseInv, TypeOK,
          CommittableCovered, Covered, CoveredNext, Grow, Keys, NoOffset
  <2>8. SentCovered'
    BY <1>22, <1>a, <2>1, <2>2, <2>3, <2>4, <2>5, CommitIfNeededCovered DEF Revoke,
          BaseInv, TypeOK, SentCovered, PendingIsTracked
  <2>9. PositionCovered'
    BY <1>22, <1>a, <2>1, <2>2, <2>3, <2>4, <2>5 DEF Revoke, BaseInv, TypeOK,
          PositionCovered, Live, Done, Grow
  <2>10. ProcessedCovered'
    BY <1>22, <1>a, <2>1, <2>2, <2>3, <2>4, <2>5 DEF Revoke, BaseInv, TypeOK,
          ProcessedCovered, Live, Done, Grow, Keys, NoOffset
  <2>11. FreshCovered'
    BY <1>22, <1>a, <2>1, <2>2, <2>3, <2>4, <2>5 DEF Revoke, BaseInv, TypeOK, FreshCovered,
          Covered, Grow, BatchEmpty
  <2> QED BY <2>6, <2>7, <2>8, <2>9, <2>10, <2>11
<1>23. CASE RevokeReturn
  <2>1. "rebalance" \in Tasks
    BY <1>23, <1>a DEF RevokeReturn, BaseInv, TypeOK, Tasks
  <2>2. \A p \in Parts : committable'[p] \in {NoOffset, committable[p]} /\ processed'[p] \in {NoOffset, processed[p]}
    BY <1>23, <1>a, <2>1 DEF RevokeReturn, BaseInv, TypeOK, DropRevoked
  <2>3. assigned' \subseteq assigned
    BY <1>23, <1>a, <2>1, <2>2 DEF RevokeReturn, BaseInv, TypeOK
  <2>4. /\ CommittedCovered'
        /\ CheckpointCovered'
        /\ ResumeCovered'
        /\ RecordCovered'
        /\ BatchCovered'
    BY <1>23, <1>c DEF RevokeReturn
  <2>5. CommittableCovered'
    BY <1>23, <1>a, <2>1, <2>2, <2>3 DEF RevokeReturn, BaseInv, TypeOK, CommittableCovered,
          Covered, CoveredNext, Grow, Keys, NoOffset
  <2>6. SentCovered'
    BY <1>23, <1>a, <2>1, <2>2, <2>3, CommitReturnCovered DEF RevokeReturn, BaseInv,
          TypeOK, SentCovered, CommitReturn
  <2>7. PositionCovered'
    BY <1>23, <1>a, <2>1, <2>2, <2>3 DEF RevokeReturn, BaseInv, TypeOK, PositionCovered,
          Live, Done, Grow
  <2>8. ProcessedCovered'
    BY <1>23, <1>a, <2>1, <2>2, <2>3 DEF RevokeReturn, BaseInv, TypeOK, ProcessedCovered,
          Live, Done, Grow, Keys, NoOffset
  <2>9. FreshCovered'
    BY <1>23, <1>a, <2>1, <2>2, <2>3 DEF RevokeReturn, BaseInv, TypeOK, FreshCovered,
          Covered, Grow, BatchEmpty
  <2> QED BY <2>4, <2>5, <2>6, <2>7, <2>8, <2>9
<1>24. CASE CommitNow
  <2>1. "operator" \in Tasks
    BY <1>24, <1>a DEF CommitNow, BaseInv, TypeOK, Tasks
  <2>2. \A p \in Keys(committable) : CoveredNext(p, committable[p] + 1)
    BY <1>24, <1>a, <2>1 DEF CommitNow, BaseInv, TypeOK, CommittableCovered, Covered,
          CoveredNext, Grow, Keys
  <2>3. PendingIsTracked /\ committable \in OffsetMap
    BY <1>24, <1>a, <2>1, <2>2 DEF CommitNow, BaseInv, TypeOK
  <2>4. /\ CommittedCovered'
        /\ CheckpointCovered'
        /\ CommittableCovered'
        /\ ResumeCovered'
        /\ RecordCovered'
        /\ BatchCovered'
        /\ PositionCovered'
        /\ ProcessedCovered'
        /\ FreshCovered'
    BY <1>24, <1>c DEF CommitNow
  <2>5. SentCovered'
    BY <1>24, <1>a, <2>1, <2>2, <2>3, CallCommitCovered DEF CommitNow, Gated, BaseInv, TypeOK,
          SentCovered
  <2> QED BY <2>4, <2>5
<1>25. ASSUME NEW p \in Parts, PoisonRecord(p) PROVE HandledInv'
  <2>1. /\ CommittedCovered'
        /\ CheckpointCovered'
        /\ CommittableCovered'
        /\ SentCovered'
        /\ ResumeCovered'
    BY <1>25, <1>c DEF PoisonRecord
  <2>2. RecordCovered'
    BY <1>25, <1>a DEF PoisonRecord, BaseInv, TypeOK, RecordCovered, Covered, Grow
  <2>3. BatchCovered'
    BY <1>25, <1>a DEF PoisonRecord, BaseInv, TypeOK, BatchCovered, Live, Done, Grow
  <2>4. PositionCovered'
    BY <1>25, <1>a DEF PoisonRecord, BaseInv, TypeOK, PositionCovered, Live, Done, Grow
  <2>5. ProcessedCovered'
    BY <1>25, <1>a DEF PoisonRecord, BaseInv, TypeOK, ProcessedCovered, Live, Done, Grow,
          Keys, NoOffset
  <2>6. FreshCovered'
    BY <1>25, <1>a DEF PoisonRecord, BaseInv, TypeOK, FreshCovered, Covered, Grow,
          BatchEmpty
  <2> QED BY <2>1, <2>2, <2>3, <2>4, <2>5, <2>6
<1>26. ASSUME NEW p \in Parts, DropRecord(p) PROVE HandledInv'
  <2>1. "stream" \in Tasks
    BY <1>26, <1>a DEF DropRecord, BaseInv, TypeOK, Tasks
  <2>2. cur = NoRecord
    BY <1>26, <1>a, <2>1 DEF DropRecord, BaseInv, TypeOK, Delivering
  <2>3. CoveredNext(p, lo[p] + 1)
    BY <1>26, <1>a, <2>1, <2>2 DEF DropRecord, BaseInv, TypeOK, BatchCovered, Live, Done,
          CoveredNext, Grow
  <2>4. /\ committable' = [committable EXCEPT ![p] = lo[p]]
        /\ processed' = [processed EXCEPT ![p] = lo[p]]
        /\ stream' \in {"ready", "committing"}
        /\ pending' = Counted(1)
        /\ CommitIfNeeded("stream", pending', committable', FALSE)
    BY <1>26, <1>a, <2>1, <2>2, <2>3 DEF DropRecord, BaseInv, TypeOK, MarkDelivered
  <2>5. CommittableCovered'
    BY <1>26, <1>a, <2>1, <2>2, <2>3, <2>4 DEF DropRecord, BaseInv, TypeOK, CoveredNext,
          CommittableCovered, Covered, Grow, Keys, NoOffset
  <2>6. PendingIsTracked' /\ committable' \in OffsetMap
    BY <1>26, <1>a, <2>1, <2>2, <2>3, <2>4, <2>5, <1>b DEF DropRecord, BaseInv, TypeOK
  <2>7. \A q \in Keys(committable') : CoveredNext(q, committable'[q] + 1)
    BY <1>26, <1>a, <2>1, <2>2, <2>3, <2>4, <2>5, <2>6 DEF DropRecord, BaseInv, TypeOK,
          CommittableCovered, Covered, CoveredNext, Keys
  <2>8. /\ CommitIfNeeded("stream", pending', committable', FALSE)
        /\ pending' > 0 => Keys(committable') # {}
    BY <1>26, <1>a, <2>1, <2>2, <2>3, <2>4, <2>5, <2>6, <2>7 DEF DropRecord, BaseInv,
          TypeOK, PendingIsTracked, Keys
  <2>9. \A q \in Parts, i \in Nat : lo[q] <= i /\ i < hi[q] => i \in handled'[q] \/ lo'[q] <= i
    BY <1>26, <1>a, <2>1, <2>2, <2>3, <2>4, <2>5, <2>6, <2>7, <2>8 DEF DropRecord, BaseInv,
          TypeOK
  <2>10. UNCHANGED <<assigned, position, hi, cur>> /\ assigned \subseteq Parts /\ stream = "ready"
    BY <1>26, <1>a, <2>1, <2>2, <2>3, <2>4, <2>5, <2>6, <2>7, <2>8, <2>9 DEF DropRecord,
          BaseInv, TypeOK
  <2>11. CommittedCovered' /\ CheckpointCovered' /\ ResumeCovered'
    BY <1>26, <1>c DEF DropRecord
  <2>12. CommittableCovered'
    BY <1>26, <1>a, <2>1, <2>2, <2>3, <2>4, <2>5, <2>6, <2>7, <2>8, <2>9,
          <2>10 DEF DropRecord, BaseInv, TypeOK, CommittableCovered, Covered, CoveredNext,
                Grow, Keys, NoOffset
  <2>13. SentCovered'
    BY <1>a, <2>1, <2>2, <2>3, <2>4, <2>5, <2>6, <2>7, <2>8, <2>9, <2>10,
          CommitIfNeededCovered
  <2>14. RecordCovered'
    BY <1>26, <1>a, <2>1, <2>2, <2>3, <2>4, <2>5, <2>6, <2>7, <2>8, <2>9,
          <2>10 DEF DropRecord, BaseInv, TypeOK, RecordCovered, Covered, Grow
  <2>15. BatchCovered'
    BY <1>26, <1>a, <2>1, <2>2, <2>3, <2>4, <2>5, <2>6, <2>7, <2>8, <2>9,
          <2>10 DEF DropRecord, BaseInv, TypeOK, BatchCovered, Live, Done, Grow
  <2>16. PositionCovered'
    BY <1>a, <2>1, <2>2, <2>3, <2>4, <2>5, <2>6, <2>7, <2>8, <2>9, <2>10 DEF HandledInv,
          PositionCovered, Live, Done, Grow
  <2>17. ProcessedCovered'
    BY <1>26, <1>a, <2>1, <2>2, <2>3, <2>4, <2>5, <2>6, <2>7, <2>8, <2>9,
          <2>10 DEF DropRecord, BaseInv, TypeOK, ProcessedCovered, Live, Done, Grow, Keys,
                NoOffset, CoveredNext
  <2>18. FreshCovered'
    BY <1>26, <1>a, <2>1, <2>2, <2>3, <2>4, <2>5, <2>6, <2>7, <2>8, <2>9,
          <2>10 DEF DropRecord, BaseInv, TypeOK, FreshCovered, Covered, Grow, BatchEmpty
  <2> QED BY <2>11, <2>12, <2>13, <2>14, <2>15, <2>16, <2>17, <2>18
<1>27. ASSUME NEW p \in Parts, Emit(p) PROVE HandledInv'
  <2>1. cur = NoRecord /\ cur' = <<p, lo[p]>> /\ stream' = "yielded"
    BY <1>27, <1>a DEF Emit, BaseInv, TypeOK, Delivering
  <2>2. /\ CommittedCovered'
        /\ CheckpointCovered'
        /\ CommittableCovered'
        /\ SentCovered'
        /\ ResumeCovered'
    BY <1>27, <1>c DEF Emit
  <2>3. RecordCovered'
    BY <1>27, <1>a, <2>1 DEF Emit, BaseInv, TypeOK, RecordCovered, Covered, Grow,
          BatchCovered, Live, Done
  <2>4. BatchCovered'
    BY <1>27, <1>a, <2>1 DEF Emit, BaseInv, TypeOK, BatchCovered, Live, Done, Grow
  <2>5. PositionCovered'
    <3>1. /\ lo \in [Parts -> Nat] /\ hi \in [Parts -> Nat] /\ position \in [Parts -> Nat]
          /\ assigned \subseteq Parts
      BY <1>a DEF BaseInv, TypeOK
    <3>2. /\ lo' = [lo EXCEPT ![p] = @ + 1]
          /\ UNCHANGED <<hi, position, assigned, handled, skipped, discarded>>
      BY <1>27 DEF Emit, groupVars, historyVars
    <3>3. Live
      BY <1>27 DEF Emit, Live
    <3>4. \A q \in assigned : \A i \in Nat :
            i < position[q] => Done(q, i) \/ (lo[q] <= i /\ i < hi[q])
      <4>1. cur \notin Parts \X Nat
        BY <2>1, ConstantAssumption
      <4>2. \A q \in assigned : \A i \in Nat : <<q, i>> # cur
        BY <3>1, <4>1
      <4> QED BY <3>3, <4>2 DEF PositionCovered, HandledInv
    <3>5. \A q \in assigned : \A i \in Nat :
            i < position[q] => \/ Done(q, i)
                               \/ lo'[q] <= i /\ i < hi[q]
                               \/ <<q, i>> = cur'
      <4> SUFFICES ASSUME NEW q \in assigned, NEW i \in Nat, i < position[q]
                   PROVE  \/ Done(q, i)
                          \/ lo'[q] <= i /\ i < hi[q]
                          \/ <<q, i>> = cur'
        OBVIOUS
      <4>1. q \in Parts /\ (Done(q, i) \/ (lo[q] <= i /\ i < hi[q]))
        BY <3>1, <3>4
      <4>2. CASE q # p
        BY <3>1, <3>2, <4>1, <4>2
      <4>3. CASE q = p /\ i = lo[p]
        BY <2>1, <4>3
      <4>4. CASE q = p /\ i # lo[p]
        <5>1. lo'[q] = lo[q] + 1 /\ lo[q] \in Nat
          BY <3>1, <3>2, <4>4
        <5> QED BY <4>1, <4>4, <5>1
      <4> QED BY <4>2, <4>3, <4>4
    <3> QED BY <3>2, <3>5 DEF PositionCovered, Done
  <2>6. ProcessedCovered'
    BY <1>27, <1>a, <2>1 DEF Emit, BaseInv, TypeOK, ProcessedCovered, Live, Done, Grow,
          Keys, NoOffset, BatchCovered
  <2>7. FreshCovered'
    BY <1>27, <1>a, <2>1 DEF Emit, BaseInv, TypeOK, FreshCovered, Covered, Grow, BatchEmpty
  <2> QED BY <2>2, <2>3, <2>4, <2>5, <2>6, <2>7
<1>28. ASSUME NEW p \in Parts, OtherMember(p) PROVE HandledInv'
  <2>1. /\ CheckpointCovered'
        /\ CommittableCovered'
        /\ SentCovered'
        /\ ResumeCovered'
        /\ RecordCovered'
        /\ BatchCovered'
        /\ PositionCovered'
        /\ ProcessedCovered'
        /\ FreshCovered'
    BY <1>28, <1>c DEF OtherMember
  <2>2. CommittedCovered'
    BY <1>28, <1>a DEF OtherMember, BaseInv, TypeOK, CommittedCovered, Covered, Grow
  <2> QED BY <2>1, <2>2
<1>29. ASSUME NEW t \in Tasks, BrokerCommit(t) PROVE HandledInv'
  <2>1. /\ CheckpointCovered'
        /\ CommittableCovered'
        /\ SentCovered'
        /\ ResumeCovered'
        /\ RecordCovered'
        /\ BatchCovered'
        /\ PositionCovered'
        /\ ProcessedCovered'
        /\ FreshCovered'
    BY <1>29, <1>c DEF BrokerCommit
  <2>2. CommittedCovered'
    BY <1>29, <1>a DEF BrokerCommit, BaseInv, TypeOK, CommittedCovered, Covered, Grow,
          SentCovered, Keys
  <2> QED BY <2>1, <2>2
<1>30. ASSUME NEW t \in Tasks, CommitFails(t) PROVE HandledInv'
  <2>1. /\ CommittedCovered'
        /\ CheckpointCovered'
        /\ CommittableCovered'
        /\ SentCovered'
        /\ ResumeCovered'
        /\ RecordCovered'
        /\ BatchCovered'
        /\ PositionCovered'
        /\ ProcessedCovered'
        /\ FreshCovered'
    BY <1>30, <1>c DEF CommitFails
  <2> QED BY <2>1
<1>31. ASSUME NEW t \in {"operator", "late"}, PlainReturn(t) PROVE HandledInv'
  <2>1. t \in Tasks
    BY <1>31, <1>a DEF PlainReturn, BaseInv, TypeOK, Tasks
  <2>2. /\ CommittedCovered'
        /\ CheckpointCovered'
        /\ CommittableCovered'
        /\ ResumeCovered'
        /\ RecordCovered'
        /\ BatchCovered'
        /\ PositionCovered'
        /\ ProcessedCovered'
        /\ FreshCovered'
    BY <1>31, <1>c DEF PlainReturn
  <2>3. SentCovered'
    BY <1>31, <1>a, <2>1, CommitReturnCovered DEF PlainReturn, BaseInv, TypeOK,
          SentCovered, CommitReturn
  <2> QED BY <2>2, <2>3
<1>32. ASSUME NEW S \in SUBSET config.parts, Assign(S) PROVE HandledInv'
  <2>1. /\ CommittedCovered'
        /\ CheckpointCovered'
        /\ CommittableCovered'
        /\ SentCovered'
        /\ ResumeCovered'
        /\ RecordCovered'
        /\ BatchCovered'
        /\ ProcessedCovered'
    BY <1>32, <1>c DEF Assign
  <2>4. S \subseteq Parts
    BY DEF BaseInv, TypeOK, Config
  <2>2. PositionCovered'
    BY <1>32, <1>a, <2>4 DEF Assign, BaseInv, TypeOK, PositionCovered, Live, Done, Grow,
          CommittedCovered, Covered
  <2>3. FreshCovered'
    BY <1>32, <1>a, <2>4 DEF Assign, BaseInv, TypeOK, FreshCovered, Covered, Grow, BatchEmpty,
          CommittedCovered
  <2> QED BY <2>1, <2>2, <2>3
<1>33. ASSUME NEW p \in Parts, NEW o \in 0..End[p], NEW e \in BOOLEAN, Seek(p, o, e) PROVE HandledInv'
  <2>1. /\ CommittedCovered'
        /\ CheckpointCovered'
        /\ SentCovered'
        /\ RecordCovered'
        /\ BatchCovered'
    BY <1>33, <1>c DEF Seek
  <2>2. CommittableCovered'
    BY <1>33, <1>a DEF Seek, BaseInv, TypeOK, CommittableCovered, Covered, CoveredNext,
          Grow, Keys, NoOffset, DiscardTracking, NoOffsets
  <2>3. ResumeCovered'
    BY <1>33, <1>a DEF Seek, BaseInv, TypeOK, ResumeCovered, Covered, Grow, Keys, NoOffset,
          NoOffsets
  <2>4. PositionCovered'
    BY <1>33, <1>a DEF Seek, BaseInv, TypeOK, PositionCovered, Live, Done, Grow
  <2>5. ProcessedCovered'
    BY <1>33, <1>a DEF Seek, BaseInv, TypeOK, ProcessedCovered, Live, Done, Grow, Keys,
          NoOffset, DiscardTracking, NoOffsets
  <2>6. FreshCovered'
    BY <1>33, <1>a DEF Seek, BaseInv, TypeOK, FreshCovered, Covered, Grow, BatchEmpty
  <2> QED BY <2>1, <2>2, <2>3, <2>4, <2>5, <2>6
<1>35. CASE AutoCommit
  BY <1>35 DEF AutoCommit, Gated
<1>34. CASE UNCHANGED vars
  BY <1>34, <1>c DEF vars
<1> QED
  BY <1>1, <1>2, <1>3, <1>4, <1>5, <1>6, <1>7, <1>8, <1>9, <1>10, <1>11, <1>12, <1>13,
        <1>14, <1>15, <1>16, <1>17, <1>18, <1>19, <1>20, <1>21, <1>22, <1>23, <1>24, <1>25,
              <1>26, <1>27, <1>28, <1>29, <1>30, <1>31, <1>32, <1>33, <1>34, <1>35 DEF Next, Step,
                    StreamStep, SessionStep

LEMMA GatedStays ==
    ASSUME [Next]_vars
    PROVE  Gated' = Gated
BY DEF Next, vars, Gated

LEMMA HandledInit == Init => HandledInv
<1> HAVE Init
<1>1. config \in Config
  BY DEF Init
<1>2. config.before \in OffsetMap
  BY <1>1 DEF Config
<1>6. /\ committed = [p \in Parts |-> config.before[p] + 1]
      /\ handled = [p \in Parts |-> 0..config.before[p]]
      /\ saved = config.before
  BY DEF Init
<1>7. ASSUME NEW p \in Parts PROVE Covered(p, config.before[p] + 1)
  <2>1. config.before[p] \in Int
    BY <1>2 DEF OffsetMap, NoOffset
  <2>2. handled[p] = 0..config.before[p]
    BY <1>6
  <2> QED BY <2>1, <2>2 DEF Covered
<1>8. CommittedCovered
  <2>1. \A p \in Parts : committed[p] = config.before[p] + 1
    BY <1>6
  <2> QED BY <1>7, <2>1 DEF CommittedCovered
<1>9. CheckpointCovered
  BY <1>6, <1>7 DEF CheckpointCovered, Keys
<1>4. CommittableCovered /\ SentCovered /\ ResumeCovered
  BY DEF Init, CommittableCovered, SentCovered, ResumeCovered, Keys, NoOffsets, NoOffset
<1>5. RecordCovered /\ BatchCovered /\ PositionCovered /\ ProcessedCovered /\ FreshCovered
  BY DEF Init, RecordCovered, BatchCovered, PositionCovered, ProcessedCovered, FreshCovered,
     Live, Keys, NoOffsets, NoOffset
<1> QED BY <1>4, <1>5, <1>8, <1>9 DEF HandledInv

\* At-least-once: whatever the group commits, every record below it was handled,
\* skipped by an operator seek or thrown away by the positioning probe, through
\* rebalances, stale batches, failed commits, crashes and restarts, unless
\* auto-commit or an operator commits bare fetch positions.
THEOREM AtLeastOnce == Spec => []CommittedIsHandled
<1>1. Init => BaseInv /\ (Gated => HandledInv)
  BY BaseInit, HandledInit
<1>2. BaseInv /\ (Gated => HandledInv) /\ [Next]_vars => BaseInv' /\ (Gated => HandledInv)'
  BY BaseStep, HandledStep, GatedStays
<1>3. (Gated => HandledInv) => CommittedIsHandled
  BY DEF HandledInv, CommittedIsHandled
<1> QED BY <1>1, <1>2, <1>3, PTL DEF Spec

\* Nor does the saved checkpoint pass such a record, so resuming at offset + 1
\* loses nothing more than the probe has lost.
THEOREM CheckpointSafe == Spec => []CheckpointIsHandled
<1>1. Init => BaseInv /\ (Gated => HandledInv)
  BY BaseInit, HandledInit
<1>2. BaseInv /\ (Gated => HandledInv) /\ [Next]_vars => BaseInv' /\ (Gated => HandledInv)'
  BY BaseStep, HandledStep, GatedStays
<1>3. (Gated => HandledInv) => CheckpointIsHandled
  BY DEF HandledInv, CheckpointIsHandled
<1> QED BY <1>1, <1>2, <1>3, PTL DEF Spec
=============================================================================
