---------------------- MODULE RedisStreamSourceProofs ----------------------
(***************************************************************************)
(* Proofs about RedisStreamSource: types, at-least-once delivery and the   *)
(* bookkeeping of acknowledgements, for any consumers and any stream.      *)
(***************************************************************************)
EXTENDS RedisStreamSource, TLAPS

-----------------------------------------------------------------------------
(* Operators of the model.                                                 *)

\* XAUTOCLAIM hands out idle entries only.
LEMMA ClaimedAreIdle ==
    ASSUME NEW c PROVE ClaimedEntries(c) \subseteq idle
  BY DEF ClaimedEntries, LeastN

\* The ids of an empty, an extended and a concatenated list of acknowledgements.
LEMMA IdsEmpty == Ids(<<>>) = {}
  BY DEF Ids

LEMMA IdsAppend ==
    ASSUME NEW S, NEW s \in Seq(S), NEW e \in S
    PROVE  Ids(Append(s, e)) = Ids(s) \cup {e}
  <1>1. \A x : x \in Ids(Append(s, e)) => x \in Ids(s) \cup {e}
    BY DEF Ids
  <1>2. \A x \in Ids(s) : x \in Ids(Append(s, e))
    BY DEF Ids
  <1>3. e \in Ids(Append(s, e))
    <2>1. Append(s, e)[Len(s) + 1] = e /\ Len(s) + 1 \in DOMAIN Append(s, e)
      OBVIOUS
    <2> QED  BY <2>1 DEF Ids
  <1> QED  BY <1>1, <1>2, <1>3

LEMMA IdsConcat ==
    ASSUME NEW S, NEW s \in Seq(S), NEW u \in Seq(S)
    PROVE  Ids(s \o u) = Ids(s) \cup Ids(u)
  <1>1. \A x : x \in Ids(s \o u) => x \in Ids(s) \cup Ids(u)
    BY DEF Ids
  <1>2. \A x \in Ids(s) : x \in Ids(s \o u)
    BY DEF Ids
  <1>3. \A x \in Ids(u) : x \in Ids(s \o u)
    <2> SUFFICES ASSUME NEW i \in DOMAIN u PROVE u[i] \in Ids(s \o u)
      BY DEF Ids
    <2>1. (s \o u)[Len(s) + i] = u[i] /\ Len(s) + i \in DOMAIN (s \o u)
      OBVIOUS
    <2> QED  BY <2>1 DEF Ids
  <1> QED  BY <1>1, <1>2, <1>3

LEMMA IdsType ==
    ASSUME NEW S, NEW s \in Seq(S) PROVE Ids(s) \subseteq S
  BY DEF Ids

-----------------------------------------------------------------------------
(* Types.                                                                  *)

Stages == {"idle", "ack", "reconnect", "again"}

\* The bookkeeping of acknowledgements is well typed.
AckTypes ==
    /\ pending \in [Consumers -> Seq(Entries)]
    /\ stage \in [Consumers -> [Tasks -> Stages]]
    /\ sent \in [Consumers -> [Tasks -> Seq(Entries)]]

LEMMA FlushType ==
    ASSUME AckTypes, NEW c \in Consumers, NEW t \in Tasks, NEW p \in Seq(Entries),
           NEW due, Flush(c, t, p, due)
    PROVE  AckTypes'
  <1> DEFINE sends == due /\ client[c] /\ p # <<>>
  <1>1. /\ (IF sends THEN <<>> ELSE p) \in Seq(Entries)
        /\ (IF sends THEN p ELSE sent[c][t]) \in Seq(Entries)
        /\ (IF sends THEN "ack" ELSE stage[c][t]) \in Stages
    BY DEF AckTypes, Stages
  <1>2. /\ pending' = [pending EXCEPT ![c] = IF sends THEN <<>> ELSE p]
        /\ sent' = [sent EXCEPT ![c][t] = IF sends THEN p ELSE sent[c][t]]
        /\ stage' = [stage EXCEPT ![c][t] = IF sends THEN "ack" ELSE stage[c][t]]
    BY DEF Flush
  <1> HIDE DEF sends
  <1> QED  BY <1>1, <1>2 DEF AckTypes

LEMMA EnqueueType ==
    ASSUME AckTypes, owed \in [Consumers -> SUBSET Entries],
           NEW c \in Consumers, NEW t \in Tasks, NEW e \in Entries, Enqueue(c, t, e)
    PROVE  AckTypes' /\ owed' \in [Consumers -> SUBSET Entries]
  <1>1. Append(pending[c], e) \in Seq(Entries)
    BY DEF AckTypes
  <1>2. AckTypes'
    BY <1>1, FlushType DEF Enqueue
  <1> QED  BY <1>2 DEF Enqueue

LEMMA FinishType ==
    ASSUME stage \in [Consumers -> [Tasks -> Stages]],
           sent \in [Consumers -> [Tasks -> Seq(Entries)]],
           at \in [Consumers -> Where],
           NEW c \in Consumers, NEW t \in Tasks, NEW ok \in BOOLEAN, Finish(c, t, ok)
    PROVE  /\ stage' \in [Consumers -> [Tasks -> Stages]]
           /\ sent' \in [Consumers -> [Tasks -> Seq(Entries)]]
           /\ at' \in [Consumers -> Where]
  <1>1. stage' \in [Consumers -> [Tasks -> Stages]]
    BY DEF Finish, Stages
  <1>2. sent' \in [Consumers -> [Tasks -> Seq(Entries)]]
    BY DEF Finish
  <1>3. After(at[c], ok) \in Where
    BY DEF After, Where
  <1>4. at' \in [Consumers -> Where]
    BY <1>3 DEF Finish, Where
  <1> QED  BY <1>1, <1>2, <1>4

\* XREADGROUP hands out entries of the stream.
LEMMA NewEntriesType ==
    ASSUME TypeOK, StreamAssumption
    PROVE  NewEntries \subseteq Entries /\ NewLast \in 0..End
  <1>1. config.entries \in 0..End
    BY DEF TypeOK, StreamAssumption, Config
  <1>2. NewLast \in 0..End
    BY <1>1 DEF TypeOK, StreamAssumption, NewLast
  <1> QED  BY <1>2 DEF NewEntries

\* What Redis changes when it hands out entries.
LEMMA DeliverType ==
    ASSUME TypeOK, NEW c \in Consumers, NEW S, S \subseteq Entries, Deliver(c, S)
    PROVE  /\ pel' \in [Entries -> Consumers \cup {NoOne}]
           /\ idle' \subseteq Entries
           /\ group' \subseteq Consumers
           /\ owed' \in [Consumers -> SUBSET Entries]
  BY DEF TypeOK, Deliver

LEMMA ReadNewType ==
    ASSUME TypeOK, StreamAssumption, NEW c \in Consumers, ReadNew(c)
    PROVE  lastId' \in 0..End /\ seen' \in 0..End
  <1>1. NewLast \in 0..End
    BY NewEntriesType
  <1>2. lastId' = NewLast /\ (seen' = NewLast \/ seen' = seen)
    BY DEF ReadNew
  <1> QED  BY <1>1, <1>2 DEF TypeOK

LEMMA DisconnectType ==
    ASSUME client \in [Consumers -> BOOLEAN], NEW c \in Consumers, NEW t, Disconnect(c, t)
    PROVE  client' \in [Consumers -> BOOLEAN]
  BY DEF Disconnect

\* Every reachable state is well typed: of Redis, of every consumer's memory, and
\* of the runner.
THEOREM TypeCorrect == Spec => []TypeOK
  <1>1. Init => TypeOK
    BY StreamAssumption, SMTT(60) DEF Init, TypeOK, StreamAssumption, Where, Tasks
  <1>2. TypeOK /\ [Next]_vars => TypeOK'
    <2> SUFFICES ASSUME TypeOK, [Next]_vars PROVE TypeOK'
      OBVIOUS
    <2> USE StreamAssumption DEF StreamAssumption
    <2>a. AckTypes /\ "stream" \in Tasks /\ "hook" \in Tasks /\ "close" \in Tasks
      BY DEF AckTypes, TypeOK, Stages, Tasks
    <2>b. ASSUME UNCHANGED vars PROVE TypeOK'
      BY <2>b DEF TypeOK, vars, redisVars, readVars, ackVars, runVars, history
    <2>c. CASE Next
      <3>a. Step /\ config' = config
        BY <2>c DEF Next
      <3>1. ASSUME NEW e \in Entries, Age(e) PROVE TypeOK'
        BY <3>1, <2>a, <3>a
           DEF Age, TypeOK, Where, redisVars, readVars, ackVars, runVars, history
      <3>2. ASSUME NEW c \in Consumers, Open(c) PROVE TypeOK'
        BY <3>2, <2>a, <3>a
           DEF Open, TypeOK, Where, redisVars, readVars, ackVars, runVars, history
      <3>3. ASSUME NEW c \in Consumers, StreamBegin(c) PROVE TypeOK'
        BY <3>3, <2>a, <3>a
           DEF StreamBegin, TypeOK, Where, redisVars, readVars, ackVars, runVars, history
      <3>4. ASSUME NEW c \in Consumers, CheckConsumers(c) PROVE TypeOK'
        BY <3>4, <2>a, <3>a
           DEF CheckConsumers, TypeOK, Where, redisVars, readVars, ackVars, runVars, history
      <3>5. ASSUME NEW c \in Consumers, SetId(c) PROVE TypeOK'
        BY <3>5, <2>a, <3>a, SMTT(40)
           DEF SetId, TypeOK, Where, redisVars, readVars, ackVars, runVars, history
      <3>6. ASSUME NEW c \in Consumers, ResumeFails(c) PROVE TypeOK'
        BY <3>6, <2>a, <3>a
           DEF ResumeFails, TypeOK, Where, redisVars, readVars, ackVars, runVars, history
      <3>7. ASSUME NEW c \in Consumers, NEW t \in Tasks, AckReturns(c, t) PROVE TypeOK'
        <4>1. /\ stage' \in [Consumers -> [Tasks -> Stages]]
              /\ sent' \in [Consumers -> [Tasks -> Seq(Entries)]]
              /\ at' \in [Consumers -> Where]
          BY <3>7, <2>a, FinishType DEF AckReturns, TypeOK, AckTypes
        <4>2. client' \in [Consumers -> BOOLEAN]
          BY <3>7, DisconnectType DEF AckReturns, TypeOK
        <4> QED  BY <3>7, <3>a, <4>1, <4>2 DEF AckReturns, XAck, TypeOK, Stages, redisVars, readVars, ackVars, runVars, history
      <3>8. ASSUME NEW c \in Consumers, NEW t \in Tasks, AckFails(c, t) PROVE TypeOK'
        <4>1. Restored(c, t) \in Seq(Entries)
          BY DEF TypeOK, Restored
        <4>2. /\ stage' \in [Consumers -> [Tasks -> Stages]]
              /\ sent' \in [Consumers -> [Tasks -> Seq(Entries)]]
              /\ at' \in [Consumers -> Where]
          <5>1. CASE Finish(c, t, FALSE)
            BY <5>1, <2>a, FinishType DEF TypeOK, AckTypes
          <5>2. CASE ~Finish(c, t, FALSE)
            <6>1. /\ stage' = [stage EXCEPT ![c][t] = "reconnect"]
                  /\ sent' = [sent EXCEPT ![c][t] = <<>>]
                  /\ at' = at
              BY <3>8, <5>2 DEF AckFails
            <6>2. stage' \in [Consumers -> [Tasks -> Stages]]
              BY <6>1, <2>a DEF AckTypes, Stages
            <6>3. sent' \in [Consumers -> [Tasks -> Seq(Entries)]]
              BY <6>1, <2>a DEF AckTypes
            <6> QED  BY <6>1, <6>2, <6>3 DEF TypeOK
          <5> QED  BY <5>1, <5>2
        <4>3. client' \in [Consumers -> BOOLEAN]
          BY <3>8, DisconnectType DEF AckFails, TypeOK
        <4>4. /\ pel' \in [Entries -> Consumers \cup {NoOne}]
              /\ idle' \subseteq Entries
              /\ lastId' = lastId /\ group' = group
          BY <3>8 DEF AckFails, XAck, TypeOK, redisVars
        <4>5. faults' \in 0..MaxFaults
          BY <3>8 DEF AckFails, TypeOK
        <4> QED  BY <3>8, <3>a, <4>1, <4>2, <4>3, <4>4, <4>5 DEF AckFails, TypeOK, Stages, readVars, runVars, history
      <3>9. ASSUME NEW c \in Consumers, NEW t \in Tasks, Reconnected(c, t) PROVE TypeOK'
        <4>1. CASE t = "stream" /\ at[c] \in {"read", "reclaim"}
          <5>1. /\ stage' \in [Consumers -> [Tasks -> Stages]]
                /\ sent' \in [Consumers -> [Tasks -> Seq(Entries)]]
                /\ at' \in [Consumers -> Where]
            BY <3>9, <4>1, <2>a, FinishType DEF Reconnected, TypeOK, AckTypes
          <5> QED  BY <3>9, <3>a, <4>1, <5>1 DEF Reconnected, TypeOK, Stages, redisVars, readVars, ackVars, runVars, history
        <4>2. CASE ~(t = "stream" /\ at[c] \in {"read", "reclaim"})
          <5>1. /\ stage' \in [Consumers -> [Tasks -> Stages]]
                /\ sent' \in [Consumers -> [Tasks -> Seq(Entries)]]
                /\ pending' \in [Consumers -> Seq(Entries)]
                /\ at' = at
            <6>1. /\ stage' = [stage EXCEPT ![c][t] = "again"]
                  /\ sent' = [sent EXCEPT ![c][t] = pending[c]]
                  /\ pending' = [pending EXCEPT ![c] = <<>>]
                  /\ at' = at
              BY <3>9, <4>2 DEF Reconnected
            <6>2. stage' \in [Consumers -> [Tasks -> Stages]]
              BY <6>1, <2>a DEF AckTypes, Stages
            <6>3. /\ sent' \in [Consumers -> [Tasks -> Seq(Entries)]]
                  /\ pending' \in [Consumers -> Seq(Entries)]
              BY <6>1, <2>a DEF AckTypes
            <6> QED  BY <6>1, <6>2, <6>3
          <5> QED  BY <3>9, <3>a, <5>1 DEF Reconnected, TypeOK, Stages, redisVars, runVars, history
        <4> QED  BY <4>1, <4>2
      <3>10. ASSUME NEW c \in Consumers, NEW t \in Tasks, ReconnectFails(c, t) PROVE TypeOK'
        <4>1. /\ stage' \in [Consumers -> [Tasks -> Stages]]
              /\ sent' \in [Consumers -> [Tasks -> Seq(Entries)]]
              /\ at' \in [Consumers -> Where]
          BY <3>10, <2>a, FinishType DEF ReconnectFails, TypeOK, AckTypes
        <4>2. client' \in [Consumers -> BOOLEAN]
          BY <3>10, DisconnectType DEF ReconnectFails, TypeOK
        <4> QED  BY <3>10, <3>a, <4>1, <4>2, SMTT(40) DEF ReconnectFails, XAck, TypeOK, Stages, redisVars, readVars, ackVars, runVars, history
      <3>11. ASSUME NEW c \in Consumers, LoopTurn(c) PROVE TypeOK'
        BY <3>11, <2>a, <3>a
           DEF LoopTurn, TypeOK, Where, redisVars, readVars, ackVars, runVars, history
      <3>12. ASSUME NEW c \in Consumers, Reclaim(c) PROVE TypeOK'
        <4>1. ClaimedEntries(c) \subseteq Entries
          BY ClaimedAreIdle DEF TypeOK
        <4>2. /\ pel' \in [Entries -> Consumers \cup {NoOne}]
              /\ idle' \subseteq Entries
              /\ group' \subseteq Consumers
              /\ owed' \in [Consumers -> SUBSET Entries]
          BY <3>12, <4>1, DeliverType DEF Reclaim
        <4>3. reclaim_cursor' \in [Consumers -> 0..End]
          BY <3>12 DEF Reclaim, TypeOK
        <4>4. streak' \in [Consumers -> Nat]
          BY <3>12 DEF Reclaim, TypeOK
        <4> QED  BY <3>12, <3>a, <4>1, <4>2, <4>3, <4>4 DEF Reclaim, TypeOK, Where, redisVars, readVars, ackVars, runVars, history
      <3>13. ASSUME NEW c \in Consumers, Read(c) PROVE TypeOK'
        <4>1. NewEntries \subseteq Entries
          BY NewEntriesType
        <4>2. /\ pel' \in [Entries -> Consumers \cup {NoOne}]
              /\ idle' \subseteq Entries
              /\ group' \subseteq Consumers
              /\ owed' \in [Consumers -> SUBSET Entries]
          BY <3>13, <4>1, DeliverType DEF Read, ReadNew
        <4>3. lastId' \in 0..End /\ seen' \in 0..End
          BY <3>13, ReadNewType DEF Read
        <4> QED  BY <3>13, <3>a, <4>1, <4>2, <4>3 DEF Read, TypeOK, Where, redisVars, readVars, ackVars, runVars, history
      <3>14. ASSUME NEW c \in Consumers, ReadFails(c) PROVE TypeOK'
        <4>1. NewEntries \subseteq Entries /\ ClaimedEntries(c) \subseteq Entries
          BY NewEntriesType, ClaimedAreIdle DEF TypeOK
        <4>2. /\ pel' \in [Entries -> Consumers \cup {NoOne}]
              /\ idle' \subseteq Entries
              /\ group' \subseteq Consumers
              /\ owed' \in [Consumers -> SUBSET Entries]
          <5>1. \/ UNCHANGED <<redisVars, owed>>
                \/ Deliver(c, NewEntries)
                \/ Deliver(c, ClaimedEntries(c))
            BY <3>14 DEF ReadFails, ReadNew
          <5>2. CASE UNCHANGED <<redisVars, owed>>
            BY <5>2 DEF TypeOK, redisVars
          <5>3. CASE Deliver(c, NewEntries)
            BY <5>3, <4>1, DeliverType
          <5>4. CASE Deliver(c, ClaimedEntries(c))
            BY <5>4, <4>1, DeliverType
          <5> QED  BY <5>1, <5>2, <5>3, <5>4
        <4>3. lastId' \in 0..End /\ seen' \in 0..End
          <5>1. ReadNew(c) \/ (lastId' = lastId /\ seen' = seen)
            BY <3>14 DEF ReadFails, redisVars
          <5>2. CASE lastId' = lastId /\ seen' = seen
            BY <5>2 DEF TypeOK
          <5> QED  BY <5>1, <5>2, ReadNewType
        <4>4. /\ stage' \in [Consumers -> [Tasks -> Stages]]
              /\ client' \in [Consumers -> BOOLEAN]
              /\ at' \in [Consumers -> Where]
          <5>1. CASE at' = at
            <6>1. /\ stage' = [stage EXCEPT ![c]["stream"] = "reconnect"]
                  /\ client' = [client EXCEPT ![c] = FALSE]
              BY <3>14, <5>1 DEF ReadFails, TypeOK
            <6>2. stage' \in [Consumers -> [Tasks -> Stages]]
              BY <6>1, <2>a DEF AckTypes, Stages
            <6> QED  BY <5>1, <6>1, <6>2 DEF TypeOK
          <5>2. CASE at' # at
            <6>1. at' = [at EXCEPT ![c] = "ended"] /\ UNCHANGED <<stage, client>>
              BY <3>14, <5>2 DEF ReadFails
            <6> QED  BY <6>1, <2>a DEF AckTypes, TypeOK, Where
          <5> QED  BY <5>1, <5>2
        <4>5. faults' \in 0..MaxFaults
          BY <3>14 DEF ReadFails, TypeOK
        <4> QED  BY <3>14, <3>a, <4>2, <4>3, <4>4, <4>5 DEF ReadFails, TypeOK, Stages, redisVars, readVars, ackVars, runVars, history
      <3>15. ASSUME NEW c \in Consumers, NEW e \in Entries, Yield(c, e) PROVE TypeOK'
        <4>e. e \in 0..End /\ e \in Entries
          BY DEF Entries
        <4> QED  BY <3>15, <4>e, <3>a
           DEF Yield, TypeOK, Where, redisVars, readVars, ackVars, runVars, history, Take
      <3>16. ASSUME NEW c \in Consumers, NEW e \in Entries, DropPoison(c, e) PROVE TypeOK'
        <4>e. e \in 0..End /\ e \in Entries
          BY DEF Entries
        <4>1. AckTypes' /\ owed' \in [Consumers -> SUBSET Entries]
          BY <3>16, <2>a, EnqueueType DEF DropPoison, TypeOK, AckTypes, ackVars
        <4> QED  BY <3>16, <3>a, <4>e, <4>1 DEF DropPoison, Take, TypeOK, Where, AckTypes, Stages, redisVars, readVars, ackVars, runVars, history
      <3>17. ASSUME NEW c \in Consumers, NEW e \in Entries, RaisePoison(c, e) PROVE TypeOK'
        <4>e. e \in 0..End /\ e \in Entries
          BY DEF Entries
        <4>1. AckTypes'
          BY <3>17, <2>a, FlushType DEF RaisePoison, TypeOK, AckTypes
        <4>2. failed' \in [Consumers -> 0..End] /\ last' \in [Consumers -> 0..End]
          BY <3>17, <4>e DEF RaisePoison, Take, TypeOK
        <4>3. failureAck' \in [Consumers -> BOOLEAN]
          BY <3>17 DEF RaisePoison, TypeOK
        <4>4. at' \in [Consumers -> Where]
          BY <3>17 DEF RaisePoison, TypeOK, Where
        <4> QED  BY <3>17, <3>a, <4>1, <4>2, <4>3, <4>4
                 DEF RaisePoison, Take, TypeOK, AckTypes, Stages, redisVars, history
      <3>18. ASSUME NEW c \in Consumers, BatchDone(c) PROVE TypeOK'
        BY <3>18, <2>a, <3>a
           DEF BatchDone, TypeOK, Where, redisVars, readVars, ackVars, runVars, history
      <3>19. ASSUME NEW c \in Consumers, Pull(c) PROVE TypeOK'
        BY <3>19, <2>a, <3>a
           DEF Pull, TypeOK, Where, redisVars, readVars, ackVars, runVars, history
      <3>20. ASSUME NEW c \in Consumers, NEW e \in Entries, Handle(c, e) PROVE TypeOK'
        BY <3>20, <2>a, <3>a
           DEF Handle, TypeOK, Where, redisVars, readVars, ackVars, runVars, history
      <3>21. ASSUME NEW c \in Consumers, NEW e \in Entries, CallHook(c, e) PROVE TypeOK'
        <4>1. AckTypes' /\ owed' \in [Consumers -> SUBSET Entries]
          BY <3>21, <2>a, EnqueueType DEF CallHook, TypeOK, AckTypes, ackVars
        <4> QED  BY <3>21, <3>a, <4>1 DEF CallHook, Take, TypeOK, Where, AckTypes, Stages, redisVars, readVars, ackVars, runVars, history
      <3>22. ASSUME NEW c \in Consumers, FlushDeliveryAcks(c) PROVE TypeOK'
        <4>1. AckTypes'
          BY <3>22, <2>a, FlushType DEF FlushDeliveryAcks, TypeOK, AckTypes, ackVars
        <4> QED  BY <3>22, <3>a, <4>1 DEF FlushDeliveryAcks, Take, TypeOK, Where, AckTypes, Stages, redisVars, readVars, ackVars, runVars, history
      <3>23. ASSUME NEW c \in Consumers, SaveCheckpoint(c) PROVE TypeOK'
        BY <3>23, <2>a, <3>a
           DEF SaveCheckpoint, TypeOK, Where, redisVars, readVars, ackVars, runVars, history
      <3>24. ASSUME NEW c \in Consumers, HandleFailure(c) PROVE TypeOK'
        <4>1. failed[c] \in Entries
          BY <3>24 DEF HandleFailure, TypeOK, Entries
        <4>2. failed' \in [Consumers -> 0..End]
          BY <3>24 DEF HandleFailure, TypeOK
        <4>3. /\ pel' \in [Entries -> Consumers \cup {NoOne}]
              /\ idle' \subseteq Entries
              /\ lastId' = lastId /\ group' = group
          BY <3>24 DEF HandleFailure, XAck, TypeOK, redisVars
        <4>4. faults' \in 0..MaxFaults
          BY <3>24 DEF HandleFailure, TypeOK
        <4> QED  BY <3>24, <3>a, <4>1, <4>2, <4>3, <4>4 DEF HandleFailure, TypeOK, readVars, ackVars
      <3>25. ASSUME NEW c \in Consumers, Cancel(c) PROVE TypeOK'
        <4>1. AckTypes'
          BY <3>25, <2>a, FlushType DEF Cancel, TypeOK, AckTypes, ackVars
        <4> QED  BY <3>25, <3>a, <4>1 DEF Cancel, Take, TypeOK, Where, AckTypes, Stages, redisVars, readVars, ackVars, runVars, history
      <3>26. ASSUME NEW c \in Consumers, Close(c) PROVE TypeOK'
        <4>1. AckTypes'
          BY <3>26, <2>a, FlushType DEF Close, TypeOK, AckTypes, ackVars
        <4> QED  BY <3>26, <3>a, <4>1 DEF Close, Take, TypeOK, Where, AckTypes, Stages, redisVars, readVars, ackVars, runVars, history
      <3>27. ASSUME NEW c \in Consumers, Crash(c) PROVE TypeOK'
        <4>1. /\ client' \in [Consumers -> BOOLEAN]
              /\ at' \in [Consumers -> Where]
              /\ batch' \in [Consumers -> SUBSET Entries]
              /\ reclaimed' \in [Consumers -> SUBSET Entries]
              /\ hooks' \in [Consumers -> SUBSET Entries]
              /\ failureAck' \in [Consumers -> BOOLEAN]
              /\ owed' \in [Consumers -> SUBSET Entries]
          BY <3>27 DEF Crash, TypeOK, Where
        <4>2. 0 \in 0..End
          BY DEF StreamAssumption
        <4>3. last' \in [Consumers -> 0..End] /\ resume' \in [Consumers -> 0..End]
          BY <3>27, <4>2 DEF Crash, TypeOK
        <4>4. /\ reclaim_cursor' \in [Consumers -> 0..End]
              /\ failed' \in [Consumers -> 0..End]
          BY <3>27, <4>2 DEF Crash, TypeOK
        <4>5. streak' \in [Consumers -> Nat] /\ faults' \in 0..MaxFaults
          BY <3>27 DEF Crash, TypeOK, StreamAssumption
        <4>6. pending' \in [Consumers -> Seq(Entries)]
          BY <3>27 DEF Crash, TypeOK
        <4>7. stage' \in [Consumers -> [Tasks -> {"idle", "ack", "reconnect", "again"}]]
          BY <3>27 DEF Crash, TypeOK
        <4>8. sent' \in [Consumers -> [Tasks -> Seq(Entries)]]
          BY <3>27 DEF Crash, TypeOK
        <4> QED  BY <3>27, <3>a, <4>1, <4>3, <4>4, <4>5, <4>6, <4>7, <4>8
                 DEF Crash, TypeOK, redisVars
      <3> QED
        BY <3>a, <3>1, <3>2, <3>3, <3>4, <3>5, <3>6, <3>7, <3>8, <3>9, <3>10, <3>11, <3>12, <3>13, <3>14, <3>15, <3>16, <3>17, <3>18, <3>19, <3>20, <3>21, <3>22, <3>23, <3>24, <3>25, <3>26, <3>27
           DEF Step, Lifecycle, Generate, Run, Settle
    <2> QED  BY <2>b, <2>c
  <1> QED  BY <1>1, <1>2, PTL DEF Spec

-----------------------------------------------------------------------------
(* At-least-once delivery.  NothingLost speaks of lastId, which a resume may  *)
(* set anywhere a checkpoint points to; what is inductive is that everything *)
(* up to the largest id ever delivered is handled or pending, that no cursor, *)
(* checkpoint or batch is beyond that id, and that only ids of handled        *)
(* entries are on their way to XACK.                                          *)

CoverInv ==
    /\ lastId <= seen
    /\ \A e \in Entries : pel[e] # NoOne => e <= seen
    /\ \A e \in idle : pel[e] # NoOne
    /\ \A e \in Entries : e <= seen => e \in handled \/ pel[e] # NoOne

CursorInv ==
    \A c \in Consumers :
        /\ last[c] <= seen
        /\ resume[c] <= seen
        /\ saved[c] <= seen
        /\ \A e \in batch[c] : e <= seen

AckInv ==
    \A c \in Consumers :
        /\ Ids(pending[c]) \subseteq handled
        /\ \A t \in Tasks : Ids(sent[c][t]) \subseteq handled

\* Steps that leave Redis alone.
LEMMA SameCover ==
    ASSUME CoverInv, UNCHANGED <<lastId, pel, idle, seen>>, handled \subseteq handled'
    PROVE  CoverInv'
  BY DEF CoverInv

\* XACK of handled entries.
LEMMA XAckCover ==
    ASSUME TypeOK, CoverInv, NEW S, XAck(S), S \subseteq handled',
           handled \subseteq handled', seen' = seen
    PROVE  CoverInv'
  BY DEF CoverInv, XAck, TypeOK

\* XAUTOCLAIM of idle entries.
LEMMA ClaimCover ==
    ASSUME TypeOK, CoverInv, StreamAssumption, NEW c \in Consumers,
           NEW S, S \subseteq idle, Deliver(c, S), UNCHANGED <<lastId, seen, handled>>
    PROVE  CoverInv'
  BY DEF CoverInv, Deliver, TypeOK, StreamAssumption

\* XREADGROUP: whatever the group skips over is delivered.
LEMMA ReadCover ==
    ASSUME TypeOK, CoverInv, StreamAssumption, NEW c \in Consumers,
           ReadNew(c), handled' = handled
    PROVE  /\ CoverInv'
           /\ seen <= seen'
           /\ \A e \in NewEntries : e <= seen'
  <1>1. NewEntries \subseteq Entries /\ NewLast \in 0..End
    BY NewEntriesType
  <1>2. /\ lastId' = NewLast
        /\ NewLast > seen => seen' = NewLast
        /\ ~(NewLast > seen) => seen' = seen
    BY DEF ReadNew
  <1>3. lastId \in Nat /\ seen \in Nat /\ NewLast \in Nat /\ lastId <= seen
    BY <1>1 DEF TypeOK, CoverInv
  <1>4. /\ seen' \in Nat /\ lastId' <= seen' /\ seen <= seen'
        /\ seen' = NewLast \/ seen' = seen
    BY <1>2, <1>3
  <1>5. \A e \in NewEntries : e <= seen' /\ e \in Nat
    <2> TAKE e \in NewEntries
    <2>1. e <= NewLast /\ e \in Nat
      BY <1>1 DEF NewEntries, Entries
    <2> QED  BY <2>1, <1>2, <1>3
  <1>6. /\ \A e \in Entries : pel'[e] = IF e \in NewEntries THEN c ELSE pel[e]
        /\ idle' = idle \ NewEntries
    BY DEF ReadNew, Deliver
  <1>7. \A e \in Entries : pel'[e] # NoOne => e <= seen'
    <2> SUFFICES ASSUME NEW e \in Entries, pel'[e] # NoOne PROVE e <= seen'
      OBVIOUS
    <2>1. CASE e \in NewEntries
      BY <2>1, <1>5
    <2>2. CASE e \notin NewEntries
      <3>1. e <= seen /\ e \in Nat
        BY <2>2, <1>6 DEF CoverInv, Entries
      <3> QED  BY <3>1, <1>3, <1>4
    <2> QED  BY <2>1, <2>2
  <1>8. \A e \in idle' : pel'[e] # NoOne
    BY <1>6 DEF CoverInv, TypeOK
  <1>9. \A e \in Entries : e <= seen' => e \in handled \/ pel'[e] # NoOne
    <2> SUFFICES ASSUME NEW e \in Entries, e <= seen' PROVE e \in handled \/ pel'[e] # NoOne
      OBVIOUS
    <2>1. CASE e \in NewEntries
      BY <2>1, <1>6 DEF StreamAssumption
    <2>2. CASE e \notin NewEntries
      <3>1. e \in Nat
        BY DEF Entries
      <3>2. ~(lastId < e /\ e <= NewLast)
        BY <2>2 DEF NewEntries
      <3>3. e <= seen
        BY <3>1, <3>2, <1>2, <1>3, <1>4
      <3> QED  BY <3>3, <2>2, <1>6 DEF CoverInv
    <2> QED  BY <2>1, <2>2
  <1> QED  BY <1>4, <1>5, <1>7, <1>8, <1>9 DEF CoverInv

\* Steps that change no cursor and no batch.
LEMMA SameCursor ==
    ASSUME TypeOK, CursorInv, UNCHANGED <<last, resume, saved, batch>>, seen' = seen
    PROVE  CursorInv'
  BY DEF CursorInv

\* Steps that move no acknowledgement.
LEMMA SameAck ==
    ASSUME AckInv, UNCHANGED <<pending, sent>>, handled \subseteq handled'
    PROVE  AckInv'
  BY DEF AckInv

LEMMA FlushAck ==
    ASSUME TypeOK, AckInv, NEW c \in Consumers, NEW t \in Tasks, NEW p, NEW due,
           Flush(c, t, p, due), Ids(p) \subseteq handled', handled \subseteq handled'
    PROVE  AckInv'
  <1> SUFFICES ASSUME NEW d \in Consumers, NEW u \in Tasks
               PROVE  Ids(pending'[d]) \subseteq handled' /\ Ids(sent'[d][u]) \subseteq handled'
    BY DEF AckInv
  <1>1. pending'[d] \in {<<>>, p, pending[d]}
    BY DEF Flush, TypeOK
  <1>2. sent'[d][u] \in {p, sent[d][u]}
    BY DEF Flush, TypeOK
  <1> QED  BY <1>1, <1>2, IdsEmpty DEF AckInv

LEMMA FinishAck ==
    ASSUME TypeOK, AckInv, NEW c \in Consumers, NEW t \in Tasks, NEW ok, Finish(c, t, ok),
           NEW p, pending' = [pending EXCEPT ![c] = p], Ids(p) \subseteq handled,
           handled' = handled
    PROVE  AckInv'
  <1> SUFFICES ASSUME NEW d \in Consumers, NEW u \in Tasks
               PROVE  Ids(pending'[d]) \subseteq handled /\ Ids(sent'[d][u]) \subseteq handled
    BY DEF AckInv
  <1>1. pending'[d] \in {p, pending[d]}
    BY DEF TypeOK
  <1>2. sent'[d][u] \in {<<>>, sent[d][u]}
    BY DEF Finish, TypeOK
  <1> QED  BY <1>1, <1>2, IdsEmpty DEF AckInv

LogInv == TypeOK /\ CoverInv /\ CursorInv /\ AckInv

\* Every step keeps entries covered, cursors behind the largest delivered id, and
\* unhandled entries out of the lists of acknowledgements.
LEMMA LogStep ==
    ASSUME LogInv, Next, TypeOK' PROVE LogInv'
  <1> USE StreamAssumption DEF LogInv
  <1>s. "stream" \in Tasks /\ "hook" \in Tasks /\ "close" \in Tasks
    BY DEF Tasks
  <1>a. Step
    BY DEF Next
  <1>1. ASSUME NEW e \in Entries, Age(e) PROVE LogInv'
    <2>1. CoverInv'
      BY <1>1 DEF Age, CoverInv, history
    <2>2. CursorInv'
      BY <1>1, SameCursor DEF Age, redisVars, readVars, ackVars, runVars, history
    <2>3. AckInv'
      BY <1>1, SameAck DEF Age, Take, redisVars, readVars, ackVars, runVars, history
    <2> QED  BY <2>1, <2>2, <2>3
  <1>2. ASSUME NEW c \in Consumers, Open(c) PROVE LogInv'
    <2>1. CoverInv'
      BY <1>2, SameCover DEF Open, Take, redisVars, readVars, ackVars, runVars, history
    <2>2. CursorInv'
      <3> SUFFICES ASSUME NEW d \in Consumers
                   PROVE  /\ last'[d] <= seen' /\ resume'[d] <= seen' /\ saved'[d] <= seen'
                          /\ \A f \in batch'[d] : f <= seen'
        BY DEF CursorInv
      <3> QED  BY <1>2 DEF Open, CursorInv, TypeOK, redisVars, readVars, ackVars, runVars, history
    <2>3. AckInv'
      BY <1>2, SameAck DEF Open, Take, redisVars, readVars, ackVars, runVars, history
    <2> QED  BY <2>1, <2>2, <2>3
  <1>3. ASSUME NEW c \in Consumers, StreamBegin(c) PROVE LogInv'
    <2>1. CoverInv'
      BY <1>3, SameCover DEF StreamBegin, Take, redisVars, readVars, ackVars, runVars, history
    <2>2. CursorInv'
      BY <1>3, SameCursor DEF StreamBegin, redisVars, readVars, ackVars, runVars, history
    <2>3. AckInv'
      BY <1>3, SameAck DEF StreamBegin, Take, redisVars, readVars, ackVars, runVars, history
    <2> QED  BY <2>1, <2>2, <2>3
  <1>4. ASSUME NEW c \in Consumers, CheckConsumers(c) PROVE LogInv'
    <2>1. CoverInv'
      BY <1>4, SameCover DEF CheckConsumers, Take, redisVars, readVars, ackVars, runVars, history
    <2>2. CursorInv'
      <3> SUFFICES ASSUME NEW d \in Consumers
                   PROVE  /\ last'[d] <= seen' /\ resume'[d] <= seen' /\ saved'[d] <= seen'
                          /\ \A f \in batch'[d] : f <= seen'
        BY DEF CursorInv
      <3> QED  BY <1>4 DEF CheckConsumers, CursorInv, TypeOK, redisVars, readVars, ackVars, runVars, history
    <2>3. AckInv'
      BY <1>4, SameAck DEF CheckConsumers, Take, redisVars, readVars, ackVars, runVars, history
    <2> QED  BY <2>1, <2>2, <2>3
  <1>5. ASSUME NEW c \in Consumers, SetId(c) PROVE LogInv'
    <2>1. CoverInv'
      BY <1>5 DEF SetId, CoverInv, CursorInv, history
    <2>2. CursorInv'
      <3> SUFFICES ASSUME NEW d \in Consumers
                   PROVE  /\ last'[d] <= seen' /\ resume'[d] <= seen' /\ saved'[d] <= seen'
                          /\ \A f \in batch'[d] : f <= seen'
        BY DEF CursorInv
      <3> QED  BY <1>5 DEF SetId, CursorInv, TypeOK, redisVars, readVars, ackVars, runVars, history
    <2>3. AckInv'
      BY <1>5, SameAck DEF SetId, Take, redisVars, readVars, ackVars, runVars, history
    <2> QED  BY <2>1, <2>2, <2>3
  <1>6. ASSUME NEW c \in Consumers, ResumeFails(c) PROVE LogInv'
    <2>1. CoverInv'
      BY <1>6 DEF ResumeFails, CoverInv, CursorInv, history
    <2>2. CursorInv'
      BY <1>6, SameCursor DEF ResumeFails, redisVars, readVars, ackVars, runVars, history
    <2>3. AckInv'
      BY <1>6, SameAck DEF ResumeFails, Take, redisVars, readVars, ackVars, runVars, history
    <2> QED  BY <2>1, <2>2, <2>3
  <1>7. ASSUME NEW c \in Consumers, NEW t \in Tasks, AckReturns(c, t) PROVE LogInv'
    <2>1. CoverInv'
      BY <1>7, XAckCover DEF AckReturns, AckInv, history
    <2>2. CursorInv'
      BY <1>7, SameCursor DEF AckReturns, redisVars, readVars, ackVars, runVars, history
    <2>3. AckInv'
      <3>1. pending' = [pending EXCEPT ![c] = pending[c]] /\ Ids(pending[c]) \subseteq handled
        BY <1>7 DEF AckReturns, TypeOK, AckInv
      <3> QED  BY <1>7, <3>1, FinishAck DEF AckReturns, history
    <2> QED  BY <2>1, <2>2, <2>3
  <1>8. ASSUME NEW c \in Consumers, NEW t \in Tasks, AckFails(c, t) PROVE LogInv'
    <2>1. CoverInv'
      <3>1. CASE XAck(Ids(sent[c][t]))
        BY <1>8, <3>1, XAckCover DEF AckFails, AckInv, history
      <3>2. CASE UNCHANGED redisVars
        BY <1>8, <3>2, SameCover DEF AckFails, redisVars, history
      <3> QED  BY <1>8, <3>1, <3>2 DEF AckFails
    <2>2. CursorInv'
      BY <1>8, SameCursor DEF AckFails, redisVars, readVars, ackVars, runVars, history
    <2>3. AckInv'
      <3>1. Ids(Restored(c, t)) \subseteq handled
        <4>1. sent[c][t] \in Seq(Entries) /\ pending[c] \in Seq(Entries)
          BY DEF TypeOK
        <4>2. Ids(sent[c][t] \o pending[c]) = Ids(sent[c][t]) \cup Ids(pending[c])
          BY <4>1, IdsConcat
        <4> QED  BY <4>2 DEF Restored, AckInv
      <3>2. CASE Finish(c, t, FALSE)
        BY <1>8, <3>1, <3>2, FinishAck DEF AckFails, history
      <3>3. CASE sent' = [sent EXCEPT ![c][t] = <<>>]
        <4> SUFFICES ASSUME NEW d \in Consumers, NEW u \in Tasks
                     PROVE  Ids(pending'[d]) \subseteq handled' /\ Ids(sent'[d][u]) \subseteq handled'
          BY DEF AckInv
        <4>1. pending'[d] \in {Restored(c, t), pending[d]} /\ sent'[d][u] \in {<<>>, sent[d][u]}
          BY <1>8, <3>3 DEF AckFails, TypeOK
        <4> QED  BY <1>8, <3>1, <4>1, IdsEmpty DEF AckFails, AckInv, history
      <3> QED  BY <1>8, <3>2, <3>3 DEF AckFails
    <2> QED  BY <2>1, <2>2, <2>3
  <1>9. ASSUME NEW c \in Consumers, NEW t \in Tasks, Reconnected(c, t) PROVE LogInv'
    <2>1. CoverInv'
      BY <1>9, SameCover DEF Reconnected, Take, redisVars, readVars, ackVars, runVars, history
    <2>2. CursorInv'
      BY <1>9, SameCursor DEF Reconnected, redisVars, readVars, ackVars, runVars, history
    <2>3. AckInv'
      <3> SUFFICES ASSUME NEW d \in Consumers, NEW u \in Tasks
                   PROVE  Ids(pending'[d]) \subseteq handled' /\ Ids(sent'[d][u]) \subseteq handled'
        BY DEF AckInv
      <3>1. pending'[d] \in {<<>>, pending[d]} /\ sent'[d][u] \in {<<>>, pending[d], sent[d][u]}
        <4>1. CASE t = "stream" /\ at[c] \in {"read", "reclaim"}
          <5>1. pending' = pending /\ sent' = [sent EXCEPT ![c][t] = <<>>]
            BY <1>9, <4>1 DEF Reconnected, Finish
          <5> QED  BY <5>1 DEF TypeOK
        <4>2. CASE ~(t = "stream" /\ at[c] \in {"read", "reclaim"})
          <5>1. /\ pending' = [pending EXCEPT ![c] = <<>>]
                /\ sent' = [sent EXCEPT ![c][t] = pending[c]]
            BY <1>9, <4>2 DEF Reconnected
          <5> QED  BY <5>1 DEF TypeOK
        <4> QED  BY <4>1, <4>2
      <3> QED  BY <1>9, <3>1, IdsEmpty DEF Reconnected, AckInv, history
    <2> QED  BY <2>1, <2>2, <2>3
  <1>10. ASSUME NEW c \in Consumers, NEW t \in Tasks, ReconnectFails(c, t) PROVE LogInv'
    <2>1. CoverInv'
      BY <1>10, SameCover DEF ReconnectFails, Take, redisVars, readVars, ackVars, runVars, history
    <2>2. CursorInv'
      BY <1>10, SameCursor DEF ReconnectFails, redisVars, readVars, ackVars, runVars, history
    <2>3. AckInv'
      <3>1. pending' = [pending EXCEPT ![c] = pending[c]] /\ Ids(pending[c]) \subseteq handled
        BY <1>10 DEF ReconnectFails, TypeOK, AckInv
      <3> QED  BY <1>10, <3>1, FinishAck DEF ReconnectFails, history
    <2> QED  BY <2>1, <2>2, <2>3
  <1>11. ASSUME NEW c \in Consumers, LoopTurn(c) PROVE LogInv'
    <2>1. CoverInv'
      BY <1>11, SameCover DEF LoopTurn, Take, redisVars, readVars, ackVars, runVars, history
    <2>2. CursorInv'
      BY <1>11, SameCursor DEF LoopTurn, redisVars, readVars, ackVars, runVars, history
    <2>3. AckInv'
      BY <1>11, SameAck DEF LoopTurn, Take, redisVars, readVars, ackVars, runVars, history
    <2> QED  BY <2>1, <2>2, <2>3
  <1>12. ASSUME NEW c \in Consumers, Reclaim(c) PROVE LogInv'
    <2>1. CoverInv'
      BY <1>12, ClaimCover, ClaimedAreIdle DEF Reclaim
    <2>2. CursorInv'
      <3> SUFFICES ASSUME NEW d \in Consumers
                   PROVE  /\ last'[d] <= seen' /\ resume'[d] <= seen' /\ saved'[d] <= seen'
                          /\ \A f \in batch'[d] : f <= seen'
        BY DEF CursorInv
      <3>1. \A f \in ClaimedEntries(c) : f <= seen
        BY ClaimedAreIdle DEF CoverInv, TypeOK
      <3> QED  BY <1>12, <3>1 DEF Reclaim, CursorInv, TypeOK, redisVars, readVars, ackVars, runVars, history
    <2>3. AckInv'
      BY <1>12, SameAck DEF Reclaim, Take, redisVars, readVars, ackVars, runVars, history
    <2> QED  BY <2>1, <2>2, <2>3
  <1>13. ASSUME NEW c \in Consumers, Read(c) PROVE LogInv'
    <2>1. CoverInv'
      BY <1>13, ReadCover DEF Read
    <2>2. CursorInv'
      <3> SUFFICES ASSUME NEW d \in Consumers
                   PROVE  /\ last'[d] <= seen' /\ resume'[d] <= seen' /\ saved'[d] <= seen'
                          /\ \A f \in batch'[d] : f <= seen'
        BY DEF CursorInv
      <3>1. seen <= seen' /\ \A f \in NewEntries : f <= seen'
        BY <1>13, ReadCover DEF Read
      <3>2. /\ last'[d] = last[d] /\ resume'[d] = resume[d] /\ saved'[d] = saved[d]
            /\ batch'[d] = batch[d] \/ batch'[d] = NewEntries
        BY <1>13 DEF Read, TypeOK, runVars
      <3>3. /\ last[d] \in Nat /\ resume[d] \in Nat /\ saved[d] \in Nat /\ seen \in Nat
            /\ seen' \in Nat /\ \A f \in batch[d] : f \in Nat
        BY DEF TypeOK, Entries
      <3> QED  BY <3>1, <3>2, <3>3 DEF CursorInv
    <2>3. AckInv'
      BY <1>13, SameAck DEF Read, Take, redisVars, readVars, ackVars, runVars, history
    <2> QED  BY <2>1, <2>2, <2>3
  <1>14. ASSUME NEW c \in Consumers, ReadFails(c) PROVE LogInv'
    <2>1. CoverInv'
      <3>1. CASE UNCHANGED <<redisVars, seen, owed>>
        BY <1>14, <3>1, SameCover DEF ReadFails, redisVars
      <3>2. CASE ReadNew(c)
        BY <1>14, <3>2, ReadCover DEF ReadFails
      <3>3. CASE Deliver(c, ClaimedEntries(c)) /\ UNCHANGED <<lastId, seen>>
        BY <1>14, <3>3, ClaimCover, ClaimedAreIdle DEF ReadFails
      <3> QED  BY <1>14, <3>1, <3>2, <3>3 DEF ReadFails
    <2>2. CursorInv'
      <3>1. CASE seen' = seen
        BY <1>14, <3>1, SameCursor DEF ReadFails, readVars, runVars
      <3>2. CASE ReadNew(c)
        <4>1. seen <= seen'
          BY <1>14, <3>2, ReadCover DEF ReadFails
        <4>2. UNCHANGED <<last, resume, saved, batch>>
          BY <1>14 DEF ReadFails, readVars, runVars
        <4> SUFFICES ASSUME NEW d \in Consumers
                     PROVE  /\ last[d] <= seen' /\ resume[d] <= seen' /\ saved[d] <= seen'
                            /\ \A f \in batch[d] : f <= seen'
          BY <4>2 DEF CursorInv
        <4>3. /\ last[d] \in Nat /\ resume[d] \in Nat /\ saved[d] \in Nat /\ seen \in Nat
              /\ seen' \in Nat /\ \A f \in batch[d] : f \in Nat
          BY DEF TypeOK, Entries
        <4> QED  BY <4>1, <4>3 DEF CursorInv
      <3> QED  BY <1>14, <3>1, <3>2 DEF ReadFails
    <2>3. AckInv'
      BY <1>14, SameAck DEF ReadFails, Take, redisVars, readVars, ackVars, runVars, history
    <2> QED  BY <2>1, <2>2, <2>3
  <1>15. ASSUME NEW c \in Consumers, NEW e \in Entries, Yield(c, e) PROVE LogInv'
    <2>1. CoverInv'
      BY <1>15, SameCover DEF Yield, Take, redisVars, readVars, ackVars, runVars, history
    <2>2. CursorInv'
      <3> SUFFICES ASSUME NEW d \in Consumers
                   PROVE  /\ last'[d] <= seen' /\ resume'[d] <= seen' /\ saved'[d] <= seen'
                          /\ \A f \in batch'[d] : f <= seen'
        BY DEF CursorInv
      <3> QED  BY <1>15 DEF Yield, Take, CursorInv, TypeOK, redisVars, readVars, ackVars, runVars, history
    <2>3. AckInv'
      BY <1>15, SameAck DEF Yield, Take, redisVars, readVars, ackVars, runVars, history
    <2> QED  BY <2>1, <2>2, <2>3
  <1>16. ASSUME NEW c \in Consumers, NEW e \in Entries, DropPoison(c, e) PROVE LogInv'
    <2>1. CoverInv'
      BY <1>16, SameCover DEF DropPoison, Take, redisVars, readVars, ackVars, runVars, history
    <2>2. CursorInv'
      <3> SUFFICES ASSUME NEW d \in Consumers
                   PROVE  /\ last'[d] <= seen' /\ resume'[d] <= seen' /\ saved'[d] <= seen'
                          /\ \A f \in batch'[d] : f <= seen'
        BY DEF CursorInv
      <3> QED  BY <1>16 DEF DropPoison, Take, CursorInv, TypeOK, redisVars, readVars, ackVars, runVars, history
    <2>3. AckInv'
      <3>1. handled \subseteq handled' /\ e \in handled'
        BY <1>16 DEF DropPoison
      <3>2. Ids(Append(pending[c], e)) \subseteq handled'
        BY <3>1, IdsAppend, SMTT(40) DEF TypeOK, AckInv
      <3> QED  BY <1>16, <1>s, <3>1, <3>2, FlushAck DEF DropPoison, Enqueue
    <2> QED  BY <2>1, <2>2, <2>3
  <1>17. ASSUME NEW c \in Consumers, NEW e \in Entries, RaisePoison(c, e) PROVE LogInv'
    <2>1. CoverInv'
      BY <1>17, SameCover DEF RaisePoison, Take, redisVars, readVars, ackVars, runVars, history
    <2>2. CursorInv'
      <3> SUFFICES ASSUME NEW d \in Consumers
                   PROVE  /\ last'[d] <= seen' /\ resume'[d] <= seen' /\ saved'[d] <= seen'
                          /\ \A f \in batch'[d] : f <= seen'
        BY DEF CursorInv
      <3> QED  BY <1>17 DEF RaisePoison, Take, CursorInv, TypeOK, redisVars, readVars, ackVars, runVars, history
    <2>3. AckInv'
      <3>1. handled' = handled /\ Ids(pending[c]) \subseteq handled
        BY <1>17 DEF RaisePoison, AckInv, history
      <3> QED  BY <1>17, <1>s, <3>1, FlushAck DEF RaisePoison
    <2> QED  BY <2>1, <2>2, <2>3
  <1>18. ASSUME NEW c \in Consumers, BatchDone(c) PROVE LogInv'
    <2>1. CoverInv'
      BY <1>18, SameCover DEF BatchDone, Take, redisVars, readVars, ackVars, runVars, history
    <2>2. CursorInv'
      BY <1>18, SameCursor DEF BatchDone, redisVars, readVars, ackVars, runVars, history
    <2>3. AckInv'
      BY <1>18, SameAck DEF BatchDone, Take, redisVars, readVars, ackVars, runVars, history
    <2> QED  BY <2>1, <2>2, <2>3
  <1>19. ASSUME NEW c \in Consumers, Pull(c) PROVE LogInv'
    <2>1. CoverInv'
      BY <1>19, SameCover DEF Pull, Take, redisVars, readVars, ackVars, runVars, history
    <2>2. CursorInv'
      BY <1>19, SameCursor DEF Pull, redisVars, readVars, ackVars, runVars, history
    <2>3. AckInv'
      BY <1>19, SameAck DEF Pull, Take, redisVars, readVars, ackVars, runVars, history
    <2> QED  BY <2>1, <2>2, <2>3
  <1>20. ASSUME NEW c \in Consumers, NEW e \in Entries, Handle(c, e) PROVE LogInv'
    <2>1. CoverInv'
      BY <1>20, SameCover DEF Handle, Take, redisVars, readVars, ackVars, runVars, history
    <2>2. CursorInv'
      BY <1>20, SameCursor DEF Handle, redisVars, readVars, ackVars, runVars, history
    <2>3. AckInv'
      BY <1>20, SameAck DEF Handle, Take, redisVars, readVars, ackVars, runVars, history
    <2> QED  BY <2>1, <2>2, <2>3
  <1>21. ASSUME NEW c \in Consumers, NEW e \in Entries, CallHook(c, e) PROVE LogInv'
    <2>1. CoverInv'
      BY <1>21, SameCover DEF CallHook, Take, redisVars, readVars, ackVars, runVars, history
    <2>2. CursorInv'
      BY <1>21, SameCursor DEF CallHook, redisVars, readVars, ackVars, runVars, history
    <2>3. AckInv'
      <3>1. handled \subseteq handled' /\ e \in handled'
        BY <1>21 DEF CallHook
      <3>2. Ids(Append(pending[c], e)) \subseteq handled'
        BY <3>1, IdsAppend, SMTT(40) DEF TypeOK, AckInv
      <3>3. CASE client[c]
        BY <1>21, <1>s, <3>1, <3>2, <3>3, FlushAck DEF CallHook, Enqueue
      <3>4. CASE ~client[c]
        BY <1>21, <3>1, <3>4, SameAck DEF CallHook, ackVars
      <3> QED  BY <3>3, <3>4
    <2> QED  BY <2>1, <2>2, <2>3
  <1>22. ASSUME NEW c \in Consumers, FlushDeliveryAcks(c) PROVE LogInv'
    <2>1. CoverInv'
      BY <1>22, SameCover DEF FlushDeliveryAcks, Take, redisVars, readVars, ackVars, runVars, history
    <2>2. CursorInv'
      BY <1>22, SameCursor DEF FlushDeliveryAcks, redisVars, readVars, ackVars, runVars, history
    <2>3. AckInv'
      <3>1. handled' = handled /\ Ids(pending[c]) \subseteq handled
        BY <1>22 DEF FlushDeliveryAcks, AckInv, history
      <3> QED  BY <1>22, <1>s, <3>1, FlushAck DEF FlushDeliveryAcks
    <2> QED  BY <2>1, <2>2, <2>3
  <1>23. ASSUME NEW c \in Consumers, SaveCheckpoint(c) PROVE LogInv'
    <2>1. CoverInv'
      BY <1>23, SameCover DEF SaveCheckpoint, Take, redisVars, readVars, ackVars, runVars, history
    <2>2. CursorInv'
      <3> SUFFICES ASSUME NEW d \in Consumers
                   PROVE  /\ last'[d] <= seen' /\ resume'[d] <= seen' /\ saved'[d] <= seen'
                          /\ \A f \in batch'[d] : f <= seen'
        BY DEF CursorInv
      <3> QED  BY <1>23 DEF SaveCheckpoint, CursorInv, TypeOK, redisVars, readVars, ackVars, runVars, history
    <2>3. AckInv'
      BY <1>23, SameAck DEF SaveCheckpoint, Take, redisVars, readVars, ackVars, runVars, history
    <2> QED  BY <2>1, <2>2, <2>3
  <1>24. ASSUME NEW c \in Consumers, HandleFailure(c) PROVE LogInv'
    <2>1. CoverInv'
      <3>1. handled \subseteq handled' /\ {failed[c]} \subseteq handled' /\ seen' = seen
        BY <1>24 DEF HandleFailure
      <3>2. CASE XAck({failed[c]})
        BY <3>1, <3>2, XAckCover
      <3>3. CASE UNCHANGED redisVars
        BY <3>1, <3>3, SameCover DEF redisVars
      <3> QED  BY <1>24, <3>2, <3>3 DEF HandleFailure
    <2>2. CursorInv'
      BY <1>24, SameCursor DEF HandleFailure, redisVars, readVars, ackVars, runVars, history
    <2>3. AckInv'
      BY <1>24, SameAck DEF HandleFailure, Take, redisVars, readVars, ackVars, runVars, history
    <2> QED  BY <2>1, <2>2, <2>3
  <1>25. ASSUME NEW c \in Consumers, Cancel(c) PROVE LogInv'
    <2>1. CoverInv'
      BY <1>25, SameCover DEF Cancel, Take, redisVars, readVars, ackVars, runVars, history
    <2>2. CursorInv'
      BY <1>25, SameCursor DEF Cancel, redisVars, readVars, ackVars, runVars, history
    <2>3. AckInv'
      <3>1. handled' = handled /\ Ids(pending[c]) \subseteq handled
        BY <1>25 DEF Cancel, AckInv, history
      <3> QED  BY <1>25, <1>s, <3>1, FlushAck DEF Cancel
    <2> QED  BY <2>1, <2>2, <2>3
  <1>26. ASSUME NEW c \in Consumers, Close(c) PROVE LogInv'
    <2>1. CoverInv'
      BY <1>26, SameCover DEF Close, Take, redisVars, readVars, ackVars, runVars, history
    <2>2. CursorInv'
      <3> SUFFICES ASSUME NEW d \in Consumers
                   PROVE  /\ last'[d] <= seen' /\ resume'[d] <= seen' /\ saved'[d] <= seen'
                          /\ \A f \in batch'[d] : f <= seen'
        BY DEF CursorInv
      <3> QED  BY <1>26 DEF Close, CursorInv, TypeOK, redisVars, readVars, ackVars, runVars, history
    <2>3. AckInv'
      <3>1. handled' = handled /\ Ids(pending[c]) \subseteq handled
        BY <1>26 DEF Close, AckInv, history
      <3> QED  BY <1>26, <1>s, <3>1, FlushAck DEF Close
    <2> QED  BY <2>1, <2>2, <2>3
  <1>27. ASSUME NEW c \in Consumers, Crash(c) PROVE LogInv'
    <2>1. CoverInv'
      BY <1>27, SameCover DEF Crash, Take, redisVars, readVars, ackVars, runVars, history
    <2>2. CursorInv'
      <3> SUFFICES ASSUME NEW d \in Consumers
                   PROVE  /\ last'[d] <= seen' /\ resume'[d] <= seen' /\ saved'[d] <= seen'
                          /\ \A f \in batch'[d] : f <= seen'
        BY DEF CursorInv
      <3> QED  BY <1>27 DEF Crash, CursorInv, TypeOK, redisVars, readVars, ackVars, runVars, history
    <2>3. AckInv'
      <3> SUFFICES ASSUME NEW d \in Consumers, NEW u \in Tasks
                   PROVE  Ids(pending'[d]) \subseteq handled' /\ Ids(sent'[d][u]) \subseteq handled'
        BY DEF AckInv, Tasks
      <3>1. pending'[d] \in {<<>>, pending[d]} /\ sent'[d][u] \in {<<>>, sent[d][u]}
        BY <1>27 DEF Crash, TypeOK
      <3> QED  BY <1>27, <3>1, IdsEmpty DEF Crash, AckInv
    <2> QED  BY <2>1, <2>2, <2>3
  <1> QED
    BY <1>a, <1>1, <1>2, <1>3, <1>4, <1>5, <1>6, <1>7, <1>8, <1>9, <1>10, <1>11, <1>12, <1>13, <1>14, <1>15, <1>16, <1>17, <1>18, <1>19, <1>20, <1>21, <1>22, <1>23, <1>24, <1>25, <1>26, <1>27
       DEF Step, Lifecycle, Generate, Run, Settle

\* An entry the group has moved past, by reading or by XGROUP SETID, was handled or
\* is still pending: nothing is lost, for any number of consumers, entries, failed
\* calls, crashes and resumes.
THEOREM AtLeastOnce == Spec => []NothingLost
  <1>1. Init => LogInv
    <2> SUFFICES ASSUME Init PROVE LogInv
      OBVIOUS
    <2>1. TypeOK
      BY StreamAssumption, SMTT(60) DEF Init, TypeOK, StreamAssumption, Where, Tasks
    <2>2. CoverInv
      BY StreamAssumption DEF Init, CoverInv, Entries
    <2>3. CursorInv
      BY DEF Init, CursorInv
    <2>4. AckInv
      BY IdsEmpty DEF Init, AckInv
    <2> QED  BY <2>1, <2>2, <2>3, <2>4 DEF LogInv
  <1>2. LogInv /\ TypeOK' /\ [Next]_vars => LogInv'
    <2> SUFFICES ASSUME LogInv, TypeOK', [Next]_vars PROVE LogInv'
      OBVIOUS
    <2>1. CASE UNCHANGED vars
      BY <2>1, SameCover, SameCursor, SameAck
         DEF LogInv, vars, redisVars, readVars, ackVars, runVars, history
    <2>2. CASE Next
      BY <2>2, LogStep
    <2> QED  BY <2>1, <2>2
  <1>3. LogInv => NothingLost
    <2> SUFFICES ASSUME LogInv, NEW e \in Entries, e <= lastId
                 PROVE  e \in handled \/ pel[e] # NoOne
      BY DEF NothingLost
    <2>1. e \in Nat /\ lastId \in Nat /\ seen \in Nat /\ lastId <= seen
      BY DEF LogInv, TypeOK, CoverInv, Entries
    <2>2. e <= seen
      BY <2>1
    <2> QED  BY <2>2 DEF LogInv, CoverInv
  <1> QED  BY <1>1, <1>2, <1>3, TypeCorrect, PTL DEF Spec
-----------------------------------------------------------------------------
(* Acknowledgements.  AcksKept is not inductive: a flush replaces what its *)
(* task has sent, and a reconnect what it will send.  Neither forgets an   *)
(* id, because a task that begins a flush, or waits for a client, has sent *)
(* nothing, and because the generator and close() do nothing else while    *)
(* one of their flushes is under way.                                      *)

\* The ids the consumer c still has to acknowledge.
Held(c) == Ids(pending[c]) \cup UNION {Ids(sent[c][t]) : t \in Tasks}

\* A task that is not awaiting an XACK has sent nothing.
SentInv ==
    \A c \in Consumers, t \in Tasks : stage[c][t] \in {"idle", "reconnect"} => sent[c][t] = <<>>

\* Where the generator and close() may be while they await Redis.
Awaiting == {"poison", "drop", "reclaim", "read", "cancelled"}

PlaceInv ==
    \A c \in Consumers :
        /\ stage[c]["stream"] # "idle" => at[c] \in Awaiting
        /\ stage[c]["close"] # "idle" => at[c] = "closing"

KeptInv == SentInv /\ PlaceInv /\ AcksKept

\* What a task writes in its own cell leaves the other cells alone.
LEMMA CellUpdate ==
    ASSUME NEW V, NEW f \in [Consumers -> [Tasks -> V]], NEW c \in Consumers, NEW t \in Tasks,
           NEW x, NEW g, g = [f EXCEPT ![c][t] = x]
    PROVE  /\ g[c][t] = x
           /\ \A d \in Consumers, u \in Tasks : <<d, u>> # <<c, t>> => g[d][u] = f[d][u]
  OBVIOUS

\* What a step may do to the ids a consumer owes.
Keeps(d) ==
    /\ \A e \in owed'[d] : e \in owed[d] \/ e \in Held(d)'
    /\ \A e \in owed'[d] : pel[e] = NoOne => pel'[e] = NoOne \/ e \in Held(d)'
    /\ \A e \in owed'[d] : e \in Held(d) => pel'[e] = NoOne \/ e \in Held(d)'

LEMMA KeepsAll ==
    ASSUME AcksKept, \A d \in Consumers : Keeps(d)
    PROVE  AcksKept'
  <1>1. ASSUME NEW d \in Consumers, NEW e \in owed'[d]
        PROVE  pel'[e] = NoOne \/ e \in Held(d)'
    <2>1. e \in owed[d] => pel[e] = NoOne \/ e \in Held(d)
      BY DEF AcksKept, Held
    <2> QED  BY <1>1, <2>1 DEF Keeps
  <1> QED  BY <1>1 DEF AcksKept, Held

\* Steps that move no acknowledgement: the place changes only when nothing is awaited.
LEMMA QuietStep ==
    ASSUME KeptInv, TypeOK, TypeOK', UNCHANGED ackVars,
           \A d \in Consumers : \/ at'[d] = at[d]
                                \/ stage[d]["stream"] = "idle" /\ stage[d]["close"] = "idle",
           \A d \in Consumers, e \in Entries :
              e \in owed'[d] => e \in owed[d] /\ (pel[e] = NoOne => pel'[e] = NoOne)
    PROVE  KeptInv'
  <1>1. SentInv'
    BY DEF KeptInv, SentInv, ackVars
  <1>2. PlaceInv'
    BY DEF KeptInv, PlaceInv, ackVars
  <1>3. \A d \in Consumers : Held(d)' = Held(d)
    BY DEF Held, ackVars
  <1>4. \A d \in Consumers : Keeps(d)
    BY <1>3 DEF Keeps, TypeOK
  <1> QED  BY <1>1, <1>2, <1>4, KeepsAll DEF KeptInv

\* The flush of a task that has sent nothing.
LEMMA FlushKeeps ==
    ASSUME KeptInv, TypeOK, NEW c \in Consumers, NEW t \in Tasks, NEW p \in Seq(Entries),
           NEW due, Flush(c, t, p, due), stage[c][t] = "idle",
           Ids(pending[c]) \subseteq Ids(p)
    PROVE  /\ SentInv'
           /\ \A d \in Consumers : Held(d) \subseteq Held(d)'
           /\ Ids(p) \subseteq Held(c)'
           /\ \A d \in Consumers, u \in Tasks : <<d, u>> # <<c, t>> => stage'[d][u] = stage[d][u]
           /\ stage'[c][t] \in {"idle", "ack"}
  <1> DEFINE sends == due /\ client[c] /\ p # <<>>
  <1>1. /\ pending'[c] = IF sends THEN <<>> ELSE p
        /\ sent'[c][t] = IF sends THEN p ELSE <<>>
        /\ stage'[c][t] = IF sends THEN "ack" ELSE "idle"
    BY DEF Flush, TypeOK, KeptInv, SentInv
  <1>2. /\ \A d \in Consumers : d # c => pending'[d] = pending[d]
        /\ \A d \in Consumers, u \in Tasks : <<d, u>> # <<c, t>> =>
              sent'[d][u] = sent[d][u] /\ stage'[d][u] = stage[d][u]
    BY DEF Flush, TypeOK
  <1> HIDE DEF sends
  <1>3. sent[c][t] = <<>>
    BY DEF KeptInv, SentInv
  <1>4. Ids(p) \subseteq Held(c)'
    BY <1>1 DEF Held
  <1>5. Held(c) \subseteq Held(c)'
    <2>1. Held(c) \subseteq Ids(p) \cup UNION {Ids(sent[c][u]) : u \in Tasks \ {t}}
      BY <1>3, IdsEmpty DEF Held
    <2>2. \A u \in Tasks \ {t} : Ids(sent[c][u]) \subseteq Held(c)'
      BY <1>2 DEF Held
    <2> QED  BY <1>4, <2>1, <2>2
  <1>6. ASSUME NEW d \in Consumers, d # c PROVE Held(d) \subseteq Held(d)'
    BY <1>2, <1>6 DEF Held
  <1>7. SentInv'
    BY <1>1, <1>2 DEF KeptInv, SentInv
  <1> QED  BY <1>1, <1>2, <1>4, <1>5, <1>6, <1>7

\* A consumer at such a place awaits nothing.
LEMMA NothingAwaited ==
    ASSUME KeptInv, NEW c \in Consumers, at[c] \notin Awaiting \cup {"closing"}
    PROVE  stage[c]["stream"] = "idle" /\ stage[c]["close"] = "idle"
  BY DEF KeptInv, PlaceInv

\* XREADGROUP and XAUTOCLAIM: an entry that is delivered anew is no longer owed.
LEMMA DeliverKeeps ==
    ASSUME TypeOK, NEW c \in Consumers, NEW S, Deliver(c, S)
    PROVE  \A d \in Consumers, e \in Entries :
              e \in owed'[d] => e \in owed[d] /\ (pel[e] = NoOne => pel'[e] = NoOne)
  BY DEF Deliver, TypeOK

\* Steps of the generator, the runner and Redis that move no acknowledgement.
LEMMA QuietSteps ==
    ASSUME KeptInv, TypeOK, TypeOK', NEW c \in Consumers,
           \/ Open(c) \/ StreamBegin(c) \/ CheckConsumers(c) \/ SetId(c) \/ ResumeFails(c)
           \/ LoopTurn(c) \/ Reclaim(c) \/ Read(c) \/ BatchDone(c) \/ Pull(c)
           \/ \E e \in Entries : Yield(c, e) \/ Handle(c, e)
           \/ SaveCheckpoint(c) \/ HandleFailure(c)
    PROVE  KeptInv'
  <1>1. ASSUME UNCHANGED <<ackVars, pel, owed>>,
               at' = at \/ (at[c] \notin Awaiting \cup {"closing"}
                              /\ \A d \in Consumers \ {c} : at'[d] = at[d])
        PROVE  KeptInv'
    <2>1. \A d \in Consumers : \/ at'[d] = at[d]
                               \/ stage[d]["stream"] = "idle" /\ stage[d]["close"] = "idle"
      BY <1>1, NothingAwaited
    <2> QED  BY <1>1, <2>1, QuietStep
  <1>2. CASE \E e \in Entries : Yield(c, e)
    BY <1>1, <1>2 DEF Yield, Take, redisVars, history, TypeOK, Awaiting
  <1>3. CASE (\E e \in Entries : Handle(c, e)) \/ SaveCheckpoint(c)
    BY <1>1, <1>3 DEF Handle, SaveCheckpoint, redisVars, history
  <1>4. CASE Open(c) \/ StreamBegin(c) \/ CheckConsumers(c) \/ SetId(c) \/ ResumeFails(c)
    BY <1>1, <1>4 DEF Open, StreamBegin, CheckConsumers, SetId, ResumeFails, redisVars, history,
                      TypeOK, Awaiting
  <1>5. CASE LoopTurn(c) \/ BatchDone(c) \/ Pull(c)
    BY <1>1, <1>5 DEF LoopTurn, BatchDone, Pull, redisVars, history, TypeOK, Awaiting
  <1>6. CASE Reclaim(c) \/ Read(c)
    <2>1. /\ stage[c]["stream"] = "idle" /\ at[c] # "closing" /\ UNCHANGED ackVars
          /\ \A d \in Consumers \ {c} : at'[d] = at[d]
      BY <1>6 DEF Reclaim, Read, TypeOK
    <2>2. stage[c]["close"] = "idle"
      BY <2>1 DEF KeptInv, PlaceInv
    <2>3. \E S : Deliver(c, S)
      BY <1>6 DEF Reclaim, Read, ReadNew
    <2>4. \A d \in Consumers, f \in Entries :
              f \in owed'[d] => f \in owed[d] /\ (pel[f] = NoOne => pel'[f] = NoOne)
      BY <2>3, DeliverKeeps
    <2> QED  BY <2>1, <2>2, <2>4, QuietStep
  <1>7. CASE HandleFailure(c)
    <2>1. UNCHANGED <<ackVars, owed, at>>
      BY <1>7 DEF HandleFailure
    <2>2. \A f \in Entries : pel[f] = NoOne => pel'[f] = NoOne
      BY <1>7 DEF HandleFailure, XAck, redisVars
    <2> QED  BY <2>1, <2>2, QuietStep
  <1> QED  BY <1>2, <1>3, <1>4, <1>5, <1>6, <1>7

\* Redis hands out entries, the client sees an error.
LEMMA ReadFailsKeeps ==
    ASSUME KeptInv, TypeOK, TypeOK', NEW c \in Consumers, ReadFails(c)
    PROVE  KeptInv'
  <1>1. /\ at[c] \in {"read", "reclaim"} /\ stage[c]["stream"] = "idle"
        /\ UNCHANGED <<pending, sent>>
    BY DEF ReadFails
  <1>2. stage[c]["close"] = "idle" /\ sent[c]["stream"] = <<>>
    BY <1>1 DEF KeptInv, PlaceInv, SentInv, Tasks
  <1>3. \/ stage' = [stage EXCEPT ![c]["stream"] = "reconnect"] /\ at' = at
        \/ stage' = stage /\ at' = [at EXCEPT ![c] = "ended"]
    BY DEF ReadFails
  <1>3s. \A d \in Consumers, u \in Tasks : <<d, u>> # <<c, "stream">> => stage'[d][u] = stage[d][u]
    <2>1. stage \in [Consumers -> [Tasks -> Stages]] /\ "stream" \in Tasks
      BY DEF TypeOK, Stages, Tasks
    <2> QED  BY <1>3, <2>1, CellUpdate
  <1>4. SentInv'
    BY <1>1, <1>2, <1>3s DEF KeptInv, SentInv
  <1>5. PlaceInv'
    <2>1. \A d \in Consumers \ {c} : at'[d] = at[d]
      BY <1>3 DEF TypeOK
    <2>2. at'[c] = at[c] \/ (at'[c] = "ended" /\ stage' = stage)
      BY <1>3 DEF TypeOK
    <2> QED  BY <1>1, <1>2, <1>3s, <2>1, <2>2 DEF KeptInv, PlaceInv, Tasks, Awaiting
  <1>6. \A d \in Consumers, e \in Entries :
              e \in owed'[d] => e \in owed[d] /\ (pel[e] = NoOne => pel'[e] = NoOne)
    <2>1. UNCHANGED <<pel, owed>> \/ \E S : Deliver(c, S)
      BY DEF ReadFails, ReadNew, redisVars
    <2> QED  BY <2>1, DeliverKeeps
  <1>7. \A d \in Consumers : Held(d)' = Held(d)
    BY <1>1 DEF Held
  <1>8. \A d \in Consumers : Keeps(d)
    BY <1>6, <1>7 DEF Keeps, TypeOK
  <1> QED  BY <1>4, <1>5, <1>8, KeepsAll DEF KeptInv

\* A flush that an action of c begins.
LEMMA FlushStep ==
    ASSUME KeptInv, TypeOK, TypeOK', NEW c \in Consumers, NEW t \in Tasks,
           NEW p \in Seq(Entries), NEW due, Flush(c, t, p, due), stage[c][t] = "idle",
           Ids(pending[c]) \subseteq Ids(p), pel' = pel,
           \A d \in Consumers \ {c} : at'[d] = at[d] /\ owed'[d] = owed[d],
           owed'[c] \subseteq owed[c] \cup Ids(p),
           \/ /\ at'[c] = at[c] /\ t = "hook"
           \/ /\ t = "stream" /\ stage[c]["close"] = "idle"
              /\ stage'[c]["stream"] = "ack" => at'[c] \in Awaiting
           \/ /\ t = "close" /\ stage[c]["stream"] = "idle"
              /\ stage'[c]["close"] = "ack" => at'[c] = "closing"
    PROVE  KeptInv'
  <1>1. /\ SentInv'
        /\ \A d \in Consumers : Held(d) \subseteq Held(d)'
        /\ Ids(p) \subseteq Held(c)'
        /\ \A d \in Consumers, u \in Tasks : <<d, u>> # <<c, t>> => stage'[d][u] = stage[d][u]
        /\ stage'[c][t] \in {"idle", "ack"}
    BY FlushKeeps
  <1>2. PlaceInv'
    BY <1>1 DEF KeptInv, PlaceInv, Tasks
  <1>3. \A d \in Consumers : Keeps(d)
    BY <1>1 DEF Keeps
  <1> QED  BY <1>1, <1>2, <1>3, KeepsAll DEF KeptInv

\* The actions that begin one.
LEMMA FlushSteps ==
    ASSUME KeptInv, TypeOK, TypeOK', NEW c \in Consumers,
           \/ \E e \in Entries : DropPoison(c, e) \/ RaisePoison(c, e) \/ CallHook(c, e)
           \/ FlushDeliveryAcks(c) \/ Cancel(c) \/ Close(c)
    PROVE  KeptInv'
  <1>0. "stream" \in Tasks /\ "hook" \in Tasks /\ "close" \in Tasks
    BY DEF Tasks
  <1>1. pending[c] \in Seq(Entries)
    BY DEF TypeOK
  <1>2. ASSUME NEW e \in Entries, NEW t \in Tasks, Enqueue(c, t, e), stage[c][t] = "idle",
               pel' = pel, \A d \in Consumers \ {c} : at'[d] = at[d],
               \/ at'[c] = at[c] /\ t = "hook"
               \/ /\ t = "stream" /\ stage[c]["close"] = "idle"
                  /\ stage'[c]["stream"] = "ack" => at'[c] \in Awaiting
        PROVE  KeptInv'
    <2> DEFINE p == Append(pending[c], e)
    <2>1. p \in Seq(Entries) /\ Ids(p) = Ids(pending[c]) \cup {e}
      BY <1>1, IdsAppend
    <2>2. /\ Flush(c, t, p, Len(pending[c]) + 1 >= AckBatch)
          /\ \A d \in Consumers : owed'[d] = IF d = c THEN owed[d] \cup {e} ELSE owed[d]
      BY <1>2 DEF Enqueue, TypeOK
    <2> HIDE DEF p
    <2> QED  BY <1>2, <2>1, <2>2, FlushStep
  <1>3. ASSUME NEW e \in Entries, DropPoison(c, e) PROVE KeptInv'
    <2>1. /\ Enqueue(c, "stream", e) /\ pel' = pel /\ at[c] = "entries"
          /\ at' = [at EXCEPT ![c] = IF stage'[c]["stream"] = "ack" THEN "drop" ELSE "entries"]
      BY <1>3 DEF DropPoison, Take, redisVars
    <2>2. stage[c]["stream"] = "idle" /\ stage[c]["close"] = "idle"
      BY <2>1, NothingAwaited DEF Awaiting
    <2>3. /\ \A d \in Consumers \ {c} : at'[d] = at[d]
          /\ stage'[c]["stream"] = "ack" => at'[c] \in Awaiting
      BY <2>1 DEF TypeOK, Awaiting
    <2> QED  BY <1>0, <1>2, <2>1, <2>2, <2>3
  <1>4. ASSUME NEW e \in Entries, RaisePoison(c, e) PROVE KeptInv'
    <2>1. /\ Flush(c, "stream", pending[c], TRUE) /\ pel' = pel /\ owed' = owed /\ at[c] = "entries"
          /\ at' = [at EXCEPT ![c] = IF stage'[c]["stream"] = "ack" THEN "poison" ELSE "raised"]
      BY <1>4 DEF RaisePoison, Take, redisVars, history
    <2>2. stage[c]["stream"] = "idle" /\ stage[c]["close"] = "idle"
      BY <2>1, NothingAwaited DEF Awaiting
    <2>3. /\ \A d \in Consumers \ {c} : at'[d] = at[d]
          /\ stage'[c]["stream"] = "ack" => at'[c] \in Awaiting
      BY <2>1 DEF TypeOK, Awaiting
    <2> QED  BY <1>0, <1>1, <2>1, <2>2, <2>3, FlushStep
  <1>5. ASSUME NEW e \in Entries, CallHook(c, e) PROVE KeptInv'
    <2>1. stage[c]["hook"] = "idle" /\ pel' = pel /\ at' = at
      BY <1>5 DEF CallHook, redisVars
    <2>2. CASE Enqueue(c, "hook", e)
      BY <1>0, <1>2, <2>1, <2>2
    <2>3. CASE UNCHANGED <<ackVars, owed>>
      BY <2>1, <2>3, QuietStep
    <2> QED  BY <1>5, <2>2, <2>3 DEF CallHook
  <1>6. CASE FlushDeliveryAcks(c)
    <2>1. /\ stage[c]["hook"] = "idle" /\ pel' = pel /\ at' = at /\ owed' = owed
          /\ Flush(c, "hook", pending[c], TRUE)
      BY <1>6 DEF FlushDeliveryAcks, redisVars, history
    <2> QED  BY <1>0, <1>1, <2>1, FlushStep
  <1>7. CASE Cancel(c)
    <2>1. /\ Flush(c, "stream", pending[c], at[c] = "read") /\ pel' = pel /\ owed' = owed
          /\ at[c] \in {"yielded", "raised", "read", "reclaim"}
          /\ at[c] \in {"read", "reclaim"} => stage[c]["stream"] = "idle"
          /\ at' = [at EXCEPT ![c] = IF stage'[c]["stream"] = "ack" THEN "cancelled" ELSE "ended"]
      BY <1>7 DEF Cancel, redisVars, history
    <2>2. stage[c]["stream"] = "idle" /\ stage[c]["close"] = "idle"
      BY <2>1 DEF KeptInv, PlaceInv, Awaiting
    <2>3. /\ \A d \in Consumers \ {c} : at'[d] = at[d]
          /\ stage'[c]["stream"] = "ack" => at'[c] \in Awaiting
      BY <2>1 DEF TypeOK, Awaiting
    <2> QED  BY <1>0, <1>1, <2>1, <2>2, <2>3, FlushStep
  <1>8. CASE Close(c)
    <2>1. /\ Flush(c, "close", pending[c], TRUE) /\ pel' = pel /\ owed' = owed
          /\ at[c] = "ended" /\ stage[c]["close"] = "idle"
          /\ at' = [at EXCEPT ![c] = IF stage'[c]["close"] = "ack" THEN "closing" ELSE "off"]
      BY <1>8 DEF Close, redisVars, history
    <2>2. stage[c]["stream"] = "idle"
      BY <2>1 DEF KeptInv, PlaceInv, Awaiting
    <2>3. /\ \A d \in Consumers \ {c} : at'[d] = at[d]
          /\ stage'[c]["close"] = "ack" => at'[c] = "closing"
      BY <2>1 DEF TypeOK
    <2> QED  BY <1>0, <1>1, <2>1, <2>2, <2>3, FlushStep
  <1> QED  BY <1>3, <1>4, <1>5, <1>6, <1>7, <1>8

\* A crash: the dead process owes nothing.
LEMMA CrashKeeps ==
    ASSUME KeptInv, TypeOK, TypeOK', NEW c \in Consumers, Crash(c)
    PROVE  KeptInv'
  <1>1. /\ \A t \in Tasks : stage'[c][t] = "idle" /\ sent'[c][t] = <<>>
        /\ owed'[c] = {} /\ pel' = pel
        /\ \A d \in Consumers \ {c} :
              /\ stage'[d] = stage[d] /\ sent'[d] = sent[d] /\ pending'[d] = pending[d]
              /\ owed'[d] = owed[d] /\ at'[d] = at[d]
    BY DEF Crash, TypeOK, redisVars
  <1>2. SentInv'
    BY <1>1 DEF KeptInv, SentInv
  <1>3. PlaceInv'
    BY <1>1 DEF KeptInv, PlaceInv, Tasks
  <1>4. \A d \in Consumers : Keeps(d)
    BY <1>1 DEF Keeps, Held
  <1> QED  BY <1>2, <1>3, <1>4, KeepsAll DEF KeptInv

\* The end of a flush or of a reconnect: what the task had sent is back in the list p or
\* out of the pending list.
LEMMA FinishKeeps ==
    ASSUME KeptInv, TypeOK, TypeOK', NEW c \in Consumers, NEW t \in Tasks, NEW ok,
           stage[c][t] # "idle", Finish(c, t, ok), owed' = owed,
           \A e \in Entries : pel[e] = NoOne => pel'[e] = NoOne,
           \A d \in Consumers \ {c} : pending'[d] = pending[d],
           Ids(pending[c]) \subseteq Ids(pending'[c]),
           \A e \in Ids(sent[c][t]) : pel'[e] = NoOne \/ e \in Ids(pending'[c])
    PROVE  KeptInv'
  <1>1. /\ stage'[c][t] = "idle" /\ sent'[c][t] = <<>>
        /\ \A d \in Consumers, u \in Tasks : <<d, u>> # <<c, t>> =>
              sent'[d][u] = sent[d][u] /\ stage'[d][u] = stage[d][u]
    <2>1. /\ stage \in [Consumers -> [Tasks -> Stages]]
          /\ sent \in [Consumers -> [Tasks -> Seq(Entries)]]
      BY DEF TypeOK, Stages
    <2>2. /\ stage' = [stage EXCEPT ![c][t] = "idle"]
          /\ sent' = [sent EXCEPT ![c][t] = <<>>]
      BY DEF Finish
    <2> QED  BY <2>1, <2>2, CellUpdate
  <1>2. /\ \A d \in Consumers \ {c} : at'[d] = at[d]
        /\ t = "hook" => at' = at
    BY DEF Finish, TypeOK
  <1>3. SentInv'
    BY <1>1 DEF KeptInv, SentInv
  <1>4. PlaceInv'
    <2>1. t = "stream" => stage[c]["close"] = "idle"
      BY DEF KeptInv, PlaceInv, Awaiting
    <2>2. t = "close" => stage[c]["stream"] = "idle"
      BY DEF KeptInv, PlaceInv, Awaiting
    <2>3. ASSUME NEW d \in Consumers
          PROVE  /\ stage'[d]["stream"] # "idle" => at'[d] \in Awaiting
                 /\ stage'[d]["close"] # "idle" => at'[d] = "closing"
      <3>1. CASE d # c
        BY <1>1, <1>2, <3>1 DEF KeptInv, PlaceInv, Tasks
      <3>2. CASE d = c /\ t = "hook"
        BY <1>1, <1>2, <3>2 DEF KeptInv, PlaceInv, Tasks
      <3>3. CASE d = c /\ t \in {"stream", "close"}
        BY <1>1, <2>1, <2>2, <3>3 DEF Tasks
      <3> QED  BY <3>1, <3>2, <3>3 DEF Tasks
    <2> QED  BY <2>3 DEF PlaceInv
  <1>5. ASSUME NEW d \in Consumers PROVE Keeps(d)
    <2>1. CASE d # c
      <3>1. Held(d)' = Held(d)
        BY <1>1, <2>1 DEF Held
      <3> QED  BY <3>1 DEF Keeps, TypeOK
    <2>2. CASE d = c
      <3>1. ASSUME NEW e \in Held(c) PROVE pel'[e] = NoOne \/ e \in Held(c)'
        <4>1. CASE e \in Ids(pending[c]) \/ e \in Ids(sent[c][t])
          BY <4>1 DEF Held
        <4>2. CASE \E u \in Tasks \ {t} : e \in Ids(sent[c][u])
          BY <1>1, <4>2 DEF Held
        <4> QED  BY <3>1, <4>1, <4>2 DEF Held
      <3> QED  BY <2>2, <3>1 DEF Keeps, TypeOK
    <2> QED  BY <2>1, <2>2
  <1> QED  BY <1>3, <1>4, <1>5, KeepsAll DEF KeptInv

LEMMA SettleKeeps ==
    ASSUME KeptInv, TypeOK, TypeOK', NEW c \in Consumers, NEW t \in Tasks, Settle(c, t)
    PROVE  KeptInv'
  <1>0. sent[c][t] \in Seq(Entries) /\ pending[c] \in Seq(Entries)
    BY DEF TypeOK
  <1>a. /\ stage \in [Consumers -> [Tasks -> Stages]]
        /\ sent \in [Consumers -> [Tasks -> Seq(Entries)]]
    BY DEF TypeOK, Stages
  <1>1. CASE AckReturns(c, t)
    <2>1. /\ stage[c][t] # "idle" /\ XAck(Ids(sent[c][t])) /\ Finish(c, t, TRUE)
          /\ owed' = owed /\ pending' = pending
      BY <1>1 DEF AckReturns, history
    <2>2. \A e \in Ids(sent[c][t]) : pel'[e] = NoOne
      BY <1>0, <2>1, IdsType DEF XAck
    <2>3. \A e \in Entries : pel[e] = NoOne => pel'[e] = NoOne
      BY <2>1 DEF XAck
    <2> QED  BY <2>1, <2>2, <2>3, FinishKeeps
  <1>2. CASE AckFails(c, t)
    <2>1. /\ stage[c][t] \in {"ack", "again"} /\ owed' = owed
          /\ pending' = [pending EXCEPT ![c] = sent[c][t] \o pending[c]]
          /\ pel' = pel \/ XAck(Ids(sent[c][t]))
      BY <1>2 DEF AckFails, Restored, redisVars, history
    <2>2. \A e \in Entries : pel[e] = NoOne => pel'[e] = NoOne
      BY <2>1 DEF XAck
    <2>3. /\ \A d \in Consumers \ {c} : pending'[d] = pending[d]
          /\ Ids(pending'[c]) = Ids(sent[c][t]) \cup Ids(pending[c])
      <3>1. /\ pending'[c] = sent[c][t] \o pending[c]
            /\ \A d \in Consumers \ {c} : pending'[d] = pending[d]
        BY <2>1 DEF TypeOK
      <3> QED  BY <1>0, <3>1, IdsConcat
    <2>4. CASE Finish(c, t, FALSE)
      BY <2>1, <2>2, <2>3, <2>4, FinishKeeps
    <2>5. CASE /\ stage' = [stage EXCEPT ![c][t] = "reconnect"]
               /\ sent' = [sent EXCEPT ![c][t] = <<>>] /\ at' = at
      <3>1. /\ stage'[c][t] = "reconnect" /\ sent'[c][t] = <<>>
            /\ \A d \in Consumers, u \in Tasks : <<d, u>> # <<c, t>> =>
                  sent'[d][u] = sent[d][u] /\ stage'[d][u] = stage[d][u]
        BY <1>a, <2>5, CellUpdate
      <3>2. SentInv'
        BY <3>1 DEF KeptInv, SentInv
      <3>3. PlaceInv'
        BY <2>1, <2>5, <3>1 DEF KeptInv, PlaceInv, Tasks
      <3>4. ASSUME NEW d \in Consumers PROVE Held(d) \subseteq Held(d)'
        <4>1. CASE d # c
          BY <2>3, <3>1, <4>1 DEF Held
        <4>2. ASSUME NEW u \in Tasks PROVE Ids(sent[c][u]) \subseteq Held(c)'
          <5>1. CASE u = t
            BY <2>3, <5>1 DEF Held
          <5>2. CASE u # t
            BY <3>1, <5>2 DEF Held
          <5> QED  BY <5>1, <5>2
        <4>3. Ids(pending[c]) \subseteq Held(c)'
          BY <2>3 DEF Held
        <4> QED  BY <4>1, <4>2, <4>3 DEF Held
      <3>5. \A d \in Consumers : Keeps(d)
        BY <2>1, <2>2, <3>4 DEF Keeps, TypeOK
      <3> QED  BY <3>2, <3>3, <3>5, KeepsAll DEF KeptInv
    <2> QED  BY <1>2, <2>4, <2>5 DEF AckFails
  <1>3. CASE Reconnected(c, t)
    <2>1. stage[c][t] = "reconnect" /\ sent[c][t] = <<>> /\ UNCHANGED <<pel, owed>>
      BY <1>3 DEF Reconnected, KeptInv, SentInv, redisVars, history
    <2>2. CASE Finish(c, t, TRUE) /\ UNCHANGED pending
      BY <2>1, <2>2, FinishKeeps, IdsEmpty
    <2>3. CASE /\ stage' = [stage EXCEPT ![c][t] = "again"]
               /\ sent' = [sent EXCEPT ![c][t] = pending[c]]
               /\ pending' = [pending EXCEPT ![c] = <<>>] /\ at' = at
      <3>a. /\ stage'[c][t] = "again" /\ sent'[c][t] = pending[c]
            /\ \A d \in Consumers, u \in Tasks : <<d, u>> # <<c, t>> =>
                  sent'[d][u] = sent[d][u] /\ stage'[d][u] = stage[d][u]
        BY <1>a, <2>3, CellUpdate
      <3>1. /\ stage'[c][t] = "again" /\ sent'[c][t] = pending[c]
            /\ \A d \in Consumers \ {c} : pending'[d] = pending[d]
            /\ \A d \in Consumers, u \in Tasks : <<d, u>> # <<c, t>> =>
                  sent'[d][u] = sent[d][u] /\ stage'[d][u] = stage[d][u]
        BY <2>3, <3>a DEF TypeOK
      <3>2. SentInv'
        BY <3>1 DEF KeptInv, SentInv
      <3>3. PlaceInv'
        BY <2>1, <2>3, <3>1 DEF KeptInv, PlaceInv, Tasks
      <3>4. ASSUME NEW d \in Consumers PROVE Held(d) \subseteq Held(d)'
        <4>1. CASE d # c
          BY <3>1, <4>1 DEF Held
        <4>2. ASSUME NEW u \in Tasks PROVE Ids(sent[c][u]) \subseteq Held(c)'
          <5>1. CASE u = t
            BY <2>1, <5>1, IdsEmpty
          <5>2. CASE u # t
            BY <3>1, <5>2 DEF Held
          <5> QED  BY <5>1, <5>2
        <4>3. Ids(pending[c]) \subseteq Held(c)'
          BY <3>1 DEF Held
        <4> QED  BY <4>1, <4>2, <4>3 DEF Held
      <3>5. \A d \in Consumers : Keeps(d)
        BY <2>1, <3>4 DEF Keeps, TypeOK
      <3> QED  BY <3>2, <3>3, <3>5, KeepsAll DEF KeptInv
    <2> QED  BY <1>3, <2>2, <2>3 DEF Reconnected
  <1>4. CASE ReconnectFails(c, t)
    <2>1. /\ stage[c][t] = "reconnect" /\ sent[c][t] = <<>> /\ UNCHANGED <<pel, owed, pending>>
          /\ Finish(c, t, FALSE)
      BY <1>4 DEF ReconnectFails, KeptInv, SentInv, redisVars, history
    <2> QED  BY <2>1, FinishKeeps, IdsEmpty
  <1> QED  BY <1>1, <1>2, <1>3, <1>4 DEF Settle

\* An acknowledgement that enqueue_ack() accepted is in the list, on its way or done,
\* as long as the process lives: no flush, failed XACK or reconnect of any task of any
\* consumer forgets it.
THEOREM NoAckForgotten == Spec => []AcksKept
  <1>1. Init => KeptInv
    BY DEF Init, KeptInv, SentInv, PlaceInv, AcksKept, Tasks
  <1>2. KeptInv /\ TypeOK /\ TypeOK' /\ [Next]_vars => KeptInv'
    <2> SUFFICES ASSUME KeptInv, TypeOK, TypeOK', [Next]_vars PROVE KeptInv'
      OBVIOUS
    <2>1. CASE UNCHANGED vars
      BY <2>1, QuietStep DEF vars, redisVars, history
    <2>2. ASSUME NEW e \in Entries, Age(e) PROVE KeptInv'
      <3>1. UNCHANGED <<ackVars, at, pel, owed>>
        BY <2>2 DEF Age, history
      <3> QED  BY <3>1, QuietStep
    <2>3. ASSUME NEW c \in Consumers, Lifecycle(c) \/ Generate(c) \/ Run(c) PROVE KeptInv'
      BY <2>3, CrashKeeps, ReadFailsKeeps, QuietSteps, FlushSteps DEF Lifecycle, Generate, Run
    <2>4. ASSUME NEW c \in Consumers, NEW t \in Tasks, Settle(c, t) PROVE KeptInv'
      BY <2>4, SettleKeeps
    <2> QED  BY <2>1, <2>2, <2>3, <2>4 DEF Next, Step
  <1>3. KeptInv => AcksKept
    BY DEF KeptInv
  <1> QED  BY <1>1, <1>2, <1>3, TypeCorrect, PTL DEF Spec
=============================================================================
