------------------------ MODULE WorkerLeasesProofs ------------------------
(***************************************************************************)
(* Type correctness, quiescence after stop(), the uniqueness of fencing    *)
(* tokens, the local fallback and the stability of a running lease, for    *)
(* any number of workers, pipelines, tokens and faults.                    *)
(***************************************************************************)
EXTENDS WorkerLeases, TLAPS

\* What TypeOK says of one task's slot, in the form the provers need.
LEMMA SlotType ==
    ASSUME TypeOK, NEW w \in Workers, NEW t \in Tasks
    PROVE  /\ io[w][t] = Idle \/ io[w][t] \in Command
           /\ io[w][t] # Idle => /\ io[w][t].op \in Ops
                                 /\ io[w][t].p \in Pipelines
                                 /\ io[w][t].tok \in Nat
                                 /\ io[w][t].done \in BOOLEAN
                                 /\ io[w][t].ret \in Nat
BY DEF TypeOK, Command

\* A reply is a token.
LEMMA ReplyType ==
    ASSUME TypeOK, NEW w \in Workers, NEW op \in Ops, NEW p \in Pipelines,
           NEW tok \in Nat
    PROVE  Reply(w, op, p, tok) \in Nat
BY DEF TypeOK, Reply

\* The scripts keep the types of the two Redis variables.
LEMMA RunScriptType ==
    ASSUME TypeOK, NEW w \in Workers, NEW op \in Ops, NEW p \in Pipelines,
           NEW tok \in Nat, RunScript(w, op, p, tok)
    PROVE  /\ leaseKey' \in [Pipelines -> [worker : Workers, token : Nat] \cup {NoLease}]
           /\ fence' \in [Pipelines -> Nat]
           /\ expired' = expired
<1>0. expired' = expired
  BY DEF RunScript, AcquireScript, ReleaseScript, redisVars
<1>1. CASE op = "acquire"
  <2>1. AcquireScript(w, p)
    BY <1>1 DEF RunScript
  <2>2. [worker |-> w, token |-> fence[p] + 1] \in [worker : Workers, token : Nat]
    BY DEF TypeOK
  <2>3. CASE leaseKey[p] = NoLease
    <3>1. /\ fence \in [Pipelines -> Nat]
          /\ leaseKey \in [Pipelines -> [worker : Workers, token : Nat] \cup {NoLease}]
      BY DEF TypeOK
    <3>2. /\ fence' = [fence EXCEPT ![p] = fence[p] + 1]
          /\ leaseKey' = [leaseKey EXCEPT ![p] = [worker |-> w, token |-> fence[p] + 1]]
      BY <2>1, <2>3 DEF AcquireScript
    <3>3. fence' \in [Pipelines -> Nat]
      BY <3>1, <3>2
    <3>4. leaseKey' \in [Pipelines -> [worker : Workers, token : Nat] \cup {NoLease}]
      BY <2>2, <3>1, <3>2
    <3> QED BY <1>0, <3>3, <3>4
  <2>4. CASE leaseKey[p] # NoLease
    BY <1>0, <2>1, <2>4 DEF AcquireScript, TypeOK, redisVars
  <2> QED BY <2>3, <2>4
<1>2. CASE op = "release"
  <2>1. ReleaseScript(w, p, tok)
    BY <1>2 DEF RunScript
  <2> QED BY <1>0, <2>1 DEF ReleaseScript, TypeOK
<1>3. CASE op # "acquire" /\ op # "release"
  <2>1. UNCHANGED redisVars
    BY <1>3 DEF RunScript
  <2> QED BY <1>0, <2>1 DEF TypeOK, redisVars
<1> QED BY <1>0, <1>1, <1>2, <1>3

\* Abandoned commands are well formed.
LEMMA UnexecutedType ==
    ASSUME NEW w \in Workers, NEW S \in SUBSET (Command \cup {Idle})
    PROVE  Unexecuted(w, S)
             \subseteq [worker : Workers, op : Ops, p : Pipelines, tok : Nat]
BY DEF Unexecuted, Command

\* Sending and returning keep the type of io.
LEMMA SendType ==
    ASSUME TypeOK, NEW w \in Workers, NEW t \in Tasks, NEW op \in Ops,
           NEW p \in Pipelines, NEW tok \in Nat, Send(w, t, op, p, tok)
    PROVE  io' \in [Workers -> [Tasks -> Command \cup {Idle}]]
<1>1. [op |-> op, p |-> p, tok |-> tok, done |-> FALSE, ret |-> 0] \in Command
  BY DEF Command
<1> QED BY <1>1 DEF TypeOK, Send

LEMMA ReturnType ==
    ASSUME TypeOK, NEW w \in Workers, NEW t \in Tasks, Return(w, t)
    PROVE  io' \in [Workers -> [Tasks -> Command \cup {Idle}]]
BY DEF TypeOK, Return

-----------------------------------------------------------------------------
\* Every step of the coordinator, of the runner and of Redis keeps the types.
LEMMA TypeStep == TypeOK /\ [Next]_vars => TypeOK'
<1> SUFFICES ASSUME TypeOK, [Next]_vars PROVE TypeOK'
  OBVIOUS
<1> USE ConstantAssumption
<1>1. ASSUME NEW w \in Workers, WorkerStep(w) PROVE TypeOK'
  <2>1. CASE Start(w)
    BY <2>1 DEF TypeOK, Start
  <2>2. CASE StartLocal(w)
    BY <2>2 DEF TypeOK, StartLocal
  <2>3. CASE StopLocal(w)
    BY <2>3 DEF TypeOK, StopLocal
  <2>4. CASE StopBegin(w)
    <3>1. LoopTask \in Tasks
      BY DEF Tasks
    <3>2. io' \in [Workers -> [Tasks -> Command \cup {Idle}]]
      BY <2>4, <3>1, ReturnType DEF StopBegin
    <3>3. late' \subseteq [worker : Workers, op : Ops, p : Pipelines, tok : Nat]
      <4>1. {io[w][LoopTask]} \in SUBSET (Command \cup {Idle})
        BY <3>1 DEF TypeOK
      <4>2. Unexecuted(w, {io[w][LoopTask]})
              \subseteq [worker : Workers, op : Ops, p : Pipelines, tok : Nat]
        BY <4>1, UnexecutedType
      <4> QED BY <2>4, <4>2 DEF StopBegin, TypeOK
    <3>4. ActivePipelines(w) \subseteq Pipelines
      BY DEF ActivePipelines
    <3> QED BY <2>4, <3>2, <3>3, <3>4 DEF TypeOK, StopBegin
  <2>5. CASE StopReleaseReturn(w)
    <3>1. StopTask \in Tasks
      BY DEF Tasks
    <3> QED BY <2>5, <3>1, ReturnType DEF TypeOK, StopReleaseReturn
  <2>6. CASE StopFinish(w)
    BY <2>6 DEF TypeOK, StopFinish
  <2>7. CASE Crash(w)
    <3>1. late' \subseteq [worker : Workers, op : Ops, p : Pipelines, tok : Nat]
      <4>1. {io[w][t] : t \in Tasks} \in SUBSET (Command \cup {Idle})
        BY DEF TypeOK
      <4> QED BY <2>7, <4>1, UnexecutedType DEF Crash, TypeOK
    <3>2. io' \in [Workers -> [Tasks -> Command \cup {Idle}]]
      BY <2>7 DEF Crash, TypeOK, NoIo
    <3>3. /\ lease_tokens' \in [Workers -> [Pipelines -> Nat]]
          /\ local_fencing_tokens' \in [Workers -> [Pipelines -> Nat]]
          /\ run' \in [Workers -> [Pipelines -> Nat]]
      BY <2>7 DEF Crash, TypeOK
    <3>4. /\ loop' \in [Workers -> {"off", "sleeping", "busy"}]
          /\ loopTodo' \in [Workers -> SUBSET Pipelines]
          /\ stopTodo' \in [Workers -> SUBSET Pipelines]
      BY <2>7 DEF Crash, TypeOK
    <3>5. faults' \in Nat /\ phase' \in [Workers -> {"new", "running", "local", "stopping", "stopped"}]
      BY <2>7 DEF Crash, TypeOK
    <3>6. UNCHANGED redisVars
      BY <2>7 DEF Crash
    <3> QED BY <3>1, <3>2, <3>3, <3>4, <3>5, <3>6 DEF TypeOK, redisVars
  <2>8. CASE LoopWake(w)
    <3>1. ActivePipelines(w) \subseteq Pipelines
      BY DEF ActivePipelines
    <3> QED BY <2>8, <3>1 DEF TypeOK, LoopWake
  <2>9. CASE LoopCycleEnd(w)
    BY <2>9 DEF TypeOK, LoopCycleEnd
  <2>10. CASE LoopDeadline(w)
    <3>1. LoopTask \in Tasks
      BY DEF Tasks
    <3>2. io' \in [Workers -> [Tasks -> Command \cup {Idle}]]
      BY <2>10, <3>1, ReturnType DEF LoopDeadline
    <3>3. late' \subseteq [worker : Workers, op : Ops, p : Pipelines, tok : Nat]
      <4>1. {io[w][LoopTask]} \in SUBSET (Command \cup {Idle})
        BY <3>1 DEF TypeOK
      <4>2. Unexecuted(w, {io[w][LoopTask]})
              \subseteq [worker : Workers, op : Ops, p : Pipelines, tok : Nat]
        BY <4>1, UnexecutedType
      <4> QED BY <2>10, <4>2 DEF LoopDeadline, TypeOK
    <3>4. /\ lease_tokens' \in [Workers -> [Pipelines -> Nat]]
          /\ loop' \in [Workers -> {"off", "sleeping", "busy"}]
          /\ loopTodo' \in [Workers -> SUBSET Pipelines]
          /\ faults' \in Nat
      BY <2>10 DEF LoopDeadline, TypeOK
    <3> QED BY <2>10, <3>2, <3>3, <3>4 DEF TypeOK, LoopDeadline
  <2> QED BY <1>1, <2>1, <2>2, <2>3, <2>4, <2>5, <2>6, <2>7, <2>8, <2>9, <2>10
          DEF WorkerStep
<1>2. ASSUME NEW w \in Workers, NEW p \in Pipelines, PipelineStep(w, p)
      PROVE  TypeOK'
  <2> p \in Tasks /\ LoopTask \in Tasks /\ StopTask \in Tasks
    BY DEF Tasks
  <2> "acquire" \in Ops /\ "release" \in Ops /\ "validate" \in Ops /\ "renew" \in Ops
    BY DEF Ops
  <2> lease_tokens[w][p] \in Nat /\ run[w][p] \in Nat
    BY DEF TypeOK
  <2>1. CASE TryAcquire(w, p)
    BY <2>1, SendType DEF TypeOK, TryAcquire
  <2>2. CASE TryAcquireReturn(w, p)
    <3>1. io' \in [Workers -> [Tasks -> Command \cup {Idle}]]
      BY <2>2, ReturnType DEF TryAcquireReturn
    <3>2. io[w][p].ret \in Nat
      BY <2>2, SlotType DEF TryAcquireReturn
    <3>3. /\ lease_tokens' \in [Workers -> [Pipelines -> Nat]]
          /\ run' \in [Workers -> [Pipelines -> Nat]]
      <4>1. /\ lease_tokens \in [Workers -> [Pipelines -> Nat]]
            /\ run \in [Workers -> [Pipelines -> Nat]]
        BY DEF TypeOK
      <4>2. CASE io[w][p].ret = 0
        BY <2>2, <4>1, <4>2 DEF TryAcquireReturn
      <4>3. CASE io[w][p].ret # 0
        <5>1. /\ lease_tokens' = [lease_tokens EXCEPT ![w][p] = io[w][p].ret]
              /\ run' = [run EXCEPT ![w][p] = io[w][p].ret]
          BY <2>2, <4>3 DEF TryAcquireReturn
        <5> QED BY <3>2, <4>1, <5>1
      <4> QED BY <4>2, <4>3
    <3> QED BY <2>2, <3>1, <3>3 DEF TypeOK, TryAcquireReturn
  <2>3. CASE AcquireLocal(w, p)
    BY <2>3 DEF TypeOK, AcquireLocal
  <2>4. CASE Release(w, p)
    <3>1. io' \in [Workers -> [Tasks -> Command \cup {Idle}]]
      <4>1. CASE phase[w] = "running" /\ lease_tokens[w][p] # 0
        BY <2>4, <4>1, SendType DEF Release
      <4>2. CASE ~(phase[w] = "running" /\ lease_tokens[w][p] # 0)
        BY <2>4, <4>2 DEF Release, TypeOK
      <4> QED BY <4>1, <4>2
    <3>2. /\ lease_tokens' \in [Workers -> [Pipelines -> Nat]]
          /\ run' \in [Workers -> [Pipelines -> Nat]]
      <4>1. /\ lease_tokens \in [Workers -> [Pipelines -> Nat]]
            /\ run \in [Workers -> [Pipelines -> Nat]]
        BY DEF TypeOK
      <4>2. lease_tokens' = [lease_tokens EXCEPT ![w][p] = 0]
        BY <2>4 DEF Release
      <4>3. run' = run \/ run' = [run EXCEPT ![w][p] = 0]
        BY <2>4 DEF Release
      <4>4. lease_tokens' \in [Workers -> [Pipelines -> Nat]]
        BY <4>1, <4>2
      <4>5. CASE run' = run
        BY <4>1, <4>4, <4>5
      <4>6. CASE run' = [run EXCEPT ![w][p] = 0]
        BY <4>1, <4>4, <4>6
      <4> QED BY <4>3, <4>5, <4>6
    <3> QED BY <2>4, <3>1, <3>2 DEF TypeOK, Release
  <2>5. CASE ReleaseReturn(w, p)
    BY <2>5, ReturnType DEF TypeOK, ReleaseReturn
  <2>6. CASE Validate(w, p)
    BY <2>6, SendType DEF TypeOK, Validate
  <2>7. CASE ValidateReturn(w, p)
    BY <2>7, ReturnType DEF TypeOK, ValidateReturn
  <2>8. CASE Renew(w, p)
    BY <2>8, SendType DEF TypeOK, Renew
  <2>9. CASE StopRelease(w, p)
    BY <2>9, SendType DEF TypeOK, StopRelease
  <2>10. CASE LoopRenew(w, p)
    <3>1. io' \in [Workers -> [Tasks -> Command \cup {Idle}]]
      <4>1. CASE lease_tokens[w][p] # 0
        BY <2>10, <4>1, SendType DEF LoopRenew
      <4>2. CASE lease_tokens[w][p] = 0
        BY <2>10, <4>2 DEF LoopRenew, TypeOK
      <4> QED BY <4>1, <4>2
    <3> QED BY <2>10, <3>1 DEF TypeOK, LoopRenew
  <2> QED BY <1>2, <2>1, <2>2, <2>3, <2>4, <2>5, <2>6, <2>7, <2>8, <2>9, <2>10
          DEF PipelineStep
<1>3. ASSUME NEW w \in Workers, NEW t \in Tasks, TaskStep(w, t)
      PROVE  TypeOK'
  <2>1. CASE Execute(w, t)
    <3> DEFINE c == io[w][t]
    <3>1. c \in Command /\ c # Idle
      BY <2>1, SlotType DEF Execute
    <3>2. Reply(w, c.op, c.p, c.tok) \in Nat
      BY <3>1, SlotType, ReplyType
    <3>3. /\ leaseKey' \in [Pipelines -> [worker : Workers, token : Nat] \cup {NoLease}]
          /\ fence' \in [Pipelines -> Nat]
          /\ expired' = expired
      BY <2>1, <3>1, SlotType, RunScriptType DEF Execute
    <3>4. io' \in [Workers -> [Tasks -> Command \cup {Idle}]]
      BY <2>1, <3>1, <3>2 DEF Execute, TypeOK, Command
    <3> QED BY <2>1, <3>3, <3>4 DEF Execute, TypeOK
  <2>2. CASE RenewReturn(w, t)
    BY <2>2, ReturnType, SlotType DEF TypeOK, RenewReturn
  <2>3. CASE CallError(w, t)
    <3>1. late' \subseteq [worker : Workers, op : Ops, p : Pipelines, tok : Nat]
      <4>1. {io[w][t]} \in SUBSET (Command \cup {Idle})
        BY DEF TypeOK
      <4>2. Unexecuted(w, {io[w][t]})
              \subseteq [worker : Workers, op : Ops, p : Pipelines, tok : Nat]
        BY <4>1, UnexecutedType
      <4> QED BY <2>3, <4>2 DEF CallError, TypeOK
    <3>2. run' \in [Workers -> [Pipelines -> Nat]]
      BY <2>3 DEF CallError, TypeOK
    <3>3. io' \in [Workers -> [Tasks -> Command \cup {Idle}]] /\ faults' \in Nat
      BY <2>3, ReturnType DEF CallError, TypeOK
    <3> QED BY <2>3, <3>1, <3>2, <3>3 DEF TypeOK, CallError
  <2> QED BY <1>3, <2>1, <2>2, <2>3 DEF TaskStep
<1>4. ASSUME NEW p \in Pipelines, Expire(p) PROVE TypeOK'
  BY <1>4 DEF TypeOK, Expire
<1>5. ASSUME NEW c \in late, ExecuteLate(c) PROVE TypeOK'
  <2>1. c \in [worker : Workers, op : Ops, p : Pipelines, tok : Nat]
    BY DEF TypeOK
  <2>2. /\ leaseKey' \in [Pipelines -> [worker : Workers, token : Nat] \cup {NoLease}]
        /\ fence' \in [Pipelines -> Nat]
        /\ expired' = expired
    BY <1>5, <2>1, RunScriptType DEF ExecuteLate
  <2> QED BY <1>5, <2>2 DEF ExecuteLate, TypeOK
<1>6. CASE UNCHANGED vars
  BY <1>6 DEF TypeOK, vars
<1>7. ASSUME NEW p \in Pipelines, ExpireFence(p) PROVE TypeOK'
  BY <1>7 DEF TypeOK, ExpireFence
<1> QED BY <1>1, <1>2, <1>3, <1>4, <1>5, <1>6, <1>7 DEF Next

\* The state of Redis, of every worker and of every call in flight keeps its
\* type, whatever calls fail and whichever processes die.
THEOREM TypeCorrect == Spec => []TypeOK
<1>1. ASSUME Init PROVE TypeOK
  <2>1. /\ leaseKey \in [Pipelines -> [worker : Workers, token : Nat] \cup {NoLease}]
        /\ fence \in [Pipelines -> Nat]
        /\ expired \in BOOLEAN
        /\ phase \in [Workers -> {"new", "running", "local", "stopping", "stopped"}]
    BY <1>1 DEF Init
  <2>2. /\ lease_tokens \in [Workers -> [Pipelines -> Nat]]
        /\ local_fencing_tokens \in [Workers -> [Pipelines -> Nat]]
        /\ run \in [Workers -> [Pipelines -> Nat]]
        /\ io \in [Workers -> [Tasks -> Command \cup {Idle}]]
    BY <1>1 DEF Init, NoIo
  <2>3. /\ loop \in [Workers -> {"off", "sleeping", "busy"}]
        /\ loopTodo \in [Workers -> SUBSET Pipelines]
        /\ stopTodo \in [Workers -> SUBSET Pipelines]
        /\ late \subseteq [worker : Workers, op : Ops, p : Pipelines, tok : Nat]
        /\ faults \in Nat
    BY <1>1 DEF Init
  <2> QED BY <2>1, <2>2, <2>3 DEF TypeOK
<1> QED BY <1>1, TypeStep, PTL DEF Spec

-----------------------------------------------------------------------------
(* Quiescence *)

\* Outside "running" neither the loop nor a runner call is at work, and stop()
\* awaits only while "stopping".
QuietInv ==
    \A w \in Workers :
      /\ phase[w] # "running" =>
           loop[w] = "off" /\ \A t \in Pipelines \cup {LoopTask} : io[w][t] = Idle
      /\ phase[w] # "stopping" => io[w][StopTask] = Idle
      /\ phase[w] = "stopped" => \A p \in Pipelines : lease_tokens[w][p] = 0

\* Each step keeps the tasks of a worker within its phase.
LEMMA QuietStep == TypeOK /\ QuietInv /\ [Next]_vars => QuietInv'
<1> SUFFICES ASSUME TypeOK, QuietInv, [Next]_vars PROVE QuietInv'
  OBVIOUS
<1> USE ConstantAssumption
<1>1. ASSUME NEW w \in Workers, WorkerStep(w) PROVE QuietInv'
  <2> USE DEF Tasks
  <2>1. CASE Start(w)
    BY <2>1 DEF TypeOK, QuietInv, Start
  <2>2. CASE StartLocal(w)
    BY <2>2 DEF TypeOK, QuietInv, StartLocal
  <2>3. CASE StopLocal(w)
    BY <2>3 DEF TypeOK, QuietInv, StopLocal
  <2>4. CASE StopBegin(w)
    BY <2>4 DEF TypeOK, QuietInv, StopBegin, Return
  <2>5. CASE StopReleaseReturn(w)
    BY <2>5 DEF TypeOK, QuietInv, StopReleaseReturn, Return
  <2>6. CASE StopFinish(w)
    BY <2>6 DEF TypeOK, QuietInv, StopFinish
  <2>7. CASE Crash(w)
    BY <2>7 DEF TypeOK, QuietInv, Crash, NoIo
  <2>8. CASE LoopWake(w)
    BY <2>8 DEF TypeOK, QuietInv, LoopWake
  <2>9. CASE LoopCycleEnd(w)
    BY <2>9 DEF TypeOK, QuietInv, LoopCycleEnd
  <2>10. CASE LoopDeadline(w)
    BY <2>10 DEF TypeOK, QuietInv, LoopDeadline, Return
  <2> QED BY <1>1, <2>1, <2>2, <2>3, <2>4, <2>5, <2>6, <2>7, <2>8, <2>9, <2>10
          DEF WorkerStep
<1>2. ASSUME NEW w \in Workers, NEW p \in Pipelines, PipelineStep(w, p)
      PROVE  QuietInv'
  <2> USE DEF Tasks
  <2>1. CASE TryAcquire(w, p)
    BY <2>1 DEF TypeOK, QuietInv, TryAcquire, Ready, Send
  <2>2. CASE TryAcquireReturn(w, p)
    BY <2>2 DEF TypeOK, QuietInv, TryAcquireReturn, Return
  <2>3. CASE AcquireLocal(w, p)
    BY <2>3 DEF TypeOK, QuietInv, AcquireLocal
  <2>4. CASE Release(w, p)
    BY <2>4 DEF TypeOK, QuietInv, Release, Send
  <2>5. CASE ReleaseReturn(w, p)
    BY <2>5 DEF TypeOK, QuietInv, ReleaseReturn, Return
  <2>6. CASE Validate(w, p)
    BY <2>6 DEF TypeOK, QuietInv, Validate, Ready, Send
  <2>7. CASE ValidateReturn(w, p)
    BY <2>7 DEF TypeOK, QuietInv, ValidateReturn, Return
  <2>8. CASE Renew(w, p)
    BY <2>8 DEF TypeOK, QuietInv, Renew, Ready, Send
  <2>9. CASE StopRelease(w, p)
    <3>1. /\ phase[w] = "stopping"
          /\ UNCHANGED <<phase, loop>>
          /\ \A v \in Workers : v # w => lease_tokens'[v] = lease_tokens[v]
      BY <2>9 DEF StopRelease, TypeOK
    <3>2. \A v \in Workers, s \in Tasks :
            v # w \/ s # StopTask => io'[v][s] = io[v][s]
      BY <2>9 DEF StopRelease, Send, TypeOK
    <3>3. StopTask # LoopTask /\ "stopping" # "running" /\ "stopping" # "stopped"
      BY DEF StopTask, LoopTask
    <3> QED BY <3>1, <3>2, <3>3 DEF QuietInv
  <2>10. CASE LoopRenew(w, p)
    <3>1. phase[w] = "running"
      BY <2>10 DEF LoopRenew, QuietInv
    <3>2. UNCHANGED <<phase, loop, lease_tokens>>
      BY <2>10 DEF LoopRenew
    <3>3. \A v \in Workers, s \in Tasks :
            v # w \/ s # LoopTask => io'[v][s] = io[v][s]
      BY <2>10 DEF LoopRenew, Send, TypeOK
    <3>4. StopTask # LoopTask /\ "running" # "stopped"
      BY DEF StopTask, LoopTask
    <3> QED BY <3>1, <3>2, <3>3, <3>4 DEF QuietInv
  <2> QED BY <1>2, <2>1, <2>2, <2>3, <2>4, <2>5, <2>6, <2>7, <2>8, <2>9, <2>10
          DEF PipelineStep
<1>3. ASSUME NEW w \in Workers, NEW t \in Tasks, TaskStep(w, t)
      PROVE  QuietInv'
  <2>1. CASE Execute(w, t)
    BY <2>1 DEF TypeOK, QuietInv, Execute, Tasks
  <2>2. CASE RenewReturn(w, t)
    <3>1. /\ io' = [io EXCEPT ![w][t] = Idle]
          /\ UNCHANGED <<phase, loop>>
      BY <2>2 DEF RenewReturn, Return
    <3>2. phase[w] # "stopped"
      BY <2>2 DEF RenewReturn, QuietInv, Tasks
    <3>3. \A v \in Workers : v # w => lease_tokens'[v] = lease_tokens[v]
      BY <2>2 DEF RenewReturn, TypeOK
    <3>4. io \in [Workers -> [Tasks -> Command \cup {Idle}]]
      BY DEF TypeOK
    <3>5. \A v \in Workers, s \in Tasks : io[v][s] = Idle => io'[v][s] = Idle
      BY <3>1, <3>4
    <3> QED BY <3>1, <3>2, <3>3, <3>5 DEF QuietInv, Tasks
  <2>3. CASE CallError(w, t)
    <3>1. /\ io' = [io EXCEPT ![w][t] = Idle]
          /\ UNCHANGED <<phase, loop, lease_tokens>>
      BY <2>3 DEF CallError, Return
    <3>2. io \in [Workers -> [Tasks -> Command \cup {Idle}]]
      BY DEF TypeOK
    <3>3. \A v \in Workers, s \in Tasks : io[v][s] = Idle => io'[v][s] = Idle
      BY <3>1, <3>2
    <3> QED BY <3>1, <3>3 DEF QuietInv, Tasks
  <2> QED BY <1>3, <2>1, <2>2, <2>3 DEF TaskStep
<1>4. ASSUME NEW p \in Pipelines, Expire(p) PROVE QuietInv'
  BY <1>4 DEF QuietInv, Expire
<1>5. ASSUME NEW c \in late, ExecuteLate(c) PROVE QuietInv'
  BY <1>5 DEF QuietInv, ExecuteLate
<1>6. CASE UNCHANGED vars
  BY <1>6 DEF QuietInv, vars
<1>7. ASSUME NEW p \in Pipelines, ExpireFence(p) PROVE QuietInv'
  BY <1>7 DEF QuietInv, ExpireFence
<1> QED BY <1>1, <1>2, <1>3, <1>4, <1>5, <1>6, <1>7 DEF Next

\* stop() leaves an empty dictionary and no task that could fill it again,
\* although the renewal loop may be waiting for Redis when stop() begins.
THEOREM StopQuiesces == Spec => []StoppedIsQuiet
<1>1. Init => QuietInv
  BY ConstantAssumption DEF Init, QuietInv, NoIo, Tasks
<1>2. QuietInv => StoppedIsQuiet
  BY DEF QuietInv, StoppedIsQuiet, Tasks
<1> QED BY <1>1, <1>2, TypeCorrect, QuietStep, PTL DEF Spec

-----------------------------------------------------------------------------
(* Fencing *)

\* The call of a runner task is about its own pipeline.
OwnCalls ==
    \A w \in Workers, p \in Pipelines : io[w][p] # Idle => io[w][p].p = p

NoLocal == \A w \in Workers : phase[w] # "local"

Tokens == Nat \ {0}

\* Every token known is issued, and known to one worker.
KnowledgeInv ==
    \A p \in Pipelines, k \in Tokens :
      /\ \A v \in Workers : Knows(v, p, k) => k <= fence[p]
      /\ \A v, w \in Workers : Knows(v, p, k) /\ Knows(w, p, k) => v = w

FenceInv == LiveLeaseIsNewest /\ OwnCalls /\ NoLocal /\ KnowledgeInv

\* What a counter that expires leaves of it.
FencedInv ==
    LiveLeaseIsNewest /\ OwnCalls /\ NoLocal /\ (~expired => KnowledgeInv)

\* A step that teaches nobody anything and issues no token.
NothingLearnt ==
    /\ UNCHANGED fence
    /\ \A v \in Workers, q \in Pipelines, k \in Tokens :
         Knows(v, q, k)' => Knows(v, q, k)

\* A step that issues the next token of p to w, and teaches nothing else.
Issues(w, p) ==
    /\ leaseKey[p] = NoLease
    /\ fence' = [fence EXCEPT ![p] = @ + 1]
    /\ \A v \in Workers, q \in Pipelines, k \in Tokens :
         Knows(v, q, k)' => Knows(v, q, k) \/ (v = w /\ q = p /\ k = fence[p] + 1)

\* Either kind of step keeps the knowledge invariant.
LEMMA KeepKnowledge ==
    ASSUME KnowledgeInv, NothingLearnt
    PROVE  KnowledgeInv'
BY DEF KnowledgeInv, NothingLearnt

LEMMA IssueKnowledge ==
    ASSUME TypeOK, KnowledgeInv, NEW w \in Workers, NEW p \in Pipelines, Issues(w, p)
    PROVE  KnowledgeInv'
<1> SUFFICES ASSUME NEW q \in Pipelines, NEW k \in Tokens
             PROVE  /\ \A v \in Workers : Knows(v, q, k)' => k <= fence'[q]
                    /\ \A v, u \in Workers : Knows(v, q, k)' /\ Knows(u, q, k)' => v = u
  BY DEF KnowledgeInv
<1>1. fence \in [Pipelines -> Nat] /\ k \in Nat
  BY DEF TypeOK, Tokens
<1>2. /\ fence' = [fence EXCEPT ![p] = fence[p] + 1]
      /\ \A v \in Workers :
           Knows(v, q, k)' => Knows(v, q, k) \/ (v = w /\ q = p /\ k = fence[p] + 1)
  BY DEF Issues
<1>3. /\ \A v \in Workers : Knows(v, q, k) => k <= fence[q]
      /\ \A v, u \in Workers : Knows(v, q, k) /\ Knows(u, q, k) => v = u
  BY DEF KnowledgeInv
<1>4. CASE q = p /\ k = fence[p] + 1
  <2>1. \A v \in Workers : ~Knows(v, q, k)
    BY <1>1, <1>3, <1>4
  <2> QED BY <1>1, <1>2, <1>4, <2>1
<1>5. CASE ~(q = p /\ k = fence[p] + 1)
  <2>1. \A v \in Workers : Knows(v, q, k)' => Knows(v, q, k)
    BY <1>2, <1>5
  <2>2. fence[q] <= fence'[q]
    BY <1>1, <1>2
  <2>3. fence'[q] \in Nat
    BY <1>1, <1>2
  <2> QED BY <1>1, <1>3, <2>1, <2>2, <2>3
<1> QED BY <1>4, <1>5

\* Knowledge is the five places a token can be in.
LEMMA KnowsIntro ==
    ASSUME NEW w \in Workers, NEW p \in Pipelines, NEW k \in Tokens
    PROVE  /\ lease_tokens[w][p] = k => Knows(w, p, k)
           /\ run[w][p] = k => Knows(w, p, k)
           /\ \A t \in Tasks : io[w][t] # Idle /\ io[w][t].p = p
                /\ (io[w][t].tok = k \/ io[w][t].ret = k) => Knows(w, p, k)
           /\ \A c \in late : c.worker = w /\ c.p = p /\ c.tok = k => Knows(w, p, k)
           /\ leaseKey[p] = [worker |-> w, token |-> k] => Knows(w, p, k)
BY DEF Knows, Matches

\* The five places hold, after a step, only what the worker knew before it.
DictKept == \A v \in Workers, q \in Pipelines, k \in Tokens :
              lease_tokens'[v][q] = k => Knows(v, q, k)
RunKept == \A v \in Workers, q \in Pipelines, k \in Tokens :
             run'[v][q] = k => Knows(v, q, k)
KeyKept == \A v \in Workers, q \in Pipelines, k \in Tokens :
             leaseKey'[q] = [worker |-> v, token |-> k] => Knows(v, q, k)
IoKept == \A v \in Workers, t \in Tasks, q \in Pipelines, k \in Tokens :
            io'[v][t] # Idle /\ io'[v][t].p = q /\ (io'[v][t].tok = k \/ io'[v][t].ret = k)
              => Knows(v, q, k)
LateKept == \A v \in Workers, q \in Pipelines, k \in Tokens : \A c \in late' :
              c.worker = v /\ c.p = q /\ c.tok = k => Knows(v, q, k)

\* To show that a step teaches nothing, look at the five places.
LEMMA LearnNothing ==
    ASSUME fence' = fence, DictKept, RunKept, KeyKept, IoKept, LateKept
    PROVE  NothingLearnt
BY DEF NothingLearnt, Knows, Matches, DictKept, RunKept, KeyKept, IoKept, LateKept

\* A place that does not change teaches nothing.
LEMMA UnchangedKept ==
    /\ lease_tokens' = lease_tokens => DictKept
    /\ run' = run => RunKept
    /\ leaseKey' = leaseKey => KeyKept
    /\ io' = io => IoKept
    /\ late' = late => LateKept
BY KnowsIntro DEF DictKept, RunKept, KeyKept, IoKept, LateKept

\* Neither does a call that returns, a call sent with a known token or none,
\* a cleared entry, or a call that is abandoned.
LEMMA ReturnKept ==
    ASSUME TypeOK, NEW w \in Workers, NEW t \in Tasks, Return(w, t)
    PROVE  IoKept
<1>1. \A v \in Workers, s \in Tasks : io'[v][s] = Idle \/ io'[v][s] = io[v][s]
  BY DEF Return, TypeOK
<1> QED BY <1>1, KnowsIntro, ZenonT(40) DEF IoKept

LEMMA SendKept ==
    ASSUME TypeOK, NEW w \in Workers, NEW t \in Tasks, NEW op \in Ops,
           NEW p \in Pipelines, NEW tok \in Nat, Send(w, t, op, p, tok),
           tok # 0 => Knows(w, p, tok)
    PROVE  IoKept
<1>1. \A v \in Workers, s \in Tasks :
        IF v = w /\ s = t
        THEN io'[v][s] = [op |-> op, p |-> p, tok |-> tok, done |-> FALSE, ret |-> 0]
        ELSE io'[v][s] = io[v][s]
  BY DEF Send, TypeOK
<1> SUFFICES ASSUME NEW v \in Workers, NEW s \in Tasks, NEW q \in Pipelines,
                    NEW k \in Tokens, io'[v][s] # Idle, io'[v][s].p = q,
                    io'[v][s].tok = k \/ io'[v][s].ret = k
             PROVE  Knows(v, q, k)
  BY DEF IoKept
<1>2. CASE v = w /\ s = t
  <2>1. io'[v][s] = [op |-> op, p |-> p, tok |-> tok, done |-> FALSE, ret |-> 0]
    BY <1>1, <1>2
  <2>2. q = p /\ k = tok
    BY <2>1 DEF Tokens
  <2> QED BY <1>2, <2>2 DEF Tokens
<1>3. CASE ~(v = w /\ s = t)
  <2>1. io'[v][s] = io[v][s]
    BY <1>1, <1>3
  <2>2. io[v][s] # Idle /\ io[v][s].p = q /\ (io[v][s].tok = k \/ io[v][s].ret = k)
    BY <2>1
  <2> QED BY <2>2, KnowsIntro
<1> QED BY <1>2, <1>3

LEMMA ClearKept ==
    ASSUME TypeOK, NEW w \in Workers
    PROVE  /\ lease_tokens' = [lease_tokens EXCEPT ![w] = [p \in Pipelines |-> 0]] => DictKept
           /\ \A p \in Pipelines :
                lease_tokens' = [lease_tokens EXCEPT ![w][p] = 0] => DictKept
           /\ run' = [run EXCEPT ![w] = [p \in Pipelines |-> 0]] => RunKept
           /\ \A p \in Pipelines : run' = [run EXCEPT ![w][p] = 0] => RunKept
<1>1. /\ lease_tokens \in [Workers -> [Pipelines -> Nat]]
      /\ run \in [Workers -> [Pipelines -> Nat]]
  BY DEF TypeOK
<1>2. ASSUME \A v \in Workers, q \in Pipelines :
               lease_tokens'[v][q] = 0 \/ lease_tokens'[v][q] = lease_tokens[v][q]
      PROVE  DictKept
  BY <1>2, KnowsIntro DEF DictKept, Tokens
<1>3. ASSUME \A v \in Workers, q \in Pipelines : run'[v][q] = 0 \/ run'[v][q] = run[v][q]
      PROVE  RunKept
  BY <1>3, KnowsIntro DEF RunKept, Tokens
<1>4. lease_tokens' = [lease_tokens EXCEPT ![w] = [p \in Pipelines |-> 0]] => DictKept
  BY <1>1, <1>2
<1>5. ASSUME NEW p \in Pipelines, lease_tokens' = [lease_tokens EXCEPT ![w][p] = 0]
      PROVE  DictKept
  BY <1>1, <1>2, <1>5
<1>6. run' = [run EXCEPT ![w] = [p \in Pipelines |-> 0]] => RunKept
  BY <1>1, <1>3
<1>7. ASSUME NEW p \in Pipelines, run' = [run EXCEPT ![w][p] = 0]
      PROVE  RunKept
  BY <1>1, <1>3, <1>7
<1> QED BY <1>4, <1>5, <1>6, <1>7

LEMMA AbandonKept ==
    ASSUME TypeOK, NEW w \in Workers, NEW S \in SUBSET {io[w][t] : t \in Tasks},
           late' = late \cup Unexecuted(w, S)
    PROVE  LateKept
<1> SUFFICES ASSUME NEW v \in Workers, NEW q \in Pipelines, NEW k \in Tokens,
                    NEW c \in late', c.worker = v, c.p = q, c.tok = k
             PROVE  Knows(v, q, k)
  BY DEF LateKept
<1>1. CASE c \in late
  BY <1>1, KnowsIntro
<1>2. CASE c \in Unexecuted(w, S)
  <2>1. PICK d \in S : d # Idle /\ c = [worker |-> w, op |-> d.op, p |-> d.p, tok |-> d.tok]
    BY <1>2 DEF Unexecuted
  <2>2. PICK t \in Tasks : d = io[w][t]
    BY <2>1
  <2> QED BY <2>1, <2>2, KnowsIntro
<1> QED BY <1>1, <1>2

-----------------------------------------------------------------------------
\* What a script teaches: the acquire script on an absent key one token, to
\* the worker that asked; any other script nothing.
LEMMA ScriptKnowledge ==
    ASSUME TypeOK, NEW w \in Workers, NEW op \in Ops, NEW p \in Pipelines,
           NEW tok \in Nat, tok # 0 => Knows(w, p, tok), RunScript(w, op, p, tok)
    PROVE  \/ /\ UNCHANGED fence
              /\ KeyKept
              /\ Reply(w, op, p, tok) # 0 => Knows(w, p, Reply(w, op, p, tok))
           \/ /\ leaseKey[p] = NoLease
              /\ fence' = [fence EXCEPT ![p] = @ + 1]
              /\ leaseKey' = [leaseKey EXCEPT ![p] = [worker |-> w, token |-> fence[p] + 1]]
              /\ Reply(w, op, p, tok) = fence[p] + 1
<1>1. CASE op = "acquire" /\ leaseKey[p] = NoLease
  BY <1>1 DEF RunScript, AcquireScript, Reply
<1>2. CASE op = "acquire" /\ leaseKey[p] # NoLease
  <2>1. leaseKey' = leaseKey /\ fence' = fence /\ Reply(w, op, p, tok) = 0
    BY <1>2 DEF RunScript, AcquireScript, Reply, redisVars
  <2> QED BY <2>1, UnchangedKept
<1>3. CASE op # "acquire"
  <2>1. Reply(w, op, p, tok) # 0 => Knows(w, p, Reply(w, op, p, tok))
    BY <1>3 DEF Reply
  <2>2. UNCHANGED fence
    BY <1>3 DEF RunScript, ReleaseScript, redisVars
  <2>3. KeyKept
    <3>1. \A q \in Pipelines : leaseKey'[q] = NoLease \/ leaseKey'[q] = leaseKey[q]
      <4>1. CASE op = "release"
        BY <4>1 DEF RunScript, ReleaseScript, TypeOK
      <4>2. CASE op # "release"
        BY <1>3, <4>2 DEF RunScript, redisVars
      <4> QED BY <4>1, <4>2
    <3>2. \A v \in Workers, k \in Tokens : [worker |-> v, token |-> k] # NoLease
      BY ConstantAssumption DEF Tokens
    <3> QED BY <3>1, <3>2, KnowsIntro DEF KeyKept
  <2> QED BY <2>1, <2>2, <2>3
<1> QED BY <1>1, <1>2, <1>3

\* The newest-token invariant across a script.
LEMMA ScriptNewest ==
    ASSUME TypeOK, LiveLeaseIsNewest, NEW w \in Workers, NEW op \in Ops,
           NEW p \in Pipelines, NEW tok \in Nat, RunScript(w, op, p, tok)
    PROVE  LiveLeaseIsNewest'
<1> USE DEF LiveLeaseIsNewest
<1>0. expired' = expired
  BY RunScriptType
<1>1. CASE op = "acquire" /\ leaseKey[p] = NoLease
  <2>1. /\ fence' = [fence EXCEPT ![p] = fence[p] + 1]
        /\ leaseKey' = [leaseKey EXCEPT ![p] = [worker |-> w, token |-> fence[p] + 1]]
    BY <1>1 DEF RunScript, AcquireScript
  <2> QED BY <1>0, <2>1 DEF TypeOK
<1>2. CASE op = "acquire" /\ leaseKey[p] # NoLease
  BY <1>0, <1>2 DEF RunScript, AcquireScript, redisVars
<1>3. CASE op = "release"
  BY <1>0, <1>3 DEF RunScript, ReleaseScript, TypeOK
<1>4. CASE op # "acquire" /\ op # "release"
  BY <1>0, <1>4 DEF RunScript, redisVars
<1> QED BY <1>1, <1>2, <1>3, <1>4

\* Only scripts and the TTL touch the lease key and the counter.
LEMMA NewestStep == TypeOK /\ LiveLeaseIsNewest /\ [Next]_vars => LiveLeaseIsNewest'
<1> SUFFICES ASSUME TypeOK, LiveLeaseIsNewest, [Next]_vars PROVE LiveLeaseIsNewest'
  OBVIOUS
<1>1. ASSUME UNCHANGED redisVars PROVE LiveLeaseIsNewest'
  BY <1>1 DEF LiveLeaseIsNewest, redisVars
<1>2. ASSUME NEW w \in Workers, WorkerStep(w) PROVE LiveLeaseIsNewest'
  BY <1>1, <1>2 DEF WorkerStep, redisVars, Start, StartLocal, StopLocal, StopBegin, StopReleaseReturn, StopFinish, Crash, LoopWake, LoopCycleEnd, LoopDeadline
<1>3. ASSUME NEW w \in Workers, NEW p \in Pipelines, PipelineStep(w, p)
      PROVE  LiveLeaseIsNewest'
  BY <1>1, <1>3 DEF PipelineStep, redisVars, TryAcquire, TryAcquireReturn, AcquireLocal, Release, ReleaseReturn, Validate, ValidateReturn, Renew, StopRelease, LoopRenew
<1>4. ASSUME NEW w \in Workers, NEW t \in Tasks, TaskStep(w, t)
      PROVE  LiveLeaseIsNewest'
  <2>1. CASE Execute(w, t)
    BY <2>1, SlotType, ScriptNewest DEF Execute
  <2>2. CASE RenewReturn(w, t) \/ CallError(w, t)
    BY <1>1, <2>2 DEF RenewReturn, CallError, redisVars
  <2> QED BY <1>4, <2>1, <2>2 DEF TaskStep
<1>5. ASSUME NEW p \in Pipelines, Expire(p) PROVE LiveLeaseIsNewest'
  BY <1>5 DEF Expire, LiveLeaseIsNewest, TypeOK
<1>6. ASSUME NEW c \in late, ExecuteLate(c) PROVE LiveLeaseIsNewest'
  <2>1. c.worker \in Workers /\ c.op \in Ops /\ c.p \in Pipelines /\ c.tok \in Nat
    BY DEF TypeOK
  <2> QED BY <1>6, <2>1, ScriptNewest DEF ExecuteLate
<1>7. CASE UNCHANGED vars
  BY <1>1, <1>7 DEF vars, redisVars
<1>8. ASSUME NEW p \in Pipelines, ExpireFence(p) PROVE LiveLeaseIsNewest'
  <2>1. \A q \in Pipelines : fence'[q] = fence[q] \/ fence'[q] = 0
    BY <1>8 DEF ExpireFence, TypeOK
  <2> QED BY <1>8, <2>1 DEF ExpireFence, LiveLeaseIsNewest
<1> QED BY <1>2, <1>3, <1>4, <1>5, <1>6, <1>7, <1>8 DEF Next

\* The lease key, while it exists, carries the token the counter stands at, or
\* the counter has expired and stands at nothing: INCR and SET are one script
\* that finds the lease key absent, and nothing else writes either key.
THEOREM NewestToken == Spec => []LiveLeaseIsNewest
<1>1. Init => LiveLeaseIsNewest
  BY DEF Init, LiveLeaseIsNewest
<1> QED BY <1>1, TypeCorrect, NewestStep, PTL DEF Spec

\* A runner task only ever calls for its own pipeline.
LEMMA OwnCallsStep == TypeOK /\ OwnCalls /\ [Next]_vars => OwnCalls'
<1> SUFFICES ASSUME TypeOK, OwnCalls, [Next]_vars PROVE OwnCalls'
  OBVIOUS
<1> USE ConstantAssumption
<1>1. io \in [Workers -> [Tasks -> Command \cup {Idle}]] /\ Pipelines \subseteq Tasks
  BY DEF TypeOK, Tasks
<1>2. ASSUME UNCHANGED io PROVE OwnCalls'
  BY <1>2 DEF OwnCalls
<1>3. ASSUME NEW w \in Workers, NEW t \in Tasks, Return(w, t) PROVE OwnCalls'
  BY <1>1, <1>3 DEF OwnCalls, Return
<1>4. ASSUME NEW w \in Workers, NEW t \in Tasks, NEW op \in Ops, NEW p \in Pipelines,
             NEW tok \in Nat, Send(w, t, op, p, tok), t \in Pipelines => t = p
      PROVE  OwnCalls'
  <2>1. ASSUME NEW v \in Workers, NEW q \in Pipelines, io'[v][q] # Idle
        PROVE  io'[v][q].p = q
    <3>1. CASE v = w /\ q = t
      <4>1. io'[v][q] = [op |-> op, p |-> p, tok |-> tok, done |-> FALSE, ret |-> 0]
        BY <1>1, <1>4, <3>1 DEF Send
      <4> QED BY <1>4, <3>1, <4>1
    <3>2. CASE ~(v = w /\ q = t)
      <4>1. io'[v][q] = io[v][q]
        BY <1>1, <1>4, <3>2 DEF Send
      <4> QED BY <2>1, <4>1 DEF OwnCalls
    <3> QED BY <3>1, <3>2
  <2> QED BY <2>1 DEF OwnCalls
<1>5. ASSUME NEW w \in Workers, WorkerStep(w) PROVE OwnCalls'
  <2> LoopTask \in Tasks /\ StopTask \in Tasks
    BY DEF Tasks
  <2>1. CASE Crash(w)
    BY <1>1, <2>1 DEF Crash, NoIo, OwnCalls
  <2>2. CASE StopBegin(w) \/ LoopDeadline(w)
    BY <1>3, <2>2 DEF StopBegin, LoopDeadline
  <2>3. CASE StopReleaseReturn(w)
    BY <1>3, <2>3 DEF StopReleaseReturn
  <2>4. CASE Start(w) \/ StartLocal(w) \/ StopLocal(w) \/ StopFinish(w)
    BY <1>2, <2>4 DEF Start, StartLocal, StopLocal, StopFinish
  <2>5. CASE LoopWake(w) \/ LoopCycleEnd(w)
    BY <1>2, <2>5 DEF LoopWake, LoopCycleEnd
  <2> QED BY <1>5, <2>1, <2>2, <2>3, <2>4, <2>5 DEF WorkerStep
<1>6. ASSUME NEW w \in Workers, NEW p \in Pipelines, PipelineStep(w, p)
      PROVE  OwnCalls'
  <2> p \in Tasks /\ LoopTask \in Tasks /\ StopTask \in Tasks
    BY DEF Tasks
  <2> "acquire" \in Ops /\ "release" \in Ops /\ "validate" \in Ops /\ "renew" \in Ops
    BY DEF Ops
  <2> lease_tokens[w][p] \in Nat /\ run[w][p] \in Nat
    BY DEF TypeOK
  <2>1. CASE TryAcquire(w, p)
    BY <1>4, <2>1 DEF TryAcquire
  <2>2. CASE TryAcquireReturn(w, p) \/ ReleaseReturn(w, p) \/ ValidateReturn(w, p)
    BY <1>3, <2>2 DEF TryAcquireReturn, ReleaseReturn, ValidateReturn
  <2>3. CASE AcquireLocal(w, p)
    BY <1>2, <2>3 DEF AcquireLocal
  <2>4. CASE Release(w, p)
    <3>1. UNCHANGED io \/ Send(w, p, "release", p, lease_tokens[w][p])
      BY <2>4 DEF Release
    <3> QED BY <1>2, <1>4, <3>1
  <2>5. CASE Validate(w, p)
    BY <1>4, <2>5 DEF Validate
  <2>6. CASE Renew(w, p)
    BY <1>4, <2>6 DEF Renew
  <2>7. CASE StopRelease(w, p)
    BY <1>4, <2>7 DEF StopRelease
  <2>8. CASE LoopRenew(w, p)
    <3>1. UNCHANGED io \/ Send(w, LoopTask, "renew", p, lease_tokens[w][p])
      BY <2>8 DEF LoopRenew
    <3> QED BY <1>2, <1>4, <3>1
  <2> QED BY <1>6, <2>1, <2>2, <2>3, <2>4, <2>5, <2>6, <2>7, <2>8 DEF PipelineStep
<1>7. ASSUME NEW w \in Workers, NEW t \in Tasks, TaskStep(w, t)
      PROVE  OwnCalls'
  <2>1. CASE Execute(w, t)
    <3>1. ASSUME NEW v \in Workers, NEW q \in Pipelines, io'[v][q] # Idle
          PROVE  io[v][q] # Idle /\ io'[v][q].p = io[v][q].p
      BY <1>1, <2>1, <3>1 DEF Execute, Command
    <3> QED BY <3>1 DEF OwnCalls
  <2>2. CASE RenewReturn(w, t) \/ CallError(w, t)
    BY <1>3, <2>2 DEF RenewReturn, CallError
  <2> QED BY <1>7, <2>1, <2>2 DEF TaskStep
<1>8. ASSUME NEW p \in Pipelines, Expire(p) PROVE OwnCalls'
  BY <1>2, <1>8 DEF Expire
<1>9. ASSUME NEW c \in late, ExecuteLate(c) PROVE OwnCalls'
  BY <1>2, <1>9 DEF ExecuteLate
<1>10. CASE UNCHANGED vars
  BY <1>2, <1>10 DEF vars
<1>11. ASSUME NEW p \in Pipelines, ExpireFence(p) PROVE OwnCalls'
  BY <1>2, <1>11 DEF ExpireFence
<1> QED BY <1>5, <1>6, <1>7, <1>8, <1>9, <1>10, <1>11 DEF Next

\* Nothing takes the expiry of a counter back.
LEMMA ExpiredStays == TypeOK /\ [Next]_vars /\ ~expired' => ~expired
<1> SUFFICES ASSUME TypeOK, [Next]_vars, ~expired' PROVE ~expired
  OBVIOUS
<1>1. ASSUME expired' = expired PROVE ~expired
  BY <1>1
<1>2. ASSUME NEW w \in Workers, WorkerStep(w) PROVE ~expired
  BY <1>1, <1>2 DEF WorkerStep, redisVars, Start, StartLocal, StopLocal, StopBegin,
     StopReleaseReturn, StopFinish, Crash, LoopWake, LoopCycleEnd, LoopDeadline
<1>3. ASSUME NEW w \in Workers, NEW p \in Pipelines, PipelineStep(w, p) PROVE ~expired
  BY <1>1, <1>3 DEF PipelineStep, TryAcquire, TryAcquireReturn, AcquireLocal, Release,
     ReleaseReturn, Validate, ValidateReturn, Renew, StopRelease, LoopRenew
<1>4. ASSUME NEW w \in Workers, NEW t \in Tasks, TaskStep(w, t) PROVE ~expired
  <2>1. CASE Execute(w, t)
    BY <1>1, <2>1, SlotType, RunScriptType DEF Execute
  <2>2. CASE RenewReturn(w, t) \/ CallError(w, t)
    BY <1>1, <2>2 DEF RenewReturn, CallError
  <2> QED BY <1>4, <2>1, <2>2 DEF TaskStep
<1>5. ASSUME NEW c \in late, ExecuteLate(c) PROVE ~expired
  <2>1. c.worker \in Workers /\ c.op \in Ops /\ c.p \in Pipelines /\ c.tok \in Nat
    BY DEF TypeOK
  <2> QED BY <1>1, <1>5, <2>1, RunScriptType DEF ExecuteLate
<1>6. ASSUME NEW p \in Pipelines, Expire(p) \/ ExpireFence(p) PROVE ~expired
  BY <1>1, <1>6 DEF Expire, ExpireFence
<1>7. CASE UNCHANGED vars
  BY <1>1, <1>7 DEF vars
<1> QED BY <1>2, <1>3, <1>4, <1>5, <1>6, <1>7 DEF Next

\* Without the local fallback, and as long as no counter expires, every step
\* teaches nothing, or is the acquire script issuing the next token to the
\* worker that asked for it.
LEMMA KnowledgeStep ==
    ASSUME ~FallbackToLocal, ~expired', TypeOK, FenceInv, [Next]_vars
    PROVE  KnowledgeInv'
<1> USE ConstantAssumption
<1>1. ASSUME NothingLearnt PROVE KnowledgeInv'
  BY <1>1, KeepKnowledge DEF FenceInv
<1>2. ASSUME NEW w \in Workers, WorkerStep(w) PROVE KnowledgeInv'
  <2>1. LoopTask \in Tasks /\ StopTask \in Tasks
    BY DEF Tasks
  <2>2. ASSUME UNCHANGED redisVars, DictKept, RunKept, IoKept, LateKept
        PROVE  KnowledgeInv'
    BY <1>1, <2>2, UnchangedKept, LearnNothing DEF redisVars
  <2>3. CASE Start(w) \/ StartLocal(w) \/ LoopWake(w) \/ LoopCycleEnd(w)
    BY <2>2, <2>3, UnchangedKept DEF Start, StartLocal, LoopWake, LoopCycleEnd, redisVars
  <2>4. CASE StopLocal(w)
    BY <2>2, <2>4, UnchangedKept, ClearKept DEF StopLocal, redisVars
  <2>5. CASE StopBegin(w)
    <3>1. {io[w][LoopTask]} \in SUBSET {io[w][t] : t \in Tasks}
      BY <2>1
    <3>2. LateKept
      BY <2>5, <3>1, AbandonKept DEF StopBegin
    <3>3. DictKept /\ RunKept /\ IoKept
      BY <2>1, <2>5, UnchangedKept, ClearKept, ReturnKept DEF StopBegin
    <3> QED BY <2>2, <2>5, <3>2, <3>3 DEF StopBegin, redisVars
  <2>6. CASE StopReleaseReturn(w)
    BY <2>1, <2>2, <2>6, UnchangedKept, ReturnKept DEF StopReleaseReturn, redisVars
  <2>7. CASE StopFinish(w)
    BY <2>2, <2>7, UnchangedKept, ClearKept DEF StopFinish, redisVars
  <2>8. CASE Crash(w)
    <3>1. {io[w][t] : t \in Tasks} \in SUBSET {io[w][t] : t \in Tasks}
      OBVIOUS
    <3>2. LateKept
      BY <2>8, <3>1, AbandonKept DEF Crash
    <3>3. DictKept /\ RunKept
      BY <2>8, ClearKept DEF Crash
    <3>4. \A v \in Workers, t \in Tasks : io'[v][t] = Idle \/ io'[v][t] = io[v][t]
      BY <2>8 DEF Crash, NoIo, TypeOK
    <3>5. IoKept
      BY <3>4, KnowsIntro, ZenonT(40) DEF IoKept
    <3> QED BY <2>2, <2>8, <3>2, <3>3, <3>5 DEF Crash
  <2>9. CASE LoopDeadline(w)
    <3>1. {io[w][LoopTask]} \in SUBSET {io[w][t] : t \in Tasks}
      BY <2>1
    <3>2. LateKept
      BY <2>9, <3>1, AbandonKept DEF LoopDeadline
    <3>3. DictKept /\ RunKept /\ IoKept
      BY <2>1, <2>9, UnchangedKept, ClearKept, ReturnKept DEF LoopDeadline
    <3> QED BY <2>2, <2>9, <3>2, <3>3 DEF LoopDeadline, redisVars
  <2> QED BY <1>2, <2>3, <2>4, <2>5, <2>6, <2>7, <2>8, <2>9 DEF WorkerStep
<1>3. ASSUME NEW w \in Workers, NEW p \in Pipelines, PipelineStep(w, p)
      PROVE  KnowledgeInv'
  <2>1. p \in Tasks /\ LoopTask \in Tasks /\ StopTask \in Tasks
    BY DEF Tasks
  <2>2. "acquire" \in Ops /\ "release" \in Ops /\ "validate" \in Ops /\ "renew" \in Ops
    BY DEF Ops
  <2>3. lease_tokens[w][p] \in Nat /\ run[w][p] \in Nat /\ 0 \in Nat
    BY DEF TypeOK
  <2>4. /\ lease_tokens[w][p] # 0 => Knows(w, p, lease_tokens[w][p])
        /\ run[w][p] # 0 => Knows(w, p, run[w][p])
    BY <2>3, KnowsIntro DEF Tokens
  <2>5. ASSUME UNCHANGED <<leaseKey, fence, late>>, DictKept, RunKept, IoKept
        PROVE  KnowledgeInv'
    BY <1>1, <2>5, UnchangedKept, LearnNothing
  <2>6. CASE TryAcquire(w, p)
    <3>1. IoKept
      BY <2>1, <2>2, <2>3, <2>6, SendKept DEF TryAcquire
    <3> QED BY <2>5, <2>6, <3>1, UnchangedKept DEF TryAcquire
  <2>7. CASE TryAcquireReturn(w, p)
    <3>1. IoKept
      BY <2>1, <2>7, ReturnKept DEF TryAcquireReturn
    <3>2. CASE io[w][p].ret = 0
      BY <2>5, <2>7, <3>1, <3>2, UnchangedKept DEF TryAcquireReturn
    <3>3. CASE io[w][p].ret # 0
      <4>1. /\ lease_tokens' = [lease_tokens EXCEPT ![w][p] = io[w][p].ret]
            /\ run' = [run EXCEPT ![w][p] = io[w][p].ret]
            /\ io[w][p] # Idle
        BY <2>7, <3>3 DEF TryAcquireReturn
      <4>2. io[w][p].p = p /\ io[w][p].ret \in Tokens
        BY <2>1, <3>3, <4>1, SlotType DEF FenceInv, OwnCalls, Tokens
      <4>3. Knows(w, p, io[w][p].ret)
        BY <2>1, <4>1, <4>2, KnowsIntro
      <4>4. \A v \in Workers, q \in Pipelines :
              IF v = w /\ q = p
              THEN lease_tokens'[v][q] = io[w][p].ret /\ run'[v][q] = io[w][p].ret
              ELSE lease_tokens'[v][q] = lease_tokens[v][q] /\ run'[v][q] = run[v][q]
        BY <4>1 DEF TypeOK
      <4>5. DictKept
        <5> SUFFICES ASSUME NEW v \in Workers, NEW q \in Pipelines, NEW k \in Tokens,
                            lease_tokens'[v][q] = k
                     PROVE  Knows(v, q, k)
          BY DEF DictKept
        <5>1. CASE v = w /\ q = p
          <6>1. k = io[w][p].ret
            BY <4>4, <5>1
          <6> QED BY <4>3, <5>1, <6>1
        <5>2. CASE ~(v = w /\ q = p)
          <6>1. lease_tokens[v][q] = k
            BY <4>4, <5>2
          <6> QED BY <6>1, KnowsIntro
        <5> QED BY <5>1, <5>2
      <4>6. RunKept
        <5> SUFFICES ASSUME NEW v \in Workers, NEW q \in Pipelines, NEW k \in Tokens,
                            run'[v][q] = k
                     PROVE  Knows(v, q, k)
          BY DEF RunKept
        <5>1. CASE v = w /\ q = p
          <6>1. k = io[w][p].ret
            BY <4>4, <5>1
          <6> QED BY <4>3, <5>1, <6>1
        <5>2. CASE ~(v = w /\ q = p)
          <6>1. run[v][q] = k
            BY <4>4, <5>2
          <6> QED BY <6>1, KnowsIntro
        <5> QED BY <5>1, <5>2
      <4> QED BY <2>5, <2>7, <3>1, <4>5, <4>6 DEF TryAcquireReturn
    <3> QED BY <3>2, <3>3
  <2>8. CASE AcquireLocal(w, p)
    BY <2>8 DEF AcquireLocal, FenceInv, NoLocal
  <2>9. CASE Release(w, p)
    <3>1. DictKept
      BY <2>9, ClearKept DEF Release
    <3>2. CASE phase[w] = "running" /\ lease_tokens[w][p] # 0
      <4>1. IoKept
        BY <2>1, <2>2, <2>3, <2>4, <2>9, <3>2, SendKept DEF Release
      <4> QED BY <2>5, <2>9, <3>1, <3>2, <4>1, UnchangedKept DEF Release
    <3>3. CASE ~(phase[w] = "running" /\ lease_tokens[w][p] # 0)
      BY <2>5, <2>9, <3>1, <3>3, UnchangedKept, ClearKept DEF Release
    <3> QED BY <3>2, <3>3
  <2>10. CASE ReleaseReturn(w, p)
    BY <2>1, <2>5, <2>10, UnchangedKept, ClearKept, ReturnKept DEF ReleaseReturn
  <2>11. CASE Validate(w, p)
    <3>1. IoKept
      BY <2>1, <2>2, <2>3, <2>4, <2>11, SendKept DEF Validate
    <3> QED BY <2>5, <2>11, <3>1, UnchangedKept DEF Validate
  <2>12. CASE ValidateReturn(w, p)
    <3>1. \A v \in Workers, q \in Pipelines :
            lease_tokens'[v][q] = 0 \/ lease_tokens'[v][q] = lease_tokens[v][q]
      BY <2>12 DEF ValidateReturn, TypeOK
    <3>2. DictKept
      BY <3>1, KnowsIntro DEF DictKept, Tokens
    <3> QED BY <2>1, <2>5, <2>12, <3>2, UnchangedKept, ReturnKept DEF ValidateReturn
  <2>13. CASE Renew(w, p)
    <3>1. IoKept
      BY <2>1, <2>2, <2>3, <2>4, <2>13, SendKept DEF Renew
    <3> QED BY <2>5, <2>13, <3>1, UnchangedKept DEF Renew
  <2>14. CASE StopRelease(w, p)
    <3>1. IoKept
      BY <2>1, <2>2, <2>3, <2>4, <2>14, SendKept DEF StopRelease
    <3> QED BY <2>5, <2>14, <3>1, UnchangedKept, ClearKept DEF StopRelease
  <2>15. CASE LoopRenew(w, p)
    <3>1. IoKept
      <4>1. CASE lease_tokens[w][p] # 0
        BY <2>1, <2>2, <2>3, <2>4, <2>15, <4>1, SendKept DEF LoopRenew
      <4>2. CASE lease_tokens[w][p] = 0
        BY <2>15, <4>2, UnchangedKept DEF LoopRenew
      <4> QED BY <4>1, <4>2
    <3> QED BY <2>5, <2>15, <3>1, UnchangedKept DEF LoopRenew
  <2> QED BY <1>3, <2>6, <2>7, <2>8, <2>9, <2>10, <2>11, <2>12, <2>13, <2>14, <2>15
          DEF PipelineStep
<1>4. ASSUME NEW w \in Workers, NEW t \in Tasks, Execute(w, t)
      PROVE  KnowledgeInv'
  <2> DEFINE c == io[w][t]
             r == Reply(w, c.op, c.p, c.tok)
  <2>1. /\ c # Idle /\ c.op \in Ops /\ c.p \in Pipelines /\ c.tok \in Nat
        /\ RunScript(w, c.op, c.p, c.tok)
        /\ io' = [io EXCEPT ![w][t].done = TRUE, ![w][t].ret = r]
        /\ UNCHANGED <<lease_tokens, run, late>>
    BY <1>4, SlotType DEF Execute
  <2>2. c.tok # 0 => Knows(w, c.p, c.tok)
    BY <2>1, KnowsIntro DEF Tokens
  <2>3. r \in Nat
    BY <2>1, ReplyType
  <2>4. \A v \in Workers, s \in Tasks :
          IF v = w /\ s = t
          THEN io'[v][s].p = c.p /\ io'[v][s].tok = c.tok /\ io'[v][s].ret = r
          ELSE io'[v][s] = io[v][s]
    BY <2>1 DEF TypeOK, Command
  <2>5. DictKept /\ RunKept /\ LateKept
    BY <2>1, UnchangedKept
  <2> HIDE DEF c, r
  <2>6. CASE UNCHANGED fence /\ KeyKept /\ (r # 0 => Knows(w, c.p, r))
    <3> SUFFICES ASSUME NEW v \in Workers, NEW s \in Tasks, NEW q \in Pipelines,
                        NEW k \in Tokens, io'[v][s] # Idle, io'[v][s].p = q,
                        io'[v][s].tok = k \/ io'[v][s].ret = k
                 PROVE  Knows(v, q, k)
      <4>1. IoKept => KnowledgeInv'
        BY <1>1, <2>5, <2>6, LearnNothing
      <4> QED BY <4>1 DEF IoKept
    <3>1. CASE v = w /\ s = t
      <4>1. q = c.p /\ (k = c.tok \/ k = r)
        BY <2>4, <3>1
      <4> QED BY <2>2, <2>6, <3>1, <4>1 DEF Tokens
    <3>2. CASE ~(v = w /\ s = t)
      <4>1. io'[v][s] = io[v][s]
        BY <2>4, <3>2
      <4>2. io[v][s] # Idle /\ io[v][s].p = q /\ (io[v][s].tok = k \/ io[v][s].ret = k)
        BY <4>1
      <4> QED BY <4>2, KnowsIntro
    <3> QED BY <3>1, <3>2
  <2>7. CASE /\ leaseKey[c.p] = NoLease
             /\ fence' = [fence EXCEPT ![c.p] = @ + 1]
             /\ leaseKey' = [leaseKey EXCEPT ![c.p] =
                               [worker |-> w, token |-> fence[c.p] + 1]]
             /\ r = fence[c.p] + 1
    <3> SUFFICES ASSUME NEW v \in Workers, NEW q \in Pipelines, NEW k \in Tokens,
                        Knows(v, q, k)', ~Knows(v, q, k)
                 PROVE  v = w /\ q = c.p /\ k = fence[c.p] + 1
      <4>1. Issues(w, c.p) => KnowledgeInv'
        BY <2>1, IssueKnowledge DEF FenceInv
      <4> QED BY <2>7, <4>1 DEF Issues
    <3>1. \/ leaseKey'[q] = [worker |-> v, token |-> k]
          \/ \E s \in Tasks : /\ io'[v][s] # Idle
                              /\ io'[v][s].p = q
                              /\ io'[v][s].tok = k \/ io'[v][s].ret = k
      BY <2>5 DEF DictKept, RunKept, LateKept, Knows, Matches
    <3>2. CASE leaseKey'[q] = [worker |-> v, token |-> k]
      <4>1. CASE q = c.p
        <5>1. leaseKey'[q] = [worker |-> w, token |-> fence[c.p] + 1]
          BY <2>1, <2>7, <4>1 DEF TypeOK
        <5> QED BY <3>2, <4>1, <5>1
      <4>2. CASE q # c.p
        <5>1. leaseKey'[q] = leaseKey[q]
          BY <2>1, <2>7, <4>2 DEF TypeOK
        <5> QED BY <3>2, <5>1, KnowsIntro
      <4> QED BY <4>1, <4>2
    <3>3. ASSUME NEW s \in Tasks, io'[v][s] # Idle, io'[v][s].p = q,
                 io'[v][s].tok = k \/ io'[v][s].ret = k
          PROVE  v = w /\ q = c.p /\ k = fence[c.p] + 1
      <4>1. CASE v = w /\ s = t
        <5>1. q = c.p /\ (k = c.tok \/ k = r)
          BY <2>4, <3>3, <4>1
        <5>2. k # c.tok
          BY <2>2, <4>1, <5>1 DEF Tokens
        <5> QED BY <2>7, <4>1, <5>1, <5>2
      <4>2. CASE ~(v = w /\ s = t)
        <5>1. io'[v][s] = io[v][s]
          BY <2>4, <4>2
        <5>2. io[v][s] # Idle /\ io[v][s].p = q /\ (io[v][s].tok = k \/ io[v][s].ret = k)
          BY <3>3, <5>1
        <5> QED BY <5>2, KnowsIntro
      <4> QED BY <4>1, <4>2
    <3>4. CASE \E s \in Tasks : /\ io'[v][s] # Idle
                                /\ io'[v][s].p = q
                                /\ io'[v][s].tok = k \/ io'[v][s].ret = k
      <4>1. PICK s \in Tasks : /\ io'[v][s] # Idle
                               /\ io'[v][s].p = q
                               /\ io'[v][s].tok = k \/ io'[v][s].ret = k
        BY <3>4
      <4> QED BY <4>1, <3>3
    <3> QED BY <3>1, <3>2, <3>4
  <2>8. \/ UNCHANGED fence /\ KeyKept /\ (r # 0 => Knows(w, c.p, r))
        \/ /\ leaseKey[c.p] = NoLease
           /\ fence' = [fence EXCEPT ![c.p] = @ + 1]
           /\ leaseKey' = [leaseKey EXCEPT ![c.p] =
                             [worker |-> w, token |-> fence[c.p] + 1]]
           /\ r = fence[c.p] + 1
    BY <2>1, <2>2, ScriptKnowledge DEF r
  <2> QED BY <2>6, <2>7, <2>8
<1>5. ASSUME NEW w \in Workers, NEW t \in Tasks, RenewReturn(w, t)
      PROVE  KnowledgeInv'
  <2> DEFINE c == io[w][t]
  <2>1. c # Idle /\ c.p \in Pipelines /\ c.tok \in Nat
    BY <1>5, SlotType DEF RenewReturn
  <2>2. c.tok # 0 => Knows(w, c.p, c.tok)
    BY <2>1, KnowsIntro DEF Tokens
  <2>3. IoKept
    BY <1>5, ReturnKept DEF RenewReturn
  <2>4. \A v \in Workers, q \in Pipelines :
          \/ lease_tokens'[v][q] = 0
          \/ lease_tokens'[v][q] = lease_tokens[v][q]
          \/ v = w /\ q = c.p /\ lease_tokens'[v][q] = c.tok
    BY <1>5, <2>1 DEF RenewReturn, TypeOK
  <2>5. DictKept
    BY <2>2, <2>4, KnowsIntro, ZenonT(40) DEF DictKept, Tokens
  <2> QED BY <1>1, <1>5, <2>3, <2>5, UnchangedKept, LearnNothing DEF RenewReturn
<1>6. ASSUME NEW w \in Workers, NEW t \in Tasks, CallError(w, t)
      PROVE  KnowledgeInv'
  <2>1. {io[w][t]} \in SUBSET {io[w][s] : s \in Tasks}
    OBVIOUS
  <2>2. LateKept
    BY <1>6, <2>1, AbandonKept DEF CallError
  <2>3. RunKept
    BY <1>6, UnchangedKept, ClearKept DEF CallError
  <2>4. IoKept
    BY <1>6, ReturnKept DEF CallError
  <2> QED BY <1>1, <1>6, <2>2, <2>3, <2>4, UnchangedKept, LearnNothing DEF CallError
<1>7. ASSUME NEW p \in Pipelines, Expire(p) PROVE KnowledgeInv'
  <2>1. \A q \in Pipelines : leaseKey'[q] = NoLease \/ leaseKey'[q] = leaseKey[q]
    BY <1>7 DEF Expire, TypeOK
  <2>2. \A v \in Workers, k \in Tokens : [worker |-> v, token |-> k] # NoLease
    BY DEF Tokens
  <2>3. KeyKept
    BY <2>1, <2>2, KnowsIntro DEF KeyKept
  <2> QED BY <1>1, <1>7, <2>3, UnchangedKept, LearnNothing DEF Expire
<1>8. ASSUME NEW c \in late, ExecuteLate(c) PROVE KnowledgeInv'
  <2>1. /\ c.worker \in Workers /\ c.op \in Ops /\ c.p \in Pipelines /\ c.tok \in Nat
        /\ RunScript(c.worker, c.op, c.p, c.tok)
        /\ UNCHANGED <<lease_tokens, run, io>>
    BY <1>8 DEF ExecuteLate, TypeOK
  <2>2. c.tok # 0 => Knows(c.worker, c.p, c.tok)
    BY <2>1, KnowsIntro DEF Tokens
  <2>3. LateKept
    BY <1>8, KnowsIntro DEF ExecuteLate, LateKept
  <2>4. DictKept /\ RunKept /\ IoKept
    BY <2>1, UnchangedKept
  <2>5. CASE UNCHANGED fence /\ KeyKept
    BY <1>1, <2>3, <2>4, <2>5, LearnNothing
  <2>6. CASE /\ leaseKey[c.p] = NoLease
             /\ fence' = [fence EXCEPT ![c.p] = @ + 1]
             /\ leaseKey' = [leaseKey EXCEPT ![c.p] =
                               [worker |-> c.worker, token |-> fence[c.p] + 1]]
    <3> SUFFICES ASSUME NEW v \in Workers, NEW q \in Pipelines, NEW k \in Tokens,
                        Knows(v, q, k)', ~Knows(v, q, k)
                 PROVE  v = c.worker /\ q = c.p /\ k = fence[c.p] + 1
      <4>1. Issues(c.worker, c.p) => KnowledgeInv'
        BY <2>1, IssueKnowledge DEF FenceInv
      <4> QED BY <2>6, <4>1 DEF Issues
    <3>1. leaseKey'[q] = [worker |-> v, token |-> k]
      BY <2>3, <2>4 DEF DictKept, RunKept, IoKept, LateKept, Knows, Matches
    <3>2. CASE q = c.p
      <4>1. leaseKey'[q] = [worker |-> c.worker, token |-> fence[c.p] + 1]
        BY <2>1, <2>6, <3>2 DEF TypeOK
      <4> QED BY <3>1, <3>2, <4>1
    <3>3. CASE q # c.p
      <4>1. leaseKey'[q] = leaseKey[q]
        BY <2>1, <2>6, <3>3 DEF TypeOK
      <4> QED BY <3>1, <4>1, KnowsIntro
    <3> QED BY <3>2, <3>3
  <2> QED BY <2>1, <2>2, <2>5, <2>6, ScriptKnowledge
<1>9. CASE UNCHANGED vars
  BY <1>1, <1>9, UnchangedKept, LearnNothing DEF vars
<1>10. ASSUME NEW p \in Pipelines, ExpireFence(p) PROVE FALSE
  BY <1>10 DEF ExpireFence
<1> QED BY <1>2, <1>3, <1>4, <1>5, <1>6, <1>7, <1>8, <1>9, <1>10 DEF Next, TaskStep

\* Only StartLocal enters the local phase, and it needs the fallback.
LEMMA NoLocalStep ==
    ASSUME ~FallbackToLocal, TypeOK, NoLocal, [Next]_vars
    PROVE  NoLocal'
<1>1. ASSUME UNCHANGED phase PROVE NoLocal'
  BY <1>1 DEF NoLocal
<1>2. ASSUME NEW w \in Workers, WorkerStep(w) PROVE NoLocal'
  BY <1>1, <1>2 DEF WorkerStep, Start, StartLocal, StopLocal, StopBegin, StopReleaseReturn,
     StopFinish, Crash, LoopWake, LoopCycleEnd, LoopDeadline, NoLocal, TypeOK
<1>3. ASSUME NEW w \in Workers, NEW p \in Pipelines, PipelineStep(w, p)
      PROVE  NoLocal'
  BY <1>1, <1>3 DEF PipelineStep, TryAcquire, TryAcquireReturn, AcquireLocal, Release,
     ReleaseReturn, Validate, ValidateReturn, Renew, StopRelease, LoopRenew
<1>4. ASSUME NEW w \in Workers, NEW t \in Tasks, TaskStep(w, t) PROVE NoLocal'
  BY <1>1, <1>4 DEF TaskStep, Execute, RenewReturn, CallError
<1>5. CASE \/ \E p \in Pipelines : Expire(p)
           \/ \E p \in Pipelines : ExpireFence(p)
           \/ \E c \in late : ExecuteLate(c)
           \/ UNCHANGED vars
  BY <1>1, <1>5 DEF Expire, ExpireFence, ExecuteLate, vars
<1> QED BY <1>2, <1>3, <1>4, <1>5 DEF Next

\* As long as no fencing counter has expired, and without the local fallback, a
\* fencing token never reaches two workers, for any number of workers,
\* pipelines, lost replies, crashes and restarts.  With no
\* fencing_key_ttl_seconds no counter ever expires (CountersStay).
THEOREM FencingTokensUnique == Spec => []TokensNotShared
<1>1. CASE FallbackToLocal
  <2>1. TypeOK => TokensNotShared
    BY <1>1 DEF TokensNotShared
  <2> QED BY <2>1, TypeCorrect, PTL
<1>2. CASE ~FallbackToLocal
  <2>1. Init => FenceInv
    <3> SUFFICES ASSUME Init PROVE FenceInv
      OBVIOUS
    <3>1. LiveLeaseIsNewest /\ OwnCalls /\ NoLocal
      BY DEF Init, LiveLeaseIsNewest, OwnCalls, NoLocal, NoIo, Tasks
    <3>2. \A v \in Workers, p \in Pipelines, k \in Tokens : ~Knows(v, p, k)
      BY ConstantAssumption DEF Init, Knows, Matches, Tokens, NoIo
    <3> QED BY <3>1, <3>2 DEF FenceInv, KnowledgeInv
  <2>2. TypeOK /\ FencedInv /\ [Next]_vars => FencedInv'
    <3> SUFFICES ASSUME TypeOK, FencedInv, [Next]_vars PROVE FencedInv'
      OBVIOUS
    <3>1. LiveLeaseIsNewest' /\ OwnCalls' /\ NoLocal'
      BY <1>2, NewestStep, OwnCallsStep, NoLocalStep DEF FencedInv
    <3>2. ASSUME ~expired' PROVE KnowledgeInv'
      <4>1. ~expired
        BY <3>2, ExpiredStays
      <4>2. FenceInv
        BY <4>1 DEF FencedInv, FenceInv
      <4> QED BY <1>2, <3>2, <4>2, KnowledgeStep
    <3> QED BY <3>1, <3>2 DEF FencedInv
  <2>3. TypeOK /\ FencedInv => TokensNotShared
    <3> SUFFICES ASSUME TypeOK, FencedInv, ~expired PROVE TokensNotShared
      BY DEF TokensNotShared
    <3>0. FenceInv
      BY DEF FencedInv, FenceInv
    <3>1. /\ \A p \in Pipelines : fence[p] \in Nat
          /\ \A v \in Workers, p \in Pipelines, k \in Nat :
               k # 0 /\ Knows(v, p, k) => k <= fence[p]
      BY <3>0 DEF TypeOK, FenceInv, KnowledgeInv, Tokens
    <3>2. \A w \in Workers, p \in Pipelines :
            lease_tokens[w][p] <= fence[p] /\ run[w][p] <= fence[p]
      <4> TAKE w \in Workers, p \in Pipelines
      <4>1. lease_tokens[w][p] \in Nat /\ run[w][p] \in Nat
        BY DEF TypeOK
      <4>2. /\ lease_tokens[w][p] # 0 => Knows(w, p, lease_tokens[w][p])
            /\ run[w][p] # 0 => Knows(w, p, run[w][p])
        BY <4>1, KnowsIntro DEF Tokens
      <4> QED BY <3>1, <4>1, <4>2
    <3>3. \A w \in Workers, t \in Tasks :
            io[w][t] # Idle => /\ io[w][t].tok <= fence[io[w][t].p]
                               /\ io[w][t].ret <= fence[io[w][t].p]
      <4> SUFFICES ASSUME NEW w \in Workers, NEW t \in Tasks, io[w][t] # Idle
                   PROVE  /\ io[w][t].tok <= fence[io[w][t].p]
                          /\ io[w][t].ret <= fence[io[w][t].p]
        OBVIOUS
      <4>1. /\ io[w][t].p \in Pipelines
            /\ io[w][t].tok \in Nat
            /\ io[w][t].ret \in Nat
        BY SlotType
      <4>2. /\ io[w][t].tok # 0 => Knows(w, io[w][t].p, io[w][t].tok)
            /\ io[w][t].ret # 0 => Knows(w, io[w][t].p, io[w][t].ret)
        BY <4>1, KnowsIntro DEF Tokens
      <4> QED BY <3>1, <4>1, <4>2
    <3>4. \A c \in late : c.tok <= fence[c.p]
      <4> TAKE c \in late
      <4>1. c.worker \in Workers /\ c.p \in Pipelines /\ c.tok \in Nat
        BY DEF TypeOK
      <4>2. c.tok # 0 => Knows(c.worker, c.p, c.tok)
        BY <4>1, KnowsIntro DEF Tokens
      <4> QED BY <3>1, <4>1, <4>2
    <3>5. \A p \in Pipelines : \A k \in 1..fence[p] : k \in Tokens
      BY <3>1 DEF Tokens
    <3> QED BY <3>0, <3>2, <3>3, <3>4, <3>5
            DEF TokensNotShared, TokensIssued, FenceInv, KnowledgeInv
  <2>4. FenceInv => FencedInv
    BY DEF FenceInv, FencedInv
  <2> QED BY <2>1, <2>2, <2>3, <2>4, TypeCorrect, PTL DEF Spec
<1> QED BY <1>1, <1>2

\* Without fencing_key_ttl_seconds, the default, no counter expires.
THEOREM CountersStay == Spec => [](expired => FencingKeyTtl)
<1>1. Init => (expired => FencingKeyTtl)
  BY DEF Init
<1>2. ASSUME TypeOK, ~FencingKeyTtl, ~expired, [Next]_vars PROVE ~expired'
  <2>1. ASSUME expired' = expired PROVE ~expired'
    BY <1>2, <2>1
  <2>2. ASSUME NEW w \in Workers, WorkerStep(w) PROVE ~expired'
    BY <2>1, <2>2 DEF WorkerStep, redisVars, Start, StartLocal, StopLocal, StopBegin,
       StopReleaseReturn, StopFinish, Crash, LoopWake, LoopCycleEnd, LoopDeadline
  <2>3. ASSUME NEW w \in Workers, NEW p \in Pipelines, PipelineStep(w, p) PROVE ~expired'
    BY <2>1, <2>3 DEF PipelineStep, TryAcquire, TryAcquireReturn, AcquireLocal, Release,
       ReleaseReturn, Validate, ValidateReturn, Renew, StopRelease, LoopRenew
  <2>4. ASSUME NEW w \in Workers, NEW t \in Tasks, TaskStep(w, t) PROVE ~expired'
    <3>1. CASE Execute(w, t)
      BY <1>2, <2>1, <3>1, SlotType, RunScriptType DEF Execute
    <3>2. CASE RenewReturn(w, t) \/ CallError(w, t)
      BY <2>1, <3>2 DEF RenewReturn, CallError
    <3> QED BY <2>4, <3>1, <3>2 DEF TaskStep
  <2>5. ASSUME NEW c \in late, ExecuteLate(c) PROVE ~expired'
    <3>1. c.worker \in Workers /\ c.op \in Ops /\ c.p \in Pipelines /\ c.tok \in Nat
      BY <1>2 DEF TypeOK
    <3> QED BY <1>2, <2>1, <2>5, <3>1, RunScriptType DEF ExecuteLate
  <2>6. ASSUME NEW p \in Pipelines, Expire(p) \/ ExpireFence(p) PROVE ~expired'
    BY <1>2, <2>1, <2>6 DEF Expire, ExpireFence
  <2>7. CASE UNCHANGED vars
    BY <2>1, <2>7 DEF vars
  <2> QED BY <1>2, <2>2, <2>3, <2>4, <2>5, <2>6, <2>7 DEF Next
<1>3. TypeOK /\ (expired => FencingKeyTtl) /\ [Next]_vars => (expired => FencingKeyTtl)'
  BY <1>2
<1> QED BY <1>1, <1>3, TypeCorrect, PTL DEF Spec

-----------------------------------------------------------------------------
(* Sessions *)

\* What a worker carries from one phase to the next: a run needs a session, a
\* fresh process has an empty dictionary, and in the local phase the dictionary
\* and the runs agree.
SessionInv ==
    \A w \in Workers, p \in Pipelines :
      /\ phase[w] = "local" => lease_tokens[w][p] = run[w][p]
      /\ phase[w] \in {"new", "stopping", "stopped"} => run[w][p] = 0
      /\ phase[w] = "new" => lease_tokens[w][p] = 0

\* Every step keeps the sessions apart: a reply can only reach the dictionary
\* of a worker that is still in the session that asked.
LEMMA SessionStep == TypeOK /\ QuietInv /\ SessionInv /\ [Next]_vars => SessionInv'
<1> SUFFICES ASSUME TypeOK, QuietInv, SessionInv, [Next]_vars PROVE SessionInv'
  OBVIOUS
<1> USE ConstantAssumption
<1>1. ASSUME UNCHANGED <<phase, lease_tokens, run>> PROVE SessionInv'
  BY <1>1 DEF SessionInv
<1>2. ASSUME NEW w \in Workers, WorkerStep(w) PROVE SessionInv'
  <2>1. CASE Start(w)
    BY <2>1 DEF TypeOK, SessionInv, Start
  <2>2. CASE StartLocal(w)
    BY <2>2 DEF TypeOK, SessionInv, QuietInv, StartLocal
  <2>3. CASE StopLocal(w)
    BY <2>3 DEF TypeOK, SessionInv, StopLocal
  <2>4. CASE StopBegin(w)
    BY <2>4 DEF TypeOK, SessionInv, StopBegin
  <2>5. CASE StopFinish(w)
    BY <2>5 DEF TypeOK, SessionInv, StopFinish
  <2>6. CASE Crash(w)
    BY <2>6 DEF TypeOK, SessionInv, Crash
  <2>7. CASE LoopDeadline(w)
    <3>1. phase[w] = "running"
      BY <2>7 DEF LoopDeadline, QuietInv
    <3> QED BY <2>7, <3>1 DEF TypeOK, SessionInv, LoopDeadline
  <2>8. CASE StopReleaseReturn(w) \/ LoopWake(w) \/ LoopCycleEnd(w)
    BY <1>1, <2>8 DEF StopReleaseReturn, LoopWake, LoopCycleEnd
  <2> QED BY <1>2, <2>1, <2>2, <2>3, <2>4, <2>5, <2>6, <2>7, <2>8 DEF WorkerStep
<1>3. ASSUME NEW w \in Workers, phase[w] = "running", UNCHANGED phase,
             \A v \in Workers : v # w => /\ lease_tokens'[v] = lease_tokens[v]
                                         /\ run'[v] = run[v]
      PROVE  SessionInv'
  BY <1>3 DEF SessionInv
<1>4. ASSUME NEW w \in Workers, NEW p \in Pipelines, PipelineStep(w, p)
      PROVE  SessionInv'
  <2>1. io[w][p] # Idle => phase[w] = "running"
    BY DEF QuietInv
  <2>2. CASE TryAcquireReturn(w, p)
    BY <1>3, <2>1, <2>2 DEF TryAcquireReturn, TypeOK
  <2>3. CASE AcquireLocal(w, p)
    BY <2>3 DEF AcquireLocal, TypeOK, SessionInv
  <2>4. CASE Release(w, p)
    <3>1. CASE phase[w] = "running"
      BY <1>3, <2>4, <3>1 DEF Release, TypeOK
    <3>2. CASE phase[w] = "local"
      BY <2>4, <3>2 DEF Release, TypeOK, SessionInv
    <3> QED BY <2>4, <3>1, <3>2 DEF Release
  <2>5. CASE ReleaseReturn(w, p)
    BY <1>3, <2>1, <2>5 DEF ReleaseReturn, TypeOK
  <2>6. CASE ValidateReturn(w, p)
    BY <1>3, <2>1, <2>6 DEF ValidateReturn, TypeOK
  <2>7. CASE StopRelease(w, p)
    BY <2>7 DEF StopRelease, TypeOK, SessionInv
  <2>8. CASE TryAcquire(w, p) \/ Validate(w, p) \/ Renew(w, p) \/ LoopRenew(w, p)
    BY <1>1, <2>8 DEF TryAcquire, Validate, Renew, LoopRenew
  <2> QED BY <1>4, <2>2, <2>3, <2>4, <2>5, <2>6, <2>7, <2>8 DEF PipelineStep
<1>5. ASSUME NEW w \in Workers, NEW t \in Tasks, TaskStep(w, t)
      PROVE  SessionInv'
  <2>1. CASE Execute(w, t)
    BY <1>1, <2>1 DEF Execute
  <2>2. CASE RenewReturn(w, t)
    <3>1. phase[w] \in {"running", "stopping"}
      BY <2>2 DEF RenewReturn, QuietInv, Tasks, TypeOK
    <3>2. CASE phase[w] = "running"
      BY <1>3, <2>2, <3>2 DEF RenewReturn, TypeOK
    <3>3. CASE phase[w] = "stopping"
      <4>1. /\ UNCHANGED <<phase, run>>
            /\ \A v \in Workers : v # w => lease_tokens'[v] = lease_tokens[v]
        BY <2>2 DEF RenewReturn, TypeOK
      <4> QED BY <3>3, <4>1 DEF SessionInv
    <3> QED BY <3>1, <3>2, <3>3
  <2>3. CASE CallError(w, t)
    <3>1. UNCHANGED <<phase, lease_tokens>>
      BY <2>3 DEF CallError
    <3>2. \A v \in Workers : v # w => run'[v] = run[v]
      BY <2>3 DEF CallError, TypeOK
    <3>3. CASE phase[w] = "running"
      BY <1>3, <3>1, <3>2, <3>3
    <3>4. CASE phase[w] # "running"
      <4>1. t \notin Pipelines
        BY <2>3, <3>4 DEF CallError, QuietInv
      <4>2. run' = run
        BY <2>3, <4>1 DEF CallError
      <4> QED BY <1>1, <3>1, <4>2
    <3> QED BY <3>3, <3>4
  <2> QED BY <1>5, <2>1, <2>2, <2>3 DEF TaskStep
<1>6. CASE \/ \E p \in Pipelines : Expire(p)
           \/ \E p \in Pipelines : ExpireFence(p)
           \/ \E c \in late : ExecuteLate(c)
           \/ UNCHANGED vars
  BY <1>1, <1>6 DEF Expire, ExpireFence, ExecuteLate, vars
<1> QED BY <1>2, <1>4, <1>5, <1>6 DEF Next

LEMMA SessionsKept == Spec => [](TypeOK /\ QuietInv /\ SessionInv)
<1>1. Init => QuietInv /\ SessionInv
  BY ConstantAssumption DEF Init, QuietInv, SessionInv, NoIo, Tasks
<1> QED BY <1>1, TypeCorrect, QuietStep, SessionStep, PTL DEF Spec

\* In the local fallback every run holds exactly the lease it started under,
\* and no call of an earlier session on Redis is still awaited: start() always
\* finds an empty dictionary and no task at work, whatever ended the session
\* before it.
THEOREM FallbackHolds == Spec => []FallbackConsistent
<1>1. TypeOK /\ QuietInv /\ SessionInv => FallbackConsistent
  <2> SUFFICES ASSUME TypeOK, QuietInv, SessionInv, NEW w \in Workers, phase[w] = "local"
               PROVE  /\ lease_tokens[w] = run[w]
                      /\ \A t \in Tasks : io[w][t] = Idle
    BY DEF FallbackConsistent
  <2>1. \A p \in Pipelines : lease_tokens[w][p] = run[w][p]
    BY DEF SessionInv
  <2>2. lease_tokens[w] \in [Pipelines -> Nat] /\ run[w] \in [Pipelines -> Nat]
    BY DEF TypeOK
  <2>3. lease_tokens[w] = run[w]
    BY <2>1, <2>2
  <2>4. \A t \in Tasks : io[w][t] = Idle
    BY DEF QuietInv, Tasks
  <2> QED BY <2>3, <2>4
<1> QED BY <1>1, SessionsKept, PTL

-----------------------------------------------------------------------------
(* Stale releases *)

\* The renewal loop only renews and stop() only releases.
TaskOps ==
    \A w \in Workers :
      /\ io[w][LoopTask] # Idle => io[w][LoopTask].op = "renew"
      /\ io[w][StopTask] # Idle => io[w][StopTask].op = "release"

\* Outside the local phase the tokens that can reach the release script have
\* been issued by Redis: they are not newer than the counter.  Local tokens may
\* be newer, and validate() may carry one, which is why neither is named.
IssuedInv ==
    /\ \A w \in Workers, p \in Pipelines :
         phase[w] # "local" => lease_tokens[w][p] <= fence[p]
    /\ \A w \in Workers, t \in Tasks :
         io[w][t] # Idle =>
           /\ io[w][t].op # "validate" => io[w][t].tok <= fence[io[w][t].p]
           /\ io[w][t].op = "acquire" => io[w][t].ret <= fence[io[w][t].p]
    /\ \A c \in late : c.tok <= fence[c.p]

\* The token of an abandoned release is retired: its worker runs under another
\* one, and no reply on its way brings it back.
RetiredInv ==
    \A c \in late :
      c.op = "release" /\ c.tok # 0 /\ phase[c.worker] = "running" =>
        /\ run[c.worker][c.p] # c.tok
        /\ io[c.worker][c.p] # Idle /\ io[c.worker][c.p].op = "acquire"
             => io[c.worker][c.p].ret # c.tok

ReleaseInv == TaskOps /\ IssuedInv /\ RetiredInv

\* The slot of a call that has just been sent.
NewCall(v, s) ==
    /\ io'[v][s].ret = 0
    /\ io'[v][s].op # "validate" => io'[v][s].tok <= fence[io'[v][s].p]
    /\ s = LoopTask => io'[v][s].op = "renew"
    /\ s = StopTask => io'[v][s].op = "release"

\* What every step outside Redis does to the dictionaries, the slots, the
\* abandoned calls and the runs.
DictFrame == \A v \in Workers, q \in Pipelines :
               phase'[v] # "local" => lease_tokens'[v][q] <= fence[q]
IoFrame == \A v \in Workers, s \in Tasks :
             io'[v][s] = Idle \/ io'[v][s] = io[v][s] \/ NewCall(v, s)
LateFrame == \A c \in late' :
               \/ c \in late
               \/ /\ c.tok <= fence[c.p]
                  /\ c.op = "release" /\ phase'[c.worker] = "running" =>
                       run'[c.worker][c.p] = 0 /\ io'[c.worker][c.p] = Idle
RunFrame == \A v \in Workers, q \in Pipelines :
              phase'[v] = "running" =>
                \/ phase[v] = "running" /\ run'[v][q] = run[v][q]
                \/ /\ run'[v][q] = 0
                   /\ phase[v] = "running" \/ io'[v][q] = Idle
                \/ /\ phase[v] = "running"
                   /\ io[v][q] # Idle
                   /\ io[v][q].op = "acquire"
                   /\ run'[v][q] = io[v][q].ret
                   /\ io'[v][q] = Idle

\* Such a step keeps released tokens retired.
LEMMA FrameKeeps ==
    ASSUME TypeOK, ReleaseInv, fence' = fence, DictFrame, IoFrame, LateFrame, RunFrame,
           TypeOK'
    PROVE  ReleaseInv'
<1> USE ConstantAssumption
<1>1. LoopTask \in Tasks /\ StopTask \in Tasks /\ Pipelines \subseteq Tasks
  BY DEF Tasks
<1>2. TaskOps'
  BY <1>1 DEF ReleaseInv, TaskOps, IoFrame, NewCall
<1>3. IssuedInv'
  <2>1. \A w \in Workers, t \in Tasks :
          io'[w][t] # Idle =>
            /\ io'[w][t].op # "validate" => io'[w][t].tok <= fence[io'[w][t].p]
            /\ io'[w][t].op = "acquire" => io'[w][t].ret <= fence[io'[w][t].p]
    <3> SUFFICES ASSUME NEW w \in Workers, NEW t \in Tasks, io'[w][t] # Idle
                 PROVE  /\ io'[w][t].op # "validate" => io'[w][t].tok <= fence[io'[w][t].p]
                        /\ io'[w][t].op = "acquire" => io'[w][t].ret <= fence[io'[w][t].p]
      OBVIOUS
    <3>1. CASE io'[w][t] = io[w][t]
      BY <3>1 DEF ReleaseInv, IssuedInv
    <3>2. CASE NewCall(w, t)
      <4>1. io'[w][t].p \in Pipelines
        BY DEF TypeOK, Command
      <4>2. fence[io'[w][t].p] \in Nat
        BY <4>1 DEF TypeOK
      <4> QED BY <3>2, <4>2 DEF NewCall
    <3> QED BY <3>1, <3>2 DEF IoFrame
  <2>2. \A c \in late' : c.tok <= fence[c.p]
    BY DEF LateFrame, ReleaseInv, IssuedInv
  <2> QED BY <2>1, <2>2 DEF IssuedInv, DictFrame
<1>4. RetiredInv'
  <2> SUFFICES ASSUME NEW c \in late', c.op = "release", c.tok # 0,
                      phase'[c.worker] = "running"
               PROVE  /\ run'[c.worker][c.p] # c.tok
                      /\ io'[c.worker][c.p] # Idle /\ io'[c.worker][c.p].op = "acquire"
                           => io'[c.worker][c.p].ret # c.tok
    BY DEF RetiredInv
  <2> DEFINE v == c.worker
             q == c.p
  <2>1. v \in Workers /\ q \in Pipelines /\ q \in Tasks
    BY <1>1 DEF TypeOK
  <2>2. CASE c \notin late
    BY <2>2 DEF LateFrame
  <2>3. CASE c \in late
    <3>1. phase[v] = "running" =>
            /\ run[v][q] # c.tok
            /\ io[v][q] # Idle /\ io[v][q].op = "acquire" => io[v][q].ret # c.tok
      BY <2>3 DEF ReleaseInv, RetiredInv
    <3>2. \/ phase[v] = "running" /\ run'[v][q] = run[v][q]
          \/ /\ run'[v][q] = 0
             /\ phase[v] = "running" \/ io'[v][q] = Idle
          \/ /\ phase[v] = "running"
             /\ io[v][q] # Idle
             /\ io[v][q].op = "acquire"
             /\ run'[v][q] = io[v][q].ret
             /\ io'[v][q] = Idle
      BY <2>1 DEF RunFrame
    <3>3. io'[v][q] = Idle \/ io'[v][q] = io[v][q] \/ io'[v][q].ret = 0
      BY <2>1 DEF IoFrame, NewCall
    <3> HIDE DEF v, q
    <3>4. /\ run'[v][q] # c.tok
          /\ io'[v][q] # Idle /\ io'[v][q].op = "acquire" => io'[v][q].ret # c.tok
      BY <3>1, <3>2, <3>3
    <3> QED BY <3>4 DEF v, q
  <2> QED BY <2>2, <2>3
<1> QED BY <1>2, <1>3, <1>4 DEF ReleaseInv

\* Sending and returning, slot by slot.
LEMMA SendSlot ==
    ASSUME TypeOK, NEW w \in Workers, NEW t \in Tasks, NEW op \in Ops,
           NEW p \in Pipelines, NEW tok \in Nat, Send(w, t, op, p, tok)
    PROVE  \A v \in Workers, s \in Tasks :
             IF v = w /\ s = t
             THEN io'[v][s] = [op |-> op, p |-> p, tok |-> tok, done |-> FALSE, ret |-> 0]
             ELSE io'[v][s] = io[v][s]
BY DEF Send, TypeOK

LEMMA SendFrame ==
    ASSUME TypeOK, NEW w \in Workers, NEW t \in Tasks, NEW op \in Ops,
           NEW p \in Pipelines, NEW tok \in Nat, Send(w, t, op, p, tok),
           op # "validate" => tok <= fence[p],
           t = LoopTask => op = "renew", t = StopTask => op = "release"
    PROVE  IoFrame
<1> SUFFICES ASSUME NEW v \in Workers, NEW s \in Tasks
             PROVE  io'[v][s] = io[v][s] \/ NewCall(v, s)
  BY DEF IoFrame
<1>0. IF v = w /\ s = t
      THEN io'[v][s] = [op |-> op, p |-> p, tok |-> tok, done |-> FALSE, ret |-> 0]
      ELSE io'[v][s] = io[v][s]
  BY SendSlot
<1>1. CASE v = w /\ s = t
  <2>1. io'[v][s] = [op |-> op, p |-> p, tok |-> tok, done |-> FALSE, ret |-> 0]
    BY <1>0, <1>1
  <2> QED BY <1>1, <2>1 DEF NewCall
<1>2. CASE ~(v = w /\ s = t)
  BY <1>0, <1>2
<1> QED BY <1>1, <1>2

LEMMA ReturnFrame ==
    ASSUME TypeOK, NEW w \in Workers, NEW t \in Tasks, Return(w, t)
    PROVE  /\ IoFrame
           /\ io'[w][t] = Idle
           /\ \A v \in Workers, s \in Tasks : io'[v][s] = Idle \/ io'[v][s] = io[v][s]
BY DEF Return, TypeOK, IoFrame

\* The loop's renewal leaves nothing behind when it is abandoned.
LEMMA LoopLeavesNothing ==
    ASSUME TaskOps, NEW w \in Workers
    PROVE  Unexecuted(w, {io[w][LoopTask]}) = {}
BY DEF TaskOps, Unexecuted

\* A part of the state that a step leaves alone, or clears, is framed.
LEMMA SameFrame ==
    ASSUME TypeOK, ReleaseInv
    PROVE  /\ io' = io => IoFrame
           /\ late' = late => LateFrame
           /\ UNCHANGED <<phase, run>> => RunFrame
           /\ UNCHANGED <<phase, lease_tokens>> => DictFrame
           /\ UNCHANGED phase
                /\ (\A v \in Workers, q \in Pipelines :
                      lease_tokens'[v][q] = 0 \/ lease_tokens'[v][q] = lease_tokens[v][q])
              => DictFrame
           /\ UNCHANGED phase
                /\ (\A v \in Workers, q \in Pipelines :
                      run'[v][q] = 0 \/ run'[v][q] = run[v][q])
              => RunFrame
<1>1. \A q \in Pipelines : fence[q] \in Nat
  BY DEF TypeOK
<1> QED BY <1>1 DEF IoFrame, LateFrame, RunFrame, DictFrame, ReleaseInv, IssuedInv

\* The coordinator's own steps, and the crash of its process.
LEMMA WorkerRelease ==
    ASSUME TypeOK, TypeOK', QuietInv, SessionInv, ReleaseInv,
           NEW w \in Workers, WorkerStep(w)
    PROVE  ReleaseInv'
<1> USE ConstantAssumption
<1>1. LoopTask \in Tasks /\ StopTask \in Tasks
  BY DEF Tasks
<1>2. \A q \in Pipelines : fence[q] \in Nat /\ 0 <= fence[q]
  BY DEF TypeOK
<1>3. TaskOps /\ \A v \in Workers, q \in Pipelines :
        phase[v] # "local" => lease_tokens[v][q] <= fence[q]
  BY DEF ReleaseInv, IssuedInv
<1>4. CASE Start(w)
  <2>1. UNCHANGED <<fence, lease_tokens, run, io, late>>
    BY <1>4 DEF Start
  <2>2. \A v \in Workers : phase'[v] = phase[v] \/ (v = w /\ phase[w] \in {"new", "stopped"})
    BY <1>4 DEF Start, TypeOK
  <2>3. DictFrame
    BY <1>3, <2>1, <2>2 DEF DictFrame
  <2>4. RunFrame
    <3>1. phase[w] \in {"new", "stopped"} =>
            \A q \in Pipelines : run[w][q] = 0 /\ io[w][q] = Idle
      BY DEF SessionInv, QuietInv
    <3> QED BY <2>1, <2>2, <3>1 DEF RunFrame
  <2> QED BY <2>1, <2>3, <2>4, SameFrame, FrameKeeps
<1>5. CASE StartLocal(w) \/ StopLocal(w)
  <2>1. UNCHANGED <<fence, io, late>>
    BY <1>5 DEF StartLocal, StopLocal
  <2>2. \A v \in Workers :
          /\ v # w => phase'[v] = phase[v] /\ lease_tokens'[v] = lease_tokens[v] /\ run'[v] = run[v]
          /\ phase'[w] # "running"
          /\ phase'[w] # "local" => \A q \in Pipelines : lease_tokens'[w][q] = 0
    BY <1>5 DEF StartLocal, StopLocal, TypeOK
  <2>3. DictFrame
    BY <1>2, <1>3, <2>2 DEF DictFrame
  <2>4. RunFrame
    BY <2>2 DEF RunFrame
  <2> QED BY <2>1, <2>3, <2>4, SameFrame, FrameKeeps
<1>6. CASE StopBegin(w)
  <2>1. /\ UNCHANGED <<fence, lease_tokens>>
        /\ late' = late
        /\ Return(w, LoopTask)
    BY <1>3, <1>6, LoopLeavesNothing DEF StopBegin
  <2>2. \A v \in Workers :
          /\ v # w => phase'[v] = phase[v] /\ run'[v] = run[v]
          /\ phase[w] = "running" /\ phase'[w] = "stopping"
    BY <1>6 DEF StopBegin, TypeOK
  <2>3. DictFrame
    BY <1>3, <2>1, <2>2 DEF DictFrame
  <2>4. RunFrame
    BY <2>2 DEF RunFrame
  <2>5. IoFrame
    BY <1>1, <2>1, ReturnFrame
  <2> QED BY <2>1, <2>3, <2>4, <2>5, SameFrame, FrameKeeps
<1>7. CASE StopReleaseReturn(w)
  <2>1. IoFrame
    BY <1>1, <1>7, ReturnFrame DEF StopReleaseReturn
  <2> QED BY <1>7, <2>1, SameFrame, FrameKeeps DEF StopReleaseReturn
<1>8. CASE StopFinish(w)
  <2>1. UNCHANGED <<fence, run, io, late>>
    BY <1>8 DEF StopFinish
  <2>2. \A v \in Workers :
          /\ v # w => phase'[v] = phase[v] /\ lease_tokens'[v] = lease_tokens[v]
          /\ phase'[w] = "stopped"
          /\ \A q \in Pipelines : lease_tokens'[w][q] = 0
    BY <1>8 DEF StopFinish, TypeOK
  <2>3. DictFrame
    BY <1>2, <1>3, <2>2 DEF DictFrame
  <2>4. RunFrame
    BY <2>1, <2>2 DEF RunFrame
  <2> QED BY <2>1, <2>3, <2>4, SameFrame, FrameKeeps
<1>9. CASE Crash(w)
  <2>1. \A v \in Workers :
          /\ v # w => /\ phase'[v] = phase[v] /\ lease_tokens'[v] = lease_tokens[v]
                      /\ run'[v] = run[v] /\ io'[v] = io[v]
          /\ phase'[w] = "new"
          /\ \A q \in Pipelines : lease_tokens'[w][q] = 0
          /\ \A t \in Tasks : io'[w][t] = Idle
    BY <1>9 DEF Crash, TypeOK, NoIo
  <2>2. fence' = fence
    BY <1>9 DEF Crash, redisVars
  <2>3. DictFrame
    BY <1>2, <1>3, <2>1 DEF DictFrame
  <2>4. RunFrame /\ IoFrame
    BY <2>1 DEF RunFrame, IoFrame
  <2>5. LateFrame
    <3> SUFFICES ASSUME NEW c \in late', c \notin late
                 PROVE  c.tok <= fence[c.p] /\ phase'[c.worker] # "running"
      BY DEF LateFrame
    <3>1. c \in Unexecuted(w, {io[w][t] : t \in Tasks})
      BY <1>9 DEF Crash
    <3>2. PICK t \in Tasks :
            /\ io[w][t] # Idle /\ io[w][t].op \in {"acquire", "release"}
            /\ c = [worker |-> w, op |-> io[w][t].op, p |-> io[w][t].p, tok |-> io[w][t].tok]
      BY <3>1 DEF Unexecuted
    <3>3. io[w][t].tok <= fence[io[w][t].p]
      BY <3>2 DEF ReleaseInv, IssuedInv
    <3> QED BY <2>1, <3>2, <3>3
  <2> QED BY <2>2, <2>3, <2>4, <2>5, FrameKeeps
<1>10. CASE LoopWake(w) \/ LoopCycleEnd(w)
  BY <1>10, SameFrame, FrameKeeps DEF LoopWake, LoopCycleEnd
<1>11. CASE LoopDeadline(w)
  <2>1. /\ UNCHANGED <<fence, phase, run>>
        /\ late' = late
        /\ Return(w, LoopTask)
    BY <1>3, <1>11, LoopLeavesNothing DEF LoopDeadline
  <2>2. \A v \in Workers, q \in Pipelines :
          lease_tokens'[v][q] = 0 \/ lease_tokens'[v][q] = lease_tokens[v][q]
    BY <1>11 DEF LoopDeadline, TypeOK
  <2>3. IoFrame
    BY <1>1, <2>1, ReturnFrame
  <2> QED BY <2>1, <2>2, <2>3, SameFrame, FrameKeeps
<1> QED BY <1>4, <1>5, <1>6, <1>7, <1>8, <1>9, <1>10, <1>11 DEF WorkerStep

\* The runner's calls, and those of the loop and of stop() for one pipeline.
LEMMA PipelineRelease ==
    ASSUME TypeOK, TypeOK', QuietInv, OwnCalls, ReleaseInv,
           NEW w \in Workers, NEW p \in Pipelines, PipelineStep(w, p)
    PROVE  ReleaseInv'
<1> USE ConstantAssumption
<1>1. p \in Tasks /\ LoopTask \in Tasks /\ StopTask \in Tasks /\ p # LoopTask /\ p # StopTask
  BY DEF Tasks
<1>2. "acquire" \in Ops /\ "release" \in Ops /\ "validate" \in Ops /\ "renew" \in Ops
  BY DEF Ops
<1>3. /\ lease_tokens[w][p] \in Nat /\ run[w][p] \in Nat /\ 0 \in Nat
      /\ \A q \in Pipelines : fence[q] \in Nat /\ 0 <= fence[q]
  BY DEF TypeOK
<1>4. \A v \in Workers, q \in Pipelines :
        phase[v] # "local" => lease_tokens[v][q] <= fence[q]
  BY DEF ReleaseInv, IssuedInv
<1>5. ASSUME UNCHANGED <<fence, phase, lease_tokens, run, late>>, IoFrame
      PROVE  ReleaseInv'
  BY <1>5, SameFrame, FrameKeeps
<1>6. CASE TryAcquire(w, p)
  <2>1. IoFrame
    BY <1>1, <1>2, <1>3, <1>6, SendFrame DEF TryAcquire
  <2> QED BY <1>5, <1>6, <2>1 DEF TryAcquire
<1>7. CASE TryAcquireReturn(w, p)
  <2>1. IoFrame /\ io'[w][p] = Idle
    BY <1>1, <1>7, ReturnFrame DEF TryAcquireReturn
  <2>2. CASE io[w][p].ret = 0
    BY <1>5, <1>7, <2>1, <2>2 DEF TryAcquireReturn
  <2>3. CASE io[w][p].ret # 0
    <3>1. /\ UNCHANGED <<fence, phase, late>>
          /\ io[w][p] # Idle /\ io[w][p].op = "acquire"
      BY <1>7 DEF TryAcquireReturn
    <3>2. io[w][p].ret <= fence[p] /\ phase[w] = "running"
      BY <1>1, <3>1 DEF ReleaseInv, IssuedInv, OwnCalls, QuietInv
    <3>3. \A v \in Workers, q \in Pipelines :
            IF v = w /\ q = p
            THEN lease_tokens'[v][q] = io[w][p].ret /\ run'[v][q] = io[w][p].ret
            ELSE lease_tokens'[v][q] = lease_tokens[v][q] /\ run'[v][q] = run[v][q]
      BY <1>7, <2>3 DEF TypeOK, TryAcquireReturn
    <3>4. DictFrame
      BY <1>4, <3>1, <3>2, <3>3 DEF DictFrame
    <3>5. RunFrame
      BY <2>1, <3>1, <3>2, <3>3 DEF RunFrame
    <3> QED BY <2>1, <3>1, <3>4, <3>5, SameFrame, FrameKeeps
  <2> QED BY <2>2, <2>3
<1>8. CASE AcquireLocal(w, p)
  <2>1. UNCHANGED <<fence, phase, io, late>> /\ phase[w] = "local"
    BY <1>8 DEF AcquireLocal
  <2>2. \A v \in Workers : v # w => lease_tokens'[v] = lease_tokens[v] /\ run'[v] = run[v]
    BY <1>8 DEF AcquireLocal, TypeOK
  <2>3. DictFrame /\ RunFrame
    BY <1>4, <2>1, <2>2 DEF DictFrame, RunFrame
  <2> QED BY <2>1, <2>3, SameFrame, FrameKeeps
<1>9. CASE Release(w, p)
  <2>1. UNCHANGED <<fence, phase, late>>
    BY <1>9 DEF Release
  <2>2. \A v \in Workers, q \in Pipelines :
          lease_tokens'[v][q] = 0 \/ lease_tokens'[v][q] = lease_tokens[v][q]
    BY <1>9 DEF Release, TypeOK
  <2>3. CASE phase[w] = "running" /\ lease_tokens[w][p] # 0
    <3>1. IoFrame
      BY <1>1, <1>2, <1>3, <1>4, <1>9, <2>3, SendFrame DEF Release
    <3> QED BY <1>9, <2>1, <2>2, <2>3, <3>1, SameFrame, FrameKeeps DEF Release
  <2>4. CASE ~(phase[w] = "running" /\ lease_tokens[w][p] # 0)
    <3>1. io' = io /\ run' = [run EXCEPT ![w][p] = 0]
      BY <1>9, <2>4 DEF Release
    <3>2. \A v \in Workers, q \in Pipelines : run'[v][q] = 0 \/ run'[v][q] = run[v][q]
      BY <3>1 DEF TypeOK
    <3> QED BY <2>1, <2>2, <3>1, <3>2, SameFrame, FrameKeeps
  <2> QED BY <2>3, <2>4
<1>10. CASE ReleaseReturn(w, p)
  <2>1. IoFrame
    BY <1>1, <1>10, ReturnFrame DEF ReleaseReturn
  <2>2. \A v \in Workers, q \in Pipelines : run'[v][q] = 0 \/ run'[v][q] = run[v][q]
    BY <1>10 DEF ReleaseReturn, TypeOK
  <2> QED BY <1>10, <2>1, <2>2, SameFrame, FrameKeeps DEF ReleaseReturn
<1>11. CASE Validate(w, p)
  <2>1. IoFrame
    BY <1>1, <1>2, <1>3, <1>11, SendFrame DEF Validate
  <2> QED BY <1>5, <1>11, <2>1 DEF Validate
<1>12. CASE ValidateReturn(w, p)
  <2>1. IoFrame
    BY <1>1, <1>12, ReturnFrame DEF ValidateReturn
  <2>2. \A v \in Workers, q \in Pipelines :
          lease_tokens'[v][q] = 0 \/ lease_tokens'[v][q] = lease_tokens[v][q]
    BY <1>12 DEF ValidateReturn, TypeOK
  <2> QED BY <1>12, <2>1, <2>2, SameFrame, FrameKeeps DEF ValidateReturn
<1>13. CASE Renew(w, p)
  <2>1. lease_tokens[w][p] <= fence[p]
    BY <1>4, <1>13 DEF Renew, Ready
  <2>2. IoFrame
    BY <1>1, <1>2, <1>3, <1>13, <2>1, SendFrame DEF Renew
  <2> QED BY <1>5, <1>13, <2>2 DEF Renew
<1>14. CASE StopRelease(w, p)
  <2>1. lease_tokens[w][p] <= fence[p]
    BY <1>4, <1>14 DEF StopRelease
  <2>2. IoFrame
    <3>1. StopTask # LoopTask
      BY DEF StopTask, LoopTask
    <3> QED BY <1>1, <1>2, <1>3, <1>14, <2>1, <3>1, SendFrame DEF StopRelease
  <2>3. \A v \in Workers, q \in Pipelines :
          lease_tokens'[v][q] = 0 \/ lease_tokens'[v][q] = lease_tokens[v][q]
    BY <1>14 DEF StopRelease, TypeOK
  <2> QED BY <1>14, <2>2, <2>3, SameFrame, FrameKeeps DEF StopRelease
<1>15. CASE LoopRenew(w, p)
  <2>1. lease_tokens[w][p] <= fence[p]
    <3>1. phase[w] = "running"
      BY <1>15 DEF LoopRenew, QuietInv
    <3> QED BY <1>4, <3>1
  <2>2. IoFrame
    <3>1. StopTask # LoopTask
      BY DEF StopTask, LoopTask
    <3>2. CASE lease_tokens[w][p] # 0
      BY <1>1, <1>2, <1>3, <1>15, <2>1, <3>1, <3>2, SendFrame DEF LoopRenew
    <3>3. CASE lease_tokens[w][p] = 0
      BY <1>15, <3>3, SameFrame DEF LoopRenew
    <3> QED BY <3>2, <3>3
  <2> QED BY <1>5, <1>15, <2>2 DEF LoopRenew
<1> QED BY <1>6, <1>7, <1>8, <1>9, <1>10, <1>11, <1>12, <1>13, <1>14, <1>15
        DEF PipelineStep

\* What a script does to the counter, and what an acquire is told.
LEMMA ScriptFence ==
    ASSUME TypeOK, NEW w \in Workers, NEW op \in Ops, NEW p \in Pipelines,
           NEW tok \in Nat, RunScript(w, op, p, tok)
    PROVE  /\ fence' \in [Pipelines -> Nat]
           /\ \A q \in Pipelines : fence[q] <= fence'[q]
           /\ op = "acquire" => \/ Reply(w, op, p, tok) = 0
                                \/ /\ Reply(w, op, p, tok) = fence[p] + 1
                                   /\ fence'[p] = fence[p] + 1
<1>1. fence \in [Pipelines -> Nat]
  BY DEF TypeOK
<1>2. CASE op = "acquire" /\ leaseKey[p] = NoLease
  <2>1. fence' = [fence EXCEPT ![p] = fence[p] + 1] /\ Reply(w, op, p, tok) = fence[p] + 1
    BY <1>2 DEF RunScript, AcquireScript, Reply
  <2> QED BY <1>1, <2>1
<1>3. CASE op = "acquire" /\ leaseKey[p] # NoLease
  <2>1. fence' = fence /\ Reply(w, op, p, tok) = 0
    BY <1>3 DEF RunScript, AcquireScript, Reply, redisVars
  <2> QED BY <1>1, <2>1
<1>4. CASE op # "acquire"
  <2>1. fence' = fence
    BY <1>4 DEF RunScript, ReleaseScript, redisVars
  <2> QED BY <1>1, <1>4, <2>1
<1> QED BY <1>2, <1>3, <1>4

\* Redis executing a script, awaited or not: the counter may grow, and an
\* acquire is told nothing or a token newer than any before.
LEMMA ScriptRelease ==
    ASSUME TypeOK, OwnCalls, ReleaseInv,
           fence' \in [Pipelines -> Nat], \A q \in Pipelines : fence[q] <= fence'[q],
           UNCHANGED <<phase, lease_tokens, run>>, late' \subseteq late,
           \A v \in Workers, s \in Tasks :
             \/ io'[v][s] = io[v][s]
             \/ /\ io[v][s] # Idle
                /\ io'[v][s].op = io[v][s].op
                /\ io'[v][s].p = io[v][s].p
                /\ io'[v][s].tok = io[v][s].tok
                /\ io[v][s].op = "acquire" =>
                     \/ io'[v][s].ret = 0
                     \/ /\ io'[v][s].ret = fence[io[v][s].p] + 1
                        /\ fence'[io[v][s].p] = fence[io[v][s].p] + 1
    PROVE  ReleaseInv'
<1> USE ConstantAssumption
<1>1. Pipelines \subseteq Tasks /\ LoopTask \in Tasks /\ StopTask \in Tasks
  BY DEF Tasks
<1>2. /\ fence \in [Pipelines -> Nat]
      /\ lease_tokens \in [Workers -> [Pipelines -> Nat]]
      /\ \A c \in late : c.worker \in Workers /\ c.p \in Pipelines /\ c.tok \in Nat
  BY DEF TypeOK
<1>3. TaskOps'
  BY <1>1 DEF ReleaseInv, TaskOps
<1>4. IssuedInv'
  <2>1. \A w \in Workers, p \in Pipelines :
          phase'[w] # "local" => lease_tokens'[w][p] <= fence'[p]
    BY <1>2 DEF ReleaseInv, IssuedInv
  <2>2. \A c \in late' : c.tok <= fence'[c.p]
    BY <1>2 DEF ReleaseInv, IssuedInv
  <2>3. ASSUME NEW v \in Workers, NEW s \in Tasks, io'[v][s] # Idle
        PROVE  /\ io'[v][s].op # "validate" => io'[v][s].tok <= fence'[io'[v][s].p]
               /\ io'[v][s].op = "acquire" => io'[v][s].ret <= fence'[io'[v][s].p]
    <3>1. io[v][s] # Idle /\ io'[v][s].op = io[v][s].op /\ io'[v][s].p = io[v][s].p
          /\ io'[v][s].tok = io[v][s].tok
      BY <2>3
    <3>2. /\ io[v][s].p \in Pipelines /\ io[v][s].tok \in Nat /\ io[v][s].ret \in Nat
          /\ fence[io[v][s].p] \in Nat /\ fence'[io[v][s].p] \in Nat
          /\ fence[io[v][s].p] <= fence'[io[v][s].p]
      BY <1>2, <3>1, SlotType
    <3>3. /\ io[v][s].op # "validate" => io[v][s].tok <= fence[io[v][s].p]
          /\ io[v][s].op = "acquire" => io[v][s].ret <= fence[io[v][s].p]
      BY <3>1 DEF ReleaseInv, IssuedInv
    <3>4. io[v][s].op = "acquire" => \/ io'[v][s].ret = io[v][s].ret
                                     \/ io'[v][s].ret = 0
                                     \/ io'[v][s].ret = fence'[io[v][s].p]
      OBVIOUS
    <3>5. io[v][s].op # "validate" => io[v][s].tok <= fence'[io[v][s].p]
      BY <3>2, <3>3
    <3>6. io[v][s].op = "acquire" => io'[v][s].ret <= fence'[io[v][s].p]
      BY <3>2, <3>3, <3>4
    <3> QED BY <3>1, <3>5, <3>6
  <2> QED BY <2>1, <2>2, <2>3 DEF IssuedInv
<1>5. RetiredInv'
  <2> SUFFICES ASSUME NEW c \in late, c.op = "release", c.tok # 0,
                      phase[c.worker] = "running", io'[c.worker][c.p] # Idle,
                      io'[c.worker][c.p].op = "acquire"
               PROVE  io'[c.worker][c.p].ret # c.tok
    BY DEF RetiredInv, ReleaseInv
  <2> DEFINE v == c.worker
             q == c.p
  <2>1. v \in Workers /\ q \in Pipelines /\ q \in Tasks /\ c.tok \in Nat /\ c.tok <= fence[q]
        /\ fence[q] \in Nat
    BY <1>1, <1>2 DEF ReleaseInv, IssuedInv
  <2>2. io[v][q] # Idle /\ io[v][q].op = "acquire"
    BY <2>1
  <2>3. io[v][q].p = q /\ io[v][q].ret # c.tok
    BY <2>1, <2>2 DEF OwnCalls, ReleaseInv, RetiredInv
  <2>4. io'[v][q].ret = io[v][q].ret \/ io'[v][q].ret = 0 \/ io'[v][q].ret = fence[q] + 1
    BY <2>1, <2>2, <2>3
  <2> QED BY <2>1, <2>3, <2>4
<1> QED BY <1>3, <1>4, <1>5 DEF ReleaseInv

\* As long as no counter expires, every step keeps released tokens retired.
LEMMA ReleaseStep ==
    ASSUME TypeOK, TypeOK', QuietInv, SessionInv, OwnCalls, ReleaseInv, [Next]_vars,
           ~expired'
    PROVE  ReleaseInv'
<1> USE ConstantAssumption
<1>1. ASSUME NEW w \in Workers, NEW t \in Tasks, Execute(w, t) PROVE ReleaseInv'
  <2> DEFINE c == io[w][t]
             r == Reply(w, c.op, c.p, c.tok)
  <2>1. /\ c # Idle /\ c.op \in Ops /\ c.p \in Pipelines /\ c.tok \in Nat
        /\ RunScript(w, c.op, c.p, c.tok)
        /\ io' = [io EXCEPT ![w][t].done = TRUE, ![w][t].ret = r]
        /\ UNCHANGED <<phase, lease_tokens, run, late>>
    BY <1>1, SlotType DEF Execute
  <2>2. /\ fence' \in [Pipelines -> Nat]
        /\ \A q \in Pipelines : fence[q] <= fence'[q]
        /\ c.op = "acquire" => r = 0 \/ (r = fence[c.p] + 1 /\ fence'[c.p] = fence[c.p] + 1)
    BY <2>1, ScriptFence
  <2>3. \A v \in Workers, s \in Tasks :
          IF v = w /\ s = t
          THEN /\ io'[v][s].op = c.op /\ io'[v][s].p = c.p /\ io'[v][s].tok = c.tok
               /\ io'[v][s].ret = r
          ELSE io'[v][s] = io[v][s]
    BY <2>1 DEF TypeOK, Command
  <2> HIDE DEF r
  <2>4. \A v \in Workers, s \in Tasks :
          \/ io'[v][s] = io[v][s]
          \/ /\ io[v][s] # Idle
             /\ io'[v][s].op = io[v][s].op
             /\ io'[v][s].p = io[v][s].p
             /\ io'[v][s].tok = io[v][s].tok
             /\ io[v][s].op = "acquire" =>
                  \/ io'[v][s].ret = 0
                  \/ /\ io'[v][s].ret = fence[io[v][s].p] + 1
                     /\ fence'[io[v][s].p] = fence[io[v][s].p] + 1
    <3> TAKE v \in Workers, s \in Tasks
    <3>1. CASE v = w /\ s = t
      <4>1. io[v][s] = c
        BY <3>1
      <4>2. io'[v][s].op = c.op /\ io'[v][s].p = c.p /\ io'[v][s].tok = c.tok /\ io'[v][s].ret = r
        BY <2>3, <3>1
      <4> HIDE DEF c
      <4> QED BY <2>1, <2>2, <4>1, <4>2
    <3>2. CASE ~(v = w /\ s = t)
      BY <2>3, <3>2
    <3> QED BY <3>1, <3>2
  <2> QED BY <2>1, <2>2, <2>4, ScriptRelease
<1>2. ASSUME NEW w \in Workers, NEW t \in Tasks, RenewReturn(w, t) PROVE ReleaseInv'
  <2>1. /\ IoFrame
        /\ UNCHANGED <<fence, phase, run, late>>
        /\ io[w][t] # Idle /\ io[w][t].op = "renew"
    BY <1>2, ReturnFrame DEF RenewReturn
  <2>2. /\ io[w][t].p \in Pipelines
        /\ io[w][t].tok <= fence[io[w][t].p]
    BY <2>1, SlotType DEF ReleaseInv, IssuedInv
  <2>3. \A v \in Workers, q \in Pipelines :
          \/ lease_tokens'[v][q] = 0
          \/ lease_tokens'[v][q] = lease_tokens[v][q]
          \/ q = io[w][t].p /\ lease_tokens'[v][q] = io[w][t].tok
    BY <1>2, <2>2 DEF RenewReturn, TypeOK
  <2>4. \A q \in Pipelines : fence[q] \in Nat
    BY DEF TypeOK
  <2>5. DictFrame
    BY <2>1, <2>2, <2>3, <2>4 DEF DictFrame, ReleaseInv, IssuedInv
  <2> QED BY <2>1, <2>5, SameFrame, FrameKeeps
<1>3. ASSUME NEW w \in Workers, NEW t \in Tasks, CallError(w, t) PROVE ReleaseInv'
  <2>1. /\ IoFrame
        /\ io'[w][t] = Idle
        /\ UNCHANGED <<fence, phase, lease_tokens>>
        /\ io[w][t] # Idle
    BY <1>3, ReturnFrame DEF CallError
  <2>2. \A v \in Workers, q \in Pipelines : run'[v][q] = 0 \/ run'[v][q] = run[v][q]
    BY <1>3 DEF CallError, TypeOK
  <2>3. LateFrame
    <3> SUFFICES ASSUME NEW c \in late', c \notin late
                 PROVE  /\ c.tok <= fence[c.p]
                        /\ c.op = "release" /\ phase'[c.worker] = "running" =>
                             run'[c.worker][c.p] = 0 /\ io'[c.worker][c.p] = Idle
      BY DEF LateFrame
    <3>1. c \in Unexecuted(w, {io[w][t]})
      BY <1>3 DEF CallError
    <3>2. /\ io[w][t].op \in {"acquire", "release"}
          /\ c = [worker |-> w, op |-> io[w][t].op, p |-> io[w][t].p, tok |-> io[w][t].tok]
      BY <3>1 DEF Unexecuted
    <3>3. c.tok <= fence[c.p]
      BY <2>1, <3>2 DEF ReleaseInv, IssuedInv
    <3>4. ASSUME c.op = "release", phase[w] = "running"
          PROVE  run'[w][c.p] = 0 /\ io'[w][c.p] = Idle
      <4>1. t # StopTask /\ t # LoopTask
        BY <2>1, <3>2, <3>4 DEF QuietInv, ReleaseInv, TaskOps
      <4>2. t \in Pipelines
        BY <4>1 DEF Tasks
      <4>3. c.p = t
        BY <2>1, <3>2, <4>2 DEF OwnCalls
      <4>4. run' = [run EXCEPT ![w][t] = 0]
        BY <1>3, <3>2, <3>4, <4>2 DEF CallError
      <4> QED BY <2>1, <4>2, <4>3, <4>4 DEF TypeOK
    <3> QED BY <2>1, <3>2, <3>3, <3>4
  <2> QED BY <2>1, <2>2, <2>3, SameFrame, FrameKeeps
<1>4. ASSUME NEW p \in Pipelines, Expire(p) PROVE ReleaseInv'
  BY <1>4, SameFrame, FrameKeeps DEF Expire
<1>5. ASSUME NEW c \in late, ExecuteLate(c) PROVE ReleaseInv'
  <2>1. c.worker \in Workers /\ c.op \in Ops /\ c.p \in Pipelines /\ c.tok \in Nat
    BY DEF TypeOK
  <2>2. /\ fence' \in [Pipelines -> Nat]
        /\ \A q \in Pipelines : fence[q] <= fence'[q]
    BY <1>5, <2>1, ScriptFence DEF ExecuteLate
  <2>3. /\ UNCHANGED <<phase, lease_tokens, run>>
        /\ late' \subseteq late
        /\ \A v \in Workers, s \in Tasks : io'[v][s] = io[v][s]
    BY <1>5 DEF ExecuteLate
  <2> QED BY <2>2, <2>3, ScriptRelease
<1>6. CASE UNCHANGED vars
  BY <1>6, SameFrame, FrameKeeps DEF vars
<1>7. ASSUME NEW p \in Pipelines, ExpireFence(p) PROVE FALSE
  BY <1>7 DEF ExpireFence
<1> QED BY <1>1, <1>2, <1>3, <1>4, <1>5, <1>6, <1>7, WorkerRelease, PipelineRelease
        DEF Next, TaskStep

\* What a script does to an existing lease: only the release that carries its
\* worker and its token removes it.
LEMMA ScriptKey ==
    ASSUME TypeOK, NEW v \in Workers, NEW op \in Ops, NEW q \in Pipelines, NEW tok \in Nat,
           RunScript(v, op, q, tok), NEW p \in Pipelines, leaseKey[p] # NoLease
    PROVE  \/ leaseKey'[p] = leaseKey[p]
           \/ p = q /\ op = "release" /\ Matches(v, p, tok)
<1>1. CASE op = "acquire"
  BY <1>1 DEF RunScript, AcquireScript, redisVars, TypeOK
<1>2. CASE op = "release"
  <2>1. leaseKey' = [leaseKey EXCEPT ![q] = IF Matches(v, q, tok) THEN NoLease ELSE @]
    BY <1>2 DEF RunScript, ReleaseScript
  <2> QED BY <1>2, <2>1 DEF TypeOK
<1>3. CASE op # "acquire" /\ op # "release"
  BY <1>3 DEF RunScript, redisVars
<1> QED BY <1>1, <1>2, <1>3

\* While a run goes on under its lease, no release but its own can take the key
\* out of Redis, with or without the local fallback: the token of a release
\* that was abandoned, by a failed call, a stop() or a crash, is never again
\* the token of a run as long as no counter expires.
THEOREM LeaseStable == Spec => RunningLeaseStable
<1> DEFINE Holder(w, p) ==
             /\ phase[w] = "running"
             /\ run[w][p] # 0
             /\ Matches(w, p, run[w][p])
             /\ io[w][p] # Idle => io[w][p].op # "release"
<1>1. Init => OwnCalls /\ ReleaseInv
  BY ConstantAssumption DEF Init, OwnCalls, ReleaseInv, TaskOps, IssuedInv, RetiredInv,
                            NoIo, Tasks
<1>2. ASSUME TypeOK, QuietInv, OwnCalls, ReleaseInv, Next,
             NEW w \in Workers, NEW p \in Pipelines, Holder(w, p)
      PROVE  leaseKey'[p] = leaseKey[p] \/ Expire(p)
  <2> USE ConstantAssumption
  <2>1. /\ run[w][p] \in Nat
        /\ leaseKey[p] = [worker |-> w, token |-> run[w][p]]
        /\ leaseKey[p] # NoLease
    BY <1>2 DEF TypeOK, Matches
  <2>2. ASSUME NEW v \in Workers, NEW tok \in Nat, Matches(v, p, tok)
        PROVE  v = w /\ tok = run[w][p]
    BY <2>1, <2>2 DEF Matches
  <2>3. CASE leaseKey' = leaseKey
    BY <2>3
  <2>4. ASSUME NEW v \in Workers, NEW t \in Tasks, Execute(v, t)
        PROVE  leaseKey'[p] = leaseKey[p]
    <3>1. /\ io[v][t] # Idle /\ io[v][t].op \in Ops /\ io[v][t].p \in Pipelines
          /\ io[v][t].tok \in Nat
          /\ RunScript(v, io[v][t].op, io[v][t].p, io[v][t].tok)
      BY <1>2, <2>4, SlotType DEF Execute
    <3>2. SUFFICES ASSUME io[v][t].p = p, io[v][t].op = "release", Matches(v, p, io[v][t].tok)
                   PROVE  FALSE
      BY <1>2, <2>1, <3>1, ScriptKey
    <3>3. v = w
      BY <2>2, <3>1, <3>2
    <3>4. t # LoopTask /\ t # StopTask
      BY <1>2, <3>1, <3>2, <3>3 DEF QuietInv, ReleaseInv, TaskOps
    <3>5. t = p
      BY <1>2, <3>1, <3>2, <3>4 DEF OwnCalls, Tasks
    <3> QED BY <1>2, <3>1, <3>2, <3>3, <3>5
  <2>5. ASSUME NEW c \in late, ExecuteLate(c)
        PROVE  leaseKey'[p] = leaseKey[p]
    <3>1. /\ c.worker \in Workers /\ c.op \in Ops /\ c.p \in Pipelines /\ c.tok \in Nat
          /\ RunScript(c.worker, c.op, c.p, c.tok)
      BY <1>2, <2>5 DEF TypeOK, ExecuteLate
    <3>2. SUFFICES ASSUME c.p = p, c.op = "release", Matches(c.worker, p, c.tok)
                   PROVE  FALSE
      BY <1>2, <2>1, <3>1, ScriptKey
    <3>3. c.worker = w /\ c.tok = run[w][p]
      BY <2>2, <3>1, <3>2
    <3> QED BY <1>2, <3>2, <3>3 DEF ReleaseInv, RetiredInv
  <2>6. ASSUME NEW q \in Pipelines, Expire(q)
        PROVE  leaseKey'[p] = leaseKey[p] \/ Expire(p)
    <3>1. CASE q = p
      BY <2>6, <3>1
    <3>2. CASE q # p
      BY <1>2, <2>6, <3>2 DEF Expire, TypeOK
    <3> QED BY <3>1, <3>2
  <2>7. ASSUME NEW v \in Workers, WorkerStep(v) PROVE leaseKey' = leaseKey
    BY <2>7 DEF WorkerStep, Start, StartLocal, StopLocal, StopBegin, StopReleaseReturn,
       StopFinish, Crash, LoopWake, LoopCycleEnd, LoopDeadline, redisVars
  <2>8. ASSUME NEW v \in Workers, NEW q \in Pipelines, PipelineStep(v, q)
        PROVE  leaseKey' = leaseKey
    BY <2>8 DEF PipelineStep, TryAcquire, TryAcquireReturn, AcquireLocal, Release,
       ReleaseReturn, Validate, ValidateReturn, Renew, StopRelease, LoopRenew
  <2>9. ASSUME NEW v \in Workers, NEW t \in Tasks, RenewReturn(v, t) \/ CallError(v, t)
        PROVE  leaseKey' = leaseKey
    BY <2>9 DEF RenewReturn, CallError
  <2>10. ASSUME NEW q \in Pipelines, ExpireFence(q) PROVE leaseKey' = leaseKey
    BY <2>10 DEF ExpireFence
  <2> QED BY <1>2, <2>3, <2>4, <2>5, <2>6, <2>7, <2>8, <2>9, <2>10 DEF Next, TaskStep
<1>3. TypeOK /\ QuietInv /\ OwnCalls /\ (~expired => ReleaseInv) /\ [Next]_vars =>
        [\A w \in Workers, p \in Pipelines :
           /\ ~expired
           /\ phase[w] = "running"
           /\ run[w][p] # 0
           /\ Matches(w, p, run[w][p])
           /\ io[w][p] # Idle => io[w][p].op # "release"
           => leaseKey'[p] = leaseKey[p] \/ Expire(p)]_vars
  BY <1>2
<1>4. TypeOK /\ TypeOK' /\ QuietInv /\ SessionInv /\ OwnCalls /\ (~expired => ReleaseInv)
        /\ [Next]_vars => (~expired => ReleaseInv)'
  BY ExpiredStays, ReleaseStep
<1> QED BY <1>1, <1>3, <1>4, SessionsKept, OwnCallsStep, PTL
        DEF Spec, RunningLeaseStable
=============================================================================
