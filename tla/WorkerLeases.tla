--------------------------- MODULE WorkerLeases ---------------------------
(***************************************************************************)
(* RedisWorkerCoordinator on one Redis: per-pipeline leases with fencing   *)
(* tokens, the renewal loop and graceful shutdown.                         *)
(*                                                                         *)
(* A worker is one asyncio process.  Three kinds of task share its         *)
(* lease_tokens dictionary: the runner task of each pipeline (acquire,     *)
(* validate, renew, release), the renewal loop and stop().  Every Redis    *)
(* round trip is an await, so it is three steps here: the task sends,      *)
(* Redis executes the script atomically, the task applies the reply to     *)
(* whatever lease_tokens holds by then.                                    *)
(***************************************************************************)
EXTENDS Naturals, FiniteSets

CONSTANTS
    Workers,          \* worker ids
    Pipelines,        \* pipeline ids
    FallbackToLocal,  \* fallback_to_local
    FencingKeyTtl,    \* fencing_key_ttl_seconds is given: the counters expire
    NoLease,          \* an absent lease key
    Idle,             \* a task with no command in flight
    MaxToken,         \* bound: tokens handed out per pipeline
    MaxFaults         \* bound: failed round trips, crashes, expired counters

\* The renewal loop and stop() are two more tasks of a worker.
LoopTask == "loop"
StopTask == "stop"
Tasks == Pipelines \cup {LoopTask, StopTask}

ASSUME ConstantAssumption ==
    /\ FallbackToLocal \in BOOLEAN
    /\ FencingKeyTtl \in BOOLEAN
    /\ MaxToken \in Nat
    /\ MaxFaults \in Nat
    /\ LoopTask \notin Pipelines
    /\ StopTask \notin Pipelines
    /\ NoLease \notin [worker : Workers, token : Nat]

Ops == {"acquire", "release", "validate", "renew"}

\* A script call: tok is the fencing token it was sent with, ret the reply
\* (the granted or matched token, 0 for a refusal) once done.
Command == [op : Ops, p : Pipelines, tok : Nat, done : BOOLEAN, ret : Nat]

ASSUME IdleAssumption == Idle \notin Command

VARIABLES
    leaseKey,              \* Redis: the lease key of each pipeline
    fence,                 \* Redis: the fencing counter of each pipeline
    expired,               \* history: some fencing counter has expired
    phase,                 \* life of each worker's coordinator
    lease_tokens,          \* worker: fencing token of the lease it believes in, 0 if none
    local_fencing_tokens,  \* worker: fallback counter
    run,                   \* runner: token of the run in progress, 0 if none
    io,                    \* worker: the command each task is awaiting
    loop,                  \* worker: the renewal loop: off, sleeping, or busy in a cycle
    loopTodo,              \* worker: pipelines the cycle has still to renew
    stopTodo,              \* worker: pipelines stop() has still to release
    late,                  \* commands abandoned by their caller, not yet executed
    faults                 \* faults so far

redisVars == <<leaseKey, fence, expired>>
vars == <<leaseKey, fence, expired, phase, lease_tokens, local_fencing_tokens, run, io,
          loop, loopTodo, stopTodo, late, faults>>

NoIo == [t \in Tasks |-> Idle]

Init ==
    /\ leaseKey = [p \in Pipelines |-> NoLease]
    /\ fence = [p \in Pipelines |-> 0]
    /\ expired = FALSE
    /\ phase = [w \in Workers |-> "new"]
    /\ lease_tokens = [w \in Workers |-> [p \in Pipelines |-> 0]]
    /\ local_fencing_tokens = [w \in Workers |-> [p \in Pipelines |-> 0]]
    /\ run = [w \in Workers |-> [p \in Pipelines |-> 0]]
    /\ io = [w \in Workers |-> NoIo]
    /\ loop = [w \in Workers |-> "off"]
    /\ loopTodo = [w \in Workers |-> {}]
    /\ stopTodo = [w \in Workers |-> {}]
    /\ late = {}
    /\ faults = 0

-----------------------------------------------------------------------------
(* Sending and abandoning commands *)

\* Task t of w awaits a script call.
Send(w, t, op, p, tok) ==
    io' = [io EXCEPT ![w][t] =
             [op |-> op, p |-> p, tok |-> tok, done |-> FALSE, ret |-> 0]]

Return(w, t) == io' = [io EXCEPT ![w][t] = Idle]

\* The commands among S that Redis has not executed may still reach it.  Only
\* those that change the key matter: a late RENEW or GET has no one to answer.
Unexecuted(w, S) ==
    {[worker |-> w, op |-> c.op, p |-> c.p, tok |-> c.tok] :
        c \in {d \in S : d # Idle /\ ~d.done /\ d.op \in {"acquire", "release"}}}

-----------------------------------------------------------------------------
(* Redis: one script at a time *)

\* The payload comparison of the release, renew and validate paths.
Matches(w, p, tok) == leaseKey[p] = [worker |-> w, token |-> tok]

\* Mutant: a refused acquire is told the current token.
ReplyReentrant(w, op, p, tok) ==
    IF op = "acquire"
    THEN IF leaseKey[p] = NoLease THEN fence[p] + 1 ELSE fence[p]
    ELSE IF Matches(w, p, tok) THEN tok ELSE 0

\* What a script answers: the acquire script the new token, the others the
\* token they matched.
Reply(w, op, p, tok) ==
    IF op = "acquire"
    THEN IF leaseKey[p] = NoLease THEN fence[p] + 1 ELSE 0
    ELSE IF Matches(w, p, tok) THEN tok ELSE 0

\* Mutant: INCR before the key is looked at.
AcquireScriptIncrFirst(w, p) ==
    /\ fence' = [fence EXCEPT ![p] = @ + 1]
    /\ leaseKey' = [leaseKey EXCEPT ![p] =
                      IF @ = NoLease THEN [worker |-> w, token |-> fence[p] + 1]
                                     ELSE @]
    /\ UNCHANGED expired

\* INCR happens only once the key was seen absent; GET, INCR, the counter's
\* EXPIRE and SET NX are one script.  What EXPIRE starts is ExpireFence.
AcquireScript(w, p) ==
    IF leaseKey[p] = NoLease
    THEN /\ fence' = [fence EXCEPT ![p] = @ + 1]
         /\ leaseKey' = [leaseKey EXCEPT ![p] =
                           [worker |-> w, token |-> fence[p] + 1]]
         /\ UNCHANGED expired
    ELSE UNCHANGED redisVars

\* Mutant: the release script compares the worker id only.
ReleaseScriptAnyToken(w, p, tok) ==
    /\ leaseKey' = [leaseKey EXCEPT ![p] =
                      IF @ # NoLease /\ leaseKey[p].worker = w THEN NoLease ELSE @]
    /\ UNCHANGED <<fence, expired>>

ReleaseScript(w, p, tok) ==
    /\ leaseKey' = [leaseKey EXCEPT ![p] =
                      IF Matches(w, p, tok) THEN NoLease ELSE @]
    /\ UNCHANGED <<fence, expired>>

\* RENEW only pushes the expiry back and GET reads: neither changes the key.
RunScript(w, op, p, tok) ==
    CASE op = "acquire" -> AcquireScript(w, p)
      [] op = "release" -> ReleaseScript(w, p, tok)
      [] OTHER          -> UNCHANGED redisVars

\* Redis executes the command task t of w is waiting for.
Execute(w, t) ==
    /\ io[w][t] # Idle
    /\ ~io[w][t].done
    /\ LET c == io[w][t] IN
         /\ RunScript(w, c.op, c.p, c.tok)
         /\ io' = [io EXCEPT ![w][t].done = TRUE,
                             ![w][t].ret = Reply(w, c.op, c.p, c.tok)]
    /\ UNCHANGED <<phase, lease_tokens, local_fencing_tokens, run, loop, loopTodo,
                   stopTodo, late, faults>>

\* Redis executes a command whose caller has given up or died.
ExecuteLate(c) ==
    /\ RunScript(c.worker, c.op, c.p, c.tok)
    /\ late' = late \ {c}
    /\ UNCHANGED <<phase, lease_tokens, local_fencing_tokens, run, io, loop,
                   loopTodo, stopTodo, faults>>

\* The lease TTL runs out.  No clock relates the TTL to the workers' progress:
\* the key may vanish at any moment.
Expire(p) ==
    /\ leaseKey[p] # NoLease
    /\ leaseKey' = [leaseKey EXCEPT ![p] = NoLease]
    /\ UNCHANGED <<fence, expired, phase, lease_tokens, local_fencing_tokens, run,
                   io, loop, loopTodo, stopTodo, late, faults>>

\* The counter's own TTL, when one is configured, runs from the last acquire:
\* renewals push back the expiry of the lease key alone, so the counter can go
\* under a live lease and the next acquire gives out token 1 again.
ExpireFence(p) ==
    /\ FencingKeyTtl
    /\ faults < MaxFaults
    /\ faults' = faults + 1
    /\ fence[p] # 0
    /\ fence' = [fence EXCEPT ![p] = 0]
    /\ expired' = TRUE
    /\ UNCHANGED <<leaseKey, phase, lease_tokens, local_fencing_tokens, run, io,
                   loop, loopTodo, stopTodo, late>>

-----------------------------------------------------------------------------
(* Lifecycle *)

\* start(): Redis answers, the scripts are registered, the loop is created.
Start(w) ==
    /\ phase[w] \in {"new", "stopped"}
    /\ phase' = [phase EXCEPT ![w] = "running"]
    /\ loop' = [loop EXCEPT ![w] = "sleeping"]
    /\ UNCHANGED <<leaseKey, fence, expired, lease_tokens, local_fencing_tokens,
                   run, io, loopTodo, stopTodo, late, faults>>

\* start(): Redis does not answer and fallback_to_local is set.  Neither loop
\* is created.  Without the fallback start() raises and changes nothing.
StartLocal(w) ==
    /\ FallbackToLocal
    /\ phase[w] \in {"new", "stopped"}
    /\ phase' = [phase EXCEPT ![w] = "local"]
    /\ UNCHANGED <<leaseKey, fence, expired, lease_tokens, local_fencing_tokens,
                   run, io, loop, loopTodo, stopTodo, late, faults>>

\* stop() with no Redis connection only clears the dictionaries.
StopLocal(w) ==
    /\ phase[w] = "local"
    /\ phase' = [phase EXCEPT ![w] = "stopped"]
    /\ lease_tokens' = [lease_tokens EXCEPT ![w] = [p \in Pipelines |-> 0]]
    /\ run' = [run EXCEPT ![w] = [p \in Pipelines |-> 0]]
    /\ UNCHANGED <<leaseKey, fence, expired, local_fencing_tokens, io, loop,
                   loopTodo, stopTodo, late, faults>>

\* Mutant: the values of the dictionary instead of its keys.
ActivePipelinesValues(w) == {lease_tokens[w][p] : p \in Pipelines} \ {0}

ActivePipelines(w) == {p \in Pipelines : lease_tokens[w][p] # 0}

\* Mutant: stop() leaves the renewal loop running.
StopBeginKeepLoop(w) ==
    /\ phase[w] = "running"
    /\ \A p \in Pipelines : io[w][p] = Idle
    /\ phase' = [phase EXCEPT ![w] = "stopping"]
    /\ stopTodo' = [stopTodo EXCEPT ![w] = ActivePipelines(w)]
    /\ run' = [run EXCEPT ![w] = [p \in Pipelines |-> 0]]
    /\ UNCHANGED <<leaseKey, fence, expired, lease_tokens, local_fencing_tokens,
                   io, loop, loopTodo, late, faults>>

\* stop(): cancel the renewal loop, then walk a snapshot of the active leases.
\* The runner has drained: none of its own calls is pending.
StopBegin(w) ==
    /\ phase[w] = "running"
    /\ \A p \in Pipelines : io[w][p] = Idle
    /\ phase' = [phase EXCEPT ![w] = "stopping"]
    /\ late' = late \cup Unexecuted(w, {io[w][LoopTask]})
    /\ Return(w, LoopTask)
    /\ loop' = [loop EXCEPT ![w] = "off"]
    /\ loopTodo' = [loopTodo EXCEPT ![w] = {}]
    /\ stopTodo' = [stopTodo EXCEPT ![w] = ActivePipelines(w)]
    /\ run' = [run EXCEPT ![w] = [p \in Pipelines |-> 0]]
    /\ UNCHANGED <<leaseKey, fence, expired, lease_tokens, local_fencing_tokens,
                   faults>>

\* One iteration of the loop in stop(): discard_lease, then the script.
StopRelease(w, p) ==
    /\ phase[w] = "stopping"
    /\ io[w][StopTask] = Idle
    /\ p \in stopTodo[w]
    /\ stopTodo' = [stopTodo EXCEPT ![w] = @ \ {p}]
    /\ lease_tokens' = [lease_tokens EXCEPT ![w][p] = 0]
    /\ Send(w, StopTask, "release", p, lease_tokens[w][p])
    /\ UNCHANGED <<leaseKey, fence, expired, phase, local_fencing_tokens, run,
                   loop, loopTodo, late, faults>>

StopReleaseReturn(w) ==
    /\ io[w][StopTask] # Idle
    /\ io[w][StopTask].done
    /\ Return(w, StopTask)
    /\ UNCHANGED <<leaseKey, fence, expired, phase, lease_tokens,
                   local_fencing_tokens, run, loop, loopTodo, stopTodo, late,
                   faults>>

\* session.stop() and clear_runtime_state().  When session.stop() raises, the
\* coordinator stays in "stopping" with nothing left to release.
StopFinish(w) ==
    /\ phase[w] = "stopping"
    /\ stopTodo[w] = {}
    /\ io[w][StopTask] = Idle
    /\ phase' = [phase EXCEPT ![w] = "stopped"]
    /\ lease_tokens' = [lease_tokens EXCEPT ![w] = [p \in Pipelines |-> 0]]
    /\ UNCHANGED <<leaseKey, fence, expired, local_fencing_tokens, run, io, loop,
                   loopTodo, stopTodo, late, faults>>

\* The process dies.  Its worker id may come back; Redis keeps its leases.
Crash(w) ==
    /\ faults < MaxFaults
    /\ faults' = faults + 1
    /\ phase[w] # "new"
    /\ phase' = [phase EXCEPT ![w] = "new"]
    /\ late' = late \cup Unexecuted(w, {io[w][t] : t \in Tasks})
    /\ io' = [io EXCEPT ![w] = NoIo]
    /\ lease_tokens' = [lease_tokens EXCEPT ![w] = [p \in Pipelines |-> 0]]
    /\ local_fencing_tokens' =
         [local_fencing_tokens EXCEPT ![w] = [p \in Pipelines |-> 0]]
    /\ run' = [run EXCEPT ![w] = [p \in Pipelines |-> 0]]
    /\ loop' = [loop EXCEPT ![w] = "off"]
    /\ loopTodo' = [loopTodo EXCEPT ![w] = {}]
    /\ stopTodo' = [stopTodo EXCEPT ![w] = {}]
    /\ UNCHANGED redisVars

-----------------------------------------------------------------------------
(* The runner's calls, one at a time for each pipeline *)

Ready(w, p) == phase[w] = "running" /\ io[w][p] = Idle

TryAcquire(w, p) ==
    /\ Ready(w, p)
    /\ run[w][p] = 0
    /\ fence[p] < MaxToken
    /\ Send(w, p, "acquire", p, 0)
    /\ UNCHANGED <<leaseKey, fence, expired, phase, lease_tokens,
                   local_fencing_tokens, run, loop, loopTodo, stopTodo, late,
                   faults>>

\* A granted lease overwrites whatever entry the dictionary holds.
TryAcquireReturn(w, p) ==
    /\ io[w][p] # Idle
    /\ io[w][p].op = "acquire"
    /\ io[w][p].done
    /\ Return(w, p)
    /\ IF io[w][p].ret = 0
       THEN UNCHANGED <<lease_tokens, run>>
       ELSE /\ lease_tokens' = [lease_tokens EXCEPT ![w][p] = io[w][p].ret]
            /\ run' = [run EXCEPT ![w][p] = io[w][p].ret]
    /\ UNCHANGED <<leaseKey, fence, expired, phase, local_fencing_tokens, loop,
                   loopTodo, stopTodo, late, faults>>

\* acquire_local_fallback_lease.
AcquireLocal(w, p) ==
    /\ phase[w] = "local"
    /\ run[w][p] = 0
    /\ lease_tokens[w][p] = 0
    /\ local_fencing_tokens[w][p] < MaxToken
    /\ local_fencing_tokens' = [local_fencing_tokens EXCEPT ![w][p] = @ + 1]
    /\ lease_tokens' =
         [lease_tokens EXCEPT ![w][p] = local_fencing_tokens[w][p] + 1]
    /\ run' = [run EXCEPT ![w][p] = local_fencing_tokens[w][p] + 1]
    /\ UNCHANGED <<leaseKey, fence, expired, phase, io, loop, loopTodo, stopTodo,
                   late, faults>>

\* Mutant: without a connection release() returns before it pops the entry.
ReleaseKeepLocal(w, p) ==
    /\ phase[w] \in {"running", "local"}
    /\ io[w][p] = Idle
    /\ run[w][p] # 0
    /\ IF phase[w] = "running" /\ lease_tokens[w][p] # 0
       THEN /\ Send(w, p, "release", p, lease_tokens[w][p])
            /\ lease_tokens' = [lease_tokens EXCEPT ![w][p] = 0]
            /\ UNCHANGED run
       ELSE run' = [run EXCEPT ![w][p] = 0] /\ UNCHANGED <<io, lease_tokens>>
    /\ UNCHANGED <<leaseKey, fence, expired, phase, local_fencing_tokens, loop,
                   loopTodo, stopTodo, late, faults>>

\* release() pops the dictionary entry before it talks to Redis; with no
\* entry or no connection it sends nothing.
Release(w, p) ==
    /\ phase[w] \in {"running", "local"}
    /\ io[w][p] = Idle
    /\ run[w][p] # 0
    /\ lease_tokens' = [lease_tokens EXCEPT ![w][p] = 0]
    /\ IF phase[w] = "running" /\ lease_tokens[w][p] # 0
       THEN Send(w, p, "release", p, lease_tokens[w][p]) /\ UNCHANGED run
       ELSE run' = [run EXCEPT ![w][p] = 0] /\ UNCHANGED io
    /\ UNCHANGED <<leaseKey, fence, expired, phase, local_fencing_tokens, loop,
                   loopTodo, stopTodo, late, faults>>

ReleaseReturn(w, p) ==
    /\ io[w][p] # Idle
    /\ io[w][p].op = "release"
    /\ io[w][p].done
    /\ Return(w, p)
    /\ run' = [run EXCEPT ![w][p] = 0]
    /\ UNCHANGED <<leaseKey, fence, expired, phase, lease_tokens,
                   local_fencing_tokens, loop, loopTodo, stopTodo, late, faults>>

\* validate() asks about the token of the run, not of the dictionary.
Validate(w, p) ==
    /\ Ready(w, p)
    /\ run[w][p] # 0
    /\ Send(w, p, "validate", p, run[w][p])
    /\ UNCHANGED <<leaseKey, fence, expired, phase, lease_tokens,
                   local_fencing_tokens, run, loop, loopTodo, stopTodo, late,
                   faults>>

\* An absent or foreign payload drops the dictionary entry.
ValidateReturn(w, p) ==
    /\ io[w][p] # Idle
    /\ io[w][p].op = "validate"
    /\ io[w][p].done
    /\ Return(w, p)
    /\ lease_tokens' = [lease_tokens EXCEPT ![w][p] =
                          IF io[w][p].ret = 0 THEN 0 ELSE @]
    /\ UNCHANGED <<leaseKey, fence, expired, phase, local_fencing_tokens, run,
                   loop, loopTodo, stopTodo, late, faults>>

Renew(w, p) ==
    /\ Ready(w, p)
    /\ run[w][p] # 0
    /\ lease_tokens[w][p] # 0
    /\ Send(w, p, "renew", p, lease_tokens[w][p])
    /\ UNCHANGED <<leaseKey, fence, expired, phase, lease_tokens,
                   local_fencing_tokens, run, loop, loopTodo, stopTodo, late,
                   faults>>

\* Mutant: a refused renewal does not mark the lease lost.
RenewReturnKeep(w, t) ==
    /\ io[w][t] # Idle
    /\ io[w][t].op = "renew"
    /\ io[w][t].done
    /\ Return(w, t)
    /\ UNCHANGED <<leaseKey, fence, expired, phase, lease_tokens,
                   local_fencing_tokens, run, loop, loopTodo, stopTodo, late,
                   faults>>

\* After the await, renew() writes the lease it read before it back, or
\* discards the pipeline's entry: neither looks at the entry again.
RenewReturn(w, t) ==
    /\ io[w][t] # Idle
    /\ io[w][t].op = "renew"
    /\ io[w][t].done
    /\ Return(w, t)
    /\ lease_tokens' = [lease_tokens EXCEPT ![w][io[w][t].p] =
                          IF io[w][t].ret = 0 THEN 0 ELSE io[w][t].tok]
    /\ UNCHANGED <<leaseKey, fence, expired, phase, local_fencing_tokens, run,
                   loop, loopTodo, stopTodo, late, faults>>

\* A round trip raises: the command may or may not have run, or may run yet.
\* acquire, validate and renew return False and leave the dictionary alone;
\* release has already popped its entry.
CallError(w, t) ==
    /\ io[w][t] # Idle
    /\ faults < MaxFaults
    /\ faults' = faults + 1
    /\ late' = late \cup Unexecuted(w, {io[w][t]})
    /\ Return(w, t)
    /\ run' = IF t \in Pipelines /\ io[w][t].op = "release"
              THEN [run EXCEPT ![w][t] = 0]
              ELSE run
    /\ UNCHANGED <<leaseKey, fence, expired, phase, lease_tokens,
                   local_fencing_tokens, loop, loopTodo, stopTodo>>

-----------------------------------------------------------------------------
(* The renewal loop *)

\* The sleep ends: snapshot the active pipelines.
LoopWake(w) ==
    /\ loop[w] = "sleeping"
    /\ loop' = [loop EXCEPT ![w] = "busy"]
    /\ loopTodo' = [loopTodo EXCEPT ![w] = ActivePipelines(w)]
    /\ UNCHANGED <<leaseKey, fence, expired, phase, lease_tokens,
                   local_fencing_tokens, run, io, stopTodo, late, faults>>

\* The next pipeline of the snapshot; one whose lease has gone is skipped.
LoopRenew(w, p) ==
    /\ loop[w] = "busy"
    /\ io[w][LoopTask] = Idle
    /\ p \in loopTodo[w]
    /\ loopTodo' = [loopTodo EXCEPT ![w] = @ \ {p}]
    /\ IF lease_tokens[w][p] # 0
       THEN Send(w, LoopTask, "renew", p, lease_tokens[w][p])
       ELSE UNCHANGED io
    /\ UNCHANGED <<leaseKey, fence, expired, phase, lease_tokens,
                   local_fencing_tokens, run, loop, stopTodo, late, faults>>

LoopCycleEnd(w) ==
    /\ loop[w] = "busy"
    /\ loopTodo[w] = {}
    /\ io[w][LoopTask] = Idle
    /\ loop' = [loop EXCEPT ![w] = "sleeping"]
    /\ UNCHANGED <<leaseKey, fence, expired, phase, lease_tokens,
                   local_fencing_tokens, run, io, loopTodo, stopTodo, late,
                   faults>>

\* The cycle deadline cancels the pending renewal and gives every lease up.
LoopDeadline(w) ==
    /\ loop[w] = "busy"
    /\ faults < MaxFaults
    /\ faults' = faults + 1
    /\ late' = late \cup Unexecuted(w, {io[w][LoopTask]})
    /\ Return(w, LoopTask)
    /\ lease_tokens' = [lease_tokens EXCEPT ![w] = [p \in Pipelines |-> 0]]
    /\ loop' = [loop EXCEPT ![w] = "sleeping"]
    /\ loopTodo' = [loopTodo EXCEPT ![w] = {}]
    /\ UNCHANGED <<leaseKey, fence, expired, phase, local_fencing_tokens, run,
                   stopTodo>>

-----------------------------------------------------------------------------
WorkerStep(w) ==
    \/ Start(w) \/ StartLocal(w) \/ StopLocal(w)
    \/ StopBegin(w) \/ StopReleaseReturn(w) \/ StopFinish(w) \/ Crash(w)
    \/ LoopWake(w) \/ LoopCycleEnd(w) \/ LoopDeadline(w)

PipelineStep(w, p) ==
    \/ TryAcquire(w, p) \/ TryAcquireReturn(w, p) \/ AcquireLocal(w, p)
    \/ Release(w, p) \/ ReleaseReturn(w, p)
    \/ Validate(w, p) \/ ValidateReturn(w, p)
    \/ Renew(w, p) \/ StopRelease(w, p) \/ LoopRenew(w, p)

TaskStep(w, t) == Execute(w, t) \/ RenewReturn(w, t) \/ CallError(w, t)

Next ==
    \/ \E w \in Workers : WorkerStep(w)
    \/ \E w \in Workers, p \in Pipelines : PipelineStep(w, p)
    \/ \E w \in Workers, t \in Tasks : TaskStep(w, t)
    \/ \E p \in Pipelines : Expire(p)
    \/ \E p \in Pipelines : ExpireFence(p)
    \/ \E c \in late : ExecuteLate(c)

Spec == Init /\ [][Next]_vars

\* The event loop runs every ready task, the loop's sleep ends, and Redis
\* answers or fails every call.  Nothing obliges the runner to call.
Fairness ==
    /\ \A w \in Workers :
         WF_vars(LoopWake(w)) /\ WF_vars(LoopCycleEnd(w))
    /\ \A w \in Workers : WF_vars(\E p \in Pipelines : LoopRenew(w, p))
    /\ \A w \in Workers, t \in Tasks : WF_vars(Execute(w, t) \/ RenewReturn(w, t))

FairSpec == Spec /\ Fairness

-----------------------------------------------------------------------------
(* Properties *)

TypeOK ==
    /\ leaseKey \in [Pipelines -> [worker : Workers, token : Nat] \cup {NoLease}]
    /\ fence \in [Pipelines -> Nat]
    /\ expired \in BOOLEAN
    /\ phase \in [Workers -> {"new", "running", "local", "stopping", "stopped"}]
    /\ lease_tokens \in [Workers -> [Pipelines -> Nat]]
    /\ local_fencing_tokens \in [Workers -> [Pipelines -> Nat]]
    /\ run \in [Workers -> [Pipelines -> Nat]]
    /\ io \in [Workers -> [Tasks -> Command \cup {Idle}]]
    /\ loop \in [Workers -> {"off", "sleeping", "busy"}]
    /\ loopTodo \in [Workers -> SUBSET Pipelines]
    /\ stopTodo \in [Workers -> SUBSET Pipelines]
    /\ late \subseteq [worker : Workers, op : Ops, p : Pipelines, tok : Nat]
    /\ faults \in Nat

\* The lease in Redis carries the token the counter stands at, or the counter
\* has expired under it and issued nothing since: a worker whose validate()
\* succeeds has not been superseded at the moment Redis answered, whatever TTL
\* the counter has.
LiveLeaseIsNewest ==
    \A p \in Pipelines :
      leaseKey[p] # NoLease =>
        \/ leaseKey[p].token = fence[p]
        \/ expired /\ fence[p] = 0

\* Worker w has token k of pipeline p somewhere: in its dictionary, its run, a
\* call it awaits or has abandoned, or the lease key.
Knows(w, p, k) ==
    \/ lease_tokens[w][p] = k
    \/ run[w][p] = k
    \/ \E t \in Tasks : /\ io[w][t] # Idle
                        /\ io[w][t].p = p
                        /\ io[w][t].tok = k \/ io[w][t].ret = k
    \/ \E c \in late : c.worker = w /\ c.p = p /\ c.tok = k
    \/ Matches(w, p, k)

\* No worker knows a token that the counter has not issued.
TokensIssued ==
    /\ \A w \in Workers, p \in Pipelines :
         lease_tokens[w][p] <= fence[p] /\ run[w][p] <= fence[p]
    /\ \A w \in Workers, t \in Tasks :
         io[w][t] # Idle => /\ io[w][t].tok <= fence[io[w][t].p]
                            /\ io[w][t].ret <= fence[io[w][t].p]
    /\ \A c \in late : c.tok <= fence[c.p]

\* As long as no counter has expired (by default none does) and without the
\* local fallback, no fencing token is ever known to two workers, not even through
\* stale replies, abandoned commands or a restart: a resource that remembers the
\* highest token it saw can tell every pair of owners apart.  A counter that
\* has expired starts again at 1, and nothing of this is promised any more.
TokensNotShared ==
    ~FallbackToLocal /\ ~expired =>
      /\ TokensIssued
      /\ \A p \in Pipelines : \A k \in 1..fence[p] : \A v, w \in Workers :
           Knows(v, p, k) /\ Knows(w, p, k) => v = w

\* After stop() the coordinator holds nothing: the dictionary is empty and no
\* task is left that could put an entry back.
StoppedIsQuiet ==
    \A w \in Workers :
      phase[w] = "stopped" =>
        /\ \A p \in Pipelines : lease_tokens[w][p] = 0
        /\ \A t \in Tasks : io[w][t] = Idle
        /\ loop[w] = "off"

\* With the local fallback every run has exactly the lease it started under:
\* nothing of an earlier session on Redis is left behind or still at work.
FallbackConsistent ==
    \A w \in Workers :
      phase[w] = "local" =>
        /\ lease_tokens[w] = run[w]
        /\ \A t \in Tasks : io[w][t] = Idle

\* While a run goes on under its lease, only the TTL can take the lease out of
\* Redis: no stale release, of another worker or of an earlier run, can.  (A
\* counter that has expired may give a run a token that a late release names.)
RunningLeaseStable ==
    [][\A w \in Workers, p \in Pipelines :
         /\ ~expired
         /\ phase[w] = "running"
         /\ run[w][p] # 0
         /\ Matches(w, p, run[w][p])
         /\ io[w][p] # Idle => io[w][p].op # "release"
         => leaseKey'[p] = leaseKey[p] \/ Expire(p)]_vars

\* A lease that has gone from Redis does not stay in a running worker's
\* dictionary: the renewal loop finds out and drops it.  Only a counter that
\* expired can make the entry true again, by giving out its token anew.
LostLeaseNoticed ==
    \A w \in Workers, p \in Pipelines, k \in 1..MaxToken :
      (phase[w] = "running" /\ lease_tokens[w][p] = k /\ ~Matches(w, p, k))
        ~> \/ phase[w] # "running"
           \/ lease_tokens[w][p] # k
           \/ expired /\ Matches(w, p, k)

\* "Deletes all leases [...] on graceful shutdown": when no call failed and no
\* process died, a stopped worker has left no lease behind in Redis.
StopDeletesAllLeases ==
    \A w \in Workers, p \in Pipelines :
      phase[w] = "stopped" /\ faults = 0 /\ leaseKey[p] # NoLease
        => leaseKey[p].worker # w
=============================================================================
