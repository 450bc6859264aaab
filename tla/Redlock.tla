------------------------------- MODULE Redlock -------------------------------
(***************************************************************************)
(* The Redlock variant of the lease store (distributed/redlock_*.py): the  *)
(* lease of one pipeline on several independent Redis nodes, with a        *)
(* fencing token reserved on the primary Redis.                            *)
(*                                                                         *)
(* A worker is one asyncio process with two tasks, the runner and the      *)
(* renewal loop.  An operation calls all its nodes at the same time and    *)
(* goes on when every call has been answered or has failed.  Time passes   *)
(* in ticks; a key lives for its TTL on the clock of its node, which may   *)
(* run fast by as much as the drift the code allows for.  The fence        *)
(* counter does not expire (fencing_key_ttl_seconds = 0, the default).     *)
(***************************************************************************)
EXTENDS Integers, FiniteSets

CONSTANTS
    Workers,    \* worker ids
    Nodes,      \* Redlock nodes
    TTL,        \* lease_ttl
    Drift,      \* lease_ttl * clock_drift_factor + 0.002
    NoKey,      \* an absent lease key
    Idle,       \* a task with no call in flight
    MaxToken,   \* bound: tokens reserved
    MaxTime,    \* bound: ticks
    MaxChecks,  \* bound: renewals and validations
    MaxFaults   \* bound: failed calls, deadlines and crashes

Tasks == {"runner", "loop"}
Releases == {"release", "undo_renew"}
Ops == {"acquire", "renew", "validate"} \cup Releases

\* A key: its payload and when its TTL was last set.
Key == [worker : Workers, token : Nat, set : Nat]

\* An operation under way: the token it was sent with, when it started, the nodes
\* that have not answered and those that said yes.
Call == [op : Ops, tok : Nat, started : Nat, todo : SUBSET Nodes, yes : SUBSET Nodes]

ASSUME RedlockAssumption ==
    /\ IsFiniteSet(Nodes) /\ Cardinality(Nodes) >= 3
    /\ TTL \in Nat /\ Drift \in Nat /\ Drift < TTL
    /\ MaxToken \in Nat /\ MaxTime \in Nat /\ MaxChecks \in Nat /\ MaxFaults \in Nat
    /\ NoKey \notin Key
    /\ Idle \notin Call

VARIABLES
    now,            \* ticks since the start
    fence,          \* primary Redis: the fencing counter
    key,            \* each node: its lease key
    lease_tokens,   \* worker: token of the lease it believes in, 0 if none
    lease_nodes,    \* worker: _lease_nodes, all nodes if it has no entry
    io,             \* worker: the call of each task
    late,           \* calls given up by their caller that may still be executed
    run,            \* runner: token of the run in progress, 0 if none
    checks, faults, \* how many so far
    confirmed,      \* history: until when the run is covered by a quorum, 0 if
                    \* it has ended or a renewal has given it up
    granted         \* history: tokens that try_acquire returned True for

nodeVars == <<fence, key>>
leaseVars == <<lease_tokens, lease_nodes>>
history == <<confirmed, granted>>
counters == <<checks, faults>>
vars == <<now, nodeVars, leaseVars, io, late, run, counters, history>>

Init ==
    /\ now = 0 /\ fence = 0 /\ checks = 0 /\ faults = 0
    /\ key = [n \in Nodes |-> NoKey]
    /\ lease_tokens = [w \in Workers |-> 0]
    /\ lease_nodes = [w \in Workers |-> Nodes]
    /\ io = [w \in Workers |-> [t \in Tasks |-> Idle]]
    /\ late = {}
    /\ run = [w \in Workers |-> 0]
    /\ confirmed = [w \in Workers |-> 0]
    /\ granted = {}

\* Mutant: half of the nodes are enough.
QuorumHalf == Cardinality(Nodes) \div 2

quorum == Cardinality(Nodes) \div 2 + 1

\* How long a key set now is sure to live: validity_s(0).
Validity == TTL - Drift

\* Mutant: the time the calls took is not checked.
ValidAlways(c) == TRUE

\* validity_s(elapsed) > 0
Valid(c) == now - c.started < Validity

\* Nothing is done with the answers to a release.
Settled(c) == IF c.op = "release" /\ c.todo = {} THEN Idle ELSE c

\* Acquisition and renewal look at the clock first.
Send(w, t, op, tok, nodes) ==
    io' = [io EXCEPT ![w][t] =
             Settled([op |-> op, tok |-> tok, todo |-> nodes, yes |-> {},
                      started |-> IF op \in {"acquire", "renew"} THEN now ELSE 0])]

\* Node n has answered task t of w, or its call has failed.
Answer(w, t, n, yes) ==
    LET c == io[w][t]
    IN  io' = [io EXCEPT ![w][t] =
                 Settled([c EXCEPT !.todo = c.todo \ {n},
                                   !.yes = IF yes THEN c.yes \cup {n} ELSE c.yes])]

Return(w, t) == io' = [io EXCEPT ![w][t] = Idle]

\* Bounded work, and bounded failures.
Check ==
    /\ checks < MaxChecks
    /\ checks' = checks + 1
    /\ UNCHANGED faults

Fault ==
    /\ faults < MaxFaults
    /\ faults' = faults + 1
    /\ UNCHANGED checks

\* Task t of w awaits a call of kind op that every node has answered.
Answered(w, t, op) == io[w][t] # Idle /\ io[w][t].op = op /\ io[w][t].todo = {}

-----------------------------------------------------------------------------
(* The scripts on a node.                                                  *)

Matches(w, tok, n) == key[n] # NoKey /\ key[n].worker = w /\ key[n].token = tok

\* Mutant: the release script compares the worker id only.
ScriptReleasesAny(w, op, tok, n) ==
    IF op = "acquire" THEN IF key[n] = NoKey THEN [worker |-> w, token |-> tok, set |-> now]
                                             ELSE key[n]
    ELSE IF op = "renew" /\ Matches(w, tok, n) THEN [key[n] EXCEPT !.set = now]
    ELSE IF op \in Releases /\ key[n] # NoKey /\ key[n].worker = w THEN NoKey
    ELSE key[n]

\* The key of node n after the script (or GET, for validate).
Script(w, op, tok, n) ==
    IF op = "acquire" THEN IF key[n] = NoKey THEN [worker |-> w, token |-> tok, set |-> now]
                                             ELSE key[n]
    ELSE IF op = "renew" /\ Matches(w, tok, n) THEN [key[n] EXCEPT !.set = now]
    ELSE IF op \in Releases /\ Matches(w, tok, n) THEN NoKey
    ELSE key[n]

\* Whether the script, or the payload read, says yes.
SaysYes(w, op, tok, n) ==
    \/ op = "acquire" /\ key[n] = NoKey
    \/ op \in {"renew", "validate"} /\ Matches(w, tok, n)

\* Node n executes the call that task t of w has sent to it.
Execute(w, t, n) ==
    /\ io[w][t] # Idle /\ n \in io[w][t].todo
    /\ LET c == io[w][t]
       IN  /\ key' = [key EXCEPT ![n] = Script(w, c.op, c.tok, n)]
           /\ Answer(w, t, n, SaysYes(w, c.op, c.tok, n))
    /\ UNCHANGED <<now, fence, leaseVars, late, run, counters, history>>

\* The calls to nodes S that a task gives up.
Abandoned(w, t, S) ==
    IF io[w][t] = Idle THEN {}
    ELSE {[worker |-> w, op |-> io[w][t].op, tok |-> io[w][t].tok, node |-> n] :
             n \in S \cap io[w][t].todo}

\* The call to one node fails: it counts as no answer, and may be executed later.
NodeError(w, t, n) ==
    /\ io[w][t] # Idle /\ n \in io[w][t].todo
    /\ Fault
    /\ late' = late \cup Abandoned(w, t, {n})
    /\ Answer(w, t, n, FALSE)
    /\ UNCHANGED <<now, nodeVars, leaseVars, run, history>>

ExecuteLate(c) ==
    /\ late' = late \ {c}
    /\ key' = [key EXCEPT ![c.node] = Script(c.worker, c.op, c.tok, c.node)]
    /\ UNCHANGED <<now, fence, leaseVars, io, run, counters, history>>

Expire(n) ==
    /\ key[n] # NoKey
    /\ now - key[n].set >= Validity
    /\ key' = [key EXCEPT ![n] = NoKey]
    /\ UNCHANGED <<now, fence, leaseVars, io, late, run, counters, history>>

Tick ==
    /\ now < MaxTime
    /\ now' = now + 1
    /\ UNCHANGED <<nodeVars, leaseVars, io, late, run, counters, history>>

-----------------------------------------------------------------------------
(* try_acquire() *)

\* INCR of the fencing key on the primary; the lease is tried with the reply.
Reserve(w) ==
    /\ io[w]["runner"] = Idle /\ run[w] = 0 /\ fence < MaxToken
    /\ fence' = fence + 1
    /\ Send(w, "runner", "acquire", fence + 1, Nodes)
    /\ UNCHANGED <<now, key, leaseVars, late, run, counters, history>>

\* The primary fails after the INCR, or its reply is lost: try_acquire raises.
ReserveFails(w) ==
    /\ io[w]["runner"] = Idle /\ run[w] = 0 /\ fence < MaxToken
    /\ Fault
    /\ fence' = fence + 1
    /\ UNCHANGED <<now, key, leaseVars, io, late, run, history>>

\* Mutant: a partial acquisition is left to its TTL.
AcquireReturnKeeps(w) ==
    LET c == io[w]["runner"]
    IN  /\ Answered(w, "runner", "acquire")
        /\ Return(w, "runner")
        /\ \/ /\ Cardinality(c.yes) >= quorum /\ Valid(c)
              /\ lease_tokens' = [lease_tokens EXCEPT ![w] = c.tok]
              /\ lease_nodes' = [lease_nodes EXCEPT ![w] = c.yes]
              /\ run' = [run EXCEPT ![w] = c.tok]
              /\ confirmed' = [confirmed EXCEPT ![w] = c.started + Validity]
              /\ granted' = granted \cup {c.tok}
           \/ /\ Cardinality(c.yes) < quorum \/ ~Valid(c)
              /\ UNCHANGED <<leaseVars, run, history>>
        /\ UNCHANGED <<now, nodeVars, late, counters>>

\* With a quorum in time the run begins; without, what was acquired is released.
AcquireReturn(w) ==
    LET c == io[w]["runner"]
    IN  /\ Answered(w, "runner", "acquire")
        /\ \/ /\ Cardinality(c.yes) >= quorum /\ Valid(c)
              /\ Return(w, "runner")
              /\ lease_tokens' = [lease_tokens EXCEPT ![w] = c.tok]
              /\ lease_nodes' = [lease_nodes EXCEPT ![w] = c.yes]
              /\ run' = [run EXCEPT ![w] = c.tok]
              /\ confirmed' = [confirmed EXCEPT ![w] = c.started + Validity]
              /\ granted' = granted \cup {c.tok}
           \/ /\ Cardinality(c.yes) < quorum \/ ~Valid(c)
              /\ Send(w, "runner", "release", c.tok, c.yes)
              /\ UNCHANGED <<leaseVars, run, history>>
        /\ UNCHANGED <<now, nodeVars, late, counters>>

-----------------------------------------------------------------------------
(* renew(), of the loop or of the runner.                                  *)

\* Only the nodes that said yes last time are asked.
Renew(w, t) ==
    /\ io[w][t] = Idle
    /\ t = "runner" => run[w] # 0
    /\ lease_tokens[w] # 0
    /\ Send(w, t, "renew", lease_tokens[w], lease_nodes[w])
    /\ Check
    /\ UNCHANGED <<now, nodeVars, leaseVars, late, run, history>>

\* Mutant: the renewed nodes are numbered anew in place of keeping their indices.
RenewReturnCounts(w, t) ==
    LET c == io[w][t]
    IN  /\ Answered(w, t, "renew")
        /\ Cardinality(c.yes) >= quorum /\ Valid(c)
        /\ Return(w, t)
        /\ lease_tokens' = [lease_tokens EXCEPT ![w] = c.tok]
        /\ lease_nodes' = [lease_nodes EXCEPT ![w] = 1..Cardinality(c.yes)]
        /\ UNCHANGED <<now, nodeVars, late, run, counters, history>>

\* With a quorum in time the lease is written back, whatever the dictionary holds
\* by now; without, the nodes that renewed it are released.
RenewReturn(w, t) ==
    LET c == io[w][t]
        covers == run[w] = c.tok /\ confirmed[w] # 0
        until == c.started + Validity
    IN  /\ Answered(w, t, "renew")
        /\ \/ /\ Cardinality(c.yes) >= quorum /\ Valid(c)
              /\ Return(w, t)
              /\ lease_tokens' = [lease_tokens EXCEPT ![w] = c.tok]
              /\ lease_nodes' = [lease_nodes EXCEPT ![w] = c.yes]
              /\ confirmed' = [confirmed EXCEPT ![w] =
                                 IF covers /\ until > @ THEN until ELSE @]
           \/ /\ Cardinality(c.yes) < quorum \/ ~Valid(c)
              /\ Send(w, t, "undo_renew", c.tok, c.yes)
              /\ confirmed' = [confirmed EXCEPT ![w] = IF covers THEN 0 ELSE @]
              /\ UNCHANGED leaseVars
        /\ UNCHANGED <<now, nodeVars, late, run, counters, granted>>

\* discard_lease(): both dictionaries lose the pipeline.
Discard(w) ==
    /\ lease_tokens' = [lease_tokens EXCEPT ![w] = 0]
    /\ lease_nodes' = [lease_nodes EXCEPT ![w] = Nodes]

\* mark_lease_lost() comes after the release.
UndoRenewReturn(w, t) ==
    /\ Answered(w, t, "undo_renew")
    /\ Return(w, t)
    /\ Discard(w)
    /\ UNCHANGED <<now, nodeVars, late, run, counters, history>>

\* The deadline of the renewal cycle: the call is cancelled, the lease marked lost.
RenewDeadline(w) ==
    /\ io[w]["loop"] # Idle
    /\ Fault
    /\ late' = late \cup Abandoned(w, "loop", Nodes)
    /\ Return(w, "loop")
    /\ Discard(w)
    /\ UNCHANGED <<now, nodeVars, run, history>>

-----------------------------------------------------------------------------
(* validate(), release(), and the death of a worker.                       *)

\* A token that is not the one of the dictionary is refused at once.
Validate(w) ==
    /\ io[w]["runner"] = Idle
    /\ run[w] # 0 /\ run[w] = lease_tokens[w]
    /\ Send(w, "runner", "validate", run[w], Nodes)
    /\ Check
    /\ UNCHANGED <<now, nodeVars, leaseVars, late, run, history>>

ValidateReturn(w) ==
    /\ Answered(w, "runner", "validate")
    /\ Return(w, "runner")
    /\ \/ Cardinality(io[w]["runner"].yes) >= quorum /\ UNCHANGED leaseVars
       \/ Cardinality(io[w]["runner"].yes) < quorum /\ Discard(w)
    /\ UNCHANGED <<now, nodeVars, late, run, counters, history>>

\* The run is over: the entry is discarded, then the lease released on all nodes.
Release(w) ==
    /\ io[w]["runner"] = Idle /\ run[w] # 0
    /\ run' = [run EXCEPT ![w] = 0]
    /\ confirmed' = [confirmed EXCEPT ![w] = 0]
    /\ Discard(w)
    /\ \/ lease_tokens[w] # 0 /\ Send(w, "runner", "release", lease_tokens[w], Nodes)
       \/ lease_tokens[w] = 0 /\ UNCHANGED io
    /\ UNCHANGED <<now, nodeVars, late, counters, granted>>

Crash(w) ==
    /\ Fault
    /\ late' = late \cup Abandoned(w, "runner", Nodes) \cup Abandoned(w, "loop", Nodes)
    /\ io' = [io EXCEPT ![w] = [t \in Tasks |-> Idle]]
    /\ Discard(w)
    /\ run' = [run EXCEPT ![w] = 0]
    /\ confirmed' = [confirmed EXCEPT ![w] = 0]
    /\ UNCHANGED <<now, nodeVars, granted>>

-----------------------------------------------------------------------------
RunnerStep(w) ==
    \/ Reserve(w) \/ ReserveFails(w) \/ AcquireReturn(w)
    \/ Validate(w) \/ ValidateReturn(w) \/ Release(w)

TaskStep(w, t) ==
    \/ Renew(w, t) \/ RenewReturn(w, t) \/ UndoRenewReturn(w, t)
    \/ \E n \in Nodes : Execute(w, t, n) \/ NodeError(w, t, n)

Next ==
    \/ \E w \in Workers : RunnerStep(w) \/ RenewDeadline(w) \/ Crash(w)
    \/ \E w \in Workers, t \in Tasks : TaskStep(w, t)
    \/ \E c \in late : ExecuteLate(c)
    \/ \E n \in Nodes : Expire(n)
    \/ Tick

Spec == Init /\ [][Next]_vars

-----------------------------------------------------------------------------
(* Properties.                                                             *)

\* Types of the nodes' keys, the dictionaries and the calls.
TypeOK ==
    /\ now \in Nat /\ fence \in Nat /\ checks \in Nat /\ faults \in Nat
    /\ key \in [Nodes -> Key \cup {NoKey}]
    /\ lease_tokens \in [Workers -> Nat]
    /\ lease_nodes \in [Workers -> SUBSET Nodes]
    /\ io \in [Workers -> [Tasks -> Call \cup {Idle}]]
    /\ late \subseteq [worker : Workers, op : Ops, tok : Nat, node : Nodes]
    /\ run \in [Workers -> Nat]
    /\ confirmed \in [Workers -> Nat]
    /\ granted \subseteq Nat

\* The run of w is covered: acquired or renewed within the validity time, not
\* released and not given up by a failed renewal.
Owner(w) == now < confirmed[w]

\* While a run is covered, a quorum of the nodes keeps its lease: nothing that
\* is delayed, retried, undone or left over from an earlier run removes it.
OwnerHasQuorum ==
    \A w \in Workers :
        Owner(w) => Cardinality({n \in Nodes : Matches(w, run[w], n)}) >= quorum

\* No two workers are covered for the pipeline at the same time, although each
\* decides from answers that are old when it has them all.
OneOwner == \A v, w \in Workers : Owner(v) /\ Owner(w) => v = w

\* When try_acquire() returns True a quorum of the nodes still has the lease,
\* however long their answers took and however early their keys expire.
GrantIsLive ==
    [][\A w \in Workers :
         run'[w] \notin {0, run[w]} =>
             Cardinality({n \in Nodes : Matches(w, run'[w], n)}) >= quorum]_vars

\* try_acquire() without a quorum leaves nothing behind: as long as no call
\* fails, a key on any node belongs to a lease that was granted or to an
\* acquisition still under way.
PartialUndone ==
    faults = 0 =>
        \A n \in Nodes : key[n] # NoKey =>
            \/ key[n].token \in granted
            \/ LET c == io[key[n].worker]["runner"]
               IN  /\ c # Idle
                   /\ c.op \in {"acquire", "release"}
                   /\ c.tok = key[n].token
=============================================================================
