---------------------------- MODULE RedlockProofs ----------------------------
(***************************************************************************)
(* A covered run of Redlock has its lease on a quorum of the nodes, no two *)
(* workers are covered at the same time, and an acquisition that fails     *)
(* leaves no key behind, for any number of workers and of nodes, any TTL   *)
(* and any number of failures.                                             *)
(*                                                                         *)
(* OwnerHasQuorum is not inductive: a quorum of yes answers means a quorum *)
(* of keys only if none of the keys has been removed since, by its TTL or  *)
(* by a release that is still under way.  The invariant therefore says of  *)
(* every call what its yes answers are worth, and that nothing under way   *)
(* releases the token of a covered run.                                    *)
(***************************************************************************)
EXTENDS Redlock, FiniteSetTheorems, TLAPS

LateCall == [worker : Workers, op : Ops, tok : Nat, node : Nodes]

\* A release of the lease (w, tok) has been sent and not been executed.
Releasing(w, tok) ==
    \/ \E t \in Tasks :
          io[w][t] # Idle /\ io[w][t].op \in Releases /\ io[w][t].tok = tok
    \/ \E c \in late : c.worker = w /\ c.op \in Releases /\ c.tok = tok

\* Node n has the lease (w, tok) and was told so at time s or after.
Holds(w, tok, n, s) == Matches(w, tok, n) /\ key[n].set >= s

\* The yes answers of call c of w are keys as long as c is valid.
AnswersHold(w, c) ==
    now < c.started + Validity => \A n \in c.yes : Holds(w, c.tok, n, c.started)

\* Clocks: nothing was done in the future.
PastInv ==
    /\ \A n \in Nodes : key[n] # NoKey => key[n].set <= now
    /\ \A w \in Workers, t \in Tasks : io[w][t] # Idle => io[w][t].started <= now

\* Every token in use has been reserved.
TokenInv ==
    /\ \A w \in Workers :
          /\ lease_tokens[w] <= fence
          /\ run[w] <= fence
          /\ \A t \in Tasks : io[w][t] # Idle => io[w][t].tok <= fence
    /\ \A c \in late : c.tok <= fence

\* The token of an acquisition under way is used for nothing else.
AcquireInv ==
    \A w \in Workers :
        LET c == io[w]["runner"]
        IN  c # Idle /\ c.op = "acquire" =>
              /\ c.tok > 0
              /\ c.tok # lease_tokens[w]
              /\ c.tok # run[w]
              /\ io[w]["loop"] # Idle => io[w]["loop"].tok # c.tok
              /\ ~Releasing(w, c.tok)
              /\ AnswersHold(w, c)

\* The renewal loop only renews.
LoopInv ==
    \A w \in Workers :
        io[w]["loop"] # Idle => io[w]["loop"].op \in {"renew", "undo_renew"}

\* Of a run that has not been given up: nothing releases it, the answers to its
\* renewals hold, and a quorum holds it until the time it is covered to.
CoverInv ==
    \A w \in Workers : confirmed[w] # 0 =>
        /\ ~Releasing(w, run[w])
        /\ \A t \in Tasks :
              io[w][t] # Idle /\ io[w][t].op = "renew" /\ io[w][t].tok = run[w]
                  => AnswersHold(w, io[w][t])
        /\ now < confirmed[w] =>
              Cardinality({n \in Nodes : Holds(w, run[w], n, confirmed[w] - Validity)}) >= quorum

IInv == TypeOK /\ PastInv /\ TokenInv /\ AcquireInv /\ LoopInv /\ CoverInv

-----------------------------------------------------------------------------
(* Arithmetic of the constants.                                            *)

LEMMA ConstantFacts ==
    /\ Validity \in Nat /\ Validity > 0
    /\ IsFiniteSet(Nodes) /\ Cardinality(Nodes) \in Nat
    /\ quorum \in Nat /\ quorum + quorum > Cardinality(Nodes)
  <1>1. Cardinality(Nodes) \in Nat
    BY RedlockAssumption, FS_CardinalityType
  <1> QED  BY <1>1, RedlockAssumption DEF Validity, quorum

\* A larger set of nodes has no fewer nodes.
LEMMA MoreNodes ==
    ASSUME NEW A, NEW B, A \subseteq B, B \subseteq Nodes
    PROVE  /\ Cardinality(A) \in Nat /\ Cardinality(B) \in Nat
           /\ Cardinality(A) <= Cardinality(B)
  <1>1. IsFiniteSet(B)
    BY ConstantFacts, FS_Subset
  <1>2. IsFiniteSet(A) /\ Cardinality(A) <= Cardinality(B)
    BY <1>1, FS_Subset
  <1> QED  BY <1>1, <1>2, FS_CardinalityType

\* Two quorums have a node in common.
LEMMA QuorumsMeet ==
    ASSUME NEW A \in SUBSET Nodes, NEW B \in SUBSET Nodes,
           Cardinality(A) >= quorum, Cardinality(B) >= quorum
    PROVE  A \cap B # {}
  <1>1. IsFiniteSet(A) /\ IsFiniteSet(B)
    BY ConstantFacts, FS_Subset
  <1>2. Cardinality(A \cup B) = Cardinality(A) + Cardinality(B) - Cardinality(A \cap B)
    BY <1>1, FS_Union
  <1>3. Cardinality(A \cup B) <= Cardinality(Nodes)
    BY MoreNodes
  <1>4. Cardinality(A) \in Nat /\ Cardinality(B) \in Nat /\ Cardinality(A \cap B) \in Nat
    BY MoreNodes
  <1>5. Cardinality(A \cap B) # 0
    BY <1>2, <1>3, <1>4, ConstantFacts
  <1> QED  BY <1>5, FS_EmptySet

-----------------------------------------------------------------------------
(* Types.                                                                  *)

LEMMA SendType ==
    ASSUME TypeOK, NEW w \in Workers, NEW t \in Tasks, NEW op \in Ops, NEW tok \in Nat,
           NEW nodes \in SUBSET Nodes, Send(w, t, op, tok, nodes)
    PROVE  io' \in [Workers -> [Tasks -> Call \cup {Idle}]]
  <1> DEFINE c == [op |-> op, tok |-> tok, todo |-> nodes, yes |-> {},
                   started |-> IF op \in {"acquire", "renew"} THEN now ELSE 0]
  <1>1. c \in Call
    BY DEF TypeOK, Call
  <1>2. Settled(c) \in Call \cup {Idle}
    BY <1>1 DEF Settled
  <1> HIDE DEF c
  <1> QED  BY <1>2 DEF Send, TypeOK, c

LEMMA AnswerType ==
    ASSUME TypeOK, NEW w \in Workers, NEW t \in Tasks, NEW n \in Nodes, NEW yes,
           io[w][t] # Idle, Answer(w, t, n, yes)
    PROVE  io' \in [Workers -> [Tasks -> Call \cup {Idle}]]
  <1> DEFINE c == io[w][t]
             d == [c EXCEPT !.todo = c.todo \ {n},
                            !.yes = IF yes THEN c.yes \cup {n} ELSE c.yes]
  <1>1. c \in Call
    BY DEF TypeOK
  <1>2. d \in Call
    BY <1>1 DEF Call
  <1>3. Settled(d) \in Call \cup {Idle}
    BY <1>2 DEF Settled
  <1>4. io' = [io EXCEPT ![w][t] = Settled(d)]
    BY DEF Answer
  <1> HIDE DEF d
  <1> QED  BY <1>3, <1>4 DEF TypeOK

LEMMA ReturnType ==
    ASSUME TypeOK, NEW w \in Workers, NEW t \in Tasks, Return(w, t)
    PROVE  io' \in [Workers -> [Tasks -> Call \cup {Idle}]]
  BY DEF Return, TypeOK

LEMMA ScriptType ==
    ASSUME TypeOK, NEW w \in Workers, NEW op, NEW tok \in Nat, NEW n \in Nodes
    PROVE  Script(w, op, tok, n) \in Key \cup {NoKey}
  BY DEF TypeOK, Script, Matches, Key

LEMMA AbandonedType ==
    ASSUME TypeOK, NEW w \in Workers, NEW t \in Tasks, NEW S \in SUBSET Nodes
    PROVE  Abandoned(w, t, S) \subseteq LateCall
  <1>1. io[w][t] = Idle \/ io[w][t] \in Call
    BY DEF TypeOK
  <1> QED  BY <1>1 DEF Abandoned, LateCall, Call

\* Every step keeps the types.
LEMMA TypeStep ==
    ASSUME TypeOK, [Next]_vars
    PROVE  TypeOK'
  <1> USE DEF Tasks
  <1>1. CASE UNCHANGED vars
    BY <1>1 DEF TypeOK, vars, nodeVars, leaseVars, counters, history
  <1>2. ASSUME NEW w \in Workers, NEW t \in Tasks, NEW n \in Nodes, Execute(w, t, n)
        PROVE  TypeOK'
    <2>1. io[w][t] \in Call
      BY <1>2 DEF Execute, TypeOK
    <2>2. io[w][t].tok \in Nat
      BY <2>1 DEF Call
    <2>3. io' \in [Workers -> [Tasks -> Call \cup {Idle}]]
      BY <1>2, AnswerType DEF Execute
    <2>4. Script(w, io[w][t].op, io[w][t].tok, n) \in Key \cup {NoKey}
      BY <2>2, ScriptType
    <2>5. key' \in [Nodes -> Key \cup {NoKey}]
      BY <1>2, <2>4 DEF Execute, TypeOK
    <2> QED  BY <1>2, <2>3, <2>5 DEF Execute, TypeOK, leaseVars, counters, history
  <1>3. ASSUME NEW w \in Workers, NEW t \in Tasks, NEW n \in Nodes, NodeError(w, t, n)
        PROVE  TypeOK'
    <2>1. io' \in [Workers -> [Tasks -> Call \cup {Idle}]]
      BY <1>3, AnswerType DEF NodeError
    <2>2. late' \subseteq LateCall
      BY <1>3, AbandonedType DEF NodeError, TypeOK, LateCall
    <2>3. checks' \in Nat /\ faults' \in Nat
      BY <1>3 DEF NodeError, Fault, TypeOK
    <2>4. UNCHANGED <<now, fence, key, lease_tokens, lease_nodes, run, confirmed, granted>>
      BY <1>3 DEF NodeError, nodeVars, leaseVars, history
    <2> QED  BY <2>1, <2>2, <2>3, <2>4 DEF TypeOK, LateCall
  <1>4. ASSUME NEW c \in late, ExecuteLate(c)
        PROVE  TypeOK'
    <2>1. c \in LateCall
      BY DEF TypeOK, LateCall
    <2>2. c.worker \in Workers /\ c.tok \in Nat /\ c.node \in Nodes
      BY <2>1 DEF LateCall
    <2>3. Script(c.worker, c.op, c.tok, c.node) \in Key \cup {NoKey}
      BY <2>2, ScriptType
    <2> QED  BY <1>4, <2>2, <2>3 DEF ExecuteLate, TypeOK, leaseVars, counters, history
  <1>5. ASSUME NEW n \in Nodes, Expire(n)
        PROVE  TypeOK'
    BY <1>5 DEF Expire, TypeOK, leaseVars, counters, history
  <1>6. CASE Tick
    BY <1>6 DEF Tick, TypeOK, nodeVars, leaseVars, counters, history
  <1>7. ASSUME NEW w \in Workers, Reserve(w)
        PROVE  TypeOK'
    <2>1. fence + 1 \in Nat /\ "acquire" \in Ops
      BY DEF TypeOK, Ops
    <2>2. io' \in [Workers -> [Tasks -> Call \cup {Idle}]]
      BY <1>7, <2>1, SendType DEF Reserve
    <2> QED  BY <1>7, <2>1, <2>2 DEF Reserve, TypeOK, leaseVars, counters, history
  <1>8. ASSUME NEW w \in Workers, ReserveFails(w)
        PROVE  TypeOK'
    BY <1>8 DEF ReserveFails, Fault, TypeOK, leaseVars, history
  <1>9. ASSUME NEW w \in Workers, AcquireReturn(w)
        PROVE  TypeOK'
    <2> DEFINE c == io[w]["runner"]
    <2>1. c \in Call
      BY <1>9 DEF AcquireReturn, Answered, TypeOK
    <2>2. c.tok \in Nat /\ c.yes \in SUBSET Nodes /\ c.started \in Nat /\ "release" \in Ops
      BY <2>1 DEF Call, Ops, Releases
    <2>3. io' \in [Workers -> [Tasks -> Call \cup {Idle}]]
      BY <1>9, <2>2, SendType, ReturnType DEF AcquireReturn
    <2>4. c.started + Validity \in Nat
      BY <2>2, ConstantFacts
    <2>5. \/ /\ lease_tokens' = [lease_tokens EXCEPT ![w] = c.tok]
             /\ lease_nodes' = [lease_nodes EXCEPT ![w] = c.yes]
             /\ run' = [run EXCEPT ![w] = c.tok]
             /\ confirmed' = [confirmed EXCEPT ![w] = c.started + Validity]
             /\ granted' = granted \cup {c.tok}
          \/ UNCHANGED <<lease_tokens, lease_nodes, run, confirmed, granted>>
      BY <1>9 DEF AcquireReturn, leaseVars, history
    <2> HIDE DEF c
    <2>6. lease_tokens' \in [Workers -> Nat] /\ run' \in [Workers -> Nat]
      BY <2>2, <2>5 DEF TypeOK
    <2>7. lease_nodes' \in [Workers -> SUBSET Nodes] /\ granted' \subseteq Nat
      BY <2>2, <2>5 DEF TypeOK
    <2>8. confirmed' \in [Workers -> Nat]
      BY <2>4, <2>5 DEF TypeOK
    <2>9. UNCHANGED <<now, fence, key, late, checks, faults>>
      BY <1>9 DEF AcquireReturn, nodeVars, counters
    <2> QED  BY <2>3, <2>6, <2>7, <2>8, <2>9 DEF TypeOK
  <1>10. ASSUME NEW w \in Workers, NEW t \in Tasks, Renew(w, t)
         PROVE  TypeOK'
    <2>1. lease_tokens[w] \in Nat /\ lease_nodes[w] \in SUBSET Nodes /\ "renew" \in Ops
      BY DEF TypeOK, Ops
    <2>2. io' \in [Workers -> [Tasks -> Call \cup {Idle}]]
      BY <1>10, <2>1, SendType DEF Renew
    <2> QED  BY <1>10, <2>2 DEF Renew, Check, TypeOK, nodeVars, leaseVars, history
  <1>11. ASSUME NEW w \in Workers, NEW t \in Tasks, RenewReturn(w, t)
         PROVE  TypeOK'
    <2> DEFINE c == io[w][t]
    <2>1. c \in Call
      BY <1>11 DEF RenewReturn, Answered, TypeOK
    <2>2. c.tok \in Nat /\ c.yes \in SUBSET Nodes /\ c.started \in Nat /\ "undo_renew" \in Ops
      BY <2>1 DEF Call, Ops, Releases
    <2>3. io' \in [Workers -> [Tasks -> Call \cup {Idle}]]
      BY <1>11, <2>2, SendType, ReturnType DEF RenewReturn
    <2>4. c.started + Validity \in Nat
      BY <2>2, ConstantFacts
    <2>5. \/ /\ lease_tokens' = [lease_tokens EXCEPT ![w] = c.tok]
             /\ lease_nodes' = [lease_nodes EXCEPT ![w] = c.yes]
          \/ UNCHANGED <<lease_tokens, lease_nodes>>
      BY <1>11 DEF RenewReturn, leaseVars
    <2>6. PICK x \in {c.started + Validity, 0, confirmed[w]} :
             confirmed' = [confirmed EXCEPT ![w] = x]
      BY <1>11, Zenon DEF RenewReturn
    <2>7. x \in Nat
      BY <2>4, <2>6 DEF TypeOK
    <2>8. confirmed' \in [Workers -> Nat]
      BY <2>6, <2>7 DEF TypeOK
    <2>9. lease_tokens' \in [Workers -> Nat] /\ lease_nodes' \in [Workers -> SUBSET Nodes]
      BY <2>2, <2>5 DEF TypeOK
    <2>10. UNCHANGED <<now, fence, key, late, run, checks, faults, granted>>
      BY <1>11 DEF RenewReturn, nodeVars, counters
    <2> QED  BY <2>3, <2>8, <2>9, <2>10 DEF TypeOK
  <1>12. ASSUME NEW w \in Workers, NEW t \in Tasks, UndoRenewReturn(w, t)
         PROVE  TypeOK'
    BY <1>12, ReturnType DEF UndoRenewReturn, Discard, TypeOK, nodeVars, counters, history
  <1>13. ASSUME NEW w \in Workers, RenewDeadline(w)
         PROVE  TypeOK'
    <2>1. late' \subseteq LateCall
      BY <1>13, AbandonedType DEF RenewDeadline, TypeOK, LateCall
    <2> QED  BY <1>13, <2>1, ReturnType
             DEF RenewDeadline, Fault, Discard, TypeOK, nodeVars, history, LateCall
  <1>14. ASSUME NEW w \in Workers, Validate(w)
         PROVE  TypeOK'
    <2>1. run[w] \in Nat /\ "validate" \in Ops
      BY DEF TypeOK, Ops
    <2>2. io' \in [Workers -> [Tasks -> Call \cup {Idle}]]
      BY <1>14, <2>1, SendType DEF Validate
    <2> QED  BY <1>14, <2>2 DEF Validate, Check, TypeOK, nodeVars, leaseVars, history
  <1>15. ASSUME NEW w \in Workers, ValidateReturn(w)
         PROVE  TypeOK'
    <2>1. io' \in [Workers -> [Tasks -> Call \cup {Idle}]]
      BY <1>15, ReturnType DEF ValidateReturn
    <2>2. lease_tokens' \in [Workers -> Nat] /\ lease_nodes' \in [Workers -> SUBSET Nodes]
      BY <1>15 DEF ValidateReturn, Discard, leaseVars, TypeOK
    <2> QED  BY <1>15, <2>1, <2>2 DEF ValidateReturn, TypeOK, nodeVars, counters, history
  <1>16. ASSUME NEW w \in Workers, Release(w)
         PROVE  TypeOK'
    <2>1. lease_tokens[w] \in Nat /\ "release" \in Ops
      BY DEF TypeOK, Ops, Releases
    <2>2. io' \in [Workers -> [Tasks -> Call \cup {Idle}]]
      BY <1>16, <2>1, SendType DEF Release, TypeOK
    <2> QED  BY <1>16, <2>2 DEF Release, Discard, TypeOK, nodeVars, counters
  <1>17. ASSUME NEW w \in Workers, Crash(w)
         PROVE  TypeOK'
    <2>1. late' \subseteq LateCall
      BY <1>17, AbandonedType DEF Crash, TypeOK, LateCall
    <2> QED  BY <1>17, <2>1 DEF Crash, Fault, Discard, TypeOK, nodeVars, LateCall
  <1> QED  BY <1>1, <1>2, <1>3, <1>4, <1>5, <1>6, <1>7, <1>8, <1>9, <1>10, <1>11, <1>12,
              <1>13, <1>14, <1>15, <1>16, <1>17 DEF Next, RunnerStep, TaskStep

-----------------------------------------------------------------------------
(* What a step does to one worker, and to the key of a node.               *)

\* Matches, after the step.
MatchesNext(w, tok, n) == key'[n] # NoKey /\ key'[n].worker = w /\ key'[n].token = tok

\* Releasing, after the step.
ReleasingNext(w, tok) ==
    \/ \E t \in Tasks :
          io'[w][t] # Idle /\ io'[w][t].op \in Releases /\ io'[w][t].tok = tok
    \/ \E c \in late' : c.worker = w /\ c.op \in Releases /\ c.tok = tok

\* A node has answered the call of task t.
Answers(w, t) ==
    LET c == io[w][t]
        d == io'[w][t]
    IN  /\ c # Idle /\ d # Idle
        /\ d.op = c.op /\ d.tok = c.tok /\ d.started = c.started
        /\ \A n \in d.yes :
              n \in c.yes \/ c.op = "validate" \/ (MatchesNext(w, c.tok, n) /\ key'[n].set = now)

\* The call d that task t sends takes its token from where the code takes it.
TokenOf(w, t, d) ==
    \/ /\ d.op = "acquire" /\ t = "runner"
       /\ d.tok = fence + 1 /\ fence' = fence + 1
    \/ d.op = "renew" /\ d.tok = lease_tokens[w]
    \/ d.op = "validate" /\ t = "runner" /\ d.tok = run[w]
    \/ /\ d.op = "release" /\ t = "runner"
       /\ io[w][t] # Idle /\ io[w][t].op = "acquire" /\ d.tok = io[w][t].tok
    \/ /\ d.op = "release" /\ t = "runner"
       /\ d.tok = lease_tokens[w] /\ confirmed'[w] = 0
    \/ /\ d.op = "undo_renew"
       /\ io[w][t] # Idle /\ io[w][t].op = "renew" /\ d.tok = io[w][t].tok
       /\ d.tok = run[w] => confirmed'[w] = 0

Sends(w, t) ==
    LET d == io'[w][t]
    IN  d # Idle /\ d.yes = {} /\ d.started <= now /\ TokenOf(w, t, d)

CallStep(w, t) ==
    io'[w][t] = io[w][t] \/ io'[w][t] = Idle \/ Answers(w, t) \/ Sends(w, t)

\* Calls that are given up were under way.
LateStep ==
    \A c \in late' :
        \/ c \in late
        \/ \E t \in Tasks : /\ io[c.worker][t] # Idle
                            /\ io[c.worker][t].op = c.op /\ io[c.worker][t].tok = c.tok

LeaseStep(w) ==
    \/ lease_tokens'[w] \in {0, lease_tokens[w]}
    \/ /\ io[w]["runner"] # Idle /\ io[w]["runner"].op = "acquire"
       /\ lease_tokens'[w] = io[w]["runner"].tok /\ io'[w]["runner"] = Idle
    \/ \E t \in Tasks : /\ io[w][t] # Idle /\ io[w][t].op = "renew"
                        /\ lease_tokens'[w] = io[w][t].tok

\* The call c returns with a quorum in time, and covers the run.
Covers(w, c) ==
    /\ Cardinality(c.yes) >= quorum
    /\ now < c.started + Validity
    /\ run'[w] = c.tok
    /\ confirmed'[w] = c.started + Validity
    /\ now' = now /\ key' = key

Grants(w) ==
    LET c == io[w]["runner"]
    IN  /\ c # Idle /\ c.op = "acquire" /\ Covers(w, c)
        /\ late' = late
        /\ io'[w]["runner"] = Idle /\ io'[w]["loop"] = io[w]["loop"]

Renews(w) ==
    /\ confirmed[w] # 0
    /\ run'[w] = run[w]
    /\ \E t \in Tasks : io[w][t] # Idle /\ io[w][t].op = "renew" /\ Covers(w, io[w][t])

RunStep(w) ==
    \/ run'[w] = run[w] /\ confirmed'[w] = confirmed[w]
    \/ run'[w] \in {0, run[w]} /\ confirmed'[w] = 0
    \/ Grants(w)
    \/ Renews(w)

WorkerStep(w) ==
    /\ \A t \in Tasks : CallStep(w, t)
    /\ LeaseStep(w)
    /\ RunStep(w)

StepFacts ==
    /\ now' \in {now, now + 1}
    /\ fence' \in {fence, fence + 1}
    /\ LateStep
    /\ \A w \in Workers : WorkerStep(w)

LEMMA SendStep ==
    ASSUME TypeOK, NEW w \in Workers, NEW t \in Tasks, NEW op, NEW tok, NEW nodes,
           Send(w, t, op, tok, nodes),
           \A d : d.op = op /\ d.tok = tok => TokenOf(w, t, d)
    PROVE  /\ CallStep(w, t)
           /\ \A v \in Workers, u \in Tasks : <<v, u>> # <<w, t>> => io'[v][u] = io[v][u]
  <1> DEFINE d == [op |-> op, tok |-> tok, todo |-> nodes, yes |-> {},
                   started |-> IF op \in {"acquire", "renew"} THEN now ELSE 0]
  <1>1. io' = [io EXCEPT ![w][t] = Settled(d)]
    BY DEF Send
  <1>2. d.op = op /\ d.tok = tok /\ d.yes = {} /\ d.started <= now
    BY DEF TypeOK
  <1>3. Settled(d) \in {d, Idle}
    BY DEF Settled
  <1>4. TokenOf(w, t, d)
    BY <1>2
  <1> HIDE DEF d
  <1>5. io'[w][t] = Settled(d)
    BY <1>1 DEF TypeOK
  <1>6. \A v \in Workers, u \in Tasks : <<v, u>> # <<w, t>> => io'[v][u] = io[v][u]
    BY <1>1 DEF TypeOK
  <1>7. CallStep(w, t)
    BY <1>2, <1>3, <1>4, <1>5 DEF CallStep, Sends
  <1> QED  BY <1>6, <1>7

LEMMA AnswerStep ==
    ASSUME TypeOK, NEW w \in Workers, NEW t \in Tasks, NEW n \in Nodes, NEW yes \in BOOLEAN,
           io[w][t] # Idle, Answer(w, t, n, yes),
           yes => io[w][t].op = "validate" \/ (MatchesNext(w, io[w][t].tok, n) /\ key'[n].set = now)
    PROVE  /\ CallStep(w, t)
           /\ \A v \in Workers, u \in Tasks : <<v, u>> # <<w, t>> => io'[v][u] = io[v][u]
  <1> DEFINE c == io[w][t]
             d == [c EXCEPT !.todo = c.todo \ {n},
                            !.yes = IF yes THEN c.yes \cup {n} ELSE c.yes]
  <1>1. io' = [io EXCEPT ![w][t] = Settled(d)]
    BY DEF Answer
  <1>2. c \in Call
    BY DEF TypeOK
  <1>3. /\ d.op = c.op /\ d.tok = c.tok /\ d.started = c.started
        /\ \A m \in d.yes : m \in c.yes \/ (yes /\ m = n)
    BY <1>2 DEF Call
  <1>4. Settled(d) \in {d, Idle}
    BY DEF Settled
  <1> HIDE DEF d
  <1>5. io'[w][t] = Settled(d)
    BY <1>1 DEF TypeOK
  <1>6. \A v \in Workers, u \in Tasks : <<v, u>> # <<w, t>> => io'[v][u] = io[v][u]
    BY <1>1 DEF TypeOK
  <1>7. CallStep(w, t)
    BY <1>3, <1>4, <1>5 DEF CallStep, Answers
  <1> QED  BY <1>6, <1>7

LEMMA ReturnStep ==
    ASSUME TypeOK, NEW w \in Workers, NEW t \in Tasks, Return(w, t)
    PROVE  /\ io'[w][t] = Idle
           /\ \A v \in Workers, u \in Tasks : <<v, u>> # <<w, t>> => io'[v][u] = io[v][u]
  BY DEF Return, TypeOK

LEMMA AbandonedStep ==
    ASSUME NEW w \in Workers, NEW t \in Tasks, NEW S, NEW c \in Abandoned(w, t, S)
    PROVE  /\ c.worker = w /\ io[w][t] # Idle
           /\ io[w][t].op = c.op /\ io[w][t].tok = c.tok
  BY DEF Abandoned

\* A step that leaves the dictionaries, the runs and the calls of a worker alone.
LEMMA IdleWorker ==
    ASSUME NEW w \in Workers, lease_tokens'[w] = lease_tokens[w], run'[w] = run[w],
           confirmed'[w] = confirmed[w], \A t \in Tasks : CallStep(w, t)
    PROVE  WorkerStep(w)
  BY DEF WorkerStep, LeaseStep, RunStep

\* What a node says yes to, it has done.
LEMMA YesIsDone ==
    ASSUME TypeOK, NEW w \in Workers, NEW op \in Ops, NEW tok \in Nat, NEW n \in Nodes,
           key' = [key EXCEPT ![n] = Script(w, op, tok, n)], SaysYes(w, op, tok, n)
    PROVE  op = "validate" \/ (MatchesNext(w, tok, n) /\ key'[n].set = now)
  <1>1. CASE op = "acquire" /\ key[n] = NoKey
    <2>1. key'[n] = [worker |-> w, token |-> tok, set |-> now]
      BY <1>1 DEF Script, TypeOK
    <2>2. key'[n] \in Key
      BY <2>1 DEF Key, TypeOK
    <2> QED  BY <2>1, <2>2, RedlockAssumption DEF MatchesNext
  <1>2. CASE op = "renew" /\ Matches(w, tok, n)
    <2>1. key[n] \in Key
      BY <1>2 DEF Matches, TypeOK
    <2>2. key'[n] = [key[n] EXCEPT !.set = now]
      BY <1>2 DEF Script, TypeOK
    <2>3. key'[n] \in Key /\ key'[n].worker = w /\ key'[n].token = tok /\ key'[n].set = now
      BY <1>2, <2>1, <2>2 DEF Key, TypeOK, Matches
    <2> QED  BY <2>3, RedlockAssumption DEF MatchesNext
  <1> QED  BY <1>1, <1>2 DEF SaysYes

LEMMA Step ==
    ASSUME TypeOK, [Next]_vars
    PROVE  StepFacts
  <1> DEFINE Others(w) ==
               \A v \in Workers : v # w =>
                  /\ lease_tokens'[v] = lease_tokens[v] /\ run'[v] = run[v]
                  /\ confirmed'[v] = confirmed[v] /\ io'[v] = io[v]
  <1>a. ASSUME NEW w \in Workers, Others(w)
        PROVE  \A v \in Workers : v # w => WorkerStep(v)
    BY <1>a, IdleWorker DEF CallStep
  <1>b. ASSUME UNCHANGED <<lease_tokens, run, confirmed, io>>
        PROVE  \A v \in Workers : WorkerStep(v)
    BY <1>b, IdleWorker DEF CallStep
  <1>c. ASSUME UNCHANGED <<lease_tokens, run, confirmed>>,
               NEW w \in Workers, NEW t \in Tasks, CallStep(w, t),
               \A v \in Workers, u \in Tasks : <<v, u>> # <<w, t>> => io'[v][u] = io[v][u]
        PROVE  \A v \in Workers : WorkerStep(v)
    BY <1>c, IdleWorker DEF CallStep
  <1>d. late' = late => LateStep
    BY DEF LateStep
  <1>1. CASE UNCHANGED vars
    BY <1>1, <1>b, <1>d DEF StepFacts, vars, nodeVars, leaseVars, history
  <1>2. ASSUME NEW w \in Workers, NEW t \in Tasks, NEW n \in Nodes, Execute(w, t, n)
        PROVE  StepFacts
    <2> DEFINE c == io[w][t]
    <2>1. c \in Call
      BY <1>2 DEF Execute, TypeOK
    <2>2. c.op \in Ops /\ c.tok \in Nat
      BY <2>1 DEF Call
    <2>3. SaysYes(w, c.op, c.tok, n) \in BOOLEAN
      BY DEF SaysYes, Matches
    <2>4. SaysYes(w, c.op, c.tok, n) =>
             c.op = "validate" \/ (MatchesNext(w, c.tok, n) /\ key'[n].set = now)
      BY <1>2, <2>2, YesIsDone DEF Execute
    <2>5. /\ CallStep(w, t)
          /\ \A v \in Workers, u \in Tasks : <<v, u>> # <<w, t>> => io'[v][u] = io[v][u]
      BY <1>2, <2>3, <2>4, AnswerStep DEF Execute
    <2> QED  BY <1>2, <2>5, <1>c, <1>d DEF StepFacts, Execute, leaseVars, history
  <1>3. ASSUME NEW w \in Workers, NEW t \in Tasks, NEW n \in Nodes, NodeError(w, t, n)
        PROVE  StepFacts
    <2>1. /\ CallStep(w, t)
          /\ \A v \in Workers, u \in Tasks : <<v, u>> # <<w, t>> => io'[v][u] = io[v][u]
      BY <1>3, AnswerStep DEF NodeError
    <2>2. LateStep
      BY <1>3, AbandonedStep DEF NodeError, LateStep
    <2> QED  BY <1>3, <2>1, <2>2, <1>c DEF StepFacts, NodeError, nodeVars, leaseVars, history
  <1>4. ASSUME NEW c \in late, ExecuteLate(c)
        PROVE  StepFacts
    <2>1. LateStep
      BY <1>4 DEF ExecuteLate, LateStep
    <2> QED  BY <1>4, <2>1, <1>b DEF StepFacts, ExecuteLate, leaseVars, history
  <1>5. ASSUME NEW n \in Nodes, Expire(n)
        PROVE  StepFacts
    BY <1>5, <1>b, <1>d DEF StepFacts, Expire, leaseVars, history
  <1>6. CASE Tick
    BY <1>6, <1>b, <1>d DEF StepFacts, Tick, nodeVars, leaseVars, history
  <1>7. ASSUME NEW w \in Workers, Reserve(w)
        PROVE  StepFacts
    <2>1. \A d : d.op = "acquire" /\ d.tok = fence + 1 => TokenOf(w, "runner", d)
      BY <1>7 DEF Reserve, TokenOf
    <2>2. /\ CallStep(w, "runner")
          /\ \A v \in Workers, u \in Tasks : <<v, u>> # <<w, "runner">> => io'[v][u] = io[v][u]
      BY <1>7, <2>1, SendStep DEF Reserve, Tasks
    <2> QED  BY <1>7, <2>2, <1>c, <1>d DEF StepFacts, Reserve, leaseVars, history, Tasks
  <1>8. ASSUME NEW w \in Workers, ReserveFails(w)
        PROVE  StepFacts
    BY <1>8, <1>b, <1>d DEF StepFacts, ReserveFails, leaseVars, history
  <1>9. ASSUME NEW w \in Workers, AcquireReturn(w)
        PROVE  StepFacts
    <2> DEFINE c == io[w]["runner"]
    <2>1. c \in Call /\ c # Idle /\ c.op = "acquire"
      BY <1>9, RedlockAssumption DEF AcquireReturn, Answered, TypeOK, Tasks
    <2>2. CASE /\ Cardinality(c.yes) >= quorum /\ Valid(c) /\ Return(w, "runner")
               /\ lease_tokens' = [lease_tokens EXCEPT ![w] = c.tok]
               /\ run' = [run EXCEPT ![w] = c.tok]
               /\ confirmed' = [confirmed EXCEPT ![w] = c.started + Validity]
      <3>1. c.started \in Nat /\ c.tok \in Nat
        BY <2>1 DEF Call
      <3>2. now < c.started + Validity
        BY <2>2, <3>1, ConstantFacts DEF Valid, TypeOK
      <3>3. /\ lease_tokens'[w] = c.tok /\ run'[w] = c.tok
            /\ confirmed'[w] = c.started + Validity
        BY <2>2 DEF TypeOK
      <3>4. io'[w]["runner"] = Idle /\ io'[w]["loop"] = io[w]["loop"]
        BY <2>2, ReturnStep DEF Tasks
      <3>5. LeaseStep(w) /\ \A t \in Tasks : CallStep(w, t)
        BY <2>1, <3>3, <3>4 DEF LeaseStep, CallStep, Tasks
      <3>6. Grants(w)
        BY <1>9, <2>1, <2>2, <3>2, <3>3, <3>4 DEF Grants, Covers, AcquireReturn, nodeVars
      <3>7. Others(w)
        BY <2>2 DEF Return, TypeOK
      <3> QED  BY <1>9, <3>5, <3>6, <3>7, <1>a, <1>d
               DEF StepFacts, WorkerStep, RunStep, AcquireReturn, nodeVars
    <2>3. CASE Send(w, "runner", "release", c.tok, c.yes) /\ UNCHANGED <<leaseVars, run, history>>
      <3>1. \A d : d.op = "release" /\ d.tok = c.tok => TokenOf(w, "runner", d)
        BY <2>1 DEF TokenOf
      <3>2. /\ CallStep(w, "runner")
            /\ \A v \in Workers, u \in Tasks : <<v, u>> # <<w, "runner">> => io'[v][u] = io[v][u]
        BY <2>3, <3>1, SendStep DEF Tasks
      <3> QED  BY <1>9, <2>3, <3>2, <1>c, <1>d
               DEF StepFacts, AcquireReturn, nodeVars, leaseVars, history, Tasks
    <2> QED  BY <1>9, <2>2, <2>3 DEF AcquireReturn
  <1>10. ASSUME NEW w \in Workers, NEW t \in Tasks, Renew(w, t)
         PROVE  StepFacts
    <2>1. \A d : d.op = "renew" /\ d.tok = lease_tokens[w] => TokenOf(w, t, d)
      BY DEF TokenOf
    <2>2. /\ CallStep(w, t)
          /\ \A v \in Workers, u \in Tasks : <<v, u>> # <<w, t>> => io'[v][u] = io[v][u]
      BY <1>10, <2>1, SendStep DEF Renew
    <2> QED  BY <1>10, <2>2, <1>c, <1>d DEF StepFacts, Renew, nodeVars, leaseVars, history
  <1>11. ASSUME NEW w \in Workers, NEW t \in Tasks, RenewReturn(w, t)
         PROVE  StepFacts
    <2> DEFINE c == io[w][t]
               covers == run[w] = c.tok /\ confirmed[w] # 0
               until == c.started + Validity
    <2>1. c \in Call /\ c # Idle /\ c.op = "renew"
      BY <1>11, RedlockAssumption DEF RenewReturn, Answered, TypeOK
    <2>2. c.started \in Nat /\ c.tok \in Nat
      BY <2>1 DEF Call
    <2>3. UNCHANGED <<now, fence, key, late, run>>
      BY <1>11 DEF RenewReturn, nodeVars
    <2>4. CASE /\ Cardinality(c.yes) >= quorum /\ Valid(c) /\ Return(w, t)
               /\ lease_tokens' = [lease_tokens EXCEPT ![w] = c.tok]
               /\ confirmed' = [confirmed EXCEPT ![w] =
                                  IF covers /\ until > confirmed[w] THEN until ELSE confirmed[w]]
      <3>1. now < c.started + Validity
        BY <2>2, <2>4, ConstantFacts DEF Valid, TypeOK
      <3>2. /\ lease_tokens'[w] = c.tok
            /\ confirmed'[w] = IF covers /\ until > confirmed[w] THEN until ELSE confirmed[w]
        BY <2>4 DEF TypeOK
      <3>3. io'[w][t] = Idle /\ \A u \in Tasks : u # t => io'[w][u] = io[w][u]
        BY <2>4, ReturnStep
      <3>4. LeaseStep(w) /\ \A u \in Tasks : CallStep(w, u)
        BY <2>1, <3>2, <3>3 DEF LeaseStep, CallStep
      <3>5. RunStep(w)
        BY <2>1, <2>3, <2>4, <3>1, <3>2 DEF RunStep, Renews, Covers
      <3>6. Others(w)
        BY <2>3, <2>4 DEF Return, TypeOK
      <3> QED  BY <2>3, <3>4, <3>5, <3>6, <1>a, <1>d DEF StepFacts, WorkerStep
    <2>5. CASE /\ Send(w, t, "undo_renew", c.tok, c.yes)
               /\ confirmed' = [confirmed EXCEPT ![w] = IF covers THEN 0 ELSE confirmed[w]]
               /\ UNCHANGED leaseVars
      <3>1. confirmed'[w] = IF covers THEN 0 ELSE confirmed[w]
        BY <2>5 DEF TypeOK
      <3>2. \A d : d.op = "undo_renew" /\ d.tok = c.tok => TokenOf(w, t, d)
        BY <2>1, <3>1 DEF TokenOf
      <3>3. /\ CallStep(w, t)
            /\ \A v \in Workers, u \in Tasks : <<v, u>> # <<w, t>> => io'[v][u] = io[v][u]
        BY <2>5, <3>2, SendStep
      <3>4. WorkerStep(w)
        BY <2>3, <2>5, <3>1, <3>3 DEF WorkerStep, CallStep, LeaseStep, RunStep, leaseVars
      <3>5. Others(w)
        BY <2>3, <2>5 DEF Send, TypeOK, leaseVars
      <3> QED  BY <2>3, <3>4, <3>5, <1>a, <1>d DEF StepFacts
    <2> QED  BY <1>11, <2>4, <2>5 DEF RenewReturn
  <1>12. ASSUME NEW w \in Workers, NEW t \in Tasks, UndoRenewReturn(w, t)
         PROVE  StepFacts
    <2>1. io'[w][t] = Idle /\ \A u \in Tasks : u # t => io'[w][u] = io[w][u]
      BY <1>12, ReturnStep DEF UndoRenewReturn
    <2>2. WorkerStep(w)
      BY <1>12, <2>1
         DEF UndoRenewReturn, Discard, WorkerStep, CallStep, LeaseStep, RunStep, TypeOK, history
    <2>3. Others(w)
      BY <1>12 DEF UndoRenewReturn, Discard, Return, TypeOK, history
    <2> QED  BY <1>12, <2>2, <2>3, <1>a, <1>d DEF StepFacts, UndoRenewReturn, nodeVars
  <1>13. ASSUME NEW w \in Workers, RenewDeadline(w)
         PROVE  StepFacts
    <2>1. io'[w]["loop"] = Idle /\ \A u \in Tasks : u # "loop" => io'[w][u] = io[w][u]
      BY <1>13, ReturnStep DEF RenewDeadline, Tasks
    <2>2. WorkerStep(w)
      BY <1>13, <2>1
         DEF RenewDeadline, Discard, WorkerStep, CallStep, LeaseStep, RunStep, TypeOK, history
    <2>3. Others(w)
      BY <1>13 DEF RenewDeadline, Discard, Return, TypeOK, history
    <2>4. LateStep
      BY <1>13, AbandonedStep DEF RenewDeadline, LateStep, Tasks
    <2> QED  BY <1>13, <2>2, <2>3, <2>4, <1>a DEF StepFacts, RenewDeadline, nodeVars
  <1>14. ASSUME NEW w \in Workers, Validate(w)
         PROVE  StepFacts
    <2>1. \A d : d.op = "validate" /\ d.tok = run[w] => TokenOf(w, "runner", d)
      BY DEF TokenOf
    <2>2. /\ CallStep(w, "runner")
          /\ \A v \in Workers, u \in Tasks : <<v, u>> # <<w, "runner">> => io'[v][u] = io[v][u]
      BY <1>14, <2>1, SendStep DEF Validate, Tasks
    <2> QED  BY <1>14, <2>2, <1>c, <1>d DEF StepFacts, Validate, nodeVars, leaseVars, history, Tasks
  <1>15. ASSUME NEW w \in Workers, ValidateReturn(w)
         PROVE  StepFacts
    <2>1. io'[w]["runner"] = Idle /\ \A u \in Tasks : u # "runner" => io'[w][u] = io[w][u]
      BY <1>15, ReturnStep DEF ValidateReturn, Tasks
    <2>2. lease_tokens'[w] \in {0, lease_tokens[w]}
      BY <1>15 DEF ValidateReturn, Discard, TypeOK, leaseVars
    <2>3. WorkerStep(w)
      BY <1>15, <2>1, <2>2 DEF ValidateReturn, WorkerStep, CallStep, LeaseStep, RunStep, history
    <2>4. Others(w)
      BY <1>15 DEF ValidateReturn, Discard, Return, TypeOK, leaseVars, history
    <2> QED  BY <1>15, <2>3, <2>4, <1>a, <1>d DEF StepFacts, ValidateReturn, nodeVars
  <1>16. ASSUME NEW w \in Workers, Release(w)
         PROVE  StepFacts
    <2>1. lease_tokens'[w] = 0 /\ run'[w] = 0 /\ confirmed'[w] = 0
      BY <1>16 DEF Release, Discard, TypeOK
    <2>2. \A d : d.op = "release" /\ d.tok = lease_tokens[w] => TokenOf(w, "runner", d)
      BY <2>1 DEF TokenOf
    <2>3. /\ CallStep(w, "runner")
          /\ \A v \in Workers, u \in Tasks : <<v, u>> # <<w, "runner">> => io'[v][u] = io[v][u]
      BY <1>16, <2>2, SendStep DEF Release, Tasks, CallStep
    <2>4. WorkerStep(w)
      BY <2>1, <2>3 DEF WorkerStep, CallStep, LeaseStep, RunStep
    <2>5. Others(w)
      BY <1>16 DEF Release, Discard, Send, TypeOK
    <2> QED  BY <1>16, <2>4, <2>5, <1>a, <1>d DEF StepFacts, Release, nodeVars
  <1>17. ASSUME NEW w \in Workers, Crash(w)
         PROVE  StepFacts
    <2>1. lease_tokens'[w] = 0 /\ run'[w] = 0 /\ confirmed'[w] = 0
      BY <1>17 DEF Crash, Discard, TypeOK
    <2>2. \A t \in Tasks : io'[w][t] = Idle
      BY <1>17 DEF Crash, TypeOK
    <2>3. WorkerStep(w)
      BY <2>1, <2>2 DEF WorkerStep, CallStep, LeaseStep, RunStep
    <2>4. Others(w)
      BY <1>17 DEF Crash, Discard, TypeOK
    <2>5. LateStep
      BY <1>17, AbandonedStep DEF Crash, LateStep, Tasks
    <2> QED  BY <1>17, <2>3, <2>4, <2>5, <1>a DEF StepFacts, Crash, nodeVars
  <1> QED  BY <1>1, <1>2, <1>3, <1>4, <1>5, <1>6, <1>7, <1>8, <1>9, <1>10, <1>11, <1>12,
              <1>13, <1>14, <1>15, <1>16, <1>17 DEF Next, RunnerStep, TaskStep, Tasks

-----------------------------------------------------------------------------
(* The invariant.                                                          *)

\* Keys change on the nodes only.
LEMMA KeyActions ==
    ASSUME [Next]_vars
    PROVE  \/ key' = key
           \/ \E w \in Workers, t \in Tasks, n \in Nodes : Execute(w, t, n)
           \/ \E c \in late : ExecuteLate(c)
           \/ \E n \in Nodes : Expire(n)
  <1>1. ASSUME NEW w \in Workers, RunnerStep(w) \/ RenewDeadline(w) \/ Crash(w)
        PROVE  key' = key
    BY <1>1 DEF RunnerStep, Reserve, ReserveFails, AcquireReturn, Validate, ValidateReturn,
                Release, RenewDeadline, Crash, nodeVars
  <1>2. ASSUME NEW w \in Workers, NEW t \in Tasks, TaskStep(w, t)
        PROVE  key' = key \/ \E n \in Nodes : Execute(w, t, n)
    BY <1>2 DEF TaskStep, Renew, RenewReturn, UndoRenewReturn, NodeError, nodeVars
  <1>3. CASE Tick \/ UNCHANGED vars
    BY <1>3 DEF Tick, vars, nodeVars
  <1> QED  BY <1>1, <1>2, <1>3 DEF Next

\* A lease that nobody releases stays on its node until its time is over.
LEMMA LeaseStays ==
    ASSUME TypeOK, PastInv, [Next]_vars, NEW w \in Workers, NEW tok \in Nat, NEW n \in Nodes,
           NEW s \in Int, now < s + Validity, Holds(w, tok, n, s), ~Releasing(w, tok)
    PROVE  MatchesNext(w, tok, n) /\ key'[n].set >= s
  <1>1. /\ key[n] \in Key /\ key[n] # NoKey /\ key[n].worker = w /\ key[n].token = tok
        /\ key[n].set >= s /\ key[n].set <= now /\ key[n].set \in Nat /\ now \in Nat
    BY DEF Holds, Matches, PastInv, TypeOK, Key
  <1>2. CASE key' = key
    BY <1>1, <1>2 DEF MatchesNext
  <1>3. ASSUME NEW v \in Workers, NEW op, NEW k \in Nat, NEW m \in Nodes,
               key' = [key EXCEPT ![m] = Script(v, op, k, m)],
               ~(op \in Releases /\ v = w /\ k = tok)
        PROVE  MatchesNext(w, tok, n) /\ key'[n].set >= s
    <2>1. CASE m # n
      BY <1>1, <1>3, <2>1 DEF MatchesNext, TypeOK
    <2>2. CASE m = n
      <3>1. key'[n] = Script(v, op, k, n)
        BY <1>3, <2>2 DEF TypeOK
      <3> DEFINE r == [key[n] EXCEPT !.set = now]
      <3>2. Script(v, op, k, n) \in {key[n], r}
        BY <1>1, <1>3 DEF Script, Matches, Releases
      <3>3. r \in Key /\ r.worker = w /\ r.token = tok /\ r.set = now
        BY <1>1 DEF Key
      <3> HIDE DEF r
      <3> QED  BY <1>1, <3>1, <3>2, <3>3, RedlockAssumption DEF MatchesNext
    <2> QED  BY <2>1, <2>2
  <1>4. ASSUME NEW v \in Workers, NEW t \in Tasks, NEW m \in Nodes, Execute(v, t, m)
        PROVE  MatchesNext(w, tok, n) /\ key'[n].set >= s
    <2>1. io[v][t] \in Call /\ io[v][t] # Idle
      BY <1>4 DEF Execute, TypeOK
    <2>2. io[v][t].tok \in Nat
      BY <2>1 DEF Call
    <2>3. ~(io[v][t].op \in Releases /\ v = w /\ io[v][t].tok = tok)
      BY <2>1 DEF Releasing
    <2> QED  BY <1>3, <1>4, <2>2, <2>3 DEF Execute
  <1>5. ASSUME NEW c \in late, ExecuteLate(c)
        PROVE  MatchesNext(w, tok, n) /\ key'[n].set >= s
    <2>1. c \in LateCall
      BY DEF TypeOK, LateCall
    <2>2. c.worker \in Workers /\ c.tok \in Nat /\ c.node \in Nodes
      BY <2>1 DEF LateCall
    <2>3. ~(c.op \in Releases /\ c.worker = w /\ c.tok = tok)
      BY DEF Releasing
    <2> QED  BY <1>3, <1>5, <2>2, <2>3 DEF ExecuteLate
  <1>6. ASSUME NEW m \in Nodes, Expire(m)
        PROVE  MatchesNext(w, tok, n) /\ key'[n].set >= s
    <2>1. m # n
      BY <1>1, <1>6, ConstantFacts DEF Expire
    <2> QED  BY <1>1, <1>6, <2>1 DEF Expire, MatchesNext, TypeOK
  <1> QED  BY <1>2, <1>4, <1>5, <1>6, KeyActions

\* Every key after a step was there before, or is set now.
LEMMA SetNow ==
    ASSUME TypeOK, [Next]_vars, NEW n \in Nodes
    PROVE  key'[n] = NoKey \/ key'[n] = key[n] \/ key'[n].set = now
  <1>1. ASSUME NEW v, NEW op, NEW k, NEW m \in Nodes,
               key' = [key EXCEPT ![m] = Script(v, op, k, m)]
        PROVE  key'[n] = NoKey \/ key'[n] = key[n] \/ key'[n].set = now
    <2>1. key[n] \in Key => [key[n] EXCEPT !.set = now].set = now
      BY DEF Key
    <2>2. key[n] # NoKey => key[n] \in Key
      BY DEF TypeOK
    <2> QED  BY <1>1, <2>1, <2>2 DEF Script, Matches, TypeOK
  <1>2. \/ key' = key
        \/ \E v, op, k : \E m \in Nodes : key' = [key EXCEPT ![m] = Script(v, op, k, m)]
        \/ \E m \in Nodes : key' = [key EXCEPT ![m] = NoKey]
    <2>1. ASSUME NEW v \in Workers, NEW t \in Tasks, NEW m \in Nodes, Execute(v, t, m)
          PROVE  key' = [key EXCEPT ![m] = Script(v, io[v][t].op, io[v][t].tok, m)]
      BY <2>1 DEF Execute
    <2>2. ASSUME NEW c \in late, ExecuteLate(c)
          PROVE  /\ c.node \in Nodes
                 /\ key' = [key EXCEPT ![c.node] = Script(c.worker, c.op, c.tok, c.node)]
      BY <2>2 DEF ExecuteLate, TypeOK
    <2>3. ASSUME NEW m \in Nodes, Expire(m)
          PROVE  key' = [key EXCEPT ![m] = NoKey]
      BY <2>3 DEF Expire
    <2> QED  BY <2>1, <2>2, <2>3, KeyActions
  <1> QED  BY <1>1, <1>2 DEF TypeOK

LEMMA PastStep ==
    ASSUME TypeOK, TypeOK', PastInv, [Next]_vars, StepFacts
    PROVE  PastInv'
  <1>1. now \in Nat /\ now' \in Nat /\ now <= now'
    BY DEF StepFacts, TypeOK
  <1>2. ASSUME NEW n \in Nodes, key'[n] # NoKey
        PROVE  key'[n].set <= now'
    <2>1. key'[n] \in Key
      BY <1>2 DEF TypeOK
    <2>2. key'[n].set \in Nat
      BY <2>1 DEF Key
    <2> QED  BY <1>1, <1>2, <2>2, SetNow DEF PastInv
  <1>3. ASSUME NEW w \in Workers, NEW t \in Tasks, io'[w][t] # Idle
        PROVE  io'[w][t].started <= now'
    <2>1. io'[w][t] \in Call
      BY <1>3 DEF TypeOK
    <2>2. io'[w][t].started \in Nat
      BY <2>1 DEF Call
    <2>3. CallStep(w, t)
      BY DEF StepFacts, WorkerStep
    <2> QED  BY <1>1, <1>3, <2>2, <2>3 DEF CallStep, Answers, Sends, PastInv
  <1> QED  BY <1>2, <1>3 DEF PastInv

LEMMA TokenStep ==
    ASSUME TypeOK, TypeOK', TokenInv, StepFacts
    PROVE  TokenInv'
  <1>1. fence \in Nat /\ fence' \in Nat /\ fence <= fence'
    BY DEF StepFacts, TypeOK
  <1>2. ASSUME NEW w \in Workers
        PROVE  lease_tokens'[w] <= fence' /\ run'[w] <= fence'
    <2>1. LeaseStep(w) /\ RunStep(w)
      BY DEF StepFacts, WorkerStep
    <2>2. \A t \in Tasks : io[w][t] # Idle => io[w][t].tok <= fence /\ io[w][t].tok \in Nat
      BY DEF TokenInv, TypeOK, Call
    <2>3. lease_tokens[w] \in Nat /\ run[w] \in Nat /\ lease_tokens[w] <= fence /\ run[w] <= fence
      BY DEF TokenInv, TypeOK
    <2>4. lease_tokens'[w] <= fence'
      BY <1>1, <2>1, <2>2, <2>3 DEF LeaseStep, Tasks
    <2>5. run'[w] <= fence'
      BY <1>1, <2>1, <2>2, <2>3 DEF RunStep, Grants, Renews, Covers, Tasks
    <2> QED  BY <2>4, <2>5
  <1>3. ASSUME NEW w \in Workers, NEW t \in Tasks, io'[w][t] # Idle
        PROVE  io'[w][t].tok <= fence'
    <2>1. CallStep(w, t)
      BY DEF StepFacts, WorkerStep
    <2>2. io[w][t] # Idle => io[w][t].tok <= fence /\ io[w][t].tok \in Nat
      BY DEF TokenInv, TypeOK, Call
    <2>3. lease_tokens[w] \in Nat /\ run[w] \in Nat /\ lease_tokens[w] <= fence /\ run[w] <= fence
      BY DEF TokenInv, TypeOK
    <2> QED  BY <1>1, <1>3, <2>1, <2>2, <2>3 DEF CallStep, Answers, Sends, TokenOf
  <1>4. ASSUME NEW c \in late'
        PROVE  c.tok <= fence'
    <2>1. c \in LateCall
      BY DEF TypeOK, LateCall
    <2>2. c.worker \in Workers /\ c.tok \in Nat
      BY <2>1 DEF LateCall
    <2>3. c.tok <= fence
      BY <2>2 DEF StepFacts, LateStep, TokenInv
    <2> QED  BY <1>1, <2>2, <2>3
  <1> QED  BY <1>2, <1>3, <1>4 DEF TokenInv

LEMMA LoopStep ==
    ASSUME LoopInv, StepFacts
    PROVE  LoopInv'
  <1>1. \A w \in Workers : CallStep(w, "loop")
    BY DEF StepFacts, WorkerStep, Tasks
  <1> QED  BY <1>1 DEF LoopInv, CallStep, Answers, Sends, TokenOf

\* What may be released next is being released, comes from a failed acquisition or
\* renewal, or is the lease of a run that ends.
LEMMA NewRelease ==
    ASSUME TypeOK, TypeOK', StepFacts, NEW w \in Workers, NEW tok \in Nat, ReleasingNext(w, tok)
    PROVE  \/ Releasing(w, tok)
           \/ /\ io[w]["runner"] # Idle /\ io[w]["runner"].op = "acquire"
              /\ io[w]["runner"].tok = tok
              /\ io'[w]["runner"] # Idle /\ io'[w]["runner"].op = "release"
           \/ /\ lease_tokens[w] = tok /\ confirmed'[w] = 0
              /\ io'[w]["runner"] # Idle /\ io'[w]["runner"].op = "release"
           \/ \E t \in Tasks : /\ io[w][t] # Idle /\ io[w][t].op = "renew" /\ io[w][t].tok = tok
                               /\ io'[w][t] # Idle /\ io'[w][t].op = "undo_renew"
                               /\ tok = run[w] => confirmed'[w] = 0
  <1>1. CASE \E c \in late' : c.worker = w /\ c.op \in Releases /\ c.tok = tok
    BY <1>1 DEF StepFacts, LateStep, Releasing
  <1>2. ASSUME NEW t \in Tasks, io'[w][t] # Idle, io'[w][t].op \in Releases, io'[w][t].tok = tok
        PROVE  \/ Releasing(w, tok)
               \/ /\ io[w]["runner"] # Idle /\ io[w]["runner"].op = "acquire"
                  /\ io[w]["runner"].tok = tok
                  /\ io'[w]["runner"] # Idle /\ io'[w]["runner"].op = "release"
               \/ /\ lease_tokens[w] = tok /\ confirmed'[w] = 0
                  /\ io'[w]["runner"] # Idle /\ io'[w]["runner"].op = "release"
               \/ /\ io[w][t] # Idle /\ io[w][t].op = "renew" /\ io[w][t].tok = tok
                  /\ io'[w][t] # Idle /\ io'[w][t].op = "undo_renew"
                  /\ tok = run[w] => confirmed'[w] = 0
    <2>1. CallStep(w, t)
      BY DEF StepFacts, WorkerStep
    <2>2. CASE io'[w][t] = io[w][t] \/ Answers(w, t)
      BY <1>2, <2>2 DEF Answers, Releasing
    <2>3. CASE Sends(w, t)
      BY <1>2, <2>3 DEF Sends, TokenOf, Releases
    <2> QED  BY <1>2, <2>1, <2>2, <2>3 DEF CallStep
  <1>3. \/ \E c \in late' : c.worker = w /\ c.op \in Releases /\ c.tok = tok
        \/ \E t \in Tasks : io'[w][t] # Idle /\ io'[w][t].op \in Releases /\ io'[w][t].tok = tok
    BY DEF ReleasingNext
  <1> QED  BY <1>1, <1>2, <1>3

\* Answers keep holding, for a lease that nobody releases.
LEMMA AnswersStay ==
    ASSUME TypeOK, TypeOK', PastInv, [Next]_vars, StepFacts,
           NEW w \in Workers, NEW t \in Tasks,
           io[w][t] # Idle, io[w][t].op # "validate", AnswersHold(w, io[w][t]),
           ~Releasing(w, io[w][t].tok),
           io'[w][t] = io[w][t] \/ Answers(w, t)
    PROVE  AnswersHold(w, io[w][t])'
  <1> DEFINE c == io[w][t]
             d == io'[w][t]
  <1>1. c \in Call /\ c.tok \in Nat /\ c.started \in Nat /\ c.yes \subseteq Nodes
    BY DEF TypeOK, Call
  <1>2. d # Idle /\ d \in Call
    BY DEF Answers, TypeOK
  <1>3. d.tok = c.tok /\ d.started = c.started /\ d.yes \subseteq Nodes
    BY <1>2 DEF Answers, Call
  <1>4. now \in Nat /\ now' \in Nat /\ now <= now'
    BY DEF TypeOK, StepFacts
  <1>5. SUFFICES ASSUME now' < d.started + Validity, NEW n \in d.yes
                 PROVE  MatchesNext(w, d.tok, n) /\ key'[n].set >= d.started
    BY DEF AnswersHold, Holds, Matches, MatchesNext
  <1>6. now < c.started + Validity /\ n \in Nodes
    BY <1>1, <1>3, <1>4, <1>5, ConstantFacts
  <1>7. CASE n \in c.yes
    <2>1. Holds(w, c.tok, n, c.started)
      BY <1>6, <1>7 DEF AnswersHold
    <2>2. MatchesNext(w, c.tok, n) /\ key'[n].set >= c.started
      BY <1>1, <1>6, <2>1, LeaseStays
    <2> QED  BY <1>3, <2>2
  <1>8. CASE n \notin c.yes
    <2>1. MatchesNext(w, c.tok, n) /\ key'[n].set = now
      BY <1>5, <1>8 DEF Answers
    <2>2. c.started <= now
      BY DEF PastInv
    <2> QED  BY <1>1, <1>3, <1>4, <2>1, <2>2
  <1> QED  BY <1>7, <1>8

LEMMA AcquireStep ==
    ASSUME IInv, TypeOK', [Next]_vars, StepFacts
    PROVE  AcquireInv'
  <1> USE DEF IInv
  <1> SUFFICES ASSUME NEW w \in Workers, io'[w]["runner"] # Idle,
                      io'[w]["runner"].op = "acquire"
               PROVE  /\ io'[w]["runner"].tok > 0
                      /\ io'[w]["runner"].tok # lease_tokens'[w]
                      /\ io'[w]["runner"].tok # run'[w]
                      /\ io'[w]["loop"] # Idle => io'[w]["loop"].tok # io'[w]["runner"].tok
                      /\ ~ReleasingNext(w, io'[w]["runner"].tok)
                      /\ AnswersHold(w, io[w]["runner"])'
    BY DEF AcquireInv, Releasing, ReleasingNext
  <1> DEFINE c == io[w]["runner"]
             d == io'[w]["runner"]
  <1>1. d \in Call /\ d.tok \in Nat
    BY DEF TypeOK, Call, Tasks
  <1>2. CallStep(w, "runner") /\ CallStep(w, "loop") /\ LeaseStep(w) /\ RunStep(w)
    BY DEF StepFacts, WorkerStep, Tasks
  <1>3. /\ fence \in Nat /\ lease_tokens[w] \in Nat /\ run[w] \in Nat
        /\ lease_tokens[w] <= fence /\ run[w] <= fence
    BY DEF TokenInv, TypeOK
  <1>4. \A t \in Tasks : io[w][t] # Idle => io[w][t].tok <= fence /\ io[w][t].tok \in Nat
    BY DEF TokenInv, TypeOK, Call
  <1>5. io'[w]["loop"] # Idle =>
           \/ io[w]["loop"] # Idle /\ io'[w]["loop"].tok = io[w]["loop"].tok
           \/ io'[w]["loop"].tok = lease_tokens[w]
    BY <1>2 DEF CallStep, Answers, Sends, TokenOf
  <1>6. CASE c # Idle /\ c.op = "acquire" /\ (d = c \/ Answers(w, "runner"))
    <2>1. d.tok = c.tok
      BY <1>6 DEF Answers
    <2>2. /\ c.tok > 0 /\ c.tok # lease_tokens[w] /\ c.tok # run[w]
          /\ io[w]["loop"] # Idle => io[w]["loop"].tok # c.tok
          /\ ~Releasing(w, c.tok)
          /\ AnswersHold(w, c)
      BY <1>6 DEF AcquireInv
    <2>3. c.tok # lease_tokens'[w]
      BY <1>2, <1>6, <2>2 DEF LeaseStep, Tasks
    <2>4. c.tok # run'[w]
      BY <1>2, <2>2 DEF RunStep, Grants, Renews
    <2>5. ~ReleasingNext(w, c.tok)
      BY <1>1, <1>6, <2>1, <2>2, NewRelease DEF Tasks
    <2>6. AnswersHold(w, io[w]["runner"])'
      BY <1>6, <2>2, AnswersStay DEF Tasks
    <2> QED  BY <1>5, <2>1, <2>2, <2>3, <2>4, <2>5, <2>6
  <1>7. CASE Sends(w, "runner")
    <2>1. d.tok = fence + 1 /\ d.yes = {}
      BY <1>7 DEF Sends, TokenOf
    <2>2. d.tok # lease_tokens'[w]
      BY <1>2, <1>3, <1>4, <2>1 DEF LeaseStep, Tasks
    <2>3. d.tok # run'[w]
      BY <1>2, <1>3, <2>1 DEF RunStep, Grants, Renews
    <2>4. io'[w]["loop"] # Idle => io'[w]["loop"].tok # d.tok
      BY <1>3, <1>4, <1>5, <2>1 DEF Tasks
    <2>5. ~Releasing(w, d.tok)
      <3>1. \A r \in late : r.tok <= fence /\ r.tok \in Nat
        BY DEF TokenInv, TypeOK
      <3> QED  BY <1>3, <1>4, <2>1, <3>1 DEF Releasing
    <2>6. ~ReleasingNext(w, d.tok)
      BY <1>1, <1>3, <1>4, <2>1, <2>5, NewRelease
    <2>7. AnswersHold(w, io[w]["runner"])'
      BY <2>1 DEF AnswersHold
    <2> QED  BY <1>3, <2>1, <2>2, <2>3, <2>4, <2>6, <2>7
  <1> QED  BY <1>2, <1>6, <1>7 DEF CallStep, Answers

\* The nodes that hold the lease (w, tok) after the step, told at time s or after.
HoldersNext(w, tok, s) == {n \in Nodes : MatchesNext(w, tok, n) /\ key'[n].set >= s}

\* A call that returns with a quorum in time leaves a quorum of holders.
LEMMA CoveringCall ==
    ASSUME TypeOK, NEW w \in Workers, NEW t \in Tasks, io[w][t] # Idle,
           AnswersHold(w, io[w][t]), Covers(w, io[w][t])
    PROVE  Cardinality(HoldersNext(w, run'[w], confirmed'[w] - Validity)) >= quorum
  <1> DEFINE c == io[w][t]
             H == HoldersNext(w, run'[w], confirmed'[w] - Validity)
  <1>1. c \in Call /\ c.started \in Nat /\ c.yes \subseteq Nodes
    BY DEF TypeOK, Call
  <1>2. confirmed'[w] - Validity = c.started
    BY <1>1, ConstantFacts DEF Covers
  <1>3. c.yes \subseteq H
    BY <1>1, <1>2 DEF AnswersHold, Covers, Holds, Matches, HoldersNext, MatchesNext
  <1>4. Cardinality(c.yes) \in Nat /\ Cardinality(H) \in Nat /\ Cardinality(c.yes) <= Cardinality(H)
    BY <1>3, MoreNodes DEF HoldersNext
  <1> QED  BY <1>4, ConstantFacts DEF Covers

LEMMA CoverStep ==
    ASSUME IInv, TypeOK', [Next]_vars, StepFacts
    PROVE  CoverInv'
  <1> USE DEF IInv
  <1> SUFFICES ASSUME NEW w \in Workers, confirmed'[w] # 0
               PROVE  /\ ~ReleasingNext(w, run'[w])
                      /\ \A t \in Tasks :
                            io'[w][t] # Idle /\ io'[w][t].op = "renew" /\ io'[w][t].tok = run'[w]
                                => AnswersHold(w, io[w][t])'
                      /\ now' < confirmed'[w] =>
                            Cardinality(HoldersNext(w, run'[w], confirmed'[w] - Validity)) >= quorum
    BY DEF CoverInv, Releasing, ReleasingNext, HoldersNext, Holds, Matches, MatchesNext
  <1>1. \A t \in Tasks : CallStep(w, t)
    BY DEF StepFacts, WorkerStep
  <1>2. run[w] \in Nat /\ confirmed[w] \in Nat /\ now \in Nat /\ now' \in Nat /\ now <= now'
    BY DEF TypeOK, StepFacts
  <1>3. CASE Grants(w)
    <2> DEFINE c == io[w]["runner"]
    <2>1. c # Idle /\ c.op = "acquire" /\ Covers(w, c) /\ run'[w] = c.tok
      BY <1>3 DEF Grants, Covers
    <2>2. /\ ~Releasing(w, c.tok) /\ AnswersHold(w, c)
          /\ io[w]["loop"] # Idle => io[w]["loop"].tok # c.tok
      BY <2>1 DEF AcquireInv
    <2>3. /\ io'[w]["runner"] = Idle /\ io'[w]["loop"] = io[w]["loop"] /\ late' = late
      BY <1>3 DEF Grants
    <2>4. ~ReleasingNext(w, c.tok)
      BY <2>2, <2>3 DEF Releasing, ReleasingNext, Tasks
    <2>5. Cardinality(HoldersNext(w, run'[w], confirmed'[w] - Validity)) >= quorum
      BY <2>1, <2>2, CoveringCall DEF Tasks
    <2> QED  BY <2>1, <2>2, <2>3, <2>4, <2>5 DEF Tasks
  <1>4. CASE confirmed[w] # 0 /\ run'[w] = run[w]
    <2>1. /\ ~Releasing(w, run[w])
          /\ \A t \in Tasks :
                io[w][t] # Idle /\ io[w][t].op = "renew" /\ io[w][t].tok = run[w]
                    => AnswersHold(w, io[w][t])
      BY <1>4 DEF CoverInv
    <2>2. ~ReleasingNext(w, run[w])
      BY <1>2, <2>1, NewRelease DEF AcquireInv
    <2>3. ASSUME NEW t \in Tasks, io'[w][t] # Idle, io'[w][t].op = "renew", io'[w][t].tok = run[w]
          PROVE  AnswersHold(w, io[w][t])'
      <3>1. CASE Sends(w, t)
        BY <3>1 DEF Sends, AnswersHold
      <3>2. CASE io'[w][t] = io[w][t] \/ Answers(w, t)
        <4>1. io[w][t] # Idle /\ io[w][t].op = "renew" /\ io[w][t].tok = run[w]
          BY <2>3, <3>2 DEF Answers
        <4> QED  BY <2>1, <3>2, <4>1, AnswersStay
      <3> QED  BY <1>1, <2>3, <3>1, <3>2 DEF CallStep
    <2>4. ASSUME now' < confirmed'[w], confirmed'[w] = confirmed[w]
          PROVE  Cardinality(HoldersNext(w, run'[w], confirmed'[w] - Validity)) >= quorum
      <3> DEFINE s == confirmed[w] - Validity
                 G == {n \in Nodes : Holds(w, run[w], n, s)}
                 H == HoldersNext(w, run[w], s)
      <3>1. s \in Int /\ now < s + Validity
        BY <1>2, <2>4, ConstantFacts
      <3>2. Cardinality(G) >= quorum
        <4>1. now < confirmed[w]
          BY <1>2, <2>4
        <4> QED  BY <1>4, <4>1 DEF CoverInv
      <3> HIDE DEF s
      <3>3. G \subseteq H
        <4> SUFFICES ASSUME NEW n \in Nodes, Holds(w, run[w], n, s)
                     PROVE  MatchesNext(w, run[w], n) /\ key'[n].set >= s
          BY DEF HoldersNext
        <4> QED  BY <1>2, <2>1, <3>1, LeaseStays
      <3>4. Cardinality(G) \in Nat /\ Cardinality(H) \in Nat /\ Cardinality(G) <= Cardinality(H)
        BY <3>3, MoreNodes DEF HoldersNext
      <3>5. Cardinality(H) >= quorum
        BY <3>2, <3>4, ConstantFacts
      <3> QED  BY <1>4, <2>4, <3>5 DEF s
    <2>5. ASSUME Renews(w)
          PROVE  Cardinality(HoldersNext(w, run'[w], confirmed'[w] - Validity)) >= quorum
      <3>1. PICK t \in Tasks : io[w][t] # Idle /\ io[w][t].op = "renew" /\ Covers(w, io[w][t])
        BY <2>5 DEF Renews
      <3>2. AnswersHold(w, io[w][t])
        BY <1>4, <2>1, <3>1 DEF Covers
      <3> QED  BY <3>1, <3>2, CoveringCall
    <2>6. confirmed'[w] = confirmed[w] \/ Renews(w) \/ Grants(w)
      BY DEF StepFacts, WorkerStep, RunStep
    <2> QED  BY <1>3, <1>4, <2>2, <2>3, <2>4, <2>5, <2>6
  <1>5. Grants(w) \/ (confirmed[w] # 0 /\ run'[w] = run[w])
    BY DEF StepFacts, WorkerStep, RunStep, Renews
  <1> QED  BY <1>3, <1>4, <1>5

\* IInv holds of the initial state and is kept by every step.
LEMMA Invariance == Spec => []IInv
  <1>1. Init => IInv
    <2> SUFFICES ASSUME Init PROVE IInv
      OBVIOUS
    <2>1. TypeOK
      BY DEF Init, TypeOK, Tasks
    <2>2. PastInv /\ TokenInv /\ LoopInv /\ AcquireInv
      BY DEF Init, PastInv, TokenInv, LoopInv, AcquireInv, Tasks
    <2>3. CoverInv
      BY DEF Init, CoverInv
    <2> QED  BY <2>1, <2>2, <2>3 DEF IInv
  <1>2. IInv /\ [Next]_vars => IInv'
    <2> SUFFICES ASSUME IInv, [Next]_vars PROVE IInv'
      OBVIOUS
    <2>1. TypeOK' /\ StepFacts
      BY TypeStep, Step DEF IInv
    <2> QED  BY <2>1, PastStep, TokenStep, AcquireStep, LoopStep, CoverStep DEF IInv
  <1> QED  BY <1>1, <1>2, PTL DEF Spec

-----------------------------------------------------------------------------
(* The theorems.                                                           *)

\* As long as a run is covered, its lease is on a quorum of the nodes: no late
\* release, no undone renewal and no early expiry takes it away.
THEOREM CoveredHasQuorum == Spec => []OwnerHasQuorum
  <1>1. IInv => OwnerHasQuorum
    <2> SUFFICES ASSUME IInv, NEW w \in Workers, Owner(w)
                 PROVE  Cardinality({n \in Nodes : Matches(w, run[w], n)}) >= quorum
      BY DEF OwnerHasQuorum
    <2> DEFINE G == {n \in Nodes : Holds(w, run[w], n, confirmed[w] - Validity)}
               M == {n \in Nodes : Matches(w, run[w], n)}
    <2>1. now < confirmed[w] /\ confirmed[w] # 0
      BY DEF Owner, IInv, TypeOK
    <2>2. Cardinality(G) >= quorum
      BY <2>1 DEF IInv, CoverInv
    <2>3. G \subseteq M
      BY DEF Holds
    <2>4. Cardinality(G) \in Nat /\ Cardinality(M) \in Nat /\ Cardinality(G) <= Cardinality(M)
      BY <2>3, MoreNodes
    <2> QED  BY <2>2, <2>4, ConstantFacts
  <1> QED  BY <1>1, Invariance, PTL

\* No two workers are covered for the pipeline at the same time.
THEOREM Exclusion == Spec => []OneOwner
  <1>1. OwnerHasQuorum => OneOwner
    <2> SUFFICES ASSUME OwnerHasQuorum, NEW v \in Workers, NEW w \in Workers,
                        Owner(v), Owner(w)
                 PROVE  v = w
      BY DEF OneOwner
    <2> DEFINE A == {n \in Nodes : Matches(v, run[v], n)}
               B == {n \in Nodes : Matches(w, run[w], n)}
    <2>1. Cardinality(A) >= quorum /\ Cardinality(B) >= quorum
      BY DEF OwnerHasQuorum
    <2>2. A \cap B # {}
      BY <2>1, QuorumsMeet
    <2> QED  BY <2>2 DEF Matches
  <1> QED  BY <1>1, CoveredHasQuorum, PTL

\* A True of try_acquire() finds the lease on a quorum of the nodes.
THEOREM GrantsAreLive == Spec => GrantIsLive
  <1>1. ASSUME IInv, [Next]_vars, NEW w \in Workers, run'[w] \notin {0, run[w]}
        PROVE  Cardinality({n \in Nodes : Matches(w, run'[w], n)}) >= quorum
    <2> DEFINE c == io[w]["runner"]
               M == {n \in Nodes : Matches(w, run'[w], n)}
    <2>1. StepFacts
      BY <1>1, Step DEF IInv
    <2>2. Grants(w)
      BY <1>1, <2>1 DEF StepFacts, WorkerStep, RunStep, Renews
    <2>3. c # Idle /\ c.op = "acquire" /\ Covers(w, c)
      BY <2>2 DEF Grants
    <2>4. c.yes \subseteq M
      <3>1. AnswersHold(w, c)
        BY <1>1, <2>3 DEF IInv, AcquireInv
      <3>2. c.yes \subseteq Nodes
        BY <1>1, <2>3 DEF IInv, TypeOK, Call, Tasks
      <3> QED  BY <2>3, <3>1, <3>2 DEF AnswersHold, Covers, Holds
    <2>5. Cardinality(c.yes) \in Nat /\ Cardinality(M) \in Nat /\ Cardinality(c.yes) <= Cardinality(M)
      BY <2>4, MoreNodes
    <2> QED  BY <2>3, <2>5, ConstantFacts DEF Covers
  <1>2. IInv /\ [Next]_vars =>
           [\A w \in Workers : run'[w] \notin {0, run[w]} =>
               Cardinality({n \in Nodes : Matches(w, run'[w], n)}) >= quorum]_vars
    BY <1>1
  <1> QED  BY <1>2, Invariance, PTL DEF Spec, GrantIsLive

\* Types of the nodes' keys, the dictionaries and the calls.
THEOREM TypeCorrect == Spec => []TypeOK
  <1>1. IInv => TypeOK
    BY DEF IInv
  <1> QED  BY <1>1, Invariance, PTL

-----------------------------------------------------------------------------
(* What a failed acquisition leaves behind.                                *)

\* The runner that wrote the key of node n has not yet decided on it, or has still to
\* release it.
Undecided(n) ==
    LET c == io[key[n].worker]["runner"]
    IN  /\ c # Idle /\ c.tok = key[n].token
        /\ (c.op = "acquire" /\ n \in c.yes) \/ (c.op = "release" /\ n \in c.todo)

\* PartialUndone is not inductive: the release must reach exactly the nodes that said yes,
\* and no call that was given up may write a key afterwards.
PartialInv ==
    faults = 0 =>
        /\ late = {}
        /\ \A n \in Nodes : key[n] # NoKey => key[n].token \in granted \/ Undecided(n)

\* Without a failure nothing is given up.
LEMMA NoneGivenUp ==
    ASSUME IInv, PartialInv, [Next]_vars, faults' = 0
    PROVE  faults = 0 /\ late = {} /\ late' = {} /\ granted \subseteq granted'
  <1>1. faults \in Nat
    BY DEF IInv, TypeOK
  <1>2. \/ faults' = faults /\ (late' = late \/ late # {}) /\ granted \subseteq granted'
        \/ faults' = faults + 1
    <2>1. ASSUME NEW w \in Workers, RunnerStep(w) \/ RenewDeadline(w) \/ Crash(w)
          PROVE  \/ faults' = faults /\ late' = late /\ granted \subseteq granted'
                 \/ faults' = faults + 1
      BY <2>1 DEF RunnerStep, Reserve, ReserveFails, AcquireReturn, Validate, ValidateReturn,
                  Release, RenewDeadline, Crash, Fault, Check, counters, history
    <2>2. ASSUME NEW w \in Workers, NEW t \in Tasks, TaskStep(w, t)
          PROVE  \/ faults' = faults /\ late' = late /\ granted \subseteq granted'
                 \/ faults' = faults + 1
      BY <2>2 DEF TaskStep, Renew, RenewReturn, UndoRenewReturn, Execute, NodeError, Fault,
                  Check, counters, history
    <2>3. ASSUME NEW c \in late, ExecuteLate(c)
          PROVE  faults' = faults /\ late # {} /\ granted \subseteq granted'
      BY <2>3 DEF ExecuteLate, counters, history
    <2>4. CASE (\E n \in Nodes : Expire(n)) \/ Tick \/ UNCHANGED vars
      BY <2>4 DEF Expire, Tick, vars, counters, history
    <2> QED  BY <2>1, <2>2, <2>3, <2>4 DEF Next
  <1>3. faults = 0
    BY <1>1, <1>2
  <1>4. late = {}
    BY <1>3 DEF PartialInv
  <1>5. faults' # faults + 1
    BY <1>3
  <1> QED  BY <1>2, <1>3, <1>4, <1>5

\* Keys stay, and the runners' acquisitions and releases too.
LEMMA KeysStay ==
    ASSUME IInv, PartialInv, faults = 0, granted \subseteq granted', TypeOK',
           \A n \in Nodes : key'[n] = NoKey
              \/ (key[n] # NoKey /\ key'[n].worker = key[n].worker /\ key'[n].token = key[n].token),
           \A u \in Workers : \/ io'[u]["runner"] = io[u]["runner"]
                              \/ io[u]["runner"] = Idle
                              \/ io[u]["runner"].op \notin {"acquire", "release"}
    PROVE  \A n \in Nodes : key'[n] # NoKey => key'[n].token \in granted' \/ Undecided(n)'
  <1> SUFFICES ASSUME NEW n \in Nodes, key'[n] # NoKey, key'[n].token \notin granted'
               PROVE  Undecided(n)'
    OBVIOUS
  <1>1. key[n] # NoKey /\ key'[n].worker = key[n].worker /\ key'[n].token = key[n].token
    OBVIOUS
  <1>2. Undecided(n)
    BY <1>1 DEF PartialInv
  <1>3. key[n].worker \in Workers
    BY <1>1 DEF IInv, TypeOK, Key
  <1>4. io'[key[n].worker]["runner"] = io[key[n].worker]["runner"]
    BY <1>2, <1>3 DEF Undecided
  <1> QED  BY <1>1, <1>2, <1>4 DEF Undecided

\* A node executes the call of a runner.
LEMMA ExecutePartial ==
    ASSUME IInv, PartialInv, faults = 0, granted \subseteq granted',
           NEW w \in Workers, NEW m \in Nodes, Execute(w, "runner", m)
    PROVE  \A n \in Nodes : key'[n] # NoKey => key'[n].token \in granted' \/ Undecided(n)'
  <1> DEFINE c == io[w]["runner"]
             yes == SaysYes(w, c.op, c.tok, m)
             d == [c EXCEPT !.todo = c.todo \ {m},
                            !.yes = IF yes THEN c.yes \cup {m} ELSE c.yes]
  <1>1. /\ c # Idle /\ m \in c.todo
        /\ key' = [key EXCEPT ![m] = Script(w, c.op, c.tok, m)]
        /\ io' = [io EXCEPT ![w]["runner"] = Settled(d)]
    BY DEF Execute, Answer
  <1>2. c \in Call /\ c.tok \in Nat /\ c.op \in Ops
    BY <1>1 DEF IInv, TypeOK, Tasks, Call
  <1>3. /\ d \in Call /\ d.op = c.op /\ d.tok = c.tok /\ d.todo = c.todo \ {m}
        /\ c.yes \subseteq d.yes /\ (yes => m \in d.yes)
    BY <1>1, <1>2 DEF Call
  <1>4. /\ d # Idle /\ (d.op # "release" \/ d.todo # {} => Settled(d) = d)
    BY <1>3, RedlockAssumption DEF Settled
  <1> HIDE DEF d
  <1>5. /\ io'[w]["runner"] = Settled(d)
        /\ \A u \in Workers \ {w} : io'[u]["runner"] = io[u]["runner"]
    BY <1>1 DEF IInv, TypeOK, Tasks
  <1> SUFFICES ASSUME NEW n \in Nodes, key'[n] # NoKey, key'[n].token \notin granted'
               PROVE  Undecided(n)'
    OBVIOUS
  <1>6. key[n] # NoKey /\ key[n].token \notin granted => Undecided(n)
    BY DEF PartialInv
  <1>7. key[n] # NoKey => key[n] \in Key /\ key[n].worker \in Workers
    BY DEF IInv, TypeOK, Key
  <1>8. ASSUME key[n] # NoKey, key'[n].worker = key[n].worker, key'[n].token = key[n].token
        PROVE  Undecided(n) /\ (key[n].worker # w => Undecided(n)')
    <2>1. Undecided(n)
      BY <1>6, <1>8
    <2> QED  BY <1>5, <1>7, <1>8, <2>1 DEF Undecided
  <1>9. CASE n # m
    <2>1. key'[n] = key[n]
      BY <1>1, <1>9 DEF IInv, TypeOK
    <2>2. Undecided(n) /\ (key[n].worker # w => Undecided(n)')
      BY <1>8, <2>1
    <2>3. CASE key[n].worker = w
      <3>1. /\ c.tok = key[n].token
            /\ (c.op = "acquire" /\ n \in c.yes) \/ (c.op = "release" /\ n \in c.todo)
        BY <2>2, <2>3 DEF Undecided
      <3>2. /\ (d.op = "acquire" /\ n \in d.yes) \/ (d.op = "release" /\ n \in d.todo)
            /\ Settled(d) = d
        BY <1>3, <1>4, <1>9, <3>1
      <3> QED  BY <1>3, <1>4, <1>5, <2>1, <2>3, <3>1, <3>2 DEF Undecided
    <2> QED  BY <2>2, <2>3
  <1>10. CASE n = m
    <2>1. key'[m] = Script(w, c.op, c.tok, m)
      BY <1>1 DEF IInv, TypeOK
    <2>2. CASE c.op = "acquire" /\ key[m] = NoKey
      <3>1. key'[m].worker = w /\ key'[m].token = c.tok
        BY <2>1, <2>2 DEF Script
      <3>2. m \in d.yes
        BY <1>3, <2>2 DEF SaysYes
      <3> QED  BY <1>3, <1>4, <1>5, <1>10, <2>2, <3>1, <3>2 DEF Undecided
    <2>3. CASE ~(c.op = "acquire" /\ key[m] = NoKey)
      <3>1. /\ key[m] # NoKey /\ key'[m].worker = key[m].worker /\ key'[m].token = key[m].token
            /\ ~(c.op \in Releases /\ Matches(w, c.tok, m))
        <4>1. \/ key'[m] = key[m]
              \/ key[m] # NoKey /\ key'[m] = [key[m] EXCEPT !.set = now]
          BY <1>10, <2>1, <2>3 DEF Script, Matches, Releases
        <4>2. ~(c.op \in Releases /\ Matches(w, c.tok, m))
          BY <1>10, <2>1, <2>3 DEF Script, Releases
        <4> QED  BY <1>7, <1>10, <4>1, <4>2 DEF Key
      <3>2. Undecided(m) /\ (key[m].worker # w => Undecided(m)')
        BY <1>8, <1>10, <3>1
      <3>3. CASE key[m].worker = w
        <4>1. c.tok = key[m].token /\ c.op = "acquire" /\ m \in c.yes
          BY <3>1, <3>2, <3>3 DEF Undecided, Matches, Releases
        <4> QED  BY <1>3, <1>4, <1>5, <1>10, <3>1, <3>3, <4>1 DEF Undecided
      <3> QED  BY <1>10, <3>2, <3>3
    <2> QED  BY <2>2, <2>3
  <1> QED  BY <1>9, <1>10

\* An acquisition is decided.
LEMMA AcquirePartial ==
    ASSUME IInv, PartialInv, faults = 0, NEW w \in Workers, AcquireReturn(w)
    PROVE  \A n \in Nodes : key'[n] # NoKey => key'[n].token \in granted' \/ Undecided(n)'
  <1> DEFINE c == io[w]["runner"]
  <1>1. c # Idle /\ c.op = "acquire" /\ key' = key
    BY DEF AcquireReturn, Answered, nodeVars
  <1>2. c \in Call /\ c.tok \in Nat /\ c.yes \subseteq Nodes
    BY <1>1 DEF IInv, TypeOK, Tasks, Call
  <1>3. ASSUME NEW n \in Nodes, key[n] # NoKey, key[n].token \notin granted
        PROVE  /\ Undecided(n) /\ key[n].worker \in Workers
               /\ key[n].worker = w => key[n].token = c.tok /\ n \in c.yes
    BY <1>1, <1>3 DEF PartialInv, IInv, TypeOK, Key, Undecided
  <1>4. CASE Return(w, "runner") /\ granted' = granted \cup {c.tok}
    <2>1. \A u \in Workers \ {w} : io'[u]["runner"] = io[u]["runner"]
      BY <1>4 DEF Return, IInv, TypeOK, Tasks
    <2> QED  BY <1>1, <1>3, <1>4, <2>1 DEF Undecided
  <1>5. CASE Send(w, "runner", "release", c.tok, c.yes) /\ granted' = granted
    <2> DEFINE d == [op |-> "release", tok |-> c.tok, todo |-> c.yes, yes |-> {},
                     started |-> IF "release" \in {"acquire", "renew"} THEN now ELSE 0]
    <2>1. io' = [io EXCEPT ![w]["runner"] = Settled(d)]
      BY <1>5 DEF Send
    <2>2. d \in Call /\ d.op = "release" /\ d.tok = c.tok /\ d.todo = c.yes
      BY <1>2 DEF Call, Ops, Releases
    <2>3. d # Idle /\ (d.todo # {} => Settled(d) = d)
      BY <2>2, RedlockAssumption DEF Settled
    <2> HIDE DEF d
    <2>4. /\ io'[w]["runner"] = Settled(d)
          /\ \A u \in Workers \ {w} : io'[u]["runner"] = io[u]["runner"]
      BY <2>1 DEF IInv, TypeOK, Tasks
    <2> SUFFICES ASSUME NEW n \in Nodes, key[n] # NoKey, key[n].token \notin granted
                 PROVE  Undecided(n)'
      BY <1>1, <1>5
    <2>5. /\ Undecided(n) /\ key[n].worker \in Workers
          /\ key[n].worker = w => key[n].token = c.tok /\ n \in c.yes
      BY <1>3
    <2>6. CASE key[n].worker = w
      <3>1. n \in d.todo /\ io'[w]["runner"] = d /\ d.tok = key[n].token
        BY <2>2, <2>3, <2>4, <2>5, <2>6
      <3> QED  BY <1>1, <2>2, <2>3, <2>6, <3>1 DEF Undecided
    <2>7. CASE key[n].worker # w
      BY <1>1, <2>4, <2>5, <2>7 DEF Undecided
    <2> QED  BY <2>6, <2>7
  <1> QED  BY <1>4, <1>5 DEF AcquireReturn, history

\* The runners and the keys when nothing of an acquisition happens.
LEMMA OtherPartial ==
    ASSUME IInv, [Next]_vars, late = {}, faults' = 0, faults = 0,
           \A w \in Workers : ~AcquireReturn(w),
           \A w \in Workers, n \in Nodes : ~Execute(w, "runner", n)
    PROVE  /\ \A n \in Nodes : key'[n] = NoKey
                 \/ (key[n] # NoKey /\ key'[n].worker = key[n].worker /\ key'[n].token = key[n].token)
           /\ \A u \in Workers : \/ io'[u]["runner"] = io[u]["runner"]
                                 \/ io[u]["runner"] = Idle
                                 \/ io[u]["runner"].op \notin {"acquire", "release"}
  <1>0. TypeOK /\ LoopInv
    BY DEF IInv
  <1>1. ASSUME NEW w \in Workers, RunnerStep(w) \/ RenewDeadline(w) \/ Crash(w)
        PROVE  /\ key' = key
               /\ io[w]["runner"] = Idle \/ io[w]["runner"].op \notin {"acquire", "release"}
               /\ \A u \in Workers \ {w} : io'[u] = io[u]
    <2>1. ~(RenewDeadline(w) \/ Crash(w) \/ ReserveFails(w))
      BY <1>0 DEF RenewDeadline, Crash, ReserveFails, Fault
    <2> QED  BY <1>0, <1>1, <2>1 DEF RunnerStep, Reserve, Validate, ValidateReturn, Release,
               Answered, Send, Return, nodeVars, TypeOK
  <1>2. ASSUME NEW w \in Workers, NEW t \in Tasks, NEW n \in Nodes, Execute(w, t, n)
        PROVE  /\ \A v \in Workers : io'[v]["runner"] = io[v]["runner"]
               /\ \A m \in Nodes : key'[m] = NoKey
                    \/ (key[m] # NoKey /\ key'[m].worker = key[m].worker /\ key'[m].token = key[m].token)
    <2> DEFINE c == io[w]["loop"]
    <2>1. t = "loop"
      BY <1>2 DEF Tasks
    <2>2. c # Idle /\ c.op \in {"renew", "undo_renew"}
      BY <1>0, <1>2, <2>1 DEF Execute, LoopInv
    <2>3. key' = [key EXCEPT ![n] = Script(w, c.op, c.tok, n)]
      BY <1>2, <2>1 DEF Execute
    <2>4. \A v \in Workers : io'[v]["runner"] = io[v]["runner"]
      <3> DEFINE d == [c EXCEPT !.todo = c.todo \ {n},
                                !.yes = IF SaysYes(w, c.op, c.tok, n) THEN c.yes \cup {n}
                                                                     ELSE c.yes]
      <3>1. io' = [io EXCEPT ![w]["loop"] = Settled(d)]
        BY <1>2, <2>1 DEF Execute, Answer
      <3> HIDE DEF d
      <3> QED  BY <1>0, <3>1 DEF TypeOK, Tasks
    <2>5. \/ Script(w, c.op, c.tok, n) \in {NoKey, key[n]}
          \/ key[n] # NoKey /\ Script(w, c.op, c.tok, n) = [key[n] EXCEPT !.set = now]
      BY <2>2 DEF Script, Matches
    <2>6. key[n] # NoKey => /\ [key[n] EXCEPT !.set = now].worker = key[n].worker
                            /\ [key[n] EXCEPT !.set = now].token = key[n].token
      BY <1>0 DEF TypeOK, Key
    <2> QED  BY <1>0, <2>3, <2>4, <2>5, <2>6 DEF TypeOK
  <1>3. ASSUME NEW w \in Workers, NEW t \in Tasks, TaskStep(w, t),
               ~\E n \in Nodes : Execute(w, t, n)
        PROVE  /\ key' = key
               /\ \A u \in Workers \ {w} : io'[u] = io[u]
               /\ \/ io'[w]["runner"] = io[w]["runner"]
                  \/ io[w]["runner"] = Idle
                  \/ io[w]["runner"].op \notin {"acquire", "release"}
    <2>1. \A n \in Nodes : ~NodeError(w, t, n)
      BY <1>0 DEF NodeError, Fault
    <2>2. CASE t = "runner"
      BY <1>0, <1>3, <2>1, <2>2 DEF TaskStep, Renew, RenewReturn, UndoRenewReturn, Answered,
               Send, Return, nodeVars, TypeOK
    <2>3. CASE t = "loop"
      BY <1>0, <1>3, <2>1, <2>3 DEF TaskStep, Renew, RenewReturn, UndoRenewReturn,
               Send, Return, nodeVars, TypeOK, Tasks
    <2> QED  BY <2>2, <2>3 DEF Tasks
  <1>4. ASSUME NEW n \in Nodes, Expire(n)
        PROVE  io' = io /\ key' = [key EXCEPT ![n] = NoKey]
    BY <1>4 DEF Expire
  <1>5. CASE Tick \/ UNCHANGED vars
    BY <1>5 DEF Tick, vars, nodeVars
  <1> QED  BY <1>0, <1>1, <1>2, <1>3, <1>4, <1>5 DEF Next, TypeOK

\* try_acquire() without a quorum leaves nothing behind on any node, as long as no call
\* fails: every key belongs to a lease that was granted or is still to be decided on.
THEOREM NothingLeftBehind == Spec => []PartialUndone
  <1>1. Init => PartialInv
    BY DEF Init, PartialInv
  <1>2. IInv /\ IInv' /\ PartialInv /\ [Next]_vars => PartialInv'
    <2> SUFFICES ASSUME IInv, IInv', PartialInv, [Next]_vars, faults' = 0
                 PROVE  /\ late' = {}
                        /\ \A n \in Nodes :
                              key'[n] # NoKey => key'[n].token \in granted' \/ Undecided(n)'
      BY DEF PartialInv
    <2>1. faults = 0 /\ late = {} /\ late' = {} /\ granted \subseteq granted'
      BY NoneGivenUp
    <2>2. CASE \E w \in Workers : AcquireReturn(w)
      BY <2>1, <2>2, AcquirePartial
    <2>3. CASE \E w \in Workers, n \in Nodes : Execute(w, "runner", n)
      BY <2>1, <2>3, ExecutePartial
    <2>4. CASE /\ \A w \in Workers : ~AcquireReturn(w)
               /\ \A w \in Workers, n \in Nodes : ~Execute(w, "runner", n)
      <3>1. TypeOK'
        BY DEF IInv
      <3>2. /\ \A n \in Nodes : key'[n] = NoKey
                 \/ (key[n] # NoKey /\ key'[n].worker = key[n].worker /\ key'[n].token = key[n].token)
            /\ \A u \in Workers : \/ io'[u]["runner"] = io[u]["runner"]
                                  \/ io[u]["runner"] = Idle
                                  \/ io[u]["runner"].op \notin {"acquire", "release"}
        BY <2>1, <2>4, OtherPartial
      <3> QED  BY <2>1, <3>1, <3>2, KeysStay
    <2> QED  BY <2>1, <2>2, <2>3, <2>4
  <1>3. PartialInv => PartialUndone
    <2> SUFFICES ASSUME PartialInv, faults = 0, NEW n \in Nodes, key[n] # NoKey,
                        key[n].token \notin granted
                 PROVE  LET c == io[key[n].worker]["runner"]
                        IN  c # Idle /\ c.op \in {"acquire", "release"} /\ c.tok = key[n].token
      BY DEF PartialUndone
    <2>1. Undecided(n)
      BY DEF PartialInv
    <2> QED  BY <2>1 DEF Undecided
  <1> QED  BY <1>1, <1>2, <1>3, Invariance, PTL DEF Spec
==============================================================================
