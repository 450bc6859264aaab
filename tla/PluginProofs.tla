---------------------------- MODULE PluginProofs ----------------------------
(* Eight parts that share state with a client library, a broker or a server.     *)
(* KafkaOperator: what the operator paused is what the consumer holds back, for   *)
(* every set of partitions, every assignment and every number of calls.          *)
(* AnthropicProvider: its permits are accounted for and its answers are in        *)
(* place, for any finite set of calls, prompts, chunks and failures. KafkaPoison  *)
(* and KafkaRuntime: no record below the committed offset is missing but those    *)
(* the policy or a second drain passes over and those lost in a sink's memory,    *)
(* for any policy, processes, failures and crashes. RedisPostgres: a message that *)
(* a pipeline has acknowledged is in the table, once, for any consumers and       *)
(* messages. EmbeddingStore: a key is called fresh twice only for a named reason, *)
(* and what the store holds is in its index. RedisState: no compare-and-set loses *)
(* an update. SchemaAdapter: the columns an adapter believes in are there. All    *)
(* but the first are instantiated; they share the names of variables and          *)
(* constants with it and nothing else.                                            *)
EXTENDS KafkaOperator, Integers, Sequences, FiniteSetTheorems, TLAPS

\* What the instances are about.
CONSTANTS Tasks, Prompts, Chunks, MaxAttempts, MaxFaults, End, MaxOpens, Procs, Consumers, MaxTurns,
          Workers, Keys, Class, Dims, MaxEntries, Clients, MaxTime, MaxValue, Versions, Required
VARIABLES faults, task, permits, batch, yielded, opens, position, sent, committed, store, stats, done,
          missed, log, owner, session, lost, passed_over, report,
          turns, current, buffer, pending, lastId, pel, acked, passed,
          values, index, dims, lock, fresh, hidden, bypassed, unguarded, client, now, stored, updates,
          swept, adapter, table, raced, stale, dropped

\* The partitions that the controller wants paused.
wanted == IF pause_all THEN assigned ELSE paused \cap assigned

Types ==
    /\ call \in {"closed", "open", "streaming"}
    /\ rejoining \in BOOLEAN /\ pause_all \in BOOLEAN /\ refused \in BOOLEAN
    /\ assigned \subseteq Parts /\ active \subseteq Parts /\ paused \subseteq Parts
    /\ fetched \subseteq Parts
    /\ rejoining => call # "closed"

\* The consumer holds only what it is assigned. What a resume() of everything has left
\* behind is held, and the controller does not know of it.
Leftovers ==
    /\ held \subseteq assigned /\ left \subseteq held
    /\ left \cap paused = {}
    /\ pause_all => left = {}
    /\ call = "closed" => held = {}

\* Until the stream begins, the consumer may still miss what an earlier session paused.
Views ==
    /\ call = "open" /\ ~rejoining => held \ left \subseteq wanted
    /\ ViewIsTrue

Inv == Types /\ Leftovers /\ Views

-----------------------------------------------------------------------------
\* A call that names assigned partitions is carried out completely.
LEMMA HandledAll == ASSUME NEW targets, targets \subseteq assigned PROVE Handled(targets) = targets
  BY DEF Handled

\* A call reaches assigned partitions only: it stops before the first that is not.
LEMMA HandledAssigned ==
  ASSUME NEW targets, targets \subseteq Parts, Parts \subseteq Nat
  PROVE  Handled(targets) \subseteq targets /\ Handled(targets) \subseteq assigned
<1> SUFFICES ASSUME NEW p \in Handled(targets) PROVE p \in targets /\ p \in assigned
  OBVIOUS
<1>1. p \in targets /\ (p \notin assigned => p < p)
  BY DEF Handled
<1> QED
  BY <1>1

LEMMA InitInv == Init => Inv
  BY DEF Init, Inv, Types, Leftovers, Views, ViewIsTrue, wanted

LEMMA PauseInv ==
  ASSUME Inv, Parts \subseteq Nat, NEW named \in SUBSET Parts, pause(named) PROVE Inv'
<1> DEFINE known == sync_assignment_from_consumer
           all == pause_all \/ named = {}
           targets == IF named = {} THEN known ELSE named
           set == paused \cup targets
           asked == PauseTargets(known, set, all, targets)
<1>1. /\ active' = known /\ pause_all' = all /\ paused' = set
      /\ left' = left \ asked
      /\ UNCHANGED <<call, assigned, rejoining, fetched>>
      /\ named \subseteq known
      /\ call = "closed" => UNCHANGED <<held, refused>>
      /\ call # "closed" => /\ held' = held \cup Handled(asked)
                            /\ refused' = (refused \/ ~(asked \subseteq assigned))
  BY DEF pause, validate_assigned_partitions
<1>2. known \subseteq Parts /\ (call # "closed" => known = assigned)
  BY DEF sync_assignment_from_consumer, Inv, Types
<1>3. asked = targets /\ (all => named # {} \/ asked = known)
  BY <1>1 DEF PauseTargets
<1>4. Types'
  BY <1>1, <1>2 DEF Inv, Types
<1>5. CASE call = "closed"
  <2>1. held' = {} /\ left' = {}
    BY <1>1, <1>5 DEF Inv, Leftovers
  <2> QED
    BY <1>1, <1>4, <1>5, <2>1 DEF Inv, Leftovers, Views, ViewIsTrue
<1>6. CASE call # "closed"
  <2>1. targets \subseteq assigned
    BY <1>1, <1>2, <1>6
  <2>2. held' = held \cup targets /\ left' = left \ targets /\ refused' = refused
    BY <1>1, <1>3, <1>6, <2>1, HandledAll DEF Inv, Types
  <2> HIDE DEF asked
  <2>3. Leftovers'
    BY <1>1, <1>2, <1>6, <2>1, <2>2 DEF Inv, Leftovers
  <2>4. held' \ left' = (held \ left) \cup targets
    BY <2>2 DEF Inv, Leftovers
  <2>5. wanted' = IF all THEN assigned ELSE (paused \cap assigned) \cup targets
    BY <1>1, <2>1 DEF wanted
  <2>6. wanted' = wanted \cup targets
    BY <1>2, <1>6, <2>1, <2>5 DEF wanted
  <2> QED
    BY <1>1, <1>4, <2>2, <2>3, <2>4, <2>6 DEF Inv, Views, ViewIsTrue, wanted
<1> QED
  BY <1>5, <1>6

LEMMA ResumeInv ==
  ASSUME Inv, Parts \subseteq Nat, NEW named \in SUBSET Parts, resume(named) PROVE Inv'
<1> DEFINE known == sync_assignment_from_consumer
           targets == IF named = {} THEN ResumeAll(known) ELSE named
           freed == IF call = "closed" THEN {} ELSE Handled(targets)
<1>1. /\ active' = known /\ pause_all' = FALSE
      /\ paused' = IF named = {} THEN {} ELSE (IF pause_all THEN known ELSE paused) \ named
      /\ held' = held \ freed
      /\ left' = (IF named = {} THEN held ELSE left) \ freed
      /\ UNCHANGED <<call, assigned, rejoining, fetched, refused>>
      /\ named \subseteq known
  BY DEF resume, validate_assigned_partitions
<1>2. known \subseteq Parts /\ (call # "closed" => known = assigned)
  BY DEF sync_assignment_from_consumer, Inv, Types
<1>3. Types'
  BY <1>1, <1>2 DEF Inv, Types
<1>4. named # {} /\ call # "closed" => freed = named
  BY <1>1, <1>2, HandledAll
<1> HIDE DEF freed
<1>5. CASE call = "closed"
  <2>1. held' = {} /\ left' = {}
    BY <1>1, <1>5 DEF Inv, Leftovers
  <2> QED
    BY <1>1, <1>3, <1>5, <2>1 DEF Inv, Leftovers, Views, ViewIsTrue
<1>6. CASE call # "closed" /\ named = {}
  <2>1. left' = held' /\ paused' = {} /\ wanted' = {}
    BY <1>1, <1>6 DEF wanted
  <2> QED
    BY <1>1, <1>3, <1>6, <2>1 DEF Inv, Leftovers, Views, ViewIsTrue, wanted
<1>7. CASE call # "closed" /\ named # {}
  <2>1. held' = held \ named /\ left' = left \ named
    BY <1>1, <1>4, <1>7
  <2>2. paused' = (IF pause_all THEN assigned ELSE paused) \ named
    BY <1>1, <1>2, <1>7
  <2>3. Leftovers'
    BY <1>1, <1>7, <2>1, <2>2 DEF Inv, Leftovers
  <2>4. wanted' = wanted \ named /\ held' \ left' = (held \ left) \ named
    BY <1>1, <2>1, <2>2 DEF wanted
  <2> QED
    BY <1>1, <1>3, <2>3, <2>4 DEF Inv, Views, ViewIsTrue, wanted
<1> QED
  BY <1>5, <1>6, <1>7

LEMMA BootstrapInv ==
  ASSUME Inv, Parts \subseteq Nat, bootstrap_consumer_state PROVE Inv'
<1> DEFINE targets == PauseTargets(assigned, paused, pause_all, {})
<1>1. /\ call = "open" /\ ~rejoining
      /\ active' = assigned /\ held' = held \cup Handled(targets)
      /\ IF targets \subseteq assigned THEN call' = "streaming" /\ UNCHANGED refused
         ELSE UNCHANGED call /\ refused' = TRUE
      /\ UNCHANGED <<assigned, rejoining, paused, pause_all, fetched, left>>
  BY DEF bootstrap_consumer_state
<1>2. targets = IF pause_all THEN assigned ELSE paused
  BY DEF PauseTargets
<1>3. targets \subseteq Parts /\ left \cap targets = {}
  BY <1>2 DEF Inv, Types, Leftovers
<1>4. Handled(targets) \subseteq targets /\ Handled(targets) \subseteq assigned
  BY <1>3, HandledAssigned
<1>5. Handled(targets) \subseteq wanted /\ wanted' = wanted
  BY <1>1, <1>2, <1>4 DEF wanted
<1>6. targets \subseteq assigned => Handled(targets) = wanted
  BY <1>2, HandledAll DEF wanted
<1> HIDE DEF targets
<1>7. Types'
  BY <1>1 DEF Inv, Types
<1>8. Leftovers'
  BY <1>1, <1>4 DEF Inv, Leftovers
<1>9. held \ left \subseteq wanted
  BY <1>1 DEF Inv, Views
<1>10. held' \ left' \subseteq wanted'
  BY <1>1, <1>5, <1>9
<1>11. targets \subseteq assigned => held' \ left' = wanted'
  <2> SUFFICES ASSUME targets \subseteq assigned PROVE held' \ left' = wanted'
    OBVIOUS
  <2>1. wanted \cap left = {}
    BY <1>2, <1>3, <1>4, <1>6
  <2> QED
    BY <1>1, <1>5, <1>6, <1>9, <2>1
<1>12. Views'
  BY <1>1, <1>10, <1>11 DEF Views, ViewIsTrue, wanted
<1> QED
  BY <1>7, <1>8, <1>12 DEF Inv

LEMMA AssignedInv == ASSUME Inv, handle_partitions_assigned PROVE Inv'
<1>1. PICK new \in SUBSET Parts :
         /\ assigned' = new /\ active' = new
         /\ held' = IF new = {} THEN {} ELSE PauseTargets(new, paused, pause_all, new)
  BY DEF handle_partitions_assigned
<1>2. UNCHANGED <<call, paused, pause_all, fetched, refused>> /\ left' = {} /\ rejoining' = FALSE
  BY DEF handle_partitions_assigned
<1>3. held' = wanted'
  BY <1>1, <1>2 DEF wanted, PauseTargets
<1>4. call # "closed"
  BY DEF Inv, Types, handle_partitions_assigned
<1>5. Types'
  BY <1>1, <1>2, <1>4 DEF Inv, Types
<1>6. Leftovers'
  BY <1>1, <1>2, <1>3, <1>4 DEF Leftovers, wanted
<1>7. Views'
  BY <1>2, <1>3 DEF Views, ViewIsTrue, wanted
<1> QED
  BY <1>5, <1>6, <1>7 DEF Inv

LEMMA RevokedInv == ASSUME Inv, handle_partitions_revoked PROVE Inv'
<1>1. /\ call # "closed" /\ rejoining' /\ paused' = paused \ assigned
      /\ active' = active \ assigned
      /\ UNCHANGED <<call, assigned, held, pause_all, fetched, left, refused>>
  BY DEF handle_partitions_revoked
<1>2. Types'
  BY <1>1 DEF Inv, Types, handle_partitions_revoked
<1>3. Leftovers'
  BY <1>1 DEF Inv, Leftovers
<1>4. Views'
  BY <1>1 DEF Views, ViewIsTrue
<1> QED
  BY <1>2, <1>3, <1>4 DEF Inv

LEMMA OpenInv == ASSUME Inv, Open PROVE Inv'
<1>1. /\ call = "closed" /\ call' = "open" /\ assigned' \subseteq Parts
      /\ UNCHANGED <<held, rejoining, active, paused, pause_all, fetched, left, refused>>
  BY DEF Open
<1>2. held = {} /\ left = {}
  BY <1>1 DEF Inv, Leftovers
<1>3. Types' /\ Leftovers'
  BY <1>1, <1>2 DEF Inv, Types, Leftovers
<1>4. Views'
  BY <1>1, <1>2 DEF Views, ViewIsTrue
<1> QED
  BY <1>3, <1>4 DEF Inv

LEMMA CloseInv == ASSUME Inv, Close PROVE Inv'
  BY DEF Close, Inv, Types, Leftovers, Views, ViewIsTrue

LEMMA StreamInv == ASSUME Inv, Poll \/ sync_active_assignment \/ UNCHANGED vars PROVE Inv'
<1>1. /\ fetched' \subseteq Parts /\ active' \subseteq Parts
      /\ UNCHANGED <<call, assigned, held, rejoining, paused, pause_all, left, refused>>
  BY DEF Inv, Types, Poll, sync_active_assignment, vars
<1>2. Types' /\ Leftovers'
  BY <1>1 DEF Inv, Types, Leftovers
<1>3. Views'
  BY <1>1 DEF Inv, Views, ViewIsTrue, wanted
<1> QED
  BY <1>2, <1>3 DEF Inv

LEMMA NextInv == ASSUME Parts \subseteq Nat, Inv, [Next]_vars PROVE Inv'
  BY PauseInv, ResumeInv, OpenInv, BootstrapInv, RevokedInv, AssignedInv, CloseInv, StreamInv
     DEF Next

-----------------------------------------------------------------------------
\* In a stream the consumer holds back exactly the partitions that the controller of the
\* operator's calls (_operator_controls.py) has as paused, whatever was paused, resumed,
\* revoked and assigned before; the history names the two exceptions.
THEOREM PausesAreTrue == ASSUME Parts \subseteq Nat PROVE Spec => []ViewIsTrue
<1>1. Inv => ViewIsTrue
  BY DEF Inv, Views
<1> QED
  BY <1>1, InitInv, NextInv, PTL DEF Spec

\* The number of paused partitions that the source reports is the number of partitions
\* that the consumer holds back, while both know the same assignment.
THEOREM PauseReportIsTrue == ASSUME Parts \subseteq Nat PROVE Spec => []ReportIsTrue
<1>1. ViewIsTrue => ReportIsTrue
  <2> SUFFICES ASSUME ViewIsTrue, call = "streaming", ~rejoining, ~refused, left = {},
                      active = assigned, paused \subseteq assigned
               PROVE  paused_partition_count = Cardinality(held)
    BY DEF ReportIsTrue
  <2>1. held = IF pause_all THEN assigned ELSE paused
    BY DEF ViewIsTrue
  <2> QED
    BY <2>1 DEF paused_partition_count
<1> QED
  BY <1>1, PausesAreTrue, PTL

-----------------------------------------------------------------------------
(* AnthropicProvider. A permit is free or belongs to a task in one of the stages *)
(* between its acquisition and its release.                                      *)

AP == INSTANCE AnthropicProvider

ApAssumptions ==
    /\ IsFiniteSet(Tasks) /\ Prompts \in Nat /\ Chunks \in Nat
    /\ \A c \in Configs : c.permits \in Nat

ApHeldStages == {"request", "consumer", "nested", "left", "create", "retrieve", "results"}
ApStages == ApHeldStages \cup {"idle", "throttle", "sleep", "done", "failed", "wait_create",
                               "wait_retrieve", "wait_results", "poll"}
ApTask == [stage : ApStages, attempt : Nat, next : Nat, answer : Seq(Tasks \cup Nat)]
ApChunk == Nat \X Nat

\* The tasks that have a permit.
ApHolding == {t \in Tasks : task[t].stage \in ApHeldStages}

\* A task x has yielded y, all of it in this attempt: an attempt that is retried has
\* yielded nothing. A batch asks for no streams, and its answers are in place at the end.
ApTaskOk(job, x, y) ==
    /\ x.next <= Chunks + 1 /\ x.next = Len(y) + 1
    /\ \A i \in 1..Len(y) : y[i] = <<x.attempt, i>>
    /\ x.stage \in {"idle", "sleep", "throttle"} => y = <<>>
    /\ job = "batch" => x.stage \notin {"throttle", "request", "consumer", "nested", "left", "sleep"}
    /\ job = "batch" /\ x.stage = "done" => x.answer = [p \in 1..Prompts |-> p]

ApTypes ==
    /\ config \in Configs /\ permits \in Nat
    /\ task \in [Tasks -> ApTask] /\ yielded \in [Tasks -> Seq(ApChunk)]

ApInv ==
    /\ ApTypes
    /\ permits + Cardinality(ApHolding) = config.permits
    /\ \A t \in Tasks : ApTaskOk(config.job[t], task[t], yielded[t])

LEMMA ApSameCardinality == ASSUME NEW S PROVE AP!Cardinality(S) = Cardinality(S)
  BY DEF AP!Cardinality, Cardinality

LEMMA ApInitInv == ASSUME ApAssumptions, AP!Init PROVE ApInv
<1> USE DEF AP!Init, AP!Idle
<1>1. ApTypes
  <2>1. AP!Idle \in ApTask
    <3>1. "idle" \in ApStages /\ <<>> \in Seq(Tasks \cup Nat)
      BY DEF ApStages
    <3> QED
      BY <3>1 DEF ApTask
  <2>2. task \in [Tasks -> ApTask]
    BY <2>1
  <2>3. yielded \in [Tasks -> Seq(ApChunk)]
    <3>1. <<>> \in Seq(ApChunk)
      OBVIOUS
    <3> QED
      BY <3>1
  <2> QED
    BY <2>2, <2>3 DEF ApTypes, ApAssumptions
<1>2. ApHolding = {}
  BY DEF ApHolding, ApHeldStages
<1>3. Cardinality(ApHolding) = 0
  BY <1>2, FS_EmptySet
<1>4. permits + Cardinality(ApHolding) = config.permits
  BY <1>1, <1>3 DEF ApTypes
<1>5. ASSUME NEW t \in Tasks PROVE ApTaskOk(config.job[t], task[t], yielded[t])
  <2>1. /\ task[t].stage = "idle" /\ task[t].next = 1 /\ yielded[t] = <<>> /\ Len(yielded[t]) = 0
    OBVIOUS
  <2> QED
    BY <2>1 DEF ApTaskOk, ApAssumptions
<1> QED
  BY <1>1, <1>4, <1>5 DEF ApInv

\* One task goes on: it keeps its permit, takes a free one or gives its own back.
LEMMA ApOneStep ==
  ASSUME ApAssumptions, ApInv, NEW t \in Tasks, config' = config,
         task' \in [Tasks -> ApTask], yielded' \in [Tasks -> Seq(ApChunk)],
         \A u \in Tasks \ {t} : task'[u] = task[u] /\ yielded'[u] = yielded[u],
         ApTaskOk(config.job[t], task'[t], yielded'[t]),
         \/ (t \in ApHolding <=> t \in ApHolding') /\ permits' = permits
         \/ t \notin ApHolding /\ t \in ApHolding' /\ permits > 0 /\ permits' = permits - 1
         \/ t \in ApHolding /\ t \notin ApHolding' /\ permits' = permits + 1
  PROVE  ApInv'
<1>1. \A u \in Tasks \ {t} : u \in ApHolding <=> u \in ApHolding'
  BY DEF ApHolding
<1>2. ApHolding \subseteq Tasks /\ ApHolding' \subseteq Tasks
  BY DEF ApHolding
<1>3. IsFiniteSet(ApHolding) /\ IsFiniteSet(ApHolding') /\ Cardinality(ApHolding) \in Nat
  BY <1>2, FS_Subset, FS_CardinalityType DEF ApAssumptions
<1>4. permits \in Nat /\ permits + Cardinality(ApHolding) = config.permits
  BY DEF ApInv, ApTypes
<1>5. permits' \in Nat /\ permits' + Cardinality(ApHolding') = config.permits
  <2>1. CASE (t \in ApHolding <=> t \in ApHolding') /\ permits' = permits
    <3>1. \A u : u \in ApHolding' <=> u \in ApHolding
      BY <1>1, <1>2, <2>1
    <3>2. ApHolding' = ApHolding
      BY <3>1
    <3> QED
      BY <1>4, <2>1, <3>2
  <2>2. CASE t \notin ApHolding /\ t \in ApHolding' /\ permits > 0 /\ permits' = permits - 1
    <3>1. ApHolding' = ApHolding \cup {t}
      BY <1>1, <1>2, <2>2
    <3>2. Cardinality(ApHolding') = Cardinality(ApHolding) + 1
      BY <1>3, <2>2, <3>1, FS_AddElement
    <3> DEFINE k == Cardinality(ApHolding)
               m == permits
    <3>3. k \in Nat /\ m \in Nat /\ m + k = config.permits /\ m > 0
      BY <1>3, <1>4, <2>2
    <3>4. permits' = m - 1 /\ Cardinality(ApHolding') = k + 1
      BY <2>2, <3>2
    <3> HIDE DEF k, m
    <3>5. m - 1 \in Nat /\ (m - 1) + (k + 1) = m + k
      BY <3>3
    <3> QED
      BY <3>3, <3>4, <3>5
  <2>3. CASE t \in ApHolding /\ t \notin ApHolding' /\ permits' = permits + 1
    <3>1. ApHolding' = ApHolding \ {t}
      BY <1>1, <1>2, <2>3
    <3>2. Cardinality(ApHolding') = Cardinality(ApHolding) - 1
      BY <1>3, <2>3, <3>1, FS_RemoveElement
    <3> DEFINE k == Cardinality(ApHolding)
               m == permits
    <3>3. k \in Nat /\ m \in Nat /\ m + k = config.permits /\ m >= 0
      BY <1>3, <1>4, <2>3
    <3>4. permits' = m + 1 /\ Cardinality(ApHolding') = k - 1
      BY <2>3, <3>2
    <3> HIDE DEF k, m
    <3>5. m + 1 \in Nat /\ (m + 1) + (k - 1) = m + k
      BY <3>3
    <3> QED
      BY <3>3, <3>4, <3>5
  <2> QED
    BY <2>1, <2>2, <2>3
<1>6. ApTypes'
  BY <1>5 DEF ApInv, ApTypes
<1>7. ASSUME NEW u \in Tasks PROVE ApTaskOk(config'.job[u], task'[u], yielded'[u])
  BY DEF ApInv
<1> QED
  BY <1>5, <1>6, <1>7 DEF ApInv

\* A task in another stage.
ApTo(x, s) == [x EXCEPT !.stage = s]

LEMMA ApToFacts ==
  ASSUME NEW x \in ApTask, NEW s \in ApStages
  PROVE  /\ ApTo(x, s) \in ApTask /\ ApTo(x, s).stage = s /\ ApTo(x, s).attempt = x.attempt
         /\ ApTo(x, s).next = x.next /\ ApTo(x, s).answer = x.answer
  BY DEF ApTask, ApTo

\* Go(): one task changes its stage, to one in which what it has yielded is all right.
LEMMA ApGoInv ==
  ASSUME ApAssumptions, ApInv, NEW t \in Tasks, NEW s \in ApStages, AP!Go(t, s),
         config' = config, yielded' = yielded,
         s \in {"idle", "sleep", "throttle"} => yielded[t] = <<>>,
         config.job[t] = "batch" =>
             s \notin {"throttle", "request", "consumer", "nested", "left", "sleep", "done"},
         \/ (task[t].stage \in ApHeldStages <=> s \in ApHeldStages) /\ permits' = permits
         \/ task[t].stage \notin ApHeldStages /\ s \in ApHeldStages /\ permits > 0 /\ permits' = permits - 1
         \/ task[t].stage \in ApHeldStages /\ s \notin ApHeldStages /\ permits' = permits + 1
  PROVE  ApInv'
<1>1. /\ task \in [Tasks -> ApTask] /\ task[t] \in ApTask /\ yielded \in [Tasks -> Seq(ApChunk)]
      /\ ApTaskOk(config.job[t], task[t], yielded[t])
  BY DEF ApInv, ApTypes
<1>2. task' = [task EXCEPT ![t] = ApTo(task[t], s)]
  BY DEF AP!Go, ApTo
<1>3. /\ task' \in [Tasks -> ApTask] /\ task'[t] = ApTo(task[t], s)
      /\ \A u \in Tasks \ {t} : task'[u] = task[u] /\ yielded'[u] = yielded[u]
  BY <1>1, <1>2, ApToFacts
<1>4. /\ task'[t].stage = s /\ task'[t].attempt = task[t].attempt /\ task'[t].next = task[t].next
      /\ task'[t].answer = task[t].answer
  BY <1>1, <1>3, ApToFacts
<1>5. ApTaskOk(config.job[t], task'[t], yielded'[t])
  BY <1>1, <1>4 DEF ApTaskOk
<1>6. /\ t \in ApHolding <=> task[t].stage \in ApHeldStages
      /\ t \in ApHolding' <=> s \in ApHeldStages
  BY <1>4 DEF ApHolding
<1> QED
  BY <1>1, <1>3, <1>5, <1>6, ApOneStep

-----------------------------------------------------------------------------
(* Steps.                                                                    *)

\* Steps of complete() and stream_text() that only change the stage.
LEMMA ApRequestInv ==
  ASSUME ApAssumptions, ApInv, NEW t \in Tasks,
         \/ AP!Start(t) \/ AP!Throttle(t) \/ AP!Resume(t) \/ AP!Nested(t) \/ AP!StreamEnds(t)
         \/ AP!Finalize(t) \/ \E retryable \in BOOLEAN : AP!RequestFails(t, retryable)
  PROVE  ApInv'
<1>1. /\ task[t] \in ApTask /\ ApTaskOk(config.job[t], task[t], yielded[t]) /\ yielded[t] \in Seq(ApChunk)
      /\ permits \in Nat
  BY DEF ApInv, ApTypes
<1> USE DEF ApStages, ApHeldStages, AP!At, AP!Acquire, AP!Release
<1>2. CASE AP!Start(t)
  <2>1. /\ task[t].stage = "idle" /\ config' = config /\ permits' = permits /\ yielded' = yielded
        /\ \/ config.job[t] = "batch" /\ AP!Go(t, "wait_create")
           \/ config.job[t] # "batch" /\ AP!Go(t, "throttle")
    BY <1>2 DEF AP!Start, AP!Job
  <2>2. yielded[t] = <<>>
    BY <1>1, <2>1 DEF ApTaskOk
  <2> QED
    BY <2>1, <2>2, ApGoInv
<1>3. CASE AP!Throttle(t)
  <2>1. task[t].stage = "throttle" /\ AP!Go(t, "request") /\ config' = config /\ yielded' = yielded
        /\ permits > 0 /\ permits' = permits - 1
    BY <1>3 DEF AP!Throttle
  <2>2. config.job[t] # "batch"
    BY <1>1, <2>1 DEF ApTaskOk
  <2> QED
    BY <2>1, <2>2, ApGoInv
<1>4. CASE AP!Resume(t)
  <2>1. task[t].stage = "consumer" /\ config' = config /\ yielded' = yielded /\ permits' = permits
        /\ (AP!Go(t, "request") \/ AP!Go(t, "left") \/ AP!Go(t, "nested"))
    BY <1>4 DEF AP!Resume
  <2>2. config.job[t] # "batch"
    BY <1>1, <2>1 DEF ApTaskOk
  <2> QED
    BY <2>1, <2>2, ApGoInv
<1>5. CASE AP!Nested(t)
  <2>1. task[t].stage = "nested" /\ AP!Go(t, "request") /\ config' = config /\ yielded' = yielded
        /\ permits' = permits
    BY <1>5 DEF AP!Nested
  <2>2. config.job[t] # "batch"
    BY <1>1, <2>1 DEF ApTaskOk
  <2> QED
    BY <2>1, <2>2, ApGoInv
<1>6. CASE AP!StreamEnds(t) \/ AP!Finalize(t)
  <2>1. task[t].stage \in {"request", "left"} /\ AP!Go(t, "done") /\ config' = config
        /\ yielded' = yielded /\ permits' = permits + 1
    BY <1>6 DEF AP!StreamEnds, AP!Finalize
  <2>2. config.job[t] # "batch"
    BY <1>1, <2>1 DEF ApTaskOk
  <2> QED
    BY <2>1, <2>2, ApGoInv
<1>7. ASSUME NEW retryable \in BOOLEAN, AP!RequestFails(t, retryable) PROVE ApInv'
  <2>1. task[t].stage = "request" /\ config' = config /\ yielded' = yielded /\ permits' = permits + 1
        /\ ((AP!Go(t, "sleep") /\ yielded[t] = <<>>) \/ AP!Go(t, "failed"))
    BY <1>7 DEF AP!RequestFails, AP!should_retry
  <2>2. config.job[t] # "batch"
    BY <1>1, <2>1 DEF ApTaskOk
  <2> QED
    BY <2>1, <2>2, ApGoInv
<1> QED
  BY <1>2, <1>3, <1>4, <1>5, <1>6, <1>7

\* Steps of a message batch that only change the stage, and cancellations.
LEMMA ApBatchInv ==
  ASSUME ApAssumptions, ApInv, NEW t \in Tasks,
         \/ AP!Wait(t) \/ AP!create_message_batch(t) \/ AP!wait_for_message_batch(t) \/ AP!Poll(t)
         \/ AP!BatchFails(t) \/ AP!Cancel(t)
  PROVE  ApInv'
<1>1. /\ task[t] \in ApTask /\ ApTaskOk(config.job[t], task[t], yielded[t]) /\ permits \in Nat
  BY DEF ApInv, ApTypes
<1> USE DEF ApStages, ApHeldStages, AP!At, AP!Acquire, AP!Release
<1>2. CASE AP!Wait(t)
  <2>1. task[t].stage \in {"wait_create", "wait_retrieve", "wait_results"} /\ config' = config
        /\ yielded' = yielded /\ permits > 0 /\ permits' = permits - 1
        /\ (AP!Go(t, "create") \/ AP!Go(t, "retrieve") \/ AP!Go(t, "results"))
    BY <1>2 DEF AP!Wait
  <2> QED
    BY <2>1, ApGoInv
<1>3. CASE AP!create_message_batch(t)
  <2>1. task[t].stage = "create" /\ config' = config /\ yielded' = yielded /\ permits' = permits + 1
        /\ AP!Go(t, "wait_retrieve")
    BY <1>3 DEF AP!create_message_batch
  <2> QED
    BY <2>1, ApGoInv
<1>4. CASE AP!wait_for_message_batch(t)
  <2>1. task[t].stage = "retrieve" /\ config' = config /\ yielded' = yielded /\ permits' = permits + 1
        /\ (AP!Go(t, "wait_results") \/ AP!Go(t, "poll") \/ AP!Go(t, "failed"))
    BY <1>4 DEF AP!wait_for_message_batch
  <2> QED
    BY <2>1, ApGoInv
<1>5. CASE AP!Poll(t)
  <2>1. task[t].stage = "poll" /\ config' = config /\ yielded' = yielded /\ permits' = permits
        /\ (AP!Go(t, "wait_retrieve") \/ AP!Go(t, "failed"))
    BY <1>5 DEF AP!Poll
  <2> QED
    BY <2>1, ApGoInv
<1>6. CASE AP!BatchFails(t)
  <2>1. task[t].stage \in {"create", "retrieve", "results"} /\ config' = config /\ yielded' = yielded
        /\ permits' = permits + 1 /\ AP!Go(t, "failed")
    BY <1>6 DEF AP!BatchFails
  <2> QED
    BY <2>1, ApGoInv
<1>7. CASE AP!Cancel(t)
  <2>1. config' = config /\ yielded' = yielded
    BY <1>7 DEF AP!Cancel
  <2>2. CASE /\ task[t].stage \in {"throttle", "sleep", "wait_create", "wait_retrieve", "poll", "wait_results"}
             /\ AP!Go(t, "failed") /\ permits' = permits
    BY <2>1, <2>2, ApGoInv
  <2>3. CASE /\ task[t].stage \in {"request", "create", "retrieve", "results"}
             /\ AP!Go(t, "failed") /\ permits' = permits + 1
    BY <2>1, <2>3, ApGoInv
  <2>4. CASE task[t].stage \in {"consumer", "nested"} /\ AP!Go(t, "left") /\ permits' = permits
    <3>1. config.job[t] # "batch"
      BY <1>1, <2>4 DEF ApTaskOk
    <3> QED
      BY <2>1, <2>4, <3>1, ApGoInv
  <2> QED
    BY <1>7, <2>2, <2>3, <2>4 DEF AP!Cancel
<1> QED
  BY <1>2, <1>3, <1>4, <1>5, <1>6, <1>7

\* A task that goes on to the stage s with an answer.
ApAnswered(x, s, v) == [x EXCEPT !.stage = s, !.answer = v]

LEMMA ApAnsweredFacts ==
  ASSUME NEW x \in ApTask, NEW s \in ApStages, NEW v \in Seq(Tasks \cup Nat)
  PROVE  /\ ApAnswered(x, s, v) \in ApTask /\ ApAnswered(x, s, v).stage = s
         /\ ApAnswered(x, s, v).attempt = x.attempt /\ ApAnswered(x, s, v).next = x.next
         /\ ApAnswered(x, s, v).answer = v
  BY DEF ApTask, ApAnswered

LEMMA ApAnswerInv ==
  ASSUME ApAssumptions, ApInv, NEW t \in Tasks, NEW s \in {"done", "failed"},
         NEW v \in Seq(Tasks \cup Nat), task' = [task EXCEPT ![t] = ApAnswered(task[t], s, v)],
         config' = config, yielded' = yielded, task[t].stage \in ApHeldStages, permits' = permits + 1,
         config.job[t] = "batch" => v = [p \in 1..Prompts |-> p]
  PROVE  ApInv'
<1>1. /\ task \in [Tasks -> ApTask] /\ task[t] \in ApTask /\ yielded \in [Tasks -> Seq(ApChunk)]
      /\ ApTaskOk(config.job[t], task[t], yielded[t]) /\ s \in ApStages /\ s \notin ApHeldStages
  BY DEF ApInv, ApTypes, ApStages, ApHeldStages
<1>2. /\ task' \in [Tasks -> ApTask] /\ task'[t] = ApAnswered(task[t], s, v)
      /\ \A u \in Tasks \ {t} : task'[u] = task[u] /\ yielded'[u] = yielded[u]
  BY <1>1, ApAnsweredFacts
<1>3. /\ task'[t].stage = s /\ task'[t].attempt = task[t].attempt /\ task'[t].next = task[t].next
      /\ task'[t].answer = v
  <2> DEFINE x == ApAnswered(task[t], s, v)
  <2>1. /\ x.stage = s /\ x.attempt = task[t].attempt /\ x.next = task[t].next /\ x.answer = v
    BY <1>1, ApAnsweredFacts
  <2> HIDE DEF x
  <2>2. task'[t] = x
    BY <1>2 DEF x
  <2> QED
    BY <2>1, <2>2
<1>4. ApTaskOk(config.job[t], task'[t], yielded'[t])
  BY <1>1, <1>3 DEF ApTaskOk
<1>5. t \in ApHolding /\ t \notin ApHolding'
  BY <1>1, <1>3 DEF ApHolding
<1> QED
  BY <1>1, <1>2, <1>4, <1>5, ApOneStep

LEMMA ApResponseInv ==
  ASSUME ApAssumptions, ApInv, NEW t \in Tasks, NEW r \in AP!Responses, AP!Response(t, r)
  PROVE  ApInv'
<1>1. /\ task[t].stage = "request" /\ config.job[t] = "complete" /\ permits' = permits + 1
      /\ config' = config /\ yielded' = yielded
  BY DEF AP!Response, AP!At, AP!Job, AP!Release
<1>2. <<t>> \in Seq(Tasks \cup Nat) /\ <<>> \in Seq(Tasks \cup Nat)
  OBVIOUS
<1>3. \E s \in {"done", "failed"}, v \in Seq(Tasks \cup Nat) :
          task' = [task EXCEPT ![t] = ApAnswered(task[t], s, v)]
  <2>1. CASE AP!completion_response_from_message(r)
    <3>1. task' = [task EXCEPT ![t] = ApAnswered(task[t], "done", <<t>>)]
      BY <2>1 DEF AP!Response, ApAnswered
    <3> QED
      BY <1>2, <3>1
  <2>2. CASE ~AP!completion_response_from_message(r)
    <3>1. task' = [task EXCEPT ![t] = ApAnswered(task[t], "failed", <<>>)]
      BY <2>2 DEF AP!Response, ApAnswered
    <3> QED
      BY <1>2, <3>1
  <2> QED
    BY <2>1, <2>2
<1> QED
  BY <1>1, <1>3, ApAnswerInv DEF ApHeldStages

\* The results of a batch in the order of its prompts: results that are usable have one
\* item for each prompt.
LEMMA ApInPlace ==
  ASSUME NEW items \in AP!Items, AP!Usable(items)
  PROVE  AP!completion_responses_from_batch_results(items) = [p \in 1..Prompts |-> p]
<1> SUFFICES ASSUME NEW p \in 1..Prompts
             PROVE  items[AP!SelectInSeq(items, LAMBDA item : item.id = p)].id = p
  BY DEF AP!completion_responses_from_batch_results
<1> DEFINE I == {i \in 1..Len(items) : items[i].id = p}
<1>1. DOMAIN items = 1..Len(items)
  BY DEF AP!Items
<1>2. PICK k \in 1..Len(items) : items[k].id = p
  BY <1>1 DEF AP!Usable
<1>3. I = {k}
  BY <1>1, <1>2 DEF AP!Usable
<1>4. AP!SelectInSeq(items, LAMBDA item : item.id = p) = k
  <2>1. AP!SelectInSeq(items, LAMBDA item : item.id = p) = IF I # {} THEN AP!Min(I) ELSE 0
    BY DEF AP!SelectInSeq
  <2>2. AP!Min({k}) = k
    BY DEF AP!Min
  <2> QED
    BY <1>3, <2>1, <2>2
<1> QED
  BY <1>2, <1>4

LEMMA ApResultsInv ==
  ASSUME ApAssumptions, ApInv, NEW t \in Tasks, NEW items \in AP!Items,
         AP!retrieve_message_batch_results(t, items)
  PROVE  ApInv'
<1>1. /\ task[t].stage = "results" /\ permits' = permits + 1 /\ config' = config /\ yielded' = yielded
  BY DEF AP!retrieve_message_batch_results, AP!At, AP!Release
<1>2. CASE AP!Usable(items)
  <2> DEFINE v == [p \in 1..Prompts |-> p]
  <2>1. v \in Seq(Tasks \cup Nat)
    <3>1. Prompts \in Nat
      BY DEF ApAssumptions
    <3>2. \A p \in 1..Prompts : p \in Tasks \cup Nat
      OBVIOUS
    <3> QED
      BY <3>1, <3>2
  <2>2. task' = [task EXCEPT ![t] = ApAnswered(task[t], "done", v)]
    <3>1. task' = [task EXCEPT ![t].stage = "done", ![t].answer = AP!completion_responses_from_batch_results(items)]
      BY <1>2 DEF AP!retrieve_message_batch_results
    <3>2. AP!completion_responses_from_batch_results(items) = v
      BY <1>2, ApInPlace
    <3> HIDE DEF v
    <3> QED
      BY <3>1, <3>2 DEF ApAnswered
  <2> HIDE DEF v
  <2>3. config.job[t] = "batch" => v = [p \in 1..Prompts |-> p]
    BY DEF v
  <2> QED
    BY <1>1, <2>1, <2>2, <2>3, ApAnswerInv DEF ApHeldStages
<1>3. CASE ~AP!Usable(items)
  <2>1. AP!Go(t, "failed")
    BY <1>3 DEF AP!retrieve_message_batch_results, AP!Go
  <2> QED
    BY <1>1, <2>1, ApGoInv DEF ApStages, ApHeldStages
<1> QED
  BY <1>2, <1>3

ApYielding(x) == [x EXCEPT !.stage = "consumer", !.next = x.next + 1]
ApRetrying(x) == [x EXCEPT !.stage = "throttle", !.attempt = x.attempt + 1, !.next = 1]

LEMMA ApYieldingFacts ==
  ASSUME NEW x \in ApTask
  PROVE  /\ ApYielding(x) \in ApTask /\ ApYielding(x).stage = "consumer"
         /\ ApYielding(x).attempt = x.attempt /\ ApYielding(x).next = x.next + 1
         /\ ApRetrying(x) \in ApTask /\ ApRetrying(x).stage = "throttle" /\ ApRetrying(x).next = 1
<1>1. "consumer" \in ApStages /\ "throttle" \in ApStages
  BY DEF ApStages, ApHeldStages
<1>2. /\ ApYielding(x) \in ApTask /\ ApYielding(x).stage = "consumer"
      /\ ApYielding(x).attempt = x.attempt /\ ApYielding(x).next = x.next + 1
  <2> DEFINE n == x.next + 1
  <2>1. n \in Nat
    BY DEF ApTask
  <2> HIDE DEF n
  <2>2. [x EXCEPT !.stage = "consumer", !.next = n] \in ApTask
    BY <1>1, <2>1 DEF ApTask
  <2>3. /\ [x EXCEPT !.stage = "consumer", !.next = n].stage = "consumer"
        /\ [x EXCEPT !.stage = "consumer", !.next = n].attempt = x.attempt
        /\ [x EXCEPT !.stage = "consumer", !.next = n].next = n
    BY DEF ApTask
  <2> QED
    BY <2>2, <2>3 DEF ApYielding, n
<1>3. ApRetrying(x).stage = "throttle" /\ ApRetrying(x).next = 1
  BY DEF ApTask, ApRetrying
<1>4. ApRetrying(x) \in ApTask
  <2> DEFINE n == x.attempt + 1
  <2>1. n \in Nat
    BY DEF ApTask
  <2> HIDE DEF n
  <2>2. [x EXCEPT !.stage = "throttle", !.attempt = n, !.next = 1] \in ApTask
    BY <1>1, <2>1 DEF ApTask
  <2> QED
    BY <2>2 DEF ApRetrying, n
<1> QED
  BY <1>2, <1>3, <1>4

LEMMA ApYieldInv == ASSUME ApAssumptions, ApInv, NEW t \in Tasks, AP!Yield(t) PROVE ApInv'
<1> DEFINE x == task[t]
           y == yielded[t]
           c == <<x.attempt, x.next>>
<1>1. /\ x.stage = "request" /\ x.next <= Chunks /\ permits' = permits /\ config' = config
      /\ config.job[t] # "batch"
      /\ yielded' = [yielded EXCEPT ![t] = Append(y, c)]
      /\ task' = [task EXCEPT ![t] = ApYielding(x)]
  BY DEF AP!Yield, AP!At, AP!Streams, AP!Job, ApYielding
<1>2. /\ task \in [Tasks -> ApTask] /\ x \in ApTask /\ yielded \in [Tasks -> Seq(ApChunk)]
      /\ y \in Seq(ApChunk) /\ ApTaskOk(config.job[t], x, y) /\ Chunks \in Nat
  BY DEF ApInv, ApTypes, ApAssumptions
<1>3. c \in ApChunk /\ x.next \in Nat
  BY <1>2 DEF ApTask, ApChunk
<1> HIDE DEF c
<1>4. /\ Append(y, c) \in Seq(ApChunk) /\ Len(Append(y, c)) = Len(y) + 1 /\ Len(y) \in Nat
      /\ Append(y, c)[Len(y) + 1] = c
      /\ \A i \in 1..Len(y) : Append(y, c)[i] = y[i]
  BY <1>2, <1>3
<1>5. /\ task' \in [Tasks -> ApTask] /\ task'[t] = ApYielding(x)
      /\ yielded' \in [Tasks -> Seq(ApChunk)] /\ yielded'[t] = Append(y, c)
      /\ \A u \in Tasks \ {t} : task'[u] = task[u] /\ yielded'[u] = yielded[u]
  BY <1>1, <1>2, <1>4, ApYieldingFacts
<1>6. /\ task'[t].stage = "consumer" /\ task'[t].attempt = x.attempt /\ task'[t].next = x.next + 1
  BY <1>2, <1>5, ApYieldingFacts
<1>7. x.next = Len(y) + 1
  BY <1>2 DEF ApTaskOk
<1>8. \A i \in 1..Len(Append(y, c)) : Append(y, c)[i] = <<x.attempt, i>>
  <2> TAKE i \in 1..Len(Append(y, c))
  <2>1. i \in 1..Len(y) \/ i = Len(y) + 1
    BY <1>4
  <2>2. CASE i \in 1..Len(y)
    BY <1>2, <1>4, <2>2 DEF ApTaskOk
  <2>3. CASE i = Len(y) + 1
    BY <1>4, <1>7, <2>3 DEF c
  <2> QED
    BY <2>1, <2>2, <2>3
<1>9. ApTaskOk(config.job[t], task'[t], yielded'[t])
  BY <1>1, <1>2, <1>3, <1>4, <1>5, <1>6, <1>7, <1>8 DEF ApTaskOk
<1>10. t \in ApHolding /\ t \in ApHolding'
  BY <1>1, <1>6 DEF ApHolding, ApHeldStages
<1> QED
  BY <1>1, <1>5, <1>9, <1>10, ApOneStep

LEMMA ApRetryInv == ASSUME ApAssumptions, ApInv, NEW t \in Tasks, AP!Retry(t) PROVE ApInv'
<1> DEFINE x == task[t]
<1>1. /\ x.stage = "sleep" /\ permits' = permits /\ config' = config /\ yielded' = yielded
      /\ task' = [task EXCEPT ![t] = ApRetrying(x)]
  BY DEF AP!Retry, AP!At, ApRetrying
<1>2. /\ task \in [Tasks -> ApTask] /\ x \in ApTask /\ yielded \in [Tasks -> Seq(ApChunk)]
      /\ ApTaskOk(config.job[t], x, yielded[t]) /\ Chunks \in Nat
  BY DEF ApInv, ApTypes, ApAssumptions
<1>3. yielded[t] = <<>> /\ Len(yielded[t]) = 0 /\ config.job[t] # "batch"
  BY <1>1, <1>2 DEF ApTaskOk
<1>4. /\ task' \in [Tasks -> ApTask] /\ task'[t] = ApRetrying(x)
      /\ \A u \in Tasks \ {t} : task'[u] = task[u] /\ yielded'[u] = yielded[u]
  BY <1>1, <1>2, ApYieldingFacts
<1>5. task'[t].stage = "throttle" /\ task'[t].next = 1
  BY <1>2, <1>4, ApYieldingFacts
<1>6. ApTaskOk(config.job[t], task'[t], yielded'[t])
  BY <1>1, <1>2, <1>3, <1>5 DEF ApTaskOk
<1>7. t \notin ApHolding /\ t \notin ApHolding'
  BY <1>1, <1>5 DEF ApHolding, ApHeldStages
<1> QED
  BY <1>1, <1>2, <1>4, <1>6, <1>7, ApOneStep

LEMMA ApNextInv == ASSUME ApAssumptions, ApInv, [AP!Next]_(AP!vars) PROVE ApInv'
<1>1. ASSUME config' = config, task' = task, permits' = permits, yielded' = yielded PROVE ApInv'
  BY <1>1 DEF ApInv, ApTypes, ApHolding
<1>2. CASE UNCHANGED AP!vars
  BY <1>1, <1>2 DEF AP!vars
<1>3. ASSUME NEW status \in {"ended", "failed", "canceled", "expired"}, AP!Processed(status) PROVE ApInv'
  BY <1>1, <1>3 DEF AP!Processed
<1>4. ASSUME NEW t \in Tasks, NEW r \in AP!Responses, AP!Response(t, r) PROVE ApInv'
  BY <1>4, ApResponseInv
<1>5. ASSUME NEW t \in Tasks, NEW items \in AP!Items, AP!retrieve_message_batch_results(t, items) PROVE ApInv'
  BY <1>5, ApResultsInv
<1>6. ASSUME NEW t \in Tasks,
             \/ AP!Start(t) \/ AP!Throttle(t) \/ AP!Resume(t) \/ AP!Nested(t) \/ AP!StreamEnds(t)
             \/ AP!Finalize(t) \/ \E retryable \in BOOLEAN : AP!RequestFails(t, retryable)
      PROVE  ApInv'
  BY <1>6, ApRequestInv
<1>7. ASSUME NEW t \in Tasks,
             \/ AP!Wait(t) \/ AP!create_message_batch(t) \/ AP!wait_for_message_batch(t) \/ AP!Poll(t)
             \/ AP!BatchFails(t) \/ AP!Cancel(t)
      PROVE  ApInv'
  BY <1>7, ApBatchInv
<1>8. ASSUME NEW t \in Tasks, AP!Yield(t) \/ AP!Retry(t) PROVE ApInv'
  BY <1>8, ApYieldInv, ApRetryInv
<1> QED
  BY <1>2, <1>3, <1>4, <1>5, <1>6, <1>7, <1>8 DEF AP!Next

LEMMA ApAlways == ASSUME ApAssumptions PROVE AP!Spec => []ApInv
<1>1. AP!Init => ApInv
  BY ApInitInv
<1>2. ApInv /\ [AP!Next]_(AP!vars) => ApInv'
  BY ApNextInv
<1> QED
  BY <1>1, <1>2, PTL DEF AP!Spec

\* A permit of the request semaphore is free or in the hands of a request or of a suspended
\* stream, whatever failed, timed out or was cancelled (_throttle_factory, stream_text,
\* create_with_retry): none is lost and none is returned twice.
THEOREM AnthropicPermits == ASSUME ApAssumptions PROVE AP!Spec => []AP!ConnectionsAccounted
<1>1. ApInv => AP!ConnectionsAccounted
  <2>1. ApHolding = {t \in Tasks : AP!Throttled(t)}
    BY DEF ApHolding, ApHeldStages, AP!Throttled
  <2> QED
    BY <2>1, ApSameCardinality DEF ApInv, AP!ConnectionsAccounted
<1> QED
  BY <1>1, ApAlways, PTL

\* The chunks a consumer gets are the beginning of one response, in order, and all of it
\* when the stream ends: a retry of stream_text() never repeats or mixes what was yielded.
THEOREM AnthropicInOrder == ASSUME ApAssumptions PROVE AP!Spec => []AP!EmittedInOrder
<1>1. ASSUME ApInv PROVE AP!EmittedInOrder
  <2> SUFFICES ASSUME NEW t \in Tasks
               PROVE  /\ \A i \in DOMAIN yielded[t] : yielded[t][i] = <<yielded[t][1][1], i>>
                      /\ task[t].next > Chunks => Len(yielded[t]) = Chunks
    BY DEF AP!EmittedInOrder, AP!At
  <2>1. /\ task[t] \in ApTask /\ yielded[t] \in Seq(ApChunk) /\ Chunks \in Nat
        /\ ApTaskOk(config.job[t], task[t], yielded[t])
    BY <1>1 DEF ApInv, ApTypes, ApAssumptions
  <2>2. DOMAIN yielded[t] = 1..Len(yielded[t]) /\ Len(yielded[t]) \in Nat
    BY <2>1
  <2>3. ASSUME NEW i \in DOMAIN yielded[t] PROVE yielded[t][i] = <<yielded[t][1][1], i>>
    <3>1. 1 \in 1..Len(yielded[t]) /\ i \in 1..Len(yielded[t])
      BY <2>2
    <3>2. yielded[t][1] = <<task[t].attempt, 1>> /\ yielded[t][i] = <<task[t].attempt, i>>
      BY <2>1, <3>1 DEF ApTaskOk
    <3> QED
      BY <3>2
  <2>4. task[t].next > Chunks => Len(yielded[t]) = Chunks
    BY <2>1, <2>2 DEF ApTaskOk, ApTask
  <2> QED
    BY <2>3, <2>4
<1> QED
  BY <1>1, ApAlways, PTL

\* complete_batch() returns the answer of every prompt in its place, in whatever order the
\* results arrive; incomplete, repeated or failed results are never returned.
THEOREM AnthropicBatchInPlace == ASSUME ApAssumptions PROVE AP!Spec => []AP!ReportIsTrue
<1>1. ApInv => AP!ReportIsTrue
  BY DEF ApInv, ApTaskOk, AP!ReportIsTrue, AP!At, AP!Job
<1> QED
  BY <1>1, ApAlways, PTL

-----------------------------------------------------------------------------
\* The members of a sequence.
Members(s) == {s[i] : i \in DOMAIN s}

LEMMA MembersJoined ==
  ASSUME NEW old \in Seq(Nat), NEW more \in Seq(Nat)
  PROVE  /\ old \o more \in Seq(Nat) /\ Len(old \o more) = Len(old) + Len(more)
         /\ Members(old \o more) = Members(old) \cup Members(more)
<1>1. old \o more \in Seq(Nat) /\ Len(old \o more) = Len(old) + Len(more) /\ Len(old) \in Nat /\ Len(more) \in Nat
      /\ \A i \in 1..Len(old) : (old \o more)[i] = old[i]
  OBVIOUS
<1>6. \A j \in 1..Len(more) : (old \o more)[Len(old) + j] = more[j]
  OBVIOUS
<1>2. DOMAIN old = 1..Len(old) /\ DOMAIN more = 1..Len(more)
      /\ DOMAIN (old \o more) = 1..(Len(old) + Len(more))
  BY <1>1
<1>3. ASSUME NEW u \in Members(old \o more) PROVE u \in Members(old) \/ u \in Members(more)
  <2>1. PICK i \in 1..(Len(old) + Len(more)) : (old \o more)[i] = u
    BY <1>2, <1>3 DEF Members
  <2>2. CASE i <= Len(old)
    <3>1. i \in 1..Len(old) /\ old[i] = u
      BY <1>1, <2>1, <2>2
    <3> QED
      BY <3>1, <1>2 DEF Members
  <2>3. CASE i > Len(old)
    <3>1. i - Len(old) \in 1..Len(more) /\ i = Len(old) + (i - Len(old))
      BY <1>1, <2>3
    <3>2. more[i - Len(old)] = u
      BY <1>6, <2>1, <3>1
    <3> QED
      BY <3>1, <3>2, <1>2 DEF Members
  <2> QED
    BY <2>2, <2>3, <1>1
<1>4. ASSUME NEW u \in Members(old) PROVE u \in Members(old \o more)
  <2>1. PICK i \in 1..Len(old) : old[i] = u
    BY <1>2, <1>4 DEF Members
  <2>2. i \in 1..(Len(old) + Len(more)) /\ (old \o more)[i] = u
    BY <1>1, <2>1
  <2> QED
    BY <2>2, <1>2 DEF Members
<1>5. ASSUME NEW u \in Members(more) PROVE u \in Members(old \o more)
  <2>1. PICK i \in 1..Len(more) : more[i] = u
    BY <1>2, <1>5 DEF Members
  <2>2. Len(old) + i \in 1..(Len(old) + Len(more)) /\ (old \o more)[Len(old) + i] = u
    BY <1>1, <1>6, <2>1
  <2> QED
    BY <2>2, <1>2 DEF Members
<1> QED
  BY <1>1, <1>3, <1>4, <1>5

LEMMA MembersFinite ==
  ASSUME NEW s \in Seq(Nat)
  PROVE  IsFiniteSet(Members(s)) /\ Members(s) \in SUBSET Nat
<1>1. Len(s) \in Nat /\ DOMAIN s = 1..Len(s) /\ s \in [1..Len(s) -> Nat]
  OBVIOUS
<1>2. Members(s) \in SUBSET Nat
  BY <1>1 DEF Members
<1>3. s \in [1..Len(s) -> Members(s)] /\ \A t \in Members(s) : \E i \in 1..Len(s) : s[i] = t
  BY <1>1 DEF Members
<1>4. s \in Surjection(1..Len(s), Members(s))
  BY <1>3 DEF Surjection
<1>5. IsFiniteSet(1..Len(s))
  BY <1>1, FS_Interval
<1> QED
  BY <1>2, <1>4, <1>5, FS_Surjection

-----------------------------------------------------------------------------
(* KafkaPoison. *)
KP == INSTANCE KafkaPoison

KpPolicies == {"none", "fail_closed", "log_and_continue", "dlq_and_continue", "dlq_and_fail_closed"}
KpAssumptions ==
    \A c \in Configs : c.batching \in BOOLEAN /\ c.write_batch \in BOOLEAN /\ c.policy \in KpPolicies

\* The letters of the capture in progress that are stored are the first of its records.
KpInv ==
    /\ config \in Configs
    /\ call \in {"closed", "streaming", "capture"}
    /\ position \in Nat /\ committed \in Nat /\ sent \in Nat
    /\ batch \in Seq(Nat) /\ store \in Seq(Nat)
    /\ call # "closed" => position = committed + Len(batch)
    /\ \A i \in 1..Len(batch) : batch[i] = committed + i
    /\ call = "closed" => batch = <<>>
    /\ call # "capture" => sent = 0
    /\ call = "capture" =>
          /\ batch # <<>> /\ KP!Captures /\ sent < Len(KP!Unit)
          /\ \A i \in 1..sent : KP!Unit[i] \in KP!ToSet(store)
          /\ config.batching /\ config.write_batch => sent = 0
    /\ KP!RowsKept

KpStats == [errors : Nat, drops : Nat, dlq_writes : Nat, dlq_failures : Nat, log_only : Nat,
            fail_closed : Nat, classes : [KP!Classes -> Nat]]

\* The sum of the classes, and one class with n records more.
KpTotal(f) ==
    f["binding_mismatch"] + f["schema_evolution"] + f["schema_validation"] + f["deserialization"]
    + f["unknown"]
KpMore(f, c, n) == [f EXCEPT ![c] = f[c] + n]
KpSum(x) == KpTotal(x.classes)

\* Counters and outcomes agree, with n records under way and w of their letters written.
KpBalance(x, n, w) ==
    /\ x \in KpStats
    /\ x.dlq_writes + w <= Len(store)
    /\ x.drops + n <= x.errors
    /\ KP!Captures => KpSum(x) = x.dlq_writes + x.dlq_failures + n
    /\ KP!Policy = "log_and_continue" => KpSum(x) = x.log_only
    /\ ~KP!should_continue_after_poison_record => KpSum(x) = x.fail_closed

\* While letters are written, their records are counted and have no outcome yet.
KpReport ==
    IF call = "capture" THEN KpBalance(stats, Len(KP!Unit), sent) ELSE KpBalance(stats, 0, 0)

-----------------------------------------------------------------------------
LEMMA KpSplitFacts ==
  ASSUME NEW s \in Seq(Nat), NEW n \in Nat, n <= Len(s)
  PROVE  /\ SubSeq(s, n + 1, Len(s)) \in Seq(Nat)
         /\ Len(SubSeq(s, n + 1, Len(s))) = Len(s) - n
         /\ \A i \in 1..(Len(s) - n) : SubSeq(s, n + 1, Len(s))[i] = s[n + i]
<1>1. SubSeq(s, n + 1, Len(s)) \in Seq(Nat) /\ Len(SubSeq(s, n + 1, Len(s))) = Len(s) - n
  OBVIOUS
<1>2. ASSUME NEW i \in 1..(Len(s) - n) PROVE SubSeq(s, n + 1, Len(s))[i] = s[n + i]
  <2>1. Len(s) \in Nat /\ i \in Nat /\ n + i \in 1..Len(s)
    OBVIOUS
  <2> QED
    BY <1>1, <2>1
<1> QED
  BY <1>1, <1>2

\* The records that fail together are the first of the batch, and the rest follow them.
LEMMA KpUnit ==
  ASSUME KpAssumptions, KpInv, batch # <<>>
  PROVE  /\ KP!Unit \in Seq(Nat) /\ Len(KP!Unit) \in 1..Len(batch)
         /\ \A i \in 1..Len(KP!Unit) : KP!Unit[i] = committed + i
         /\ KP!Rest \in Seq(Nat) /\ Len(KP!Rest) = Len(batch) - Len(KP!Unit)
         /\ \A i \in 1..Len(KP!Rest) : KP!Rest[i] = committed + Len(KP!Unit) + i
         /\ KP!Last(KP!Unit) = committed + Len(KP!Unit)
<1>1. batch \in Seq(Nat) /\ Len(batch) \in Nat /\ Len(batch) > 0 /\ committed \in Nat
      /\ \A i \in 1..Len(batch) : batch[i] = committed + i
  BY DEF KpInv
<1>2. Head(batch) = committed + 1
  BY <1>1
<1>3. /\ KP!Unit \in Seq(Nat) /\ Len(KP!Unit) \in 1..Len(batch)
      /\ \A i \in 1..Len(KP!Unit) : KP!Unit[i] = committed + i
  <2>1. CASE config.batching
    BY <1>1, <2>1 DEF KP!Unit
  <2>2. CASE ~config.batching
    <3>1. KP!Unit = <<committed + 1>>
      BY <2>2, <1>2 DEF KP!Unit
    <3> QED
      BY <1>1, <3>1
  <2> QED
    BY <2>1, <2>2
<1> DEFINE n == Len(KP!Unit)
<1>4. n \in Nat /\ n > 0 /\ n <= Len(batch)
  BY <1>3
<1>5. KP!Rest = SubSeq(batch, n + 1, Len(batch))
  BY DEF KP!Rest
<1>6. KP!Last(KP!Unit) = committed + n
  <2>1. KP!Last(KP!Unit) = KP!Unit[n]
    BY DEF KP!Last
  <2> QED
    BY <2>1, <1>3, <1>4
<1> HIDE DEF n
<1>7. KP!Rest \in Seq(Nat) /\ Len(KP!Rest) = Len(batch) - n
      /\ \A i \in 1..Len(KP!Rest) : KP!Rest[i] = batch[n + i]
  BY <1>1, <1>4, <1>5, KpSplitFacts
<1>8. \A i \in 1..Len(KP!Rest) : KP!Rest[i] = committed + n + i
  <2> SUFFICES ASSUME NEW i \in 1..Len(KP!Rest) PROVE KP!Rest[i] = committed + n + i
    OBVIOUS
  <2>1. n + i \in 1..Len(batch) /\ i \in Nat
    BY <1>1, <1>4, <1>7
  <2>2. batch[n + i] = committed + (n + i)
    BY <1>1, <2>1
  <2> QED
    BY <1>1, <1>4, <1>7, <2>1, <2>2
<1> QED
  BY <1>3, <1>6, <1>7, <1>8 DEF n

\* The policy is the configuration's.
LEMMA KpPolicyKept ==
  ASSUME config' = config
  PROVE  /\ KP!Policy' = KP!Policy /\ KP!Captures' = KP!Captures
         /\ KP!should_continue_after_poison_record' = KP!should_continue_after_poison_record
  BY DEF KP!Policy, KP!resolve_poison_record_policy, KP!Captures, KP!should_continue_after_poison_record

\* The records a unit names.
LEMMA KpUnitSet ==
  ASSUME KpAssumptions, KpInv, batch # <<>>
  PROVE  \A u \in Nat : u > committed /\ u <= committed + Len(KP!Unit) => u \in KP!ToSet(KP!Unit)
<1>1. KP!Unit \in Seq(Nat) /\ Len(KP!Unit) \in Nat /\ committed \in Nat
      /\ \A i \in 1..Len(KP!Unit) : KP!Unit[i] = committed + i
  BY KpUnit DEF KpInv
<1> SUFFICES ASSUME NEW u \in Nat, u > committed, u <= committed + Len(KP!Unit)
             PROVE  u \in KP!ToSet(KP!Unit)
  OBVIOUS
<1>2. u - committed \in 1..Len(KP!Unit) /\ u = committed + (u - committed)
  BY <1>1
<1>3. KP!Unit[u - committed] = u
  BY <1>1, <1>2
<1>4. DOMAIN KP!Unit = 1..Len(KP!Unit)
  BY <1>1
<1> QED
  BY <1>2, <1>3, <1>4 DEF KP!ToSet

\* What follows once the letters are dealt with.
LEMMA KpDecideInv ==
  ASSUME KpAssumptions, KpInv, batch # <<>>, call # "closed", NEW counted, KP!Decide(counted),
         config' = config, position' = position, done' = done, store' \in Seq(Nat),
         KP!ToSet(store) \subseteq KP!ToSet(store'), missed \subseteq missed',
         KP!Captures => KP!ToSet(KP!Unit) \subseteq KP!ToSet(store') \cup missed'
  PROVE  KpInv'
<1> DEFINE n == Len(KP!Unit)
<1>1. /\ KP!Unit \in Seq(Nat) /\ n \in Nat /\ n > 0 /\ n <= Len(batch)
      /\ KP!Rest \in Seq(Nat) /\ Len(KP!Rest) = Len(batch) - n
      /\ \A i \in 1..Len(KP!Rest) : KP!Rest[i] = committed + n + i
      /\ KP!Last(KP!Unit) = committed + n
  BY KpUnit
<1>2. \A u \in Nat : u > committed /\ u <= committed + n => u \in KP!ToSet(KP!Unit)
  BY KpUnitSet
<1> HIDE DEF n
<1>3. /\ committed \in Nat /\ position \in Nat /\ batch \in Seq(Nat) /\ Len(batch) \in Nat
      /\ position = committed + Len(batch) /\ config \in Configs
  BY DEF KpInv
<1>4. /\ KP!Captures => 1..committed \ done \subseteq KP!ToSet(store) \cup missed
      /\ ~KP!should_continue_after_poison_record => 1..committed \ done = {}
  BY DEF KpInv, KP!RowsKept
<1>5. CASE KP!should_continue_after_poison_record
  <2>1. call' = "streaming" /\ batch' = KP!Rest /\ committed' = committed + n /\ sent' = 0
    BY <1>5, <1>1 DEF KP!Decide
  <2>2. KP!Captures => 1..committed' \ done' \subseteq KP!ToSet(store') \cup missed'
    <3> SUFFICES ASSUME KP!Captures, NEW u \in 1..committed', u \notin done
                 PROVE  u \in KP!ToSet(store') \cup missed'
      OBVIOUS
    <3>1. u \in Nat /\ u >= 1 /\ u <= committed + n
      BY <2>1, <1>1, <1>3
    <3>2. CASE u <= committed
      <4>1. u \in 1..committed \ done
        BY <3>1, <3>2, <1>3
      <4> QED
        BY <4>1, <1>4
    <3>3. CASE u > committed
      BY <3>1, <3>3, <1>2
    <3> QED
      BY <3>1, <3>2, <3>3, <1>3
  <2>3. KP!RowsKept'
    BY <2>2, <1>5, KpPolicyKept DEF KP!RowsKept
  <2>4. committed' \in Nat /\ batch' \in Seq(Nat) /\ position' = committed' + Len(batch')
    BY <2>1, <1>1, <1>3
  <2>5. \A i \in 1..Len(batch') : batch'[i] = committed' + i
    BY <2>1, <1>1, <1>3
  <2> QED
    BY <2>1, <2>3, <2>4, <2>5, <1>3 DEF KpInv
<1>6. CASE ~KP!should_continue_after_poison_record
  <2>1. call' = "closed" /\ batch' = <<>> /\ committed' = committed /\ sent' = 0
    BY <1>6 DEF KP!Decide
  <2>2. KP!RowsKept'
    BY <2>1, <1>4, KpPolicyKept DEF KP!RowsKept
  <2>3. batch' \in Seq(Nat) /\ Len(batch') = 0
    BY <2>1
  <2>4. \A i \in 1..Len(batch') : batch'[i] = committed' + i
    BY <2>3
  <2> QED
    BY <2>1, <2>2, <2>3, <2>4, <1>3 DEF KpInv
<1> QED
  BY <1>5, <1>6

LEMMA KpInitInv == KP!Init => KpInv
<1> SUFFICES ASSUME KP!Init PROVE KpInv
  OBVIOUS
<1>1. /\ config \in Configs /\ call = "closed" /\ position = 0 /\ committed = 0 /\ sent = 0
      /\ batch = <<>> /\ store = <<>> /\ done = {}
  BY DEF KP!Init
<1>2. 1..committed = {} /\ Len(batch) = 0 /\ batch \in Seq(Nat) /\ store \in Seq(Nat)
  BY <1>1
<1>3. KP!RowsKept
  BY <1>2 DEF KP!RowsKept
<1>4. \A i \in 1..Len(batch) : batch[i] = committed + i
  BY <1>2
<1> QED
  BY <1>1, <1>2, <1>3, <1>4 DEF KpInv

\* Appending letters keeps those that are there.
LEMMA KpAppended ==
  ASSUME NEW old \in Seq(Nat), NEW more \in Seq(Nat)
  PROVE  /\ old \o more \in Seq(Nat) /\ Len(old \o more) = Len(old) + Len(more)
         /\ \A u : u \in KP!ToSet(old \o more) <=> u \in KP!ToSet(old) \/ u \in KP!ToSet(more)
<1>1. \A s : KP!ToSet(s) = Members(s)
  BY DEF KP!ToSet, Members
<1> QED
  BY <1>1, MembersJoined

\* Letters that one call writes: those of the records after the ones written already.
LEMMA KpLetters ==
  ASSUME KpAssumptions, KpInv, call = "capture"
  PROVE  /\ KP!Letters \in Seq(Nat) /\ Len(KP!Letters) \in Nat /\ Len(KP!Letters) > 0
         /\ sent + Len(KP!Letters) <= Len(KP!Unit)
         /\ \A i \in 1..Len(KP!Letters) : KP!Letters[i] = KP!Unit[sent + i]
         /\ config.batching /\ config.write_batch => sent + Len(KP!Letters) = Len(KP!Unit)
<1>1. /\ batch # <<>> /\ sent \in Nat /\ sent < Len(KP!Unit)
      /\ (config.batching /\ config.write_batch => sent = 0)
  BY DEF KpInv
<1>2. KP!Unit \in Seq(Nat) /\ Len(KP!Unit) \in Nat
  BY <1>1, KpUnit
<1>3. CASE config.batching /\ config.write_batch
  <2>1. KP!Letters = KP!Unit /\ sent = 0
    BY <1>1, <1>3 DEF KP!Letters
  <2> QED
    BY <1>1, <1>2, <2>1
<1>4. CASE ~(config.batching /\ config.write_batch)
  <2>1. KP!Letters = <<KP!Unit[sent + 1]>>
    BY <1>4 DEF KP!Letters
  <2>2. sent + 1 \in 1..Len(KP!Unit)
    BY <1>1, <1>2
  <2>3. KP!Unit[sent + 1] \in Nat
    BY <1>2, <2>2
  <2>4. KP!Letters \in Seq(Nat) /\ Len(KP!Letters) = 1 /\ KP!Letters[1] = KP!Unit[sent + 1]
    BY <2>1, <2>3
  <2>5. \A i \in 1..Len(KP!Letters) : KP!Letters[i] = KP!Unit[sent + i]
    BY <2>4
  <2> QED
    BY <1>1, <1>2, <1>4, <2>2, <2>4, <2>5
<1> QED
  BY <1>3, <1>4

LEMMA KpCaptureInv ==
  ASSUME KpAssumptions, KpInv, KP!capture_poison_batch PROVE KpInv'
<1>1. /\ call = "capture" /\ batch # <<>> /\ sent \in Nat /\ store \in Seq(Nat)
      /\ \A i \in 1..sent : KP!Unit[i] \in KP!ToSet(store)
      /\ KP!Captures /\ sent < Len(KP!Unit)
  BY DEF KpInv, KP!capture_poison_batch
<1> DEFINE k == Len(KP!Letters)
<1>2. /\ KP!Letters \in Seq(Nat) /\ k \in Nat /\ k > 0 /\ sent + k <= Len(KP!Unit)
      /\ \A i \in 1..k : KP!Letters[i] = KP!Unit[sent + i]
      /\ (config.batching /\ config.write_batch => sent + k = Len(KP!Unit))
  BY <1>1, KpLetters
<1>3. /\ KP!Unit \in Seq(Nat) /\ Len(KP!Unit) \in Nat
  BY <1>1, KpUnit
<1>4. store' = store \o KP!Letters /\ config' = config /\ position' = position /\ done' = done
      /\ missed' = missed
  BY DEF KP!capture_poison_batch
<1>5. store' \in Seq(Nat)
      /\ \A u : u \in KP!ToSet(store') <=> u \in KP!ToSet(store) \/ u \in KP!ToSet(KP!Letters)
  BY <1>1, <1>2, <1>4, KpAppended
<1>6. \A i \in 1..(sent + k) : KP!Unit[i] \in KP!ToSet(store')
  <2> SUFFICES ASSUME NEW i \in 1..(sent + k) PROVE KP!Unit[i] \in KP!ToSet(store')
    OBVIOUS
  <2>1. CASE i <= sent
    <3>1. i \in 1..sent
      BY <1>1, <2>1
    <3> QED
      BY <3>1, <1>1, <1>5
  <2>2. CASE i > sent
    <3>1. i - sent \in 1..k /\ sent + (i - sent) = i
      BY <1>1, <1>2, <2>2
    <3>2. KP!Letters[i - sent] = KP!Unit[i] /\ DOMAIN KP!Letters = 1..k
      BY <1>2, <3>1
    <3>3. KP!Unit[i] \in KP!ToSet(KP!Letters)
      BY <3>1, <3>2 DEF KP!ToSet
    <3> QED
      BY <3>3, <1>5
  <2> QED
    BY <2>1, <2>2, <1>1
<1>7. CASE sent + k = Len(KP!Unit) /\ KP!Decide(KP!Captured)
  <2>1. KP!ToSet(KP!Unit) \subseteq KP!ToSet(store')
    <3>1. DOMAIN KP!Unit = 1..Len(KP!Unit)
      BY <1>3
    <3> QED
      BY <3>1, <1>6, <1>7 DEF KP!ToSet
  <2>2. KP!ToSet(store) \subseteq KP!ToSet(store')
    BY <1>5
  <2>3. missed \subseteq missed' /\ call # "closed" /\ KP!Decide(KP!Captured)
        /\ (KP!Captures => KP!ToSet(KP!Unit) \subseteq KP!ToSet(store') \cup missed')
    BY <1>1, <1>4, <1>7, <2>1
  <2> QED
    BY <1>1, <1>4, <1>5, <2>2, <2>3, KpDecideInv
<1>8. CASE /\ sent + k < Len(KP!Unit) /\ sent' = sent + k
           /\ call' = call /\ batch' = batch /\ committed' = committed
  <2>1. KP!Unit' = KP!Unit
    BY <1>4, <1>8 DEF KP!Unit
  <2>2. KP!RowsKept'
    BY <1>4, <1>5, <1>8, KpPolicyKept DEF KpInv, KP!RowsKept
  <2>3. \A i \in 1..sent' : KP!Unit'[i] \in KP!ToSet(store')
    BY <2>1, <1>6, <1>8
  <2>4. sent' \in Nat /\ sent' < Len(KP!Unit)' /\ ~(config.batching /\ config.write_batch)
    <3>1. sent' \in Nat /\ sent' < Len(KP!Unit) /\ sent + k # Len(KP!Unit)
      BY <1>1, <1>2, <1>3, <1>8
    <3> QED
      BY <1>2, <2>1, <3>1
  <2>5. KP!Captures' /\ call' = "capture" /\ batch' # <<>>
    BY <1>1, <1>4, <1>8, KpPolicyKept
  <2>6. /\ config' \in Configs /\ position' \in Nat /\ committed' \in Nat /\ batch' \in Seq(Nat)
        /\ position' = committed' + Len(batch')
        /\ \A i \in 1..Len(batch') : batch'[i] = committed' + i
    BY <1>1, <1>4, <1>8 DEF KpInv
  <2> QED
    BY <1>4, <1>5, <2>1, <2>2, <2>3, <2>4, <2>5, <2>6 DEF KpInv
<1> QED
  BY <1>7, <1>8 DEF KP!capture_poison_batch

LEMMA KpWriteErrorInv ==
  ASSUME KpAssumptions, KpInv, KP!handle_poison_dlq_write_error PROVE KpInv'
<1>1. /\ call = "capture" /\ batch # <<>> /\ store \in Seq(Nat)
  BY DEF KpInv, KP!handle_poison_dlq_write_error
<1>2. KP!Letters \in Seq(Nat) /\ Len(KP!Letters) \in Nat
  BY <1>1, KpLetters
<1>3. PICK k \in 0..Len(KP!Letters) : store' = store \o SubSeq(KP!Letters, 1, k)
  BY DEF KP!handle_poison_dlq_write_error
<1>4. SubSeq(KP!Letters, 1, k) \in Seq(Nat)
  BY <1>2
<1>5. store' \in Seq(Nat) /\ KP!ToSet(store) \subseteq KP!ToSet(store')
  BY <1>1, <1>3, <1>4, KpAppended
<1>6. /\ config' = config /\ position' = position /\ done' = done
      /\ missed' = missed \cup KP!ToSet(KP!Unit)
      /\ KP!Decide([stats EXCEPT !.dlq_failures = @ + Len(KP!Unit)])
  BY DEF KP!handle_poison_dlq_write_error
<1>7. missed \subseteq missed' /\ call # "closed"
      /\ (KP!Captures => KP!ToSet(KP!Unit) \subseteq KP!ToSet(store') \cup missed')
  BY <1>1, <1>6
<1> QED
  BY <1>1, <1>5, <1>6, <1>7, KpDecideInv

LEMMA KpObserveInv ==
  ASSUME KpAssumptions, KpInv, KP!observe_poison_records PROVE KpInv'
<1>1. /\ call = "streaming" /\ batch # <<>> /\ store \in Seq(Nat) /\ sent = 0
      /\ config' = config /\ position' = position /\ done' = done /\ store' = store /\ missed' = missed
  BY DEF KpInv, KP!observe_poison_records
<1>2. CASE ~KP!Captures /\ KP!Decide(KP!Observed(Len(KP!Unit)))
  <2>1. store' \in Seq(Nat) /\ KP!ToSet(store) \subseteq KP!ToSet(store') /\ missed \subseteq missed'
        /\ call # "closed" /\ KP!Decide(KP!Observed(Len(KP!Unit)))
        /\ (KP!Captures => KP!ToSet(KP!Unit) \subseteq KP!ToSet(store') \cup missed')
    BY <1>1, <1>2
  <2> QED
    BY <1>1, <2>1, KpDecideInv
<1>3. CASE /\ KP!Captures /\ call' = "capture" /\ batch' = batch /\ sent' = sent /\ committed' = committed
  <2>1. KP!Unit' = KP!Unit
    BY <1>1, <1>3 DEF KP!Unit
  <2>2. Len(KP!Unit) \in Nat /\ Len(KP!Unit) > 0
    BY <1>1, KpUnit
  <2>3. KP!RowsKept'
    BY <1>1, <1>3, KpPolicyKept DEF KpInv, KP!RowsKept
  <2>4. KP!Captures' /\ sent' = 0 /\ sent' < Len(KP!Unit)'
    BY <1>1, <1>3, <2>1, <2>2, KpPolicyKept
  <2>5. /\ config' \in Configs /\ position' \in Nat /\ committed' \in Nat /\ batch' \in Seq(Nat)
        /\ position' = committed' + Len(batch') /\ store' \in Seq(Nat)
        /\ \A i \in 1..Len(batch') : batch'[i] = committed' + i
    BY <1>1, <1>3 DEF KpInv
  <2>6. \A i \in 1..sent' : KP!Unit'[i] \in KP!ToSet(store')
    BY <2>4
  <2> QED
    BY <1>1, <1>3, <2>3, <2>4, <2>5, <2>6 DEF KpInv
<1> QED
  BY <1>2, <1>3 DEF KP!observe_poison_records

LEMMA KpDeliverInv ==
  ASSUME KpAssumptions, KpInv, KP!Deliver PROVE KpInv'
<1>1. /\ call = "streaming" /\ batch # <<>> /\ batch \in Seq(Nat) /\ committed \in Nat /\ position \in Nat
      /\ \A i \in 1..Len(batch) : batch[i] = committed + i
      /\ position = committed + Len(batch) /\ config \in Configs /\ sent = 0 /\ store \in Seq(Nat)
      /\ done' = done \cup {Head(batch)} /\ committed' = Head(batch) /\ batch' = Tail(batch)
      /\ config' = config /\ position' = position /\ store' = store /\ missed' = missed
      /\ call' = call /\ sent' = sent
  BY DEF KpInv, KP!Deliver
<1>2. Len(batch) \in Nat /\ Len(batch) > 0 /\ Head(batch) = committed + 1
  BY <1>1
<1>3. batch' \in Seq(Nat) /\ Len(batch') = Len(batch) - 1
      /\ \A i \in 1..Len(batch') : batch'[i] = batch[i + 1]
  BY <1>1, <1>2
<1>4. \A i \in 1..Len(batch') : batch'[i] = committed' + i
  BY <1>1, <1>2, <1>3
<1>5. 1..committed' \ done' \subseteq 1..committed \ done
  <2> SUFFICES ASSUME NEW u \in 1..committed', u \notin done' PROVE u \in 1..committed /\ u \notin done
    OBVIOUS
  <2>1. u \in 1..(committed + 1) /\ u # committed + 1 /\ u \notin done /\ committed \in Nat
    BY <1>1, <1>2
  <2>2. u \in 1..committed
    BY <2>1
  <2> QED
    BY <2>1, <2>2
<1>6. KP!RowsKept'
  BY <1>1, <1>5, KpPolicyKept DEF KpInv, KP!RowsKept
<1> QED
  BY <1>1, <1>2, <1>3, <1>4, <1>6 DEF KpInv

LEMMA KpPollInv ==
  ASSUME KpAssumptions, KpInv, KP!Poll PROVE KpInv'
<1>1. /\ call = "streaming" /\ batch = <<>> /\ Len(batch) = 0 /\ committed \in Nat /\ position = committed
      /\ config \in Configs /\ sent = 0 /\ store \in Seq(Nat)
      /\ config' = config /\ store' = store /\ missed' = missed /\ done' = done
      /\ call' = call /\ sent' = sent /\ committed' = committed
  BY DEF KpInv, KP!Poll
<1>2. PICK n \in 1..config.poll : batch' = [i \in 1..n |-> position + i] /\ position' = position + n
  BY DEF KP!Poll
<1>3. n \in Nat
  OBVIOUS
<1>4. batch' \in Seq(Nat) /\ Len(batch') = n /\ \A i \in 1..Len(batch') : batch'[i] = committed' + i
  BY <1>1, <1>2, <1>3
<1>5. KP!RowsKept'
  BY <1>1, KpPolicyKept DEF KpInv, KP!RowsKept
<1> QED
  BY <1>1, <1>2, <1>3, <1>4, <1>5 DEF KpInv

\* A stream that starts, ends or dies: the committed offset and the letters stay.
LEMMA KpEndsInv ==
  ASSUME KpAssumptions, KpInv, KP!Start \/ KP!Leave \/ KP!Crash PROVE KpInv'
<1>1. /\ config' = config /\ store' = store /\ missed' = missed /\ done' = done /\ committed' = committed
  BY DEF KP!Start, KP!Leave, KP!Crash
<1>2. KP!RowsKept'
  BY <1>1, KpPolicyKept DEF KpInv, KP!RowsKept
<1>3. batch' = <<>> /\ sent' = 0 /\ position' \in Nat /\ call' \in {"closed", "streaming"}
      /\ (call' = "streaming" => position' = committed)
  BY DEF KpInv, KP!Start, KP!Leave, KP!Crash
<1>4. Len(batch') = 0 /\ batch' \in Seq(Nat)
  BY <1>3
<1>5. \A i \in 1..Len(batch') : batch'[i] = committed' + i
  BY <1>4
<1>6. committed \in Nat /\ store \in Seq(Nat) /\ config \in Configs
  BY DEF KpInv
<1>7. call' # "closed" => position' = committed' + Len(batch')
  BY <1>1, <1>3, <1>4, <1>6
<1> QED
  BY <1>1, <1>2, <1>3, <1>4, <1>5, <1>6, <1>7 DEF KpInv

LEMMA KpNextInv ==
  ASSUME KpAssumptions, KpInv, [KP!Next]_KP!vars PROVE KpInv'
<1>1. CASE UNCHANGED KP!vars
  <2>1. /\ config' = config /\ call' = call /\ position' = position /\ committed' = committed
        /\ sent' = sent /\ batch' = batch /\ store' = store /\ done' = done /\ missed' = missed
    BY <1>1 DEF KP!vars
  <2>2. KP!Unit' = KP!Unit
    BY <2>1 DEF KP!Unit
  <2>3. KP!RowsKept'
    BY <2>1, KpPolicyKept DEF KpInv, KP!RowsKept
  <2> QED
    BY <2>1, <2>2, <2>3, KpPolicyKept DEF KpInv
<1> QED
  BY <1>1, KpEndsInv, KpPollInv, KpDeliverInv, KpObserveInv, KpCaptureInv, KpWriteErrorInv DEF KP!Next

\* The committed offset of a Kafka source passes a record that failed only when its dead
\* letter is stored, the write of the letter failed and the policy goes on, or the policy
\* is to log it; a policy that fails closed passes handled records alone.
THEOREM PoisonNothingSkipped == ASSUME KpAssumptions PROVE KP!Spec => []KP!RowsKept
<1>1. KP!Init => KpInv
  BY KpInitInv
<1>2. KpInv /\ [KP!Next]_KP!vars => KpInv'
  BY KpNextInv
<1>3. KpInv => KP!RowsKept
  BY DEF KpInv
<1> QED
  BY <1>1, <1>2, <1>3, PTL DEF KP!Spec

-----------------------------------------------------------------------------
LEMMA KpClass == KP!classify_poison_record(config.error) \in KP!Classes
<1> DEFINE order == <<"binding_mismatch", "schema_evolution", "schema_validation", "deserialization">>
           fits == {i \in 1..4 : order[i] \in config.error}
           first == CHOOSE i \in fits : \A j \in fits : i <= j
<1>1. \A i \in 1..4 : order[i] \in KP!Classes
  BY DEF KP!Classes
<1>2. CASE fits = {}
  BY <1>2 DEF KP!classify_poison_record, KP!Classes
<1>3. CASE fits # {}
  <2>1. fits \subseteq 1..4
    OBVIOUS
  <2> HIDE DEF fits
  <2>2. \E i \in fits : \A j \in fits : i <= j
    <3>1. CASE 1 \in fits
      BY <3>1, <2>1
    <3>2. CASE 1 \notin fits /\ 2 \in fits
      BY <3>2, <2>1
    <3>3. CASE 1 \notin fits /\ 2 \notin fits /\ 3 \in fits
      BY <3>3, <2>1
    <3>4. CASE 1 \notin fits /\ 2 \notin fits /\ 3 \notin fits /\ 4 \in fits
      BY <3>4, <2>1
    <3>5. PICK e \in fits : TRUE
      BY <1>3
    <3>6. e = 1 \/ e = 2 \/ e = 3 \/ e = 4
      BY <2>1
    <3> QED
      BY <3>1, <3>2, <3>3, <3>4, <3>6
  <2>3. first \in fits
    BY <2>2
  <2>4. KP!classify_poison_record(config.error) = order[first]
    BY <1>3 DEF KP!classify_poison_record, fits
  <2> HIDE DEF first, order
  <2> QED
    BY <1>1, <2>1, <2>3, <2>4
<1> QED
  BY <1>2, <1>3

LEMMA KpPolicyOf ==
  ASSUME KpAssumptions, config \in Configs
  PROVE  KP!Policy \in {"fail_closed", "log_and_continue", "dlq_and_continue", "dlq_and_fail_closed"}
<1>1. config.policy \in KpPolicies
  BY DEF KpAssumptions
<1> QED
  BY <1>1 DEF KpPolicies, KP!Policy, KP!resolve_poison_record_policy

\* Records are counted in one class.
LEMMA KpCounted ==
  ASSUME NEW f \in [KP!Classes -> Nat], NEW c \in KP!Classes, NEW n \in Nat
  PROVE  KpMore(f, c, n) \in [KP!Classes -> Nat] /\ KpTotal(KpMore(f, c, n)) = KpTotal(f) + n
<1> DEFINE g == KpMore(f, c, n)
<1>1. g \in [KP!Classes -> Nat]
  BY DEF KpMore
<1>2. /\ f["binding_mismatch"] \in Nat /\ f["schema_evolution"] \in Nat /\ f["schema_validation"] \in Nat
      /\ f["deserialization"] \in Nat /\ f["unknown"] \in Nat
  BY DEF KP!Classes
<1>3. CASE c = "binding_mismatch"
  BY <1>1, <1>2, <1>3 DEF KP!Classes, KpMore, KpTotal
<1>4. CASE c = "schema_evolution"
  BY <1>1, <1>2, <1>4 DEF KP!Classes, KpMore, KpTotal
<1>5. CASE c = "schema_validation"
  BY <1>1, <1>2, <1>5 DEF KP!Classes, KpMore, KpTotal
<1>6. CASE c = "deserialization"
  BY <1>1, <1>2, <1>6 DEF KP!Classes, KpMore, KpTotal
<1>7. CASE c = "unknown"
  BY <1>1, <1>2, <1>7 DEF KP!Classes, KpMore, KpTotal
<1> QED
  BY <1>1, <1>3, <1>4, <1>5, <1>6, <1>7 DEF KP!Classes

LEMMA KpObserved ==
  ASSUME KpAssumptions, config \in Configs, NEW n \in Nat, KpBalance(stats, 0, 0)
  PROVE  /\ KP!Observed(n) \in KpStats
         /\ KP!Captures => KpBalance(KP!Observed(n), n, 0)
         /\ KP!Observed(n).dlq_writes <= Len(store)
         /\ KP!Observed(n).drops + n <= KP!Observed(n).errors
         /\ KP!Policy = "log_and_continue" => KpSum(KP!Observed(n)) = KP!Observed(n).log_only
         /\ ~KP!should_continue_after_poison_record
            => KpSum(KP!Observed(n)) = KP!Observed(n).fail_closed
<1> DEFINE c == KP!classify_poison_record(config.error)
           m == IF KP!Policy = "log_and_continue" THEN n ELSE 0
           k == IF KP!Policy \in {"fail_closed", "dlq_and_fail_closed"} THEN n ELSE 0
           g == KpMore(stats.classes, c, n)
           x == KP!Observed(n)
<1>1. stats \in KpStats /\ c \in KP!Classes /\ m \in Nat /\ k \in Nat
  BY KpClass DEF KpBalance
<1>2. /\ x.errors = stats.errors + n /\ x.drops = stats.drops /\ x.dlq_writes = stats.dlq_writes
      /\ x.dlq_failures = stats.dlq_failures /\ x.log_only = stats.log_only + m
      /\ x.fail_closed = stats.fail_closed + k /\ x.classes = g
  BY <1>1 DEF KpStats, KP!Observed, KpMore
<1>4. /\ stats.errors \in Nat /\ stats.drops \in Nat /\ stats.dlq_writes \in Nat
      /\ stats.dlq_failures \in Nat /\ stats.log_only \in Nat /\ stats.fail_closed \in Nat
      /\ stats.classes \in [KP!Classes -> Nat]
  BY <1>1 DEF KpStats
<1>5. m = n \/ KP!Policy # "log_and_continue"
  OBVIOUS
<1>6. KP!should_continue_after_poison_record \/ k = n
  BY KpPolicyOf DEF KP!should_continue_after_poison_record
<1>7. g \in [KP!Classes -> Nat] /\ KpSum(x) = KpSum(stats) + n
  <2> HIDE DEF c, x
  <2>1. g \in [KP!Classes -> Nat] /\ KpTotal(g) = KpTotal(stats.classes) + n
    BY <1>1, <1>4, KpCounted
  <2> HIDE DEF g
  <2> QED
    BY <1>2, <2>1 DEF KpSum
<1>3. x \in KpStats
  <2> DEFINE r1 == [stats EXCEPT !.errors = stats.errors + n]
             r2 == [r1 EXCEPT !.classes = [r1.classes EXCEPT ![c] = stats.classes[c] + n]]
             r3 == [r2 EXCEPT !.log_only = stats.log_only + m]
             r4 == [r3 EXCEPT !.fail_closed = stats.fail_closed + k]
  <2>1. r1 \in KpStats /\ r1.classes = stats.classes
    BY <1>1, <1>4 DEF KpStats
  <2>2. r2 \in KpStats
    <3>1. [r1.classes EXCEPT ![c] = stats.classes[c] + n] \in [KP!Classes -> Nat]
      BY <2>1, <1>7 DEF KpMore
    <3> HIDE DEF r1
    <3> QED
      BY <2>1, <3>1 DEF KpStats
  <2>3. r3 \in KpStats
    <3>1. stats.log_only + m \in Nat
      BY <1>1, <1>4
    <3> HIDE DEF r2, m
    <3> QED
      BY <2>2, <3>1 DEF KpStats
  <2>4. r4 \in KpStats
    <3>1. stats.fail_closed + k \in Nat
      BY <1>1, <1>4
    <3> HIDE DEF r3, k
    <3> QED
      BY <2>3, <3>1 DEF KpStats
  <2>5. x = r4
    BY DEF KP!Observed
  <2> QED
    BY <2>4, <2>5
<1>8. KpSum(stats) \in Nat
  BY <1>4 DEF KpSum, KpTotal, KP!Classes
<1> HIDE DEF c, m, k, g, x
<1>10. /\ stats.dlq_writes <= Len(store) /\ stats.drops <= stats.errors
       /\ KP!Captures => KpSum(stats) = stats.dlq_writes + stats.dlq_failures
       /\ KP!Policy = "log_and_continue" => KpSum(stats) = stats.log_only
       /\ ~KP!should_continue_after_poison_record => KpSum(stats) = stats.fail_closed
  BY <1>4 DEF KpBalance
<1>11. x.dlq_writes <= Len(store) /\ x.drops + n <= x.errors
  BY <1>2, <1>4, <1>10
<1>12. KP!Captures => KpSum(x) = x.dlq_writes + x.dlq_failures + n
  BY <1>2, <1>4, <1>7, <1>8, <1>10
<1>13. KP!Policy = "log_and_continue" => KpSum(x) = x.log_only
  BY <1>1, <1>2, <1>4, <1>5, <1>7, <1>8, <1>10
<1>14. ~KP!should_continue_after_poison_record => KpSum(x) = x.fail_closed
  BY <1>1, <1>2, <1>4, <1>6, <1>7, <1>8, <1>10
<1>15. x.dlq_writes + 0 <= Len(store)
  BY <1>2, <1>4, <1>11
<1> QED
  BY <1>3, <1>11, <1>12, <1>13, <1>14, <1>15 DEF KpBalance, x

\* The counters once the letters are dealt with.
LEMMA KpDecideReport ==
  ASSUME KpAssumptions, KpInv, batch # <<>>, NEW counted \in KpStats, KP!Decide(counted), config' = config,
         counted.dlq_writes <= Len(store'), counted.drops + Len(KP!Unit) <= counted.errors,
         KP!Captures => KpSum(counted) = counted.dlq_writes + counted.dlq_failures,
         KP!Policy = "log_and_continue" => KpSum(counted) = counted.log_only,
         ~KP!should_continue_after_poison_record => KpSum(counted) = counted.fail_closed
  PROVE  KpReport'
<1> DEFINE n == Len(KP!Unit)
<1>1. n \in Nat
  BY KpUnit
<1>2. counted.drops + n <= counted.errors
  OBVIOUS
<1> HIDE DEF n
<1>3. /\ counted.errors \in Nat /\ counted.drops \in Nat /\ counted.dlq_writes \in Nat
      /\ counted.dlq_failures \in Nat
  BY DEF KpStats
<1>4. call' # "capture" /\ stats' \in KpStats /\ stats'.dlq_writes = counted.dlq_writes
      /\ stats'.dlq_failures = counted.dlq_failures /\ stats'.log_only = counted.log_only
      /\ stats'.fail_closed = counted.fail_closed /\ stats'.classes = counted.classes
      /\ stats'.errors = counted.errors /\ stats'.drops \in {counted.drops, counted.drops + n}
  <2>1. counted.drops + n \in Nat
    BY <1>1, <1>3
  <2>2. CASE stats' = counted /\ call' = "closed"
    BY <2>2
  <2>3. CASE stats' = [counted EXCEPT !.drops = counted.drops + n] /\ call' = "streaming"
    BY <2>1, <2>3 DEF KpStats
  <2> QED
    BY <2>2, <2>3 DEF KP!Decide, n
<1>5. KpSum(stats)' = KpSum(counted)
  BY <1>4 DEF KpSum
<1>6. stats'.dlq_writes + 0 <= Len(store') /\ stats'.drops + 0 <= stats'.errors
  BY <1>1, <1>2, <1>3, <1>4
<1>7. KP!Captures => KpSum(stats)' = stats'.dlq_writes + stats'.dlq_failures + 0
  BY <1>3, <1>4, <1>5
<1>8. KpBalance(stats, 0, 0)'
  BY <1>4, <1>5, <1>6, <1>7, KpPolicyKept DEF KpBalance
<1> QED
  BY <1>4, <1>8 DEF KpReport

LEMMA KpObserveReport ==
  ASSUME KpAssumptions, KpInv, KpReport, KP!observe_poison_records PROVE KpReport'
<1> DEFINE n == Len(KP!Unit)
<1>1. /\ call = "streaming" /\ batch # <<>> /\ config \in Configs
      /\ config' = config /\ store' = store /\ sent = 0
  BY DEF KpInv, KP!observe_poison_records
<1>2. n \in Nat
  BY <1>1, KpUnit
<1>3. KpBalance(stats, 0, 0)
  BY <1>1 DEF KpReport
<1> HIDE DEF n
<1> DEFINE x == KP!Observed(n)
<1>4. /\ x \in KpStats
      /\ KP!Captures => KpBalance(x, n, 0)
      /\ x.dlq_writes <= Len(store) /\ x.drops + n <= x.errors
      /\ KP!Policy = "log_and_continue" => KpSum(x) = x.log_only
      /\ ~KP!should_continue_after_poison_record => KpSum(x) = x.fail_closed
  <2>1. x \in KpStats
    BY <1>1, <1>2, <1>3, KpObserved
  <2>2. KP!Captures => KpBalance(x, n, 0)
    BY <1>1, <1>2, <1>3, KpObserved
  <2>3. x.dlq_writes <= Len(store) /\ x.drops + n <= x.errors
    BY <1>1, <1>2, <1>3, KpObserved
  <2>4. KP!Policy = "log_and_continue" => KpSum(x) = x.log_only
    BY <1>1, <1>2, <1>3, KpObserved
  <2>5. ~KP!should_continue_after_poison_record => KpSum(x) = x.fail_closed
    BY <1>1, <1>2, <1>3, KpObserved
  <2> QED
    BY <2>1, <2>2, <2>3, <2>4, <2>5
<1>5. CASE ~KP!Captures /\ KP!Decide(x)
  <2> HIDE DEF x
  <2>1. x.dlq_writes <= Len(store') /\ (KP!Captures => KpSum(x) = x.dlq_writes + x.dlq_failures)
    BY <1>1, <1>4, <1>5
  <2>2. x.drops + Len(KP!Unit) <= x.errors
    BY <1>4 DEF n
  <2>3. KP!Policy = "log_and_continue" => KpSum(x) = x.log_only
    BY <1>4
  <2>4. ~KP!should_continue_after_poison_record => KpSum(x) = x.fail_closed
    BY <1>4
  <2>5. x \in KpStats /\ KP!Decide(x)
    BY <1>4, <1>5
  <2> QED
    BY <1>1, <2>1, <2>2, <2>3, <2>4, <2>5, KpDecideReport
<1>6. CASE KP!Captures /\ call' = "capture" /\ stats' = x /\ batch' = batch /\ sent' = sent
  <2>1. KP!Unit' = KP!Unit
    BY <1>1, <1>6 DEF KP!Unit
  <2>2. KpBalance(x, n, 0)
    BY <1>4, <1>6
  <2> HIDE DEF x
  <2>3. KpBalance(stats, Len(KP!Unit), sent)'
    BY <2>1, <2>2, <1>1, <1>6, KpPolicyKept DEF KpBalance, KpSum, n
  <2> QED
    BY <1>6, <2>3 DEF KpReport
<1> QED
  BY <1>5, <1>6 DEF KP!observe_poison_records, n

LEMMA KpCaptureReport ==
  ASSUME KpAssumptions, KpInv, KpReport, KP!capture_poison_batch \/ KP!handle_poison_dlq_write_error
  PROVE  KpReport'
<1> DEFINE n == Len(KP!Unit)
           k == Len(KP!Letters)
<1>1. /\ call = "capture" /\ batch # <<>> /\ sent \in Nat /\ store \in Seq(Nat)
      /\ config' = config /\ KP!Captures
  BY DEF KpInv, KP!capture_poison_batch, KP!handle_poison_dlq_write_error
<1>2. n \in Nat /\ k \in Nat /\ KP!Letters \in Seq(Nat) /\ Len(store) \in Nat
  BY <1>1, KpUnit, KpLetters
<1>3. KpBalance(stats, n, sent)
  BY <1>1 DEF KpReport
<1>4. KpInv' /\ store' \in Seq(Nat) /\ Len(store') \in Nat
  <2>1. KpInv'
    BY KpCaptureInv, KpWriteErrorInv
  <2>2. store' \in Seq(Nat)
    BY <2>1 DEF KpInv
  <2> QED
    BY <2>1, <2>2
<1> HIDE DEF n, k
<1>5. /\ stats \in KpStats /\ stats.errors \in Nat /\ stats.drops \in Nat /\ stats.dlq_writes \in Nat
      /\ stats.dlq_failures \in Nat /\ stats.dlq_writes + sent <= Len(store)
      /\ stats.drops + n <= stats.errors
      /\ KpSum(stats) = stats.dlq_writes + stats.dlq_failures + n
      /\ KP!Policy = "log_and_continue" => KpSum(stats) = stats.log_only
      /\ ~KP!should_continue_after_poison_record => KpSum(stats) = stats.fail_closed
  BY <1>1, <1>3 DEF KpBalance, KpStats
<1>6. CASE KP!capture_poison_batch
  <2>1. store' = store \o KP!Letters /\ Len(store') = Len(store) + k
    BY <1>1, <1>2, <1>6, KpAppended DEF KP!capture_poison_batch, k
  <2>2. CASE sent + k = n /\ KP!Decide(KP!Captured)
    <3> DEFINE x == KP!Captured
    <3>1. x = [stats EXCEPT !.dlq_writes = stats.dlq_writes + n]
      BY DEF KP!Captured, n
    <3>2. stats.dlq_writes + n \in Nat
      BY <1>2, <1>5
    <3>3. /\ x \in KpStats /\ x.dlq_writes = stats.dlq_writes + n /\ x.dlq_failures = stats.dlq_failures
          /\ x.log_only = stats.log_only /\ x.fail_closed = stats.fail_closed
          /\ x.classes = stats.classes /\ x.errors = stats.errors /\ x.drops = stats.drops
      BY <1>5, <3>1, <3>2 DEF KpStats
    <3> HIDE DEF x
    <3>4. KpSum(x) = KpSum(stats)
      BY <3>3 DEF KpSum
    <3>5. x.dlq_writes <= Len(store')
      BY <1>1, <1>2, <1>5, <2>1, <2>2, <3>3
    <3>6. x.drops + Len(KP!Unit) <= x.errors
      BY <1>5, <3>3 DEF n
    <3>7. KP!Captures => KpSum(x) = x.dlq_writes + x.dlq_failures
      BY <1>2, <1>5, <3>3, <3>4
    <3>8. KP!Policy = "log_and_continue" => KpSum(x) = x.log_only
      BY <1>5, <3>3, <3>4
    <3>9. ~KP!should_continue_after_poison_record => KpSum(x) = x.fail_closed
      BY <1>5, <3>3, <3>4
    <3>10. KP!Decide(x)
      BY <2>2 DEF x
    <3> QED
      BY <1>1, <3>3, <3>5, <3>6, <3>7, <3>8, <3>9, <3>10, KpDecideReport
  <2>3. CASE sent' = sent + k /\ call' = call /\ batch' = batch /\ stats' = stats
    <3>1. KP!Unit' = KP!Unit
      BY <1>1, <2>3 DEF KP!Unit
    <3>2. stats.dlq_writes + (sent + k) <= Len(store')
      BY <1>1, <1>2, <1>5, <2>1
    <3>3. KpBalance(stats, Len(KP!Unit), sent)'
      BY <3>1, <3>2, <1>1, <1>3, <2>3, KpPolicyKept DEF KpBalance, KpSum, n
    <3> QED
      BY <1>1, <2>3, <3>3 DEF KpReport
  <2> QED
    BY <1>6, <2>2, <2>3 DEF KP!capture_poison_batch, n, k
<1>7. CASE KP!handle_poison_dlq_write_error
  <2>1. Len(store) <= Len(store')
    <3>1. PICK j \in 0..Len(KP!Letters) : store' = store \o SubSeq(KP!Letters, 1, j)
      BY <1>7 DEF KP!handle_poison_dlq_write_error
    <3>2. SubSeq(KP!Letters, 1, j) \in Seq(Nat)
      BY <1>2
    <3>3. Len(SubSeq(KP!Letters, 1, j)) \in Nat
      BY <3>2
    <3>4. Len(store') = Len(store) + Len(SubSeq(KP!Letters, 1, j))
      BY <1>1, <3>1, <3>2, KpAppended
    <3> QED
      BY <1>2, <3>3, <3>4
  <2> DEFINE x == [stats EXCEPT !.dlq_failures = stats.dlq_failures + n]
  <2>2. KP!Decide(x)
    BY <1>7 DEF KP!handle_poison_dlq_write_error, n
  <2>3. stats.dlq_failures + n \in Nat
    BY <1>2, <1>5
  <2>4. /\ x \in KpStats /\ x.dlq_writes = stats.dlq_writes /\ x.dlq_failures = stats.dlq_failures + n
        /\ x.log_only = stats.log_only /\ x.fail_closed = stats.fail_closed
        /\ x.classes = stats.classes /\ x.errors = stats.errors /\ x.drops = stats.drops
    BY <1>5, <2>3 DEF KpStats
  <2> HIDE DEF x
  <2>5. KpSum(x) = KpSum(stats)
    BY <2>4 DEF KpSum
  <2>6. x.dlq_writes <= Len(store')
    BY <1>1, <1>2, <1>4, <1>5, <2>1, <2>4
  <2>7. x.drops + Len(KP!Unit) <= x.errors
    BY <1>5, <2>4 DEF n
  <2>8. KP!Captures => KpSum(x) = x.dlq_writes + x.dlq_failures
    BY <1>2, <1>5, <2>4, <2>5
  <2>9. KP!Policy = "log_and_continue" => KpSum(x) = x.log_only
    BY <1>5, <2>4, <2>5
  <2>10. ~KP!should_continue_after_poison_record => KpSum(x) = x.fail_closed
    BY <1>5, <2>4, <2>5
  <2> QED
    BY <1>1, <2>2, <2>4, <2>6, <2>7, <2>8, <2>9, <2>10, KpDecideReport
<1> QED
  BY <1>6, <1>7

LEMMA KpZero ==
  ASSUME stats' = KP!Zero \/ KpBalance(stats, 0, 0),
         \/ stats' = KP!Zero
         \/ stats' = stats
         \/ stats' = [stats EXCEPT !.errors = 0, !.drops = 0],
         config' = config, store' = store, store \in Seq(Nat)
  PROVE  KpBalance(stats, 0, 0)'
<1>1. Len(store) \in Nat
  OBVIOUS
<1>2. CASE stats' = KP!Zero
  <2>1. /\ stats'.classes = [c \in KP!Classes |-> 0] /\ stats' \in KpStats
        /\ stats'.errors = 0 /\ stats'.drops = 0 /\ stats'.dlq_writes = 0 /\ stats'.dlq_failures = 0
        /\ stats'.log_only = 0 /\ stats'.fail_closed = 0
    BY <1>2 DEF KP!Zero, KpStats
  <2>2. KpSum(stats)' = 0
    BY <2>1 DEF KpSum, KpTotal, KP!Classes
  <2> QED
    BY <1>1, <2>1, <2>2 DEF KpBalance
<1>3. CASE stats' = stats
  BY <1>2, <1>3, KpPolicyKept DEF KpBalance, KpSum
<1>4. CASE KpBalance(stats, 0, 0) /\ stats' = [stats EXCEPT !.errors = 0, !.drops = 0]
  <2>1. /\ stats \in KpStats /\ stats' \in KpStats /\ stats'.classes = stats.classes
        /\ stats'.errors = 0 /\ stats'.drops = 0 /\ stats'.dlq_writes = stats.dlq_writes
        /\ stats'.dlq_failures = stats.dlq_failures
        /\ stats'.log_only = stats.log_only /\ stats'.fail_closed = stats.fail_closed
    BY <1>4 DEF KpStats, KpBalance
  <2>2. stats'.drops + 0 <= stats'.errors
    BY <2>1
  <2> QED
    BY <1>4, <2>1, <2>2, KpPolicyKept DEF KpBalance, KpSum
<1> QED
  BY <1>2, <1>3, <1>4

LEMMA KpInitReport == KP!Init => KpReport
<1> SUFFICES ASSUME KP!Init PROVE KpReport
  OBVIOUS
<1>1. call = "closed" /\ store = <<>> /\ stats = KP!Zero /\ Len(store) = 0
  BY DEF KP!Init
<1>2. /\ stats.classes = [c \in KP!Classes |-> 0] /\ stats \in KpStats
      /\ stats.errors = 0 /\ stats.drops = 0 /\ stats.dlq_writes = 0 /\ stats.dlq_failures = 0
      /\ stats.log_only = 0 /\ stats.fail_closed = 0
  BY <1>1 DEF KP!Zero, KpStats
<1>3. KpSum(stats) = 0
  BY <1>2 DEF KpSum, KpTotal, KP!Classes
<1> QED
  BY <1>1, <1>2, <1>3 DEF KpBalance, KpReport

LEMMA KpNextReport ==
  ASSUME KpAssumptions, KpInv, KpReport, [KP!Next]_KP!vars PROVE KpReport'
<1>1. CASE UNCHANGED KP!vars
  <2>1. /\ config' = config /\ call' = call /\ sent' = sent /\ batch' = batch /\ store' = store
        /\ stats' = stats
    BY <1>1 DEF KP!vars
  <2>2. KP!Unit' = KP!Unit
    BY <2>1 DEF KP!Unit
  <2> QED
    BY <2>1, <2>2, KpPolicyKept DEF KpReport, KpBalance, KpSum
<1>2. CASE KP!Start \/ KP!Poll \/ KP!Deliver \/ KP!Leave \/ KP!Crash
  <2>1. /\ config' = config /\ store' = store /\ call' # "capture" /\ store \in Seq(Nat)
        /\ (call # "capture" \/ stats' = KP!Zero)
    BY <1>2 DEF KpInv, KP!Start, KP!Poll, KP!Deliver, KP!Leave, KP!Crash
  <2>2. \/ stats' = KP!Zero
        \/ stats' = stats
        \/ stats' = [stats EXCEPT !.errors = 0, !.drops = 0]
    BY <1>2 DEF KP!Start, KP!Poll, KP!Deliver, KP!Leave, KP!Crash
  <2>3. stats' = KP!Zero \/ KpBalance(stats, 0, 0)
    BY <2>1 DEF KpReport
  <2>4. KpBalance(stats, 0, 0)'
    BY <2>1, <2>2, <2>3, KpZero
  <2> QED
    BY <2>1, <2>4 DEF KpReport
<1> QED
  BY <1>1, <1>2, KpObserveReport, KpCaptureReport DEF KP!Next

\* Every classified record has exactly one outcome once its handling has ended, whatever
\* letters failed half-written, and no letter is counted that is not stored.
THEOREM PoisonReportIsTrue == ASSUME KpAssumptions PROVE KP!Spec => []KP!ReportIsTrue
<1>1. KP!Init => KpInv /\ KpReport
  BY KpInitInv, KpInitReport
<1>2. KpInv /\ KpReport /\ [KP!Next]_KP!vars => KpInv' /\ KpReport'
  BY KpNextInv, KpNextReport
<1>3. KpInv /\ KpReport => KP!ReportIsTrue
  <2> SUFFICES ASSUME KpInv, KpReport PROVE KP!ReportIsTrue
    OBVIOUS
  <2>1. KpSum(stats) = KP!Classified
    BY DEF KpSum, KpTotal, KP!Classified
  <2>2. PICK n \in Nat, w \in Nat : KpBalance(stats, n, w) /\ (call # "capture" => n = 0)
    <3>1. CASE call = "capture"
      <4>1. Len(KP!Unit) \in Nat /\ sent \in Nat
        BY <3>1, KpUnit DEF KpInv
      <4> QED
        BY <3>1, <4>1 DEF KpReport
    <3> QED
      BY <3>1 DEF KpReport
  <2>3. /\ stats.errors \in Nat /\ stats.drops \in Nat /\ stats.dlq_writes \in Nat
        /\ stats.dlq_failures \in Nat
    BY <2>2 DEF KpBalance, KpStats
  <2>4. store \in Seq(Nat) /\ Len(store) \in Nat
    BY DEF KpInv
  <2> QED
    BY <2>1, <2>2, <2>3, <2>4 DEF KpBalance, KP!ReportIsTrue
<1> QED
  BY <1>1, <1>2, <1>3, PTL DEF KP!Spec

-----------------------------------------------------------------------------
(* KafkaRuntime. *)
KR == INSTANCE KafkaRuntime

KrAssumptions == \A c \in Configs : c.records \in Nat /\ c.procs \subseteq Procs

\* Rows that count as kept: without flush, those in the memory of a sink too.
KrKept ==
    KR!ToSet(store) \cup passed_over \cup
    IF config.flush \/ KR!Transactional THEN {}
    ELSE lost \cup UNION {KR!ToSet(session[p].buffer) : p \in Procs}

KrHealth == {KR!NoCache} \cup
    [valid : {TRUE}, end : Nat, ready : BOOLEAN, pending : Nat, lag : Nat, commit_lag : Int]
KrProbe == {KR!NoCache} \cup [valid : {TRUE}, position : Nat, committed : Nat]
KrOutside == {"leave", "stopped", "closing", "closed"}
KrInside == {"begin", "write", "flush", "offsets", "commit_transaction", "commit", "abort"}
KrStages == KrOutside \cup KrInside \cup {"streaming"}
KrSession ==
    [stage : KrStages, position : Nat, batch : Seq(Nat), record : Nat, committable : Nat, pending : Nat,
     buffer : Seq(Nat), txn : Seq(Nat), torn : BOOLEAN, behind : SUBSET Nat, cache : KrHealth,
     probe : KrProbe]

\* Up to the position of its consumer, a session holds every record that is not kept: in
\* its batch, in hand, or left behind. What it may commit is kept.
KrPlace(s, kept) ==
    /\ s.record + Len(s.batch) <= s.position
    /\ \A i \in 1..Len(s.batch) : s.batch[i] + Len(s.batch) = s.position + i
    /\ \A r \in 1..s.position :
          r \in kept \/ r \in KR!ToSet(s.batch) \/ r = s.record \/ r \in s.behind
    /\ \A r \in 1..s.committable : r \in kept

KrStage(s, kept) ==
    /\ s.stage \notin KrOutside => s.behind = {}
    /\ s.stage \in KrOutside => s.batch = <<>>
    /\ s.stage \notin KrInside => s.record = 0
    /\ s.stage = "commit" => s.record \in kept
    /\ s.stage \in {"flush", "offsets"} => s.record \in KR!ToSet(s.buffer)
    /\ s.stage = "commit_transaction" => s.record \in KR!ToSet(s.txn)
    /\ s.stage \in {"begin", "offsets", "commit_transaction", "abort"} => KR!Transactional
    /\ s.stage = "closed" => s = KR!Closed

\* The probes saw a committed offset below which everything is kept.
KrProbed(s, kept) ==
    /\ s.probe.valid => \A r \in 1..s.probe.committed : r \in kept
    /\ s.cache.valid /\ s.cache.commit_lag # KR!NoCount /\ s.cache.commit_lag <= 0
          => \A r \in 1..s.cache.end : r \in kept

KrHolds(s, kept) == KrPlace(s, kept) /\ KrStage(s, kept) /\ KrProbed(s, kept)

KrTypes ==
    /\ config \in Configs /\ log \in Nat /\ committed \in Nat /\ owner \in Procs
    /\ store \in Seq(Nat) /\ lost \in SUBSET Nat /\ passed_over \in SUBSET Nat
    /\ session \in [Procs -> KrSession]

KrInv ==
    /\ KrTypes
    /\ \A r \in 1..committed : r \in KrKept
    /\ \A p \in Procs : KrHolds(session[p], KrKept)
    /\ \A p \in Procs : p \notin config.procs => session[p].stage = "closed"
-----------------------------------------------------------------------------
LEMMA KrMembers == \A s : KR!ToSet(s) = Members(s)
  BY DEF KR!ToSet, Members

\* SetToSeq() gives each member of a finite set its place.
LEMMA KrSetToSeq ==
  ASSUME NEW S \in SUBSET Nat, IsFiniteSet(S)
  PROVE  KR!SetToSeq(S) \in Seq(Nat) /\ Members(KR!SetToSeq(S)) = S
<1> DEFINE n == Cardinality(S)
<1>1. n \in Nat /\ ExistsBijection(1..n, S)
  BY FS_CardinalityType
<1>2. KR!Cardinality(S) = n
  BY DEF KR!Cardinality, Cardinality
<1> HIDE DEF n
<1>3. \E f \in [1..n -> S] : KR!IsInjective(f)
  <2>1. PICK f \in Bijection(1..n, S) : TRUE
    BY <1>1 DEF ExistsBijection
  <2>2. f \in [1..n -> S] /\ \A x, y \in DOMAIN f : f[x] = f[y] => x = y
    BY <2>1 DEF Bijection, Injection, IsInjective
  <2> QED
    BY <2>2 DEF KR!IsInjective
<1> DEFINE q == KR!SetToSeq(S)
<1>4. q \in [1..n -> S] /\ KR!IsInjective(q)
  BY <1>2, <1>3 DEF KR!SetToSeq
<1> HIDE DEF q
<1>5. q \in Injection(1..n, S)
  BY <1>4 DEF Injection, IsInjective, KR!IsInjective
<1>6. Cardinality(1..n) = n
  BY <1>1, FS_Interval
<1>7. q \in Surjection(1..n, S)
  BY <1>5, <1>6, FS_Injection DEF n
<1>8. \A t \in S : \E i \in 1..n : q[i] = t
  BY <1>7 DEF Surjection
<1>9. q \in Seq(Nat) /\ DOMAIN q = 1..n
  <2>1. q \in [1..n -> Nat] /\ DOMAIN q = 1..n
    BY <1>4
  <2> QED
    BY <1>1, <2>1
<1> QED
  BY <1>4, <1>8, <1>9 DEF Members, q
LEMMA KrWritten ==
  ASSUME store \in Seq(Nat), NEW rows \in Seq(Nat)
  PROVE  /\ KR!Written(rows) \in Seq(Nat)
         /\ Members(KR!Written(rows)) = Members(store) \cup Members(rows)
<1>1. CASE config.sink = "upsert"
  <2> DEFINE new == Members(rows) \ Members(store)
  <2>1. new \in SUBSET Nat /\ IsFiniteSet(new)
    <3>1. IsFiniteSet(Members(rows)) /\ Members(rows) \in SUBSET Nat
      BY MembersFinite
    <3> QED
      BY <3>1, FS_Subset
  <2>2. KR!Written(rows) = store \o KR!SetToSeq(new)
    BY <1>1, KrMembers DEF KR!Written, KR!with_kafka_delivery_fields
  <2> HIDE DEF new
  <2>3. KR!SetToSeq(new) \in Seq(Nat) /\ Members(KR!SetToSeq(new)) = new
    BY <2>1, KrSetToSeq
  <2>4. Members(store \o KR!SetToSeq(new)) = Members(store) \cup new /\ store \o KR!SetToSeq(new) \in Seq(Nat)
    BY <2>3, MembersJoined
  <2> QED
    BY <2>2, <2>4 DEF new
<1>2. CASE config.sink # "upsert"
  BY <1>2, MembersJoined DEF KR!Written
<1> QED
  BY <1>1, <1>2

LEMMA KrSessionFacts ==
  ASSUME NEW s \in KrSession
  PROVE  /\ s.stage \in KrStages /\ s.position \in Nat /\ s.batch \in Seq(Nat) /\ s.record \in Nat
         /\ s.committable \in Nat /\ s.pending \in Nat /\ s.buffer \in Seq(Nat) /\ s.txn \in Seq(Nat)
         /\ s.torn \in BOOLEAN /\ s.behind \in SUBSET Nat /\ s.cache \in KrHealth /\ s.probe \in KrProbe
         /\ Len(s.batch) \in Nat
<1>1. /\ s.stage \in KrStages /\ s.position \in Nat /\ s.batch \in Seq(Nat) /\ s.record \in Nat
      /\ s.committable \in Nat /\ s.pending \in Nat /\ s.buffer \in Seq(Nat) /\ s.txn \in Seq(Nat)
      /\ s.torn \in BOOLEAN /\ s.behind \in SUBSET Nat /\ s.cache \in KrHealth /\ s.probe \in KrProbe
  BY DEF KrSession
<1> QED
  BY <1>1

LEMMA KrNoCache == KR!NoCache.valid = FALSE /\ KR!NoCache \in KrHealth /\ KR!NoCache \in KrProbe
  BY DEF KR!NoCache, KrHealth, KrProbe

LEMMA KrClosed ==
  /\ KR!Closed \in KrSession /\ \A kept \in SUBSET Nat : KrHolds(KR!Closed, kept)
  /\ KR!Closed.stage = "closed" /\ KR!Closed.buffer = <<>>
<1>1. /\ KR!Closed.stage = "closed" /\ KR!Closed.position = 0 /\ KR!Closed.batch = <<>>
      /\ KR!Closed.record = 0 /\ KR!Closed.committable = 0 /\ KR!Closed.buffer = <<>>
      /\ KR!Closed.behind = {} /\ KR!Closed.cache = KR!NoCache /\ KR!Closed.probe = KR!NoCache
  BY DEF KR!Closed
<1>2. KR!Closed \in KrSession
  <2>1. KR!NoCache \in KrHealth /\ KR!NoCache \in KrProbe /\ <<>> \in Seq(Nat) /\ "closed" \in KrStages
    BY KrNoCache DEF KrStages, KrOutside
  <2> QED
    BY <2>1 DEF KR!Closed, KrSession
<1> SUFFICES ASSUME NEW kept \in SUBSET Nat PROVE KrHolds(KR!Closed, kept)
  BY <1>1, <1>2
<1>3. Len(<<>>) = 0 /\ 1..0 = {}
  OBVIOUS
<1>4. KrPlace(KR!Closed, kept)
  BY <1>1, <1>3 DEF KrPlace
<1>5. KrStage(KR!Closed, kept)
  BY <1>1 DEF KrStage, KrOutside, KrInside
<1>6. KrProbed(KR!Closed, kept)
  BY <1>1, KrNoCache DEF KrProbed
<1> QED
  BY <1>4, <1>5, <1>6 DEF KrHolds

\* What a session holds, it holds when more rows are kept.
LEMMA KrHoldsMore ==
  ASSUME NEW s \in KrSession, NEW kept \in SUBSET Nat, NEW more \in SUBSET Nat, kept \subseteq more,
         KrHolds(s, kept)
  PROVE  KrHolds(s, more)
<1>1. KrPlace(s, more)
  BY DEF KrHolds, KrPlace
<1>2. KrStage(s, more)
  BY DEF KrHolds, KrStage
<1>3. KrProbed(s, more)
  BY DEF KrHolds, KrProbed
<1> QED
  BY <1>1, <1>2, <1>3 DEF KrHolds

LEMMA KrKeptType == KrInv => KrKept \in SUBSET Nat
<1> SUFFICES ASSUME KrInv PROVE KrKept \in SUBSET Nat
  OBVIOUS
<1>1. \A p \in Procs : KR!ToSet(session[p].buffer) \in SUBSET Nat
  <2> SUFFICES ASSUME NEW p \in Procs PROVE KR!ToSet(session[p].buffer) \in SUBSET Nat
    OBVIOUS
  <2>1. session[p] \in KrSession
    BY DEF KrInv, KrTypes
  <2>2. session[p].buffer \in Seq(Nat)
    BY <2>1, KrSessionFacts
  <2> QED
    BY <2>2, MembersFinite, KrMembers
<1>2. KR!ToSet(store) \in SUBSET Nat
  BY MembersFinite, KrMembers DEF KrInv, KrTypes
<1>3. lost \in SUBSET Nat /\ passed_over \in SUBSET Nat
  BY DEF KrInv, KrTypes
<1>4. UNION {KR!ToSet(session[p].buffer) : p \in Procs} \in SUBSET Nat
  BY <1>1
<1> QED
  BY <1>2, <1>3, <1>4 DEF KrKept

\* Nothing that is kept is dropped when one session changes, as long as the rows of its
\* sink's memory stay there or are written.
LEMMA KrKeptGrows ==
  ASSUME KrInv, NEW p \in Procs, NEW s \in KrSession, session' = [session EXCEPT ![p] = s],
         config' = config, Members(store) \subseteq Members(store'),
         passed_over \subseteq passed_over', lost \subseteq lost',
         \/ KR!Transactional
         \/ Members(session[p].buffer) \subseteq Members(s.buffer) \cup Members(store')
         \/ Members(session[p].buffer) \subseteq lost',
         store' \in Seq(Nat), lost' \in SUBSET Nat, passed_over' \in SUBSET Nat
  PROVE  KrKept \subseteq KrKept' /\ KrKept' \in SUBSET Nat
<1>1. session \in [Procs -> KrSession]
  BY DEF KrInv, KrTypes
<1>2. session'[p] = s /\ \A q \in Procs : q # p => session'[q] = session[q]
  BY <1>1
<1>3. KR!Transactional' = KR!Transactional
  BY DEF KR!Transactional
<1>4. KrKept \subseteq KrKept'
  <2> SUFFICES ASSUME NEW r \in KrKept PROVE r \in KrKept'
    OBVIOUS
  <2>1. CASE r \in KR!ToSet(store) \cup passed_over
    BY <2>1, KrMembers DEF KrKept
  <2>2. CASE r \notin KR!ToSet(store) \cup passed_over
    <3>1. ~(config.flush \/ KR!Transactional)
      BY <2>2 DEF KrKept
    <3>2. r \in lost \/ \E q \in Procs : r \in KR!ToSet(session[q].buffer)
      BY <2>2 DEF KrKept
    <3>3. r \in lost' \/ r \in KR!ToSet(store') \/ \E q \in Procs : r \in KR!ToSet(session'[q].buffer)
      <4>1. CASE r \in lost
        BY <4>1
      <4>2. ASSUME NEW q \in Procs, r \in KR!ToSet(session[q].buffer), q # p
            PROVE  r \in KR!ToSet(session'[q].buffer)
        BY <4>2, <1>2
      <4>3. CASE r \in KR!ToSet(session[p].buffer)
        <5>1. r \in Members(session[p].buffer)
          BY <4>3, KrMembers
        <5>2. r \in Members(s.buffer) \/ r \in Members(store') \/ r \in lost'
          BY <5>1, <3>1
        <5> QED
          BY <5>2, <1>2, KrMembers
      <4> QED
        BY <3>2, <4>1, <4>2, <4>3
    <3> QED
      BY <1>3, <3>1, <3>3 DEF KrKept
  <2> QED
    BY <2>1, <2>2
<1>5. KrKept' \in SUBSET Nat
  <2>1. \A q \in Procs : KR!ToSet(session'[q].buffer) \in SUBSET Nat
    <3> SUFFICES ASSUME NEW q \in Procs PROVE KR!ToSet(session'[q].buffer) \in SUBSET Nat
      OBVIOUS
    <3>1. session'[q] \in KrSession
      BY <1>1, <1>2
    <3>2. session'[q].buffer \in Seq(Nat)
      BY <3>1, KrSessionFacts
    <3> QED
      BY <3>2, MembersFinite, KrMembers
  <2>2. KR!ToSet(store') \in SUBSET Nat
    BY MembersFinite, KrMembers
  <2>3. UNION {KR!ToSet(session'[q].buffer) : q \in Procs} \in SUBSET Nat
    BY <2>1
  <2> QED
    BY <2>2, <2>3 DEF KrKept
<1> QED
  BY <1>4, <1>5

\* A row in the memory of a sink that is not flushed is kept.
LEMMA KrBuffered ==
  ASSUME KrInv, NEW p \in Procs, NEW s \in KrSession, session' = [session EXCEPT ![p] = s],
         config' = config, ~config.flush, ~KR!Transactional
  PROVE  Members(s.buffer) \subseteq KrKept'
<1>1. session \in [Procs -> KrSession]
  BY DEF KrInv, KrTypes
<1>2. session'[p] = s
  BY <1>1
<1>3. KR!Transactional' = KR!Transactional
  BY DEF KR!Transactional
<1> QED
  BY <1>2, <1>3, KrMembers DEF KrKept

\* A step of one session.
LEMMA KrGoInv ==
  ASSUME KrAssumptions, KrInv, NEW p \in Procs, NEW s \in KrSession, session' = [session EXCEPT ![p] = s],
         config' = config, log' \in Nat, committed' \in Nat, owner' \in Procs, store' \in Seq(Nat),
         lost' \in SUBSET Nat, passed_over' \in SUBSET Nat,
         KrKept \subseteq KrKept', KrKept' \in SUBSET Nat,
         \A r \in 1..committed' : r \in KrKept', KrHolds(s, KrKept'),
         p \in config.procs \/ s.stage = "closed"
  PROVE  KrInv'
<1>1. session \in [Procs -> KrSession] /\ config \in Configs
  BY DEF KrInv, KrTypes
<1>2. session' \in [Procs -> KrSession] /\ session'[p] = s
      /\ \A q \in Procs : q # p => session'[q] = session[q]
  BY <1>1
<1>3. KrTypes'
  BY <1>1, <1>2 DEF KrTypes
<1>4. KrKept \in SUBSET Nat
  BY KrKeptType
<1>5. ASSUME NEW q \in Procs PROVE KrHolds(session'[q], KrKept')
  <2>1. CASE q = p
    BY <2>1, <1>2
  <2>2. CASE q # p
    <3>1. session[q] \in KrSession /\ KrHolds(session[q], KrKept)
      BY <1>1 DEF KrInv
    <3>2. KrHolds(session[q], KrKept')
      BY <3>1, <1>4, KrHoldsMore
    <3> QED
      BY <2>2, <3>2, <1>2
  <2> QED
    BY <2>1, <2>2
<1>6. \A q \in Procs : KrHolds(session[q], KrKept)'
  BY <1>5 DEF KrHolds, KrPlace, KrStage, KrProbed, KR!Transactional
<1>7. \A q \in Procs : q \notin config'.procs => session'[q].stage = "closed"
  BY <1>2 DEF KrInv
<1> QED
  BY <1>3, <1>6, <1>7 DEF KrInv
-----------------------------------------------------------------------------
(* What a session holds after the steps that several actions share.          *)

LEMMA KrAt ==
  ASSUME KrAssumptions, KrInv, NEW p \in Procs
  PROVE  /\ session[p] \in KrSession /\ KrPlace(session[p], KrKept) /\ KrStage(session[p], KrKept)
         /\ KrProbed(session[p], KrKept) /\ KrKept \in SUBSET Nat
         /\ session[p].stage # "closed" => p \in config.procs
         /\ config \in Configs /\ log \in Nat /\ committed \in Nat /\ owner \in Procs
         /\ store \in Seq(Nat) /\ lost \in SUBSET Nat /\ passed_over \in SUBSET Nat
         /\ session \in [Procs -> KrSession]
         /\ \A r \in 1..committed : r \in KrKept
  BY KrKeptType DEF KrInv, KrTypes, KrHolds

\* Only the session changes, and its sink holds what it held.
LEMMA KrQuietInv ==
  ASSUME KrAssumptions, KrInv, NEW p \in Procs, NEW s \in KrSession, KR!Go(p, s),
         config' = config, log' = log, owner' = owner, store' = store, lost' = lost,
         passed_over' = passed_over, committed' = committed,
         s.buffer = session[p].buffer, KrHolds(s, KrKept), session[p].stage # "closed"
  PROVE  KrInv'
<1>1. /\ KrKept \in SUBSET Nat /\ p \in config.procs
      /\ log' \in Nat /\ committed' \in Nat /\ owner' \in Procs
      /\ store' \in Seq(Nat) /\ lost' \in SUBSET Nat /\ passed_over' \in SUBSET Nat
      /\ \A r \in 1..committed : r \in KrKept
  BY KrAt
<1>2. session' = [session EXCEPT ![p] = s]
  BY DEF KR!Go
<1>3. Members(store) \subseteq Members(store') /\ passed_over \subseteq passed_over' /\ lost \subseteq lost'
      /\ Members(session[p].buffer) \subseteq Members(s.buffer) \cup Members(store')
  OBVIOUS
<1>4. KrKept \subseteq KrKept' /\ KrKept' \in SUBSET Nat
  BY <1>1, <1>2, <1>3, KrKeptGrows
<1>5. KrHolds(s, KrKept')
  BY <1>1, <1>4, KrHoldsMore
<1>6. \A r \in 1..committed' : r \in KrKept'
  BY <1>1, <1>4
<1> QED
  BY <1>1, <1>2, <1>4, <1>5, <1>6, KrGoInv

\* The stream is closed: what it has not delivered stays behind.
LEMMA KrLeave ==
  ASSUME NEW s \in KrSession, NEW kept \in SUBSET Nat, KrPlace(s, kept), KrProbed(s, kept), s.behind = {}
  PROVE  /\ KR!LeaveStream(s) \in KrSession /\ KrHolds(KR!LeaveStream(s), kept)
         /\ KR!LeaveStream(s).buffer = s.buffer
<1> DEFINE n == KR!LeaveStream(s)
           b == KR!ToSet(s.batch) \cup ({s.record} \ {0})
           st == IF s.pending > 0 THEN "leave" ELSE "stopped"
<1>1. s.batch \in Seq(Nat) /\ s.record \in Nat /\ s.position \in Nat
  BY KrSessionFacts
<1>2. b \in SUBSET Nat
  BY <1>1, MembersFinite, KrMembers
<1>3. st \in KrStages /\ st \in {"leave", "stopped"}
  BY DEF KrStages, KrOutside
<1>4. n = [s EXCEPT !.behind = b, !.batch = <<>>, !.record = 0, !.stage = st]
  BY DEF KR!LeaveStream
<1>5. \A r : r \in KR!ToSet(s.batch) => r \in b
  OBVIOUS
<1>6. \A r : r = s.record /\ r # 0 => r \in b
  OBVIOUS
<1> HIDE DEF n, b, st
<1>7. /\ n \in KrSession /\ n.behind = b /\ n.batch = <<>> /\ n.record = 0 /\ n.stage = st
      /\ n.position = s.position /\ n.committable = s.committable /\ n.buffer = s.buffer
      /\ n.cache = s.cache /\ n.probe = s.probe
  <2>1. <<>> \in Seq(Nat) /\ 0 \in Nat
    OBVIOUS
  <2> QED
    BY <1>2, <1>3, <1>4, <2>1 DEF KrSession
<1>8. KrPlace(n, kept)
  <2>1. Len(n.batch) = 0 /\ n.record + Len(n.batch) <= n.position
    BY <1>1, <1>7
  <2>2. \A i \in 1..Len(n.batch) : n.batch[i] + Len(n.batch) = n.position + i
    BY <2>1
  <2>3. ASSUME NEW r \in 1..n.position PROVE r \in kept \/ r \in n.behind
    <3>1. r \in kept \/ r \in KR!ToSet(s.batch) \/ r = s.record
      BY <1>7 DEF KrPlace
    <3>2. r # 0
      BY <1>1, <1>7
    <3> QED
      BY <3>1, <3>2, <1>5, <1>6, <1>7
  <2>4. \A r \in 1..n.committable : r \in kept
    BY <1>7 DEF KrPlace
  <2> QED
    BY <2>1, <2>2, <2>3, <2>4 DEF KrPlace
<1>9. KrStage(n, kept)
  BY <1>3, <1>7 DEF KrStage, KrOutside, KrInside
<1>10. KrProbed(n, kept)
  BY <1>7 DEF KrProbed
<1> QED
  BY <1>7, <1>8, <1>9, <1>10 DEF KrHolds, n

\* Everything below the record in hand is kept, as the batch comes after it.
LEMMA KrBelow ==
  ASSUME NEW s \in KrSession, NEW kept \in SUBSET Nat, KrPlace(s, kept), s.behind = {}, s.record \in kept
  PROVE  \A r \in 1..s.record : r \in kept
<1> SUFFICES ASSUME NEW r \in 1..s.record, r \notin kept PROVE FALSE
  OBVIOUS
<1>1. s.batch \in Seq(Nat) /\ s.record \in Nat /\ s.position \in Nat /\ Len(s.batch) \in Nat
  BY KrSessionFacts
<1>2. s.record + Len(s.batch) <= s.position
      /\ \A i \in 1..Len(s.batch) : s.batch[i] + Len(s.batch) = s.position + i
  BY DEF KrPlace
<1>3. r \in 1..s.position /\ r <= s.record
  BY <1>1, <1>2
<1>4. r \in KR!ToSet(s.batch)
  BY <1>3 DEF KrPlace
<1>5. PICK i \in 1..Len(s.batch) : s.batch[i] = r
  BY <1>1, <1>4 DEF KR!ToSet
<1> QED
  BY <1>1, <1>2, <1>3, <1>5

\* The success callback of a delivery whose row is kept.
LEMMA KrAck ==
  ASSUME NEW s \in KrSession, NEW kept \in SUBSET Nat, KrPlace(s, kept), KrProbed(s, kept), s.behind = {},
         s.record \in kept
  PROVE  KR!ack(s) \in KrSession /\ KrHolds(KR!ack(s), kept) /\ KR!ack(s).buffer = s.buffer
<1> DEFINE n == KR!ack(s)
           st == IF s.pending + 1 >= config.commit_every THEN "commit" ELSE "streaming"
           rec == IF s.pending + 1 >= config.commit_every THEN s.record ELSE 0
           pend == s.pending + 1
<1>1. s.batch \in Seq(Nat) /\ s.record \in Nat /\ s.position \in Nat /\ Len(s.batch) \in Nat
      /\ s.pending \in Nat
  BY KrSessionFacts
<1>2. st \in KrStages /\ st \in {"commit", "streaming"} /\ rec \in {0, s.record} /\ rec \in Nat
      /\ (st = "streaming" => rec = 0) /\ (st = "commit" => rec = s.record) /\ pend \in Nat
  BY <1>1 DEF KrStages, KrInside
<1>3. n = [s EXCEPT !.committable = s.record, !.pending = pend, !.cache = KR!NoCache, !.stage = st,
                    !.record = rec]
  BY DEF KR!ack
<1> HIDE DEF n, st, rec, pend
<1>4. /\ n \in KrSession /\ n.committable = s.record /\ n.cache = KR!NoCache /\ n.stage = st
      /\ n.record = rec /\ n.position = s.position /\ n.batch = s.batch /\ n.behind = s.behind
      /\ n.buffer = s.buffer /\ n.probe = s.probe
  BY <1>1, <1>2, <1>3, KrNoCache DEF KrSession
<1>5. KrPlace(n, kept)
  <2>1. n.record + Len(n.batch) <= n.position
    BY <1>1, <1>2, <1>4 DEF KrPlace
  <2>2. \A i \in 1..Len(n.batch) : n.batch[i] + Len(n.batch) = n.position + i
    BY <1>4 DEF KrPlace
  <2>3. \A r \in 1..n.position :
           r \in kept \/ r \in KR!ToSet(n.batch) \/ r = n.record \/ r \in n.behind
    BY <1>4 DEF KrPlace
  <2>4. \A r \in 1..n.committable : r \in kept
    BY <1>4, KrBelow
  <2> QED
    BY <2>1, <2>2, <2>3, <2>4 DEF KrPlace
<1>6. KrStage(n, kept)
  BY <1>2, <1>4 DEF KrStage, KrOutside, KrInside
<1>7. KrProbed(n, kept)
  BY <1>4, KrNoCache DEF KrProbed
<1> QED
  BY <1>4, <1>5, <1>6, <1>7 DEF KrHolds, n

-----------------------------------------------------------------------------
(* The actions.                                                              *)

LEMMA KrDrainInv ==
  ASSUME KrAssumptions, KrInv, NEW p \in Procs, KR!Drain(p) PROVE KrInv'
<1> DEFINE s == session[p]
           n == [s EXCEPT !.stage = "streaming", !.pending = 0, !.committable = 0,
                          !.behind = {}, !.batch = <<>>, !.cache = KR!NoCache]
<1>1. /\ s \in KrSession /\ KrPlace(s, KrKept) /\ KrStage(s, KrKept) /\ KrProbed(s, KrKept)
      /\ KrKept \in SUBSET Nat
  BY KrAt
<1>2. /\ config \in Configs /\ log \in Nat /\ committed \in Nat /\ owner \in Procs
      /\ store \in Seq(Nat) /\ lost \in SUBSET Nat /\ passed_over \in SUBSET Nat
      /\ \A r \in 1..committed : r \in KrKept
  BY KrAt
<1>3. /\ s.stage = "stopped" /\ passed_over' = passed_over \cup s.behind /\ session' = [session EXCEPT ![p] = n]
      /\ config' = config /\ log' = log /\ committed' = committed /\ owner' = owner /\ store' = store
      /\ lost' = lost
  BY DEF KR!Drain, KR!At, KR!Go
<1>4. p \in config.procs
  BY <1>3, KrAt
<1>5. s.behind \in SUBSET Nat /\ s.position \in Nat /\ s.batch = <<>> /\ s.record = 0
  BY <1>1, <1>3, KrSessionFacts DEF KrStage, KrOutside, KrInside
<1> HIDE DEF s
<1>6. /\ n \in KrSession /\ n.stage = "streaming" /\ n.committable = 0 /\ n.behind = {} /\ n.batch = <<>>
      /\ n.cache = KR!NoCache /\ n.probe = s.probe /\ n.position = s.position /\ n.record = s.record
      /\ n.buffer = s.buffer
  <2>1. "streaming" \in KrStages /\ <<>> \in Seq(Nat) /\ {} \in SUBSET Nat
    BY DEF KrStages
  <2> QED
    BY <1>1, <2>1, KrNoCache DEF KrSession
<1> HIDE DEF n
<1>7. KrKept \subseteq KrKept' /\ KrKept' \in SUBSET Nat
  <2>1. Members(store) \subseteq Members(store') /\ passed_over \subseteq passed_over' /\ lost \subseteq lost'
        /\ Members(session[p].buffer) \subseteq Members(n.buffer) \cup Members(store')
        /\ store' \in Seq(Nat) /\ lost' \in SUBSET Nat /\ passed_over' \in SUBSET Nat
    BY <1>2, <1>3, <1>5, <1>6 DEF s
  <2> QED
    BY <1>3, <1>6, <2>1, KrKeptGrows
<1>8. s.behind \subseteq KrKept'
  BY <1>3 DEF KrKept
<1>9. KrPlace(n, KrKept')
  <2>1. Len(n.batch) = 0 /\ n.record + Len(n.batch) <= n.position
    BY <1>5, <1>6
  <2>2. \A i \in 1..Len(n.batch) : n.batch[i] + Len(n.batch) = n.position + i
    BY <2>1
  <2>3. ASSUME NEW r \in 1..n.position PROVE r \in KrKept'
    <3>1. r \in KrKept \/ r \in KR!ToSet(s.batch) \/ r = s.record \/ r \in s.behind
      BY <1>1, <1>6 DEF KrPlace
    <3>2. r # 0 /\ KR!ToSet(<<>>) = {}
      BY <1>5, <1>6 DEF KR!ToSet
    <3> QED
      BY <3>1, <3>2, <1>5, <1>7, <1>8
  <2>4. \A r \in 1..n.committable : r \in KrKept'
    BY <1>6
  <2> QED
    BY <2>1, <2>2, <2>3, <2>4 DEF KrPlace
<1>10. KrStage(n, KrKept')
  BY <1>5, <1>6 DEF KrStage, KrOutside, KrInside
<1>11. KrProbed(n, KrKept')
  BY <1>1, <1>6, <1>7, KrNoCache DEF KrProbed
<1>12. KrHolds(n, KrKept') /\ \A r \in 1..committed' : r \in KrKept'
  BY <1>2, <1>3, <1>7, <1>9, <1>10, <1>11 DEF KrHolds
<1>13. log' \in Nat /\ committed' \in Nat /\ owner' \in Procs /\ store' \in Seq(Nat)
       /\ lost' \in SUBSET Nat /\ passed_over' \in SUBSET Nat
  BY <1>2, <1>3, <1>5
<1> QED
  BY <1>3, <1>4, <1>6, <1>7, <1>12, <1>13, KrGoInv

LEMMA KrFetchInv ==
  ASSUME KrAssumptions, KrInv, NEW p \in Procs, KR!Fetch(p) PROVE KrInv'
<1> DEFINE s == session[p]
<1>1. /\ s \in KrSession /\ KrPlace(s, KrKept) /\ KrStage(s, KrKept) /\ KrProbed(s, KrKept)
      /\ KrKept \in SUBSET Nat
  BY KrAt
<1>2. PICK k \in 1..config.poll :
         KR!Go(p, [s EXCEPT !.batch = [i \in 1..k |-> s.position + i],
                            !.position = s.position + k, !.cache = KR!NoCache])
  BY DEF KR!Fetch
<1>3. /\ s.stage = "streaming" /\ s.batch = <<>>
      /\ config' = config /\ log' = log /\ committed' = committed /\ owner' = owner /\ store' = store
      /\ lost' = lost /\ passed_over' = passed_over
  BY DEF KR!Fetch, KR!At
<1>4. s.position \in Nat /\ k \in Nat /\ k > 0 /\ s.record = 0 /\ s.behind = {}
  BY <1>1, <1>3, KrSessionFacts DEF KrStage, KrOutside, KrInside
<1> HIDE DEF s
<1> DEFINE b == [i \in 1..k |-> s.position + i]
           ps == s.position + k
           n == [s EXCEPT !.batch = b, !.position = ps, !.cache = KR!NoCache]
<1>5. /\ b \in Seq(Nat) /\ Len(b) = k /\ ps \in Nat /\ \A i \in 1..k : b[i] = s.position + i
      /\ DOMAIN b = 1..k
  BY <1>4
<1>6. KR!Go(p, n)
  BY <1>2
<1>7. ps = s.position + k
  OBVIOUS
<1> HIDE DEF b, ps
<1>8. /\ n \in KrSession /\ n.batch = b /\ n.position = ps /\ n.cache = KR!NoCache /\ n.stage = s.stage
      /\ n.record = s.record /\ n.committable = s.committable /\ n.behind = s.behind /\ n.probe = s.probe
      /\ n.buffer = s.buffer
  BY <1>1, <1>5, KrNoCache DEF KrSession
<1> HIDE DEF n
<1>9. KrPlace(n, KrKept)
  <2>1. n.record + Len(n.batch) <= n.position
    BY <1>4, <1>5, <1>7, <1>8
  <2>2. \A i \in 1..Len(n.batch) : n.batch[i] + Len(n.batch) = n.position + i
    BY <1>4, <1>5, <1>7, <1>8
  <2>3. ASSUME NEW r \in 1..n.position PROVE r \in KrKept \/ r \in KR!ToSet(n.batch)
    <3>1. CASE r <= s.position
      <4>1. r \in 1..s.position
        BY <1>4, <1>5, <1>8, <3>1
      <4>2. r \in KrKept \/ r \in KR!ToSet(s.batch) \/ r = s.record \/ r \in s.behind
        BY <1>1, <4>1 DEF KrPlace
      <4>3. r # 0 /\ KR!ToSet(<<>>) = {}
        BY <4>1, <1>4 DEF KR!ToSet
      <4> QED
        BY <4>2, <4>3, <1>3, <1>4
    <3>2. CASE r > s.position
      <4>1. r - s.position \in 1..k /\ s.position + (r - s.position) = r
        BY <1>4, <1>5, <1>7, <1>8, <3>2
      <4>2. b[r - s.position] = r
        BY <1>5, <4>1
      <4> QED
        BY <4>1, <4>2, <1>5, <1>8 DEF KR!ToSet
    <3> QED
      BY <3>1, <3>2, <1>4, <1>5, <1>8
  <2>4. \A r \in 1..n.committable : r \in KrKept
    BY <1>1, <1>8 DEF KrPlace
  <2> QED
    BY <2>1, <2>2, <2>3, <2>4 DEF KrPlace
<1>10. KrStage(n, KrKept)
  BY <1>3, <1>4, <1>8 DEF KrStage, KrOutside, KrInside
<1>11. KrProbed(n, KrKept)
  BY <1>1, <1>8, KrNoCache DEF KrProbed
<1>12. KrHolds(n, KrKept) /\ n.buffer = session[p].buffer /\ session[p].stage # "closed"
  BY <1>3, <1>8, <1>9, <1>10, <1>11 DEF KrHolds, s
<1> QED
  BY <1>3, <1>6, <1>8, <1>12, KrQuietInv

\* The next record of a batch.
LEMMA KrOneLess == \A x, l, m, i \in Nat : x + l = m + (i + 1) => x + (l - 1) = m + i
  OBVIOUS

LEMMA KrEmitInv ==
  ASSUME KrAssumptions, KrInv, NEW p \in Procs, KR!Emit(p) PROVE KrInv'
<1> DEFINE s == session[p]
           st == IF KR!Transactional THEN "begin" ELSE "write"
           n == [s EXCEPT !.record = Head(s.batch), !.batch = Tail(s.batch), !.cache = KR!NoCache,
                          !.stage = st]
<1>1. /\ s \in KrSession /\ KrPlace(s, KrKept) /\ KrStage(s, KrKept) /\ KrProbed(s, KrKept)
      /\ KrKept \in SUBSET Nat
  BY KrAt
<1>2. /\ s.stage = "streaming" /\ s.batch # <<>> /\ KR!Go(p, n)
      /\ config' = config /\ log' = log /\ committed' = committed /\ owner' = owner /\ store' = store
      /\ lost' = lost /\ passed_over' = passed_over
  BY DEF KR!Emit, KR!At
<1>3. s.position \in Nat /\ s.record = 0 /\ s.behind = {} /\ s.batch \in Seq(Nat) /\ Len(s.batch) \in Nat
  BY <1>1, <1>2, KrSessionFacts DEF KrStage, KrOutside, KrInside
<1>4. st \in KrStages /\ st \in {"begin", "write"} /\ (st = "begin" => KR!Transactional)
  BY DEF KrStages, KrInside
<1> HIDE DEF s, st
<1> DEFINE h == Head(s.batch)
           t == Tail(s.batch)
<1>5. /\ Len(s.batch) > 0 /\ h = s.batch[1] /\ h \in Nat /\ t \in Seq(Nat) /\ Len(t) = Len(s.batch) - 1
      /\ \A i \in 1..Len(t) : t[i] = s.batch[i + 1]
  BY <1>2, <1>3
<1>6. n = [s EXCEPT !.record = h, !.batch = t, !.cache = KR!NoCache, !.stage = st]
  OBVIOUS
<1> HIDE DEF h, t, n
<1>7. /\ n \in KrSession /\ n.record = h /\ n.batch = t /\ n.cache = KR!NoCache /\ n.stage = st
      /\ n.position = s.position /\ n.committable = s.committable /\ n.behind = s.behind
      /\ n.probe = s.probe /\ n.buffer = s.buffer
  BY <1>1, <1>4, <1>5, <1>6, KrNoCache DEF KrSession
<1>8. \A i \in 1..Len(s.batch) : s.batch[i] + Len(s.batch) = s.position + i
  BY <1>1 DEF KrPlace
<1>9. KrPlace(n, KrKept)
  <2>1. h + Len(s.batch) = s.position + 1
    <3>1. 1 \in 1..Len(s.batch)
      BY <1>3, <1>5
    <3> QED
      BY <3>1, <1>5, <1>8
  <2>2. n.record + Len(n.batch) <= n.position
    BY <1>3, <1>5, <1>7, <2>1
  <2>3. ASSUME NEW i \in 1..Len(t) PROVE t[i] + Len(t) = s.position + i
    <3>1. i + 1 \in 1..Len(s.batch) /\ i \in Nat /\ s.batch[i + 1] \in Nat /\ t[i] = s.batch[i + 1]
      <4>1. s.batch \in Seq(Nat) /\ Len(t) = Len(s.batch) - 1 /\ t[i] = s.batch[i + 1]
        BY <1>3, <1>5
      <4>2. Len(s.batch) \in Nat /\ i \in Nat /\ i + 1 \in 1..Len(s.batch)
        BY <4>1
      <4> QED
        BY <4>1, <4>2
    <3>2. s.batch[i + 1] + Len(s.batch) = s.position + (i + 1)
      BY <1>8, <3>1
    <3> DEFINE x == s.batch[i + 1]
               l == Len(s.batch)
               m == s.position
    <3>3. x \in Nat /\ l \in Nat /\ m \in Nat /\ x + l = m + (i + 1) /\ t[i] = x /\ Len(t) = l - 1
      BY <3>1, <3>2, <1>3, <1>5
    <3> HIDE DEF x, l, m
    <3>4. x \in Nat /\ l \in Nat /\ m \in Nat /\ i \in Nat /\ x + l = m + (i + 1)
      BY <3>1, <3>3
    <3>5. x + (l - 1) = m + i
      BY <3>4, KrOneLess
    <3> QED
      BY <3>3, <3>5 DEF m
  <2>4. ASSUME NEW r \in 1..s.position
        PROVE  r \in KrKept \/ r \in KR!ToSet(t) \/ r = h
    <3>1. r \in KrKept \/ r \in KR!ToSet(s.batch) \/ r = s.record \/ r \in s.behind
      BY <1>1 DEF KrPlace
    <3>2. r # 0
      BY <1>3
    <3>3. CASE r \in KR!ToSet(s.batch)
      <4>1. PICK i \in 1..Len(s.batch) : s.batch[i] = r
        BY <3>3, <1>3 DEF KR!ToSet
      <4>2. CASE i = 1
        BY <4>1, <4>2, <1>5
      <4>3. CASE i # 1
        <5>1. i - 1 \in 1..Len(t) /\ (i - 1) + 1 = i
          BY <4>3, <1>3, <1>5
        <5>2. t[i - 1] = r /\ DOMAIN t = 1..Len(t)
          BY <4>1, <5>1, <1>5
        <5> QED
          BY <5>1, <5>2 DEF KR!ToSet
      <4> QED
        BY <4>2, <4>3
    <3> QED
      BY <3>1, <3>2, <3>3, <1>3
  <2>5. \A r \in 1..n.committable : r \in KrKept
    BY <1>1, <1>7 DEF KrPlace
  <2> QED
    BY <1>7, <2>2, <2>3, <2>4, <2>5 DEF KrPlace
<1>10. KrStage(n, KrKept)
  BY <1>3, <1>4, <1>7 DEF KrStage, KrOutside, KrInside
<1>11. KrProbed(n, KrKept)
  BY <1>1, <1>7, KrNoCache DEF KrProbed
<1>12. KrHolds(n, KrKept) /\ n.buffer = session[p].buffer /\ session[p].stage # "closed"
  BY <1>2, <1>7, <1>9, <1>10, <1>11 DEF KrHolds, s
<1> QED
  BY <1>2, <1>7, <1>12, KrQuietInv

LEMMA KrFinishInv ==
  ASSUME KrAssumptions, KrInv, NEW p \in Procs, KR!Finish(p) PROVE KrInv'
<1> DEFINE s == session[p]
<1>1. /\ s \in KrSession /\ KrPlace(s, KrKept) /\ KrStage(s, KrKept) /\ KrProbed(s, KrKept)
      /\ KrKept \in SUBSET Nat
  BY KrAt
<1>2. /\ s.stage = "streaming" /\ KR!Go(p, KR!LeaveStream(s))
      /\ config' = config /\ log' = log /\ committed' = committed /\ owner' = owner /\ store' = store
      /\ lost' = lost /\ passed_over' = passed_over
  BY DEF KR!Finish, KR!At
<1>3. s.behind = {} /\ s.stage # "closed"
  BY <1>1, <1>2 DEF KrStage, KrOutside
<1>4. KR!LeaveStream(s) \in KrSession /\ KrHolds(KR!LeaveStream(s), KrKept)
      /\ KR!LeaveStream(s).buffer = s.buffer
  BY <1>1, <1>3, KrLeave
<1> QED
  BY <1>2, <1>3, <1>4, KrQuietInv

\* A step that changes the stage inside a delivery, and the transaction's rows.
LEMMA KrStageMoves ==
  ASSUME NEW s \in KrSession, NEW kept \in SUBSET Nat, KrPlace(s, kept), KrProbed(s, kept), s.behind = {},
         NEW st \in {"write", "offsets", "commit_transaction"}, NEW rows \in Seq(Nat),
         st = "offsets" => KR!Transactional /\ s.record \in KR!ToSet(s.buffer),
         st = "commit_transaction" => KR!Transactional /\ s.record \in KR!ToSet(rows)
  PROVE  /\ [s EXCEPT !.stage = st, !.txn = rows] \in KrSession
         /\ KrHolds([s EXCEPT !.stage = st, !.txn = rows], kept)
         /\ [s EXCEPT !.stage = st, !.txn = rows].buffer = s.buffer
<1> DEFINE n == [s EXCEPT !.stage = st, !.txn = rows]
<1>1. /\ n \in KrSession /\ n.stage = st /\ n.txn = rows /\ n.position = s.position /\ n.record = s.record
      /\ n.batch = s.batch /\ n.committable = s.committable /\ n.behind = s.behind
      /\ n.probe = s.probe /\ n.cache = s.cache /\ n.buffer = s.buffer
  <2>1. st \in KrStages
    BY DEF KrStages, KrInside
  <2> QED
    BY <2>1 DEF KrSession
<1> HIDE DEF n
<1>2. KrPlace(n, kept)
  BY <1>1 DEF KrPlace
<1>3. KrStage(n, kept)
  BY <1>1 DEF KrStage, KrOutside, KrInside
<1>4. KrProbed(n, kept)
  BY <1>1 DEF KrProbed
<1> QED
  BY <1>1, <1>2, <1>3, <1>4 DEF KrHolds, n

LEMMA KrBeginInv ==
  ASSUME KrAssumptions, KrInv, NEW p \in Procs, KR!Begin(p) \/ KR!Offsets(p) PROVE KrInv'
<1> DEFINE s == session[p]
<1>1. /\ s \in KrSession /\ KrPlace(s, KrKept) /\ KrStage(s, KrKept) /\ KrProbed(s, KrKept)
      /\ KrKept \in SUBSET Nat
  BY KrAt
<1>2. /\ s.stage \in {"begin", "offsets"}
      /\ config' = config /\ log' = log /\ committed' = committed /\ owner' = owner /\ store' = store
      /\ lost' = lost /\ passed_over' = passed_over
  BY DEF KR!Begin, KR!Offsets, KR!At
<1>3. s.behind = {} /\ s.stage # "closed" /\ KR!Transactional
  BY <1>1, <1>2 DEF KrStage, KrOutside
<1>4. CASE KR!Begin(p) /\ s.torn
  <2>1. KR!LeaveStream(s) \in KrSession /\ KrHolds(KR!LeaveStream(s), KrKept)
        /\ KR!LeaveStream(s).buffer = s.buffer
    BY <1>1, <1>3, KrLeave
  <2>2. KR!Go(p, KR!LeaveStream(s))
    BY <1>4 DEF KR!Begin
  <2> QED
    BY <1>2, <1>3, <2>1, <2>2, KrQuietInv
<1>5. CASE KR!Begin(p) /\ ~s.torn
  <2>1. KR!Go(p, [s EXCEPT !.stage = "write", !.txn = <<>>])
    BY <1>5 DEF KR!Begin
  <2>2. "write" \in {"write", "offsets", "commit_transaction"} /\ <<>> \in Seq(Nat)
        /\ ("write" = "offsets" => KR!Transactional /\ s.record \in KR!ToSet(s.buffer))
        /\ ("write" = "commit_transaction" => KR!Transactional /\ s.record \in KR!ToSet(<<>>))
    OBVIOUS
  <2>3. /\ [s EXCEPT !.stage = "write", !.txn = <<>>] \in KrSession
        /\ KrHolds([s EXCEPT !.stage = "write", !.txn = <<>>], KrKept)
        /\ [s EXCEPT !.stage = "write", !.txn = <<>>].buffer = s.buffer
    BY <1>1, <1>3, <2>2, KrStageMoves
  <2> QED
    BY <1>2, <1>3, <2>1, <2>3, KrQuietInv
<1>6. CASE KR!Offsets(p)
  <2>1. KR!Go(p, [s EXCEPT !.stage = "commit_transaction", !.txn = s.buffer]) /\ s.stage = "offsets"
    BY <1>6 DEF KR!Offsets, KR!At
  <2>2. s.record \in KR!ToSet(s.buffer) /\ s.buffer \in Seq(Nat)
    BY <1>1, <2>1, KrSessionFacts DEF KrStage
  <2>3. /\ "commit_transaction" \in {"write", "offsets", "commit_transaction"}
        /\ ("commit_transaction" = "offsets" => KR!Transactional /\ s.record \in KR!ToSet(s.buffer))
        /\ ("commit_transaction" = "commit_transaction"
            => KR!Transactional /\ s.record \in KR!ToSet(s.buffer))
    BY <1>3, <2>2
  <2>4. /\ [s EXCEPT !.stage = "commit_transaction", !.txn = s.buffer] \in KrSession
        /\ KrHolds([s EXCEPT !.stage = "commit_transaction", !.txn = s.buffer], KrKept)
        /\ [s EXCEPT !.stage = "commit_transaction", !.txn = s.buffer].buffer = s.buffer
    BY <1>1, <1>3, <2>2, <2>3, KrStageMoves
  <2> QED
    BY <1>2, <1>3, <2>1, <2>4, KrQuietInv
<1> QED
  BY <1>4, <1>5, <1>6

\* A step that may write rows and commit: what becomes of the session, given that the rows
\* its sink held are still there or written.
LEMMA KrStepInv ==
  ASSUME KrAssumptions, KrInv, NEW p \in Procs, NEW s \in KrSession, KR!Go(p, s),
         config' = config, log' = log, owner' = owner, lost' = lost, passed_over' = passed_over,
         store' \in Seq(Nat), Members(store) \subseteq Members(store'),
         \/ KR!Transactional
         \/ Members(session[p].buffer) \subseteq Members(s.buffer) \cup Members(store'),
         committed' \in Nat, \A r \in 1..committed' : r \in KrKept',
         KrKept' \in SUBSET Nat /\ KrKept \subseteq KrKept' => KrHolds(s, KrKept'),
         session[p].stage # "closed"
  PROVE  KrInv'
<1>1. /\ p \in config.procs /\ log' \in Nat /\ owner' \in Procs
      /\ lost' \in SUBSET Nat /\ passed_over' \in SUBSET Nat
  BY KrAt
<1>2. session' = [session EXCEPT ![p] = s]
  BY DEF KR!Go
<1>3. passed_over \subseteq passed_over' /\ lost \subseteq lost'
      /\ \/ KR!Transactional
         \/ Members(session[p].buffer) \subseteq Members(s.buffer) \cup Members(store')
         \/ Members(session[p].buffer) \subseteq lost'
  OBVIOUS
<1>4. KrKept \subseteq KrKept' /\ KrKept' \in SUBSET Nat
  BY <1>1, <1>2, <1>3, KrKeptGrows
<1> QED
  BY <1>1, <1>2, <1>4, KrGoInv

LEMMA KrMembersMore ==
  ASSUME NEW rows \in Seq(Nat), NEW r \in Nat
  PROVE  /\ Append(rows, r) \in Seq(Nat) /\ Members(rows) \subseteq Members(Append(rows, r))
         /\ r \in Members(Append(rows, r))
<1>1. /\ Append(rows, r) \in Seq(Nat) /\ Len(rows) \in Nat /\ DOMAIN rows = 1..Len(rows)
      /\ DOMAIN Append(rows, r) = 1..(Len(rows) + 1)
      /\ \A i \in 1..Len(rows) : Append(rows, r)[i] = rows[i]
      /\ Append(rows, r)[Len(rows) + 1] = r
  OBVIOUS
<1>2. \A i \in 1..Len(rows) : i \in 1..(Len(rows) + 1)
  BY <1>1
<1>3. Len(rows) + 1 \in 1..(Len(rows) + 1)
  BY <1>1
<1> QED
  BY <1>1, <1>2, <1>3 DEF Members

LEMMA KrWriteInv ==
  ASSUME KrAssumptions, KrInv, NEW p \in Procs, KR!Write(p) PROVE KrInv'
<1> DEFINE s == session[p]
           w == [s EXCEPT !.buffer = Append(s.buffer, s.record)]
<1>1. /\ s \in KrSession /\ KrPlace(s, KrKept) /\ KrStage(s, KrKept) /\ KrProbed(s, KrKept)
      /\ KrKept \in SUBSET Nat
  BY KrAt
<1>2. /\ s.stage = "write"
      /\ config' = config /\ log' = log /\ committed' = committed /\ owner' = owner /\ store' = store
      /\ lost' = lost /\ passed_over' = passed_over
      /\ KR!Go(p, IF config.flush THEN [w EXCEPT !.stage = "flush"]
                  ELSE IF KR!Transactional THEN [w EXCEPT !.stage = "offsets"] ELSE KR!ack(w))
  BY DEF KR!Write, KR!At
<1>3. s.behind = {} /\ s.stage # "closed" /\ s.record \in Nat /\ s.buffer \in Seq(Nat)
  BY <1>1, <1>2, KrSessionFacts DEF KrStage, KrOutside
<1>4. store' \in Seq(Nat) /\ Members(store) \subseteq Members(store') /\ committed' \in Nat
      /\ \A r \in 1..committed : r \in KrKept
  BY <1>2, KrAt
<1> DEFINE b == Append(s.buffer, s.record)
<1>5. b \in Seq(Nat) /\ Members(s.buffer) \subseteq Members(b) /\ s.record \in Members(b)
  BY <1>3, KrMembersMore
<1> HIDE DEF s, b
<1>6. w = [s EXCEPT !.buffer = b]
  BY DEF b
<1> HIDE DEF w
<1>7. /\ w \in KrSession /\ w.buffer = b /\ w.stage = s.stage /\ w.position = s.position
      /\ w.record = s.record /\ w.batch = s.batch /\ w.committable = s.committable
      /\ w.behind = s.behind /\ w.probe = s.probe /\ w.cache = s.cache
  BY <1>1, <1>5, <1>6 DEF KrSession
<1>8. ASSUME NEW n \in KrSession, n.buffer = b, KR!Go(p, n),
             KrKept' \in SUBSET Nat /\ KrKept \subseteq KrKept' => KrHolds(n, KrKept')
      PROVE  KrInv'
  <2>1. Members(session[p].buffer) \subseteq Members(n.buffer) \cup Members(store')
    BY <1>5, <1>8 DEF s
  <2>2. KrKept \subseteq KrKept'
    <3>1. session' = [session EXCEPT ![p] = n]
      BY <1>8 DEF KR!Go
    <3>2. passed_over \subseteq passed_over' /\ lost \subseteq lost' /\ lost' \in SUBSET Nat
          /\ passed_over' \in SUBSET Nat
      BY <1>2, KrAt
    <3> QED
      BY <1>2, <1>4, <2>1, <3>1, <3>2, KrKeptGrows
  <2>3. \A r \in 1..committed' : r \in KrKept'
    BY <1>2, <1>4, <2>2
  <2>4. session[p].stage # "closed"
    BY <1>3 DEF s
  <2> QED
    BY <1>2, <1>4, <1>8, <2>1, <2>3, <2>4, KrStepInv
<1>9. ASSUME KrKept' \in SUBSET Nat, KrKept \subseteq KrKept'
      PROVE  KrPlace(w, KrKept') /\ KrProbed(w, KrKept')
  <2>1. KrPlace(w, KrKept')
    BY <1>1, <1>7, <1>9 DEF KrPlace
  <2>2. KrProbed(w, KrKept')
    BY <1>1, <1>7, <1>9 DEF KrProbed
  <2> QED
    BY <2>1, <2>2
<1>10. ASSUME NEW st \in {"flush", "offsets"}, st = "offsets" => KR!Transactional,
              KR!Go(p, [w EXCEPT !.stage = st])
       PROVE  KrInv'
  <2> DEFINE n == [w EXCEPT !.stage = st]
  <2>1. KR!Go(p, n)
    BY <1>10
  <2>2. /\ n \in KrSession /\ n.buffer = b /\ n.stage = st /\ n.position = w.position
        /\ n.record = w.record /\ n.batch = w.batch /\ n.committable = w.committable
        /\ n.behind = w.behind /\ n.probe = w.probe /\ n.cache = w.cache
    <3>1. st \in KrStages
      BY DEF KrStages, KrInside
    <3> QED
      BY <1>7, <3>1 DEF KrSession
  <2> HIDE DEF n
  <2>3. ASSUME KrKept' \in SUBSET Nat, KrKept \subseteq KrKept' PROVE KrHolds(n, KrKept')
    <3>1. KrPlace(n, KrKept')
      BY <1>9, <2>2, <2>3 DEF KrPlace
    <3>2. KrProbed(n, KrKept')
      BY <1>9, <2>2, <2>3 DEF KrProbed
    <3>3. n.record \in KR!ToSet(n.buffer)
      BY <1>5, <1>7, <2>2, KrMembers
    <3>4. KrStage(n, KrKept')
      BY <1>3, <1>7, <1>10, <2>2, <3>3 DEF KrStage, KrOutside, KrInside
    <3> QED
      BY <3>1, <3>2, <3>4 DEF KrHolds
  <2> QED
    BY <1>8, <2>1, <2>2, <2>3
<1>11. CASE config.flush
  BY <1>2, <1>10, <1>11
<1>12. CASE ~config.flush /\ KR!Transactional
  BY <1>2, <1>10, <1>12
<1>13. CASE ~config.flush /\ ~KR!Transactional
  <2>1. KR!Go(p, KR!ack(w))
    BY <1>2, <1>13
  <2>2. KR!ack(w) \in KrSession /\ KR!ack(w).buffer = b
    <3>1. w.pending \in Nat /\ w.record \in Nat
      BY <1>7, KrSessionFacts
    <3> DEFINE st == IF w.pending + 1 >= config.commit_every THEN "commit" ELSE "streaming"
               rec == IF w.pending + 1 >= config.commit_every THEN w.record ELSE 0
               pend == w.pending + 1
    <3>2. st \in KrStages /\ rec \in Nat /\ pend \in Nat
      BY <3>1 DEF KrStages, KrInside
    <3>3. KR!ack(w) = [w EXCEPT !.committable = w.record, !.pending = pend, !.cache = KR!NoCache,
                                !.stage = st, !.record = rec]
      BY DEF KR!ack
    <3> HIDE DEF st, rec, pend
    <3> QED
      BY <1>7, <3>1, <3>2, <3>3, KrNoCache DEF KrSession
  <2>3. b = KR!ack(w).buffer /\ session' = [session EXCEPT ![p] = KR!ack(w)]
    BY <2>1, <2>2 DEF KR!Go
  <2>4. Members(b) \subseteq KrKept'
    BY <1>2, <1>13, <2>2, <2>3, KrBuffered
  <2>5. ASSUME KrKept' \in SUBSET Nat, KrKept \subseteq KrKept' PROVE KrHolds(KR!ack(w), KrKept')
    <3>1. w.record \in KrKept' /\ w.behind = {} /\ KrPlace(w, KrKept') /\ KrProbed(w, KrKept')
      BY <1>3, <1>5, <1>7, <1>9, <2>4, <2>5
    <3> QED
      BY <1>7, <2>5, <3>1, KrAck
  <2> QED
    BY <1>8, <2>1, <2>2, <2>5
<1> QED
  BY <1>11, <1>12, <1>13

\* The rows of a sink that is flushed are written; then the delivery is acknowledged.
LEMMA KrFlushInv ==
  ASSUME KrAssumptions, KrInv, NEW p \in Procs, KR!Flush(p) PROVE KrInv'
<1> DEFINE s == session[p]
<1>1. /\ s \in KrSession /\ KrPlace(s, KrKept) /\ KrStage(s, KrKept) /\ KrProbed(s, KrKept)
      /\ KrKept \in SUBSET Nat
  BY KrAt
<1>2. /\ s.stage = "flush"
      /\ config' = config /\ log' = log /\ committed' = committed /\ owner' = owner
      /\ lost' = lost /\ passed_over' = passed_over
  BY DEF KR!Flush, KR!At
<1>3. s.behind = {} /\ s.stage # "closed" /\ s.record \in Nat /\ s.buffer \in Seq(Nat)
      /\ s.record \in KR!ToSet(s.buffer) /\ s.txn \in Seq(Nat)
  BY <1>1, <1>2, KrSessionFacts DEF KrStage, KrOutside
<1>4. CASE KR!Transactional
  <2>1. store' = store /\ KR!Go(p, [s EXCEPT !.stage = "offsets"])
    BY <1>4 DEF KR!Flush
  <2> DEFINE n == [s EXCEPT !.stage = "offsets"]
  <2>2. /\ n \in KrSession /\ n.stage = "offsets" /\ n.position = s.position /\ n.record = s.record
        /\ n.batch = s.batch /\ n.committable = s.committable /\ n.behind = s.behind
        /\ n.probe = s.probe /\ n.cache = s.cache /\ n.buffer = s.buffer
    <3>1. "offsets" \in KrStages
      BY DEF KrStages, KrInside
    <3> QED
      BY <1>1, <3>1 DEF KrSession
  <2>3. KR!Go(p, n)
    BY <2>1
  <2> HIDE DEF n, s
  <2>4. KrPlace(n, KrKept)
    BY <1>1, <2>2 DEF KrPlace
  <2>5. KrStage(n, KrKept)
    BY <1>3, <1>4, <2>2 DEF KrStage, KrOutside, KrInside
  <2>6. KrProbed(n, KrKept)
    BY <1>1, <2>2 DEF KrProbed
  <2>7. KrHolds(n, KrKept) /\ n.buffer = session[p].buffer /\ session[p].stage # "closed"
    BY <1>3, <2>2, <2>4, <2>5, <2>6 DEF KrHolds, s
  <2> QED
    BY <1>2, <2>1, <2>2, <2>3, <2>7, KrQuietInv
<1>5. CASE ~KR!Transactional
  <2> DEFINE w == [s EXCEPT !.buffer = <<>>]
  <2>1. store' = KR!Written(s.buffer) /\ KR!Go(p, KR!ack(w))
    BY <1>5 DEF KR!Flush
  <2>2. store' \in Seq(Nat) /\ Members(store') = Members(store) \cup Members(s.buffer)
    BY <1>3, <2>1, KrAt, KrWritten
  <2>3. /\ w \in KrSession /\ w.position = s.position /\ w.record = s.record
        /\ w.batch = s.batch /\ w.committable = s.committable /\ w.behind = s.behind
        /\ w.probe = s.probe /\ w.cache = s.cache
    <3>1. <<>> \in Seq(Nat)
      OBVIOUS
    <3> QED
      BY <1>1, <3>1 DEF KrSession
  <2> HIDE DEF w
  <2>4. KR!ack(w) \in KrSession
    <3>1. w.pending \in Nat /\ w.record \in Nat
      BY <2>3, KrSessionFacts
    <3> DEFINE st == IF w.pending + 1 >= config.commit_every THEN "commit" ELSE "streaming"
               rec == IF w.pending + 1 >= config.commit_every THEN w.record ELSE 0
               pend == w.pending + 1
    <3>2. st \in KrStages /\ rec \in Nat /\ pend \in Nat
      BY <3>1 DEF KrStages, KrInside
    <3>3. KR!ack(w) = [w EXCEPT !.committable = w.record, !.pending = pend, !.cache = KR!NoCache,
                                !.stage = st, !.record = rec]
      BY DEF KR!ack
    <3> HIDE DEF st, rec, pend
    <3> QED
      BY <2>3, <3>1, <3>2, <3>3, KrNoCache DEF KrSession
  <2>5. Members(store') \subseteq KrKept'
    BY KrMembers DEF KrKept
  <2>6. ASSUME KrKept' \in SUBSET Nat, KrKept \subseteq KrKept' PROVE KrHolds(KR!ack(w), KrKept')
    <3>1. KrPlace(w, KrKept')
      BY <1>1, <2>3, <2>6 DEF KrPlace
    <3>2. KrProbed(w, KrKept')
      BY <1>1, <2>3, <2>6 DEF KrProbed
    <3>3. w.record \in KrKept' /\ w.behind = {}
      BY <1>3, <2>2, <2>3, <2>5, KrMembers
    <3> QED
      BY <2>3, <2>6, <3>1, <3>2, <3>3, KrAck
  <2>7. Members(store) \subseteq Members(store')
        /\ Members(session[p].buffer) \subseteq Members(KR!ack(w).buffer) \cup Members(store')
        /\ session[p].stage # "closed"
    BY <1>3, <2>2
  <2>8. KrKept \subseteq KrKept'
    <3>1. session' = [session EXCEPT ![p] = KR!ack(w)]
      BY <2>1 DEF KR!Go
    <3>2. passed_over \subseteq passed_over' /\ lost \subseteq lost' /\ lost' \in SUBSET Nat
          /\ passed_over' \in SUBSET Nat
      BY <1>2, KrAt
    <3> QED
      BY <1>2, <2>2, <2>4, <2>7, <3>1, <3>2, KrKeptGrows
  <2>9. committed' \in Nat /\ \A r \in 1..committed' : r \in KrKept'
    BY <1>2, <2>8, KrAt
  <2> QED
    BY <1>2, <2>1, <2>2, <2>4, <2>6, <2>7, <2>9, KrStepInv
<1> QED
  BY <1>4, <1>5

\* A transaction that the broker has executed: its rows and its offset are there together.
LEMMA KrExecuted ==
  ASSUME KrAssumptions, KrInv, NEW p \in Procs, session[p].stage = "commit_transaction",
         store' = store \o session[p].txn, NEW s \in KrSession, KR!Go(p, s), config' = config,
         lost' = lost, passed_over' = passed_over
  PROVE  /\ KrKept \subseteq KrKept' /\ KrKept' \in SUBSET Nat /\ store' \in Seq(Nat)
         /\ Members(store) \subseteq Members(store') /\ KR!Transactional
         /\ session[p].record \in KrKept'
         /\ \A r \in 1..session[p].record : r \in KrKept'
<1> DEFINE o == session[p]
<1>1. /\ o \in KrSession /\ KrPlace(o, KrKept) /\ KrStage(o, KrKept) /\ KrKept \in SUBSET Nat
      /\ store \in Seq(Nat) /\ lost' \in SUBSET Nat /\ passed_over' \in SUBSET Nat
  BY KrAt
<1>2. o.behind = {} /\ o.txn \in Seq(Nat) /\ KR!Transactional /\ o.record \in KR!ToSet(o.txn)
  BY <1>1, KrSessionFacts DEF KrStage, KrOutside
<1>3. store' \in Seq(Nat) /\ Members(store') = Members(store) \cup Members(o.txn)
  BY <1>1, <1>2, MembersJoined
<1>4. session' = [session EXCEPT ![p] = s]
  BY DEF KR!Go
<1>5. Members(store) \subseteq Members(store') /\ passed_over \subseteq passed_over' /\ lost \subseteq lost'
  BY <1>3
<1>6. KrKept \subseteq KrKept' /\ KrKept' \in SUBSET Nat
  BY <1>1, <1>2, <1>3, <1>4, <1>5, KrKeptGrows
<1>7. o.record \in KrKept'
  BY <1>2, <1>3, KrMembers DEF KrKept
<1> HIDE DEF o
<1>8. KrPlace(o, KrKept')
  BY <1>1, <1>6 DEF KrPlace
<1>9. \A r \in 1..o.record : r \in KrKept'
  BY <1>1, <1>2, <1>6, <1>7, <1>8, KrBelow
<1> QED
  BY <1>2, <1>3, <1>5, <1>6, <1>7, <1>9 DEF o

LEMMA KrCommitTransactionInv ==
  ASSUME KrAssumptions, KrInv, NEW p \in Procs, KR!CommitTransaction(p) PROVE KrInv'
<1> DEFINE s == session[p]
           n == [s EXCEPT !.committable = s.record, !.pending = 0, !.record = 0, !.txn = <<>>,
                          !.buffer = <<>>, !.stage = "streaming", !.cache = KR!NoCache]
<1>1. /\ s \in KrSession /\ KrPlace(s, KrKept) /\ KrStage(s, KrKept) /\ KrProbed(s, KrKept)
      /\ KrKept \in SUBSET Nat
  BY KrAt
<1>2. /\ s.stage = "commit_transaction" /\ store' = store \o s.txn /\ committed' = s.record
      /\ config' = config /\ log' = log /\ owner' = owner
      /\ lost' = lost /\ passed_over' = passed_over /\ KR!Go(p, n)
  BY DEF KR!CommitTransaction, KR!At
<1>3. s.behind = {} /\ s.record \in Nat /\ s.stage # "closed" /\ Len(s.batch) \in Nat /\ s.position \in Nat
  BY <1>1, <1>2, KrSessionFacts DEF KrStage, KrOutside
<1>4. /\ n \in KrSession /\ n.committable = s.record /\ n.record = 0 /\ n.stage = "streaming"
      /\ n.cache = KR!NoCache /\ n.position = s.position /\ n.batch = s.batch /\ n.behind = s.behind
      /\ n.probe = s.probe
  <2>1. <<>> \in Seq(Nat) /\ "streaming" \in KrStages
    BY DEF KrStages
  <2> HIDE DEF s
  <2> QED
    BY <1>1, <1>3, <2>1, KrNoCache DEF KrSession
<1> HIDE DEF n
<1>5. /\ KrKept \subseteq KrKept' /\ KrKept' \in SUBSET Nat /\ store' \in Seq(Nat)
      /\ Members(store) \subseteq Members(store') /\ KR!Transactional /\ s.record \in KrKept'
      /\ \A r \in 1..s.record : r \in KrKept'
  BY <1>2, <1>4, KrExecuted
<1> HIDE DEF s
<1>6. KrPlace(n, KrKept')
  <2>1. n.record + Len(n.batch) <= n.position
    BY <1>1, <1>3, <1>4 DEF KrPlace
  <2>2. \A i \in 1..Len(n.batch) : n.batch[i] + Len(n.batch) = n.position + i
    BY <1>1, <1>4 DEF KrPlace
  <2>3. \A r \in 1..n.position :
           r \in KrKept' \/ r \in KR!ToSet(n.batch) \/ r = n.record \/ r \in n.behind
    BY <1>1, <1>4, <1>5 DEF KrPlace
  <2>4. \A r \in 1..n.committable : r \in KrKept'
    BY <1>4, <1>5
  <2> QED
    BY <2>1, <2>2, <2>3, <2>4 DEF KrPlace
<1>7. KrStage(n, KrKept')
  BY <1>3, <1>4 DEF KrStage, KrOutside, KrInside
<1>8. KrProbed(n, KrKept')
  BY <1>1, <1>4, <1>5, KrNoCache DEF KrProbed
<1>9. KrHolds(n, KrKept')
  BY <1>6, <1>7, <1>8 DEF KrHolds
<1>10. committed' \in Nat /\ (\A r \in 1..committed' : r \in KrKept') /\ session[p].stage # "closed"
  BY <1>2, <1>3, <1>5 DEF s
<1> QED
  BY <1>2, <1>4, <1>5, <1>9, <1>10, KrStepInv

LEMMA KrCommitInv ==
  ASSUME KrAssumptions, KrInv, NEW p \in Procs, KR!Commit(p) PROVE KrInv'
<1> DEFINE s == session[p]
           st == IF s.stage = "leave" THEN "stopped" ELSE "streaming"
           n == [s EXCEPT !.pending = 0, !.record = 0, !.cache = KR!NoCache, !.stage = st]
<1>1. /\ s \in KrSession /\ KrPlace(s, KrKept) /\ KrStage(s, KrKept) /\ KrProbed(s, KrKept)
      /\ KrKept \in SUBSET Nat /\ store \in Seq(Nat)
  BY KrAt
<1>2. /\ s.stage \in {"commit", "leave"} /\ committed' = s.committable
      /\ config' = config /\ log' = log /\ owner' = owner /\ store' = store
      /\ lost' = lost /\ passed_over' = passed_over /\ KR!Go(p, n)
  BY DEF KR!Commit, KR!At
<1>3. /\ st \in KrStages /\ (st = "stopped" => s.batch = <<>>) /\ (st = "streaming" => s.behind = {})
      /\ st \in {"stopped", "streaming"} /\ (s.record = 0 \/ s.record \in KrKept)
  BY <1>1, <1>2 DEF KrStages, KrStage, KrOutside, KrInside
<1>4. s.record \in Nat /\ s.position \in Nat /\ Len(s.batch) \in Nat /\ s.committable \in Nat
      /\ s.stage # "closed" /\ s.buffer \in Seq(Nat)
  BY <1>1, <1>2, KrSessionFacts
<1> HIDE DEF s, st
<1>5. /\ n \in KrSession /\ n.record = 0 /\ n.stage = st /\ n.cache = KR!NoCache /\ n.batch = s.batch
      /\ n.position = s.position /\ n.committable = s.committable /\ n.behind = s.behind
      /\ n.probe = s.probe /\ n.buffer = s.buffer
  BY <1>1, <1>3, KrNoCache DEF KrSession
<1> HIDE DEF n
<1>6. KrPlace(n, KrKept)
  <2>1. n.record + Len(n.batch) <= n.position
    BY <1>1, <1>4, <1>5 DEF KrPlace
  <2>2. \A i \in 1..Len(n.batch) : n.batch[i] + Len(n.batch) = n.position + i
    BY <1>1, <1>5 DEF KrPlace
  <2>3. \A r \in 1..n.position :
           r \in KrKept \/ r \in KR!ToSet(n.batch) \/ r = n.record \/ r \in n.behind
    <3> SUFFICES ASSUME NEW r \in 1..n.position
                 PROVE  r \in KrKept \/ r \in KR!ToSet(n.batch) \/ r = n.record \/ r \in n.behind
      OBVIOUS
    <3>1. r \in KrKept \/ r \in KR!ToSet(s.batch) \/ r = s.record \/ r \in s.behind
      BY <1>1, <1>5 DEF KrPlace
    <3> QED
      BY <3>1, <1>3, <1>5
  <2>4. \A r \in 1..n.committable : r \in KrKept
    BY <1>1, <1>5 DEF KrPlace
  <2> QED
    BY <2>1, <2>2, <2>3, <2>4 DEF KrPlace
<1>7. KrStage(n, KrKept)
  BY <1>3, <1>5 DEF KrStage, KrOutside, KrInside
<1>8. KrProbed(n, KrKept)
  BY <1>1, <1>5, KrNoCache DEF KrProbed
<1>9. KrHolds(n, KrKept)
  BY <1>6, <1>7, <1>8 DEF KrHolds
<1>10. KrKept' \in SUBSET Nat /\ KrKept \subseteq KrKept' => KrHolds(n, KrKept')
  BY <1>1, <1>5, <1>9, KrHoldsMore
<1>11. store' \in Seq(Nat) /\ Members(store) \subseteq Members(store')
       /\ Members(session[p].buffer) \subseteq Members(n.buffer) \cup Members(store')
       /\ session[p].stage # "closed"
  BY <1>1, <1>2, <1>4, <1>5 DEF s
<1>12. KrKept \subseteq KrKept'
  <2>1. session' = [session EXCEPT ![p] = n]
    BY <1>2 DEF KR!Go
  <2>2. passed_over \subseteq passed_over' /\ lost \subseteq lost' /\ lost' \in SUBSET Nat
        /\ passed_over' \in SUBSET Nat
    BY <1>2, KrAt
  <2> QED
    BY <1>2, <1>5, <1>11, <2>1, <2>2, KrKeptGrows
<1>13. committed' \in Nat /\ \A r \in 1..committed' : r \in KrKept'
  BY <1>1, <1>2, <1>4, <1>12 DEF KrPlace
<1> QED
  BY <1>2, <1>5, <1>10, <1>11, <1>13, KrStepInv

\* Nothing is lost by a step that leaves the sink's memory alone.
LEMMA KrSafe ==
  ASSUME KrAssumptions, KrInv, NEW p \in Procs, NEW n \in KrSession, KR!Go(p, n),
         config' = config, lost' = lost, passed_over' = passed_over, store' \in Seq(Nat),
         Members(store) \subseteq Members(store'), n.buffer = session[p].buffer
  PROVE  KrKept \subseteq KrKept' /\ KrKept' \in SUBSET Nat
<1>1. session' = [session EXCEPT ![p] = n]
  BY DEF KR!Go
<1>2. passed_over \subseteq passed_over' /\ lost \subseteq lost' /\ lost' \in SUBSET Nat
      /\ passed_over' \in SUBSET Nat
      /\ Members(session[p].buffer) \subseteq Members(n.buffer) \cup Members(store')
  BY KrAt
<1> QED
  BY <1>1, <1>2, KrKeptGrows

\* What becomes of a session whose call raised.
KrRaised(s) ==
    IF KR!Transactional /\ s.stage \in {"write", "flush", "offsets", "commit_transaction"}
    THEN [s EXCEPT !.stage = "abort"]
    ELSE IF s.stage = "leave" THEN [s EXCEPT !.stage = "stopped"]
    ELSE KR!LeaveStream(s)

LEMMA KrRaisedHolds ==
  ASSUME NEW s \in KrSession, NEW kept \in SUBSET Nat, KrPlace(s, kept), KrStage(s, kept), KrProbed(s, kept),
         s.stage \in {"begin", "write", "flush", "offsets", "commit_transaction", "commit", "leave"}
  PROVE  KrRaised(s) \in KrSession /\ KrHolds(KrRaised(s), kept) /\ KrRaised(s).buffer = s.buffer
<1>1. ASSUME NEW st \in {"abort", "stopped"}, st = "abort" => KR!Transactional /\ s.behind = {},
             st = "stopped" => s.stage = "leave"
      PROVE  /\ [s EXCEPT !.stage = st] \in KrSession /\ KrHolds([s EXCEPT !.stage = st], kept)
             /\ [s EXCEPT !.stage = st].buffer = s.buffer
  <2> DEFINE n == [s EXCEPT !.stage = st]
  <2>1. /\ n \in KrSession /\ n.stage = st /\ n.position = s.position /\ n.record = s.record
        /\ n.batch = s.batch /\ n.committable = s.committable /\ n.behind = s.behind
        /\ n.probe = s.probe /\ n.cache = s.cache /\ n.buffer = s.buffer
    <3>1. st \in KrStages
      BY DEF KrStages, KrInside, KrOutside
    <3> QED
      BY <3>1 DEF KrSession
  <2> HIDE DEF n
  <2>2. KrPlace(n, kept)
    BY <2>1 DEF KrPlace
  <2>3. KrStage(n, kept)
    <3>1. CASE st = "abort"
      BY <1>1, <2>1, <3>1 DEF KrStage, KrOutside, KrInside
    <3>2. CASE st = "stopped"
      <4>1. s.batch = <<>> /\ s.record = 0
        BY <1>1, <3>2 DEF KrStage, KrOutside, KrInside
      <4> QED
        BY <2>1, <3>2, <4>1 DEF KrStage, KrOutside, KrInside
    <3> QED
      BY <3>1, <3>2
  <2>4. KrProbed(n, kept)
    BY <2>1 DEF KrProbed
  <2> QED
    BY <2>1, <2>2, <2>3, <2>4 DEF KrHolds, n
<1>2. s.stage # "leave" => s.behind = {}
  BY DEF KrStage, KrOutside
<1>3. CASE KR!Transactional /\ s.stage \in {"write", "flush", "offsets", "commit_transaction"}
  <2>1. KrRaised(s) = [s EXCEPT !.stage = "abort"] /\ s.behind = {}
    BY <1>2, <1>3 DEF KrRaised
  <2> QED
    BY <1>1, <1>3, <2>1
<1>4. CASE s.stage = "leave"
  <2>1. KrRaised(s) = [s EXCEPT !.stage = "stopped"]
    BY <1>4 DEF KrRaised
  <2> QED
    BY <1>1, <1>4, <2>1
<1>5. CASE /\ ~(KR!Transactional /\ s.stage \in {"write", "flush", "offsets", "commit_transaction"})
           /\ s.stage # "leave"
  <2>1. KrRaised(s) = KR!LeaveStream(s)
    BY <1>5 DEF KrRaised
  <2> QED
    BY <1>2, <1>5, <2>1, KrLeave
<1> QED
  BY <1>3, <1>4, <1>5

LEMMA KrRaiseInv ==
  ASSUME KrAssumptions, KrInv, NEW p \in Procs, KR!Raise(p) PROVE KrInv'
<1> DEFINE s == session[p]
           n == KrRaised(s)
<1>1. /\ s \in KrSession /\ KrPlace(s, KrKept) /\ KrStage(s, KrKept) /\ KrProbed(s, KrKept)
      /\ KrKept \in SUBSET Nat /\ store \in Seq(Nat) /\ committed \in Nat
      /\ \A r \in 1..committed : r \in KrKept
  BY KrAt
<1>2. /\ s.stage \in {"begin", "write", "flush", "offsets", "commit_transaction", "commit", "leave"}
      /\ config' = config /\ log' = log /\ owner' = owner /\ lost' = lost /\ passed_over' = passed_over
      /\ KR!Go(p, n)
  BY DEF KR!Raise, KR!At, KrRaised
<1>3. \/ store' = store /\ committed' = committed
      \/ s.stage = "flush" /\ store' = KR!Written(s.buffer) /\ committed' = committed
      \/ s.stage = "commit_transaction" /\ store' = store \o s.txn /\ committed' = s.record
      \/ store' = store /\ committed' = s.committable
  BY DEF KR!Raise
<1>4. n \in KrSession /\ KrHolds(n, KrKept) /\ n.buffer = s.buffer
  BY <1>1, <1>2, KrRaisedHolds
<1>5. s.buffer \in Seq(Nat) /\ s.committable \in Nat /\ s.record \in Nat
  BY <1>1, KrSessionFacts
<1>6. session[p].stage # "closed" /\ n.buffer = session[p].buffer
  BY <1>2, <1>4
<1> HIDE DEF n
<1>7. KrKept' \in SUBSET Nat /\ KrKept \subseteq KrKept' => KrHolds(n, KrKept')
  BY <1>1, <1>4, KrHoldsMore
<1>8. ASSUME store' \in Seq(Nat), Members(store) \subseteq Members(store'), committed' \in Nat,
             \A r \in 1..committed' : r \in KrKept'
      PROVE  KrInv'
  <2>1. Members(session[p].buffer) \subseteq Members(n.buffer) \cup Members(store')
    BY <1>6
  <2> QED
    BY <1>2, <1>4, <1>6, <1>7, <1>8, <2>1, KrStepInv
<1>9. CASE store' = store /\ committed' \in {committed, s.committable}
  <2>1. store' \in Seq(Nat) /\ Members(store) \subseteq Members(store') /\ committed' \in Nat
    BY <1>1, <1>5, <1>9
  <2>2. KrKept \subseteq KrKept'
    BY <1>2, <1>4, <1>6, <2>1, KrSafe
  <2>3. \A r \in 1..committed' : r \in KrKept
    BY <1>1, <1>9 DEF KrPlace
  <2> QED
    BY <1>8, <2>1, <2>2, <2>3
<1>10. CASE store' = KR!Written(s.buffer) /\ committed' = committed
  <2>1. store' \in Seq(Nat) /\ Members(store) \subseteq Members(store') /\ committed' \in Nat
    BY <1>1, <1>5, <1>10, KrWritten
  <2>2. KrKept \subseteq KrKept'
    BY <1>2, <1>4, <1>6, <2>1, KrSafe
  <2>3. \A r \in 1..committed' : r \in KrKept'
    BY <1>1, <1>10, <2>2
  <2> QED
    BY <1>8, <2>1, <2>3
<1>11. CASE s.stage = "commit_transaction" /\ store' = store \o s.txn /\ committed' = s.record
  <2>1. /\ store' \in Seq(Nat) /\ Members(store) \subseteq Members(store')
        /\ \A r \in 1..s.record : r \in KrKept'
    BY <1>2, <1>4, <1>11, KrExecuted
  <2> QED
    BY <1>5, <1>8, <1>11, <2>1
<1> QED
  BY <1>3, <1>9, <1>10, <1>11

LEMMA KrAbortInv ==
  ASSUME KrAssumptions, KrInv, NEW p \in Procs, KR!Abort(p) PROVE KrInv'
<1> DEFINE s == session[p]
<1>1. /\ s \in KrSession /\ KrPlace(s, KrKept) /\ KrStage(s, KrKept) /\ KrProbed(s, KrKept)
      /\ KrKept \in SUBSET Nat /\ store \in Seq(Nat) /\ committed \in Nat
      /\ \A r \in 1..committed : r \in KrKept
  BY KrAt
<1>2. /\ s.stage = "abort"
      /\ config' = config /\ log' = log /\ owner' = owner /\ lost' = lost /\ passed_over' = passed_over
      /\ store' = store /\ committed' = committed
  BY DEF KR!Abort, KR!At
<1>3. s.behind = {} /\ KR!Transactional /\ session[p].stage # "closed" /\ lost \in SUBSET Nat
      /\ passed_over \in SUBSET Nat
  BY <1>1, <1>2, KrAt DEF KrStage, KrOutside
<1>4. ASSUME NEW w \in KrSession, w.position = s.position, w.record = s.record, w.batch = s.batch,
             w.committable = s.committable, w.behind = s.behind, w.probe = s.probe, w.cache = s.cache,
             KR!Go(p, KR!LeaveStream(w))
      PROVE  KrInv'
  <2> HIDE DEF s
  <2>1. KrPlace(w, KrKept)
    BY <1>1, <1>4 DEF KrPlace
  <2>2. KrProbed(w, KrKept) /\ w.behind = {}
    BY <1>1, <1>3, <1>4 DEF KrProbed
  <2>3. KR!LeaveStream(w) \in KrSession /\ KrHolds(KR!LeaveStream(w), KrKept)
    BY <1>1, <1>4, <2>1, <2>2, KrLeave
  <2>4. KrKept' \in SUBSET Nat /\ KrKept \subseteq KrKept' => KrHolds(KR!LeaveStream(w), KrKept')
    BY <1>1, <2>3, KrHoldsMore
  <2>5. store' \in Seq(Nat) /\ Members(store) \subseteq Members(store') /\ committed' \in Nat
    BY <1>1, <1>2
  <2>6. KrKept \subseteq KrKept'
    <3>1. session' = [session EXCEPT ![p] = KR!LeaveStream(w)]
      BY <1>4 DEF KR!Go
    <3>2. passed_over \subseteq passed_over' /\ lost \subseteq lost' /\ lost' \in SUBSET Nat
          /\ passed_over' \in SUBSET Nat
      BY <1>2, <1>3
    <3> QED
      BY <1>2, <1>3, <2>3, <2>5, <3>1, <3>2, KrKeptGrows
  <2>7. \A r \in 1..committed' : r \in KrKept'
    BY <1>1, <1>2, <2>6
  <2> QED
    BY <1>2, <1>3, <1>4, <2>3, <2>4, <2>5, <2>7, KrStepInv
<1>5. CASE KR!Go(p, KR!LeaveStream([s EXCEPT !.txn = <<>>, !.buffer = <<>>]))
  <2> DEFINE w == [s EXCEPT !.txn = <<>>, !.buffer = <<>>]
  <2>1. /\ w \in KrSession /\ w.position = s.position /\ w.record = s.record /\ w.batch = s.batch
        /\ w.committable = s.committable /\ w.behind = s.behind /\ w.probe = s.probe /\ w.cache = s.cache
    <3>1. <<>> \in Seq(Nat)
      OBVIOUS
    <3> HIDE DEF s
    <3> QED
      BY <1>1, <3>1 DEF KrSession
  <2>2. KR!Go(p, KR!LeaveStream(w))
    BY <1>5
  <2> HIDE DEF w
  <2> QED
    BY <1>4, <2>1, <2>2
<1>6. CASE KR!Go(p, KR!LeaveStream([s EXCEPT !.torn = TRUE]))
  <2> DEFINE w == [s EXCEPT !.torn = TRUE]
  <2>1. /\ w \in KrSession /\ w.position = s.position /\ w.record = s.record /\ w.batch = s.batch
        /\ w.committable = s.committable /\ w.behind = s.behind /\ w.probe = s.probe /\ w.cache = s.cache
    <3> HIDE DEF s
    <3> QED
      BY <1>1 DEF KrSession
  <2>2. KR!Go(p, KR!LeaveStream(w))
    BY <1>6
  <2> HIDE DEF w
  <2> QED
    BY <1>4, <2>1, <2>2
<1> QED
  BY <1>5, <1>6 DEF KR!Abort

LEMMA KrCloseInv ==
  ASSUME KrAssumptions, KrInv, NEW p \in Procs, KR!Close(p) PROVE KrInv'
<1> DEFINE s == session[p]
           n == [s EXCEPT !.stage = "closing", !.pending = 0, !.cache = KR!NoCache, !.probe = KR!NoCache]
<1>1. /\ s \in KrSession /\ KrPlace(s, KrKept) /\ KrStage(s, KrKept) /\ KrProbed(s, KrKept)
      /\ KrKept \in SUBSET Nat /\ store \in Seq(Nat) /\ committed \in Nat
      /\ \A r \in 1..committed : r \in KrKept
  BY KrAt
<1>2. /\ s.stage = "stopped" /\ KR!Go(p, n) /\ committed' \in {committed, s.committable}
      /\ config' = config /\ log' = log /\ owner' = owner /\ lost' = lost /\ passed_over' = passed_over
      /\ store' = store
  BY DEF KR!Close, KR!At
<1>3. s.committable \in Nat /\ session[p].stage # "closed" /\ s.batch = <<>> /\ s.record = 0
  BY <1>1, <1>2, KrSessionFacts DEF KrStage, KrOutside, KrInside
<1> HIDE DEF s
<1>4. /\ n \in KrSession /\ n.stage = "closing" /\ n.cache = KR!NoCache /\ n.probe = KR!NoCache
      /\ n.position = s.position /\ n.record = s.record /\ n.batch = s.batch
      /\ n.committable = s.committable /\ n.behind = s.behind /\ n.buffer = s.buffer
  <2>1. "closing" \in KrStages
    BY DEF KrStages, KrOutside
  <2> QED
    BY <1>1, <2>1, KrNoCache DEF KrSession
<1> HIDE DEF n
<1>5. KrHolds(n, KrKept)
  <2>1. KrPlace(n, KrKept)
    BY <1>1, <1>4 DEF KrPlace
  <2>2. KrStage(n, KrKept)
    BY <1>3, <1>4 DEF KrStage, KrOutside, KrInside
  <2>3. KrProbed(n, KrKept)
    BY <1>4, KrNoCache DEF KrProbed
  <2> QED
    BY <2>1, <2>2, <2>3 DEF KrHolds
<1>6. KrKept' \in SUBSET Nat /\ KrKept \subseteq KrKept' => KrHolds(n, KrKept')
  BY <1>1, <1>4, <1>5, KrHoldsMore
<1>7. store' \in Seq(Nat) /\ Members(store) \subseteq Members(store') /\ committed' \in Nat
      /\ n.buffer = session[p].buffer
      /\ Members(session[p].buffer) \subseteq Members(n.buffer) \cup Members(store')
  BY <1>1, <1>2, <1>3, <1>4 DEF s
<1>8. KrKept \subseteq KrKept'
  BY <1>2, <1>4, <1>7, KrSafe
<1>9. \A r \in 1..committed' : r \in KrKept'
  BY <1>1, <1>2, <1>8 DEF KrPlace
<1> QED
  BY <1>2, <1>3, <1>4, <1>6, <1>7, <1>9, KrStepInv

\* The end of a session, with the rows of its sink written, lost or in a dead transaction.
LEMMA KrEndInv ==
  ASSUME KrAssumptions, KrInv, NEW p \in Procs, KR!CloseSink(p) \/ KR!Crash(p) PROVE KrInv'
<1>1. /\ store \in Seq(Nat) /\ committed \in Nat /\ log \in Nat /\ owner \in Procs
      /\ (\A r \in 1..committed : r \in KrKept) /\ lost \in SUBSET Nat /\ passed_over \in SUBSET Nat
      /\ session[p] \in KrSession
  BY KrAt
<1>2. session[p].buffer \in Seq(Nat) /\ Members(session[p].buffer) \in SUBSET Nat
  BY <1>1, KrSessionFacts, MembersFinite
<1>3. /\ KR!Go(p, KR!Closed) /\ config' = config /\ log' = log /\ owner' = owner
      /\ passed_over' = passed_over /\ committed' = committed
  BY DEF KR!CloseSink, KR!Crash
<1>4. /\ store' \in Seq(Nat) /\ Members(store) \subseteq Members(store')
      /\ lost \subseteq lost' /\ lost' \in SUBSET Nat
      /\ \/ KR!Transactional
         \/ Members(session[p].buffer) \subseteq Members(KR!Closed.buffer) \cup Members(store')
         \/ Members(session[p].buffer) \subseteq lost'
  <2>1. CASE store' = store /\ lost' = lost \cup KR!ToSet(session[p].buffer)
    BY <1>1, <1>2, <2>1, KrMembers
  <2>2. CASE KR!Transactional /\ store' = store /\ lost' = lost
    BY <1>1, <2>2
  <2>3. CASE store' = KR!Written(session[p].buffer) /\ lost' = lost
    <3>1. store' \in Seq(Nat) /\ Members(store') = Members(store) \cup Members(session[p].buffer)
      BY <1>1, <1>2, <2>3, KrWritten
    <3> QED
      BY <1>1, <2>3, <3>1
  <2> QED
    BY <2>1, <2>2, <2>3 DEF KR!CloseSink, KR!Crash
<1>5. session' = [session EXCEPT ![p] = KR!Closed] /\ passed_over \subseteq passed_over'
      /\ passed_over' \in SUBSET Nat /\ KR!Closed \in KrSession
  BY <1>1, <1>3, KrClosed DEF KR!Go
<1>6. KrKept \subseteq KrKept' /\ KrKept' \in SUBSET Nat
  BY <1>3, <1>4, <1>5, KrKeptGrows
<1>7. KrHolds(KR!Closed, KrKept') /\ KR!Closed.stage = "closed"
  BY <1>6, KrClosed
<1>8. log' \in Nat /\ committed' \in Nat /\ owner' \in Procs /\ \A r \in 1..committed' : r \in KrKept'
  BY <1>1, <1>3, <1>6
<1> QED
  BY <1>3, <1>4, <1>5, <1>6, <1>7, <1>8, KrGoInv

\* Steps of nobody's session.
LEMMA KrSameInv ==
  ASSUME KrInv, config' = config, log' \in Nat, owner' = owner, store' = store, lost' = lost,
         passed_over' = passed_over, committed' = committed, session' = session
  PROVE  KrInv'
<1>1. KrKept' = KrKept
  BY DEF KrKept, KR!Transactional
<1>2. KrTypes'
  BY DEF KrInv, KrTypes
<1>3. \A q \in Procs : KrHolds(session[q], KrKept)'
  BY <1>1 DEF KrInv, KrHolds, KrPlace, KrStage, KrProbed, KR!Transactional
<1> QED
  BY <1>1, <1>2, <1>3 DEF KrInv

\* Probes and cached snapshots.
\* What the health snapshot and the probes change of a session.
KrSeen(s, ca, pr) == [s EXCEPT !.cache = ca, !.probe = pr]

LEMMA KrWatched ==
  ASSUME NEW s \in KrSession, NEW kept \in SUBSET Nat, KrPlace(s, kept), KrStage(s, kept),
         s.stage # "closed", NEW ca \in KrHealth, NEW pr \in KrProbe,
         pr.valid => \A r \in 1..pr.committed : r \in kept,
         ca.valid /\ ca.commit_lag # KR!NoCount /\ ca.commit_lag <= 0 => \A r \in 1..ca.end : r \in kept
  PROVE  /\ KrSeen(s, ca, pr) \in KrSession
         /\ KrHolds(KrSeen(s, ca, pr), kept)
         /\ KrSeen(s, ca, pr).buffer = s.buffer
<1> DEFINE n == KrSeen(s, ca, pr)
<1>1. /\ n \in KrSession /\ n.stage = s.stage /\ n.position = s.position /\ n.record = s.record
      /\ n.batch = s.batch /\ n.committable = s.committable /\ n.behind = s.behind
      /\ n.buffer = s.buffer /\ n.txn = s.txn /\ n.cache = ca /\ n.probe = pr
  BY DEF KrSession, KrSeen
<1> HIDE DEF n
<1>2. KrPlace(n, kept)
  BY <1>1 DEF KrPlace
<1>3. KrStage(n, kept)
  BY <1>1 DEF KrStage
<1>4. KrProbed(n, kept)
  BY <1>1 DEF KrProbed
<1> QED
  BY <1>1, <1>2, <1>3, <1>4 DEF KrHolds, n

LEMMA KrExceptOne ==
  ASSUME NEW s \in KrSession
  PROVE  /\ \A ca : [s EXCEPT !.cache = ca] = KrSeen(s, ca, s.probe)
         /\ \A pr : [s EXCEPT !.probe = pr] = KrSeen(s, s.cache, pr)
  BY DEF KrSession, KrSeen

\* The snapshot that the probes give: the lag of the commits is 0 only when everything up
\* to the end they saw is below the committed offset they saw.
LEMMA KrSnapshot ==
  ASSUME NEW s \in KrSession, NEW p \in Procs, NEW end \in Nat, s.probe.valid, NEW kept \in SUBSET Nat,
         \A r \in 1..s.probe.committed : r \in kept
  PROVE  LET h == KR!health_snapshot(p, s, end)
         IN  /\ h \in KrHealth
             /\ h.commit_lag # KR!NoCount /\ h.commit_lag <= 0 => \A r \in 1..h.end : r \in kept
<1> DEFINE h == KR!health_snapshot(p, s, end)
           ps == s.probe.position
           cm == s.probe.committed
           lg == KR!Max0(end, ps)
           cl == IF cm = 0 THEN KR!NoCount ELSE KR!Max0(end, cm)
           rd == (owner = p)
           pn == s.pending
<1>1. ps \in Nat /\ cm \in Nat /\ pn \in Nat
  <2>1. s.probe \in KrProbe /\ s.pending \in Nat
    BY KrSessionFacts
  <2>2. s.probe \in [valid : {TRUE}, position : Nat, committed : Nat]
    BY <2>1, KrNoCache DEF KrProbe
  <2> QED
    BY <2>1, <2>2
<1>2. h = [valid |-> TRUE, end |-> end, ready |-> rd, pending |-> pn, lag |-> lg, commit_lag |-> cl]
  BY DEF KR!health_snapshot
<1>3. rd \in BOOLEAN
  OBVIOUS
<1>4. \A r \in 1..cm : r \in kept
  OBVIOUS
<1> HIDE DEF rd, ps, cm, pn
<1>5. lg \in Nat
  BY <1>1 DEF KR!Max0
<1>6. cl \in Int /\ (cl # KR!NoCount /\ cl <= 0 => end <= cm)
  BY <1>1 DEF KR!Max0, KR!NoCount
<1> HIDE DEF lg, cl, h
<1>7. h \in KrHealth
  BY <1>1, <1>2, <1>3, <1>5, <1>6 DEF KrHealth
<1>8. h.commit_lag = cl /\ h.end = end
  BY <1>2
<1>9. end <= cm => \A r \in 1..end : r \in kept
  BY <1>1, <1>4
<1> QED
  BY <1>6, <1>7, <1>8, <1>9 DEF h

LEMMA KrWatchInv ==
  ASSUME KrAssumptions, KrInv, NEW p \in Procs,
         KR!EnsureReady(p) \/ KR!ProbesReturn(p) \/ KR!CacheExpires(p)
  PROVE  KrInv'
<1> DEFINE s == session[p]
<1>1. /\ s \in KrSession /\ KrPlace(s, KrKept) /\ KrStage(s, KrKept) /\ KrProbed(s, KrKept)
      /\ KrKept \in SUBSET Nat /\ committed \in Nat /\ log \in Nat
      /\ \A r \in 1..committed : r \in KrKept
  BY KrAt
<1>2. /\ config' = config /\ log' = log /\ owner' = owner /\ lost' = lost /\ passed_over' = passed_over
      /\ store' = store /\ committed' = committed
  BY DEF KR!EnsureReady, KR!ProbesReturn, KR!CacheExpires
<1>3. s.cache \in KrHealth /\ s.probe \in KrProbe /\ s.position \in Nat
  BY <1>1, KrSessionFacts
<1>4. /\ s.probe.valid => \A r \in 1..s.probe.committed : r \in KrKept
      /\ s.cache.valid /\ s.cache.commit_lag # KR!NoCount /\ s.cache.commit_lag <= 0
            => \A r \in 1..s.cache.end : r \in KrKept
  BY <1>1 DEF KrProbed
<1>5. s.stage = "closed" => ~s.probe.valid /\ ~s.cache.valid
  <2>1. KR!Closed.probe = KR!NoCache /\ KR!Closed.cache = KR!NoCache
    BY DEF KR!Closed
  <2> QED
    BY <1>1, <2>1, KrNoCache DEF KrStage
<1>6. ASSUME NEW ca \in KrHealth, NEW pr \in KrProbe,
             pr.valid => \A r \in 1..pr.committed : r \in KrKept,
             ca.valid /\ ca.commit_lag # KR!NoCount /\ ca.commit_lag <= 0
                => \A r \in 1..ca.end : r \in KrKept,
             KR!Go(p, KrSeen(s, ca, pr)), s.stage # "closed"
      PROVE  KrInv'
  <2>1. /\ KrSeen(s, ca, pr) \in KrSession
        /\ KrHolds(KrSeen(s, ca, pr), KrKept)
        /\ KrSeen(s, ca, pr).buffer = s.buffer
    <3>1. s \in KrSession /\ KrKept \in SUBSET Nat /\ KrPlace(s, KrKept) /\ KrStage(s, KrKept)
          /\ s.stage # "closed"
      BY <1>1, <1>6
    <3>2. pr.valid => \A r \in 1..pr.committed : r \in KrKept
      BY <1>6
    <3>3. ca.valid /\ ca.commit_lag # KR!NoCount /\ ca.commit_lag <= 0
            => \A r \in 1..ca.end : r \in KrKept
      BY <1>6
    <3> HIDE DEF s
    <3> QED
      BY <3>1, <3>2, <3>3, KrWatched
  <2> QED
    BY <1>2, <1>6, <2>1, KrQuietInv
<1>7. CASE KR!EnsureReady(p) /\ s.cache.valid
  <2>1. session' = session /\ log' \in Nat
    BY <1>1, <1>2, <1>7 DEF KR!EnsureReady
  <2> QED
    BY <1>2, <2>1, KrSameInv
<1>8. CASE KR!EnsureReady(p) /\ ~s.cache.valid
  <2> DEFINE pr == [valid |-> TRUE, position |-> s.position, committed |-> committed]
  <2>1. KR!Go(p, [s EXCEPT !.probe = pr]) /\ s.stage # "closed"
    BY <1>8 DEF KR!EnsureReady, KR!At
  <2>2. pr \in KrProbe /\ pr.committed = committed
    BY <1>1, <1>3 DEF KrProbe
  <2> HIDE DEF pr
  <2>3. KR!Go(p, KrSeen(s, s.cache, pr))
    BY <1>1, <2>1, KrExceptOne
  <2>4. pr.valid => \A r \in 1..pr.committed : r \in KrKept
    BY <1>1, <2>2
  <2> QED
    BY <1>3, <1>4, <1>6, <2>1, <2>2, <2>3, <2>4
<1>9. CASE KR!ProbesReturn(p)
  <2> DEFINE h == KR!health_snapshot(p, s, log)
  <2>1. KR!Go(p, KrSeen(s, h, KR!NoCache)) /\ s.probe.valid
    BY <1>9 DEF KR!ProbesReturn, KrSeen
  <2>2. /\ h \in KrHealth
        /\ h.commit_lag # KR!NoCount /\ h.commit_lag <= 0 => \A r \in 1..h.end : r \in KrKept
    BY <1>1, <1>4, <2>1, KrSnapshot
  <2> HIDE DEF h
  <2>3. s.stage # "closed" /\ ~KR!NoCache.valid
    BY <1>5, <2>1, KrNoCache
  <2> QED
    BY <1>6, <2>1, <2>2, <2>3, KrNoCache
<1>10. CASE KR!CacheExpires(p)
  <2>1. KR!Go(p, [s EXCEPT !.cache = KR!NoCache]) /\ s.cache.valid
    BY <1>10 DEF KR!CacheExpires
  <2>2. KR!Go(p, KrSeen(s, KR!NoCache, s.probe))
    BY <1>1, <2>1, KrExceptOne
  <2>3. s.stage # "closed" /\ ~KR!NoCache.valid
    BY <1>5, <2>1, KrNoCache
  <2> QED
    BY <1>3, <1>4, <1>6, <2>2, <2>3, KrNoCache
<1> QED
  BY <1>7, <1>8, <1>9, <1>10

\* A new session starts at the committed offset, and the one that had the partition goes on
\* with the batch it holds.
LEMMA KrOpenInv ==
  ASSUME KrAssumptions, KrInv, NEW p \in Procs, KR!Open(p) PROVE KrInv'
<1> DEFINE o == session[owner]
           n == [KR!Closed EXCEPT !.stage = "stopped", !.position = committed']
           m == [o EXCEPT !.pending = 0, !.committable = 0, !.cache = KR!NoCache]
<1>1. /\ config \in Configs /\ log \in Nat /\ committed \in Nat /\ owner \in Procs
      /\ store \in Seq(Nat) /\ lost \in SUBSET Nat /\ passed_over \in SUBSET Nat
      /\ session \in [Procs -> KrSession] /\ KrKept \in SUBSET Nat
      /\ \A r \in 1..committed : r \in KrKept
  BY KrAt
<1>2. /\ p \in config.procs /\ session[p].stage = "closed"
      /\ config' = config /\ log' = log /\ store' = store /\ lost' = lost /\ passed_over' = passed_over
  BY DEF KR!Open, KR!At
<1>3. o \in KrSession /\ KrPlace(o, KrKept) /\ KrStage(o, KrKept) /\ KrProbed(o, KrKept)
  BY <1>1, KrAt
<1>4. session[p] = KR!Closed
  BY <1>2, KrAt DEF KrStage
<1>5. CASE session' = session /\ committed' = committed /\ owner' = owner
  BY <1>1, <1>2, <1>5, KrSameInv
<1>6. CASE /\ committed' = (IF o.pending > 0 THEN o.committable ELSE committed)
           /\ session' = [q \in Procs |-> IF q = p THEN n
                                          ELSE IF q = owner /\ o.stage # "closed" THEN m ELSE session[q]]
           /\ owner' = p
  <2>1. committed' \in Nat /\ \A r \in 1..committed' : r \in KrKept
    <3>1. o.committable \in Nat /\ \A r \in 1..o.committable : r \in KrKept
      BY <1>3, KrSessionFacts DEF KrPlace
    <3> QED
      BY <1>1, <1>6, <3>1
  <2> DEFINE c == committed'
  <2>2. n = [KR!Closed EXCEPT !.stage = "stopped", !.position = c] /\ c \in Nat
    BY <2>1
  <2> HIDE DEF c
  <2>3. /\ n \in KrSession /\ n.stage = "stopped" /\ n.position = c /\ n.batch = <<>> /\ n.record = 0
        /\ n.committable = 0 /\ n.behind = {} /\ n.buffer = <<>> /\ n.cache = KR!NoCache
        /\ n.probe = KR!NoCache
    <3>1. /\ KR!Closed \in KrSession /\ KR!Closed.batch = <<>> /\ KR!Closed.record = 0
          /\ KR!Closed.committable = 0 /\ KR!Closed.behind = {} /\ KR!Closed.buffer = <<>>
          /\ KR!Closed.cache = KR!NoCache /\ KR!Closed.probe = KR!NoCache
      BY KrClosed DEF KR!Closed
    <3>2. "stopped" \in KrStages
      BY DEF KrStages, KrOutside
    <3> QED
      BY <2>2, <3>1, <3>2 DEF KrSession
  <2> HIDE DEF n
  <2>4. /\ m \in KrSession /\ m.stage = o.stage /\ m.position = o.position /\ m.batch = o.batch
        /\ m.record = o.record /\ m.committable = 0 /\ m.behind = o.behind /\ m.buffer = o.buffer
        /\ m.txn = o.txn /\ m.cache = KR!NoCache /\ m.probe = o.probe
    <3> HIDE DEF o
    <3> QED
      BY <1>3, KrNoCache DEF KrSession
  <2>5. session' \in [Procs -> KrSession]
    <3>1. \A q \in Procs : session[q] \in KrSession
      BY <1>1
    <3> HIDE DEF m
    <3> QED
      BY <1>6, <2>3, <2>4, <3>1
  <2>6. \A q \in Procs : session'[q].buffer = session[q].buffer
    <3> SUFFICES ASSUME NEW q \in Procs PROVE session'[q].buffer = session[q].buffer
      OBVIOUS
    <3>1. CASE q = p
      BY <1>4, <1>6, <2>3, <3>1, KrClosed
    <3>2. CASE q # p /\ q = owner /\ o.stage # "closed"
      <4>1. session'[q] = m
        BY <1>6, <3>2
      <4> QED
        BY <2>4, <3>2, <4>1
    <3>3. CASE q # p /\ ~(q = owner /\ o.stage # "closed")
      <4>1. session'[q] = session[q]
        BY <1>6, <3>3
      <4> QED
        BY <4>1
    <3> QED
      BY <3>1, <3>2, <3>3
  <2>7. KrKept' = KrKept
    <3>1. {KR!ToSet(session'[q].buffer) : q \in Procs} = {KR!ToSet(session[q].buffer) : q \in Procs}
      BY <2>6
    <3> QED
      BY <1>2, <3>1 DEF KrKept, KR!Transactional
  <2>8. KrHolds(n, KrKept)
    <3>1. Len(n.batch) = 0 /\ n.record + Len(n.batch) <= n.position
      BY <2>2, <2>3
    <3>2. \A r \in 1..n.position : r \in KrKept
      BY <2>1, <2>3 DEF c
    <3>3. KrPlace(n, KrKept)
      BY <2>3, <3>1, <3>2 DEF KrPlace
    <3>4. KrStage(n, KrKept)
      BY <2>3 DEF KrStage, KrOutside, KrInside
    <3>5. KrProbed(n, KrKept)
      BY <2>3, KrNoCache DEF KrProbed
    <3> QED
      BY <3>3, <3>4, <3>5 DEF KrHolds
  <2>9. o.stage # "closed" => KrHolds(m, KrKept)
    <3> HIDE DEF m, o
    <3>1. KrPlace(m, KrKept)
      BY <1>3, <2>4 DEF KrPlace
    <3>2. o.stage # "closed" => KrStage(m, KrKept)
      BY <1>3, <2>4 DEF KrStage
    <3>3. KrProbed(m, KrKept)
      BY <1>3, <2>4, KrNoCache DEF KrProbed
    <3> QED
      BY <3>1, <3>2, <3>3 DEF KrHolds
  <2>10. ASSUME NEW q \in Procs
         PROVE  /\ KrHolds(session'[q], KrKept')
                /\ q \notin config'.procs => session'[q].stage = "closed"
    <3>1. KrHolds(session[q], KrKept) /\ (q \notin config.procs => session[q].stage = "closed")
      BY DEF KrInv
    <3>2. CASE q = p
      <4>1. session'[q] = n
        BY <1>6, <3>2
      <4> QED
        BY <1>2, <2>7, <2>8, <3>2, <4>1
    <3>3. CASE q # p /\ q = owner /\ o.stage # "closed"
      <4>1. session'[q] = m
        BY <1>6, <3>3
      <4>2. q \in config.procs
        BY <3>1, <3>3
      <4> HIDE DEF m
      <4> QED
        BY <1>2, <2>7, <2>9, <3>3, <4>1, <4>2
    <3>4. CASE q # p /\ ~(q = owner /\ o.stage # "closed")
      <4>1. session'[q] = session[q]
        BY <1>6, <3>4
      <4> QED
        BY <1>2, <2>7, <3>1, <4>1
    <3> QED
      BY <3>2, <3>3, <3>4
  <2>11. \A q \in Procs : KrHolds(session[q], KrKept)'
    BY <1>2, <2>10 DEF KrHolds, KrPlace, KrStage, KrProbed, KR!Transactional
  <2>12. KrTypes'
    BY <1>1, <1>2, <1>6, <2>1, <2>5 DEF KrTypes
  <2> QED
    BY <2>1, <2>7, <2>10, <2>11, <2>12 DEF KrInv
<1> QED
  BY <1>5, <1>6 DEF KR!Open

LEMMA KrInitInv == ASSUME KrAssumptions PROVE KR!Init => KrInv
<1> SUFFICES ASSUME KR!Init PROVE KrInv
  OBVIOUS
<1>1. /\ config \in Configs /\ committed = 0 /\ store = <<>> /\ lost = {} /\ passed_over = {}
      /\ session = [q \in Procs |-> KR!Closed] /\ owner \in config.procs
      /\ log = (IF config.health THEN 0 ELSE config.records)
  BY DEF KR!Init
<1>2. log \in Nat /\ owner \in Procs
  BY <1>1 DEF KrAssumptions
<1>3. KrTypes
  <2>1. <<>> \in Seq(Nat) /\ session \in [Procs -> KrSession]
    BY <1>1, KrClosed
  <2> QED
    BY <1>1, <1>2, <2>1 DEF KrTypes
<1>4. KrKept \in SUBSET Nat
  <2>1. \A q \in Procs : session[q].buffer = <<>>
    BY <1>1, KrClosed
  <2>2. KR!ToSet(<<>>) = {}
    BY DEF KR!ToSet
  <2>3. UNION {KR!ToSet(session[q].buffer) : q \in Procs} = {}
    BY <2>1, <2>2
  <2> QED
    BY <1>1, <2>2, <2>3 DEF KrKept
<1>5. \A q \in Procs : KrHolds(session[q], KrKept) /\ session[q].stage = "closed"
  BY <1>1, <1>4, KrClosed
<1>6. \A r \in 1..committed : r \in KrKept
  BY <1>1
<1> QED
  BY <1>3, <1>5, <1>6 DEF KrInv

LEMMA KrNextInv ==
  ASSUME KrAssumptions, KrInv, [KR!Next]_KR!vars PROVE KrInv'
<1>1. CASE UNCHANGED KR!vars \/ KR!Produce
  <2>1. log' \in Nat
    <3>1. log \in Nat
      BY DEF KrInv, KrTypes
    <3> QED
      BY <1>1, <3>1 DEF KR!vars, KR!Produce
  <2>2. /\ config' = config /\ owner' = owner /\ store' = store /\ lost' = lost
        /\ passed_over' = passed_over /\ committed' = committed /\ session' = session
    BY <1>1 DEF KR!vars, KR!Produce
  <2> QED
    BY <2>1, <2>2, KrSameInv
<1>2. CASE \E p \in Procs :
             \/ KR!Open(p) \/ KR!Drain(p) \/ KR!Fetch(p) \/ KR!Emit(p) \/ KR!Finish(p)
             \/ KR!Begin(p) \/ KR!Write(p) \/ KR!Flush(p) \/ KR!Offsets(p) \/ KR!CommitTransaction(p)
             \/ KR!Commit(p) \/ KR!Raise(p) \/ KR!Abort(p) \/ KR!Close(p) \/ KR!CloseSink(p)
             \/ KR!Crash(p) \/ KR!EnsureReady(p) \/ KR!ProbesReturn(p) \/ KR!CacheExpires(p)
  <2>1. PICK p \in Procs :
             \/ KR!Open(p) \/ KR!Drain(p) \/ KR!Fetch(p) \/ KR!Emit(p) \/ KR!Finish(p)
             \/ KR!Begin(p) \/ KR!Write(p) \/ KR!Flush(p) \/ KR!Offsets(p) \/ KR!CommitTransaction(p)
             \/ KR!Commit(p) \/ KR!Raise(p) \/ KR!Abort(p) \/ KR!Close(p) \/ KR!CloseSink(p)
             \/ KR!Crash(p) \/ KR!EnsureReady(p) \/ KR!ProbesReturn(p) \/ KR!CacheExpires(p)
    BY <1>2
  <2> QED
    BY <2>1, KrOpenInv, KrDrainInv, KrFetchInv, KrEmitInv, KrFinishInv, KrBeginInv, KrWriteInv,
       KrFlushInv, KrCommitTransactionInv, KrCommitInv, KrRaiseInv, KrAbortInv, KrCloseInv, KrEndInv,
       KrWatchInv
<1> QED
  BY <1>1, <1>2 DEF KR!Next

LEMMA KrAlways == ASSUME KrAssumptions PROVE KR!Spec => []KrInv
<1>1. KR!Init => KrInv
  BY KrInitInv
<1>2. KrInv /\ [KR!Next]_KR!vars => KrInv'
  BY KrNextInv
<1> QED
  BY <1>1, <1>2, PTL DEF KR!Spec

\* A record below the committed offset of the group is in the store, or in the memory of a
\* sink that the runtime was told not to flush, or it is one of two kinds that are lost: an
\* earlier drain of its session stopped with it in hand and the next drain passed it over
\* (drain_to), or such a memory went with its session. For any processes that take the
\* partition from each other, any failures executed or not, transactions and crashes.
THEOREM RuntimeNoRowLost == ASSUME KrAssumptions PROVE KR!Spec => []KR!RowsKept
<1>1. KrInv => KR!RowsKept
  <2> SUFFICES ASSUME KrInv, NEW r \in 1..committed
               PROVE  r \in KR!ToSet(store) \cup KR!Excused \cup
                            IF config.flush THEN {} ELSE UNION {KR!ToSet(session[p].buffer) : p \in Procs}
    BY DEF KR!RowsKept
  <2>1. r \in KrKept
    BY DEF KrInv
  <2>2. CASE config.flush
    BY <2>1, <2>2 DEF KrKept, KR!Excused
  <2>3. CASE ~config.flush
    BY <2>1, <2>3 DEF KrKept, KR!Excused
  <2> QED
    BY <2>2, <2>3
<1> QED
  BY <1>1, KrAlways, PTL

\* The acceptance gate looks at the memory of its own process: without flush, the claim is
\* about the upsert gate, which wants that memory empty, and about one process.
KrOneMemory ==
    \A c \in Configs : c.health => c.flush \/ (c.sink # "append" /\ \A p, q \in c.procs : p = q)

LEMMA KrWrittenMore ==
  ASSUME store \in Seq(Nat), NEW rows \in Seq(Nat)
  PROVE  /\ KR!ToSet(store) \subseteq KR!ToSet(KR!Written(rows))
         /\ KR!ToSet(store) \subseteq KR!ToSet(store \o rows)
<1>1. Members(KR!Written(rows)) = Members(store) \cup Members(rows)
  BY KrWritten
<1>2. Members(store \o rows) = Members(store) \cup Members(rows)
  BY MembersJoined
<1> QED
  BY <1>1, <1>2, KrMembers

\* A step takes no row from the store and no record from the history, and only the two
\* steps of ensure_ready() write a report.
LEMMA KrGrows ==
  ASSUME KrInv, [KR!Next]_KR!vars
  PROVE  /\ config' = config /\ KR!ToSet(store) \subseteq KR!ToSet(store')
         /\ lost \subseteq lost' /\ passed_over \subseteq passed_over'
         /\ \/ report' = report
            \/ \E p \in Procs : KR!EnsureReady(p) \/ KR!ProbesReturn(p)
<1>1. CASE UNCHANGED KR!vars \/ KR!Produce
  BY <1>1 DEF KR!vars, KR!Produce
<1>2. ASSUME NEW p \in Procs,
             \/ KR!Open(p) \/ KR!Drain(p) \/ KR!Fetch(p) \/ KR!Emit(p) \/ KR!Finish(p)
             \/ KR!Begin(p) \/ KR!Write(p) \/ KR!Offsets(p)
             \/ KR!Commit(p) \/ KR!Abort(p) \/ KR!Close(p) \/ KR!Crash(p)
      PROVE  /\ config' = config /\ store' = store /\ lost \subseteq lost'
             /\ passed_over \subseteq passed_over' /\ report' = report
  BY <1>2 DEF KR!Open, KR!Drain, KR!Fetch, KR!Emit, KR!Finish, KR!Begin, KR!Write, KR!Offsets,
              KR!Commit, KR!Abort, KR!Close, KR!Crash
<1>3. ASSUME NEW p \in Procs, KR!EnsureReady(p) \/ KR!ProbesReturn(p) \/ KR!CacheExpires(p)
      PROVE  /\ config' = config /\ store' = store /\ lost' = lost /\ passed_over' = passed_over
             /\ report' = report \/ KR!EnsureReady(p) \/ KR!ProbesReturn(p)
  BY <1>3 DEF KR!EnsureReady, KR!ProbesReturn, KR!CacheExpires
<1>4. ASSUME NEW p \in Procs,
             KR!Flush(p) \/ KR!CommitTransaction(p) \/ KR!Raise(p) \/ KR!CloseSink(p)
      PROVE  /\ config' = config /\ KR!ToSet(store) \subseteq KR!ToSet(store')
             /\ lost \subseteq lost' /\ passed_over' = passed_over /\ report' = report
  <2> DEFINE s == session[p]
  <2>1. store \in Seq(Nat) /\ s.buffer \in Seq(Nat) /\ s.txn \in Seq(Nat)
    <3>1. store \in Seq(Nat) /\ session[p] \in KrSession
      BY DEF KrInv, KrTypes
    <3> QED
      BY <3>1, KrSessionFacts
  <2>2. /\ KR!ToSet(store) \subseteq KR!ToSet(KR!Written(s.buffer))
        /\ KR!ToSet(store) \subseteq KR!ToSet(store \o s.txn)
    BY <2>1, KrWrittenMore
  <2>3. /\ config' = config /\ lost \subseteq lost' /\ passed_over' = passed_over /\ report' = report
        /\ store' = store \/ store' = KR!Written(s.buffer) \/ store' = store \o s.txn
    BY <1>4 DEF KR!Flush, KR!CommitTransaction, KR!Raise, KR!CloseSink
  <2> HIDE DEF s
  <2> QED
    BY <2>2, <2>3
<1> QED
  BY <1>1, <1>2, <1>3, <1>4 DEF KR!Next

\* What the gate of process p lets pass is kept, and not only in memory.
LEMMA KrGate ==
  ASSUME KrInv, KrOneMemory, config.health, NEW p \in Procs, NEW h \in KrHealth,
         KR!evaluate(h, session[p]), h.valid, h.commit_lag # KR!NoCount,
         h.commit_lag <= 0 => \A r \in 1..h.end : r \in KrKept
  PROVE  1..h.end \subseteq KR!ToSet(store) \cup KR!Excused
<1>1. h.commit_lag <= 0 /\ (config.sink # "append" => config.sink = "upsert" /\ Len(session[p].buffer) <= 0)
      /\ session[p].stage \notin {"closed", "closing"}
  <2>1. Len(session[p].buffer) # KR!NoCount
    <3>1. session[p].buffer \in Seq(Nat)
      BY KrSessionFacts DEF KrInv, KrTypes
    <3> QED
      BY <3>1 DEF KR!NoCount
  <2> QED
    BY <2>1 DEF KR!evaluate, KR!evaluate_kafka_redis, KR!evaluate_kafka_postgres, KR!check_max,
                KR!build_runtime_health_snapshot
<1>2. \A r \in 1..h.end : r \in KrKept
  BY <1>1
<1>3. CASE config.flush
  BY <1>2, <1>3 DEF KrKept, KR!Excused
<1>4. CASE ~config.flush
  <2>1. config.sink # "append" /\ \A q, o \in config.procs : q = o
    BY <1>4 DEF KrOneMemory, KrInv, KrTypes
  <2>2. ASSUME NEW q \in Procs PROVE KR!ToSet(session[q].buffer) = {}
    <3>1. session[q].buffer \in Seq(Nat)
      BY KrSessionFacts DEF KrInv, KrTypes
    <3>2. CASE q = p
      BY <1>1, <2>1, <3>1, <3>2 DEF KR!ToSet
    <3>3. CASE q # p
      <4>1. q \notin config.procs
        BY <1>1, <2>1, <3>3 DEF KrInv
      <4>2. session[q] = KR!Closed
        BY <4>1 DEF KrInv, KrHolds, KrStage
      <4> QED
        BY <4>2, KrClosed DEF KR!ToSet
    <3> QED
      BY <3>2, <3>3
  <2>3. UNION {KR!ToSet(session[q].buffer) : q \in Procs} = {}
    BY <2>2
  <2> QED
    BY <1>2, <1>4, <2>3 DEF KrKept, KR!Excused
<1> QED
  BY <1>3, <1>4

\* Only ensure_ready() starts probes, and only with the health checks enabled.
LEMMA KrProbes ==
  ASSUME KrInv, [KR!Next]_KR!vars, NEW q \in Procs, session'[q].probe.valid
  PROVE  session[q].probe.valid \/ config.health
<1>1. session \in [Procs -> KrSession]
  BY DEF KrInv, KrTypes
<1>2. KR!NoCache.valid = FALSE /\ KR!Closed.probe = KR!NoCache
  BY KrNoCache DEF KR!Closed
<1>3. ASSUME NEW p \in Procs, NEW s, KR!Go(p, s), s.probe = session[p].probe \/ s.probe = KR!NoCache
      PROVE  session[q].probe.valid
  BY <1>1, <1>2, <1>3 DEF KR!Go
<1>4. ASSUME NEW s \in KrSession PROVE KR!LeaveStream(s).probe = s.probe /\ KR!ack(s).probe = s.probe
  BY <1>4 DEF KR!LeaveStream, KR!ack, KrSession
<1>5. CASE UNCHANGED KR!vars \/ KR!Produce
  BY <1>5 DEF KR!vars, KR!Produce
<1>6. ASSUME NEW p \in Procs, KR!Open(p) PROVE session[q].probe.valid
  <2>1. CASE session' = session
    BY <2>1
  <2>2. CASE session' # session
    <3> DEFINE old == session[owner]
               m == [old EXCEPT !.pending = 0, !.committable = 0, !.cache = KR!NoCache]
               n == [KR!Closed EXCEPT !.stage = "stopped", !.position = committed']
    <3>1. session' = [k \in Procs |-> IF k = p THEN n
                                      ELSE IF k = owner /\ old.stage # "closed" THEN m ELSE session[k]]
      BY <1>6, <2>2 DEF KR!Open
    <3>2. n.probe = KR!NoCache
      BY DEF KR!Closed
    <3>3. owner \in Procs /\ old \in KrSession
      BY <1>1 DEF KrInv, KrTypes
    <3>4. m.probe = old.probe
      BY <3>3 DEF KrSession
    <3> HIDE DEF m, n
    <3> QED
      BY <1>1, <1>2, <3>1, <3>2, <3>4
  <2> QED
    BY <2>1, <2>2
<1>7. ASSUME NEW p \in Procs,
             KR!Drain(p) \/ KR!Fetch(p) \/ KR!Emit(p) \/ KR!Offsets(p) \/ KR!CommitTransaction(p)
             \/ KR!Commit(p) \/ KR!CloseSink(p) \/ KR!Crash(p) \/ KR!Close(p) \/ KR!ProbesReturn(p)
             \/ KR!CacheExpires(p)
      PROVE  session[q].probe.valid
  <2>1. session[p] \in KrSession
    BY <1>1
  <2>2. CASE KR!Drain(p)
    <3> DEFINE s == [session[p] EXCEPT !.stage = "streaming", !.pending = 0, !.committable = 0, !.behind = {}, !.batch = <<>>,
                                  !.cache = KR!NoCache]
    <3>1. KR!Go(p, s)
      BY <2>2 DEF KR!Drain
    <3>2. s.probe = session[p].probe
      BY <2>1 DEF KrSession
    <3> HIDE DEF s
    <3> QED
      BY <1>3, <3>1, <3>2
  <2>3. CASE KR!Emit(p)
    <3> DEFINE s == [session[p] EXCEPT !.record = Head(session[p].batch), !.batch = Tail(session[p].batch), !.cache = KR!NoCache,
                                  !.stage = IF KR!Transactional THEN "begin" ELSE "write"]
    <3>1. KR!Go(p, s)
      BY <2>3 DEF KR!Emit
    <3>2. s.probe = session[p].probe
      BY <2>1 DEF KrSession
    <3> HIDE DEF s
    <3> QED
      BY <1>3, <3>1, <3>2
  <2>4. CASE KR!Offsets(p)
    <3> DEFINE s == [session[p] EXCEPT !.stage = "commit_transaction", !.txn = session[p].buffer]
    <3>1. KR!Go(p, s)
      BY <2>4 DEF KR!Offsets
    <3>2. s.probe = session[p].probe
      BY <2>1 DEF KrSession
    <3> HIDE DEF s
    <3> QED
      BY <1>3, <3>1, <3>2
  <2>5. CASE KR!CommitTransaction(p)
    <3> DEFINE s == [session[p] EXCEPT !.committable = session[p].record, !.pending = 0, !.record = 0, !.txn = <<>>,
                                  !.buffer = <<>>, !.stage = "streaming", !.cache = KR!NoCache]
    <3>1. KR!Go(p, s)
      BY <2>5 DEF KR!CommitTransaction
    <3>2. s.probe = session[p].probe
      BY <2>1 DEF KrSession
    <3> HIDE DEF s
    <3> QED
      BY <1>3, <3>1, <3>2
  <2>6. CASE KR!Commit(p)
    <3> DEFINE s == [session[p] EXCEPT !.pending = 0, !.record = 0, !.cache = KR!NoCache,
                                  !.stage = IF session[p].stage = "leave" THEN "stopped" ELSE "streaming"]
    <3>1. KR!Go(p, s)
      BY <2>6 DEF KR!Commit
    <3>2. s.probe = session[p].probe
      BY <2>1 DEF KrSession
    <3> HIDE DEF s
    <3> QED
      BY <1>3, <3>1, <3>2
  <2>7. CASE KR!Close(p)
    <3> DEFINE s == [session[p] EXCEPT !.stage = "closing", !.pending = 0, !.cache = KR!NoCache, !.probe = KR!NoCache]
    <3>1. KR!Go(p, s)
      BY <2>7 DEF KR!Close
    <3>2. s.probe = KR!NoCache
      BY <2>1 DEF KrSession
    <3> HIDE DEF s
    <3> QED
      BY <1>3, <3>1, <3>2
  <2>8. CASE KR!CacheExpires(p)
    <3> DEFINE s == [session[p] EXCEPT !.cache = KR!NoCache]
    <3>1. KR!Go(p, s)
      BY <2>8 DEF KR!CacheExpires
    <3>2. s.probe = session[p].probe
      BY <2>1 DEF KrSession
    <3> HIDE DEF s
    <3> QED
      BY <1>3, <3>1, <3>2
  <2>9. CASE KR!Fetch(p)
    <3>1. PICK n \in 1..config.poll :
             KR!Go(p, [session[p] EXCEPT !.batch = [i \in 1..n |-> session[p].position + i],
                                         !.position = @ + n, !.cache = KR!NoCache])
      BY <2>9 DEF KR!Fetch
    <3> DEFINE s == [session[p] EXCEPT !.batch = [i \in 1..n |-> session[p].position + i],
                                         !.position = @ + n, !.cache = KR!NoCache]
    <3>2. s.probe = session[p].probe
      BY <2>1 DEF KrSession
    <3>3. KR!Go(p, s)
      BY <3>1
    <3> HIDE DEF s
    <3> QED
      BY <1>3, <3>2, <3>3
  <2>10. CASE KR!CloseSink(p) \/ KR!Crash(p)
    <3>1. KR!Go(p, KR!Closed)
      BY <2>10 DEF KR!CloseSink, KR!Crash
    <3> QED
      BY <1>2, <1>3, <3>1
  <2>11. CASE KR!ProbesReturn(p)
    <3> DEFINE h == KR!health_snapshot(p, session[p], log)
               s == [session[p] EXCEPT !.cache = h, !.probe = KR!NoCache]
    <3>1. KR!Go(p, s)
      BY <2>11 DEF KR!ProbesReturn
    <3> HIDE DEF h
    <3>2. s.probe = KR!NoCache
      BY <2>1 DEF KrSession
    <3> HIDE DEF s
    <3> QED
      BY <1>3, <3>1, <3>2
  <2> QED
    BY <1>7, <2>2, <2>3, <2>4, <2>5, <2>6, <2>7, <2>8, <2>9, <2>10, <2>11
<1>8. ASSUME NEW p \in Procs,
             KR!Finish(p) \/ KR!Begin(p) \/ KR!Write(p) \/ KR!Flush(p) \/ KR!Raise(p) \/ KR!Abort(p)
      PROVE  session[q].probe.valid
  <2> DEFINE b == session[p]
  <2>1. b \in KrSession
    BY <1>1
  <2>2. b.buffer \in Seq(Nat) /\ b.record \in Nat /\ Append(b.buffer, b.record) \in Seq(Nat) /\ <<>> \in Seq(Nat)
    <3>1. b.buffer \in Seq(Nat) /\ b.record \in Nat
      BY <2>1, KrSessionFacts
    <3> QED
      BY <3>1
  <2>3. ASSUME NEW g \in KrStages PROVE [b EXCEPT !.stage = g] \in KrSession /\ [b EXCEPT !.stage = g].probe = b.probe
    BY <2>1, <2>3 DEF KrSession
  <2>4. \E s : KR!Go(p, s) /\ (s.probe = session[p].probe \/ s.probe = KR!NoCache)
    <3>1. CASE KR!Finish(p)
      <4>1. KR!Go(p, KR!LeaveStream(b))
        BY <3>1 DEF KR!Finish
      <4> QED
        BY <1>4, <2>1, <4>1
    <3>2. CASE KR!Begin(p)
      <4>1. KR!Go(p, KR!LeaveStream(b)) \/ KR!Go(p, [b EXCEPT !.stage = "write", !.txn = <<>>])
        BY <3>2 DEF KR!Begin
      <4>2. [b EXCEPT !.stage = "write", !.txn = <<>>].probe = b.probe
        BY <2>1 DEF KrSession
      <4> QED
        BY <1>4, <2>1, <4>1, <4>2
    <3>3. CASE KR!Write(p)
      <4> DEFINE s == [b EXCEPT !.buffer = Append(b.buffer, b.record)]
      <4>1. s \in KrSession /\ s.probe = b.probe
        BY <2>1, <2>2 DEF KrSession
      <4>2. \/ KR!Go(p, [s EXCEPT !.stage = "flush"]) \/ KR!Go(p, [s EXCEPT !.stage = "offsets"])
            \/ KR!Go(p, KR!ack(s))
        BY <3>3 DEF KR!Write
      <4> HIDE DEF s
      <4>3. [s EXCEPT !.stage = "flush"].probe = s.probe /\ [s EXCEPT !.stage = "offsets"].probe = s.probe
        BY <4>1 DEF KrSession
      <4> QED
        BY <1>4, <4>1, <4>2, <4>3
    <3>4. CASE KR!Flush(p)
      <4> DEFINE s == [b EXCEPT !.buffer = <<>>]
      <4>1. s \in KrSession /\ s.probe = b.probe /\ [b EXCEPT !.stage = "offsets"].probe = b.probe
        BY <2>1, <2>2 DEF KrSession
      <4>2. KR!Go(p, [b EXCEPT !.stage = "offsets"]) \/ KR!Go(p, KR!ack(s))
        BY <3>4 DEF KR!Flush
      <4> HIDE DEF s
      <4> QED
        BY <1>4, <4>1, <4>2
    <3>5. CASE KR!Raise(p)
      <4>1. \/ KR!Go(p, [b EXCEPT !.stage = "abort"]) \/ KR!Go(p, [b EXCEPT !.stage = "stopped"])
            \/ KR!Go(p, KR!LeaveStream(b))
        BY <3>5 DEF KR!Raise
      <4>2. [b EXCEPT !.stage = "abort"].probe = b.probe /\ [b EXCEPT !.stage = "stopped"].probe = b.probe
        BY <2>1 DEF KrSession
      <4> QED
        BY <1>4, <2>1, <4>1, <4>2
    <3>6. CASE KR!Abort(p)
      <4> DEFINE s == [b EXCEPT !.txn = <<>>, !.buffer = <<>>]
                 o == [b EXCEPT !.torn = TRUE]
      <4>1. s \in KrSession /\ s.probe = b.probe /\ o \in KrSession /\ o.probe = b.probe
        BY <2>1, <2>2 DEF KrSession
      <4>2. KR!Go(p, KR!LeaveStream(s)) \/ KR!Go(p, KR!LeaveStream(o))
        BY <3>6 DEF KR!Abort
      <4> HIDE DEF s, o
      <4> QED
        BY <1>4, <4>1, <4>2
    <3> QED
      BY <1>8, <3>1, <3>2, <3>3, <3>4, <3>5, <3>6
  <2> QED
    BY <1>3, <2>4
<1>9. ASSUME NEW p \in Procs, KR!EnsureReady(p) PROVE config.health
  BY <1>9 DEF KR!EnsureReady
<1> QED
  BY <1>5, <1>6, <1>7, <1>8, <1>9 DEF KR!Next

KrReport == KR!ReportIsTrue /\ \A p \in Procs : session[p].probe.valid => config.health

LEMMA KrReportStep ==
  ASSUME KrInv, KrInv', KrOneMemory, KrReport, [KR!Next]_KR!vars PROVE KrReport'
<1>1. /\ config' = config /\ KR!ToSet(store) \subseteq KR!ToSet(store')
      /\ lost \subseteq lost' /\ passed_over \subseteq passed_over'
      /\ \/ report' = report
         \/ \E p \in Procs : KR!EnsureReady(p) \/ KR!ProbesReturn(p)
  BY KrGrows
<1>2. \A p \in Procs : session'[p].probe.valid => config'.health
  BY <1>1, KrProbes DEF KrReport
<1>3. KR!ToSet(store) \cup KR!Excused \subseteq KR!ToSet(store') \cup KR!Excused'
  BY <1>1 DEF KR!Excused
<1>4. ASSUME report' = report PROVE KR!ReportIsTrue'
  <2>1. report.passed /\ report.health.commit_lag # KR!NoCount
           => 1..report.health.end \subseteq KR!ToSet(store) \cup KR!Excused
    BY DEF KrReport, KR!ReportIsTrue
  <2>2. report'.passed /\ report'.health.commit_lag # KR!NoCount
           => 1..report'.health.end \subseteq KR!ToSet(store') \cup KR!Excused'
    BY <1>3, <1>4, <2>1
  <2> QED
    BY <2>2 DEF KR!ReportIsTrue, KR!NoCount, KR!ToSet
<1>5. ASSUME NEW p \in Procs, report' # report, KR!EnsureReady(p) PROVE KR!ReportIsTrue'
  <2> DEFINE h == session[p].cache
  <2>1. /\ config.health /\ h.valid /\ report' = [passed |-> KR!evaluate(h, session[p]), health |-> h]
    BY <1>5 DEF KR!EnsureReady
  <2>2. h \in KrHealth /\ KrProbed(session[p], KrKept)
    BY KrSessionFacts DEF KrInv, KrTypes, KrHolds
  <2> SUFFICES ASSUME report'.passed, report'.health.commit_lag # KR!NoCount
               PROVE  1..report'.health.end \subseteq KR!ToSet(store') \cup KR!Excused'
    BY DEF KR!ReportIsTrue, KR!NoCount, KR!ToSet
  <2>3. report'.health = h /\ KR!evaluate(h, session[p])
    BY <2>1
  <2>4. h.commit_lag <= 0 => \A r \in 1..h.end : r \in KrKept
    BY <2>1, <2>2, <2>3 DEF KrProbed
  <2> HIDE DEF h
  <2>5. 1..h.end \subseteq KR!ToSet(store) \cup KR!Excused
    BY <2>1, <2>2, <2>3, <2>4, KrGate
  <2> QED
    BY <1>3, <2>3, <2>5
<1>6. ASSUME NEW p \in Procs, KR!ProbesReturn(p) PROVE KR!ReportIsTrue'
  <2> DEFINE h == KR!health_snapshot(p, session[p], log)
             n == [session[p] EXCEPT !.cache = h, !.probe = KR!NoCache]
  <2>1. /\ session[p].probe.valid /\ report' = [passed |-> KR!evaluate(h, session[p]), health |-> h]
        /\ session' = [session EXCEPT ![p] = n]
        /\ config' = config /\ store' = store /\ lost' = lost /\ passed_over' = passed_over
    BY <1>6 DEF KR!ProbesReturn, KR!Go
  <2>2. h.valid
    BY DEF KR!health_snapshot
  <2> HIDE DEF h
  <2>3. session[p] \in KrSession /\ session \in [Procs -> KrSession]
    BY DEF KrInv, KrTypes
  <2>4. n.cache = h /\ n.buffer = session[p].buffer
    BY <2>3 DEF KrSession
  <2> HIDE DEF n
  <2>5. session'[p] = n /\ \A q \in Procs : session'[q].buffer = session[q].buffer
    BY <2>1, <2>3, <2>4
  <2>6. KrKept' = KrKept
    BY <2>1, <2>5 DEF KrKept, KR!ToSet, KR!Transactional
  <2>7. h \in KrHealth
    <3>1. n \in KrSession
      BY <2>5 DEF KrInv, KrTypes
    <3> QED
      BY <2>4, <3>1, KrSessionFacts
  <2>8. KrProbed(session'[p], KrKept)
    BY <2>6 DEF KrInv, KrHolds, KrProbed
  <2>9. h.commit_lag # KR!NoCount => (h.commit_lag <= 0 => \A r \in 1..h.end : r \in KrKept)
    BY <2>2, <2>4, <2>5, <2>8 DEF KrProbed
  <2> SUFFICES ASSUME report'.passed, report'.health.commit_lag # KR!NoCount
               PROVE  1..report'.health.end \subseteq KR!ToSet(store') \cup KR!Excused'
    BY DEF KR!ReportIsTrue, KR!NoCount, KR!ToSet
  <2>10. report'.health = h /\ KR!evaluate(h, session[p])
    BY <2>1
  <2>11. config.health
    BY <2>1 DEF KrReport
  <2>12. 1..h.end \subseteq KR!ToSet(store) \cup KR!Excused
    BY <2>2, <2>7, <2>9, <2>10, <2>11, KrGate
  <2> QED
    BY <1>3, <2>10, <2>12
<1> QED
  BY <1>1, <1>2, <1>4, <1>5, <1>6 DEF KrReport

\* The acceptance gate passed with a commit lag it knows: every record up to the end that the
\* probes saw is stored, but for the records that a second drain passed over, which the gate
\* does not see, and without flush those lost with a sink's memory: whatever happened between
\* the probes, in the life of a cached snapshot, and after. Without flush this is proved for
\* one process and a sink that does not append.
THEOREM RuntimeReportIsTrue == ASSUME KrAssumptions, KrOneMemory PROVE KR!Spec => []KR!ReportIsTrue
<1>1. KR!Spec => []KrInv
  BY KrAlways
<1>2. KR!Init => KrReport
  <2> SUFFICES ASSUME KR!Init PROVE KrReport
    OBVIOUS
  <2>1. report.passed = FALSE /\ session = [q \in Procs |-> KR!Closed]
    BY DEF KR!Init
  <2>2. \A q \in Procs : session[q].probe.valid = FALSE
    BY <2>1, KrNoCache DEF KR!Closed
  <2> QED
    BY <2>1, <2>2 DEF KrReport, KR!ReportIsTrue
<1>3. KrInv /\ KrInv' /\ KrReport /\ [KR!Next]_KR!vars => KrReport'
  BY KrReportStep
<1>4. KrReport => KR!ReportIsTrue
  BY DEF KrReport
<1> QED
  BY <1>1, <1>2, <1>3, <1>4, PTL DEF KR!Spec

-----------------------------------------------------------------------------
(* RedisPostgres. A pipeline that has passed ensure_ready() was made by the       *)
(* builder, so its rows replace one another by message. What makes the           *)
(* acknowledgement safe is the order of a delivery: written, flushed, and only    *)
(* then acknowledged, so an identifier that waits for XACK has its row already.  *)
RP == INSTANCE RedisPostgres

RpCalls == {"closed", "idle", "write", "flush", "ack"}

RpTypes ==
    /\ config \in Configs /\ (config.builder => config.upsert /\ ~config.copy /\ ~config.business)
    /\ call \in [Consumers -> RpCalls] /\ current \in [Consumers -> Nat]
    /\ buffer \in [Consumers -> Seq(Nat)] /\ pending \in [Consumers -> Seq(Nat)]
    /\ lastId \in Nat /\ pel \in SUBSET Nat /\ acked \in SUBSET Nat
    /\ store \in Seq(Nat)
    /\ passed \in BOOLEAN /\ (passed => config.builder)

RpDistinct(s) == \A i, j \in DOMAIN s : s[i] = s[j] => i = j

\* The message that a consumer flushes is in its buffer; what it acknowledges, now or
\* later, is in the table.
RpDelivers(c) ==
    /\ call[c] = "flush" => current[c] \in Members(buffer[c])
    /\ call[c] = "ack" => current[c] \in Members(store)
    /\ Members(pending[c]) \subseteq Members(store)

RpKept == config.builder => /\ acked \subseteq Members(store)
                            /\ RpDistinct(store)
                            /\ \A c \in Consumers : RpDelivers(c)
RpInv == RpTypes /\ RpKept

-----------------------------------------------------------------------------
LEMMA RpSame == \A s : RP!ToSet(s) = Members(s) /\ (RP!IsInjective(s) <=> RpDistinct(s))
  BY DEF RP!ToSet, Members, RP!IsInjective, RpDistinct

\* SetToSeq() gives each member of a finite set its place, and no other.
LEMMA RpSetToSeq ==
  ASSUME NEW S \in SUBSET Nat, IsFiniteSet(S)
  PROVE  /\ RP!SetToSeq(S) \in Seq(Nat) /\ Members(RP!SetToSeq(S)) = S
         /\ RpDistinct(RP!SetToSeq(S))
<1> DEFINE n == Cardinality(S)
<1>1. n \in Nat /\ ExistsBijection(1..n, S)
  BY FS_CardinalityType
<1>2. RP!Cardinality(S) = n
  BY DEF RP!Cardinality, Cardinality
<1> HIDE DEF n
<1>3. \E f \in [1..n -> S] : RP!IsInjective(f)
  <2>1. PICK f \in Bijection(1..n, S) : TRUE
    BY <1>1 DEF ExistsBijection
  <2>2. f \in [1..n -> S] /\ \A x, y \in DOMAIN f : f[x] = f[y] => x = y
    BY <2>1 DEF Bijection, Injection, IsInjective
  <2> QED
    BY <2>2 DEF RP!IsInjective
<1> DEFINE q == RP!SetToSeq(S)
<1>4. q \in [1..n -> S] /\ RP!IsInjective(q)
  BY <1>2, <1>3 DEF RP!SetToSeq
<1> HIDE DEF q
<1>5. q \in Injection(1..n, S)
  BY <1>4 DEF Injection, IsInjective, RP!IsInjective
<1>6. Cardinality(1..n) = n
  BY <1>1, FS_Interval
<1>7. q \in Surjection(1..n, S)
  BY <1>5, <1>6, FS_Injection DEF n
<1>8. Members(q) = S /\ q \in Seq(Nat)
  <2>1. \A u \in S : \E i \in 1..n : q[i] = u
    BY <1>7 DEF Surjection
  <2>2. DOMAIN q = 1..n /\ \A i \in 1..n : q[i] \in S
    BY <1>4
  <2>3. q \in [1..n -> Nat]
    BY <1>4
  <2>4. q \in Seq(Nat)
    BY <1>1, <2>3
  <2> QED
    BY <2>1, <2>2, <2>4 DEF Members
<1> QED
  BY <1>4, <1>8, RpSame DEF q

\* Two sequences without repetitions that have nothing in common.
LEMMA RpJoinDistinct ==
  ASSUME NEW old \in Seq(Nat), NEW more \in Seq(Nat), RpDistinct(old), RpDistinct(more),
         Members(old) \cap Members(more) = {}
  PROVE  RpDistinct(old \o more)
<1> DEFINE s == old \o more
           l == Len(old)
           m == Len(more)
<1>1. /\ l \in Nat /\ m \in Nat /\ DOMAIN s = 1..(l + m) /\ DOMAIN old = 1..l /\ DOMAIN more = 1..m
      /\ \A i \in 1..l : s[i] = old[i]
  OBVIOUS
<1>2. \A j \in 1..m : s[l + j] = more[j]
  OBVIOUS
<1> HIDE DEF s, l, m
<1>3. ASSUME NEW i \in 1..(l + m), i > l PROVE (i - l) \in 1..m /\ s[i] = more[i - l]
  <2>1. (i - l) \in 1..m /\ l + (i - l) = i
    BY <1>1, <1>3
  <2> QED
    BY <1>2, <2>1
<1>4. ASSUME NEW i \in DOMAIN s, NEW j \in DOMAIN s, s[i] = s[j] PROVE i = j
  <2>1. i \in 1..(l + m) /\ j \in 1..(l + m)
    BY <1>1
  <2>2. CASE i <= l /\ j <= l
    <3>1. i \in 1..l /\ j \in 1..l
      BY <1>1, <2>1, <2>2
    <3> QED
      BY <1>1, <1>4, <3>1 DEF RpDistinct
  <2>3. CASE i > l /\ j > l
    <3>1. more[i - l] = more[j - l] /\ (i - l) \in 1..m /\ (j - l) \in 1..m
      BY <1>3, <1>4, <2>1, <2>3
    <3>2. i - l = j - l
      BY <1>1, <3>1 DEF RpDistinct
    <3> QED
      BY <1>1, <2>1, <3>2
  <2>4. CASE i <= l /\ j > l
    <3>1. s[i] = old[i] /\ i \in DOMAIN old /\ s[j] = more[j - l] /\ (j - l) \in DOMAIN more
      BY <1>1, <1>3, <2>1, <2>4
    <3>2. s[i] \in Members(old) /\ s[j] \in Members(more)
      BY <3>1 DEF Members
    <3> QED
      BY <1>4, <3>2
  <2>5. CASE i > l /\ j <= l
    <3>1. s[j] = old[j] /\ j \in DOMAIN old /\ s[i] = more[i - l] /\ (i - l) \in DOMAIN more
      BY <1>1, <1>3, <2>1, <2>5
    <3>2. s[j] \in Members(old) /\ s[i] \in Members(more)
      BY <3>1 DEF Members
    <3> QED
      BY <1>4, <3>2
  <2> QED
    BY <1>1, <2>1, <2>2, <2>3, <2>4, <2>5
<1> QED
  BY <1>4 DEF s, RpDistinct

\* What a statement leaves in the table.
LEMMA RpWritten ==
  ASSUME RpTypes, NEW rows \in Seq(Nat), RP!Writable(rows)
  PROVE  /\ RP!Written(rows, store) \in Seq(Nat)
         /\ config.builder => /\ Members(RP!Written(rows, store)) = Members(store) \cup Members(rows)
                              /\ RpDistinct(RP!Written(rows, store))
<1>1. store \in Seq(Nat) /\ IsFiniteSet(Members(store)) /\ IsFiniteSet(Members(rows))
      /\ Members(store) \in SUBSET Nat /\ Members(rows) \in SUBSET Nat
  BY MembersFinite DEF RpTypes
<1> DEFINE kept == RP!Untouched(rows, store)
           new == RP!Missing(rows, store)
<1>2. kept \subseteq Members(store) /\ new \subseteq Members(rows)
  BY RpSame DEF RP!Untouched, RP!Missing, Members
<1>3. kept \in SUBSET Nat /\ new \in SUBSET Nat /\ IsFiniteSet(kept) /\ IsFiniteSet(new)
  BY <1>1, <1>2, FS_Subset
<1>4. RP!Written(rows, store) = IF config.copy THEN store \o rows
                                ELSE IF config.upsert THEN RP!SetToSeq(kept) \o rows
                                ELSE store \o RP!SetToSeq(new)
  BY DEF RP!Written
<1>5. config.builder => kept = Members(store) \ Members(rows)
  BY <1>1, RpSame DEF RP!Untouched, RP!Same, RP!with_redis_delivery_fields, RpTypes
<1> HIDE DEF kept, new
<1>6. /\ RP!SetToSeq(kept) \in Seq(Nat) /\ Members(RP!SetToSeq(kept)) = kept /\ RpDistinct(RP!SetToSeq(kept))
      /\ RP!SetToSeq(new) \in Seq(Nat)
  BY <1>3, RpSetToSeq
<1>7. RP!Written(rows, store) \in Seq(Nat)
  BY <1>1, <1>4, <1>6, MembersJoined
<1>8. ASSUME config.builder
      PROVE  /\ Members(RP!Written(rows, store)) = Members(store) \cup Members(rows)
             /\ RpDistinct(RP!Written(rows, store))
  <2>1. config.upsert /\ ~config.copy /\ ~config.business
    BY <1>8 DEF RpTypes
  <2>2. RP!Written(rows, store) = RP!SetToSeq(kept) \o rows
    BY <1>4, <2>1
  <2>3. RpDistinct(rows)
    BY <2>1 DEF RP!Writable, RP!Same, RP!with_redis_delivery_fields, RpDistinct
  <2>4. Members(RP!SetToSeq(kept)) \cap Members(rows) = {}
    BY <1>5, <1>6, <1>8
  <2>5. RpDistinct(RP!SetToSeq(kept) \o rows)
    BY <1>6, <2>3, <2>4, RpJoinDistinct
  <2>6. Members(RP!SetToSeq(kept) \o rows) = kept \cup Members(rows)
    BY <1>6, MembersJoined
  <2> QED
    BY <1>5, <1>8, <2>2, <2>5, <2>6
<1> QED
  BY <1>7, <1>8

-----------------------------------------------------------------------------
\* A step that leaves what has been written and what waits alone.
LEMMA RpOther ==
  ASSUME RpInv, RpTypes', config' = config, acked' = acked, store' = store, pending' = pending, NEW c,
         \A d \in Consumers \ {c} : /\ call'[d] = call[d] /\ current'[d] = current[d]
                                    /\ buffer'[d] = buffer[d],
         c \in Consumers => call'[c] \in {"closed", "idle", "write"}
  PROVE  RpInv'
<1>1. ASSUME config.builder, NEW d \in Consumers PROVE RpDelivers(d)'
  BY <1>1 DEF RpInv, RpKept, RpDelivers
<1> QED
  BY <1>1 DEF RpInv, RpKept

LEMMA RpOpenInv == ASSUME RpInv, NEW c \in Consumers, RP!Open(c) PROVE RpInv'
<1>1. RpTypes'
  BY DEF RP!Open, RpInv, RpTypes, RpCalls
<1>2. /\ \A d \in Consumers \ {c} : call'[d] = call[d] /\ current'[d] = current[d] /\ buffer'[d] = buffer[d]
      /\ call'[c] \in {"closed", "idle", "write"}
  BY DEF RP!Open, RpInv, RpTypes
<1> QED
  BY <1>1, <1>2, RpOther DEF RP!Open

LEMMA RpReadyInv == ASSUME RpInv, NEW c \in Consumers, RP!ensure_ready(c) PROVE RpInv'
<1>1. RpTypes'
  BY DEF RP!ensure_ready, RP!acceptance_report, RpInv, RpTypes
<1>2. /\ \A d \in Consumers \ {c} : call'[d] = call[d] /\ current'[d] = current[d] /\ buffer'[d] = buffer[d]
      /\ call'[c] \in {"closed", "idle", "write"}
  BY DEF RP!ensure_ready
<1> QED
  BY <1>1, <1>2, RpOther DEF RP!ensure_ready

LEMMA RpDrainInv == ASSUME RpInv, NEW c \in Consumers, RP!drain(c) PROVE RpInv'
<1>1. RpTypes'
  <2>1. PICK e \in pel \cup {lastId + 1} :
          /\ lastId' = (IF e > lastId THEN e ELSE lastId) /\ pel' = pel \cup {e}
          /\ \/ /\ call' = [call EXCEPT ![c] = "write"] /\ current' = [current EXCEPT ![c] = e]
             \/ call' = call /\ current' = current
    BY DEF RP!drain
  <2>2. e \in Nat
    BY DEF RpInv, RpTypes
  <2> QED
    BY <2>1, <2>2 DEF RP!drain, RpInv, RpTypes, RpCalls
<1>2. /\ \A d \in Consumers \ {c} : call'[d] = call[d] /\ current'[d] = current[d] /\ buffer'[d] = buffer[d]
      /\ call'[c] \in {"closed", "idle", "write"}
  BY DEF RP!drain, RpInv, RpTypes
<1> QED
  BY <1>1, <1>2, RpOther DEF RP!drain

LEMMA RpCrashInv == ASSUME RpInv, NEW c \in Consumers, RP!Crash(c) PROVE RpInv'
<1>1. <<>> \in Seq(Nat) /\ Members(<<>>) = {}
  BY DEF Members
<1>2. RpTypes'
  BY <1>1 DEF RP!Crash, RpInv, RpTypes, RpCalls
<1>3. ASSUME config.builder, NEW d \in Consumers PROVE RpDelivers(d)'
  <2>1. RpDelivers(d)
    BY <1>3 DEF RpInv, RpKept
  <2> QED
    BY <1>1, <2>1 DEF RP!Crash, RpInv, RpTypes, RpDelivers
<1> QED
  BY <1>2, <1>3 DEF RP!Crash, RpInv, RpKept

LEMMA RpAppended ==
  ASSUME NEW s \in Seq(Nat), NEW e \in Nat
  PROVE  /\ Append(s, e) \in Seq(Nat) /\ Members(Append(s, e)) = Members(s) \cup {e}
         /\ Members(Append(s, e)) \subseteq Nat
<1>1. <<e>> \in Seq(Nat) /\ Append(s, e) = s \o <<e>> /\ Members(<<e>>) = {e}
  BY DEF Members
<1>2. s \o <<e>> \in Seq(Nat) /\ Members(s \o <<e>>) = Members(s) \cup {e}
  BY <1>1, MembersJoined
<1> QED
  BY <1>1, <1>2, MembersFinite

LEMMA RpWriteInv == ASSUME RpInv, NEW c \in Consumers, RP!Write(c) PROVE RpInv'
<1>1. current[c] \in Nat /\ buffer[c] \in Seq(Nat)
  BY DEF RpInv, RpTypes
<1>2. Append(buffer[c], current[c]) \in Seq(Nat) /\ current[c] \in Members(Append(buffer[c], current[c]))
  BY <1>1, RpAppended
<1>3. RpTypes'
  BY <1>2 DEF RP!Write, RpInv, RpTypes, RpCalls
<1>4. ASSUME config.builder, NEW d \in Consumers PROVE RpDelivers(d)'
  <2>1. RpDelivers(d)
    BY <1>4 DEF RpInv, RpKept
  <2> QED
    BY <1>2, <2>1 DEF RP!Write, RpInv, RpTypes, RpDelivers
<1> QED
  BY <1>3, <1>4 DEF RP!Write, RpInv, RpKept

LEMMA RpFlushInv == ASSUME RpInv, NEW c \in Consumers, RP!Flush(c) PROVE RpInv'
<1>1. <<>> \in Seq(Nat) /\ Members(<<>>) = {} /\ buffer[c] \in Seq(Nat)
  BY DEF Members, RpInv, RpTypes
<1>2. CASE RP!Writable(buffer[c]) /\ store' = RP!Written(buffer[c], store)
  <2>1. /\ store' \in Seq(Nat)
        /\ config.builder => Members(store') = Members(store) \cup Members(buffer[c]) /\ RpDistinct(store')
    BY <1>1, <1>2, RpWritten DEF RpInv
  <2>2. RpTypes'
    BY <1>1, <2>1 DEF RP!Flush, RpInv, RpTypes, RpCalls
  <2>3. ASSUME config.builder, NEW d \in Consumers PROVE RpDelivers(d)'
    <3>1. RpDelivers(d) /\ RpDelivers(c)
      BY <2>3 DEF RpInv, RpKept
    <3> QED
      BY <1>1, <2>1, <2>3, <3>1 DEF RP!Flush, RpInv, RpTypes, RpDelivers
  <2> QED
    BY <2>1, <2>2, <2>3 DEF RP!Flush, RpInv, RpKept
<1>3. CASE store' = store /\ buffer' = buffer /\ call' = [call EXCEPT ![c] = "idle"]
  <2>1. RpTypes'
    BY <1>3 DEF RP!Flush, RpInv, RpTypes, RpCalls
  <2>2. /\ \A d \in Consumers \ {c} : call'[d] = call[d] /\ current'[d] = current[d] /\ buffer'[d] = buffer[d]
        /\ call'[c] \in {"closed", "idle", "write"}
    BY <1>3 DEF RP!Flush, RpInv, RpTypes
  <2> QED
    BY <1>3, <2>1, <2>2, RpOther DEF RP!Flush
<1> QED
  BY <1>2, <1>3 DEF RP!Flush

LEMMA RpAcknowledgeInv == ASSUME RpInv, NEW c \in Consumers, RP!Acknowledge(c) PROVE RpInv'
<1> DEFINE ids == Append(pending[c], current[c])
<1>1. current[c] \in Nat /\ pending[c] \in Seq(Nat) /\ <<>> \in Seq(Nat) /\ Members(<<>>) = {}
  BY DEF RpInv, RpTypes, Members
<1>2. ids \in Seq(Nat) /\ Members(ids) = Members(pending[c]) \cup {current[c]} /\ Members(ids) \subseteq Nat
  BY <1>1, RpAppended
<1>3. /\ call[c] = "ack" /\ call' = [call EXCEPT ![c] = "idle"]
      /\ pending' = [pending EXCEPT ![c] = <<>>] \/ pending' = [pending EXCEPT ![c] = ids]
      /\ \/ acked' = acked \cup Members(ids) /\ pel' = pel \ Members(ids)
         \/ acked' = acked /\ pel' = pel
      /\ config' = config /\ current' = current /\ buffer' = buffer /\ lastId' = lastId
      /\ store' = store /\ passed' = passed
  BY RpSame DEF RP!Acknowledge, RP!XAck
<1> HIDE DEF ids
<1>4. RpTypes'
  BY <1>1, <1>2, <1>3 DEF RpInv, RpTypes, RpCalls
<1>5. config.builder => Members(ids) \subseteq Members(store)
  BY <1>2, <1>3 DEF RpInv, RpKept, RpDelivers
<1>6. ASSUME config.builder, NEW d \in Consumers PROVE RpDelivers(d)'
  <2>1. RpDelivers(d)
    BY <1>6 DEF RpInv, RpKept
  <2>2. Members(pending'[d]) \subseteq Members(store)
    BY <1>1, <1>3, <1>5, <1>6, <2>1 DEF RpInv, RpTypes, RpDelivers
  <2> QED
    BY <1>3, <2>1, <2>2 DEF RpInv, RpTypes, RpDelivers
<1> QED
  BY <1>3, <1>4, <1>5, <1>6 DEF RpInv, RpKept

LEMMA RpCloseInv == ASSUME RpInv, NEW c \in Consumers, RP!Close(c) PROVE RpInv'
<1>1. <<>> \in Seq(Nat) /\ Members(<<>>) = {} /\ buffer[c] \in Seq(Nat) /\ pending[c] \in Seq(Nat)
  BY DEF Members, RpInv, RpTypes
<1>2. /\ call' = [call EXCEPT ![c] = "closed"] /\ acked' = acked \cup Members(pending[c])
      /\ pel' = pel \ Members(pending[c]) /\ pending' = [pending EXCEPT ![c] = <<>>]
      /\ \/ /\ RP!Writable(buffer[c]) /\ store' = RP!Written(buffer[c], store)
            /\ buffer' = [buffer EXCEPT ![c] = <<>>]
         \/ store' = store /\ buffer' = buffer
      /\ config' = config /\ current' = current /\ lastId' = lastId /\ passed' = passed
  BY RpSame DEF RP!Close, RP!XAck
<1>3. /\ store' \in Seq(Nat)
      /\ config.builder => Members(store) \subseteq Members(store') /\ RpDistinct(store')
  <2>1. CASE RP!Writable(buffer[c]) /\ store' = RP!Written(buffer[c], store)
    BY <1>1, <2>1, RpWritten DEF RpInv
  <2>2. CASE store' = store
    BY <2>2 DEF RpInv, RpTypes, RpKept
  <2> QED
    BY <1>2, <2>1, <2>2
<1>4. Members(pending[c]) \subseteq Nat
  BY <1>1, MembersFinite
<1>5. RpTypes'
  BY <1>1, <1>2, <1>3, <1>4 DEF RpInv, RpTypes, RpCalls
<1>6. ASSUME config.builder, NEW d \in Consumers PROVE RpDelivers(d)'
  <2>1. RpDelivers(d)
    BY <1>6 DEF RpInv, RpKept
  <2> QED
    BY <1>1, <1>2, <1>3, <1>6, <2>1 DEF RpInv, RpTypes, RpDelivers
<1>7. config.builder => Members(pending[c]) \subseteq Members(store)
  BY DEF RpInv, RpKept, RpDelivers
<1> QED
  BY <1>2, <1>3, <1>5, <1>6, <1>7 DEF RpInv, RpKept

LEMMA RpInitInv == ASSUME RP!Init PROVE RpInv
<1>1. Members(<<>>) = {} /\ <<>> \in Seq(Nat) /\ RpDistinct(<<>>)
  BY DEF Members, RpDistinct
<1>2. RpTypes
  BY <1>1 DEF RP!Init, RP!build_redis_postgres_sink, RpTypes, RpCalls
<1>3. \A c \in Consumers : RpDelivers(c)
  BY <1>1 DEF RP!Init, RpDelivers
<1> QED
  BY <1>1, <1>2, <1>3 DEF RP!Init, RpInv, RpKept

LEMMA RpAlways == RP!Spec => []RpInv
<1>1. RP!Init => RpInv
  BY RpInitInv
<1>2. ASSUME RpInv, [RP!Next]_RP!vars PROVE RpInv'
  <2>1. CASE UNCHANGED RP!vars
    <3>1. /\ config' = config /\ call' = call /\ current' = current /\ buffer' = buffer
          /\ pending' = pending /\ lastId' = lastId /\ pel' = pel /\ store' = store
          /\ acked' = acked /\ passed' = passed
      BY <2>1 DEF RP!vars
    <3>2. RpTypes'
      BY <1>2, <3>1 DEF RpInv, RpTypes
    <3>3. RpKept'
      BY <1>2, <3>1 DEF RpInv, RpKept, RpDelivers
    <3> QED
      BY <3>2, <3>3 DEF RpInv
  <2>2. ASSUME NEW c \in Consumers,
               \/ RP!Open(c) \/ RP!ensure_ready(c) \/ RP!drain(c) \/ RP!Write(c)
               \/ RP!Flush(c) \/ RP!Acknowledge(c) \/ RP!Close(c) \/ RP!Crash(c)
        PROVE  RpInv'
    <3>1. CASE RP!Open(c) \/ RP!ensure_ready(c) \/ RP!drain(c) \/ RP!Crash(c)
      BY <1>2, <3>1, RpOpenInv, RpReadyInv, RpDrainInv, RpCrashInv
    <3>2. CASE RP!Write(c) \/ RP!Flush(c) \/ RP!Acknowledge(c) \/ RP!Close(c)
      BY <1>2, <3>2, RpWriteInv, RpFlushInv, RpAcknowledgeInv, RpCloseInv
    <3> QED
      BY <2>2, <3>1, <3>2
  <2>3. CASE RP!Next
    BY <2>2, <2>3 DEF RP!Next
  <2> QED
    BY <1>2, <2>1, <2>3
<1> QED
  BY <1>1, <1>2, PTL DEF RP!Spec

\* In a pipeline that passed ensure_ready(), an acknowledged message has its row in the
\* table: for any number of consumers, messages, reclaims, failed calls and crashes.
THEOREM PipelineNoRowLost == RP!Spec => []RP!RowsKept
<1>1. RpInv => RP!RowsKept
  BY RpSame DEF RpInv, RpTypes, RpKept, RP!RowsKept
<1> QED
  BY <1>1, RpAlways, PTL

\* ... and no message has two rows.
THEOREM PipelineOneRow == RP!Spec => []RP!DuplicatesExplained
<1>1. RpInv => RP!DuplicatesExplained
  BY RpSame DEF RpInv, RpTypes, RpKept, RP!DuplicatesExplained
<1> QED
  BY <1>1, RpAlways, PTL

-----------------------------------------------------------------------------
(* EmbeddingStore.                                                           *)
ES == INSTANCE EmbeddingStore

\* Methods that the model knows, and a name for the free lock that no worker has.
EsAssumptions ==
    /\ "none" \notin Workers
    /\ \A c \in Configs : c.workers \subseteq Workers
                          /\ c.calls \subseteq {"mark_if_new", "exists", "add"}

EsStages == {"idle", "lock", "scan", "get", "examine", "prune", "remove", "count", "store", "second"}
EsTasks == [call : {"idle", "mark_if_new", "exists", "add"}, key : {0} \cup Keys, stage : EsStages,
            batch : SUBSET Keys, packed : SUBSET Keys, healthy : BOOLEAN]

EsTypes ==
    /\ config \in Configs
    /\ task \in [Workers -> EsTasks]
    /\ \A w \in Workers : /\ task[w].stage = "idle" => task[w].call = "idle"
                          /\ task[w].stage # "idle" => task[w].key \in Keys
    /\ lock \in Workers \cup {"none"}
    /\ values \subseteq Keys /\ index \subseteq Keys

\* Unless the lock has expired under its owner, it belongs to the worker that is past it.
EsGuarded == ~unguarded => \A w \in Workers : ES!Holds(w) => lock = w

\* What was told to be new is stored, and the index has it unless a scan removed it.
EsIndexed ==
    /\ fresh \subseteq values
    /\ ~config.search => /\ fresh \subseteq index \cup hidden
                         /\ values \subseteq index \cup hidden \cup bypassed

\* What the worker that holds the lock has still to come across: as long as its scan
\* goes on, a similar text that is not hidden; after it there is none.
Ahead(w, k) == \/ task[w].stage = "scan"
               \/ task[w].stage = "get" /\ k \in task[w].batch
               \/ task[w].stage = "examine" /\ k \in task[w].batch \cap task[w].packed
EsSeen ==
    ~unguarded => \A w \in Workers : ES!Holds(w) =>
                      \A k \in fresh : ES!Similar(k, task[w].key) => k \in hidden \/ Ahead(w, k)

EsInv == EsTypes /\ EsGuarded /\ EsIndexed /\ EsSeen /\ ES!DuplicatesExplained

LEMMA EsInitInv == ASSUME EsAssumptions, ES!Init PROVE EsInv
  BY DEF ES!Init, EsInv, EsTypes, EsGuarded, EsIndexed, EsSeen, ES!DuplicatesExplained, ES!Holds,
         ES!At, ES!Idle, EsAssumptions, EsTasks, EsStages

\* A step of one task that changes nothing of the store: what the task may be afterwards.
LEMMA EsTaskStep ==
  ASSUME EsInv, EsAssumptions, NEW w \in Workers, NEW t \in EsTasks,
         task' = [task EXCEPT ![w] = t], config' = config, values' = values, index' = index,
         fresh' = fresh, hidden' = hidden, bypassed' = bypassed, unguarded' = unguarded,
         t.stage = "idle" => t.call = "idle",
         t.stage # "idle" => t.key \in Keys,
         lock' \in Workers \cup {"none"},
         \/ t.call # "mark_if_new" \/ t.stage = "lock"
         \/ unguarded
         \/ /\ lock' = w
            /\ \A k \in fresh : ES!Similar(k, t.key) =>
                  \/ k \in hidden \/ t.stage = "scan"
                  \/ t.stage = "get" /\ k \in t.batch
                  \/ t.stage = "examine" /\ k \in t.batch \cap t.packed,
         lock' = lock \/ lock \in {w, "none"}
  PROVE  EsInv'
<1>1. EsTypes'
  BY DEF EsInv, EsTypes
<1>2. \A u \in Workers : u # w => task'[u] = task[u]
  BY DEF EsInv, EsTypes
<1>3. task'[w] = t
  BY DEF EsInv, EsTypes
<1>4. EsGuarded'
  BY <1>2, <1>3 DEF EsInv, EsTypes, EsGuarded, ES!Holds, ES!At, EsAssumptions
<1>5. EsSeen'
  BY <1>2, <1>3 DEF EsInv, EsTypes, EsSeen, ES!Holds, ES!At, Ahead, ES!Similar
<1>6. EsIndexed' /\ ES!DuplicatesExplained'
  BY DEF EsInv, EsIndexed, ES!DuplicatesExplained, ES!Similar
<1> QED
  BY <1>1, <1>4, <1>5, <1>6 DEF EsInv

LEMMA EsIdle == ES!Idle \in EsTasks /\ ES!Idle.stage = "idle" /\ ES!Idle.call = "idle"
  BY DEF ES!Idle, EsTasks, EsStages

\* A call that ends, or fails.
LEMMA EsEnds ==
  ASSUME EsInv, EsAssumptions, NEW w \in Workers, task' = [task EXCEPT ![w] = ES!Idle],
         config' = config, values' = values, index' = index, fresh' = fresh, hidden' = hidden,
         bypassed' = bypassed, unguarded' = unguarded,
         lock' = lock \/ ES!Ends(w)
  PROVE  EsInv'
<1>1. lock' \in Workers \cup {"none"} /\ (lock' = lock \/ lock \in {w, "none"})
  BY DEF EsInv, EsTypes, ES!Ends
<1> QED
  BY <1>1, EsIdle, EsTaskStep

LEMMA EsCall ==
  ASSUME EsInv, EsAssumptions, NEW w \in Workers, NEW verb \in config.calls, NEW k \in Keys,
         ES!Call(w, verb, k)
  PROVE  EsInv'
<1> DEFINE t == [ES!Idle EXCEPT !.call = verb, !.key = k, !.stage = ES!FirstStage(verb)]
<1>1. verb \in {"mark_if_new", "exists", "add"}
  BY DEF EsAssumptions, EsInv, EsTypes
<1>2. /\ t \in EsTasks /\ t.call = verb /\ t.key = k /\ t.stage # "idle"
      /\ verb = "mark_if_new" => t.stage = "lock"
  BY <1>1 DEF EsTasks, EsStages, ES!Idle, ES!FirstStage
<1> HIDE DEF t
<1>3. task' = [task EXCEPT ![w] = t] /\ lock' = lock
  BY DEF ES!Call, ES!Go, t
<1>4. UNCHANGED <<config, values, index, fresh, hidden, bypassed, unguarded>>
  BY DEF ES!Call, ES!Stored
<1>5. lock' \in Workers \cup {"none"}
  BY <1>3 DEF EsInv, EsTypes
<1> QED
  BY <1>2, <1>3, <1>4, <1>5, EsTaskStep

\* A step that moves a task on, keeping what its scan has still to come across.
LEMMA EsOnward ==
  ASSUME EsInv, EsAssumptions, NEW w \in Workers, task[w].stage \notin {"idle", "lock"},
         NEW t \in EsTasks, t.call = task[w].call, t.key = task[w].key, t.stage \notin {"idle", "lock"},
         task' = [task EXCEPT ![w] = t],
         config' = config, values' = values, index' = index, fresh' = fresh, hidden' = hidden,
         bypassed' = bypassed, unguarded' = unguarded, lock' = lock,
         \A k \in fresh : ES!Similar(k, task[w].key) /\ (k \in hidden \/ Ahead(w, k)) =>
             \/ k \in hidden \/ t.stage = "scan"
             \/ t.stage = "get" /\ k \in t.batch
             \/ t.stage = "examine" /\ k \in t.batch \cap t.packed
  PROVE  EsInv'
<1>1. t.key \in Keys
  BY DEF EsInv, EsTypes
<1>3. lock' \in Workers \cup {"none"}
  BY DEF EsInv, EsTypes
<1>4. \/ t.call # "mark_if_new" \/ unguarded
      \/ lock' = w /\ \A k \in fresh : ES!Similar(k, t.key) => k \in hidden \/ Ahead(w, k)
  BY <1>1 DEF EsInv, EsGuarded, EsSeen, ES!Holds, ES!At
<1>5. \/ t.call # "mark_if_new" \/ t.stage = "lock"
      \/ unguarded
      \/ /\ lock' = w
         /\ \A k \in fresh : ES!Similar(k, t.key) =>
               \/ k \in hidden \/ t.stage = "scan"
               \/ t.stage = "get" /\ k \in t.batch
               \/ t.stage = "examine" /\ k \in t.batch \cap t.packed
  BY <1>1, <1>4
<1> QED
  BY <1>1, <1>3, <1>5, EsTaskStep

LEMMA EsAcquire ==
  ASSUME EsInv, EsAssumptions, NEW w \in Workers, ES!Acquire(w) PROVE EsInv'
<1> DEFINE t == [task[w] EXCEPT !.stage = "scan"]
<1>1. t \in EsTasks /\ t.stage = "scan" /\ t.key \in Keys
  BY DEF ES!Acquire, ES!At, EsInv, EsTypes, EsTasks, EsStages
<1>2. task' = [task EXCEPT ![w] = t] /\ lock' = w /\ lock = "none"
  BY DEF ES!Acquire, ES!Step, ES!Go
<1>3. UNCHANGED <<config, values, index, fresh, hidden, bypassed, unguarded>>
  BY DEF ES!Acquire, ES!Stored
<1> HIDE DEF t
<1> QED
  BY <1>1, <1>2, <1>3, EsTaskStep

LEMMA EsGiveUp ==
  ASSUME EsInv, EsAssumptions, NEW w \in Workers, ES!GiveUp(w) \/ ES!Unhealthy(w) \/ ES!Fails(w)
  PROVE  EsInv'
<1>1. task' = [task EXCEPT ![w] = ES!Idle] /\ (lock' = lock \/ ES!Ends(w))
  BY DEF ES!GiveUp, ES!Unhealthy, ES!Fails, ES!Go, ES!Ends
<1>2. UNCHANGED <<config, values, index, fresh, hidden, bypassed, unguarded>>
  BY DEF ES!GiveUp, ES!Unhealthy, ES!Fails, ES!Stored
<1> QED
  BY <1>1, <1>2, EsEnds

LEMMA EsRenewFails ==
  ASSUME EsInv, EsAssumptions, NEW w \in Workers, ES!RenewFails(w) PROVE EsInv'
<1> DEFINE t == [task[w] EXCEPT !.healthy = FALSE]
<1>1. t \in EsTasks /\ t.stage = task[w].stage /\ t.call = task[w].call /\ t.key = task[w].key
  BY DEF EsInv, EsTypes, EsTasks
<1>2. task' = [task EXCEPT ![w] = t] /\ lock' = lock
  BY DEF ES!RenewFails, ES!Go
<1>3. UNCHANGED <<config, values, index, fresh, hidden, bypassed, unguarded>>
  BY DEF ES!RenewFails, ES!Stored
<1>4. unguarded
  BY DEF ES!RenewFails, EsInv, EsGuarded
<1>5. /\ t.stage = "idle" => t.call = "idle"
      /\ t.stage # "idle" => t.key \in Keys
      /\ lock' \in Workers \cup {"none"}
  BY <1>1, <1>2 DEF EsInv, EsTypes
<1> HIDE DEF t
<1> QED
  BY <1>1, <1>2, <1>3, <1>4, <1>5, EsTaskStep

LEMMA EsLockExpires == ASSUME EsInv, EsAssumptions, ES!LockExpires PROVE EsInv'
<1>1. UNCHANGED <<config, task, values, index, fresh, hidden, bypassed>> /\ lock' = "none"
  BY DEF ES!LockExpires, ES!Stored
<1>2. lock \in Workers /\ (unguarded => unguarded') /\ (~unguarded' => task[lock].stage = "idle")
  BY DEF ES!LockExpires, ES!At, ES!Fault, EsInv, EsTypes
<1>3. ~unguarded' => \A w \in Workers : ~ES!Holds(w)
  BY <1>2 DEF EsInv, EsTypes, EsGuarded, ES!Holds, ES!At
<1> QED
  BY <1>1, <1>2, <1>3 DEF EsInv, EsTypes, EsGuarded, EsIndexed, EsSeen, Ahead, ES!DuplicatesExplained, ES!Similar,
                          ES!Holds, ES!At

LEMMA EsScans ==
  ASSUME EsInv, EsAssumptions, NEW w \in Workers, ES!Scan(w) \/ ES!Get(w) PROVE EsInv'
<1>1. /\ task[w] \in EsTasks /\ values \subseteq Keys /\ index \subseteq Keys /\ fresh \subseteq values
      /\ config' = config /\ values' = values /\ index' = index /\ fresh' = fresh /\ hidden' = hidden
      /\ bypassed' = bypassed /\ unguarded' = unguarded /\ lock' = lock
  BY DEF EsInv, EsTypes, EsIndexed, ES!Scan, ES!Get, ES!Stored
<1>2. CASE ES!Scan(w)
  <2> DEFINE t == [task[w] EXCEPT !.stage = "get", !.batch = index]
  <2>1. task[w].stage = "scan" /\ fresh \subseteq index \cup hidden /\ task' = [task EXCEPT ![w] = t]
    BY <1>2 DEF ES!Scan, ES!Go, ES!At, EsInv, EsIndexed
  <2>2. /\ t \in EsTasks /\ t.call = task[w].call /\ t.key = task[w].key
        /\ t.stage = "get" /\ t.batch = index
    BY <1>1 DEF EsTasks, EsStages
  <2> HIDE DEF t
  <2>3. \A k \in fresh : k \in hidden \/ (t.stage = "get" /\ k \in t.batch)
    BY <2>1, <2>2
  <2>4. task[w].stage \notin {"idle", "lock"} /\ t.stage \notin {"idle", "lock"}
    BY <2>1, <2>2
  <2> QED
    BY <1>1, <2>1, <2>2, <2>3, <2>4, EsOnward
<1>3. CASE ES!Get(w)
  <2> DEFINE t == [task[w] EXCEPT !.stage = "examine", !.packed = values \cap task[w].batch]
  <2>1. task[w].stage = "get" /\ task' = [task EXCEPT ![w] = t]
    BY <1>3 DEF ES!Get, ES!Go, ES!At
  <2>2. /\ t \in EsTasks /\ t.call = task[w].call /\ t.key = task[w].key
        /\ t.stage = "examine" /\ t.batch = task[w].batch /\ t.packed = values \cap task[w].batch
    BY <1>1 DEF EsTasks, EsStages
  <2> HIDE DEF t
  <2>3. \A k \in fresh : Ahead(w, k) => t.stage = "examine" /\ k \in t.batch \cap t.packed
    BY <1>1, <2>1, <2>2 DEF Ahead
  <2>4. task[w].stage \notin {"idle", "lock"} /\ t.stage \notin {"idle", "lock"}
    BY <2>1, <2>2
  <2> QED
    BY <1>1, <2>1, <2>2, <2>3, <2>4, EsOnward
<1> QED
  BY <1>2, <1>3

LEMMA EsPrunes ==
  ASSUME EsInv, EsAssumptions, NEW w \in Workers, ES!NotFound(w) \/ ES!Prune(w) \/ ES!Count(w)
  PROVE  EsInv'
<1>1. /\ task[w] \in EsTasks /\ values \subseteq Keys /\ index \subseteq Keys
      /\ config' = config /\ values' = values /\ index' = index /\ fresh' = fresh
      /\ hidden' = hidden /\ bypassed' = bypassed /\ unguarded' = unguarded
      /\ task[w].stage \in {"examine", "prune", "count"}
      /\ task[w].stage = "examine" => task[w].batch = {}
  BY DEF EsInv, EsTypes, ES!NotFound, ES!Prune, ES!Count, ES!Stored, ES!At
<1>2. \A k : ~Ahead(w, k)
  BY <1>1 DEF Ahead
<1>3. CASE ES!Ends(w)
  BY <1>1, <1>3, EsEnds DEF ES!Ends, ES!Go
<1>4. ASSUME NEW t \in EsTasks, t.call = task[w].call, t.key = task[w].key,
             t.stage \in {"prune", "store", "remove"}, ES!Go(w, t), lock' = lock
      PROVE  EsInv'
  <2>1. task[w].stage \notin {"idle", "lock"} /\ t.stage \notin {"idle", "lock"}
    BY <1>1, <1>4
  <2>2. task' = [task EXCEPT ![w] = t]
    BY <1>4 DEF ES!Go
  <2>3. lock' = lock /\ t.call = task[w].call /\ t.key = task[w].key
    BY <1>4
  <2> QED
    BY <1>1, <1>2, <2>1, <2>2, <2>3, EsOnward
<1>5. ASSUME NEW s \in {"prune", "store"}, ES!Step(w, s), lock' = lock PROVE EsInv'
  <2> DEFINE t == [task[w] EXCEPT !.stage = s]
  <2>1. /\ t \in EsTasks /\ t.call = task[w].call /\ t.key = task[w].key
        /\ t.stage \in {"prune", "store", "remove"}
    BY <1>1 DEF EsTasks, EsStages
  <2>2. ES!Go(w, t)
    BY <1>5 DEF ES!Step
  <2> HIDE DEF t
  <2> QED
    BY <1>4, <1>5, <2>1, <2>2
<1>6. CASE lock' = lock /\ ES!Go(w, [task[w] EXCEPT !.stage = "remove", !.batch = index \ values])
  <2> DEFINE t == [task[w] EXCEPT !.stage = "remove", !.batch = index \ values]
  <2>1. /\ t \in EsTasks /\ t.call = task[w].call /\ t.key = task[w].key
        /\ t.stage \in {"prune", "store", "remove"}
    BY <1>1 DEF EsTasks, EsStages
  <2>2. ES!Go(w, t)
    BY <1>6
  <2> HIDE DEF t
  <2> QED
    BY <1>4, <1>6, <2>1, <2>2
<1> QED
  BY <1>3, <1>5, <1>6 DEF ES!NotFound, ES!Prune, ES!Count

LEMMA EsSearch ==
  ASSUME EsInv, EsAssumptions, NEW w \in Workers, ES!Search(w) PROVE EsInv'
<1>1. /\ task[w] \in EsTasks /\ values \subseteq Keys /\ fresh \subseteq values
      /\ config' = config /\ values' = values /\ index' = index /\ fresh' = fresh
      /\ hidden' = hidden /\ bypassed' = bypassed /\ unguarded' = unguarded
      /\ task[w].stage = "scan"
  BY DEF EsInv, EsTypes, EsIndexed, ES!Search, ES!Stored, ES!At
<1>2. CASE ES!Ends(w)
  BY <1>1, <1>2, EsEnds DEF ES!Ends, ES!Go
<1>3. CASE lock' = lock /\ ES!Step(w, "prune") /\ ~\E k \in values : ES!Similar(k, task[w].key)
  <2> DEFINE t == [task[w] EXCEPT !.stage = "prune"]
  <2>1. /\ t \in EsTasks /\ t.call = task[w].call /\ t.key = task[w].key /\ t.stage = "prune"
    BY <1>1 DEF EsTasks, EsStages
  <2>2. task' = [task EXCEPT ![w] = t] /\ lock' = lock
    BY <1>3 DEF ES!Step, ES!Go
  <2> HIDE DEF t
  <2>3. \A k \in fresh : ~ES!Similar(k, task[w].key)
    BY <1>1, <1>3
  <2>4. task[w].stage \notin {"idle", "lock"} /\ t.stage \notin {"idle", "lock"}
    BY <1>1, <2>1
  <2> QED
    BY <1>1, <2>1, <2>2, <2>3, <2>4, EsOnward
<1> QED
  BY <1>2, <1>3 DEF ES!Search

\* The steps that change the store.
LEMMA EsExamine ==
  ASSUME EsInv, EsAssumptions, NEW w \in Workers, NEW k \in Keys, ES!Examine(w, k) PROVE EsInv'
<1> DEFINE t == task[w]
           outdated == k \notin t.packed \/ Dims[k] # Dims[t.key]
           n == IF ~outdated /\ ES!Similar(k, t.key) THEN ES!Idle ELSE [t EXCEPT !.batch = @ \ {k}]
<1>1. /\ t \in EsTasks /\ t.stage = "examine" /\ k \in t.batch /\ t.key \in Keys
      /\ UNCHANGED <<config, values, fresh, bypassed, unguarded>>
      /\ index' = (IF outdated THEN index \ {k} ELSE index)
      /\ hidden' = (IF outdated THEN hidden \cup (values \cap {k}) ELSE hidden)
      /\ lock' = lock \/ (n = ES!Idle /\ lock' = IF lock = w THEN "none" ELSE lock)
      /\ task' = [task EXCEPT ![w] = n]
  BY DEF ES!Examine, ES!At, ES!Ends, ES!Go, EsInv, EsTypes
<1>2. n \in EsTasks /\ (n = ES!Idle \/ /\ n.call = t.call /\ n.key = t.key /\ n.stage = "examine"
                                       /\ n.batch = t.batch \ {k} /\ n.packed = t.packed
                                       /\ outdated \/ ~ES!Similar(k, t.key))
  BY <1>1, EsIdle DEF EsTasks
<1>3. \A u \in Workers : task'[u] = IF u = w THEN n ELSE task[u]
  BY <1>1 DEF EsInv, EsTypes
<1> HIDE DEF n
<1>4. EsTypes'
  BY <1>1, <1>2, <1>3, EsIdle DEF EsInv, EsTypes
<1>5. EsGuarded'
  BY <1>1, <1>2, <1>3, EsIdle DEF EsInv, EsTypes, EsGuarded, ES!Holds, ES!At, EsAssumptions
<1>6. EsIndexed'
  BY <1>1 DEF EsInv, EsTypes, EsIndexed
<1>7. ES!DuplicatesExplained'
  BY <1>1 DEF EsInv, ES!DuplicatesExplained, ES!Similar
<1>8. EsSeen'
  <2> SUFFICES ASSUME ~unguarded, NEW u \in Workers, ES!Holds(u)', NEW l \in fresh,
                      ES!Similar(l, task'[u].key)
               PROVE  l \in hidden' \/ Ahead(u, l)'
    BY <1>1 DEF EsSeen, ES!Similar
  <2>1. hidden \subseteq hidden' /\ fresh \subseteq values
    BY <1>1 DEF EsInv, EsIndexed
  <2>2. CASE u # w
    <3>1. task'[u] = task[u] /\ ES!Holds(u)
      BY <1>3, <2>2 DEF ES!Holds, ES!At
    <3> QED
      BY <2>1, <3>1 DEF EsInv, EsSeen, Ahead
  <2>3. CASE u = w
    <3>1. n.call = t.call /\ n.key = t.key /\ ES!Holds(w) /\ n # ES!Idle
      BY <1>1, <1>2, <1>3, <2>3, EsIdle DEF ES!Holds, ES!At
    <3>2. l \in hidden \/ l \in t.batch \cap t.packed
      BY <1>1, <1>3, <2>3, <3>1 DEF EsInv, EsSeen, Ahead
    <3>3. l = k => l \in hidden'
      BY <1>1, <1>2, <1>3, <2>1, <2>3, <3>1 DEF ES!Similar
    <3> QED
      BY <1>2, <1>3, <2>1, <2>3, <3>1, <3>2, <3>3 DEF Ahead
  <2> QED
    BY <2>2, <2>3
<1> QED
  BY <1>4, <1>5, <1>6, <1>7, <1>8 DEF EsInv

\* A step past the scan: nothing is left ahead of the worker, so what it is told to be
\* new has only hidden companions.
LEMMA EsStores ==
  ASSUME EsInv, EsAssumptions, NEW w \in Workers, NEW n \in EsTasks, NEW new \in SUBSET Keys,
         task[w].stage \in {"remove", "store", "second"},
         task' = [task EXCEPT ![w] = n],
         \/ n = ES!Idle
         \/ n.call = task[w].call /\ n.key = task[w].key /\ n.stage \in {"count", "second"},
         lock' = lock \/ (n = ES!Idle /\ lock' = IF lock = w THEN "none" ELSE lock),
         config' = config, unguarded' = unguarded,
         fresh' = fresh \cup new, fresh' \subseteq values', values' \subseteq Keys, index' \subseteq Keys,
         hidden \subseteq hidden',
         new = {} \/ (new \subseteq {task[w].key} /\ task[w].call = "mark_if_new" /\ n = ES!Idle),
         ~config.search => /\ fresh' \subseteq index' \cup hidden'
                           /\ values' \subseteq index' \cup hidden' \cup bypassed'
  PROVE  EsInv'
<1>1. \A u \in Workers : task'[u] = IF u = w THEN n ELSE task[u]
  BY DEF EsInv, EsTypes
<1>2. EsTypes'
  BY <1>1, EsIdle DEF EsInv, EsTypes
<1>3. EsGuarded'
  BY <1>1, EsIdle DEF EsInv, EsTypes, EsGuarded, ES!Holds, ES!At, EsAssumptions
<1>4. EsIndexed'
  BY DEF EsIndexed
<1>5. ~unguarded /\ task[w].call = "mark_if_new" =>
         /\ lock = w
         /\ \A k \in fresh : ES!Similar(k, task[w].key) => k \in hidden
  BY DEF EsInv, EsGuarded, EsSeen, ES!Holds, ES!At, Ahead
<1>6. ES!DuplicatesExplained'
  BY <1>5 DEF EsInv, ES!DuplicatesExplained, ES!Similar
<1>7. EsSeen'
  <2> SUFFICES ASSUME ~unguarded, NEW u \in Workers, ES!Holds(u)', NEW l \in fresh',
                      ES!Similar(l, task'[u].key)
               PROVE  l \in hidden' \/ Ahead(u, l)'
    BY DEF EsSeen, ES!Similar
  <2>1. CASE u # w
    <3>1. task'[u] = task[u] /\ ES!Holds(u) /\ lock = u
      BY <1>1, <2>1 DEF ES!Holds, ES!At, EsInv, EsGuarded
    <3>2. l \in fresh
      BY <1>5, <2>1, <3>1
    <3> QED
      BY <3>1, <3>2 DEF EsInv, EsSeen, Ahead
  <2>2. CASE u = w
    <3>1. n # ES!Idle
      BY <1>1, <2>2, EsIdle DEF ES!Holds, ES!At
    <3>2. task[w].call = "mark_if_new" /\ l \in fresh /\ ES!Similar(l, task[w].key)
      BY <1>1, <2>2, <3>1 DEF ES!Holds, ES!At
    <3> QED
      BY <1>5, <3>2
  <2> QED
    BY <2>1, <2>2
<1> QED
  BY <1>2, <1>3, <1>4, <1>6, <1>7 DEF EsInv

LEMMA EsRemove ==
  ASSUME EsInv, EsAssumptions, NEW w \in Workers, ES!Remove(w) PROVE EsInv'
<1> DEFINE n == [task[w] EXCEPT !.stage = "count"]
<1>1. /\ n \in EsTasks /\ n.call = task[w].call /\ n.key = task[w].key /\ n.stage = "count"
      /\ task[w].stage = "remove"
  BY DEF ES!Remove, ES!At, EsInv, EsTypes, EsTasks, EsStages
<1>2. task' = [task EXCEPT ![w] = n]
  BY DEF ES!Remove, ES!Step, ES!Go
<1> HIDE DEF n
<1>3. /\ UNCHANGED <<config, lock, values, fresh, bypassed, unguarded>>
      /\ hidden' = hidden \cup (task[w].batch \cap values) /\ index' = index \ task[w].batch
  BY DEF ES!Remove
<1>4. /\ config' = config /\ unguarded' = unguarded /\ lock' = lock
      /\ fresh' = fresh \cup {} /\ fresh' \subseteq values' /\ values' \subseteq Keys /\ index' \subseteq Keys
      /\ hidden \subseteq hidden'
      /\ ~config.search => /\ fresh' \subseteq index' \cup hidden'
                           /\ values' \subseteq index' \cup hidden' \cup bypassed'
  BY <1>3 DEF EsInv, EsTypes, EsIndexed
<1> PICK new \in SUBSET Keys : new = {}
  OBVIOUS
<1>5. fresh' = fresh \cup new
  BY <1>4
<1> QED
  BY <1>1, <1>2, <1>4, <1>5, EsStores

LEMMA EsStore ==
  ASSUME EsInv, EsAssumptions, NEW w \in Workers, ES!Store(w) \/ ES!Second(w) PROVE EsInv'
<1> DEFINE k == task[w].key
           isNew == task[w].call = "mark_if_new" /\ task[w].healthy
<1>1. /\ task[w] \in EsTasks /\ k \in Keys /\ task[w].stage \in {"store", "second"}
      /\ values' \subseteq Keys /\ values \subseteq values'
      /\ config' = config /\ unguarded' = unguarded /\ hidden' = hidden
      /\ values' \subseteq values \cup {k}
  BY DEF ES!Store, ES!Second, ES!At, EsInv, EsTypes
<1>2. CASE ES!Step(w, "second")
  <2>1. /\ [task[w] EXCEPT !.stage = "second"] \in EsTasks
        /\ [task[w] EXCEPT !.stage = "second"].call = task[w].call
        /\ [task[w] EXCEPT !.stage = "second"].key = task[w].key
        /\ [task[w] EXCEPT !.stage = "second"].stage = "second"
    BY <1>1 DEF EsTasks, EsStages
  <2>2. ES!Store(w) /\ bypassed' = bypassed \cup {k} /\ UNCHANGED <<lock, index, fresh>>
    <3>1. task[w].stage = "store" /\ task'[w].stage = "second" /\ task'[w] # ES!Idle
      BY <1>2, <2>1, EsIdle DEF ES!Step, ES!Go, ES!Store, ES!Second, ES!Ends, ES!At, EsInv, EsTypes
    <3> QED
      BY <3>1 DEF ES!Store, ES!Second, ES!Ends, ES!Go, ES!At, EsInv, EsTypes
  <2>3. /\ fresh' = fresh \cup {} /\ fresh' \subseteq values' /\ index' \subseteq Keys /\ hidden \subseteq hidden'
        /\ ~config.search => /\ fresh' \subseteq index' \cup hidden'
                             /\ values' \subseteq index' \cup hidden' \cup bypassed'
    BY <1>1, <2>2 DEF EsInv, EsTypes, EsIndexed
  <2>4. task' = [task EXCEPT ![w] = [task[w] EXCEPT !.stage = "second"]] /\ lock' = lock
    BY <1>2, <2>2 DEF ES!Step, ES!Go
  <2> PICK new \in SUBSET Keys : new = {}
    OBVIOUS
  <2>5. fresh' = fresh \cup new
    BY <2>3
  <2> DEFINE n == [task[w] EXCEPT !.stage = "second"]
  <2>6. n \in EsTasks /\ n.call = task[w].call /\ n.key = task[w].key /\ n.stage = "second" /\ task' = [task EXCEPT ![w] = n]
    BY <2>1, <2>4
  <2> HIDE DEF n
  <2> QED
    BY <1>1, <2>3, <2>4, <2>5, <2>6, EsStores
<1>3. CASE ES!Ends(w) /\ \E keys \in SUBSET {k} : /\ ES!Told(w, keys) /\ keys = values' \cap {k}
                                                 /\ index' = IF config.search THEN index ELSE index \cup {k}
  <2> PICK keys \in SUBSET {k} : /\ ES!Told(w, keys) /\ keys = values' \cap {k}
                                 /\ index' = IF config.search THEN index ELSE index \cup {k}
    BY <1>3
  <2> DEFINE new == IF isNew THEN keys ELSE {}
  <2>1. /\ fresh' = fresh \cup new /\ new \subseteq keys /\ (isNew \/ new = {})
        /\ bypassed \ keys \subseteq bypassed'
    BY DEF ES!Told
  <2> HIDE DEF new
  <2>2. /\ fresh' \subseteq values' /\ index' \subseteq Keys /\ hidden \subseteq hidden'
        /\ ~config.search => /\ fresh' \subseteq index' \cup hidden'
                             /\ values' \subseteq index' \cup hidden' \cup bypassed'
    BY <1>1, <2>1 DEF EsInv, EsTypes, EsIndexed
  <2>3. /\ task' = [task EXCEPT ![w] = ES!Idle] /\ lock' = IF lock = w THEN "none" ELSE lock
    BY <1>3 DEF ES!Ends, ES!Go
  <2>4. new \in SUBSET Keys /\ (new = {} \/ (new \subseteq {task[w].key} /\ task[w].call = "mark_if_new"))
    BY <1>1, <2>1
  <2> QED
    BY <1>1, <2>1, <2>2, <2>3, <2>4, EsIdle, EsStores
<1>4. ES!Step(w, "second") \/ (ES!Ends(w) /\ \E keys \in SUBSET {k} : /\ ES!Told(w, keys) /\ keys = values' \cap {k}
                                                 /\ index' = IF config.search THEN index ELSE index \cup {k})
  <2>1. CASE ES!Store(w)
    <3>1. values' \cap {k} = {k}
      BY <2>1 DEF ES!Store
    <3> QED
      BY <2>1, <3>1 DEF ES!Store
  <2>2. CASE ES!Second(w)
    BY <2>2 DEF ES!Second
  <2> QED
    BY <2>1, <2>2
<1> QED
  BY <1>2, <1>3, <1>4

LEMMA EsExpires ==
  ASSUME EsInv, EsAssumptions, NEW k \in Keys, ES!Expires(k) PROVE EsInv'
<1>1. /\ UNCHANGED <<config, task, index, lock, unguarded>>
      /\ values' = values \ {k} /\ fresh' = fresh \ {k} /\ hidden' = hidden \ {k} /\ bypassed' = bypassed \ {k}
  BY DEF ES!Expires
<1>2. EsTypes' /\ EsGuarded' /\ EsIndexed'
  BY <1>1 DEF EsInv, EsTypes, EsGuarded, EsIndexed, ES!Holds, ES!At
<1>3. EsSeen' /\ ES!DuplicatesExplained'
  BY <1>1 DEF EsInv, EsSeen, Ahead, ES!DuplicatesExplained, ES!Similar, ES!Holds, ES!At
<1> QED
  BY <1>2, <1>3 DEF EsInv

LEMMA EsNextInv == ASSUME EsInv, EsAssumptions, [ES!Next]_ES!vars PROVE EsInv'
<1>1. CASE UNCHANGED ES!vars
  BY <1>1 DEF ES!vars, EsInv, EsTypes, EsGuarded, EsIndexed, EsSeen, Ahead, ES!DuplicatesExplained, ES!Similar,
              ES!Holds, ES!At
<1>2. CASE ES!Next
  <2>1. CASE ES!LockExpires
    BY <2>1, EsLockExpires
  <2>2. CASE \E k \in Keys : ES!Expires(k)
    BY <2>2, EsExpires
  <2>3. ASSUME NEW w \in Workers,
               \/ \E verb \in config.calls, k \in Keys : ES!Call(w, verb, k)
               \/ ES!Acquire(w) \/ ES!GiveUp(w) \/ ES!RenewFails(w) \/ ES!Unhealthy(w)
               \/ ES!Search(w) \/ ES!Scan(w) \/ ES!Get(w) \/ (\E k \in Keys : ES!Examine(w, k)) \/ ES!NotFound(w)
               \/ ES!Prune(w) \/ ES!Remove(w) \/ ES!Count(w) \/ ES!Store(w) \/ ES!Second(w) \/ ES!Fails(w)
        PROVE  EsInv'
    BY <2>3, EsCall, EsAcquire, EsGiveUp, EsRenewFails, EsSearch, EsScans, EsExamine, EsPrunes, EsRemove, EsStore
  <2> QED
    BY <1>2, <2>1, <2>2, <2>3 DEF ES!Next
<1> QED
  BY <1>1, <1>2

\* What mark_if_new() promises: two similar texts are both told to be new only when the
\* lock expired under its owner or a scan hid the first one (lock and scan of
\* _embedding_runtime.py), for any number of processes, texts and failures.
THEOREM EmbeddingOnce == ASSUME EsAssumptions PROVE ES!Spec => []ES!DuplicatesExplained
<1>1. ES!Init => EsInv
  BY EsInitInv
<1>2. EsInv /\ [ES!Next]_ES!vars => EsInv'
  BY EsNextInv
<1>3. EsInv => ES!DuplicatesExplained
  BY DEF EsInv
<1> QED
  BY <1>1, <1>2, <1>3, PTL DEF ES!Spec

\* Every stored embedding is in the index that scans read, unless a scan or a call that
\* stores without the lock (add(), a cluster's two commands) kept it out.
THEOREM EmbeddingIndexed == ASSUME EsAssumptions PROVE ES!Spec => []ES!EntriesIndexed
<1>1. ES!Init => EsInv
  BY EsInitInv
<1>2. EsInv /\ [ES!Next]_ES!vars => EsInv'
  BY EsNextInv
<1>3. EsInv => ES!EntriesIndexed
  BY DEF EsInv, EsIndexed, ES!EntriesIndexed
<1> QED
  BY <1>1, <1>2, <1>3, PTL DEF ES!Spec

-----------------------------------------------------------------------------
(* RedisState.                                                               *)
RB == INSTANCE RedisState

\* Clocks and times to live are numbers; the model's time ends before the one that
\* stands for "never".
RbAssumptions ==
    /\ MaxTime < RB!Never /\ MaxTime \in Nat
    /\ \A c \in Configs : c.skew \in [Clients -> Nat] /\ c.ttl \in Nat

RbCalls == {"idle", "read", "delete"}
RbValues == [value : Nat, expires_at : Nat, px : Nat]

RbTypes ==
    /\ config \in Configs /\ now \in Nat /\ now <= MaxTime
    /\ client \in [Clients -> [call : RbCalls, seen : RbValues]]
    /\ stored \in RbValues /\ updates \in Nat /\ swept \in BOOLEAN
    /\ \A h \in held : h.px \in Nat

\* Until something was deleted too early, the value is there as long as anybody whom it
\* was new to has a claim on it, and nobody is told the same meanwhile.
RbHeld ==
    /\ stored # RB!NoValue => stored.px > now /\ stored.px <= (IF config.ttl = 0 THEN RB!Never ELSE now + config.ttl)
    /\ \A h \in held : h.px > now
    /\ config.ttl = 0 => /\ \A h \in held : h.px = RB!Never
                         /\ stored # RB!NoValue => stored.px = RB!Never
    /\ ~swept => /\ \A h \in held : stored # RB!NoValue /\ h.px <= stored.px
                 /\ \A g, h \in held : g = h

RbInv == RbTypes /\ RB!ViewIsTrue /\ RbHeld

LEMMA RbPayload ==
  ASSUME RbInv, RbAssumptions, NEW c \in Clients, NEW v \in Nat
  PROVE  /\ RB!payload(c, v) \in RbValues /\ RB!payload(c, v).value = v
         /\ RB!payload(c, v).px = IF config.ttl = 0 THEN RB!Never ELSE now + config.ttl
         /\ RB!payload(c, v).px > now
         /\ v > 0 => RB!payload(c, v) # RB!NoValue
  BY DEF RbInv, RbTypes, RbAssumptions, RbValues, RB!payload, RB!expires_at, RB!time, RB!Never, RB!NoValue

LEMMA RbNoValue == RB!NoValue \in RbValues /\ RB!NoValue.value = 0
  BY DEF RB!NoValue, RbValues

LEMMA RbInitInv == ASSUME RbAssumptions, RB!Init PROVE RbInv
<1>1. /\ config \in Configs /\ now = 0 /\ stored = RB!NoValue /\ updates = 0 /\ held = {} /\ swept = FALSE
      /\ client = [c \in Clients |-> RB!Idle]
  BY DEF RB!Init
<1>2. 0 \in Nat /\ 0 <= MaxTime
  BY DEF RbAssumptions
<1>3. client \in [Clients -> [call : RbCalls, seen : RbValues]]
  BY <1>1, RbNoValue DEF RB!Idle, RbCalls
<1>4. RbTypes
  BY <1>1, <1>2, <1>3, RbNoValue DEF RbTypes
<1>5. RB!ViewIsTrue
  BY <1>1, RbNoValue DEF RB!ViewIsTrue
<1>6. RbHeld
  BY <1>1 DEF RbHeld
<1> QED
  BY <1>4, <1>5, <1>6 DEF RbInv

\* A step of a client: what is stored afterwards.
LEMMA RbStep ==
  ASSUME RbInv, RbAssumptions, stored' \in RbValues, updates' \in Nat, swept' \in BOOLEAN,
         config' = config, now' = now, held' = held,
         client' \in [Clients -> [call : RbCalls, seen : RbValues]],
         stored'.value = updates', swept => swept',
         \/ stored' = stored
         \/ stored' = RB!NoValue /\ (stored # RB!NoValue => swept')
         \/ /\ stored'.px = IF config.ttl = 0 THEN RB!Never ELSE now + config.ttl
            /\ stored'.px > now /\ stored' # RB!NoValue
  PROVE  RbInv'
<1>1. RbTypes' /\ RB!ViewIsTrue'
  BY DEF RbInv, RbTypes, RB!ViewIsTrue
<1>2. RbHeld'
  BY DEF RbInv, RbTypes, RbHeld, RB!Never, RbValues, RbAssumptions
<1> QED
  BY <1>1, <1>2 DEF RbInv

LEMMA RbClient ==
  ASSUME RbInv, NEW c \in Clients, NEW verb \in RbCalls, NEW v \in RbValues, RB!Go(c, verb, v)
  PROVE  client' \in [Clients -> [call : RbCalls, seen : RbValues]]
  BY DEF RbInv, RbTypes, RB!Go

LEMMA RbReads ==
  ASSUME RbInv, RbAssumptions, NEW c \in Clients, RB!get(c) \/ RB!scan(c) PROVE RbInv'
<1>1. UNCHANGED <<config, now, stored, updates, held, swept>>
  BY DEF RB!get, RB!scan
<1>2. \E verb \in RbCalls : RB!Go(c, verb, stored)
  BY DEF RB!get, RB!scan, RbCalls
<1>3. client' \in [Clients -> [call : RbCalls, seen : RbValues]]
  BY <1>2, RbClient DEF RbInv, RbTypes
<1> QED
  BY <1>1, <1>3 DEF RbInv, RbTypes, RB!ViewIsTrue, RbHeld

LEMMA RbDelete ==
  ASSUME RbInv, RbAssumptions, NEW c \in Clients, RB!delete(c) PROVE RbInv'
<1>1. /\ UNCHANGED <<config, now, held>> /\ stored' = RB!NoValue /\ updates' = 0
      /\ swept' = (swept \/ (stored # RB!NoValue /\ stored.px > now)) /\ swept' \in BOOLEAN
      /\ RB!Go(c, "idle", RB!NoValue)
  BY DEF RB!delete
<1>2. client' \in [Clients -> [call : RbCalls, seen : RbValues]]
  BY <1>1, RbClient, RbNoValue DEF RbCalls
<1>3. swept => swept'
  BY <1>1
<1>4. stored # RB!NoValue => swept'
  BY <1>1 DEF RbInv, RbHeld
<1> QED
  BY <1>1, <1>2, <1>3, <1>4, RbNoValue, RbStep

LEMMA RbMark ==
  ASSUME RbInv, RbAssumptions, NEW c \in Clients, RB!set_if_absent(c) PROVE RbInv'
<1>1. UNCHANGED <<config, now, swept>> /\ RB!Go(c, "idle", RB!NoValue)
  BY DEF RB!set_if_absent
<1>2. client' \in [Clients -> [call : RbCalls, seen : RbValues]]
  BY <1>1, RbClient, RbNoValue DEF RbCalls
<1>3. CASE stored # RB!NoValue
  <2>1. UNCHANGED <<stored, updates, held>>
    BY <1>3 DEF RB!set_if_absent
  <2> QED
    BY <1>1, <1>2, <2>1 DEF RbInv, RbTypes, RB!ViewIsTrue, RbHeld
<1>4. CASE stored = RB!NoValue
  <2> DEFINE p == RB!payload(c, 1)
             h == [by |-> c, px |-> p.px]
  <2>1. stored' = p /\ updates' = 1 /\ held' = held \cup {h} /\ h.px = p.px
    BY <1>4 DEF RB!set_if_absent
  <2>2. /\ p \in RbValues /\ p.value = 1 /\ p.px > now /\ p # RB!NoValue /\ p.px \in Nat
        /\ p.px = IF config.ttl = 0 THEN RB!Never ELSE now + config.ttl
    BY RbPayload DEF RbValues
  <2> HIDE DEF p, h
  <2>3. ~swept => held = {}
    BY <1>4 DEF RbInv, RbHeld
  <2>4. RbTypes' /\ RB!ViewIsTrue'
    BY <1>1, <1>2, <2>1, <2>2 DEF RbInv, RbTypes, RB!ViewIsTrue
  <2>5. RbHeld'
    BY <1>1, <2>1, <2>2, <2>3 DEF RbInv, RbTypes, RbHeld
  <2> QED
    BY <2>4, <2>5 DEF RbInv
<1> QED
  BY <1>3, <1>4

\* What the script compares, apart from the time to live.
LEMMA RbSame ==
  ASSUME NEW u \in RbValues, NEW v \in RbValues, [u EXCEPT !.px = 0] = [v EXCEPT !.px = 0]
  PROVE  u.value = v.value /\ u.expires_at = v.expires_at
<1>1. [u EXCEPT !.px = 0].value = u.value /\ [u EXCEPT !.px = 0].expires_at = u.expires_at
  BY DEF RbValues
<1>2. [v EXCEPT !.px = 0].value = v.value /\ [v EXCEPT !.px = 0].expires_at = v.expires_at
  BY DEF RbValues
<1> QED
  BY <1>1, <1>2

LEMMA RbCompare ==
  ASSUME RbInv, RbAssumptions, NEW c \in Clients, RB!compare_and_set(c) PROVE RbInv'
<1>1. UNCHANGED <<config, now, held>> /\ RB!Go(c, "idle", RB!NoValue)
  BY DEF RB!compare_and_set
<1>2. client' \in [Clients -> [call : RbCalls, seen : RbValues]]
  BY <1>1, RbClient, RbNoValue DEF RbCalls
<1> DEFINE v == client[c].seen
<1>3. v \in RbValues /\ stored \in RbValues /\ v.value \in Nat /\ swept \in BOOLEAN
  BY DEF RbInv, RbTypes, RbValues
<1>4. CASE RB!Expired(c, stored)
  <2>1. /\ stored' = RB!NoValue /\ updates' = 0 /\ swept' = (swept \/ stored.px > now) /\ swept' \in BOOLEAN
    BY <1>4 DEF RB!compare_and_set
  <2>2. (stored # RB!NoValue => swept') /\ (swept => swept')
    BY <2>1 DEF RbInv, RbHeld
  <2> QED
    BY <1>1, <1>2, <2>1, <2>2, RbNoValue, RbStep
<1>5. CASE ~RB!Expired(c, stored)
  <2>1. swept' = swept
    BY <1>5 DEF RB!compare_and_set
  <2>2. CASE UNCHANGED <<stored, updates>>
    BY <1>1, <1>2, <2>1, <2>2 DEF RbInv, RbTypes, RB!ViewIsTrue, RbHeld
  <2>3. CASE /\ [stored EXCEPT !.px = 0] = [v EXCEPT !.px = 0]
             /\ stored' = RB!payload(c, v.value + 1) /\ updates' = updates + 1
    <3>1. stored.value = v.value
      BY <1>3, <2>3, RbSame
    <3>2. updates' = v.value + 1 /\ v.value + 1 \in Nat /\ v.value + 1 > 0
      BY <1>3, <2>3, <3>1 DEF RbInv, RB!ViewIsTrue
    <3> DEFINE p == RB!payload(c, v.value + 1)
    <3>3. /\ p \in RbValues /\ p.value = v.value + 1 /\ p.px > now /\ p # RB!NoValue
          /\ p.px = IF config.ttl = 0 THEN RB!Never ELSE now + config.ttl
      BY <3>2, RbPayload
    <3>4. stored' = p
      BY <2>3
    <3> HIDE DEF p
    <3> QED
      BY <1>1, <1>2, <1>3, <2>1, <3>2, <3>3, <3>4, RbStep
  <2> QED
    BY <1>5, <2>2, <2>3 DEF RB!compare_and_set
<1> QED
  BY <1>4, <1>5

LEMMA RbSet ==
  ASSUME RbInv, RbAssumptions, NEW c \in Clients, RB!set(c) PROVE RbInv'
<1>1. /\ UNCHANGED <<config, now, client, held, swept>> /\ stored' = RB!payload(c, 1) /\ updates' = 1
  BY DEF RB!set
<1> DEFINE p == RB!payload(c, 1)
<1>2. /\ p \in RbValues /\ p.value = 1 /\ p.px > now /\ p # RB!NoValue
      /\ p.px = IF config.ttl = 0 THEN RB!Never ELSE now + config.ttl
  BY RbPayload
<1>3. client' \in [Clients -> [call : RbCalls, seen : RbValues]] /\ swept \in BOOLEAN
  BY <1>1 DEF RbInv, RbTypes
<1>4. stored' = p
  BY <1>1
<1> HIDE DEF p
<1> QED
  BY <1>1, <1>2, <1>3, <1>4, RbStep

LEMMA RbTick == ASSUME RbInv, RbAssumptions, RB!Tick PROVE RbInv'
<1>1. /\ now < MaxTime /\ now' = now + 1 /\ held' = {h \in held : h.px > now'}
      /\ UNCHANGED <<config, client, swept>>
  BY DEF RB!Tick
<1>2. now' \in Nat /\ now' <= MaxTime /\ now' < RB!Never
  BY <1>1 DEF RbInv, RbTypes, RbAssumptions, RB!Never
<1>3. CASE stored # RB!NoValue /\ stored.px <= now'
  <2>1. stored' = RB!NoValue /\ updates' = 0
    BY <1>3 DEF RB!Tick
  <2>2. ~swept => held' = {}
    BY <1>1, <1>2, <1>3 DEF RbInv, RbTypes, RbHeld, RbValues
  <2>3. RbTypes' /\ RB!ViewIsTrue'
    BY <1>1, <1>2, <2>1, RbNoValue DEF RbInv, RbTypes, RB!ViewIsTrue
  <2>4. RbHeld'
    BY <1>1, <2>1, <2>2 DEF RbInv, RbHeld
  <2> QED
    BY <2>3, <2>4 DEF RbInv
<1>4. CASE ~(stored # RB!NoValue /\ stored.px <= now')
  <2>1. UNCHANGED <<stored, updates>>
    BY <1>4 DEF RB!Tick
  <2>2. RbTypes' /\ RB!ViewIsTrue'
    BY <1>1, <1>2, <2>1 DEF RbInv, RbTypes, RB!ViewIsTrue
  <2>3. RbHeld'
    <3>1. config.ttl \in Nat /\ now \in Nat /\ stored.px \in Nat
      BY DEF RbInv, RbTypes, RbValues, RbAssumptions
    <3> QED
      BY <1>1, <1>2, <1>4, <2>1, <3>1 DEF RbInv, RbHeld
  <2> QED
    BY <2>2, <2>3 DEF RbInv
<1> QED
  BY <1>3, <1>4

LEMMA RbCardinality == ASSUME NEW S PROVE RB!Cardinality(S) = Cardinality(S)
  BY DEF RB!Cardinality, Cardinality

LEMMA RbNextInv == ASSUME RbInv, RbAssumptions, [RB!Next]_RB!vars PROVE RbInv'
<1>1. CASE UNCHANGED RB!vars
  BY <1>1 DEF RB!vars, RbInv, RbTypes, RB!ViewIsTrue, RbHeld
<1> QED
  BY <1>1, RbReads, RbDelete, RbMark, RbCompare, RbSet, RbTick DEF RB!Next

\* The value counts every acknowledged update since it was created: compare_and_set() of
\* the Redis state overwrites no update its caller has not read, for any clients,
\* clocks and times to live.
THEOREM StateNoLostUpdate == ASSUME RbAssumptions PROVE RB!Spec => []RB!ViewIsTrue
<1>1. RB!Init => RbInv
  BY RbInitInv
<1>2. RbInv /\ [RB!Next]_RB!vars => RbInv'
  BY RbNextInv
<1>3. RbInv => RB!ViewIsTrue
  BY DEF RbInv
<1> QED
  BY <1>1, <1>2, <1>3, PTL DEF RB!Spec

\* set_if_absent() tells two clients within one time to live that a key is new only if a
\* value that had not expired was deleted.
THEOREM StateOneCreation == ASSUME RbAssumptions PROVE RB!Spec => []RB!DuplicatesExplained
<1>1. RB!Init => RbInv
  BY RbInitInv
<1>2. RbInv /\ [RB!Next]_RB!vars => RbInv'
  BY RbNextInv
<1>3. RbInv => RB!DuplicatesExplained
  <2> SUFFICES ASSUME RbInv, ~swept PROVE ~(Cardinality(held) > 1)
    BY RbCardinality DEF RB!DuplicatesExplained
  <2>1. CASE held = {}
    BY <2>1, FS_EmptySet
  <2>2. CASE held # {}
    <3>1. PICK h \in held : TRUE
      BY <2>2
    <3>2. held = {h}
      BY <3>1 DEF RbInv, RbHeld
    <3> QED
      BY <3>2, FS_Singleton
  <2> QED
    BY <2>1, <2>2
<1> QED
  BY <1>1, <1>2, <1>3, PTL DEF RB!Spec

-----------------------------------------------------------------------------
(* SchemaAdapter.                                                            *)
SA == INSTANCE SchemaAdapter

\* Every task belongs to a process; the table is there or not.
SaAssumptions == \A c \in Configs : c.proc \in [Tasks -> Procs] /\ c.table \in BOOLEAN

\* The columns: the numbers, and what Next1 takes of a set of them. That it is one of
\* them does not matter here.
SaNames == Nat \cup {SA!Next1(new) : new \in SUBSET Nat}

SaTasks == [stage : {"idle", "lock", "exists", "create", "load", "reload", "alter", "rows", "add",
                     "columns", "answer", "insert"},
            row : Nat, new : SUBSET Nat, rows : BOOLEAN, read : SUBSET SaNames]
SaAdapters == [schema : Nat, applied : Nat, created : BOOLEAN, existing : SUBSET SaNames,
               locked : BOOLEAN, cache : SUBSET SaNames]
SaTables == [exists : BOOLEAN, cols : SUBSET SaNames, notnull : SUBSET SaNames, rows : BOOLEAN]

\* The stages of a task that has found or created the table.
SaFound(n) == n.stage \in {"load", "reload", "alter", "rows", "add"}

SaTypes ==
    /\ config \in Configs
    /\ task \in [Tasks -> SaTasks] /\ adapter \in [Procs -> SaAdapters] /\ table \in SaTables
    /\ ~table.exists => table.cols = {}
    /\ \A t \in Tasks : SaFound(task[t]) => table.exists

\* The schema of the row has been applied; columns are still being added.
SaPast(n) == n.stage \in {"columns", "answer", "insert"}
SaAdds(n) == n.stage \in {"rows", "add"}

\* What a process believes to exist does exist, unless it took the table of another
\* process for its own, and it never forgets a column: so a row that is past the schema
\* finds its columns, even if another task has applied an older schema since.
SaKnown ==
    \A p \in Procs \ raced :
        /\ adapter[p].existing \subseteq table.cols
        /\ SA!Columns(adapter[p].applied) \subseteq adapter[p].existing
        /\ \A t \in Tasks : SA!P(t) = p =>
               /\ SaPast(task[t]) => SA!Columns(task[t].row) \subseteq adapter[p].existing
               /\ SaAdds(task[t]) => SA!Columns(task[t].row) \subseteq adapter[p].existing \cup task[t].new

\* A cache that is used has the columns of the schema applied last and of every row under
\* way.
SaCached ==
    \A p \in Procs \ (raced \cup stale) : adapter[p].cache # SA!NoCache =>
        /\ SA!Columns(adapter[p].applied) \subseteq adapter[p].cache
        /\ \A t \in Tasks : SA!P(t) = p /\ SaPast(task[t]) => SA!Columns(task[t].row) \subseteq adapter[p].cache

SaInv == SaTypes /\ SaKnown /\ SaCached /\ SA!ViewIsTrue

LEMMA SaColumns == ASSUME NEW v \in Nat PROVE SA!Columns(v) \in SUBSET Nat /\ SA!Columns(v) \in SUBSET SaNames
  BY DEF SA!Columns, SaNames

LEMMA SaNone == SA!Columns(0) = {}
  BY DEF SA!Columns

LEMMA SaNoCache == SA!NoCache \in SUBSET SaNames
  BY DEF SA!NoCache, SaNames

LEMMA SaInitInv == ASSUME SaAssumptions, SA!Init PROVE SaInv
<1>1. /\ config \in Configs /\ task = [t \in Tasks |-> SA!Idle] /\ adapter = [p \in Procs |-> SA!NewAdapter]
      /\ table = [exists |-> config.table, cols |-> IF config.table THEN SA!Columns(1) ELSE {},
                  notnull |-> {}, rows |-> config.table]
      /\ raced = {} /\ stale = {} /\ dropped = {}
  BY DEF SA!Init
<1>2. SA!Idle \in SaTasks /\ SA!NewAdapter \in SaAdapters
  BY SaNoCache DEF SA!Idle, SaTasks, SA!NewAdapter, SaAdapters
<1>3. SaTypes
  <2>3. \A t \in Tasks : ~SaFound(task[t])
    BY <1>1 DEF SaFound, SA!Idle
  <2>1. config.table \in BOOLEAN /\ SA!Columns(1) \in SUBSET SaNames
    BY <1>1, SaColumns DEF SaAssumptions
  <2>2. table \in SaTables /\ (~table.exists => table.cols = {})
    BY <1>1, <2>1 DEF SaTables
  <2> QED
    BY <1>1, <1>2, <2>2, <2>3 DEF SaTypes
<1>4. \A t \in Tasks : ~SaPast(task[t]) /\ ~SaAdds(task[t])
  BY <1>1 DEF SaPast, SaAdds, SA!Idle
<1>5. \A p \in Procs : /\ SA!Columns(adapter[p].applied) = {} /\ adapter[p].existing = {}
  BY <1>1, SaNone DEF SA!NewAdapter
<1> QED
  BY <1>1, <1>3, <1>4, <1>5 DEF SaInv, SaKnown, SaCached, SA!ViewIsTrue

\* A step of one task: what it may do with the adapter of its process and the table.
LEMMA SaStep ==
  ASSUME SaInv, SaAssumptions, NEW t \in Tasks, NEW n \in SaTasks, NEW a \in SaAdapters, NEW p \in Procs,
         p = SA!P(t), config' = config,
         task' = [task EXCEPT ![t] = n], adapter' = [adapter EXCEPT ![p] = a],
         table' \in SaTables, ~table'.exists => table'.cols = {}, table.exists => table'.exists,
         SaFound(n) => table'.exists, table.cols \subseteq table'.cols,
         raced \subseteq raced', stale \subseteq stale',
         dropped' = dropped \/ (dropped' = dropped \cup {p} /\ p \in raced' \cup stale'),
         p \notin raced' => /\ adapter[p].existing \subseteq a.existing /\ a.existing \subseteq table'.cols
                            /\ SA!Columns(a.applied) \subseteq a.existing
                            /\ SaPast(n) => SA!Columns(n.row) \subseteq a.existing
                            /\ SaAdds(n) => SA!Columns(n.row) \subseteq a.existing \cup n.new,
         p \notin raced' \cup stale' /\ a.cache # SA!NoCache =>
             /\ SaPast(n) => SA!Columns(n.row) \subseteq a.cache
             /\ SA!Columns(a.applied) \subseteq a.cache
             /\ a.cache = adapter[p].cache \/ a.existing \subseteq a.cache
  PROVE  SaInv'
<1>1. /\ \A u \in Tasks : task'[u] = IF u = t THEN n ELSE task[u]
      /\ \A q \in Procs : adapter'[q] = IF q = p THEN a ELSE adapter[q]
      /\ \A u \in Tasks : SA!P(u)' = SA!P(u) /\ SA!P(u) \in Procs
  BY DEF SaInv, SaTypes, SA!P, SaAssumptions
<1>2. SaTypes'
  <2>1. \A u \in Tasks : SaFound(task'[u]) => table'.exists
    BY <1>1 DEF SaInv, SaTypes
  <2> QED
    BY <2>1 DEF SaInv, SaTypes, SaFound
<1>3. SaKnown'
  <2> SUFFICES ASSUME NEW q \in Procs, q \notin raced'
               PROVE  /\ adapter'[q].existing \subseteq table'.cols
                      /\ SA!Columns(adapter'[q].applied) \subseteq adapter'[q].existing
                      /\ \A u \in Tasks : SA!P(u) = q =>
                           /\ SaPast(task'[u]) => SA!Columns(task'[u].row) \subseteq adapter'[q].existing
                           /\ SaAdds(task'[u]) => SA!Columns(task'[u].row) \subseteq adapter'[q].existing \cup task'[u].new
    BY <1>1 DEF SaKnown, SaPast, SaAdds, SA!Columns
  <2>1. /\ adapter[q].existing \subseteq table.cols
        /\ SA!Columns(adapter[q].applied) \subseteq adapter[q].existing
        /\ \A u \in Tasks : SA!P(u) = q =>
             /\ SaPast(task[u]) => SA!Columns(task[u].row) \subseteq adapter[q].existing
             /\ SaAdds(task[u]) => SA!Columns(task[u].row) \subseteq adapter[q].existing \cup task[u].new
    BY DEF SaInv, SaKnown
  <2>2. CASE q # p
    BY <1>1, <2>1, <2>2
  <2>3. CASE q = p
    BY <1>1, <2>1, <2>3
  <2> QED
    BY <2>2, <2>3
<1>6. \A q \in Procs : q \notin raced' \cup stale' /\ adapter'[q].cache # SA!NoCache =>
          SA!Columns(adapter'[q].applied) \subseteq adapter'[q].cache
  BY <1>1 DEF SaInv, SaCached
<1>4. SaCached'
  <2> SUFFICES ASSUME NEW q \in Procs, q \notin raced' \cup stale', adapter'[q].cache # SA!NoCache,
                      NEW u \in Tasks, SA!P(u) = q, SaPast(task'[u])
               PROVE  SA!Columns(task'[u].row) \subseteq adapter'[q].cache
    BY <1>1, <1>6 DEF SaCached, SaPast, SA!Columns, SA!NoCache
  <2>1. u # t => /\ task'[u] = task[u] /\ SaPast(task[u])
                 /\ SA!Columns(task[u].row) \subseteq adapter[q].existing
                 /\ adapter[q].cache # SA!NoCache => SA!Columns(task[u].row) \subseteq adapter[q].cache
    BY <1>1 DEF SaInv, SaKnown, SaCached
  <2>2. CASE q # p
    BY <1>1, <2>1, <2>2
  <2>3. CASE q = p
    BY <1>1, <2>1, <2>3
  <2> QED
    BY <2>2, <2>3
<1>5. SA!ViewIsTrue'
  BY <1>1, <1>3 DEF SaInv, SaKnown, SA!ViewIsTrue, SA!Columns
<1> QED
  BY <1>2, <1>3, <1>4, <1>5 DEF SaInv

\* What the invariant says of one task and its process.
LEMMA SaOf ==
  ASSUME SaInv, SaAssumptions, NEW t \in Tasks, NEW p, p = SA!P(t)
  PROVE  /\ p \in Procs /\ task[t] \in SaTasks /\ adapter[p] \in SaAdapters /\ table \in SaTables
         /\ ~table.exists => table.cols = {}
         /\ SaFound(task[t]) => table.exists
         /\ p \notin raced =>
               /\ adapter[p].existing \subseteq table.cols
               /\ SA!Columns(adapter[p].applied) \subseteq adapter[p].existing
               /\ SaPast(task[t]) => SA!Columns(task[t].row) \subseteq adapter[p].existing
               /\ SaAdds(task[t]) => SA!Columns(task[t].row) \subseteq adapter[p].existing \cup task[t].new
         /\ p \notin raced \cup stale /\ adapter[p].cache # SA!NoCache =>
               /\ SA!Columns(adapter[p].applied) \subseteq adapter[p].cache
               /\ SaPast(task[t]) => SA!Columns(task[t].row) \subseteq adapter[p].cache
  BY DEF SaInv, SaTypes, SaKnown, SaCached, SA!P, SaAssumptions

\* A step that leaves the adapter's columns, its cache and the table alone, and brings no
\* row past the schema that was not.
LEMMA SaMove ==
  ASSUME SaInv, SaAssumptions, NEW t \in Tasks, NEW n \in SaTasks, NEW p, p = SA!P(t), NEW a \in SaAdapters,
         a.existing = adapter[p].existing, a.applied = adapter[p].applied, a.cache = adapter[p].cache,
         config' = config, task' = [task EXCEPT ![t] = n], adapter' = [adapter EXCEPT ![p] = a],
         table' \in SaTables, table'.exists = table.exists, table'.cols = table.cols,
         SaFound(n) => table.exists,
         raced' = raced, stale' = stale,
         dropped' = dropped \/ (dropped' = dropped \cup {p} /\ p \in raced' \cup stale'),
         SaPast(n) => SaPast(task[t]) /\ n.row = task[t].row,
         SaAdds(n) => SaAdds(task[t]) /\ n.row = task[t].row /\ n.new = task[t].new
  PROVE  SaInv'
<1>1. /\ p \in Procs
      /\ p \notin raced => /\ a.existing \subseteq table'.cols
                           /\ SA!Columns(a.applied) \subseteq a.existing
                           /\ SaPast(n) => SA!Columns(n.row) \subseteq a.existing
                           /\ SaAdds(n) => SA!Columns(n.row) \subseteq a.existing \cup n.new
      /\ p \notin raced \cup stale /\ a.cache # SA!NoCache =>
            /\ SA!Columns(a.applied) \subseteq a.cache
            /\ SaPast(n) => SA!Columns(n.row) \subseteq a.cache
      /\ ~table'.exists => table'.cols = {}
  BY SaOf
<1> QED
  BY <1>1, SaStep

LEMMA SaEvolve == ASSUME SaInv, SaAssumptions, NEW p \in Procs, SA!Evolve(p) PROVE SaInv'
<1>1. /\ adapter' = [adapter EXCEPT ![p].schema = @ + 1]
      /\ UNCHANGED <<config, task, table, raced, stale, dropped>>
  BY DEF SA!Evolve, SA!Seen
<1>2. /\ adapter' \in [Procs -> SaAdapters]
      /\ \A q \in Procs : /\ adapter'[q].existing = adapter[q].existing /\ adapter'[q].cache = adapter[q].cache
                          /\ adapter'[q].applied = adapter[q].applied
  BY <1>1 DEF SaInv, SaTypes, SaAdapters
<1> QED
  BY <1>1, <1>2 DEF SaInv, SaTypes, SaKnown, SaCached, SA!ViewIsTrue, SA!P, SA!Columns, SaPast, SaAdds,
          SaFound

LEMMA SaWrite == ASSUME SaInv, SaAssumptions, NEW t \in Tasks, SA!Write(t) PROVE SaInv'
<1> DEFINE p == SA!P(t)
           n == [task[t] EXCEPT !.row = adapter[p].schema,
                                !.stage = IF adapter[p].applied = adapter[p].schema THEN "columns" ELSE "lock"]
<1>1. /\ task' = [task EXCEPT ![t] = n]
      /\ UNCHANGED <<config, adapter, table, raced, stale, dropped>>
      /\ task[t].stage = "idle"
  BY DEF SA!Write, SA!Seen, SA!At, SA!A
<1>2. /\ n \in SaTasks /\ n.row = adapter[p].schema
      /\ ~SaAdds(n) /\ ~SaFound(n) /\ (SaPast(n) => adapter[p].applied = n.row)
  BY SaOf DEF SaTasks, SaAdapters, SaAdds, SaPast, SaFound
<1> HIDE DEF n
<1>3. adapter' = [adapter EXCEPT ![p] = adapter[p]] /\ p \in Procs /\ adapter[p] \in SaAdapters
  BY <1>1, SaOf DEF SaInv, SaTypes
<1>4. p \notin raced /\ SaPast(n) => SA!Columns(n.row) \subseteq adapter[p].existing
  BY <1>2, SaOf
<1>5. p \notin raced \cup stale /\ adapter[p].cache # SA!NoCache /\ SaPast(n) => SA!Columns(n.row) \subseteq adapter[p].cache
  BY <1>2, SaOf
<1> QED
  BY <1>1, <1>2, <1>3, <1>4, <1>5, SaOf, SaStep

LEMMA SaLock == ASSUME SaInv, SaAssumptions, NEW t \in Tasks, SA!Lock(t) PROVE SaInv'
<1> DEFINE p == SA!P(t)
<1>1. UNCHANGED <<config, table, raced, stale, dropped>> /\ task[t].stage = "lock"
  BY DEF SA!Lock, SA!Seen, SA!At
<1>2. CASE adapter[p].applied = task[t].row
  <2> DEFINE n == [task[t] EXCEPT !.stage = "columns"]
  <2>1. task' = [task EXCEPT ![t] = n] /\ adapter' = [adapter EXCEPT ![p] = adapter[p]] /\ adapter[p] \in SaAdapters
    BY <1>2, SaOf DEF SA!Lock, SA!A, SA!Go, SaInv, SaTypes
  <2>2. /\ n \in SaTasks /\ n.row = adapter[p].applied /\ ~SaAdds(n) /\ ~SaFound(n)
    BY <1>2, SaOf DEF SaTasks, SaAdds, SaFound
  <2> HIDE DEF n
  <2>3. p \notin raced => SA!Columns(n.row) \subseteq adapter[p].existing
    BY <2>2, SaOf
  <2>4. p \notin raced \cup stale /\ adapter[p].cache # SA!NoCache => SA!Columns(n.row) \subseteq adapter[p].cache
    BY <2>2, SaOf
  <2> QED
    BY <1>1, <2>1, <2>2, <2>3, <2>4, SaOf, SaStep
<1>3. CASE adapter[p].applied # task[t].row
  <2> DEFINE n == [task[t] EXCEPT !.stage = "exists"]
             a == [adapter[p] EXCEPT !.locked = TRUE]
  <2>1. task' = [task EXCEPT ![t] = n] /\ adapter' = [adapter EXCEPT ![p] = a]
    BY <1>3 DEF SA!Lock, SA!A, SA!Go, SA!Set
  <2>2. n \in SaTasks /\ ~SaAdds(n) /\ ~SaPast(n) /\ ~SaFound(n)
    BY SaOf DEF SaTasks, SaAdds, SaPast, SaFound
  <2>3. /\ a \in SaAdapters
        /\ a.existing = adapter[p].existing /\ a.applied = adapter[p].applied /\ a.cache = adapter[p].cache
    BY SaOf DEF SaAdapters
  <2> HIDE DEF n, a
  <2> QED
    BY <1>1, <2>1, <2>2, <2>3, SaOf, SaMove
<1> QED
  BY <1>2, <1>3

LEMMA SaTableExists == ASSUME SaInv, SaAssumptions, NEW t \in Tasks, SA!TableExists(t) PROVE SaInv'
<1> DEFINE p == SA!P(t)
           n == [task[t] EXCEPT !.stage = IF table.exists THEN "load" ELSE "create"]
           a == [adapter[p] EXCEPT !.created = @ \/ table.exists]
<1>1. /\ UNCHANGED <<config, table, raced, stale, dropped>>
      /\ task' = [task EXCEPT ![t] = n] /\ adapter' = [adapter EXCEPT ![p] = a]
  BY DEF SA!TableExists, SA!Seen, SA!A, SA!Go, SA!Set
<1>2. n \in SaTasks /\ ~SaAdds(n) /\ ~SaPast(n) /\ (SaFound(n) => table.exists)
  BY SaOf DEF SaTasks, SaAdds, SaPast, SaFound
<1>3. /\ a \in SaAdapters
      /\ a.existing = adapter[p].existing /\ a.applied = adapter[p].applied /\ a.cache = adapter[p].cache
  BY SaOf DEF SaAdapters, SaTables
<1> HIDE DEF n, a
<1> QED
  BY <1>1, <1>2, <1>3, SaOf, SaMove

LEMMA SaCreate ==
  ASSUME SaInv, SaAssumptions, NEW t \in Tasks, SA!create_table_if_not_exists(t) PROVE SaInv'
<1> DEFINE p == SA!P(t)
           n == [task[t] EXCEPT !.stage = "alter"]
           cols == SA!Columns(task[t].row)
           a == [adapter[p] EXCEPT !.created = TRUE, !.existing = cols]
<1>1. /\ UNCHANGED <<config, stale, dropped>>
      /\ task' = [task EXCEPT ![t] = n] /\ adapter' = [adapter EXCEPT ![p] = a]
  BY DEF SA!create_table_if_not_exists, SA!A, SA!Go, SA!Set
<1>2. /\ n \in SaTasks /\ ~SaAdds(n) /\ ~SaPast(n) /\ cols \in SUBSET SaNames
  BY SaOf, SaColumns DEF SaTasks, SaAdds, SaPast
<1>3. /\ a \in SaAdapters /\ a.existing = cols /\ a.applied = adapter[p].applied /\ a.cache = adapter[p].cache
  BY <1>2, SaOf DEF SaAdapters
<1>4. CASE table.exists
  <2>1. raced' = raced \cup {p} /\ table' = table /\ table'.exists
    BY <1>4 DEF SA!create_table_if_not_exists
  <2> HIDE DEF n, a
  <2> QED
    BY <1>1, <1>2, <1>3, <2>1, SaOf, SaStep
<1>5. CASE ~table.exists
  <2>1. raced' = raced /\ table' = [exists |-> TRUE, cols |-> cols, rows |-> FALSE, notnull |-> cols \cap Required]
    BY <1>5 DEF SA!create_table_if_not_exists
  <2>2. table' \in SaTables /\ table'.exists /\ table'.cols = cols /\ table.cols = {}
    BY <1>2, <1>5, <2>1, SaOf DEF SaTables
  <2>3. p \notin raced => adapter[p].existing = {} /\ SA!Columns(a.applied) = {}
    BY <1>3, <2>2, SaOf
  <2> HIDE DEF n, a, cols
  <2>4. p \notin raced \cup stale /\ a.cache # SA!NoCache => SA!Columns(a.applied) \subseteq a.cache
    BY <2>3
  <2> QED
    BY <1>1, <1>2, <1>3, <2>1, <2>2, <2>3, <2>4, SaOf, SaStep
<1> QED
  BY <1>4, <1>5

LEMMA SaLoad ==
  ASSUME SaInv, SaAssumptions, NEW t \in Tasks, SA!load_existing_columns(t) PROVE SaInv'
<1> DEFINE p == SA!P(t)
           a == [adapter[p] EXCEPT !.existing = table.cols]
<1>8. table.exists
  BY SaOf DEF SA!load_existing_columns, SA!At, SaFound
<1>1. /\ UNCHANGED <<config, table, raced, stale, dropped>>
      /\ (adapter' = [adapter EXCEPT ![p] = a] \/ adapter' = [adapter EXCEPT ![p] = adapter[p]])
      /\ \E s \in {"reload", "alter"} : task' = [task EXCEPT ![t] = [task[t] EXCEPT !.stage = s]]
  <2>1. adapter' = adapter => adapter' = [adapter EXCEPT ![p] = adapter[p]]
    BY SaOf DEF SaInv, SaTypes
  <2> QED
    BY <2>1 DEF SA!load_existing_columns, SA!Seen, SA!A, SA!Go, SA!Set
<1>2. PICK s \in {"reload", "alter"} : task' = [task EXCEPT ![t] = [task[t] EXCEPT !.stage = s]]
  BY <1>1
<1> DEFINE n == [task[t] EXCEPT !.stage = s]
<1>3. n \in SaTasks /\ ~SaAdds(n) /\ ~SaPast(n) /\ task' = [task EXCEPT ![t] = n]
  BY <1>2, SaOf DEF SaTasks, SaAdds, SaPast
<1>4. /\ a \in SaAdapters /\ a.existing = table.cols
      /\ a.applied = adapter[p].applied /\ a.cache = adapter[p].cache
  BY SaOf DEF SaAdapters, SaTables
<1> HIDE DEF n, a
<1>5. p \notin raced => adapter[p].existing \subseteq table.cols /\ SA!Columns(a.applied) \subseteq table.cols
  BY <1>4, SaOf
<1>6. CASE adapter' = [adapter EXCEPT ![p] = a]
  <2>1. p \notin raced \cup stale /\ a.cache # SA!NoCache => SA!Columns(a.applied) \subseteq a.cache
    BY <1>4, SaOf
  <2> QED
    BY <1>1, <1>3, <1>4, <1>5, <1>6, <1>8, <2>1, SaOf, SaStep
<1>7. CASE adapter' = [adapter EXCEPT ![p] = adapter[p]]
  BY <1>1, <1>3, <1>7, <1>8, SaOf, SaMove
<1> QED
  BY <1>1, <1>6, <1>7

LEMMA SaApplied ==
  ASSUME SaInv, SaAssumptions, NEW t \in Tasks
  PROVE  /\ SA!Applied(t) \in SaAdapters /\ SA!Applied(t).applied = task[t].row
         /\ SA!Applied(t).cache = SA!NoCache /\ SA!Applied(t).existing = adapter[SA!P(t)].existing
<1>1. task[t].row \in Nat /\ adapter[SA!P(t)] \in SaAdapters
  BY SaOf DEF SaTasks
<1> QED
  BY <1>1, SaNoCache DEF SaAdapters, SA!Applied, SA!A

LEMMA SaAlter ==
  ASSUME SaInv, SaAssumptions, NEW t \in Tasks, SA!alter_table_add_columns(t) PROVE SaInv'
<1> DEFINE p == SA!P(t)
           cols == SA!Columns(task[t].row)
           new == cols \ adapter[p].existing
<1>1. UNCHANGED <<config, table, raced, stale, dropped>> /\ table.exists
  BY SaOf DEF SA!alter_table_add_columns, SA!Seen, SA!At, SaFound
<1>2. cols \in SUBSET Nat
  BY SaOf, SaColumns DEF SaTasks
<1>3. CASE new = {}
  <2> DEFINE n == [task[t] EXCEPT !.stage = "columns"]
             a == SA!Applied(t)
  <2>1. task' = [task EXCEPT ![t] = n] /\ adapter' = [adapter EXCEPT ![p] = a]
    BY <1>3 DEF SA!alter_table_add_columns, SA!A, SA!Go, SA!Set
  <2>2. /\ n \in SaTasks /\ ~SaAdds(n) /\ n.row = task[t].row
    BY SaOf DEF SaTasks, SaAdds
  <2>3. /\ a \in SaAdapters /\ a.applied = task[t].row /\ a.cache = SA!NoCache
        /\ a.existing = adapter[p].existing
    BY SaApplied
  <2> HIDE DEF n, a
  <2>4. SA!Columns(n.row) \subseteq a.existing /\ SA!Columns(a.applied) \subseteq a.existing
    BY <1>3, <2>2, <2>3
  <2> QED
    BY <1>1, <2>1, <2>2, <2>3, <2>4, SaOf, SaStep
<1>4. CASE new # {}
  <2> DEFINE n == [task[t] EXCEPT !.new = new, !.stage = "rows"]
  <2>1. task' = [task EXCEPT ![t] = n] /\ adapter' = [adapter EXCEPT ![p] = adapter[p]]
    BY <1>4, SaOf DEF SA!alter_table_add_columns, SA!A, SaInv, SaTypes
  <2>2. /\ n \in SaTasks /\ ~SaPast(n) /\ n.row = task[t].row /\ n.new = new
    BY <1>2, SaOf DEF SaTasks, SaPast
  <2> HIDE DEF n
  <2>3. SA!Columns(n.row) \subseteq adapter[p].existing \cup n.new
    BY <2>2
  <2> QED
    BY <1>1, <2>1, <2>2, <2>3, SaOf, SaStep
<1> QED
  BY <1>3, <1>4

LEMMA SaRows == ASSUME SaInv, SaAssumptions, NEW t \in Tasks, SA!table_has_rows(t) PROVE SaInv'
<1> DEFINE p == SA!P(t)
           n == [task[t] EXCEPT !.rows = table.rows, !.stage = "add"]
<1>1. /\ UNCHANGED <<config, table, raced, stale, dropped>> /\ task[t].stage = "rows"
      /\ task' = [task EXCEPT ![t] = n] /\ adapter' = [adapter EXCEPT ![p] = adapter[p]]
  BY SaOf DEF SA!table_has_rows, SA!Seen, SA!At, SaInv, SaTypes
<1>2. n \in SaTasks /\ ~SaPast(n) /\ n.row = task[t].row /\ n.new = task[t].new
  BY SaOf DEF SaTasks, SaPast, SaTables
<1>3. SaAdds(task[t]) /\ table.exists
  BY <1>1, SaOf DEF SaAdds, SaFound
<1> HIDE DEF n
<1> QED
  BY <1>1, <1>2, <1>3, SaOf, SaMove

LEMMA SaAddColumn == ASSUME SaInv, SaAssumptions, NEW t \in Tasks, SA!AddColumn(t) PROVE SaInv'
<1> DEFINE p == SA!P(t)
           c == SA!Next1(task[t].new)
           rejects == c \notin table.cols /\ (c \in Required /\ ~task[t].rows) /\ table.rows
<1>1. UNCHANGED <<config, raced, stale, dropped>> /\ task[t].stage = "add" /\ SaAdds(task[t]) /\ table.exists
  BY SaOf DEF SA!AddColumn, SA!Seen, SA!At, SaAdds, SaFound
<1>2. CASE rejects
  <2> DEFINE a == [adapter[p] EXCEPT !.locked = FALSE]
  <2>1. task' = [task EXCEPT ![t] = SA!Idle] /\ adapter' = [adapter EXCEPT ![p] = a] /\ table' = table
    BY <1>2 DEF SA!AddColumn, SA!A, SA!Set
  <2>2. SA!Idle \in SaTasks /\ ~SaAdds(SA!Idle) /\ ~SaPast(SA!Idle) /\ ~SaFound(SA!Idle)
    BY DEF SaTasks, SaAdds, SaPast, SaFound, SA!Idle
  <2>3. /\ a \in SaAdapters /\ a.existing = adapter[p].existing
        /\ a.applied = adapter[p].applied /\ a.cache = adapter[p].cache
    BY SaOf DEF SaAdapters
  <2> HIDE DEF a
  <2> QED
    BY <1>1, <2>1, <2>2, <2>3, SaOf, SaMove
<1>3. CASE ~rejects
  <2>1. table' = IF c \in table.cols THEN table
                 ELSE [table EXCEPT !.cols = @ \cup {c},
                                    !.notnull = IF c \in Required /\ ~task[t].rows THEN @ \cup {c} ELSE @]
    BY <1>3 DEF SA!AddColumn
  <2>2. task[t].new \in SUBSET Nat /\ c \in SaNames /\ table \in SaTables
    BY SaOf DEF SaTasks, SaNames
  <2>3. /\ table' \in SaTables /\ table'.exists = table.exists
        /\ table'.cols = table.cols \cup {c}
    BY <2>1, <2>2 DEF SaTables
  <2>4. p \notin raced => /\ adapter[p].existing \subseteq table'.cols
                          /\ SA!Columns(task[t].row) \subseteq adapter[p].existing \cup task[t].new
    BY <1>1, <2>3, SaOf
  <2>5. CASE task[t].new = {c}
    <3> DEFINE n == [task[t] EXCEPT !.stage = "columns"]
               b == SA!Applied(t)
               a == [b EXCEPT !.existing = @ \cup {c}]
    <3>1. task' = [task EXCEPT ![t] = n] /\ adapter' = [adapter EXCEPT ![p] = a]
      BY <1>3, <2>5 DEF SA!AddColumn, SA!A, SA!Go, SA!Set
    <3>2. n \in SaTasks /\ ~SaAdds(n) /\ ~SaFound(n) /\ n.row = task[t].row
      BY SaOf DEF SaTasks, SaAdds, SaFound
    <3>3. /\ b \in SaAdapters /\ b.applied = task[t].row /\ b.cache = SA!NoCache
          /\ b.existing = adapter[p].existing
      BY SaApplied
    <3> HIDE DEF n, b
    <3>4. /\ a \in SaAdapters /\ a.applied = task[t].row /\ a.cache = SA!NoCache
          /\ a.existing = adapter[p].existing \cup {c}
      BY <2>2, <3>3 DEF SaAdapters
    <3> HIDE DEF a
    <3>5. p \notin raced => /\ SA!Columns(n.row) \subseteq a.existing /\ SA!Columns(a.applied) \subseteq a.existing
                            /\ a.existing \subseteq table'.cols
      BY <2>3, <2>4, <2>5, <3>2, <3>4
    <3> QED
      BY <1>1, <2>3, <3>1, <3>2, <3>4, <3>5, SaOf, SaStep
  <2>6. CASE task[t].new # {c}
    <3> DEFINE n == [task[t] EXCEPT !.new = @ \ {c}]
               a == [adapter[p] EXCEPT !.existing = @ \cup {c}]
    <3>1. task' = [task EXCEPT ![t] = n] /\ adapter' = [adapter EXCEPT ![p] = a]
      BY <1>3, <2>6 DEF SA!AddColumn, SA!A, SA!Set
    <3>2. n \in SaTasks /\ ~SaPast(n) /\ n.row = task[t].row /\ n.new = task[t].new \ {c}
      BY <1>1, SaOf DEF SaTasks, SaPast
    <3>3. /\ a \in SaAdapters /\ a.applied = adapter[p].applied /\ a.cache = adapter[p].cache
          /\ a.existing = adapter[p].existing \cup {c}
      BY <2>2, SaOf DEF SaAdapters
    <3> HIDE DEF n, a
    <3>4. p \notin raced => /\ SA!Columns(n.row) \subseteq a.existing \cup n.new
                            /\ SA!Columns(a.applied) \subseteq a.existing
                            /\ a.existing \subseteq table'.cols
      BY <2>3, <2>4, <3>2, <3>3, SaOf
    <3>5. p \notin raced \cup stale /\ a.cache # SA!NoCache => SA!Columns(a.applied) \subseteq a.cache
      BY <3>3, SaOf
    <3> QED
      BY <1>1, <2>3, <3>1, <3>2, <3>3, <3>4, <3>5, SaOf, SaStep
  <2> QED
    BY <2>5, <2>6
<1> QED
  BY <1>2, <1>3

LEMMA SaTargets ==
  ASSUME SaInv, SaAssumptions, NEW t \in Tasks, SA!load_target_columns(t) PROVE SaInv'
<1> DEFINE p == SA!P(t)
<1>1. /\ UNCHANGED <<config, table, raced, stale, dropped>> /\ task[t].stage = "columns"
      /\ adapter' = [adapter EXCEPT ![p] = adapter[p]]
  BY SaOf DEF SA!load_target_columns, SA!Seen, SA!At, SaInv, SaTypes
<1>2. SaPast(task[t])
  BY <1>1 DEF SaPast
<1>3. \/ task' = [task EXCEPT ![t] = [task[t] EXCEPT !.read = table.cols, !.stage = "answer"]]
      \/ task' = [task EXCEPT ![t] = [task[t] EXCEPT !.stage = "insert"]]
  BY DEF SA!load_target_columns, SA!Go
<1>4. CASE task' = [task EXCEPT ![t] = [task[t] EXCEPT !.read = table.cols, !.stage = "answer"]]
  <2> DEFINE n == [task[t] EXCEPT !.read = table.cols, !.stage = "answer"]
  <2>1. n \in SaTasks /\ ~SaAdds(n) /\ ~SaFound(n) /\ n.row = task[t].row
    BY SaOf DEF SaTasks, SaTables, SaAdds, SaFound
  <2> HIDE DEF n
  <2> QED
    BY <1>1, <1>2, <1>4, <2>1, SaOf, SaMove DEF n
<1>5. CASE task' = [task EXCEPT ![t] = [task[t] EXCEPT !.stage = "insert"]]
  <2> DEFINE n == [task[t] EXCEPT !.stage = "insert"]
  <2>1. n \in SaTasks /\ ~SaAdds(n) /\ ~SaFound(n) /\ n.row = task[t].row
    BY SaOf DEF SaTasks, SaAdds, SaFound
  <2>2. task' = [task EXCEPT ![t] = n]
    BY <1>5
  <2> HIDE DEF n
  <2> QED
    BY <1>1, <1>2, <2>2, <2>1, SaOf, SaMove
<1> QED
  BY <1>3, <1>4, <1>5

LEMMA SaTargetColumns ==
  ASSUME SaInv, SaAssumptions, NEW t \in Tasks, SA!TargetColumns(t) PROVE SaInv'
<1> DEFINE p == SA!P(t)
           n == [task[t] EXCEPT !.stage = "insert"]
           a == [adapter[p] EXCEPT !.cache = task[t].read]
<1>1. /\ UNCHANGED <<config, table, raced, dropped>> /\ task[t].stage = "answer"
      /\ task' = [task EXCEPT ![t] = n] /\ adapter' = [adapter EXCEPT ![p] = a]
      /\ stale' = IF adapter[p].existing \subseteq task[t].read THEN stale ELSE stale \cup {p}
  BY DEF SA!TargetColumns, SA!At, SA!Go, SA!Set, SA!A
<1>2. /\ n \in SaTasks /\ ~SaAdds(n) /\ ~SaFound(n) /\ n.row = task[t].row
      /\ SaPast(task[t])
  BY <1>1, SaOf DEF SaTasks, SaAdds, SaFound, SaPast
<1>3. /\ a \in SaAdapters /\ a.existing = adapter[p].existing /\ a.applied = adapter[p].applied
      /\ a.cache = task[t].read
  BY SaOf DEF SaAdapters, SaTasks
<1> HIDE DEF n, a
<1>4. p \notin raced => /\ SA!Columns(n.row) \subseteq a.existing
                        /\ SA!Columns(a.applied) \subseteq a.existing
  BY <1>2, <1>3, SaOf
<1>5. stale \subseteq stale' /\ (p \notin stale' => a.existing \subseteq a.cache)
  BY <1>1, <1>3
<1>6. p \notin raced \cup stale' => /\ SA!Columns(n.row) \subseteq a.cache
                                    /\ SA!Columns(a.applied) \subseteq a.cache
                                    /\ a.existing \subseteq a.cache
  BY <1>4, <1>5
<1> QED
  BY <1>1, <1>2, <1>3, <1>4, <1>5, <1>6, SaOf, SaStep

LEMMA SaIdle == SA!Idle \in SaTasks /\ ~SaAdds(SA!Idle) /\ ~SaPast(SA!Idle) /\ ~SaFound(SA!Idle)
  BY DEF SaTasks, SaAdds, SaPast, SaFound, SA!Idle

LEMMA SaInsert == ASSUME SaInv, SaAssumptions, NEW t \in Tasks, SA!Insert(t) PROVE SaInv'
<1> DEFINE p == SA!P(t)
           cols == SA!normalize_row_to_target(task[t].row, adapter[p])
<1>1. /\ UNCHANGED <<config, raced, stale>> /\ task[t].stage = "insert"
      /\ task' = [task EXCEPT ![t] = SA!Idle] /\ adapter' = [adapter EXCEPT ![p] = adapter[p]]
      /\ \/ table' = table /\ dropped' = dropped
         \/ /\ table' = [table EXCEPT !.rows = TRUE]
            /\ dropped' = IF cols = SA!Columns(task[t].row) THEN dropped ELSE dropped \cup {p}
  BY SaOf DEF SA!Insert, SA!At, SA!A, SaInv, SaTypes
<1>2. SaPast(task[t]) /\ table \in SaTables
  BY <1>1, SaOf DEF SaPast
<1>3. cols # SA!Columns(task[t].row) => p \in raced \cup stale
  BY <1>2, SaOf DEF SA!normalize_row_to_target
<1>4. table' \in SaTables /\ table'.exists = table.exists /\ table'.cols = table.cols
  BY <1>1, <1>2 DEF SaTables
<1> HIDE DEF cols
<1>5. dropped' = dropped \/ (dropped' = dropped \cup {p} /\ p \in raced' \cup stale')
  BY <1>1, <1>3
<1> QED
  BY <1>1, <1>4, <1>5, SaIdle, SaOf, SaMove

LEMMA SaFails == ASSUME SaInv, SaAssumptions, NEW t \in Tasks, SA!Fails(t) PROVE SaInv'
<1> DEFINE p == SA!P(t)
           a == [adapter[p] EXCEPT !.locked = IF task[t].stage \in {"columns", "insert"} THEN @ ELSE FALSE]
<1>1. /\ UNCHANGED <<config, table, raced, stale, dropped>>
      /\ task' = [task EXCEPT ![t] = SA!Idle] /\ adapter' = [adapter EXCEPT ![p] = a]
  BY DEF SA!Fails, SA!Seen, SA!A, SA!Set
<1>2. /\ a \in SaAdapters /\ a.existing = adapter[p].existing
      /\ a.applied = adapter[p].applied /\ a.cache = adapter[p].cache
  BY SaOf DEF SaAdapters
<1> HIDE DEF a
<1> QED
  BY <1>1, <1>2, SaIdle, SaOf, SaMove

LEMMA SaNextInv == ASSUME SaInv, SaAssumptions, [SA!Next]_SA!vars PROVE SaInv'
<1>1. CASE UNCHANGED SA!vars
  BY <1>1 DEF SA!vars, SaInv, SaTypes, SaKnown, SaCached, SA!ViewIsTrue, SA!P, SA!Columns, SaPast, SaAdds,
          SaFound
<1>2. ASSUME NEW p \in Procs, SA!Evolve(p) PROVE SaInv'
  BY <1>2, SaEvolve
<1>3. ASSUME NEW t \in Tasks,
             \/ SA!Write(t) \/ SA!Lock(t) \/ SA!TableExists(t) \/ SA!create_table_if_not_exists(t)
             \/ SA!load_existing_columns(t) \/ SA!alter_table_add_columns(t)
      PROVE  SaInv'
  BY <1>3, SaWrite, SaLock, SaTableExists, SaCreate, SaLoad, SaAlter
<1>4. ASSUME NEW t \in Tasks,
             \/ SA!table_has_rows(t) \/ SA!AddColumn(t) \/ SA!load_target_columns(t)
             \/ SA!TargetColumns(t) \/ SA!Insert(t) \/ SA!Fails(t)
      PROVE  SaInv'
  BY <1>4, SaRows, SaAddColumn, SaTargets, SaTargetColumns, SaInsert, SaFails
<1> QED
  BY <1>1, <1>2, <1>3, <1>4 DEF SA!Next

\* A process that has applied a schema finds its columns in the table and stores rows
\* whole, unless its CREATE found another one's table or it cached columns that were read
\* before its adapter added one.
THEOREM AdapterViewIsTrue == ASSUME SaAssumptions PROVE SA!Spec => []SA!ViewIsTrue
<1>1. SA!Init => SaInv
  BY SaInitInv
<1>2. SaInv /\ [SA!Next]_SA!vars => SaInv'
  BY SaNextInv
<1>3. SaInv => SA!ViewIsTrue
  BY DEF SaInv
<1> QED
  BY <1>1, <1>2, <1>3, PTL DEF SA!Spec
=============================================================================
