---------------------------- MODULE KafkaOperator ----------------------------
(* Pausing and resuming the partitions of a Kafka source: what the operator asked  *)
(* for, what the controller remembers of it, and what the consumer does, across      *)
(* rebalances, polls and sessions.                                              *)
(* kafka/sources/_operator_controls.py, _operator_api.py, _consumer_runtime.py   *)
EXTENDS Naturals, FiniteSets

CONSTANTS
    Parts,      \* partitions (numbers: calls handle them in this order)
    MaxEvents,  \* bound: calls of the operator, rebalances and sessions
    Configs     \* [manual]: partitions are assigned by the caller, not by the group

VARIABLES
    config, events,
    call,       \* the source: closed, open, streaming
    assigned,   \* consumer.assignment()
    held,       \* partitions the consumer does not fetch
    rejoining,  \* the group rebalances: revoked, and not yet assigned again
    active, paused, pause_all,  \* _active_assignment, _paused_partitions, _pause_all_requested
    fetched,    \* partitions of a poll whose records the stream has not looked at yet
    left,       \* history: partitions that a resume() of everything has left paused
    refused     \* history: the consumer refused a pause

vars == <<config, events, call, assigned, held, rejoining, active, paused, pause_all, fetched,
          left, refused>>

Init ==
    /\ config \in Configs
    /\ events = 0 /\ call = "closed"
    /\ assigned = {} /\ held = {} /\ rejoining = FALSE
    /\ active = IF config.manual THEN Parts ELSE {}
    /\ paused = {} /\ pause_all = FALSE
    /\ fetched = {} /\ left = {} /\ refused = FALSE

-----------------------------------------------------------------------------
(* The consumer. It handles partitions in their order and raises at the first that  *)
(* is not assigned.                                                          *)

Handled(targets) == {p \in targets : \A q \in targets \ assigned : p < q}

\* assignment() while there is a consumer.
sync_assignment_from_consumer == IF call = "closed" THEN active ELSE assigned

\* Partitions that a call names have to be assigned.
validate_assigned_partitions(named) == named \subseteq sync_assignment_from_consumer

\* Partitions that apply_pause_state gives to the consumer; requested is {} when the
\* caller names none.
PauseTargets(now, set, all, requested) ==
    LET wanted == IF all THEN now ELSE set
    IN  IF requested = {} THEN wanted ELSE wanted \cap requested

-----------------------------------------------------------------------------
(* The operator.                                                             *)

Event == events < MaxEvents /\ events' = events + 1

pause(named) ==
    LET now == sync_assignment_from_consumer
        all == pause_all \/ named = {}
        targets == IF named = {} THEN now ELSE named
        set == paused \cup targets
        asked == PauseTargets(now, set, all, targets)
    IN  /\ Event /\ validate_assigned_partitions(named)
        /\ active' = now /\ pause_all' = all /\ paused' = set
        /\ IF call = "closed" THEN UNCHANGED <<held, refused>>
           ELSE /\ held' = held \cup Handled(asked)
                /\ refused' = (refused \/ ~(asked \subseteq assigned))
        /\ left' = left \ asked
        /\ UNCHANGED <<config, call, assigned, rejoining, fetched>>

\* What a resume() of everything tells the consumer.
ResumeAll(now) == IF paused # {} THEN paused ELSE now

resume(named) ==
    LET now == sync_assignment_from_consumer
        targets == IF named = {} THEN ResumeAll(now) ELSE named
        freed == IF call = "closed" THEN {} ELSE Handled(targets)
    IN  /\ Event /\ validate_assigned_partitions(named)
        /\ active' = now /\ pause_all' = FALSE
        /\ paused' = IF named = {} THEN {}
                     ELSE (IF pause_all THEN now ELSE paused) \ named
        /\ held' = held \ freed
        /\ left' = (IF named = {} THEN held ELSE left) \ freed
        /\ UNCHANGED <<config, call, assigned, rejoining, fetched, refused>>

-----------------------------------------------------------------------------
(* The source.                                                               *)

Open ==
    /\ Event /\ call = "closed" /\ call' = "open"
    /\ assigned' = IF config.manual THEN Parts ELSE {}
    /\ UNCHANGED <<config, held, rejoining, active, paused, pause_all, fetched, left, refused>>

\* A stream begins with the assignment and pauses what was paused before.
bootstrap_consumer_state ==
    LET targets == PauseTargets(assigned, paused, pause_all, {})
    IN  /\ call = "open" /\ ~rejoining
        /\ active' = assigned /\ held' = held \cup Handled(targets)
        /\ IF targets \subseteq assigned THEN call' = "streaming" /\ UNCHANGED refused
           ELSE UNCHANGED call /\ refused' = TRUE
        /\ UNCHANGED <<config, events, assigned, rejoining, paused, pause_all, fetched, left>>

handle_partitions_revoked ==
    /\ Event /\ call # "closed" /\ ~config.manual /\ ~rejoining
    /\ rejoining' = TRUE
    /\ paused' = paused \ assigned /\ active' = active \ assigned
    /\ UNCHANGED <<config, call, assigned, held, pause_all, fetched, left, refused>>

\* A new assignment fetches everything until the callback has paused again.
handle_partitions_assigned ==
    /\ rejoining /\ rejoining' = FALSE
    /\ \E new \in SUBSET Parts :
          /\ assigned' = new /\ active' = new
          /\ held' = IF new = {} THEN {} ELSE PauseTargets(new, paused, pause_all, new)
    /\ left' = {}
    /\ UNCHANGED <<config, events, call, paused, pause_all, fetched, refused>>

Poll ==
    /\ call = "streaming" /\ fetched = {}
    /\ fetched' \in SUBSET (assigned \ held) \ {{}}
    /\ UNCHANGED <<config, events, call, assigned, held, rejoining, active, paused, pause_all,
                   left, refused>>

\* The stream takes the partitions of a poll for the assignment.
sync_active_assignment ==
    /\ fetched # {} /\ fetched' = {} /\ active' = fetched
    /\ UNCHANGED <<config, events, call, assigned, held, rejoining, paused, pause_all, left, refused>>

Close ==
    /\ call # "closed" /\ call' = "closed"
    /\ assigned' = {} /\ held' = {} /\ rejoining' = FALSE /\ active' = {} /\ fetched' = {}
    /\ left' = {} /\ refused' = FALSE
    /\ UNCHANGED <<config, events, paused, pause_all>>

Next ==
    \/ \E named \in SUBSET Parts : pause(named) \/ resume(named)
    \/ Open \/ bootstrap_consumer_state \/ handle_partitions_revoked \/ handle_partitions_assigned
    \/ Poll \/ sync_active_assignment \/ Close

Spec == Init /\ [][Next]_vars

-----------------------------------------------------------------------------
(* Properties.                                                               *)

paused_partition_count == IF pause_all THEN Cardinality(active) ELSE Cardinality(paused)

\* In a stream the consumer holds back exactly the partitions that the controller has as
\* paused, whatever was paused, resumed, revoked and assigned in which order; the one
\* exception is a resume() of everything that named only some of the partitions held, or
\* one that the consumer refused halfway.
ViewIsTrue ==
    call = "streaming" /\ ~rejoining /\ ~refused =>
        held \ left = (IF pause_all THEN assigned ELSE paused \cap assigned)

\* The number of paused partitions that the source reports is the number the consumer
\* holds, while both know the same assignment.
ReportIsTrue ==
    /\ call = "streaming" /\ ~rejoining /\ ~refused /\ left = {}
    /\ active = assigned /\ paused \subseteq assigned
    => paused_partition_count = Cardinality(held)
=============================================================================
