--------------------------- MODULE MCKafkaSource ---------------------------
(* Small instances of KafkaSource. *)
EXTENDS KafkaSource

CONSTANTS a, b

NoPoison == [p \in Parts |-> {}]
PoisonSecond == [p \in Parts |-> IF p = a THEN {1} ELSE {}]

\* Two or three records in a, one in b.
Two == [p \in Parts |-> IF p = a THEN 2 ELSE 1]
Three == [p \in Parts |-> IF p = a THEN 3 ELSE 1]

\* The default configuration on one partition, without operator calls.
Plain == [parts |-> {a}, before |-> NoOffsets, policy |-> "fail_closed", batch |-> FALSE, transactional |-> FALSE,
          auto |-> FALSE, calls |-> {}]

\* The checkpoint names b, of which this member may not be assigned.
Resuming == [Plain EXCEPT !.parts = {a, b}, !.before = [NoOffsets EXCEPT ![b] = 0],
                          !.policy = "log_and_continue"]

CommitNowOnly == {[Plain EXCEPT !.calls = {"commit_now"}]}

\* Every way a poison record and an acknowledgement can go, and operator seeks and commits.
AllConfigs ==
    {Plain,
     [Plain EXCEPT !.policy = "dlq_and_fail_closed", !.batch = TRUE],
     [Plain EXCEPT !.policy = "log_and_continue", !.batch = TRUE],
     [Plain EXCEPT !.policy = "dlq_and_continue", !.transactional = TRUE],
     [Plain EXCEPT !.calls = {"seek"}],
     [Plain EXCEPT !.calls = {"commit_tracked"}],
     [Plain EXCEPT !.auto = TRUE],
     Resuming}

\* The configuration in which the positioning probe breaks BrokerCommitsGated.
ResumingOnly == {Resuming}
=============================================================================
