---------------------------- MODULE MCPostgresSink ----------------------------
(* Small instances of PostgresSink for TLC. *)
EXTENDS PostgresSink

CONSTANTS w1, w2, w3

\* One caller, with one connection, under every policy.
Alone == [callers : {{w1}}, methods : {Methods}, batch_size : {1, 2}, pool_size : {1}, align : BOOLEAN,
          copy : BOOLEAN, poison_sink : BOOLEAN, health_check : {TRUE}, timeout : {TRUE}]

\* Three callers that share a pool of two.
Crowd == [callers : {{w1, w2, w3}}, methods : {{"deliver"}}, batch_size : {2}, pool_size : {2}, align : {FALSE},
          copy : {FALSE}, poison_sink : {FALSE}, health_check : {TRUE}, timeout : {TRUE}]

Both == Alone \cup Crowd
RejectedSecond == {2}
MisfitThird == {3}
=============================================================================
