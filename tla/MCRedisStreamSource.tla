------------------------ MODULE MCRedisStreamSource ------------------------
(* Small instances of RedisStreamSource for TLC. *)
EXTENDS RedisStreamSource, TLC

CONSTANTS c1, c2

ConsumerSymmetry == Permutations(Consumers)


PoisonSecond == {2}
NoPoison == {}

\* Acks, reclaim and checkpoints on: one consumer of two entries, of which the
\* second is poison, and two consumers that contend for one entry.
Alone == [members : {{c1}, {c2}}, entries : {2}, ack : {TRUE}, reclaim : {TRUE},
          limit : {1}, decode : {TRUE}, drop : BOOLEAN, checkpoint : {TRUE}]
Shared == [members : {{c1, c2}}, entries : {1}, ack : {TRUE}, reclaim : {TRUE},
           limit : {1}, decode : {TRUE}, drop : {TRUE}, checkpoint : {TRUE}]
Durable == Alone \cup Shared

\* Reclaim with and without acks and the limit on consecutive claims.
Reclaiming == [members : {{c1}}, entries : {2}, ack : BOOLEAN, reclaim : {TRUE},
               limit : {0, 1}, decode : {TRUE}, drop : {FALSE}, checkpoint : {FALSE}]
=============================================================================
