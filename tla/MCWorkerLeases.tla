-------------------------- MODULE MCWorkerLeases --------------------------
(* WorkerLeases on small instances. *)
EXTENDS WorkerLeases, TLC

CONSTANTS w1, w2, p1, p2

OneWorker == {w1}
TwoWorkers == {w1, w2}
OnePipeline == {p1}
TwoPipelines == {p1, p2}

WorkerSymmetry == Permutations(Workers)
=============================================================================
