----------------------------- MODULE MCRedlock -----------------------------
(* A small instance of Redlock: the workers are alike, and so are the nodes. *)
EXTENDS Redlock, TLC

CONSTANTS v, w, n1, n2, n3

Symmetry == Permutations(Workers) \cup Permutations(Nodes)
=============================================================================
