----------------------------- MODULE MCPooling -----------------------------
(* TLC instances of Pooling: servers and request slots are interchangeable. *)
EXTENDS Pooling, TLC

PoolingSymmetry == Permutations(Servers) \cup Permutations(Slots)
=============================================================================
