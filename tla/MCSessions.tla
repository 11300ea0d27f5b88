----------------------------- MODULE MCSessions -----------------------------
(* TLC instances of Sessions: request slots, tokens and ids are interchangeable. *)
EXTENDS Sessions, TLC

SessionSymmetry == Permutations(Reqs) \cup Permutations(Tokens) \cup Permutations(Users)
=============================================================================
