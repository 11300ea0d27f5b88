-------------------------- MODULE MCServerLifecycle --------------------------
(* TLC instances of ServerLifecycle. *)
EXTENDS ServerLifecycle
=============================================================================
