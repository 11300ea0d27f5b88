----------------------------- MODULE MCPlatform -----------------------------
(* TLC instance of Platform. *)
EXTENDS Platform
=============================================================================
