----------------------------- MODULE MCBackups -----------------------------
(* TLC instances of Backups. *)
EXTENDS Backups
=============================================================================
