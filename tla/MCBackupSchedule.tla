-------------------------- MODULE MCBackupSchedule --------------------------
(* TLC instances of BackupSchedule. *)
EXTENDS BackupSchedule

CreationDays == {0, 1}
=============================================================================
