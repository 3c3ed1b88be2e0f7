-------------------------- MODULE MCBackupRestore --------------------------
(* Small instances of BackupRestore for TLC.                              *)
EXTENDS BackupRestore
============================================================================
