------------------------------ MODULE MCBackup ------------------------------
(* Small instances of the backup worker.                                   *)
EXTENDS Backup
=============================================================================
