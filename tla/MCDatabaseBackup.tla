--------------------------- MODULE MCDatabaseBackup ---------------------------
(* Instances of DatabaseBackup for TLC.                                      *)
EXTENDS DatabaseBackup, TLC

Symmetry == Permutations(BackupReq) \cup Permutations(RestoreReq)
=============================================================================
