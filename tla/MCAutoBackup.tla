----------------------------- MODULE MCAutoBackup -----------------------------
(* Instances of AutoBackup for TLC.                                          *)
EXTENDS AutoBackup

Databases == <<"app", "shop">>
=============================================================================
