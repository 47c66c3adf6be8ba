--------------------------- MODULE MCRollbackManager ---------------------------
(* Instances of RollbackManager for TLC.                                      *)
EXTENDS RollbackManager, TLC

Symmetry == Permutations(Rollback)
=============================================================================
