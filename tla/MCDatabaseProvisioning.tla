------------------------ MODULE MCDatabaseProvisioning ------------------------
(* Instances of DatabaseProvisioning for TLC.                               *)
EXTENDS DatabaseProvisioning, TLC

CONSTANTS d1, d2, a1, a2

Body(kind, name, account, faults) ==
  [kind |-> kind, name |-> name, account |-> account, faults |-> faults]

\* Provisions that share a name or an account, one whose account and one
\* whose privileges are refused late, and single statements on the same
\* objects.
Bodies ==
  {Body("provision", d1, a1, {}), Body("provision", d2, a1, {}),
   Body("provision", d1, a2, {"account"}),
   Body("provision", d2, a2, {"privileges"}),
   Body("database", d1, a1, {}), Body("database", d1, a1, {"name"}),
   Body("user", d1, a1, {}), Body("grant", d1, a1, {}),
   Body("grant", d2, a2, {})}

Symmetry == Permutations(Req)
=============================================================================
