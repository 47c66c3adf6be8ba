--------------------------- MODULE MCCommandRunner ---------------------------
(* Instances of CommandRunner for TLC.                                      *)
EXTENDS CommandRunner

\* One accepted request with and one without a stdin, and one refused.
FewRequests ==
  {[policy |-> "status", args |-> <<"sub">>, stdin |-> FALSE],
   [policy |-> "dump", args |-> <<"plain">>, stdin |-> TRUE],
   [policy |-> "status", args |-> <<"plain">>, stdin |-> FALSE]}
=============================================================================
