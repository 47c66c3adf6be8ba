----------------------------- MODULE MCNginxHost -----------------------------
(* Instances of NginxHost for TLC.                                          *)
EXTENDS NginxHost, TLC

CONSTANTS s1, v0, v1, c1

Sizes     == [v \in Vhost |-> IF v = v1 THEN 1 ELSE 2]
Originals == [s \in Site |-> IF s = s1 THEN v0 ELSE None]
Symmetry  == Permutations(Req)
Asked     == [r \in Cmd |-> IF r = c1 THEN {"issue", "restart"}
                            ELSE {"reload", "restart"}]
=============================================================================
