--------------------------- MODULE MCPackageManager ---------------------------
(* Instances of PackageManager for TLC.                                      *)
EXTENDS PackageManager

TwoOfCertbot ==
  [c \in Component |-> IF c = "certbot" THEN {"certbot", "python3-certbot-nginx"}
                       ELSE {c}]

Databases == {<<"mysql", "mariadb">>, <<"mariadb", "mysql">>}

\* The stacks and installs of nginx, certbot and the two databases.
FewAsks ==
  {[list |-> <<"mysql", "certbot">>, start |-> TRUE],
   [list |-> <<"mysql", "mariadb", "mysql">>, start |-> TRUE],
   [list |-> <<"mariadb">>, start |-> TRUE],
   [list |-> <<"mariadb">>, start |-> FALSE]}
=============================================================================
