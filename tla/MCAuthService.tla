---------------------------- MODULE MCAuthService ----------------------------
(* Instances of AuthService for TLC.                                        *)
EXTENDS SecondFactor, Authorization, TLC

CONSTANTS u1, u2

\* u1 is an ordinary administrator, u2 is seeded disabled.
OneDisabled == u1 :> "active" @@ u2 :> "disabled"

\* u1 may do all there is to do with files, and asks to read one.
Grants  == u1 :> {PermissionKey("file", "manage")} @@ u2 :> DefaultPermissionKeys
Granted == {u \in User :
              HasGrantedPermission(Grants[u], PermissionKey("file", "read"))}

\* Two of the counters have the same digits.
SomeTokens == [c \in 0..7 |-> IF c = 6 THEN 2 ELSE c]

TwoLetters == {[symbol |-> "a", upper |-> TRUE], [symbol |-> "b", upper |-> FALSE]}

Symmetry == Permutations(Login) \cup Permutations(Req)
=============================================================================
