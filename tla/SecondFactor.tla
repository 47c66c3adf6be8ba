----------------------------- MODULE SecondFactor -----------------------------
(***************************************************************************)
(* AuthService and the second factor that is to follow the password.       *)
(***************************************************************************)
EXTENDS AuthService, TwoFactor

\* The second factor is right: see TwoFactor.
SecondFactorWorks ==
  clock = 0 => SecretsSurvive /\ TokensExpire /\ CodesVerify
=============================================================================
