--------------------------- MODULE CommandContract ---------------------------
(***************************************************************************)
(* What the callers of CommandRunner.run rely on                           *)
(* (backend/src/infrastructure/command/command-runner.ts): a command is    *)
(* either refused and then never started, or started at most once; it is   *)
(* answered at most once, only when its process is over, and "ok" only     *)
(* when that process exited with 0.  Firewall, nginx, package and backup   *)
(* code decide what to roll back from this answer alone.                   *)
(***************************************************************************)
CONSTANT Cmd

VARIABLES child,    \* none, alive, zero, nonzero or unspawned
          outcome   \* none, refused, ok or failed

vars == <<child, outcome>>

Init ==
  /\ child = [c \in Cmd |-> "none"]
  /\ outcome = [c \in Cmd |-> "none"]

Refuse(c) ==
  /\ child[c] = "none" /\ outcome[c] = "none"
  /\ outcome' = [outcome EXCEPT ![c] = "refused"]
  /\ UNCHANGED child

Launch(c) ==
  /\ child[c] = "none" /\ outcome[c] = "none"
  /\ \E x \in {"alive", "unspawned"} : child' = [child EXCEPT ![c] = x]
  /\ UNCHANGED outcome

End(c) ==
  /\ child[c] = "alive"
  /\ \E x \in {"zero", "nonzero"} : child' = [child EXCEPT ![c] = x]
  /\ UNCHANGED outcome

Succeed(c) ==
  /\ child[c] = "zero" /\ outcome[c] = "none"
  /\ outcome' = [outcome EXCEPT ![c] = "ok"]
  /\ UNCHANGED child

Fail(c) ==
  /\ child[c] \in {"zero", "nonzero", "unspawned"} /\ outcome[c] = "none"
  /\ outcome' = [outcome EXCEPT ![c] = "failed"]
  /\ UNCHANGED child

Next == \E c \in Cmd :
          Refuse(c) \/ Launch(c) \/ End(c) \/ Succeed(c) \/ Fail(c)

Spec == Init /\ [][Next]_vars
=============================================================================
