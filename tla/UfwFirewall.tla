----------------------------- MODULE UfwFirewall -----------------------------
(***************************************************************************)
(* Applying a firewall rule with UFW and taking it back when it fails,     *)
(* backend/src/modules/firewall/application/ufw-firewall.adapter.ts.       *)
(*                                                                         *)
(* POST /firewall/rules/apply renders a rule into commands, runs them one  *)
(* by one and, when one fails, runs the deletes of those that succeeded,   *)
(* last first.  Nothing serialises requests: two of them interleave        *)
(* between any two commands.                                               *)
(*                                                                         *)
(* The host is the set of UFW rules.  UFW is external: "ufw allow ..."     *)
(* adds the rule, skips it with exit code 0 when it is there already, and  *)
(* puts it in the place of one that matches the same traffic under another *)
(* action; "ufw delete ..." removes it, or says so with exit code 0 when   *)
(* it is not there.  A command that CommandRunner answers with an error   *)
(* has had its effect or not: a timeout is answered when the child is      *)
(* over, and the child may have written the rule before it was killed or   *)
(* exited badly.                                                           *)
(***************************************************************************)
EXTENDS Integers, Sequences

CONSTANTS
  Req,        \* POST /firewall/rules/apply requests
  RuleOf,     \* the rules each of them may carry
  HostRule,   \* rules UFW can hold
  Match(_),   \* the traffic a rule is about, whatever its action
  Plan,       \* the commands for each rule that is valid and supported
  None,
  Existing    \* rule sets the host may start with

ASSUME FirewallAssumption ==
  /\ \A x \in DOMAIN Plan : Plan[x] \in Seq(HostRule)
  /\ Existing \subseteq SUBSET HostRule

VARIABLES
  host,       \* the rules UFW enforces
  rule,       \* what each request carries
  commands,   \* what it was rendered to
  pc,         \* new, applying, rollingBack, or answered: see Answers
  count,      \* length of appliedCommands, then of what is left to delete
  added       \* history: the rules of the host that are there because this
              \* request added them

vars == <<host, rule, commands, pc, count, added>>

Answers == {"refused", "applied", "rejected", "rollbackFailed"}

Init ==
  /\ host \in Existing
  /\ rule = [r \in Req |-> None]
  /\ commands = [r \in Req |-> <<>>]
  /\ pc = [r \in Req |-> "new"]
  /\ count = [r \in Req |-> 0]
  /\ added = [r \in Req |-> {}]

-----------------------------------------------------------------------------
(* The host, as the commands change it *)

\* The rules of S that stay when x is added.
Beside(S, x) == {y \in S : y = x \/ Match(y) # Match(x)}

\* "ufw <x>" took effect on behalf of r.
HostAdds(r, x) ==
  /\ host' = Beside(host, x) \cup {x}
  /\ added' = [q \in Req |-> Beside(added[q], x) \cup
                             (IF q = r /\ x \notin host THEN {x} ELSE {})]

\* "ufw delete <x>" took effect, whoever had added the rule.
HostDeletes(x) ==
  /\ host' = host \ {x}
  /\ added' = [q \in Req |-> added[q] \ {x}]

\* A command that failed had its effect or not.
MaybeAdds(r, x) == HostAdds(r, x) \/ UNCHANGED <<host, added>>
MaybeDeletes(x) == HostDeletes(x) \/ UNCHANGED <<host, added>>

-----------------------------------------------------------------------------
(* applyRule *)

NextCommand(r) == commands[r][count[r] + 1]

\* Mutant: the first command of the list is taken back, again and again.
FirstApplied(r) == commands[r][1]

LastApplied(r) == commands[r][count[r]]

\* validateFirewallRule or renderUfwCommands throws.
Refuse(r) ==
  /\ pc[r] = "new"
  /\ \E x \in RuleOf[r] \ DOMAIN Plan : rule' = [rule EXCEPT ![r] = x]
  /\ pc' = [pc EXCEPT ![r] = "refused"]
  /\ UNCHANGED <<host, commands, count, added>>

Accept(r) ==
  /\ pc[r] = "new"
  /\ \E x \in RuleOf[r] \cap DOMAIN Plan :
       /\ rule' = [rule EXCEPT ![r] = x]
       /\ commands' = [commands EXCEPT ![r] = Plan[x]]
  /\ pc' = [pc EXCEPT ![r] = "applying"]
  /\ UNCHANGED <<host, count, added>>

ApplyOk(r) ==
  /\ pc[r] = "applying" /\ count[r] < Len(commands[r])
  /\ HostAdds(r, NextCommand(r))
  /\ count' = [count EXCEPT ![r] = @ + 1]
  /\ UNCHANGED <<rule, commands, pc>>

\* run threw: the failed command is not among those to take back.
ApplyFails(r) ==
  /\ pc[r] = "applying" /\ count[r] < Len(commands[r])
  /\ MaybeAdds(r, NextCommand(r))
  /\ pc' = [pc EXCEPT ![r] = "rollingBack"]
  /\ UNCHANGED <<rule, commands, count>>

\* Mutant: a failure in the middle of the list is answered as a success.
ApplyDoneEarly(r) ==
  /\ pc[r] = "applying"
  /\ pc' = [pc EXCEPT ![r] = "applied"]
  /\ UNCHANGED <<host, rule, commands, count, added>>

ApplyDone(r) ==
  /\ pc[r] = "applying" /\ count[r] = Len(commands[r])
  /\ pc' = [pc EXCEPT ![r] = "applied"]
  /\ UNCHANGED <<host, rule, commands, count, added>>

RollbackOk(r) ==
  /\ pc[r] = "rollingBack" /\ count[r] > 0
  /\ HostDeletes(LastApplied(r))
  /\ count' = [count EXCEPT ![r] = @ - 1]
  /\ UNCHANGED <<rule, commands, pc>>

\* A failing delete ends the rollback and becomes the answer.
RollbackFails(r) ==
  /\ pc[r] = "rollingBack" /\ count[r] > 0
  /\ MaybeDeletes(LastApplied(r))
  /\ pc' = [pc EXCEPT ![r] = "rollbackFailed"]
  /\ UNCHANGED <<rule, commands, count>>

RollbackDone(r) ==
  /\ pc[r] = "rollingBack" /\ count[r] = 0
  /\ pc' = [pc EXCEPT ![r] = "rejected"]
  /\ UNCHANGED <<host, rule, commands, count, added>>

Step(r) ==
  \/ Refuse(r) \/ Accept(r)
  \/ ApplyOk(r) \/ ApplyFails(r) \/ ApplyDone(r)
  \/ RollbackOk(r) \/ RollbackFails(r) \/ RollbackDone(r)

Next == \E r \in Req : Step(r)

Spec == Init /\ [][Next]_vars

-----------------------------------------------------------------------------
(* Properties *)

TypeOK ==
  /\ host \subseteq HostRule
  /\ commands \in [Req -> Seq(HostRule)]
  /\ pc \in [Req -> {"new", "applying", "rollingBack"} \cup Answers]
  /\ count \in [Req -> Nat]
  /\ \A r \in Req : count[r] <= Len(commands[r])
  /\ added \in [Req -> SUBSET HostRule]

\* The rules of the first n commands of a request.
Prefix(r, n) == {commands[r][i] : i \in 1..n}

\* A request that was rejected after its rollback leaves at most one rule
\* that it added: that of a single command, the one that failed.  However
\* requests interleave, all that succeeded is taken back.
RejectedLeavesOneRule ==
  \A r \in Req : pc[r] = "rejected" =>
    \E i \in 1..Len(commands[r]) : added[r] \subseteq {commands[r][i]}
=============================================================================
