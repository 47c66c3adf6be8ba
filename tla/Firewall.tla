------------------------------- MODULE Firewall -------------------------------
(***************************************************************************)
(* POST /firewall/rules/apply from the rule a request carries to the rules *)
(* on the host: UfwRenderer says which commands stand for a rule, and      *)
(* UfwFirewall runs them.                                                  *)
(***************************************************************************)
EXTENDS UfwFirewall, UfwRenderer

\* What UFW compares to tell whether it has a rule.
Matched(x) == <<x.source, x.port, x.protocol>>

\* renderUfwCommands(validateFirewallRule(rule)), where it does not throw.
Rendered ==
  LET rules == UNION {RuleOf[r] : r \in Req}
  IN  [x \in {y \in rules : Valid(y) /\ Supported(y)} |-> Render(x)]

\* What UfwFirewall knows of rules and commands is what UfwRenderer says.
ASSUME RenderingAssumption ==
  /\ \A r \in Req : \A x \in RuleOf[r] : IsRule(x)
  /\ Plan = Rendered
  /\ \A x \in HostRule : Match(x) = Matched(x)

-----------------------------------------------------------------------------
(* Properties *)

\* The requests whose rule was neither refused nor still looked at.
Taken == {r \in Req : pc[r] \notin {"new", "refused"}}

\* The commands match exactly what the rule asks for, no source and no port
\* more or less, and there is at least one: a rule with an address is never
\* widened to "any", and no accepted rule is silently without effect.  Their
\* ports are ports and their ranges ascend, whether they come from the ports
\* or from a target; none is run twice unless the rule repeats an address, so
\* a rollback deletes each rule once.
RenderCoversRule ==
  \A r \in Taken :
    /\ commands[r] # <<>> /\ Covered(commands[r]) = Asked(rule[r])
    /\ \A i \in DOMAIN commands[r] :
         commands[r][i].port # NoPort => InRange(commands[r][i].port)
    /\ ~Repeats(Values(rule[r].targets, NetworkKinds)) => ~Repeats(commands[r])

\* Whatever a rule asks for is enforced with its action once its request is
\* answered "applied", unless another request for the same source and port
\* has another action or has begun to take its own commands back: ufw keeps
\* one rule for both.
AppliedIsEnforced ==
  \A r \in Req : pc[r] = "applied" =>
    \A a \in Asked(rule[r]) :
      \/ \E x \in host : /\ <<x.source, x.port>> = a
                         /\ x.action = UfwAction(rule[r])
      \/ \E q \in Taken \ {r} :
           /\ a \in Covered(commands[q])
           /\ \/ UfwAction(rule[q]) # UfwAction(rule[r])
              \/ pc[q] \in {"rollingBack", "rejected", "rollbackFailed"}
=============================================================================
