CONSTANTS
  r1 = r1
  r2 = r2
  net1 = net1
  net2 = net2
  cc = cc
  AnySource = AnySource
  NoPort = NoPort
  None = None
  Req = {r1, r2}
  RuleOf <- RulesOf
  HostRule <- UfwRules
  Match <- Matched
  Plan <- Rendered
  Existing <- Hosts
SPECIFICATION Spec
INVARIANTS RejectedLeavesOneRule RenderCoversRule AppliedIsEnforced
CHECK_DEADLOCK FALSE
