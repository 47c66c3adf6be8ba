CONSTANTS
  Cmd = {c1, c2}
  Policy = {"status", "dump"}
  HasSubcommands = {"status"}
  Arg = {"sub", "plain", "bad"}
  Request <- FewRequests
  MaxArgs = 1
  MaxOutput = 2
  MaxChunk = 2
  HookFails = TRUE
SPECIFICATION ObedientSpec
INVARIANTS AuditAgrees
PROPERTIES ImplementsContract StartedIsAnswered
CHECK_DEADLOCK FALSE
