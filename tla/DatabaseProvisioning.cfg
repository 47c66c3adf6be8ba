CONSTANTS
  d1 = d1
  d2 = d2
  a1 = a1
  a2 = a2
  Req = {r1, r2, r3}
  Database = {d1, d2}
  Account = {a1, a2}
  None = None
  Input <- Bodies
  HadDatabase = {}
  HadAccount = {a2}
SPECIFICATION Spec
SYMMETRY Symmetry
INVARIANTS RollbackDropsOwn AcknowledgedStays RejectedLeavesOnlyUnheard GrantStaysUnlessUserDropped
CHECK_DEADLOCK FALSE
