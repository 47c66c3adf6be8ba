CONSTANTS
  databaseNames <- Databases
  Site = {s1}
  Interval = 1
  Retention = 2
  MaxRuns = 3
  MaxDuration = 1
  MaxTime = 4
  None = None
  Audit = Audit
SPECIFICATION FairSpec
INVARIANTS RunsAreWhole
PROPERTIES NeverWithoutACopy OnlyExpiredPruned RunsEnd
CHECK_DEADLOCK FALSE
