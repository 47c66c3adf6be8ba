CONSTANTS
  LiveFile = {s1}
  Old = {old1}
  Rollback = {r1, r2}
  Update = {u1}
  Content = {a, b}
  Absent = Absent
  Dir = Dir
SPECIFICATION RollbacksSpec
SYMMETRY Symmetry
INVARIANTS OverwrittenIsSaved
PROPERTIES AnsweredIsEnabled
CHECK_DEADLOCK FALSE
