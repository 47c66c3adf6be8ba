CONSTANTS
  u1 = u1
  u2 = u2
  User = {u1, u2}
  Login = {l1, l2, l3, l4}
  Req = {r1, r2}
  None = None
  SeedStatus <- OneDisabled
  Deleted = {}
  Permitted <- Granted
  MaxFailedLogins = 2
  LockoutTime = 2
  SessionTtl = 1
  Words = 1048576
  Bytes = {0, 1, 90, 128, 255}
  MaxBytes = 5
  Period = 2
  Window = 1
  Seconds = {2, 3, 4, 5, 6, 7, 8, 9, 10, 11, 12, 13}
  Token <- SomeTokens
  Letter <- TwoLetters
  Group = 2
  MaxTime = 2
SPECIFICATION Spec
SYMMETRY Symmetry
INVARIANTS LockIsRight NoStaleAdmission SecondFactorWorks
PROPERTIES LockoutHolds
CHECK_DEADLOCK FALSE
