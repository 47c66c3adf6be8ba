CONSTANTS
  BackupReq = {b1, b2}
  RestoreReq = {s1}
  Schema = {d}
  Version = {u, v}
  Long = {v}
  Binary = {v}
  Broken = Broken
  NoState = NoState
  MaxTime = 1
  MaxStarted = 2
SPECIFICATION BackupsSpec
SYMMETRY Symmetry
INVARIANTS AnsweredBackupStays  PasswordsRemoved
CHECK_DEADLOCK FALSE
