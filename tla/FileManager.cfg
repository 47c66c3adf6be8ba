CONSTANTS
  a = a
  b = b
  r3 = r3
  Req = {r1, r2, r3}
  Path = {a, b}
  Input <- Inputs
  Limit <- Limits
  MaxSize = 2
  Binary = {r1, r2, r3}
  None = None
  Root = Root
  PlainName <- SomeNames
  AllowedRoots <- SomeRoots
  Directories <- Dirs
  PlainFiles <- PlainOnes
  Links <- SomeLinks
  Requests <- AllRequests
  FileNames = {"file", "link", "far", "new", "none"}
  Refused = Refused
SPECIFICATION Spec
SYMMETRY Symmetry
INVARIANTS NoReplaceUnasked RefusedChangesNothing AnswersLeadBack
PROPERTIES AnsweredIsDone
CHECK_DEADLOCK FALSE
