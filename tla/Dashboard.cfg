SPECIFICATION Spec
CONSTANTS
  Roots = {r1, r2}
  FirstRoot = r1
  Dirs <- MCDirs
  Top = "."
  ParentOf <- MCParentOf
  Paths <- MCPaths
  DirOf <- MCDirOf
  Edits = {e1}
  MaxOperations = 4
  None = none
  MaxInstances = 2
  PageSockets = {s1, s2, s3}
  ApiSockets = {a1}
  MaxSnapshots = 1
  NoRef = noref
  MaxLogouts = 1
SYMMETRY Symmetry
INVARIANTS
  OneOperationPerInstance
  ShownAgrees
  StreamsFollowTheView
PROPERTIES
  OwnSavesKept
CHECK_DEADLOCK FALSE
