CONSTANTS
  s1 = s1
  v0 = v0
  v1 = v1
  c1 = c1
  Site = {s1}
  Req = {u1, u2}
  Vhost = {v0, v1}
  Rejected = {v1}
  Size <- Sizes
  Original <- Originals
  None = None
  Tls = Tls
  Cmd = {c1, c2}
  Asks <- Asked
  MaxTime = 1
SPECIFICATION HostSpec
SYMMETRY Symmetry
INVARIANTS WholeUnlessRushed BackedUpUnlessRushed AnsweredIsEnabled AnsweredIsServing CertificateKept
PROPERTIES DownOnlyByRestartOfChanged
CHECK_DEADLOCK FALSE
