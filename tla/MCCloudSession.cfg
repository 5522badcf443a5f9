CONSTANTS
  c1 = c1
  c2 = c2
  Commands = {c1, c2}
  Wakes = {c1, c2}
  konst = konst
  sig = sig
  AppIds = {konst, sig}
  Default = konst
  Signatures = {sig}
  ForeignIds = {sig}
  Free = Free
  NoId = NoId
  Pending = Pending
  Accepted = Accepted
  NoTask = NoTask
SPECIFICATION Spec
INVARIANTS
  TypeOK
  HandshakeExclusive
  ColdTaskTracked
  TrustedSessionWasHeld
PROPERTIES
  FrameRidesReportedId
  ConfirmedOnMachine
  GateSpec
SYMMETRY Symmetric
