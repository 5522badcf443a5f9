CONSTANTS
  c1 = c1
  app = app
  Commands = {c1}
  Wakes = {c1}
  konst = konst
  sig = sig
  AppIds = {konst, sig, app}
  Default = konst
  Signatures = {sig}
  ForeignIds = {app}
  Free = Free
  NoId = NoId
  Pending = Pending
  Accepted = Accepted
  NoTask = NoTask
SPECIFICATION FairSpec
PROPERTIES
  EveryCommandEnds
  ColdConnectEnds
  ForeignIdGivenUp
