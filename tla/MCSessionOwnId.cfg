CONSTANTS
  c1 = c1
  c2 = c2
  Commands = {c1, c2}
  Wakes = {}
  konst = konst
  app = app
  AppIds = {konst, app}
  Default = konst
  Signatures = {}
  ForeignIds = {app}
  Free = Free
  NoId = NoId
  Pending = Pending
  Accepted = Accepted
  NoTask = NoTask
SPECIFICATION Spec
PROPERTY OnlyOwnIdPosted
