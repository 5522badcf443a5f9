CONSTANTS
  Coords = {c1, c2}
  Posts = {p1, p2, p3}
  Brews = {b1}
  Relic = relic
  None = none
  RingSize = 2
  Entries = 1
SPECIFICATION Spec
SYMMETRY Alike
INVARIANTS
  TypeOK
  IdFollowsFrames
  SlotsHoldTheirKind
PROPERTIES
  LearnsFromOthers
  RestartKeepsLearned
