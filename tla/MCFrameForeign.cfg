CONSTANTS
  Coords = {c1, c2}
  Posts = {p1, p2}
  Brews = {b1}
  Relic = relic
  None = none
  RingSize = 2
  Entries = 2
SPECIFICATION Spec
SYMMETRY Alike
INVARIANT KnownIdIsMachines
