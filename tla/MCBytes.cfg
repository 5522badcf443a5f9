SPECIFICATION Spec
\* The strings end at MaxLength.
CHECK_DEADLOCK FALSE
CONSTANTS
  None = None
  Blank = Blank
  NoFrame = NoFrame
  Names = {}
  Base = 4
  Bytes = {0, 1, 2}
  MaxLength = 8
  Stamp <- TheStamp
INVARIANT WalkExact
INVARIANT ReplayFaithful
INVARIANT IdsAgree
