SPECIFICATION Spec
CONSTANTS
  None = None
  Blank = Blank
  NoFrame = NoFrame
  Names = {1, 2}
  Contents <- TheContents
  AppFrames <- TheFrames
  Ids = {2, 230}
  Builtin = {2}
  Slots = {1, 3}
  Base = 16
  FallbackId = 12345
  ForeignIds = {23456}
  Now <- TheNow
INVARIANT TypeOK
INVARIANT CacheTransparent
INVARIANT CommandAsAsked
PROPERTY DrinkLearned
PROPERTY TailIsSignature
