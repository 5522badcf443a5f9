CONSTANTS
  Calls = {a, b}
  Timeout = 2
  Backoff = 1
  Retries = 1
  Margin = 2
  Lifetime = 3
  None = none
SPECIFICATION Spec
SYMMETRY Alike
INVARIANTS
  TypeOK
  ActedAtMost
  CallBounded
  LostAnswersAreCloudErrors
PROPERTY SentTokenHonoured
