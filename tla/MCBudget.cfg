SPECIFICATION FairSpec
CONSTANTS
  w1 = w1
  w2 = w2
  None = None
  Workers = {w1, w2}
  Configs <- Several
  Horizon = 2
  Lag = 1
  MaxTokens = 1
  Cap = 3
INVARIANTS
  OvershootBounded
  AllowancesAreWarranted
  ExhaustionAnnounced
PROPERTIES
  ClaimsResume
