SPECIFICATION FairSpec
CONSTANTS
  Timeouts <- ShortTimeouts
  Counts <- SomeCounts
  Expecteds = {"True", "False"}
  Pause = 1
  BigRetvals = {"Other"}
  MayBeKilled = TRUE
  TriesCap = 2
  MaxCalls = 3
CHECK_DEADLOCK FALSE
INVARIANTS
  CountHidesNoHit ExpiryIsHonest RuntimeErrorOnlyIfUnanswered IInv
PROPERTIES JoinTellsTheTruth KeepsContract RunEndsInTime RunEndsByCount
