SPECIFICATION Spec
CONSTANTS
  Timeouts <- SomeTimeouts
  Counts <- Limits
  Expecteds = {"True"}
  Pause = 1
  BigRetvals = {}
  MayBeKilled = FALSE
  TriesCap = 2
  MaxCalls = 3
CHECK_DEADLOCK FALSE
INVARIANT RunRaisesOrSucceeds
