SPECIFICATION ReadinessSpec
CONSTANTS
  Pods = {p1, p2, b}
  Helpers = {b}
  MaxFlips = 3
CHECK_DEADLOCK FALSE
INVARIANTS ReadyMeansEachWasReady StablePollIsRight
PROPERTY WaitReturns
