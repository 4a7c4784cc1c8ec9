SPECIFICATION Spec
CONSTANTS
  Retry = 2
  BootLooks = 2
  MaxProcs = 6
  MaxCalls = 2
  WaitSupports = {TRUE, FALSE}
  Others = TRUE
CHECK_DEADLOCK FALSE
INVARIANT FinishedMachineIsGone
