SPECIFICATION FairSpec
CONSTANTS
  Retry = 2
  BootLooks = 2
  MaxProcs = 8
  MaxCalls = 4
  WaitSupports = {TRUE, FALSE}
  Others = TRUE
CHECK_DEADLOCK FALSE
INVARIANTS NoStrayProcess
PROPERTIES StopEndsMachine ExecuteTellsTheTruth CallsReturn
