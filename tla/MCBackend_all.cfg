SPECIFICATION Spec
CONSTANTS
  docker = docker
  nspawn = nspawn
  NoDir = NoDir
  Backends = {docker, nspawn}
  Dirs = {d1, d2, d3}
  Cleanups <- EveryCleanup
  Support <- BothKinds
  MaxDepth = 2
  Explicit = TRUE
  MayFail = TRUE
CHECK_DEADLOCK FALSE
INVARIANTS SharedDirExists UnnestedTmpdirsAreKept
PROPERTY NormalExitIsClean
