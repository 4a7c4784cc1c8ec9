SPECIFICATION Spec
CONSTANTS
  Sessions = {s1, s2}
  Containers = {c1, c2}
  Nobody = nobody
  Clis = {"bg", "fg", "api"}
  AutoRemoves = {TRUE, FALSE}
  Deletes = TRUE
CHECK_DEADLOCK FALSE
SYMMETRY Symmetry
INVARIANTS BackgroundRunHasStarted QuietCleanupIsComplete CleanupAbortHasReason
