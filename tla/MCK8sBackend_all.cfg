SPECIFICATION Spec
CONSTANTS
  Sessions = {s1}
  Namespaces = {A, B}
  Outside = Outside
  Nowhere = Nowhere
  Nobody = Nobody
  NoOwner = NoOwner
  p = p
  d = d
  Pods = {p, r1, r2}
  Services = {v}
  Deployments = {d}
  Unreadable = {v}
  Owner <- PodOwner
  Cleanups <- PassingCleanups
  MayFail = TRUE
  MayDrop = TRUE
CHECK_DEADLOCK FALSE
INVARIANTS OnlyItsOwnIsDeleted QuietExitDropsNamespaces
  QuietExitIsThorough
PROPERTY PodsDieOut
