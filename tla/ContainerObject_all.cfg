SPECIFICATION Spec
CONSTANTS
  MaxId = 2
  NoId = NoId
  Addrs = {a1, a2}
  NoAddr = NoAddr
  Local = Local
CHECK_DEADLOCK FALSE
INVARIANTS ActsOnOneContainer DataIsOfTheId
PROPERTY OpenPortIsItsOwn
