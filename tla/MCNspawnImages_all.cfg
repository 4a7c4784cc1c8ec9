SPECIFICATION StoreSpec
CONSTANTS
  c1 = c1
  c2 = c2
  web = web
  built = built
  loop1 = loop1
  loop10 = loop10
  Clients = {c1, c2}
  Compressed = {web}
  Plain = {built}
  Tagged = {web, built}
  Devices = {loop1, loop10}
  NameStartsWith <- MCNameStartsWith
  None = None
CHECK_DEADLOCK FALSE
SYMMETRY MCSymmetry
INVARIANTS PartialHasReason LeftoversHaveReason
PROPERTIES PulledIsUsable UnpackedImageIsKept
