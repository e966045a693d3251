CONSTANTS
  m = m
  w = w
  k = k
  x = x
  y = y
  a = a
  b = b
  Trees = {m, w, k}
  Ids = {x, y, z}
  z = z
  Clients = {a, b}
  Primary <- MCPrimary
  Calls <- MCCalls
  MaxCalls = 2
  Starts <- MCStarts
SPECIFICATION Spec
INVARIANT TypeOK
PROPERTIES
  ResolutionStands
  MergesOnlyMeant
  HealsWhole
  RemovesOnlyOrphans
CHECK_DEADLOCK FALSE
