CONSTANTS
  Type = {lds, rds}
  NoType = NoType
  MaxResponses = 3
  a = a
  b = b
  x = x
  y = y
  nil = nil
SPECIFICATION AllSpec
SYMMETRY Symmetry
INVARIANTS WatchedIsCurrent StreamServed NoPushLoop DeltaServed EndpointsSubscribed
PROPERTIES InOrder
CHECK_DEADLOCK FALSE
