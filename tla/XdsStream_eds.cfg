CONSTANTS
  Name = {a, b}
  nil = nil
  MaxPushes = 0
  MaxSubscriptions = 2
  MaxNacks = 0
SPECIFICATION Spec
INVARIANTS EndpointsServedWhenQuiet
CHECK_DEADLOCK FALSE
