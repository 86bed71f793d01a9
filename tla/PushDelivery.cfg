CONSTANTS
  Conn = {c1, c2}
  Delta = {c2}
  PushLimit = 1
SPECIFICATION DeliverySpec
INVARIANTS PushesAccounted
CHECK_DEADLOCK FALSE
