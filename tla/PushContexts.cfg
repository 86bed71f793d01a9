CONSTANTS
  Conn = {c1}
  Pushers = {main, eds}
  MainPusher = main
  MaxChanges = 2
  MaxProxyUpdates = 1
  ConfigKey = {}
  nil = nil
SPECIFICATION FairSpec
PROPERTIES NeverBackwards EventuallyUpToDate
CHECK_DEADLOCK FALSE
