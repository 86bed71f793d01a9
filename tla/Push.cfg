CONSTANTS
  Conn = {c1, c2}
  c1 = c1
  h1 = h1
  nil = nil
  k1 = k1
  k2 = k2
  ConfigKey <- MCConfigKey
  Incoming <- MCIncoming
  Task = {t1, t2}
  SyncTask = SyncTask
  NoTask = NoTask
  MaxFailures = 1
  Timed = {1, 2}
  Buffer = 1
  Delays = {0, 2}
  ExecuteCap = 1
  maxTaskRetry = 2
  Horizon = 2
SPECIFICATION AllSpec
INVARIANTS QueueConsistent NoUpdateLost
PROPERTIES EventuallyDelivered ImplementsMailbox PushReachesStream GoroutinesEnd TasksDone
CHECK_DEADLOCK FALSE
