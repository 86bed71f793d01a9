CONSTANTS
  nil = nil
  c1 = c1
  c2 = c2
  Resource = {r1}
  maxWorkers = 2
  MaxSpawned = 3
  MaxChanges = 2
  MaxErrors = 1
  MaxTerms = 1
  w1 = w1
  w2 = w2
  SyncSignal = SyncSignal
  NoKey = NoKey
INIT MeshInit
NEXT MeshNext
PROPERTIES MeshChangePushed
CHECK_DEADLOCK FALSE
