SPECIFICATION AllSpec
CONSTANTS
  Elector = {e1, e2}
  MaxTime = 4
  MaxErrors = 1
  MaxStops = 1
  MaxCycles = 2
  c1 = c1
  w1 = w1
  r1 = r1
  r2 = r2
  p1 = p1
  p2 = p2
  Name = {n1, n2}
  Setups <- DistributionSetups
  maxRetries = 2
  MaxBundle = 2
  MaxRequeues = 2
  n1 = n1
  n2 = n2
  none = none
  warm = warm
  nil = nil
  Args <- ServerArgs
  MaxConfig = 1
  MaxMesh = 1
  MaxReports = 1
  unset = unset
  SyncSignal = SyncSignal
  NoKey = NoKey
INVARIANTS IssuedVerifies CredentialsServed BundleDistributed OneLeader ReadyMeansPushed
CHECK_DEADLOCK FALSE
