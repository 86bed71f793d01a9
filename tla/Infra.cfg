CONSTANTS
  i1 = i1
  i2 = i2
  a = a
  b = b
  g1 = g1
  g2 = g2
  h1 = h1
  h2 = h2
  n1 = n1
  cl1 = cl1
  cl2 = cl2
  cl3 = cl3
  v = v
  nil = nil
  Crd = Crd
  SyncSignal = SyncSignal
  NoKey = NoKey
  Key = {k1, k2}
  Config = {f1, f2}
  Capacity = 1
  MaxTime = 2
  MaxBuilds = 1
  Handler = {h1, h2}
  MaxVersion = 3
SPECIFICATION AllSpec
SYMMETRY Symmetry
INVARIANTS NoStaleEntry NoIndexLeak HandlersServed SyncedMeansNoCrd DerivedCurrent ChangesNoticed
CHECK_DEADLOCK FALSE
