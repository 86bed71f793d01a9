CONSTANTS
  p = p
  q = q
  i = i
  j = j
  nil = nil
  kube = kube
  external = external
  Registry = {kube, external}
  Ns = {"a", "b"}
  HomeNs = "a"
  Pod = {p}
  Slice = {1, 2}
  IP = {i, j}
  Proxy = {p}
  ServiceSpecs <- MCServiceSpecs
  PodSpecs <- MCPodSpecs
  ContainerPorts <- MCContainerPorts
  Entry = {1, 2}
  EntryNs <- MCEntryNs
  EntrySpecs <- MCEntrySpecs
  WorkloadSpecs <- MCWorkloadSpecs
  SerialDeletes = TRUE
  MaxObjects = 3
  Starts <- MCStarts
SPECIFICATION Spec
CHECK_DEADLOCK FALSE
INVARIANTS RegistriesReport RegistriesSettle ReportsReachClients
