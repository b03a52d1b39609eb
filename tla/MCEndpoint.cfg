SPECIFICATION EndpointSpec
CONSTANTS
  agent = agent
  dashboard = dashboard
  n1 = n1
  n2 = n2
  n3 = n3
  Contenders = {agent, dashboard}
  Pids = {n1, n2, n3}
  Recycled = TRUE
  MaxExits = 2
  download = download
  document = document
  p1 = p1
  Objects = {p1}
  Observed = p1
  Watched = {download, document}
  Downloads = {download}
  Malicious = {2}
  Capacity = 1
  Concurrency = 2
  MaxWrites = 2
INVARIANTS
  ExclusiveUnlessMet
PROPERTIES
  DelegatedTakesOver
  PendingIsScanned
CHECK_DEADLOCK FALSE
