SPECIFICATION ProtectionSpec
CONSTANTS
  c1 = c1
  c2 = c2
  c3 = c3
  Clients = {c1, c2, c3}
  MaxAttempts = 2
  MaxCrashes = 1
  MaxRecords = 3
  MaxFailures = 2
  download = download
  document = document
  p1 = p1
  p2 = p2
  Objects = {p1, p2}
  Observed = p1
  Watched = {download, document}
  Downloads = {download}
  Malicious = {2}
  Capacity = 1
  Concurrency = 2
  MaxWrites = 2
SYMMETRY Symmetry
INVARIANTS
  ExclusiveUnlessRaced
  LogIsTraceable
  AcknowledgedKept
  WithinLimits
  NothingForgotten
CHECK_DEADLOCK FALSE
