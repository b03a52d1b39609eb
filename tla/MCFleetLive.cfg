SPECIFICATION FairSpec
CONSTANTS
  d1 = d1
  k1 = k1
  k2 = k2
  Devices = {d1}
  Connectors = {k1}
  DeviceOf <- OneEndpoint
  MaxCommands = 2
  MaxToken = 1
  MaxLate = 0
  BatchLimit = 1
  DirectTypes = {}
  EnsuredTypes = {"management.disconnect"}
INVARIANTS
  OffboardRevokesAfterAcceptance
  OnePendingPerEnsuredType
PROPERTY QueuedIsAnswered
CHECK_DEADLOCK FALSE
