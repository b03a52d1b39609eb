SPECIFICATION Spec
CONSTANTS
  d1 = d1
  k1 = k1
  k2 = k2
  Devices = {d1}
  Connectors = {k1, k2}
  DeviceOf <- OneEndpoint
  MaxCommands = 1
  MaxToken = 2
  MaxLate = 1
  BatchLimit = 1
  DirectTypes = {"scan.quick"}
  EnsuredTypes = {}
INVARIANTS
  ExecutedNotPending
  CompletedWasExecuted
SYMMETRY ConnectorSymmetry
PROPERTY RevokedDeviceOnlyFinishesCalls
CHECK_DEADLOCK FALSE
