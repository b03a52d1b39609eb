SPECIFICATION Spec
CONSTANTS
  f1 = f1
  i1 = i1
  i2 = i2
  o1 = o1
  o2 = o2
  Gone = Gone
  Corrupt = Corrupt
  Files = {f1}
  Ids = {i1, i2}
  Ops = {o1, o2}
  Kinds = {"quarantine", "restore", "delete"}
  MaxDamage = 1
  MaxFailures = 1
SYMMETRY Symmetry
INVARIANTS
  AcknowledgedSurvives
  NothingLost
  NoWaitForOwnLock
CHECK_DEADLOCK FALSE
