SPECIFICATION Spec
CONSTANTS
  d1 = d1
  d2 = d2
  p1 = p1
  r1 = r1
  r2 = r2
  c1 = c1
  c2 = c2
  Devices = {d1, d2}
  Passwords = {p1}
  Requests = {r1, r2}
  Calls = {c1, c2}
  MaxUses = 2
SYMMETRY Symmetry
INVARIANTS
  OneTimePasswordHasApproval
PROPERTIES
  RefinesBudget
  ReviewedOnceInTime
CHECK_DEADLOCK FALSE
