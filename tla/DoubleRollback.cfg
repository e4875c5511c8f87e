SPECIFICATION Spec
CHECK_DEADLOCK FALSE
CONSTANTS
  p1 = p1
  a1 = a1
  b1 = b1
  b2 = b2
  v1 = v1
  Proposals = {p1}
  Approvals = {a1}
  Rollbacks = {b1, b2}
  Values = {v1}
  Default = Default
  NoRow = NoRow
  MaxRollbacks = 2
  Faults = {}

INVARIANT RollbackOnce
