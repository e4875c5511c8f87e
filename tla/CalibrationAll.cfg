SPECIFICATION Spec
CHECK_DEADLOCK FALSE
CONSTANTS
  p1 = p1
  p2 = p2
  a1 = a1
  a2 = a2
  b1 = b1
  b2 = b2
  v1 = v1
  v2 = v2
  Proposals = {p1, p2}
  Approvals = {a1, a2}
  Rollbacks = {b1, b2}
  Values = {v1, v2}
  Default = Default
  NoRow = NoRow
  MaxRollbacks = 1
  Faults = {"write", "record", "rollback", "restart"}
SYMMETRY Symmetry
INVARIANTS TypeOK DecidedOnce AnsweredIsLogged RollbackOnce MarkedHasReverse
PROPERTY OtherSectionKept
