SPECIFICATION Spec
CONSTANTS
  p1 = p1
  p2 = p2
  Free = Free
  Proc = {p1, p2}
  MaxGrant = 1
  MaxFaults = 0
CHECK_DEADLOCK FALSE
PROPERTIES
  SaveIsNotStale
