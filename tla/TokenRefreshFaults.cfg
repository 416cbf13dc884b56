SPECIFICATION FairSpec
CONSTANTS
  p1 = p1
  p2 = p2
  Free = Free
  Proc = {p1, p2}
  MaxGrant = 2
  MaxFaults = 2
CHECK_DEADLOCK FALSE
INVARIANTS
  OneRefresher
  NewestIsKept
  ParkedHasCause
PROPERTIES
  TokenIsRenewed
