SPECIFICATION Spec
CONSTANTS
  Gone = Gone
  m1 = m1
  e1 = e1
  w1 = w1
  w2 = w2
  q1 = q1
  Match = {m1}
  Event = {e1}
  Worker = {w1, w2}
  Request = {q1}
  Configs <- OnceOrTwiceUntilDate
  Batch = 2
  Concurrency = 1
  MaxAttempts = 2
  TestBase = 3
  MaxOccurrence = 3
  MaxReruns = 0
  MaxRevivals = 1
  Allowed = {"cancel", "test", "edit", "delete", "crash", "dberror"}
SYMMETRY Symmetry
CHECK_DEADLOCK FALSE
INVARIANTS
  Exclusive
PROPERTIES
  CancelledStaysCancelled
  LifeSpec
