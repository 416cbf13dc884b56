SPECIFICATION Spec
CONSTANTS
  Gone = Gone
  m1 = m1
  e1 = e1
  w1 = w1
  w2 = w2
  q1 = q1
  Match = {m1}
  Event = {e1}
  Worker = {w1}
  Request = {q1}
  Configs <- OnlyUntilAcked
  Batch = 2
  Concurrency = 1
  MaxAttempts = 2
  TestBase = 3
  MaxOccurrence = 2
  MaxReruns = 1
  MaxRevivals = 0
  Allowed = {"cancel", "retry", "ack", "delete", "crash"}
CHECK_DEADLOCK FALSE
INVARIANTS
  AttemptsBounded
  ChainInOrder
PROPERTIES
  QuietStopEndsChain
