SPECIFICATION FairSpec
CONSTANTS
  Gone = Gone
  m1 = m1
  e1 = e1
  w1 = w1
  w2 = w2
  q1 = q1
  Match = {m1}
  Event = {e1}
  Worker = {w1, w2}
  Request = {q1}
  Configs <- OnlyTwice
  Batch = 2
  Concurrency = 1
  MaxAttempts = 2
  TestBase = 4
  MaxOccurrence = 3
  MaxReruns = 1
  MaxRevivals = 0
  Allowed = {"cancel", "retry"}
CHECK_DEADLOCK FALSE
INVARIANTS
  OncePerRequest
  RunningIsOwned
  NextIsScheduled
PROPERTIES
  EveryRunSettles
  EveryRepeatSettles
