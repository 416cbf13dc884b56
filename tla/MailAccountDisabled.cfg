SPECIFICATION Spec
CONSTANTS
  a1 = a1
  a2 = a2
  w1 = w1
  w2 = w2
  p1 = p1
  p2 = p2
  c1 = c1
  q1 = q1
  q2 = q2
  Nobody = Nobody
  Account = {a1}
  Watcher = {w1}
  Mailbox <- AllOnFirst
  Poller = {p1}
  Checker = {c1}
  Request = {q1}
  Batch = 1
  Concurrency = 1
  MaxMessage = 1
  MaxCredentials = 1
  MaxFaults = 0
  Allowed = {"disable"}
CHECK_DEADLOCK FALSE
PROPERTIES
  WorkersLeaveDisabled
