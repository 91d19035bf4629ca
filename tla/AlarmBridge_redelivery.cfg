SPECIFICATION Spec
CONSTANTS
  m1 = m1
  m2 = m2
  m3 = m3
  a1 = a1
  a2 = a2
  NoAlarm = NoAlarm
  Messages = {m1, m2, m3}
  Alarms = {a1, a2}
  EventOf <- QueueOfThree
  MaxBatch = 2
  Quiet = 2
  MaxGroup = 3
  Retry = 2
  PollOpen = 1
  PollIdle = 2
  EarlyExpiry = TRUE
  MaxCrashes = 0
  MaxLost = 0
INVARIANTS
  DeletedOnlyAfterPost
