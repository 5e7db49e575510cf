SPECIFICATION FairSpec
CONSTANTS
  p = p  q = q  c = c  d = d  x = x  y = y
  Thread = {p, q, c, d}
  Nobody = Nobody  Idle = Idle
  maxsize = 2
  Calls <- PutGetJoin
  Interruptible = {c}
  MaxTasks = 3
INVARIANTS
  WaitersExact
  NotificationsReach
PROPERTIES
  ImplementsQueue
  OnlyVainWaits
CHECK_DEADLOCK FALSE
