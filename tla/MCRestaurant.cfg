SPECIFICATION Spec
CONSTANTS
  Cooks = {C, D}
  WAITERS = 2
  TABLES = 2
  Arrivals <- AroundClosing
  OVERRUN = 2
INVARIANTS TablesAreCounted UnservedAreCounted OrderInOnePlace NoWakeupIsLost
PROPERTY WaitersFollowCooks
CHECK_DEADLOCK FALSE
