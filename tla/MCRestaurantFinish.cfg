SPECIFICATION Spec
CONSTANTS
  Cooks = {C, D}
  WAITERS = 2
  TABLES = 2
  Arrivals <- LastOrder
  OVERRUN = 2
PROPERTY AllFinish
CHECK_DEADLOCK FALSE
