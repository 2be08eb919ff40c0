SPECIFICATION Spec
CONSTANTS
  num_proc = 4
  Programs <- Lines
  Quanta <- Quantities
  MAXP = 10
INVARIANTS TimeIsAccounted ReadyQueueFits
PROPERTY ImplementsRoundRobin
