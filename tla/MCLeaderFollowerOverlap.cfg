SPECIFICATION Spec
CONSTANTS
  g1 = g1
  g2 = g2
  n = 2
  Programs = {g1, g2}
  nf <- OneEach
  LEADER_MAX = 1
  FOLLOWER_MAX = 1
  TABLE = 1
  OVERLAP = TRUE
INVARIANT
  IdsAreDistinct
CHECK_DEADLOCK FALSE
