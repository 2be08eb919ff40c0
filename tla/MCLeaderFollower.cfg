SPECIFICATION Spec
CONSTANTS
  g1 = g1
  g2 = g2
  n = 3
  Programs = {g1, g2}
  nf <- OneAndThree
  LEADER_MAX = 1
  FOLLOWER_MAX = 2
  TABLE = 4
  OVERLAP = FALSE
INVARIANTS
  OneAtATime
  RoundIsComplete
  FirstRepetitionEnds
  EveryoneHasLeft
PROPERTY
  Termination
CHECK_DEADLOCK FALSE
