SPECIFICATION Spec
CONSTANTS
  n = 3
  m = 2
  s <- Sizes
  ELEMS_PER_PAGE = 2
  ESSENTIAL_PAGES = 1
  PAGE_TABLE_SIZE = 5
  TOTAL_FRAMES_USEABLE = 5
  INT8_MAX = 127
INVARIANTS FramesPartition ProcessInOnePlace
PROPERTY Termination
