SPECIFICATION Spec
CONSTANTS
  n = 2
  m = 5
  s <- Sizes
  ELEMS_PER_PAGE = 1
  ESSENTIAL_PAGES = 1
  PAGE_TABLE_SIZE = 9
  TOTAL_FRAMES_USEABLE = 11
  NFFMIN = 2
  BITS = 2
  RAND = 3
INVARIANTS FramesPartition MarksAreTrue
PROPERTIES VictimIsLeastRecent Termination
