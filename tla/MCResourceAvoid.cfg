SPECIFICATION Spec
CONSTANTS
  N = 3
  M = 2
  MaxReqs <- FilesThree
  DLAVOID = TRUE
  Total <- OneEach
  MaxNeed <- ClaimThree
INVARIANTS RequestHasOneHome LedgersAgree AlwaysSafe NothingGrantableIsLeft BankersIsExact
PROPERTY ImplementsAllocator
