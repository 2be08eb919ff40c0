SPECIFICATION Spec
CONSTANTS
  N = 2
  M = 2
  MaxReqs <- Files
  DLAVOID = TRUE
  Total <- TwoKinds
  MaxNeed <- ClaimTwo
PROPERTY Termination
