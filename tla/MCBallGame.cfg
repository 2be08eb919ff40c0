SPECIFICATION Spec
CONSTANTS
  n = 3
  LATE <- Last
INVARIANTS OneBall RowIsComplete ScoresAgree
PROPERTY Termination
CHECK_DEADLOCK FALSE
