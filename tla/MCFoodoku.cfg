SPECIFICATION Spec
CONSTANTS
  K = 2
  Boards <- Games
  Started <- Second
  Junk <- Stack
  Moves <- Attempts
  MAXCMDS = 5
INVARIANTS NothingIsMixedUp BoardIsValid OneGame NobodyIsLeftListening
