SPECIFICATION Spec
CONSTANTS
  m = 3
  n = 3
INVARIANTS RiderFindsBoat RideIsShared RidesAreCounted RidesAreOver
PROPERTY Termination
