SPECIFICATION Spec
CONSTANTS
  Trajs <- MCTrajs
  Threshold = 2
  Home = 20
  MaxTime = 9
INVARIANT NewestAdopted
INVARIANT DriftBounded
PROPERTY ArrivesWithinDrift
CHECK_DEADLOCK FALSE
