\* The docstring's "Run ONE complete cycle".
SPECIFICATION Spec
CONSTANTS
  Programs = {"cycle"}
  Workers = {w1, w2}
  NSteps = 2
  NApproach = 2
  NWaypoints = 1
  MaxLate = 1
  NoMotion = NoMotion
  Blending = Blending
INVARIANTS
  OneCycleAtATime
CHECK_DEADLOCK FALSE
