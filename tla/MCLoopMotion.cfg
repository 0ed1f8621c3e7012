\* A second slot for the request a worker makes after one it has given up.
SPECIFICATION Spec
CONSTANTS
  Workers = {w1}
  Slots = {1, 2}
  MaxLate = 1
  NoMotion = NoMotion
  Blending = Blending
INVARIANT TypeOK
INVARIANT IdleMeansStill
INVARIANT QuitEndsRun
PROPERTY PassStartsHere
CHECK_DEADLOCK FALSE
