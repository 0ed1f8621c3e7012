SPECIFICATION Spec
CONSTANTS
  Programs = {"cycle", "trigger"}
  Workers = {w1, w2}
  NSteps = 3
  NApproach = 1
  NWaypoints = 1
  MaxLate = 1
  NoMotion = NoMotion
  Blending = Blending
SYMMETRY Symmetric
INVARIANTS
  TypeOK
  TriggerRunsOnce
  InScriptOrder
  QuitEndsCycles
  FlagTellsTruth
CHECK_DEADLOCK FALSE
