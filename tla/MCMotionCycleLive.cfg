SPECIFICATION FairSpec
CONSTANTS
  Programs = {"cycle", "trigger"}
  Workers = {w1}
  NSteps = 4
  NApproach = 1
  NWaypoints = 1
  MaxLate = 3
  NoMotion = NoMotion
  Blending = Blending
PROPERTIES
  QuitCompletes
  CycleEnds
  QuitHaltsRobot
CHECK_DEADLOCK FALSE
