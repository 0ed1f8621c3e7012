SPECIFICATION FairSpec
CONSTANTS
  Ids = {r1, r2, r3}
  NoMotion = NoMotion
  Blending = Blending
INVARIANTS
  AnsweredMoveIsOver
PROPERTIES
  BlockingMoveKeepsRobot
  StopIsServed
  StandstillFreesGroup
CHECK_DEADLOCK FALSE
