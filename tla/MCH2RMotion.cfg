SPECIFICATION FairSpec
CONSTANTS
  Goals = {g1, g2}
  Calls = {c1}
  NoMotion = NoMotion
  Blending = Blending
INVARIANT EndedGoalIsStill
PROPERTY ServiceLosesRobotToGoals
PROPERTY LegalTransitions
PROPERTY CancelEndsGoal
CHECK_DEADLOCK FALSE
