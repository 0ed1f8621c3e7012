SPECIFICATION Spec
CONSTANTS
  Axes = 2
  MotionArgs <- MCMotionArgs
  Numbers <- MCNumbers
  Positions <- MCPositions
  Bounds <- MCBounds
  SpeedArgs <- MCSpeedArgs
  SpeedPairs <- MCSpeedPairs
  FrameArgs <- MCFrameArgs
  Frames = {0, 101}
INVARIANTS SpeedIsGiven DefaultsSuffice FrameIsCurrent
