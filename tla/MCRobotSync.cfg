\* Two robots, woken one by one, together or both.
SPECIFICATION SyncFairSpec
CONSTANTS
  nRobot = 2
  MaxWaits = 4
INVARIANTS
  BarrierSeesAll
  Lockstep
PROPERTIES
  KeepsPromise
  CleanUpEndsCalls
  SleepersAreWoken
\* No robot need call Wait again.
CHECK_DEADLOCK FALSE
