SPECIFICATION LockFairSpec
CONSTANTS
  Passes <- ConnPasses
  Room = 1
PROPERTY
  TickCompletes
CHECK_DEADLOCK FALSE
