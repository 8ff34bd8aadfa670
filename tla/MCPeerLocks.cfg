SPECIFICATION LockFairSpec
CONSTANTS
  Passes <- ClientPasses
  Room = 1
INVARIANTS
  NoWaitCircle
  WaitsForReaderAlone
PROPERTY
  TickCompletes
