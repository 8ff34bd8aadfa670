SPECIFICATION ClientFairSpec
CONSTANTS
  NetRoom = 1
  InboxRoom = 1
INVARIANT
  ClientTypeOK
PROPERTIES
  TimeoutIsFinal
  EndIsTold
  TasksEnd
CHECK_DEADLOCK FALSE
