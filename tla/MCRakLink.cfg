SPECIFICATION LinkSpec
CONSTANTS
  Message = {"a", "long"}
  Parts <- MCParts
  SendKind = {"ReliableOrd"}
  SendChannel = {0}
  TimeoutResend = TRUE
  ResendSeconds = 1
  ResendLimit = 2
  DropSeconds = 1
  RecentLimit = 4
  Frame <- MCFrame
  Datagram <- MCDatagram
  SequenceWindow = 4
  ReliableSize = 4
  NackMaxSpan = 4
  NackTtl = 1
  NackInterval = 1
  NackMaxAttempts = 1
  StaleSeconds = 1
  MaxFrags = 4
  MaxFaults = 1

  
PROPERTY
  ImplementsDelivery
