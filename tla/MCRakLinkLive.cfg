SPECIFICATION LinkFairSpec
CONSTANTS
  Message = {"a", "b"}
  Parts <- MCParts
  SendKind = {"ReliableOrd", "Reliable"}
  SendChannel = {0}
  TimeoutResend = TRUE
  ResendSeconds = 1
  ResendLimit = 1
  DropSeconds = 1
  RecentLimit = 1
  Frame <- MCFrame
  Datagram <- MCDatagram
  SequenceWindow = 4
  ReliableSize = 4
  NackMaxSpan = 4
  NackTtl = 2
  NackInterval = 1
  NackMaxAttempts = 1
  StaleSeconds = 1
  MaxFrags = 4
  MaxFaults = 1
PROPERTY
  DeliversOrGivesUp
