SPECIFICATION RecvFairSpec
CONSTANTS
  Frame <- MCFrame
  Datagram <- MCDatagram
  SequenceWindow = 5
  ReliableSize = 5
  NackMaxSpan = 2
  NackTtl = 2
  NackInterval = 1
  NackMaxAttempts = 2
  StaleSeconds = 1
  MaxFrags = 4
INVARIANTS
  RecvTypeOK
  ReliableOnce
  ChannelOrder
  WholePayload
  AckNackDisjoint
  EagerRelease
PROPERTY
  NoSilentLoss
  LeftoversEnd
