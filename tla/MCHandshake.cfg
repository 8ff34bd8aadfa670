SPECIFICATION HandshakeFairSpec
CONSTANTS
    Mtus = 2
    OpenAttempts = 1
    InfoAttempts = 1
    ReplyErrors = 2
    RequestTries = 2
    MaxCopies = 1
INVARIANTS HandshakeTypeOK OutcomeIsHonest
PROPERTIES ConnectConcludes HalfOpenEnds
CHECK_DEADLOCK FALSE
