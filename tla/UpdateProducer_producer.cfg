CONSTANTS
    Attempts = 3
    MaxUpdates = 2
    MaxLostAcks = 2
SPECIFICATION FairSpec
CHECK_DEADLOCK FALSE
INVARIANT TypeOK
INVARIANT OvertakenHasFailed
INVARIANT TwiceWasUnacked
PROPERTY ImplementsChannel
PROPERTY StopEnds
PROPERTY TakenIsWritten
