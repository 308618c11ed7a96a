CONSTANTS
    MaxUpdates = 2
    MaxTopic = 3
    MaxBreaks = 2
SPECIFICATION FairSpec
INVARIANT TypeOK
INVARIANT CommittedIsHandled
PROPERTY CommittedIsNotRepeated
PROPERTY TakenIsHandled
CHECK_DEADLOCK FALSE
