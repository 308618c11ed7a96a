CONSTANTS
    c1 = c1
    c2 = c2
    c3 = c3
    Calls = {c1, c2, c3}
    WithBody = {c1}
    Configs <- AllConfigs
    MaxCounted = 3
SPECIFICATION FairSpec
INVARIANT TypeOK
INVARIANT NeverTrips
INVARIANT RepeatNeedsAnswer
PROPERTY OpensUnanimously
PROPERTY HalfOpenDecides
