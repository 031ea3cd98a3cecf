\* Three overlapping calls of a service that may rate limit.
SPECIFICATION FairSpec
CONSTANTS
    Calls = {c1, c2, c3}
    Threshold = 2
    MaxTests = 1
    MaxRetries = 1
INVARIANTS
    FewTests
PROPERTIES
    TripsOnAStreak
    Recovers
