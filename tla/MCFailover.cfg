CONSTANTS
    p1 = p1
    p2 = p2

    Provider = {p1, p2}
    Request = {r1, r2}
    NoProvider = NoProvider
    MaxRetries = 1
    CandidateLimits = {1, 2}
    ShortRest = 1
    LongRest = 2
    MaxRest = 3
    MaxChanges = 1
    ModelLists <- MCModelLists
SPECIFICATION FairSpec
INVARIANTS
    TypeOK
    ExhaustedBeforeFailing
    CandidatesAreThoseLoaded
PROPERTY RequestsEnd
CHECK_DEADLOCK FALSE
