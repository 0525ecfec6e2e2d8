CONSTANTS
    p1 = p1
    p2 = p2
    Provider = {p1, p2}
    Request = {r1, r2}
    NoProvider = NoProvider
    MaxRetries = 0
    CandidateLimits = {2}
    ShortRest = 1
    LongRest = 5
    MaxRest = 10
    MaxChanges = 0
    ModelLists <- MCTwoModels
SPECIFICATION Spec
INVARIANT OnlyTransientErrorsSwitch
CHECK_DEADLOCK FALSE
