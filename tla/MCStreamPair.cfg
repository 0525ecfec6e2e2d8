CONSTANTS
    Stream = {s1, s2}
    NoStream = NoStream
    Capacity = 1
    MaxItems = 1
    MaxCrashes = 0
    Kinds = {"best_effort", "completed"}
    Faulty = {s1}
SPECIFICATION FairSpec
INVARIANTS
    LockHeldByOpenTurn
PROPERTIES
    TurnsProceed
CHECK_DEADLOCK FALSE
