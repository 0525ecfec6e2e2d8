CONSTANTS
    Stream = {s1}
    NoStream = NoStream
    Capacity = 1
    MaxItems = 3
    MaxCrashes = 2
    Kinds = {"responses", "raw", "best_effort", "completed"}
    Faulty = {s1}
SPECIFICATION FairSpec
INVARIANTS
    TypeOK
    SettledTogether
    SuccessIsEarned
    SavedIsComplete
    RefusedLeavesNoRow
    Inv
PROPERTIES
    SettledIsFinal
    StreamingEnds
CHECK_DEADLOCK FALSE
