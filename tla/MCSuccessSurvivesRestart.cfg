CONSTANTS
    Stream = {s1}
    NoStream = NoStream
    Capacity = 1
    MaxItems = 3
    MaxCrashes = 1
    Kinds = {"responses", "raw", "best_effort", "completed"}
    Faulty = {}
SPECIFICATION Spec
PROPERTY SuccessSurvivesRestart
CHECK_DEADLOCK FALSE
