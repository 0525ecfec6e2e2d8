CONSTANTS
    Identity = {"alice", "bob"}
    MaxRequests = 3
    MaxOpen = 2
    Shapes <- ChainShapes
    NativeReplies <- MCNativeReplies
    ChatReplies <- MCChatReplies
    BudgetEnabled = TRUE
    KeepLast = 1
    MaxBytes = 2
    Days = 1
    MaxNow = 0
    LegacyRows <- NoRows
    LegacyBatch = 1
    MaxFaults = 0
SPECIFICATION Spec
INVARIANTS
    InstructionsReachUpstream
CHECK_DEADLOCK FALSE
