CONSTANTS
    Identity = {"alice", "bob"}
    MaxRequests = 2
    MaxOpen = 2
    Shapes <- EveryShape
    NativeReplies <- OneNativeReply
    ChatReplies <- OneChatReply
    BudgetEnabled = TRUE
    KeepLast = 1
    MaxBytes = 2
    Days = 1
    MaxNow = 4
    LegacyRows <- MCLegacyRows
    LegacyBatch = 1
    MaxFaults = 2
SPECIFICATION Spec
INVARIANTS
    AnsweredIsContinuable
    ActivitiesTellTheRequest
    LegacyEncryptedOnce
PROPERTIES
    ExpiredAreDeleted
CHECK_DEADLOCK FALSE
