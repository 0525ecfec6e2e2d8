CONSTANTS
    None = None
    LocalId = "local"
    Kinds = {"bridge"}
    Chunks <- MCChunks
    Index = {0, 1}
    Piece = {"a", "b", "raw"}
    Texts <- MCTexts
    Item = {"o"}
    MaxI64 = 5
    MaxEmptyChunks = 2
    MaxChunks = 3
    MaxKeepalives = 0
SPECIFICATION Spec
INVARIANT CompletedIsStored
CHECK_DEADLOCK FALSE
