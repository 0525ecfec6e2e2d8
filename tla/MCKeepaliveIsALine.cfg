CONSTANTS
    None = None
    LocalId = "local"
    Kinds = {"chat"}
    Chunks <- MCChunks
    Index = {0, 1}
    Piece = {"a", "b", "raw"}
    Texts <- MCTexts
    Item = {"o"}
    MaxI64 = 5
    MaxEmptyChunks = 2
    MaxChunks = 3
    MaxKeepalives = 1
SPECIFICATION Spec
INVARIANT KeepaliveIsALine
CHECK_DEADLOCK FALSE
