CONSTANTS
    None = None
    LocalId = "local"
    Kinds = {"bridge", "chat", "responses"}
    Chunks <- MCChunks
    Index = {0, 1}
    Piece = {"a", "b", "raw"}
    Texts <- MCTexts
    Item = {"o"}
    MaxI64 = 5
    MaxEmptyChunks = 2
    MaxChunks = 3
    MaxKeepalives = 1
SPECIFICATION Spec
INVARIANTS
    TypeOK
    TextIsWhatUpstreamSent
    RecordIsWhatWasSaid
    BytesArePassedOn
PROPERTIES
    KeepsContract
    EndReachesClient
CHECK_DEADLOCK FALSE
