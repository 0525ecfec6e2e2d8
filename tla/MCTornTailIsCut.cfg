CONSTANTS
    m = m
    d = d
    c = c
    text = text
    call = call
    k1 = k1
    k2 = k2
    MaxTurns = 3
    Item = {m, d, c}
    Content = {text, call}
    ContentOf <- MCContentOf
    Key = {k1, k2}
    NoKey = NoKey
    KeyOf <- MCKeyOf
    KeyIn <- MCKeyIn
    Requests <- MCRequests
    Responses <- MCResponses
    Window = {w1, w2}
    NoWindow = NoWindow
    MaxSegments = 1
    MaxTroubles = 2
SPECIFICATION Spec
INVARIANT TornTailIsCut
SYMMETRY Symmetry
CHECK_DEADLOCK FALSE
