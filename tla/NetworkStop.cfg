SPECIFICATION Spec
CONSTANTS
    A = A
    B = B
    c1 = c1
    Node <- MCNodes
    Conn <- OneConn
    From <- OneFrom
    To <- OneTo
    MaxStarts <- NoneTwo
    MaxSends = 0
CHECK_DEADLOCK FALSE
INVARIANT StopDisconnectsAll
