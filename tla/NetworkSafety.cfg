SPECIFICATION Spec
CONSTANTS
    A = A
    B = B
    c1 = c1
    Node <- MCNodes
    Conn <- OneConn
    From <- OneFrom
    To <- OneTo
    MaxStarts <- OnceOnce
    MaxSends = 2
INVARIANT ConnectedMeansGreeted
INVARIANT ConnectedHasReader
INVARIANT HandshakeNotLost
PROPERTY RemovedForever
PROPERTY RemovedIsSilent
CHECK_DEADLOCK FALSE
