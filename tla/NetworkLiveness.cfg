SPECIFICATION FairSpec
CONSTANTS
    A = A
    B = B
    c1 = c1
    Node <- MCNodes
    Conn <- OneConn
    From <- OneFrom
    To <- OneTo
    MaxStarts <- NoneTwo
    MaxSends = 0
PROPERTY ClosedPeersGetUnlisted
PROPERTY HandshakeCompletes
PROPERTY StoppedLoopsExit
CHECK_DEADLOCK FALSE
