SPECIFICATION FairSpec
CONSTANTS
    A = A
    B = B
    C = C
    NoThread = NoThread
    Node = {A, B}
    Caster = {A, B}
    Capacity = 1
PROPERTY OnlyGridlockBlocks
PROPERTY MessagesGetHandled
CHECK_DEADLOCK FALSE
