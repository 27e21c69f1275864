SPECIFICATION Spec
CONSTANTS
    w1 = w1
    w2 = w2
    t1 = t1
    t2 = t2
    t3 = t3
    Wallet = {w1, w2}
    Supply = Supply
    Tx = {t1, t2, t3}
    Amounts = {2, 3}
    Transfers <- BetweenTwo
    Grain = 4
    ReadsMayFail = FALSE
CHECK_DEADLOCK FALSE
INVARIANT DriftBounded
PROPERTY ImplementsLedger
