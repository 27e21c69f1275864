SPECIFICATION Spec
CONSTANTS
    w1 = w1
    w2 = w2
    t1 = t1
    t2 = t2
    t3 = t3
    Wallet = {w1, w2}
    Supply = Supply
    Tx = {t1, t2, t3}
    Amounts = {4, 8}
    Transfers <- ToItself
    Grain = 4
    ReadsMayFail = FALSE
SYMMETRY Symmetry
CHECK_DEADLOCK FALSE
INVARIANT SupplyIsSum
