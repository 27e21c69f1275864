SPECIFICATION ChainSpec
CONSTANTS
    v1 = v1
    v2 = v2
    g1 = g1
    g2 = g2
    Address = {v1, v2}
    Creator = {g1, g2}
    Amounts = {2, 3, 4}
    MinStake = 3
    RewardPerBlock = 2
    NoValidator = NoValidator
    MaxBlocks = 3
    MaxJoins = 2
SYMMETRY Symmetry
CHECK_DEADLOCK FALSE
INVARIANT IndicesUnique
INVARIANT IndicesGapless
INVARIANT StakeAccounted
INVARIANT PoolBacked
INVARIANT StaleBlockFreezes
