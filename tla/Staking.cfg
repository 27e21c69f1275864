SPECIFICATION Spec
CONSTANTS
    a1 = a1
    a2 = a2
    Address = {a1, a2}
    Amounts = {1, 2}
    MinStake = 2
    LockPeriod = 2
    MaxTime = 4
    MaxDeposit = 4
SYMMETRY Symmetry
CHECK_DEADLOCK FALSE
INVARIANT StakesConserved
INVARIANT ClaimsCovered
INVARIANT EarnedExactly
PROPERTY ClaimsDoNotChangeTheSum
