SPECIFICATION Spec
CONSTANTS
    None = None
    a1 = a1
    a2 = a2
    Address = {a1, a2}
    MaxSecond = 1
    Lending = Lending
    Staking = Staking
    Plugin = {Plug}
    Plug = Plug
    x1 = x1
    x2 = x2
    Caller = {x1, x2}
    Default = Default
    Custom = Custom
    MaxRecords = 4
    Threshold = 3
    MaxUnblocks = 4
    ch1 = ch1
    ch2 = ch2
    Channel = {ch1, ch2}
    Capacity = 1
    MaxAlerts = 3
    Asset = {a1, a2}
    Rates = {1, 2}
    User = {x1, x2}
    MaxSets = 3
    Card = {x1}
    Amounts = {1, 2}
    dailyLimit = 2
    MaxToppedUp = 4
    Merchants = {x1, x2}
    Request = {a1, a2}
    Getter = {x1, x2}
    MaxClock = 1
    MaxMobile = 1
    t1 = t1
    t2 = t2
    Thread = {t1, t2}
    NoThread = NoThread
    core = core
    other = other
    Component = {core}
    Name = {core, other}
    MaxShown = 2
    MaxQueue = 2
CHECK_DEADLOCK FALSE
INVARIANT RecordAgrees
INVARIANT OneLoanPerOffer
INVARIANT StrikesBounded
INVARIANT SubscribersServed
INVARIANT OnlyTwinsLinger
INVARIANT OrdersPricedInForce
INVARIANT CardsBalance
INVARIANT TotalsAgree
INVARIANT RaceFree
INVARIANT MaintenanceShown
PROPERTY RecordsMoveOn
