SPECIFICATION Spec
CONSTANTS
    t1 = t1
    t2 = t2
    core = core
    other = other
    NoThread = NoThread
    Thread = {t1, t2}
    Component = {core}
    Name = {core, other}
    MaxAlerts = 2
    MaxQueue = 2
CHECK_DEADLOCK FALSE
PROPERTY OnlyNestedCallsBlock
