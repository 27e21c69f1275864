SPECIFICATION Spec
CONSTANTS
    u1 = u1
    u2 = u2
    s1 = s1
    s2 = s2
    r1 = r1
    r2 = r2
    i1 = i1
    User = {u1, u2}
    Session = {s1, s2}
    Request = {r1, r2}
    Invoice = {i1}
    NoUser = NoUser
    NoSession = NoSession
    NoInvoice = NoInvoice
    Roles = {"admin", "none"}
    TTLs = {0}
    SessionTTL = 0
    DefaultTTL = 0
    MaxClock = 1
    MaxStarts = 2
SYMMETRY Symmetry
CHECK_DEADLOCK FALSE
INVARIANT ActsAreAuthorised
INVARIANT AnswersStay
PROPERTY SessionsDoNotRevive
