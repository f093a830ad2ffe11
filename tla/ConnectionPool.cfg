SPECIFICATION PoolSpec
CONSTANTS
    Token = {t1, t2}
    User = {u1}
    Proc = {p1, p2}
    RefreshTTL = 1
    MaxTime = 0
    AdminStates = {}
    PoolSizes = {0, 1}
    NoRow = NoRow
    NotRevoked = NotRevoked
    NoToken = NoToken
    NoUser = NoUser
    NoProc = NoProc
INVARIANTS
    LockHolderConnected
    SomebodyGoesOn
PROPERTIES
    EveryRequestAnswered
