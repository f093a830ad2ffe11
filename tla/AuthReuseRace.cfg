SPECIFICATION Spec
CONSTANTS
    Token = {t1, t2, t3}
    User = {u1}
    Proc = {p1, p2}
    RefreshTTL = 1
    MaxTime = 0
    AdminStates = {}
    NoRow = NoRow
    NotRevoked = NotRevoked
    NoToken = NoToken
    NoUser = NoUser
    NoProc = NoProc
PROPERTIES
    ReuseEndsSession
