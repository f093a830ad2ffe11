SPECIFICATION APISpec
CONSTANTS
    Token = {t1, t2}
    User = {u1}
    Proc = {p1, p2}
    RefreshTTL = 1
    AccessTTL = 2
    Second = 2
    MaxTime = 2
    AdminStates = {"inactive", "deleted"}
    NoRow = NoRow
    NotRevoked = NotRevoked
    NoToken = NoToken
    NoUser = NoUser
    NoProc = NoProc
    NoAccess = NoAccess
SYMMETRY Interchangeable
INVARIANTS
    AccessEndsWithSession
    AccessEndsWithAccount
