SPECIFICATION APISpec
CONSTANTS
    Token = {t1, t2}
    User = {u1, u2}
    Proc = {p1, p2}
    RefreshTTL = 1
    AccessTTL = 1
    Second = 2
    MaxTime = 1
    AdminStates = {"deleted"}
    NoRow = NoRow
    NotRevoked = NotRevoked
    NoToken = NoToken
    NoUser = NoUser
    NoProc = NoProc
    NoAccess = NoAccess
SYMMETRY Interchangeable
INVARIANTS
    APITypeOK
    AccessMatchesRefresh
PROPERTIES
    RevokesOwnSessions
