SPECIFICATION Spec
CONSTANTS
    Token = {t1, t2, t3}
    User = {u1}
    Proc = {p1, p2}
    RefreshTTL = 1
    MaxTime = 1
    AdminStates = {}
    NoRow = NoRow
    NotRevoked = NotRevoked
    NoToken = NoToken
    NoUser = NoUser
    NoProc = NoProc
SYMMETRY TokensAndSlots
INVARIANTS
    OneLivePerFamily
    RotationChain
    LogoutRevokes
    RevocationCoversView
    RefusedForGood
    ReplayWasExchanged
PROPERTIES
    RowsOnlyGetRevoked
    LogoutEndsSession
    ImplementsSessions
