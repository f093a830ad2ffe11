SPECIFICATION Spec
CONSTANTS
    Token = {t1, t2}
    User = {u1}
    Proc = {p1, p2}
    RefreshTTL = 2
    MaxTime = 2
    AdminStates = {"deleted"}
    NoRow = NoRow
    NotRevoked = NotRevoked
    NoToken = NoToken
    NoUser = NoUser
    NoProc = NoProc
SYMMETRY TokensAndSlots
INVARIANTS
    TypeOK
    ListingShowsLive
    RevokedAfterOpened
    StrongInv
