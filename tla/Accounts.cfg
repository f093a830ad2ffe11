SPECIFICATION Spec
CONSTANTS
    Proc = {p1, p2}
    Account = {a1, a2}
    Address = {x, y}
    Password = {w1, w2}
    NoAccount = NoAccount
    NoRequest = NoRequest
SYMMETRY Interchangeable
INVARIANTS
    TypeOK
    OneSignUpPerAddress
    SessionsAuthenticated
PROPERTIES
    RefusedOnlyForHomonym
