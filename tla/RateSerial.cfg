SPECIFICATION Spec
CONSTANTS
    p1 = p1
    p2 = p2
    c1 = c1
    c2 = c2
    Key = {c1, c2}
    Proc = {p1, p2}
    KeysOf <- OneSlotPerClient
    Visitor = {v1, v2, v3, v4}
    Requests = 1
    Burst = 0
    Window = 3
    MaxTime = 4
    NoVisitor = NoVisitor
    NoKey = NoKey
INVARIANTS
    TypeOK
    BurstBound
    RefusedOnlyWhenFull
    LimiterInv
