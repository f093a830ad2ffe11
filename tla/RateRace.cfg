SPECIFICATION Spec
CONSTANTS
    p1 = p1
    p2 = p2
    c1 = c1
    c2 = c2
    Key = {c1}
    Proc = {p1, p2}
    KeysOf <- AnySlot
    Visitor = {v1, v2, v3}
    Requests = 2
    Burst = 0
    Window = 3
    MaxTime = 0
    NoVisitor = NoVisitor
    NoKey = NoKey
INVARIANTS
    AtMostLimit
