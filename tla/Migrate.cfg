SPECIFICATION FairSpec
CONSTANTS
    Proc = {p1, p2, p3}
    Count = 3
INVARIANTS
    TypeOK
    RecordedIffMade
    InOrder
    SuccessMeansComplete
    SomeRunSucceeds
    WaitingEnds
    IndInv
PROPERTIES
    EveryRunEnds
