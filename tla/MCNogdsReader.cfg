SPECIFICATION Spec
CONSTANTS
    w1 = w1
    w2 = w2
    c1 = c1
    c2 = c2
    NoBlock = NoBlock
    Workers <- MCWorkers
    Copiers <- MCSharedCopiers
    Length <- MCSharedLength
SYMMETRY Symmetry
INVARIANTS
    TypeOK
    BytesReady
    BounceIntact
    NoLateUse
CHECK_DEADLOCK FALSE
