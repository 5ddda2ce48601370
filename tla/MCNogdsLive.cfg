SPECIFICATION Spec
CONSTANTS
    w1 = w1
    w2 = w2
    c1 = c1
    c2 = c2
    NoBlock = NoBlock
    Workers <- MCWorkers
    Copiers <- MCOneCopier
    Length <- MCTwoReadsLength
INVARIANTS
    BytesReady
    NoLateUse
PROPERTIES
    AskAnswered
    FinishEnds
    DestroyEnds
CHECK_DEADLOCK FALSE
