SPECIFICATION Spec
CONSTANTS
    t1 = t1
    t2 = t2
    t3 = t3
    NumFiles = 2
    Storages <- MCStorages
    Clashes <- MCEither
SYMMETRY Symmetry
INVARIANTS
    TypeOK
    TensorsStayValid
    NoWriteAfterFree
    ReadyWhenGiven
    UndoneOtherwise
CHECK_DEADLOCK FALSE
