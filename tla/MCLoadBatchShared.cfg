SPECIFICATION Spec
CONSTANTS
    t1 = t1
    t2 = t2
    t3 = t3
    NumFiles = 2
    Storages <- MCStorages
    Clashes <- MCShared
SYMMETRY Symmetry
INVARIANTS
    NothingKept
CHECK_DEADLOCK FALSE
