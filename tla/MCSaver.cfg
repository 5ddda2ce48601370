SPECIFICATION Spec
CONSTANTS
    s1 = s1
    s2 = s2
    Old = Old
    NoFile = NoFile
    NumShards = 2
    Savers <- MCSavers
    Size <- MCSize
    Dir <- MCDir
SYMMETRY Symmetry
INVARIANTS
    TypeOK
    AcceptedIsWhole
    NoLitter
    SavedIsDurable
CHECK_DEADLOCK FALSE
