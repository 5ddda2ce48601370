SPECIFICATION Spec
CONSTANTS
    Loads <- MCLoads
INVARIANTS
    WithinBudget
    FitIsExact
    ReadsItsShare
CHECK_DEADLOCK FALSE
