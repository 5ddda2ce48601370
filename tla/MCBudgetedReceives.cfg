SPECIFICATION Spec
CONSTANTS
    Loads <- MCReceives
INVARIANTS
    WithinBudget
CHECK_DEADLOCK FALSE
