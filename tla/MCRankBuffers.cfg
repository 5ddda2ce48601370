SPECIFICATION Spec
CONSTANTS
    Ranks <- MCRanks
    Files <- MCFiles
    Owner <- MCOwner
    Contents <- MCContents
    Frame <- MCFrame
    Programs <- MCPrograms
    MaxBytes = 4
    MaxTensors = 2
INVARIANTS
    CorrectTensors
    FreedWhenTaken
    KeptUntilTaken
PROPERTIES
    RanksEnd
CHECK_DEADLOCK FALSE
