SPECIFICATION Spec
CONSTANTS
    Ranks <- MCRanks
    Files <- MCFiles
    Owner <- MCOwner
    Contents <- MCContents
    Frame <- MCFrame
    Programs <- MCProgramsMulti
    MaxBytes = 4
    MaxTensors = 2
INVARIANTS
    FreedWhenTaken
CHECK_DEADLOCK FALSE
