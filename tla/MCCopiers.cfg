SPECIFICATION Spec
CONSTANTS
    Kinds = {"gds", "fgds", "unified"}
    Parts <- MCParts
    Padding <- MCPadding
    Runs <- MCRuns
    Spans <- MCSpans
    Blocks <- MCBlocks
    Tensors <- MCTensors
    Threads = 2
    ShortReads = FALSE
INVARIANT ReturnsEverything
PROPERTIES KeepsContract WaitsEnd
CHECK_DEADLOCK FALSE
