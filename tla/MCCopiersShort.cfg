SPECIFICATION Spec
CONSTANTS
    Kinds = {"unified"}
    Parts <- MCParts
    Padding <- MCPadding
    Runs <- MCRuns
    Spans <- MCSpans
    Blocks <- MCBlocks
    Tensors <- MCTensors
    Threads = 2
    ShortReads = TRUE
INVARIANT GivenHaveBytes
CHECK_DEADLOCK FALSE
