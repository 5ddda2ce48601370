------------------------------ MODULE MCCopiers ------------------------------
EXTENDS Copiers

\* Three requests share two slots.  The second is read by one block, the last
\* reaches past the end of the file.
MCParts == <<{1, 2}, {3}, {4, 5}>>
MCPadding == {5}

\* Two threads meet in the middle of the second run; the first block ends in it.
MCRuns == <<{1}, {2, 3}, {4}>>
MCSpans == <<{1, 2}, {3, 4}>>
MCBlocks == {{1, 2}, {3}, {4}}

\* A tensor of one piece, and one that crosses requests, spans and blocks.
MCTensors == {{1}, {2, 3, 4}}

=============================================================================
