----------------------------- MODULE MCPipeline -----------------------------
(* Instance of Pipeline for TLC.                                           *)
EXTENDS Pipeline

\* Serial, unbuffered, and buffered with one and two places
MCQueueSizes == {-1, 0, 1, 2}

=============================================================================
