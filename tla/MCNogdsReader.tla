--------------------------- MODULE MCNogdsReader ---------------------------
(* Instances of NogdsReader for TLC.                                       *)
EXTENDS NogdsReader, TLC

CONSTANTS w1, w2, c1, c2

MCWorkers == {w1, w2}

\* Two files that share the reader: one read of two blocks, one of one
MCSharedCopiers == {c1, c2}
MCSharedLength == (c1 :> <<2>>) @@ (c2 :> <<1>>)

\* One file in two reads, of two blocks and of one
MCOneCopier == {c1}
MCTwoReadsLength == c1 :> <<2, 1>>

Symmetry == Permutations(MCWorkers)

=============================================================================
