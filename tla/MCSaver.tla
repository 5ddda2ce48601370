------------------------------ MODULE MCSaver ------------------------------
(* Instances of Saver for TLC.                                             *)
EXTENDS Saver, TLC

CONSTANTS s1, s2

MCSavers == {s1, s2}

\* Two shards in two directories, and an entry in each
MCSize == <<1, 2>>
MCDir == <<"a", "b">>

Symmetry == Permutations(MCSavers)

=============================================================================
