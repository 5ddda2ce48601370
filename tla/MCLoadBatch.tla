---------------------------- MODULE MCLoadBatch ----------------------------
(* Instances of LoadBatch for TLC.                                         *)
EXTENDS LoadBatch, TLC

CONSTANTS t1, t2, t3

\* Two tensors that share a storage, and one with its own
MCStorages == {{t1, t2}, {t3}}

\* Files that share a tensor name, and files that may
MCShared == {TRUE}
MCEither == BOOLEAN

Symmetry == Permutations({t1, t2})

=============================================================================
