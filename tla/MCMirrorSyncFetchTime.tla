------------------------ MODULE MCMirrorSyncFetchTime ------------------------
(* Instances of MirrorSyncFetchTime for TLC.                                 *)
EXTENDS MirrorSyncFetchTime, MirrorSyncInvariant, TLC
CONSTANTS t1, r1, r2

OneStep == <<t1>>
At(second, fraction) == [updated |-> second, sub |-> fraction]
ThreeInstants == {At(1, 1), At(2, 0), At(3, 1)}
FourInstants == {At(1, 1), At(2, 0), At(2, 1), At(3, 1)}
RowSymmetry == Permutations(Rows)
==============================================================================
