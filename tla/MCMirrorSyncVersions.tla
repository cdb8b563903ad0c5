------------------------- MODULE MCMirrorSyncVersions ------------------------
(* Instances of MirrorSyncVersions for TLC.                                  *)
EXTENDS MirrorSyncVersions, MirrorSyncInvariant, TLC
CONSTANTS t1, r1, r2

OneStep == <<t1>>
At(second, fraction) == [updated |-> second, sub |-> fraction]
FourInstants == {At(1, 1), At(2, 0), At(2, 1), At(3, 1)}
RowSymmetry == Permutations(Rows)
==============================================================================
