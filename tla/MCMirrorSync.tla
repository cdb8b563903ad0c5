---------------------------- MODULE MCMirrorSync ----------------------------
(* Instances of MirrorSync for TLC.                                          *)
EXTENDS MirrorSyncInvariant, TLC
CONSTANTS t1, t2, r1, r2

OneStep == <<t1>>
At(second, fraction) == [updated |-> second, sub |-> fraction]
TwoInstants == {At(1, 1), At(2, 0)}
ThreeInstants == {At(1, 1), At(2, 0), At(3, 1)}
RowSymmetry == Permutations(Rows)
=============================================================================
