-------------------------- MODULE MCNetIxLanCascade --------------------------
(* An instance of NetIxLanCascade for TLC: the rows of one network, the      *)
(* first of which no request can be answered for.                            *)
EXTENDS NetIxLanCascade, TLC

NetworkOf == [i \in Rows |-> 1]
Sizes == 0 :> 2 @@ 1 :> 1 @@ 2 :> 1
=============================================================================
