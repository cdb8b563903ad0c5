--------------------------- MODULE MCHistorySweep ---------------------------
(* An instance of HistorySweep for TLC: a populated type with two windows    *)
(* and an old tombstone that the mirror may lack, and two empty types.       *)
EXTENDS HistorySweep, TLC

net1 == <<"net", 1>>
net2 == <<"net", 2>>
fac1 == <<"fac", 1>>
fac2 == <<"fac", 2>>
campus1 == <<"campus", 1>>

AllRows == {net1, net2, fac1, fac2, campus1}
TypeOfRow == [r \in AllRows |-> r[1]]
IdOfRow == [r \in AllRows |-> r[2]]
StepOf == "campus" :> 1 @@ "fac" :> 2 @@ "net" :> 3
WidthOf == "campus" :> 0 @@ "fac" :> 1 @@ "net" :> 1

Live(t) == [live |-> TRUE, updated |-> t]
Deleted(t) == [live |-> FALSE, updated |-> t]
Table(n1, n2, f1, f2, c1) ==
    net1 :> n1 @@ net2 :> n2 @@ fac1 :> f1 @@ fac2 :> f2 @@ campus1 :> c1

(* The mirror lacks the tombstone of the first or the second net; or it has  *)
(* found no fac so far, and a fac was created and deleted, alone or before   *)
(* another one was created; then all types are done and only fac is empty,   *)
(* so that the sweep looks at it first.                                      *)
Beginnings ==
    {[up |-> Table(Deleted(2), Live(3), None, None, None),
      mirror |-> Table(Live(1), Live(3), None, None, None), done |-> {}],
     [up |-> Table(Live(3), Deleted(2), None, None, None),
      mirror |-> Table(Live(3), Live(1), None, None, None), done |-> {"campus"}],
     [up |-> Table(Live(3), Live(1), Deleted(2), None, None),
      mirror |-> Table(Live(3), Live(1), None, None, None), done |-> {"campus", "fac"}],
     [up |-> Table(Live(3), Live(1), Deleted(2), Live(3), Live(1)),
      mirror |-> Table(Live(3), Live(1), None, None, Live(1)),
      done |-> {"campus", "fac", "net"}]}

NetsAndFac == {net1, net2, fac1}
=============================================================================
