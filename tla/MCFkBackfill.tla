---------------------------- MODULE MCFkBackfill ----------------------------
(* An instance of FkBackfill for TLC: a chain of required parents (netixlan, *)
(* ixlan, ix, org), a row with two required parents, and optional parents    *)
(* that are fetched up front (fac to campus) and row by row (netixlan to     *)
(* fac).                                                                     *)
EXTENDS FkBackfill

StepsOfTypes == <<"org", "campus", "fac", "ix", "ixlan", "net", "netixlan">>
TypesByName == <<"campus", "fac", "ix", "ixlan", "net", "netixlan", "org">>

org1 == <<"org", 1>>
campus1 == <<"campus", 1>>
fac1 == <<"fac", 1>>
ix1 == <<"ix", 1>>
ixlan1 == <<"ixlan", 1>>
ixlan2 == <<"ixlan", 2>>
net1 == <<"net", 1>>
netixlan1 == <<"netixlan", 1>>
netixlan2 == <<"netixlan", 2>>

AllKeys == {org1, campus1, fac1, ix1, ixlan1, ixlan2, net1, netixlan1, netixlan2}

RequiredOf == [k \in AllKeys |->
    CASE k \in {campus1, fac1, ix1, net1} -> {org1}
      [] k \in {ixlan1, ixlan2} -> {ix1}
      [] k = netixlan1 -> {net1, ixlan1}
      [] k = netixlan2 -> {net1, ixlan2}
      [] k = org1 -> {}]

OptionalOf == [k \in AllKeys |->
    CASE k = fac1 -> {campus1}
      [] k = netixlan1 -> {fac1}
      [] OTHER -> {}]

ThreeFetches == {{netixlan1, netixlan2}, {fac1, netixlan1}, {org1, ixlan2, net1, netixlan2}}
MaybeGone == {org1, campus1, ixlan1}
=============================================================================
