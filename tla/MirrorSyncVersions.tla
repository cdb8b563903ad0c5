------------------------- MODULE MirrorSyncVersions -------------------------
(* MirrorSync with the versions that upstream ever stored, for the abstract  *)
(* mirror that it implements. No action depends on them.                     *)
EXTENDS MirrorSync

VARIABLE had        \* history: the versions of each row that upstream stored

VersionsInit == Init /\ had = [t \in Types |-> [r \in Rows |-> {up[t][r]}]]
VersionsNext ==
    /\ Next
    /\ had' = [t \in Types |-> [r \in Rows |-> had[t][r] \cup {up'[t][r]}]]
VersionsSpec == VersionsInit /\ [][VersionsNext]_<<vars, had>>

(* Stale lists, failed cycles, replays and backfill notwithstanding, every   *)
(* step of the worker is a step of the abstract mirror or changes nothing    *)
(* that is served.                                                           *)
V == INSTANCE VersionedMirror
ImplementsVersionedMirror == V!Spec
=============================================================================
