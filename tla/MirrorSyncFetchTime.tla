------------------------- MODULE MirrorSyncFetchTime -------------------------
(* MirrorSync with the upstream time of the last request that fetched each   *)
(* type, for what watermark.go says of the watermark and that time.          *)
EXTENDS MirrorSync

VARIABLE fetched    \* history: the upstream second of the last request of a type

(* A request of a type ends in a new stage of it.                            *)
Request(t) == phase' = "fetch" /\ stage'[t] # stage[t]

FetchInit == Init /\ fetched = [t \in Types |-> 0]
FetchNext ==
    /\ Next
    /\ fetched' = [t \in Types |-> IF Request(t) THEN now.updated ELSE fetched[t]]
FetchSpec == FetchInit /\ [][FetchNext]_<<vars, fetched>>

(* "The next watermark is never later than the end of the fetch of T"        *)
(* (watermark.go, the rules of nextWatermark and writeSyncWatermarks).       *)
WatermarkNotPastFetch ==
    [][\A t \in Types : mark'[t] # mark[t] => mark'[t] <= fetched[t]]_<<vars, fetched>>

(* It holds for a type that had rows before the cycle: whatever FK backfill  *)
(* lands after the fetch, the watermark does not pass a change that the      *)
(* fetch could not see.                                                      *)
WatermarkWithinFetch ==
    [][\A t \in Types :
          Cursor(t) # 0 /\ mark'[t] # mark[t] => mark'[t] <= fetched[t]]_<<vars, fetched>>

(* A commit brings what its cycle asked for: of a type that had rows and     *)
(* whose window was not discarded, every row that did not change since the   *)
(* second of the last request is in the mirror as upstream has it, unless    *)
(* its version was left out for a reason that the code accepts.              *)
CommitIsFresh ==
    [][Commit => \A t \in Types, r \in Rows :
          Cursor(t) # 0 /\ ~discarded[t] /\ up[t][r].updated < fetched[t] =>
              Reflects(mirror'[t][r], up[t][r]) \/ r \in waived'[t]]_<<vars, fetched>>
=============================================================================
