------------------------- MODULE SyncWorkerInvariant -------------------------
(* The inductive invariant behind SuccessMeansCommitted and FreshnessKept:   *)
(* which row of sync_status belongs to the cycle in flight.                  *)
EXTENDS SyncWorker

(* The ids of a copy grow with its AUTOINCREMENT counter and name one row.   *)
IdsOK ==
    \A n \in Nodes :
        /\ db[n].last <= cycles
        /\ \A row \in db[n].rows : row.id <= db[n].last
        /\ \A row, other \in db[n].rows : row.id = other.id => row = other

(* On the lease holder the row with the id of the cycle in flight is its own *)
(* and does not say success before the cycle does; once the cycle has        *)
(* committed, the database holds its data.                                   *)
FlightOK ==
    \A n \in Nodes : lease = n =>
        /\ cycle[n].row <= db[n].last
        /\ cycle[n].phase \in {"committed", "recorded"} => cycle[n].id \in db[n].data
        /\ \A row \in db[n].rows : row.id = cycle[n].row =>
              /\ row.cycle = cycle[n].id
              /\ row.status = "success" => cycle[n].phase = "recorded"

(* A dead process calls nothing.                                             *)
DeadOK ==
    \A n \in Nodes : alive[n] \/ \A c \in Callers : caller[n][c].at = "off"

WorkerInv ==
    /\ TypeOK
    /\ LatchIsOwned
    /\ DeadOK
    /\ IdsOK
    /\ FlightOK
    /\ SuccessMeansCommitted
==============================================================================
