-------------------------- MODULE SyncWorkerProofs --------------------------
(* Proofs about SyncWorker, for every fleet and every bound: the running     *)
(* latch has one owner, a success row is never without its data, and the     *)
(* last success is never forgotten. The facts about the status rows come     *)
(* first, then one lemma per conjunct of WorkerInv, then the theorems.       *)
EXTENDS SyncWorkerInvariant, MaxMinFacts, TLAPS

StatusRows == SUBSET Row

-----------------------------------------------------------------------------
(* The status rows.                                                          *)

(* A row whose status is rewritten stays the row of its cycle.               *)
LEMMA Restated ==
  ASSUME NEW row \in Row, NEW status \in {"running", "success", "failed"}
  PROVE  /\ [row EXCEPT !.status = status] \in Row
         /\ [row EXCEPT !.status = status].id = row.id
         /\ [row EXCEPT !.status = status].cycle = row.cycle
         /\ [row EXCEPT !.status = status].full = row.full
         /\ [row EXCEPT !.status = status].status = status
BY DEF Row

(* ReapStaleRunningRows changes no row that says success and makes none.     *)
LEMMA ReapedFacts ==
  ASSUME NEW rows \in StatusRows
  PROVE  /\ Reaped(rows) \in StatusRows
         /\ \A row \in Reaped(rows) : \E old \in rows :
               /\ row.id = old.id /\ row.cycle = old.cycle
               /\ row.status = "success" => row = old
         /\ \A old \in rows : \E row \in Reaped(rows) :
               row.id = old.id /\ (old.status = "success" => row = old)
BY DEF Reaped, Row, StatusRows

(* RecordSyncComplete rewrites the rows with one id only.                    *)
LEMMA CompletedFacts ==
  ASSUME NEW rows \in StatusRows, NEW id, NEW status \in {"success", "failed"}
  PROVE  /\ Completed(rows, id, status) \in StatusRows
         /\ \A row \in Completed(rows, id, status) : \E old \in rows :
               /\ row.id = old.id /\ row.cycle = old.cycle /\ row.full = old.full
               /\ row.id # id => row = old
               /\ row.id = id => row.status = status
         /\ \A old \in rows : \E row \in Completed(rows, id, status) :
               /\ row.id = old.id /\ row.full = old.full
               /\ row.id # id => row = old
               /\ row.id = id => row.status = status
<1> DEFINE new(row) == IF row.id = id THEN [row EXCEPT !.status = status] ELSE row
<1>1. Completed(rows, id, status) = {new(row) : row \in rows}
  BY DEF Completed
<1>2. ASSUME NEW old \in rows
      PROVE  /\ new(old) \in Row
             /\ new(old).id = old.id /\ new(old).cycle = old.cycle /\ new(old).full = old.full
             /\ old.id # id => new(old) = old
             /\ old.id = id => new(old).status = status
  BY Restated DEF StatusRows
<1> HIDE DEF new
<1>3. QED
  BY <1>1, <1>2 DEF StatusRows

(* Rewriting rows with unique ids keeps the ids unique.                      *)
LEMMA UniqueIds ==
  ASSUME NEW rows \in StatusRows,
         \A row, other \in rows : row.id = other.id => row = other
  PROVE  /\ \A row, other \in Reaped(rows) : row.id = other.id => row = other
         /\ \A id : \A status \in {"success", "failed"} :
              \A row, other \in Completed(rows, id, status) : row.id = other.id => row = other
<1>1. \A row, other \in Reaped(rows) : row.id = other.id => row = other
  BY DEF Reaped, Row, StatusRows
<1>2. ASSUME NEW id, NEW status \in {"success", "failed"}
      PROVE  \A row, other \in Completed(rows, id, status) : row.id = other.id => row = other
  BY DEF Completed, Row, StatusRows
<1>3. QED
  BY <1>1, <1>2

(* pruneSyncStatus only removes rows, and neither the newest success nor the *)
(* newest full success.                                                      *)
LEMMA PrunedFacts ==
  ASSUME NEW rows \in StatusRows
  PROVE  /\ Pruned(rows) \subseteq rows
         /\ \A row \in rows :
               \/ row.id = NewestId(Successes(rows))
               \/ row.id = NewestId(FullSuccesses(rows))
               => row \in Pruned(rows)
BY DEF Pruned

-----------------------------------------------------------------------------
(* The writes of the status table and the moves of the callers.              *)

(* A write that may fail changes the rows of the lease holder at most.       *)
LEMMA TryWriteFacts ==
  ASSUME TypeOK, NEW n \in Nodes, NEW rows \in StatusRows, TryWrite(n, rows)
  PROVE  /\ db' \in [Nodes -> Database]
         /\ \A m \in Nodes : /\ db'[m].last = db[m].last
                             /\ db'[m].data = db[m].data
                             /\ m # n => db'[m] = db[m]
         /\ db'[n].rows = db[n].rows \/ (lease = n /\ db'[n].rows = rows)
<1>1. db \in [Nodes -> Database]
  BY DEF TypeOK
<1>2. CASE UNCHANGED db
  BY <1>1, <1>2
<1>3. CASE CanWrite(n) /\ Write(n, rows)
  <2>1. db' = [db EXCEPT ![n] = [db[n] EXCEPT !.rows = rows]] /\ lease = n
    BY <1>3 DEF CanWrite, Write
  <2>2. db[n] \in Database
    BY <1>1
  <2>3. /\ [db[n] EXCEPT !.rows = rows] \in Database
        /\ [db[n] EXCEPT !.rows = rows].rows = rows
        /\ [db[n] EXCEPT !.rows = rows].last = db[n].last
        /\ [db[n] EXCEPT !.rows = rows].data = db[n].data
    BY <2>2 DEF Database, StatusRows
  <2>4. QED
    BY <1>1, <2>1, <2>3
<1>4. QED
  BY <1>2, <1>3 DEF TryWrite

(* The rows of a copy are rows, and the rewrites keep them so.               *)
LEMMA RowsTyped ==
  ASSUME TypeOK, NEW n \in Nodes
  PROVE  /\ db[n] \in Database
         /\ db[n].rows \in StatusRows
         /\ Reaped(db[n].rows) \in StatusRows
         /\ \A id : \A status \in {"success", "failed"} :
               Completed(db[n].rows, id, status) \in StatusRows
<1>1. db[n] \in Database /\ db[n].rows \in StatusRows
  BY DEF TypeOK, Database, StatusRows
<1>2. QED
  BY <1>1, ReapedFacts, CompletedFacts

(* A caller moves and the others stay.                                       *)
LEMMA GoesFacts ==
  ASSUME TypeOK, NEW n \in Nodes, NEW c \in Callers, NEW state \in Place, Goes(n, c, state)
  PROVE  /\ caller' \in [Nodes -> [Callers -> Place]]
         /\ caller'[n][c] = state
         /\ \A m \in Nodes, d \in Callers : m # n \/ d # c => caller'[m][d] = caller[m][d]
<1>1. caller \in [Nodes -> [Callers -> Place]]
  BY DEF TypeOK
<1>2. QED
  BY <1>1 DEF Goes

(* After a failed attempt a caller backs off or gives up.                    *)
LEMMA AfterFailureFacts ==
  ASSUME NEW state \in Place
  PROVE  AfterFailure(state) \in Place /\ AfterFailure(state).at \in {"backoff", "idle"}
<1>1. Retries \in Nat
  BY WorkerAssumption
<1>2. CASE state.tries < Retries
  <2>1. AfterFailure(state) = [at |-> "backoff", tries |-> state.tries + 1, full |-> state.full]
    BY <1>2 DEF AfterFailure, Place
  <2>2. state.tries \in 0..Retries /\ state.full \in BOOLEAN
    BY DEF Place
  <2>3. QED
    BY <1>1, <1>2, <2>1, <2>2 DEF Place
<1>3. CASE ~(state.tries < Retries)
  BY <1>1, <1>3 DEF AfterFailure, Place, Waiting, At
<1>4. QED
  BY <1>2, <1>3

(* Where callers start and wait.                                             *)
LEMMA PlacesFacts ==
  /\ Waiting \in Place /\ Waiting.at = "idle"
  /\ At("off") \in Place /\ At("off").at = "off"
  /\ At("start") \in Place /\ At("start").at = "start"
  /\ \A full \in BOOLEAN : Calling(full) \in Place /\ Calling(full).at = "ready"
  /\ NoCycle \notin Flight /\ NoCycle.phase = "none" /\ NoCycle.row = 0
<1>1. Retries \in Nat /\ MaxCycles \in Nat
  BY WorkerAssumption
<1>2. QED
  BY <1>1 DEF Waiting, At, Calling, Place, NoCycle, Flight

(* The types of one caller and of one cycle.                                 *)
LEMMA TypesOfParts ==
  ASSUME TypeOK, NEW n \in Nodes
  PROVE  /\ \A c \in Callers : caller[n][c] \in Place
         /\ cycle[n] \in Flight \cup {NoCycle}
BY DEF TypeOK

-----------------------------------------------------------------------------
(* Type correctness.                                                         *)

(* A cycle inserts its row under the next id, which the bound on cycles      *)
(* leaves room for.                                                          *)
LEMMA EnterFacts ==
  ASSUME TypeOK, IdsOK, NEW n \in Nodes, NEW c \in Callers,
         NEW full \in BOOLEAN, NEW pruned \in BOOLEAN, Enter(n, c, full, pruned)
  PROVE  /\ cycles' \in 0..MaxCycles /\ cycles' = cycles + 1
         /\ db' \in [Nodes -> Database]
         /\ cycle' \in [Nodes -> Flight \cup {NoCycle}]
         /\ \A m \in Nodes : m # n => db'[m] = db[m] /\ cycle'[m] = cycle[m]
         /\ cycle'[n].phase = "fetch"
         /\ \/ cycle'[n].row = 0 /\ db'[n] = db[n]
            \/ /\ lease = n
               /\ cycle'[n].row = db[n].last + 1
               /\ cycle'[n].id = cycles'
               /\ db'[n].last = db[n].last + 1
               /\ db'[n].data = db[n].data
               /\ LET row == [id |-> db[n].last + 1, status |-> "running",
                              full |-> full, cycle |-> cycles']
                      rows == db[n].rows \cup {row}
                  IN  row \in Row /\ db'[n].rows \in {rows, Pruned(rows)}
<1> DEFINE row == [id |-> db[n].last + 1, status |-> "running", full |-> full, cycle |-> cycles']
           rows == db[n].rows \cup {row}
           kept == IF pruned THEN Pruned(rows) ELSE rows
           begun == [phase |-> "fetch", full |-> full, row |-> db[n].last + 1, id |-> cycles']
<1>1. MaxCycles \in Nat /\ cycles \in 0..MaxCycles /\ cycles < MaxCycles /\ cycles' = cycles + 1
  BY WorkerAssumption DEF TypeOK, Enter
<1>2. db[n].last \in Nat /\ db[n].last <= cycles
  BY DEF TypeOK, Database, IdsOK
<1>3. row \in Row
  BY <1>1, <1>2 DEF Row, Ids
<1>4. rows \in StatusRows /\ kept \in StatusRows
  <2>1. rows \in StatusRows
    BY <1>3, RowsTyped DEF StatusRows
  <2>2. Pruned(rows) \subseteq rows
    BY <2>1, PrunedFacts
  <2>3. QED
    BY <2>1, <2>2 DEF StatusRows
<1>5. begun \in Flight /\ [begun EXCEPT !.row = 0] \in Flight
  BY <1>1, <1>2 DEF Flight, Ids
<1>6. \/ /\ lease = n
         /\ db' = [db EXCEPT ![n] = [last |-> db[n].last + 1, rows |-> kept, data |-> db[n].data]]
         /\ cycle' = [cycle EXCEPT ![n] = begun]
      \/ cycle' = [cycle EXCEPT ![n] = [begun EXCEPT !.row = 0]] /\ UNCHANGED db
  BY DEF Enter, CanWrite
<1>7. db \in [Nodes -> Database] /\ cycle \in [Nodes -> Flight \cup {NoCycle}]
  BY DEF TypeOK
<1>8. CASE cycle' = [cycle EXCEPT ![n] = [begun EXCEPT !.row = 0]] /\ UNCHANGED db
  <2>1. [begun EXCEPT !.row = 0].row = 0 /\ [begun EXCEPT !.row = 0].phase = "fetch"
    OBVIOUS
  <2>2. QED
    BY <1>1, <1>5, <1>7, <1>8, <2>1
<1>9. CASE /\ lease = n
           /\ db' = [db EXCEPT ![n] = [last |-> db[n].last + 1, rows |-> kept, data |-> db[n].data]]
           /\ cycle' = [cycle EXCEPT ![n] = begun]
  <2>1. begun.phase = "fetch" /\ begun.row = db[n].last + 1 /\ begun.id = cycles'
    OBVIOUS
  <2>2. kept \in {rows, Pruned(rows)}
    OBVIOUS
  <2> HIDE DEF kept, begun, rows, row
  <2> DEFINE copy == [last |-> db[n].last + 1, rows |-> kept, data |-> db[n].data]
  <2>3. db[n] \in Database
    BY <1>7
  <2>4. db' = [db EXCEPT ![n] = copy]
    BY <1>7, <1>9
  <2>5. copy \in Database /\ copy.last = db[n].last + 1 /\ copy.data = db[n].data /\ copy.rows = kept
    BY <1>1, <1>2, <1>4, <2>3 DEF Database, StatusRows
  <2> HIDE DEF copy
  <2>6. db'[n] = copy /\ cycle'[n] = begun
    BY <1>7, <1>9, <2>4
  <2>7. db' \in [Nodes -> Database] /\ cycle' \in [Nodes -> Flight \cup {NoCycle}]
    BY <1>5, <1>7, <1>9, <2>4, <2>5
  <2>8. \A m \in Nodes : m # n => db'[m] = db[m] /\ cycle'[m] = cycle[m]
    BY <1>7, <1>9, <2>4
  <2>9. row \in Row /\ db'[n].rows \in {rows, Pruned(rows)}
    BY <1>3, <2>2, <2>5, <2>6
  <2>10. QED
    BY <1>1, <1>9, <2>1, <2>5, <2>6, <2>7, <2>8, <2>9 DEF row, rows
<1>10. QED
  BY <1>6, <1>8, <1>9

(* A cycle goes on to a later phase and stays the same cycle.                *)
LEMMA PhaseFacts ==
  ASSUME TypeOK, NEW n \in Nodes, NEW phase \in {"fetch", "tx", "committed", "recorded"},
         cycle[n].phase # "none",
         cycle' = [cycle EXCEPT ![n].phase = phase]
  PROVE  /\ cycle' \in [Nodes -> Flight \cup {NoCycle}]
         /\ cycle[n] \in Flight /\ cycle'[n] \in Flight
         /\ cycle'[n].phase = phase /\ cycle'[n].row = cycle[n].row /\ cycle'[n].id = cycle[n].id
         /\ \A m \in Nodes : m # n => cycle'[m] = cycle[m]
<1>1. cycle \in [Nodes -> Flight \cup {NoCycle}]
  BY DEF TypeOK
<1>2. cycle[n] \in Flight
  BY <1>1, PlacesFacts
<1>3. /\ [cycle[n] EXCEPT !.phase = phase] \in Flight
      /\ [cycle[n] EXCEPT !.phase = phase].phase = phase
      /\ [cycle[n] EXCEPT !.phase = phase].row = cycle[n].row
      /\ [cycle[n] EXCEPT !.phase = phase].id = cycle[n].id
  BY <1>2 DEF Flight
<1>4. QED
  BY <1>1, <1>2, <1>3

(* A cycle is over.                                                          *)
LEMMA ReturnsFacts ==
  ASSUME TypeOK, NEW n \in Nodes, NEW c \in Callers, NEW state \in Place, Returns(n, c, state)
  PROVE  /\ cycle' \in [Nodes -> Flight \cup {NoCycle}] /\ latch' \in [Nodes -> BOOLEAN]
         /\ cycle'[n] = NoCycle /\ latch'[n] = FALSE
         /\ \A m \in Nodes : m # n => cycle'[m] = cycle[m] /\ latch'[m] = latch[m]
         /\ Goes(n, c, state)
<1>1. cycle \in [Nodes -> Flight \cup {NoCycle}] /\ latch \in [Nodes -> BOOLEAN]
  BY DEF TypeOK
<1>2. QED
  BY <1>1 DEF Returns

(* The commit adds the data of its cycle to the copy of the lease holder.    *)
LEMMA CommitFacts ==
  ASSUME TypeOK, NEW n \in Nodes, Commit(n)
  PROVE  /\ lease = n
         /\ db' \in [Nodes -> Database]
         /\ db'[n].last = db[n].last /\ db'[n].rows = db[n].rows
         /\ db'[n].data = db[n].data \cup {cycle[n].id}
         /\ \A m \in Nodes : m # n => db'[m] = db[m]
<1> DEFINE data == db[n].data \cup {cycle[n].id}
<1>1. db \in [Nodes -> Database] /\ db[n] \in Database
  BY DEF TypeOK
<1>2. data \in SUBSET Ids
  BY <1>1, PhaseFacts DEF Commit, Flight, Database
<1>3. db' = [db EXCEPT ![n] = [db[n] EXCEPT !.data = data]]
  BY DEF Commit
<1>4. data = db[n].data \cup {cycle[n].id}
  OBVIOUS
<1> HIDE DEF data
<1>5. /\ [db[n] EXCEPT !.data = data] \in Database
      /\ [db[n] EXCEPT !.data = data].last = db[n].last
      /\ [db[n] EXCEPT !.data = data].rows = db[n].rows
      /\ [db[n] EXCEPT !.data = data].data = data
  BY <1>1, <1>2 DEF Database
<1>6. lease = n
  BY DEF Commit, CanWrite
<1>7. QED
  BY <1>1, <1>3, <1>4, <1>5, <1>6

(* Every step keeps the types.                                               *)
LEMMA TypeKept ==
  ASSUME TypeOK, IdsOK, Next
  PROVE  TypeOK'
<1> USE DEF node
<1>1. CASE LeaseLost
  BY <1>1, WorkerAssumption DEF TypeOK, LeaseLost
<1>2. ASSUME NEW n \in Nodes, CycleStep(n) PROVE TypeOK'
  <2>1. CASE OpenTx(n)
    <3>1. cycle' \in [Nodes -> Flight \cup {NoCycle}]
      BY <2>1, PhaseFacts DEF OpenTx
    <3>2. QED
      BY <2>1, <3>1 DEF TypeOK, OpenTx
  <2>2. CASE Commit(n)
    <3>1. cycle' \in [Nodes -> Flight \cup {NoCycle}]
      BY <2>2, PhaseFacts DEF Commit
    <3>2. db' \in [Nodes -> Database]
      BY <2>2, CommitFacts
    <3>3. QED
      BY <2>2, <3>1, <3>2 DEF TypeOK, Commit
  <2>3. CASE RecordSuccess(n)
    <3>1. cycle' \in [Nodes -> Flight \cup {NoCycle}]
      BY <2>3, PhaseFacts DEF RecordSuccess
    <3>2. db' \in [Nodes -> Database]
      BY <2>3, RowsTyped, TryWriteFacts DEF RecordSuccess
    <3>3. QED
      BY <2>3, <3>1, <3>2 DEF TypeOK, RecordSuccess
  <2>4. ASSUME NEW c \in Callers, Succeed(n, c) PROVE TypeOK'
    <3>1. /\ cycle' \in [Nodes -> Flight \cup {NoCycle}] /\ latch' \in [Nodes -> BOOLEAN]
          /\ caller' \in [Nodes -> [Callers -> Place]]
      BY <2>4, PlacesFacts, ReturnsFacts, GoesFacts DEF Succeed
    <3>2. QED
      BY <2>4, <3>1 DEF TypeOK, Succeed
  <2>5. ASSUME NEW c \in Callers, NEW retry \in BOOLEAN, Fail(n, c, retry) PROVE TypeOK'
    <3> DEFINE next == IF retry THEN AfterFailure(caller[n][c]) ELSE Waiting
    <3>1. next \in Place /\ Returns(n, c, next)
      BY <2>5, PlacesFacts, TypesOfParts, AfterFailureFacts DEF Fail
    <3>2. /\ cycle' \in [Nodes -> Flight \cup {NoCycle}] /\ latch' \in [Nodes -> BOOLEAN]
          /\ caller' \in [Nodes -> [Callers -> Place]]
      <4> HIDE DEF next
      <4> QED BY <3>1, ReturnsFacts, GoesFacts
    <3>3. db' \in [Nodes -> Database]
      BY <2>5, RowsTyped, TryWriteFacts DEF Fail
    <3>4. QED
      BY <2>5, <3>2, <3>3 DEF TypeOK, Fail
  <2>6. QED
    BY <1>2, <2>1, <2>2, <2>3, <2>4, <2>5 DEF CycleStep
<1>3. ASSUME NEW n \in Nodes, NEW c \in Callers, CallerStep(n, c) PROVE TypeOK'
  <2>1. ASSUME NEW full \in BOOLEAN, NEW pruned \in BOOLEAN, Enter(n, c, full, pruned)
        PROVE  TypeOK'
    <3>1. [caller[n][c] EXCEPT !.at = "cycle"] \in Place
      BY TypesOfParts DEF Place
    <3>2. caller' \in [Nodes -> [Callers -> Place]]
      BY <2>1, <3>1, GoesFacts DEF Enter
    <3>3. /\ db' \in [Nodes -> Database] /\ cycles' \in 0..MaxCycles
          /\ cycle' \in [Nodes -> Flight \cup {NoCycle}]
      BY <2>1, EnterFacts
    <3>4. lease' = lease /\ moves' = moves /\ latch' = [latch EXCEPT ![n] = TRUE]
          /\ alive' = alive /\ wasPrimary' = wasPrimary /\ synced' = synced
      BY <2>1 DEF Enter
    <3>5. QED
      BY <3>2, <3>3, <3>4 DEF TypeOK
  <2>2. CASE Busy(n, c)
    <3> DEFINE next == IF caller[n][c].tries = 0 THEN Waiting ELSE AfterFailure(caller[n][c])
    <3>1. next \in Place /\ Goes(n, c, next)
      BY <2>2, PlacesFacts, TypesOfParts, AfterFailureFacts DEF Busy
    <3>2. caller' \in [Nodes -> [Callers -> Place]]
      <4> HIDE DEF next
      <4> QED BY <3>1, GoesFacts
    <3>3. QED
      BY <2>2, <3>2 DEF TypeOK, Busy
  <2>3. CASE OutOfCycles(n, c)
    <3>1. caller' \in [Nodes -> [Callers -> Place]]
      BY <2>3, PlacesFacts, GoesFacts DEF OutOfCycles
    <3>2. QED
      BY <2>3, <3>1 DEF TypeOK, OutOfCycles
  <2>4. CASE BackoffEnds(n, c)
    <3>1. [caller[n][c] EXCEPT !.at = "ready"] \in Place
      BY TypesOfParts DEF Place
    <3>2. caller' \in [Nodes -> [Callers -> Place]]
      BY <2>4, <3>1, GoesFacts DEF BackoffEnds
    <3>3. QED
      BY <2>4, <3>2 DEF TypeOK, BackoffEnds
  <2>5. CASE BackoffCancelled(n, c)
    <3>1. caller' \in [Nodes -> [Callers -> Place]]
      BY <2>5, PlacesFacts, GoesFacts DEF BackoffCancelled
    <3>2. QED
      BY <2>5, <3>1 DEF TypeOK, BackoffCancelled
  <2>6. QED
    BY <1>3, <2>1, <2>2, <2>3, <2>4, <2>5 DEF CallerStep
<1>4. ASSUME NEW n \in Nodes, SchedulerStep(n) PROVE TypeOK'
  <2>1. "scheduler" \in Callers
    BY WorkerAssumption
  <2>2. CASE StartScheduler(n)
    <3> DEFINE next == IF IsPrimary(n) /\ ~HasSuccess(n) THEN Calling(TRUE) ELSE Waiting
    <3>1. next \in Place /\ Goes(n, "scheduler", next)
      BY <2>2, PlacesFacts DEF StartScheduler
    <3>2. caller' \in [Nodes -> [Callers -> Place]]
      <4> HIDE DEF next
      <4> QED BY <2>1, <3>1, GoesFacts
    <3>3. IsPrimary(n) \in BOOLEAN /\ (synced[n] \/ HasSuccess(n)) \in BOOLEAN
      BY DEF IsPrimary, HasSuccess, TypeOK
    <3>4. wasPrimary' \in [Nodes -> BOOLEAN] /\ synced' \in [Nodes -> BOOLEAN]
      BY <2>2, <3>3 DEF TypeOK, StartScheduler
    <3>5. QED
      BY <2>2, <3>2, <3>4 DEF TypeOK, StartScheduler
  <2>3. CASE Promoted(n)
    <3>1. caller' \in [Nodes -> [Callers -> Place]]
      BY <2>1, <2>3, PlacesFacts, GoesFacts DEF Promoted, TypeOK
    <3>2. db' \in [Nodes -> Database]
      BY <2>3, RowsTyped, TryWriteFacts DEF Promoted
    <3>3. QED
      BY <2>3, <3>1, <3>2 DEF TypeOK, Promoted
  <2>4. CASE Demoted(n)
    BY <2>4 DEF TypeOK, Demoted
  <2>5. CASE Heartbeat(n)
    <3>1. (synced[n] \/ HasSuccess(n)) \in BOOLEAN
      OBVIOUS
    <3>2. QED
      BY <2>5, <3>1 DEF TypeOK, Heartbeat
  <2>6. CASE Due(n)
    <3>1. caller' \in [Nodes -> [Callers -> Place]]
      BY <2>1, <2>6, PlacesFacts, GoesFacts DEF Due
    <3>2. QED
      BY <2>6, <3>1 DEF TypeOK, Due
  <2>7. QED
    BY <1>4, <2>2, <2>3, <2>4, <2>5, <2>6 DEF SchedulerStep
<1>5. ASSUME NEW n \in Nodes, NEW full \in BOOLEAN, "request" \in Callers, Post(n, full)
      PROVE  TypeOK'
  <2>1. caller' \in [Nodes -> [Callers -> Place]]
    BY <1>5, PlacesFacts, GoesFacts DEF Post
  <2>2. QED
    BY <1>5, <2>1 DEF TypeOK, Post
<1>6. ASSUME NEW n \in Nodes, Boot(n) PROVE TypeOK'
  <2>1. caller' \in [Nodes -> [Callers -> Place]]
    BY <1>6, PlacesFacts DEF Boot, TypeOK
  <2>2. db' \in [Nodes -> Database]
    BY <1>6, RowsTyped, TryWriteFacts DEF Boot, TypeOK
  <2>3. QED
    BY <1>6, <2>1, <2>2 DEF TypeOK, Boot
<1>7. ASSUME NEW n \in Nodes, Replicate(n) PROVE TypeOK'
  BY <1>7 DEF TypeOK, Replicate
<1>8. ASSUME NEW n \in Nodes, LeaseTaken(n) PROVE TypeOK'
  BY <1>8 DEF TypeOK, LeaseTaken
<1>9. ASSUME NEW n \in Nodes, Crash(n) PROVE TypeOK'
  <2>1. caller' \in [Nodes -> [Callers -> Place]]
    BY <1>9, PlacesFacts DEF Crash, TypeOK
  <2>2. lease' \in Nodes \cup {NoNode} /\ moves' \in 0..MaxMoves
    BY <1>9, WorkerAssumption DEF Crash, TypeOK
  <2>3. QED
    BY <1>9, <2>1, <2>2 DEF TypeOK, Crash
<1>10. QED
  BY <1>1, <1>2, <1>3, <1>4, <1>5, <1>6, <1>7, <1>8, <1>9 DEF Next

-----------------------------------------------------------------------------
(* The running latch.                                                        *)

(* A caller that does not run moves on and does not run.                     *)
LEMMA StepsAside ==
  ASSUME TypeOK, LatchIsOwned, DeadOK, NEW n \in Nodes, NEW c \in Callers, NEW state \in Place,
         Goes(n, c, state), caller[n][c].at \notin {"cycle", "off"}, state.at # "cycle",
         UNCHANGED <<alive, latch, cycle>>
  PROVE  LatchIsOwned' /\ DeadOK'
<1>1. /\ caller'[n][c] = state
      /\ \A m \in Nodes, d \in Callers : m # n \/ d # c => caller'[m][d] = caller[m][d]
  BY GoesFacts
<1>2. \A m \in Nodes, d \in Callers : caller'[m][d].at = "cycle" <=> caller[m][d].at = "cycle"
  BY <1>1
<1>3. LatchIsOwned'
  BY <1>2 DEF LatchIsOwned, NoCycle
<1>4. alive[n]
  BY DEF DeadOK
<1>5. QED
  BY <1>1, <1>3, <1>4 DEF DeadOK

(* The cycle that holds the latch goes on.                                   *)
LEMMA GoesOn ==
  ASSUME TypeOK, LatchIsOwned, DeadOK, NEW n \in Nodes,
         NEW phase \in {"fetch", "tx", "committed", "recorded"}, cycle[n].phase # "none",
         cycle' = [cycle EXCEPT ![n].phase = phase], UNCHANGED <<alive, latch, caller>>
  PROVE  LatchIsOwned' /\ DeadOK'
<1>1. /\ cycle[n] # NoCycle /\ cycle'[n] # NoCycle
      /\ \A m \in Nodes : m # n => cycle'[m] = cycle[m]
  BY PhaseFacts, PlacesFacts
<1>2. LatchIsOwned'
  BY <1>1 DEF LatchIsOwned, NoCycle
<1>3. QED
  BY <1>2 DEF DeadOK

(* The cycle ends and the latch is free.                                     *)
LEMMA LetsGo ==
  ASSUME TypeOK, LatchIsOwned, DeadOK, NEW n \in Nodes, NEW c \in Callers, NEW state \in Place,
         caller[n][c].at = "cycle", state.at # "cycle", Returns(n, c, state), alive' = alive
  PROVE  LatchIsOwned' /\ DeadOK'
<1>1. /\ cycle'[n] = NoCycle /\ latch'[n] = FALSE
      /\ \A m \in Nodes : m # n => cycle'[m] = cycle[m] /\ latch'[m] = latch[m]
      /\ caller'[n][c] = state
      /\ \A m \in Nodes, d \in Callers : m # n \/ d # c => caller'[m][d] = caller[m][d]
  BY ReturnsFacts, GoesFacts
<1>2. \A d \in Callers : caller'[n][d].at # "cycle"
  BY <1>1 DEF LatchIsOwned
<1>3. LatchIsOwned'
  BY <1>1, <1>2 DEF LatchIsOwned, NoCycle
<1>4. alive[n]
  BY DEF DeadOK
<1>5. QED
  BY <1>1, <1>3, <1>4 DEF DeadOK

(* The latch keeps its one owner, and a dead process stays silent.           *)
LEMMA LatchKept ==
  ASSUME TypeOK, IdsOK, LatchIsOwned, DeadOK, Next
  PROVE  LatchIsOwned' /\ DeadOK'
<1> USE DEF node
<1>1. ASSUME UNCHANGED <<alive, latch, caller, cycle>> PROVE LatchIsOwned' /\ DeadOK'
  BY <1>1 DEF LatchIsOwned, DeadOK, NoCycle
<1>2. ASSUME NEW n \in Nodes, CycleStep(n) PROVE LatchIsOwned' /\ DeadOK'
  <2>1. CASE OpenTx(n)
    BY <2>1, GoesOn DEF OpenTx
  <2>2. CASE Commit(n)
    BY <2>2, GoesOn DEF Commit
  <2>3. CASE RecordSuccess(n)
    BY <2>3, GoesOn DEF RecordSuccess
  <2>4. ASSUME NEW c \in Callers, Succeed(n, c) PROVE LatchIsOwned' /\ DeadOK'
    BY <2>4, PlacesFacts, LetsGo DEF Succeed
  <2>5. ASSUME NEW c \in Callers, NEW retry \in BOOLEAN, Fail(n, c, retry)
        PROVE  LatchIsOwned' /\ DeadOK'
    <3> DEFINE next == IF retry THEN AfterFailure(caller[n][c]) ELSE Waiting
    <3>1. next \in Place /\ next.at # "cycle" /\ Returns(n, c, next)
      BY <2>5, PlacesFacts, TypesOfParts, AfterFailureFacts DEF Fail
    <3>2. caller[n][c].at = "cycle" /\ alive' = alive
      BY <2>5 DEF Fail
    <3> HIDE DEF next
    <3>3. QED
      BY <3>1, <3>2, LetsGo
  <2>6. QED
    BY <1>2, <2>1, <2>2, <2>3, <2>4, <2>5 DEF CycleStep
<1>3. ASSUME NEW n \in Nodes, NEW c \in Callers, CallerStep(n, c)
      PROVE  LatchIsOwned' /\ DeadOK'
  <2>1. ASSUME NEW full \in BOOLEAN, NEW pruned \in BOOLEAN, Enter(n, c, full, pruned)
        PROVE  LatchIsOwned' /\ DeadOK'
    <3> DEFINE next == [caller[n][c] EXCEPT !.at = "cycle"]
    <3>1. next \in Place /\ next.at = "cycle" /\ Goes(n, c, next)
      BY <2>1, TypesOfParts DEF Place, Enter
    <3>2. /\ caller'[n][c].at = "cycle"
          /\ \A m \in Nodes, d \in Callers : m # n \/ d # c => caller'[m][d] = caller[m][d]
      <4> HIDE DEF next
      <4> QED BY <3>1, GoesFacts
    <3>3. /\ cycle'[n] # NoCycle
          /\ \A m \in Nodes : m # n => cycle'[m] = cycle[m]
      BY <2>1, EnterFacts, PlacesFacts
    <3>4. /\ latch'[n] = TRUE
          /\ \A m \in Nodes : m # n => latch'[m] = latch[m]
          /\ ~latch[n] /\ caller[n][c].at = "ready" /\ alive' = alive
      BY <2>1 DEF Enter, TypeOK
    <3>5. \A d \in Callers : caller[n][d].at # "cycle"
      BY <3>4 DEF LatchIsOwned
    <3>6. LatchIsOwned'
      BY <3>2, <3>3, <3>4, <3>5 DEF LatchIsOwned, NoCycle
    <3>7. alive[n]
      BY <3>4 DEF DeadOK
    <3>8. QED
      BY <3>2, <3>4, <3>6, <3>7 DEF DeadOK
  <2>2. CASE Busy(n, c)
    <3> DEFINE next == IF caller[n][c].tries = 0 THEN Waiting ELSE AfterFailure(caller[n][c])
    <3>1. next \in Place /\ next.at # "cycle" /\ Goes(n, c, next)
      BY <2>2, PlacesFacts, TypesOfParts, AfterFailureFacts DEF Busy
    <3>2. caller[n][c].at = "ready" /\ UNCHANGED <<alive, latch, cycle>>
      BY <2>2 DEF Busy
    <3> HIDE DEF next
    <3>3. QED
      BY <3>1, <3>2, StepsAside
  <2>3. CASE OutOfCycles(n, c)
    BY <2>3, PlacesFacts, StepsAside DEF OutOfCycles
  <2>4. CASE BackoffEnds(n, c)
    <3>1. /\ [caller[n][c] EXCEPT !.at = "ready"] \in Place
          /\ [caller[n][c] EXCEPT !.at = "ready"].at = "ready"
      BY TypesOfParts DEF Place
    <3>2. QED
      BY <2>4, <3>1, StepsAside DEF BackoffEnds
  <2>5. CASE BackoffCancelled(n, c)
    BY <2>5, PlacesFacts, StepsAside DEF BackoffCancelled
  <2>6. QED
    BY <1>3, <2>1, <2>2, <2>3, <2>4, <2>5 DEF CallerStep
<1>4. ASSUME NEW n \in Nodes, SchedulerStep(n) PROVE LatchIsOwned' /\ DeadOK'
  <2>1. "scheduler" \in Callers
    BY WorkerAssumption
  <2>2. CASE StartScheduler(n)
    <3> DEFINE next == IF IsPrimary(n) /\ ~HasSuccess(n) THEN Calling(TRUE) ELSE Waiting
    <3>1. next \in Place /\ next.at # "cycle" /\ Goes(n, "scheduler", next)
      BY <2>2, PlacesFacts DEF StartScheduler
    <3>2. caller[n]["scheduler"].at = "start" /\ UNCHANGED <<alive, latch, cycle>>
      BY <2>2 DEF StartScheduler
    <3> HIDE DEF next
    <3>3. QED
      BY <2>1, <3>1, <3>2, StepsAside
  <2>3. CASE Promoted(n)
    <3>1. caller[n]["scheduler"].at = "idle" /\ UNCHANGED <<alive, latch, cycle>>
      BY <2>3 DEF Promoted, Wakes
    <3>2. CASE UNCHANGED caller
      BY <1>1, <3>1, <3>2
    <3>3. CASE Goes(n, "scheduler", Calling(FALSE))
      BY <2>1, <3>1, <3>3, PlacesFacts, StepsAside
    <3>4. QED
      BY <2>3, <3>2, <3>3 DEF Promoted
  <2>4. CASE Demoted(n)
    BY <1>1, <2>4 DEF Demoted
  <2>5. CASE Heartbeat(n)
    BY <1>1, <2>5 DEF Heartbeat
  <2>6. CASE Due(n)
    BY <2>1, <2>6, PlacesFacts, StepsAside DEF Due, Wakes
  <2>7. QED
    BY <1>4, <2>2, <2>3, <2>4, <2>5, <2>6 DEF SchedulerStep
<1>5. ASSUME NEW n \in Nodes, NEW full \in BOOLEAN, "request" \in Callers, Post(n, full)
      PROVE  LatchIsOwned' /\ DeadOK'
  BY <1>5, PlacesFacts, StepsAside DEF Post
<1>6. ASSUME NEW n \in Nodes, Boot(n) \/ Crash(n) PROVE LatchIsOwned' /\ DeadOK'
  <2> DEFINE started == [c \in Callers |-> IF c = "scheduler" THEN At("start") ELSE Waiting]
             off == [c \in Callers |-> At("off")]
  <2>1. caller \in [Nodes -> [Callers -> Place]] /\ alive \in [Nodes -> BOOLEAN]
        /\ latch \in [Nodes -> BOOLEAN] /\ cycle \in [Nodes -> Flight \cup {NoCycle}]
    BY DEF TypeOK
  <2>2. \A c \in Callers : started[c].at # "cycle" /\ off[c].at = "off"
    BY PlacesFacts
  <2>3. CASE Boot(n)
    <3>1. /\ caller' = [caller EXCEPT ![n] = started] /\ ~alive[n]
          /\ alive' = [alive EXCEPT ![n] = TRUE] /\ UNCHANGED <<latch, cycle>>
      BY <2>3 DEF Boot
    <3>2. \A c \in Callers : caller[n][c].at # "cycle"
      BY <3>1 DEF DeadOK
    <3> HIDE DEF started
    <3>3. \A m \in Nodes, c \in Callers : caller'[m][c].at = "cycle" <=> caller[m][c].at = "cycle"
      BY <2>1, <2>2, <3>1, <3>2
    <3>4. LatchIsOwned'
      BY <3>1, <3>3 DEF LatchIsOwned, NoCycle
    <3>5. QED
      BY <2>1, <3>1, <3>4 DEF DeadOK
  <2>4. CASE Crash(n)
    <3>1. /\ caller' = [caller EXCEPT ![n] = off]
          /\ alive' = [alive EXCEPT ![n] = FALSE]
          /\ latch' = [latch EXCEPT ![n] = FALSE]
          /\ cycle' = [cycle EXCEPT ![n] = NoCycle]
      BY <2>4 DEF Crash
    <3> HIDE DEF off
    <3>2. /\ caller'[n] = off /\ latch'[n] = FALSE /\ cycle'[n] = NoCycle
          /\ \A m \in Nodes : m # n => caller'[m] = caller[m] /\ latch'[m] = latch[m]
                                       /\ cycle'[m] = cycle[m] /\ alive'[m] = alive[m]
      BY <2>1, <3>1
    <3>3. LatchIsOwned'
      BY <2>2, <3>2 DEF LatchIsOwned, NoCycle
    <3>4. QED
      BY <2>2, <3>2, <3>3 DEF DeadOK
  <2>5. QED
    BY <1>6, <2>3, <2>4
<1>7. ASSUME LeaseLost \/ \E n \in Nodes : Replicate(n) \/ LeaseTaken(n)
      PROVE  LatchIsOwned' /\ DeadOK'
  BY <1>1, <1>7 DEF LeaseLost, Replicate, LeaseTaken
<1>8. QED
  BY <1>2, <1>3, <1>4, <1>5, <1>6, <1>7 DEF Next

-----------------------------------------------------------------------------
(* The row of the cycle in flight and the data of a success.                 *)

StatusOK == IdsOK /\ FlightOK /\ SuccessMeansCommitted

(* The rows of n are rewritten: each stays the row of its cycle, and only    *)
(* the cycle in flight, once committed, makes its row a success.             *)
Rewritten(n) ==
    /\ cycles' = cycles
    /\ \A m \in Nodes : /\ db'[m].last = db[m].last /\ db'[m].data = db[m].data
                        /\ m # n => db'[m] = db[m]
    /\ \A row, other \in db'[n].rows : row.id = other.id => row = other
    /\ \A row \in db'[n].rows : \E old \in db[n].rows :
          /\ row.id = old.id /\ row.cycle = old.cycle
          /\ \/ row.status = "success" => row = old
             \/ lease = n /\ row.id = cycle[n].row /\ cycle[n].phase = "committed"

(* recordSuccess, recordFailure and the reap rewrite rows.                   *)
LEMMA RewritesRows ==
  ASSUME TypeOK, StatusOK, NEW n \in Nodes, cycles' = cycles,
         \/ TryWrite(n, Reaped(db[n].rows))
         \/ TryWrite(n, Completed(db[n].rows, cycle[n].row, "failed"))
         \/ /\ cycle[n].phase = "committed"
            /\ TryWrite(n, Completed(db[n].rows, cycle[n].row, "success"))
  PROVE  Rewritten(n)
<1> DEFINE rows == db[n].rows
<1>1. rows \in StatusRows /\ \A row, other \in rows : row.id = other.id => row = other
  BY RowsTyped DEF StatusOK, IdsOK
<1>2. CASE db'[n].rows = rows /\ \A m \in Nodes : /\ db'[m].last = db[m].last
                                                  /\ db'[m].data = db[m].data
                                                  /\ m # n => db'[m] = db[m]
  BY <1>1, <1>2 DEF Rewritten
<1>3. CASE TryWrite(n, Reaped(rows))
  <2>1. \A row \in Reaped(rows) : \E old \in rows :
           row.id = old.id /\ row.cycle = old.cycle /\ (row.status = "success" => row = old)
    BY <1>1, ReapedFacts
  <2>2. \A row, other \in Reaped(rows) : row.id = other.id => row = other
    BY <1>1, UniqueIds
  <2>3. Reaped(rows) \in StatusRows
    BY <1>1, ReapedFacts
  <2>4. QED
    BY <1>2, <1>3, <2>1, <2>2, <2>3, TryWriteFacts DEF Rewritten
<1>4. ASSUME NEW status \in {"success", "failed"},
             TryWrite(n, Completed(rows, cycle[n].row, status)),
             status = "success" => cycle[n].phase = "committed"
      PROVE  Rewritten(n)
  <2>1. \A row \in Completed(rows, cycle[n].row, status) : \E old \in rows :
           /\ row.id = old.id /\ row.cycle = old.cycle
           /\ row.id # cycle[n].row => row = old
           /\ row.id = cycle[n].row => row.status = status
    BY <1>1, CompletedFacts
  <2>2. \A row, other \in Completed(rows, cycle[n].row, status) : row.id = other.id => row = other
    BY <1>1, UniqueIds
  <2>3. Completed(rows, cycle[n].row, status) \in StatusRows
    BY <1>1, CompletedFacts
  <2>4. QED
    BY <1>2, <1>4, <2>1, <2>2, <2>3, TryWriteFacts DEF Rewritten
<1>5. QED
  BY <1>3, <1>4

(* Rewriting keeps ids unique, and each success with its data.               *)
LEMMA RewriteKeeps ==
  ASSUME TypeOK, StatusOK, NEW n \in Nodes, Rewritten(n)
  PROVE  IdsOK' /\ SuccessMeansCommitted'
<1>1. IdsOK'
  BY DEF StatusOK, IdsOK, Rewritten
<1>2. ASSUME NEW m \in Nodes, NEW row \in Successes(db'[m].rows)
      PROVE  row.cycle \in db'[m].data
  <2>1. row \in db'[m].rows /\ row.status = "success" /\ db'[m].data = db[m].data
    BY <1>2 DEF Successes, Rewritten
  <2>2. CASE m # n
    <3>1. row \in Successes(db[m].rows)
      BY <1>2, <2>2 DEF Rewritten
    <3>2. QED
      BY <2>1, <3>1 DEF StatusOK, SuccessMeansCommitted
  <2>3. CASE m = n
    <3>1. PICK old \in db[n].rows :
             /\ row.id = old.id /\ row.cycle = old.cycle
             /\ \/ row = old
                \/ lease = n /\ row.id = cycle[n].row /\ cycle[n].phase = "committed"
      BY <2>1, <2>3 DEF Rewritten
    <3>2. CASE row = old
      BY <2>1, <2>3, <3>1, <3>2 DEF StatusOK, SuccessMeansCommitted, Successes
    <3>3. CASE lease = n /\ row.id = cycle[n].row /\ cycle[n].phase = "committed"
      BY <2>1, <2>3, <3>1, <3>3 DEF StatusOK, FlightOK
    <3>4. QED
      BY <3>1, <3>2, <3>3
  <2>4. QED
    BY <2>2, <2>3
<1>3. QED
  BY <1>1, <1>2 DEF SuccessMeansCommitted

(* A rewrite in a cycle that stays in its phase, is recorded or is over.     *)
LEMMA RewriteInFlight ==
  ASSUME TypeOK, TypeOK', StatusOK, NEW n \in Nodes, Rewritten(n), lease' = lease,
         \A m \in Nodes : m # n => cycle'[m] = cycle[m],
         \/ /\ cycle'[n].row = cycle[n].row /\ cycle'[n].id = cycle[n].id
            /\ cycle'[n].phase = "recorded" /\ cycle[n].phase = "committed"
         \/ /\ cycle'[n] = cycle[n]
            /\ \A row \in db'[n].rows : \E old \in db[n].rows :
                  /\ row.id = old.id /\ row.cycle = old.cycle
                  /\ row.status = "success" => row = old
         \/ cycle'[n] = NoCycle
  PROVE  FlightOK'
<1> SUFFICES ASSUME NEW m \in Nodes, lease' = m
             PROVE  /\ cycle'[m].row <= db'[m].last
                    /\ cycle'[m].phase \in {"committed", "recorded"} => cycle'[m].id \in db'[m].data
                    /\ \A row \in db'[m].rows : row.id = cycle'[m].row =>
                          /\ row.cycle = cycle'[m].id
                          /\ row.status = "success" => cycle'[m].phase = "recorded"
  BY DEF FlightOK
<1>1. /\ cycle[m].row <= db[m].last
      /\ cycle[m].phase \in {"committed", "recorded"} => cycle[m].id \in db[m].data
      /\ \A row \in db[m].rows : row.id = cycle[m].row =>
            /\ row.cycle = cycle[m].id
            /\ row.status = "success" => cycle[m].phase = "recorded"
  BY DEF StatusOK, FlightOK
<1>2. CASE m # n
  BY <1>1, <1>2 DEF Rewritten
<1>3. CASE m = n /\ cycle'[n] = NoCycle
  <2>1. db'[n].last \in Nat /\ \A row \in db'[n].rows : row.id \in Nat \ {0}
    BY DEF TypeOK, Database, Row, Ids
  <2>2. NoCycle.row = 0 /\ NoCycle.phase = "none"
    BY PlacesFacts
  <2>3. QED
    BY <1>3, <2>1, <2>2
<1>4. CASE m = n /\ cycle'[n] # NoCycle
  BY <1>1, <1>4 DEF Rewritten
<1>5. QED
  BY <1>2, <1>3, <1>4

(* Nothing happens to the database, the lease and the cycles.                *)
LEMMA StatusStays ==
  ASSUME StatusOK, UNCHANGED <<lease, db, cycle, cycles>>
  PROVE  StatusOK'
BY DEF StatusOK, IdsOK, FlightOK, SuccessMeansCommitted, Successes

(* The reap of a boot or of a promotion.                                     *)
LEMMA StatusReaped ==
  ASSUME TypeOK, TypeOK', StatusOK, NEW n \in Nodes,
         TryWrite(n, Reaped(db[n].rows)), UNCHANGED <<lease, cycle, cycles>>
  PROVE  StatusOK'
<1>1. Rewritten(n)
  BY RewritesRows
<1>2. \A row \in db'[n].rows : \E old \in db[n].rows :
         /\ row.id = old.id /\ row.cycle = old.cycle
         /\ row.status = "success" => row = old
  BY RowsTyped, ReapedFacts, TryWriteFacts
<1>3. FlightOK'
  BY <1>1, <1>2, RewriteInFlight
<1>4. QED
  BY <1>1, <1>3, RewriteKeeps DEF StatusOK

(* A cycle begins with a row of its own.                                     *)
LEMMA StatusEntered ==
  ASSUME TypeOK, TypeOK', StatusOK, NEW n \in Nodes, NEW c \in Callers,
         NEW full \in BOOLEAN, NEW pruned \in BOOLEAN, Enter(n, c, full, pruned)
  PROVE  StatusOK'
<1> DEFINE row == [id |-> db[n].last + 1, status |-> "running", full |-> full, cycle |-> cycles']
           rows == db[n].rows \cup {row}
<1>1. /\ cycles' = cycles + 1
      /\ \A m \in Nodes : m # n => db'[m] = db[m] /\ cycle'[m] = cycle[m]
      /\ cycle'[n].phase = "fetch"
      /\ \/ cycle'[n].row = 0 /\ db'[n] = db[n]
         \/ /\ lease = n
            /\ cycle'[n].row = db[n].last + 1
            /\ cycle'[n].id = cycles'
            /\ db'[n].last = db[n].last + 1
            /\ db'[n].data = db[n].data
            /\ row \in Row /\ db'[n].rows \in {rows, Pruned(rows)}
  BY EnterFacts DEF StatusOK
<1>2. lease' = lease
  BY DEF Enter
<1>3. /\ \A m \in Nodes : db[m].last <= cycles /\ db[m].last \in Nat
      /\ cycles \in Nat
      /\ \A m \in Nodes : \A old \in db[m].rows : old.id \in Nat \ {0} /\ old.id <= db[m].last
      /\ \A m \in Nodes : db[m].rows \in StatusRows
  BY WorkerAssumption DEF TypeOK, Database, Row, Ids, StatusOK, IdsOK, StatusRows
<1>4. row.id = db[n].last + 1 /\ row.status = "running" /\ row.cycle = cycles'
  OBVIOUS
<1> HIDE DEF row
<1>5. CASE cycle'[n].row = 0 /\ db'[n] = db[n]
  <2>1. IdsOK'
    <3> SUFFICES ASSUME NEW m \in Nodes
                 PROVE  /\ db'[m].last <= cycles'
                        /\ \A one \in db'[m].rows : one.id <= db'[m].last
                        /\ \A one, other \in db'[m].rows : one.id = other.id => one = other
      BY DEF IdsOK
    <3>1. db'[m] = db[m]
      BY <1>1, <1>5
    <3>2. /\ db[m].last <= cycles
          /\ \A one \in db[m].rows : one.id <= db[m].last
          /\ \A one, other \in db[m].rows : one.id = other.id => one = other
      BY DEF StatusOK, IdsOK
    <3>3. db[m].last <= cycles'
      BY <1>1, <1>3, <3>2
    <3>4. QED
      BY <3>1, <3>2, <3>3
  <2>2. FlightOK'
    BY <1>1, <1>2, <1>3, <1>5 DEF StatusOK, FlightOK
  <2>3. SuccessMeansCommitted'
    BY <1>1, <1>5 DEF StatusOK, SuccessMeansCommitted, Successes
  <2>4. QED
    BY <2>1, <2>2, <2>3 DEF StatusOK
<1>6. CASE /\ lease = n
           /\ cycle'[n].row = db[n].last + 1
           /\ cycle'[n].id = cycles'
           /\ db'[n].last = db[n].last + 1
           /\ db'[n].data = db[n].data
           /\ row \in Row /\ db'[n].rows \in {rows, Pruned(rows)}
  <2>1. db'[n].rows \subseteq rows
    BY <1>3, <1>6, PrunedFacts DEF StatusRows
  <2>2. \A one \in db'[n].rows : one = row \/ (one \in db[n].rows /\ one.id < db[n].last + 1)
    BY <1>3, <2>1
  <2>3. IdsOK'
    <3> SUFFICES ASSUME NEW m \in Nodes
                 PROVE  /\ db'[m].last <= cycles'
                        /\ \A one \in db'[m].rows : one.id <= db'[m].last
                        /\ \A one, other \in db'[m].rows : one.id = other.id => one = other
      BY DEF IdsOK
    <3>1. /\ db[m].last <= cycles
          /\ \A one \in db[m].rows : one.id <= db[m].last
          /\ \A one, other \in db[m].rows : one.id = other.id => one = other
      BY DEF StatusOK, IdsOK
    <3>2. CASE m # n
      <4>1. db'[m] = db[m]
        BY <1>1, <3>2
      <4>2. db[m].last <= cycles'
        BY <1>1, <1>3, <3>1
      <4>3. QED
        BY <3>1, <4>1, <4>2
    <3>3. CASE m = n
      <4>1. db'[m].last <= cycles'
        BY <1>1, <1>3, <1>6, <3>1, <3>3
      <4>2. \A one \in db'[m].rows : one.id <= db'[m].last
        BY <1>3, <1>4, <1>6, <2>2, <3>3
      <4>3. \A one, other \in db'[m].rows : one.id = other.id => one = other
        BY <1>3, <1>4, <2>2, <3>1, <3>3
      <4>4. QED
        BY <4>1, <4>2, <4>3
    <3>4. QED
      BY <3>2, <3>3
  <2>4. FlightOK'
    <3>1. \A one \in db'[n].rows : one.id = cycle'[n].row => one = row
      BY <1>3, <1>6, <2>2
    <3>2. db[n].last + 1 <= db'[n].last
      BY <1>3, <1>6
    <3>3. QED
      BY <1>1, <1>2, <1>4, <1>6, <3>1, <3>2 DEF FlightOK
  <2>5. SuccessMeansCommitted'
    BY <1>1, <1>4, <1>6, <2>2 DEF StatusOK, SuccessMeansCommitted, Successes
  <2>6. QED
    BY <2>3, <2>4, <2>5 DEF StatusOK
<1>7. QED
  BY <1>1, <1>5, <1>6

(* OpenTx and Commit: the cycle in flight goes on.                           *)
LEMMA StatusGoesOn ==
  ASSUME TypeOK, TypeOK', StatusOK, NEW n \in Nodes, OpenTx(n) \/ Commit(n)
  PROVE  StatusOK'
<1>1. /\ lease = n /\ lease' = lease /\ cycles' = cycles
      /\ cycle[n].phase \in {"fetch", "tx"} /\ cycle'[n].phase \in {"tx", "committed"}
      /\ cycle'[n].row = cycle[n].row /\ cycle'[n].id = cycle[n].id
      /\ \A m \in Nodes : m # n => cycle'[m] = cycle[m]
  BY PhaseFacts DEF OpenTx, Commit, CanWrite
<1>2. /\ \A m \in Nodes : m # n => db'[m] = db[m]
      /\ db'[n].last = db[n].last /\ db'[n].rows = db[n].rows
      /\ db[n].data \subseteq db'[n].data
      /\ cycle'[n].phase = "committed" => cycle[n].id \in db'[n].data
  <2>1. CASE OpenTx(n)
    BY <2>1, PhaseFacts DEF OpenTx
  <2>2. CASE Commit(n)
    BY <2>2, CommitFacts
  <2>3. QED
    BY <2>1, <2>2
<1>3. IdsOK'
  BY <1>1, <1>2 DEF StatusOK, IdsOK
<1>4. FlightOK'
  BY <1>1, <1>2 DEF StatusOK, FlightOK
<1>5. SuccessMeansCommitted'
  BY <1>2 DEF StatusOK, SuccessMeansCommitted, Successes
<1>6. QED
  BY <1>3, <1>4, <1>5 DEF StatusOK

(* recordSuccess writes the row of a cycle that has committed.               *)
LEMMA StatusRecorded ==
  ASSUME TypeOK, TypeOK', StatusOK, NEW n \in Nodes, RecordSuccess(n)
  PROVE  StatusOK'
<1>1. /\ lease' = lease /\ cycles' = cycles /\ cycle[n].phase = "committed"
      /\ TryWrite(n, Completed(db[n].rows, cycle[n].row, "success"))
      /\ cycle'[n].phase = "recorded"
      /\ cycle'[n].row = cycle[n].row /\ cycle'[n].id = cycle[n].id
      /\ \A m \in Nodes : m # n => cycle'[m] = cycle[m]
  BY PhaseFacts DEF RecordSuccess
<1>2. Rewritten(n)
  BY <1>1, RewritesRows
<1>3. QED
  BY <1>1, <1>2, RewriteKeeps, RewriteInFlight DEF StatusOK

(* recordFailure writes the row of the cycle that ends.                      *)
LEMMA StatusFailed ==
  ASSUME TypeOK, TypeOK', StatusOK, NEW n \in Nodes, NEW c \in Callers, NEW retry \in BOOLEAN,
         Fail(n, c, retry)
  PROVE  StatusOK'
<1> DEFINE next == IF retry THEN AfterFailure(caller[n][c]) ELSE Waiting
<1>1. /\ lease' = lease /\ cycles' = cycles
      /\ TryWrite(n, Completed(db[n].rows, cycle[n].row, "failed"))
      /\ Returns(n, c, next)
  BY DEF Fail
<1>2. next \in Place
  BY PlacesFacts, TypesOfParts, AfterFailureFacts
<1> HIDE DEF next
<1>3. cycle'[n] = NoCycle /\ \A m \in Nodes : m # n => cycle'[m] = cycle[m]
  BY <1>1, <1>2, ReturnsFacts
<1>4. Rewritten(n)
  BY <1>1, RewritesRows
<1>5. QED
  BY <1>1, <1>3, <1>4, RewriteKeeps, RewriteInFlight DEF StatusOK

(* No cycle is in flight on the lease holder after a step that moves the     *)
(* lease or ends a cycle.                                                    *)
LEMMA StatusMoves ==
  ASSUME TypeOK, TypeOK', StatusOK, UNCHANGED <<db, cycles>>,
         \A m \in Nodes : lease' = m => cycle'[m] = NoCycle \/ (lease = m /\ cycle'[m] = cycle[m])
  PROVE  StatusOK'
<1>1. IdsOK' /\ SuccessMeansCommitted'
  BY DEF StatusOK, IdsOK, SuccessMeansCommitted, Successes
<1>2. \A m \in Nodes : db[m].last \in Nat /\ \A row \in db[m].rows : row.id \in Nat \ {0}
  BY DEF TypeOK, Database, Row, Ids
<1>3. FlightOK'
  BY <1>2, PlacesFacts DEF StatusOK, FlightOK
<1>4. QED
  BY <1>1, <1>3 DEF StatusOK

(* A replica becomes a copy of the lease holder.                             *)
LEMMA StatusReplicated ==
  ASSUME TypeOK, StatusOK, NEW n \in Nodes, Replicate(n)
  PROVE  StatusOK'
<1>1. /\ lease \in Nodes /\ lease # n /\ db' = [db EXCEPT ![n] = db[lease]]
      /\ UNCHANGED <<lease, cycle, cycles>>
  BY DEF Replicate, TypeOK
<1>2. db'[n] = db[lease] /\ \A m \in Nodes : m # n => db'[m] = db[m]
  BY <1>1 DEF TypeOK
<1>3. IdsOK'
  BY <1>1, <1>2 DEF StatusOK, IdsOK
<1>4. FlightOK'
  BY <1>1, <1>2 DEF StatusOK, FlightOK
<1>5. SuccessMeansCommitted'
  BY <1>1, <1>2 DEF StatusOK, SuccessMeansCommitted, Successes
<1>6. QED
  BY <1>3, <1>4, <1>5 DEF StatusOK

(* Every step keeps the rows, their cycles and their data together.          *)
LEMMA StatusKept ==
  ASSUME TypeOK, TypeOK', StatusOK, Next
  PROVE  StatusOK'
<1> USE DEF node
<1>1. ASSUME NEW n \in Nodes, CycleStep(n) PROVE StatusOK'
  <2>1. ASSUME NEW c \in Callers, Succeed(n, c) PROVE StatusOK'
    <3>1. cycle'[n] = NoCycle /\ \A m \in Nodes : m # n => cycle'[m] = cycle[m]
      BY <2>1, PlacesFacts, ReturnsFacts DEF Succeed
    <3>2. UNCHANGED <<db, cycles, lease>>
      BY <2>1 DEF Succeed
    <3>3. QED
      BY <3>1, <3>2, StatusMoves
  <2>2. QED
    BY <1>1, <2>1, StatusGoesOn, StatusRecorded, StatusFailed DEF CycleStep
<1>2. ASSUME NEW n \in Nodes, NEW c \in Callers, CallerStep(n, c) PROVE StatusOK'
  <2>1. CASE Busy(n, c) \/ OutOfCycles(n, c) \/ BackoffEnds(n, c) \/ BackoffCancelled(n, c)
    BY <2>1, StatusStays DEF Busy, OutOfCycles, BackoffEnds, BackoffCancelled
  <2>2. QED
    BY <1>2, <2>1, StatusEntered DEF CallerStep
<1>3. ASSUME NEW n \in Nodes, SchedulerStep(n) PROVE StatusOK'
  <2>1. CASE StartScheduler(n) \/ Demoted(n) \/ Heartbeat(n) \/ Due(n)
    BY <2>1, StatusStays DEF StartScheduler, Demoted, Heartbeat, Due
  <2>2. CASE Promoted(n)
    BY <2>2, StatusReaped DEF Promoted
  <2>3. QED
    BY <1>3, <2>1, <2>2 DEF SchedulerStep
<1>4. ASSUME NEW n \in Nodes, NEW full \in BOOLEAN, Post(n, full) PROVE StatusOK'
  BY <1>4, StatusStays DEF Post
<1>5. ASSUME NEW n \in Nodes, Boot(n) PROVE StatusOK'
  <2>1. UNCHANGED <<lease, cycle, cycles>>
    BY <1>5 DEF Boot
  <2>2. CASE UNCHANGED db
    BY <2>1, <2>2, StatusStays
  <2>3. CASE TryWrite(n, Reaped(db[n].rows))
    BY <2>1, <2>3, StatusReaped
  <2>4. QED
    BY <1>5, <2>2, <2>3 DEF Boot
<1>6. ASSUME NEW n \in Nodes, LeaseTaken(n) PROVE StatusOK'
  BY <1>6, StatusMoves DEF LeaseTaken
<1>7. ASSUME NEW n \in Nodes, Crash(n) PROVE StatusOK'
  <2>1. cycle' = [cycle EXCEPT ![n] = NoCycle] /\ UNCHANGED <<db, cycles>>
        /\ lease' = IF lease = n THEN NoNode ELSE lease
    BY <1>7 DEF Crash
  <2>2. \A m \in Nodes : lease' = m => lease = m /\ cycle'[m] = cycle[m]
    BY <2>1, WorkerAssumption DEF TypeOK
  <2>3. QED
    BY <2>1, <2>2, StatusMoves
<1>8. CASE LeaseLost
  BY <1>8, StatusMoves, WorkerAssumption DEF LeaseLost
<1>9. QED
  BY <1>1, <1>2, <1>3, <1>4, <1>5, <1>6, <1>7, <1>8, StatusReplicated DEF Next

-----------------------------------------------------------------------------
(* The theorems.                                                             *)

(* A new fleet satisfies the invariant.                                      *)
LEMMA InitWorkerInv == Init => WorkerInv
<1> SUFFICES ASSUME Init PROVE WorkerInv
  OBVIOUS
<1>1. MaxCycles \in Nat /\ MaxMoves \in Nat
  BY WorkerAssumption
<1>2. \A n \in Nodes : /\ db[n] = [last |-> 0, rows |-> {}, data |-> {}]
                       /\ cycle[n] = NoCycle /\ latch[n] = FALSE
                       /\ \A c \in Callers : caller[n][c].at = "off"
  BY PlacesFacts DEF Init
<1>3. TypeOK
  <2>1. [last |-> 0, rows |-> {}, data |-> {}] \in Database
    BY <1>1 DEF Database
  <2>2. db \in [Nodes -> Database]
    BY <2>1 DEF Init
  <2>3. caller \in [Nodes -> [Callers -> Place]]
    BY PlacesFacts DEF Init
  <2>4. cycle \in [Nodes -> Flight \cup {NoCycle}]
    BY DEF Init
  <2>5. QED
    BY <1>1, <2>2, <2>3, <2>4 DEF Init, TypeOK
<1>4. LatchIsOwned /\ DeadOK
  BY <1>2 DEF LatchIsOwned, DeadOK
<1>5. IdsOK /\ FlightOK /\ SuccessMeansCommitted
  <2>1. cycles = 0
    BY DEF Init
  <2>2. QED
    BY <1>2, <2>1, PlacesFacts DEF IdsOK, FlightOK, SuccessMeansCommitted, Successes
<1>6. QED
  BY <1>3, <1>4, <1>5 DEF WorkerInv

(* A step, or a stutter, keeps the invariant.                                *)
LEMMA NextWorkerInv == WorkerInv /\ [Next]_vars => WorkerInv'
<1> SUFFICES ASSUME WorkerInv, [Next]_vars PROVE WorkerInv'
  OBVIOUS
<1>1. TypeOK /\ IdsOK /\ LatchIsOwned /\ DeadOK /\ StatusOK
  BY DEF WorkerInv, StatusOK
<1>2. CASE Next
  <2>1. TypeOK'
    BY <1>1, <1>2, TypeKept
  <2>2. LatchIsOwned' /\ DeadOK'
    BY <1>1, <1>2, LatchKept
  <2>3. StatusOK'
    BY <1>1, <1>2, <2>1, StatusKept
  <2>4. QED
    BY <2>1, <2>2, <2>3 DEF WorkerInv, StatusOK
<1>3. CASE UNCHANGED vars
  BY <1>1, <1>3 DEF vars, node, WorkerInv, TypeOK, LatchIsOwned, DeadOK, IdsOK, FlightOK,
                    SuccessMeansCommitted, Successes, NoCycle
<1>4. QED
  BY <1>2, <1>3

(* WorkerInv holds in every reachable state of every fleet: it is inductive. *)
THEOREM WorkerInductive == Spec => []WorkerInv
BY InitWorkerInv, NextWorkerInv, PTL DEF Spec

(* Every variable keeps its type in every fleet.                             *)
THEOREM WorkerTypeCorrect == Spec => []TypeOK
<1>1. WorkerInv => TypeOK
  BY DEF WorkerInv
<1>2. QED
  BY <1>1, WorkerInductive, PTL

(* Whatever the scheduler, the requests, the retries, the crashes and the    *)
(* failovers do, the running latch is held by the one caller whose cycle     *)
(* runs, and it is free when no cycle runs.                                  *)
THEOREM OneOwner == Spec => []LatchIsOwned
<1>1. WorkerInv => LatchIsOwned
  BY DEF WorkerInv
<1>2. QED
  BY <1>1, WorkerInductive, PTL

(* However often the lease moves, no copy of the database claims a success   *)
(* whose data it does not hold.                                              *)
THEOREM SuccessHasData == Spec => []SuccessMeansCommitted
<1>1. WorkerInv => SuccessMeansCommitted
  BY DEF WorkerInv
<1>2. QED
  BY <1>1, WorkerInductive, PTL

-----------------------------------------------------------------------------
(* The last success.                                                         *)

(* The newest id of some rows is one of theirs, or zero.                     *)
LEMMA NewestFacts ==
  ASSUME NEW rows \in StatusRows
  PROVE  /\ NewestId(rows) \in Nat
         /\ \A row \in rows : row.id <= NewestId(rows)
         /\ NewestId(rows) = 0 \/ \E row \in rows : row.id = NewestId(rows)
<1> DEFINE ids == {row.id : row \in rows} \cup {0}
<1>1. MaxCycles \in Nat
  BY WorkerAssumption
<1>2. ids \in SUBSET (0..MaxCycles) /\ ids # {}
  BY <1>1 DEF StatusRows, Row, Ids
<1>3. Max(ids) \in ids /\ \A id \in ids : id <= Max(ids)
  <2> HIDE DEF ids
  <2>1. QED
    BY <1>1, <1>2, MaxExists
<1>4. QED
  BY <1>2, <1>3 DEF NewestId

(* The two answers do not get older when the rows they stand on stay.        *)
LEMMA AnchorsStay ==
  ASSUME NEW old \in StatusRows, NEW new \in StatusRows,
         \A row \in Successes(old) :
            row.id \in {NewestId(Successes(old)), NewestId(FullSuccesses(old))} => row \in new
  PROVE  /\ NewestId(Successes(new)) >= NewestId(Successes(old))
         /\ NewestId(FullSuccesses(new)) >= NewestId(FullSuccesses(old))
<1>1. /\ Successes(old) \in StatusRows /\ Successes(new) \in StatusRows
      /\ FullSuccesses(old) \in StatusRows /\ FullSuccesses(new) \in StatusRows
  BY DEF Successes, FullSuccesses, StatusRows
<1>2. NewestId(Successes(new)) >= NewestId(Successes(old))
  <2>1. \A row \in Successes(old) : row.id = NewestId(Successes(old)) => row \in Successes(new)
    BY DEF Successes
  <2>2. QED
    BY <1>1, <2>1, NewestFacts
<1>3. NewestId(FullSuccesses(new)) >= NewestId(FullSuccesses(old))
  <2>1. \A row \in FullSuccesses(old) :
           row.id = NewestId(FullSuccesses(old)) => row \in FullSuccesses(new)
    BY DEF Successes, FullSuccesses
  <2>2. QED
    BY <1>1, <2>1, NewestFacts
<1>4. QED
  BY <1>2, <1>3

(* A reap, and the end of a cycle that has not been recorded, leave every    *)
(* success of the lease holder alone.                                        *)
LEMMA SuccessesStay ==
  ASSUME TypeOK, StatusOK, NEW n \in Nodes, NEW m \in Nodes,
         \/ TryWrite(m, Reaped(db[m].rows))
         \/ /\ cycle[m].phase # "recorded"
            /\ \E status \in {"success", "failed"} :
                 TryWrite(m, Completed(db[m].rows, cycle[m].row, status))
  PROVE  \A row \in Successes(db[n].rows) : row \in db'[n].rows
<1> TAKE row \in Successes(db[n].rows)
<1>1. row \in db[n].rows /\ row.status = "success"
  BY DEF Successes
<1>2. CASE db'[n] = db[n] \/ db'[n].rows = db[n].rows
  BY <1>1, <1>2
<1>3. CASE TryWrite(m, Reaped(db[m].rows))
  <2>1. m # n \/ db'[n].rows = db[n].rows \/ db'[n].rows = Reaped(db[n].rows)
    BY <1>3, RowsTyped, TryWriteFacts
  <2>2. row \in Reaped(db[n].rows)
    BY <1>1, RowsTyped, ReapedFacts
  <2>3. m # n => db'[n] = db[n]
    BY <1>3, RowsTyped, TryWriteFacts
  <2>4. QED
    BY <1>2, <2>1, <2>2, <2>3
<1>4. ASSUME NEW status \in {"success", "failed"}, cycle[m].phase # "recorded",
             TryWrite(m, Completed(db[m].rows, cycle[m].row, status))
      PROVE  row \in db'[n].rows
  <2>1. /\ m # n => db'[n] = db[n]
        /\ m = n => \/ db'[n].rows = db[n].rows
                    \/ /\ lease = n
                       /\ db'[n].rows = Completed(db[n].rows, cycle[n].row, status)
    BY <1>4, RowsTyped, TryWriteFacts
  <2>2. ASSUME m = n, lease = n PROVE row \in Completed(db[n].rows, cycle[n].row, status)
    <3>1. row.id # cycle[n].row
      BY <1>1, <1>4, <2>2 DEF StatusOK, FlightOK
    <3>2. QED
      BY <1>1, <3>1, RowsTyped, CompletedFacts
  <2>3. QED
    BY <1>2, <2>1, <2>2
<1>5. QED
  BY <1>3, <1>4

(* A new row and its prune leave the newest success and the newest full      *)
(* success in place.                                                         *)
LEMMA AnchorsEnter ==
  ASSUME TypeOK, IdsOK, NEW n \in Nodes, NEW c \in Callers,
         NEW full \in BOOLEAN, NEW pruned \in BOOLEAN, Enter(n, c, full, pruned)
  PROVE  \A row \in Successes(db[n].rows) :
            row.id \in {NewestId(Successes(db[n].rows)), NewestId(FullSuccesses(db[n].rows))}
            => row \in db'[n].rows
<1> DEFINE begun == [id |-> db[n].last + 1, status |-> "running", full |-> full, cycle |-> cycles']
           rows == db[n].rows \cup {begun}
<1>1. \/ db'[n] = db[n]
      \/ begun \in Row /\ db'[n].rows \in {rows, Pruned(rows)}
  BY EnterFacts
<1>2. Successes(rows) = Successes(db[n].rows)
  BY DEF Successes
<1>3. FullSuccesses(rows) = FullSuccesses(db[n].rows)
  BY <1>2 DEF FullSuccesses
<1>4. CASE db'[n] = db[n]
  BY <1>4 DEF Successes
<1>5. CASE begun \in Row /\ db'[n].rows \in {rows, Pruned(rows)}
  <2>1. rows \in StatusRows
    BY <1>5, RowsTyped DEF StatusRows
  <2>2. \A row \in rows :
           row.id = NewestId(Successes(rows)) \/ row.id = NewestId(FullSuccesses(rows))
           => row \in Pruned(rows)
    BY <2>1, PrunedFacts
  <2>3. \A row \in Successes(rows) : row \in rows
    BY DEF Successes
  <2> HIDE DEF rows
  <2>4. QED
    BY <1>2, <1>3, <1>5, <2>2, <2>3
<1>6. QED
  BY <1>1, <1>4, <1>5

(* Every step leaves the newest success and the newest full success of the   *)
(* lease holder in place, but for the end of a recorded cycle.               *)
LEMMA AnchorsKept ==
  ASSUME TypeOK, StatusOK, Next, NEW n \in Nodes, lease = n,
         cycle[n].phase = "recorded" => cycle'[n] = cycle[n]
  PROVE  \A row \in Successes(db[n].rows) :
            row.id \in {NewestId(Successes(db[n].rows)), NewestId(FullSuccesses(db[n].rows))}
            => row \in db'[n].rows
<1> DEFINE goal == \A row \in Successes(db[n].rows) :
            row.id \in {NewestId(Successes(db[n].rows)), NewestId(FullSuccesses(db[n].rows))}
            => row \in db'[n].rows
<1>1. ASSUME db'[n] = db[n] \/ db'[n].rows = db[n].rows PROVE goal
  BY <1>1 DEF Successes
<1>2. ASSUME \A row \in Successes(db[n].rows) : row \in db'[n].rows PROVE goal
  BY <1>2
<1> HIDE DEF goal
<1>3. ASSUME NEW m \in Nodes, CycleStep(m) PROVE goal
  <2>1. CASE OpenTx(m)
    BY <1>1, <2>1 DEF OpenTx
  <2>2. CASE Commit(m)
    BY <1>1, <2>2, CommitFacts
  <2>3. CASE RecordSuccess(m)
    BY <1>2, <2>3, SuccessesStay DEF RecordSuccess
  <2>4. ASSUME NEW c \in Callers, Succeed(m, c) PROVE goal
    BY <1>1, <2>4 DEF Succeed
  <2>5. ASSUME NEW c \in Callers, NEW retry \in BOOLEAN, Fail(m, c, retry) PROVE goal
    <3>1. TryWrite(m, Completed(db[m].rows, cycle[m].row, "failed"))
      BY <2>5 DEF Fail
    <3>2. m = n => cycle[m].phase # "recorded"
      <4>1. m = n => cycle'[n] = NoCycle
        BY <2>5 DEF Fail, Returns, TypeOK
      <4>2. QED
        BY <4>1, PlacesFacts
    <3>3. m # n => db'[n] = db[n]
      BY <3>1, RowsTyped, TryWriteFacts
    <3>4. QED
      BY <1>1, <1>2, <3>1, <3>2, <3>3, SuccessesStay
  <2>6. QED
    BY <1>3, <2>1, <2>2, <2>3, <2>4, <2>5 DEF CycleStep
<1>4. ASSUME NEW m \in Nodes, NEW c \in Callers, CallerStep(m, c) PROVE goal
  <2>1. CASE Busy(m, c) \/ OutOfCycles(m, c) \/ BackoffEnds(m, c) \/ BackoffCancelled(m, c)
    BY <1>1, <2>1 DEF Busy, OutOfCycles, BackoffEnds, BackoffCancelled
  <2>2. ASSUME NEW full \in BOOLEAN, NEW pruned \in BOOLEAN, Enter(m, c, full, pruned) PROVE goal
    <3>1. m # n => db'[n] = db[n]
      BY <2>2, EnterFacts DEF StatusOK
    <3>2. m = n => goal
      BY <2>2, AnchorsEnter DEF StatusOK, goal
    <3>3. QED
      BY <1>1, <3>1, <3>2
  <2>3. QED
    BY <1>4, <2>1, <2>2 DEF CallerStep
<1>5. ASSUME NEW m \in Nodes, SchedulerStep(m) PROVE goal
  <2>1. CASE StartScheduler(m) \/ Demoted(m) \/ Heartbeat(m) \/ Due(m)
    BY <1>1, <2>1 DEF StartScheduler, Demoted, Heartbeat, Due
  <2>2. CASE Promoted(m)
    BY <1>2, <2>2, SuccessesStay DEF Promoted
  <2>3. QED
    BY <1>5, <2>1, <2>2 DEF SchedulerStep
<1>6. ASSUME NEW m \in Nodes, Boot(m) PROVE goal
  BY <1>1, <1>2, <1>6, SuccessesStay DEF Boot
<1>7. ASSUME NEW m \in Nodes, Replicate(m) PROVE goal
  BY <1>1, <1>7 DEF Replicate, TypeOK
<1>8. ASSUME NEW m \in Nodes, LeaseTaken(m) \/ Crash(m) \/ \E full \in BOOLEAN : Post(m, full)
      PROVE  goal
  BY <1>1, <1>8 DEF LeaseTaken, Crash, Post
<1>9. ASSUME LeaseLost PROVE goal
  BY <1>1, <1>9 DEF LeaseLost
<1>10. goal
  BY <1>3, <1>4, <1>5, <1>6, <1>7, <1>8, <1>9 DEF Next
<1>11. QED
  BY <1>10 DEF goal

(* Through prunes, reaps, failures, restarts and failovers, the last success *)
(* and the last full success that the lease holder reads never get older,    *)
(* except when a cycle that is already recorded ends in a panic.             *)
THEOREM LastSuccessIsKept == Spec => FreshnessKept
<1> DEFINE step ==
      \A n \in Nodes :
         lease = n /\ (cycle[n].phase = "recorded" => cycle'[n] = cycle[n]) =>
             /\ NewestId(Successes(db'[n].rows)) >= NewestId(Successes(db[n].rows))
             /\ NewestId(FullSuccesses(db'[n].rows)) >= NewestId(FullSuccesses(db[n].rows))
<1>1. WorkerInv /\ WorkerInv' /\ [Next]_vars => [step]_vars
  <2> SUFFICES ASSUME WorkerInv, WorkerInv', Next, NEW n \in Nodes, lease = n,
                      cycle[n].phase = "recorded" => cycle'[n] = cycle[n]
               PROVE  /\ NewestId(Successes(db'[n].rows)) >= NewestId(Successes(db[n].rows))
                      /\ NewestId(FullSuccesses(db'[n].rows)) >= NewestId(FullSuccesses(db[n].rows))
    OBVIOUS
  <2>1. TypeOK /\ StatusOK /\ TypeOK'
    BY DEF WorkerInv, StatusOK
  <2>2. db[n].rows \in StatusRows /\ db'[n].rows \in StatusRows
    BY <2>1 DEF TypeOK, Database, StatusRows
  <2>3. QED
    BY <2>1, <2>2, AnchorsKept, AnchorsStay
<1>2. Spec => [][step]_vars
  BY <1>1, WorkerInductive, PTL DEF Spec
<1>3. QED
  BY <1>2 DEF FreshnessKept
=============================================================================
