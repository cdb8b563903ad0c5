----------------------------- MODULE SyncWorker -----------------------------
(* The sync workers of the nodes that LiteFS can elect as primary: the       *)
(* scheduler, POST /sync, the running latch, the retry ladder and the        *)
(* sync_status table, which LiteFS replicates with the entity tables         *)
(* (internal/sync/worker.go and status.go, cmd/peeringdb-plus,               *)
(* internal/litefs). What a cycle fetches and writes is MirrorSync's matter: *)
(* here its whole data is one commit.                                        *)
EXTENDS Integers, FiniteSetsExt

CONSTANTS
    Nodes,      \* the lease candidates
    NoNode,     \* no node holds the lease
    Callers,    \* who calls SyncWithRetry on a node: the scheduler, a POST /sync
    Retries,    \* the length of retryBackoffs
    Keep,       \* syncStatusKeepRows
    Batch,      \* syncStatusPruneBatch
    MaxCycles,  \* bound: the cycles that start
    MaxMoves    \* bound: the crashes and lease losses

ASSUME WorkerAssumption ==
    /\ NoNode \notin Nodes
    /\ "scheduler" \in Callers /\ Callers \subseteq {"scheduler", "request"}
    /\ Retries \in Nat
    /\ Keep \in Nat \ {0}
    /\ Batch \in Nat \ {0}
    /\ MaxCycles \in Nat
    /\ MaxMoves \in Nat

VARIABLES
    lease,      \* the node that holds the LiteFS lease
    db,         \* each node's copy of the database
    alive,      \* the process runs
    wasPrimary, \* the role that the scheduler saw last
    synced,     \* the readiness latch
    latch,      \* the running latch of the worker
    caller,     \* where each caller of SyncWithRetry is
    cycle,      \* the sync cycle that holds the latch
    cycles,     \* the number of cycles so far, the identity of the next one
    moves       \* the number of crashes and lease losses so far

node == <<alive, wasPrimary, synced>>
vars == <<lease, db, node, latch, caller, cycle, cycles, moves>>

-----------------------------------------------------------------------------
(* The database: the sync_status rows, the AUTOINCREMENT id of the newest    *)
(* one, and the cycles whose data it holds.                                  *)

Ids == 1..MaxCycles
Row == [id : Ids, status : {"running", "success", "failed"}, full : BOOLEAN, cycle : Ids]
Database == [last : 0..MaxCycles, rows : SUBSET Row, data : SUBSET Ids]

NewestId(rows) == Max({row.id : row \in rows} \cup {0})
Successes(rows) == {row \in rows : row.status = "success"}
FullSuccesses(rows) == {row \in Successes(rows) : row.full}

(* GetLastSuccessfulSyncTime is not zero.                                    *)
HasSuccess(n) == Successes(db[n].rows) # {}

(* Mutant: the prune looks at the ids only.                                  *)
PrunedByAge(rows) ==
    LET old == {row \in rows : Quantify(rows, LAMBDA s : s.id > row.id) >= Keep}
    IN  rows \ {row \in old : Quantify(old, LAMBDA s : s.id < row.id) < Batch}

(* pruneSyncStatus: the Batch oldest rows go that are older than the Keep    *)
(* newest ones and that no reader of the last success returns.               *)
Pruned(rows) ==
    LET anchors == {NewestId(Successes(rows)), NewestId(FullSuccesses(rows))}
        old == {row \in rows :
                  /\ Quantify(rows, LAMBDA s : s.id > row.id) >= Keep
                  /\ row.id \notin anchors}
    IN  rows \ {row \in old : Quantify(old, LAMBDA s : s.id < row.id) < Batch}

(* ReapStaleRunningRows.                                                     *)
Reaped(rows) ==
    {IF row.status = "running" THEN [row EXCEPT !.status = "failed"] ELSE row : row \in rows}

(* RecordSyncComplete: the UPDATE of a row that may be gone.                 *)
Completed(rows, id, status) ==
    {IF row.id = id THEN [row EXCEPT !.status = status] ELSE row : row \in rows}

(* IsPrimaryWithFallback on a candidate: no .primary file, which is also so  *)
(* while no node holds the lease.                                            *)
IsPrimary(n) == lease \in {n, NoNode}

(* LiteFS takes writes from the lease holder only.                           *)
CanWrite(n) == lease = n

Write(n, rows) == db' = [db EXCEPT ![n].rows = rows]

(* A write of the status table that may fail: the error is logged.           *)
TryWrite(n, rows) ==
    \/ CanWrite(n) /\ Write(n, rows)
    \/ UNCHANGED db

-----------------------------------------------------------------------------
(* The callers of SyncWithRetry. A full cycle was asked for, or any mode     *)
(* will do.                                                                  *)

At(place) == [at |-> place, tries |-> 0, full |-> FALSE]
Waiting == At("idle")
Calling(full) == [At("ready") EXCEPT !.full = full]
NoCycle == [phase |-> "none", full |-> FALSE, row |-> 0, id |-> 0]

Goes(n, c, state) == caller' = [caller EXCEPT ![n][c] = state]

(* Mutant: the ladder has no end.                                            *)
AfterFailureForever(state) == [state EXCEPT !.at = "backoff", !.tries = @ + 1]

(* SyncWithRetry after a failed attempt.                                     *)
AfterFailure(state) ==
    IF state.tries < Retries
    THEN [state EXCEPT !.at = "backoff", !.tries = @ + 1]
    ELSE Waiting

(* The cycle of c is over: Sync returns and releases the latch.              *)
Returns(n, c, state) ==
    /\ Goes(n, c, state)
    /\ latch' = [latch EXCEPT ![n] = FALSE]
    /\ cycle' = [cycle EXCEPT ![n] = NoCycle]

(* newSyncHandler: 409 when a cycle runs. It looks before the caller takes   *)
(* the latch.                                                                *)
Post(n, full) ==
    /\ alive[n] /\ IsPrimary(n)
    /\ caller[n]["request"] = Waiting
    /\ ~latch[n]
    /\ cycles < MaxCycles
    /\ Goes(n, "request", Calling(full))
    /\ UNCHANGED <<lease, db, node, latch, cycle, cycles, moves>>

(* Sync takes the latch, inserts the running row of the cycle and prunes. A  *)
(* failed INSERT leaves the cycle without a row, a failed prune is skipped.  *)
(* resolveEffectiveMode makes a cycle full when the last full success is too *)
(* long ago.                                                                 *)
Enter(n, c, full, pruned) ==
    /\ caller[n][c].at = "ready"
    /\ ~latch[n]
    /\ cycles < MaxCycles
    /\ caller[n][c].full => full
    /\ cycles' = cycles + 1
    /\ latch' = [latch EXCEPT ![n] = TRUE]
    /\ Goes(n, c, [caller[n][c] EXCEPT !.at = "cycle"])
    /\ LET id == db[n].last + 1
           row == [id |-> id, status |-> "running", full |-> full, cycle |-> cycles']
           rows == db[n].rows \cup {row}
           begun == [phase |-> "fetch", full |-> full, row |-> id, id |-> cycles']
       IN  \/ /\ CanWrite(n)
              /\ db' = [db EXCEPT ![n] = [last |-> id,
                                         rows |-> IF pruned THEN Pruned(rows) ELSE rows,
                                         data |-> @.data]]
              /\ cycle' = [cycle EXCEPT ![n] = begun]
           \/ cycle' = [cycle EXCEPT ![n] = [begun EXCEPT !.row = 0]] /\ UNCHANGED db
    /\ UNCHANGED <<lease, node, moves>>

(* The latch is taken: ErrSyncAlreadyRunning. The first attempt of a ladder  *)
(* gives up, a later one counts as a failure.                                *)
Busy(n, c) ==
    /\ caller[n][c].at = "ready"
    /\ latch[n]
    /\ Goes(n, c, IF caller[n][c].tries = 0 THEN Waiting ELSE AfterFailure(caller[n][c]))
    /\ UNCHANGED <<lease, db, node, latch, cycle, cycles, moves>>

(* The bound on cycles is used up: a caller that is left goes back to wait.  *)
OutOfCycles(n, c) ==
    /\ caller[n][c].at = "ready"
    /\ cycles = MaxCycles /\ ~latch[n]
    /\ Goes(n, c, Waiting)
    /\ UNCHANGED <<lease, db, node, latch, cycle, cycles, moves>>

BackoffEnds(n, c) ==
    /\ caller[n][c].at = "backoff"
    /\ Goes(n, c, [caller[n][c] EXCEPT !.at = "ready"])
    /\ UNCHANGED <<lease, db, node, latch, cycle, cycles, moves>>

(* The demotion monitor cancels the ladder.                                  *)
BackoffCancelled(n, c) ==
    /\ caller[n][c].at = "backoff"
    /\ ~IsPrimary(n)
    /\ Goes(n, c, Waiting)
    /\ UNCHANGED <<lease, db, node, latch, cycle, cycles, moves>>

-----------------------------------------------------------------------------
(* The cycle.                                                                *)

(* Everything is fetched: the sync transaction opens.                        *)
OpenTx(n) ==
    /\ cycle[n].phase = "fetch"
    /\ CanWrite(n)
    /\ cycle' = [cycle EXCEPT ![n].phase = "tx"]
    /\ UNCHANGED <<lease, db, node, latch, caller, cycles, moves>>

Commit(n) ==
    /\ cycle[n].phase = "tx"
    /\ CanWrite(n)
    /\ db' = [db EXCEPT ![n].data = @ \cup {cycle[n].id}]
    /\ cycle' = [cycle EXCEPT ![n].phase = "committed"]
    /\ UNCHANGED <<lease, node, latch, caller, cycles, moves>>

(* Mutant: the outcome is recorded before the commit.                        *)
RecordEarly(n) ==
    /\ cycle[n].phase \in {"tx", "committed"}
    /\ TryWrite(n, Completed(db[n].rows, cycle[n].row, "success"))
    /\ synced' = [synced EXCEPT ![n] = TRUE]
    /\ cycle' = [cycle EXCEPT ![n].phase = "recorded"]
    /\ UNCHANGED <<lease, alive, wasPrimary, latch, caller, cycles, moves>>

(* recordSuccess up to OnSyncComplete: the status row, then the latch.       *)
RecordSuccess(n) ==
    /\ cycle[n].phase = "committed"
    /\ TryWrite(n, Completed(db[n].rows, cycle[n].row, "success"))
    /\ synced' = [synced EXCEPT ![n] = TRUE]
    /\ cycle' = [cycle EXCEPT ![n].phase = "recorded"]
    /\ UNCHANGED <<lease, alive, wasPrimary, latch, caller, cycles, moves>>

Succeed(n, c) ==
    /\ caller[n][c].at = "cycle"
    /\ cycle[n].phase = "recorded"
    /\ Returns(n, c, Waiting)
    /\ UNCHANGED <<lease, db, node, cycles, moves>>

(* Mutant: an early return that forgets the latch.                           *)
FailLatched(n, c, retry) ==
    /\ caller[n][c].at = "cycle"
    /\ cycle[n].phase \in {"fetch", "tx", "recorded"}
    /\ TryWrite(n, Completed(db[n].rows, cycle[n].row, "failed"))
    /\ Goes(n, c, IF retry THEN AfterFailure(caller[n][c]) ELSE Waiting)
    /\ cycle' = [cycle EXCEPT ![n] = NoCycle]
    /\ UNCHANGED <<lease, node, latch, cycles, moves>>

(* The cycle fails, by an error, a cancelled context, the watchdog or a      *)
(* panic, the last one in OnSyncComplete too. The transaction rolls back and *)
(* recordFailure writes the row; after a panic inside the transaction it     *)
(* cannot, as the lock is still held. A rate limit, a WAF block and a        *)
(* shutdown end the ladder.                                                  *)
Fail(n, c, retry) ==
    /\ caller[n][c].at = "cycle"
    /\ cycle[n].phase \in {"fetch", "tx", "recorded"}
    /\ TryWrite(n, Completed(db[n].rows, cycle[n].row, "failed"))
    /\ Returns(n, c, IF retry THEN AfterFailure(caller[n][c]) ELSE Waiting)
    /\ UNCHANGED <<lease, node, cycles, moves>>

-----------------------------------------------------------------------------
(* The process and its scheduler.                                            *)

(* main: the lease holder migrates the schema and reaps the rows of cycles   *)
(* that a killed process left. A candidate that starts while no node holds   *)
(* the lease reads itself as primary, cannot migrate and exits.              *)
Boot(n) ==
    /\ ~alive[n]
    /\ lease # NoNode
    /\ alive' = [alive EXCEPT ![n] = TRUE]
    /\ caller' = [caller EXCEPT ![n] =
                     [c \in Callers |-> IF c = "scheduler" THEN At("start") ELSE Waiting]]
    /\ IF lease = n THEN TryWrite(n, Reaped(db[n].rows)) ELSE UNCHANGED db
    /\ UNCHANGED <<lease, wasPrimary, synced, latch, cycle, cycles, moves>>

(* StartScheduler up to its loop. A primary without a success runs a full    *)
(* cycle at once.                                                            *)
StartScheduler(n) ==
    /\ caller[n]["scheduler"].at = "start"
    /\ synced' = [synced EXCEPT ![n] = @ \/ HasSuccess(n)]
    /\ wasPrimary' = [wasPrimary EXCEPT ![n] = IsPrimary(n)]
    /\ Goes(n, "scheduler", IF IsPrimary(n) /\ ~HasSuccess(n) THEN Calling(TRUE) ELSE Waiting)
    /\ UNCHANGED <<lease, db, alive, latch, cycle, cycles, moves>>

(* The timer of the scheduler fires.                                         *)
Wakes(n) == alive[n] /\ caller[n]["scheduler"].at = "idle"

(* A promotion reaps, and runs a cycle when the last success is too old.     *)
Promoted(n) ==
    /\ Wakes(n) /\ IsPrimary(n) /\ ~wasPrimary[n]
    /\ wasPrimary' = [wasPrimary EXCEPT ![n] = TRUE]
    /\ TryWrite(n, Reaped(db[n].rows))
    /\ \/ Goes(n, "scheduler", Calling(FALSE))
       \/ HasSuccess(n) /\ UNCHANGED caller
    /\ UNCHANGED <<lease, alive, synced, latch, cycle, cycles, moves>>

Demoted(n) ==
    /\ Wakes(n) /\ ~IsPrimary(n) /\ wasPrimary[n]
    /\ wasPrimary' = [wasPrimary EXCEPT ![n] = FALSE]
    /\ UNCHANGED <<lease, db, alive, synced, latch, caller, cycle, cycles, moves>>

(* Mutant: a replica reads the sync history at its start only.               *)
HeartbeatBlind(n) ==
    /\ Wakes(n) /\ ~IsPrimary(n) /\ ~wasPrimary[n]
    /\ UNCHANGED vars

(* The heartbeat of a replica looks for a replicated success.                *)
Heartbeat(n) ==
    /\ Wakes(n) /\ ~IsPrimary(n) /\ ~wasPrimary[n]
    /\ synced' = [synced EXCEPT ![n] = @ \/ HasSuccess(n)]
    /\ UNCHANGED <<lease, db, alive, wasPrimary, latch, caller, cycle, cycles, moves>>

Due(n) ==
    /\ Wakes(n) /\ IsPrimary(n) /\ wasPrimary[n]
    /\ cycles < MaxCycles
    /\ Goes(n, "scheduler", Calling(FALSE))
    /\ UNCHANGED <<lease, db, node, latch, cycle, cycles, moves>>

-----------------------------------------------------------------------------
(* LiteFS and crashes.                                                       *)

(* A replica receives the transactions of the primary in order, so at any    *)
(* time it holds an earlier state of the primary's database.                 *)
Replicate(n) ==
    /\ lease \notin {n, NoNode}
    /\ db[n] # db[lease]
    /\ db' = [db EXCEPT ![n] = db[lease]]
    /\ UNCHANGED <<lease, node, latch, caller, cycle, cycles, moves>>

LeaseLost ==
    /\ lease # NoNode
    /\ moves < MaxMoves
    /\ lease' = NoNode
    /\ moves' = moves + 1
    /\ UNCHANGED <<db, node, latch, caller, cycle, cycles>>

(* A node does not get the lease back within a cycle of its earlier term:    *)
(* the demotion monitor cancels that cycle after a second.                   *)
LeaseTaken(n) ==
    /\ lease = NoNode
    /\ cycle[n] = NoCycle
    /\ lease' = n
    /\ UNCHANGED <<db, node, latch, caller, cycle, cycles, moves>>

(* The process dies at any point and loses its memory; LiteFS on the node    *)
(* gives up the lease. An open transaction is rolled back.                   *)
Crash(n) ==
    /\ alive[n]
    /\ moves < MaxMoves
    /\ moves' = moves + 1
    /\ alive' = [alive EXCEPT ![n] = FALSE]
    /\ wasPrimary' = [wasPrimary EXCEPT ![n] = FALSE]
    /\ synced' = [synced EXCEPT ![n] = FALSE]
    /\ latch' = [latch EXCEPT ![n] = FALSE]
    /\ caller' = [caller EXCEPT ![n] = [c \in Callers |-> At("off")]]
    /\ cycle' = [cycle EXCEPT ![n] = NoCycle]
    /\ lease' = IF lease = n THEN NoNode ELSE lease
    /\ UNCHANGED <<db, cycles>>

-----------------------------------------------------------------------------

(* A new fleet: no database has a row yet.                                   *)
Init ==
    /\ lease \in Nodes
    /\ db = [n \in Nodes |-> [last |-> 0, rows |-> {}, data |-> {}]]
    /\ alive = [n \in Nodes |-> FALSE]
    /\ wasPrimary = [n \in Nodes |-> FALSE]
    /\ synced = [n \in Nodes |-> FALSE]
    /\ latch = [n \in Nodes |-> FALSE]
    /\ caller = [n \in Nodes |-> [c \in Callers |-> At("off")]]
    /\ cycle = [n \in Nodes |-> NoCycle]
    /\ cycles = 0
    /\ moves = 0

CycleStep(n) ==
    \/ OpenTx(n) \/ Commit(n) \/ RecordSuccess(n)
    \/ \E c \in Callers : Succeed(n, c) \/ \E retry \in BOOLEAN : Fail(n, c, retry)

CallerStep(n, c) ==
    \/ \E full, pruned \in BOOLEAN : Enter(n, c, full, pruned)
    \/ Busy(n, c) \/ OutOfCycles(n, c) \/ BackoffEnds(n, c) \/ BackoffCancelled(n, c)

SchedulerStep(n) ==
    StartScheduler(n) \/ Promoted(n) \/ Demoted(n) \/ Heartbeat(n) \/ Due(n)

Next ==
    \/ LeaseLost
    \/ \E n \in Nodes :
        \/ CycleStep(n) \/ SchedulerStep(n)
        \/ \E c \in Callers : CallerStep(n, c)
        \/ "request" \in Callers /\ \E full \in BOOLEAN : Post(n, full)
        \/ Boot(n) \/ Replicate(n) \/ LeaseTaken(n) \/ Crash(n)

Spec == Init /\ [][Next]_vars

(* The watchdog ends every cycle, the timers of the scheduler and of the     *)
(* backoffs fire, and LiteFS replicates.                                     *)
Fairness ==
    \A n \in Nodes :
        /\ WF_vars(CycleStep(n))
        /\ WF_vars(SchedulerStep(n))
        /\ \A c \in Callers : WF_vars(CallerStep(n, c))
        /\ WF_vars(Replicate(n))
FairSpec == Spec /\ Fairness

-----------------------------------------------------------------------------
(* Properties.                                                               *)

Place == [at : {"off", "start", "idle", "ready", "cycle", "backoff"},
          tries : 0..Retries, full : BOOLEAN]
Flight == [phase : {"fetch", "tx", "committed", "recorded"}, full : BOOLEAN,
           row : 0..MaxCycles, id : Ids]

TypeOK ==
    /\ lease \in Nodes \cup {NoNode}
    /\ db \in [Nodes -> Database]
    /\ alive \in [Nodes -> BOOLEAN]
    /\ wasPrimary \in [Nodes -> BOOLEAN]
    /\ synced \in [Nodes -> BOOLEAN]
    /\ latch \in [Nodes -> BOOLEAN]
    /\ caller \in [Nodes -> [Callers -> Place]]
    /\ cycle \in [Nodes -> Flight \cup {NoCycle}]
    /\ cycles \in 0..MaxCycles
    /\ moves \in 0..MaxMoves

(* The running latch is held by exactly one caller, the one whose cycle      *)
(* runs: a scheduled cycle, an on-demand one and their retries never overlap *)
(* in a process, and no end of a cycle, a panic included, leaks the latch.   *)
LatchIsOwned ==
    \A n \in Nodes :
        /\ latch[n] <=> cycle[n] # NoCycle
        /\ latch[n] <=> \E c \in Callers : caller[n][c].at = "cycle"
        /\ \A c, d \in Callers : caller[n][c].at = "cycle" /\ caller[n][d].at = "cycle" => c = d

(* A success row, on the primary or replicated, is only ever seen in a       *)
(* database that holds the data which that cycle committed, whatever was     *)
(* lost in a failover: freshness is never claimed for data that is not there.*)
SuccessMeansCommitted ==
    \A n \in Nodes : \A row \in Successes(db[n].rows) : row.cycle \in db[n].data

(* The readers of the last success and of the last full success never see an *)
(* older answer on the primary: the prune keeps both rows, and no reap and   *)
(* no failure takes a success back, except a panic of OnSyncComplete, which  *)
(* turns the row of its own cycle into a failed one.                         *)
FreshnessKept ==
    [][\A n \in Nodes :
          lease = n /\ (cycle[n].phase = "recorded" => cycle'[n] = cycle[n]) =>
              /\ NewestId(Successes(db'[n].rows)) >= NewestId(Successes(db[n].rows))
              /\ NewestId(FullSuccesses(db'[n].rows)) >= NewestId(FullSuccesses(db[n].rows))]_vars

(* A replica that booted before the first success becomes ready: when a      *)
(* primary with a success stays primary and the node stays up, the node      *)
(* answers requests at last.                                                 *)
ReplicaBecomesReady ==
    \A n, p \in Nodes :
        n # p /\ <>[](lease = p /\ HasSuccess(p) /\ alive[n]) => <>[]synced[n]

(* "Prior data exists (either from our own sync history or from LiteFS       *)
(* replication) - serve requests immediately" (worker.go, StartScheduler),   *)
(* for a node that acts as primary.                                          *)
PrimaryServesPriorData ==
    \A n \in Nodes :
        lease = n /\ wasPrimary[n] /\ caller[n]["scheduler"].at = "idle" /\ HasSuccess(n) => synced[n]

(* "the reap runs BEFORE the first sync worker tick so there's no real       *)
(* overlap window" (status.go, ReapStaleRunningRows): the row of a cycle in  *)
(* flight says that it runs.                                                 *)
LiveCycleIsRunning ==
    \A n \in Nodes : \A row \in db[n].rows :
        /\ lease = n
        /\ cycle[n].phase \in {"fetch", "tx", "committed"}
        /\ row.id = cycle[n].row
        => row.status = "running"
=============================================================================
