# Specifications of peeringdb-plus

peeringdb-plus keeps a read-only copy of PeeringDB. One node, the holder of the
LiteFS lease, fetches the 13 object types from upstream over HTTP, writes them
to SQLite in one transaction per cycle, and LiteFS replicates that database to
every other node, which only serves it. The specifications here cover what makes
the copy trustworthy: that no upstream change is lost for good, that a copy never
moves backwards, that cycles do not overlap, that the helpers of a cycle (FK
backfill, netixlan cascade, history sweep) neither lose nor invent rows, and that
neither a node nor an HTTP client takes its data for fresher than it is. Line numbers refer to the sources at the modelled commit.

## Files

| Module | What it is |
| --- | --- |
| `SyncCursor` | the pure rules for cursors and watermarks |
| `MirrorSync` | one writer against upstream: fetch pass, sync transaction, watermarks |
| `MirrorSyncInvariant` | the inductive invariant `IInv` of `MirrorSync` |
| `MirrorSyncFetchTime` | `MirrorSync` with a history variable for the time of the requests |
| `VersionedMirror` | what the mirror promises apart from how a cycle keeps it |
| `MirrorSyncVersions` | `MirrorSync` with the versions that upstream ever stored, and the claim that it implements `VersionedMirror` |
| `MaxMinFacts` | lemmas on the maximum and minimum of a set of naturals, and that a finite one has a bound |
| `MirrorSyncProofs` | the proofs about `MirrorSync` |
| `MirrorSyncHistoryProofs` | the proofs about `MirrorSyncFetchTime` and `MirrorSyncVersions`, the implementation of `VersionedMirror` among them |
| `SyncWorker` | the workers of all lease candidates: scheduler, POST /sync, latch, retries, `sync_status`, failover |
| `SyncWorkerInvariant`, `SyncWorkerProofs` | the inductive invariant `WorkerInv` of `SyncWorker`, and the proofs |
| `FkBackfill`, `FkBackfillProofs` | the replay of staged rows and FK backfill inside the sync transaction, and the proofs |
| `NetIxLanMirror` | what the mirror promises about netixlans of deleted networks |
| `NetIxLanCascade`, `NetIxLanCascadeProofs` | the verification of candidates, its memo and the cascade, and the proofs, that it implements `NetIxLanMirror` among them |
| `HistorySweep`, `HistorySweepProofs` | the sweep over old tombstones next to the normal fetch, and the proofs |
| `EtagCache`, `EtagCacheProofs` | the ETag watcher, the caching middleware and a client, and the proofs |
| `MCMirrorSync`, `MCMirrorSyncFetchTime`, `MCMirrorSyncVersions`, `MCSyncWorker`, `MCFkBackfill`, `MCNetIxLanCascade`, `MCHistorySweep` | instances for TLC |

`MirrorSync` says what a cycle does to the data, and treats the cycle as
something that starts, runs and may fail at any point. `SyncWorker` says who
starts cycles, in which process and when, and treats the data of a cycle as one
commit. They meet in the action that commits: `MirrorSync!Commit` and
`SyncWorker!Commit` are the same transaction (`worker.go:909-983`).

`FkBackfill`, `NetIxLanCascade` and `HistorySweep` each open one box of that cycle:
`FkBackfill` is what `MirrorSync!Upsert` and `Backfill` do row by row,
`HistorySweep` and `NetIxLanCascade` are the two steps between the fetch pass and
the transaction (`worker.go:889-897`) with the part of the transaction that
belongs to them. They are modules of their own because their hazards lie in other
data: ids, budgets and verdicts instead of versions and watermarks. `EtagCache`
starts where the cycle ends: it reads what `SyncWorker!RecordSuccess` wrote.

## Inventory

### Cursors and watermarks (`internal/sync/watermark.go`, `cursor.go`)

State: the table `sync_watermark` (type, seconds). For each type the cursor of a
cycle is the watermark clamped to `MAX(updated)` of the entity table; it is
*held* when the watermark is behind the table. Operations: read before the
fetch pass, `nextWatermark` and the write inside the sync transaction.
Interaction: FK backfill lands rows of a parent type after that type was fetched,
so `MAX(updated)` alone would skip what changed between.
Correct when: whatever the mirror lacks is returned by the next request of its
type, and the cursor neither moves back nor stays held for ever.

### Sync cycle (`worker.go`, `scratch.go`, `upsert.go`, `internal/peeringdb/stream.go`)

State: the mode of the cycle, the scratch database, the open transaction, the
newest `updated` of each full snapshot. Operations: a `?since=` request per type,
in FK order; on its failure the bare list, which comes from an API cache that
can be hours old, and a `?since=` window on top of it, whose failure is tolerated
in some cases; then one transaction that upserts each type behind a gate on
`updated`, scrubs, purges, cascades, and writes the watermarks.
Hard: upstream changes between any two requests; times have whole seconds on our
side and fractions upstream; a failure or crash can come at every step.

### FK backfill (`fk_backfill.go`)

State per cycle: the ids already tried, the number of requests, a deadline, the
backfilled ids by type. A chunk of staged rows asks for all the parents it misses
in one batch; fetched parents may ask for grandparents. Correct when: no parent
is asked for twice, the request budget holds through the recursion, a parent
without its own required parent is withheld, and no child that could have been
kept is dropped.

### Netixlan cascade and verification (`netixlan_cascade.go`, `netixlan_verify.go`)

State: verdicts per id, memoised across cycles with different lifetimes, and
failure counts. When a network is deleted, upstream removes its netixlans
without tombstones; the worker looks each candidate up by id under a request
budget and marks confirmed ones deleted in the sync transaction.
Correct when: a netixlan that is live upstream is not cascaded by a verdict about
an older version, and one failing id does not starve the others.

### History sweep (`history_sweep.go`)

State: progress per type (committed), a memo of windows already requested (in
memory). It walks id ranges to import old tombstones a few windows per cycle.
Correct when: every id range is swept in the end, a failed cycle neither skips
a window nor repeats it within the hour, and staged rows never raise
`MAX(updated)`.

### Worker, scheduler, POST /sync (`worker.go`, `cmd/peeringdb-plus/sync_handler.go`)

State: the running latch, the readiness latch `synced`, the role that the
scheduler saw last, the position in the retry ladder. Operations: a due cycle,
start, promotion, demotion, the heartbeat of a replica, an on-demand cycle,
retries, the demotion monitor, the watchdog and the panic firewall. Correct when:
cycles of a process never overlap, the latch is never leaked, and a node becomes
ready when it has data.

### `sync_status` (`status.go`)

State: one row per cycle (running, success, failed; mode). Operations: start,
completion, reap of rows that a killed process left running, prune to the newest
rows. Readers: the scheduler, readiness, health, the ETag watcher, metrics and
the choice of the mode. The row is written outside the sync transaction.
Correct when: a success row implies the data of its cycle, on every node, and
the last success and last full success survive the prune.

### LiteFS (`internal/litefs`)

External. The code relies on: one lease holder at a time, writes refused to all
others, transactions replicated in order. `IsPrimaryWithFallback` answers yes on
every candidate while nobody holds the lease.

### Scratch directory lock (`scratch_dir*.go`), lock retry (`lockretry.go`)

An exclusive `flock` for the sweep of stale files is converted to the shared lock
that every cycle needs, not atomically. Status writes retry four times on SQLite
lock errors.

### PeeringDB client (`internal/peeringdb`)

A limiter, retries on 429 inside the transport and on 5xx around it, and error
values that end the retry ladder (rate limit, WAF block).

### ETag watcher, caching, readiness, health

The watcher polls the database version once a second and publishes an ETag; the
middleware answers 304 from it and 503 before the first success. Health grades
the age of the last success.

### Everything else

The read APIs, the privacy filter, configuration, telemetry, search, tiles,
tools, generated `ent` code: they change no state of their own over a committed
database, or are pure functions. `PROJECT.json` lists each with its reason.

## How the models correspond to the code

### `SyncCursor` and `MirrorSync`

A row version is `[updated, sub, live]`: the second that the mirror stores, the
fraction that only upstream knows, and whether the status is live. `None` stands
for no row. All other columns are abstracted into `sub`: two versions with the
same `updated` and a different `sub` are two rows that differ elsewhere.

| Variable | Code |
| --- | --- |
| `now`, `up`, `apiCache` | upstream: its clock, its rows, the cache behind its bare lists |
| `mirror`, `mark` | the committed entity tables, the committed `sync_watermark` |
| `phase`, `mode`, `stage` | where `syncCycle` and `syncFetchPass` are |
| `cutoff`, `discarded` | `fetchPassResult.snapshotCutoffs`, `.windowDiscarded` |
| `scratch`, `tx` | the scratch database, the sync transaction |
| `backfilled` | `Worker.fkBackfilled` |
| `missed`, `waived` | history variables, see below |

`FetchSince`, `FetchSinceFails`, `FetchBare`, `FetchWindow`, `WindowFails` are
the paths of `stageOneTypeToScratch`; `Upsert` is `syncUpsertPass` with the gate
of `skipUnchangedPredicate` and the FK filter; `Backfill` is one successful
`fkBackfillBatch`; `Commit` is the purge, `writeSyncWatermarks` and the commit;
`FailCycle` is every failure, cancellation and crash before the commit took
effect, since until then only the scratch file and the open transaction exist.
A rollback deletes both. Reading the cursors at the start and reading them at each
step is the same, because nothing writes `mirror` and `mark` between.

`waived` is the set of current upstream versions that a commit left out for a
reason the code accepts and documents: an orphan row that the FK filter drops; a
second change within the same second, which the gate refuses as unchanged (the
next full cycle takes it); the rest of a window that failed on the fallback path
over a cursor that is not held; a row that the bootstrap rule for a table of
backfilled rows does not cover. The properties say that nothing *else* is lost.

Assumptions about upstream, each taken from the repository's comments or
`docs/ARCHITECTURE.md`: changes become visible in the order of `updated`; one
response is one read of the table; a `?since=` list is ordered by `updated`, so
what streamed before an error is its older part; the bare list holds live rows
only and comes from a cache built at some earlier time; `?since=` compares the
exact time and so returns again the rows of the cursor's own second, except those
whose fraction is zero.

`fetched` and `had` are history variables of `MirrorSyncFetchTime` and
`MirrorSyncVersions`: the upstream second of the last request of each type, and
every version of each row that upstream stored. `VersionedMirror` forgets the
worker. It has upstream, those versions and the committed rows, and two actions:
upstream publishes a version, and a sync moves any rows at once, each to a newer
version that upstream stored, or away when the sync knew it as an old tombstone
(`poc_purge.go:49`). It does not say that the mirror catches up; `NoSkippedChange`,
`CommitIsFresh` and `Converges` do.

Left out of `MirrorSync`: rows that enter the transaction by other ways than the
fetch (history sweep, netixlan cascade and the tombstone term of its gate), an
upstream raw save that moves `updated` backwards, columns that change without
`updated` (nulled FKs, the poc scrub), memory limits and chunk sizes, which can
only fail a cycle or do not show.

### `SyncWorker`

| Variable | Code |
| --- | --- |
| `lease`, `db` | the LiteFS lease; each node's copy: `sync_status` rows, the AUTOINCREMENT counter, the cycles whose data it holds |
| `alive`, `wasPrimary`, `synced`, `latch` | the process, `StartScheduler`'s `wasPrimary`, `Worker.synced`, `Worker.running` |
| `caller` | where the scheduler and a POST /sync goroutine are in `SyncWithRetry`, with their attempts |
| `cycle` | the attempt that runs `Sync`: its phase, its mode and its status row |
| `cycles`, `moves` | counters that bound the model and name the cycles |

`Post` is `newSyncHandler`, whose test of the latch comes before the goroutine
takes it; `Enter`, `Busy`, `OpenTx`, `Commit`, `RecordSuccess`, `Succeed`, `Fail`
are `Sync` and `syncCycle`; `AfterFailure`, `BackoffEnds`, `BackoffCancelled` are
the ladder and the demotion monitor; `StartScheduler`, `Promoted`, `Demoted`,
`Heartbeat`, `Due` are the parts of the scheduler's loop; `Boot` is the role
detection and reap of `main`. Time is nondeterministic: a timer may fire at any
moment. A mode is "full" or "any": `FullSyncInterval` can turn every cycle into a
full one. One POST caller per node is enough: a second one finds the latch taken
and is dropped as a second scheduler would be.

Two abstractions are assumptions. `LeaseTaken` does not let a node regain the
lease while a cycle of its earlier term is still running: the demotion monitor,
which both the scheduler and POST /sync start, looks every second and cancels
the cycle, and a lease that is lost takes longer to come back. The startup sweeps,
which hold the latch for a moment before the first cycle, are left out: they
have the effect of `Busy`.

### `FkBackfill`

A row is a `<<type, id>>`; its parents are constants, required or optional.

| Variable | Code |
| --- | --- |
| `db`, `tx` | the committed tables; the tables as the open transaction sees them, which is what `fkRegistry`, `fkPresence` and `dbHasRecord` answer |
| `upstream` | the rows that a `?since=1&id__in=` request can return in this cycle |
| `staged`, `step`, `place`, `left`, `chunk`, `kept` | the scratch tables and where `syncUpsertPass`, `drainAndUpsertType` and `syncIncremental` are |
| `stack` | the calls of `fkBackfillBatch` that have not returned, each with the rows it fetched and the parents it still has to ask for |
| `tried`, `missing`, `count`, `late` | `fkBackfillTried`, `fkMissing`, `fkBackfillRequestCount`, whether `fkBackfillDeadline` has passed |
| `asked`, `sent`, `excused`, `nulled` | history: what the cycle asked for, how many requests it sent, what it did not get for another reason than absence, which references it set to NULL |

`Batch` is `fkBackfillBatch` up to its recursion (dedup, deadline, budget, request),
`Recurse` one turn of the recursion in the order of the type names, `Land` the part
after it that withholds rows without their required parents and upserts the
others. `BeginType` and `BeginChunk` are the two pre-passes, `CheckParent`,
`KeepRow` and `DropRow` the `fkFilter` closures, `UpsertChunk` the bulk upsert.
Left out: versions (`MirrorSync`), orphan counters, and that the parents of a row
whose id does not decode are not asked for: such a row is one that fails its
upsert here.

### `NetIxLanCascade` and `NetIxLanMirror`

| Variable | Code |
| --- | --- |
| `up`, `upNet`, `listed`, `clock` | upstream: netixlans, networks, the cached bare list; each change has a time of its own |
| `nix`, `net` | the committed tables |
| `memo` | `netIxLanVerifyMemo`; `left` is the time until `Until` |
| `place`, `mode` | where the cycle is; a cycle is incremental or full, the run at startup is `mode = "startup"` |
| `scratchNet`, `scratchNix`, `canStage` | the staged rows; whether there is a scratch DB and the netixlan cursor is known |
| `pending`, `requests`, `prevOK` | the locals of `runNetIxLanVerification` and `fetchNetIxLanVerdicts` |
| `gone`, `rirNets` | the `cascadePlan` |

`BeginVerify` reads the candidates, drops memo entries and classifies;
`VerifyChunk` is one request, with the next chunk as `netIxLanVerifyChunks` orders
and sizes it; `Commit` is the upsert with the gate of `upsert.go` and then the
cascade on the rows after the upserts. `NetIxLanMirror` has two variables, the
version of each row that upstream serves live and the stored row, and allows a
commit to store a newer live version, or a tombstone for a version that is not
served live. The refinement maps them to `LiveTimes` and `nix`.

Assumptions about upstream, from the comments of `netixlan_cascade.go` and
`upsert.go`: a delete of a network deletes its live netixlans, with tombstones or,
in the RIR reclaim, without; no row is saved under a deleted network; a restore
gives rows a new `updated`; a removed row never returns. The first states also
hold old data: live rows under a network that was deleted long ago.

Limits of the code that the properties respect: a row that upstream removed whose
network came back before the mirror saw the delete stays live (it is never a
candidate); a tombstone that the mirror missed under a network that is restored
before the verification is the history sweep's matter; netixlan tombstones of a
RIR reclaim keep the row's own `updated`. Left out: the window of the networks in a
full cycle (they are read fresh), the difference between the `MAX(updated)` of the
plan and the watermark of the request (no backfill lands netixlans).

### `HistorySweep`

| Variable | Code |
| --- | --- |
| `up`, `mirror`, `clock` | upstream and the committed tables |
| `progress`, `work` | `sync_history_sweep`, and the progress of the sweep that runs; `left` and `rank` stand for `checkedAt`: the time for which the check protects an empty type, and the order of the checks |
| `memo` | `Worker.historyMemo` |
| `staged`, `fresh` | the scratch tables; the empty types for which `hasHistoryRows` is true |
| `queue`, `spent`, `restart`, `place` | the position in the window loop, the requests, `withHistoryRestart`, the position in the cycle |
| `late` | history, see below |

`PassType`, `WaitForCursor`, `StopSweep`, `WindowArrives`, `WindowFails` are the
branches of `stageHistoryWindows`; `Commit` is the transaction with
`writeHistoryProgress`; `FailCycle` loses the memo when it is a crash. The cycles
are incremental; a full cycle does not sweep, and what it does to the rows is in
`MirrorSync`. A cycle whose progress table cannot be read is `SkipSweep`.

One case is left to the code as it is. A type that was marked done while its table
was empty gets its progress back when the normal fetch first stages rows of it
(`history_sweep.go:352-357`), and only in that cycle. When the sweep of that cycle
does not reach the type (it is off, its progress table is unreadable, or it stops
earlier at the budget, the memo or the last window of another type), the table is
populated by the next cycle, the type counts as done, and its old tombstones below
the new cursor are never requested unless an operator restarts the sweep. The
variable `late` holds these types, and the two properties except them.

### `EtagCache`

| Variable | Code |
| --- | --- |
| `newest`, `synced`, `db` | the commits of the primary, the completion time that each shows in `sync_status`, how far a node has applied them |
| `litefs`, `pins` | the version source: the LiteFS position, or `PRAGMA data_version` on a pinned connection |
| `watcher`, `seen` | `etagWatcher`: the read it does next, the version it polled, `last`, `seenSync`; where the database was when the last poll began |
| `etag`, `clock` | `CachingState.etag`, `SyncClock` |
| `request`, `cached` | one request in the handlers, and the response that a client or a shared cache holds |

A version string is an epoch (the connection, with the boot time) and a value; the
commit it was read at is kept next to it for the properties only (`SameTag`
compares the string). Each read of a poll and of a request is an action: the
version, the status, the sync time, the swap of the ETag; the load of the ETag, the
clock, the rows. A client may ask any node. Assumptions: a read of the
tables after a read of the position sees at least that position; the rows of a
response that is streamed in parts are read later than its head; the commits of a
node never go back (a failover that loses commits is `SyncWorker`'s matter); a
release that renders other bytes for the same rows keeps the ETag, which
`docs/ARCHITECTURE.md:538` accepts. Left out: paths and methods that the
middleware skips, the 503 before the first sync, public and private.

## What is checked

| Run | Instance | Shows |
| --- | --- | --- |
| `mirror_one_type` | 1 type, 2 rows, backfilled, 4 instants in 3 seconds | types, `NoSkippedChange`, `IInv`, `RowsMoveForward`, `CursorMovesForward`, `WatermarkWithinFetch`, `CommitIsFresh` |
| `mirror_purge` | 1 type, 2 rows, purged after a second, 4 instants | `NoSkippedChange`, `IInv` and `RowsMoveForward` where `MAX(updated)` can fall, `ImplementsVersionedMirror` |
| `mirror_converges` | 1 type, 2 rows, 2 instants, fair | `Converges`, `WatermarkCatchesUp` |
| `worker_one_node` | 1 node, scheduler and POST, 1 retry, keep 1, 3 cycles, 1 crash or lease loss | types, `LatchIsOwned`, `FreshnessKept` |
| `worker_fleet` | 2 nodes, scheduler only, 1 retry, 2 cycles, 2 crashes or lease losses, fair | `SuccessMeansCommitted`, `WorkerInv`, `ReplicaBecomesReady` |
| `fk_backfill` | 9 rows of 7 types, cap 4, 2 ids in a request, 2 rows in a chunk, 2 cycles | types, `RequestBudget`, `NoDanglingReference`, `EveryLossExplained` |
| `netixlan_cascade` | 2 netixlans of 1 network, one of them poisonous, 2 upstream changes, 1 fault, 2 requests in a pass, fair | types, `MemoTrue`, `ImplementsMirror`, `Settles` |
| `history_sweep` | 3 types, 5 rows, 2 windows or the whole type, budget 2, 4 first states, 2 upstream changes, 1 fault, fair | types, `NoLiveRowBehind`, `ProgressIsTrue`, `Converges` |
| `etag_cache` | 2 nodes or 1 without LiteFS, 2 commits, 2 faults, 1 client, fair | types, `RevalidationIsSound`, `ResponseIsTrue`, `ClientConverges`, `TagReturns` |
| `watermark_comment`, `promotion_readiness`, `promotion_reap` | small | the three findings below |

Bounds. Four instants are `1.1`, `2.0`, `2.1`, `3.1`: they give two changes in one
second, a change in the cursor's own second, and a change with fraction zero,
which a request does not return again. Two rows let one be the backfilled or
purged row and the other the one that would be skipped. Types interact only
through the common commit and the order of their requests; the runs have one type
each, and the composition of several types is covered by the theorems, which are about
every set of types.
The number of cycles of `MirrorSync` is not bounded. `Change` stops at the last
instant; cycles go on. Three cycles of `SyncWorker` with `Keep = Batch = 1` make
the prune choose between a success, a full success and newer failures; two nodes
and two moves give a failover and the failback, and its one retry lets the demotion
monitor cancel a ladder. The worker runs switch deadlock
checking off: once the cycles and moves of the bound are used up a state with no
timer left to fire is legitimate.

`CHECK_DEADLOCK` stays on for the mirror: there a failed or fruitless cycle can
always follow.

The rows of `fk_backfill` form the longest chain that the schema has (netixlan,
ixlan, ix, org), a row with two required parents, and both kinds of optional
parent; with two ids in a request and a cap of four the budget ends in the middle of
a recursion, and three sets of staged rows let it end in the pre-pass, in a chunk or
at a single row. Two cycles show what the reset of the FK state must clear.
`netixlan_cascade` needs one network for its memo key to change under an entry, and two rows so that
one shares a chunk with the poisonous one; its chunk sizes are 2, 1 and 1 for the
code's 100, 10 and 1. In `history_sweep` one type has two windows, one is
fetched whole and with all statuses, and two start empty; the budget of 2 is below
what the types want in a cycle, and the four first states put a missing tombstone
below and above the newest row and an empty type in every place of the order. In
`etag_cache` one commit after the first state is enough for every race of a
poll and a request with it, and two faults for a failed poll after a restart. The
safety properties of these four are also proved, for every bound. Deadlock checking is off for these
four: when the bounded changes and faults are used up, a system at rest is right.

Fairness. In `MirrorSync`: the scheduler starts a cycle every interval, and each
stage of a cycle goes on unless it fails; upstream rebuilds its caches; nothing
is assumed about upstream changes or failures, and the liveness properties speak
of behaviours in which both end (`Quiet`). In `SyncWorker`: the watchdog
(`SyncTimeout`) ends every cycle, timers fire, LiteFS replicates. No fairness is
put on crashes, on restarts or on the lease, and `ReplicaBecomesReady` assumes a
primary that stays. In `NetIxLanCascade` and `HistorySweep`: the scheduler starts
cycles for ever, every step of a cycle is taken, and time passes between cycles
(strongly fair, since it only passes while the worker is idle); the netixlan cursor is
not unreadable in every cycle (a read of the local database). Upstream changes and
faults are not fair, and their bounds end them. In `EtagCache`: LiteFS applies the
commits, the ticker fires, the handlers answer, and the client of `ClientConverges`
asks again while it holds a stale response. `FkBackfill` states no liveness: its
loops end because a call asks for ids that were never tried, which `RequestBudget`
says.

## Findings

1. `watermark_comment`. `watermark.go:49-50` states that the next watermark "is
   never later than the end of the fetch of T". For a type whose table was empty
   and whose fetch staged nothing, `writeSyncWatermarks` takes the oldest
   backfilled row (`watermark.go:320`), which may have changed after the fetch.
   `WatermarkWithinFetch` is the statement that holds.
2. `promotion_readiness`. The start of the scheduler and the heartbeat of a
   replica set the readiness latch when they see a replicated success; the
   promotion branch (`worker.go:2421`) reads the same value and does not. A
   replica that is promoted before its next heartbeat answers 503 until its next
   own success, although it holds the data.
3. `promotion_reap`. `status.go:101-104` rules out an overlap of the reap with a
   live cycle in practice. On a promotion POST /sync is accepted before the
   scheduler notices the new role and reaps; the row of that cycle is marked
   failed while it runs.

## What is proved

`MirrorSyncProofs`, for all types, rows, instants and purge ages, under
`StepsAssumption` and `ParamsAssumption` (no purged type is a parent type: poc is
nobody's parent):

| Theorem | States |
| --- | --- |
| `TypeCorrect` | `Spec => []TypeOK` |
| `Inductive` | `Spec => []IInv` |
| `NothingSkipped` | `Spec => []NoSkippedChange` |
| `OnlyForward` | `Spec => RowsMoveForward` |
| `CursorOnlyForward` | `Spec => CursorMovesForward` |

`NoSkippedChange` speaks of the committed tables and is not inductive: a commit
writes a watermark that depends on what was fetched, staged and backfilled
earlier. `IInv` adds what is known between those points. `HistoryOK`: whatever
the program holds of a row was upstream's version at some time. `InstantsOK`:
two rows do not change at the same instant. `CacheOK` and `SnapshotOK`: a row that
changed after the bare list was built is later than all of that list, so the
window that starts there returns it. `StagedOK` and `TxOK`: each row is in the
scratch table or transaction in its current version, or in the mirror, or lies
`Beyond` the watermark that the commit will write, or is one of the accepted
exceptions. `IdleOK`, `PurgedOK` and `ForwardOK` carry the shape of the cycle, the
cursor of a purged type and the order of versions. `CommittedOK` is slightly
stronger than `NoSkippedChange`: the mirror has the current version itself, and
only a tombstone it never held may be missing. The proof takes the actions one
by one, and under each the conjuncts the action touches; the lemmas on
`EffectiveCursor`, `NextWatermark` and `SnapshotWindowStart` come first.

`MirrorSyncHistoryProofs`, under the same assumptions:

| Theorem | States |
| --- | --- |
| `FetchInductive` | `FetchSpec => []FetchInv` |
| `WatermarkStaysWithinFetch` | `FetchSpec => WatermarkWithinFetch` |
| `FreshInductive` | `FetchSpec => []FreshInv` |
| `CommitsAreFresh` | `FetchSpec => CommitIsFresh` |
| `HadInductive` | `VersionsSpec => [](IInv /\ HadOK)` |
| `MirrorIsVersioned` | `VersionsSpec => ImplementsVersionedMirror` |

`NoSkippedChange` would hold of a worker that fetched nothing: what the mirror
lacks stays ahead of the cursor. `CommitIsFresh` says what a commit is worth. Of
a type that had rows and whose window was not discarded, each row that did not
change since the second of the last request is there as upstream has it, or its
version was left out for an accepted reason. `FreshInv` carries it from
the request to the commit: `Known` and `KnownInTx` are the disjuncts of `StagedOK`
and `TxOK` without the last one, `Beyond`. A request makes a row known
(`FetchMakesKnown`, by `CommittedOK` for a `?since=` list and by `SnapshotOK` for a
window over a stale bare list), an upsert keeps it known (`UpsertKnown`), and a
change of the row upstream makes it newer than the request. An
empty table is left out because its bare list needs no window.
`WatermarkWithinFetch` needs `FetchInv`: no row that the cycle has of a type is
later than its last request but the rows that FK backfill landed, which
`maxUpdatedExcluding` leaves out. The refinement needs of the worker's rows
only that upstream stored them (`HadOK`: every step copies rows and writes none of
its own), and of a commit that no row of the transaction is older than the mirror's
(`ForwardOK`), so that what the purge takes was an old tombstone and no live row.

`SyncWorkerProofs`, for every set of candidates and callers, every ladder length,
prune size and bound on cycles and moves, under `WorkerAssumption`:

| Theorem | States |
| --- | --- |
| `WorkerTypeCorrect` | `Spec => []TypeOK` |
| `WorkerInductive` | `Spec => []WorkerInv` |
| `OneOwner` | `Spec => []LatchIsOwned` |
| `SuccessHasData` | `Spec => []SuccessMeansCommitted` |
| `LastSuccessIsKept` | `Spec => FreshnessKept` |

`SuccessMeansCommitted` is not inductive either. The completion of a cycle is an
`UPDATE` by id, outside the sync transaction, so it must be known that the row
with that id is this cycle's own and that the cycle's data is in this copy.
`IdsOK` says that ids are unique in a copy and never above its AUTOINCREMENT
counter, which a replica copies with the rows; `FlightOK`, that on the lease
holder the row of the cycle in flight is its own, says success only after the
commit, and that a committed cycle's data is in the database. `FlightOK` speaks
of the lease holder alone: after a failover the deposed node's cycle may have an
id that its new copy uses for another cycle, which is harmless because that node
cannot write and the demotion monitor ends the cycle (the assumption on
`LeaseTaken` above). `DeadOK` is needed for the latch: a dead process has no
callers, so a restart finds none in a cycle. `LastSuccessIsKept` rests on the
prune keeping the two rows that the readers return (`PrunedFacts`, `AnchorsStay`)
and on `FlightOK`: a failure that is not the panic of a recorded cycle never
rewrites a success row.

`FkBackfillProofs`, for every set of rows and parents, cap, request and chunk size,
under `RowsAssumption` (each row's type has exactly one step of the pass, and its
parents' types have earlier ones, which `canonicalStepOrder` and `syncSteps` see to)
and `BudgetAssumption`:

| Theorem | States |
| --- | --- |
| `BudgetInductive` | `Spec => []BudgetInv` |
| `TypesHold` | `Spec => []TypeOK` |
| `RequestsAreBounded` | `Spec => []RequestBudget` |
| `ReferencesHold` | `Spec => []NoDanglingReference` |
| `LossInductive` | `Spec => []LossInv` |
| `LossesExplained` | `Spec => []EveryLossExplained` |

`RequestBudget` speaks of the requests sent and of the rows asked for; the code
keeps a counter and a set. `BudgetInv` relates them: what was sent is what was
counted, the count is at most the cap, and a row was asked for at most once and only
if it is in the tried set. The step that needs work is `Batch`: a prefix that fits into the
remaining budget needs no more requests than are left (`RequestsFit`), and the ids
that go out were not tried before. `NoDanglingReference` is inductive with the
types: `Land` and `KeepRow` are the only steps that add rows with references, and
nothing leaves the transaction but by a rollback to the committed rows.

`EveryLossExplained` speaks of the end of a pass, and of chains of parents. `LossInv`
says what is known on the way, one parent at a time. A row that is in the tried
set, is not in the transaction and is not held by a call of the recursion is
`Settled`, and then has a `Reason`: upstream does not have it, a fault, the cap or the
deadline excused it, or a required parent of it is itself settled. Each call of the
recursion asks for parents of lower rank than the rows it holds (`RanksDescend`),
so no call waits for its own rows, and the parents of the rows it holds have been
tried or are still to be asked for (`ParentsCovered`). Each staged row is on its way,
in the transaction, or has a settled parent; the pass ends only when nothing is
on its way. `Lost` is a recursive function, and the provers have no
induction to unfold it with. `LostEquation` shows that its equation has a solution,
the least set that is closed under it, so that the function the definition chooses
satisfies it; `SettledIsLost` then takes a settled row of the lowest rank that is not
lost and finds a lower one.

`EtagCacheProofs`, for every set of nodes and number of commits and faults, under
`EtagAssumption`:

| Theorem | States |
| --- | --- |
| `EtagInvariant` | `Spec => []IInv` |
| `EtagTypes` | `Spec => []TypeOK` |
| `RevalidationHolds` | `Spec => []RevalidationIsSound` |
| `ResponseHolds` | `Spec => []ResponseIsTrue` |

A 304 compares two strings, and neither says when it was read. `IInv` says what an
equal string means: the value of a version is its commit, or the commit minus the one at
which its connection began, so that two equal versions were read at the same
commit. With it, the tag that a node publishes was read at or after the moment in
`seen`, the clock that it shows is the sync of a commit at least as new, and what
a client holds under a tag has rows and a sync time at least as new as the
commit of the tag.

`NetIxLanCascadeProofs`, for every set of netixlans and networks, chunk sizes,
request budget, lifetimes of the memo and bounds, under `CascadeAssumption`:

| Theorem | States |
| --- | --- |
| `CascadeInvariant` | `Spec => []IInv` |
| `CascadeTypes` | `Spec => []TypeOK` |
| `MemoHolds` | `Spec => []MemoTrue` |
| `CascadeImplementsMirror` | `Spec => ImplementsMirror` |

A tombstone is right when it is stored, which is long after the verdict behind it
was reached: the row may have come back upstream, been staged again, or met its
network in another version. `IInv` carries the times across. `TimesOK`, `HistoryOK` and
`CacheOK`: nothing is newer than upstream's clock, what is stored or staged of a row
is no newer than upstream's version, and what is newer than the cached list is
newer than the moment at which it was built. `VerdictOK` and `NetworkOK`: a row that
was found gone, or whose network is known as deleted, is live upstream only in a
version newer than the cycle's cursor and the verdict. `ScratchOK` and `PlanOK`: a
staged tombstone is older than any live version, and the plan for reclaimed networks
names those that only the staged row shows as deleted. At the commit these say of each
row it marks deleted that upstream does not serve its stored version live, which is
`NetIxLanMirror!Commit`; all other steps map to `NetIxLanMirror!Change` or to a stutter.

`HistorySweepProofs`, for every finite set of types and rows, every order of steps,
window width, request budget and memo lifetime, and every first state that
`BeginAssumption` allows, under `SweepAssumption`:

| Theorem | States |
| --- | --- |
| `SweepInvariant` | `Spec => []IInv` |
| `SweepTypes` | `Spec => []TypeOK` |
| `NoLiveRowIsPassed` | `Spec => []NoLiveRowBehind` |
| `ProgressHolds` | `Spec => []ProgressIsTrue` |

Both properties speak of the committed rows, and what a commit makes of them was
decided by the fetch and by the windows before it, each at another time of upstream.
`Missed` says in the middle of a cycle what a commit would leave behind: a row that
is neither stored nor staged in its current version, and that some stored or staged
row of its type is as new as. `TombstonesOnly` (only tombstones are missed, and of a
populated type only those below its cursor) gives `NoLiveRowBehind` at the commit,
and `WorkIsTrue` (none of them lies where the working progress says it has swept)
gives `ProgressIsTrue`. `FreshOK` and `StartOK` are about the types that are empty: the
normal fetch stages all their live rows or nothing, and their sweep has not begun or
is done. The change of a row upstream keeps all of this because the clock passes
every cursor and every staged row, and a window because it stages no row newer than
the cursor; without that rule `TombstonesOnly` fails (the mutant of
`NoLiveRowBehind`).

Only model-checked are the liveness properties (`Converges` twice,
`WatermarkCatchesUp`, `ReplicaBecomesReady`, `Settles`, `ClientConverges`,
`TagReturns`): liveness under fairness is out of the prover's reach. Every safety
and action property of a passing run, and both refinements, are theorems.

## Not modelled

Most of the repository's lines are generated (`ent/`, `graph/`, `gen/`: entity
accessors, GraphQL, REST and protobuf code): they have no state and no order of
events of their own. The read APIs on top of them translate a request into a
query over one committed state. What follows is the written code that has
behaviour and is left out:

- Scratch directory and its lock (`scratch_dir*.go`). An exclusive `flock` for the
  sweep of stale files is converted to the shared one of a cycle, and the kernel may
  give the lock to another process in between. The result is a swept file of a
  process that is about to fail, or a sweep that is skipped; the mirror sees at
  most a failed cycle, which `MirrorSync` has.
- Transport and lock retry (`transport.go`, `lockretry.go`). Delays and attempts;
  the outcomes, a response or an error, are nondeterministic choices of the other
  modules, and the bounds on attempts are arithmetic on configured numbers.
- The startup sweeps of the worker but for the netixlan run, the schema migration
  of `sync_status`, the age check of `/readyz`, the memory limits and GC settings of
  a cycle.
- The poc scrub, the columns that change without `updated`.
- The privacy filter: a predicate on each read, without state.

## Plan

1. The composition of `SyncWorker` with the startup sweeps that take its latch.
2. The abstract mirror for the other two ways into the tables, the history sweep
   and the netixlan cascade, over versions as `VersionedMirror` has them.
