----------------------------- MODULE MirrorSync -----------------------------
(* One replica-writer of the mirror against upstream PeeringDB: the fetch    *)
(* pass, the sync transaction and the per-type watermarks of                 *)
(* internal/sync (worker.go, watermark.go, scratch.go, upsert.go,            *)
(* fk_backfill.go, poc_purge.go). Upstream rows change between any two       *)
(* requests of a cycle; a cycle may fail or crash at any step.               *)
EXTENDS SyncCursor, Sequences

CONSTANTS
    Types,      \* the object types
    Steps,      \* the types in step order, parents first
    Rows,       \* the row ids of a type
    Parents,    \* the types that another type references: FK backfill lands them
    Purged,     \* the types whose old tombstones are purged (poc)
    Horizon,    \* age in seconds at which a tombstone is purged
    Instants    \* the instants at which an upstream row can change

ASSUME StepsAssumption ==
    /\ Steps \in Seq(Types)
    /\ \A t \in Types : \E i \in DOMAIN Steps : Steps[i] = t
ASSUME ParamsAssumption ==
    /\ Parents \subseteq Types
    /\ Purged \subseteq Types \ Parents
    /\ Horizon \in Nat
    /\ Instants \subseteq [updated : Nat \ {0}, sub : Nat]

VARIABLES
    now,        \* the upstream clock, to a fraction of a second
    up,         \* the rows upstream stores
    apiCache,   \* the bare list that upstream serves from its API cache
    mirror,     \* the committed entity tables
    mark,       \* the committed sync_watermark table, 0 for no row
    phase,      \* where the cycle is
    mode,       \* the effective mode of the cycle
    stage,      \* how far the fetch of each type is
    cutoff,     \* the newest updated of each full snapshot
    discarded,  \* the types whose tombstone window was discarded
    scratch,    \* the staged rows
    tx,         \* the entity tables as the sync transaction sees them
    backfilled, \* the rows that FK backfill upserted in the cycle
    missed,     \* history: current upstream versions that the cycle leaves out
    waived      \* history: current upstream versions left out by a commit

cycle == <<phase, mode, stage, cutoff, discarded, scratch, tx, backfilled, missed>>
vars == <<now, up, apiCache, mirror, mark, cycle, waived>>

-----------------------------------------------------------------------------
(* Row versions. Upstream stores `updated` with sub-second precision; the    *)
(* wire format and the mirror truncate it to the second. `sub` identifies a  *)
(* version inside its second: the program compares `updated` alone, and sees *)
(* two versions as rows that differ in another column.                       *)

Version == [updated : Nat, sub : Nat, live : BOOLEAN]
None == [updated |-> 0, sub |-> 0, live |-> FALSE]
Table == [Rows -> Version]

Stored(v) == v.updated # 0

(* a was written upstream after b.                                           *)
After(a, b) ==
    \/ a.updated > b.updated
    \/ a.updated = b.updated /\ a.sub > b.sub

(* Upstream's strict ?since= filter, on the sub-second value: it returns     *)
(* again the rows that changed inside the cursor's own second.               *)
SentSince(v, since) ==
    \/ v.updated > since
    \/ v.updated = since /\ v.sub > 0 /\ v.updated # 0

LiveRows(table) == [r \in Rows |-> IF table[r].live THEN table[r] ELSE None]
Newest(table, except) == MaxUpdated({table[r].updated : r \in Rows \ except})

(* The mirror agrees with upstream on a row: the same version, or neither    *)
(* serves it as live.                                                        *)
Reflects(stored, upstream) ==
    \/ stored = upstream
    \/ ~stored.live /\ ~upstream.live

-----------------------------------------------------------------------------
(* The cursors of the cycle. readSyncCursors reads them before the first     *)
(* request; mirror and mark do not change before the cycle commits.          *)
Cursor(t) == EffectiveCursor(Newest(mirror[t], {}), mark[t])
Held(t) == CursorHeld(Newest(mirror[t], {}), mark[t])

(* windowFailureTolerated: on a bare list in incremental mode the type fell  *)
(* back, unless its cursor is zero.                                          *)
WindowFailureTolerated(t) == mode = "incremental" \/ Cursor(t) = 0

(* Mutant: the gate guards full cycles only, not the bare list of a fallback. *)
GateOfFullOnly(t, staged, stored) ==
    \/ ~Stored(stored)
    \/ mode = "incremental"
    \/ mode = "full" /\ (staged.updated >= stored.updated \/ stored.updated < cutoff[t])

(* The writes that the upsert of one staged row makes: skipUnchangedPredicate *)
(* refuses a conflicting row in incremental mode unless it is newer, and in  *)
(* full mode unless it is as new, or the stored one predates the snapshot.   *)
GatePasses(t, staged, stored) ==
    \/ ~Stored(stored)
    \/ mode = "incremental" /\ staged.updated > stored.updated
    \/ mode = "full" /\ (staged.updated >= stored.updated \/ stored.updated < cutoff[t])

Upserted(t, r, orphans) ==
    IF Stored(scratch[t][r]) /\ r \notin orphans
          /\ GatePasses(t, scratch[t][r], mirror[t][r])
    THEN scratch[t][r]
    ELSE mirror[t][r]

(* Mutant: the purge takes tombstones of every age.                          *)
PurgeEveryTombstone(t, table) ==
    [r \in Rows |-> IF t \in Purged /\ ~table[r].live THEN None ELSE table[r]]

(* purgeDeletedPocs, with the start of the cycle taken as the upstream now.  *)
Purge(t, table) ==
    [r \in Rows |->
        IF t \in Purged /\ ~table[r].live /\ table[r].updated + Horizon <= now.updated
        THEN None ELSE table[r]]

(* The staged rows S counts: oldestUpdatedOf for a table of backfilled rows. *)
Oldest(table, rows) ==
    LET updates == {table[r].updated : r \in rows} \ {0}
    IN  IF updates = {} THEN 0 ELSE Min(updates)

(* Mutant: the rule before the watermarks, the newest row of the table.      *)
MarkAtNewestRow(t, table) == Newest(table, {})

(* Mutant: every backfilled table takes the bootstrap rule.                  *)
MarkAtOldestBackfilled(t, table) ==
    IF backfilled[t] # {} THEN Oldest(table, backfilled[t]) ELSE Newest(table, {})

(* writeSyncWatermarks for one type, over the rows of the transaction.       *)
NextMark(t, table) ==
    LET next == NextWatermark(Cursor(t), Newest(table, backfilled[t]), Held(t), discarded[t])
    IN  IF next = 0 THEN Oldest(table, backfilled[t]) ELSE next

-----------------------------------------------------------------------------
(* Upstream.                                                                 *)

(* A row is created, edited, deleted or restored. A type's change is never   *)
(* back-dated: the raw save that moves `updated` backwards is left out.      *)
Change(t, r, time, live) ==
    /\ time \in Instants
    /\ After(time, now)
    /\ Stored(up[t][r]) \/ live
    /\ up[t][r].live \/ live
    /\ now' = time
    /\ up' = [up EXCEPT ![t][r] = [updated |-> time.updated, sub |-> time.sub, live |-> live]]
    /\ missed' = [missed EXCEPT ![t] = @ \ {r}]
    /\ waived' = [waived EXCEPT ![t] = @ \ {r}]
    /\ UNCHANGED <<apiCache, mirror, mark, phase, mode, stage, cutoff, discarded, scratch,
                   tx, backfilled>>

(* Upstream rebuilds the API cache of a bare list: live rows only.           *)
RebuildCache(t) ==
    /\ apiCache' = [apiCache EXCEPT ![t] = LiveRows(up[t])]
    /\ UNCHANGED <<now, up, mirror, mark, cycle, waived>>

-----------------------------------------------------------------------------
(* The cycle.                                                                *)

Idle ==
    /\ phase = "idle"
    /\ mode = "incremental"
    /\ stage = [t \in Types |-> "todo"]
    /\ cutoff = [t \in Types |-> 0]
    /\ discarded = [t \in Types |-> FALSE]
    /\ scratch = [t \in Types |-> [r \in Rows |-> None]]
    /\ tx = [t \in Types |-> [r \in Rows |-> None]]
    /\ backfilled = [t \in Types |-> {}]
    /\ missed = [t \in Types |-> {}]

StartCycle(m) ==
    /\ phase = "idle"
    /\ phase' = "fetch"
    /\ mode' = m
    /\ UNCHANGED <<now, up, apiCache, mirror, mark, stage, cutoff, discarded, scratch, tx,
                   backfilled, missed, waived>>

(* The type whose step it is: every earlier one is staged.                   *)
AtStep(t) ==
    /\ phase = "fetch"
    /\ \A i, j \in DOMAIN Steps : i < j /\ Steps[j] = t => stage[Steps[i]] = "staged"

(* stageOneTypeToScratch, the incremental request. One response is one read  *)
(* of the upstream table.                                                    *)
FetchSince(t) ==
    /\ AtStep(t)
    /\ stage[t] = "todo" /\ mode = "incremental" /\ Cursor(t) # 0
    /\ scratch' = [scratch EXCEPT ![t] =
                     [r \in Rows |-> IF SentSince(up[t][r], Cursor(t)) THEN up[t][r] ELSE None]]
    /\ stage' = [stage EXCEPT ![t] = "staged"]
    /\ UNCHANGED <<now, up, apiCache, mirror, mark, phase, mode, cutoff, discarded, tx,
                   backfilled, missed, waived>>

(* The incremental request fails: its rows are rolled back and the type      *)
(* falls back to the bare list.                                              *)
FetchSinceFails(t) ==
    /\ AtStep(t)
    /\ stage[t] = "todo" /\ mode = "incremental" /\ Cursor(t) # 0
    /\ stage' = [stage EXCEPT ![t] = "fellback"]
    /\ UNCHANGED <<now, up, apiCache, mirror, mark, phase, mode, cutoff, discarded, scratch,
                   tx, backfilled, missed, waived>>

(* The bare list: the API cache's live rows. A zero window start needs no    *)
(* window: neither the table nor the snapshot has a row.                     *)
FetchBare(t) ==
    /\ AtStep(t)
    /\ \/ stage[t] = "fellback"
       \/ stage[t] = "todo" /\ (mode = "full" \/ Cursor(t) = 0)
    /\ scratch' = [scratch EXCEPT ![t] = apiCache[t]]
    /\ cutoff' = [cutoff EXCEPT ![t] = Newest(apiCache[t], {})]
    /\ stage' = [stage EXCEPT ![t] =
                   IF SnapshotWindowStart(Cursor(t), Newest(apiCache[t], {})) = 0
                   THEN "staged" ELSE "snapshot"]
    /\ UNCHANGED <<now, up, apiCache, mirror, mark, phase, mode, discarded, tx, backfilled,
                   missed, waived>>

Window(t) ==
    {r \in Rows : SentSince(up[t][r], SnapshotWindowStart(Cursor(t), cutoff[t]))}

(* INSERT OR REPLACE on the id: a window row wins over its snapshot version. *)
Replaced(t, window) ==
    [r \in Rows |-> IF r \in window THEN up[t][r] ELSE scratch[t][r]]

FetchWindow(t) ==
    /\ AtStep(t)
    /\ stage[t] = "snapshot"
    /\ scratch' = [scratch EXCEPT ![t] = Replaced(t, Window(t))]
    /\ stage' = [stage EXCEPT ![t] = "staged"]
    /\ UNCHANGED <<now, up, apiCache, mirror, mark, phase, mode, cutoff, discarded, tx,
                   backfilled, missed, waived>>

(* The window breaks off and the failure is tolerated: the rows streamed     *)
(* before the error stay (keepRows). Upstream streams a ?since= list in      *)
(* ascending order of updated. The rest is lost for a type whose cursor is   *)
(* not held: the commit moves its cursor past it.                            *)
WindowFails(t, kept) ==
    /\ AtStep(t)
    /\ stage[t] = "snapshot"
    /\ WindowFailureTolerated(t)
    /\ kept \subseteq Window(t)
    /\ \A r \in kept : \A s \in Window(t) \ kept : ~After(up[t][r], up[t][s])
    /\ scratch' = [scratch EXCEPT ![t] = Replaced(t, kept)]
    /\ stage' = [stage EXCEPT ![t] = "staged"]
    /\ discarded' = [discarded EXCEPT ![t] = TRUE]
    /\ missed' = [missed EXCEPT ![t] =
                    IF Cursor(t) = 0 \/ Held(t) THEN @ ELSE @ \cup (Window(t) \ kept)]
    /\ UNCHANGED <<now, up, apiCache, mirror, mark, phase, mode, cutoff, tx, backfilled, waived>>

(* What an upsert leaves out of the current upstream rows that it staged:    *)
(* the FK filter drops a row whose required parent is missing, and the gate  *)
(* refuses a second change of a row within one second.                       *)
LeftOut(t, orphans) ==
    {r \in Rows :
        /\ Stored(scratch[t][r])
        /\ scratch[t][r] = up[t][r]
        /\ \/ r \in orphans
           \/ /\ scratch[t][r].updated = mirror[t][r].updated
              /\ ~GatePasses(t, scratch[t][r], mirror[t][r])}

(* syncUpsertPass: every type is staged, the transaction opens and the       *)
(* staged rows go in, parents first. FK backfill is an action of its own: it *)
(* reads upstream at a later time. Nothing reads the staged rows and the     *)
(* snapshot cutoffs after this pass, so they are dropped here.               *)
Upsert(orphans) ==
    /\ phase = "fetch"
    /\ \A t \in Types : stage[t] = "staged"
    /\ phase' = "tx"
    /\ tx' = [t \in Types |-> [r \in Rows |-> Upserted(t, r, orphans[t])]]
    /\ missed' = [t \in Types |-> missed[t] \cup LeftOut(t, orphans[t])]
    /\ scratch' = [t \in Types |-> [r \in Rows |-> None]]
    /\ cutoff' = [t \in Types |-> 0]
    /\ UNCHANGED <<now, up, apiCache, mirror, mark, mode, stage, discarded, backfilled, waived>>

(* fkBackfillBatch for a parent type: ?since=1&id__in= returns the missing   *)
(* rows as upstream has them now, deleted ones too.                          *)
Backfill(t, ids) ==
    /\ phase = "tx"
    /\ t \in Parents
    /\ ids # {}
    /\ \A r \in ids : Stored(up[t][r]) /\ ~Stored(tx[t][r])
    /\ tx' = [tx EXCEPT ![t] = [r \in Rows |-> IF r \in ids THEN up[t][r] ELSE @[r]]]
    /\ backfilled' = [backfilled EXCEPT ![t] = @ \cup ids]
    /\ UNCHANGED <<now, up, apiCache, mirror, mark, phase, mode, stage, cutoff, discarded,
                   scratch, missed, waived>>

Committed(t) == Purge(t, tx[t])

(* The bootstrap rule of NextMark takes its mark from backfilled rows alone, *)
(* so it can pass changes that came after the fetch of an empty table.       *)
BootstrapGap(t) ==
    IF Cursor(t) = 0 /\ Newest(Committed(t), backfilled[t]) = 0
    THEN {r \in Rows : Stored(up[t][r]) /\ ~SentSince(up[t][r], NextMark(t, Committed(t)))}
    ELSE {}

ResetCycle ==
    /\ phase' = "idle"
    /\ mode' = "incremental"
    /\ stage' = [t \in Types |-> "todo"]
    /\ cutoff' = [t \in Types |-> 0]
    /\ discarded' = [t \in Types |-> FALSE]
    /\ scratch' = [t \in Types |-> [r \in Rows |-> None]]
    /\ tx' = [t \in Types |-> [r \in Rows |-> None]]
    /\ backfilled' = [t \in Types |-> {}]
    /\ missed' = [t \in Types |-> {}]

(* The purge, the watermarks and the commit: rows and watermarks land        *)
(* together. A zero watermark writes no row, so the old one stays.           *)
Commit ==
    /\ phase = "tx"
    /\ mirror' = [t \in Types |-> Committed(t)]
    /\ mark' = [t \in Types |->
                  IF NextMark(t, Committed(t)) = 0 THEN mark[t] ELSE NextMark(t, Committed(t))]
    /\ waived' = [t \in Types |->
                    {r \in waived[t] \cup missed[t] \cup BootstrapGap(t) :
                        Committed(t)[r] # up[t][r]}]
    /\ ResetCycle
    /\ UNCHANGED <<now, up, apiCache>>

(* A fetch error, a memory limit, an upsert error, a failed commit, a        *)
(* cancelled or crashed cycle: nothing but the scratch file and the open     *)
(* transaction existed, and both are gone.                                   *)
FailCycle ==
    /\ phase # "idle"
    /\ ResetCycle
    /\ UNCHANGED <<now, up, apiCache, mirror, mark, waived>>

-----------------------------------------------------------------------------

Start == [updated |-> 1, sub |-> 0, live |-> TRUE]

(* Upstream holds some rows. The mirror is new, or comes from a release      *)
(* without watermarks and is up to date.                                     *)
Init ==
    /\ now = [updated |-> 1, sub |-> 0]
    /\ up \in [Types -> [Rows -> {None, Start}]]
    /\ apiCache = up
    /\ mirror \in {up, [t \in Types |-> [r \in Rows |-> None]]}
    /\ mark = [t \in Types |-> 0]
    /\ Idle
    /\ waived = [t \in Types |-> {}]

Upstream ==
    \/ \E t \in Types, r \in Rows, time \in Instants, live \in BOOLEAN : Change(t, r, time, live)
    \/ \E t \in Types : RebuildCache(t)

Fault ==
    \/ FailCycle
    \/ \E t \in Types : FetchSinceFails(t)
    \/ \E t \in Types, kept \in SUBSET Rows : WindowFails(t, kept)

Progress ==
    \/ \E m \in {"incremental", "full"} : StartCycle(m)
    \/ \E t \in Types : FetchSince(t) \/ FetchBare(t) \/ FetchWindow(t)
    \/ \E orphans \in [Types -> SUBSET Rows] : Upsert(orphans)
    \/ \E t \in Types, ids \in SUBSET Rows : Backfill(t, ids)
    \/ Commit

Next == Upstream \/ Fault \/ Progress

Spec == Init /\ [][Next]_vars

(* The scheduler starts a cycle every interval, in either mode, and the cycle *)
(* runs to its end, so each step that stays possible is taken; upstream      *)
(* rebuilds its API cache now and then.                                      *)
Fairness ==
    /\ WF_vars(\E m \in {"incremental", "full"} : StartCycle(m))
    /\ \A t \in Types :
         /\ WF_vars(FetchSince(t)) /\ WF_vars(FetchBare(t)) /\ WF_vars(FetchWindow(t))
         /\ WF_vars(RebuildCache(t) /\ apiCache' # apiCache)
    /\ WF_vars(Upsert([t \in Types |-> {}]))
    /\ WF_vars(Commit)
FairSpec == Spec /\ Fairness

-----------------------------------------------------------------------------
(* Properties.                                                               *)

TypeOK ==
    /\ now \in [updated : Nat, sub : Nat]
    /\ up \in [Types -> Table]
    /\ apiCache \in [Types -> Table]
    /\ mirror \in [Types -> Table]
    /\ mark \in [Types -> Nat]
    /\ phase \in {"idle", "fetch", "tx"}
    /\ mode \in {"incremental", "full"}
    /\ stage \in [Types -> {"todo", "fellback", "snapshot", "staged"}]
    /\ cutoff \in [Types -> Nat]
    /\ discarded \in [Types -> BOOLEAN]
    /\ scratch \in [Types -> Table]
    /\ tx \in [Types -> Table]
    /\ backfilled \in [Types -> SUBSET Rows]
    /\ missed \in [Types -> SUBSET Rows]
    /\ waived \in [Types -> SUBSET Rows]

(* No upstream change is lost, tombstones included: a row on which the       *)
(* committed mirror disagrees with upstream is one that the next ?since=     *)
(* request of its type returns, unless a commit left that version out for    *)
(* one of the reasons the code accepts (an orphan row, a same-second change, *)
(* the discarded window of a fallback, the bootstrap rule). This is what the *)
(* watermark of watermark.go is for.                                         *)
NoSkippedChange ==
    \A t \in Types, r \in Rows :
        \/ Reflects(mirror[t][r], up[t][r])
        \/ r \in waived[t]
        \/ SentSince(up[t][r], Cursor(t))

(* A commit never replaces a row by an older version of it: a stale bare     *)
(* list or a replayed window cannot undo an edit or resurrect a tombstone.   *)
(* The purge alone removes rows.                                             *)
RowsMoveForward ==
    [][\A t \in Types, r \in Rows :
          \/ mirror'[t][r] = mirror[t][r]
          \/ After(mirror'[t][r], mirror[t][r])
          \/ t \in Purged /\ mirror'[t][r] = None]_vars

(* The cursor that the next cycle starts from never moves back, so no cycle  *)
(* repeats a window without bound; the purge, which can remove the newest    *)
(* rows of a table, is the one exception.                                    *)
CursorMovesForward ==
    [][\A t \in Types \ Purged : Cursor(t)' >= Cursor(t)]_vars

(* From some time on nothing changes upstream and nothing fails. A cycle that *)
(* fails at its end and one that commits no change are the same step.        *)
Quiet == <>[][~Upstream /\ (Fault => Commit)]_<<now, up, mirror, cycle>>

(* When upstream and the network stay quiet, the mirror converges on         *)
(* upstream, except for the versions the code left out.                      *)
Converges ==
    Quiet => <>[](\A t \in Types, r \in Rows :
                     Reflects(mirror[t][r], up[t][r]) \/ r \in waived[t])

(* A held cursor does not stay behind the backfilled rows: once things are   *)
(* quiet, the watermark reaches the newest row of the table and stays there. *)
WatermarkCatchesUp ==
    Quiet => <>[](\A t \in Types : ~Held(t))
=============================================================================
