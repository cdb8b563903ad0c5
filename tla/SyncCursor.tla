----------------------------- MODULE SyncCursor -----------------------------
(* The ?since= cursor of one object type, from internal/sync/watermark.go,   *)
(* cursor.go and worker.go. Times are whole seconds of the upstream          *)
(* `updated` column; 0 stands for the zero time.Time (an empty table, a type *)
(* with no sync_watermark row, no ?since= window).                           *)
EXTENDS Integers, FiniteSetsExt

(* MAX(updated) over a set of stored timestamps, zero for an empty table.    *)
MaxUpdated(updates) == Max(updates \cup {0})

(* newSyncCursor: E, the cursor of a cycle, from M = MAX(updated) of the     *)
(* table and K = the stored watermark.                                       *)
EffectiveCursor(maxUpdated, mark) ==
    CASE maxUpdated = 0 -> 0
      [] maxUpdated # 0 /\ mark = 0 -> maxUpdated
      [] OTHER -> Min({mark, maxUpdated})

(* newSyncCursor: the cursor is held when the watermark is behind the table. *)
CursorHeld(maxUpdated, mark) ==
    maxUpdated # 0 /\ mark # 0 /\ mark < maxUpdated

(* Mutant: ask for one second more than was seen, an empty table forgotten.  *)
NextWatermarkOverlaps(e, s, held, discarded) ==
    IF held /\ discarded THEN e ELSE Max({e, s}) - 1

(* Mutant: the watermark keeps the cursor, whatever was fetched.             *)
NextWatermarkStays(e, s, held, discarded) ==
    IF e # 0 THEN e ELSE s

(* nextWatermark: e is the cursor of the cycle, s the newest `updated` of    *)
(* the table without the rows that FK backfill upserted.                     *)
NextWatermark(e, s, held, discarded) ==
    IF held /\ discarded THEN e ELSE Max({e, s})

(* Mutant: the window always starts at the cursor.                           *)
SnapshotWindowAtCursor(cursor, snapshotMax) == cursor

(* snapshotWindowStart: where the ?since= window after a bare list starts.   *)
SnapshotWindowStart(cursor, snapshotMax) ==
    IF cursor = 0 \/ (snapshotMax # 0 /\ snapshotMax < cursor)
    THEN snapshotMax
    ELSE cursor
=============================================================================
