------------------------- MODULE MirrorSyncInvariant -------------------------
(* The inductive invariant behind NoSkippedChange: what is known of each row *)
(* of upstream between the requests and the commit of a cycle.               *)
EXTENDS MirrorSync

(* v is the upstream version u or an earlier one of the same row.            *)
Past(v, u) == v = u \/ After(u, v)

(* Versions are well formed, and what the mirror, the API cache, the scratch *)
(* tables and the transaction hold was upstream's at some time.              *)
HistoryOK ==
    \A t \in Types, r \in Rows :
        /\ up[t][r].updated = 0 => up[t][r] = None
        /\ up[t][r].live => Stored(up[t][r])
        /\ ~After(up[t][r], now)
        /\ \A v \in {mirror[t][r], apiCache[t][r], scratch[t][r], tx[t][r]} :
              /\ Past(v, up[t][r])
              /\ v.updated = 0 => v = None

(* Two rows do not change at the same instant, the first one excepted.       *)
InstantsOK ==
    \A t \in Types : \A r, s \in Rows :
        \/ r = s
        \/ After(up[t][r], up[t][s])
        \/ After(up[t][s], up[t][r])
        \/ up[t][r].updated <= 1 /\ up[t][r].sub = 0

(* A row that changed after the API cache was built is later than all of it. *)
CacheOK ==
    \A t \in Types, r \in Rows :
        \/ apiCache[t][r] = LiveRows(up[t])[r]
        \/ \A s \in Rows : SentSince(up[t][r], apiCache[t][s].updated)

(* Upstream deleted the row, and the mirror never held it.                   *)
NeverHeld(t, r, stored) ==
    /\ stored = None
    /\ ~up[t][r].live
    /\ t \in Purged \/ apiCache[t][r] = None

(* NoSkippedChange, with what a stale bare list may still bring back.        *)
CommittedOK ==
    \A t \in Types, r \in Rows :
        \/ mirror[t][r] = up[t][r]
        \/ r \in waived[t]
        \/ NeverHeld(t, r, mirror[t][r])
        \/ SentSince(up[t][r], Cursor(t))

(* No FK backfill lands rows of a purged type, so its cursor is never held.  *)
PurgedOK ==
    \A t \in Purged : ~Held(t) /\ backfilled[t] = {}

(* Between the bare list and its window.                                     *)
SnapshotOK ==
    \A t \in Types : stage[t] = "snapshot" =>
        /\ phase = "fetch"
        /\ ~discarded[t]
        /\ cutoff[t] = Newest(scratch[t], {})
        /\ SnapshotWindowStart(Cursor(t), cutoff[t]) # 0
        /\ \A r \in Rows :
            /\ \/ scratch[t][r] = LiveRows(up[t])[r] /\ apiCache[t][r] = LiveRows(up[t])[r]
               \/ \A s \in Rows : SentSince(up[t][r], scratch[t][s].updated)
            /\ \/ mirror[t][r] = up[t][r]
               \/ r \in waived[t]
               \/ NeverHeld(t, r, mirror[t][r]) /\ (t \in Purged \/ scratch[t][r] = None)
               \/ SentSince(up[t][r], Cursor(t))

(* The next cycle's cursor will not pass the current version of the row.     *)
Beyond(t, r, tables, except) ==
    /\ SentSince(up[t][r], Cursor(t))
    /\ \/ Held(t) /\ discarded[t]
       \/ \A table \in tables : \A s \in Rows \ except :
             SentSince(up[t][r], table[s].updated)

(* Staged: each row is in scratch, or in the mirror, or will be sent again.  *)
StagedOK ==
    \A t \in Types : phase = "fetch" /\ stage[t] = "staged" =>
        \A r \in Rows :
            \/ scratch[t][r] = up[t][r] /\ Stored(up[t][r])
            \/ mirror[t][r] = up[t][r] /\ (mode = "incremental" \/ scratch[t][r] = None)
            \/ scratch[t][r] = None /\ NeverHeld(t, r, mirror[t][r])
            \/ r \in missed[t] \cup waived[t]
            \/ Beyond(t, r, {scratch[t], mirror[t]}, {})

(* In the transaction.                                                       *)
TxOK ==
    phase = "tx" =>
        \A t \in Types, r \in Rows :
            \/ tx[t][r] = up[t][r]
            \/ NeverHeld(t, r, tx[t][r])
            \/ r \in missed[t] \cup waived[t]
            \/ Beyond(t, r, {tx[t]}, backfilled[t])

(* A fetched type is empty-handed before its request, and a failed one too.  *)
IdleOK ==
    /\ phase = "idle" => Idle
    /\ phase = "fetch" => \A t \in Types :
          /\ backfilled[t] = {}
          /\ stage[t] \in {"todo", "fellback"} =>
                ~discarded[t] /\ missed[t] = {} /\ scratch[t] = [r \in Rows |-> None]

(* No row that the cycle has ready to write is older than the mirror's. In   *)
(* an incremental cycle the gate of the upsert sees to it; in a full one,    *)
(* whose gate is wider, the window does.                                     *)
ForwardOK ==
    \A t \in Types, r \in Rows :
        /\ phase = "fetch" /\ mode = "full" /\ stage[t] = "staged" =>
              scratch[t][r] = None \/ Past(mirror[t][r], scratch[t][r])
        /\ phase = "tx" => Past(mirror[t][r], tx[t][r])

IInv ==
    /\ TypeOK
    /\ HistoryOK
    /\ InstantsOK
    /\ CacheOK
    /\ CommittedOK
    /\ PurgedOK
    /\ SnapshotOK
    /\ StagedOK
    /\ TxOK
    /\ IdleOK
    /\ ForwardOK
==============================================================================
