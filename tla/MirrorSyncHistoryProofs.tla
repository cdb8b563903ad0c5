----------------------- MODULE MirrorSyncHistoryProofs -----------------------
(* Proofs about MirrorSync with the history that MirrorSyncFetchTime and     *)
(* MirrorSyncVersions keep of it, for every set of types, rows and instants. *)
EXTENDS MirrorSyncFetchTime, MirrorSyncVersions, MirrorSyncProofs

(* No request lies in the future.                                            *)
FetchTimesOK ==
    /\ fetched \in [Types -> Nat]
    /\ \A t \in Types : fetched[t] <= now.updated

(* From the first request of a type to the end of the cycle, no row of its    *)
(* table, of its staged rows or of the transaction is later than its last     *)
(* request. The rows that FK backfill landed are the exception, and the       *)
(* reason why the watermark leaves them out.                                 *)
Within(t) ==
    /\ phase = "fetch" /\ stage[t] # "todo" =>
          \A r \in Rows : mirror[t][r].updated <= fetched[t] /\ scratch[t][r].updated <= fetched[t]
    /\ phase = "tx" =>
          /\ \A r \in Rows : mirror[t][r].updated <= fetched[t]
          /\ \A r \in Rows \ backfilled[t] : tx[t][r].updated <= fetched[t]
FetchInv ==
    /\ IInv
    /\ FetchTimesOK
    /\ \A t \in Types : Within(t)

(* A step that asks for no row of a type takes nothing from upstream into it, *)
(* but by FK backfill.                                                       *)
LEMMA WithinKept ==
  ASSUME NEW t \in Types, Within(t), phase' = phase,
         stage'[t] = stage[t], fetched'[t] = fetched[t],
         UNCHANGED <<mirror, scratch[t], tx, backfilled>>
  PROVE  Within(t)'
BY DEF Within

(* A request of a type: all that the worker has of it is from then or before. *)
LEMMA WithinRequest ==
  ASSUME Basic, NEW t \in Types, phase' = "fetch", fetched'[t] = now.updated,
         mirror' = mirror,
         \A r \in Rows : scratch'[t][r] \in {None, scratch[t][r], up[t][r], apiCache[t][r]}
  PROVE  Within(t)'
<1>1. now.updated \in Nat
  BY Bounded
<1>2. ASSUME NEW r \in Rows
      PROVE  mirror'[t][r].updated <= now.updated /\ scratch'[t][r].updated <= now.updated
  BY <1>1, Bounded DEF None
<1>. QED
  BY <1>2 DEF Within

(* The upstream clock only moves forward, and a request reads it.            *)
LEMMA FetchTimesStep ==
  ASSUME Basic, FetchTimesOK, [FetchNext]_<<vars, fetched>>
  PROVE  FetchTimesOK'
<1>1. now.updated \in Nat /\ now'.updated \in Nat /\ now.updated <= now'.updated
  <2>1. now \in [updated : Nat, sub : Nat] /\ Instants \subseteq [updated : Nat \ {0}, sub : Nat]
    BY ParamsAssumption DEF Basic, TypeOK
  <2>2. CASE \E t \in Types, r \in Rows, time \in Instants, live \in BOOLEAN :
                 Change(t, r, time, live)
    BY <2>1, <2>2 DEF Change, After
  <2>3. CASE now' = now
    BY <2>1, <2>3
  <2>. QED
    BY <2>2, <2>3 DEF FetchNext, Next, Upstream, Fault, Progress, RebuildCache, StartCycle,
       FetchSince, FetchSinceFails, FetchBare, FetchWindow, WindowFails, Upsert, Backfill, Commit,
       FailCycle, vars
<1>2. \A t \in Types : fetched'[t] \in {fetched[t], now.updated}
  BY <1>1 DEF FetchNext, FetchTimesOK
<1>3. ASSUME NEW t \in Types PROVE fetched'[t] <= now'.updated
  BY <1>1, <1>2 DEF FetchTimesOK
<1>4. fetched' \in [Types -> Nat]
  BY <1>1 DEF FetchNext, FetchTimesOK
<1>. QED
  BY <1>3, <1>4 DEF FetchTimesOK

(* FetchInv is inductive.                                                    *)
THEOREM FetchInductive == FetchSpec => []FetchInv
<1>1. FetchInit => FetchInv
  <2> SUFFICES ASSUME FetchInit PROVE FetchInv
    OBVIOUS
  <2>1. IInv
    BY IInvInit DEF FetchInit
  <2>2. FetchTimesOK /\ phase = "idle"
    BY <2>1 DEF FetchInit, FetchTimesOK, Init, Idle
  <2>. QED
    BY <2>1, <2>2 DEF FetchInv, Within
<1>2. ASSUME FetchInv, [FetchNext]_<<vars, fetched>> PROVE FetchInv'
  <2>0. /\ Basic /\ IdleOK /\ FetchTimesOK /\ TypeOK
        /\ \A t \in Types : Within(t)
    BY <1>2 DEF FetchInv, IInv, Basic
  <2>1. [Next]_vars
    BY <1>2 DEF FetchNext
  <2>2. IInv'
    BY <1>2, <2>1, IInvStep DEF FetchInv
  <2>3. now.updated \in Nat
    BY <2>0 DEF TypeOK, Basic
  <2>4. FetchTimesOK'
    BY <1>2, <2>0, FetchTimesStep
  <2>5. \A t \in Types : fetched'[t] = IF Request(t) THEN now.updated ELSE fetched[t]
    BY <1>2 DEF FetchNext, Request, vars, cycle
  <2>6. ASSUME NEW t \in Types PROVE Within(t)'
    <3>1. CASE Request(t)
      <4>1. phase' = "fetch" /\ stage'[t] # stage[t] /\ fetched'[t] = now.updated
        BY <2>5, <3>1 DEF Request
      <4>2. /\ mirror' = mirror
            /\ \A r \in Rows : scratch'[t][r] \in {None, scratch[t][r], up[t][r], apiCache[t][r]}
        <5>1. CASE Upstream \/ \E m \in {"incremental", "full"} : StartCycle(m)
          BY <4>1, <5>1 DEF Upstream, Change, RebuildCache, StartCycle, cycle
        <5>2. CASE \E q \in Types : FetchSinceFails(q)
          BY <5>2 DEF FetchSinceFails
        <5>3. CASE \E q \in Types, kept \in SUBSET Rows : WindowFails(q, kept)
          BY <2>0, <5>3 DEF WindowFails, Replaced, TypeOK, Table
        <5>4. CASE \E q \in Types : FetchSince(q)
          BY <2>0, <5>4 DEF FetchSince, TypeOK, Table
        <5>5. CASE \E q \in Types : FetchBare(q)
          BY <2>0, <5>5 DEF FetchBare, TypeOK, Table
        <5>6. CASE \E q \in Types : FetchWindow(q)
          BY <2>0, <5>6 DEF FetchWindow, Replaced, TypeOK, Table
        <5>7. CASE \/ FailCycle \/ Commit
                   \/ \E orphans \in [Types -> SUBSET Rows] : Upsert(orphans)
          BY <4>1, <5>7 DEF FailCycle, Commit, ResetCycle, Upsert
        <5>8. CASE \E q \in Types, ids \in SUBSET Rows : Backfill(q, ids)
          BY <4>1, <5>8 DEF Backfill
        <5>. QED
          BY <2>1, <3>1, <5>1, <5>2, <5>3, <5>4, <5>5, <5>6, <5>7, <5>8
             DEF Next, Fault, Progress, Request, vars, cycle
      <4>. QED
        BY <2>0, <4>1, <4>2, WithinRequest
    <3>2. CASE ~Request(t)
      <4>0. fetched'[t] = fetched[t]
        BY <2>5, <3>2
      <4>1. CASE Upstream
        BY <2>0, <4>0, <4>1, WithinKept DEF Upstream, Change, RebuildCache, cycle
      <4>2. CASE \E m \in {"incremental", "full"} : StartCycle(m)
        <5>1. phase' = "fetch" /\ stage'[t] = "todo"
          BY <2>0, <4>2 DEF StartCycle, IdleOK, Idle
        <5>. QED
          BY <5>1 DEF Within
      <4>3. CASE \/ \E q \in Types : \/ FetchSince(q) \/ FetchBare(q) \/ FetchWindow(q)
                                     \/ FetchSinceFails(q)
                 \/ \E q \in Types, kept \in SUBSET Rows : WindowFails(q, kept)
        <5>1. PICK q \in Types : \/ FetchSince(q) \/ FetchBare(q) \/ FetchWindow(q)
                                 \/ FetchSinceFails(q)
                                 \/ \E kept \in SUBSET Rows : WindowFails(q, kept)
          BY <4>3
        <5>2. phase = "fetch" /\ phase' = "fetch" /\ stage'[t] = stage[t]
          BY <3>2, <5>1 DEF FetchSince, FetchBare, FetchWindow, FetchSinceFails, WindowFails,
                            AtStep, Request
        <5>3. stage'[q] # stage[q]
          BY <2>0, <5>1 DEF FetchSince, FetchBare, FetchWindow, FetchSinceFails, WindowFails,
                            TypeOK
        <5>4. scratch'[t] = scratch[t]
          BY <2>0, <5>1, <5>2, <5>3
             DEF FetchSince, FetchBare, FetchWindow, FetchSinceFails, WindowFails, TypeOK
        <5>5. UNCHANGED <<mirror, tx, backfilled>>
          BY <5>1 DEF FetchSince, FetchBare, FetchWindow, FetchSinceFails, WindowFails
        <5>. QED
          BY <2>0, <4>0, <5>2, <5>4, <5>5, WithinKept
      <4>4. CASE \E orphans \in [Types -> SUBSET Rows] : Upsert(orphans)
        <5>1. PICK orphans \in [Types -> SUBSET Rows] : Upsert(orphans)
          BY <4>4
        <5>2. /\ phase = "fetch" /\ stage[t] = "staged" /\ phase' = "tx" /\ mirror' = mirror
              /\ \A r \in Rows : tx'[t][r] \in {scratch[t][r], mirror[t][r]}
          BY <5>1 DEF Upsert, Upserted
        <5>. QED
          BY <2>0, <4>0, <5>2 DEF Within
      <4>5. CASE \E q \in Types, ids \in SUBSET Rows : Backfill(q, ids)
        <5>1. PICK q \in Types, ids \in SUBSET Rows : Backfill(q, ids)
          BY <4>5
        <5>2. /\ phase = "tx" /\ phase' = "tx" /\ mirror' = mirror
              /\ \A r \in Rows \ backfilled'[t] : r \notin backfilled[t] /\ tx'[t][r] = tx[t][r]
          BY <2>0, <5>1 DEF Backfill, TypeOK, Table
        <5>. QED
          BY <2>0, <4>0, <5>2 DEF Within
      <4>6. CASE FailCycle \/ Commit
        BY <4>6 DEF FailCycle, Commit, ResetCycle, Within
      <4>7. CASE UNCHANGED vars
        BY <2>0, <4>0, <4>7, WithinKept DEF vars, cycle
      <4>. QED
        BY <2>1, <4>1, <4>2, <4>3, <4>4, <4>5, <4>6, <4>7 DEF Next, Fault, Progress
    <3>. QED
      BY <3>1, <3>2
  <2>. QED
    BY <2>2, <2>4, <2>6 DEF FetchInv
<1>. QED
  BY <1>1, <1>2, PTL DEF FetchSpec

(* Whatever FK backfill lands after a fetch, and whatever order the changes   *)
(* of upstream, the requests and the failures of the cycles take, the         *)
(* watermark of a type that had rows never passes the last request of the     *)
(* type: the cursor does not skip a change that the fetch could not see.     *)
THEOREM WatermarkStaysWithinFetch == FetchSpec => WatermarkWithinFetch
<1>1. ASSUME FetchInv, [FetchNext]_<<vars, fetched>>, NEW t \in Types,
             Cursor(t) # 0, mark'[t] # mark[t]
      PROVE  mark'[t] <= fetched[t]
  <2>0. Basic /\ Within(t) /\ fetched[t] \in Nat
    BY <1>1 DEF FetchInv, IInv, Basic, FetchTimesOK
  <2>1. Commit
    BY <1>1 DEF FetchNext, Next, Upstream, Fault, Progress, Change, RebuildCache, StartCycle,
                FetchSince, FetchSinceFails, FetchBare, FetchWindow, WindowFails, Upsert,
                Backfill, FailCycle, vars
  <2> DEFINE newest == Newest(Committed(t), backfilled[t])
  <2>2. /\ newest \in Nat
        /\ newest = 0 \/ \E r \in Rows \ backfilled[t] : newest = tx[t][r].updated
        /\ NextMark(t, Committed(t)) \in {Cursor(t), newest}
    BY <1>1, <2>0, NextMarkFacts, CursorFacts
  <2>3. mark'[t] = NextMark(t, Committed(t))
    BY <1>1, <2>0, <2>1, CommitFacts
  <2>4. phase = "tx"
    BY <2>1 DEF Commit
  <2>5. newest <= fetched[t]
    <3> HIDE DEF newest
    <3>. QED
      BY <2>0, <2>2, <2>4 DEF Within
  <2>6. Cursor(t) <= fetched[t]
    <3>1. /\ mirror[t] \in Table
          /\ \A r \in Rows : mirror[t][r].updated <= fetched[t]
      BY <2>0, <2>4, Bounded DEF Within
    <3>2. Newest(mirror[t], {}) <= fetched[t]
      BY <2>0, <3>1, NewestIs
    <3>. QED
      BY <2>0, <3>2, CursorFacts
  <2>. QED
    BY <2>2, <2>3, <2>5, <2>6
<1>2. FetchInv /\ [FetchNext]_<<vars, fetched>> =>
        [\A t \in Types : Cursor(t) # 0 /\ mark'[t] # mark[t] =>
            mark'[t] <= fetched[t]]_<<vars, fetched>>
  BY <1>1
<1>. QED
  BY <1>2, FetchInductive, PTL DEF FetchSpec, WatermarkWithinFetch

-----------------------------------------------------------------------------
(* What the cycle knows of a row that did not change since the second of the *)
(* type's last request: it is staged or in the transaction, or needs not be. *)
Fresh(t, r) ==
    Cursor(t) # 0 /\ ~discarded[t] =>
        /\ phase = "fetch" /\ stage[t] = "staged" =>
              up[t][r].updated >= fetched[t] \/ Known(t, r)
        /\ phase = "tx" =>
              up[t][r].updated >= fetched[t] \/ KnownInTx(t, r)
FreshInv ==
    /\ FetchInv
    /\ \A t \in Types, r \in Rows : Fresh(t, r)

(* A step elsewhere keeps what is known of a row.                            *)
LEMMA KnownKept ==
  ASSUME Basic, NEW t \in Types, NEW r \in Rows,
         up'[t][r] = up[t][r], mirror'[t] = mirror[t],
         apiCache'[t][r] = apiCache[t][r] \/ apiCache'[t][r] = LiveRows(up[t])[r],
         r \in missed[t] \cup waived[t] => r \in missed'[t] \cup waived'[t]
  PROVE  /\ Known(t, r) /\ scratch'[t] = scratch[t] /\ mode' = mode => Known(t, r)'
         /\ KnownInTx(t, r) /\ tx'[t][r] = tx[t][r] => KnownInTx(t, r)'
<1>1. \A v : NeverHeld(t, r, v) => v = None /\ ~up'[t][r].live
                                   /\ (t \in Purged \/ apiCache'[t][r] = None)
  BY DEF NeverHeld, LiveRows
<1>2. /\ mirror'[t][r] = mirror[t][r] /\ NeverHeld(t, r, mirror[t][r]) =>
           NeverHeld(t, r, mirror[t][r])'
      /\ tx'[t][r] = tx[t][r] /\ NeverHeld(t, r, tx[t][r]) => NeverHeld(t, r, tx[t][r])'
  BY <1>1 DEF NeverHeld
<1>. QED
  BY <1>2 DEF Known, KnownInTx

(* What a fetch makes known: a ?since= request by the invariant of the        *)
(* cursor, a window by what the bare list had.                               *)
LEMMA FetchMakesKnown ==
  ASSUME IInv, NEW t \in Types, NEW r \in Rows, FetchSince(t) \/ FetchWindow(t)
  PROVE  Known(t, r)'
<1>0. Basic
  BY DEF IInv, Basic
<1>1. CASE FetchSince(t)
  <2>1. /\ UNCHANGED <<mirror, up, apiCache, waived, missed, mode>>
        /\ mode = "incremental"
        /\ scratch'[t][r] = IF SentSince(up[t][r], Cursor(t)) THEN up[t][r] ELSE None
    BY <1>0, <1>1 DEF FetchSince, Basic, TypeOK
  <2>2. CASE SentSince(up[t][r], Cursor(t))
    <3>1. up[t][r] \in Version /\ Cursor(t) \in Nat
      BY <1>0, Bounded, CursorFacts DEF Table
    <3>2. Stored(up[t][r])
      BY <2>2, <3>1 DEF SentSince, Stored, Version
    <3>. QED
      BY <2>1, <2>2, <3>2 DEF Known
  <2>3. CASE ~SentSince(up[t][r], Cursor(t))
    BY <2>1, <2>3 DEF IInv, CommittedOK, Known, NeverHeld
  <2>. QED
    BY <2>2, <2>3
<1>2. CASE FetchWindow(t)
  <2>1. /\ UNCHANGED <<mirror, up, apiCache, waived, missed, mode>>
        /\ stage[t] = "snapshot"
        /\ scratch'[t][r] = IF r \in Window(t) THEN up[t][r] ELSE scratch[t][r]
    BY <1>0, <1>2 DEF FetchWindow, Replaced, Basic, TypeOK
  <2>2. CASE r \in Window(t)
    BY <1>0, <2>1, <2>2, WindowIsStored DEF Known
  <2>3. CASE r \notin Window(t)
    <3>1. Covered(t, r)
      BY <2>1, <2>3, OutsideWindow
    <3>. QED
      BY <2>1, <2>3, <3>1 DEF Covered, Known, NeverHeld
  <2>. QED
    BY <2>2, <2>3
<1>. QED
  BY <1>1, <1>2

(* A bare list that ends the fetch of a type is that of an empty table.      *)
LEMMA BareEndsEmpty ==
  ASSUME Basic, NEW t \in Types, FetchBare(t), stage'[t] = "staged"
  PROVE  Cursor(t) = 0
<1>1. SnapshotWindowStart(Cursor(t), Newest(apiCache[t], {})) = 0
  BY DEF FetchBare, Basic, TypeOK
<1>2. Cursor(t) \in Nat /\ Newest(apiCache[t], {}) \in Nat
  BY Bounded, NewestIs, CursorFacts
<1>. QED
  BY <1>1, <1>2 DEF SnapshotWindowStart

(* Every step keeps what is known of the rows that did not change.           *)
LEMMA FreshStep ==
  ASSUME FreshInv, [FetchNext]_<<vars, fetched>>, NEW t \in Types, NEW r \in Rows
  PROVE  Fresh(t, r)'
<1>0. /\ IInv /\ Basic /\ FetchTimesOK /\ Fresh(t, r)
      /\ up[t][r].updated \in Nat /\ fetched[t] \in Nat /\ fetched[t] <= now.updated
      /\ now.updated \in Nat
  <2>1. IInv /\ Basic /\ FetchTimesOK /\ Fresh(t, r)
    BY DEF FreshInv, FetchInv, IInv, Basic
  <2>2. up[t][r] \in Version
    BY <2>1, Bounded DEF Table
  <2>. QED
    BY <2>1, <2>2, Bounded DEF FetchTimesOK, Version
<1>1. ASSUME NEW q \in Types, NEW x \in Rows, NEW time \in Instants, NEW live \in BOOLEAN,
             Change(q, x, time, live), fetched'[t] = fetched[t]
      PROVE  Fresh(t, r)'
  <2>1. /\ Cursor(t)' = Cursor(t)
        /\ UNCHANGED <<mirror, apiCache, phase, stage, discarded, mode, scratch, tx>>
    BY <1>1, CursorKept DEF Change
  <2>2. CASE q = t /\ x = r
    <3>1. up'[t][r].updated = time.updated /\ time.updated \in Nat
      <4>1. time \in [updated : Nat \ {0}, sub : Nat]
        BY ParamsAssumption
      <4>2. Change(t, r, time, live)
        BY <1>1, <2>2
      <4>3. up'[t][r] = [updated |-> time.updated, sub |-> time.sub, live |-> live]
        BY <1>0, <4>2, ChangeFacts
      <4>. QED
        BY <4>1, <4>3
    <3>2. now.updated <= time.updated
      BY <1>0, <1>1, <3>1 DEF Change, After
    <3>. QED
      BY <1>0, <1>1, <3>1, <3>2 DEF Fresh
  <2>3. CASE ~(q = t /\ x = r)
    <3>1. up'[t][r] = up[t][r]
      BY <1>0, <1>1, <2>3, ChangeElsewhere
    <3>2. r \in missed[t] \cup waived[t] => r \in missed'[t] \cup waived'[t]
      BY <1>0, <1>1, <2>3 DEF Change, Basic, TypeOK
    <3>3. (Known(t, r) => Known(t, r)') /\ (KnownInTx(t, r) => KnownInTx(t, r)')
      BY <1>0, <2>1, <3>1, <3>2, KnownKept
    <3>. QED
      BY <1>0, <1>1, <2>1, <3>1, <3>3 DEF Fresh
  <2>. QED
    BY <2>2, <2>3
<1>2. CASE (\E q \in Types : RebuildCache(q)) /\ fetched'[t] = fetched[t]
  <2>1. /\ Cursor(t)' = Cursor(t)
        /\ UNCHANGED <<mirror, up, waived, missed, phase, stage, discarded, mode, scratch, tx>>
    BY <1>2, CursorKept DEF RebuildCache, cycle
  <2>2. apiCache'[t][r] = apiCache[t][r] \/ apiCache'[t][r] = LiveRows(up[t])[r]
    BY <1>0, <1>2 DEF RebuildCache, Basic, TypeOK
  <2>3. (Known(t, r) => Known(t, r)') /\ (KnownInTx(t, r) => KnownInTx(t, r)')
    BY <1>0, <2>1, <2>2, KnownKept
  <2>. QED
    BY <1>0, <1>2, <2>1, <2>3 DEF Fresh
<1>3. CASE \E m \in {"incremental", "full"} : StartCycle(m)
  BY <1>0, <1>3 DEF StartCycle, IInv, IdleOK, Idle, Fresh
<1>4. CASE FetchSince(t) \/ FetchWindow(t)
  <2>1. Known(t, r)' /\ phase' = "fetch"
    BY <1>0, <1>4, FetchMakesKnown DEF FetchSince, FetchWindow, AtStep
  <2>. QED
    BY <2>1 DEF Fresh
<1>5. CASE FetchBare(t)
  <2>1. Cursor(t)' = Cursor(t) /\ phase' = "fetch"
    BY <1>5, CursorKept DEF FetchBare, AtStep
  <2>. QED
    BY <1>0, <1>5, <2>1, BareEndsEmpty DEF Fresh
<1>6. CASE \E kept \in SUBSET Rows : WindowFails(t, kept)
  <2>1. discarded'[t]
    BY <1>0, <1>6 DEF WindowFails, Basic, TypeOK
  <2>. QED
    BY <2>1 DEF Fresh
<1>7. CASE FetchSinceFails(t)
  <2>1. stage'[t] = "fellback" /\ phase' = "fetch"
    BY <1>0, <1>7 DEF FetchSinceFails, AtStep, Basic, TypeOK
  <2>. QED
    BY <2>1 DEF Fresh
<1>8. ASSUME NEW q \in Types, q # t, fetched'[t] = fetched[t],
             \/ FetchSinceFails(q) \/ FetchSince(q) \/ FetchBare(q) \/ FetchWindow(q)
             \/ \E kept \in SUBSET Rows : WindowFails(q, kept)
      PROVE  Fresh(t, r)'
  <2>1. /\ UNCHANGED <<mirror, mark, apiCache, up, waived, phase, mode, tx>>
        /\ stage'[t] = stage[t] /\ scratch'[t] = scratch[t] /\ missed'[t] = missed[t]
        /\ discarded'[t] = discarded[t]
    BY <1>0, <1>8 DEF FetchSince, FetchSinceFails, FetchWindow, FetchBare, WindowFails,
       Basic, TypeOK
  <2>2. Cursor(t)' = Cursor(t)
    BY <2>1, CursorKept
  <2>3. (Known(t, r) => Known(t, r)') /\ (KnownInTx(t, r) => KnownInTx(t, r)')
    BY <1>0, <2>1, KnownKept
  <2>. QED
    BY <1>0, <1>8, <2>1, <2>2, <2>3 DEF Fresh
<1>9. ASSUME NEW orphans \in [Types -> SUBSET Rows], Upsert(orphans), fetched'[t] = fetched[t]
      PROVE  Fresh(t, r)'
  <2>1. /\ UNCHANGED <<mirror, mark, up, discarded>>
        /\ phase = "fetch" /\ stage[t] = "staged" /\ phase' = "tx"
        /\ Cursor(t)' = Cursor(t)
    BY <1>9, CursorKept DEF Upsert
  <2>2. Known(t, r) => KnownInTx(t, r)'
    BY <1>0, <1>9, UpsertKnown
  <2>. QED
    BY <1>0, <1>9, <2>1, <2>2 DEF Fresh
<1>10. ASSUME NEW q \in Types, NEW ids \in SUBSET Rows, Backfill(q, ids), fetched'[t] = fetched[t]
       PROVE  Fresh(t, r)'
  <2>1. /\ UNCHANGED <<mirror, mark, up, apiCache, waived, missed, phase, discarded>>
        /\ phase = "tx" /\ Cursor(t)' = Cursor(t)
        /\ tx'[t][r] = tx[t][r] \/ tx'[t][r] = up[t][r]
    BY <1>0, <1>10, CursorKept DEF Backfill, Basic, TypeOK
  <2>2. KnownInTx(t, r) => KnownInTx(t, r)'
    BY <1>0, <2>1, KnownKept DEF KnownInTx
  <2>. QED
    BY <1>0, <1>10, <2>1, <2>2 DEF Fresh
<1>11. CASE Commit \/ FailCycle
  BY <1>11 DEF Commit, FailCycle, ResetCycle, Fresh
<1>12. CASE UNCHANGED vars /\ fetched'[t] = fetched[t]
  <2>1. /\ UNCHANGED <<mirror, mark, apiCache, up, waived, missed, phase, mode, stage, scratch,
                       discarded, tx>>
    BY <1>12 DEF vars, cycle
  <2>2. Cursor(t)' = Cursor(t)
    BY <2>1, CursorKept
  <2>3. (Known(t, r) => Known(t, r)') /\ (KnownInTx(t, r) => KnownInTx(t, r)')
    BY <1>0, <2>1, KnownKept
  <2>. QED
    BY <1>0, <1>12, <2>1, <2>2, <2>3 DEF Fresh
<1>13. fetched'[t] = IF Request(t) THEN now.updated ELSE fetched[t]
  BY <1>0 DEF FetchNext, FetchTimesOK, Request, vars, cycle
<1>14. stage'[t] = stage[t] \/ phase' # "fetch" => fetched'[t] = fetched[t]
  BY <1>13 DEF Request
<1>15. ASSUME NEW q \in Types, q # t,
              \/ FetchSinceFails(q) \/ FetchSince(q) \/ FetchBare(q) \/ FetchWindow(q)
              \/ \E kept \in SUBSET Rows : WindowFails(q, kept)
       PROVE  fetched'[t] = fetched[t]
  <2>1. stage'[t] = stage[t]
    BY <1>0, <1>15 DEF FetchSince, FetchSinceFails, FetchWindow, FetchBare, WindowFails,
       Basic, TypeOK
  <2>. QED
    BY <1>14, <2>1
<1>16. CASE Upstream
  BY <1>1, <1>2, <1>14, <1>16 DEF Upstream, Change, RebuildCache, cycle
<1>17. CASE \E q \in Types : \/ FetchSinceFails(q) \/ FetchSince(q) \/ FetchBare(q) \/ FetchWindow(q)
                             \/ \E kept \in SUBSET Rows : WindowFails(q, kept)
  BY <1>4, <1>5, <1>6, <1>7, <1>8, <1>15, <1>17
<1>18. CASE \E orphans \in [Types -> SUBSET Rows] : Upsert(orphans)
  BY <1>9, <1>14, <1>18 DEF Upsert
<1>19. CASE \E q \in Types, ids \in SUBSET Rows : Backfill(q, ids)
  BY <1>10, <1>14, <1>19 DEF Backfill
<1>20. CASE UNCHANGED vars
  BY <1>12, <1>14, <1>20 DEF vars, cycle
<1>. QED
  BY <1>3, <1>11, <1>16, <1>17, <1>18, <1>19, <1>20 DEF FetchNext, Next, Fault, Progress

(* FreshInv is inductive.                                                    *)
THEOREM FreshInductive == FetchSpec => []FreshInv
<1>1. FetchInit => \A t \in Types, r \in Rows : Fresh(t, r)
  BY DEF FetchInit, Init, Idle, Fresh
<1>2. /\ FetchInv /\ (\A t \in Types, r \in Rows : Fresh(t, r)) /\ [FetchNext]_<<vars, fetched>>
      => (\A t \in Types, r \in Rows : Fresh(t, r))'
  BY FreshStep DEF FreshInv
<1>3. FetchInv /\ (\A t \in Types, r \in Rows : Fresh(t, r)) => FreshInv
  BY DEF FreshInv
<1>. QED
  BY <1>1, <1>2, <1>3, FetchInductive, PTL DEF FetchSpec

(* A cycle that commits is as fresh as its last requests: the upserts, the    *)
(* gate, FK backfill and the purge lose nothing that was fetched, and the     *)
(* cursor, the snapshot and the window together fetch all that the mirror     *)
(* misses, however stale the bare list of the API cache is.                  *)
THEOREM CommitsAreFresh == FetchSpec => CommitIsFresh
<1>1. ASSUME FreshInv, Commit, NEW t \in Types, NEW r \in Rows,
             Cursor(t) # 0, ~discarded[t], up[t][r].updated < fetched[t]
      PROVE  Reflects(mirror'[t][r], up[t][r]) \/ r \in waived'[t]
  <2>0. Basic /\ Fresh(t, r) /\ fetched[t] \in Nat /\ up[t][r].updated \in Nat
    <3>1. Basic /\ Fresh(t, r) /\ FetchTimesOK
      BY <1>1 DEF FreshInv, FetchInv, IInv, Basic
    <3>2. up[t][r] \in Version
      BY <3>1, Bounded DEF Table
    <3>. QED
      BY <3>1, <3>2 DEF FetchTimesOK, Version
  <2>1. KnownInTx(t, r)
    BY <1>1, <2>0 DEF Fresh, Commit
  <2>2. /\ mirror'[t][r] = Committed(t)[r]
        /\ r \in waived[t] \cup missed[t] /\ Committed(t)[r] # up[t][r] => r \in waived'[t]
    BY <1>1 DEF Commit
  <2>3. /\ Committed(t)[r] = tx[t][r] \/ (Committed(t)[r] = None /\ ~tx[t][r].live)
    BY DEF Committed, Purge
  <2>4. CASE tx[t][r] = up[t][r]
    BY <2>2, <2>3, <2>4 DEF Reflects, None
  <2>5. CASE NeverHeld(t, r, tx[t][r])
    BY <2>2, <2>3, <2>5 DEF NeverHeld, Reflects, None
  <2>6. CASE r \in missed[t] \cup waived[t]
    BY <2>2, <2>6 DEF Reflects
  <2>. QED
    BY <2>1, <2>4, <2>5, <2>6 DEF KnownInTx
<1>2. FreshInv => [Commit => \A t \in Types, r \in Rows :
                      Cursor(t) # 0 /\ ~discarded[t] /\ up[t][r].updated < fetched[t] =>
                        Reflects(mirror'[t][r], up[t][r]) \/ r \in waived'[t]]_<<vars, fetched>>
  BY <1>1
<1>. QED
  BY <1>2, FreshInductive, PTL DEF FetchSpec, CommitIsFresh

-----------------------------------------------------------------------------
(* What the worker holds of a row is a version that upstream stored.         *)
HadOK ==
    /\ had \in [Types -> [Rows -> SUBSET Version]]
    /\ \A t \in Types, r \in Rows :
          /\ up[t][r] \in had[t][r]
          /\ \A v \in {mirror[t][r], apiCache[t][r], scratch[t][r], tx[t][r]} :
                v = None \/ v \in had[t][r]

(* The worker and the API cache copy rows, and write none of their own.      *)
LEMMA RowsCopied ==
  ASSUME Basic, Next, NEW t \in Types, NEW r \in Rows
  PROVE  \A v \in {mirror'[t][r], apiCache'[t][r], scratch'[t][r], tx'[t][r]} :
            v \in {None, up[t][r], mirror[t][r], apiCache[t][r], scratch[t][r], tx[t][r]}
<1> USE DEF Basic
<1>1. CASE Upstream
  BY <1>1 DEF Upstream, Change, RebuildCache, cycle, LiveRows, TypeOK
<1>2. CASE FailCycle
  BY <1>2 DEF FailCycle, ResetCycle
<1>3. CASE \E q \in Types : FetchSinceFails(q) \/ FetchSince(q) \/ FetchBare(q)
  BY <1>3 DEF FetchSinceFails, FetchSince, FetchBare, TypeOK
<1>4. CASE \E q \in Types : FetchWindow(q) \/ \E kept \in SUBSET Rows : WindowFails(q, kept)
  BY <1>4 DEF FetchWindow, WindowFails, Replaced, TypeOK
<1>5. CASE \E m \in {"incremental", "full"} : StartCycle(m)
  BY <1>5 DEF StartCycle
<1>6. CASE \E orphans \in [Types -> SUBSET Rows] : Upsert(orphans)
  BY <1>6 DEF Upsert, Upserted
<1>7. CASE \E q \in Types, ids \in SUBSET Rows : Backfill(q, ids)
  BY <1>7 DEF Backfill, TypeOK
<1>8. CASE Commit
  BY <1>8, CommittedTable DEF Commit, ResetCycle
<1>. QED
  BY <1>1, <1>2, <1>3, <1>4, <1>5, <1>6, <1>7, <1>8 DEF Next, Fault, Progress

(* Every step keeps HadOK.                                                   *)
LEMMA HadStep ==
  ASSUME Basic, HadOK, [VersionsNext]_<<vars, had>>
  PROVE  HadOK'
<1>1. CASE UNCHANGED <<vars, had>>
  BY <1>1 DEF HadOK, vars, cycle
<1>2. CASE VersionsNext
  <2>0. Basic' /\ had' = [t \in Types |-> [r \in Rows |-> had[t][r] \cup {up'[t][r]}]]
    BY <1>2, BasicStep DEF VersionsNext
  <2>1. ASSUME NEW t \in Types, NEW r \in Rows
        PROVE  had[t][r] \in SUBSET Version /\ up'[t][r] \in Version
    BY <2>0 DEF HadOK, Basic, TypeOK, Table
  <2>2. had' \in [Types -> [Rows -> SUBSET Version]]
    BY <2>0, <2>1
  <2>3. ASSUME NEW t \in Types, NEW r \in Rows
        PROVE  /\ up'[t][r] \in had'[t][r]
               /\ \A v \in {mirror'[t][r], apiCache'[t][r], scratch'[t][r], tx'[t][r]} :
                     v = None \/ v \in had'[t][r]
    <3>1. had'[t][r] = had[t][r] \cup {up'[t][r]}
      BY <2>0
    <3>2. \A v \in {mirror'[t][r], apiCache'[t][r], scratch'[t][r], tx'[t][r]} :
            v \in {None, up[t][r], mirror[t][r], apiCache[t][r], scratch[t][r], tx[t][r]}
      BY <1>2, RowsCopied DEF VersionsNext
    <3>. QED
      BY <3>1, <3>2 DEF HadOK
  <2>. QED
    BY <2>2, <2>3 DEF HadOK
<1>. QED
  BY <1>1, <1>2

(* HadOK holds in every state.                                               *)
THEOREM HadInductive == VersionsSpec => [](IInv /\ HadOK)
<1>1. VersionsInit => IInv /\ HadOK
  <2> SUFFICES ASSUME VersionsInit PROVE IInv /\ HadOK
    OBVIOUS
  <2>1. IInv /\ Init
    BY IInvInit DEF VersionsInit
  <2>2. \A t \in Types, r \in Rows : up[t][r] \in Version /\ had[t][r] = {up[t][r]}
    BY <2>1 DEF VersionsInit, IInv, TypeOK, Table
  <2>3. had \in [Types -> [Rows -> SUBSET Version]]
    BY <2>2 DEF VersionsInit
  <2>4. ASSUME NEW t \in Types, NEW r \in Rows
        PROVE  \A v \in {mirror[t][r], apiCache[t][r], scratch[t][r], tx[t][r]} :
                  v \in {None, up[t][r]}
    BY <2>1 DEF Init, Idle
  <2>. QED
    BY <2>1, <2>2, <2>3, <2>4 DEF HadOK
<1>2. IInv /\ HadOK /\ [VersionsNext]_<<vars, had>> => (IInv /\ HadOK)'
  <2>1. [VersionsNext]_<<vars, had>> => [Next]_vars
    BY DEF VersionsNext
  <2>. QED
    BY <2>1, IInvStep, HadStep DEF IInv, Basic
<1>. QED
  BY <1>1, <1>2, PTL DEF VersionsSpec

(* A commit is a sync of the abstract mirror: what it purges was an old      *)
(* tombstone, no older than the row that the mirror had.                     *)
LEMMA CommitIsSync ==
  ASSUME IInv, HadOK, Commit, had' = had
  PROVE  V!Sync
<1>0. Basic /\ phase = "tx"
  BY DEF IInv, Basic, Commit
<1>1. mirror' \in [Types -> [Rows -> V!Version]] /\ UNCHANGED <<now, up, had>>
  BY <1>0, CommittedTable DEF Commit, V!Version, Version, Table
<1>2. ASSUME NEW t \in Types, NEW r \in Rows
      PROVE  V!Follows(t, r, mirror'[t][r])
  <2> DEFINE old == t \in Purged /\ ~tx[t][r].live
                      /\ tx[t][r].updated + Horizon <= now.updated
  <2>1. mirror'[t][r] = IF old THEN None ELSE tx[t][r]
    BY DEF Commit, Committed, Purge
  <2>2. Past(mirror[t][r], tx[t][r]) /\ mirror[t][r] \in Version /\ tx[t][r] \in Version
    BY <1>0, Bounded DEF IInv, ForwardOK, Table
  <2>3. tx[t][r] = None \/ tx[t][r] \in had[t][r]
    BY DEF HadOK
  <2>4. CASE tx[t][r] = None
    <3>1. mirror[t][r] = None
      BY <2>2, <2>4 DEF Past, After, None, Version
    <3>. QED
      BY <2>1, <2>4, <3>1 DEF V!Follows
  <2>5. CASE tx[t][r] \in had[t][r] /\ old
    <3>1. ~V!Newer(mirror[t][r], tx[t][r])
      BY <2>2 DEF Past, After, V!Newer, Version
    <3>2. V!OldTombstone(t, r)
      BY <2>5, <3>1 DEF V!OldTombstone
    <3>. QED
      BY <2>1, <2>5, <3>2 DEF V!Follows, V!Absent, None
  <2>6. CASE tx[t][r] \in had[t][r] /\ ~old
    BY <2>1, <2>2, <2>6 DEF V!Follows, V!Newer, Past, After
  <2>. QED
    BY <2>3, <2>4, <2>5, <2>6
<1>. QED
  BY <1>1, <1>2 DEF V!Sync

(* A change of upstream publishes a version.                                 *)
LEMMA ChangeIsPublish ==
  ASSUME Basic, HadOK, VersionsNext,
         NEW t \in Types, NEW r \in Rows, NEW time \in Instants, NEW live \in BOOLEAN,
         Change(t, r, time, live)
  PROVE  V!Publish(t, r, time, live)
<1>1. V!Newer(time, now) /\ now' = time /\ mirror' = mirror
  BY DEF Change, After, V!Newer
<1>2. up' = [up EXCEPT ![t][r] = [updated |-> time.updated, sub |-> time.sub, live |-> live]]
  BY DEF Change
<1>3. had' = [had EXCEPT ![t][r] = @ \cup {up'[t][r]}]
  <2>1. ASSUME NEW q \in Types, NEW s \in Rows, ~(q = t /\ s = r)
        PROVE  had[q][s] \cup {up'[q][s]} = had[q][s]
    BY <2>1, ChangeElsewhere DEF HadOK
  <2>2. had' = [q \in Types |-> [s \in Rows |-> had[q][s] \cup {up'[q][s]}]]
    BY DEF VersionsNext
  <2>3. ASSUME NEW q \in Types
        PROVE  had'[q] = [had EXCEPT ![t][r] = @ \cup {up'[t][r]}][q]
    <3> DEFINE new == up'[t][r]
    <3>1. had[q] \in [Rows -> SUBSET Version]
      BY DEF HadOK
    <3>2. had'[q] = [s \in Rows |-> had[q][s] \cup {up'[q][s]}]
      BY <2>2
    <3>3. CASE q = t
      <4>1. \A s \in Rows : had'[q][s] = IF s = r THEN had[q][s] \cup {new} ELSE had[q][s]
        BY <2>1, <3>2, <3>3
      <4>. QED
        BY <3>1, <3>2, <3>3, <4>1 DEF HadOK
    <3>4. CASE q # t
      <4>1. \A s \in Rows : had'[q][s] = had[q][s]
        BY <2>1, <3>2, <3>4
      <4>. QED
        BY <3>1, <3>2, <3>4, <4>1 DEF HadOK
    <3>. QED
      BY <3>3, <3>4
  <2>. QED
    BY <2>2, <2>3 DEF HadOK
<1>. QED
  BY <1>1, <1>2, <1>3 DEF V!Publish

(* Every step of the mirror with its history is a step of the abstract one,  *)
(* or changes nothing of it.                                                 *)
LEMMA VersionsStep ==
  ASSUME IInv, HadOK, [VersionsNext]_<<vars, had>>
  PROVE  [V!Next]_<<now, up, had, mirror>>
<1>0. Basic
  BY DEF IInv, Basic
<1>1. CASE UNCHANGED <<vars, had>>
  BY <1>1 DEF vars
<1>2. ASSUME VersionsNext, up' = up
      PROVE  had' = had
  <2>1. had' = [t \in Types |-> [r \in Rows |-> had[t][r] \cup {up[t][r]}]]
    BY <1>2 DEF VersionsNext
  <2>2. \A t \in Types, r \in Rows : had[t][r] \cup {up[t][r]} = had[t][r]
    BY DEF HadOK
  <2>3. ASSUME NEW t \in Types
        PROVE  had'[t] = had[t]
    <3>1. had[t] \in [Rows -> SUBSET Version]
      BY DEF HadOK
    <3>. QED
      BY <2>1, <2>2, <3>1
  <2>. QED
    BY <2>1, <2>3 DEF HadOK
<1>3. CASE VersionsNext /\ Commit
  <2>1. had' = had
    BY <1>2, <1>3 DEF Commit
  <2>. QED
    BY <1>3, <2>1, CommitIsSync DEF V!Next
<1>4. CASE VersionsNext /\ \E t \in Types, r \in Rows, time \in Instants, live \in BOOLEAN :
                              Change(t, r, time, live)
  BY <1>0, <1>4, ChangeIsPublish DEF V!Next
<1>5. CASE VersionsNext /\ UNCHANGED <<now, up, mirror>>
  BY <1>2, <1>5
<1>6. Next => \/ Commit
              \/ \E t \in Types, r \in Rows, time \in Instants, live \in BOOLEAN :
                    Change(t, r, time, live)
              \/ UNCHANGED <<now, up, mirror>>
  BY DEF Next, Upstream, Fault, Progress, RebuildCache, StartCycle, FetchSince,
         FetchSinceFails, FetchBare, FetchWindow, WindowFails, Upsert, Backfill, FailCycle
<1>. QED
  BY <1>1, <1>3, <1>4, <1>5, <1>6 DEF VersionsNext

(* MirrorSync implements the abstract mirror: whatever the API cache serves, *)
(* and wherever cycles fail, what is served moves from one version that      *)
(* upstream stored to a newer one, at once, or loses an old tombstone.       *)
THEOREM MirrorIsVersioned == VersionsSpec => ImplementsVersionedMirror
<1>1. VersionsInit => V!Init
  BY DEF VersionsInit, Init, V!Init, None, Start, V!Absent, V!First
<1>2. IInv /\ HadOK /\ [VersionsNext]_<<vars, had>> => [V!Next]_<<now, up, had, mirror>>
  BY VersionsStep
<1>. QED
  BY <1>1, <1>2, HadInductive, PTL DEF VersionsSpec, ImplementsVersionedMirror, V!Spec
=============================================================================
