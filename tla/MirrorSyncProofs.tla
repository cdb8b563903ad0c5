-------------------------- MODULE MirrorSyncProofs --------------------------
(* Proofs about MirrorSync: IInv is inductive, so that no upstream change is *)
(* lost, no commit moves a row back and no cursor moves back, for every set  *)
(* of types, rows and instants. The facts about times and tables come first, *)
(* then one lemma per conjunct of IInv, then the theorems.                   *)
EXTENDS MirrorSyncInvariant, MaxMinFacts, TLAPS

(* GetMaxUpdated and maxUpdatedExcluding: the newest `updated` of a table,   *)
(* outside of a set of rows, bounds those rows and is one of them, or zero.  *)
LEMMA NewestIs ==
  ASSUME NEW table \in Table, NEW except, NEW b \in Nat,
         \A r \in Rows : table[r].updated <= b
  PROVE  /\ Newest(table, except) \in Nat
         /\ Newest(table, except) <= b
         /\ \A r \in Rows \ except : table[r].updated <= Newest(table, except)
         /\ \/ Newest(table, except) = 0
            \/ \E r \in Rows \ except : table[r].updated = Newest(table, except)
<1> DEFINE S == {table[r].updated : r \in Rows \ except} \cup {0}
<1>1. \A r \in Rows : table[r].updated \in Nat
  BY DEF Table, Version
<1>2. S \in SUBSET Nat /\ S # {} /\ \A y \in S : y <= b
  BY <1>1
<1>3. Max(S) \in S /\ \A y \in S : y <= Max(S)
  <2> HIDE DEF S
  <2> QED BY <1>2, MaxExists
<1>4. Newest(table, except) = Max(S)
  BY DEF Newest, MaxUpdated
<1>5. QED
  BY <1>1, <1>2, <1>3, <1>4

(* oldestUpdatedOf: the oldest `updated` of the stored rows among some rows, *)
(* zero when there is none.                                                  *)
LEMMA OldestIs ==
  ASSUME NEW table \in Table, NEW rows \in SUBSET Rows
  PROVE  /\ Oldest(table, rows) \in Nat
         /\ \/ Oldest(table, rows) = 0 /\ \A r \in rows : table[r].updated = 0
            \/ /\ Oldest(table, rows) # 0
               /\ \E r \in rows : table[r].updated = Oldest(table, rows)
<1> DEFINE S == {table[r].updated : r \in rows} \ {0}
<1>1. \A r \in Rows : table[r].updated \in Nat
  BY DEF Table, Version
<1>2. S \in SUBSET Nat
  BY <1>1
<1>3. CASE S = {}
  BY <1>3, <1>1 DEF Oldest
<1>4. CASE S # {}
  <2>1. Min(S) \in S
    <3> HIDE DEF S
    <3> QED BY <1>2, <1>4, MinExists
  <2>2. Oldest(table, rows) = Min(S)
    BY <1>4 DEF Oldest
  <2>3. QED
    BY <2>1, <2>2, <1>2
<1>5. QED
  BY <1>3, <1>4

-----------------------------------------------------------------------------
(* A row that one ?since= request returns is returned by an earlier one.     *)
LEMMA SentEarlier ==
  ASSUME NEW v \in Version, NEW a \in Nat, NEW b \in Nat, a <= b, SentSince(v, b)
  PROVE  SentSince(v, a)
BY DEF Version, SentSince

(* A version is returned by a request from the time of an older one.         *)
LEMMA LaterIsSent ==
  ASSUME NEW u \in Version, NEW v \in Version, After(u, v), u.updated # 0
  PROVE  SentSince(u, v.updated)
BY DEF Version, SentSince, After

(* An absent row is a version.                                               *)
LEMMA NoneIsVersion == None \in Version
BY DEF None, Version

(* Types, and where the rows come from.                                      *)
Basic == TypeOK /\ HistoryOK

(* Every table holds versions, none of them later than the upstream clock.   *)
LEMMA Bounded ==
  ASSUME Basic, NEW t \in Types
  PROVE  /\ now.updated \in Nat
         /\ mirror[t] \in Table /\ apiCache[t] \in Table
         /\ scratch[t] \in Table /\ tx[t] \in Table /\ up[t] \in Table
         /\ \A r \in Rows :
              /\ up[t][r].updated <= now.updated
              /\ mirror[t][r].updated <= now.updated
              /\ apiCache[t][r].updated <= now.updated
              /\ scratch[t][r].updated <= now.updated
              /\ tx[t][r].updated <= now.updated
<1>1. /\ now.updated \in Nat
      /\ mirror[t] \in Table /\ apiCache[t] \in Table
      /\ scratch[t] \in Table /\ tx[t] \in Table /\ up[t] \in Table
  BY DEF Basic, TypeOK
<1>2. SUFFICES ASSUME NEW r \in Rows,
                      NEW v \in {up[t][r], mirror[t][r], apiCache[t][r], scratch[t][r], tx[t][r]}
               PROVE  v.updated <= now.updated
  BY <1>1
<1>3. up[t][r] \in Version /\ v \in Version
  BY <1>1 DEF Table
<1>4. ~After(up[t][r], now) /\ Past(v, up[t][r])
  BY DEF Basic, HistoryOK, Past
<1>5. QED
  BY <1>1, <1>3, <1>4 DEF Past, After, Version

(* The cursor of a table and a watermark.                                    *)
LEMMA CursorOfTable ==
  ASSUME NEW table \in Table, NEW m \in Nat, NEW b \in Nat,
         \A r \in Rows : table[r].updated <= b
  PROVE  LET newest == Newest(table, {})
             cursor == EffectiveCursor(newest, m)
             held == CursorHeld(newest, m)
         IN  /\ cursor \in Nat
             /\ newest \in Nat
             /\ cursor = IF held THEN m ELSE newest
             /\ held <=> newest # 0 /\ m # 0 /\ m < newest
             /\ cursor <= newest
             /\ m # 0 => cursor <= m
             /\ cursor = 0 <=> newest = 0
             /\ \A r \in Rows : table[r].updated <= newest
<1>1. /\ Newest(table, {}) \in Nat
      /\ \A r \in Rows : table[r].updated <= Newest(table, {})
  BY NewestIs
<1>2. Min({m, Newest(table, {})}) = IF m <= Newest(table, {}) THEN m ELSE Newest(table, {})
  BY <1>1, PairBounds
<1>3. QED
  BY <1>1, <1>2 DEF EffectiveCursor, CursorHeld

(* newSyncCursor: the cursor of a type is its watermark when it is held,     *)
(* else the newest row of its table.                                         *)
LEMMA CursorFacts ==
  ASSUME Basic, NEW t \in Types
  PROVE  /\ Cursor(t) \in Nat
         /\ Newest(mirror[t], {}) \in Nat
         /\ mark[t] \in Nat
         /\ Cursor(t) = IF Held(t) THEN mark[t] ELSE Newest(mirror[t], {})
         /\ Held(t) <=> Newest(mirror[t], {}) # 0 /\ mark[t] # 0
                        /\ mark[t] < Newest(mirror[t], {})
         /\ Cursor(t) <= Newest(mirror[t], {})
         /\ Cursor(t) = 0 <=> Newest(mirror[t], {}) = 0
         /\ \A r \in Rows : mirror[t][r].updated <= Newest(mirror[t], {})
<1>1. mark[t] \in Nat
  BY DEF Basic, TypeOK
<1>2. QED
  BY <1>1, Bounded, CursorOfTable DEF Cursor, Held

(* The purge removes rows of the transaction and changes none.               *)
LEMMA CommittedTable ==
  ASSUME Basic, NEW t \in Types
  PROVE  /\ Committed(t) \in Table
         /\ \A r \in Rows : Committed(t)[r] = tx[t][r] \/ Committed(t)[r] = None
         /\ \A r \in Rows : Committed(t)[r].updated <= now.updated
         /\ Newest(Committed(t), backfilled[t]) \in Nat
         /\ NextMark(t, Committed(t)) \in Nat
<1>1. /\ Committed(t) \in Table
      /\ \A r \in Rows : Committed(t)[r] = tx[t][r] \/ Committed(t)[r] = None
  BY Bounded, NoneIsVersion DEF Committed, Purge, Table
<1>2. \A r \in Rows : Committed(t)[r].updated <= now.updated
  BY <1>1, Bounded DEF None
<1>3. /\ Newest(Committed(t), backfilled[t]) \in Nat
  BY <1>1, <1>2, Bounded, NewestIs
<1>4. NextMark(t, Committed(t)) \in Nat
  <2>1. Oldest(Committed(t), backfilled[t]) \in Nat
    BY <1>1, OldestIs DEF Basic, TypeOK
  <2>2. Max({Cursor(t), Newest(Committed(t), backfilled[t])}) \in Nat
    BY <1>3, CursorFacts, PairBounds
  <2>3. QED
    BY <2>1, <2>2, CursorFacts DEF NextMark, NextWatermark
<1>5. QED
  BY <1>1, <1>2, <1>3, <1>4

(* HistoryOK, spelled out for the four tables.                               *)
LEMMA PastFacts ==
  ASSUME Basic, NEW t \in Types, NEW r \in Rows
  PROVE  /\ Past(mirror[t][r], up[t][r]) /\ (mirror[t][r].updated = 0 => mirror[t][r] = None)
         /\ Past(apiCache[t][r], up[t][r]) /\ (apiCache[t][r].updated = 0 => apiCache[t][r] = None)
         /\ Past(scratch[t][r], up[t][r]) /\ (scratch[t][r].updated = 0 => scratch[t][r] = None)
         /\ Past(tx[t][r], up[t][r]) /\ (tx[t][r].updated = 0 => tx[t][r] = None)
         /\ (up[t][r].updated = 0 => up[t][r] = None)
         /\ (up[t][r].live => up[t][r].updated # 0)
         /\ ~After(up[t][r], now)
         /\ Past(None, up[t][r])
         /\ Past(LiveRows(up[t])[r], up[t][r])
<1>1. up[t] \in Table /\ up[t][r] \in Version
  BY Bounded DEF Table
<1>2. Past(None, up[t][r])
  BY <1>1 DEF Past, After, None, Version, Basic, HistoryOK
<1>3. Past(LiveRows(up[t])[r], up[t][r])
  BY <1>2 DEF LiveRows, Past
<1>4. /\ up[t][r].updated = 0 => up[t][r] = None
      /\ up[t][r].live => up[t][r].updated # 0
      /\ ~After(up[t][r], now)
  BY DEF Basic, HistoryOK, Stored
<1>5. \A v \in {mirror[t][r], apiCache[t][r], scratch[t][r], tx[t][r]} :
         Past(v, up[t][r]) /\ (v.updated = 0 => v = None)
  BY DEF Basic, HistoryOK
<1>6. QED
  BY <1>2, <1>3, <1>4, <1>5

(* The initial states are typed, and their rows come from upstream.          *)
LEMMA BasicInit == Init => Basic
<1> SUFFICES ASSUME Init PROVE Basic
  OBVIOUS
<1>0. None \in Version /\ Start \in Version /\ [r \in Rows |-> None] \in Table
  BY DEF None, Start, Version, Table
<1>1. up \in [Types -> Table] /\ mirror \in [Types -> Table]
  BY <1>0 DEF Init, Table
<1>2. TypeOK
  BY <1>0, <1>1 DEF Init, Idle, TypeOK
<1>3. HistoryOK
  <2>1. \A t \in Types, r \in Rows : up[t][r] \in {None, Start}
    BY DEF Init
  <2>2. \A t \in Types, r \in Rows : mirror[t][r] \in {None, up[t][r]}
    BY DEF Init
  <2>3. \A t \in Types, r \in Rows : /\ apiCache[t][r] = up[t][r]
                                     /\ scratch[t][r] = None /\ tx[t][r] = None
    BY DEF Init, Idle
  <2>4. now = [updated |-> 1, sub |-> 0]
    BY DEF Init
  <2>5. SUFFICES ASSUME NEW t \in Types, NEW r \in Rows
                 PROVE  /\ up[t][r].updated = 0 => up[t][r] = None
                        /\ up[t][r].live => Stored(up[t][r])
                        /\ ~After(up[t][r], now)
                        /\ \A v \in {None, up[t][r]} :
                              Past(v, up[t][r]) /\ (v.updated = 0 => v = None)
    BY <2>2, <2>3 DEF HistoryOK
  <2>6. CASE up[t][r] = None
    BY <2>4, <2>6 DEF Past, After, None, Stored
  <2>7. CASE up[t][r] = Start
    BY <2>4, <2>7 DEF Past, After, None, Start, Stored
  <2>8. QED
    BY <2>1, <2>6, <2>7
<1>4. QED
  BY <1>2, <1>3 DEF Basic

(* A row of the new state comes from the same row of the old one.            *)
LEMMA HistoryKept ==
  ASSUME Basic, now' = now, up' = up,
         \A t \in Types, r \in Rows :
           /\ mirror'[t][r] \in {None, mirror[t][r], tx[t][r]}
           /\ apiCache'[t][r] \in {apiCache[t][r], LiveRows(up[t])[r]}
           /\ scratch'[t][r] \in {None, scratch[t][r], up[t][r], apiCache[t][r]}
           /\ tx'[t][r] \in {None, tx[t][r], up[t][r], scratch[t][r], mirror[t][r]}
  PROVE  HistoryOK'
<1>1. SUFFICES ASSUME NEW t \in Types, NEW r \in Rows
               PROVE  /\ up[t][r].updated = 0 => up[t][r] = None
                      /\ up[t][r].live => Stored(up[t][r])
                      /\ ~After(up[t][r], now)
                      /\ \A v \in {mirror'[t][r], apiCache'[t][r], scratch'[t][r], tx'[t][r]} :
                            Past(v, up[t][r]) /\ (v.updated = 0 => v = None)
  BY DEF HistoryOK
<1>2. LiveRows(up[t])[r].updated = 0 => LiveRows(up[t])[r] = None
  BY PastFacts DEF LiveRows
<1>3. \A v \in {None, mirror[t][r], apiCache[t][r], scratch[t][r], tx[t][r], up[t][r],
                LiveRows(up[t])[r]} :
         Past(v, up[t][r]) /\ (v.updated = 0 => v = None)
  BY PastFacts, <1>2 DEF Past
<1>4. QED
  BY <1>1, <1>3, PastFacts DEF Stored

(* Every step keeps the types, and every row it writes is upstream's.        *)
LEMMA BasicStep == Basic /\ [Next]_vars => Basic'
<1> SUFFICES ASSUME Basic, [Next]_vars PROVE Basic'
  OBVIOUS
<1> USE DEF Basic
<1>0. [r \in Rows |-> None] \in Table
  BY NoneIsVersion DEF Table
<1>1. ASSUME NEW t \in Types, NEW r \in Rows, NEW time \in Instants, NEW live \in BOOLEAN,
             Change(t, r, time, live)
      PROVE  Basic'
  <2>1. /\ time \in [updated : Nat, sub : Nat] /\ time.updated # 0
        /\ [updated |-> time.updated, sub |-> time.sub, live |-> live] \in Version
    BY ParamsAssumption DEF Version
  <2>2. TypeOK'
    BY <1>1, <2>1 DEF Change, TypeOK, Table
  <2>3. HistoryOK'
    <3>1. SUFFICES ASSUME NEW q \in Types, NEW s \in Rows
                   PROVE  /\ up'[q][s].updated = 0 => up'[q][s] = None
                          /\ up'[q][s].live => Stored(up'[q][s])
                          /\ ~After(up'[q][s], now')
                          /\ \A v \in {mirror[q][s], apiCache[q][s], scratch[q][s], tx[q][s]} :
                                Past(v, up'[q][s]) /\ (v.updated = 0 => v = None)
      BY <1>1 DEF Change, HistoryOK
    <3>2. up[q][s] \in Version /\ now \in [updated : Nat, sub : Nat]
      BY DEF TypeOK, Table
    <3>3. CASE q = t /\ s = r
      <4>1. up'[q][s] = [updated |-> time.updated, sub |-> time.sub, live |-> live]
        BY <1>1, <3>3 DEF Change, TypeOK, Table
      <4>2. now' = time /\ After(time, now)
        BY <1>1 DEF Change
      <4>3. \A v \in Version : Past(v, up[q][s]) => Past(v, up'[q][s])
        <5>1. ~After(up[q][s], now)
          BY PastFacts
        <5>2. After(up'[q][s], up[q][s])
          BY <2>1, <3>2, <4>1, <4>2, <5>1 DEF After, Version
        <5>3. up'[q][s] \in Version
          BY <2>1, <4>1
        <5>4. QED
          BY <3>2, <5>2, <5>3 DEF Past, After, Version
      <4>4. QED
        BY <2>1, <3>2, <4>1, <4>2, <4>3, PastFacts, Bounded DEF After, Stored, Table
    <3>4. CASE ~(q = t /\ s = r)
      <4>1. up'[q][s] = up[q][s]
        BY <1>1, <3>4 DEF Change, TypeOK, Table
      <4>2. now' = time /\ After(time, now)
        BY <1>1 DEF Change
      <4>3. ~After(up[q][s], time)
        BY <2>1, <3>2, <4>2, PastFacts DEF After, Version
      <4>4. QED
        BY <4>1, <4>2, <4>3, PastFacts DEF Stored
    <3>5. QED
      BY <3>3, <3>4
  <2>4. QED
    BY <2>2, <2>3
<1>2. ASSUME NEW t \in Types, RebuildCache(t)
      PROVE  Basic'
  <2>1. LiveRows(up[t]) \in Table
    BY NoneIsVersion DEF LiveRows, TypeOK, Table
  <2>2. TypeOK'
    BY <1>2, <2>1 DEF RebuildCache, cycle, TypeOK
  <2>3. HistoryOK'
    BY <1>2, HistoryKept DEF RebuildCache, cycle, TypeOK
  <2>4. QED
    BY <2>2, <2>3
<1>3. ASSUME NEW m \in {"incremental", "full"}, StartCycle(m)
      PROVE  Basic'
  <2>1. TypeOK'
    BY <1>3 DEF StartCycle, TypeOK
  <2>2. HistoryOK'
    BY <1>3, HistoryKept DEF StartCycle
  <2>3. QED
    BY <2>1, <2>2
<1>4. ASSUME NEW t \in Types, FetchSince(t)
      PROVE  Basic'
  <2>1. TypeOK'
    BY <1>4, NoneIsVersion DEF FetchSince, TypeOK, Table
  <2>2. HistoryOK'
    BY <1>4, HistoryKept DEF FetchSince, TypeOK
  <2>3. QED
    BY <2>1, <2>2
<1>5. ASSUME NEW t \in Types, FetchSinceFails(t)
      PROVE  Basic'
  <2>1. TypeOK'
    BY <1>5 DEF FetchSinceFails, TypeOK
  <2>2. HistoryOK'
    BY <1>5, HistoryKept DEF FetchSinceFails
  <2>3. QED
    BY <2>1, <2>2
<1>6. ASSUME NEW t \in Types, FetchBare(t)
      PROVE  Basic'
  <2>1. Newest(apiCache[t], {}) \in Nat
    BY Bounded, NewestIs
  <2>2. TypeOK'
    BY <1>6, <2>1 DEF FetchBare, TypeOK
  <2>3. HistoryOK'
    BY <1>6, HistoryKept DEF FetchBare, TypeOK
  <2>4. QED
    BY <2>2, <2>3
<1>7. ASSUME NEW t \in Types, FetchWindow(t)
      PROVE  Basic'
  <2>1. TypeOK'
    BY <1>7 DEF FetchWindow, Replaced, TypeOK, Table
  <2>2. HistoryOK'
    BY <1>7, HistoryKept DEF FetchWindow, Replaced, TypeOK
  <2>3. QED
    BY <2>1, <2>2
<1>8. ASSUME NEW t \in Types, NEW kept \in SUBSET Rows, WindowFails(t, kept)
      PROVE  Basic'
  <2>1. TypeOK'
    BY <1>8 DEF WindowFails, Window, Replaced, TypeOK, Table
  <2>2. HistoryOK'
    BY <1>8, HistoryKept DEF WindowFails, Replaced, TypeOK
  <2>3. QED
    BY <2>1, <2>2
<1>9. ASSUME NEW orphans \in [Types -> SUBSET Rows], Upsert(orphans)
      PROVE  Basic'
  <2>1. \A t \in Types, r \in Rows : Upserted(t, r, orphans[t]) \in {scratch[t][r], mirror[t][r]}
    BY DEF Upserted
  <2>2. TypeOK'
    <3>1. \A t \in Types, r \in Rows : Upserted(t, r, orphans[t]) \in Version
      <4>1. SUFFICES ASSUME NEW t \in Types, NEW r \in Rows
                     PROVE  Upserted(t, r, orphans[t]) \in Version
        OBVIOUS
      <4>2. scratch[t][r] \in Version /\ mirror[t][r] \in Version
        BY DEF TypeOK, Table
      <4>3. QED
        BY <2>1, <4>2
    <3>2. tx' \in [Types -> Table]
      BY <1>9, <3>1 DEF Upsert, Table
    <3>3. missed' \in [Types -> SUBSET Rows]
      BY <1>9 DEF Upsert, LeftOut, TypeOK
    <3>4. QED
      BY <1>9, <1>0, <3>2, <3>3 DEF Upsert, TypeOK
  <2>3. HistoryOK'
    BY <1>9, <2>1, HistoryKept DEF Upsert
  <2>4. QED
    BY <2>2, <2>3
<1>10. ASSUME NEW t \in Types, NEW ids \in SUBSET Rows, Backfill(t, ids)
       PROVE  Basic'
  <2>1. TypeOK'
    BY <1>10 DEF Backfill, TypeOK, Table
  <2>2. HistoryOK'
    BY <1>10, HistoryKept DEF Backfill, TypeOK
  <2>3. QED
    BY <2>1, <2>2
<1>11. CASE Commit
  <2>1. \A t \in Types : Committed(t) \in Table /\ NextMark(t, Committed(t)) \in Nat
    BY CommittedTable
  <2>2. mirror' \in [Types -> Table] /\ mark' \in [Types -> Nat] /\ waived' \in [Types -> SUBSET Rows]
    BY <1>11, <2>1 DEF Commit, TypeOK, BootstrapGap
  <2>3. TypeOK'
    BY <1>11, <1>0, <2>2 DEF Commit, ResetCycle, TypeOK
  <2>4. \A t \in Types, r \in Rows : mirror'[t][r] \in {None, tx[t][r]}
    BY <1>11, CommittedTable DEF Commit
  <2>5. HistoryOK'
    BY <1>11, <2>4, HistoryKept DEF Commit, ResetCycle
  <2>6. QED
    BY <2>3, <2>5
<1>12. CASE FailCycle
  <2>1. TypeOK'
    BY <1>12, <1>0 DEF FailCycle, ResetCycle, TypeOK
  <2>2. HistoryOK'
    BY <1>12, HistoryKept DEF FailCycle, ResetCycle
  <2>3. QED
    BY <2>1, <2>2
<1>13. CASE UNCHANGED vars
  <2>1. TypeOK'
    BY <1>13 DEF vars, cycle, TypeOK
  <2>2. HistoryOK'
    BY <1>13, HistoryKept DEF vars, cycle
  <2>3. QED
    BY <2>1, <2>2
<1>14. QED
  BY <1>1, <1>2, <1>3, <1>4, <1>5, <1>6, <1>7, <1>8, <1>9, <1>10, <1>11, <1>12, <1>13
     DEF Next, Upstream, Fault, Progress

-----------------------------------------------------------------------------
(* Cursors change with the mirror and the watermarks only.                   *)
LEMMA CursorKept ==
  ASSUME mirror' = mirror, mark' = mark
  PROVE  \A t \in Types : Cursor(t)' = Cursor(t) /\ Held(t)' = Held(t)
BY DEF Cursor, Held

(* An upstream change is newer than every row that any table holds.          *)
LEMMA ChangeFacts ==
  ASSUME Basic, NEW t \in Types, NEW r \in Rows, NEW time \in Instants, NEW live \in BOOLEAN,
         Change(t, r, time, live)
  PROVE  /\ up'[t][r] = [updated |-> time.updated, sub |-> time.sub, live |-> live]
         /\ up'[t][r] \in Version
         /\ up'[t][r].updated # 0
         /\ \A s \in Rows : After(up'[t][r], up[t][s])
         /\ \A v \in Version, s \in Rows :
              Past(v, up[t][s]) => SentSince(up'[t][r], v.updated)
         /\ SentSince(up'[t][r], Cursor(t))
<1>1. /\ time \in [updated : Nat, sub : Nat] /\ time.updated # 0
      /\ [updated |-> time.updated, sub |-> time.sub, live |-> live] \in Version
  BY ParamsAssumption DEF Version
<1>2. up'[t][r] = [updated |-> time.updated, sub |-> time.sub, live |-> live]
  BY DEF Change, Basic, TypeOK, Table
<1>4. now \in [updated : Nat, sub : Nat] /\ After(time, now)
  BY DEF Change, Basic, TypeOK
<1>5. \A s \in Rows : up[t][s] \in Version
  BY Bounded DEF Table
<1>6. \A s \in Rows : After(up'[t][r], up[t][s])
  BY <1>1, <1>2, <1>4, <1>5, PastFacts DEF After, Version
<1>7. \A v \in Version, s \in Rows : Past(v, up[t][s]) => SentSince(up'[t][r], v.updated)
  <2>1. SUFFICES ASSUME NEW v \in Version, NEW s \in Rows, Past(v, up[t][s])
                 PROVE  SentSince(up'[t][r], v.updated)
    OBVIOUS
  <2>2. up[t][s] \in Version /\ up'[t][r] \in Version
    BY <1>1, <1>2, <1>5
  <2>3. After(up'[t][r], up[t][s])
    BY <1>6
  <2>4. After(up'[t][r], v)
    BY <2>1, <2>2, <2>3 DEF Past, After, Version
  <2>5. QED
    BY <1>1, <1>2, <2>2, <2>4, LaterIsSent
<1>8. SentSince(up'[t][r], Cursor(t))
  <2>1. CASE Newest(mirror[t], {}) = 0
    BY <1>1, <1>2, <2>1, CursorFacts DEF SentSince
  <2>2. CASE Newest(mirror[t], {}) # 0
    <3>1. PICK s \in Rows : mirror[t][s].updated = Newest(mirror[t], {})
      BY <2>2, Bounded, NewestIs
    <3>2. SentSince(up'[t][r], Newest(mirror[t], {}))
      BY <1>7, <3>1, PastFacts, Bounded DEF Table
    <3>3. QED
      BY <1>1, <1>2, <3>2, CursorFacts, SentEarlier
  <2>3. QED
    BY <2>1, <2>2
<1>9. QED
  BY <1>1, <1>2, <1>6, <1>7, <1>8

(* An upstream change touches one row.                                       *)
LEMMA ChangeElsewhere ==
  ASSUME Basic, NEW t \in Types, NEW r \in Rows, NEW time \in Instants, NEW live \in BOOLEAN,
         Change(t, r, time, live), NEW q \in Types, NEW s \in Rows, ~(q = t /\ s = r)
  PROVE  up'[q][s] = up[q][s]
BY DEF Change, Basic, TypeOK, Table

-----------------------------------------------------------------------------
(* Every step keeps the order of the upstream changes of a type strict.      *)
LEMMA InstantsStep == IInv /\ [Next]_vars => InstantsOK'
<1> SUFFICES ASSUME IInv, [Next]_vars PROVE InstantsOK'
  OBVIOUS
<1>0. Basic /\ InstantsOK
  BY DEF IInv, Basic
<1>1. ASSUME NEW t \in Types, NEW r \in Rows, NEW time \in Instants, NEW live \in BOOLEAN,
             Change(t, r, time, live)
      PROVE  InstantsOK'
  <2>1. \A s \in Rows : After(up'[t][r], up[t][s])
    BY <1>0, <1>1, ChangeFacts
  <2>2. \A q \in Types, s \in Rows : ~(q = t /\ s = r) => up'[q][s] = up[q][s]
    BY <1>0, <1>1, ChangeElsewhere
  <2>3. SUFFICES ASSUME NEW q \in Types, NEW x \in Rows, NEW y \in Rows, x # y
                 PROVE  \/ After(up'[q][x], up'[q][y])
                        \/ After(up'[q][y], up'[q][x])
                        \/ up'[q][x].updated <= 1 /\ up'[q][x].sub = 0
    BY DEF InstantsOK
  <2>4. CASE q = t /\ x = r
    BY <2>1, <2>2, <2>3, <2>4
  <2>5. CASE q = t /\ y = r
    BY <2>1, <2>2, <2>3, <2>5
  <2>6. CASE ~(q = t /\ x = r) /\ ~(q = t /\ y = r)
    <3>1. up'[q][x] = up[q][x] /\ up'[q][y] = up[q][y]
      BY <2>2, <2>6
    <3>2. QED
      BY <1>0, <2>3, <3>1 DEF InstantsOK
  <2>7. QED
    BY <2>4, <2>5, <2>6
<1>2. CASE up' = up
  BY <1>0, <1>2 DEF InstantsOK
<1>3. QED
  BY <1>1, <1>2 DEF Next, Upstream, Fault, Progress, RebuildCache, StartCycle, FetchSince,
     FetchSinceFails, FetchBare, FetchWindow, WindowFails, Upsert, Backfill, Commit, FailCycle, vars

(* Every step keeps the API cache older than what it does not hold.          *)
LEMMA CacheStep == IInv /\ [Next]_vars => CacheOK'
<1> SUFFICES ASSUME IInv, [Next]_vars PROVE CacheOK'
  OBVIOUS
<1>0. Basic /\ CacheOK
  BY DEF IInv, Basic
<1>1. ASSUME NEW t \in Types, NEW r \in Rows, NEW time \in Instants, NEW live \in BOOLEAN,
             Change(t, r, time, live)
      PROVE  CacheOK'
  <2>1. SUFFICES ASSUME NEW q \in Types, NEW s \in Rows
                 PROVE  \/ apiCache[q][s] = LiveRows(up'[q])[s]
                        \/ \A x \in Rows : SentSince(up'[q][s], apiCache[q][x].updated)
    <3>1. apiCache' = apiCache
      BY <1>1 DEF Change
    <3>2. QED
      BY <3>1 DEF CacheOK
  <2>2. CASE q = t /\ s = r
    <3>1. \A v \in Version, x \in Rows : Past(v, up[t][x]) => SentSince(up'[t][r], v.updated)
      BY <1>0, <1>1, ChangeFacts
    <3>2. \A x \in Rows : apiCache[t][x] \in Version /\ Past(apiCache[t][x], up[t][x])
      BY <1>0, PastFacts, Bounded DEF Table
    <3>3. QED
      BY <2>2, <3>1, <3>2
  <2>3. CASE ~(q = t /\ s = r)
    <3>1. up'[q][s] = up[q][s]
      BY <1>0, <1>1, <2>3, ChangeElsewhere
    <3>2. QED
      BY <1>0, <3>1 DEF CacheOK, LiveRows
  <2>4. QED
    BY <2>2, <2>3
<1>2. ASSUME NEW t \in Types, RebuildCache(t)
      PROVE  CacheOK'
  BY <1>0, <1>2 DEF RebuildCache, CacheOK, Basic, TypeOK
<1>3. CASE up' = up /\ apiCache' = apiCache
  BY <1>0, <1>3 DEF CacheOK
<1>4. QED
  BY <1>1, <1>2, <1>3 DEF Next, Upstream, Fault, Progress, StartCycle, FetchSince,
     FetchSinceFails, FetchBare, FetchWindow, WindowFails, Upsert, Backfill, Commit, FailCycle, vars

(* Every step keeps unfetched types, and an idle worker, empty-handed.       *)
LEMMA IdleStep == IInv /\ [Next]_vars => IdleOK'
<1> SUFFICES ASSUME IInv, [Next]_vars PROVE IdleOK'
  OBVIOUS
<1>0. TypeOK /\ IdleOK
  BY DEF IInv
<1> USE DEF IdleOK, Idle
<1>1. ASSUME NEW t \in Types, NEW r \in Rows, NEW time \in Instants, NEW live \in BOOLEAN,
             Change(t, r, time, live)
      PROVE  IdleOK'
  <2>1. phase = "idle" => missed' = missed
    BY <1>0, <1>1 DEF Change, TypeOK
  <2>2. phase = "fetch" => \A q \in Types : missed[q] = {} => missed'[q] = {}
    BY <1>0, <1>1 DEF Change, TypeOK
  <2>3. QED
    BY <1>0, <1>1, <2>1, <2>2 DEF Change
<1>2. ASSUME NEW t \in Types, RebuildCache(t)
      PROVE  IdleOK'
  BY <1>0, <1>2 DEF RebuildCache, cycle
<1>3. ASSUME NEW m \in {"incremental", "full"}, StartCycle(m)
      PROVE  IdleOK'
  BY <1>0, <1>3 DEF StartCycle
<1>4. ASSUME NEW t \in Types, FetchSince(t)
      PROVE  IdleOK'
  BY <1>0, <1>4 DEF FetchSince, AtStep, TypeOK
<1>5. ASSUME NEW t \in Types, FetchSinceFails(t)
      PROVE  IdleOK'
  BY <1>0, <1>5 DEF FetchSinceFails, AtStep, TypeOK
<1>6. ASSUME NEW t \in Types, FetchBare(t)
      PROVE  IdleOK'
  BY <1>0, <1>6 DEF FetchBare, AtStep, TypeOK
<1>7. ASSUME NEW t \in Types, FetchWindow(t)
      PROVE  IdleOK'
  BY <1>0, <1>7 DEF FetchWindow, AtStep, TypeOK
<1>8. ASSUME NEW t \in Types, NEW kept \in SUBSET Rows, WindowFails(t, kept)
      PROVE  IdleOK'
  BY <1>0, <1>8 DEF WindowFails, AtStep, TypeOK
<1>9. ASSUME NEW orphans \in [Types -> SUBSET Rows], Upsert(orphans)
      PROVE  IdleOK'
  BY <1>9 DEF Upsert
<1>10. ASSUME NEW t \in Types, NEW ids \in SUBSET Rows, Backfill(t, ids)
       PROVE  IdleOK'
  BY <1>10 DEF Backfill
<1>11. CASE Commit
  BY <1>11 DEF Commit, ResetCycle
<1>12. CASE FailCycle
  BY <1>12 DEF FailCycle, ResetCycle
<1>13. CASE UNCHANGED vars
  BY <1>0, <1>13 DEF vars, cycle
<1>14. QED
  BY <1>1, <1>2, <1>3, <1>4, <1>5, <1>6, <1>7, <1>8, <1>9, <1>10, <1>11, <1>12, <1>13
     DEF Next, Upstream, Fault, Progress

(* The watermark that a commit writes is not behind the rows that the type   *)
(* fetched, and the cursor that it makes is not past it.                     *)
LEMMA CommitFacts ==
  ASSUME Basic, Commit, NEW t \in Types
  PROVE  /\ mirror'[t] = Committed(t)
         /\ mark'[t] = IF NextMark(t, Committed(t)) = 0 THEN mark[t]
                       ELSE NextMark(t, Committed(t))
         /\ Cursor(t)' \in Nat
         /\ NextMark(t, Committed(t)) # 0 => Cursor(t)' <= NextMark(t, Committed(t))
         /\ Newest(Committed(t), {}) = 0 => Cursor(t)' = 0
         /\ Held(t)' <=> Newest(Committed(t), {}) # 0 /\ mark'[t] # 0
                         /\ mark'[t] < Newest(Committed(t), {})
<1>1. /\ mirror'[t] = Committed(t)
      /\ mark'[t] = IF NextMark(t, Committed(t)) = 0 THEN mark[t]
                    ELSE NextMark(t, Committed(t))
  BY DEF Commit
<1>2. NextMark(t, Committed(t)) \in Nat /\ mark[t] \in Nat /\ now.updated \in Nat
      /\ Committed(t) \in Table /\ \A r \in Rows : Committed(t)[r].updated <= now.updated
  BY CommittedTable, CursorFacts, Bounded
<1>3. mark'[t] \in Nat
  BY <1>1, <1>2
<1>4. /\ Cursor(t)' = EffectiveCursor(Newest(Committed(t), {}), mark'[t])
      /\ Held(t)' = CursorHeld(Newest(Committed(t), {}), mark'[t])
  BY <1>1 DEF Cursor, Held
<1>5. QED
  BY <1>1, <1>2, <1>3, <1>4, CursorOfTable

(* What NextMark is made of.                                                 *)
LEMMA NextMarkFacts ==
  ASSUME Basic, NEW t \in Types
  PROVE  LET fetched == Newest(Committed(t), backfilled[t])
             next == IF Held(t) /\ discarded[t] THEN Cursor(t)
                     ELSE IF Cursor(t) <= fetched THEN fetched ELSE Cursor(t)
         IN  /\ fetched \in Nat
             /\ NextMark(t, Committed(t)) =
                  IF next = 0 THEN Oldest(Committed(t), backfilled[t]) ELSE next
             /\ fetched = 0 \/ \E r \in Rows \ backfilled[t] :
                                 fetched = tx[t][r].updated
<1>1. /\ Committed(t) \in Table /\ now.updated \in Nat
      /\ \A r \in Rows : Committed(t)[r].updated <= now.updated
      /\ \A r \in Rows : Committed(t)[r] = tx[t][r] \/ Committed(t)[r] = None
  BY CommittedTable, Bounded
<1>2. /\ Newest(Committed(t), backfilled[t]) \in Nat
      /\ \/ Newest(Committed(t), backfilled[t]) = 0
         \/ \E r \in Rows \ backfilled[t] :
               Committed(t)[r].updated = Newest(Committed(t), backfilled[t])
  BY <1>1, NewestIs
<1>3. Max({Cursor(t), Newest(Committed(t), backfilled[t])})
        = IF Cursor(t) <= Newest(Committed(t), backfilled[t])
          THEN Newest(Committed(t), backfilled[t]) ELSE Cursor(t)
  BY <1>2, CursorFacts, PairBounds
<1>4. None.updated = 0
  BY DEF None
<1>5. Newest(Committed(t), backfilled[t]) = 0 \/ \E r \in Rows \ backfilled[t] :
                        Newest(Committed(t), backfilled[t]) = tx[t][r].updated
  BY <1>1, <1>2, <1>4
<1>6. QED
  BY <1>2, <1>3, <1>5 DEF NextMark, NextWatermark

(* Every step keeps the cursor of a purged type free.                        *)
LEMMA PurgedStep == IInv /\ [Next]_vars => PurgedOK'
<1> SUFFICES ASSUME IInv, [Next]_vars, NEW t \in Purged
             PROVE  ~Held(t)' /\ backfilled'[t] = {}
  BY DEF PurgedOK
<1>0. Basic /\ t \in Types /\ ~Held(t) /\ backfilled[t] = {} /\ t \notin Parents
  BY ParamsAssumption DEF IInv, Basic, PurgedOK
<1>1. CASE Commit
  <2>1. backfilled'[t] = {}
    BY <1>0, <1>1 DEF Commit, ResetCycle
  <2>2. Newest(Committed(t), {}) \in Nat
        /\ NextMark(t, Committed(t)) \in Nat
        /\ NextMark(t, Committed(t)) >= Newest(Committed(t), {})
    <3>1. Oldest(Committed(t), {}) \in Nat
      BY <1>0, CommittedTable, OldestIs
    <3>2. /\ Newest(Committed(t), {}) \in Nat
          /\ NextMark(t, Committed(t)) =
               LET next == IF Cursor(t) <= Newest(Committed(t), {})
                           THEN Newest(Committed(t), {}) ELSE Cursor(t)
               IN  IF next = 0 THEN Oldest(Committed(t), {}) ELSE next
      BY <1>0, NextMarkFacts
    <3>3. Cursor(t) \in Nat
      BY <1>0, CursorFacts
    <3>4. QED
      BY <3>1, <3>2, <3>3
  <2>3. QED
    BY <1>0, <1>1, <2>1, <2>2, CommitFacts, CursorFacts
<1>2. ASSUME NEW q \in Types, NEW ids \in SUBSET Rows, Backfill(q, ids)
      PROVE  ~Held(t)' /\ backfilled'[t] = {}
  BY <1>0, <1>2, CursorKept DEF Backfill, IInv, TypeOK
<1>3. CASE mirror' = mirror /\ mark' = mark /\ backfilled' = backfilled
  BY <1>0, <1>3, CursorKept
<1>4. CASE FailCycle
  BY <1>0, <1>4, CursorKept DEF FailCycle, ResetCycle
<1>5. QED
  BY <1>1, <1>2, <1>3, <1>4 DEF Next, Upstream, Fault, Progress, StartCycle, FetchSince, Change,
     RebuildCache, FetchSinceFails, FetchBare, FetchWindow, WindowFails, Upsert, vars, cycle

(* The step of the proof that the watermark rule is for: a row which no      *)
(* table of the cycle holds is not passed by the next cursor.                *)
LEMMA BeyondIsKept ==
  ASSUME IInv, Commit, NEW t \in Types, NEW r \in Rows,
         Beyond(t, r, {tx[t]}, backfilled[t])
  PROVE  SentSince(up[t][r], Cursor(t)') \/ r \in BootstrapGap(t)
<1>0. Basic /\ up[t][r] \in Version
  BY Bounded DEF IInv, Basic, Table
<1> DEFINE fetched == Newest(Committed(t), backfilled[t])
           M == NextMark(t, Committed(t))
<1>1. /\ SentSince(up[t][r], Cursor(t))
      /\ \/ Held(t) /\ discarded[t]
         \/ \A s \in Rows \ backfilled[t] : SentSince(up[t][r], tx[t][s].updated)
  BY DEF Beyond
<1>2. /\ Cursor(t) \in Nat /\ fetched \in Nat /\ M \in Nat /\ Cursor(t)' \in Nat
      /\ M # 0 => Cursor(t)' <= M
      /\ Newest(Committed(t), {}) = 0 => Cursor(t)' = 0
  BY <1>0, CursorFacts, NextMarkFacts, CommittedTable, CommitFacts
<1>3. SUFFICES ASSUME r \notin BootstrapGap(t)
               PROVE  SentSince(up[t][r], Cursor(t)')
  OBVIOUS
<1>4. CASE Held(t) /\ discarded[t]
  <2>1. Cursor(t) # 0
    BY <1>0, <1>4, CursorFacts
  <2>2. M = Cursor(t)
    BY <1>0, <1>4, <2>1, NextMarkFacts
  <2>3. QED
    BY <1>0, <1>1, <1>2, <2>1, <2>2, SentEarlier
<1>5. CASE ~(Held(t) /\ discarded[t])
  <2>1. fetched = 0 \/ SentSince(up[t][r], fetched)
    BY <1>0, <1>1, <1>5, NextMarkFacts
  <2>2. M = LET next == IF Cursor(t) <= fetched THEN fetched ELSE Cursor(t)
            IN  IF next = 0 THEN Oldest(Committed(t), backfilled[t]) ELSE next
    BY <1>0, <1>5, NextMarkFacts
  <2>3. CASE Cursor(t) # 0 \/ fetched # 0
    <3>1. M \in {fetched, Cursor(t)} /\ M # 0 /\ (M = fetched => fetched # 0)
      BY <1>2, <2>2, <2>3
    <3>2. SentSince(up[t][r], M)
      BY <1>1, <2>1, <3>1
    <3>3. QED
      BY <1>0, <1>2, <3>1, <3>2, SentEarlier
  <2>4. CASE Cursor(t) = 0 /\ fetched = 0
    <3>1. M = Oldest(Committed(t), backfilled[t])
      BY <1>2, <2>2, <2>4
    <3>2. Stored(up[t][r])
      BY <1>0, <1>1, <2>4 DEF SentSince, Stored, Version
    <3>3. SentSince(up[t][r], M)
      BY <1>3, <2>4, <3>2 DEF BootstrapGap
    <3>4. CASE M # 0
      BY <1>0, <1>2, <3>3, <3>4, SentEarlier
    <3>5. CASE M = 0
      <4>1. Committed(t) \in Table /\ backfilled[t] \in SUBSET Rows /\ now.updated \in Nat
            /\ \A s \in Rows : Committed(t)[s].updated <= now.updated
        BY <1>0, CommittedTable, Bounded DEF Basic, TypeOK
      <4>2. \A s \in backfilled[t] : Committed(t)[s].updated = 0
        BY <3>1, <3>5, <4>1, OldestIs
      <4>3. \A s \in Rows \ backfilled[t] : Committed(t)[s].updated <= 0
        BY <2>4, <4>1, NewestIs
      <4>4. Newest(Committed(t), {}) = 0
        <5>1. \A s \in Rows : Committed(t)[s].updated <= 0
          BY <4>2, <4>3
        <5>2. Newest(Committed(t), {}) \in Nat /\ Newest(Committed(t), {}) <= 0
          BY <4>1, <5>1, NewestIs
        <5>3. QED
          BY <5>2
      <4>5. QED
        BY <1>2, <3>3, <3>5, <4>4
    <3>6. QED
      BY <3>4, <3>5
  <2>5. QED
    BY <2>3, <2>4
<1>6. QED
  BY <1>4, <1>5

(* Every step keeps the next cursor before what the mirror misses: the       *)
(* commit by BeyondIsKept, an upstream change because it is newer.           *)
LEMMA CommittedStep == IInv /\ [Next]_vars => CommittedOK'
<1> SUFFICES ASSUME IInv, [Next]_vars, NEW t \in Types, NEW r \in Rows
             PROVE  \/ mirror'[t][r] = up'[t][r]
                    \/ r \in waived'[t]
                    \/ NeverHeld(t, r, mirror[t][r])'
                    \/ SentSince(up'[t][r], Cursor(t)')
  BY DEF CommittedOK
<1> DEFINE P == \/ mirror'[t][r] = up'[t][r]
                \/ r \in waived'[t]
                \/ NeverHeld(t, r, mirror[t][r])'
                \/ SentSince(up'[t][r], Cursor(t)')
<1>0. /\ Basic
      /\ \/ mirror[t][r] = up[t][r]
         \/ r \in waived[t]
         \/ NeverHeld(t, r, mirror[t][r])
         \/ SentSince(up[t][r], Cursor(t))
  BY DEF IInv, Basic, CommittedOK
<1>1. ASSUME NEW q \in Types, NEW s \in Rows, NEW time \in Instants, NEW live \in BOOLEAN,
             Change(q, s, time, live)
      PROVE  P
  <2>1. Cursor(t)' = Cursor(t) /\ mirror' = mirror /\ apiCache' = apiCache
    BY <1>1, CursorKept DEF Change
  <2>2. CASE q = t /\ s = r
    BY <1>0, <1>1, <2>1, <2>2, ChangeFacts
  <2>3. CASE ~(q = t /\ s = r)
    <3>1. up'[t][r] = up[t][r]
      BY <1>0, <1>1, <2>3, ChangeElsewhere
    <3>2. r \in waived[t] => r \in waived'[t]
      BY <1>0, <1>1, <2>3 DEF Change, Basic, TypeOK
    <3>3. QED
      BY <1>0, <2>1, <3>1, <3>2 DEF NeverHeld
  <2>4. QED
    BY <2>2, <2>3
<1>2. ASSUME NEW q \in Types, RebuildCache(q)
      PROVE  P
  <2>1. Cursor(t)' = Cursor(t) /\ mirror' = mirror /\ up' = up /\ waived' = waived
    BY <1>2, CursorKept DEF RebuildCache
  <2>2. apiCache'[t][r] = apiCache[t][r] \/ apiCache'[t][r] = LiveRows(up[t])[r]
    BY <1>0, <1>2 DEF RebuildCache, Basic, TypeOK
  <2>3. QED
    BY <1>0, <2>1, <2>2 DEF NeverHeld, LiveRows
<1>3. CASE Commit
  <2>1. /\ up' = up /\ apiCache' = apiCache /\ mirror'[t] = Committed(t)
        /\ waived'[t] = {s \in waived[t] \cup missed[t] \cup BootstrapGap(t) :
                           Committed(t)[s] # up[t][s]}
    BY <1>3 DEF Commit
  <2>2. Committed(t)[r] = IF t \in Purged /\ ~tx[t][r].live
                              /\ tx[t][r].updated + Horizon <= now.updated
                          THEN None ELSE tx[t][r]
    BY DEF Committed, Purge
  <2>3. \/ tx[t][r] = up[t][r]
        \/ NeverHeld(t, r, tx[t][r])
        \/ r \in missed[t] \cup waived[t]
        \/ Beyond(t, r, {tx[t]}, backfilled[t])
    BY <1>3 DEF IInv, TxOK, Commit
  <2>4. CASE tx[t][r] = up[t][r]
    BY <2>1, <2>2, <2>4 DEF NeverHeld
  <2>5. CASE NeverHeld(t, r, tx[t][r])
    BY <2>1, <2>2, <2>5 DEF NeverHeld
  <2>6. CASE r \in missed[t] \cup waived[t]
    BY <2>1, <2>6
  <2>7. CASE Beyond(t, r, {tx[t]}, backfilled[t])
    <3>1. SentSince(up[t][r], Cursor(t)') \/ r \in BootstrapGap(t)
      BY <1>3, <2>7, BeyondIsKept
    <3>2. QED
      BY <2>1, <3>1
  <2>8. QED
    BY <2>3, <2>4, <2>5, <2>6, <2>7
<1>4. CASE UNCHANGED <<mirror, mark, up, apiCache, waived>>
  <2>1. Cursor(t)' = Cursor(t)
    BY <1>4, CursorKept
  <2>2. QED
    BY <1>0, <1>4, <2>1 DEF NeverHeld
<1>5. QED
  BY <1>1, <1>2, <1>3, <1>4 DEF Next, Upstream, Fault, Progress, StartCycle, FetchSince,
     FetchSinceFails, FetchBare, FetchWindow, WindowFails, Upsert, Backfill, FailCycle, vars

-----------------------------------------------------------------------------
(* One row between the bare list and its window.                             *)
SnapshotRow(t, r) ==
    /\ \/ scratch[t][r] = LiveRows(up[t])[r] /\ apiCache[t][r] = LiveRows(up[t])[r]
       \/ \A s \in Rows : SentSince(up[t][r], scratch[t][s].updated)
    /\ \/ mirror[t][r] = up[t][r]
       \/ r \in waived[t]
       \/ NeverHeld(t, r, mirror[t][r]) /\ (t \in Purged \/ scratch[t][r] = None)
       \/ SentSince(up[t][r], Cursor(t))

(* Every step keeps what is known of a bare list that waits for its window.  *)
LEMMA SnapshotStep == IInv /\ [Next]_vars => SnapshotOK'
<1> SUFFICES ASSUME IInv, [Next]_vars, NEW t \in Types, stage'[t] = "snapshot"
             PROVE  /\ phase' = "fetch"
                    /\ ~discarded'[t]
                    /\ cutoff'[t] = Newest(scratch'[t], {})
                    /\ SnapshotWindowStart(Cursor(t)', cutoff'[t]) # 0
                    /\ \A r \in Rows : SnapshotRow(t, r)'
  BY DEF SnapshotOK, SnapshotRow
<1> DEFINE P == /\ phase' = "fetch"
                /\ ~discarded'[t]
                /\ cutoff'[t] = Newest(scratch'[t], {})
                /\ SnapshotWindowStart(Cursor(t)', cutoff'[t]) # 0
                /\ \A r \in Rows : SnapshotRow(t, r)'
<1>0. /\ Basic
      /\ stage[t] = "snapshot" =>
           /\ phase = "fetch"
           /\ ~discarded[t]
           /\ cutoff[t] = Newest(scratch[t], {})
           /\ SnapshotWindowStart(Cursor(t), cutoff[t]) # 0
           /\ \A r \in Rows : SnapshotRow(t, r)
  BY DEF IInv, Basic, SnapshotOK, SnapshotRow
<1>1. ASSUME NEW q \in Types, NEW x \in Rows, NEW time \in Instants, NEW live \in BOOLEAN,
             Change(q, x, time, live)
      PROVE  P
  <2>1. /\ Cursor(t)' = Cursor(t) /\ mirror' = mirror /\ apiCache' = apiCache
        /\ UNCHANGED <<phase, stage, discarded, cutoff, scratch>>
    BY <1>1, CursorKept DEF Change
  <2>2. SUFFICES ASSUME NEW r \in Rows PROVE SnapshotRow(t, r)'
    BY <1>0, <2>1
  <2>3. SnapshotRow(t, r)
    BY <1>0, <2>1
  <2>4. CASE q = t /\ x = r
    <3>1. \A v \in Version, s \in Rows : Past(v, up[t][s]) => SentSince(up'[t][r], v.updated)
      BY <1>0, <1>1, <2>4, ChangeFacts
    <3>2. \A s \in Rows : scratch[t][s] \in Version /\ Past(scratch[t][s], up[t][s])
      BY <1>0, PastFacts, Bounded DEF Table
    <3>3. SentSince(up'[t][r], Cursor(t))
      BY <1>0, <1>1, <2>4, ChangeFacts
    <3>4. QED
      BY <2>1, <3>1, <3>2, <3>3 DEF SnapshotRow
  <2>5. CASE ~(q = t /\ x = r)
    <3>1. up'[t][r] = up[t][r] /\ LiveRows(up'[t])[r] = LiveRows(up[t])[r]
      BY <1>0, <1>1, <2>5, ChangeElsewhere DEF LiveRows
    <3>2. r \in waived[t] => r \in waived'[t]
      BY <1>0, <1>1, <2>5 DEF Change, Basic, TypeOK
    <3>3. QED
      BY <2>1, <2>3, <3>1, <3>2 DEF SnapshotRow, NeverHeld
  <2>6. QED
    BY <2>4, <2>5
<1>2. ASSUME NEW q \in Types, RebuildCache(q)
      PROVE  P
  <2>1. /\ Cursor(t)' = Cursor(t) /\ mirror' = mirror /\ up' = up /\ waived' = waived
        /\ UNCHANGED <<phase, stage, discarded, cutoff, scratch>>
    BY <1>2, CursorKept DEF RebuildCache, cycle
  <2>2. SUFFICES ASSUME NEW r \in Rows PROVE SnapshotRow(t, r)'
    BY <1>0, <2>1
  <2>3. SnapshotRow(t, r)
    BY <1>0, <2>1
  <2>4. apiCache'[t][r] = apiCache[t][r] \/ apiCache'[t][r] = LiveRows(up[t])[r]
    BY <1>0, <1>2 DEF RebuildCache, Basic, TypeOK
  <2>5. NeverHeld(t, r, mirror[t][r]) => NeverHeld(t, r, mirror[t][r])'
    BY <2>1, <2>4 DEF NeverHeld, LiveRows
  <2>6. QED
    BY <2>1, <2>3, <2>4, <2>5 DEF SnapshotRow
<1>3. CASE \E m \in {"incremental", "full"} : StartCycle(m)
  <2>1. stage[t] = "todo" /\ stage' = stage
    BY <1>3 DEF StartCycle, IInv, IdleOK, Idle
  <2>2. QED
    BY <2>1
<1>4. ASSUME NEW q \in Types, FetchBare(q), q = t
      PROVE  P
  <2>1. /\ Cursor(t)' = Cursor(t) /\ mirror' = mirror /\ apiCache' = apiCache /\ up' = up
        /\ waived' = waived /\ phase' = phase /\ discarded' = discarded
        /\ scratch'[t] = apiCache[t] /\ cutoff'[t] = Newest(apiCache[t], {})
        /\ SnapshotWindowStart(Cursor(t), Newest(apiCache[t], {})) # 0
    BY <1>0, <1>4, CursorKept DEF FetchBare, Basic, TypeOK
  <2>2. phase = "fetch" /\ ~discarded[t]
    BY <1>4 DEF FetchBare, AtStep, IInv, IdleOK
  <2>3. ASSUME NEW r \in Rows PROVE SnapshotRow(t, r)'
    <3>1. \/ apiCache[t][r] = LiveRows(up[t])[r]
          \/ \A s \in Rows : SentSince(up[t][r], apiCache[t][s].updated)
      BY DEF IInv, CacheOK
    <3>2. \/ mirror[t][r] = up[t][r]
          \/ r \in waived[t]
          \/ NeverHeld(t, r, mirror[t][r])
          \/ SentSince(up[t][r], Cursor(t))
      BY DEF IInv, CommittedOK
    <3>3. QED
      BY <2>1, <3>1, <3>2 DEF SnapshotRow, NeverHeld
  <2>4. QED
    BY <2>1, <2>2, <2>3
<1>5. CASE \/ \E q \in Types : FetchSince(q) \/ FetchSinceFails(q) \/ FetchWindow(q)
                               \/ (FetchBare(q) /\ q # t)
           \/ \E q \in Types, kept \in SUBSET Rows : WindowFails(q, kept)
  <2>1. PICK q \in Types : \/ FetchSince(q) \/ FetchSinceFails(q) \/ FetchWindow(q)
                           \/ (FetchBare(q) /\ q # t)
                           \/ \E kept \in SUBSET Rows : WindowFails(q, kept)
    BY <1>5
  <2>2. /\ UNCHANGED <<mirror, mark, apiCache, up, waived, phase>>
        /\ q # t
        /\ stage'[t] = stage[t] /\ scratch'[t] = scratch[t] /\ cutoff'[t] = cutoff[t]
        /\ discarded'[t] = discarded[t]
    BY <1>0, <2>1 DEF FetchSince, FetchSinceFails, FetchWindow, FetchBare, WindowFails,
       Basic, TypeOK
  <2>3. Cursor(t)' = Cursor(t)
    BY <2>2, CursorKept
  <2>4. \A r \in Rows : SnapshotRow(t, r) => SnapshotRow(t, r)'
    BY <2>2, <2>3 DEF SnapshotRow, NeverHeld
  <2>5. QED
    BY <1>0, <2>2, <2>3, <2>4
<1>6. ASSUME NEW orphans \in [Types -> SUBSET Rows], Upsert(orphans)
      PROVE  P
  BY <1>6 DEF Upsert
<1>7. ASSUME NEW q \in Types, NEW ids \in SUBSET Rows, Backfill(q, ids)
      PROVE  P
  BY <1>0, <1>7 DEF Backfill
<1>8. CASE Commit \/ FailCycle
  BY <1>8 DEF Commit, FailCycle, ResetCycle
<1>9. CASE UNCHANGED vars
  <2>1. UNCHANGED <<mirror, mark, apiCache, up, waived, phase, stage, scratch, cutoff, discarded>>
    BY <1>9 DEF vars, cycle
  <2>2. Cursor(t)' = Cursor(t)
    BY <2>1, CursorKept
  <2>3. \A r \in Rows : SnapshotRow(t, r) => SnapshotRow(t, r)'
    BY <2>1, <2>2 DEF SnapshotRow, NeverHeld
  <2>4. QED
    BY <1>0, <2>1, <2>2, <2>3
<1>10. QED
  BY <1>1, <1>2, <1>3, <1>4, <1>5, <1>6, <1>7, <1>8, <1>9 DEF Next, Upstream, Fault, Progress

-----------------------------------------------------------------------------
(* A row that the window does not return needs none: the snapshot or the     *)
(* mirror has it already, or upstream deleted it unseen.                     *)
Covered(t, r) ==
    \/ scratch[t][r] = up[t][r] /\ Stored(up[t][r])
    \/ mirror[t][r] = up[t][r] /\ scratch[t][r] = None
    \/ scratch[t][r] = None /\ NeverHeld(t, r, mirror[t][r])
    \/ r \in waived[t]

(* snapshotWindowStart: the older of the cursor and the snapshot.            *)
LEMMA WindowStart ==
  ASSUME NEW cursor \in Nat, NEW newest \in Nat, SnapshotWindowStart(cursor, newest) # 0
  PROVE  LET w == SnapshotWindowStart(cursor, newest)
         IN  /\ w \in Nat
             /\ \/ w = newest /\ newest # 0 /\ (cursor = 0 \/ newest < cursor)
                \/ w = cursor /\ cursor # 0 /\ (newest = 0 \/ cursor <= newest)
BY DEF SnapshotWindowStart

(* A window returns stored rows only.                                        *)
LEMMA WindowIsStored ==
  ASSUME Basic, NEW t \in Types, NEW r \in Window(t)
  PROVE  r \in Rows /\ Stored(up[t][r])
<1>1. r \in Rows /\ SentSince(up[t][r], SnapshotWindowStart(Cursor(t), cutoff[t]))
  BY DEF Window
<1>2. up[t][r] \in Version
  BY <1>1, Bounded DEF Table
<1>3. SnapshotWindowStart(Cursor(t), cutoff[t]) \in Nat
  BY CursorFacts DEF SnapshotWindowStart, Basic, TypeOK
<1>4. QED
  BY <1>1, <1>2, <1>3 DEF SentSince, Stored, Version

(* A row that the window does not return is one that the bare list had, or   *)
(* that the mirror has already.                                              *)
LEMMA OutsideWindow ==
  ASSUME IInv, NEW t \in Types, NEW r \in Rows, stage[t] = "snapshot", r \notin Window(t)
  PROVE  Covered(t, r) /\ scratch[t][r] \in {up[t][r], None}
<1> DEFINE W == SnapshotWindowStart(Cursor(t), cutoff[t])
<1>0. /\ Basic
      /\ SnapshotRow(t, r)
      /\ cutoff[t] = Newest(scratch[t], {})
      /\ W # 0
  BY DEF IInv, Basic, SnapshotOK, SnapshotRow
<1>1. up[t][r] \in Version /\ ~SentSince(up[t][r], W)
  BY <1>0, Bounded DEF Window, Table
<1>2. /\ cutoff[t] \in Nat
      /\ \A s \in Rows : scratch[t][s].updated <= cutoff[t]
      /\ cutoff[t] = 0 \/ \E s \in Rows : scratch[t][s].updated = cutoff[t]
  BY <1>0, Bounded, NewestIs
<1>3. Cursor(t) \in Nat
  BY <1>0, CursorFacts
<1>4. /\ W \in Nat
      /\ \/ W = cutoff[t] /\ cutoff[t] # 0 /\ (Cursor(t) = 0 \/ cutoff[t] < Cursor(t))
         \/ W = Cursor(t) /\ Cursor(t) # 0 /\ (cutoff[t] = 0 \/ Cursor(t) <= cutoff[t])
  BY <1>0, <1>2, <1>3, WindowStart
<1>5. CASE cutoff[t] = 0
  <2>1. scratch[t][r] = None
    <3>1. scratch[t][r].updated \in Nat
      BY <1>0, Bounded DEF Table, Version
    <3>2. scratch[t][r].updated = 0
      BY <1>2, <1>5, <3>1
    <3>3. QED
      BY <1>0, <3>2, PastFacts
  <2>2. ~SentSince(up[t][r], Cursor(t))
    BY <1>1, <1>4, <1>5
  <2>3. QED
    BY <1>0, <2>1, <2>2 DEF SnapshotRow, Covered
<1>6. CASE cutoff[t] # 0
  <2>1. ~SentSince(up[t][r], cutoff[t])
    BY <1>1, <1>2, <1>3, <1>4, <1>6, SentEarlier
  <2>2. scratch[t][r] = LiveRows(up[t])[r] /\ apiCache[t][r] = LiveRows(up[t])[r]
    BY <1>0, <1>2, <1>6, <2>1 DEF SnapshotRow
  <2>3. CASE up[t][r].live
    BY <1>0, <2>2, <2>3, PastFacts DEF Covered, LiveRows, Stored
  <2>4. CASE ~up[t][r].live
    <3>1. scratch[t][r] = None /\ apiCache[t][r] = None
      BY <2>2, <2>4 DEF LiveRows
    <3>2. CASE Cursor(t) # 0
      <4>1. ~SentSince(up[t][r], Cursor(t))
        BY <1>1, <1>2, <1>3, <1>4, <3>2, SentEarlier
      <4>2. QED
        BY <1>0, <3>1, <4>1 DEF SnapshotRow, Covered
    <3>3. CASE Cursor(t) = 0
      <4>1. mirror[t][r].updated <= 0 /\ mirror[t][r].updated \in Nat
        BY <1>0, <3>3, CursorFacts, Bounded DEF Table, Version
      <4>2. mirror[t][r] = None
        BY <1>0, <4>1, PastFacts
      <4>3. QED
        BY <2>4, <3>1, <4>2 DEF NeverHeld, Covered
    <3>4. QED
      BY <3>2, <3>3
  <2>5. QED
    BY <2>2, <2>3, <2>4 DEF LiveRows
<1>7. QED
  BY <1>5, <1>6

(* One staged row.                                                           *)
StagedRow(t, r) ==
    \/ scratch[t][r] = up[t][r] /\ Stored(up[t][r])
    \/ mirror[t][r] = up[t][r] /\ (mode = "incremental" \/ scratch[t][r] = None)
    \/ scratch[t][r] = None /\ NeverHeld(t, r, mirror[t][r])
    \/ r \in missed[t] \cup waived[t]
    \/ Beyond(t, r, {scratch[t], mirror[t]}, {})

(* The rest of a window is lost: what the discarded window leaves.           *)
LEMMA LostFromWindow ==
  ASSUME IInv, NEW t \in Types, NEW r \in Rows, NEW kept \in SUBSET Rows,
         stage[t] = "snapshot", WindowFails(t, kept), r \in Window(t) \ kept
  PROVE  StagedRow(t, r)'
<1> DEFINE W == SnapshotWindowStart(Cursor(t), cutoff[t])
<1>0. /\ Basic
      /\ SnapshotRow(t, r)
      /\ cutoff[t] = Newest(scratch[t], {})
      /\ W # 0
  BY DEF IInv, Basic, SnapshotOK, SnapshotRow
<1>1. /\ UNCHANGED <<up, mirror, mark, apiCache, waived, mode>>
      /\ \A s \in Rows : scratch'[t][s] = IF s \in kept THEN up[t][s] ELSE scratch[t][s]
      /\ discarded'[t] = TRUE
      /\ missed'[t] = IF Cursor(t) = 0 \/ Held(t) THEN missed[t]
                      ELSE missed[t] \cup (Window(t) \ kept)
      /\ Cursor(t)' = Cursor(t) /\ Held(t)' = Held(t)
      /\ mode = "incremental" \/ Cursor(t) = 0
  BY <1>0, CursorKept DEF WindowFails, Replaced, WindowFailureTolerated, Basic, TypeOK
<1>2. CASE ~(Cursor(t) = 0 \/ Held(t))
  BY <1>1, <1>2 DEF StagedRow
<1>3. CASE Held(t)
  <2>1. t \notin Purged /\ Cursor(t) # 0
    BY <1>0, <1>3, CursorFacts DEF IInv, PurgedOK
  <2>2. scratch'[t][r] = scratch[t][r]
    BY <1>1
  <2>3. CASE SentSince(up[t][r], Cursor(t))
    <3>1. Beyond(t, r, {scratch[t], mirror[t]}, {})'
      BY <1>1, <1>3, <2>3 DEF Beyond
    <3>2. QED
      BY <3>1 DEF StagedRow
  <2>4. CASE ~SentSince(up[t][r], Cursor(t))
    BY <1>0, <1>1, <2>1, <2>2, <2>4 DEF SnapshotRow, StagedRow, NeverHeld
  <2>5. QED
    BY <2>3, <2>4
<1>4. CASE Cursor(t) = 0
  <2>1. /\ up[t][r] \in Version /\ SentSince(up[t][r], W)
        /\ \A s \in Rows : up[t][s] \in Version /\ scratch[t][s] \in Version
                           /\ mirror[t][s] \in Version
    BY <1>0, Bounded DEF Window, Table
  <2>2. /\ cutoff[t] \in Nat
        /\ \A s \in Rows : scratch[t][s].updated <= cutoff[t]
    BY <1>0, Bounded, NewestIs
  <2>3. W = cutoff[t]
    BY <1>4, <1>0, <2>2, WindowStart
  <2>4. \A s \in Rows : mirror[t][s].updated = 0
    <3>1. \A s \in Rows : mirror[t][s].updated <= 0 /\ mirror[t][s].updated \in Nat
      BY <1>0, <1>4, <2>1, CursorFacts DEF Version
    <3>2. QED
      BY <3>1
  <2>5. SentSince(up[t][r], 0)
    BY <1>0, <2>1, <2>2, <2>3, SentEarlier
  <2>6. \A s \in Rows \ kept : SentSince(up[t][r], scratch[t][s].updated)
    <3>1. \A s \in Rows : scratch[t][s].updated \in Nat
      BY <2>1 DEF Version
    <3>2. QED
      BY <2>1, <2>2, <2>3, <3>1, SentEarlier
  <2>7. \A s \in kept : SentSince(up[t][r], up[t][s].updated)
    <3>1. SUFFICES ASSUME NEW s \in kept
                   PROVE  SentSince(up[t][r], up[t][s].updated)
      OBVIOUS
    <3>2. ~After(up[t][s], up[t][r])
      BY DEF WindowFails
    <3>3. ~(up[t][r].updated <= 1 /\ up[t][r].sub = 0)
      BY <1>0, <2>1, <2>2, <2>3 DEF SentSince, Version
    <3>4. After(up[t][r], up[t][s])
      BY <3>2, <3>3 DEF IInv, InstantsOK
    <3>5. up[t][r].updated # 0
      BY <2>1, <2>5 DEF SentSince, Version
    <3>6. QED
      BY <2>1, <3>4, <3>5, LaterIsSent
  <2>8. Beyond(t, r, {scratch[t], mirror[t]}, {})'
    <3>1. \A s \in Rows : SentSince(up[t][r], scratch'[t][s].updated)
      BY <1>1, <2>6, <2>7
    <3>2. \A s \in Rows : SentSince(up[t][r], mirror[t][s].updated)
      BY <2>4, <2>5
    <3>3. QED
      BY <1>1, <1>4, <2>5, <3>1, <3>2 DEF Beyond
  <2>9. QED
    BY <2>8 DEF StagedRow
<1>5. QED
  BY <1>2, <1>3, <1>4

(* Every step keeps what is known of the rows of a staged type.              *)
LEMMA StagedStep == IInv /\ [Next]_vars => StagedOK'
<1> SUFFICES ASSUME IInv, [Next]_vars, NEW t \in Types, NEW r \in Rows,
                    phase' = "fetch", stage'[t] = "staged"
             PROVE  StagedRow(t, r)'
  BY DEF StagedOK, StagedRow
<1>0. /\ Basic
      /\ phase = "fetch" /\ stage[t] = "staged" => StagedRow(t, r)
  BY DEF IInv, Basic, StagedOK, StagedRow
<1>1. ASSUME NEW q \in Types, NEW x \in Rows, NEW time \in Instants, NEW live \in BOOLEAN,
             Change(q, x, time, live)
      PROVE  StagedRow(t, r)'
  <2>1. /\ Cursor(t)' = Cursor(t) /\ Held(t)' = Held(t)
        /\ UNCHANGED <<mirror, apiCache, phase, stage, discarded, mode, scratch>>
    BY <1>1, CursorKept DEF Change
  <2>2. StagedRow(t, r)
    BY <1>0, <2>1
  <2>3. CASE q = t /\ x = r
    <3>1. \A v \in Version, s \in Rows : Past(v, up[t][s]) => SentSince(up'[t][r], v.updated)
      BY <1>0, <1>1, <2>3, ChangeFacts
    <3>2. \A s \in Rows : /\ scratch[t][s] \in Version /\ Past(scratch[t][s], up[t][s])
                          /\ mirror[t][s] \in Version /\ Past(mirror[t][s], up[t][s])
      BY <1>0, PastFacts, Bounded DEF Table
    <3>3. SentSince(up'[t][r], Cursor(t))
      BY <1>0, <1>1, <2>3, ChangeFacts
    <3>4. Beyond(t, r, {scratch[t], mirror[t]}, {})'
      BY <2>1, <3>1, <3>2, <3>3 DEF Beyond
    <3>5. QED
      BY <3>4 DEF StagedRow
  <2>4. CASE ~(q = t /\ x = r)
    <3>1. up'[t][r] = up[t][r]
      BY <1>0, <1>1, <2>4, ChangeElsewhere
    <3>2. r \in missed[t] \cup waived[t] => r \in missed'[t] \cup waived'[t]
      BY <1>0, <1>1, <2>4 DEF Change, Basic, TypeOK
    <3>3. Beyond(t, r, {scratch[t], mirror[t]}, {}) => Beyond(t, r, {scratch[t], mirror[t]}, {})'
      BY <2>1, <3>1 DEF Beyond
    <3>4. QED
      BY <2>1, <2>2, <3>1, <3>2, <3>3 DEF StagedRow, NeverHeld
  <2>5. QED
    BY <2>3, <2>4
<1>2. ASSUME NEW q \in Types, RebuildCache(q)
      PROVE  StagedRow(t, r)'
  <2>1. /\ Cursor(t)' = Cursor(t) /\ Held(t)' = Held(t)
        /\ UNCHANGED <<mirror, up, waived, missed, phase, stage, discarded, mode, scratch>>
    BY <1>2, CursorKept DEF RebuildCache, cycle
  <2>2. apiCache'[t][r] = apiCache[t][r] \/ apiCache'[t][r] = LiveRows(up[t])[r]
    BY <1>0, <1>2 DEF RebuildCache, Basic, TypeOK
  <2>3. NeverHeld(t, r, mirror[t][r]) => NeverHeld(t, r, mirror[t][r])'
    BY <2>1, <2>2 DEF NeverHeld, LiveRows
  <2>4. Beyond(t, r, {scratch[t], mirror[t]}, {}) => Beyond(t, r, {scratch[t], mirror[t]}, {})'
    BY <2>1 DEF Beyond
  <2>5. QED
    BY <1>0, <2>1, <2>3, <2>4 DEF StagedRow
<1>3. CASE \E m \in {"incremental", "full"} : StartCycle(m)
  <2>1. stage[t] = "todo" /\ stage' = stage
    BY <1>3 DEF StartCycle, IInv, IdleOK, Idle
  <2>2. QED
    BY <2>1
<1>4. ASSUME FetchSince(t)
      PROVE  StagedRow(t, r)'
  <2>1. /\ UNCHANGED <<mirror, mark, up, apiCache, waived, missed, mode>>
        /\ mode = "incremental"
        /\ scratch'[t][r] = IF SentSince(up[t][r], Cursor(t)) THEN up[t][r] ELSE None
    BY <1>0, <1>4 DEF FetchSince, Basic, TypeOK
  <2>2. CASE SentSince(up[t][r], Cursor(t))
    <3>1. up[t][r] \in Version /\ Cursor(t) \in Nat
      BY <1>0, Bounded, CursorFacts DEF Table
    <3>2. Stored(up[t][r])
      BY <2>2, <3>1 DEF SentSince, Stored, Version
    <3>3. QED
      BY <2>1, <2>2, <3>2 DEF StagedRow
  <2>3. CASE ~SentSince(up[t][r], Cursor(t))
    BY <2>1, <2>3 DEF IInv, CommittedOK, StagedRow, NeverHeld
  <2>4. QED
    BY <2>2, <2>3
<1>5. ASSUME FetchBare(t)
      PROVE  StagedRow(t, r)'
  <2> DEFINE newest == Newest(apiCache[t], {})
  <2>1. /\ UNCHANGED <<mirror, mark, up, apiCache, waived, missed, mode>>
        /\ scratch'[t] = apiCache[t]
        /\ SnapshotWindowStart(Cursor(t), newest) = 0
        /\ Cursor(t)' = Cursor(t)
    BY <1>0, <1>5, CursorKept DEF FetchBare, Basic, TypeOK
  <2>2. /\ newest \in Nat /\ Cursor(t) \in Nat
        /\ \A s \in Rows : apiCache[t][s].updated <= newest
        /\ \A s \in Rows : apiCache[t][s].updated \in Nat /\ mirror[t][s].updated \in Nat
    <3>1. newest \in Nat /\ \A s \in Rows : apiCache[t][s].updated <= newest
      BY <1>0, Bounded, NewestIs
    <3>2. \A s \in Rows : apiCache[t][s].updated \in Nat /\ mirror[t][s].updated \in Nat
      BY <1>0, Bounded DEF Table, Version
    <3>3. QED
      BY <1>0, <3>1, <3>2, CursorFacts
  <2>3. newest = 0 /\ Cursor(t) = 0
    BY <2>1, <2>2 DEF SnapshotWindowStart
  <2>4. \A s \in Rows : apiCache[t][s].updated = 0 /\ mirror[t][s].updated = 0
    <3>1. \A s \in Rows : mirror[t][s].updated <= 0
      BY <1>0, <2>3, CursorFacts
    <3>2. QED
      BY <2>2, <2>3, <3>1
  <2>5. scratch'[t][r] = None
    BY <1>0, <2>1, <2>4, PastFacts
  <2>6. CASE SentSince(up[t][r], Cursor(t))
    <3>1. Beyond(t, r, {scratch[t], mirror[t]}, {})'
      BY <2>1, <2>3, <2>4, <2>6 DEF Beyond
    <3>2. QED
      BY <3>1 DEF StagedRow
  <2>7. CASE ~SentSince(up[t][r], Cursor(t))
    BY <2>1, <2>5, <2>7 DEF IInv, CommittedOK, StagedRow, NeverHeld
  <2>8. QED
    BY <2>6, <2>7
<1>6. ASSUME FetchWindow(t)
      PROVE  StagedRow(t, r)'
  <2>1. /\ UNCHANGED <<mirror, mark, up, apiCache, waived, missed, mode>>
        /\ stage[t] = "snapshot"
        /\ scratch'[t][r] = IF r \in Window(t) THEN up[t][r] ELSE scratch[t][r]
    BY <1>0, <1>6 DEF FetchWindow, Replaced, Basic, TypeOK
  <2>2. CASE r \in Window(t)
    BY <1>0, <2>1, <2>2, WindowIsStored DEF StagedRow
  <2>3. CASE r \notin Window(t)
    <3>1. Covered(t, r)
      BY <2>1, <2>3, OutsideWindow
    <3>2. QED
      BY <2>1, <2>3, <3>1 DEF Covered, StagedRow, NeverHeld
  <2>4. QED
    BY <2>2, <2>3
<1>7. ASSUME NEW kept \in SUBSET Rows, WindowFails(t, kept)
      PROVE  StagedRow(t, r)'
  <2>1. /\ UNCHANGED <<mirror, mark, up, apiCache, waived, mode>>
        /\ stage[t] = "snapshot" /\ kept \subseteq Window(t)
        /\ scratch'[t][r] = IF r \in kept THEN up[t][r] ELSE scratch[t][r]
        /\ missed[t] \subseteq missed'[t]
    BY <1>0, <1>7 DEF WindowFails, Replaced, Basic, TypeOK
  <2>2. CASE r \in kept
    BY <1>0, <2>1, <2>2, WindowIsStored DEF StagedRow
  <2>3. CASE r \in Window(t) \ kept
    BY <1>7, <2>1, <2>3, LostFromWindow
  <2>4. CASE r \notin Window(t)
    <3>1. Covered(t, r)
      BY <2>1, <2>4, OutsideWindow
    <3>2. QED
      BY <2>1, <2>4, <3>1 DEF Covered, StagedRow, NeverHeld
  <2>5. QED
    BY <2>2, <2>3, <2>4
<1>8. CASE \/ \E q \in Types : FetchSinceFails(q)
           \/ \E q \in Types \ {t} : FetchSince(q) \/ FetchBare(q) \/ FetchWindow(q)
           \/ \E q \in Types \ {t}, kept \in SUBSET Rows : WindowFails(q, kept)
  <2>1. PICK q \in Types : \/ FetchSinceFails(q)
                           \/ q # t /\ (FetchSince(q) \/ FetchBare(q) \/ FetchWindow(q))
                           \/ q # t /\ \E kept \in SUBSET Rows : WindowFails(q, kept)
    BY <1>8
  <2>2. /\ UNCHANGED <<mirror, mark, apiCache, up, waived, phase, mode>>
        /\ stage'[t] = stage[t] /\ scratch'[t] = scratch[t] /\ missed'[t] = missed[t]
        /\ discarded'[t] = discarded[t]
    BY <1>0, <2>1 DEF FetchSince, FetchSinceFails, FetchWindow, FetchBare, WindowFails,
       Basic, TypeOK
  <2>3. Cursor(t)' = Cursor(t) /\ Held(t)' = Held(t)
    BY <2>2, CursorKept
  <2>4. Beyond(t, r, {scratch[t], mirror[t]}, {}) => Beyond(t, r, {scratch[t], mirror[t]}, {})'
    BY <2>2, <2>3 DEF Beyond
  <2>5. QED
    BY <1>0, <2>2, <2>3, <2>4 DEF StagedRow, NeverHeld
<1>9. CASE \/ \E orphans \in [Types -> SUBSET Rows] : Upsert(orphans)
           \/ \E q \in Types, ids \in SUBSET Rows : Backfill(q, ids)
           \/ Commit \/ FailCycle
  BY <1>9 DEF Upsert, Backfill, Commit, FailCycle, ResetCycle
<1>10. CASE UNCHANGED vars
  <2>1. UNCHANGED <<mirror, mark, apiCache, up, waived, missed, phase, mode, stage, scratch,
                    discarded>>
    BY <1>10 DEF vars, cycle
  <2>2. Cursor(t)' = Cursor(t) /\ Held(t)' = Held(t)
    BY <2>1, CursorKept
  <2>3. Beyond(t, r, {scratch[t], mirror[t]}, {}) => Beyond(t, r, {scratch[t], mirror[t]}, {})'
    BY <2>1, <2>2 DEF Beyond
  <2>4. QED
    BY <1>0, <2>1, <2>2, <2>3 DEF StagedRow, NeverHeld
<1>11. QED
  BY <1>1, <1>2, <1>3, <1>4, <1>5, <1>6, <1>7, <1>8, <1>9, <1>10 DEF Next, Upstream, Fault, Progress

-----------------------------------------------------------------------------
(* One row in the transaction.                                               *)
TxRow(t, r) ==
    \/ tx[t][r] = up[t][r]
    \/ NeverHeld(t, r, tx[t][r])
    \/ r \in missed[t] \cup waived[t]
    \/ Beyond(t, r, {tx[t]}, backfilled[t])

(* The upsert of one staged row, with the gate. What the cycle knows of the  *)
(* row before it, it knows after it.                                         *)
Known(t, r) ==
    \/ scratch[t][r] = up[t][r] /\ Stored(up[t][r])
    \/ mirror[t][r] = up[t][r] /\ (mode = "incremental" \/ scratch[t][r] = None)
    \/ scratch[t][r] = None /\ NeverHeld(t, r, mirror[t][r])
    \/ r \in missed[t] \cup waived[t]
KnownInTx(t, r) ==
    \/ tx[t][r] = up[t][r]
    \/ NeverHeld(t, r, tx[t][r])
    \/ r \in missed[t] \cup waived[t]

(* The upsert of a row that is in scratch, in the mirror, or nowhere.        *)
LEMMA UpsertKnown ==
  ASSUME Basic, NEW orphans \in [Types -> SUBSET Rows], Upsert(orphans),
         NEW t \in Types, NEW r \in Rows, Known(t, r)
  PROVE  KnownInTx(t, r)'
<1>0. Basic
  OBVIOUS
<1>1. /\ UNCHANGED <<mirror, mark, up, apiCache, waived, mode, discarded, backfilled>>
      /\ \A s \in Rows : tx'[t][s] = Upserted(t, s, orphans[t])
      /\ missed'[t] = missed[t] \cup LeftOut(t, orphans[t])
  BY DEF Upsert
<1>2. \A s \in Rows : tx'[t][s] \in {scratch[t][s], mirror[t][s]}
  BY <1>1 DEF Upserted
<1>3. /\ up[t][r] \in Version /\ mirror[t][r] \in Version /\ scratch[t][r] \in Version
      /\ Past(mirror[t][r], up[t][r]) /\ Past(scratch[t][r], up[t][r])
      /\ mode \in {"incremental", "full"}
  BY <1>0, PastFacts, Bounded DEF Table, Basic, TypeOK
<1>4. CASE scratch[t][r] = up[t][r] /\ Stored(up[t][r])
  <2>1. CASE r \in orphans[t]
    <3>1. r \in missed'[t]
      BY <1>1, <1>4, <2>1 DEF LeftOut
    <3>2. QED
      BY <3>1 DEF KnownInTx
  <2>2. CASE r \notin orphans[t] /\ GatePasses(t, scratch[t][r], mirror[t][r])
    BY <1>1, <1>4, <2>2 DEF KnownInTx, Upserted
  <2>3. CASE r \notin orphans[t] /\ ~GatePasses(t, scratch[t][r], mirror[t][r])
    <3>1. tx'[t][r] = mirror[t][r]
      BY <1>1, <2>3 DEF Upserted
    <3>2. CASE mirror[t][r] = up[t][r]
      BY <1>1, <3>1, <3>2 DEF KnownInTx
    <3>3. CASE After(up[t][r], mirror[t][r])
      <4>1. scratch[t][r].updated = mirror[t][r].updated
        BY <1>3, <1>4, <2>3, <3>3 DEF GatePasses, After, Version
      <4>2. r \in missed'[t]
        BY <1>1, <1>4, <2>3, <4>1 DEF LeftOut
      <4>3. QED
        BY <4>2 DEF KnownInTx
    <3>4. QED
      BY <1>3, <3>2, <3>3 DEF Past
  <2>4. QED
    BY <2>1, <2>2, <2>3
<1>5. CASE mirror[t][r] = up[t][r] /\ (mode = "incremental" \/ scratch[t][r] = None)
  <2>1. CASE scratch[t][r] = up[t][r]
    BY <1>1, <1>2, <1>5, <2>1 DEF KnownInTx
  <2>2. CASE scratch[t][r] # up[t][r]
    <3>1. After(up[t][r], scratch[t][r])
      BY <1>3, <2>2 DEF Past
    <3>2. Stored(mirror[t][r])
      <4>1. up[t][r].updated # 0
        BY <1>0, <1>3, <3>1, PastFacts DEF After, None, Version
      <4>2. QED
        BY <1>5, <4>1 DEF Stored
    <3>3. tx'[t][r] = mirror[t][r]
      <4>1. CASE scratch[t][r] = None
        BY <1>1, <4>1 DEF Upserted, Stored, None
      <4>2. CASE mode = "incremental"
        <5>1. ~GatePasses(t, scratch[t][r], mirror[t][r])
          BY <1>3, <1>5, <3>1, <3>2, <4>2 DEF GatePasses, After, Version
        <5>2. QED
          BY <1>1, <5>1 DEF Upserted
      <4>3. QED
        BY <1>5, <4>1, <4>2
    <3>4. QED
      BY <1>1, <1>5, <3>3 DEF KnownInTx
  <2>3. QED
    BY <2>1, <2>2
<1>6. CASE scratch[t][r] = None /\ NeverHeld(t, r, mirror[t][r])
  <2>1. tx'[t][r] = mirror[t][r]
    BY <1>1, <1>6 DEF Upserted, Stored, None
  <2>2. QED
    BY <1>1, <1>6, <2>1 DEF KnownInTx, NeverHeld
<1>7. CASE r \in missed[t] \cup waived[t]
  BY <1>1, <1>7 DEF KnownInTx
<1>8. QED
  BY <1>4, <1>5, <1>6, <1>7 DEF Known

(* The upsert of any row.                                                    *)
LEMMA UpsertRow ==
  ASSUME IInv, NEW orphans \in [Types -> SUBSET Rows], Upsert(orphans),
         NEW t \in Types, NEW r \in Rows
  PROVE  TxRow(t, r)'
<1>0. /\ Basic
      /\ StagedRow(t, r)
  BY DEF Upsert, IInv, Basic, StagedOK, StagedRow
<1>1. CASE Known(t, r)
  BY <1>0, <1>1, UpsertKnown DEF KnownInTx, TxRow
<1>2. CASE Beyond(t, r, {scratch[t], mirror[t]}, {})
  <2>1. /\ UNCHANGED <<mirror, mark, up, discarded, backfilled>>
        /\ \A s \in Rows : tx'[t][s] \in {scratch[t][s], mirror[t][s]}
        /\ Cursor(t)' = Cursor(t) /\ Held(t)' = Held(t)
    BY CursorKept DEF Upsert, Upserted
  <2>2. Beyond(t, r, {tx[t]}, backfilled[t])'
    BY <1>2, <2>1 DEF Beyond
  <2>3. QED
    BY <2>2 DEF TxRow
<1>3. QED
  BY <1>0, <1>1, <1>2 DEF StagedRow, Known

(* Every step keeps what is known of the rows in the transaction.            *)
LEMMA TxStep == IInv /\ [Next]_vars => TxOK'
<1> SUFFICES ASSUME IInv, [Next]_vars, phase' = "tx", NEW t \in Types, NEW r \in Rows
             PROVE  TxRow(t, r)'
  BY DEF TxOK, TxRow
<1>0. /\ Basic
      /\ phase = "tx" => TxRow(t, r)
  BY DEF IInv, Basic, TxOK, TxRow
<1>1. ASSUME NEW q \in Types, NEW x \in Rows, NEW time \in Instants, NEW live \in BOOLEAN,
             Change(q, x, time, live)
      PROVE  TxRow(t, r)'
  <2>1. /\ Cursor(t)' = Cursor(t) /\ Held(t)' = Held(t)
        /\ UNCHANGED <<mirror, apiCache, phase, discarded, tx, backfilled>>
    BY <1>1, CursorKept DEF Change
  <2>2. TxRow(t, r)
    BY <1>0, <2>1
  <2>3. CASE q = t /\ x = r
    <3>1. \A v \in Version, s \in Rows : Past(v, up[t][s]) => SentSince(up'[t][r], v.updated)
      BY <1>0, <1>1, <2>3, ChangeFacts
    <3>2. \A s \in Rows : tx[t][s] \in Version /\ Past(tx[t][s], up[t][s])
      BY <1>0, PastFacts, Bounded DEF Table
    <3>3. SentSince(up'[t][r], Cursor(t))
      BY <1>0, <1>1, <2>3, ChangeFacts
    <3>4. Beyond(t, r, {tx[t]}, backfilled[t])'
      BY <2>1, <3>1, <3>2, <3>3 DEF Beyond
    <3>5. QED
      BY <3>4 DEF TxRow
  <2>4. CASE ~(q = t /\ x = r)
    <3>1. up'[t][r] = up[t][r]
      BY <1>0, <1>1, <2>4, ChangeElsewhere
    <3>2. r \in missed[t] \cup waived[t] => r \in missed'[t] \cup waived'[t]
      BY <1>0, <1>1, <2>4 DEF Change, Basic, TypeOK
    <3>3. Beyond(t, r, {tx[t]}, backfilled[t]) => Beyond(t, r, {tx[t]}, backfilled[t])'
      BY <2>1, <3>1 DEF Beyond
    <3>4. QED
      BY <2>1, <2>2, <3>1, <3>2, <3>3 DEF TxRow, NeverHeld
  <2>5. QED
    BY <2>3, <2>4
<1>2. ASSUME NEW q \in Types, RebuildCache(q)
      PROVE  TxRow(t, r)'
  <2>1. /\ Cursor(t)' = Cursor(t) /\ Held(t)' = Held(t)
        /\ UNCHANGED <<mirror, up, waived, missed, phase, discarded, tx, backfilled>>
    BY <1>2, CursorKept DEF RebuildCache, cycle
  <2>2. apiCache'[t][r] = apiCache[t][r] \/ apiCache'[t][r] = LiveRows(up[t])[r]
    BY <1>0, <1>2 DEF RebuildCache, Basic, TypeOK
  <2>3. NeverHeld(t, r, tx[t][r]) => NeverHeld(t, r, tx[t][r])'
    BY <2>1, <2>2 DEF NeverHeld, LiveRows
  <2>4. Beyond(t, r, {tx[t]}, backfilled[t]) => Beyond(t, r, {tx[t]}, backfilled[t])'
    BY <2>1 DEF Beyond
  <2>5. QED
    BY <1>0, <2>1, <2>3, <2>4 DEF TxRow
<1>3. CASE \/ \E m \in {"incremental", "full"} : StartCycle(m)
           \/ \E q \in Types : FetchSince(q) \/ FetchBare(q) \/ FetchWindow(q) \/ FetchSinceFails(q)
           \/ \E q \in Types, kept \in SUBSET Rows : WindowFails(q, kept)
           \/ Commit \/ FailCycle
  BY <1>3 DEF StartCycle, FetchSince, FetchBare, FetchWindow, FetchSinceFails, WindowFails,
     AtStep, Commit, FailCycle, ResetCycle
<1>4. ASSUME NEW orphans \in [Types -> SUBSET Rows], Upsert(orphans)
      PROVE  TxRow(t, r)'
  BY <1>4, UpsertRow
<1>5. ASSUME NEW q \in Types, NEW ids \in SUBSET Rows, Backfill(q, ids)
      PROVE  TxRow(t, r)'
  <2>1. /\ UNCHANGED <<mirror, mark, up, apiCache, waived, missed, phase, discarded>>
        /\ phase = "tx"
        /\ Cursor(t)' = Cursor(t) /\ Held(t)' = Held(t)
    BY <1>5, CursorKept DEF Backfill
  <2>2. CASE q # t
    <3>1. tx'[t] = tx[t] /\ backfilled'[t] = backfilled[t]
      BY <1>0, <1>5, <2>2 DEF Backfill, Basic, TypeOK
    <3>2. Beyond(t, r, {tx[t]}, backfilled[t]) => Beyond(t, r, {tx[t]}, backfilled[t])'
      BY <2>1, <3>1 DEF Beyond
    <3>3. QED
      BY <1>0, <2>1, <3>1, <3>2 DEF TxRow, NeverHeld
  <2>3. CASE q = t
    <3>1. /\ \A s \in Rows : tx'[t][s] = IF s \in ids THEN up[t][s] ELSE tx[t][s]
          /\ backfilled'[t] = backfilled[t] \cup ids
      BY <1>0, <1>5, <2>3 DEF Backfill, Basic, TypeOK
    <3>2. CASE r \in ids
      BY <2>1, <3>1, <3>2 DEF TxRow
    <3>3. CASE r \notin ids
      <4>1. Beyond(t, r, {tx[t]}, backfilled[t]) => Beyond(t, r, {tx[t]}, backfilled[t])'
        BY <2>1, <3>1 DEF Beyond
      <4>2. QED
        BY <1>0, <2>1, <3>1, <3>3, <4>1 DEF TxRow, NeverHeld
    <3>4. QED
      BY <3>2, <3>3
  <2>4. QED
    BY <2>2, <2>3
<1>6. CASE UNCHANGED vars
  <2>1. UNCHANGED <<mirror, mark, apiCache, up, waived, missed, phase, tx, backfilled, discarded>>
    BY <1>6 DEF vars, cycle
  <2>2. Cursor(t)' = Cursor(t) /\ Held(t)' = Held(t)
    BY <2>1, CursorKept
  <2>3. Beyond(t, r, {tx[t]}, backfilled[t]) => Beyond(t, r, {tx[t]}, backfilled[t])'
    BY <2>1, <2>2 DEF Beyond
  <2>4. QED
    BY <1>0, <2>1, <2>2, <2>3 DEF TxRow, NeverHeld
<1>7. QED
  BY <1>1, <1>2, <1>3, <1>4, <1>5, <1>6 DEF Next, Upstream, Fault, Progress

-----------------------------------------------------------------------------
(* Every step keeps the rows that are ready to write from being older than   *)
(* the committed ones.                                                       *)
LEMMA ForwardStep == IInv /\ [Next]_vars => ForwardOK'
<1> SUFFICES ASSUME IInv, [Next]_vars, NEW t \in Types, NEW r \in Rows
             PROVE  /\ phase' = "fetch" /\ mode' = "full" /\ stage'[t] = "staged" =>
                         scratch'[t][r] = None \/ Past(mirror'[t][r], scratch'[t][r])
                    /\ phase' = "tx" => Past(mirror'[t][r], tx'[t][r])
  BY DEF ForwardOK, Past, After
<1> DEFINE P == /\ phase' = "fetch" /\ mode' = "full" /\ stage'[t] = "staged" =>
                      scratch'[t][r] = None \/ Past(mirror'[t][r], scratch'[t][r])
                /\ phase' = "tx" => Past(mirror'[t][r], tx'[t][r])
<1>0. /\ Basic
      /\ phase = "fetch" /\ mode = "full" /\ stage[t] = "staged" =>
           scratch[t][r] = None \/ Past(mirror[t][r], scratch[t][r])
      /\ phase = "tx" => Past(mirror[t][r], tx[t][r])
  BY DEF IInv, Basic, ForwardOK
<1>1. CASE UNCHANGED <<mirror, phase, mode, stage, scratch, tx>>
  BY <1>0, <1>1
<1>2. CASE \E m \in {"incremental", "full"} : StartCycle(m)
  BY <1>2 DEF StartCycle, IInv, IdleOK, Idle
<1>3. ASSUME NEW q \in Types, FetchSince(q)
      PROVE  P
  BY <1>0, <1>3 DEF FetchSince, AtStep
<1>4. ASSUME NEW q \in Types, FetchSinceFails(q)
      PROVE  P
  BY <1>0, <1>4 DEF FetchSinceFails, AtStep
<1>5. ASSUME NEW q \in Types, FetchBare(q)
      PROVE  P
  <2>1. CASE q # t
    <3>1. UNCHANGED <<mirror, phase, mode>> /\ scratch'[t] = scratch[t] /\ stage'[t] = stage[t]
          /\ phase = "fetch"
      BY <1>0, <1>5, <2>1 DEF FetchBare, AtStep, Basic, TypeOK
    <3>2. QED
      BY <1>0, <3>1
  <2>2. CASE q = t
    <3>1. /\ UNCHANGED <<mirror, phase, mode>> /\ phase = "fetch"
          /\ scratch'[t] = apiCache[t]
          /\ stage'[t] = IF SnapshotWindowStart(Cursor(t), Newest(apiCache[t], {})) = 0
                         THEN "staged" ELSE "snapshot"
      BY <1>0, <1>5, <2>2 DEF FetchBare, AtStep, Basic, TypeOK
    <3>2. Cursor(t) \in Nat /\ Newest(apiCache[t], {}) \in Nat
          /\ apiCache[t][r].updated <= Newest(apiCache[t], {})
          /\ apiCache[t][r].updated \in Nat
      <4>1. Newest(apiCache[t], {}) \in Nat
            /\ \A s \in Rows : apiCache[t][s].updated <= Newest(apiCache[t], {})
        BY <1>0, Bounded, NewestIs
      <4>2. apiCache[t][r].updated \in Nat
        BY <1>0, Bounded DEF Table, Version
      <4>3. QED
        BY <1>0, <4>1, <4>2, CursorFacts
    <3>3. stage'[t] = "staged" => apiCache[t][r].updated = 0
      BY <3>1, <3>2 DEF SnapshotWindowStart
    <3>4. stage'[t] = "staged" => scratch'[t][r] = None
      BY <1>0, <3>1, <3>3, PastFacts
    <3>5. QED
      BY <3>1, <3>4
  <2>3. QED
    BY <2>1, <2>2
<1>6. ASSUME NEW q \in Types, FetchWindow(q)
      PROVE  P
  <2>1. UNCHANGED <<mirror, phase, mode>> /\ phase = "fetch" /\ stage[q] = "snapshot"
    BY <1>6 DEF FetchWindow, AtStep
  <2>2. CASE q # t
    <3>1. scratch'[t] = scratch[t] /\ stage'[t] = stage[t]
      BY <1>0, <1>6, <2>2 DEF FetchWindow, Basic, TypeOK
    <3>2. QED
      BY <1>0, <2>1, <3>1
  <2>3. CASE q = t
    <3>1. scratch'[t][r] = IF r \in Window(t) THEN up[t][r] ELSE scratch[t][r]
      BY <1>0, <1>6, <2>3 DEF FetchWindow, Replaced, Basic, TypeOK
    <3>2. scratch'[t][r] \in {up[t][r], None}
      BY <2>1, <2>3, <3>1, OutsideWindow
    <3>3. QED
      BY <1>0, <2>1, <3>2, PastFacts
  <2>4. QED
    BY <2>2, <2>3
<1>7. ASSUME NEW q \in Types, NEW kept \in SUBSET Rows, WindowFails(q, kept)
      PROVE  P
  <2>1. UNCHANGED <<mirror, phase, mode>> /\ phase = "fetch" /\ stage[q] = "snapshot"
    BY <1>7 DEF WindowFails, AtStep
  <2>2. CASE q # t
    <3>1. scratch'[t] = scratch[t] /\ stage'[t] = stage[t]
      BY <1>0, <1>7, <2>2 DEF WindowFails, Basic, TypeOK
    <3>2. QED
      BY <1>0, <2>1, <3>1
  <2>3. CASE q = t /\ mode = "full"
    <3>1. Cursor(t) = 0
      BY <1>7, <2>3 DEF WindowFails, WindowFailureTolerated
    <3>2. mirror[t][r].updated <= 0 /\ mirror[t][r].updated \in Nat
      BY <1>0, <3>1, CursorFacts, Bounded DEF Table, Version
    <3>3. mirror[t][r] = None
      BY <1>0, <3>2, PastFacts
    <3>4. scratch'[t][r] \in {up[t][r], scratch[t][r]}
      BY <1>0, <1>7, <2>3 DEF WindowFails, Replaced, Basic, TypeOK
    <3>5. ASSUME NEW v \in Version, v.updated = 0 => v = None
          PROVE  v = None \/ Past(None, v)
      BY <3>5 DEF Past, After, None, Version
    <3>6. up[t][r] \in Version /\ scratch[t][r] \in Version
      BY <1>0, Bounded DEF Table
    <3>7. scratch'[t][r] = None \/ Past(None, scratch'[t][r])
      BY <1>0, <3>4, <3>5, <3>6, PastFacts
    <3>8. QED
      BY <2>1, <3>3, <3>7
  <2>4. QED
    BY <2>1, <2>2, <2>3
<1>8. ASSUME NEW orphans \in [Types -> SUBSET Rows], Upsert(orphans)
      PROVE  P
  <2>1. /\ mirror' = mirror /\ phase' = "tx" /\ phase = "fetch" /\ stage[t] = "staged"
        /\ tx'[t][r] = Upserted(t, r, orphans[t])
    BY <1>8 DEF Upsert
  <2>2. /\ mirror[t][r] \in Version /\ scratch[t][r] \in Version
        /\ mode \in {"incremental", "full"}
        /\ mirror[t][r].updated = 0 => mirror[t][r] = None
    BY <1>0, PastFacts, Bounded DEF Table, Basic, TypeOK
  <2>3. CASE tx'[t][r] = mirror[t][r]
    BY <2>1, <2>3 DEF Past
  <2>4. CASE tx'[t][r] # mirror[t][r]
    <3>1. /\ tx'[t][r] = scratch[t][r] /\ Stored(scratch[t][r])
          /\ GatePasses(t, scratch[t][r], mirror[t][r])
      BY <2>1, <2>4 DEF Upserted
    <3>2. CASE ~Stored(mirror[t][r])
      BY <2>1, <2>2, <3>1, <3>2 DEF Past, After, Stored, None, Version
    <3>3. CASE Stored(mirror[t][r]) /\ mode = "incremental"
      BY <2>1, <2>2, <3>1, <3>3 DEF Past, After, GatePasses, Version
    <3>4. CASE mode = "full"
      BY <1>0, <2>1, <3>1, <3>4 DEF Stored, None
    <3>5. QED
      BY <2>2, <3>2, <3>3, <3>4
  <2>5. QED
    BY <2>1, <2>3, <2>4
<1>9. ASSUME NEW q \in Types, NEW ids \in SUBSET Rows, Backfill(q, ids)
      PROVE  P
  <2>1. /\ mirror' = mirror /\ phase = "tx" /\ phase' = phase
        /\ tx'[t][r] = IF q = t /\ r \in ids THEN up[t][r] ELSE tx[t][r]
    BY <1>0, <1>9 DEF Backfill, Basic, TypeOK
  <2>2. Past(mirror[t][r], up[t][r])
    BY <1>0, PastFacts
  <2>3. QED
    BY <1>0, <2>1, <2>2
<1>10. CASE Commit \/ FailCycle
  BY <1>10 DEF Commit, FailCycle, ResetCycle
<1>11. QED
  BY <1>1, <1>2, <1>3, <1>4, <1>5, <1>6, <1>7, <1>8, <1>9, <1>10
     DEF Next, Upstream, Fault, Progress, Change, RebuildCache, vars, cycle

-----------------------------------------------------------------------------
(* The inductive invariant holds initially.                                  *)
LEMMA IInvInit == Init => IInv
<1> SUFFICES ASSUME Init PROVE IInv
  OBVIOUS
<1>0. Basic /\ Idle /\ phase = "idle"
  BY BasicInit DEF Init, Idle
<1>1. /\ \A t \in Types, r \in Rows : up[t][r] \in {None, Start}
      /\ apiCache = up
      /\ \A t \in Types : mark[t] = 0
      /\ mirror = up \/ \A t \in Types, r \in Rows : mirror[t][r] = None
      /\ \A t \in Types : stage[t] = "todo" /\ backfilled[t] = {}
  BY DEF Init, Idle
<1>2. InstantsOK
  BY <1>1 DEF InstantsOK, None, Start
<1>3. CacheOK
  <2>1. SUFFICES ASSUME NEW t \in Types, NEW r \in Rows
                 PROVE  up[t][r] = LiveRows(up[t])[r]
    BY <1>1 DEF CacheOK
  <2>2. up[t][r] = IF up[t][r].live THEN up[t][r] ELSE None
    <3>1. up[t][r] \in {None, Start}
      BY <1>1
    <3>2. None.live = FALSE /\ Start.live = TRUE
      BY DEF None, Start
    <3>3. CASE up[t][r] = None
      BY <3>2, <3>3
    <3>4. CASE up[t][r] = Start
      BY <3>2, <3>4
    <3>5. QED
      BY <3>1, <3>3, <3>4
  <2>3. QED
    BY <2>2 DEF LiveRows
<1>4. CommittedOK
  <2>1. SUFFICES ASSUME NEW t \in Types, NEW r \in Rows, mirror # up
                 PROVE  mirror[t][r] = up[t][r] \/ SentSince(up[t][r], Cursor(t))
    BY DEF CommittedOK
  <2>2. Cursor(t) = 0
    <3>1. Newest(mirror[t], {}) \in Nat
          /\ (Newest(mirror[t], {}) = 0 \/ \E s \in Rows : mirror[t][s].updated = Newest(mirror[t], {}))
      BY <1>0, Bounded, NewestIs
    <3>2. \A s \in Rows : mirror[t][s].updated = 0
      BY <1>1, <2>1 DEF None
    <3>3. QED
      BY <1>0, <3>1, <3>2, CursorFacts
  <2>3. QED
    BY <1>1, <2>1, <2>2 DEF SentSince, Start
<1>5. PurgedOK
  BY <1>0, <1>1, CursorFacts, ParamsAssumption DEF PurgedOK
<1>6. SnapshotOK
  BY <1>1 DEF SnapshotOK
<1>7. StagedOK /\ TxOK /\ IdleOK /\ ForwardOK
  BY <1>0 DEF StagedOK, TxOK, IdleOK, ForwardOK
<1>8. QED
  BY <1>0, <1>2, <1>3, <1>4, <1>5, <1>6, <1>7 DEF IInv, Basic

(* Every step preserves the inductive invariant.                             *)
LEMMA IInvStep == IInv /\ [Next]_vars => IInv'
<1> SUFFICES ASSUME IInv, [Next]_vars PROVE IInv'
  OBVIOUS
<1>1. TypeOK' /\ HistoryOK'
  BY BasicStep DEF Basic, IInv
<1>2. QED
  BY <1>1, InstantsStep, CacheStep, CommittedStep, PurgedStep, SnapshotStep, StagedStep,
     TxStep, IdleStep, ForwardStep DEF IInv

(* The inductive invariant is stronger than NoSkippedChange.                 *)
LEMMA IInvImplies == IInv => NoSkippedChange
BY DEF IInv, CommittedOK, NoSkippedChange, NeverHeld, Reflects, None

(* Type correctness.                                                         *)
THEOREM TypeCorrect == Spec => []TypeOK
<1>1. Init => Basic
  BY BasicInit
<1>2. Basic /\ [Next]_vars => Basic'
  BY BasicStep
<1>3. Basic => TypeOK
  BY DEF Basic
<1>4. QED
  BY <1>1, <1>2, <1>3, PTL DEF Spec

(* The invariant of MirrorSyncInvariant is inductive.                        *)
THEOREM Inductive == Spec => []IInv
<1>1. Init => IInv
  BY IInvInit
<1>2. IInv /\ [Next]_vars => IInv'
  BY IInvStep
<1>3. QED
  BY <1>1, <1>2, PTL DEF Spec

(* No upstream change is lost.                                               *)
THEOREM NothingSkipped == Spec => []NoSkippedChange
BY Inductive, IInvImplies, PTL

(* A commit writes newer versions, or purges.                                *)
LEMMA CommitForward ==
  ASSUME IInv, Commit, NEW t \in Types, NEW r \in Rows
  PROVE  \/ mirror'[t][r] = mirror[t][r]
         \/ After(mirror'[t][r], mirror[t][r])
         \/ t \in Purged /\ mirror'[t][r] = None
<1>1. mirror'[t][r] = IF t \in Purged /\ ~tx[t][r].live
                           /\ tx[t][r].updated + Horizon <= now.updated
                       THEN None ELSE tx[t][r]
  BY DEF Commit, Committed, Purge
<1>2. Past(mirror[t][r], tx[t][r])
  BY DEF Commit, IInv, ForwardOK
<1>3. QED
  BY <1>1, <1>2 DEF Past

(* No commit replaces a row by an older version of it.                       *)
THEOREM OnlyForward == Spec => RowsMoveForward
<1>1. IInv /\ [Next]_vars =>
        [\A t \in Types, r \in Rows :
           \/ mirror'[t][r] = mirror[t][r]
           \/ After(mirror'[t][r], mirror[t][r])
           \/ t \in Purged /\ mirror'[t][r] = None]_vars
  <2>1. SUFFICES ASSUME IInv, Next, NEW t \in Types, NEW r \in Rows
                 PROVE  \/ mirror'[t][r] = mirror[t][r]
                        \/ After(mirror'[t][r], mirror[t][r])
                        \/ t \in Purged /\ mirror'[t][r] = None
    OBVIOUS
  <2>2. CASE Commit
    BY <2>1, <2>2, CommitForward
  <2>3. CASE ~Commit
    BY <2>1, <2>3 DEF Next, Upstream, Fault, Progress, Change, RebuildCache, StartCycle,
       FetchSince, FetchSinceFails, FetchBare, FetchWindow, WindowFails, Upsert, Backfill, FailCycle
  <2>4. QED
    BY <2>2, <2>3
<1>2. QED
  BY <1>1, Inductive, PTL DEF Spec, RowsMoveForward

(* A commit moves no cursor of an unpurged type back.                        *)
LEMMA CursorForward ==
  ASSUME IInv, Commit, NEW t \in Types \ Purged
  PROVE  Cursor(t)' >= Cursor(t)
<1>0. Basic /\ phase = "tx"
  BY DEF IInv, Basic, Commit
<1>1. Committed(t) = tx[t]
  <2>1. \A r \in Rows : Committed(t)[r] = tx[t][r]
    BY DEF Committed, Purge
  <2>2. Committed(t) \in Table /\ tx[t] \in Table
    BY <1>0, CommittedTable, Bounded
  <2>3. QED
    BY <2>1, <2>2 DEF Table
<1>2. /\ Cursor(t) \in Nat /\ Newest(mirror[t], {}) \in Nat
      /\ Cursor(t) <= Newest(mirror[t], {})
  BY <1>0, CursorFacts
<1>3. /\ Newest(tx[t], {}) \in Nat
      /\ \A r \in Rows : tx[t][r].updated <= Newest(tx[t], {})
  BY <1>0, Bounded, NewestIs
<1>4. Newest(mirror[t], {}) <= Newest(tx[t], {})
  <2>1. CASE Newest(mirror[t], {}) = 0
    BY <1>3, <2>1
  <2>2. CASE Newest(mirror[t], {}) # 0
    <3>1. PICK r \in Rows : mirror[t][r].updated = Newest(mirror[t], {})
      BY <1>0, <2>2, Bounded, NewestIs
    <3>2. Past(mirror[t][r], tx[t][r])
      BY <1>0 DEF IInv, ForwardOK
    <3>3. tx[t][r] \in Version /\ mirror[t][r] \in Version
      BY <1>0, Bounded DEF Table
    <3>4. mirror[t][r].updated <= tx[t][r].updated
      BY <3>2, <3>3 DEF Past, After, Version
    <3>5. QED
      BY <1>2, <1>3, <3>1, <3>3, <3>4 DEF Version
  <2>3. QED
    BY <2>1, <2>2
<1>5. mark'[t] \in Nat /\ (Cursor(t) # 0 => mark'[t] >= Cursor(t))
  <2>1. NextMark(t, Committed(t)) \in Nat /\ mark[t] \in Nat
    BY <1>0, CommittedTable, CursorFacts
  <2>2. Cursor(t) # 0 => NextMark(t, Committed(t)) >= Cursor(t)
    BY <1>0, <1>2, NextMarkFacts
  <2>3. QED
    BY <1>0, <1>2, <2>1, <2>2, CommitFacts
<1>6. Cursor(t)' = EffectiveCursor(Newest(tx[t], {}), mark'[t])
  BY <1>0, <1>1, CommitFacts DEF Cursor
<1>7. /\ tx[t] \in Table /\ now.updated \in Nat
      /\ \A r \in Rows : tx[t][r].updated <= now.updated
  BY <1>0, Bounded
<1>8. EffectiveCursor(Newest(tx[t], {}), mark'[t]) \in Nat
      /\ \/ EffectiveCursor(Newest(tx[t], {}), mark'[t]) = mark'[t] /\ mark'[t] # 0
         \/ EffectiveCursor(Newest(tx[t], {}), mark'[t]) = Newest(tx[t], {})
  BY <1>5, <1>7, CursorOfTable
<1>9. QED
  BY <1>2, <1>3, <1>4, <1>5, <1>6, <1>8

(* The cursor that the next cycle of a type starts from never moves back:    *)
(* newSyncCursor of what writeSyncWatermarks wrote.                          *)
THEOREM CursorOnlyForward == Spec => CursorMovesForward
<1>1. IInv /\ [Next]_vars => [\A t \in Types \ Purged : Cursor(t)' >= Cursor(t)]_vars
  <2>1. SUFFICES ASSUME IInv, Next, NEW t \in Types \ Purged
                 PROVE  Cursor(t)' >= Cursor(t)
    OBVIOUS
  <2>2. CASE Commit
    BY <2>1, <2>2, CursorForward
  <2>3. CASE UNCHANGED <<mirror, mark>>
    <3>1. Cursor(t)' = Cursor(t) /\ Cursor(t) \in Nat
      BY <2>1, <2>3, CursorKept, CursorFacts DEF IInv, Basic
    <3>2. QED
      BY <3>1
  <2>4. QED
    BY <2>1, <2>2, <2>3 DEF Next, Upstream, Fault, Progress, Change, RebuildCache, StartCycle,
       FetchSince, FetchSinceFails, FetchBare, FetchWindow, WindowFails, Upsert, Backfill, FailCycle
<1>2. QED
  BY <1>1, Inductive, PTL DEF Spec, CursorMovesForward
=============================================================================
