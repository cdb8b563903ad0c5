-------------------------- MODULE FkBackfillProofs --------------------------
(* Proofs about FkBackfill for every set of rows, every cap and batch size.  *)
EXTENDS FkBackfill, MaxMinFacts

(* A batch of at most room * BatchSize rows is at most room requests.        *)
LEMMA RequestsFit ==
  ASSUME NEW n \in Nat, NEW room \in Nat, n <= room * BatchSize
  PROVE  Requests(n) \in Nat /\ Requests(n) <= room
<1> DEFINE q == (n + BatchSize - 1) \div BatchSize
<1>1. BatchSize \in Nat /\ BatchSize >= 1
  BY BudgetAssumption
<1>2. n + BatchSize - 1 \in Nat
  BY <1>1
<1>3. q \in Nat /\ BatchSize * q <= n + BatchSize - 1
  BY <1>1, <1>2
<1>4. ASSUME q >= room + 1 PROVE FALSE
  <2>1. BatchSize * q >= BatchSize * (room + 1)
    BY <1>1, <1>3, <1>4
  <2>2. BatchSize * (room + 1) = room * BatchSize + BatchSize
    BY <1>1
  <2>. QED
    BY <1>1, <1>3, <2>1, <2>2
<1>. QED
  BY <1>3, <1>4 DEF Requests

Frames == [rows : SUBSET Keys, parents : SUBSET Keys]

(* A call leaves well-formed frames, never exceeds the cap, counts what it    *)
(* sends and asks only for rows that no call of the cycle tried before.       *)
LEMMA BatchFacts ==
  ASSUME TypeOK, count <= Cap, NEW below \in Seq(Frames), NEW ids \in SUBSET Keys,
         Batch(below, ids)
  PROVE  /\ stack' \in Seq(Frames)
         /\ tried' \subseteq Keys /\ tried \subseteq tried'
         /\ count' \in Nat /\ count' <= Cap
         /\ sent' \in Nat /\ (sent = count => sent' = count')
         /\ excused' \subseteq Keys
         /\ asked' \in [Keys -> Nat]
         /\ \A k \in Keys : \/ asked'[k] = asked[k]
                            \/ k \notin tried /\ k \in tried' /\ asked'[k] = asked[k] + 1
<1> DEFINE rest == Remaining(ids)
<1>1. rest \subseteq Keys /\ rest \cap tried = {}
  BY DEF Remaining
<1>2. CASE \/ rest = {} /\ stack' = below /\ UNCHANGED <<tried, count, asked, sent, excused>>
           \/ /\ tried' = tried \cup rest /\ excused' = excused \cup rest
              /\ stack' = below /\ UNCHANGED <<count, asked, sent>>
  BY <1>1, <1>2 DEF TypeOK
<1>3. ASSUME tried' = tried \cup rest,
             NEW fetch \in SUBSET rest,
             IsPrefix(fetch, rest, RequestsLeft * BatchSize),
             count' = count + Requests(Cardinality(fetch)),
             sent' = sent + (Cardinality(fetch) + BatchSize - 1) \div BatchSize,
             asked' = [k \in Keys |-> asked[k] + IF k \in fetch THEN 1 ELSE 0],
             \/ /\ stack' = Push(below, Frame(fetch \cap upstream, Grandparents(fetch \cap upstream)))
                /\ excused' = excused \cup (rest \ fetch)
             \/ stack' = below /\ excused' = excused \cup rest
      PROVE  /\ stack' \in Seq(Frames)
             /\ tried' \subseteq Keys /\ tried \subseteq tried'
             /\ count' \in Nat /\ count' <= Cap
             /\ sent' \in Nat /\ (sent = count => sent' = count')
             /\ excused' \subseteq Keys
             /\ asked' \in [Keys -> Nat]
             /\ \A k \in Keys : \/ asked'[k] = asked[k]
                                \/ k \notin tried /\ k \in tried' /\ asked'[k] = asked[k] + 1
  <2>1. Cardinality(fetch) \in Nat
    BY <1>1, RowsAssumption, FS_Subset, FS_CardinalityType
  <2>2. RequestsLeft \in Nat /\ count + RequestsLeft <= Cap
    BY BudgetAssumption DEF TypeOK, RequestsLeft
  <2>3. Requests(Cardinality(fetch)) \in Nat /\ Requests(Cardinality(fetch)) <= RequestsLeft
    BY <1>3, <2>1, <2>2, RequestsFit DEF IsPrefix
  <2>4. count' \in Nat /\ count' <= Cap
    BY <1>3, <2>2, <2>3, BudgetAssumption DEF TypeOK
  <2>5. sent' = sent + Requests(Cardinality(fetch))
    BY <1>3 DEF Requests
  <2>6. Grandparents(fetch \cap upstream) \subseteq Keys
    BY <1>1, RowsAssumption DEF Grandparents, Absent
  <2>7. Frame(fetch \cap upstream, Grandparents(fetch \cap upstream)) \in Frames
    BY <1>1, <2>6 DEF Frame, Frames
  <2>8. stack' \in Seq(Frames)
    BY <1>3, <2>7 DEF Push
  <2>9. asked' \in [Keys -> Nat]
    BY <1>3 DEF TypeOK
  <2>10. \A k \in Keys : \/ asked'[k] = asked[k]
                         \/ k \notin tried /\ k \in tried' /\ asked'[k] = asked[k] + 1
    BY <1>1, <1>3 DEF TypeOK
  <2>11. excused' \subseteq Keys
    BY <1>1, <1>3 DEF TypeOK
  <2>. QED
    BY <1>1, <1>3, <2>3, <2>4, <2>5, <2>8, <2>9, <2>10, <2>11 DEF TypeOK
<1>. QED
  BY <1>2, <1>3 DEF Batch

(* The innermost call and the calls below it are well-formed frames.         *)
LEMMA StackFacts ==
  ASSUME TypeOK, stack # <<>>
  PROVE  Top \in Frames /\ Below \in Seq(Frames)
<1>1. stack \in Seq(Frames) /\ Len(stack) \in Nat /\ Len(stack) # 0
  BY DEF TypeOK, Frames
<1>2. \A i \in 1..Len(stack) : stack[i] \in Frames
  BY <1>1
<1>3. SubSeq(stack, 1, Len(stack) - 1) \in Seq(Frames)
  BY <1>1
<1>. QED
  BY <1>1, <1>2, <1>3 DEF Top, Below

(* So is the call that a pre-pass makes.                                     *)
LEMMA PrefetchFacts ==
  ASSUME TypeOK, NEW parents \in SUBSET Keys
  PROVE  Prefetch(parents) \in Seq(Frames)
<1>1. <<>> \in Seq(Frames)
  OBVIOUS
<1>2. Frame({}, Absent(parents)) \in Frames
  BY DEF Frame, Frames, Absent
<1>3. Append(<<>>, Frame({}, Absent(parents))) \in Seq(Frames)
  BY <1>1, <1>2
<1>. QED
  BY <1>1, <1>3 DEF Prefetch, Push

(* What the calls of the cycle may still ask for: between cycles nothing was  *)
(* sent, in a cycle the count is what was sent, and a row that was asked for  *)
(* is in the tried set.                                                       *)
BudgetInv ==
    /\ TypeOK
    /\ count <= Cap
    /\ place \in {"idle", "type"} => stack = <<>>
    /\ place \in {"chunk", "rows"} => step <= Len(Steps)
    /\ place = "idle" => sent = 0 /\ \A k \in Keys : asked[k] = 0
    /\ place # "idle" => sent = count
    /\ \A k \in Keys : asked[k] = 0 \/ (asked[k] = 1 /\ k \in tried)

(* What the two callers of a batch leave unchanged.                          *)
LEMMA BatchKeepsBudget ==
  ASSUME BudgetInv, place \in {"chunk", "rows"}, NEW below \in Seq(Frames), NEW ids \in SUBSET Keys,
         Batch(below, ids),
         UNCHANGED <<db, tx, upstream, staged, replay, missing, late, cycles, nulled>>
  PROVE  BudgetInv'
<1>1. TypeOK /\ count <= Cap
  BY DEF BudgetInv
<1>2. /\ stack' \in Seq(Frames)
      /\ tried' \subseteq Keys /\ tried \subseteq tried'
      /\ count' \in Nat /\ count' <= Cap
      /\ sent' \in Nat /\ (sent = count => sent' = count')
      /\ excused' \subseteq Keys
      /\ asked' \in [Keys -> Nat]
      /\ \A k \in Keys : \/ asked'[k] = asked[k]
                         \/ k \notin tried /\ k \in tried' /\ asked'[k] = asked[k] + 1
  BY <1>1, BatchFacts
<1>3. TypeOK'
  BY <1>1, <1>2 DEF TypeOK, replay, Frames
<1>4. \A k \in Keys : asked'[k] = 0 \/ (asked'[k] = 1 /\ k \in tried')
  <2> SUFFICES ASSUME NEW k \in Keys PROVE asked'[k] = 0 \/ (asked'[k] = 1 /\ k \in tried')
    OBVIOUS
  <2>1. asked[k] \in Nat /\ (asked[k] = 0 \/ (asked[k] = 1 /\ k \in tried))
    BY <1>1 DEF BudgetInv, TypeOK
  <2>2. CASE asked'[k] = asked[k]
    BY <1>2, <2>1, <2>2
  <2>3. CASE k \notin tried /\ k \in tried' /\ asked'[k] = asked[k] + 1
    BY <2>1, <2>3
  <2>. QED
    BY <1>2, <2>2, <2>3
<1>. QED
  BY <1>2, <1>3, <1>4 DEF BudgetInv, replay, TypeOK

(* BudgetInv is inductive: every call of the recursion and of the filter goes *)
(* through the same tried set and the same count.                             *)
THEOREM BudgetInductive == Spec => []BudgetInv
<1>1. Init => BudgetInv
  <2> SUFFICES ASSUME Init PROVE BudgetInv
    OBVIOUS
  <2>1. stack \in Seq([rows : SUBSET Keys, parents : SUBSET Keys])
    BY DEF Init
  <2>2. Len(Steps) \in Nat
    BY RowsAssumption
  <2>3. asked \in [Keys -> Nat] /\ \A k \in Keys : asked[k] = 0
    BY DEF Init
  <2>4. step \in 1..(Len(Steps) + 1) /\ cycles \in 0..MaxCycles /\ count \in Nat /\ count <= Cap
    BY <2>2, BudgetAssumption DEF Init
  <2>5. TypeOK
    BY <2>1, <2>3, <2>4 DEF Init, TypeOK
  <2>. QED
    BY <2>3, <2>4, <2>5 DEF Init, BudgetInv
<1>2. ASSUME BudgetInv, [Next]_vars PROVE BudgetInv'
  <2>1. TypeOK
    BY <1>2 DEF BudgetInv
  <2>2. CASE StartCycle
    <3>1. staged' \subseteq Keys /\ upstream' \subseteq Keys /\ cycles' \in 0..MaxCycles
      BY <2>1, <2>2, BudgetAssumption DEF StartCycle, TypeOK
    <3>2. sent' = 0 /\ count' = 0 /\ \A k \in Keys : asked'[k] = 0
      BY <1>2, <2>2 DEF BudgetInv, StartCycle, ResetFKState, history
    <3>3. TypeOK'
      BY <2>1, <2>2, <3>1, <3>2 DEF TypeOK, StartCycle, ResetFKState, history
    <3>. QED
      BY <1>2, <2>2, <3>2, <3>3, BudgetAssumption DEF BudgetInv, StartCycle
  <2>3. CASE BeginType
    <3>1. UNION {Optional[k] : k \in StagedOf(Steps[step])} \subseteq Keys
      BY <2>1, RowsAssumption DEF TypeOK, StagedOf
    <3>2. stack' \in Seq(Frames)
      BY <2>1, <2>3, <3>1, PrefetchFacts DEF BeginType
    <3>. QED
      BY <1>2, <2>1, <2>3, <3>2 DEF BudgetInv, TypeOK, BeginType, StagedOf, budget, history, Frames
  <2>4. CASE BeginChunk
    <3>1. PICK rows \in SUBSET left :
            /\ chunk' = rows
            /\ left' = left \ rows
            /\ stack' = Prefetch(UNION {Required[r] : r \in rows})
      BY <2>4 DEF BeginChunk
    <3>2. stack' \in Seq(Frames)
      <4>1. UNION {Required[r] : r \in rows} \subseteq Keys
        BY <2>1, RowsAssumption DEF TypeOK
      <4>. QED
        BY <2>1, <3>1, <4>1, PrefetchFacts
    <3>. QED
      BY <1>2, <2>1, <2>4, <3>1, <3>2 DEF BudgetInv, TypeOK, BeginChunk, budget, history, Frames
  <2>5. CASE EndType
    BY <1>2, <2>1, <2>5 DEF BudgetInv, TypeOK, EndType, budget, history
  <2>6. CASE Recurse
    <3>1. PICK t \in {TypeOf(p) : p \in Top.parents} :
            Batch(Push(Below, Frame(Top.rows, Top.parents \ {p \in Top.parents : TypeOf(p) = t})),
                  {p \in Top.parents : TypeOf(p) = t})
      BY <2>6 DEF Recurse
    <3>2. Top \in Frames /\ Below \in Seq(Frames)
      BY <2>1, <2>6, StackFacts DEF Recurse
    <3>3. Push(Below, Frame(Top.rows, Top.parents \ {p \in Top.parents : TypeOf(p) = t})) \in Seq(Frames)
      BY <3>2 DEF Push, Frame, Frames
    <3>4. {p \in Top.parents : TypeOf(p) = t} \in SUBSET Keys
      BY <3>2 DEF Frames
    <3>5. place \in {"chunk", "rows"}
      BY <1>2, <2>6 DEF BudgetInv, TypeOK, Recurse
    <3>. QED
      BY <1>2, <2>6, <3>1, <3>3, <3>4, <3>5, BatchKeepsBudget DEF Recurse
  <2>7. CASE Land
    <3>1. Top \in Frames /\ Below \in Seq(Frames)
      BY <2>1, <2>7, StackFacts DEF Land
    <3>2. PICK bad \in SUBSET Top.rows :
            /\ tx' = tx \cup {r \in Top.rows \ bad : StoredReferences(r) \subseteq tx}
            /\ excused' = excused \cup bad
      BY <2>7 DEF Land
    <3>3. tx' \subseteq Keys /\ excused' \subseteq Keys
      BY <2>1, <3>1, <3>2 DEF TypeOK, Frames
    <3>. QED
      BY <1>2, <2>1, <2>7, <3>1, <3>3 DEF BudgetInv, TypeOK, Land, replay, budget, Frames
  <2>8. CASE \E r \in Keys : \E k \in Keys : CheckParent(r, k)
    <3>1. PICK r \in Keys, k \in Keys : CheckParent(r, k)
      BY <2>8
    <3>2. CASE k \notin tried /\ Batch(<<>>, {k}) /\ UNCHANGED missing
      <4>1. <<>> \in Seq(Frames) /\ {k} \in SUBSET Keys /\ place \in {"chunk", "rows"}
        BY <3>1 DEF CheckParent, NextRow
      <4>. QED
        BY <1>2, <3>1, <3>2, <4>1, BatchKeepsBudget DEF CheckParent
    <3>3. CASE /\ k \in tried
               /\ missing' = missing \cup {k}
               /\ UNCHANGED <<stack, tried, count, asked, sent, excused>>
      BY <1>2, <2>1, <3>1, <3>3 DEF BudgetInv, TypeOK, CheckParent, replay
    <3>. QED
      BY <3>1, <3>2, <3>3 DEF CheckParent
  <2>9. CASE \E r \in Keys : KeepRow(r)
    <3>1. PICK r \in Keys : KeepRow(r)
      BY <2>9
    <3>2. StoredReferences(r) \subseteq Keys /\ {<<r, p>> : p \in Absent(Optional[r])} \subseteq Keys \X Keys
      BY RowsAssumption DEF StoredReferences, Absent
    <3>3. kept' \subseteq Keys \X SUBSET Keys /\ nulled' \subseteq Keys \X Keys
      BY <2>1, <3>1, <3>2 DEF KeepRow, TypeOK
    <3>. QED
      BY <1>2, <2>1, <3>1, <3>3 DEF BudgetInv, TypeOK, KeepRow, budget
  <2>10. CASE \E r \in Keys : DropRow(r)
    BY <1>2, <2>1, <2>10 DEF BudgetInv, TypeOK, DropRow, budget, history
  <2>11. CASE UpsertChunk
    <3>1. {e[1] : e \in kept} \subseteq Keys
      BY <2>1 DEF TypeOK
    <3>. QED
      BY <1>2, <2>1, <2>11, <3>1 DEF BudgetInv, TypeOK, UpsertChunk, budget, history
  <2>12. CASE Commit
    BY <1>2, <2>1, <2>12 DEF BudgetInv, TypeOK, Commit, EndCycle, budget
  <2>13. CASE RollBack
    BY <1>2, <2>1, <2>13 DEF BudgetInv, TypeOK, RollBack, EndCycle, budget
  <2>14. CASE DeadlinePasses
    BY <1>2, <2>1, <2>14 DEF BudgetInv, TypeOK, DeadlinePasses, replay, history
  <2>15. CASE UNCHANGED vars
    BY <1>2, <2>1, <2>15 DEF BudgetInv, TypeOK, vars, replay, budget, history
  <2>. QED
    BY <1>2, <2>2, <2>3, <2>4, <2>5, <2>6, <2>7, <2>8, <2>9, <2>10, <2>11, <2>12, <2>13, <2>14,
       <2>15 DEF Next
<1>. QED
  BY <1>1, <1>2, PTL DEF Spec

(* The values of the variables, in every cycle and for every set of rows.    *)
THEOREM TypesHold == Spec => []TypeOK
<1>1. BudgetInv => TypeOK
  BY DEF BudgetInv
<1>. QED
  BY <1>1, BudgetInductive, PTL

(* However deep the recursion goes and whatever fails, no cycle sends more    *)
(* than Cap backfill requests or asks twice for the same row.                 *)
THEOREM RequestsAreBounded == Spec => []RequestBudget
<1>1. BudgetInv => RequestBudget
  <2> SUFFICES ASSUME BudgetInv PROVE RequestBudget
    OBVIOUS
  <2>1. sent <= Cap
    <3>1. CASE place = "idle"
      BY <3>1, BudgetAssumption DEF BudgetInv
    <3>2. CASE place # "idle"
      BY <3>2 DEF BudgetInv
    <3>. QED
      BY <3>1, <3>2
  <2>2. \A k \in Keys : asked[k] <= 1
    BY DEF BudgetInv
  <2>. QED
    BY <2>1, <2>2 DEF RequestBudget
<1>. QED
  BY <1>1, BudgetInductive, PTL

-----------------------------------------------------------------------------
(* Foreign keys: the transaction is closed under the required parents, and a *)
(* row that waits for the bulk upsert keeps the parents that it was kept for.*)
ReferenceInv ==
    /\ \A r \in db : Required[r] \subseteq db
    /\ \A r \in tx : Required[r] \subseteq tx
    /\ \A e \in kept : Required[e[1]] \subseteq e[2] /\ e[2] \subseteq tx

(* No statement of the sync transaction meets a foreign key violation: the    *)
(* reason why a missing parent costs a row and not the cycle.                 *)
THEOREM ReferencesHold == Spec => []NoDanglingReference
<1>1. Init => ReferenceInv
  BY DEF Init, ReferenceInv
<1>2. ASSUME ReferenceInv, [Next]_vars PROVE ReferenceInv'
  <2>1. CASE StartCycle \/ BeginType \/ BeginChunk \/ EndType
    BY <1>2, <2>1 DEF ReferenceInv, StartCycle, BeginType, BeginChunk, EndType
  <2>2. CASE Recurse \/ DeadlinePasses \/ UNCHANGED vars
    BY <1>2, <2>2 DEF ReferenceInv, Recurse, DeadlinePasses, replay, vars
  <2>3. CASE Land
    <3>1. PICK bad \in SUBSET Top.rows :
            tx' = tx \cup {r \in Top.rows \ bad : StoredReferences(r) \subseteq tx}
      BY <2>3 DEF Land
    <3>2. UNCHANGED <<db, kept>>
      BY <2>3 DEF Land, replay
    <3>. QED
      <4>1. \A r \in tx' : Required[r] \subseteq tx'
        BY <1>2, <3>1 DEF ReferenceInv, StoredReferences
      <4>2. \A e \in kept' : Required[e[1]] \subseteq e[2] /\ e[2] \subseteq tx'
        BY <1>2, <3>1, <3>2 DEF ReferenceInv
      <4>. QED
        BY <1>2, <3>2, <4>1, <4>2 DEF ReferenceInv
  <2>4. CASE \E r \in Keys : \E k \in Keys : CheckParent(r, k)
    BY <1>2, <2>4 DEF ReferenceInv, CheckParent, replay
  <2>5. CASE \E r \in Keys : KeepRow(r)
    <3>1. PICK r \in Keys : KeepRow(r)
      BY <2>5
    <3>2. Required[r] \subseteq StoredReferences(r) /\ StoredReferences(r) \subseteq tx
      BY <3>1 DEF KeepRow, AbsentRequired, Absent, StoredReferences
    <3>3. kept' = kept \cup {<<r, StoredReferences(r)>>} /\ UNCHANGED <<db, tx>>
      BY <3>1 DEF KeepRow
    <3>. QED
      BY <1>2, <3>2, <3>3 DEF ReferenceInv
  <2>6. CASE \E r \in Keys : DropRow(r)
    BY <1>2, <2>6 DEF ReferenceInv, DropRow
  <2>7. CASE UpsertChunk
    <3>1. tx' = tx \cup {e[1] : e \in kept} /\ kept' = {} /\ db' = db
      BY <2>7 DEF UpsertChunk
    <3>. QED
      BY <1>2, <3>1 DEF ReferenceInv
  <2>8. CASE Commit \/ RollBack
    BY <1>2, <2>8 DEF ReferenceInv, Commit, RollBack, EndCycle
  <2>. QED
    BY <1>2, <2>1, <2>2, <2>3, <2>4, <2>5, <2>6, <2>7, <2>8 DEF Next
<1>3. ReferenceInv => NoDanglingReference
  BY DEF ReferenceInv, NoDanglingReference
<1>. QED
  BY <1>1, <1>2, <1>3, PTL DEF Spec

-----------------------------------------------------------------------------
(* Losses. The rank of a row is the step of its type.                        *)
Rank(k) == Place(Steps, TypeOf(k))

(* The rows of a call are of one type, the parents that it still has to ask  *)
(* for are of earlier types, and so is all that the calls above it hold.     *)
RanksDescend(frames) ==
    /\ \A i \in DOMAIN frames :
          /\ \A k \in frames[i].rows \cup frames[i].parents : Rank(k) < step
          /\ \A r \in frames[i].rows :
                /\ \A k \in frames[i].rows : Rank(k) = Rank(r)
                /\ \A p \in frames[i].parents : Rank(p) < Rank(r)
    /\ \A i, j \in DOMAIN frames : i < j =>
          \A r \in frames[i].rows, k \in frames[j].rows \cup frames[j].parents :
              Rank(k) < Rank(r)

(* A call upserts its rows when each parent they need is there or was tried. *)
ParentsCovered(frames, known) ==
    \A i \in DOMAIN frames : \A r \in frames[i].rows : \A p \in Required[r] :
        p \in frames[i].parents \cup known

(* A row that a call of the recursion may still upsert.                      *)
Pending(k) == \E i \in DOMAIN stack : k \in stack[i].rows

(* A row that was asked for or given up, and that did not come.              *)
Settled(k) == k \in tried /\ k \notin tx /\ ~Pending(k)

(* Why a row that was tried is not there.                                    *)
Reason(k) ==
    \/ k \notin upstream
    \/ k \in excused
    \/ \E p \in Required[k] \ tx : Settled(p)
TriedHaveReasons == \A k \in tried : Rank(k) < step /\ (Settled(k) => Reason(k))

(* Where the staged rows are on their way into the transaction.              *)
RowsInPlace ==
    /\ \A k \in left \cup chunk : Rank(k) = step
    /\ \A e \in kept : Rank(e[1]) = step
    /\ place # "rows" => chunk = {} /\ kept = {}
    /\ place = "type" => left = {}
OnItsWay(r) ==
    \/ Rank(r) > step
    \/ place = "type" /\ Rank(r) = step
    \/ r \in left \cup chunk
    \/ \E e \in kept : e[1] = r
    \/ r \in tx
ParentSettled(r) == \E p \in Required[r] \ tx : Settled(p)
StagedAccounted == \A r \in staged : OnItsWay(r) \/ ParentSettled(r)
NulledAccounted == \A e \in nulled : Settled(e[2])

(* In a cycle every loss so far has a reason. Between cycles there is none.  *)
CycleLossInv ==
    /\ RanksDescend(stack)
    /\ ParentsCovered(stack, tx \cup tried)
    /\ TriedHaveReasons
    /\ RowsInPlace
    /\ Cap > 0 => StagedAccounted /\ NulledAccounted
LossInv ==
    /\ place = "idle" => /\ stack = <<>> /\ step = 1
                         /\ left = {} /\ chunk = {} /\ kept = {} /\ nulled = {}
    /\ place # "idle" => CycleLossInv

(* Each type has one step, and the parents of a row have earlier ones.       *)
LEMMA RankFacts ==
  /\ Len(Steps) \in Nat
  /\ \A k \in Keys : Rank(k) \in 1..Len(Steps)
  /\ \A k \in Keys, i \in 1..Len(Steps) : Steps[i] = TypeOf(k) <=> Rank(k) = i
  /\ \A k \in Keys : \A p \in Required[k] \cup Optional[k] : p \in Keys /\ Rank(p) < Rank(k)
<1>1. Len(Steps) \in Nat /\ DOMAIN Steps = 1..Len(Steps)
  BY RowsAssumption
<1>2. \A k \in Keys : Rank(k) \in DOMAIN Steps /\ Steps[Rank(k)] = TypeOf(k)
  <2> SUFFICES ASSUME NEW k \in Keys PROVE Rank(k) \in DOMAIN Steps /\ Steps[Rank(k)] = TypeOf(k)
    OBVIOUS
  <2>1. \E i \in DOMAIN Steps : Steps[i] = TypeOf(k)
    BY RowsAssumption
  <2>. QED
    BY <2>1 DEF Rank, Place
<1>3. \A i, j \in DOMAIN Steps : Steps[i] = Steps[j] => i = j
  BY RowsAssumption
<1>4. \A k \in Keys, i \in 1..Len(Steps) : Steps[i] = TypeOf(k) <=> Rank(k) = i
  BY <1>1, <1>2, <1>3
<1>5. \A k \in Keys : \A p \in Required[k] \cup Optional[k] : p \in Keys /\ Rank(p) < Rank(k)
  BY RowsAssumption DEF Rank
<1>. QED
  BY <1>1, <1>2, <1>4, <1>5

(* What a call on top of others adds to them.                                *)
LEMMA PushFacts ==
  ASSUME NEW below \in Seq(Frames), NEW f \in Frames
  PROVE  /\ Len(below) \in Nat
         /\ DOMAIN below = 1..Len(below)
         /\ DOMAIN Push(below, f) = 1..(Len(below) + 1)
         /\ Push(below, f) \in Seq(Frames)
         /\ \A i \in 1..Len(below) : Push(below, f)[i] = below[i]
         /\ Push(below, f)[Len(below) + 1] = f
BY DEF Push

(* The calls below the innermost one.                                        *)
LEMMA BelowFacts ==
  ASSUME TypeOK, stack # <<>>
  PROVE  /\ Len(stack) \in Nat \ {0}
         /\ DOMAIN stack = 1..Len(stack)
         /\ Below \in Seq(Frames) /\ Len(Below) = Len(stack) - 1
         /\ DOMAIN Below = 1..(Len(stack) - 1)
         /\ \A i \in 1..(Len(stack) - 1) : Below[i] = stack[i]
         /\ Top \in Frames /\ Top = stack[Len(stack)]
<1>1. stack \in Seq(Frames) /\ Len(stack) \in Nat \ {0} /\ DOMAIN stack = 1..Len(stack)
  BY DEF TypeOK, Frames
<1>2. Len(stack) - 1 \in Nat /\ Len(stack) - 1 <= Len(stack)
  BY <1>1
<1>3. /\ SubSeq(stack, 1, Len(stack) - 1) \in Seq(Frames)
      /\ Len(SubSeq(stack, 1, Len(stack) - 1)) = Len(stack) - 1
      /\ \A i \in 1..(Len(stack) - 1) : SubSeq(stack, 1, Len(stack) - 1)[i] = stack[i]
  BY <1>1, <1>2
<1>4. DOMAIN Below = 1..(Len(stack) - 1)
  BY <1>3 DEF Below
<1>. QED
  BY <1>1, <1>3, <1>4, StackFacts DEF Top, Below

(* A call whose rows and parents rank below all rows under it.               *)
LEMMA PushRanks ==
  ASSUME NEW below \in Seq(Frames), NEW f \in Frames, RanksDescend(below),
         \A k \in f.rows \cup f.parents : Rank(k) < step,
         \A r, k \in f.rows : Rank(k) = Rank(r),
         \A r \in f.rows, p \in f.parents : Rank(p) < Rank(r),
         \A i \in DOMAIN below : \A r \in below[i].rows, k \in f.rows \cup f.parents :
             Rank(k) < Rank(r)
  PROVE  RanksDescend(Push(below, f))
<1> DEFINE all == Push(below, f)
<1> DEFINE n == Len(below)
<1>1. /\ n \in Nat /\ DOMAIN below = 1..n /\ DOMAIN all = 1..(n + 1)
      /\ \A i \in 1..n : all[i] = below[i]
      /\ all[n + 1] = f
  BY PushFacts
<1>2. \A i \in 1..(n + 1) : i \in 1..n \/ i = n + 1
  BY <1>1
<1>3. ASSUME NEW i \in DOMAIN all
      PROVE  /\ \A k \in all[i].rows \cup all[i].parents : Rank(k) < step
             /\ \A r \in all[i].rows : /\ \A k \in all[i].rows : Rank(k) = Rank(r)
                                       /\ \A p \in all[i].parents : Rank(p) < Rank(r)
  <2>1. CASE i \in 1..n
    BY <1>1, <2>1 DEF RanksDescend
  <2>2. CASE i = n + 1
    BY <1>1, <2>2
  <2>. QED
    BY <1>1, <1>2, <1>3, <2>1, <2>2
<1>4. ASSUME NEW i \in DOMAIN all, NEW j \in DOMAIN all, i < j
      PROVE  \A r \in all[i].rows, k \in all[j].rows \cup all[j].parents : Rank(k) < Rank(r)
  <2>1. i \in 1..n
    BY <1>1, <1>4
  <2>2. CASE j \in 1..n
    BY <1>1, <1>4, <2>1, <2>2 DEF RanksDescend
  <2>3. CASE j = n + 1
    BY <1>1, <2>1, <2>3
  <2>. QED
    BY <1>1, <1>2, <1>4, <2>2, <2>3
<1>. QED
  BY <1>3, <1>4 DEF RanksDescend

(* A row that is settled stays so when nothing that a call may still upsert   *)
(* comes to hold it and nothing stores it, and its reason stays one too.     *)
LEMMA ReasonsStay ==
  ASSUME upstream' = upstream, excused \subseteq excused', tried \subseteq tried',
         \A k \in tried : Settled(k) => k \notin tx' /\ ~Pending(k)'
  PROVE  /\ \A k : Settled(k) => Settled(k)'
         /\ \A k : Reason(k) => Reason(k)'
         /\ \A r : ParentSettled(r) => ParentSettled(r)'
<1>1. \A k : Settled(k) => Settled(k)'
  BY DEF Settled
<1>2. \A k : Settled(k)' => k \notin tx'
  BY DEF Settled
<1>3. \A k : (\E p \in Required[k] \ tx : Settled(p)) => (\E p \in Required[k] \ tx' : Settled(p)')
  BY <1>1, <1>2
<1>. QED
  BY <1>1, <1>3 DEF Reason, ParentSettled

(* A call of fkBackfillBatch for parents of one type: what it tries and does  *)
(* not fetch is excused, what upstream does not return is gone, and the rest  *)
(* are the rows of the call on top.                                          *)
LEMMA BatchKeepsLosses ==
  ASSUME TypeOK, CycleLossInv, place \in {"chunk", "rows"},
         NEW below \in Seq(Frames), NEW ids \in SUBSET Keys, Batch(below, ids),
         UNCHANGED <<db, tx, upstream, staged, replay, missing, late, cycles, nulled>>,
         RanksDescend(below), ParentsCovered(below, tx \cup tried \cup ids),
         \A k, p \in ids : Rank(k) = Rank(p) /\ Rank(k) < step,
         \A i \in DOMAIN below : \A r \in below[i].rows, k \in ids : Rank(k) < Rank(r),
         \A k : Pending(k) <=> \E i \in DOMAIN below : k \in below[i].rows
  PROVE  CycleLossInv'
<1> DEFINE rest == Remaining(ids)
<1> DEFINE front(fetch) == Frame(fetch \cap upstream, Grandparents(fetch \cap upstream))
<1>1. /\ rest \subseteq ids /\ rest \cap tried = {} /\ ids \subseteq rest \cup tried
      /\ tx' = tx /\ upstream' = upstream /\ staged' = staged /\ nulled' = nulled
      /\ step' = step /\ place' = place /\ left' = left /\ chunk' = chunk /\ kept' = kept
  BY DEF Remaining, replay
<1>2. PICK fetch \in SUBSET rest :
        \/ stack' = below /\ excused \subseteq excused' /\ rest \subseteq excused'
        \/ /\ stack' = Push(below, front(fetch))
           /\ excused \subseteq excused' /\ rest \ fetch \subseteq excused'
  BY DEF Batch
<1>3. tried' = tried \cup rest
  BY <1>1 DEF Batch
<1>4. front(fetch).rows = fetch \cap upstream
      /\ front(fetch).parents = Grandparents(fetch \cap upstream)
  BY DEF Frame
<1>5. \A p \in front(fetch).parents : \E r \in fetch \cap upstream : p \in Required[r]
  BY <1>4 DEF Grandparents, Absent
<1>6. \A r \in fetch \cap upstream : r \in Keys /\ r \in ids
      /\ \A p \in Required[r] : p \in tx \cup front(fetch).parents
  BY <1>1, <1>4 DEF Grandparents, Absent
<1>7. front(fetch) \in Frames
  BY <1>4, <1>5, <1>6, RowsAssumption DEF Frame, Frames
<1> HIDE DEF rest, front
<1>8. /\ Len(below) \in Nat /\ DOMAIN below = 1..Len(below)
      /\ DOMAIN Push(below, front(fetch)) = 1..(Len(below) + 1)
      /\ \A i \in 1..Len(below) : Push(below, front(fetch))[i] = below[i]
      /\ Push(below, front(fetch))[Len(below) + 1] = front(fetch)
  BY <1>7, PushFacts
<1>9. RanksDescend(Push(below, front(fetch)))
  <2>1. \A k \in Keys : Rank(k) \in Nat
    BY RankFacts
  <2>2. \A r \in front(fetch).rows : r \in ids /\ r \in Keys
    BY <1>4, <1>6
  <2>3. \A p \in front(fetch).parents : p \in Keys /\ \E r \in ids : Rank(p) < Rank(r)
    BY <1>5, <1>6, RankFacts
  <2>4. \A r, k \in front(fetch).rows : Rank(k) = Rank(r)
    BY <2>2
  <2>5. \A r \in front(fetch).rows, p \in front(fetch).parents : Rank(p) < Rank(r)
    BY <2>2, <2>3
  <2>6. step \in Nat
    BY RankFacts DEF TypeOK
  <2>7. \A k \in front(fetch).rows \cup front(fetch).parents : Rank(k) < step
    <3>1. \A k \in front(fetch).parents : Rank(k) < step
      BY <2>1, <2>3, <2>6
    <3>. QED
      BY <2>2, <3>1
  <2>8. \A i \in DOMAIN below : \A r \in below[i].rows :
            r \in Keys /\ \A k \in front(fetch).rows \cup front(fetch).parents : Rank(k) < Rank(r)
    <3> SUFFICES ASSUME NEW i \in DOMAIN below, NEW r \in below[i].rows
                 PROVE  r \in Keys /\ \A k \in front(fetch).rows \cup front(fetch).parents :
                                          Rank(k) < Rank(r)
      OBVIOUS
    <3>1. r \in Keys
      <4>1. below[i] \in Frames
        OBVIOUS
      <4>. QED
        BY <4>1 DEF Frames
    <3>2. \A k \in ids : Rank(k) < Rank(r)
      OBVIOUS
    <3>3. \A k \in front(fetch).parents : Rank(k) < Rank(r)
      BY <2>1, <2>3, <3>1, <3>2
    <3>. QED
      BY <2>2, <3>1, <3>2, <3>3
  <2>. QED
    BY <1>7, <2>4, <2>5, <2>7, <2>8, PushRanks
<1>10. RanksDescend(stack)'
  <2>1. RanksDescend(stack')
    BY <1>2, <1>9
  <2>. QED
    BY <1>1, <2>1 DEF RanksDescend
<1>11. ParentsCovered(stack', tx \cup tried')
  <2>1. tx \cup tried \cup ids \subseteq tx \cup tried'
    BY <1>1, <1>3
  <2>2. ParentsCovered(below, tx \cup tried')
    BY <2>1 DEF ParentsCovered
  <2>3. CASE stack' = below
    BY <2>2, <2>3
  <2>4. CASE stack' = Push(below, front(fetch))
    <3> SUFFICES ASSUME NEW i \in DOMAIN stack', NEW r \in stack'[i].rows, NEW p \in Required[r]
                 PROVE  p \in stack'[i].parents \cup tx \cup tried'
      BY DEF ParentsCovered
    <3>1. CASE i \in 1..Len(below)
      BY <1>8, <2>2, <2>4, <3>1 DEF ParentsCovered
    <3>2. CASE i = Len(below) + 1
      BY <1>4, <1>6, <1>8, <2>4, <3>2
    <3>. QED
      BY <1>8, <2>4, <3>1, <3>2
  <2>. QED
    BY <1>2, <2>3, <2>4
<1>12. \A k : Pending(k)' <=> \/ Pending(k)
                              \/ stack' = Push(below, front(fetch)) /\ k \in fetch \cap upstream
  <2>1. CASE stack' = Push(below, front(fetch))
    <3>1. DOMAIN stack' = 1..(Len(below) + 1) /\ DOMAIN below = 1..Len(below)
      BY <1>8, <2>1
    <3>2. \A k : Pending(k)' <=> (\E i \in DOMAIN below : k \in below[i].rows)
                                  \/ k \in fetch \cap upstream
      <4>1. \A k : Pending(k)' <=> \E i \in 1..(Len(below) + 1) : k \in stack'[i].rows
        BY <3>1 DEF Pending
      <4>2. \A i \in 1..Len(below) : stack'[i] = below[i] /\ i \in 1..(Len(below) + 1)
        BY <1>8, <2>1
      <4>3. stack'[Len(below) + 1].rows = fetch \cap upstream /\ Len(below) + 1 \in 1..(Len(below) + 1)
        BY <1>4, <1>8, <2>1
      <4>4. \A i \in 1..(Len(below) + 1) : i \in 1..Len(below) \/ i = Len(below) + 1
        BY <1>8
      <4>. QED
        BY <3>1, <4>1, <4>2, <4>3, <4>4
    <3>. QED
      BY <2>1, <3>2
  <2>2. CASE stack' = below /\ stack' # Push(below, front(fetch))
    BY <2>2 DEF Pending
  <2>. QED
    BY <1>2, <2>1, <2>2
<1>13. /\ \A k : Settled(k) => Settled(k)'
       /\ \A k : Reason(k) => Reason(k)'
       /\ \A r : ParentSettled(r) => ParentSettled(r)'
  <2>1. \A k \in tried : Settled(k) => k \notin tx' /\ ~Pending(k)'
    BY <1>1, <1>12 DEF Settled
  <2>2. excused \subseteq excused' /\ tried \subseteq tried'
    BY <1>2, <1>3
  <2>. QED
    BY <1>1, <2>1, <2>2, ReasonsStay
<1>14. TriedHaveReasons'
  <2> SUFFICES ASSUME NEW k \in tried' PROVE Rank(k) < step /\ (Settled(k)' => Reason(k)')
    BY <1>1 DEF TriedHaveReasons
  <2>1. CASE k \in tried
    <3>1. Settled(k)' => Settled(k)
      BY <1>1, <1>12, <2>1 DEF Settled
    <3>. QED
      BY <1>13, <2>1, <3>1 DEF CycleLossInv, TriedHaveReasons
  <2>2. CASE k \in rest
    <3>1. Rank(k) < step
      BY <1>1, <2>2
    <3>2. k \in excused' \/ (k \in fetch /\ stack' = Push(below, front(fetch)))
      BY <1>2, <2>2
    <3>3. ASSUME Settled(k)' PROVE Reason(k)'
      <4>1. ~Pending(k)'
        BY <3>3 DEF Settled
      <4>2. k \in excused' \/ k \notin upstream
        BY <1>12, <3>2, <4>1
      <4>. QED
        BY <1>1, <4>2 DEF Reason
    <3>. QED
      BY <3>1, <3>3
  <2>. QED
    BY <1>3, <2>1, <2>2
<1>15. RowsInPlace'
  BY <1>1 DEF CycleLossInv, RowsInPlace
<1>16. Cap > 0 => StagedAccounted' /\ NulledAccounted'
  BY <1>1, <1>13 DEF CycleLossInv, StagedAccounted, NulledAccounted, OnItsWay
<1>. QED
  BY <1>1, <1>10, <1>11, <1>14, <1>15, <1>16 DEF CycleLossInv

(* The call of a pre-pass lands no rows, and asks for rows of earlier steps. *)
LEMMA PrefetchLosses ==
  ASSUME NEW parents \in SUBSET Keys, \A p \in parents : Rank(p) < step
  PROVE  /\ RanksDescend(Prefetch(parents))
         /\ \A known : ParentsCovered(Prefetch(parents), known)
         /\ \A i \in DOMAIN Prefetch(parents) : Prefetch(parents)[i].rows = {}
<1>1. CASE Cap > 0
  <2> DEFINE f == Frame({}, Absent(parents))
  <2>1. f \in Frames /\ f.rows = {} /\ f.parents = Absent(parents)
    BY DEF Frame, Frames, Absent
  <2>2. /\ DOMAIN Prefetch(parents) = 1..1
        /\ Prefetch(parents)[1] = f
    BY <1>1 DEF Prefetch, Push
  <2> HIDE DEF f
  <2>3. \A i \in DOMAIN Prefetch(parents) : i = 1
    BY <2>2
  <2>4. \A p \in f.parents : Rank(p) < step
    BY <2>1 DEF Absent
  <2>. QED
    BY <2>1, <2>2, <2>3, <2>4 DEF RanksDescend, ParentsCovered
<1>2. CASE ~(Cap > 0)
  <2>1. Prefetch(parents) = <<>> /\ DOMAIN <<>> = {}
    BY <1>2 DEF Prefetch
  <2>. QED
    BY <2>1 DEF RanksDescend, ParentsCovered
<1>. QED
  BY <1>1, <1>2

(* A step that starts a pre-pass or ends the work on a type or a chunk: no    *)
(* call is running before it, and none that lands rows after it.             *)
LEMMA QuietStepKeepsReasons ==
  ASSUME CycleLossInv, stack = <<>>, \A i \in DOMAIN stack' : stack'[i].rows = {},
         UNCHANGED <<tx, upstream, tried, excused>>, TypeOK, TypeOK', step <= step'
  PROVE  /\ TriedHaveReasons'
         /\ \A k : Settled(k) => Settled(k)'
         /\ \A r : ParentSettled(r) => ParentSettled(r)'
<1>1. \A k : ~Pending(k) /\ ~Pending(k)'
  BY DEF Pending
<1>2. /\ \A k : Settled(k) => Settled(k)'
      /\ \A k : Reason(k) => Reason(k)'
      /\ \A r : ParentSettled(r) => ParentSettled(r)'
  BY <1>1, ReasonsStay DEF Settled
<1>3. \A k : Settled(k)' => Settled(k)
  BY <1>1 DEF Settled
<1>4. \A k \in tried : Rank(k) \in Int
  BY RankFacts DEF TypeOK
<1>5. step \in Int /\ step' \in Int
  BY RankFacts DEF TypeOK
<1>. QED
  BY <1>2, <1>3, <1>4, <1>5 DEF CycleLossInv, TriedHaveReasons

(* The rows of a chunk and of a type are those of the current step.          *)
LEMMA BeginKeepsLosses ==
  ASSUME TypeOK, TypeOK', BudgetInv, CycleLossInv, BeginType \/ BeginChunk
  PROVE  CycleLossInv'
<1>1. CASE BeginType
  <2> DEFINE rows == StagedOf(Steps[step])
  <2> DEFINE parents == UNION {Optional[k] : k \in rows}
  <2>1. stack = <<>> /\ step \in 1..Len(Steps)
    BY <1>1, RankFacts DEF BeginType, BudgetInv, TypeOK
  <2>2. \A k \in Keys : TypeOf(k) = Steps[step] <=> Rank(k) = step
    BY <2>1, RankFacts
  <2>3. rows = {k \in staged : Rank(k) = step} /\ rows \subseteq Keys
    BY <2>2 DEF StagedOf, TypeOK
  <2>4. parents \in SUBSET Keys /\ \A p \in parents : Rank(p) < step
    BY <2>3, RankFacts
  <2>5. stack' = Prefetch(parents) \/ stack' = <<>>
    BY <1>1 DEF BeginType
  <2> HIDE DEF rows, parents
  <2>6. /\ \A i \in DOMAIN stack' : stack'[i].rows = {}
        /\ RanksDescend(stack') /\ ParentsCovered(stack', tx \cup tried)
    <3>1. CASE stack' = Prefetch(parents)
      BY <2>4, <3>1, PrefetchLosses
    <3>2. CASE stack' = <<>>
      BY <3>2 DEF RanksDescend, ParentsCovered
    <3>. QED
      BY <2>5, <3>1, <3>2
  <2>7. /\ UNCHANGED <<tx, upstream, staged, tried, excused, nulled, step, chunk, kept>>
        /\ left' = rows /\ place = "type" /\ place' = "chunk"
    BY <1>1 DEF BeginType, budget, history, rows
  <2>8. /\ TriedHaveReasons' /\ \A k : Settled(k) => Settled(k)'
        /\ \A r : ParentSettled(r) => ParentSettled(r)'
    BY <2>1, <2>6, <2>7, QuietStepKeepsReasons
  <2>9. RowsInPlace'
    BY <2>3, <2>7 DEF CycleLossInv, RowsInPlace
  <2>10. \A r \in staged : OnItsWay(r) => OnItsWay(r)'
    <3>1. left = {}
      BY <2>7 DEF CycleLossInv, RowsInPlace
    <3>. QED
      BY <2>3, <2>7, <3>1 DEF OnItsWay
  <2>11. Cap > 0 => StagedAccounted' /\ NulledAccounted'
    BY <2>7, <2>8, <2>10 DEF CycleLossInv, StagedAccounted, NulledAccounted
  <2>12. RanksDescend(stack)' /\ ParentsCovered(stack, tx \cup tried)'
    BY <2>6, <2>7 DEF RanksDescend, ParentsCovered
  <2>. QED
    BY <2>8, <2>9, <2>11, <2>12 DEF CycleLossInv
<1>2. CASE BeginChunk
  <2>1. PICK rows \in SUBSET left :
            /\ chunk' = rows
            /\ left' = left \ rows
            /\ stack' = Prefetch(UNION {Required[r] : r \in rows})
    BY <1>2 DEF BeginChunk
  <2> DEFINE parents == UNION {Required[r] : r \in rows}
  <2>2. /\ UNCHANGED <<tx, upstream, staged, tried, excused, nulled, step, kept>>
        /\ stack = <<>> /\ place = "chunk" /\ place' = "rows" /\ chunk = {} /\ kept = {}
    BY <1>2 DEF BeginChunk, budget, history, CycleLossInv, RowsInPlace
  <2>3. \A r \in rows : r \in Keys /\ Rank(r) = step
    BY <2>1 DEF TypeOK, CycleLossInv, RowsInPlace
  <2>4. parents \in SUBSET Keys /\ \A p \in parents : Rank(p) < step
    BY <2>3, RankFacts
  <2> HIDE DEF parents
  <2>5. /\ \A i \in DOMAIN stack' : stack'[i].rows = {}
        /\ RanksDescend(stack') /\ ParentsCovered(stack', tx \cup tried)
    BY <2>1, <2>4, PrefetchLosses DEF parents
  <2>6. step' = step /\ step \in Int
    BY <2>2, RankFacts DEF TypeOK
  <2>7. /\ TriedHaveReasons' /\ \A k : Settled(k) => Settled(k)'
        /\ \A r : ParentSettled(r) => ParentSettled(r)'
    BY <2>2, <2>5, <2>6, QuietStepKeepsReasons
  <2>8. RowsInPlace'
    BY <2>1, <2>2, <2>3 DEF CycleLossInv, RowsInPlace
  <2>9. \A r \in staged : OnItsWay(r) => OnItsWay(r)'
    BY <2>1, <2>2 DEF OnItsWay
  <2>10. Cap > 0 => StagedAccounted' /\ NulledAccounted'
    BY <2>2, <2>7, <2>9 DEF CycleLossInv, StagedAccounted, NulledAccounted
  <2>11. RanksDescend(stack)' /\ ParentsCovered(stack, tx \cup tried)'
    BY <2>2, <2>5 DEF RanksDescend, ParentsCovered
  <2>. QED
    BY <2>7, <2>8, <2>10, <2>11 DEF CycleLossInv
<1>. QED
  BY <1>1, <1>2

(* A type ends when all its rows went through a chunk.                       *)
LEMMA EndTypeKeepsLosses ==
  ASSUME TypeOK, TypeOK', CycleLossInv, EndType
  PROVE  CycleLossInv'
<1>1. /\ UNCHANGED <<tx, upstream, staged, tried, excused, nulled, stack>>
      /\ left' = {} /\ chunk' = {} /\ kept' = {} /\ stack = <<>> /\ chunk = {} /\ kept = {}
      /\ left = {} /\ step' = step + 1 /\ place' = "type" /\ place = "chunk"
  BY DEF EndType, budget, history, CycleLossInv, RowsInPlace
<1>2. step \in Int /\ \A k \in Keys : Rank(k) \in Int
  BY RankFacts DEF TypeOK
<1>3. /\ TriedHaveReasons' /\ \A k : Settled(k) => Settled(k)'
      /\ \A r : ParentSettled(r) => ParentSettled(r)'
  BY <1>1, <1>2, QuietStepKeepsReasons
<1>4. RanksDescend(stack)' /\ ParentsCovered(stack, tx \cup tried)'
  BY <1>1 DEF RanksDescend, ParentsCovered
<1>5. \A r \in staged : OnItsWay(r) => OnItsWay(r)'
  BY <1>1, <1>2 DEF OnItsWay, TypeOK
<1>6. Cap > 0 => StagedAccounted' /\ NulledAccounted'
  BY <1>1, <1>3, <1>5 DEF CycleLossInv, StagedAccounted, NulledAccounted
<1>7. RowsInPlace'
  BY <1>1 DEF RowsInPlace
<1>. QED
  BY <1>3, <1>4, <1>6, <1>7 DEF CycleLossInv

(* The two callers of a batch: the next parent type of the innermost call,   *)
(* and the filter for one parent of the current row.                         *)
LEMMA RecurseKeepsLosses ==
  ASSUME BudgetInv, CycleLossInv, Recurse
  PROVE  CycleLossInv'
<1>0. TypeOK
  BY DEF BudgetInv
<1>1. PICK t \in {TypeOf(p) : p \in Top.parents} :
        Batch(Push(Below, Frame(Top.rows, Top.parents \ {p \in Top.parents : TypeOf(p) = t})),
              {p \in Top.parents : TypeOf(p) = t})
  BY DEF Recurse
<1> DEFINE ids == {p \in Top.parents : TypeOf(p) = t}
<1> DEFINE f == Frame(Top.rows, Top.parents \ ids)
<1> DEFINE below == Push(Below, f)
<1> DEFINE n == Len(stack)
<1>2. /\ n \in Nat \ {0} /\ DOMAIN stack = 1..n
      /\ Below \in Seq(Frames) /\ Len(Below) = n - 1 /\ DOMAIN Below = 1..(n - 1)
      /\ \A i \in 1..(n - 1) : Below[i] = stack[i]
      /\ Top \in Frames /\ Top = stack[n]
  BY <1>0, BelowFacts DEF Recurse
<1>3. f \in Frames /\ f.rows = Top.rows /\ f.parents = Top.parents \ ids
  BY <1>2 DEF Frame, Frames
<1>4. ids \in SUBSET Keys /\ ids \subseteq Top.parents
  BY <1>2 DEF Frames
<1> HIDE DEF f
<1>5. /\ below \in Seq(Frames) /\ DOMAIN below = 1..n
      /\ \A i \in 1..(n - 1) : below[i] = stack[i]
      /\ below[n] = f
  <2>1. /\ Len(Below) \in Nat /\ DOMAIN Push(Below, f) = 1..(Len(Below) + 1)
        /\ Push(Below, f) \in Seq(Frames)
        /\ \A i \in 1..Len(Below) : Push(Below, f)[i] = Below[i]
        /\ Push(Below, f)[Len(Below) + 1] = f
    BY <1>2, <1>3, PushFacts
  <2>2. Len(Below) + 1 = n
    BY <1>2
  <2>. QED
    BY <1>2, <2>1, <2>2
<1>6. n \in 1..n /\ n \in DOMAIN stack /\ \A i \in 1..n : i = n \/ (i \in 1..(n - 1) /\ i < n)
  <2>1. n \in Nat \ {0}
    BY <1>2
  <2> HIDE DEF n
  <2>2. n \in 1..n /\ \A i \in 1..n : i = n \/ (i \in 1..(n - 1) /\ i < n)
    BY <2>1
  <2>. QED
    BY <1>2, <2>2
<1>7. RanksDescend(stack)
  BY DEF CycleLossInv
<1>8. RanksDescend(Below)
  BY <1>2, <1>7 DEF RanksDescend
<1>9. /\ \A k \in f.rows \cup f.parents : Rank(k) < step
      /\ \A r, k \in f.rows : Rank(k) = Rank(r)
      /\ \A r \in f.rows, p \in f.parents : Rank(p) < Rank(r)
  BY <1>2, <1>3, <1>6, <1>7 DEF RanksDescend
<1>10. \A i \in DOMAIN Below : \A r \in Below[i].rows, k \in Top.rows \cup Top.parents :
           Rank(k) < Rank(r)
  <2> SUFFICES ASSUME NEW i \in DOMAIN Below
               PROVE  \A r \in Below[i].rows, k \in Top.rows \cup Top.parents : Rank(k) < Rank(r)
    OBVIOUS
  <2>1. i \in DOMAIN stack /\ i < n /\ Below[i] = stack[i]
    BY <1>2
  <2>. QED
    BY <1>2, <1>6, <1>7, <2>1 DEF RanksDescend
<1>11. RanksDescend(below)
  BY <1>2, <1>3, <1>8, <1>9, <1>10, PushRanks
<1>12. ParentsCovered(below, tx \cup tried \cup ids)
  <2> SUFFICES ASSUME NEW i \in 1..n, NEW r \in below[i].rows, NEW p \in Required[r]
               PROVE  p \in below[i].parents \cup (tx \cup tried \cup ids)
    BY <1>5 DEF ParentsCovered
  <2>1. \A j \in DOMAIN stack : \A q \in stack[j].rows : \A u \in Required[q] :
            u \in stack[j].parents \cup (tx \cup tried)
    BY DEF CycleLossInv, ParentsCovered
  <2>2. CASE i = n
    <3>1. r \in stack[n].rows /\ below[n].parents = stack[n].parents \ ids
      BY <1>2, <1>3, <1>5, <2>2
    <3>. QED
      BY <1>6, <2>1, <2>2, <3>1
  <2>3. CASE i \in 1..(n - 1)
    BY <1>2, <1>5, <2>1, <2>3
  <2>. QED
    BY <1>6, <2>2, <2>3
<1>13. \A k, p \in ids : Rank(k) = Rank(p) /\ Rank(k) < step
  <2>1. \A k, p \in ids : Rank(k) = Rank(p)
    BY DEF Rank
  <2>2. \A k \in Top.parents : Rank(k) < step
    BY <1>2, <1>6, <1>7 DEF RanksDescend
  <2>. QED
    BY <1>4, <2>1, <2>2
<1>14. \A i \in DOMAIN below : \A r \in below[i].rows, k \in ids : Rank(k) < Rank(r)
  <2> SUFFICES ASSUME NEW i \in 1..n, NEW r \in below[i].rows, NEW k \in ids
               PROVE  Rank(k) < Rank(r)
    BY <1>5
  <2>1. CASE i = n
    <3>1. r \in stack[n].rows /\ k \in stack[n].parents
      BY <1>2, <1>3, <1>4, <1>5, <2>1
    <3>. QED
      BY <1>6, <1>7, <3>1 DEF RanksDescend
  <2>2. CASE i \in 1..(n - 1)
    <3>1. r \in Below[i].rows /\ k \in Top.parents /\ i \in DOMAIN Below
      BY <1>2, <1>4, <1>5, <2>2
    <3>. QED
      BY <1>10, <3>1
  <2>. QED
    BY <1>6, <2>1, <2>2
<1>15. \A k : Pending(k) <=> \E i \in DOMAIN below : k \in below[i].rows
  <2>1. \A i \in 1..n : below[i].rows = stack[i].rows
    BY <1>2, <1>3, <1>5, <1>6
  <2>. QED
    BY <1>2, <1>5, <2>1 DEF Pending
<1>16. place \in {"chunk", "rows"}
  <2>1. stack # <<>>
    BY DEF Recurse
  <2>. QED
    BY <1>0, <2>1 DEF BudgetInv, TypeOK
<1>17. UNCHANGED <<db, tx, upstream, staged, replay, missing, late, cycles, nulled>>
  BY DEF Recurse
<1>18. Batch(below, ids)
  BY <1>1 DEF f
<1> HIDE DEF ids, below, n
<1>. QED
  BY <1>0, <1>4, <1>5, <1>11, <1>12, <1>13, <1>14, <1>15, <1>16, <1>17, <1>18, BatchKeepsLosses

(* The filter asks for one parent of the current row, or gives it up.        *)
LEMMA CheckParentKeepsLosses ==
  ASSUME BudgetInv, CycleLossInv, NEW r \in Keys, NEW k \in Keys, CheckParent(r, k)
  PROVE  CycleLossInv'
<1>0. TypeOK
  BY DEF BudgetInv
<1>1. /\ place = "rows" /\ stack = <<>> /\ r \in chunk /\ k \in ToTry(r)
      /\ UNCHANGED <<db, tx, upstream, staged, replay, late, cycles, nulled>>
  BY DEF CheckParent, NextRow
<1>2. CASE k \notin tried /\ Batch(<<>>, {k}) /\ UNCHANGED missing
  <2>1. Rank(r) = step
    BY <1>1 DEF CycleLossInv, RowsInPlace
  <2>2. k \in Required[r] \cup Optional[r]
    BY <1>1 DEF ToTry, AbsentRequired, Absent
  <2>3. Rank(k) < step
    BY <2>1, <2>2, RankFacts
  <2>4. /\ <<>> \in Seq(Frames) /\ {k} \in SUBSET Keys /\ DOMAIN <<>> = {}
        /\ RanksDescend(<<>>) /\ ParentsCovered(<<>>, tx \cup tried \cup {k})
    BY DEF RanksDescend, ParentsCovered
  <2>5. \A q, p \in {k} : Rank(q) = Rank(p) /\ Rank(q) < step
    BY <2>3
  <2>6. \A i \in DOMAIN <<>> : \A q \in <<>>[i].rows, p \in {k} : Rank(p) < Rank(q)
    BY <2>4
  <2>7. \A q : Pending(q) <=> \E i \in DOMAIN <<>> : q \in <<>>[i].rows
    BY <1>1 DEF Pending
  <2>. QED
    BY <1>0, <1>1, <1>2, <2>4, <2>5, <2>6, <2>7, BatchKeepsLosses
<1>3. CASE /\ k \in tried
           /\ UNCHANGED <<stack, tried, count, asked, sent, excused>>
  BY <1>1, <1>3
     DEF CycleLossInv, RanksDescend, ParentsCovered, TriedHaveReasons, Reason, Settled, Pending,
         RowsInPlace, OnItsWay, ParentSettled, StagedAccounted, NulledAccounted, replay
<1>. QED
  BY <1>2, <1>3 DEF CheckParent

(* The end of a call: a row that it does not upsert did not decode or misses  *)
(* a parent of an earlier type, which no call can land any more.             *)
LEMMA LandKeepsLosses ==
  ASSUME TypeOK, CycleLossInv, Land
  PROVE  CycleLossInv'
<1> DEFINE n == Len(stack)
<1>1. /\ n \in Nat \ {0} /\ DOMAIN stack = 1..n
      /\ Below \in Seq(Frames) /\ DOMAIN Below = 1..(n - 1)
      /\ \A i \in 1..(n - 1) : Below[i] = stack[i]
      /\ Top \in Frames /\ Top = stack[n]
  BY BelowFacts DEF Land
<1>2. PICK bad \in SUBSET Top.rows :
        /\ tx' = tx \cup {r \in Top.rows \ bad : StoredReferences(r) \subseteq tx}
        /\ excused' = excused \cup bad
  BY DEF Land
<1>3. /\ UNCHANGED <<upstream, staged, step, place, left, chunk, kept, tried, nulled>>
      /\ stack' = Below /\ Top.parents = {}
  BY DEF Land, replay, budget
<1> HIDE DEF n
<1>4. /\ n \in 1..n /\ n \in DOMAIN stack
      /\ \A i \in 1..n : i = n \/ (i \in 1..(n - 1) /\ i < n)
      /\ \A i \in 1..(n - 1) : i \in 1..n /\ i < n
  BY <1>1
<1>5. RanksDescend(stack) /\ ParentsCovered(stack, tx \cup tried)
  BY DEF CycleLossInv
<1>6. RanksDescend(stack)'
  BY <1>1, <1>3, <1>4, <1>5 DEF RanksDescend
<1>7. ParentsCovered(stack, tx \cup tried)'
  BY <1>1, <1>2, <1>3, <1>4, <1>5 DEF ParentsCovered
<1>8. \A k : Pending(k)' => Pending(k)
  BY <1>1, <1>3, <1>4 DEF Pending
<1>9. \A k : Pending(k) => Pending(k)' \/ k \in Top.rows
  BY <1>1, <1>3, <1>4 DEF Pending
<1>10. \A k \in Top.rows : Pending(k)
  BY <1>1, <1>4 DEF Pending
<1>11. /\ \A k : Settled(k) => Settled(k)'
       /\ \A k : Reason(k) => Reason(k)'
       /\ \A r : ParentSettled(r) => ParentSettled(r)'
  <2>1. \A k \in tried : Settled(k) => k \notin tx' /\ ~Pending(k)'
    BY <1>2, <1>8, <1>10 DEF Settled
  <2>. QED
    BY <1>2, <1>3, <2>1, ReasonsStay
<1>12. TriedHaveReasons'
  <2> SUFFICES ASSUME NEW k \in tried PROVE Rank(k) < step /\ (Settled(k)' => Reason(k)')
    BY <1>3 DEF TriedHaveReasons
  <2>1. Rank(k) < step /\ (Settled(k) => Reason(k))
    BY DEF CycleLossInv, TriedHaveReasons
  <2>2. ASSUME Settled(k)', ~Settled(k) PROVE Reason(k)'
    <3>1. k \notin tx' /\ k \notin tx /\ ~Pending(k)' /\ Pending(k)
      BY <1>2, <2>2 DEF Settled
    <3>2. k \in Top.rows
      BY <1>9, <3>1
    <3>3. CASE k \in bad
      BY <1>2, <3>3 DEF Reason
    <3>4. CASE ~(StoredReferences(k) \subseteq tx)
      <4>1. PICK p \in Required[k] : p \notin tx
        BY <3>4 DEF StoredReferences
      <4>2. p \in tried
        BY <1>1, <1>3, <1>4, <1>5, <3>2, <4>1 DEF ParentsCovered
      <4>3. k \in Keys /\ p \in Keys /\ Rank(p) < Rank(k) /\ Rank(p) \in Int /\ Rank(k) \in Int
        BY <1>1, <3>2, <4>1, RankFacts DEF Frames
      <4>4. ~Pending(p)
        <5> SUFFICES ASSUME NEW i \in 1..n, p \in stack[i].rows PROVE FALSE
          BY <1>1 DEF Pending
        <5>1. CASE i = n
          BY <1>1, <1>4, <1>5, <3>2, <4>3, <5>1 DEF RanksDescend
        <5>2. CASE i \in 1..(n - 1) /\ i < n
          <6>1. Rank(k) < Rank(p)
            BY <1>1, <1>4, <1>5, <3>2, <5>2 DEF RanksDescend
          <6>. QED
            BY <4>3, <6>1
        <5>. QED
          BY <1>4, <5>1, <5>2
      <4>5. Settled(p)
        BY <4>1, <4>2, <4>4 DEF Settled
      <4>6. Settled(p)' /\ p \notin tx'
        BY <1>11, <4>5 DEF Settled
      <4>. QED
        BY <4>1, <4>6 DEF Reason
    <3>. QED
      BY <1>2, <3>1, <3>2, <3>3, <3>4
  <2>. QED
    BY <1>11, <2>1, <2>2
<1>13. RowsInPlace'
  BY <1>3 DEF CycleLossInv, RowsInPlace
<1>14. \A r : OnItsWay(r) => OnItsWay(r)'
  BY <1>2, <1>3 DEF OnItsWay
<1>15. Cap > 0 => StagedAccounted' /\ NulledAccounted'
  BY <1>3, <1>11, <1>14 DEF CycleLossInv, StagedAccounted, NulledAccounted
<1>. QED
  BY <1>6, <1>7, <1>12, <1>13, <1>15 DEF CycleLossInv

(* The filter: a row is dropped, and an optional reference set to NULL, only  *)
(* for a parent in the negative cache, and no call is running.               *)
LEMMA FilterKeepsLosses ==
  ASSUME TypeOK, CycleLossInv, NEW r \in Keys, KeepRow(r) \/ DropRow(r)
  PROVE  CycleLossInv'
<1>1. /\ UNCHANGED <<tx, upstream, staged, step, place, left, stack, tried, excused>>
      /\ place = "rows" /\ stack = <<>> /\ r \in chunk /\ ToTry(r) = {}
      /\ chunk' = chunk \ {r} /\ kept \subseteq kept' /\ nulled \subseteq nulled'
  BY DEF KeepRow, DropRow, NextRow, budget, history
<1>2. \A k : ~Pending(k) /\ ~Pending(k)'
  BY <1>1 DEF Pending
<1>3. \A p \in missing : p \notin tx => Settled(p)
  BY <1>2 DEF Settled, TypeOK
<1>4. \A k : Settled(k)' <=> Settled(k)
  BY <1>1, <1>2 DEF Settled
<1>5. \A k : Reason(k)' <=> Reason(k)
  BY <1>1, <1>4 DEF Reason
<1>6. \A k : ParentSettled(k)' <=> ParentSettled(k)
  BY <1>1, <1>4 DEF ParentSettled
<1>7. TriedHaveReasons'
  BY <1>1, <1>4, <1>5 DEF CycleLossInv, TriedHaveReasons
<1>8. RanksDescend(stack)' /\ ParentsCovered(stack, tx \cup tried)'
  BY <1>1 DEF CycleLossInv, RanksDescend, ParentsCovered
<1>9. CASE KeepRow(r)
  <2>1. /\ kept' = kept \cup {<<r, StoredReferences(r)>>}
        /\ nulled' = nulled \cup {<<r, p>> : p \in Absent(Optional[r])}
        /\ AbsentRequired(r) = {}
    BY <1>9 DEF KeepRow
  <2>2. Rank(r) = step
    BY <1>1 DEF CycleLossInv, RowsInPlace
  <2>3. RowsInPlace'
    BY <1>1, <2>1, <2>2 DEF CycleLossInv, RowsInPlace
  <2>4. \A k : OnItsWay(k) => OnItsWay(k)'
    <3> SUFFICES ASSUME NEW k, OnItsWay(k) PROVE OnItsWay(k)'
      OBVIOUS
    <3>1. CASE k = r
      <4>1. <<r, StoredReferences(r)>> \in kept' /\ <<r, StoredReferences(r)>>[1] = r
        BY <2>1
      <4>2. \E e \in kept' : e[1] = k
        BY <3>1, <4>1
      <4>. QED
        BY <4>2 DEF OnItsWay
    <3>2. CASE k # r
      BY <1>1, <3>2 DEF OnItsWay
    <3>. QED
      BY <3>1, <3>2
  <2>5. ASSUME Cap > 0 PROVE \A e \in nulled' : Settled(e[2])
    <3>1. Absent(Optional[r]) \subseteq missing
      BY <1>1, <2>1, <2>5, BudgetAssumption DEF ToTry
    <3>2. \A p \in Absent(Optional[r]) : Settled(p)
      BY <1>3, <3>1 DEF Absent
    <3>. QED
      BY <2>1, <2>5, <3>2 DEF CycleLossInv, NulledAccounted
  <2>6. Cap > 0 => StagedAccounted' /\ NulledAccounted'
    BY <1>1, <1>4, <1>6, <2>4, <2>5 DEF CycleLossInv, StagedAccounted, NulledAccounted
  <2>. QED
    BY <1>7, <1>8, <2>3, <2>6 DEF CycleLossInv
<1>10. CASE DropRow(r)
  <2>1. UNCHANGED <<kept, nulled>> /\ AbsentRequired(r) # {}
    BY <1>10 DEF DropRow, history
  <2>2. RowsInPlace'
    BY <1>1, <2>1 DEF CycleLossInv, RowsInPlace
  <2>3. Cap > 0 => ParentSettled(r)
    <3>1. Cap > 0 => AbsentRequired(r) \cap missing # {}
      BY <1>1, <2>1, BudgetAssumption DEF ToTry
    <3>. QED
      BY <1>3, <3>1 DEF AbsentRequired, Absent, ParentSettled
  <2>4. \A k : OnItsWay(k) /\ k # r => OnItsWay(k)'
    BY <1>1, <2>1 DEF OnItsWay
  <2>5. Cap > 0 => StagedAccounted' /\ NulledAccounted'
    BY <1>1, <1>4, <1>6, <2>1, <2>3, <2>4 DEF CycleLossInv, StagedAccounted, NulledAccounted
  <2>. QED
    BY <1>7, <1>8, <2>2, <2>5 DEF CycleLossInv
<1>. QED
  BY <1>9, <1>10

(* The bulk upsert stores rows of the current step, and what was tried is of  *)
(* earlier ones.                                                             *)
LEMMA UpsertKeepsLosses ==
  ASSUME TypeOK, CycleLossInv, UpsertChunk
  PROVE  CycleLossInv'
<1>1. /\ UNCHANGED <<upstream, staged, step, left, chunk, stack, tried, excused, nulled>>
      /\ place = "rows" /\ stack = <<>> /\ chunk = {} /\ kept' = {} /\ place' = "chunk"
      /\ tx' = tx \cup {e[1] : e \in kept}
  BY DEF UpsertChunk, budget, history
<1>2. \A k \in tried : Rank(k) \in Int /\ step \in Int /\ Rank(k) < step
  BY RankFacts DEF TypeOK, CycleLossInv, TriedHaveReasons
<1>3. \A e \in kept : Rank(e[1]) = step
  BY DEF CycleLossInv, RowsInPlace
<1>4. \A k \in tried : k \notin tx => k \notin tx'
  <2>1. \A k \in tried : \A e \in kept : e[1] # k
    BY <1>2, <1>3
  <2>. QED
    BY <1>1, <2>1
<1>5. \A k : ~Pending(k) /\ ~Pending(k)'
  BY <1>1 DEF Pending
<1>6. /\ \A k : Settled(k) => Settled(k)'
      /\ \A k : Reason(k) => Reason(k)'
      /\ \A r : ParentSettled(r) => ParentSettled(r)'
  BY <1>1, <1>4, <1>5, ReasonsStay DEF Settled
<1>7. \A k : Settled(k)' => Settled(k)
  BY <1>1, <1>5 DEF Settled
<1>8. TriedHaveReasons'
  BY <1>1, <1>6, <1>7 DEF CycleLossInv, TriedHaveReasons
<1>9. RanksDescend(stack)' /\ ParentsCovered(stack, tx \cup tried)'
  BY <1>1 DEF RanksDescend, ParentsCovered
<1>10. RowsInPlace'
  BY <1>1 DEF CycleLossInv, RowsInPlace
<1>11. \A r : OnItsWay(r) => OnItsWay(r)'
  BY <1>1 DEF OnItsWay
<1>12. Cap > 0 => StagedAccounted' /\ NulledAccounted'
  BY <1>1, <1>6, <1>11 DEF CycleLossInv, StagedAccounted, NulledAccounted
<1>. QED
  BY <1>8, <1>9, <1>10, <1>12 DEF CycleLossInv

(* A cycle starts with no call, nothing tried and every staged row to come.  *)
LEMMA StartKeepsLosses ==
  ASSUME LossInv, StartCycle
  PROVE  CycleLossInv'
<1>1. /\ stack' = <<>> /\ left' = {} /\ chunk' = {} /\ kept' = {} /\ nulled' = {} /\ tried' = {}
      /\ step' = 1 /\ place' = "type" /\ staged' \subseteq Keys
  BY BudgetAssumption DEF StartCycle, LossInv, ResetFKState, history
<1>2. \A k \in Keys : Rank(k) \in Nat /\ Rank(k) >= 1
  BY RankFacts
<1>3. \A r \in staged' : OnItsWay(r)'
  BY <1>1, <1>2 DEF OnItsWay
<1>. QED
  BY <1>1, <1>3 DEF CycleLossInv, RanksDescend, ParentsCovered, TriedHaveReasons, RowsInPlace,
                    StagedAccounted, NulledAccounted

(* LossInv is inductive: at every moment of a cycle each row that was tried   *)
(* and did not come is explained by upstream, by a request or by a parent     *)
(* that did not come, and each staged row is on its way or misses such a      *)
(* parent.                                                                   *)
THEOREM LossInductive == Spec => []LossInv
<1>1. Init => LossInv
  BY DEF Init, LossInv
<1>2. ASSUME BudgetInv, BudgetInv', LossInv, [Next]_vars PROVE LossInv'
  <2>1. TypeOK /\ TypeOK'
    BY <1>2 DEF BudgetInv
  <2>2. CASE StartCycle
    BY <1>2, <2>2, StartKeepsLosses DEF LossInv, StartCycle
  <2>3. CASE BeginType \/ BeginChunk
    BY <1>2, <2>1, <2>3, BeginKeepsLosses DEF LossInv, BeginType, BeginChunk
  <2>4. CASE EndType
    BY <1>2, <2>1, <2>4, EndTypeKeepsLosses DEF LossInv, EndType
  <2>5. CASE Recurse
    <3>1. place # "idle" /\ place' = place
      BY <1>2, <2>5 DEF LossInv, Recurse, replay
    <3>. QED
      BY <1>2, <2>5, <3>1, RecurseKeepsLosses DEF LossInv
  <2>6. CASE Land
    <3>1. place # "idle" /\ place' = place
      BY <1>2, <2>6 DEF LossInv, Land, replay
    <3>. QED
      BY <1>2, <2>1, <2>6, <3>1, LandKeepsLosses DEF LossInv
  <2>7. CASE \E r \in Keys : \E k \in Keys : CheckParent(r, k)
    <3>1. PICK r \in Keys, k \in Keys : CheckParent(r, k)
      BY <2>7
    <3>2. place = "rows" /\ place' = place
      BY <3>1 DEF CheckParent, NextRow, replay
    <3>. QED
      BY <1>2, <3>1, <3>2, CheckParentKeepsLosses DEF LossInv
  <2>8. CASE \E r \in Keys : KeepRow(r) \/ DropRow(r)
    <3>1. PICK r \in Keys : KeepRow(r) \/ DropRow(r)
      BY <2>8
    <3>2. place = "rows" /\ place' = place
      BY <3>1 DEF KeepRow, DropRow, NextRow
    <3>. QED
      BY <1>2, <2>1, <3>1, <3>2, FilterKeepsLosses DEF LossInv
  <2>9. CASE UpsertChunk
    BY <1>2, <2>1, <2>9, UpsertKeepsLosses DEF LossInv, UpsertChunk
  <2>10. CASE Commit \/ RollBack
    BY <2>10 DEF LossInv, Commit, RollBack, EndCycle
  <2>11. CASE DeadlinePasses \/ UNCHANGED vars
    <3>1. UNCHANGED <<tx, upstream, staged, replay, stack, tried, excused, nulled>>
      BY <2>11 DEF DeadlinePasses, vars, budget, history
    <3>. QED
      BY <1>2, <3>1
         DEF LossInv, CycleLossInv, RanksDescend, ParentsCovered, TriedHaveReasons, Reason,
             Settled, Pending, RowsInPlace, OnItsWay, ParentSettled, StagedAccounted,
             NulledAccounted, replay
  <2>. QED
    BY <1>2, <2>2, <2>3, <2>4, <2>5, <2>6, <2>7, <2>8, <2>9, <2>10, <2>11 DEF Next
<1>. QED
  BY <1>1, <1>2, BudgetInductive, PTL DEF Spec

-----------------------------------------------------------------------------
(* Lost is defined by recursion along the required parents. The rows that are *)
(* in every set closed under its rule satisfy the equation, so that the       *)
(* definition has a value, and that value satisfies it too.                  *)
LEMMA LostEquation ==
  \A k \in Keys : Lost[k] <=> \/ k \notin upstream
                              \/ k \in excused
                              \/ \E p \in Required[k] \ tx : Lost[p]
<1> DEFINE Rule(k, S) == k \notin upstream \/ k \in excused \/ \E p \in Required[k] \ tx : p \in S
<1> DEFINE Closed(S) == \A k \in Keys : Rule(k, S) => k \in S
<1> DEFINE L == {k \in Keys : \A S \in SUBSET Keys : Closed(S) => k \in S}
<1>1. \A k \in Keys : \A p \in Required[k] : p \in Keys
  BY RowsAssumption
<1>2. \A S, T : S \subseteq T => \A k : Rule(k, S) => Rule(k, T)
  OBVIOUS
<1>3. \A S \in SUBSET Keys : Closed(S) => L \subseteq S
  OBVIOUS
<1> HIDE DEF Rule
<1>4. Closed(L)
  <2> SUFFICES ASSUME NEW k \in Keys, Rule(k, L) PROVE k \in L
    OBVIOUS
  <2> SUFFICES ASSUME NEW S \in SUBSET Keys, Closed(S) PROVE k \in S
    OBVIOUS
  <2>1. Rule(k, S)
    BY <1>2, <1>3
  <2>. QED
    BY <2>1
<1>5. ASSUME NEW k \in Keys, k \in L PROVE Rule(k, L)
  <2> SUFFICES ASSUME ~Rule(k, L) PROVE FALSE
    OBVIOUS
  <2>1. L \ {k} \in SUBSET Keys
    OBVIOUS
  <2>2. Closed(L \ {k})
    <3> SUFFICES ASSUME NEW q \in Keys, Rule(q, L \ {k}) PROVE q \in L \ {k}
      OBVIOUS
    <3>1. Rule(q, L)
      <4>1. L \ {k} \subseteq L
        OBVIOUS
      <4> HIDE DEF L
      <4>. QED
        BY <1>2, <4>1
    <3>2. q \in L
      BY <1>4, <3>1
    <3> HIDE DEF L
    <3>. QED
      BY <3>1, <3>2
  <2>3. k \in L \ {k}
    BY <1>3, <1>5, <2>1, <2>2
  <2>. QED
    BY <2>3
<1>6. \A k \in Keys : k \in L <=> Rule(k, L)
  <2> HIDE DEF L
  <2>. QED
    BY <1>4, <1>5
<1> HIDE DEF L
<1> DEFINE Value(f) == [k \in Keys |->
                           \/ k \notin upstream
                           \/ k \in excused
                           \/ \E p \in Required[k] \ tx : f[p]]
<1> DEFINE g == [k \in Keys |-> k \in L]
<1>7. g = Value(g)
  <2>1. ASSUME NEW k \in Keys
        PROVE  k \in L <=> (k \notin upstream \/ k \in excused \/ \E p \in Required[k] \ tx : g[p])
    <3>1. (\E p \in Required[k] \ tx : g[p]) <=> (\E p \in Required[k] \ tx : p \in L)
      BY <1>1
    <3>. QED
      BY <1>6, <3>1 DEF Rule
  <2>2. ASSUME NEW k \in Keys PROVE g[k] = Value(g)[k]
    <3> DEFINE body == k \notin upstream \/ k \in excused \/ \E p \in Required[k] \ tx : g[p]
    <3>1. g[k] = (k \in L)
      OBVIOUS
    <3>2. Value(g)[k] = body
      BY Zenon
    <3>3. (k \in L) <=> body
      BY <2>1
    <3> HIDE DEF body, g, Value
    <3>4. (k \in L) = body
      BY <3>3
    <3>. QED
      BY <3>1, <3>2, <3>4
  <2>. QED
    BY <2>2
<1>8. \E f : f = Value(f)
  <2> HIDE DEF g
  <2>. QED
    BY <1>7
<1>9. Lost = Value(Lost)
  BY <1>8, Zenon DEF Lost
<1>. QED
  BY <1>9

(* With no call running, a row that is settled is lost: of the settled rows   *)
(* that were not, take one of the lowest rank; its reason is a parent, which  *)
(* is settled, ranks lower and so is lost.                                   *)
LEMMA SettledIsLost ==
  ASSUME TypeOK, TriedHaveReasons
  PROVE  \A k \in Keys : Settled(k) => Lost[k]
<1> DEFINE Ranks == {n \in Nat : \E k \in Keys : Settled(k) /\ ~Lost[k] /\ Rank(k) = n}
<1>1. \A k \in Keys : Rank(k) \in Nat
  BY RankFacts
<1> SUFFICES ASSUME NEW q \in Keys, Settled(q), ~Lost[q] PROVE FALSE
  OBVIOUS
<1>2. Ranks \in SUBSET Nat /\ Ranks # {}
  BY <1>1
<1>3. Min(Ranks) \in Ranks /\ \A n \in Ranks : Min(Ranks) <= n
  <2> HIDE DEF Ranks
  <2>. QED
    BY <1>2, MinExists
<1>4. PICK k \in Keys : Settled(k) /\ ~Lost[k] /\ Rank(k) = Min(Ranks)
  BY <1>3
<1>5. Reason(k)
  BY <1>4 DEF TriedHaveReasons, Settled
<1>6. PICK p \in Required[k] \ tx : Settled(p)
  BY <1>4, <1>5, LostEquation DEF Reason
<1>7. p \in Keys /\ Rank(p) < Rank(k) /\ Rank(p) \in Nat
  BY <1>1, <1>6, RankFacts
<1>8. Lost[p]
  <2> SUFFICES ASSUME ~Lost[p] PROVE FALSE
    OBVIOUS
  <2>1. Rank(p) \in Ranks
    BY <1>6, <1>7
  <2>. QED
    BY <1>1, <1>3, <1>4, <1>7, <2>1
<1>. QED
  BY <1>4, <1>6, <1>8, LostEquation

(* Backfill gives up on no row that it could have had: a staged row that was  *)
(* dropped, and an optional reference that was set to NULL, is for a parent   *)
(* that upstream no longer has or that a request, the cap or the deadline     *)
(* cost, along the chain of required parents.                                *)
THEOREM LossesExplained == Spec => []EveryLossExplained
<1>1. BudgetInv /\ LossInv => EveryLossExplained
  <2> SUFFICES ASSUME BudgetInv, LossInv, AtCommit, Cap > 0
               PROVE  /\ \A r \in staged \ tx : \E p \in Required[r] \ tx : Lost[p]
                      /\ \A e \in nulled : Lost[e[2]]
    BY DEF EveryLossExplained
  <2>1. TypeOK /\ place = "type" /\ step > Len(Steps)
    BY DEF BudgetInv, AtCommit
  <2>2. CycleLossInv
    BY <2>1 DEF LossInv
  <2>3. \A k \in Keys : Settled(k) => Lost[k]
    BY <2>1, <2>2, SettledIsLost DEF CycleLossInv
  <2>4. left = {} /\ chunk = {} /\ kept = {}
    BY <2>1, <2>2 DEF CycleLossInv, RowsInPlace
  <2>5. ASSUME NEW r \in staged \ tx PROVE \E p \in Required[r] \ tx : Lost[p]
    <3>1. r \in Keys /\ Rank(r) \in 1..Len(Steps) /\ Len(Steps) \in Nat /\ step \in Int
      BY <2>1, <2>5, RankFacts DEF TypeOK
    <3>2. ~OnItsWay(r)
      BY <2>1, <2>4, <2>5, <3>1 DEF OnItsWay
    <3>3. ParentSettled(r)
      BY <2>2, <2>5, <3>2 DEF CycleLossInv, StagedAccounted
    <3>4. PICK p \in Required[r] \ tx : Settled(p)
      BY <3>3 DEF ParentSettled
    <3>5. p \in Keys
      BY <3>1, <3>4, RankFacts
    <3>. QED
      BY <2>3, <3>4, <3>5
  <2>6. ASSUME NEW e \in nulled PROVE Lost[e[2]]
    <3>1. e[2] \in Keys
      BY <2>1, <2>6 DEF TypeOK
    <3>2. Settled(e[2])
      BY <2>2, <2>6 DEF CycleLossInv, NulledAccounted
    <3>. QED
      BY <2>3, <3>1, <3>2
  <2>. QED
    BY <2>5, <2>6
<1>. QED
  BY <1>1, BudgetInductive, LossInductive, PTL
=============================================================================
