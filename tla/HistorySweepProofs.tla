-------------------------- MODULE HistorySweepProofs --------------------------
(* Proofs about HistorySweep for every set of types and rows, every window   *)
(* width, budget and memo time, and every first state that earlier cycles    *)
(* can leave: its types, that it moves no cursor past a live row, and that   *)
(* the progress it stores is true.                                           *)
EXTENDS HistorySweep, MaxMinFacts, FiniteSetTheorems, TLAPS

(* What is stored or staged of a row is an earlier version of it, or it.     *)
RowOK(r) ==
    /\ up[r].updated <= clock
    /\ up[r].updated = 0 => up[r] = None
    /\ \A v \in {mirror[r], staged[r]} : /\ v.updated <= up[r].updated
                                         /\ v.updated = up[r].updated => v = up[r]
    /\ place = "idle" => staged[r] = None

(* The commit of the cycle would leave the row behind its cursor.            *)
Reached(r) ==
    \/ up[r].updated <= Cursor(TypeOf[r])
    \/ \E s \in RowsOf(TypeOf[r]) : up[r].updated <= staged[s].updated

Missed(r) == up[r] # None /\ Reached(r) /\ staged[r] # up[r] /\ mirror[r] # up[r]

(* Only tombstones are missed, and of a populated type only old ones.        *)
TombstonesOnly(r) ==
    Missed(r) => ~up[r].live /\ (Cursor(TypeOf[r]) # 0 => up[r].updated <= Cursor(TypeOf[r]))

(* What the working progress says is swept will be there after the commit.   *)
SweptBy(p, r) == p[TypeOf[r]].done \/ IdOf[r] < p[TypeOf[r]].next
Excepted(t) == work[t].done /\ t \in late \cup fresh
WorkIsTrue(r) ==
    place \in {"sweep", "swept"} /\ SweptBy(work, r) /\ ~Excepted(TypeOf[r]) => ~Missed(r)

(* A type that is empty is done, or its sweep has not begun.                 *)
StartOK(p, t) == ~p[t].done /\ Cursor(t) = 0 => p[t].next <= 1

(* An empty type for which the normal fetch staged nothing has nothing       *)
(* staged when the sweep begins.                                             *)
FreshOK(t) ==
    /\ t \in fresh => Cursor(t) = 0
    /\ place = "fetched" /\ Cursor(t) = 0 /\ t \notin fresh =>
          \A r \in RowsOf(t) : staged[r] = None

(* The ranks number the checks: a cycle adds one with each window.           *)
RankOK(t) ==
    /\ progress[t].rank <= Cardinality(Types)
    /\ work[t].rank <= Cardinality(Types) + spent

TypeStateOK(t) ==
    /\ StartOK(progress, t)
    /\ place \in {"sweep", "swept"} => StartOK(work, t)
    /\ FreshOK(t) /\ RankOK(t)
    /\ t \in late => progress[t].done

IInv ==
    /\ TypeOK /\ NoLiveRowBehind /\ ProgressIsTrue
    /\ \A r \in Rows : RowOK(r) /\ TombstonesOnly(r) /\ WorkIsTrue(r)
    /\ \A t \in Types : TypeStateOK(t)

-----------------------------------------------------------------------------
TypedRow == [live : BOOLEAN, updated : Nat]

(* The newest row of a type in a table.                                      *)
LEMMA NewestFacts ==
  ASSUME NEW table, NEW t, NEW b \in Nat,
         \A r \in Rows : table[r].updated \in Nat /\ table[r].updated <= b
  PROVE  /\ Newest(table, t) \in Nat
         /\ \A r \in RowsOf(t) : table[r].updated <= Newest(table, t)
         /\ \/ Newest(table, t) = 0
            \/ \E r \in RowsOf(t) : Newest(table, t) = table[r].updated
<1> DEFINE S == {table[r].updated : r \in RowsOf(t)} \cup {0}
<1>1. RowsOf(t) \subseteq Rows
  BY DEF RowsOf
<1>2. S \in SUBSET Nat /\ S # {} /\ \A y \in S : y <= b
  BY <1>1
<1>3. Max(S) \in S /\ \A y \in S : y <= Max(S)
  BY <1>2, MaxExists
<1>4. Newest(table, t) = Max(S)
  BY DEF Newest
<1> HIDE DEF S
<1>5. Newest(table, t) \in S /\ \A y \in S : y <= Newest(table, t)
  BY <1>3, <1>4
<1> USE DEF S
<1> QED BY <1>2, <1>5

(* The ids are bounded by the largest.                                       *)
LEMMA IdFacts ==
  /\ Max(Ids) \in Nat /\ Max(Ids) >= 1
  /\ \A r \in Rows : IdOf[r] \in Nat /\ IdOf[r] >= 1 /\ IdOf[r] <= Max(Ids)
<1>1. IdOf \in [Rows -> Nat \ {0}] /\ IsFiniteSet(Rows) /\ Rows # {}
  BY SweepAssumption
<1>2. Ids \in SUBSET Nat /\ 0 \notin Ids /\ Ids # {} /\ \A r \in Rows : IdOf[r] \in Ids
  BY <1>1 DEF Ids
<1>3. IsFiniteSet(Ids)
  <2>1. [r \in Rows |-> IdOf[r]] \in Surjection(Rows, Ids)
    BY <1>1 DEF Surjection, Ids
  <2> QED BY <1>1, <2>1, FS_Surjection
<1>4. PICK b \in Nat : \A y \in Ids : y <= b
  BY <1>2, <1>3, FiniteIsBounded
<1>5. Max(Ids) \in Ids /\ \A y \in Ids : y <= Max(Ids)
  BY <1>2, <1>4, MaxExists
<1>6. Max(Ids) \in Nat /\ Max(Ids) # 0
  BY <1>2, <1>5
<1>7. \A r \in Rows : IdOf[r] \in Nat /\ IdOf[r] # 0 /\ IdOf[r] <= Max(Ids)
  BY <1>1, <1>2, <1>5
<1> QED BY <1>6, <1>7

(* The largest stored id of a type is an id.                                 *)
LEMMA MaxIdFacts ==
  ASSUME NEW t
  PROVE  MaxId(t) \in Nat /\ MaxId(t) <= Max(Ids)
<1> DEFINE S == {IdOf[r] : r \in {s \in RowsOf(t) : mirror[s] # None}} \cup {0}
<1>1. S \in SUBSET Nat /\ S # {} /\ \A y \in S : y <= Max(Ids)
  BY IdFacts DEF RowsOf
<1>2. Max(S) \in S
  BY <1>1, IdFacts, MaxExists
<1> QED BY <1>1, <1>2 DEF MaxId

(* The types of a state, as far as the steps below use them.                 *)
LEMMA TypeFacts ==
  ASSUME TypeOK
  PROVE  /\ clock \in Nat /\ MaxClock \in Nat /\ TTL \in Nat /\ Budget \in Nat
         /\ spent \in Nat /\ faults \in Nat
         /\ Cardinality(Types) \in Nat
         /\ TypeOf \in [Rows -> Types]
         /\ \A r \in Rows : /\ up[r] \in TypedRow /\ mirror[r] \in TypedRow
                            /\ staged[r] \in TypedRow
         /\ \A t \in Types : /\ progress[t].next \in Nat /\ progress[t].done \in BOOLEAN
                             /\ progress[t].left \in 0..TTL /\ progress[t].rank \in Nat
                             /\ work[t].next \in Nat /\ work[t].done \in BOOLEAN
                             /\ work[t].left \in 0..TTL /\ work[t].rank \in Nat
<1>1. /\ MaxClock \in Nat /\ TTL \in Nat /\ Budget \in Nat /\ Start \in Nat
      /\ TypeOf \in [Rows -> Types]
      /\ Cardinality(Types) \in Nat
  BY SweepAssumption, FS_CardinalityType
<1>2. clock \in Nat /\ spent \in Nat /\ faults \in Nat
  BY <1>1, SweepAssumption DEF TypeOK
<1>3. \A r \in Rows : up[r] \in Versions /\ mirror[r] \in Versions /\ staged[r] \in Versions
  BY DEF TypeOK
<1>4. Versions \subseteq TypedRow
  BY <1>1 DEF Versions, TypedRow
<1>5. \A t \in Types : progress[t] \in Progress /\ work[t] \in Progress
  BY DEF TypeOK
<1>6. \A p \in Progress : /\ p.next \in Nat /\ p.done \in BOOLEAN
                          /\ p.left \in 0..TTL /\ p.rank \in Nat
  BY <1>1, IdFacts DEF Progress
<1> QED BY <1>1, <1>2, <1>3, <1>4, <1>5, <1>6

(* The cursor of a type is the newest time of its rows.                      *)
LEMMA CursorFacts ==
  ASSUME TypeOK, NEW t
  PROVE  /\ Cursor(t) \in Nat
         /\ \A r \in RowsOf(t) : mirror[r].updated <= Cursor(t)
         /\ Cursor(t) = 0 \/ \E r \in RowsOf(t) : Cursor(t) = mirror[r].updated
<1>1. \A r \in Rows : mirror[r].updated \in Nat /\ mirror[r].updated <= MaxClock
  BY SweepAssumption DEF TypeOK, Versions
<1>2. MaxClock \in Nat
  BY SweepAssumption
<1> QED BY <1>1, <1>2, NewestFacts DEF Cursor

(* Ranked keeps the order of the checks, not their numbers.                  *)
LEMMA RankedFacts ==
  ASSUME NEW p, \A t \in Types : /\ p[t].next \in 0..Max(Ids) /\ p[t].done \in BOOLEAN
                                 /\ p[t].left \in 0..TTL /\ p[t].rank \in Nat,
         \A t \in Types : p[t] = [next |-> p[t].next, done |-> p[t].done,
                                  left |-> p[t].left, rank |-> p[t].rank]
  PROVE  /\ Ranked(p) \in [Types -> Progress]
         /\ \A t \in Types : /\ (Ranked(p)[t].done <=> p[t].done) /\ Ranked(p)[t].next = p[t].next
                             /\ Ranked(p)[t].rank <= Cardinality(Types)
<1> DEFINE Rank(t) == Cardinality({s \in Types : p[s].done /\ p[s].rank <= p[t].rank})
<1>1. Cardinality(Types) \in Nat /\ Budget \in Nat /\ TTL \in Nat /\ IsFiniteSet(Types)
  BY SweepAssumption, FS_CardinalityType
<1>2. \A t \in Types : Rank(t) \in Nat /\ Rank(t) <= Cardinality(Types)
  <2> SUFFICES ASSUME NEW t \in Types PROVE Rank(t) \in Nat /\ Rank(t) <= Cardinality(Types)
    OBVIOUS
  <2> DEFINE T == {s \in Types : p[s].done /\ p[s].rank <= p[t].rank}
  <2>1. T \in SUBSET Types
    OBVIOUS
  <2> HIDE DEF T
  <2>2. Cardinality(T) \in Nat /\ Cardinality(T) <= Cardinality(Types)
    BY <1>1, <2>1, FS_Subset, FS_CardinalityType
  <2> QED BY <2>2 DEF T
<1>3. \A t \in Types : Ranked(p)[t] =
         IF p[t].done
         THEN [next |-> p[t].next, done |-> TRUE, left |-> p[t].left, rank |-> Rank(t)]
         ELSE [next |-> p[t].next, done |-> FALSE, left |-> 0, rank |-> 0]
  <2> SUFFICES ASSUME NEW t \in Types
               PROVE  Ranked(p)[t] =
                        IF p[t].done
                        THEN [next |-> p[t].next, done |-> TRUE, left |-> p[t].left,
                              rank |-> Rank(t)]
                        ELSE [next |-> p[t].next, done |-> FALSE, left |-> 0, rank |-> 0]
    OBVIOUS
  <2> DEFINE e == p[t]
  <2>1. e = [next |-> e.next, done |-> e.done, left |-> e.left, rank |-> e.rank]
    OBVIOUS
  <2>2. Ranked(p)[t] = IF e.done THEN [e EXCEPT !.rank = Rank(t)]
                       ELSE [next |-> e.next, done |-> FALSE, left |-> 0, rank |-> 0]
    BY DEF Ranked
  <2>3. e.done \in BOOLEAN
    OBVIOUS
  <2> HIDE DEF e, Rank
  <2>4. [e EXCEPT !.rank = Rank(t)]
          = [next |-> e.next, done |-> e.done, left |-> e.left, rank |-> Rank(t)]
    BY <2>1
  <2>5. CASE e.done
    <3>1. e.done = TRUE
      BY <2>3, <2>5
    <3> QED BY <2>2, <2>4, <2>5, <3>1 DEF e
  <2>6. CASE ~e.done
    BY <2>2, <2>6 DEF e
  <2> QED BY <2>5, <2>6
<1> HIDE DEF Rank
<1>4. ASSUME NEW t \in Types
      PROVE  /\ Ranked(p)[t] \in Progress
             /\ (Ranked(p)[t].done <=> p[t].done) /\ Ranked(p)[t].next = p[t].next
             /\ Ranked(p)[t].rank <= Cardinality(Types)
  <2>1. /\ Rank(t) \in 0..(Cardinality(Types) + Budget) /\ Rank(t) <= Cardinality(Types)
        /\ 0 \in 0..TTL /\ 0 \in 0..(Cardinality(Types) + Budget) /\ 0 <= Cardinality(Types)
    BY <1>1, <1>2
  <2>2. p[t].next \in 0..Max(Ids) /\ p[t].left \in 0..TTL /\ p[t].done \in BOOLEAN
    OBVIOUS
  <2>3. CASE p[t].done
    <3>1. /\ Ranked(p)[t] = [next |-> p[t].next, done |-> TRUE, left |-> p[t].left,
                             rank |-> Rank(t)]
          /\ p[t].done = TRUE
      BY <1>3, <2>2, <2>3
    <3>2. Ranked(p)[t] \in Progress
      BY <2>1, <2>2, <3>1 DEF Progress
    <3>3. (Ranked(p)[t].done <=> p[t].done)
      BY <3>1
    <3>4. Ranked(p)[t].next = p[t].next /\ Ranked(p)[t].rank <= Cardinality(Types)
      BY <2>1, <3>1
    <3> QED BY <3>2, <3>3, <3>4
  <2>4. CASE ~p[t].done
    <3>1. /\ Ranked(p)[t] = [next |-> p[t].next, done |-> FALSE, left |-> 0, rank |-> 0]
          /\ p[t].done = FALSE
      BY <1>3, <2>2, <2>4
    <3>2. Ranked(p)[t] \in Progress
      BY <2>1, <2>2, <3>1 DEF Progress
    <3>3. (Ranked(p)[t].done <=> p[t].done)
      BY <3>1
    <3>4. Ranked(p)[t].next = p[t].next /\ Ranked(p)[t].rank <= Cardinality(Types)
      BY <2>1, <3>1
    <3> QED BY <3>2, <3>3, <3>4
  <2> QED BY <2>3, <2>4
<1>5. Ranked(p) \in [Types -> Progress]
  BY <1>4 DEF Ranked
<1> QED BY <1>4, <1>5

(* The progress of a type whose sweep has not begun.                         *)
LEMMA UnsweptFacts ==
  /\ Unswept \in Progress /\ Unswept.next = 0 /\ ~Unswept.done /\ Unswept.left = 0
  /\ Unswept.rank = 0
<1>1. /\ 0 \in 0..Max(Ids) /\ 0 \in 0..TTL
      /\ 0 \in 0..Cardinality(Types) + Budget
  BY IdFacts, SweepAssumption, FS_CardinalityType
<1> QED BY <1>1 DEF Unswept, Progress

(* What stands for a row that is not there.                                  *)
LEMMA NoneFacts ==
  None \in Versions /\ None.updated = 0 /\ ~None.live
<1>1. 0 \in 0..MaxClock
  BY SweepAssumption
<1> QED BY <1>1 DEF None, Versions

(* When nothing is staged, what is missed is what is behind the cursor.      *)
LEMMA IdleFacts ==
  ASSUME TypeOK, NEW r \in Rows, up[r].updated = 0 => up[r] = None,
         \A s \in Rows : staged[s] = None
  PROVE  Missed(r) <=> Behind(r)
<1>1. \A s \in RowsOf(TypeOf[r]) : staged[s].updated = 0
  BY NoneFacts DEF RowsOf
<1>2. up[r].updated \in Nat /\ staged[r] = None
  BY TypeFacts DEF TypedRow
<1> QED BY <1>1, <1>2 DEF Missed, Behind, Lacks, Reached, Cursor

(* The invariant holds in the first states.                                  *)
LEMMA SweepInit == Init => IInv
<1> SUFFICES ASSUME Init PROVE IInv
  OBVIOUS
<1> DEFINE First(b) == [t \in Types |->
               IF t \in b.done THEN [next |-> 1, done |-> TRUE, left |-> 0, rank |-> Step[t]]
               ELSE Unswept]
<1>1. PICK b \in Begin : up = b.up /\ mirror = b.mirror /\ progress = Ranked(First(b))
  BY DEF Init
<1>2. /\ up \in [Rows -> [live : BOOLEAN, updated : 0..Start]]
      /\ mirror \in [Rows -> [live : BOOLEAN, updated : 0..Start]]
      /\ \A r \in Rows :
           /\ up[r].updated = 0 => up[r] = None
           /\ mirror[r].updated <= up[r].updated
           /\ mirror[r].updated = up[r].updated => mirror[r] = up[r]
           /\ Behind(r) => ~up[r].live /\ TypeOf[r] \notin b.done
  BY <1>1, BeginAssumption DEF Behind
<1>3. /\ Start \in Nat /\ MaxClock \in Nat /\ Start <= MaxClock /\ clock = Start
      /\ Cardinality(Types) \in Nat
      /\ place = "idle" /\ late = {} /\ fresh = {} /\ spent = 0
      /\ staged = [r \in Rows |-> None] /\ work = [t \in Types |-> Unswept]
  BY SweepAssumption, FS_CardinalityType DEF Init
<1>4. /\ progress \in [Types -> Progress]
      /\ \A t \in Types : /\ progress[t].done <=> t \in b.done
                          /\ progress[t].done \/ progress[t].next = 0
                          /\ progress[t].rank <= Cardinality(Types)
  <2>1. \A t \in Types :
           /\ First(b)[t] = [next |-> First(b)[t].next, done |-> First(b)[t].done,
                             left |-> First(b)[t].left, rank |-> First(b)[t].rank]
           /\ First(b)[t].next \in 0..Max(Ids) /\ First(b)[t].done \in BOOLEAN
           /\ First(b)[t].left \in 0..TTL /\ First(b)[t].rank \in Nat
           /\ First(b)[t].done <=> t \in b.done
           /\ First(b)[t].done \/ First(b)[t].next = 0
    <3> SUFFICES ASSUME NEW t \in Types
                 PROVE  LET e == First(b)[t]
                        IN  /\ e = [next |-> e.next, done |-> e.done, left |-> e.left,
                                    rank |-> e.rank]
                            /\ e.next \in 0..Max(Ids) /\ e.done \in BOOLEAN
                            /\ e.left \in 0..TTL /\ e.rank \in Nat
                            /\ e.done <=> t \in b.done
                            /\ e.done \/ e.next = 0
      OBVIOUS
    <3>1. 0 \in 0..Max(Ids) /\ 1 \in 0..Max(Ids) /\ 0 \in 0..TTL /\ Step[t] \in Nat
      BY IdFacts, SweepAssumption
    <3>2. CASE t \in b.done
      <4>1. First(b)[t] = [next |-> 1, done |-> TRUE, left |-> 0, rank |-> Step[t]]
        BY <3>2
      <4> HIDE DEF First
      <4> QED BY <3>1, <3>2, <4>1
    <3>3. CASE t \notin b.done
      <4>1. First(b)[t] = [next |-> 0, done |-> FALSE, left |-> 0, rank |-> 0]
        BY <3>3 DEF Unswept
      <4> HIDE DEF First
      <4> QED BY <3>1, <3>3, <4>1
    <3> QED BY <3>2, <3>3
  <2> HIDE DEF First
  <2>2. /\ Ranked(First(b)) \in [Types -> Progress]
        /\ \A t \in Types : /\ Ranked(First(b))[t].done <=> First(b)[t].done
                            /\ Ranked(First(b))[t].next = First(b)[t].next
                            /\ Ranked(First(b))[t].rank <= Cardinality(Types)
    BY <2>1, RankedFacts
  <2> QED BY <1>1, <2>1, <2>2
<1>5. TypeOK
  <2>1. /\ clock \in Start..MaxClock /\ spent \in 0..Budget /\ faults \in 0..MaxFaults
    BY <1>3, SweepAssumption DEF Init
  <2>2. /\ up \in [Rows -> Versions] /\ mirror \in [Rows -> Versions]
        /\ staged \in [Rows -> Versions]
    <3>1. [live : BOOLEAN, updated : 0..Start] \subseteq Versions
      BY <1>3 DEF Versions
    <3> QED BY <1>2, <1>3, <3>1, NoneFacts
  <2>3. work \in [Types -> Progress]
    BY <1>3, UnsweptFacts
  <2> QED BY <1>4, <2>1, <2>2, <2>3 DEF TypeOK, Init
<1>6. NoLiveRowBehind /\ ProgressIsTrue
  <2>1. NoLiveRowBehind
    BY <1>2 DEF NoLiveRowBehind
  <2>2. ASSUME NEW r \in Rows, Swept(r) PROVE ~Behind(r)
    <3>1. TypeOf[r] \in Types /\ IdOf[r] \in Nat /\ IdOf[r] >= 1
      BY SweepAssumption, IdFacts
    <3>2. TypeOf[r] \in b.done
      BY <1>4, <2>2, <3>1 DEF Swept
    <3> QED BY <1>2, <3>2
  <2> QED BY <2>1, <2>2 DEF ProgressIsTrue
<1>7. ASSUME NEW r \in Rows PROVE RowOK(r) /\ TombstonesOnly(r) /\ WorkIsTrue(r)
  <2>1. up[r].updated <= clock /\ up[r].updated \in Nat /\ staged[r] = None
    BY <1>2, <1>3
  <2>2. RowOK(r)
    BY <1>2, <2>1, NoneFacts DEF RowOK
  <2>3. Missed(r) <=> Behind(r)
    BY <1>2, <1>3, <1>5, IdleFacts
  <2>4. Behind(r) => up[r].updated <= Cursor(TypeOf[r])
    BY DEF Behind, Lacks, Cursor
  <2>5. TombstonesOnly(r)
    BY <1>2, <2>3, <2>4 DEF TombstonesOnly
  <2>6. WorkIsTrue(r)
    BY <1>3 DEF WorkIsTrue
  <2> QED BY <2>2, <2>5, <2>6
<1>8. ASSUME NEW t \in Types PROVE TypeStateOK(t)
  <2>1. StartOK(progress, t)
    BY <1>4 DEF StartOK
  <2>2. RankOK(t)
    BY <1>3, <1>4, UnsweptFacts DEF RankOK
  <2>3. FreshOK(t)
    BY <1>3 DEF FreshOK
  <2> QED BY <1>3, <2>1, <2>2, <2>3 DEF TypeStateOK
<1> QED BY <1>5, <1>6, <1>7, <1>8 DEF IInv

-----------------------------------------------------------------------------
(* The steps.                                                                *)

(* Upstream: the changed row is newer than all cursors and staged rows.      *)
LEMMA ChangeStep ==
  ASSUME IInv, NEW c \in Rows, Change(c)
  PROVE  IInv'
<1>1. /\ clock' = clock + 1 /\ clock < MaxClock /\ mirror' = mirror /\ progress' = progress
      /\ memo' = memo /\ place' = place /\ restart' = restart /\ staged' = staged
      /\ fresh' = fresh /\ work' = work /\ queue' = queue /\ spent' = spent
      /\ faults' = faults /\ late' = late
  BY DEF Change, cycle
<1>2. PICK live \in BOOLEAN : up' = [up EXCEPT ![c] = [live |-> live, updated |-> clock']]
  BY DEF Change
<1>3. TypeOK /\ clock \in Nat /\ clock' \in 0..MaxClock /\ clock' \in Start..MaxClock /\ clock' > 0
  <2>1. TypeOK /\ clock \in Start..MaxClock /\ Start \in Nat /\ MaxClock \in Nat
    BY SweepAssumption DEF IInv, TypeOK
  <2> QED BY <1>1, <2>1
<1>4. /\ up' \in [Rows -> Versions]
      /\ up'[c].updated = clock' /\ \A r \in Rows \ {c} : up'[r] = up[r]
  <2>1. [live |-> live, updated |-> clock'] \in Versions
    BY <1>3 DEF Versions
  <2> QED BY <1>2, <1>3, <2>1 DEF TypeOK
<1>5. TypeOK'
  BY <1>1, <1>3, <1>4 DEF TypeOK
<1>6. \A r \in Rows : /\ mirror[r].updated \in Nat /\ mirror[r].updated <= clock
                      /\ staged[r].updated \in Nat /\ staged[r].updated <= clock
                      /\ up[r].updated \in Nat /\ up[r].updated <= clock
  BY <1>3, TypeFacts DEF IInv, RowOK, TypedRow
<1>7. \A t : Cursor(t) \in Nat /\ Cursor(t) <= clock /\ Cursor(t)' = Cursor(t)
  <2>1. \A t : Cursor(t)' = Cursor(t)
    BY <1>1 DEF Cursor, Newest, RowsOf
  <2>2. \A t : Cursor(t) \in Nat /\ Cursor(t) <= clock
    BY <1>3, <1>6, CursorFacts DEF RowsOf
  <2> QED BY <2>1, <2>2
<1>8. ~Missed(c)' /\ ~Behind(c)'
  <2>1. clock' > Cursor(TypeOf[c])
    BY <1>1, <1>3, <1>7
  <2>2. \A s \in RowsOf(TypeOf[c]) : ~(clock' <= staged[s].updated)
    BY <1>1, <1>3, <1>6 DEF RowsOf
  <2>3. ~(clock' <= Cursor(TypeOf[c]))
    BY <1>3, <1>7, <2>1
  <2>4. ~Reached(c)'
    BY <1>1, <1>4, <1>7, <2>2, <2>3 DEF Reached, RowsOf
  <2>5. ~Behind(c)'
    BY <1>1, <1>4, <1>7, <2>3 DEF Behind, Lacks, Cursor
  <2> QED BY <2>4, <2>5 DEF Missed
<1>9. \A r \in Rows \ {c} : (Missed(r)' <=> Missed(r)) /\ (Behind(r)' <=> Behind(r))
  BY <1>1, <1>4, <1>7 DEF Missed, Reached, Behind, Lacks, Cursor, Newest, RowsOf
<1>10. NoLiveRowBehind' /\ ProgressIsTrue'
  <2>1. NoLiveRowBehind'
    BY <1>4, <1>8, <1>9 DEF IInv, NoLiveRowBehind
  <2>2. \A r \in Rows : Swept(r)' <=> Swept(r)
    BY <1>1 DEF Swept
  <2> QED BY <1>1, <1>8, <1>9, <2>1, <2>2 DEF IInv, ProgressIsTrue
<1>11. ASSUME NEW r \in Rows PROVE RowOK(r)' /\ TombstonesOnly(r)' /\ WorkIsTrue(r)'
  <2>1. RowOK(r) /\ TombstonesOnly(r) /\ WorkIsTrue(r)
    BY DEF IInv
  <2>2. CASE r = c
    <3>1. RowOK(r)'
      BY <1>1, <1>3, <1>4, <1>6, <2>1, <2>2 DEF RowOK
    <3> QED BY <1>8, <2>2, <3>1 DEF TombstonesOnly, WorkIsTrue
  <2>3. CASE r # c
    <3>1. up'[r] = up[r] /\ (Missed(r)' <=> Missed(r))
      BY <1>4, <1>9, <2>3
    <3>2. RowOK(r)'
      BY <1>1, <1>3, <1>6, <2>1, <3>1 DEF RowOK
    <3>3. TombstonesOnly(r)'
      BY <1>7, <2>1, <3>1 DEF TombstonesOnly
    <3>4. WorkIsTrue(r)'
      BY <1>1, <2>1, <3>1 DEF WorkIsTrue, SweptBy, Excepted
    <3> QED BY <3>2, <3>3, <3>4
  <2> QED BY <2>2, <2>3
<1>12. ASSUME NEW t \in Types PROVE TypeStateOK(t)'
  <2>1. TypeStateOK(t)
    BY DEF IInv
  <2> QED BY <1>1, <1>7, <2>1 DEF TypeStateOK, StartOK, FreshOK, RankOK, RowsOf
<1> QED BY <1>5, <1>10, <1>11, <1>12 DEF IInv

(* A step of the cycle that stages and commits nothing keeps what is true of *)
(* the rows and of the stored progress.                                      *)
LEMMA FrameFacts ==
  ASSUME IInv, UNCHANGED <<clock, up, mirror, progress, staged, late>>, place' # "idle"
  PROVE  /\ NoLiveRowBehind' /\ ProgressIsTrue'
         /\ \A t : Cursor(t)' = Cursor(t)
         /\ \A r \in Rows : (Missed(r)' <=> Missed(r)) /\ RowOK(r)' /\ TombstonesOnly(r)'
<1>1. \A t : Cursor(t)' = Cursor(t)
  BY DEF Cursor, Newest, RowsOf
<1>2. \A r \in Rows : (Missed(r)' <=> Missed(r)) /\ (Behind(r)' <=> Behind(r))
  BY <1>1 DEF Missed, Reached, Behind, Lacks, Cursor, Newest, RowsOf
<1>3. NoLiveRowBehind'
  BY <1>2 DEF IInv, NoLiveRowBehind
<1>4. ProgressIsTrue'
  BY <1>2 DEF IInv, ProgressIsTrue, Swept
<1>5. \A r \in Rows : RowOK(r)'
  BY DEF IInv, RowOK
<1>6. \A r \in Rows : TombstonesOnly(r)'
  BY <1>1, <1>2 DEF IInv, TombstonesOnly
<1> QED BY <1>1, <1>2, <1>3, <1>4, <1>5, <1>6

(* What is left to show of such a step: its working progress.                *)
LEMMA SweepStep ==
  ASSUME IInv, UNCHANGED <<clock, up, mirror, progress, staged, late>>,
         place' \in {"sweep", "swept"}, TypeOK', fresh' \subseteq fresh,
         \A r \in Rows : SweptBy(work', r) /\ ~Excepted(TypeOf[r])' => ~Missed(r),
         \A t \in Types : /\ ~work'[t].done /\ Cursor(t) = 0 => work'[t].next <= 1
                          /\ work'[t].rank <= Cardinality(Types) + spent'
  PROVE  IInv'
<1>1. /\ NoLiveRowBehind' /\ ProgressIsTrue'
      /\ \A t : Cursor(t)' = Cursor(t)
      /\ \A r \in Rows : (Missed(r)' <=> Missed(r)) /\ RowOK(r)' /\ TombstonesOnly(r)'
  BY FrameFacts
<1>2. \A r \in Rows : WorkIsTrue(r)'
  BY <1>1 DEF WorkIsTrue, SweptBy
<1>3. ASSUME NEW t \in Types PROVE TypeStateOK(t)'
  <2>1. TypeStateOK(t)
    BY DEF IInv
  <2>2. StartOK(progress, t)' /\ StartOK(work, t)' /\ (t \in late' => progress'[t].done)
    BY <1>1, <2>1 DEF TypeStateOK, StartOK
  <2>3. RankOK(t)'
    BY <2>1 DEF TypeStateOK, RankOK
  <2>4. FreshOK(t)'
    BY <1>1, <2>1 DEF TypeStateOK, FreshOK
  <2> QED BY <2>2, <2>3, <2>4 DEF TypeStateOK
<1> QED BY <1>1, <1>2, <1>3 DEF IInv

(* After the normal fetch, what the stored progress says is swept is not     *)
(* missed: an old tombstone is in the mirror, and a type that is empty has   *)
(* nothing staged, is an exception or has not been swept.                    *)
LEMMA StoredIsTrue ==
  ASSUME IInv, place = "fetched", NEW r \in Rows, SweptBy(progress, r),
         ~(progress[TypeOf[r]].done /\ TypeOf[r] \in late \cup fresh)
  PROVE  ~Missed(r)
<1> DEFINE T == TypeOf[r]
<1> SUFFICES ASSUME Missed(r) PROVE FALSE
  OBVIOUS
<1>1. /\ T \in Types /\ r \in RowsOf(T) /\ Cursor(T) \in Nat
      /\ IdOf[r] \in Nat /\ IdOf[r] >= 1
      /\ up[r].updated \in Nat /\ progress[T].next \in Nat
  BY TypeFacts, CursorFacts, IdFacts DEF IInv, RowsOf, TypedRow
<1>2. TypeStateOK(T) /\ RowOK(r) /\ TombstonesOnly(r)
  BY <1>1 DEF IInv
<1>3. CASE up[r].updated <= Cursor(T)
  <2>1. Behind(r)
    BY <1>3 DEF Missed, Behind, Lacks, Cursor
  <2>2. T \notin late
    BY <1>2 DEF TypeStateOK
  <2> QED BY <2>1, <2>2 DEF IInv, ProgressIsTrue, Swept, SweptBy
<1>4. CASE ~(up[r].updated <= Cursor(T))
  <2>1. Cursor(T) = 0
    BY <1>2, <1>4 DEF TombstonesOnly
  <2>2. CASE T \in fresh
    <3>1. ~progress[T].done /\ progress[T].next <= 1
      BY <1>2, <2>1, <2>2 DEF TypeStateOK, StartOK
    <3> QED BY <1>1, <3>1 DEF SweptBy
  <2>3. CASE T \notin fresh
    <3>1. \A s \in RowsOf(T) : staged[s].updated = 0
      BY <1>2, <2>1, <2>3, NoneFacts DEF TypeStateOK, FreshOK
    <3>2. up[r].updated = 0
      BY <1>1, <1>4, <3>1 DEF Missed, Reached
    <3> QED BY <1>2, <3>2 DEF Missed, RowOK
  <2> QED BY <2>2, <2>3
<1> QED BY <1>3, <1>4

(* The cycle enters the sweep, or goes on without one.                       *)
LEMMA BeginStep ==
  ASSUME IInv, BeginSweep \/ SkipSweep
  PROVE  IInv'
<1>1. /\ UNCHANGED <<clock, up, mirror, progress, staged, late>>
      /\ memo' = memo /\ fresh' = fresh /\ restart' = restart
      /\ place = "fetched" /\ place' \in {"sweep", "swept"}
  BY DEF BeginSweep, SkipSweep
<1>2. /\ TypeOK /\ spent \in Nat /\ Budget \in Nat /\ Cardinality(Types) \in Nat
      /\ TypeOf \in [Rows -> Types]
      /\ \A t \in Types : TypeStateOK(t) /\ progress[t].rank \in Nat
  BY TypeFacts DEF IInv
<1>3. faults' \in 0..MaxFaults /\ spent' \in 0..Budget /\ queue' \subseteq Types
  BY <1>2, SweepAssumption DEF TypeOK, BeginSweep, SkipSweep
<1>4. CASE work' = [t \in Types |-> Unswept]
  <2>1. \A t \in Types : work'[t].next = 0 /\ ~work'[t].done /\ work'[t].rank = 0
    BY <1>4, UnsweptFacts
  <2>2. TypeOK'
    <3>1. work' \in [Types -> Progress]
      BY <1>4, UnsweptFacts
    <3> QED BY <1>1, <1>2, <1>3, <3>1 DEF TypeOK
  <2>3. \A r \in Rows : ~SweptBy(work', r)
    BY <1>2, <2>1, IdFacts DEF SweptBy
  <2>4. \A t \in Types : work'[t].next <= 1 /\ work'[t].rank <= Cardinality(Types) + spent'
    BY <1>2, <1>3, <2>1
  <2> QED BY <1>1, <2>2, <2>3, <2>4, SweepStep
<1>5. CASE work' = progress
  <2>1. TypeOK'
    BY <1>1, <1>2, <1>3, <1>5 DEF TypeOK
  <2>2. ASSUME NEW r \in Rows, SweptBy(work', r), ~Excepted(TypeOf[r])' PROVE ~Missed(r)
    BY <1>1, <1>5, <2>2, StoredIsTrue DEF Excepted
  <2>3. \A t \in Types : /\ ~work'[t].done /\ Cursor(t) = 0 => work'[t].next <= 1
                         /\ work'[t].rank <= Cardinality(Types) + spent'
    <3> SUFFICES ASSUME NEW t \in Types
                 PROVE  /\ ~work'[t].done /\ Cursor(t) = 0 => work'[t].next <= 1
                        /\ work'[t].rank <= Cardinality(Types) + spent'
      OBVIOUS
    <3>1. StartOK(progress, t) /\ progress[t].rank <= Cardinality(Types)
      BY <1>2 DEF TypeStateOK, RankOK
    <3>2. progress[t].rank \in Nat /\ spent' \in Nat
      BY <1>2, <1>3
    <3> QED BY <1>2, <1>5, <3>1, <3>2 DEF StartOK
  <2> QED BY <1>1, <2>1, <2>2, <2>3, SweepStep
<1> QED BY <1>4, <1>5 DEF BeginSweep, SkipSweep

(* The window that a type sends next is within its ids.                      *)
LEMMA SendFacts ==
  ASSUME IInv, NEW t \in Types, Send(t)
  PROVE  /\ place = "sweep" /\ t \notin fresh
         /\ From(t) \in 1..Max(Ids)
         /\ (Cursor(t) # 0 => From(t) >= work[t].next)
         /\ (~IsLast(t, From(t)) => From(t) + Width[t] \in 1..Max(Ids))
         /\ memo' \subseteq [window : Windows, left : 1..TTL]
         /\ spent' = spent + 1 /\ spent' \in 0..Budget
<1>1. /\ TypeOK /\ TypeStateOK(t) /\ work[t].next \in Nat /\ spent \in Nat /\ Budget \in Nat
      /\ Max(Ids) \in Nat /\ Max(Ids) >= 1 /\ MaxId(t) \in Nat /\ MaxId(t) <= Max(Ids)
      /\ Width[t] \in Nat /\ TTL \in 1..TTL
  BY TypeFacts, IdFacts, MaxIdFacts, SweepAssumption DEF IInv
<1>2. work[t].next <= Max(Ids)
  BY <1>1 DEF TypeOK, Progress
<1>3. From(t) \in 1..Max(Ids) /\ (Cursor(t) # 0 => From(t) >= work[t].next)
  <2>1. Max({work[t].next, 1}) = IF work[t].next <= 1 THEN 1 ELSE work[t].next
    BY <1>1, PairBounds
  <2> QED BY <1>1, <1>2, <2>1 DEF From
<1>4. ~IsLast(t, From(t)) => From(t) + Width[t] \in 1..Max(Ids)
  BY <1>1, <1>3 DEF IsLast
<1>5. Window(t) \in Windows
  <2>1. (IF Cursor(t) = 0 \/ IsLast(t, From(t)) THEN 0 ELSE From(t) + Width[t]) \in 0..Max(Ids)
    BY <1>1, <1>4
  <2>2. (Cursor(t) = 0 /\ t \notin AllStatuses) \in BOOLEAN
    OBVIOUS
  <2> QED BY <1>3, <2>1, <2>2 DEF Window, Windows
<1>6. memo' \subseteq [window : Windows, left : 1..TTL]
  BY <1>1, <1>5 DEF Send, TypeOK
<1>7. spent' = spent + 1 /\ spent' \in 0..Budget /\ place = "sweep" /\ t \notin fresh
  BY <1>1 DEF Send, Wanted, AtType, TypeOK
<1> QED BY <1>3, <1>4, <1>6, <1>7

(* A step that leaves the working progress as it is.                         *)
LEMMA SameWorkStep ==
  ASSUME IInv, UNCHANGED <<clock, up, mirror, progress, staged, late, fresh, work>>,
         place = "sweep", place' \in {"sweep", "swept"}, TypeOK', spent' >= spent
  PROVE  IInv'
<1>1. \A r \in Rows : WorkIsTrue(r)
  BY DEF IInv
<1>2. \A r \in Rows : SweptBy(work', r) /\ ~Excepted(TypeOf[r])' => ~Missed(r)
  BY <1>1 DEF WorkIsTrue, Excepted
<1>3. ASSUME NEW t \in Types
      PROVE  /\ ~work'[t].done /\ Cursor(t) = 0 => work'[t].next <= 1
             /\ work'[t].rank <= Cardinality(Types) + spent'
  <2>1. StartOK(work, t) /\ work[t].rank <= Cardinality(Types) + spent
    BY DEF IInv, TypeStateOK, RankOK
  <2>2. work[t].rank \in Nat /\ spent \in Nat /\ spent' \in Nat /\ Cardinality(Types) \in Nat
    BY TypeFacts, SweepAssumption DEF IInv, TypeOK
  <2> QED BY <2>1, <2>2 DEF StartOK
<1> QED BY <1>2, <1>3, SweepStep

(* A type with nothing to sweep, the end of the sweep and a failed window.   *)
LEMMA QuietStep ==
  ASSUME IInv, StopSweep \/ \E t \in Types : PassType(t) \/ WindowFails(t)
  PROVE  IInv'
<1>1. TypeOK /\ spent \in Nat /\ Budget \in Nat
  BY TypeFacts DEF IInv
<1>2. CASE StopSweep
  <2>1. place = "sweep"
    BY <1>2 DEF StopSweep, Wanted, AtType
  <2>2. TypeOK'
    BY <1>1, <1>2 DEF StopSweep, TypeOK
  <2> QED BY <1>1, <1>2, <2>1, <2>2, SameWorkStep DEF StopSweep
<1>3. ASSUME NEW t \in Types, PassType(t) PROVE IInv'
  <2>1. place = "sweep" /\ queue' \subseteq queue
    BY <1>3 DEF PassType, AtType
  <2>2. TypeOK'
    BY <1>1, <1>3, <2>1 DEF PassType, TypeOK
  <2> QED BY <1>1, <1>3, <2>1, <2>2, SameWorkStep DEF PassType
<1>4. ASSUME NEW t \in Types, WindowFails(t) PROVE IInv'
  <2>1. Send(t)
    BY <1>4 DEF WindowFails
  <2>2. /\ place = "sweep" /\ memo' \subseteq [window : Windows, left : 1..TTL]
        /\ spent' = spent + 1 /\ spent' \in 0..Budget
    BY <2>1, SendFacts
  <2>3. faults' \in 0..MaxFaults
    BY <1>1, <1>4, SweepAssumption DEF WindowFails, TypeOK
  <2>4. TypeOK'
    BY <1>1, <1>4, <2>2, <2>3 DEF WindowFails, AfterFailure, TypeOK
  <2> QED BY <1>1, <1>4, <2>2, <2>4, SameWorkStep DEF WindowFails, AfterFailure
<1> QED BY <1>2, <1>3, <1>4

(* A type whose cursor the normal commit establishes first starts anew.      *)
LEMMA WaitStep ==
  ASSUME IInv, NEW t \in Types, WaitForCursor(t)
  PROVE  IInv'
<1>1. /\ UNCHANGED <<clock, up, mirror, progress, staged, late, memo, restart, queue, spent,
                     faults>>
      /\ place = "sweep" /\ place' = "swept" /\ t \in fresh /\ fresh' = fresh \ {t}
      /\ work' = Reopened(t)
  BY DEF WaitForCursor, AtType
<1>2. /\ TypeOK /\ spent \in Nat /\ Cardinality(Types) \in Nat
      /\ TypeOf \in [Rows -> Types]
      /\ \A s \in Types : TypeStateOK(s) /\ work[s].rank \in Nat /\ work[s].next \in Nat
  BY TypeFacts DEF IInv
<1>3. /\ work' \in [Types -> Progress] /\ \A s \in Types \ {t} : work'[s] = work[s]
      /\ ~work'[t].done /\ work'[t].next <= 1 /\ work'[t].rank <= Cardinality(Types) + spent
  <2>1. work \in [Types -> Progress] /\ Cursor(t) = 0
    BY <1>1, <1>2 DEF TypeOK, TypeStateOK, FreshOK
  <2>2. CASE work[t].done
    <3>1. work' = [work EXCEPT ![t] = Unswept]
      BY <1>1, <2>2 DEF Reopened
    <3>2. work'[t] = Unswept
      BY <2>1, <3>1
    <3>3. Unswept.next <= 1 /\ Unswept.rank <= Cardinality(Types) + spent
      BY <1>2, UnsweptFacts
    <3> QED BY <2>1, <3>1, <3>2, <3>3, UnsweptFacts
  <2>3. CASE ~work[t].done
    <3>1. work' = work
      BY <1>1, <2>3 DEF Reopened
    <3>2. StartOK(work, t) /\ work[t].rank <= Cardinality(Types) + spent
      BY <1>1, <1>2 DEF TypeStateOK, RankOK
    <3> QED BY <2>1, <2>3, <3>1, <3>2 DEF StartOK
  <2> QED BY <2>2, <2>3
<1>4. TypeOK'
  BY <1>1, <1>2, <1>3 DEF TypeOK
<1>5. ASSUME NEW r \in Rows, SweptBy(work', r), ~Excepted(TypeOf[r])' PROVE ~Missed(r)
  <2>1. TypeOf[r] \in Types /\ IdOf[r] \in Nat /\ IdOf[r] >= 1
    BY <1>2, IdFacts
  <2>2. CASE TypeOf[r] = t
    <3>1. work'[t].next \in Nat
      BY <1>3, IdFacts DEF Progress
    <3> QED BY <1>3, <1>5, <2>1, <2>2, <3>1 DEF SweptBy
  <2>3. CASE TypeOf[r] # t
    <3>1. SweptBy(work, r) /\ ~Excepted(TypeOf[r])
      BY <1>1, <1>3, <1>5, <2>1, <2>3 DEF SweptBy, Excepted
    <3> QED BY <1>1, <3>1 DEF IInv, WorkIsTrue
  <2> QED BY <2>2, <2>3
<1>6. ASSUME NEW s \in Types
      PROVE  /\ ~work'[s].done /\ Cursor(s) = 0 => work'[s].next <= 1
             /\ work'[s].rank <= Cardinality(Types) + spent'
  <2>1. StartOK(work, s) /\ work[s].rank <= Cardinality(Types) + spent
    BY <1>1, <1>2 DEF TypeStateOK, RankOK
  <2>2. CASE s = t
    BY <1>1, <1>3, <2>2
  <2>3. CASE s # t
    BY <1>1, <1>3, <2>1, <2>3 DEF StartOK
  <2> QED BY <2>2, <2>3
<1> QED BY <1>1, <1>4, <1>5, <1>6, SweepStep

(* The normal fetch: it stages what is newer than the cursor, and of a type  *)
(* that is empty all live rows or nothing.                                   *)
LEMMA FetchStep ==
  ASSUME IInv, NEW again \in BOOLEAN, Fetch(again)
  PROVE  IInv'
<1>1. /\ UNCHANGED <<clock, up, mirror, progress, memo, work, queue, spent, late>>
      /\ place = "idle" /\ place' = "fetched" /\ restart' = again
      /\ staged' = [r \in Rows |-> IF r \in NormalFetch(TypeOf[r]) THEN up[r] ELSE None]
      /\ fresh' = {t \in Types : Cursor(t) = 0 /\ NormalFetch(t) # {}}
  BY DEF Fetch
<1>2. TypeOK /\ TypeOf \in [Rows -> Types]
  BY TypeFacts DEF IInv
<1>3. \A t : Cursor(t)' = Cursor(t)
  BY <1>1 DEF Cursor, Newest, RowsOf
<1>4. \A r \in Rows : /\ up[r].updated \in Nat /\ TypeOf[r] \in Types /\ r \in RowsOf(TypeOf[r])
                      /\ Cursor(TypeOf[r]) \in Nat
  BY <1>2, TypeFacts, CursorFacts DEF RowsOf, TypedRow
<1>5. TypeOK'
  <2>1. staged' \in [Rows -> Versions]
    BY <1>1, <1>2, NoneFacts DEF TypeOK
  <2>2. faults' \in 0..MaxFaults
    BY <1>2, SweepAssumption DEF Fetch, TypeOK
  <2> QED BY <1>1, <1>2, <2>1, <2>2 DEF TypeOK
<1>6. NoLiveRowBehind' /\ ProgressIsTrue'
  <2>1. \A r \in Rows : Behind(r)' <=> Behind(r)
    BY <1>1 DEF Behind, Lacks, Newest, RowsOf
  <2> QED BY <1>1, <2>1 DEF IInv, NoLiveRowBehind, ProgressIsTrue, Swept
<1>7. ASSUME NEW r \in Rows PROVE RowOK(r)' /\ TombstonesOnly(r)' /\ WorkIsTrue(r)'
  <2> DEFINE T == TypeOf[r]
  <2>1. RowOK(r) /\ r \in RowsOf(T) /\ up[r].updated \in Nat /\ Cursor(T) \in Nat
    BY <1>4 DEF IInv
  <2>2. RowOK(r)'
    <3>1. CASE staged'[r] = up[r]
      BY <1>1, <2>1, <3>1 DEF RowOK
    <3>2. CASE staged'[r] = None
      BY <1>1, <2>1, <3>2, NoneFacts DEF RowOK
    <3> QED BY <1>1, <3>1, <3>2
  <2>3. TombstonesOnly(r)'
    <3>1. SUFFICES ASSUME Missed(r)'
                   PROVE  ~up[r].live /\ (Cursor(T) # 0 => up[r].updated <= Cursor(T))
      BY <1>1, <1>3 DEF TombstonesOnly
    <3>2. /\ up[r] # None /\ staged'[r] # up[r] /\ mirror[r] # up[r]
          /\ \/ up[r].updated <= Cursor(T)
             \/ \E s \in RowsOf(T) : up[r].updated <= staged'[s].updated
      BY <1>1, <1>3, <3>1 DEF Missed, Reached, RowsOf
    <3>3. r \notin NormalFetch(T)
      BY <1>1, <3>2
    <3>4. CASE up[r].updated <= Cursor(T)
      <4>1. Behind(r)
        BY <3>2, <3>4 DEF Behind, Lacks, Cursor
      <4> QED BY <3>4, <4>1 DEF IInv, NoLiveRowBehind
    <3>5. CASE ~(up[r].updated <= Cursor(T))
      <4>1. Cursor(T) = 0
        BY <2>1, <3>3, <3>5 DEF NormalFetch
      <4>2. PICK s \in RowsOf(T) : up[r].updated <= staged'[s].updated
        BY <3>2, <3>5
      <4>3. up[r].updated # 0
        BY <2>1, <3>2 DEF RowOK
      <4>4. s \in Rows /\ TypeOf[s] = T
        BY <4>2 DEF RowsOf
      <4>5. s \in NormalFetch(T)
        <5>1. staged'[s] = None => up[r].updated <= 0
          BY <4>2, NoneFacts
        <5>2. staged'[s] # None
          BY <2>1, <4>3, <5>1
        <5> QED BY <1>1, <4>4, <5>2
      <4>6. LiveNewest(T) # 0
        BY <4>1, <4>5 DEF NormalFetch
      <4>7. ~up[r].live
        BY <2>1, <3>3, <4>1, <4>6 DEF NormalFetch
      <4> QED BY <4>1, <4>7
    <3> QED BY <3>4, <3>5
  <2> QED BY <1>1, <2>2, <2>3 DEF WorkIsTrue
<1>8. ASSUME NEW t \in Types PROVE TypeStateOK(t)'
  <2>1. TypeStateOK(t)
    BY DEF IInv
  <2>2. FreshOK(t)'
    <3>1. t \in fresh' => Cursor(t) = 0
      BY <1>1
    <3>2. ASSUME Cursor(t) = 0, t \notin fresh', NEW r \in RowsOf(t) PROVE staged'[r] = None
      <4>1. NormalFetch(t) = {} /\ r \in Rows /\ TypeOf[r] = t
        BY <1>1, <3>2 DEF RowsOf
      <4> QED BY <1>1, <4>1
    <3> QED BY <1>3, <3>1, <3>2 DEF FreshOK, RowsOf
  <2> QED BY <1>1, <1>3, <2>1, <2>2 DEF TypeStateOK, StartOK, RankOK
<1> QED BY <1>5, <1>6, <1>7, <1>8 DEF IInv

(* The rank and the place of a window that arrived.                          *)
LEMMA AdvancedFacts ==
  ASSUME IInv, NEW t \in Types, Send(t)
  PROVE  /\ Advanced(t) \in [Types -> Progress]
         /\ \A s \in Types \ {t} : Advanced(t)[s] = work[s]
         /\ Advanced(t)[t].done <=> (Cursor(t) = 0 \/ IsLast(t, From(t)))
         /\ Advanced(t)[t].done \/ Advanced(t)[t].next = From(t) + Width[t]
         /\ Advanced(t)[t].rank <= Cardinality(Types) + spent'
<1> DEFINE R == {work[s].rank : s \in Types}
           ended == Cursor(t) = 0 \/ IsLast(t, From(t))
           e == [next |-> IF ended THEN From(t) ELSE From(t) + Width[t], done |-> ended,
                 left |-> TTL, rank |-> Max(R) + 1]
<1>1. /\ TypeOK /\ spent \in Nat /\ Cardinality(Types) \in Nat /\ Budget \in Nat
      /\ Max(Ids) \in Nat /\ TTL \in 0..TTL
      /\ \A s \in Types : work[s].rank \in Nat /\ work[s].rank <= Cardinality(Types) + spent
  BY TypeFacts, IdFacts, SweepAssumption DEF IInv, TypeStateOK, RankOK, Send, Wanted, AtType
<1>2. /\ From(t) \in 1..Max(Ids)
      /\ ~IsLast(t, From(t)) => From(t) + Width[t] \in 1..Max(Ids)
      /\ spent' = spent + 1 /\ spent' \in 0..Budget
  BY SendFacts
<1>3. Max(R) \in Nat /\ Max(R) <= Cardinality(Types) + spent
  <2>1. /\ R \in SUBSET Nat /\ R # {} /\ Cardinality(Types) + spent \in Nat
        /\ \A y \in R : y <= Cardinality(Types) + spent
    BY <1>1
  <2> HIDE DEF R
  <2>2. Max(R) \in R
    BY <2>1, MaxExists
  <2> QED BY <2>1, <2>2
<1> HIDE DEF R
<1>4. e.next \in 0..Max(Ids) /\ e.done \in BOOLEAN /\ e.left \in 0..TTL
  BY <1>1, <1>2
<1>5. Max(R) + 1 \in 0..(Cardinality(Types) + Budget) /\ Max(R) + 1 <= Cardinality(Types) + spent'
  BY <1>1, <1>2, <1>3
<1>6. e \in Progress
  <2>1. (IF ended THEN From(t) ELSE From(t) + Width[t]) \in 0..Max(Ids) /\ ended \in BOOLEAN
    BY <1>4
  <2> HIDE DEF ended
  <2> QED BY <1>1, <1>5, <2>1 DEF Progress
<1>7. Advanced(t) = [work EXCEPT ![t] = e]
  BY DEF Advanced, R
<1>8. work \in [Types -> Progress]
  BY <1>1 DEF TypeOK
<1>9. /\ Advanced(t) \in [Types -> Progress] /\ Advanced(t)[t] = e
      /\ \A s \in Types \ {t} : Advanced(t)[s] = work[s]
  <2> HIDE DEF e
  <2> QED BY <1>6, <1>7, <1>8
<1>10. e.done <=> ended
  OBVIOUS
<1>11. e.done \/ e.next = From(t) + Width[t]
  OBVIOUS
<1>12. e.rank <= Cardinality(Types) + spent'
  BY <1>5
<1> HIDE DEF e
<1> QED BY <1>9, <1>10, <1>11, <1>12

(* A window of a type that has rows: what it newly sweeps was upstream       *)
(* before the cursor, and is staged.                                         *)
LEMMA WindowOfRows ==
  ASSUME IInv, NEW t \in Types, WindowArrives(t), Cursor(t) # 0,
         NEW r \in RowsOf(t), Missed(r)'
  PROVE  Missed(r) /\ ~SweptBy(work', r)
<1>1. /\ UNCHANGED <<clock, up, mirror>> /\ Send(t) /\ work' = Advanced(t)
      /\ staged' = [s \in Rows |->
                      IF s \in Kept(t, Window(t)) /\ up[s].updated > staged[s].updated
                      THEN up[s] ELSE staged[s]]
  BY DEF WindowArrives
<1>2. /\ TypeOK /\ r \in Rows /\ TypeOf[r] = t /\ IdOf[r] \in Nat /\ IdOf[r] >= 1
      /\ up[r].updated \in Nat /\ staged[r].updated \in Nat
      /\ RowOK(r) /\ TombstonesOnly(r) /\ WorkIsTrue(r)
      /\ Cursor(t) \in Nat /\ Width[t] \in Nat /\ work[t].next \in Nat
      /\ Cursor(t)' = Cursor(t)
  <2>1. r \in Rows /\ TypeOf[r] = t
    BY DEF RowsOf
  <2>2. Cursor(t)' = Cursor(t)
    BY <1>1 DEF Cursor, Newest, RowsOf
  <2> QED BY <2>1, <2>2, TypeFacts, CursorFacts, IdFacts, SweepAssumption DEF IInv, TypedRow
<1>3. /\ up[r] # None /\ staged'[r] # up[r] /\ mirror[r] # up[r]
      /\ \/ up[r].updated <= Cursor(t)
         \/ \E s \in RowsOf(t) : up[r].updated <= staged'[s].updated
  BY <1>1, <1>2 DEF Missed, Reached, RowsOf
<1>4. staged[r] # up[r]
  BY <1>1, <1>2, <1>3
<1>5. Reached(r)
  <2>1. CASE up[r].updated <= Cursor(t)
    BY <1>2, <2>1 DEF Reached
  <2>2. CASE \E s \in RowsOf(t) : up[r].updated <= staged'[s].updated
    <3>1. PICK s \in RowsOf(t) : up[r].updated <= staged'[s].updated
      BY <2>2
    <3>2. s \in Rows /\ up[s].updated \in Nat /\ TypeOf[s] = t
      BY <3>1, <1>2, TypeFacts DEF RowsOf, TypedRow
    <3>3. CASE staged'[s] = staged[s]
      BY <1>2, <3>1, <3>3 DEF Reached
    <3>4. CASE staged'[s] # staged[s]
      <4>1. s \in Kept(t, Window(t)) /\ staged'[s] = up[s]
        BY <1>1, <3>2, <3>4
      <4>2. up[s].updated <= Cursor(t)
        BY <4>1 DEF Kept
      <4>3. up[r].updated <= Cursor(t)
        BY <1>2, <3>1, <3>2, <4>1, <4>2
      <4> QED BY <1>2, <4>3 DEF Reached
    <3> QED BY <3>3, <3>4
  <2> QED BY <1>3, <2>1, <2>2
<1>6. Missed(r)
  BY <1>3, <1>4, <1>5 DEF Missed
<1>7. ~up[r].live /\ up[r].updated <= Cursor(t)
  BY <1>2, <1>6 DEF TombstonesOnly
<1>8. r \notin Kept(t, Window(t))
  <2>1. SUFFICES ASSUME r \in Kept(t, Window(t)) PROVE FALSE
    OBVIOUS
  <2>2. ~(up[r].updated > staged[r].updated)
    BY <1>1, <1>2, <1>3, <2>1
  <2>3. staged[r].updated = up[r].updated
    BY <1>2, <2>2 DEF RowOK
  <2> QED BY <1>2, <1>4, <2>3 DEF RowOK
<1>9. /\ place = "sweep" /\ From(t) \in Nat
      /\ From(t) >= work[t].next /\ ~work[t].done
      /\ From(t) = Max({work[t].next, 1})
  <2>1. place = "sweep" /\ From(t) \in 1..Max(Ids) /\ From(t) >= work[t].next
    BY <1>1, SendFacts
  <2>2. ~work[t].done
    BY <1>1 DEF Send, Wanted, CheckedAgain
  <2> QED BY <2>1, <2>2 DEF From
<1>10. IdOf[r] >= From(t)
  <2>1. ~SweptBy(work, r)
    BY <1>2, <1>6, <1>9 DEF WorkIsTrue, Excepted
  <2>2. IdOf[r] >= work[t].next
    BY <1>2, <2>1 DEF SweptBy
  <2>3. From(t) = IF work[t].next <= 1 THEN 1 ELSE work[t].next
    BY <1>2, <1>9, PairBounds
  <2> QED BY <1>2, <2>2, <2>3
<1>11. /\ Window(t).from = From(t)
       /\ Window(t).to = IF IsLast(t, From(t)) THEN 0 ELSE From(t) + Width[t]
  BY DEF Window
<1>12. ~IsLast(t, From(t)) /\ ~(IdOf[r] < From(t) + Width[t])
  <2>1. /\ r \in RowsOf(t) /\ up[r] # None /\ ~up[r].live /\ up[r].updated <= Cursor(t)
        /\ IdOf[r] >= Window(t).from
    BY <1>3, <1>7, <1>10, <1>11
  <2>2. ~(Window(t).to # 0 => IdOf[r] < Window(t).to)
    BY <1>8, <2>1 DEF Kept
  <2> QED BY <1>11, <2>2
<1>13. ~work'[t].done /\ work'[t].next = From(t) + Width[t]
  BY <1>1, <1>12, AdvancedFacts
<1> QED BY <1>2, <1>6, <1>12, <1>13 DEF SweptBy

(* A window arrives: its rows are staged, and the progress advances.         *)
LEMMA WindowStep ==
  ASSUME IInv, NEW t \in Types, WindowArrives(t)
  PROVE  IInv'
<1>1. /\ UNCHANGED <<clock, up, mirror, progress, restart, fresh, queue, faults, late>>
      /\ Send(t) /\ work' = Advanced(t) /\ place' \in {"sweep", "swept"}
      /\ staged' = [s \in Rows |->
                      IF s \in Kept(t, Window(t)) /\ up[s].updated > staged[s].updated
                      THEN up[s] ELSE staged[s]]
  BY DEF WindowArrives
<1>2. /\ TypeOK /\ TypeOf \in [Rows -> Types] /\ spent \in Nat /\ Cardinality(Types) \in Nat
      /\ \A s \in Types : work[s].rank \in Nat
      /\ \A r \in Rows : up[r].updated \in Nat /\ staged[r].updated \in Nat
  BY TypeFacts DEF IInv, TypedRow
<1>3. /\ place = "sweep" /\ t \notin fresh /\ spent' = spent + 1 /\ spent' \in 0..Budget
      /\ memo' \subseteq [window : Windows, left : 1..TTL]
  BY <1>1, SendFacts
<1>4. /\ work' \in [Types -> Progress]
      /\ \A s \in Types \ {t} : work'[s] = work[s]
      /\ work'[t].done <=> (Cursor(t) = 0 \/ IsLast(t, From(t)))
      /\ work'[t].rank <= Cardinality(Types) + spent'
  BY <1>1, AdvancedFacts
<1>5. \A s : Cursor(s)' = Cursor(s)
  BY <1>1 DEF Cursor, Newest, RowsOf
<1>6. TypeOK'
  <2>1. staged' \in [Rows -> Versions]
    BY <1>1, <1>2 DEF TypeOK
  <2> QED BY <1>1, <1>2, <1>3, <1>4, <2>1 DEF TypeOK
<1>7. NoLiveRowBehind' /\ ProgressIsTrue'
  <2>1. \A r \in Rows : Behind(r)' <=> Behind(r)
    BY <1>1 DEF Behind, Lacks, Newest, RowsOf
  <2> QED BY <1>1, <2>1 DEF IInv, NoLiveRowBehind, ProgressIsTrue, Swept
<1>8. ASSUME NEW r \in Rows PROVE RowOK(r)' /\ TombstonesOnly(r)' /\ WorkIsTrue(r)'
  <2>1. /\ RowOK(r) /\ TombstonesOnly(r) /\ WorkIsTrue(r)
        /\ TypeOf[r] \in Types /\ r \in RowsOf(TypeOf[r])
    BY <1>2 DEF IInv, RowsOf
  <2>2. RowOK(r)'
    <3>1. CASE staged'[r] = up[r]
      BY <1>1, <1>2, <2>1, <3>1 DEF RowOK
    <3>2. CASE staged'[r] = staged[r]
      BY <1>1, <2>1, <3>2 DEF RowOK
    <3> QED BY <1>1, <3>1, <3>2
  <2>3. CASE TypeOf[r] # t
    <3>1. \A s \in RowsOf(TypeOf[r]) : staged'[s] = staged[s]
      BY <1>1, <2>3 DEF RowsOf, Kept
    <3>2. Missed(r)' <=> Missed(r)
      BY <1>1, <1>5, <2>1, <3>1 DEF Missed, Reached, RowsOf
    <3>3. TombstonesOnly(r)'
      BY <1>1, <1>5, <2>1, <3>2 DEF TombstonesOnly
    <3>4. work'[TypeOf[r]] = work[TypeOf[r]]
      BY <1>4, <2>1, <2>3
    <3>5. WorkIsTrue(r)'
      BY <1>1, <1>3, <2>1, <3>2, <3>4 DEF WorkIsTrue, SweptBy, Excepted
    <3> QED BY <2>2, <3>3, <3>5
  <2>4. CASE TypeOf[r] = t /\ Cursor(t) # 0
    <3>1. Missed(r)' => Missed(r) /\ ~SweptBy(work', r)
      BY <2>1, <2>4, WindowOfRows
    <3>2. TombstonesOnly(r)'
      BY <1>1, <1>5, <2>1, <3>1 DEF TombstonesOnly
    <3>3. WorkIsTrue(r)'
      BY <3>1 DEF WorkIsTrue, SweptBy
    <3> QED BY <2>2, <3>2, <3>3
  <2>5. CASE TypeOf[r] = t /\ Cursor(t) = 0
    <3>1. ~Missed(r)'
      <4>1. SUFFICES ASSUME up[r] # None, staged'[r] # up[r] PROVE FALSE
        BY <1>1 DEF Missed
      <4>2. /\ Window(t).whole \/ t \in AllStatuses
            /\ Window(t).from = 1 /\ Window(t).to = 0
        BY <2>5 DEF Window, From
      <4>3. IdOf[r] >= 1
        BY IdFacts
      <4>4. r \in Kept(t, Window(t))
        BY <2>1, <2>5, <4>1, <4>2, <4>3 DEF Kept
      <4>5. ~(up[r].updated > staged[r].updated) /\ staged'[r] = staged[r]
        BY <1>1, <4>1, <4>4
      <4>6. staged[r].updated = up[r].updated
        BY <1>2, <2>1, <4>5 DEF RowOK
      <4> QED BY <2>1, <4>1, <4>5, <4>6 DEF RowOK
    <3> QED BY <2>2, <3>1 DEF TombstonesOnly, WorkIsTrue
  <2> QED BY <2>3, <2>4, <2>5
<1>9. ASSUME NEW s \in Types PROVE TypeStateOK(s)'
  <2>1. TypeStateOK(s)
    BY DEF IInv
  <2>2. StartOK(progress, s)' /\ (s \in late' => progress'[s].done)
    BY <1>1, <1>5, <2>1 DEF TypeStateOK, StartOK
  <2>3. StartOK(work, s)' /\ work'[s].rank <= Cardinality(Types) + spent'
    <3>1. StartOK(work, s) /\ work[s].rank <= Cardinality(Types) + spent
      BY <1>3, <2>1 DEF TypeStateOK, RankOK
    <3>2. CASE s = t
      BY <1>4, <1>5, <3>2 DEF StartOK
    <3>3. CASE s # t
      <4>1. work'[s] = work[s] /\ work[s].rank \in Nat
        BY <1>2, <1>4, <3>3
      <4> QED BY <1>2, <1>3, <1>5, <3>1, <4>1 DEF StartOK
    <3> QED BY <3>2, <3>3
  <2>4. FreshOK(s)'
    BY <1>1, <1>5, <2>1 DEF TypeStateOK, FreshOK
  <2>5. RankOK(s)'
    BY <1>1, <2>1, <2>3 DEF TypeStateOK, RankOK
  <2> QED BY <2>2, <2>3, <2>4, <2>5 DEF TypeStateOK
<1> QED BY <1>6, <1>7, <1>8, <1>9 DEF IInv

(* Between the cycles nothing is staged: what is missed is behind.           *)
LEMMA IdleStep ==
  ASSUME TypeOK', NoLiveRowBehind', place' = "idle", NEW r \in Rows,
         up'[r].updated = 0 => up'[r] = None, \A s \in Rows : staged'[s] = None
  PROVE  TombstonesOnly(r)' /\ WorkIsTrue(r)'
<1>1. up'[r].updated \in Nat
  BY SweepAssumption DEF TypeOK, Versions
<1>2. SUFFICES ASSUME Missed(r)'
               PROVE  Behind(r)' /\ up'[r].updated <= Cursor(TypeOf[r])'
  BY <1>2 DEF NoLiveRowBehind, TombstonesOnly, WorkIsTrue
<1>3. /\ up'[r] # None /\ mirror'[r] # up'[r]
      /\ \/ up'[r].updated <= Cursor(TypeOf[r])'
         \/ \E s \in RowsOf(TypeOf[r]) : up'[r].updated <= staged'[s].updated
  BY <1>2 DEF Missed, Reached
<1>4. up'[r].updated <= Cursor(TypeOf[r])'
  <2>1. \A s \in RowsOf(TypeOf[r]) : ~(up'[r].updated <= staged'[s].updated)
    BY <1>1, <1>3, NoneFacts DEF RowsOf
  <2> QED BY <1>3, <2>1
<1> QED BY <1>3, <1>4 DEF Behind, Lacks, Cursor

(* The variables of a cycle that is over.                                    *)
LEMMA EndFacts ==
  ASSUME EndCycle
  PROVE  /\ place' = "idle" /\ restart' = FALSE /\ fresh' = {} /\ queue' = {} /\ spent' = 0
         /\ work' \in [Types -> Progress] /\ staged' \in [Rows -> Versions]
         /\ \A r \in Rows : staged'[r] = None
         /\ \A t \in Types : work'[t].rank = 0
<1>1. \A r \in Rows : staged'[r] = None
  BY DEF EndCycle
<1>2. staged' \in [Rows -> Versions]
  BY NoneFacts DEF EndCycle
<1>3. work' \in [Types -> Progress] /\ \A t \in Types : work'[t].rank = 0
  BY UnsweptFacts DEF EndCycle
<1> QED BY <1>1, <1>2, <1>3 DEF EndCycle

(* A cycle that fails leaves the rows and the progress as they were.         *)
LEMMA FailStep ==
  ASSUME IInv, FailCycle
  PROVE  IInv'
<1>1. /\ UNCHANGED <<clock, up, mirror, progress, late>> /\ EndCycle
      /\ memo' \subseteq memo
  BY DEF FailCycle
<1>2. /\ TypeOK /\ Budget \in Nat /\ Cardinality(Types) \in Nat
  BY TypeFacts DEF IInv
<1>3. faults' \in 0..MaxFaults
  BY <1>2, SweepAssumption DEF FailCycle, TypeOK
<1>4. TypeOK'
  <2>1. 0 \in 0..Budget
    BY <1>2
  <2> QED BY <1>1, <1>2, <1>3, <2>1, EndFacts DEF TypeOK
<1>5. NoLiveRowBehind' /\ ProgressIsTrue'
  <2>1. \A r \in Rows : Behind(r)' <=> Behind(r)
    BY <1>1 DEF Behind, Lacks, Newest, RowsOf
  <2> QED BY <1>1, <2>1 DEF IInv, NoLiveRowBehind, ProgressIsTrue, Swept
<1>6. ASSUME NEW r \in Rows PROVE RowOK(r)' /\ TombstonesOnly(r)' /\ WorkIsTrue(r)'
  <2>1. RowOK(r) /\ up[r].updated \in Nat
    BY <1>2, TypeFacts DEF IInv, TypedRow
  <2>2. RowOK(r)'
    BY <1>1, <2>1, EndFacts, NoneFacts DEF RowOK
  <2> QED BY <1>1, <1>4, <1>5, <2>1, <2>2, EndFacts, IdleStep DEF RowOK
<1>7. ASSUME NEW t \in Types PROVE TypeStateOK(t)'
  <2>1. TypeStateOK(t) /\ Cursor(t)' = Cursor(t)
    BY <1>1 DEF IInv, Cursor, Newest, RowsOf
  <2>2. FreshOK(t)'
    BY <1>1, EndFacts DEF FreshOK
  <2>3. RankOK(t)'
    BY <1>1, <1>2, <2>1, EndFacts DEF TypeStateOK, RankOK
  <2> QED BY <1>1, <2>1, <2>2, <2>3, EndFacts DEF TypeStateOK, StartOK
<1> QED BY <1>4, <1>5, <1>6, <1>7 DEF IInv

(* The commit: a row that is behind after it was missed before it, so what   *)
(* was true of the working progress is true of the stored one.               *)
LEMMA CommitStep ==
  ASSUME IInv, Commit
  PROVE  IInv'
<1>1. /\ UNCHANGED <<clock, up, memo, faults>> /\ EndCycle /\ place = "swept"
      /\ mirror' = [r \in Rows |->
                      IF staged[r].updated > mirror[r].updated THEN staged[r] ELSE mirror[r]]
      /\ progress' = Ranked(work)
      /\ late' = {t \in late \cup fresh : work[t].done}
  BY DEF Commit
<1>2. /\ TypeOK /\ Budget \in Nat /\ Cardinality(Types) \in Nat /\ TypeOf \in [Rows -> Types]
      /\ \A r \in Rows : /\ up[r].updated \in Nat /\ mirror[r].updated \in Nat
                         /\ staged[r].updated \in Nat
  BY TypeFacts DEF IInv, TypedRow
<1>3. /\ progress' \in [Types -> Progress]
      /\ \A t \in Types : /\ progress'[t].done <=> work[t].done
                          /\ progress'[t].next = work[t].next
                          /\ progress'[t].rank <= Cardinality(Types)
  <2>1. \A t \in Types : work[t] \in Progress
    BY <1>2 DEF TypeOK
  <2>2. \A p \in Progress : /\ p = [next |-> p.next, done |-> p.done, left |-> p.left,
                                    rank |-> p.rank]
                            /\ p.next \in 0..Max(Ids) /\ p.done \in BOOLEAN
                            /\ p.left \in 0..TTL /\ p.rank \in Nat
    BY <1>2 DEF Progress
  <2> QED BY <1>1, <2>1, <2>2, RankedFacts
<1>4. mirror' \in [Rows -> Versions]
  BY <1>1, <1>2 DEF TypeOK
<1>5. TypeOK'
  <2>1. 0 \in 0..Budget /\ late' \subseteq Types
    BY <1>1, <1>2 DEF TypeOK
  <2> QED BY <1>1, <1>2, <1>3, <1>4, <2>1, EndFacts DEF TypeOK
<1>6. \A r \in Rows : /\ mirror'[r] = staged[r] \/ mirror'[r] = mirror[r]
                      /\ mirror'[r].updated >= mirror[r].updated
  BY <1>1, <1>2
<1>7. \A t : /\ Cursor(t)' \in Nat
             /\ \A r \in RowsOf(t) : mirror'[r].updated <= Cursor(t)'
             /\ Cursor(t)' = 0 \/ \E r \in RowsOf(t) : Cursor(t)' = mirror'[r].updated
  <2>1. MaxClock \in Nat /\ \A r \in Rows : /\ mirror'[r].updated \in Nat
                                            /\ mirror'[r].updated <= MaxClock
    BY <1>4, SweepAssumption DEF Versions
  <2>2. \A t : Cursor(t)' = Newest(mirror', t)
    BY DEF Cursor, Newest
  <2> QED BY <2>1, <2>2, NewestFacts
<1>8. ASSUME NEW r \in Rows, Behind(r)' PROVE Missed(r)
  <2> DEFINE T == TypeOf[r]
  <2>1. RowOK(r) /\ r \in RowsOf(T) /\ Cursor(T) \in Nat
    BY <1>2, CursorFacts DEF IInv, RowsOf
  <2>2. up[r] # None /\ up[r].updated <= Cursor(T)' /\ mirror'[r] # up[r]
    BY <1>1, <1>8 DEF Behind, Lacks, Cursor
  <2>3. up[r].updated # 0
    BY <2>1, <2>2 DEF RowOK
  <2>4. PICK s \in RowsOf(T) : Cursor(T)' = mirror'[s].updated
    BY <1>2, <1>7, <2>2, <2>3
  <2>5. s \in Rows
    BY <2>4 DEF RowsOf
  <2>6. Reached(r)
    <3>1. CASE mirror'[s] = staged[s]
      BY <2>2, <2>4, <3>1 DEF Reached
    <3>2. CASE mirror'[s] = mirror[s]
      <4>1. mirror[s].updated <= Cursor(T)
        BY <1>2, <2>4, CursorFacts
      <4>2. up[r].updated <= Cursor(T)
        BY <1>2, <2>1, <2>2, <2>4, <2>5, <3>2, <4>1
      <4> QED BY <4>2 DEF Reached
    <3> QED BY <1>6, <2>5, <3>1, <3>2
  <2>7. mirror[r] # up[r]
    <3>1. SUFFICES ASSUME mirror[r] = up[r] PROVE FALSE
      OBVIOUS
    <3>2. ~(staged[r].updated > mirror[r].updated)
      BY <1>2, <2>1, <3>1 DEF RowOK
    <3> QED BY <1>1, <2>2, <3>1, <3>2
  <2>8. staged[r] # up[r]
    <3>1. SUFFICES ASSUME staged[r] = up[r] PROVE FALSE
      OBVIOUS
    <3>2. ~(staged[r].updated > mirror[r].updated)
      BY <1>1, <2>2, <3>1
    <3>3. mirror[r].updated = up[r].updated
      BY <1>2, <2>1, <3>1, <3>2 DEF RowOK
    <3> QED BY <2>1, <2>7, <3>3 DEF RowOK
  <2> QED BY <2>2, <2>6, <2>7, <2>8 DEF Missed
<1>9. NoLiveRowBehind'
  <2>1. \A r \in Rows : Missed(r) => ~up[r].live
    BY DEF IInv, TombstonesOnly
  <2> QED BY <1>1, <1>8, <2>1 DEF NoLiveRowBehind
<1>10. ProgressIsTrue'
  <2>1. SUFFICES ASSUME NEW r \in Rows, Swept(r)', TypeOf[r] \notin late', Behind(r)'
                 PROVE  FALSE
    BY DEF ProgressIsTrue
  <2>2. TypeOf[r] \in Types /\ WorkIsTrue(r) /\ Missed(r)
    BY <1>2, <1>8, <2>1 DEF IInv
  <2>3. SweptBy(work, r)
    BY <1>3, <2>1, <2>2 DEF Swept, SweptBy
  <2>4. ~Excepted(TypeOf[r])
    BY <1>1, <2>1 DEF Excepted
  <2> QED BY <1>1, <2>2, <2>3, <2>4 DEF WorkIsTrue
<1>11. ASSUME NEW r \in Rows PROVE RowOK(r)' /\ TombstonesOnly(r)' /\ WorkIsTrue(r)'
  <2>1. RowOK(r) /\ up[r].updated \in Nat
    BY <1>2 DEF IInv
  <2>2. RowOK(r)'
    <3>1. CASE mirror'[r] = staged[r]
      BY <1>1, <2>1, <3>1, EndFacts, NoneFacts DEF RowOK
    <3>2. CASE mirror'[r] = mirror[r]
      BY <1>1, <2>1, <3>2, EndFacts, NoneFacts DEF RowOK
    <3> QED BY <1>6, <3>1, <3>2
  <2> QED BY <1>1, <1>5, <1>9, <2>1, <2>2, EndFacts, IdleStep DEF RowOK
<1>12. ASSUME NEW t \in Types PROVE TypeStateOK(t)'
  <2>1. TypeStateOK(t) /\ Cursor(t) \in Nat
    BY <1>2, CursorFacts DEF IInv
  <2>2. StartOK(progress, t)'
    <3>1. Cursor(t)' = 0 => Cursor(t) = 0
      <4>1. SUFFICES ASSUME Cursor(t)' = 0, Cursor(t) # 0 PROVE FALSE
        OBVIOUS
      <4>2. PICK r \in RowsOf(t) : Cursor(t) = mirror[r].updated
        BY <1>2, <4>1, CursorFacts
      <4>3. r \in Rows /\ mirror'[r].updated <= 0
        BY <1>7, <4>1, <4>2 DEF RowsOf
      <4>4. mirror'[r].updated \in Nat
        BY <1>2, <1>6, <4>3
      <4> QED BY <1>2, <1>6, <2>1, <4>1, <4>2, <4>3, <4>4
    <3>2. StartOK(work, t)
      BY <1>1, <2>1 DEF TypeStateOK
    <3> QED BY <1>3, <3>1, <3>2 DEF StartOK
  <2>3. FreshOK(t)'
    BY EndFacts, <1>1 DEF FreshOK
  <2>4. RankOK(t)'
    BY <1>1, <1>2, <1>3, EndFacts DEF RankOK
  <2>5. t \in late' => progress'[t].done
    BY <1>1, <1>3
  <2> QED BY <1>1, <2>2, <2>3, <2>4, <2>5, EndFacts DEF TypeStateOK
<1> QED BY <1>5, <1>9, <1>10, <1>11, <1>12 DEF IInv

(* Time passes: only the times of the memo and of the checks change.         *)
LEMMA TickStep ==
  ASSUME IInv, Tick
  PROVE  IInv'
<1>1. /\ UNCHANGED <<clock, up, mirror, place, restart, staged, fresh, work, queue, spent,
                     faults, late>>
      /\ place = "idle"
      /\ memo' = {[e EXCEPT !.left = @ - 1] : e \in {d \in memo : d.left > 1}}
      /\ progress' = [t \in Types |-> [progress[t] EXCEPT !.left = Older(@)]]
  BY DEF Tick, cycle
<1>2. TypeOK /\ TTL \in Nat /\ TypeOf \in [Rows -> Types]
  BY TypeFacts DEF IInv
<1>3. /\ progress' \in [Types -> Progress]
      /\ \A t \in Types : /\ progress'[t].done = progress[t].done
                          /\ progress'[t].next = progress[t].next
                          /\ progress'[t].rank = progress[t].rank
  <2>1. \A t \in Types : progress[t] \in Progress
    BY <1>2 DEF TypeOK
  <2>2. ASSUME NEW p \in Progress
        PROVE  /\ [p EXCEPT !.left = Older(@)] \in Progress
               /\ [p EXCEPT !.left = Older(@)].done = p.done
               /\ [p EXCEPT !.left = Older(@)].next = p.next
               /\ [p EXCEPT !.left = Older(@)].rank = p.rank
    <3>1. Older(p.left) \in 0..TTL
      BY <1>2 DEF Older, Progress
    <3> HIDE DEF Older
    <3> QED BY <3>1 DEF Progress
  <2> QED BY <1>1, <2>1, <2>2
<1>4. memo' \subseteq [window : Windows, left : 1..TTL]
  <2>1. SUFFICES ASSUME NEW e \in memo, e.left > 1
                 PROVE  [e EXCEPT !.left = @ - 1] \in [window : Windows, left : 1..TTL]
    BY <1>1
  <2>2. e \in [window : Windows, left : 1..TTL]
    BY <1>2 DEF TypeOK
  <2>3. e.left - 1 \in 1..TTL
    BY <1>2, <2>1, <2>2
  <2> QED BY <2>2, <2>3
<1>5. TypeOK'
  BY <1>1, <1>2, <1>3, <1>4 DEF TypeOK
<1>6. \A t : Cursor(t)' = Cursor(t)
  BY <1>1 DEF Cursor, Newest, RowsOf
<1>7. NoLiveRowBehind' /\ ProgressIsTrue'
  <2>1. \A r \in Rows : Behind(r)' <=> Behind(r)
    BY <1>1 DEF Behind, Lacks, Newest, RowsOf
  <2>2. \A r \in Rows : Swept(r)' <=> Swept(r)
    BY <1>2, <1>3 DEF Swept
  <2> QED BY <1>1, <2>1, <2>2 DEF IInv, NoLiveRowBehind, ProgressIsTrue
<1>8. ASSUME NEW r \in Rows PROVE RowOK(r)' /\ TombstonesOnly(r)' /\ WorkIsTrue(r)'
  <2>1. RowOK(r) /\ TombstonesOnly(r) /\ WorkIsTrue(r)
    BY DEF IInv
  <2>2. Missed(r)' <=> Missed(r)
    BY <1>1, <1>6 DEF Missed, Reached, RowsOf
  <2> QED BY <1>1, <1>6, <2>1, <2>2 DEF RowOK, TombstonesOnly, WorkIsTrue
<1>9. ASSUME NEW t \in Types PROVE TypeStateOK(t)'
  <2>1. TypeStateOK(t)
    BY DEF IInv
  <2> QED BY <1>1, <1>3, <1>6, <2>1 DEF TypeStateOK, StartOK, FreshOK, RankOK, RowsOf
<1> QED BY <1>5, <1>7, <1>8, <1>9 DEF IInv

(* Every step keeps the invariant.                                           *)
LEMMA SweepNext == IInv /\ [Next]_vars => IInv'
<1> SUFFICES ASSUME IInv, [Next]_vars PROVE IInv'
  OBVIOUS
<1>1. CASE Sweep
  BY <1>1, BeginStep, QuietStep, WaitStep, WindowStep DEF Sweep
<1>2. CASE UNCHANGED vars
  <2>1. UNCHANGED <<clock, up, mirror, progress, memo, place, restart, staged, fresh, work,
                    queue, spent, faults, late>>
    BY <1>2 DEF vars, cycle
  <2>2. TypeOK'
    BY <2>1 DEF IInv, TypeOK
  <2>3. \A t : Cursor(t)' = Cursor(t)
    BY <2>1 DEF Cursor, Newest, RowsOf
  <2>4. \A r \in Rows : (Missed(r)' <=> Missed(r)) /\ (Behind(r)' <=> Behind(r))
    BY <2>1, <2>3 DEF Missed, Reached, RowsOf, Behind, Lacks, Newest
  <2>5. NoLiveRowBehind' /\ ProgressIsTrue'
    BY <2>1, <2>4 DEF IInv, NoLiveRowBehind, ProgressIsTrue, Swept
  <2>6. \A r \in Rows : RowOK(r)' /\ TombstonesOnly(r)' /\ WorkIsTrue(r)'
    BY <2>1, <2>3, <2>4 DEF IInv, RowOK, TombstonesOnly, WorkIsTrue, SweptBy, Excepted
  <2>7. \A t \in Types : TypeStateOK(t)'
    BY <2>1, <2>3 DEF IInv, TypeStateOK, StartOK, FreshOK, RankOK, RowsOf
  <2> QED BY <2>2, <2>5, <2>6, <2>7 DEF IInv
<1>3. CASE Next /\ ~Sweep
  BY <1>3, ChangeStep, FetchStep, CommitStep, FailStep, TickStep DEF Next
<1> QED BY <1>1, <1>2, <1>3

-----------------------------------------------------------------------------
(* The invariant of all states: what the cycle would leave behind, and what  *)
(* the working progress says of it.                                          *)
THEOREM SweepInvariant == Spec => []IInv
  BY SweepInit, SweepNext, PTL DEF Spec

(* Every variable keeps its type; the progress stays within the ids.         *)
THEOREM SweepTypes == Spec => []TypeOK
<1>1. IInv => TypeOK
  BY DEF IInv
<1> QED BY <1>1, SweepInvariant, PTL

(* The sweep moves no cursor past a live row that the next ?since= fetch has *)
(* yet to return, whatever upstream changes between the fetch and a window.  *)
THEOREM NoLiveRowIsPassed == Spec => []NoLiveRowBehind
<1>1. IInv => NoLiveRowBehind
  BY DEF IInv
<1> QED BY <1>1, SweepInvariant, PTL

(* Below the stored progress the mirror has every tombstone up to the        *)
(* cursor, after failed windows, failed cycles, crashes and restarts.        *)
THEOREM ProgressHolds == Spec => []ProgressIsTrue
<1>1. IInv => ProgressIsTrue
  BY DEF IInv
<1> QED BY <1>1, SweepInvariant, PTL
=============================================================================
