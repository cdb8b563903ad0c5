----------------------------- MODULE MaxMinFacts -----------------------------
(* What Max and Min of sets of naturals return: newest and oldest times and  *)
(* ids are computed with them.                                               *)
EXTENDS Integers, FiniteSetsExt, FiniteSetTheorems, WellFoundedInduction, TLAPS

(* The maximum of a bounded non-empty set of naturals is in it and above it  *)
(* all.                                                                      *)
LEMMA MaxExists ==
  ASSUME NEW S \in SUBSET Nat, S # {}, NEW b \in Nat, \A y \in S : y <= b
  PROVE  /\ Max(S) \in S
         /\ \A y \in S : y <= Max(S)
<1> DEFINE U == {n \in Nat : \A y \in S : y <= n}
<1>1. PICK x \in U : \A y \in U : ~(<<y, x>> \in OpToRel(<, Nat))
  <2>1. U \subseteq Nat /\ U # {}
    BY DEF U
  <2>2. QED
    BY <2>1, NatLessThanWellFounded, WFMin
<1>2. x \in Nat /\ \A y \in S : y \in Nat /\ y <= x
  BY DEF U
<1>3. \A y \in U : ~(y < x)
  BY <1>1 DEF OpToRel, U
<1>4. x \in S
  <2>1. SUFFICES ASSUME x \notin S PROVE FALSE
    OBVIOUS
  <2>2. x # 0
    <3>1. PICK y \in S : TRUE
      OBVIOUS
    <3>2. QED
      BY <1>2, <2>1, <3>1
  <2>3. x - 1 \in Nat /\ \A y \in S : y <= x - 1
    BY <1>2, <2>1, <2>2
  <2>4. x - 1 \in U /\ x - 1 < x
    BY <1>2, <2>3 DEF U
  <2>5. QED
    BY <1>3, <2>4
<1>5. \E m \in S : \A y \in S : m >= y
  BY <1>2, <1>4
<1>6. Max(S) \in S /\ \A y \in S : Max(S) >= y
  BY <1>5 DEF Max
<1>7. QED
  BY <1>6

(* The minimum of a non-empty set of naturals is in it and below it all.     *)
LEMMA MinExists ==
  ASSUME NEW S \in SUBSET Nat, S # {}
  PROVE  /\ Min(S) \in S
         /\ \A y \in S : Min(S) <= y
<1>1. PICK x \in S : \A y \in S : ~(<<y, x>> \in OpToRel(<, Nat))
  BY NatLessThanWellFounded, WFMin
<1>2. \A y \in S : y \in Nat /\ x \in Nat
  OBVIOUS
<1>3. \A y \in S : ~(y < x)
  BY <1>1, <1>2 DEF OpToRel
<1>4. \A y \in S : x <= y
  BY <1>2, <1>3
<1>5. \E m \in S : \A y \in S : m <= y
  BY <1>4
<1>6. QED
  BY <1>5 DEF Min

(* Min and Max of two times.                                                 *)
LEMMA PairBounds ==
  ASSUME NEW a \in Nat, NEW b \in Nat
  PROVE  /\ Min({a, b}) = IF a <= b THEN a ELSE b
         /\ Max({a, b}) = IF a <= b THEN b ELSE a
<1>1. Min({a, b}) \in {a, b} /\ \A y \in {a, b} : Min({a, b}) <= y
  BY MinExists
<1>2. \E m \in {a, b} : \A y \in {a, b} : m >= y
  OBVIOUS
<1>3. Max({a, b}) \in {a, b} /\ \A y \in {a, b} : Max({a, b}) >= y
  BY <1>2 DEF Max
<1>4. QED
  BY <1>1, <1>3

(* A finite set of naturals has a bound: the smallest that had none would    *)
(* still have none without one of its members.                               *)
LEMMA FiniteIsBounded ==
  ASSUME NEW S \in SUBSET Nat, IsFiniteSet(S)
  PROVE  \E b \in Nat : \A y \in S : y <= b
<1> DEFINE Bounded(T) == \E b \in Nat : \A y \in T : y <= b
<1> DEFINE Sizes == {n \in Nat : \E T \in SUBSET Nat :
                        IsFiniteSet(T) /\ Cardinality(T) = n /\ ~Bounded(T)}
<1>1. SUFFICES ASSUME ~Bounded(S) PROVE FALSE
  OBVIOUS
<1>2. Sizes \in SUBSET Nat /\ Sizes # {}
  BY <1>1, FS_CardinalityType
<1>3. Min(Sizes) \in Sizes /\ \A n \in Sizes : Min(Sizes) <= n
  BY <1>2, MinExists
<1>4. PICK T \in SUBSET Nat : IsFiniteSet(T) /\ Cardinality(T) = Min(Sizes) /\ ~Bounded(T)
  BY <1>3
<1>5. PICK x \in T : TRUE
  <2>1. T = {} => Bounded(T)
    OBVIOUS
  <2> QED BY <1>4, <2>1
<1>6. /\ IsFiniteSet(T \ {x}) /\ Cardinality(T \ {x}) = Min(Sizes) - 1
      /\ Cardinality(T \ {x}) \in Nat /\ Min(Sizes) \in Nat
  BY <1>2, <1>3, <1>4, <1>5, FS_RemoveElement, FS_CardinalityType
<1>7. Bounded(T \ {x})
  <2>1. SUFFICES ASSUME ~Bounded(T \ {x}) PROVE FALSE
    OBVIOUS
  <2>2. Cardinality(T \ {x}) \in Sizes
    BY <1>6, <2>1
  <2> HIDE DEF Sizes
  <2> QED BY <1>3, <1>6, <2>2
<1>8. PICK b \in Nat : \A y \in T \ {x} : y <= b
  BY <1>7
<1>9. \A y \in T : y <= b + x
  <2>1. b \in Nat /\ x \in Nat
    BY <1>5, <1>8
  <2> SUFFICES ASSUME NEW y \in T PROVE y <= b + x
    OBVIOUS
  <2>2. y \in Nat /\ (y = x \/ y <= b)
    BY <1>8
  <2> QED BY <2>1, <2>2
<1>10. b + x \in Nat
  BY <1>5, <1>8
<1> QED BY <1>4, <1>9, <1>10
==============================================================================
