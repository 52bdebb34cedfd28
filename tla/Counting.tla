------------------------------ MODULE Counting ------------------------------
(* Lemmas about numbers and finite sets that the proofs of several components *)
(* use: the first free slot of a table, and counters that follow a bitmap.    *)
EXTENDS Integers, FiniteSets, FiniteSetTheorems, WellFoundedInduction, TLAPS

\* A set of numbers that is not empty has a first one.
LEMMA LeastExists ==
    ASSUME NEW S \in SUBSET Nat, S # {}
    PROVE  \E x \in S : \A y \in S : x <= y
<1> DEFINE upto == {0 .. i : i \in S}
           R == StrictSubsetOrdering(Nat)
<1>1. IsWellFoundedOn(R, FiniteSubsetsOf(Nat))
  BY FS_StrictSubsetOrderingWellFounded
<1>2. upto \subseteq FiniteSubsetsOf(Nat) /\ upto # {}
  <2>1. \A i \in S : IsFiniteSet(0 .. i) /\ 0 .. i \subseteq Nat
    BY FS_Interval
  <2>2. \A i \in S : 0 .. i \in FiniteSubsetsOf(Nat)
    BY <2>1 DEF FiniteSubsetsOf
  <2> HIDE DEF R
  <2> QED BY <2>2
<1>3. PICK x \in S : \A y \in S : <<0 .. y, 0 .. x>> \notin R
  <2>1. \E X \in upto : \A Y \in upto : ~ (<<Y, X>> \in R)
    <3> HIDE DEF R, upto
    <3> QED BY <1>1, <1>2, WFMin
  <2> HIDE DEF R
  <2> QED BY <2>1
<1>4. \A y \in S : x <= y
  <2> SUFFICES ASSUME NEW y \in S, y < x PROVE FALSE
    OBVIOUS
  <2>1. 0 .. y \subseteq 0 .. x /\ x \in 0 .. x /\ x \notin 0 .. y
    OBVIOUS
  <2>2. <<0 .. y, 0 .. x>> \in R
    BY <2>1 DEF StrictSubsetOrdering
  <2> QED BY <1>3, <2>2
<1> QED BY <1>4

\* Taking a frame leaves one clear bit less.
LEMMA CountTaken ==
    ASSUME NEW S, IsFiniteSet(S), NEW U \in SUBSET S, NEW x \in S \ U
    PROVE  Cardinality(S \ (U \cup {x})) = Cardinality(S \ U) - 1
<1>1. IsFiniteSet(S \ U)
  BY FS_Difference
<1>2. S \ (U \cup {x}) = (S \ U) \ {x}
  OBVIOUS
<1> QED BY <1>1, <1>2, FS_RemoveElement

\* Freeing a set of frames leaves one more for each that was in use.
LEMMA CountFreed ==
    ASSUME NEW S, IsFiniteSet(S), NEW U \in SUBSET S, NEW F
    PROVE  Cardinality(S \ (U \ F)) = Cardinality(S \ U) + Cardinality(F \cap U)
<1>1. IsFiniteSet(S \ U) /\ IsFiniteSet(U) /\ IsFiniteSet(F \cap U)
  BY FS_Difference, FS_Subset, FS_Intersection
<1>2. S \ (U \ F) = (S \ U) \cup (F \cap U) /\ (S \ U) \cap (F \cap U) = {}
  OBVIOUS
<1>3. Cardinality(S \ U) \in Nat /\ Cardinality(F \cap U) \in Nat
  BY <1>1, FS_CardinalityType
<1>4. Cardinality((S \ U) \cup (F \cap U))
        = Cardinality(S \ U) + Cardinality(F \cap U) - Cardinality((S \ U) \cap (F \cap U))
  BY <1>1, FS_Union
<1>5. Cardinality((S \ U) \cap (F \cap U)) = 0
  BY <1>2, FS_EmptySet
<1> QED BY <1>2, <1>3, <1>4, <1>5

=============================================================================
