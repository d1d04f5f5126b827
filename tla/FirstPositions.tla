--------------------------- MODULE FirstPositions ---------------------------
(* Positions in a sequence: what the look-ups for "the first" rely on.      *)
EXTENDS Integers, FiniteSetTheorems, WellFoundedInduction, TLAPS

\* A set of positions has a first one.
LEMMA FirstPosition ==
  ASSUME NEW k \in Nat, NEW I \in SUBSET (1..k), I # {}
  PROVE  \E i \in I : \A j \in I : i <= j
<1> DEFINE T == {1..i : i \in I}
           S == SUBSET (1..k)
<1>1. IsFiniteSet(1..k)
  BY FS_Interval
<1>2. IsWellFoundedOn(StrictSubsetOrdering(1..k), S)
  BY <1>1, FS_StrictSubsetOrderingWellFounded, FS_FiniteSubsetsOfFinite
<1>3. T \subseteq S /\ T # {}
  <2>1. \A i \in I : 1..i \subseteq 1..k
    OBVIOUS
  <2> QED
    BY <2>1
<1>4. PICK x \in T : \A y \in T : <<y, x>> \notin StrictSubsetOrdering(1..k)
  <2> HIDE DEF T, S
  <2> QED
    BY <1>2, <1>3, WFMin
<1>5. PICK i \in I : x = 1..i
  BY <1>4
<1>6. ASSUME NEW j \in I, j < i
      PROVE  FALSE
  <2>1. 1..j \in T /\ 1..j \subseteq x /\ 1..j # x
    BY <1>5, <1>6
  <2>2. <<1..j, x>> \in StrictSubsetOrdering(1..k)
    BY <1>3, <1>4, <2>1 DEF StrictSubsetOrdering
  <2> QED
    BY <1>4, <2>1, <2>2
<1> QED
  BY <1>6
=============================================================================
