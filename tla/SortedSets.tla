----------------------------- MODULE SortedSets -----------------------------
(***************************************************************************)
(* Facts about finite sets that the proofs of several modules need:        *)
(* induction in terms of a set, the last of finitely many members in an    *)
(* order, and the sequence that has them in it.                            *)
(***************************************************************************)
EXTENDS Integers, FiniteSets, FiniteSetTheorems, WellFoundedInduction, TLAPS

(* Induction on a finite set S, in terms of a set: G holds every subset of *)
(* S if it holds those of which it holds all that are one element smaller. *)
LEMMA FiniteInduction ==
  ASSUME NEW S, IsFiniteSet(S), NEW G,
         \A s \in SUBSET S : (\A x \in s : s \ {x} \in G) => s \in G
  PROVE  SUBSET S \subseteq G
<1> SUFFICES ASSUME ~(SUBSET S \subseteq G) PROVE FALSE
  OBVIOUS
<1> DEFINE bad == {s \in SUBSET S : s \notin G}
<1>1. IsWellFoundedOn(StrictSubsetOrdering(S), SUBSET S)
  <2>1. FiniteSubsetsOf(S) = SUBSET S
    BY FS_FiniteSubsetsOfFinite
  <2>2. IsWellFoundedOn(StrictSubsetOrdering(S), FiniteSubsetsOf(S))
    BY FS_StrictSubsetOrderingWellFounded
  <2> QED
    BY <2>1, <2>2
<1>2. \E s \in bad : \A t \in bad : ~(<<t, s>> \in StrictSubsetOrdering(S))
  <2>1. bad \subseteq SUBSET S /\ bad # {}
    OBVIOUS
  <2> HIDE DEF bad
  <2> QED
    BY <1>1, <2>1, WFMin
<1>3. PICK s \in bad : \A t \in bad : ~(<<t, s>> \in StrictSubsetOrdering(S))
  BY <1>2
<1>4. ASSUME NEW x \in s PROVE s \ {x} \in G
  <2>1. <<s \ {x}, s>> \in StrictSubsetOrdering(S)
    BY <1>3 DEF StrictSubsetOrdering
  <2> QED
    BY <1>3, <2>1
<1> QED
  BY <1>3, <1>4


(* R orders the members of S, one before the other.                        *)
Orders(R, S) ==
  /\ \A x, y \in S : x # y => <<x, y>> \in R \/ <<y, x>> \in R
  /\ \A x \in S : <<x, x>> \notin R
  /\ \A x, y, z \in S : <<x, y>> \in R /\ <<y, z>> \in R => <<x, z>> \in R

(* Of finitely many in an order, one is last.                              *)
LEMMA LastExists ==
  ASSUME NEW S, IsFiniteSet(S), S # {}, NEW R, Orders(R, S)
  PROVE  \E m \in S : \A x \in S : x # m => <<x, m>> \in R
<1> DEFINE G == {s \in SUBSET S : s # {} => \E m \in s : \A x \in s : x # m => <<x, m>> \in R}
<1>1. ASSUME NEW s \in SUBSET S, \A x \in s : s \ {x} \in G PROVE s \in G
  <2>1. SUFFICES ASSUME s # {}
                 PROVE  \E m \in s : \A x \in s : x # m => <<x, m>> \in R
    OBVIOUS
  <2>2. PICK e \in s : TRUE
    BY <2>1
  <2>3. s \ {e} \in G
    BY <1>1
  <2>4. CASE s \ {e} = {}
    BY <2>4
  <2>5. CASE s \ {e} # {}
    <3>1. PICK m \in s \ {e} : \A x \in s \ {e} : x # m => <<x, m>> \in R
      BY <2>3, <2>5
    <3>2. CASE <<e, m>> \in R
      BY <3>1, <3>2
    <3>3. CASE <<m, e>> \in R
      <4>1. \A x \in s : x # e => <<x, e>> \in R
        BY <3>1, <3>3 DEF Orders
      <4> QED
        BY <4>1
    <3> QED
      BY <3>1, <3>2, <3>3 DEF Orders
  <2> QED
    BY <2>4, <2>5
<1>2. S \in G
  <2> HIDE DEF G
  <2> QED
    BY <1>1, FiniteInduction
<1> QED
  BY <1>2

(* s has the members of S in the order R.                                  *)
Follows(s, S, R) ==
  /\ s \in [1..Cardinality(S) -> S]
  /\ \A i, j \in DOMAIN s : i < j => <<s[i], s[j]>> \in R

LEMMA SortExists ==
  ASSUME NEW S, IsFiniteSet(S), NEW R, Orders(R, S)
  PROVE  \E s : Follows(s, S, R)
<1> DEFINE G == {u \in SUBSET S : \E s : Follows(s, u, R)}
<1>1. ASSUME NEW u \in SUBSET S, \A x \in u : u \ {x} \in G PROVE u \in G
  <2>0. IsFiniteSet(u)
    BY FS_Subset
  <2>1. CASE u = {}
    <3>1. Cardinality(u) = 0
      BY <2>1, FS_EmptySet
    <3>2. Follows(<<>>, u, R)
      BY <3>1 DEF Follows
    <3> QED
      BY <3>2
  <2>2. CASE u # {}
    <3>1. Orders(R, u)
      BY DEF Orders
    <3>2. PICK m \in u : \A x \in u : x # m => <<x, m>> \in R
      BY <2>0, <2>2, <3>1, LastExists
    <3>3. PICK s : Follows(s, u \ {m}, R)
      BY <1>1
    <3>4. PICK n \in Nat : n = Cardinality(u \ {m})
      BY <2>0, FS_RemoveElement, FS_CardinalityType
    <3>5. Cardinality(u) = n + 1
      <4>1. PICK c \in Nat : c = Cardinality(u)
        BY <2>0, FS_CardinalityType
      <4>2. Cardinality(u \ {m}) = Cardinality(u) - 1
        BY <2>0, FS_RemoveElement
      <4> QED
        BY <3>4, <4>1, <4>2
    <3> DEFINE t == [i \in 1..(n + 1) |-> IF i = n + 1 THEN m ELSE s[i]]
    <3>6. /\ s \in [1..n -> u \ {m}]
          /\ \A i, j \in 1..n : i < j => <<s[i], s[j]>> \in R
      BY <3>3, <3>4 DEF Follows
    <3>7. t \in [1..(n + 1) -> u] /\ DOMAIN t = 1..(n + 1)
      BY <3>6
    <3>8. ASSUME NEW i \in 1..(n + 1), NEW j \in 1..(n + 1), i < j
          PROVE  <<t[i], t[j]>> \in R
      <4>1. i \in 1..n /\ t[i] = s[i]
        BY <3>8
      <4>2. CASE j = n + 1
        BY <3>2, <3>6, <4>1, <4>2
      <4>3. CASE j # n + 1
        <5>1. j \in 1..n /\ t[j] = s[j]
          BY <4>3
        <5> QED
          BY <3>6, <3>8, <4>1, <5>1
      <4> QED
        BY <4>2, <4>3
    <3>9. Follows(t, u, R)
      <4> HIDE DEF t
      <4> QED
        BY <3>5, <3>7, <3>8 DEF Follows
    <3> QED
      BY <3>9
  <2> QED
    BY <2>1, <2>2
<1>2. S \in G
  <2> HIDE DEF G
  <2> QED
    BY <1>1, FiniteInduction
<1> QED
  BY <1>2

(* What follows an order without equals misses no member.                  *)
LEMMA SortedHasAll ==
  ASSUME NEW S, IsFiniteSet(S), NEW R, Orders(R, S), NEW s, Follows(s, S, R)
  PROVE  \A x \in S : \E i \in DOMAIN s : s[i] = x
<1> DEFINE D == 1..Cardinality(S)
<1>1. Cardinality(S) \in Nat /\ s \in [D -> S] /\ DOMAIN s = D
  BY FS_CardinalityType DEF Follows
<1>2. IsFiniteSet(D) /\ Cardinality(D) = Cardinality(S)
  BY <1>1, FS_Interval
<1>3. ASSUME NEW i \in D, NEW j \in D, i # j PROVE s[i] # s[j]
  <2>1. i < j \/ j < i
    BY <1>1, <1>3
  <2>2. <<s[i], s[j]>> \in R \/ <<s[j], s[i]>> \in R
    BY <1>1, <2>1 DEF Follows
  <2> QED
    BY <1>1, <2>2 DEF Orders
<1>4. s \in Injection(D, S)
  BY <1>1, <1>3 DEF Injection, IsInjective
<1>5. s \in Surjection(D, S)
  BY <1>2, <1>4, FS_Injection
<1> QED
  BY <1>1, <1>5 DEF Surjection
=============================================================================
