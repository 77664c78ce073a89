------------------------- MODULE RollingControlProofs -------------------------
(***************************************************************************)
(* What a sum over a finite set is, step by step; the plans of the solvers *)
(* and of the allocation, for every network and every problem the API or a *)
(* simulation builds; and the inventory of a simulation, for every series, *)
(* policy and solver answer.                                               *)
(***************************************************************************)
EXTENDS RollingControl, Folds, SortedSets, TLAPS

-----------------------------------------------------------------------------
(* Sums                                                                    *)

(* The element a sum starts with.                                          *)
Any(s) == CHOOSE x \in s : TRUE

LEMMA AnyIn == ASSUME NEW s, s # {} PROVE Any(s) \in s
BY DEF Any

(* g sums f over the subsets of S the way SumFunctionOnSet does.           *)
Walks(g, f, S) ==
  g = [s \in SUBSET S |-> IF s = {} THEN 0 ELSE f[Any(s)] + g[s \ {Any(s)}]]

Walk(f, S) == CHOOSE g : Walks(g, f, S)

LEMMA SumIsWalk ==
  ASSUME NEW f, NEW S
  PROVE  SumFunctionOnSet(f, S) = Walk(f, S)[S]
BY DEF SumFunctionOnSet, FoldFunctionOnSet, MapThenFoldSet, Walk, Walks, Any

LEMMA WalkStep ==
  ASSUME NEW f, NEW S, NEW g, Walks(g, f, S), NEW s \in SUBSET S
  PROVE  /\ s = {} => g[s] = 0
         /\ s # {} => /\ g[s] = f[Any(s)] + g[s \ {Any(s)}]
                      /\ Any(s) \in s
<1>1. g[s] = IF s = {} THEN 0 ELSE f[Any(s)] + g[s \ {Any(s)}]
  BY DEF Walks
<1> QED
  BY <1>1, AnyIn

(* Two of them agree where both are defined.                               *)
LEMMA WalksAgree ==
  ASSUME NEW f, NEW S, IsFiniteSet(S), NEW g, Walks(g, f, S),
         NEW R, NEW h, Walks(h, f, R)
  PROVE  \A s \in SUBSET (S \cap R) : g[s] = h[s]
<1> DEFINE U == S \cap R
           G == {s \in SUBSET U : g[s] = h[s]}
<1>1. IsFiniteSet(U)
  BY FS_Subset
<1>2. ASSUME NEW s \in SUBSET U, \A x \in s : s \ {x} \in G PROVE s \in G
  <2>1. s \in SUBSET S /\ s \in SUBSET R
    OBVIOUS
  <2>2. CASE s = {}
    BY <2>1, <2>2, WalkStep
  <2>3. CASE s # {}
    <3>1. /\ g[s] = f[Any(s)] + g[s \ {Any(s)}] /\ Any(s) \in s
          /\ h[s] = f[Any(s)] + h[s \ {Any(s)}]
      BY <2>1, <2>3, WalkStep
    <3>2. s \ {Any(s)} \in G
      BY <1>2, <3>1
    <3> QED
      BY <3>1, <3>2
  <2> QED
    BY <2>2, <2>3
<1>3. SUBSET U \subseteq G
  <2> HIDE DEF G, U
  <2> QED
    BY <1>1, <1>2, FiniteInduction
<1> QED
  BY <1>3

LEMMA WalkOfSubset ==
  ASSUME NEW f, NEW S, NEW g, Walks(g, f, S), NEW u \in SUBSET S
  PROVE  Walks([s \in SUBSET u |-> g[s]], f, u)
<1> DEFINE h == [s \in SUBSET u |-> g[s]]
<1>1. ASSUME NEW s \in SUBSET u
      PROVE  h[s] = IF s = {} THEN 0 ELSE f[Any(s)] + h[s \ {Any(s)}]
  <2>1. s \in SUBSET S /\ h[s] = g[s] /\ h[s \ {Any(s)}] = g[s \ {Any(s)}]
    OBVIOUS
  <2> QED
    BY <2>1, WalkStep
<1>2. h = [s \in SUBSET u |-> h[s]]
  OBVIOUS
<1> HIDE DEF h
<1> QED
  BY <1>1, <1>2 DEF Walks

(* There is one for every finite set.                                      *)
LEMMA WalkExists ==
  ASSUME NEW f, NEW S, IsFiniteSet(S)
  PROVE  Walks(Walk(f, S), f, S)
<1> DEFINE G == {s \in SUBSET S : \E g : Walks(g, f, s)}
           V(u) == Walk(f, u)[u]
<1>1. ASSUME NEW s \in SUBSET S, \A x \in s : s \ {x} \in G PROVE s \in G
  <2> DEFINE h == [t \in SUBSET s |->
                     IF t = {} THEN 0 ELSE f[Any(t)] + V(t \ {Any(t)})]
  <2>1. ASSUME NEW t \in SUBSET s, t # s PROVE Walks(Walk(f, t), f, t)
    <3>1. PICK x \in s : t \in SUBSET (s \ {x})
      BY <2>1
    <3>2. PICK g : Walks(g, f, s \ {x})
      BY <1>1
    <3>3. \E w : Walks(w, f, t)
      BY <3>1, <3>2, WalkOfSubset
    <3> QED
      BY <3>3 DEF Walk
  <2>2. ASSUME NEW t \in SUBSET s, t # s PROVE h[t] = V(t)
    <3>1. Walks(Walk(f, t), f, t) /\ t \in SUBSET t
      BY <2>1, <2>2
    <3>2. CASE t = {}
      BY <3>1, <3>2, WalkStep
    <3>3. CASE t # {}
      <4> DEFINE r == t \ {Any(t)}
      <4>1. V(t) = f[Any(t)] + Walk(f, t)[r] /\ Any(t) \in t
        BY <3>1, <3>3, WalkStep
      <4>2. r \in SUBSET s /\ r # s /\ r \in SUBSET (r \cap t)
        BY <4>1
      <4>3. Walks(Walk(f, r), f, r)
        BY <2>1, <4>2
      <4>4. IsFiniteSet(r)
        BY <4>2, FS_Subset
      <4>5. Walk(f, r)[r] = Walk(f, t)[r]
        <5> HIDE DEF r
        <5> QED
          BY <3>1, <4>2, <4>3, <4>4, WalksAgree
      <4>6. h[t] = f[Any(t)] + V(r)
        BY <3>3
      <4> QED
        BY <4>1, <4>5, <4>6
    <3> QED
      BY <3>2, <3>3
  <2>3. ASSUME NEW t \in SUBSET s
        PROVE  h[t] = IF t = {} THEN 0 ELSE f[Any(t)] + h[t \ {Any(t)}]
    <3>1. CASE t = {}
      BY <3>1
    <3>2. CASE t # {}
      <4>1. Any(t) \in t
        BY <3>2, AnyIn
      <4>2. t \ {Any(t)} \in SUBSET s /\ t \ {Any(t)} # s
        BY <4>1
      <4>3. h[t \ {Any(t)}] = V(t \ {Any(t)})
        BY <2>2, <4>2
      <4> QED
        BY <3>2, <4>3
    <3> QED
      BY <3>1, <3>2
  <2>4. h = [t \in SUBSET s |-> h[t]]
    OBVIOUS
  <2>5. Walks(h, f, s)
    <3> HIDE DEF h
    <3> QED
      BY <2>3, <2>4 DEF Walks
  <2> QED
    BY <2>5
<1>2. S \in G
  <2> HIDE DEF G
  <2> QED
    BY <1>1, FiniteInduction
<1> QED
  BY <1>2 DEF Walk

(* What a sum is: nothing of the empty set, and an element more of any     *)
(* other.                                                                  *)
LEMMA SumStep ==
  ASSUME NEW f, NEW S, IsFiniteSet(S)
  PROVE  /\ S = {} => SumFunctionOnSet(f, S) = 0
         /\ S # {} =>
              /\ Any(S) \in S
              /\ SumFunctionOnSet(f, S)
                   = f[Any(S)] + SumFunctionOnSet(f, S \ {Any(S)})
<1> DEFINE R == S \ {Any(S)}
<1>1. Walks(Walk(f, S), f, S) /\ S \in SUBSET S
  BY WalkExists
<1>2. IsFiniteSet(R)
  BY FS_Subset
<1>3. Walks(Walk(f, R), f, R)
  BY <1>2, WalkExists
<1>4. Walk(f, R)[R] = Walk(f, S)[R]
  <2>1. R \in SUBSET (R \cap S)
    OBVIOUS
  <2> HIDE DEF R
  <2> QED
    BY <1>1, <1>2, <1>3, <2>1, WalksAgree
<1>5. SumFunctionOnSet(f, S) = Walk(f, S)[S] /\ SumFunctionOnSet(f, R) = Walk(f, R)[R]
  BY SumIsWalk
<1>6. CASE S = {}
  <2>1. Walk(f, S)[S] = 0
    BY <1>1, <1>6, WalkStep
  <2> QED
    BY <1>5, <1>6, <2>1
<1>7. CASE S # {}
  <2>1. Walk(f, S)[S] = f[Any(S)] + Walk(f, S)[S \ {Any(S)}] /\ Any(S) \in S
    BY <1>1, <1>7, WalkStep
  <2>2. SumFunctionOnSet(f, S) = f[Any(S)] + SumFunctionOnSet(f, S \ {Any(S)})
    <3>1. Walk(f, S)[S \ {Any(S)}] = SumFunctionOnSet(f, S \ {Any(S)})
      BY <1>4, <1>5
    <3> QED
      BY <1>5, <2>1, <3>1
  <2> QED
    BY <1>7, <2>1, <2>2
<1> QED
  BY <1>6, <1>7

(* The sum of integers is one.                                             *)
LEMMA SumInt ==
  ASSUME NEW S, IsFiniteSet(S), NEW f, \A s \in S : f[s] \in Int
  PROVE  SumFunctionOnSet(f, S) \in Int
<1> DEFINE G == {s \in SUBSET S : SumFunctionOnSet(f, s) \in Int}
<1>1. ASSUME NEW s \in SUBSET S, \A x \in s : s \ {x} \in G PROVE s \in G
  <2>1. IsFiniteSet(s)
    BY FS_Subset
  <2>2. CASE s = {}
    <3>1. SumFunctionOnSet(f, s) = 0
      BY <2>1, <2>2, SumStep
    <3> QED
      BY <3>1
  <2>3. CASE s # {}
    <3>1. PICK a \in s : SumFunctionOnSet(f, s) = f[a] + SumFunctionOnSet(f, s \ {a})
      BY <2>1, <2>3, SumStep
    <3>2. f[a] \in Int /\ SumFunctionOnSet(f, s \ {a}) \in Int
      BY <1>1
    <3> QED
      BY <3>1, <3>2
  <2> QED
    BY <2>2, <2>3
<1>2. S \in G
  <2> HIDE DEF G
  <2> QED
    BY <1>1, FiniteInduction
<1> QED
  BY <1>2

(* A sum may be taken apart at any element.                                *)
LEMMA SumPick ==
  ASSUME NEW S, IsFiniteSet(S), NEW f, \A s \in S : f[s] \in Int, NEW x \in S
  PROVE  SumFunctionOnSet(f, S) = f[x] + SumFunctionOnSet(f, S \ {x})
<1> DEFINE G == {s \in SUBSET S :
                  \A a \in s : SumFunctionOnSet(f, s) = f[a] + SumFunctionOnSet(f, s \ {a})}
<1>1. ASSUME NEW s \in SUBSET S, \A a \in s : s \ {a} \in G PROVE s \in G
  <2> SUFFICES ASSUME NEW a \in s
               PROVE  SumFunctionOnSet(f, s) = f[a] + SumFunctionOnSet(f, s \ {a})
    OBVIOUS
  <2>1. IsFiniteSet(s)
    BY FS_Subset
  <2>2. PICK b \in s : SumFunctionOnSet(f, s) = f[b] + SumFunctionOnSet(f, s \ {b})
    BY <2>1, SumStep
  <2>3. CASE b = a
    BY <2>2, <2>3
  <2>4. CASE b # a
    <3>1. SumFunctionOnSet(f, s \ {b}) = f[a] + SumFunctionOnSet(f, (s \ {b}) \ {a})
      BY <1>1, <2>4
    <3>2. SumFunctionOnSet(f, s \ {a}) = f[b] + SumFunctionOnSet(f, (s \ {a}) \ {b})
      BY <1>1, <2>4
    <3>3. (s \ {b}) \ {a} = (s \ {a}) \ {b}
      OBVIOUS
    <3>4. IsFiniteSet((s \ {a}) \ {b}) /\ \A c \in (s \ {a}) \ {b} : f[c] \in Int
      BY FS_Subset
    <3>5. PICK n : n = SumFunctionOnSet(f, (s \ {a}) \ {b})
      OBVIOUS
    <3>6. f[a] \in Int /\ f[b] \in Int /\ n \in Int
      BY <3>4, <3>5, SumInt
    <3>7. f[b] + (f[a] + n) = f[a] + (f[b] + n)
      BY <3>6
    <3> QED
      BY <2>2, <3>1, <3>2, <3>3, <3>5, <3>7
  <2> QED
    BY <2>3, <2>4
<1>2. S \in G
  <2> HIDE DEF G
  <2> QED
    BY <1>1, FiniteInduction
<1> QED
  BY <1>2

(* Only the values at the elements matter.                                 *)
LEMMA SumSame ==
  ASSUME NEW S, IsFiniteSet(S), NEW f, NEW g, \A s \in S : f[s] = g[s]
  PROVE  SumFunctionOnSet(f, S) = SumFunctionOnSet(g, S)
<1> DEFINE G == {s \in SUBSET S : SumFunctionOnSet(f, s) = SumFunctionOnSet(g, s)}
<1>1. ASSUME NEW s \in SUBSET S, \A x \in s : s \ {x} \in G PROVE s \in G
  <2>1. IsFiniteSet(s)
    BY FS_Subset
  <2>2. CASE s = {}
    <3>1. SumFunctionOnSet(f, s) = 0 /\ SumFunctionOnSet(g, s) = 0
      BY <2>1, <2>2, SumStep
    <3> QED
      BY <3>1
  <2>3. CASE s # {}
    <3>1. /\ Any(s) \in s
          /\ SumFunctionOnSet(f, s) = f[Any(s)] + SumFunctionOnSet(f, s \ {Any(s)})
          /\ SumFunctionOnSet(g, s) = g[Any(s)] + SumFunctionOnSet(g, s \ {Any(s)})
      BY <2>1, <2>3, SumStep
    <3>2. f[Any(s)] = g[Any(s)] /\ s \ {Any(s)} \in G
      BY <1>1, <3>1
    <3> QED
      BY <3>1, <3>2
  <2> QED
    BY <2>2, <2>3
<1>2. S \in G
  <2> HIDE DEF G
  <2> QED
    BY <1>1, FiniteInduction
<1> QED
  BY <1>2

(* Sums add up.                                                            *)
LEMMA SumOfSum ==
  ASSUME NEW S, IsFiniteSet(S), NEW f, NEW g, NEW h,
         \A s \in S : f[s] \in Int /\ g[s] \in Int /\ h[s] = f[s] + g[s]
  PROVE  SumFunctionOnSet(h, S) = SumFunctionOnSet(f, S) + SumFunctionOnSet(g, S)
<1> DEFINE G == {s \in SUBSET S : SumFunctionOnSet(h, s)
                                    = SumFunctionOnSet(f, s) + SumFunctionOnSet(g, s)}
<1>1. ASSUME NEW s \in SUBSET S, \A x \in s : s \ {x} \in G PROVE s \in G
  <2>1. IsFiniteSet(s)
    BY FS_Subset
  <2>2. CASE s = {}
    <3>1. /\ SumFunctionOnSet(f, s) = 0 /\ SumFunctionOnSet(g, s) = 0
          /\ SumFunctionOnSet(h, s) = 0
      BY <2>1, <2>2, SumStep
    <3> QED
      BY <3>1
  <2>3. CASE s # {}
    <3>1. PICK a \in s : TRUE
      BY <2>3
    <3>2. PICK r : r = s \ {a} /\ IsFiniteSet(r)
      BY FS_Subset
    <3>3. \A c \in s : f[c] \in Int /\ g[c] \in Int /\ h[c] \in Int
      OBVIOUS
    <3>4. /\ SumFunctionOnSet(f, s) = f[a] + SumFunctionOnSet(f, r)
          /\ SumFunctionOnSet(g, s) = g[a] + SumFunctionOnSet(g, r)
          /\ SumFunctionOnSet(h, s) = h[a] + SumFunctionOnSet(h, r)
      BY <2>1, <3>2, <3>3, SumPick
    <3>5. /\ SumFunctionOnSet(f, r) \in Int /\ SumFunctionOnSet(g, r) \in Int
          /\ SumFunctionOnSet(h, r) \in Int
      BY <3>2, <3>3, SumInt
    <3>6. SumFunctionOnSet(h, r) = SumFunctionOnSet(f, r) + SumFunctionOnSet(g, r)
      BY <1>1, <3>2
    <3>7. h[a] = f[a] + g[a]
      OBVIOUS
    <3> QED
      BY <3>3, <3>4, <3>5, <3>6, <3>7
  <2> QED
    BY <2>2, <2>3
<1>2. S \in G
  <2> HIDE DEF G
  <2> QED
    BY <1>1, FiniteInduction
<1> QED
  BY <1>2

(* A sum whose terms are all at most those of another is at most that one. *)
LEMMA SumLeq ==
  ASSUME NEW S, IsFiniteSet(S), NEW f, NEW g,
         \A s \in S : f[s] \in Int /\ g[s] \in Int /\ f[s] <= g[s]
  PROVE  SumFunctionOnSet(f, S) <= SumFunctionOnSet(g, S)
<1> DEFINE G == {s \in SUBSET S : SumFunctionOnSet(f, s) <= SumFunctionOnSet(g, s)}
<1>1. ASSUME NEW s \in SUBSET S, \A x \in s : s \ {x} \in G PROVE s \in G
  <2>1. IsFiniteSet(s)
    BY FS_Subset
  <2>2. CASE s = {}
    <3>1. SumFunctionOnSet(f, s) = 0 /\ SumFunctionOnSet(g, s) = 0
      BY <2>1, <2>2, SumStep
    <3> QED
      BY <3>1
  <2>3. CASE s # {}
    <3>1. PICK a \in s : TRUE
      BY <2>3
    <3>2. PICK r : r = s \ {a} /\ IsFiniteSet(r)
      BY FS_Subset
    <3>3. /\ SumFunctionOnSet(f, s) = f[a] + SumFunctionOnSet(f, r)
          /\ SumFunctionOnSet(g, s) = g[a] + SumFunctionOnSet(g, r)
      BY <2>1, <3>2, SumPick
    <3>4. SumFunctionOnSet(f, r) \in Int /\ SumFunctionOnSet(g, r) \in Int
      BY <3>2, SumInt
    <3>5. SumFunctionOnSet(f, r) <= SumFunctionOnSet(g, r)
      BY <1>1, <3>2
    <3>6. f[a] \in Int /\ g[a] \in Int /\ f[a] <= g[a]
      OBVIOUS
    <3> QED
      BY <3>3, <3>4, <3>5, <3>6
  <2> QED
    BY <2>2, <2>3
<1>2. S \in G
  <2> HIDE DEF G
  <2> QED
    BY <1>1, FiniteInduction
<1> QED
  BY <1>2

(* A term that grows by d makes the sum grow by d.                         *)
LEMMA SumChanged ==
  ASSUME NEW S, IsFiniteSet(S), NEW f, NEW g, NEW a \in S, NEW d \in Int,
         \A s \in S : f[s] \in Int,
         g[a] = f[a] + d, \A s \in S \ {a} : g[s] = f[s]
  PROVE  SumFunctionOnSet(g, S) = SumFunctionOnSet(f, S) + d
<1>1. PICK r : r = S \ {a} /\ IsFiniteSet(r)
  BY FS_Subset
<1>2. f[a] \in Int /\ \A s \in S : g[s] \in Int
  OBVIOUS
<1>3. /\ SumFunctionOnSet(f, S) = f[a] + SumFunctionOnSet(f, r)
      /\ SumFunctionOnSet(g, S) = g[a] + SumFunctionOnSet(g, r)
  BY <1>1, <1>2, SumPick
<1>4. SumFunctionOnSet(g, r) = SumFunctionOnSet(f, r)
  BY <1>1, SumSame
<1>5. SumFunctionOnSet(f, r) \in Int
  BY <1>1, SumInt
<1> QED
  BY <1>2, <1>3, <1>4, <1>5

(* Nothing adds up to nothing.                                             *)
LEMMA SumZero ==
  ASSUME NEW S, IsFiniteSet(S), NEW f, \A s \in S : f[s] = 0
  PROVE  SumFunctionOnSet(f, S) = 0
<1>1. \A s \in S : f[s] \in Int /\ f[s] <= f[s] + f[s] /\ f[s] = f[s] + f[s]
  OBVIOUS
<1>2. SumFunctionOnSet(f, S) = SumFunctionOnSet(f, S) + SumFunctionOnSet(f, S)
  BY <1>1, SumOfSum
<1>3. PICK n : n = SumFunctionOnSet(f, S)
  OBVIOUS
<1>4. n \in Int /\ n = n + n
  BY <1>1, <1>2, <1>3, SumInt
<1>5. n = 0
  BY <1>4
<1> QED
  BY <1>3, <1>5

(* The sum of natural numbers is one.                                      *)
LEMMA SumNat ==
  ASSUME NEW S, IsFiniteSet(S), NEW f, \A s \in S : f[s] \in Nat
  PROVE  SumFunctionOnSet(f, S) \in Nat
<1> DEFINE zero == [s \in S |-> 0]
<1>1. SumFunctionOnSet(zero, S) = 0
  BY SumZero
<1>2. SumFunctionOnSet(zero, S) <= SumFunctionOnSet(f, S)
  <2>1. \A s \in S : zero[s] \in Int /\ f[s] \in Int /\ zero[s] <= f[s]
    OBVIOUS
  <2> HIDE DEF zero
  <2> QED
    BY <2>1, SumLeq
<1> HIDE DEF zero
<1>3. SumFunctionOnSet(f, S) \in Int
  BY SumInt
<1>4. PICK n : n = SumFunctionOnSet(f, S)
  OBVIOUS
<1>5. n \in Int /\ 0 <= n
  BY <1>1, <1>2, <1>3, <1>4
<1>6. n \in Nat
  BY <1>5
<1> QED
  BY <1>4, <1>6

(* A product distributes over a sum.                                       *)
LEMMA Distributes ==
  ASSUME NEW c \in Int, NEW a \in Int, NEW b \in Int
  PROVE  c * (a + b) = c * a + c * b /\ c * a \in Int
OBVIOUS

(* So does a factor over any sum.                                          *)
LEMMA SumScaled ==
  ASSUME NEW S, IsFiniteSet(S), NEW f, NEW g, NEW c \in Int,
         \A s \in S : f[s] \in Int /\ g[s] = c * f[s]
  PROVE  SumFunctionOnSet(g, S) = c * SumFunctionOnSet(f, S)
<1> DEFINE G == {s \in SUBSET S : SumFunctionOnSet(g, s) = c * SumFunctionOnSet(f, s)}
<1>1. ASSUME NEW s \in SUBSET S, \A x \in s : s \ {x} \in G PROVE s \in G
  <2>1. IsFiniteSet(s)
    BY FS_Subset
  <2>2. CASE s = {}
    <3>1. SumFunctionOnSet(f, s) = 0 /\ SumFunctionOnSet(g, s) = 0
      BY <2>1, <2>2, SumStep
    <3> QED
      BY <3>1
  <2>3. CASE s # {}
    <3>1. PICK a \in s : TRUE
      BY <2>3
    <3>2. PICK r : r = s \ {a} /\ IsFiniteSet(r)
      BY FS_Subset
    <3>3. \A b \in s : f[b] \in Int /\ g[b] \in Int
      BY Distributes
    <3>4. /\ SumFunctionOnSet(f, s) = f[a] + SumFunctionOnSet(f, r)
          /\ SumFunctionOnSet(g, s) = g[a] + SumFunctionOnSet(g, r)
      BY <2>1, <3>2, <3>3, SumPick
    <3>5. PICK n : n = SumFunctionOnSet(f, r)
      OBVIOUS
    <3>6. n \in Int
      BY <3>2, <3>3, <3>5, SumInt
    <3>7. SumFunctionOnSet(g, r) = c * n
      BY <1>1, <3>2, <3>5
    <3>8. c * (f[a] + n) = c * f[a] + c * n
      BY <3>3, <3>6, Distributes
    <3> QED
      BY <3>4, <3>5, <3>7, <3>8
  <2> QED
    BY <2>2, <2>3
<1>2. S \in G
  <2> HIDE DEF G
  <2> QED
    BY <1>1, FiniteInduction
<1> QED
  BY <1>2

(* Equal terms add up to their number times the term.                      *)
LEMMA SumConstant ==
  ASSUME NEW S, IsFiniteSet(S), NEW f, NEW c \in Int, \A s \in S : f[s] = c
  PROVE  SumFunctionOnSet(f, S) = Cardinality(S) * c
<1> DEFINE G == {s \in SUBSET S : SumFunctionOnSet(f, s) = Cardinality(s) * c}
<1>1. ASSUME NEW s \in SUBSET S, \A x \in s : s \ {x} \in G PROVE s \in G
  <2>1. IsFiniteSet(s)
    BY FS_Subset
  <2>2. CASE s = {}
    <3>1. SumFunctionOnSet(f, s) = 0 /\ Cardinality(s) = 0
      BY <2>1, <2>2, SumStep, FS_EmptySet
    <3> QED
      BY <3>1
  <2>3. CASE s # {}
    <3>1. PICK a \in s : TRUE
      BY <2>3
    <3>2. PICK r : r = s \ {a} /\ IsFiniteSet(r)
      BY FS_Subset
    <3>3. SumFunctionOnSet(f, s) = c + SumFunctionOnSet(f, r)
      BY <2>1, <3>2, SumPick
    <3>4. PICK n : n = Cardinality(r)
      OBVIOUS
    <3>5. n \in Nat /\ Cardinality(s) = n + 1
      <4>1. Cardinality(r) = Cardinality(s) - 1
        BY <2>1, <3>2, FS_RemoveElement
      <4>2. Cardinality(s) \in Nat /\ Cardinality(r) \in Nat
        BY <2>1, <3>2, FS_CardinalityType
      <4> QED
        BY <3>4, <4>1, <4>2
    <3>6. SumFunctionOnSet(f, r) = n * c
      BY <1>1, <3>2, <3>4
    <3>7. c + n * c = (n + 1) * c
      BY <3>5
    <3> QED
      BY <3>3, <3>5, <3>6, <3>7
  <2> QED
    BY <2>2, <2>3
<1>2. S \in G
  <2> HIDE DEF G
  <2> QED
    BY <1>1, FiniteInduction
<1> QED
  BY <1>2


-----------------------------------------------------------------------------
(* The simulated inventory                                                 *)

Simulating == todo # <<>>

StockInv ==
  /\ hour \in Nat
  /\ Simulating =>
       \A t \in 0..(Hours - 1), s \in Station : series.realized[t][s] \in Int
  /\ stock \in [Station -> Int]
  /\ StationsLegal
  /\ Simulating /\ phase = "solve" =>
       \A s \in Station : /\ problem.bikes[s] = Stock(stock[s])
                          /\ problem.capacity[s] = Capacity

(* A whole number of bikes, and half a bike more at most.                  *)
LEMMA StockBounds ==
  ASSUME NEW b \in Int, b >= 0
  PROVE  Stock(b) \in Nat /\ 2 * Stock(b) <= b /\ b <= 2 * Stock(b) + 1
BY DEF Stock

(* The flow of a series is a whole number of half bikes.                   *)
LEMMA SeriesNumbers ==
  ASSUME NEW values, values \subseteq Int, NEW f \in Series(values)
  PROVE  \A t \in 0..(Hours - 1), s \in Station : f[t][s] \in Int
<1> SUFFICES ASSUME NEW t \in 0..(Hours - 1), NEW s \in Station PROVE f[t][s] \in Int
  OBVIOUS
<1>1. f[t] \in {[r \in Station |-> IF r \in Quiet THEN 0 ELSE g[r]] :
                  g \in [Station \ Quiet -> values]}
  BY DEF Series
<1>2. PICK g \in [Station \ Quiet -> values] :
        f[t] = [r \in Station |-> IF r \in Quiet THEN 0 ELSE g[r]]
  BY <1>1
<1>3. f[t][s] = IF s \in Quiet THEN 0 ELSE g[s]
  BY <1>2, Zenon
<1>4. s \notin Quiet => g[s] \in Int
  BY <1>2
<1> QED
  BY <1>3, <1>4

(* A simulation begins with half the docks full.                           *)
LEMMA InitStockInv == ControlInit => StockInv
<1> SUFFICES ASSUME ControlInit PROVE StockInv
  OBVIOUS
<1> USE SolversAssumption, ControlAssumption, NetworkAssumption
<1>1. hour = 0 /\ stock = Neutral /\ (Simulating => phase = "decide")
  BY DEF ControlInit, Simulating
<1>2. stock \in [Station -> Int] /\ StationsLegal
  BY <1>1 DEF Neutral, StationsLegal
<1>3. ASSUME Simulating, NEW t \in 0..(Hours - 1), NEW s \in Station
      PROVE  series.realized[t][s] \in Int
  <2>1. series.realized \in Series(Net)
    BY <1>3 DEF ControlInit, Simulating
  <2> QED
    BY <1>3, <2>1, SeriesNumbers
<1> QED
  BY <1>1, <1>2, <1>3 DEF StockInv

(* The solvers leave the problem and the simulation alone.                 *)
LEMMA SolveKeeps ==
  ASSUME StockInv, Solve
  PROVE  StockInv'
<1>1. UNCHANGED problem
  BY DEF Solve, Next, GreedyMove, GreedyStop, Milp, MilpFails, SolveQubo, Place, HoldBack,
         Answer
<1> QED
  BY <1>1 DEF Solve, controlVars, StockInv, Simulating, StationsLegal

(* The solver is given the whole bikes that stand at the stations.         *)
LEMMA DecideKeeps ==
  ASSUME StockInv, NEW target, Decide(target)
  PROVE  StockInv'
<1>1. problem' = Period(target) /\ UNCHANGED <<series, todo, hour, stock>>
  BY DEF Decide, Given
<1>2. \A s \in Station : /\ problem'.bikes[s] = Stock(stock[s])
                         /\ problem'.capacity[s] = Capacity
  BY <1>1 DEF Period
<1> QED
  BY <1>1, <1>2 DEF StockInv, Simulating, StationsLegal

(* Only a plan that checked is carried out: what it leaves at a station    *)
(* fits the docks, and half a bike may stay on top.                        *)
LEMMA ApplyKeeps ==
  ASSUME StockInv, Simulating, Apply
  PROVE  StockInv'
<1> USE SolversAssumption
<1> DEFINE final == FinalInventory(problem, moved)
           ok == Feasible(problem, moved)
<1>1. /\ stock' = [s \in Station |-> IF ok THEN stock[s] + 2 * (final[s] - problem.bikes[s])
                                      ELSE stock[s]]
      /\ phase = "solve" /\ phase' = "realize" /\ UNCHANGED <<series, todo, hour>>
  BY DEF Apply
<1>2. ASSUME NEW s \in Station
      PROVE  stock'[s] \in Int /\ stock'[s] >= 0 /\ stock'[s] < 2 * (Capacity + 1)
  <2>1. stock[s] \in Int /\ stock[s] >= 0 /\ stock[s] < 2 * (Capacity + 1)
    BY DEF StockInv, StationsLegal
  <2>2. /\ problem.bikes[s] \in Nat /\ problem.capacity[s] = Capacity
        /\ 2 * problem.bikes[s] <= stock[s] /\ stock[s] <= 2 * problem.bikes[s] + 1
    BY <1>1, <2>1, StockBounds DEF StockInv
  <2>3. CASE ok
    <3>1. final[s] \in 0..Capacity
      BY <2>2, <2>3 DEF Feasible
    <3> HIDE DEF final
    <3>2. stock'[s] = stock[s] + 2 * (final[s] - problem.bikes[s])
      BY <1>1, <2>3
    <3> QED
      BY <2>1, <2>2, <3>1, <3>2
  <2>4. CASE ~ok
    BY <1>1, <2>1, <2>4
  <2> QED
    BY <2>3, <2>4
<1>3. stock' \in [Station -> Int]
  BY <1>1, <1>2
<1> QED
  BY <1>1, <1>2, <1>3 DEF StockInv, StationsLegal, Simulating

(* Departures take what is there, arrivals fill what is free: a zone that  *)
(* holds more than its docks gives the rest away.                          *)
LEMMA RealizeKeeps ==
  ASSUME StockInv, Simulating, Realize
  PROVE  StockInv'
<1> USE SolversAssumption, ControlAssumption
<1> DEFINE net == series.realized[hour]
<1>1. /\ stock' = [s \in Station |->
                     IF net[s] < 0 THEN stock[s] - Least(stock[s], -net[s])
                     ELSE stock[s] + Least(2 * Capacity - stock[s], net[s])]
      /\ hour' = hour + 1 /\ phase' = "decide" /\ hour < Hours
      /\ UNCHANGED <<series, todo>>
  BY DEF Realize
<1>2. \A s \in Station : net[s] \in Int
  BY <1>1 DEF StockInv
<1>3. ASSUME NEW s \in Station
      PROVE  stock'[s] \in Int /\ stock'[s] >= 0 /\ stock'[s] < 2 * (Capacity + 1)
  <2>1. stock[s] \in Int /\ stock[s] >= 0 /\ stock[s] < 2 * (Capacity + 1)
    BY DEF StockInv, StationsLegal
  <2>2. PICK b \in Int, n \in Int : b = stock[s] /\ n = net[s]
    BY <1>2, <2>1
  <2>3. stock'[s] = IF n < 0 THEN b - Least(b, -n) ELSE b + Least(2 * Capacity - b, n)
    BY <1>1, <2>2
  <2>4. PICK c \in Nat : c = Capacity
    OBVIOUS
  <2>5. b \in Nat /\ b < 2 * (c + 1)
    BY <2>1, <2>2, <2>4
  <2>6. CASE n < 0
    <3>1. stock'[s] = b - Least(b, -n)
      BY <2>3, <2>6
    <3>2. b - Least(b, -n) \in 0..b
      BY <2>5, <2>6 DEF Least
    <3> QED
      BY <2>4, <2>5, <3>1, <3>2
  <2>7. CASE n >= 0
    <3>1. stock'[s] = b + Least(2 * c - b, n)
      BY <2>3, <2>4, <2>7
    <3>2. /\ b + Least(2 * c - b, n) \in Nat
          /\ b + Least(2 * c - b, n) < 2 * (c + 1)
      BY <2>4, <2>5, <2>7 DEF Least
    <3> QED
      BY <2>4, <3>1, <3>2
  <2> QED
    BY <2>6, <2>7
<1>4. stock' \in [Station -> Int]
  BY <1>1, <1>3
<1> QED
  BY <1>1, <1>3, <1>4 DEF StockInv, StationsLegal, Simulating

(* Every step of a simulation keeps the inventory legal.                   *)
LEMMA ControlNextKeeps == StockInv /\ [ControlNext]_<<vars, controlVars>> => StockInv'
<1> SUFFICES ASSUME StockInv, [ControlNext]_<<vars, controlVars>> PROVE StockInv'
  OBVIOUS
<1>1. CASE UNCHANGED <<vars, controlVars>>
  BY <1>1 DEF vars, controlVars, StockInv, Simulating, StationsLegal
<1>2. CASE Solve
  BY <1>2, SolveKeeps
<1>3. CASE \E target \in TargetsOf(Policy) : Decide(target)
  BY <1>3, DecideKeeps
<1>4. CASE Stay
  BY <1>4 DEF Stay, vars, StockInv, Simulating, StationsLegal
<1>5. CASE Simulating /\ Apply
  BY <1>5, ApplyKeeps
<1>6. CASE Simulating /\ Realize
  BY <1>6, RealizeKeeps
<1>7. CASE Simulating /\ EndPolicy
  <2>1. stock' = Neutral /\ hour' = 0 /\ phase' = "decide" /\ series' = series
    BY <1>7 DEF EndPolicy
  <2>2. stock' \in [Station -> Int] /\ StationsLegal'
    BY <2>1, SolversAssumption DEF Neutral, StationsLegal
  <2> QED
    BY <1>7, <2>1, <2>2 DEF StockInv, Simulating
<1> QED
  BY <1>1, <1>2, <1>3, <1>4, <1>5, <1>6, <1>7 DEF ControlNext, Simulating

(* Every hour's problem can be stated: whatever the flow, the forecast,    *)
(* the policy and the plans the solvers answer, no zone owes a bike or     *)
(* holds a whole bike more than its docks.                                 *)
THEOREM SimulationsStayLegal == ControlSpec => []StationsLegal
<1>1. ControlInit => StockInv
  BY InitStockInv
<1>2. StockInv /\ [ControlNext]_<<vars, controlVars>> => StockInv'
  BY ControlNextKeeps
<1>3. StockInv => StationsLegal
  BY DEF StockInv
<1> QED
  BY <1>1, <1>2, <1>3, PTL DEF ControlSpec

-----------------------------------------------------------------------------
(* Plans                                                                   *)

(* A surplus station only gives, a deficit station only takes.             *)
OneWay(p, x, s) ==
  /\ p.bikes[s] >= p.target[s] => Inflow(x, s) = 0
  /\ p.bikes[s] <= p.target[s] => Outflow(x, s) = 0

(* The scan of greedy_plan: between what a station had and its target.     *)
GreedySound(p, b, x, l) ==
  /\ x \in [Pair -> Nat] /\ b = FinalInventory(p, x)
  /\ l \in Nat /\ TotalMoved(x) = p.vehicle - l
  /\ \A s \in Station :
       /\ OneWay(p, x, s)
       /\ \/ p.bikes[s] <= b[s] /\ b[s] <= p.target[s]
          \/ p.target[s] <= b[s] /\ b[s] <= p.bikes[s]

(* A plan for operation.                                                   *)
PlanSound(p, b, x) ==
  /\ x \in [Pair -> Nat] /\ b = FinalInventory(p, x)
  /\ Feasible(p, x)

(* The allocation only adds, and only up to a target.                      *)
AllocationSound(p, b, l) ==
  /\ b \in [Station -> Int] /\ l \in Nat
  /\ \A s \in Station :
       p.bikes[s] <= b[s] /\ (b[s] <= p.target[s] \/ b[s] = p.bikes[s])

(* The network is finite.                                                  *)
LEMMA NetworkFinite ==
  /\ IsFiniteSet(Station) /\ Cardinality(Station) = N
  /\ \A S \in SUBSET Pair : IsFiniteSet(S)
  /\ \A e \in Pair : e[1] \in Station /\ e[2] \in Station /\ e[1] # e[2]
<1>1. IsFiniteSet(Station) /\ Cardinality(Station) = N
  <2>1. N \in Nat /\ 1 \in Int /\ N \in Int
    BY NetworkAssumption
  <2>2. IsFiniteSet(1..N) /\ Cardinality(1..N) = IF 1 > N THEN 0 ELSE N - 1 + 1
    BY <2>1, FS_Interval
  <2> QED
    BY <2>1, <2>2 DEF Station
<1>2. IsFiniteSet(Station \X Station)
  BY <1>1, FS_Product
<1>3. \A S \in SUBSET Pair : S \subseteq Station \X Station
  BY DEF Pair
<1>4. \A S \in SUBSET Pair : IsFiniteSet(S)
  BY <1>2, <1>3, FS_Subset
<1> QED
  BY <1>1, <1>4 DEF Pair

(* The numbers of a problem.                                               *)
LEMMA GivenNumbers ==
  ASSUME NEW p \in ProblemsWithin(Capacity), NEW s \in Station
  PROVE  /\ p.bikes[s] \in 0..Capacity /\ p.target[s] \in 0..Capacity
         /\ p.bikes[s] \in Int /\ p.target[s] \in Int
         /\ p.capacity[s] = Capacity /\ p.vehicle \in Nat
BY SolversAssumption, NetworkAssumption DEF ProblemsWithin

(* What a plan moves in total, out of a station and into it.               *)
LEMMA PlanNumbers ==
  ASSUME NEW x \in [Pair -> Nat]
  PROVE  /\ TotalMoved(x) \in Nat
         /\ \A s \in Station : Outflow(x, s) \in Nat /\ Inflow(x, s) \in Nat
<1>1. ASSUME NEW S \in SUBSET Pair PROVE SumFunctionOnSet(x, S) \in Nat
  <2>1. IsFiniteSet(S) /\ \A e \in S : x[e] \in Nat
    BY NetworkFinite
  <2> QED
    BY <2>1, SumNat
<1> QED
  BY <1>1 DEF TotalMoved, Outflow, Inflow

(* The empty plan moves nothing.                                           *)
LEMMA NothingMoves ==
  /\ NoMove \in [Pair -> Nat] /\ TotalMoved(NoMove) = 0
  /\ \A s \in Station : Outflow(NoMove, s) = 0 /\ Inflow(NoMove, s) = 0
<1>1. ASSUME NEW S \in SUBSET Pair PROVE SumFunctionOnSet(NoMove, S) = 0
  <2>1. IsFiniteSet(S) /\ \A e \in S : NoMove[e] = 0
    BY NetworkFinite DEF NoMove
  <2> QED
    BY <2>1, SumZero
<1> QED
  BY <1>1 DEF NoMove, TotalMoved, Outflow, Inflow

(* Plan y moves q more along e than x.                                     *)
More(x, y, e, q) ==
  /\ x \in [Pair -> Nat] /\ y \in [Pair -> Nat]
  /\ y[e] = x[e] + q /\ \A f \in Pair \ {e} : y[f] = x[f]

(* Moving q more along e: over every set of pairs that e belongs to, the   *)
(* sum grows by q, and over the others it stays.                           *)
LEMMA MoreOnPair ==
  ASSUME NEW x, NEW y, NEW e \in Pair, NEW q \in Nat, More(x, y, e, q),
         NEW S \in SUBSET Pair
  PROVE  /\ e \in S => SumFunctionOnSet(y, S) = SumFunctionOnSet(x, S) + q
         /\ e \notin S => SumFunctionOnSet(y, S) = SumFunctionOnSet(x, S)
<1>1. IsFiniteSet(S) /\ \A f \in S : x[f] \in Int
  BY NetworkFinite DEF More
<1>2. y[e] = x[e] + q /\ \A f \in Pair \ {e} : y[f] = x[f]
  BY DEF More
<1>3. CASE e \in S
  <2>1. q \in Int /\ \A f \in S \ {e} : y[f] = x[f]
    BY <1>2
  <2>2. SumFunctionOnSet(y, S) = SumFunctionOnSet(x, S) + q
    BY <1>1, <1>2, <1>3, <2>1, SumChanged
  <2> QED
    BY <1>3, <2>2
<1>4. CASE e \notin S
  <2>1. \A f \in S : y[f] = x[f]
    BY <1>2, <1>4
  <2>2. SumFunctionOnSet(y, S) = SumFunctionOnSet(x, S)
    BY <1>1, <2>1, SumSame
  <2> QED
    BY <1>4, <2>2
<1> QED
  BY <1>3, <1>4

(* So the vehicle carries q more, one station gives and one takes.         *)
LEMMA FlowSums ==
  ASSUME NEW x, NEW y, NEW e \in Pair, NEW q \in Nat, More(x, y, e, q)
  PROVE  /\ TotalMoved(y) = TotalMoved(x) + q
         /\ Outflow(y, e[1]) = Outflow(x, e[1]) + q
         /\ Inflow(y, e[2]) = Inflow(x, e[2]) + q
         /\ \A s \in Station : /\ s # e[1] => Outflow(y, s) = Outflow(x, s)
                               /\ s # e[2] => Inflow(y, s) = Inflow(x, s)
<1>2. TotalMoved(y) = TotalMoved(x) + q
  <2>1. Pair \in SUBSET Pair /\ e \in Pair
    OBVIOUS
  <2>2. SumFunctionOnSet(y, Pair) = SumFunctionOnSet(x, Pair) + q
    BY <2>1, MoreOnPair
  <2> QED
    BY <2>1, <2>2 DEF TotalMoved
<1>3. ASSUME NEW s \in Station
      PROVE  /\ s = e[1] => Outflow(y, s) = Outflow(x, s) + q
             /\ s # e[1] => Outflow(y, s) = Outflow(x, s)
             /\ s = e[2] => Inflow(y, s) = Inflow(x, s) + q
             /\ s # e[2] => Inflow(y, s) = Inflow(x, s)
  <2>1. PICK O, I : O = {f \in Pair : f[1] = s} /\ I = {f \in Pair : f[2] = s}
    OBVIOUS
  <2>2. /\ O \in SUBSET Pair /\ (e \in O <=> s = e[1])
        /\ I \in SUBSET Pair /\ (e \in I <=> s = e[2])
    BY <2>1
  <2>3. /\ e \in O => SumFunctionOnSet(y, O) = SumFunctionOnSet(x, O) + q
        /\ e \notin O => SumFunctionOnSet(y, O) = SumFunctionOnSet(x, O)
    BY <2>2, MoreOnPair
  <2>4. /\ e \in I => SumFunctionOnSet(y, I) = SumFunctionOnSet(x, I) + q
        /\ e \notin I => SumFunctionOnSet(y, I) = SumFunctionOnSet(x, I)
    BY <2>2, MoreOnPair
  <2> QED
    BY <2>1, <2>2, <2>3, <2>4 DEF Outflow, Inflow
<1> QED
  BY <1>2, <1>3, NetworkFinite

(* The working copy follows the plan.                                      *)
LEMMA CarryFollows ==
  ASSUME NEW p \in ProblemsWithin(Capacity), NEW x, NEW y, NEW e \in Pair,
         NEW q \in Nat, More(x, y, e, q)
  PROVE  Carry(FinalInventory(p, x), e, q) = FinalInventory(p, y)
<1> DEFINE b == FinalInventory(p, x)
<1>1. e[1] \in Station /\ e[2] \in Station /\ e[1] # e[2]
  BY NetworkFinite
<1>0. x \in [Pair -> Nat] /\ y \in [Pair -> Nat]
  BY DEF More
<1>2. \A s \in Station : b[s] \in Int
  BY <1>0, PlanNumbers, GivenNumbers DEF FinalInventory
<1>3. ASSUME NEW s \in Station
      PROVE  FinalInventory(p, y)[s] = b[s] - (IF s = e[1] THEN q ELSE 0)
                                            + (IF s = e[2] THEN q ELSE 0)
  <2>1. PICK k \in Int, o \in Int, i \in Int, o2 \in Int, i2 \in Int :
          /\ k = p.bikes[s] /\ o = Outflow(x, s) /\ i = Inflow(x, s)
          /\ o2 = Outflow(y, s) /\ i2 = Inflow(y, s)
    <3>1. Outflow(x, s) \in Int /\ Inflow(x, s) \in Int
      BY <1>0, PlanNumbers
    <3>2. Outflow(y, s) \in Int /\ Inflow(y, s) \in Int
      BY <1>0, PlanNumbers
    <3>3. p.bikes[s] \in Int
      BY GivenNumbers
    <3> QED
      BY <3>1, <3>2, <3>3
  <2>2. /\ o2 = o + (IF s = e[1] THEN q ELSE 0)
        /\ i2 = i + (IF s = e[2] THEN q ELSE 0)
    <3>1. /\ Outflow(y, e[1]) = Outflow(x, e[1]) + q
          /\ Inflow(y, e[2]) = Inflow(x, e[2]) + q
      BY FlowSums
    <3>2. s # e[1] => Outflow(y, s) = Outflow(x, s)
      BY FlowSums
    <3>3. s # e[2] => Inflow(y, s) = Inflow(x, s)
      BY FlowSums
    <3> QED
      BY <2>1, <3>1, <3>2, <3>3
  <2>3. b[s] = k - o + i /\ FinalInventory(p, y)[s] = k - o2 + i2
    BY <2>1 DEF FinalInventory
  <2> QED
    BY <1>1, <2>2, <2>3
<1>4. b = [s \in Station |-> b[s]] /\ FinalInventory(p, y)
        = [s \in Station |-> FinalInventory(p, y)[s]]
  BY DEF FinalInventory
<1>5. Carry(b, e, q) = [s \in Station |-> b[s] - (IF s = e[1] THEN q ELSE 0)
                                               + (IF s = e[2] THEN q ELSE 0)]
  <2>1. PICK c : c = b /\ c = [s \in Station |-> c[s]] /\ \A s \in Station : c[s] \in Int
    BY <1>2, <1>4
  <2>2. Carry(c, e, q) = [s \in Station |-> c[s] - (IF s = e[1] THEN q ELSE 0)
                                               + (IF s = e[2] THEN q ELSE 0)]
    BY <1>1, <2>1 DEF Carry
  <2> QED
    BY <2>1, <2>2
<1>6. \A s \in Station : b[s] - (IF s = e[1] THEN q ELSE 0) + (IF s = e[2] THEN q ELSE 0)
                           = FinalInventory(p, y)[s]
  BY <1>3
<1> QED
  BY <1>4, <1>5, <1>6

(* The numbers of an inventory a plan leads to.                            *)
LEMMA FinalNumbers ==
  ASSUME NEW p \in ProblemsWithin(Capacity), NEW x \in [Pair -> Nat], NEW s \in Station
  PROVE  /\ FinalInventory(p, x)[s] = p.bikes[s] - Outflow(x, s) + Inflow(x, s)
         /\ FinalInventory(p, x)[s] \in Int
BY GivenNumbers, PlanNumbers DEF FinalInventory

(* A move of the scan keeps the plan sound: its origin is a surplus        *)
(* station, its destination a deficit station, and q overshoots neither.   *)
LEMMA GreedyStep ==
  ASSUME NEW p \in ProblemsWithin(Capacity), NEW b, NEW x, NEW l, GreedySound(p, b, x, l),
         NEW e \in Pair, NEW q \in Nat, NEW y, More(x, y, e, q), Candidate(p, b, e),
         q <= l, q <= b[e[1]] - p.target[e[1]], q <= p.target[e[2]] - b[e[2]]
  PROVE  GreedySound(p, FinalInventory(p, y), y, l - q)
<1>1. /\ x \in [Pair -> Nat] /\ y \in [Pair -> Nat] /\ b = FinalInventory(p, x)
      /\ l \in Nat /\ TotalMoved(x) = p.vehicle - l
  BY DEF GreedySound, More
<1>2. e[1] \in Station /\ e[2] \in Station /\ e[1] # e[2]
  BY NetworkFinite
<1>3. l - q \in Nat /\ TotalMoved(y) = p.vehicle - (l - q)
  <2>1. TotalMoved(y) = TotalMoved(x) + q
    BY FlowSums
  <2>2. PICK v \in Int : v = p.vehicle
    BY <1>2, GivenNumbers
  <2> QED
    BY <1>1, <2>1, <2>2
<1>4. Carry(b, e, q) = FinalInventory(p, y)
  BY <1>1, CarryFollows
<1>5. PICK c : c = FinalInventory(p, y)
  OBVIOUS
<1>6. ASSUME NEW s \in Station
      PROVE  /\ OneWay(p, y, s)
             /\ \/ p.bikes[s] <= c[s] /\ c[s] <= p.target[s]
                \/ p.target[s] <= c[s] /\ c[s] <= p.bikes[s]
  <2>1. PICK k \in Int, t \in Int, m \in Int : k = p.bikes[s] /\ t = p.target[s] /\ m = b[s]
    BY <1>1, FinalNumbers, GivenNumbers
  <2>2. /\ k >= t => Inflow(x, s) = 0
        /\ k <= t => Outflow(x, s) = 0
        /\ \/ k <= m /\ m <= t
           \/ t <= m /\ m <= k
    BY <2>1 DEF GreedySound, OneWay
  <2>3. CASE s = e[1]
    <3>1. m > t /\ q <= m - t
      BY <2>1, <2>3 DEF Candidate
    <3>2. k > t
      BY <2>1, <2>2, <3>1
    <3>3. s # e[2]
      BY <1>2, <2>3
    <3>4. Inflow(y, s) = Inflow(x, s)
      BY <3>3, FlowSums
    <3>5. c[s] = m - q
      <4>1. Carry(b, e, q)[s] = b[s] - q
        BY <1>1, <1>2, <2>3 DEF Carry, FinalInventory
      <4> QED
        BY <1>4, <1>5, <2>1, <4>1
    <3>6. OneWay(p, y, s)
      BY <2>1, <2>2, <3>2, <3>4 DEF OneWay
    <3> QED
      BY <2>1, <2>2, <3>1, <3>2, <3>5, <3>6
  <2>4. CASE s = e[2]
    <3>1. m < t /\ q <= t - m
      BY <2>1, <2>4 DEF Candidate
    <3>2. k < t
      BY <2>1, <2>2, <3>1
    <3>3. s # e[1]
      BY <1>2, <2>4
    <3>4. Outflow(y, s) = Outflow(x, s)
      BY <3>3, FlowSums
    <3>5. c[s] = m + q
      <4>1. Carry(b, e, q)[s] = b[s] + q
        BY <1>1, <1>2, <2>4 DEF Carry, FinalInventory
      <4> QED
        BY <1>4, <1>5, <2>1, <4>1
    <3>6. OneWay(p, y, s)
      BY <2>1, <2>2, <3>2, <3>4 DEF OneWay
    <3> QED
      BY <2>1, <2>2, <3>1, <3>2, <3>5, <3>6
  <2>5. CASE s # e[1] /\ s # e[2]
    <3>1. Outflow(y, s) = Outflow(x, s)
      BY <2>5, FlowSums
    <3>2. Inflow(y, s) = Inflow(x, s)
      BY <2>5, FlowSums
    <3>3. c[s] = m
      <4>1. Carry(b, e, q)[s] = b[s]
        BY <1>1, <2>5 DEF Carry, FinalInventory
      <4> QED
        BY <1>4, <1>5, <2>1, <4>1
    <3> QED
      BY <2>1, <2>2, <3>1, <3>2, <3>3 DEF OneWay
  <2> QED
    BY <2>3, <2>4, <2>5
<1> QED
  BY <1>1, <1>3, <1>5, <1>6 DEF GreedySound

(* What the scan has so far can be carried out.                            *)
LEMMA SoundIsFeasible ==
  ASSUME NEW p \in ProblemsWithin(Capacity), NEW b, NEW x, NEW l, GreedySound(p, b, x, l)
  PROVE  PlanSound(p, b, x)
<1>1. /\ x \in [Pair -> Nat] /\ b = FinalInventory(p, x)
      /\ l \in Nat /\ TotalMoved(x) = p.vehicle - l
  BY DEF GreedySound
<1>2. TotalMoved(x) <= p.vehicle
  <2>1. PICK v : v = p.vehicle
    OBVIOUS
  <2>2. v \in Nat
    BY <2>1, NetworkAssumption DEF ProblemsWithin
  <2>3. v - l <= v
    BY <1>1, <2>2
  <2> QED
    BY <1>1, <2>1, <2>3
<1>3. ASSUME NEW s \in Station
      PROVE  Outflow(x, s) <= p.bikes[s] /\ FinalInventory(p, x)[s] \in 0..p.capacity[s]
  <2>1. PICK k \in 0..Capacity, t \in 0..Capacity, m \in Int, o \in Nat, i \in Nat :
          /\ k = p.bikes[s] /\ t = p.target[s] /\ m = b[s]
          /\ o = Outflow(x, s) /\ i = Inflow(x, s) /\ p.capacity[s] = Capacity
    BY <1>1, FinalNumbers, GivenNumbers, PlanNumbers
  <2>2. /\ k >= t => i = 0
        /\ k <= t => o = 0
        /\ \/ k <= m /\ m <= t
           \/ t <= m /\ m <= k
    BY <2>1 DEF GreedySound, OneWay
  <2>3. m = k - o + i
    BY <1>1, <2>1, FinalNumbers
  <2>4. o <= k /\ m \in 0..Capacity
    BY <2>2, <2>3, SolversAssumption
  <2> QED
    BY <1>1, <2>1, <2>4
<1> QED
  BY <1>1, <1>2, <1>3 DEF PlanSound, Feasible

(* Doing nothing is a plan, and where the scan begins.                     *)
LEMMA NothingIsSound ==
  ASSUME NEW p \in ProblemsWithin(Capacity)
  PROVE  /\ GreedySound(p, p.bikes, NoMove, p.vehicle)
         /\ PlanSound(p, p.bikes, NoMove)
<1>1. p.bikes = [s \in Station |-> p.bikes[s]]
  BY DEF ProblemsWithin
<1>2. \A s \in Station : p.bikes[s] - Outflow(NoMove, s) + Inflow(NoMove, s) = p.bikes[s]
  BY GivenNumbers, NothingMoves
<1>3. p.bikes = FinalInventory(p, NoMove)
  BY <1>1, <1>2 DEF FinalInventory
<1>4. p.vehicle \in Nat
  BY NetworkAssumption DEF ProblemsWithin
<1>5. TotalMoved(NoMove) = p.vehicle - p.vehicle
  BY <1>4, NothingMoves
<1>6. ASSUME NEW s \in Station
      PROVE  /\ OneWay(p, NoMove, s)
             /\ \/ p.bikes[s] <= p.bikes[s] /\ p.bikes[s] <= p.target[s]
                \/ p.target[s] <= p.bikes[s] /\ p.bikes[s] <= p.bikes[s]
  BY GivenNumbers, NothingMoves DEF OneWay
<1>7. GreedySound(p, p.bikes, NoMove, p.vehicle)
  BY <1>3, <1>4, <1>5, <1>6, NothingMoves DEF GreedySound
<1> QED
  BY <1>7, SoundIsFeasible

(* What the imbalance of a station costs.                                  *)
StationCost(t, v) == ShortageCost * PositivePart(t - v) + OverflowCost * PositivePart(v - t)

LEMMA CostIsSum ==
  ASSUME NEW p, NEW b
  PROVE  ImbalanceCost(p, b)
           = SumFunctionOnSet([s \in Station |-> StationCost(p.target[s], b[s])], Station)
BY DEF ImbalanceCost, StationCost

(* Products of a price.                                                    *)
LEMMA Prices ==
  ASSUME NEW c \in Nat, NEW a \in Int, NEW q \in Int
  PROVE  /\ c * a \in Int /\ c * (a - q) = c * a - c * q
         /\ c * (a + q) = c * a + c * q /\ c * 0 = 0
         /\ a >= 0 => c * a >= 0
OBVIOUS

LEMMA StationCostCases ==
  ASSUME NEW t \in Int, NEW v \in Int
  PROVE  /\ StationCost(t, v) \in Nat
         /\ v <= t => StationCost(t, v) = ShortageCost * (t - v)
         /\ v >= t => StationCost(t, v) = OverflowCost * (v - t)
<1>1. PICK c \in Nat, d \in Nat : c = ShortageCost /\ d = OverflowCost
  BY NetworkAssumption
<1>2. StationCost(t, v) = c * PositivePart(t - v) + d * PositivePart(v - t)
  BY <1>1 DEF StationCost
<1>3. CASE v <= t
  <2>1. PositivePart(t - v) = t - v /\ PositivePart(v - t) = 0 /\ t - v \in Int /\ t - v >= 0
    BY <1>3 DEF PositivePart
  <2>2. c * (t - v) \in Int /\ c * (t - v) >= 0 /\ d * 0 = 0
    BY <2>1, Prices
  <2>3. StationCost(t, v) = c * (t - v)
    BY <1>2, <2>1, <2>2
  <2>4. v = t => d * (v - t) = c * (t - v)
    <3>1. v = t => v - t = 0 /\ t - v = 0
      OBVIOUS
    <3>2. c * 0 = 0
      OBVIOUS
    <3> QED
      BY <3>1, <3>2, <2>2
  <2>5. StationCost(t, v) \in Nat
    <3>1. PICK n : n = c * (t - v)
      OBVIOUS
    <3>2. n \in Nat
      BY <2>2, <3>1
    <3> QED
      BY <2>3, <3>1, <3>2
  <2>6. v >= t => v = t
    BY <1>3
  <2> QED
    BY <1>1, <2>3, <2>4, <2>5, <2>6
<1>4. CASE v > t
  <2>1. PositivePart(t - v) = 0 /\ PositivePart(v - t) = v - t /\ v - t \in Int /\ v - t >= 0
    BY <1>4 DEF PositivePart
  <2>2. d * (v - t) \in Int /\ d * (v - t) >= 0 /\ c * 0 = 0
    BY <2>1, Prices
  <2>3. StationCost(t, v) = d * (v - t)
    BY <1>2, <2>1, <2>2
  <2>5. StationCost(t, v) \in Nat
    <3>1. PICK n : n = d * (v - t)
      OBVIOUS
    <3>2. n \in Nat
      BY <2>2, <3>1
    <3> QED
      BY <2>3, <3>1, <3>2
  <2>6. ~(v <= t)
    BY <1>4
  <2> QED
    BY <1>1, <2>3, <2>5, <2>6
<1> QED
  BY <1>3, <1>4

(* The imbalance of an inventory costs a natural number.                   *)
LEMMA ImbalanceNumber ==
  ASSUME NEW p \in ProblemsWithin(Capacity), NEW b, \A s \in Station : b[s] \in Int
  PROVE  ImbalanceCost(p, b) \in Nat
<1>1. PICK f : f = [s \in Station |-> StationCost(p.target[s], b[s])]
  OBVIOUS
<1>2. \A s \in Station : f[s] \in Nat
  BY <1>1, GivenNumbers, StationCostCases
<1>3. SumFunctionOnSet(f, Station) \in Nat
  BY <1>2, NetworkFinite, SumNat
<1> QED
  BY <1>1, <1>3, CostIsSum

(* Carrying q bikes from above its target to below its target saves        *)
(* the overflow of the one and the shortage of the other.                  *)
LEMMA ImbalanceSaved ==
  ASSUME NEW p \in ProblemsWithin(Capacity), NEW b \in [Station -> Int],
         NEW e \in Pair, NEW q \in Nat, Candidate(p, b, e),
         q <= b[e[1]] - p.target[e[1]], q <= p.target[e[2]] - b[e[2]]
  PROVE  ImbalanceCost(p, Carry(b, e, q))
           = ImbalanceCost(p, b) - OverflowCost * q - ShortageCost * q
<1> DEFINE c == Carry(b, e, q)
<1>1. e[1] \in Station /\ e[2] \in Station /\ e[1] # e[2]
  BY NetworkFinite
<1>2. /\ c[e[1]] = b[e[1]] - q /\ c[e[2]] = b[e[2]] + q
      /\ \A s \in Station : c[s] \in Int
      /\ \A s \in Station : s # e[1] /\ s # e[2] => c[s] = b[s]
  BY <1>1 DEF Carry
<1> HIDE DEF c
<1>3. PICK f, h : /\ f = [s \in Station |-> StationCost(p.target[s], b[s])]
                  /\ h = [s \in Station |-> StationCost(p.target[s], c[s])]
  OBVIOUS
<1>4. PICK g : g = [f EXCEPT ![e[1]] = h[e[1]]]
  OBVIOUS
<1>5. /\ \A s \in Station : f[s] \in Int /\ h[s] \in Int /\ g[s] \in Int
      /\ g[e[1]] = h[e[1]] /\ \A s \in Station \ {e[1]} : g[s] = f[s]
      /\ \A s \in Station \ {e[2]} : h[s] = g[s]
  <2>3. ASSUME NEW s \in Station PROVE f[s] \in Int /\ h[s] \in Int
    <3>1. p.target[s] \in Int /\ b[s] \in Int /\ c[s] \in Int
      BY <1>2, GivenNumbers
    <3>2. StationCost(p.target[s], b[s]) \in Nat /\ StationCost(p.target[s], c[s]) \in Nat
      BY <3>1, StationCostCases
    <3> QED
      BY <1>3, <3>2
  <2>4. \A s \in Station : s # e[1] /\ s # e[2] => h[s] = f[s]
    BY <1>2, <1>3
  <2> QED
    BY <1>1, <1>3, <1>4, <2>3, <2>4
<1>6. PICK O \in Int, S \in Int : O = OverflowCost * q /\ S = ShortageCost * q
  BY NetworkAssumption
<1>7. h[e[1]] = f[e[1]] - O
  <2>1. PICK t \in Int, m \in Int : t = p.target[e[1]] /\ m = b[e[1]]
    BY <1>1, GivenNumbers
  <2>2. m >= t /\ m - q >= t /\ m - q \in Int
    BY <2>1 DEF Candidate
  <2>3. f[e[1]] = OverflowCost * (m - t)
    BY <1>1, <1>3, <2>1, <2>2, StationCostCases
  <2>4. h[e[1]] = OverflowCost * ((m - q) - t)
    <3>1. h[e[1]] = StationCost(t, m - q)
      BY <1>1, <1>2, <1>3, <2>1
    <3> QED
      BY <2>2, <3>1, StationCostCases
  <2>5. (m - q) - t = (m - t) - q /\ m - t \in Int /\ q \in Int
    OBVIOUS
  <2>6. OverflowCost * ((m - t) - q) = OverflowCost * (m - t) - OverflowCost * q
    BY <2>5, NetworkAssumption, Prices
  <2> QED
    BY <1>6, <2>3, <2>4, <2>5, <2>6
<1>8. h[e[2]] = f[e[2]] - S
  <2>1. PICK t \in Int, m \in Int : t = p.target[e[2]] /\ m = b[e[2]]
    BY <1>1, GivenNumbers
  <2>2. m <= t /\ m + q <= t /\ m + q \in Int
    BY <2>1 DEF Candidate
  <2>3. f[e[2]] = ShortageCost * (t - m)
    BY <1>1, <1>3, <2>1, <2>2, StationCostCases
  <2>4. h[e[2]] = ShortageCost * (t - (m + q))
    <3>1. h[e[2]] = StationCost(t, m + q)
      BY <1>1, <1>2, <1>3, <2>1
    <3> QED
      BY <2>2, <3>1, StationCostCases
  <2>5. t - (m + q) = (t - m) - q /\ t - m \in Int /\ q \in Int
    OBVIOUS
  <2>6. ShortageCost * ((t - m) - q) = ShortageCost * (t - m) - ShortageCost * q
    BY <2>5, NetworkAssumption, Prices
  <2> QED
    BY <1>6, <2>3, <2>4, <2>5, <2>6
<1>9. SumFunctionOnSet(g, Station) = SumFunctionOnSet(f, Station) + (-O)
  <2>1. PICK d \in Int : d = -O
    OBVIOUS
  <2>2. PICK r \in Station : r = e[1]
    BY <1>1
  <2>3. g[r] = f[r] + d /\ \A s \in Station \ {r} : g[s] = f[s]
    BY <1>1, <1>5, <1>7, <2>1, <2>2
  <2>4. IsFiniteSet(Station) /\ \A s \in Station : f[s] \in Int
    BY <1>5, NetworkFinite
  <2>5. SumFunctionOnSet(g, Station) = SumFunctionOnSet(f, Station) + d
    BY <2>3, <2>4, SumChanged
  <2> QED
    BY <2>1, <2>5
<1>10. SumFunctionOnSet(h, Station) = SumFunctionOnSet(g, Station) + (-S)
  <2>1. PICK d \in Int : d = -S
    OBVIOUS
  <2>2. PICK r \in Station : r = e[2]
    BY <1>1
  <2>3. h[r] = g[r] + d /\ \A s \in Station \ {r} : h[s] = g[s]
    BY <1>1, <1>5, <1>8, <2>1, <2>2
  <2>4. IsFiniteSet(Station) /\ \A s \in Station : g[s] \in Int
    BY <1>5, NetworkFinite
  <2>5. SumFunctionOnSet(h, Station) = SumFunctionOnSet(g, Station) + d
    BY <2>3, <2>4, SumChanged
  <2> QED
    BY <2>1, <2>5
<1>11. /\ ImbalanceCost(p, b) = SumFunctionOnSet(f, Station)
       /\ ImbalanceCost(p, c) = SumFunctionOnSet(h, Station)
  BY <1>3, CostIsSum
<1>12. ImbalanceCost(p, b) \in Int
  BY ImbalanceNumber
<1>13. PICK n \in Int : n = ImbalanceCost(p, b)
  BY <1>12
<1>14. ImbalanceCost(p, c) = n - O - S
  BY <1>9, <1>10, <1>11, <1>13
<1> QED
  BY <1>6, <1>13, <1>14 DEF c

(* The way of q more bikes along e.                                        *)
LEMMA WayPaid ==
  ASSUME NEW x, NEW y, NEW e \in Pair, NEW q \in Nat, More(x, y, e, q)
  PROVE  /\ SumFunctionOnSet([f \in Pair |-> Distance[f] * x[f]], Pair) \in Int
         /\ SumFunctionOnSet([f \in Pair |-> Distance[f] * y[f]], Pair)
              = SumFunctionOnSet([f \in Pair |-> Distance[f] * x[f]], Pair) + Distance[e] * q
<1>1. PICK w, v : /\ w = [f \in Pair |-> Distance[f] * x[f]]
                  /\ v = [f \in Pair |-> Distance[f] * y[f]]
  OBVIOUS
<1>2. \A f \in Pair : Distance[f] \in Nat /\ x[f] \in Nat
  BY NetworkAssumption DEF More
<1>3. \A f \in Pair : w[f] \in Int
  BY <1>1, <1>2, Prices
<1>4. PICK d \in Int : d = Distance[e] * q
  BY <1>2, Prices
<1>5. v[e] = w[e] + d
  <2>1. y[e] = x[e] + q
    BY DEF More
  <2>2. Distance[e] * (x[e] + q) = Distance[e] * x[e] + Distance[e] * q
    BY <1>2, Prices
  <2> QED
    BY <1>1, <1>4, <2>1, <2>2
<1>6. \A f \in Pair \ {e} : v[f] = w[f]
  BY <1>1 DEF More
<1>7. IsFiniteSet(Pair)
  BY NetworkFinite
<1>8. SumFunctionOnSet(v, Pair) = SumFunctionOnSet(w, Pair) + d
  BY <1>3, <1>5, <1>6, <1>7, SumChanged
<1>9. SumFunctionOnSet(w, Pair) \in Int
  BY <1>3, <1>7, SumInt
<1> QED
  BY <1>1, <1>4, <1>8, <1>9

(* A move saves its gain for every bike it carries.                        *)
LEMMA MoveSaves ==
  ASSUME NEW p \in ProblemsWithin(Capacity), NEW b, NEW x, NEW l, GreedySound(p, b, x, l),
         NEW e \in Pair, NEW q \in Nat, NEW y, More(x, y, e, q), Candidate(p, b, e),
         q <= b[e[1]] - p.target[e[1]], q <= p.target[e[2]] - b[e[2]]
  PROVE  PlanCost(p, x) \in Int /\ PlanCost(p, y) = PlanCost(p, x) - Gain(e) * q
<1>1. x \in [Pair -> Nat] /\ b = FinalInventory(p, x) /\ b \in [Station -> Int]
  <2>1. x \in [Pair -> Nat] /\ b = FinalInventory(p, x)
    BY DEF GreedySound
  <2>2. \A s \in Station : FinalInventory(p, x)[s] \in Int
    BY <2>1, FinalNumbers
  <2> QED
    BY <2>1, <2>2 DEF FinalInventory
<1>2. Carry(b, e, q) = FinalInventory(p, y)
  BY <1>1, CarryFollows
<1>3. PICK i \in Int : i = ImbalanceCost(p, b)
  BY <1>1, ImbalanceNumber
<1>4. ImbalanceCost(p, FinalInventory(p, y)) = i - OverflowCost * q - ShortageCost * q
  BY <1>1, <1>2, <1>3, ImbalanceSaved
<1>5. PICK w \in Int : w = SumFunctionOnSet([f \in Pair |-> Distance[f] * x[f]], Pair)
  BY WayPaid
<1>17. PICK v : v = SumFunctionOnSet([f \in Pair |-> Distance[f] * y[f]], Pair)
  OBVIOUS
<1>6. v = w + Distance[e] * q
  BY <1>5, <1>17, WayPaid
<1>7. PlanCost(p, x) = i + DistanceCost * w
  BY <1>1, <1>3, <1>5 DEF PlanCost
<1>8. PlanCost(p, y) = (i - OverflowCost * q - ShortageCost * q) + DistanceCost * v
  BY <1>4, <1>17 DEF PlanCost
<1>9. PICK c \in Nat, d \in Nat, S \in Nat, O \in Nat :
        c = DistanceCost /\ d = Distance[e] /\ S = ShortageCost /\ O = OverflowCost
  BY NetworkAssumption
<1>10. Gain(e) = S + O - c * d
  BY <1>9 DEF Gain
<1>11. c * (w + d * q) = c * w + (c * d) * q
  <2>1. d * q \in Int
    BY Prices
  <2>2. c * (w + d * q) = c * w + c * (d * q)
    BY <2>1, Prices
  <2>3. c * (d * q) = (c * d) * q
    OBVIOUS
  <2> QED
    BY <2>2, <2>3
<1>12. (S + O - c * d) * q = S * q + O * q - (c * d) * q
  <2>1. PICK a \in Int : a = c * d
    OBVIOUS
  <2>2. (S + O - a) * q = S * q + O * q - a * q
    OBVIOUS
  <2> QED
    BY <2>1, <2>2
<1>13. PICK u \in Int, k \in Int, m \in Int, n \in Int :
         u = c * w /\ k = (c * d) * q /\ m = O * q /\ n = S * q
  OBVIOUS
<1>14. PlanCost(p, y) = (i - m - n) + (u + k)
  BY <1>6, <1>8, <1>9, <1>11, <1>13
<1>15. PlanCost(p, x) = i + u
  BY <1>7, <1>9, <1>13
<1>16. Gain(e) * q = n + m - k
  BY <1>10, <1>12, <1>13
<1> QED
  BY <1>14, <1>15, <1>16

(* At one station: a bike placed below the target is worth its shortage,   *)
(* and no other number of bikes is worth more.                             *)
LEMMA WorthOfBikes ==
  ASSUME NEW k \in Int, NEW t \in Int, NEW m \in Int, NEW n \in Int,
         k <= m, m <= t \/ m = k, k <= n
  PROVE  /\ StationCost(t, m) + ShortageCost * (m - k)
              <= StationCost(t, n) + ShortageCost * (n - k)
         /\ t <= m => StationCost(t, m) <= StationCost(t, n)
<1>1. PICK S \in Nat, O \in Nat : S = ShortageCost /\ O = OverflowCost
  BY NetworkAssumption
<1>2. StationCost(t, n) \in Nat
  BY StationCostCases
<1>3. ASSUME NEW a \in Int, NEW b \in Int, a <= b PROVE S * a <= S * b /\ O * a <= O * b
  <2>1. b - a \in Int /\ b - a >= 0
    BY <1>3
  <2>2. S * (b - a) = S * b - S * a /\ S * (b - a) >= 0
    BY <2>1, Prices
  <2>3. O * (b - a) = O * b - O * a /\ O * (b - a) >= 0
    BY <2>1, Prices
  <2>4. PICK i \in Int, j \in Int, u \in Int, v \in Int :
          i = S * a /\ j = S * b /\ u = O * a /\ v = O * b
    OBVIOUS
  <2> QED
    BY <2>2, <2>3, <2>4
<1>4. CASE m <= t
  <2>1. StationCost(t, m) = S * (t - m)
    BY <1>1, <1>4, StationCostCases
  <2>2. S * (t - m) + S * (m - k) = S * (t - k)
    OBVIOUS
  <2>3. S * (t - k) <= StationCost(t, n) + S * (n - k)
    <3>1. CASE n <= t
      <4>1. StationCost(t, n) = S * (t - n)
        BY <1>1, <3>1, StationCostCases
      <4>2. S * (t - n) + S * (n - k) = S * (t - k)
        OBVIOUS
      <4>3. PICK z \in Int : z = S * (t - k)
        OBVIOUS
      <4> QED
        BY <4>1, <4>2, <4>3
    <3>2. CASE n > t
      <4>1. S * (t - k) <= S * (n - k)
        BY <1>3, <3>2
      <4>2. PICK c \in Nat, i \in Int, j \in Int :
              c = StationCost(t, n) /\ i = S * (t - k) /\ j = S * (n - k)
        BY <1>2
      <4> QED
        BY <4>1, <4>2
    <3> QED
      BY <3>1, <3>2
  <2>4. t <= m => StationCost(t, m) <= StationCost(t, n)
    <3>1. t <= m => t - m = 0
      BY <1>4
    <3>2. S * 0 = 0
      OBVIOUS
    <3> QED
      BY <1>2, <2>1, <3>1, <3>2
  <2> QED
    BY <1>1, <2>1, <2>2, <2>3, <2>4
<1>5. CASE m > t
  <2>1. m = k /\ n >= t /\ m - t <= n - t
    BY <1>5
  <2>2. StationCost(t, m) = O * (m - t) /\ StationCost(t, n) = O * (n - t)
    BY <1>1, <1>5, <2>1, StationCostCases
  <2>3. StationCost(t, m) <= StationCost(t, n)
    BY <1>3, <2>1, <2>2
  <2>4. S * (m - k) <= S * (n - k)
    BY <1>3, <2>1
  <2>5. PICK c \in Int, d \in Int, i \in Int, j \in Int :
          /\ c = StationCost(t, m) /\ d = StationCost(t, n)
          /\ i = S * (m - k) /\ j = S * (n - k)
    BY <1>2, StationCostCases
  <2> QED
    BY <1>1, <2>3, <2>4, <2>5
<1> QED
  BY <1>4, <1>5

(* Over the network: what the allocation placed is worth at least as much  *)
(* as any placement of no more bikes; and where no station is below its    *)
(* target, as any placement at all.                                        *)
LEMMA AllocationBest ==
  ASSUME NEW p \in ProblemsWithin(Capacity), NEW b, NEW l, AllocationSound(p, b, l),
         NEW n \in [Station -> 0..Capacity], \A s \in Station : p.bikes[s] <= n[s]
  PROVE  /\ SumFunctionOnSet([s \in Station |-> b[s] - p.bikes[s]], Station) \in Int
         /\ SumFunctionOnSet([s \in Station |-> n[s] - p.bikes[s]], Station)
              <= SumFunctionOnSet([s \in Station |-> b[s] - p.bikes[s]], Station)
            => ImbalanceCost(p, b) <= ImbalanceCost(p, n)
         /\ (\A s \in Station : p.target[s] <= b[s])
            => ImbalanceCost(p, b) <= ImbalanceCost(p, n)
<1> DEFINE B == [s \in Station |-> b[s] - p.bikes[s]]
           M == [s \in Station |-> n[s] - p.bikes[s]]
           cb == [s \in Station |-> StationCost(p.target[s], b[s])]
           cn == [s \in Station |-> StationCost(p.target[s], n[s])]
           wb == [s \in Station |-> ShortageCost * B[s]]
           wn == [s \in Station |-> ShortageCost * M[s]]
           tb == [s \in Station |-> cb[s] + wb[s]]
           tn == [s \in Station |-> cn[s] + wn[s]]
<1>1. ASSUME NEW s \in Station
      PROVE  /\ B[s] \in Int /\ M[s] \in Int /\ cb[s] \in Int /\ cn[s] \in Int
             /\ wb[s] \in Int /\ wn[s] \in Int /\ tb[s] \in Int /\ tn[s] \in Int
             /\ wb[s] = ShortageCost * B[s] /\ wn[s] = ShortageCost * M[s]
             /\ tb[s] = cb[s] + wb[s] /\ tn[s] = cn[s] + wn[s]
             /\ tb[s] <= tn[s]
             /\ p.target[s] <= b[s] => cb[s] <= cn[s]
  <2>1. PICK k \in Int, t \in Int, m \in Int, r \in Int :
          k = p.bikes[s] /\ t = p.target[s] /\ m = b[s] /\ r = n[s]
    BY GivenNumbers, SolversAssumption DEF AllocationSound
  <2>2. k <= m /\ (m <= t \/ m = k) /\ k <= r
    BY <2>1 DEF AllocationSound
  <2>3. /\ StationCost(t, m) + ShortageCost * (m - k)
             <= StationCost(t, r) + ShortageCost * (r - k)
        /\ t <= m => StationCost(t, m) <= StationCost(t, r)
    BY <2>2, WorthOfBikes
  <2>4. /\ B[s] = m - k /\ M[s] = r - k
        /\ cb[s] = StationCost(t, m) /\ cn[s] = StationCost(t, r)
        /\ wb[s] = ShortageCost * B[s] /\ wn[s] = ShortageCost * M[s]
        /\ tb[s] = cb[s] + wb[s] /\ tn[s] = cn[s] + wn[s]
    BY <2>1
  <2>5. B[s] \in Int /\ M[s] \in Int
    BY <2>4
  <2>6. cb[s] \in Int /\ cn[s] \in Int
    BY <2>4, StationCostCases
  <2> HIDE DEF B, M, cb, cn, wb, wn, tb, tn
  <2>7. wb[s] \in Int /\ wn[s] \in Int
    BY <2>4, <2>5, NetworkAssumption, Prices
  <2>8. tb[s] \in Int /\ tn[s] \in Int
    BY <2>4, <2>6, <2>7
  <2>9. tb[s] <= tn[s]
    BY <2>3, <2>4
  <2>10. p.target[s] <= b[s] => cb[s] <= cn[s]
    BY <2>1, <2>3, <2>4
  <2> QED
    BY <2>4, <2>5, <2>6, <2>7, <2>8, <2>9, <2>10
<1>2. /\ ImbalanceCost(p, b) = SumFunctionOnSet(cb, Station)
      /\ ImbalanceCost(p, n) = SumFunctionOnSet(cn, Station)
  BY CostIsSum
<1> SUFFICES /\ SumFunctionOnSet(B, Station) \in Int
             /\ SumFunctionOnSet(M, Station) <= SumFunctionOnSet(B, Station)
                => ImbalanceCost(p, b) <= ImbalanceCost(p, n)
             /\ (\A s \in Station : p.target[s] <= b[s])
                => ImbalanceCost(p, b) <= ImbalanceCost(p, n)
  OBVIOUS
<1> HIDE DEF B, M, cb, cn, wb, wn, tb, tn
<1>3. IsFiniteSet(Station)
  BY NetworkFinite
<1>4. PICK Cb \in Int, Cn \in Int, Bs \in Int, Ms \in Int :
        /\ Cb = SumFunctionOnSet(cb, Station) /\ Cn = SumFunctionOnSet(cn, Station)
        /\ Bs = SumFunctionOnSet(B, Station) /\ Ms = SumFunctionOnSet(M, Station)
  <2>1. SumFunctionOnSet(cb, Station) \in Int
    BY <1>1, <1>3, SumInt
  <2>2. SumFunctionOnSet(cn, Station) \in Int
    BY <1>1, <1>3, SumInt
  <2>3. SumFunctionOnSet(B, Station) \in Int
    BY <1>1, <1>3, SumInt
  <2>4. SumFunctionOnSet(M, Station) \in Int
    BY <1>1, <1>3, SumInt
  <2> QED
    BY <2>1, <2>2, <2>3, <2>4
<1>5. Ms <= Bs => Cb <= Cn
  <2>1. PICK S \in Nat : S = ShortageCost
    BY NetworkAssumption
  <2>2. SumFunctionOnSet(wb, Station) = S * Bs
    <3>1. \A s \in Station : B[s] \in Int /\ wb[s] = S * B[s]
      BY <1>1, <2>1
    <3>2. S \in Int
      OBVIOUS
    <3>3. SumFunctionOnSet(wb, Station) = S * SumFunctionOnSet(B, Station)
      BY <1>3, <3>1, <3>2, SumScaled
    <3> QED
      BY <1>4, <3>3
  <2>3. SumFunctionOnSet(wn, Station) = S * Ms
    <3>1. \A s \in Station : M[s] \in Int /\ wn[s] = S * M[s]
      BY <1>1, <2>1
    <3>2. S \in Int
      OBVIOUS
    <3>3. SumFunctionOnSet(wn, Station) = S * SumFunctionOnSet(M, Station)
      BY <1>3, <3>1, <3>2, SumScaled
    <3> QED
      BY <1>4, <3>3
  <2>4. SumFunctionOnSet(tb, Station)
          = SumFunctionOnSet(cb, Station) + SumFunctionOnSet(wb, Station)
    BY <1>1, <1>3, SumOfSum
  <2>5. SumFunctionOnSet(tn, Station)
          = SumFunctionOnSet(cn, Station) + SumFunctionOnSet(wn, Station)
    BY <1>1, <1>3, SumOfSum
  <2>6. SumFunctionOnSet(tb, Station) <= SumFunctionOnSet(tn, Station)
    BY <1>1, <1>3, SumLeq
  <2>7. Cb + S * Bs <= Cn + S * Ms
    BY <1>4, <2>2, <2>3, <2>4, <2>5, <2>6
  <2>8. Ms <= Bs => S * Bs - S * Ms >= 0
    <3>1. S * (Bs - Ms) = S * Bs - S * Ms
      BY Prices
    <3>2. Bs - Ms \in Int /\ (Bs - Ms >= 0 => S * (Bs - Ms) >= 0)
      BY Prices
    <3> QED
      BY <3>1, <3>2
  <2>9. PICK i \in Int, j \in Int : i = S * Bs /\ j = S * Ms
    OBVIOUS
  <2> QED
    BY <2>7, <2>8, <2>9
<1>6. (\A s \in Station : p.target[s] <= b[s]) => Cb <= Cn
  <2> SUFFICES ASSUME \A s \in Station : p.target[s] <= b[s] PROVE Cb <= Cn
    OBVIOUS
  <2>1. \A s \in Station : cb[s] \in Int /\ cn[s] \in Int /\ cb[s] <= cn[s]
    BY <1>1
  <2> QED
    BY <1>3, <1>4, <2>1, SumLeq
<1> QED
  BY <1>2, <1>4, <1>5, <1>6

-----------------------------------------------------------------------------
(* The solvers and the allocation                                          *)

(* What the plans of the solvers and of the allocation satisfy, on a       *)
(* request and in a simulation.                                            *)
ProblemInv ==
  /\ problem \in ProblemsWithin(Capacity)
  /\ phase # "solve" => moved = NoMove
  /\ Simulating => task \in {"greedy", "milp"}
  /\ Simulating =>
       \A t \in 0..(Hours - 1), s \in Station : series.forecast[t][s] \in Int

PlanInv ==
  /\ ProblemInv
  /\ task = "greedy" => GreedySound(problem, bikes, moved, left)
  /\ task = "milp" => PlanSound(problem, bikes, moved)
  /\ task = "allocate" => AllocationSound(problem, bikes, left)
  /\ task = "allocate" /\ status = "solved" => left = 0 \/ ~ \E s \in Station : Needy(s)

(* A solver that is given a problem begins with the empty plan.            *)
LEMMA GivenIsSound ==
  ASSUME NEW p \in ProblemsWithin(Capacity), NEW solver \in {"greedy", "milp"},
         Given(solver, p), ProblemInv'
  PROVE  PlanInv'
<1>1. /\ task' = solver /\ problem' = p /\ bikes' = p.bikes /\ moved' = NoMove
      /\ left' = p.vehicle
  BY DEF Given
<1>2. GreedySound(p, p.bikes, NoMove, p.vehicle) /\ PlanSound(p, p.bikes, NoMove)
  BY NothingIsSound
<1>3. /\ GreedySound(problem', bikes', moved', left')
      /\ PlanSound(problem', bikes', moved')
  BY <1>1, <1>2
<1> QED
  BY <1>1, <1>3 DEF PlanInv

(* The problem of no one is a problem.                                     *)
LEMMA EmptyWithin == Empty \in ProblemsWithin(Capacity)
BY SolversAssumption, ControlAssumption, NetworkAssumption DEF Empty, ProblemsWithin

(* The API builds problems whose targets fit the docks.                    *)
LEMMA InitWithin == ASSUME Init PROVE problem \in ProblemsWithin(Capacity)
<1> USE SolversAssumption, NetworkAssumption
<1>1. PICK b \in [Station -> 0..Capacity], base \in [Station -> 0..Capacity],
           d \in Surge, v \in 1..MaxVehicle :
        problem = [bikes |-> b, target |-> [s \in Station |-> RaisedTarget(base[s], d)],
                   capacity |-> [s \in Station |-> Capacity], vehicle |-> v]
  BY DEF Init, Problems
<1>2. \A s \in Station : RaisedTarget(base[s], d) \in 0..Capacity
  BY DEF RaisedTarget, Least, PositivePart
<1> QED
  BY <1>1, <1>2 DEF ProblemsWithin

(* A simulation begins with no plan, a request with the empty one.         *)
LEMMA InitPlanInv == ControlInit => PlanInv
<1> SUFFICES ASSUME ControlInit PROVE PlanInv
  OBVIOUS
<1>1. ASSUME NEW p, p \in ProblemsWithin(Capacity)
      PROVE  /\ GreedySound(p, p.bikes, NoMove, p.vehicle)
             /\ PlanSound(p, p.bikes, NoMove)
  BY <1>1, NothingIsSound
<1>2. CASE Simulating
  <2>1. /\ task = "greedy" /\ problem = Empty /\ moved = NoMove
        /\ bikes = Empty.bikes /\ left = Vehicle /\ series.forecast \in Series(Expected)
    BY <1>2 DEF ControlInit, Simulating
  <2>2. left = Empty.vehicle
    BY <2>1 DEF Empty
  <2>3. GreedySound(problem, bikes, moved, left) /\ problem \in ProblemsWithin(Capacity)
    BY <1>1, <2>1, <2>2, EmptyWithin
  <2>4. \A t \in 0..(Hours - 1), s \in Station : series.forecast[t][s] \in Int
    BY <2>1, SeriesNumbers, ControlAssumption
  <2> QED
    BY <2>1, <2>3, <2>4 DEF PlanInv, ProblemInv
<1>3. CASE ~Simulating /\ Init
  <2>1. problem \in ProblemsWithin(Capacity)
    BY <1>3, InitWithin
  <2>2. bikes = problem.bikes /\ moved = NoMove /\ status = "solving"
    BY <1>3 DEF Init
  <2>3. PICK p \in ProblemsWithin(Capacity) : p = problem
    BY <2>1
  <2>4. GreedySound(p, p.bikes, NoMove, p.vehicle) /\ PlanSound(p, p.bikes, NoMove)
    BY <1>1
  <2>5. task # "allocate" => left = p.vehicle
    BY <1>3, <2>3 DEF Init
  <2>6. task = "allocate" => AllocationSound(problem, bikes, left)
    <3>1. task = "allocate" => left \in Nat
      BY <1>3, SolversAssumption DEF Init
    <3>2. bikes \in [Station -> Int]
      BY <2>2, <2>3 DEF ProblemsWithin
    <3>3. \A s \in Station : problem.bikes[s] <= bikes[s] /\ bikes[s] = problem.bikes[s]
      BY <2>2, <3>2
    <3> QED
      BY <3>1, <3>2, <3>3 DEF AllocationSound
  <2>7. PlanSound(problem, bikes, moved)
    BY <2>2, <2>3, <2>4
  <2>8. task = "greedy" => GreedySound(problem, bikes, moved, left)
    BY <2>2, <2>3, <2>4, <2>5
  <2> QED
    BY <1>3, <2>1, <2>2, <2>6, <2>7, <2>8 DEF PlanInv, ProblemInv
<1>4. CASE ~Simulating /\ ~Init
  <2>1. /\ task = "greedy" /\ problem = Empty /\ moved = NoMove
        /\ bikes = Empty.bikes /\ left = Vehicle
    BY <1>4 DEF ControlInit
  <2>2. left = Empty.vehicle
    BY <2>1 DEF Empty
  <2>3. GreedySound(problem, bikes, moved, left) /\ problem \in ProblemsWithin(Capacity)
    BY <1>1, <2>1, <2>2, EmptyWithin
  <2> QED
    BY <1>4, <2>1, <2>3 DEF PlanInv, ProblemInv
<1> QED
  BY <1>2, <1>3, <1>4

(* One move of the scan, as the model takes it.                            *)
LEMMA GreedyMoveNumbers ==
  ASSUME problem \in ProblemsWithin(Capacity),
         GreedySound(problem, bikes, moved, left), NEW e \in Pair, GreedyMove(e)
  PROVE  \E q \in Nat : /\ q >= 1 /\ q <= left /\ q <= bikes[e[1]] - problem.target[e[1]]
                        /\ q <= problem.target[e[2]] - bikes[e[2]]
                        /\ Candidate(problem, bikes, e) /\ More(moved, moved', e, q)
                        /\ bikes' = Carry(bikes, e, q) /\ left' = left - q
<1> DEFINE q == Quantity(problem, bikes, left, e)
<1>1. e[1] \in Station /\ e[2] \in Station /\ e[1] # e[2]
  BY NetworkFinite
<1>2. /\ Candidate(problem, bikes, e) /\ left > 0
      /\ bikes' = Carry(bikes, e, q) /\ left' = left - q
      /\ moved' = [moved EXCEPT ![e] = @ + q]
  BY DEF GreedyMove, Best
<1>3. left \in Nat /\ moved \in [Pair -> Nat]
  BY DEF GreedySound
<1>4. PICK o \in Int, d \in Int, O \in Int, D \in Int :
        /\ o = bikes[e[1]] /\ d = bikes[e[2]]
        /\ O = problem.target[e[1]] /\ D = problem.target[e[2]]
  BY <1>1, GivenNumbers, FinalNumbers DEF GreedySound
<1>5. o > O /\ d < D
  BY <1>2, <1>4 DEF Candidate
<1>6. q = Least(left, Least(o - O, D - d))
  BY <1>4 DEF Quantity
<1>7. q \in Nat /\ q >= 1 /\ q <= left /\ q <= o - O /\ q <= D - d
  BY <1>2, <1>3, <1>5, <1>6 DEF Least
<1> HIDE DEF q
<1>8. More(moved, moved', e, q)
  <2>0. PICK x \in [Pair -> Nat] : x = moved
    BY <1>3
  <2>1. PICK y : y = moved' /\ y = [x EXCEPT ![e] = @ + q]
    BY <1>2, <2>0
  <2>2. y \in [Pair -> Nat] /\ y[e] = x[e] + q /\ \A f \in Pair \ {e} : y[f] = x[f]
    BY <1>7, <2>1
  <2> QED
    BY <2>0, <2>1, <2>2 DEF More
<1> QED
  BY <1>2, <1>4, <1>7, <1>8

(* A bike goes to a station below its target.                              *)
LEMMA PlaceIsSound ==
  ASSUME problem \in ProblemsWithin(Capacity), AllocationSound(problem, bikes, left),
         NEW s \in Station, Place(s)
  PROVE  AllocationSound(problem, bikes', left')
<1>1. /\ bikes \in [Station -> Int] /\ left \in Nat
      /\ \A r \in Station : /\ problem.bikes[r] <= bikes[r]
                            /\ bikes[r] <= problem.target[r] \/ bikes[r] = problem.bikes[r]
  BY DEF AllocationSound
<1>2. /\ bikes[s] < problem.target[s] /\ left > 0
      /\ bikes' = [bikes EXCEPT ![s] = @ + 1] /\ left' = left - 1
  BY DEF Place, Worst, Needy
<1>3. bikes' \in [Station -> Int] /\ left' \in Nat
  BY <1>1, <1>2
<1>4. ASSUME NEW r \in Station
      PROVE  /\ problem.bikes[r] <= bikes'[r]
             /\ bikes'[r] <= problem.target[r] \/ bikes'[r] = problem.bikes[r]
  <2>1. PICK k \in Int, t \in Int, m \in Int :
          k = problem.bikes[r] /\ t = problem.target[r] /\ m = bikes[r]
    BY <1>1, GivenNumbers
  <2>2. k <= m /\ (m <= t \/ m = k)
    BY <1>1, <2>1
  <2>3. CASE r = s
    <3>1. bikes'[r] = m + 1 /\ m < t
      BY <1>1, <1>2, <2>1, <2>3
    <3> QED
      BY <2>1, <2>2, <3>1
  <2>4. CASE r # s
    <3>1. bikes'[r] = m
      BY <1>1, <1>2, <2>1, <2>4
    <3> QED
      BY <2>1, <2>2, <3>1
  <2> QED
    BY <2>3, <2>4
<1> QED
  BY <1>3, <1>4 DEF AllocationSound

(* Both exact solvers answer flows that check.                             *)
LEMMA AnswersCheck ==
  ASSUME NEW p, NEW x \in MilpPlans(p) \cup ExactPlans(p)
  PROVE  PlanSound(p, FinalInventory(p, x), x)
<1>1. x \in Flow /\ Feasible(p, x)
  BY DEF MilpPlans, ExactPlans
<1>2. x \in [Pair -> Nat]
  BY <1>1, NetworkAssumption DEF Flow
<1> QED
  BY <1>1, <1>2 DEF PlanSound

(* A solver's step keeps the plan sound.                                   *)
LEMMA SolveKeepsPlans == PlanInv /\ Solve => PlanInv'
<1> SUFFICES ASSUME PlanInv, Solve PROVE PlanInv'
  OBVIOUS
<1>1. phase = "solve" /\ Next /\ UNCHANGED <<phase, todo, series>>
  BY DEF Solve, controlVars
<1>2. UNCHANGED <<task, problem>>
  BY <1>1 DEF Next, GreedyMove, GreedyStop, Milp, MilpFails, SolveQubo, Place, HoldBack, Answer
<1>3. ProblemInv'
  BY <1>1, <1>2 DEF PlanInv, ProblemInv, Simulating
<1>4. problem \in ProblemsWithin(Capacity)
  BY DEF PlanInv, ProblemInv
<1>5. ASSUME NEW e \in Pair, GreedyMove(e) PROVE PlanInv'
  <2>1. task = "greedy" /\ GreedySound(problem, bikes, moved, left)
    BY <1>5 DEF GreedyMove, PlanInv
  <2>2. PICK q \in Nat : /\ q <= left /\ q <= bikes[e[1]] - problem.target[e[1]]
                         /\ q <= problem.target[e[2]] - bikes[e[2]]
                         /\ Candidate(problem, bikes, e) /\ More(moved, moved', e, q)
                         /\ bikes' = Carry(bikes, e, q) /\ left' = left - q
    BY <1>4, <1>5, <2>1, GreedyMoveNumbers
  <2>3. GreedySound(problem, FinalInventory(problem, moved'), moved', left - q)
    BY <1>4, <2>1, <2>2, GreedyStep
  <2>4. bikes' = FinalInventory(problem, moved')
    <3>1. bikes = FinalInventory(problem, moved)
      BY <2>1 DEF GreedySound
    <3> QED
      BY <1>4, <2>2, <3>1, CarryFollows
  <2> QED
    BY <1>2, <1>3, <2>1, <2>2, <2>3, <2>4 DEF PlanInv
<1>6. ASSUME NEW s \in Station, Place(s) PROVE PlanInv'
  <2>1. task = "allocate" /\ status = "solving" /\ status' = status
    BY <1>6 DEF Place
  <2>2. AllocationSound(problem, bikes', left')
    BY <1>4, <1>6, <2>1, PlaceIsSound DEF PlanInv
  <2> QED
    BY <1>2, <1>3, <2>1, <2>2 DEF PlanInv
<1>7. CASE Milp \/ MilpFails
  <2>1. task = "milp"
    BY <1>7 DEF Milp, MilpFails
  <2>2. CASE UNCHANGED <<bikes, moved>>
    BY <1>2, <1>3, <2>1, <2>2 DEF PlanInv
  <2>3. CASE \E x \in MilpPlans(problem) \cup ExactPlans(problem) : Answer(x)
    <3>1. PICK x \in MilpPlans(problem) \cup ExactPlans(problem) : Answer(x)
      BY <2>3
    <3>2. moved' = x /\ bikes' = FinalInventory(problem, x)
      BY <3>1 DEF Answer
    <3>3. PlanSound(problem, FinalInventory(problem, x), x)
      BY AnswersCheck
    <3> QED
      BY <1>2, <1>3, <2>1, <3>2, <3>3 DEF PlanInv
  <2> QED
    BY <1>7, <2>2, <2>3 DEF Milp, MilpFails
<1>8. CASE SolveQubo
  BY <1>2, <1>3, <1>8 DEF SolveQubo, PlanInv
<1>9. CASE GreedyStop
  BY <1>2, <1>3, <1>9 DEF GreedyStop, PlanInv
<1>10. CASE HoldBack
  <2>1. UNCHANGED <<bikes, left>> /\ task = "allocate"
        /\ (left = 0 \/ ~ \E s \in Station : Needy(s))
    BY <1>10 DEF HoldBack
  <2> QED
    BY <1>2, <1>3, <2>1 DEF PlanInv, Needy
<1> QED
  BY <1>1, <1>5, <1>6, <1>7, <1>8, <1>9, <1>10 DEF Next

(* A target fits the docks, whatever was forecast.                         *)
LEMMA TargetFits ==
  ASSUME hour \in Nat, NEW flow, NEW h, NEW a \in Nat,
         \A t \in 0..(Hours - 1), s \in Station : flow[t][s] \in Int
  PROVE  Target(flow, h, a) \in [Station -> 0..Capacity]
<1> DEFINE T == {t \in 0..(Hours - 1) : hour <= t /\ t < hour + h}
           cum(s) == SumFunctionOnSet([t \in 0..(Hours - 1) |-> flow[t][s]], T)
<1>1. IsFiniteSet(T)
  <2>1. IsFiniteSet(0..(Hours - 1))
    BY ControlAssumption, FS_Interval
  <2> QED
    BY <2>1, FS_Subset
<1>2. ASSUME NEW s \in Station PROVE cum(s) \in Int
  <2>1. PICK f : f = [t \in 0..(Hours - 1) |-> flow[t][s]]
    OBVIOUS
  <2>2. \A t \in T : f[t] \in Int
    BY <2>1
  <2> HIDE DEF T
  <2>3. SumFunctionOnSet(f, T) \in Int
    BY <1>1, <2>2, SumInt
  <2> QED
    BY <2>1, <2>3
<1>3. ASSUME NEW c \in Int PROVE Clip(Rint(2 * Capacity - a * c, 4)) \in 0..Capacity
  <2>1. PICK n \in Int : n = 2 * Capacity - a * c
    <3>1. PICK m \in Int : m = a * c
      BY Prices
    <3>2. 2 * Capacity - m \in Int
      BY SolversAssumption
    <3> QED
      BY <3>1, <3>2
  <2>2. n \div 4 \in Int
    OBVIOUS
  <2>3. Rint(n, 4) = n \div 4 \/ Rint(n, 4) = n \div 4 + 1
    BY DEF Rint
  <2>4. PICK i \in Int : i = Rint(n, 4)
    BY <2>2, <2>3
  <2>5. Clip(i) \in 0..Capacity
    BY SolversAssumption DEF Clip
  <2> QED
    BY <2>1, <2>4, <2>5
<1>4. Target(flow, h, a) = [s \in Station |-> Clip(Rint(2 * Capacity - a * cum(s), 4))]
  BY DEF Target
<1> HIDE DEF cum
<1> QED
  BY <1>2, <1>3, <1>4

(* So the problem of an hour is one the solvers can be given.              *)
LEMMA PeriodWithin ==
  ASSUME StockInv, ProblemInv, Simulating, NEW target \in TargetsOf(Policy)
  PROVE  Period(target) \in ProblemsWithin(Capacity)
<1>1. target \in [Station -> 0..Capacity]
  <2>1. hour \in Nat
    BY DEF StockInv
  <2>2. \A t \in 0..(Hours - 1), s \in Station : series.forecast[t][s] \in Int
    BY DEF ProblemInv
  <2>3. \A t \in 0..(Hours - 1), s \in Station : series.realized[t][s] \in Int
    BY DEF StockInv
  <2>4. \A h, a : a \in Nat => /\ Target(series.forecast, h, a) \in [Station -> 0..Capacity]
                               /\ Target(series.realized, h, a) \in [Station -> 0..Capacity]
    BY <2>1, <2>2, <2>3, TargetFits
  <2>5. [Station -> Actions] \subseteq [Station -> 0..Capacity]
    BY ControlAssumption
  <2>6. 2 \in Nat /\ Alphas \subseteq Nat
    BY ControlAssumption
  <2>7. Policy \in {"greedy", "milp", "mpc", "oracle", "agent", "ppo"}
    BY DEF TargetsOf
  <2>8. CASE Policy \in {"greedy", "milp", "mpc"}
    <3>1. target = Target(series.forecast, 1, 2) \/ target = Target(series.forecast, Horizon, 2)
      BY <2>8 DEF TargetsOf
    <3> QED
      BY <2>4, <2>6, <3>1
  <2>9. CASE Policy = "oracle"
    <3>1. target = Target(series.realized, Horizon, 2)
      BY <2>9 DEF TargetsOf
    <3> QED
      BY <2>4, <2>6, <3>1
  <2>10. CASE Policy = "agent"
    <3>1. target \in {Target(series.forecast, h, a) : h \in {1, Horizon}, a \in Alphas \ {0}}
      BY <2>10 DEF TargetsOf
    <3>2. PICK h \in {1, Horizon}, a \in Alphas : target = Target(series.forecast, h, a)
      BY <3>1
    <3> QED
      BY <2>4, <2>6, <3>2
  <2>11. CASE Policy = "ppo"
    <3>1. target \in [Station -> Actions]
      BY <2>11 DEF TargetsOf
    <3> QED
      BY <2>5, <3>1
  <2> QED
    BY <2>7, <2>8, <2>9, <2>10, <2>11
<1>2. ASSUME NEW s \in Station PROVE Stock(stock[s]) \in 0..Capacity
  <2>1. PICK b \in Int, c \in Nat : b = stock[s] /\ c = Capacity
    BY SolversAssumption DEF StockInv
  <2>2. b >= 0 /\ b < 2 * (c + 1)
    BY <2>1 DEF StockInv, StationsLegal
  <2>3. Stock(b) \in Nat /\ 2 * Stock(b) <= b
    BY <2>2, StockBounds
  <2>4. PICK n \in Nat : n = Stock(b)
    BY <2>3
  <2>5. n <= c
    BY <2>2, <2>3, <2>4
  <2> QED
    BY <2>1, <2>4, <2>5
<1> QED
  BY <1>1, <1>2, ControlAssumption, SolversAssumption DEF Period, ProblemsWithin

(* So does every step of a simulation.                                     *)
LEMMA ControlKeepsPlans ==
  StockInv /\ PlanInv /\ [ControlNext]_<<vars, controlVars>> => PlanInv'
<1> SUFFICES ASSUME StockInv, PlanInv, [ControlNext]_<<vars, controlVars>> PROVE PlanInv'
  OBVIOUS
<1>1. ASSUME UNCHANGED <<vars, series>>, phase' # "solve" => moved = NoMove,
             Simulating' => Simulating
      PROVE  PlanInv'
  <2>1. UNCHANGED <<task, problem, bikes, moved, left, status, series>>
    BY <1>1 DEF vars
  <2>2. ProblemInv'
    BY <1>1, <2>1 DEF PlanInv, ProblemInv
  <2> QED
    BY <2>1, <2>2 DEF PlanInv, Needy
<1>2. CASE UNCHANGED <<vars, controlVars>>
  BY <1>1, <1>2 DEF controlVars, PlanInv, ProblemInv, Simulating
<1>3. CASE Solve
  BY <1>3, SolveKeepsPlans
<1>4. ASSUME Simulating, NEW target \in TargetsOf(Policy), Decide(target) PROVE PlanInv'
  <2>1. Period(target) \in ProblemsWithin(Capacity)
    BY <1>4, PeriodWithin DEF PlanInv
  <2>2. PICK solver \in {"greedy", "milp"} : Given(solver, Period(target))
    BY <1>4 DEF Decide
  <2>3. phase' = "solve" /\ UNCHANGED <<series, todo>>
    BY <1>4 DEF Decide
  <2>4. ProblemInv'
    BY <2>1, <2>2, <2>3 DEF Given, PlanInv, ProblemInv, Simulating
  <2> QED
    BY <2>1, <2>2, <2>4, GivenIsSound
<1>5. CASE Simulating /\ Apply
  <2>1. Given("greedy", Empty) /\ phase' = "realize" /\ UNCHANGED <<series, todo>>
    BY <1>5 DEF Apply
  <2>2. ProblemInv'
    BY <2>1, EmptyWithin DEF Given, PlanInv, ProblemInv, Simulating
  <2> QED
    BY <2>1, <2>2, EmptyWithin, GivenIsSound
<1>6. CASE Stay
  BY <1>1, <1>6 DEF Stay, PlanInv, ProblemInv, Simulating
<1>7. CASE Realize
  BY <1>1, <1>7 DEF Realize, PlanInv, ProblemInv, Simulating
<1>8. CASE Simulating /\ EndPolicy
  BY <1>1, <1>8 DEF EndPolicy, PlanInv, ProblemInv
<1> QED
  BY <1>2, <1>3, <1>4, <1>5, <1>6, <1>7, <1>8 DEF ControlNext, Simulating

(* Every prefix of the greedy loop and of the allocation can be carried    *)
(* out: no station is taken past its target or away from it.               *)
THEOREM LoopsNeverOvershoot == ControlSpec => []LoopsMoveToTarget
<1>1. ControlInit => StockInv /\ PlanInv
  BY InitStockInv, InitPlanInv
<1>2. StockInv /\ PlanInv /\ [ControlNext]_<<vars, controlVars>> => (StockInv /\ PlanInv)'
  BY ControlNextKeeps, ControlKeepsPlans
<1>3. PlanInv => LoopsMoveToTarget
  <2> SUFFICES ASSUME PlanInv, task \in {"greedy", "allocate"}
               PROVE  left >= 0 /\ \A s \in Station : TowardTarget(s)
    BY DEF LoopsMoveToTarget
  <2>1. problem \in ProblemsWithin(Capacity)
    BY DEF PlanInv, ProblemInv
  <2>2. CASE task = "greedy"
    BY <2>2 DEF PlanInv, GreedySound, TowardTarget
  <2>3. CASE task = "allocate"
    <3>1. AllocationSound(problem, bikes, left)
      BY <2>3 DEF PlanInv
    <3>2. ASSUME NEW s \in Station PROVE TowardTarget(s)
      <4>1. PICK k \in Int, t \in Int, m \in Int :
              k = problem.bikes[s] /\ t = problem.target[s] /\ m = bikes[s]
        BY <2>1, <3>1, GivenNumbers DEF AllocationSound
      <4>2. k <= m /\ (m <= t \/ m = k)
        BY <3>1, <4>1 DEF AllocationSound
      <4> QED
        BY <4>1, <4>2 DEF TowardTarget
    <3> QED
      BY <3>1, <3>2 DEF AllocationSound
  <2> QED
    BY <2>2, <2>3
<1> QED
  BY <1>1, <1>2, <1>3, PTL DEF ControlSpec

(* A plan for operation passes check_feasibility while it is built and     *)
(* when it is answered, on a request and in every hour of a simulation,    *)
(* and the solver's inventory is the one the plan leads to.                *)
THEOREM PlansCheck == ControlSpec => []PlansCarriedOut
<1>1. ControlInit => StockInv /\ PlanInv
  BY InitStockInv, InitPlanInv
<1>2. StockInv /\ PlanInv /\ [ControlNext]_<<vars, controlVars>> => (StockInv /\ PlanInv)'
  BY ControlNextKeeps, ControlKeepsPlans
<1>3. PlanInv => PlansCarriedOut
  <2> SUFFICES ASSUME PlanInv, task \in {"greedy", "milp"}
               PROVE  Feasible(problem, moved) /\ bikes = FinalInventory(problem, moved)
    BY DEF PlansCarriedOut
  <2>1. problem \in ProblemsWithin(Capacity)
    BY DEF PlanInv, ProblemInv
  <2>2. task = "greedy" => GreedySound(problem, bikes, moved, left)
    BY DEF PlanInv
  <2>3. PlanSound(problem, bikes, moved)
    BY <2>1, <2>2, SoundIsFeasible DEF PlanInv
  <2> QED
    BY <2>3 DEF PlanSound
<1> QED
  BY <1>1, <1>2, <1>3, PTL DEF ControlSpec

(* Every iteration of the greedy scan lowers the cost of its plan, by what *)
(* the move saves at its two ends less the way.                            *)
THEOREM GreedyMovesPay == ControlSpec => EachMovePays
<1>1. ControlInit => StockInv /\ PlanInv
  BY InitStockInv, InitPlanInv
<1>2. StockInv /\ PlanInv /\ [ControlNext]_<<vars, controlVars>> => (StockInv /\ PlanInv)'
  BY ControlNextKeeps, ControlKeepsPlans
<1>3. PlanInv /\ [ControlNext]_<<vars, controlVars>> =>
        [task = "greedy" /\ status = "solving" /\ moved' # moved =>
           PlanCost(problem, moved') < PlanCost(problem, moved)]_vars
  <2> SUFFICES ASSUME PlanInv, [ControlNext]_<<vars, controlVars>>,
                      task = "greedy", status = "solving", moved' # moved
               PROVE  PlanCost(problem, moved') < PlanCost(problem, moved)
    OBVIOUS
  <2>1. problem \in ProblemsWithin(Capacity) /\ GreedySound(problem, bikes, moved, left)
    BY DEF PlanInv, ProblemInv
  <2>2. phase # "solve" => moved = NoMove
    BY DEF PlanInv, ProblemInv
  <2>3. \E e \in Pair : GreedyMove(e)
    <3>1. CASE Solve
      BY <3>1 DEF Solve, Next, GreedyStop, Milp, MilpFails, SolveQubo, Place, HoldBack
    <3>2. CASE \E target \in TargetsOf(Policy) : Decide(target)
      BY <2>2, <3>2 DEF Decide, Given
    <3>3. CASE Stay \/ Realize \/ EndPolicy \/ UNCHANGED <<vars, controlVars>>
      BY <3>3 DEF Stay, Realize, EndPolicy, vars
    <3>4. CASE Apply
      BY <3>4 DEF Apply
    <3> QED
      BY <3>1, <3>2, <3>3, <3>4 DEF ControlNext
  <2>4. PICK e \in Pair : GreedyMove(e)
    BY <2>3
  <2>5. PICK q \in Nat : /\ q >= 1 /\ q <= bikes[e[1]] - problem.target[e[1]]
                         /\ q <= problem.target[e[2]] - bikes[e[2]]
                         /\ Candidate(problem, bikes, e) /\ More(moved, moved', e, q)
    BY <2>1, <2>4, GreedyMoveNumbers
  <2>6. /\ PlanCost(problem, moved) \in Int
        /\ PlanCost(problem, moved') = PlanCost(problem, moved) - Gain(e) * q
    BY <2>1, <2>5, MoveSaves
  <2>7. Gain(e) * q >= 1 /\ Gain(e) * q \in Int
    <3>1. PICK g : g = Gain(e)
      OBVIOUS
    <3>2. g \in Int /\ g > 0
      <4>1. Distance[e] \in Nat
        BY NetworkAssumption
      <4>2. PICK d \in Int : d = DistanceCost * Distance[e]
        BY <4>1, NetworkAssumption, Prices
      <4> QED
        BY <2>5, <3>1, <4>2, NetworkAssumption DEF Gain, Candidate
    <3>3. g * q >= q
      <4>1. PICK h \in Nat : h = g - 1
        BY <3>2
      <4>2. g = h + 1
        BY <3>2, <4>1
      <4>3. (h + 1) * q = h * q + q
        OBVIOUS
      <4>4. PICK m \in Nat : m = h * q
        OBVIOUS
      <4> QED
        BY <4>2, <4>3, <4>4
    <3>4. PICK m \in Int : m = g * q
      BY <3>2
    <3> QED
      BY <2>5, <3>1, <3>3, <3>4
  <2>8. PICK c \in Int, m \in Int : c = PlanCost(problem, moved) /\ m = Gain(e) * q
    BY <2>6, <2>7
  <2> QED
    BY <2>6, <2>7, <2>8
<1> QED
  BY <1>1, <1>2, <1>3, PTL DEF ControlSpec, EachMovePays

(* Placing one bike at a time where most are missing is optimal, after     *)
(* every bike and at the end: no placement of as many bikes, or of those   *)
(* held back besides, costs less.                                          *)
THEOREM AllocationIsBest == ControlSpec => []AllocationOptimal
<1>1. ControlInit => StockInv /\ PlanInv
  BY InitStockInv, InitPlanInv
<1>2. StockInv /\ PlanInv /\ [ControlNext]_<<vars, controlVars>> => (StockInv /\ PlanInv)'
  BY ControlNextKeeps, ControlKeepsPlans
<1>3. PlanInv => AllocationOptimal
  <2> DEFINE placed == SumFunctionOnSet([s \in Station |-> bikes[s] - problem.bikes[s]], Station)
             room == IF status = "solved" THEN placed + left ELSE placed
  <2> SUFFICES ASSUME PlanInv, task = "allocate", NEW b \in [Station -> 0..Capacity],
                      \A s \in Station : problem.bikes[s] <= b[s],
                      SumFunctionOnSet([s \in Station |-> b[s] - problem.bikes[s]], Station)
                        <= room
               PROVE  ImbalanceCost(problem, bikes) <= ImbalanceCost(problem, b)
    BY DEF AllocationOptimal
  <2>1. problem \in ProblemsWithin(Capacity) /\ AllocationSound(problem, bikes, left)
    BY DEF PlanInv, ProblemInv
  <2>2. /\ placed \in Int
        /\ SumFunctionOnSet([s \in Station |-> b[s] - problem.bikes[s]], Station) <= placed
             => ImbalanceCost(problem, bikes) <= ImbalanceCost(problem, b)
        /\ (\A s \in Station : problem.target[s] <= bikes[s])
             => ImbalanceCost(problem, bikes) <= ImbalanceCost(problem, b)
    BY <2>1, AllocationBest
  <2> HIDE DEF placed
  <2>3. CASE status # "solved" \/ left = 0
    <3>1. room = placed
      BY <2>2, <2>3
    <3> QED
      BY <2>2, <3>1
  <2>4. CASE status = "solved" /\ left # 0
    <3>1. ASSUME NEW s \in Station PROVE problem.target[s] <= bikes[s]
      <4>1. ~Needy(s)
        BY <2>4 DEF PlanInv
      <4>2. PICK t \in 0..Capacity, m \in Int :
              t = problem.target[s] /\ m = bikes[s] /\ problem.capacity[s] = Capacity
        BY <2>1, GivenNumbers DEF AllocationSound
      <4> QED
        BY <4>1, <4>2, SolversAssumption DEF Needy
    <3> QED
      BY <2>2, <3>1
  <2> QED
    BY <2>3, <2>4
<1> QED
  BY <1>1, <1>2, <1>3, PTL DEF ControlSpec

-----------------------------------------------------------------------------
(* The books                                                               *)

(* Whichever end of the pairs is looked at, what the stations see adds up  *)
(* to what is moved.                                                       *)
LEMMA EndsAddUp ==
  ASSUME NEW x \in [Pair -> Nat], NEW i \in {1, 2}
  PROVE  SumFunctionOnSet([s \in Station |-> SumFunctionOnSet(x, {e \in Pair : e[i] = s})],
                          Station)
           = TotalMoved(x)
<1> DEFINE At(S, s) == SumFunctionOnSet(x, {e \in S : e[i] = s})
           Seen(S) == SumFunctionOnSet([s \in Station |-> At(S, s)], Station)
           G == {S \in SUBSET Pair : Seen(S) = SumFunctionOnSet(x, S)}
<1>1. ASSUME NEW S \in SUBSET Pair, \A a \in S : S \ {a} \in G PROVE S \in G
  <2>1. IsFiniteSet(S) /\ \A e \in S : x[e] \in Int
    BY NetworkFinite
  <2>2. CASE S = {}
    <3>1. PICK f : f = [s \in Station |-> At(S, s)]
      OBVIOUS
    <3>2. \A s \in Station : f[s] = 0
      <4>1. SumFunctionOnSet(x, {}) = 0
        BY SumStep, FS_EmptySet
      <4>2. \A s \in Station : {e \in S : e[i] = s} = {}
        BY <2>2
      <4> QED
        BY <3>1, <4>1, <4>2
    <3>3. SumFunctionOnSet(f, Station) = 0
      BY <3>2, NetworkFinite, SumZero
    <3>4. SumFunctionOnSet(x, S) = 0
      BY <2>1, <2>2, SumStep
    <3> QED
      BY <3>1, <3>3, <3>4
  <2>3. CASE S # {}
    <3>1. PICK a \in S : TRUE
      BY <2>3
    <3>2. PICK R \in SUBSET Pair : R = S \ {a} /\ IsFiniteSet(R)
      <4>1. S \ {a} \in SUBSET Pair
        OBVIOUS
      <4> QED
        BY <4>1, NetworkFinite
    <3>3. PICK f, g : /\ f = [s \in Station |-> At(R, s)]
                      /\ g = [s \in Station |-> At(S, s)]
      OBVIOUS
    <3>4. PICK r \in Station : r = a[i]
      BY NetworkFinite
    <3>5. \A T \in SUBSET Pair : IsFiniteSet(T) /\ \A e \in T : x[e] \in Int
      BY NetworkFinite
    <3>6. \A s \in Station : f[s] \in Int
      <4>1. ASSUME NEW s \in Station PROVE At(R, s) \in Int
        <5>1. PICK T \in SUBSET Pair : T = {e \in R : e[i] = s}
          BY <3>2
        <5>2. SumFunctionOnSet(x, T) \in Int
          BY <3>5, SumInt
        <5> QED
          BY <5>1, <5>2
      <4> QED
        BY <3>3, <4>1
    <3>7. PICK d \in Int : d = x[a]
      BY <2>1
    <3>8. g[r] = f[r] + d
      <4>1. PICK T \in SUBSET Pair : T = {e \in S : e[i] = r}
        OBVIOUS
      <4>2. a \in T /\ T \ {a} = {e \in R : e[i] = r}
        BY <3>2, <3>4, <4>1
      <4>3. SumFunctionOnSet(x, T) = x[a] + SumFunctionOnSet(x, T \ {a})
        BY <3>5, <4>2, SumPick
      <4>4. f[r] = SumFunctionOnSet(x, T \ {a}) /\ g[r] = SumFunctionOnSet(x, T)
        BY <3>3, <4>1, <4>2
      <4>5. g[r] = d + f[r] /\ f[r] \in Int
        BY <3>6, <3>7, <4>3, <4>4
      <4> QED
        BY <4>5
    <3>9. \A s \in Station \ {r} : g[s] = f[s]
      <4>1. ASSUME NEW s \in Station, s # r PROVE {e \in S : e[i] = s} = {e \in R : e[i] = s}
        BY <3>2, <3>4, <4>1
      <4> QED
        BY <3>3, <4>1
    <3>10. SumFunctionOnSet(g, Station) = SumFunctionOnSet(f, Station) + d
      BY <3>6, <3>8, <3>9, NetworkFinite, SumChanged
    <3>11. SumFunctionOnSet(x, S) = x[a] + SumFunctionOnSet(x, R)
      BY <2>1, <3>2, SumPick
    <3>12. SumFunctionOnSet(f, Station) = SumFunctionOnSet(x, R)
      BY <1>1, <3>2, <3>3
    <3>13. PICK n \in Int : n = SumFunctionOnSet(x, R)
      BY <3>2, <3>5, SumInt
    <3>14. n + d = d + n
      OBVIOUS
    <3> QED
      BY <3>3, <3>7, <3>10, <3>11, <3>12, <3>13, <3>14
  <2> QED
    BY <2>2, <2>3
<1>2. IsFiniteSet(Pair) /\ Pair \in SUBSET Pair
  BY NetworkFinite
<1>3. Pair \in G
  <2> HIDE DEF G
  <2> QED
    BY <1>1, <1>2, FiniteInduction
<1>4. Seen(Pair) = SumFunctionOnSet(x, Pair)
  BY <1>3
<1> QED
  BY <1>4 DEF TotalMoved

(* What a plan takes from the stations it brings to stations.              *)
LEMMA MovesConserve ==
  ASSUME NEW p \in ProblemsWithin(Capacity), NEW x \in [Pair -> Nat],
         NEW b \in [Station -> Int], NEW c,
         c = [s \in Station |-> b[s] + 2 * (FinalInventory(p, x)[s] - p.bikes[s])]
  PROVE  SumFunctionOnSet(c, Station) = SumFunctionOnSet(b, Station)
<1>1. PICK i, o : /\ i = [s \in Station |-> Inflow(x, s)]
                  /\ o = [s \in Station |-> Outflow(x, s)]
  OBVIOUS
<1>2. PICK n \in Nat : n = TotalMoved(x)
  BY PlanNumbers
<1>3. SumFunctionOnSet(i, Station) = n
  <2>1. i = [s \in Station |-> SumFunctionOnSet(x, {e \in Pair : e[2] = s})]
    BY <1>1 DEF Inflow
  <2> QED
    BY <1>2, <2>1, EndsAddUp
<1>4. SumFunctionOnSet(o, Station) = n
  <2>1. o = [s \in Station |-> SumFunctionOnSet(x, {e \in Pair : e[1] = s})]
    BY <1>1 DEF Outflow
  <2> QED
    BY <1>2, <2>1, EndsAddUp
<1>5. PICK i2, o2, u, v : /\ i2 = [s \in Station |-> 2 * i[s]]
                          /\ o2 = [s \in Station |-> 2 * o[s]]
                          /\ u = [s \in Station |-> c[s] + o2[s]]
                          /\ v = [s \in Station |-> b[s] + i2[s]]
  OBVIOUS
<1>6. ASSUME NEW s \in Station
      PROVE  /\ i[s] \in Int /\ o[s] \in Int /\ i2[s] = 2 * i[s] /\ o2[s] = 2 * o[s]
             /\ i2[s] \in Int /\ o2[s] \in Int /\ b[s] \in Int /\ c[s] \in Int
             /\ u[s] = c[s] + o2[s] /\ v[s] = b[s] + i2[s] /\ u[s] = v[s]
  <2>1. PICK k \in Int, ins \in Int, outs \in Int, m \in Int :
          /\ k = p.bikes[s] /\ ins = Inflow(x, s) /\ outs = Outflow(x, s) /\ m = b[s]
    BY GivenNumbers, PlanNumbers
  <2>2. FinalInventory(p, x)[s] = k - outs + ins
    BY <2>1, FinalNumbers
  <2>3. c[s] = m + 2 * ((k - outs + ins) - k)
    BY <2>1, <2>2
  <2>4. i[s] = ins /\ o[s] = outs
    BY <1>1, <2>1
  <2>5. i2[s] = 2 * ins /\ o2[s] = 2 * outs /\ u[s] = c[s] + o2[s] /\ v[s] = b[s] + i2[s]
    BY <1>5, <2>4
  <2> QED
    BY <2>1, <2>3, <2>4, <2>5
<1>7. IsFiniteSet(Station) /\ 2 \in Int
  BY NetworkFinite
<1>8. SumFunctionOnSet(i2, Station) = 2 * n
  <2>1. \A s \in Station : i[s] \in Int /\ i2[s] = 2 * i[s]
    BY <1>6
  <2>2. SumFunctionOnSet(i2, Station) = 2 * SumFunctionOnSet(i, Station)
    BY <1>7, <2>1, SumScaled
  <2> QED
    BY <1>3, <2>2
<1>9. SumFunctionOnSet(o2, Station) = 2 * n
  <2>1. \A s \in Station : o[s] \in Int /\ o2[s] = 2 * o[s]
    BY <1>6
  <2>2. SumFunctionOnSet(o2, Station) = 2 * SumFunctionOnSet(o, Station)
    BY <1>7, <2>1, SumScaled
  <2> QED
    BY <1>4, <2>2
<1>10. SumFunctionOnSet(u, Station)
         = SumFunctionOnSet(c, Station) + SumFunctionOnSet(o2, Station)
  BY <1>6, <1>7, SumOfSum
<1>11. SumFunctionOnSet(v, Station)
         = SumFunctionOnSet(b, Station) + SumFunctionOnSet(i2, Station)
  BY <1>6, <1>7, SumOfSum
<1>12. SumFunctionOnSet(u, Station) = SumFunctionOnSet(v, Station)
  BY <1>6, <1>7, SumSame
<1>13. PICK B \in Int, C \in Int :
         B = SumFunctionOnSet(b, Station) /\ C = SumFunctionOnSet(c, Station)
  <2>1. SumFunctionOnSet(b, Station) \in Int
    BY <1>6, <1>7, SumInt
  <2>2. SumFunctionOnSet(c, Station) \in Int
    BY <1>6, <1>7, SumInt
  <2> QED
    BY <2>1, <2>2
<1>14. C + 2 * n = B + 2 * n
  BY <1>8, <1>9, <1>10, <1>11, <1>12, <1>13
<1>15. C = B
  BY <1>14
<1> QED
  BY <1>13, <1>15

(* The books of a simulation.                                              *)
AccountInv ==
  /\ BikesAccountedFor
  /\ tally.short \in Int /\ tally.over \in Int
  /\ DOMAIN tally = {"short", "over", "moved", "infeasible"}
  /\ ~Simulating => hour = 0 /\ stock = Neutral /\ tally = Zero
  /\ hour <= Hours

(* Half the docks of every station are full, and no hour has passed.       *)
LEMMA OpeningBalance ==
  ASSUME NEW realized
  PROVE  SumFunctionOnSet(Neutral, Station)
           = N * Capacity + 0 - 0
               + SumFunctionOnSet([t \in 0..(0 - 1) |->
                                     SumFunctionOnSet(realized[t], Station)], 0..(0 - 1))
<1>1. SumFunctionOnSet(Neutral, Station) = N * Capacity
  <2>1. Capacity \in Int /\ \A s \in Station : Neutral[s] = Capacity
    BY SolversAssumption DEF Neutral
  <2>2. SumFunctionOnSet(Neutral, Station) = Cardinality(Station) * Capacity
    BY <2>1, NetworkFinite, SumConstant
  <2> QED
    BY <2>2, NetworkFinite
<1>2. PICK f : f = [t \in 0..(0 - 1) |-> SumFunctionOnSet(realized[t], Station)]
  OBVIOUS
<1>3. SumFunctionOnSet(f, 0..(0 - 1)) = 0
  <2>1. 0..(0 - 1) = {}
    OBVIOUS
  <2>2. SumFunctionOnSet(f, {}) = 0
    BY SumStep, FS_EmptySet
  <2> QED
    BY <2>1, <2>2
<1>4. N * Capacity \in Int
  BY NetworkAssumption, SolversAssumption
<1>5. PICK n \in Int : n = N * Capacity
  BY <1>4
<1> QED
  BY <1>1, <1>2, <1>3, <1>5

LEMMA InitAccountInv == ControlInit => AccountInv
<1> SUFFICES ASSUME ControlInit PROVE AccountInv
  OBVIOUS
<1>1. hour = 0 /\ stock = Neutral /\ tally = Zero
  BY DEF ControlInit
<1>2. tally.short = 0 /\ tally.over = 0
  BY <1>1 DEF Zero
<1>3. PICK realized : realized = series.realized
  OBVIOUS
<1>4. BikesAccountedFor
  BY <1>1, <1>2, <1>3, OpeningBalance DEF BikesAccountedFor
<1> QED
  BY <1>1, <1>4, ControlAssumption DEF AccountInv, Zero

(* An hour more: its flow is one term more.                                *)
LEMMA HourAdded ==
  ASSUME NEW h \in Nat, NEW F, \A t \in 0..h : F[t] \in Int
  PROVE  /\ SumFunctionOnSet([t \in 0..(h - 1) |-> F[t]], 0..(h - 1)) \in Int
         /\ SumFunctionOnSet([t \in 0..((h + 1) - 1) |-> F[t]], 0..((h + 1) - 1))
              = F[h] + SumFunctionOnSet([t \in 0..(h - 1) |-> F[t]], 0..(h - 1))
<1>1. /\ 0..((h + 1) - 1) = 0..h /\ h \in 0..h /\ (0..h) \ {h} = 0..(h - 1)
  OBVIOUS
<1>2. PICK f, g : /\ f = [t \in 0..(h - 1) |-> F[t]]
                  /\ g = [t \in 0..h |-> F[t]]
  OBVIOUS
<1>3. IsFiniteSet(0..h) /\ IsFiniteSet(0..(h - 1))
  <2>1. h - 1 \in Int /\ 0 \in Int /\ h \in Int
    OBVIOUS
  <2> QED
    BY <2>1, FS_Interval
<1>4. /\ \A t \in 0..h : g[t] \in Int
      /\ \A t \in 0..(h - 1) : f[t] \in Int /\ f[t] = g[t]
      /\ g[h] = F[h]
  BY <1>1, <1>2
<1>5. SumFunctionOnSet(g, 0..h) = g[h] + SumFunctionOnSet(g, (0..h) \ {h})
  BY <1>1, <1>3, <1>4, SumPick
<1>6. SumFunctionOnSet(f, 0..(h - 1)) = SumFunctionOnSet(g, 0..(h - 1))
  BY <1>3, <1>4, SumSame
<1>7. SumFunctionOnSet(f, 0..(h - 1)) \in Int
  BY <1>3, <1>4, SumInt
<1> QED
  BY <1>1, <1>2, <1>4, <1>5, <1>6, <1>7

(* What an hour does to a zone: the flow, and what of it could not be      *)
(* served or found no dock.                                                *)
Booked(b, n, c, next, lost, away) ==
  /\ next = IF n < 0 THEN b - Least(b, -n) ELSE b + Least(2 * c - b, n)
  /\ lost = PositivePart(-n - b)
  /\ away = IF n < 0 THEN 0 ELSE n - Least(2 * c - b, n)

LEMMA FlowBooked ==
  ASSUME NEW b \in Int, NEW n \in Int, NEW c \in Int, NEW next, NEW lost, NEW away,
         b >= 0, Booked(b, n, c, next, lost, away)
  PROVE  /\ next \in Int /\ lost \in Int /\ away \in Int
         /\ next + away = (b + n) + lost
<1>1. CASE n < 0
  <2>1. next = b - Least(b, -n) /\ away = 0 /\ lost = PositivePart(-n - b)
    BY <1>1 DEF Booked
  <2>2. CASE b < -n
    <3>1. Least(b, -n) = b /\ PositivePart(-n - b) = -n - b
      BY <2>2 DEF Least, PositivePart
    <3> QED
      BY <2>1, <3>1
  <2>3. CASE b >= -n
    <3>1. Least(b, -n) = -n /\ PositivePart(-n - b) = 0
      BY <2>3 DEF Least, PositivePart
    <3> QED
      BY <2>1, <3>1
  <2> QED
    BY <2>2, <2>3
<1>2. CASE n >= 0
  <2>1. PICK k \in Int : k = Least(2 * c - b, n)
    <3>1. 2 * c - b \in Int
      OBVIOUS
    <3> QED
      BY <3>1 DEF Least
  <2>2. PositivePart(-n - b) = 0
    BY <1>2 DEF PositivePart
  <2>3. next = b + k /\ away = n - k /\ lost = PositivePart(-n - b)
    BY <1>2, <2>1 DEF Booked
  <2> QED
    BY <2>2, <2>3
<1> QED
  BY <1>1, <1>2

(* Over the network and over the hours.                                    *)
LEMMA RealizeBalances ==
  ASSUME StockInv, AccountInv, Simulating, Realize
  PROVE  AccountInv'
<1> USE SolversAssumption, ControlAssumption
<1>1. /\ hour \in Nat /\ hour < Hours /\ hour' = hour + 1 /\ UNCHANGED <<series, todo>>
      /\ stock \in [Station -> Int] /\ \A s \in Station : stock[s] >= 0
      /\ \A t \in 0..(Hours - 1), s \in Station : series.realized[t][s] \in Int
  BY DEF StockInv, StationsLegal, Realize
<1>2. PICK net, b, c, lost, away :
        /\ net = series.realized[hour] /\ b = stock /\ c = stock'
        /\ lost = Unserved /\ away = Turned
  OBVIOUS
<1>3. PICK u, v : /\ u = [s \in Station |-> c[s] + away[s]]
                  /\ v = [s \in Station |-> b[s] + net[s]]
  OBVIOUS
<1>4. PICK w : w = [s \in Station |-> v[s] + lost[s]]
  OBVIOUS
<1>5. ASSUME NEW s \in Station
      PROVE  /\ b[s] \in Int /\ net[s] \in Int /\ c[s] \in Int /\ lost[s] \in Int
             /\ away[s] \in Int /\ u[s] = c[s] + away[s] /\ v[s] = b[s] + net[s]
             /\ w[s] = v[s] + lost[s] /\ v[s] \in Int /\ u[s] = w[s]
  <2>1. PICK m \in Int, n \in Int : m = b[s] /\ n = net[s] /\ m >= 0
    BY <1>1, <1>2
  <2>2. c[s] = IF n < 0 THEN m - Least(m, -n) ELSE m + Least(2 * Capacity - m, n)
    BY <1>2, <2>1 DEF Realize
  <2>3. lost[s] = PositivePart(-n - m)
    BY <1>2, <2>1 DEF Unserved
  <2>4. away[s] = IF n < 0 THEN 0 ELSE n - Least(2 * Capacity - m, n)
    BY <1>2, <2>1 DEF Turned
  <2>5. /\ c[s] \in Int /\ lost[s] \in Int /\ away[s] \in Int
        /\ c[s] + away[s] = (m + n) + lost[s]
    <3>1. PICK k \in Int : k = Capacity
      OBVIOUS
    <3>2. PICK next, short, over : next = c[s] /\ short = lost[s] /\ over = away[s]
      OBVIOUS
    <3>3. Booked(m, n, k, next, short, over)
      BY <2>2, <2>3, <2>4, <3>1, <3>2 DEF Booked
    <3>4. /\ next \in Int /\ short \in Int /\ over \in Int
          /\ next + over = (m + n) + short
      BY <2>1, <3>3, FlowBooked
    <3> QED
      BY <3>2, <3>4
  <2>6. u[s] = c[s] + away[s] /\ v[s] = m + n /\ w[s] = v[s] + lost[s]
    BY <1>3, <1>4, <2>1
  <2> QED
    BY <2>1, <2>5, <2>6
<1>6. IsFiniteSet(Station)
  BY NetworkFinite
<1>7. PICK B \in Int, C \in Int, L \in Int, A \in Int, M \in Int, V \in Int :
        /\ B = SumFunctionOnSet(b, Station) /\ C = SumFunctionOnSet(c, Station)
        /\ L = SumFunctionOnSet(lost, Station) /\ A = SumFunctionOnSet(away, Station)
        /\ M = SumFunctionOnSet(net, Station) /\ V = SumFunctionOnSet(v, Station)
  <2>1. SumFunctionOnSet(b, Station) \in Int
    BY <1>5, <1>6, SumInt
  <2>2. SumFunctionOnSet(c, Station) \in Int
    BY <1>5, <1>6, SumInt
  <2>3. SumFunctionOnSet(lost, Station) \in Int
    BY <1>5, <1>6, SumInt
  <2>4. SumFunctionOnSet(away, Station) \in Int
    BY <1>5, <1>6, SumInt
  <2>5. SumFunctionOnSet(net, Station) \in Int
    BY <1>5, <1>6, SumInt
  <2>6. SumFunctionOnSet(v, Station) \in Int
    BY <1>5, <1>6, SumInt
  <2> QED
    BY <2>1, <2>2, <2>3, <2>4, <2>5, <2>6
<1>8. C + A = (B + M) + L
  <2>1. SumFunctionOnSet(u, Station) = C + A
    BY <1>5, <1>6, <1>7, SumOfSum
  <2>2. V = B + M
    BY <1>5, <1>6, <1>7, SumOfSum
  <2>3. SumFunctionOnSet(w, Station) = V + L
    BY <1>5, <1>6, <1>7, SumOfSum
  <2>4. SumFunctionOnSet(u, Station) = SumFunctionOnSet(w, Station)
    BY <1>5, <1>6, SumSame
  <2> QED
    BY <2>1, <2>2, <2>3, <2>4
<1>9. PICK F : F = [t \in 0..(Hours - 1) |-> SumFunctionOnSet(series.realized[t], Station)]
  OBVIOUS
<1>10. \A t \in 0..(Hours - 1) : F[t] \in Int
  <2>1. ASSUME NEW t \in 0..(Hours - 1)
        PROVE  SumFunctionOnSet(series.realized[t], Station) \in Int
    <3>1. PICK f : f = series.realized[t]
      OBVIOUS
    <3>2. \A s \in Station : f[s] \in Int
      BY <1>1, <3>1
    <3> QED
      BY <1>6, <3>1, <3>2, SumInt
  <2> QED
    BY <1>9, <2>1
<1>11. PICK h \in Nat : h = hour /\ h < Hours
  BY <1>1
<1>12. PICK old \in Int, new \in Int :
         /\ old = SumFunctionOnSet([t \in 0..(h - 1) |-> F[t]], 0..(h - 1))
         /\ new = SumFunctionOnSet([t \in 0..((h + 1) - 1) |-> F[t]], 0..((h + 1) - 1))
         /\ new = F[h] + old
  <2>1. \A t \in 0..h : F[t] \in Int
    BY <1>10, <1>11
  <2>2. F[h] \in Int
    BY <2>1
  <2>3. PICK a, z :
          /\ a \in Int
          /\ a = SumFunctionOnSet([t \in 0..(h - 1) |-> F[t]], 0..(h - 1))
          /\ z = SumFunctionOnSet([t \in 0..((h + 1) - 1) |-> F[t]], 0..((h + 1) - 1))
          /\ z = F[h] + a
    BY <2>1, HourAdded
  <2>4. z \in Int
    BY <2>2, <2>3
  <2> QED
    BY <2>3, <2>4
<1>13. F[h] = M
  BY <1>2, <1>7, <1>9, <1>11
<1>14. /\ tally'.short = tally.short + L /\ tally'.over = tally.over + A
       /\ tally.short \in Int /\ tally.over \in Int
       /\ DOMAIN tally' = {"short", "over", "moved", "infeasible"}
  <2>1. tally' = [tally EXCEPT !.short = @ + L, !.over = @ + A]
    BY <1>2, <1>7 DEF Realize
  <2>2. PICK y, z : y = tally /\ z = tally'
    OBVIOUS
  <2>3. /\ DOMAIN y = {"short", "over", "moved", "infeasible"}
        /\ y.short \in Int /\ y.over \in Int
    BY <2>2 DEF AccountInv
  <2>4. z = [y EXCEPT !.short = @ + L, !.over = @ + A]
    BY <2>1, <2>2
  <2>5. z.short = y.short + L /\ z.over = y.over + A /\ DOMAIN z = DOMAIN y
    BY <2>3, <2>4
  <2> QED
    BY <2>2, <2>3, <2>5
<1>15. B = N * Capacity + tally.short - tally.over + old
  <2>1. [t \in 0..(h - 1) |-> SumFunctionOnSet(series.realized[t], Station)]
          = [t \in 0..(h - 1) |-> F[t]]
    BY <1>9, <1>11
  <2> QED
    BY <1>2, <1>7, <1>11, <1>12, <2>1 DEF AccountInv, BikesAccountedFor
<1>16. PICK K \in Int, s \in Int, o \in Int :
         K = N * Capacity /\ s = tally.short /\ o = tally.over
  BY <1>14, NetworkAssumption
<1>17. C = K + (s + L) - (o + A) + new
  <2>1. B = K + s - o + old
    BY <1>15, <1>16
  <2>2. M + old = new
    BY <1>12, <1>13
  <2> QED
    BY <1>8, <2>1, <2>2
<1>18. BikesAccountedFor'
  <2>1. [t \in 0..((h + 1) - 1) |-> SumFunctionOnSet(series.realized[t], Station)]
          = [t \in 0..((h + 1) - 1) |-> F[t]]
    BY <1>9, <1>11
  <2>2. SumFunctionOnSet(stock', Station) = C
    BY <1>2, <1>7
  <2>3. /\ N * Capacity = K /\ tally'.short = s + L /\ tally'.over = o + A
        /\ hour' = h + 1 /\ series' = series
    BY <1>1, <1>11, <1>14, <1>16
  <2> QED
    BY <1>12, <1>17, <2>1, <2>2, <2>3 DEF BikesAccountedFor
<1> QED
  BY <1>1, <1>14, <1>18 DEF AccountInv, Simulating

(* Moving bikes changes no total.                                          *)
LEMMA ApplyBalances ==
  ASSUME StockInv, PlanInv, AccountInv, Simulating, Apply
  PROVE  AccountInv'
<1>1. problem \in ProblemsWithin(Capacity) /\ moved \in [Pair -> Nat]
  BY DEF PlanInv, ProblemInv, GreedySound, PlanSound
<1>2. PICK p \in ProblemsWithin(Capacity), x \in [Pair -> Nat], b \in [Station -> Int] :
        p = problem /\ x = moved /\ b = stock
  BY <1>1 DEF StockInv
<1>8. PICK c : c = stock'
  OBVIOUS
<1>3. c = [s \in Station |-> IF Feasible(p, x)
                             THEN b[s] + 2 * (FinalInventory(p, x)[s] - p.bikes[s])
                             ELSE b[s]]
  BY <1>2, <1>8 DEF Apply
<1>4. SumFunctionOnSet(c, Station) = SumFunctionOnSet(b, Station)
  <2>1. CASE Feasible(p, x)
    <3>1. c = [s \in Station |-> b[s] + 2 * (FinalInventory(p, x)[s] - p.bikes[s])]
      BY <1>3, <2>1
    <3> QED
      BY <3>1, MovesConserve
  <2>2. CASE ~Feasible(p, x)
    BY <1>3, <2>2
  <2> QED
    BY <2>1, <2>2
<1>5. /\ tally'.short = tally.short /\ tally'.over = tally.over
      /\ DOMAIN tally' = DOMAIN tally
  BY DEF Apply, AccountInv
<1>6. UNCHANGED <<series, todo, hour>>
  BY DEF Apply
<1>7. BikesAccountedFor'
  BY <1>2, <1>4, <1>5, <1>6, <1>8 DEF AccountInv, BikesAccountedFor
<1> QED
  BY <1>5, <1>6, <1>7 DEF AccountInv, Simulating

LEMMA ControlKeepsAccount ==
  StockInv /\ PlanInv /\ AccountInv /\ [ControlNext]_<<vars, controlVars>> => AccountInv'
<1> SUFFICES ASSUME StockInv, PlanInv, AccountInv, [ControlNext]_<<vars, controlVars>>
             PROVE  AccountInv'
  OBVIOUS
<1>1. ASSUME UNCHANGED <<series, todo, hour, stock, tally>> PROVE AccountInv'
  BY <1>1 DEF AccountInv, BikesAccountedFor, Simulating
<1>2. CASE UNCHANGED <<vars, controlVars>> \/ Solve
  BY <1>1, <1>2 DEF controlVars, Solve
<1>3. CASE Stay \/ \E target \in TargetsOf(Policy) : Decide(target)
  BY <1>1, <1>3 DEF Stay, Decide
<1>4. CASE Simulating /\ Apply
  BY <1>4, ApplyBalances
<1>5. CASE Simulating /\ Realize
  BY <1>5, RealizeBalances
<1>6. CASE EndPolicy
  <2>1. hour' = 0 /\ stock' = Neutral /\ tally' = Zero
    BY <1>6 DEF EndPolicy
  <2>2. tally'.short = 0 /\ tally'.over = 0
    BY <2>1 DEF Zero
  <2>3. PICK realized : realized = series'.realized
    OBVIOUS
  <2>4. BikesAccountedFor'
    BY <2>1, <2>2, <2>3, OpeningBalance DEF BikesAccountedFor
  <2> QED
    BY <2>1, <2>4, ControlAssumption DEF AccountInv, Zero
<1> QED
  BY <1>2, <1>3, <1>4, <1>5, <1>6 DEF ControlNext, Simulating

(* Moving creates and loses no bikes, and the shortage and the overflow of *)
(* a tally are exactly what the flow and the docks do not explain, over    *)
(* any network, series and policy.                                         *)
THEOREM NoBikeCreated == ControlSpec => []BikesAccountedFor
<1>1. ControlInit => StockInv /\ PlanInv /\ AccountInv
  BY InitStockInv, InitPlanInv, InitAccountInv
<1>2. StockInv /\ PlanInv /\ AccountInv /\ [ControlNext]_<<vars, controlVars>>
        => (StockInv /\ PlanInv /\ AccountInv)'
  BY ControlNextKeeps, ControlKeepsPlans, ControlKeepsAccount
<1>3. AccountInv => BikesAccountedFor
  BY DEF AccountInv
<1> QED
  BY <1>1, <1>2, <1>3, PTL DEF ControlSpec

-----------------------------------------------------------------------------
(***************************************************************************)
(* Optimal plans.  enumeration.py leaves out every edge but those from a   *)
(* surplus station to a deficit station, and says that the optimum is      *)
(* preserved.  The proof takes an optimal plan apart: two moves that meet  *)
(* in a station are one move past it, and a bike that is taken from below  *)
(* a target or brought above one stays where it was.                       *)
(***************************************************************************)

(* All plans that check.                                                   *)
Plans(p) == {x \in [Pair -> Nat] : Feasible(p, x)}

(* The least of some natural numbers.                                      *)
LEMMA LeastNumber ==
  ASSUME NEW S \in SUBSET Nat, S # {}
  PROVE  \E m \in S : \A n \in S : m <= n
<1>0. \A n \in S : n \in Nat
  OBVIOUS
<1>1. PICK k \in Nat : k \in S
  BY <1>0
<1>2. PICK T : /\ T = {n \in S : n <= k}
               /\ \A n : n \in T <=> n \in S /\ n <= k
  <2>1. \A n : n \in {m \in S : m <= k} <=> n \in S /\ n <= k
    OBVIOUS
  <2> QED
    BY <2>1
<1>3. PICK R : R = {pair \in Nat \X Nat : pair[1] > pair[2]}
  OBVIOUS
<1>4. IsFiniteSet(T)
  <2>1. 0 \in Int /\ k \in Int /\ T \in SUBSET (0..k)
    <3>1. \A n \in T : n \in 0..k
      BY <1>0, <1>2
    <3> QED
      BY <3>1
  <2>2. IsFiniteSet(0..k)
    BY <2>1, FS_Interval
  <2> QED
    BY <2>1, <2>2, FS_Subset
<1>5. T # {} /\ T \subseteq Nat
  <2>1. k \in T /\ \A n \in T : n \in Nat
    BY <1>0, <1>1, <1>2
  <2> QED
    BY <2>1
<1>6. \A a, b \in Nat : <<a, b>> \in R <=> a > b
  BY <1>3
<1>7. Orders(R, T)
  BY <1>5, <1>6 DEF Orders
<1>8. PICK m \in T : \A n \in T : n # m => <<n, m>> \in R
  BY <1>4, <1>5, <1>7, LastExists
<1>9. ASSUME NEW n \in T PROVE m <= n
  <2>1. n \in Nat /\ m \in Nat
    BY <1>5
  <2>2. n # m => n > m
    BY <1>6, <1>8, <2>1
  <2> QED
    BY <2>1, <2>2
<1>10. ASSUME NEW n \in S PROVE m <= n
  <2>1. n \in Nat /\ m \in Nat /\ m <= k
    BY <1>0, <1>2
  <2>2. CASE n <= k
    BY <1>2, <1>9, <2>2
  <2>3. CASE n > k
    BY <2>1, <2>3
  <2> QED
    BY <2>1, <2>2, <2>3
<1> QED
  BY <1>2, <1>10

LEMMA MinIsLeast ==
  ASSUME NEW S \in SUBSET Nat, S # {}
  PROVE  Min(S) \in S /\ \A n \in S : Min(S) <= n
<1>1. \E m \in S : \A n \in S : m <= n
  BY LeastNumber
<1> QED
  BY <1>1 DEF Min

(* What a pair carries is no more than what all of them do.                *)
LEMMA PartOfSum ==
  ASSUME NEW x \in [Pair -> Nat], NEW S \in SUBSET Pair, NEW e \in S
  PROVE  x[e] <= SumFunctionOnSet(x, S)
<1>1. IsFiniteSet(S) /\ IsFiniteSet(S \ {e})
  BY NetworkFinite
<1>2. \A f \in S : x[f] \in Int
  OBVIOUS
<1>3. SumFunctionOnSet(x, S) = x[e] + SumFunctionOnSet(x, S \ {e})
  BY <1>1, <1>2, SumPick
<1>4. \A f \in S \ {e} : x[f] \in Nat
  OBVIOUS
<1>5. SumFunctionOnSet(x, S \ {e}) \in Nat
  BY <1>1, <1>4, SumNat
<1> QED
  BY <1>3, <1>5

LEMMA PairCarries ==
  ASSUME NEW x \in [Pair -> Nat], NEW e \in Pair
  PROVE  x[e] <= TotalMoved(x) /\ x[e] <= Outflow(x, e[1]) /\ x[e] <= Inflow(x, e[2])
<1>1. PICK O, I : O = {f \in Pair : f[1] = e[1]} /\ I = {f \in Pair : f[2] = e[2]}
  OBVIOUS
<1>2. /\ Pair \in SUBSET Pair /\ O \in SUBSET Pair /\ I \in SUBSET Pair
      /\ e \in O /\ e \in I
  BY <1>1
<1>3. x[e] <= SumFunctionOnSet(x, Pair)
  BY <1>2, PartOfSum
<1>4. x[e] <= SumFunctionOnSet(x, O)
  BY <1>2, PartOfSum
<1>5. x[e] <= SumFunctionOnSet(x, I)
  BY <1>2, PartOfSum
<1> QED
  BY <1>1, <1>3, <1>4, <1>5 DEF TotalMoved, Outflow, Inflow

(* A station that gives or takes does so along some pair.                  *)
LEMMA SomePair ==
  ASSUME NEW x \in [Pair -> Nat], NEW s \in Station
  PROVE  /\ Outflow(x, s) # 0 => \E e \in Pair : e[1] = s /\ x[e] >= 1
         /\ Inflow(x, s) # 0 => \E e \in Pair : e[2] = s /\ x[e] >= 1
<1>1. ASSUME NEW S \in SUBSET Pair, SumFunctionOnSet(x, S) # 0
      PROVE  \E e \in S : x[e] >= 1
  <2>1. IsFiniteSet(S)
    BY NetworkFinite
  <2>2. \E e \in S : x[e] # 0
    BY <1>1, <2>1, SumZero
  <2> QED
    BY <2>2
<1> QED
  BY <1>1 DEF Outflow, Inflow

(* A plan that checks is one the vehicle's rows and bounds admit.          *)
LEMMA WithinBounds ==
  ASSUME NEW p \in ProblemsWithin(Capacity), NEW x \in Plans(p)
  PROVE  /\ x \in Flow
         /\ \A e \in Pair : x[e] <= Least(p.bikes[e[1]], p.vehicle)
<1>1. /\ x \in [Pair -> Nat] /\ TotalMoved(x) <= p.vehicle
      /\ \A s \in Station : Outflow(x, s) <= p.bikes[s]
  BY DEF Plans, Feasible
<1>2. PICK v \in Nat, V \in Nat : v = p.vehicle /\ V = MaxVehicle /\ v <= V
  BY NetworkAssumption DEF ProblemsWithin
<1>3. TotalMoved(x) \in Nat /\ TotalMoved(x) <= V
  BY <1>1, <1>2, PlanNumbers
<1>4. ASSUME NEW e \in Pair
      PROVE  x[e] \in 0..V /\ x[e] <= Least(p.bikes[e[1]], p.vehicle)
  <2>1. e[1] \in Station
    BY NetworkFinite
  <2>2. PICK k \in Int, o \in Nat, t \in Nat, c \in Nat :
          k = p.bikes[e[1]] /\ o = Outflow(x, e[1]) /\ t = TotalMoved(x) /\ c = x[e]
    BY <1>1, <2>1, GivenNumbers, PlanNumbers
  <2>3. c <= t /\ c <= o /\ o <= k /\ t <= v
    BY <1>1, <1>2, <2>1, <2>2, PairCarries
  <2> QED
    BY <1>2, <2>2, <2>3 DEF Least
<1>5. x \in [Pair -> 0..MaxVehicle]
  BY <1>1, <1>2, <1>4
<1> QED
  BY <1>2, <1>3, <1>4, <1>5 DEF Flow

(* Plans cost natural numbers.                                             *)
LEMMA PlanCostNumber ==
  ASSUME NEW p \in ProblemsWithin(Capacity), NEW x \in [Pair -> Nat]
  PROVE  /\ PlanCost(p, x) \in Nat
         /\ SumFunctionOnSet([e \in Pair |-> Distance[e] * x[e]], Pair) \in Nat
<1>1. PICK w : w = [e \in Pair |-> Distance[e] * x[e]]
  OBVIOUS
<1>2. ASSUME NEW e \in Pair PROVE w[e] \in Nat
  <2>1. PICK d \in Nat, c \in Nat : d = Distance[e] /\ c = x[e]
    BY NetworkAssumption
  <2>2. d * c \in Int /\ (c >= 0 => d * c >= 0)
    BY Prices
  <2>3. w[e] = d * c
    BY <1>1, <2>1
  <2>4. PICK m \in Int : m = d * c
    BY <2>2
  <2> QED
    BY <2>2, <2>3, <2>4
<1>3. IsFiniteSet(Pair)
  BY NetworkFinite
<1>4. SumFunctionOnSet(w, Pair) \in Nat
  BY <1>2, <1>3, SumNat
<1>5. \A s \in Station : FinalInventory(p, x)[s] \in Int
  BY FinalNumbers
<1>6. ImbalanceCost(p, FinalInventory(p, x)) \in Nat
  BY <1>5, ImbalanceNumber
<1>7. PICK i \in Nat, n \in Nat, c \in Nat :
        /\ i = ImbalanceCost(p, FinalInventory(p, x))
        /\ n = SumFunctionOnSet(w, Pair) /\ c = DistanceCost
  BY <1>4, <1>6, NetworkAssumption
<1>8. PlanCost(p, x) = i + c * n
  BY <1>1, <1>7 DEF PlanCost
<1>9. c * n \in Int /\ (n >= 0 => c * n >= 0)
  BY Prices
<1>10. PICK m \in Int : m = c * n
  BY <1>9
<1>11. PlanCost(p, x) \in Nat
  BY <1>8, <1>9, <1>10
<1> QED
  BY <1>1, <1>4, <1>11

(* The MILP answers the plans that cost least of all that check.           *)
LEMMA MilpIsBest ==
  ASSUME NEW p \in ProblemsWithin(Capacity)
  PROVE  /\ MilpPlans(p) = {x \in Plans(p) : \A z \in Plans(p) : PlanCost(p, x) <= PlanCost(p, z)}
         /\ MilpPlans(p) # {}
<1> DEFINE feasible == {x \in Flow : /\ \A e \in Pair : x[e] <= Least(p.bikes[e[1]], p.vehicle)
                                     /\ Feasible(p, x)}
           costs == {PlanCost(p, x) : x \in feasible}
<1>1. feasible = Plans(p)
  <2>1. feasible \subseteq Plans(p)
    BY NetworkAssumption DEF Flow, Plans
  <2>2. Plans(p) \subseteq feasible
    BY WithinBounds DEF Plans
  <2> QED
    BY <2>1, <2>2
<1>2. NoMove \in Plans(p)
  BY NothingIsSound, NothingMoves DEF PlanSound, Plans
<1>3. MilpPlans(p) = {x \in feasible : PlanCost(p, x) = Min(costs)}
  BY DEF MilpPlans
<1> HIDE DEF feasible
<1>4. costs \in SUBSET Nat /\ costs # {}
  BY <1>1, <1>2, PlanCostNumber DEF Plans
<1>5. Min(costs) \in costs /\ \A n \in costs : Min(costs) <= n
  BY <1>4, MinIsLeast
<1>6. PICK least \in Nat : least = Min(costs)
  BY <1>4, <1>5
<1>7. /\ \E x \in Plans(p) : PlanCost(p, x) = least
      /\ \A x \in Plans(p) : PlanCost(p, x) \in Nat /\ least <= PlanCost(p, x)
  BY <1>1, <1>4, <1>5, <1>6
<1> HIDE DEF costs
<1>8. MilpPlans(p) = {x \in Plans(p) : PlanCost(p, x) = least}
  BY <1>1, <1>3, <1>6
<1>9. \A x \in Plans(p) :
        PlanCost(p, x) = least <=> \A z \in Plans(p) : PlanCost(p, x) <= PlanCost(p, z)
  <2>1. ASSUME NEW x \in Plans(p), \A z \in Plans(p) : PlanCost(p, x) <= PlanCost(p, z)
        PROVE  PlanCost(p, x) = least
    <3>1. PICK z \in Plans(p) : PlanCost(p, z) = least
      BY <1>7
    <3>2. PICK c \in Nat : c = PlanCost(p, x)
      BY <1>7
    <3>3. c <= least /\ least <= c
      BY <1>7, <2>1, <3>1, <3>2
    <3> QED
      BY <3>2, <3>3
  <2> QED
    BY <1>7, <2>1
<1> QED
  BY <1>7, <1>8, <1>9

-----------------------------------------------------------------------------
(* The way a plan drives.                                                  *)
Way(x) == SumFunctionOnSet([f \in Pair |-> Distance[f] * x[f]], Pair)

Unit(a, b) == IF a = b THEN 1 ELSE 0

(* A plan with one bike less, or one more, along a pair.                   *)
LEMMA OneLess ==
  ASSUME NEW x \in [Pair -> Nat], NEW e \in Pair, x[e] >= 1
  PROVE  \E w : More(w, x, e, 1)
<1>1. PICK w : w = [x EXCEPT ![e] = x[e] - 1]
  OBVIOUS
<1>2. x[e] - 1 \in Nat
  OBVIOUS
<1>3. w \in [Pair -> Nat] /\ w[e] = x[e] - 1 /\ \A f \in Pair \ {e} : x[f] = w[f]
  BY <1>1, <1>2
<1>4. x[e] = w[e] + 1
  BY <1>3
<1> QED
  BY <1>3, <1>4 DEF More

LEMMA OneMore ==
  ASSUME NEW x \in [Pair -> Nat], NEW e \in Pair
  PROVE  \E y : More(x, y, e, 1)
<1>1. PICK y : y = [x EXCEPT ![e] = x[e] + 1]
  OBVIOUS
<1>2. y \in [Pair -> Nat] /\ y[e] = x[e] + 1 /\ \A f \in Pair \ {e} : y[f] = x[f]
  BY <1>1
<1> QED
  BY <1>2 DEF More

(* What one bike along e changes.                                          *)
LEMMA UnitMoves ==
  ASSUME NEW x, NEW y, NEW e \in Pair, More(x, y, e, 1)
  PROVE  /\ x \in [Pair -> Nat] /\ y \in [Pair -> Nat]
         /\ TotalMoved(y) = TotalMoved(x) + 1
         /\ Way(y) = Way(x) + Distance[e] /\ Way(x) \in Int
         /\ \A s \in Station : /\ Outflow(y, s) = Outflow(x, s) + Unit(s, e[1])
                               /\ Inflow(y, s) = Inflow(x, s) + Unit(s, e[2])
<1>1. x \in [Pair -> Nat] /\ y \in [Pair -> Nat]
  BY DEF More
<1>2. 1 \in Nat
  OBVIOUS
<1>3. TotalMoved(y) = TotalMoved(x) + 1
  BY <1>2, FlowSums
<1>4. Way(x) \in Int /\ Way(y) = Way(x) + Distance[e] * 1
  BY <1>2, WayPaid DEF Way
<1>5. Distance[e] \in Nat
  BY NetworkAssumption
<1>6. Distance[e] * 1 = Distance[e]
  BY <1>5
<1>7. ASSUME NEW s \in Station
      PROVE  /\ Outflow(y, s) = Outflow(x, s) + Unit(s, e[1])
             /\ Inflow(y, s) = Inflow(x, s) + Unit(s, e[2])
  <2>1. Outflow(x, s) \in Nat /\ Inflow(x, s) \in Nat
    BY <1>1, PlanNumbers
  <2>2. /\ Outflow(y, e[1]) = Outflow(x, e[1]) + 1 /\ Inflow(y, e[2]) = Inflow(x, e[2]) + 1
        /\ s # e[1] => Outflow(y, s) = Outflow(x, s)
        /\ s # e[2] => Inflow(y, s) = Inflow(x, s)
    <3>1. Outflow(y, e[1]) = Outflow(x, e[1]) + 1 /\ Inflow(y, e[2]) = Inflow(x, e[2]) + 1
      BY <1>2, FlowSums
    <3>2. s # e[1] => Outflow(y, s) = Outflow(x, s)
      BY <1>2, FlowSums
    <3>3. s # e[2] => Inflow(y, s) = Inflow(x, s)
      BY <1>2, FlowSums
    <3> QED
      BY <3>1, <3>2, <3>3
  <2>3. Outflow(y, s) = Outflow(x, s) + Unit(s, e[1])
    BY <2>1, <2>2 DEF Unit
  <2>4. Inflow(y, s) = Inflow(x, s) + Unit(s, e[2])
    BY <2>1, <2>2 DEF Unit
  <2> QED
    BY <2>3, <2>4
<1> QED
  BY <1>1, <1>3, <1>4, <1>6, <1>7

(* A plan's cost in terms of its way.                                      *)
LEMMA CostOfWay ==
  ASSUME NEW p, NEW x
  PROVE  PlanCost(p, x) = ImbalanceCost(p, FinalInventory(p, x)) + DistanceCost * Way(x)
BY DEF PlanCost, Way

LEMMA ShorterIsCheaper ==
  ASSUME NEW p \in ProblemsWithin(Capacity), NEW x \in [Pair -> Nat], NEW z \in [Pair -> Nat],
         FinalInventory(p, z) = FinalInventory(p, x), Way(z) <= Way(x)
  PROVE  PlanCost(p, z) <= PlanCost(p, x)
<1>1. Way(z) \in Nat /\ Way(x) \in Nat
  BY PlanCostNumber DEF Way
<1>2. \A s \in Station : FinalInventory(p, x)[s] \in Int
  BY FinalNumbers
<1>3. PICK i \in Int, a \in Int, b \in Int, c \in Nat :
        /\ i = ImbalanceCost(p, FinalInventory(p, x))
        /\ a = Way(z) /\ b = Way(x) /\ c = DistanceCost
  BY <1>1, <1>2, ImbalanceNumber, NetworkAssumption
<1>4. c * (b - a) = c * b - c * a
  BY Prices
<1>5. b - a \in Int /\ (b - a >= 0 => c * (b - a) >= 0)
  BY Prices
<1>6. PICK m \in Int, n \in Int : m = c * a /\ n = c * b
  OBVIOUS
<1>7. PlanCost(p, z) = i + m /\ PlanCost(p, x) = i + n
  BY <1>3, <1>6, CostOfWay
<1>8. m <= n
  BY <1>3, <1>4, <1>5, <1>6
<1> QED
  BY <1>7, <1>8

(* Two moves that meet in a station: what they carry past it can go        *)
(* straight, or stay where it was if it would come back.                   *)
LEMMA Shortcut ==
  ASSUME Metric, NEW p \in ProblemsWithin(Capacity), NEW x \in Plans(p),
         NEW e \in Pair, NEW f \in Pair, e[2] = f[1], x[e] >= 1, x[f] >= 1
  PROVE  \E z \in Plans(p) : /\ FinalInventory(p, z) = FinalInventory(p, x)
                             /\ PlanCost(p, z) <= PlanCost(p, x)
                             /\ TotalMoved(z) < TotalMoved(x)
<1>1. /\ x \in [Pair -> Nat] /\ TotalMoved(x) <= p.vehicle
      /\ \A s \in Station : /\ Outflow(x, s) <= p.bikes[s]
                            /\ FinalInventory(p, x)[s] \in 0..p.capacity[s]
  BY DEF Plans, Feasible
<1>2. /\ e[1] \in Station /\ e[2] \in Station /\ e[1] # e[2]
      /\ f[1] \in Station /\ f[2] \in Station /\ f[1] # f[2]
  BY NetworkFinite
<1>3. PICK w : More(w, x, e, 1)
  BY <1>1, OneLess
<1>4. w \in [Pair -> Nat] /\ w[f] >= 1
  BY <1>2, <1>3 DEF More
<1>5. PICK v : More(v, w, f, 1)
  BY <1>4, OneLess
<1>6. /\ v \in [Pair -> Nat]
      /\ TotalMoved(x) = TotalMoved(w) + 1 /\ TotalMoved(w) = TotalMoved(v) + 1
      /\ Way(x) = Way(w) + Distance[e] /\ Way(w) = Way(v) + Distance[f] /\ Way(v) \in Int
  BY <1>3, <1>5, UnitMoves
<1>7. \A s \in Station :
        /\ Outflow(x, s) = Outflow(w, s) + Unit(s, e[1])
        /\ Inflow(x, s) = Inflow(w, s) + Unit(s, e[2])
  BY <1>3, UnitMoves
<1>8. \A s \in Station :
        /\ Outflow(w, s) = Outflow(v, s) + Unit(s, f[1])
        /\ Inflow(w, s) = Inflow(v, s) + Unit(s, f[2])
  BY <1>5, UnitMoves
<1>9. SUFFICES
        \E z \in [Pair -> Nat] :
          /\ TotalMoved(z) < TotalMoved(x) /\ Way(z) <= Way(x)
          /\ \A s \in Station : /\ Outflow(z, s) <= Outflow(x, s)
                                /\ Outflow(z, s) - Inflow(z, s) = Outflow(x, s) - Inflow(x, s)
  <2>1. PICK z \in [Pair -> Nat] :
          /\ TotalMoved(z) < TotalMoved(x) /\ Way(z) <= Way(x)
          /\ \A s \in Station : /\ Outflow(z, s) <= Outflow(x, s)
                                /\ Outflow(z, s) - Inflow(z, s) = Outflow(x, s) - Inflow(x, s)
    BY <1>9
  <2>2. ASSUME NEW s \in Station
        PROVE  /\ FinalInventory(p, z)[s] = FinalInventory(p, x)[s]
               /\ Outflow(z, s) <= p.bikes[s]
    <3>1. PICK k \in Int, o \in Int, i \in Int, a \in Int, b \in Int :
            /\ k = p.bikes[s] /\ o = Outflow(x, s) /\ i = Inflow(x, s)
            /\ a = Outflow(z, s) /\ b = Inflow(z, s)
      <4>1. Outflow(x, s) \in Int /\ Inflow(x, s) \in Int
        BY <1>1, PlanNumbers
      <4>2. Outflow(z, s) \in Int /\ Inflow(z, s) \in Int
        BY PlanNumbers
      <4>3. p.bikes[s] \in Int
        BY GivenNumbers
      <4> QED
        BY <4>1, <4>2, <4>3
    <3>2. a <= o /\ a - b = o - i /\ o <= k
      BY <1>1, <2>1, <3>1
    <3>3. FinalInventory(p, z)[s] = k - a + b /\ FinalInventory(p, x)[s] = k - o + i
      BY <3>1 DEF FinalInventory
    <3> QED
      BY <3>1, <3>2, <3>3
  <2>3. FinalInventory(p, z) = FinalInventory(p, x)
    BY <2>2 DEF FinalInventory
  <2>4. TotalMoved(z) <= p.vehicle
    <3>1. PICK a \in Int, b \in Int, c \in Int :
            a = TotalMoved(z) /\ b = TotalMoved(x) /\ c = p.vehicle
      BY <1>1, <1>2, GivenNumbers, PlanNumbers
    <3> QED
      BY <1>1, <2>1, <3>1
  <2>5. z \in Plans(p)
    BY <1>1, <2>2, <2>3, <2>4 DEF Plans, Feasible
  <2>6. PlanCost(p, z) <= PlanCost(p, x)
    BY <1>1, <2>1, <2>3, ShorterIsCheaper
  <2> QED
    BY <2>1, <2>3, <2>5, <2>6
<1>10. PICK tx \in Int, tw \in Int, tv \in Int, wx \in Int, ww \in Int, wv \in Int,
            de \in Nat, df \in Nat :
         /\ tx = TotalMoved(x) /\ tw = TotalMoved(w) /\ tv = TotalMoved(v)
         /\ wx = Way(x) /\ ww = Way(w) /\ wv = Way(v)
         /\ de = Distance[e] /\ df = Distance[f]
  <2>1. TotalMoved(x) \in Int /\ TotalMoved(w) \in Int /\ TotalMoved(v) \in Int
    BY <1>1, <1>4, <1>6, PlanNumbers
  <2>2. Distance[e] \in Nat /\ Distance[f] \in Nat
    BY NetworkAssumption
  <2>3. Way(v) \in Int /\ Way(w) \in Int /\ Way(x) \in Int
    BY <1>6, <2>2
  <2> QED
    BY <2>1, <2>2, <2>3
<1>11. tx = tv + 2 /\ wx = wv + df + de
  BY <1>6, <1>10
<1>12. ASSUME NEW s \in Station
       PROVE  /\ Outflow(v, s) \in Nat /\ Inflow(v, s) \in Nat
              /\ Outflow(x, s) = Outflow(v, s) + Unit(s, f[1]) + Unit(s, e[1])
              /\ Inflow(x, s) = Inflow(v, s) + Unit(s, f[2]) + Unit(s, f[1])
  <2>1. Outflow(v, s) \in Nat /\ Inflow(v, s) \in Nat
    BY <1>6, PlanNumbers
  <2> QED
    BY <1>7, <1>8, <2>1
<1>13. CASE e[1] = f[2]
  <2>1. TotalMoved(v) < TotalMoved(x) /\ Way(v) <= Way(x)
    BY <1>10, <1>11
  <2>2. ASSUME NEW s \in Station
        PROVE  /\ Outflow(v, s) <= Outflow(x, s)
               /\ Outflow(v, s) - Inflow(v, s) = Outflow(x, s) - Inflow(x, s)
    BY <1>12, <1>13 DEF Unit
  <2> QED
    BY <1>6, <2>1, <2>2
<1>14. CASE e[1] # f[2]
  <2>1. PICK g \in Pair : g[1] = e[1] /\ g[2] = f[2]
    <3>1. <<e[1], f[2]>> \in Pair
      BY <1>2, <1>14 DEF Pair
    <3> QED
      BY <3>1
  <2>2. PICK z : More(v, z, g, 1)
    BY <1>6, OneMore
  <2>3. /\ z \in [Pair -> Nat] /\ TotalMoved(z) = TotalMoved(v) + 1
        /\ Way(z) = Way(v) + Distance[g]
    BY <2>2, UnitMoves
  <2>4. TotalMoved(z) < TotalMoved(x)
    BY <1>10, <1>11, <2>3
  <2>5. Way(z) <= Way(x)
    <3>1. PICK dg \in Nat : dg = Distance[g]
      BY NetworkAssumption
    <3>2. dg <= de + df
      BY <1>10, <2>1, <3>1 DEF Metric
    <3> QED
      BY <1>10, <1>11, <2>3, <3>1, <3>2
  <2>6. ASSUME NEW s \in Station
        PROVE  /\ Outflow(z, s) <= Outflow(x, s)
               /\ Outflow(z, s) - Inflow(z, s) = Outflow(x, s) - Inflow(x, s)
    <3>1. /\ Outflow(z, s) = Outflow(v, s) + Unit(s, e[1])
          /\ Inflow(z, s) = Inflow(v, s) + Unit(s, f[2])
      BY <2>1, <2>2, UnitMoves
    <3> QED
      BY <1>12, <3>1 DEF Unit
  <2> QED
    BY <2>3, <2>4, <2>5, <2>6
<1> QED
  BY <1>13, <1>14

(* So every plan has one as cheap with the same final inventory in which   *)
(* no station both gives and takes.                                        *)
LEMMA DirectPlan ==
  ASSUME Metric, NEW p \in ProblemsWithin(Capacity), NEW x \in Plans(p)
  PROVE  \E y \in Plans(p) : /\ FinalInventory(p, y) = FinalInventory(p, x)
                             /\ PlanCost(p, y) <= PlanCost(p, x)
                             /\ \A s \in Station : Outflow(y, s) = 0 \/ Inflow(y, s) = 0
<1>1. PICK Y : Y = {z \in Plans(p) : /\ FinalInventory(p, z) = FinalInventory(p, x)
                                     /\ PlanCost(p, z) <= PlanCost(p, x)}
  OBVIOUS
<1>2. PICK T : T = {TotalMoved(z) : z \in Y}
  OBVIOUS
<1>3. Y \subseteq Plans(p) /\ \A z \in Plans(p) : z \in [Pair -> Nat]
  BY <1>1 DEF Plans
<1>4. x \in Y
  <2>1. PlanCost(p, x) \in Nat
    BY <1>3, PlanCostNumber
  <2>2. PlanCost(p, x) <= PlanCost(p, x)
    BY <2>1
  <2> QED
    BY <1>1, <2>2
<1>5. T \in SUBSET Nat /\ T # {}
  BY <1>2, <1>3, <1>4, PlanNumbers
<1>6. PICK m \in T : \A n \in T : m <= n
  BY <1>5, LeastNumber
<1>7. PICK y \in Y : m = TotalMoved(y)
  BY <1>2
<1>8. ASSUME NEW s \in Station, Outflow(y, s) # 0, Inflow(y, s) # 0
      PROVE  FALSE
  <2>1. y \in [Pair -> Nat] /\ y \in Plans(p)
    BY <1>3
  <2>2. PICK e \in Pair : e[2] = s /\ y[e] >= 1
    BY <1>8, <2>1, SomePair
  <2>3. PICK f \in Pair : f[1] = s /\ y[f] >= 1
    BY <1>8, <2>1, SomePair
  <2>4. PICK z \in Plans(p) : /\ FinalInventory(p, z) = FinalInventory(p, y)
                              /\ PlanCost(p, z) <= PlanCost(p, y)
                              /\ TotalMoved(z) < TotalMoved(y)
    BY <2>1, <2>2, <2>3, Shortcut
  <2>5. PlanCost(p, z) <= PlanCost(p, x)
    <3>1. PICK a \in Nat, b \in Nat, c \in Nat :
            a = PlanCost(p, z) /\ b = PlanCost(p, y) /\ c = PlanCost(p, x)
      BY <1>3, PlanCostNumber
    <3>2. a <= b /\ b <= c
      BY <1>1, <2>4, <3>1
    <3> QED
      BY <3>1, <3>2
  <2>6. z \in Y
    BY <1>1, <2>4, <2>5
  <2>7. TotalMoved(z) \in T
    BY <1>2, <2>6
  <2>8. PICK a \in Nat, b \in Nat : a = TotalMoved(z) /\ b = TotalMoved(y)
    BY <1>3, <2>1, PlanNumbers
  <2> QED
    BY <1>6, <1>7, <2>4, <2>7, <2>8
<1> QED
  BY <1>1, <1>3, <1>7, <1>8

-----------------------------------------------------------------------------
(* One bike more at a station saves a shortage or makes an overflow.       *)
LEMMA OneBike ==
  ASSUME NEW t \in Int, NEW v \in Int
  PROVE  /\ v < t => StationCost(t, v + 1) = StationCost(t, v) - ShortageCost
         /\ v >= t => StationCost(t, v + 1) = StationCost(t, v) + OverflowCost
<1>1. PICK c \in Nat, d \in Nat : c = ShortageCost /\ d = OverflowCost
  BY NetworkAssumption
<1>2. v + 1 \in Int /\ t - v \in Int /\ v - t \in Int /\ 1 \in Int
  OBVIOUS
<1>3. CASE v < t
  <2>1. /\ StationCost(t, v) = c * (t - v)
        /\ StationCost(t, v + 1) = c * (t - (v + 1))
    BY <1>1, <1>2, <1>3, StationCostCases
  <2>2. t - (v + 1) = (t - v) - 1
    OBVIOUS
  <2>3. c * ((t - v) - 1) = c * (t - v) - c * 1 /\ c * 1 = c
    BY <1>2, Prices
  <2> QED
    BY <1>1, <1>3, <2>1, <2>2, <2>3
<1>4. CASE v >= t
  <2>1. /\ StationCost(t, v) = d * (v - t)
        /\ StationCost(t, v + 1) = d * ((v + 1) - t)
    BY <1>1, <1>2, <1>4, StationCostCases
  <2>2. (v + 1) - t = (v - t) + 1
    OBVIOUS
  <2>3. d * ((v - t) + 1) = d * (v - t) + d * 1 /\ d * 1 = d
    BY <1>2, Prices
  <2> QED
    BY <1>1, <1>4, <2>1, <2>2, <2>3
<1> QED
  BY <1>3, <1>4

(* A bike that is brought back from s to r: what that adds to the          *)
(* imbalance shows at the two stations alone.                              *)
LEMMA BikeBack ==
  ASSUME NEW p \in ProblemsWithin(Capacity), NEW b, NEW c,
         NEW r \in Station, NEW s \in Station, r # s,
         \A i \in Station : b[i] \in Int /\ c[i] \in Int,
         c[r] = b[r] + 1, b[s] = c[s] + 1,
         \A i \in Station : i # r /\ i # s => c[i] = b[i],
         b[r] < p.target[r] \/ b[s] > p.target[s]
  PROVE  ImbalanceCost(p, c) <= ImbalanceCost(p, b)
<1>1. PICK f, h : /\ f = [i \in Station |-> StationCost(p.target[i], b[i])]
                  /\ h = [i \in Station |-> StationCost(p.target[i], c[i])]
  OBVIOUS
<1>2. ASSUME NEW i \in Station PROVE f[i] \in Int /\ h[i] \in Int
  <2>1. p.target[i] \in Int /\ b[i] \in Int /\ c[i] \in Int
    BY GivenNumbers
  <2>2. StationCost(p.target[i], b[i]) \in Nat /\ StationCost(p.target[i], c[i]) \in Nat
    BY <2>1, StationCostCases
  <2> QED
    BY <1>1, <2>2
<1>3. PICK g : g = [f EXCEPT ![r] = h[r]]
  OBVIOUS
<1>4. /\ g[r] = h[r] /\ \A i \in Station \ {r} : g[i] = f[i]
      /\ \A i \in Station : g[i] \in Int
      /\ \A i \in Station \ {s} : h[i] = g[i]
  <2>1. \A i \in Station : i # r /\ i # s => h[i] = f[i]
    BY <1>1
  <2>2. f = [i \in Station |-> f[i]]
    BY <1>1
  <2>3. g[r] = h[r] /\ \A i \in Station \ {r} : g[i] = f[i]
    BY <1>3, <2>2
  <2>4. \A i \in Station : g[i] \in Int
    BY <1>2, <2>3
  <2>5. \A i \in Station \ {s} : h[i] = g[i]
    <3>1. ASSUME NEW i \in Station, i # s PROVE h[i] = g[i]
      BY <2>1, <2>3, <3>1
    <3> QED
      BY <3>1
  <2> QED
    BY <2>3, <2>4, <2>5
<1>5. PICK k \in Int, m \in Int : k = h[r] - f[r] /\ m = h[s] - f[s]
  BY <1>2
<1>6. SumFunctionOnSet(g, Station) = SumFunctionOnSet(f, Station) + k
  <2>1. g[r] = f[r] + k
    <3>1. h[r] = f[r] + k
      BY <1>2, <1>5
    <3> QED
      BY <1>4, <3>1
  <2>2. IsFiniteSet(Station) /\ \A i \in Station : f[i] \in Int
    BY <1>2, NetworkFinite
  <2>3. \A i \in Station \ {r} : g[i] = f[i]
    BY <1>4
  <2> QED
    BY <2>1, <2>2, <2>3, SumChanged
<1>7. SumFunctionOnSet(h, Station) = SumFunctionOnSet(g, Station) + m
  <2>1. h[s] = g[s] + m
    <3>1. h[s] = f[s] + m
      BY <1>2, <1>5
    <3> QED
      BY <1>4, <3>1
  <2>2. IsFiniteSet(Station) /\ \A i \in Station : g[i] \in Int
    BY <1>4, NetworkFinite
  <2>3. \A i \in Station \ {s} : h[i] = g[i]
    BY <1>4
  <2> QED
    BY <2>1, <2>2, <2>3, SumChanged
<1>8. k + m <= 0
  <2>1. PICK C \in Nat, D \in Nat : C = ShortageCost /\ D = OverflowCost
    BY NetworkAssumption
  <2>2. PICK tr \in Int, ts \in Int, br \in Int, cs \in Int :
          tr = p.target[r] /\ ts = p.target[s] /\ br = b[r] /\ cs = c[s]
    BY GivenNumbers
  <2>3. /\ br < tr => StationCost(tr, br + 1) = StationCost(tr, br) - C
        /\ br >= tr => StationCost(tr, br + 1) = StationCost(tr, br) + D
    BY <2>1, OneBike
  <2>4. /\ cs < ts => StationCost(ts, cs + 1) = StationCost(ts, cs) - C
        /\ cs >= ts => StationCost(ts, cs + 1) = StationCost(ts, cs) + D
    BY <2>1, OneBike
  <2>5. /\ f[r] = StationCost(tr, br) /\ h[r] = StationCost(tr, br + 1)
        /\ f[s] = StationCost(ts, cs + 1) /\ h[s] = StationCost(ts, cs)
    BY <1>1, <2>2
  <2>6. PICK fr \in Int, hr \in Int, fs \in Int, hs \in Int :
          fr = f[r] /\ hr = h[r] /\ fs = f[s] /\ hs = h[s]
    BY <1>2
  <2>7. (br < tr => k = -C) /\ (br >= tr => k = D)
    BY <1>5, <2>3, <2>5, <2>6
  <2>8. (cs < ts => m = C) /\ (cs >= ts => m = -D)
    BY <1>5, <2>4, <2>5, <2>6
  <2>9. br < tr \/ cs + 1 > ts
    BY <2>2
  <2> QED
    BY <2>7, <2>8, <2>9
<1>9. /\ ImbalanceCost(p, b) = SumFunctionOnSet(f, Station)
      /\ ImbalanceCost(p, c) = SumFunctionOnSet(h, Station)
  BY <1>1, CostIsSum
<1>10. PICK n \in Int : n = ImbalanceCost(p, b)
  BY ImbalanceNumber
<1> QED
  BY <1>6, <1>7, <1>8, <1>9, <1>10

(* A bike that was taken from below a target, or brought above one, is     *)
(* cheaper left where it was.                                              *)
LEMMA StayBack ==
  ASSUME Metric, NEW p \in ProblemsWithin(Capacity), NEW y \in Plans(p),
         \A s \in Station : Outflow(y, s) = 0 \/ Inflow(y, s) = 0,
         NEW e \in Pair, y[e] >= 1,
         \/ FinalInventory(p, y)[e[1]] < p.target[e[1]]
         \/ FinalInventory(p, y)[e[2]] > p.target[e[2]]
  PROVE  \E z \in Plans(p) : PlanCost(p, z) < PlanCost(p, y)
<1>1. /\ y \in [Pair -> Nat] /\ TotalMoved(y) <= p.vehicle
      /\ \A s \in Station : /\ Outflow(y, s) <= p.bikes[s]
                            /\ FinalInventory(p, y)[s] \in 0..p.capacity[s]
  BY DEF Plans, Feasible
<1>2. PICK r \in Station, s \in Station : r = e[1] /\ s = e[2] /\ r # s
  BY NetworkFinite
<1>3. PICK z : More(z, y, e, 1)
  BY <1>1, OneLess
<1>4. /\ z \in [Pair -> Nat] /\ TotalMoved(y) = TotalMoved(z) + 1
      /\ Way(y) = Way(z) + Distance[e] /\ Way(z) \in Int
  BY <1>3, UnitMoves
<1>5. ASSUME NEW i \in Station
      PROVE  /\ Outflow(z, i) \in Nat /\ Inflow(z, i) \in Nat
             /\ Outflow(y, i) = Outflow(z, i) + Unit(i, r)
             /\ Inflow(y, i) = Inflow(z, i) + Unit(i, s)
  <2>1. Outflow(z, i) \in Nat /\ Inflow(z, i) \in Nat
    BY <1>4, PlanNumbers
  <2>2. /\ Outflow(y, i) = Outflow(z, i) + Unit(i, e[1])
        /\ Inflow(y, i) = Inflow(z, i) + Unit(i, e[2])
    BY <1>3, UnitMoves
  <2> QED
    BY <1>2, <2>1, <2>2
<1>6. PICK b, c : b = FinalInventory(p, y) /\ c = FinalInventory(p, z)
  OBVIOUS
<1>7. ASSUME NEW i \in Station
      PROVE  /\ b[i] = p.bikes[i] - Outflow(y, i) + Inflow(y, i) /\ b[i] \in Int
             /\ c[i] = p.bikes[i] - Outflow(z, i) + Inflow(z, i) /\ c[i] \in Int
  <2>1. b[i] = p.bikes[i] - Outflow(y, i) + Inflow(y, i) /\ b[i] \in Int
    BY <1>1, <1>6, FinalNumbers
  <2>2. c[i] = p.bikes[i] - Outflow(z, i) + Inflow(z, i) /\ c[i] \in Int
    BY <1>4, <1>6, FinalNumbers
  <2> QED
    BY <2>1, <2>2
<1>8. ASSUME NEW i \in Station
      PROVE  b[i] = c[i] - Unit(i, r) + Unit(i, s)
  <2>1. PICK k \in Int, o \in Int, n \in Int :
          k = p.bikes[i] /\ o = Outflow(z, i) /\ n = Inflow(z, i)
    BY <1>5, GivenNumbers
  <2>2. Unit(i, r) \in Int /\ Unit(i, s) \in Int
    BY DEF Unit
  <2>3. b[i] = k - (o + Unit(i, r)) + (n + Unit(i, s))
    BY <1>5, <1>7, <2>1
  <2> QED
    BY <1>7, <2>1, <2>2, <2>3
<1>9. /\ c[r] = b[r] + 1 /\ b[s] = c[s] + 1
      /\ \A i \in Station : i # r /\ i # s => c[i] = b[i]
  BY <1>2, <1>7, <1>8 DEF Unit
<1>10. ASSUME NEW i \in Station
       PROVE  Outflow(z, i) <= p.bikes[i] /\ c[i] \in 0..p.capacity[i]
  <2>1. PICK k \in Nat, C \in Nat, o \in Nat, n \in Nat :
          /\ k = p.bikes[i] /\ C = p.capacity[i] /\ k <= C
          /\ o = Outflow(z, i) /\ n = Inflow(z, i)
    BY <1>5, GivenNumbers, SolversAssumption
  <2>2. /\ o + Unit(i, r) <= k /\ k - (o + Unit(i, r)) + (n + Unit(i, s)) \in 0..C
        /\ o + Unit(i, r) = 0 \/ n + Unit(i, s) = 0
    BY <1>1, <1>5, <1>6, <1>7, <2>1
  <2>3. c[i] = k - o + n
    BY <1>7, <2>1
  <2>4. o <= k
    BY <2>1, <2>2 DEF Unit
  <2>5. k - o + n \in 0..C
    BY <1>2, <2>1, <2>2 DEF Unit
  <2> QED
    BY <2>1, <2>3, <2>4, <2>5
<1>11. z \in Plans(p)
  <2>1. TotalMoved(z) <= p.vehicle
    <3>1. PICK a \in Int, v \in Int : a = TotalMoved(z) /\ v = p.vehicle
      BY <1>2, <1>4, GivenNumbers, PlanNumbers
    <3> QED
      BY <1>1, <1>4, <3>1
  <2> QED
    BY <1>4, <1>6, <1>10, <2>1 DEF Plans, Feasible
<1>12. ImbalanceCost(p, c) <= ImbalanceCost(p, b)
  <2>1. b[r] < p.target[r] \/ b[s] > p.target[s]
    BY <1>2, <1>6
  <2>2. \A i \in Station : b[i] \in Int /\ c[i] \in Int
    BY <1>7
  <2> QED
    BY <1>2, <1>9, <2>1, <2>2, BikeBack
<1>13. PICK i \in Int, j \in Int, w \in Int, d \in Nat, q \in Nat :
         /\ i = ImbalanceCost(p, b) /\ j = ImbalanceCost(p, c)
         /\ w = Way(z) /\ d = Distance[e] /\ q = DistanceCost
  <2>1. ImbalanceCost(p, b) \in Int /\ ImbalanceCost(p, c) \in Int
    BY <1>7, ImbalanceNumber
  <2> QED
    BY <1>4, <2>1, NetworkAssumption
<1>14. d >= 1 /\ q >= 1
  BY <1>13 DEF Metric
<1>15. q * (w + d) = q * w + q * d /\ q * d >= 1
  <2>1. q * (w + d) = q * w + q * d
    BY Prices
  <2>2. PICK h \in Nat : d = h + 1
    <3>1. d - 1 \in Nat /\ d = (d - 1) + 1
      BY <1>14
    <3> QED
      BY <3>1
  <2>3. q * (h + 1) = q * h + q
    OBVIOUS
  <2>4. PICK m \in Nat : m = q * h
    OBVIOUS
  <2> QED
    BY <1>14, <2>1, <2>2, <2>3, <2>4
<1>16. PICK m \in Int, n \in Int : m = q * w /\ n = q * d
  OBVIOUS
<1>17. PlanCost(p, z) = j + m /\ PlanCost(p, y) = i + (m + n)
  BY <1>4, <1>6, <1>13, <1>15, <1>16, CostOfWay
<1>18. PlanCost(p, z) < PlanCost(p, y)
  BY <1>12, <1>13, <1>15, <1>16, <1>17
<1> QED
  BY <1>11, <1>18

-----------------------------------------------------------------------------
(* Station s ends with a number of bikes between what it had and its       *)
(* target.                                                                 *)
EndsToward(p, final, s) ==
  \/ p.bikes[s] <= final[s] /\ final[s] <= p.target[s]
  \/ p.target[s] <= final[s] /\ final[s] <= p.bikes[s]

(* A cheapest plan in which no station both gives and takes leads every    *)
(* station toward its target, along the edges enumeration.py keeps.        *)
LEMMA BestDirectPlan ==
  ASSUME Metric, NEW p \in ProblemsWithin(Capacity), NEW y \in Plans(p),
         \A s \in Station : Outflow(y, s) = 0 \/ Inflow(y, s) = 0,
         \A z \in Plans(p) : PlanCost(p, y) <= PlanCost(p, z)
  PROVE  /\ \A s \in Station : EndsToward(p, FinalInventory(p, y), s)
         /\ \A e \in Pair : y[e] <= EdgeCap(p, e)
<1>1. y \in [Pair -> Nat] /\ TotalMoved(y) <= p.vehicle
  BY DEF Plans, Feasible
<1>2. ASSUME NEW e \in Pair, y[e] >= 1
      PROVE  /\ FinalInventory(p, y)[e[1]] >= p.target[e[1]]
             /\ FinalInventory(p, y)[e[2]] <= p.target[e[2]]
  <2>1. e[1] \in Station /\ e[2] \in Station
    BY NetworkFinite
  <2>2. PICK a \in Int, b \in Int, t \in Int, u \in Int :
          /\ a = FinalInventory(p, y)[e[1]] /\ b = FinalInventory(p, y)[e[2]]
          /\ t = p.target[e[1]] /\ u = p.target[e[2]]
    BY <1>1, <2>1, FinalNumbers, GivenNumbers
  <2>3. ASSUME a < t \/ b > u PROVE FALSE
    <3>1. PICK z \in Plans(p) : PlanCost(p, z) < PlanCost(p, y)
      BY <1>2, <2>2, <2>3, StayBack
    <3>2. PICK m \in Nat, n \in Nat : m = PlanCost(p, z) /\ n = PlanCost(p, y)
      BY PlanCostNumber DEF Plans
    <3> QED
      BY <3>1, <3>2
  <2> QED
    BY <2>2, <2>3
<1>3. ASSUME NEW s \in Station
      PROVE  EndsToward(p, FinalInventory(p, y), s)
  <2>1. PICK k \in Int, t \in Int, o \in Nat, i \in Nat :
          /\ k = p.bikes[s] /\ t = p.target[s]
          /\ o = Outflow(y, s) /\ i = Inflow(y, s)
    BY <1>1, GivenNumbers, PlanNumbers
  <2>2. FinalInventory(p, y)[s] = k - o + i
    BY <2>1 DEF FinalInventory
  <2>3. o # 0 => k - o + i >= t
    <3>1. SUFFICES ASSUME o # 0 PROVE k - o + i >= t
      OBVIOUS
    <3>2. PICK e \in Pair : e[1] = s /\ y[e] >= 1
      BY <1>1, <2>1, <3>1, SomePair
    <3> QED
      BY <1>2, <2>1, <2>2, <3>2
  <2>4. i # 0 => k - o + i <= t
    <3>1. SUFFICES ASSUME i # 0 PROVE k - o + i <= t
      OBVIOUS
    <3>2. PICK e \in Pair : e[2] = s /\ y[e] >= 1
      BY <1>1, <2>1, <3>1, SomePair
    <3> QED
      BY <1>2, <2>1, <2>2, <3>2
  <2>5. o = 0 \/ i = 0
    BY <2>1
  <2>6. \/ k <= k - o + i /\ k - o + i <= t
        \/ t <= k - o + i /\ k - o + i <= k
    BY <2>3, <2>4, <2>5
  <2> QED
    BY <2>1, <2>2, <2>6 DEF EndsToward
<1>4. ASSUME NEW e \in Pair
      PROVE  y[e] <= EdgeCap(p, e)
  <2>1. e[1] \in Station /\ e[2] \in Station
    BY NetworkFinite
  <2>2. PICK c \in Nat, o \in Nat, i \in Nat, oo \in Nat, ii \in Nat, m \in Nat :
          /\ c = y[e] /\ o = Outflow(y, e[1]) /\ i = Inflow(y, e[1])
          /\ oo = Outflow(y, e[2]) /\ ii = Inflow(y, e[2]) /\ m = TotalMoved(y)
    BY <1>1, <2>1, PlanNumbers
  <2>3. PICK k \in Int, t \in Int, l \in Int, u \in Int, v \in Nat :
          /\ k = p.bikes[e[1]] /\ t = p.target[e[1]]
          /\ l = p.bikes[e[2]] /\ u = p.target[e[2]] /\ v = p.vehicle
    BY <2>1, GivenNumbers
  <2>4. c <= m /\ c <= o /\ c <= ii /\ m <= v
    <3>1. c <= m /\ c <= o /\ c <= ii
      BY <1>1, <2>2, PairCarries
    <3> QED
      BY <1>1, <2>2, <2>3, <3>1
  <2>5. EdgeCap(p, e) = Least(v, Least(PositivePart(k - t), PositivePart(u - l)))
    BY <2>3 DEF EdgeCap, Surplus, Deficit
  <2>6. c >= 1 => c <= k - t /\ c <= u - l
    <3>1. SUFFICES ASSUME c >= 1 PROVE c <= k - t /\ c <= u - l
      OBVIOUS
    <3>2. /\ FinalInventory(p, y)[e[1]] = k - o + i
          /\ FinalInventory(p, y)[e[2]] = l - oo + ii
      BY <2>1, <2>2, <2>3 DEF FinalInventory
    <3>3. k - o + i >= t /\ l - oo + ii <= u
      BY <1>2, <2>2, <2>3, <3>1, <3>2
    <3>4. (o = 0 \/ i = 0) /\ (oo = 0 \/ ii = 0)
      BY <2>1, <2>2
    <3> QED
      BY <2>4, <3>1, <3>3, <3>4
  <2>7. c <= Least(v, Least(PositivePart(k - t), PositivePart(u - l)))
    BY <2>4, <2>6 DEF Least, PositivePart
  <2> QED
    BY <2>2, <2>5, <2>7
<1> QED
  BY <1>3, <1>4

(* A cheapest plan leads every station toward its target: there is a       *)
(* direct one with the same final inventory.                               *)
LEMMA BestPlanToward ==
  ASSUME Metric, NEW p \in ProblemsWithin(Capacity), NEW x \in MilpPlans(p)
  PROVE  /\ x \in Plans(p)
         /\ \A s \in Station : EndsToward(p, FinalInventory(p, x), s)
         /\ \E y \in MilpPlans(p) : \A e \in Pair : y[e] <= EdgeCap(p, e)
<1>1. x \in Plans(p) /\ \A z \in Plans(p) : PlanCost(p, x) <= PlanCost(p, z)
  BY MilpIsBest
<1>2. PICK y \in Plans(p) : /\ FinalInventory(p, y) = FinalInventory(p, x)
                            /\ PlanCost(p, y) <= PlanCost(p, x)
                            /\ \A s \in Station : Outflow(y, s) = 0 \/ Inflow(y, s) = 0
  BY <1>1, DirectPlan
<1>3. \A z \in Plans(p) : PlanCost(p, z) \in Nat
  BY PlanCostNumber DEF Plans
<1>4. ASSUME NEW z \in Plans(p) PROVE PlanCost(p, y) <= PlanCost(p, z)
  <2>1. PICK a \in Nat, b \in Nat, c \in Nat :
          a = PlanCost(p, y) /\ b = PlanCost(p, x) /\ c = PlanCost(p, z)
    BY <1>1, <1>2, <1>3
  <2>2. a <= b /\ b <= c
    BY <1>1, <1>2, <2>1
  <2> QED
    BY <2>1, <2>2
<1>5. /\ \A s \in Station : EndsToward(p, FinalInventory(p, y), s)
      /\ \A e \in Pair : y[e] <= EdgeCap(p, e)
  BY <1>2, <1>4, BestDirectPlan
<1>6. y \in MilpPlans(p)
  BY <1>2, <1>4, MilpIsBest
<1> QED
  BY <1>1, <1>2, <1>5, <1>6

(* The optimum is preserved: what the enumeration answers is one of the    *)
(* MILP's optima.                                                          *)
LEMMA ExactIsBest ==
  ASSUME Metric, NEW p \in ProblemsWithin(Capacity)
  PROVE  ExactPlans(p) \subseteq MilpPlans(p)
<1> DEFINE feasible == {x \in Flow : /\ \A e \in Pair : x[e] <= EdgeCap(p, e)
                                     /\ Feasible(p, x)}
           costs == {PlanCost(p, x) : x \in feasible}
<1>1. feasible \subseteq Plans(p)
  BY NetworkAssumption DEF Flow, Plans
<1>2. PICK y \in MilpPlans(p) : \A e \in Pair : y[e] <= EdgeCap(p, e)
  <2>1. PICK x : x \in MilpPlans(p)
    BY MilpIsBest
  <2> QED
    BY <2>1, BestPlanToward
<1>3. y \in Plans(p) /\ \A z \in Plans(p) : PlanCost(p, y) <= PlanCost(p, z)
  BY MilpIsBest
<1>4. y \in feasible
  BY <1>2, <1>3, WithinBounds DEF Plans
<1>5. ExactPlans(p) = {x \in feasible : PlanCost(p, x) = Min(costs)}
  BY DEF ExactPlans
<1> HIDE DEF feasible
<1>6. costs \in SUBSET Nat /\ costs # {}
  BY <1>1, <1>4, PlanCostNumber DEF Plans
<1>7. Min(costs) \in costs /\ \A n \in costs : Min(costs) <= n
  BY <1>6, MinIsLeast
<1>8. PlanCost(p, y) \in costs
  BY <1>4
<1>9. ASSUME NEW x \in ExactPlans(p) PROVE x \in MilpPlans(p)
  <2>1. x \in Plans(p) /\ PlanCost(p, x) <= PlanCost(p, y)
    BY <1>1, <1>5, <1>7, <1>8
  <2>2. ASSUME NEW z \in Plans(p) PROVE PlanCost(p, x) <= PlanCost(p, z)
    <3>1. PICK a \in Nat, b \in Nat, c \in Nat :
            a = PlanCost(p, x) /\ b = PlanCost(p, y) /\ c = PlanCost(p, z)
      BY <1>3, <2>1, PlanCostNumber DEF Plans
    <3>2. a <= b /\ b <= c
      BY <1>3, <2>1, <3>1
    <3> QED
      BY <3>1, <3>2
  <2> QED
    BY <2>1, <2>2, MilpIsBest
<1> QED
  BY <1>9

-----------------------------------------------------------------------------
(* A solved MILP request, or period, holds a cheapest plan.                *)
OptimalInv ==
  task = "milp" /\ status = "solved" => moved \in MilpPlans(problem)

LEMMA InitOptimalInv == ControlInit => OptimalInv
BY DEF ControlInit, Init, OptimalInv

LEMMA ControlKeepsOptima ==
  ASSUME Metric
  PROVE  PlanInv /\ OptimalInv /\ [ControlNext]_<<vars, controlVars>> => OptimalInv'
<1> SUFFICES ASSUME PlanInv, OptimalInv, [ControlNext]_<<vars, controlVars>>
             PROVE  OptimalInv'
  OBVIOUS
<1>1. problem \in ProblemsWithin(Capacity)
  BY DEF PlanInv, ProblemInv
<1>2. CASE Solve
  <2>1. CASE \E x \in MilpPlans(problem) \cup ExactPlans(problem) : Answer(x)
    <3>1. PICK x \in MilpPlans(problem) \cup ExactPlans(problem) : Answer(x)
      BY <2>1
    <3>2. x \in MilpPlans(problem)
      BY <1>1, ExactIsBest
    <3> QED
      BY <3>1, <3>2 DEF Answer, OptimalInv
  <2>2. CASE MilpFails /\ status' = "refused"
    BY <2>2 DEF OptimalInv
  <2>3. CASE GreedyStop \/ SolveQubo \/ HoldBack \/ (\E s \in Station : Place(s))
               \/ (\E e \in Pair : GreedyMove(e))
    <3>1. task # "milp" /\ task' = task
      BY <2>3 DEF GreedyStop, SolveQubo, HoldBack, Place, GreedyMove, Answer
    <3> QED
      BY <3>1 DEF OptimalInv
  <2> QED
    BY <1>2, <2>1, <2>2, <2>3 DEF Solve, Next, Milp, MilpFails
<1>3. CASE \E target \in TargetsOf(Policy) : Decide(target)
  BY <1>3 DEF Decide, Given, OptimalInv
<1>4. CASE Stay \/ Realize \/ EndPolicy \/ UNCHANGED <<vars, controlVars>>
  BY <1>4 DEF Stay, Realize, EndPolicy, vars, OptimalInv
<1>5. CASE Apply
  BY <1>5 DEF Apply, Given, OptimalInv
<1> QED
  BY <1>2, <1>3, <1>4, <1>5 DEF ControlNext

(* enumeration.py: an optimal plan never drains an origin below its target *)
(* nor pushes a destination above it, so leaving the other edges out       *)
(* preserves the optimum.  With priced distances that obey the triangle    *)
(* inequality, both exact solvers answer plans of the same least cost.     *)
THEOREM OptimaAgree ==
  ASSUME Metric
  PROVE  ControlSpec => []OptimumKept
<1>1. ControlInit => StockInv /\ PlanInv /\ OptimalInv
  BY InitStockInv, InitPlanInv, InitOptimalInv
<1>2. StockInv /\ PlanInv /\ OptimalInv /\ [ControlNext]_<<vars, controlVars>> =>
        (StockInv /\ PlanInv /\ OptimalInv)'
  BY ControlNextKeeps, ControlKeepsPlans, ControlKeepsOptima
<1>3. PlanInv /\ OptimalInv => OptimumKept
  <2> SUFFICES ASSUME PlanInv, OptimalInv, task = "milp", status = "solved"
               PROVE  /\ \A s \in Station : TowardTarget(s)
                      /\ \A x \in MilpPlans(problem) :
                           PlanCost(problem, x) = PlanCost(problem, moved)
    BY DEF OptimumKept
  <2>1. /\ problem \in ProblemsWithin(Capacity) /\ moved \in MilpPlans(problem)
        /\ bikes = FinalInventory(problem, moved)
    BY DEF PlanInv, ProblemInv, PlanSound, OptimalInv
  <2>2. \A s \in Station : TowardTarget(s)
    BY <2>1, BestPlanToward DEF EndsToward, TowardTarget
  <2>3. ASSUME NEW x \in MilpPlans(problem)
        PROVE  PlanCost(problem, x) = PlanCost(problem, moved)
    <3>1. x \in Plans(problem) /\ moved \in Plans(problem)
      BY <2>1, MilpIsBest
    <3>2. /\ PlanCost(problem, x) <= PlanCost(problem, moved)
          /\ PlanCost(problem, moved) <= PlanCost(problem, x)
      BY <2>1, <3>1, MilpIsBest
    <3>3. PlanCost(problem, x) \in Nat /\ PlanCost(problem, moved) \in Nat
      BY <2>1, <3>1, PlanCostNumber DEF Plans
    <3> QED
      BY <3>2, <3>3
  <2> QED
    BY <2>2, <2>3
<1> QED
  BY <1>1, <1>2, <1>3, PTL DEF ControlSpec

-----------------------------------------------------------------------------
(* More about numbers and sums: for the encoding of the research track.    *)

(* What holds of a number if it holds of those below holds of all.         *)
LEMMA NumberInduction ==
  ASSUME NEW G, \A n \in Nat : (\A m \in Nat : m < n => m \in G) => n \in G
  PROVE  Nat \subseteq G
<1> SUFFICES ASSUME NEW k \in Nat, k \notin G PROVE FALSE
  OBVIOUS
<1>1. PICK S : S = {n \in Nat : n \notin G}
  OBVIOUS
<1>2. S \in SUBSET Nat /\ S # {}
  BY <1>1
<1>3. PICK m \in S : \A n \in S : m <= n
  BY <1>2, LeastNumber
<1>4. m \in Nat /\ m \notin G
  BY <1>1
<1>5. ASSUME NEW n \in Nat, n < m PROVE n \in G
  <2>1. ~(m <= n)
    BY <1>4, <1>5
  <2> QED
    BY <1>1, <1>3, <2>1
<1> QED
  BY <1>4, <1>5

(* The sum over two parts.                                                 *)
LEMMA SumUnion ==
  ASSUME NEW A, NEW B, IsFiniteSet(A), IsFiniteSet(B), A \cap B = {},
         NEW f, \A s \in A \cup B : f[s] \in Int
  PROVE  SumFunctionOnSet(f, A \cup B) = SumFunctionOnSet(f, A) + SumFunctionOnSet(f, B)
<1> DEFINE G == {s \in SUBSET B : SumFunctionOnSet(f, A \cup s)
                                    = SumFunctionOnSet(f, A) + SumFunctionOnSet(f, s)}
<1>1. ASSUME NEW s \in SUBSET B, \A x \in s : s \ {x} \in G PROVE s \in G
  <2>1. IsFiniteSet(s) /\ IsFiniteSet(A \cup s)
    BY FS_Subset, FS_Union
  <2>2. PICK n \in Int : n = SumFunctionOnSet(f, A)
    <3>1. \A x \in A : f[x] \in Int
      OBVIOUS
    <3> QED
      BY <3>1, SumInt
  <2>3. CASE s = {}
    <3>1. SumFunctionOnSet(f, s) = 0 /\ A \cup s = A
      BY <2>1, <2>3, SumStep
    <3>2. SumFunctionOnSet(f, A \cup s) = SumFunctionOnSet(f, A) + SumFunctionOnSet(f, s)
      BY <2>2, <3>1
    <3> QED
      BY <3>2
  <2>4. CASE s # {}
    <3>1. PICK a \in s : TRUE
      BY <2>4
    <3>2. PICK r : r = s \ {a} /\ IsFiniteSet(r)
      BY <2>1, FS_Subset
    <3>3. (A \cup s) \ {a} = A \cup r /\ a \in A \cup s
      BY <3>2
    <3>4. /\ \A x \in A \cup s : f[x] \in Int
          /\ \A x \in s : f[x] \in Int
          /\ \A x \in r : f[x] \in Int
      BY <3>2
    <3>5. SumFunctionOnSet(f, A \cup s) = f[a] + SumFunctionOnSet(f, A \cup r)
      BY <2>1, <3>3, <3>4, SumPick
    <3>6. SumFunctionOnSet(f, s) = f[a] + SumFunctionOnSet(f, r)
      BY <2>1, <3>2, <3>4, SumPick
    <3>7. SumFunctionOnSet(f, A \cup r) = n + SumFunctionOnSet(f, r)
      BY <1>1, <2>2, <3>2
    <3>8. PICK d \in Int, k \in Int : d = f[a] /\ k = SumFunctionOnSet(f, r)
      BY <3>2, <3>4, SumInt
    <3>9. d + (n + k) = n + (d + k)
      OBVIOUS
    <3>10. SumFunctionOnSet(f, A \cup s) = n + SumFunctionOnSet(f, s)
      BY <3>5, <3>6, <3>7, <3>8, <3>9
    <3> QED
      BY <2>2, <3>10
  <2> QED
    BY <2>3, <2>4
<1>2. B \in G
  <2> HIDE DEF G
  <2> QED
    BY <1>1, FiniteInduction
<1> QED
  BY <1>2

(* The sum over other names of the elements.                               *)
Renamed(h, S) == {h[a] : a \in S}

LEMMA SumReindexed ==
  ASSUME NEW S, IsFiniteSet(S), NEW h, \A a, b \in S : h[a] = h[b] => a = b,
         NEW f, NEW g, \A a \in S : g[a] \in Int /\ f[h[a]] = g[a]
  PROVE  /\ IsFiniteSet(Renamed(h, S))
         /\ SumFunctionOnSet(f, Renamed(h, S)) = SumFunctionOnSet(g, S)
<1> DEFINE Image(s) == {h[a] : a \in s}
           G == {s \in SUBSET S : /\ IsFiniteSet(Image(s))
                                  /\ SumFunctionOnSet(f, Image(s)) = SumFunctionOnSet(g, s)}
<1>1. ASSUME NEW s \in SUBSET S, \A x \in s : s \ {x} \in G PROVE s \in G
  <2>1. IsFiniteSet(s)
    BY FS_Subset
  <2>2. CASE s = {}
    <3>1. Image(s) = {} /\ IsFiniteSet({})
      BY <2>2, FS_EmptySet
    <3>2. SumFunctionOnSet(f, {}) = 0 /\ SumFunctionOnSet(g, s) = 0
      BY <2>1, <2>2, <3>1, SumStep
    <3> QED
      BY <3>1, <3>2
  <2>3. CASE s # {}
    <3>1. PICK a \in s : TRUE
      BY <2>3
    <3>2. PICK r, R, U : r = s \ {a} /\ R = Image(r) /\ U = Image(s)
      OBVIOUS
    <3>3. h[a] \notin R /\ U = R \cup {h[a]} /\ U \ {h[a]} = R /\ h[a] \in U
      <4>1. h[a] \notin R
        BY <3>2
      <4>2. U = R \cup {h[a]}
        BY <3>2
      <4> QED
        BY <4>1, <4>2
    <3>4. r \in G
      BY <1>1, <3>2
    <3>5. IsFiniteSet(R) /\ SumFunctionOnSet(f, R) = SumFunctionOnSet(g, r)
      BY <3>2, <3>4
    <3>6. IsFiniteSet(U)
      BY <3>3, <3>5, FS_AddElement
    <3>7. \A x \in U : f[x] \in Int
      BY <3>2
    <3>8. SumFunctionOnSet(f, U) = f[h[a]] + SumFunctionOnSet(f, R)
      BY <3>3, <3>6, <3>7, SumPick
    <3>9. SumFunctionOnSet(g, s) = g[a] + SumFunctionOnSet(g, r)
      <4>1. \A x \in s : g[x] \in Int
        OBVIOUS
      <4> QED
        BY <2>1, <3>2, <4>1, SumPick
    <3>10. f[h[a]] = g[a]
      OBVIOUS
    <3>11. SumFunctionOnSet(f, U) = SumFunctionOnSet(g, s)
      BY <3>5, <3>8, <3>9, <3>10
    <3> QED
      BY <3>2, <3>6, <3>11
  <2> QED
    BY <2>2, <2>3
<1>2. S \in G
  <2> HIDE DEF G
  <2> QED
    BY <1>1, FiniteInduction
<1> QED
  BY <1>2 DEF Renamed

(* Rows or columns first.                                                  *)
Column(f, S, t) == [s \in S |-> f[s][t]]

LEMMA SumSwap ==
  ASSUME NEW S, NEW T, IsFiniteSet(S), IsFiniteSet(T),
         NEW f, \A s \in S, t \in T : f[s][t] \in Int,
         NEW r, \A s \in S : r[s] = SumFunctionOnSet(f[s], T),
         NEW c, \A t \in T : c[t] = SumFunctionOnSet(Column(f, S, t), S)
  PROVE  SumFunctionOnSet(r, S) = SumFunctionOnSet(c, T)
<1> DEFINE Columns(U) == [t \in T |-> SumFunctionOnSet(Column(f, S, t), U)]
           G == {U \in SUBSET S : SumFunctionOnSet(r, U) = SumFunctionOnSet(Columns(U), T)}
<1>0. \A s \in S : r[s] \in Int
  <2>1. ASSUME NEW s \in S PROVE SumFunctionOnSet(f[s], T) \in Int
    <3>1. \A t \in T : f[s][t] \in Int
      OBVIOUS
    <3> QED
      BY <3>1, SumInt
  <2> QED
    BY <2>1
<1>1. ASSUME NEW U \in SUBSET S, \A x \in U : U \ {x} \in G PROVE U \in G
  <2>1. IsFiniteSet(U)
    BY FS_Subset
  <2>2. ASSUME NEW V \in SUBSET S
        PROVE  \A t \in T : Columns(V)[t] \in Int
    <3>1. ASSUME NEW t \in T PROVE SumFunctionOnSet(Column(f, S, t), V) \in Int
      <4>1. IsFiniteSet(V) /\ \A s \in V : Column(f, S, t)[s] \in Int
        BY FS_Subset DEF Column
      <4> QED
        BY <4>1, SumInt
    <3> QED
      BY <3>1
  <2>3. CASE U = {}
    <3>1. SumFunctionOnSet(r, U) = 0
      BY <2>1, <2>3, SumStep
    <3>2. \A t \in T : Columns(U)[t] = 0
      BY <2>1, <2>3, SumStep
    <3>3. SumFunctionOnSet(Columns(U), T) = 0
      <4> HIDE DEF Columns
      <4> QED
        BY <3>2, SumZero
    <3> QED
      BY <3>1, <3>3
  <2>4. CASE U # {}
    <3>1. PICK a \in U : TRUE
      BY <2>4
    <3>2. PICK R \in SUBSET S : R = U \ {a} /\ IsFiniteSet(R)
      <4>1. U \ {a} \in SUBSET S
        OBVIOUS
      <4> QED
        BY <4>1, FS_Subset
    <3>3. SumFunctionOnSet(r, U) = r[a] + SumFunctionOnSet(r, R)
      <4>1. \A s \in U : r[s] \in Int
        BY <1>0
      <4> QED
        BY <2>1, <3>2, <4>1, SumPick
    <3>4. ASSUME NEW t \in T
          PROVE  Columns(U)[t] = f[a][t] + Columns(R)[t]
      <4>1. PICK k : k = Column(f, S, t)
        OBVIOUS
      <4>2. \A s \in U : k[s] \in Int
        BY <4>1 DEF Column
      <4>3. SumFunctionOnSet(k, U) = k[a] + SumFunctionOnSet(k, R)
        BY <2>1, <3>2, <4>2, SumPick
      <4> QED
        BY <4>1, <4>3 DEF Column
    <3>5. PICK u, w, z : u = Columns(U) /\ w = Columns(R) /\ z = f[a]
      OBVIOUS
    <3>6. \A t \in T : z[t] \in Int /\ w[t] \in Int /\ u[t] = z[t] + w[t]
      BY <2>2, <3>2, <3>4, <3>5
    <3>7. SumFunctionOnSet(u, T) = SumFunctionOnSet(z, T) + SumFunctionOnSet(w, T)
      BY <3>6, SumOfSum
    <3>8. r[a] = SumFunctionOnSet(z, T)
      BY <3>5
    <3>9. R \in G
      BY <1>1, <3>2
    <3>10. SumFunctionOnSet(r, R) = SumFunctionOnSet(w, T)
      BY <3>5, <3>9
    <3> QED
      BY <3>3, <3>5, <3>7, <3>8, <3>10
  <2> QED
    BY <2>3, <2>4
<1>2. S \in G
  <2> HIDE DEF G
  <2> QED
    BY <1>1, FiniteInduction
<1>3. \A t \in T : Columns(S)[t] = c[t]
  OBVIOUS
<1>4. SumFunctionOnSet(Columns(S), T) = SumFunctionOnSet(c, T)
  <2> HIDE DEF Columns
  <2> QED
    BY <1>3, SumSame
<1> QED
  BY <1>2, <1>4

-----------------------------------------------------------------------------
(* bounded_binary_weights                                                  *)

(* g holds the weights of what remains, for every power to begin with.     *)
Weighs(g, upper) ==
  g = [remaining \in 0..upper |->
        [power \in Nat \ {0} |->
           IF remaining = 0 THEN <<>>
           ELSE <<Least(power, remaining)>>
                  \o g[remaining - Least(power, remaining)][2 * power]]]

LEMMA WeightsStep ==
  ASSUME NEW u \in Nat, NEW g, Weighs(g, u), NEW r \in 0..u, NEW q \in Nat \ {0}
  PROVE  g[r][q] = IF r = 0 THEN <<>>
                   ELSE <<Least(q, r)>> \o g[r - Least(q, r)][2 * q]
<1>1. g[r] = [power \in Nat \ {0} |->
                IF r = 0 THEN <<>>
                ELSE <<Least(power, r)>> \o g[r - Least(power, r)][2 * power]]
  BY DEF Weighs
<1> QED
  BY <1>1

(* What is taken off is at least one and no more than remains.             *)
LEMMA Taken ==
  ASSUME NEW r \in Nat, r # 0, NEW q \in Nat \ {0}
  PROVE  /\ Least(q, r) \in Nat /\ Least(q, r) >= 1
         /\ Least(q, r) <= q /\ Least(q, r) <= r
         /\ r - Least(q, r) \in Nat /\ r - Least(q, r) < r /\ 2 * q \in Nat \ {0}
BY DEF Least

LEMMA WeighsExists ==
  ASSUME NEW u \in Nat
  PROVE  \E g : Weighs(g, u)
<1> DEFINE G == {n \in Nat : \E g : Weighs(g, n)}
<1>1. ASSUME NEW n \in Nat, \A m \in Nat : m < n => m \in G
      PROVE  n \in G
  <2>1. CASE n = 0
    <3> DEFINE g == [remaining \in 0..0 |-> [power \in Nat \ {0} |-> <<>>]]
    <3>1. g = [remaining \in 0..0 |->
                [power \in Nat \ {0} |->
                   IF remaining = 0 THEN <<>>
                   ELSE <<Least(power, remaining)>>
                          \o g[remaining - Least(power, remaining)][2 * power]]]
      <4>1. \A remaining \in 0..0 : remaining = 0
        OBVIOUS
      <4> QED
        BY <4>1
    <3>2. Weighs(g, 0)
      BY <3>1 DEF Weighs
    <3> QED
      BY <2>1, <3>2
  <2>2. CASE n # 0
    <3>1. PICK k \in Nat : n = k + 1
      <4>1. n - 1 \in Nat /\ n = (n - 1) + 1
        BY <2>2
      <4> QED
        BY <4>1
    <3>2. PICK h : Weighs(h, k)
      BY <1>1, <3>1
    <3>3. PICK top : top = [power \in Nat \ {0} |->
                             <<Least(power, n)>> \o h[n - Least(power, n)][2 * power]]
      OBVIOUS
    <3>4. PICK g : g = [remaining \in 0..n |-> IF remaining = n THEN top ELSE h[remaining]]
      OBVIOUS
    <3>5. /\ g[n] = top /\ \A remaining \in 0..k : g[remaining] = h[remaining]
          /\ \A remaining \in 0..n : remaining = n \/ remaining \in 0..k
      BY <3>1, <3>4
    <3>6. ASSUME NEW r \in 0..n
          PROVE  g[r] = [power \in Nat \ {0} |->
                          IF r = 0 THEN <<>>
                          ELSE <<Least(power, r)>> \o g[r - Least(power, r)][2 * power]]
      <4>1. r \in Nat
        OBVIOUS
      <4>2. \A power \in Nat \ {0} : r # 0 =>
              g[r - Least(power, r)] = h[r - Least(power, r)]
        <5>1. SUFFICES ASSUME NEW power \in Nat \ {0}, r # 0
                       PROVE  g[r - Least(power, r)] = h[r - Least(power, r)]
          OBVIOUS
        <5>2. PICK m \in Nat : m = r - Least(power, r) /\ m < r
          BY <4>1, <5>1, Taken
        <5>3. m \in 0..k
          BY <3>1, <5>2
        <5> QED
          BY <3>5, <5>2, <5>3
      <4>3. CASE r = n
        BY <2>2, <3>3, <3>5, <4>2, <4>3
      <4>4. CASE r \in 0..k
        <5>1. h[r] = [power \in Nat \ {0} |->
                        IF r = 0 THEN <<>>
                        ELSE <<Least(power, r)>> \o h[r - Least(power, r)][2 * power]]
          BY <3>2, <4>4 DEF Weighs
        <5> QED
          BY <3>5, <4>2, <4>4, <5>1
      <4> QED
        BY <3>5, <4>3, <4>4
    <3>7. g = [remaining \in 0..n |-> g[remaining]]
      BY <3>4
    <3>8. Weighs(g, n)
      BY <3>6, <3>7 DEF Weighs
    <3> QED
      BY <3>8
  <2> QED
    BY <2>1, <2>2
<1>2. Nat \subseteq G
  <2> HIDE DEF G
  <2> QED
    BY <1>1, NumberInduction
<1> QED
  BY <1>2

(* One weight before others: any bikes the others carry are carried by as  *)
(* many bits one place further, with or without the new one.               *)
Places(n) == 1..n

LEMMA PlacesFinite ==
  ASSUME NEW n \in Nat
  PROVE  IsFiniteSet(Places(n))
<1>1. 1 \in Int /\ n \in Int
  OBVIOUS
<1> QED
  BY <1>1, FS_Interval DEF Places

Shifted(w, z, n) ==
  w[1] \in Nat /\ \A k \in Places(n) : w[k + 1] = z[k] /\ z[k] \in Nat

(* L and M are what becomes of the bits K, without and with the new one.   *)
Moved(w, z, n, K, L, M) ==
  /\ L \in SUBSET Places(n + 1) /\ M \in SUBSET Places(n + 1)
  /\ K = Places(n) => M = Places(n + 1)
  /\ SumFunctionOnSet(w, L) = SumFunctionOnSet(z, K)
  /\ SumFunctionOnSet(w, M) = w[1] + SumFunctionOnSet(z, K)

LEMMA ShiftedSum ==
  ASSUME NEW n \in Nat, NEW w, NEW z, Shifted(w, z, n), NEW K \in SUBSET Places(n)
  PROVE  \E L, M : Moved(w, z, n, K, L, M)
<1>1. IsFiniteSet(K)
  BY PlacesFinite, FS_Subset
<1>2. PICK h : h = [k \in K |-> k + 1]
  OBVIOUS
<1>3. \A k \in K : h[k] = k + 1 /\ k \in Places(n)
  BY <1>2
<1>4. \A a, b \in K : h[a] = h[b] => a = b
  BY <1>3 DEF Places
<1>5. PICK L : L = Renamed(h, K)
  OBVIOUS
<1>6. \A a \in K : z[a] \in Int /\ w[h[a]] = z[a]
  BY <1>3 DEF Shifted
<1>7. IsFiniteSet(L) /\ SumFunctionOnSet(w, L) = SumFunctionOnSet(z, K)
  BY <1>1, <1>4, <1>5, <1>6, SumReindexed
<1>8. L \in SUBSET Places(n + 1) /\ 1 \notin L
  <2>1. \A k \in Places(n) : k + 1 \in Places(n + 1) /\ k + 1 # 1
    BY DEF Places
  <2> QED
    BY <1>3, <1>5, <2>1 DEF Renamed
<1>9. PICK M : M = L \cup {1}
  OBVIOUS
<1>10. M \ {1} = L /\ 1 \in M
  BY <1>8, <1>9
<1>11. IsFiniteSet(M)
  BY <1>7, <1>9, FS_AddElement
<1>12. \A l \in M : w[l] \in Int
  <2>1. \A l \in L : w[l] \in Int
    BY <1>5, <1>6 DEF Renamed
  <2>2. w[1] \in Int
    BY DEF Shifted
  <2> QED
    BY <1>9, <2>1, <2>2
<1>13. SumFunctionOnSet(w, M) = w[1] + SumFunctionOnSet(w, L)
  BY <1>10, <1>11, <1>12, SumPick
<1>15. M \in SUBSET Places(n + 1)
  <2>1. 1 \in Places(n + 1)
    BY DEF Places
  <2> QED
    BY <1>8, <1>9, <2>1
<1>14. K = Places(n) => M = Places(n + 1)
  <2>1. SUFFICES ASSUME K = Places(n) PROVE M = Places(n + 1)
    OBVIOUS
  <2>2. \A i \in Places(n + 1) : i = 1 \/ \E k \in Places(n) : i = k + 1
    <3>1. \A i \in Places(n + 1) : i # 1 => i - 1 \in Places(n) /\ i = (i - 1) + 1
      BY DEF Places
    <3> QED
      BY <3>1
  <2>3. 1 \in Places(n + 1)
    BY DEF Places
  <2>4. \A k \in Places(n) : k + 1 \in L
    BY <1>3, <1>5, <2>1 DEF Renamed
  <2> QED
    BY <1>8, <1>9, <2>2, <2>3, <2>4
<1> QED
  BY <1>7, <1>8, <1>13, <1>14, <1>15 DEF Moved

(* The number n is carried by some of the bits w, and all of them.         *)
Made(w, n) == \E K \in SUBSET Places(Len(w)) : n = SumFunctionOnSet(w, K)

Whole(w) == SumFunctionOnSet(w, Places(Len(w)))

LEMMA MadeNumber ==
  ASSUME NEW w \in Seq(Nat)
  PROVE  /\ Whole(w) \in Nat
         /\ \A n : Made(w, n) => n \in Nat /\ n <= Whole(w)
<1>1. Len(w) \in Nat
  OBVIOUS
<1>2. ASSUME NEW K \in SUBSET Places(Len(w)) PROVE SumFunctionOnSet(w, K) \in Nat
  <2>1. IsFiniteSet(K)
    BY <1>1, PlacesFinite, FS_Subset
  <2>2. \A k \in K : w[k] \in Nat
    BY DEF Places
  <2> QED
    BY <2>1, <2>2, SumNat
<1>3. Whole(w) \in Nat
  <2>1. Places(Len(w)) \in SUBSET Places(Len(w))
    OBVIOUS
  <2> QED
    BY <1>2, <2>1 DEF Whole
<1>4. ASSUME NEW K \in SUBSET Places(Len(w))
      PROVE  SumFunctionOnSet(w, K) <= Whole(w)
  <2>1. PICK A : A = Places(Len(w)) \ K /\ A \in SUBSET Places(Len(w))
    OBVIOUS
  <2>2. K \cup A = Places(Len(w)) /\ K \cap A = {}
    BY <2>1
  <2>3. IsFiniteSet(K) /\ IsFiniteSet(A)
    BY <1>1, <2>1, PlacesFinite, FS_Subset
  <2>4. \A k \in K \cup A : w[k] \in Int
    BY <2>2 DEF Places
  <2>5. SumFunctionOnSet(w, K \cup A) = SumFunctionOnSet(w, K) + SumFunctionOnSet(w, A)
    BY <2>2, <2>3, <2>4, SumUnion
  <2>6. Whole(w) = SumFunctionOnSet(w, K) + SumFunctionOnSet(w, A)
    BY <2>2, <2>5 DEF Whole
  <2>7. PICK i \in Nat, j \in Nat : i = SumFunctionOnSet(w, K) /\ j = SumFunctionOnSet(w, A)
    BY <1>2, <2>1
  <2> QED
    BY <2>6, <2>7
<1>5. \A n : Made(w, n) => n \in Nat /\ n <= Whole(w)
  BY <1>2, <1>4 DEF Made
<1> QED
  BY <1>3, <1>5

LEMMA OneWeightBefore ==
  ASSUME NEW q \in Nat, NEW z \in Seq(Nat), NEW w, w = <<q>> \o z
  PROVE  /\ w \in Seq(Nat) /\ Len(w) = Len(z) + 1
         /\ \A k : Made(z, k) => Made(w, k) /\ Made(w, q + k)
         /\ Whole(w) = q + Whole(z)
<1>1. PICK v, y, n : v = w /\ y = z /\ n = Len(z)
  OBVIOUS
<1>2. n \in Nat /\ w \in Seq(Nat) /\ Len(w) = n + 1 /\ w[1] = q
  BY <1>1
<1>3. \A k \in 1..n : w[k + 1] = z[k] /\ z[k] \in Nat
  BY <1>1
<1>4. Shifted(v, y, n)
  BY <1>1, <1>2, <1>3 DEF Shifted, Places
<1>5. Len(y) = n /\ Len(v) = n + 1 /\ v[1] = q
  BY <1>1, <1>2
<1>7. ASSUME NEW K \in SUBSET Places(n)
      PROVE  /\ Made(v, SumFunctionOnSet(y, K))
             /\ Made(v, q + SumFunctionOnSet(y, K))
             /\ K = Places(n) => Whole(v) = q + SumFunctionOnSet(y, K)
  <2>1. PICK L, M : Moved(v, y, n, K, L, M)
    BY <1>2, <1>4, ShiftedSum
  <2>3. Made(v, SumFunctionOnSet(y, K))
    BY <1>5, <2>1 DEF Made, Moved
  <2>4. Made(v, q + SumFunctionOnSet(y, K))
    BY <1>5, <2>1 DEF Made, Moved
  <2>5. K = Places(n) => Whole(v) = q + SumFunctionOnSet(y, K)
    BY <1>5, <2>1 DEF Whole, Moved
  <2> QED
    BY <2>3, <2>4, <2>5
<1>8. \A k : Made(y, k) => Made(v, k) /\ Made(v, q + k)
  BY <1>5, <1>7 DEF Made
<1>9. Whole(v) = q + Whole(y)
  <2>1. Places(n) \in SUBSET Places(n)
    OBVIOUS
  <2>2. Whole(y) = SumFunctionOnSet(y, Places(n))
    BY <1>5 DEF Whole
  <2> QED
    BY <1>7, <2>1, <2>2
<1> QED
  BY <1>1, <1>2, <1>8, <1>9

(* The weights of r bikes, from power q on: they add up to r, and with     *)
(* less than q bikes besides every number below r + q can be made.         *)
Covers(w, r, q) ==
  /\ w \in Seq(Nat) /\ Len(w) <= r /\ Whole(w) = r
  /\ \A n \in Nat : n < r + q => \E k, t \in Nat : Made(w, k) /\ t < q /\ n = k + t

LEMMA NothingMade ==
  ASSUME NEW w
  PROVE  Made(w, 0)
<1>1. SumFunctionOnSet(w, {}) = 0
  BY SumStep, FS_EmptySet
<1>2. {} \in SUBSET Places(Len(w))
  OBVIOUS
<1> QED
  BY <1>1, <1>2 DEF Made

LEMMA NoWeights ==
  ASSUME NEW q \in Nat \ {0}
  PROVE  Covers(<<>>, 0, q)
<1>1. PICK w : w = <<>>
  OBVIOUS
<1>2. w \in Seq(Nat) /\ Len(w) = 0 /\ Places(0) = {}
  BY <1>1 DEF Places
<1>3. Whole(w) = 0
  BY <1>2, SumStep, FS_EmptySet DEF Whole
<1>4. \A n \in Nat : n < 0 + q => \E k, t \in Nat : Made(w, k) /\ t < q /\ n = k + t
  <2>1. ASSUME NEW n \in Nat, n < 0 + q
        PROVE  Made(w, 0) /\ n < q /\ n = 0 + n /\ 0 \in Nat
    <3>1. Made(w, 0)
      BY NothingMade
    <3> QED
      BY <2>1, <3>1
  <2> QED
    BY <2>1
<1>5. Covers(w, 0, q)
  BY <1>2, <1>3, <1>4 DEF Covers
<1> QED
  BY <1>1, <1>5

LEMMA WeightCovers ==
  ASSUME NEW r \in Nat, r # 0, NEW q \in Nat \ {0}, NEW z,
         Covers(z, r - Least(q, r), 2 * q),
         NEW w, w = <<Least(q, r)>> \o z
  PROVE  Covers(w, r, q)
<1>1. PICK m \in Nat, c \in Nat :
        m = Least(q, r) /\ c = r - m /\ m >= 1 /\ (q <= r => m = q) /\ (r < q => m = r)
  BY Taken DEF Least
<1>2. Covers(z, c, 2 * q)
  BY <1>1
<1>3. z \in Seq(Nat) /\ Len(z) <= c /\ Whole(z) = c
  BY <1>2 DEF Covers
<1>4. w = <<m>> \o z
  BY <1>1
<1>5. w \in Seq(Nat) /\ Len(w) = Len(z) + 1 /\ Whole(w) = m + Whole(z)
  BY <1>3, <1>4, OneWeightBefore
<1>6. \A k : Made(z, k) => Made(w, k) /\ Made(w, m + k)
  BY <1>3, <1>4, OneWeightBefore
<1>7. Len(w) <= r /\ Whole(w) = r
  <2>1. PICK l \in Nat : l = Len(z)
    BY <1>3
  <2> QED
    BY <1>1, <1>3, <1>5, <2>1
<1>8. ASSUME NEW n \in Nat, n < r + q
      PROVE  \E k, t \in Nat : Made(w, k) /\ t < q /\ n = k + t
  <2>1. CASE q <= r
    <3>1. n < c + 2 * q
      BY <1>1, <1>8, <2>1
    <3>2. PICK k, t \in Nat : Made(z, k) /\ t < 2 * q /\ n = k + t
      BY <1>2, <3>1 DEF Covers
    <3>3. CASE t < q
      BY <1>6, <3>2, <3>3
    <3>4. CASE t >= q
      <4>1. PICK j, u \in Nat : j = m + k /\ u = t - q
        BY <3>4
      <4>2. Made(w, j)
        BY <1>6, <3>2, <4>1
      <4>3. u < q /\ n = j + u
        BY <1>1, <2>1, <3>2, <4>1
      <4> QED
        BY <4>2, <4>3
    <3> QED
      BY <3>3, <3>4
  <2>2. CASE r < q
    <3>1. Made(w, 0) /\ Made(w, m)
      <4>1. Made(z, 0) /\ m + 0 = m
        BY NothingMade
      <4> QED
        BY <1>6, <4>1
    <3>2. CASE n < q
      <4>1. n = 0 + n /\ 0 \in Nat
        OBVIOUS
      <4> QED
        BY <3>1, <3>2, <4>1
    <3>3. CASE n >= q
      <4>1. PICK u \in Nat : u = n - r
        BY <2>2, <3>3
      <4>2. u < q /\ n = m + u
        BY <1>1, <1>8, <2>2, <4>1
      <4> QED
        BY <3>1, <4>2
    <3> QED
      BY <3>2, <3>3
  <2> QED
    BY <2>1, <2>2
<1> QED
  BY <1>5, <1>7, <1>8 DEF Covers

(* The weights of an edge add up to its cap and make every number up to    *)
(* it, and no other.                                                       *)
LEMMA WeightsCover ==
  ASSUME NEW u \in Nat
  PROVE  Covers(BinaryWeights(u), u, 1)
<1>1. PICK g : g = (CHOOSE h : Weighs(h, u)) /\ Weighs(g, u)
  <2>1. \E h : Weighs(h, u)
    BY WeighsExists
  <2> QED
    BY <2>1
<1>2. BinaryWeights(u) = g[u][1]
  BY <1>1 DEF BinaryWeights, Weighs
<1> DEFINE G == {r \in Nat : r <= u => \A q \in Nat \ {0} : Covers(g[r][q], r, q)}
<1>3. ASSUME NEW r \in Nat, \A m \in Nat : m < r => m \in G
      PROVE  r \in G
  <2> SUFFICES ASSUME r <= u, NEW q \in Nat \ {0} PROVE Covers(g[r][q], r, q)
    OBVIOUS
  <2>1. r \in 0..u
    OBVIOUS
  <2>2. g[r][q] = IF r = 0 THEN <<>>
                  ELSE <<Least(q, r)>> \o g[r - Least(q, r)][2 * q]
    BY <1>1, <2>1, WeightsStep
  <2>3. CASE r = 0
    BY <2>2, <2>3, NoWeights
  <2>4. CASE r # 0
    <3>1. PICK m \in Nat : m = r - Least(q, r) /\ m < r
      BY <2>4, Taken
    <3>2. 2 * q \in Nat \ {0} /\ m <= u
      BY <3>1
    <3>3. Covers(g[m][2 * q], m, 2 * q)
      BY <1>3, <3>1, <3>2
    <3>4. PICK w, z : /\ w = g[r][q] /\ z = g[m][2 * q]
                      /\ w = <<Least(q, r)>> \o z
      BY <2>2, <2>4, <3>1
    <3>5. Covers(w, r, q)
      BY <2>4, <3>1, <3>3, <3>4, WeightCovers
    <3> QED
      BY <3>4, <3>5
  <2> QED
    BY <2>3, <2>4
<1>4. Nat \subseteq G
  <2> HIDE DEF G
  <2> QED
    BY <1>3, NumberInduction
<1>5. 1 \in Nat \ {0} /\ u <= u
  OBVIOUS
<1> QED
  BY <1>2, <1>4, <1>5

-----------------------------------------------------------------------------
(* The bits and what they decode to                                        *)

LEMMA CapNumber ==
  ASSUME NEW p \in ProblemsWithin(Capacity), NEW e \in Pair
  PROVE  EdgeCap(p, e) \in Nat /\ EdgeCap(p, e) <= MaxVehicle
<1>1. e[1] \in Station /\ e[2] \in Station
  BY NetworkFinite
<1>2. /\ p.bikes[e[1]] \in Int /\ p.target[e[1]] \in Int
      /\ p.bikes[e[2]] \in Int /\ p.target[e[2]] \in Int
  BY <1>1, GivenNumbers
<1>3. p.vehicle \in 0..MaxVehicle
  BY DEF ProblemsWithin
<1> QED
  BY <1>2, <1>3, NetworkAssumption DEF EdgeCap, Least, Surplus, Deficit, PositivePart

Weights(p, e) == BinaryWeights(EdgeCap(p, e))

LEMMA EdgeBits ==
  ASSUME NEW p \in ProblemsWithin(Capacity), NEW e \in Pair, NEW w, w = Weights(p, e)
  PROVE  /\ w \in Seq(Nat) /\ Len(w) \in Nat /\ Len(w) <= MaxVehicle
         /\ \A n \in Nat : n <= EdgeCap(p, e) => Made(w, n)
         /\ \A n : Made(w, n) => n \in Nat /\ n <= EdgeCap(p, e)
<1>1. PICK u \in Nat : u = EdgeCap(p, e) /\ u <= MaxVehicle
  BY CapNumber
<1>2. Covers(w, u, 1)
  BY <1>1, WeightsCover DEF Weights
<1>3. w \in Seq(Nat) /\ Len(w) <= u /\ Whole(w) = u
  BY <1>2 DEF Covers
<1>4. Len(w) \in Nat /\ Len(w) <= MaxVehicle
  <2>1. Len(w) \in Nat
    BY <1>3
  <2> QED
    BY <1>1, <1>3, <2>1, NetworkAssumption
<1>5. ASSUME NEW n \in Nat, n <= u
      PROVE  Made(w, n)
  <2>1. n < u + 1
    BY <1>5
  <2>2. PICK k, t \in Nat : Made(w, k) /\ t < 1 /\ n = k + t
    BY <1>2, <2>1 DEF Covers
  <2>3. n = k
    BY <2>2
  <2> QED
    BY <2>2, <2>3
<1>6. \A n : Made(w, n) => n \in Nat /\ n <= u
  BY <1>3, MadeNumber
<1> QED
  BY <1>1, <1>3, <1>4, <1>5, <1>6

LEMMA BitIs ==
  ASSUME NEW p, NEW v
  PROVE  v \in BitOf(p) <=>
           \E e \in Pair : \E k \in Places(Len(Weights(p, e))) : v = <<e, k>>
BY DEF BitOf, Places, Weights

LEMMA BitNumbers ==
  ASSUME NEW p \in ProblemsWithin(Capacity), NEW v \in BitOf(p)
  PROVE  /\ v = <<v[1], v[2]>> /\ v[1] \in Pair /\ v[2] \in Places(MaxVehicle)
         /\ v[2] \in Int /\ WeightOf(p, v) \in Nat
         /\ \A s \in Station : Coefficient(p, v, s) \in Int
<1>1. PICK e, k : e \in Pair /\ k \in Places(Len(Weights(p, e))) /\ v = <<e, k>>
  BY BitIs
<1>2. v[1] = e /\ v[2] = k
  BY <1>1
<1>3. PICK w : w = Weights(p, e)
  OBVIOUS
<1>4. w \in Seq(Nat) /\ Len(w) \in Nat /\ Len(w) <= MaxVehicle
  BY <1>1, <1>3, EdgeBits
<1>5. k \in 1..Len(w) /\ w[k] \in Nat
  BY <1>1, <1>3, <1>4 DEF Places
<1>6. k \in Places(MaxVehicle) /\ k \in Int
  BY <1>4, <1>5, NetworkAssumption DEF Places
<1>7. WeightOf(p, v) \in Nat
  BY <1>2, <1>3, <1>5 DEF WeightOf, Weights
<1>8. \A s \in Station : Coefficient(p, v, s) \in Int
  BY <1>7 DEF Coefficient
<1> QED
  BY <1>1, <1>2, <1>6, <1>7, <1>8

LEMMA BitsFinite ==
  ASSUME NEW p \in ProblemsWithin(Capacity)
  PROVE  IsFiniteSet(BitOf(p))
<1>1. IsFiniteSet(Pair) /\ IsFiniteSet(Places(MaxVehicle))
  BY NetworkFinite, PlacesFinite, NetworkAssumption
<1>2. IsFiniteSet(Pair \X Places(MaxVehicle))
  BY <1>1, FS_Product
<1>3. BitOf(p) \subseteq Pair \X Places(MaxVehicle)
  <2>1. ASSUME NEW v \in BitOf(p) PROVE v \in Pair \X Places(MaxVehicle)
    BY BitNumbers
  <2> QED
    BY <2>1
<1> QED
  BY <1>2, <1>3, FS_Subset

(* What an edge carries is made by the bits of its own that are set.       *)
PlacesSet(p, set, e) == {k \in Places(Len(Weights(p, e))) : <<e, k>> \in set}

LEMMA EdgeDecodes ==
  ASSUME NEW p \in ProblemsWithin(Capacity), NEW set \in SUBSET BitOf(p), NEW e \in Pair
  PROVE  /\ PlacesSet(p, set, e) \in SUBSET Places(Len(Weights(p, e)))
         /\ Decode(p, set)[e] = SumFunctionOnSet(Weights(p, e), PlacesSet(p, set, e))
<1>1. PICK w, K, B, f : /\ w = Weights(p, e) /\ K = PlacesSet(p, set, e)
                        /\ B = {v \in set : v[1] = e}
                        /\ f = [v \in set |-> WeightOf(p, v)]
  OBVIOUS
<1>2. Decode(p, set)[e] = SumFunctionOnSet(f, B)
  BY <1>1 DEF Decode
<1>3. w \in Seq(Nat) /\ Len(w) \in Nat
  BY <1>1, EdgeBits
<1>4. K \in SUBSET Places(Len(w))
  BY <1>1 DEF PlacesSet
<1>5. IsFiniteSet(K)
  BY <1>3, <1>4, PlacesFinite, FS_Subset
<1>6. PICK h : h = [k \in K |-> <<e, k>>]
  OBVIOUS
<1>7. \A a, b \in K : h[a] = h[b] => a = b
  BY <1>6
<1>8. \A a \in K : w[a] \in Int /\ f[h[a]] = w[a]
  <2>1. ASSUME NEW a \in K PROVE w[a] \in Int /\ f[h[a]] = w[a]
    <3>1. h[a] = <<e, a>> /\ h[a] \in set
      BY <1>1, <1>6 DEF PlacesSet
    <3>2. f[h[a]] = WeightOf(p, <<e, a>>)
      BY <1>1, <3>1
    <3>3. WeightOf(p, <<e, a>>) = w[a]
      BY <1>1 DEF WeightOf, Weights
    <3>4. w[a] \in Int
      BY <1>3, <1>4 DEF Places
    <3> QED
      BY <3>2, <3>3, <3>4
  <2> QED
    BY <2>1
<1>9. Renamed(h, K) = B
  <2>1. ASSUME NEW v \in B PROVE v \in Renamed(h, K)
    <3>1. v \in set /\ v[1] = e
      BY <1>1
    <3>2. PICK d, k : d \in Pair /\ k \in Places(Len(Weights(p, d))) /\ v = <<d, k>>
      BY <3>1, BitIs
    <3>3. v = <<e, k>> /\ d = e
      BY <3>1, <3>2
    <3>4. k \in K
      BY <1>1, <3>1, <3>2, <3>3 DEF PlacesSet
    <3> QED
      BY <1>6, <3>3, <3>4 DEF Renamed
  <2>2. ASSUME NEW k \in K PROVE h[k] \in B
    <3>1. h[k] = <<e, k>> /\ <<e, k>> \in set
      BY <1>1, <1>6 DEF PlacesSet
    <3> QED
      BY <1>1, <3>1
  <2> QED
    BY <2>1, <2>2 DEF Renamed
<1>10. SumFunctionOnSet(f, Renamed(h, K)) = SumFunctionOnSet(w, K)
  BY <1>5, <1>7, <1>8, SumReindexed
<1> QED
  BY <1>1, <1>2, <1>4, <1>9, <1>10

(* Every set of bits decodes to a quantity within every cap ...            *)
LEMMA DecodesIntoBox ==
  ASSUME NEW p \in ProblemsWithin(Capacity), NEW set \in SUBSET BitOf(p)
  PROVE  Decode(p, set) \in Box(p) /\ Decode(p, set) \in [Pair -> Nat]
<1>1. ASSUME NEW e \in Pair
      PROVE  /\ Decode(p, set)[e] \in Nat
             /\ Decode(p, set)[e] <= EdgeCap(p, e) /\ Decode(p, set)[e] <= MaxVehicle
  <2>1. PICK w, n : w = Weights(p, e) /\ n = Decode(p, set)[e]
    OBVIOUS
  <2>2. Made(w, n)
    BY <2>1, EdgeDecodes DEF Made
  <2>3. n \in Nat /\ n <= EdgeCap(p, e)
    BY <2>1, <2>2, EdgeBits
  <2>4. EdgeCap(p, e) \in Nat /\ EdgeCap(p, e) <= MaxVehicle
    BY CapNumber
  <2> QED
    BY <2>1, <2>3, <2>4, NetworkAssumption
<1>2. PICK x : x = Decode(p, set)
  OBVIOUS
<1>3. x = [e \in Pair |-> x[e]]
  BY <1>2 DEF Decode
<1>4. x \in [Pair -> Nat]
  BY <1>1, <1>2, <1>3
<1>5. x \in [Pair -> 0..MaxVehicle]
  <2>1. \A e \in Pair : x[e] \in 0..MaxVehicle
    BY <1>1, <1>2, NetworkAssumption
  <2> QED
    BY <1>3, <2>1
<1>6. x \in Box(p)
  BY <1>1, <1>2, <1>5 DEF Box
<1> QED
  BY <1>2, <1>4, <1>6

(* ... and every such quantity is decoded from some bits.                  *)
LEMMA BoxIsDecoded ==
  ASSUME NEW p \in ProblemsWithin(Capacity), NEW x \in Box(p)
  PROVE  \E set \in SUBSET BitOf(p) : x = Decode(p, set)
<1>1. \A e \in Pair : x[e] \in Nat /\ x[e] <= EdgeCap(p, e)
  BY NetworkAssumption DEF Box
<1>2. ASSUME NEW e \in Pair
      PROVE  \E K \in SUBSET Places(Len(Weights(p, e))) :
               x[e] = SumFunctionOnSet(Weights(p, e), K)
  <2>1. Made(Weights(p, e), x[e])
    BY <1>1, EdgeBits
  <2> QED
    BY <2>1 DEF Made
<1>3. PICK K : K = [e \in Pair |-> CHOOSE k \in SUBSET Places(Len(Weights(p, e))) :
                                     x[e] = SumFunctionOnSet(Weights(p, e), k)]
  OBVIOUS
<1>4. ASSUME NEW e \in Pair
      PROVE  /\ K[e] \in SUBSET Places(Len(Weights(p, e)))
             /\ x[e] = SumFunctionOnSet(Weights(p, e), K[e])
  BY <1>2, <1>3
<1>5. PICK set \in SUBSET BitOf(p) : set = {v \in BitOf(p) : v[2] \in K[v[1]]}
  OBVIOUS
<1>6. ASSUME NEW e \in Pair
      PROVE  x[e] = Decode(p, set)[e]
  <2>1. ASSUME NEW k \in Places(Len(Weights(p, e)))
        PROVE  <<e, k>> \in set <=> k \in K[e]
    <3>1. <<e, k>> \in BitOf(p)
      BY BitIs
    <3> QED
      BY <1>5, <3>1
  <2>2. PlacesSet(p, set, e) = K[e]
    BY <1>4, <2>1 DEF PlacesSet
  <2> QED
    BY <1>4, <2>2, EdgeDecodes
<1>7. x = [e \in Pair |-> x[e]] /\ Decode(p, set) = [e \in Pair |-> Decode(p, set)[e]]
  BY DEF Box, Decode
<1> QED
  BY <1>6, <1>7

-----------------------------------------------------------------------------
(* One bit more                                                            *)

LEMMA BitAdded ==
  ASSUME NEW p \in ProblemsWithin(Capacity), NEW set \in SUBSET BitOf(p), NEW a \in set,
         NEW rest, rest = set \ {a}
  PROVE  More(Decode(p, rest), Decode(p, set), a[1], WeightOf(p, a))
<1>1. PICK x, y : x = Decode(p, rest) /\ y = Decode(p, set)
  OBVIOUS
<1>2. x \in [Pair -> Nat] /\ y \in [Pair -> Nat]
  BY <1>1, DecodesIntoBox
<1>3. PICK f, g : /\ f = [v \in set |-> WeightOf(p, v)]
                  /\ g = [v \in rest |-> WeightOf(p, v)]
  OBVIOUS
<1>4. \A v \in set : f[v] \in Int /\ f[v] = WeightOf(p, v)
  BY <1>3, BitNumbers
<1>5. \A v \in rest : g[v] = f[v]
  BY <1>3
<1>6. IsFiniteSet(set)
  BY BitsFinite, FS_Subset
<1>7. ASSUME NEW e \in Pair
      PROVE  y[e] = IF e = a[1] THEN x[e] + WeightOf(p, a) ELSE x[e]
  <2>1. PICK B, C : B = {v \in set : v[1] = e} /\ C = {v \in rest : v[1] = e}
    OBVIOUS
  <2>2. y[e] = SumFunctionOnSet(f, B) /\ x[e] = SumFunctionOnSet(g, C)
    BY <1>1, <1>3, <2>1 DEF Decode
  <2>3. IsFiniteSet(B) /\ IsFiniteSet(C)
    <3>1. B \in SUBSET set /\ C \in SUBSET set
      BY <2>1
    <3> QED
      BY <1>6, <3>1, FS_Subset
  <2>4. \A v \in C : g[v] = f[v]
    BY <1>5, <2>1
  <2>5. x[e] = SumFunctionOnSet(f, C)
    BY <2>2, <2>3, <2>4, SumSame
  <2>6. CASE e = a[1]
    <3>1. a \in B /\ C = B \ {a}
      BY <2>1, <2>6
    <3>2. \A v \in B : f[v] \in Int
      BY <1>4, <2>1
    <3>3. SumFunctionOnSet(f, B) = f[a] + SumFunctionOnSet(f, C)
      BY <2>3, <3>1, <3>2, SumPick
    <3>4. f[a] = WeightOf(p, a) /\ WeightOf(p, a) \in Nat /\ x[e] \in Nat
      BY <1>2, <1>4, BitNumbers
    <3> QED
      BY <2>2, <2>5, <2>6, <3>3, <3>4
  <2>7. CASE e # a[1]
    <3>1. C = B
      BY <2>1, <2>7
    <3> QED
      BY <2>2, <2>5, <2>7, <3>1
  <2> QED
    BY <2>6, <2>7
<1>8. a[1] \in Pair
  BY BitNumbers
<1>9. /\ y[a[1]] = x[a[1]] + WeightOf(p, a)
      /\ \A e \in Pair \ {a[1]} : y[e] = x[e]
  BY <1>7, <1>8
<1> QED
  BY <1>1, <1>2, <1>9 DEF More

(* How far the bits shift the inventory of a station.                      *)
Shift(p, set, s) == SumFunctionOnSet([v \in set |-> Coefficient(p, v, s)], set)

LEMMA ShiftNumber ==
  ASSUME NEW p \in ProblemsWithin(Capacity), NEW set \in SUBSET BitOf(p), NEW s \in Station
  PROVE  Shift(p, set, s) \in Int
<1>1. PICK c : c = [v \in set |-> Coefficient(p, v, s)]
  OBVIOUS
<1>2. \A v \in set : c[v] \in Int
  BY <1>1, BitNumbers
<1>3. IsFiniteSet(set)
  BY BitsFinite, FS_Subset
<1> QED
  BY <1>1, <1>2, <1>3, SumInt DEF Shift

LEMMA ShiftStep ==
  ASSUME NEW p \in ProblemsWithin(Capacity), NEW set \in SUBSET BitOf(p), NEW a \in set,
         NEW rest, rest = set \ {a}, NEW s \in Station
  PROVE  Shift(p, set, s) = Coefficient(p, a, s) + Shift(p, rest, s)
<1>1. PICK c, d : /\ c = [v \in set |-> Coefficient(p, v, s)]
                  /\ d = [v \in rest |-> Coefficient(p, v, s)]
  OBVIOUS
<1>2. \A v \in set : c[v] \in Int
  BY <1>1, BitNumbers
<1>3. IsFiniteSet(set) /\ IsFiniteSet(rest)
  BY BitsFinite, FS_Subset
<1>4. SumFunctionOnSet(c, set) = c[a] + SumFunctionOnSet(c, rest)
  BY <1>2, <1>3, SumPick
<1>5. \A v \in rest : c[v] = d[v]
  BY <1>1
<1>6. SumFunctionOnSet(c, rest) = SumFunctionOnSet(d, rest)
  BY <1>3, <1>5, SumSame
<1> QED
  BY <1>1, <1>4, <1>6 DEF Shift

LEMMA FinalStep ==
  ASSUME NEW p \in ProblemsWithin(Capacity), NEW set \in SUBSET BitOf(p), NEW a \in set,
         NEW rest, rest = set \ {a}, NEW s \in Station
  PROVE  FinalInventory(p, Decode(p, set))[s]
           = FinalInventory(p, Decode(p, rest))[s] + Coefficient(p, a, s)
<1>1. PICK x, y, e, q : /\ x = Decode(p, rest) /\ y = Decode(p, set)
                        /\ e = a[1] /\ q = WeightOf(p, a)
  OBVIOUS
<1>2. e \in Pair /\ q \in Nat /\ e[1] # e[2]
  BY <1>1, BitNumbers, NetworkFinite
<1>3. More(x, y, e, q)
  BY <1>1, BitAdded
<1>12. /\ Outflow(y, e[1]) = Outflow(x, e[1]) + q
       /\ Inflow(y, e[2]) = Inflow(x, e[2]) + q
  BY <1>2, <1>3, FlowSums
<1>13. \A r \in Station : /\ r # e[1] => Outflow(y, r) = Outflow(x, r)
                          /\ r # e[2] => Inflow(y, r) = Inflow(x, r)
  BY <1>2, <1>3, FlowSums
<1>4. /\ Outflow(y, e[1]) = Outflow(x, e[1]) + q
      /\ Inflow(y, e[2]) = Inflow(x, e[2]) + q
      /\ s # e[1] => Outflow(y, s) = Outflow(x, s)
      /\ s # e[2] => Inflow(y, s) = Inflow(x, s)
  BY <1>12, <1>13
<1>5. x \in [Pair -> Nat] /\ y \in [Pair -> Nat]
  BY <1>3 DEF More
<1>6. /\ FinalInventory(p, x)[s] = p.bikes[s] - Outflow(x, s) + Inflow(x, s)
      /\ FinalInventory(p, y)[s] = p.bikes[s] - Outflow(y, s) + Inflow(y, s)
  BY <1>5, FinalNumbers
<1>7. Outflow(x, s) \in Nat /\ Inflow(x, s) \in Nat /\ p.bikes[s] \in Int
  BY <1>5, PlanNumbers, GivenNumbers
<1>8. Coefficient(p, a, s) = IF e[1] = s THEN -q ELSE IF e[2] = s THEN q ELSE 0
  BY <1>1 DEF Coefficient
<1>9. CASE s = e[1]
  BY <1>1, <1>2, <1>4, <1>6, <1>7, <1>8, <1>9
<1>10. CASE s = e[2]
  BY <1>1, <1>2, <1>4, <1>6, <1>7, <1>8, <1>10
<1>11. CASE s # e[1] /\ s # e[2]
  BY <1>1, <1>2, <1>4, <1>6, <1>7, <1>8, <1>11
<1> QED
  BY <1>9, <1>10, <1>11

LEMMA NoBits ==
  ASSUME NEW p \in ProblemsWithin(Capacity)
  PROVE  /\ Decode(p, {}) = NoMove
         /\ \A s \in Station : Shift(p, {}, s) = 0
<1>1. IsFiniteSet({})
  BY FS_EmptySet
<1>2. \A s \in Station : Shift(p, {}, s) = 0
  BY <1>1, SumStep DEF Shift
<1>3. ASSUME NEW e \in Pair PROVE Decode(p, {})[e] = 0
  <2>1. {v \in {} : v[1] = e} = {}
    OBVIOUS
  <2> QED
    BY <1>1, <2>1, SumStep DEF Decode
<1>4. Decode(p, {}) = [e \in Pair |-> Decode(p, {})[e]]
  BY DEF Decode
<1>5. Decode(p, {}) = [e \in Pair |-> 0]
  BY <1>3, <1>4
<1> QED
  BY <1>2, <1>5 DEF NoMove

LEMMA FinalIsShifted ==
  ASSUME NEW p \in ProblemsWithin(Capacity), NEW s \in Station,
         NEW set \in SUBSET BitOf(p)
  PROVE  FinalInventory(p, Decode(p, set))[s] = p.bikes[s] + Shift(p, set, s)
<1> DEFINE G == {t \in SUBSET set :
                   FinalInventory(p, Decode(p, t))[s] = p.bikes[s] + Shift(p, t, s)}
<1>0. p.bikes[s] \in Int
  BY GivenNumbers
<1>1. ASSUME NEW t \in SUBSET set, \A v \in t : t \ {v} \in G PROVE t \in G
  <2>0. t \in SUBSET BitOf(p)
    OBVIOUS
  <2>1. CASE t = {}
    <3>1. FinalInventory(p, NoMove)[s] = p.bikes[s] - 0 + 0
      BY NothingMoves, FinalNumbers
    <3>2. FinalInventory(p, Decode(p, t))[s] = p.bikes[s] + Shift(p, t, s)
      BY <1>0, <2>1, <3>1, NoBits
    <3> QED
      BY <3>2
  <2>2. CASE t # {}
    <3>1. PICK a \in t : TRUE
      BY <2>2
    <3>2. PICK rest \in SUBSET BitOf(p) : rest = t \ {a}
      OBVIOUS
    <3>3. FinalInventory(p, Decode(p, t))[s]
            = FinalInventory(p, Decode(p, rest))[s] + Coefficient(p, a, s)
      BY <2>0, <3>2, FinalStep
    <3>4. Shift(p, t, s) = Coefficient(p, a, s) + Shift(p, rest, s)
      BY <2>0, <3>2, ShiftStep
    <3>5. FinalInventory(p, Decode(p, rest))[s] = p.bikes[s] + Shift(p, rest, s)
      BY <1>1, <3>2
    <3>6. PICK i, j \in Int : i = Coefficient(p, a, s) /\ j = Shift(p, rest, s)
      BY <2>0, <3>2, BitNumbers, ShiftNumber
    <3>7. FinalInventory(p, Decode(p, t))[s] = p.bikes[s] + Shift(p, t, s)
      BY <1>0, <3>3, <3>4, <3>5, <3>6
    <3> QED
      BY <3>7
  <2> QED
    BY <2>1, <2>2
<1>2. IsFiniteSet(set)
  BY BitsFinite, FS_Subset
<1>3. set \in G
  <2> HIDE DEF G
  <2> QED
    BY <1>1, <1>2, FiniteInduction
<1> QED
  BY <1>3

-----------------------------------------------------------------------------
(* Pairs of bits                                                           *)

LEMMA PairsOrdered ==
  ASSUME NEW e \in Pair, NEW f \in Pair
  PROVE  ~Before(e, e) /\ (e # f => (Before(e, f) <=> ~Before(f, e)))
<1>1. PICK a, b, c, d : e = <<a, b>> /\ f = <<c, d>> /\ a \in Int /\ b \in Int /\ c \in Int /\ d \in Int
  BY DEF Pair, Station
<1>2. e[1] = a /\ e[2] = b /\ f[1] = c /\ f[2] = d
  BY <1>1
<1>3. e # f => a # c \/ b # d
  BY <1>1
<1> QED
  BY <1>1, <1>2, <1>3 DEF Before

LEMMA BitsOrdered ==
  ASSUME NEW p \in ProblemsWithin(Capacity), NEW v \in BitOf(p), NEW w \in BitOf(p)
  PROVE  ~BitBefore(v, v) /\ (v # w => (BitBefore(v, w) <=> ~BitBefore(w, v)))
<1>1. /\ v = <<v[1], v[2]>> /\ v[1] \in Pair /\ v[2] \in Int
      /\ w = <<w[1], w[2]>> /\ w[1] \in Pair /\ w[2] \in Int
  BY BitNumbers
<1>2. PICK e, f, i, j : e = v[1] /\ f = w[1] /\ i = v[2] /\ j = w[2]
  OBVIOUS
<1>3. v # w => e # f \/ i # j
  BY <1>1, <1>2
<1>4. ~Before(e, e) /\ (e # f => (Before(e, f) <=> ~Before(f, e)))
  BY <1>1, <1>2, PairsOrdered
<1>5. i \in Int /\ j \in Int
  BY <1>1, <1>2
<1>6. /\ ~(Before(e, e) \/ (e = e /\ i < i))
      /\ v # w => ((Before(e, f) \/ (e = f /\ i < j)) <=> ~(Before(f, e) \/ (f = e /\ j < i)))
  BY <1>3, <1>4, <1>5
<1> QED
  BY <1>2, <1>6 DEF BitBefore

(* The pair of a bit a and another one.                                    *)
Paired(a, v) == IF BitBefore(v, a) THEN <<v, a>> ELSE <<a, v>>

LEMMA PairsSplit ==
  ASSUME NEW p \in ProblemsWithin(Capacity), NEW set \in SUBSET BitOf(p), NEW a \in set,
         NEW rest, rest = set \ {a}, NEW h, h = [v \in rest |-> Paired(a, v)]
  PROVE  /\ BitPairs(set) = BitPairs(rest) \cup Renamed(h, rest)
         /\ BitPairs(rest) \cap Renamed(h, rest) = {}
         /\ \A v, w \in rest : h[v] = h[w] => v = w
<1>1. \A v \in rest : h[v] = Paired(a, v)
  OBVIOUS
<1>2. ASSUME NEW vw \in BitPairs(set), vw \notin BitPairs(rest)
      PROVE  vw \in Renamed(h, rest)
  <2>1. PICK v \in set, w \in set : vw = <<v, w>> /\ BitBefore(v, w)
    BY <1>2 DEF BitPairs
  <2>2. v = a \/ w = a
    BY <1>2, <2>1 DEF BitPairs
  <2>3. v # w
    BY <2>1, BitsOrdered
  <2>4. ~BitBefore(w, v)
    BY <2>1, <2>3, BitsOrdered
  <2>5. CASE v = a
    <3>1. w \in rest /\ h[w] = vw
      BY <1>1, <2>1, <2>3, <2>4, <2>5 DEF Paired
    <3> QED
      BY <3>1 DEF Renamed
  <2>6. CASE w = a
    <3>1. v \in rest /\ h[v] = vw
      BY <1>1, <2>1, <2>3, <2>6 DEF Paired
    <3> QED
      BY <3>1 DEF Renamed
  <2> QED
    BY <2>2, <2>5, <2>6
<1>3. ASSUME NEW v \in rest
      PROVE  h[v] \in BitPairs(set) /\ h[v] \notin BitPairs(rest)
  <2>1. v # a /\ v \in set /\ v \in BitOf(p) /\ a \in BitOf(p)
    OBVIOUS
  <2>2. CASE BitBefore(v, a)
    <3>1. h[v] = <<v, a>>
      BY <1>1, <2>2 DEF Paired
    <3> QED
      BY <2>1, <2>2, <3>1 DEF BitPairs
  <2>3. CASE ~BitBefore(v, a)
    <3>1. h[v] = <<a, v>> /\ BitBefore(a, v)
      BY <1>1, <2>1, <2>3, BitsOrdered DEF Paired
    <3> QED
      BY <2>1, <3>1 DEF BitPairs
  <2> QED
    BY <2>2, <2>3
<1>4. BitPairs(rest) \subseteq BitPairs(set)
  BY DEF BitPairs
<1>5. \A v, w \in rest : h[v] = h[w] => v = w
  <2>1. SUFFICES ASSUME NEW v \in rest, NEW w \in rest, h[v] = h[w] PROVE v = w
    OBVIOUS
  <2>2. v # a /\ w # a
    OBVIOUS
  <2>3. h[v] \in {<<v, a>>, <<a, v>>} /\ h[w] \in {<<w, a>>, <<a, w>>}
    BY <1>1 DEF Paired
  <2> QED
    BY <2>1, <2>2, <2>3
<1> QED
  BY <1>2, <1>3, <1>4, <1>5 DEF Renamed

LEMMA Products ==
  ASSUME NEW a \in Int, NEW b \in Int
  PROVE  /\ 2 * a * b \in Int /\ 2 * a * b = 2 * b * a
         /\ a * b \in Int /\ a * a \in Nat
OBVIOUS

LEMMA QuadraticNumber ==
  ASSUME NEW p \in ProblemsWithin(Capacity), NEW v \in BitOf(p), NEW w \in BitOf(p)
  PROVE  /\ Quadratic(p, v, w) \in Int /\ Quadratic(p, v, w) = Quadratic(p, w, v)
<1>1. PICK f, g : /\ f = [s \in Station |-> 2 * Coefficient(p, v, s) * Coefficient(p, w, s)]
                  /\ g = [s \in Station |-> 2 * Coefficient(p, w, s) * Coefficient(p, v, s)]
  OBVIOUS
<1>2. \A s \in Station : Coefficient(p, v, s) \in Int /\ Coefficient(p, w, s) \in Int
  BY BitNumbers
<1>3. \A s \in Station : f[s] \in Int /\ f[s] = g[s]
  BY <1>1, <1>2, Products
<1>4. SumFunctionOnSet(f, Station) = SumFunctionOnSet(g, Station)
  BY <1>3, NetworkFinite, SumSame
<1>5. SumFunctionOnSet(f, Station) \in Int
  BY <1>3, NetworkFinite, SumInt
<1>6. ImbalanceWeight * SumFunctionOnSet(f, Station) \in Int
  BY <1>5, Prices, SolversAssumption
<1> QED
  BY <1>1, <1>4, <1>6 DEF Quadratic

SumOfPairs(p, set) ==
  SumFunctionOnSet([vw \in BitPairs(set) |-> Quadratic(p, vw[1], vw[2])], BitPairs(set))

LEMMA PairsFinite ==
  ASSUME NEW p \in ProblemsWithin(Capacity), NEW set \in SUBSET BitOf(p)
  PROVE  /\ IsFiniteSet(BitPairs(set))
         /\ \A vw \in BitPairs(set) : Quadratic(p, vw[1], vw[2]) \in Int
<1>1. IsFiniteSet(set)
  BY BitsFinite, FS_Subset
<1>2. IsFiniteSet(set \X set)
  BY <1>1, FS_Product
<1>3. BitPairs(set) \subseteq set \X set
  BY DEF BitPairs
<1>4. ASSUME NEW vw \in BitPairs(set)
      PROVE  Quadratic(p, vw[1], vw[2]) \in Int
  <2>1. vw[1] \in BitOf(p) /\ vw[2] \in BitOf(p)
    BY DEF BitPairs
  <2> QED
    BY <2>1, QuadraticNumber
<1> QED
  BY <1>2, <1>3, <1>4, FS_Subset

LEMMA PairsStep ==
  ASSUME NEW p \in ProblemsWithin(Capacity), NEW set \in SUBSET BitOf(p), NEW a \in set,
         NEW rest, rest = set \ {a}
  PROVE  /\ SumOfPairs(p, set) = SumOfPairs(p, rest)
              + SumFunctionOnSet([v \in rest |-> Quadratic(p, a, v)], rest)
         /\ SumOfPairs(p, rest) \in Int
<1>1. PICK h, f, g, d : /\ h = [v \in rest |-> Paired(a, v)]
                        /\ f = [vw \in BitPairs(set) |-> Quadratic(p, vw[1], vw[2])]
                        /\ g = [v \in rest |-> Quadratic(p, a, v)]
                        /\ d = [vw \in BitPairs(rest) |-> Quadratic(p, vw[1], vw[2])]
  OBVIOUS
<1>2. PICK A, B : A = BitPairs(rest) /\ B = Renamed(h, rest)
  OBVIOUS
<1>11. h = [v \in rest |-> Paired(a, v)]
  BY <1>1
<1>12. BitPairs(set) = BitPairs(rest) \cup Renamed(h, rest)
  BY <1>11, PairsSplit
<1>13. BitPairs(rest) \cap Renamed(h, rest) = {}
  BY <1>11, PairsSplit
<1>14. \A v, w \in rest : h[v] = h[w] => v = w
  BY <1>11, PairsSplit
<1>3. /\ BitPairs(set) = A \cup B /\ A \cap B = {}
      /\ \A v, w \in rest : h[v] = h[w] => v = w
  BY <1>2, <1>12, <1>13, <1>14
<1>4. /\ IsFiniteSet(A) /\ IsFiniteSet(rest)
      /\ \A vw \in A \cup B : f[vw] \in Int /\ f[vw] = Quadratic(p, vw[1], vw[2])
  BY <1>1, <1>2, <1>3, PairsFinite, BitsFinite, FS_Subset
<1>5. ASSUME NEW v \in rest
      PROVE  g[v] \in Int /\ f[h[v]] = g[v]
  <2>1. v \in BitOf(p) /\ a \in BitOf(p)
    OBVIOUS
  <2>2. h[v] \in B /\ (h[v] = <<v, a>> \/ h[v] = <<a, v>>)
    BY <1>1, <1>2 DEF Renamed, Paired
  <2>3. f[h[v]] = Quadratic(p, v, a) \/ f[h[v]] = Quadratic(p, a, v)
    BY <1>4, <2>2
  <2>4. g[v] = Quadratic(p, a, v)
    BY <1>1
  <2> QED
    BY <2>1, <2>3, <2>4, QuadraticNumber
<1>6. IsFiniteSet(B) /\ SumFunctionOnSet(f, B) = SumFunctionOnSet(g, rest)
  BY <1>2, <1>3, <1>4, <1>5, SumReindexed
<1>7. SumFunctionOnSet(f, A \cup B) = SumFunctionOnSet(f, A) + SumFunctionOnSet(f, B)
  BY <1>3, <1>4, <1>6, SumUnion
<1>8. \A vw \in A : f[vw] = d[vw] /\ d[vw] \in Int
  BY <1>1, <1>2, <1>4
<1>9. SumFunctionOnSet(f, A) = SumFunctionOnSet(d, A) /\ SumFunctionOnSet(d, A) \in Int
  BY <1>4, <1>8, SumSame, SumInt
<1>10. /\ SumOfPairs(p, set) = SumFunctionOnSet(f, A \cup B)
       /\ SumOfPairs(p, rest) = SumFunctionOnSet(d, A)
  BY <1>1, <1>2, <1>3 DEF SumOfPairs
<1> QED
  BY <1>1, <1>6, <1>7, <1>9, <1>10

-----------------------------------------------------------------------------
(* The energy of the bits is the surrogate energy of what they decode to   *)

(* What bit a adds to the square of a station, together with the others.   *)
Cross(p, a, rest) ==
  SumFunctionOnSet([s \in Station |-> 2 * Coefficient(p, a, s) * Shift(p, rest, s)], Station)

LEMMA QuadraticSum ==
  ASSUME NEW p \in ProblemsWithin(Capacity), NEW a \in BitOf(p),
         NEW rest \in SUBSET BitOf(p)
  PROVE  SumFunctionOnSet([v \in rest |-> Quadratic(p, a, v)], rest)
           = ImbalanceWeight * Cross(p, a, rest)
<1>1. PICK m, row, g, c :
        /\ m = [v \in rest |-> [s \in Station |-> 2 * Coefficient(p, a, s) * Coefficient(p, v, s)]]
        /\ row = [v \in rest |-> SumFunctionOnSet(m[v], Station)]
        /\ g = [v \in rest |-> Quadratic(p, a, v)]
        /\ c = [s \in Station |-> 2 * Coefficient(p, a, s) * Shift(p, rest, s)]
  OBVIOUS
<1>2. IsFiniteSet(rest) /\ IsFiniteSet(Station)
  BY BitsFinite, NetworkFinite, FS_Subset
<1>3. \A s \in Station : Coefficient(p, a, s) \in Int
  BY BitNumbers
<1>4. \A v \in rest, s \in Station : Coefficient(p, v, s) \in Int
  BY BitNumbers
<1>5. ASSUME NEW v \in rest, NEW s \in Station
      PROVE  /\ m[v][s] = 2 * Coefficient(p, a, s) * Coefficient(p, v, s)
             /\ m[v][s] \in Int
  <2>1. m[v][s] = 2 * Coefficient(p, a, s) * Coefficient(p, v, s)
    BY <1>1
  <2> QED
    BY <1>3, <1>4, <2>1, Products
<1>6. ASSUME NEW v \in rest
      PROVE  row[v] \in Int /\ g[v] = ImbalanceWeight * row[v]
  <2>1. row[v] = SumFunctionOnSet(m[v], Station)
    BY <1>1
  <2>2. \A s \in Station : m[v][s] \in Int
    BY <1>5
  <2>3. SumFunctionOnSet(m[v], Station) \in Int
    BY <1>2, <2>2, SumInt
  <2>4. m[v] = [s \in Station |-> 2 * Coefficient(p, a, s) * Coefficient(p, v, s)]
    BY <1>1
  <2>5. g[v] = Quadratic(p, a, v)
    BY <1>1
  <2>6. g[v] = ImbalanceWeight * SumFunctionOnSet(m[v], Station)
    BY <2>4, <2>5 DEF Quadratic
  <2> QED
    BY <2>1, <2>3, <2>6
<1>7. SumFunctionOnSet(g, rest) = ImbalanceWeight * SumFunctionOnSet(row, rest)
  <2>1. ImbalanceWeight \in Int
    BY SolversAssumption
  <2> QED
    BY <1>2, <1>6, <2>1, SumScaled
<1>8. ASSUME NEW s \in Station
      PROVE  c[s] = SumFunctionOnSet(Column(m, rest, s), rest)
  <2>1. PICK f, h : /\ f = [v \in rest |-> Coefficient(p, v, s)]
                    /\ h = [v \in rest |-> m[v][s]]
    OBVIOUS
  <2>2. PICK k \in Int : k = 2 * Coefficient(p, a, s)
    BY <1>3
  <2>3. \A v \in rest : f[v] \in Int /\ h[v] = k * f[v]
    BY <1>4, <1>5, <2>1, <2>2
  <2>4. SumFunctionOnSet(h, rest) = k * SumFunctionOnSet(f, rest)
    BY <1>2, <2>3, SumScaled
  <2>5. c[s] = k * Shift(p, rest, s)
    BY <1>1, <2>2
  <2> QED
    BY <2>1, <2>4, <2>5 DEF Shift, Column
<1>9. SumFunctionOnSet(row, rest) = SumFunctionOnSet(c, Station)
  <2>1. \A v \in rest, s \in Station : m[v][s] \in Int
    BY <1>5
  <2>2. \A v \in rest : row[v] = SumFunctionOnSet(m[v], Station)
    BY <1>1
  <2>3. \A s \in Station : c[s] = SumFunctionOnSet(Column(m, rest, s), rest)
    BY <1>8
  <2> QED
    BY <1>2, <2>1, <2>2, <2>3, SumSwap
<1> QED
  BY <1>1, <1>7, <1>9 DEF Cross

LEMMA LinearNumber ==
  ASSUME NEW p \in ProblemsWithin(Capacity), NEW a \in BitOf(p)
  PROVE  /\ Linear(p, a) \in Int
         /\ \A s \in Station : /\ Coefficient(p, a, s) \in Int /\ Excess(p, s) \in Int
                               /\ 2 * Excess(p, s) * Coefficient(p, a, s)
                                    + Coefficient(p, a, s) * Coefficient(p, a, s) \in Int
<1>1. \A s \in Station : Coefficient(p, a, s) \in Int /\ Excess(p, s) \in Int
  BY BitNumbers, GivenNumbers DEF Excess
<1>2. \A s \in Station : /\ 2 * Excess(p, s) * Coefficient(p, a, s) \in Int
                         /\ Coefficient(p, a, s) * Coefficient(p, a, s) \in Int
  BY <1>1, Products
<1>3. PICK f : f = [s \in Station |-> 2 * Excess(p, s) * Coefficient(p, a, s)
                                      + Coefficient(p, a, s) * Coefficient(p, a, s)]
  OBVIOUS
<1>4. \A s \in Station : f[s] \in Int
  <2>1. ASSUME NEW s \in Station PROVE f[s] \in Int
    <3>1. PICK i \in Int, j \in Int :
            /\ i = 2 * Excess(p, s) * Coefficient(p, a, s)
            /\ j = Coefficient(p, a, s) * Coefficient(p, a, s)
      BY <1>2
    <3>2. f[s] = i + j
      BY <1>3, <3>1
    <3> QED
      BY <3>2
  <2> QED
    BY <2>1
<1>5. SumFunctionOnSet(f, Station) \in Int
  BY <1>4, NetworkFinite, SumInt
<1>6. ImbalanceWeight * SumFunctionOnSet(f, Station) \in Int
  BY <1>5, SolversAssumption, Prices
<1>7. WeightOf(p, a) \in Nat /\ Distance[a[1]] \in Nat
  BY BitNumbers, NetworkAssumption
<1>8. DistanceCost * (Distance[a[1]] * WeightOf(p, a)) \in Int
  BY <1>7, NetworkAssumption, Prices
<1>9. Linear(p, a) \in Int
  BY <1>3, <1>6, <1>8 DEF Linear
<1>10. \A s \in Station : 2 * Excess(p, s) * Coefficient(p, a, s)
                            + Coefficient(p, a, s) * Coefficient(p, a, s) \in Int
  BY <1>3, <1>4
<1> QED
  BY <1>1, <1>9, <1>10

LEMMA EnergyStep ==
  ASSUME NEW p \in ProblemsWithin(Capacity), NEW set \in SUBSET BitOf(p), NEW a \in set,
         NEW rest, rest = set \ {a}, Energy(p, rest) \in Int
  PROVE  Energy(p, set) = Energy(p, rest) + Linear(p, a) + ImbalanceWeight * Cross(p, a, rest)
<1>1. PICK f, g, base :
        /\ f = [v \in set |-> Linear(p, v)] /\ g = [v \in rest |-> Linear(p, v)]
        /\ base = ImbalanceWeight
                    * SumFunctionOnSet([s \in Station |-> Excess(p, s) * Excess(p, s)], Station)
  OBVIOUS
<1>2. /\ Energy(p, set) = base + SumFunctionOnSet(f, set) + SumOfPairs(p, set)
      /\ Energy(p, rest) = base + SumFunctionOnSet(g, rest) + SumOfPairs(p, rest)
  BY <1>1 DEF Energy, SumOfPairs
<1>3. IsFiniteSet(set) /\ IsFiniteSet(rest)
  BY BitsFinite, FS_Subset
<1>4. \A v \in set : f[v] \in Int /\ f[v] = Linear(p, v)
  BY <1>1, LinearNumber
<1>5. SumFunctionOnSet(f, set) = Linear(p, a) + SumFunctionOnSet(f, rest)
  BY <1>3, <1>4, SumPick
<1>6. \A v \in rest : f[v] = g[v] /\ g[v] \in Int
  BY <1>1, <1>4
<1>7. SumFunctionOnSet(f, rest) = SumFunctionOnSet(g, rest) /\ SumFunctionOnSet(g, rest) \in Int
  BY <1>3, <1>6, SumSame, SumInt
<1>8. /\ SumOfPairs(p, set) = SumOfPairs(p, rest) + ImbalanceWeight * Cross(p, a, rest)
      /\ SumOfPairs(p, rest) \in Int
  <2>1. a \in BitOf(p) /\ rest \in SUBSET BitOf(p)
    OBVIOUS
  <2>2. /\ SumOfPairs(p, set) = SumOfPairs(p, rest)
              + SumFunctionOnSet([v \in rest |-> Quadratic(p, a, v)], rest)
        /\ SumOfPairs(p, rest) \in Int
    BY PairsStep
  <2> QED
    BY <2>1, <2>2, QuadraticSum
<1>9. Linear(p, a) \in Int
  BY LinearNumber
<1>10. Cross(p, a, rest) \in Int
  <2>1. PICK c : c = [s \in Station |-> 2 * Coefficient(p, a, s) * Shift(p, rest, s)]
    OBVIOUS
  <2>2. \A s \in Station : Coefficient(p, a, s) \in Int /\ Shift(p, rest, s) \in Int
    BY LinearNumber, ShiftNumber
  <2>3. \A s \in Station : c[s] \in Int
    BY <2>1, <2>2, Products
  <2> QED
    BY <2>1, <2>3, NetworkFinite, SumInt DEF Cross
<1>11. PICK k \in Int : k = ImbalanceWeight * Cross(p, a, rest)
  BY <1>10, SolversAssumption, Prices
<1>12. base \in Int
  <2>1. PICK q : q = [s \in Station |-> Excess(p, s) * Excess(p, s)]
    OBVIOUS
  <2>2. \A s \in Station : Excess(p, s) \in Int
    BY LinearNumber
  <2>3. \A s \in Station : q[s] \in Int
    BY <2>1, <2>2, Products
  <2>4. SumFunctionOnSet(q, Station) \in Int
    BY <2>3, NetworkFinite, SumInt
  <2> QED
    BY <1>1, <2>1, <2>4, SolversAssumption, Prices
<1> QED
  BY <1>2, <1>5, <1>7, <1>8, <1>9, <1>11, <1>12

LEMMA SquareGrows ==
  ASSUME NEW b \in Int, NEW t \in Int, NEW h \in Int, NEW c \in Int
  PROVE  ((b + h + c) - t) * ((b + h + c) - t)
           = ((b + h) - t) * ((b + h) - t) + ((2 * (b - t) * c + c * c) + 2 * c * h)
OBVIOUS

Squares(p, x) ==
  [s \in Station |-> (FinalInventory(p, x)[s] - p.target[s])
                     * (FinalInventory(p, x)[s] - p.target[s])]

LEMMA SurrogateNumber ==
  ASSUME NEW p \in ProblemsWithin(Capacity), NEW x \in [Pair -> Nat]
  PROVE  /\ Surrogate(p, x) = ImbalanceWeight * SumFunctionOnSet(Squares(p, x), Station)
                                + DistanceCost * Way(x)
         /\ SumFunctionOnSet(Squares(p, x), Station) \in Nat /\ Way(x) \in Nat
         /\ Surrogate(p, x) \in Nat
<1>1. \A s \in Station : FinalInventory(p, x)[s] \in Int /\ p.target[s] \in Int
  BY FinalNumbers, GivenNumbers
<1>2. \A s \in Station : Squares(p, x)[s] \in Nat
  <2>1. ASSUME NEW s \in Station PROVE Squares(p, x)[s] \in Nat
    <3>1. PICK d \in Int : d = FinalInventory(p, x)[s] - p.target[s]
      BY <1>1
    <3>2. Squares(p, x)[s] = d * d
      BY <3>1 DEF Squares
    <3> QED
      BY <3>2, Products
  <2> QED
    BY <2>1
<1>3. SumFunctionOnSet(Squares(p, x), Station) \in Nat
  BY <1>2, NetworkFinite, SumNat
<1>4. Way(x) \in Nat
  BY PlanCostNumber DEF Way
<1>5. Surrogate(p, x) = ImbalanceWeight * SumFunctionOnSet(Squares(p, x), Station)
                          + DistanceCost * Way(x)
  BY DEF Surrogate, Squares, Way
<1>6. PICK i \in Nat, j \in Nat :
        /\ i = ImbalanceWeight * SumFunctionOnSet(Squares(p, x), Station)
        /\ j = DistanceCost * Way(x)
  BY <1>3, <1>4, SolversAssumption, NetworkAssumption, Prices
<1> QED
  BY <1>3, <1>4, <1>5, <1>6

LEMMA SurrogateStep ==
  ASSUME NEW p \in ProblemsWithin(Capacity), NEW set \in SUBSET BitOf(p), NEW a \in set,
         NEW rest, rest = set \ {a}
  PROVE  Surrogate(p, Decode(p, set))
           = Surrogate(p, Decode(p, rest)) + Linear(p, a) + ImbalanceWeight * Cross(p, a, rest)
<1>1. PICK x, y, e, q : /\ x = Decode(p, rest) /\ y = Decode(p, set)
                        /\ e = a[1] /\ q = WeightOf(p, a)
  OBVIOUS
<1>2. e \in Pair /\ q \in Nat
  BY <1>1, BitNumbers
<1>3. x \in [Pair -> Nat] /\ y \in [Pair -> Nat]
  BY <1>1, DecodesIntoBox
<1>4. Way(y) = Way(x) + Distance[e] * q
  <2>1. More(x, y, e, q)
    BY <1>1, BitAdded
  <2> QED
    BY <1>2, <2>1, WayPaid DEF Way
<1>5. PICK lin, cross, inc :
        /\ lin = [s \in Station |-> 2 * Excess(p, s) * Coefficient(p, a, s)
                                    + Coefficient(p, a, s) * Coefficient(p, a, s)]
        /\ cross = [s \in Station |-> 2 * Coefficient(p, a, s) * Shift(p, rest, s)]
        /\ inc = [s \in Station |-> lin[s] + cross[s]]
  OBVIOUS
<1>6. PICK old, new : old = Squares(p, x) /\ new = Squares(p, y)
  OBVIOUS
<1>7. ASSUME NEW s \in Station
      PROVE  /\ lin[s] \in Int /\ cross[s] \in Int /\ inc[s] = lin[s] + cross[s]
             /\ old[s] \in Int /\ new[s] = old[s] + inc[s]
  <2>1. PICK b, t, h, c \in Int : /\ b = p.bikes[s] /\ t = p.target[s]
                                  /\ h = Shift(p, rest, s) /\ c = Coefficient(p, a, s)
    <3>1. p.bikes[s] \in Int /\ p.target[s] \in Int
      BY GivenNumbers
    <3>2. Shift(p, rest, s) \in Int
      BY ShiftNumber
    <3>3. Coefficient(p, a, s) \in Int
      BY BitNumbers
    <3> QED
      BY <3>1, <3>2, <3>3
  <2>2. lin[s] = 2 * (b - t) * c + c * c
    BY <1>5, <2>1 DEF Excess
  <2>3. cross[s] = 2 * c * h
    BY <1>5, <2>1
  <2>4. FinalInventory(p, x)[s] = b + h
    BY <1>1, <2>1, FinalIsShifted
  <2>5. FinalInventory(p, y)[s] = b + h + c
    <3>1. FinalInventory(p, y)[s] = FinalInventory(p, x)[s] + Coefficient(p, a, s)
      BY <1>1, FinalStep
    <3> QED
      BY <2>1, <2>4, <3>1
  <2>6. old[s] = ((b + h) - t) * ((b + h) - t)
    BY <1>6, <2>1, <2>4 DEF Squares
  <2>7. new[s] = ((b + h + c) - t) * ((b + h + c) - t)
    BY <1>6, <2>1, <2>5 DEF Squares
  <2>8. new[s] = old[s] + (lin[s] + cross[s])
    BY <2>1, <2>2, <2>3, <2>6, <2>7, SquareGrows
  <2>9. lin[s] \in Int /\ cross[s] \in Int /\ old[s] \in Int
    <3>1. PICK m \in Int : m = b - t
      BY <2>1
    <3>2. PICK i \in Int, j \in Int : i = 2 * m * c /\ j = c * c
      BY <2>1, <3>1, Products
    <3>3. lin[s] = i + j
      BY <2>2, <3>1, <3>2
    <3>4. PICK d \in Int : d = (b + h) - t
      BY <2>1
    <3>5. old[s] = d * d
      BY <2>6, <3>4
    <3> QED
      BY <2>1, <2>3, <3>2, <3>3, <3>4, <3>5, Products
  <2>10. inc[s] = lin[s] + cross[s]
    BY <1>5
  <2> QED
    BY <2>8, <2>9, <2>10
<1>8. SumFunctionOnSet(inc, Station)
        = SumFunctionOnSet(lin, Station) + SumFunctionOnSet(cross, Station)
  BY <1>7, NetworkFinite, SumOfSum
<1>9. SumFunctionOnSet(new, Station)
        = SumFunctionOnSet(old, Station) + SumFunctionOnSet(inc, Station)
  <2>1. \A s \in Station : old[s] \in Int /\ inc[s] \in Int /\ new[s] = old[s] + inc[s]
    <3>1. ASSUME NEW s \in Station
          PROVE  old[s] \in Int /\ inc[s] \in Int /\ new[s] = old[s] + inc[s]
      <4>1. PICK i \in Int, j \in Int : i = lin[s] /\ j = cross[s]
        BY <1>7
      <4>2. inc[s] = i + j
        BY <1>7, <4>1
      <4> QED
        BY <1>7, <4>2
    <3> QED
      BY <3>1
  <2> QED
    BY <2>1, NetworkFinite, SumOfSum
<1>10. PICK O, L, C \in Int : /\ O = SumFunctionOnSet(old, Station)
                              /\ L = SumFunctionOnSet(lin, Station)
                              /\ C = SumFunctionOnSet(cross, Station)
  <2>1. SumFunctionOnSet(old, Station) \in Int
    BY <1>7, NetworkFinite, SumInt
  <2>2. SumFunctionOnSet(lin, Station) \in Int
    BY <1>7, NetworkFinite, SumInt
  <2>3. SumFunctionOnSet(cross, Station) \in Int
    BY <1>7, NetworkFinite, SumInt
  <2> QED
    BY <2>1, <2>2, <2>3
<1>11. /\ Surrogate(p, x) = ImbalanceWeight * O + DistanceCost * Way(x)
       /\ Surrogate(p, y) = ImbalanceWeight * (O + (L + C)) + DistanceCost * Way(y)
  <2>1. /\ Surrogate(p, x) = ImbalanceWeight * SumFunctionOnSet(old, Station) + DistanceCost * Way(x)
        /\ Surrogate(p, y) = ImbalanceWeight * SumFunctionOnSet(new, Station) + DistanceCost * Way(y)
    BY <1>3, <1>6, SurrogateNumber
  <2> QED
    BY <1>8, <1>9, <1>10, <2>1
<1>12. Linear(p, a) = DistanceCost * (Distance[e] * q) + ImbalanceWeight * L
  BY <1>1, <1>5, <1>10 DEF Linear
<1>13. Cross(p, a, rest) = C
  BY <1>5, <1>10 DEF Cross
<1>14. PICK w \in Int, d \in Int : w = Way(x) /\ d = Distance[e] * q
  <2>1. Way(x) \in Int
    BY <1>3, SurrogateNumber
  <2>2. Distance[e] \in Nat
    BY <1>2, NetworkAssumption
  <2>3. Distance[e] * q \in Int
    BY <1>2, <2>2, Prices
  <2> QED
    BY <2>1, <2>3
<1>15. /\ ImbalanceWeight * (O + (L + C))
            = ImbalanceWeight * O + (ImbalanceWeight * L + ImbalanceWeight * C)
       /\ DistanceCost * (w + d) = DistanceCost * w + DistanceCost * d
  <2>1. ImbalanceWeight \in Int /\ DistanceCost \in Int /\ L + C \in Int
    BY <1>10, SolversAssumption, NetworkAssumption
  <2>2. PICK k \in Int : k = L + C
    BY <2>1
  <2>3. ImbalanceWeight * (O + k) = ImbalanceWeight * O + ImbalanceWeight * k
    BY <1>10, <2>1, <2>2, Distributes
  <2>4. ImbalanceWeight * (L + C) = ImbalanceWeight * L + ImbalanceWeight * C
    BY <1>10, <2>1, Distributes
  <2>5. DistanceCost * (w + d) = DistanceCost * w + DistanceCost * d
    BY <1>14, <2>1, Distributes
  <2> QED
    BY <2>2, <2>3, <2>4, <2>5
<1>16. PICK i, j, k, m, n \in Int :
         /\ i = ImbalanceWeight * O /\ j = ImbalanceWeight * L /\ k = ImbalanceWeight * C
         /\ m = DistanceCost * w /\ n = DistanceCost * d
  BY <1>10, <1>14, SolversAssumption, NetworkAssumption, Prices
<1>17. Surrogate(p, x) = i + m
  BY <1>11, <1>14, <1>16
<1>18. Surrogate(p, y) = i + (j + k) + (m + n)
  BY <1>4, <1>11, <1>14, <1>15, <1>16
<1>19. Linear(p, a) = n + j /\ ImbalanceWeight * Cross(p, a, rest) = k
  BY <1>12, <1>13, <1>14, <1>16
<1>20. i + (j + k) + (m + n) = (i + m) + (n + j) + k
  BY <1>16
<1> QED
  BY <1>1, <1>17, <1>18, <1>19, <1>20

LEMMA EnergyIsSurrogate ==
  ASSUME NEW p \in ProblemsWithin(Capacity), NEW set \in SUBSET BitOf(p)
  PROVE  /\ Energy(p, set) = Surrogate(p, Decode(p, set))
         /\ Energy(p, set) \in Nat
<1> DEFINE G == {t \in SUBSET set : Energy(p, t) = Surrogate(p, Decode(p, t))}
<1>1. ASSUME NEW t \in SUBSET set, \A v \in t : t \ {v} \in G PROVE t \in G
  <2>0. t \in SUBSET BitOf(p)
    OBVIOUS
  <2>1. CASE t = {}
    <3>1. IsFiniteSet({}) /\ BitPairs({}) = {}
      BY FS_EmptySet DEF BitPairs
    <3>2. PICK f, d, q :
            /\ f = [v \in {} |-> Linear(p, v)]
            /\ d = [vw \in {} |-> Quadratic(p, vw[1], vw[2])]
            /\ q = [s \in Station |-> Excess(p, s) * Excess(p, s)]
      OBVIOUS
    <3>3. SumFunctionOnSet(f, {}) = 0 /\ SumFunctionOnSet(d, {}) = 0
      BY <3>1, SumStep
    <3>4. Energy(p, {}) = ImbalanceWeight * SumFunctionOnSet(q, Station) + 0 + 0
      BY <3>1, <3>2, <3>3 DEF Energy
    <3>5. PICK z : z = Squares(p, NoMove)
      OBVIOUS
    <3>6. ASSUME NEW s \in Station
          PROVE  z[s] = q[s]
      <4>1. FinalInventory(p, NoMove)[s] = p.bikes[s] - 0 + 0 /\ p.bikes[s] \in Int
        BY NothingMoves, FinalNumbers, GivenNumbers
      <4>2. FinalInventory(p, NoMove)[s] = p.bikes[s]
        BY <4>1
      <4> QED
        BY <3>2, <3>5, <4>2 DEF Squares, Excess
    <3>7. SumFunctionOnSet(z, Station) = SumFunctionOnSet(q, Station)
      BY <3>6, NetworkFinite, SumSame
    <3>8. Way(NoMove) = 0
      <4>1. PICK r : r = [e \in Pair |-> Distance[e] * NoMove[e]]
        OBVIOUS
      <4>2. \A e \in Pair : Distance[e] \in Nat
        BY NetworkAssumption
      <4>3. \A e \in Pair : r[e] = 0
        BY <4>1, <4>2 DEF NoMove
      <4>4. IsFiniteSet(Pair)
        BY NetworkFinite
      <4> QED
        BY <4>1, <4>3, <4>4, SumZero DEF Way
    <3>9. /\ Surrogate(p, NoMove) = ImbalanceWeight * SumFunctionOnSet(z, Station) + DistanceCost * 0
          /\ SumFunctionOnSet(z, Station) \in Nat
      BY <3>5, <3>8, NothingMoves, SurrogateNumber
    <3>10. PICK k \in Int : k = ImbalanceWeight * SumFunctionOnSet(z, Station)
      BY <3>9, SolversAssumption, Prices
    <3>11. DistanceCost * 0 = 0
      BY NetworkAssumption
    <3>12. Energy(p, {}) = k /\ Surrogate(p, NoMove) = k
      BY <3>4, <3>7, <3>9, <3>10, <3>11
    <3>13. Energy(p, t) = Surrogate(p, Decode(p, t))
      BY <2>1, <3>12, NoBits
    <3> QED
      BY <3>13
  <2>2. CASE t # {}
    <3>1. PICK a \in t : TRUE
      BY <2>2
    <3>2. PICK rest \in SUBSET BitOf(p) : rest = t \ {a}
      OBVIOUS
    <3>3. Energy(p, rest) = Surrogate(p, Decode(p, rest))
      BY <1>1, <3>2
    <3>4. Energy(p, rest) \in Int
      <4>1. Decode(p, rest) \in [Pair -> Nat]
        BY DecodesIntoBox
      <4> QED
        BY <3>3, <4>1, SurrogateNumber
    <3>5. Energy(p, t) = Energy(p, rest) + Linear(p, a) + ImbalanceWeight * Cross(p, a, rest)
      BY <2>0, <3>2, <3>4, EnergyStep
    <3>6. Surrogate(p, Decode(p, t))
            = Surrogate(p, Decode(p, rest)) + Linear(p, a) + ImbalanceWeight * Cross(p, a, rest)
      BY <2>0, <3>2, SurrogateStep
    <3>7. Energy(p, t) = Surrogate(p, Decode(p, t))
      BY <3>3, <3>5, <3>6
    <3> QED
      BY <3>7
  <2> QED
    BY <2>1, <2>2
<1>2. IsFiniteSet(set)
  BY BitsFinite, FS_Subset
<1>3. set \in G
  <2> HIDE DEF G
  <2> QED
    BY <1>1, <1>2, FiniteInduction
<1>4. Decode(p, set) \in [Pair -> Nat]
  BY DecodesIntoBox
<1>5. Surrogate(p, Decode(p, set)) \in Nat
  BY <1>4, SurrogateNumber
<1> QED
  BY <1>3, <1>5

-----------------------------------------------------------------------------
(* A solved QUBO holds what some bits of the least energy decode to.       *)
QuboInv ==
  task = "qubo" /\ status = "solved" =>
    \E S \in SUBSET BitOf(problem) :
      /\ moved = Decode(problem, S)
      /\ \A T \in SUBSET BitOf(problem) : Energy(problem, S) <= Energy(problem, T)

LEMMA LeastEnergy ==
  ASSUME problem \in ProblemsWithin(Capacity), SolveQubo
  PROVE  QuboInv'
<1>1. PICK E : E = {Energy(problem, S) : S \in SUBSET BitOf(problem)}
  OBVIOUS
<1>2. PICK S \in SUBSET BitOf(problem) :
        Energy(problem, S) = Min(E) /\ Answer(Decode(problem, S))
  BY <1>1 DEF SolveQubo
<1>3. E \in SUBSET Nat /\ E # {}
  <2>1. \A T \in SUBSET BitOf(problem) : Energy(problem, T) \in Nat
    BY EnergyIsSurrogate
  <2> QED
    BY <1>1, <1>2, <2>1
<1>4. \A n \in E : Min(E) <= n
  BY <1>3, MinIsLeast
<1>5. \A T \in SUBSET BitOf(problem) : Energy(problem, S) <= Energy(problem, T)
  BY <1>1, <1>2, <1>4
<1>6. problem' = problem /\ moved' = Decode(problem, S)
  BY <1>2 DEF Answer
<1> QED
  BY <1>5, <1>6 DEF QuboInv

LEMMA ControlKeepsQubo ==
  PlanInv /\ QuboInv /\ [ControlNext]_<<vars, controlVars>> => QuboInv'
<1> SUFFICES ASSUME PlanInv, QuboInv, [ControlNext]_<<vars, controlVars>>
             PROVE  QuboInv'
  OBVIOUS
<1>1. problem \in ProblemsWithin(Capacity)
  BY DEF PlanInv, ProblemInv
<1>2. CASE Solve
  <2>1. CASE SolveQubo
    BY <1>1, <2>1, LeastEnergy
  <2>2. CASE GreedyStop \/ Milp \/ MilpFails \/ HoldBack \/ (\E s \in Station : Place(s))
               \/ (\E e \in Pair : GreedyMove(e))
    <3>1. task # "qubo" /\ task' = task
      BY <2>2 DEF GreedyStop, Milp, MilpFails, HoldBack, Place, GreedyMove, Answer
    <3> QED
      BY <3>1 DEF QuboInv
  <2> QED
    BY <1>2, <2>1, <2>2 DEF Solve, Next
<1>3. CASE \E target \in TargetsOf(Policy) : Decide(target)
  BY <1>3 DEF Decide, Given, QuboInv
<1>4. CASE Stay \/ Realize \/ EndPolicy \/ UNCHANGED <<vars, controlVars>>
  <2>1. UNCHANGED <<task, problem, moved, status>>
    BY <1>4 DEF Stay, Realize, EndPolicy, vars
  <2> QED
    BY <2>1 DEF QuboInv
<1>5. CASE Apply
  BY <1>5 DEF Apply, Given, QuboInv
<1> QED
  BY <1>2, <1>3, <1>4, <1>5 DEF ControlNext

(* qubo.py: the encoding reaches every quantity in its box and no other,   *)
(* the energy of any bits is the surrogate energy of what they decode to,  *)
(* and the plan a QUBO is solved to is an optimum of the surrogate.        *)
THEOREM EncodingIsExact == ControlSpec => []EncodingExact
<1>1. ControlInit => StockInv /\ PlanInv /\ QuboInv
  <2>1. ControlInit => QuboInv
    BY DEF ControlInit, Init, QuboInv
  <2> QED
    BY <2>1, InitStockInv, InitPlanInv
<1>2. StockInv /\ PlanInv /\ QuboInv /\ [ControlNext]_<<vars, controlVars>> =>
        (StockInv /\ PlanInv /\ QuboInv)'
  BY ControlNextKeeps, ControlKeepsPlans, ControlKeepsQubo
<1>3. PlanInv /\ QuboInv => EncodingExact
  <2> SUFFICES ASSUME PlanInv, QuboInv, task = "qubo" PROVE EncodingExact
    BY DEF EncodingExact
  <2>1. problem \in ProblemsWithin(Capacity)
    BY DEF PlanInv, ProblemInv
  <2>2. {Decode(problem, S) : S \in SUBSET BitOf(problem)} = Box(problem)
    <3>1. \A S \in SUBSET BitOf(problem) : Decode(problem, S) \in Box(problem)
      BY <2>1, DecodesIntoBox
    <3>2. \A x \in Box(problem) : \E S \in SUBSET BitOf(problem) : x = Decode(problem, S)
      BY <2>1, BoxIsDecoded
    <3> QED
      BY <3>1, <3>2
  <2>3. \A S \in SUBSET BitOf(problem) :
          Energy(problem, S) = Surrogate(problem, Decode(problem, S))
    BY <2>1, EnergyIsSurrogate
  <2>4. ASSUME status = "solved", NEW x \in Box(problem)
        PROVE  Surrogate(problem, moved) <= Surrogate(problem, x)
    <3>1. PICK S \in SUBSET BitOf(problem) :
            /\ moved = Decode(problem, S)
            /\ \A T \in SUBSET BitOf(problem) : Energy(problem, S) <= Energy(problem, T)
      BY <2>4 DEF QuboInv
    <3>2. PICK T \in SUBSET BitOf(problem) : x = Decode(problem, T)
      BY <2>1, BoxIsDecoded
    <3>3. Energy(problem, S) <= Energy(problem, T)
      BY <3>1
    <3> QED
      BY <2>3, <3>1, <3>2, <3>3
  <2> QED
    BY <2>2, <2>3, <2>4 DEF EncodingExact
<1> QED
  BY <1>1, <1>2, <1>3, PTL DEF ControlSpec
=============================================================================
