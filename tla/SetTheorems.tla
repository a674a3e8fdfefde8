---------------------------- MODULE SetTheorems -----------------------------
(***************************************************************************)
(* What the models' operators on sets of numbers compute: least elements,  *)
(* and sums over finite sets.  A sum is a fold that takes the elements in  *)
(* an order nobody knows; that it may be split, extended and compared as   *)
(* sums are follows by looking at a least counterexample, for which the    *)
(* subsets of a finite set are well founded.                               *)
(***************************************************************************)
EXTENDS Integers, FiniteSets, FiniteSetsExt, Functions, FiniteSetTheorems, TLAPS

(* A well-founded relation that contains < has least elements.               *)
LEMMA LeastElement ==
  ASSUME NEW R, NEW T, T \subseteq Nat, T # {}, IsWellFoundedOn(R, Nat)
  PROVE  (\A y, z \in Nat : y < z => <<y, z>> \in R)
           => \E x \in T : \A y \in T : x <= y
<1>1. PICK x \in T : \A y \in T : ~ (<<y, x>> \in R)
  BY WFMin
<1> HAVE \A y, z \in Nat : y < z => <<y, z>> \in R
<1>2. \A y \in T : ~ (y < x)
  BY <1>1, Zenon
<1> QED
  BY <1>2

(* What min() returns for a set of counts that is not empty.                 *)
LEMMA MinIsLeast ==
  ASSUME NEW T, T \subseteq Nat, T # {}
  PROVE  Min(T) \in T /\ \A y \in T : Min(T) <= y
<1>1. \A y, z \in Nat : y < z => <<y, z>> \in OpToRel(<, Nat)
  BY DEF OpToRel
<1>2. \E x \in T : \A y \in T : x <= y
  BY <1>1, NatLessThanWellFounded, LeastElement, Zenon
<1> QED
  BY <1>2 DEF Min

(* The smaller of two counts.                                               *)
LEMMA MinOfTwo ==
  \A m, n \in Nat : Min({m, n}) \in Nat /\ Min({m, n}) <= n
<1> SUFFICES ASSUME NEW m \in Nat, NEW n \in Nat
             PROVE  Min({m, n}) \in Nat /\ Min({m, n}) <= n
  OBVIOUS
<1>1. \E x \in {m, n} : \A y \in {m, n} : x <= y
  OBVIOUS
<1> QED
  BY <1>1 DEF Min

(* A number cut off at zero.                                                 *)
LEMMA MaxWithZero ==
  \A n \in Int : Max({0, n}) \in Nat
<1> SUFFICES ASSUME NEW n \in Int
             PROVE  Max({0, n}) \in Nat
  OBVIOUS
<1>1. \E x \in {0, n} : \A y \in {0, n} : x >= y
  OBVIOUS
<1> QED
  BY <1>1 DEF Max

----------------------------------------------------------------------------

(* The element a fold takes first.                                           *)
Pick(s) == CHOOSE x \in s : TRUE

(* The equation of the fold, and the functions that satisfy it on all        *)
(* subsets of S.                                                             *)
Body(h, g, s) == IF s = {} THEN 0 ELSE h[Pick(s)] + g[s \ {Pick(s)}]

Sums(h, g, S) == g = [s \in SUBSET S |-> Body(h, g, s)]

(* A non-empty set has a first element.                                      *)
LEMMA PickIn == \A s : s # {} => Pick(s) \in s
BY Zenon DEF Pick

(* A sum is the value at S of a function that satisfies the equation.        *)
LEMMA SumDef == \A h, S : SumFunctionOnSet(h, S) = (CHOOSE g : Sums(h, g, S))[S]
BY Zenon DEF SumFunctionOnSet, FoldFunctionOnSet, MapThenFoldSet, Sums, Body, Pick

(* Among subsets of a finite set there are least ones.                       *)
LEMMA LeastSubset ==
  ASSUME NEW S, IsFiniteSet(S), NEW B, B \subseteq SUBSET S, B # {}
  PROVE  \E T \in B : \A U \in B : U \subseteq T => U = T
<1>1. IsWellFoundedOn(StrictSubsetOrdering(S), SUBSET S)
  BY FS_StrictSubsetOrderingWellFounded, FS_FiniteSubsetsOfFinite
<1>2. PICK T \in B : \A U \in B : ~(<<U, T>> \in StrictSubsetOrdering(S))
  BY <1>1, WFMin, Zenon
<1> QED
  BY <1>2 DEF StrictSubsetOrdering

(* Functions that satisfy the equation agree where both are defined.         *)
LEMMA SumsUnique ==
  ASSUME NEW S, IsFiniteSet(S), NEW T, NEW h, NEW f, NEW g,
         Sums(h, f, S), Sums(h, g, T), S \subseteq T
  PROVE  \A s \in SUBSET S : f[s] = g[s]
<1> DEFINE B == {s \in SUBSET S : f[s] # g[s]}
<1> SUFFICES ASSUME B # {} PROVE FALSE
  OBVIOUS
<1>1. PICK s \in B : \A u \in B : u \subseteq s => u = s
  <2>1. B \subseteq SUBSET S
    OBVIOUS
  <2> HIDE DEF B
  <2> QED
    BY <2>1, LeastSubset
<1>2. s \in SUBSET S /\ s \in SUBSET T
  OBVIOUS
<1>3. f[s] = Body(h, f, s) /\ g[s] = Body(h, g, s)
  BY <1>2, Zenon DEF Sums
<1>4. s # {}
  BY <1>3 DEF Body
<1>5. Pick(s) \in s
  BY <1>4, PickIn
<1>6. f[s \ {Pick(s)}] = g[s \ {Pick(s)}]
  BY <1>1, <1>5
<1> QED
  BY <1>3, <1>6 DEF Body

(* There is such a function: a least set without one would get one from its  *)
(* subsets.                                                                  *)
LEMMA SumsExist ==
  ASSUME NEW S, IsFiniteSet(S), NEW h
  PROVE  \E g : Sums(h, g, S)
<1> DEFINE B == {s \in SUBSET S : ~ \E g : Sums(h, g, s)}
<1> SUFFICES ASSUME B # {} PROVE FALSE
  OBVIOUS
<1>1. PICK T \in B : \A u \in B : u \subseteq T => u = T
  <2>1. B \subseteq SUBSET S
    OBVIOUS
  <2> HIDE DEF B
  <2> QED
    BY <2>1, LeastSubset
<1> DEFINE F(u) == CHOOSE g : Sums(h, g, u)
<1> DEFINE H == [u \in SUBSET T |-> F(u)[u]]
<1> DEFINE G == [u \in SUBSET T |-> Body(h, H, u)]
<1>2. \A u \in SUBSET T : u # T => Sums(h, F(u), u)
  <2> SUFFICES ASSUME NEW u \in SUBSET T, u # T PROVE Sums(h, F(u), u)
    OBVIOUS
  <2>1. \E g : Sums(h, g, u)
    BY <1>1
  <2> QED
    BY <2>1, Zenon
<1>3. \A u \in SUBSET T : IsFiniteSet(u)
  BY FS_Subset
<1> HIDE DEF F
<1>4. \A u \in SUBSET T : u # T => G[u] = H[u]
  <2> SUFFICES ASSUME NEW u \in SUBSET T, u # T PROVE Body(h, H, u) = F(u)[u]
    OBVIOUS
  <2>1. F(u)[u] = Body(h, F(u), u)
    BY <1>2, Zenon DEF Sums
  <2>2. CASE u = {}
    BY <2>1, <2>2 DEF Body
  <2>3. CASE u # {}
    <3> DEFINE v == u \ {Pick(u)}
    <3>1. v \in SUBSET u /\ v # T /\ v \in SUBSET T
      BY <2>3, PickIn
    <3>2. Sums(h, F(u), u) /\ Sums(h, F(v), v) /\ IsFiniteSet(v)
      BY <1>2, <1>3, <3>1
    <3>3. F(v)[v] = F(u)[v]
      BY <3>1, <3>2, SumsUnique
    <3> QED
      BY <2>1, <2>3, <3>1, <3>3 DEF Body
  <2> QED
    BY <2>2, <2>3
<1>5. \A u \in SUBSET T : Body(h, H, u) = Body(h, G, u)
  <2> SUFFICES ASSUME NEW u \in SUBSET T, u # {} PROVE Body(h, H, u) = Body(h, G, u)
    BY DEF Body
  <2>1. u \ {Pick(u)} \in SUBSET T /\ u \ {Pick(u)} # T
    BY PickIn
  <2>2. H[u \ {Pick(u)}] = G[u \ {Pick(u)}]
    BY <1>4, <2>1
  <2> HIDE DEF G, H
  <2> QED
    BY <2>2 DEF Body
<1>6. Sums(h, G, T)
  <2>1. G = [u \in SUBSET T |-> Body(h, H, u)]
    OBVIOUS
  <2> HIDE DEF G
  <2> QED
    BY <2>1, <1>5, Zenon DEF Sums
<1> QED
  BY <1>1, <1>6

(* Hence the sum satisfies the equation it is defined by.                    *)
LEMMA SumStep ==
  ASSUME NEW S, IsFiniteSet(S), NEW h
  PROVE  SumFunctionOnSet(h, S) = IF S = {} THEN 0
           ELSE h[Pick(S)] + SumFunctionOnSet(h, S \ {Pick(S)})
<1> DEFINE F(u) == CHOOSE g : Sums(h, g, u)
<1>1. \A u \in SUBSET S : Sums(h, F(u), u) /\ IsFiniteSet(u)
  <2> SUFFICES ASSUME NEW u \in SUBSET S PROVE Sums(h, F(u), u) /\ IsFiniteSet(u)
    OBVIOUS
  <2>1. IsFiniteSet(u)
    BY FS_Subset
  <2>2. \E g : Sums(h, g, u)
    BY <2>1, SumsExist
  <2> QED
    BY <2>1, <2>2, Zenon
<1>2. SumFunctionOnSet(h, S) = F(S)[S] /\ SumFunctionOnSet(h, S \ {Pick(S)}) = F(S \ {Pick(S)})[S \ {Pick(S)}]
  BY SumDef, Zenon
<1> HIDE DEF F
<1>3. F(S)[S] = Body(h, F(S), S)
  BY <1>1, Zenon DEF Sums
<1>4. F(S)[S \ {Pick(S)}] = F(S \ {Pick(S)})[S \ {Pick(S)}]
  BY <1>1, SumsUnique
<1> QED
  BY <1>2, <1>3, <1>4 DEF Body

(* A sum may be taken from any of its elements on.                           *)
LEMMA SumRemove ==
  ASSUME NEW S, IsFiniteSet(S), NEW h, \A s \in S : h[s] \in Int, NEW x \in S
  PROVE  /\ SumFunctionOnSet(h, S) \in Int
         /\ SumFunctionOnSet(h, S \ {x}) \in Int
         /\ SumFunctionOnSet(h, S) = h[x] + SumFunctionOnSet(h, S \ {x})
<1> DEFINE Sum(T) == SumFunctionOnSet(h, T)
<1>1. \A T \in SUBSET S : /\ T = {} => Sum(T) = 0
                          /\ T # {} => Sum(T) = h[Pick(T)] + Sum(T \ {Pick(T)})
  BY FS_Subset, SumStep
<1> HIDE DEF Sum
<1>2. \A T \in SUBSET S : Sum(T) \in Int
  <2> DEFINE B == {T \in SUBSET S : Sum(T) \notin Int}
  <2> SUFFICES ASSUME B # {} PROVE FALSE
    OBVIOUS
  <2>1. PICK T \in B : \A U \in B : U \subseteq T => U = T
    <3>1. B \subseteq SUBSET S
      OBVIOUS
    <3> HIDE DEF B
    <3> QED
      BY <3>1, LeastSubset
  <2>a. T \in SUBSET S /\ Sum(T) \notin Int
    OBVIOUS
  <2>2. T # {}
    BY ONLY <1>1, <2>a
  <2>3. Pick(T) \in T
    BY <2>2, PickIn
  <2>4. Sum(T \ {Pick(T)}) \in Int
    BY <2>1, <2>3
  <2> QED
    BY <1>1, <2>2, <2>3, <2>4
<1>3. \A T \in SUBSET S : \A y \in T : Sum(T) = h[y] + Sum(T \ {y})
  <2> DEFINE B == {T \in SUBSET S : \E y \in T : Sum(T) # h[y] + Sum(T \ {y})}
  <2> SUFFICES ASSUME B # {} PROVE FALSE
    OBVIOUS
  <2>1. PICK T \in B : \A U \in B : U \subseteq T => U = T
    <3>1. B \subseteq SUBSET S
      OBVIOUS
    <3> HIDE DEF B
    <3> QED
      BY <3>1, LeastSubset
  <2>2. PICK y \in T : Sum(T) # h[y] + Sum(T \ {y})
    OBVIOUS
  <2> DEFINE p == Pick(T)
  <2>3. p \in T /\ Sum(T) = h[p] + Sum(T \ {p}) /\ p # y
    BY <1>1, <2>2, PickIn
  <2> HIDE DEF p
  <2>4. \A U \in SUBSET T : U # T => \A z \in U : Sum(U) = h[z] + Sum(U \ {z})
    BY <2>1
  <2> DEFINE rest == T \ {p, y}
  <2>5. Sum(T \ {p}) = h[y] + Sum(rest)
    <3>1. (T \ {p}) \ {y} = rest /\ y \in T \ {p} /\ T \ {p} # T
      BY <2>2, <2>3
    <3> QED
      BY <2>4, <3>1
  <2>6. Sum(T \ {y}) = h[p] + Sum(rest)
    <3>1. (T \ {y}) \ {p} = rest /\ p \in T \ {y} /\ T \ {y} # T
      BY <2>2, <2>3
    <3> QED
      BY <2>4, <3>1
  <2>7. h[y] \in Int /\ h[p] \in Int /\ Sum(rest) \in Int
    BY <1>2, <2>2, <2>3
  <2> QED
    BY ONLY <2>2, <2>3, <2>5, <2>6, <2>7
<1> QED
  BY <1>2, <1>3 DEF Sum

(* The sum over nothing.                                                     *)
LEMMA SumEmpty == \A h : SumFunctionOnSet(h, {}) = 0
BY FS_EmptySet, SumStep

(* A sum of integers is an integer.                                          *)
LEMMA SumInt ==
  ASSUME NEW S, IsFiniteSet(S), NEW h, \A s \in S : h[s] \in Int
  PROVE  SumFunctionOnSet(h, S) \in Int
<1>1. CASE S = {}
  BY <1>1, SumEmpty
<1>2. CASE S # {}
  BY <1>2, SumRemove
<1> QED
  BY <1>1, <1>2

(* One more element.                                                         *)
LEMMA SumAdd ==
  ASSUME NEW S, IsFiniteSet(S), NEW x, x \notin S,
         NEW h, \A s \in S \cup {x} : h[s] \in Int
  PROVE  SumFunctionOnSet(h, S \cup {x}) = h[x] + SumFunctionOnSet(h, S)
<1>1. IsFiniteSet(S \cup {x}) /\ (S \cup {x}) \ {x} = S
  BY FS_AddElement
<1>2. SumFunctionOnSet(h, S \cup {x}) = h[x] + SumFunctionOnSet(h, (S \cup {x}) \ {x})
  BY ONLY <1>1, SumRemove, \A s \in S \cup {x} : h[s] \in Int
<1> QED
  BY <1>1, <1>2

(* Larger summands make a larger sum.                                        *)
LEMMA SumMonotone ==
  ASSUME NEW S, IsFiniteSet(S), NEW h, NEW k,
         \A s \in S : h[s] \in Int /\ k[s] \in Int /\ h[s] <= k[s]
  PROVE  SumFunctionOnSet(h, S) <= SumFunctionOnSet(k, S)
<1> DEFINE B == {T \in SUBSET S : ~(SumFunctionOnSet(h, T) <= SumFunctionOnSet(k, T))}
<1> SUFFICES ASSUME B # {} PROVE FALSE
  OBVIOUS
<1>1. PICK T \in B : \A U \in B : U \subseteq T => U = T
  <2>1. B \subseteq SUBSET S
    OBVIOUS
  <2> HIDE DEF B
  <2> QED
    BY <2>1, LeastSubset
<1>2. T \in SUBSET S /\ ~(SumFunctionOnSet(h, T) <= SumFunctionOnSet(k, T))
  OBVIOUS
<1>3. T # {}
  BY ONLY <1>2, SumEmpty
<1>4. PICK x \in T : TRUE
  BY <1>3
<1>5. IsFiniteSet(T) /\ h[x] \in Int /\ k[x] \in Int /\ h[x] <= k[x]
  BY <1>2, <1>4, FS_Subset
<1>6. SumFunctionOnSet(h, T \ {x}) <= SumFunctionOnSet(k, T \ {x})
  BY <1>1, <1>4
<1>7. /\ SumFunctionOnSet(h, T) = h[x] + SumFunctionOnSet(h, T \ {x})
      /\ SumFunctionOnSet(h, T \ {x}) \in Int
  BY <1>2, <1>4, <1>5, SumRemove
<1>8. /\ SumFunctionOnSet(k, T) = k[x] + SumFunctionOnSet(k, T \ {x})
      /\ SumFunctionOnSet(k, T \ {x}) \in Int
  BY <1>2, <1>4, <1>5, SumRemove
<1> QED
  BY ONLY <1>2, <1>5, <1>6, <1>7, <1>8

(* Only the summands matter.                                                 *)
LEMMA SumSame ==
  ASSUME NEW S, IsFiniteSet(S), NEW h, NEW k,
         \A s \in S : h[s] \in Int /\ h[s] = k[s]
  PROVE  SumFunctionOnSet(h, S) = SumFunctionOnSet(k, S)
<1>1. SumFunctionOnSet(h, S) <= SumFunctionOnSet(k, S)
  BY SumMonotone
<1>2. SumFunctionOnSet(k, S) <= SumFunctionOnSet(h, S)
  BY SumMonotone
<1>3. SumFunctionOnSet(h, S) \in Int /\ SumFunctionOnSet(k, S) \in Int
  BY SumInt
<1> QED
  BY <1>1, <1>2, <1>3

(* A sum of zeros.                                                           *)
LEMMA SumZero ==
  ASSUME NEW S, IsFiniteSet(S), NEW h, \A s \in S : h[s] = 0
  PROVE  SumFunctionOnSet(h, S) = 0
<1> DEFINE B == {T \in SUBSET S : SumFunctionOnSet(h, T) # 0}
<1> SUFFICES ASSUME B # {} PROVE FALSE
  OBVIOUS
<1>1. PICK T \in B : \A U \in B : U \subseteq T => U = T
  <2>1. B \subseteq SUBSET S
    OBVIOUS
  <2> HIDE DEF B
  <2> QED
    BY <2>1, LeastSubset
<1>2. T \in SUBSET S /\ SumFunctionOnSet(h, T) # 0
  OBVIOUS
<1>3. PICK x \in T : TRUE
  BY ONLY <1>2, SumEmpty
<1>4. SumFunctionOnSet(h, T \ {x}) = 0
  BY <1>1, <1>3
<1>5. SumFunctionOnSet(h, T) = h[x] + SumFunctionOnSet(h, T \ {x})
  BY <1>2, <1>3, FS_Subset, SumRemove
<1> QED
  BY <1>2, <1>3, <1>4, <1>5

(* A sum of counts is a count.                                               *)
LEMMA SumNat ==
  ASSUME NEW S, IsFiniteSet(S), NEW h, \A s \in S : h[s] \in Nat
  PROVE  SumFunctionOnSet(h, S) \in Nat
<1> DEFINE zero == [s \in S |-> 0]
<1>1. SumFunctionOnSet(zero, S) = 0
  BY SumZero
<1>2. SumFunctionOnSet(zero, S) <= SumFunctionOnSet(h, S)
  BY SumMonotone
<1>3. SumFunctionOnSet(h, S) \in Int
  BY SumInt
<1> QED
  BY ONLY <1>1, <1>2, <1>3

(* The sum over two disjoint sets.                                           *)
LEMMA SumUnion ==
  ASSUME NEW S, NEW T, IsFiniteSet(S), IsFiniteSet(T), S \cap T = {},
         NEW h, \A s \in S \cup T : h[s] \in Int
  PROVE  SumFunctionOnSet(h, S \cup T) = SumFunctionOnSet(h, S) + SumFunctionOnSet(h, T)
<1> DEFINE Sum(U) == SumFunctionOnSet(h, U)
<1> DEFINE B == {U \in SUBSET S : Sum(U \cup T) # Sum(U) + Sum(T)}
<1> SUFFICES ASSUME B # {} PROVE FALSE
  OBVIOUS
<1>1. PICK U \in B : \A V \in B : V \subseteq U => V = U
  <2>1. B \subseteq SUBSET S
    OBVIOUS
  <2> HIDE DEF B
  <2> QED
    BY <2>1, LeastSubset
<1>2. U \in SUBSET S /\ Sum(U \cup T) # Sum(U) + Sum(T)
  OBVIOUS
<1>3. IsFiniteSet(U) /\ IsFiniteSet(U \cup T)
  BY <1>2, FS_Subset, FS_Union
<1>4. Sum(T) \in Int
  BY SumInt
<1>5. U # {}
  <2> SUFFICES ASSUME U = {} PROVE FALSE
    OBVIOUS
  <2>1. U \cup T = T /\ Sum(U) = 0
    BY SumEmpty
  <2>2. Sum(U \cup T) = Sum(T)
    BY <2>1, Zenon
  <2> HIDE DEF Sum, B
  <2> QED
    BY ONLY <1>2, <1>4, <2>1, <2>2
<1>6. PICK x \in U : TRUE
  BY <1>5
<1>7. Sum((U \ {x}) \cup T) = Sum(U \ {x}) + Sum(T)
  <2>1. U \ {x} \in SUBSET S /\ U \ {x} # U /\ U \ {x} \subseteq U
    BY <1>2, <1>6
  <2> HIDE DEF Sum
  <2> QED
    BY <2>1, <1>1
<1>8. Sum((U \cup T) \ {x}) = Sum((U \ {x}) \cup T)
  <2>1. (U \cup T) \ {x} = (U \ {x}) \cup T
    BY <1>2, <1>6
  <2> QED
    BY <2>1, Zenon
<1>9. h[x] \in Int /\ Sum(U) = h[x] + Sum(U \ {x}) /\ Sum(U \ {x}) \in Int
  BY <1>2, <1>3, <1>6, SumRemove
<1>10. Sum(U \cup T) = h[x] + Sum((U \cup T) \ {x})
  BY <1>2, <1>3, <1>6, SumRemove
<1> HIDE DEF Sum, B
<1> QED
  BY ONLY <1>2, <1>4, <1>7, <1>8, <1>9, <1>10

(* Fewer counts make a smaller sum.                                          *)
LEMMA SumSubset ==
  ASSUME NEW S, IsFiniteSet(S), NEW T, T \subseteq S, NEW h, \A s \in S : h[s] \in Nat
  PROVE  SumFunctionOnSet(h, T) <= SumFunctionOnSet(h, S)
<1>1. IsFiniteSet(T) /\ IsFiniteSet(S \ T) /\ T \cup (S \ T) = S /\ T \cap (S \ T) = {}
  BY FS_Subset
<1>2. SumFunctionOnSet(h, T \cup (S \ T)) = SumFunctionOnSet(h, T) + SumFunctionOnSet(h, S \ T)
  BY <1>1, SumUnion
<1>3. SumFunctionOnSet(h, T) \in Nat /\ SumFunctionOnSet(h, S \ T) \in Nat
  BY <1>1, SumNat
<1>4. SumFunctionOnSet(h, S) = SumFunctionOnSet(h, T \cup (S \ T))
  BY <1>1, Zenon
<1> QED
  BY ONLY <1>2, <1>3, <1>4

(* One summand changes.                                                      *)
LEMMA SumChange ==
  ASSUME NEW S, IsFiniteSet(S), NEW x \in S, NEW h, NEW k,
         \A s \in S : h[s] \in Int /\ k[s] \in Int,
         \A s \in S \ {x} : h[s] = k[s]
  PROVE  SumFunctionOnSet(k, S) = SumFunctionOnSet(h, S) + k[x] - h[x]
<1>1. IsFiniteSet(S \ {x})
  BY FS_RemoveElement
<1>2. SumFunctionOnSet(h, S \ {x}) = SumFunctionOnSet(k, S \ {x})
  BY <1>1, SumSame
<1>3. /\ SumFunctionOnSet(h, S) = h[x] + SumFunctionOnSet(h, S \ {x})
      /\ SumFunctionOnSet(h, S \ {x}) \in Int
  BY SumRemove
<1>4. SumFunctionOnSet(k, S) = k[x] + SumFunctionOnSet(k, S \ {x})
  BY SumRemove
<1> QED
  BY ONLY <1>2, <1>3, <1>4, h[x] \in Int, k[x] \in Int
=============================================================================
