------------------------------ MODULE SetSums ------------------------------
(***************************************************************************)
(* Lemmas about the sum of a function over a finite set, SumFunctionOnSet  *)
(* of the Functions module: it is what it should be for every finite set,  *)
(* whatever order the recursion behind it takes the elements in.  The      *)
(* proofs reason with a smallest counterexample, which the library's       *)
(* well-founded orders provide.                                            *)
(***************************************************************************)
EXTENDS Integers, FiniteSetsExt, FiniteSetTheorems, WellFoundedInduction, TLAPS

\* Smallest sets.
LEMMA SmallestSubset ==
  ASSUME NEW S, IsFiniteSet(S), NEW Bad \in SUBSET (SUBSET S), Bad # {}
  PROVE  \E T \in Bad : \A U \in Bad : U \subseteq T => U = T
<1>1. IsWellFoundedOn(StrictSubsetOrdering(S), SUBSET S)
  BY FS_StrictSubsetOrderingWellFounded, FS_FiniteSubsetsOfFinite
<1>2. PICK T \in Bad : \A U \in Bad : <<U, T>> \notin StrictSubsetOrdering(S)
  BY <1>1, WFMin
<1> QED
  BY <1>2 DEF StrictSubsetOrdering

\* Induction over the subsets of a finite set.
LEMMA SetInduction ==
  ASSUME NEW S, IsFiniteSet(S), NEW Good \in SUBSET (SUBSET S),
         \A s \in SUBSET S : (\A t \in SUBSET s : t # s => t \in Good) => s \in Good
  PROVE  S \in Good /\ \A s \in SUBSET S : s \in Good
<1> DEFINE Bad == (SUBSET S) \ Good
<1>1. SUFFICES ASSUME Bad # {} PROVE FALSE
  OBVIOUS
<1>2. PICK T \in Bad : \A U \in Bad : U \subseteq T => U = T
  <2>1. Bad \in SUBSET (SUBSET S)
    OBVIOUS
  <2> HIDE DEF Bad
  <2> QED
    BY <1>1, <2>1, SmallestSubset
<1>3. \A t \in SUBSET T : t # T => t \in Good
  BY <1>2
<1> QED
  BY <1>2, <1>3

\* A set of numbers that is not empty has a smallest one.
LEMMA SmallestNumber ==
  ASSUME NEW Bad \in SUBSET Nat, Bad # {}
  PROVE  \E n \in Bad : \A m \in Bad : n <= m
<1>1. PICK n \in Bad : \A m \in Bad : <<m, n>> \notin OpToRel(<, Nat)
  BY NatLessThanWellFounded, WFMin
<1>2. \A m \in Bad : ~(m < n)
  BY <1>1 DEF OpToRel
<1> QED
  BY <1>2

Chosen(s) == CHOOSE x \in s : TRUE

Unfolds(g, f, s) == g[s] = IF s = {} THEN 0 ELSE f[Chosen(s)] + g[s \ {Chosen(s)}]

FoldOf(g, f, S) ==
  g = [s \in SUBSET S |-> IF s = {} THEN 0 ELSE f[Chosen(s)] + g[s \ {Chosen(s)}]]

\* The sum is the value of a recursive function over the subsets.
LEMMA SumDef == ASSUME NEW f, NEW S
  PROVE SumFunctionOnSet(f, S) = (CHOOSE g : FoldOf(g, f, S))[S]
BY DEF SumFunctionOnSet, FoldFunctionOnSet, MapThenFoldSet, FoldOf, Chosen

\* One step of the induction on the size of the sets.
LEMMA FoldExists ==
  ASSUME NEW S, IsFiniteSet(S), NEW f
  PROVE  \E g : FoldOf(g, f, S)
<1> DEFINE Below(n) == \E g : \A s \in SUBSET S : Cardinality(s) <= n => Unfolds(g, f, s)
<1>1. ASSUME NEW s \in SUBSET S PROVE IsFiniteSet(s) /\ Cardinality(s) \in Nat
  BY FS_Subset, FS_CardinalityType
<1>2. Below(0)
  <2>1. \A s \in SUBSET S : Cardinality(s) <= 0 => s = {}
    BY <1>1, FS_EmptySet
  <2>2. \A s \in SUBSET S : Cardinality(s) <= 0 => Unfolds([s1 \in SUBSET S |-> 0], f, s)
    BY <2>1 DEF Unfolds
  <2> QED
    BY <2>2
<1>3. ASSUME NEW n \in Nat, Below(n) PROVE Below(n + 1)
  <2>1. PICK g : \A s \in SUBSET S : Cardinality(s) <= n => Unfolds(g, f, s)
    BY <1>3
  <2> DEFINE h == [s \in SUBSET S |-> IF s = {} THEN 0 ELSE f[Chosen(s)] + g[s \ {Chosen(s)}]]
  <2>2. ASSUME NEW s \in SUBSET S, Cardinality(s) <= n + 1 PROVE Unfolds(h, f, s)
    <3>1. CASE s = {}
      BY <3>1 DEF Unfolds
    <3>2. CASE s # {}
      <4> DEFINE t == s \ {Chosen(s)}
      <4>1. Chosen(s) \in s
        BY <3>2 DEF Chosen
      <4>2. Cardinality(t) <= n /\ t \in SUBSET S
        BY <1>1, <2>2, <4>1, FS_RemoveElement
      <4>3. Unfolds(g, f, t)
        BY <2>1, <4>2
      <4>4. g[t] = h[t]
        BY <4>2, <4>3 DEF Unfolds
      <4>5. h[s] = f[Chosen(s)] + g[t]
        BY <3>2
      <4> QED
        BY <3>2, <4>4, <4>5 DEF Unfolds
    <3> QED
      BY <3>1, <3>2
  <2> HIDE DEF h
  <2> QED
    BY <2>2
<1>4. \A n \in Nat : Below(n)
  <2> DEFINE Bad == {n \in Nat : ~Below(n)}
  <2> SUFFICES Bad = {}
    OBVIOUS
  <2> HIDE DEF Below
  <2>1. SUFFICES ASSUME Bad # {} PROVE FALSE
    OBVIOUS
  <2>2. PICK n \in Bad : \A m \in Bad : n <= m
    BY <2>1, SmallestNumber
  <2>3. n # 0 /\ n \in Nat
    BY <1>2
  <2>4. n - 1 \in Nat /\ n - 1 \notin Bad
    BY <2>2, <2>3
  <2>5. Below((n - 1) + 1)
    BY <1>3, <2>4
  <2>6. (n - 1) + 1 = n
    BY <2>3
  <2> QED
    BY <2>5, <2>6
<1>5. PICK g : \A s \in SUBSET S : Cardinality(s) <= Cardinality(S) => Unfolds(g, f, s)
  BY <1>1, <1>4
<1>6. \A s \in SUBSET S : Unfolds(g, f, s)
  BY <1>5, FS_Subset
<1> DEFINE h == [s \in SUBSET S |-> g[s]]
<1>7. \A s \in SUBSET S : h[s] = IF s = {} THEN 0 ELSE f[Chosen(s)] + h[s \ {Chosen(s)}]
  BY <1>6 DEF Unfolds
<1>8. FoldOf(h, f, S)
  BY <1>7 DEF FoldOf
<1> QED
  BY <1>8

\* At most one function folds f over the subsets of S.
LEMMA FoldUnique ==
  ASSUME NEW S, IsFiniteSet(S), NEW f, NEW g, NEW h, FoldOf(g, f, S), FoldOf(h, f, S)
  PROVE  g = h
<1> DEFINE Good == {s \in SUBSET S : g[s] = h[s]}
<1>1. ASSUME NEW s \in SUBSET S, \A t \in SUBSET s : t # s => t \in Good PROVE s \in Good
  <2>1. CASE s = {}
    BY <2>1 DEF FoldOf
  <2>2. CASE s # {}
    <3>1. Chosen(s) \in s
      BY <2>2 DEF Chosen
    <3>2. s \ {Chosen(s)} \in Good
      BY <1>1, <3>1
    <3> QED
      BY <2>2, <3>2 DEF FoldOf
  <2> QED
    BY <2>1, <2>2
<1> HIDE DEF Good
<1>2. Good \in SUBSET (SUBSET S)
  BY DEF Good
<1>3. \A s \in SUBSET S : s \in Good
  BY <1>1, <1>2, SetInduction
<1>4. \A s \in SUBSET S : g[s] = h[s]
  BY <1>3 DEF Good
<1> QED
  BY <1>4 DEF FoldOf

\* The recursion behind the sum, for any finite set.
LEMMA SumUnfolds ==
  ASSUME NEW S, IsFiniteSet(S), NEW f
  PROVE  SumFunctionOnSet(f, S) =
           IF S = {} THEN 0 ELSE f[Chosen(S)] + SumFunctionOnSet(f, S \ {Chosen(S)})
<1> DEFINE T == S \ {Chosen(S)}
<1>1. IsFiniteSet(T)
  BY FS_Subset
<1>2. PICK g : FoldOf(g, f, S) /\ SumFunctionOnSet(f, S) = g[S]
  BY FoldExists, SumDef
<1>3. PICK h : FoldOf(h, f, T) /\ SumFunctionOnSet(f, T) = h[T]
  BY <1>1, FoldExists, SumDef
<1> DEFINE k == [s \in SUBSET T |-> g[s]]
<1>4. \A s \in SUBSET T : s \in SUBSET S /\ s \ {Chosen(s)} \in SUBSET T
  OBVIOUS
<1>5. \A s \in SUBSET T : k[s] = IF s = {} THEN 0 ELSE f[Chosen(s)] + k[s \ {Chosen(s)}]
  BY <1>2, <1>4 DEF FoldOf
<1>6. FoldOf(k, f, T)
  BY <1>5 DEF FoldOf
<1>7. k = h
  BY <1>1, <1>3, <1>6, FoldUnique
<1>8. g[T] = h[T]
  BY <1>7
<1>9. g[S] = IF S = {} THEN 0 ELSE f[Chosen(S)] + g[T]
  BY <1>2 DEF FoldOf
<1> QED
  BY <1>2, <1>3, <1>8, <1>9

\* The sum over nothing.
LEMMA SumEmpty == ASSUME NEW f PROVE SumFunctionOnSet(f, {}) = 0
BY SumUnfolds, FS_EmptySet

\* The sum of integers is an integer.
LEMMA SumType ==
  ASSUME NEW S, IsFiniteSet(S), NEW f, \A x \in S : f[x] \in Int
  PROVE  SumFunctionOnSet(f, S) \in Int
<1> DEFINE Good == {s \in SUBSET S : SumFunctionOnSet(f, s) \in Int}
<1>1. ASSUME NEW s \in SUBSET S, \A t \in SUBSET s : t # s => t \in Good PROVE s \in Good
  <2>1. CASE s = {}
    BY <2>1, SumEmpty
  <2>2. CASE s # {}
    <3>1. Chosen(s) \in s
      BY <2>2 DEF Chosen
    <3>2. SumFunctionOnSet(f, s \ {Chosen(s)}) \in Int
      BY <1>1, <3>1
    <3>3. SumFunctionOnSet(f, s) = f[Chosen(s)] + SumFunctionOnSet(f, s \ {Chosen(s)})
      BY <2>2, SumUnfolds, FS_Subset
    <3>4. f[Chosen(s)] \in Int
      BY <3>1
    <3> QED
      BY <3>2, <3>3, <3>4
  <2> QED
    BY <2>1, <2>2
<1> HIDE DEF Good
<1>2. Good \in SUBSET (SUBSET S)
  BY DEF Good
<1>3. S \in Good
  BY <1>1, <1>2, SetInduction
<1> QED
  BY <1>3 DEF Good

\* Any element can be taken out first.
LEMMA SumTake ==
  ASSUME NEW S, IsFiniteSet(S), NEW f, \A x \in S : f[x] \in Int, NEW e \in S
  PROVE  SumFunctionOnSet(f, S) = f[e] + SumFunctionOnSet(f, S \ {e})
<1> DEFINE Total(s) == SumFunctionOnSet(f, s)
           Good == {s \in SUBSET S : \A x \in s : Total(s) = f[x] + Total(s \ {x})}
<1>1. \A s \in SUBSET S : Total(s) \in Int
  BY SumType, FS_Subset
<1>2. \A s \in SUBSET S : s # {} => Chosen(s) \in s /\ Total(s) = f[Chosen(s)] + Total(s \ {Chosen(s)})
  <2> SUFFICES ASSUME NEW s \in SUBSET S, s # {}
               PROVE  Chosen(s) \in s /\ Total(s) = f[Chosen(s)] + Total(s \ {Chosen(s)})
    OBVIOUS
  <2>1. Chosen(s) \in s
    BY DEF Chosen
  <2> QED
    BY <2>1, SumUnfolds, FS_Subset
<1> HIDE DEF Total
<1>3. ASSUME NEW s \in SUBSET S, \A t \in SUBSET s : t # s => t \in Good PROVE s \in Good
  <2> SUFFICES ASSUME NEW x \in s PROVE Total(s) = f[x] + Total(s \ {x})
    OBVIOUS
  <2>1. CASE Chosen(s) = x
    BY <1>2, <2>1
  <2>2. CASE Chosen(s) # x
    <3> DEFINE p == Chosen(s)
               u == s \ {p}
               v == s \ {x}
               w == u \ {x}
    <3>1. p \in s /\ Total(s) = f[p] + Total(u)
      BY <1>2
    <3>2. u \in SUBSET s /\ u # s /\ x \in u /\ v \in SUBSET s /\ v # s /\ p \in v
      BY <2>2, <3>1
    <3>3. u \in Good /\ v \in Good
      BY <1>3, <3>2
    <3>4. Total(u) = f[x] + Total(w)
      BY <3>2, <3>3
    <3>5. v \ {p} = w
      OBVIOUS
    <3>6. Total(v) = f[p] + Total(w)
      BY <3>2, <3>3, <3>5
    <3>7. f[p] \in Int /\ f[x] \in Int /\ Total(w) \in Int
      BY <1>1, <3>1
    <3> QED
      BY <3>1, <3>4, <3>6, <3>7
  <2> QED
    BY <2>1, <2>2
<1> HIDE DEF Good
<1>4. Good \in SUBSET (SUBSET S)
  BY DEF Good
<1>5. S \in Good
  BY <1>3, <1>4, SetInduction
<1> QED
  BY <1>5 DEF Good, Total

\* One element more, and one element changed.
LEMMA SumAdd ==
  ASSUME NEW S, IsFiniteSet(S), NEW f, \A x \in S : f[x] \in Int, NEW e, e \notin S, f[e] \in Int
  PROVE  SumFunctionOnSet(f, S \cup {e}) = SumFunctionOnSet(f, S) + f[e]
<1> DEFINE T == S \cup {e}
<1>1. IsFiniteSet(T) /\ T \ {e} = S /\ e \in T /\ \A x \in T : f[x] \in Int
  BY FS_AddElement
<1>2. SumFunctionOnSet(f, T) = f[e] + SumFunctionOnSet(f, S)
  <2> HIDE DEF T
  <2>1. SumFunctionOnSet(f, T) = f[e] + SumFunctionOnSet(f, T \ {e})
    BY <1>1, SumTake
  <2> QED
    BY <1>1, <2>1
<1> QED
  BY <1>2, SumType

\* Only the values on the set count, and the sum grows with them.
LEMMA SumMonotone ==
  ASSUME NEW S, IsFiniteSet(S), NEW f, NEW g,
         \A x \in S : f[x] \in Int /\ g[x] \in Int /\ f[x] <= g[x]
  PROVE  SumFunctionOnSet(f, S) <= SumFunctionOnSet(g, S)
<1> DEFINE Good == {s \in SUBSET S : SumFunctionOnSet(f, s) <= SumFunctionOnSet(g, s)}
<1>1. ASSUME NEW s \in SUBSET S, \A t \in SUBSET s : t # s => t \in Good PROVE s \in Good
  <2>1. CASE s = {}
    BY <2>1, SumEmpty
  <2>2. CASE s # {}
    <3> DEFINE t == s \ {Chosen(s)}
    <3>1. Chosen(s) \in s
      BY <2>2 DEF Chosen
    <3>2. SumFunctionOnSet(f, t) <= SumFunctionOnSet(g, t)
      BY <1>1, <3>1
    <3>3. IsFiniteSet(s) /\ IsFiniteSet(t)
      BY FS_Subset
    <3>4. /\ SumFunctionOnSet(f, s) = f[Chosen(s)] + SumFunctionOnSet(f, t)
          /\ SumFunctionOnSet(g, s) = g[Chosen(s)] + SumFunctionOnSet(g, t)
      BY <2>2, <3>3, SumUnfolds
    <3>5. SumFunctionOnSet(f, t) \in Int /\ SumFunctionOnSet(g, t) \in Int
      <4>1. \A x \in t : f[x] \in Int /\ g[x] \in Int
        OBVIOUS
      <4> QED
        BY <3>3, <4>1, SumType
    <3>6. f[Chosen(s)] \in Int /\ g[Chosen(s)] \in Int /\ f[Chosen(s)] <= g[Chosen(s)]
      BY <3>1
    <3>7. SumFunctionOnSet(f, s) <= SumFunctionOnSet(g, s)
      <4> HIDE DEF t
      <4> QED
        BY <3>2, <3>4, <3>5, <3>6
    <3> QED
      BY <3>7
  <2> QED
    BY <2>1, <2>2
<1> HIDE DEF Good
<1>2. Good \in SUBSET (SUBSET S)
  BY DEF Good
<1>3. S \in Good
  BY <1>1, <1>2, SetInduction
<1> QED
  BY <1>3 DEF Good

\* Functions that agree on the set have one sum.
LEMMA SumCongruence ==
  ASSUME NEW S, IsFiniteSet(S), NEW f, NEW g, \A x \in S : f[x] \in Int /\ g[x] = f[x]
  PROVE  SumFunctionOnSet(f, S) = SumFunctionOnSet(g, S)
<1>1. SumFunctionOnSet(f, S) <= SumFunctionOnSet(g, S)
  BY SumMonotone
<1>2. SumFunctionOnSet(g, S) <= SumFunctionOnSet(f, S)
  BY SumMonotone
<1>3. SumFunctionOnSet(f, S) \in Int /\ SumFunctionOnSet(g, S) \in Int
  BY SumType
<1> QED
  BY <1>1, <1>2, <1>3

\* Sums of disjoint parts.
LEMMA SumUnion ==
  ASSUME NEW S, IsFiniteSet(S), NEW T, IsFiniteSet(T), S \cap T = {},
         NEW f, \A x \in S \cup T : f[x] \in Int
  PROVE  SumFunctionOnSet(f, S \cup T) = SumFunctionOnSet(f, S) + SumFunctionOnSet(f, T)
<1> DEFINE Total(s) == SumFunctionOnSet(f, s)
           Good == {t \in SUBSET T : Total(S \cup t) = Total(S) + Total(t)}
<1>0. \A s \in SUBSET (S \cup T) : IsFiniteSet(s) /\ Total(s) \in Int
  <2>1. IsFiniteSet(S \cup T)
    BY FS_Union
  <2> QED
    BY <2>1, FS_Subset, SumType
<1>1. ASSUME NEW t \in SUBSET T, \A u \in SUBSET t : u # t => u \in Good PROVE t \in Good
  <2>1. CASE t = {}
    <3>1. S \cup t = S /\ Total(t) = 0 /\ Total(S) \in Int
      BY <1>0, <2>1, SumEmpty
    <3> HIDE DEF Total
    <3> QED
      BY <3>1
  <2>2. CASE t # {}
    <3>1. PICK e : e \in t
      BY <2>2
    <3> DEFINE u == t \ {e}
               v == S \cup t
    <3>2. u \in Good
      BY <1>1, <3>1
    <3>3. v \ {e} = S \cup u
      BY <3>1
    <3>4. Total(t) = f[e] + Total(u)
      <4>1. IsFiniteSet(t) /\ \A x \in t : f[x] \in Int
        BY <1>0
      <4> QED
        BY <3>1, <4>1, SumTake
    <3>5. Total(v) = f[e] + Total(S \cup u)
      <4>1. IsFiniteSet(v) /\ e \in v /\ \A x \in v : f[x] \in Int
        BY <1>0, <3>1
      <4> HIDE DEF v
      <4>2. Total(v) = f[e] + Total(v \ {e})
        BY <4>1, SumTake
      <4> QED
        BY <3>3, <4>2
    <3>6. f[e] \in Int /\ Total(u) \in Int /\ Total(S) \in Int
      BY <1>0, <3>1
    <3>7. Total(v) = Total(S) + Total(t)
      <4> HIDE DEF Total
      <4> QED
        BY <3>2, <3>4, <3>5, <3>6
    <3> QED
      BY <3>7
  <2> QED
    BY <2>1, <2>2
<1> HIDE DEF Good
<1>2. Good \in SUBSET (SUBSET T)
  BY DEF Good
<1>3. T \in Good
  BY <1>1, <1>2, SetInduction
<1> QED
  BY <1>3 DEF Good

\* Naturals sum to a natural; nothing sums to nothing; a part is no more than the whole.
LEMMA SumNatural ==
  ASSUME NEW S, IsFiniteSet(S), NEW f, \A x \in S : f[x] \in Nat
  PROVE  SumFunctionOnSet(f, S) \in Nat
<1> DEFINE Good == {s \in SUBSET S : SumFunctionOnSet(f, s) \in Nat}
<1>1. ASSUME NEW s \in SUBSET S, \A t \in SUBSET s : t # s => t \in Good PROVE s \in Good
  <2>1. CASE s = {}
    BY <2>1, SumEmpty
  <2>2. CASE s # {}
    <3>1. Chosen(s) \in s
      BY <2>2 DEF Chosen
    <3>2. SumFunctionOnSet(f, s \ {Chosen(s)}) \in Nat
      BY <1>1, <3>1
    <3>3. SumFunctionOnSet(f, s) = f[Chosen(s)] + SumFunctionOnSet(f, s \ {Chosen(s)})
      BY <2>2, SumUnfolds, FS_Subset
    <3>4. f[Chosen(s)] \in Nat
      BY <3>1
    <3> QED
      BY <3>2, <3>3, <3>4
  <2> QED
    BY <2>1, <2>2
<1> HIDE DEF Good
<1>2. Good \in SUBSET (SUBSET S)
  BY DEF Good
<1>3. S \in Good
  BY <1>1, <1>2, SetInduction
<1> QED
  BY <1>3 DEF Good

\* Nothing adds up to nothing.
LEMMA SumOfZeros ==
  ASSUME NEW S, IsFiniteSet(S), NEW f, \A x \in S : f[x] = 0
  PROVE  SumFunctionOnSet(f, S) = 0
<1> DEFINE Good == {s \in SUBSET S : SumFunctionOnSet(f, s) = 0}
<1>1. ASSUME NEW s \in SUBSET S, \A t \in SUBSET s : t # s => t \in Good PROVE s \in Good
  <2>1. CASE s = {}
    BY <2>1, SumEmpty
  <2>2. CASE s # {}
    <3>1. Chosen(s) \in s
      BY <2>2 DEF Chosen
    <3>2. SumFunctionOnSet(f, s \ {Chosen(s)}) = 0 /\ f[Chosen(s)] = 0
      BY <1>1, <3>1
    <3>3. SumFunctionOnSet(f, s) = f[Chosen(s)] + SumFunctionOnSet(f, s \ {Chosen(s)})
      BY <2>2, SumUnfolds, FS_Subset
    <3> QED
      BY <3>2, <3>3
  <2> QED
    BY <2>1, <2>2
<1> HIDE DEF Good
<1>2. Good \in SUBSET (SUBSET S)
  BY DEF Good
<1>3. S \in Good
  BY <1>1, <1>2, SetInduction
<1> QED
  BY <1>3 DEF Good

\* A part of some natural numbers is no more than the whole.
LEMMA SumOfPart ==
  ASSUME NEW T, IsFiniteSet(T), NEW S \in SUBSET T, NEW f, \A x \in T : f[x] \in Nat
  PROVE  SumFunctionOnSet(f, S) <= SumFunctionOnSet(f, T)
<1> DEFINE U == T \ S
<1>1. IsFiniteSet(S) /\ IsFiniteSet(U) /\ S \cap U = {} /\ S \cup U = T
  BY FS_Subset
<1>2. (\A x \in S : f[x] \in Nat) /\ (\A x \in U : f[x] \in Nat) /\ (\A x \in S \cup U : f[x] \in Int)
  OBVIOUS
<1> HIDE DEF U
<1>3. SumFunctionOnSet(f, S \cup U) = SumFunctionOnSet(f, S) + SumFunctionOnSet(f, U)
  BY <1>1, <1>2, SumUnion
<1>4. SumFunctionOnSet(f, S) \in Nat /\ SumFunctionOnSet(f, U) \in Nat
  BY <1>1, <1>2, SumNatural
<1>5. SumFunctionOnSet(f, T) = SumFunctionOnSet(f, S) + SumFunctionOnSet(f, U)
  BY <1>1, <1>3, Zenon
<1> QED
  BY <1>4, <1>5

\* The sum of two functions, value by value.
LEMMA SumOfSums ==
  ASSUME NEW S, IsFiniteSet(S), NEW f, NEW g, NEW h,
         \A x \in S : f[x] \in Int /\ g[x] \in Int /\ h[x] = f[x] + g[x]
  PROVE  SumFunctionOnSet(h, S) = SumFunctionOnSet(f, S) + SumFunctionOnSet(g, S)
<1> DEFINE Good == {s \in SUBSET S :
             SumFunctionOnSet(h, s) = SumFunctionOnSet(f, s) + SumFunctionOnSet(g, s)}
<1>1. ASSUME NEW s \in SUBSET S, \A t \in SUBSET s : t # s => t \in Good PROVE s \in Good
  <2>1. CASE s = {}
    BY <2>1, SumEmpty
  <2>2. CASE s # {}
    <3> DEFINE t == s \ {Chosen(s)}
    <3>1. Chosen(s) \in s
      BY <2>2 DEF Chosen
    <3>2. SumFunctionOnSet(h, t) = SumFunctionOnSet(f, t) + SumFunctionOnSet(g, t)
      BY <1>1, <3>1
    <3>3. IsFiniteSet(s) /\ IsFiniteSet(t)
      BY FS_Subset
    <3>4. /\ SumFunctionOnSet(f, s) = f[Chosen(s)] + SumFunctionOnSet(f, t)
          /\ SumFunctionOnSet(g, s) = g[Chosen(s)] + SumFunctionOnSet(g, t)
          /\ SumFunctionOnSet(h, s) = h[Chosen(s)] + SumFunctionOnSet(h, t)
      BY <2>2, <3>3, SumUnfolds
    <3>5. SumFunctionOnSet(f, t) \in Int /\ SumFunctionOnSet(g, t) \in Int
      <4>1. \A x \in t : f[x] \in Int /\ g[x] \in Int
        OBVIOUS
      <4> QED
        BY <3>3, <4>1, SumType
    <3>6. f[Chosen(s)] \in Int /\ g[Chosen(s)] \in Int /\ h[Chosen(s)] = f[Chosen(s)] + g[Chosen(s)]
      BY <3>1
    <3>7. SumFunctionOnSet(h, s) = SumFunctionOnSet(f, s) + SumFunctionOnSet(g, s)
      <4> HIDE DEF t
      <4> QED
        BY <3>2, <3>4, <3>5, <3>6
    <3> QED
      BY <3>7
  <2> QED
    BY <2>1, <2>2
<1> HIDE DEF Good
<1>2. Good \in SUBSET (SUBSET S)
  BY DEF Good
<1>3. S \in Good
  BY <1>1, <1>2, SetInduction
<1> QED
  BY <1>3 DEF Good

\* The same values under other names: a change of index.
LEMMA SumReindexed ==
  ASSUME NEW S, IsFiniteSet(S), NEW T, NEW b \in [S -> T],
         \A x, y \in S : b[x] = b[y] => x = y, \A z \in T : \E x \in S : b[x] = z,
         NEW f, NEW g, \A x \in S : f[x] \in Int /\ g[b[x]] = f[x]
  PROVE  SumFunctionOnSet(g, T) = SumFunctionOnSet(f, S)
<1> DEFINE Under(s) == {b[x] : x \in s}
           Good == {s \in SUBSET S : SumFunctionOnSet(g, Under(s)) = SumFunctionOnSet(f, s)}
<1>0. IsFiniteSet(T)
  <2>1. b \in Surjection(S, T)
    BY DEF Surjection
  <2> QED
    BY <2>1, FS_Surjection
<1>1. ASSUME NEW s \in SUBSET S, \A t \in SUBSET s : t # s => t \in Good PROVE s \in Good
  <2>1. CASE s = {}
    <3>1. Under(s) = {}
      BY <2>1
    <3>2. SumFunctionOnSet(g, Under(s)) = 0 /\ SumFunctionOnSet(f, s) = 0
      BY <2>1, <3>1, SumEmpty
    <3> QED
      BY <3>2
  <2>2. CASE s # {}
    <3>1. PICK e : e \in s
      BY <2>2
    <3> DEFINE u == s \ {e}
    <3>2. SumFunctionOnSet(g, Under(u)) = SumFunctionOnSet(f, u)
      BY <1>1, <3>1
    <3>3. IsFiniteSet(s) /\ \A x \in s : f[x] \in Int
      BY FS_Subset
    <3>4. SumFunctionOnSet(f, s) = f[e] + SumFunctionOnSet(f, u)
      BY <3>1, <3>3, SumTake
    <3>5. IsFiniteSet(Under(s))
      BY <1>0, FS_Subset
    <3>6. Under(s) \ {b[e]} = Under(u) /\ b[e] \in Under(s)
      BY <3>1
    <3>7. \A z \in Under(s) : g[z] \in Int
      OBVIOUS
    <3>8. SumFunctionOnSet(g, Under(s)) = g[b[e]] + SumFunctionOnSet(g, Under(u))
      <4> HIDE DEF Under, u
      <4>1. SumFunctionOnSet(g, Under(s)) = g[b[e]] + SumFunctionOnSet(g, Under(s) \ {b[e]})
        BY <3>5, <3>6, <3>7, SumTake
      <4> QED
        BY <3>6, <4>1
    <3>9. g[b[e]] = f[e]
      BY <3>1
    <3>10. SumFunctionOnSet(g, Under(s)) = SumFunctionOnSet(f, s)
      BY <3>2, <3>4, <3>8, <3>9
    <3> QED
      BY <3>10
  <2> QED
    BY <2>1, <2>2
<1>2. Under(S) = T
  OBVIOUS
<1> HIDE DEF Under
<1>3. S \in Good
  <2>1. Good \in SUBSET (SUBSET S)
    OBVIOUS
  <2> HIDE DEF Good
  <2> QED
    BY <1>1, <2>1, SetInduction
<1> QED
  BY <1>2, <1>3
=============================================================================
