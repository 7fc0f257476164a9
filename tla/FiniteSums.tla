----------------------------- MODULE FiniteSums -----------------------------
(***************************************************************************)
(* Sums over finite sets: what SumFunctionOnSet of the module Functions    *)
(* returns, for every finite set and every function on it.                 *)
(*                                                                         *)
(* The sum is defined by a recursive function on the subsets of the set,   *)
(* which takes the elements in an order nobody knows.  The facts below     *)
(* free the proofs about the allocator and the simulator from that order.  *)
(* Where they need induction they take a smallest subset that would be a   *)
(* counterexample (Smallest): the strict subsets of a finite set are well  *)
(* founded.                                                                *)
(***************************************************************************)
EXTENDS Integers, Functions, FiniteSetTheorems, TLAPS

\* Of the subsets of a finite set that have some property, one has no smaller
\* one with the property.
LEMMA Smallest ==
    ASSUME NEW S, IsFiniteSet(S), NEW T \in SUBSET (SUBSET S), T # {}
    PROVE  \E X \in T : \A Y \in T : Y \subseteq X => Y = X
<1>1. IsWellFoundedOn(StrictSubsetOrdering(S), SUBSET S)
  BY FS_FiniteSubsetsOfFinite, FS_StrictSubsetOrderingWellFounded
<1>2. \E X \in T : \A Y \in T : ~(<<Y, X>> \in StrictSubsetOrdering(S))
  BY <1>1, WFMin
<1> QED
  BY <1>2 DEF StrictSubsetOrdering
-----------------------------------------------------------------------------
(***************************************************************************)
(* The recursion                                                           *)
(***************************************************************************)
Pick(s) == CHOOSE x \in s : TRUE

IsSum(f, S, g) ==
    g = [s \in SUBSET S |-> IF s = {} THEN 0 ELSE f[Pick(s)] + g[s \ {Pick(s)}]]

LEMMA SumIs == \A f, S : SumFunctionOnSet(f, S) = (CHOOSE g : IsSum(f, S, g))[S]
BY DEF SumFunctionOnSet, FoldFunctionOnSet, MapThenFoldSet, IsSum, Pick

\* Two functions that satisfy the recursion agree where both are defined.
LEMMA SumIsUnique ==
    ASSUME NEW f, NEW S, NEW T, IsFiniteSet(S), NEW g, NEW h,
           IsSum(f, S, g), IsSum(f, T, h)
    PROVE  \A U \in SUBSET S : U \subseteq T => g[U] = h[U]
<1> DEFINE Bad == {U \in SUBSET S : U \subseteq T /\ g[U] # h[U]}
<1>1. SUFFICES ASSUME Bad # {} PROVE FALSE
  OBVIOUS
<1>2. PICK U \in Bad : \A V \in Bad : V \subseteq U => V = U
  <2>1. Bad \in SUBSET (SUBSET S)
    OBVIOUS
  <2> HIDE DEF Bad
  <2> QED
    BY <1>1, <2>1, Smallest
<1>3. /\ g[U] = IF U = {} THEN 0 ELSE f[Pick(U)] + g[U \ {Pick(U)}]
      /\ h[U] = IF U = {} THEN 0 ELSE f[Pick(U)] + h[U \ {Pick(U)}]
  BY DEF IsSum
<1>4. U # {}
  BY <1>3
<1>5. Pick(U) \in U
  BY <1>4 DEF Pick
<1>6. U \ {Pick(U)} \notin Bad
  BY <1>2, <1>5
<1> QED
  BY <1>3, <1>6

\* The recursion defines a function on every finite set.
LEMMA SumExists ==
    ASSUME NEW f, NEW S, IsFiniteSet(S)
    PROVE  \E g : IsSum(f, S, g)
<1> DEFINE Bad == {T \in SUBSET S : ~ \E g : IsSum(f, T, g)}
           sum == [U \in SUBSET S |-> (CHOOSE g : IsSum(f, U, g))[U]]
<1>1. SUFFICES ASSUME Bad # {} PROVE FALSE
  OBVIOUS
<1>2. PICK T \in Bad : \A U \in Bad : U \subseteq T => U = T
  <2>1. Bad \in SUBSET (SUBSET S)
    OBVIOUS
  <2> HIDE DEF Bad
  <2> QED
    BY <1>1, <2>1, Smallest
<1>3. ASSUME NEW U \in SUBSET T, U # T
      PROVE  sum[U] = IF U = {} THEN 0 ELSE f[Pick(U)] + sum[U \ {Pick(U)}]
  <2> DEFINE V == U \ {Pick(U)}
             gU == CHOOSE g : IsSum(f, U, g)
             gV == CHOOSE g : IsSum(f, V, g)
  <2>1. IsSum(f, U, gU) /\ IsSum(f, V, gV)
    <3>1. ASSUME NEW W \in SUBSET U PROVE \E g : IsSum(f, W, g)
      BY <1>2, <1>3
    <3> QED
      BY <3>1
  <2>2. gU[U] = IF U = {} THEN 0 ELSE f[Pick(U)] + gU[V]
    BY <2>1 DEF IsSum
  <2>3. IsFiniteSet(U)
    BY FS_Subset
  <2>4. gU[V] = gV[V]
    BY <2>1, <2>3, SumIsUnique
  <2>5. sum[U] = gU[U] /\ sum[V] = gV[V]
    OBVIOUS
  <2> HIDE DEF sum, gU, gV
  <2> QED
    BY <2>2, <2>4, <2>5
<1> DEFINE all == [U \in SUBSET T |->
                      IF U = {} THEN 0 ELSE f[Pick(U)] + sum[U \ {Pick(U)}]]
<1> HIDE DEF sum
<1>4. ASSUME NEW U \in SUBSET T, U # {}
      PROVE  all[U \ {Pick(U)}] = sum[U \ {Pick(U)}]
  <2>1. Pick(U) \in U
    BY <1>4 DEF Pick
  <2>2. U \ {Pick(U)} \in SUBSET T /\ U \ {Pick(U)} # T
    BY <2>1
  <2> QED
    BY <1>3, <2>2
<1>5. IsSum(f, T, all)
  BY <1>4 DEF IsSum
<1> QED
  BY <1>5

\* The sum of nothing, and of something: one element and the rest.
LEMMA SumRecursion ==
    ASSUME NEW f, NEW S, IsFiniteSet(S)
    PROVE  SumFunctionOnSet(f, S) =
               IF S = {} THEN 0
               ELSE f[Pick(S)] + SumFunctionOnSet(f, S \ {Pick(S)})
<1> DEFINE R == S \ {Pick(S)}
           g == CHOOSE g : IsSum(f, S, g)
           h == CHOOSE h : IsSum(f, R, h)
<1>1. IsFiniteSet(R)
  BY FS_Subset
<1>2. IsSum(f, S, g)
  BY SumExists
<1>3. IsSum(f, R, h)
  BY <1>1, SumExists
<1>4. SumFunctionOnSet(f, S) = g[S] /\ SumFunctionOnSet(f, R) = h[R]
  BY SumIs
<1> HIDE DEF g, h
<1>5. g[S] = IF S = {} THEN 0 ELSE f[Pick(S)] + g[R]
  BY <1>2 DEF IsSum
<1>6. g[R] = h[R]
  BY <1>2, <1>3, SumIsUnique
<1> QED
  BY <1>4, <1>5, <1>6
-----------------------------------------------------------------------------
(***************************************************************************)
(* What the proofs use                                                     *)
(***************************************************************************)
LEMMA SumOfNothing == \A f : SumFunctionOnSet(f, {}) = 0
BY SumRecursion, FS_EmptySet

\* A sum of naturals is a natural, of integers an integer.
LEMMA SumTyped ==
    ASSUME NEW D, NEW N, N = Nat \/ N = Int, NEW f \in [D -> N],
           NEW S \in SUBSET D, IsFiniteSet(S)
    PROVE  SumFunctionOnSet(f, S) \in N
<1> DEFINE Bad == {U \in SUBSET S : SumFunctionOnSet(f, U) \notin N}
<1>1. SUFFICES ASSUME Bad # {} PROVE FALSE
  OBVIOUS
<1>2. PICK U \in Bad : \A V \in Bad : V \subseteq U => V = U
  <2>1. Bad \in SUBSET (SUBSET S)
    OBVIOUS
  <2> HIDE DEF Bad
  <2> QED
    BY <1>1, <2>1, Smallest
<1>3. IsFiniteSet(U)
  BY FS_Subset
<1>4. SumFunctionOnSet(f, U) =
          IF U = {} THEN 0 ELSE f[Pick(U)] + SumFunctionOnSet(f, U \ {Pick(U)})
  BY <1>3, SumRecursion
<1>5. CASE U = {}
  BY <1>4, <1>5
<1>6. CASE U # {}
  <2>1. Pick(U) \in U
    BY <1>6 DEF Pick
  <2>2. SumFunctionOnSet(f, U \ {Pick(U)}) \in N
    BY <1>2, <2>1
  <2>3. f[Pick(U)] \in N
    BY <2>1
  <2> QED
    BY <1>4, <1>6, <2>2, <2>3
<1> QED
  BY <1>5, <1>6

\* Any element may be taken first.
LEMMA SumRemove ==
    ASSUME NEW D, NEW f \in [D -> Int], NEW S \in SUBSET D, IsFiniteSet(S),
           NEW x \in S
    PROVE  SumFunctionOnSet(f, S) = f[x] + SumFunctionOnSet(f, S \ {x})
<1> DEFINE Sum(U) == SumFunctionOnSet(f, U)
           Bad == {U \in SUBSET S : \E y \in U : Sum(U) # f[y] + Sum(U \ {y})}
<1>1. SUFFICES ASSUME Bad # {} PROVE FALSE
  OBVIOUS
<1>2. PICK U \in Bad : \A V \in Bad : V \subseteq U => V = U
  <2>1. Bad \in SUBSET (SUBSET S)
    OBVIOUS
  <2> HIDE DEF Bad
  <2> QED
    BY <1>1, <2>1, Smallest
<1>3. PICK y \in U : Sum(U) # f[y] + Sum(U \ {y})
  OBVIOUS
<1> DEFINE c == Pick(U)
<1>4. c \in U
  BY <1>3 DEF Pick
<1>5. IsFiniteSet(U) /\ IsFiniteSet(U \ {y, c})
  BY FS_Subset
<1>6. Sum(U) = f[c] + Sum(U \ {c})
  BY <1>3, <1>5, SumRecursion
<1>7. y # c
  BY <1>3, <1>6
<1>8. U \ {c} \notin Bad /\ U \ {y} \notin Bad
  BY <1>2, <1>3, <1>4
<1>9. y \in U \ {c} /\ c \in U \ {y}
  BY <1>3, <1>4, <1>7
<1>10. /\ Sum(U \ {c}) = f[y] + Sum((U \ {c}) \ {y})
       /\ Sum(U \ {y}) = f[c] + Sum((U \ {y}) \ {c})
  BY <1>8, <1>9
<1>11. (U \ {c}) \ {y} = U \ {y, c} /\ (U \ {y}) \ {c} = U \ {y, c}
  OBVIOUS
<1>12. Sum(U \ {y, c}) \in Int /\ f[y] \in Int /\ f[c] \in Int
  BY <1>4, <1>5, SumTyped
<1>13. /\ Sum(U) = f[c] + (f[y] + Sum(U \ {y, c}))
       /\ Sum(U \ {y}) = f[c] + Sum(U \ {y, c})
  BY <1>6, <1>10, <1>11
<1> HIDE DEF Sum, c
<1> QED
  BY <1>3, <1>12, <1>13

\* Functions that agree on a set have one sum on it.
LEMMA SumSame ==
    ASSUME NEW f, NEW g, NEW S, IsFiniteSet(S), \A x \in S : f[x] = g[x]
    PROVE  SumFunctionOnSet(f, S) = SumFunctionOnSet(g, S)
<1> DEFINE Bad == {U \in SUBSET S :
                      SumFunctionOnSet(f, U) # SumFunctionOnSet(g, U)}
<1>1. SUFFICES ASSUME Bad # {} PROVE FALSE
  OBVIOUS
<1>2. PICK U \in Bad : \A V \in Bad : V \subseteq U => V = U
  <2>1. Bad \in SUBSET (SUBSET S)
    OBVIOUS
  <2> HIDE DEF Bad
  <2> QED
    BY <1>1, <2>1, Smallest
<1>3. IsFiniteSet(U)
  BY FS_Subset
<1>4. /\ SumFunctionOnSet(f, U) =
             IF U = {} THEN 0
             ELSE f[Pick(U)] + SumFunctionOnSet(f, U \ {Pick(U)})
      /\ SumFunctionOnSet(g, U) =
             IF U = {} THEN 0
             ELSE g[Pick(U)] + SumFunctionOnSet(g, U \ {Pick(U)})
  BY <1>3, SumRecursion
<1>5. U # {}
  BY <1>4
<1>6. Pick(U) \in U
  BY <1>5 DEF Pick
<1>7. U \ {Pick(U)} \notin Bad
  BY <1>2, <1>6
<1> QED
  BY <1>4, <1>6, <1>7

\* Zeros add up to zero.
LEMMA SumOfZeros ==
    ASSUME NEW f, NEW S, IsFiniteSet(S), \A x \in S : f[x] = 0
    PROVE  SumFunctionOnSet(f, S) = 0
<1> DEFINE Bad == {U \in SUBSET S : SumFunctionOnSet(f, U) # 0}
<1>1. SUFFICES ASSUME Bad # {} PROVE FALSE
  OBVIOUS
<1>2. PICK U \in Bad : \A V \in Bad : V \subseteq U => V = U
  <2>1. Bad \in SUBSET (SUBSET S)
    OBVIOUS
  <2> HIDE DEF Bad
  <2> QED
    BY <1>1, <2>1, Smallest
<1>3. IsFiniteSet(U)
  BY FS_Subset
<1>4. SumFunctionOnSet(f, U) =
          IF U = {} THEN 0 ELSE f[Pick(U)] + SumFunctionOnSet(f, U \ {Pick(U)})
  BY <1>3, SumRecursion
<1>5. U # {}
  BY <1>4
<1>6. Pick(U) \in U
  BY <1>5 DEF Pick
<1>7. U \ {Pick(U)} \notin Bad
  BY <1>2, <1>6
<1> QED
  BY <1>4, <1>5, <1>6, <1>7

\* Changing one value changes the sum by the difference.
LEMMA SumChange ==
    ASSUME NEW D, NEW f \in [D -> Int], NEW g \in [D -> Int],
           NEW S \in SUBSET D, IsFiniteSet(S), NEW x \in S,
           \A y \in S \ {x} : g[y] = f[y]
    PROVE  SumFunctionOnSet(g, S) = SumFunctionOnSet(f, S) - f[x] + g[x]
<1>1. IsFiniteSet(S \ {x})
  BY FS_Subset
<1>2. SumFunctionOnSet(g, S \ {x}) = SumFunctionOnSet(f, S \ {x})
  BY <1>1, SumSame
<1>3. SumFunctionOnSet(f, S \ {x}) \in Int
  BY <1>1, SumTyped
<1>4. /\ SumFunctionOnSet(f, S) = f[x] + SumFunctionOnSet(f, S \ {x})
      /\ SumFunctionOnSet(g, S) = g[x] + SumFunctionOnSet(g, S \ {x})
  BY SumRemove
<1> QED
  BY <1>2, <1>3, <1>4

\* A value is at most a sum of naturals it is part of.
LEMMA SumHasPart ==
    ASSUME NEW D, NEW f \in [D -> Nat], NEW S \in SUBSET D, IsFiniteSet(S),
           NEW x \in S
    PROVE  f[x] <= SumFunctionOnSet(f, S)
<1>1. IsFiniteSet(S \ {x})
  BY FS_Subset
<1>2. SumFunctionOnSet(f, S \ {x}) \in Nat
  BY <1>1, SumTyped
<1>3. SumFunctionOnSet(f, S) = f[x] + SumFunctionOnSet(f, S \ {x})
  <2>1. f \in [D -> Int]
    OBVIOUS
  <2> QED
    BY <2>1, SumRemove
<1> QED
  BY <1>2, <1>3
=============================================================================
