---------------------------- MODULE SumTheorems ----------------------------
(***************************************************************************)
(* Facts about SumFunctionOnSet of the community module Functions, a fold  *)
(* in an order that CHOOSE picks: the fold is well defined on finite sets, *)
(* its value does not depend on the order, and how it changes with one     *)
(* element. The induction theorems of the library take an operator; the    *)
(* proofs here look at a least counterexample instead, in a set of them,   *)
(* and a function that is iterated is shown to exist part by part.         *)
(***************************************************************************)
EXTENDS Integers, FiniteSetsExt, FiniteSetTheorems, TLAPS

Sum(f, S) == SumFunctionOnSet(f, S)

\* A nonempty set of naturals has a least member.
LEMMA LeastNatural ==
  ASSUME NEW T, T \subseteq Nat, T # {}
  PROVE  \E m \in T : \A n \in T : m <= n
<1> DEFINE R == OpToRel(<, Nat)
<1>1. \A m, n \in Nat : n < m => <<n, m>> \in R
  BY Zenon DEF OpToRel
<1> HIDE DEF R
<1>2. IsWellFoundedOn(R, Nat)
  BY NatLessThanWellFounded DEF R
<1>3. PICK m \in T : \A n \in T : <<n, m>> \notin R
  BY <1>2, WFMin
<1>4. \A n \in T : ~(n < m)
  BY <1>1, <1>3
<1> QED BY <1>4

\* Induction, with the property as a set.
LEMMA NatSetInduction ==
  ASSUME NEW T, 0 \in T, \A n \in Nat : n \in T => n + 1 \in T
  PROVE  \A n \in Nat : n \in T
<1> DEFINE Bad == {n \in Nat : n \notin T}
<1> SUFFICES ASSUME Bad # {} PROVE FALSE
  OBVIOUS
<1>1. PICK m \in Bad : \A n \in Bad : m <= n
  <2>1. Bad \subseteq Nat
    OBVIOUS
  <2> HIDE DEF Bad
  <2> QED BY <2>1, LeastNatural
<1>2. m # 0 /\ m - 1 \in Nat /\ m - 1 \notin Bad
  BY <1>1
<1>3. (m - 1) + 1 \in T
  BY <1>2
<1> QED BY <1>1, <1>2, <1>3

Iterates(g, F, a) == g[0] = a /\ \A n \in Nat : g[n + 1] = F[g[n]]

\* A function can be iterated: on 0..n for every n, then on Nat.
LEMMA IterationExists ==
  ASSUME NEW X, NEW F \in [X -> X], NEW a \in X
  PROVE  \E g \in [Nat -> X] : Iterates(g, F, a)
<1> DEFINE Upto(f, n) == /\ f \in [0..n -> X] /\ f[0] = a
                         /\ \A k \in 0..(n - 1) : f[k + 1] = F[f[k]]
           T == {n \in Nat : \E f : Upto(f, n)}
           part == [n \in Nat |-> CHOOSE f : Upto(f, n)]
<1>1. 0 \in T
  <2> DEFINE f == [k \in 0..0 |-> a]
  <2>1. Upto(f, 0)
    OBVIOUS
  <2> HIDE DEF f, Upto
  <2> QED BY <2>1
<1>2. ASSUME NEW n \in Nat, n \in T PROVE n + 1 \in T
  <2>1. PICK f : Upto(f, n)
    BY <1>2
  <2> DEFINE h == [k \in 0..(n + 1) |-> IF k = n + 1 THEN F[f[n]] ELSE f[k]]
  <2>2. Upto(h, n + 1)
    <3>1. h \in [0..(n + 1) -> X] /\ h[0] = a
      BY <2>1
    <3>2. ASSUME NEW k \in 0..n PROVE h[k + 1] = F[h[k]]
      <4>1. CASE k = n
        BY <2>1, <4>1
      <4>2. CASE k # n
        <5>1. k \in 0..(n - 1) /\ k + 1 \in 0..(n + 1) /\ k + 1 # n + 1 /\ k # n + 1
          BY <4>2
        <5> QED BY <2>1, <5>1
      <4> QED BY <4>1, <4>2
    <3> HIDE DEF h
    <3> QED BY <3>1, <3>2
  <2> HIDE DEF h, Upto
  <2> QED BY <2>2
<1>3. \A n \in Nat : Upto(part[n], n)
  <2>1. \A n \in Nat : n \in T
    <3> HIDE DEF T
    <3> QED BY <1>1, <1>2, NatSetInduction
  <2> HIDE DEF Upto
  <2> QED BY <2>1
<1> HIDE DEF part
<1>4. \A n \in Nat : \A k \in 0..n : part[n + 1][k] = part[n][k]
  <2> TAKE n \in Nat
  <2> DEFINE U == {k \in Nat : k <= n => part[n + 1][k] = part[n][k]}
  <2>1. Upto(part[n], n) /\ Upto(part[n + 1], n + 1)
    BY <1>3
  <2>2. 0 \in U
    BY <2>1
  <2>3. ASSUME NEW k \in Nat, k \in U PROVE k + 1 \in U
    <3> SUFFICES ASSUME k + 1 <= n PROVE part[n + 1][k + 1] = part[n][k + 1]
      OBVIOUS
    <3>1. k \in 0..(n - 1) /\ k \in 0..((n + 1) - 1)
      OBVIOUS
    <3> QED BY <2>1, <2>3, <3>1
  <2>4. \A k \in Nat : k \in U
    <3> HIDE DEF U
    <3> QED BY <2>2, <2>3, NatSetInduction
  <2> QED BY <2>4
<1> DEFINE g == [n \in Nat |-> part[n][n]]
<1>5. g \in [Nat -> X] /\ g[0] = a
  BY <1>3
<1>6. \A n \in Nat : g[n + 1] = F[g[n]]
  <2> TAKE n \in Nat
  <2>1. n \in 0..n /\ n \in 0..((n + 1) - 1) /\ n + 1 \in Nat
    OBVIOUS
  <2>2. part[n + 1][n + 1] = F[part[n + 1][n]]
    BY <1>3, <2>1
  <2>3. part[n + 1][n] = part[n][n]
    BY <1>4, <2>1
  <2> QED BY <2>1, <2>2, <2>3
<1> HIDE DEF g
<1> QED BY <1>5, <1>6 DEF Iterates

\* A nonempty set of finite sets has a member no proper part of which is in it.
LEMMA MinimalSubset ==
  ASSUME NEW S, IsFiniteSet(S), NEW T, T \subseteq SUBSET S, T # {}
  PROVE  \E x \in T : \A y \in T : ~(y \subseteq x /\ y # x)
<1>1. T \subseteq FiniteSubsetsOf(S)
  BY FS_FiniteSubsetsOfFinite
<1>2. \E x \in T : \A y \in T : <<y, x>> \notin StrictSubsetOrdering(S)
  BY <1>1, FS_StrictSubsetOrderingWellFounded, WFMin
<1> QED BY <1>2 DEF StrictSubsetOrdering

-----------------------------------------------------------------------------
\* The recursion equation of the fold, on the subsets of S.
Pick(s) == CHOOSE x \in s : TRUE
Unfold(g, f, s) == IF s = {} THEN 0 ELSE f[Pick(s)] + g[s \ {Pick(s)}]
IsSum(g, f, S) == g = [s \in SUBSET S |-> Unfold(g, f, s)]

LEMMA SumDef ==
  ASSUME NEW f, NEW S
  PROVE  Sum(f, S) = (CHOOSE g : IsSum(g, f, S))[S]
  BY DEF Sum, SumFunctionOnSet, FoldFunctionOnSet, MapThenFoldSet, IsSum, Unfold, Pick

LEMMA PickIn == ASSUME NEW s, s # {} PROVE Pick(s) \in s
  BY DEF Pick

\* The equation has a solution: level by level of the cardinality.
LEMMA SumExists ==
  ASSUME NEW S, IsFiniteSet(S), NEW f, \A x \in S : f[x] \in Int
  PROVE  \E g : IsSum(g, f, S)
<1> DEFINE Lev(n) == {s \in SUBSET S : Cardinality(s) <= n}
           Ok(n) == \E g \in [Lev(n) -> Int] : \A s \in Lev(n) : g[s] = Unfold(g, f, s)
           Bad == {n \in Nat : ~Ok(n)}
<1>1. \A s \in SUBSET S : IsFiniteSet(s) /\ Cardinality(s) \in Nat
  BY FS_Subset, FS_CardinalityType
<1>2. \A s \in SUBSET S : s # {} =>
        /\ Pick(s) \in S /\ s \ {Pick(s)} \in SUBSET S
        /\ Cardinality(s \ {Pick(s)}) = Cardinality(s) - 1
  BY <1>1, PickIn, FS_RemoveElement
<1>3. Ok(0)
  <2> DEFINE g0 == [s \in Lev(0) |-> 0]
  <2>1. \A s \in Lev(0) : s = {}
    BY <1>1, FS_EmptySet
  <2>2. g0 \in [Lev(0) -> Int] /\ \A s \in Lev(0) : g0[s] = Unfold(g0, f, s)
    BY <2>1 DEF Unfold
  <2> QED BY <2>2
<1>4. ASSUME NEW n \in Nat, Ok(n) PROVE Ok(n + 1)
  <2>1. PICK g \in [Lev(n) -> Int] : \A s \in Lev(n) : g[s] = Unfold(g, f, s)
    BY <1>4
  <2> DEFINE h == [s \in Lev(n + 1) |-> IF s \in Lev(n) THEN g[s] ELSE Unfold(g, f, s)]
  <2>2. \A s \in Lev(n + 1) : s # {} => s \ {Pick(s)} \in Lev(n)
    BY <1>1, <1>2
  <2>3. \A s \in Lev(n) : s \in Lev(n + 1)
    BY <1>1
  <2>4. \A s \in Lev(n + 1) : Unfold(g, f, s) \in Int
    BY <1>2, <2>2, <2>1 DEF Unfold
  <2>5. h \in [Lev(n + 1) -> Int]
    BY <2>1, <2>4
  <2>6. \A s \in Lev(n + 1) : Unfold(h, f, s) = Unfold(g, f, s)
    BY <2>2, <2>3 DEF Unfold
  <2>7. \A s \in Lev(n + 1) : h[s] = Unfold(h, f, s)
    BY <2>1, <2>6
  <2> HIDE DEF h
  <2> QED BY <2>5, <2>7
<1>5. \A n \in Nat : Ok(n)
  <2> SUFFICES ASSUME Bad # {} PROVE FALSE
    BY DEF Bad
  <2>1. PICK m \in Bad : \A n \in Bad : m <= n
    BY LeastNatural
  <2> HIDE DEF Ok
  <2>2. m # 0 /\ m \in Nat
    BY <2>1, <1>3
  <2>3. Ok(m - 1)
    BY <2>1, <2>2
  <2>4. Ok((m - 1) + 1)
    BY <1>4, <2>2, <2>3
  <2> QED BY <2>1, <2>2, <2>4
<1>6. Lev(Cardinality(S)) = SUBSET S
  BY <1>1, FS_Subset
<1>7. PICK g \in [SUBSET S -> Int] : \A s \in SUBSET S : g[s] = Unfold(g, f, s)
  <2>1. Ok(Cardinality(S))
    <3> HIDE DEF Ok
    <3> QED BY <1>5, FS_CardinalityType
  <2> QED BY <1>6, <2>1
<1> QED BY <1>7 DEF IsSum

\* Solutions on a set and on a part of it agree.
LEMMA SumsAgree ==
  ASSUME NEW S, IsFiniteSet(S), NEW f, NEW T \in SUBSET S,
         NEW g, NEW h, IsSum(g, f, S), IsSum(h, f, T)
  PROVE  \A s \in SUBSET T : g[s] = h[s]
<1> DEFINE Bad == {s \in SUBSET T : g[s] # h[s]}
<1> SUFFICES ASSUME Bad # {} PROVE FALSE
  OBVIOUS
<1>1. Bad \subseteq SUBSET S
  OBVIOUS
<1>2. PICK s \in Bad : \A y \in Bad : ~(y \subseteq s /\ y # s)
  <2> HIDE DEF Bad
  <2> QED BY <1>1, MinimalSubset
<1>3. g[s] = Unfold(g, f, s) /\ h[s] = Unfold(h, f, s)
  BY <1>2 DEF IsSum
<1>4. s # {}
  BY <1>2, <1>3 DEF Unfold
<1>5. Pick(s) \in s
  BY <1>4, PickIn
<1>6. g[s \ {Pick(s)}] = h[s \ {Pick(s)}]
  BY <1>2, <1>5
<1> QED BY <1>2, <1>3, <1>6 DEF Unfold

\* How the sum over T unfolds.
Unfolds(f, T) ==
  /\ T = {} => Sum(f, T) = 0
  /\ T # {} => Pick(T) \in T /\ Sum(f, T) = f[Pick(T)] + Sum(f, T \ {Pick(T)})
IntsOn(f, S) == \A x \in S : f[x] \in Int

LEMMA SumUnfolds ==
  ASSUME NEW S, IsFiniteSet(S), NEW f, IntsOn(f, S), NEW T \in SUBSET S
  PROVE  Unfolds(f, T)
<1>1. IsFiniteSet(T) /\ IsFiniteSet(T \ {Pick(T)}) /\ \A x \in T : f[x] \in Int
  BY FS_Subset, FS_RemoveElement DEF IntsOn
<1> DEFINE g == CHOOSE g : IsSum(g, f, T)
           h == CHOOSE h : IsSum(h, f, T \ {Pick(T)})
<1>2. IsSum(g, f, T)
  BY <1>1, SumExists
<1>3. IsSum(h, f, T \ {Pick(T)})
  <2>1. \E k : IsSum(k, f, T \ {Pick(T)})
    BY <1>1, SumExists
  <2> QED BY <2>1
<1>4. Sum(f, T) = g[T] /\ Sum(f, T \ {Pick(T)}) = h[T \ {Pick(T)}]
  BY SumDef
<1> HIDE DEF g, h
<1>5. g[T \ {Pick(T)}] = h[T \ {Pick(T)}]
  BY <1>1, <1>2, <1>3, SumsAgree
<1>6. g[T] = Unfold(g, f, T)
  BY <1>2 DEF IsSum
<1> QED BY <1>4, <1>5, <1>6, PickIn DEF Unfold, Unfolds

-----------------------------------------------------------------------------
\* The facts the proofs use.
LEMMA SumEmpty ==
  ASSUME NEW f PROVE Sum(f, {}) = 0
<1>1. IsFiniteSet({}) /\ {} \in SUBSET {} /\ IntsOn(f, {})
  BY FS_EmptySet DEF IntsOn
<1>2. Unfolds(f, {})
  BY <1>1, SumUnfolds
<1> QED BY <1>2 DEF Unfolds

Least(T, B) == T \in B /\ (T # {} => T \ {Pick(T)} \notin B)

\* Among the subsets of which something is wrong there is a least one.
LEMMA LeastBad ==
  ASSUME NEW S, IsFiniteSet(S), NEW B, B \subseteq SUBSET S, B # {}
  PROVE  \E T \in SUBSET S : Least(T, B)
<1>1. PICK T \in B : \A y \in B : ~(y \subseteq T /\ y # T)
  BY MinimalSubset
<1>2. T # {} => Pick(T) \in T /\ T \ {Pick(T)} \notin B
  BY <1>1, PickIn
<1> QED BY <1>2 DEF Least

LEMMA SumType ==
  ASSUME NEW S, IsFiniteSet(S), NEW f, \A x \in S : f[x] \in Int
  PROVE  Sum(f, S) \in Int
<1> DEFINE Bad == {T \in SUBSET S : Sum(f, T) \notin Int}
<1> SUFFICES ASSUME Bad # {} PROVE FALSE
  BY DEF Bad
<1>1. PICK T \in SUBSET S : Least(T, Bad)
  <2>1. Bad \subseteq SUBSET S
    OBVIOUS
  <2> HIDE DEF Bad
  <2> QED BY <2>1, LeastBad
<1>2. Unfolds(f, T)
  <2>1. IntsOn(f, S)
    BY DEF IntsOn
  <2> HIDE DEF Bad
  <2> QED BY <2>1, SumUnfolds
<1>3. Sum(f, T) \notin Int /\ (T # {} => Sum(f, T \ {Pick(T)}) \in Int)
  BY <1>1 DEF Least
<1> QED BY <1>2, <1>3 DEF Unfolds

\* The sum does not depend on the order: any element can be taken out.
LEMMA SumRemove ==
  ASSUME NEW S, IsFiniteSet(S), NEW f, \A x \in S : f[x] \in Int, NEW a \in S
  PROVE  Sum(f, S) = f[a] + Sum(f, S \ {a})
<1> DEFINE Ok(T) == \A x \in T : Sum(f, T) = f[x] + Sum(f, T \ {x})
           Bad == {T \in SUBSET S : ~Ok(T)}
<1> SUFFICES ASSUME Bad # {} PROVE FALSE
  BY DEF Bad
<1>1. PICK T \in Bad : \A y \in Bad : ~(y \subseteq T /\ y # T)
  <2>1. Bad \subseteq SUBSET S
    OBVIOUS
  <2> HIDE DEF Bad
  <2> QED BY <2>1, MinimalSubset
<1>2. PICK x \in T : Sum(f, T) # f[x] + Sum(f, T \ {x})
  BY <1>1
<1> DEFINE p == Pick(T)
<1>3. T \in SUBSET S /\ p \in T /\ Sum(f, T) = f[p] + Sum(f, T \ {p})
  <2>1. T \in SUBSET S /\ IntsOn(f, S)
    BY <1>1 DEF IntsOn
  <2> HIDE DEF Bad
  <2>2. Unfolds(f, T)
    BY <2>1, SumUnfolds
  <2> QED BY <1>2, <2>1, <2>2 DEF Unfolds
<1> HIDE DEF p
<1>4. x # p
  BY <1>2, <1>3
<1>5. Ok(T \ {p}) /\ Ok(T \ {x})
  BY <1>1, <1>2, <1>3
<1>6. Sum(f, T \ {p}) = f[x] + Sum(f, (T \ {p}) \ {x})
  BY <1>2, <1>4, <1>5
<1>7. Sum(f, T \ {x}) = f[p] + Sum(f, (T \ {x}) \ {p})
  BY <1>3, <1>4, <1>5
<1>8. (T \ {p}) \ {x} = (T \ {x}) \ {p}
  OBVIOUS
<1>9. f[x] \in Int /\ f[p] \in Int /\ Sum(f, (T \ {p}) \ {x}) \in Int
  <2>1. IsFiniteSet((T \ {p}) \ {x})
    BY <1>3, FS_Subset
  <2> QED BY <1>2, <1>3, <2>1, SumType
<1>10. f[p] + (f[x] + Sum(f, (T \ {p}) \ {x})) = f[x] + (f[p] + Sum(f, (T \ {p}) \ {x}))
  BY <1>9
<1> QED BY <1>2, <1>3, <1>6, <1>7, <1>8, <1>10

LEMMA SumAdd ==
  ASSUME NEW S, IsFiniteSet(S), NEW f, NEW a, a \notin S, \A x \in S \cup {a} : f[x] \in Int
  PROVE  Sum(f, S \cup {a}) = f[a] + Sum(f, S)
<1>1. IsFiniteSet(S \cup {a}) /\ (S \cup {a}) \ {a} = S
  BY FS_AddElement
<1>2. a \in S \cup {a}
  OBVIOUS
<1>3. Sum(f, S \cup {a}) = f[a] + Sum(f, (S \cup {a}) \ {a})
  BY <1>1, <1>2, SumRemove
<1> QED BY <1>1, <1>3

\* Functions that agree on the set have the same sum.
LEMMA SumSame ==
  ASSUME NEW S, IsFiniteSet(S), NEW f, NEW h,
         \A x \in S : f[x] \in Int, \A x \in S : h[x] \in Int, \A x \in S : h[x] = f[x]
  PROVE  Sum(f, S) = Sum(h, S)
<1> DEFINE Bad == {T \in SUBSET S : Sum(f, T) # Sum(h, T)}
<1> SUFFICES ASSUME Bad # {} PROVE FALSE
  BY DEF Bad
<1>1. PICK T \in SUBSET S : Least(T, Bad)
  <2>1. Bad \subseteq SUBSET S
    OBVIOUS
  <2> HIDE DEF Bad
  <2> QED BY <2>1, LeastBad
<1>2. Unfolds(f, T)
  <2>1. IntsOn(f, S)
    BY DEF IntsOn
  <2> HIDE DEF Bad
  <2> QED BY <2>1, SumUnfolds
<1>3. Unfolds(h, T)
  <2>1. IntsOn(h, S)
    BY DEF IntsOn
  <2> HIDE DEF Bad
  <2> QED BY <2>1, SumUnfolds
<1>4. Sum(f, T) # Sum(h, T) /\ (T # {} => Sum(f, T \ {Pick(T)}) = Sum(h, T \ {Pick(T)}))
  BY <1>1 DEF Least
<1> HIDE DEF Bad
<1> QED BY <1>2, <1>3, <1>4 DEF Unfolds

\* One value changes: the sum changes by the difference.
LEMMA SumExcept ==
  ASSUME NEW S, IsFiniteSet(S), NEW f, NEW h, NEW a \in S,
         \A x \in S : f[x] \in Int, \A x \in S : h[x] \in Int,
         \A x \in S : x # a => h[x] = f[x]
  PROVE  Sum(h, S) = Sum(f, S) + h[a] - f[a]
<1>1. IsFiniteSet(S \ {a})
  BY FS_Subset
<1>2. Sum(h, S) = h[a] + Sum(h, S \ {a}) /\ Sum(f, S) = f[a] + Sum(f, S \ {a})
  BY SumRemove
<1>3. Sum(f, S \ {a}) = Sum(h, S \ {a}) /\ Sum(f, S \ {a}) \in Int
  BY <1>1, SumSame, SumType
<1> QED BY <1>2, <1>3

\* A sum of naturals is a natural, and none of them exceeds it.
LEMMA SumNat ==
  ASSUME NEW S, IsFiniteSet(S), NEW f, \A x \in S : f[x] \in Nat
  PROVE  Sum(f, S) \in Nat
<1> DEFINE Bad == {T \in SUBSET S : Sum(f, T) \notin Nat}
<1> SUFFICES ASSUME Bad # {} PROVE FALSE
  BY DEF Bad
<1>1. PICK T \in SUBSET S : Least(T, Bad)
  <2>1. Bad \subseteq SUBSET S
    OBVIOUS
  <2> HIDE DEF Bad
  <2> QED BY <2>1, LeastBad
<1>2. Unfolds(f, T)
  <2>1. IntsOn(f, S)
    BY DEF IntsOn
  <2> HIDE DEF Bad
  <2> QED BY <2>1, SumUnfolds
<1>3. Sum(f, T) \notin Nat /\ (T # {} => Sum(f, T \ {Pick(T)}) \in Nat)
  BY <1>1 DEF Least
<1> QED BY <1>2, <1>3 DEF Unfolds

LEMMA SumBounds ==
  ASSUME NEW S, IsFiniteSet(S), NEW f, \A x \in S : f[x] \in Nat, NEW a \in S
  PROVE  f[a] <= Sum(f, S)
<1>1. Sum(f, S) = f[a] + Sum(f, S \ {a})
  BY SumRemove
<1>2. Sum(f, S \ {a}) \in Nat
  BY FS_Subset, SumNat
<1> QED BY <1>1, <1>2

\* A bound on the elements bounds the sum.
LEMMA SumAtMost ==
  ASSUME NEW S, IsFiniteSet(S), NEW f, \A x \in S : f[x] \in Nat,
         NEW m \in Nat, \A x \in S : f[x] <= m
  PROVE  Sum(f, S) <= m * Cardinality(S)
<1> DEFINE Bad == {T \in SUBSET S : ~(Sum(f, T) <= m * Cardinality(T))}
<1> SUFFICES ASSUME Bad # {} PROVE FALSE
  BY DEF Bad
<1>1. PICK T \in SUBSET S : Least(T, Bad)
  <2>1. Bad \subseteq SUBSET S
    OBVIOUS
  <2> HIDE DEF Bad
  <2> QED BY <2>1, LeastBad
<1>2. Unfolds(f, T)
  <2>1. IntsOn(f, S)
    BY DEF IntsOn
  <2> HIDE DEF Bad
  <2> QED BY <2>1, SumUnfolds
<1> DEFINE U == T \ {Pick(T)}
<1>3. ~(Sum(f, T) <= m * Cardinality(T)) /\ (T # {} => Sum(f, U) <= m * Cardinality(U))
  BY <1>1 DEF Least
<1> HIDE DEF Bad
<1>4. T # {}
  <2>1. m * Cardinality({}) = 0
    BY FS_EmptySet
  <2> SUFFICES ASSUME T = {} PROVE FALSE
    OBVIOUS
  <2>2. Sum(f, T) = 0 /\ m * Cardinality(T) = 0
    BY <1>2, <2>1 DEF Unfolds
  <2> QED BY <1>3, <2>2
<1>5. IsFiniteSet(U) /\ Cardinality(U) = Cardinality(T) - 1 /\ Cardinality(T) \in Nat
      /\ Cardinality(U) \in Nat
  <2>1. IsFiniteSet(T) /\ Pick(T) \in T
    BY <1>4, FS_Subset, PickIn
  <2>2. Cardinality(U) = Cardinality(T) - 1 /\ IsFiniteSet(U)
    BY <2>1, FS_RemoveElement
  <2> QED BY <2>1, <2>2, FS_CardinalityType
<1>6. /\ f[Pick(T)] \in Nat /\ f[Pick(T)] <= m /\ \A x \in U : f[x] \in Nat
      /\ Sum(f, T) = f[Pick(T)] + Sum(f, U)
  BY <1>2, <1>4 DEF Unfolds
<1> HIDE DEF U
<1>7. Sum(f, U) \in Nat
  BY <1>5, <1>6, SumNat
<1>8. m * Cardinality(T) = m * Cardinality(U) + m /\ m * Cardinality(U) \in Nat
  BY <1>5
<1> QED BY <1>3, <1>4, <1>6, <1>7, <1>8

\* A pointwise sum of functions has the sum of their sums.
LEMMA SumPlus ==
  ASSUME NEW S, IsFiniteSet(S), NEW f, NEW h, NEW k,
         \A x \in S : f[x] \in Int /\ h[x] \in Int /\ k[x] = f[x] + h[x]
  PROVE  Sum(k, S) = Sum(f, S) + Sum(h, S)
<1> DEFINE Bad == {T \in SUBSET S : Sum(k, T) # Sum(f, T) + Sum(h, T)}
<1> SUFFICES ASSUME Bad # {} PROVE FALSE
  BY DEF Bad
<1>1. PICK T \in SUBSET S : Least(T, Bad)
  <2>1. Bad \subseteq SUBSET S
    OBVIOUS
  <2> HIDE DEF Bad
  <2> QED BY <2>1, LeastBad
<1>2. IntsOn(f, S) /\ IntsOn(h, S) /\ IntsOn(k, S)
  BY DEF IntsOn
<1> DEFINE U == T \ {Pick(T)}
<1>3. Sum(k, T) # Sum(f, T) + Sum(h, T) /\ (T # {} => Sum(k, U) = Sum(f, U) + Sum(h, U))
  BY <1>1 DEF Least
<1> HIDE DEF Bad
<1>4. Unfolds(f, T) /\ Unfolds(h, T) /\ Unfolds(k, T)
  BY <1>2, SumUnfolds
<1>5. T # {}
  BY <1>3, <1>4 DEF Unfolds
<1>6. Pick(T) \in S /\ U \subseteq S /\ IsFiniteSet(U)
  BY <1>4, <1>5, FS_Subset DEF Unfolds
<1>7. Sum(f, U) \in Int /\ Sum(h, U) \in Int
  BY <1>6, SumType
<1>8. /\ Sum(f, T) = f[Pick(T)] + Sum(f, U) /\ Sum(h, T) = h[Pick(T)] + Sum(h, U)
      /\ Sum(k, T) = k[Pick(T)] + Sum(k, U)
  BY <1>4, <1>5 DEF Unfolds
<1> HIDE DEF U
<1>9. f[Pick(T)] \in Int /\ h[Pick(T)] \in Int /\ k[Pick(T)] = f[Pick(T)] + h[Pick(T)]
  BY <1>6
<1> QED BY <1>3, <1>5, <1>7, <1>8, <1>9

\* A lower bound on the elements bounds the sum.
LEMMA SumAtLeast ==
  ASSUME NEW S, IsFiniteSet(S), NEW f, \A x \in S : f[x] \in Int,
         NEW m \in Nat, \A x \in S : -m <= f[x]
  PROVE  -(m * Cardinality(S)) <= Sum(f, S)
<1> DEFINE h == [x \in S |-> f[x] + m]
           c == [x \in S |-> m]
<1>1. Sum(h, S) = Sum(f, S) + Sum(c, S)
  <2>1. \A x \in S : f[x] \in Int /\ c[x] \in Int /\ h[x] = f[x] + c[x]
    OBVIOUS
  <2> HIDE DEF h, c
  <2> QED BY <2>1, SumPlus
<1>2. Sum(h, S) \in Nat
  <2>1. \A x \in S : h[x] \in Nat
    OBVIOUS
  <2> HIDE DEF h
  <2> QED BY <2>1, SumNat
<1>3. Sum(c, S) <= m * Cardinality(S) /\ Sum(c, S) \in Nat
  <2>1. \A x \in S : c[x] \in Nat /\ c[x] <= m
    OBVIOUS
  <2> HIDE DEF c
  <2> QED BY <2>1, SumAtMost, SumNat
<1>4. Sum(f, S) \in Int /\ m * Cardinality(S) \in Int
  BY SumType, FS_CardinalityType
<1> HIDE DEF h, c
<1> QED BY <1>1, <1>2, <1>3, <1>4

LEMMA SumZero ==
  ASSUME NEW S, IsFiniteSet(S), NEW f, \A x \in S : f[x] = 0
  PROVE  Sum(f, S) = 0
<1>1. Sum(f, S) \in Nat
  BY SumNat
<1>2. Sum(f, S) <= 0 * Cardinality(S)
  BY SumAtMost
<1> QED BY <1>1, <1>2, FS_CardinalityType

\* A sum can be taken class by class: D holds the classes c[i] of the indices,
\* P[d] the indices of class d.
LEMMA SumByClass ==
  ASSUME NEW I, IsFiniteSet(I), NEW D, IsFiniteSet(D), NEW w, NEW c,
         \A i \in I : w[i] \in Int /\ c[i] \in D,
         NEW P, \A d \in D : P[d] \subseteq I /\ \A i \in I : i \in P[d] <=> c[i] = d,
         NEW h, \A d \in D : h[d] = Sum(w, P[d])
  PROVE  Sum(h, D) = Sum(w, I)
<1> DEFINE Part(T) == [d \in D |-> Sum(w, {i \in T : c[i] = d})]
           Bad == {T \in SUBSET I : Sum(Part(T), D) # Sum(w, T)}
<1>1. \A T \in SUBSET I : \A d \in D : Part(T)[d] \in Int
  <2> SUFFICES ASSUME NEW T \in SUBSET I, NEW d \in D
               PROVE  Sum(w, {i \in T : c[i] = d}) \in Int
    OBVIOUS
  <2>1. {i \in T : c[i] = d} \subseteq I
    OBVIOUS
  <2> QED BY <2>1, FS_Subset, SumType
<1>2. Bad = {}
  <2> SUFFICES ASSUME Bad # {} PROVE FALSE
    OBVIOUS
  <2>1. PICK T \in SUBSET I : Least(T, Bad)
    <3>1. Bad \subseteq SUBSET I
      OBVIOUS
    <3> HIDE DEF Bad
    <3> QED BY <3>1, LeastBad
  <2> DEFINE a == Pick(T)
             U == T \ {a}
  <2>2. Sum(Part(T), D) # Sum(w, T) /\ (T # {} => Sum(Part(U), D) = Sum(w, U))
    BY <2>1 DEF Least
  <2> HIDE DEF Bad
  <2>3. IsFiniteSet(T) /\ IsFiniteSet(U) /\ U \subseteq I
    BY FS_Subset
  <2>4. T # {}
    <3> SUFFICES ASSUME T = {} PROVE FALSE
      OBVIOUS
    <3>1. \A d \in D : Part(T)[d] = 0
      <4>1. \A d \in D : {i \in T : c[i] = d} = {}
        OBVIOUS
      <4> QED BY <4>1, SumEmpty
    <3> HIDE DEF Part
    <3>2. Sum(Part(T), D) = 0 /\ Sum(w, T) = 0
      BY <3>1, SumZero, SumEmpty
    <3> QED BY <2>2, <3>2
  <2>5. a \in T /\ a \in I /\ c[a] \in D /\ w[a] \in Int
    BY <2>4, PickIn
  <2> HIDE DEF a
  <2>6. Sum(w, T) = w[a] + Sum(w, U)
    BY <2>3, <2>5, SumRemove
  <2>7. \A d \in D : d # c[a] => Part(T)[d] = Part(U)[d]
    <3>1. \A d \in D : d # c[a] => {i \in T : c[i] = d} = {i \in U : c[i] = d}
      OBVIOUS
    <3> QED BY <3>1
  <2>8. Part(T)[c[a]] = w[a] + Part(U)[c[a]]
    <3> DEFINE V == {i \in T : c[i] = c[a]}
    <3>1. a \in V /\ V \subseteq I /\ V \ {a} = {i \in U : c[i] = c[a]}
      BY <2>5
    <3>2. IsFiniteSet(V) /\ \A i \in V : w[i] \in Int
      BY <3>1, FS_Subset
    <3>3. Sum(w, V) = w[a] + Sum(w, V \ {a})
      <4> HIDE DEF V
      <4> QED BY <3>1, <3>2, SumRemove
    <3> QED BY <2>5, <3>1, <3>3
  <2>9. (\A d \in D : Part(T)[d] \in Int) /\ \A d \in D : Part(U)[d] \in Int
    <3> HIDE DEF Part
    <3> QED BY <1>1, <2>3
  <2>10. Sum(w, U) \in Int
    BY <2>3, SumType
  <2> HIDE DEF Part, U
  <2>11. Sum(Part(T), D) = Sum(Part(U), D) + Part(T)[c[a]] - Part(U)[c[a]]
    <3>1. PICK f, k : f = Part(U) /\ k = Part(T)
      OBVIOUS
    <3>2. /\ \A d \in D : f[d] \in Int
          /\ \A d \in D : k[d] \in Int
          /\ \A d \in D : d # c[a] => k[d] = f[d]
      BY <2>7, <2>9, <3>1
    <3>3. Sum(k, D) = Sum(f, D) + k[c[a]] - f[c[a]]
      BY <2>5, <3>2, SumExcept
    <3> QED BY <3>1, <3>3
  <2>12. Part(U)[c[a]] \in Int
    BY <2>5, <2>9
  <2> QED BY <2>2, <2>4, <2>5, <2>6, <2>8, <2>10, <2>11, <2>12
<1>3. Sum(Part(I), D) = Sum(w, I)
  <2> HIDE DEF Part
  <2> QED BY <1>2
<1>4. \A d \in D : h[d] = Part(I)[d] /\ Part(I)[d] \in Int
  <2> TAKE d \in D
  <2>1. P[d] = {i \in I : c[i] = d}
    OBVIOUS
  <2>2. h[d] = Part(I)[d]
    BY <2>1
  <2> HIDE DEF Part
  <2> QED BY <1>1, <2>2
<1> HIDE DEF Part
<1> QED BY <1>3, <1>4, SumSame

=============================================================================
