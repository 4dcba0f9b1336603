-------------------------- MODULE SignalScoringProofs --------------------------
(***************************************************************************)
(* Proofs about the scores, for every library and every verdict on it: the *)
(* fit and the coverage are fractions, an unknown signal never counts as   *)
(* merit, and the engine and the import score alike.                       *)
(*                                                                         *)
(* The scores are sums and products over sets.  What such a fold is worth  *)
(* is shown by induction over finite sets, with the property of a set      *)
(* given as the set of those that have it.                                 *)
(***************************************************************************)
EXTENDS SignalScoring, FiniteSetTheorems, TLAPS

-----------------------------------------------------------------------------
(* Induction over the subsets of a finite set *)

LEMMA LeastSet ==
  ASSUME NEW S, IsFiniteSet(S), NEW T, T \subseteq SUBSET S, T # {}
  PROVE  \E x \in T : \A y \in T : y \subseteq x => y = x
<1>1. IsWellFoundedOn(StrictSubsetOrdering(S), FiniteSubsetsOf(S))
  BY FS_StrictSubsetOrderingWellFounded
<1>2. T \subseteq FiniteSubsetsOf(S)
  BY FS_Subset DEF FiniteSubsetsOf
<1>3. \E x \in T : \A y \in T : ~ (<<y, x>> \in StrictSubsetOrdering(S))
  BY <1>1, <1>2, WFMin, Zenon
<1> QED
  BY <1>3 DEF StrictSubsetOrdering

\* A set of subsets that holds one whenever it holds all the smaller ones holds them all.
LEMMA SetInduction ==
  ASSUME NEW S, IsFiniteSet(S), NEW G,
         \A T \in SUBSET S : (\A U \in SUBSET T : U # T => U \in G) => T \in G
  PROVE  \A T \in SUBSET S : T \in G
<1> DEFINE Bad == {T \in SUBSET S : T \notin G}
<1>1. SUFFICES ASSUME Bad # {} PROVE FALSE
  OBVIOUS
<1>2. PICK x \in Bad : \A y \in Bad : y \subseteq x => y = x
  <2> HIDE DEF Bad
  <2> SUFFICES Bad \subseteq SUBSET S
    BY <1>1, LeastSet
  <2> QED
    BY DEF Bad
<1> QED
  BY <1>2

-----------------------------------------------------------------------------
(* Folds: op is a function of two values, so that it can be a parameter *)

Pick(s) == CHOOSE x \in s : TRUE

Solves(g, op, base, f, S) ==
    g = [s \in SUBSET S |->
            IF s = {} THEN base ELSE op[<<f[Pick(s)], g[s \ {Pick(s)}]>>]]

Fold(op, base, f, S) == (CHOOSE g : Solves(g, op, base, f, S))[S]

LEMMA Picked ==
  ASSUME NEW S, S # {}
  PROVE  Pick(S) \in S
BY DEF Pick

LEMMA SolutionUnique ==
  ASSUME NEW op, NEW base, NEW f, NEW S, IsFiniteSet(S), NEW T \in SUBSET S,
         NEW g, Solves(g, op, base, f, S), NEW h, Solves(h, op, base, f, T)
  PROVE  \A U \in SUBSET T : g[U] = h[U]
<1> DEFINE G == {U \in SUBSET T : g[U] = h[U]}
<1>1. ASSUME NEW U \in SUBSET T, \A X \in SUBSET U : X # U => X \in G
      PROVE  U \in G
  <2>1. CASE U = {}
    BY <2>1 DEF Solves
  <2>2. CASE U # {}
    <3>1. U \ {Pick(U)} \in G
      BY <1>1, <2>2, Picked
    <3> QED
      BY <2>2, <3>1 DEF Solves
  <2> QED
    BY <2>1, <2>2
<1>2. IsFiniteSet(T)
  BY FS_Subset
<1>3. \A U \in SUBSET T : U \in G
  <2> HIDE DEF G
  <2> QED
    BY <1>1, <1>2, SetInduction
<1> QED
  BY <1>3

\* A fold over a finite set is well defined.
LEMMA SolutionExists ==
  ASSUME NEW op, NEW base, NEW f, NEW S, IsFiniteSet(S)
  PROVE  \E g : Solves(g, op, base, f, S)
<1> DEFINE G == {T \in SUBSET S : \E g : Solves(g, op, base, f, T)}
           Value(T) == Fold(op, base, f, T)
<1>1. ASSUME NEW T \in SUBSET S, \A X \in SUBSET T : X # T => X \in G
      PROVE  T \in G
  <2> DEFINE g == [s \in SUBSET T |->
                      IF s = {} THEN base ELSE op[<<f[Pick(s)], Value(s \ {Pick(s)})>>]]
  <2>1. ASSUME NEW U \in SUBSET T, U # T PROVE g[U] = Value(U)
    <3> DEFINE iter == CHOOSE h : Solves(h, op, base, f, U)
               sub == CHOOSE h : Solves(h, op, base, f, U \ {Pick(U)})
    <3>1. Solves(iter, op, base, f, U)
      BY <1>1, <2>1
    <3>2. CASE U = {}
      BY <3>1, <3>2 DEF Fold, Solves
    <3>3. CASE U # {}
      <4>1. U \ {Pick(U)} \in SUBSET T /\ U \ {Pick(U)} # T
        BY <2>1, <3>3, Picked
      <4>2. Solves(sub, op, base, f, U \ {Pick(U)})
        BY <1>1, <4>1
      <4>3. IsFiniteSet(U)
        BY FS_Subset
      <4>4. iter[U \ {Pick(U)}] = sub[U \ {Pick(U)}]
        <5> HIDE DEF iter, sub
        <5> QED
          BY <3>1, <4>2, <4>3, SolutionUnique
      <4>5. iter[U] = op[<<f[Pick(U)], iter[U \ {Pick(U)}]>>]
        <5> HIDE DEF iter, sub
        <5> QED
          BY <3>1, <3>3 DEF Solves
      <4>6. Value(U) = iter[U] /\ Value(U \ {Pick(U)}) = sub[U \ {Pick(U)}]
        BY DEF Fold
      <4>7. g[U] = op[<<f[Pick(U)], Value(U \ {Pick(U)})>>]
        BY <3>3
      <4> QED
        BY <4>4, <4>5, <4>6, <4>7
    <3> QED
      BY <3>2, <3>3
  <2>2. ASSUME NEW s \in SUBSET T, s # {}
        PROVE  g[s \ {Pick(s)}] = Value(s \ {Pick(s)})
    <3>1. s \ {Pick(s)} \in SUBSET T /\ s \ {Pick(s)} # T
      BY <2>2, Picked
    <3> QED
      BY <2>1, <3>1
  <2>3. Solves(g, op, base, f, T)
    <3> HIDE DEF Value
    <3> QED
      BY <2>2 DEF Solves
  <2> QED
    BY <2>3
<1>2. \A T \in SUBSET S : T \in G
  <2> HIDE DEF G
  <2> QED
    BY <1>1, SetInduction
<1> QED
  BY <1>2

LEMMA FoldEquation ==
  ASSUME NEW op, NEW base, NEW f, NEW S, IsFiniteSet(S)
  PROVE  Fold(op, base, f, S) =
            IF S = {} THEN base ELSE op[<<f[Pick(S)], Fold(op, base, f, S \ {Pick(S)})>>]
<1> DEFINE iter == CHOOSE h : Solves(h, op, base, f, S)
           sub == CHOOSE h : Solves(h, op, base, f, S \ {Pick(S)})
<1>1. Solves(iter, op, base, f, S)
  BY SolutionExists
<1>2. Solves(sub, op, base, f, S \ {Pick(S)})
  <2>1. IsFiniteSet(S \ {Pick(S)})
    BY FS_Subset
  <2> QED
    BY <2>1, SolutionExists
<1>3. iter[S \ {Pick(S)}] = sub[S \ {Pick(S)}]
  <2>1. S \ {Pick(S)} \in SUBSET S
    OBVIOUS
  <2> HIDE DEF iter, sub
  <2>2. \A U \in SUBSET (S \ {Pick(S)}) : iter[U] = sub[U]
    BY <1>1, <1>2, <2>1, SolutionUnique
  <2> QED
    BY <2>2
<1>4. iter[S] = IF S = {} THEN base ELSE op[<<f[Pick(S)], iter[S \ {Pick(S)}]>>]
  <2> HIDE DEF iter, sub
  <2> QED
    BY <1>1 DEF Solves
<1>5. Fold(op, base, f, S) = iter[S]
      /\ Fold(op, base, f, S \ {Pick(S)}) = sub[S \ {Pick(S)}]
  BY DEF Fold
<1> QED
  BY <1>3, <1>4, <1>5


LEMMA FoldType ==
  ASSUME NEW V, NEW op \in [V \X V -> V], NEW base \in V, NEW f, NEW S, IsFiniteSet(S),
         \A x \in S : f[x] \in V
  PROVE  Fold(op, base, f, S) \in V
<1> DEFINE G == {T \in SUBSET S : Fold(op, base, f, T) \in V}
<1>1. ASSUME NEW T \in SUBSET S, \A X \in SUBSET T : X # T => X \in G
      PROVE  T \in G
  <2>1. IsFiniteSet(T)
    BY FS_Subset
  <2>2. Fold(op, base, f, T) =
            IF T = {} THEN base ELSE op[<<f[Pick(T)], Fold(op, base, f, T \ {Pick(T)})>>]
    BY <2>1, FoldEquation
  <2>3. ASSUME T # {} PROVE Fold(op, base, f, T \ {Pick(T)}) \in V /\ f[Pick(T)] \in V
    <3>1. Pick(T) \in T
      BY <2>3, Picked
    <3>2. T \ {Pick(T)} \in SUBSET T /\ T \ {Pick(T)} # T
      BY <3>1
    <3>3. T \ {Pick(T)} \in G
      BY <1>1, <3>2
    <3> QED
      BY <3>1, <3>3
  <2> QED
    BY <2>2, <2>3
<1>2. \A T \in SUBSET S : T \in G
  <2> HIDE DEF G
  <2> QED
    BY <1>1, SetInduction
<1> QED
  BY <1>2

Commutes(op, V) ==
    \A a, b, c \in V : op[<<a, op[<<b, c>>]>>] = op[<<b, op[<<a, c>>]>>]

\* The order in which a fold takes the elements does not matter.
LEMMA FoldRemove ==
  ASSUME NEW V, NEW op \in [V \X V -> V], Commutes(op, V), NEW base \in V,
         NEW f, NEW S, IsFiniteSet(S), \A x \in S : f[x] \in V, NEW x \in S
  PROVE  Fold(op, base, f, S) = op[<<f[x], Fold(op, base, f, S \ {x})>>]
<1> DEFINE F(T) == Fold(op, base, f, T)
           G == {T \in SUBSET S : \A y \in T : F(T) = op[<<f[y], F(T \ {y})>>]}
<1>0. \A T \in SUBSET S : F(T) \in V
  BY FS_Subset, FoldType
<1>1. ASSUME NEW T \in SUBSET S, \A X \in SUBSET T : X # T => X \in G
      PROVE  T \in G
  <2> SUFFICES ASSUME NEW y \in T PROVE F(T) = op[<<f[y], F(T \ {y})>>]
    BY DEF G
  <2> DEFINE p == Pick(T)
  <2>1. p \in T
    BY Picked
  <2>2. F(T) = op[<<f[p], F(T \ {p})>>]
    BY FoldEquation, FS_Subset
  <2>3. CASE y = p
    BY <2>2, <2>3
  <2>4. CASE y # p
    <3> DEFINE rest == (T \ {p}) \ {y}
    <3> HIDE DEF p
    <3>1. T \ {p} \in G /\ T \ {y} \in G
      <4>1. T \ {p} \in SUBSET T /\ T \ {p} # T /\ T \ {y} \in SUBSET T /\ T \ {y} # T
        BY <2>1
      <4> HIDE DEF G
      <4> QED
        BY <1>1, <4>1
    <3>2. y \in T \ {p} /\ p \in T \ {y} /\ (T \ {y}) \ {p} = rest /\ rest \in SUBSET S
      BY <2>1, <2>4
    <3>3. F(T \ {p}) = op[<<f[y], F(rest)>>]
      <4> HIDE DEF F, rest
      <4> QED
        BY <3>1, <3>2 DEF rest
    <3>4. F(T \ {y}) = op[<<f[p], F(rest)>>]
      <4> HIDE DEF F, rest
      <4> QED
        BY <3>1, <3>2
    <3>5. f[p] \in V /\ f[y] \in V /\ F(rest) \in V
      <4> HIDE DEF F, rest
      <4> QED
        BY <1>0, <2>1, <3>2
    <3>6. op[<<f[p], op[<<f[y], F(rest)>>]>>] = op[<<f[y], op[<<f[p], F(rest)>>]>>]
      <4> HIDE DEF F, rest
      <4> QED
        BY <3>5 DEF Commutes
    <3> QED
      <4> HIDE DEF F, rest
      <4> QED
        BY <2>2, <3>3, <3>4, <3>6
  <2> QED
    BY <2>3, <2>4
<1>2. \A T \in SUBSET S : T \in G
  <2> HIDE DEF G
  <2> QED
    BY <1>1, SetInduction
<1> QED
  BY <1>2

LEMMA IntFoldRemove ==
  ASSUME NEW op \in [Int \X Int -> Int], Commutes(op, Int), NEW base \in Int,
         NEW f, NEW S, IsFiniteSet(S), \A x \in S : f[x] \in Int, NEW x \in S
  PROVE  Fold(op, base, f, S) = op[<<f[x], Fold(op, base, f, S \ {x})>>]
BY FoldRemove, SMTT(30)

-----------------------------------------------------------------------------
(* Sums and products of integers *)

Plus == [p \in Int \X Int |-> p[1] + p[2]]

Times == [p \in Int \X Int |-> p[1] * p[2]]

Product(f, S) == FoldFunctionOnSet(LAMBDA x, y : x * y, 1, f, S)

LEMMA PlusTimes ==
  /\ Plus \in [Int \X Int -> Int] /\ Commutes(Plus, Int)
  /\ Times \in [Int \X Int -> Int] /\ Commutes(Times, Int)
<1>1. \A a, b \in Int : Plus[<<a, b>>] = a + b /\ Times[<<a, b>>] = a * b
  BY DEF Plus, Times
<1>2. Plus \in [Int \X Int -> Int] /\ Times \in [Int \X Int -> Int]
  BY DEF Plus, Times
<1>3. Commutes(Plus, Int)
  BY <1>1 DEF Commutes
<1>4. \A a, b, c \in Int : a * (b * c) = b * (a * c)
  OBVIOUS
<1>5. Commutes(Times, Int)
  BY <1>1, <1>4 DEF Commutes
<1> QED
  BY <1>2, <1>3, <1>5

SumSolves(g, f, S) ==
    g = [s \in SUBSET S |-> IF s = {} THEN 0 ELSE f[Pick(s)] + g[s \ {Pick(s)}]]

ProductSolves(g, f, S) ==
    g = [s \in SUBSET S |-> IF s = {} THEN 1 ELSE f[Pick(s)] * g[s \ {Pick(s)}]]

LEMMA SumUnfolded ==
  ASSUME NEW f, NEW S
  PROVE  Sum(f, S) = (CHOOSE g : SumSolves(g, f, S))[S]
BY DEF Sum, SumFunctionOnSet, FoldFunctionOnSet, MapThenFoldSet, SumSolves, Pick

LEMMA ProductUnfolded ==
  ASSUME NEW f, NEW S
  PROVE  Product(f, S) = (CHOOSE g : ProductSolves(g, f, S))[S]
BY DEF Product, FoldFunctionOnSet, MapThenFoldSet, ProductSolves, Pick

LEMMA SumIsFold ==
  ASSUME NEW f, NEW S, IsFiniteSet(S), \A x \in S : f[x] \in Int
  PROVE  Sum(f, S) = Fold(Plus, 0, f, S)
<1> DEFINE F == [T \in SUBSET S |-> Fold(Plus, 0, f, T)]
           g == CHOOSE h : SumSolves(h, f, S)
           G == {T \in SUBSET S : g[T] = F[T]}
<1>1. \A T \in SUBSET S : F[T] \in Int
  <2>1. ASSUME NEW T \in SUBSET S PROVE Fold(Plus, 0, f, T) \in Int
    <3>1. IsFiniteSet(T) /\ (\A x \in T : f[x] \in Int)
      BY FS_Subset
    <3>2. 0 \in Int
      OBVIOUS
    <3> QED
      BY <3>1, <3>2, FoldType, PlusTimes, Zenon
  <2> QED
    BY <2>1
<1>2. ASSUME NEW T \in SUBSET S
      PROVE  F[T] = IF T = {} THEN 0 ELSE f[Pick(T)] + F[T \ {Pick(T)}]
  <2>1. IsFiniteSet(T)
    BY FS_Subset
  <2>2. F[T] = IF T = {} THEN 0 ELSE Plus[<<f[Pick(T)], F[T \ {Pick(T)}]>>]
    BY <2>1, FoldEquation
  <2>3. T # {} => f[Pick(T)] \in Int /\ F[T \ {Pick(T)}] \in Int
    <3> HIDE DEF F
    <3> QED
      BY <1>1, Picked
  <2> HIDE DEF F
  <2> QED
    BY <2>2, <2>3 DEF Plus
<1>3. SumSolves(g, f, S)
  <2>1. SumSolves(F, f, S)
    BY <1>2, Zenon DEF SumSolves
  <2> HIDE DEF F
  <2> QED
    BY <2>1
<1>4. ASSUME NEW T \in SUBSET S, \A X \in SUBSET T : X # T => X \in G
      PROVE  T \in G
  <2>1. g[T] = IF T = {} THEN 0 ELSE f[Pick(T)] + g[T \ {Pick(T)}]
    <3> HIDE DEF g
    <3> QED
      BY <1>3 DEF SumSolves
  <2>2. T # {} => T \ {Pick(T)} \in G
    <3>1. T # {} => T \ {Pick(T)} \in SUBSET T /\ T \ {Pick(T)} # T
      BY Picked
    <3> HIDE DEF G
    <3> QED
      BY <1>4, <3>1
  <2> HIDE DEF g, F
  <2> QED
    BY <1>2, <2>1, <2>2
<1>5. \A T \in SUBSET S : T \in G
  <2> HIDE DEF G
  <2> QED
    BY <1>4, SetInduction
<1> QED
  BY <1>5, SumUnfolded

LEMMA ProductIsFold ==
  ASSUME NEW f, NEW S, IsFiniteSet(S), \A x \in S : f[x] \in Int
  PROVE  Product(f, S) = Fold(Times, 1, f, S)
<1> DEFINE F == [T \in SUBSET S |-> Fold(Times, 1, f, T)]
           g == CHOOSE h : ProductSolves(h, f, S)
           G == {T \in SUBSET S : g[T] = F[T]}
<1>1. \A T \in SUBSET S : F[T] \in Int
  <2>1. ASSUME NEW T \in SUBSET S PROVE Fold(Times, 1, f, T) \in Int
    <3>1. IsFiniteSet(T) /\ (\A x \in T : f[x] \in Int)
      BY FS_Subset
    <3>2. 1 \in Int
      OBVIOUS
    <3> QED
      BY <3>1, <3>2, FoldType, PlusTimes, Zenon
  <2> QED
    BY <2>1
<1>2. ASSUME NEW T \in SUBSET S
      PROVE  F[T] = IF T = {} THEN 1 ELSE f[Pick(T)] * F[T \ {Pick(T)}]
  <2>1. IsFiniteSet(T)
    BY FS_Subset
  <2>2. F[T] = IF T = {} THEN 1 ELSE Times[<<f[Pick(T)], F[T \ {Pick(T)}]>>]
    BY <2>1, FoldEquation
  <2>3. T # {} => f[Pick(T)] \in Int /\ F[T \ {Pick(T)}] \in Int
    <3> HIDE DEF F
    <3> QED
      BY <1>1, Picked
  <2> HIDE DEF F
  <2> QED
    BY <2>2, <2>3 DEF Times
<1>3. ProductSolves(g, f, S)
  <2>1. ProductSolves(F, f, S)
    BY <1>2, Zenon DEF ProductSolves
  <2> HIDE DEF F
  <2> QED
    BY <2>1
<1>4. ASSUME NEW T \in SUBSET S, \A X \in SUBSET T : X # T => X \in G
      PROVE  T \in G
  <2>1. g[T] = IF T = {} THEN 1 ELSE f[Pick(T)] * g[T \ {Pick(T)}]
    <3> HIDE DEF g
    <3> QED
      BY <1>3 DEF ProductSolves
  <2>2. T # {} => T \ {Pick(T)} \in G
    <3>1. T # {} => T \ {Pick(T)} \in SUBSET T /\ T \ {Pick(T)} # T
      BY Picked
    <3> HIDE DEF G
    <3> QED
      BY <1>4, <3>1
  <2> HIDE DEF g, F
  <2> QED
    BY <1>2, <2>1, <2>2
<1>5. \A T \in SUBSET S : T \in G
  <2> HIDE DEF G
  <2> QED
    BY <1>4, SetInduction
<1> QED
  BY <1>5, ProductUnfolded

LEMMA SumEmpty ==
  ASSUME NEW f
  PROVE  Sum(f, {}) = 0
<1>1. IsFiniteSet({}) /\ \A x \in {} : f[x] \in Int
  BY FS_EmptySet
<1>2. Sum(f, {}) = Fold(Plus, 0, f, {})
  BY <1>1, SumIsFold
<1>3. Fold(Plus, 0, f, {}) = 0
  BY <1>1, FoldEquation
<1> QED
  BY <1>2, <1>3

LEMMA SumInt ==
  ASSUME NEW f, NEW S, IsFiniteSet(S), \A x \in S : f[x] \in Int
  PROVE  Sum(f, S) \in Int
<1>1. 0 \in Int
  OBVIOUS
<1>2. Fold(Plus, 0, f, S) \in Int
  BY <1>1, FoldType, PlusTimes, Zenon
<1> QED
  BY <1>2, SumIsFold

LEMMA SumRemove ==
  ASSUME NEW f, NEW S, IsFiniteSet(S), \A x \in S : f[x] \in Int, NEW x \in S
  PROVE  Sum(f, S) = f[x] + Sum(f, S \ {x})
<1>1. IsFiniteSet(S \ {x})
  BY FS_Subset
<1>2. \A y \in S \ {x} : f[y] \in Int
  OBVIOUS
<1>3. Sum(f, S) = Fold(Plus, 0, f, S) /\ Sum(f, S \ {x}) = Fold(Plus, 0, f, S \ {x})
  BY <1>1, <1>2, SumIsFold
<1>4. 0 \in Int
  OBVIOUS
<1>5. Fold(Plus, 0, f, S) = Plus[<<f[x], Fold(Plus, 0, f, S \ {x})>>]
  <2>1. Commutes(Plus, Int) /\ Plus \in [Int \X Int -> Int]
    BY PlusTimes
  <2> HIDE DEF Plus
  <2> QED
    BY <1>4, <2>1, IntFoldRemove
<1>6. f[x] \in Int /\ Fold(Plus, 0, f, S \ {x}) \in Int
  BY <1>1, <1>2, <1>3, SumInt
<1> QED
  BY <1>3, <1>5, <1>6 DEF Plus

LEMMA ProductEmpty ==
  ASSUME NEW f
  PROVE  Product(f, {}) = 1
<1>1. IsFiniteSet({}) /\ \A x \in {} : f[x] \in Int
  BY FS_EmptySet
<1>2. Product(f, {}) = Fold(Times, 1, f, {})
  BY <1>1, ProductIsFold
<1>3. Fold(Times, 1, f, {}) = 1
  BY <1>1, FoldEquation
<1> QED
  BY <1>2, <1>3

LEMMA ProductRemove ==
  ASSUME NEW f, NEW S, IsFiniteSet(S), \A x \in S : f[x] \in Int, NEW x \in S
  PROVE  /\ Product(f, S) \in Int /\ Product(f, S \ {x}) \in Int
         /\ Product(f, S) = f[x] * Product(f, S \ {x})
<1>1. IsFiniteSet(S \ {x})
  BY FS_Subset
<1>2. \A y \in S \ {x} : f[y] \in Int
  OBVIOUS
<1>3. /\ Product(f, S) = Fold(Times, 1, f, S)
      /\ Product(f, S \ {x}) = Fold(Times, 1, f, S \ {x})
  BY <1>1, <1>2, ProductIsFold
<1>4. 1 \in Int
  OBVIOUS
<1>5. Fold(Times, 1, f, S) = Times[<<f[x], Fold(Times, 1, f, S \ {x})>>]
  <2>1. Commutes(Times, Int) /\ Times \in [Int \X Int -> Int]
    BY PlusTimes
  <2> HIDE DEF Times
  <2> QED
    BY <1>4, <2>1, IntFoldRemove
<1>6. Fold(Times, 1, f, S) \in Int /\ Fold(Times, 1, f, S \ {x}) \in Int
  BY <1>1, <1>2, <1>4, FoldType, PlusTimes, Zenon
<1>7. f[x] \in Int
  OBVIOUS
<1> QED
  BY <1>3, <1>5, <1>6, <1>7 DEF Times

\* Induction that takes one element at a time.
LEMMA ElementInduction ==
  ASSUME NEW S, IsFiniteSet(S), NEW G, {} \in G,
         \A T \in SUBSET S : \A x \in T : T \ {x} \in G => T \in G
  PROVE  S \in G
<1>1. ASSUME NEW T \in SUBSET S, \A U \in SUBSET T : U # T => U \in G
      PROVE  T \in G
  <2>1. ASSUME NEW x \in T PROVE T \in G
    <3>1. T \ {x} \in SUBSET T /\ T \ {x} # T
      OBVIOUS
    <3> QED
      BY <1>1, <3>1
  <2> QED
    BY <2>1
<1>2. \A T \in SUBSET S : T \in G
  BY <1>1, SetInduction
<1> QED
  BY <1>2

\* A linear inequality that holds of all terms holds of the sums.
LEMMA SumLinear ==
  ASSUME NEW S, IsFiniteSet(S), NEW f, NEW g, NEW h,
         NEW a \in Int, NEW b \in Int, NEW c \in Int,
         \A x \in S : /\ f[x] \in Int /\ g[x] \in Int /\ h[x] \in Int
                      /\ a * f[x] <= b * g[x] + c * h[x]
  PROVE  a * Sum(f, S) <= b * Sum(g, S) + c * Sum(h, S)
<1> DEFINE G == {T \in SUBSET S : a * Sum(f, T) <= b * Sum(g, T) + c * Sum(h, T)}
<1>1. {} \in G
  BY SumEmpty
<1>2. ASSUME NEW T \in SUBSET S, NEW x \in T, T \ {x} \in G
      PROVE  T \in G
  <2>1. IsFiniteSet(T) /\ IsFiniteSet(T \ {x})
    BY FS_Subset
  <2>2. \A y \in T : f[y] \in Int /\ g[y] \in Int /\ h[y] \in Int
    OBVIOUS
  <2>3. /\ Sum(f, T) = f[x] + Sum(f, T \ {x})
        /\ Sum(g, T) = g[x] + Sum(g, T \ {x})
        /\ Sum(h, T) = h[x] + Sum(h, T \ {x})
    BY <2>1, <2>2, SumRemove
  <2>4. Sum(f, T \ {x}) \in Int /\ Sum(g, T \ {x}) \in Int /\ Sum(h, T \ {x}) \in Int
    BY <2>1, <2>2, SumInt
  <2>5. a * Sum(f, T \ {x}) <= b * Sum(g, T \ {x}) + c * Sum(h, T \ {x})
    BY <1>2
  <2>6. \A i, j, k, p, q, r \in Int :
            a * i <= b * j + c * k /\ a * p <= b * q + c * r
            => a * (i + p) <= b * (j + q) + c * (k + r)
    OBVIOUS
  <2>7. a * (f[x] + Sum(f, T \ {x})) <=
            b * (g[x] + Sum(g, T \ {x})) + c * (h[x] + Sum(h, T \ {x}))
    BY <2>2, <2>4, <2>5, <2>6
  <2> QED
    BY <2>3, <2>7
<1>3. S \in G
  <2> HIDE DEF G
  <2> QED
    BY <1>1, <1>2, ElementInduction
<1> QED
  BY <1>3

LEMMA SumOrder ==
  ASSUME NEW S, IsFiniteSet(S), NEW f, NEW g,
         \A x \in S : f[x] \in Int /\ g[x] \in Int /\ f[x] <= g[x]
  PROVE  Sum(f, S) <= Sum(g, S)
<1>1. \A x \in S : /\ f[x] \in Int /\ g[x] \in Int
                    /\ 1 * f[x] <= 1 * g[x] + 0 * g[x]
  OBVIOUS
<1>2. 1 * Sum(f, S) <= 1 * Sum(g, S) + 0 * Sum(g, S)
  BY <1>1, SumLinear
<1> QED
  BY <1>1, <1>2, SumInt

LEMMA SumSubset ==
  ASSUME NEW S, IsFiniteSet(S), NEW f, \A x \in S : f[x] \in Nat, NEW T \in SUBSET S
  PROVE  Sum(f, T) \in Nat /\ Sum(f, S) \in Nat /\ Sum(f, T) <= Sum(f, S)
<1> DEFINE G == {U \in SUBSET S :
                    Sum(f, U) \in Nat /\ \A X \in SUBSET U : Sum(f, X) <= Sum(f, U)}
<1>0. \A U \in SUBSET S : IsFiniteSet(U) /\ (\A y \in U : f[y] \in Int) /\ Sum(f, U) \in Int
  BY FS_Subset, SumInt
<1>1. {} \in G
  BY SumEmpty
<1>2. ASSUME NEW U \in SUBSET S, NEW x \in U, U \ {x} \in G
      PROVE  U \in G
  <2>1. Sum(f, U) = f[x] + Sum(f, U \ {x})
    BY <1>0, SumRemove
  <2>2. f[x] \in Nat /\ Sum(f, U \ {x}) \in Nat
    BY <1>2
  <2>3. ASSUME NEW X \in SUBSET U PROVE Sum(f, X) <= Sum(f, U)
    <3>1. Sum(f, X \ {x}) <= Sum(f, U \ {x})
      BY <1>2
    <3>2. CASE x \in X
      <4>1. Sum(f, X) = f[x] + Sum(f, X \ {x}) /\ Sum(f, X \ {x}) \in Int
        BY <1>0, <3>2, SumRemove
      <4> QED
        BY <2>1, <2>2, <3>1, <4>1
    <3>3. CASE x \notin X
      <4>1. X \ {x} = X /\ Sum(f, X) \in Int
        BY <1>0, <3>3
      <4>2. Sum(f, X) <= Sum(f, U \ {x})
        BY <3>1, <4>1
      <4> HIDE DEF G
      <4> QED
        BY <2>1, <2>2, <4>1, <4>2
    <3> QED
      BY <3>2, <3>3
  <2> QED
    BY <2>1, <2>2, <2>3
<1>3. \A U \in SUBSET S : U \in G
  <2> SUFFICES ASSUME NEW U \in SUBSET S PROVE U \in G
    OBVIOUS
  <2> HIDE DEF G
  <2> QED
    BY <1>0, <1>1, <1>2, ElementInduction
<1> QED
  BY <1>3

LEMMA SumPositive ==
  ASSUME NEW S, IsFiniteSet(S), NEW f, \A x \in S : f[x] \in Nat \ {0}
  PROVE  Sum(f, S) \in Nat /\ (Sum(f, S) = 0 <=> S = {})
<1>1. Sum(f, S) \in Nat
  BY SumSubset
<1>2. ASSUME NEW x \in S PROVE Sum(f, S) > 0
  <2>1. Sum(f, S) = f[x] + Sum(f, S \ {x})
    BY SumRemove
  <2>2. Sum(f, S \ {x}) \in Nat
    BY SumSubset
  <2> QED
    BY <2>1, <2>2
<1> QED
  BY <1>1, <1>2, SumEmpty

LEMMA ProductPositive ==
  ASSUME NEW S, IsFiniteSet(S), NEW f, \A x \in S : f[x] \in Nat \ {0}
  PROVE  Product(f, S) \in Nat \ {0}
<1> DEFINE G == {T \in SUBSET S : Product(f, T) \in Nat \ {0}}
<1>1. {} \in G
  BY ProductEmpty
<1>2. ASSUME NEW T \in SUBSET S, NEW x \in T, T \ {x} \in G
      PROVE  T \in G
  <2>1. IsFiniteSet(T)
    BY FS_Subset
  <2>2. Product(f, T) = f[x] * Product(f, T \ {x})
    BY <2>1, ProductRemove
  <2>3. \A a, b \in Nat \ {0} : a * b \in Nat \ {0}
    OBVIOUS
  <2> QED
    BY <1>2, <2>2, <2>3
<1>3. S \in G
  <2> HIDE DEF G
  <2> QED
    BY <1>1, <1>2, ElementInduction
<1> QED
  BY <1>3

-----------------------------------------------------------------------------
(* Rounding *)

LEMMA Division ==
  ASSUME NEW a \in Nat, NEW b \in Nat \ {0}
  PROVE  a \div b \in Nat /\ b * (a \div b) <= a /\ a < b * (a \div b) + b
OBVIOUS

\* RoundDiv is the nearest integer: it is off by at most a half.
LEMMA Rounded ==
  ASSUME NEW a \in Nat, NEW b \in Nat \ {0}
  PROVE  /\ RoundDiv(a, b) \in Nat
         /\ 2 * (b * RoundDiv(a, b)) <= 2 * a + b
         /\ 2 * a + b < 2 * (b * RoundDiv(a, b)) + 2 * b
<1> DEFINE x == 2 * a + b
           y == 2 * b
           q == x \div y
<1>1. x \in Nat /\ y \in Nat \ {0}
  OBVIOUS
<1>2. q \in Nat /\ y * q <= x /\ x < y * q + y
  <2> HIDE DEF x, y
  <2> QED
    BY <1>1, Division
<1>3. RoundDiv(a, b) = q
  BY DEF RoundDiv
<1>4. \A i \in Nat : (2 * b) * i = 2 * (b * i)
  OBVIOUS
<1>5. y * q = 2 * (b * q)
  <2> HIDE DEF q
  <2> QED
    BY <1>2, <1>4
<1> HIDE DEF q
<1> QED
  BY <1>2, <1>3, <1>5

LEMMA ProductOrder ==
  ASSUME NEW a \in Int, NEW b \in Int, NEW c \in Nat, a <= b
  PROVE  c * a <= c * b
OBVIOUS

LEMMA Cancel ==
  ASSUME NEW a \in Int, NEW b \in Int, NEW c \in Nat \ {0}, c * a < c * b
  PROVE  a < b
<1> SUFFICES ASSUME b <= a PROVE FALSE
  OBVIOUS
<1>1. c * b <= c * a
  BY ProductOrder
<1> QED
  BY <1>1

\* A larger fraction does not round to less.
LEMMA RoundMonotone ==
  ASSUME NEW a \in Nat, NEW b \in Nat \ {0}, NEW c \in Nat, NEW d \in Nat \ {0},
         d * a <= b * c
  PROVE  RoundDiv(a, b) <= RoundDiv(c, d)
<1> DEFINE q == RoundDiv(a, b)
           r == RoundDiv(c, d)
<1>1. q \in Nat /\ 2 * (b * q) <= 2 * a + b
  BY Rounded
<1>2. r \in Nat /\ 2 * c + d < 2 * (d * r) + 2 * d
  BY Rounded
<1> HIDE DEF q, r
<1> SUFFICES ASSUME r + 1 <= q PROVE FALSE
  BY <1>1, <1>2 DEF q, r
<1>3. d * (2 * (b * q)) <= d * (2 * a + b)
  BY <1>1, ProductOrder
<1>4. b * (2 * c + d) < b * (2 * (d * r) + 2 * d)
  BY <1>2
<1>5. (d * b) * (r + 1) <= (d * b) * q
  BY <1>1, <1>2, ProductOrder
<1>6. d * (2 * (b * q)) = 2 * ((d * b) * q) /\ d * (2 * a + b) = 2 * (d * a) + d * b
  BY <1>1
<1>7. /\ b * (2 * (d * r) + 2 * d) = 2 * ((d * b) * (r + 1))
      /\ b * (2 * c + d) = 2 * (b * c) + d * b
  BY <1>2
<1>8. /\ d * a \in Int /\ b * c \in Int /\ d * b \in Int
      /\ (d * b) * q \in Int /\ (d * b) * (r + 1) \in Int
  BY <1>1, <1>2
<1> QED
  BY <1>3, <1>4, <1>5, <1>6, <1>7, <1>8

\* The fraction of a whole is one.
LEMMA RoundWhole ==
  ASSUME NEW a \in Nat, NEW b \in Nat \ {0}, NEW u \in Nat, a <= u * b
  PROVE  RoundDiv(a, b) <= u
<1> DEFINE q == RoundDiv(a, b)
<1>1. q \in Nat /\ 2 * (b * q) <= 2 * a + b
  BY Rounded
<1> HIDE DEF q
<1> SUFFICES ASSUME u + 1 <= q PROVE FALSE
  BY <1>1 DEF q
<1>2. b * (u + 1) <= b * q
  BY <1>1, ProductOrder
<1>3. b * (u + 1) = u * b + b
  OBVIOUS
<1>4. b * q \in Int /\ u * b \in Int
  BY <1>1
<1> QED
  BY <1>1, <1>2, <1>3, <1>4

-----------------------------------------------------------------------------
(* The fit and the coverage are fractions *)

LEMMA Parameters ==
  /\ IsFiniteSet(Category) /\ \A c \in Category : Weight[c] \in Nat \ {0}
  /\ Unit \in Nat \ {0}
BY LibraryAssumption DEF Unit

LEMMA LibrarySignals ==
  /\ IsFiniteSet(Signals)
  /\ \A n \in Signals : Points[n] \in Nat \ {0}
<1>1. IsFiniteSet(Signals)
  <2> DEFINE number == [i \in DOMAIN Library |-> Library[i].num]
  <2>1. DOMAIN Library = 1 .. Len(Library) /\ Len(Library) \in Nat
    BY LibraryAssumption
  <2>2. IsFiniteSet(DOMAIN Library)
    BY <2>1, FS_Interval
  <2>3. number \in Surjection(DOMAIN Library, Signals)
    BY DEF Signals, Surjection
  <2> HIDE DEF number
  <2> QED
    BY <2>2, <2>3, FS_Surjection
<1> QED
  BY <1>1 DEF Points

LEMMA CategoryPoints ==
  ASSUME NEW D \in SUBSET Signals, NEW v \in [D -> Verdict], NEW c
  PROVE  /\ IsFiniteSet(Resolved(v, c)) /\ Resolved(v, c) \subseteq D
         /\ Sum(Points, Resolved(v, c)) \in Nat /\ Sum(Points, Earned(v, c)) \in Nat
         /\ Sum(Points, Earned(v, c)) <= Sum(Points, Resolved(v, c))
         /\ Sum(Points, Resolved(v, c)) = 0 <=> Resolved(v, c) = {}
<1>1. Resolved(v, c) \in SUBSET D /\ Earned(v, c) \in SUBSET Resolved(v, c)
  BY DEF Resolved, Earned
<1>2. IsFiniteSet(Resolved(v, c)) /\ \A n \in Resolved(v, c) : Points[n] \in Nat \ {0}
  BY <1>1, LibrarySignals, FS_Subset
<1> QED
  BY <1>1, <1>2, SumSubset, SumPositive

\* Rounding changes a category's fit by at most half a unit.
LEMMA CategoryFits ==
  ASSUME NEW D \in SUBSET Signals, NEW v \in [D -> Verdict], NEW c \in Blended(v)
  PROVE  LET points == Sum(Points, Resolved(v, c))
             earned == Sum(Points, Earned(v, c))
             fit == CategoryFit(v)[c]
         IN  /\ points \in Nat \ {0} /\ earned \in Nat /\ earned <= points
             /\ fit = RoundDiv(Unit * earned, points)
             /\ fit \in Nat /\ fit <= Unit
             /\ 2 * (points * fit) <= 2 * (Unit * earned) + points
             /\ 2 * (Unit * earned) <= 2 * (points * fit) + points
<1> DEFINE points == Sum(Points, Resolved(v, c))
           earned == Sum(Points, Earned(v, c))
           fit == RoundDiv(Unit * earned, points)
<1>1. points \in Nat \ {0} /\ earned \in Nat /\ earned <= points
  BY CategoryPoints DEF Blended
<1>2. CategoryFit(v)[c] = fit
  BY DEF CategoryFit
<1> HIDE DEF points, earned
<1>3. Unit * earned \in Nat /\ Unit * earned <= Unit * points
  BY <1>1, Parameters, ProductOrder
<1>4. /\ fit \in Nat /\ 2 * (points * fit) <= 2 * (Unit * earned) + points
      /\ 2 * (Unit * earned) + points < 2 * (points * fit) + 2 * points
  BY <1>1, <1>3, Rounded
<1>5. fit <= Unit
  BY <1>1, <1>3, Parameters, RoundWhole
<1>6. points * fit \in Int
  BY <1>1, <1>4
<1>7. 2 * (Unit * earned) <= 2 * (points * fit) + points
  <2> HIDE DEF fit
  <2> QED
    BY <1>1, <1>3, <1>4, <1>6
<1> QED
  BY <1>1, <1>2, <1>4, <1>5, <1>7 DEF points, earned

\* The numerator and the denominator of the fit.
Blend(v) == [c \in Blended(v) |-> Weight[c] * CategoryFit(v)[c]]

LEMMA FitBlends ==
  ASSUME NEW v
  PROVE  Fit(v) = IF Sum(Weight, Blended(v)) = 0 THEN 0
                  ELSE RoundDiv(Sum(Blend(v), Blended(v)), Sum(Weight, Blended(v)))
<1>1. DOMAIN Blend(v) = Blended(v)
  BY DEF Blend
<1>2. SumFunction(Blend(v)) = Sum(Blend(v), Blended(v))
  BY <1>1 DEF SumFunction, SumFunctionOnSet, FoldFunction, Sum
<1> QED
  BY <1>2 DEF Fit, Blend

LEMMA Blends ==
  ASSUME NEW D \in SUBSET Signals, NEW v \in [D -> Verdict]
  PROVE  /\ IsFiniteSet(Blended(v)) /\ Blended(v) \subseteq Category
         /\ \A c \in Blended(v) : Weight[c] \in Nat \ {0} /\ Blend(v)[c] \in Nat
         /\ Sum(Weight, Blended(v)) \in Nat
         /\ Sum(Weight, Blended(v)) = 0 <=> Blended(v) = {}
         /\ Sum(Blend(v), Blended(v)) \in Nat
         /\ Sum(Blend(v), Blended(v)) <= Unit * Sum(Weight, Blended(v))
<1>1. IsFiniteSet(Blended(v)) /\ Blended(v) \subseteq Category
  BY Parameters, FS_Subset DEF Blended
<1>2. \A c \in Blended(v) : Weight[c] \in Nat \ {0}
  BY <1>1, Parameters
<1>3. ASSUME NEW c \in Blended(v)
      PROVE  Blend(v)[c] \in Nat /\ Blend(v)[c] <= Unit * Weight[c]
  <2>1. CategoryFit(v)[c] \in Nat /\ CategoryFit(v)[c] <= Unit
    BY CategoryFits
  <2>2. Blend(v)[c] = Weight[c] * CategoryFit(v)[c]
    BY DEF Blend
  <2>3. \A i, j, u \in Nat : j <= u => i * j \in Nat /\ i * j <= u * i
    BY ProductOrder
  <2>4. Weight[c] \in Nat /\ Unit \in Nat
    BY <1>2, Parameters
  <2> QED
    BY <2>1, <2>2, <2>3, <2>4
<1>4. Sum(Blend(v), Blended(v)) \in Nat
  BY <1>1, <1>3, SumSubset
<1>5. Sum(Weight, Blended(v)) \in Nat /\ (Sum(Weight, Blended(v)) = 0 <=> Blended(v) = {})
  BY <1>1, <1>2, SumPositive
<1>6. 1 * Sum(Blend(v), Blended(v)) <=
          Unit * Sum(Weight, Blended(v)) + 0 * Sum(Weight, Blended(v))
  <2>1. \A c \in Blended(v) : /\ Blend(v)[c] \in Int /\ Weight[c] \in Int
                              /\ 1 * Blend(v)[c] <= Unit * Weight[c] + 0 * Weight[c]
    BY <1>2, <1>3, Parameters
  <2>2. 1 \in Int /\ Unit \in Int /\ 0 \in Int
    BY Parameters
  <2> QED
    BY <1>1, <2>1, <2>2, SumLinear
<1>7. Sum(Blend(v), Blended(v)) <= Unit * Sum(Weight, Blended(v))
  BY <1>4, <1>5, <1>6, Parameters
<1> QED
  BY <1>1, <1>2, <1>3, <1>4, <1>5, <1>7

\* The fit of every scan, whatever its answers, is between 0 and 1.
THEOREM FitIsFraction ==
  ASSUME NEW D \in SUBSET Signals, NEW v \in [D -> Verdict]
  PROVE  Fit(v) \in 0 .. Unit
<1> DEFINE weight == Sum(Weight, Blended(v))
           blend == Sum(Blend(v), Blended(v))
<1>1. weight \in Nat /\ blend \in Nat /\ blend <= Unit * weight
  BY Blends
<1>2. Fit(v) = IF weight = 0 THEN 0 ELSE RoundDiv(blend, weight)
  BY FitBlends
<1> HIDE DEF weight, blend
<1>3. weight # 0 => RoundDiv(blend, weight) \in Nat /\ RoundDiv(blend, weight) <= Unit
  BY <1>1, Parameters, Rounded, RoundWhole
<1> QED
  BY <1>2, <1>3, Parameters

\* The share of the signals with a verdict that scores is between 0 and 1.
THEOREM CoverageIsFraction ==
  ASSUME NEW D \in SUBSET Signals, NEW v \in [D -> Verdict]
  PROVE  Coverage(v) \in 0 .. Unit
<1> DEFINE scored == Cardinality({n \in DOMAIN v : Scores(v[n])})
           all == Cardinality(D)
<1>1. IsFiniteSet(D) /\ DOMAIN v = D
  BY LibrarySignals, FS_Subset
<1>2. scored \in Nat /\ all \in Nat /\ scored <= all /\ (D # {} => all # 0)
  <2>1. {n \in DOMAIN v : Scores(v[n])} \subseteq D
    BY <1>1
  <2> QED
    BY <1>1, <2>1, FS_Subset, FS_CardinalityType, FS_EmptySet
<1>3. Coverage(v) = IF D = {} THEN 0 ELSE RoundDiv(Unit * scored, all)
  BY <1>1 DEF Coverage
<1> HIDE DEF scored, all
<1>4. Unit * scored \in Nat /\ Unit * scored <= Unit * all
  BY <1>2, Parameters, ProductOrder
<1>5. D # {} => RoundDiv(Unit * scored, all) \in Nat /\ RoundDiv(Unit * scored, all) <= Unit
  BY <1>2, <1>4, Parameters, Rounded, RoundWhole
<1> QED
  BY <1>3, <1>5, Parameters

-----------------------------------------------------------------------------
(* Ignorance is not merit *)

Resolve(v, n, r) == [v EXCEPT ![n] = r]

LEMMA ResolvingElsewhere ==
  ASSUME NEW D \in SUBSET Signals, NEW v \in [D -> Verdict], NEW n \in D,
         NEW r \in {"confirmed", "absent"}, NEW c, c # CategoryOf(n)
  PROVE  /\ Resolved(Resolve(v, n, r), c) = Resolved(v, c)
         /\ Earned(Resolve(v, n, r), c) = Earned(v, c)
<1> DEFINE u == Resolve(v, n, r)
<1>1. /\ DOMAIN u = D /\ DOMAIN v = D
      /\ \A m \in D : m # n => u[m] = v[m]
  BY DEF Resolve
<1> HIDE DEF u
<1>2. Resolved(u, c) = Resolved(v, c)
  BY <1>1 DEF Resolved, Scores
<1>3. \A m \in Resolved(v, c) : m \in D /\ m # n
  BY <1>1 DEF Resolved
<1>4. Earned(u, c) = Earned(v, c)
  BY <1>1, <1>2, <1>3 DEF Earned
<1> QED
  BY <1>2, <1>4 DEF u

LEMMA Resolving ==
  ASSUME NEW D \in SUBSET Signals, NEW v \in [D -> Verdict], NEW n \in D, v[n] = "unknown",
         NEW r \in {"confirmed", "absent"}
  PROVE  LET u == Resolve(v, n, r)
             k == CategoryOf(n)
         IN  /\ u \in [D -> Verdict]
             /\ Resolved(u, k) = Resolved(v, k) \cup {n} /\ n \notin Resolved(v, k)
             /\ Earned(u, k) = IF r = "confirmed" THEN Earned(v, k) \cup {n} ELSE Earned(v, k)
             /\ Blended(u) = IF k \in Category THEN Blended(v) \cup {k} ELSE Blended(v)
<1> DEFINE u == Resolve(v, n, r)
           k == CategoryOf(n)
<1>1. /\ u \in [D -> Verdict] /\ u[n] = r
      /\ \A m \in D : m # n => u[m] = v[m]
  BY DEF Resolve, Verdict
<1>2. DOMAIN u = D /\ DOMAIN v = D
  BY <1>1
<1>3. ASSUME NEW c, c # k PROVE Resolved(u, c) = Resolved(v, c)
  BY <1>3, ResolvingElsewhere
<1> HIDE DEF u
<1>4. Resolved(u, k) = Resolved(v, k) \cup {n} /\ n \notin Resolved(v, k)
  BY <1>1, <1>2 DEF Resolved, Scores
<1>5. Earned(u, k) = IF r = "confirmed" THEN Earned(v, k) \cup {n} ELSE Earned(v, k)
  <2>1. \A m \in Resolved(v, k) : m \in D /\ m # n
    BY <1>2, <1>4 DEF Resolved
  <2> QED
    BY <1>1, <1>4, <2>1 DEF Earned
<1>6. Blended(u) = IF k \in Category THEN Blended(v) \cup {k} ELSE Blended(v)
  <2> HIDE DEF k
  <2> QED
    BY <1>3, <1>4 DEF Blended
<1> QED
  BY <1>1, <1>4, <1>5, <1>6 DEF u

LEMMA SumJoin ==
  ASSUME NEW S, IsFiniteSet(S), NEW n, n \notin S, NEW f,
         \A x \in S \cup {n} : f[x] \in Int
  PROVE  Sum(f, S \cup {n}) = f[n] + Sum(f, S)
<1>1. IsFiniteSet(S \cup {n}) /\ n \in S \cup {n}
  BY FS_AddElement
<1>2. (S \cup {n}) \ {n} = S
  OBVIOUS
<1> QED
  BY <1>1, <1>2, SumRemove

\* If no category that counts has a better fit, the company has not.
LEMMA FitMonotone ==
  ASSUME NEW D \in SUBSET Signals, NEW u \in [D -> Verdict], NEW v \in [D -> Verdict],
         Blended(u) = Blended(v),
         \A c \in Blended(v) : CategoryFit(u)[c] <= CategoryFit(v)[c]
  PROVE  Fit(u) <= Fit(v)
<1> DEFINE S == Blended(v)
           weight == Sum(Weight, S)
<1>1. IsFiniteSet(S) /\ \A c \in S : Weight[c] \in Nat \ {0}
  BY Blends
<1>2. \A c \in S : Blend(u)[c] \in Int /\ Blend(v)[c] \in Int /\ Blend(u)[c] <= Blend(v)[c]
  <2>1. ASSUME NEW c \in S
        PROVE  Blend(u)[c] \in Int /\ Blend(v)[c] \in Int /\ Blend(u)[c] <= Blend(v)[c]
    <3>1. CategoryFit(u)[c] \in Nat /\ CategoryFit(v)[c] \in Nat
      BY CategoryFits
    <3>2. /\ Blend(u)[c] = Weight[c] * CategoryFit(u)[c]
          /\ Blend(v)[c] = Weight[c] * CategoryFit(v)[c]
      BY DEF Blend
    <3> HIDE DEF S
    <3>3. Weight[c] \in Nat /\ CategoryFit(u)[c] <= CategoryFit(v)[c]
      BY <1>1 DEF S
    <3>4. \A w, i, j \in Nat : i <= j => w * i \in Int /\ w * j \in Int /\ w * i <= w * j
      BY ProductOrder
    <3> QED
      BY <3>1, <3>2, <3>3, <3>4
  <2> QED
    BY <2>1
<1>3. Sum(Blend(u), S) <= Sum(Blend(v), S)
  <2> HIDE DEF S
  <2> QED
    BY <1>1, <1>2, SumOrder
<1>4. weight \in Nat /\ Sum(Blend(u), S) \in Nat /\ Sum(Blend(v), S) \in Nat
  BY Blends
<1>5. /\ Fit(u) = IF weight = 0 THEN 0 ELSE RoundDiv(Sum(Blend(u), S), weight)
      /\ Fit(v) = IF weight = 0 THEN 0 ELSE RoundDiv(Sum(Blend(v), S), weight)
  BY FitBlends
<1>6. weight * Sum(Blend(u), S) <= weight * Sum(Blend(v), S)
  BY <1>3, <1>4, ProductOrder
<1>7. weight # 0 => RoundDiv(Sum(Blend(u), S), weight) <= RoundDiv(Sum(Blend(v), S), weight)
  <2> HIDE DEF weight, S
  <2> QED
    BY <1>4, <1>6, RoundMonotone
<1> QED
  <2> HIDE DEF weight, S
  <2> QED
    BY <1>5, <1>7

\* A category that joins the blend pulls the fit towards its own.
LEMMA FitJoins ==
  ASSUME NEW D \in SUBSET Signals, NEW u \in [D -> Verdict], NEW v \in [D -> Verdict],
         NEW k \in Category \ Blended(v), Blended(u) = Blended(v) \cup {k},
         \A c \in Blended(v) : CategoryFit(u)[c] = CategoryFit(v)[c]
  PROVE  /\ CategoryFit(u)[k] = 0 => Fit(u) <= Fit(v)
         /\ CategoryFit(u)[k] = Unit => Fit(v) <= Fit(u)
<1> DEFINE S == Blended(v)
           weight == Sum(Weight, S)
           blend == Sum(Blend(v), S)
           added == Weight[k] * CategoryFit(u)[k]
<1>1. IsFiniteSet(S) /\ weight \in Nat /\ blend \in Nat /\ blend <= Unit * weight
  BY Blends
<1>2. (weight = 0 => blend = 0) /\ Weight[k] \in Nat \ {0}
  BY Blends, Parameters, SumEmpty
<1>3. \A c \in S \cup {k} : Blend(u)[c] \in Int /\ Weight[c] \in Int
  BY Blends
<1>4. Sum(Weight, S \cup {k}) = Weight[k] + weight
  <2> HIDE DEF S
  <2> QED
    BY <1>1, <1>3, SumJoin DEF S
<1>5. Sum(Blend(u), S \cup {k}) = added + blend
  <2>1. \A c \in S : Blend(u)[c] = Blend(v)[c]
    BY DEF Blend
  <2>2. Sum(Blend(u), S) \in Int /\ Sum(Blend(u), S) <= blend /\ blend <= Sum(Blend(u), S)
    <3> HIDE DEF S
    <3> QED
      BY <1>1, <1>3, <2>1, SumInt, SumOrder
  <2>3. Sum(Blend(u), S \cup {k}) = Blend(u)[k] + Sum(Blend(u), S)
    <3> HIDE DEF S
    <3> QED
      BY <1>1, <1>3, SumJoin DEF S
  <2>4. Blend(u)[k] = added
    BY DEF Blend
  <2> HIDE DEF S, blend, added
  <2> QED
    BY <1>1, <2>2, <2>3, <2>4
<1>6. Fit(v) = IF weight = 0 THEN 0 ELSE RoundDiv(blend, weight)
  BY FitBlends
<1>7. CategoryFit(u)[k] \in Nat
  BY CategoryFits
<1>8. added \in Nat /\ Weight[k] + weight \in Nat \ {0}
  <2> HIDE DEF weight
  <2> QED
    BY <1>1, <1>2, <1>7
<1>9. Fit(u) = RoundDiv(added + blend, Weight[k] + weight)
  BY <1>4, <1>5, <1>8, FitBlends
<1>10. CategoryFit(u)[k] = 0 => added = 0
  <2> HIDE DEF weight, blend
  <2> QED
    BY <1>2
<1>11. CategoryFit(u)[k] = Unit => added = Unit * Weight[k]
  <2> HIDE DEF weight, blend
  <2> QED
    BY <1>2, Parameters
<1> HIDE DEF weight, blend, added
<1>12. ASSUME added = 0 PROVE Fit(u) <= Fit(v)
  <2>1. CASE weight = 0
    <3>1. Fit(u) = RoundDiv(0, Weight[k]) /\ Fit(v) = 0
      BY <1>1, <1>2, <1>6, <1>9, <1>12, <2>1
    <3>2. RoundDiv(0, Weight[k]) <= 0
      BY <1>2, RoundWhole
    <3> QED
      BY <3>1, <3>2
  <2>2. CASE weight # 0
    <3>1. weight * (added + blend) <= (Weight[k] + weight) * blend
      <4>1. \A w, x, b \in Nat : w * b <= (x + w) * b
        OBVIOUS
      <4> QED
        BY <1>1, <1>2, <1>12, <4>1
    <3>2. added + blend \in Nat
      BY <1>1, <1>8
    <3>3. RoundDiv(added + blend, Weight[k] + weight) <= RoundDiv(blend, weight)
      BY <1>1, <1>8, <2>2, <3>1, <3>2, RoundMonotone
    <3> QED
      BY <1>6, <1>9, <2>2, <3>3
  <2> QED
    BY <2>1, <2>2
<1>13. ASSUME added = Unit * Weight[k] PROVE Fit(v) <= Fit(u)
  <2>1. CASE weight = 0
    BY <1>1, <1>6, <1>8, <1>9, <2>1, Rounded
  <2>2. CASE weight # 0
    <3>1. (Weight[k] + weight) * blend <= weight * (added + blend)
      <4>1. \A w, x, b, y \in Nat : b <= y * w => (x + w) * b <= w * (y * x + b)
        <5> SUFFICES ASSUME NEW w \in Nat, NEW x \in Nat, NEW b \in Nat, NEW y \in Nat,
                            b <= y * w
                     PROVE  (x + w) * b <= w * (y * x + b)
          OBVIOUS
        <5>1. x * b <= x * (y * w)
          BY ProductOrder
        <5> QED
          BY <5>1
      <4> QED
        BY <1>1, <1>2, <1>13, <4>1, Parameters
    <3> QED
      BY <1>1, <1>6, <1>8, <1>9, <2>2, <3>1, RoundMonotone
  <2> QED
    BY <2>1, <2>2
<1> QED
  BY <1>10, <1>11, <1>12, <1>13

\* A signal that is resolved counts in its category: its points in what the category
\* could earn, and in what it has earned if the signal is there.
LEMMA ResolvedFit ==
  ASSUME NEW D \in SUBSET Signals, NEW v \in [D -> Verdict], NEW n \in D, v[n] = "unknown",
         NEW r \in {"confirmed", "absent"}, CategoryOf(n) \in Category
  PROVE  LET u == Resolve(v, n, r)
             k == CategoryOf(n)
             points == Sum(Points, Resolved(v, k))
             earned == Sum(Points, Earned(v, k))
         IN  /\ Points[n] \in Nat \ {0}
             /\ CategoryFit(u)[k] =
                    IF r = "confirmed"
                    THEN RoundDiv(Unit * (Points[n] + earned), Points[n] + points)
                    ELSE RoundDiv(Unit * earned, Points[n] + points)
<1> DEFINE u == Resolve(v, n, r)
           k == CategoryOf(n)
<1>1. Points[n] \in Nat \ {0} /\ IsFiniteSet(Resolved(v, k)) /\ Resolved(v, k) \subseteq D
  BY LibrarySignals, CategoryPoints
<1>2. /\ Resolved(u, k) = Resolved(v, k) \cup {n} /\ n \notin Resolved(v, k)
      /\ Earned(u, k) = IF r = "confirmed" THEN Earned(v, k) \cup {n} ELSE Earned(v, k)
      /\ k \in Blended(u)
  BY Resolving
<1>3. Earned(v, k) \subseteq Resolved(v, k)
  BY DEF Earned
<1> HIDE DEF u, k
<1>4. \A m \in Resolved(v, k) \cup {n} : Points[m] \in Int
  BY <1>1, LibrarySignals
<1>5. Sum(Points, Resolved(u, k)) = Points[n] + Sum(Points, Resolved(v, k))
  BY <1>1, <1>2, <1>4, SumJoin
<1>6. r = "confirmed" => Sum(Points, Earned(u, k)) = Points[n] + Sum(Points, Earned(v, k))
  <2>1. IsFiniteSet(Earned(v, k)) /\ n \notin Earned(v, k)
        /\ \A m \in Earned(v, k) \cup {n} : Points[m] \in Int
    BY <1>1, <1>2, <1>3, <1>4, FS_Subset
  <2> QED
    BY <1>2, <2>1, SumJoin
<1>7. CategoryFit(u)[k] = RoundDiv(Unit * Sum(Points, Earned(u, k)), Sum(Points, Resolved(u, k)))
  BY <1>2 DEF CategoryFit
<1> QED
  BY <1>1, <1>2, <1>5, <1>6, <1>7 DEF u, k

\* Taking an unknown signal for absent never raises a fit, and for present never lowers it.
THEOREM UnknownNeutral ==
  ASSUME NEW D \in SUBSET Signals, NEW v \in [D -> Verdict], NEW n \in D, v[n] = "unknown"
  PROVE  /\ Fit([v EXCEPT ![n] = "absent"]) <= Fit(v)
         /\ Fit([v EXCEPT ![n] = "confirmed"]) >= Fit(v)
<1> DEFINE a == Resolve(v, n, "absent")
           y == Resolve(v, n, "confirmed")
           k == CategoryOf(n)
           points == Sum(Points, Resolved(v, k))
           earned == Sum(Points, Earned(v, k))
<1>1. /\ a \in [D -> Verdict] /\ y \in [D -> Verdict]
      /\ Blended(a) = IF k \in Category THEN Blended(v) \cup {k} ELSE Blended(v)
      /\ Blended(y) = IF k \in Category THEN Blended(v) \cup {k} ELSE Blended(v)
  BY Resolving
<1>2. \A c \in Blended(v) : c # k => /\ CategoryFit(a)[c] = CategoryFit(v)[c]
                                     /\ CategoryFit(y)[c] = CategoryFit(v)[c]
  <2>1. ASSUME NEW c \in Blended(v), c # k
        PROVE  /\ CategoryFit(a)[c] = CategoryFit(v)[c]
               /\ CategoryFit(y)[c] = CategoryFit(v)[c]
    <3>1. /\ Resolved(a, c) = Resolved(v, c) /\ Earned(a, c) = Earned(v, c)
          /\ Resolved(y, c) = Resolved(v, c) /\ Earned(y, c) = Earned(v, c)
      BY <2>1, ResolvingElsewhere
    <3>2. c \in Blended(a) /\ c \in Blended(y)
      BY <1>1
    <3> HIDE DEF a, y
    <3> QED
      BY <3>1, <3>2 DEF CategoryFit
  <2> QED
    BY <2>1
<1>3. \A c \in Blended(v) : CategoryFit(v)[c] \in Nat
  BY CategoryFits
<1>4. points \in Nat /\ earned \in Nat /\ earned <= points
      /\ (points = 0 <=> Resolved(v, k) = {})
  BY CategoryPoints
<1>5. k \in Category => /\ Points[n] \in Nat \ {0}
                        /\ CategoryFit(a)[k] = RoundDiv(Unit * earned, Points[n] + points)
                        /\ CategoryFit(y)[k] =
                               RoundDiv(Unit * (Points[n] + earned), Points[n] + points)
  BY ResolvedFit
<1>6. SUFFICES Fit(a) <= Fit(v) /\ Fit(v) <= Fit(y)
  <2>1. Fit(v) \in Int /\ Fit(y) \in Int
    BY <1>1, FitIsFraction
  <2>2. a = [v EXCEPT ![n] = "absent"] /\ y = [v EXCEPT ![n] = "confirmed"]
    BY DEF Resolve
  <2> HIDE DEF a, y
  <2> QED
    BY <2>1, <2>2
<1> HIDE DEF a, y, points, earned
<1>7. CASE k \notin Category
  <2>1. k \notin Blended(v)
    BY <1>7 DEF Blended
  <2> HIDE DEF k
  <2>2. /\ \A c \in Blended(v) : CategoryFit(a)[c] <= CategoryFit(v)[c]
        /\ \A c \in Blended(v) : CategoryFit(v)[c] <= CategoryFit(y)[c]
    BY <1>2, <1>3, <2>1
  <2> QED
    BY <1>1, <1>7, <2>2, FitMonotone
<1>8. CASE k \in Blended(v)
  <2>1. k \in Category /\ points # 0 /\ CategoryFit(v)[k] = RoundDiv(Unit * earned, points)
    BY <1>4, <1>8 DEF Blended, CategoryFit, points, earned
  <2> HIDE DEF k
  <2> DEFINE p == Points[n]
  <2>2. p \in Nat \ {0} /\ points \in Nat \ {0} /\ p + points \in Nat \ {0}
    BY <1>4, <1>5, <2>1
  <2> HIDE DEF p
  <2>3. /\ Unit * earned \in Nat /\ Unit * (p + earned) \in Nat
        /\ points * (Unit * earned) <= (p + points) * (Unit * earned)
        /\ (p + points) * (Unit * earned) <= points * (Unit * (p + earned))
    <3>1. \A t, e, q, x \in Nat :
              e <= x => /\ t * e \in Nat /\ t * (q + e) \in Nat
                        /\ x * (t * e) <= (q + x) * (t * e)
                        /\ (q + x) * (t * e) <= x * (t * (q + e))
      <4> SUFFICES ASSUME NEW t \in Nat, NEW e \in Nat, NEW q \in Nat, NEW x \in Nat, e <= x
                   PROVE  /\ t * e \in Nat /\ t * (q + e) \in Nat
                          /\ x * (t * e) <= (q + x) * (t * e)
                          /\ (q + x) * (t * e) <= x * (t * (q + e))
        OBVIOUS
      <4>1. t * e \in Nat /\ q * (t * e) \in Nat /\ t * q \in Nat /\ t * (q + e) = t * q + t * e
        OBVIOUS
      <4>2. (t * q) * e <= (t * q) * x
        BY <4>1, ProductOrder
      <4>3. /\ (q + x) * (t * e) = (t * q) * e + x * (t * e)
            /\ (q + x) * (t * e) = q * (t * e) + x * (t * e)
            /\ x * (t * (q + e)) = (t * q) * x + x * (t * e)
        OBVIOUS
      <4> QED
        BY <4>1, <4>2, <4>3
    <3> QED
      BY <1>4, <2>2, <3>1, Parameters
  <2>4. CategoryFit(a)[k] <= CategoryFit(v)[k]
    <3>1. RoundDiv(Unit * earned, p + points) <= RoundDiv(Unit * earned, points)
      BY <2>2, <2>3, RoundMonotone
    <3> QED
      BY <1>5, <2>1, <3>1 DEF p
  <2>5. CategoryFit(v)[k] <= CategoryFit(y)[k]
    <3>1. RoundDiv(Unit * earned, points) <= RoundDiv(Unit * (p + earned), p + points)
      BY <2>2, <2>3, RoundMonotone
    <3> QED
      BY <1>5, <2>1, <3>1 DEF p
  <2>6. /\ \A c \in Blended(v) : CategoryFit(a)[c] <= CategoryFit(v)[c]
        /\ \A c \in Blended(v) : CategoryFit(v)[c] <= CategoryFit(y)[c]
    BY <1>2, <1>3, <2>4, <2>5
  <2>7. Blended(a) = Blended(v) /\ Blended(y) = Blended(v)
    BY <1>1, <1>8
  <2> QED
    BY <1>1, <2>6, <2>7, FitMonotone
<1>9. CASE k \in Category \ Blended(v)
  <2>1. points = 0 /\ earned = 0
    <3>1. Resolved(v, k) = {}
      BY <1>9 DEF Blended
    <3> QED
      BY <1>4, <3>1
  <2> HIDE DEF k
  <2> DEFINE p == Points[n]
  <2>2. p \in Nat \ {0}
    BY <1>5, <1>9
  <2>3. /\ CategoryFit(a)[k] = RoundDiv(0, p) /\ CategoryFit(y)[k] = RoundDiv(Unit * p, p)
    <3> HIDE DEF p
    <3>1. Unit * earned = 0 /\ p + points = p /\ p + earned = p
      BY <2>1, <2>2, Parameters
    <3> QED
      BY <1>5, <1>9, <3>1 DEF p
  <2> HIDE DEF p
  <2>4. RoundDiv(0, p) = 0
    BY <2>2, Rounded, RoundWhole
  <2>5. RoundDiv(Unit * p, p) = Unit
    <3>1. Unit * p \in Nat
      BY <2>2, Parameters
    <3>2. RoundDiv(Unit * p, p) <= Unit
      BY <2>2, <3>1, Parameters, RoundWhole
    <3> DEFINE q == RoundDiv(Unit * p, p)
    <3>3. q \in Nat /\ 2 * (Unit * p) + p < 2 * (p * q) + 2 * p
      BY <2>2, <3>1, Rounded
    <3> HIDE DEF q
    <3>4. ~(q + 1 <= Unit)
      <4> SUFFICES ASSUME q + 1 <= Unit PROVE FALSE
        OBVIOUS
      <4>1. p * (q + 1) <= p * Unit
        BY <2>2, <3>3, Parameters, ProductOrder
      <4>2. p * (q + 1) = p * q + p /\ p * Unit = Unit * p /\ p * q \in Int
        BY <2>2, <3>3, Parameters
      <4> QED
        BY <2>2, <3>1, <3>3, <4>1, <4>2
    <3> QED
      BY <3>2, <3>3, <3>4, Parameters DEF q
  <2>6. \A c \in Blended(v) : /\ CategoryFit(a)[c] = CategoryFit(v)[c]
                              /\ CategoryFit(y)[c] = CategoryFit(v)[c]
    BY <1>2, <1>9
  <2>7. Blended(a) = Blended(v) \cup {k} /\ Blended(y) = Blended(v) \cup {k}
    BY <1>1, <1>9
  <2> QED
    BY <1>1, <1>9, <2>3, <2>4, <2>5, <2>6, <2>7, FitJoins
<1> QED
  BY <1>7, <1>8, <1>9

-----------------------------------------------------------------------------
(* The engine and the import agree *)

LEMMA DivideExactly ==
  ASSUME NEW a \in Nat, NEW b \in Nat \ {0}
  PROVE  (b * a) \div b = a
<1> DEFINE q == (b * a) \div b
<1>1. b * a \in Nat
  OBVIOUS
<1>2. q \in Nat /\ b * q <= b * a /\ b * a < b * q + b
  BY <1>1, Division
<1> HIDE DEF q
<1>3. b * q + b = b * (q + 1) /\ b * q < b * q + b
  BY <1>2
<1>4. b * a < b * (q + 1)
  BY <1>2, <1>3
<1>5. a < q + 1
  BY <1>2, <1>4, Cancel
<1>6. b * q < b * (a + 1)
  <2>1. b * (a + 1) = b * a + b /\ b * q \in Int
    BY <1>2
  <2> QED
    BY <1>1, <1>2, <2>1
<1>7. q < a + 1
  BY <1>2, <1>6, Cancel
<1> QED
  BY <1>2, <1>5, <1>7 DEF q

\* Two fractions half a unit apart round to neighbours.
LEMMA RoundNear ==
  ASSUME NEW a \in Nat, NEW b \in Nat \ {0}, NEW c \in Nat, NEW m \in Nat \ {0},
         2 * (m * a) <= 2 * c + m * b, 2 * c <= 2 * (m * a) + m * b
  PROVE  RoundDiv(a, b) - RoundDiv(c, m * b) \in {-1, 0, 1}
<1> DEFINE d == m * b
           q == RoundDiv(a, b)
           r == RoundDiv(c, d)
<1>1. d \in Nat \ {0}
  OBVIOUS
<1>2. q \in Nat /\ 2 * (b * q) <= 2 * a + b /\ 2 * a + b < 2 * (b * q) + 2 * b
  BY Rounded
<1>3. r \in Nat /\ 2 * (d * r) <= 2 * c + d /\ 2 * c + d < 2 * (d * r) + 2 * d
  <2> HIDE DEF d
  <2> QED
    BY <1>1, Rounded
<1> HIDE DEF q, r
<1>4. /\ 2 * (d * q) <= 2 * (m * a) + d
      /\ 2 * (m * a) + d < 2 * (d * q) + 2 * d
  <2>1. /\ m * (2 * (b * q)) <= m * (2 * a + b)
        /\ m * (2 * a + b) < m * (2 * (b * q) + 2 * b)
    BY <1>2
  <2>2. /\ m * (2 * (b * q)) = 2 * (d * q) /\ m * (2 * a + b) = 2 * (m * a) + d
        /\ m * (2 * (b * q) + 2 * b) = 2 * (d * q) + 2 * d
    BY <1>2
  <2> QED
    BY <2>1, <2>2
<1>5. m * a \in Int /\ d * q \in Int /\ d * r \in Int
  BY <1>1, <1>2, <1>3
<1>6. 2 * (m * a) <= 2 * c + d /\ 2 * c <= 2 * (m * a) + d
  OBVIOUS
<1> HIDE DEF d
<1>7. d * q < d * (r + 2)
  <2>1. d * (r + 2) = d * r + 2 * d
    BY <1>1, <1>3
  <2> QED
    BY <1>1, <1>3, <1>4, <1>5, <1>6, <2>1
<1>8. d * r < d * (q + 2)
  <2>1. d * (q + 2) = d * q + 2 * d
    BY <1>1, <1>2
  <2> QED
    BY <1>1, <1>3, <1>4, <1>5, <1>6, <2>1
<1>9. q < r + 2 /\ r < q + 2
  BY <1>1, <1>2, <1>3, <1>7, <1>8, Cancel
<1>10. q - r \in {-1, 0, 1}
  BY <1>2, <1>3, <1>9
<1> QED
  BY <1>10 DEF q, r, d

\* The parts of ImportFit.
ImportResolved(v, known, c) ==
    {n \in known \cap DOMAIN v : CategoryOf(n) = c /\ v[n] \in {"confirmed", "absent"}}

ImportConfirmed(v, known, c) == {n \in ImportResolved(v, known, c) : v[n] = "confirmed"}

ImportBlended(v, known) == {c \in Category : ImportResolved(v, known, c) # {}}

ImportPoints(v, known) ==
    [c \in ImportBlended(v, known) |-> Sum(Points, ImportResolved(v, known, c))]

ImportCommon(v, known) == Product(ImportPoints(v, known), ImportBlended(v, known))

ImportShares(v, known) ==
    [c \in ImportBlended(v, known) |->
        Weight[c] * Sum(Points, ImportConfirmed(v, known, c))
            * (ImportCommon(v, known) \div ImportPoints(v, known)[c])]

LEMMA ImportBlends ==
  ASSUME NEW v, NEW known
  PROVE  ImportFit(v, known) =
            IF ImportBlended(v, known) = {} THEN 0
            ELSE RoundDiv(Unit * Sum(ImportShares(v, known), ImportBlended(v, known)),
                          ImportCommon(v, known) * Sum(Weight, ImportBlended(v, known)))
<1>1. DOMAIN ImportShares(v, known) = ImportBlended(v, known)
  BY DEF ImportShares
<1>2. SumFunction(ImportShares(v, known)) =
          Sum(ImportShares(v, known), ImportBlended(v, known))
  BY <1>1 DEF SumFunction, SumFunctionOnSet, FoldFunction, Sum
<1>3. ImportFit(v, known) =
          IF ImportBlended(v, known) = {} THEN 0
          ELSE RoundDiv(Unit * SumFunction(ImportShares(v, known)),
                        ImportCommon(v, known) * Sum(Weight, ImportBlended(v, known)))
  BY DEF ImportFit, ImportShares, ImportCommon, ImportPoints, ImportBlended,
         ImportConfirmed, ImportResolved, Product
<1> QED
  BY <1>2, <1>3

LEMMA ImportResolves ==
  ASSUME NEW v, NEW c
  PROVE  /\ ImportResolved(v, DOMAIN v, c) = Resolved(v, c)
         /\ ImportConfirmed(v, DOMAIN v, c) = Earned(v, c)
BY DEF ImportResolved, ImportConfirmed, Resolved, Earned, Scores

\* The common denominator of the import divides into the points of every category.
LEMMA ImportTerms ==
  ASSUME NEW D \in SUBSET Signals, NEW v \in [D -> Verdict]
  PROVE  LET common == ImportCommon(v, DOMAIN v)
             shares == ImportShares(v, DOMAIN v)
         IN  /\ ImportBlended(v, DOMAIN v) = Blended(v)
             /\ common \in Nat \ {0}
             /\ \A c \in Blended(v) :
                    /\ shares[c] \in Nat /\ Blend(v)[c] \in Nat /\ Weight[c] \in Nat \ {0}
                    /\ (2 * common) * Blend(v)[c] <= (2 * Unit) * shares[c] + common * Weight[c]
                    /\ (2 * Unit) * shares[c] <= (2 * common) * Blend(v)[c] + common * Weight[c]
<1> DEFINE S == Blended(v)
           points == ImportPoints(v, DOMAIN v)
           common == ImportCommon(v, DOMAIN v)
           shares == ImportShares(v, DOMAIN v)
<1>1. ImportBlended(v, DOMAIN v) = S
  BY ImportResolves DEF ImportBlended, Blended
<1>2. IsFiniteSet(S) /\ \A c \in S : Weight[c] \in Nat \ {0} /\ Blend(v)[c] \in Nat
  BY Blends
<1>3. \A c \in S : points[c] = Sum(Points, Resolved(v, c)) /\ points[c] \in Nat \ {0}
  <2>1. ASSUME NEW c \in S
        PROVE  points[c] = Sum(Points, Resolved(v, c)) /\ points[c] \in Nat \ {0}
    <3>1. points[c] = Sum(Points, ImportResolved(v, DOMAIN v, c))
      BY <1>1 DEF ImportPoints
    <3>2. points[c] = Sum(Points, Resolved(v, c))
      BY <3>1, ImportResolves
    <3> QED
      BY <3>2, CategoryFits
  <2> QED
    BY <2>1
<1>4. common = Product(points, S)
  BY <1>1 DEF ImportCommon
<1>5. common \in Nat \ {0}
  <2> HIDE DEF S, points, common
  <2> QED
    BY <1>2, <1>3, <1>4, ProductPositive
<1>6. ASSUME NEW c \in S
      PROVE  /\ shares[c] \in Nat
             /\ (2 * common) * Blend(v)[c] <= (2 * Unit) * shares[c] + common * Weight[c]
             /\ (2 * Unit) * shares[c] <= (2 * common) * Blend(v)[c] + common * Weight[c]
  <2> DEFINE w == Weight[c]
             p == points[c]
             e == Sum(Points, Earned(v, c))
             fit == CategoryFit(v)[c]
             rest == Product(points, S \ {c})
  <2>1. /\ p \in Nat \ {0} /\ e \in Nat /\ fit \in Nat /\ w \in Nat \ {0}
        /\ 2 * (p * fit) <= 2 * (Unit * e) + p /\ 2 * (Unit * e) <= 2 * (p * fit) + p
    <3>1. p = Sum(Points, Resolved(v, c)) /\ w \in Nat \ {0}
      BY <1>2, <1>3
    <3> HIDE DEF p
    <3> QED
      BY <3>1, CategoryFits
  <2>2. rest \in Nat \ {0} /\ common = p * rest
    <3>1. IsFiniteSet(S \ {c}) /\ (\A x \in S \ {c} : points[x] \in Nat \ {0})
          /\ \A x \in S : points[x] \in Int
      BY <1>2, <1>3, FS_Subset
    <3> HIDE DEF S, points, common
    <3> QED
      BY <1>2, <1>4, <3>1, ProductRemove, ProductPositive
  <2>3. shares[c] = w * e * (common \div p)
    <3>1. shares[c] = Weight[c] * Sum(Points, ImportConfirmed(v, DOMAIN v, c))
                          * (common \div points[c])
      BY <1>1 DEF ImportShares
    <3> QED
      BY <3>1, ImportResolves
  <2>4. Blend(v)[c] = w * fit
    BY DEF Blend
  <2> HIDE DEF S, points, common, shares, w, p, e, fit, rest
  <2>5. shares[c] = w * e * rest
    BY <2>1, <2>2, <2>3, DivideExactly
  <2>6. w * rest \in Nat /\ w * e * rest \in Nat
    BY <2>1, <2>2
  <2>7. /\ (w * rest) * (2 * (p * fit)) <= (w * rest) * (2 * (Unit * e) + p)
        /\ (w * rest) * (2 * (Unit * e)) <= (w * rest) * (2 * (p * fit) + p)
    <3>1. 2 * (p * fit) \in Int /\ 2 * (Unit * e) \in Int /\ p \in Int
      BY <2>1, Parameters
    <3> QED
      BY <2>1, <2>6, <3>1, ProductOrder
  <2>8. \A x \in Nat : /\ (w * rest) * (2 * (p * fit)) = (2 * (p * rest)) * (w * fit)
                       /\ (w * rest) * (2 * (x * e)) = (2 * x) * (w * e * rest)
                       /\ (w * rest) * (2 * (x * e) + p) =
                              (2 * x) * (w * e * rest) + (p * rest) * w
                       /\ (w * rest) * (2 * (p * fit) + p) =
                              (2 * (p * rest)) * (w * fit) + (p * rest) * w
    BY <2>1, <2>2
  <2> QED
    BY <2>2, <2>4, <2>5, <2>6, <2>7, <2>8, Parameters DEF w
<1> QED
  BY <1>1, <1>2, <1>5, <1>6

\* The import scores every set of answers as the engine does, but for the rounding of
\* each category's fit: the fits differ by at most one unit, the coverages not at all.
THEOREM ImportAgrees ==
  ASSUME NEW D \in SUBSET Signals, NEW v \in [D -> Verdict]
  PROVE  /\ Fit(v) - ImportFit(v, DOMAIN v) \in {-1, 0, 1}
         /\ Coverage(v) = ImportCoverage(v)
<1> DEFINE S == Blended(v)
           weight == Sum(Weight, S)
           blend == Sum(Blend(v), S)
           common == ImportCommon(v, DOMAIN v)
           share == Sum(ImportShares(v, DOMAIN v), S)
<1>1. Coverage(v) = ImportCoverage(v)
  BY DEF Coverage, ImportCoverage, Scores
<1>2. IsFiniteSet(S) /\ weight \in Nat /\ blend \in Nat /\ (weight = 0 <=> S = {})
  BY Blends
<1>3. common \in Nat \ {0}
  BY ImportTerms
<1>4. \A c \in S : ImportShares(v, DOMAIN v)[c] \in Nat
  BY ImportTerms
<1>5. share \in Nat
  <2> HIDE DEF S
  <2> QED
    BY <1>2, <1>4, SumSubset
<1>6. 2 * common \in Int /\ 2 * Unit \in Int /\ common \in Int
  <2> HIDE DEF common
  <2> QED
    BY <1>3, Parameters
<1>7. \A c \in S :
          /\ Blend(v)[c] \in Int /\ ImportShares(v, DOMAIN v)[c] \in Int /\ Weight[c] \in Int
          /\ (2 * common) * Blend(v)[c] <=
                 (2 * Unit) * ImportShares(v, DOMAIN v)[c] + common * Weight[c]
          /\ (2 * Unit) * ImportShares(v, DOMAIN v)[c] <=
                 (2 * common) * Blend(v)[c] + common * Weight[c]
  BY ImportTerms
<1>8. (2 * common) * blend <= (2 * Unit) * share + common * weight
  <2> HIDE DEF S, common
  <2> QED
    BY <1>2, <1>6, <1>7, SumLinear
<1>9. (2 * Unit) * share <= (2 * common) * blend + common * weight
  <2> HIDE DEF S, common
  <2> QED
    BY <1>2, <1>6, <1>7, SumLinear
<1>10. /\ Fit(v) = IF weight = 0 THEN 0 ELSE RoundDiv(blend, weight)
       /\ ImportFit(v, DOMAIN v) =
              IF S = {} THEN 0 ELSE RoundDiv(Unit * share, common * weight)
  <2>1. ImportBlended(v, DOMAIN v) = S
    BY ImportTerms
  <2> QED
    BY <2>1, FitBlends, ImportBlends
<1> HIDE DEF weight, blend, common, share, S
<1>11. CASE weight = 0
  BY <1>1, <1>2, <1>10, <1>11
<1>12. CASE weight # 0
  <2>1. Unit * share \in Nat /\ weight \in Nat \ {0}
    BY <1>2, <1>5, <1>12, Parameters
  <2>2. \A x \in Nat : (2 * common) * blend = 2 * (common * blend)
                       /\ (2 * x) * share = 2 * (x * share)
    BY <1>2, <1>3, <1>5
  <2>3. /\ 2 * (common * blend) <= 2 * (Unit * share) + common * weight
        /\ 2 * (Unit * share) <= 2 * (common * blend) + common * weight
    BY <1>8, <1>9, <2>2, Parameters
  <2>4. RoundDiv(blend, weight) - RoundDiv(Unit * share, common * weight) \in {-1, 0, 1}
    BY <1>2, <1>3, <2>1, <2>3, RoundNear
  <2> QED
    BY <1>1, <1>2, <1>10, <1>12, <2>4
<1> QED
  BY <1>11, <1>12

-----------------------------------------------------------------------------
(* The library in tiers and batches *)

LEMMA SmallerSubset ==
  ASSUME NEW S, IsFiniteSet(S), NEW T \in SUBSET S, NEW x \in S, x \notin T
  PROVE  Cardinality(T) \in Nat /\ Cardinality(S) \in Nat /\ Cardinality(T) < Cardinality(S)
<1>1. /\ IsFiniteSet(T) /\ Cardinality(T) <= Cardinality(S)
      /\ Cardinality(S) = Cardinality(T) => S = T
  BY FS_Subset
<1> QED
  BY <1>1, FS_CardinalityType

\* At most k elements have different ranks among k numbers.
LEMMA RankedSet ==
  ASSUME NEW S, NEW k \in Nat, NEW low \in Nat, NEW rank \in [S -> Nat],
         \A x, y \in S : rank[x] = rank[y] => x = y,
         \A x \in S : low <= rank[x] /\ rank[x] < low + k
  PROVE  IsFiniteSet(S) /\ Cardinality(S) <= k
<1> DEFINE T == low .. (low + k - 1)
<1>1. IsFiniteSet(T) /\ Cardinality(T) = k
  BY FS_Interval
<1>2. \A x \in S : rank[x] \in T
  OBVIOUS
<1>3. rank \in Injection(S, T)
  <2> HIDE DEF T
  <2>1. rank \in [S -> T]
    BY <1>2
  <2> QED
    BY <2>1 DEF Injection, IsInjective
<1> QED
  <2> HIDE DEF T
  <2> QED
    BY <1>1, <1>3, FS_Injection

LEMMA Rows ==
  ASSUME NEW n \in Signals
  PROVE  /\ RowOf(n) \in DOMAIN Library /\ Library[RowOf(n)].num = n
         /\ n \in Nat /\ RowOf(n) \in Nat
<1>1. \E i \in DOMAIN Library : Library[i].num = n
  BY DEF Signals
<1>2. RowOf(n) \in DOMAIN Library /\ Library[RowOf(n)].num = n
  BY <1>1 DEF RowOf
<1>3. DOMAIN Library \subseteq Nat /\ \A i \in DOMAIN Library : Library[i].num \in Nat
  <2> DEFINE Row == [num : Nat, category : STRING, strength : {"high", "medium"}]
  <2>1. Library \in Seq(Row)
    BY LibraryAssumption
  <2> HIDE DEF Row
  <2>2. DOMAIN Library = 1 .. Len(Library) /\ Len(Library) \in Nat
        /\ \A i \in DOMAIN Library : Library[i] \in Row
    BY <2>1
  <2> QED
    BY <2>2 DEF Row
<1> QED
  BY <1>2, <1>3

\* No LLM call is asked about more signals than a batch may hold.
THEOREM BatchesFit ==
  ASSUME NEW depth \in Depth, NEW b \in Batches(depth)
  PROVE  /\ Cardinality({n \in Scanned(depth) : BatchOf(depth, n) = b}) > 0
         /\ Cardinality({n \in Scanned(depth) : BatchOf(depth, n) = b}) <= BatchSize
<1> DEFINE S == Scanned(depth)
           Before(n) == {m \in S : m < n}
           members == {n \in S : BatchOf(depth, n) = b}
           rank == [n \in members |-> Cardinality(Before(n))]
<1>1. S \subseteq Signals /\ IsFiniteSet(S) /\ S \subseteq Nat
  BY LibrarySignals, FS_Subset, Rows DEF Scanned, Tier1
<1>2. BatchSize \in Nat \ {0}
  BY LibraryAssumption
<1>3. \A n \in S : Cardinality(Before(n)) \in Nat
  BY <1>1, FS_Subset, FS_CardinalityType
<1>4. ASSUME NEW m \in S, NEW n \in S, m < n
      PROVE  Cardinality(Before(m)) < Cardinality(Before(n))
  <2>1. Before(m) \in SUBSET Before(n) /\ m \in Before(n) /\ m \notin Before(m)
    BY <1>1, <1>4
  <2>2. IsFiniteSet(Before(n))
    BY <1>1, FS_Subset
  <2> QED
    BY <2>1, <2>2, SmallerSubset
<1>5. \A m, n \in members : rank[m] = rank[n] => m = n
  <2>1. \A m, n \in S : m < n \/ n < m \/ m = n
    BY <1>1
  <2> HIDE DEF S, Before
  <2> QED
    BY <1>3, <1>4, <2>1
<1>6. ASSUME NEW n \in members
      PROVE  /\ b \in Nat /\ BatchSize * b \in Nat
             /\ BatchSize * b <= rank[n] /\ rank[n] < BatchSize * b + BatchSize
  <2>1. Cardinality(Before(n)) \in Nat /\ b = Cardinality(Before(n)) \div BatchSize
    BY <1>3 DEF BatchOf
  <2>2. rank[n] = Cardinality(Before(n))
    OBVIOUS
  <2> HIDE DEF Before
  <2>3. b \in Nat /\ BatchSize * b <= rank[n] /\ rank[n] < BatchSize * b + BatchSize
    BY <1>2, <2>1, <2>2, Division
  <2> QED
    BY <1>2, <2>3
<1>7. PICK k \in S : BatchOf(depth, k) = b
  BY DEF Batches
<1>8. k \in members
  BY <1>7
<1>9. IsFiniteSet(members) /\ Cardinality(members) <= BatchSize
  <2>1. rank \in [members -> Nat]
    BY <1>3
  <2>2. BatchSize * b \in Nat /\ BatchSize \in Nat
    BY <1>2, <1>6, <1>8
  <2> HIDE DEF members, rank
  <2> QED
    BY <1>5, <1>6, <2>1, <2>2, RankedSet
<1>10. Cardinality(members) > 0
  <2> HIDE DEF members
  <2>1. Cardinality(members) \in Nat /\ Cardinality(members) # 0
    BY <1>8, <1>9, FS_CardinalityType, FS_EmptySet
  <2> QED
    BY <2>1
<1> QED
  BY <1>9, <1>10

\* The standard scan takes no more signals of a category by rank than its quota.
THEOREM QuotaKept ==
  ASSUME NEW c \in Category
  PROVE  Cardinality({n \in Signals : WithinQuota(n) /\ CategoryOf(n) = c}) <= Quota[c]
<1> DEFINE S == {n \in Signals : WithinQuota(n) /\ CategoryOf(n) = c}
           Rivals(n) == {i \in 1 .. RowOf(n) - 1 : /\ Library[i].category = c
                                                   /\ Library[i].strength = "high"}
           rank == [n \in S |-> Cardinality(Rivals(n))]
<1>1. Quota[c] \in Nat
  BY LibraryAssumption
<1>2. \A n \in S : /\ RowOf(n) \in Nat /\ RowOf(n) >= 1 /\ Library[RowOf(n)].num = n
                   /\ Library[RowOf(n)].category = c /\ Library[RowOf(n)].strength = "high"
  <2>1. DOMAIN Library = 1 .. Len(Library) /\ Len(Library) \in Nat
    BY LibraryAssumption
  <2> QED
    BY <2>1, Rows DEF WithinQuota, CategoryOf
<1>3. ASSUME NEW n \in S
      PROVE  IsFiniteSet(Rivals(n)) /\ Cardinality(Rivals(n)) \in Nat
  <2>1. IsFiniteSet(1 .. RowOf(n) - 1)
    BY <1>2, FS_Interval
  <2> QED
    BY <2>1, FS_Subset, FS_CardinalityType
<1>4. \A n \in S : Cardinality(Rivals(n)) < Quota[c]
  BY DEF WithinQuota
<1>5. ASSUME NEW m \in S, NEW n \in S, RowOf(m) < RowOf(n)
      PROVE  Cardinality(Rivals(m)) < Cardinality(Rivals(n))
  <2>1. Rivals(m) \in SUBSET Rivals(n) /\ RowOf(m) \in Rivals(n) /\ RowOf(m) \notin Rivals(m)
    BY <1>2, <1>5
  <2> HIDE DEF Rivals
  <2> QED
    BY <1>3, <2>1, SmallerSubset
<1>6. \A m, n \in S : rank[m] = rank[n] => m = n
  <2>1. \A m, n \in S : RowOf(m) < RowOf(n) \/ RowOf(n) < RowOf(m) \/ m = n
    BY <1>2
  <2> HIDE DEF S, Rivals
  <2> QED
    BY <1>3, <1>5, <2>1
<1>7. rank \in [S -> Nat] /\ \A n \in S : 0 <= rank[n] /\ rank[n] < 0 + Quota[c]
  <2> HIDE DEF S, Rivals
  <2> QED
    BY <1>1, <1>3, <1>4
<1> QED
  <2> HIDE DEF S, rank
  <2> QED
    BY <1>1, <1>6, <1>7, RankedSet DEF S

=============================================================================
