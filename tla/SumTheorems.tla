---------------------------- MODULE SumTheorems ----------------------------
(***************************************************************************)
(* Facts about SumFunctionOnSet(f, S), the sum of f[x] over the x in a     *)
(* finite set S, by which the invariants count shares and money.           *)
(*                                                                         *)
(* The sum is a fold: a recursive function on the subsets of S that takes  *)
(* out one chosen element at a time.  That the recursion has a solution,   *)
(* and that the choice does not matter, is shown by induction on the       *)
(* subsets of S.  The induction is on a set F of subsets, not on a         *)
(* predicate, so no operator has to be instantiated: WFMin yields a least  *)
(* subset that is not in F.                                                *)
(***************************************************************************)
EXTENDS FiniteSetsExt, FiniteSetTheorems, TLAPS

\* The element the fold takes out first.
Pick(s) == CHOOSE x \in s : TRUE

\* g is the fold of f over the subsets of S.
Recurs(f, g, S) ==
  g = [s \in SUBSET S |-> IF s = {} THEN 0 ELSE f[Pick(s)] + g[s \ {Pick(s)}]]

\* The definition of a sum, without the operators it is put together from.
LEMMA SumUnfolded ==
  ASSUME NEW f, NEW S
  PROVE  SumFunctionOnSet(f, S) = (CHOOSE g : Recurs(f, g, S))[S]
BY DEF SumFunctionOnSet, FoldFunctionOnSet, MapThenFoldSet, Recurs, Pick

\* Induction on the subsets of a finite set: F has all of them if it has every
\* one whose strict subsets it has.
LEMMA SubsetInduction ==
  ASSUME NEW S, IsFiniteSet(S), NEW F,
         \A T \in SUBSET S : (\A U \in SUBSET T : U # T => U \in F) => T \in F
  PROVE  \A T \in SUBSET S : T \in F
<1> DEFINE C == {T \in SUBSET S : T \notin F}
<1>1. SUFFICES ASSUME C # {} PROVE FALSE
  OBVIOUS
<1>2. IsWellFoundedOn(StrictSubsetOrdering(S), SUBSET S)
  BY FS_StrictSubsetOrderingWellFounded, FS_FiniteSubsetsOfFinite
<1>3. C \subseteq SUBSET S
  OBVIOUS
<1> HIDE DEF C
<1>4. PICK T \in C : \A U \in C : ~(<<U, T>> \in StrictSubsetOrdering(S))
  BY <1>1, <1>2, <1>3, WFMin
<1>5. \A U \in SUBSET T : U # T => U \in F
  BY <1>3, <1>4 DEF StrictSubsetOrdering, C
<1>6. QED
  BY <1>4, <1>5 DEF C

\* What is picked is an element.
LEMMA Picked == \A s : s # {} => Pick(s) \in s
BY DEF Pick

\* The recursion has at most one solution ...
LEMMA RecursUnique ==
  ASSUME NEW S, IsFiniteSet(S), NEW f, NEW g, NEW h, Recurs(f, g, S), Recurs(f, h, S)
  PROVE  g = h
<1> DEFINE F == {T \in SUBSET S : g[T] = h[T]}
<1>1. ASSUME NEW T \in SUBSET S, \A U \in SUBSET T : U # T => U \in F
      PROVE  T \in F
  <2>1. T # {} => T \ {Pick(T)} \in F
    BY <1>1, Picked
  <2>2. QED  BY <2>1 DEF Recurs
<1>2. \A T \in SUBSET S : T \in F
  <2> HIDE DEF F
  <2> QED  BY <1>1, SubsetInduction
<1>3. QED  BY <1>2 DEF Recurs

\* ... and the sum is it.
LEMMA SumStep ==
  ASSUME NEW S, IsFiniteSet(S), NEW f
  PROVE  SumFunctionOnSet(f, S)
           = IF S = {} THEN 0 ELSE f[Pick(S)] + SumFunctionOnSet(f, S \ {Pick(S)})
<1> DEFINE Body(W) == IF W = {} THEN 0
                      ELSE f[Pick(W)] + SumFunctionOnSet(f, W \ {Pick(W)})
           F == {T \in SUBSET S : SumFunctionOnSet(f, T) = Body(T)}
<1>1. ASSUME NEW T \in SUBSET S, \A U \in SUBSET T : U # T => U \in F
      PROVE  T \in F
  <2> DEFINE g == [W \in SUBSET T |-> Body(W)]
             h == CHOOSE h : Recurs(f, h, T)
  <2>1. ASSUME NEW W \in SUBSET T, W # {}
        PROVE  g[W \ {Pick(W)}] = SumFunctionOnSet(f, W \ {Pick(W)})
    <3>1. W \ {Pick(W)} \in SUBSET T /\ W \ {Pick(W)} # T
      BY <2>1, Picked
    <3>2. QED  BY <1>1, <3>1
  <2>2. Recurs(f, g, T)
    BY <2>1 DEF Recurs
  <2>3. Recurs(f, h, T)
    BY <2>2
  <2>4. IsFiniteSet(T)  BY FS_Subset
  <2>5. g = h
    <3> HIDE DEF g, h
    <3> QED  BY <2>2, <2>3, <2>4, RecursUnique
  <2>6. SumFunctionOnSet(f, T) = h[T]
    BY SumUnfolded
  <2>7. SumFunctionOnSet(f, T) = g[T]
    BY <2>5, <2>6
  <2>8. QED  BY <2>7
<1>2. \A T \in SUBSET S : T \in F
  <2> HIDE DEF F
  <2> QED  BY <1>1, SubsetInduction
<1>3. QED  BY <1>2

\* Sums of integers are integers.
LEMMA SumType ==
  ASSUME NEW S, IsFiniteSet(S), NEW f, \A x \in S : f[x] \in Int
  PROVE  SumFunctionOnSet(f, S) \in Int
<1> DEFINE F == {T \in SUBSET S : SumFunctionOnSet(f, T) \in Int}
<1>1. ASSUME NEW T \in SUBSET S, \A U \in SUBSET T : U # T => U \in F
      PROVE  T \in F
  <2>1. IsFiniteSet(T)  BY FS_Subset
  <2>2. CASE T = {}
    BY <2>1, <2>2, SumStep
  <2>3. CASE T # {}
    <3>1. Pick(T) \in T /\ T \ {Pick(T)} \in F
      BY <1>1, <2>3, Picked
    <3>2. f[Pick(T)] \in Int /\ SumFunctionOnSet(f, T \ {Pick(T)}) \in Int
      BY <3>1
    <3>3. QED  BY <2>1, <2>3, <3>2, SumStep
  <2>4. QED  BY <2>2, <2>3
<1>2. \A T \in SUBSET S : T \in F
  <2> HIDE DEF F
  <2> QED  BY <1>1, SubsetInduction
<1>3. QED  BY <1>2

\* Any element may be taken out of a sum.
LEMMA SumSplit ==
  ASSUME NEW S, IsFiniteSet(S), NEW f, \A x \in S : f[x] \in Int
  PROVE  \A y \in S : SumFunctionOnSet(f, S) = f[y] + SumFunctionOnSet(f, S \ {y})
<1> DEFINE Sum(T) == SumFunctionOnSet(f, T)
           F == {T \in SUBSET S : \A y \in T : Sum(T) = f[y] + Sum(T \ {y})}
<1>1. ASSUME NEW T \in SUBSET S, \A U \in SUBSET T : U # T => U \in F
      PROVE  T \in F
  <2> DEFINE c == Pick(T)
  <2>0. IsFiniteSet(T)  BY FS_Subset
  <2>1. ASSUME NEW y \in T, y # c
        PROVE  Sum(T) = f[y] + Sum(T \ {y})
    <3>1. c \in T  BY <2>1, Picked
    <3>2. T \ {c} \in F /\ T \ {y} \in F
      BY <1>1, <2>1, <3>1
    <3>3. y \in T \ {c} /\ c \in T \ {y} /\ (T \ {c}) \ {y} = (T \ {y}) \ {c}
      BY <2>1, <3>1
    <3>4. Sum(T) = f[c] + Sum(T \ {c})
      BY <2>0, <2>1, SumStep
    <3>5. Sum(T \ {c}) = f[y] + Sum((T \ {c}) \ {y})
      BY <3>2, <3>3
    <3>6. Sum(T \ {y}) = f[c] + Sum((T \ {c}) \ {y})
      BY <3>2, <3>3
    <3>7. Sum((T \ {c}) \ {y}) \in Int /\ f[c] \in Int /\ f[y] \in Int
      <4>1. IsFiniteSet((T \ {c}) \ {y}) /\ \A x \in (T \ {c}) \ {y} : f[x] \in Int
        BY <2>0, FS_RemoveElement
      <4>2. QED  BY <3>1, <4>1, SumType
    <3> HIDE DEF c, Sum
    <3>8. QED  BY <3>4, <3>5, <3>6, <3>7
  <2>2. ASSUME T # {} PROVE Sum(T) = f[c] + Sum(T \ {c})
    BY <2>0, <2>2, SumStep
  <2>3. QED  BY <2>1, <2>2
<1>2. \A T \in SUBSET S : T \in F
  <2> HIDE DEF F
  <2> QED  BY <1>1, SubsetInduction
<1>3. QED  BY <1>2
-----------------------------------------------------------------------------
\* Nothing adds up to zero.
LEMMA SumEmpty ==
  ASSUME NEW f
  PROVE  SumFunctionOnSet(f, {}) = 0
BY SumStep, FS_EmptySet

\* A new element adds its value.
LEMMA SumAdd ==
  ASSUME NEW S, IsFiniteSet(S), NEW f, \A x \in S : f[x] \in Int,
         NEW y, y \notin S, f[y] \in Int
  PROVE  SumFunctionOnSet(f, S \cup {y}) = SumFunctionOnSet(f, S) + f[y]
<1>1. IsFiniteSet(S \cup {y}) /\ (S \cup {y}) \ {y} = S
  BY FS_AddElement
<1>2. \A x \in S \cup {y} : f[x] \in Int
  OBVIOUS
<1>3. SumFunctionOnSet(f, S \cup {y}) = f[y] + SumFunctionOnSet(f, S)
  <2> DEFINE T == S \cup {y}
  <2>1. IsFiniteSet(T) /\ (\A x \in T : f[x] \in Int) /\ y \in T /\ T \ {y} = S
    BY <1>1, <1>2
  <2> HIDE DEF T
  <2>2. SumFunctionOnSet(f, T) = f[y] + SumFunctionOnSet(f, T \ {y})
    BY <2>1, SumSplit
  <2>3. QED  BY <2>1, <2>2 DEF T
<1>4. SumFunctionOnSet(f, S) \in Int
  BY SumType
<1>5. QED
  BY <1>1, <1>3, <1>4

\* An element that goes takes its value with it.
LEMMA SumRemove ==
  ASSUME NEW S, IsFiniteSet(S), NEW f, \A x \in S : f[x] \in Int, NEW y \in S
  PROVE  SumFunctionOnSet(f, S \ {y}) = SumFunctionOnSet(f, S) - f[y]
<1>1. SumFunctionOnSet(f, S) = f[y] + SumFunctionOnSet(f, S \ {y})
  BY SumSplit
<1>2. SumFunctionOnSet(f, S \ {y}) \in Int
  BY SumType, FS_RemoveElement
<1>3. QED
  BY <1>1, <1>2

\* A sum depends only on the values of its elements.
LEMMA SumSame ==
  ASSUME NEW S, IsFiniteSet(S), NEW f, NEW g, \A x \in S : f[x] = g[x]
  PROVE  SumFunctionOnSet(f, S) = SumFunctionOnSet(g, S)
<1> DEFINE F == {T \in SUBSET S : SumFunctionOnSet(f, T) = SumFunctionOnSet(g, T)}
<1>1. ASSUME NEW T \in SUBSET S, \A U \in SUBSET T : U # T => U \in F
      PROVE  T \in F
  <2>1. IsFiniteSet(T)  BY FS_Subset
  <2>2. T # {} => Pick(T) \in T /\ T \ {Pick(T)} \in F
    BY <1>1, Picked
  <2>3. QED  BY <2>1, <2>2, SumStep
<1>2. \A T \in SUBSET S : T \in F
  <2> HIDE DEF F
  <2> QED  BY <1>1, SubsetInduction
<1>3. QED  BY <1>2

\* Positive values add up to a positive number, but for none at all.
LEMMA SumPositive ==
  ASSUME NEW S, IsFiniteSet(S), NEW f, \A x \in S : f[x] \in Nat \ {0}
  PROVE  /\ SumFunctionOnSet(f, S) \in Nat
         /\ (SumFunctionOnSet(f, S) = 0 => S = {})
<1> DEFINE F == {T \in SUBSET S : /\ SumFunctionOnSet(f, T) \in Nat
                                 /\ (SumFunctionOnSet(f, T) = 0 => T = {})}
<1>1. ASSUME NEW T \in SUBSET S, \A U \in SUBSET T : U # T => U \in F
      PROVE  T \in F
  <2>1. IsFiniteSet(T)  BY FS_Subset
  <2>2. CASE T = {}
    BY <2>2, SumEmpty
  <2>3. CASE T # {}
    <3>1. Pick(T) \in T /\ T \ {Pick(T)} \in F
      BY <1>1, <2>3, Picked
    <3>2. f[Pick(T)] \in Nat \ {0} /\ SumFunctionOnSet(f, T \ {Pick(T)}) \in Nat
      BY <3>1
    <3>3. SumFunctionOnSet(f, T) = f[Pick(T)] + SumFunctionOnSet(f, T \ {Pick(T)})
      BY <2>1, <2>3, SumStep
    <3>4. QED  BY <3>2, <3>3
  <2>4. QED  BY <2>2, <2>3
<1>2. \A T \in SUBSET S : T \in F
  <2> HIDE DEF F
  <2> QED  BY <1>1, SubsetInduction
<1>3. QED  BY <1>2

\* One element adds up to its own value.
LEMMA SumSingle ==
  ASSUME NEW x, NEW f, f[x] \in Int
  PROVE  SumFunctionOnSet(f, {x}) = f[x]
<1>1. IsFiniteSet({x}) /\ {x} \ {x} = {} /\ \A y \in {x} : f[y] \in Int
  BY FS_Singleton
<1>2. SumFunctionOnSet(f, {x}) = f[x] + SumFunctionOnSet(f, {x} \ {x})
  BY <1>1, SumSplit
<1>3. QED
  BY <1>1, <1>2, SumEmpty

\* Zeros add up to zero, and ones to their number.
LEMMA SumZerosOnes ==
  ASSUME NEW S, IsFiniteSet(S), NEW f
  PROVE  /\ (\A x \in S : f[x] = 0) => SumFunctionOnSet(f, S) = 0
         /\ (\A x \in S : f[x] = 1) => SumFunctionOnSet(f, S) = Cardinality(S)
<1> DEFINE Good(T) == /\ (\A x \in T : f[x] = 0) => SumFunctionOnSet(f, T) = 0
                      /\ (\A x \in T : f[x] = 1) => SumFunctionOnSet(f, T) = Cardinality(T)
           F == {T \in SUBSET S : Good(T)}
<1>1. ASSUME NEW T \in SUBSET S, \A U \in SUBSET T : U # T => U \in F
      PROVE  T \in F
  <2>1. IsFiniteSet(T)  BY FS_Subset
  <2>2. CASE T = {}
    BY <2>2, SumEmpty, FS_EmptySet
  <2>3. CASE T # {}
    <3> DEFINE c == Pick(T)
               U == T \ {c}
    <3>1. c \in T /\ U \in F
      BY <1>1, <2>3, Picked
    <3>2. Cardinality(T) = Cardinality(U) + 1
      <4>1. Cardinality(U) = Cardinality(T) - 1 /\ Cardinality(T) \in Nat
        BY <2>1, <3>1, FS_RemoveElement, FS_CardinalityType
      <4>2. QED  BY <4>1
    <3>3. SumFunctionOnSet(f, T) = f[c] + SumFunctionOnSet(f, U)
      BY <2>1, <2>3, SumStep
    <3>4. Cardinality(U) \in Nat
      BY <2>1, FS_Subset, FS_CardinalityType
    <3>5. Good(U) /\ U \subseteq T
      BY <3>1
    <3> HIDE DEF c, U
    <3>6. QED  BY <3>1, <3>2, <3>3, <3>4, <3>5
  <2>4. QED  BY <2>2, <2>3
<1>2. \A T \in SUBSET S : T \in F
  <2> HIDE DEF F
  <2> QED  BY <1>1, SubsetInduction
<1>3. QED  BY <1>2

\* A sum over two sets that have nothing in common is the sum of both.
LEMMA SumUnion ==
  ASSUME NEW S, IsFiniteSet(S), NEW T, IsFiniteSet(T), S \cap T = {},
         NEW f, \A x \in S \cup T : f[x] \in Int
  PROVE  SumFunctionOnSet(f, S \cup T) = SumFunctionOnSet(f, S) + SumFunctionOnSet(f, T)
<1> DEFINE Sum(U) == SumFunctionOnSet(f, U)
           F == {U \in SUBSET T : Sum(S \cup U) = Sum(S) + Sum(U)}
<1>0. Sum(S) \in Int
  BY SumType
<1>1. ASSUME NEW U \in SUBSET T, \A V \in SUBSET U : V # U => V \in F
      PROVE  U \in F
  <2>1. IsFiniteSet(U)  BY FS_Subset
  <2>2. CASE U = {}
    BY <1>0, <2>2, SumEmpty
  <2>3. CASE U # {}
    <3> DEFINE c == Pick(U)
               V == U \ {c}
    <3>1. c \in U /\ V \in F
      BY <1>1, <2>3, Picked
    <3>2. Sum(U) = f[c] + Sum(V)
      BY <2>1, <2>3, SumStep
    <3>3. IsFiniteSet(S \cup U) /\ c \in S \cup U /\ (S \cup U) \ {c} = S \cup V
          /\ \A x \in S \cup U : f[x] \in Int
      BY <2>1, <3>1, FS_Union
    <3>4. Sum(S \cup U) = f[c] + Sum(S \cup V)
      <4> DEFINE W == S \cup U
      <4>1. IsFiniteSet(W) /\ c \in W /\ W \ {c} = S \cup V /\ \A x \in W : f[x] \in Int
        BY <3>3
      <4> HIDE DEF W, c, V
      <4>2. SumFunctionOnSet(f, W) = f[c] + SumFunctionOnSet(f, W \ {c})
        BY <4>1, SumSplit
      <4>3. QED  BY <4>1, <4>2 DEF W
    <3>5. Sum(V) \in Int /\ f[c] \in Int
      <4>1. IsFiniteSet(V) /\ \A x \in V : f[x] \in Int
        BY <2>1, FS_Subset
      <4>2. QED  BY <3>3, <4>1, SumType
    <3>6. Sum(S \cup V) = Sum(S) + Sum(V)
      BY <3>1
    <3>7. Sum(S \cup U) = Sum(S) + Sum(U)
      <4> HIDE DEF Sum, c, V
      <4>1. QED  BY <1>0, <3>2, <3>4, <3>5, <3>6
    <3>8. QED  BY <3>7
  <2>4. QED  BY <2>2, <2>3
<1>2. \A U \in SUBSET T : U \in F
  <2> HIDE DEF F
  <2> QED  BY <1>1, SubsetInduction
<1>3. QED  BY <1>2

\* A sum grows by what one of its values grows.
LEMMA SumBump ==
  ASSUME NEW S, IsFiniteSet(S), NEW f, NEW g, \A x \in S : f[x] \in Int,
         NEW c \in S, NEW d \in Int, g[c] = f[c] + d, \A x \in S \ {c} : g[x] = f[x]
  PROVE  SumFunctionOnSet(g, S) = SumFunctionOnSet(f, S) + d
<1>1. \A x \in S : g[x] \in Int
  OBVIOUS
<1>2. SumFunctionOnSet(f, S) = f[c] + SumFunctionOnSet(f, S \ {c})
  BY SumSplit
<1>3. SumFunctionOnSet(g, S) = g[c] + SumFunctionOnSet(g, S \ {c})
  BY <1>1, SumSplit
<1>4. SumFunctionOnSet(f, S \ {c}) = SumFunctionOnSet(g, S \ {c})
  BY FS_RemoveElement, SumSame
<1>5. SumFunctionOnSet(f, S \ {c}) \in Int /\ f[c] \in Int
  BY FS_RemoveElement, SumType
<1>6. QED
  BY <1>2, <1>3, <1>4, <1>5

\* A sum is the sum of the sums of its groups, by whatever key they are formed.
LEMMA SumGroups ==
  ASSUME NEW S, IsFiniteSet(S), NEW K, IsFiniteSet(K), NEW f, \A x \in S : f[x] \in Int,
         NEW key, \A x \in S : key[x] \in K
  PROVE  SumFunctionOnSet([k \in K |-> SumFunctionOnSet(f, {x \in S : key[x] = k})], K)
           = SumFunctionOnSet(f, S)
<1> DEFINE Group(T, k) == {x \in T : key[x] = k}
           Sums(T) == [k \in K |-> SumFunctionOnSet(f, Group(T, k))]
           F == {T \in SUBSET S : SumFunctionOnSet(Sums(T), K) = SumFunctionOnSet(f, T)}
<1>1. ASSUME NEW T \in SUBSET S, \A U \in SUBSET T : U # T => U \in F
      PROVE  T \in F
  <2>1. IsFiniteSet(T)  BY FS_Subset
  <2>2. CASE T = {}
    <3>1. \A k \in K : Sums(T)[k] = 0
      <4>1. \A k \in K : Group(T, k) = {}
        BY <2>2
      <4>2. QED  BY <4>1, SumEmpty
    <3>2. SumFunctionOnSet(Sums(T), K) = 0
      <4> HIDE DEF Sums
      <4>1. QED  BY <3>1, SumZerosOnes
    <3>3. QED  BY <2>2, <3>2, SumEmpty
  <2>3. CASE T # {}
    <3> DEFINE c == Pick(T)
               U == T \ {c}
    <3>1. c \in T /\ U \in F /\ U \in SUBSET S /\ key[c] \in K /\ f[c] \in Int
      BY <1>1, <2>3, Picked
    <3>2. SumFunctionOnSet(f, T) = f[c] + SumFunctionOnSet(f, U)
      BY <2>1, <2>3, SumStep
    <3> HIDE DEF c
    <3>3. ASSUME NEW k \in K
          PROVE  /\ IsFiniteSet(Group(U, k)) /\ c \notin Group(U, k)
                 /\ \A x \in Group(U, k) : f[x] \in Int
                 /\ Group(T, k) = IF k = key[c] THEN Group(U, k) \cup {c} ELSE Group(U, k)
      <4>1. IsFiniteSet(U)  BY <2>1, FS_Subset
      <4>2. Group(U, k) \in SUBSET U  OBVIOUS
      <4>3. IsFiniteSet(Group(U, k))  BY <4>1, <4>2, FS_Subset
      <4>4. QED  BY <3>1, <4>3
    <3>4. \A k \in K : Sums(U)[k] \in Int
      <4>1. ASSUME NEW k \in K PROVE SumFunctionOnSet(f, Group(U, k)) \in Int
        <5> HIDE DEF Group, U
        <5>1. QED  BY <3>3, SumType
      <4>2. QED  BY <4>1
    <3>5. Sums(T)[key[c]] = Sums(U)[key[c]] + f[c]
      <4> DEFINE k == key[c]
      <4>1. SumFunctionOnSet(f, Group(U, k) \cup {c}) = SumFunctionOnSet(f, Group(U, k)) + f[c]
        <5> HIDE DEF Group, U
        <5>1. QED  BY <3>1, <3>3, SumAdd
      <4>2. QED  BY <3>1, <3>3, <4>1
    <3>6. \A k \in K \ {key[c]} : Sums(T)[k] = Sums(U)[k]
      BY <3>3
    <3>7. SumFunctionOnSet(Sums(T), K) = SumFunctionOnSet(Sums(U), K) + f[c]
      <4> HIDE DEF Sums, U
      <4>1. QED  BY <3>1, <3>4, <3>5, <3>6, SumBump
    <3>8. SumFunctionOnSet(Sums(U), K) = SumFunctionOnSet(f, U)
      BY <3>1
    <3>9. SumFunctionOnSet(f, U) \in Int
      <4>1. IsFiniteSet(U) /\ \A x \in U : f[x] \in Int
        BY <2>1, FS_Subset
      <4>2. QED  BY <4>1, SumType
    <3>10. SumFunctionOnSet(Sums(T), K) = SumFunctionOnSet(f, T)
      <4> HIDE DEF Sums, U
      <4>1. QED  BY <3>1, <3>2, <3>7, <3>8, <3>9
    <3>11. QED  BY <3>10
  <2>4. QED  BY <2>2, <2>3
<1>2. \A T \in SUBSET S : T \in F
  <2> HIDE DEF F
  <2> QED  BY <1>1, SubsetInduction
<1>3. S \in F
  <2> HIDE DEF F
  <2> QED  BY <1>2
<1>4. QED  BY <1>3

=============================================================================
