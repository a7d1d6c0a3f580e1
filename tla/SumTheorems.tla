---------------------------- MODULE SumTheorems ----------------------------
(***************************************************************************)
(* Induction over finite sets, with a set for the hypothesis, and what     *)
(* follows for the sums of the community modules: how a sum over a finite  *)
(* set changes with its elements and with the function that is summed.     *)
(***************************************************************************)
EXTENDS Functions, FiniteSets, FiniteSetTheorems, TLAPS

\* The element a sum takes first.
First(s) == CHOOSE x \in s : TRUE

\* The partial sums over the subsets of S.
Adds(g, f, S) ==
  g = [s \in SUBSET S |-> IF s = {} THEN 0 ELSE f[First(s)] + g[s \ {First(s)}]]

LEMMA SumIs ==
  ASSUME NEW f, NEW S
  PROVE  SumFunctionOnSet(f, S) = (CHOOSE g : Adds(g, f, S))[S]
BY Zenon DEF SumFunctionOnSet, FoldFunctionOnSet, MapThenFoldSet, Adds, First

LEMMA FirstIn == ASSUME NEW s, s # {} PROVE First(s) \in s
BY DEF First

\* A non-empty set of subsets of a finite set has a smallest one.
LEMMA SmallestSubset ==
  ASSUME NEW S, IsFiniteSet(S), NEW Bad, Bad \subseteq SUBSET S, Bad # {}
  PROVE  \E s \in Bad : \A t \in Bad : t \subseteq s => t = s
<1>1. IsWellFoundedOn(StrictSubsetOrdering(S), SUBSET S)
  BY FS_StrictSubsetOrderingWellFounded, FS_FiniteSubsetsOfFinite, Zenon
<1>2. PICK s \in Bad : \A t \in Bad : ~ (<<t, s>> \in StrictSubsetOrdering(S))
  BY <1>1, WFMin, Zenon
<1>3. ASSUME NEW t \in Bad, t \subseteq s PROVE t = s
  BY <1>2, <1>3 DEF StrictSubsetOrdering
<1> QED BY <1>3

\* Induction over the subsets of a finite set, for a set of good ones.
LEMMA SubsetInduction ==
  ASSUME NEW S, IsFiniteSet(S), NEW Good,
         \A s \in SUBSET S : (\A t \in SUBSET s : t # s => t \in Good) => s \in Good
  PROVE  \A s \in SUBSET S : s \in Good
<1>1. PICK Bad : Bad = {s \in SUBSET S : s \notin Good}
  OBVIOUS
<1>2. ASSUME Bad # {} PROVE FALSE
  <2>1. Bad \subseteq SUBSET S
    BY <1>1
  <2>2. PICK s \in Bad : \A t \in Bad : t \subseteq s => t = s
    BY <1>2, <2>1, SmallestSubset
  <2> QED BY <1>1, <2>2
<1> QED BY <1>1, <1>2

LEMMA SumAt ==
  ASSUME NEW f, NEW S, NEW g, Adds(g, f, S), NEW s \in SUBSET S
  PROVE  g[s] = IF s = {} THEN 0 ELSE f[First(s)] + g[s \ {First(s)}]
BY DEF Adds

LEMMA SumUnique ==
  ASSUME NEW f, NEW S, IsFiniteSet(S), NEW g, NEW h, Adds(g, f, S), Adds(h, f, S)
  PROVE  g = h
<1> DEFINE Good == {s \in SUBSET S : g[s] = h[s]}
<1>1. ASSUME NEW s \in SUBSET S, \A t \in SUBSET s : t # s => t \in Good
      PROVE  s \in Good
  <2>1. g[s] = IF s = {} THEN 0 ELSE f[First(s)] + g[s \ {First(s)}]
    BY SumAt
  <2>2. h[s] = IF s = {} THEN 0 ELSE f[First(s)] + h[s \ {First(s)}]
    BY SumAt
  <2>3. s # {} => s \ {First(s)} \in SUBSET s /\ s \ {First(s)} # s
    BY FirstIn
  <2>4. s # {} => g[s \ {First(s)}] = h[s \ {First(s)}]
    BY <1>1, <2>3
  <2> QED BY <2>1, <2>2, <2>4
<1> HIDE DEF Good
<1>2. \A s \in SUBSET S : s \in Good
  BY <1>1, SubsetInduction
<1>3. \A s \in SUBSET S : g[s] = h[s]
  BY <1>2 DEF Good
<1>4. g = [s \in SUBSET S |-> g[s]] /\ h = [s \in SUBSET S |-> h[s]]
  BY DEF Adds
<1> QED BY <1>3, <1>4

LEMMA SumRestrict ==
  ASSUME NEW f, NEW S, NEW g, Adds(g, f, S), NEW T \in SUBSET S
  PROVE  Adds([s \in SUBSET T |-> g[s]], f, T)
<1> DEFINE h == [s \in SUBSET T |-> g[s]]
<1>1. ASSUME NEW s \in SUBSET T
      PROVE  h[s] = IF s = {} THEN 0 ELSE f[First(s)] + h[s \ {First(s)}]
  <2>1. s \in SUBSET S /\ s \ {First(s)} \in SUBSET T
    OBVIOUS
  <2> QED BY <2>1, SumAt
<1> QED BY <1>1 DEF Adds

LEMMA SumExists ==
  ASSUME NEW f, NEW S, IsFiniteSet(S)
  PROVE  \E g : Adds(g, f, S)
<1> DEFINE Good == {s \in SUBSET S : \E g : Adds(g, f, s)}
           H(s) == CHOOSE g : Adds(g, f, s)
           rest(s) == s \ {First(s)}
<1>1. ASSUME NEW T \in SUBSET S, \A t \in SUBSET T : t # T => t \in Good
      PROVE  T \in Good
  <2>1. ASSUME NEW s \in SUBSET T, s # T PROVE Adds(H(s), f, s)
    <3>1. \E g : Adds(g, f, s)
      BY <1>1, <2>1
    <3> QED BY <3>1, Zenon
  <2> DEFINE G == [s \in SUBSET T |-> IF s = {} THEN 0 ELSE f[First(s)] + H(rest(s))[rest(s)]]
  <2>2. ASSUME NEW s \in SUBSET T, s # {}
        PROVE  rest(s) \in SUBSET T /\ rest(s) \in SUBSET s /\ rest(s) # T
    BY <2>2, FirstIn
  <2> HIDE DEF H, rest
  <2>3. ASSUME NEW s \in SUBSET T, s # T PROVE G[s] = H(s)[s]
    <3>1. Adds(H(s), f, s) /\ s \in SUBSET s
      BY <2>1, <2>3
    <3>2. H(s)[s] = IF s = {} THEN 0 ELSE f[First(s)] + H(s)[rest(s)]
      BY <3>1, SumAt DEF rest
    <3>3. CASE s = {}
      BY <3>2, <3>3
    <3>4. CASE s # {}
      <4>1. rest(s) \in SUBSET T /\ rest(s) \in SUBSET s /\ rest(s) # T
        BY <2>2, <3>4
      <4>2. Adds(H(rest(s)), f, rest(s))
        BY <2>1, <4>1
      <4>3. Adds([t \in SUBSET rest(s) |-> H(s)[t]], f, rest(s))
        BY <3>1, <4>1, SumRestrict
      <4>4. IsFiniteSet(rest(s))
        BY <1>1, <4>1, FS_Subset
      <4>5. H(rest(s)) = [t \in SUBSET rest(s) |-> H(s)[t]]
        BY <4>2, <4>3, <4>4, SumUnique
      <4>6. H(rest(s))[rest(s)] = H(s)[rest(s)]
        BY <4>5
      <4> QED BY <3>2, <3>4, <4>6
    <3> QED BY <3>3, <3>4
  <2>4. ASSUME NEW s \in SUBSET T
        PROVE  G[s] = IF s = {} THEN 0 ELSE f[First(s)] + G[rest(s)]
    BY <2>2, <2>3
  <2>5. Adds(G, f, T)
    BY <2>4 DEF Adds, rest
  <2> QED BY <2>5
<1> HIDE DEF Good
<1>2. S \in Good
  BY <1>1, SubsetInduction
<1> QED BY <1>2 DEF Good

\* A sum over a finite set takes one element and goes on with the others.
LEMMA SumStep ==
  ASSUME NEW f, NEW S, IsFiniteSet(S)
  PROVE  SumFunctionOnSet(f, S) =
           IF S = {} THEN 0 ELSE f[First(S)] + SumFunctionOnSet(f, S \ {First(S)})
<1>1. \A T : IsFiniteSet(T) => Adds(CHOOSE k : Adds(k, f, T), f, T)
  BY SumExists, Zenon
<1> DEFINE rest == S \ {First(S)}
<1>2. PICK g : g = (CHOOSE k : Adds(k, f, S)) /\ Adds(g, f, S)
  BY <1>1
<1>3. PICK h : h = (CHOOSE k : Adds(k, f, rest)) /\ Adds(h, f, rest) /\ IsFiniteSet(rest)
  BY <1>1, FS_Subset
<1>4. rest \in SUBSET S /\ rest \in SUBSET rest /\ S \in SUBSET S
  OBVIOUS
<1>5. Adds([t \in SUBSET rest |-> g[t]], f, rest)
  BY <1>2, <1>4, SumRestrict
<1>6. h = [t \in SUBSET rest |-> g[t]]
  BY <1>3, <1>5, SumUnique
<1>7. h[rest] = g[rest]
  BY <1>4, <1>6
<1>8. SumFunctionOnSet(f, S) = g[S] /\ SumFunctionOnSet(f, rest) = h[rest]
  BY <1>2, <1>3, SumIs
<1>9. g[S] = IF S = {} THEN 0 ELSE f[First(S)] + g[rest]
  BY <1>2, <1>4, SumAt
<1> QED BY <1>7, <1>8, <1>9

LEMMA SumEmpty == ASSUME NEW f PROVE SumFunctionOnSet(f, {}) = 0
BY SumStep, FS_EmptySet

\* The sum of integers is one.
LEMMA SumInt ==
  ASSUME NEW f, NEW S, IsFiniteSet(S), \A x \in S : f[x] \in Int
  PROVE  SumFunctionOnSet(f, S) \in Int
<1> DEFINE Good == {s \in SUBSET S : SumFunctionOnSet(f, s) \in Int}
<1>1. ASSUME NEW s \in SUBSET S, \A t \in SUBSET s : t # s => t \in Good
      PROVE  s \in Good
  <2>1. SumFunctionOnSet(f, s) =
          IF s = {} THEN 0 ELSE f[First(s)] + SumFunctionOnSet(f, s \ {First(s)})
    BY FS_Subset, SumStep
  <2>2. s # {} => First(s) \in s /\ s \ {First(s)} \in SUBSET s /\ s \ {First(s)} # s
    BY FirstIn
  <2>3. s # {} => SumFunctionOnSet(f, s \ {First(s)}) \in Int /\ f[First(s)] \in Int
    BY <1>1, <2>2
  <2> QED BY <2>1, <2>3
<1> HIDE DEF Good
<1>2. S \in Good
  BY <1>1, SubsetInduction
<1> QED BY <1>2 DEF Good

\* The sum of natural numbers is one.
LEMMA SumNat ==
  ASSUME NEW f, NEW S, IsFiniteSet(S), \A x \in S : f[x] \in Nat
  PROVE  SumFunctionOnSet(f, S) \in Nat
<1> DEFINE Good == {s \in SUBSET S : SumFunctionOnSet(f, s) \in Nat}
<1>1. ASSUME NEW s \in SUBSET S, \A t \in SUBSET s : t # s => t \in Good
      PROVE  s \in Good
  <2>1. SumFunctionOnSet(f, s) =
          IF s = {} THEN 0 ELSE f[First(s)] + SumFunctionOnSet(f, s \ {First(s)})
    BY FS_Subset, SumStep
  <2>2. s # {} => First(s) \in s /\ s \ {First(s)} \in SUBSET s /\ s \ {First(s)} # s
    BY FirstIn
  <2>3. s # {} => SumFunctionOnSet(f, s \ {First(s)}) \in Nat /\ f[First(s)] \in Nat
    BY <1>1, <2>2
  <2> QED BY <2>1, <2>3
<1> HIDE DEF Good
<1>2. S \in Good
  BY <1>1, SubsetInduction
<1> QED BY <1>2 DEF Good

\* Sums of functions that agree are the same.
LEMMA SumAgree ==
  ASSUME NEW f, NEW g, NEW S, IsFiniteSet(S), \A x \in S : f[x] = g[x]
  PROVE  SumFunctionOnSet(f, S) = SumFunctionOnSet(g, S)
<1> DEFINE Good == {s \in SUBSET S : SumFunctionOnSet(f, s) = SumFunctionOnSet(g, s)}
<1>1. ASSUME NEW s \in SUBSET S, \A t \in SUBSET s : t # s => t \in Good
      PROVE  s \in Good
  <2>1. SumFunctionOnSet(f, s) =
          IF s = {} THEN 0 ELSE f[First(s)] + SumFunctionOnSet(f, s \ {First(s)})
    BY FS_Subset, SumStep
  <2>2. SumFunctionOnSet(g, s) =
          IF s = {} THEN 0 ELSE g[First(s)] + SumFunctionOnSet(g, s \ {First(s)})
    BY FS_Subset, SumStep
  <2>3. s # {} => First(s) \in s /\ s \ {First(s)} \in SUBSET s /\ s \ {First(s)} # s
    BY FirstIn
  <2>4. s # {} => /\ SumFunctionOnSet(f, s \ {First(s)}) = SumFunctionOnSet(g, s \ {First(s)})
                  /\ f[First(s)] = g[First(s)]
    BY <1>1, <2>3
  <2> QED BY <2>1, <2>2, <2>4
<1> HIDE DEF Good
<1>2. S \in Good
  BY <1>1, SubsetInduction
<1> QED BY <1>2 DEF Good

\* The order in which a sum takes the elements does not matter.
LEMMA SumRemove ==
  ASSUME NEW f, NEW S, IsFiniteSet(S), \A x \in S : f[x] \in Int, NEW x \in S
  PROVE  SumFunctionOnSet(f, S) = f[x] + SumFunctionOnSet(f, S \ {x})
<1> DEFINE Sum(s) == SumFunctionOnSet(f, s)
           Good == {s \in SUBSET S : \A y \in s : Sum(s) = f[y] + Sum(s \ {y})}
<1>1. ASSUME NEW s \in SUBSET S, \A t \in SUBSET s : t # s => t \in Good
      PROVE  s \in Good
  <2> SUFFICES ASSUME NEW y \in s PROVE Sum(s) = f[y] + Sum(s \ {y})
    OBVIOUS
  <2>1. IsFiniteSet(s)
    BY FS_Subset
  <2>2. PICK z : z = First(s)
    OBVIOUS
  <2>3. z \in s /\ Sum(s) = f[z] + Sum(s \ {z})
    BY <2>1, <2>2, FirstIn, SumStep
  <2>4. CASE y = z
    BY <2>3, <2>4
  <2>5. CASE y # z
    <3>1. s \ {z} \in SUBSET s /\ s \ {z} # s /\ y \in s \ {z}
      BY <2>3, <2>5
    <3>2. s \ {y} \in SUBSET s /\ s \ {y} # s /\ z \in s \ {y}
      BY <2>3, <2>5
    <3>3. Sum(s \ {z}) = f[y] + Sum((s \ {z}) \ {y})
      BY <1>1, <3>1
    <3>4. Sum(s \ {y}) = f[z] + Sum((s \ {y}) \ {z})
      BY <1>1, <3>2
    <3>5. (s \ {y}) \ {z} = (s \ {z}) \ {y}
      OBVIOUS
    <3>6. Sum((s \ {z}) \ {y}) \in Int /\ f[y] \in Int /\ f[z] \in Int
      <4>1. IsFiniteSet((s \ {z}) \ {y}) /\ \A u \in (s \ {z}) \ {y} : f[u] \in Int
        BY <2>1, FS_Subset
      <4> QED BY <2>3, <4>1, SumInt
    <3>7. PICK a : a = Sum((s \ {z}) \ {y})
      OBVIOUS
    <3>8. Sum(s) = f[z] + (f[y] + a) /\ Sum(s \ {y}) = f[z] + a
      BY <2>3, <3>3, <3>4, <3>5, <3>7
    <3>9. a \in Int /\ f[y] \in Int /\ f[z] \in Int
      BY <3>6, <3>7
    <3> HIDE DEF Sum
    <3> QED BY <3>8, <3>9
  <2> QED BY <2>4, <2>5
<1> HIDE DEF Good
<1>2. S \in Good
  BY <1>1, SubsetInduction
<1> QED BY <1>2 DEF Good

\* What an added element adds.
LEMMA SumAdd ==
  ASSUME NEW f, NEW S, IsFiniteSet(S), NEW x, x \notin S, \A y \in S \cup {x} : f[y] \in Int
  PROVE  SumFunctionOnSet(f, S \cup {x}) = SumFunctionOnSet(f, S) + f[x]
<1>1. IsFiniteSet(S \cup {x}) /\ (S \cup {x}) \ {x} = S
  BY FS_AddElement
<1>2. SumFunctionOnSet(f, S) \in Int /\ f[x] \in Int
  BY SumInt
<1> QED BY <1>1, <1>2, SumRemove

\* What a changed element changes.
LEMMA SumChange ==
  ASSUME NEW f, NEW g, NEW S, IsFiniteSet(S), NEW x \in S, \A y \in S : f[y] \in Int,
         g[x] \in Int, \A y \in S \ {x} : g[y] = f[y]
  PROVE  SumFunctionOnSet(g, S) = SumFunctionOnSet(f, S) + (g[x] - f[x])
<1> DEFINE rest == S \ {x}
<1>1. IsFiniteSet(rest) /\ \A y \in S : g[y] \in Int
  BY FS_Subset
<1>2. SumFunctionOnSet(g, rest) = SumFunctionOnSet(f, rest) /\ SumFunctionOnSet(f, rest) \in Int
  BY <1>1, SumAgree, SumInt
<1>3. SumFunctionOnSet(g, S) = g[x] + SumFunctionOnSet(g, rest)
  BY <1>1, SumRemove
<1>4. SumFunctionOnSet(f, S) = f[x] + SumFunctionOnSet(f, rest)
  BY SumRemove
<1> HIDE DEF rest
<1> QED BY <1>1, <1>2, <1>3, <1>4

\* The sum of a constant.
LEMMA SumConstant ==
  ASSUME NEW f, NEW S, IsFiniteSet(S), NEW c \in Int, \A x \in S : f[x] = c
  PROVE  SumFunctionOnSet(f, S) = c * Cardinality(S)
<1> DEFINE Good == {s \in SUBSET S : SumFunctionOnSet(f, s) = c * Cardinality(s)}
<1>1. ASSUME NEW s \in SUBSET S, \A t \in SUBSET s : t # s => t \in Good
      PROVE  s \in Good
  <2>1. IsFiniteSet(s) /\ Cardinality(s) \in Nat
    BY FS_Subset, FS_CardinalityType
  <2>2. SumFunctionOnSet(f, s) =
          IF s = {} THEN 0 ELSE f[First(s)] + SumFunctionOnSet(f, s \ {First(s)})
    BY <2>1, SumStep
  <2>3. CASE s = {}
    BY <2>2, <2>3, FS_EmptySet
  <2>4. CASE s # {}
    <3>1. First(s) \in s /\ s \ {First(s)} \in SUBSET s /\ s \ {First(s)} # s
      BY <2>4, FirstIn
    <3>2. PICK k \in Nat : Cardinality(s \ {First(s)}) = k /\ Cardinality(s) = k + 1
      <4>1. IsFiniteSet(s \ {First(s)}) /\ Cardinality(s \ {First(s)}) = Cardinality(s) - 1
        BY <2>1, <3>1, FS_RemoveElement
      <4>2. Cardinality(s \ {First(s)}) \in Nat
        BY <4>1, FS_CardinalityType
      <4> QED BY <2>1, <4>1, <4>2
    <3>3. SumFunctionOnSet(f, s \ {First(s)}) = c * k
      BY <1>1, <3>1, <3>2
    <3>4. SumFunctionOnSet(f, s) = c + c * k
      BY <2>2, <2>4, <3>1, <3>3
    <3>5. c + c * k = c * (k + 1)
      OBVIOUS
    <3> QED BY <3>2, <3>4, <3>5
  <2> QED BY <2>3, <2>4
<1> HIDE DEF Good
<1>2. S \in Good
  BY <1>1, SubsetInduction
<1> QED BY <1>2 DEF Good

\* The sum of differences, each taken c times.
LEMMA SumOfDifferences ==
  ASSUME NEW f, NEW g, NEW h, NEW S, IsFiniteSet(S), NEW c \in Int,
         \A x \in S : f[x] \in Int /\ g[x] \in Int /\ h[x] = c * (f[x] - g[x])
  PROVE  SumFunctionOnSet(h, S) = c * (SumFunctionOnSet(f, S) - SumFunctionOnSet(g, S))
<1> DEFINE Sum(k, s) == SumFunctionOnSet(k, s)
           Good == {s \in SUBSET S : Sum(h, s) = c * (Sum(f, s) - Sum(g, s))}
<1>1. ASSUME NEW s \in SUBSET S, \A t \in SUBSET s : t # s => t \in Good
      PROVE  s \in Good
  <2>1. IsFiniteSet(s)
    BY FS_Subset
  <2>2. PICK rest : rest = s \ {First(s)}
    OBVIOUS
  <2>3. \A k : Sum(k, s) = IF s = {} THEN 0 ELSE k[First(s)] + Sum(k, rest)
    BY <2>1, <2>2, SumStep
  <2>4. CASE s = {}
    <3>1. Sum(h, s) = 0 /\ Sum(f, s) = 0 /\ Sum(g, s) = 0
      BY <2>3, <2>4
    <3> HIDE DEF Sum
    <3>2. c * (0 - 0) = 0
      OBVIOUS
    <3> QED BY <3>1, <3>2
  <2>5. CASE s # {}
    <3>1. First(s) \in s /\ rest \in SUBSET s /\ rest # s
      BY <2>2, <2>5, FirstIn
    <3>2. Sum(h, rest) = c * (Sum(f, rest) - Sum(g, rest))
      BY <1>1, <3>1
    <3>3. Sum(f, rest) \in Int /\ Sum(g, rest) \in Int
      <4>1. IsFiniteSet(rest) /\ \A x \in rest : f[x] \in Int /\ g[x] \in Int
        BY <2>1, <3>1, FS_Subset
      <4> QED BY <4>1, SumInt
    <3>4. PICK a \in Int, b \in Int, y \in Int, z \in Int :
            a = Sum(f, rest) /\ b = Sum(g, rest) /\ y = f[First(s)] /\ z = g[First(s)]
      BY <3>1, <3>3
    <3>5. h[First(s)] = c * (y - z)
      BY <3>1, <3>4
    <3>6. Sum(h, s) = c * (y - z) + c * (a - b) /\ Sum(f, s) = y + a /\ Sum(g, s) = z + b
      BY <2>3, <2>5, <3>2, <3>4, <3>5
    <3>7. c * (y - z) + c * (a - b) = c * ((y + a) - (z + b))
      OBVIOUS
    <3> HIDE DEF Sum
    <3> QED BY <3>6, <3>7
  <2> QED BY <2>4, <2>5
<1> HIDE DEF Good
<1>2. S \in Good
  BY <1>1, SubsetInduction
<1> QED BY <1>2 DEF Good

\* The sizes of disjoint sets add up to the size of their union.
LEMMA SumOfSizes ==
  ASSUME NEW F, NEW n, NEW S, IsFiniteSet(S), \A x \in S : IsFiniteSet(F[x]) /\ n[x] = Cardinality(F[x]),
         \A x, y \in S : x # y => F[x] \cap F[y] = {}
  PROVE  /\ IsFiniteSet(UNION {F[x] : x \in S})
         /\ SumFunctionOnSet(n, S) = Cardinality(UNION {F[x] : x \in S})
<1> DEFINE All(s) == UNION {F[x] : x \in s}
           Good == {s \in SUBSET S : IsFiniteSet(All(s)) /\ SumFunctionOnSet(n, s) = Cardinality(All(s))}
<1>1. ASSUME NEW s \in SUBSET S, \A t \in SUBSET s : t # s => t \in Good
      PROVE  s \in Good
  <2>1. SumFunctionOnSet(n, s) =
          IF s = {} THEN 0 ELSE n[First(s)] + SumFunctionOnSet(n, s \ {First(s)})
    BY FS_Subset, SumStep
  <2>2. CASE s = {}
    <3>1. All(s) = {}
      BY <2>2
    <3> QED BY <2>1, <2>2, <3>1, FS_EmptySet
  <2>3. CASE s # {}
    <3>1. PICK z \in s, rest \in SUBSET s : z = First(s) /\ rest = s \ {z} /\ rest # s
      <4>1. First(s) \in s
        BY <2>3, FirstIn
      <4>2. s \ {First(s)} \in SUBSET s /\ s \ {First(s)} # s
        BY <4>1
      <4> QED BY <4>1, <4>2
    <3>2. IsFiniteSet(All(rest)) /\ SumFunctionOnSet(n, rest) = Cardinality(All(rest))
      BY <1>1, <3>1
    <3>3. All(s) = F[z] \cup All(rest)
      BY <3>1
    <3>4. F[z] \cap All(rest) = {}
      BY <3>1
    <3> HIDE DEF All
    <3>5. /\ IsFiniteSet(All(s))
          /\ Cardinality(All(s)) = Cardinality(F[z]) + Cardinality(All(rest)) - Cardinality({})
      BY <3>2, <3>3, <3>4, FS_Union
    <3>6. SumFunctionOnSet(n, s) = Cardinality(F[z]) + Cardinality(All(rest))
      BY <2>1, <2>3, <3>1, <3>2
    <3>7. Cardinality(F[z]) \in Nat /\ Cardinality(All(rest)) \in Nat
      BY <3>2, FS_CardinalityType
    <3> QED BY <3>5, <3>6, <3>7, FS_EmptySet
  <2> QED BY <2>2, <2>3
<1> HIDE DEF Good
<1>2. S \in Good
  BY <1>1, SubsetInduction
<1> QED BY <1>2 DEF Good

\* The same, in two words: the sets F[x] lie apart and n[x] is the size of each.
Apart(F, n, S) ==
  /\ \A z \in S : IsFiniteSet(F[z]) /\ n[z] = Cardinality(F[z])
  /\ \A z \in S : \A w \in S : z # w => F[z] \cap F[w] = {}
Together(F, S) == UNION {F[z] : z \in S}

LEMMA SizesAddUp ==
  ASSUME NEW F, NEW n, NEW S, IsFiniteSet(S), Apart(F, n, S)
  PROVE  SumFunctionOnSet(n, S) = Cardinality(Together(F, S))
<1>1. /\ \A z \in S : IsFiniteSet(F[z]) /\ n[z] = Cardinality(F[z])
      /\ \A z \in S : \A w \in S : z # w => F[z] \cap F[w] = {}
  BY DEF Apart
<1> QED BY <1>1, SumOfSizes DEF Together

\* There are n numbers from 1 to n.
LEMMA CountTo == \A n \in Nat : IsFiniteSet(1..n) /\ Cardinality(1..n) = n
<1> SUFFICES ASSUME NEW n \in Nat PROVE IsFiniteSet(1..n) /\ Cardinality(1..n) = n
  OBVIOUS
<1>1. 1 \in Int /\ n \in Int
  OBVIOUS
<1>2. IsFiniteSet(1..n) /\ Cardinality(1..n) = IF 1 > n THEN 0 ELSE n - 1 + 1
  BY <1>1, FS_Interval
<1>3. n = IF 1 > n THEN 0 ELSE n - 1 + 1
  OBVIOUS
<1> QED BY <1>2, <1>3

\* A set has the size of its image under a one-to-one function.
LEMMA SizeOfImage ==
  ASSUME NEW S, IsFiniteSet(S), NEW f, DOMAIN f = S, f = [x \in S |-> f[x]],
         \A x, y \in S : f[x] = f[y] => x = y, NEW T, T = {f[x] : x \in S}
  PROVE  IsFiniteSet(T) /\ Cardinality(T) = Cardinality(S)
<1>1. f \in [S -> T] /\ \A t \in T : \E x \in S : f[x] = t
  OBVIOUS
<1>2. f \in Bijection(S, T)
  BY <1>1 DEF Bijection, Injection, Surjection, IsInjective
<1>3. ExistsBijection(S, T)
  BY <1>2 DEF ExistsBijection
<1> QED BY <1>3, FS_Bijection

=============================================================================
