------------------------------ MODULE Sumas_proofs ------------------------------
(***************************************************************************)
(* What the proofs of this project keep needing about finite sets: a       *)
(* minimal member of a family of subsets, which takes the place of         *)
(* induction over finite sets, the numbers of a set put in order, and what *)
(* SumFunctionOnSet of the community modules adds up to when the set or    *)
(* the function changes.                                                   *)
(***************************************************************************)
EXTENDS Integers, Sequences, Functions, FiniteSetTheorems, SequenceTheorems, WellFoundedInduction, TLAPS

-------------------------------------------------------------------------------
(* Minimal members.                                                        *)

Families(S) == SUBSET (SUBSET S)

IsMinimal(X, F) == X \in F /\ \A Y \in F : Y \subseteq X => Y = X

\* Of some subsets of a finite set there is one that contains no other of them.
LEMMA Minimal ==
  ASSUME NEW S, IsFiniteSet(S), NEW F \in Families(S), F # {}
  PROVE  \E X : IsMinimal(X, F)
  <1>1. IsWellFoundedOn(StrictSubsetOrdering(S), SUBSET S)
    BY FS_StrictSubsetOrderingWellFounded, FS_FiniteSubsetsOfFinite
  <1>2. F \subseteq SUBSET S  BY DEF Families
  <1>3. PICK X \in F : \A Y \in F : ~ (<<Y, X>> \in StrictSubsetOrdering(S))  BY <1>1, <1>2, WFMin
  <1>4. IsMinimal(X, F)  BY <1>2, <1>3 DEF StrictSubsetOrdering, IsMinimal
  <1> QED  BY <1>4

-------------------------------------------------------------------------------
(* Numbers in order.                                                       *)

\* A finite set of numbers that is not empty has a least one.
LEMMA Least ==
  ASSUME NEW S \in SUBSET Nat, IsFiniteSet(S), S # {}
  PROVE  \E m \in S : \A k \in S : m <= k
  <1> DEFINE Down(k) == {j \in S : j <= k}
             F == {Down(k) : k \in S}
  <1>1. F \in Families(S) /\ F # {}  BY DEF Families
  <1>2. \E X : IsMinimal(X, F)
    <2> HIDE DEF F
    <2> QED  BY <1>1, Minimal
  <1>3. PICK m \in S : \A Y \in F : Y \subseteq Down(m) => Y = Down(m)  BY <1>2 DEF IsMinimal
  <1>4. ASSUME NEW k \in S  PROVE m <= k
    <2>1. k \in Nat /\ m \in Nat /\ \A j \in S : j \in Nat  OBVIOUS
    <2> SUFFICES ASSUME k < m PROVE FALSE  BY <2>1
    <2>2. \A j \in S : j <= k => j <= m  BY <2>1
    <2>3. Down(k) \subseteq Down(m)  BY <2>2
    <2>4. m \in Down(m) /\ m \notin Down(k)  BY <2>1
    <2>5. Down(k) \in F  OBVIOUS
    <2> QED  BY <1>3, <2>3, <2>4, <2>5
  <1> QED  BY <1>4

\* A finite set of integers that is not empty has a greatest one.
LEMMA Greatest ==
  ASSUME NEW S \in SUBSET Int, IsFiniteSet(S), S # {}
  PROVE  \E m \in S : \A k \in S : m >= k
  <1> DEFINE Up(k) == {j \in S : k <= j}
             F == {Up(k) : k \in S}
  <1>1. F \in Families(S) /\ F # {}  BY DEF Families
  <1>2. \E X : IsMinimal(X, F)
    <2> HIDE DEF F
    <2> QED  BY <1>1, Minimal
  <1>3. PICK m \in S : \A Y \in F : Y \subseteq Up(m) => Y = Up(m)  BY <1>2 DEF IsMinimal
  <1>4. ASSUME NEW k \in S  PROVE k <= m
    <2>1. k \in Int /\ m \in Int /\ \A j \in S : j \in Int  OBVIOUS
    <2> SUFFICES ASSUME m < k PROVE FALSE  BY <2>1
    <2>2. \A j \in S : k <= j => m <= j  BY <2>1
    <2>3. Up(k) \subseteq Up(m)  BY <2>2
    <2>4. m \in Up(m) /\ m \notin Up(k)  BY <2>1
    <2>5. Up(k) \in F  OBVIOUS
    <2> QED  BY <1>3, <2>3, <2>4, <2>5
  <1>5. \A k \in S : k \in Int /\ m >= k  BY <1>4
  <1> QED  BY <1>5

Ordered(s, S) ==
  s \in [1..Cardinality(S) -> S] /\ \A i, j \in 1..Cardinality(S) : i < j => s[i] < s[j]

\* Put the least one before the others.
LEMMA SortedStep ==
  ASSUME NEW S \in SUBSET Nat, IsFiniteSet(S), NEW m \in S, \A k \in S : m <= k,
         NEW t, Ordered(t, S \ {m})
  PROVE  \E s : Ordered(s, S)
  <1> DEFINE n == Cardinality(S)
             s == [i \in 1..n |-> IF i = 1 THEN m ELSE t[i - 1]]
  <1>1. n \in Nat /\ Cardinality(S \ {m}) = n - 1  BY FS_CardinalityType, FS_RemoveElement
  <1>2. ASSUME NEW i \in 1..(n - 1)  PROVE t[i] \in S /\ m < t[i]
    <2>1. t[i] \in S \ {m}  BY <1>1 DEF Ordered
    <2>2. t[i] \in Nat /\ m \in Nat /\ m <= t[i] /\ t[i] # m  BY <2>1
    <2> QED  BY <2>1, <2>2
  <1>3. s \in [1..n -> S]
    <2>1. ASSUME NEW i \in 1..n, i # 1  PROVE i - 1 \in 1..(n - 1)  BY <1>1, <2>1
    <2> QED  BY <1>2, <2>1
  <1>4. ASSUME NEW i \in 1..n, NEW j \in 1..n, i < j  PROVE s[i] < s[j]
    <2>1. j - 1 \in 1..(n - 1) /\ s[j] = t[j - 1]  BY <1>1, <1>4
    <2>2. CASE i = 1  BY <2>1, <2>2, <1>2
    <2>3. CASE i # 1
      <3>1. i - 1 \in 1..(n - 1) /\ s[i] = t[i - 1] /\ i - 1 < j - 1  BY <1>1, <1>4, <2>3
      <3> QED  BY <2>1, <3>1, <1>1 DEF Ordered
    <2> QED  BY <2>2, <2>3
  <1> QED  BY <1>3, <1>4 DEF Ordered

\* Every finite set of numbers can be sorted: the least set that cannot would be sorted by
\* what sorts it without its least number.
LEMMA SortedExists ==
  ASSUME NEW S \in SUBSET Nat, IsFiniteSet(S)
  PROVE  \E s : Ordered(s, S)
  <1> DEFINE F == {T \in SUBSET S : ~ \E s : Ordered(s, T)}
  <1>1. CASE F = {}  BY <1>1
  <1>2. CASE F # {}
    <2>0. F \in Families(S)  BY DEF Families
    <2>1. PICK T : IsMinimal(T, F)
      <3> HIDE DEF F
      <3> QED  BY <1>2, <2>0, Minimal
    <2>2. T \in SUBSET S /\ T \in SUBSET Nat /\ IsFiniteSet(T) /\ ~ \E s : Ordered(s, T)
      BY <2>1, FS_Subset DEF IsMinimal
    <2>3. CASE T = {}
      <3>1. Cardinality(T) = 0  BY <2>3, FS_EmptySet
      <3>2. Ordered([i \in 1..0 |-> 0], T)  BY <2>3, <3>1 DEF Ordered
      <3> QED  BY <2>2, <3>2
    <2>4. CASE T # {}
      <3>1. PICK m \in T : \A k \in T : m <= k  BY <2>2, <2>4, Least
      <3>2. T \ {m} \in SUBSET S /\ T \ {m} \subseteq T /\ T \ {m} # T  BY <3>1, <2>2
      <3>3. T \ {m} \notin F  BY <2>1, <3>2 DEF IsMinimal
      <3>4. PICK t : Ordered(t, T \ {m})  BY <3>2, <3>3
      <3> QED  BY <2>2, <3>1, <3>4, SortedStep
    <2> QED  BY <2>3, <2>4
  <1> QED  BY <1>1, <1>2

\* In order they are all there, and none twice.
LEMMA OrderedOnto ==
  ASSUME NEW S \in SUBSET Nat, IsFiniteSet(S), NEW s, Ordered(s, S)
  PROVE  /\ \A i, j \in 1..Cardinality(S) : s[i] = s[j] => i = j
         /\ \A x \in S : \E i \in 1..Cardinality(S) : x = s[i]
  <1> DEFINE n == Cardinality(S)
             D == 1..n
  <1>1. n \in Nat /\ IsFiniteSet(D) /\ Cardinality(D) = n
    <2>1. n \in Nat  BY FS_CardinalityType
    <2> HIDE DEF n
    <2>2. IsFiniteSet(1..n) /\ Cardinality(1..n) = IF 1 > n THEN 0 ELSE n - 1 + 1  BY <2>1, FS_Interval
    <2> QED  BY <2>1, <2>2
  <1>2. s \in [D -> S] /\ \A i, j \in D : i < j => s[i] < s[j]  BY DEF Ordered
  <1>3. ASSUME NEW i \in D, NEW j \in D, s[i] = s[j]  PROVE i = j
    <2>1. s[i] \in Nat /\ s[j] \in Nat  BY <1>2
    <2>2. ~(s[i] < s[j]) /\ ~(s[j] < s[i])  BY <1>3, <2>1
    <2>3. ~(i < j) /\ ~(j < i)  BY <1>2, <2>2
    <2>4. i \in Nat /\ j \in Nat  OBVIOUS
    <2> QED  BY <2>3, <2>4
  <1>4. s \in Injection(D, S)  BY <1>2, <1>3 DEF Injection, IsInjective
  <1>5. s \in Surjection(D, S)  BY <1>1, <1>4, FS_Injection
  <1> QED  BY <1>3, <1>5 DEF Surjection

\* There is one way to put numbers in order.
LEMMA NoneBefore ==
  ASSUME NEW S \in SUBSET Nat, IsFiniteSet(S), NEW s, NEW t, Ordered(s, S), Ordered(t, S),
         NEW i \in 1 .. Cardinality(S), \A j \in 1 .. Cardinality(S) : j < i => s[j] = t[j]
  PROVE  ~(s[i] < t[i])
  <1> SUFFICES ASSUME s[i] < t[i] PROVE FALSE  OBVIOUS
  <1>1. s[i] \in S  BY DEF Ordered
  <1>2. PICK j \in 1 .. Cardinality(S) : s[i] = t[j]
    <2>1. \A x \in S : \E j \in 1 .. Cardinality(S) : t[j] = x  BY OrderedOnto
    <2> QED  BY <1>1, <2>1
  <1>3. CASE j < i
    <2>1. s[j] = s[i]  BY <1>2, <1>3
    <2>2. i = j  BY <2>1, OrderedOnto
    <2> QED  BY <1>3, <2>2
  <1>4. CASE ~(j < i)
    <2>1. j = i \/ t[i] < t[j]  BY <1>4 DEF Ordered
    <2>2. t[i] \in Nat /\ t[j] \in Nat  BY DEF Ordered
    <2> QED  BY <1>2, <2>1, <2>2
  <1> QED  BY <1>3, <1>4

LEMMA OrderUnique ==
  ASSUME NEW S \in SUBSET Nat, IsFiniteSet(S), NEW s, NEW t, Ordered(s, S), Ordered(t, S)
  PROVE  s = t
  <1> DEFINE n == Cardinality(S)
             D == {i \in 1 .. n : s[i] # t[i]}
  <1>1. n \in Nat  BY FS_CardinalityType
  <1>2. D = {}
    <2> SUFFICES ASSUME D # {} PROVE FALSE  OBVIOUS
    <2>1. IsFiniteSet(1 .. n)
      <3> HIDE DEF n
      <3> QED  BY <1>1, FS_Interval
    <2>2. D \in SUBSET Nat /\ IsFiniteSet(D)  BY <1>1, <2>1, FS_Subset
    <2>3. PICK i \in D : \A k \in D : i <= k
      <3> HIDE DEF D
      <3> QED  BY <2>2, Least
    <2>4. i \in 1 .. n /\ s[i] # t[i]  OBVIOUS
    <2>5. \A j \in 1 .. n : j < i => s[j] = t[j] /\ t[j] = s[j]
      <3> SUFFICES ASSUME NEW j \in 1 .. n, j < i PROVE j \notin D  OBVIOUS
      <3> QED  BY <2>3, <2>4
    <2>6. ~(s[i] < t[i]) /\ ~(t[i] < s[i])  BY <2>4, <2>5, NoneBefore
    <2>7. s[i] \in Nat /\ t[i] \in Nat  BY <2>4 DEF Ordered
    <2> QED  BY <2>4, <2>6, <2>7
  <1>3. s \in [1 .. n -> S] /\ t \in [1 .. n -> S]  BY DEF Ordered
  <1>4. \A i \in 1 .. n : s[i] = t[i]  BY <1>2
  <1> HIDE DEF n
  <1>5. s = [i \in 1 .. n |-> s[i]] /\ t = [i \in 1 .. n |-> t[i]]  BY <1>3
  <1> QED  BY <1>4, <1>5

-------------------------------------------------------------------------------
(* Sums.  SumFunctionOnSet(f, S) takes the elements of S in the order in   *)
(* which CHOOSE gives them; that the order does not matter is AddOne.      *)

Pick(S) == CHOOSE x \in S : TRUE

\* g adds up f over every subset of S.
Adds(f, S, g) ==
  g = [s \in SUBSET S |-> IF s = {} THEN 0 ELSE f[Pick(s)] + g[s \ {Pick(s)}]]

LEMMA PickIn ==
  ASSUME NEW S, S # {}
  PROVE  Pick(S) \in S
  BY DEF Pick

LEMMA SumIs ==
  ASSUME NEW f, NEW S
  PROVE  SumFunctionOnSet(f, S) = (CHOOSE g : Adds(f, S, g))[S]
  BY DEF SumFunctionOnSet, FoldFunctionOnSet, MapThenFoldSet, Adds, Pick

LEMMA AddsAt ==
  ASSUME NEW f, NEW S, NEW g, Adds(f, S, g), NEW s, s \subseteq S
  PROVE  /\ s = {} => g[s] = 0
         /\ s # {} => g[s] = f[Pick(s)] + g[s \ {Pick(s)}]
  BY DEF Adds

\* Two functions that add up f agree on the sets both are defined for.
LEMMA AddsUnique ==
  ASSUME NEW f, NEW S, NEW g, Adds(f, S, g), NEW T, NEW h, Adds(f, T, h),
         NEW U, U \subseteq S, U \subseteq T, IsFiniteSet(U)
  PROVE  g[U] = h[U]
  <1> DEFINE F == {V \in SUBSET U : g[V] # h[V]}
  <1> SUFFICES ASSUME F # {} PROVE FALSE  OBVIOUS
  <1>1. F \in Families(U)  BY DEF Families
  <1>2. PICK X : IsMinimal(X, F)
    <2> HIDE DEF F
    <2> QED  BY <1>1, Minimal
  <1>3. X \subseteq U /\ g[X] # h[X]  BY <1>2 DEF IsMinimal
  <1>4. X # {}  BY <1>3, AddsAt
  <1> DEFINE Y == X \ {Pick(X)}
  <1>5. Pick(X) \in X  BY <1>4, PickIn
  <1>6. Y \notin F  BY <1>2, <1>5 DEF IsMinimal
  <1>7. g[Y] = h[Y]  BY <1>3, <1>6
  <1>8. g[X] = f[Pick(X)] + g[Y] /\ h[X] = f[Pick(X)] + h[Y]  BY <1>3, <1>4, AddsAt
  <1> QED  BY <1>3, <1>7, <1>8

\* There is a function that adds up f over the subsets of a finite set.
LEMMA AddsExists ==
  ASSUME NEW f, NEW S, IsFiniteSet(S)
  PROVE  \E g : Adds(f, S, g)
  <1> DEFINE F == {T \in SUBSET S : ~ \E g : Adds(f, T, g)}
  <1> SUFFICES ASSUME F # {} PROVE FALSE  OBVIOUS
  <1>1. F \in Families(S)  BY DEF Families
  <1>2. PICK X : IsMinimal(X, F)
    <2> HIDE DEF F
    <2> QED  BY <1>1, Minimal
  <1>3. X \subseteq S /\ IsFiniteSet(X) /\ ~ \E g : Adds(f, X, g)
    BY <1>2, FS_Subset DEF IsMinimal
  <1>4. \A Y : Y \subseteq X /\ Y # X => \E g : Adds(f, Y, g)  BY <1>2, <1>3 DEF IsMinimal
  <1> DEFINE Y(s) == s \ {Pick(s)}
             sub(T) == CHOOSE g : Adds(f, T, g)
             g == [s \in SUBSET X |-> IF s = {} THEN 0 ELSE f[Pick(s)] + sub(Y(s))[Y(s)]]
  <1>5. ASSUME NEW s \in SUBSET X, s # {}
        PROVE  g[Y(s)] = sub(Y(s))[Y(s)]
    <2>1. Pick(s) \in s  BY <1>5, PickIn
    <2>2. Y(s) \subseteq X /\ Y(s) # X  BY <2>1, Zenon
    <2>3. Adds(f, Y(s), sub(Y(s)))  BY <1>4, <2>2
    <2> DEFINE t == Y(s)
    <2> HIDE DEF t
    <2>4. CASE t = {}  BY <2>2, <2>3, <2>4, AddsAt DEF t
    <2>5. CASE t # {}
      <3>1. Pick(t) \in t  BY <2>5, PickIn
      <3>2. Y(t) \subseteq X /\ Y(t) # X /\ Y(t) \subseteq t  BY <3>1, <2>2 DEF t
      <3>3. Adds(f, Y(t), sub(Y(t)))  BY <1>4, <3>2
      <3>4. IsFiniteSet(Y(t))  BY <1>3, <3>2, FS_Subset
      <3>5. Adds(f, t, sub(t))  BY <2>3 DEF t
      <3> DEFINE u == Y(t)
      <3> HIDE DEF u
      <3>6. sub(t)[u] = sub(u)[u]
        <4> HIDE DEF sub
        <4> QED  BY <3>2, <3>3, <3>4, <3>5, AddsUnique DEF u
      <3>7. sub(t)[t] = f[Pick(t)] + sub(t)[u]  BY <2>5, <3>5, AddsAt DEF u
      <3>8. g[t] = f[Pick(t)] + sub(u)[u]
        <4>1. t \in SUBSET X  BY <2>2 DEF t
        <4> HIDE DEF sub
        <4> QED  BY <2>5, <4>1 DEF u
      <3> QED  BY <3>6, <3>7, <3>8 DEF t
    <2> QED  BY <2>4, <2>5
  <1>6. Adds(f, X, g)
    <2>1. g = [s \in SUBSET X |-> IF s = {} THEN 0 ELSE f[Pick(s)] + g[s \ {Pick(s)}]]
      <3> HIDE DEF sub
      <3> QED  BY <1>5
    <2> HIDE DEF g
    <2> QED  BY <2>1 DEF Adds
  <1> QED  BY <1>3, <1>6

LEMMA SumAdds ==
  ASSUME NEW f, NEW S, IsFiniteSet(S), NEW g, Adds(f, S, g), NEW T, T \subseteq S
  PROVE  SumFunctionOnSet(f, T) = g[T]
  <1>1. IsFiniteSet(T)  BY FS_Subset
  <1> DEFINE h == CHOOSE h : Adds(f, T, h)
  <1>2. Adds(f, T, h)  BY <1>1, AddsExists
  <1>3. SumFunctionOnSet(f, T) = h[T]  BY SumIs
  <1> HIDE DEF h
  <1> QED  BY <1>1, <1>2, <1>3, AddsUnique

\* The sum over the empty set.
LEMMA SumEmpty ==
  ASSUME NEW f
  PROVE  SumFunctionOnSet(f, {}) = 0
  <1>1. IsFiniteSet({})  BY FS_EmptySet
  <1>2. PICK g : Adds(f, {}, g)  BY <1>1, AddsExists
  <1> QED  BY <1>1, <1>2, SumAdds, AddsAt

\* The sum over any other finite set, in the order of CHOOSE.
LEMMA SumPick ==
  ASSUME NEW f, NEW S, IsFiniteSet(S), S # {}
  PROVE  SumFunctionOnSet(f, S) = f[Pick(S)] + SumFunctionOnSet(f, S \ {Pick(S)})
  <1>1. PICK g : Adds(f, S, g)  BY AddsExists
  <1>2. S \ {Pick(S)} \subseteq S /\ S \subseteq S  OBVIOUS
  <1>3. SumFunctionOnSet(f, S) = g[S] /\ SumFunctionOnSet(f, S \ {Pick(S)}) = g[S \ {Pick(S)}]
    BY <1>1, <1>2, SumAdds
  <1> HIDE DEF Adds
  <1>4. g[S] = f[Pick(S)] + g[S \ {Pick(S)}]  BY <1>1, <1>2, AddsAt
  <1> QED  BY <1>3, <1>4

\* Over a finite set of integers the sum is an integer.
LEMMA SumInt ==
  ASSUME NEW f, NEW S, IsFiniteSet(S), \A x \in S : f[x] \in Int
  PROVE  SumFunctionOnSet(f, S) \in Int
  <1> DEFINE F == {T \in SUBSET S : SumFunctionOnSet(f, T) \notin Int}
  <1> SUFFICES ASSUME F # {} PROVE FALSE  OBVIOUS
  <1>1. F \in Families(S)  BY DEF Families
  <1>2. PICK X : IsMinimal(X, F)
    <2> HIDE DEF F
    <2> QED  BY <1>1, Minimal
  <1>3. X \subseteq S /\ SumFunctionOnSet(f, X) \notin Int /\ IsFiniteSet(X)
    BY <1>2, FS_Subset DEF IsMinimal
  <1>4. X # {}  BY <1>3, SumEmpty
  <1>5. Pick(X) \in X  BY <1>4, PickIn
  <1> DEFINE Y == X \ {Pick(X)}
  <1>6. Y \notin F  BY <1>2, <1>5 DEF IsMinimal
  <1>7. SumFunctionOnSet(f, Y) \in Int  BY <1>3, <1>6
  <1>8. SumFunctionOnSet(f, X) = f[Pick(X)] + SumFunctionOnSet(f, Y)  BY <1>3, <1>4, SumPick
  <1>9. f[Pick(X)] \in Int  BY <1>3, <1>5
  <1> QED  BY <1>3, <1>7, <1>8, <1>9

\* The order does not matter: any element may be the first.
LEMMA AddOne ==
  ASSUME NEW f, NEW S, IsFiniteSet(S), \A x \in S : f[x] \in Int, NEW x \in S
  PROVE  SumFunctionOnSet(f, S) = f[x] + SumFunctionOnSet(f, S \ {x})
  <1> DEFINE Ok(T) == \A y \in T : SumFunctionOnSet(f, T) = f[y] + SumFunctionOnSet(f, T \ {y})
             F == {T \in SUBSET S : ~Ok(T)}
  <1> SUFFICES ASSUME F # {} PROVE FALSE  OBVIOUS
  <1>1. F \in Families(S)  BY DEF Families
  <1>2. PICK X : IsMinimal(X, F)
    <2> HIDE DEF F
    <2> QED  BY <1>1, Minimal
  <1>3. X \subseteq S /\ ~Ok(X) /\ IsFiniteSet(X)  BY <1>2, FS_Subset DEF IsMinimal
  <1>4. PICK y \in X : SumFunctionOnSet(f, X) # f[y] + SumFunctionOnSet(f, X \ {y})  BY <1>3
  <1> DEFINE p == Pick(X)
  <1>5. p \in X  BY <1>4, PickIn
  <1> HIDE DEF p
  <1>6. SumFunctionOnSet(f, X) = f[p] + SumFunctionOnSet(f, X \ {p})  BY <1>3, <1>4, SumPick DEF p
  <1>7. p # y  BY <1>4, <1>6
  <1> DEFINE XP == X \ {p}
             XY == X \ {y}
             Z == X \ {p, y}
  <1>8. XP \subseteq S /\ XY \subseteq S /\ XP # X /\ XY # X /\ XP \subseteq X /\ XY \subseteq X
    BY <1>3, <1>5
  <1>9. Ok(XP) /\ Ok(XY)
    <2> HIDE DEF XP, XY, Ok
    <2> QED  BY <1>2, <1>8 DEF IsMinimal
  <1>10. XP \ {y} = Z /\ XY \ {p} = Z /\ y \in XP /\ p \in XY  BY <1>5, <1>7
  <1>11. SumFunctionOnSet(f, XP) = f[y] + SumFunctionOnSet(f, Z)
    <2> HIDE DEF XP, XY, Z
    <2> QED  BY <1>9, <1>10
  <1>12. SumFunctionOnSet(f, XY) = f[p] + SumFunctionOnSet(f, Z)
    <2> HIDE DEF XP, XY, Z
    <2> QED  BY <1>9, <1>10
  <1>13. SumFunctionOnSet(f, Z) \in Int
    <2>1. IsFiniteSet(Z) /\ \A z \in Z : f[z] \in Int  BY <1>3, FS_Subset
    <2> HIDE DEF Z
    <2> QED  BY <2>1, SumInt
  <1>14. f[p] \in Int /\ f[y] \in Int  BY <1>3, <1>5
  <1> HIDE DEF XP, XY, Z
  <1>15. SumFunctionOnSet(f, X) = f[p] + (f[y] + SumFunctionOnSet(f, Z))  BY <1>6, <1>11 DEF XP
  <1>16. SumFunctionOnSet(f, XY) = f[p] + SumFunctionOnSet(f, Z)  BY <1>12
  <1> QED  BY <1>4, <1>13, <1>14, <1>15, <1>16 DEF XY

\* Only the values on the set count.
LEMMA SumSame ==
  ASSUME NEW f, NEW g, NEW S, IsFiniteSet(S), \A x \in S : f[x] = g[x]
  PROVE  SumFunctionOnSet(f, S) = SumFunctionOnSet(g, S)
  <1> DEFINE F == {T \in SUBSET S : SumFunctionOnSet(f, T) # SumFunctionOnSet(g, T)}
  <1> SUFFICES ASSUME F # {} PROVE FALSE  OBVIOUS
  <1>1. F \in Families(S)  BY DEF Families
  <1>2. PICK X : IsMinimal(X, F)
    <2> HIDE DEF F
    <2> QED  BY <1>1, Minimal
  <1>3. X \subseteq S /\ SumFunctionOnSet(f, X) # SumFunctionOnSet(g, X) /\ IsFiniteSet(X)
    BY <1>2, FS_Subset DEF IsMinimal
  <1>4. X # {}  BY <1>3, SumEmpty
  <1>5. Pick(X) \in X  BY <1>4, PickIn
  <1> DEFINE Y == X \ {Pick(X)}
  <1>6. Y \notin F  BY <1>2, <1>5 DEF IsMinimal
  <1>7. SumFunctionOnSet(f, Y) = SumFunctionOnSet(g, Y)  BY <1>3, <1>6
  <1>8. /\ SumFunctionOnSet(f, X) = f[Pick(X)] + SumFunctionOnSet(f, Y)
        /\ SumFunctionOnSet(g, X) = g[Pick(X)] + SumFunctionOnSet(g, Y)
    BY <1>3, <1>4, SumPick
  <1>9. f[Pick(X)] = g[Pick(X)]  BY <1>3, <1>5
  <1> QED  BY <1>3, <1>7, <1>8, <1>9

\* A value that changes changes the sum by as much.
LEMMA SumChange ==
  ASSUME NEW f, NEW g, NEW S, IsFiniteSet(S), NEW x \in S,
         \A y \in S : f[y] \in Int /\ g[y] \in Int,
         \A y \in S \ {x} : f[y] = g[y]
  PROVE  SumFunctionOnSet(g, S) = SumFunctionOnSet(f, S) - f[x] + g[x]
  <1> DEFINE T == S \ {x}
  <1>1. IsFiniteSet(T) /\ \A y \in T : f[y] = g[y] /\ f[y] \in Int  BY FS_Subset
  <1>2. SumFunctionOnSet(f, S) = f[x] + SumFunctionOnSet(f, T)  BY AddOne
  <1>3. SumFunctionOnSet(g, S) = g[x] + SumFunctionOnSet(g, T)  BY AddOne
  <1> HIDE DEF T
  <1>4. SumFunctionOnSet(f, T) = SumFunctionOnSet(g, T)  BY <1>1, SumSame
  <1>5. SumFunctionOnSet(f, T) \in Int  BY <1>1, SumInt
  <1>6. f[x] \in Int /\ g[x] \in Int  OBVIOUS
  <1> QED  BY <1>2, <1>3, <1>4, <1>5, <1>6

\* Nothing but zeros.
LEMMA SumZero ==
  ASSUME NEW f, NEW S, IsFiniteSet(S), \A x \in S : f[x] = 0
  PROVE  SumFunctionOnSet(f, S) = 0
  <1> DEFINE F == {T \in SUBSET S : SumFunctionOnSet(f, T) # 0}
  <1> SUFFICES ASSUME F # {} PROVE FALSE  OBVIOUS
  <1>1. F \in Families(S)  BY DEF Families
  <1>2. PICK X : IsMinimal(X, F)
    <2> HIDE DEF F
    <2> QED  BY <1>1, Minimal
  <1>3. X \subseteq S /\ SumFunctionOnSet(f, X) # 0 /\ IsFiniteSet(X)
    BY <1>2, FS_Subset DEF IsMinimal
  <1>4. X # {}  BY <1>3, SumEmpty
  <1>5. Pick(X) \in X  BY <1>4, PickIn
  <1> DEFINE Y == X \ {Pick(X)}
  <1>6. Y \notin F  BY <1>2, <1>5 DEF IsMinimal
  <1>7. SumFunctionOnSet(f, Y) = 0  BY <1>3, <1>6
  <1>8. SumFunctionOnSet(f, X) = f[Pick(X)] + SumFunctionOnSet(f, Y)  BY <1>3, <1>4, SumPick
  <1>9. f[Pick(X)] = 0  BY <1>3, <1>5
  <1> QED  BY <1>3, <1>7, <1>8, <1>9

LEMMA FiniteImage ==
  ASSUME NEW h, NEW S, IsFiniteSet(S)
  PROVE  IsFiniteSet({h[x] : x \in S})
  <1> DEFINE T == {h[x] : x \in S}
             k == [x \in S |-> h[x]]
  <1>1. k \in Surjection(S, T)  BY DEF Surjection
  <1> HIDE DEF T, k
  <1>2. IsFiniteSet(T)  BY <1>1, FS_Surjection
  <1> QED  BY <1>2 DEF T

\* On S, g has the integers that f has on T, under the names that h gives.
Renames(g, S, f, T, h) ==
  /\ \A x \in S : g[x] \in Int /\ h[x] \in T /\ g[x] = f[h[x]]
  /\ \A x, y \in S : h[x] = h[y] => x = y
  /\ \A z \in T : \E x \in S : z = h[x]

\* The same values under other names.
LEMMA SumImage ==
  ASSUME NEW f, NEW g, NEW h, NEW S, NEW T, IsFiniteSet(S), Renames(g, S, f, T, h)
  PROVE  SumFunctionOnSet(g, S) = SumFunctionOnSet(f, T)
  <1> DEFINE Im(U) == {h[x] : x \in U}
             F == {U \in SUBSET S : SumFunctionOnSet(g, U) # SumFunctionOnSet(f, Im(U))}
  <1> USE DEF Renames
  <1>0. Im(S) = T  OBVIOUS
  <1> SUFFICES ASSUME F # {} PROVE FALSE
    <2>1. F = {} => SumFunctionOnSet(g, S) = SumFunctionOnSet(f, Im(S))
      <3> HIDE DEF Im
      <3> QED  OBVIOUS
    <2> HIDE DEF Im, F
    <2> QED  BY <1>0, <2>1
  <1>1. F \in Families(S)  BY DEF Families
  <1>2. PICK X : IsMinimal(X, F)
    <2> HIDE DEF F
    <2> QED  BY <1>1, Minimal
  <1>3. /\ X \subseteq S /\ IsFiniteSet(X)
        /\ SumFunctionOnSet(g, X) # SumFunctionOnSet(f, Im(X))
    BY <1>2, FS_Subset DEF IsMinimal
  <1>4. X # {}
    <2>1. Im({}) = {}  OBVIOUS
    <2> HIDE DEF Im
    <2> QED  BY <1>3, <2>1, SumEmpty
  <1>5. PICK p : p \in X  BY <1>4
  <1> DEFINE Y == X \ {p}
  <1>6. Y \notin F
    <2>1. Y \subseteq X /\ Y # X  BY <1>5
    <2> HIDE DEF F, Y
    <2> QED  BY <1>2, <2>1 DEF IsMinimal
  <1>7. SumFunctionOnSet(g, Y) = SumFunctionOnSet(f, Im(Y))
    <2>1. Y \in SUBSET S  BY <1>3
    <2> HIDE DEF Im, Y
    <2> QED  BY <1>6, <2>1
  <1>8. SumFunctionOnSet(g, X) = g[p] + SumFunctionOnSet(g, Y)
    <2>1. \A x \in X : g[x] \in Int  BY <1>3
    <2> QED  BY <1>3, <1>5, <2>1, AddOne
  <1>9. SumFunctionOnSet(f, Im(X)) = f[h[p]] + SumFunctionOnSet(f, Im(X) \ {h[p]})
    <2>1. h[p] \in Im(X)  BY <1>5
    <2>2. \A y \in Im(X) : f[y] \in Int  BY <1>3
    <2>3. IsFiniteSet(Im(X))  BY <1>3, FiniteImage
    <2> HIDE DEF Im
    <2> QED  BY <2>1, <2>2, <2>3, AddOne
  <1>10. Im(X) \ {h[p]} = Im(Y)  BY <1>3, <1>5
  <1>11. g[p] = f[h[p]]  BY <1>3, <1>5
  <1> HIDE DEF Im, Y
  <1> QED  BY <1>3, <1>7, <1>8, <1>9, <1>10, <1>11

\* Two sets without a common element.
LEMMA SumUnion ==
  ASSUME NEW f, NEW S, NEW T, IsFiniteSet(S), IsFiniteSet(T), S \cap T = {},
         \A x \in S \cup T : f[x] \in Int
  PROVE  SumFunctionOnSet(f, S \cup T) = SumFunctionOnSet(f, S) + SumFunctionOnSet(f, T)
  <1> DEFINE Ok(U) == SumFunctionOnSet(f, S \cup U) = SumFunctionOnSet(f, S) + SumFunctionOnSet(f, U)
             F == {U \in SUBSET T : ~Ok(U)}
  <1> SUFFICES ASSUME F # {} PROVE FALSE  OBVIOUS
  <1>1. F \in Families(T)  BY DEF Families
  <1>2. PICK X : IsMinimal(X, F)
    <2> HIDE DEF F
    <2> QED  BY <1>1, Minimal
  <1>3. X \subseteq T /\ ~Ok(X) /\ IsFiniteSet(X)  BY <1>2, FS_Subset DEF IsMinimal
  <1>4. SumFunctionOnSet(f, S) \in Int  BY SumInt
  <1>5. X # {}
    <2>1. S \cup {} = S  OBVIOUS
    <2>2. Ok({})  BY <1>4, <2>1, SumEmpty
    <2> HIDE DEF Ok
    <2> QED  BY <1>3, <2>2
  <1>6. PICK p : p \in X  BY <1>5
  <1> DEFINE Y == X \ {p}
  <1>7. Ok(Y)
    <2>1. Y \subseteq X /\ Y # X /\ Y \subseteq T  BY <1>3, <1>6
    <2> HIDE DEF Ok, Y
    <2> QED  BY <1>2, <2>1 DEF IsMinimal
  <1>8. SumFunctionOnSet(f, X) = f[p] + SumFunctionOnSet(f, Y)
    <2>1. \A x \in X : f[x] \in Int  BY <1>3
    <2> QED  BY <1>3, <1>6, <2>1, AddOne
  <1>9. SumFunctionOnSet(f, S \cup X) = f[p] + SumFunctionOnSet(f, S \cup Y)
    <2> DEFINE Z == S \cup X
    <2>1. \A x \in Z : f[x] \in Int  BY <1>3
    <2>2. IsFiniteSet(Z)  BY <1>3, FS_Union
    <2>3. p \in Z /\ Z \ {p} = S \cup Y  BY <1>3, <1>6
    <2> HIDE DEF Z
    <2>4. SumFunctionOnSet(f, Z) = f[p] + SumFunctionOnSet(f, S \cup Y)  BY <2>1, <2>2, <2>3, AddOne
    <2> QED  BY <2>4 DEF Z
  <1>10. SumFunctionOnSet(f, Y) \in Int
    <2>1. IsFiniteSet(Y) /\ \A x \in Y : f[x] \in Int  BY <1>3, FS_Subset
    <2> HIDE DEF Y
    <2> QED  BY <2>1, SumInt
  <1>11. f[p] \in Int  BY <1>3, <1>6
  <1> HIDE DEF Y
  <1> QED  BY <1>3, <1>4, <1>7, <1>8, <1>9, <1>10, <1>11

-------------------------------------------------------------------------------
(* Sums of sequences.                                                      *)

\* The sequences of this section are of integers.
LEMMA SumOfSequence ==
  ASSUME NEW s \in Seq(Int)
  PROVE  /\ SumFunction(s) = SumFunctionOnSet(s, 1 .. Len(s))
         /\ IsFiniteSet(1 .. Len(s))
         /\ \A i \in 1 .. Len(s) : s[i] \in Int
         /\ SumFunction(s) \in Int
  <1>1. DOMAIN s = 1 .. Len(s) /\ Len(s) \in Nat  OBVIOUS
  <1>2. SumFunction(s) = SumFunctionOnSet(s, 1 .. Len(s))  BY <1>1 DEF SumFunction
  <1>3. IsFiniteSet(1 .. Len(s))  BY <1>1, FS_Interval
  <1>4. \A i \in 1 .. Len(s) : s[i] \in Int  OBVIOUS
  <1> QED  BY <1>2, <1>3, <1>4, SumInt

Parts(a, b, c) ==
  /\ Len(c) = Len(a) + Len(b)
  /\ \A n \in 1 .. Len(a) : c[n] = a[n]
  /\ \A n \in 1 .. Len(b) : c[n + Len(a)] = b[n]

\* A sequence that begins as a and goes on as b is a followed by b.
LEMMA TwoParts ==
  ASSUME NEW a \in Seq(Int), NEW b \in Seq(Int), NEW c \in Seq(Int), Parts(a, b, c)
  PROVE  c = a \o b
  <1> USE DEF Parts
  <1>1. ASSUME NEW n \in 1 .. Len(c)  PROVE c[n] = (a \o b)[n]
    <2>1. CASE n <= Len(a)  BY <2>1
    <2>2. CASE n > Len(a)
      <3>1. n - Len(a) \in 1 .. Len(b) /\ n = (n - Len(a)) + Len(a)  BY <2>2
      <3>2. c[n] = b[n - Len(a)]  BY <3>1
      <3>3. (a \o b)[n] = b[n - Len(a)]  BY <2>2
      <3> QED  BY <3>2, <3>3
    <2> QED  BY <2>1, <2>2
  <1>2. a \o b \in Seq(Int) /\ Len(a \o b) = Len(c)  OBVIOUS
  <1>3. \A n \in 1 .. Len(c) : c[n] = (a \o b)[n]  BY <1>1
  <1> HIDE DEF Parts
  <1> QED  BY <1>2, <1>3, SeqEqual

LEMMA SumNone ==
  SumFunction(<<>>) = 0
  <1>1. DOMAIN <<>> = {}  OBVIOUS
  <1> QED  BY <1>1, SumEmpty DEF SumFunction

\* Adding up a sequence is adding up its two halves.
LEMMA SumConcat ==
  ASSUME NEW s \in Seq(Int), NEW t \in Seq(Int)
  PROVE  SumFunction(s \o t) = SumFunction(s) + SumFunction(t)
  <1> DEFINE u == s \o t
             h == [i \in 1 .. Len(t) |-> i + Len(s)]
             A == 1 .. Len(s)
             B == {h[i] : i \in 1 .. Len(t)}
  <1>1. u \in Seq(Int) /\ Len(u) = Len(s) + Len(t) /\ Len(s) \in Nat /\ Len(t) \in Nat  OBVIOUS
  <1>2. 1 .. Len(u) = A \cup B /\ A \cap B = {}
    <2>1. \A i \in 1 .. Len(u) : i \in A \/ (i - Len(s) \in 1 .. Len(t) /\ i = h[i - Len(s)])
      BY <1>1
    <2>2. \A i \in 1 .. Len(t) : h[i] \in 1 .. Len(u) /\ h[i] \notin A  BY <1>1
    <2>3. A \subseteq 1 .. Len(u)  BY <1>1
    <2> HIDE DEF u, h, A
    <2> QED  BY <2>1, <2>2, <2>3
  <1>3. \A i \in A : u[i] = s[i]  BY <1>1
  <1>4. \A i \in 1 .. Len(t) : t[i] = u[h[i]] /\ h[i] \in 1 .. Len(u)  BY <1>1
  <1>5. \A i, j \in 1 .. Len(t) : h[i] = h[j] => i = j  BY <1>1
  <1> HIDE DEF u, h
  <1>6. IsFiniteSet(1 .. Len(u)) /\ \A i \in 1 .. Len(u) : u[i] \in Int  BY <1>1, SumOfSequence
  <1>7. SumFunctionOnSet(t, 1 .. Len(t)) = SumFunctionOnSet(u, B)
    <2> DEFINE D == 1 .. Len(t)
    <2>1. IsFiniteSet(D)  BY SumOfSequence
    <2>2. \A i \in D : t[i] \in Int /\ h[i] \in B /\ t[i] = u[h[i]]  BY <1>4
    <2>3. \A i, j \in D : h[i] = h[j] => i = j  BY <1>5
    <2>4. \A z \in B : \E i \in D : z = h[i]  OBVIOUS
    <2> HIDE DEF B, D
    <2>5. Renames(t, D, u, B, h)  BY <2>2, <2>3, <2>4 DEF Renames
    <2>6. SumFunctionOnSet(t, D) = SumFunctionOnSet(u, B)  BY <2>1, <2>5, SumImage
    <2> QED  BY <2>6 DEF D
  <1>8. SumFunctionOnSet(s, A) = SumFunctionOnSet(u, A)
    <2>1. IsFiniteSet(A)  BY SumOfSequence
    <2> HIDE DEF A
    <2> QED  BY <1>3, <2>1, SumSame
  <1>9. SumFunctionOnSet(u, 1 .. Len(u)) = SumFunctionOnSet(u, A) + SumFunctionOnSet(u, B)
    <2>1. IsFiniteSet(A) /\ IsFiniteSet(B)  BY <1>2, <1>6, FS_Subset
    <2>2. \A x \in A \cup B : u[x] \in Int  BY <1>2, <1>6
    <2> HIDE DEF A, B
    <2> QED  BY <1>2, <2>1, <2>2, SumUnion
  <1> QED  BY <1>1, <1>7, <1>8, <1>9, SumOfSequence DEF u

LEMMA SumSingle ==
  ASSUME NEW n \in Int
  PROVE  SumFunction(<<n>>) = n
  <1> DEFINE s == <<n>>
  <1>1. s \in Seq(Int) /\ 1 .. Len(s) = {1} /\ s[1] = n /\ 1 \in {1} /\ {1} \ {1} = {}  OBVIOUS
  <1> HIDE DEF s
  <1>2. IsFiniteSet({1}) /\ \A x \in {1} : s[x] \in Int  BY <1>1, FS_Singleton
  <1>3. SumFunctionOnSet(s, {1}) = s[1] + SumFunctionOnSet(s, {})
    <2>1. SumFunctionOnSet(s, {1}) = s[1] + SumFunctionOnSet(s, {1} \ {1})  BY <1>1, <1>2, AddOne
    <2> QED  BY <1>1, <2>1
  <1>4. SumFunctionOnSet(s, {}) = 0  BY SumEmpty
  <1>5. SumFunction(s) = SumFunctionOnSet(s, {1})  BY <1>1, SumOfSequence
  <1>6. SumFunctionOnSet(s, {1}) = n  BY <1>1, <1>3, <1>4
  <1> QED  BY <1>5, <1>6 DEF s

LEMMA SumHeadTail ==
  ASSUME NEW s \in Seq(Int), s # <<>>
  PROVE  /\ SumFunction(s) = Head(s) + SumFunction(Tail(s))
         /\ Head(s) \in Int /\ SumFunction(Tail(s)) \in Int
  <1>1. Head(s) \in Int /\ Tail(s) \in Seq(Int) /\ <<Head(s)>> \in Seq(Int)  OBVIOUS
  <1>2. s = <<Head(s)>> \o Tail(s)  OBVIOUS
  <1>3. SumFunction(s) = SumFunction(<<Head(s)>>) + SumFunction(Tail(s))  BY <1>1, <1>2, SumConcat
  <1> QED  BY <1>1, <1>3, SumSingle, SumOfSequence

\* What adds nothing may be left out.
LEMMA SumOfPart ==
  ASSUME NEW f, NEW S, IsFiniteSet(S), NEW T, T \subseteq S,
         \A x \in S : f[x] \in Int, \A x \in S \ T : f[x] = 0
  PROVE  SumFunctionOnSet(f, S) = SumFunctionOnSet(f, T)
  <1> DEFINE R == S \ T
  <1>1. IsFiniteSet(T) /\ IsFiniteSet(R)  BY FS_Subset
  <1>2. T \cup R = S /\ T \cap R = {} /\ \A x \in R : f[x] = 0  OBVIOUS
  <1>0. \A x \in T \cup R : f[x] \in Int  OBVIOUS
  <1> HIDE DEF R
  <1>3. SumFunctionOnSet(f, R) = 0  BY <1>1, <1>2, SumZero
  <1>4. SumFunctionOnSet(f, T) \in Int  BY <1>1, SumInt
  <1>5. SumFunctionOnSet(f, T \cup R) = SumFunctionOnSet(f, T) + SumFunctionOnSet(f, R)
    BY <1>0, <1>1, <1>2, SumUnion
  <1>6. SumFunctionOnSet(f, S) = SumFunctionOnSet(f, T) + SumFunctionOnSet(f, R)
    BY <1>2, <1>5
  <1> QED  BY <1>3, <1>4, <1>6


\* A sum of natural numbers is one, and each of them is at most the sum.
LEMMA SumNat ==
  ASSUME NEW f, NEW S, IsFiniteSet(S), \A x \in S : f[x] \in Nat
  PROVE  SumFunctionOnSet(f, S) \in Nat
  <1> DEFINE F == {T \in SUBSET S : SumFunctionOnSet(f, T) \notin Nat}
  <1> SUFFICES ASSUME F # {} PROVE FALSE  OBVIOUS
  <1>1. F \in Families(S)  BY DEF Families
  <1>2. PICK X : IsMinimal(X, F)
    <2> HIDE DEF F
    <2> QED  BY <1>1, Minimal
  <1>3. X \subseteq S /\ SumFunctionOnSet(f, X) \notin Nat /\ IsFiniteSet(X)
    BY <1>2, FS_Subset DEF IsMinimal
  <1>4. X # {}  BY <1>3, SumEmpty
  <1> DEFINE Y == X \ {Pick(X)}
  <1>5. Pick(X) \in X  BY <1>4, PickIn
  <1>6. Y \notin F  BY <1>2, <1>5 DEF IsMinimal
  <1>7. SumFunctionOnSet(f, Y) \in Nat  BY <1>3, <1>6
  <1>8. SumFunctionOnSet(f, X) = f[Pick(X)] + SumFunctionOnSet(f, Y)  BY <1>3, <1>4, SumPick
  <1>9. f[Pick(X)] \in Nat  BY <1>3, <1>5
  <1> QED  BY <1>3, <1>7, <1>8, <1>9

LEMMA SumAtLeast ==
  ASSUME NEW f, NEW S, IsFiniteSet(S), \A x \in S : f[x] \in Nat, NEW x \in S
  PROVE  f[x] \in Nat /\ SumFunctionOnSet(f, S) \in Nat /\ f[x] <= SumFunctionOnSet(f, S)
  <1> DEFINE T == S \ {x}
  <1>1. IsFiniteSet(T) /\ (\A y \in T : f[y] \in Nat) /\ \A y \in S : f[y] \in Int  BY FS_Subset
  <1>2. SumFunctionOnSet(f, S) = f[x] + SumFunctionOnSet(f, T)  BY <1>1, AddOne
  <1>3. SumFunctionOnSet(f, T) \in Nat /\ SumFunctionOnSet(f, S) \in Nat /\ f[x] \in Nat
    BY <1>1, SumNat
  <1> HIDE DEF T
  <1> QED  BY <1>2, <1>3

\* A sum of opposites.
LEMMA SumOpposite ==
  ASSUME NEW f, NEW g, NEW S, IsFiniteSet(S), \A x \in S : f[x] \in Int /\ g[x] = -f[x]
  PROVE  SumFunctionOnSet(g, S) = -SumFunctionOnSet(f, S)
  <1> DEFINE F == {T \in SUBSET S : SumFunctionOnSet(g, T) # -SumFunctionOnSet(f, T)}
  <1> SUFFICES ASSUME F # {} PROVE FALSE  OBVIOUS
  <1>1. F \in Families(S)  BY DEF Families
  <1>2. PICK X : IsMinimal(X, F)
    <2> HIDE DEF F
    <2> QED  BY <1>1, Minimal
  <1>3. X \subseteq S /\ SumFunctionOnSet(g, X) # -SumFunctionOnSet(f, X) /\ IsFiniteSet(X)
    BY <1>2, FS_Subset DEF IsMinimal
  <1>4. X # {}  BY <1>3, SumEmpty
  <1> DEFINE Y == X \ {Pick(X)}
  <1>5. Pick(X) \in X  BY <1>4, PickIn
  <1>6. Y \notin F  BY <1>2, <1>5 DEF IsMinimal
  <1>7. SumFunctionOnSet(g, Y) = -SumFunctionOnSet(f, Y)  BY <1>3, <1>6
  <1>8. /\ SumFunctionOnSet(f, X) = f[Pick(X)] + SumFunctionOnSet(f, Y)
        /\ SumFunctionOnSet(g, X) = g[Pick(X)] + SumFunctionOnSet(g, Y)
    BY <1>3, <1>4, SumPick
  <1>9. f[Pick(X)] \in Int /\ g[Pick(X)] = -f[Pick(X)]  BY <1>3, <1>5
  <1>10. SumFunctionOnSet(f, Y) \in Int
    <2>1. IsFiniteSet(Y) /\ \A x \in Y : f[x] \in Int  BY <1>3, FS_Subset
    <2> HIDE DEF Y
    <2> QED  BY <2>1, SumInt
  <1> QED  BY <1>3, <1>7, <1>8, <1>9, <1>10
=================================================================================
