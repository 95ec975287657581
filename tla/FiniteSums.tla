----------------------------- MODULE FiniteSums -----------------------------
(***************************************************************************)
(* Lemmas about the sum of a function over a finite set, as the community  *)
(* modules define it, and about the largest of some numbers.  Induction on *)
(* a finite set is done by its least counterexample: no fact here takes an *)
(* operator.                                                               *)
(***************************************************************************)
EXTENDS Integers, FiniteSets, FiniteSetsExt, FiniteSetTheorems, TLAPS

\* A set of numbers that has 0, and with each number the next, has all.
LEMMA NatSet ==
  ASSUME NEW G, 0 \in G, \A n \in Nat : n \in G => n + 1 \in G
  PROVE  Nat \subseteq G
<1> SUFFICES ASSUME Nat \ G # {} PROVE FALSE
  OBVIOUS
<1>1. \E x \in Nat \ G : \A y \in Nat \ G : ~(y < x)
  <2>1. PICK x \in Nat \ G : \A y \in Nat \ G : <<y, x>> \notin OpToRel(<, Nat)
    BY NatLessThanWellFounded, WFMin
  <2> QED
    BY <2>1 DEF OpToRel
<1>2. PICK x \in Nat \ G : \A y \in Nat \ G : ~(y < x)
  BY <1>1
<1>3. x # 0
  OBVIOUS
<1>4. x - 1 \in Nat /\ x - 1 < x /\ (x - 1) + 1 = x
  BY <1>3
<1> QED
  BY <1>2, <1>4

\* Some element of a set: the next that a sum takes.
Pick(s) == CHOOSE x \in s : TRUE

\* it is the sum of f over each set of a family F that is closed under taking
\* the next element away.
SumsOver(f, F, it) ==
  it = [s \in F |-> IF s = {} THEN 0 ELSE f[Pick(s)] + it[s \ {Pick(s)}]]

\* The library's sum is the value of such a function at the whole set.
LEMMA SumIsSums ==
  ASSUME NEW f, NEW D
  PROVE  SumFunctionOnSet(f, D) = (CHOOSE it : SumsOver(f, SUBSET D, it))[D]
BY DEF SumFunctionOnSet, FoldFunctionOnSet, MapThenFoldSet, SumsOver, Pick

\* The next element is one of the set's.
LEMMA PickIn ==
  ASSUME NEW s, s # {}
  PROVE  Pick(s) \in s
BY DEF Pick

\* Of some subsets of a finite set, one is such that none with an element less
\* is among them.
LEMMA LeastSet ==
  ASSUME NEW D, IsFiniteSet(D), NEW Bad \in SUBSET SUBSET D, Bad # {}
  PROVE  \E s \in Bad : \A x \in s : s \ {x} \notin Bad
<1>1. IsWellFoundedOn(StrictSubsetOrdering(D), FiniteSubsetsOf(D))
  BY FS_StrictSubsetOrderingWellFounded
<1>2. Bad \subseteq FiniteSubsetsOf(D)
  BY FS_Subset DEF FiniteSubsetsOf
<1>3. PICK s \in Bad : \A t \in Bad : <<t, s>> \notin StrictSubsetOrdering(D)
  BY <1>1, <1>2, WFMin
<1>4. \A x \in s : s \ {x} # s /\ s \ {x} \subseteq s /\ s \in SUBSET D
  OBVIOUS
<1> QED
  BY <1>3, <1>4 DEF StrictSubsetOrdering

\* The subsets of D with at most n elements.
UpTo(D, n) == {s \in SUBSET D : Cardinality(s) <= n}

\* There is such a function, by induction on the size of the sets.
LEMMA SumsExist ==
  ASSUME NEW E, NEW f \in [E -> Int], NEW D \in SUBSET E, IsFiniteSet(D)
  PROVE  \E it \in [SUBSET D -> Int] : SumsOver(f, SUBSET D, it)
<1> DEFINE G == {n \in Nat : \E it \in [UpTo(D, n) -> Int] : SumsOver(f, UpTo(D, n), it)}
<1>1. \A s \in SUBSET D : IsFiniteSet(s) /\ Cardinality(s) \in Nat
                         /\ Cardinality(s) <= Cardinality(D) /\ (Cardinality(s) = 0 <=> s = {})
  BY FS_Subset, FS_CardinalityType, FS_EmptySet
<1>2. 0 \in G
  <2> DEFINE it == [s \in UpTo(D, 0) |-> 0]
  <2>1. \A s \in UpTo(D, 0) : s = {}
    BY <1>1 DEF UpTo
  <2>2. it = [s \in UpTo(D, 0) |-> IF s = {} THEN 0 ELSE f[Pick(s)] + it[s \ {Pick(s)}]]
    BY <2>1
  <2>3. it \in [UpTo(D, 0) -> Int]
    OBVIOUS
  <2> QED
    BY <2>2, <2>3 DEF SumsOver
<1>3. ASSUME NEW n \in Nat, n \in G PROVE n + 1 \in G
  <2>1. PICK it \in [UpTo(D, n) -> Int] : SumsOver(f, UpTo(D, n), it)
    BY <1>3
  <2> DEFINE up == [s \in UpTo(D, n + 1) |->
                      IF s = {} THEN 0 ELSE f[Pick(s)] + it[s \ {Pick(s)}]]
  <2>2. ASSUME NEW s \in UpTo(D, n + 1), s # {}
        PROVE  Pick(s) \in E /\ s \ {Pick(s)} \in UpTo(D, n)
    <3>1. Pick(s) \in s
      BY <2>2, PickIn
    <3>2. Cardinality(s \ {Pick(s)}) = Cardinality(s) - 1
      BY <1>1, <3>1, FS_RemoveElement DEF UpTo
    <3> QED
      BY <1>1, <3>1, <3>2 DEF UpTo
  <2>3. up \in [UpTo(D, n + 1) -> Int]
    BY <2>2
  <2>4. \A s \in UpTo(D, n) : s \in UpTo(D, n + 1) /\ it[s] = up[s]
    <3>1. \A s \in UpTo(D, n) : it[s] = IF s = {} THEN 0 ELSE f[Pick(s)] + it[s \ {Pick(s)}]
      BY <2>1 DEF SumsOver
    <3>2. \A s \in UpTo(D, n) : s \in UpTo(D, n + 1)
      BY <1>1 DEF UpTo
    <3> QED
      BY <3>1, <3>2
  <2>5. \A s \in UpTo(D, n + 1) : s # {} => it[s \ {Pick(s)}] = up[s \ {Pick(s)}]
    BY <2>2, <2>4
  <2>6. up = [s \in UpTo(D, n + 1) |->
                IF s = {} THEN 0 ELSE f[Pick(s)] + up[s \ {Pick(s)}]]
    BY <2>5
  <2>7. SumsOver(f, UpTo(D, n + 1), up)
    BY <2>6 DEF SumsOver
  <2> HIDE DEF up
  <2> QED
    BY <2>3, <2>7
<1>4. Cardinality(D) \in G
  <2>1. \A n \in Nat : n \in G => n + 1 \in G
    BY <1>3
  <2> HIDE DEF G
  <2>2. Nat \subseteq G
    BY <1>2, <2>1, NatSet
  <2> QED
    BY <1>1, <2>2
<1>5. UpTo(D, Cardinality(D)) = SUBSET D
  BY <1>1 DEF UpTo
<1> QED
  BY <1>4, <1>5

\* What the sum is made of.
IsSum(f, D, it) ==
  /\ it \in [SUBSET D -> Int]
  /\ SumFunctionOnSet(f, D) = it[D]
  /\ \A s \in SUBSET D : it[s] = IF s = {} THEN 0 ELSE f[Pick(s)] + it[s \ {Pick(s)}]

\* There is a function whose value at each subset is the sum over it.
LEMMA SumsAre ==
  ASSUME NEW E, NEW f \in [E -> Int], NEW D \in SUBSET E, IsFiniteSet(D)
  PROVE  \E it : IsSum(f, D, it)
<1> DEFINE it == CHOOSE i : SumsOver(f, SUBSET D, i)
<1>1. SumsOver(f, SUBSET D, it)
  BY SumsExist
<1>2. SumFunctionOnSet(f, D) = it[D]
  BY SumIsSums
<1> HIDE DEF it
<1>3. \A s \in SUBSET D : it[s] = IF s = {} THEN 0 ELSE f[Pick(s)] + it[s \ {Pick(s)}]
  BY <1>1 DEF SumsOver
<1>4. DOMAIN it = SUBSET D /\ it = [s \in SUBSET D |-> it[s]]
  BY <1>1 DEF SumsOver
<1>5. \A s \in SUBSET D : it[s] \in Int
  <2> DEFINE Bad == {s \in SUBSET D : it[s] \notin Int}
  <2> SUFFICES ASSUME Bad # {} PROVE FALSE
    OBVIOUS
  <2>1. PICK s \in Bad : \A x \in s : s \ {x} \notin Bad
    BY LeastSet
  <2>2. s # {}
    <3>1. it[{}] = 0
      BY <1>3
    <3> QED
      BY <3>1
  <2>3. Pick(s) \in s /\ it[s \ {Pick(s)}] \in Int
    BY <2>1, <2>2, PickIn
  <2>4. s \in SUBSET D /\ it[s] \notin Int /\ f[Pick(s)] \in Int
    BY <2>1, <2>3
  <2>5. it[s] = f[Pick(s)] + it[s \ {Pick(s)}]
    BY <1>3, <2>2, <2>4
  <2> QED
    BY <2>3, <2>4, <2>5
<1>6. IsSum(f, D, it)
  BY <1>2, <1>3, <1>4, <1>5 DEF IsSum
<1> QED
  BY <1>6

\* A sum is a number, and the sum over nothing is 0.
LEMMA SumInt ==
  ASSUME NEW E, NEW f \in [E -> Int], NEW D \in SUBSET E, IsFiniteSet(D)
  PROVE  SumFunctionOnSet(f, D) \in Int /\ (D = {} => SumFunctionOnSet(f, D) = 0)
<1>1. PICK i : IsSum(f, D, i)
  BY SumsAre
<1> QED
  BY <1>1 DEF IsSum

LEMMA SumNat ==
  ASSUME NEW E, NEW f \in [E -> Nat], NEW D \in SUBSET E, IsFiniteSet(D)
  PROVE  SumFunctionOnSet(f, D) \in Nat /\ (D = {} => SumFunctionOnSet(f, D) = 0)
<1>0. f \in [E -> Int]
  OBVIOUS
<1>1. PICK i : IsSum(f, D, i)
  BY <1>0, SumsAre
<1> DEFINE Bad == {s \in SUBSET D : i[s] \notin Nat}
<1>2. ASSUME Bad # {} PROVE FALSE
  <2>1. Bad \in SUBSET SUBSET D
    OBVIOUS
  <2>2. PICK s \in Bad : \A x \in s : s \ {x} \notin Bad
    <3> HIDE DEF Bad
    <3> QED
      BY <1>2, <2>1, LeastSet
  <2>3. s \in SUBSET D /\ i[s] \notin Nat
    BY <2>2
  <2>4. s # {}
    <3>1. i[{}] = 0
      BY <1>1 DEF IsSum
    <3> QED
      BY <2>3, <3>1
  <2>5. Pick(s) \in s /\ i[s \ {Pick(s)}] \in Nat /\ f[Pick(s)] \in Nat
    BY <2>2, <2>4, PickIn
  <2>6. i[s] = f[Pick(s)] + i[s \ {Pick(s)}]
    BY <1>1, <2>3, <2>4 DEF IsSum
  <2> QED
    BY <2>3, <2>5, <2>6
<1>3. i[D] \in Nat
  BY <1>2
<1> QED
  BY <1>1, <1>3 DEF IsSum

\* A sum of zeros.
LEMMA SumZero ==
  ASSUME NEW E, NEW f \in [E -> Nat], NEW D \in SUBSET E, IsFiniteSet(D), \A x \in D : f[x] = 0
  PROVE  SumFunctionOnSet(f, D) = 0
<1>0. f \in [E -> Int]
  OBVIOUS
<1>1. PICK i : IsSum(f, D, i)
  BY <1>0, SumsAre
<1> DEFINE Bad == {s \in SUBSET D : i[s] # 0}
<1>2. ASSUME Bad # {} PROVE FALSE
  <2>1. Bad \in SUBSET SUBSET D
    OBVIOUS
  <2>2. PICK s \in Bad : \A x \in s : s \ {x} \notin Bad
    <3> HIDE DEF Bad
    <3> QED
      BY <1>2, <2>1, LeastSet
  <2>3. s # {}
    BY <1>1 DEF IsSum
  <2>4. Pick(s) \in s /\ i[s \ {Pick(s)}] = 0
    BY <2>2, <2>3, PickIn
  <2> QED
    BY <1>1, <2>3, <2>4 DEF IsSum
<1>3. i[D] = 0
  BY <1>2
<1> QED
  BY <1>1, <1>3 DEF IsSum

\* Functions that agree on a set have the same sum over it.
LEMMA IntSumSame ==
  ASSUME NEW E, NEW f \in [E -> Int], NEW F, NEW g \in [F -> Int],
         NEW D \in SUBSET E, D \subseteq F, IsFiniteSet(D), \A x \in D : f[x] = g[x]
  PROVE  SumFunctionOnSet(f, D) = SumFunctionOnSet(g, D)
<1>1. PICK i : IsSum(f, D, i)
  BY SumsAre
<1>2. PICK j : IsSum(g, D, j)
  <2>1. D \in SUBSET F
    OBVIOUS
  <2> QED
    BY <2>1, SumsAre
<1> DEFINE Bad == {s \in SUBSET D : i[s] # j[s]}
<1>3. ASSUME Bad # {} PROVE FALSE
  <2>1. Bad \in SUBSET SUBSET D
    OBVIOUS
  <2>2. PICK s \in Bad : \A x \in s : s \ {x} \notin Bad
    <3> HIDE DEF Bad
    <3> QED
      BY <1>3, <2>1, LeastSet
  <2>3. s # {}
    BY <1>1, <1>2 DEF IsSum
  <2>4. Pick(s) \in s /\ i[s \ {Pick(s)}] = j[s \ {Pick(s)}]
    BY <2>2, <2>3, PickIn
  <2> QED
    BY <1>1, <1>2, <2>3, <2>4 DEF IsSum
<1>4. i[D] = j[D]
  BY <1>3
<1> QED
  BY <1>1, <1>2, <1>4 DEF IsSum

\* The sum takes the next element out.
LEMMA SumUnfold ==
  ASSUME NEW E, NEW f \in [E -> Int], NEW D \in SUBSET E, IsFiniteSet(D), D # {}
  PROVE  SumFunctionOnSet(f, D) = f[Pick(D)] + SumFunctionOnSet(f, D \ {Pick(D)})
<1> DEFINE T == D \ {Pick(D)}
<1>1. PICK i : IsSum(f, D, i)
  BY SumsAre
<1>2. T \in SUBSET D /\ T \in SUBSET E /\ IsFiniteSet(T)
  BY FS_Subset
<1>3. PICK j : IsSum(f, T, j)
  BY <1>2, SumsAre
<1> DEFINE Bad == {s \in SUBSET T : i[s] # j[s]}
<1>4. ASSUME Bad # {} PROVE FALSE
  <2>1. Bad \in SUBSET SUBSET T
    OBVIOUS
  <2>2. PICK s \in Bad : \A x \in s : s \ {x} \notin Bad
    <3> HIDE DEF Bad, T
    <3> QED
      BY <1>2, <1>4, <2>1, LeastSet
  <2>3. s # {}
    BY <1>1, <1>2, <1>3 DEF IsSum
  <2>4. Pick(s) \in s /\ i[s \ {Pick(s)}] = j[s \ {Pick(s)}]
    BY <2>2, <2>3, PickIn
  <2>5. s \in SUBSET D /\ s \in SUBSET T
    BY <1>2
  <2> QED
    BY <1>1, <1>3, <2>3, <2>4, <2>5 DEF IsSum
<1>5. i[T] = j[T]
  BY <1>4
<1>6. i[D] = f[Pick(D)] + i[T]
  BY <1>1 DEF IsSum
<1> QED
  BY <1>1, <1>3, <1>5, <1>6 DEF IsSum

\* Any element can be taken out of a sum.
LEMMA IntSumRemove ==
  ASSUME NEW E, NEW f \in [E -> Int], NEW D \in SUBSET E, IsFiniteSet(D), NEW x \in D
  PROVE  SumFunctionOnSet(f, D) = f[x] + SumFunctionOnSet(f, D \ {x})
<1> DEFINE S(d) == SumFunctionOnSet(f, d)
           Bad == {d \in SUBSET D : \E y \in d : S(d) # f[y] + S(d \ {y})}
<1> SUFFICES ASSUME Bad # {} PROVE FALSE
  <2>1. D \notin Bad => S(D) = f[x] + S(D \ {x})
    OBVIOUS
  <2> QED
    BY <2>1
<1>1. PICK d \in Bad : \A y \in d : d \ {y} \notin Bad
  <2>1. Bad \in SUBSET SUBSET D
    OBVIOUS
  <2> HIDE DEF Bad
  <2> QED
    BY <2>1, LeastSet
<1>2. PICK y \in d : S(d) # f[y] + S(d \ {y})
  BY <1>1
<1> DEFINE p == Pick(d)
<1>3. p \in d /\ d \in SUBSET D /\ d \in SUBSET E /\ f[p] \in Int /\ f[y] \in Int
  BY PickIn
<1>4. \A t \in SUBSET d : t \in SUBSET E /\ IsFiniteSet(t) /\ S(t) \in Int
  BY <1>3, FS_Subset, SumInt
<1>5. S(d) = f[p] + S(d \ {p})
  BY <1>3, <1>4, SumUnfold
<1>6. y # p
  BY <1>2, <1>5
<1>7. S(d \ {p}) = f[y] + S((d \ {p}) \ {y})
  <2>1. d \ {p} \in SUBSET D /\ y \in d \ {p} /\ d \ {p} \notin Bad
    BY <1>1, <1>3, <1>6
  <2> QED
    BY <2>1
<1>8. S(d \ {y}) = f[p] + S((d \ {y}) \ {p})
  <2>1. d \ {y} \in SUBSET D /\ p \in d \ {y} /\ d \ {y} \notin Bad
    BY <1>1, <1>3, <1>6
  <2> QED
    BY <2>1
<1>9. (d \ {p}) \ {y} = (d \ {y}) \ {p} /\ S((d \ {p}) \ {y}) \in Int
  BY <1>4
<1> HIDE DEF p
<1>10. S(d) # f[y] + S(d \ {y})
  BY <1>2
<1>11. PICK a \in Int : S((d \ {p}) \ {y}) = a /\ S((d \ {y}) \ {p}) = a
  BY <1>9
<1>12. S(d) = f[p] + (f[y] + a) /\ S(d \ {y}) = f[p] + a
  BY <1>5, <1>7, <1>8, <1>11
<1> HIDE DEF S
<1> QED
  BY <1>3, <1>10, <1>12

\* The same for sums of natural numbers.
LEMMA SumSame ==
  ASSUME NEW E, NEW f \in [E -> Nat], NEW F, NEW g \in [F -> Nat],
         NEW D \in SUBSET E, D \subseteq F, IsFiniteSet(D), \A x \in D : f[x] = g[x]
  PROVE  SumFunctionOnSet(f, D) = SumFunctionOnSet(g, D)
<1>1. f \in [E -> Int] /\ g \in [F -> Int]
  OBVIOUS
<1> QED
  BY <1>1, IntSumSame

LEMMA SumRemove ==
  ASSUME NEW E, NEW f \in [E -> Nat], NEW D \in SUBSET E, IsFiniteSet(D), NEW x \in D
  PROVE  SumFunctionOnSet(f, D) = f[x] + SumFunctionOnSet(f, D \ {x})
<1>1. f \in [E -> Int]
  OBVIOUS
<1> QED
  BY <1>1, IntSumRemove

\* The sum over two sets that do not meet.
LEMMA IntSumUnion ==
  ASSUME NEW E, NEW f \in [E -> Int], NEW A \in SUBSET E, IsFiniteSet(A),
         NEW B \in SUBSET E, IsFiniteSet(B), A \intersect B = {}
  PROVE  SumFunctionOnSet(f, A \union B) = SumFunctionOnSet(f, A) + SumFunctionOnSet(f, B)
<1> DEFINE S(d) == SumFunctionOnSet(f, d)
           Sound(d) == S(A \union d) = S(A) + S(d)
           Bad == {d \in SUBSET B : ~Sound(d)}
<1> SUFFICES ASSUME Bad # {} PROVE FALSE
  <2>1. B \notin Bad => Sound(B)
    OBVIOUS
  <2> QED
    BY <2>1
<1>1. PICK d \in Bad : \A x \in d : d \ {x} \notin Bad
  <2>1. Bad \in SUBSET SUBSET B
    OBVIOUS
  <2> HIDE DEF Bad
  <2> QED
    BY <2>1, LeastSet
<1>2. \A e \in SUBSET B : e \in SUBSET E /\ IsFiniteSet(e) /\ A \union e \in SUBSET E
                          /\ IsFiniteSet(A \union e)
  BY FS_Subset, FS_Union
<1>3. d \in SUBSET B /\ ~Sound(d) /\ S(A) \in Int
  BY <1>1, SumInt
<1>4. d # {}
  <2>1. S({}) = 0 /\ A \union {} = A
    BY <1>2, SumInt
  <2>2. Sound({})
    <3>1. S(A \union {}) = S(A)
      BY <2>1
    <3> HIDE DEF S
    <3> QED
      BY <1>3, <2>1, <3>1
  <2> QED
    BY <1>3, <2>2
<1>5. PICK x \in d : TRUE
  BY <1>4
<1>6. Sound(d \ {x}) /\ S(d \ {x}) \in Int
  BY <1>1, <1>2, <1>5, SumInt
<1> DEFINE e == d \ {x}
           U == A \union d
<1>7. S(d) = f[x] + S(d \ {x})
  BY <1>2, <1>3, <1>5, IntSumRemove
<1>8. S(A \union d) = f[x] + S((A \union d) \ {x}) /\ f[x] \in Int
  <2>1. U \in SUBSET E /\ IsFiniteSet(U) /\ x \in U
    BY <1>2, <1>3, <1>5
  <2> HIDE DEF U
  <2>2. SumFunctionOnSet(f, U) = f[x] + SumFunctionOnSet(f, U \ {x})
    BY <2>1, IntSumRemove
  <2> QED
    BY <2>1, <2>2 DEF U
<1>9. (A \union d) \ {x} = A \union (d \ {x})
  BY <1>3, <1>5
<1>10. S(A \union d) = f[x] + S(A \union e) /\ S(A \union e) = S(A) + S(e)
       /\ S(d) = f[x] + S(e) /\ S(e) \in Int
  BY <1>6, <1>7, <1>8, <1>9
<1> HIDE DEF S, e
<1> QED
  BY <1>3, <1>8, <1>10

\* A sum over more is more.
LEMMA SumSubset ==
  ASSUME NEW E, NEW f \in [E -> Nat], NEW D \in SUBSET E, IsFiniteSet(D), NEW S \in SUBSET D
  PROVE  SumFunctionOnSet(f, S) <= SumFunctionOnSet(f, D)
<1> DEFINE T(d) == SumFunctionOnSet(f, d)
           Bad == {d \in SUBSET D : S \subseteq d /\ ~(T(S) <= T(d))}
<1>1. \A d \in SUBSET D : d \in SUBSET E /\ IsFiniteSet(d) /\ T(d) \in Nat
  BY FS_Subset, SumNat
<1> SUFFICES ASSUME Bad # {} PROVE FALSE
  <2>1. D \notin Bad => T(S) <= T(D)
    OBVIOUS
  <2> QED
    BY <2>1
<1>2. PICK d \in Bad : \A y \in d : d \ {y} \notin Bad
  <2>1. Bad \in SUBSET SUBSET D
    OBVIOUS
  <2> HIDE DEF Bad
  <2> QED
    BY <2>1, LeastSet
<1>3. d # S
  BY <1>1
<1>4. PICK y \in d : y \notin S
  BY <1>3
<1>5. d \ {y} \in SUBSET D /\ T(S) <= T(d \ {y})
  BY <1>2, <1>4
<1>6. T(d) = f[y] + T(d \ {y})
  BY <1>1, SumRemove
<1>7. f[y] \in Nat /\ T(d \ {y}) \in Nat /\ T(S) \in Nat
  BY <1>1, <1>5
<1>8. ~(T(S) <= T(d))
  OBVIOUS
<1> HIDE DEF T
<1> QED
  BY <1>5, <1>6, <1>7, <1>8

\* A sum of more is more.
LEMMA SumMore ==
  ASSUME NEW E, NEW f \in [E -> Nat], NEW g \in [E -> Nat],
         NEW D \in SUBSET E, IsFiniteSet(D), \A x \in D : f[x] <= g[x]
  PROVE  SumFunctionOnSet(f, D) <= SumFunctionOnSet(g, D)
<1> DEFINE F(d) == SumFunctionOnSet(f, d)
           G(d) == SumFunctionOnSet(g, d)
           Bad == {d \in SUBSET D : ~(F(d) <= G(d))}
<1>1. \A d \in SUBSET D : d \in SUBSET E /\ IsFiniteSet(d) /\ F(d) \in Nat /\ G(d) \in Nat
                         /\ (d = {} => F(d) = 0 /\ G(d) = 0)
  BY FS_Subset, SumNat
<1> SUFFICES ASSUME Bad # {} PROVE FALSE
  <2>1. D \notin Bad => F(D) <= G(D)
    OBVIOUS
  <2> QED
    BY <2>1
<1>2. PICK d \in Bad : \A y \in d : d \ {y} \notin Bad
  <2>1. Bad \in SUBSET SUBSET D
    OBVIOUS
  <2> HIDE DEF Bad
  <2> QED
    BY <2>1, LeastSet
<1>3. d # {}
  BY <1>1
<1>4. PICK y : y \in d
  BY <1>3
<1>5. d \ {y} \in SUBSET D /\ F(d \ {y}) <= G(d \ {y})
  BY <1>2, <1>4
<1>6. F(d) = f[y] + F(d \ {y}) /\ G(d) = g[y] + G(d \ {y})
  BY <1>1, <1>4, SumRemove
<1>7. f[y] \in Nat /\ g[y] \in Nat /\ f[y] <= g[y]
      /\ F(d \ {y}) \in Nat /\ G(d \ {y}) \in Nat
  BY <1>1, <1>4, <1>5
<1>8. ~(F(d) <= G(d))
  OBVIOUS
<1> HIDE DEF F, G
<1> QED
  BY <1>5, <1>6, <1>7, <1>8

\* A sum when one of its elements grows.
LEMMA SumPoint ==
  ASSUME NEW E, IsFiniteSet(E), NEW f \in [E -> Nat], NEW x \in E, NEW n \in Nat,
         NEW g \in [E -> Nat], g[x] = f[x] + n, \A y \in E \ {x} : g[y] = f[y]
  PROVE  SumFunctionOnSet(g, E) = SumFunctionOnSet(f, E) + n
<1>0. E \in SUBSET E /\ E \ {x} \in SUBSET E
  OBVIOUS
<1>1. SumFunctionOnSet(f, E) = f[x] + SumFunctionOnSet(f, E \ {x})
      /\ SumFunctionOnSet(g, E) = g[x] + SumFunctionOnSet(g, E \ {x})
  BY <1>0, SumRemove
<1>2. IsFiniteSet(E \ {x}) /\ SumFunctionOnSet(f, E \ {x}) \in Nat
  BY <1>0, FS_Subset, SumNat
<1>3. SumFunctionOnSet(f, E \ {x}) = SumFunctionOnSet(g, E \ {x})
  BY <1>0, <1>2, SumSame
<1> QED
  BY <1>1, <1>2, <1>3

\* The sums over the subsets of a finite set.
LEMMA SumFacts ==
  ASSUME NEW E, IsFiniteSet(E), NEW f \in [E -> Nat]
  PROVE  \A D \in SUBSET E :
           /\ D = {} => SumFunctionOnSet(f, D) = 0
           /\ \A x \in D : SumFunctionOnSet(f, D) = f[x] + SumFunctionOnSet(f, D \ {x})
<1> SUFFICES ASSUME NEW D \in SUBSET E
             PROVE  /\ D = {} => SumFunctionOnSet(f, D) = 0
                    /\ \A x \in D : SumFunctionOnSet(f, D) = f[x] + SumFunctionOnSet(f, D \ {x})
  OBVIOUS
<1>1. IsFiniteSet(D)
  BY FS_Subset
<1>2. ASSUME NEW x \in D
      PROVE  SumFunctionOnSet(f, D) = f[x] + SumFunctionOnSet(f, D \ {x})
  BY <1>1, SumRemove
<1> QED
  BY <1>1, <1>2, SumNat

-----------------------------------------------------------------------------
(***************************************************************************)
(* The ends of a finite set, the size of a union, and the image of a set.  *)
(***************************************************************************)

\* A finite set of integers that is not empty has a largest and a least
\* element, and Max and Min are they.
LEMMA Extremes ==
  ASSUME NEW D \in SUBSET Int, IsFiniteSet(D), D # {}
  PROVE  /\ Max(D) \in D /\ \A y \in D : y <= Max(D)
         /\ Min(D) \in D /\ \A y \in D : Min(D) <= y
<1> DEFINE Bounded(s) == \E u, v \in s : \A y \in s : u <= y /\ y <= v
           Bad == {s \in SUBSET D : s # {} /\ ~Bounded(s)}
<1>1. ASSUME Bad # {} PROVE FALSE
  <2>1. PICK s \in Bad : \A x \in s : s \ {x} \notin Bad
    <3>1. Bad \in SUBSET SUBSET D
      OBVIOUS
    <3> QED
      BY <1>1, <3>1, LeastSet
  <2>2. PICK x \in s : x \in Int
    BY <2>1
  <2>3. s \in SUBSET Int /\ ~Bounded(s)
    BY <2>1
  <2>4. CASE s \ {x} = {}
    BY <2>2, <2>3, <2>4
  <2>5. CASE s \ {x} # {}
    <3>1. Bounded(s \ {x})
      BY <2>1, <2>2, <2>5
    <3>2. PICK u \in s \ {x}, v \in s \ {x} : \A y \in s \ {x} : u <= y /\ y <= v
      BY <3>1
    <3>3. u \in Int /\ v \in Int /\ u \in s /\ v \in s
      BY <2>3, <3>2
    <3>4. \E a \in s : a <= u /\ a <= x
      BY <2>2, <3>3
    <3>5. \E b \in s : v <= b /\ x <= b
      BY <2>2, <3>3
    <3>6. PICK a \in s, b \in s : a <= u /\ a <= x /\ v <= b /\ x <= b
      BY <3>4, <3>5
    <3>7. \A y \in s : a <= y /\ y <= b
      <4> SUFFICES ASSUME NEW y \in s PROVE a <= y /\ y <= b
        OBVIOUS
      <4>1. a \in Int /\ b \in Int /\ y \in Int
        BY <2>3, <3>6
      <4>2. CASE y = x
        BY <3>6, <4>2
      <4>3. CASE y # x
        <5>1. u <= y /\ y <= v
          BY <3>2, <4>3
        <5>2. u \in Int /\ v \in Int /\ a <= u /\ v <= b
          BY <3>3, <3>6
        <5> HIDE DEF Bounded, Bad
        <5> QED
          BY <4>1, <5>1, <5>2
      <4> QED
        BY <4>2, <4>3
    <3> QED
      BY <2>3, <3>6, <3>7
  <2> QED
    BY <2>4, <2>5
<1>2. Bounded(D)
  BY <1>1
<1>3. (\E v \in D : \A y \in D : v >= y) /\ (\E u \in D : \A y \in D : u <= y)
  BY <1>2
<1>4. Max(D) \in D /\ \A y \in D : Max(D) >= y
  BY <1>3, Zenon DEF Max
<1>5. Min(D) \in D /\ \A y \in D : Min(D) <= y
  BY <1>3, Zenon DEF Min
<1> QED
  BY <1>4, <1>5

\* The sizes of finite sets of which no two meet add up to that of their union.
LEMMA SumDisjoint ==
  ASSUME NEW E, IsFiniteSet(E), NEW F,
         \A x \in E : IsFiniteSet(F[x]),
         \A x, y \in E : x # y => F[x] \intersect F[y] = {},
         NEW n \in [E -> Nat], \A x \in E : n[x] = Cardinality(F[x])
  PROVE  SumFunctionOnSet(n, E) = Cardinality(UNION {F[x] : x \in E})
<1> DEFINE U(d) == UNION {F[x] : x \in d}
           Sound(d) == IsFiniteSet(U(d)) /\ SumFunctionOnSet(n, d) = Cardinality(U(d))
           Bad == {d \in SUBSET E : ~Sound(d)}
<1>2. \A d \in SUBSET E :
        /\ d = {} => SumFunctionOnSet(n, d) = 0
        /\ \A x \in d : SumFunctionOnSet(n, d) = n[x] + SumFunctionOnSet(n, d \ {x})
  BY SumFacts
<1>3. ASSUME Bad # {} PROVE FALSE
  <2>1. PICK d \in Bad : \A x \in d : d \ {x} \notin Bad
    <3>1. Bad \in SUBSET SUBSET E
      OBVIOUS
    <3> QED
      BY <1>3, <3>1, LeastSet
  <2>2. d \in SUBSET E /\ ~Sound(d)
    BY <2>1
  <2>3. CASE d = {}
    <3>1. U(d) = {}
      BY <2>3
    <3>2. Sound(d)
      BY <1>2, <2>2, <2>3, <3>1, FS_EmptySet
    <3> QED
      BY <2>2, <3>2
  <2>4. CASE d # {}
    <3>1. PICK x \in d : TRUE
      BY <2>4
    <3>2. Sound(d \ {x}) /\ x \in E
      BY <2>1, <2>2, <3>1
    <3>3. U(d) = U(d \ {x}) \union F[x] /\ U(d \ {x}) \intersect F[x] = {}
      BY <2>2, <3>1
    <3>4. /\ IsFiniteSet(U(d))
          /\ Cardinality(U(d)) = Cardinality(U(d \ {x})) + Cardinality(F[x])
      <4> DEFINE A == U(d \ {x})
                 B == F[x]
      <4>1. IsFiniteSet(A) /\ IsFiniteSet(B) /\ A \intersect B = {}
        BY <3>2, <3>3
      <4> HIDE DEF A, B
      <4>2. /\ IsFiniteSet(A \union B)
            /\ Cardinality(A \union B)
                 = Cardinality(A) + Cardinality(B) - Cardinality(A \intersect B)
        BY <4>1, FS_Union
      <4>3. Cardinality(A \intersect B) = 0 /\ Cardinality(A) \in Nat /\ Cardinality(B) \in Nat
        BY <4>1, FS_EmptySet, FS_CardinalityType
      <4>4. Cardinality(A \union B) = Cardinality(A) + Cardinality(B)
        BY <4>2, <4>3
      <4>5. U(d) = A \union B
        BY <3>3 DEF A, B
      <4> QED
        BY <4>2, <4>4, <4>5 DEF A, B
    <3>5. SumFunctionOnSet(n, d) = Cardinality(F[x]) + Cardinality(U(d \ {x}))
      BY <1>2, <2>2, <3>1, <3>2
    <3>6. Cardinality(F[x]) \in Nat /\ Cardinality(U(d \ {x})) \in Nat
      BY <3>2, FS_CardinalityType
    <3>7. SumFunctionOnSet(n, d) = Cardinality(U(d))
      BY <3>4, <3>5, <3>6
    <3> QED
      BY <2>2, <3>4, <3>7
  <2> QED
    BY <2>3, <2>4
<1>4. Sound(E)
  BY <1>3
<1> QED
  BY <1>4

\* What a function takes a finite set to is finite.
LEMMA ImageFinite ==
  ASSUME NEW E, IsFiniteSet(E), NEW f
  PROVE  IsFiniteSet({f[x] : x \in E})
<1> DEFINE D == {f[x] : x \in E}
           g == [x \in E |-> f[x]]
<1>1. g \in Surjection(E, D)
  BY DEF Surjection
<1> QED
  BY <1>1, FS_Surjection

\* Some numbers have a largest.
LEMMA Largest ==
  ASSUME NEW E, NEW f \in [E -> Nat], NEW D \in SUBSET E, IsFiniteSet(D)
  PROVE  LET S == {f[x] : x \in D} \union {0}
         IN  Max(S) \in S /\ Max(S) \in Nat /\ \A x \in D : f[x] <= Max(S)
<1> DEFINE S == {f[x] : x \in D} \union {0}
<1>1. IsFiniteSet(S)
  <2> DEFINE T == {f[x] : x \in D}
  <2>1. IsFiniteSet(T)
    BY ImageFinite
  <2>2. IsFiniteSet({0})
    BY FS_Singleton
  <2> HIDE DEF T
  <2>3. IsFiniteSet(T \union {0})
    BY <2>1, <2>2, FS_Union
  <2> QED
    BY <2>3 DEF T
<1>2. S \in SUBSET Nat /\ S # {} /\ \A x \in D : f[x] \in S
  OBVIOUS
<1> HIDE DEF S
<1>3. Max(S) \in S /\ \A y \in S : y <= Max(S)
  BY <1>1, <1>2, Extremes
<1> QED
  BY <1>2, <1>3 DEF S
=============================================================================
