----------------------------- MODULE DemoProofs -----------------------------
(***************************************************************************)
(* Theorems about the reports and the lists of RentFlowAPI over the tables *)
(* that the seed and the API leave: the reports of one moment agree, the   *)
(* revenue is that of the months and years of the calendar, and the pages  *)
(* of a list have one place for each row.                                  *)
(***************************************************************************)
EXTENDS SeedProofs, SequenceTheorems

-----------------------------------------------------------------------------
(***************************************************************************)
(* Sums over finite sets.  SumOf is a fold, which takes the elements in    *)
(* some order: its value does not depend on that order.                    *)
(***************************************************************************)
\* g[s] is the sum of f over s, for each subset s of S.
Sums(f, S, g) ==
    g = [s \in SUBSET S |-> IF s = {} THEN 0
                            ELSE LET x == CHOOSE x \in s : TRUE IN f[x] + g[s \ {x}]]

\* The smallest of the subsets with a property, of a finite set.
LEMMA SmallestSubset ==
    ASSUME NEW S, IsFiniteSet(S), NEW bad, bad \subseteq SUBSET S, bad # {}
    PROVE  \E s \in bad : \A r \in SUBSET s : r # s => r \notin bad
<1>1. IsWellFoundedOn(StrictSubsetOrdering(S), FiniteSubsetsOf(S))
  BY FS_StrictSubsetOrderingWellFounded
<1>2. bad \subseteq FiniteSubsetsOf(S)
  BY FS_FiniteSubsetsOfFinite
<1>3. PICK s \in bad : \A r \in bad : <<r, s>> \notin StrictSubsetOrdering(S)
  BY <1>1, <1>2, WFMin
<1> QED
  BY <1>3 DEF StrictSubsetOrdering

\* The sums over the subsets of a finite set are unique,
LEMMA SumsUnique ==
    ASSUME NEW S, IsFiniteSet(S), NEW R, NEW f, NEW e, NEW g, NEW h,
           Sums(f, S, g), Sums(e, R, h), S \subseteq R, \A x \in S : f[x] = e[x]
    PROVE  \A s \in SUBSET S : g[s] = h[s]
<1> DEFINE bad == {s \in SUBSET S : g[s] # h[s]}
<1> SUFFICES ASSUME bad # {} PROVE FALSE
  OBVIOUS
<1>1. PICK s \in bad : \A r \in SUBSET s : r # s => r \notin bad
  <2>1. bad \subseteq SUBSET S
    OBVIOUS
  <2> HIDE DEF bad
  <2> QED
    BY <2>1, SmallestSubset
<1>2. s \in SUBSET S /\ s \in SUBSET R
  OBVIOUS
<1> DEFINE x == CHOOSE x \in s : TRUE
<1>3. CASE s = {}
  BY <1>1, <1>2, <1>3 DEF Sums
<1>4. CASE s # {}
  <2>1. x \in s
    BY <1>4
  <2>2. g[s] = f[x] + g[s \ {x}] /\ h[s] = e[x] + h[s \ {x}]
    BY <1>2, <1>4 DEF Sums
  <2> HIDE DEF x
  <2>3. g[s \ {x}] = h[s \ {x}]
    BY <1>1, <2>1
  <2> QED
    BY <1>1, <2>1, <2>2, <2>3
<1> QED
  BY <1>3, <1>4

\* and there are such sums.
LEMMA SumsExist ==
    ASSUME NEW S, IsFiniteSet(S), NEW f
    PROVE  \E g : Sums(f, S, g)
<1> DEFINE bad == {s \in SUBSET S : ~ \E g : Sums(f, s, g)}
<1> SUFFICES ASSUME bad # {} PROVE FALSE
  OBVIOUS
<1>1. PICK s \in bad : \A r \in SUBSET s : r # s => r \notin bad
  <2>1. bad \subseteq SUBSET S
    OBVIOUS
  <2> HIDE DEF bad
  <2> QED
    BY <2>1, SmallestSubset
<1>2. ASSUME NEW r \in SUBSET s PROVE IsFiniteSet(r)
  BY FS_Subset
<1> DEFINE Of(r) == CHOOSE g : Sums(f, r, g)
           Pick(r) == CHOOSE x \in r : TRUE
<1>3. ASSUME NEW r \in SUBSET s, r # s PROVE Sums(f, r, Of(r))
  BY <1>1, <1>3
<1>4. ASSUME NEW r \in SUBSET s, r # {} PROVE Pick(r) \in r /\ r \ {Pick(r)} \in SUBSET s /\ r \ {Pick(r)} # s
  BY <1>4
<1>5. ASSUME NEW r \in SUBSET s, r # s, r # {}
      PROVE  Of(r)[r] = f[Pick(r)] + Of(r \ {Pick(r)})[r \ {Pick(r)}]
  <2> DEFINE x == Pick(r)
             q == r \ {x}
             g == Of(r)
             h == Of(q)
  <2>1. Sums(f, r, g)
    BY <1>3, <1>5
  <2>2. x \in r /\ q \in SUBSET s /\ q # s
    BY <1>4, <1>5
  <2>3. Sums(f, q, h)
    BY <1>3, <2>2
  <2>4. g[r] = f[x] + g[q]
    BY <1>5, <2>1 DEF Sums
  <2> HIDE DEF x, q, g, h
  <2>5. q \subseteq r
    BY DEF q
  <2>6. \A t \in SUBSET q : h[t] = g[t]
    BY <1>2, <2>1, <2>2, <2>3, <2>5, SumsUnique
  <2> QED
    BY <2>4, <2>6 DEF x, q, g, h
<1> DEFINE g == [r \in SUBSET s |-> IF r = {} THEN 0
                                    ELSE f[Pick(r)] + Of(r \ {Pick(r)})[r \ {Pick(r)}]]
<1>6. ASSUME NEW r \in SUBSET s, r # s PROVE g[r] = Of(r)[r]
  <2>1. CASE r = {}
    <3>1. Sums(f, r, Of(r))
      BY <1>3, <1>6
    <3>2. g[r] = 0
      BY <2>1
    <3> HIDE DEF Of
    <3> QED
      BY <2>1, <3>1, <3>2 DEF Sums
  <2>2. CASE r # {}
    BY <1>5, <1>6, <2>2
  <2> QED
    BY <2>1, <2>2
<1> HIDE DEF Of
<1>7. \A r \in SUBSET s : r # {} => g[r] = f[Pick(r)] + g[r \ {Pick(r)}]
  <2> SUFFICES ASSUME NEW r \in SUBSET s, r # {} PROVE g[r] = f[Pick(r)] + g[r \ {Pick(r)}]
    OBVIOUS
  <2>1. r \ {Pick(r)} \in SUBSET s /\ r \ {Pick(r)} # s
    BY <1>4
  <2>2. g[r \ {Pick(r)}] = Of(r \ {Pick(r)})[r \ {Pick(r)}]
    BY <1>6, <2>1
  <2> QED
    BY <2>2
<1>8. g[{}] = 0
  OBVIOUS
<1>9. g = [r \in SUBSET s |-> IF r = {} THEN 0 ELSE f[Pick(r)] + g[r \ {Pick(r)}]]
  <2>1. g = [r \in SUBSET s |-> g[r]]
    OBVIOUS
  <2> HIDE DEF g
  <2>2. \A r \in SUBSET s : g[r] = IF r = {} THEN 0 ELSE f[Pick(r)] + g[r \ {Pick(r)}]
    BY <1>7, <1>8
  <2> QED
    BY <2>1, <2>2
<1> HIDE DEF g
<1>10. Sums(f, s, g)
  BY <1>9 DEF Sums
<1> QED
  BY <1>1, <1>10

\* What SumOf computes is a sum.
LEMMA SumOfIsSum ==
    ASSUME NEW f, IsFiniteSet(DOMAIN f)
    PROVE  \E g : Sums(f, DOMAIN f, g) /\ SumOf(f) = g[DOMAIN f]
<1> DEFINE S == DOMAIN f
           g == CHOOSE g : Sums(f, S, g)
<1>1. Sums(f, S, g)
  BY SumsExist
<1>2. SumOf(f) = g[S]
  BY DEF SumOf, FoldFunction, FoldFunctionOnSet, MapThenFoldSet, Sums
<1> QED
  BY <1>1, <1>2

\* The sum of f over a part of its domain.
Over(f, s) == SumOf([x \in s |-> f[x]])

\* The sums over all subsets of a finite set are Over.
LEMMA SumsOver ==
    ASSUME NEW S, IsFiniteSet(S), NEW f
    PROVE  \E g : Sums(f, S, g) /\ \A s \in SUBSET S : Over(f, s) = g[s]
<1>1. PICK g : Sums(f, S, g)
  BY SumsExist
<1>2. ASSUME NEW s \in SUBSET S PROVE Over(f, s) = g[s]
  <2> DEFINE e == [x \in s |-> f[x]]
  <2>1. DOMAIN e = s /\ \A x \in s : e[x] = f[x]
    OBVIOUS
  <2>2. IsFiniteSet(s)
    BY FS_Subset
  <2> HIDE DEF e
  <2>3. PICK h : Sums(e, s, h) /\ SumOf(e) = h[s]
    BY <2>1, <2>2, SumOfIsSum
  <2>4. h[s] = g[s]
    BY <1>1, <2>1, <2>2, <2>3, SumsUnique
  <2> QED
    BY <2>3, <2>4 DEF Over, e
<1> QED
  BY <1>1, <1>2

\* The sum of numbers of a kind is of that kind.
LEMMA SumType ==
    ASSUME NEW S, IsFiniteSet(S), NEW f, NEW V, 0 \in V, \A a, b \in V : a + b \in V,
           \A x \in S : f[x] \in V
    PROVE  Over(f, S) \in V
<1>1. PICK g : Sums(f, S, g) /\ \A s \in SUBSET S : Over(f, s) = g[s]
  BY SumsOver
<1> DEFINE bad == {s \in SUBSET S : g[s] \notin V}
<1> SUFFICES ASSUME bad # {} PROVE FALSE
  BY <1>1
<1>2. PICK s \in bad : \A r \in SUBSET s : r # s => r \notin bad
  <2>1. bad \subseteq SUBSET S
    OBVIOUS
  <2> HIDE DEF bad
  <2> QED
    BY <2>1, SmallestSubset
<1> DEFINE x == CHOOSE x \in s : TRUE
<1>3. CASE s = {}
  BY <1>1, <1>2, <1>3 DEF Sums
<1>4. CASE s # {}
  <2>1. x \in s
    BY <1>4
  <2>2. g[s] = f[x] + g[s \ {x}]
    BY <1>1, <1>4 DEF Sums
  <2> HIDE DEF x
  <2>3. f[x] \in V /\ g[s \ {x}] \in V
    BY <1>2, <2>1
  <2> QED
    BY <1>2, <2>2, <2>3
<1> QED
  BY <1>3, <1>4

LEMMA SumEmpty == ASSUME NEW f PROVE Over(f, {}) = 0
<1>1. PICK g : Sums(f, {}, g) /\ \A s \in SUBSET {} : Over(f, s) = g[s]
  BY FS_EmptySet, SumsOver
<1> QED
  BY <1>1 DEF Sums

\* The order of the elements does not matter.
LEMMA SumRemove ==
    ASSUME NEW S, IsFiniteSet(S), NEW f, \A x \in S : f[x] \in Int, NEW y \in S
    PROVE  Over(f, S) = f[y] + Over(f, S \ {y})
<1>1. PICK g : Sums(f, S, g) /\ \A s \in SUBSET S : Over(f, s) = g[s]
  BY SumsOver
<1>2. ASSUME NEW s \in SUBSET S PROVE g[s] \in Int
  <2>1. IsFiniteSet(s) /\ \A x \in s : f[x] \in Int
    BY FS_Subset
  <2>2. 0 \in Int /\ \A a, b \in Int : a + b \in Int
    OBVIOUS
  <2>3. Over(f, s) \in Int
    BY <2>1, <2>2, SumType
  <2> QED
    BY <1>1, <2>3
<1> DEFINE bad == {s \in SUBSET S : \E x \in s : g[s] # f[x] + g[s \ {x}]}
<1> SUFFICES ASSUME bad # {} PROVE FALSE
  <2>1. Over(f, S) = g[S] /\ Over(f, S \ {y}) = g[S \ {y}]
    BY <1>1
  <2>2. bad = {} => g[S] = f[y] + g[S \ {y}]
    <3>1. S \in SUBSET S
      OBVIOUS
    <3> QED
      BY <3>1
  <2> HIDE DEF bad
  <2> QED
    BY <2>1, <2>2
<1>3. PICK s \in bad : \A r \in SUBSET s : r # s => r \notin bad
  <2>1. bad \subseteq SUBSET S
    OBVIOUS
  <2> HIDE DEF bad
  <2> QED
    BY <2>1, SmallestSubset
<1>4. PICK x \in s : g[s] # f[x] + g[s \ {x}]
  BY <1>3
<1> DEFINE z == CHOOSE z \in s : TRUE
<1>5. z \in s /\ g[s] = f[z] + g[s \ {z}]
  BY <1>1, <1>4 DEF Sums
<1> HIDE DEF z
<1>6. x # z
  BY <1>4, <1>5
<1>7. /\ g[s \ {z}] = f[x] + g[(s \ {z}) \ {x}]
      /\ g[s \ {x}] = f[z] + g[(s \ {x}) \ {z}]
  BY <1>3, <1>4, <1>5, <1>6
<1>8. (s \ {z}) \ {x} = (s \ {x}) \ {z}
  OBVIOUS
<1> DEFINE both == g[(s \ {x}) \ {z}]
<1>9. f[x] \in Int /\ f[z] \in Int /\ both \in Int
  BY <1>2, <1>5
<1>10. g[s] = f[z] + (f[x] + both) /\ g[s \ {x}] = f[z] + both
  BY <1>5, <1>7, <1>8
<1> HIDE DEF both, bad
<1>11. f[z] + (f[x] + both) = f[x] + (f[z] + both)
  BY <1>9
<1> QED
  BY <1>4, <1>10, <1>11

LEMMA SumInt ==
    ASSUME NEW S, IsFiniteSet(S), NEW f, \A x \in S : f[x] \in Int
    PROVE  Over(f, S) \in Int
<1>1. 0 \in Int /\ \A a, b \in Int : a + b \in Int
  OBVIOUS
<1> QED
  BY <1>1, SumType

LEMMA SumNat ==
    ASSUME NEW S, IsFiniteSet(S), NEW f, \A x \in S : f[x] \in Nat
    PROVE  Over(f, S) \in Nat
<1>1. 0 \in Nat /\ \A a, b \in Nat : a + b \in Nat
  OBVIOUS
<1> QED
  BY <1>1, SumType

\* The sum over two sets.
LEMMA SumUnion ==
    ASSUME NEW A, IsFiniteSet(A), NEW B, IsFiniteSet(B), A \cap B = {},
           NEW f, \A x \in A \cup B : f[x] \in Int
    PROVE  Over(f, A \cup B) = Over(f, A) + Over(f, B)
<1> DEFINE bad == {s \in SUBSET B : Over(f, A \cup s) # Over(f, A) + Over(f, s)}
<1> SUFFICES ASSUME bad # {} PROVE FALSE
  OBVIOUS
<1>1. PICK s \in bad : \A r \in SUBSET s : r # s => r \notin bad
  <2>1. bad \subseteq SUBSET B
    OBVIOUS
  <2> HIDE DEF bad
  <2> QED
    BY <2>1, SmallestSubset
<1>2. ASSUME NEW r \in SUBSET B
      PROVE  IsFiniteSet(r) /\ IsFiniteSet(A \cup r) /\ Over(f, r) \in Int
  <2>1. IsFiniteSet(r)
    BY FS_Subset
  <2>2. IsFiniteSet(A \cup r)
    BY <2>1, FS_Union
  <2>3. \A x \in r : f[x] \in Int
    OBVIOUS
  <2> QED
    BY <2>1, <2>2, <2>3, SumInt
<1>3. Over(f, A) \in Int
  BY SumInt
<1>4. CASE s = {}
  <2>1. A \cup s = A /\ Over(f, s) = 0
    BY <1>4, SumEmpty
  <2>2. Over(f, A \cup s) = Over(f, A)
    BY <2>1
  <2>3. Over(f, A \cup s) # Over(f, A) + Over(f, s)
    OBVIOUS
  <2> HIDE DEF bad
  <2> QED
    BY <1>3, <2>1, <2>2, <2>3
<1>5. CASE s # {}
  <2>1. PICK x \in s : TRUE
    BY <1>5
  <2>2. x \notin A /\ x \in B /\ f[x] \in Int
    BY <2>1
  <2> DEFINE r == s \ {x}
             u == A \cup s
  <2>3. r \in SUBSET B /\ u \ {x} = A \cup r /\ x \in u
    BY <2>1, <2>2
  <2>4. Over(f, s) = f[x] + Over(f, r)
    <3>1. IsFiniteSet(s) /\ \A v \in s : f[v] \in Int
      BY <1>2
    <3> QED
      BY <2>1, <3>1, SumRemove
  <2>5. Over(f, u) = f[x] + Over(f, u \ {x})
    <3>1. IsFiniteSet(u) /\ \A v \in u : f[v] \in Int
      BY <1>2
    <3> HIDE DEF u
    <3> QED
      BY <2>3, <3>1, SumRemove
  <2>6. Over(f, A \cup r) = Over(f, A) + Over(f, r)
    BY <1>1, <2>1, <2>3
  <2>7. Over(f, r) \in Int
    BY <1>2, <2>3
  <2>8. Over(f, A \cup s) = f[x] + Over(f, A \cup r)
    BY <2>3, <2>5
  <2> HIDE DEF r, u
  <2> QED
    BY <1>1, <1>3, <2>2, <2>4, <2>6, <2>7, <2>8
<1> QED
  BY <1>4, <1>5

\* A part of natural numbers is not more than the whole.
LEMMA SumLess ==
    ASSUME NEW S, IsFiniteSet(S), NEW f, \A x \in S : f[x] \in Nat, NEW s \in SUBSET S
    PROVE  Over(f, s) <= Over(f, S)
<1> DEFINE r == S \ s
<1>1. IsFiniteSet(s) /\ IsFiniteSet(r) /\ s \cap r = {} /\ s \cup r = S
  BY FS_Subset
<1> HIDE DEF r
<1>2. \A x \in s \cup r : f[x] \in Nat
  BY <1>1
<1>3. Over(f, s) \in Nat /\ Over(f, r) \in Nat
  BY <1>1, <1>2, SumNat
<1>4. Over(f, S) = Over(f, s) + Over(f, r)
  BY <1>1, <1>2, SumUnion
<1> QED
  BY <1>3, <1>4

\* The number of elements is a sum of ones.
LEMMA SumCount ==
    ASSUME NEW S, IsFiniteSet(S), NEW f, \A x \in S : f[x] = 1
    PROVE  Over(f, S) = Cardinality(S)
<1> DEFINE bad == {s \in SUBSET S : Over(f, s) # Cardinality(s)}
<1> SUFFICES ASSUME bad # {} PROVE FALSE
  OBVIOUS
<1>1. PICK s \in bad : \A r \in SUBSET s : r # s => r \notin bad
  <2>1. bad \subseteq SUBSET S
    OBVIOUS
  <2> HIDE DEF bad
  <2> QED
    BY <2>1, SmallestSubset
<1>2. IsFiniteSet(s)
  BY FS_Subset
<1>3. CASE s = {}
  BY <1>1, <1>3, SumEmpty, FS_EmptySet
<1>4. CASE s # {}
  <2>1. PICK x \in s : TRUE
    BY <1>4
  <2>2. Over(f, s) = f[x] + Over(f, s \ {x})
    <3>1. \A v \in s : f[v] \in Int
      OBVIOUS
    <3> QED
      BY <1>2, <3>1, SumRemove
  <2>3. Over(f, s \ {x}) = Cardinality(s \ {x})
    BY <1>1
  <2>4. Cardinality(s \ {x}) = Cardinality(s) - 1
    BY <1>2, FS_RemoveElement
  <2>5. Cardinality(s) \in Nat
    BY <1>2, FS_CardinalityType
  <2> QED
    BY <1>1, <2>2, <2>3, <2>4, <2>5
<1> QED
  BY <1>3, <1>4

\* The elements of S of class k.
Class(S, c, k) == {x \in S : c[x] = k}

\* The sum over all is the sum over the classes k, each of the sum over its class.
LEMMA SumByClass ==
    ASSUME NEW S, IsFiniteSet(S), NEW f, \A x \in S : f[x] \in Int,
           NEW K, IsFiniteSet(K), NEW c, \A x \in S : c[x] \in K,
           NEW h, \A k \in K : h[k] = Over(f, Class(S, c, k))
    PROVE  Over(h, K) = Over(f, S)
<1> DEFINE In(q) == {x \in S : c[x] \in q}
           bad == {q \in SUBSET K : Over(h, q) # Over(f, In(q))}
<1>1. In(K) = S
  OBVIOUS
<1> SUFFICES ASSUME bad # {} PROVE FALSE
  BY <1>1
<1>2. PICK q \in bad : \A r \in SUBSET q : r # q => r \notin bad
  <2>1. bad \subseteq SUBSET K
    OBVIOUS
  <2> HIDE DEF bad
  <2> QED
    BY <2>1, SmallestSubset
<1>3. CASE q = {}
  <2>1. In(q) = {}
    BY <1>3
  <2> QED
    BY <1>2, <1>3, <2>1, SumEmpty
<1>4. CASE q # {}
  <2>1. PICK k \in q : TRUE
    BY <1>4
  <2> DEFINE r == q \ {k}
             one == Class(S, c, k)
             rest == In(r)
  <2>2. one \cap rest = {} /\ one \cup rest = In(q)
    BY <2>1 DEF Class
  <2>3. IsFiniteSet(one) /\ IsFiniteSet(rest) /\ IsFiniteSet(q)
    <3>1. one \in SUBSET S /\ rest \in SUBSET S /\ q \in SUBSET K
      BY DEF Class
    <3> QED
      BY <3>1, FS_Subset
  <2>4. \A x \in one \cup rest : f[x] \in Int
    BY DEF Class
  <2>5. h[k] = Over(f, one)
    BY <2>1
  <2>6. Over(h, r) = Over(f, rest)
    BY <1>2, <2>1
  <2>7. \A j \in q : h[j] \in Int
    <3> SUFFICES ASSUME NEW j \in q PROVE h[j] \in Int
      OBVIOUS
    <3> DEFINE class == Class(S, c, j)
    <3>1. class \in SUBSET S /\ h[j] = Over(f, class)
      BY DEF Class
    <3> HIDE DEF class
    <3>2. IsFiniteSet(class) /\ \A x \in class : f[x] \in Int
      BY <3>1, FS_Subset
    <3>3. Over(f, class) \in Int
      BY <3>2, SumInt
    <3> QED
      BY <3>1, <3>3
  <2>8. Over(h, q) = h[k] + Over(h, r)
    BY <2>1, <2>3, <2>7, SumRemove
  <2>9. Over(f, one \cup rest) = Over(f, one) + Over(f, rest)
    <3> HIDE DEF one, rest
    <3> QED
      BY <2>2, <2>3, <2>4, SumUnion
  <2> HIDE DEF one, rest, r
  <2> QED
    BY <1>2, <2>2, <2>5, <2>6, <2>8, <2>9
<1> QED
  BY <1>3, <1>4

\* The number of elements is the sum of the numbers in the classes.
LEMMA CountByClass ==
    ASSUME NEW S, IsFiniteSet(S),
           NEW K, IsFiniteSet(K), NEW c, \A x \in S : c[x] \in K,
           NEW h, \A k \in K : h[k] = Cardinality(Class(S, c, k))
    PROVE  Over(h, K) = Cardinality(S)
<1> DEFINE f == [x \in S |-> 1]
<1>1. \A x \in S : f[x] = 1
  OBVIOUS
<1> HIDE DEF f
<1>2. \A k \in K : h[k] = Over(f, Class(S, c, k))
  <2> SUFFICES ASSUME NEW k \in K PROVE h[k] = Over(f, Class(S, c, k))
    OBVIOUS
  <2> DEFINE class == Class(S, c, k)
  <2>1. class \in SUBSET S /\ h[k] = Cardinality(class) /\ \A x \in class : f[x] = 1
    BY <1>1 DEF Class
  <2> HIDE DEF class
  <2>2. IsFiniteSet(class)
    BY <2>1, FS_Subset
  <2>3. Over(f, class) = Cardinality(class)
    BY <2>1, <2>2, SumCount
  <2> QED
    BY <2>1, <2>3 DEF class
<1>3. Over(f, S) = Cardinality(S)
  BY <1>1, SumCount
<1>4. \A x \in S : f[x] \in Int
  BY <1>1
<1>5. Over(h, K) = Over(f, S)
  BY <1>2, <1>4, SumByClass
<1> QED
  BY <1>3, <1>5

\* The values of a function on a finite set are finitely many.
LEMMA FiniteImage ==
    ASSUME NEW S, IsFiniteSet(S), NEW f
    PROVE  IsFiniteSet({f[x] : x \in S})
<1> DEFINE T == {f[x] : x \in S}
           g == [x \in S |-> f[x]]
<1>1. g \in Surjection(S, T)
  BY DEF Surjection
<1> HIDE DEF g
<1> QED
  BY <1>1, FS_Surjection DEF ExistsSurjection

\* Two disjoint sets together have as many elements as both.
LEMMA CountUnion ==
    ASSUME NEW A, IsFiniteSet(A), NEW B, IsFiniteSet(B), A \cap B = {}
    PROVE  Cardinality(A \cup B) = Cardinality(A) + Cardinality(B)
<1>1. Cardinality(A \cup B) = Cardinality(A) + Cardinality(B) - Cardinality({})
  BY FS_Union
<1>2. Cardinality(A) \in Nat /\ Cardinality(B) \in Nat
  BY FS_CardinalityType
<1> QED
  BY <1>1, <1>2, FS_EmptySet

\* The sum of a function is its sum over its domain.
IsFunction(f) == f = [x \in DOMAIN f |-> f[x]]

LEMMA SumAll ==
    ASSUME NEW f, IsFunction(f)
    PROVE  SumOf(f) = Over(f, DOMAIN f)
  BY DEF Over, IsFunction

(***************************************************************************)
(* A report that has a row for each class of the elements of A: row[x] for *)
(* the class of x, on which h is the number, or the sum, of the elements   *)
(* of S in the class.                                                      *)
(***************************************************************************)
RowForEach(A, c, row, h) ==
    /\ IsFunction(h)
    /\ \A x \in A : row[x] \in DOMAIN h
    /\ \A k \in DOMAIN h : \E x \in A : k = row[x]
    /\ \A x, y \in A : row[x] = row[y] <=> c[x] = c[y]

\* A report has finitely many rows.
LEMMA FiniteRows ==
    ASSUME NEW A, IsFiniteSet(A), NEW c, NEW row, NEW h, RowForEach(A, c, row, h)
    PROVE  IsFiniteSet(DOMAIN h)
<1>1. IsFiniteSet({row[x] : x \in A})
  BY FiniteImage
<1>2. DOMAIN h = {row[x] : x \in A}
  BY DEF RowForEach
<1> QED
  BY <1>1, <1>2, Zenon

\* The numbers in the rows add up to the number of elements of S,
LEMMA CountByRow ==
    ASSUME NEW A, IsFiniteSet(A), NEW S \in SUBSET A, NEW c, NEW row, NEW h,
           RowForEach(A, c, row, h), \A x \in A : h[row[x]] = Cardinality(Class(S, c, c[x]))
    PROVE  SumOf(h) = Cardinality(S)
<1> DEFINE K == DOMAIN h
<1>1. IsFiniteSet(K) /\ IsFiniteSet(S)
  BY FiniteRows, FS_Subset
<1>2. \A x \in S : row[x] \in K
  BY DEF RowForEach
<1>3. \A k \in K : h[k] = Cardinality(Class(S, row, k))
  <2> SUFFICES ASSUME NEW x \in A PROVE h[row[x]] = Cardinality(Class(S, row, row[x]))
    BY DEF RowForEach
  <2>1. Class(S, row, row[x]) = Class(S, c, c[x])
    BY DEF Class, RowForEach
  <2> QED
    BY <2>1
<1> HIDE DEF K
<1>4. Over(h, K) = Cardinality(S)
  BY <1>1, <1>2, <1>3, CountByClass
<1> QED
  BY <1>4, SumAll DEF RowForEach, K

\* and the sums in the rows to the sum over S.
LEMMA SumByRow ==
    ASSUME NEW A, IsFiniteSet(A), NEW S \in SUBSET A, NEW c, NEW row, NEW h,
           NEW f, \A x \in S : f[x] \in Int,
           RowForEach(A, c, row, h), \A x \in A : h[row[x]] = Over(f, Class(S, c, c[x]))
    PROVE  SumOf(h) = Over(f, S)
<1> DEFINE K == DOMAIN h
<1>1. IsFiniteSet(K) /\ IsFiniteSet(S)
  BY FiniteRows, FS_Subset
<1>2. \A x \in S : row[x] \in K
  BY DEF RowForEach
<1>3. \A k \in K : h[k] = Over(f, Class(S, row, k))
  <2> SUFFICES ASSUME NEW x \in A PROVE h[row[x]] = Over(f, Class(S, row, row[x]))
    BY DEF RowForEach
  <2>1. Class(S, row, row[x]) = Class(S, c, c[x])
    BY DEF Class, RowForEach
  <2> QED
    BY <2>1
<1> HIDE DEF K
<1>4. Over(h, K) = Over(f, S)
  BY <1>1, <1>2, <1>3, SumByClass
<1> QED
  BY <1>4, SumAll DEF RowForEach, K

-----------------------------------------------------------------------------
(***************************************************************************)
(* The pages of a list.                                                    *)
(***************************************************************************)
\* A list has a place for each of the rows, and a row may be in as many places
\* as there are rows of its key.
PlacesHold(t, ids, field, desc) ==
    LET N == Cardinality(ids)
        order == Sorted(t, ids, field, desc)
    IN  /\ N \in Nat
        /\ order \in [1..N -> SUBSET ids]
        /\ \A i \in ids :
             Cardinality({n \in 1..N : i \in order[n]}) = Cardinality(Ties(t, ids, field, i))

LEMMA PlacesOfList ==
    ASSUME NEW t, NEW ids, IsFiniteSet(ids), NEW field, NEW desc
    PROVE  PlacesHold(t, ids, field, desc)
<1> DEFINE N == Cardinality(ids)
           order == Sorted(t, ids, field, desc)
           P(i) == Places(t, ids, field, desc, i)
           placed == {[row |-> i, places |-> P(i)] : i \in ids}
<1>1. N \in Nat
  BY FS_CardinalityType
<1>2. order = [n \in 1..N |-> {x.row : x \in {x \in placed : n \in x.places}}]
  BY DEF Sorted
<1>3. ASSUME NEW i \in ids
      PROVE  P(i) \subseteq 1..N /\ Cardinality(P(i)) = Cardinality(Ties(t, ids, field, i))
  <2> DEFINE before == Before(t, ids, field, desc, i)
             ties == Ties(t, ids, field, i)
             a == Cardinality(before)
             b == Cardinality(ties)
  <2>1. /\ before \in SUBSET ids /\ ties \in SUBSET ids /\ before \cup ties \in SUBSET ids
        /\ before \cap ties = {}
    BY DEF Before, Ties
  <2>2. P(i) = (a + 1)..(a + b)
    BY DEF Places
  <2> HIDE DEF before, ties, N, P
  <2>3. IsFiniteSet(before) /\ IsFiniteSet(ties) /\ Cardinality(before \cup ties) <= Cardinality(ids)
    BY <2>1, FS_Subset
  <2>4. a \in Nat /\ b \in Nat /\ Cardinality(before \cup ties) = a + b
    BY <2>1, <2>3, CountUnion, FS_CardinalityType
  <2>5. a + b <= N
    BY <2>3, <2>4 DEF N
  <2> HIDE DEF a, b
  <2>6. (a + 1)..(a + b) \subseteq 1..N
    BY <1>1, <2>4, <2>5
  <2>7. Cardinality((a + 1)..(a + b)) = b
    <3>1. a + 1 \in Int /\ a + b \in Int
      BY <2>4
    <3>2. Cardinality((a + 1)..(a + b)) = IF a + 1 > a + b THEN 0 ELSE (a + b) - (a + 1) + 1
      BY <3>1, FS_Interval
    <3> QED
      BY <2>4, <3>2
  <2> QED
    BY <2>2, <2>6, <2>7 DEF b, ties
<1> HIDE DEF P, N, order
<1>4. ASSUME NEW n \in 1..N PROVE order[n] = {i \in ids : n \in P(i)}
  <2>1. order[n] = {x.row : x \in {x \in placed : n \in x.places}}
    BY <1>2
  <2>2. ASSUME NEW i PROVE i \in order[n] <=> i \in ids /\ n \in P(i)
    <3>1. ASSUME NEW x \in placed, n \in x.places, i = x.row PROVE i \in ids /\ n \in P(i)
      BY <3>1
    <3>2. ASSUME i \in ids, n \in P(i) PROVE \E x \in placed : n \in x.places /\ i = x.row
      <4> DEFINE x == [row |-> i, places |-> P(i)]
      <4>1. x \in placed /\ x.places = P(i) /\ x.row = i
        BY <3>2
      <4> QED
        BY <3>2, <4>1
    <3> HIDE DEF placed
    <3> QED
      BY <2>1, <3>1, <3>2
  <2> QED
    BY <2>2
<1>5. order \in [1..N -> SUBSET ids]
  <2>1. order = [n \in 1..N |-> order[n]]
    BY <1>2
  <2>2. \A n \in 1..N : order[n] \in SUBSET ids
    BY <1>4
  <2> QED
    BY <2>1, <2>2
<1>6. ASSUME NEW i \in ids
      PROVE  Cardinality({n \in 1..N : i \in order[n]}) = Cardinality(Ties(t, ids, field, i))
  <2>1. {n \in 1..N : i \in order[n]} = P(i)
    BY <1>3, <1>4
  <2> QED
    BY <1>3, <2>1, Zenon
<1>7. \A i \in ids :
        Cardinality({n \in 1..N : i \in order[n]}) = Cardinality(Ties(t, ids, field, i))
  BY <1>6
<1> QED
  BY <1>1, <1>5, <1>7, Zenon DEF PlacesHold, N, order

\* Division by any number.
LEMMA Division ==
    ASSUME NEW a \in Nat, NEW m \in Nat, m > 0
    PROVE  /\ a \div m \in Nat
           /\ (a \div m) * m <= a
           /\ a < (a \div m) * m + m
  BY SMTT(30)

\* Among multiples of m no two are less than m apart.
LEMMA Blocks ==
    ASSUME NEW a \in Nat, NEW b \in Nat, NEW m \in Nat, a * m < b * m + m, m > 0
    PROVE  a <= b
<1> SUFFICES ASSUME ~(a <= b) PROVE FALSE
  OBVIOUS
<1>1. PICK c \in Nat : a = b + 1 + c
  <2>1. a - b - 1 \in Nat /\ a = b + 1 + (a - b - 1)
    BY SMT
  <2> QED
    BY <2>1
<1>2. a * m = b * m + m + c * m /\ c * m \in Nat /\ b * m \in Nat
  BY <1>1, SMT
<1> QED
  BY <1>1, <1>2, SMT

\* The bounds of page and limit.
LEMMA MaxOfTwo ==
    ASSUME NEW a \in Int, NEW b \in Int
    PROVE  /\ Max({a, b}) = IF a >= b THEN a ELSE b
           /\ Min({a, b}) = IF a <= b THEN a ELSE b
<1>1. Max({a, b}) = IF a >= b THEN a ELSE b
  BY SMT DEF Max
<1>2. Min({a, b}) = IF a <= b THEN a ELSE b
  BY SMT DEF Min
<1> QED
  BY <1>1, <1>2

\* The page of a number, of pages of length m, and its place there.
LEMMA HasPlace ==
    ASSUME NEW m \in Nat, m > 0, NEW i \in Nat, i > 0
    PROVE  LET b == (i - 1) \div m IN
           b \in Nat /\ b * m \in Nat /\ i - b * m \in 1..m /\ b * m + (i - b * m) = i
<1> DEFINE b == (i - 1) \div m
<1>1. b \in Nat /\ b * m <= i - 1 /\ i - 1 < b * m + m
  <2>1. i - 1 \in Nat
    OBVIOUS
  <2> QED
    BY <2>1, Division
<1> HIDE DEF b
<1>2. b * m \in Nat
  BY <1>1, SMT
<1> DEFINE c == b * m
<1> HIDE DEF c
<1>3. i - c \in 1..m /\ c + (i - c) = i
  BY <1>1, <1>2 DEF c
<1> QED
  BY <1>1, <1>2, <1>3 DEF c, b

\* A place of the list is on one page.
LEMMA OnePlace ==
    ASSUME NEW m \in Nat, m > 0, NEW b \in Nat, NEW k \in 1..m, NEW c \in Nat, NEW j \in 1..m,
           b * m + k = c * m + j
    PROVE  b = c /\ k = j
<1>1. b * m \in Nat /\ c * m \in Nat
  BY SMT
<1>2. b * m < c * m + m /\ c * m < b * m + m
  BY <1>1
<1>3. b <= c /\ c <= b
  BY <1>2, Blocks
<1>4. b = c
  BY <1>3
<1> QED
  BY <1>1, <1>4

\* The page of a place is one of the totalPages.
LEMMA PageOfPlace ==
    ASSUME NEW m \in Nat, m > 0, NEW N \in Nat, NEW b \in Nat, NEW k \in 1..m, b * m + k <= N
    PROVE  b + 1 <= (N + m - 1) \div m
<1> DEFINE P == (N + m - 1) \div m
<1>1. P \in Nat /\ P * m <= N + m - 1 /\ N + m - 1 < P * m + m
  <2>1. N + m - 1 \in Nat
    OBVIOUS
  <2> QED
    BY <2>1, Division
<1> HIDE DEF P
<1>2. b * m \in Nat /\ P * m \in Nat /\ (b + 1) * m = b * m + m
  BY <1>1, SMT
<1>3. (b + 1) * m < P * m + m
  BY <1>1, <1>2
<1>4. b + 1 <= P
  BY <1>1, <1>3, Blocks
<1> QED
  BY <1>4 DEF P

LEMMA IsSequence ==
    ASSUME NEW n \in Nat, NEW S, NEW f \in [1..n -> S]
    PROVE  f \in Seq(S) /\ Len(f) = n
<1>1. f = [i \in 1..n |-> f[i]] /\ \A i \in 1..n : f[i] \in S
  OBVIOUS
<1>2. [i \in 1..n |-> f[i]] \in Seq(S) /\ Len([i \in 1..n |-> f[i]]) = n
  BY <1>1
<1> QED
  BY <1>1, <1>2, Zenon

LEMMA PartOfSequence ==
    ASSUME NEW S, NEW s, NEW m \in Int, NEW n \in Int, \A i \in m..n : s[i] \in S,
           NEW part, part = SubSeq(s, m, n)
    PROVE  /\ part \in Seq(S)
           /\ Len(part) = IF m <= n THEN n - m + 1 ELSE 0
           /\ \A i \in 1..(n - m + 1) : part[i] = s[m + i - 1]
  BY SubSeqProperties

\* The places of the pages, with the rows that may be there: a part of them has
\* as many as the places in the list.
ArePlaces(part, A, N, L, order) ==
    /\ N \in Nat /\ L \in Nat /\ L > 0 /\ A \in SUBSET (1..N)
    /\ \A x : x \in part <=>
         \E b \in Nat : \E k \in 1..L :
           b * L + k \in A /\ x = [page |-> b + 1, place |-> k, rows |-> order[b * L + k]]

LEMMA PlacesOfPages ==
    ASSUME NEW part, NEW A, NEW N, NEW L, NEW order, ArePlaces(part, A, N, L, order)
    PROVE  Cardinality(part) = Cardinality(A)
<1>1. N \in Nat /\ L \in Nat /\ L > 0 /\ A \in SUBSET (1..N)
  BY DEF ArePlaces
<1>2. \A x : x \in part <=>
        \E b \in Nat : \E k \in 1..L :
          b * L + k \in A /\ x = [page |-> b + 1, place |-> k, rows |-> order[b * L + k]]
  BY DEF ArePlaces
<1> DEFINE B(i) == (i - 1) \div L
           K(i) == i - B(i) * L
           at == [i \in A |-> [page |-> B(i) + 1, place |-> K(i), rows |-> order[i]]]
<1>3. ASSUME NEW i \in A PROVE B(i) \in Nat /\ K(i) \in 1..L /\ B(i) * L + K(i) = i
  <2>1. i \in Nat /\ i > 0
    BY <1>1
  <2> QED
    BY <1>1, <2>1, HasPlace
<1>4. ASSUME NEW i \in A
      PROVE  /\ at[i] = [page |-> B(i) + 1, place |-> K(i), rows |-> order[i]]
             /\ at[i].page = B(i) + 1 /\ at[i].place = K(i)
  OBVIOUS
<1>5. at = [i \in A |-> at[i]]
  OBVIOUS
<1> HIDE DEF B, K, at
<1>6. ASSUME NEW i \in A PROVE at[i] \in part
  <2>1. B(i) * L + K(i) \in A /\ at[i] = [page |-> B(i) + 1, place |-> K(i), rows |-> order[B(i) * L + K(i)]]
    BY <1>3, <1>4
  <2> QED
    BY <1>3, <1>2, <2>1
<1>7. ASSUME NEW i \in A, NEW j \in A, at[i] = at[j] PROVE i = j
  <2>1. B(i) + 1 = B(j) + 1 /\ K(i) = K(j)
    BY <1>4, <1>7
  <2>2. B(i) = B(j)
    BY <1>3, <2>1
  <2> QED
    BY <1>3, <2>1, <2>2
<1>8. ASSUME NEW x \in part PROVE \E i \in A : at[i] = x
  <2>1. PICK b \in Nat : \E k \in 1..L :
          b * L + k \in A /\ x = [page |-> b + 1, place |-> k, rows |-> order[b * L + k]]
    BY <1>8, <1>2
  <2>2. PICK k \in 1..L :
          b * L + k \in A /\ x = [page |-> b + 1, place |-> k, rows |-> order[b * L + k]]
    BY <2>1
  <2> DEFINE i == b * L + k
  <2> HIDE DEF i
  <2>3. i \in A /\ x = [page |-> b + 1, place |-> k, rows |-> order[i]]
    BY <2>2 DEF i
  <2>4. B(i) * L + K(i) = b * L + k /\ B(i) \in Nat /\ K(i) \in 1..L
    BY <1>3, <2>3 DEF i
  <2>5. B(i) = b /\ K(i) = k
    BY <1>1, <2>2, <2>4, OnePlace
  <2> QED
    BY <1>4, <2>3, <2>5
<1>9. at \in Bijection(A, part)
  <2>1. at \in [A -> part]
    BY <1>5, <1>6
  <2> QED
    BY <1>7, <1>8, <2>1 DEF Bijection, Injection, Surjection, IsInjective
<1>10. IsFiniteSet(A)
  <2>1. IsFiniteSet(1..N)
    <3>1. 1 \in Int /\ N \in Int
      BY <1>1
    <3> QED
      BY <3>1, FS_Interval, Zenon
  <2> QED
    BY <1>1, <2>1, FS_Subset, Zenon
<1> QED
  BY <1>9, <1>10, FS_Bijection DEF ExistsBijection

\* What one page of the list of payments shows.
PageHolds(d, size) ==
    LET N == Cardinality(Active(d.payments))
        L == Min({100, Max({1, size})})
        order == Sorted(d.payments, Active(d.payments), "vence", TRUE)
        P == PaymentList(d, [limit |-> size]).totalPages
        Items(n) == PaymentList(d, [limit |-> size, page |-> n]).items
    IN  /\ N \in Nat
        /\ L \in 1..100
        /\ order \in [1..N -> SUBSET Active(d.payments)]
        /\ P = (N + L - 1) \div L
        /\ \A n \in Nat \ {0} : DOMAIN Items(n) = {k \in 1..L : (n - 1) * L + k <= N}
        /\ \A n \in Nat \ {0} :
             \A k \in DOMAIN Items(n) : Items(n)[k] = order[(n - 1) * L + k]

\* What a page of the payments shows.
LEMMA PageOfPayments ==
    ASSUME NEW d, IsFiniteSet(Active(d.payments)), NEW size \in Int
    PROVE  PageHolds(d, size)
<1> DEFINE t == d.payments
           ids == Active(t)
           N == Cardinality(ids)
           L == Min({100, Max({1, size})})
           order == Sorted(t, ids, "vence", TRUE)
<1>1. N \in Nat /\ order \in [1..N -> SUBSET ids]
  <2>1. PlacesHold(t, ids, "vence", TRUE)
    BY PlacesOfList
  <2> QED
    BY <2>1 DEF PlacesHold
<1> HIDE DEF order
<1>2. L \in 1..100
  <2> DEFINE m == Max({1, size})
  <2>1. m \in Int /\ m >= 1
    BY MaxOfTwo, SMT
  <2> HIDE DEF m
  <2>2. Min({100, m}) = IF 100 <= m THEN 100 ELSE m
    <3>1. 100 \in Int
      OBVIOUS
    <3> QED
      BY <2>1, <3>1, MaxOfTwo, Zenon
  <2> QED
    BY <2>1, <2>2 DEF m
<1>3. ASSUME NEW q, q = [limit |-> size]
      PROVE  PaymentList(d, q).totalPages = (N + L - 1) \div L
  <2>1. /\ DOMAIN q = {"limit"} /\ q.limit = size
    BY <1>3
  <2>2. PaymentWhere(t, q) = ids
    BY <2>1 DEF PaymentWhere, MatchingRows, Matches, Given
  <2>3. {i \in ids : Given(q, "found") => i \in q.found} = ids
    BY <2>1 DEF Given
  <2>4. PageMeta(q).limit = L
    BY <2>1 DEF PageMeta, Given
  <2> QED
    BY <2>2, <2>3, <2>4 DEF PaymentList, Page, PaginatedResult
<1>4. ASSUME NEW n \in Nat \ {0}, NEW q, q = [limit |-> size, page |-> n]
      PROVE  PaymentList(d, q).items
               = SubSeq(order, (n - 1) * L + 1, Min({(n - 1) * L + L, Len(order)}))
  <2>1. DOMAIN q = {"limit", "page"} /\ q.limit = size /\ q.page = n
    BY <1>4
  <2>2. PaymentWhere(t, q) = ids
    BY <2>1 DEF PaymentWhere, MatchingRows, Matches, Given
  <2>3. {i \in ids : Given(q, "found") => i \in q.found} = ids
    BY <2>1 DEF Given
  <2>4. Max({1, n}) = n
    BY MaxOfTwo
  <2>5. PageMeta(q).skip = (n - 1) * L /\ PageMeta(q).take = L
    BY <2>1, <2>4 DEF PageMeta, Given
  <2>6. ~Given(q, "asc") = TRUE /\ ~Given(q, "sortBy")
    BY <2>1 DEF Given
  <2> QED
    BY <2>2, <2>3, <2>5, <2>6 DEF PaymentList, Page, PaginatedResult, order
<1>5. Len(order) = N
  <2> DEFINE S == SUBSET ids
  <2>1. order \in [1..N -> S]
    BY <1>1
  <2> HIDE DEF N, S
  <2> QED
    BY <1>1, <2>1, IsSequence
<1>6. ASSUME NEW n \in Nat \ {0}
      PROVE  LET items == PaymentList(d, [limit |-> size, page |-> n]).items
             IN  DOMAIN items = {k \in 1..L : (n - 1) * L + k <= N}
                 /\ \A k \in DOMAIN items : items[k] = order[(n - 1) * L + k]
  <2> DEFINE items == PaymentList(d, [limit |-> size, page |-> n]).items
             skip == (n - 1) * L
             end == skip + L
             last == Min({end, N})
             first == skip + 1
  <2>1. items = SubSeq(order, skip + 1, last)
    BY <1>4, <1>5
  <2>2. skip \in Nat /\ L \in 1..100 /\ N \in Nat
    <3> HIDE DEF L, N
    <3> QED
      BY <1>1, <1>2, SMT
  <2> HIDE DEF skip, L, N, items
  <2>3. last \in Int /\ last = IF skip + L <= N THEN skip + L ELSE N
    <3>1. end \in Int
      BY <2>2
    <3> HIDE DEF end
    <3>2. last = IF end <= N THEN end ELSE N
      <4>1. N \in Int
        BY <2>2
      <4> QED
        BY <3>1, <4>1, MaxOfTwo, Zenon
    <3> QED
      BY <2>2, <3>1, <3>2 DEF end
  <2> HIDE DEF last
  <2> DEFINE S == SUBSET ids
  <2>4. \A i \in (skip + 1)..last : order[i] \in S
    <3>1. \A i \in (skip + 1)..last : i \in 1..N
      BY <2>2, <2>3
    <3>2. order \in [1..N -> S]
      BY <1>1 DEF N
    <3> HIDE DEF S
    <3> QED
      BY <3>1, <3>2
  <2> HIDE DEF S
  <2>5. /\ items \in Seq(S)
        /\ Len(items) = IF skip + 1 <= last THEN last - (skip + 1) + 1 ELSE 0
        /\ \A i \in 1..(last - (skip + 1) + 1) : items[i] = order[(skip + 1) + i - 1]
    <3>1. items = SubSeq(order, first, last) /\ \A i \in first..last : order[i] \in S
      BY <2>1, <2>4, Zenon
    <3>2. first \in Int /\ last \in Int
      BY <2>2, <2>3
    <3> HIDE DEF first, ids
    <3>3. /\ items \in Seq(S)
          /\ Len(items) = IF first <= last THEN last - first + 1 ELSE 0
          /\ \A i \in 1..(last - first + 1) : items[i] = order[first + i - 1]
      BY <3>1, <3>2, PartOfSequence
    <3> QED
      BY <3>3 DEF first
  <2>6. Len(items) = IF skip <= last THEN last - skip ELSE 0
    BY <2>2, <2>3, <2>5
  <2>7. DOMAIN items = 1..Len(items)
    BY <2>5
  <2>8. DOMAIN items = {k \in 1..L : skip + k <= N}
    BY <2>2, <2>3, <2>6, <2>7
  <2>9. ASSUME NEW k \in DOMAIN items PROVE items[k] = order[skip + k]
    <3>1. k \in 1..(last - (skip + 1) + 1) /\ (skip + 1) + k - 1 = skip + k
      BY <2>2, <2>3, <2>6, <2>7
    <3> QED
      BY <2>5, <3>1
  <2> QED
    BY <2>8, <2>9 DEF items, skip
<1>7. PaymentList(d, [limit |-> size]).totalPages = (N + L - 1) \div L
  BY <1>3
<1> HIDE DEF L
<1> QED
  BY <1>1, <1>2, <1>6, <1>7 DEF PageHolds, L, order

\* Pages of any size have a place for each payment.
LEMMA PagesWhole ==
    ASSUME NEW d, IsFiniteSet(Active(d.payments)), NEW size \in Int
    PROVE  PagesAreWhole(d, size)
<1> DEFINE ids == Active(d.payments)
           N == Cardinality(ids)
           L == Min({100, Max({1, size})})
           P == PaymentList(d, [limit |-> size]).totalPages
           Items(n) == PaymentList(d, [limit |-> size, page |-> n]).items
           order == Sorted(d.payments, ids, "vence", TRUE)
           shown == UNION {LET items == Items(n)
                           IN  {[page |-> n, place |-> k, rows |-> items[k]] : k \in DOMAIN items} :
                           n \in 1..P}
           due(y) == {z \in ids : d.payments[z].vence = d.payments[y].vence}
<1>1. /\ N \in Nat
      /\ L \in 1..100
      /\ order \in [1..N -> SUBSET ids]
      /\ P = (N + L - 1) \div L
      /\ \A n \in Nat \ {0} : DOMAIN Items(n) = {k \in 1..L : (n - 1) * L + k <= N}
      /\ \A n \in Nat \ {0} :
           \A k \in DOMAIN Items(n) : Items(n)[k] = order[(n - 1) * L + k]
  <2>1. PageHolds(d, size)
    BY PageOfPayments
  <2> QED
    BY <2>1 DEF PageHolds
<1>2. ASSUME NEW y \in ids
      PROVE  Cardinality({n \in 1..N : y \in order[n]}) = Cardinality(due(y))
  <2>1. Cardinality({n \in 1..N : y \in order[n]}) = Cardinality(Ties(d.payments, ids, "vence", y))
    <3>1. PlacesHold(d.payments, ids, "vence", TRUE)
      BY PlacesOfList
    <3> QED
      BY <3>1 DEF PlacesHold
  <2>2. Ties(d.payments, ids, "vence", y) = due(y)
    BY DEF Ties
  <2> HIDE DEF N, order, due
  <2> QED
    BY <2>1, <2>2
<1> HIDE DEF N, L, P, Items, order
<1>3. N \in Nat /\ L \in Nat /\ L > 0 /\ P = (N + L - 1) \div L
  <2>1. N \in Nat /\ L \in 1..100 /\ P = (N + L - 1) \div L
    BY <1>1, Zenon
  <2>2. L \in Nat /\ L > 0
    BY <2>1
  <2> QED
    BY <2>1, <2>2, Zenon
<1>4. P \in Nat
  <2>1. N + L - 1 \in Nat
    BY <1>3
  <2> QED
    BY <1>3, <2>1, Division
<1>5. ASSUME NEW b \in Nat, b + 1 <= P, NEW k
      PROVE  /\ k \in DOMAIN Items(b + 1) <=> k \in 1..L /\ b * L + k <= N
             /\ k \in DOMAIN Items(b + 1) => Items(b + 1)[k] = order[b * L + k]
  <2>1. b + 1 \in Nat \ {0} /\ (b + 1) - 1 = b
    OBVIOUS
  <2> QED
    BY <1>1, <2>1
<1>6. ASSUME NEW b \in Nat, NEW k \in 1..L PROVE b * L + k <= N <=> b * L + k \in 1..N
  <2>1. b * L \in Nat
    BY <1>3, SMT
  <2> QED
    BY <1>3, <2>1
\* What is shown, by the number b of the pages before it.
<1>7. ASSUME NEW x
      PROVE  x \in shown <=> \E b \in Nat : \E k \in 1..L :
               b * L + k \in 1..N /\ x = [page |-> b + 1, place |-> k, rows |-> order[b * L + k]]
  <2>1. x \in shown <=> \E n \in 1..P : \E k \in DOMAIN Items(n) :
                          x = [page |-> n, place |-> k, rows |-> Items(n)[k]]
    OBVIOUS
  <2> HIDE DEF shown
  <2>2. ASSUME NEW n \in 1..P, NEW k \in DOMAIN Items(n),
               x = [page |-> n, place |-> k, rows |-> Items(n)[k]]
        PROVE  \E b \in Nat : \E j \in 1..L :
                 /\ b * L + j \in 1..N
                 /\ x = [page |-> b + 1, place |-> j, rows |-> order[b * L + j]]
    <3>1. PICK b \in Nat : n = b + 1
      <4>1. n - 1 \in Nat /\ n = (n - 1) + 1
        BY <1>4
      <4> QED
        BY <4>1
    <3>2. b + 1 <= P
      BY <1>4, <3>1
    <3>3. k \in 1..L /\ b * L + k <= N /\ Items(n)[k] = order[b * L + k]
      BY <1>5, <3>1, <3>2
    <3>4. b * L + k \in 1..N
      BY <1>6, <3>3
    <3> QED
      BY <2>2, <3>1, <3>3, <3>4
  <2>3. ASSUME NEW b \in Nat, NEW k \in 1..L, b * L + k \in 1..N,
               x = [page |-> b + 1, place |-> k, rows |-> order[b * L + k]]
        PROVE  \E n \in 1..P : \E j \in DOMAIN Items(n) :
                 x = [page |-> n, place |-> j, rows |-> Items(n)[j]]
    <3>1. b * L + k <= N
      BY <1>6, <2>3
    <3>2. b + 1 <= P
      BY <1>3, <3>1, PageOfPlace
    <3>3. b + 1 \in 1..P
      BY <1>4, <3>2
    <3>4. k \in DOMAIN Items(b + 1) /\ Items(b + 1)[k] = order[b * L + k]
      BY <1>5, <3>1, <3>2
    <3> QED
      BY <2>3, <3>3, <3>4
  <2> QED
    BY <2>1, <2>2, <2>3
<1>8. PagesAreWhole(d, size)
        <=> /\ Cardinality(shown) = N
            /\ \A x \in shown : x.rows \subseteq ids
            /\ \A y \in ids : Cardinality({x \in shown : y \in x.rows}) = Cardinality(due(y))
  BY DEF PagesAreWhole, N, P, Items
<1> HIDE DEF shown, due, ids
<1>9. Cardinality(shown) = N
  <2>1. Cardinality(shown) = Cardinality(1..N)
    <3> DEFINE A == 1..N
    <3>1. A \in SUBSET (1..N)
      OBVIOUS
    <3>2. ArePlaces(shown, A, N, L, order)
      BY <1>3, <1>7, <3>1 DEF ArePlaces
    <3> HIDE DEF A
    <3>3. Cardinality(shown) = Cardinality(A)
      BY <3>2, PlacesOfPages, Zenon
    <3> QED
      BY <3>3 DEF A
  <2> QED
    BY <1>3, <2>1, FS_Interval
<1>10. ASSUME NEW b \in Nat, NEW k \in 1..L, b * L + k \in 1..N,
              NEW x, x = [page |-> b + 1, place |-> k, rows |-> order[b * L + k]]
       PROVE  x.rows = order[b * L + k] /\ x.rows \subseteq ids
  BY <1>1, <1>10
<1>11. \A x \in shown : x.rows \subseteq ids
  BY <1>7, <1>10
<1>12. ASSUME NEW y \in ids PROVE Cardinality({x \in shown : y \in x.rows}) = Cardinality(due(y))
  <2> DEFINE A == {n \in 1..N : y \in order[n]}
             part == {x \in shown : y \in x.rows}
  <2>1. A \in SUBSET (1..N)
    OBVIOUS
  <2>2. ASSUME NEW x
        PROVE  x \in part <=> \E b \in Nat : \E k \in 1..L :
                 b * L + k \in A /\ x = [page |-> b + 1, place |-> k, rows |-> order[b * L + k]]
    <3>1. ASSUME x \in part
          PROVE  \E b \in Nat : \E k \in 1..L :
                   b * L + k \in A /\ x = [page |-> b + 1, place |-> k, rows |-> order[b * L + k]]
      <4>1. PICK b \in Nat : \E k \in 1..L :
              b * L + k \in 1..N /\ x = [page |-> b + 1, place |-> k, rows |-> order[b * L + k]]
        BY <1>7, <3>1
      <4>2. PICK k \in 1..L :
              b * L + k \in 1..N /\ x = [page |-> b + 1, place |-> k, rows |-> order[b * L + k]]
        BY <4>1
      <4>3. y \in order[b * L + k]
        BY <1>10, <3>1, <4>2
      <4> QED
        BY <4>2, <4>3
    <3>2. ASSUME NEW b \in Nat, NEW k \in 1..L, b * L + k \in A,
                 x = [page |-> b + 1, place |-> k, rows |-> order[b * L + k]]
          PROVE  x \in part
      <4>1. b * L + k \in 1..N /\ y \in order[b * L + k]
        BY <3>2
      <4>2. x \in shown /\ x.rows = order[b * L + k]
        BY <1>7, <1>10, <3>2, <4>1
      <4> QED
        BY <4>1, <4>2
    <3> HIDE DEF A, part
    <3> QED
      BY <3>1, <3>2
  <2> HIDE DEF A, part
  <2>3. ArePlaces(part, A, N, L, order)
    BY <1>3, <2>1, <2>2 DEF ArePlaces
  <2>4. Cardinality(part) = Cardinality(A)
    BY <2>3, PlacesOfPages, Zenon
  <2> QED
    BY <1>2, <2>4 DEF A, part
<1> QED
  BY <1>8, <1>9, <1>11, <1>12

-----------------------------------------------------------------------------
(***************************************************************************)
(* The lists of the demo.                                                  *)
(***************************************************************************)
\* total counts the rows of the filter.
LEMMA Totals ==
    ASSUME NEW t, NEW where, NEW q, NEW sort, "found" \notin DOMAIN q
    PROVE  Page(t, where, q, sort).total = Cardinality(where)
<1>1. {i \in where : Given(q, "found") => i \in q.found} = where
  BY DEF Given
<1> QED
  BY <1>1 DEF Page, PaginatedResult

\* A list without a page, or of a page before the second, shows the newest rows.
LEMMA FirstPage ==
    ASSUME NEW t, NEW q, NEW sort, "found" \notin DOMAIN q, "limit" \notin DOMAIN q,
           "asc" \notin DOMAIN q, "page" \in DOMAIN q => q.page \in {0, 1},
           "creado" = IF "sortBy" \in DOMAIN q THEN q.sortBy ELSE sort
    PROVE  Page(t, Active(t), q, sort).items = Newest(t, 10)
<1>1. {i \in Active(t) : Given(q, "found") => i \in q.found} = Active(t)
  BY DEF Given
<1>2. PageMeta(q).skip = 0 /\ PageMeta(q).take = 10
  <2>1. Max({1, 0}) = 1 /\ Max({1, 1}) = 1 /\ Max({1, 10}) = 10 /\ Min({100, 10}) = 10
    BY SMT DEF Max, Min
  <2> QED
    BY <2>1 DEF PageMeta, Given
<1>3. Sorted(t, Active(t), IF Given(q, "sortBy") THEN q.sortBy ELSE sort, ~Given(q, "asc"))
        = Sorted(t, Active(t), "creado", TRUE)
  <2>1. (IF Given(q, "sortBy") THEN q.sortBy ELSE sort) = "creado"
    BY DEF Given
  <2>2. (~Given(q, "asc")) = TRUE
    BY DEF Given
  <2> QED
    BY <2>1, <2>2, Zenon
<1> DEFINE order == Sorted(t, Active(t), "creado", TRUE)
<1>4. 0 + 1 = 1 /\ 0 + 10 = 10
  OBVIOUS
<1>5. Page(t, Active(t), q, sort).items = SubSeq(order, 0 + 1, Min({0 + 10, Len(order)}))
  BY <1>1, <1>2, <1>3 DEF Page, PaginatedResult
<1>6. Newest(t, 10) = SubSeq(order, 1, Min({10, Len(order)}))
  BY DEF Newest
<1> HIDE DEF order
<1> QED
  BY <1>4, <1>5, <1>6

\* The count of groupBy, and 0 for a value that does not occur.
LEMMA GetIsCount ==
    ASSUME NEW t, NEW ids, NEW field, NEW v
    PROVE  Get(GroupBy(t, ids, field), v) = Cardinality({i \in ids : t[i][field] = v})
<1> DEFINE group == {i \in ids : t[i][field] = v}
           values == {t[i][field] : i \in ids}
<1>1. DOMAIN GroupBy(t, ids, field) = values
  BY DEF GroupBy
<1>2. CASE v \in values
  BY <1>1, <1>2 DEF Get, GroupBy
<1>3. CASE v \notin values
  <2>1. group = {}
    BY <1>3
  <2>2. Get(GroupBy(t, ids, field), v) = 0
    BY <1>1, <1>3 DEF Get
  <2> QED
    BY <2>1, <2>2, FS_EmptySet
<1> QED
  BY <1>2, <1>3

\* The tables of the demo are finite, and their rows are numbered.
LEMMA FiniteTables ==
    ASSUME SeedAssumption, NEW d, TablesOK(d)
    PROVE  /\ IsFiniteSet(DOMAIN d.props) /\ IsFiniteSet(DOMAIN d.tenants)
           /\ IsFiniteSet(DOMAIN d.payments) /\ IsFiniteSet(DOMAIN d.tickets)
           /\ IsFiniteSet(DOMAIN d.leads) /\ IsFiniteSet(DOMAIN d.notices)
           /\ DOMAIN d.tenants \subseteq 1..15
<1>1. ASSUME NEW a \in Int, NEW b \in Int, NEW s, s \subseteq a..b PROVE IsFiniteSet(s)
  BY <1>1, FS_Interval, FS_Subset
<1>2. PaymentIds \subseteq (-11)..1000
  <2> SUFFICES ASSUME NEW y \in PaymentIds PROVE y \in (-11)..1000
    OBVIOUS
  <2> DEFINE i == (y + 11) \div 100
  <2>1. i \in 1..9 /\ y - 100 * i \in -11..0 /\ y \in Int
    BY PaymentNumber
  <2> HIDE DEF i
  <2> QED
    BY <2>1
<1>3. /\ DOMAIN d.props \subseteq 1..12 /\ DOMAIN d.tenants \subseteq 1..15
      /\ DOMAIN d.tickets \subseteq 1..8
      /\ DOMAIN d.leads \subseteq 1..6 /\ DOMAIN d.notices \subseteq 1..15
  BY Numbers DEF TablesOK, IsTable
<1>4. IsFiniteSet(DOMAIN d.payments)
  <2>1. IsFiniteSet(PaymentIds)
    <3> DEFINE first == -11
               last == 1000
    <3>1. first \in Int /\ last \in Int
      OBVIOUS
    <3>2. PaymentIds \subseteq first..last
      BY <1>2
    <3> HIDE DEF first, last
    <3> QED
      BY <1>1, <3>1, <3>2
  <2>2. IsFiniteSet(NewPayments)
    BY DEF SeedAssumption
  <2>3. IsFiniteSet(PaymentRows)
    BY <2>1, <2>2, FS_Union DEF PaymentRows
  <2>4. DOMAIN d.payments \subseteq PaymentRows
    BY DEF TablesOK, IsTable
  <2> QED
    BY <2>3, <2>4, FS_Subset
<1>5. /\ IsFiniteSet(DOMAIN d.props) /\ IsFiniteSet(DOMAIN d.tenants)
      /\ IsFiniteSet(DOMAIN d.tickets)
      /\ IsFiniteSet(DOMAIN d.leads) /\ IsFiniteSet(DOMAIN d.notices)
  <2> DEFINE b == 15
  <2>1. /\ DOMAIN d.props \subseteq 1..b /\ DOMAIN d.tenants \subseteq 1..b
        /\ DOMAIN d.tickets \subseteq 1..b
        /\ DOMAIN d.leads \subseteq 1..b /\ DOMAIN d.notices \subseteq 1..b
    BY <1>3
  <2>2. 1 \in Int /\ b \in Int
    OBVIOUS
  <2> HIDE DEF b
  <2> QED
    BY <1>1, <2>1, <2>2
<1> QED
  BY <1>3, <1>4, <1>5

\* The overview, when its queries read one state.
LEMMA OverviewOf ==
    ASSUME NEW d, NEW now
    PROVE  LET o == Overview(Still(OverviewQueries, d), now)
           IN  /\ o.propiedades.total = Cardinality(Active(d.props))
               /\ o.propiedades.ocupadas = Cardinality(Estado(d.props, "OCUPADA"))
               /\ o.propiedades.occupancyRate
                    = Rate(o.propiedades.ocupadas, o.propiedades.total)
               /\ o.contratos.vencidos = Cardinality(Estado(d.contracts, "VENCIDO"))
               /\ o.pagos.counts.pendientes = Cardinality(Estado(d.payments, "PENDIENTE"))
               /\ o.pagos.counts.vencidos = Cardinality(Estado(d.payments, "VENCIDO"))
               /\ o.pagos.counts.pagados = Cardinality(Estado(d.payments, "PAGADO"))
               /\ o.pagos.collectionRate
                    = Rate(o.pagos.counts.pagados, o.pagos.counts.pendientes
                             + o.pagos.counts.vencidos + o.pagos.counts.pagados)
               /\ o.pagos.ingresosMesActual = PaidSince(d, FirstDayOfMonth(now))
               /\ o.mantenimiento.urgentes = Urgent(d.tickets)
               /\ o.mantenimiento.costosTotales
                    = Sum(d.tickets, WithEstado(d.tickets, ResolvedStates), "costoFinal")
<1> DEFINE at == Still(OverviewQueries, d)
<1>1. \A q \in OverviewQueries : at[q] = d
  BY DEF Still
<1> HIDE DEF at
<1>2. LET p == OverviewProperties(at)
      IN  /\ p.total = Cardinality(Active(d.props))
          /\ p.ocupadas = Cardinality(Estado(d.props, "OCUPADA"))
          /\ p.occupancyRate = Rate(p.ocupadas, p.total)
  BY <1>1 DEF OverviewProperties, OverviewQueries
<1>3. OverviewContracts(at, now).vencidos = Cardinality(Estado(d.contracts, "VENCIDO"))
  BY <1>1 DEF OverviewContracts, OverviewQueries
<1>4. LET c == OverviewCounts(at)
      IN  /\ c.pendientes = Cardinality(Estado(d.payments, "PENDIENTE"))
          /\ c.vencidos = Cardinality(Estado(d.payments, "VENCIDO"))
          /\ c.pagados = Cardinality(Estado(d.payments, "PAGADO"))
  BY <1>1 DEF OverviewCounts, OverviewQueries
<1>5. LET p == OverviewPayments(at, now)
      IN  /\ p.counts = OverviewCounts(at)
          /\ p.collectionRate
               = Rate(p.counts.pagados, p.counts.pendientes + p.counts.vencidos + p.counts.pagados)
          /\ p.ingresosMesActual = PaidSince(d, FirstDayOfMonth(now))
  BY <1>1 DEF OverviewPayments, OverviewQueries
<1>6. LET m == OverviewTickets(at, now)
      IN  /\ m.urgentes = Urgent(d.tickets)
          /\ m.costosTotales
               = Sum(d.tickets, WithEstado(d.tickets, ResolvedStates), "costoFinal")
  BY <1>1 DEF OverviewTickets, OverviewQueries
<1>7. LET o == Overview(at, now)
      IN  /\ o.propiedades = OverviewProperties(at)
          /\ o.contratos = OverviewContracts(at, now)
          /\ o.pagos = OverviewPayments(at, now)
          /\ o.mantenimiento = OverviewTickets(at, now)
  BY DEF Overview
<1> QED
  BY <1>2, <1>3, <1>4, <1>5, <1>6, <1>7 DEF at

LEMMA ListsOfDemo ==
    ASSUME SeedAssumption, NEW d, TablesOK(d), NEW now
    PROVE  ListsAgree(d, now)
<1> DEFINE o == Overview(Still(OverviewQueries, d), now)
           recent == RecentActivity(Still(ActivityQueries, d))
<1>1. PropertyList(d, [estado |-> "OCUPADA"]).total = o.propiedades.ocupadas
  <2>1. PropertyWhere(d.props, [estado |-> "OCUPADA"]) = Estado(d.props, "OCUPADA")
    BY DEF PropertyWhere, Matches, Given, Estado, WithEstado
  <2> QED
    BY <2>1, Totals, OverviewOf DEF PropertyList
<1>2. ContractList(d, [estado |-> "VENCIDO"]).total = o.contratos.vencidos
  <2>1. ContractWhere(d.contracts, [estado |-> "VENCIDO"]) = Estado(d.contracts, "VENCIDO")
    BY DEF ContractWhere, MatchingRows, Matches, Given, Estado, WithEstado
  <2> QED
    BY <2>1, Totals, OverviewOf DEF ContractList
<1>3. PaymentList(d, [estado |-> "VENCIDO"]).total = o.pagos.counts.vencidos
  <2>1. PaymentWhere(d.payments, [estado |-> "VENCIDO"]) = Estado(d.payments, "VENCIDO")
    BY DEF PaymentWhere, MatchingRows, Matches, Given, Estado, WithEstado
  <2> QED
    BY <2>1, Totals, OverviewOf DEF PaymentList
<1>4. TicketList(d, [prioridad |-> "URGENTE"]).total = o.mantenimiento.urgentes
  <2>1. TicketWhere(d.tickets, [prioridad |-> "URGENTE"])
          = {i \in Active(d.tickets) : d.tickets[i].prioridad = "URGENTE"}
    BY DEF TicketWhere, MatchingRows, Matches, Given
  <2> QED
    BY <2>1, Totals, OverviewOf DEF TicketList, Urgent
<1>5. NoticeList(d, [leida |-> FALSE]).total = CountUnread(d)
  <2>1. \A k \in DOMAIN d.notices : d.notices[k].isActive /\ d.notices[k].leida \in BOOLEAN
    BY DEF TablesOK, IsTable, NoticeRow
  <2> DEFINE q == [leida |-> FALSE]
             where == NoticeWhere(d.notices, q)
  <2>2. DOMAIN q = {"leida"} /\ q.leida = FALSE
    OBVIOUS
  <2> HIDE DEF q
  <2>3. ASSUME NEW k \in DOMAIN d.notices
        PROVE  k \in where <=> d.notices[k]["leida"] = q["leida"]
    BY <2>1, <2>2 DEF NoticeWhere, MatchingRows, Matches, Given, Active
  <2>4. ASSUME NEW k \in DOMAIN d.notices
        PROVE  d.notices[k].leida = FALSE <=> ~d.notices[k].leida
    BY <2>1
  <2>5. where \subseteq DOMAIN d.notices
    BY DEF NoticeWhere, MatchingRows, Active
  <2>6. where = {k \in DOMAIN d.notices : ~d.notices[k].leida}
    BY <2>2, <2>3, <2>4, <2>5, Zenon
  <2>7. "found" \notin DOMAIN q
    BY <2>2
  <2>8. NoticeList(d, q).total = Cardinality(where)
    BY <2>7, Totals DEF NoticeList
  <2> HIDE DEF where
  <2>9. Cardinality(where) = CountUnread(d)
    BY <2>6, Zenon DEF CountUnread
  <2> QED
    BY <2>8, <2>9 DEF q
<1>6. LeadList(d, [estado |-> "GANADO"]).total = Get(LeadStats(d).porEstado, "GANADO")
  <2>1. LeadWhere(d.leads, [estado |-> "GANADO"])
          = {i \in Active(d.leads) : d.leads[i]["estado"] = "GANADO"}
    BY DEF LeadWhere, MatchingRows, Matches, Given
  <2>2. LeadStats(d).porEstado = GroupBy(d.leads, Active(d.leads), "estado")
    BY DEF LeadStats
  <2> QED
    BY <2>1, <2>2, Totals, GetIsCount DEF LeadList
<1>7. PublicList(d, [precioMin |-> 14500]).total + PublicList(d, [precioMax |-> 14499]).total
        = PublicList(d, [page |-> 1]).total
  <2> DEFINE dear == {i \in Active(d.props) : d.props[i].publicado /\ d.props[i].precio >= 14500}
             cheap == {i \in Active(d.props) : d.props[i].publicado /\ d.props[i].precio <= 14499}
             all == {i \in Active(d.props) : d.props[i].publicado}
  <2>1. /\ PublicWhere(d.props, [precioMin |-> 14500]) = dear
        /\ PublicWhere(d.props, [precioMax |-> 14499]) = cheap
        /\ PublicWhere(d.props, [page |-> 1]) = all
    BY DEF PublicWhere, Matches, Given
  <2>2. \A i \in DOMAIN d.props : d.props[i].precio \in Nat
    BY DEF TablesOK, IsTable, PropertyRow
  <2>3. dear \cup cheap = all /\ dear \cap cheap = {}
    BY <2>2 DEF Active
  <2>4. IsFiniteSet(dear) /\ IsFiniteSet(cheap)
    BY FiniteTables, FS_Subset DEF Active
  <2>5. /\ PublicList(d, [precioMin |-> 14500]).total = Cardinality(dear)
        /\ PublicList(d, [precioMax |-> 14499]).total = Cardinality(cheap)
        /\ PublicList(d, [page |-> 1]).total = Cardinality(all)
    <3>1. ASSUME NEW q, "found" \notin DOMAIN q
          PROVE  PublicList(d, q).total = Cardinality(PublicWhere(d.props, q))
      BY <3>1, Totals DEF PublicList
    <3> HIDE DEF dear, cheap, all
    <3> QED
      BY <2>1, <3>1
  <2> HIDE DEF dear, cheap, all
  <2>6. Cardinality(dear \cup cheap) = Cardinality(dear) + Cardinality(cheap)
    BY <2>3, <2>4, CountUnion
  <2>7. Cardinality(all) = Cardinality(dear) + Cardinality(cheap)
    BY <2>3, <2>6, Zenon
  <2> DEFINE a == PublicList(d, [precioMin |-> 14500]).total
             b == PublicList(d, [precioMax |-> 14499]).total
             c == PublicList(d, [page |-> 1]).total
  <2>8. a = Cardinality(dear) /\ b = Cardinality(cheap) /\ c = Cardinality(all)
    BY <2>5
  <2> HIDE DEF a, b, c
  <2>9. a + b = c
    BY <2>7, <2>8
  <2> QED
    BY <2>9 DEF a, b, c
<1>8. ASSUME NEW i \in DOMAIN d.tenants PROVE TenantList(d, [propertyId |-> i]).total <= 1
  <2> DEFINE where == TenantWhere(d.tenants, [propertyId |-> i])
  <2>1. \A j \in where : j \in DOMAIN d.tenants /\ d.tenants[j].propertyId = i
    BY DEF TenantWhere, MatchingRows, Matches, Given, Active
  <2>2. \A j \in DOMAIN d.tenants : d.tenants[j].propertyId \in {j, Null}
    BY DEF TablesOK, TenantFits
  <2>3. i # Null
    BY FiniteTables DEF SeedAssumption
  <2>4. where \subseteq {i}
    BY <2>1, <2>2, <2>3
  <2>5. TenantList(d, [propertyId |-> i]).total = Cardinality(where)
    BY Totals DEF TenantList
  <2> HIDE DEF where
  <2>6. Cardinality(where) <= Cardinality({i})
    BY <2>4, FS_Singleton, FS_Subset
  <2> QED
    BY <2>5, <2>6, FS_Singleton
<1>9. ASSUME NEW i \in DOMAIN d.contracts
      PROVE  PaymentList(d, [contractId |-> i]).total = PaymentList(d, [tenantId |-> i]).total
  <2>1. \A y \in DOMAIN d.payments : d.payments[y].contractId = d.payments[y].tenantId
    BY DEF TablesOK, PaymentFits
  <2>2. PaymentWhere(d.payments, [contractId |-> i]) = PaymentWhere(d.payments, [tenantId |-> i])
    BY <2>1 DEF PaymentWhere, MatchingRows, Matches, Given, Active
  <2> QED
    BY <2>2, Totals DEF PaymentList
<1>10. /\ recent.contratosRecientes = ContractList(d, [page |-> 0]).items
       /\ recent.ticketsRecientes = TicketList(d, [page |-> 1]).items
       /\ recent.pagosRecientes = PaymentList(d, [sortBy |-> "creado"]).items
  <2>1. /\ recent.contratosRecientes = Newest(d.contracts, 10)
        /\ recent.ticketsRecientes = Newest(d.tickets, 10)
        /\ recent.pagosRecientes = Newest(d.payments, 10)
    BY DEF RecentActivity, Still, ActivityQueries
  <2>2. /\ ContractWhere(d.contracts, [page |-> 0]) = Active(d.contracts)
        /\ TicketWhere(d.tickets, [page |-> 1]) = Active(d.tickets)
        /\ PaymentWhere(d.payments, [sortBy |-> "creado"]) = Active(d.payments)
    BY DEF ContractWhere, TicketWhere, PaymentWhere, MatchingRows, Matches, Given
  <2> HIDE DEF recent
  <2>3. ContractList(d, [page |-> 0]).items = Newest(d.contracts, 10)
    BY <2>2, FirstPage DEF ContractList
  <2>4. TicketList(d, [page |-> 1]).items = Newest(d.tickets, 10)
    BY <2>2, FirstPage DEF TicketList
  <2>5. PaymentList(d, [sortBy |-> "creado"]).items = Newest(d.payments, 10)
    BY <2>2, FirstPage DEF PaymentList
  <2> QED
    BY <2>1, <2>3, <2>4, <2>5
<1>11. \A size \in {5, 100} : PagesAreWhole(d, size)
  <2>1. Active(d.payments) \in SUBSET DOMAIN d.payments
    BY DEF Active
  <2>2. IsFiniteSet(Active(d.payments))
    BY <2>1, FiniteTables, FS_Subset
  <2> QED
    BY <2>2, PagesWhole
<1> QED
  BY <1>1, <1>2, <1>3, <1>4, <1>5, <1>6, <1>7, <1>8, <1>9, <1>10, <1>11 DEF ListsAgree

-----------------------------------------------------------------------------
(***************************************************************************)
(* The figures of the reports.                                             *)
(***************************************************************************)
\* Figures of the payments.
LEMMA PaymentFigures ==
    ASSUME SeedAssumption, NEW d, TablesOK(d), NEW now
    PROVE  LET c == PaymentCounts(Still(PaymentsQueries, d))
               Of(e) == Cardinality(Estado(d.payments, e))
           IN  /\ c.pagados = Of("PAGADO") /\ c.parciales = Of("PARCIAL")
               /\ c.collectionRate = Rate(Of("PAGADO"), Of("PENDIENTE") + Of("VENCIDO")
                                                         + Of("PAGADO") + Of("PARCIAL"))
<1> DEFINE at == Still(PaymentsQueries, d)
           groups == GroupBy(d.payments, Active(d.payments), "estado")
<1>1. at["porEstado"] = d
  BY DEF Still, PaymentsQueries
<1> HIDE DEF at
<1>2. ASSUME NEW e PROVE Get(groups, e) = Cardinality(Estado(d.payments, e))
  <2>1. Get(groups, e) = Cardinality({i \in Active(d.payments) : d.payments[i]["estado"] = e})
    BY GetIsCount
  <2>2. Estado(d.payments, e) = {i \in Active(d.payments) : d.payments[i]["estado"] = e}
    BY DEF Estado, WithEstado
  <2> HIDE DEF groups
  <2> QED
    BY <2>1, <2>2, Zenon
<1>3. LET c == PaymentCounts(at)
      IN  /\ c.pagados = Get(groups, "PAGADO") /\ c.parciales = Get(groups, "PARCIAL")
          /\ c.collectionRate = Rate(Get(groups, "PAGADO"),
                                     Get(groups, "PENDIENTE") + Get(groups, "VENCIDO")
                                       + Get(groups, "PAGADO") + Get(groups, "PARCIAL"))
  BY <1>1 DEF PaymentCounts
<1> HIDE DEF groups
<1> QED
  BY <1>2, <1>3 DEF at

\* The occupancy of all properties and of those of each type.
TypeRow(t, v) ==
    LET all == GroupBy(t, Active(t), "tipo")
        rented == GroupBy(t, Estado(t, "OCUPADA"), "tipo")
    IN  [tipo |-> v, total |-> all[v], ocupadas |-> Get(rented, v),
         disponibles |-> all[v] - Get(rented, v), rate |-> Rate(Get(rented, v), all[v])]

\* The rows of the occupancy by type.
LEMMA TypeRows ==
    ASSUME NEW t, NEW at, at["porTipo"].props = t, at["porTipoOcupadas"].props = t
    PROVE  /\ OccupancyByType(at) = {TypeRow(t, t[i]["tipo"]) : i \in Active(t)}
           /\ \A i \in Active(t) : LET v == t[i]["tipo"] IN
                /\ TypeRow(t, v).tipo = v
                /\ TypeRow(t, v).total = Cardinality({j \in Active(t) : t[j]["tipo"] = v})
                /\ TypeRow(t, v).ocupadas
                     = Cardinality({j \in Estado(t, "OCUPADA") : t[j]["tipo"] = v})
<1> DEFINE all == GroupBy(t, Active(t), "tipo")
           rented == GroupBy(t, Estado(t, "OCUPADA"), "tipo")
<1>1. DOMAIN all = {t[i]["tipo"] : i \in Active(t)}
  BY DEF GroupBy
<1>2. OccupancyByType(at) = {TypeRow(t, v) : v \in DOMAIN all}
  BY DEF OccupancyByType, TypeRow
<1>3. OccupancyByType(at) = {TypeRow(t, t[i]["tipo"]) : i \in Active(t)}
  <2> HIDE DEF all
  <2> QED
    BY <1>1, <1>2
<1>4. ASSUME NEW i \in Active(t)
      PROVE  LET v == t[i]["tipo"] IN
             /\ TypeRow(t, v).tipo = v
             /\ TypeRow(t, v).total = Cardinality({j \in Active(t) : t[j]["tipo"] = v})
             /\ TypeRow(t, v).ocupadas
                  = Cardinality({j \in Estado(t, "OCUPADA") : t[j]["tipo"] = v})
  <2> DEFINE v == t[i]["tipo"]
  <2>1. TypeRow(t, v).tipo = v /\ TypeRow(t, v).total = all[v]
        /\ TypeRow(t, v).ocupadas = Get(rented, v)
    BY DEF TypeRow
  <2>2. all[v] = Cardinality({j \in Active(t) : t[j]["tipo"] = v})
    BY DEF GroupBy
  <2>3. Get(rented, v) = Cardinality({j \in Estado(t, "OCUPADA") : t[j]["tipo"] = v})
    BY GetIsCount
  <2> HIDE DEF all, rented, v
  <2>4. /\ TypeRow(t, v).tipo = v
        /\ TypeRow(t, v).total = Cardinality({j \in Active(t) : t[j]["tipo"] = v})
        /\ TypeRow(t, v).ocupadas
             = Cardinality({j \in Estado(t, "OCUPADA") : t[j]["tipo"] = v})
    BY <2>1, <2>2, <2>3, Zenon
  <2> QED
    BY <2>4 DEF v
<1> QED
  BY <1>3, <1>4, Zenon

LEMMA TypesOfProperties ==
    ASSUME NEW t, IsFiniteSet(DOMAIN t), NEW at, at["porTipo"].props = t,
           at["porTipoOcupadas"].props = t
    PROVE  LET byType == OccupancyByType(at)
           IN  /\ SumOf([x \in byType |-> x.ocupadas]) = Cardinality(Estado(t, "OCUPADA"))
               /\ SumOf([x \in byType |-> x.total]) = Cardinality(Active(t))
               /\ \A x \in byType : x.ocupadas \in 0..x.total
<1> DEFINE byType == OccupancyByType(at)
           A == Active(t)
           S == Estado(t, "OCUPADA")
           c == [i \in A |-> t[i]["tipo"]]
           row == [i \in A |-> TypeRow(t, t[i]["tipo"])]
           rented == [x \in byType |-> x.ocupadas]
           all == [x \in byType |-> x.total]
<1>1. IsFiniteSet(A) /\ A \in SUBSET A /\ S \in SUBSET A
  BY FS_Subset DEF Active, Estado, WithEstado
<1>2. \A i \in A : c[i] = t[i]["tipo"] /\ row[i] = TypeRow(t, c[i])
  OBVIOUS
<1>3. byType = {row[i] : i \in A}
  <2>1. byType = {TypeRow(t, t[i]["tipo"]) : i \in A}
    BY TypeRows
  <2> HIDE DEF byType, A, c, row
  <2> QED
    BY <1>2, <2>1
<1>4. ASSUME NEW i \in A
      PROVE  /\ row[i].tipo = c[i] /\ row[i].total = Cardinality(Class(A, c, c[i]))
             /\ row[i].ocupadas = Cardinality(Class(S, c, c[i]))
  <2> DEFINE v == t[i]["tipo"]
  <2>1. /\ TypeRow(t, v).tipo = v
        /\ TypeRow(t, v).total = Cardinality({j \in A : t[j]["tipo"] = v})
        /\ TypeRow(t, v).ocupadas = Cardinality({j \in S : t[j]["tipo"] = v})
    BY TypeRows
  <2> HIDE DEF A, S, c, row
  <2>2. c[i] = v /\ row[i] = TypeRow(t, v)
    BY <1>2
  <2> HIDE DEF v
  <2>3. Class(A, c, v) = {j \in A : t[j]["tipo"] = v}
    BY <1>2 DEF Class
  <2>4. Class(S, c, v) = {j \in S : t[j]["tipo"] = v}
    BY <1>1, <1>2 DEF Class
  <2> QED
    BY <2>1, <2>2, <2>3, <2>4, Zenon
<1>5. /\ IsFunction(rented) /\ DOMAIN rented = byType /\ \A x \in byType : rented[x] = x.ocupadas
      /\ IsFunction(all) /\ DOMAIN all = byType /\ \A x \in byType : all[x] = x.total
  BY DEF IsFunction
<1> HIDE DEF byType, A, S, c, row, rented, all
<1>6. \A i, j \in A : row[i] = row[j] <=> c[i] = c[j]
  BY <1>2, <1>4
<1>7. RowForEach(A, c, row, rented) /\ RowForEach(A, c, row, all)
  BY <1>3, <1>5, <1>6 DEF RowForEach
<1>8. SumOf(rented) = Cardinality(S)
  <2>1. \A i \in A : rented[row[i]] = Cardinality(Class(S, c, c[i]))
    BY <1>3, <1>4, <1>5
  <2> QED
    BY <1>1, <1>7, <2>1, CountByRow
<1>9. SumOf(all) = Cardinality(A)
  <2>1. \A i \in A : all[row[i]] = Cardinality(Class(A, c, c[i]))
    BY <1>3, <1>4, <1>5
  <2> QED
    BY <1>1, <1>7, <2>1, CountByRow
<1>10. ASSUME NEW i \in A PROVE row[i].ocupadas \in 0..row[i].total
  <2> DEFINE classA == Class(A, c, c[i])
             classS == Class(S, c, c[i])
  <2>1. classS \in SUBSET classA /\ classA \in SUBSET A
    BY <1>1 DEF Class
  <2>2. row[i].total = Cardinality(classA) /\ row[i].ocupadas = Cardinality(classS)
    BY <1>4
  <2> HIDE DEF classA, classS
  <2>3. IsFiniteSet(classA)
    BY <1>1, <2>1, FS_Subset
  <2>4. IsFiniteSet(classS) /\ Cardinality(classS) <= Cardinality(classA)
    BY <2>1, <2>3, FS_Subset
  <2>5. Cardinality(classA) \in Nat /\ Cardinality(classS) \in Nat
    BY <2>3, <2>4, FS_CardinalityType
  <2> QED
    BY <2>2, <2>4, <2>5
<1> QED
  BY <1>3, <1>8, <1>9, <1>10 DEF byType, A, S, rented, all

\* Every property is rented, free or in maintenance.
LEMMA TotalsOfProperties ==
    ASSUME NEW t, IsFiniteSet(DOMAIN t), \A i \in DOMAIN t : t[i].estado \in PropertyStatus,
           NEW at, at["totalAgg"].props = t
    PROVE  LET o == OccupancyTotals(at)
           IN  /\ o.totalPropiedades = Cardinality(Active(t))
               /\ o.occupancyRate = Rate(Cardinality(Estado(t, "OCUPADA")),
                                         Cardinality(Active(t)))
<1> DEFINE groups == GroupBy(t, Active(t), "estado")
           a == Estado(t, "OCUPADA")
           b == Estado(t, "DISPONIBLE")
           c == Estado(t, "MANTENIMIENTO")
<1>1. ASSUME NEW e PROVE Get(groups, e) = Cardinality(Estado(t, e))
  <2>1. Get(groups, e) = Cardinality({i \in Active(t) : t[i]["estado"] = e})
    BY GetIsCount
  <2>2. Estado(t, e) = {i \in Active(t) : t[i]["estado"] = e}
    BY DEF Estado, WithEstado
  <2> HIDE DEF groups
  <2> QED
    BY <2>1, <2>2, Zenon
<1>2. /\ (a \cup b) \cup c = Active(t)
      /\ a \cap b = {} /\ (a \cup b) \cap c = {}
  BY DEF Estado, WithEstado, Active, PropertyStatus
<1>3. IsFiniteSet(a) /\ IsFiniteSet(b) /\ IsFiniteSet(c)
  BY FS_Subset DEF Active, Estado, WithEstado
<1>4. LET n == Get(groups, "OCUPADA") + Get(groups, "DISPONIBLE") + Get(groups, "MANTENIMIENTO")
      IN  /\ OccupancyTotals(at).totalPropiedades = n
          /\ OccupancyTotals(at).occupancyRate = Rate(Get(groups, "OCUPADA"), n)
  BY DEF OccupancyTotals
<1> DEFINE n == Cardinality(a) + Cardinality(b) + Cardinality(c)
<1>5. /\ OccupancyTotals(at).totalPropiedades = n
      /\ OccupancyTotals(at).occupancyRate = Rate(Cardinality(a), n)
  <2> HIDE DEF groups
  <2> QED
    BY <1>1, <1>4
<1> HIDE DEF a, b, c
<1>6. Cardinality((a \cup b) \cup c) = n
  <2>1. IsFiniteSet(a \cup b)
    BY <1>3, FS_Union
  <2>2. Cardinality(a \cup b) = Cardinality(a) + Cardinality(b)
    BY <1>2, <1>3, CountUnion
  <2>3. Cardinality((a \cup b) \cup c) = Cardinality(a \cup b) + Cardinality(c)
    BY <1>2, <1>3, <2>1, CountUnion
  <2> QED
    BY <2>2, <2>3
<1> HIDE DEF n
<1> QED
  BY <1>2, <1>5, <1>6 DEF a

\* What the rows of the table bring in.
LEMMA Income ==
    ASSUME NEW d, NEW ids, \A y \in ids : d.payments[y]["monto"] \in Nat, Null \notin Int
    PROVE  /\ Sum(d.payments, ids, "monto") = Total(d, ids)
           /\ Total(d, ids) = Over([y \in ids |-> d.payments[y]["monto"]], ids)
<1>1. [i \in ids |-> IF d.payments[i]["monto"] = Null THEN 0 ELSE d.payments[i]["monto"]]
        = [y \in ids |-> d.payments[y]["monto"]]
  OBVIOUS
<1>2. Sum(d.payments, ids, "monto") = SumOf([y \in ids |-> d.payments[y]["monto"]])
  BY <1>1 DEF Sum
<1>3. Total(d, ids) = SumOf([y \in ids |-> d.payments[y]["monto"]])
  BY DEF Total
<1> DEFINE f == [y \in ids |-> d.payments[y]["monto"]]
<1>4. f = [y \in ids |-> f[y]]
  OBVIOUS
<1> HIDE DEF f
<1>5. SumOf(f) = Over(f, ids)
  BY <1>4, Zenon DEF Over
<1> QED
  BY <1>2, <1>3, <1>5 DEF f

\* What was collected, by method.
MethodRow(t, rows, m) ==
    [metodo |-> m, cantidad |-> Cardinality({y \in rows : t[y].metodo = m}),
     total |-> Sum(t, {y \in rows : t[y].metodo = m}, "monto")]

\* A paid payment without a method is in no row.
LEMMA TotalsOfMethods ==
    ASSUME NEW t, IsFiniteSet(DOMAIN t),
           \A y \in DOMAIN t : t[y]["monto"] \in Nat, Null \notin Int,
           NEW at, at["porMetodoPago"].payments = t
    PROVE  SumOf([x \in ByMethod(at) |-> x.total])
             = Sum(t, {y \in Estado(t, "PAGADO") : t[y].metodo # Null}, "monto")
<1> DEFINE A == {y \in Estado(t, "PAGADO") : t[y].metodo # Null}
           f == [i \in A |-> IF t[i]["monto"] = Null THEN 0 ELSE t[i]["monto"]]
           c == [y \in A |-> t[y].metodo]
           row == [y \in A |-> MethodRow(t, A, t[y].metodo)]
           report == ByMethod(at)
           h == [x \in report |-> x.total]
<1>1. IsFiniteSet(A) /\ A \subseteq DOMAIN t
  BY FS_Subset DEF Active, Estado, WithEstado
<1>3. report = {MethodRow(t, A, m) : m \in {t[y].metodo : y \in A}}
  <2>1. at["porMetodoPago"].payments = t
    OBVIOUS
  <2> HIDE DEF A
  <2>2. report = {MethodRow(t, A, m) : m \in {t[y].metodo : y \in A}}
    BY <2>1 DEF ByMethod, MethodRow, A
  <2> QED
    BY <2>2
<1>4. \A y \in A : f[y] \in Int /\ f[y] = t[y]["monto"] /\ c[y] = t[y].metodo
  BY <1>1
<1>5. ASSUME NEW m
      PROVE  MethodRow(t, A, m).metodo = m /\ MethodRow(t, A, m).total = Over(f, Class(A, c, m))
  <2> DEFINE class == {y \in A : t[y].metodo = m}
  <2>1. /\ MethodRow(t, A, m).metodo = m
        /\ MethodRow(t, A, m).total
             = SumOf([i \in class |-> IF t[i]["monto"] = Null THEN 0 ELSE t[i]["monto"]])
    BY DEF MethodRow, Sum
  <2>2. [i \in class |-> IF t[i]["monto"] = Null THEN 0 ELSE t[i]["monto"]] = [i \in class |-> f[i]]
    OBVIOUS
  <2>3. Class(A, c, m) = class
    BY DEF Class
  <2> HIDE DEF class, f, c, A
  <2>4. MethodRow(t, A, m).total = Over(f, class)
    BY <2>1, <2>2, Zenon DEF Over
  <2> QED
    BY <2>1, <2>3, <2>4, Zenon
<1>6. \A y \in A : row[y].metodo = c[y] /\ row[y].total = Over(f, Class(A, c, c[y]))
  <2> SUFFICES ASSUME NEW y \in A
               PROVE row[y].metodo = c[y] /\ row[y].total = Over(f, Class(A, c, c[y]))
    OBVIOUS
  <2>1. row[y] = MethodRow(t, A, c[y])
    OBVIOUS
  <2> HIDE DEF row, c, f, A
  <2> QED
    BY <1>5, <2>1
<1>7. \A y, z \in A : c[y] = c[z] => row[y] = row[z]
  OBVIOUS
<1>8. report = {row[y] : y \in A}
  <2> HIDE DEF report, A
  <2> QED
    BY <1>3
<1>9. IsFunction(h) /\ DOMAIN h = report /\ \A x \in report : h[x] = x.total
  BY DEF IsFunction
<1>10. /\ Sum(t, A, "monto") = Over(f, A)
       /\ SumOf([x \in ByMethod(at) |-> x.total]) = SumOf(h)
  <2>1. [i \in A |-> f[i]] = f
    OBVIOUS
  <2>2. Sum(t, A, "monto") = SumOf(f)
    BY DEF Sum
  <2> HIDE DEF f, A
  <2> QED
    BY <2>1, <2>2, Zenon DEF Over
<1> HIDE DEF A, f, c, row, report, h
<1>11. RowForEach(A, c, row, h)
  BY <1>6, <1>7, <1>8, <1>9 DEF RowForEach
<1>12. \A y \in A : h[row[y]] = Over(f, Class(A, c, c[y]))
  BY <1>6, <1>8, <1>9
<1>13. SumOf(h) = Over(f, A)
  <2>1. A \in SUBSET A /\ \A x \in A : f[x] \in Int
    BY <1>4
  <2> QED
    BY <1>1, <1>11, <1>12, <2>1, SumByRow
<1> QED
  BY <1>10, <1>13, Zenon DEF A

\* The rows with a method and those without make up what was collected.
LEMMA MethodsAndTheRest ==
    ASSUME NEW d, IsFiniteSet(DOMAIN d.payments),
           \A y \in DOMAIN d.payments : d.payments[y]["monto"] \in Nat, Null \notin Int,
           NEW at, at["porMetodoPago"].payments = d.payments
    PROVE  SumOf([x \in ByMethod(at) |-> x.total])
             + Total(d, {y \in AllPaid(d) : d.payments[y].metodo = Null})
             = Sum(d.payments, Estado(d.payments, "PAGADO"), "monto")
<1> DEFINE t == d.payments
           all == Estado(t, "PAGADO")
           A == {y \in all : t[y].metodo # Null}
           B == {y \in AllPaid(d) : t[y].metodo = Null}
           f == [y \in all |-> t[y]["monto"]]
<1>1. all = AllPaid(d)
  BY DEF AllPaid, Estado, WithEstado, Active
<1>2. A \cup B = all /\ A \cap B = {} /\ A \in SUBSET all /\ B \in SUBSET all
  <2> HIDE DEF all
  <2> QED
    BY <1>1
<1>3. IsFiniteSet(all) /\ \A y \in all : t[y]["monto"] \in Nat
  BY FS_Subset DEF Estado, WithEstado, Active
<1>4. SumOf([x \in ByMethod(at) |-> x.total]) = Sum(t, A, "monto")
  BY TotalsOfMethods
<1> HIDE DEF all, A, B
<1>5. ASSUME NEW s \in SUBSET all
      PROVE  Sum(d.payments, s, "monto") = Total(d, s) /\ Total(d, s) = Over(f, s)
  <2>1. \A y \in s : d.payments[y]["monto"] \in Nat
    BY <1>3
  <2> DEFINE g == [y \in s |-> d.payments[y]["monto"]]
  <2>2. Sum(d.payments, s, "monto") = Total(d, s) /\ Total(d, s) = Over(g, s)
    BY <2>1, Income
  <2>3. [y \in s |-> g[y]] = [y \in s |-> f[y]]
    OBVIOUS
  <2> HIDE DEF g, f
  <2>4. Over(g, s) = Over(f, s)
    BY <2>3, Zenon DEF Over
  <2> QED
    BY <2>2, <2>4
<1>6. \A y \in A \cup B : f[y] \in Int
  BY <1>2, <1>3
<1>7. IsFiniteSet(A) /\ IsFiniteSet(B)
  BY <1>2, <1>3, FS_Subset
<1> HIDE DEF f, t
<1>8. Over(f, A \cup B) = Over(f, A) + Over(f, B)
  BY <1>2, <1>6, <1>7, SumUnion
<1>9. Sum(d.payments, A, "monto") + Total(d, B) = Sum(d.payments, all, "monto")
  BY <1>2, <1>5, <1>8
<1> QED
  BY <1>4, <1>9 DEF A, B, all, t

\* The tickets, by category and by estado.
CategoryRow(t, c) ==
    [categoria |-> c, cantidad |-> Cardinality({k \in Active(t) : t[k].categoria = c}),
     costoTotal |-> Sum(t, {k \in Active(t) : t[k].categoria = c}, "costoFinal")]

LEMMA CategoriesOfTickets ==
    ASSUME NEW t, IsFiniteSet(DOMAIN t), NEW at, at["porCategoria"].tickets = t
    PROVE  SumOf([x \in ByCategory(at) |-> x.cantidad]) = Cardinality(Active(t))
<1> DEFINE A == Active(t)
           c == [k \in A |-> t[k].categoria]
           row == [k \in A |-> CategoryRow(t, t[k].categoria)]
           report == ByCategory(at)
           h == [x \in report |-> x.cantidad]
<1>1. IsFiniteSet(A) /\ A \in SUBSET A
  BY FS_Subset DEF Active
<1>2. report = {CategoryRow(t, v) : v \in {t[k].categoria : k \in A}}
  BY DEF ByCategory, CategoryRow
<1>3. ASSUME NEW v
      PROVE  /\ CategoryRow(t, v).categoria = v
             /\ CategoryRow(t, v).cantidad = Cardinality(Class(A, c, v))
  <2>1. Class(A, c, v) = {k \in A : t[k].categoria = v}
    BY DEF Class
  <2>2. /\ CategoryRow(t, v).categoria = v
        /\ CategoryRow(t, v).cantidad = Cardinality({k \in A : t[k].categoria = v})
    BY DEF CategoryRow
  <2> HIDE DEF A, c
  <2> QED
    BY <2>1, <2>2, Zenon
<1>4. \A k \in A : row[k].categoria = c[k] /\ row[k].cantidad = Cardinality(Class(A, c, c[k]))
  <2> SUFFICES ASSUME NEW k \in A
               PROVE  row[k].categoria = c[k] /\ row[k].cantidad = Cardinality(Class(A, c, c[k]))
    OBVIOUS
  <2>1. row[k] = CategoryRow(t, c[k])
    OBVIOUS
  <2> HIDE DEF row, c, A
  <2> QED
    BY <1>3, <2>1
<1>5. \A k, l \in A : c[k] = c[l] => row[k] = row[l]
  OBVIOUS
<1>6. report = {row[k] : k \in A}
  <2> HIDE DEF report, A
  <2> QED
    BY <1>2
<1>7. IsFunction(h) /\ DOMAIN h = report /\ \A x \in report : h[x] = x.cantidad
  BY DEF IsFunction
<1> HIDE DEF A, c, row, report, h
<1>8. RowForEach(A, c, row, h)
  BY <1>4, <1>5, <1>6, <1>7 DEF RowForEach
<1>9. \A k \in A : h[row[k]] = Cardinality(Class(A, c, c[k]))
  BY <1>4, <1>6, <1>7
<1>10. SumOf(h) = Cardinality(A)
  BY <1>1, <1>8, <1>9, CountByRow
<1> QED
  BY <1>10 DEF A, report, h

\* Every ticket is open, resolved or closed.
LEMMA StatesOfTickets ==
    ASSUME NEW t, IsFiniteSet(DOMAIN t), NEW at, at["porEstado"].tickets = t,
           at["urgentes"].tickets = t
    PROVE  LET c == TicketCounts(at)
           IN  /\ c.total = Cardinality(Active(t))
               /\ c.abiertos = Cardinality(WithEstado(t, OpenStates))
               /\ c.urgentes = Urgent(t)
               /\ c.resueltos + c.cerrados = Cardinality(WithEstado(t, ResolvedStates))
<1> DEFINE groups == GroupBy(t, Active(t), "estado")
           estado == [i \in Active(t) |-> t[i]["estado"]]
           A == Active(t)
           open == WithEstado(t, OpenStates)
           opened == [e \in OpenStates |-> Get(groups, e)]
<1>1. TicketCounts(at).total = SumOf(groups) /\ TicketCounts(at).abiertos = SumOf(opened)
      /\ TicketCounts(at).resueltos = Get(groups, "RESUELTO")
      /\ TicketCounts(at).cerrados = Get(groups, "CERRADO")
      /\ TicketCounts(at).urgentes = Urgent(t)
  BY DEF TicketCounts
<1>2. IsFiniteSet(A) /\ A \in SUBSET A /\ open \in SUBSET A /\ IsFiniteSet(open)
  BY FS_Subset DEF Active, WithEstado
<1>3. \A i \in A : estado[i] = t[i]["estado"]
  OBVIOUS
<1>4. ASSUME NEW e PROVE Get(groups, e) = Cardinality(Class(A, estado, e))
  <2>1. Get(groups, e) = Cardinality({i \in A : t[i]["estado"] = e})
    BY GetIsCount
  <2>2. Class(A, estado, e) = {i \in A : t[i]["estado"] = e}
    BY DEF Class
  <2> HIDE DEF groups, A, estado
  <2> QED
    BY <2>1, <2>2, Zenon
<1>5. /\ IsFunction(groups) /\ DOMAIN groups = {estado[i] : i \in A}
      /\ IsFunction(opened) /\ DOMAIN opened = OpenStates
      /\ \A e \in OpenStates : opened[e] = Get(groups, e)
  BY DEF GroupBy, IsFunction
<1>6. \A i \in A : groups[estado[i]] = Get(groups, estado[i])
  BY <1>5 DEF Get
<1>7. \A i \in open : i \in A /\ estado[i] \in OpenStates
  BY DEF WithEstado
<1>8. ASSUME NEW e \in OpenStates PROVE Class(A, estado, e) = Class(open, estado, e)
  BY DEF Class, WithEstado
<1>9. /\ Class(A, estado, "RESUELTO") \cup Class(A, estado, "CERRADO")
           = WithEstado(t, ResolvedStates)
      /\ Class(A, estado, "RESUELTO") \cap Class(A, estado, "CERRADO") = {}
  BY DEF Class, WithEstado, ResolvedStates
<1> HIDE DEF groups, estado, A, open, opened
<1>10. SumOf(groups) = Cardinality(A)
  <2>1. RowForEach(A, estado, estado, groups)
    BY <1>5 DEF RowForEach
  <2>2. \A i \in A : groups[estado[i]] = Cardinality(Class(A, estado, estado[i]))
    BY <1>4, <1>6
  <2> QED
    BY <1>2, <2>1, <2>2, CountByRow
<1>11. SumOf(opened) = Cardinality(open)
  <2>1. IsFiniteSet(OpenStates)
    <3>1. IsFiniteSet({"PENDIENTE"}) /\ IsFiniteSet({"EN_PROGRESO"})
          /\ IsFiniteSet({"ESPERANDO_REPUESTOS"})
      BY FS_Singleton
    <3>2. IsFiniteSet({"PENDIENTE"} \cup {"EN_PROGRESO"})
      BY <3>1, FS_Union
    <3>3. IsFiniteSet(({"PENDIENTE"} \cup {"EN_PROGRESO"}) \cup {"ESPERANDO_REPUESTOS"})
      BY <3>1, <3>2, FS_Union
    <3>4. OpenStates = ({"PENDIENTE"} \cup {"EN_PROGRESO"}) \cup {"ESPERANDO_REPUESTOS"}
      BY DEF OpenStates
    <3> QED
      BY <3>3, <3>4, Zenon
  <2>2. \A e \in OpenStates : opened[e] = Cardinality(Class(open, estado, e))
    BY <1>4, <1>5, <1>8
  <2>3. Over(opened, OpenStates) = Cardinality(open)
    BY <1>2, <1>7, <2>1, <2>2, CountByClass
  <2> QED
    BY <1>5, <2>3, SumAll
<1>12. Get(groups, "RESUELTO") + Get(groups, "CERRADO") = Cardinality(WithEstado(t, ResolvedStates))
  <2> DEFINE a == Class(A, estado, "RESUELTO")
             b == Class(A, estado, "CERRADO")
  <2>1. a \in SUBSET A /\ b \in SUBSET A
    BY DEF Class
  <2> HIDE DEF a, b
  <2>2. IsFiniteSet(a) /\ IsFiniteSet(b)
    BY <1>2, <2>1, FS_Subset
  <2>3. a \cap b = {}
    BY <1>9 DEF a, b
  <2>4. Cardinality(a \cup b) = Cardinality(a) + Cardinality(b)
    BY <2>2, <2>3, CountUnion
  <2>5. Get(groups, "RESUELTO") = Cardinality(a) /\ Get(groups, "CERRADO") = Cardinality(b)
    BY <1>4 DEF a, b
  <2>6. Cardinality(a \cup b) = Cardinality(WithEstado(t, ResolvedStates))
    BY <1>9, Zenon DEF a, b
  <2> QED
    BY <2>4, <2>5, <2>6
<1> QED
  BY <1>1, <1>10, <1>11, <1>12 DEF A, open

LEMMA FiguresOfDemo ==
    ASSUME SeedAssumption, NEW d, TablesOK(d), NEW now
    PROVE  FiguresAgree(d, now)
<1> DEFINE o == Overview(Still(OverviewQueries, d), now)
           r == PaymentsReport(Still(PaymentsQueries, d), now)
           p == PaymentStats(d, now)
           t == OccupancyTotals(Still(OccupancyQueries, d))
           byType == OccupancyByType(Still(OccupancyQueries, d))
           m == MaintenanceReport(Still(MaintenanceQueries, d), now)
           k == TicketStats(d)
           Of(e) == Cardinality(Estado(d.payments, e))
<1>1. /\ IsFiniteSet(DOMAIN d.props) /\ IsFiniteSet(DOMAIN d.payments)
      /\ IsFiniteSet(DOMAIN d.tickets)
  BY FiniteTables
<1>2. /\ \A i \in DOMAIN d.props : d.props[i].estado \in PropertyStatus
      /\ \A y \in DOMAIN d.payments : d.payments[y]["monto"] \in Nat
      /\ Null \notin Int
  BY DEF TablesOK, IsTable, PropertyRow, PaymentRow, SeedAssumption
<1>3. /\ o.propiedades.total = Cardinality(Active(d.props))
      /\ o.propiedades.ocupadas = Cardinality(Estado(d.props, "OCUPADA"))
      /\ o.propiedades.occupancyRate = Rate(o.propiedades.ocupadas, o.propiedades.total)
  BY OverviewOf
<1>4. /\ t.totalPropiedades = Cardinality(Active(d.props))
      /\ t.occupancyRate = Rate(Cardinality(Estado(d.props, "OCUPADA")),
                                Cardinality(Active(d.props)))
  <2> DEFINE at == Still(OccupancyQueries, d)
  <2>1. at["totalAgg"].props = d.props
    BY DEF Still, OccupancyQueries
  <2> HIDE DEF at
  <2>2. /\ OccupancyTotals(at).totalPropiedades = Cardinality(Active(d.props))
        /\ OccupancyTotals(at).occupancyRate
             = Rate(Cardinality(Estado(d.props, "OCUPADA")), Cardinality(Active(d.props)))
    BY <1>1, <1>2, <2>1, TotalsOfProperties
  <2> QED
    BY <2>2 DEF at
<1>5. /\ SumOf([x \in byType |-> x.ocupadas]) = Cardinality(Estado(d.props, "OCUPADA"))
      /\ SumOf([x \in byType |-> x.total]) = Cardinality(Active(d.props))
      /\ \A x \in byType : x.ocupadas \in 0..x.total
  <2> DEFINE at == Still(OccupancyQueries, d)
  <2>1. at["porTipo"].props = d.props /\ at["porTipoOcupadas"].props = d.props
    BY DEF Still, OccupancyQueries
  <2> HIDE DEF at
  <2>2. LET types == OccupancyByType(at)
        IN  /\ SumOf([x \in types |-> x.ocupadas]) = Cardinality(Estado(d.props, "OCUPADA"))
            /\ SumOf([x \in types |-> x.total]) = Cardinality(Active(d.props))
            /\ \A x \in types : x.ocupadas \in 0..x.total
    BY <1>1, <2>1, TypesOfProperties
  <2> QED
    BY <2>2 DEF at
<1>6. /\ o.pagos.counts.pagados = Of("PAGADO")
      /\ o.pagos.collectionRate = Rate(Of("PAGADO"), Of("PENDIENTE") + Of("VENCIDO") + Of("PAGADO"))
      /\ o.pagos.ingresosMesActual = PaidSince(d, FirstDayOfMonth(now))
  <2>1. o.pagos.counts.pagados = Of("PAGADO") /\ o.pagos.counts.pendientes = Of("PENDIENTE")
        /\ o.pagos.counts.vencidos = Of("VENCIDO")
    BY OverviewOf
  <2>2. o.pagos.collectionRate
          = Rate(o.pagos.counts.pagados, o.pagos.counts.pendientes
                   + o.pagos.counts.vencidos + o.pagos.counts.pagados)
        /\ o.pagos.ingresosMesActual = PaidSince(d, FirstDayOfMonth(now))
    BY OverviewOf
  <2> HIDE DEF o
  <2> QED
    BY <2>1, <2>2
<1>7. /\ p.porcentajeCobranza = Rate(Of("PAGADO"), Of("PENDIENTE") + Of("VENCIDO") + Of("PAGADO"))
      /\ p.totalCobradoMes = PaidSince(d, FirstDayOfMonth(now))
      /\ p.montoPendiente = PaymentSum(d, "PENDIENTE", "monto")
      /\ p.montoVencido = PaymentSum(d, "VENCIDO", "monto")
      /\ p.ingresosTotales = PaymentSum(d, "PAGADO", "monto")
  BY DEF PaymentStats
<1>8. /\ r.montoPendiente = PaymentSum(d, "PENDIENTE", "monto")
      /\ r.montoVencido = PaymentSum(d, "VENCIDO", "monto")
      /\ r.totalCobrado = PaymentSum(d, "PAGADO", "monto")
      /\ r.conteos = PaymentCounts(Still(PaymentsQueries, d))
      /\ r.ultimos30Dias.cobrado = PaidSince(d, now - 30)
      /\ r.porMetodoPago = ByMethod(Still(PaymentsQueries, d))
  BY DEF PaymentsReport, Still, PaymentsQueries, Last30Days
<1>9. /\ r.conteos.pagados = Of("PAGADO") /\ r.conteos.parciales = Of("PARCIAL")
      /\ r.conteos.collectionRate
           = Rate(Of("PAGADO"), Of("PENDIENTE") + Of("VENCIDO") + Of("PAGADO") + Of("PARCIAL"))
  <2>1. LET c == PaymentCounts(Still(PaymentsQueries, d))
        IN  /\ c.pagados = Of("PAGADO") /\ c.parciales = Of("PARCIAL")
            /\ c.collectionRate
                 = Rate(Of("PAGADO"), Of("PENDIENTE") + Of("VENCIDO") + Of("PAGADO") + Of("PARCIAL"))
    BY PaymentFigures
  <2> HIDE DEF r
  <2> QED
    BY <1>8, <2>1
<1>10. SumOf([x \in r.porMetodoPago |-> x.total])
         + Total(d, {y \in AllPaid(d) : d.payments[y].metodo = Null})
         = PaymentSum(d, "PAGADO", "monto")
  <2> DEFINE at == Still(PaymentsQueries, d)
  <2>1. at["porMetodoPago"].payments = d.payments
    BY DEF Still, PaymentsQueries
  <2>2. r.porMetodoPago = ByMethod(at)
    BY <1>8
  <2> HIDE DEF at, r
  <2>3. SumOf([x \in ByMethod(at) |-> x.total])
          + Total(d, {y \in AllPaid(d) : d.payments[y].metodo = Null})
          = Sum(d.payments, Estado(d.payments, "PAGADO"), "monto")
    BY <1>1, <1>2, <2>1, MethodsAndTheRest
  <2> QED
    BY <2>2, <2>3 DEF PaymentSum
<1>11. PaidSince(d, now - 30) <= PaymentSum(d, "PAGADO", "monto")
  <2> DEFINE A == Estado(d.payments, "PAGADO")
             s == Since(d.payments, A, "fechaPago", now - 30)
             f == [i \in A |-> IF d.payments[i]["monto"] = Null THEN 0 ELSE d.payments[i]["monto"]]
  <2>1. A \in SUBSET DOMAIN d.payments /\ s \in SUBSET A
    BY DEF Estado, WithEstado, Active, Since
  <2>2. \A i \in A : f[i] \in Nat
    BY <1>2, <2>1
  <2>3. IsFiniteSet(A)
    BY <1>1, <2>1, FS_Subset
  <2>4. PaymentSum(d, "PAGADO", "monto") = Over(f, A)
    <3>1. PaymentSum(d, "PAGADO", "monto") = SumOf(f)
      BY DEF PaymentSum, Sum
    <3>2. f = [i \in A |-> f[i]]
      OBVIOUS
    <3> HIDE DEF A, f
    <3> QED
      BY <3>1, <3>2, Zenon DEF Over
  <2>5. PaidSince(d, now - 30) = Over(f, s)
    <3> DEFINE g == [i \in s |-> IF d.payments[i]["monto"] = Null THEN 0 ELSE d.payments[i]["monto"]]
    <3>1. PaidSince(d, now - 30) = SumOf(g)
      BY DEF PaidSince, Sum
    <3> HIDE DEF s, A
    <3>2. g = [i \in s |-> f[i]]
      BY <2>1
    <3> HIDE DEF f, g
    <3> QED
      BY <3>1, <3>2, Zenon DEF Over
  <2> HIDE DEF A, s, f
  <2> QED
    BY <2>1, <2>2, <2>3, <2>4, <2>5, SumLess
<1>12. /\ m.tickets.total = Cardinality(Active(d.tickets))
       /\ m.tickets.abiertos = Cardinality(WithEstado(d.tickets, OpenStates))
       /\ m.tickets.urgentes = Urgent(d.tickets)
       /\ m.tickets.resueltos + m.tickets.cerrados
            = Cardinality(WithEstado(d.tickets, ResolvedStates))
  <2> DEFINE at == Still(MaintenanceQueries, d)
  <2>1. at["porEstado"].tickets = d.tickets /\ at["urgentes"].tickets = d.tickets
    BY DEF Still, MaintenanceQueries
  <2>2. m.tickets = TicketCounts(at)
    BY DEF MaintenanceReport
  <2> HIDE DEF at, m
  <2>3. LET c == TicketCounts(at)
        IN  /\ c.total = Cardinality(Active(d.tickets))
            /\ c.abiertos = Cardinality(WithEstado(d.tickets, OpenStates))
            /\ c.urgentes = Urgent(d.tickets)
            /\ c.resueltos + c.cerrados = Cardinality(WithEstado(d.tickets, ResolvedStates))
    BY <1>1, <2>1, StatesOfTickets
  <2> QED
    BY <2>2, <2>3
<1>13. SumOf([c \in m.porCategoria |-> c.cantidad]) = Cardinality(Active(d.tickets))
  <2> DEFINE at == Still(MaintenanceQueries, d)
  <2>1. at["porCategoria"].tickets = d.tickets
    BY DEF Still, MaintenanceQueries
  <2>2. m.porCategoria = ByCategory(at)
    BY DEF MaintenanceReport
  <2> HIDE DEF at, m
  <2>3. SumOf([x \in ByCategory(at) |-> x.cantidad]) = Cardinality(Active(d.tickets))
    BY <1>1, <2>1, CategoriesOfTickets
  <2> QED
    BY <2>2, <2>3
<1>14. /\ k.ticketsAbiertos = Cardinality(WithEstado(d.tickets, OpenStates))
       /\ k.ticketsUrgentes = Urgent(d.tickets)
       /\ k.ticketsResueltos = Cardinality(WithEstado(d.tickets, ResolvedStates))
  BY DEF TicketStats
<1>15. o.mantenimiento.costosTotales = m.costos.costosTotales
  <2>1. o.mantenimiento.costosTotales
          = Sum(d.tickets, WithEstado(d.tickets, ResolvedStates), "costoFinal")
    BY OverviewOf
  <2>2. m.costos.costosTotales
          = Sum(d.tickets, WithEstado(d.tickets, ResolvedStates), "costoFinal")
    BY DEF MaintenanceReport, TicketCosts, Still, MaintenanceQueries
  <2> QED
    BY <2>1, <2>2
<1>16. r.conteos.parciales = 0 => r.conteos.collectionRate = p.porcentajeCobranza
  <2>1. ASSUME NEW e PROVE Of(e) \in Nat
    <3>1. IsFiniteSet(Estado(d.payments, e))
      BY <1>1, FS_Subset DEF Estado, WithEstado, Active
    <3> QED
      BY <3>1, FS_CardinalityType
  <2> DEFINE three == Of("PENDIENTE") + Of("VENCIDO") + Of("PAGADO")
             part == Of("PARCIAL")
  <2>2. three \in Nat
    BY <2>1
  <2> HIDE DEF three, Of, part, r, p
  <2>3. part = 0 => three + part = three
    BY <2>2
  <2> QED
    BY <1>7, <1>9, <2>3 DEF three, part
<1> HIDE DEF o, r, p, t, byType, m, k
<1>17. /\ o.propiedades.total = t.totalPropiedades
       /\ o.propiedades.occupancyRate = t.occupancyRate
       /\ o.propiedades.ocupadas = SumOf([x \in byType |-> x.ocupadas])
       /\ o.propiedades.total = SumOf([x \in byType |-> x.total])
  BY <1>3, <1>4, <1>5
<1>18. /\ o.pagos.counts.pagados = r.conteos.pagados
       /\ o.pagos.collectionRate = p.porcentajeCobranza
       /\ o.pagos.ingresosMesActual = p.totalCobradoMes
  BY <1>6, <1>7, <1>9
<1>19. /\ <<p.montoPendiente, p.montoVencido, p.ingresosTotales>>
            = <<r.montoPendiente, r.montoVencido, r.totalCobrado>>
       /\ SumOf([x \in r.porMetodoPago |-> x.total])
            + Total(d, {y \in AllPaid(d) : d.payments[y].metodo = Null}) = r.totalCobrado
       /\ r.ultimos30Dias.cobrado <= r.totalCobrado
  BY <1>7, <1>8, <1>10, <1>11
<1>20. /\ m.tickets.total = Cardinality(Active(d.tickets))
       /\ <<m.tickets.abiertos, m.tickets.urgentes, m.tickets.resueltos + m.tickets.cerrados>>
            = <<k.ticketsAbiertos, k.ticketsUrgentes, k.ticketsResueltos>>
       /\ SumOf([c \in m.porCategoria |-> c.cantidad]) = m.tickets.total
  BY <1>12, <1>13, <1>14
<1> QED
  BY <1>5, <1>15, <1>16, <1>17, <1>18, <1>19, <1>20
     DEF FiguresAgree, o, r, p, t, byType, m, k

-----------------------------------------------------------------------------
(***************************************************************************)
(* The revenue.                                                            *)
(***************************************************************************)
\* The months from n to m are the days from the first of one to the last of the other.
LEMMA MonthsOfDates ==
    ASSUME NEW n \in Nat, NEW m \in Nat, n <= m + 1, NEW date \in Nat
    PROVE  date \in FirstDay(n)..(FirstDay(m + 1) - 1) <=> MonthOf(date) \in n..m
<1> DEFINE k == MonthOf(date)
<1>1. /\ k \in Nat /\ FirstDay(k) <= date /\ date < FirstDay(k + 1)
      /\ FirstDay(n) \in Nat /\ FirstDay(m + 1) \in Nat
      /\ FirstDay(k) \in Nat /\ FirstDay(k + 1) \in Nat
  BY MonthOfDate, MonthLength
<1> HIDE DEF k
<1>2. k < n => FirstDay(k + 1) <= FirstDay(n)
  BY <1>1, MonthsGrow
<1>3. n < k => FirstDay(n) <= FirstDay(k)
  <2>1. n < k => FirstDay(n + 1) <= FirstDay(k)
    BY <1>1, MonthsGrow
  <2>2. FirstDay(n + 1) - FirstDay(n) \in 28..31 /\ FirstDay(n + 1) \in Nat
    BY MonthLength
  <2> QED
    BY <1>1, <2>1, <2>2
<1>4. m + 1 < k => FirstDay(m + 1) <= FirstDay(k)
  <2>1. m + 1 < k => FirstDay((m + 1) + 1) <= FirstDay(k)
    BY <1>1, MonthsGrow
  <2>2. FirstDay((m + 1) + 1) - FirstDay(m + 1) \in 28..31 /\ FirstDay((m + 1) + 1) \in Nat
    BY MonthLength
  <2> QED
    BY <1>1, <2>1, <2>2
<1>5. k <= m => FirstDay(k + 1) <= FirstDay(m + 1)
  <2>1. k < m + 1 => FirstDay(k + 1) <= FirstDay(m + 1)
    BY <1>1, MonthsGrow
  <2> QED
    BY <1>1, <2>1
<1>6. CASE k \in n..m
  BY <1>1, <1>3, <1>5, <1>6 DEF k
<1>7. CASE k < n
  BY <1>1, <1>2, <1>7 DEF k
<1>8. CASE k > m
  BY <1>1, <1>4, <1>8 DEF k
<1> QED
  BY <1>1, <1>6, <1>7, <1>8

\* The months of the report and of a year.
LEMMA MonthsOfReport ==
    ASSUME SeedAssumption, NEW now \in Todays
    PROVE  LET this == MonthOf(now)
               year == January(now)
           IN  /\ this \in Nat /\ this >= 24
               /\ MonthSlots(now) = (this - 11)..this
               /\ year \in Nat /\ year >= 24 /\ this \in year..(year + 11)
               /\ (year - 1) % 12 = 11
<1> DEFINE this == MonthOf(now)
           year == January(now)
<1>1. this \in Nat /\ this >= 24
  BY TodayIsLate
<1>2. ASSUME NEW i \in 0..11 PROVE MonthOf(DateOf(this - i, 1)) = this - i
  <2>1. this - i \in Nat /\ 1 \in 1..28
    BY <1>1
  <2> DEFINE n == this - i
  <2> HIDE DEF n
  <2>2. MonthOf(DateOf(n, 1)) = n
    BY <2>1, MonthOfDateOf DEF n
  <2> QED
    BY <2>2 DEF n
<1>3. MonthSlots(now) = {MonthOf(DateOf(this - i, 1)) : i \in 0..11}
  BY DEF MonthSlots
<1> HIDE DEF this
<1>4. {MonthOf(DateOf(this - i, 1)) : i \in 0..11} = {this - i : i \in 0..11}
  BY <1>2
<1>5. {this - i : i \in 0..11} = (this - 11)..this
  <2>1. ASSUME NEW n \in (this - 11)..this PROVE this - n \in 0..11 /\ n = this - (this - n)
    BY <1>1
  <2>2. ASSUME NEW i \in 0..11 PROVE this - i \in (this - 11)..this
    BY <1>1
  <2> QED
    BY <2>1, <2>2
<1>6. year = 12 * (this \div 12)
  BY DEF January, this
<1> HIDE DEF year
<1>7. year \in Nat /\ year >= 24 /\ this \in year..(year + 11)
  BY <1>1, <1>6
<1>8. (year - 1) % 12 = 11
  BY <1>1, <1>6
<1> QED
  BY <1>1, <1>3, <1>4, <1>5, <1>7, <1>8 DEF this, year

\* A finite set of months has a first one with the highest income.
Beats(m, other) ==
    m.ingresos > other.ingresos \/ (m.ingresos = other.ingresos /\ m.mes <= other.mes)

\* The smallest set without one would not be empty.
LEMMA BestExists ==
    ASSUME NEW K, IsFiniteSet(K), K # {}, \A m \in K : m.ingresos \in Int /\ m.mes \in Int
    PROVE  \E m \in K : \A other \in K : Beats(m, other)
<1> DEFINE bad == {s \in SUBSET K : s # {} /\ ~\E m \in s : \A other \in s : Beats(m, other)}
<1> SUFFICES ASSUME bad # {} PROVE FALSE
  OBVIOUS
<1>1. PICK s \in bad : \A r \in SUBSET s : r # s => r \notin bad
  <2>1. bad \subseteq SUBSET K
    OBVIOUS
  <2> HIDE DEF bad
  <2> QED
    BY <2>1, SmallestSubset
<1>2. PICK x : x \in s
  BY <1>1
<1>3. s \ {x} = {} \/ \E m \in s \ {x} : \A other \in s \ {x} : Beats(m, other)
  BY <1>1, <1>2
<1>4. \A a, b, c \in s : Beats(a, a) /\ (Beats(a, b) \/ Beats(b, a))
                         /\ (Beats(a, b) /\ Beats(b, c) => Beats(a, c))
  <2> SUFFICES ASSUME NEW a \in s, NEW b \in s, NEW c \in s
               PROVE  Beats(a, a) /\ (Beats(a, b) \/ Beats(b, a))
                        /\ (Beats(a, b) /\ Beats(b, c) => Beats(a, c))
    OBVIOUS
  <2>1. /\ a.ingresos \in Int /\ a.mes \in Int /\ b.ingresos \in Int /\ b.mes \in Int
        /\ c.ingresos \in Int /\ c.mes \in Int
    BY <1>1
  <2> HIDE DEF bad
  <2> QED
    BY <2>1 DEF Beats
<1>5. ~\E m \in s : \A other \in s : Beats(m, other)
  BY <1>1
<1> HIDE DEF bad
<1>6. CASE s \ {x} = {}
  BY <1>2, <1>4, <1>5, <1>6
<1>7. ASSUME NEW m \in s \ {x}, \A other \in s \ {x} : Beats(m, other) PROVE FALSE
  <2>1. CASE Beats(m, x)
    BY <1>2, <1>5, <1>7, <2>1
  <2>2. CASE Beats(x, m)
    BY <1>2, <1>4, <1>5, <1>7, <2>2
  <2> QED
    BY <1>2, <1>4, <2>1, <2>2
<1> QED
  BY <1>3, <1>6, <1>7

LEMMA BestIsBest ==
    ASSUME NEW K, IsFiniteSet(K), \A m \in K : m.ingresos \in Int /\ m.mes \in Int,
           BestMonth(K) # Null
    PROVE  \A m \in K : m.ingresos <= BestMonth(K).ingresos
<1>1. K # {} /\ BestMonth(K) = CHOOSE m \in K : \A other \in K :
        m.ingresos > other.ingresos \/ (m.ingresos = other.ingresos /\ m.mes <= other.mes)
  BY DEF BestMonth
<1>2. BestMonth(K) = CHOOSE m \in K : \A other \in K : Beats(m, other)
  BY <1>1 DEF Beats
<1>3. BestMonth(K) \in K /\ \A other \in K : Beats(BestMonth(K), other)
  BY <1>1, <1>2, BestExists
<1> QED
  BY <1>3 DEF Beats

\* The row of one month, and the payments of it.
MonthRow(t, now, slot) ==
    LET rows == Since(t, Estado(t, "PAGADO"), "fechaPago", DateOf(MonthOf(now) - 11, 1))
        paid == {y \in rows : MonthOf(t[y].fechaPago) = slot}
    IN  [mes |-> slot, ingresos |-> Sum(t, paid, "monto"), cantidadPagos |-> Cardinality(paid)]

LEMMA MonthRows ==
    ASSUME NEW t, NEW now
    PROVE  Last12Months(t, now) = {MonthRow(t, now, slot) : slot \in MonthSlots(now)}
  BY DEF Last12Months, MonthRow

\* What the tables hold of the payments.
PaymentsOn(d) ==
    /\ \A y \in DOMAIN d.payments : d.payments[y]["monto"] \in Nat
    /\ \A y \in DOMAIN d.payments : d.payments[y].estado = "PAGADO" => d.payments[y].fechaPago # Null
    /\ \A y \in DOMAIN d.payments : d.payments[y].fechaPago \in Nat \cup {Null}
    /\ IsFiniteSet(DOMAIN d.payments)
    /\ Null \notin Int

\* The payments paid in the months from n to m, by month.
LEMMA PaidInMonths ==
    ASSUME NEW d, PaymentsOn(d), NEW n \in Nat, NEW m \in Nat, n <= m + 1
    PROVE  Paid(d, n, m)
             = {y \in Estado(d.payments, "PAGADO") : MonthOf(d.payments[y].fechaPago) \in n..m}
<1> DEFINE t == d.payments
<1>1. Estado(t, "PAGADO") = {y \in DOMAIN t : t[y].isActive /\ t[y].estado = "PAGADO"}
  BY DEF Estado, WithEstado, Active
<1>2. Paid(d, n, m) = {y \in Estado(t, "PAGADO") :
                         t[y].fechaPago \in FirstDay(n)..(FirstDay(m + 1) - 1)}
  BY <1>1 DEF Paid, AllPaid
<1>3. ASSUME NEW y \in Estado(t, "PAGADO")
      PROVE  t[y].fechaPago \in FirstDay(n)..(FirstDay(m + 1) - 1)
               <=> MonthOf(t[y].fechaPago) \in n..m
  <2>1. t[y].fechaPago \in Nat
    BY <1>1, <1>3 DEF PaymentsOn
  <2> QED
    BY <2>1, MonthsOfDates
<1> HIDE DEF t
<1>4. Paid(d, n, m) = {y \in Estado(t, "PAGADO") : MonthOf(t[y].fechaPago) \in n..m}
  BY <1>2, <1>3
<1> QED
  BY <1>4 DEF t

\* The row of a month holds what was paid from its first day to its last.
LEMMA MonthRowHolds ==
    ASSUME SeedAssumption, NEW now \in Todays, NEW d, PaymentsOn(d),
           NEW slot \in MonthSlots(now)
    PROVE  LET row == MonthRow(d.payments, now, slot)
               paid == Paid(d, slot, slot)
           IN  /\ row.mes = slot
               /\ row.ingresos = Total(d, paid)
               /\ row.cantidadPagos = Cardinality(paid)
<1> DEFINE t == d.payments
           this == MonthOf(now)
           first == DateOf(this - 11, 1)
           A == Estado(t, "PAGADO")
           rows == Since(t, A, "fechaPago", first)
           paid == Paid(d, slot, slot)
           In == {y \in rows : MonthOf(t[y].fechaPago) = slot}
<1>1. this \in Nat /\ slot \in (this - 11)..this /\ slot \in Nat /\ this - 11 \in Nat
  BY MonthsOfReport
<1>2. first = FirstDay(this - 11) /\ first \in Nat
  <2>1. FirstDay(this - 11) \in Nat
    BY <1>1, MonthLength
  <2> HIDE DEF this
  <2> QED
    BY <2>1 DEF DateOf
<1>3. paid = {y \in A : MonthOf(t[y].fechaPago) \in slot..slot}
  BY <1>1, PaidInMonths
<1>4. paid = {y \in A : MonthOf(t[y].fechaPago) = slot}
  <2> HIDE DEF paid, A
  <2> QED
    BY <1>1, <1>3
<1>5. ASSUME NEW y \in paid PROVE t[y].fechaPago # Null /\ t[y].fechaPago >= first
  <2>1. t[y].fechaPago \in Nat /\ MonthOf(t[y].fechaPago) = slot /\ t[y].fechaPago # Null
    BY <1>4, <1>5 DEF PaymentsOn, Estado, WithEstado, Active
  <2> DEFINE date == t[y].fechaPago
             n == this - 11
  <2> HIDE DEF date, n
  <2>2. date \in Nat /\ MonthOf(date) \in n..slot /\ n \in Nat /\ n <= slot + 1
    BY <1>1, <2>1 DEF date, n
  <2>3. date \in FirstDay(n)..(FirstDay(slot + 1) - 1)
    BY <1>1, <2>2, MonthsOfDates
  <2>4. FirstDay(n) \in Nat
    BY <1>2 DEF n
  <2>5. date >= first
    BY <1>2, <2>3, <2>4 DEF n
  <2> QED
    BY <2>1, <2>5 DEF date
<1>6. In = paid
  <2>1. rows = {y \in A : t[y]["fechaPago"] # Null /\ t[y]["fechaPago"] >= first}
    BY DEF Since
  <2> HIDE DEF paid, A, first, rows
  <2> QED
    BY <1>4, <1>5, <2>1
<1>7. /\ MonthRow(t, now, slot).mes = slot
      /\ MonthRow(t, now, slot).ingresos = Sum(t, In, "monto")
      /\ MonthRow(t, now, slot).cantidadPagos = Cardinality(In)
  BY DEF MonthRow
<1>8. Sum(t, paid, "monto") = Total(d, paid)
  <2>1. \A y \in paid : d.payments[y]["monto"] \in Nat
    BY <1>4 DEF PaymentsOn, Estado, WithEstado, Active
  <2> HIDE DEF paid
  <2> QED
    BY <2>1, Income DEF PaymentsOn
<1> HIDE DEF In
<1> QED
  BY <1>6, <1>7, <1>8

\* The rows of the report, one for each of the 12 months.
LEMMA MonthsOfRevenue ==
    ASSUME SeedAssumption, NEW now \in Todays, NEW d, PaymentsOn(d)
    PROVE  LET months == Last12Months(d.payments, now)
               this == MonthOf(now)
           IN  /\ {m.mes : m \in months} = (this - 11)..this
               /\ \A m \in months : m.mes \in Nat /\ m.ingresos \in Nat
               /\ \A m \in months : LET paid == Paid(d, m.mes, m.mes) IN
                    m.ingresos = Total(d, paid) /\ m.cantidadPagos = Cardinality(paid)
               /\ IsFiniteSet(months)
               /\ SumOf([m \in months |-> m.ingresos]) = Total(d, Paid(d, this - 11, this))
<1> DEFINE t == d.payments
           months == Last12Months(t, now)
           this == MonthOf(now)
           slots == (this - 11)..this
           row == [slot \in slots |-> MonthRow(t, now, slot)]
           S == Paid(d, this - 11, this)
           f == [y \in S |-> t[y]["monto"]]
           c == [y \in S |-> row[MonthOf(t[y].fechaPago)]]
           h == [m \in months |-> m.ingresos]
<1>1. this \in Nat /\ this - 11 \in Nat /\ slots = MonthSlots(now) /\ slots \subseteq Nat
  BY MonthsOfReport
<1>2. months = {row[slot] : slot \in slots}
  <2>1. months = {MonthRow(t, now, slot) : slot \in slots}
    BY <1>1, MonthRows
  <2>2. \A slot \in slots : row[slot] = MonthRow(t, now, slot)
    OBVIOUS
  <2> HIDE DEF months, row, slots
  <2> QED
    BY <2>1, <2>2
<1>3. \A slot \in slots : /\ row[slot].mes = slot
                          /\ row[slot].ingresos = Total(d, Paid(d, slot, slot))
                          /\ row[slot].cantidadPagos = Cardinality(Paid(d, slot, slot))
  BY <1>1, MonthRowHolds
<1>4. S = {y \in Estado(t, "PAGADO") : MonthOf(t[y].fechaPago) \in slots}
  <2> DEFINE n == this - 11
             A == Estado(t, "PAGADO")
  <2> HIDE DEF n, this
  <2>1. n \in Nat /\ this \in Nat /\ n <= this + 1
    BY <1>1 DEF n
  <2>2. Paid(d, n, this) = {y \in Estado(d.payments, "PAGADO") : MonthOf(d.payments[y].fechaPago) \in n..this}
    BY <2>1, PaidInMonths
  <2> QED
    BY <2>2, Zenon DEF n
<1>5. IsFiniteSet(S) /\ \A y \in S : t[y]["monto"] \in Nat
  <2>1. S \in SUBSET DOMAIN t
    BY <1>4 DEF Estado, WithEstado, Active
  <2> HIDE DEF S
  <2> QED
    BY <2>1, FS_Subset DEF PaymentsOn
<1>6. \A y \in S : f[y] = t[y]["monto"] /\ f[y] \in Int
  BY <1>5
<1>7. \A y \in S : c[y] = row[MonthOf(t[y].fechaPago)] /\ MonthOf(t[y].fechaPago) \in slots
  <2> HIDE DEF slots, row
  <2> QED
    BY <1>4
<1>8. ASSUME NEW slot \in slots
      PROVE  /\ Total(d, Paid(d, slot, slot)) = Over(f, Class(S, c, row[slot]))
             /\ Total(d, Paid(d, slot, slot)) \in Nat
  <2> DEFINE paid == Paid(d, slot, slot)
  <2>1. paid = {y \in Estado(t, "PAGADO") : MonthOf(t[y].fechaPago) \in slot..slot}
    <3>1. slot \in Nat
      BY <1>1
    <3>2. slot <= slot + 1
      BY <3>1
    <3> QED
      BY <3>1, <3>2, PaidInMonths
  <2>2. slot..slot = {slot}
    BY <1>1
  <2> HIDE DEF S, c, row, paid, slots, f
  <2>3. paid = {y \in S : MonthOf(t[y].fechaPago) = slot}
    BY <1>4, <2>1, <2>2
  <2>4. Class(S, c, row[slot]) = paid
    BY <1>3, <1>7, <2>3 DEF Class
  <2>5. \A y \in paid : y \in S
    BY <2>3
  <2>6. \A y \in paid : d.payments[y]["monto"] \in Nat
    BY <1>5, <2>5
  <2>7. Null \notin Int
    BY DEF PaymentsOn
  <2> DEFINE g == [y \in paid |-> d.payments[y]["monto"]]
  <2>8. Total(d, paid) = Over(g, paid)
    BY <2>6, <2>7, Income
  <2>9. [y \in paid |-> g[y]] = [y \in paid |-> f[y]]
    BY <1>6, <2>5
  <2>10. \A y \in paid : g[y] \in Nat
    BY <2>6
  <2>11. IsFiniteSet(paid)
    <3>1. paid \in SUBSET S
      BY <2>5
    <3> QED
      BY <1>5, <3>1, FS_Subset
  <2> HIDE DEF g
  <2>12. Over(g, paid) = Over(f, paid)
    BY <2>9, Zenon DEF Over
  <2>13. Over(g, paid) \in Nat
    BY <2>10, <2>11, SumNat
  <2> QED
    BY <2>4, <2>8, <2>12, <2>13 DEF paid
<1>9. IsFiniteSet(months)
  <2>1. IsFiniteSet(slots)
    BY <1>1, FS_Interval
  <2> HIDE DEF slots, row, months
  <2>2. IsFiniteSet({row[slot] : slot \in slots})
    BY <2>1, FiniteImage
  <2> QED
    BY <1>2, <2>2, Zenon
<1>10. Total(d, S) = Over(f, S)
  <2>1. \A y \in S : d.payments[y]["monto"] \in Nat
    BY <1>5
  <2>2. Null \notin Int
    BY DEF PaymentsOn
  <2> HIDE DEF S
  <2> QED
    BY <2>1, <2>2, Income
<1>11. IsFunction(h) /\ DOMAIN h = months /\ \A m \in months : h[m] = m.ingresos
  BY DEF IsFunction
<1> HIDE DEF months, slots, row, S, f, c, h
<1>12. \A y \in S : c[y] \in months
  BY <1>2, <1>7
<1>13. \A m \in months : h[m] = Over(f, Class(S, c, m))
  BY <1>2, <1>3, <1>8, <1>11
<1>14. Over(h, months) = Over(f, S)
  BY <1>5, <1>6, <1>9, <1>12, <1>13, SumByClass
<1>15. SumOf(h) = Total(d, S)
  BY <1>10, <1>11, <1>14, SumAll
<1>16. {m.mes : m \in months} = slots
  BY <1>2, <1>3
<1>17. \A m \in months : m.mes \in Nat /\ m.ingresos \in Nat
  BY <1>1, <1>2, <1>3, <1>8
<1>18. \A m \in months : /\ m.ingresos = Total(d, Paid(d, m.mes, m.mes))
                         /\ m.cantidadPagos = Cardinality(Paid(d, m.mes, m.mes))
  BY <1>2, <1>3
<1> QED
  BY <1>9, <1>15, <1>16, <1>17, <1>18 DEF months, slots, S, h

\* The year so far and the year before.
LEMMA YearsOfRevenue ==
    ASSUME SeedAssumption, NEW now \in Todays, NEW d, PaymentsOn(d)
    PROVE  LET year == January(now)
               lastYear == {y \in Paid(d, year - 12, year - 1) :
                              d.payments[y].fechaPago # DateOf(year - 1, 31)}
               paid == {y \in AllPaid(d) : d.payments[y].fechaPago >= FirstDay(year)}
           IN  /\ ThisYear(d, now) = Total(d, paid)
               /\ LastYear(d, now) = Total(d, lastYear)
<1> DEFINE year == January(now)
           t == d.payments
           A == Estado(t, "PAGADO")
           paid == {y \in AllPaid(d) : t[y].fechaPago >= FirstDay(year)}
           before == Paid(d, year - 12, year - 1)
           lastYear == {y \in before : t[y].fechaPago # DateOf(year - 1, 31)}
           upTo == {y \in A : t[y].fechaPago # Null /\ t[y].fechaPago < DateOf(year, 0)}
<1>1. year \in Nat /\ year >= 24 /\ (year - 1) % 12 = 11
  BY MonthsOfReport
<1>2. A = AllPaid(d)
  BY DEF Estado, WithEstado, Active, AllPaid
<1>3. \A y \in A : /\ t[y].fechaPago \in Nat /\ t[y].fechaPago # Null
                   /\ t[y]["monto"] \in Nat
  BY <1>2 DEF PaymentsOn, AllPaid
<1> HIDE DEF year, A, t
<1>4. /\ DateOf(year, 1) = FirstDay(year) /\ DateOf(year, 0) = FirstDay(year) - 1
      /\ DateOf(year - 12, 1) = FirstDay(year - 12)
      /\ DateOf(year - 1, 31) = FirstDay(year) - 1
      /\ FirstDay(year) \in Nat /\ FirstDay(year - 12) \in Nat
  <2> DEFINE last == year - 1
             old == year - 12
  <2>1. last \in Nat /\ last % 12 = 11 /\ old \in Nat /\ last + 1 = year
    BY <1>1
  <2> HIDE DEF last, old
  <2>2. FirstDay(last) \in Nat /\ FirstDay(old) \in Nat /\ FirstDay(year) \in Nat
    BY <1>1, <2>1, MonthLength
  <2>3. FirstDay(last + 1) - FirstDay(last) = 31
    BY <2>1, MonthLength
  <2>4. /\ DateOf(year, 1) = FirstDay(year) /\ DateOf(year, 0) = FirstDay(year) - 1
        /\ DateOf(old, 1) = FirstDay(old)
        /\ DateOf(last, 31) = FirstDay(year) - 1
    BY <2>1, <2>2, <2>3 DEF DateOf
  <2> QED
    BY <2>2, <2>4 DEF last, old
<1>5. Since(t, A, "fechaPago", DateOf(year, 1)) = paid
  <2>1. Since(t, A, "fechaPago", DateOf(year, 1))
          = {y \in A : t[y].fechaPago # Null /\ t[y].fechaPago >= FirstDay(year)}
    BY <1>4 DEF Since
  <2> QED
    BY <1>2, <1>3, <2>1
<1>6. Since(t, upTo, "fechaPago", DateOf(year - 12, 1)) = lastYear
  <2>1. before = {y \in A : t[y].fechaPago \in FirstDay(year - 12)..(FirstDay((year - 1) + 1) - 1)}
    BY <1>2 DEF Paid, t
  <2>2. (year - 1) + 1 = year
    BY <1>1
  <2>3. before = {y \in A : t[y].fechaPago \in FirstDay(year - 12)..(FirstDay(year) - 1)}
    BY <2>1, <2>2
  <2> HIDE DEF before
  <2>4. lastYear = {y \in A : /\ t[y].fechaPago \in FirstDay(year - 12)..(FirstDay(year) - 1)
                              /\ t[y].fechaPago # FirstDay(year) - 1}
    BY <1>4, <2>3
  <2>5. Since(t, upTo, "fechaPago", DateOf(year - 12, 1))
          = {y \in upTo : t[y].fechaPago # Null /\ t[y].fechaPago >= FirstDay(year - 12)}
    BY <1>4 DEF Since
  <2>6. upTo = {y \in A : t[y].fechaPago # Null /\ t[y].fechaPago < FirstDay(year) - 1}
    BY <1>4
  <2>7. ASSUME NEW y \in A
        PROVE  /\ t[y].fechaPago \in FirstDay(year - 12)..(FirstDay(year) - 1)
               /\ t[y].fechaPago # FirstDay(year) - 1
               <=> /\ t[y].fechaPago # Null /\ t[y].fechaPago < FirstDay(year) - 1
                   /\ t[y].fechaPago >= FirstDay(year - 12)
    BY <1>3, <1>4
  <2> DEFINE since == Since(t, upTo, "fechaPago", DateOf(year - 12, 1))
  <2> HIDE DEF since, lastYear, upTo
  <2>8. since \subseteq A /\ lastYear \subseteq A
    BY <2>4, <2>5, <2>6 DEF since
  <2>9. ASSUME NEW y \in A PROVE y \in since <=> y \in lastYear
    BY <2>4, <2>5, <2>6, <2>7 DEF since
  <2>10. since = lastYear
    BY <2>8, <2>9
  <2> QED
    BY <2>10 DEF since
<1>7. ThisYear(d, now) = Sum(t, Since(t, A, "fechaPago", DateOf(year, 1)), "monto")
  BY DEF ThisYear, PaidSince, t, A, year
<1>8. LastYear(d, now) = Sum(t, Since(t, upTo, "fechaPago", DateOf(year - 12, 1)), "monto")
  BY DEF LastYear, t, A, year
<1>9. paid \subseteq A /\ lastYear \subseteq A
  BY <1>2 DEF Paid, t
<1> HIDE DEF paid, lastYear, upTo
<1>10. (\A y \in paid : d.payments[y]["monto"] \in Nat) /\ Null \notin Int
       /\ (\A y \in lastYear : d.payments[y]["monto"] \in Nat)
  BY <1>3, <1>9 DEF t, PaymentsOn
<1>11. Sum(d.payments, paid, "monto") = Total(d, paid)
       /\ Sum(d.payments, lastYear, "monto") = Total(d, lastYear)
  BY <1>10, Income
<1>12. ThisYear(d, now) = Total(d, paid) /\ LastYear(d, now) = Total(d, lastYear)
  BY <1>5, <1>6, <1>7, <1>8, <1>11, Zenon DEF t
<1> QED
  BY <1>12 DEF paid, lastYear, year, t

LEMMA RevenueOfDemo ==
    ASSUME SeedAssumption, NEW now \in Todays, NEW d, PaymentsOn(d)
    PROVE  RevenueAgrees(d, now)
<1> DEFINE at == Still(RevenueQueries, d)
           r == Revenue(at, now)
           months == Last12Months(d.payments, now)
           this == MonthOf(now)
           year == January(now)
           fromNow == {y \in AllPaid(d) : d.payments[y].fechaPago >= FirstDay(year)}
           lastYear == {y \in Paid(d, year - 12, year - 1) :
                          d.payments[y].fechaPago # DateOf(year - 1, 31)}
<1>1. at["pagosPeriodo"] = d /\ at["anioActual"] = d /\ at["anioAnterior"] = d
  BY DEF Still, RevenueQueries
<1> HIDE DEF at
<1>2. /\ r.ultimos12Meses = months
      /\ r.totalPeriodo = SumOf([m \in months |-> m.ingresos])
      /\ r.mejorMes = BestMonth(months)
      /\ r.anioActual = ThisYear(d, now)
      /\ r.anioAnterior = LastYear(d, now)
  BY <1>1 DEF Revenue
<1>3. /\ {m.mes : m \in months} = (this - 11)..this
      /\ \A m \in months : m.mes \in Nat /\ m.ingresos \in Nat
      /\ \A m \in months : LET paid == Paid(d, m.mes, m.mes) IN
           m.ingresos = Total(d, paid) /\ m.cantidadPagos = Cardinality(paid)
      /\ IsFiniteSet(months)
      /\ SumOf([m \in months |-> m.ingresos]) = Total(d, Paid(d, this - 11, this))
  BY MonthsOfRevenue
<1>4. /\ ThisYear(d, now) = Total(d, fromNow)
      /\ LastYear(d, now) = Total(d, lastYear)
  BY YearsOfRevenue
<1> HIDE DEF r, months, this, year, fromNow, lastYear
<1>5. r.mejorMes # Null => \A m \in r.ultimos12Meses : m.ingresos <= r.mejorMes.ingresos
  <2>1. \A m \in months : m.ingresos \in Int /\ m.mes \in Int
    BY <1>3
  <2>2. BestMonth(months) # Null => \A m \in months : m.ingresos <= BestMonth(months).ingresos
    BY <1>3, <2>1, BestIsBest
  <2> QED
    BY <1>2, <2>2
<1>6. /\ {m.mes : m \in r.ultimos12Meses} = (this - 11)..this
      /\ \A m \in r.ultimos12Meses : LET paid == Paid(d, m.mes, m.mes) IN
           m.ingresos = Total(d, paid) /\ m.cantidadPagos = Cardinality(paid)
  BY <1>2, <1>3, Zenon
<1>7. /\ r.totalPeriodo = Total(d, Paid(d, this - 11, this))
      /\ r.anioActual = Total(d, fromNow)
      /\ r.anioAnterior = Total(d, lastYear)
  BY <1>2, <1>3, <1>4
<1> QED
  BY <1>5, <1>6, <1>7 DEF RevenueAgrees, r, at, this, year, fromNow, lastYear

(***************************************************************************)
(* Whatever part of the demo is there and whatever the API wrote, the      *)
(* months and years of the revenue report add up to the payments paid in   *)
(* them, two reports that show one figure show the same, and the lists are *)
(* as long as the reports count and have one place for each row.           *)
(***************************************************************************)
THEOREM ReportsOfOneMoment == SeedSpec => []ReportsAgree
<1>1. SeedAssumption /\ SeedIInv => ReportsAgree
  <2> SUFFICES ASSUME SeedAssumption, SeedIInv PROVE ReportsAgree
    OBVIOUS
  <2>1. TablesOK(db) /\ clock \in Todays
    BY DEF SeedIInv, SeedOK
  <2>2. PaymentsOn(db)
    <3>1. \A y \in DOMAIN db.payments : db.payments[y] \in PaymentRow /\ PaymentFits(db.payments[y])
      BY <2>1 DEF TablesOK, IsTable
    <3>2. Null \notin Int /\ IsFiniteSet(DOMAIN db.payments)
      BY <2>1, FiniteTables DEF SeedAssumption
    <3>3. \A y \in DOMAIN db.payments : db.payments[y]["monto"] \in Nat
      BY <3>1 DEF PaymentRow
    <3>4. \A y \in DOMAIN db.payments : db.payments[y].fechaPago \in Nat \cup {Null}
      BY <3>1 DEF PaymentRow
    <3> QED
      BY <3>1, <3>2, <3>3, <3>4 DEF PaymentsOn, PaymentFits
  <2>3. RevenueAgrees(db, clock)
    BY <2>1, <2>2, RevenueOfDemo
  <2>4. FiguresAgree(db, clock) /\ ListsAgree(db, clock)
    BY <2>1, FiguresOfDemo, ListsOfDemo
  <2> QED
    BY <2>3, <2>4 DEF ReportsAgree
<1> QED
  BY <1>1, SeedInvariant, SeedAssumption, PTL

=============================================================================
