----------------------------- MODULE FiniteSums -----------------------------
(***************************************************************************)
(* Facts about finite sets that the proofs need and the library does not   *)
(* state: the largest and the smallest element of FiniteSetsExt, the list  *)
(* of the elements in order, and the sum of a field of some elements of a  *)
(* list.  Each is an induction over the subsets of a finite set, done      *)
(* with a smallest counterexample.  The last part is the arithmetic of     *)
(* machine words: sums and differences modulo W.                           *)
(***************************************************************************)
EXTENDS Integers, FiniteSets, FiniteSetsExt, FiniteSetTheorems, TLAPS

\* If some subset of a finite set is bad, one is whose proper subsets are not.
LEMMA SmallestBad ==
    ASSUME NEW S, IsFiniteSet(S), NEW Bad, Bad \subseteq SUBSET S, Bad # {}
    PROVE  \E T \in Bad : \A U \in Bad : U \subseteq T => U = T
<1>1. IsWellFoundedOn(StrictSubsetOrdering(S), SUBSET S)
  BY FS_StrictSubsetOrderingWellFounded, FS_FiniteSubsetsOfFinite
<1>2. PICK T \in Bad : \A U \in Bad : ~(<<U, T>> \in StrictSubsetOrdering(S))
  BY <1>1, WFMin
<1>3. ASSUME NEW U \in Bad, U \subseteq T PROVE U = T
  BY <1>2, <1>3 DEF StrictSubsetOrdering
<1>4. QED
  BY <1>3

-----------------------------------------------------------------------------
(* The largest and the smallest number of a finite set *)

\* A finite non-empty set of integers has a largest element.
LEMMA HasLargest ==
    ASSUME NEW S, S \subseteq Int, IsFiniteSet(S), S # {}
    PROVE  \E x \in S : \A y \in S : x >= y
<1> DEFINE Bad == {T \in SUBSET S : T # {} /\ ~ \E x \in T : \A y \in T : x >= y}
<1>1. SUFFICES ASSUME Bad # {} PROVE FALSE
  <2>1. S \notin Bad
    BY <1>1
  <2>2. QED
    BY <2>1
<1> HIDE DEF Bad
<1>2. PICK T \in Bad : \A U \in Bad : U \subseteq T => U = T
  <2>1. IsFiniteSet(S) /\ Bad \subseteq SUBSET S
    BY DEF Bad
  <2>2. QED
    BY ONLY <1>1, <2>1, SmallestBad
<1>3. T \in SUBSET S /\ T # {}
  BY DEF Bad
<1>4. PICK e \in T : TRUE
  BY <1>3
<1>5. T \ {e} \notin Bad
  BY <1>2, <1>4
<1>6. CASE T \ {e} = {}
  BY <1>3, <1>4, <1>6 DEF Bad
<1>7. CASE T \ {e} # {}
  <2>1. PICK x \in T \ {e} : \A y \in T \ {e} : x >= y
    BY <1>3, <1>5, <1>7 DEF Bad
  <2>2. x \in Int /\ e \in Int
    BY <1>3, <1>4, <2>1
  <2>3. CASE e >= x
    BY <1>3, <2>1, <2>2, <2>3 DEF Bad
  <2>4. CASE ~(e >= x)
    BY <1>3, <2>1, <2>2, <2>4 DEF Bad
  <2>5. QED
    BY <2>3, <2>4
<1>8. QED
  BY <1>6, <1>7

\* Max of a finite non-empty set is its largest element.
LEMMA MaxOfFinite ==
    ASSUME NEW S, S \subseteq Int, IsFiniteSet(S), S # {}
    PROVE  Max(S) \in S /\ \A y \in S : Max(S) >= y
BY HasLargest DEF Max

\* Min of a finite non-empty set is its smallest element.
LEMMA MinOfFinite ==
    ASSUME NEW S, S \subseteq Int, IsFiniteSet(S), S # {}
    PROVE  Min(S) \in S /\ \A y \in S : Min(S) <= y
<1> DEFINE N == {0 - x : x \in S}
<1>1. PICK z0 \in S : TRUE
  OBVIOUS
<1>2. N \in SUBSET Int /\ N # {}
  <2>1. 0 - z0 \in N
    OBVIOUS
  <2>2. ASSUME NEW y \in N PROVE y \in Int
    <3>1. PICK x \in S : y = 0 - x
      OBVIOUS
    <3>2. x \in Int
      OBVIOUS
    <3>3. QED
      BY <3>1, <3>2
  <2>3. QED
    BY <2>1, <2>2
<1>3. IsFiniteSet(N)
  <2>1. [x \in S |-> 0 - x] \in Surjection(S, N)
    BY DEF Surjection
  <2>2. QED
    BY <2>1, FS_Surjection
<1>4. PICK x \in N : \A y \in N : x >= y
  BY ONLY <1>2, <1>3, HasLargest
<1>5. PICK z \in S : x = 0 - z
  BY <1>4
<1>6. ASSUME NEW y \in S PROVE z <= y
  <2>1. 0 - y \in N /\ y \in Int /\ z \in Int
    OBVIOUS
  <2>2. 0 - z >= 0 - y
    BY <1>4, <1>5, <2>1
  <2>3. QED
    BY <2>1, <2>2
<1>7. QED
  BY <1>6 DEF Min

-----------------------------------------------------------------------------
(* The numbers of a finite set in order *)

\* s lists the numbers of S, the smallest first
Enumerates(s, S) ==
    LET N == 1..Cardinality(S)
    IN  s \in [N -> S] /\ \A i, j \in N : i < j => s[i] < s[j]

\* The numbers of a finite set can be put in order.
LEMMA CanEnumerate ==
    ASSUME NEW S, S \subseteq Int, IsFiniteSet(S)
    PROVE  \E s : Enumerates(s, S)
<1> DEFINE Bad == {T \in SUBSET S : ~ \E s : Enumerates(s, T)}
<1>1. SUFFICES ASSUME Bad # {} PROVE FALSE
  <2>1. S \notin Bad
    BY <1>1
  <2>2. QED
    BY <2>1
<1> HIDE DEF Bad
<1>2. PICK T \in Bad : \A U \in Bad : U \subseteq T => U = T
  <2>1. IsFiniteSet(S) /\ Bad \subseteq SUBSET S
    BY DEF Bad
  <2>2. QED
    BY ONLY <1>1, <2>1, SmallestBad
<1>3. T \subseteq S /\ T \subseteq Int /\ IsFiniteSet(T) /\ ~ \E s : Enumerates(s, T)
  <2>1. T \in SUBSET S
    BY DEF Bad
  <2>2. QED
    BY <2>1, FS_Subset DEF Bad
<1>4. CASE T = {}
  <2>1. Cardinality(T) = 0 /\ 1..0 = {}
    BY <1>4, FS_EmptySet
  <2>2. Enumerates([i \in {} |-> i], T)
    BY <2>1 DEF Enumerates
  <2>3. QED
    BY <1>3, <2>2
<1>5. CASE T # {}
  <2> DEFINE m == Max(T)
             U == T \ {m}
             n == Cardinality(U)
  <2>1. m \in T /\ \A y \in T : m >= y
    BY <1>3, <1>5, MaxOfFinite
  <2> HIDE DEF m
  <2>2. U \notin Bad
    BY <1>2, <2>1
  <2>3. PICK s : Enumerates(s, U)
    BY <1>3, <2>2 DEF Bad
  <2>4. n \in Nat /\ Cardinality(T) = n + 1
    <3>1. IsFiniteSet(U) /\ n = Cardinality(T) - 1
      BY <1>3, <2>1, FS_RemoveElement
    <3>2. n \in Nat /\ Cardinality(T) \in Nat
      BY <1>3, <3>1, FS_CardinalityType
    <3>3. QED
      BY <3>1, <3>2
  <2>5. s \in [1..n -> U] /\ \A i, j \in 1..n : i < j => s[i] < s[j]
    BY <2>3 DEF Enumerates
  <2> HIDE DEF n
  <2> DEFINE f == [i \in 1..(n + 1) |-> IF i = n + 1 THEN m ELSE s[i]]
  <2>6. \A i \in 1..(n + 1) : i = n + 1 \/ i \in 1..n
    BY <2>4
  <2>7. f \in [1..(n + 1) -> T]
    BY <2>1, <2>5, <2>6
  <2>8. ASSUME NEW i \in 1..(n + 1), NEW j \in 1..(n + 1), i < j PROVE f[i] < f[j]
    <3>1. i \in 1..n /\ i # n + 1
      BY <2>4, <2>8
    <3>2. f[i] = s[i] /\ s[i] \in U
      BY <2>5, <3>1
    <3>3. CASE j = n + 1
      <4>1. s[i] \in Int /\ m \in Int /\ s[i] # m /\ m >= s[i]
        BY <1>3, <2>1, <3>2
      <4>2. QED
        BY <3>2, <3>3, <4>1
    <3>4. CASE j # n + 1
      BY <2>5, <2>6, <2>8, <3>1, <3>2, <3>4
    <3>5. QED
      BY <3>3, <3>4
  <2>9. Enumerates(f, T)
    BY <2>4, <2>7, <2>8 DEF Enumerates
  <2>10. QED
    BY <1>3, <2>9
<1>6. QED
  BY <1>4, <1>5

\* Numbers in order are all different, and all there are.
LEMMA EnumeratesOnce ==
    ASSUME NEW S, S \subseteq Int, IsFiniteSet(S), NEW s, Enumerates(s, S)
    PROVE  /\ Cardinality(S) \in Nat
           /\ \A i \in 1..Cardinality(S) : s[i] \in S
           /\ \A i, j \in 1..Cardinality(S) : s[i] = s[j] => i = j
           /\ \A t \in S : \E i \in 1..Cardinality(S) : s[i] = t
<1> DEFINE n == Cardinality(S)
<1>1. n \in Nat /\ s \in [1..n -> S] /\ \A i, j \in 1..n : i < j => s[i] < s[j]
  BY FS_CardinalityType DEF Enumerates
<1>2. IsFiniteSet(1..n) /\ Cardinality(1..n) = n
  BY <1>1, FS_Interval
<1> HIDE DEF n
<1>3. \A i, j \in 1..n : s[i] = s[j] => i = j
  <2>1. SUFFICES ASSUME NEW i \in 1..n, NEW j \in 1..n, s[i] = s[j] PROVE i = j
    OBVIOUS
  <2>2. s[i] \in Int /\ s[j] \in Int
    BY <1>1
  <2>3. ~(s[i] < s[j]) /\ ~(s[j] < s[i])
    BY <2>1, <2>2
  <2>4. ~(i < j) /\ ~(j < i)
    BY <1>1, <2>3
  <2>5. QED
    BY <2>4
<1>4. s \in Injection(1..n, S)
  BY <1>1, <1>3 DEF Injection, IsInjective
<1>5. s \in Surjection(1..n, S)
  BY <1>2, <1>4, FS_Injection DEF n
<1>6. QED
  BY <1>1, <1>3, <1>5 DEF Surjection, n

-----------------------------------------------------------------------------
(* The sum of a field of the elements of a list at some positions *)

FieldSum(L, f, S) == MapThenSumSet(LAMBDA i : L[i][f], S)

\* the sum as the community modules compute it: g[s] is that of s, for s \subseteq S
One(s) == CHOOSE x \in s : TRUE
Partial(L, f, s, g) == IF s = {} THEN 0 ELSE L[One(s)][f] + g[s \ {One(s)}]
IsSum(L, f, S, g) == g = [s \in SUBSET S |-> Partial(L, f, s, g)]

\* FieldSum is the value of the recursive function it chooses.
LEMMA FieldSumIsOfSum ==
    ASSUME NEW L, NEW f, NEW S
    PROVE  FieldSum(L, f, S) = (CHOOSE g : IsSum(L, f, S, g))[S]
BY DEF FieldSum, MapThenSumSet, MapThenFoldSet, One, Partial, IsSum

\* Two such functions give one value where both are defined, whatever their
\* domains.
LEMMA SumsAgree ==
    ASSUME NEW L, NEW f, NEW S, NEW T, IsFiniteSet(S), S \subseteq T
    PROVE  \A g, h : IsSum(L, f, S, g) /\ IsSum(L, f, T, h) => g[S] = h[S]
<1> SUFFICES ASSUME NEW g, NEW h, IsSum(L, f, S, g), IsSum(L, f, T, h)
             PROVE  \A s \in SUBSET S : g[s] = h[s]
  OBVIOUS
<1> DEFINE Bad == {s \in SUBSET S : g[s] # h[s]}
<1>1. SUFFICES ASSUME Bad # {} PROVE FALSE
  BY <1>1
<1>2. IsFiniteSet(S) /\ Bad \subseteq SUBSET S
  OBVIOUS
<1> HIDE DEF Bad
<1>3. PICK s \in Bad : \A u \in Bad : u \subseteq s => u = s
  BY ONLY <1>1, <1>2, SmallestBad
<1>4. s \in SUBSET S /\ g[s] # h[s]
  BY DEF Bad
<1>5. g[s] = Partial(L, f, s, g) /\ h[s] = Partial(L, f, s, h)
  BY <1>4 DEF IsSum
<1>6. s # {}
  BY <1>4, <1>5 DEF Partial
<1>7. One(s) \in s
  BY <1>6 DEF One
<1>8. s \ {One(s)} \notin Bad
  BY <1>3, <1>7
<1>9. g[s \ {One(s)}] = h[s \ {One(s)}]
  BY <1>4, <1>8 DEF Bad
<1>10. QED
  BY <1>4, <1>5, <1>9 DEF Partial

\* There is one for every finite set.
LEMMA SumExists ==
    ASSUME NEW L, NEW f, NEW S, IsFiniteSet(S)
    PROVE  \E g : IsSum(L, f, S, g)
<1> DEFINE Bad == {T \in SUBSET S : ~ \E g : IsSum(L, f, T, g)}
<1>1. SUFFICES ASSUME Bad # {} PROVE FALSE
  <2>1. S \notin Bad
    BY <1>1
  <2>2. QED
    BY <2>1
<1>2. IsFiniteSet(S) /\ Bad \subseteq SUBSET S
  OBVIOUS
<1> HIDE DEF Bad
<1>3. PICK T \in Bad : \A U \in Bad : U \subseteq T => U = T
  BY ONLY <1>1, <1>2, SmallestBad
<1>4. T \in SUBSET S /\ ~ \E g : IsSum(L, f, T, g)
  BY DEF Bad
<1> DEFINE G(U) == CHOOSE g : IsSum(L, f, U, g)
           h == [s \in SUBSET T |-> Partial(L, f, s, G(s \ {One(s)}))]
<1>5. ASSUME NEW U \in SUBSET T, U # T PROVE IsSum(L, f, U, G(U))
  <2>1. U \notin Bad /\ U \in SUBSET S
    BY <1>3, <1>4, <1>5
  <2>2. \E g : IsSum(L, f, U, g)
    BY <2>1 DEF Bad
  <2>3. QED
    BY <2>2
<1> HIDE DEF G
<1>6. ASSUME NEW s \in SUBSET T, s # {} PROVE h[s \ {One(s)}] = G(s \ {One(s)})[s \ {One(s)}]
  <2> DEFINE v == s \ {One(s)}
             w == v \ {One(v)}
  <2>1. One(s) \in s
    BY <1>6 DEF One
  <2>2. v \in SUBSET T /\ v # T /\ w \in SUBSET T /\ w # T /\ w \subseteq v
    BY <2>1
  <2>3. IsSum(L, f, v, G(v)) /\ IsSum(L, f, w, G(w))
    BY <2>2, <1>5
  <2>4. h[v] = Partial(L, f, v, G(w))
    BY <2>2
  <2>5. G(v)[v] = Partial(L, f, v, G(v))
    BY <2>3 DEF IsSum
  <2>6. IsFiniteSet(w)
    BY <1>4, <2>2, FS_Subset
  <2>7. G(w)[w] = G(v)[w]
    <3> HIDE DEF v, w
    <3> QED
      BY <2>2, <2>3, <2>6, SumsAgree
  <2>8. QED
    BY <2>4, <2>5, <2>7 DEF Partial
<1>7. ASSUME NEW s \in SUBSET T PROVE Partial(L, f, s, G(s \ {One(s)})) = Partial(L, f, s, h)
  BY <1>6 DEF Partial
<1>8. h = [s \in SUBSET T |-> Partial(L, f, s, h)]
  BY <1>7
<1>9. IsSum(L, f, T, h)
  BY <1>8 DEF IsSum
<1>10. QED
  BY <1>4, <1>9

\* The sum of nothing is 0, that of something is one element more than the rest.
LEMMA FieldSumEmpty ==
    ASSUME NEW L, NEW f
    PROVE  FieldSum(L, f, {}) = 0
<1> DEFINE g == CHOOSE h : IsSum(L, f, {}, h)
<1>1. IsSum(L, f, {}, g)
  <2>1. \E h : IsSum(L, f, {}, h)
    BY SumExists, FS_EmptySet
  <2>2. QED
    BY <2>1
<1>2. FieldSum(L, f, {}) = g[{}]
  BY FieldSumIsOfSum
<1> HIDE DEF g
<1>3. QED
  BY <1>1, <1>2 DEF IsSum, Partial

\* A sum is that of one element and the sum of the others.
LEMMA FieldSumOne ==
    ASSUME NEW L, NEW f, NEW S, IsFiniteSet(S), S # {}
    PROVE  /\ One(S) \in S
           /\ FieldSum(L, f, S) = L[One(S)][f] + FieldSum(L, f, S \ {One(S)})
<1> DEFINE G(U) == CHOOSE g : IsSum(L, f, U, g)
           T == S \ {One(S)}
<1>1. One(S) \in S
  BY DEF One
<1>2. IsFiniteSet(T) /\ T \subseteq S
  BY FS_Subset
<1>3. IsSum(L, f, S, G(S)) /\ IsSum(L, f, T, G(T))
  <2>1. (\E g : IsSum(L, f, S, g)) /\ (\E g : IsSum(L, f, T, g))
    BY <1>2, SumExists
  <2>2. QED
    BY <2>1
<1> HIDE DEF G
<1>4. FieldSum(L, f, S) = G(S)[S] /\ FieldSum(L, f, T) = G(T)[T]
  BY FieldSumIsOfSum DEF G
<1> HIDE DEF T
<1>6. G(T)[T] = G(S)[T]
  BY <1>2, <1>3, SumsAgree
<1>7. G(S)[S] = L[One(S)][f] + G(S)[T]
  BY <1>3 DEF IsSum, Partial, T
<1>8. QED
  BY <1>1, <1>4, <1>6, <1>7 DEF T

\* Fields of which each is a number add up to a number.
LEMMA FieldSumNat ==
    ASSUME NEW L, NEW f, NEW S, IsFiniteSet(S), \A i \in S : L[i][f] \in Nat
    PROVE  FieldSum(L, f, S) \in Nat
<1> DEFINE Bad == {T \in SUBSET S : FieldSum(L, f, T) \notin Nat}
<1>1. SUFFICES ASSUME Bad # {} PROVE FALSE
  <2>1. S \notin Bad
    BY <1>1
  <2>2. QED
    BY <2>1
<1>2. IsFiniteSet(S) /\ Bad \subseteq SUBSET S
  OBVIOUS
<1> HIDE DEF Bad
<1>3. PICK T \in Bad : \A U \in Bad : U \subseteq T => U = T
  BY ONLY <1>1, <1>2, SmallestBad
<1>4. T \in SUBSET S /\ FieldSum(L, f, T) \notin Nat /\ IsFiniteSet(T)
  BY FS_Subset DEF Bad
<1>5. T # {}
  BY <1>4, FieldSumEmpty
<1>6. One(T) \in T /\ FieldSum(L, f, T) = L[One(T)][f] + FieldSum(L, f, T \ {One(T)})
  BY <1>4, <1>5, FieldSumOne
<1>7. FieldSum(L, f, T \ {One(T)}) \in Nat
  BY <1>3, <1>4, <1>6 DEF Bad
<1>8. L[One(T)][f] \in Nat
  BY <1>4, <1>6
<1>9. QED
  BY <1>4, <1>6, <1>7, <1>8

\* Any element can be taken off.
LEMMA FieldSumRemove ==
    ASSUME NEW L, NEW f, NEW S, IsFiniteSet(S), \A i \in S : L[i][f] \in Nat
    PROVE  \A x \in S : FieldSum(L, f, S) = L[x][f] + FieldSum(L, f, S \ {x})
<1> DEFINE Right(T, x) == FieldSum(L, f, T) = L[x][f] + FieldSum(L, f, T \ {x})
           Bad == {T \in SUBSET S : \E x \in T : ~ Right(T, x)}
<1>1. SUFFICES ASSUME Bad # {} PROVE FALSE
  <2>1. S \notin Bad
    BY <1>1
  <2>2. QED
    BY <2>1
<1>2. IsFiniteSet(S) /\ Bad \subseteq SUBSET S
  OBVIOUS
<1> HIDE DEF Bad
<1>3. PICK T \in Bad : \A U \in Bad : U \subseteq T => U = T
  BY ONLY <1>1, <1>2, SmallestBad
<1>4. T \in SUBSET S /\ IsFiniteSet(T) /\ \E x \in T : ~ Right(T, x)
  BY FS_Subset DEF Bad
<1>5. PICK x \in T : ~ Right(T, x)
  BY <1>4
<1> DEFINE c == One(T)
           R == (T \ {c}) \ {x}
<1>6. c \in T /\ Right(T, c)
  BY <1>4, FieldSumOne
<1> HIDE DEF c
<1>7. c # x
  BY <1>5, <1>6
<1>8. T \ {c} \notin Bad /\ T \ {x} \notin Bad /\ T \ {c} \in SUBSET S /\ T \ {x} \in SUBSET S
  BY <1>3, <1>4, <1>5, <1>6
<1>9. Right(T \ {c}, x) /\ Right(T \ {x}, c)
  BY <1>7, <1>5, <1>6, <1>8 DEF Bad
<1>10. (T \ {x}) \ {c} = R
  OBVIOUS
<1>11. FieldSum(L, f, R) \in Nat /\ L[c][f] \in Nat /\ L[x][f] \in Nat
  <2>1. R \subseteq S /\ IsFiniteSet(R)
    BY <1>4, FS_Subset
  <2> HIDE DEF R
  <2>2. FieldSum(L, f, R) \in Nat
    BY <2>1, FieldSumNat
  <2>3. QED
    BY <2>2, <1>4, <1>6
<1> DEFINE sT == FieldSum(L, f, T)
           sTc == FieldSum(L, f, T \ {c})
           sTx == FieldSum(L, f, T \ {x})
           sR == FieldSum(L, f, R)
<1>12. /\ sT = L[c][f] + sTc /\ sTc = L[x][f] + sR
       /\ sTx = L[c][f] + sR /\ sT # L[x][f] + sTx
  BY <1>5, <1>6, <1>9, <1>10
<1> HIDE DEF sT, sTc, sTx, sR, Right, R
<1>13. sR \in Nat
  BY <1>11 DEF sR
<1>14. QED
  BY <1>11, <1>12, <1>13

\* One more element adds its own to the sum.
LEMMA FieldSumAdd ==
    ASSUME NEW L, NEW f, NEW S, IsFiniteSet(S), \A i \in S : L[i][f] \in Nat,
           NEW x, x \notin S, L[x][f] \in Nat
    PROVE  FieldSum(L, f, S \cup {x}) = L[x][f] + FieldSum(L, f, S)
<1> DEFINE T == S \cup {x}
<1>1. IsFiniteSet(T) /\ (\A i \in T : L[i][f] \in Nat) /\ x \in T
  BY FS_AddElement
<1>2. T \ {x} = S
  OBVIOUS
<1> HIDE DEF T
<1>3. FieldSum(L, f, T) = L[x][f] + FieldSum(L, f, T \ {x})
  BY <1>1, FieldSumRemove
<1>4. QED
  BY <1>2, <1>3 DEF T

\* The sum depends on the fields only.
LEMMA FieldSumSame ==
    ASSUME NEW L, NEW f, NEW M, NEW S, IsFiniteSet(S), \A i \in S : L[i][f] = M[i][f]
    PROVE  FieldSum(L, f, S) = FieldSum(M, f, S)
<1> DEFINE Bad == {T \in SUBSET S : FieldSum(L, f, T) # FieldSum(M, f, T)}
<1>1. SUFFICES ASSUME Bad # {} PROVE FALSE
  <2>1. S \notin Bad
    BY <1>1
  <2>2. QED
    BY <2>1
<1>2. IsFiniteSet(S) /\ Bad \subseteq SUBSET S
  OBVIOUS
<1> HIDE DEF Bad
<1>3. PICK T \in Bad : \A U \in Bad : U \subseteq T => U = T
  BY ONLY <1>1, <1>2, SmallestBad
<1>4. T \in SUBSET S /\ FieldSum(L, f, T) # FieldSum(M, f, T) /\ IsFiniteSet(T)
  BY FS_Subset DEF Bad
<1>5. T # {}
  BY <1>4, FieldSumEmpty
<1>6. /\ One(T) \in T
      /\ FieldSum(L, f, T) = L[One(T)][f] + FieldSum(L, f, T \ {One(T)})
      /\ FieldSum(M, f, T) = M[One(T)][f] + FieldSum(M, f, T \ {One(T)})
  BY <1>4, <1>5, FieldSumOne
<1>7. FieldSum(L, f, T \ {One(T)}) = FieldSum(M, f, T \ {One(T)})
  BY <1>3, <1>4, <1>6 DEF Bad
<1>8. L[One(T)][f] = M[One(T)][f]
  BY <1>4, <1>6
<1>9. QED
  BY <1>4, <1>6, <1>7, <1>8

\* A part has no larger sum than the whole.
LEMMA FieldSumLess ==
    ASSUME NEW L, NEW f, NEW S, IsFiniteSet(S), \A i \in S : L[i][f] \in Nat, NEW R, R \subseteq S
    PROVE  FieldSum(L, f, R) <= FieldSum(L, f, S)
<1> DEFINE Bad == {T \in SUBSET S : R \subseteq T /\ ~(FieldSum(L, f, R) <= FieldSum(L, f, T))}
<1>1. SUFFICES ASSUME Bad # {} PROVE FALSE
  <2>1. S \notin Bad
    BY <1>1
  <2>2. QED
    BY <2>1
<1>2. IsFiniteSet(S) /\ Bad \subseteq SUBSET S
  OBVIOUS
<1> HIDE DEF Bad
<1>3. PICK T \in Bad : \A U \in Bad : U \subseteq T => U = T
  BY ONLY <1>1, <1>2, SmallestBad
<1>4. T \in SUBSET S /\ R \subseteq T /\ ~(FieldSum(L, f, R) <= FieldSum(L, f, T)) /\ IsFiniteSet(T)
  BY FS_Subset DEF Bad
<1>5. FieldSum(L, f, R) \in Nat
  BY FS_Subset, FieldSumNat
<1>6. PICK x \in T : x \notin R
  BY <1>4, <1>5
<1>7. T \ {x} \notin Bad /\ T \ {x} \in SUBSET S /\ R \subseteq T \ {x}
  BY <1>3, <1>4, <1>6
<1>8. FieldSum(L, f, R) <= FieldSum(L, f, T \ {x})
  BY <1>7 DEF Bad
<1>9. FieldSum(L, f, T) = L[x][f] + FieldSum(L, f, T \ {x}) /\ L[x][f] \in Nat
  BY <1>4, FieldSumRemove
<1>10. FieldSum(L, f, T \ {x}) \in Nat
  <2>1. IsFiniteSet(T \ {x}) /\ \A i \in T \ {x} : L[i][f] \in Nat
    BY <1>4, FS_Subset
  <2>2. QED
    BY <2>1, FieldSumNat
<1>11. QED
  BY <1>4, <1>5, <1>8, <1>9, <1>10

-----------------------------------------------------------------------------
(* The sum of the sizes *)

SizeSum(L, S) == FieldSum(L, "size", S)

\* What holds for any field holds for the sizes.
LEMMA SizeSumEmpty ==
    ASSUME NEW L
    PROVE  SizeSum(L, {}) = 0
BY FieldSumEmpty DEF SizeSum

LEMMA SizeSumNat ==
    ASSUME NEW L, NEW S, IsFiniteSet(S), \A i \in S : L[i].size \in Nat
    PROVE  SizeSum(L, S) \in Nat
BY FieldSumNat DEF SizeSum

LEMMA SizeSumRemove ==
    ASSUME NEW L, NEW S, IsFiniteSet(S), \A i \in S : L[i].size \in Nat
    PROVE  \A x \in S : SizeSum(L, S) = L[x].size + SizeSum(L, S \ {x})
BY FieldSumRemove DEF SizeSum

LEMMA SizeSumAdd ==
    ASSUME NEW L, NEW S, IsFiniteSet(S), \A i \in S : L[i].size \in Nat,
           NEW x, x \notin S, L[x].size \in Nat
    PROVE  SizeSum(L, S \cup {x}) = L[x].size + SizeSum(L, S)
BY FieldSumAdd DEF SizeSum

LEMMA SizeSumSame ==
    ASSUME NEW L, NEW M, NEW S, IsFiniteSet(S), \A i \in S : L[i].size = M[i].size
    PROVE  SizeSum(L, S) = SizeSum(M, S)
BY FieldSumSame DEF SizeSum

LEMMA SizeSumLess ==
    ASSUME NEW L, NEW S, IsFiniteSet(S), \A i \in S : L[i].size \in Nat, NEW R, R \subseteq S
    PROVE  SizeSum(L, R) <= SizeSum(L, S)
BY FieldSumLess DEF SizeSum

-----------------------------------------------------------------------------
(* Arithmetic modulo a range *)

\* Quotient and remainder give the number back.
LEMMA DivMod ==
    ASSUME NEW W \in Nat \ {0}, NEW a \in Int
    PROVE  (a % W) \in 0..(W - 1) /\ (a \div W) \in Int /\ a = (W * (a \div W)) + (a % W)
OBVIOUS

\* quotient and remainder are unique
LEMMA RemainderUnique ==
    ASSUME NEW W \in Nat \ {0}, NEW q \in Int, NEW r \in 0..(W - 1), NEW p \in Int, NEW s \in 0..(W - 1),
           W * q + r = W * p + s
    PROVE  r = s
<1>1. W * (q - p) = s - r
  OBVIOUS
<1>2. CASE q - p >= 1
  <2>1. W * (q - p) >= W
    BY <1>2
  <2>2. QED
    BY <2>1, <1>1
<1>3. CASE q - p <= -1
  <2>1. W * (q - p) <= -W
    BY <1>3
  <2>2. QED
    BY <2>1, <1>1
<1>4. CASE q = p
  BY <1>4
<1>5. QED
  BY <1>2, <1>3, <1>4

\* Adding a multiple of the modulus changes no remainder.
LEMMA ModShift ==
    ASSUME NEW W \in Nat \ {0}, NEW a \in Int, NEW k \in Int
    PROVE  (a + W * k) % W = a % W
<1> DEFINE p == (a + W * k) \div W
           q == a \div W
           s == (a + W * k) % W
           r == a % W
<1>1. a + W * k \in Int
  OBVIOUS
<1>2. a + W * k = W * p + s /\ p \in Int /\ s \in 0..(W - 1)
  BY <1>1, DivMod
<1>3. a = W * q + r /\ q \in Int /\ r \in 0..(W - 1)
  BY DivMod
<1> HIDE DEF p, q, r, s
<1>4. W * (q + k) + r = W * p + s /\ q + k \in Int
  BY <1>2, <1>3
<1>5. r = s
  BY <1>2, <1>3, <1>4, RemainderUnique
<1>6. QED
  BY <1>5 DEF r, s

\* a sum, or a difference, may be reduced before or after
LEMMA ModAdd ==
    ASSUME NEW W \in Nat \ {0}, NEW a \in Int, NEW b \in Int
    PROVE  ((a % W) + b) % W = (a + b) % W
<1> DEFINE q == a \div W
           r == a % W
<1>1. a = W * q + r /\ q \in Int /\ r \in 0..(W - 1)
  BY DivMod
<1> HIDE DEF q, r
<1>2. a + b = (r + b) + W * q /\ r + b \in Int
  BY <1>1
<1>3. ((r + b) + W * q) % W = (r + b) % W
  BY <1>1, <1>2, ModShift
<1>4. QED
  BY <1>2, <1>3 DEF r

\* Subtracting modulo W may be done before or after taking the remainder.
LEMMA ModSub ==
    ASSUME NEW W \in Nat \ {0}, NEW a \in Int, NEW b \in Int
    PROVE  (a - (b % W)) % W = (a - b) % W
<1> DEFINE q == b \div W
           r == b % W
<1>1. b = W * q + r /\ q \in Int /\ r \in 0..(W - 1)
  BY DivMod
<1> HIDE DEF q, r
<1>2. a - r = (a - b) + W * q /\ a - b \in Int
  BY <1>1
<1>3. ((a - b) + W * q) % W = (a - b) % W
  BY <1>1, <1>2, ModShift
<1>4. QED
  BY <1>2, <1>3 DEF r
=============================================================================
