-------------------------------- MODULE Sums --------------------------------
(***************************************************************************)
(* What the proofs need of sums over finite sets: MapThenSumSet of the     *)
(* community modules, whose elements are taken in an order of its choice.  *)
(***************************************************************************)
EXTENDS Integers, FiniteSetsExt, FiniteSetTheorems, WellFoundedInduction, TLAPS

SumOver(g, S) == MapThenSumSet(LAMBDA x : g[x], S)

-----------------------------------------------------------------------------
(* Induction, as the least element of a set. *)

LEMMA LeastNatural ==
    ASSUME NEW T \in SUBSET Nat, T # {}
    PROVE  \E x \in T : \A y \in T : x <= y
<1>1. \E x \in T : \A y \in T : <<y, x>> \notin OpToRel(<, Nat)
  BY NatLessThanWellFounded, WFMin
<1>2. \E x \in T : \A y \in T : ~(y < x)
  BY <1>1 DEF OpToRel
<1> QED
  BY <1>2

LEMMA SmallestSubset ==
    ASSUME NEW S, IsFiniteSet(S), NEW T \in SUBSET SUBSET S, T # {}
    PROVE  \E X \in T : \A Y \in T : Cardinality(X) <= Cardinality(Y)
<1> DEFINE Sizes == {Cardinality(X) : X \in T}
<1>1. Sizes \in SUBSET Nat /\ Sizes # {}
  BY FS_Subset, FS_CardinalityType
<1>2. \E n \in Sizes : \A m \in Sizes : n <= m
  <2> HIDE DEF Sizes
  <2> QED
    BY <1>1, LeastNatural
<1> QED
  BY <1>2

-----------------------------------------------------------------------------
(* The recursive function behind MapThenSumSet. *)

First(s) == CHOOSE x \in s : TRUE

IsSum(f, g, S) ==
    f = [s \in SUBSET S |-> IF s = {} THEN 0 ELSE g[First(s)] + f[s \ {First(s)}]]

LEMMA SumIsChosen ==
    ASSUME NEW g, NEW S
    PROVE  SumOver(g, S) = (CHOOSE f : IsSum(f, g, S))[S]
BY Zenon DEF SumOver, MapThenSumSet, MapThenFoldSet, IsSum, First

\* Taking one element from a finite set.
LEMMA FirstFacts ==
    ASSUME NEW S, IsFiniteSet(S), NEW s \in SUBSET S, s # {}
    PROVE  /\ First(s) \in s
           /\ IsFiniteSet(s)
           /\ Cardinality(s) \in Nat
           /\ \A x \in s : Cardinality(s \ {x}) = Cardinality(s) - 1
<1>1. First(s) \in s
  BY Zenon DEF First
<1>2. IsFiniteSet(s)
  BY FS_Subset
<1> QED
  BY <1>1, <1>2, FS_CardinalityType, FS_RemoveElement

\* A smallest counterexample among the subsets of S.
LEMMA Smallest ==
    ASSUME NEW S, IsFiniteSet(S), NEW T \in SUBSET SUBSET S, T # {}
    PROVE  \E u \in T : \A x \in u : u \ {x} \notin T
<1>1. PICK u \in T : \A v \in T : Cardinality(u) <= Cardinality(v)
  BY SmallestSubset
<1>2. SUFFICES ASSUME NEW x \in u PROVE u \ {x} \notin T
  BY <1>1
<1>3. Cardinality(u \ {x}) = Cardinality(u) - 1 /\ Cardinality(u) \in Nat
  BY <1>1, <1>2, FirstFacts
<1> QED
  BY <1>1, <1>3

\* f is the sum of the subsets of S that have at most n elements.
SumsUpTo(f, g, S, n) ==
    /\ f \in [SUBSET S -> Int]
    /\ \A s \in SUBSET S : Cardinality(s) <= n =>
          f[s] = IF s = {} THEN 0 ELSE g[First(s)] + f[s \ {First(s)}]

LEMMA SumsGrow ==
    ASSUME NEW S, IsFiniteSet(S), NEW g, \A x \in S : g[x] \in Int,
           NEW n \in Nat, NEW f, SumsUpTo(f, g, S, n)
    PROVE  \E h : SumsUpTo(h, g, S, n + 1)
<1> DEFINE R(s) == IF s = {} THEN 0 ELSE g[First(s)] + f[s \ {First(s)}]
           h == [s \in SUBSET S |-> IF Cardinality(s) <= n THEN f[s] ELSE R(s)]
<1>1. ASSUME NEW s \in SUBSET S PROVE R(s) \in Int
  BY FirstFacts DEF SumsUpTo
<1>2. h \in [SUBSET S -> Int]
  BY <1>1 DEF SumsUpTo
<1>3. ASSUME NEW s \in SUBSET S, s # {}, Cardinality(s) <= n + 1
      PROVE  h[s \ {First(s)}] = f[s \ {First(s)}]
  BY <1>3, FirstFacts
<1>4. ASSUME NEW s \in SUBSET S, Cardinality(s) <= n + 1
      PROVE  h[s] = R(s)
  BY <1>4 DEF SumsUpTo
<1>5. ASSUME NEW s \in SUBSET S, Cardinality(s) <= n + 1
      PROVE  h[s] = IF s = {} THEN 0 ELSE g[First(s)] + h[s \ {First(s)}]
  <2> HIDE DEF h
  <2> QED
    BY <1>3, <1>4, <1>5
<1> HIDE DEF h
<1> QED
  BY <1>2, <1>5 DEF SumsUpTo

LEMMA SumsExist ==
    ASSUME NEW S, IsFiniteSet(S), NEW g, \A x \in S : g[x] \in Int, NEW n \in Nat
    PROVE  \E f : SumsUpTo(f, g, S, n)
<1> DEFINE Missing == {m \in Nat : ~\E f : SumsUpTo(f, g, S, m)}
<1> SUFFICES ASSUME Missing # {} PROVE FALSE
  OBVIOUS
<1>1. PICK m \in Missing : \A k \in Missing : m <= k
  BY LeastNatural
<1>2. SumsUpTo([s \in SUBSET S |-> 0], g, S, 0)
  <2> SUFFICES ASSUME NEW s \in SUBSET S, Cardinality(s) <= 0 PROVE s = {}
    BY DEF SumsUpTo
  <2>1. IsFiniteSet(s)
    BY FS_Subset
  <2> QED
    BY <2>1, FS_CardinalityType, FS_EmptySet
<1>3. m # 0
  BY <1>1, <1>2
<1>4. m - 1 \in Nat /\ m - 1 \notin Missing
  BY <1>1, <1>3
<1>5. PICK f : SumsUpTo(f, g, S, m - 1)
  BY <1>4
<1>6. \E h : SumsUpTo(h, g, S, (m - 1) + 1)
  BY <1>4, <1>5, SumsGrow
<1> QED
  BY <1>1, <1>6

Follows(t, g, S) ==
    \A s \in SUBSET S : t[s] = IF s = {} THEN 0 ELSE g[First(s)] + t[s \ {First(s)}]

LEMMA SumsAreIntegers ==
    ASSUME NEW S, IsFiniteSet(S), NEW g, \A x \in S : g[x] \in Int,
           NEW t, Follows(t, g, S)
    PROVE  \A s \in SUBSET S : t[s] \in Int
<1> DEFINE Bad == {u \in SUBSET S : t[u] \notin Int}
<1> SUFFICES ASSUME Bad # {} PROVE FALSE
  OBVIOUS
<1>1. PICK u \in Bad : \A x \in u : u \ {x} \notin Bad
  BY Smallest
<1>2. t[u] = IF u = {} THEN 0 ELSE g[First(u)] + t[u \ {First(u)}]
  BY <1>1 DEF Follows
<1>3. u # {}
  BY <1>1, <1>2
<1>4. First(u) \in u
  BY <1>1, <1>3, FirstFacts
<1>5. g[First(u)] \in Int /\ t[u \ {First(u)}] \in Int
  BY <1>1, <1>4
<1> QED
  BY <1>1, <1>2, <1>3, <1>5

\* Only the elements of a set count for its sum.
LEMMA SumsAgree ==
    ASSUME NEW S, IsFiniteSet(S), NEW T \in SUBSET S, NEW g, NEW h,
           \A x \in T : h[x] = g[x],
           NEW t, Follows(t, g, S), NEW v, Follows(v, h, T)
    PROVE  \A s \in SUBSET T : v[s] = t[s]
<1> DEFINE Bad == {u \in SUBSET T : v[u] # t[u]}
<1> SUFFICES ASSUME Bad # {} PROVE FALSE
  OBVIOUS
<1>1. PICK u \in Bad : \A x \in u : u \ {x} \notin Bad
  <2>1. IsFiniteSet(T)
    BY FS_Subset
  <2> QED
    BY <2>1, Smallest
<1>2. v[u] = IF u = {} THEN 0 ELSE h[First(u)] + v[u \ {First(u)}]
  BY <1>1 DEF Follows
<1>3. t[u] = IF u = {} THEN 0 ELSE g[First(u)] + t[u \ {First(u)}]
  BY <1>1 DEF Follows
<1>4. u # {}
  BY <1>1, <1>2, <1>3
<1>5. First(u) \in u
  BY <1>1, <1>4, FirstFacts
<1>6. v[u \ {First(u)}] = t[u \ {First(u)}] /\ h[First(u)] = g[First(u)]
  BY <1>1, <1>5
<1> QED
  BY <1>1, <1>2, <1>3, <1>4, <1>6

\* Any element may be the first.
LEMMA SumsSplit ==
    ASSUME NEW S, IsFiniteSet(S), NEW g, \A x \in S : g[x] \in Int,
           NEW t, Follows(t, g, S)
    PROVE  \A s \in SUBSET S : \A x \in s : t[s] = g[x] + t[s \ {x}]
<1> DEFINE Bad == {u \in SUBSET S : \E x \in u : t[u] # g[x] + t[u \ {x}]}
<1> SUFFICES ASSUME Bad # {} PROVE FALSE
  OBVIOUS
<1>1. PICK u \in Bad : \A x \in u : u \ {x} \notin Bad
  BY Smallest
<1>2. PICK x \in u : t[u] # g[x] + t[u \ {x}]
  BY <1>1
<1>3. PICK y \in u : t[u] = g[y] + t[u \ {y}]
  <2>1. First(u) \in u
    BY <1>1, <1>2, FirstFacts
  <2>2. t[u] = g[First(u)] + t[u \ {First(u)}]
    BY <1>1, <1>2 DEF Follows
  <2> QED
    BY <2>1, <2>2
<1>4. x # y
  BY <1>2, <1>3
<1>5. t[u \ {y}] = g[x] + t[(u \ {y}) \ {x}]
  <2>1. u \ {y} \in SUBSET S /\ u \ {y} \notin Bad /\ x \in u \ {y}
    BY <1>1, <1>2, <1>3, <1>4
  <2> QED
    BY <2>1
<1>6. t[u \ {x}] = g[y] + t[(u \ {x}) \ {y}]
  <2>1. u \ {x} \in SUBSET S /\ u \ {x} \notin Bad /\ y \in u \ {x}
    BY <1>1, <1>2, <1>3, <1>4
  <2> QED
    BY <2>1
<1>7. (u \ {y}) \ {x} = (u \ {x}) \ {y}
  OBVIOUS
<1>8. g[x] \in Int /\ g[y] \in Int /\ t[(u \ {x}) \ {y}] \in Int
  BY <1>1, <1>2, <1>3, SumsAreIntegers
<1>9. t[u] = g[x] + t[u \ {x}]
  <2> DEFINE rest == t[(u \ {x}) \ {y}]
  <2>1. t[u \ {y}] = g[x] + rest /\ t[u \ {x}] = g[y] + rest /\ rest \in Int
    BY <1>5, <1>6, <1>7, <1>8
  <2> HIDE DEF rest
  <2> QED
    BY <1>3, <1>8, <2>1
<1> QED
  BY <1>2, <1>9

-----------------------------------------------------------------------------
(* Sums over a set. *)

Total(g, S) == CHOOSE f : IsSum(f, g, S)

LEMMA SumIsTotal ==
    ASSUME NEW S, IsFiniteSet(S), NEW g, \A x \in S : g[x] \in Int
    PROVE  SumOver(g, S) = Total(g, S)[S] /\ Follows(Total(g, S), g, S)
<1>1. Cardinality(S) \in Nat
  BY FS_CardinalityType
<1>2. PICK f : SumsUpTo(f, g, S, Cardinality(S))
  BY <1>1, SumsExist
<1>3. \A s \in SUBSET S : Cardinality(s) <= Cardinality(S)
  BY FS_Subset
<1>4. IsSum(f, g, S)
  BY <1>2, <1>3 DEF SumsUpTo, IsSum
<1>5. IsSum(Total(g, S), g, S)
  BY <1>4, Zenon DEF Total
<1>6. ASSUME NEW t, IsSum(t, g, S) PROVE Follows(t, g, S)
  BY <1>6 DEF IsSum, Follows
<1> QED
  BY <1>5, <1>6, SumIsChosen DEF Total

\* What a use of MapThenSumSet unfolds to is the sum.
LEMMA SumsAreTotal ==
    ASSUME NEW S, IsFiniteSet(S), NEW g, \A x \in S : g[x] \in Int
    PROVE  /\ \E f : IsSum(f, g, S)
           /\ \A f : IsSum(f, g, S) => f[S] = SumOver(g, S)
<1>1. PICK f : SumsUpTo(f, g, S, Cardinality(S))
  BY FS_CardinalityType, SumsExist
<1>2. \A s \in SUBSET S : Cardinality(s) <= Cardinality(S)
  BY FS_Subset
<1>3. IsSum(f, g, S)
  BY <1>1, <1>2 DEF SumsUpTo, IsSum
<1>4. ASSUME NEW t, IsSum(t, g, S) PROVE t[S] = SumOver(g, S)
  <2>1. Follows(t, g, S)
    BY <1>4 DEF IsSum, Follows
  <2>2. Follows(Total(g, S), g, S) /\ SumOver(g, S) = Total(g, S)[S]
    BY SumIsTotal
  <2>3. \A s \in SUBSET S : t[s] = Total(g, S)[s]
    BY <2>1, <2>2, SumsAgree
  <2> QED
    BY <2>2, <2>3
<1> QED
  BY <1>3, <1>4

\* A sum of integers is one, and the sum of nothing is 0.
THEOREM SumType ==
    ASSUME NEW S, IsFiniteSet(S), NEW g, \A x \in S : g[x] \in Int
    PROVE  SumOver(g, S) \in Int /\ (S = {} => SumOver(g, S) = 0)
<1>1. Total(g, S)[S] \in Int
  BY SumIsTotal, SumsAreIntegers
<1>2. Total(g, S)[S] = IF S = {} THEN 0 ELSE g[First(S)] + Total(g, S)[S \ {First(S)}]
  BY SumIsTotal DEF Follows
<1> QED
  BY <1>1, <1>2, SumIsTotal

\* The sum of zeros is 0.
THEOREM SumOfZeros ==
    ASSUME NEW S, IsFiniteSet(S), NEW g, \A x \in S : g[x] = 0
    PROVE  SumOver(g, S) = 0
<1> DEFINE t == Total(g, S)
           Bad == {u \in SUBSET S : t[u] # 0}
<1>1. SumOver(g, S) = t[S] /\ Follows(t, g, S)
  BY SumIsTotal
<1> HIDE DEF t
<1> SUFFICES ASSUME Bad # {} PROVE FALSE
  BY <1>1
<1>2. PICK u \in Bad : \A x \in u : u \ {x} \notin Bad
  BY Smallest
<1>3. t[u] = IF u = {} THEN 0 ELSE g[First(u)] + t[u \ {First(u)}]
  BY <1>1, <1>2 DEF Follows
<1>4. u # {}
  BY <1>2, <1>3
<1>5. First(u) \in u
  BY <1>2, <1>4, FirstFacts
<1>6. g[First(u)] = 0 /\ t[u \ {First(u)}] = 0
  BY <1>2, <1>5
<1> QED
  BY <1>2, <1>3, <1>6

\* Any element can be taken out of a sum.
THEOREM SumSplit ==
    ASSUME NEW S, IsFiniteSet(S), NEW g, \A x \in S : g[x] \in Int, NEW x \in S
    PROVE  SumOver(g, S) = g[x] + SumOver(g, S \ {x})
<1> DEFINE T == S \ {x}
<1>1. Total(g, S)[S] = g[x] + Total(g, S)[T]
  BY SumIsTotal, SumsSplit
<1>2. T \in SUBSET S /\ IsFiniteSet(T) /\ \A y \in T : g[y] \in Int
  BY FS_Subset
<1> HIDE DEF T
<1>3. Follows(Total(g, S), g, S) /\ Follows(Total(g, T), g, T)
  BY <1>2, SumIsTotal
<1>4. Total(g, T)[T] = Total(g, S)[T]
  BY <1>2, <1>3, SumsAgree
<1>5. SumOver(g, T) = Total(g, T)[T]
  BY <1>2, SumIsTotal
<1> QED
  BY <1>1, <1>4, <1>5, SumIsTotal DEF T

\* Functions that agree on a set have one sum over it.
THEOREM SumAgree ==
    ASSUME NEW S, IsFiniteSet(S), NEW g, NEW h,
           \A x \in S : g[x] \in Int, \A x \in S : h[x] = g[x]
    PROVE  SumOver(h, S) = SumOver(g, S)
<1>1. \A x \in S : h[x] \in Int
  OBVIOUS
<1>2. Follows(Total(g, S), g, S) /\ Follows(Total(h, S), h, S)
  BY <1>1, SumIsTotal
<1>3. Total(h, S)[S] = Total(g, S)[S]
  BY <1>2, SumsAgree
<1> QED
  BY <1>1, <1>3, SumIsTotal

\* A sum changes by as much as its only summand that does.
THEOREM SumChange ==
    ASSUME NEW S, IsFiniteSet(S), NEW g, NEW h, NEW x \in S,
           \A y \in S : g[y] \in Int /\ h[y] \in Int,
           \A y \in S \ {x} : h[y] = g[y]
    PROVE  SumOver(h, S) = SumOver(g, S) + h[x] - g[x]
<1>1. IsFiniteSet(S \ {x})
  BY FS_RemoveElement
<1>2. SumOver(h, S \ {x}) = SumOver(g, S \ {x})
  BY <1>1, SumAgree
<1>3. SumOver(g, S \ {x}) \in Int
  BY <1>1, SumType
<1>4. SumOver(h, S) = h[x] + SumOver(h, S \ {x})
  BY SumSplit
<1>5. SumOver(g, S) = g[x] + SumOver(g, S \ {x})
  BY SumSplit
<1> QED
  BY <1>2, <1>3, <1>4, <1>5

SumsRight(t, g, S) ==
    \A s \in SUBSET S : /\ t[s] \in Int
                        /\ s = {} => t[s] = 0
                        /\ \A x \in s : t[s] = g[x] + t[s \ {x}]

\* What there is to know about a sum and the sums of its parts.
LEMMA TotalFacts ==
    ASSUME NEW S, IsFiniteSet(S), NEW g, \A x \in S : g[x] \in Int
    PROVE  SumOver(g, S) = Total(g, S)[S] /\ SumsRight(Total(g, S), g, S)
<1> DEFINE t == Total(g, S)
<1>1. SumOver(g, S) = t[S] /\ Follows(t, g, S)
  BY SumIsTotal
<1> SUFFICES SumsRight(t, g, S)
  BY <1>1
<1> HIDE DEF t
<1>2. \A s \in SUBSET S : t[s] \in Int
  BY <1>1, SumsAreIntegers
<1>3. ASSUME NEW s \in SUBSET S, NEW x \in s PROVE t[s] = g[x] + t[s \ {x}]
  BY <1>1, SumsSplit
<1>4. \A s \in SUBSET S : s = {} => t[s] = 0
  BY <1>1 DEF Follows
<1> QED
  BY <1>2, <1>3, <1>4 DEF SumsRight

NoMoreThan(g, h, x) == g[x] <= h[x]

\* Larger summands, and none left out that counts, make a larger sum.
THEOREM SumOrder ==
    ASSUME NEW S, IsFiniteSet(S), NEW T \in SUBSET S, NEW g, NEW h,
           \A x \in S : g[x] \in Int, \A x \in T : h[x] \in Int,
           \A x \in T : NoMoreThan(g, h, x), \A x \in S \ T : g[x] = 0
    PROVE  SumOver(g, S) <= SumOver(h, T)
<1> DEFINE t == Total(g, S)
           v == Total(h, T)
           Bad == {u \in SUBSET S : ~(t[u] <= v[u \cap T])}
<1>1. IsFiniteSet(T)
  BY FS_Subset
<1>2. SumOver(g, S) = t[S] /\ SumsRight(t, g, S)
  BY TotalFacts
<1>3. SumOver(h, T) = v[T] /\ SumsRight(v, h, T)
  BY <1>1, TotalFacts
<1> HIDE DEF t, v
<1>4. SUFFICES ASSUME Bad # {} PROVE FALSE
  <2>1. S \cap T = T
    OBVIOUS
  <2> QED
    BY <1>2, <1>3, <2>1 DEF SumsRight
<1>5. PICK u \in Bad : \A x \in u : u \ {x} \notin Bad
  BY <1>4, Smallest
<1>6. u \in SUBSET S /\ u \cap T \in SUBSET T
  OBVIOUS
<1>7. ~(t[u] <= v[u \cap T])
  OBVIOUS
<1>8. u # {}
  <2>1. ASSUME u = {} PROVE t[u] = 0 /\ v[u \cap T] = 0
    BY <1>2, <1>3, <1>6, <2>1 DEF SumsRight
  <2> HIDE DEF Bad
  <2> QED
    BY <1>7, <2>1
<1>9. PICK x \in u : TRUE
  BY <1>8
<1>10. t[u \ {x}] <= v[(u \ {x}) \cap T]
  <2>1. u \ {x} \in SUBSET S /\ u \ {x} \notin Bad
    BY <1>5, <1>6, <1>9
  <2> QED
    BY <2>1
<1> HIDE DEF Bad
<1>11. t[u] = g[x] + t[u \ {x}] /\ t[u \ {x}] \in Int /\ g[x] \in Int
  BY <1>2, <1>6, <1>9 DEF SumsRight
<1>12. v[(u \ {x}) \cap T] \in Int
  BY <1>3, <1>6 DEF SumsRight
<1>13. CASE x \in T
  <2>1. v[u \cap T] = h[x] + v[(u \cap T) \ {x}] /\ h[x] \in Int
    BY <1>3, <1>6, <1>9, <1>13 DEF SumsRight
  <2>2. (u \cap T) \ {x} = (u \ {x}) \cap T
    OBVIOUS
  <2>3. v[u \cap T] = h[x] + v[(u \ {x}) \cap T]
    BY <2>1, <2>2
  <2>4. g[x] <= h[x]
    BY <1>13 DEF NoMoreThan
  <2> QED
    BY <1>7, <1>10, <1>11, <1>12, <2>1, <2>3, <2>4
<1>14. CASE x \notin T
  <2>1. u \cap T = (u \ {x}) \cap T
    BY <1>14
  <2>2. v[u \cap T] = v[(u \ {x}) \cap T]
    BY <2>1
  <2>3. g[x] = 0
    BY <1>6, <1>9, <1>14
  <2> QED
    BY <1>7, <1>10, <1>11, <1>12, <2>2, <2>3
<1> QED
  BY <1>13, <1>14

\* Of naturals no one is more than the sum.
THEOREM SumCovers ==
    ASSUME NEW S, IsFiniteSet(S), NEW g, \A x \in S : g[x] \in Nat
    PROVE  SumOver(g, S) \in Nat /\ \A x \in S : g[x] <= SumOver(g, S)
<1>1. ASSUME NEW T \in SUBSET S PROVE SumOver(g, T) \in Int /\ 0 <= SumOver(g, T)
  <2> DEFINE z == [x \in T |-> 0]
  <2>1. IsFiniteSet(T) /\ (\A x \in T : z[x] = 0) /\ \A x \in T : g[x] \in Nat
    BY FS_Subset
  <2> HIDE DEF z
  <2>2. SumOver(z, T) = 0
    BY <2>1, SumOfZeros
  <2>3. SumOver(z, T) <= SumOver(g, T)
    <3>1. /\ \A x \in T : z[x] \in Int
          /\ \A x \in T : g[x] \in Int
          /\ \A x \in T : NoMoreThan(z, g, x)
      BY <2>1 DEF NoMoreThan
    <3>2. T \in SUBSET T /\ \A x \in T \ T : z[x] = 0
      OBVIOUS
    <3> QED
      BY <2>1, <3>1, <3>2, SumOrder
  <2> QED
    BY <2>1, <2>2, <2>3, SumType
<1>2. ASSUME NEW x \in S PROVE g[x] <= SumOver(g, S)
  <2>1. SumOver(g, S) = g[x] + SumOver(g, S \ {x})
    BY SumSplit
  <2>2. SumOver(g, S \ {x}) \in Int /\ 0 <= SumOver(g, S \ {x})
    BY <1>1
  <2> QED
    BY <2>1, <2>2
<1> QED
  BY <1>1, <1>2
=============================================================================
