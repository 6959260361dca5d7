------------------------------ MODULE SumProofs ------------------------------
(* What the sums and maxima of the community modules give, for finite sets   *)
(* of any size, and the places of numbers in a set.  MapThenSumSet is a recursive function, and what it computes  *)
(* is shown by least counterexamples, since the induction theorems of the    *)
(* library cannot be instantiated.                                           *)
EXTENDS Integers, FiniteSets, FiniteSetsExt, TLAPS, FiniteSetTheorems,
        WellFoundedInduction

(* A set of natural numbers has a least element.                             *)
LEMMA LeastNat ==
  ASSUME NEW T \in SUBSET Nat, T # {}
  PROVE  \E x \in T : \A y \in T : x <= y
<1>1. \E x \in T : \A y \in T : ~(<<y, x>> \in OpToRel(<, Nat))
  BY NatLessThanWellFounded, WFMin
<1>2. PICK x \in T : \A y \in T : ~(<<y, x>> \in OpToRel(<, Nat))
  BY <1>1
<1>3. \A y \in T : ~(y < x)
  BY <1>2 DEF OpToRel
<1> QED
  BY <1>3

(* A set of numbers up to a bound has a greatest one, which Max gives.       *)
LEMMA MaxOfBounded ==
  ASSUME NEW b \in Nat, NEW S \in SUBSET (0..b), S # {}
  PROVE  Max(S) \in S /\ \A i \in S : i <= Max(S)
<1> DEFINE T == {b - i : i \in S}
<1>1. T \in SUBSET Nat /\ T # {}
  <2>1. \A i \in S : b - i \in Nat
    OBVIOUS
  <2> QED
    BY <2>1
<1>2. PICK x \in T : \A y \in T : x <= y
  BY <1>1, LeastNat
<1>3. PICK m \in S : x = b - m
  BY <1>2
<1>4. \A i \in S : m >= i
  BY <1>2, <1>3
<1> QED
  BY <1>3, <1>4 DEF Max
-----------------------------------------------------------------------------
(* The element with which MapThenSumSet goes on.                             *)
OneOf(s) == CHOOSE x \in s : TRUE

(* A set of subsets of S that has the empty one, and each other one as soon  *)
(* as it has what OneOf leaves of it, has them all.                           *)
LEMMA SubsetsByPick ==
  ASSUME NEW S, IsFiniteSet(S), NEW T, {} \in T,
         \A s \in SUBSET S : s # {} /\ s \ {OneOf(s)} \in T => s \in T
  PROVE  \A s \in SUBSET S : s \in T
<1> DEFINE Bad == {Cardinality(s) : s \in (SUBSET S) \ T}
<1>1. SUFFICES ASSUME NEW s0 \in SUBSET S, s0 \notin T PROVE FALSE
  OBVIOUS
<1>2. \A s \in SUBSET S : IsFiniteSet(s) /\ Cardinality(s) \in Nat
  BY FS_Subset, FS_CardinalityType
<1>3. Bad \in SUBSET Nat /\ Bad # {}
  BY <1>1, <1>2
<1>4. PICK k \in Bad : \A m \in Bad : k <= m
  BY <1>3, LeastNat
<1>5. PICK s \in (SUBSET S) \ T : k = Cardinality(s)
  BY <1>4
<1>6. s # {} /\ OneOf(s) \in s
  BY <1>5 DEF OneOf
<1>7. /\ s \ {OneOf(s)} \in SUBSET S
      /\ Cardinality(s \ {OneOf(s)}) = Cardinality(s) - 1
  BY <1>2, <1>5, <1>6, FS_RemoveElement
<1>8. s \ {OneOf(s)} \in T
  <2>1. SUFFICES ASSUME s \ {OneOf(s)} \notin T PROVE FALSE
    OBVIOUS
  <2>2. Cardinality(s) - 1 \in Bad
    BY <1>7, <2>1
  <2> QED
    BY <1>2, <1>4, <1>5, <2>2
<1> QED
  BY <1>5, <1>6, <1>8

(* g is the table of the sums of f over the subsets of S.                    *)
SumTable(f, g, S) ==
  g = [s \in SUBSET S |-> IF s = {} THEN 0 ELSE f[OneOf(s)] + g[s \ {OneOf(s)}]]

(* ... over those with at most n elements.                                   *)
SumTableTo(f, g, S, n) ==
  \A s \in SUBSET S : Cardinality(s) <= n =>
    g[s] = IF s = {} THEN 0 ELSE f[OneOf(s)] + g[s \ {OneOf(s)}]

LEMMA PickLeaves ==
  ASSUME NEW S, IsFiniteSet(S), NEW s \in SUBSET S, s # {}
  PROVE  /\ OneOf(s) \in s /\ s \ {OneOf(s)} \in SUBSET S
         /\ Cardinality(s) \in Nat /\ Cardinality(s \ {OneOf(s)}) = Cardinality(s) - 1
<1>1. OneOf(s) \in s
  BY DEF OneOf
<1>2. IsFiniteSet(s)
  BY FS_Subset
<1> QED
  BY <1>1, <1>2, FS_RemoveElement, FS_CardinalityType

LEMMA TableGrows ==
  ASSUME NEW S, IsFiniteSet(S), NEW f, NEW g, NEW n \in Nat, SumTableTo(f, g, S, n)
  PROVE  \E h : SumTableTo(f, h, S, n + 1)
<1> DEFINE h == [s \in SUBSET S |->
                   IF Cardinality(s) <= n THEN g[s]
                   ELSE IF s = {} THEN 0 ELSE f[OneOf(s)] + g[s \ {OneOf(s)}]]
<1>1. SUFFICES ASSUME NEW s \in SUBSET S, Cardinality(s) <= n + 1
               PROVE  h[s] = IF s = {} THEN 0 ELSE f[OneOf(s)] + h[s \ {OneOf(s)}]
  BY DEF SumTableTo
<1>2. CASE s = {}
  BY <1>2, FS_EmptySet DEF SumTableTo
<1>3. CASE s # {}
  <2>1. /\ s \ {OneOf(s)} \in SUBSET S /\ Cardinality(s) \in Nat
        /\ Cardinality(s \ {OneOf(s)}) = Cardinality(s) - 1
    BY <1>3, PickLeaves
  <2>2. h[s \ {OneOf(s)}] = g[s \ {OneOf(s)}]
    BY <1>1, <2>1
  <2> QED
    BY <1>3, <2>2 DEF SumTableTo
<1> QED
  BY <1>2, <1>3

LEMMA TablesTo ==
  ASSUME NEW S, IsFiniteSet(S), NEW f, NEW n \in Nat
  PROVE  \E g : SumTableTo(f, g, S, n)
<1> DEFINE Bad == {k \in Nat : ~\E g : SumTableTo(f, g, S, k)}
<1>1. SUFFICES ASSUME Bad # {} PROVE FALSE
  OBVIOUS
<1>2. PICK k \in Bad : \A m \in Bad : k <= m
  BY <1>1, LeastNat
<1>3. SumTableTo(f, [s \in SUBSET S |-> 0], S, 0)
  <2>1. SUFFICES ASSUME NEW s \in SUBSET S, Cardinality(s) <= 0
                 PROVE  s = {}
    BY DEF SumTableTo
  <2>2. IsFiniteSet(s) /\ Cardinality(s) \in Nat
    BY FS_Subset, FS_CardinalityType
  <2> QED
    BY <2>1, <2>2, FS_EmptySet
<1>4. k # 0
  BY <1>2, <1>3
<1>5. k - 1 \in Nat /\ k - 1 \notin Bad
  BY <1>2, <1>4
<1>6. PICK g : SumTableTo(f, g, S, k - 1)
  BY <1>5
<1>7. \E h : SumTableTo(f, h, S, (k - 1) + 1)
  BY <1>5, <1>6, TableGrows
<1>8. (k - 1) + 1 = k
  BY <1>2
<1> QED
  BY <1>2, <1>7, <1>8

LEMMA TableExists ==
  ASSUME NEW S, IsFiniteSet(S), NEW f
  PROVE  \E g : SumTable(f, g, S)
<1>1. PICK g : SumTableTo(f, g, S, Cardinality(S))
  BY TablesTo, FS_CardinalityType
<1> DEFINE h == [s \in SUBSET S |-> g[s]]
<1>2. \A s \in SUBSET S : Cardinality(s) <= Cardinality(S)
  BY FS_Subset
<1>3. \A s \in SUBSET S : h[s] = IF s = {} THEN 0 ELSE f[OneOf(s)] + h[s \ {OneOf(s)}]
  BY <1>1, <1>2 DEF SumTableTo
<1>4. SumTable(f, h, S)
  BY <1>3 DEF SumTable
<1> QED
  BY <1>4
-----------------------------------------------------------------------------
(* The sum of a function over a finite set.                                  *)
SumOf(f, S) == MapThenSumSet(LAMBDA i : f[i], S)

LEMMA SumIsTable ==
  ASSUME NEW S, IsFiniteSet(S), NEW f
  PROVE  \E g : SumTable(f, g, S) /\ SumOf(f, S) = g[S]
<1> DEFINE c == CHOOSE g : SumTable(f, g, S)
<1>1. SumTable(f, c, S)
  BY TableExists
<1>2. SumOf(f, S) = c[S]
  BY DEF SumOf, MapThenSumSet, MapThenFoldSet, SumTable, OneOf
<1> QED
  BY <1>1, <1>2

LEMMA TableStep ==
  ASSUME NEW S, NEW f, NEW g, SumTable(f, g, S)
  PROVE  /\ g[{}] = 0
         /\ \A s \in SUBSET S : s # {} => g[s] = f[OneOf(s)] + g[s \ {OneOf(s)}]
BY DEF SumTable

LEMMA TableAt ==
  ASSUME NEW S, IsFiniteSet(S), NEW f, NEW g, SumTable(f, g, S),
         NEW s \in SUBSET S, s # {}
  PROVE  /\ g[s] = f[OneOf(s)] + g[s \ {OneOf(s)}]
         /\ OneOf(s) \in s /\ OneOf(s) \in S /\ s \ {OneOf(s)} \in SUBSET S
<1>1. OneOf(s) \in s /\ s \ {OneOf(s)} \in SUBSET S
  BY PickLeaves
<1>2. g[s] = f[OneOf(s)] + g[s \ {OneOf(s)}]
  BY Zenon DEF SumTable
<1> QED
  BY <1>1, <1>2

(* Two functions that agree on the set have one sum.                         *)
LEMMA SumCong ==
  ASSUME NEW S, IsFiniteSet(S), NEW f, NEW h, \A i \in S : f[i] = h[i]
  PROVE  SumOf(f, S) = SumOf(h, S)
<1>1. PICK g : SumTable(f, g, S) /\ SumOf(f, S) = g[S]
  BY SumIsTable
<1>2. PICK k : SumTable(h, k, S) /\ SumOf(h, S) = k[S]
  BY SumIsTable
<1> DEFINE T == {s \in SUBSET S : g[s] = k[s]}
<1>3. {} \in T
  BY <1>1, <1>2, TableStep
<1>4. ASSUME NEW s \in SUBSET S, s # {}, s \ {OneOf(s)} \in T
      PROVE  s \in T
  <2>1. g[s] = f[OneOf(s)] + g[s \ {OneOf(s)}] /\ OneOf(s) \in S
    BY <1>1, <1>4, TableAt
  <2>2. k[s] = h[OneOf(s)] + k[s \ {OneOf(s)}]
    BY <1>2, <1>4, TableAt
  <2> QED
    BY <1>4, <2>1, <2>2
<1> HIDE DEF T
<1>5. S \in T
  BY <1>3, <1>4, SubsetsByPick
<1> QED
  BY <1>1, <1>2, <1>5 DEF T

LEMMA SumEmpty == \A f : SumOf(f, {}) = 0
<1>1. SUFFICES ASSUME NEW f PROVE SumOf(f, {}) = 0
  OBVIOUS
<1>2. PICK g : SumTable(f, g, {}) /\ SumOf(f, {}) = g[{}]
  BY SumIsTable, FS_EmptySet
<1> QED
  BY <1>2, TableStep

(* A sum of numbers is a number; one of natural numbers a natural number.    *)
LEMMA SumType ==
  ASSUME NEW S, IsFiniteSet(S), NEW f, \A i \in S : f[i] \in Int
  PROVE  /\ SumOf(f, S) \in Int
         /\ (\A i \in S : f[i] >= 0) => SumOf(f, S) >= 0
<1>1. PICK g : SumTable(f, g, S) /\ SumOf(f, S) = g[S]
  BY SumIsTable
<1> DEFINE T == {s \in SUBSET S : g[s] \in Int /\ ((\A i \in S : f[i] >= 0) => g[s] >= 0)}
<1>2. {} \in T
  BY <1>1, TableStep
<1>3. ASSUME NEW s \in SUBSET S, s # {}, s \ {OneOf(s)} \in T
      PROVE  s \in T
  <2>1. g[s] = f[OneOf(s)] + g[s \ {OneOf(s)}] /\ f[OneOf(s)] \in Int /\ OneOf(s) \in S
    BY <1>1, <1>3, TableAt
  <2> QED
    BY <1>3, <2>1
<1> HIDE DEF T
<1>4. S \in T
  BY <1>2, <1>3, SubsetsByPick
<1> QED
  BY <1>1, <1>4 DEF T

(* A function that differs by d at one element of the set has a sum that     *)
(* differs by d.                                                             *)
LEMMA SumBump ==
  ASSUME NEW S, IsFiniteSet(S), NEW f, NEW h, NEW x \in S, NEW d \in Int,
         \A i \in S : f[i] \in Int, \A i \in S \ {x} : h[i] = f[i], h[x] = f[x] + d
  PROVE  SumOf(h, S) = SumOf(f, S) + d
<1>1. PICK g : SumTable(f, g, S) /\ SumOf(f, S) = g[S]
  BY SumIsTable
<1>2. PICK k : SumTable(h, k, S) /\ SumOf(h, S) = k[S]
  BY SumIsTable
<1> DEFINE T == {s \in SUBSET S : g[s] \in Int /\ k[s] = IF x \in s THEN g[s] + d ELSE g[s]}
<1>3. {} \in T
  BY <1>1, <1>2, TableStep
<1>4. ASSUME NEW s \in SUBSET S, s # {}, s \ {OneOf(s)} \in T
      PROVE  s \in T
  <2> DEFINE p == OneOf(s)
             q == s \ {OneOf(s)}
  <2>1. /\ g[s] = f[p] + g[q] /\ k[s] = h[p] + k[q] /\ f[p] \in Int /\ p \in S
        /\ p \in s /\ p \notin q /\ (x \in q <=> x \in s /\ x # p)
    <3>1. g[s] = f[p] + g[q] /\ p \in s /\ p \in S
      BY <1>1, <1>4, TableAt
    <3>2. k[s] = h[p] + k[q]
      BY <1>2, <1>4, TableAt
    <3> QED
      BY <3>1, <3>2
  <2>2. g[q] \in Int /\ k[q] = IF x \in q THEN g[q] + d ELSE g[q]
    BY <1>4
  <2> HIDE DEF p, q
  <2>3. g[s] \in Int
    BY <2>1, <2>2
  <2>4. CASE p = x
    <3>1. h[p] = f[p] + d /\ x \in s /\ x \notin q
      BY <2>1, <2>4
    <3> QED
      BY <2>1, <2>2, <2>3, <3>1
  <2>5. CASE p # x
    <3>1. h[p] = f[p]
      BY <2>1, <2>5
    <3> QED
      BY <2>1, <2>2, <2>3, <2>5, <3>1
  <2> QED
    BY <2>4, <2>5
<1> HIDE DEF T
<1>5. S \in T
  BY <1>3, <1>4, SubsetsByPick
<1> QED
  BY <1>1, <1>2, <1>5 DEF T

(* A set of subsets of S that has each one as soon as it has the smaller     *)
(* ones, has them all.                                                       *)
LEMMA SubsetsBySize ==
  ASSUME NEW S, IsFiniteSet(S), NEW T,
         \A s \in SUBSET S :
           (\A q \in SUBSET S : Cardinality(q) < Cardinality(s) => q \in T) => s \in T
  PROVE  \A s \in SUBSET S : s \in T
<1> DEFINE Bad == {Cardinality(s) : s \in (SUBSET S) \ T}
<1>1. SUFFICES ASSUME NEW s0 \in SUBSET S, s0 \notin T PROVE FALSE
  OBVIOUS
<1>2. \A s \in SUBSET S : Cardinality(s) \in Nat
  BY FS_Subset, FS_CardinalityType
<1>3. Bad \in SUBSET Nat /\ Bad # {}
  BY <1>1, <1>2
<1>4. PICK k \in Bad : \A m \in Bad : k <= m
  BY <1>3, LeastNat
<1>5. PICK s \in (SUBSET S) \ T : k = Cardinality(s)
  BY <1>4
<1>6. \A q \in SUBSET S : Cardinality(q) < Cardinality(s) => q \in T
  <2>1. SUFFICES ASSUME NEW q \in SUBSET S, Cardinality(q) < Cardinality(s), q \notin T
                 PROVE  FALSE
    OBVIOUS
  <2>2. Cardinality(q) \in Bad
    BY <2>1
  <2>3. k <= Cardinality(q) /\ Cardinality(q) \in Nat /\ Cardinality(s) \in Nat
    BY <1>2, <1>4, <2>2
  <2> QED
    BY <1>5, <2>1, <2>3
<1> QED
  BY <1>5, <1>6

LEMMA TableHasSums ==
  ASSUME NEW S, IsFiniteSet(S), NEW f, NEW g, SumTable(f, g, S), NEW s \in SUBSET S
  PROVE  g[s] = SumOf(f, s)
<1>0. IsFiniteSet(s)
  BY FS_Subset
<1>1. PICK k : SumTable(f, k, s) /\ SumOf(f, s) = k[s]
  BY <1>0, SumIsTable
<1> DEFINE T == {q \in SUBSET s : g[q] = k[q]}
<1>2. {} \in T
  BY <1>1, TableStep
<1>3. ASSUME NEW q \in SUBSET s, q # {}, q \ {OneOf(q)} \in T
      PROVE  q \in T
  <2>1. q \in SUBSET S
    OBVIOUS
  <2>2. g[q] = f[OneOf(q)] + g[q \ {OneOf(q)}]
    BY <1>3, <2>1, TableAt
  <2>3. k[q] = f[OneOf(q)] + k[q \ {OneOf(q)}]
    BY <1>0, <1>1, <1>3, TableAt
  <2> QED
    BY <1>3, <2>2, <2>3
<1> HIDE DEF T
<1>4. s \in T
  BY <1>0, <1>2, <1>3, SubsetsByPick
<1> QED
  BY <1>1, <1>4 DEF T

(* The order of the elements does not matter.                                *)
LEMMA SumSplit ==
  ASSUME NEW S, IsFiniteSet(S), NEW f, \A i \in S : f[i] \in Int, NEW x \in S
  PROVE  SumOf(f, S) = f[x] + SumOf(f, S \ {x})
<1>1. PICK g : SumTable(f, g, S) /\ SumOf(f, S) = g[S]
  BY SumIsTable
<1>2. \A s \in SUBSET S : g[s] = SumOf(f, s)
  BY <1>1, TableHasSums
<1>3. \A s \in SUBSET S : g[s] \in Int
  BY <1>2, SumType, FS_Subset
<1> DEFINE T == {s \in SUBSET S : \A y \in s : g[s] = f[y] + g[s \ {y}]}
<1>4. ASSUME NEW s \in SUBSET S,
             \A q \in SUBSET S : Cardinality(q) < Cardinality(s) => q \in T
      PROVE  s \in T
  <2>1. SUFFICES ASSUME NEW y \in s PROVE g[s] = f[y] + g[s \ {y}]
    OBVIOUS
  <2> DEFINE p == OneOf(s)
  <2>2. g[s] = f[p] + g[s \ {p}] /\ p \in s /\ p \in S
    BY <1>1, <2>1, TableAt
  <2>3. IsFiniteSet(s)
    BY FS_Subset
  <2>4. \A z \in s : /\ Cardinality(s \ {z}) = Cardinality(s) - 1
                     /\ Cardinality(s) \in Nat
    BY <2>3, FS_RemoveElement, FS_CardinalityType
  <2> HIDE DEF p
  <2>5. s \ {p} \in T /\ s \ {y} \in T
    <3>1. /\ Cardinality(s \ {p}) < Cardinality(s) /\ Cardinality(s \ {y}) < Cardinality(s)
      BY <2>2, <2>4
    <3>2. s \ {p} \in SUBSET S /\ s \ {y} \in SUBSET S
      OBVIOUS
    <3> HIDE DEF T
    <3> QED
      BY <1>4, <3>1, <3>2
  <2>6. CASE p = y
    BY <2>2, <2>6
  <2>7. CASE p # y
    <3> DEFINE r == (s \ {p}) \ {y}
    <3>1. g[s \ {p}] = f[y] + g[r]
      BY <2>5, <2>7
    <3>2. r = (s \ {y}) \ {p}
      OBVIOUS
    <3>3. g[s \ {y}] = f[p] + g[r]
      BY <2>2, <2>5, <2>7, <3>2
    <3>4. g[r] \in Int /\ f[p] \in Int /\ f[y] \in Int
      BY <1>3, <2>2
    <3> HIDE DEF r
    <3> QED
      BY <2>2, <3>1, <3>3, <3>4
  <2> QED
    BY <2>6, <2>7
<1> HIDE DEF T
<1>5. S \in T
  BY <1>4, SubsetsBySize
<1>6. g[S] = f[x] + g[S \ {x}]
  BY <1>5 DEF T
<1> QED
  BY <1>1, <1>2, <1>6

(* Elements that count nothing may be left out.                              *)
LEMMA SumDropsZeros ==
  ASSUME NEW S, IsFiniteSet(S), NEW f, \A i \in S : f[i] \in Int,
         NEW R \in SUBSET S, \A i \in S \ R : f[i] = 0
  PROVE  SumOf(f, S) = SumOf(f, R)
<1> DEFINE T == {s \in SUBSET S : SumOf(f, s) = SumOf(f, s \cap R)}
<1>1. {} \in T
  <2>1. {} \cap R = {}
    OBVIOUS
  <2> QED
    BY <2>1
<1>2. ASSUME NEW s \in SUBSET S, s # {}, s \ {OneOf(s)} \in T
      PROVE  s \in T
  <2> DEFINE p == OneOf(s)
             q == s \ {p}
  <2>1. IsFiniteSet(s) /\ IsFiniteSet(s \cap R) /\ p \in s
    BY <1>2, FS_Subset DEF OneOf
  <2>2. SumOf(f, q) = SumOf(f, q \cap R)
    BY <1>2
  <2> HIDE DEF p
  <2>3. SumOf(f, s) = f[p] + SumOf(f, q)
    BY <2>1, SumSplit
  <2>4. CASE p \in R
    <3>1. (s \cap R) \ {p} = q \cap R /\ p \in s \cap R
      BY <2>1, <2>4
    <3>2. SumOf(f, s \cap R) = f[p] + SumOf(f, q \cap R)
      BY <2>1, <3>1, SumSplit
    <3> QED
      BY <2>2, <2>3, <3>2
  <2>5. CASE p \notin R
    <3>1. s \cap R = q \cap R /\ f[p] = 0
      BY <2>1, <2>5
    <3>2. SumOf(f, q) \in Int
      BY <2>1, SumType, FS_Subset
    <3>3. SumOf(f, s) = SumOf(f, q)
      BY <2>3, <3>1, <3>2
    <3> QED
      BY <2>2, <3>1, <3>3
  <2> QED
    BY <2>4, <2>5
<1> HIDE DEF T
<1>3. S \in T
  BY <1>1, <1>2, SubsetsByPick
<1>4. S \cap R = R
  OBVIOUS
<1> QED
  BY <1>3, <1>4 DEF T

(* The elements may be named anew.                                           *)
LEMMA SumRenamed ==
  ASSUME NEW S, IsFiniteSet(S), NEW f, NEW h, NEW b,
         \A i \in S : f[i] \in Int /\ h[b[i]] = f[i],
         \A i, j \in S : b[i] = b[j] => i = j
  PROVE  SumOf(f, S) = SumOf(h, {b[i] : i \in S})
<1> DEFINE img(s) == {b[i] : i \in s}
           T == {s \in SUBSET S : IsFiniteSet(img(s)) /\ SumOf(f, s) = SumOf(h, img(s))}
<1>1. {} \in T
  <2>1. {b[i] : i \in {}} = {}
    OBVIOUS
  <2> QED
    BY <2>1, SumEmpty, FS_EmptySet
<1>2. ASSUME NEW s \in SUBSET S, s # {}, s \ {OneOf(s)} \in T
      PROVE  s \in T
  <2> DEFINE p == OneOf(s)
             q == s \ {p}
             R == {b[i] : i \in s}
  <2>1. IsFiniteSet(s) /\ p \in s
    BY <1>2, FS_Subset DEF OneOf
  <2>2. SumOf(f, q) = SumOf(h, img(q)) /\ IsFiniteSet(img(q))
    BY <1>2
  <2> HIDE DEF p
  <2>3. SumOf(f, s) = f[p] + SumOf(f, q)
    BY <2>1, SumSplit
  <2>4. IsFiniteSet(R)
    <3>1. R = img(q) \cup {b[p]}
      BY <2>1
    <3> HIDE DEF R, q, img
    <3> QED
      BY <2>2, <3>1, FS_AddElement
  <2>5. R \ {b[p]} = img(q) /\ b[p] \in R
    BY <2>1
  <2>6. \A y \in R : h[y] \in Int
    OBVIOUS
  <2>7. SumOf(h, R) = h[b[p]] + SumOf(h, R \ {b[p]})
    BY <2>4, <2>5, <2>6, SumSplit
  <2> QED
    BY <2>1, <2>2, <2>3, <2>4, <2>5, <2>7
<1> HIDE DEF T
<1>3. S \in T
  BY <1>1, <1>2, SubsetsByPick
<1> QED
  BY <1>3 DEF T

(* A sum that counts, in each of its places, at least the elements of V that *)
(* are there, counts at least those that are anywhere.                       *)
LEMMA SumCovers ==
  ASSUME NEW S, IsFiniteSet(S), NEW V, IsFiniteSet(V), NEW f, NEW p,
         \A i \in S : f[i] \in Nat /\ f[i] >= Cardinality({v \in V : p[v] = i})
  PROVE  SumOf(f, S) >= Cardinality({v \in V : p[v] \in S})
<1>0. ASSUME NEW i \in S PROVE f[i] \in Int
  <2>1. f[i] \in Nat
    BY Zenon
  <2> QED
    BY <2>1
<1> DEFINE At(s) == {v \in V : p[v] \in s}
           T == {s \in SUBSET S : SumOf(f, s) >= Cardinality(At(s))}
<1>1. \A s : IsFiniteSet(At(s)) /\ Cardinality(At(s)) \in Nat
  BY FS_Subset, FS_CardinalityType
<1>2. {} \in T
  <2>1. At({}) = {}
    OBVIOUS
  <2> QED
    BY <2>1, SumEmpty, FS_EmptySet
<1>3. ASSUME NEW s \in SUBSET S, s # {}, s \ {OneOf(s)} \in T PROVE s \in T
  <2>1. PICK x \in s : x = OneOf(s)
    BY <1>3, PickLeaves
  <2>2. IsFiniteSet(s) /\ IsFiniteSet(s \ {x})
    BY FS_Subset
  <2>3. SumOf(f, s) = f[x] + SumOf(f, s \ {x})
    <3>1. \A i \in s : f[i] \in Int
      BY <1>0, Zenon
    <3> QED
      BY <2>2, <3>1, SumSplit
  <2>4. SumOf(f, s \ {x}) >= Cardinality(At(s \ {x})) /\ SumOf(f, s \ {x}) \in Int
    <3>1. \A i \in s \ {x} : f[i] \in Int
      BY <1>0, Zenon
    <3>2. SumOf(f, s \ {x}) \in Int
      BY <2>2, <3>1, SumType
    <3>3. SumOf(f, s \ {x}) >= Cardinality(At(s \ {x}))
      BY <1>3, <2>1
    <3> QED
      BY <3>2, <3>3
  <2>5. At(s) = At(s \ {x}) \cup {v \in V : p[v] = x} /\ At(s \ {x}) \cap {v \in V : p[v] = x} = {}
    OBVIOUS
  <2>6. IsFiniteSet({v \in V : p[v] = x}) /\ Cardinality({v \in V : p[v] = x}) \in Nat
    BY FS_Subset, FS_CardinalityType
  <2>7. Cardinality(At(s)) = Cardinality(At(s \ {x})) + Cardinality({v \in V : p[v] = x})
    <3>1. Cardinality(At(s)) = Cardinality(At(s \ {x})) + Cardinality({v \in V : p[v] = x}) - Cardinality({})
      BY <1>1, <2>5, <2>6, FS_Union
    <3> HIDE DEF At
    <3> QED
      BY <1>1, <2>6, <3>1, FS_EmptySet
  <2>8. f[x] \in Nat /\ f[x] >= Cardinality({v \in V : p[v] = x})
    OBVIOUS
  <2> HIDE DEF At
  <2>9. SumOf(f, s) >= Cardinality(At(s))
    BY <1>1, <2>3, <2>4, <2>6, <2>7, <2>8
  <2> QED
    BY <2>9
<1> HIDE DEF T
<1>4. S \in T
  BY <1>2, <1>3, SubsetsByPick
<1> QED
  BY <1>4 DEF T
-----------------------------------------------------------------------------
(* Over natural numbers, the sum of a part is at most the sum of the whole.  *)
LEMMA SumOfPart ==
  ASSUME NEW S, IsFiniteSet(S), NEW f, \A i \in S : f[i] \in Nat, NEW R \in SUBSET S
  PROVE  SumOf(f, R) \in Nat /\ SumOf(f, S) \in Nat /\ SumOf(f, R) <= SumOf(f, S)
<1>0. ASSUME NEW s \in SUBSET S
      PROVE  IsFiniteSet(s) /\ SumOf(f, s) \in Nat /\ SumOf(f, s \cap R) \in Nat
  <2>1. IsFiniteSet(s) /\ IsFiniteSet(s \cap R)
    BY FS_Subset
  <2>2. (\A i \in s : f[i] \in Int /\ f[i] >= 0) /\ (\A i \in s \cap R : f[i] \in Int /\ f[i] >= 0)
    OBVIOUS
  <2>3. SumOf(f, s) \in Int /\ SumOf(f, s) >= 0
    BY <2>1, <2>2, SumType
  <2>4. SumOf(f, s \cap R) \in Int /\ SumOf(f, s \cap R) >= 0
    BY <2>1, <2>2, SumType
  <2> QED
    BY <2>1, <2>3, <2>4
<1> DEFINE T == {s \in SUBSET S : SumOf(f, s \cap R) <= SumOf(f, s)}
<1>1. {} \in T
  <2>1. {} \cap R = {}
    OBVIOUS
  <2> QED
    BY <2>1, SumEmpty
<1>2. ASSUME NEW s \in SUBSET S, s # {}, s \ {OneOf(s)} \in T
      PROVE  s \in T
  <2> DEFINE p == OneOf(s)
             q == s \ {p}
  <2>1. IsFiniteSet(s) /\ IsFiniteSet(s \cap R) /\ p \in s
    BY <1>2, FS_Subset DEF OneOf
  <2>2. SumOf(f, q \cap R) <= SumOf(f, q)
    BY <1>2
  <2> HIDE DEF p
  <2>3. (\A i \in s : f[i] \in Int) /\ (\A i \in s \cap R : f[i] \in Int) /\ f[p] \in Nat
    BY <2>1
  <2>4. SumOf(f, s) = f[p] + SumOf(f, q)
    BY <2>1, <2>3, SumSplit
  <2>5. q \in SUBSET S
    OBVIOUS
  <2>6. SumOf(f, q) \in Nat /\ SumOf(f, q \cap R) \in Nat
    BY <2>5, <1>0
  <2> DEFINE w == SumOf(f, q)
             v == SumOf(f, q \cap R)
  <2>7. CASE p \in R
    <3>1. (s \cap R) \ {p} = q \cap R /\ p \in s \cap R
      BY <2>1, <2>7
    <3>2. SumOf(f, s \cap R) = f[p] + SumOf(f, q \cap R)
      BY <2>1, <2>3, <3>1, SumSplit
    <3>3. f[p] + w >= f[p] + v
      <4> HIDE DEF w, v
      <4> QED
        BY <2>2, <2>3, <2>6 DEF w, v
    <3> QED
      BY <2>4, <3>2, <3>3
  <2>8. CASE p \notin R
    <3>1. s \cap R = q \cap R
      BY <2>1, <2>8
    <3>2. SumOf(f, s \cap R) = v
      BY <3>1
    <3>3. f[p] + w >= v
      <4> HIDE DEF w, v
      <4> QED
        BY <2>2, <2>3, <2>6 DEF w, v
    <3> QED
      BY <2>4, <3>2, <3>3
  <2> QED
    BY <2>7, <2>8
<1> HIDE DEF T
<1>3. S \in T
  BY <1>1, <1>2, SubsetsByPick
<1>4. S \cap R = R
  OBVIOUS
<1> QED
  BY <1>0, <1>3, <1>4 DEF T
-----------------------------------------------------------------------------
(* The place of an element in a set of numbers.                              *)
Place(A, i) == Cardinality({j \in A : j <= i})

(* A greater element comes later ...                                          *)
LEMMA PlacesRise ==
  ASSUME NEW b \in Nat, NEW A \in SUBSET (1..b), NEW i \in A, NEW k \in A, i < k
  PROVE  Place(A, i) < Place(A, k)
<1> DEFINE I == {j \in A : j <= i}
           K == {j \in A : j <= k}
<1>1. IsFiniteSet(1..b)
  BY FS_Interval
<1>2. IsFiniteSet(I) /\ IsFiniteSet(K)
  BY <1>1, FS_Subset
<1>3. I \subseteq K /\ k \in K /\ k \notin I
  <2>1. i \in Nat /\ k \in Nat /\ \A j \in A : j \in Nat
    OBVIOUS
  <2>2. (\A j \in A : j <= i => j <= k) /\ k <= k /\ ~(k <= i)
    BY <2>1
  <2> QED
    BY <2>2
<1> HIDE DEF I, K
<1>4. I \in SUBSET (K \ {k}) /\ IsFiniteSet(K \ {k}) /\ Cardinality(K \ {k}) = Cardinality(K) - 1
  BY <1>2, <1>3, FS_RemoveElement
<1>5. Cardinality(I) <= Cardinality(K \ {k}) /\ Cardinality(I) \in Nat /\ Cardinality(K) \in Nat
  BY <1>2, <1>4, FS_Subset, FS_CardinalityType
<1> QED
  BY <1>4, <1>5 DEF I, K, Place

(* ... and every place up to the number of the elements is taken.             *)
LEMMA PlacesTaken ==
  ASSUME NEW b \in Nat, NEW A \in SUBSET (1..b)
  PROVE  /\ IsFiniteSet(A) /\ Cardinality(A) \in Nat
         /\ \A n \in 1..Cardinality(A) : \E i \in A : Place(A, i) = n
<1>0. IsFiniteSet(1..b)
  BY FS_Interval
<1>1. IsFiniteSet(A) /\ Cardinality(A) \in Nat
  BY <1>0, FS_Subset, FS_CardinalityType
<1> DEFINE N == 1..Cardinality(A)
           f == [i \in A |-> Place(A, i)]
<1>2. \A i \in A : Place(A, i) \in N
  <2>1. SUFFICES ASSUME NEW i \in A PROVE Place(A, i) \in N
    OBVIOUS
  <2> DEFINE I == {j \in A : j <= i}
  <2>2. I \in SUBSET A /\ i \in I
    OBVIOUS
  <2> HIDE DEF I
  <2>3. IsFiniteSet(I) /\ Cardinality(I) <= Cardinality(A)
    BY <1>1, <2>2, FS_Subset
  <2>4. Cardinality(I) \in Nat /\ Cardinality(I) # 0
    BY <2>2, <2>3, FS_CardinalityType, FS_EmptySet
  <2> QED
    BY <1>1, <2>3, <2>4 DEF I, Place
<1>3. \A i, k \in A : f[i] = f[k] => i = k
  <2>1. SUFFICES ASSUME NEW i \in A, NEW k \in A, Place(A, i) = Place(A, k), i # k
                 PROVE  FALSE
    OBVIOUS
  <2>2. Place(A, i) \in Nat
    BY <1>2
  <2>3. i \in Nat /\ k \in Nat
    OBVIOUS
  <2>4. i < k \/ k < i
    BY <2>1, <2>3
  <2>5. CASE i < k
    <3>1. Place(A, i) < Place(A, k)
      BY <2>5, PlacesRise
    <3> QED
      BY <2>1, <2>2, <3>1
  <2>6. CASE k < i
    <3>1. Place(A, k) < Place(A, i)
      BY <2>6, PlacesRise
    <3> QED
      BY <2>1, <2>2, <3>1
  <2> QED
    BY <2>4, <2>5, <2>6
<1>4. f \in Injection(A, N)
  BY <1>2, <1>3 DEF Injection, IsInjective
<1>5. IsFiniteSet(N) /\ Cardinality(N) = Cardinality(A)
  BY <1>1, FS_Interval
<1>6. f \in Surjection(A, N)
  BY <1>4, <1>5, FS_Injection
<1>7. \A n \in N : \E i \in A : f[i] = n
  BY <1>6 DEF Surjection
<1> QED
  BY <1>1, <1>7
=============================================================================
