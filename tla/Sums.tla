-------------------------------- MODULE Sums --------------------------------
(***************************************************************************)
(* Laws of sums over finite sets, for the totals the components keep and   *)
(* report.  A total is SumFunction(f), the sum of the values of a function *)
(* on its domain; the community modules define it by a recursive function  *)
(* that removes an element CHOOSE picks.                                   *)
(***************************************************************************)
EXTENDS Integers, FiniteSets, Functions, FiniteSetTheorems,
        WellFoundedInduction, TLAPS

-----------------------------------------------------------------------------
\* Induction, on sets: the induction theorems of the library take operators.

\* Induction on numbers, for a set of them.
LEMMA NatSetInduction ==
    ASSUME NEW T \in SUBSET Nat, 0 \in T, \A n \in T : n + 1 \in T
    PROVE  T = Nat
<1> DEFINE Out == Nat \ T
<1>1. ASSUME Out # {} PROVE FALSE
  <2>1. Out \in SUBSET Nat /\ Out # {}
    BY <1>1
  <2>2. PICK m \in Out : \A n \in Out : <<n, m>> \notin OpToRel(<, Nat)
    <3> HIDE DEF Out
    <3> QED
      BY <2>1, WFMin, NatLessThanWellFounded, Zenon
  <2>3. \A n \in Out : ~ (n < m)
    BY <2>2 DEF OpToRel
  <2>4. m \in Nat /\ m # 0 /\ m - 1 \in Nat
    OBVIOUS
  <2>5. m - 1 \in T
    BY <2>3, <2>4
  <2>6. (m - 1) + 1 = m
    BY <2>4
  <2>7. m \in T
    BY <2>5, <2>6
  <2> QED
    BY <2>7
<1> QED
  BY <1>1

\* All subsets of a finite set are good if a subset is whenever it is so with
\* any one element less.
LEMMA SubsetInduction ==
    ASSUME NEW S, IsFiniteSet(S), NEW Good,
           \A s \in SUBSET S : (\A x \in s : s \ {x} \in Good) => s \in Good
    PROVE  \A s \in SUBSET S : s \in Good
<1> DEFINE T == {n \in Nat : \A s \in SUBSET S : Cardinality(s) = n => s \in Good}
<1>1. \A s \in SUBSET S : IsFiniteSet(s) /\ Cardinality(s) \in Nat
  BY FS_Subset, FS_CardinalityType
<1>2. 0 \in T
  <2>1. \A s \in SUBSET S : Cardinality(s) = 0 => s = {}
    BY <1>1, FS_EmptySet
  <2> QED
    BY <2>1
<1>3. ASSUME NEW n \in T PROVE n + 1 \in T
  <2>1. ASSUME NEW s \in SUBSET S, Cardinality(s) = n + 1, NEW x \in s
        PROVE  s \ {x} \in Good
    <3>1. Cardinality(s \ {x}) = n
      BY <1>1, <2>1, FS_RemoveElement
    <3> QED
      BY <3>1
  <2> QED
    BY <2>1
<1>4. T = Nat
  <2>1. T \in SUBSET Nat
    OBVIOUS
  <2> HIDE DEF T
  <2> QED
    BY <1>2, <1>3, <2>1, NatSetInduction
<1> QED
  BY <1>1, <1>4

\* The image of a finite set under a function is finite.
LEMMA ImageFinite ==
    ASSUME NEW S, IsFiniteSet(S), NEW T, NEW f, \A y \in T : \E x \in S : f[x] = y
    PROVE  IsFiniteSet(T)
<1> DEFINE R == {x \in S : f[x] \in T}
           g == [x \in R |-> f[x]]
<1>1. IsFiniteSet(R)
  BY FS_Subset
<1>2. g \in Surjection(R, T)
  BY DEF Surjection
<1> QED
  BY <1>1, <1>2, FS_Surjection

-----------------------------------------------------------------------------
\* The recursion has a solution, so the sum obeys its equation.

Picked(s) == CHOOSE x \in s : TRUE

Partial(f, S, g) ==
    [s \in SUBSET S |-> IF s = {} THEN 0 ELSE f[Picked(s)] + g[s \ {Picked(s)}]]

\* The community modules' fold of a sum is a function defined on all subsets.
LEMMA SumUnfolded ==
    ASSUME NEW f, NEW S
    PROVE  SumFunctionOnSet(f, S) = (CHOOSE g : g = Partial(f, S, g))[S]
BY Zenon DEF SumFunctionOnSet, FoldFunctionOnSet, MapThenFoldSet, Partial, Picked

\* The element the fold picks is one of the set.
LEMMA PickedIn == \A s : s # {} => Picked(s) \in s
BY DEF Picked

\* Such a function exists over a finite set ...
LEMMA PartialExists ==
    ASSUME NEW S, IsFiniteSet(S), NEW f, \A x \in S : f[x] \in Int
    PROVE  \E g \in [SUBSET S -> Int] : g = Partial(f, S, g)
<1> DEFINE UpTo(n, g) == \A s \in SUBSET S :
               Cardinality(s) <= n => g[s] = Partial(f, S, g)[s]
           T == {n \in Nat : \E g \in [SUBSET S -> Int] : UpTo(n, g)}
<1>1. \A s \in SUBSET S : IsFiniteSet(s) /\ Cardinality(s) \in Nat
  BY FS_Subset, FS_CardinalityType
<1>2. ASSUME NEW g \in [SUBSET S -> Int]
      PROVE  Partial(f, S, g) \in [SUBSET S -> Int]
  BY PickedIn DEF Partial
<1>3. 0 \in T
  <2> DEFINE g == [s \in SUBSET S |-> 0]
  <2>1. \A s \in SUBSET S : Cardinality(s) <= 0 => s = {}
    BY <1>1, FS_EmptySet
  <2>2. UpTo(0, g) /\ g \in [SUBSET S -> Int]
    BY <2>1 DEF Partial
  <2> QED
    BY <2>2
<1>4. ASSUME NEW n \in T PROVE n + 1 \in T
  <2>1. PICK g \in [SUBSET S -> Int] : UpTo(n, g)
    BY <1>4
  <2> DEFINE h == Partial(f, S, g)
  <2>2. h \in [SUBSET S -> Int]
    BY <1>2
  <2>3. ASSUME NEW s \in SUBSET S, Cardinality(s) <= n + 1
        PROVE  h[s] = Partial(f, S, h)[s]
    <3>1. CASE s = {}
      BY <3>1 DEF Partial
    <3>2. CASE s # {}
      <4> DEFINE rest == s \ {Picked(s)}
      <4>1. Cardinality(rest) <= n /\ rest \in SUBSET S
        BY <1>1, <2>3, <3>2, PickedIn, FS_RemoveElement
      <4>2. h[rest] = g[rest]
        BY <2>1, <4>1
      <4>3. /\ h[s] = f[Picked(s)] + g[rest]
            /\ Partial(f, S, h)[s] = f[Picked(s)] + h[rest]
        BY <3>2 DEF Partial
      <4> QED
        BY <4>2, <4>3
    <3> QED
      BY <3>1, <3>2
  <2>4. UpTo(n + 1, h)
    BY <2>3
  <2> QED
    BY <2>2, <2>4
<1>5. T = Nat
  <2>1. T \in SUBSET Nat
    OBVIOUS
  <2> HIDE DEF T
  <2> QED
    BY <1>3, <1>4, <2>1, NatSetInduction
<1>6. PICK g \in [SUBSET S -> Int] : UpTo(Cardinality(S), g)
  <2>1. Cardinality(S) \in T
    BY <1>1, <1>5
  <2> QED
    BY <2>1
<1>7. \A s \in SUBSET S : Cardinality(s) <= Cardinality(S)
  BY FS_Subset
<1>8. g = Partial(f, S, g)
  <2>1. \A s \in SUBSET S : g[s] = Partial(f, S, g)[s]
    BY <1>6, <1>7
  <2>2. Partial(f, S, g) \in [SUBSET S -> Int]
    BY <1>2
  <2> HIDE DEF UpTo
  <2> QED
    BY <2>1, <2>2
<1> QED
  BY <1>8

\* ... and any two agree where both are defined.
LEMMA PartialAgrees ==
    ASSUME NEW S, IsFiniteSet(S), NEW R \in SUBSET S, NEW f, NEW g, NEW h,
           g = Partial(f, S, g), h = Partial(f, R, h)
    PROVE  g[R] = h[R]
<1> DEFINE Good == {s \in SUBSET R : g[s] = h[s]}
<1>1. ASSUME NEW s \in SUBSET R, \A x \in s : s \ {x} \in Good
      PROVE  s \in Good
  <2>1. /\ g[s] = Partial(f, S, g)[s]
        /\ h[s] = Partial(f, R, h)[s]
    BY Zenon
  <2>2. CASE s = {}
    BY <2>1, <2>2 DEF Partial
  <2>3. CASE s # {}
    <3>1. g[s \ {Picked(s)}] = h[s \ {Picked(s)}]
      BY <1>1, <2>3, PickedIn
    <3>2. /\ Partial(f, S, g)[s] = f[Picked(s)] + g[s \ {Picked(s)}]
          /\ Partial(f, R, h)[s] = f[Picked(s)] + h[s \ {Picked(s)}]
      BY <2>3 DEF Partial
    <3>3. g[s] = h[s]
      BY <2>1, <3>1, <3>2, Zenon
    <3> QED
      BY <3>3
  <2> QED
    BY <2>2, <2>3
<1>2. IsFiniteSet(R)
  BY FS_Subset
<1>3. R \in Good
  <2> HIDE DEF Good
  <2> QED
    BY <1>1, <1>2, SubsetInduction
<1> QED
  BY <1>3

\* So the sum is a number, and unfolds by the element picked ...
LEMMA SumDefined ==
    ASSUME NEW S, IsFiniteSet(S), NEW f, \A x \in S : f[x] \in Int
    PROVE  /\ SumFunctionOnSet(f, S) \in Int
           /\ SumFunctionOnSet(f, S) =
                 IF S = {} THEN 0
                 ELSE f[Picked(S)] + SumFunctionOnSet(f, S \ {Picked(S)})
<1> DEFINE G(R) == CHOOSE g : g = Partial(f, R, g)
<1>1. ASSUME NEW R \in SUBSET S
      PROVE  /\ G(R) = Partial(f, R, G(R))
             /\ SumFunctionOnSet(f, R) = G(R)[R]
  <2>1. \E g : g = Partial(f, R, g)
    <3>1. IsFiniteSet(R) /\ \A x \in R : f[x] \in Int
      BY FS_Subset
    <3> QED
      BY <3>1, PartialExists
  <2>2. G(R) = Partial(f, R, G(R))
    BY <2>1, Zenon
  <2> QED
    BY <2>2, SumUnfolded, Zenon
<1>2. S \in SUBSET S /\ S \ {Picked(S)} \in SUBSET S
  OBVIOUS
<1>3. PICK g \in [SUBSET S -> Int] : g = Partial(f, S, g)
  BY PartialExists
<1>4. \A R \in SUBSET S : SumFunctionOnSet(f, R) = g[R]
  <2> HIDE DEF G
  <2> QED
    BY <1>1, <1>3, PartialAgrees
<1>5. g[S] = IF S = {} THEN 0 ELSE f[Picked(S)] + g[S \ {Picked(S)}]
  <2>1. g[S] = Partial(f, S, g)[S]
    BY <1>3, Zenon
  <2> QED
    BY <2>1 DEF Partial
<1> QED
  BY <1>2, <1>3, <1>4, <1>5

-----------------------------------------------------------------------------
\* The laws.

\* ... or by any other element.
LEMMA SumRemove ==
    ASSUME NEW S, IsFiniteSet(S), NEW f, \A x \in S : f[x] \in Int, NEW y \in S
    PROVE  SumFunctionOnSet(f, S) = f[y] + SumFunctionOnSet(f, S \ {y})
<1> DEFINE Sum(s) == SumFunctionOnSet(f, s)
           Good == {s \in SUBSET S : \A x \in s : Sum(s) = f[x] + Sum(s \ {x})}
<1>1. ASSUME NEW s \in SUBSET S
      PROVE  Sum(s) \in Int /\ (s # {} => Sum(s) = f[Picked(s)] + Sum(s \ {Picked(s)}))
  <2>1. IsFiniteSet(s) /\ \A x \in s : f[x] \in Int
    BY FS_Subset
  <2> QED
    BY <2>1, SumDefined
<1> HIDE DEF Sum
<1>2. ASSUME NEW s \in SUBSET S, \A x \in s : s \ {x} \in Good
      PROVE  s \in Good
  <2> SUFFICES ASSUME NEW x \in s PROVE Sum(s) = f[x] + Sum(s \ {x})
    OBVIOUS
  <2> DEFINE p == Picked(s)
  <2>1. p \in s /\ Sum(s) = f[p] + Sum(s \ {p})
    BY <1>1, PickedIn
  <2> HIDE DEF p
  <2>2. CASE x = p
    BY <2>1, <2>2
  <2>3. CASE x # p
    <3>1. Sum(s \ {p}) = f[x] + Sum((s \ {p}) \ {x})
      BY <1>2, <2>1, <2>3
    <3>2. Sum(s \ {x}) = f[p] + Sum((s \ {x}) \ {p})
      BY <1>2, <2>1, <2>3
    <3>3. (s \ {x}) \ {p} = (s \ {p}) \ {x}
      OBVIOUS
    <3>4. /\ f[x] \in Int /\ f[p] \in Int
          /\ Sum((s \ {p}) \ {x}) \in Int
      BY <1>1, <2>1
    <3>5. Sum(s \ {x}) = f[p] + Sum((s \ {p}) \ {x})
      BY <3>2, <3>3
    <3> QED
      BY <2>1, <3>1, <3>4, <3>5
  <2> QED
    BY <2>2, <2>3
<1>3. \A s \in SUBSET S : s \in Good
  <2> HIDE DEF Good
  <2> QED
    BY <1>2, SubsetInduction, Zenon
<1>4. S \in Good
  BY <1>3
<1> QED
  BY <1>4 DEF Sum

\* The sum of nothing.
LEMMA SumEmpty == ASSUME NEW f PROVE SumFunctionOnSet(f, {}) = 0
BY SumDefined, FS_EmptySet

\* A sum of numbers is a number.
LEMMA SumInt ==
    ASSUME NEW S, IsFiniteSet(S), NEW f, \A x \in S : f[x] \in Int
    PROVE  SumFunctionOnSet(f, S) \in Int
BY SumDefined

\* The sum of one.
LEMMA SumOne ==
    ASSUME NEW x, NEW f, f[x] \in Int
    PROVE  SumFunctionOnSet(f, {x}) = f[x]
<1>1. IsFiniteSet({x}) /\ {x} \ {x} = {}
  BY FS_Singleton
<1>2. SumFunctionOnSet(f, {x}) = f[x] + SumFunctionOnSet(f, {x} \ {x})
  BY <1>1, SumRemove
<1>3. SumFunctionOnSet(f, {x} \ {x}) = 0
  BY <1>1, SumEmpty
<1> QED
  BY <1>2, <1>3

\* The sum of the sums of two functions.
LEMMA SumPlus ==
    ASSUME NEW S, IsFiniteSet(S), NEW f, NEW g, NEW h,
           \A x \in S : f[x] \in Int /\ g[x] \in Int /\ h[x] = f[x] + g[x]
    PROVE  SumFunctionOnSet(h, S) = SumFunctionOnSet(f, S) + SumFunctionOnSet(g, S)
<1> DEFINE F(s) == SumFunctionOnSet(f, s)
           G(s) == SumFunctionOnSet(g, s)
           H(s) == SumFunctionOnSet(h, s)
           Good == {s \in SUBSET S : H(s) = F(s) + G(s)}
<1>0. \A x \in S : h[x] \in Int
  OBVIOUS
<1>1. ASSUME NEW s \in SUBSET S
      PROVE  /\ F(s) \in Int /\ G(s) \in Int
             /\ s = {} => F(s) = 0 /\ G(s) = 0 /\ H(s) = 0
             /\ \A x \in s : /\ F(s) = f[x] + F(s \ {x})
                             /\ G(s) = g[x] + G(s \ {x})
                             /\ H(s) = h[x] + H(s \ {x})
  <2>1. IsFiniteSet(s)
    BY FS_Subset
  <2>2. /\ \A x \in s : f[x] \in Int
        /\ \A x \in s : g[x] \in Int
        /\ \A x \in s : h[x] \in Int
    BY <1>0
  <2>3. \A x \in s : /\ F(s) = f[x] + F(s \ {x})
                     /\ G(s) = g[x] + G(s \ {x})
                     /\ H(s) = h[x] + H(s \ {x})
    BY <2>1, <2>2, SumRemove
  <2>4. F(s) \in Int /\ G(s) \in Int
    BY <2>1, <2>2, SumInt
  <2> QED
    BY <2>3, <2>4, SumEmpty
<1> HIDE DEF F, G, H
<1>2. ASSUME NEW s \in SUBSET S, \A x \in s : s \ {x} \in Good
      PROVE  s \in Good
  <2>1. CASE s = {}
    <3>1. F(s) = 0 /\ G(s) = 0 /\ H(s) = 0
      BY <1>1, <2>1
    <3> QED
      BY <3>1
  <2>2. ASSUME NEW x \in s PROVE H(s) = F(s) + G(s)
    <3>1. H(s \ {x}) = F(s \ {x}) + G(s \ {x})
      BY <1>2
    <3>2. F(s \ {x}) \in Int /\ G(s \ {x}) \in Int
      BY <1>1
    <3>3. /\ F(s) = f[x] + F(s \ {x})
          /\ G(s) = g[x] + G(s \ {x})
          /\ H(s) = h[x] + H(s \ {x})
      BY <1>1
    <3>4. f[x] \in Int /\ g[x] \in Int /\ h[x] = f[x] + g[x]
      OBVIOUS
    <3> QED
      BY <3>1, <3>2, <3>3, <3>4
  <2> QED
    BY <2>1, <2>2
<1>3. \A s \in SUBSET S : s \in Good
  <2> HIDE DEF Good
  <2> QED
    BY <1>2, SubsetInduction, Zenon
<1>4. S \in Good
  BY <1>3
<1> QED
  BY <1>4 DEF F, G, H

\* Sums subtract as they add.
LEMMA SumMinus ==
    ASSUME NEW S, IsFiniteSet(S), NEW f, NEW g, NEW h,
           \A x \in S : f[x] \in Int /\ g[x] \in Int /\ h[x] = f[x] - g[x]
    PROVE  SumFunctionOnSet(h, S) = SumFunctionOnSet(f, S) - SumFunctionOnSet(g, S)
<1>1. \A x \in S : h[x] \in Int /\ g[x] \in Int /\ f[x] = h[x] + g[x]
  OBVIOUS
<1>2. SumFunctionOnSet(f, S) = SumFunctionOnSet(h, S) + SumFunctionOnSet(g, S)
  BY <1>1, SumPlus
<1>3. SumFunctionOnSet(h, S) \in Int /\ SumFunctionOnSet(g, S) \in Int
  BY <1>1, SumInt
<1> QED
  BY <1>2, <1>3

\* A sum of zeros.
LEMMA SumZero ==
    ASSUME NEW S, IsFiniteSet(S), NEW f, \A x \in S : f[x] = 0
    PROVE  SumFunctionOnSet(f, S) = 0
<1>1. \A x \in S : f[x] \in Int /\ f[x] \in Int /\ f[x] = f[x] + f[x]
  OBVIOUS
<1>2. SumFunctionOnSet(f, S) = SumFunctionOnSet(f, S) + SumFunctionOnSet(f, S)
  BY <1>1, SumPlus
<1> DEFINE total == SumFunctionOnSet(f, S)
<1>3. total \in Int /\ total = total + total
  BY <1>1, <1>2, SumInt
<1> HIDE DEF total
<1>4. total = 0
  BY <1>3
<1> QED
  BY <1>4 DEF total

\* A sum depends on the values on its set alone.
LEMMA SumSame ==
    ASSUME NEW S, IsFiniteSet(S), NEW f, NEW g,
           \A x \in S : f[x] \in Int /\ f[x] = g[x]
    PROVE  SumFunctionOnSet(f, S) = SumFunctionOnSet(g, S)
<1> DEFINE z == [x \in S |-> 0]
<1>1. \A x \in S : g[x] \in Int /\ z[x] \in Int /\ f[x] = g[x] + z[x]
  OBVIOUS
<1>2. SumFunctionOnSet(z, S) = 0
  BY SumZero
<1>3. SumFunctionOnSet(f, S) = SumFunctionOnSet(g, S) + SumFunctionOnSet(z, S)
  <2> HIDE DEF z
  <2> QED
    BY <1>1, SumPlus
<1>4. SumFunctionOnSet(g, S) \in Int
  BY <1>1, SumInt
<1> QED
  BY <1>2, <1>3, <1>4

\* One term that is not zero.
LEMMA SumAtOne ==
    ASSUME NEW S, IsFiniteSet(S), NEW f, NEW x \in S, f[x] \in Int,
           \A y \in S \ {x} : f[y] = 0
    PROVE  SumFunctionOnSet(f, S) = f[x]
<1>1. \A y \in S : f[y] \in Int
  OBVIOUS
<1>2. IsFiniteSet(S \ {x})
  BY FS_RemoveElement
<1>3. SumFunctionOnSet(f, S \ {x}) = 0
  BY <1>2, SumZero
<1>4. SumFunctionOnSet(f, S) = f[x] + SumFunctionOnSet(f, S \ {x})
  BY <1>1, SumRemove
<1> QED
  BY <1>3, <1>4

\* The sum of the sums over disjoint parts is the sum over the whole.
LEMMA SumOfParts ==
    ASSUME NEW S, IsFiniteSet(S), NEW f, \A x \in S : f[x] \in Int,
           NEW K, IsFiniteSet(K), NEW Of \in [K -> SUBSET S],
           \A x \in S : \E k \in K : x \in Of[k],
           \A k, l \in K : \A x \in S : x \in Of[k] /\ x \in Of[l] => k = l,
           NEW part, \A k \in K : part[k] = SumFunctionOnSet(f, Of[k])
    PROVE  SumFunctionOnSet(part, K) = SumFunctionOnSet(f, S)
<1> DEFINE F(s) == SumFunctionOnSet(f, s)
           P(s) == [k \in K |-> F(Of[k] \cap s)]
           Good == {s \in SUBSET S : SumFunctionOnSet(P(s), K) = F(s)}
<1>1. ASSUME NEW s \in SUBSET S
      PROVE  F(s) \in Int /\ \A x \in s : F(s) = f[x] + F(s \ {x})
  <2>1. IsFiniteSet(s) /\ \A x \in s : f[x] \in Int
    BY FS_Subset
  <2> QED
    BY <2>1, SumRemove, SumInt
<1>2. F({}) = 0
  BY SumEmpty
<1> HIDE DEF F
<1>3. ASSUME NEW s \in SUBSET S, \A x \in s : s \ {x} \in Good
      PROVE  s \in Good
  <2>1. CASE s = {}
    <3>1. \A k \in K : P({})[k] = 0
      <4>1. \A k \in K : Of[k] \cap {} = {}
        OBVIOUS
      <4> QED
        BY <1>2, <4>1
    <3>2. SumFunctionOnSet(P({}), K) = 0
      <4> HIDE DEF P
      <4> QED
        BY <3>1, SumZero
    <3> QED
      BY <1>2, <2>1, <3>2
  <2>2. ASSUME NEW x \in s PROVE SumFunctionOnSet(P(s), K) = F(s)
    <3>0. PICK own \in K : x \in Of[own]
      OBVIOUS
    <3> DEFINE rest == s \ {x}
               only == [k \in K |-> IF k = own THEN f[x] ELSE 0]
    <3>1. SumFunctionOnSet(P(rest), K) = F(rest)
      BY <1>3
    <3>2. ASSUME NEW k \in K
          PROVE  /\ P(rest)[k] \in Int /\ only[k] \in Int
                 /\ P(s)[k] = P(rest)[k] + only[k]
      <4>0. Of[k] \cap rest \in SUBSET S /\ Of[k] \cap s \in SUBSET S
        OBVIOUS
      <4>1. P(rest)[k] = F(Of[k] \cap rest) /\ P(s)[k] = F(Of[k] \cap s)
        OBVIOUS
      <4>2. F(Of[k] \cap rest) \in Int
        BY <1>1, <4>0
      <4>3. CASE k = own
        <5>1. x \in Of[k] \cap s /\ (Of[k] \cap s) \ {x} = Of[k] \cap rest
          BY <3>0, <4>3
        <5>2. F(Of[k] \cap s) = f[x] + F(Of[k] \cap rest)
          <6> HIDE DEF rest
          <6> QED
            BY <1>1, <4>0, <5>1
        <5>3. f[x] \in Int /\ only[k] = f[x]
          BY <4>3
        <5> HIDE DEF rest, only, P
        <5> QED
          BY <4>1, <4>2, <5>2, <5>3
      <4>4. CASE k # own
        <5>1. Of[k] \cap s = Of[k] \cap rest /\ only[k] = 0
          BY <3>0, <4>4
        <5>2. F(Of[k] \cap s) = F(Of[k] \cap rest)
          BY <5>1
        <5> HIDE DEF rest, only, P
        <5> QED
          BY <4>1, <4>2, <5>1, <5>2
      <4> HIDE DEF P, only, rest
      <4> QED
        BY <4>3, <4>4
    <3>3. SumFunctionOnSet(only, K) = f[x]
      <4>1. /\ only[own] = f[x] /\ f[x] \in Int
            /\ \A k \in K \ {own} : only[k] = 0
        OBVIOUS
      <4> HIDE DEF only
      <4> QED
        BY <4>1, SumAtOne
    <3>4. F(s) = f[x] + F(rest) /\ F(rest) \in Int /\ f[x] \in Int
      BY <1>1
    <3> HIDE DEF P, only, rest
    <3>5. SumFunctionOnSet(P(s), K)
             = SumFunctionOnSet(P(rest), K) + SumFunctionOnSet(only, K)
      BY <3>2, SumPlus
    <3> QED
      BY <3>1, <3>3, <3>4, <3>5
  <2> HIDE DEF P
  <2> QED
    BY <2>1, <2>2
<1>4. \A s \in SUBSET S : s \in Good
  <2> HIDE DEF Good
  <2> QED
    BY <1>3, SubsetInduction, Zenon
<1>5. SumFunctionOnSet(P(S), K) = F(S)
  <2> HIDE DEF P
  <2> QED
    BY <1>4
<1>6. ASSUME NEW k \in K PROVE P(S)[k] \in Int /\ P(S)[k] = part[k]
  <2>1. Of[k] \cap S = Of[k] /\ Of[k] \in SUBSET S
    OBVIOUS
  <2>2. P(S)[k] = F(Of[k]) /\ F(Of[k]) \in Int
    BY <1>1, <2>1
  <2>3. part[k] = F(Of[k])
    BY DEF F
  <2> QED
    BY <2>2, <2>3
<1>7. SumFunctionOnSet(P(S), K) = SumFunctionOnSet(part, K)
  <2> HIDE DEF P
  <2> QED
    BY <1>6, SumSame
<1> QED
  BY <1>5, <1>7 DEF F

\* Disjoint sets.
LEMMA SumUnion ==
    ASSUME NEW S, IsFiniteSet(S), NEW R, IsFiniteSet(R), S \cap R = {},
           NEW f, \A x \in S \cup R : f[x] \in Int
    PROVE  SumFunctionOnSet(f, S \cup R)
              = SumFunctionOnSet(f, S) + SumFunctionOnSet(f, R)
<1>1. PICK U : U = S \cup R
  OBVIOUS
<1>2. PICK K : K = {1, 2}
  OBVIOUS
<1>3. PICK Of \in [K -> SUBSET U] : Of[1] = S /\ Of[2] = R
  <2> DEFINE parts == [k \in K |-> IF k = 1 THEN S ELSE R]
  <2>1. parts \in [K -> SUBSET U] /\ parts[1] = S /\ parts[2] = R
    BY <1>1, <1>2
  <2> HIDE DEF parts
  <2> QED
    BY <2>1
<1>4. PICK part : part = [k \in K |-> SumFunctionOnSet(f, Of[k])]
  OBVIOUS
<1>5. IsFiniteSet(U) /\ IsFiniteSet(K)
  <2>1. IsFiniteSet(U)
    BY <1>1, FS_Union
  <2>2. IsFiniteSet({1} \cup {2}) /\ K = {1} \cup {2}
    BY <1>2, FS_Singleton, FS_Union
  <2> QED
    BY <2>1, <2>2, Zenon
<1>6. SumFunctionOnSet(part, K) = SumFunctionOnSet(f, U)
  <2>1. \A x \in U : f[x] \in Int
    BY <1>1
  <2>2. /\ \A x \in U : \E k \in K : x \in Of[k]
        /\ \A k, l \in K : \A x \in U : x \in Of[k] /\ x \in Of[l] => k = l
    BY <1>1, <1>2, <1>3
  <2>3. \A k \in K : part[k] = SumFunctionOnSet(f, Of[k])
    BY <1>4
  <2> QED
    BY <1>5, <2>1, <2>2, <2>3, SumOfParts
<1>7. /\ part[1] = SumFunctionOnSet(f, S) /\ part[2] = SumFunctionOnSet(f, R)
      /\ part[1] \in Int /\ part[2] \in Int
  <2>1. part[1] = SumFunctionOnSet(f, S) /\ part[2] = SumFunctionOnSet(f, R)
    BY <1>2, <1>3, <1>4
  <2>2. SumFunctionOnSet(f, S) \in Int /\ SumFunctionOnSet(f, R) \in Int
    BY SumInt
  <2> QED
    BY <2>1, <2>2
<1>8. SumFunctionOnSet(part, K) = part[2] + part[1]
  <2>1. K \ {2} = {1} /\ 2 \in K /\ \A k \in K : part[k] \in Int
    BY <1>2, <1>7
  <2>2. SumFunctionOnSet(part, K) = part[2] + SumFunctionOnSet(part, K \ {2})
    BY <1>5, <2>1, SumRemove
  <2>3. SumFunctionOnSet(part, {1}) = part[1]
    BY <1>7, SumOne
  <2> QED
    BY <2>1, <2>2, <2>3
<1> DEFINE whole == SumFunctionOnSet(f, U)
<1>9. whole = SumFunctionOnSet(f, S) + SumFunctionOnSet(f, R)
  BY <1>6, <1>7, <1>8
<1> QED
  BY <1>1, <1>9

\* A one-to-one renaming of the terms.
LEMMA SumRenamed ==
    ASSUME NEW S, IsFiniteSet(S), NEW R, IsFiniteSet(R),
           NEW m \in [S -> R], \A r \in R : \E x \in S : m[x] = r,
           \A x, y \in S : m[x] = m[y] => x = y,
           NEW f, NEW g, \A x \in S : f[x] \in Int /\ g[m[x]] = f[x]
    PROVE  SumFunctionOnSet(g, R) = SumFunctionOnSet(f, S)
<1>1. ASSUME NEW r \in R
      PROVE  g[r] = SumFunctionOnSet(f, {x \in S : m[x] = r})
  <2>1. PICK x \in S : m[x] = r
    OBVIOUS
  <2>2. {y \in S : m[y] = r} = {x}
    BY <2>1
  <2>3. SumFunctionOnSet(f, {x}) = f[x]
    BY SumOne
  <2> QED
    BY <2>1, <2>2, <2>3
<1>2. PICK Of \in [R -> SUBSET S] : \A r \in R : Of[r] = {x \in S : m[x] = r}
  <2> DEFINE parts == [r \in R |-> {x \in S : m[x] = r}]
  <2>1. parts \in [R -> SUBSET S] /\ \A r \in R : parts[r] = {x \in S : m[x] = r}
    OBVIOUS
  <2> HIDE DEF parts
  <2> QED
    BY <2>1
<1>3. \A x \in S : f[x] \in Int
  OBVIOUS
<1>4. \A x \in S : \E r \in R : x \in Of[r]
  BY <1>2
<1>5. \A q, r \in R : \A x \in S : x \in Of[q] /\ x \in Of[r] => q = r
  BY <1>2
<1>6. ASSUME NEW r \in R PROVE g[r] = SumFunctionOnSet(f, Of[r])
  <2>1. Of[r] = {x \in S : m[x] = r}
    BY <1>2
  <2> QED
    BY <1>1, <2>1
<1> QED
  BY <1>3, <1>4, <1>5, <1>6, SumOfParts, SMTT(60)

\* A set has as many members as there are ones in the sum.
LEMMA SumOfOnes ==
    ASSUME NEW S, IsFiniteSet(S), NEW f, \A x \in S : f[x] = 1
    PROVE  SumFunctionOnSet(f, S) = Cardinality(S)
<1> DEFINE F(s) == SumFunctionOnSet(f, s)
           Good == {s \in SUBSET S : F(s) = Cardinality(s)}
<1>1. ASSUME NEW s \in SUBSET S
      PROVE  /\ s = {} => F(s) = 0 /\ Cardinality(s) = 0
             /\ Cardinality(s) \in Nat
             /\ \A x \in s : /\ F(s) = 1 + F(s \ {x})
                             /\ Cardinality(s \ {x}) = Cardinality(s) - 1
  <2>1. IsFiniteSet(s) /\ \A x \in s : f[x] \in Int /\ f[x] = 1
    BY FS_Subset
  <2>2. \A x \in s : F(s) = f[x] + F(s \ {x})
    BY <2>1, SumRemove
  <2> QED
    BY <2>1, <2>2, SumEmpty, FS_EmptySet, FS_RemoveElement, FS_CardinalityType
<1> HIDE DEF F
<1>2. ASSUME NEW s \in SUBSET S, \A x \in s : s \ {x} \in Good
      PROVE  s \in Good
  <2>1. CASE s = {}
    BY <1>1, <2>1
  <2>2. ASSUME NEW x \in s PROVE F(s) = Cardinality(s)
    <3>1. F(s \ {x}) = Cardinality(s \ {x})
      BY <1>2
    <3>2. F(s) = 1 + F(s \ {x}) /\ Cardinality(s \ {x}) = Cardinality(s) - 1
      BY <1>1
    <3>3. Cardinality(s) \in Nat
      BY <1>1
    <3> QED
      BY <3>1, <3>2, <3>3
  <2> QED
    BY <2>1, <2>2
<1>3. \A s \in SUBSET S : s \in Good
  <2> HIDE DEF Good
  <2> QED
    BY <1>2, SubsetInduction, Zenon
<1>4. S \in Good
  BY <1>3
<1> QED
  BY <1>4 DEF F

\* The sum over a part, written as a sum of its own.
LEMMA SumRestricted ==
    ASSUME NEW S, IsFiniteSet(S), NEW f, \A x \in S : f[x] \in Int,
           NEW R \in SUBSET S, NEW g, DOMAIN g = R, \A x \in R : g[x] = f[x]
    PROVE  SumFunction(g) = SumFunctionOnSet(f, R) /\ SumFunction(g) \in Int
<1>1. IsFiniteSet(R) /\ \A x \in R : g[x] \in Int /\ g[x] = f[x]
  BY FS_Subset
<1>2. SumFunctionOnSet(g, R) = SumFunctionOnSet(f, R) /\ SumFunctionOnSet(g, R) \in Int
  BY <1>1, SumSame, SumInt
<1>3. SumFunction(g) = SumFunctionOnSet(g, R)
  BY DEF SumFunction
<1> QED
  BY <1>2, <1>3

\* A table with one row for each key: what its rows say of their own parts adds
\* up to what the whole says.
LEMMA SumGrouped ==
    ASSUME NEW S, IsFiniteSet(S), NEW f, \A x \in S : f[x] \in Int,
           NEW K, IsFiniteSet(K), NEW key, \A x \in S : key[x] \in K,
           NEW R, NEW row \in [K -> R], \A r \in R : \E k \in K : row[k] = r,
           \A k, l \in K : row[k] = row[l] => k = l,
           NEW g, \A k \in K : g[row[k]] = SumFunctionOnSet(f, {x \in S : key[x] = k})
    PROVE  SumFunctionOnSet(g, R) = SumFunctionOnSet(f, S)
<1>1. PICK Of \in [K -> SUBSET S] : \A k \in K : Of[k] = {x \in S : key[x] = k}
  <2> DEFINE parts == [k \in K |-> {x \in S : key[x] = k}]
  <2>1. parts \in [K -> SUBSET S] /\ \A k \in K : parts[k] = {x \in S : key[x] = k}
    OBVIOUS
  <2> HIDE DEF parts
  <2> QED
    BY <2>1
<1>2. PICK part : part = [k \in K |-> SumFunctionOnSet(f, Of[k])]
  OBVIOUS
<1>3. \A k \in K : part[k] = SumFunctionOnSet(f, Of[k])
  BY <1>2
<1>4. \A x \in S : \E k \in K : x \in Of[k]
  BY <1>1
<1>5. \A k, l \in K : \A x \in S : x \in Of[k] /\ x \in Of[l] => k = l
  BY <1>1
<1>6. SumFunctionOnSet(part, K) = SumFunctionOnSet(f, S)
  BY <1>3, <1>4, <1>5, SumOfParts, SMTT(60)
<1>7. ASSUME NEW k \in K PROVE part[k] \in Int /\ g[row[k]] = part[k]
  <2>1. Of[k] \in SUBSET S /\ Of[k] = {x \in S : key[x] = k}
    BY <1>1
  <2>2. IsFiniteSet(Of[k]) /\ \A x \in Of[k] : f[x] \in Int
    BY <2>1, FS_Subset
  <2>3. SumFunctionOnSet(f, Of[k]) \in Int
    BY <2>2, SumInt
  <2>4. g[row[k]] = SumFunctionOnSet(f, Of[k])
    BY <2>1
  <2> QED
    BY <1>3, <2>3, <2>4
<1>8. IsFiniteSet(R)
  BY ImageFinite
<1>9. SumFunctionOnSet(g, R) = SumFunctionOnSet(part, K)
  BY <1>7, <1>8, SumRenamed, SMTT(60)
<1> QED
  BY <1>6, <1>9
=============================================================================
