-------------------------------- MODULE Sums --------------------------------
(***************************************************************************)
(* Theorems about SumFunctionOnSet, the sum the specifications use for     *)
(* balances, collateral and shares.  The induction principles of the       *)
(* library are schemes over an operator; here induction is stated over     *)
(* sets (of numbers, of subsets), and the recursion inside the fold is     *)
(* shown to have a solution by that induction.  At the end, what setting   *)
(* and deleting keys of a Store does to types, domains and sums.           *)
(***************************************************************************)
EXTENDS Store, FiniteSetTheorems, WellFoundedInduction, TLAPS

NatLess == {ss \in Nat \X Nat : ss[1] < ss[2]}

\* The order of the natural numbers is well-founded.
LEMMA NatLessWellFounded == IsWellFoundedOn(NatLess, Nat)
  BY NatLessThanWellFounded, Zenon DEF NatLess, OpToRel

\* Every nonempty set of natural numbers has a least element.
LEMMA LeastNat ==
  ASSUME NEW T, T \subseteq Nat, T # {}
  PROVE  \E x \in T : \A y \in T : x <= y
  <1>1. PICK x \in T : \A y \in T : ~ (<<y, x>> \in NatLess)
    BY WFMin, NatLessWellFounded, Zenon
  <1>2. ASSUME NEW y \in T PROVE x <= y
    <2>1. ~ (<<y, x>> \in NatLess)
      BY <1>1
    <2>2. ~ (y < x)
      BY <2>1 DEF NatLess
    <2>3. QED
      BY <2>2
  <1>3. QED
    BY <1>2

\* A set of natural numbers that contains 0 and is closed under successor
\* contains every natural number.
LEMMA NatSetInduction ==
  ASSUME NEW T, 0 \in T, \A n \in Nat : n \in T => n + 1 \in T
  PROVE  Nat \subseteq T
  <1> SUFFICES ASSUME Nat \ T # {} PROVE FALSE
    OBVIOUS
  <1>1. PICK x \in Nat \ T : \A y \in Nat \ T : x <= y
    BY LeastNat
  <1>2. x - 1 \in Nat
    OBVIOUS
  <1>3. x - 1 \in T
    BY <1>1, <1>2
  <1>4. QED
    BY <1>2, <1>3

\* Induction over the subsets of a finite set S: a set T of sets that
\* contains a subset of S whenever it contains all its proper subsets
\* contains every subset of S.
LEMMA SubsetInduction ==
  ASSUME NEW S, IsFiniteSet(S), NEW T,
         \A s \in SUBSET S : (\A t \in SUBSET s : t # s => t \in T) => s \in T
  PROVE  SUBSET S \subseteq T
  <1> SUFFICES ASSUME NEW bad \in SUBSET S, bad \notin T PROVE FALSE
    OBVIOUS
  <1> DEFINE Bad == {s \in SUBSET S : s \notin T}
             Sizes == {Cardinality(s) : s \in Bad}
  <1>1. \A s \in SUBSET S : IsFiniteSet(s) /\ Cardinality(s) \in Nat
    BY FS_Subset, FS_CardinalityType
  <1>2. Sizes \subseteq Nat /\ Sizes # {}
    BY <1>1
  <1>3. PICK n \in Sizes : \A m \in Sizes : n <= m
    <2> HIDE DEF Sizes
    <2> QED BY <1>2, LeastNat
  <1>4. PICK s \in Bad : Cardinality(s) = n
    BY <1>3
  <1>5. ASSUME NEW t \in SUBSET s, t # s PROVE t \in T
    <2>1. Cardinality(t) < Cardinality(s)
      <3>1. s \in SUBSET S /\ t \in SUBSET S
        OBVIOUS
      <3>2. Cardinality(t) <= Cardinality(s) /\ (Cardinality(s) = Cardinality(t) => s = t)
        BY <1>1, <3>1, FS_Subset
      <3>3. QED
        BY <1>1, <1>5, <3>1, <3>2
    <2>2. t \in Bad => n <= Cardinality(t)
      BY <1>3
    <2>3. QED
      BY <1>1, <1>4, <2>1, <2>2
  <1>6. QED
    BY <1>4, <1>5

-----------------------------------------------------------------------------
(* The function the fold is defined by, and its recursion.                 *)

Pick(s) == CHOOSE x \in s : TRUE

IsPartial(f, D, g) ==
  g = [s \in D |-> IF s = {} THEN 0 ELSE f[Pick(s)] + g[s \ {Pick(s)}]]

Partial(f, S) == CHOOSE g : IsPartial(f, SUBSET S, g)

\* The sum is the value at S of the function of partial sums.
LEMMA SumIsPartial ==
  ASSUME NEW f, NEW S
  PROVE  SumFunctionOnSet(f, S) = Partial(f, S)[S]
  BY DEF SumFunctionOnSet, FoldFunctionOnSet, MapThenFoldSet, Partial, IsPartial, Pick

\* Partial sums exist for every finite set: on the subsets of at most n
\* elements, by induction on n.
LEMMA PartialExists ==
  ASSUME NEW f, NEW S, IsFiniteSet(S)
  PROVE  \E g : IsPartial(f, SUBSET S, g)
  <1> DEFINE D(n) == {s \in SUBSET S : Cardinality(s) <= n}
             T == {n \in Nat : \E g : IsPartial(f, D(n), g)}
  <1>1. \A s \in SUBSET S : IsFiniteSet(s) /\ Cardinality(s) \in Nat
    BY FS_Subset, FS_CardinalityType
  <1>2. 0 \in T
    <2>1. D(0) = {{}}
      BY <1>1, FS_EmptySet
    <2>2. IsPartial(f, D(0), [u \in D(0) |-> 0])
      BY <2>1 DEF IsPartial
    <2>3. QED
      BY <2>2
  <1>3. ASSUME NEW n \in Nat, n \in T PROVE n + 1 \in T
    <2>1. PICK g : IsPartial(f, D(n), g)
      BY <1>3
    <2> DEFINE h == [s \in D(n + 1) |->
                       IF s = {} THEN 0 ELSE f[Pick(s)] + g[s \ {Pick(s)}]]
    <2>2. \A s \in D(n) : h[s] = g[s]
      <3>1. D(n) \subseteq D(n + 1)
        BY <1>1
      <3>2. QED
        BY <2>1, <3>1 DEF IsPartial
    <2>3. ASSUME NEW s \in D(n + 1), s # {} PROVE s \ {Pick(s)} \in D(n)
      <3>1. Pick(s) \in s
        BY <2>3 DEF Pick
      <3>2. Cardinality(s \ {Pick(s)}) = Cardinality(s) - 1
        BY <1>1, <3>1, FS_RemoveElement
      <3>3. QED
        BY <1>1, <3>2
    <2>4. IsPartial(f, D(n + 1), h)
      BY <2>2, <2>3 DEF IsPartial
    <2>5. \E k : IsPartial(f, D(n + 1), k)
      <3> HIDE DEF h, D
      <3> QED BY <2>4
    <2>6. n + 1 \in Nat
      OBVIOUS
    <2>7. QED
      BY <2>5, <2>6, Zenon
  <1>4. Cardinality(S) \in T
    <2> HIDE DEF T
    <2>1. Nat \subseteq T
      BY <1>2, <1>3, NatSetInduction
    <2>2. QED
      BY <1>1, <2>1
  <1>5. D(Cardinality(S)) = SUBSET S
    BY FS_Subset
  <1>6. QED
    BY <1>4, <1>5

\* The recursion the partial sums of a finite set satisfy.
LEMMA PartialRecursion ==
  ASSUME NEW f, NEW S, IsFiniteSet(S), NEW s \in SUBSET S
  PROVE  Partial(f, S)[s] =
           IF s = {} THEN 0 ELSE f[Pick(s)] + Partial(f, S)[s \ {Pick(s)}]
  <1>1. IsPartial(f, SUBSET S, Partial(f, S))
    BY PartialExists DEF Partial
  <1>2. QED
    BY <1>1 DEF IsPartial

\* Partial sums do not depend on the set they are taken in, nor on the values
\* of the function outside of it.
LEMMA PartialUnique ==
  ASSUME NEW f, NEW g, NEW S, IsFiniteSet(S), NEW R, IsFiniteSet(R), S \subseteq R,
         \A x \in S : f[x] = g[x]
  PROVE  Partial(f, S)[S] = Partial(g, R)[S]
  <1> DEFINE T == {s \in SUBSET S : Partial(f, S)[s] = Partial(g, R)[s]}
  <1>1. ASSUME NEW s \in SUBSET S, \A t \in SUBSET s : t # s => t \in T
        PROVE  s \in T
    <2>1. CASE s = {}
      BY <2>1, PartialRecursion
    <2>2. CASE s # {}
      <3>1. Pick(s) \in s
        BY <2>2 DEF Pick
      <3>2. s \ {Pick(s)} \in T
        BY <1>1, <3>1
      <3>3. Partial(f, S)[s] = f[Pick(s)] + Partial(f, S)[s \ {Pick(s)}]
        BY <2>2, PartialRecursion
      <3>4. Partial(g, R)[s] = g[Pick(s)] + Partial(g, R)[s \ {Pick(s)}]
        BY <2>2, PartialRecursion
      <3>5. QED
        BY <3>1, <3>2, <3>3, <3>4
    <2>3. QED
      BY <2>1, <2>2
  <1>2. SUBSET S \subseteq T
    <2> HIDE DEF T
    <2> QED BY <1>1, SubsetInduction
  <1>3. QED
    BY <1>2

-----------------------------------------------------------------------------
(* What the specifications' proofs use.                                    *)

\* Only the values on S matter.
THEOREM SumEqual ==
  ASSUME NEW S, IsFiniteSet(S), NEW f, NEW g, \A x \in S : f[x] = g[x]
  PROVE  SumFunctionOnSet(f, S) = SumFunctionOnSet(g, S)
  BY PartialUnique, SumIsPartial

\* The sum over the empty set.
THEOREM SumEmpty ==
  ASSUME NEW f
  PROVE  SumFunctionOnSet(f, {}) = 0
  BY PartialRecursion, SumIsPartial, FS_EmptySet

\* The sum over a nonempty set, with the element the fold picks.
LEMMA SumPick ==
  ASSUME NEW S, IsFiniteSet(S), S # {}, NEW f
  PROVE  /\ Pick(S) \in S
         /\ SumFunctionOnSet(f, S) = f[Pick(S)] + SumFunctionOnSet(f, S \ {Pick(S)})
  <1>1. Pick(S) \in S
    BY DEF Pick
  <1>2. IsFiniteSet(S \ {Pick(S)})
    BY FS_RemoveElement
  <1>3. Partial(f, S \ {Pick(S)})[S \ {Pick(S)}] = Partial(f, S)[S \ {Pick(S)}]
    BY <1>2, PartialUnique
  <1>4. QED
    BY <1>1, <1>3, PartialRecursion, SumIsPartial

\* A sum of natural numbers is a natural number.
THEOREM SumNat ==
  ASSUME NEW S, IsFiniteSet(S), NEW f, \A x \in S : f[x] \in Nat
  PROVE  SumFunctionOnSet(f, S) \in Nat
  <1> DEFINE T == {s \in SUBSET S : SumFunctionOnSet(f, s) \in Nat}
  <1>1. ASSUME NEW s \in SUBSET S, \A t \in SUBSET s : t # s => t \in T
        PROVE  s \in T
    <2>1. CASE s = {}
      BY <2>1, SumEmpty
    <2>2. CASE s # {}
      <3>1. IsFiniteSet(s)
        BY FS_Subset
      <3>2. Pick(s) \in s
        BY <2>2, <3>1, SumPick
      <3>3. s \ {Pick(s)} \in T
        BY <1>1, <3>2
      <3>4. SumFunctionOnSet(f, s) = f[Pick(s)] + SumFunctionOnSet(f, s \ {Pick(s)})
        BY <2>2, <3>1, SumPick
      <3>5. QED
        BY <3>2, <3>3, <3>4
    <2>3. QED
      BY <2>1, <2>2
  <1>2. SUBSET S \subseteq T
    <2> HIDE DEF T
    <2> QED BY <1>1, SubsetInduction
  <1>3. QED
    BY <1>2

\* Any element can be taken out of a sum, whatever the order of the fold.
THEOREM SumRemove ==
  ASSUME NEW S, IsFiniteSet(S), NEW f, \A x \in S : f[x] \in Nat, NEW y \in S
  PROVE  SumFunctionOnSet(f, S) = f[y] + SumFunctionOnSet(f, S \ {y})
  <1> DEFINE Sum(s) == SumFunctionOnSet(f, s)
             T == {s \in SUBSET S : \A x \in s : Sum(s) = f[x] + Sum(s \ {x})}
  <1>0. \A s \in SUBSET S : IsFiniteSet(s) /\ Sum(s) \in Nat
    BY FS_Subset, SumNat
  <1>1. ASSUME NEW s \in SUBSET S, \A t \in SUBSET s : t # s => t \in T
        PROVE  s \in T
    <2> SUFFICES ASSUME NEW x \in s PROVE Sum(s) = f[x] + Sum(s \ {x})
      OBVIOUS
    <2> DEFINE p == Pick(s)
    <2>1. p \in s /\ Sum(s) = f[p] + Sum(s \ {p})
      BY <1>0, SumPick
    <2>2. CASE x = p
      BY <2>1, <2>2
    <2>3. CASE x # p
      <3>1. s \ {p} \in T /\ s \ {x} \in T
        BY <1>1, <2>1
      <3>2. Sum(s \ {p}) = f[x] + Sum((s \ {p}) \ {x})
        BY <2>3, <3>1
      <3>3. Sum(s \ {x}) = f[p] + Sum((s \ {x}) \ {p})
        BY <2>1, <2>3, <3>1
      <3>4. (s \ {p}) \ {x} = (s \ {x}) \ {p}
        OBVIOUS
      <3>5. /\ f[x] \in Nat /\ f[p] \in Nat
            /\ Sum((s \ {p}) \ {x}) \in Nat
        BY <1>0, <2>1
      <3>6. \A a, b, c \in Nat : a + (b + c) = b + (a + c)
        OBVIOUS
      <3>7. f[p] + (f[x] + Sum((s \ {p}) \ {x})) = f[x] + (f[p] + Sum((s \ {p}) \ {x}))
        BY <3>5, <3>6, Zenon
      <3>8. QED
        BY <2>1, <3>2, <3>3, <3>4, <3>7, Zenon
    <2>4. QED
      BY <2>2, <2>3
  <1>2. SUBSET S \subseteq T
    <2> HIDE DEF T
    <2> QED BY <1>1, SubsetInduction
  <1>3. QED
    BY <1>2

\* An element is added to the set.
THEOREM SumAdd ==
  ASSUME NEW S, IsFiniteSet(S), NEW y, y \notin S, NEW f,
         \A x \in S \cup {y} : f[x] \in Nat
  PROVE  SumFunctionOnSet(f, S \cup {y}) = f[y] + SumFunctionOnSet(f, S)
  <1>1. IsFiniteSet(S \cup {y})
    BY FS_AddElement
  <1>2. (S \cup {y}) \ {y} = S
    OBVIOUS
  <1>3. QED
    BY <1>1, <1>2, SumRemove

\* The function changes at one element of the set.
THEOREM SumUpdate ==
  ASSUME NEW S, IsFiniteSet(S), NEW f, NEW g, NEW y \in S,
         \A x \in S : f[x] \in Nat /\ g[x] \in Nat,
         \A x \in S \ {y} : g[x] = f[x]
  PROVE  SumFunctionOnSet(g, S) + f[y] = SumFunctionOnSet(f, S) + g[y]
  <1> DEFINE R == S \ {y}
  <1>1. IsFiniteSet(R)
    BY FS_RemoveElement
  <1>2. SumFunctionOnSet(f, S) = f[y] + SumFunctionOnSet(f, R)
    BY SumRemove
  <1>3. SumFunctionOnSet(g, S) = g[y] + SumFunctionOnSet(g, R)
    BY SumRemove
  <1>4. SumFunctionOnSet(g, R) = SumFunctionOnSet(f, R)
    BY <1>1, SumEqual
  <1>5. SumFunctionOnSet(f, R) \in Nat
    BY <1>1, SumNat
  <1>6. QED
    BY <1>2, <1>3, <1>4, <1>5

\* The sum over two sets that have no element in common.
THEOREM SumDisjoint ==
  ASSUME NEW S, IsFiniteSet(S), NEW R, IsFiniteSet(R), S \cap R = {}, NEW f,
         \A x \in S \cup R : f[x] \in Nat
  PROVE  SumFunctionOnSet(f, S \cup R) = SumFunctionOnSet(f, S) + SumFunctionOnSet(f, R)
  <1> DEFINE Sum(s) == SumFunctionOnSet(f, s)
             T == {s \in SUBSET R : Sum(S \cup s) = Sum(S) + Sum(s)}
  <1>0. \A s \in SUBSET R : IsFiniteSet(s) /\ Sum(s) \in Nat /\ IsFiniteSet(S \cup s)
    BY FS_Subset, FS_Union, SumNat
  <1>00. Sum(S) \in Nat
    BY SumNat
  <1>1. ASSUME NEW s \in SUBSET R, \A t \in SUBSET s : t # s => t \in T
        PROVE  s \in T
    <2>1. CASE s = {}
      <3>1. S \cup s = S /\ Sum(s) = 0
        BY <2>1, SumEmpty
      <3>2. \A n \in Nat : n = n + 0
        OBVIOUS
      <3>3. Sum(S \cup s) = Sum(S) + Sum(s)
        BY <1>00, <3>1, <3>2, Zenon
      <3>4. QED
        BY <3>3
    <2>2. CASE s # {}
      <3>1. PICK x \in s : TRUE
        BY <2>2
      <3> DEFINE t == s \ {x}
      <3>2. t \in T /\ t \in SUBSET R
        BY <1>1, <3>1
      <3>3. Sum(s) = f[x] + Sum(t)
        BY <1>0, SumRemove
      <3>4. Sum(S \cup s) = f[x] + Sum((S \cup s) \ {x})
        BY <1>0, SumRemove
      <3>5. (S \cup s) \ {x} = S \cup t
        OBVIOUS
      <3>6. f[x] \in Nat /\ Sum(t) \in Nat
        BY <1>0, <3>2
      <3>7. Sum(S \cup t) = Sum(S) + Sum(t)
        BY <3>2
      <3> HIDE DEF t, Sum
      <3>8. Sum(S \cup s) = Sum(S) + Sum(s)
        BY <1>00, <3>3, <3>4, <3>5, <3>6, <3>7
      <3>9. QED
        BY <3>8
    <2>3. QED
      BY <2>1, <2>2
  <1>2. SUBSET R \subseteq T
    <2> HIDE DEF T
    <2> QED BY <1>1, SubsetInduction
  <1>3. QED
    BY <1>2

\* A part of the set is taken out of the sum.
THEOREM SumDifference ==
  ASSUME NEW S, IsFiniteSet(S), NEW R \in SUBSET S, NEW f, \A x \in S : f[x] \in Nat
  PROVE  /\ SumFunctionOnSet(f, S) = SumFunctionOnSet(f, S \ R) + SumFunctionOnSet(f, R)
         /\ SumFunctionOnSet(f, S \ R) \in Nat /\ SumFunctionOnSet(f, R) \in Nat
  <1>1. IsFiniteSet(R) /\ IsFiniteSet(S \ R)
    BY FS_Subset, FS_Difference
  <1>2. (S \ R) \cap R = {} /\ (S \ R) \cup R = S
    OBVIOUS
  <1>3. SumFunctionOnSet(f, S \ R) \in Nat /\ SumFunctionOnSet(f, R) \in Nat
    BY <1>1, SumNat
  <1>4. QED
    BY <1>1, <1>2, <1>3, SumDisjoint

\* A sum of sums, element by element.
THEOREM SumPlus ==
  ASSUME NEW S, IsFiniteSet(S), NEW f, NEW g, NEW h,
         \A x \in S : f[x] \in Nat /\ g[x] \in Nat /\ h[x] = f[x] + g[x]
  PROVE  SumFunctionOnSet(h, S) = SumFunctionOnSet(f, S) + SumFunctionOnSet(g, S)
  <1> DEFINE Sum(k, s) == SumFunctionOnSet(k, s)
             T == {s \in SUBSET S : Sum(h, s) = Sum(f, s) + Sum(g, s)}
  <1>0. \A s \in SUBSET S : IsFiniteSet(s) /\ Sum(f, s) \in Nat /\ Sum(g, s) \in Nat
                              /\ Sum(h, s) \in Nat
    <2>1. \A x \in S : h[x] \in Nat
      OBVIOUS
    <2>2. QED
      BY <2>1, FS_Subset, SumNat
  <1>1. ASSUME NEW s \in SUBSET S, \A t \in SUBSET s : t # s => t \in T
        PROVE  s \in T
    <2>1. CASE s = {}
      BY <2>1, SumEmpty
    <2>2. CASE s # {}
      <3>1. PICK x \in s : TRUE
        BY <2>2
      <3> DEFINE t == s \ {x}
      <3>2. t \in T /\ t \in SUBSET S
        BY <1>1, <3>1
      <3>3. /\ Sum(f, s) = f[x] + Sum(f, t) /\ Sum(g, s) = g[x] + Sum(g, t)
            /\ Sum(h, s) = h[x] + Sum(h, t)
        <4>1. \A y \in s : f[y] \in Nat /\ g[y] \in Nat /\ h[y] \in Nat
          OBVIOUS
        <4>2. QED
          BY <1>0, <4>1, SumRemove
      <3>4. Sum(h, t) = Sum(f, t) + Sum(g, t)
        BY <3>2
      <3>5. Sum(f, t) \in Nat /\ Sum(g, t) \in Nat /\ f[x] \in Nat /\ g[x] \in Nat
              /\ h[x] = f[x] + g[x]
        BY <1>0, <3>2
      <3> HIDE DEF Sum, t
      <3>6. Sum(h, s) = Sum(f, s) + Sum(g, s)
        BY <3>3, <3>4, <3>5
      <3>7. QED
        BY <3>6
    <2>3. QED
      BY <2>1, <2>2
  <1>2. SUBSET S \subseteq T
    <2> HIDE DEF T
    <2> QED BY <1>1, SubsetInduction
  <1>3. QED
    BY <1>2

\* A bound on every element is a bound on the sum.
THEOREM SumBounded ==
  ASSUME NEW S, IsFiniteSet(S), NEW f, NEW g, NEW c \in Nat, NEW d \in Nat,
         \A x \in S : f[x] \in Nat /\ g[x] \in Nat /\ f[x] <= c * g[x] + d
  PROVE  SumFunctionOnSet(f, S) <= c * SumFunctionOnSet(g, S) + Cardinality(S) * d
  <1> DEFINE Sum(k, s) == SumFunctionOnSet(k, s)
             T == {s \in SUBSET S : Sum(f, s) <= c * Sum(g, s) + Cardinality(s) * d}
  <1>0. \A s \in SUBSET S : IsFiniteSet(s) /\ Sum(f, s) \in Nat /\ Sum(g, s) \in Nat
                              /\ Cardinality(s) \in Nat
    BY FS_Subset, FS_CardinalityType, SumNat
  <1>1. ASSUME NEW s \in SUBSET S, \A t \in SUBSET s : t # s => t \in T
        PROVE  s \in T
    <2>1. CASE s = {}
      <3>1. Sum(f, s) = 0 /\ Sum(g, s) = 0 /\ Cardinality(s) = 0
        BY <2>1, SumEmpty, FS_EmptySet
      <3>2. QED
        BY <3>1
    <2>2. CASE s # {}
      <3>1. PICK x \in s : TRUE
        BY <2>2
      <3> DEFINE t == s \ {x}
      <3>2. t \in T /\ t \in SUBSET S
        BY <1>1, <3>1
      <3>3. /\ Sum(f, s) = f[x] + Sum(f, t) /\ Sum(g, s) = g[x] + Sum(g, t)
        <4>1. \A y \in s : f[y] \in Nat /\ g[y] \in Nat
          OBVIOUS
        <4>2. QED
          BY <1>0, <4>1, SumRemove
      <3>4. Cardinality(t) = Cardinality(s) - 1
        BY <1>0, FS_RemoveElement
      <3>5. Sum(f, t) <= c * Sum(g, t) + Cardinality(t) * d
        BY <3>2
      <3>6. /\ Sum(f, t) \in Nat /\ Sum(g, t) \in Nat /\ Cardinality(t) \in Nat
            /\ Cardinality(s) \in Nat
            /\ f[x] \in Nat /\ g[x] \in Nat /\ f[x] <= c * g[x] + d
        BY <1>0, <3>2
      <3> HIDE DEF Sum, t
      <3>7. /\ c * (g[x] + Sum(g, t)) = c * g[x] + c * Sum(g, t)
            /\ Cardinality(s) * d = Cardinality(t) * d + d
        BY <3>4, <3>6
      <3>8. /\ c * g[x] \in Nat /\ c * Sum(g, t) \in Nat /\ Cardinality(t) * d \in Nat
        BY <3>6
      <3>9. Sum(f, s) <= c * Sum(g, s) + Cardinality(s) * d
        BY <3>3, <3>5, <3>6, <3>7, <3>8
      <3>10. QED
        BY <3>9
    <2>3. QED
      BY <2>1, <2>2
  <1>2. SUBSET S \subseteq T
    <2> HIDE DEF T
    <2> QED BY <1>1, SubsetInduction
  <1>3. QED
    BY <1>2

\* A table adds up to the same number by rows and by columns.
THEOREM SumInterchange ==
  ASSUME NEW A, IsFiniteSet(A), NEW B, IsFiniteSet(B), NEW F \in [A -> [B -> Nat]]
  PROVE  SumFunctionOnSet([a \in A |-> SumFunctionOnSet(F[a], B)], A)
           = SumFunctionOnSet([b \in B |-> SumFunctionOnSet([a \in A |-> F[a][b]], A)], B)
  <1> DEFINE Sum(k, s) == SumFunctionOnSet(k, s)
             col(b) == [a \in A |-> F[a][b]]
             row == [a \in A |-> Sum(F[a], B)]
             cols(s) == [b \in B |-> Sum(col(b), s)]
             T == {s \in SUBSET A : Sum(row, s) = Sum(cols(s), B)}
  <1>0. \A s \in SUBSET A : IsFiniteSet(s)
    BY FS_Subset
  <1>1. \A a \in A : row[a] \in Nat /\ row[a] = Sum(F[a], B)
    BY SumNat
  <1>2. \A b \in B, a \in A : col(b)[a] \in Nat /\ col(b)[a] = F[a][b]
    OBVIOUS
  <1>3. \A s \in SUBSET A, b \in B : Sum(col(b), s) \in Nat
    <2> SUFFICES ASSUME NEW s \in SUBSET A, NEW b \in B PROVE Sum(col(b), s) \in Nat
      OBVIOUS
    <2>1. \A a \in s : col(b)[a] \in Nat
      BY <1>2
    <2> HIDE DEF col
    <2>2. QED
      BY <1>0, <2>1, SumNat
  <1>4. \A s \in SUBSET A, b \in B : cols(s)[b] = Sum(col(b), s)
    OBVIOUS
  <1> HIDE DEF row, col, cols
  <1>5. ASSUME NEW s \in SUBSET A, \A t \in SUBSET s : t # s => t \in T
        PROVE  s \in T
    <2>1. CASE s = {}
      <3>1. \A b \in B : cols(s)[b] \in Nat /\ cols(s)[b] <= 0 * cols(s)[b] + 0
        <4>1. ASSUME NEW b \in B PROVE cols(s)[b] = 0
          BY <1>4, <2>1, SumEmpty
        <4>2. QED
          BY <4>1
      <3>2. Sum(cols(s), B) <= 0 * Sum(cols(s), B) + Cardinality(B) * 0
        BY <3>1, SumBounded
      <3>3. Sum(cols(s), B) \in Nat /\ Cardinality(B) \in Nat
        BY <3>1, SumNat, FS_CardinalityType
      <3>4. Sum(row, s) = 0
        BY <2>1, SumEmpty
      <3> HIDE DEF Sum
      <3>5. Sum(cols(s), B) = 0
        BY <3>2, <3>3
      <3>6. QED
        BY <3>4, <3>5
    <2>2. CASE s # {}
      <3>1. PICK x \in s : TRUE
        BY <2>2
      <3> DEFINE t == s \ {x}
      <3>2. t \in T /\ t \in SUBSET A
        BY <1>5, <3>1
      <3>3. Sum(row, s) = row[x] + Sum(row, t)
        BY <1>0, <1>1, SumRemove
      <3>4. ASSUME NEW b \in B
            PROVE  cols(s)[b] = F[x][b] + cols(t)[b] /\ cols(t)[b] \in Nat /\ F[x][b] \in Nat
        <4>1. Sum(col(b), s) = col(b)[x] + Sum(col(b), t)
          BY <1>0, <1>2, SumRemove
        <4>2. F[x][b] \in Nat /\ col(b)[x] = F[x][b]
          BY <1>2
        <4>3. cols(t)[b] = Sum(col(b), t) /\ cols(t)[b] \in Nat /\ cols(s)[b] = Sum(col(b), s)
          BY <1>3, <1>4, <3>2
        <4> HIDE DEF Sum, t
        <4>4. QED
          BY <4>1, <4>2, <4>3
      <3>5. Sum(cols(s), B) = Sum(F[x], B) + Sum(cols(t), B)
        <4> HIDE DEF t
        <4> QED BY <3>4, SumPlus
      <3>6. row[x] = Sum(F[x], B) /\ Sum(row, t) = Sum(cols(t), B)
        BY <1>1, <3>2
      <3> HIDE DEF Sum, t
      <3>7. QED
        BY <3>3, <3>5, <3>6
    <2>3. QED
      BY <2>1, <2>2
  <1>6. SUBSET A \subseteq T
    <2> HIDE DEF T
    <2> QED BY <1>5, SubsetInduction
  <1>7. Sum(row, A) = Sum(cols(A), B)
    BY <1>6
  <1>8. QED
    BY <1>7 DEF row, cols, col

\* A product is cancelled.
LEMMA CancelFactor ==
  ASSUME NEW m \in Nat, NEW n \in Nat, NEW c \in Nat, c > 0, m * c <= n * c
  PROVE  m <= n
  <1> SUFFICES ASSUME n + 1 <= m PROVE FALSE
    OBVIOUS
  <1>1. (n + 1) * c <= m * c
    OBVIOUS
  <1>2. QED
    BY <1>1

\* Shares of b in proportion to the weights, each rounded down, are together
\* at most b.
THEOREM SumShares ==
  ASSUME NEW S, IsFiniteSet(S), NEW w, NEW share, NEW b \in Nat, NEW W \in Nat, W > 0,
         \A x \in S : w[x] \in Nat /\ share[x] \in Nat /\ share[x] * W <= b * w[x],
         SumFunctionOnSet(w, S) <= W
  PROVE  SumFunctionOnSet(share, S) <= b
  <1> DEFINE Sum(k, s) == SumFunctionOnSet(k, s)
             T == {s \in SUBSET S : Sum(share, s) * W <= b * Sum(w, s)}
  <1>0. \A s \in SUBSET S : IsFiniteSet(s) /\ Sum(share, s) \in Nat /\ Sum(w, s) \in Nat
    BY FS_Subset, SumNat
  <1>1. ASSUME NEW s \in SUBSET S, \A t \in SUBSET s : t # s => t \in T
        PROVE  s \in T
    <2>1. CASE s = {}
      BY <2>1, SumEmpty
    <2>2. CASE s # {}
      <3>1. PICK x \in s : TRUE
        BY <2>2
      <3> DEFINE t == s \ {x}
      <3>2. t \in T /\ t \in SUBSET S
        BY <1>1, <3>1
      <3>3. Sum(share, s) = share[x] + Sum(share, t) /\ Sum(w, s) = w[x] + Sum(w, t)
        <4>1. \A y \in s : share[y] \in Nat /\ w[y] \in Nat
          OBVIOUS
        <4>2. QED
          BY <1>0, <4>1, SumRemove
      <3>4. Sum(share, t) * W <= b * Sum(w, t)
        BY <3>2
      <3>5. Sum(share, t) \in Nat /\ Sum(w, t) \in Nat /\ share[x] \in Nat /\ w[x] \in Nat
              /\ share[x] * W <= b * w[x]
        BY <1>0, <3>2
      <3> HIDE DEF Sum, t
      <3>6. Sum(share, s) * W <= b * Sum(w, s)
        <4>1. \A m, n, p, q, u, v \in Nat :
                m * u <= v * p /\ n * u <= v * q => (m + n) * u <= v * (p + q)
          OBVIOUS
        <4>2. QED
          BY <3>3, <3>4, <3>5, <4>1
      <3>7. QED
        BY <3>6
    <2>3. QED
      BY <2>1, <2>2
  <1>2. SUBSET S \subseteq T
    <2> HIDE DEF T
    <2> QED BY <1>1, SubsetInduction
  <1>3. Sum(share, S) * W <= b * Sum(w, S)
    BY <1>2
  <1>4. Sum(share, S) \in Nat /\ Sum(w, S) \in Nat /\ Sum(w, S) <= W
    BY <1>0
  <1> HIDE DEF Sum
  <1>5. Sum(share, S) * W <= b * W
    <2>1. \A m, n, k \in Nat : m <= n => k * m <= k * n
      OBVIOUS
    <2>2. b * Sum(w, S) <= b * W
      BY <1>4, <2>1
    <2>3. b * Sum(w, S) \in Nat /\ b * W \in Nat /\ Sum(share, S) * W \in Nat
      BY <1>4
    <2>4. QED
      BY <1>3, <2>2, <2>3
  <1>6. Sum(share, S) <= b
    BY <1>4, <1>5, CancelFactor
  <1>7. QED
    BY <1>6 DEF Sum

\* The keys K have disjoint parts of S, and g adds up f over each part.
Parted(K, S, part, f, g) ==
  /\ \A x \in S : f[x] \in Nat
  /\ \A k \in K : part[k] \in SUBSET S /\ g[k] = SumFunctionOnSet(f, part[k])
  /\ \A k, l \in K : k # l => part[k] \cap part[l] = {}

\* Disjoint parts of a set add up to their union.
THEOREM SumUnion ==
  ASSUME NEW K, IsFiniteSet(K), NEW S, IsFiniteSet(S), NEW part, NEW f, NEW g,
         Parted(K, S, part, f, g), NEW U, U = {x \in S : \E k \in K : x \in part[k]}
  PROVE  SumFunctionOnSet(g, K) = SumFunctionOnSet(f, U)
  <1> USE DEF Parted
  <1> DEFINE Sum(h, s) == SumFunctionOnSet(h, s)
             Of(s) == {x \in S : \E k \in s : x \in part[k]}
             T == {s \in SUBSET K : Sum(g, s) = Sum(f, Of(s))}
  <1>0. /\ \A s \in SUBSET K : IsFiniteSet(s)
        /\ \A s \in SUBSET S : IsFiniteSet(s) /\ Sum(f, s) \in Nat
    BY FS_Subset, SumNat
  <1>00. \A k \in K : g[k] = Sum(f, part[k]) /\ g[k] \in Nat
    BY <1>0
  <1>1. ASSUME NEW s \in SUBSET K, \A t \in SUBSET s : t # s => t \in T
        PROVE  s \in T
    <2>1. CASE s = {}
      <3>1. Of(s) = {}
        BY <2>1
      <3>2. Sum(g, s) = 0 /\ Sum(f, Of(s)) = 0
        BY <2>1, <3>1, SumEmpty
      <3>3. QED
        BY <3>2
    <2>2. CASE s # {}
      <3>1. PICK k \in s : TRUE
        BY <2>2
      <3> DEFINE t == s \ {k}
      <3>2. t \in T /\ t \in SUBSET K
        BY <1>1, <3>1
      <3>3. Sum(g, s) = g[k] + Sum(g, t)
        <4>1. \A y \in s : g[y] \in Nat
          BY <1>00
        <4>2. QED
          BY <1>0, <4>1, SumRemove
      <3>4. /\ Of(t) \cap part[k] = {} /\ Of(t) \cup part[k] = Of(s)
            /\ Of(t) \in SUBSET S /\ part[k] \in SUBSET S
        OBVIOUS
      <3>5. Sum(f, Of(t) \cup part[k]) = Sum(f, Of(t)) + Sum(f, part[k])
        <4> HIDE DEF Of, t
        <4>1. PICK A, B : A = Of(t) /\ B = part[k]
          OBVIOUS
        <4>2. A \in SUBSET S /\ B \in SUBSET S /\ A \cap B = {}
          BY <3>4, <4>1
        <4>3. IsFiniteSet(A) /\ IsFiniteSet(B) /\ \A x \in A \cup B : f[x] \in Nat
          BY <1>0, <4>2
        <4>4. Sum(f, A \cup B) = Sum(f, A) + Sum(f, B)
          BY <4>2, <4>3, SumDisjoint
        <4>5. QED
          BY <4>1, <4>4, Zenon
      <3>6. Sum(g, t) = Sum(f, Of(t))
        BY <3>2
      <3>7. Sum(f, Of(t)) \in Nat /\ g[k] = Sum(f, part[k]) /\ g[k] \in Nat
        <4> HIDE DEF Of, Sum, t
        <4> QED BY <1>0, <1>00, <3>4
      <3>8. Sum(f, Of(s)) = Sum(f, Of(t)) + Sum(f, part[k])
        BY <3>4, <3>5, Zenon
      <3> HIDE DEF Sum, t, Of
      <3>9. Sum(g, s) = Sum(f, Of(s))
        BY <3>3, <3>6, <3>7, <3>8
      <3>10. QED
        BY <3>9 DEF T
    <2>3. QED
      BY <2>1, <2>2
  <1>2. SUBSET K \subseteq T
    <2> HIDE DEF T
    <2> QED BY <1>1, SubsetInduction
  <1>3. Sum(g, K) = Sum(f, Of(K))
    BY <1>2
  <1>4. QED
    BY <1>3, Zenon

\* Disjoint parts that cover a set add up to the whole set.
THEOREM SumCover ==
  ASSUME NEW K, IsFiniteSet(K), NEW S, IsFiniteSet(S), NEW part, NEW f, NEW g,
         \A x \in S : f[x] \in Nat,
         \A k \in K : part[k] \in SUBSET S /\ g[k] = SumFunctionOnSet(f, part[k]),
         \A k, l \in K : k # l => part[k] \cap part[l] = {},
         \A x \in S : \E k \in K : x \in part[k]
  PROVE  SumFunctionOnSet(g, K) = SumFunctionOnSet(f, S)
  <1>1. {x \in S : \E k \in K : x \in part[k]} = S
    OBVIOUS
  <1>2. Parted(K, S, part, f, g)
    BY DEF Parted
  <1>3. QED
    BY <1>1, <1>2, SumUnion

\* Disjoint parts of a set add up to at most the whole set.
THEOREM SumParts ==
  ASSUME NEW K, IsFiniteSet(K), NEW S, IsFiniteSet(S), NEW part, NEW f, NEW g,
         Parted(K, S, part, f, g)
  PROVE  /\ SumFunctionOnSet(g, K) \in Nat
         /\ SumFunctionOnSet(g, K) <= SumFunctionOnSet(f, S)
  <1> DEFINE Sum(h, s) == SumFunctionOnSet(h, s)
             U == {x \in S : \E k \in K : x \in part[k]}
  <1>1. Sum(g, K) = Sum(f, U)
    BY SumUnion
  <1>2. U \in SUBSET S
    OBVIOUS
  <1> HIDE DEF U
  <1>3. /\ Sum(f, S) = Sum(f, S \ U) + Sum(f, U)
        /\ Sum(f, S \ U) \in Nat /\ Sum(f, U) \in Nat
    BY <1>2, SumDifference DEF Parted
  <1> HIDE DEF Sum
  <1>4. Sum(g, K) \in Nat /\ Sum(g, K) <= Sum(f, S)
    BY <1>1, <1>3
  <1>5. QED
    BY <1>4 DEF Sum

\* The function f on S becomes g on R: the value of y, which may be new, becomes v, and
\* was old.
Writes(f, S, g, R, y, old, v) ==
  /\ R = S \cup {y} /\ g[y] = v
  /\ \A x \in S : f[x] \in Nat
  /\ \A x \in R : g[x] \in Nat
  /\ \A x \in S \ {y} : g[x] = f[x]
  /\ old \in Nat
  /\ y \in S => old = f[y]
  /\ y \notin S => old = 0

\* The value of one element, which may be new, is written.
THEOREM SumWrite ==
  ASSUME NEW S, IsFiniteSet(S), NEW f, NEW g, NEW R, NEW y, NEW old, NEW v,
         Writes(f, S, g, R, y, old, v)
  PROVE  SumFunctionOnSet(g, R) + old = SumFunctionOnSet(f, S) + v
  <1>1. CASE y \in S
    <2>1. R = S
      BY <1>1 DEF Writes
    <2>2. SumFunctionOnSet(g, S) + f[y] = SumFunctionOnSet(f, S) + g[y]
      BY <1>1, <2>1, SumUpdate DEF Writes
    <2>3. QED
      BY <1>1, <2>1, <2>2 DEF Writes
  <1>2. CASE y \notin S
    <2>1. SumFunctionOnSet(g, S \cup {y}) = g[y] + SumFunctionOnSet(g, S)
      BY <1>2, SumAdd DEF Writes
    <2>2. SumFunctionOnSet(g, S) = SumFunctionOnSet(f, S)
      BY <1>2, SumEqual DEF Writes
    <2>3. SumFunctionOnSet(f, S) \in Nat /\ g[y] \in Nat
      BY SumNat DEF Writes
    <2>4. QED
      BY <1>2, <2>1, <2>2, <2>3 DEF Writes
  <1>3. QED
    BY <1>1, <1>2

\* A finite set of natural numbers has a greatest element.
LEMMA GreatestNat ==
  ASSUME NEW S, IsFiniteSet(S), S \subseteq Nat, S # {}
  PROVE  \E x \in S : \A y \in S : x >= y
  <1> DEFINE T == {s \in SUBSET S : s # {} => \E x \in s : \A y \in s : x >= y}
  <1>1. ASSUME NEW s \in SUBSET S, \A t \in SUBSET s : t # s => t \in T
        PROVE  s \in T
    <2>1. CASE s = {}
      BY <2>1
    <2>2. CASE s # {}
      <3>1. PICK z \in s : TRUE
        BY <2>2
      <3>2. s \ {z} \in T
        BY <1>1, <3>1
      <3>3. CASE s \ {z} = {}
        <4>1. \A y \in s : z >= y
          BY <3>1, <3>3
        <4>2. QED
          BY <3>1, <4>1
      <3>4. CASE s \ {z} # {}
        <4>1. PICK x \in s \ {z} : \A y \in s \ {z} : x >= y
          BY <3>2, <3>4
        <4>2. x \in Nat /\ z \in Nat
          BY <3>1, <4>1
        <4>3. CASE z >= x
          <5>1. \A y \in s : z >= y
            BY <4>1, <4>2, <4>3
          <5>2. QED
            BY <3>1, <5>1
        <4>4. CASE ~ (z >= x)
          <5>1. \A y \in s : x >= y
            BY <4>1, <4>2, <4>4
          <5>2. QED
            BY <4>1, <5>1
        <4>5. QED
          BY <4>3, <4>4
      <3>5. QED
        BY <3>3, <3>4
    <2>3. QED
      BY <2>1, <2>2
  <1> HIDE DEF T
  <1>2. SUBSET S \subseteq T
    BY <1>1, SubsetInduction
  <1>3. QED
    BY <1>2 DEF T

\* Every element takes what it may, but no more than those before it leave of a
\* total: together they take no more than the total.
THEOREM SumCapped ==
  ASSUME NEW D, D \subseteq Nat, IsFiniteSet(D), NEW f, NEW g, NEW total \in Nat,
         \A x \in D : f[x] \in Nat /\ g[x] \in Nat /\ g[x] <= f[x],
         \A x \in D : \/ g[x] = 0
                      \/ g[x] <= total - SumFunctionOnSet(f, {y \in D : y < x})
  PROVE  SumFunctionOnSet(g, D) <= total
  <1> DEFINE Sum(h, s) == SumFunctionOnSet(h, s)
             Closed(s) == \A x \in s, y \in D : y < x => y \in s
             T == {s \in SUBSET D : Closed(s) => Sum(g, s) <= total /\ Sum(g, s) <= Sum(f, s)}
  <1>1. \A s \in SUBSET D : IsFiniteSet(s) /\ Sum(f, s) \in Nat /\ Sum(g, s) \in Nat
    BY FS_Subset, SumNat
  <1>2. ASSUME NEW s \in SUBSET D, \A t \in SUBSET s : t # s => t \in T
        PROVE  s \in T
    <2> SUFFICES ASSUME Closed(s) PROVE Sum(g, s) <= total /\ Sum(g, s) <= Sum(f, s)
      BY DEF T
    <2>1. CASE s = {}
      <3>1. Sum(g, s) = 0 /\ Sum(f, s) = 0
        BY <2>1, SumEmpty
      <3>2. QED
        BY <3>1
    <2>2. CASE s # {}
      <3>1. PICK x \in s : \A y \in s : x >= y
        BY <1>1, <2>2, GreatestNat
      <3> DEFINE t == s \ {x}
      <3>2. t = {y \in D : y < x}
        <4>1. \A y \in D : y \in Nat /\ x \in Nat
          BY <3>1
        <4>2. ASSUME NEW y \in t PROVE y \in D /\ y < x
          <5>1. y \in D /\ y # x /\ x >= y
            BY <3>1, <4>2
          <5>2. QED
            BY <4>1, <5>1
        <4>3. ASSUME NEW y \in D, y < x PROVE y \in t
          <5>1. y \in s
            BY <3>1, <4>3
          <5>2. y # x
            BY <4>1, <4>3
          <5>3. QED
            BY <5>1, <5>2
        <4> HIDE DEF t
        <4>4. QED
          BY <4>2, <4>3
      <3>3. Closed(t)
        BY <3>2
      <3>4. t \in SUBSET s /\ t # s /\ t \in SUBSET D
        BY <3>1
      <3>5. Sum(g, t) <= total /\ Sum(g, t) <= Sum(f, t)
        <4> HIDE DEF t, Closed, Sum
        <4> QED BY <1>2, <3>3, <3>4
      <3>6. Sum(g, s) = g[x] + Sum(g, t) /\ Sum(f, s) = f[x] + Sum(f, t)
        <4>1. \A y \in s : g[y] \in Nat /\ f[y] \in Nat
          OBVIOUS
        <4>2. QED
          BY <1>1, <4>1, SumRemove
      <3>7. g[x] = 0 \/ g[x] <= total - Sum(f, t)
        BY <3>2
      <3>8. /\ f[x] \in Nat /\ g[x] \in Nat /\ g[x] <= f[x]
            /\ Sum(f, t) \in Nat /\ Sum(g, t) \in Nat
        BY <1>1, <3>4
      <3> HIDE DEF t, Sum
      <3>9. QED
        BY <3>5, <3>6, <3>7, <3>8
    <2>3. QED
      BY <2>1, <2>2
  <1>3. SUBSET D \subseteq T
    <2> HIDE DEF T
    <2> QED BY <1>2, SubsetInduction
  <1>4. Closed(D)
    OBVIOUS
  <1>5. QED
    BY <1>3, <1>4

\* A sum of zeros.
THEOREM SumZero ==
  ASSUME NEW S, IsFiniteSet(S), NEW f, \A x \in S : f[x] = 0
  PROVE  SumFunctionOnSet(f, S) = 0
  <1>1. \A x \in S : f[x] \in Nat /\ f[x] <= 0 * f[x] + 0
    OBVIOUS
  <1>2. SumFunctionOnSet(f, S) <= 0 * SumFunctionOnSet(f, S) + Cardinality(S) * 0
    BY <1>1, SumBounded
  <1>3. SumFunctionOnSet(f, S) \in Nat /\ Cardinality(S) \in Nat
    BY <1>1, SumNat, FS_CardinalityType
  <1>4. QED
    BY <1>2, <1>3

\* The sum over one element is its value.
LEMMA SumOne ==
  ASSUME NEW f, NEW x, f[x] \in Nat
  PROVE  SumFunctionOnSet(f, {x}) = f[x]
  <1>1. \A y \in {} \cup {x} : f[y] \in Nat
    OBVIOUS
  <1>2. SumFunctionOnSet(f, {} \cup {x}) = f[x] + SumFunctionOnSet(f, {})
    BY <1>1, SumAdd, FS_EmptySet
  <1>3. {} \cup {x} = {x} /\ SumFunctionOnSet(f, {}) = 0
    BY SumEmpty
  <1>4. QED
    BY <1>2, <1>3

\* p maps S one to one onto itself, and g has at x the value that f has at p[x].
Permutes(p, S, f, g) ==
  /\ \A x \in S : p[x] \in S /\ g[x] = f[p[x]]
  /\ \A x, y \in S : p[x] = p[y] => x = y
  /\ \A y \in S : \E x \in S : p[x] = y

\* Values that change places have the same sum.
THEOREM SumPermuted ==
  ASSUME NEW S, IsFiniteSet(S), NEW p, NEW f, NEW g, \A x \in S : f[x] \in Nat,
         Permutes(p, S, f, g)
  PROVE  SumFunctionOnSet(g, S) = SumFunctionOnSet(f, S)
  <1>1. PICK part : part = [x \in S |-> {p[x]}]
    OBVIOUS
  <1>2. \A x \in S : part[x] = {p[x]} /\ p[x] \in S /\ g[x] = f[p[x]]
    BY <1>1 DEF Permutes
  <1>3. ASSUME NEW k \in S
        PROVE  part[k] \in SUBSET S /\ g[k] = SumFunctionOnSet(f, part[k])
    <2>1. PICK z \in S : z = p[k]
      BY <1>2
    <2>2. SumFunctionOnSet(f, {z}) = f[z]
      BY SumOne
    <2>3. part[k] = {z} /\ g[k] = f[z]
      BY <1>2, <2>1
    <2>4. QED
      BY <2>2, <2>3
  <1>4. \A k, l \in S : k # l => part[k] \cap part[l] = {}
    BY <1>2 DEF Permutes
  <1>5. Parted(S, S, part, f, g)
    BY <1>3, <1>4 DEF Parted
  <1>6. S = {x \in S : \E k \in S : x \in part[k]}
    BY <1>2 DEF Permutes
  <1>7. QED
    BY <1>5, <1>6, SumUnion

-----------------------------------------------------------------------------
(* Stores.                                                                 *)

\* Setting and deleting keys keeps the type of a store.
LEMMA StoreType ==
  ASSUME NEW store, NEW Keys, NEW Values, IsStore(store, Keys, Values)
  PROVE  /\ \A k \in Keys, v \in Values :
              IsStore(StoreSet(store, k, v), Keys, Values)
         /\ \A ks : IsStore(StoreDelete(store, ks), Keys, Values)
  BY DEF IsStore, StoreSet, StoreDelete, Restrict

\* A store of finitely many keys keeps finitely many.
LEMMA StoreFinite ==
  ASSUME NEW store, IsFiniteSet(DOMAIN store)
  PROVE  /\ \A k, v : IsFiniteSet(DOMAIN StoreSet(store, k, v))
         /\ \A ks : IsFiniteSet(DOMAIN StoreDelete(store, ks))
  <1>1. \A k : IsFiniteSet(DOMAIN store \cup {k})
    BY FS_AddElement
  <1>2. \A ks : IsFiniteSet(DOMAIN store \ ks)
    BY FS_Difference
  <1>3. QED
    BY <1>1, <1>2 DEF StoreSet, StoreDelete, Restrict

\* An amount is added to the value of a key, which may be a new one: the sum of a part
\* of the store, the key included, grows by the amount.
LEMMA StoreAddSum ==
  ASSUME NEW store, IsFiniteSet(DOMAIN store), \A k \in DOMAIN store : store[k] \in Nat,
         NEW S \in SUBSET DOMAIN store, NEW key, key \in DOMAIN store => key \in S,
         NEW amount \in Nat
  PROVE  SumFunctionOnSet(StoreSet(store, key, amount + (IF key \in DOMAIN store
                                                         THEN store[key] ELSE 0)),
                          S \cup {key})
           = SumFunctionOnSet(store, S) + amount
  <1> DEFINE new == StoreSet(store, key, amount + (IF key \in DOMAIN store
                                                   THEN store[key] ELSE 0))
  <1> SUFFICES SumFunctionOnSet(new, S \cup {key}) = SumFunctionOnSet(store, S) + amount
    OBVIOUS
  <1>0. /\ \A k \in S \ {key} : new[k] = store[k]
        /\ new[key] = amount + (IF key \in DOMAIN store THEN store[key] ELSE 0)
    BY DEF StoreSet
  <1> HIDE DEF new
  <1>1. IsFiniteSet(S) /\ IsFiniteSet(S \ {key})
    BY FS_Subset, FS_Difference
  <1>2. SumFunctionOnSet(new, S \ {key}) = SumFunctionOnSet(store, S \ {key})
    BY <1>0, <1>1, SumEqual
  <1>3. SumFunctionOnSet(store, S \ {key}) \in Nat
    BY <1>1, SumNat
  <1>4. \A k \in S \cup {key} : new[k] \in Nat
    BY <1>0
  <1>5. SumFunctionOnSet(new, S \cup {key}) = new[key] + SumFunctionOnSet(new, S \ {key})
    <2>1. S \cup {key} = (S \ {key}) \cup {key}
      OBVIOUS
    <2>2. SumFunctionOnSet(new, (S \ {key}) \cup {key})
            = new[key] + SumFunctionOnSet(new, S \ {key})
      BY <1>1, <1>4, SumAdd
    <2>3. QED
      BY <2>1, <2>2
  <1>6. CASE key \in S
    <2>1. SumFunctionOnSet(store, S) = store[key] + SumFunctionOnSet(store, S \ {key})
      BY <1>1, <1>6, SumRemove
    <2>2. new[key] = amount + store[key] /\ store[key] \in Nat
      BY <1>0, <1>6
    <2>3. QED
      BY <1>2, <1>3, <1>5, <2>1, <2>2
  <1>7. CASE key \notin S
    <2>1. SumFunctionOnSet(store, S \ {key}) = SumFunctionOnSet(store, S)
      <3>1. S \ {key} = S
        BY <1>7
      <3>2. QED
        BY <3>1, Zenon
    <2>2. new[key] = amount
      BY <1>0, <1>7
    <2>3. QED
      BY <1>2, <1>3, <1>5, <2>1, <2>2
  <1>8. QED
    BY <1>6, <1>7

\* Keys are deleted: the sum falls by their sum, and the sum of other keys stays.
LEMMA StoreDeleteSum ==
  ASSUME NEW store, IsFiniteSet(DOMAIN store), \A k \in DOMAIN store : store[k] \in Nat,
         NEW S \in SUBSET DOMAIN store
  PROVE  /\ DOMAIN StoreDelete(store, S) = DOMAIN store \ S
         /\ \A R \in SUBSET (DOMAIN store \ S) :
              SumFunctionOnSet(StoreDelete(store, S), R) = SumFunctionOnSet(store, R)
         /\ SumFunctionOnSet(store, DOMAIN store)
              = SumFunctionOnSet(StoreDelete(store, S), DOMAIN StoreDelete(store, S))
                  + SumFunctionOnSet(store, S)
         /\ SumFunctionOnSet(StoreDelete(store, S), DOMAIN StoreDelete(store, S)) \in Nat
         /\ SumFunctionOnSet(store, S) \in Nat
  <1> DEFINE new == StoreDelete(store, S)
  <1>1. DOMAIN new = DOMAIN store \ S /\ \A k \in DOMAIN new : new[k] = store[k]
    BY DEF StoreDelete, Restrict
  <1>2. ASSUME NEW R \in SUBSET (DOMAIN store \ S)
        PROVE  SumFunctionOnSet(new, R) = SumFunctionOnSet(store, R)
    <2>1. IsFiniteSet(R)
      BY FS_Subset
    <2>2. QED
      BY <1>1, <2>1, SumEqual
  <1>3. /\ SumFunctionOnSet(store, DOMAIN store)
             = SumFunctionOnSet(store, DOMAIN store \ S) + SumFunctionOnSet(store, S)
        /\ SumFunctionOnSet(store, DOMAIN store \ S) \in Nat
        /\ SumFunctionOnSet(store, S) \in Nat
    BY SumDifference
  <1>4. QED
    BY <1>1, <1>2, <1>3
=============================================================================
