------------------------------- MODULE Loops -------------------------------
(***************************************************************************)
(* Loops over a finite set, as MapThenFoldSet folds them: Step(s, x, p) is *)
(* the state after s when the body of the loop has run for x, Last(S, p)   *)
(* the element of S that comes last, and p what the body reads besides.    *)
(* A proof about a loop instantiates this module with its body.            *)
(***************************************************************************)
EXTENDS Sums

CONSTANTS Step(_, _, _), Last(_, _)

\* g gives the state after the loop has run for the elements of a set in D.
IsRun(g, D, base, p) ==
  g = [S \in D |-> IF S = {} THEN base ELSE Step(g[S \ {Last(S, p)}], Last(S, p), p)]

\* The state after the loop has run for all of S.
Loop(S, base, p) == (CHOOSE g : IsRun(g, SUBSET S, base, p))[S]

\* A set of finitely many elements, as its subsets have sizes.
HasSizes(S, size) ==
  /\ size \in [SUBSET S -> Nat]
  /\ \A s \in SUBSET S : size[s] <= size[S] /\ \A x \in s : size[s \ {x}] < size[s]

\* A loop runs: there are states after the loop has run for each subset, by
\* induction on the number of its elements.
LEMMA RunExists ==
  ASSUME NEW S, NEW size, HasSizes(S, size), NEW base, NEW p,
         \A s \in SUBSET S : s # {} => Last(s, p) \in s
  PROVE  \E g : IsRun(g, SUBSET S, base, p)
  <1> DEFINE D(n) == {s \in SUBSET S : size[s] <= n}
             T == {n \in Nat : \E g : IsRun(g, D(n), base, p)}
  <1>1. /\ \A s \in SUBSET S : size[s] \in Nat
        /\ \A s \in SUBSET S : size[s] <= size[S]
        /\ \A s \in SUBSET S : \A x \in s : size[s \ {x}] < size[s]
    BY DEF HasSizes
  <1>2. 0 \in T
    <2>1. \A s \in D(0) : s = {}
      <3>1. ASSUME NEW s \in SUBSET S, NEW x \in s PROVE size[s] > 0
        <4>1. s \ {x} \in SUBSET S
          OBVIOUS
        <4>2. size[s \ {x}] \in Nat /\ size[s] \in Nat /\ size[s \ {x}] < size[s]
          BY <1>1, <4>1
        <4>3. QED
          BY <4>2
      <3>2. QED
        BY <1>1, <3>1
    <2>2. IsRun([u \in D(0) |-> base], D(0), base, p)
      BY <2>1 DEF IsRun
    <2>3. QED
      BY <2>2
  <1>3. ASSUME NEW n \in Nat, n \in T PROVE n + 1 \in T
    <2>1. PICK g : IsRun(g, D(n), base, p)
      BY <1>3
    <2> DEFINE h == [s \in D(n + 1) |->
                       IF s = {} THEN base ELSE Step(g[s \ {Last(s, p)}], Last(s, p), p)]
    <2>2. \A s \in D(n) : h[s] = g[s]
      <3>1. D(n) \subseteq D(n + 1)
        BY <1>1
      <3>2. QED
        BY <2>1, <3>1 DEF IsRun
    <2>3. ASSUME NEW s \in D(n + 1), s # {} PROVE s \ {Last(s, p)} \in D(n)
      <3>1. Last(s, p) \in s /\ s \ {Last(s, p)} \in SUBSET S
        BY <2>3
      <3>2. size[s \ {Last(s, p)}] < size[s]
        BY <1>1, <3>1
      <3>3. size[s \ {Last(s, p)}] \in Nat /\ size[s] \in Nat
        BY <1>1, <3>1
      <3>4. QED
        BY <3>1, <3>2, <3>3
    <2>4. IsRun(h, D(n + 1), base, p)
      BY <2>2, <2>3 DEF IsRun
    <2>5. \E k : IsRun(k, D(n + 1), base, p)
      <3> HIDE DEF h, D
      <3> QED BY <2>4
    <2>6. n + 1 \in Nat
      OBVIOUS
    <2>7. QED
      BY <2>5, <2>6, Zenon
  <1>4. size[S] \in T
    <2> HIDE DEF T
    <2>1. Nat \subseteq T
      BY <1>2, <1>3, NatSetInduction
    <2>2. QED
      BY <1>1, <2>1
  <1>5. D(size[S]) = SUBSET S
    BY <1>1
  <1>6. PICK g : IsRun(g, D(size[S]), base, p)
    BY <1>4
  <1>7. QED
    BY <1>5, <1>6, Zenon

\* g gives the states of the loop over S: it starts from base, and runs the body for
\* the last element of a part after it has run for the others.
Runs(g, S, base, p) ==
  /\ g[S] = Loop(S, base, p)
  /\ g[{}] = base
  /\ \A s \in SUBSET S : s # {} =>
       /\ Last(s, p) \in s
       /\ g[s] = Step(g[s \ {Last(s, p)}], Last(s, p), p)

\* What the loop does: it starts from base and runs the body for the last
\* element of a part after it has run for the others.
THEOREM LoopRuns ==
  ASSUME NEW S, NEW base, NEW p,
         \E size : HasSizes(S, size),
         \A s \in SUBSET S : s # {} => Last(s, p) \in s
  PROVE  \E g : Runs(g, S, base, p)
  <1> DEFINE g == CHOOSE h : IsRun(h, SUBSET S, base, p)
  <1>1. IsRun(g, SUBSET S, base, p)
    BY RunExists
  <1>2. g[S] = Loop(S, base, p)
    BY DEF Loop
  <1> HIDE DEF g
  <1>3. g[{}] = base
    BY <1>1 DEF IsRun
  <1>4. \A s \in SUBSET S : s # {} => g[s] = Step(g[s \ {Last(s, p)}], Last(s, p), p)
    BY <1>1 DEF IsRun
  <1>5. QED
    BY <1>2, <1>3, <1>4 DEF Runs
=============================================================================
