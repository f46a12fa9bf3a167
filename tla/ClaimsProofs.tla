---------------------------- MODULE ClaimsProofs ----------------------------
(***************************************************************************)
(* Proofs about ShieldClaims, for any accounts, genesis, parameters and    *)
(* amounts.  First the loops: DelayWithdraws, SecureCollaterals and        *)
(* CreateReimbursement, each with what holds when it has run for some of   *)
(* the providers.  Then the invariants, of which each needs the ones       *)
(* before: ClaimInv, PurchaseInv, Tracked with ProviderInv of ShieldProofs *)
(* and ReimbursementInv, together ClaimsInv, and LockInv.  Last the coins: *)
(* the same loops followed through delegations and unbonding entries.      *)
(***************************************************************************)
EXTENDS ShieldClaims, ShieldProofs

-----------------------------------------------------------------------------
(* The order in which a queue of withdraws is walked.                      *)

\* Earliest returns the withdraw that every other one of the set is later than.
LEMMA EarliestIsLast ==
  ASSUME NEW queue, GoodQueue(queue), NEW S \in SUBSET DOMAIN queue, S # {}
  PROVE  Earliest(queue, S) \in S /\ \A m \in S \ {Earliest(queue, S)} : Later(queue, m, Earliest(queue, S))
  <1> DEFINE Times == {queue[n].completionTime : n \in S}
  <1>1. /\ Times \subseteq Nat /\ Times # {}
        /\ S \subseteq Nat /\ \A n \in S : queue[n].completionTime \in Nat
    BY DEF GoodQueue, IsStore, Withdraw
  <1>2. PICK t \in Times : \A u \in Times : t <= u
    <2> HIDE DEF Times
    <2> QED BY <1>1, LeastNat
  <1> DEFINE First == {n \in S : queue[n].completionTime = t}
  <1>3. First \subseteq Nat /\ First # {}
    BY <1>1, <1>2
  <1>4. PICK x \in First : \A y \in First : x <= y
    <2> HIDE DEF First
    <2> QED BY <1>3, LeastNat
  <1>5. ASSUME NEW m \in S \ {x} PROVE Later(queue, m, x)
    <2>1. queue[m].completionTime >= t /\ queue[x].completionTime = t /\ m \in Nat /\ x \in Nat
      BY <1>1, <1>2, <1>4
    <2>2. CASE queue[m].completionTime > t
      BY <2>1, <2>2 DEF Later
    <2>3. CASE queue[m].completionTime = t
      <3>1. m \in First /\ m # x
        BY <2>3
      <3>2. m > x
        BY <1>4, <2>1, <3>1
      <3>3. QED
        BY <2>1, <2>3, <3>2 DEF Later
    <2>4. QED
      BY <1>1, <2>1, <2>2, <2>3
  <1>6. \E n \in S : \A m \in S \ {n} : Later(queue, m, n)
    BY <1>4, <1>5
  <1>7. QED
    BY <1>6, Zenon DEF Earliest

\* Of two withdraws one is later, and only one.
LEMMA LaterOrder ==
  ASSUME NEW queue, GoodQueue(queue), NEW m \in DOMAIN queue, NEW n \in DOMAIN queue
  PROVE  /\ ~ (Later(queue, m, n) /\ Later(queue, n, m))
         /\ m # n => Later(queue, m, n) \/ Later(queue, n, m)
         /\ ~ Later(queue, m, m)
  <1>1. /\ m \in Nat /\ n \in Nat
        /\ queue[m].completionTime \in Nat /\ queue[n].completionTime \in Nat
    BY DEF GoodQueue, IsStore, Withdraw
  <1>2. QED
    BY <1>1 DEF Later

\* The amount of one withdraw.
LEMMA AmountOne ==
  ASSUME NEW queue, GoodQueue(queue), NEW x \in DOMAIN queue
  PROVE  AmountOf(queue, {x}) = queue[x].amount /\ queue[x].amount \in Nat
  <1> DEFINE f == [n \in {x} |-> queue[n].amount]
  <1>1. f[x] = queue[x].amount /\ f[x] \in Nat
    BY DEF GoodQueue, IsStore, Withdraw
  <1>2. \A y \in {} \cup {x} : f[y] \in Nat
    BY <1>1
  <1> HIDE DEF f
  <1>3. SumFunctionOnSet(f, {} \cup {x}) = f[x] + SumFunctionOnSet(f, {})
    BY <1>2, SumAdd, FS_EmptySet
  <1>4. {} \cup {x} = {x} /\ SumFunctionOnSet(f, {}) = 0
    BY SumEmpty
  <1>5. SumFunctionOnSet(f, {x}) = queue[x].amount
    BY <1>1, <1>3, <1>4
  <1>6. QED
    BY <1>1, <1>5 DEF AmountOf, SumOver, f

-----------------------------------------------------------------------------
(* Taking an amount out of the withdraws of a provider.                    *)

\* How much of the first x units lies behind the first skip, within amount.
Clip(x, skip, amount) == MinInt(MaxInt(x - skip, 0), amount)

\* An item gives what it adds to the clipped units.
LEMMA TakenIsClip ==
  ASSUME NEW before \in Nat, NEW own \in Nat, NEW skip \in Nat, NEW amount \in Nat
  PROVE  /\ TakenFrom(before, own, skip, amount) \in 0..own
         /\ Clip(before + own, skip, amount)
              = TakenFrom(before, own, skip, amount) + Clip(before, skip, amount)
         /\ Clip(before, skip, amount) \in Nat
         /\ Clip(0, skip, amount) = 0
         /\ skip + amount <= before => Clip(before, skip, amount) = amount
  BY DEF TakenFrom, Clip, MinInt, MaxInt

\* R is an order in which the items of S are walked: <<m, n>> says that m comes before n.
IsWalk(R, S) ==
  \A s \in SUBSET S : s # {} =>
    \E x \in s : /\ <<x, x>> \notin R
                 /\ \A m \in s \ {x} : <<m, x>> \in R /\ <<x, m>> \notin R

\* What the items of S, of sizes w, give when they are walked in the order R.
TakenIn(w, R, S, skip, amount) ==
  [n \in S |-> TakenFrom(SumFunctionOnSet(w, {m \in S : <<m, n>> \in R}), w[n], skip, amount)]

\* The items of S together give the clipped units, by induction on S: the item that is
\* walked last gives what it adds.
LEMMA TakenTotal ==
  ASSUME NEW S, IsFiniteSet(S), NEW w, \A x \in S : w[x] \in Nat, NEW R, IsWalk(R, S),
         NEW skip \in Nat, NEW amount \in Nat
  PROVE  /\ \A n \in S : TakenIn(w, R, S, skip, amount)[n] \in 0..w[n]
         /\ SumFunctionOnSet(TakenIn(w, R, S, skip, amount), S)
              = Clip(SumFunctionOnSet(w, S), skip, amount)
  <1>0. \A s \in SUBSET S : IsFiniteSet(s) /\ SumFunctionOnSet(w, s) \in Nat
    BY FS_Subset, SumNat
  <1>1. ASSUME NEW s \in SUBSET S, NEW n \in s
        PROVE  TakenIn(w, R, s, skip, amount)[n] \in 0..w[n]
    <2>1. PICK b \in Nat : b = SumFunctionOnSet(w, {m \in s : <<m, n>> \in R})
      <3>1. {m \in s : <<m, n>> \in R} \in SUBSET S
        OBVIOUS
      <3>2. QED
        BY <1>0, <3>1
    <2>2. TakenFrom(b, w[n], skip, amount) \in 0..w[n]
      BY TakenIsClip
    <2>3. QED
      BY <2>1, <2>2 DEF TakenIn
  <1> DEFINE T == {s \in SUBSET S : SumFunctionOnSet(TakenIn(w, R, s, skip, amount), s)
                                      = Clip(SumFunctionOnSet(w, s), skip, amount)}
  <1>2. ASSUME NEW s \in SUBSET S, \A t \in SUBSET s : t # s => t \in T
        PROVE  s \in T
    <2>1. CASE s = {}
      <3>1. SumFunctionOnSet(TakenIn(w, R, {}, skip, amount), {}) = 0 /\ SumFunctionOnSet(w, {}) = 0
        BY SumEmpty
      <3>2. Clip(0, skip, amount) = 0
        BY TakenIsClip
      <3>3. QED
        BY <2>1, <3>1, <3>2
    <2>2. CASE s # {}
      <3>1. PICK x \in s : <<x, x>> \notin R /\ \A m \in s \ {x} : <<m, x>> \in R /\ <<x, m>> \notin R
        BY <2>2 DEF IsWalk
      <3>2. PICK r : r = s \ {x}
        OBVIOUS
      <3>3. PICK f, g : f = TakenIn(w, R, s, skip, amount) /\ g = TakenIn(w, R, r, skip, amount)
        OBVIOUS
      <3>4. r \in T /\ r \in SUBSET S
        BY <1>2, <3>2
      <3>5. f[x] = TakenFrom(SumFunctionOnSet(w, r), w[x], skip, amount)
        <4>1. {m \in s : <<m, x>> \in R} = r
          BY <3>1, <3>2
        <4>2. QED
          BY <3>3, <4>1 DEF TakenIn
      <3>6. \A n \in r : f[n] = g[n]
        <4>1. ASSUME NEW n \in r
              PROVE  {m \in s : <<m, n>> \in R} = {m \in r : <<m, n>> \in R}
          BY <3>1, <3>2
        <4>2. QED
          BY <3>2, <3>3, <4>1 DEF TakenIn
      <3>7. \A n \in s : f[n] \in Nat
        BY <1>1, <3>3
      <3>8. SumFunctionOnSet(f, s) = f[x] + SumFunctionOnSet(f, r)
        BY <1>0, <3>2, <3>7, SumRemove
      <3>9. SumFunctionOnSet(f, r) = SumFunctionOnSet(g, r)
        BY <1>0, <3>4, <3>6, SumEqual
      <3>10. SumFunctionOnSet(w, s) = w[x] + SumFunctionOnSet(w, r)
        BY <1>0, <3>2, SumRemove
      <3>11. PICK u \in Nat, v \in Nat : u = SumFunctionOnSet(w, r) /\ v = w[x]
        BY <1>0, <3>4
      <3>12. SumFunctionOnSet(g, r) = Clip(u, skip, amount)
        BY <3>3, <3>4, <3>11
      <3>13. Clip(u + v, skip, amount) = TakenFrom(u, v, skip, amount) + Clip(u, skip, amount)
        BY TakenIsClip
      <3>14. SumFunctionOnSet(f, s) = Clip(u + v, skip, amount)
        BY <3>5, <3>8, <3>9, <3>11, <3>12, <3>13
      <3>15. SumFunctionOnSet(w, s) = u + v
        BY <3>10, <3>11
      <3>16. QED
        BY <3>3, <3>14, <3>15
    <2>3. QED
      BY <2>1, <2>2
  <1>3. S \in T
    <2> HIDE DEF T
    <2>1. SUBSET S \subseteq T
      BY <1>2, SubsetInduction
    <2>2. QED
      BY <2>1
  <1>4. QED
    BY <1>1, <1>3

\* What each withdraw of S gives.
Taken(queue, S, skip, amount) ==
  [n \in S |-> TakenFrom(AmountLater(queue, S, n), queue[n].amount, skip, amount)]

\* The withdraws of S together give the clipped units.
LEMMA TakenSum ==
  ASSUME NEW queue, GoodQueue(queue), NEW S \in SUBSET DOMAIN queue,
         NEW skip \in Nat, NEW amount \in Nat
  PROVE  /\ \A n \in S : Taken(queue, S, skip, amount)[n] \in 0..queue[n].amount
         /\ SumOver(Taken(queue, S, skip, amount), S) = Clip(AmountOf(queue, S), skip, amount)
  <1>1. PICK w : w = [n \in S |-> queue[n].amount]
    OBVIOUS
  <1>2. PICK R : R = {p \in S \X S : Later(queue, p[1], p[2])}
    OBVIOUS
  <1>3. IsFiniteSet(S) /\ \A n \in S : w[n] = queue[n].amount /\ w[n] \in Nat
    BY <1>1, AmountNat DEF GoodQueue, IsStore, Withdraw
  <1>4. \A m, n \in S : <<m, n>> \in R <=> Later(queue, m, n)
    BY <1>2
  <1>5. IsWalk(R, S)
    <2> SUFFICES ASSUME NEW s \in SUBSET S, s # {}
                 PROVE  \E x \in s : /\ <<x, x>> \notin R
                                     /\ \A m \in s \ {x} : <<m, x>> \in R /\ <<x, m>> \notin R
      BY DEF IsWalk
    <2>1. PICK x \in s : \A m \in s \ {x} : Later(queue, m, x)
      BY EarliestIsLast
    <2>2. <<x, x>> \notin R /\ \A m \in s \ {x} : <<m, x>> \in R /\ <<x, m>> \notin R
      BY <1>4, <2>1, LaterOrder
    <2>3. QED
      BY <2>2
  <1>6. /\ \A n \in S : TakenIn(w, R, S, skip, amount)[n] \in 0..w[n]
        /\ SumFunctionOnSet(TakenIn(w, R, S, skip, amount), S)
             = Clip(SumFunctionOnSet(w, S), skip, amount)
    BY <1>3, <1>5, TakenTotal
  <1>7. AmountOf(queue, S) = SumFunctionOnSet(w, S)
    BY <1>1 DEF AmountOf, SumOver
  <1>8. ASSUME NEW n \in S
        PROVE  Taken(queue, S, skip, amount)[n] = TakenIn(w, R, S, skip, amount)[n]
    <2>1. PICK B : B = {m \in S : Later(queue, m, n)}
      OBVIOUS
    <2>2. B = {m \in S : <<m, n>> \in R} /\ IsFiniteSet(B)
      BY <1>3, <1>4, <2>1, FS_Subset
    <2>3. PICK f : f = [m \in B |-> queue[m].amount]
      OBVIOUS
    <2>4. \A m \in B : f[m] = w[m]
      BY <1>3, <2>1, <2>3
    <2>5. SumFunctionOnSet(f, B) = SumFunctionOnSet(w, B)
      BY <2>2, <2>4, SumEqual
    <2>6. AmountLater(queue, S, n) = SumFunctionOnSet(w, B)
      BY <2>1, <2>3, <2>5 DEF AmountLater, AmountOf, SumOver
    <2>7. QED
      BY <1>3, <2>2, <2>6 DEF Taken, TakenIn
  <1>9. SumOver(Taken(queue, S, skip, amount), S)
          = SumFunctionOnSet(TakenIn(w, R, S, skip, amount), S)
    BY <1>3, <1>8, SumEqual DEF SumOver
  <1>10. QED
    BY <1>3, <1>6, <1>7, <1>8, <1>9

\* The queue left has the withdraws of queue, of which those of S have lost what taken says.
IsCut(queue, left, S, taken) ==
  /\ GoodQueue(left) /\ DOMAIN left = DOMAIN queue
  /\ \A n \in DOMAIN queue : /\ left[n].address = queue[n].address
                             /\ left[n].completionTime = queue[n].completionTime
  /\ \A n \in DOMAIN queue \ S : left[n] = queue[n]
  /\ \A n \in S : taken[n] \in Nat /\ queue[n].amount = left[n].amount + taken[n]

\* A part of the queue loses what its withdraws in S lose.
LEMMA CutAmounts ==
  ASSUME NEW queue, GoodQueue(queue), NEW S \in SUBSET DOMAIN queue, NEW left, NEW taken,
         IsCut(queue, left, S, taken), NEW R \in SUBSET DOMAIN queue
  PROVE  /\ AmountOf(left, R) <= AmountOf(queue, R)
         /\ R = S => AmountOf(queue, R) = AmountOf(left, R) + SumOver(taken, S)
         /\ R \cap S = {} => AmountOf(left, R) = AmountOf(queue, R)
  <1> DEFINE f == [n \in R |-> queue[n].amount]
             g == [n \in R |-> left[n].amount]
             h == [n \in R |-> IF n \in S THEN taken[n] ELSE 0]
  <1>1. IsFiniteSet(R) /\ IsFiniteSet(S)
    BY AmountNat
  <1>2. \A n \in R : g[n] \in Nat /\ h[n] \in Nat /\ f[n] = g[n] + h[n]
    <2>1. \A n \in DOMAIN queue : left[n].amount \in Nat /\ queue[n].amount \in Nat
      BY DEF IsCut, GoodQueue, IsStore, Withdraw
    <2>2. QED
      BY <2>1 DEF IsCut
  <1>3. AmountOf(queue, R) = SumFunctionOnSet(f, R) /\ AmountOf(left, R) = SumFunctionOnSet(g, R)
    BY DEF AmountOf, SumOver
  <1>4. R = S => \A n \in S : h[n] = taken[n]
    OBVIOUS
  <1>5. R \cap S = {} => \A n \in R : left[n] = queue[n]
    BY DEF IsCut
  <1> HIDE DEF f, g, h
  <1>6. SumFunctionOnSet(f, R) = SumFunctionOnSet(g, R) + SumFunctionOnSet(h, R)
    BY <1>1, <1>2, SumPlus
  <1>7. SumFunctionOnSet(g, R) \in Nat /\ SumFunctionOnSet(h, R) \in Nat
    BY <1>1, <1>2, SumNat
  <1>8. R = S => SumFunctionOnSet(h, R) = SumOver(taken, S)
    BY <1>1, <1>4, SumEqual DEF SumOver
  <1>9. R \cap S = {} => AmountOf(left, R) = AmountOf(queue, R)
    BY <1>1, <1>5, AmountEqual
  <1>10. QED
    BY <1>3, <1>6, <1>7, <1>8, <1>9

\* The queue loses sum of the withdraws of a, and nothing else; at no time does more of it
\* complete.
Shrinks(queue, new, a, sum) ==
  /\ GoodQueue(new)
  /\ \A n \in DOMAIN new : n \in DOMAIN queue /\ new[n].address = queue[n].address
  /\ AmountOf(queue, OfAddress(queue, a)) = AmountOf(new, OfAddress(new, a)) + sum
  /\ \A b : b # a => AmountOf(new, OfAddress(new, b)) = AmountOf(queue, OfAddress(queue, b))
  /\ \A t : AmountOf(new, DueBy(new, t)) <= AmountOf(queue, DueBy(queue, t))

\* Withdraws that nothing is left of are taken out.
LEMMA CutShrinks ==
  ASSUME NEW queue, GoodQueue(queue), NEW a, NEW left, NEW taken,
         IsCut(queue, left, OfAddress(queue, a), taken),
         NEW Z \in SUBSET DOMAIN queue, \A n \in Z : left[n].amount = 0,
         NEW new, new = StoreDelete(left, Z), NEW sum \in Nat,
         SumOver(taken, OfAddress(queue, a)) = sum
  PROVE  Shrinks(queue, new, a, sum)
  <1>1. GoodQueue(left) /\ DOMAIN left = DOMAIN queue
    BY DEF IsCut
  <1>2. IsQueueWithout(left, new, Z)
    BY <1>1, QueueDelete
  <1>3. ASSUME NEW R \in SUBSET DOMAIN queue PROVE AmountOf(new, R \ Z) = AmountOf(left, R)
    <2>1. AmountOf(left, R) = AmountOf(new, R \ Z) + AmountOf(left, R \cap Z)
      BY <1>1, <1>2 DEF IsQueueWithout
    <2>2. AmountOf(left, R \cap Z) = 0
      <3> DEFINE g == [n \in R \cap Z |-> left[n].amount]
      <3>1. \A n \in R \cap Z : g[n] = 0
        OBVIOUS
      <3>2. IsFiniteSet(R \cap Z)
        <4>1. R \cap Z \in SUBSET DOMAIN left
          BY <1>1
        <4>2. QED
          BY <1>1, <4>1, AmountNat
      <3> HIDE DEF g
      <3>3. SumFunctionOnSet(g, R \cap Z) = 0
        BY <3>1, <3>2, SumZero
      <3>4. QED
        BY <3>3 DEF AmountOf, SumOver, g
    <2>3. AmountOf(new, R \ Z) \in Nat
      <3>1. R \ Z \in SUBSET DOMAIN new
        BY <1>1, <1>2 DEF IsQueueWithout
      <3>2. QED
        BY <1>2, <3>1, AmountNat DEF IsQueueWithout
    <2>4. QED
      BY <2>1, <2>2, <2>3
  <1>4. \A b : OfAddress(new, b) = OfAddress(queue, b) \ Z
    BY <1>1, <1>2 DEF OfAddress, IsQueueWithout, IsCut
  <1>5. \A t : DueBy(new, t) = DueBy(queue, t) \ Z
    BY <1>1, <1>2 DEF DueBy, IsQueueWithout, IsCut
  <1>6. /\ \A b : OfAddress(queue, b) \in SUBSET DOMAIN queue
        /\ \A t : DueBy(queue, t) \in SUBSET DOMAIN queue
        /\ \A b : b # a => OfAddress(queue, b) \cap OfAddress(queue, a) = {}
    BY DEF OfAddress, DueBy
  <1>7. AmountOf(queue, OfAddress(queue, a)) = AmountOf(new, OfAddress(new, a)) + sum
    <2>1. AmountOf(queue, OfAddress(queue, a)) = AmountOf(left, OfAddress(queue, a)) + sum
      BY <1>6, CutAmounts
    <2>2. QED
      BY <1>3, <1>4, <1>6, <2>1
  <1>8. ASSUME NEW b, b # a
        PROVE  AmountOf(new, OfAddress(new, b)) = AmountOf(queue, OfAddress(queue, b))
    <2>1. AmountOf(left, OfAddress(queue, b)) = AmountOf(queue, OfAddress(queue, b))
      BY <1>6, <1>8, CutAmounts
    <2>2. QED
      BY <1>3, <1>4, <1>6, <2>1
  <1>9. ASSUME NEW t PROVE AmountOf(new, DueBy(new, t)) <= AmountOf(queue, DueBy(queue, t))
    <2>1. AmountOf(left, DueBy(queue, t)) <= AmountOf(queue, DueBy(queue, t))
      BY <1>6, CutAmounts
    <2>2. QED
      BY <1>3, <1>5, <1>6, <2>1
  <1>10. /\ GoodQueue(new)
         /\ \A n \in DOMAIN new : n \in DOMAIN queue /\ new[n].address = queue[n].address
    BY <1>1, <1>2 DEF IsQueueWithout, IsCut
  <1>11. QED
    BY <1>7, <1>8, <1>9, <1>10 DEF Shrinks

\* A payout takes its amount out of the withdraws of a provider when they have enough.
LEMMA PayoutShrinks ==
  ASSUME NEW queue, GoodQueue(queue), NEW a, NEW skip \in Nat, NEW amount \in Nat,
         skip + amount <= AmountOf(queue, OfAddress(queue, a))
  PROVE  Shrinks(queue, WithdrawsAfterPayout(queue, a, skip, amount), a, amount)
  <1> DEFINE S == OfAddress(queue, a)
             taken == Taken(queue, S, skip, amount)
             left == [n \in DOMAIN queue |->
                        IF n \in S THEN [queue[n] EXCEPT !.amount = queue[n].amount - taken[n]]
                        ELSE queue[n]]
             Z == {n \in S : left[n].amount = 0}
             new == WithdrawsAfterPayout(queue, a, skip, amount)
  <1>1. S = OfProvider(queue, a) /\ S \in SUBSET DOMAIN queue
    BY DEF OfAddress, OfProvider
  <1>2. new = StoreDelete(left, Z)
    <2>1. \A n \in S : taken[n] = TakenFrom(AmountLater(queue, S, n), queue[n].amount, skip, amount)
      BY DEF Taken
    <2> HIDE DEF S
    <2>2. left = [n \in DOMAIN queue |->
                    IF n \in S
                    THEN [queue[n] EXCEPT !.amount = queue[n].amount -
                            TakenFrom(AmountLater(queue, S, n), queue[n].amount, skip, amount)]
                    ELSE queue[n]]
      BY <2>1
    <2>3. QED
      BY <1>1, <2>2 DEF WithdrawsAfterPayout
  <1>3. /\ \A n \in S : taken[n] \in 0..queue[n].amount
        /\ SumOver(taken, S) = Clip(AmountOf(queue, S), skip, amount)
    BY <1>1, TakenSum
  <1>4. Clip(AmountOf(queue, S), skip, amount) = amount
    <2>1. PICK u \in Nat : u = AmountOf(queue, S) /\ skip + amount <= u
      BY <1>1, AmountNat
    <2>2. Clip(u, skip, amount) = amount
      BY <2>1, TakenIsClip
    <2>3. QED
      BY <2>1, <2>2
  <1>5. IsCut(queue, left, S, taken)
    <2> HIDE DEF taken, S
    <2>1. \A n \in DOMAIN queue : /\ queue[n] \in Withdraw /\ queue[n].amount \in Nat
      BY DEF GoodQueue, IsStore, Withdraw
    <2>2. ASSUME NEW n \in S
          PROVE  /\ left[n] \in Withdraw /\ left[n].address = queue[n].address
                 /\ left[n].completionTime = queue[n].completionTime
                 /\ taken[n] \in Nat /\ queue[n].amount = left[n].amount + taken[n]
      <3>1. PICK k \in Nat : k = queue[n].amount - taken[n] /\ taken[n] \in Nat
        BY <1>1, <1>3, <2>1
      <3>2. left[n] = [queue[n] EXCEPT !.amount = k]
        BY <1>1, <3>1
      <3>3. n \in DOMAIN queue
        BY <1>1
      <3>4. QED
        BY <2>1, <3>1, <3>2, <3>3 DEF Withdraw
    <2>3. \A n \in DOMAIN queue \ S : left[n] = queue[n]
      OBVIOUS
    <2>4. DOMAIN left = DOMAIN queue /\ left = [n \in DOMAIN left |-> left[n]]
      OBVIOUS
    <2> HIDE DEF left
    <2>5. GoodQueue(left)
      BY <2>1, <2>2, <2>3, <2>4 DEF GoodQueue, IsStore
    <2>6. QED
      BY <1>1, <2>2, <2>3, <2>4, <2>5 DEF IsCut
  <1>6. Z \in SUBSET DOMAIN queue /\ \A n \in Z : left[n].amount = 0
    BY <1>1
  <1> HIDE DEF S, taken, left, Z, new
  <1>7. Shrinks(queue, new, a, amount)
    BY <1>2, <1>3, <1>4, <1>5, <1>6, CutShrinks DEF S
  <1>8. QED
    BY <1>7 DEF new

-----------------------------------------------------------------------------
(* DelayWithdraws moves withdraws of a provider to the end of the lock.    *)

DelayStep(q, n, p) == Postpone(q, n, p[1], p[2])

DelayLast(S, p) == Earliest(p[1], S)

Delaying == INSTANCE Loops WITH Step <- DelayStep, Last <- DelayLast

\* DelayWithdraws is the loop over the withdraws that are put off.
LEMMA DelayIsLoop ==
  ASSUME NEW queue, NEW a, NEW amount, NEW endTime
  PROVE  DelayWithdraws(queue, a, amount, endTime)
           = Delaying!Loop(Delayed(queue, a, amount, endTime), queue, <<queue, endTime>>)
  BY DEF DelayWithdraws, MapThenFoldSet, Delaying!Loop, Delaying!IsRun, DelayStep, DelayLast

\* The number of elements is a size of the subsets of a finite set.
LEMMA FiniteHasSizes ==
  ASSUME NEW S, IsFiniteSet(S)
  PROVE  \E size : Delaying!HasSizes(S, size)
  <1> DEFINE size == [s \in SUBSET S |-> Cardinality(s)]
  <1>1. \A s \in SUBSET S : IsFiniteSet(s) /\ Cardinality(s) \in Nat
    BY FS_Subset, FS_CardinalityType
  <1>2. \A s \in SUBSET S : Cardinality(s) <= Cardinality(S)
    BY FS_Subset
  <1>3. ASSUME NEW s \in SUBSET S, NEW x \in s PROVE size[s \ {x}] < size[s]
    <2>1. Cardinality(s \ {x}) = Cardinality(s) - 1
      BY <1>1, FS_RemoveElement
    <2>2. s \ {x} \in SUBSET S
      OBVIOUS
    <2>3. QED
      BY <1>1, <2>1, <2>2
  <1>4. Delaying!HasSizes(S, size)
    BY <1>1, <1>2, <1>3 DEF Delaying!HasSizes
  <1>5. QED
    BY <1>4

\* A queue that has grown loses a withdraw it had before.
LEMMA GrowsWithout ==
  ASSUME NEW q, NEW h, NEW a, NEW sum, NEW time, Grows(q, h, a, sum, time),
         NEW x \in DOMAIN q, NEW r, DOMAIN r = DOMAIN q \ {x}, \A n \in DOMAIN r : r[n] = q[n],
         NEW k, k = StoreDelete(h, {x})
  PROVE  Grows(r, k, a, sum, time)
  <1>1. /\ GoodQueue(h) /\ DOMAIN q \subseteq DOMAIN h
        /\ \A n \in DOMAIN q : h[n] = q[n]
        /\ \A n \in DOMAIN h \ DOMAIN q : h[n].address = a /\ h[n].completionTime = time
        /\ AmountOf(h, DOMAIN h \ DOMAIN q) = sum
    BY DEF Grows
  <1>2. {x} \in SUBSET DOMAIN h
    BY <1>1
  <1>3. IsQueueWithout(h, k, {x})
    BY <1>1, <1>2, QueueDelete
  <1>4. GoodQueue(k) /\ DOMAIN k = DOMAIN h \ {x} /\ \A n \in DOMAIN k : k[n] = h[n]
    BY <1>3 DEF IsQueueWithout
  <1>5. DOMAIN k \ DOMAIN r = DOMAIN h \ DOMAIN q
    BY <1>1, <1>4
  <1>6. IsFiniteSet(DOMAIN h \ DOMAIN q)
    <2>1. DOMAIN h \ DOMAIN q \in SUBSET DOMAIN h
      OBVIOUS
    <2>2. QED
      BY <1>1, <2>1, AmountNat
  <1>7. AmountOf(k, DOMAIN h \ DOMAIN q) = AmountOf(h, DOMAIN h \ DOMAIN q)
    <2>1. \A n \in DOMAIN h \ DOMAIN q : k[n] = h[n]
      BY <1>4
    <2>2. QED
      BY <1>6, <2>1, AmountEqual
  <1>8. QED
    BY <1>1, <1>4, <1>5, <1>7 DEF Grows

\* The withdraws of s leave the queue and come back with the time endTime.
Moved(queue, new, s, a, endTime) ==
  Grows(StoreDelete(queue, s), new, a, AmountOf(queue, s), endTime)

\* Nothing is moved.
LEMMA MovedNone ==
  ASSUME NEW queue, GoodQueue(queue), NEW a, NEW endTime
  PROVE  Moved(queue, queue, {}, a, endTime)
  <1>1. IsQueueWithout(queue, StoreDelete(queue, {}), {})
    BY QueueDelete
  <1>2. /\ DOMAIN StoreDelete(queue, {}) = DOMAIN queue
        /\ \A n \in DOMAIN queue : StoreDelete(queue, {})[n] = queue[n]
    BY <1>1 DEF IsQueueWithout
  <1>3. DOMAIN queue \ DOMAIN StoreDelete(queue, {}) = {}
    BY <1>2
  <1>4. AmountOf(queue, {}) = AmountOf(queue, DOMAIN queue \ DOMAIN StoreDelete(queue, {}))
    BY <1>3
  <1>5. QED
    BY <1>2, <1>3, <1>4 DEF Moved, Grows

\* One more withdraw of the account a is moved.
LEMMA MovedOne ==
  ASSUME NEW queue, GoodQueue(queue), NEW a, NEW endTime \in Nat,
         NEW s \in SUBSET OfAddress(queue, a), NEW x \in s, NEW h,
         Moved(queue, h, s \ {x}, a, endTime)
  PROVE  Moved(queue, Postpone(h, x, queue, endTime), s, a, endTime)
  <1> DEFINE r == s \ {x}
             q == StoreDelete(queue, r)
             p == StoreDelete(queue, s)
             k == StoreDelete(h, {x})
             w == [queue[x] EXCEPT !.completionTime = endTime]
             new == InsertWithdrawQueue(k, w)
  <1>1. s \in SUBSET DOMAIN queue /\ r \in SUBSET DOMAIN queue /\ x \in DOMAIN queue
    BY DEF OfAddress
  <1>2. IsQueueWithout(queue, q, r) /\ IsQueueWithout(queue, p, s)
    BY <1>1, QueueDelete
  <1>3. /\ DOMAIN q = DOMAIN queue \ r /\ DOMAIN p = DOMAIN queue \ s
        /\ \A n \in DOMAIN q : q[n] = queue[n]
        /\ \A n \in DOMAIN p : p[n] = queue[n]
        /\ GoodQueue(p)
    BY <1>2 DEF IsQueueWithout
  <1>4. x \in DOMAIN q /\ DOMAIN p = DOMAIN q \ {x} /\ \A n \in DOMAIN p : p[n] = q[n]
    BY <1>1, <1>3
  <1>5. Grows(q, h, a, AmountOf(queue, r), endTime)
    BY DEF Moved
  <1>6. w \in Withdraw /\ w.address = a /\ w.amount = queue[x].amount /\ w.completionTime = endTime
    <2>1. queue[x] \in Withdraw /\ queue[x].address = a
      BY <1>1 DEF GoodQueue, IsStore, OfAddress
    <2>2. QED
      BY <2>1 DEF Withdraw
  <1>7. Postpone(h, x, queue, endTime) = new
    BY DEF Postpone
  <1>8. AmountOf(queue, r) \in Nat /\ queue[x].amount \in Nat
        /\ AmountOf(queue, s) = AmountOf(queue, r) + queue[x].amount
    <2>1. AmountOf(queue, s) = AmountOf(queue, {x}) + AmountOf(queue, s \ {x})
      BY <1>1, AmountPart
    <2>2. AmountOf(queue, {x}) = queue[x].amount /\ queue[x].amount \in Nat
      BY <1>1, AmountOne
    <2>3. AmountOf(queue, s \ {x}) \in Nat
      BY <1>1, AmountNat
    <2>4. QED
      BY <2>1, <2>2, <2>3
  <1> HIDE DEF q, p, r, w
  <1>9. Grows(p, k, a, AmountOf(queue, r), endTime)
    BY <1>4, <1>5, GrowsWithout
  <1>10. GoodQueue(k)
    BY <1>9 DEF Grows
  <1>11. Grows(k, new, a, queue[x].amount, endTime)
    BY <1>6, <1>10, GrowsByInsert
  <1> HIDE DEF k, new
  <1>12. PICK u \in Nat, v \in Nat : u = AmountOf(queue, r) /\ v = queue[x].amount
    BY <1>8
  <1>13. Grows(p, new, a, u + v, endTime)
    BY <1>3, <1>9, <1>11, <1>12, GrowsGrows
  <1>14. QED
    BY <1>7, <1>8, <1>12, <1>13 DEF Moved, p

\* DelayWithdraws moves the withdraws that are to be put off.
LEMMA DelayMoves ==
  ASSUME NEW queue, GoodQueue(queue), NEW a, NEW amount, NEW endTime \in Nat
  PROVE  /\ Delayed(queue, a, amount, endTime) \in SUBSET OfAddress(queue, a)
         /\ Moved(queue, DelayWithdraws(queue, a, amount, endTime),
                  Delayed(queue, a, amount, endTime), a, endTime)
  <1> DEFINE S == Delayed(queue, a, amount, endTime)
             p == <<queue, endTime>>
  <1>1. S \in SUBSET OfAddress(queue, a) /\ S \in SUBSET DOMAIN queue
    BY DEF Delayed, OfProvider, OfAddress
  <1>2. IsFiniteSet(S)
    BY <1>1, AmountNat
  <1>3. \A s \in SUBSET S : s # {} => DelayLast(s, p) \in s
    <2>1. p[1] = queue
      OBVIOUS
    <2> HIDE DEF p, S
    <2>2. QED
      BY <1>1, <2>1, EarliestIsLast DEF DelayLast
  <1> HIDE DEF S
  <1>4. PICK g : /\ g[S] = Delaying!Loop(S, queue, p)
                 /\ g[{}] = queue
                 /\ \A s \in SUBSET S : s # {} =>
                      /\ DelayLast(s, p) \in s
                      /\ g[s] = DelayStep(g[s \ {DelayLast(s, p)}], DelayLast(s, p), p)
    <2> HIDE DEF p
    <2>1. \E size : Delaying!HasSizes(S, size)
      BY <1>2, FiniteHasSizes
    <2>2. \E g : Delaying!Runs(g, S, queue, p)
      BY <1>3, <2>1, Delaying!LoopRuns, Zenon
    <2>3. QED
      BY <2>2 DEF Delaying!Runs
  <1> DEFINE T == {s \in SUBSET S : Moved(queue, g[s], s, a, endTime)}
  <1>5. ASSUME NEW s \in SUBSET S, \A t \in SUBSET s : t # s => t \in T
        PROVE  s \in T
    <2>1. CASE s = {}
      BY <1>4, <2>1, MovedNone
    <2>2. CASE s # {}
      <3>1. PICK x : x = DelayLast(s, p)
        OBVIOUS
      <3>2. x \in s /\ g[s] = DelayStep(g[s \ {x}], x, p)
        BY <1>4, <2>2, <3>1
      <3>3. g[s] = Postpone(g[s \ {x}], x, queue, endTime)
        BY <3>2 DEF DelayStep
      <3>4. Moved(queue, g[s \ {x}], s \ {x}, a, endTime)
        BY <1>5, <3>2
      <3>5. s \in SUBSET OfAddress(queue, a)
        BY <1>1
      <3>6. Moved(queue, g[s], s, a, endTime)
        BY <3>2, <3>3, <3>4, <3>5, MovedOne
      <3>7. QED
        BY <3>6
    <2>3. QED
      BY <2>1, <2>2
  <1>6. S \in T
    <2> HIDE DEF T
    <2>1. SUBSET S \subseteq T
      BY <1>2, <1>5, SubsetInduction
    <2>2. QED
      BY <2>1
  <1>7. QED
    BY <1>1, <1>4, <1>6, DelayIsLoop DEF S

\* The withdraws of an account that complete by a time.
DueOf(queue, b, t) == {n \in DOMAIN queue : queue[n].address = b /\ queue[n].completionTime <= t}

\* What N holds in new: what is left of R, and what has been moved if it is all there.
HoldsMoved(queue, new, q, s, R, N) ==
  /\ N \subseteq DOMAIN q => AmountOf(new, N) = AmountOf(queue, R \ s)
  /\ DOMAIN new \ DOMAIN q \subseteq N /\ s \subseteq R => AmountOf(new, N) = AmountOf(queue, R)
  /\ AmountOf(queue, R \ s) <= AmountOf(queue, R)

\* The queue new has what is left of R in queue, and all the withdraws that were moved, or
\* none of them.
LEMMA MovedAmounts ==
  ASSUME NEW queue, GoodQueue(queue), NEW a, NEW time, NEW s \in SUBSET DOMAIN queue,
         NEW new, Moved(queue, new, s, a, time), NEW R \in SUBSET DOMAIN queue,
         NEW N \in SUBSET DOMAIN new, NEW q, q = StoreDelete(queue, s),
         N \cap DOMAIN q = R \ s
  PROVE  HoldsMoved(queue, new, q, s, R, N)
  <1>1. IsQueueWithout(queue, q, s)
    BY QueueDelete
  <1>2. DOMAIN q = DOMAIN queue \ s /\ \A n \in DOMAIN q : q[n] = queue[n]
    BY <1>1 DEF IsQueueWithout
  <1>3. /\ GoodQueue(new) /\ DOMAIN q \subseteq DOMAIN new /\ \A n \in DOMAIN q : new[n] = q[n]
        /\ AmountOf(new, DOMAIN new \ DOMAIN q) = AmountOf(queue, s)
    BY DEF Moved, Grows
  <1>4. AmountOf(new, R \ s) = AmountOf(queue, R \ s)
    <2>1. R \ s \in SUBSET DOMAIN queue /\ \A n \in R \ s : new[n] = queue[n]
      BY <1>2, <1>3
    <2>2. IsFiniteSet(R \ s)
      BY <2>1, AmountNat
    <2>3. QED
      BY <2>1, <2>2, AmountEqual
  <1>5. ASSUME N \subseteq DOMAIN q PROVE AmountOf(new, N) = AmountOf(queue, R \ s)
    <2>1. N = R \ s
      BY <1>5
    <2>2. QED
      BY <1>4, <2>1
  <1>6. ASSUME DOMAIN new \ DOMAIN q \subseteq N, s \subseteq R
        PROVE  AmountOf(new, N) = AmountOf(queue, R)
    <2>1. /\ N = (R \ s) \cup (DOMAIN new \ DOMAIN q) /\ (R \ s) \cap (DOMAIN new \ DOMAIN q) = {}
          /\ R \ s \in SUBSET DOMAIN new /\ DOMAIN new \ DOMAIN q \in SUBSET DOMAIN new
      BY <1>2, <1>3, <1>6
    <2>2. AmountOf(new, (R \ s) \cup (DOMAIN new \ DOMAIN q))
            = AmountOf(new, R \ s) + AmountOf(new, DOMAIN new \ DOMAIN q)
      BY <1>3, <2>1, AmountUnion
    <2>3. AmountOf(queue, R) = AmountOf(queue, s) + AmountOf(queue, R \ s)
      BY <1>6, AmountPart
    <2>4. AmountOf(queue, s) \in Nat /\ AmountOf(queue, R \ s) \in Nat
      BY <1>6, AmountPart
    <2>5. AmountOf(new, N) = AmountOf(queue, R \ s) + AmountOf(queue, s)
      BY <1>3, <1>4, <2>1, <2>2
    <2>6. QED
      BY <2>3, <2>4, <2>5
  <1>7. AmountOf(queue, R \ s) <= AmountOf(queue, R)
    <2>1. R \ s \in SUBSET R
      OBVIOUS
    <2>2. QED
      BY <2>1, AmountPart
  <1>8. QED
    BY <1>5, <1>6, <1>7 DEF HoldsMoved

\* Withdraws of the account a are put off to a time: every account has as much queued as
\* before, and no more of it completes by any time; before that time, of a only what was
\* not put off.
Postponed(queue, new, s, a, time) ==
  /\ GoodQueue(new)
  /\ \A n \in DOMAIN new : \/ new[n].address = a
                           \/ n \in DOMAIN queue /\ new[n].address = queue[n].address
  /\ \A b : AmountOf(new, OfAddress(new, b)) = AmountOf(queue, OfAddress(queue, b))
  /\ \A t \in Nat : AmountOf(new, DueBy(new, t)) <= AmountOf(queue, DueBy(queue, t))
  /\ \A b : \A t \in Nat : AmountOf(new, DueOf(new, b, t)) <= AmountOf(queue, DueOf(queue, b, t))
  /\ \A t \in Nat : t < time =>
       AmountOf(new, DueOf(new, a, t)) = AmountOf(queue, DueOf(queue, a, t) \ s)

\* Moving withdraws that complete earlier puts them off.
LEMMA MovedPostpones ==
  ASSUME NEW queue, GoodQueue(queue), NEW a, NEW time \in Nat, NEW s \in SUBSET DueOf(queue, a, time),
         NEW new, Moved(queue, new, s, a, time)
  PROVE  Postponed(queue, new, s, a, time)
  <1> DEFINE q == StoreDelete(queue, s)
             F == DOMAIN new \ DOMAIN q
  <1>1. s \in SUBSET DOMAIN queue
    BY DEF DueOf
  <1>2. IsQueueWithout(queue, q, s)
    BY <1>1, QueueDelete
  <1>3. DOMAIN q = DOMAIN queue \ s /\ \A n \in DOMAIN q : q[n] = queue[n]
    BY <1>2 DEF IsQueueWithout
  <1>4. /\ GoodQueue(new) /\ DOMAIN q \subseteq DOMAIN new /\ \A n \in DOMAIN q : new[n] = queue[n]
        /\ \A n \in F : new[n].address = a /\ new[n].completionTime = time
    BY <1>3 DEF Moved, Grows
  <1>5. \A n \in s : n \in DOMAIN queue /\ queue[n].address = a /\ queue[n].completionTime <= time
    BY DEF DueOf
  <1>6. /\ \A n \in DOMAIN queue : queue[n].completionTime \in Nat
        /\ \A n \in DOMAIN new : new[n].completionTime \in Nat
    BY <1>4 DEF GoodQueue, IsStore, Withdraw
  <1> HIDE DEF q
  <1>7. /\ \A b : OfAddress(new, b) \in SUBSET DOMAIN new /\ OfAddress(queue, b) \in SUBSET DOMAIN queue
        /\ \A b : OfAddress(new, b) \cap DOMAIN q = OfAddress(queue, b) \ s
        /\ F \subseteq OfAddress(new, a) /\ s \subseteq OfAddress(queue, a)
        /\ \A b : b # a => OfAddress(new, b) \subseteq DOMAIN q /\ OfAddress(queue, b) \ s = OfAddress(queue, b)
    BY <1>3, <1>4, <1>5 DEF OfAddress
  <1>8. /\ \A t : DueBy(new, t) \in SUBSET DOMAIN new /\ DueBy(queue, t) \in SUBSET DOMAIN queue
        /\ \A t : DueBy(new, t) \cap DOMAIN q = DueBy(queue, t) \ s
        /\ \A t \in Nat : t < time => DueBy(new, t) \subseteq DOMAIN q
        /\ \A t \in Nat : time <= t => F \subseteq DueBy(new, t) /\ s \subseteq DueBy(queue, t)
    BY <1>3, <1>4, <1>5, <1>6 DEF DueBy
  <1>9. /\ \A b, t : DueOf(new, b, t) \in SUBSET DOMAIN new /\ DueOf(queue, b, t) \in SUBSET DOMAIN queue
        /\ \A b, t : DueOf(new, b, t) \cap DOMAIN q = DueOf(queue, b, t) \ s
        /\ \A t \in Nat : t < time => DueOf(new, a, t) \subseteq DOMAIN q
        /\ \A t \in Nat : time <= t => F \subseteq DueOf(new, a, t) /\ s \subseteq DueOf(queue, a, t)
        /\ \A b, t : b # a => DueOf(new, b, t) \subseteq DOMAIN q
    BY <1>3, <1>4, <1>5, <1>6 DEF DueOf
  <1>10. ASSUME NEW R \in SUBSET DOMAIN queue, NEW N \in SUBSET DOMAIN new, N \cap DOMAIN q = R \ s
         PROVE  /\ N \subseteq DOMAIN q => AmountOf(new, N) = AmountOf(queue, R \ s)
                /\ F \subseteq N /\ s \subseteq R => AmountOf(new, N) = AmountOf(queue, R)
                /\ AmountOf(queue, R \ s) <= AmountOf(queue, R)
                /\ AmountOf(queue, R) \in Nat
    <2>1. q = StoreDelete(queue, s)
      BY DEF q
    <2>2. HoldsMoved(queue, new, q, s, R, N)
      BY <1>1, <1>10, <2>1, MovedAmounts, Zenon
    <2>3. AmountOf(queue, R) \in Nat
      BY AmountNat
    <2>4. QED
      BY <2>2, <2>3 DEF HoldsMoved
  <1> HIDE DEF F
  <1>11. ASSUME NEW b PROVE AmountOf(new, OfAddress(new, b)) = AmountOf(queue, OfAddress(queue, b))
    <2>1. PICK R, N : R = OfAddress(queue, b) /\ N = OfAddress(new, b)
      OBVIOUS
    <2>2. R \in SUBSET DOMAIN queue /\ N \in SUBSET DOMAIN new /\ N \cap DOMAIN q = R \ s
      BY <1>7, <2>1
    <2>3. CASE b = a
      <3>1. F \subseteq N /\ s \subseteq R
        BY <1>7, <2>1, <2>3
      <3>2. QED
        BY <1>10, <2>1, <2>2, <3>1
    <2>4. CASE b # a
      <3>1. N \subseteq DOMAIN q /\ R \ s = R
        BY <1>7, <2>1, <2>4
      <3>2. AmountOf(new, N) = AmountOf(queue, R \ s)
        BY <1>10, <2>2, <3>1
      <3>3. QED
        BY <2>1, <3>1, <3>2
    <2>5. QED
      BY <2>3, <2>4
  <1>12. ASSUME NEW t \in Nat PROVE AmountOf(new, DueBy(new, t)) <= AmountOf(queue, DueBy(queue, t))
    <2>1. PICK R, N : R = DueBy(queue, t) /\ N = DueBy(new, t)
      OBVIOUS
    <2>2. R \in SUBSET DOMAIN queue /\ N \in SUBSET DOMAIN new /\ N \cap DOMAIN q = R \ s
      BY <1>8, <2>1
    <2>3. N \subseteq DOMAIN q \/ (F \subseteq N /\ s \subseteq R)
      BY <1>8, <2>1
    <2>4. AmountOf(new, N) = AmountOf(queue, R \ s) \/ AmountOf(new, N) = AmountOf(queue, R)
      BY <1>10, <2>2, <2>3
    <2>5. AmountOf(queue, R \ s) <= AmountOf(queue, R) /\ AmountOf(queue, R) \in Nat
      BY <1>10, <2>2
    <2>6. QED
      BY <2>1, <2>4, <2>5
  <1>13. ASSUME NEW t \in Nat, t < time
         PROVE  AmountOf(new, DueOf(new, a, t)) = AmountOf(queue, DueOf(queue, a, t) \ s)
    <2>1. PICK R, N : R = DueOf(queue, a, t) /\ N = DueOf(new, a, t)
      OBVIOUS
    <2>2. R \in SUBSET DOMAIN queue /\ N \in SUBSET DOMAIN new /\ N \cap DOMAIN q = R \ s
      BY <1>9, <2>1
    <2>3. N \subseteq DOMAIN q
      BY <1>9, <1>13, <2>1
    <2>4. AmountOf(new, N) = AmountOf(queue, R \ s)
      BY <1>10, <2>2, <2>3
    <2>5. QED
      BY <2>1, <2>4
  <1>14. ASSUME NEW b, NEW t \in Nat
         PROVE  AmountOf(new, DueOf(new, b, t)) <= AmountOf(queue, DueOf(queue, b, t))
    <2>1. PICK R, N : R = DueOf(queue, b, t) /\ N = DueOf(new, b, t)
      OBVIOUS
    <2>2. R \in SUBSET DOMAIN queue /\ N \in SUBSET DOMAIN new /\ N \cap DOMAIN q = R \ s
      BY <1>9, <2>1
    <2>3. N \subseteq DOMAIN q \/ (F \subseteq N /\ s \subseteq R)
      BY <1>9, <2>1
    <2>4. AmountOf(new, N) = AmountOf(queue, R \ s) \/ AmountOf(new, N) = AmountOf(queue, R)
      BY <1>10, <2>2, <2>3
    <2>5. AmountOf(queue, R \ s) <= AmountOf(queue, R) /\ AmountOf(queue, R) \in Nat
      BY <1>10, <2>2
    <2>6. QED
      BY <2>1, <2>4, <2>5
  <1>15. \A n \in DOMAIN new : \/ new[n].address = a
                               \/ n \in DOMAIN queue /\ new[n].address = queue[n].address
    BY <1>3, <1>4 DEF F
  <1>16. QED
    BY <1>4, <1>11, <1>12, <1>13, <1>14, <1>15 DEF Postponed

\* DelayWithdraws puts the withdraws off to the end of the lock.
LEMMA DelayPostpones ==
  ASSUME NEW queue, GoodQueue(queue), NEW a, NEW amount, NEW endTime \in Nat
  PROVE  /\ Delayed(queue, a, amount, endTime) \in SUBSET DueOf(queue, a, endTime)
         /\ Postponed(queue, DelayWithdraws(queue, a, amount, endTime),
                      Delayed(queue, a, amount, endTime), a, endTime)
  <1>1. Delayed(queue, a, amount, endTime) \in SUBSET DueOf(queue, a, endTime)
    BY DEF Delayed, DueOf, OfProvider
  <1>2. QED
    BY <1>1, DelayMoves, MovedPostpones

-----------------------------------------------------------------------------
(* SecureCollaterals.                                                      *)

\* The part of the collateral that is claimed.
ClaimRatio(total) == QuoDec(Dec(total), Dec(totalCollateral))

\* What a provider secures is within what is left to secure, and at least its share unless
\* that is all.
LEMMA SecureAmountBounds ==
  ASSUME NEW a, providers[a].collateral \in Nat, NEW total \in Nat, total <= totalCollateral,
         totalCollateral \in Nat, totalCollateral > 0, NEW remaining \in Nat
  PROVE  /\ SecureAmount(a, total, remaining) \in Nat
         /\ SecureAmount(a, total, remaining) <= remaining
         /\ SecureAmount(a, total, remaining) < remaining =>
              providers[a].collateral * ClaimRatio(total) <= SecureAmount(a, total, remaining) * Precision
  <1>1. PICK c \in Nat, p \in Nat, q \in Nat :
          c = providers[a].collateral /\ p = Precision /\ p > 0 /\ q = ClaimRatio(total) /\ q <= p
    BY PrecisionAssumption, QuoDecAtMostOne DEF ClaimRatio
  <1>2. PICK k \in Nat : k = c * q
    OBVIOUS
  <1>3. PICK x \in Nat : x = TruncateInt(k) /\ k < (x + 1) * p
    BY <1>1, TruncateAbove
  <1>4. PICK share \in Nat : share = MinInt(x, remaining)
    BY MinIntNat
  <1>5. SecureAmount(a, total, remaining)
          = IF share < remaining /\ share < c THEN share + 1 ELSE share
    BY <1>1, <1>2, <1>3, <1>4, MulDecExact DEF SecureAmount, ClaimRatio
  <1>6. share <= remaining /\ (share < remaining => share = x)
    BY <1>4 DEF MinInt
  <1>7. PICK amount \in Nat : amount = SecureAmount(a, total, remaining)
    BY <1>5
  <1>8. ASSUME amount < remaining PROVE k <= amount * p
    <2>1. share < remaining /\ share = x
      BY <1>5, <1>6, <1>7, <1>8
    <2>2. CASE share < c
      <3>1. amount = x + 1
        BY <1>5, <1>7, <2>1, <2>2
      <3>2. PICK y \in Nat : y = (x + 1) * p
        OBVIOUS
      <3>3. QED
        BY <1>3, <3>1, <3>2
    <2>3. CASE c <= share
      <3>1. amount = share
        BY <1>5, <1>7, <2>3
      <3>2. c * q <= c * p
        <4>1. q * c <= p * c
          BY <1>1, TimesOrder
        <4>2. QED
          BY <4>1
      <3>3. c * p <= amount * p
        BY <2>3, <3>1, TimesOrder
      <3>4. PICK u \in Nat, v \in Nat : u = c * p /\ v = amount * p
        OBVIOUS
      <3>5. QED
        BY <1>2, <3>2, <3>3, <3>4
    <2>4. QED
      BY <2>2, <2>3
  <1>9. amount <= remaining
    BY <1>5, <1>6, <1>7
  <1>10. QED
    BY <1>1, <1>2, <1>7, <1>8, <1>9

\* The state of the loop.
IsSecuring(s) == DOMAIN s = {"remaining", "withdraws", "unbonding", "panic"}

\* What SecureFromProvider does when it does not panic.
LEMMA SecureEffect ==
  ASSUME NEW s, IsSecuring(s), NEW a, NEW total,
         NEW amount, amount = SecureAmount(a, total, s.remaining),
         NEW new, new = SecureFromProvider(s, a, total)
  PROVE  /\ IsSecuring(new) /\ new.remaining = s.remaining - amount
         /\ \/ /\ new.withdraws = s.withdraws
               /\ new.panic \/ SecuredAlready(a, amount)
                    \/ amount <= CollateralAt(s.withdraws, a, now + LockPeriod)
            \/ /\ new.withdraws = DelayWithdraws(s.withdraws, a,
                    amount - CollateralAt(s.withdraws, a, now + LockPeriod), now + LockPeriod)
               /\ new.panic \/ ~ (amount > providers[a].collateral)
         /\ s.panic => new.panic
  <1> DEFINE endTime == now + LockPeriod
             collateral == CollateralAt(s.withdraws, a, endTime)
             stake == DelegationAt(a, endTime)
             delayed == DelayUnbonding(unbonding[a], amount - stake, endTime)
             queue == DelayWithdraws(s.withdraws, a, amount - collateral, endTime)
             secured == [s EXCEPT !.remaining = @ - amount]
             bad == \/ s.panic
                    \/ collateral > stake
                    \/ amount > providers[a].collateral
                    \/ delayed.panic \/ delayed.remaining > 0
  <1>1. /\ IsSecuring(secured) /\ secured.remaining = s.remaining - amount
        /\ secured.withdraws = s.withdraws /\ secured.panic = s.panic
    BY DEF IsSecuring
  <1>2. CASE SecuredAlready(a, amount)
    <2>1. new = secured
      BY <1>2 DEF SecureFromProvider
    <2>2. QED
      BY <1>1, <1>2, <2>1
  <1>3. CASE ~ SecuredAlready(a, amount) /\ amount <= collateral
    <2>1. new = [secured EXCEPT !.panic = secured.panic \/ collateral > stake]
      BY <1>3 DEF SecureFromProvider
    <2> HIDE DEF secured, collateral, stake
    <2>2. /\ IsSecuring(new) /\ new.remaining = secured.remaining
          /\ new.withdraws = secured.withdraws /\ new.panic = (secured.panic \/ collateral > stake)
      BY <1>1, <2>1 DEF IsSecuring
    <2>3. s.panic => new.panic
      BY <1>1, <2>2
    <2>4. QED
      BY <1>1, <1>3, <2>2, <2>3 DEF collateral
  <1>4. CASE ~ SecuredAlready(a, amount) /\ ~ (amount <= collateral)
    <2>1. new = [secured EXCEPT
                   !.withdraws = DelayWithdraws(secured.withdraws, a, amount - collateral, endTime),
                   !.unbonding[a] = delayed.entries,
                   !.panic = \/ secured.panic
                             \/ collateral > stake
                             \/ amount > providers[a].collateral
                             \/ delayed.panic \/ delayed.remaining > 0]
      BY <1>4 DEF SecureFromProvider
    <2> HIDE DEF secured, collateral, stake, delayed
    <2>2. /\ IsSecuring(new) /\ new.remaining = secured.remaining
          /\ new.withdraws = queue /\ new.panic = bad
      BY <1>1, <2>1 DEF IsSecuring
    <2>3. s.panic => new.panic
      BY <2>2
    <2>4. new.panic \/ ~ (amount > providers[a].collateral)
      BY <2>2
    <2>5. QED
      BY <1>1, <2>2, <2>3, <2>4 DEF collateral
  <1>5. QED
    BY <1>2, <1>3, <1>4

\* One withdraw of a set is later than the others.
LEMMA LatestExists ==
  ASSUME NEW queue, GoodQueue(queue), NEW S \in SUBSET DOMAIN queue, S # {}
  PROVE  \E x \in S : \A m \in S \ {x} : Later(queue, x, m)
  <1> DEFINE Times == {queue[n].completionTime : n \in S}
  <1>1. /\ Times \subseteq Nat /\ Times # {}
        /\ S \subseteq Nat /\ \A n \in S : queue[n].completionTime \in Nat
    BY DEF GoodQueue, IsStore, Withdraw
  <1>2. IsFiniteSet(S)
    BY AmountNat
  <1>3. IsFiniteSet(Times)
    <2> DEFINE f == [n \in S |-> queue[n].completionTime]
    <2>1. f \in Surjection(S, Times)
      BY DEF Surjection
    <2> HIDE DEF f, Times
    <2>2. QED
      BY <1>2, <2>1, FS_Surjection
  <1>4. PICK t \in Times : \A u \in Times : t >= u
    <2> HIDE DEF Times
    <2> QED BY <1>1, <1>3, GreatestNat
  <1> DEFINE Top == {n \in S : queue[n].completionTime = t}
  <1>5. Top \subseteq Nat /\ Top # {}
    BY <1>1, <1>4
  <1>6. IsFiniteSet(Top)
    BY <1>2, FS_Subset
  <1>7. PICK x \in Top : \A y \in Top : x >= y
    <2> HIDE DEF Top
    <2> QED BY <1>5, <1>6, GreatestNat
  <1>8. ASSUME NEW m \in S \ {x} PROVE Later(queue, x, m)
    <2>1. queue[m].completionTime <= t /\ queue[x].completionTime = t /\ m \in Nat /\ x \in Nat
      BY <1>1, <1>4, <1>7
    <2>2. CASE queue[m].completionTime < t
      BY <1>1, <2>1, <2>2 DEF Later
    <2>3. CASE queue[m].completionTime = t
      <3>1. m \in Top /\ m # x
        BY <2>3
      <3>2. x > m
        BY <1>7, <2>1, <3>1
      <3>3. QED
        BY <2>1, <2>3, <3>2 DEF Later
    <2>4. QED
      BY <1>1, <1>4, <2>1, <2>2, <2>3
  <1>9. QED
    BY <1>7, <1>8

\* The withdraws that are put off have the amount that is asked for, or are all there are.
LEMMA DelayedEnough ==
  ASSUME NEW queue, GoodQueue(queue), NEW a, NEW amount \in Int, NEW endTime
  PROVE  \/ amount <= AmountOf(queue, Delayed(queue, a, amount, endTime))
         \/ Delayed(queue, a, amount, endTime) = DueOf(queue, a, endTime)
  <1> DEFINE C == DueOf(queue, a, endTime)
             S == Delayed(queue, a, amount, endTime)
             R == C \ S
  <1>1. /\ C \in SUBSET DOMAIN queue
        /\ C = {n \in OfProvider(queue, a) : queue[n].completionTime <= endTime}
    BY DEF DueOf, OfProvider
  <1>2. S = {n \in C : AmountLater(queue, C, n) < amount}
    BY <1>1 DEF Delayed
  <1> HIDE DEF C, S
  <1>3. CASE R = {}
    BY <1>2, <1>3 DEF C, S
  <1>4. CASE R # {}
    <2>1. R \in SUBSET DOMAIN queue
      BY <1>1
    <2>2. PICK x \in R : \A m \in R \ {x} : Later(queue, x, m)
      BY <1>4, <2>1, LatestExists
    <2> DEFINE L == {m \in C : Later(queue, m, x)}
    <2>3. L \subseteq S
      <3>1. SUFFICES ASSUME NEW m \in L, m \notin S PROVE FALSE
        OBVIOUS
      <3>2. m \in R /\ Later(queue, m, x) /\ m \in DOMAIN queue /\ x \in DOMAIN queue
        BY <1>1, <3>1
      <3>3. m # x
        BY <3>2, LaterOrder
      <3>4. Later(queue, x, m)
        BY <2>2, <3>2, <3>3
      <3>5. QED
        BY <3>2, <3>4, LaterOrder
    <2>4. S \in SUBSET DOMAIN queue
      BY <1>1, <1>2
    <2>5. AmountOf(queue, L) <= AmountOf(queue, S) /\ AmountOf(queue, L) \in Nat
      BY <2>3, <2>4, AmountPart
    <2>6. ~ (AmountOf(queue, L) < amount)
      BY <1>2, <2>2 DEF AmountLater
    <2>7. AmountOf(queue, S) \in Nat
      BY <2>4, AmountNat
    <2>8. amount <= AmountOf(queue, S)
      BY <2>5, <2>6, <2>7
    <2>9. QED
      BY <2>8 DEF S
  <1>5. QED
    BY <1>3, <1>4

\* At no time does more of the new queue complete.
NotSooner(queue, new) ==
  /\ \A t \in Nat : AmountOf(new, DueBy(new, t)) <= AmountOf(queue, DueBy(queue, t))
  /\ \A b : \A t \in Nat : AmountOf(new, DueOf(new, b, t)) <= AmountOf(queue, DueOf(queue, b, t))

\* A queue completes no sooner than itself.
LEMMA NotSoonerSame ==
  ASSUME NEW queue, GoodQueue(queue)
  PROVE  NotSooner(queue, queue)
  <1>1. \A t : DueBy(queue, t) \in SUBSET DOMAIN queue
    BY DEF DueBy
  <1>2. \A b, t : DueOf(queue, b, t) \in SUBSET DOMAIN queue
    BY DEF DueOf
  <1>3. \A S \in SUBSET DOMAIN queue : AmountOf(queue, S) <= AmountOf(queue, S)
    BY AmountNat
  <1>4. QED
    BY <1>1, <1>2, <1>3 DEF NotSooner

\* The amount secured of the account a is there until the lock ends.
Holds(queue, a, amount) ==
  \A t \in Nat : t < now + LockPeriod =>
    amount + AmountOf(queue, DueOf(queue, a, t)) <= providers[a].collateral

\* The end of the lock.
LEMMA LockEndNat ==
  ASSUME now \in Nat
  PROVE  now + LockPeriod \in Nat /\ LockPeriod = 2 * VotingPeriod /\ LockPeriod > 0
         /\ LockPeriod \in Nat
  BY ClaimsAssumption DEF LockPeriod

\* Collateral that is not being withdrawn by the end of the lock is there.
LEMMA HoldsAlready ==
  ASSUME NEW queue, GoodQueue(queue), NEW a, now \in Nat, NEW amount \in Nat,
         providers[a].collateral \in Nat,
         amount <= CollateralAt(queue, a, now + LockPeriod)
  PROVE  Holds(queue, a, amount)
  <1>1. PICK T \in Nat : T = now + LockPeriod
    BY LockEndNat
  <1>2. SUFFICES ASSUME NEW t \in Nat, t < T
                 PROVE  amount + AmountOf(queue, DueOf(queue, a, t)) <= providers[a].collateral
    BY <1>1 DEF Holds
  <1>3. DueOf(queue, a, T) = {n \in OfProvider(queue, a) : queue[n].completionTime <= T}
    BY DEF DueOf, OfProvider
  <1>4. CollateralAt(queue, a, T) = providers[a].collateral - AmountOf(queue, DueOf(queue, a, T))
    BY <1>3 DEF CollateralAt, AmountBy
  <1>5. DueOf(queue, a, t) \in SUBSET DueOf(queue, a, T) /\ DueOf(queue, a, T) \in SUBSET DOMAIN queue
    <2>1. \A n \in DOMAIN queue : queue[n].completionTime \in Nat
      BY DEF GoodQueue, IsStore, Withdraw
    <2>2. QED
      BY <1>2, <2>1 DEF DueOf
  <1>6. /\ AmountOf(queue, DueOf(queue, a, t)) \in Nat
        /\ AmountOf(queue, DueOf(queue, a, t)) <= AmountOf(queue, DueOf(queue, a, T))
    BY <1>5, AmountPart
  <1>7. AmountOf(queue, DueOf(queue, a, T)) \in Nat
    BY <1>5, AmountNat
  <1>8. PICK u \in Nat, v \in Nat : u = AmountOf(queue, DueOf(queue, a, t)) /\ v = AmountOf(queue, DueOf(queue, a, T))
    BY <1>6, <1>7
  <1>9. u <= v /\ amount <= providers[a].collateral - v
    BY <1>1, <1>4, <1>6, <1>8
  <1>10. QED
    BY <1>8, <1>9

\* Collateral that is not being withdrawn at all is there.
LEMMA HoldsFree ==
  ASSUME NEW queue, GoodQueue(queue), NEW a, now \in Nat, NEW amount \in Nat,
         providers[a].collateral \in Nat, providers[a].withdrawing = AmountOf(queue, OfAddress(queue, a)),
         SecuredAlready(a, amount)
  PROVE  Holds(queue, a, amount)
  <1>1. SUFFICES ASSUME NEW t \in Nat
                 PROVE  amount + AmountOf(queue, DueOf(queue, a, t)) <= providers[a].collateral
    BY DEF Holds
  <1>2. DueOf(queue, a, t) \in SUBSET OfAddress(queue, a) /\ OfAddress(queue, a) \in SUBSET DOMAIN queue
    BY DEF DueOf, OfAddress
  <1>3. /\ AmountOf(queue, DueOf(queue, a, t)) \in Nat
        /\ AmountOf(queue, DueOf(queue, a, t)) <= AmountOf(queue, OfAddress(queue, a))
    BY <1>2, AmountPart
  <1>4. AmountOf(queue, OfAddress(queue, a)) \in Nat
    BY <1>2, AmountNat
  <1>5. providers[a].collateral - providers[a].withdrawing >= amount
    BY DEF SecuredAlready
  <1>6. QED
    BY <1>3, <1>4, <1>5

\* Withdraws are put off until the collateral is there.
LEMMA HoldsDelayed ==
  ASSUME NEW queue, GoodQueue(queue), NEW a, now \in Nat, NEW amount \in Nat,
         providers[a].collateral \in Nat, amount <= providers[a].collateral,
         NEW new, new = DelayWithdraws(queue, a, amount - CollateralAt(queue, a, now + LockPeriod),
                                       now + LockPeriod)
  PROVE  Holds(new, a, amount)
  <1>1. PICK T \in Nat : T = now + LockPeriod
    BY LockEndNat
  <1>2. SUFFICES ASSUME NEW t \in Nat, t < T
                 PROVE  amount + AmountOf(new, DueOf(new, a, t)) <= providers[a].collateral
    BY <1>1 DEF Holds
  <1>3. DueOf(queue, a, T) = {n \in OfProvider(queue, a) : queue[n].completionTime <= T}
    BY DEF DueOf, OfProvider
  <1>4. PICK C : C = DueOf(queue, a, T)
    OBVIOUS
  <1>5. CollateralAt(queue, a, T) = providers[a].collateral - AmountOf(queue, C)
    BY <1>3, <1>4 DEF CollateralAt, AmountBy
  <1>6. C \in SUBSET DOMAIN queue
    BY <1>4 DEF DueOf
  <1>7. PICK u \in Nat : u = AmountOf(queue, C)
    BY <1>6, AmountNat
  <1>8. PICK more \in Int : more = amount - CollateralAt(queue, a, T) /\ more = amount - providers[a].collateral + u
    BY <1>5, <1>7
  <1>9. PICK S : S = Delayed(queue, a, more, T)
    OBVIOUS
  <1>10. S \in SUBSET C /\ Postponed(queue, new, S, a, T)
    BY <1>1, <1>4, <1>8, <1>9, DelayPostpones
  <1>11. AmountOf(new, DueOf(new, a, t)) = AmountOf(queue, DueOf(queue, a, t) \ S)
    BY <1>2, <1>10 DEF Postponed
  <1>12. DueOf(queue, a, t) \ S \in SUBSET (C \ S) /\ C \ S \in SUBSET DOMAIN queue
    <2>1. \A n \in DOMAIN queue : queue[n].completionTime \in Nat
      BY DEF GoodQueue, IsStore, Withdraw
    <2>2. QED
      BY <1>2, <1>4, <1>6, <2>1 DEF DueOf
  <1>13. /\ AmountOf(queue, DueOf(queue, a, t) \ S) \in Nat
         /\ AmountOf(queue, DueOf(queue, a, t) \ S) <= AmountOf(queue, C \ S)
    BY <1>12, AmountPart
  <1>14. /\ AmountOf(queue, C) = AmountOf(queue, S) + AmountOf(queue, C \ S)
         /\ AmountOf(queue, S) \in Nat /\ AmountOf(queue, C \ S) \in Nat
    <2>1. PICK rest : rest = C \ S
      OBVIOUS
    <2>2. /\ S \in SUBSET DOMAIN queue /\ rest \in SUBSET DOMAIN queue
          /\ S \cap rest = {} /\ C = S \cup rest
      BY <1>6, <1>10, <2>1
    <2>3. AmountOf(queue, S \cup rest) = AmountOf(queue, S) + AmountOf(queue, rest)
      BY <2>2, AmountUnion
    <2>4. AmountOf(queue, S) \in Nat /\ AmountOf(queue, rest) \in Nat
      BY <2>2, AmountNat
    <2>5. QED
      BY <2>1, <2>2, <2>3, <2>4, Zenon
  <1>15. PICK x \in Nat, y \in Nat, z \in Nat :
           x = AmountOf(new, DueOf(new, a, t)) /\ y = AmountOf(queue, C \ S) /\ z = AmountOf(queue, S)
    BY <1>11, <1>13, <1>14
  <1>16. x <= y /\ u = z + y
    BY <1>7, <1>11, <1>13, <1>14, <1>15
  <1>17. more <= z \/ S = C
    BY <1>4, <1>9, <1>15, DelayedEnough
  <1>18. CASE more <= z
    BY <1>8, <1>15, <1>16, <1>18
  <1>19. CASE S = C
    <2>1. z = u
      BY <1>7, <1>15, <1>19
    <2>2. y = 0
      BY <1>16, <2>1
    <2>3. QED
      BY <1>15, <1>16, <2>2
  <1>20. QED
    BY <1>17, <1>18, <1>19

\* Delaying withdraws keeps the queue matched by the providers.
LEMMA PostponedQueued ==
  ASSUME NEW ps, NEW queue, NEW new, NEW s, NEW a \in DOMAIN ps, NEW time,
         Queued(ps, queue), Postponed(queue, new, s, a, time)
  PROVE  GoodQueue(new) /\ Queued(ps, new) /\ NotSooner(queue, new)
  <1>1. \A n \in DOMAIN new : new[n].address \in DOMAIN ps
    BY DEF Queued, Postponed
  <1>2. \A b \in DOMAIN ps : ps[b].withdrawing = AmountOf(new, OfAddress(new, b))
    BY DEF Queued, Postponed
  <1>3. QED
    BY <1>1, <1>2 DEF Queued, Postponed, NotSooner

\* SecureFromProvider keeps the queue and, when it does not panic, secures the amount.
LEMMA SecureOne ==
  ASSUME GoodProviders(providers), now \in Nat, NEW a \in DOMAIN providers, NEW total,
         NEW s, IsSecuring(s), GoodQueue(s.withdraws), Queued(providers, s.withdraws),
         NEW amount \in Nat, amount = SecureAmount(a, total, s.remaining),
         NEW new, new = SecureFromProvider(s, a, total)
  PROVE  /\ IsSecuring(new) /\ new.remaining = s.remaining - amount
         /\ GoodQueue(new.withdraws) /\ Queued(providers, new.withdraws)
         /\ NotSooner(s.withdraws, new.withdraws)
         /\ new.panic \/ Holds(new.withdraws, a, amount)
         /\ s.panic => new.panic
  <1>1. /\ IsSecuring(new) /\ new.remaining = s.remaining - amount
        /\ \/ /\ new.withdraws = s.withdraws
              /\ new.panic \/ SecuredAlready(a, amount)
                   \/ amount <= CollateralAt(s.withdraws, a, now + LockPeriod)
           \/ /\ new.withdraws = DelayWithdraws(s.withdraws, a,
                   amount - CollateralAt(s.withdraws, a, now + LockPeriod), now + LockPeriod)
              /\ new.panic \/ ~ (amount > providers[a].collateral)
        /\ s.panic => new.panic
    BY SecureEffect
  <1>2. providers[a].collateral \in Nat
    BY SoundAmounts DEF GoodProviders
  <1>3. providers[a].withdrawing = AmountOf(s.withdraws, OfAddress(s.withdraws, a))
    BY DEF Queued
  <1>4. CASE /\ new.withdraws = s.withdraws
             /\ new.panic \/ SecuredAlready(a, amount)
                  \/ amount <= CollateralAt(s.withdraws, a, now + LockPeriod)
    <2>1. new.panic \/ Holds(s.withdraws, a, amount)
      BY <1>2, <1>3, <1>4, HoldsAlready, HoldsFree
    <2>2. NotSooner(s.withdraws, new.withdraws)
      BY <1>4, NotSoonerSame
    <2>3. QED
      BY <1>1, <1>4, <2>1, <2>2
  <1>5. CASE /\ new.withdraws = DelayWithdraws(s.withdraws, a,
                  amount - CollateralAt(s.withdraws, a, now + LockPeriod), now + LockPeriod)
             /\ new.panic \/ ~ (amount > providers[a].collateral)
    <2> DEFINE more == amount - CollateralAt(s.withdraws, a, now + LockPeriod)
    <2>1. PICK T \in Nat : T = now + LockPeriod
      BY LockEndNat
    <2>2. new.withdraws = DelayWithdraws(s.withdraws, a, more, T)
      BY <1>5, <2>1
    <2> HIDE DEF more
    <2>3. Postponed(s.withdraws, new.withdraws, Delayed(s.withdraws, a, more, T), a, T)
      BY <2>2, DelayPostpones
    <2>4. GoodQueue(new.withdraws) /\ Queued(providers, new.withdraws)
          /\ NotSooner(s.withdraws, new.withdraws)
      BY <2>3, PostponedQueued
    <2>5. new.panic \/ Holds(new.withdraws, a, amount)
      <3>1. CASE ~ (amount > providers[a].collateral)
        <4>1. amount <= providers[a].collateral
          BY <1>2, <3>1
        <4>2. QED
          BY <1>2, <1>5, <4>1, HoldsDelayed
      <3>2. QED
        BY <1>5, <3>1
    <2>6. QED
      BY <1>1, <2>4, <2>5
  <1>6. QED
    BY <1>1, <1>4, <1>5

\* The collateral that the providers have left at a time.
FreeAt(queue, t) ==
  [b \in DOMAIN providers |-> providers[b].collateral - AmountOf(queue, DueOf(queue, b, t))]

Collaterals(ps) == [b \in DOMAIN ps |-> ps[b].collateral]

\* What is left is not negative.
LEMMA FreeAtNat ==
  ASSUME GoodProviders(providers), NEW queue, GoodQueue(queue), Queued(providers, queue), NEW t,
         NEW b \in DOMAIN providers
  PROVE  /\ FreeAt(queue, t)[b] \in Nat
         /\ AmountOf(queue, DueOf(queue, b, t)) \in Nat
         /\ FreeAt(queue, t)[b] + AmountOf(queue, DueOf(queue, b, t)) = providers[b].collateral
         /\ Collaterals(providers)[b] = providers[b].collateral /\ providers[b].collateral \in Nat
  <1>1. DueOf(queue, b, t) \in SUBSET OfAddress(queue, b) /\ OfAddress(queue, b) \in SUBSET DOMAIN queue
    BY DEF DueOf, OfAddress
  <1>2. /\ AmountOf(queue, DueOf(queue, b, t)) \in Nat
        /\ AmountOf(queue, DueOf(queue, b, t)) <= AmountOf(queue, OfAddress(queue, b))
    BY <1>1, AmountPart
  <1>3. /\ providers[b].withdrawing = AmountOf(queue, OfAddress(queue, b))
        /\ providers[b].withdrawing <= providers[b].collateral
    BY DEF Queued, GoodProviders, Sound
  <1>4. providers[b].collateral \in Nat /\ providers[b].withdrawing \in Nat
    BY SoundAmounts DEF GoodProviders
  <1>5. FreeAt(queue, t)[b] = providers[b].collateral - AmountOf(queue, DueOf(queue, b, t))
    BY DEF FreeAt
  <1>6. QED
    BY <1>2, <1>3, <1>4, <1>5 DEF Collaterals

\* The sum of natural numbers keeps the order.
LEMMA SumOrder ==
  ASSUME NEW S, IsFiniteSet(S), NEW f, NEW g,
         \A x \in S : f[x] \in Nat /\ g[x] \in Nat /\ f[x] <= g[x]
  PROVE  SumFunctionOnSet(f, S) <= SumFunctionOnSet(g, S)
  <1>1. \A x \in S : f[x] \in Nat /\ g[x] \in Nat /\ f[x] <= 1 * g[x] + 0
    OBVIOUS
  <1>2. SumFunctionOnSet(f, S) <= 1 * SumFunctionOnSet(g, S) + Cardinality(S) * 0
    BY <1>1, SumBounded
  <1>3. SumFunctionOnSet(g, S) \in Nat /\ Cardinality(S) \in Nat
    BY <1>1, SumNat, FS_CardinalityType
  <1>4. QED
    BY <1>2, <1>3

\* NotSooner is transitive.
LEMMA NotSoonerTwice ==
  ASSUME NEW x, NEW y, NEW z, GoodQueue(x), GoodQueue(y), GoodQueue(z),
         NotSooner(x, y), NotSooner(y, z)
  PROVE  NotSooner(x, z)
  <1>1. \A q : GoodQueue(q) => /\ \A t : AmountOf(q, DueBy(q, t)) \in Nat
                               /\ \A b, t : AmountOf(q, DueOf(q, b, t)) \in Nat
    <2>1. \A q, t : DueBy(q, t) \in SUBSET DOMAIN q
      BY DEF DueBy
    <2>2. \A q, b, t : DueOf(q, b, t) \in SUBSET DOMAIN q
      BY DEF DueOf
    <2>3. QED
      BY <2>1, <2>2, AmountNat
  <1>2. ASSUME NEW t \in Nat PROVE AmountOf(z, DueBy(z, t)) <= AmountOf(x, DueBy(x, t))
    <2>1. /\ AmountOf(z, DueBy(z, t)) <= AmountOf(y, DueBy(y, t))
          /\ AmountOf(y, DueBy(y, t)) <= AmountOf(x, DueBy(x, t))
      BY DEF NotSooner
    <2>2. QED
      BY <1>1, <2>1
  <1>3. ASSUME NEW b, NEW t \in Nat PROVE AmountOf(z, DueOf(z, b, t)) <= AmountOf(x, DueOf(x, b, t))
    <2>1. /\ AmountOf(z, DueOf(z, b, t)) <= AmountOf(y, DueOf(y, b, t))
          /\ AmountOf(y, DueOf(y, b, t)) <= AmountOf(x, DueOf(x, b, t))
      BY DEF NotSooner
    <2>2. QED
      BY <1>1, <2>1
  <1>4. QED
    BY <1>2, <1>3 DEF NotSooner

\* The loop has run for the providers of P: the queue is good and completes no sooner, what
\* has been secured is left until the lock ends, and is at least the share of P.
SecuredFor(s, P, total) ==
  /\ IsSecuring(s) /\ s.remaining \in Nat /\ s.remaining <= total
  /\ GoodQueue(s.withdraws) /\ Queued(providers, s.withdraws)
  /\ NotSooner(withdraws, s.withdraws)
  /\ s.panic \/ \A t \in Nat : t < now + LockPeriod =>
       total - s.remaining <= SumFunctionOnSet(FreeAt(s.withdraws, t), P)
  /\ \/ s.remaining = 0
     \/ SumFunctionOnSet(Collaterals(providers), P) * ClaimRatio(total)
          <= (total - s.remaining) * Precision

\* Nothing is secured before the loop.
LEMMA SecuredForNone ==
  ASSUME GoodQueue(withdraws), Queued(providers, withdraws), NEW total \in Nat, NEW s,
         s = [remaining |-> total, withdraws |-> withdraws, unbonding |-> unbonding, panic |-> FALSE],
         ClaimRatio(total) \in Nat
  PROVE  SecuredFor(s, {}, total)
  <1>1. IsSecuring(s) /\ s.remaining = total /\ s.withdraws = withdraws
    BY DEF IsSecuring
  <1>2. NotSooner(withdraws, withdraws)
    BY NotSoonerSame
  <1>3. \A f : SumFunctionOnSet(f, {}) = 0
    BY SumEmpty
  <1>4. \A t \in Nat : t < now + LockPeriod =>
          total - s.remaining <= SumFunctionOnSet(FreeAt(s.withdraws, t), {})
    BY <1>1, <1>3
  <1>5. SumFunctionOnSet(Collaterals(providers), {}) * ClaimRatio(total) <= (total - s.remaining) * Precision
    BY <1>1, <1>3, PrecisionAssumption
  <1>6. QED
    BY <1>1, <1>2, <1>4, <1>5 DEF SecuredFor

\* The loop runs for one more provider.
LEMMA SecuredForOne ==
  ASSUME GoodProviders(providers), GoodQueue(withdraws), now \in Nat, totalCollateral \in Nat,
         totalCollateral > 0, NEW total \in Nat, total <= totalCollateral,
         NEW P \in SUBSET DOMAIN providers, NEW a \in P, NEW s, SecuredFor(s, P \ {a}, total),
         NEW new, new = SecureFromProvider(s, a, total)
  PROVE  SecuredFor(new, P, total)
  <1>1. /\ IsSecuring(s) /\ s.remaining \in Nat /\ s.remaining <= total
        /\ GoodQueue(s.withdraws) /\ Queued(providers, s.withdraws)
        /\ NotSooner(withdraws, s.withdraws)
    BY DEF SecuredFor
  <1>2. PICK k \in Nat, c \in Nat, p \in Nat, q \in Nat :
          /\ k = s.remaining /\ k <= total /\ c = providers[a].collateral
          /\ p = Precision /\ q = ClaimRatio(total)
    BY <1>1, SoundAmounts, PrecisionAssumption, QuoDecAtMostOne DEF GoodProviders, ClaimRatio
  <1>3. PICK amount \in Nat : /\ amount = SecureAmount(a, total, s.remaining) /\ amount <= k
                              /\ amount < k => c * q <= amount * p
    BY <1>2, SecureAmountBounds
  <1>4. /\ IsSecuring(new) /\ new.remaining = s.remaining - amount
        /\ GoodQueue(new.withdraws) /\ Queued(providers, new.withdraws)
        /\ NotSooner(s.withdraws, new.withdraws)
        /\ new.panic \/ Holds(new.withdraws, a, amount)
        /\ s.panic => new.panic
    BY <1>1, <1>3, SecureOne
  <1>5. new.remaining = k - amount /\ k - amount \in Nat
    BY <1>2, <1>3, <1>4
  <1>6. NotSooner(withdraws, new.withdraws)
    BY <1>1, <1>4, NotSoonerTwice
  <1>7. IsFiniteSet(P) /\ IsFiniteSet(P \ {a})
    BY TotalsNat, FS_Subset, FS_RemoveElement
  <1>8. ASSUME ~ new.panic, NEW t \in Nat, t < now + LockPeriod
        PROVE  total - new.remaining <= SumFunctionOnSet(FreeAt(new.withdraws, t), P)
    <2>1. PICK f, g : f = FreeAt(s.withdraws, t) /\ g = FreeAt(new.withdraws, t)
      OBVIOUS
    <2>2. \A b \in P : f[b] \in Nat /\ g[b] \in Nat /\ f[b] <= g[b]
      <3>1. SUFFICES ASSUME NEW b \in P PROVE f[b] \in Nat /\ g[b] \in Nat /\ f[b] <= g[b]
        OBVIOUS
      <3>2. /\ f[b] \in Nat /\ AmountOf(s.withdraws, DueOf(s.withdraws, b, t)) \in Nat
            /\ f[b] + AmountOf(s.withdraws, DueOf(s.withdraws, b, t)) = providers[b].collateral
        BY <1>1, <2>1, FreeAtNat
      <3>3. /\ g[b] \in Nat /\ AmountOf(new.withdraws, DueOf(new.withdraws, b, t)) \in Nat
            /\ g[b] + AmountOf(new.withdraws, DueOf(new.withdraws, b, t)) = providers[b].collateral
        BY <1>4, <2>1, FreeAtNat
      <3>4. AmountOf(new.withdraws, DueOf(new.withdraws, b, t)) <= AmountOf(s.withdraws, DueOf(s.withdraws, b, t))
        BY <1>4 DEF NotSooner
      <3>5. PICK u \in Nat, v \in Nat : /\ u = AmountOf(s.withdraws, DueOf(s.withdraws, b, t))
                                        /\ v = AmountOf(new.withdraws, DueOf(new.withdraws, b, t))
        BY <3>2, <3>3
      <3>6. v <= u /\ f[b] + u = g[b] + v
        BY <3>2, <3>3, <3>4, <3>5
      <3>7. QED
        BY <3>2, <3>3, <3>6
    <2>3. amount <= g[a]
      <3>1. amount + AmountOf(new.withdraws, DueOf(new.withdraws, a, t)) <= providers[a].collateral
        BY <1>4, <1>8 DEF Holds
      <3>2. /\ g[a] \in Nat /\ AmountOf(new.withdraws, DueOf(new.withdraws, a, t)) \in Nat
            /\ g[a] + AmountOf(new.withdraws, DueOf(new.withdraws, a, t)) = providers[a].collateral
        BY <1>4, <2>1, FreeAtNat
      <3>3. PICK v \in Nat : v = AmountOf(new.withdraws, DueOf(new.withdraws, a, t))
        BY <3>2
      <3>4. amount + v <= g[a] + v
        BY <3>1, <3>2, <3>3
      <3>5. QED
        BY <3>2, <3>4
    <2>4. total - s.remaining <= SumFunctionOnSet(f, P \ {a})
      BY <1>4, <1>8, <2>1 DEF SecuredFor
    <2>5. SumFunctionOnSet(f, P \ {a}) <= SumFunctionOnSet(g, P \ {a})
      BY <1>7, <2>2, SumOrder
    <2>6. SumFunctionOnSet(g, P) = g[a] + SumFunctionOnSet(g, P \ {a})
      BY <1>7, <2>2, SumRemove
    <2>7. SumFunctionOnSet(f, P \ {a}) \in Nat /\ SumFunctionOnSet(g, P \ {a}) \in Nat
      BY <1>7, <2>2, SumNat
    <2>8. PICK x \in Nat, y \in Nat, z \in Nat :
            x = SumFunctionOnSet(f, P \ {a}) /\ y = SumFunctionOnSet(g, P \ {a}) /\ z = g[a]
      BY <2>2, <2>7
    <2>9. total - (k - amount) <= z + y
      BY <1>2, <1>3, <2>3, <2>4, <2>5, <2>8
    <2>10. QED
      BY <1>5, <2>1, <2>6, <2>8, <2>9
  <1>9. \/ new.remaining = 0
        \/ SumFunctionOnSet(Collaterals(providers), P) * ClaimRatio(total)
             <= (total - new.remaining) * Precision
    <2>1. CASE amount = k
      BY <1>5, <2>1
    <2>2. CASE amount < k
      <3>1. PICK f : f = Collaterals(providers)
        OBVIOUS
      <3>2. \A b \in P : f[b] \in Nat /\ f[a] = c
        BY <1>2, <3>1, SoundAmounts DEF GoodProviders, Collaterals
      <3>3. SumFunctionOnSet(f, P) = f[a] + SumFunctionOnSet(f, P \ {a})
        BY <1>7, <3>2, SumRemove
      <3>4. PICK x \in Nat : x = SumFunctionOnSet(f, P \ {a})
        BY <1>7, <3>2, SumNat
      <3>5. x * q <= (total - k) * p
        BY <1>2, <2>2, <3>1, <3>4 DEF SecuredFor
      <3>6. PICK d \in Nat : d = total - k
        BY <1>2
      <3>7. (c + x) * q = c * q + x * q /\ (d + amount) * p = d * p + amount * p
        OBVIOUS
      <3>8. PICK u \in Nat, v \in Nat, w \in Nat, z \in Nat :
              u = c * q /\ v = x * q /\ w = d * p /\ z = amount * p
        OBVIOUS
      <3>9. (c + x) * q <= (d + amount) * p
        BY <1>3, <2>2, <3>5, <3>6, <3>7, <3>8
      <3>10. d + amount = total - new.remaining
        BY <1>2, <1>3, <1>5, <3>6
      <3>11. c + x = SumFunctionOnSet(Collaterals(providers), P)
        BY <3>1, <3>2, <3>3, <3>4
      <3>12. QED
        BY <1>2, <3>9, <3>10, <3>11
    <2>3. QED
      BY <1>3, <2>1, <2>2
  <1>10. QED
    BY <1>2, <1>3, <1>4, <1>5, <1>6, <1>8, <1>9 DEF SecuredFor

Greatest(S, p) == Max(S)

Securing == INSTANCE Loops WITH Step <- SecureFromProvider, Last <- Greatest

\* Secured is the loop over the providers.
LEMMA SecuredIsLoop ==
  ASSUME NEW total
  PROVE  Secured(total) = Securing!Loop(DOMAIN providers,
           [remaining |-> total, withdraws |-> withdraws, unbonding |-> unbonding, panic |-> FALSE],
           total)
  BY DEF Secured, MapThenFoldSet, Securing!Loop, Securing!IsRun, Greatest

\* A nonempty finite set of accounts has a greatest one.
LEMMA GreatestIn ==
  ASSUME NEW S, S \subseteq Nat, IsFiniteSet(S), S # {}, NEW p
  PROVE  Greatest(S, p) \in S
  <1>1. \E x \in S : \A y \in S : x >= y
    BY GreatestNat
  <1>2. QED
    BY <1>1 DEF Greatest, Max

\* The providers are finitely many natural numbers.
LEMMA ProvidersFinite ==
  ASSUME NEW ps, GoodProviders(ps)
  PROVE  IsFiniteSet(DOMAIN ps) /\ DOMAIN ps \subseteq Nat /\ DOMAIN ps \subseteq Accounts
  BY TotalsNat, AccountsAssumption DEF GoodProviders, IsStore

\* SecureCollaterals secures for all providers.
LEMMA SecuredAll ==
  ASSUME GoodProviders(providers), GoodQueue(withdraws), Queued(providers, withdraws),
         now \in Nat, totalCollateral \in Nat, totalCollateral > 0,
         NEW total \in Nat, total <= totalCollateral
  PROVE  SecuredFor(Secured(total), DOMAIN providers, total)
  <1> DEFINE S == DOMAIN providers
             base == [remaining |-> total, withdraws |-> withdraws, unbonding |-> unbonding,
                      panic |-> FALSE]
  <1>1. IsFiniteSet(S) /\ S \subseteq Nat
    BY ProvidersFinite
  <1>2. \A s \in SUBSET S : s # {} => Greatest(s, total) \in s
    <2> HIDE DEF S
    <2>1. \A s \in SUBSET S : IsFiniteSet(s) /\ s \subseteq Nat
      BY <1>1, FS_Subset
    <2>2. QED
      BY <2>1, GreatestIn
  <1>3. ClaimRatio(total) \in Nat
    BY QuoDecAtMostOne DEF ClaimRatio
  <1>4. SecuredFor(base, {}, total)
    BY <1>3, SecuredForNone
  <1>5. Secured(total) = Securing!Loop(S, base, total)
    BY SecuredIsLoop
  <1> HIDE DEF S, base
  <1>6. PICK g : Securing!Runs(g, S, base, total)
    <2>1. \E size : Securing!HasSizes(S, size)
      <3>1. \E size : Delaying!HasSizes(S, size)
        BY <1>1, FiniteHasSizes
      <3>2. QED
        BY <3>1 DEF Delaying!HasSizes, Securing!HasSizes
    <2>2. QED
      BY <1>2, <2>1, Securing!LoopRuns, Zenon
  <1>7. /\ g[S] = Securing!Loop(S, base, total) /\ g[{}] = base
        /\ \A s \in SUBSET S : s # {} =>
             /\ Greatest(s, total) \in s
             /\ g[s] = SecureFromProvider(g[s \ {Greatest(s, total)}], Greatest(s, total), total)
    BY <1>6 DEF Securing!Runs
  <1> DEFINE T == {s \in SUBSET S : SecuredFor(g[s], s, total)}
  <1>8. ASSUME NEW s \in SUBSET S, \A t \in SUBSET s : t # s => t \in T
        PROVE  s \in T
    <2>1. CASE s = {}
      BY <1>4, <1>7, <2>1
    <2>2. CASE s # {}
      <3>1. PICK a : a = Greatest(s, total)
        OBVIOUS
      <3>2. a \in s /\ g[s] = SecureFromProvider(g[s \ {a}], a, total)
        BY <1>7, <2>2, <3>1
      <3>3. SecuredFor(g[s \ {a}], s \ {a}, total)
        BY <1>8, <3>2
      <3>4. s \in SUBSET DOMAIN providers
        BY DEF S
      <3>5. SecuredFor(g[s], s, total)
        BY <3>2, <3>3, <3>4, SecuredForOne
      <3>6. QED
        BY <3>5
    <2>3. QED
      BY <2>1, <2>2
  <1>9. S \in T
    <2> HIDE DEF T
    <2>1. SUBSET S \subseteq T
      BY <1>1, <1>8, SubsetInduction
    <2>2. QED
      BY <2>1
  <1>10. SecuredFor(g[S], S, total)
    BY <1>9
  <1>11. QED
    BY <1>5, <1>7, <1>10 DEF S

\* The whole amount is secured, when the collateral is less than the precision of the
\* decimals by which the shares are reckoned.
LEMMA SecuredWhole ==
  ASSUME GoodProviders(providers), totalCollateral = TotalCollateral(providers),
         totalCollateral > 0, totalCollateral < Precision,
         NEW total \in Nat, total <= totalCollateral, NEW s, SecuredFor(s, DOMAIN providers, total)
  PROVE  s.remaining = 0
  <1>1. PICK t \in Nat, p \in Nat : t = totalCollateral /\ p = Precision
    BY TotalsNat, PrecisionAssumption
  <1>2. PICK q \in Nat : q = ClaimRatio(total)
    BY <1>1, QuoDecAtMostOne DEF ClaimRatio
  <1>3. 2 * ((total * p) * p) < 2 * ((q * t) * p) + p * t + 2 * t
    BY <1>1, <1>2, QuoDecBelow DEF ClaimRatio
  <1>4. PICK r \in Nat : r = s.remaining /\ r <= total
    BY DEF SecuredFor
  <1>5. SumFunctionOnSet(Collaterals(providers), DOMAIN providers) = t
    BY <1>1 DEF TotalCollateral, SumOver, Collaterals
  <1>6. SUFFICES ASSUME r > 0 PROVE FALSE
    BY <1>4
  <1>7. t * q <= (total - r) * p
    BY <1>1, <1>2, <1>4, <1>5, <1>6 DEF SecuredFor
  <1>8. PICK d \in Nat : d = total - r /\ d + 1 <= total
    BY <1>4, <1>6
  <1>9. (q * t) * p <= (d * p) * p
    <2>1. q * t = t * q /\ q * t \in Nat /\ d * p \in Nat
      OBVIOUS
    <2>2. QED
      BY <1>7, <1>8, <2>1, TimesOrder
  <1>10. ((d + 1) * p) * p <= (total * p) * p
    <2>1. (d + 1) * p <= total * p
      BY <1>8, TimesOrder
    <2>2. (d + 1) * p \in Nat /\ total * p \in Nat
      OBVIOUS
    <2>3. QED
      BY <2>1, <2>2, TimesOrder
  <1>11. ((d + 1) * p) * p = (d * p) * p + p * p
    OBVIOUS
  <1>12. PICK x \in Nat, y \in Nat, z \in Nat, v \in Nat, w \in Nat :
           /\ x = (d * p) * p /\ y = p * p /\ z = (total * p) * p /\ v = (q * t) * p /\ w = p * t
    OBVIOUS
  <1>13. 2 * y < w + 2 * t
    BY <1>3, <1>9, <1>10, <1>11, <1>12
  <1>14. p * t + p <= p * p
    <2>1. (t + 1) * p <= p * p
      BY <1>1, TimesOrder
    <2>2. (t + 1) * p = p * t + p
      OBVIOUS
    <2>3. QED
      BY <2>1, <2>2
  <1>15. w + p <= y
    BY <1>12, <1>14
  <1>16. p <= y
    BY <1>12, <1>15
  <1>17. QED
    BY <1>1, <1>13, <1>15, <1>16

-----------------------------------------------------------------------------
(* CreateReimbursement.                                                    *)

\* The state of the loop.
IsPaying(s) ==
  DOMAIN s = {"providers", "withdraws", "totalWithdrawing", "delegated", "unbonding",
              "purchased", "payout", "panic"}

\* The books of the providers are balanced in the state of the loop.
PaidBooks(s) ==
  /\ IsPaying(s)
  /\ GoodProviders(s.providers) /\ DOMAIN s.providers = DOMAIN providers
  /\ GoodQueue(s.withdraws) /\ Queued(s.providers, s.withdraws)
  /\ s.totalWithdrawing = TotalWithdrawing(s.providers)
  /\ s.delegated \in [Accounts -> Nat]
  /\ \A b \in DOMAIN s.providers : s.delegated[b] = s.providers[b].bonded

\* From s to new the providers pay an amount of their collateral; until a withdraw of now
\* completes, no more of the queue does.
Pays(s, new, amount) ==
  /\ TotalCollateral(new.providers) + amount = TotalCollateral(s.providers)
  /\ TotalRewards(new.providers) = TotalRewards(s.providers)
  /\ \A t \in Nat : t < now + WithdrawPeriod =>
       AmountOf(new.withdraws, DueBy(new.withdraws, t)) <= AmountOf(s.withdraws, DueBy(s.withdraws, t))

\* Nothing is taken out of a queue.
LEMMA ShrinksNot ==
  ASSUME NEW queue, GoodQueue(queue), NEW a
  PROVE  Shrinks(queue, queue, a, 0)
  <1>1. \A t : DueBy(queue, t) \in SUBSET DOMAIN queue
    BY DEF DueBy
  <1>2. \A b : OfAddress(queue, b) \in SUBSET DOMAIN queue
    BY DEF OfAddress
  <1>3. \A S \in SUBSET DOMAIN queue : AmountOf(queue, S) \in Nat
    BY AmountNat
  <1>4. AmountOf(queue, OfAddress(queue, a)) = AmountOf(queue, OfAddress(queue, a)) + 0
    BY <1>2, <1>3
  <1>5. \A t : AmountOf(queue, DueBy(queue, t)) <= AmountOf(queue, DueBy(queue, t))
    BY <1>1, <1>3
  <1>6. QED
    BY <1>4, <1>5 DEF Shrinks

\* What comes from the free units.
LEMMA FromFreeBounds ==
  ASSUME NEW free \in Nat, NEW purchased \in Nat, NEW payout \in Nat
  PROVE  /\ FromFree(free, purchased, payout) \in Nat
         /\ FromFree(free, purchased, payout) <= free
         /\ FromFree(free, purchased, payout) <= payout
  BY DEF FromFree, MinInt, MaxInt

\* An update of a record that is there is a write to the store.
LEMMA StoreUpdate ==
  ASSUME NEW store, NEW Keys, NEW Values, IsStore(store, Keys, Values), NEW k \in DOMAIN store, NEW v
  PROVE  [store EXCEPT ![k] = v] = StoreSet(store, k, v)
  <1>1. DOMAIN store \cup {k} = DOMAIN store
    OBVIOUS
  <1>2. store \in [DOMAIN store -> Values]
    BY DEF IsStore
  <1>3. QED
    BY <1>1, <1>2 DEF StoreSet

\* The record of the provider after PayFromCollateral.
PaidProvider(p, payout, fromWithdraw) ==
  [p EXCEPT !.collateral = p.collateral - payout, !.withdrawing = p.withdrawing - fromWithdraw]

\* The fields after PayFromCollateral.
LEMMA PayFromCollateralFields ==
  ASSUME NEW s, IsPaying(s), NEW a \in DOMAIN s.providers, NEW purchased, NEW payout,
         IsStore(s.providers, Accounts, Provider),
         NEW free, free = s.providers[a].collateral - s.providers[a].withdrawing,
         NEW more, more = payout - FromFree(free, purchased, payout),
         NEW new, new = PayFromCollateral(s, a, purchased, payout)
  PROVE  /\ IsPaying(new)
         /\ new.providers = StoreSet(s.providers, a, PaidProvider(s.providers[a], payout, more))
         /\ new.totalWithdrawing = s.totalWithdrawing - more
         /\ more = 0 => new.withdraws = s.withdraws
         /\ more # 0 => new.withdraws = WithdrawsAfterPayout(s.withdraws, a, MaxInt(purchased - free, 0), more)
         /\ new.delegated = s.delegated /\ new.unbonding = s.unbonding
         /\ new.purchased = s.purchased /\ new.payout = s.payout
         /\ s.panic => new.panic
         /\ new.panic \/ ~ (/\ more > 0
                            /\ AmountOf(s.withdraws, OfProvider(s.withdraws, a)) < MaxInt(purchased - free, 0) + more)
  <1> DEFINE skip == MaxInt(purchased - free, 0)
             queued == AmountOf(s.withdraws, OfProvider(s.withdraws, a))
             queue == IF more = 0 THEN s.withdraws ELSE WithdrawsAfterPayout(s.withdraws, a, skip, more)
             bad == s.panic \/ (more > 0 /\ queued < skip + more)
  <1>1. new = [s EXCEPT !.providers[a].collateral = @ - payout,
                        !.providers[a].withdrawing = @ - more,
                        !.totalWithdrawing = @ - more,
                        !.withdraws = queue,
                        !.panic = bad]
    BY DEF PayFromCollateral
  <1> HIDE DEF skip, queued, queue, bad
  <1>2. /\ IsPaying(new)
        /\ new.totalWithdrawing = s.totalWithdrawing - more
        /\ new.withdraws = queue /\ new.panic = bad
        /\ new.delegated = s.delegated /\ new.unbonding = s.unbonding
        /\ new.purchased = s.purchased /\ new.payout = s.payout
    BY <1>1 DEF IsPaying
  <1>3. new.providers = [s.providers EXCEPT ![a].collateral = @ - payout, ![a].withdrawing = @ - more]
    BY <1>1 DEF IsPaying
  <1>4. DOMAIN s.providers[a] = {"bonded", "collateral", "withdrawing", "rewards"}
    BY DEF IsStore, Provider
  <1>5. new.providers = [s.providers EXCEPT ![a] = PaidProvider(s.providers[a], payout, more)]
    BY <1>3, <1>4 DEF PaidProvider
  <1>6. new.providers = StoreSet(s.providers, a, PaidProvider(s.providers[a], payout, more))
    BY <1>5, StoreUpdate
  <1>7. s.panic => new.panic
    BY <1>2 DEF bad
  <1>8. new.panic \/ ~ (more > 0 /\ queued < skip + more)
    BY <1>2 DEF bad
  <1>9. QED
    BY <1>2, <1>6, <1>7, <1>8 DEF queue, skip, queued

\* The record of the provider stays sound.
LEMMA PaidProviderSound ==
  ASSUME NEW p, Sound(p), NEW purchased \in Nat, NEW payout \in Nat,
         NEW free, free = p.collateral - p.withdrawing,
         NEW more, more = payout - FromFree(free, purchased, payout), more <= p.withdrawing,
         NEW new, new = PaidProvider(p, payout, more)
  PROVE  /\ Sound(new) /\ new.bonded = p.bonded /\ new.rewards = p.rewards
         /\ new.collateral + payout = p.collateral /\ new.withdrawing + more = p.withdrawing
         /\ more \in Nat
  <1>1. PICK c \in Nat, w \in Nat, f \in Nat : c = p.collateral /\ w = p.withdrawing /\ f = free /\ f = c - w
    BY SoundAmounts DEF Sound
  <1>2. PICK k \in Nat : k = FromFree(free, purchased, payout) /\ k <= f /\ k <= payout
    BY <1>1, FromFreeBounds
  <1>3. PICK m \in Nat : m = more /\ m = payout - k /\ m <= w
    BY <1>1, <1>2
  <1>4. PICK x \in Nat, y \in Nat : x = c - payout /\ y = w - m /\ y <= x /\ x - y = f - k
    BY <1>1, <1>2, <1>3
  <1>5. p \in Provider /\ p.bonded \in Int /\ f <= p.bonded
    BY <1>1 DEF Sound, Provider
  <1>6. new = [p EXCEPT !.collateral = x, !.withdrawing = y]
    BY <1>1, <1>3, <1>4 DEF PaidProvider
  <1>7. /\ new \in Provider /\ new.collateral = x /\ new.withdrawing = y
        /\ new.bonded = p.bonded /\ new.rewards = p.rewards
    <2>1. PICK mid : mid = [p EXCEPT !.collateral = x]
      OBVIOUS
    <2>2. /\ mid \in Provider /\ mid.collateral = x
          /\ mid.bonded = p.bonded /\ mid.rewards = p.rewards
      BY <1>5, <2>1 DEF Provider
    <2>3. new = [mid EXCEPT !.withdrawing = y]
      BY <1>6, <2>1
    <2>4. QED
      BY <2>2, <2>3 DEF Provider
  <1>8. x - y <= p.bonded
    BY <1>2, <1>4, <1>5
  <1>9. Sound(new)
    BY <1>4, <1>7, <1>8 DEF Sound
  <1>10. x + payout = c /\ y + m = w
    BY <1>3, <1>4
  <1>11. new.collateral + payout = p.collateral
    BY <1>1, <1>7, <1>10
  <1>12. new.withdrawing + more = p.withdrawing
    BY <1>1, <1>3, <1>7, <1>10
  <1>13. more \in Nat
    BY <1>3
  <1>14. QED
    BY <1>7, <1>9, <1>11, <1>12, <1>13

\* A queue that loses an amount of one provider is matched when its record loses it too.
LEMMA ShrinksQueued ==
  ASSUME NEW ps, NEW new, NEW queue, NEW left, NEW a \in DOMAIN ps, NEW sum \in Nat,
         GoodQueue(queue), Queued(ps, queue), Shrinks(queue, left, a, sum),
         DOMAIN new = DOMAIN ps, \A b \in DOMAIN ps \ {a} : new[b] = ps[b],
         new[a].withdrawing \in Nat, new[a].withdrawing + sum = ps[a].withdrawing
  PROVE  Queued(new, left)
  <1>1. \A n \in DOMAIN left : left[n].address \in DOMAIN new
    BY DEF Queued, Shrinks
  <1>2. \A b \in DOMAIN ps \ {a} : new[b].withdrawing = AmountOf(left, OfAddress(left, b))
    BY DEF Queued, Shrinks
  <1>3. new[a].withdrawing = AmountOf(left, OfAddress(left, a))
    <2>1. ps[a].withdrawing = AmountOf(queue, OfAddress(queue, a))
      BY DEF Queued
    <2>2. AmountOf(queue, OfAddress(queue, a)) = AmountOf(left, OfAddress(left, a)) + sum
      BY DEF Shrinks
    <2>3. OfAddress(left, a) \in SUBSET DOMAIN left /\ GoodQueue(left)
      BY DEF OfAddress, Shrinks
    <2>4. AmountOf(left, OfAddress(left, a)) \in Nat
      BY <2>3, AmountNat
    <2>5. PICK u \in Nat, v \in Nat :
            u = new[a].withdrawing /\ v = AmountOf(left, OfAddress(left, a))
      BY <2>4
    <2>6. u + sum = v + sum
      BY <2>1, <2>2, <2>5
    <2>7. u = v
      BY <2>6
    <2>8. QED
      BY <2>5, <2>7
  <1>4. QED
    BY <1>1, <1>2, <1>3 DEF Queued

\* UpdateProviderCollateralForPayout keeps the books when it does not panic.
LEMMA PayFromCollateralKeeps ==
  ASSUME NEW s, PaidBooks(s), NEW a \in DOMAIN s.providers, NEW purchased \in Nat, NEW payout \in Nat,
         NEW new, new = PayFromCollateral(s, a, purchased, payout), ~ new.panic
  PROVE  /\ PaidBooks(new) /\ Pays(s, new, payout) /\ ~ s.panic
         /\ new.purchased = s.purchased /\ new.payout = s.payout
  <1>1. /\ IsPaying(s) /\ GoodProviders(s.providers) /\ DOMAIN s.providers = DOMAIN providers
        /\ GoodQueue(s.withdraws) /\ Queued(s.providers, s.withdraws)
        /\ s.totalWithdrawing = TotalWithdrawing(s.providers)
        /\ s.delegated \in [Accounts -> Nat]
        /\ \A b \in DOMAIN s.providers : s.delegated[b] = s.providers[b].bonded
    BY DEF PaidBooks
  <1>2. PICK ps, queue : ps = s.providers /\ queue = s.withdraws
    OBVIOUS
  <1>3. PICK p : p = ps[a] /\ Sound(p)
    BY <1>1, <1>2 DEF GoodProviders
  <1>4. PICK free : free = p.collateral - p.withdrawing
    OBVIOUS
  <1>5. PICK more : more = payout - FromFree(free, purchased, payout)
    OBVIOUS
  <1>6. PICK skip : skip = MaxInt(purchased - free, 0)
    OBVIOUS
  <1>7. IsStore(s.providers, Accounts, Provider)
    BY <1>1 DEF GoodProviders
  <1>8. /\ IsPaying(new)
        /\ new.providers = StoreSet(ps, a, PaidProvider(p, payout, more))
        /\ new.totalWithdrawing = s.totalWithdrawing - more
        /\ more = 0 => new.withdraws = queue
        /\ more # 0 => new.withdraws = WithdrawsAfterPayout(queue, a, skip, more)
        /\ new.delegated = s.delegated
        /\ new.purchased = s.purchased /\ new.payout = s.payout
        /\ s.panic => new.panic
        /\ ~ (more > 0 /\ AmountOf(queue, OfProvider(queue, a)) < skip + more)
    BY <1>1, <1>2, <1>3, <1>4, <1>5, <1>6, <1>7, PayFromCollateralFields
  <1>9. OfProvider(queue, a) = OfAddress(queue, a)
    BY DEF OfProvider, OfAddress
  <1>10. p.withdrawing = AmountOf(queue, OfAddress(queue, a)) /\ p.withdrawing \in Nat
         /\ free \in Nat
    BY <1>1, <1>2, <1>3, <1>4, SoundAmounts DEF Queued, Sound
  <1>11. skip \in Nat /\ more \in Nat
    <2>1. PICK k \in Nat : k = FromFree(free, purchased, payout) /\ k <= payout
      BY <1>10, FromFreeBounds
    <2>2. QED
      BY <1>5, <1>6, <1>10, <2>1 DEF MaxInt
  <1>12. more # 0 => skip + more <= p.withdrawing
    BY <1>8, <1>9, <1>10, <1>11
  <1>13. more <= p.withdrawing
    BY <1>10, <1>11, <1>12
  <1>14. PICK q : q = PaidProvider(p, payout, more)
    OBVIOUS
  <1>15. /\ Sound(q) /\ q.bonded = p.bonded /\ q.rewards = p.rewards
         /\ q.collateral + payout = p.collateral /\ q.withdrawing + more = p.withdrawing
    BY <1>3, <1>4, <1>5, <1>13, <1>14, PaidProviderSound
  <1>16. a \in Accounts
    BY <1>7 DEF IsStore
  <1>17. IsProviderSet(ps, new.providers, a, p, q)
    BY <1>2, <1>3, <1>8, <1>14, <1>15, <1>16 DEF IsProviderSet
  <1>18. ProviderIsSet(ps, new.providers, a, p, q)
    BY <1>1, <1>2, <1>17, ProviderSetTotals
  <1>19. /\ GoodProviders(new.providers)
         /\ DOMAIN new.providers = DOMAIN ps /\ new.providers[a] = q
         /\ \A b \in DOMAIN ps \ {a} : new.providers[b] = ps[b]
         /\ TotalCollateral(new.providers) + p.collateral = TotalCollateral(ps) + q.collateral
         /\ TotalWithdrawing(new.providers) + p.withdrawing = TotalWithdrawing(ps) + q.withdrawing
         /\ TotalRewards(new.providers) + p.rewards = TotalRewards(ps) + q.rewards
    BY <1>2, <1>18 DEF ProviderIsSet
  <1>20. Shrinks(queue, new.withdraws, a, more)
    <2>1. CASE more = 0
      BY <1>1, <1>2, <1>8, <2>1, ShrinksNot
    <2>2. CASE more # 0
      <3>1. skip + more <= AmountOf(queue, OfAddress(queue, a))
        BY <1>10, <1>12, <2>2
      <3>2. QED
        BY <1>1, <1>2, <1>8, <1>11, <2>2, <3>1, PayoutShrinks
    <2>3. QED
      BY <2>1, <2>2
  <1>21. q.withdrawing \in Nat /\ q.collateral \in Nat /\ p.collateral \in Nat /\ p.rewards \in Nat
    BY <1>3, <1>15, SoundAmounts
  <1>22. Queued(new.providers, new.withdraws)
    BY <1>1, <1>2, <1>3, <1>11, <1>15, <1>19, <1>20, <1>21, ShrinksQueued
  <1>23. GoodQueue(new.withdraws)
    BY <1>20 DEF Shrinks
  <1>24. /\ TotalCollateral(ps) \in Nat /\ TotalWithdrawing(ps) \in Nat /\ TotalRewards(ps) \in Nat
         /\ TotalCollateral(new.providers) \in Nat /\ TotalWithdrawing(new.providers) \in Nat
         /\ TotalRewards(new.providers) \in Nat
    BY <1>1, <1>2, <1>19, TotalsNat
  <1>25. new.totalWithdrawing = TotalWithdrawing(new.providers)
    BY <1>1, <1>2, <1>8, <1>10, <1>11, <1>15, <1>19, <1>21, <1>24
  <1>26. TotalCollateral(new.providers) + payout = TotalCollateral(ps)
    BY <1>15, <1>19, <1>21, <1>24
  <1>27. TotalRewards(new.providers) = TotalRewards(ps)
    BY <1>15, <1>19, <1>21, <1>24
  <1>28. Pays(s, new, payout)
    BY <1>2, <1>20, <1>26, <1>27 DEF Pays, Shrinks
  <1>29. \A b \in DOMAIN new.providers : new.delegated[b] = new.providers[b].bonded
    BY <1>1, <1>2, <1>3, <1>8, <1>15, <1>19
  <1>30. PaidBooks(new)
    BY <1>1, <1>2, <1>8, <1>19, <1>22, <1>23, <1>25, <1>29 DEF PaidBooks
  <1>31. QED
    BY <1>8, <1>28, <1>30

\* Nothing is paid.
LEMMA PaysNothing ==
  ASSUME NEW s, PaidBooks(s)
  PROVE  Pays(s, s, 0)
  <1>1. GoodProviders(s.providers) /\ GoodQueue(s.withdraws)
    BY DEF PaidBooks
  <1>2. TotalCollateral(s.providers) \in Nat
    BY <1>1, TotalsNat
  <1>3. \A t : AmountOf(s.withdraws, DueBy(s.withdraws, t)) \in Nat
    <2>1. \A t : DueBy(s.withdraws, t) \in SUBSET DOMAIN s.withdraws
      BY DEF DueBy
    <2>2. QED
      BY <1>1, <2>1, AmountNat
  <1>4. TotalCollateral(s.providers) + 0 = TotalCollateral(s.providers)
    BY <1>2
  <1>5. QED
    BY <1>3, <1>4 DEF Pays

\* What is paid in two steps adds up.
LEMMA PaysTwice ==
  ASSUME NEW s, NEW mid, NEW new, PaidBooks(s), PaidBooks(mid), PaidBooks(new),
         NEW x \in Nat, NEW y \in Nat, Pays(s, mid, x), Pays(mid, new, y)
  PROVE  Pays(s, new, x + y)
  <1>1. ASSUME NEW r, PaidBooks(r)
        PROVE  /\ TotalCollateral(r.providers) \in Nat
               /\ \A t : AmountOf(r.withdraws, DueBy(r.withdraws, t)) \in Nat
    <2>1. GoodProviders(r.providers) /\ GoodQueue(r.withdraws)
      BY <1>1 DEF PaidBooks
    <2>2. \A t : DueBy(r.withdraws, t) \in SUBSET DOMAIN r.withdraws
      BY DEF DueBy
    <2>3. QED
      BY <2>1, <2>2, TotalsNat, AmountNat
  <1>2. TotalCollateral(new.providers) + (x + y) = TotalCollateral(s.providers)
    <2>1. PICK u \in Nat, v \in Nat, w \in Nat :
            /\ u = TotalCollateral(s.providers) /\ v = TotalCollateral(mid.providers)
            /\ w = TotalCollateral(new.providers)
      BY <1>1
    <2>2. v + x = u /\ w + y = v
      BY <2>1 DEF Pays
    <2>3. w + (x + y) = u
      BY <2>2
    <2>4. QED
      BY <2>1, <2>3
  <1>3. TotalRewards(new.providers) = TotalRewards(s.providers)
    BY DEF Pays
  <1>4. ASSUME NEW t \in Nat, t < now + WithdrawPeriod
        PROVE  AmountOf(new.withdraws, DueBy(new.withdraws, t))
                 <= AmountOf(s.withdraws, DueBy(s.withdraws, t))
    <2>1. PICK u \in Nat, v \in Nat, w \in Nat :
            /\ u = AmountOf(s.withdraws, DueBy(s.withdraws, t))
            /\ v = AmountOf(mid.withdraws, DueBy(mid.withdraws, t))
            /\ w = AmountOf(new.withdraws, DueBy(new.withdraws, t))
      BY <1>1
    <2>2. v <= u /\ w <= v
      BY <1>4, <2>1 DEF Pays
    <2>3. QED
      BY <2>1, <2>2
  <1>5. QED
    BY <1>2, <1>3, <1>4 DEF Pays

\* The record of the provider after the staking hook.
HookedProvider(p, staked, sum) == [p EXCEPT !.bonded = staked, !.withdrawing = p.withdrawing + sum]

\* The fields after PayFromDelegation.
LEMMA PayFromDelegationFields ==
  ASSUME NEW s, IsPaying(s), NEW a \in DOMAIN s.providers, NEW amount, amount # 0,
         IsStore(s.providers, Accounts, Provider),
         NEW staked, staked = s.delegated[a] - amount,
         NEW sum, sum = Unbacked(s.providers[a], staked),
         NEW new, new = PayFromDelegation(s, a, amount)
  PROVE  /\ IsPaying(new)
         /\ new.providers = StoreSet(s.providers, a, HookedProvider(s.providers[a], staked, sum))
         /\ new.totalWithdrawing = s.totalWithdrawing + sum
         /\ new.withdraws = AddWithdraw(s.withdraws, a, sum)
         /\ new.delegated = [s.delegated EXCEPT ![a] = staked]
         /\ new.unbonding = s.unbonding /\ new.panic = s.panic
         /\ new.purchased = s.purchased /\ new.payout = s.payout
  <1>1. PICK mid : mid = [s EXCEPT !.delegated[a] = @ - amount]
    OBVIOUS
  <1>2. /\ IsPaying(mid) /\ mid.providers = s.providers /\ mid.withdraws = s.withdraws
        /\ mid.totalWithdrawing = s.totalWithdrawing
        /\ mid.delegated = [s.delegated EXCEPT ![a] = staked]
        /\ mid.unbonding = s.unbonding /\ mid.panic = s.panic
        /\ mid.purchased = s.purchased /\ mid.payout = s.payout
    BY <1>1 DEF IsPaying
  <1>3. new = HookOnPayout(mid, a, staked)
    BY <1>1 DEF PayFromDelegation
  <1>4. PICK queue : queue = AddWithdraw(mid.withdraws, a, sum)
    OBVIOUS
  <1>5. new = [mid EXCEPT !.providers[a].bonded = staked,
                          !.providers[a].withdrawing = @ + sum,
                          !.totalWithdrawing = @ + sum,
                          !.withdraws = queue]
    BY <1>2, <1>3, <1>4 DEF HookOnPayout
  <1>6. /\ IsPaying(new)
        /\ new.totalWithdrawing = mid.totalWithdrawing + sum
        /\ new.withdraws = queue
        /\ new.delegated = mid.delegated
        /\ new.unbonding = mid.unbonding /\ new.panic = mid.panic
        /\ new.purchased = mid.purchased /\ new.payout = mid.payout
    BY <1>2, <1>5 DEF IsPaying
  <1>7. new.providers = [s.providers EXCEPT ![a].bonded = staked, ![a].withdrawing = @ + sum]
    BY <1>2, <1>5 DEF IsPaying
  <1>8. DOMAIN s.providers[a] = {"bonded", "collateral", "withdrawing", "rewards"}
    BY DEF IsStore, Provider
  <1>9. new.providers = [s.providers EXCEPT ![a] = HookedProvider(s.providers[a], staked, sum)]
    BY <1>7, <1>8 DEF HookedProvider
  <1>10. new.providers = StoreSet(s.providers, a, HookedProvider(s.providers[a], staked, sum))
    BY <1>9, StoreUpdate
  <1>11. QED
    BY <1>2, <1>4, <1>6, <1>10

\* The provider withdraws sum, and the rest is backed by staked.
Rebacked(p, new, staked, sum) ==
  /\ Sound(new) /\ new.bonded = staked /\ new.rewards = p.rewards
  /\ new.collateral = p.collateral /\ new.withdrawing = p.withdrawing + sum
  /\ sum \in Nat

\* The record of the provider stays sound.
LEMMA HookedProviderSound ==
  ASSUME NEW p, Sound(p), NEW staked \in Nat, NEW sum, sum = Unbacked(p, staked),
         NEW new, new = HookedProvider(p, staked, sum)
  PROVE  Rebacked(p, new, staked, sum)
  <1>1. PICK c \in Nat, w \in Nat : c = p.collateral /\ w = p.withdrawing /\ w <= c
    BY SoundAmounts DEF Sound
  <1>2. PICK u \in Nat : u = sum /\ c - w - u <= staked /\ w + u <= c
    BY <1>1 DEF Unbacked, MaxInt
  <1>3. PICK x \in Nat : x = w + u
    OBVIOUS
  <1>4. new = [p EXCEPT !.bonded = staked, !.withdrawing = x]
    BY <1>1, <1>2, <1>3 DEF HookedProvider
  <1>5. p \in Provider
    BY DEF Sound
  <1>6. PICK mid : mid = [p EXCEPT !.bonded = staked]
    OBVIOUS
  <1>7. /\ mid \in Provider /\ mid.bonded = staked
        /\ mid.collateral = p.collateral /\ mid.rewards = p.rewards
    BY <1>5, <1>6 DEF Provider
  <1>8. new = [mid EXCEPT !.withdrawing = x]
    BY <1>4, <1>6
  <1>9. /\ new \in Provider /\ new.bonded = staked /\ new.withdrawing = x
        /\ new.collateral = p.collateral /\ new.rewards = p.rewards
    BY <1>7, <1>8 DEF Provider
  <1>10. x <= c /\ c - x <= staked
    BY <1>2, <1>3
  <1>11. Sound(new)
    BY <1>1, <1>9, <1>10 DEF Sound
  <1>12. QED
    BY <1>1, <1>2, <1>3, <1>9, <1>11 DEF Rebacked

\* A queue that gains an amount of one provider is matched when its record gains it too.
LEMMA GrowsQueued ==
  ASSUME NEW ps, NEW new, NEW queue, NEW more, NEW a \in DOMAIN ps, NEW sum \in Nat, NEW time \in Nat,
         GoodQueue(queue), Queued(ps, queue), Grows(queue, more, a, sum, time),
         HoldsMore(queue, more, a, sum, time),
         DOMAIN new = DOMAIN ps, \A b \in DOMAIN ps \ {a} : new[b] = ps[b],
         new[a].withdrawing = ps[a].withdrawing + sum
  PROVE  Queued(new, more)
  <1>1. \A n \in DOMAIN more : more[n].address \in DOMAIN new
    BY DEF Queued, Grows
  <1>2. \A b \in DOMAIN ps \ {a} : new[b].withdrawing = AmountOf(more, OfAddress(more, b))
    BY DEF Queued, HoldsMore
  <1>3. new[a].withdrawing = AmountOf(more, OfAddress(more, a))
    BY DEF Queued, HoldsMore
  <1>4. QED
    BY <1>1, <1>2, <1>3 DEF Queued

\* PayFromDelegation keeps the books: the hook withdraws what is no longer backed.
LEMMA PayFromDelegationKeeps ==
  ASSUME NEW s, PaidBooks(s), now \in Nat, NEW a \in DOMAIN s.providers, NEW amount \in Nat,
         amount <= s.providers[a].bonded,
         NEW new, new = PayFromDelegation(s, a, amount)
  PROVE  /\ PaidBooks(new) /\ Pays(s, new, 0) /\ new.panic = s.panic
         /\ new.purchased = s.purchased /\ new.payout = s.payout
         /\ DOMAIN new.providers = DOMAIN s.providers
  <1>1. CASE amount = 0
    <2>1. new = s
      BY <1>1 DEF PayFromDelegation
    <2>2. QED
      BY <2>1, PaysNothing
  <1>2. CASE amount # 0
    <2>1. /\ IsPaying(s) /\ GoodProviders(s.providers) /\ DOMAIN s.providers = DOMAIN providers
          /\ GoodQueue(s.withdraws) /\ Queued(s.providers, s.withdraws)
          /\ s.totalWithdrawing = TotalWithdrawing(s.providers)
          /\ s.delegated \in [Accounts -> Nat]
          /\ \A b \in DOMAIN s.providers : s.delegated[b] = s.providers[b].bonded
      BY DEF PaidBooks
    <2>2. PICK ps, queue : ps = s.providers /\ queue = s.withdraws
      OBVIOUS
    <2>3. PICK p : p = ps[a] /\ Sound(p)
      BY <2>1, <2>2 DEF GoodProviders
    <2>4. IsStore(s.providers, Accounts, Provider) /\ a \in Accounts
      BY <2>1 DEF GoodProviders, IsStore
    <2>5. PICK staked \in Nat : staked = s.delegated[a] - amount
      <3>1. PICK d \in Nat : d = s.delegated[a] /\ amount <= d
        BY <2>1, <2>4
      <3>2. QED
        BY <3>1
    <2>6. PICK sum : sum = Unbacked(p, staked)
      OBVIOUS
    <2>7. /\ IsPaying(new)
          /\ new.providers = StoreSet(ps, a, HookedProvider(p, staked, sum))
          /\ new.totalWithdrawing = s.totalWithdrawing + sum
          /\ new.withdraws = AddWithdraw(queue, a, sum)
          /\ new.delegated = [s.delegated EXCEPT ![a] = staked]
          /\ new.panic = s.panic
          /\ new.purchased = s.purchased /\ new.payout = s.payout
      BY <1>2, <2>1, <2>2, <2>3, <2>4, <2>5, <2>6, PayFromDelegationFields
    <2>8. PICK q : q = HookedProvider(p, staked, sum)
      OBVIOUS
    <2>9. /\ Sound(q) /\ q.bonded = staked /\ q.rewards = p.rewards
          /\ q.collateral = p.collateral /\ q.withdrawing = p.withdrawing + sum
          /\ sum \in Nat
      <3>1. Rebacked(p, q, staked, sum)
        BY <2>3, <2>6, <2>8, HookedProviderSound
      <3>2. QED
        BY <3>1 DEF Rebacked
    <2>10. IsProviderSet(ps, new.providers, a, p, q)
      BY <2>2, <2>3, <2>4, <2>7, <2>8, <2>9 DEF IsProviderSet
    <2>11. ProviderIsSet(ps, new.providers, a, p, q)
      BY <2>1, <2>2, <2>10, ProviderSetTotals
    <2>12. /\ GoodProviders(new.providers)
           /\ DOMAIN new.providers = DOMAIN ps /\ new.providers[a] = q
           /\ \A b \in DOMAIN ps \ {a} : new.providers[b] = ps[b]
           /\ TotalCollateral(new.providers) + p.collateral = TotalCollateral(ps) + q.collateral
           /\ TotalWithdrawing(new.providers) + p.withdrawing = TotalWithdrawing(ps) + q.withdrawing
           /\ TotalRewards(new.providers) + p.rewards = TotalRewards(ps) + q.rewards
      BY <2>2, <2>11 DEF ProviderIsSet
    <2>13. PICK time \in Nat : time = now + WithdrawPeriod
      BY ParamsAssumption
    <2>14. Grows(queue, new.withdraws, a, sum, time)
      BY <2>1, <2>2, <2>4, <2>7, <2>9, <2>13, AddWithdrawGrows
    <2>15. HoldsMore(queue, new.withdraws, a, sum, time)
      BY <2>1, <2>2, <2>9, <2>14, GrowsAmounts
    <2>16. Queued(new.providers, new.withdraws)
      BY <2>1, <2>2, <2>3, <2>9, <2>12, <2>14, <2>15, GrowsQueued
    <2>17. GoodQueue(new.withdraws)
      BY <2>14 DEF Grows
    <2>18. /\ TotalCollateral(ps) \in Nat /\ TotalWithdrawing(ps) \in Nat /\ TotalRewards(ps) \in Nat
           /\ TotalCollateral(new.providers) \in Nat /\ TotalWithdrawing(new.providers) \in Nat
           /\ TotalRewards(new.providers) \in Nat
      BY <2>1, <2>2, <2>12, TotalsNat
    <2>19. p.collateral \in Nat /\ p.withdrawing \in Nat /\ p.rewards \in Nat
      BY <2>3, SoundAmounts
    <2>20. new.totalWithdrawing = TotalWithdrawing(new.providers)
      BY <2>1, <2>2, <2>7, <2>9, <2>12, <2>18, <2>19
    <2>21. TotalCollateral(new.providers) + 0 = TotalCollateral(ps)
      BY <2>9, <2>12, <2>18, <2>19
    <2>22. TotalRewards(new.providers) = TotalRewards(ps)
      BY <2>9, <2>12, <2>18, <2>19
    <2>23. \A t : AmountOf(queue, DueBy(queue, t)) \in Nat
      <3>1. \A t : DueBy(queue, t) \in SUBSET DOMAIN queue
        BY DEF DueBy
      <3>2. QED
        BY <2>1, <2>2, <3>1, AmountNat
    <2>24. \A t \in Nat : t < now + WithdrawPeriod =>
             AmountOf(new.withdraws, DueBy(new.withdraws, t)) <= AmountOf(queue, DueBy(queue, t))
      BY <2>13, <2>15, <2>23 DEF HoldsMore
    <2>25. Pays(s, new, 0)
      BY <2>2, <2>21, <2>22, <2>24 DEF Pays
    <2>26. /\ new.delegated \in [Accounts -> Nat]
           /\ \A b \in DOMAIN new.providers : new.delegated[b] = new.providers[b].bonded
      <3>1. DOMAIN ps \subseteq Accounts
        BY <2>2, <2>4 DEF IsStore
      <3>2. QED
        BY <2>1, <2>2, <2>4, <2>7, <2>9, <2>12, <3>1
    <2>27. PaidBooks(new)
      BY <2>1, <2>2, <2>7, <2>12, <2>16, <2>17, <2>20, <2>26 DEF PaidBooks
    <2>28. QED
      BY <2>2, <2>7, <2>12, <2>25, <2>27
  <1>3. QED
    BY <1>1, <1>2

\* PayFromUnbondings leaves the books alone.
LEMMA PayFromUnbondingsKeeps ==
  ASSUME NEW s, PaidBooks(s), NEW a, NEW skip, NEW amount,
         NEW new, new = PayFromUnbondings(s, a, skip, amount)
  PROVE  /\ PaidBooks(new) /\ Pays(s, new, 0) /\ (s.panic => new.panic)
         /\ new.purchased = s.purchased /\ new.payout = s.payout
  <1>1. CASE amount = 0
    <2>1. new = s
      BY <1>1 DEF PayFromUnbondings
    <2>2. QED
      BY <2>1, PaysNothing
  <1>2. CASE amount # 0
    <2>1. PICK entries, bad : new = [s EXCEPT !.unbonding[a] = entries, !.panic = @ \/ bad]
      BY <1>2 DEF PayFromUnbondings
    <2>2. IsPaying(s)
      BY DEF PaidBooks
    <2>3. /\ IsPaying(new) /\ new.providers = s.providers /\ new.withdraws = s.withdraws
          /\ new.totalWithdrawing = s.totalWithdrawing /\ new.delegated = s.delegated
          /\ new.purchased = s.purchased /\ new.payout = s.payout
          /\ new.panic = (s.panic \/ bad)
      BY <2>1, <2>2 DEF IsPaying
    <2>4. PaidBooks(new)
      BY <2>3 DEF PaidBooks
    <2>5. Pays(s, new, 0)
      <3>1. Pays(s, s, 0)
        BY PaysNothing
      <3>2. QED
        BY <2>3, <3>1 DEF Pays
    <2>6. QED
      BY <2>3, <2>4, <2>5
  <1>3. QED
    BY <1>1, <1>2

\* MakePayoutByProviderDelegations keeps the books.
LEMMA PayFromStakeKeeps ==
  ASSUME NEW s, PaidBooks(s), now \in Nat, NEW a \in DOMAIN s.providers,
         NEW purchased \in Nat, NEW payout \in Nat,
         NEW new, new = PayFromStake(s, a, purchased, payout)
  PROVE  /\ PaidBooks(new) /\ Pays(s, new, 0) /\ (s.panic => new.panic)
         /\ new.purchased = s.purchased /\ new.payout = s.payout
  <1>1. PICK bonded \in Nat : bonded = s.providers[a].bonded
    <2>1. /\ s.delegated \in [Accounts -> Nat] /\ GoodProviders(s.providers)
          /\ \A b \in DOMAIN s.providers : s.delegated[b] = s.providers[b].bonded
      BY DEF PaidBooks
    <2>2. a \in Accounts
      BY <2>1 DEF GoodProviders, IsStore
    <2>3. QED
      BY <2>1, <2>2
  <1>2. PICK part : part = FromFree(bonded, purchased, payout)
    OBVIOUS
  <1>3. part \in Nat /\ part <= bonded
    BY <1>1, <1>2, FromFreeBounds
  <1>4. PICK mid : mid = PayFromDelegation(s, a, part)
    OBVIOUS
  <1>5. PICK skip : skip = MaxInt(purchased - bonded, 0)
    OBVIOUS
  <1>6. new = PayFromUnbondings(mid, a, skip, payout - part)
    BY <1>1, <1>2, <1>4, <1>5 DEF PayFromStake
  <1>7. /\ PaidBooks(mid) /\ Pays(s, mid, 0) /\ mid.panic = s.panic
        /\ mid.purchased = s.purchased /\ mid.payout = s.payout
    BY <1>1, <1>3, <1>4, PayFromDelegationKeeps
  <1>8. /\ PaidBooks(new) /\ Pays(mid, new, 0) /\ (mid.panic => new.panic)
        /\ new.purchased = mid.purchased /\ new.payout = mid.payout
    BY <1>6, <1>7, PayFromUnbondingsKeeps
  <1>9. Pays(s, new, 0 + 0)
    BY <1>7, <1>8, PaysTwice
  <1>10. QED
    BY <1>7, <1>8, <1>9

\* A part of an amount, reckoned by the share in the collateral and limited by what is left.
PayoutShare(c, amount, left) ==
  MinInt(TruncateInt(MulDec(Dec(c), QuoDec(Dec(amount), Dec(totalCollateral)))), left)

\* A part is within what is left.
LEMMA PayoutShareBounds ==
  ASSUME NEW c \in Nat, NEW amount \in Nat, NEW left \in Nat, totalCollateral \in Nat, totalCollateral > 0
  PROVE  PayoutShare(c, amount, left) \in Nat /\ PayoutShare(c, amount, left) <= left
  <1>1. Dec(c) \in Nat /\ Dec(amount) \in Nat /\ Dec(totalCollateral) \in Nat /\ Dec(totalCollateral) > 0
    BY PrecisionAssumption DEF Dec
  <1>2. PICK q \in Nat : q = QuoDec(Dec(amount), Dec(totalCollateral))
    BY <1>1, QuoDecNat
  <1>3. PICK m \in Nat : m = MulDec(Dec(c), q)
    BY <1>1, MulDecNat
  <1>4. PICK x \in Nat : x = TruncateInt(m)
    BY TruncateBelow
  <1>5. PayoutShare(c, amount, left) = MinInt(x, left)
    BY <1>2, <1>3, <1>4 DEF PayoutShare
  <1>6. QED
    BY <1>5 DEF MinInt

\* What falls to a provider is within what is left.
LEMMA ProviderPayoutBounds ==
  ASSUME NEW s, NEW a, s.providers[a].collateral \in Nat, NEW loss \in Nat,
         totalShield \in Nat, totalCollateral \in Nat, totalCollateral > 0,
         s.purchased \in Nat, s.payout \in Nat,
         NEW part, part = ProviderPayout(s, a, loss)
  PROVE  /\ part.purchased \in Nat /\ part.purchased <= s.purchased
         /\ part.payout \in Nat /\ part.payout <= s.payout
  <1>1. PICK c \in Nat, u \in Nat, v \in Nat : c = s.providers[a].collateral /\ u = s.purchased /\ v = s.payout
    OBVIOUS
  <1>2. PICK x \in Nat : x = PayoutShare(c, totalShield, u) /\ x <= u
    BY PayoutShareBounds
  <1>3. PICK y \in Nat : y = PayoutShare(c, loss, v) /\ y <= v
    BY PayoutShareBounds
  <1> DEFINE w == IF x < u /\ c > y + x THEN x + 1 ELSE x
             z == IF y < v /\ c > y + w THEN y + 1 ELSE y
  <1>4. part = [purchased |-> w, payout |-> z]
    BY <1>1, <1>2, <1>3 DEF ProviderPayout, PayoutShare
  <1>5. w \in Nat /\ w <= u /\ z \in Nat /\ z <= v
    BY <1>2, <1>3
  <1> HIDE DEF w, z
  <1>6. part.purchased = w /\ part.payout = z
    BY <1>4
  <1>7. QED
    BY <1>1, <1>5, <1>6

\* A panic stays.
LEMMA StakePanics ==
  ASSUME NEW s, IsPaying(s), s.panic, NEW a, NEW purchased, NEW payout,
         NEW new, new = PayFromStake(s, a, purchased, payout)
  PROVE  IsPaying(new) /\ new.panic
  <1>1. PICK part : part = FromFree(s.providers[a].bonded, purchased, payout)
    OBVIOUS
  <1>2. PICK skip : skip = MaxInt(purchased - s.providers[a].bonded, 0)
    OBVIOUS
  <1>3. PICK mid : mid = PayFromDelegation(s, a, part)
    OBVIOUS
  <1>4. new = PayFromUnbondings(mid, a, skip, payout - part)
    BY <1>1, <1>2, <1>3 DEF PayFromStake
  <1>5. IsPaying(mid) /\ mid.panic
    BY <1>3 DEF PayFromDelegation, HookOnPayout, IsPaying
  <1>6. QED
    BY <1>4, <1>5 DEF PayFromUnbondings, IsPaying

\* The loop has paid what is no longer left of the loss, starting from base, or panicked.
PaidFor(base, s, loss) ==
  \/ s.panic
  \/ /\ PaidBooks(s) /\ s.purchased \in Nat /\ s.payout \in Nat /\ s.payout <= loss
     /\ Pays(base, s, loss - s.payout)

\* The body of the loop keeps that.
LEMMA PaidForOne ==
  ASSUME NEW base, PaidBooks(base), now \in Nat, NEW a \in DOMAIN providers, NEW loss \in Nat,
         totalShield \in Nat, totalCollateral \in Nat, totalCollateral > 0,
         NEW s, PaidFor(base, s, loss), NEW new, new = Pay(s, a, loss)
  PROVE  PaidFor(base, new, loss)
  <1>1. CASE s.payout = 0 \/ s.panic
    <2>1. new = s
      BY <1>1 DEF Pay
    <2>2. QED
      BY <2>1
  <1>2. CASE ~ (s.payout = 0 \/ s.panic)
    <2>1. /\ PaidBooks(s) /\ s.purchased \in Nat /\ s.payout \in Nat /\ s.payout <= loss
          /\ Pays(base, s, loss - s.payout)
      BY <1>2 DEF PaidFor
    <2>2. /\ a \in DOMAIN s.providers /\ s.providers[a].collateral \in Nat
      <3>1. DOMAIN s.providers = DOMAIN providers /\ GoodProviders(s.providers)
        BY <2>1 DEF PaidBooks
      <3>2. Sound(s.providers[a])
        BY <3>1 DEF GoodProviders
      <3>3. QED
        BY <3>1, <3>2, SoundAmounts
    <2>3. PICK part : part = ProviderPayout(s, a, loss)
      OBVIOUS
    <2>4. /\ part.purchased \in Nat /\ part.purchased <= s.purchased
          /\ part.payout \in Nat /\ part.payout <= s.payout
      BY <2>1, <2>2, <2>3, ProviderPayoutBounds
    <2>5. PICK x \in Nat, y \in Nat : x = part.purchased /\ y = part.payout
      BY <2>4
    <2>6. PICK mid : mid = PayFromCollateral(s, a, x, y)
      OBVIOUS
    <2>7. PICK paid : paid = PayFromStake(mid, a, x, y)
      OBVIOUS
    <2>8. new = [paid EXCEPT !.purchased = @ - x, !.payout = @ - y]
      BY <1>2, <2>3, <2>5, <2>6, <2>7 DEF Pay
    <2>9. CASE mid.panic
      <3>1. IsStore(s.providers, Accounts, Provider) /\ IsPaying(s)
        BY <2>1 DEF PaidBooks, GoodProviders
      <3>2. PICK free : free = s.providers[a].collateral - s.providers[a].withdrawing
        OBVIOUS
      <3>3. PICK more : more = y - FromFree(free, x, y)
        OBVIOUS
      <3>4. IsPaying(mid)
        BY <2>2, <2>6, <3>1, <3>2, <3>3, PayFromCollateralFields
      <3>5. IsPaying(paid) /\ paid.panic
        BY <2>7, <2>9, <3>4, StakePanics
      <3>6. new.panic
        BY <2>8, <3>5 DEF IsPaying
      <3>7. QED
        BY <3>6 DEF PaidFor
    <2>10. CASE ~ mid.panic
      <3>1. /\ PaidBooks(mid) /\ Pays(s, mid, y)
            /\ mid.purchased = s.purchased /\ mid.payout = s.payout
        BY <2>1, <2>2, <2>6, <2>10, PayFromCollateralKeeps
      <3>2. a \in DOMAIN mid.providers
        BY <3>1 DEF PaidBooks
      <3>3. /\ PaidBooks(paid) /\ Pays(mid, paid, 0)
            /\ paid.purchased = mid.purchased /\ paid.payout = mid.payout
        BY <2>7, <3>1, <3>2, PayFromStakeKeeps
      <3>4. IsPaying(paid)
        BY <3>3 DEF PaidBooks
      <3>5. /\ IsPaying(new) /\ new.providers = paid.providers /\ new.withdraws = paid.withdraws
            /\ new.totalWithdrawing = paid.totalWithdrawing /\ new.delegated = paid.delegated
            /\ new.purchased = paid.purchased - x /\ new.payout = paid.payout - y
        BY <2>8, <3>4 DEF IsPaying
      <3>6. PICK u \in Nat, v \in Nat : u = s.payout - y /\ v = s.purchased - x
        BY <2>1, <2>4, <2>5
      <3>7. new.payout = u /\ new.purchased = v
        BY <3>1, <3>3, <3>5, <3>6
      <3>8. PICK d \in Nat : d = loss - s.payout
        BY <2>1
      <3>9. u <= loss /\ d + (y + 0) = loss - u
        BY <2>1, <2>4, <2>5, <3>6, <3>8
      <3>10. PaidBooks(new)
        BY <3>3, <3>5 DEF PaidBooks
      <3>11. Pays(base, paid, d + (y + 0))
        <4>1. Pays(base, s, d)
          BY <2>1, <3>8
        <4>2. Pays(s, paid, y + 0)
          BY <2>1, <3>1, <3>3, PaysTwice
        <4>3. y + 0 \in Nat
          OBVIOUS
        <4>4. QED
          BY <2>1, <3>3, <4>1, <4>2, <4>3, PaysTwice
      <3>12. Pays(base, paid, loss - u)
        BY <3>9, <3>11
      <3>13. Pays(base, new, loss - new.payout)
        BY <3>5, <3>7, <3>12 DEF Pays
      <3>14. QED
        BY <3>7, <3>9, <3>10, <3>13 DEF PaidFor
    <2>11. QED
      BY <2>9, <2>10
  <1>3. QED
    BY <1>1, <1>2

Paying == INSTANCE Loops WITH Step <- Pay, Last <- Greatest

\* The state the loop starts from.
BeforePayout(loss) ==
  [providers |-> providers, withdraws |-> withdraws, totalWithdrawing |-> totalWithdrawing,
   delegated |-> delegated, unbonding |-> unbonding, purchased |-> totalShield, payout |-> loss,
   panic |-> FALSE]

\* Payout is the loop over the providers.
LEMMA PayoutIsLoop ==
  ASSUME NEW loss
  PROVE  Payout(loss) = Paying!Loop(DOMAIN providers, BeforePayout(loss), loss)
  BY DEF Payout, MapThenFoldSet, Paying!Loop, Paying!IsRun, Greatest, BeforePayout

\* CreateReimbursement keeps the books when it does not panic.
LEMMA PaidAll ==
  ASSUME NEW loss \in Nat, PaidBooks(BeforePayout(loss)), now \in Nat,
         totalShield \in Nat, totalCollateral \in Nat, totalCollateral > 0
  PROVE  PaidFor(BeforePayout(loss), Payout(loss), loss)
  <1> DEFINE S == DOMAIN providers
             base == BeforePayout(loss)
  <1>1. IsFiniteSet(S) /\ S \subseteq Nat
    <2>1. base.providers = providers
      BY DEF BeforePayout
    <2>2. GoodProviders(providers)
      BY <2>1 DEF PaidBooks
    <2>3. QED
      BY <2>2, ProvidersFinite
  <1>2. \A s \in SUBSET S : s # {} => Greatest(s, loss) \in s
    <2> HIDE DEF S
    <2>1. \A s \in SUBSET S : IsFiniteSet(s) /\ s \subseteq Nat
      BY <1>1, FS_Subset
    <2>2. QED
      BY <2>1, GreatestIn
  <1>3. PaidFor(base, base, loss)
    <2>1. base.purchased = totalShield /\ base.payout = loss
      BY DEF BeforePayout
    <2>2. Pays(base, base, 0) /\ loss - base.payout = 0 /\ base.payout <= loss
      BY <2>1, PaysNothing
    <2> HIDE DEF base
    <2>3. Pays(base, base, loss - base.payout)
      BY <2>2
    <2>4. QED
      BY <2>1, <2>2, <2>3 DEF PaidFor, base
  <1>4. Payout(loss) = Paying!Loop(S, base, loss)
    BY PayoutIsLoop
  <1> HIDE DEF S, base
  <1>5. PICK g : Paying!Runs(g, S, base, loss)
    <2>1. \E size : Paying!HasSizes(S, size)
      <3>1. \E size : Delaying!HasSizes(S, size)
        BY <1>1, FiniteHasSizes
      <3>2. QED
        BY <3>1 DEF Delaying!HasSizes, Paying!HasSizes
    <2>2. QED
      BY <1>2, <2>1, Paying!LoopRuns, Zenon
  <1>6. /\ g[S] = Paying!Loop(S, base, loss) /\ g[{}] = base
        /\ \A s \in SUBSET S : s # {} =>
             /\ Greatest(s, loss) \in s
             /\ g[s] = Pay(g[s \ {Greatest(s, loss)}], Greatest(s, loss), loss)
    BY <1>5 DEF Paying!Runs
  <1> DEFINE T == {s \in SUBSET S : PaidFor(base, g[s], loss)}
  <1>7. ASSUME NEW s \in SUBSET S, \A t \in SUBSET s : t # s => t \in T
        PROVE  s \in T
    <2>1. CASE s = {}
      BY <1>3, <1>6, <2>1
    <2>2. CASE s # {}
      <3>1. PICK a : a = Greatest(s, loss)
        OBVIOUS
      <3>2. a \in s /\ g[s] = Pay(g[s \ {a}], a, loss)
        BY <1>6, <2>2, <3>1
      <3>3. PaidFor(base, g[s \ {a}], loss)
        BY <1>7, <3>2
      <3>4. a \in DOMAIN providers /\ PaidBooks(base)
        BY <3>2 DEF S, base
      <3>5. PaidFor(base, g[s], loss)
        BY <3>2, <3>3, <3>4, PaidForOne
      <3>6. QED
        BY <3>5
    <2>3. QED
      BY <2>1, <2>2
  <1>8. S \in T
    <2> HIDE DEF T
    <2>1. SUBSET S \subseteq T
      BY <1>1, <1>7, SubsetInduction
    <2>2. QED
      BY <2>1
  <1>9. PaidFor(base, g[S], loss)
    BY <1>8
  <1>10. QED
    BY <1>4, <1>6, <1>9 DEF base

-----------------------------------------------------------------------------
(* The kinds of steps.                                                     *)

\* A message of a provider or a delegator.
ClaimProviderStep ==
  /\ \E a \in Accounts, amount \in Nat :
       \/ DepositCollateral(a, amount)
       \/ WithdrawCollateral(a, amount)
       \/ Delegate(a, amount)
       \/ Undelegate(a, amount, amount = delegated[a])
  /\ UNCHANGED claimVars

SubmitStep ==
  \E id \in DOMAIN purchases, loss \in Nat, sender \in Accounts : loss > 0 /\ SubmitClaim(sender, id, loss)

EndStep == EndBlocker /\ UNCHANGED claimVars

NextStep == UNCHANGED claimVars /\ \E elapsed \in Nat : NextBlock(elapsed, 0)

\* A step that leaves the books alone.
QuietStep ==
  /\ phase' \in {phase, "gov", "halted"}
  /\ UNCHANGED <<now, totalClaimed, providerVars, poolVars, purchaseVars, feeVars, delegated,
                 moduleBalance, claimVars>>

\* Every step is of one of these kinds.
LEMMA ClaimStepKinds ==
  ASSUME BookInv, [ClaimsNext]_allVars
  PROVE  \/ ClaimProviderStep
         \/ SubmitStep
         \/ \E a \in Accounts, id \in DOMAIN reimbursements : WithdrawReimbursement(a, id)
         \/ \E id \in DOMAIN claims :
              \/ CertifiersPass(id)
              \/ RejectClaim(id)
              \/ VetoClaim(id)
              \/ PassClaim(id)
         \/ EndStep
         \/ NextStep
         \/ QuietStep
  <1>1. ASSUME NEW a \in Accounts, ShieldMsg(a) PROVE ClaimProviderStep
    BY <1>1, InputsAssumption DEF ShieldMsg, ClaimProviderStep
  <1>2. ASSUME ClaimMsg
        PROVE  SubmitStep \/ \E a \in Accounts, id \in DOMAIN reimbursements : WithdrawReimbursement(a, id)
    <2>1. ASSUME NEW id \in DOMAIN purchases, NEW loss \in LossInputs,
                 NEW sender \in Senders \cup {purchases[id].purchaser}, SubmitClaim(sender, id, loss)
          PROVE  SubmitStep
      <3>1. loss \in Nat /\ loss > 0
        BY ClaimsAssumption
      <3>2. purchases[id].purchaser \in Accounts
        BY DEF BookInv, IsStore, Purchase
      <3>3. sender \in Accounts
        BY <3>2, ClaimsAssumption
      <3>4. QED
        BY <2>1, <3>1, <3>3 DEF SubmitStep
    <2>2. QED
      BY <1>2, <2>1 DEF ClaimMsg
  <1>3. ASSUME ShieldBlock PROVE EndStep \/ NextStep \/ QuietStep
    <2>1. CASE EndBlocker /\ UNCHANGED claimVars
      BY <2>1 DEF EndStep
    <2>2. CASE EndBlockerHalts /\ UNCHANGED claimVars
      BY <2>2 DEF EndBlockerHalts, QuietStep, stakingVars, bankVars
    <2>3. CASE StakingEndBlocker /\ UNCHANGED claimVars
      BY <2>3 DEF StakingEndBlocker, QuietStep
    <2>4. CASE (\E elapsed \in BlockTimes : NextBlock(elapsed, 0)) /\ UNCHANGED claimVars
      BY <2>4, InputsAssumption DEF NextStep
    <2>5. QED
      BY <1>3, <2>1, <2>2, <2>3, <2>4 DEF ShieldBlock
  <1>4. ASSUME NEW id, PassClaimHalts(id) PROVE QuietStep
    BY <1>4 DEF PassClaimHalts, QuietStep, stakingVars, bankVars
  <1>5. CASE UNCHANGED allVars
    BY <1>5 DEF allVars, vars, QuietStep, stakingVars, bankVars
  <1>6. CASE ClaimsNext
    BY <1>1, <1>2, <1>3, <1>4, <1>6 DEF ClaimsNext, ClaimsBlock, Vote
  <1>7. QED
    BY <1>5, <1>6

\* The messages of providers and delegators are among those of module Shield.
LEMMA ClaimProviderStepIs ==
  ASSUME ClaimProviderStep
  PROVE  ProviderStep /\ UNCHANGED claimVars
  BY DEF ClaimProviderStep, ProviderStep

-----------------------------------------------------------------------------
(* ClaimInv: the claims that are voted on.                                 *)

Losses(cs) == [id \in DOMAIN cs |-> cs[id].loss]

LossIn(cs, S) == SumFunctionOnSet(Losses(cs), S)

GoodClaims(cs) == IsStore(cs, Nat, Claim) /\ IsFiniteSet(DOMAIN cs)

ClaimInv ==
  /\ GoodClaims(claims)
  /\ nextProposalID \in Nat /\ \A id \in DOMAIN claims : id < nextProposalID
  /\ totalClaimed = LossIn(claims, DOMAIN claims)

\* The losses are natural numbers.
LEMMA LossNat ==
  ASSUME NEW cs, GoodClaims(cs), NEW S \in SUBSET DOMAIN cs
  PROVE  /\ IsFiniteSet(S) /\ LossIn(cs, S) \in Nat
         /\ \A id \in DOMAIN cs : Losses(cs)[id] \in Nat
  <1>1. \A id \in DOMAIN cs : Losses(cs)[id] \in Nat
    BY DEF GoodClaims, IsStore, Claim, Losses
  <1>2. IsFiniteSet(S)
    BY FS_Subset DEF GoodClaims
  <1>3. QED
    BY <1>1, <1>2, SumNat DEF LossIn

\* The loss of the claims that are voted on, as a sum over one function of all of them.
LEMMA LossOfSum ==
  ASSUME ClaimInv, NEW S \in SUBSET DOMAIN claims
  PROVE  LossOf(S) = LossIn(claims, S)
  <1>1. IsFiniteSet(S)
    BY LossNat DEF ClaimInv
  <1>2. \A id \in S : [i \in S |-> claims[i].loss][id] = Losses(claims)[id]
    BY DEF Losses
  <1>3. QED
    BY <1>1, <1>2, SumEqual DEF LossOf, SumOver, LossIn

\* The claims with one more, and without one.
ClaimsWith(cs, new, n, c) ==
  /\ GoodClaims(new) /\ DOMAIN new = DOMAIN cs \cup {n} /\ new[n] = c
  /\ \A id \in DOMAIN cs : new[id] = cs[id]
  /\ LossIn(new, DOMAIN new) = LossIn(cs, DOMAIN cs) + c.loss
  /\ c.loss \in Nat

ClaimsWithout(cs, new, n) ==
  /\ GoodClaims(new) /\ DOMAIN new = DOMAIN cs \ {n}
  /\ \A id \in DOMAIN new : new[id] = cs[id]
  /\ LossIn(cs, DOMAIN cs) = LossIn(new, DOMAIN new) + cs[n].loss
  /\ cs[n].loss \in Nat

\* The claims with other rounds.
SameClaims(cs, new) ==
  /\ GoodClaims(new) /\ DOMAIN new = DOMAIN cs
  /\ \A i \in DOMAIN cs : /\ new[i].loss = cs[i].loss /\ new[i].lockEnd = cs[i].lockEnd
                          /\ new[i].pool = cs[i].pool /\ new[i].purchase = cs[i].purchase

\* A claim is added.
LEMMA ClaimAdded ==
  ASSUME NEW cs, GoodClaims(cs), NEW n \in Nat, n \notin DOMAIN cs, NEW c \in Claim,
         NEW new, new = StoreSet(cs, n, c)
  PROVE  ClaimsWith(cs, new, n, c)
  <1>1. GoodClaims(new)
    BY StoreType, StoreFinite, Zenon DEF GoodClaims
  <1>2. /\ DOMAIN new = DOMAIN cs \cup {n} /\ new[n] = c
        /\ \A id \in DOMAIN cs : new[id] = cs[id]
    BY DEF StoreSet
  <1>3. c.loss \in Nat
    BY DEF Claim
  <1>4. Losses(new)[n] = c.loss /\ \A id \in DOMAIN cs : Losses(new)[id] = Losses(cs)[id]
    BY <1>2 DEF Losses
  <1>5. \A id \in DOMAIN new : Losses(new)[id] \in Nat
    <2>1. DOMAIN new \in SUBSET DOMAIN new
      OBVIOUS
    <2>2. QED
      BY <1>1, <2>1, LossNat
  <1>6. IsFiniteSet(DOMAIN cs)
    BY DEF GoodClaims
  <1>7. SumFunctionOnSet(Losses(new), DOMAIN cs \cup {n})
          = Losses(new)[n] + SumFunctionOnSet(Losses(new), DOMAIN cs)
    BY <1>2, <1>5, <1>6, SumAdd
  <1>8. SumFunctionOnSet(Losses(new), DOMAIN cs) = SumFunctionOnSet(Losses(cs), DOMAIN cs)
    BY <1>4, <1>6, SumEqual
  <1>9. LossIn(cs, DOMAIN cs) \in Nat
    BY LossNat
  <1>10. PICK x \in Nat, y \in Nat : x = LossIn(cs, DOMAIN cs) /\ y = c.loss
    BY <1>3, <1>9
  <1>11. LossIn(new, DOMAIN new) = y + x
    BY <1>2, <1>4, <1>7, <1>8, <1>10 DEF LossIn
  <1>12. QED
    BY <1>1, <1>2, <1>3, <1>10, <1>11 DEF ClaimsWith

\* A claim ends.
LEMMA ClaimEnded ==
  ASSUME NEW cs, GoodClaims(cs), NEW n \in DOMAIN cs, NEW new, new = StoreDelete(cs, {n})
  PROVE  ClaimsWithout(cs, new, n)
  <1>1. GoodClaims(new)
    BY StoreType, StoreFinite, Zenon DEF GoodClaims
  <1>2. DOMAIN new = DOMAIN cs \ {n} /\ \A id \in DOMAIN new : new[id] = cs[id]
    BY DEF StoreDelete, Restrict
  <1>3. IsFiniteSet(DOMAIN cs) /\ \A id \in DOMAIN cs : Losses(cs)[id] \in Nat
    <2>1. DOMAIN cs \in SUBSET DOMAIN cs
      OBVIOUS
    <2>2. QED
      BY <2>1, LossNat
  <1>4. Losses(cs)[n] = cs[n].loss
    BY DEF Losses
  <1>5. SumFunctionOnSet(Losses(cs), DOMAIN cs)
          = Losses(cs)[n] + SumFunctionOnSet(Losses(cs), DOMAIN cs \ {n})
    BY <1>3, SumRemove
  <1>6. IsFiniteSet(DOMAIN new) /\ \A id \in DOMAIN new : Losses(new)[id] = Losses(cs)[id]
    BY <1>1, <1>2 DEF Losses, GoodClaims
  <1>7. SumFunctionOnSet(Losses(new), DOMAIN new) = SumFunctionOnSet(Losses(cs), DOMAIN new)
    BY <1>6, SumEqual
  <1>8. LossIn(new, DOMAIN new) \in Nat
    BY <1>1, LossNat
  <1>9. PICK x \in Nat, y \in Nat : x = LossIn(new, DOMAIN new) /\ y = cs[n].loss
    BY <1>3, <1>4, <1>8
  <1>10. LossIn(cs, DOMAIN cs) = y + x
    BY <1>2, <1>4, <1>5, <1>7, <1>9 DEF LossIn
  <1>11. LossIn(cs, DOMAIN cs) = x + y
    BY <1>10
  <1>12. QED
    BY <1>1, <1>2, <1>9, <1>11 DEF ClaimsWithout

\* The claim that a message submits.
Submitted(sender, id, loss) ==
  [pool |-> purchases[id].pool, purchase |-> id, claimant |-> purchases[id].purchaser,
   sender |-> sender, loss |-> loss, round |-> 1,
   votingEnd |-> now + VotingPeriod, lockEnd |-> now + 2 * VotingPeriod]

\* It is a claim.
LEMMA SubmittedIsClaim ==
  ASSUME BookInv, NEW id \in DOMAIN purchases, NEW sender \in Accounts, NEW loss \in Nat
  PROVE  Submitted(sender, id, loss) \in Claim
  <1>1. purchases[id].pool \in Nat /\ purchases[id].purchaser \in Accounts /\ id \in Nat
    BY DEF BookInv, IsStore, Purchase
  <1>2. now + VotingPeriod \in Nat /\ now + 2 * VotingPeriod \in Nat
    BY ClaimsAssumption DEF BookInv
  <1>3. QED
    BY <1>1, <1>2 DEF Submitted, Claim

\* How the claims change: one is added, one ends, one goes into its second round, or none
\* changes.
ClaimsChange ==
  \/ \E id \in DOMAIN purchases, loss \in Nat, sender \in Accounts :
       /\ claims' = StoreSet(claims, nextProposalID, Submitted(sender, id, loss))
       /\ nextProposalID' = nextProposalID + 1
       /\ totalClaimed' = totalClaimed + loss
  \/ \E id \in DOMAIN claims :
       /\ claims' = StoreDelete(claims, {id})
       /\ nextProposalID' = nextProposalID
       /\ totalClaimed' = totalClaimed - claims[id].loss
  \/ \E id \in DOMAIN claims :
       /\ claims' = [claims EXCEPT ![id].round = 2, ![id].votingEnd = now + VotingPeriod]
       /\ UNCHANGED <<nextProposalID, totalClaimed>>
  \/ UNCHANGED <<claims, nextProposalID, totalClaimed>>

\* Every step changes the claims in one of these ways.
LEMMA ClaimsChangeStep ==
  ASSUME BookInv, [ClaimsNext]_allVars
  PROVE  ClaimsChange
  <1>1. CASE ClaimProviderStep
    BY <1>1, ClaimProviderStepIs, ProviderStepFrame DEF ClaimsChange, claimVars
  <1>2. CASE SubmitStep
    <2>1. PICK id \in DOMAIN purchases, loss \in Nat, sender \in Accounts : SubmitClaim(sender, id, loss)
      BY <1>2 DEF SubmitStep
    <2>2. /\ claims' = StoreSet(claims, nextProposalID, Submitted(sender, id, loss))
          /\ nextProposalID' = nextProposalID + 1 /\ totalClaimed' = totalClaimed + loss
      BY <2>1 DEF SubmitClaim, Submitted
    <2>3. QED
      BY <2>2 DEF ClaimsChange
  <1>3. ASSUME NEW a, NEW id, WithdrawReimbursement(a, id) PROVE ClaimsChange
    BY <1>3 DEF WithdrawReimbursement, ClaimsChange
  <1>4. ASSUME NEW id \in DOMAIN claims, CertifiersPass(id) PROVE ClaimsChange
    BY <1>4 DEF CertifiersPass, ClaimsChange, vars
  <1>5. ASSUME NEW id \in DOMAIN claims, RejectClaim(id) \/ VetoClaim(id) \/ PassClaim(id) PROVE ClaimsChange
    BY <1>5 DEF RejectClaim, VetoClaim, PassClaim, ClaimedAfter, ClaimsChange
  <1>6. CASE EndStep \/ NextStep \/ QuietStep
    BY <1>6 DEF EndStep, NextStep, QuietStep, EndBlocker, NextBlock, ClaimsChange, claimVars
  <1>7. QED
    BY <1>1, <1>2, <1>3, <1>4, <1>5, <1>6, ClaimStepKinds

\* Claims change their rounds: their losses and locks stay.
LEMMA RoundChanged ==
  ASSUME NEW cs, GoodClaims(cs), NEW id \in DOMAIN cs, NEW end \in Nat,
         NEW new, new = [cs EXCEPT ![id].round = 2, ![id].votingEnd = end]
  PROVE  SameClaims(cs, new)
  <1>1. cs \in [DOMAIN cs -> Claim] /\ DOMAIN cs \subseteq Nat
    BY DEF GoodClaims, IsStore
  <1>2. PICK c : c = cs[id] /\ c \in Claim
    BY <1>1
  <1>3. PICK d : d = [c EXCEPT !.round = 2]
    OBVIOUS
  <1>4. d \in Claim /\ d.loss = c.loss /\ d.lockEnd = c.lockEnd /\ d.pool = c.pool /\ d.purchase = c.purchase
    BY <1>2, <1>3 DEF Claim
  <1>5. PICK e : e = [d EXCEPT !.votingEnd = end]
    OBVIOUS
  <1>6. e \in Claim /\ e.loss = d.loss /\ e.lockEnd = d.lockEnd /\ e.pool = d.pool /\ e.purchase = d.purchase
    BY <1>4, <1>5 DEF Claim
  <1>7. new = [cs EXCEPT ![id] = e]
    BY <1>1, <1>2, <1>3, <1>5
  <1>8. new \in [DOMAIN cs -> Claim]
    BY <1>1, <1>6, <1>7
  <1>9. DOMAIN new = DOMAIN cs
    BY <1>7
  <1>10. GoodClaims(new)
    BY <1>1, <1>8, <1>9 DEF GoodClaims, IsStore
  <1>11. QED
    BY <1>1, <1>2, <1>4, <1>6, <1>7, <1>9, <1>10 DEF SameClaims

\* Every step keeps ClaimInv.
LEMMA ClaimInvStep ==
  ASSUME BookInv, ClaimInv, [ClaimsNext]_allVars
  PROVE  ClaimInv'
  <1>1. /\ GoodClaims(claims) /\ nextProposalID \in Nat /\ nextProposalID \notin DOMAIN claims
        /\ \A id \in DOMAIN claims : id < nextProposalID /\ id \in Nat
    BY DEF ClaimInv, GoodClaims, IsStore
  <1>2. PICK x \in Nat : x = LossIn(claims, DOMAIN claims) /\ x = totalClaimed
    BY LossNat DEF ClaimInv
  <1>3. ASSUME NEW id \in DOMAIN purchases, NEW loss \in Nat, NEW sender \in Accounts,
               claims' = StoreSet(claims, nextProposalID, Submitted(sender, id, loss)),
               nextProposalID' = nextProposalID + 1, totalClaimed' = totalClaimed + loss
        PROVE  ClaimInv'
    <2>1. PICK c : c = Submitted(sender, id, loss)
      OBVIOUS
    <2>2. c \in Claim /\ c.loss = loss
      <3>1. c.loss = loss
        BY <2>1 DEF Submitted
      <3>2. QED
        BY <2>1, <3>1, SubmittedIsClaim
    <2>3. ClaimsWith(claims, claims', nextProposalID, c)
      BY <1>1, <1>3, <2>1, <2>2, ClaimAdded
    <2>4. /\ GoodClaims(claims') /\ DOMAIN claims' = DOMAIN claims \cup {nextProposalID}
          /\ LossIn(claims', DOMAIN claims') = LossIn(claims, DOMAIN claims) + c.loss
      BY <2>3 DEF ClaimsWith
    <2>5. totalClaimed' = LossIn(claims', DOMAIN claims')
      BY <1>2, <1>3, <2>2, <2>4
    <2>6. nextProposalID' \in Nat /\ \A i \in DOMAIN claims' : i < nextProposalID'
      BY <1>1, <1>3, <2>4
    <2>7. QED
      BY <2>4, <2>5, <2>6 DEF ClaimInv
  <1>4. ASSUME NEW id \in DOMAIN claims, claims' = StoreDelete(claims, {id}),
               nextProposalID' = nextProposalID, totalClaimed' = totalClaimed - claims[id].loss
        PROVE  ClaimInv'
    <2>1. /\ GoodClaims(claims') /\ DOMAIN claims' = DOMAIN claims \ {id}
          /\ LossIn(claims, DOMAIN claims) = LossIn(claims', DOMAIN claims') + claims[id].loss
          /\ claims[id].loss \in Nat
      BY <1>1, <1>4, ClaimEnded DEF ClaimsWithout
    <2>2. PICK y \in Nat, z \in Nat : y = LossIn(claims', DOMAIN claims') /\ z = claims[id].loss
      BY <2>1, LossNat
    <2>3. x = y + z
      BY <1>2, <2>1, <2>2
    <2>4. totalClaimed' = LossIn(claims', DOMAIN claims')
      BY <1>2, <1>4, <2>2, <2>3
    <2>5. QED
      BY <1>1, <1>4, <2>1, <2>4 DEF ClaimInv
  <1>5. ASSUME NEW id \in DOMAIN claims,
               claims' = [claims EXCEPT ![id].round = 2, ![id].votingEnd = now + VotingPeriod],
               UNCHANGED <<nextProposalID, totalClaimed>>
        PROVE  ClaimInv'
    <2>1. now + VotingPeriod \in Nat
      BY ClaimsAssumption DEF BookInv
    <2>2. /\ GoodClaims(claims') /\ DOMAIN claims' = DOMAIN claims
          /\ \A i \in DOMAIN claims : claims'[i].loss = claims[i].loss
      <3>1. PICK end \in Nat : end = now + VotingPeriod
        BY <2>1
      <3>2. SameClaims(claims, claims')
        BY <1>1, <1>5, <3>1, RoundChanged
      <3>3. QED
        BY <3>2 DEF SameClaims
    <2>3. Losses(claims') = Losses(claims)
      BY <2>2 DEF Losses
    <2>4. QED
      BY <1>1, <1>2, <1>5, <2>2, <2>3 DEF ClaimInv, LossIn
  <1>6. CASE UNCHANGED <<claims, nextProposalID, totalClaimed>>
    BY <1>6 DEF ClaimInv, GoodClaims, LossIn, Losses
  <1>7. QED
    BY <1>3, <1>4, <1>5, <1>6, ClaimsChangeStep DEF ClaimsChange

-----------------------------------------------------------------------------
(* PurchaseInv: the shield of purchases, pools and the total when claims   *)
(* take shield out and put it back.                                        *)

ShieldBooked ==
  /\ ShieldIn(pools, DOMAIN pools) <= totalShield
  /\ \A id \in DOMAIN pools : ShieldIn(purchases, OfPool(purchases, id)) <= pools[id].shield

PurchaseInv ==
  /\ ShieldBooked
  /\ \A c \in DOMAIN claims : claims[c].purchase \in DOMAIN purchases =>
       purchases[claims[c].purchase].pool = claims[c].pool

\* The shields of the pools are natural numbers.
LEMMA PoolShields ==
  ASSUME BookInv, ShieldBooked
  PROVE  /\ \A id \in DOMAIN pools : /\ pools[id].shield \in Nat /\ Shields(pools)[id] \in Nat
                                     /\ ShieldIn(purchases, OfPool(purchases, id)) \in Nat
         /\ IsFiniteSet(DOMAIN pools) /\ ShieldIn(pools, DOMAIN pools) \in Nat /\ totalShield \in Nat
  <1>1. \A id : OfPool(purchases, id) \in SUBSET DOMAIN purchases
    BY DEF OfPool
  <1>2. \A id : ShieldIn(purchases, OfPool(purchases, id)) \in Nat
    BY <1>1, ShieldInNat
  <1>3. \A id \in DOMAIN pools : pools[id].shield \in Int
    BY DEF BookInv, IsStore, Pool
  <1>4. \A id \in DOMAIN pools : pools[id].shield \in Nat
    BY <1>2, <1>3 DEF ShieldBooked
  <1>5. \A id \in DOMAIN pools : Shields(pools)[id] \in Nat
    BY <1>4 DEF Shields
  <1>6. IsFiniteSet(DOMAIN pools) /\ totalShield \in Int
    BY DEF BookInv
  <1>7. ShieldIn(pools, DOMAIN pools) \in Nat
    BY <1>5, <1>6, SumNat DEF ShieldIn
  <1>8. totalShield \in Nat
    BY <1>6, <1>7 DEF ShieldBooked
  <1>9. QED
    BY <1>2, <1>4, <1>5, <1>6, <1>7, <1>8

\* The shield of one pool is set.
PoolWith(ps, new, p, z) ==
  /\ IsStore(new, Nat, Pool) /\ DOMAIN new = DOMAIN ps /\ new[p].shield = z
  /\ \A i \in DOMAIN ps \ {p} : new[i] = ps[i]

PoolSet(ps, new, p, z) == new = [ps EXCEPT ![p].shield = z]

\* That is what the update of the record does.
LEMMA PoolIsWith ==
  ASSUME BookInv, NEW p \in DOMAIN pools, NEW z \in Int, NEW new, PoolSet(pools, new, p, z)
  PROVE  PoolWith(pools, new, p, z)
  <1>1. DOMAIN pools \subseteq Nat /\ pools \in [DOMAIN pools -> Pool]
    BY DEF BookInv, IsStore
  <1>2. PICK q : q = [pools[p] EXCEPT !.shield = z]
    OBVIOUS
  <1>3. q \in Pool /\ q.shield = z
    BY <1>1, <1>2 DEF Pool
  <1>4. new = [pools EXCEPT ![p] = q]
    BY <1>1, <1>2 DEF PoolSet
  <1>5. new \in [DOMAIN pools -> Pool] /\ DOMAIN new = DOMAIN pools
    BY <1>1, <1>3, <1>4
  <1>6. QED
    BY <1>1, <1>3, <1>4, <1>5 DEF PoolWith, IsStore

\* The shield of one purchase is set, and its deletion may be put off.
PurchaseWith(ps, new, k, x) ==
  /\ IsStore(new, Nat, Purchase) /\ DOMAIN new = DOMAIN ps /\ new[k].shield = x
  /\ \A i \in DOMAIN ps \ {k} : new[i] = ps[i]
  /\ \A i \in DOMAIN ps : /\ new[i].pool = ps[i].pool /\ new[i].protectionEnd = ps[i].protectionEnd
                          /\ ps[i].deletion <= new[i].deletion

PurchaseSet(ps, new, k, q) ==
  /\ new = [ps EXCEPT ![k] = q]
  /\ q.pool = ps[k].pool /\ q.protectionEnd = ps[k].protectionEnd /\ ps[k].deletion <= q.deletion

\* That is what the update of the record does.
LEMMA PurchaseIsWith ==
  ASSUME BookInv, NEW k \in DOMAIN purchases, NEW x, NEW q \in Purchase, q.shield = x,
         NEW new, PurchaseSet(purchases, new, k, q)
  PROVE  PurchaseWith(purchases, new, k, x)
  <1>1. DOMAIN purchases \subseteq Nat /\ purchases \in [DOMAIN purchases -> Purchase]
    BY DEF BookInv, IsStore
  <1>2. new \in [DOMAIN purchases -> Purchase] /\ DOMAIN new = DOMAIN purchases /\ new[k] = q
    BY <1>1 DEF PurchaseSet
  <1>3. \A i \in DOMAIN purchases \ {k} : new[i] = purchases[i]
    BY <1>1 DEF PurchaseSet
  <1>4. \A i \in DOMAIN purchases : purchases[i].deletion \in Nat
    BY <1>1 DEF Purchase
  <1>5. \A i \in DOMAIN purchases \ {k} : purchases[i].deletion <= new[i].deletion
    BY <1>3, <1>4
  <1>6. \A i \in DOMAIN purchases : /\ new[i].pool = purchases[i].pool
                                    /\ new[i].protectionEnd = purchases[i].protectionEnd
                                    /\ purchases[i].deletion <= new[i].deletion
    BY <1>2, <1>3, <1>5 DEF PurchaseSet
  <1>7. QED
    BY <1>1, <1>2, <1>3, <1>6 DEF PurchaseWith, IsStore

\* The shield of the pools, when that of one is set.
LEMMA PoolWithSum ==
  ASSUME BookInv, ShieldBooked, NEW p \in DOMAIN pools, NEW z \in Nat, NEW new, PoolWith(pools, new, p, z)
  PROVE  /\ ShieldIn(new, DOMAIN new) + pools[p].shield = ShieldIn(pools, DOMAIN pools) + z
         /\ ShieldIn(new, DOMAIN new) \in Nat
  <1>1. /\ DOMAIN new = DOMAIN pools /\ new[p].shield = z
        /\ \A i \in DOMAIN pools \ {p} : new[i] = pools[i]
    BY DEF PoolWith
  <1>2. \A i \in DOMAIN pools : Shields(pools)[i] = pools[i].shield /\ pools[i].shield \in Nat
    BY PoolShields DEF Shields
  <1>3. \A i \in DOMAIN pools : Shields(new)[i] = new[i].shield
    BY <1>1 DEF Shields
  <1>4. \A i \in DOMAIN pools : Shields(new)[i] \in Nat /\ Shields(pools)[i] \in Nat
    BY <1>1, <1>2, <1>3
  <1>5. \A i \in DOMAIN pools \ {p} : Shields(new)[i] = Shields(pools)[i]
    BY <1>1, <1>2, <1>3
  <1>6. IsFiniteSet(DOMAIN pools)
    BY PoolShields
  <1>7. SumFunctionOnSet(Shields(new), DOMAIN pools) + Shields(pools)[p]
          = SumFunctionOnSet(Shields(pools), DOMAIN pools) + Shields(new)[p]
    BY <1>4, <1>5, <1>6, SumUpdate
  <1>8. SumFunctionOnSet(Shields(new), DOMAIN pools) \in Nat
    BY <1>4, <1>6, SumNat
  <1>9. QED
    BY <1>1, <1>2, <1>3, <1>7, <1>8 DEF ShieldIn

\* The shield of the purchases of a pool, when that of one is set.
LEMMA PurchaseWithSum ==
  ASSUME BookInv, NEW k \in DOMAIN purchases, NEW x \in Nat, NEW new, PurchaseWith(purchases, new, k, x),
         NEW id
  PROVE  /\ id # purchases[k].pool =>
              ShieldIn(new, OfPool(new, id)) = ShieldIn(purchases, OfPool(purchases, id))
         /\ id = purchases[k].pool =>
              ShieldIn(new, OfPool(new, id)) + purchases[k].shield
                = ShieldIn(purchases, OfPool(purchases, id)) + x
         /\ ShieldIn(new, OfPool(new, id)) \in Nat
  <1>1. /\ DOMAIN new = DOMAIN purchases /\ new[k].shield = x
        /\ \A i \in DOMAIN purchases \ {k} : new[i] = purchases[i]
        /\ \A i \in DOMAIN purchases : new[i].pool = purchases[i].pool
    BY DEF PurchaseWith
  <1>2. PICK S : S = OfPool(purchases, id)
    OBVIOUS
  <1>3. OfPool(new, id) = S /\ S \in SUBSET DOMAIN purchases /\ (k \in S <=> id = purchases[k].pool)
    BY <1>1, <1>2 DEF OfPool
  <1>4. IsFiniteSet(S) /\ \A i \in S : Shields(purchases)[i] \in Nat
    BY <1>3, ShieldInNat
  <1>5. \A i \in S : Shields(purchases)[i] = purchases[i].shield /\ Shields(new)[i] = new[i].shield
    BY <1>1, <1>3 DEF Shields
  <1>6. \A i \in S : Shields(new)[i] \in Nat
    BY <1>1, <1>3, <1>4, <1>5
  <1>7. \A i \in S \ {k} : Shields(new)[i] = Shields(purchases)[i]
    BY <1>1, <1>3, <1>5
  <1>8. CASE k \notin S
    <2>1. SumFunctionOnSet(Shields(new), S) = SumFunctionOnSet(Shields(purchases), S)
      BY <1>4, <1>7, <1>8, SumEqual
    <2>2. SumFunctionOnSet(Shields(purchases), S) \in Nat
      BY <1>4, SumNat
    <2>3. QED
      BY <1>2, <1>3, <1>8, <2>1, <2>2 DEF ShieldIn
  <1>9. CASE k \in S
    <2>1. SumFunctionOnSet(Shields(new), S) + Shields(purchases)[k]
            = SumFunctionOnSet(Shields(purchases), S) + Shields(new)[k]
      BY <1>4, <1>6, <1>7, <1>9, SumUpdate
    <2>2. SumFunctionOnSet(Shields(new), S) \in Nat
      BY <1>4, <1>6, SumNat
    <2>3. QED
      BY <1>1, <1>2, <1>3, <1>5, <1>9, <2>1, <2>2 DEF ShieldIn
  <1>10. QED
    BY <1>8, <1>9

\* Shield is moved in or out of a purchase, its pool and the total together.
LEMMA ShieldMoves ==
  ASSUME BookInv, ShieldBooked, NEW p \in DOMAIN pools, NEW z \in Nat, PoolWith(pools, pools', p, z),
         NEW k \in DOMAIN purchases, purchases[k].pool = p, NEW x \in Nat,
         PurchaseWith(purchases, purchases', k, x),
         x + pools[p].shield = purchases[k].shield + z,
         totalShield' + pools[p].shield = totalShield + z, totalShield' \in Int
  PROVE  ShieldBooked'
  <1>1. PICK u \in Nat, t \in Nat, m \in Nat : u = pools[p].shield /\ t = totalShield /\ m = ShieldIn(pools, DOMAIN pools)
    BY PoolShields
  <1>2. PICK n \in Nat : n = ShieldIn(pools', DOMAIN pools') /\ n + u = m + z
    BY <1>1, PoolWithSum
  <1>3. m <= t /\ totalShield' + u = t + z
    BY <1>1 DEF ShieldBooked
  <1>4. n <= totalShield'
    BY <1>2, <1>3
  <1>5. ASSUME NEW id \in DOMAIN pools' PROVE ShieldIn(purchases', OfPool(purchases', id)) <= pools'[id].shield
    <2>1. /\ DOMAIN pools' = DOMAIN pools /\ pools'[p].shield = z
          /\ \A i \in DOMAIN pools \ {p} : pools'[i] = pools[i]
      BY DEF PoolWith
    <2>2. PICK v \in Nat, w \in Nat :
            /\ v = ShieldIn(purchases, OfPool(purchases, id)) /\ w = ShieldIn(purchases', OfPool(purchases', id))
            /\ (id # p => w = v)
            /\ (id = p => w + purchases[k].shield = v + x)
      BY <2>1, PoolShields, PurchaseWithSum
    <2>3. v <= pools[id].shield
      BY <2>1, <2>2 DEF ShieldBooked
    <2>4. CASE id # p
      BY <2>1, <2>2, <2>3, <2>4
    <2>5. CASE id = p
      <3>1. PICK y \in Nat : y = purchases[k].shield
        BY DEF BookInv
      <3>2. w + y = v + x /\ v <= u /\ x + u = y + z
        BY <1>1, <2>2, <2>3, <2>5, <3>1
      <3>3. w <= z
        BY <3>2
      <3>4. QED
        BY <2>1, <2>2, <2>5, <3>3
    <2>6. QED
      BY <2>4, <2>5
  <1>6. QED
    BY <1>2, <1>4, <1>5 DEF ShieldBooked

\* Shield is put back into a pool and the total.
LEMMA ShieldAdds ==
  ASSUME BookInv, ShieldBooked, NEW p \in DOMAIN pools, NEW z \in Nat, PoolWith(pools, pools', p, z),
         pools[p].shield <= z, purchases' = purchases,
         totalShield' + pools[p].shield = totalShield + z, totalShield' \in Int
  PROVE  ShieldBooked'
  <1>1. PICK u \in Nat, t \in Nat, m \in Nat : u = pools[p].shield /\ t = totalShield /\ m = ShieldIn(pools, DOMAIN pools)
    BY PoolShields
  <1>2. PICK n \in Nat : n = ShieldIn(pools', DOMAIN pools') /\ n + u = m + z
    BY <1>1, PoolWithSum
  <1>3. m <= t /\ totalShield' + u = t + z
    BY <1>1 DEF ShieldBooked
  <1>4. n <= totalShield'
    BY <1>2, <1>3
  <1>5. /\ DOMAIN pools' = DOMAIN pools /\ pools'[p].shield = z
        /\ \A i \in DOMAIN pools \ {p} : pools'[i] = pools[i]
    BY DEF PoolWith
  <1>6. \A id \in DOMAIN pools : ShieldIn(purchases, OfPool(purchases, id)) \in Nat /\ pools[id].shield \in Nat
    BY PoolShields
  <1>7. \A id \in DOMAIN pools : pools[id].shield <= pools'[id].shield
    BY <1>5, <1>6
  <1>8. \A id \in DOMAIN pools' : ShieldIn(purchases', OfPool(purchases', id)) <= pools'[id].shield
    BY <1>5, <1>6, <1>7 DEF ShieldBooked
  <1>9. QED
    BY <1>2, <1>4, <1>8 DEF ShieldBooked

\* The books of pools and purchases stay well-formed when shield is moved.
LEMMA BooksMove ==
  ASSUME BookInv, NEW k, NEW x \in Nat, NEW new, PurchaseWith(purchases, new, k, x),
         k \in DOMAIN purchases, purchases' = new \/ purchases' = purchases,
         IsStore(pools', Nat, Pool), DOMAIN pools' = DOMAIN pools, totalShield' \in Int,
         UNCHANGED <<now, phase, nextPoolID, nextPurchaseID, feeVars>>
  PROVE  BookInv'
  <1>1. /\ IsStore(new, Nat, Purchase) /\ DOMAIN new = DOMAIN purchases /\ new[k].shield = x
        /\ \A i \in DOMAIN purchases \ {k} : new[i] = purchases[i]
        /\ \A i \in DOMAIN purchases : /\ new[i].protectionEnd = purchases[i].protectionEnd
                                       /\ purchases[i].deletion <= new[i].deletion
    BY DEF PurchaseWith
  <1>2. \A i \in DOMAIN purchases : /\ new[i].deletion \in Nat /\ purchases[i].deletion \in Nat
                                    /\ purchases[i].protectionEnd \in Nat
    BY <1>1 DEF BookInv, IsStore, Purchase
  <1>3. \A i \in DOMAIN purchases : new[i].shield \in Nat
    BY <1>1 DEF BookInv
  <1>4. \A i \in DOMAIN purchases : new[i].protectionEnd <= new[i].deletion
    BY <1>1, <1>2 DEF BookInv
  <1>5. \A i \in DOMAIN purchases : new[i].protectionEnd <= now + ProtectionPeriod
    BY <1>1 DEF BookInv
  <1>6. /\ IsStore(purchases', Nat, Purchase) /\ DOMAIN purchases' = DOMAIN purchases
        /\ \A i \in DOMAIN purchases :
             /\ purchases'[i].shield \in Nat
             /\ purchases'[i].protectionEnd <= purchases'[i].deletion
             /\ purchases'[i].protectionEnd <= now + ProtectionPeriod
    BY <1>1, <1>3, <1>4, <1>5 DEF BookInv
  <1>7. QED
    BY <1>6 DEF BookInv, feeVars

\* How a submission moves shield.
LEMMA SubmitMoves ==
  ASSUME BookInv, ShieldBooked, NEW id \in DOMAIN purchases, NEW loss \in Nat, NEW sender,
         SubmitClaim(sender, id, loss)
  PROVE  /\ BookInv' /\ ShieldBooked'
         /\ \A i \in DOMAIN purchases' : i \in DOMAIN purchases /\ purchases'[i].pool = purchases[i].pool
  <1>1. PICK p \in DOMAIN pools : p = purchases[id].pool
    BY DEF SubmitClaim, MayClaim
  <1>2. PICK u \in Nat, t \in Nat, y \in Nat, d \in Nat :
          u = pools[p].shield /\ t = totalShield /\ y = purchases[id].shield /\ d = purchases[id].deletion
    BY PoolShields DEF BookInv, IsStore, Purchase
  <1>3. loss <= u /\ loss <= y
    BY <1>1, <1>2 DEF SubmitClaim, MayClaim
  <1>4. PICK z \in Nat, x \in Nat : z = u - loss /\ x = y - loss
    BY <1>3
  <1>5. now + LockPeriod \in Nat
    BY LockEndNat DEF BookInv
  <1>6. PICK e \in Nat : e = MaxInt(d, now + LockPeriod) /\ d <= e
    BY <1>5 DEF MaxInt
  <1>7. /\ purchases' = [purchases EXCEPT ![id].shield = @ - loss,
                                          ![id].deletion = MaxInt(@, now + LockPeriod)]
        /\ pools' = [pools EXCEPT ![p].shield = @ - loss]
        /\ totalShield' = t - loss
        /\ UNCHANGED <<now, phase, nextPoolID, nextPurchaseID, feeVars>>
    BY <1>1, <1>2 DEF SubmitClaim
  <1>8. PoolSet(pools, pools', p, z)
    BY <1>2, <1>4, <1>7 DEF PoolSet
  <1>9. PoolWith(pools, pools', p, z)
    BY <1>8, PoolIsWith
  <1>10. PICK q : q = [purchases[id] EXCEPT !.shield = x, !.deletion = e]
    OBVIOUS
  <1>11. purchases[id] \in Purchase /\ purchases \in [DOMAIN purchases -> Purchase]
    BY DEF BookInv, IsStore
  <1>12. /\ q \in Purchase /\ q.shield = x /\ q.pool = purchases[id].pool
         /\ q.protectionEnd = purchases[id].protectionEnd /\ q.deletion = e
    <2>1. PICK mid : mid = [purchases[id] EXCEPT !.shield = x]
      OBVIOUS
    <2>2. /\ mid \in Purchase /\ mid.shield = x /\ mid.pool = purchases[id].pool
          /\ mid.protectionEnd = purchases[id].protectionEnd
      BY <1>11, <2>1 DEF Purchase
    <2>3. q = [mid EXCEPT !.deletion = e]
      BY <1>10, <2>1
    <2>4. QED
      BY <2>2, <2>3 DEF Purchase
  <1>13. purchases' = [purchases EXCEPT ![id] = q]
    <2>1. purchases' = [purchases EXCEPT ![id] = [purchases[id] EXCEPT
            !.shield = purchases[id].shield - loss, !.deletion = MaxInt(purchases[id].deletion, now + LockPeriod)]]
      BY <1>7, <1>11 DEF Purchase
    <2>2. QED
      BY <1>2, <1>4, <1>6, <1>10, <2>1
  <1>14. PurchaseWith(purchases, purchases', id, x)
    <2>1. PurchaseSet(purchases, purchases', id, q)
      BY <1>2, <1>6, <1>12, <1>13 DEF PurchaseSet
    <2>2. QED
      BY <1>12, <2>1, PurchaseIsWith
  <1>15. x + u = y + z /\ t - loss + u = t + z /\ t - loss \in Int
    BY <1>4
  <1>16. ShieldBooked'
    BY <1>1, <1>2, <1>7, <1>9, <1>14, <1>15, ShieldMoves
  <1>17. BookInv'
    <2>1. IsStore(pools', Nat, Pool) /\ DOMAIN pools' = DOMAIN pools
      BY <1>9 DEF PoolWith
    <2>2. totalShield' \in Int
      BY <1>7, <1>15
    <2>3. QED
      BY <1>7, <1>14, <2>1, <2>2, BooksMove
  <1>18. QED
    BY <1>14, <1>16, <1>17 DEF PurchaseWith

\* How a rejection moves shield.
LEMMA RejectMoves ==
  ASSUME BookInv, ClaimInv, PurchaseInv, NEW id \in DOMAIN claims, RejectClaim(id)
  PROVE  /\ BookInv' /\ ShieldBooked'
         /\ \A i \in DOMAIN purchases' : i \in DOMAIN purchases /\ purchases'[i].pool = purchases[i].pool
  <1>1. PICK claim : claim = claims[id]
    OBVIOUS
  <1>2. PICK loss \in Nat : loss = claim.loss
    BY <1>1 DEF ClaimInv, GoodClaims, IsStore, Claim
  <1>3. RestoreShield(claim) /\ UNCHANGED <<now, phase, nextPoolID, nextPurchaseID, feeVars>>
    BY <1>1 DEF RejectClaim
  <1>4. PICK t \in Nat : t = totalShield
    BY PoolShields DEF PurchaseInv
  <1>5. totalShield' = t + loss /\ totalShield' \in Int
    BY <1>2, <1>3, <1>4 DEF RestoreShield
  <1>6. ShieldBooked
    BY DEF PurchaseInv
  <1>7. CASE claim.pool \notin DOMAIN pools
    <2>1. UNCHANGED <<pools, purchases>>
      BY <1>3, <1>7 DEF RestoreShield
    <2>2. BookInv'
      BY <1>3, <1>5, <2>1 DEF BookInv, feeVars
    <2>3. ShieldIn(pools, DOMAIN pools) <= totalShield'
      <3>1. PICK m \in Nat : m = ShieldIn(pools, DOMAIN pools) /\ m <= t
        BY <1>4, <1>6, PoolShields DEF ShieldBooked
      <3>2. QED
        BY <1>5, <3>1
    <2>4. ShieldBooked'
      BY <1>6, <2>1, <2>3 DEF ShieldBooked
    <2>5. QED
      BY <2>1, <2>2, <2>4
  <1>8. CASE claim.pool \in DOMAIN pools
    <2>1. PICK p \in DOMAIN pools, u \in Nat : p = claim.pool /\ u = pools[p].shield
      BY <1>6, <1>8, PoolShields
    <2>2. PICK z \in Nat : z = u + loss /\ u <= z
      OBVIOUS
    <2>3. PoolSet(pools, pools', p, z)
      BY <1>2, <1>3, <1>8, <2>1, <2>2 DEF RestoreShield, PoolSet
    <2>4. PoolWith(pools, pools', p, z)
      BY <2>3, PoolIsWith
    <2>5. IsStore(pools', Nat, Pool) /\ DOMAIN pools' = DOMAIN pools
      BY <2>4 DEF PoolWith
    <2>6. totalShield' + u = t + z
      BY <1>5, <2>2
    <2>7. CASE claim.purchase \in DOMAIN purchases /\ claim.sender = claim.claimant
      <3>1. PICK k \in DOMAIN purchases, y \in Nat : k = claim.purchase /\ y = purchases[k].shield
        BY <2>7 DEF BookInv
      <3>2. PICK x \in Nat : x = y + loss
        OBVIOUS
      <3>3. purchases[k].pool = p
        BY <1>1, <2>1, <3>1 DEF PurchaseInv
      <3>4. purchases' = [purchases EXCEPT ![k].shield = x]
        BY <1>2, <1>3, <1>8, <2>7, <3>1, <3>2 DEF RestoreShield
      <3>5. purchases[k] \in Purchase /\ purchases \in [DOMAIN purchases -> Purchase]
        BY DEF BookInv, IsStore
      <3>6. PICK q : q = [purchases[k] EXCEPT !.shield = x]
        OBVIOUS
      <3>7. /\ q \in Purchase /\ q.shield = x /\ q.pool = purchases[k].pool
            /\ q.protectionEnd = purchases[k].protectionEnd /\ q.deletion = purchases[k].deletion
        BY <3>5, <3>6 DEF Purchase
      <3>8. purchases' = [purchases EXCEPT ![k] = q]
        BY <3>4, <3>5, <3>6
      <3>9. purchases[k].deletion <= q.deletion
        BY <3>5, <3>7 DEF Purchase
      <3>10. PurchaseWith(purchases, purchases', k, x)
        <4>1. PurchaseSet(purchases, purchases', k, q)
          BY <3>7, <3>8, <3>9 DEF PurchaseSet
        <4>2. QED
          BY <3>7, <4>1, PurchaseIsWith
      <3>11. x + u = y + z
        BY <2>2, <3>2
      <3>12. ShieldBooked'
        BY <1>4, <1>5, <1>6, <2>1, <2>4, <2>6, <3>1, <3>3, <3>10, <3>11, ShieldMoves
      <3>13. BookInv'
        BY <1>3, <1>5, <2>5, <3>10, BooksMove
      <3>14. QED
        BY <3>10, <3>12, <3>13 DEF PurchaseWith
    <2>8. CASE ~ (claim.purchase \in DOMAIN purchases /\ claim.sender = claim.claimant)
      <3>1. purchases' = purchases
        BY <1>3, <1>8, <2>8 DEF RestoreShield
      <3>2. ShieldBooked'
        BY <1>4, <1>5, <1>6, <2>1, <2>2, <2>4, <2>6, <3>1, ShieldAdds
      <3>3. BookInv'
        BY <1>3, <1>5, <2>5, <3>1 DEF BookInv, feeVars
      <3>4. QED
        BY <3>1, <3>2, <3>3
    <2>9. QED
      BY <2>7, <2>8
  <1>9. QED
    BY <1>7, <1>8

\* The EndBlocker takes the shield of the deleted purchases out of their pools and the total.
LEMMA EndBlockerBooked ==
  ASSUME BookInv, ShieldBooked, EndBlocker
  PROVE  ShieldBooked'
  <1> DEFINE D == DOMAIN purchases
             X == Deleted
             ps == purchases'
             K == DOMAIN pools
             Gone(id) == {i \in X : purchases[i].pool = id}
  <1>1. /\ DOMAIN ps = D \ X
        /\ \A i \in DOMAIN ps : ps[i].shield = purchases[i].shield /\ ps[i].pool = purchases[i].pool
    BY EndBlockerPurchases
  <1>2. X \in SUBSET D /\ \A i \in X : purchases[i].pool \in K
    BY DEF Deleted, Expired, EndBlocker, EndBlockerPanics
  <1>3. totalShield' = totalShield - ShieldOf(X)
    BY DEF EndBlocker
  <1>4. /\ DOMAIN pools' \subseteq K
        /\ \A id \in DOMAIN pools' : pools'[id].shield = pools[id].shield - ShieldOf(Gone(id))
        /\ \A id \in K \ DOMAIN pools' : pools[id].shield - ShieldOf(Gone(id)) <= 0
    BY EndBlockerPools
  <1>5. ASSUME NEW S \in SUBSET D
        PROVE  /\ ShieldIn(purchases, S) = ShieldIn(ps, S \ X) + ShieldOf(S \cap X)
               /\ ShieldIn(ps, S \ X) \in Nat /\ ShieldOf(S \cap X) \in Nat
    <2>1. S \ X \in SUBSET D /\ S \cap X \in SUBSET S /\ S \cap X \in SUBSET D
          /\ S \ (S \cap X) = S \ X
      OBVIOUS
    <2>2. ShieldIn(ps, S \ X) = ShieldIn(purchases, S \ X)
      BY <1>1, <2>1, ShieldInEqual
    <2>3. ShieldOf(S \cap X) = ShieldIn(purchases, S \cap X)
      BY <2>1, ShieldOfSum
    <2>4. IsFiniteSet(S) /\ \A i \in S : Shields(purchases)[i] \in Nat
      BY ShieldInNat
    <2>5. /\ SumFunctionOnSet(Shields(purchases), S)
               = SumFunctionOnSet(Shields(purchases), S \ (S \cap X))
                   + SumFunctionOnSet(Shields(purchases), S \cap X)
          /\ SumFunctionOnSet(Shields(purchases), S \ (S \cap X)) \in Nat
          /\ SumFunctionOnSet(Shields(purchases), S \cap X) \in Nat
      BY <2>1, <2>4, SumDifference
    <2>6. QED
      BY <2>1, <2>2, <2>3, <2>5 DEF ShieldIn
  <1> HIDE DEF X, ps
  <1>6. ASSUME NEW id \in K
        PROVE  /\ ShieldIn(ps, OfPool(ps, id)) \in Nat /\ ShieldOf(Gone(id)) \in Nat
               /\ ShieldIn(ps, OfPool(ps, id)) + ShieldOf(Gone(id)) <= pools[id].shield
    <2>1. PICK S : S = OfPool(purchases, id)
      OBVIOUS
    <2>2. S \in SUBSET D /\ S \ X = OfPool(ps, id) /\ S \cap X = Gone(id)
      BY <1>1, <1>2, <2>1 DEF OfPool
    <2>3. ShieldIn(purchases, S) <= pools[id].shield
      BY <2>1 DEF ShieldBooked
    <2> HIDE DEF Gone
    <2>4. PICK x \in Nat, y \in Nat :
            /\ x = ShieldIn(ps, S \ X) /\ y = ShieldOf(S \cap X)
            /\ ShieldIn(purchases, S) = x + y
      BY <1>5, <2>2
    <2>5. x = ShieldIn(ps, OfPool(ps, id)) /\ y = ShieldOf(Gone(id))
      BY <2>2, <2>4, Zenon
    <2>6. QED
      BY <2>3, <2>4, <2>5
  <1>7. PICK left : left = [id \in K |-> pools[id].shield - ShieldOf(Gone(id))]
    OBVIOUS
  <1>8. PICK gone : gone = [id \in K |-> ShieldOf(Gone(id))]
    OBVIOUS
  <1>9. PICK part : part = [id \in K |-> Gone(id)]
    OBVIOUS
  <1>10. IsFiniteSet(K) /\ \A id \in K : pools[id].shield \in Nat /\ Shields(pools)[id] = pools[id].shield
    BY PoolShields DEF Shields
  <1>11. \A id \in K : /\ left[id] \in Nat /\ gone[id] \in Nat
                       /\ Shields(pools)[id] = left[id] + gone[id]
    <2>1. ASSUME NEW id \in K
          PROVE  left[id] \in Nat /\ gone[id] \in Nat /\ Shields(pools)[id] = left[id] + gone[id]
      <3>1. PICK x \in Nat, y \in Nat, z \in Nat :
              x = ShieldIn(ps, OfPool(ps, id)) /\ y = ShieldOf(Gone(id)) /\ z = pools[id].shield /\ x + y <= z
        BY <1>6, <1>10
      <3>2. left[id] = z - y /\ gone[id] = y /\ Shields(pools)[id] = z
        BY <1>7, <1>8, <1>10, <3>1
      <3>3. QED
        BY <3>1, <3>2
    <2>2. QED
      BY <2>1
  <1>12. SumFunctionOnSet(Shields(pools), K) = SumFunctionOnSet(left, K) + SumFunctionOnSet(gone, K)
    BY <1>10, <1>11, SumPlus
  <1>13. SumFunctionOnSet(gone, K) = ShieldOf(X) /\ ShieldOf(X) \in Nat
    <2>1. IsFiniteSet(X) /\ ShieldOf(X) = SumFunctionOnSet(Shields(purchases), X) /\ ShieldOf(X) \in Nat
      BY <1>2, ShieldOfSum DEF ShieldIn
    <2>2. \A i \in X : Shields(purchases)[i] \in Nat
      BY <1>2, ShieldInNat
    <2>3. \A id \in K : part[id] \in SUBSET X /\ gone[id] = SumFunctionOnSet(Shields(purchases), part[id])
      <3>1. \A id \in K : Gone(id) \in SUBSET X /\ Gone(id) \in SUBSET D
        BY <1>2
      <3>2. \A id \in K : ShieldOf(Gone(id)) = ShieldIn(purchases, Gone(id))
        BY <3>1, ShieldOfSum
      <3> HIDE DEF Gone
      <3>3. QED
        BY <1>8, <1>9, <3>1, <3>2 DEF ShieldIn
    <2>4. \A id, jd \in K : id # jd => part[id] \cap part[jd] = {}
      BY <1>9
    <2>5. \A i \in X : \E id \in K : i \in part[id]
      BY <1>2, <1>9
    <2>6. SumFunctionOnSet(gone, K) = SumFunctionOnSet(Shields(purchases), X)
      <3>1. PICK f : f = Shields(purchases)
        OBVIOUS
      <3>2. IsFiniteSet(K)
        BY <1>10
      <3> HIDE DEF K, Gone
      <3>5. \A i \in X : f[i] \in Nat
        BY <2>2, <3>1
      <3>6. \A id \in K : part[id] \in SUBSET X /\ gone[id] = SumFunctionOnSet(f, part[id])
        BY <2>3, <3>1
      <3>3. SumFunctionOnSet(gone, K) = SumFunctionOnSet(f, X)
        BY <2>1, <2>4, <2>5, <3>2, <3>5, <3>6, SumCover
      <3>4. QED
        BY <3>1, <3>3
    <2>7. QED
      BY <2>1, <2>6
  <1>14. SumFunctionOnSet(left, K) = ShieldIn(pools', DOMAIN pools') /\ SumFunctionOnSet(left, K) \in Nat
    <2>1. PICK R \in SUBSET K : R = K \ DOMAIN pools' /\ K \ R = DOMAIN pools'
      BY <1>4
    <2>2. \A id \in K : left[id] \in Nat
      BY <1>11
    <2>3. \A id \in R : left[id] = 0
      BY <1>4, <1>7, <2>1, <2>2
    <2>4. IsFiniteSet(R) /\ IsFiniteSet(DOMAIN pools')
      BY <1>4, <1>10, FS_Subset
    <2>5. SumFunctionOnSet(left, R) = 0
      BY <2>3, <2>4, SumZero
    <2>6. /\ SumFunctionOnSet(left, K) = SumFunctionOnSet(left, K \ R) + SumFunctionOnSet(left, R)
          /\ SumFunctionOnSet(left, K \ R) \in Nat
      BY <1>10, <2>2, SumDifference
    <2>7. \A id \in DOMAIN pools' : left[id] = Shields(pools')[id]
      BY <1>4, <1>7 DEF Shields
    <2>8. SumFunctionOnSet(left, DOMAIN pools') = SumFunctionOnSet(Shields(pools'), DOMAIN pools')
      BY <2>4, <2>7, SumEqual
    <2>9. QED
      BY <2>1, <2>5, <2>6, <2>8 DEF ShieldIn
  <1>15. ShieldIn(pools', DOMAIN pools') <= totalShield'
    <2>1. PICK t \in Nat, m \in Nat : t = totalShield /\ m = SumFunctionOnSet(Shields(pools), K) /\ m <= t
      BY PoolShields DEF ShieldBooked, ShieldIn
    <2>2. QED
      BY <1>3, <1>12, <1>13, <1>14, <2>1
  <1>16. \A id \in DOMAIN pools' : ShieldIn(ps, OfPool(ps, id)) <= pools'[id].shield
    <2> HIDE DEF Gone
    <2>1. ASSUME NEW id \in DOMAIN pools' PROVE ShieldIn(ps, OfPool(ps, id)) <= pools'[id].shield
      <3>1. PICK x \in Nat, y \in Nat, z \in Nat :
              x = ShieldIn(ps, OfPool(ps, id)) /\ y = ShieldOf(Gone(id)) /\ z = pools[id].shield /\ x + y <= z
        BY <1>4, <1>6, <1>10
      <3>2. pools'[id].shield = z - y
        BY <1>4, <3>1
      <3>3. QED
        BY <3>1, <3>2
    <2>2. QED
      BY <2>1
  <1>17. QED
    BY <1>15, <1>16 DEF ShieldBooked, ps

\* How the claims follow the purchases.
ClaimsFollow ==
  \A c \in DOMAIN claims : claims[c].purchase \in DOMAIN purchases =>
    purchases[claims[c].purchase].pool = claims[c].pool

\* The purchases are the same or fewer, each in its pool.
PurchasesStay ==
  \A i \in DOMAIN purchases' : i \in DOMAIN purchases /\ purchases'[i].pool = purchases[i].pool

\* Then the claims still follow them.
LEMMA ClaimsStillFollow ==
  ASSUME BookInv, ClaimInv, ClaimsFollow, PurchasesStay, ClaimsChange
  PROVE  ClaimsFollow'
  <1>1. \A c \in DOMAIN claims : claims[c].purchase \in DOMAIN purchases' =>
          purchases'[claims[c].purchase].pool = claims[c].pool
    BY DEF ClaimsFollow, PurchasesStay
  <1>2. ASSUME NEW id \in DOMAIN purchases, NEW loss \in Nat, NEW sender \in Accounts,
               claims' = StoreSet(claims, nextProposalID, Submitted(sender, id, loss))
        PROVE  ClaimsFollow'
    <2>1. nextProposalID \in Nat /\ nextProposalID \notin DOMAIN claims
      BY DEF ClaimInv
    <2>2. PICK c : c = Submitted(sender, id, loss)
      OBVIOUS
    <2>3. c \in Claim /\ c.purchase = id /\ c.pool = purchases[id].pool
      BY <2>2, SubmittedIsClaim DEF Submitted
    <2>4. ClaimsWith(claims, claims', nextProposalID, c)
      BY <1>2, <2>1, <2>2, <2>3, ClaimAdded DEF ClaimInv
    <2>5. /\ DOMAIN claims' = DOMAIN claims \cup {nextProposalID} /\ claims'[nextProposalID] = c
          /\ \A k \in DOMAIN claims : claims'[k] = claims[k]
      BY <2>4 DEF ClaimsWith
    <2>6. id \in DOMAIN purchases' => purchases'[id].pool = purchases[id].pool
      BY DEF PurchasesStay
    <2>7. QED
      BY <1>1, <2>3, <2>5, <2>6 DEF ClaimsFollow
  <1>3. ASSUME NEW id \in DOMAIN claims, claims' = StoreDelete(claims, {id})
        PROVE  ClaimsFollow'
    <2>1. ClaimsWithout(claims, claims', id)
      BY <1>3, ClaimEnded DEF ClaimInv
    <2>2. DOMAIN claims' \subseteq DOMAIN claims /\ \A k \in DOMAIN claims' : claims'[k] = claims[k]
      BY <2>1 DEF ClaimsWithout
    <2>3. QED
      BY <1>1, <2>2 DEF ClaimsFollow
  <1>4. ASSUME NEW id \in DOMAIN claims,
               claims' = [claims EXCEPT ![id].round = 2, ![id].votingEnd = now + VotingPeriod]
        PROVE  ClaimsFollow'
    <2>1. now + VotingPeriod \in Nat
      BY ClaimsAssumption DEF BookInv
    <2>2. SameClaims(claims, claims')
      BY <1>4, <2>1, RoundChanged DEF ClaimInv
    <2>3. /\ DOMAIN claims' = DOMAIN claims
          /\ \A k \in DOMAIN claims : claims'[k].pool = claims[k].pool /\ claims'[k].purchase = claims[k].purchase
      BY <2>2 DEF SameClaims
    <2>4. QED
      BY <1>1, <2>3 DEF ClaimsFollow
  <1>5. CASE UNCHANGED claims
    BY <1>1, <1>5 DEF ClaimsFollow
  <1>6. QED
    BY <1>2, <1>3, <1>4, <1>5 DEF ClaimsChange

\* A step that leaves pools, purchases and fees alone, and time too.
SameBooks == UNCHANGED <<now, pools, nextPoolID, totalShield, purchases, nextPurchaseID, feeVars>>

\* Every step keeps the books, and moves shield together.
LEMMA ShieldMovesStep ==
  ASSUME ProviderInv, BookInv, ClaimInv, PurchaseInv, [ClaimsNext]_allVars
  PROVE  BookInv' /\ ShieldBooked' /\ PurchasesStay
  <1>1. ShieldBooked
    BY DEF PurchaseInv
  <1>2. ASSUME SameBooks, phase' \in {"deliver", "staking", "gov", "halted"}
        PROVE  BookInv' /\ ShieldBooked' /\ PurchasesStay
    BY <1>1, <1>2 DEF SameBooks, BookInv, feeVars, ShieldBooked, PurchasesStay
  <1>3. phase \in {"deliver", "staking", "gov", "halted"}
    BY DEF BookInv
  <1>4. CASE ClaimProviderStep
    <2>1. ProviderStep
      BY <1>4, ClaimProviderStepIs
    <2>2. SameBooks /\ phase' = phase
      BY <2>1, ProviderStepFrame DEF SameBooks, feeVars
    <2>3. QED
      BY <1>2, <1>3, <2>2
  <1>5. CASE SubmitStep
    <2>1. PICK id \in DOMAIN purchases, loss \in Nat, sender \in Accounts : SubmitClaim(sender, id, loss)
      BY <1>5 DEF SubmitStep
    <2>2. QED
      BY <1>1, <2>1, SubmitMoves DEF PurchasesStay
  <1>6. ASSUME NEW a \in Accounts, NEW id \in DOMAIN reimbursements, WithdrawReimbursement(a, id)
        PROVE  BookInv' /\ ShieldBooked' /\ PurchasesStay
    <2>1. SameBooks /\ phase' = phase
      BY <1>6 DEF WithdrawReimbursement, SameBooks, poolVars, purchaseVars
    <2>2. QED
      BY <1>2, <1>3, <2>1
  <1>7. ASSUME NEW id \in DOMAIN claims, CertifiersPass(id) \/ VetoClaim(id) \/ PassClaim(id)
        PROVE  BookInv' /\ ShieldBooked' /\ PurchasesStay
    <2>1. CASE CertifiersPass(id)
      <3>1. SameBooks /\ phase' = phase
        BY <2>1 DEF CertifiersPass, SameBooks, vars, poolVars, purchaseVars
      <3>2. QED
        BY <1>2, <1>3, <3>1
    <2>2. CASE VetoClaim(id)
      <3>1. SameBooks /\ phase' = phase
        BY <2>2 DEF VetoClaim, SameBooks, poolVars, purchaseVars
      <3>2. QED
        BY <1>2, <1>3, <3>1
    <2>3. CASE PassClaim(id)
      <3>1. SameBooks /\ phase' = phase
        BY <2>3 DEF PassClaim, SameBooks, poolVars, purchaseVars
      <3>2. QED
        BY <1>2, <1>3, <3>1
    <2>4. QED
      BY <1>7, <2>1, <2>2, <2>3
  <1>8. ASSUME NEW id \in DOMAIN claims, RejectClaim(id)
        PROVE  BookInv' /\ ShieldBooked' /\ PurchasesStay
    BY <1>8, RejectMoves DEF PurchasesStay
  <1>9. CASE EndStep
    <2>1. EndBlocker
      BY <1>9 DEF EndStep
    <2>2. BookInv' /\ ShieldBooked'
      BY <1>1, <2>1, EndBlockerKeepsBooks, EndBlockerBooked
    <2>3. PurchasesStay
      <3>1. DOMAIN purchases' \subseteq DOMAIN purchases
            /\ \A i \in DOMAIN purchases' : purchases'[i].pool = purchases[i].pool
        BY <2>1, EndBlockerPurchases
      <3>2. QED
        BY <3>1 DEF PurchasesStay
    <2>4. QED
      BY <2>2, <2>3
  <1>10. CASE NextStep
    <2>1. PICK elapsed \in Nat : NextBlock(elapsed, 0)
      BY <1>10 DEF NextStep
    <2>2. /\ now' = now + elapsed /\ phase' = "deliver"
          /\ blockServiceFees' \in Nat
          /\ UNCHANGED <<pools, nextPoolID, totalShield, purchases, nextPurchaseID, serviceFees,
                         remainingServiceFees, lastUpdateTime>>
      <3>1. Dec(0) \in Nat /\ blockServiceFees \in Nat
        BY DecNat DEF BookInv
      <3>2. blockServiceFees' = blockServiceFees + Dec(0)
        BY <2>1 DEF NextBlock
      <3>3. blockServiceFees' \in Nat
        BY <3>1, <3>2
      <3>4. QED
        BY <2>1, <3>3 DEF NextBlock, poolVars, purchaseVars
    <2>3. now' \in Nat /\ now <= now'
      BY <2>2 DEF BookInv
    <2>4. \A i \in DOMAIN purchases : purchases[i].protectionEnd <= now' + ProtectionPeriod
      <3>1. \A i \in DOMAIN purchases : purchases[i].protectionEnd \in Nat
        BY PurchaseAmounts
      <3>2. QED
        BY <2>3, <3>1, ParamsAssumption DEF BookInv
    <2>5. lastUpdateTime <= now'
      BY <2>3 DEF BookInv
    <2>6. BookInv'
      BY <2>2, <2>3, <2>4, <2>5 DEF BookInv
    <2>7. QED
      BY <1>1, <2>2, <2>6 DEF ShieldBooked, PurchasesStay
  <1>11. CASE QuietStep
    <2>1. SameBooks /\ phase' \in {phase, "gov", "halted"}
      BY <1>11 DEF QuietStep, SameBooks, poolVars, purchaseVars
    <2>2. QED
      BY <1>2, <1>3, <2>1
  <1>12. QED
    BY <1>4, <1>5, <1>6, <1>7, <1>8, <1>9, <1>10, <1>11, ClaimStepKinds

\* Every step keeps PurchaseInv.
LEMMA PurchaseInvStep ==
  ASSUME ProviderInv, BookInv, ClaimInv, PurchaseInv, [ClaimsNext]_allVars
  PROVE  BookInv' /\ PurchaseInv'
  <1>1. BookInv' /\ ShieldBooked' /\ PurchasesStay
    BY ShieldMovesStep
  <1>2. ClaimsFollow
    BY DEF ClaimsFollow, PurchaseInv
  <1>3. ClaimsFollow'
    BY <1>1, <1>2, ClaimsChangeStep, ClaimsStillFollow
  <1>4. QED
    BY <1>1, <1>3 DEF PurchaseInv, ClaimsFollow

-----------------------------------------------------------------------------
(* The providers: ProviderInv, and the hooks keep up with the delegations. *)

Tracked == \A a \in DOMAIN providers : providers[a].bonded = delegated[a]

\* The provider that withdraws has the record p, but for what it is withdrawing.
LEMMA WithdrawFromBonded ==
  ASSUME ProviderInv, NEW a \in DOMAIN providers, NEW staked \in Int, NEW amount \in Int, NEW more \in Int,
         NEW p, p = [providers[a] EXCEPT !.bonded = staked], WithdrawFrom(a, p, amount, more)
  PROVE  /\ DOMAIN providers' = DOMAIN providers /\ providers'[a].bonded = staked
         /\ \A b \in DOMAIN providers \ {a} : providers'[b] = providers[b]
  <1>1. providers[a] \in Provider
    BY DEF ProviderInv, GoodProviders, IsStore
  <1>2. p \in Provider /\ p.bonded = staked
    BY <1>1 DEF Provider
  <1>3. PICK q : q = [p EXCEPT !.withdrawing = p.withdrawing + (amount + more)]
    OBVIOUS
  <1>4. q.bonded = staked
    BY <1>2, <1>3 DEF Provider
  <1>5. providers' = StoreSet(providers, a, q)
    BY <1>3 DEF WithdrawFrom
  <1>6. QED
    BY <1>4, <1>5 DEF StoreSet

\* A change of one delegation is tracked.
LEMMA TrackedChange ==
  ASSUME Tracked, delegated \in [Accounts -> Nat], NEW a \in Accounts, NEW n,
         delegated' = [delegated EXCEPT ![a] = n],
         \A b \in DOMAIN providers : b \in Accounts,
         \/ a \notin DOMAIN providers /\ providers' = providers
         \/ /\ DOMAIN providers' = DOMAIN providers
            /\ a \in DOMAIN providers => providers'[a].bonded = n
            /\ \A b \in DOMAIN providers \ {a} : providers'[b] = providers[b]
  PROVE  Tracked'
  <1>1. delegated'[a] = n /\ \A b \in Accounts \ {a} : delegated'[b] = delegated[b]
    OBVIOUS
  <1>2. QED
    BY <1>1 DEF Tracked

\* The messages of providers and delegators keep the record of a provider at its delegation.
LEMMA TrackedStep ==
  ASSUME ProviderInv, Tracked, ClaimProviderStep
  PROVE  Tracked'
  <1>1. delegated \in [Accounts -> Nat] /\ \A b \in DOMAIN providers : b \in Accounts
    BY DEF ProviderInv, GoodProviders, IsStore
  <1>2. \A b \in DOMAIN providers : providers[b] \in Provider
    BY DEF ProviderInv, GoodProviders, IsStore
  <1>3. PICK a \in Accounts, amount \in Nat :
          \/ DepositCollateral(a, amount)
          \/ WithdrawCollateral(a, amount)
          \/ Delegate(a, amount)
          \/ Undelegate(a, amount, amount = delegated[a])
    BY DEF ClaimProviderStep
  <1>4. PICK d \in Nat : d = delegated[a]
    BY <1>1
  <1>5. CASE DepositCollateral(a, amount)
    <2>1. PICK p : p = GetOrAddProvider(a)
      OBVIOUS
    <2>2. p \in Provider /\ p.bonded = d
      <3>1. CASE a \in DOMAIN providers
        BY <1>2, <1>4, <2>1, <3>1 DEF GetOrAddProvider, Tracked
      <3>2. CASE a \notin DOMAIN providers
        BY <1>4, <2>1, <3>2 DEF GetOrAddProvider, NewProvider, Provider
      <3>3. QED
        BY <3>1, <3>2
    <2>3. PICK q : q = [p EXCEPT !.collateral = p.collateral + amount]
      OBVIOUS
    <2>4. q.bonded = d
      BY <2>2, <2>3 DEF Provider
    <2>5. providers' = StoreSet(providers, a, q) /\ delegated' = delegated
      BY <1>5, <2>1, <2>3 DEF DepositCollateral, stakingVars
    <2>6. QED
      BY <1>4, <2>4, <2>5 DEF Tracked, StoreSet
  <1>6. CASE WithdrawCollateral(a, amount)
    <2>1. a \in DOMAIN providers /\ delegated' = delegated /\ WithdrawFrom(a, providers[a], amount, 0)
      BY <1>6 DEF WithdrawCollateral, stakingVars
    <2>2. providers[a] = [providers[a] EXCEPT !.bonded = d] /\ providers[a].bonded = d
      BY <1>2, <1>4, <2>1 DEF Tracked, Provider
    <2>3. /\ DOMAIN providers' = DOMAIN providers /\ providers'[a].bonded = d
          /\ \A b \in DOMAIN providers \ {a} : providers'[b] = providers[b]
      BY <2>1, <2>2, WithdrawFromBonded
    <2>4. QED
      BY <1>4, <2>1, <2>3 DEF Tracked
  <1>7. CASE Delegate(a, amount)
    <2>1. PICK n \in Nat : n = d + amount
      OBVIOUS
    <2>2. delegated' = [delegated EXCEPT ![a] = n]
      BY <1>4, <1>7, <2>1 DEF Delegate
    <2>3. CASE a \notin DOMAIN providers
      <3>1. providers' = providers
        BY <1>7, <2>3 DEF Delegate
      <3>2. QED
        BY <1>1, <2>2, <2>3, <3>1, TrackedChange
    <2>4. CASE a \in DOMAIN providers
      <3>1. UpdateProviderForDelegationChanges(a, n)
        BY <1>4, <1>7, <2>1, <2>4 DEF Delegate
      <3>2. PICK u \in Nat : u = Unbacked(providers[a], n)
        BY <1>2, <2>4, UnbackedAmount DEF Provider
      <3>3. WithdrawFrom(a, [providers[a] EXCEPT !.bonded = n], u, 0)
        BY <3>1, <3>2 DEF UpdateProviderForDelegationChanges
      <3>4. /\ DOMAIN providers' = DOMAIN providers /\ providers'[a].bonded = n
            /\ \A b \in DOMAIN providers \ {a} : providers'[b] = providers[b]
        BY <2>4, <3>3, WithdrawFromBonded
      <3>5. QED
        BY <1>1, <2>2, <3>4, TrackedChange
    <2>5. QED
      BY <2>3, <2>4
  <1>8. CASE Undelegate(a, amount, amount = delegated[a])
    <2>1. PICK n \in Int : n = d - amount
      OBVIOUS
    <2>2. delegated' = [delegated EXCEPT ![a] = n]
      BY <1>4, <1>8, <2>1 DEF Undelegate
    <2>3. CASE a \notin DOMAIN providers
      <3>1. providers' = providers
        BY <1>8, <2>3 DEF Undelegate
      <3>2. QED
        BY <1>1, <2>2, <2>3, <3>1, TrackedChange
    <2>4. CASE a \in DOMAIN providers
      <3>1. StakedWithout(a, amount, amount = delegated[a]) = n
        BY <1>4, <2>1, <2>4 DEF StakedWithout, Tracked
      <3>2. UpdateProviderForDelegationChanges(a, n)
        BY <1>8, <2>4, <3>1 DEF Undelegate
      <3>3. PICK u \in Nat : u = Unbacked(providers[a], n)
        BY <1>2, <2>4, UnbackedAmount DEF Provider
      <3>4. WithdrawFrom(a, [providers[a] EXCEPT !.bonded = n], u, 0)
        BY <3>2, <3>3 DEF UpdateProviderForDelegationChanges
      <3>5. /\ DOMAIN providers' = DOMAIN providers /\ providers'[a].bonded = n
            /\ \A b \in DOMAIN providers \ {a} : providers'[b] = providers[b]
        BY <2>4, <3>4, WithdrawFromBonded
      <3>6. QED
        BY <1>1, <2>2, <3>5, TrackedChange
    <2>5. QED
      BY <2>3, <2>4
  <1>9. QED
    BY <1>3, <1>5, <1>6, <1>7, <1>8

\* SubmitClaim puts withdraws off: what is secured is there until the lock ends.
LEMMA SubmitSecures ==
  ASSUME ProviderInv, BookInv, ClaimInv, NEW id \in DOMAIN purchases, NEW loss \in Nat, loss > 0,
         NEW sender, SubmitClaim(sender, id, loss)
  PROVE  /\ ProviderInv'
         /\ totalClaimed + loss \in Nat /\ totalClaimed + loss <= totalCollateral
         /\ totalCollateral \in Nat /\ totalCollateral > 0
         /\ SecuredFor(Secured(totalClaimed + loss), DOMAIN providers, totalClaimed + loss)
         /\ ~ Secured(totalClaimed + loss).panic
         /\ withdraws' = Secured(totalClaimed + loss).withdraws
         /\ UNCHANGED <<now, providers, totalCollateral, totalWithdrawing, delegated, moduleBalance,
                        reimbursements>>
  <1>1. totalClaimed \in Nat
    BY LossNat DEF ClaimInv
  <1>2. totalCollateral \in Nat
    BY TotalsNat DEF ProviderInv
  <1>3. PICK total \in Nat : total = totalClaimed + loss /\ total > 0
    BY <1>1
  <1>4. total <= totalCollateral
    BY <1>3 DEF SubmitClaim, MayClaim
  <1>5. totalCollateral > 0
    BY <1>2, <1>3, <1>4
  <1>6. SecuredFor(Secured(total), DOMAIN providers, total)
    BY <1>2, <1>4, <1>5, SecuredAll DEF ProviderInv, BookInv
  <1>7. PICK s : s = Secured(total)
    OBVIOUS
  <1>8. GoodQueue(s.withdraws) /\ Queued(providers, s.withdraws)
    BY <1>6, <1>7 DEF SecuredFor
  <1>9. TotalWithdrawing(providers) = AmountOf(s.withdraws, DOMAIN s.withdraws)
    BY <1>8, QueuedTotal DEF ProviderInv
  <1>10. /\ ~ s.panic /\ withdraws' = s.withdraws
         /\ UNCHANGED <<now, providers, totalCollateral, totalWithdrawing, delegated, moduleBalance,
                        reimbursements>>
    BY <1>3, <1>7 DEF SubmitClaim, bankVars
  <1>11. ProviderInv'
    BY <1>8, <1>9, <1>10 DEF ProviderInv
  <1>12. QED
    BY <1>2, <1>3, <1>4, <1>5, <1>6, <1>7, <1>10, <1>11

\* What a payout does to the books.
PaidOut(loss) ==
  /\ totalCollateral' = totalCollateral - loss
  /\ moduleBalance' = moduleBalance + loss
  /\ TotalRewards(providers') = TotalRewards(providers)
  /\ \A t \in Nat : t < now + WithdrawPeriod =>
       AmountOf(withdraws', DueBy(withdraws', t)) <= AmountOf(withdraws, DueBy(withdraws, t))

\* A claim that passes is paid in full, and the books stay balanced.
LEMMA PassPays ==
  ASSUME ProviderInv, Tracked, BookInv, ClaimInv, ShieldBooked, moduleBalance \in Int,
         NEW id \in DOMAIN claims, PassClaim(id)
  PROVE  /\ ProviderInv' /\ Tracked' /\ claims[id].loss \in Nat /\ PaidOut(claims[id].loss)
  <1>1. PICK loss \in Nat : loss = claims[id].loss
    BY DEF ClaimInv, GoodClaims, IsStore, Claim
  <1>2. PICK s : s = Payout(loss)
    OBVIOUS
  <1>3. totalCollateral \in Nat /\ totalShield \in Nat
    BY TotalsNat, PoolShields DEF ProviderInv
  <1>4. /\ ~ PayoutPanics(loss)
        /\ providers' = s.providers /\ withdraws' = s.withdraws
        /\ totalWithdrawing' = s.totalWithdrawing /\ delegated' = s.delegated
        /\ moduleBalance' = moduleBalance + loss - s.payout
        /\ totalCollateral' = totalCollateral - loss
    BY <1>1, <1>2 DEF PassClaim
  <1>5. totalCollateral > 0 /\ ~ s.panic /\ ~ (s.payout > 0)
    BY <1>2, <1>3, <1>4 DEF PayoutPanics
  <1>6. PICK base : base = BeforePayout(loss)
    OBVIOUS
  <1>7. /\ IsPaying(base) /\ base.providers = providers /\ base.withdraws = withdraws
        /\ base.totalWithdrawing = totalWithdrawing /\ base.delegated = delegated
    BY <1>6 DEF BeforePayout, IsPaying
  <1>8. PaidBooks(base)
    BY <1>7 DEF PaidBooks, ProviderInv, Tracked
  <1>9. PaidFor(base, s, loss)
    BY <1>2, <1>3, <1>5, <1>6, <1>8, PaidAll DEF BookInv
  <1>10. PaidBooks(s) /\ s.payout \in Nat /\ Pays(base, s, loss - s.payout)
    BY <1>5, <1>9 DEF PaidFor
  <1>11. s.payout = 0
    BY <1>5, <1>10
  <1>12. loss - s.payout = loss /\ moduleBalance + loss - s.payout = moduleBalance + loss
    BY <1>11
  <1>13. Pays(base, s, loss)
    BY <1>10, <1>12
  <1>14. /\ TotalCollateral(s.providers) + loss = totalCollateral
         /\ TotalRewards(s.providers) = TotalRewards(providers)
         /\ \A t \in Nat : t < now + WithdrawPeriod =>
              AmountOf(s.withdraws, DueBy(s.withdraws, t)) <= AmountOf(withdraws, DueBy(withdraws, t))
    BY <1>7, <1>13 DEF Pays, ProviderInv
  <1>15. /\ GoodProviders(s.providers) /\ GoodQueue(s.withdraws) /\ Queued(s.providers, s.withdraws)
         /\ s.totalWithdrawing = TotalWithdrawing(s.providers)
         /\ s.delegated \in [Accounts -> Nat]
         /\ \A b \in DOMAIN s.providers : s.delegated[b] = s.providers[b].bonded
    BY <1>10 DEF PaidBooks
  <1>16. TotalWithdrawing(s.providers) = AmountOf(s.withdraws, DOMAIN s.withdraws)
    BY <1>15, QueuedTotal
  <1>17. TotalCollateral(s.providers) \in Nat
    BY <1>15, TotalsNat
  <1>18. totalCollateral - loss = TotalCollateral(s.providers)
    BY <1>3, <1>14, <1>17
  <1>19. \A b \in DOMAIN s.providers : s.delegated[b] <= s.providers[b].bonded
    <2>1. \A b \in DOMAIN s.providers : s.providers[b].bonded \in Int
      BY <1>15, SoundAmounts DEF GoodProviders
    <2>2. QED
      BY <1>15, <2>1
  <1>20. ProviderInv'
    BY <1>4, <1>15, <1>16, <1>18, <1>19 DEF ProviderInv
  <1>21. Tracked'
    BY <1>4, <1>15 DEF Tracked
  <1>22. PaidOut(loss)
    BY <1>4, <1>12, <1>14 DEF PaidOut
  <1>23. QED
    BY <1>1, <1>20, <1>21, <1>22

\* Every step keeps the books of the providers.
LEMMA ClaimProviderInvStep ==
  ASSUME ProviderInv, Tracked, BookInv, ClaimInv, PurchaseInv, moduleBalance \in Int,
         [ClaimsNext]_allVars
  PROVE  ProviderInv' /\ Tracked'
  <1>1. ASSUME UNCHANGED <<providerVars, delegated>>
        PROVE  ProviderInv' /\ Tracked'
    BY <1>1 DEF ProviderInv, Tracked, providerVars
  <1>2. CASE ClaimProviderStep
    BY <1>2, ClaimProviderStepIs, ProviderStepKeeps, TrackedStep DEF BookInv
  <1>3. CASE SubmitStep
    <2>1. PICK id \in DOMAIN purchases, loss \in Nat, sender \in Accounts :
            loss > 0 /\ SubmitClaim(sender, id, loss)
      BY <1>3 DEF SubmitStep
    <2>2. ProviderInv' /\ UNCHANGED <<providers, delegated>>
      BY <2>1, SubmitSecures
    <2>3. QED
      BY <2>2 DEF Tracked
  <1>4. ASSUME NEW a \in Accounts, NEW id \in DOMAIN reimbursements, WithdrawReimbursement(a, id)
        PROVE  ProviderInv' /\ Tracked'
    BY <1>1, <1>4 DEF WithdrawReimbursement, stakingVars
  <1>5. ASSUME NEW id \in DOMAIN claims, CertifiersPass(id) \/ VetoClaim(id) \/ RejectClaim(id)
        PROVE  ProviderInv' /\ Tracked'
    BY <1>1, <1>5 DEF CertifiersPass, VetoClaim, RejectClaim, stakingVars, vars
  <1>6. ASSUME NEW id \in DOMAIN claims, PassClaim(id)
        PROVE  ProviderInv' /\ Tracked'
    BY <1>6, PassPays DEF PurchaseInv
  <1>7. CASE EndStep
    <2>1. EndBlocker /\ delegated' = delegated
      BY <1>7 DEF EndStep, EndBlocker, stakingVars
    <2>2. ProviderInv'
      BY <2>1, EndBlockerProviders
    <2>3. DOMAIN providers' = DOMAIN providers /\ \A a \in DOMAIN providers : providers'[a].bonded = providers[a].bonded
      <3>1. \A a \in DOMAIN providers : providers[a] \in Provider
        BY DEF ProviderInv, GoodProviders, IsStore
      <3>2. QED
        BY <2>1, <3>1 DEF EndBlocker, Provider
    <2>4. QED
      BY <2>1, <2>2, <2>3 DEF Tracked
  <1>8. CASE NextStep
    BY <1>1, <1>8 DEF NextStep, NextBlock, stakingVars
  <1>9. CASE QuietStep
    BY <1>1, <1>9 DEF QuietStep
  <1>10. QED
    BY <1>2, <1>3, <1>4, <1>5, <1>6, <1>7, <1>8, <1>9, ClaimStepKinds

-----------------------------------------------------------------------------
(* ReimbursementInv: the reimbursements and the module account.            *)

Held(rs) == SumFunctionOnSet(Amounts(rs), DOMAIN rs)

GoodReimbursements(rs) == IsStore(rs, Nat, Reimbursement) /\ IsFiniteSet(DOMAIN rs)

\* The fees and rewards that the module account owes.
FeesBooked == remainingServiceFees + TotalRewards(providers) + blockServiceFees

ReimbursementInv ==
  /\ GoodReimbursements(reimbursements)
  /\ \A id \in DOMAIN reimbursements : id < nextProposalID /\ id \notin DOMAIN claims
  /\ moduleBalance \in Nat
  /\ Dec(moduleBalance) = FeesBooked + Dec(Held(reimbursements))

\* The amounts of reimbursements are natural numbers.
LEMMA HeldNat ==
  ASSUME NEW rs, GoodReimbursements(rs)
  PROVE  /\ IsFiniteSet(DOMAIN rs) /\ Held(rs) \in Nat
         /\ \A id \in DOMAIN rs : /\ Amounts(rs)[id] \in Nat /\ Amounts(rs)[id] = rs[id].amount
  <1>1. \A id \in DOMAIN rs : Amounts(rs)[id] \in Nat /\ Amounts(rs)[id] = rs[id].amount
    BY DEF GoodReimbursements, IsStore, Reimbursement, Amounts
  <1>2. IsFiniteSet(DOMAIN rs)
    BY DEF GoodReimbursements
  <1>3. QED
    BY <1>1, <1>2, SumNat DEF Held

\* A reimbursement more, and one less.
ReimbursementsWith(rs, new, n, amount) ==
  /\ GoodReimbursements(new) /\ DOMAIN new = DOMAIN rs \cup {n}
  /\ Held(new) = Held(rs) + amount

ReimbursementsWithout(rs, new, n) ==
  /\ GoodReimbursements(new) /\ DOMAIN new = DOMAIN rs \ {n}
  /\ Held(rs) = Held(new) + rs[n].amount
  /\ rs[n].amount \in Nat

\* A reimbursement is created.
LEMMA ReimbursementAdded ==
  ASSUME NEW rs, GoodReimbursements(rs), NEW n \in Nat, n \notin DOMAIN rs, NEW r \in Reimbursement,
         NEW new, new = StoreSet(rs, n, r)
  PROVE  ReimbursementsWith(rs, new, n, r.amount)
  <1>1. GoodReimbursements(new)
    BY StoreType, StoreFinite, Zenon DEF GoodReimbursements
  <1>2. /\ DOMAIN new = DOMAIN rs \cup {n} /\ new[n] = r
        /\ \A id \in DOMAIN rs : new[id] = rs[id]
    BY DEF StoreSet
  <1>3. \A id \in DOMAIN new : Amounts(new)[id] \in Nat /\ Amounts(new)[id] = new[id].amount
    BY <1>1, HeldNat
  <1>4. /\ IsFiniteSet(DOMAIN rs) /\ Held(rs) \in Nat
        /\ \A id \in DOMAIN rs : Amounts(rs)[id] = rs[id].amount
    BY HeldNat
  <1>5. \A id \in DOMAIN rs : Amounts(new)[id] = Amounts(rs)[id]
    BY <1>2, <1>3, <1>4
  <1>6. SumFunctionOnSet(Amounts(new), DOMAIN rs \cup {n})
          = Amounts(new)[n] + SumFunctionOnSet(Amounts(new), DOMAIN rs)
    BY <1>2, <1>3, <1>4, SumAdd
  <1>7. SumFunctionOnSet(Amounts(new), DOMAIN rs) = SumFunctionOnSet(Amounts(rs), DOMAIN rs)
    BY <1>4, <1>5, SumEqual
  <1>8. PICK x \in Nat, y \in Nat : x = Held(rs) /\ y = r.amount
    BY <1>4 DEF Reimbursement
  <1>9. Held(new) = y + x
    BY <1>2, <1>3, <1>6, <1>7, <1>8 DEF Held
  <1>10. QED
    BY <1>1, <1>2, <1>8, <1>9 DEF ReimbursementsWith

\* A reimbursement is withdrawn.
LEMMA ReimbursementPaid ==
  ASSUME NEW rs, GoodReimbursements(rs), NEW n \in DOMAIN rs, NEW new, new = StoreDelete(rs, {n})
  PROVE  ReimbursementsWithout(rs, new, n)
  <1>1. GoodReimbursements(new)
    BY StoreType, StoreFinite, Zenon DEF GoodReimbursements
  <1>2. DOMAIN new = DOMAIN rs \ {n} /\ \A id \in DOMAIN new : new[id] = rs[id]
    BY DEF StoreDelete, Restrict
  <1>3. /\ IsFiniteSet(DOMAIN rs)
        /\ \A id \in DOMAIN rs : Amounts(rs)[id] \in Nat /\ Amounts(rs)[id] = rs[id].amount
    BY HeldNat
  <1>4. SumFunctionOnSet(Amounts(rs), DOMAIN rs)
          = Amounts(rs)[n] + SumFunctionOnSet(Amounts(rs), DOMAIN rs \ {n})
    BY <1>3, SumRemove
  <1>5. /\ IsFiniteSet(DOMAIN new) /\ Held(new) \in Nat
        /\ \A id \in DOMAIN new : Amounts(new)[id] = new[id].amount
    BY <1>1, HeldNat
  <1>6. \A id \in DOMAIN new : Amounts(new)[id] = Amounts(rs)[id]
    BY <1>2, <1>3, <1>5
  <1>7. SumFunctionOnSet(Amounts(new), DOMAIN new) = SumFunctionOnSet(Amounts(rs), DOMAIN new)
    BY <1>5, <1>6, SumEqual
  <1>8. PICK x \in Nat, y \in Nat : x = Held(new) /\ y = rs[n].amount
    BY <1>3, <1>5
  <1>9. Held(rs) = y + x
    BY <1>2, <1>3, <1>4, <1>7, <1>8 DEF Held
  <1>10. Held(rs) = x + y
    BY <1>9
  <1>11. QED
    BY <1>1, <1>2, <1>8, <1>10 DEF ReimbursementsWithout

\* How reimbursements and the module account change together.
AccountChange ==
  \/ UNCHANGED <<reimbursements, moduleBalance>>
  \/ \E id \in DOMAIN claims :
       /\ moduleBalance' = moduleBalance + claims[id].loss
       /\ reimbursements' = StoreSet(reimbursements, id,
            [amount |-> claims[id].loss, beneficiary |-> claims[id].claimant,
             payoutTime |-> now + PayoutPeriod])
       /\ DOMAIN claims' = DOMAIN claims \ {id} /\ nextProposalID' = nextProposalID
  \/ \E id \in DOMAIN reimbursements :
       /\ reimbursements[id].amount <= moduleBalance
       /\ moduleBalance' = moduleBalance - reimbursements[id].amount
       /\ reimbursements' = StoreDelete(reimbursements, {id})

\* Every step changes them in one of these ways, and leaves what is booked as fees.
LEMMA AccountChangeStep ==
  ASSUME ProviderInv, Tracked, BookInv, ClaimInv, PurchaseInv, moduleBalance \in Int,
         [ClaimsNext]_allVars
  PROVE  AccountChange /\ FeesBooked' = FeesBooked
  <1>1. ASSUME UNCHANGED <<remainingServiceFees, blockServiceFees>>,
               TotalRewards(providers') = TotalRewards(providers)
        PROVE  FeesBooked' = FeesBooked
    BY <1>1 DEF FeesBooked
  <1>2. CASE ClaimProviderStep
    <2>1. ProviderStep /\ UNCHANGED claimVars
      BY <1>2, ClaimProviderStepIs
    <2>2. TotalRewards(providers') = TotalRewards(providers)
      BY <2>1, ProviderStepKeeps DEF Spares, BookInv
    <2>3. UNCHANGED <<remainingServiceFees, blockServiceFees, moduleBalance>>
      BY <2>1, ProviderStepFrame
    <2>4. QED
      BY <1>1, <2>1, <2>2, <2>3 DEF AccountChange, claimVars
  <1>3. CASE SubmitStep
    BY <1>1, <1>3 DEF SubmitStep, SubmitClaim, AccountChange, bankVars, feeVars
  <1>4. ASSUME NEW a \in Accounts, NEW id \in DOMAIN reimbursements, WithdrawReimbursement(a, id)
        PROVE  AccountChange /\ FeesBooked' = FeesBooked
    <2>1. AccountChange
      <3>1. /\ moduleBalance' = moduleBalance - reimbursements[id].amount
            /\ moduleBalance >= reimbursements[id].amount
            /\ reimbursements' = StoreDelete(reimbursements, {id})
        BY <1>4 DEF WithdrawReimbursement
      <3>2. QED
        BY <3>1 DEF AccountChange
    <2>2. FeesBooked' = FeesBooked
      BY <1>1, <1>4 DEF WithdrawReimbursement, feeVars, providerVars
    <2>3. QED
      BY <2>1, <2>2
  <1>5. ASSUME NEW id \in DOMAIN claims, CertifiersPass(id) \/ VetoClaim(id) \/ RejectClaim(id)
        PROVE  AccountChange /\ FeesBooked' = FeesBooked
    BY <1>1, <1>5 DEF CertifiersPass, VetoClaim, RejectClaim, AccountChange, bankVars, feeVars, providerVars, vars
  <1>6. ASSUME NEW id \in DOMAIN claims, PassClaim(id)
        PROVE  AccountChange /\ FeesBooked' = FeesBooked
    <2>1. moduleBalance' = moduleBalance + claims[id].loss /\ TotalRewards(providers') = TotalRewards(providers)
      BY <1>6, PassPays DEF PurchaseInv, PaidOut
    <2>2. /\ reimbursements' = StoreSet(reimbursements, id,
               [amount |-> claims[id].loss, beneficiary |-> claims[id].claimant,
                payoutTime |-> now + PayoutPeriod])
          /\ claims' = StoreDelete(claims, {id}) /\ nextProposalID' = nextProposalID
          /\ UNCHANGED <<remainingServiceFees, blockServiceFees>>
      BY <1>6 DEF PassClaim, feeVars
    <2>3. DOMAIN claims' = DOMAIN claims \ {id}
      BY <2>2 DEF StoreDelete, Restrict
    <2>4. QED
      BY <1>1, <2>1, <2>2, <2>3 DEF AccountChange
  <1>7. CASE EndStep
    <2>1. EndBlocker /\ UNCHANGED <<reimbursements, moduleBalance>>
      BY <1>7 DEF EndStep, EndBlocker, bankVars, claimVars
    <2>2. /\ remainingServiceFees' = remainingServiceFees - GivenTotal
               + (IF lastUpdateTime = 0 THEN 0 ELSE blockServiceFees)
          /\ blockServiceFees' = IF lastUpdateTime = 0 THEN blockServiceFees ELSE 0
      BY <2>1 DEF EndBlocker, GivenTotal
    <2>3. TotalRewards(providers') = TotalRewards(providers) + GivenTotal
      BY <2>1, EndBlockerProviders
    <2>4. PICK f \in Nat, t \in Nat, b \in Nat, g \in Nat :
            /\ f = remainingServiceFees /\ t = TotalRewards(providers)
            /\ b = blockServiceFees /\ g = GivenTotal
      BY <2>1, GivenCovered, TotalsNat DEF EndBlocker, BookInv, ProviderInv
    <2>5. \/ remainingServiceFees' = f - g + 0 /\ blockServiceFees' = b
          \/ remainingServiceFees' = f - g + b /\ blockServiceFees' = 0
      BY <2>2, <2>4
    <2>6. /\ (f - g + 0) + (t + g) + b = f + t + b
          /\ (f - g + b) + (t + g) + 0 = f + t + b
      OBVIOUS
    <2>7. FeesBooked = f + t + b /\ FeesBooked' = remainingServiceFees' + (t + g) + blockServiceFees'
      BY <2>3, <2>4 DEF FeesBooked
    <2>8. QED
      BY <2>1, <2>5, <2>6, <2>7 DEF AccountChange
  <1>8. CASE NextStep
    <2>1. PICK elapsed \in Nat : NextBlock(elapsed, 0) /\ UNCHANGED claimVars
      BY <1>8 DEF NextStep
    <2>2. PICK z \in Nat : z = Dec(0)
      BY DecNat
    <2>3. 0 * Precision = 0
      BY PrecisionAssumption
    <2>4. z = 0
      BY <2>2, <2>3 DEF Dec
    <2>5. moduleBalance' = moduleBalance + 0 /\ blockServiceFees' = blockServiceFees + z
      BY <2>1, <2>2 DEF NextBlock
    <2>6. blockServiceFees \in Nat
      BY DEF BookInv
    <2>7. moduleBalance' = moduleBalance /\ blockServiceFees' = blockServiceFees
      BY <2>4, <2>5, <2>6
    <2>8. UNCHANGED <<providers, remainingServiceFees, reimbursements>>
      BY <2>1 DEF NextBlock, providerVars, claimVars
    <2>9. QED
      BY <1>1, <2>7, <2>8 DEF AccountChange
  <1>9. CASE QuietStep
    BY <1>1, <1>9 DEF QuietStep, AccountChange, claimVars, feeVars, providerVars
  <1>10. QED
    BY <1>2, <1>3, <1>4, <1>5, <1>6, <1>7, <1>8, <1>9, ClaimStepKinds

\* No id is used again: a claim is new or one of those that there are.
LEMMA ClaimIds ==
  ASSUME ClaimInv, ClaimsChange
  PROVE  /\ nextProposalID' \in Nat /\ nextProposalID <= nextProposalID'
         /\ \A c \in DOMAIN claims' : c \in DOMAIN claims \/ c = nextProposalID
  <1>1. nextProposalID \in Nat
    BY DEF ClaimInv
  <1>2. nextProposalID' = nextProposalID \/ nextProposalID' = nextProposalID + 1
    BY DEF ClaimsChange
  <1>3. DOMAIN claims' \subseteq DOMAIN claims \cup {nextProposalID}
    BY DEF ClaimsChange, StoreSet, StoreDelete, Restrict
  <1>4. QED
    BY <1>1, <1>2, <1>3

\* Every step keeps ReimbursementInv.
LEMMA ReimbursementInvStep ==
  ASSUME ProviderInv, Tracked, BookInv, ClaimInv, PurchaseInv, ReimbursementInv, [ClaimsNext]_allVars
  PROVE  ReimbursementInv'
  <1>1. moduleBalance \in Nat /\ GoodReimbursements(reimbursements) /\ Held(reimbursements) \in Nat
    BY HeldNat DEF ReimbursementInv
  <1>2. AccountChange /\ FeesBooked' = FeesBooked
    BY <1>1, AccountChangeStep
  <1>3. /\ nextProposalID \in Nat /\ nextProposalID' \in Nat /\ nextProposalID <= nextProposalID'
        /\ \A c \in DOMAIN claims' : c \in DOMAIN claims \/ c = nextProposalID
    BY ClaimIds, ClaimsChangeStep DEF ClaimInv
  <1>4. PICK m \in Nat, h \in Nat : m = moduleBalance /\ h = Held(reimbursements)
    BY <1>1
  <1>5. PICK f \in Nat : f = FeesBooked
    BY TotalsNat DEF FeesBooked, BookInv, ProviderInv
  <1>6. Dec(m) = f + Dec(h)
    BY <1>4, <1>5 DEF ReimbursementInv
  <1>7. ASSUME NEW S, S \subseteq DOMAIN reimbursements
        PROVE  \A id \in S : id < nextProposalID' /\ id \notin DOMAIN claims'
    <2>1. \A id \in S : id \in Nat /\ id < nextProposalID /\ id \notin DOMAIN claims
      BY <1>7 DEF ReimbursementInv, GoodReimbursements, IsStore
    <2>2. QED
      BY <1>3, <2>1
  <1>8. CASE UNCHANGED <<reimbursements, moduleBalance>>
    <2>1. \A id \in DOMAIN reimbursements : id < nextProposalID' /\ id \notin DOMAIN claims'
      BY <1>7
    <2>2. QED
      BY <1>2, <1>8, <2>1 DEF ReimbursementInv
  <1>9. ASSUME NEW id \in DOMAIN claims,
               moduleBalance' = moduleBalance + claims[id].loss,
               reimbursements' = StoreSet(reimbursements, id,
                 [amount |-> claims[id].loss, beneficiary |-> claims[id].claimant,
                  payoutTime |-> now + PayoutPeriod]),
               DOMAIN claims' = DOMAIN claims \ {id}, nextProposalID' = nextProposalID
        PROVE  ReimbursementInv'
    <2>1. /\ id \in Nat /\ id < nextProposalID /\ id \notin DOMAIN reimbursements
          /\ claims[id].loss \in Nat /\ claims[id].claimant \in Accounts
      BY DEF ClaimInv, GoodClaims, IsStore, Claim, ReimbursementInv
    <2>2. PICK r : r = [amount |-> claims[id].loss, beneficiary |-> claims[id].claimant,
                        payoutTime |-> now + PayoutPeriod]
      OBVIOUS
    <2>3. r \in Reimbursement /\ r.amount = claims[id].loss
      BY <2>1, <2>2, ClaimsAssumption DEF Reimbursement, BookInv
    <2>4. ReimbursementsWith(reimbursements, reimbursements', id, r.amount)
      BY <1>1, <1>9, <2>1, <2>2, <2>3, ReimbursementAdded
    <2>5. PICK x \in Nat : x = claims[id].loss
      BY <2>1
    <2>6. /\ GoodReimbursements(reimbursements') /\ DOMAIN reimbursements' = DOMAIN reimbursements \cup {id}
          /\ Held(reimbursements') = h + x
      BY <1>4, <2>3, <2>4, <2>5 DEF ReimbursementsWith
    <2>7. moduleBalance' = m + x /\ moduleBalance' \in Nat
      BY <1>4, <1>9, <2>5
    <2>8. /\ Dec(m + x) = Dec(m) + Dec(x) /\ Dec(h + x) = Dec(h) + Dec(x)
          /\ Dec(m) \in Nat /\ Dec(h) \in Nat /\ Dec(x) \in Nat
      BY DecNat
    <2>9. Dec(m + x) = f + Dec(h + x)
      BY <1>6, <2>8
    <2>10. \A i \in DOMAIN reimbursements : i < nextProposalID' /\ i \notin DOMAIN claims'
      BY <1>7
    <2>11. \A i \in DOMAIN reimbursements' : i < nextProposalID' /\ i \notin DOMAIN claims'
      BY <1>9, <2>1, <2>6, <2>10
    <2>12. QED
      BY <1>2, <1>5, <2>6, <2>7, <2>9, <2>11 DEF ReimbursementInv
  <1>10. ASSUME NEW id \in DOMAIN reimbursements,
                reimbursements[id].amount <= moduleBalance,
                moduleBalance' = moduleBalance - reimbursements[id].amount,
                reimbursements' = StoreDelete(reimbursements, {id})
         PROVE  ReimbursementInv'
    <2>1. ReimbursementsWithout(reimbursements, reimbursements', id)
      BY <1>1, <1>10, ReimbursementPaid
    <2>2. PICK x \in Nat : x = reimbursements[id].amount
      BY <2>1 DEF ReimbursementsWithout
    <2>3. /\ GoodReimbursements(reimbursements') /\ DOMAIN reimbursements' \subseteq DOMAIN reimbursements
          /\ h = Held(reimbursements') + x
      BY <1>4, <2>1, <2>2 DEF ReimbursementsWithout
    <2>4. PICK k \in Nat : k = Held(reimbursements') /\ h = k + x
      BY <2>3, HeldNat
    <2>5. PICK n \in Nat : n = moduleBalance' /\ m = n + x
      BY <1>4, <1>10, <2>2
    <2>6. /\ Dec(n + x) = Dec(n) + Dec(x) /\ Dec(k + x) = Dec(k) + Dec(x)
          /\ Dec(n) \in Nat /\ Dec(k) \in Nat /\ Dec(x) \in Nat
      <3>1. Dec(n) \in Nat /\ Dec(k) \in Nat /\ Dec(x) \in Nat
        BY DecNat
      <3>2. n \in Int /\ k \in Int /\ x \in Int
        OBVIOUS
      <3>3. Dec(n + x) = Dec(n) + Dec(x) /\ Dec(k + x) = Dec(k) + Dec(x)
        BY <3>2, DecNat, Zenon
      <3>4. QED
        BY <3>1, <3>3
    <2>7. Dec(n) = f + Dec(k)
      BY <1>6, <2>4, <2>5, <2>6
    <2>8. \A i \in DOMAIN reimbursements' : i < nextProposalID' /\ i \notin DOMAIN claims'
      BY <1>7, <2>3
    <2>9. QED
      BY <1>2, <1>5, <2>3, <2>4, <2>5, <2>7, <2>8 DEF ReimbursementInv
  <1>11. QED
    BY <1>2, <1>8, <1>9, <1>10 DEF AccountChange

-----------------------------------------------------------------------------
(* The results about the books.                                            *)

ClaimsInv ==
  ProviderInv /\ Tracked /\ BookInv /\ ClaimInv /\ PurchaseInv /\ ReimbursementInv

\* The providers of the genesis are sound, and nothing is being withdrawn.
LEMMA GenesisProviders ==
  ASSUME ClaimsInit
  PROVE  ProviderInv /\ Tracked /\ TotalRewards(providers) = 0
  <1> DEFINE K == DOMAIN GenesisCollateral
             G(a) == [NewProvider EXCEPT !.bonded = InitDelegated, !.collateral = GenesisCollateral[a]]
  <1>1. /\ providers = [a \in K |-> G(a)] /\ withdraws = <<>>
        /\ totalCollateral = SumFunctionOnSet(GenesisCollateral, K) /\ totalWithdrawing = 0
        /\ delegated = [a \in Accounts |-> InitDelegated]
    BY DEF ClaimsInit, SumOver
  <1>2. DOMAIN <<>> = {} /\ IsFiniteSet({}) /\ \A f : SumFunctionOnSet(f, {}) = 0
    BY FS_EmptySet, SumEmpty
  <1>3. \A Keys, Values : IsStore(<<>>, Keys, Values)
    BY DEF IsStore
  <1>4. GoodQueue(withdraws) /\ \A t : OfAddress(withdraws, t) = {}
    BY <1>1, <1>2, <1>3 DEF GoodQueue, OfAddress
  <1>5. \A S : S = {} => AmountOf(withdraws, S) = 0
    BY <1>2, Zenon DEF AmountOf, SumOver
  <1>6. DOMAIN providers = K /\ K \subseteq Accounts /\ IsFiniteSet(K) /\ InitDelegated \in Nat
    BY <1>1, GenesisAssumption, AccountsAssumption, InputsAssumption, FS_Subset
  <1>7. ASSUME NEW a \in K
        PROVE  /\ providers[a] \in Provider /\ providers[a].bonded = InitDelegated
               /\ providers[a].collateral = GenesisCollateral[a]
               /\ providers[a].withdrawing = 0 /\ providers[a].rewards = 0
               /\ GenesisCollateral[a] \in Nat /\ GenesisCollateral[a] <= InitDelegated
    <2>1. GenesisCollateral[a] \in Nat /\ GenesisCollateral[a] <= InitDelegated
      BY <1>6, GenesisAssumption
    <2>2. providers[a] = G(a)
      BY <1>1
    <2>3. PICK mid : mid = [NewProvider EXCEPT !.bonded = InitDelegated]
      OBVIOUS
    <2>4. /\ mid \in Provider /\ mid.bonded = InitDelegated /\ mid.withdrawing = 0 /\ mid.rewards = 0
      BY <1>6, <2>3 DEF NewProvider, Provider
    <2>5. G(a) = [mid EXCEPT !.collateral = GenesisCollateral[a]]
      BY <2>3
    <2> HIDE DEF G
    <2>6. QED
      BY <2>1, <2>2, <2>4, <2>5 DEF Provider
  <1>8. \A a \in K : Sound(providers[a])
    BY <1>6, <1>7 DEF Sound
  <1>9. GoodProviders(providers)
    BY <1>1, <1>6, <1>7, <1>8 DEF GoodProviders, IsStore
  <1>10. Queued(providers, withdraws)
    BY <1>1, <1>2, <1>4, <1>5, <1>6, <1>7 DEF Queued
  <1>11. TotalCollateral(providers) = SumFunctionOnSet(GenesisCollateral, K)
    <2>1. PICK f : f = [a \in DOMAIN providers |-> providers[a].collateral]
      OBVIOUS
    <2>2. \A a \in K : f[a] = GenesisCollateral[a]
      BY <1>6, <1>7, <2>1
    <2>3. SumFunctionOnSet(f, K) = SumFunctionOnSet(GenesisCollateral, K)
      BY <1>6, <2>2, SumEqual
    <2>4. QED
      BY <1>6, <2>1, <2>3 DEF TotalCollateral, SumOver
  <1>12. TotalWithdrawing(providers) = 0
    <2>1. PICK f : f = [a \in DOMAIN providers |-> providers[a].withdrawing]
      OBVIOUS
    <2>2. \A a \in K : f[a] = 0
      BY <1>6, <1>7, <2>1
    <2>3. SumFunctionOnSet(f, K) = 0
      BY <1>6, <2>2, SumZero
    <2>4. QED
      BY <1>6, <2>1, <2>3 DEF TotalWithdrawing, SumOver
  <1>13. TotalRewards(providers) = 0
    <2>1. PICK f : f = [a \in DOMAIN providers |-> providers[a].rewards]
      OBVIOUS
    <2>2. \A a \in K : f[a] = 0
      BY <1>6, <1>7, <2>1
    <2>3. SumFunctionOnSet(f, K) = 0
      BY <1>6, <2>2, SumZero
    <2>4. QED
      BY <1>6, <2>1, <2>3 DEF TotalRewards, SumOver
  <1>14. AmountOf(withdraws, DOMAIN withdraws) = 0
    BY <1>1, <1>2, <1>5
  <1>15. \A a \in K : delegated[a] = InitDelegated
    BY <1>1, <1>6
  <1>16. delegated \in [Accounts -> Nat]
    BY <1>1, <1>6
  <1> HIDE DEF G
  <1>17. \A a \in DOMAIN providers : delegated[a] <= providers[a].bonded
    BY <1>6, <1>7, <1>15
  <1>18. totalCollateral = TotalCollateral(providers) /\ totalWithdrawing = TotalWithdrawing(providers)
    BY <1>1, <1>11, <1>12
  <1>19. ProviderInv
    BY <1>1, <1>4, <1>9, <1>10, <1>14, <1>16, <1>17, <1>18 DEF ProviderInv
  <1>20. Tracked
    BY <1>6, <1>7, <1>15 DEF Tracked
  <1>21. QED
    BY <1>13, <1>19, <1>20

\* The pool and the purchases of the genesis agree.
LEMMA GenesisBooks ==
  ASSUME ClaimsInit
  PROVE  BookInv /\ ShieldBooked
  <1>1. /\ now = 1 /\ phase = "deliver" /\ nextPurchaseID = Len(GenesisPurchases) + 1
        /\ totalShield = ShieldOf(Ids)
        /\ pools = <<[NewPool(CHOOSE s \in Sponsors : TRUE, GenesisLimit) EXCEPT !.shield = totalShield]>>
        /\ nextPoolID = 2
        /\ purchases = [i \in Ids |->
             NewPurchase(1, GenesisPurchases[i].purchaser, GenesisPurchases[i].shield, 0)]
        /\ serviceFees = 0 /\ remainingServiceFees = 0 /\ blockServiceFees = 0 /\ lastUpdateTime = 1
    BY DEF ClaimsInit
  <1>2. PICK n \in Nat : n = Len(GenesisPurchases) /\ Ids = 1..n
    BY GenesisAssumption DEF Ids
  <1>3. \A i \in Ids : GenesisPurchases[i] \in [purchaser : Accounts, shield : Nat]
    <2>1. PICK R : R = [purchaser : Accounts, shield : Nat]
      OBVIOUS
    <2>2. GenesisPurchases \in Seq(R)
      BY <2>1, GenesisAssumption
    <2>3. \A i \in 1..Len(GenesisPurchases) : GenesisPurchases[i] \in R
      BY <2>2
    <2>4. QED
      BY <1>2, <2>1, <2>3
  <1>4. DOMAIN purchases = Ids /\ IsFiniteSet(Ids) /\ Ids \subseteq Nat /\ \A i \in Ids : i < nextPurchaseID
    BY <1>1, <1>2, FS_Interval
  <1>5. Dec(0) \in Nat /\ now + ProtectionPeriod \in Nat
    <2>1. Dec(0) \in Nat
      BY DecNat
    <2>2. ProtectionPeriod \in Nat
      BY ParamsAssumption
    <2>3. QED
      BY <1>1, <2>1, <2>2
  <1>6. ASSUME NEW i \in Ids
        PROVE  /\ purchases[i] \in Purchase /\ purchases[i].shield \in Nat /\ purchases[i].pool = 1
               /\ purchases[i].protectionEnd = now + ProtectionPeriod
               /\ purchases[i].deletion = now + ProtectionPeriod
    <2>1. purchases[i] = NewPurchase(1, GenesisPurchases[i].purchaser, GenesisPurchases[i].shield, 0)
      BY <1>1
    <2>2. GenesisPurchases[i].purchaser \in Accounts /\ GenesisPurchases[i].shield \in Nat
      BY <1>3
    <2>3. QED
      BY <1>5, <2>1, <2>2 DEF NewPurchase, Purchase
  <1>7. IsStore(purchases, Nat, Purchase)
    BY <1>1, <1>4, <1>6 DEF IsStore
  <1>8. totalShield = ShieldIn(purchases, Ids) /\ totalShield \in Nat
    <2>1. \A i \in Ids : [id \in Ids |-> purchases[id].shield][i] \in Nat
      BY <1>6
    <2>2. ShieldOf(Ids) \in Nat
      BY <1>4, <2>1, SumNat DEF ShieldOf, SumOver
    <2>3. \A i \in Ids : [id \in Ids |-> purchases[id].shield][i] = Shields(purchases)[i]
      BY <1>4 DEF Shields
    <2>4. ShieldOf(Ids) = ShieldIn(purchases, Ids)
      BY <1>4, <2>3, SumEqual DEF ShieldOf, SumOver, ShieldIn
    <2>5. QED
      BY <1>1, <2>2, <2>4
  <1>9. PICK sponsor \in Sponsors : sponsor = CHOOSE s \in Sponsors : TRUE
    BY GenesisAssumption
  <1>10. PICK pool : pool = [NewPool(sponsor, GenesisLimit) EXCEPT !.shield = totalShield]
    OBVIOUS
  <1>11. pool \in Pool /\ pool.shield = totalShield
    <2>1. PICK empty : empty = NewPool(sponsor, GenesisLimit)
      OBVIOUS
    <2>2. empty \in Pool
      BY <2>1, GenesisAssumption DEF NewPool, Pool
    <2>3. pool = [empty EXCEPT !.shield = totalShield] /\ totalShield \in Int
      BY <1>8, <1>10, <2>1
    <2>4. QED
      BY <2>2, <2>3 DEF Pool
  <1>12. pools = <<pool>>
    BY <1>1, <1>9, <1>10
  <1>13. DOMAIN pools = {1} /\ pools[1] = pool
    BY <1>12
  <1>14. IsStore(pools, Nat, Pool) /\ IsFiniteSet(DOMAIN pools)
    <2>1. pools \in [{1} -> Pool]
      BY <1>11, <1>12, <1>13
    <2>2. IsFiniteSet({1})
      BY FS_Singleton
    <2>3. QED
      BY <1>13, <2>1, <2>2 DEF IsStore
  <1>15. BookInv
    BY <1>1, <1>4, <1>5, <1>6, <1>7, <1>8, <1>13, <1>14 DEF BookInv
  <1>16. ShieldIn(pools, DOMAIN pools) = totalShield
    <2>1. Shields(pools)[1] = totalShield
      BY <1>11, <1>13 DEF Shields
    <2>2. SumFunctionOnSet(Shields(pools), {1}) = Shields(pools)[1] + SumFunctionOnSet(Shields(pools), {1} \ {1})
      BY <1>8, <1>13, <1>14, <2>1, SumRemove
    <2>3. SumFunctionOnSet(Shields(pools), {1} \ {1}) = 0
      <3>1. {1} \ {1} = {}
        OBVIOUS
      <3>2. QED
        BY <3>1, SumEmpty
    <2>4. QED
      BY <1>8, <1>13, <2>1, <2>2, <2>3 DEF ShieldIn
  <1>17. OfPool(purchases, 1) = Ids
    BY <1>4, <1>6 DEF OfPool
  <1>18. ShieldIn(purchases, OfPool(purchases, 1)) = pools[1].shield
    BY <1>8, <1>11, <1>13, <1>17
  <1>19. ShieldBooked
    BY <1>8, <1>11, <1>13, <1>16, <1>18 DEF ShieldBooked
  <1>20. QED
    BY <1>15, <1>19

\* At genesis the books agree, and there are no claims.
LEMMA GenesisInv ==
  ASSUME ClaimsInit
  PROVE  ClaimsInv
  <1>1. /\ claims = <<>> /\ nextProposalID = 1 /\ reimbursements = <<>> /\ totalClaimed = 0
        /\ moduleBalance = 0 /\ remainingServiceFees = 0 /\ blockServiceFees = 0
    BY DEF ClaimsInit
  <1>2. DOMAIN <<>> = {} /\ IsFiniteSet({}) /\ \A f : SumFunctionOnSet(f, {}) = 0
    BY FS_EmptySet, SumEmpty
  <1>3. \A Keys, Values : IsStore(<<>>, Keys, Values)
    BY DEF IsStore
  <1>4. LossIn(claims, DOMAIN claims) = 0 /\ Held(reimbursements) = 0
    BY <1>1, <1>2, Zenon DEF LossIn, Held
  <1>5. ClaimInv
    BY <1>1, <1>2, <1>3, <1>4 DEF ClaimInv, GoodClaims
  <1>6. PurchaseInv
    BY <1>1, <1>2, GenesisBooks DEF PurchaseInv
  <1>7. FeesBooked = 0
    BY <1>1, GenesisProviders DEF FeesBooked
  <1>8. Dec(0) = 0 + Dec(0)
    <2>1. Dec(0) \in Nat
      BY DecNat
    <2>2. QED
      BY <2>1
  <1>9. ReimbursementInv
    BY <1>1, <1>2, <1>3, <1>4, <1>7, <1>8 DEF ReimbursementInv, GoodReimbursements
  <1>10. QED
    BY <1>5, <1>6, <1>9, GenesisProviders, GenesisBooks DEF ClaimsInv

\* Every step keeps the books.
LEMMA ClaimsInvStep ==
  ASSUME ClaimsInv, [ClaimsNext]_allVars
  PROVE  ClaimsInv'
  <1>1. moduleBalance \in Int
    BY DEF ClaimsInv, ReimbursementInv
  <1>2. ProviderInv' /\ Tracked'
    BY <1>1, ClaimProviderInvStep DEF ClaimsInv
  <1>3. BookInv' /\ PurchaseInv'
    BY PurchaseInvStep DEF ClaimsInv
  <1>4. ClaimInv' /\ ReimbursementInv'
    BY ClaimInvStep, ReimbursementInvStep DEF ClaimsInv
  <1>5. QED
    BY <1>2, <1>3, <1>4 DEF ClaimsInv

\* Through claims, votes, payouts and reimbursements the books of providers, purchases,
\* claims and the module account stay consistent.
THEOREM ClaimsBooks == ClaimsSpec => []ClaimsInv
  <1>1. ClaimsInit => ClaimsInv
    BY GenesisInv
  <1>2. ClaimsInv /\ [ClaimsNext]_allVars => ClaimsInv'
    BY ClaimsInvStep
  <1>3. QED
    BY <1>1, <1>2, PTL DEF ClaimsSpec

\* The claimed amount, which SubmitClaim adds to and ClaimEnd and CreateReimbursement take
\* from, is that of the claims that are voted on, whichever way they end.
THEOREM ClaimsClaimedIsSum == ClaimsSpec => []ClaimedIsSum
  <1>1. ClaimsInv => ClaimedIsSum
    <2> SUFFICES ASSUME ClaimInv PROVE ClaimedIsSum
      BY DEF ClaimsInv
    <2>2. LossOf(DOMAIN claims) = LossIn(claims, DOMAIN claims)
      BY LossOfSum
    <2>3. QED
      BY <2>2 DEF ClaimedIsSum, ClaimInv
  <1>2. QED
    BY <1>1, ClaimsBooks, PTL

\* Payouts, which take from collateral, withdraws and delegations and call the staking
\* hooks on the way, leave the totals the sums over the providers and the queue what they
\* are withdrawing.
THEOREM ClaimsBooksBalanced == ClaimsSpec => []BooksBalanced
  <1>1. ClaimsInv => BooksBalanced
    <2> SUFFICES ASSUME ProviderInv PROVE BooksBalanced
      BY DEF ClaimsInv
    <2>2. ProviderInvariant
      BY DEF ProviderInv, ProviderInvariant, TotalCollateral, TotalWithdrawing
    <2>3. \A a : WithdrawnAmount(WithdrawsOf(a)) = AmountOf(withdraws, OfAddress(withdraws, a))
      BY DEF WithdrawnAmount, WithdrawsOf, OfAddress
    <2>4. WithdrawingIsQueued
      BY <2>3 DEF ProviderInv, Queued, GoodProviders, Sound, WithdrawingIsQueued
    <2>5. QED
      BY <2>2, <2>4 DEF BooksBalanced
  <1>2. QED
    BY <1>1, ClaimsBooks, PTL

\* Shield taken out by claims and put back by RestoreShield stays within pool and total,
\* whether or not the purchase of a rejected claim is still there: no purchase that expires
\* takes out more shield than was put in.
THEOREM ClaimsPurchasesBooked == ClaimsSpec => []PurchasesBooked
  <1>1. ClaimsInv => PurchasesBooked
    <2> SUFFICES ASSUME BookInv, ShieldBooked PROVE PurchasesBooked
      BY DEF ClaimsInv, PurchaseInv
    <2>2. SumOver([id \in DOMAIN pools |-> pools[id].shield], DOMAIN pools) = ShieldIn(pools, DOMAIN pools)
      BY DEF SumOver, ShieldIn, Shields
    <2>3. \A id : {i \in DOMAIN purchases : purchases[i].pool = id} = OfPool(purchases, id)
      BY DEF OfPool
    <2>4. \A id : ShieldOf(OfPool(purchases, id)) = ShieldIn(purchases, OfPool(purchases, id))
      BY ShieldOfSum DEF OfPool
    <2>5. QED
      BY <2>2, <2>3, <2>4 DEF ShieldBooked, PurchasesBooked
  <1>2. QED
    BY <1>1, ClaimsBooks, PTL

\* ModuleAccountInvariant with the reimbursements: what the account holds is, to the last
\* unit, what is booked as fees, rewards and reimbursements not yet withdrawn.
THEOREM ClaimsReimbursementsHeld == ClaimsSpec => []ReimbursementsHeld
  <1>1. ClaimsInv => ReimbursementsHeld
    <2> SUFFICES ASSUME ProviderInv, BookInv, ReimbursementInv PROVE ReimbursementsHeld
      BY DEF ClaimsInv
    <2>2. Rewards = TotalRewards(providers)
      BY DEF Rewards, TotalRewards
    <2>3. SumOver([id \in DOMAIN reimbursements |-> reimbursements[id].amount], DOMAIN reimbursements)
            = Held(reimbursements)
      BY DEF SumOver, Held, Amounts
    <2>4. QED
      BY <2>2, <2>3 DEF ReimbursementInv, FeesBooked, ReimbursementsHeld
  <1>2. QED
    BY <1>1, ClaimsBooks, PTL

-----------------------------------------------------------------------------
(* LockInv: collateral is left for a claim as long as its lock lasts.      *)

\* The claims that are not later than one whose lock lasts beyond t.
Reserved(cs, t) == {i \in DOMAIN cs : \E j \in DOMAIN cs : i <= j /\ cs[j].lockEnd > t}

ReservedLoss(cs, t) == LossIn(cs, Reserved(cs, t))

\* Locks end in the order of the claims, and within two voting periods.
InOrder(cs) == \A i, j \in DOMAIN cs : i <= j => cs[i].lockEnd <= cs[j].lockEnd

LocksEnd == \A i \in DOMAIN claims : claims[i].lockEnd <= now + 2 * VotingPeriod

\* The collateral left at t covers the claims that are reserved for.
CoversAt(t) ==
  ReservedLoss(claims, t) + AmountOf(withdraws, DueBy(withdraws, t)) <= totalCollateral

LockInv ==
  /\ InOrder(claims) /\ LocksEnd
  /\ \A t \in Nat : now <= t => CoversAt(t)
  /\ totalCollateral <= MaxCollateral

\* A part of the claims has no greater loss.
LEMMA LossPart ==
  ASSUME NEW cs, GoodClaims(cs), NEW S \in SUBSET DOMAIN cs, NEW R \in SUBSET S
  PROVE  LossIn(cs, R) \in Nat /\ LossIn(cs, S) \in Nat /\ LossIn(cs, R) <= LossIn(cs, S)
  <1>1. IsFiniteSet(S) /\ \A i \in S : Losses(cs)[i] \in Nat
    BY LossNat
  <1>2. /\ SumFunctionOnSet(Losses(cs), S)
             = SumFunctionOnSet(Losses(cs), S \ R) + SumFunctionOnSet(Losses(cs), R)
        /\ SumFunctionOnSet(Losses(cs), S \ R) \in Nat /\ SumFunctionOnSet(Losses(cs), R) \in Nat
    BY <1>1, SumDifference
  <1>3. QED
    BY <1>2 DEF LossIn

\* Claims that agree on a set have the same loss there.
LEMMA LossEqual ==
  ASSUME NEW cs, NEW new, GoodClaims(cs), NEW S \in SUBSET DOMAIN cs, S \subseteq DOMAIN new,
         \A i \in S : new[i].loss = cs[i].loss
  PROVE  LossIn(new, S) = LossIn(cs, S)
  <1>1. IsFiniteSet(S)
    BY LossNat
  <1>2. \A i \in S : Losses(new)[i] = Losses(cs)[i]
    BY DEF Losses
  <1>3. QED
    BY <1>1, <1>2, SumEqual DEF LossIn

\* What is reserved is a part of the claims.
LEMMA ReservedNat ==
  ASSUME NEW cs, GoodClaims(cs), NEW t
  PROVE  /\ Reserved(cs, t) \in SUBSET DOMAIN cs
         /\ ReservedLoss(cs, t) \in Nat /\ LossIn(cs, DOMAIN cs) \in Nat
         /\ ReservedLoss(cs, t) <= LossIn(cs, DOMAIN cs)
  <1>1. Reserved(cs, t) \in SUBSET DOMAIN cs /\ DOMAIN cs \in SUBSET DOMAIN cs
    BY DEF Reserved
  <1>2. QED
    BY <1>1, LossPart DEF ReservedLoss

\* At no time is more reserved.
LessReserved(cs, new) == \A t \in Nat : ReservedLoss(new, t) <= ReservedLoss(cs, t)

\* A change of rounds leaves what is reserved.
LEMMA RoundReserves ==
  ASSUME NEW cs, NEW new, GoodClaims(cs), SameClaims(cs, new)
  PROVE  LessReserved(cs, new)
  <1>1. ASSUME NEW t \in Nat PROVE ReservedLoss(new, t) <= ReservedLoss(cs, t)
    <2>1. /\ DOMAIN new = DOMAIN cs
          /\ \A i \in DOMAIN cs : new[i].loss = cs[i].loss /\ new[i].lockEnd = cs[i].lockEnd
      BY DEF SameClaims
    <2>2. Reserved(new, t) = Reserved(cs, t)
      BY <2>1 DEF Reserved
    <2>3. PICK S \in SUBSET DOMAIN cs : S = Reserved(cs, t)
      BY ReservedNat
    <2>4. LossIn(new, S) = LossIn(cs, S)
      BY <2>1, <2>3, LossEqual
    <2>5. LossIn(cs, S) \in Nat
      BY LossNat
    <2>6. QED
      BY <2>2, <2>3, <2>4, <2>5 DEF ReservedLoss
  <1>2. QED
    BY <1>1 DEF LessReserved

\* What a claim that ends leaves reserved.
LEMMA EndedReserves ==
  ASSUME NEW cs, NEW new, GoodClaims(cs), NEW n \in DOMAIN cs, ClaimsWithout(cs, new, n), NEW t \in Nat
  PROVE  /\ ReservedLoss(new, t) \in Nat /\ ReservedLoss(cs, t) \in Nat /\ cs[n].loss \in Nat
         /\ ReservedLoss(new, t) <= ReservedLoss(cs, t)
         /\ n \in Reserved(cs, t) => ReservedLoss(new, t) + cs[n].loss <= ReservedLoss(cs, t)
         /\ InOrder(cs) /\ n \notin Reserved(cs, t) => ReservedLoss(new, t) = 0
  <1>1. /\ GoodClaims(new) /\ DOMAIN new = DOMAIN cs \ {n} /\ cs[n].loss \in Nat
        /\ \A i \in DOMAIN new : new[i] = cs[i]
    BY DEF ClaimsWithout
  <1>2. PICK S \in SUBSET DOMAIN cs : S = Reserved(cs, t)
    BY ReservedNat
  <1>3. PICK R \in SUBSET DOMAIN new : R = Reserved(new, t)
    BY <1>1, ReservedNat
  <1>4. R \in SUBSET S /\ n \notin R /\ R \in SUBSET DOMAIN cs
    BY <1>1, <1>2, <1>3 DEF Reserved
  <1>5. LossIn(new, R) = LossIn(cs, R)
    BY <1>1, <1>4, LossEqual
  <1>6. LossIn(cs, R) \in Nat /\ LossIn(cs, S) \in Nat /\ LossIn(cs, R) <= LossIn(cs, S)
    BY <1>4, LossPart
  <1>7. ASSUME n \in S PROVE LossIn(cs, R) + cs[n].loss <= LossIn(cs, S)
    <2>1. R \in SUBSET (S \ {n}) /\ S \ {n} \in SUBSET DOMAIN cs
      BY <1>4
    <2>2. LossIn(cs, R) <= LossIn(cs, S \ {n}) /\ LossIn(cs, S \ {n}) \in Nat
      BY <2>1, LossPart
    <2>3. IsFiniteSet(S) /\ \A i \in S : Losses(cs)[i] \in Nat
      BY LossNat
    <2>4. SumFunctionOnSet(Losses(cs), S) = Losses(cs)[n] + SumFunctionOnSet(Losses(cs), S \ {n})
      BY <1>7, <2>3, SumRemove
    <2>5. LossIn(cs, S) = cs[n].loss + LossIn(cs, S \ {n})
      BY <2>4 DEF LossIn, Losses
    <2>6. PICK x \in Nat, y \in Nat, z \in Nat :
            x = LossIn(cs, R) /\ y = cs[n].loss /\ z = LossIn(cs, S \ {n}) /\ x <= z
      BY <1>1, <1>6, <2>2
    <2>7. LossIn(cs, S) = y + z
      BY <2>5, <2>6
    <2>8. x + y <= y + z
      BY <2>6
    <2>9. QED
      BY <2>6, <2>7, <2>8
  <1>8. ASSUME InOrder(cs), n \notin S PROVE LossIn(cs, R) = 0
    <2>1. \A i \in DOMAIN cs : i \in Nat /\ cs[i].lockEnd \in Nat
      BY DEF GoodClaims, IsStore, Claim
    <2>2. ASSUME NEW j \in DOMAIN cs, cs[j].lockEnd > t PROVE FALSE
      <3>1. ~ (n <= j) /\ ~ (cs[n].lockEnd > t)
        <4>1. n <= n
          BY <2>1
        <4>2. QED
          BY <1>2, <1>8, <2>2, <4>1 DEF Reserved
      <3>2. j <= n
        BY <2>1, <3>1
      <3>3. cs[j].lockEnd <= cs[n].lockEnd
        BY <1>8, <3>2 DEF InOrder
      <3>4. QED
        BY <2>1, <2>2, <3>1, <3>3
    <2>3. S = {}
      BY <1>2, <2>2 DEF Reserved
    <2>4. R = {}
      BY <1>4, <2>3
    <2>5. QED
      BY <2>4, SumEmpty DEF LossIn
  <1>9. QED
    BY <1>1, <1>2, <1>3, <1>5, <1>6, <1>7, <1>8 DEF ReservedLoss

\* The collateral that is left at a time, added up over the providers.
LEMMA FreeTotal ==
  ASSUME GoodProviders(providers), NEW queue, GoodQueue(queue), Queued(providers, queue), NEW t
  PROVE  /\ SumFunctionOnSet(FreeAt(queue, t), DOMAIN providers) \in Nat
         /\ AmountOf(queue, DueBy(queue, t)) \in Nat
         /\ SumFunctionOnSet(FreeAt(queue, t), DOMAIN providers) + AmountOf(queue, DueBy(queue, t))
              = TotalCollateral(providers)
  <1> DEFINE K == DOMAIN providers
             S == DueBy(queue, t)
             part == [a \in K |-> DueOf(queue, a, t)]
             f == [n \in S |-> queue[n].amount]
             g == [a \in K |-> AmountOf(queue, DueOf(queue, a, t))]
             free == FreeAt(queue, t)
             all == Collaterals(providers)
  <1>1. IsFiniteSet(K) /\ IsFiniteSet(S) /\ S \in SUBSET DOMAIN queue
    <2>1. S \in SUBSET DOMAIN queue
      BY DEF DueBy
    <2>2. QED
      BY <2>1, TotalsNat, FS_Subset DEF GoodQueue
  <1>2. \A n \in S : f[n] \in Nat
    BY <1>1 DEF GoodQueue, IsStore, Withdraw
  <1>3. ASSUME NEW a \in K PROVE part[a] \in SUBSET S /\ g[a] = SumFunctionOnSet(f, part[a])
    <2>1. part[a] = DueOf(queue, a, t) /\ part[a] \in SUBSET S
      BY DEF DueOf, DueBy
    <2>2. g[a] = AmountOf(queue, part[a])
      BY <2>1
    <2>3. IsFiniteSet(part[a])
      BY <1>1, <2>1, FS_Subset
    <2>4. \A n \in part[a] : [m \in part[a] |-> queue[m].amount][n] = f[n]
      BY <2>1
    <2> HIDE DEF f, g, part
    <2>5. SumFunctionOnSet([m \in part[a] |-> queue[m].amount], part[a]) = SumFunctionOnSet(f, part[a])
      BY <2>3, <2>4, SumEqual
    <2>6. QED
      BY <2>1, <2>2, <2>5 DEF AmountOf, SumOver
  <1>4. \A a, b \in K : a # b => part[a] \cap part[b] = {}
    BY DEF DueOf
  <1>5. \A n \in S : \E a \in K : n \in part[a]
    BY DEF DueOf, DueBy, Queued
  <1>6. AmountOf(queue, S) = SumFunctionOnSet(f, S)
    BY DEF AmountOf, SumOver
  <1>7. AmountOf(queue, S) \in Nat
    BY <1>1, AmountNat
  <1>8. \A a \in K : free[a] \in Nat /\ g[a] \in Nat /\ all[a] = free[a] + g[a]
    <2>1. ASSUME NEW a \in K PROVE free[a] \in Nat /\ g[a] \in Nat /\ all[a] = free[a] + g[a]
      <3>1. g[a] = AmountOf(queue, DueOf(queue, a, t))
        OBVIOUS
      <3> HIDE DEF g
      <3>2. QED
        BY <3>1, FreeAtNat
    <2>2. QED
      BY <2>1
  <1>9. TotalCollateral(providers) = SumFunctionOnSet(all, K)
    BY DEF TotalCollateral, Collaterals, SumOver
  <1> HIDE DEF K, S, part, f, g, free, all
  <1>10. SumFunctionOnSet(g, K) = SumFunctionOnSet(f, S)
    BY <1>1, <1>2, <1>3, <1>4, <1>5, SumCover
  <1>11. SumFunctionOnSet(all, K) = SumFunctionOnSet(free, K) + SumFunctionOnSet(g, K)
    BY <1>1, <1>8, SumPlus
  <1>12. SumFunctionOnSet(free, K) \in Nat
    BY <1>1, <1>8, SumNat
  <1>13. QED
    BY <1>6, <1>7, <1>9, <1>10, <1>11, <1>12 DEF K, S, free

\* The collateral always covers what is queued.
QueueCovered ==
  \A t \in Nat : /\ AmountOf(withdraws, DueBy(withdraws, t)) \in Nat /\ totalCollateral \in Nat
                 /\ AmountOf(withdraws, DueBy(withdraws, t)) <= totalCollateral

\* Because what is being withdrawn is part of the collateral.
LEMMA QueueIsCovered == ProviderInv /\ BookInv => QueueCovered
  <1> SUFFICES ASSUME ProviderInv, BookInv, NEW t \in Nat
               PROVE  /\ AmountOf(withdraws, DueBy(withdraws, t)) \in Nat /\ totalCollateral \in Nat
                      /\ AmountOf(withdraws, DueBy(withdraws, t)) <= totalCollateral
    BY DEF QueueCovered
  <1>1. /\ AmountOf(withdraws, DueBy(withdraws, t)) \in Nat
        /\ AmountOf(withdraws, DueBy(withdraws, t)) <= totalWithdrawing
        /\ totalCollateral \in Nat /\ totalWithdrawing \in Nat
        /\ totalWithdrawing <= totalCollateral
    BY CoverAmounts
  <1>2. QED
    BY <1>1

\* After two voting periods nothing is reserved.
CoveredAfterLocks == \A t \in Nat : now + 2 * VotingPeriod <= t => CoversAt(t)

\* Because no lock lasts longer, and the collateral covers the queue.
LEMMA NothingReservedLate ==
  BookInv /\ ClaimInv /\ QueueCovered /\ LocksEnd => CoveredAfterLocks
  <1> SUFFICES ASSUME BookInv, ClaimInv, QueueCovered, LocksEnd,
                      NEW t \in Nat, now + 2 * VotingPeriod <= t
               PROVE  CoversAt(t)
    BY DEF CoveredAfterLocks
  <1>1. now \in Nat /\ 2 * VotingPeriod \in Nat
    BY ClaimsAssumption DEF BookInv
  <1>2. \A i \in DOMAIN claims : claims[i].lockEnd \in Nat
    BY DEF ClaimInv, GoodClaims, IsStore, Claim
  <1>3. \A i \in DOMAIN claims : ~ (claims[i].lockEnd > t)
    BY <1>1, <1>2 DEF LocksEnd
  <1>4. Reserved(claims, t) = {}
    BY <1>3 DEF Reserved
  <1>5. ReservedLoss(claims, t) = 0
    BY <1>4, SumEmpty DEF ReservedLoss, LossIn
  <1>6. QED
    BY <1>5 DEF CoversAt, QueueCovered

\* Time does not go back.
LEMMA TimeGoesOn ==
  ASSUME BookInv, [ClaimsNext]_allVars
  PROVE  now' \in Nat /\ now <= now'
  <1>0. now \in Nat
    BY DEF BookInv
  <1>1. CASE ClaimProviderStep
    BY <1>0, <1>1, ClaimProviderStepIs, ProviderStepFrame
  <1>2. CASE SubmitStep
    BY <1>0, <1>2 DEF SubmitStep, SubmitClaim
  <1>3. ASSUME NEW a, NEW id, WithdrawReimbursement(a, id) PROVE now' \in Nat /\ now <= now'
    BY <1>0, <1>3 DEF WithdrawReimbursement
  <1>4. ASSUME NEW id, CertifiersPass(id) \/ RejectClaim(id) \/ VetoClaim(id) \/ PassClaim(id)
        PROVE  now' \in Nat /\ now <= now'
    <2>1. CertifiersPass(id) => now' = now
      BY DEF CertifiersPass, vars
    <2>2. RejectClaim(id) => now' = now
      BY DEF RejectClaim
    <2>3. VetoClaim(id) => now' = now
      BY DEF VetoClaim
    <2>4. PassClaim(id) => now' = now
      BY DEF PassClaim
    <2>5. QED
      BY <1>0, <1>4, <2>1, <2>2, <2>3, <2>4
  <1>5. CASE EndStep \/ QuietStep
    <2>1. EndStep => now' = now
      BY DEF EndStep, EndBlocker
    <2>2. QuietStep => now' = now
      BY DEF QuietStep
    <2>3. QED
      BY <1>0, <1>5, <2>1, <2>2
  <1>6. CASE NextStep
    BY <1>0, <1>6 DEF NextStep, NextBlock
  <1>7. QED
    BY <1>1, <1>2, <1>3, <1>4, <1>5, <1>6, ClaimStepKinds

\* Locks keep ending in the order of the claims, and within two voting periods.
LEMMA LocksStep ==
  ASSUME BookInv, ClaimInv, InOrder(claims), LocksEnd, [ClaimsNext]_allVars
  PROVE  InOrder(claims') /\ LocksEnd'
  <1>1. /\ GoodClaims(claims) /\ nextProposalID \in Nat /\ nextProposalID \notin DOMAIN claims
        /\ \A i \in DOMAIN claims : i < nextProposalID /\ i \in Nat /\ claims[i].lockEnd \in Nat
    BY DEF ClaimInv, GoodClaims, IsStore, Claim
  <1>2. PICK lock \in Nat : lock = now + 2 * VotingPeriod
    BY ClaimsAssumption DEF BookInv
  <1>3. lock <= now' + 2 * VotingPeriod /\ now' + 2 * VotingPeriod \in Nat
    BY <1>2, TimeGoesOn, ClaimsAssumption DEF BookInv
  <1>4. \A i \in DOMAIN claims : claims[i].lockEnd <= lock
    BY <1>2 DEF LocksEnd
  <1>5. ASSUME NEW id \in DOMAIN purchases, NEW loss \in Nat, NEW sender \in Accounts,
               claims' = StoreSet(claims, nextProposalID, Submitted(sender, id, loss))
        PROVE  InOrder(claims') /\ LocksEnd'
    <2>1. PICK c \in Claim : c = Submitted(sender, id, loss)
      BY SubmittedIsClaim
    <2>2. c.lockEnd = lock
      BY <1>2, <2>1 DEF Submitted
    <2>3. /\ DOMAIN claims' = DOMAIN claims \cup {nextProposalID} /\ claims'[nextProposalID] = c
          /\ \A i \in DOMAIN claims : claims'[i] = claims[i]
      <3>1. claims' = StoreSet(claims, nextProposalID, c)
        BY <1>5, <2>1
      <3>2. ClaimsWith(claims, claims', nextProposalID, c)
        BY <1>1, <3>1, ClaimAdded
      <3>3. QED
        BY <3>2 DEF ClaimsWith
    <2>4. \A i \in DOMAIN claims' : claims'[i].lockEnd \in Nat /\ claims'[i].lockEnd <= lock
      BY <1>1, <1>4, <2>2, <2>3
    <2>5. LocksEnd'
      BY <1>3, <2>4 DEF LocksEnd
    <2>6. ASSUME NEW i \in DOMAIN claims', NEW j \in DOMAIN claims', i <= j
          PROVE  claims'[i].lockEnd <= claims'[j].lockEnd
      <3>1. CASE j = nextProposalID
        BY <2>2, <2>3, <2>4, <3>1
      <3>2. CASE j # nextProposalID
        <4>1. j \in DOMAIN claims /\ i # nextProposalID
          BY <1>1, <2>3, <2>6, <3>2
        <4>2. i \in DOMAIN claims
          BY <2>3, <4>1
        <4>3. QED
          BY <2>3, <2>6, <4>1, <4>2 DEF InOrder
      <3>3. QED
        BY <3>1, <3>2
    <2>7. QED
      BY <2>5, <2>6 DEF InOrder
  <1>6. ASSUME DOMAIN claims' \subseteq DOMAIN claims,
               \A i \in DOMAIN claims' : claims'[i].lockEnd = claims[i].lockEnd
        PROVE  InOrder(claims') /\ LocksEnd'
    <2>1. InOrder(claims')
      BY <1>6 DEF InOrder
    <2>2. \A i \in DOMAIN claims' : claims'[i].lockEnd \in Nat /\ claims'[i].lockEnd <= lock
      BY <1>1, <1>4, <1>6
    <2>3. QED
      BY <1>3, <2>1, <2>2 DEF LocksEnd
  <1>7. ASSUME NEW id \in DOMAIN claims, claims' = StoreDelete(claims, {id})
        PROVE  InOrder(claims') /\ LocksEnd'
    <2>1. ClaimsWithout(claims, claims', id)
      BY <1>1, <1>7, ClaimEnded
    <2>2. DOMAIN claims' \subseteq DOMAIN claims /\ \A i \in DOMAIN claims' : claims'[i].lockEnd = claims[i].lockEnd
      BY <2>1 DEF ClaimsWithout
    <2>3. QED
      BY <1>6, <2>2
  <1>8. ASSUME NEW id \in DOMAIN claims,
               claims' = [claims EXCEPT ![id].round = 2, ![id].votingEnd = now + VotingPeriod]
        PROVE  InOrder(claims') /\ LocksEnd'
    <2>1. PICK end \in Nat : end = now + VotingPeriod
      BY ClaimsAssumption DEF BookInv
    <2>2. SameClaims(claims, claims')
      BY <1>1, <1>8, <2>1, RoundChanged
    <2>3. QED
      BY <1>6, <2>2 DEF SameClaims
  <1>9. CASE claims' = claims
    BY <1>6, <1>9
  <1>10. QED
    BY <1>5, <1>7, <1>8, <1>9, ClaimsChangeStep DEF ClaimsChange

\* What is compared at a time.
LEMMA CoversAmounts ==
  ASSUME ProviderInv, BookInv, ClaimInv, NEW t \in Nat
  PROVE  /\ ReservedLoss(claims, t) \in Nat
         /\ AmountOf(withdraws, DueBy(withdraws, t)) \in Nat
         /\ totalCollateral \in Nat
  BY CoverAmounts, ReservedNat DEF ClaimInv

\* A time at which locks of now may last.
Locked(t) == t \in Nat /\ now <= t /\ t < now + 2 * VotingPeriod

\* Messages of providers and delegators leave the claims covered: what they withdraw
\* completes after WithdrawPeriod, which no lock outlasts.
LEMMA ProviderStepCovers ==
  ASSUME ProviderInv, BookInv, ClaimInv, LockInv, ProviderInv', BookInv', ClaimInv',
         ClaimProviderStep, NEW t, Locked(t)
  PROVE  CoversAt(t)'
  <1>1. Spares /\ claims' = claims
    BY ClaimProviderStepIs, ProviderStepKeeps DEF BookInv, claimVars
  <1>2. t \in Nat /\ t < now + WithdrawPeriod /\ CoversAt(t)
    BY ClaimsAssumption, ParamsAssumption DEF LockInv, Locked, BookInv
  <1>3. /\ AmountOf(withdraws', DueBy(withdraws', t)) = AmountOf(withdraws, DueBy(withdraws, t))
        /\ totalCollateral <= totalCollateral'
    BY <1>1, <1>2 DEF Spares
  <1>4. /\ ReservedLoss(claims, t) \in Nat /\ totalCollateral \in Nat /\ totalCollateral' \in Nat
        /\ AmountOf(withdraws, DueBy(withdraws, t)) \in Nat
    <2>1. totalCollateral' \in Nat
      BY TotalsNat DEF ProviderInv
    <2>2. QED
      BY <1>2, <2>1, CoversAmounts
  <1>5. QED
    BY <1>1, <1>2, <1>3, <1>4 DEF CoversAt

\* A claim that is submitted is covered with all the others: SecureCollaterals secures the
\* whole claimed amount until the new lock ends.
LEMMA SubmitCovers ==
  ASSUME MaxCollateral < Precision, ProviderInv, BookInv, ClaimInv, LockInv, ClaimInv',
         SubmitStep, NEW t, Locked(t)
  PROVE  CoversAt(t)'
  <1>1. PICK id \in DOMAIN purchases, loss \in Nat, sender \in Accounts :
          loss > 0 /\ SubmitClaim(sender, id, loss)
    BY DEF SubmitStep
  <1>2. PICK total \in Nat : total = totalClaimed + loss
    BY <1>1, SubmitSecures
  <1>3. PICK s : s = Secured(total)
    OBVIOUS
  <1>4. /\ total <= totalCollateral /\ totalCollateral \in Nat /\ totalCollateral > 0
        /\ SecuredFor(s, DOMAIN providers, total) /\ ~ s.panic
        /\ withdraws' = s.withdraws /\ totalCollateral' = totalCollateral
    BY <1>1, <1>2, <1>3, SubmitSecures
  <1>5. GoodProviders(providers) /\ totalCollateral = TotalCollateral(providers)
    BY DEF ProviderInv
  <1>6. totalCollateral < Precision
    BY <1>4, ParamsAssumption, InputsAssumption, PrecisionAssumption DEF LockInv
  <1>7. s.remaining = 0
    BY <1>4, <1>5, <1>6, SecuredWhole
  <1>8. t \in Nat /\ t < now + LockPeriod
    BY LockEndNat DEF Locked, BookInv
  <1>9. GoodQueue(s.withdraws) /\ Queued(providers, s.withdraws)
    BY <1>4 DEF SecuredFor
  <1>10. total <= SumFunctionOnSet(FreeAt(s.withdraws, t), DOMAIN providers)
    <2>1. total - s.remaining <= SumFunctionOnSet(FreeAt(s.withdraws, t), DOMAIN providers)
      BY <1>4, <1>8 DEF SecuredFor
    <2>2. total - s.remaining = total
      BY <1>7
    <2>3. QED
      BY <2>1, <2>2
  <1>11. PICK f \in Nat, w \in Nat :
           /\ f = SumFunctionOnSet(FreeAt(s.withdraws, t), DOMAIN providers)
           /\ w = AmountOf(s.withdraws, DueBy(s.withdraws, t))
           /\ f + w = totalCollateral
    BY <1>5, <1>9, FreeTotal
  <1>12. PICK r \in Nat : r = ReservedLoss(claims', t) /\ r <= total
    <2>1. GoodClaims(claims') /\ totalClaimed' = LossIn(claims', DOMAIN claims')
      BY DEF ClaimInv
    <2>2. totalClaimed' = total
      BY <1>1, <1>2 DEF SubmitClaim
    <2>3. QED
      BY <2>1, <2>2, ReservedNat
  <1>13. r + w <= totalCollateral
    BY <1>10, <1>11, <1>12
  <1>14. QED
    BY <1>4, <1>11, <1>12, <1>13 DEF CoversAt

\* A claim that ends without a payout, or goes into its second round, leaves the others
\* covered.
LEMMA VoteCovers ==
  ASSUME ProviderInv, BookInv, ClaimInv, LockInv, ClaimInv', NEW id \in DOMAIN claims,
         CertifiersPass(id) \/ RejectClaim(id) \/ VetoClaim(id), NEW t, Locked(t)
  PROVE  CoversAt(t)'
  <1>1. GoodClaims(claims) /\ GoodClaims(claims') /\ t \in Nat /\ CoversAt(t)
    BY DEF ClaimInv, LockInv, Locked
  <1>2. withdraws' = withdraws /\ totalCollateral' = totalCollateral
    <2>1. CertifiersPass(id) => withdraws' = withdraws /\ totalCollateral' = totalCollateral
      BY DEF CertifiersPass, vars, providerVars
    <2>2. RejectClaim(id) \/ VetoClaim(id) => withdraws' = withdraws /\ totalCollateral' = totalCollateral
      BY DEF RejectClaim, VetoClaim, providerVars
    <2>3. QED
      BY <2>1, <2>2
  <1>3. ReservedLoss(claims', t) <= ReservedLoss(claims, t)
    <2>1. CASE CertifiersPass(id)
      <3>1. PICK end \in Nat : end = now + VotingPeriod
        BY ClaimsAssumption DEF BookInv
      <3>2. claims' = [claims EXCEPT ![id].round = 2, ![id].votingEnd = end]
        BY <2>1, <3>1 DEF CertifiersPass
      <3>3. SameClaims(claims, claims')
        BY <1>1, <3>2, RoundChanged
      <3>4. LessReserved(claims, claims')
        BY <1>1, <3>3, RoundReserves
      <3>5. QED
        BY <1>1, <3>4 DEF LessReserved
    <2>2. CASE RejectClaim(id) \/ VetoClaim(id)
      <3>1. claims' = StoreDelete(claims, {id})
        BY <2>2 DEF RejectClaim, VetoClaim
      <3>2. ClaimsWithout(claims, claims', id)
        BY <1>1, <3>1, ClaimEnded
      <3>3. QED
        BY <1>1, <3>2, EndedReserves
    <2>3. QED
      BY <2>1, <2>2
  <1>4. /\ ReservedLoss(claims, t) \in Nat /\ totalCollateral \in Nat /\ ReservedLoss(claims', t) \in Nat
        /\ AmountOf(withdraws, DueBy(withdraws, t)) \in Nat
    BY <1>1, CoversAmounts, ReservedNat
  <1>5. QED
    BY <1>1, <1>2, <1>3, <1>4 DEF CoversAt

\* A claim that is paid takes its loss out of the collateral and out of what is reserved.
\* When nothing was reserved for it, no later claim is locked either, and the collateral
\* covers what is queued.
LEMMA PassCovers ==
  ASSUME ProviderInv, Tracked, BookInv, ClaimInv, PurchaseInv, ReimbursementInv, LockInv,
         ProviderInv', BookInv', ClaimInv', NEW id \in DOMAIN claims, PassClaim(id), NEW t, Locked(t)
  PROVE  CoversAt(t)'
  <1>1. GoodClaims(claims) /\ GoodClaims(claims') /\ InOrder(claims) /\ t \in Nat /\ CoversAt(t)
    BY DEF ClaimInv, LockInv, Locked
  <1>2. PICK loss \in Nat : loss = claims[id].loss /\ PaidOut(loss)
    <2>1. moduleBalance \in Int
      BY DEF ReimbursementInv
    <2>2. QED
      BY <2>1, PassPays DEF PurchaseInv
  <1>3. ClaimsWithout(claims, claims', id)
    <2>1. claims' = StoreDelete(claims, {id})
      BY DEF PassClaim
    <2>2. QED
      BY <1>1, <2>1, ClaimEnded
  <1>4. t < now + WithdrawPeriod
    BY ClaimsAssumption, ParamsAssumption DEF Locked, BookInv
  <1>5. PICK w \in Nat, v \in Nat, c \in Nat :
          /\ w = AmountOf(withdraws, DueBy(withdraws, t)) /\ v = AmountOf(withdraws', DueBy(withdraws', t))
          /\ c = totalCollateral /\ totalCollateral' = c - loss
          /\ v <= w /\ v <= totalCollateral' /\ totalCollateral' \in Nat
    <2>1. QueueCovered'
      BY QueueIsCovered, PTL
    <2>2. /\ AmountOf(withdraws', DueBy(withdraws', t)) \in Nat /\ totalCollateral' \in Nat
          /\ AmountOf(withdraws', DueBy(withdraws', t)) <= totalCollateral'
      BY <1>1, <2>1 DEF QueueCovered
    <2>3. /\ totalCollateral' = totalCollateral - loss
          /\ AmountOf(withdraws', DueBy(withdraws', t)) <= AmountOf(withdraws, DueBy(withdraws, t))
      BY <1>1, <1>2, <1>4 DEF PaidOut
    <2>4. QED
      BY <1>1, <2>2, <2>3, CoversAmounts
  <1>6. PICK r \in Nat, q \in Nat :
          /\ r = ReservedLoss(claims, t) /\ q = ReservedLoss(claims', t)
          /\ \/ q + loss <= r
             \/ q = 0
    BY <1>1, <1>2, <1>3, EndedReserves
  <1>7. r + w <= c
    BY <1>1, <1>5, <1>6 DEF CoversAt
  <1>8. q + v <= totalCollateral'
    <2>1. CASE q + loss <= r
      BY <1>5, <1>7, <2>1
    <2>2. CASE q = 0
      BY <1>5, <2>2
    <2>3. QED
      BY <1>6, <2>1, <2>2
  <1>9. QED
    BY <1>5, <1>6, <1>8 DEF CoversAt

\* The EndBlocker takes out the withdraws that complete now with their collateral.
LEMMA EndBlockerCovers ==
  ASSUME ProviderInv, BookInv, ClaimInv, LockInv, EndStep, NEW t, Locked(t)
  PROVE  CoversAt(t)'
  <1>1. /\ now \in Nat /\ claims' = claims
        /\ withdraws' = StoreDelete(withdraws, Completed)
        /\ totalCollateral' = totalCollateral - AmountOf(withdraws, Completed)
    BY DEF EndStep, EndBlocker, WithdrawnAmount, BookInv, claimVars
  <1>2. Completed \in SUBSET DOMAIN withdraws /\ GoodQueue(withdraws)
    BY DEF Completed, ProviderInv
  <1>3. IsQueueWithout(withdraws, withdraws', Completed)
    BY <1>1, <1>2, QueueDelete
  <1>4. t \in Nat /\ now <= t /\ CoversAt(t)
    BY DEF Locked, LockInv
  <1>5. /\ DOMAIN withdraws' = DOMAIN withdraws \ Completed
        /\ \A n \in DOMAIN withdraws' : withdraws'[n] = withdraws[n]
        /\ \A S \in SUBSET DOMAIN withdraws :
             AmountOf(withdraws, S)
               = AmountOf(withdraws', S \ Completed) + AmountOf(withdraws, S \cap Completed)
    BY <1>3 DEF IsQueueWithout
  <1>6. DueBy(withdraws, t) \in SUBSET DOMAIN withdraws /\ DueBy(withdraws, t) \ Completed = DueBy(withdraws', t)
    BY <1>5 DEF DueBy
  <1>7. DueBy(withdraws, t) \cap Completed = Completed
    <2>1. \A n \in DOMAIN withdraws : withdraws[n].completionTime \in Nat
      BY <1>2 DEF GoodQueue, IsStore, Withdraw
    <2>2. ASSUME NEW n \in Completed PROVE n \in DueBy(withdraws, t)
      <3>1. n \in DOMAIN withdraws /\ withdraws[n].completionTime <= now
        BY DEF Completed
      <3>2. withdraws[n].completionTime <= t
        BY <1>1, <1>4, <2>1, <3>1
      <3>3. QED
        BY <3>1, <3>2 DEF DueBy
    <2>3. QED
      BY <2>2
  <1>8. AmountOf(withdraws, DueBy(withdraws, t))
          = AmountOf(withdraws', DueBy(withdraws', t)) + AmountOf(withdraws, Completed)
    BY <1>5, <1>6, <1>7
  <1>9. GoodQueue(withdraws') /\ DueBy(withdraws', t) \in SUBSET DOMAIN withdraws'
    BY <1>3 DEF IsQueueWithout, DueBy
  <1>10. PICK r \in Nat, c \in Nat, w \in Nat, d \in Nat :
           /\ r = ReservedLoss(claims, t) /\ c = totalCollateral
           /\ w = AmountOf(withdraws', DueBy(withdraws', t)) /\ d = AmountOf(withdraws, Completed)
    BY <1>2, <1>4, <1>9, AmountNat, CoversAmounts
  <1>11. r + (w + d) <= c /\ totalCollateral' = c - d
    BY <1>1, <1>4, <1>8, <1>10 DEF CoversAt
  <1>12. r + w <= c - d
    BY <1>11
  <1>13. QED
    BY <1>1, <1>10, <1>11, <1>12 DEF CoversAt

\* Collateral grows only by deposits, up to MaxCollateral.
LEMMA CollateralStep ==
  ASSUME ProviderInv, Tracked, BookInv, ClaimInv, PurchaseInv, ReimbursementInv,
         totalCollateral <= MaxCollateral, [ClaimsNext]_allVars
  PROVE  totalCollateral' <= MaxCollateral
  <1>1. totalCollateral \in Nat /\ MaxCollateral \in Nat
    BY TotalsNat, InputsAssumption, ParamsAssumption DEF ProviderInv
  <1>2. ASSUME NEW d \in Nat, totalCollateral' = totalCollateral - d
        PROVE  totalCollateral' <= MaxCollateral
    BY <1>1, <1>2
  <1>3. CASE ClaimProviderStep
    <2>1. PICK a \in Accounts, amount \in Nat :
            \/ DepositCollateral(a, amount)
            \/ WithdrawCollateral(a, amount)
            \/ Delegate(a, amount)
            \/ Undelegate(a, amount, amount = delegated[a])
      BY <1>3 DEF ClaimProviderStep
    <2>2. DepositCollateral(a, amount) => totalCollateral' <= MaxCollateral
      BY DEF DepositCollateral
    <2>3. WithdrawCollateral(a, amount) => totalCollateral' = totalCollateral
      BY DEF WithdrawCollateral
    <2>4. Delegate(a, amount) => totalCollateral' = totalCollateral
      BY DEF Delegate
    <2>5. Undelegate(a, amount, amount = delegated[a]) => totalCollateral' = totalCollateral
      BY DEF Undelegate
    <2>6. QED
      BY <2>1, <2>2, <2>3, <2>4, <2>5
  <1>4. CASE SubmitStep
    BY <1>4 DEF SubmitStep, SubmitClaim
  <1>5. ASSUME NEW a, NEW id, WithdrawReimbursement(a, id) PROVE totalCollateral' = totalCollateral
    BY <1>5 DEF WithdrawReimbursement, providerVars
  <1>6. ASSUME NEW id, CertifiersPass(id) \/ RejectClaim(id) \/ VetoClaim(id)
        PROVE  totalCollateral' = totalCollateral
    <2>1. CertifiersPass(id) => totalCollateral' = totalCollateral
      BY DEF CertifiersPass, vars, providerVars
    <2>2. RejectClaim(id) \/ VetoClaim(id) => totalCollateral' = totalCollateral
      BY DEF RejectClaim, VetoClaim, providerVars
    <2>3. QED
      BY <1>6, <2>1, <2>2
  <1>7. ASSUME NEW id \in DOMAIN claims, PassClaim(id) PROVE totalCollateral' <= MaxCollateral
    <2>1. moduleBalance \in Int
      BY DEF ReimbursementInv
    <2>2. claims[id].loss \in Nat /\ totalCollateral' = totalCollateral - claims[id].loss
      BY <1>7, <2>1, PassPays DEF PurchaseInv, PaidOut
    <2>3. QED
      BY <1>2, <2>2
  <1>8. CASE EndStep
    <2>1. totalCollateral' = totalCollateral - AmountOf(withdraws, Completed)
      BY <1>8 DEF EndStep, EndBlocker, WithdrawnAmount
    <2>2. Completed \in SUBSET DOMAIN withdraws /\ GoodQueue(withdraws)
      BY DEF Completed, ProviderInv
    <2>3. AmountOf(withdraws, Completed) \in Nat
      BY <2>2, AmountNat
    <2>4. QED
      BY <1>2, <2>1, <2>3
  <1>9. CASE NextStep \/ QuietStep
    <2>1. NextStep => totalCollateral' = totalCollateral
      BY DEF NextStep, NextBlock, providerVars
    <2>2. QuietStep => totalCollateral' = totalCollateral
      BY DEF QuietStep, providerVars
    <2>3. QED
      BY <1>9, <2>1, <2>2
  <1>10. QED
    BY <1>3, <1>4, <1>5, <1>6, <1>7, <1>8, <1>9, ClaimStepKinds

\* Every step keeps LockInv.
LEMMA LockInvStep ==
  ASSUME MaxCollateral < Precision, ClaimsInv, LockInv, ClaimsInv', [ClaimsNext]_allVars
  PROVE  LockInv'
  <1>1. /\ ProviderInv /\ Tracked /\ BookInv /\ ClaimInv /\ PurchaseInv /\ ReimbursementInv
        /\ ProviderInv' /\ BookInv' /\ ClaimInv'
    BY DEF ClaimsInv
  <1>2. InOrder(claims) /\ LocksEnd /\ totalCollateral <= MaxCollateral
    BY DEF LockInv
  <1>3. InOrder(claims') /\ LocksEnd' /\ totalCollateral' <= MaxCollateral
    <2>1. InOrder(claims') /\ LocksEnd'
      BY <1>1, <1>2, LocksStep
    <2>2. totalCollateral' <= MaxCollateral
      BY <1>1, <1>2, CollateralStep
    <2>3. QED
      BY <2>1, <2>2
  <1>4. now \in Nat /\ now' \in Nat /\ now <= now'
    BY <1>1, TimeGoesOn DEF BookInv
  <1>5. CoveredAfterLocks'
    <2>1. QueueCovered'
      BY <1>1, QueueIsCovered, PTL
    <2>2. QED
      BY <1>1, <1>3, <2>1, NothingReservedLate, PTL
  <1>6. ASSUME NEW t \in Nat, now' <= t PROVE CoversAt(t)'
    <2>1. now <= t /\ CoversAt(t)
      BY <1>4, <1>6 DEF LockInv
    <2>2. ASSUME UNCHANGED <<claims, withdraws, totalCollateral>> PROVE CoversAt(t)'
      BY <2>1, <2>2 DEF CoversAt
    <2>3. CASE NextStep
      BY <2>2, <2>3 DEF NextStep, NextBlock, claimVars, providerVars
    <2>4. CASE now' = now
      <3>1. CASE now' + 2 * VotingPeriod <= t
        BY <1>5, <3>1 DEF CoveredAfterLocks
      <3>2. CASE ~ (now' + 2 * VotingPeriod <= t)
        <4>1. Locked(t)
          BY <1>4, <2>1, <2>4, <3>2, ClaimsAssumption DEF Locked
        <4>2. CASE ClaimProviderStep
          BY <1>1, <4>1, <4>2, ProviderStepCovers
        <4>3. CASE SubmitStep
          BY <1>1, <4>1, <4>3, SubmitCovers
        <4>4. ASSUME NEW a, NEW id, WithdrawReimbursement(a, id) PROVE CoversAt(t)'
          BY <2>2, <4>4 DEF WithdrawReimbursement, providerVars
        <4>5. ASSUME NEW id \in DOMAIN claims, CertifiersPass(id) \/ RejectClaim(id) \/ VetoClaim(id)
              PROVE  CoversAt(t)'
          BY <1>1, <4>1, <4>5, VoteCovers
        <4>6. ASSUME NEW id \in DOMAIN claims, PassClaim(id) PROVE CoversAt(t)'
          BY <1>1, <4>1, <4>6, PassCovers
        <4>7. CASE EndStep
          BY <1>1, <4>1, <4>7, EndBlockerCovers
        <4>8. CASE QuietStep
          BY <2>2, <4>8 DEF QuietStep, claimVars, providerVars
        <4>9. QED
          BY <1>1, <2>3, <4>2, <4>3, <4>4, <4>5, <4>6, <4>7, <4>8, ClaimStepKinds
      <3>3. QED
        BY <3>1, <3>2
    <2>5. CASE now' # now
      <3>1. NextStep
        <4>1. ClaimProviderStep => now' = now
          BY ClaimProviderStepIs, ProviderStepFrame
        <4>2. SubmitStep => now' = now
          BY DEF SubmitStep, SubmitClaim
        <4>3. ASSUME NEW a, NEW id, WithdrawReimbursement(a, id) PROVE now' = now
          BY <4>3 DEF WithdrawReimbursement
        <4>4. ASSUME NEW id PROVE CertifiersPass(id) => now' = now
          BY DEF CertifiersPass, vars
        <4>5. ASSUME NEW id PROVE RejectClaim(id) \/ VetoClaim(id) => now' = now
          BY DEF RejectClaim, VetoClaim
        <4>6. ASSUME NEW id PROVE PassClaim(id) => now' = now
          BY DEF PassClaim
        <4>7. EndStep => now' = now
          BY DEF EndStep, EndBlocker
        <4>8. QuietStep => now' = now
          BY DEF QuietStep
        <4>9. QED
          BY <1>1, <2>5, <4>1, <4>2, <4>3, <4>4, <4>5, <4>6, <4>7, <4>8, ClaimStepKinds
      <3>2. QED
        BY <2>3, <3>1
    <2>6. QED
      BY <2>4, <2>5
  <1>7. QED
    BY <1>3, <1>6 DEF LockInv

\* At genesis nothing is claimed.
LEMMA GenesisLocks ==
  ASSUME SumOver(GenesisCollateral, DOMAIN GenesisCollateral) <= MaxCollateral, ClaimsInit, ClaimsInv
  PROVE  LockInv
  <1>1. claims = <<>> /\ DOMAIN <<>> = {} /\ totalCollateral <= MaxCollateral
    <2>1. claims = <<>> /\ totalCollateral = SumOver(GenesisCollateral, DOMAIN GenesisCollateral)
      BY Zenon DEF ClaimsInit
    <2>2. QED
      BY <2>1
  <1>2. InOrder(claims) /\ LocksEnd
    BY <1>1 DEF InOrder, LocksEnd
  <1>3. QueueCovered
    BY QueueIsCovered DEF ClaimsInv
  <1>4. ASSUME NEW t \in Nat PROVE CoversAt(t)
    <2>1. Reserved(claims, t) = {}
      BY <1>1 DEF Reserved
    <2>2. ReservedLoss(claims, t) = 0
      BY <2>1, SumEmpty DEF ReservedLoss, LossIn
    <2>3. QED
      BY <1>3, <2>2 DEF CoversAt, QueueCovered
  <1>5. QED
    BY <1>1, <1>2, <1>4 DEF LockInv

\* LockInv gives the cover of the claims whose locks last.
LEMMA LockInvCovers ==
  ASSUME ClaimsInv, LockInv
  PROVE  CoveredWhileLocked
  <1>1. ProviderInv /\ BookInv /\ ClaimInv
    BY DEF ClaimsInv
  <1>2. ASSUME NEW t \in LockTimes
        PROVE  LossOf({id \in DOMAIN claims : claims[id].lockEnd > t})
                 <= totalCollateral - AmountBy(withdraws, DOMAIN withdraws, t)
    <2>1. t \in Nat /\ now <= t
      BY <1>1, ClaimsAssumption DEF LockTimes, BookInv
    <2>2. CoversAt(t)
      BY <2>1 DEF LockInv
    <2>3. PICK S \in SUBSET DOMAIN claims : S = Reserved(claims, t)
      BY DEF Reserved
    <2>4. PICK R \in SUBSET S : R = {id \in DOMAIN claims : claims[id].lockEnd > t}
      <3>1. \A i \in DOMAIN claims : i \in Nat
        BY <1>1 DEF ClaimInv, GoodClaims, IsStore
      <3>2. \A i \in DOMAIN claims : i <= i
        BY <3>1
      <3>3. {id \in DOMAIN claims : claims[id].lockEnd > t} \subseteq S
        BY <2>3, <3>2 DEF Reserved
      <3>4. QED
        BY <3>3
    <2>5. LossIn(claims, R) \in Nat /\ LossIn(claims, S) \in Nat /\ LossIn(claims, R) <= LossIn(claims, S)
      BY <1>1, LossPart DEF ClaimInv
    <2>6. LossOf(R) = LossIn(claims, R)
      <3>1. R \in SUBSET DOMAIN claims
        OBVIOUS
      <3>2. QED
        BY <1>1, <3>1, LossOfSum
    <2>7. AmountBy(withdraws, DOMAIN withdraws, t) = AmountOf(withdraws, DueBy(withdraws, t))
      BY DEF AmountBy, DueBy
    <2>8. PICK l \in Nat, r \in Nat, w \in Nat, c \in Nat :
            /\ l = LossIn(claims, R) /\ r = LossIn(claims, S)
            /\ w = AmountOf(withdraws, DueBy(withdraws, t)) /\ c = totalCollateral
      BY <1>1, <2>1, <2>5, CoversAmounts
    <2>9. r + w <= c /\ l <= r
      BY <2>2, <2>3, <2>5, <2>8 DEF CoversAt, ReservedLoss
    <2>10. l <= c - w
      BY <2>9
    <2>11. QED
      BY <2>4, <2>6, <2>7, <2>8, <2>10
  <1>3. QED
    BY <1>2 DEF CoveredWhileLocked

\* As long as the lock of a claim lasts, collateral is left for it and for all claims with
\* longer locks, whatever providers withdraw and undelegate and whatever is paid for other
\* claims.  Collateral is bounded by the supply, which is below the precision of decimals:
\* only then do the rounded shares of SecureCollaterals add up to the whole claimed amount.
THEOREM ClaimsCoveredWhileLocked ==
  ASSUME MaxCollateral < Precision,
         SumOver(GenesisCollateral, DOMAIN GenesisCollateral) <= MaxCollateral
  PROVE  ClaimsSpec => []CoveredWhileLocked
  <1>1. ClaimsInit /\ ClaimsInv => LockInv
    BY GenesisLocks
  <1>2. LockInv /\ ClaimsInv /\ ClaimsInv' /\ [ClaimsNext]_allVars => LockInv'
    BY LockInvStep
  <1>3. ClaimsInv /\ LockInv => CoveredWhileLocked
    BY LockInvCovers
  <1>4. QED
    BY <1>1, <1>2, <1>3, ClaimsBooks, PTL DEF ClaimsSpec

-----------------------------------------------------------------------------
(* The coins of the accounts.  The unbonding entries that are put off.     *)

\* The entries have changed, and have the same amount.
SameAmount(entries, new) == new \in Seq(Entry) /\ SumOfEntries(new) = SumOfEntries(entries)

\* The entry first goes behind those of passed, which follow it.
PassedBy(D, first, passed) ==
  /\ passed \in SUBSET D
  /\ \A i \in passed : i > first /\ \A j \in D : first < j /\ j <= i => j \in passed

\* p maps D one to one onto itself.
OneEach(p, D) ==
  /\ \A x \in D : p[x] \in D
  /\ \A x, y \in D : p[x] = p[y] => x = y
  /\ \A y \in D : \E x \in D : p[x] = y

\* Where the entry comes from that is at i afterwards.
CameFrom(D, first, passed) ==
  [i \in D |-> IF i + 1 \in passed THEN i + 1
               ELSE IF i = first \/ i \in passed THEN first
               ELSE i]

\* The entries change places.
LEMMA PassedPermutes ==
  ASSUME NEW n \in Nat, NEW D, D = 1..n, NEW first \in D, NEW passed, PassedBy(D, first, passed),
         NEW p, p = CameFrom(D, first, passed)
  PROVE  OneEach(p, D)
  <1>1. /\ \A i \in D : i \in Nat /\ i >= 1 /\ i <= n
        /\ \A i \in Nat : i >= 1 /\ i <= n => i \in D
        /\ first \in Nat
    OBVIOUS
  <1>2. \A i \in passed : i \in D /\ i > first
    BY DEF PassedBy
  <1>3. \A i \in passed, j \in D : first < j /\ j <= i => j \in passed
    BY DEF PassedBy
  <1>4. ASSUME NEW x \in D
        PROVE  /\ x + 1 \in passed => p[x] = x + 1
               /\ x + 1 \notin passed /\ (x = first \/ x \in passed) => p[x] = first
               /\ x + 1 \notin passed /\ x # first /\ x \notin passed => p[x] = x
    BY DEF CameFrom
  <1>5. ASSUME NEW x \in D, x + 1 \in passed PROVE x = first \/ x \in passed
    <2>1. x \in Nat /\ x + 1 > first /\ first \in Nat
      BY <1>1, <1>2, <1>5
    <2>2. CASE x = first
      BY <2>2
    <2>3. CASE x # first
      <3>1. first < x /\ x <= x + 1
        BY <2>1, <2>3
      <3>2. QED
        BY <1>3, <1>5, <3>1
    <2>4. QED
      BY <2>2, <2>3
  <1>6. \A x \in D : p[x] \in D
    BY <1>2, <1>4
  <1>7. ASSUME NEW x \in D, NEW y \in D, x < y, x = first \/ x \in passed, y = first \/ y \in passed
        PROVE  x + 1 \in passed
    <2>1. x \in Nat /\ y \in Nat /\ first \in Nat /\ x >= first
      BY <1>1, <1>2, <1>7
    <2>2. y > first
      BY <1>7, <2>1
    <2>3. y \in passed
      BY <1>7, <2>1, <2>2
    <2>4. x + 1 \in D /\ first < x + 1 /\ x + 1 <= y
      BY <1>1, <1>7, <2>1
    <2>5. QED
      BY <1>3, <2>3, <2>4
  <1>8. ASSUME NEW x \in D, NEW y \in D, p[x] = p[y] PROVE x = y
    <2>0. x \in Nat /\ y \in Nat /\ first \in Nat
      BY <1>1
    <2>1. CASE x + 1 \in passed /\ y + 1 \in passed
      BY <1>4, <1>8, <2>0, <2>1
    <2>2. CASE x + 1 \in passed /\ y + 1 \notin passed
      <3>1. p[x] = x + 1 /\ p[x] \in passed /\ p[x] # first
        BY <1>2, <1>4, <2>2
      <3>2. p[y] = first \/ (p[y] = y /\ y \notin passed)
        BY <1>4, <2>2
      <3>3. QED
        BY <1>8, <3>1, <3>2
    <2>3. CASE x + 1 \notin passed /\ y + 1 \in passed
      <3>1. p[y] = y + 1 /\ p[y] \in passed /\ p[y] # first
        BY <1>2, <1>4, <2>3
      <3>2. p[x] = first \/ (p[x] = x /\ x \notin passed)
        BY <1>4, <2>3
      <3>3. QED
        BY <1>8, <3>1, <3>2
    <2>4. CASE x + 1 \notin passed /\ y + 1 \notin passed
      <3>1. CASE (x = first \/ x \in passed) /\ (y = first \/ y \in passed)
        <4>1. ~ (x < y) /\ ~ (y < x)
          BY <1>7, <2>4, <3>1
        <4>2. QED
          BY <2>0, <4>1
      <3>2. CASE ~ (x = first \/ x \in passed)
        BY <1>4, <1>8, <2>4, <3>2
      <3>3. CASE ~ (y = first \/ y \in passed)
        BY <1>4, <1>8, <2>4, <3>3
      <3>4. QED
        BY <3>1, <3>2, <3>3
    <2>5. QED
      BY <2>1, <2>2, <2>3, <2>4
  <1>9. ASSUME NEW y \in D PROVE \E x \in D : p[x] = y
    <2>1. CASE y \in passed
      <3>1. y - 1 \in D /\ (y - 1) + 1 = y
        BY <1>1, <1>2, <2>1
      <3>2. p[y - 1] = y
        BY <1>4, <2>1, <3>1
      <3>3. QED
        BY <3>1, <3>2
    <2>2. CASE y = first
      <3>1. PICK G : G = passed \cup {first}
        OBVIOUS
      <3>2. G \subseteq D /\ G # {} /\ IsFiniteSet(G) /\ G \subseteq Nat
        <4>1. G \subseteq D /\ G # {}
          BY <1>2, <3>1
        <4>2. IsFiniteSet(D)
          BY FS_Interval
        <4>3. QED
          BY <1>1, <4>1, <4>2, FS_Subset
      <3>3. PICK x \in G : \A z \in G : x >= z
        BY <3>2, GreatestNat
      <3>4. x + 1 \notin passed
        <4>1. x \in Nat /\ ~ (x >= x + 1)
          BY <3>2
        <4>2. QED
          BY <3>1, <3>3, <4>1
      <3>5. x \in D /\ p[x] = first
        BY <1>4, <3>1, <3>2, <3>4
      <3>6. QED
        BY <2>2, <3>5
    <2>3. CASE y \notin passed /\ y # first
      <3>1. y + 1 \notin passed
        BY <1>5, <2>3
      <3>2. p[y] = y
        BY <1>4, <2>3, <3>1
      <3>3. QED
        BY <3>2
    <2>4. QED
      BY <2>1, <2>2, <2>3
  <1>10. QED
    BY <1>6, <1>8, <1>9 DEF OneEach

\* The sum of the entries is the sum of their amounts.
LEMMA EntriesSum ==
  ASSUME NEW entries \in Seq(Entry)
  PROVE  /\ SumOfEntries(entries) = SumFunctionOnSet(Amounts(entries), DOMAIN entries)
         /\ SumOfEntries(entries) \in Nat
  <1>1. DOMAIN entries \in SUBSET DOMAIN entries
    OBVIOUS
  <1>2. QED
    BY <1>1, EntriesAmount DEF SumOfEntries

\* The entry at i of new has the amount of the entry at p[i].
Rearranged(entries, D, p, new) ==
  /\ OneEach(p, D) /\ new = [i \in D |-> new[i]]
  /\ \A i \in D : new[i] \in Entry /\ new[i].amount = entries[p[i]].amount

\* Entries that change places keep their amount.
LEMMA PermutedSame ==
  ASSUME NEW entries \in Seq(Entry), NEW D, D = DOMAIN entries, NEW p, NEW new,
         Rearranged(entries, D, p, new)
  PROVE  SameAmount(entries, new)
  <1> USE DEF Rearranged
  <1>1. PICK n \in Nat : n = Len(entries) /\ D = 1..n
    BY EntryAmounts
  <1>2. new \in Seq(Entry)
    <2>1. new \in [1..n -> Entry]
      BY <1>1
    <2>2. QED
      BY <2>1
  <1>3. PICK f, g : f = Amounts(entries) /\ g = Amounts(new)
    OBVIOUS
  <1>4. IsFiniteSet(D) /\ \A i \in D : f[i] = entries[i].amount /\ f[i] \in Nat
    BY <1>3, EntryAmounts
  <1>5. \A i \in D : g[i] = new[i].amount
    BY <1>2, <1>3, EntryAmounts
  <1>6. Permutes(p, D, f, g)
    <2>1. ASSUME NEW i \in D PROVE p[i] \in D /\ g[i] = f[p[i]]
      <3>1. PICK j \in D : j = p[i]
        BY DEF OneEach
      <3>2. g[i] = entries[j].amount /\ f[j] = entries[j].amount
        BY <1>4, <1>5, <3>1
      <3>3. QED
        BY <3>1, <3>2
    <2>2. QED
      BY <2>1 DEF Permutes, OneEach
  <1>7. SumFunctionOnSet(g, D) = SumFunctionOnSet(f, D)
    BY <1>4, <1>6, SumPermuted
  <1>8. SumOfEntries(entries) = SumFunctionOnSet(f, D) /\ SumOfEntries(new) = SumFunctionOnSet(g, D)
    BY <1>2, <1>3, EntriesSum
  <1>9. QED
    BY <1>2, <1>7, <1>8 DEF SameAmount

\* The state of DelayUnbonding.
IsDelaying(s) == s = [entries |-> s.entries, remaining |-> s.remaining, panic |-> s.panic]

\* An entry that is put off keeps its amount, as do those it changes places with.
LEMMA DelayEntrySame ==
  ASSUME NEW s, IsDelaying(s), s.entries \in Seq(Entry), NEW time, NEW endTime \in Nat,
         NEW new, new = DelayEntry(s, time, endTime)
  PROVE  IsDelaying(new) /\ SameAmount(s.entries, new.entries)
  <1> DEFINE entries == s.entries
             matching == {i \in DOMAIN entries : entries[i].completionTime = time}
             first == Min(matching)
             passed == {i \in DOMAIN entries :
                          /\ i > first
                          /\ \A j \in (first + 1)..i : entries[j].completionTime < endTime}
             e == [entries[first] EXCEPT !.completionTime = endTime]
             moved == [i \in DOMAIN entries |-> IF i + 1 \in passed THEN entries[i + 1]
                                                ELSE IF i = first \/ i \in passed THEN e
                                                ELSE entries[i]]
             left == s.remaining - entries[first].amount
  <1>1. CASE s.remaining <= 0
    <2>1. new = s
      BY <1>1 DEF DelayEntry
    <2>2. QED
      BY <2>1 DEF SameAmount
  <1>2. CASE ~ (s.remaining <= 0) /\ matching = {}
    <2>1. new = [s EXCEPT !.panic = TRUE]
      BY <1>2 DEF DelayEntry
    <2>2. IsDelaying(new) /\ new.entries = s.entries
      BY <2>1 DEF IsDelaying
    <2>3. QED
      BY <2>2 DEF SameAmount
  <1>3. CASE ~ (s.remaining <= 0) /\ matching # {}
    <2>1. new = [s EXCEPT !.entries = moved, !.remaining = left]
      BY <1>3 DEF DelayEntry
    <2> HIDE DEF e, moved, left
    <2>2. PICK n \in Nat : n = Len(entries) /\ DOMAIN entries = 1..n
      BY EntryAmounts
    <2>3. first \in DOMAIN entries
      <3>1. matching \subseteq Nat
        BY <2>2
      <3>2. PICK M : M = matching
        OBVIOUS
      <3>3. \E x \in M : \A y \in M : x <= y
        BY <1>3, <3>1, <3>2, LeastNat
      <3>4. Min(M) \in M
        BY <3>3 DEF Min
      <3>5. QED
        BY <3>2, <3>4
    <2> HIDE DEF first
    <2>4. PICK D : D = DOMAIN entries
      OBVIOUS
    <2>5. passed = {i \in D : /\ i > first
                              /\ \A j \in (first + 1)..i : entries[j].completionTime < endTime}
      BY <2>4
    <2> HIDE DEF passed, matching
    <2>6. PassedBy(D, first, passed)
      <3>1. ASSUME NEW i \in passed, NEW j \in D, first < j, j <= i PROVE j \in passed
        <4>1. i \in Nat /\ j \in Nat /\ first \in Nat
          BY <2>2, <2>3, <2>4, <2>5
        <4>2. \A k \in (first + 1)..j : k \in (first + 1)..i
          BY <3>1, <4>1
        <4>3. \A k \in (first + 1)..j : entries[k].completionTime < endTime
          BY <2>5, <4>2
        <4>4. QED
          BY <2>5, <3>1, <4>3
      <3>2. passed \in SUBSET D /\ \A i \in passed : i > first
        BY <2>5
      <3>3. QED
        BY <3>1, <3>2 DEF PassedBy
    <2>7. PICK p : p = CameFrom(D, first, passed)
      OBVIOUS
    <2>8. OneEach(p, D)
      <3>1. D = 1..n /\ first \in D
        BY <2>2, <2>3, <2>4
      <3>2. QED
        BY <2>6, <2>7, <3>1, PassedPermutes
    <2>9. e \in Entry /\ e.amount = entries[first].amount
      <3>1. entries[first] \in Entry
        BY <2>3, EntryAmounts
      <3>2. QED
        BY <3>1 DEF Entry, e
    <2>10. IsDelaying(new) /\ new.entries = moved
      BY <2>1 DEF IsDelaying
    <2>11. \A i \in D : moved[i] = IF i + 1 \in passed THEN entries[i + 1]
                                 ELSE IF i = first \/ i \in passed THEN e
                                 ELSE entries[i]
      BY <2>4 DEF moved
    <2>12. ASSUME NEW i \in D
           PROVE  moved[i] \in Entry /\ moved[i].amount = entries[p[i]].amount
      <3>1. \A j \in D : entries[j] \in Entry
        BY <2>4, EntryAmounts
      <3>2. CASE i + 1 \in passed
        <4>1. p[i] = i + 1 /\ moved[i] = entries[i + 1] /\ i + 1 \in D
          BY <2>5, <2>7, <2>11, <3>2 DEF CameFrom
        <4>2. QED
          BY <3>1, <4>1
      <3>3. CASE i + 1 \notin passed /\ (i = first \/ i \in passed)
        <4>1. p[i] = first /\ moved[i] = e
          BY <2>7, <2>11, <3>3 DEF CameFrom
        <4>2. QED
          BY <2>9, <4>1
      <3>4. CASE i + 1 \notin passed /\ ~ (i = first \/ i \in passed)
        <4>1. p[i] = i /\ moved[i] = entries[i]
          BY <2>7, <2>11, <3>4 DEF CameFrom
        <4>2. QED
          BY <3>1, <4>1
      <3>5. QED
        BY <3>2, <3>3, <3>4
    <2>13. moved = [i \in D |-> moved[i]]
      BY <2>4 DEF moved
    <2>14. SameAmount(entries, moved)
      <3>1. Rearranged(entries, D, p, moved)
        BY <2>8, <2>12, <2>13 DEF Rearranged
      <3>2. QED
        BY <2>4, <3>1, PermutedSame
    <2>15. QED
      BY <2>10, <2>14
  <1>4. QED
    BY <1>1, <1>2, <1>3

PutOff(s, i, p) == DelayEntry(s, p[1][i].completionTime, p[2])

Least(S, p) == Min(S)

Postponing == INSTANCE Loops WITH Step <- PutOff, Last <- Least

\* The entries that are due by a time.
DueEntries(entries, endTime) == {i \in DOMAIN entries : entries[i].completionTime <= endTime}

\* The state DelayUnbonding starts from.
BeforeDelay(entries, amount) == [entries |-> entries, remaining |-> amount, panic |-> FALSE]

\* DelayUnbonding is the loop over the entries that are due.
LEMMA DelayUnbondingIsLoop ==
  ASSUME NEW entries, NEW amount, NEW endTime
  PROVE  DelayUnbonding(entries, amount, endTime)
           = Postponing!Loop(DueEntries(entries, endTime), BeforeDelay(entries, amount),
                             <<entries, endTime>>)
  BY DEF DelayUnbonding, MapThenFoldSet, Postponing!Loop, Postponing!IsRun, PutOff, Least,
         DueEntries, BeforeDelay

\* DelayUnbonding keeps the amount of the entries.
LEMMA DelayUnbondingSame ==
  ASSUME NEW entries \in Seq(Entry), NEW amount, NEW endTime \in Nat
  PROVE  SameAmount(entries, DelayUnbonding(entries, amount, endTime).entries)
  <1>1. PICK S, base, p : /\ S = DueEntries(entries, endTime) /\ base = BeforeDelay(entries, amount)
                          /\ p = <<entries, endTime>>
    OBVIOUS
  <1>2. IsFiniteSet(S) /\ S \subseteq Nat
    <2>1. S \subseteq DOMAIN entries
      BY <1>1 DEF DueEntries
    <2>2. QED
      BY <2>1, EntryAmounts, FS_Subset
  <1>3. \A s \in SUBSET S : s # {} => Least(s, p) \in s
    <2> SUFFICES ASSUME NEW s \in SUBSET S, s # {} PROVE Least(s, p) \in s
      OBVIOUS
    <2>1. \E x \in s : \A y \in s : x <= y
      BY <1>2, LeastNat
    <2>2. QED
      BY <2>1 DEF Least, Min
  <1>4. PICK g : Postponing!Runs(g, S, base, p)
    <2>1. \E size : Postponing!HasSizes(S, size)
      <3>1. \E size : Delaying!HasSizes(S, size)
        BY <1>2, FiniteHasSizes
      <3>2. QED
        BY <3>1 DEF Delaying!HasSizes, Postponing!HasSizes
    <2>2. QED
      BY <1>3, <2>1, Postponing!LoopRuns, Zenon
  <1>5. /\ g[S] = Postponing!Loop(S, base, p) /\ g[{}] = base
        /\ \A s \in SUBSET S : s # {} =>
             /\ Least(s, p) \in s
             /\ g[s] = PutOff(g[s \ {Least(s, p)}], Least(s, p), p)
    BY <1>4 DEF Postponing!Runs
  <1> DEFINE T == {s \in SUBSET S : IsDelaying(g[s]) /\ SameAmount(entries, g[s].entries)}
  <1>6. ASSUME NEW s \in SUBSET S, \A t \in SUBSET s : t # s => t \in T
        PROVE  s \in T
    <2>1. CASE s = {}
      <3>1. IsDelaying(base) /\ base.entries = entries
        BY <1>1 DEF BeforeDelay, IsDelaying
      <3>2. SameAmount(entries, base.entries)
        BY <3>1 DEF SameAmount
      <3>3. QED
        BY <1>5, <2>1, <3>1, <3>2
    <2>2. CASE s # {}
      <3>1. PICK x : x = Least(s, p)
        OBVIOUS
      <3>2. x \in s /\ g[s] = PutOff(g[s \ {x}], x, p)
        BY <1>5, <2>2, <3>1
      <3>3. PICK old : old = g[s \ {x}]
        OBVIOUS
      <3>4. IsDelaying(old) /\ SameAmount(entries, old.entries)
        BY <1>6, <3>2, <3>3
      <3>5. PICK time : time = entries[x].completionTime
        OBVIOUS
      <3>6. g[s] = DelayEntry(old, time, endTime)
        BY <1>1, <3>2, <3>3, <3>5 DEF PutOff
      <3>7. old.entries \in Seq(Entry)
        BY <3>4 DEF SameAmount
      <3>8. IsDelaying(g[s]) /\ SameAmount(old.entries, g[s].entries)
        BY <3>4, <3>6, <3>7, DelayEntrySame
      <3>9. SameAmount(entries, g[s].entries)
        BY <3>4, <3>8 DEF SameAmount
      <3>10. QED
        BY <3>8, <3>9
    <2>3. QED
      BY <2>1, <2>2
  <1>7. S \in T
    <2> HIDE DEF T
    <2>1. SUBSET S \subseteq T
      BY <1>2, <1>6, SubsetInduction
    <2>2. QED
      BY <2>1
  <1>8. DelayUnbonding(entries, amount, endTime) = g[S]
    BY <1>1, <1>5, DelayUnbondingIsLoop
  <1>9. QED
    BY <1>7, <1>8

\* The entries of every account have changed, and have the same amount.
AllSame(unbondings, new) ==
  /\ new \in [Accounts -> Seq(Entry)]
  /\ \A b \in Accounts : SumOfEntries(new[b]) = SumOfEntries(unbondings[b])

\* SecureFromProvider keeps the amounts.
LEMMA SecureSame ==
  ASSUME NEW s, IsSecuring(s), unbonding \in [Accounts -> Seq(Entry)], AllSame(unbonding, s.unbonding),
         now \in Nat, NEW a \in Accounts, NEW total,
         NEW new, new = SecureFromProvider(s, a, total)
  PROVE  IsSecuring(new) /\ AllSame(unbonding, new.unbonding)
  <1> DEFINE amount == SecureAmount(a, total, s.remaining)
             endTime == now + LockPeriod
             collateral == CollateralAt(s.withdraws, a, endTime)
             stake == DelegationAt(a, endTime)
             delayed == DelayUnbonding(unbonding[a], amount - stake, endTime)
             secured == [s EXCEPT !.remaining = @ - amount]
  <1>0. IsSecuring(new)
    BY SecureEffect
  <1>1. IsSecuring(secured) /\ secured.unbonding = s.unbonding
    BY DEF IsSecuring
  <1>2. CASE SecuredAlready(a, amount)
    <2>1. new = secured
      BY <1>2 DEF SecureFromProvider
    <2>2. QED
      BY <1>0, <1>1, <2>1
  <1>3. CASE ~ SecuredAlready(a, amount) /\ amount <= collateral
    <2>1. PICK bad : new = [secured EXCEPT !.panic = bad]
      BY <1>3 DEF SecureFromProvider
    <2> HIDE DEF secured
    <2>2. new.unbonding = secured.unbonding
      BY <1>1, <2>1 DEF IsSecuring
    <2>3. QED
      BY <1>0, <1>1, <2>2
  <1>4. CASE ~ SecuredAlready(a, amount) /\ ~ (amount <= collateral)
    <2>1. PICK queue, bad : new = [secured EXCEPT !.withdraws = queue,
                                                  !.unbonding[a] = delayed.entries,
                                                  !.panic = bad]
      BY <1>4 DEF SecureFromProvider
    <2>2. SameAmount(unbonding[a], delayed.entries)
      <3>1. unbonding[a] \in Seq(Entry) /\ endTime \in Nat
        BY LockEndNat
      <3>2. PICK more, end : more = amount - stake /\ end = endTime
        OBVIOUS
      <3>3. SameAmount(unbonding[a], DelayUnbonding(unbonding[a], more, end).entries)
        BY <3>1, <3>2, DelayUnbondingSame
      <3>4. QED
        BY <3>2, <3>3
    <2> HIDE DEF secured, delayed
    <2>3. new.unbonding = [s.unbonding EXCEPT ![a] = delayed.entries]
      BY <1>1, <2>1 DEF IsSecuring
    <2>4. AllSame(unbonding, new.unbonding)
      BY <2>2, <2>3 DEF AllSame, SameAmount
    <2>5. QED
      BY <1>0, <2>4
  <1>5. QED
    BY <1>2, <1>3, <1>4

\* SecureCollaterals keeps the amounts of the unbonding entries.
LEMMA SecuredSame ==
  ASSUME GoodProviders(providers), unbonding \in [Accounts -> Seq(Entry)], now \in Nat, NEW total
  PROVE  AllSame(unbonding, Secured(total).unbonding)
  <1>1. PICK S, base : /\ S = DOMAIN providers
                       /\ base = [remaining |-> total, withdraws |-> withdraws,
                                  unbonding |-> unbonding, panic |-> FALSE]
    OBVIOUS
  <1>2. IsFiniteSet(S) /\ S \subseteq Nat /\ S \subseteq Accounts
    BY <1>1, ProvidersFinite
  <1>3. \A s \in SUBSET S : s # {} => Greatest(s, total) \in s
    <2>1. \A s \in SUBSET S : IsFiniteSet(s) /\ s \subseteq Nat
      BY <1>2, FS_Subset
    <2>2. QED
      BY <2>1, GreatestIn
  <1>4. PICK g : Securing!Runs(g, S, base, total)
    <2>1. \E size : Securing!HasSizes(S, size)
      <3>1. \E size : Delaying!HasSizes(S, size)
        BY <1>2, FiniteHasSizes
      <3>2. QED
        BY <3>1 DEF Delaying!HasSizes, Securing!HasSizes
    <2>2. QED
      BY <1>3, <2>1, Securing!LoopRuns, Zenon
  <1>5. /\ g[S] = Securing!Loop(S, base, total) /\ g[{}] = base
        /\ \A s \in SUBSET S : s # {} =>
             /\ Greatest(s, total) \in s
             /\ g[s] = SecureFromProvider(g[s \ {Greatest(s, total)}], Greatest(s, total), total)
    BY <1>4 DEF Securing!Runs
  <1> DEFINE T == {s \in SUBSET S : IsSecuring(g[s]) /\ AllSame(unbonding, g[s].unbonding)}
  <1>6. ASSUME NEW s \in SUBSET S, \A t \in SUBSET s : t # s => t \in T
        PROVE  s \in T
    <2>1. CASE s = {}
      <3>1. IsSecuring(base) /\ base.unbonding = unbonding
        BY <1>1 DEF IsSecuring
      <3>2. AllSame(unbonding, unbonding)
        BY DEF AllSame
      <3>3. QED
        BY <1>5, <2>1, <3>1, <3>2
    <2>2. CASE s # {}
      <3>1. PICK a : a = Greatest(s, total)
        OBVIOUS
      <3>2. a \in s /\ g[s] = SecureFromProvider(g[s \ {a}], a, total)
        BY <1>5, <2>2, <3>1
      <3>3. IsSecuring(g[s \ {a}]) /\ AllSame(unbonding, g[s \ {a}].unbonding)
        BY <1>6, <3>2
      <3>4. a \in Accounts
        BY <1>2, <3>2
      <3>5. IsSecuring(g[s]) /\ AllSame(unbonding, g[s].unbonding)
        BY <3>2, <3>3, <3>4, SecureSame
      <3>6. QED
        BY <3>5
    <2>3. QED
      BY <2>1, <2>2
  <1>7. S \in T
    <2> HIDE DEF T
    <2>1. SUBSET S \subseteq T
      BY <1>2, <1>6, SubsetInduction
    <2>2. QED
      BY <2>1
  <1>8. Secured(total) = g[S]
    BY <1>1, <1>5, SecuredIsLoop
  <1>9. QED
    BY <1>7, <1>8

-----------------------------------------------------------------------------
(* The unbonding entries that are paid out.                                *)

\* A payout reaches the entry j before i.
ReachedBefore(entries, j, i) ==
  \/ entries[j].completionTime > entries[i].completionTime
  \/ entries[j].completionTime = entries[i].completionTime /\ j < i

\* The order in which a payout goes through the entries.
EntryWalk(D, entries) == {p \in D \X D : ReachedBefore(entries, p[1], p[2])}

\* It is the order ReachedBefore.
LEMMA EntryWalkIs ==
  ASSUME NEW D, NEW entries, NEW m \in D, NEW n \in D
  PROVE  <<m, n>> \in EntryWalk(D, entries) <=> ReachedBefore(entries, m, n)
  BY DEF EntryWalk

\* Of any entries one is the last.
LEMMA EntriesWalked ==
  ASSUME NEW entries \in Seq(Entry)
  PROVE  IsWalk(EntryWalk(DOMAIN entries, entries), DOMAIN entries)
  <1>1. PICK D, R : D = DOMAIN entries /\ R = EntryWalk(DOMAIN entries, entries)
    OBVIOUS
  <1>2. \A m, n \in D : <<m, n>> \in R <=> ReachedBefore(entries, m, n)
    BY <1>1, EntryWalkIs
  <1>3. IsFiniteSet(D) /\ \A i \in D : i \in Nat /\ entries[i].completionTime \in Nat
    BY <1>1, EntryAmounts DEF Entry
  <1>4. ASSUME NEW s \in SUBSET D, s # {}
        PROVE  \E x \in s : /\ <<x, x>> \notin R
                            /\ \A m \in s \ {x} : <<m, x>> \in R /\ <<x, m>> \notin R
    <2>1. PICK Times : Times = {entries[n].completionTime : n \in s}
      OBVIOUS
    <2>2. Times \subseteq Nat /\ Times # {}
      BY <1>3, <1>4, <2>1
    <2>3. PICK t \in Times : \A u \in Times : t <= u
      BY <2>2, LeastNat
    <2>4. PICK L : L = {n \in s : entries[n].completionTime = t}
      OBVIOUS
    <2>5. L # {} /\ L \subseteq Nat /\ IsFiniteSet(L)
      <3>1. L # {} /\ L \subseteq D
        BY <1>4, <2>1, <2>3, <2>4
      <3>2. QED
        BY <1>3, <3>1, FS_Subset
    <2>6. PICK x \in L : \A y \in L : x >= y
      BY <2>5, GreatestNat
    <2>7. x \in s /\ x \in D /\ x \in Nat /\ entries[x].completionTime = t /\ t \in Nat
      BY <1>3, <2>2, <2>3, <2>4, <2>6
    <2>8. <<x, x>> \notin R
      BY <1>2, <2>7 DEF ReachedBefore
    <2>9. ASSUME NEW m \in s \ {x} PROVE <<m, x>> \in R /\ <<x, m>> \notin R
      <3>1. m \in D /\ m \in Nat /\ m # x
        BY <1>3
      <3>2. PICK u \in Nat : u = entries[m].completionTime
        BY <1>3, <3>1
      <3>3. u >= t
        BY <2>1, <2>2, <2>3, <3>2
      <3>4. CASE u > t
        <4>1. ReachedBefore(entries, m, x) /\ ~ ReachedBefore(entries, x, m)
          BY <2>7, <3>2, <3>4 DEF ReachedBefore
        <4>2. QED
          BY <1>2, <2>7, <3>1, <4>1
      <3>5. CASE u = t
        <4>1. m \in L
          BY <2>4, <3>2, <3>5
        <4>2. m < x
          BY <2>6, <2>7, <3>1, <4>1
        <4>3. ReachedBefore(entries, m, x) /\ ~ ReachedBefore(entries, x, m)
          BY <2>7, <3>1, <3>2, <3>5, <4>2 DEF ReachedBefore
        <4>4. QED
          BY <1>2, <2>7, <3>1, <4>3
      <3>6. QED
        BY <2>7, <3>2, <3>3, <3>4, <3>5
    <2>10. QED
      BY <2>7, <2>8, <2>9
  <1>5. IsWalk(R, D)
    BY <1>4 DEF IsWalk
  <1>6. QED
    BY <1>1, <1>5

\* What a payout takes from the entries.
TakenFromEntries(entries, skip, amount) ==
  [i \in DOMAIN entries |-> TakenFromEntry(entries, i, skip, amount)]

\* No entry gives more than it has, and together they give the amount, if there is
\* enough behind the first skip units.
LEMMA EntriesTaken ==
  ASSUME NEW entries \in Seq(Entry), NEW skip \in Nat, NEW amount \in Nat,
         ~ (SumOfEntries(entries) < skip + amount),
         NEW taken, taken = TakenFromEntries(entries, skip, amount)
  PROVE  /\ \A i \in DOMAIN entries : taken[i] \in 0..entries[i].amount
         /\ SumFunctionOnSet(taken, DOMAIN entries) = amount
  <1>1. PICK D, R, w : D = DOMAIN entries /\ R = EntryWalk(DOMAIN entries, entries) /\ w = Amounts(entries)
    OBVIOUS
  <1>2. IsFiniteSet(D) /\ \A i \in D : w[i] = entries[i].amount /\ w[i] \in Nat
    BY <1>1, EntryAmounts
  <1>3. IsWalk(R, D)
    BY <1>1, EntriesWalked
  <1>4. PICK f : f = TakenIn(w, R, D, skip, amount)
    OBVIOUS
  <1>5. /\ \A n \in D : f[n] \in 0..w[n]
        /\ SumFunctionOnSet(f, D) = Clip(SumFunctionOnSet(w, D), skip, amount)
    BY <1>2, <1>3, <1>4, TakenTotal
  <1>6. ASSUME NEW i \in D PROVE taken[i] = f[i]
    <2>1. PICK B : B = {m \in D : <<m, i>> \in R}
      OBVIOUS
    <2>2. B = {j \in D : ReachedBefore(entries, j, i)}
      BY <1>1, <2>1, EntryWalkIs
    <2>3. B \in SUBSET DOMAIN entries
      BY <1>1, <2>1
    <2>4. AmountOf(entries, B) = SumFunctionOnSet(w, B)
      BY <1>1, <2>3, EntriesAmount
    <2>5. taken[i] = TakenFrom(AmountOf(entries, B), entries[i].amount, skip, amount)
      BY <1>1, <2>2 DEF TakenFromEntries, TakenFromEntry, ReachedBefore
    <2>6. f[i] = TakenFrom(SumFunctionOnSet(w, B), w[i], skip, amount)
      BY <1>4, <2>1 DEF TakenIn
    <2>7. QED
      BY <1>2, <2>4, <2>5, <2>6
  <1>7. SumFunctionOnSet(taken, D) = SumFunctionOnSet(f, D)
    BY <1>2, <1>6, SumEqual
  <1>8. PICK x \in Nat : x = SumFunctionOnSet(w, D) /\ x = SumOfEntries(entries)
    BY <1>1, EntriesSum
  <1>9. Clip(x, skip, amount) = amount
    BY <1>8 DEF Clip, MinInt, MaxInt
  <1>10. QED
    BY <1>1, <1>2, <1>5, <1>6, <1>7, <1>8, <1>9

\* The entries without what a payout takes from them.
EntriesLeft(entries, skip, amount) ==
  [i \in DOMAIN entries |-> Cut(entries[i], TakenFromEntry(entries, i, skip, amount))]

\* The payout takes its amount from the entries.
LEMMA EntriesLose ==
  ASSUME NEW entries \in Seq(Entry), NEW skip \in Nat, NEW amount \in Nat,
         ~ (SumOfEntries(entries) < skip + amount),
         NEW left, left = EntriesLeft(entries, skip, amount)
  PROVE  left \in Seq(Entry) /\ SumOfEntries(left) + amount = SumOfEntries(entries)
  <1>1. PICK D, taken : D = DOMAIN entries /\ taken = TakenFromEntries(entries, skip, amount)
    OBVIOUS
  <1>2. /\ \A i \in D : taken[i] \in 0..entries[i].amount
        /\ SumFunctionOnSet(taken, D) = amount
    BY <1>1, EntriesTaken
  <1>3. PICK n \in Nat : D = 1..n
    BY <1>1, EntryAmounts
  <1>4. IsFiniteSet(D) /\ \A i \in D : entries[i] \in Entry
    BY <1>1, EntryAmounts
  <1>5. ASSUME NEW i \in D
        PROVE  left[i] \in Entry /\ left[i].amount = entries[i].amount - taken[i]
    <2>1. left[i] = [entries[i] EXCEPT !.amount = entries[i].amount - taken[i]]
      BY <1>1 DEF EntriesLeft, Cut, TakenFromEntries
    <2>2. entries[i].amount - taken[i] \in Nat
      BY <1>2, <1>4 DEF Entry
    <2>3. QED
      BY <1>4, <2>1, <2>2 DEF Entry
  <1>6. DOMAIN left = D /\ left = [i \in D |-> left[i]]
    BY <1>1 DEF EntriesLeft
  <1>7. left \in Seq(Entry)
    <2>1. left \in [1..n -> Entry]
      BY <1>3, <1>5, <1>6
    <2>2. QED
      BY <2>1
  <1>8. PICK f, g : f = Amounts(entries) /\ g = Amounts(left)
    OBVIOUS
  <1>9. ASSUME NEW i \in D PROVE g[i] \in Nat /\ taken[i] \in Nat /\ f[i] = g[i] + taken[i]
    <2>1. f[i] = entries[i].amount /\ f[i] \in Nat
      BY <1>1, <1>8, EntryAmounts
    <2>2. g[i] = left[i].amount /\ g[i] \in Nat
      BY <1>6, <1>7, <1>8, EntryAmounts
    <2>3. QED
      BY <1>2, <1>5, <2>1, <2>2
  <1>10. SumFunctionOnSet(f, D) = SumFunctionOnSet(g, D) + SumFunctionOnSet(taken, D)
    BY <1>4, <1>9, SumPlus
  <1>11. SumOfEntries(entries) = SumFunctionOnSet(f, D)
    BY <1>1, <1>8, EntriesSum
  <1>12. SumOfEntries(left) = SumFunctionOnSet(g, D)
    BY <1>6, <1>7, <1>8, EntriesSum
  <1>13. QED
    BY <1>2, <1>7, <1>10, <1>11, <1>12

\* Entries that are used up have no amount.
LEMMA UsedUpRemoved ==
  ASSUME NEW left \in Seq(Entry), NEW I, I = {i \in DOMAIN left : left[i].amount > 0}
  PROVE  SameAmount(left, EntriesAt(left, I))
  <1>1. PICK D, R, f : D = DOMAIN left /\ R = D \ I /\ f = Amounts(left)
    OBVIOUS
  <1>2. I \in SUBSET DOMAIN left /\ R \in SUBSET DOMAIN left /\ R = DOMAIN left \ I
    BY <1>1
  <1>3. SumOfEntries(EntriesAt(left, I)) = AmountOf(left, I)
    BY <1>2, EntriesAtAmount
  <1>4. /\ SumOfEntries(left) = AmountOf(left, DOMAIN left \ I) + AmountOf(left, I)
        /\ AmountOf(left, I) \in Nat
    BY <1>2, EntriesSplit
  <1>5. IsFiniteSet(R) /\ AmountOf(left, R) = SumFunctionOnSet(f, R)
    BY <1>1, <1>2, EntriesAmount
  <1>6. \A i \in R : f[i] = 0
    <2>1. \A i \in R : f[i] = left[i].amount /\ f[i] \in Nat /\ ~ (left[i].amount > 0)
      BY <1>1, EntryAmounts
    <2>2. QED
      BY <2>1
  <1>7. SumFunctionOnSet(f, R) = 0
    BY <1>5, <1>6, SumZero
  <1>8. EntriesAt(left, I) \in Seq(Entry)
    BY EntriesAtType
  <1>9. SumOfEntries(EntriesAt(left, I)) = SumOfEntries(left)
    BY <1>2, <1>3, <1>4, <1>5, <1>7
  <1>10. QED
    BY <1>8, <1>9 DEF SameAmount

\* The coins that the accounts have delegated or are unbonding.
StakedCoins(d, u) == SumFunctionOnSet([b \in Accounts |-> d[b] + SumOfEntries(u[b])], Accounts)

Stakes(d, u) == d \in [Accounts -> Nat] /\ u \in [Accounts -> Seq(Entry)]

\* An account loses some of them, and the others keep theirs.
Loses(d, u, newd, newu, a, amount) ==
  /\ \A b \in Accounts \ {a} : newd[b] = d[b] /\ newu[b] = u[b]
  /\ (newd[a] + SumOfEntries(newu[a])) + amount = d[a] + SumOfEntries(u[a])

\* The coins of all accounts lose what one loses.
LEMMA StakedCoinsLose ==
  ASSUME NEW d, NEW u, Stakes(d, u), NEW newd, NEW newu, Stakes(newd, newu), NEW a \in Accounts,
         NEW amount \in Nat, Loses(d, u, newd, newu, a, amount)
  PROVE  StakedCoins(newd, newu) + amount = StakedCoins(d, u)
  <1>1. PICK f, g : /\ f = [b \in Accounts |-> d[b] + SumOfEntries(u[b])]
                    /\ g = [b \in Accounts |-> newd[b] + SumOfEntries(newu[b])]
    OBVIOUS
  <1>2. \A b \in Accounts : f[b] = d[b] + SumOfEntries(u[b]) /\ f[b] \in Nat
    <2>1. \A b \in Accounts : d[b] \in Nat /\ SumOfEntries(u[b]) \in Nat
      BY EntriesSum DEF Stakes
    <2>2. QED
      BY <1>1, <2>1
  <1>3. \A b \in Accounts : g[b] = newd[b] + SumOfEntries(newu[b]) /\ g[b] \in Nat
    <2>1. \A b \in Accounts : newd[b] \in Nat /\ SumOfEntries(newu[b]) \in Nat
      BY EntriesSum DEF Stakes
    <2>2. QED
      BY <1>1, <2>1
  <1>4. \A b \in Accounts \ {a} : g[b] = f[b]
    BY <1>2, <1>3 DEF Loses
  <1>5. g[a] + amount = f[a]
    BY <1>2, <1>3 DEF Loses
  <1>6. SumFunctionOnSet(g, Accounts) + f[a] = SumFunctionOnSet(f, Accounts) + g[a]
    <2>1. \A b \in Accounts : f[b] \in Nat /\ g[b] \in Nat
      BY <1>2, <1>3
    <2>2. IsFiniteSet(Accounts)
      BY AccountsAssumption
    <2>3. QED
      BY <1>4, <2>1, <2>2, SumUpdate
  <1>7. PICK x \in Nat, y \in Nat, z \in Nat :
          x = SumFunctionOnSet(f, Accounts) /\ y = SumFunctionOnSet(g, Accounts) /\ z = g[a]
    BY <1>2, <1>3, AccountsAssumption, SumNat
  <1>8. y + (z + amount) = x + z
    BY <1>5, <1>6, <1>7
  <1>9. y + amount = x
    BY <1>8
  <1>10. StakedCoins(newd, newu) = y /\ StakedCoins(d, u) = x
    BY <1>1, <1>7 DEF StakedCoins
  <1>11. QED
    BY <1>9, <1>10

\* The coins that are staked are finitely many.
LEMMA StakedCoinsNat ==
  ASSUME NEW d, NEW u, Stakes(d, u)
  PROVE  StakedCoins(d, u) \in Nat
  <1>1. PICK f : f = [b \in Accounts |-> d[b] + SumOfEntries(u[b])]
    OBVIOUS
  <1>2. \A b \in Accounts : d[b] \in Nat /\ SumOfEntries(u[b]) \in Nat
    BY EntriesSum DEF Stakes
  <1>3. \A b \in Accounts : f[b] \in Nat
    BY <1>1, <1>2
  <1>4. SumFunctionOnSet(f, Accounts) \in Nat
    BY <1>3, AccountsAssumption, SumNat
  <1>5. QED
    BY <1>1, <1>4 DEF StakedCoins

\* The entries of an account lose an amount.
EntriesPay(u, newu, a, amount) ==
  \E entries \in Seq(Entry) : /\ newu = [u EXCEPT ![a] = entries]
                              /\ SumOfEntries(entries) + amount = SumOfEntries(u[a])

\* The fields after PayFromUnbondings.
LEMMA PayFromUnbondingsFields ==
  ASSUME NEW s, IsPaying(s), NEW a \in Accounts, Stakes(s.delegated, s.unbonding),
         NEW skip \in Nat, NEW amount \in Nat,
         NEW new, new = PayFromUnbondings(s, a, skip, amount), ~ new.panic
  PROVE  /\ IsPaying(new) /\ new.delegated = s.delegated
         /\ EntriesPay(s.unbonding, new.unbonding, a, amount)
  <1>0. PICK old \in Seq(Entry) : old = s.unbonding[a]
    BY DEF Stakes
  <1>1. CASE amount = 0
    <2>1. new = s
      BY <1>1 DEF PayFromUnbondings
    <2>2. new.unbonding = [s.unbonding EXCEPT ![a] = old]
      BY <1>0, <2>1 DEF Stakes
    <2>3. SumOfEntries(old) + amount = SumOfEntries(s.unbonding[a])
      BY <1>0, <1>1, EntriesSum
    <2>4. QED
      BY <2>1, <2>2, <2>3 DEF EntriesPay
  <1>2. CASE amount # 0
    <2>1. PICK left, I, entries, bad :
            /\ left = EntriesLeft(old, skip, amount)
            /\ I = {i \in DOMAIN left : left[i].amount > 0}
            /\ entries = EntriesAt(left, I)
            /\ bad = (SumOfEntries(old) < skip + amount)
      OBVIOUS
    <2>2. new = [s EXCEPT !.unbonding[a] = entries, !.panic = @ \/ bad]
      BY <1>0, <1>2, <2>1 DEF PayFromUnbondings, EntriesLeft
    <2>3. /\ IsPaying(new) /\ new.delegated = s.delegated /\ new.panic = (s.panic \/ bad)
          /\ new.unbonding = [s.unbonding EXCEPT ![a] = entries]
      BY <2>2 DEF IsPaying
    <2>4. ~ (SumOfEntries(old) < skip + amount)
      BY <2>1, <2>3
    <2>5. left \in Seq(Entry) /\ SumOfEntries(left) + amount = SumOfEntries(old)
      BY <2>1, <2>4, EntriesLose
    <2>6. SameAmount(left, entries)
      BY <2>1, <2>5, UsedUpRemoved
    <2>7. QED
      BY <1>0, <2>3, <2>5, <2>6 DEF SameAmount, EntriesPay
  <1>3. QED
    BY <1>1, <1>2

\* The delegation of an account becomes staked, and the entries stay.
DelegationPays(s, new, a, staked) ==
  /\ IsPaying(new) /\ new.unbonding = s.unbonding
  /\ new.delegated = [s.delegated EXCEPT ![a] = staked]

\* PayFromDelegation takes the amount from the delegation.
LEMMA DelegationLoses ==
  ASSUME NEW s, IsPaying(s), NEW a, NEW amount, amount # 0,
         NEW staked, staked = s.delegated[a] - amount,
         NEW new, new = PayFromDelegation(s, a, amount)
  PROVE  DelegationPays(s, new, a, staked)
  <1>1. PICK mid : mid = [s EXCEPT !.delegated[a] = @ - amount]
    OBVIOUS
  <1>2. DelegationPays(s, mid, a, staked)
    BY <1>1 DEF IsPaying, DelegationPays
  <1>3. new = HookOnPayout(mid, a, staked)
    BY <1>1 DEF PayFromDelegation
  <1>4. IsPaying(new) /\ new.unbonding = mid.unbonding /\ new.delegated = mid.delegated
    BY <1>2, <1>3 DEF HookOnPayout, IsPaying, DelegationPays
  <1>5. QED
    BY <1>2, <1>4 DEF DelegationPays

\* The coins staked in the state of the loop.
HasStakes(s) == Stakes(s.delegated, s.unbonding)

CoinsOf(s) == StakedCoins(s.delegated, s.unbonding)

\* MakePayoutByProviderDelegations takes the payout from the stake of the provider.
LEMMA StakePaysOut ==
  ASSUME NEW s, PaidBooks(s), HasStakes(s), NEW a \in DOMAIN s.providers,
         NEW purchased \in Nat, NEW payout \in Nat,
         NEW new, new = PayFromStake(s, a, purchased, payout), ~ new.panic
  PROVE  HasStakes(new) /\ CoinsOf(new) + payout = CoinsOf(s)
  <1>1. /\ IsPaying(s) /\ s.delegated \in [Accounts -> Nat] /\ GoodProviders(s.providers)
        /\ \A b \in DOMAIN s.providers : s.delegated[b] = s.providers[b].bonded
        /\ s.unbonding \in [Accounts -> Seq(Entry)]
    BY DEF PaidBooks, HasStakes, Stakes
  <1>2. a \in Accounts /\ IsStore(s.providers, Accounts, Provider)
    BY <1>1 DEF GoodProviders, IsStore
  <1>3. PICK bonded \in Nat : bonded = s.providers[a].bonded /\ bonded = s.delegated[a]
    BY <1>1, <1>2
  <1>4. PICK part \in Nat : part = FromFree(bonded, purchased, payout) /\ part <= bonded /\ part <= payout
    BY FromFreeBounds
  <1>5. PICK skip \in Nat : skip = MaxInt(purchased - bonded, 0)
    <2>1. MaxInt(purchased - bonded, 0) \in Nat
      BY DEF MaxInt
    <2>2. QED
      BY <2>1
  <1>50. PICK more \in Nat : more = payout - part /\ part + more = payout
    BY <1>4
  <1>51. PICK staked \in Nat : staked = bonded - part /\ staked + part = bonded
    BY <1>4
  <1>6. PICK mid : mid = PayFromDelegation(s, a, part)
    OBVIOUS
  <1>7. /\ IsPaying(mid) /\ mid.unbonding = s.unbonding
        /\ mid.delegated = [s.delegated EXCEPT ![a] = staked]
    <2>1. CASE part = 0
      <3>1. mid = s
        BY <1>6, <2>1 DEF PayFromDelegation
      <3>2. staked = s.delegated[a]
        BY <1>3, <1>51, <2>1
      <3>3. QED
        BY <1>1, <3>1, <3>2
    <2>2. CASE part # 0
      <3>1. staked = s.delegated[a] - part /\ IsPaying(s)
        BY <1>1, <1>3, <1>51
      <3>2. DelegationPays(s, mid, a, staked)
        BY <1>6, <2>2, <3>1, DelegationLoses
      <3>3. QED
        BY <3>2 DEF DelegationPays
    <2>3. QED
      BY <2>1, <2>2
  <1>8. new = PayFromUnbondings(mid, a, skip, more)
    BY <1>3, <1>4, <1>5, <1>50, <1>6 DEF PayFromStake
  <1>9. Stakes(mid.delegated, mid.unbonding)
    BY <1>1, <1>2, <1>7 DEF Stakes
  <1>10. /\ IsPaying(new) /\ new.delegated = mid.delegated
         /\ EntriesPay(mid.unbonding, new.unbonding, a, more)
    BY <1>2, <1>7, <1>8, <1>9, PayFromUnbondingsFields
  <1>11. PICK entries \in Seq(Entry) : /\ new.unbonding = [mid.unbonding EXCEPT ![a] = entries]
                                       /\ SumOfEntries(entries) + more = SumOfEntries(mid.unbonding[a])
    BY <1>10 DEF EntriesPay
  <1>12. PICK newd, newu : newd = new.delegated /\ newu = new.unbonding
    OBVIOUS
  <1>13. PICK d, u : d = s.delegated /\ u = s.unbonding
    OBVIOUS
  <1>14. newd = [d EXCEPT ![a] = staked] /\ newu = [u EXCEPT ![a] = entries]
    BY <1>7, <1>10, <1>11, <1>12, <1>13
  <1>15. Stakes(d, u) /\ Stakes(newd, newu)
    BY <1>1, <1>2, <1>13, <1>14 DEF Stakes
  <1>16. Loses(d, u, newd, newu, a, payout)
    <2>1. \A b \in Accounts \ {a} : newd[b] = d[b] /\ newu[b] = u[b]
      BY <1>14, <1>15 DEF Stakes
    <2>2. newd[a] = staked /\ newu[a] = entries
      BY <1>2, <1>14, <1>15 DEF Stakes
    <2>3. PICK x \in Nat : x = SumOfEntries(entries)
      BY EntriesSum
    <2>4. SumOfEntries(u[a]) = x + more
      BY <1>7, <1>11, <1>13, <2>3
    <2>5. (staked + x) + payout = bonded + (x + more)
      BY <1>50, <1>51
    <2>6. (newd[a] + SumOfEntries(newu[a])) + payout = d[a] + SumOfEntries(u[a])
      BY <1>3, <1>13, <2>2, <2>3, <2>4, <2>5
    <2>7. QED
      BY <2>1, <2>6 DEF Loses
  <1>17. StakedCoins(newd, newu) + payout = StakedCoins(d, u)
    BY <1>2, <1>15, <1>16, StakedCoinsLose
  <1>18. QED
    BY <1>12, <1>13, <1>15, <1>17 DEF HasStakes, CoinsOf

\* The coins that are staked are those of base without what is no longer left of the loss.
CoinsFor(base, s, loss) ==
  HasStakes(s) /\ CoinsOf(s) + loss = CoinsOf(base) + s.payout

\* The body of the loop keeps that, unless it panics.
LEMMA CoinsForOne ==
  ASSUME NEW base, CoinsOf(base) \in Nat, now \in Nat, NEW a \in DOMAIN providers, NEW loss \in Nat,
         totalShield \in Nat, totalCollateral \in Nat, totalCollateral > 0,
         NEW s, PaidFor(base, s, loss), s.panic \/ CoinsFor(base, s, loss),
         NEW new, new = Pay(s, a, loss)
  PROVE  new.panic \/ CoinsFor(base, new, loss)
  <1>1. CASE s.payout = 0 \/ s.panic
    <2>1. new = s
      BY <1>1 DEF Pay
    <2>2. QED
      BY <2>1
  <1>2. CASE ~ (s.payout = 0 \/ s.panic) /\ ~ new.panic
    <2>1. /\ PaidBooks(s) /\ s.purchased \in Nat /\ s.payout \in Nat
          /\ CoinsFor(base, s, loss)
      BY <1>2 DEF PaidFor
    <2>2. /\ a \in DOMAIN s.providers /\ s.providers[a].collateral \in Nat
          /\ IsStore(s.providers, Accounts, Provider) /\ IsPaying(s)
      <3>1. DOMAIN s.providers = DOMAIN providers /\ GoodProviders(s.providers) /\ IsPaying(s)
        BY <2>1 DEF PaidBooks
      <3>2. Sound(s.providers[a])
        BY <3>1 DEF GoodProviders
      <3>3. QED
        BY <3>1, <3>2, SoundAmounts DEF GoodProviders
    <2>3. PICK part : part = ProviderPayout(s, a, loss)
      OBVIOUS
    <2>4. /\ part.purchased \in Nat /\ part.purchased <= s.purchased
          /\ part.payout \in Nat /\ part.payout <= s.payout
      BY <2>1, <2>2, <2>3, ProviderPayoutBounds
    <2>5. PICK x \in Nat, y \in Nat : x = part.purchased /\ y = part.payout
      BY <2>4
    <2>6. PICK mid : mid = PayFromCollateral(s, a, x, y)
      OBVIOUS
    <2>7. PICK paid : paid = PayFromStake(mid, a, x, y)
      OBVIOUS
    <2>8. new = [paid EXCEPT !.purchased = @ - x, !.payout = @ - y]
      BY <1>2, <2>3, <2>5, <2>6, <2>7 DEF Pay
    <2>9. PICK free : free = s.providers[a].collateral - s.providers[a].withdrawing
      OBVIOUS
    <2>10. PICK more : more = y - FromFree(free, x, y)
      OBVIOUS
    <2>11. IsPaying(mid) /\ mid.delegated = s.delegated /\ mid.unbonding = s.unbonding
             /\ mid.payout = s.payout
      BY <2>2, <2>6, <2>9, <2>10, PayFromCollateralFields
    <2>12. ~ mid.panic
      <3>1. SUFFICES ASSUME mid.panic PROVE FALSE
        OBVIOUS
      <3>2. IsPaying(paid) /\ paid.panic
        BY <2>7, <2>11, <3>1, StakePanics
      <3>3. new.panic
        BY <2>8, <3>2 DEF IsPaying
      <3>4. QED
        BY <1>2, <3>3
    <2>13. PaidBooks(mid) /\ mid.purchased = s.purchased
      BY <2>1, <2>2, <2>6, <2>12, PayFromCollateralKeeps
    <2>14. a \in DOMAIN mid.providers
      BY <2>2, <2>13 DEF PaidBooks
    <2>15. PaidBooks(paid) /\ paid.payout = mid.payout
      BY <2>7, <2>13, <2>14, PayFromStakeKeeps
    <2>16. IsPaying(paid)
      BY <2>15 DEF PaidBooks
    <2>17. /\ new.delegated = paid.delegated /\ new.unbonding = paid.unbonding
           /\ new.payout = paid.payout - y /\ new.panic = paid.panic
      BY <2>8, <2>16 DEF IsPaying
    <2>18. HasStakes(mid) /\ CoinsOf(mid) = CoinsOf(s)
      BY <2>1, <2>11 DEF HasStakes, CoinsOf, CoinsFor
    <2>19. HasStakes(paid) /\ CoinsOf(paid) + y = CoinsOf(mid)
      <3>1. ~ paid.panic
        BY <1>2, <2>17
      <3>2. QED
        BY <2>7, <2>13, <2>14, <2>18, <3>1, StakePaysOut
    <2>20. HasStakes(new) /\ CoinsOf(new) = CoinsOf(paid)
      BY <2>17, <2>19 DEF HasStakes, CoinsOf
    <2>21. CoinsOf(paid) \in Nat
      BY <2>19, StakedCoinsNat DEF HasStakes, CoinsOf
    <2>22. PICK c \in Nat, b \in Nat, p \in Nat : c = CoinsOf(paid) /\ b = CoinsOf(base) /\ p = s.payout
      BY <2>1, <2>21
    <2>23. (c + y) + loss = b + p
      BY <2>1, <2>18, <2>19, <2>22 DEF CoinsFor
    <2>24. c + loss = b + (p - y)
      BY <2>23
    <2>25. new.payout = p - y
      BY <2>11, <2>15, <2>17, <2>22
    <2>26. QED
      BY <2>20, <2>22, <2>24, <2>25 DEF CoinsFor
  <1>3. QED
    BY <1>1, <1>2

\* CreateReimbursement takes the loss from the stakes when it does not panic.
LEMMA CoinsAll ==
  ASSUME NEW loss \in Nat, PaidBooks(BeforePayout(loss)), HasStakes(BeforePayout(loss)), now \in Nat,
         totalShield \in Nat, totalCollateral \in Nat, totalCollateral > 0
  PROVE  Payout(loss).panic \/ CoinsFor(BeforePayout(loss), Payout(loss), loss)
  <1>1. PICK S, base : S = DOMAIN providers /\ base = BeforePayout(loss)
    OBVIOUS
  <1>2. IsFiniteSet(S) /\ S \subseteq Nat
    <2>1. GoodProviders(providers)
      BY DEF BeforePayout, PaidBooks
    <2>2. QED
      BY <1>1, <2>1, ProvidersFinite
  <1>3. \A s \in SUBSET S : s # {} => Greatest(s, loss) \in s
    <2>1. \A s \in SUBSET S : IsFiniteSet(s) /\ s \subseteq Nat
      BY <1>2, FS_Subset
    <2>2. QED
      BY <2>1, GreatestIn
  <1>4. base.payout = loss /\ base.purchased = totalShield /\ PaidBooks(base) /\ HasStakes(base)
    BY <1>1 DEF BeforePayout
  <1>5. CoinsOf(base) \in Nat
    BY <1>4, StakedCoinsNat DEF HasStakes, CoinsOf
  <1>6. PaidFor(base, base, loss) /\ CoinsFor(base, base, loss)
    <2>1. Pays(base, base, 0)
      BY <1>4, PaysNothing
    <2>2. loss - base.payout = 0 /\ base.payout <= loss /\ base.payout \in Nat /\ base.purchased \in Nat
      BY <1>4
    <2>3. PaidFor(base, base, loss)
      BY <1>4, <2>1, <2>2 DEF PaidFor
    <2>4. CoinsFor(base, base, loss)
      BY <1>4, <1>5 DEF CoinsFor
    <2>5. QED
      BY <2>3, <2>4
  <1>7. PICK g : Paying!Runs(g, S, base, loss)
    <2>1. \E size : Paying!HasSizes(S, size)
      <3>1. \E size : Delaying!HasSizes(S, size)
        BY <1>2, FiniteHasSizes
      <3>2. QED
        BY <3>1 DEF Delaying!HasSizes, Paying!HasSizes
    <2>2. QED
      BY <1>3, <2>1, Paying!LoopRuns, Zenon
  <1>8. /\ g[S] = Paying!Loop(S, base, loss) /\ g[{}] = base
        /\ \A s \in SUBSET S : s # {} =>
             /\ Greatest(s, loss) \in s
             /\ g[s] = Pay(g[s \ {Greatest(s, loss)}], Greatest(s, loss), loss)
    BY <1>7 DEF Paying!Runs
  <1> DEFINE Good(s) == PaidFor(base, s, loss) /\ (s.panic \/ CoinsFor(base, s, loss))
             T == {s \in SUBSET S : Good(g[s])}
  <1>9. ASSUME NEW s \in SUBSET S, \A t \in SUBSET s : t # s => t \in T
        PROVE  s \in T
    <2>1. CASE s = {}
      BY <1>6, <1>8, <2>1
    <2>2. CASE s # {}
      <3>1. PICK a : a = Greatest(s, loss)
        OBVIOUS
      <3>2. a \in s /\ g[s] = Pay(g[s \ {a}], a, loss)
        BY <1>8, <2>2, <3>1
      <3>3. PICK old : old = g[s \ {a}]
        OBVIOUS
      <3>4. PaidFor(base, old, loss) /\ (old.panic \/ CoinsFor(base, old, loss))
        BY <1>9, <3>2, <3>3
      <3>5. a \in DOMAIN providers
        BY <1>1, <3>2
      <3>6. PaidFor(base, g[s], loss)
        BY <1>4, <3>2, <3>3, <3>4, <3>5, PaidForOne
      <3>7. g[s].panic \/ CoinsFor(base, g[s], loss)
        BY <1>5, <3>2, <3>3, <3>4, <3>5, CoinsForOne
      <3>8. QED
        BY <3>6, <3>7
    <2>3. QED
      BY <2>1, <2>2
  <1>10. S \in T
    <2> HIDE DEF T
    <2>1. SUBSET S \subseteq T
      BY <1>2, <1>9, SubsetInduction
    <2>2. QED
      BY <2>1
  <1>11. Payout(loss) = g[S]
    BY <1>1, <1>8, PayoutIsLoop
  <1>12. QED
    BY <1>1, <1>10, <1>11

-----------------------------------------------------------------------------
(* No step makes or loses coins.                                           *)

\* The coins of the accounts that have the balances b, the delegations d and the unbonding
\* entries u.
Wallets(b, d, u) ==
  SumFunctionOnSet([a \in Accounts |-> b[a] + d[a] + SumOfEntries(u[a])], Accounts)

HasWallets(b, d, u) == b \in [Accounts -> Nat] /\ Stakes(d, u)

\* Supply is what the module account and the wallets have.
LEMMA SupplyIs == Supply = moduleBalance + Wallets(balances, delegated, unbonding)
  BY DEF Supply, Wallets, SumOver

\* The coins of the wallets are balances and stakes.
LEMMA WalletsSplit ==
  ASSUME NEW b, NEW d, NEW u, HasWallets(b, d, u)
  PROVE  /\ Wallets(b, d, u) = SumFunctionOnSet(b, Accounts) + StakedCoins(d, u)
         /\ SumFunctionOnSet(b, Accounts) \in Nat /\ StakedCoins(d, u) \in Nat
  <1>1. PICK f, h : /\ f = [a \in Accounts |-> d[a] + SumOfEntries(u[a])]
                    /\ h = [a \in Accounts |-> b[a] + d[a] + SumOfEntries(u[a])]
    OBVIOUS
  <1>2. IsFiniteSet(Accounts)
    BY AccountsAssumption
  <1>3. \A a \in Accounts : b[a] \in Nat /\ d[a] \in Nat /\ SumOfEntries(u[a]) \in Nat
    BY EntriesSum DEF HasWallets, Stakes
  <1>4. \A a \in Accounts : b[a] \in Nat /\ f[a] \in Nat /\ h[a] = b[a] + f[a]
    BY <1>1, <1>3
  <1>5. SumFunctionOnSet(h, Accounts) = SumFunctionOnSet(b, Accounts) + SumFunctionOnSet(f, Accounts)
    BY <1>2, <1>4, SumPlus
  <1>6. SumFunctionOnSet(b, Accounts) \in Nat /\ SumFunctionOnSet(f, Accounts) \in Nat
    BY <1>2, <1>4, SumNat
  <1>7. QED
    BY <1>1, <1>5, <1>6 DEF Wallets, StakedCoins

\* Every account has what it had, in another form.
LEMMA WalletsSame ==
  ASSUME NEW b, NEW d, NEW u, NEW newb, NEW newd, NEW newu,
         \A a \in Accounts : newb[a] + newd[a] + SumOfEntries(newu[a]) = b[a] + d[a] + SumOfEntries(u[a])
  PROVE  Wallets(newb, newd, newu) = Wallets(b, d, u)
  <1>1. PICK f, g : /\ f = [a \in Accounts |-> b[a] + d[a] + SumOfEntries(u[a])]
                    /\ g = [a \in Accounts |-> newb[a] + newd[a] + SumOfEntries(newu[a])]
    OBVIOUS
  <1>2. \A a \in Accounts : g[a] = f[a]
    BY <1>1
  <1>3. SumFunctionOnSet(g, Accounts) = SumFunctionOnSet(f, Accounts)
    BY <1>2, AccountsAssumption, SumEqual
  <1>4. QED
    BY <1>1, <1>3 DEF Wallets

\* What a step owes to the bank.
KeepsCoins == BankInv' /\ Supply' = Supply

\* A step that moves coins of each account keeps them.
LEMMA MovesKeepCoins ==
  ASSUME moduleBalance \in Nat, UNCHANGED moduleBalance,
         balances' \in [Accounts -> Nat], unbonding' \in [Accounts -> Seq(Entry)],
         \A a \in Accounts : balances'[a] + delegated'[a] + SumOfEntries(unbonding'[a])
                               = balances[a] + delegated[a] + SumOfEntries(unbonding[a])
  PROVE  KeepsCoins
  <1>1. PICK b, d, u : b = balances /\ d = delegated /\ u = unbonding
    OBVIOUS
  <1>2. PICK newb, newd, newu : newb = balances' /\ newd = delegated' /\ newu = unbonding'
    OBVIOUS
  <1>3. \A a \in Accounts : newb[a] + newd[a] + SumOfEntries(newu[a]) = b[a] + d[a] + SumOfEntries(u[a])
    BY <1>1, <1>2
  <1>4. Wallets(newb, newd, newu) = Wallets(b, d, u)
    BY <1>3, WalletsSame
  <1>5. Supply' = moduleBalance' + Wallets(newb, newd, newu)
    BY <1>2 DEF Supply, Wallets, SumOver
  <1>6. Supply = moduleBalance + Wallets(b, d, u)
    BY <1>1, SupplyIs
  <1>7. QED
    BY <1>4, <1>5, <1>6 DEF KeepsCoins, BankInv

\* A step that leaves coins alone keeps them.
LEMMA QuietKeepsCoins ==
  ASSUME BankInv, UNCHANGED <<balances, moduleBalance, delegated, unbonding>>
  PROVE  KeepsCoins
  BY DEF KeepsCoins, BankInv, Supply

\* Delegate moves coins of the delegator from the balance to the delegation.
LEMMA DelegateKeepsCoins ==
  ASSUME BankInv, delegated \in [Accounts -> Nat], NEW a \in Accounts, NEW amount \in Nat,
         Delegate(a, amount)
  PROVE  KeepsCoins
  <1>1. PICK n \in Nat, m \in Nat : /\ n = balances[a] - amount /\ m = delegated[a] + amount
                                    /\ n + m = balances[a] + delegated[a]
    BY DEF BankInv, Delegate
  <1>2. /\ balances' = [balances EXCEPT ![a] = n] /\ delegated' = [delegated EXCEPT ![a] = m]
        /\ UNCHANGED <<moduleBalance, unbonding>>
    BY <1>1 DEF Delegate
  <1>3. balances' \in [Accounts -> Nat] /\ unbonding' \in [Accounts -> Seq(Entry)]
    BY <1>2, BalanceSet DEF BankInv
  <1>4. ASSUME NEW x \in Accounts
        PROVE  balances'[x] + delegated'[x] + SumOfEntries(unbonding'[x])
                 = balances[x] + delegated[x] + SumOfEntries(unbonding[x])
    <2>1. PICK s : s = SumOfEntries(unbonding[x]) /\ s = SumOfEntries(unbonding'[x])
      BY <1>2
    <2>2. balances'[x] + delegated'[x] = balances[x] + delegated[x]
      <3>1. CASE x = a
        BY <1>1, <1>2, <3>1 DEF BankInv
      <3>2. CASE x # a
        BY <1>2, <3>2 DEF BankInv
      <3>3. QED
        BY <3>1, <3>2
    <2>3. QED
      BY <2>1, <2>2
  <1>5. QED
    BY <1>2, <1>3, <1>4, MovesKeepCoins DEF BankInv

\* Undelegate moves coins of the delegator from the delegation to a new entry.
LEMMA UndelegateKeepsCoins ==
  ASSUME BankInv, now \in Nat, delegated \in [Accounts -> Nat], NEW a \in Accounts, NEW amount \in Nat,
         NEW removed, Undelegate(a, amount, removed)
  PROVE  KeepsCoins
  <1>1. PICK m \in Nat : m = delegated[a] - amount /\ m + amount = delegated[a]
    BY DEF Undelegate
  <1>2. PICK e \in Entry : e = [amount |-> amount, completionTime |-> now + UnbondingTime]
    <2>1. now + UnbondingTime \in Nat
      BY ParamsAssumption
    <2>2. [amount |-> amount, completionTime |-> now + UnbondingTime] \in Entry
      BY <2>1 DEF Entry
    <2>3. QED
      BY <2>2
  <1>3. PICK old \in Seq(Entry) : old = unbonding[a]
    BY DEF BankInv
  <1>4. PICK new : new = Append(old, e)
    OBVIOUS
  <1>5. /\ new \in Seq(Entry) /\ SumOfEntries(new) = SumOfEntries(old) + amount
        /\ SumOfEntries(old) \in Nat
    <2>1. e.amount = amount
      BY <1>2
    <2>2. QED
      BY <1>4, <2>1, AppendAmount, EntriesSum
  <1>6. /\ delegated' = [delegated EXCEPT ![a] = m] /\ unbonding' = [unbonding EXCEPT ![a] = new]
        /\ UNCHANGED <<balances, moduleBalance>>
    BY <1>1, <1>2, <1>3, <1>4 DEF Undelegate, bankVars
  <1>7. balances' \in [Accounts -> Nat] /\ unbonding' \in [Accounts -> Seq(Entry)]
    BY <1>5, <1>6 DEF BankInv
  <1>8. ASSUME NEW x \in Accounts
        PROVE  balances'[x] + delegated'[x] + SumOfEntries(unbonding'[x])
                 = balances[x] + delegated[x] + SumOfEntries(unbonding[x])
    <2>1. CASE x = a
      <3>1. /\ balances'[x] = balances[x] /\ delegated'[x] = m /\ unbonding'[x] = new
            /\ unbonding[x] = old /\ delegated[x] = m + amount
        BY <1>1, <1>3, <1>6, <2>1 DEF BankInv
      <3>2. PICK b \in Nat, s \in Nat : b = balances[x] /\ s = SumOfEntries(old)
        BY <1>5 DEF BankInv
      <3>3. b + m + (s + amount) = b + (m + amount) + s
        OBVIOUS
      <3>4. QED
        BY <1>5, <3>1, <3>2, <3>3
    <2>2. CASE x # a
      BY <1>6, <2>2 DEF BankInv
    <2>3. QED
      BY <2>1, <2>2
  <1>9. QED
    BY <1>6, <1>7, <1>8, MovesKeepCoins DEF BankInv

\* StakingEndBlocker moves coins of the mature entries to the balances.
LEMMA UnbondingKeepsCoins ==
  ASSUME BankInv, delegated \in [Accounts -> Nat], StakingEndBlocker
  PROVE  KeepsCoins
  <1>1. /\ balances' = [a \in Accounts |-> balances[a] + MatureAmount(unbonding[a])]
        /\ unbonding' = [a \in Accounts |-> Immature(unbonding[a])]
        /\ UNCHANGED <<moduleBalance, delegated>>
    BY DEF StakingEndBlocker
  <1>2. ASSUME NEW x \in Accounts
        PROVE  /\ balances'[x] \in Nat /\ unbonding'[x] \in Seq(Entry)
               /\ balances'[x] + delegated'[x] + SumOfEntries(unbonding'[x])
                    = balances[x] + delegated[x] + SumOfEntries(unbonding[x])
    <2>1. PICK entries \in Seq(Entry) : entries = unbonding[x]
      BY DEF BankInv
    <2>2. PICK p \in Nat, q \in Nat : /\ p = MatureAmount(entries) /\ q = SumOfEntries(Immature(entries))
                                      /\ SumOfEntries(entries) = p + q
      BY MatureAndLeft
    <2>3. PICK b \in Nat, d \in Nat : b = balances[x] /\ d = delegated[x]
      BY DEF BankInv
    <2>4. /\ balances'[x] = b + p /\ delegated'[x] = d /\ unbonding'[x] = Immature(entries)
      BY <1>1, <2>1, <2>2, <2>3
    <2>5. unbonding'[x] \in Seq(Entry)
      BY <2>4, ImmatureType
    <2>6. (b + p) + d + q = b + d + (p + q)
      OBVIOUS
    <2>7. QED
      BY <2>1, <2>2, <2>3, <2>4, <2>5, <2>6
  <1>3. balances' \in [Accounts -> Nat] /\ unbonding' \in [Accounts -> Seq(Entry)]
    BY <1>1, <1>2
  <1>4. QED
    BY <1>1, <1>2, <1>3, MovesKeepCoins DEF BankInv

\* SubmitClaim puts entries off, and they keep their amounts.
LEMMA SubmitKeepsCoins ==
  ASSUME BankInv, now \in Nat, GoodProviders(providers), NEW id, NEW loss, NEW sender,
         SubmitClaim(sender, id, loss)
  PROVE  KeepsCoins
  <1>1. PICK total : total = totalClaimed + loss
    OBVIOUS
  <1>2. unbonding' = Secured(total).unbonding /\ UNCHANGED <<balances, moduleBalance, delegated>>
    BY <1>1 DEF SubmitClaim, bankVars
  <1>3. AllSame(unbonding, unbonding')
    BY <1>2, SecuredSame DEF BankInv
  <1>4. balances' \in [Accounts -> Nat] /\ unbonding' \in [Accounts -> Seq(Entry)]
    BY <1>2, <1>3 DEF AllSame, BankInv
  <1>5. \A x \in Accounts : balances'[x] + delegated'[x] + SumOfEntries(unbonding'[x])
                              = balances[x] + delegated[x] + SumOfEntries(unbonding[x])
    BY <1>2, <1>3 DEF AllSame
  <1>6. QED
    BY <1>2, <1>4, <1>5, MovesKeepCoins DEF BankInv

\* WithdrawReimbursement moves coins from the module account to the beneficiary.
LEMMA ReimbursementKeepsCoins ==
  ASSUME BankInv, delegated \in [Accounts -> Nat], GoodReimbursements(reimbursements), NEW a \in Accounts,
         NEW id \in DOMAIN reimbursements, WithdrawReimbursement(a, id)
  PROVE  KeepsCoins
  <1>1. PICK amount \in Nat : amount = reimbursements[id].amount
    BY DEF GoodReimbursements, IsStore, Reimbursement
  <1>2. PICK m \in Nat : moduleBalance' = m /\ m + amount = moduleBalance
    BY <1>1 DEF BankInv, WithdrawReimbursement
  <1>3. PICK n \in Nat : n = balances[a] + amount
    BY DEF BankInv
  <1>4. balances' = [balances EXCEPT ![a] = n] /\ UNCHANGED <<delegated, unbonding>>
    BY <1>1, <1>3 DEF WithdrawReimbursement, stakingVars
  <1>5. PICK b, newb, d, u : b = balances /\ newb = balances' /\ d = delegated /\ u = unbonding
    OBVIOUS
  <1>6. b \in [Accounts -> Nat] /\ newb \in [Accounts -> Nat] /\ Stakes(d, u)
    BY <1>4, <1>5, BalanceSet DEF BankInv, Stakes
  <1>7. SumFunctionOnSet(newb, Accounts) = SumFunctionOnSet(b, Accounts) + amount
    <2>1. \A x \in Accounts : b[x] \in Nat /\ newb[x] \in Nat
      BY <1>6
    <2>2. \A x \in Accounts \ {a} : newb[x] = b[x]
      BY <1>4, <1>5, <1>6
    <2>3. newb[a] = b[a] + amount
      BY <1>3, <1>4, <1>5, <1>6
    <2>4. SumFunctionOnSet(newb, Accounts) + b[a] = SumFunctionOnSet(b, Accounts) + newb[a]
      <3>1. IsFiniteSet(Accounts)
        BY AccountsAssumption
      <3>2. QED
        BY <2>1, <2>2, <3>1, SumUpdate
    <2>5. PICK x \in Nat, y \in Nat, z \in Nat :
            x = SumFunctionOnSet(newb, Accounts) /\ y = SumFunctionOnSet(b, Accounts) /\ z = b[a]
      BY <2>1, AccountsAssumption, SumNat
    <2>6. x + z = y + (z + amount)
      BY <2>3, <2>4, <2>5
    <2>7. x = y + amount
      BY <2>6
    <2>8. QED
      BY <2>5, <2>7
  <1>8. HasWallets(b, d, u) /\ HasWallets(newb, d, u)
    BY <1>6 DEF HasWallets
  <1>9. PICK x \in Nat, y \in Nat : x = SumFunctionOnSet(b, Accounts) /\ y = StakedCoins(d, u)
    BY <1>8, WalletsSplit
  <1>10. Wallets(b, d, u) = x + y /\ Wallets(newb, d, u) = (x + amount) + y
    BY <1>7, <1>8, <1>9, WalletsSplit
  <1>11. Supply = (m + amount) + (x + y)
    BY <1>2, <1>5, <1>10, SupplyIs
  <1>12. Supply' = m + Wallets(newb, d, u)
    BY <1>2, <1>4, <1>5 DEF Supply, Wallets, SumOver
  <1>13. m + ((x + amount) + y) = (m + amount) + (x + y)
    OBVIOUS
  <1>14. Supply' = Supply
    BY <1>10, <1>11, <1>12, <1>13
  <1>15. QED
    BY <1>2, <1>4, <1>5, <1>6, <1>14 DEF KeepsCoins, BankInv

\* CreateReimbursement moves coins from the stakes of the providers to the module account.
LEMMA PassKeepsCoins ==
  ASSUME ClaimsInv, BankInv, NEW id \in DOMAIN claims, PassClaim(id)
  PROVE  KeepsCoins
  <1>0. /\ ProviderInv /\ Tracked /\ BookInv /\ ClaimInv /\ ShieldBooked /\ moduleBalance \in Nat
        /\ now \in Nat
    BY DEF ClaimsInv, PurchaseInv, BankInv, BookInv
  <1>1. PICK loss \in Nat : loss = claims[id].loss
    BY <1>0 DEF ClaimInv, GoodClaims, IsStore, Claim
  <1>2. PICK s : s = Payout(loss)
    OBVIOUS
  <1>3. totalCollateral \in Nat /\ totalShield \in Nat
    BY <1>0, TotalsNat, PoolShields DEF ProviderInv
  <1>4. /\ ~ PayoutPanics(loss)
        /\ delegated' = s.delegated /\ unbonding' = s.unbonding /\ UNCHANGED balances
        /\ moduleBalance' = moduleBalance + loss - s.payout
    BY <1>1, <1>2 DEF PassClaim
  <1>5. totalCollateral > 0 /\ ~ s.panic /\ ~ (s.payout > 0)
    BY <1>2, <1>3, <1>4 DEF PayoutPanics
  <1>6. PICK base : base = BeforePayout(loss)
    OBVIOUS
  <1>7. /\ IsPaying(base) /\ base.providers = providers /\ base.withdraws = withdraws
        /\ base.totalWithdrawing = totalWithdrawing /\ base.delegated = delegated
        /\ base.unbonding = unbonding
    BY <1>6 DEF BeforePayout, IsPaying
  <1>8. PaidBooks(base)
    BY <1>0, <1>7 DEF PaidBooks, ProviderInv, Tracked
  <1>9. HasStakes(base)
    BY <1>0, <1>7 DEF HasStakes, Stakes, ProviderInv, BankInv
  <1>10. CoinsFor(base, s, loss)
    BY <1>0, <1>2, <1>3, <1>5, <1>6, <1>8, <1>9, CoinsAll
  <1>11. s.payout = 0
    <2>1. PaidFor(base, s, loss)
      BY <1>0, <1>2, <1>3, <1>5, <1>6, <1>8, PaidAll
    <2>2. s.payout \in Nat
      BY <1>5, <2>1 DEF PaidFor
    <2>3. QED
      BY <1>5, <2>2
  <1>12. moduleBalance' = moduleBalance + loss
    BY <1>0, <1>4, <1>11
  <1>13. HasStakes(s) /\ CoinsOf(s) + loss = CoinsOf(base) + 0
    BY <1>10, <1>11 DEF CoinsFor
  <1>14. PICK b, d, u, newd, newu : /\ b = balances /\ d = delegated /\ u = unbonding
                                    /\ newd = delegated' /\ newu = unbonding'
    OBVIOUS
  <1>15. /\ Stakes(d, u) /\ Stakes(newd, newu)
         /\ StakedCoins(newd, newu) + loss = StakedCoins(d, u) + 0
    BY <1>4, <1>7, <1>9, <1>13, <1>14 DEF HasStakes, CoinsOf
  <1>16. HasWallets(b, d, u) /\ HasWallets(b, newd, newu)
    BY <1>14, <1>15 DEF HasWallets, BankInv
  <1>17. PICK x \in Nat, y \in Nat, z \in Nat :
           x = SumFunctionOnSet(b, Accounts) /\ y = StakedCoins(d, u) /\ z = StakedCoins(newd, newu)
    BY <1>16, WalletsSplit
  <1>18. Wallets(b, d, u) = x + y /\ Wallets(b, newd, newu) = x + z /\ z + loss = y
    BY <1>15, <1>16, <1>17, WalletsSplit
  <1>19. PICK m \in Nat : m = moduleBalance
    BY <1>0
  <1>20. Supply = m + (x + y)
    BY <1>14, <1>18, <1>19, SupplyIs
  <1>21. Supply' = (m + loss) + Wallets(b, newd, newu)
    BY <1>4, <1>12, <1>14, <1>19 DEF Supply, Wallets, SumOver
  <1>22. (m + loss) + (x + z) = m + (x + y)
    BY <1>18
  <1>23. Supply' = Supply
    BY <1>18, <1>20, <1>21, <1>22
  <1>24. balances' \in [Accounts -> Nat] /\ moduleBalance' \in Nat /\ unbonding' \in [Accounts -> Seq(Entry)]
    BY <1>4, <1>12, <1>14, <1>15, <1>19 DEF BankInv, Stakes
  <1>25. QED
    BY <1>23, <1>24 DEF KeepsCoins, BankInv

\* Every step keeps the coins.
LEMMA CoinsStep ==
  ASSUME ClaimsInv, BankInv, [ClaimsNext]_allVars
  PROVE  KeepsCoins
  <1>0. /\ now \in Nat /\ delegated \in [Accounts -> Nat] /\ GoodProviders(providers)
        /\ GoodReimbursements(reimbursements)
    BY DEF ClaimsInv, BookInv, ProviderInv, ReimbursementInv
  <1>1. ASSUME NEW a \in Accounts, ShieldMsg(a) PROVE KeepsCoins
    <2>1. ASSUME NEW amount \in Nat, DepositCollateral(a, amount) PROVE KeepsCoins
      BY <2>1, QuietKeepsCoins DEF DepositCollateral, bankVars, stakingVars
    <2>2. ASSUME NEW amount \in Nat, WithdrawCollateral(a, amount) PROVE KeepsCoins
      BY <2>2, QuietKeepsCoins DEF WithdrawCollateral, bankVars, stakingVars
    <2>3. ASSUME NEW amount \in Nat, Delegate(a, amount) PROVE KeepsCoins
      BY <1>0, <2>3, DelegateKeepsCoins
    <2>4. ASSUME NEW amount \in Nat, Undelegate(a, amount, amount = delegated[a]) PROVE KeepsCoins
      BY <1>0, <2>4, UndelegateKeepsCoins
    <2>5. QED
      BY <1>1, <2>1, <2>2, <2>3, <2>4, InputsAssumption DEF ShieldMsg
  <1>2. CASE ClaimMsg
    <2>1. ASSUME NEW id, NEW loss, NEW sender, SubmitClaim(sender, id, loss) PROVE KeepsCoins
      BY <1>0, <2>1, SubmitKeepsCoins
    <2>2. ASSUME NEW a \in Accounts, NEW id \in DOMAIN reimbursements, WithdrawReimbursement(a, id)
          PROVE  KeepsCoins
      BY <1>0, <2>2, ReimbursementKeepsCoins
    <2>3. QED
      BY <1>2, <2>1, <2>2 DEF ClaimMsg
  <1>3. CASE ShieldBlock
    <2>1. CASE EndBlocker
      BY <2>1, QuietKeepsCoins DEF EndBlocker, bankVars, stakingVars
    <2>2. CASE EndBlockerHalts
      BY <2>2, QuietKeepsCoins DEF EndBlockerHalts, bankVars, stakingVars
    <2>3. CASE StakingEndBlocker
      BY <1>0, <2>3, UnbondingKeepsCoins
    <2>4. ASSUME NEW elapsed \in Nat, NextBlock(elapsed, 0) PROVE KeepsCoins
      <3>1. moduleBalance' = moduleBalance + 0 /\ UNCHANGED <<balances, delegated, unbonding>>
        BY <2>4 DEF NextBlock, stakingVars
      <3>2. moduleBalance' = moduleBalance
        BY <3>1 DEF BankInv
      <3>3. QED
        BY <3>1, <3>2, QuietKeepsCoins
    <2>5. QED
      BY <1>3, <2>1, <2>2, <2>3, <2>4, InputsAssumption DEF ShieldBlock
  <1>4. ASSUME NEW id \in DOMAIN claims, Vote(id) PROVE KeepsCoins
    <2>1. CASE CertifiersPass(id)
      BY <2>1, QuietKeepsCoins DEF CertifiersPass, vars, bankVars, stakingVars
    <2>2. CASE RejectClaim(id)
      BY <2>2, QuietKeepsCoins DEF RejectClaim, bankVars, stakingVars
    <2>3. CASE VetoClaim(id)
      BY <2>3, QuietKeepsCoins DEF VetoClaim, bankVars, stakingVars
    <2>4. CASE PassClaim(id)
      BY <2>4, PassKeepsCoins
    <2>5. CASE PassClaimHalts(id)
      BY <2>5, QuietKeepsCoins DEF PassClaimHalts, bankVars, stakingVars
    <2>6. QED
      BY <1>4, <2>1, <2>2, <2>3, <2>4, <2>5 DEF Vote
  <1>5. CASE UNCHANGED allVars
    BY <1>5, QuietKeepsCoins DEF allVars, vars, bankVars, stakingVars
  <1>6. QED
    BY <1>1, <1>2, <1>3, <1>4, <1>5 DEF ClaimsNext, ClaimsBlock

\* At genesis the accounts have their first balances and delegations.
LEMMA GenesisSupply ==
  ASSUME ClaimsInit
  PROVE  BankInv /\ CoinsConserved
  <1>1. /\ balances = [a \in Accounts |-> InitBalance] /\ delegated = [a \in Accounts |-> InitDelegated]
        /\ unbonding = [a \in Accounts |-> <<>>] /\ moduleBalance = 0
    BY DEF ClaimsInit
  <1>2. InitBalance \in Nat /\ InitDelegated \in Nat
    BY InputsAssumption
  <1>3. <<>> \in Seq(Entry)
    OBVIOUS
  <1>4. BankInv
    BY <1>1, <1>2, <1>3 DEF BankInv
  <1>5. SumOfEntries(<<>>) = 0
    <2>1. PICK none \in Seq(Entry) : none = <<>>
      BY <1>3
    <2>2. SumOfEntries(none) = SumFunctionOnSet(Amounts(none), DOMAIN none)
      BY EntriesSum
    <2>3. DOMAIN none = {}
      BY <2>1
    <2>4. QED
      BY <2>1, <2>2, <2>3, SumEmpty
  <1>6. PICK f, g : /\ f = [a \in Accounts |-> InitBalance + InitDelegated]
                    /\ g = [a \in Accounts |-> balances[a] + delegated[a] + SumOfEntries(unbonding[a])]
    OBVIOUS
  <1>7. \A a \in Accounts : f[a] \in Nat /\ g[a] = f[a]
    BY <1>1, <1>2, <1>5, <1>6
  <1>8. /\ SumFunctionOnSet(g, Accounts) = SumFunctionOnSet(f, Accounts)
        /\ SumFunctionOnSet(f, Accounts) \in Nat
    BY <1>7, AccountsAssumption, SumEqual, SumNat
  <1>9. Supply = 0 + SumFunctionOnSet(g, Accounts)
    BY <1>1, <1>6 DEF Supply, SumOver
  <1>10. CoinsConserved
    BY <1>6, <1>8, <1>9 DEF CoinsConserved, SumOver
  <1>11. QED
    BY <1>4, <1>10

\* The entries and the balances keep their types through claims, and coins are conserved.
THEOREM ClaimsCoins == ClaimsSpec => [](BankInv /\ CoinsConserved)
  <1>1. ClaimsInit => BankInv /\ CoinsConserved
    BY GenesisSupply
  <1>2. BankInv /\ CoinsConserved /\ ClaimsInv /\ [ClaimsNext]_allVars => (BankInv /\ CoinsConserved)'
    <2> SUFFICES ASSUME BankInv, CoinsConserved, ClaimsInv, [ClaimsNext]_allVars
                 PROVE  BankInv' /\ CoinsConserved'
      OBVIOUS
    <2>1. BankInv' /\ Supply' = Supply
      BY CoinsStep DEF KeepsCoins
    <2>2. CoinsConserved'
      BY <2>1 DEF CoinsConserved
    <2>3. QED
      BY <2>1, <2>2
  <1>3. QED
    BY <1>1, <1>2, ClaimsBooks, PTL DEF ClaimsSpec

\* Coins are neither made nor lost: what DelayUnbonding reorders, MakePayoutByProviderDelegations
\* and PayFromUnbondings cut, and WithdrawReimbursement pays adds up to what there was at genesis.
THEOREM ClaimsCoinsConserved == ClaimsSpec => []CoinsConserved
  BY ClaimsCoins, PTL

-----------------------------------------------------------------------------
(* The types of the stores.                                                *)

\* No step of ClaimsNext stakes for shield.
NoStakes == stakeForShield = <<>> /\ originalStaking = <<>> /\ globalStakingPool = 0

LEMMA NoStakesStep ==
  ASSUME NoStakes, [ClaimsNext]_allVars
  PROVE  NoStakes'
  <1> SUFFICES UNCHANGED stakeVars
    BY DEF NoStakes, stakeVars
  <1>1. ASSUME NEW a, ShieldMsg(a) PROVE UNCHANGED stakeVars
    BY <1>1 DEF ShieldMsg, DepositCollateral, WithdrawCollateral, Delegate, Undelegate
  <1>2. CASE ClaimMsg
    <2>1. ASSUME NEW id, NEW loss, NEW sender, SubmitClaim(sender, id, loss) PROVE UNCHANGED stakeVars
      BY <2>1 DEF SubmitClaim
    <2>2. ASSUME NEW a, NEW id, WithdrawReimbursement(a, id) PROVE UNCHANGED stakeVars
      BY <2>2 DEF WithdrawReimbursement
    <2>3. QED
      BY <1>2, <2>1, <2>2 DEF ClaimMsg
  <1>3. CASE ShieldBlock
    BY <1>3 DEF ShieldBlock, EndBlocker, EndBlockerHalts, StakingEndBlocker, NextBlock
  <1>4. ASSUME NEW id, Vote(id) PROVE UNCHANGED stakeVars
    BY <1>4 DEF Vote, CertifiersPass, RejectClaim, VetoClaim, PassClaim, PassClaimHalts, vars
  <1>5. CASE UNCHANGED allVars
    BY <1>5 DEF allVars, vars
  <1>6. QED
    BY <1>1, <1>2, <1>3, <1>4, <1>5 DEF ClaimsNext, ClaimsBlock

\* The stores of claims, reimbursements, providers and purchases, and the coins, hold values of
\* their types through claims, votes and payouts.
THEOREM ClaimsTypes == ClaimsSpec => []ClaimsTypeOK
  <1>1. ClaimsInit => NoStakes
    BY DEF ClaimsInit, NoStakes
  <1>2. NoStakes /\ [ClaimsNext]_allVars => NoStakes'
    BY NoStakesStep
  <1>3. ClaimsInv /\ BankInv /\ NoStakes => ClaimsTypeOK
    <2> SUFFICES ASSUME ClaimsInv, BankInv, NoStakes PROVE ClaimsTypeOK
      OBVIOUS
    <2>1. ProviderInv /\ BookInv /\ ClaimInv /\ ShieldBooked /\ ReimbursementInv
      BY DEF ClaimsInv, PurchaseInv
    <2>2. /\ IsStore(providers, Accounts, Provider) /\ IsStore(withdraws, Nat, Withdraw)
          /\ delegated \in [Accounts -> Nat]
      BY <2>1 DEF ProviderInv, GoodProviders, GoodQueue
    <2>3. totalCollateral \in Int /\ totalWithdrawing \in Int
      <3>1. /\ GoodProviders(providers) /\ GoodQueue(withdraws)
            /\ totalCollateral = TotalCollateral(providers)
            /\ totalWithdrawing = AmountOf(withdraws, DOMAIN withdraws)
        BY <2>1 DEF ProviderInv
      <3>2. TotalCollateral(providers) \in Nat /\ AmountOf(withdraws, DOMAIN withdraws) \in Nat
        BY <3>1, TotalsNat, AmountNat
      <3>3. QED
        BY <3>1, <3>2
    <2>4. totalClaimed \in Int
      <3>1. GoodClaims(claims) /\ DOMAIN claims \in SUBSET DOMAIN claims
        BY <2>1 DEF ClaimInv
      <3>2. LossIn(claims, DOMAIN claims) \in Nat
        BY <3>1, LossNat
      <3>3. QED
        BY <2>1, <3>2 DEF ClaimInv
    <2>5. /\ now \in Nat /\ phase \in {"deliver", "staking", "gov", "halted"}
          /\ IsStore(pools, Nat, Pool) /\ nextPoolID \in Nat /\ totalShield \in Int
          /\ IsStore(purchases, Nat, Purchase) /\ nextPurchaseID \in Nat
          /\ serviceFees \in Nat /\ remainingServiceFees \in Int /\ blockServiceFees \in Nat
          /\ lastUpdateTime \in Nat
      BY <2>1 DEF BookInv
    <2>6. /\ IsStore(stakeForShield, Nat \X Accounts, ShieldStaking)
          /\ IsStore(originalStaking, Nat, Nat) /\ globalStakingPool \in Nat
      <3>1. \A Keys, Values : IsStore(<<>>, Keys, Values)
        BY DEF IsStore
      <3>2. QED
        BY <3>1 DEF NoStakes
    <2>7. /\ unbonding \in [Accounts -> Seq([amount : Nat, completionTime : Nat])]
          /\ balances \in [Accounts -> Nat] /\ moduleBalance \in Nat
      BY DEF BankInv, Entry
    <2>8. TypeOK
      BY <2>2, <2>3, <2>4, <2>5, <2>6, <2>7 DEF TypeOK
    <2>9. /\ IsStore(claims, Nat, Claim) /\ nextProposalID \in Nat
          /\ IsStore(reimbursements, Nat, Reimbursement)
      BY <2>1 DEF ClaimInv, GoodClaims, ReimbursementInv, GoodReimbursements
    <2>10. QED
      BY <2>8, <2>9 DEF ClaimsTypeOK
  <1>4. QED
    BY <1>1, <1>2, <1>3, ClaimsBooks, ClaimsCoins, PTL DEF ClaimsSpec
=============================================================================
