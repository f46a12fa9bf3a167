---------------------------- MODULE ShieldProofs ----------------------------
(***************************************************************************)
(* Proofs about Shield, for any accounts, parameters and amounts.          *)
(*                                                                         *)
(* The inductive invariant is built in layers, each proved with the ones   *)
(* before it:                                                              *)
(*   ProviderInv  providers, the withdraw queue and the totals,            *)
(*   BookInv      types and times of pools, purchases and fees,            *)
(*   ShieldInv    the shield of purchases, pools and the total,            *)
(*   FeeInv       the fees of the purchases against their total,           *)
(*   CoverInv     the collateral against the shield, at any later time,    *)
(*   StakeInv     the stakes for shield,                                   *)
(*   BankInv      balances and unbonding entries,                          *)
(*   AccountInv   the module account against what is booked.               *)
(***************************************************************************)
EXTENDS Shield, DecimalProofs, TLAPS

-----------------------------------------------------------------------------
(* The withdraw queue.                                                     *)

GoodQueue(queue) == IsStore(queue, Nat, Withdraw) /\ IsFiniteSet(DOMAIN queue)

\* The number of a new withdraw is not in use.
LEMMA FreshNumber ==
  ASSUME NEW S, IsFiniteSet(S), S \subseteq Nat
  PROVE  Max({0} \cup S) + 1 \in Nat /\ Max({0} \cup S) + 1 \notin S
  <1> DEFINE T == {0} \cup S
  <1>1. IsFiniteSet(T) /\ T \subseteq Nat /\ T # {}
    <2>1. T = S \cup {0}
      OBVIOUS
    <2>2. QED
      BY <2>1, FS_AddElement
  <1> HIDE DEF T
  <1>2. \E x \in T : \A y \in T : x >= y
    BY <1>1, GreatestNat
  <1>3. Max(T) \in T /\ \A y \in T : Max(T) >= y
    BY <1>2 DEF Max
  <1>4. PICK m \in Nat : m = Max(T) /\ \A y \in T : m >= y
    BY <1>1, <1>3
  <1>5. m + 1 \in Nat /\ m + 1 \notin T
    BY <1>4
  <1>6. QED
    BY <1>4, <1>5 DEF T

\* The amount of a part of a queue is a natural number.
LEMMA AmountNat ==
  ASSUME NEW queue, GoodQueue(queue), NEW S \in SUBSET DOMAIN queue
  PROVE  IsFiniteSet(S) /\ AmountOf(queue, S) \in Nat
  <1>1. IsFiniteSet(S)
    BY FS_Subset DEF GoodQueue
  <1>2. \A n \in S : [m \in S |-> queue[m].amount][n] \in Nat
    BY DEF GoodQueue, IsStore, Withdraw
  <1>3. QED
    BY <1>1, <1>2, SumNat DEF AmountOf, SumOver

\* Two queues that agree on a set have the same amount there.
LEMMA AmountEqual ==
  ASSUME NEW queue, NEW new, NEW S, IsFiniteSet(S), \A n \in S : new[n] = queue[n]
  PROVE  AmountOf(new, S) = AmountOf(queue, S)
  <1>1. \A n \in S : [m \in S |-> new[m].amount][n] = [m \in S |-> queue[m].amount][n]
    OBVIOUS
  <1>2. QED
    BY <1>1, SumEqual DEF AmountOf, SumOver

\* The amounts of two parts add up.
LEMMA AmountUnion ==
  ASSUME NEW queue, GoodQueue(queue), NEW S \in SUBSET DOMAIN queue,
         NEW R \in SUBSET DOMAIN queue, S \cap R = {}
  PROVE  AmountOf(queue, S \cup R) = AmountOf(queue, S) + AmountOf(queue, R)
  <1> DEFINE f == [n \in S \cup R |-> queue[n].amount]
             fS == [n \in S |-> queue[n].amount]
             fR == [n \in R |-> queue[n].amount]
  <1>1. IsFiniteSet(S) /\ IsFiniteSet(R)
    BY AmountNat
  <1>2. \A n \in S \cup R : f[n] \in Nat
    BY DEF GoodQueue, IsStore, Withdraw
  <1>3. (\A n \in S : f[n] = fS[n]) /\ (\A n \in R : f[n] = fR[n])
    OBVIOUS
  <1> HIDE DEF f, fS, fR
  <1>4. SumFunctionOnSet(f, S \cup R) = SumFunctionOnSet(f, S) + SumFunctionOnSet(f, R)
    BY <1>1, <1>2, SumDisjoint
  <1>5. /\ SumFunctionOnSet(f, S) = SumFunctionOnSet(fS, S)
        /\ SumFunctionOnSet(f, R) = SumFunctionOnSet(fR, R)
    BY <1>1, <1>3, SumEqual
  <1>6. QED
    BY <1>4, <1>5 DEF AmountOf, SumOver, f, fS, fR

\* A part has no more than the whole.
LEMMA AmountPart ==
  ASSUME NEW queue, GoodQueue(queue), NEW S \in SUBSET DOMAIN queue, NEW R \in SUBSET S
  PROVE  /\ AmountOf(queue, S) = AmountOf(queue, R) + AmountOf(queue, S \ R)
         /\ AmountOf(queue, R) \in Nat /\ AmountOf(queue, S \ R) \in Nat
         /\ AmountOf(queue, R) <= AmountOf(queue, S)
  <1>1. S = R \cup (S \ R) /\ R \cap (S \ R) = {}
    OBVIOUS
  <1>2. R \in SUBSET DOMAIN queue /\ (S \ R) \in SUBSET DOMAIN queue
    OBVIOUS
  <1>3. AmountOf(queue, S) = AmountOf(queue, R) + AmountOf(queue, S \ R)
    BY <1>1, <1>2, AmountUnion
  <1>4. AmountOf(queue, R) \in Nat /\ AmountOf(queue, S \ R) \in Nat
    BY <1>2, AmountNat
  <1>5. QED
    BY <1>3, <1>4

\* The queue grows by withdraws of the account a that complete at a time.
Grows(queue, new, a, sum, time) ==
  /\ GoodQueue(new)
  /\ DOMAIN queue \subseteq DOMAIN new
  /\ \A n \in DOMAIN queue : new[n] = queue[n]
  /\ \A n \in DOMAIN new \ DOMAIN queue :
       new[n].address = a /\ new[n].completionTime = time
  /\ AmountOf(new, DOMAIN new \ DOMAIN queue) = sum

\* The queue grows by nothing.
LEMMA GrowsNot ==
  ASSUME NEW queue, GoodQueue(queue), NEW a, NEW time
  PROVE  Grows(queue, queue, a, 0, time)
  <1>1. DOMAIN queue \ DOMAIN queue = {}
    OBVIOUS
  <1>2. AmountOf(queue, {}) = 0
    BY SumEmpty DEF AmountOf, SumOver
  <1>3. QED
    BY <1>1, <1>2 DEF Grows

\* InsertWithdrawQueue adds one withdraw.
LEMMA GrowsByInsert ==
  ASSUME NEW queue, GoodQueue(queue), NEW w \in Withdraw
  PROVE  Grows(queue, InsertWithdrawQueue(queue, w), w.address, w.amount, w.completionTime)
  <1> DEFINE k == Max({0} \cup DOMAIN queue) + 1
             new == InsertWithdrawQueue(queue, w)
  <1>1. k \in Nat /\ k \notin DOMAIN queue
    BY FreshNumber DEF GoodQueue, IsStore
  <1>2. new = StoreSet(queue, k, w)
    BY DEF InsertWithdrawQueue
  <1> HIDE DEF k, new
  <1>3. /\ DOMAIN new = DOMAIN queue \cup {k} /\ new[k] = w
        /\ \A n \in DOMAIN queue : new[n] = queue[n]
    BY <1>1, <1>2 DEF StoreSet
  <1>4. GoodQueue(new)
    BY <1>1, <1>2, StoreType, StoreFinite, Zenon DEF GoodQueue
  <1>5. DOMAIN new \ DOMAIN queue = {k}
    BY <1>1, <1>3
  <1>6. AmountOf(new, {k}) = w.amount
    <2> DEFINE f == [n \in {k} |-> new[n].amount]
    <2>1. f[k] = w.amount /\ f[k] \in Nat
      BY <1>3 DEF Withdraw
    <2>2. \A x \in {} \cup {k} : f[x] \in Nat
      BY <2>1
    <2> HIDE DEF f
    <2>3. SumFunctionOnSet(f, {} \cup {k}) = f[k] + SumFunctionOnSet(f, {})
      BY <2>2, SumAdd, FS_EmptySet
    <2>4. SumFunctionOnSet(f, {k}) = w.amount
      <3>1. {} \cup {k} = {k}
        OBVIOUS
      <3>2. QED
        BY <2>1, <2>3, <3>1, SumEmpty
    <2>5. QED
      BY <2>4 DEF AmountOf, SumOver, f
  <1>7. QED
    BY <1>3, <1>4, <1>5, <1>6 DEF Grows, new

\* Growing twice is growing.
LEMMA GrowsGrows ==
  ASSUME NEW x, NEW y, NEW z, NEW a, NEW m \in Nat, NEW n \in Nat, NEW time,
         GoodQueue(x), Grows(x, y, a, m, time), Grows(y, z, a, n, time)
  PROVE  Grows(x, z, a, m + n, time)
  <1> DEFINE P == DOMAIN y \ DOMAIN x
             Q == DOMAIN z \ DOMAIN y
  <1>1. /\ DOMAIN z \ DOMAIN x = P \cup Q /\ P \cap Q = {}
        /\ P \in SUBSET DOMAIN z /\ Q \in SUBSET DOMAIN z
    BY DEF Grows
  <1>2. GoodQueue(y) /\ GoodQueue(z)
    BY DEF Grows
  <1>3. AmountOf(z, P \cup Q) = AmountOf(z, P) + AmountOf(z, Q)
    BY <1>1, <1>2, AmountUnion
  <1>4. AmountOf(z, P) = AmountOf(y, P)
    <2>1. IsFiniteSet(P) /\ \A i \in P : z[i] = y[i]
      BY <1>1, <1>2, AmountNat DEF Grows
    <2>2. QED
      BY <2>1, AmountEqual
  <1>5. AmountOf(z, DOMAIN z \ DOMAIN x) = m + n
    BY <1>1, <1>3, <1>4 DEF Grows
  <1>6. \A i \in DOMAIN z \ DOMAIN x : z[i].address = a /\ z[i].completionTime = time
    BY <1>1 DEF Grows
  <1>7. \A i \in DOMAIN x : z[i] = x[i]
    BY DEF Grows
  <1>8. QED
    BY <1>2, <1>5, <1>6, <1>7 DEF Grows

\* AddWithdraw adds the amount, if there is one.
LEMMA AddWithdrawGrows ==
  ASSUME NEW queue, GoodQueue(queue), NEW a \in Accounts, NEW amount \in Nat, now \in Nat
  PROVE  Grows(queue, AddWithdraw(queue, a, amount), a, amount, now + WithdrawPeriod)
  <1>1. CASE amount = 0
    BY <1>1, GrowsNot DEF AddWithdraw
  <1>2. CASE amount # 0
    <2> DEFINE w == NewWithdraw(a, amount)
    <2>1. /\ w \in Withdraw /\ w.address = a /\ w.amount = amount
          /\ w.completionTime = now + WithdrawPeriod
      BY ParamsAssumption DEF NewWithdraw, Withdraw
    <2>2. AddWithdraw(queue, a, amount) = InsertWithdrawQueue(queue, w)
      BY <1>2 DEF AddWithdraw
    <2> HIDE DEF w
    <2>3. Grows(queue, InsertWithdrawQueue(queue, w), w.address, w.amount, w.completionTime)
      BY <2>1, GrowsByInsert
    <2>4. QED
      BY <2>1, <2>2, <2>3
  <1>3. QED
    BY <1>1, <1>2

OfAddress(queue, a) == {n \in DOMAIN queue : queue[n].address = a}

DueBy(queue, t) == {n \in DOMAIN queue : queue[n].completionTime <= t}

\* What a queue that has grown holds: more for the account, the same for the others, and
\* the same until the new withdraws complete.
HoldsMore(queue, new, a, sum, time) ==
  /\ AmountOf(new, DOMAIN new) = AmountOf(queue, DOMAIN queue) + sum
  /\ AmountOf(new, OfAddress(new, a)) = AmountOf(queue, OfAddress(queue, a)) + sum
  /\ \A b : b # a => AmountOf(new, OfAddress(new, b)) = AmountOf(queue, OfAddress(queue, b))
  /\ \A t \in Nat : t < time => AmountOf(new, DueBy(new, t)) = AmountOf(queue, DueBy(queue, t))

\* A queue that grows holds more.
LEMMA GrowsAmounts ==
  ASSUME NEW queue, NEW new, NEW a, NEW sum \in Nat, NEW time \in Nat,
         GoodQueue(queue), Grows(queue, new, a, sum, time)
  PROVE  HoldsMore(queue, new, a, sum, time)
  <1> DEFINE Q == DOMAIN new \ DOMAIN queue
  <1>1. GoodQueue(new) /\ AmountOf(new, Q) = sum
    BY DEF Grows
  <1>2. ASSUME NEW S \in SUBSET DOMAIN queue
        PROVE  /\ AmountOf(new, S) = AmountOf(queue, S)
               /\ AmountOf(new, S \cup Q) = AmountOf(queue, S) + sum
    <2>1. IsFiniteSet(S) /\ \A n \in S : new[n] = queue[n]
      BY AmountNat DEF Grows
    <2>2. AmountOf(new, S) = AmountOf(queue, S)
      BY <2>1, AmountEqual
    <2>3. S \in SUBSET DOMAIN new /\ Q \in SUBSET DOMAIN new /\ S \cap Q = {}
      BY DEF Grows
    <2>4. AmountOf(new, S \cup Q) = AmountOf(new, S) + AmountOf(new, Q)
      BY <1>1, <2>3, AmountUnion
    <2>5. QED
      BY <1>1, <2>2, <2>4
  <1>3. DOMAIN new = DOMAIN queue \cup Q
    BY DEF Grows
  <1>4. OfAddress(new, a) = OfAddress(queue, a) \cup Q
    BY DEF OfAddress, Grows
  <1>5. \A b : b # a => OfAddress(new, b) = OfAddress(queue, b)
    BY DEF OfAddress, Grows
  <1>6. ASSUME NEW t \in Nat, t < time PROVE DueBy(new, t) = DueBy(queue, t)
    <2>1. \A n \in Q : new[n].completionTime = time
      BY DEF Grows
    <2>2. \A n \in Q : ~ (new[n].completionTime <= t)
      BY <1>6, <2>1
    <2>3. QED
      BY <1>3, <2>2 DEF DueBy, Grows
  <1> HIDE DEF Q
  <1>7. /\ OfAddress(queue, a) \in SUBSET DOMAIN queue
        /\ \A b : OfAddress(queue, b) \in SUBSET DOMAIN queue
        /\ \A t : DueBy(queue, t) \in SUBSET DOMAIN queue
        /\ DOMAIN queue \in SUBSET DOMAIN queue
    BY DEF OfAddress, DueBy
  <1>8. AmountOf(new, DOMAIN new) = AmountOf(queue, DOMAIN queue) + sum
    BY <1>2, <1>3, <1>7
  <1>9. AmountOf(new, OfAddress(new, a)) = AmountOf(queue, OfAddress(queue, a)) + sum
    BY <1>2, <1>4, <1>7
  <1>10. \A b : b # a => AmountOf(new, OfAddress(new, b)) = AmountOf(queue, OfAddress(queue, b))
    BY <1>2, <1>5, <1>7
  <1>11. \A t \in Nat : t < time => AmountOf(new, DueBy(new, t)) = AmountOf(queue, DueBy(queue, t))
    BY <1>2, <1>6, <1>7
  <1>12. QED
    BY <1>8, <1>9, <1>10, <1>11 DEF HoldsMore

-----------------------------------------------------------------------------
(* The providers.                                                          *)

\* A provider whose collateral covers its withdraws and is backed.
Sound(p) ==
  /\ p \in Provider
  /\ p.withdrawing \in Nat /\ p.withdrawing <= p.collateral
  /\ p.collateral - p.withdrawing <= p.bonded

GoodProviders(ps) ==
  IsStore(ps, Accounts, Provider) /\ \A a \in DOMAIN ps : Sound(ps[a])

TotalCollateral(ps) == SumOver([a \in DOMAIN ps |-> ps[a].collateral], DOMAIN ps)

TotalWithdrawing(ps) == SumOver([a \in DOMAIN ps |-> ps[a].withdrawing], DOMAIN ps)

TotalRewards(ps) == SumOver([a \in DOMAIN ps |-> ps[a].rewards], DOMAIN ps)

\* The amounts of a sound provider are natural numbers.
LEMMA SoundAmounts ==
  ASSUME NEW p, Sound(p)
  PROVE  /\ p.collateral \in Nat /\ p.withdrawing \in Nat /\ p.rewards \in Nat
         /\ p.bonded \in Int
  BY DEF Sound, Provider

\* There are finitely many providers, and their totals are natural numbers.
LEMMA TotalsNat ==
  ASSUME NEW ps, GoodProviders(ps)
  PROVE  /\ IsFiniteSet(DOMAIN ps)
         /\ TotalCollateral(ps) \in Nat /\ TotalWithdrawing(ps) \in Nat
         /\ TotalRewards(ps) \in Nat
  <1>1. IsFiniteSet(DOMAIN ps)
    BY AccountsAssumption, FS_Subset DEF GoodProviders, IsStore
  <1>2. \A a \in DOMAIN ps : /\ ps[a].collateral \in Nat /\ ps[a].withdrawing \in Nat
                             /\ ps[a].rewards \in Nat
    BY SoundAmounts DEF GoodProviders
  <1>3. TotalCollateral(ps) \in Nat
    BY <1>1, <1>2, SumNat DEF TotalCollateral, SumOver
  <1>4. TotalWithdrawing(ps) \in Nat
    BY <1>1, <1>2, SumNat DEF TotalWithdrawing, SumOver
  <1>5. TotalRewards(ps) \in Nat
    BY <1>1, <1>2, SumNat DEF TotalRewards, SumOver
  <1>6. QED
    BY <1>1, <1>3, <1>4, <1>5

\* The record of one provider, which may be new, is set to p; old is what it was, or a
\* provider of nothing.
IsProviderSet(ps, new, a, old, p) ==
  /\ a \in Accounts /\ new = StoreSet(ps, a, p)
  /\ Sound(p) /\ Sound(old)
  /\ a \in DOMAIN ps => old = ps[a]
  /\ a \notin DOMAIN ps => old.collateral = 0 /\ old.withdrawing = 0 /\ old.rewards = 0

\* What follows from it: how the totals change.
ProviderIsSet(ps, new, a, old, p) ==
  /\ GoodProviders(new)
  /\ DOMAIN new = DOMAIN ps \cup {a} /\ new[a] = p
  /\ \A b \in DOMAIN ps \ {a} : new[b] = ps[b]
  /\ TotalCollateral(new) + old.collateral = TotalCollateral(ps) + p.collateral
  /\ TotalWithdrawing(new) + old.withdrawing = TotalWithdrawing(ps) + p.withdrawing
  /\ TotalRewards(new) + old.rewards = TotalRewards(ps) + p.rewards

\* The totals change by the difference of the records.
LEMMA ProviderSetTotals ==
  ASSUME NEW ps, NEW new, NEW a, NEW old, NEW p, GoodProviders(ps),
         IsProviderSet(ps, new, a, old, p)
  PROVE  ProviderIsSet(ps, new, a, old, p)
  <1>1. /\ DOMAIN new = DOMAIN ps \cup {a} /\ new[a] = p
        /\ \A b \in DOMAIN ps \ {a} : new[b] = ps[b]
    BY DEF IsProviderSet, StoreSet
  <1>2. GoodProviders(new)
    <2>1. p \in Provider
      BY DEF IsProviderSet, Sound
    <2>2. IsStore(new, Accounts, Provider)
      BY <2>1, StoreType, Zenon DEF GoodProviders, IsProviderSet
    <2>3. \A b \in DOMAIN new : Sound(new[b])
      BY <1>1 DEF IsProviderSet, GoodProviders
    <2>4. QED
      BY <2>2, <2>3 DEF GoodProviders
  <1>3. IsFiniteSet(DOMAIN ps)
    BY TotalsNat
  <1>4. \A b \in DOMAIN ps : /\ ps[b].collateral \in Nat /\ ps[b].withdrawing \in Nat
                             /\ ps[b].rewards \in Nat
    BY SoundAmounts DEF GoodProviders
  <1>5. \A b \in DOMAIN new : /\ new[b].collateral \in Nat /\ new[b].withdrawing \in Nat
                              /\ new[b].rewards \in Nat
    BY <1>2, SoundAmounts DEF GoodProviders
  <1>6. old.collateral \in Nat /\ old.withdrawing \in Nat /\ old.rewards \in Nat
    BY SoundAmounts DEF IsProviderSet
  <1>7. TotalCollateral(new) + old.collateral = TotalCollateral(ps) + p.collateral
    <2> DEFINE f == [b \in DOMAIN ps |-> ps[b].collateral]
               g == [b \in DOMAIN new |-> new[b].collateral]
    <2>1. Writes(f, DOMAIN ps, g, DOMAIN new, a, old.collateral, p.collateral)
      BY <1>1, <1>4, <1>5, <1>6 DEF IsProviderSet, Writes
    <2> HIDE DEF f, g
    <2>2. SumFunctionOnSet(g, DOMAIN new) + old.collateral = SumFunctionOnSet(f, DOMAIN ps) + p.collateral
      BY <1>3, <2>1, SumWrite
    <2>3. QED
      BY <2>2 DEF TotalCollateral, SumOver, f, g
  <1>8. TotalWithdrawing(new) + old.withdrawing = TotalWithdrawing(ps) + p.withdrawing
    <2> DEFINE f == [b \in DOMAIN ps |-> ps[b].withdrawing]
               g == [b \in DOMAIN new |-> new[b].withdrawing]
    <2>1. Writes(f, DOMAIN ps, g, DOMAIN new, a, old.withdrawing, p.withdrawing)
      BY <1>1, <1>4, <1>5, <1>6 DEF IsProviderSet, Writes
    <2> HIDE DEF f, g
    <2>2. SumFunctionOnSet(g, DOMAIN new) + old.withdrawing = SumFunctionOnSet(f, DOMAIN ps) + p.withdrawing
      BY <1>3, <2>1, SumWrite
    <2>3. QED
      BY <2>2 DEF TotalWithdrawing, SumOver, f, g
  <1>9. TotalRewards(new) + old.rewards = TotalRewards(ps) + p.rewards
    <2> DEFINE f == [b \in DOMAIN ps |-> ps[b].rewards]
               g == [b \in DOMAIN new |-> new[b].rewards]
    <2>1. Writes(f, DOMAIN ps, g, DOMAIN new, a, old.rewards, p.rewards)
      BY <1>1, <1>4, <1>5, <1>6 DEF IsProviderSet, Writes
    <2> HIDE DEF f, g
    <2>2. SumFunctionOnSet(g, DOMAIN new) + old.rewards = SumFunctionOnSet(f, DOMAIN ps) + p.rewards
      BY <1>3, <2>1, SumWrite
    <2>3. QED
      BY <2>2 DEF TotalRewards, SumOver, f, g
  <1>10. QED
    BY <1>1, <1>2, <1>7, <1>8, <1>9 DEF ProviderIsSet

\* What a provider is withdrawing is what is queued for it.
Queued(ps, queue) ==
  /\ \A n \in DOMAIN queue : queue[n].address \in DOMAIN ps
  /\ \A a \in DOMAIN ps : ps[a].withdrawing = AmountOf(queue, OfAddress(queue, a))

ProviderInv ==
  /\ GoodProviders(providers) /\ GoodQueue(withdraws)
  /\ Queued(providers, withdraws)
  /\ delegated \in [Accounts -> Nat]
  /\ \A a \in DOMAIN providers : delegated[a] <= providers[a].bonded
  /\ totalCollateral = TotalCollateral(providers)
  /\ totalWithdrawing = TotalWithdrawing(providers)
  /\ totalWithdrawing = AmountOf(withdraws, DOMAIN withdraws)

\* A step that leaves the rewards and what completes within WithdrawPeriod alone, and takes
\* no collateral.
Spares ==
  /\ TotalRewards(providers') = TotalRewards(providers)
  /\ totalCollateral <= totalCollateral'
  /\ \A t \in Nat : t < now + WithdrawPeriod =>
       AmountOf(withdraws', DueBy(withdraws', t)) = AmountOf(withdraws, DueBy(withdraws, t))

\* The provider a withdraws amount and then more: its record, which has become p before,
\* and the queue grow by the sum.
LEMMA WithdrawFromEffect ==
  ASSUME ProviderInv, now \in Nat, NEW a \in DOMAIN providers, NEW amount \in Nat,
         NEW more \in Nat, NEW staked \in Int,
         NEW p, p = [providers[a] EXCEPT !.bonded = staked],
         providers[a].collateral - providers[a].withdrawing - (amount + more) <= staked,
         amount + more <= providers[a].collateral - providers[a].withdrawing,
         WithdrawFrom(a, p, amount, more)
  PROVE  /\ GoodProviders(providers') /\ GoodQueue(withdraws')
         /\ Queued(providers', withdraws')
         /\ DOMAIN providers' = DOMAIN providers /\ providers'[a].bonded = staked
         /\ \A b \in DOMAIN providers \ {a} : providers'[b] = providers[b]
         /\ TotalCollateral(providers') = TotalCollateral(providers)
         /\ TotalRewards(providers') = TotalRewards(providers)
         /\ totalWithdrawing' = TotalWithdrawing(providers')
         /\ totalWithdrawing' = AmountOf(withdraws', DOMAIN withdraws')
         /\ Grows(withdraws, withdraws', a, amount + more, now + WithdrawPeriod)
  <1> DEFINE old == providers[a]
             sum == amount + more
             new == [p EXCEPT !.withdrawing = p.withdrawing + sum]
             time == now + WithdrawPeriod
  <1>1. /\ a \in Accounts /\ Sound(old) /\ GoodQueue(withdraws) /\ GoodProviders(providers)
    BY DEF ProviderInv, GoodProviders, IsStore
  <1>2. /\ old.collateral \in Nat /\ old.withdrawing \in Nat /\ old.rewards \in Nat
        /\ old \in Provider /\ sum \in Nat /\ time \in Nat
    BY <1>1, SoundAmounts, ParamsAssumption DEF Sound
  <1>3. /\ new \in Provider /\ new.withdrawing = old.withdrawing + sum
        /\ new.collateral = old.collateral /\ new.rewards = old.rewards /\ new.bonded = staked
    <2>1. PICK w \in Int : w = old.withdrawing + sum
      BY <1>2
    <2>2. p.withdrawing = old.withdrawing
      BY <1>2 DEF Provider
    <2>3. new = [[old EXCEPT !.bonded = staked] EXCEPT !.withdrawing = w]
      BY <2>1, <2>2
    <2> HIDE DEF new, old, sum
    <2>4. QED
      BY <1>2, <2>1, <2>3 DEF Provider
  <1>4. Sound(new)
    BY <1>2, <1>3 DEF Sound
  <1>5. IsProviderSet(providers, providers', a, old, new)
    BY <1>1, <1>4 DEF WithdrawFrom, IsProviderSet
  <1> HIDE DEF new, old
  <1>6. /\ GoodProviders(providers')
        /\ DOMAIN providers' = DOMAIN providers \cup {a} /\ providers'[a] = new
        /\ \A b \in DOMAIN providers \ {a} : providers'[b] = providers[b]
        /\ TotalCollateral(providers') + old.collateral = TotalCollateral(providers) + new.collateral
        /\ TotalWithdrawing(providers') + old.withdrawing = TotalWithdrawing(providers) + new.withdrawing
        /\ TotalRewards(providers') + old.rewards = TotalRewards(providers) + new.rewards
    <2>1. ProviderIsSet(providers, providers', a, old, new)
      BY <1>1, <1>5, ProviderSetTotals
    <2>2. QED
      BY <2>1 DEF ProviderIsSet
  <1>7. DOMAIN providers' = DOMAIN providers
    BY <1>6
  <1>8. Grows(withdraws, withdraws', a, sum, time)
    <2> DEFINE q == AddWithdraw(withdraws, a, amount)
    <2>1. Grows(withdraws, q, a, amount, time)
      BY <1>1, AddWithdrawGrows
    <2>2. GoodQueue(q)
      BY <2>1 DEF Grows
    <2>3. withdraws' = AddWithdraw(q, a, more)
      BY DEF WithdrawFrom
    <2> HIDE DEF q
    <2>4. Grows(q, withdraws', a, more, time)
      BY <1>1, <2>2, <2>3, AddWithdrawGrows
    <2>5. QED
      BY <1>1, <2>1, <2>4, GrowsGrows
  <1> HIDE DEF time
  <1>9. /\ AmountOf(withdraws', DOMAIN withdraws') = AmountOf(withdraws, DOMAIN withdraws) + sum
        /\ AmountOf(withdraws', OfAddress(withdraws', a)) = AmountOf(withdraws, OfAddress(withdraws, a)) + sum
        /\ \A b : b # a =>
             AmountOf(withdraws', OfAddress(withdraws', b)) = AmountOf(withdraws, OfAddress(withdraws, b))
    <2> HIDE DEF sum
    <2>1. HoldsMore(withdraws, withdraws', a, sum, time)
      BY <1>1, <1>2, <1>8, GrowsAmounts
    <2>2. QED
      BY <2>1 DEF HoldsMore
  <1>10. totalWithdrawing' = totalWithdrawing + sum
    <2>1. \A q : WithdrawFrom(a, q, amount, more) => totalWithdrawing' = totalWithdrawing + (amount + more)
      BY DEF WithdrawFrom
    <2>2. QED
      BY <2>1
  <1> HIDE DEF sum
  <1>11. Queued(providers', withdraws')
    <2>1. \A n \in DOMAIN withdraws' : withdraws'[n].address \in DOMAIN providers'
      BY <1>7, <1>8 DEF ProviderInv, Queued, Grows
    <2>2. providers'[a].withdrawing = AmountOf(withdraws', OfAddress(withdraws', a))
      BY <1>2, <1>3, <1>6, <1>9 DEF ProviderInv, Queued, old
    <2>3. \A b \in DOMAIN providers \ {a} :
            providers'[b].withdrawing = AmountOf(withdraws', OfAddress(withdraws', b))
      BY <1>6, <1>9 DEF ProviderInv, Queued
    <2>4. QED
      BY <1>7, <2>1, <2>2, <2>3 DEF Queued
  <1>12. /\ TotalCollateral(providers) \in Nat /\ TotalWithdrawing(providers) \in Nat
         /\ TotalRewards(providers) \in Nat
         /\ TotalCollateral(providers') \in Nat /\ TotalWithdrawing(providers') \in Nat
         /\ TotalRewards(providers') \in Nat
    BY <1>1, <1>6, TotalsNat
  <1>13. TotalCollateral(providers') = TotalCollateral(providers)
    BY <1>2, <1>3, <1>6, <1>12
  <1>14. TotalRewards(providers') = TotalRewards(providers)
    <2>1. PICK r \in Nat : r = old.rewards /\ r = new.rewards
      BY <1>2, <1>3
    <2>2. TotalRewards(providers') + r = TotalRewards(providers) + r
      BY <1>6, <2>1
    <2>3. QED
      BY <1>12, <2>2
  <1>15. totalWithdrawing' = TotalWithdrawing(providers')
    BY <1>2, <1>3, <1>6, <1>10, <1>12 DEF ProviderInv
  <1>16. totalWithdrawing' = AmountOf(withdraws', DOMAIN withdraws')
    BY <1>9, <1>10 DEF ProviderInv
  <1>17. providers'[a].bonded = staked
    BY <1>3, <1>6
  <1>18. GoodQueue(withdraws')
    BY <1>8 DEF Grows
  <1>19. QED
    BY <1>6, <1>7, <1>8, <1>11, <1>13, <1>14, <1>15, <1>16, <1>17, <1>18 DEF sum, time

-----------------------------------------------------------------------------
(* ProviderInv is kept by the messages.                                    *)

\* Nothing changes but delegations, which are not more on record than before.
LEMMA ProviderFrame ==
  ASSUME ProviderInv, delegated' \in [Accounts -> Nat],
         UNCHANGED <<providers, withdraws, totalCollateral, totalWithdrawing, totalClaimed>>,
         \A a \in DOMAIN providers : delegated'[a] <= delegated[a]
  PROVE  ProviderInv' /\ Spares
  <1>1. \A a \in DOMAIN providers :
          delegated[a] \in Nat /\ delegated'[a] \in Nat /\ providers[a].bonded \in Int
    BY SoundAmounts DEF ProviderInv, GoodProviders, IsStore
  <1>2. \A a \in DOMAIN providers' : delegated'[a] <= providers'[a].bonded
    BY <1>1 DEF ProviderInv
  <1>3. totalCollateral <= totalCollateral'
    BY TotalsNat DEF ProviderInv
  <1>4. QED
    BY <1>2, <1>3 DEF ProviderInv, Spares

\* A provider withdraws, at a message or at a change of its delegation.
LEMMA WithdrawFromKeeps ==
  ASSUME ProviderInv, now \in Nat, NEW a \in DOMAIN providers, NEW amount \in Nat,
         NEW more \in Nat, NEW staked \in Int,
         NEW p, p = [providers[a] EXCEPT !.bonded = staked],
         providers[a].collateral - providers[a].withdrawing - (amount + more) <= staked,
         WithdrawFrom(a, p, amount, more), UNCHANGED <<totalCollateral, totalClaimed>>,
         delegated' \in [Accounts -> Nat], delegated'[a] <= staked,
         \A b \in DOMAIN providers \ {a} : delegated'[b] = delegated[b]
  PROVE  ProviderInv' /\ Spares
  <1>1. Sound(providers[a])
    BY DEF ProviderInv, GoodProviders
  <1>2. amount + more <= providers[a].collateral - providers[a].withdrawing
    <2>1. /\ providers[a].collateral \in Nat /\ providers[a].withdrawing \in Nat
          /\ providers[a].withdrawing <= providers[a].collateral /\ providers[a] \in Provider
      BY <1>1, SoundAmounts DEF Sound
    <2>2. p.collateral = providers[a].collateral /\ p.withdrawing = providers[a].withdrawing
      BY <2>1 DEF Provider
    <2>3. amount + more > 0 => amount + more <= p.collateral - p.withdrawing
      BY DEF WithdrawFrom
    <2>4. QED
      BY <2>1, <2>2, <2>3
  <1>3. /\ GoodProviders(providers') /\ GoodQueue(withdraws')
        /\ Queued(providers', withdraws')
        /\ DOMAIN providers' = DOMAIN providers /\ providers'[a].bonded = staked
        /\ \A b \in DOMAIN providers \ {a} : providers'[b] = providers[b]
        /\ TotalCollateral(providers') = TotalCollateral(providers)
        /\ totalWithdrawing' = TotalWithdrawing(providers')
        /\ totalWithdrawing' = AmountOf(withdraws', DOMAIN withdraws')
        /\ TotalRewards(providers') = TotalRewards(providers)
        /\ Grows(withdraws, withdraws', a, amount + more, now + WithdrawPeriod)
    BY <1>2, WithdrawFromEffect
  <1>4. \A b \in DOMAIN providers' : delegated'[b] <= providers'[b].bonded
    BY <1>3 DEF ProviderInv
  <1>5. ProviderInv'
    BY <1>3, <1>4 DEF ProviderInv
  <1>6. \A t \in Nat : t < now + WithdrawPeriod =>
          AmountOf(withdraws', DueBy(withdraws', t)) = AmountOf(withdraws, DueBy(withdraws, t))
    <2>1. PICK sum \in Nat, time \in Nat : sum = amount + more /\ time = now + WithdrawPeriod
      BY ParamsAssumption
    <2>2. Grows(withdraws, withdraws', a, sum, time) /\ GoodQueue(withdraws)
      BY <1>3, <2>1 DEF ProviderInv
    <2>3. HoldsMore(withdraws, withdraws', a, sum, time)
      BY <2>2, GrowsAmounts
    <2>4. QED
      BY <2>1, <2>3 DEF HoldsMore
  <1>7. totalCollateral <= totalCollateral'
    BY TotalsNat DEF ProviderInv
  <1>8. QED
    BY <1>3, <1>5, <1>6, <1>7 DEF Spares

\* The collateral that the hooks withdraw is that which is no longer backed.
LEMMA UnbackedAmount ==
  ASSUME NEW p, p.collateral \in Int, p.withdrawing \in Int, NEW staked \in Int
  PROVE  /\ Unbacked(p, staked) \in Nat
         /\ p.collateral - p.withdrawing - Unbacked(p, staked) <= staked
  BY DEF Unbacked, MaxInt

\* DepositCollateral
LEMMA DepositKeeps ==
  ASSUME ProviderInv, NEW a \in Accounts, NEW amount \in Nat, DepositCollateral(a, amount)
  PROVE  ProviderInv' /\ Spares
  <1> DEFINE p == GetOrAddProvider(a)
             c == p.collateral
             new == [p EXCEPT !.collateral = c + amount]
  <1>1. /\ GoodProviders(providers) /\ delegated \in [Accounts -> Nat]
        /\ delegated[a] \in Nat
    BY DEF ProviderInv
  <1>2. /\ Sound(p) /\ delegated[a] <= p.bonded
        /\ a \in DOMAIN providers => p = providers[a]
        /\ a \notin DOMAIN providers => p.collateral = 0 /\ p.withdrawing = 0 /\ p.rewards = 0
    <2>1. CASE a \in DOMAIN providers
      BY <2>1 DEF ProviderInv, GoodProviders, GetOrAddProvider
    <2>2. CASE a \notin DOMAIN providers
      <3>1. p = [bonded |-> delegated[a], collateral |-> 0, withdrawing |-> 0, rewards |-> 0]
        BY <2>2 DEF GetOrAddProvider, NewProvider
      <3>2. QED
        BY <1>1, <2>2, <3>1 DEF Sound, Provider
    <2>3. QED
      BY <2>1, <2>2
  <1>3. /\ p.collateral \in Nat /\ p.withdrawing \in Nat /\ p.rewards \in Nat
        /\ p \in Provider /\ p.withdrawing <= p.collateral /\ p.bonded \in Int
    BY <1>2, SoundAmounts DEF Sound
  <1>4. /\ p.bonded >= p.collateral + amount - p.withdrawing
        /\ providers' = StoreSet(providers, a, new)
        /\ totalCollateral' = totalCollateral + amount
        /\ UNCHANGED <<withdraws, totalWithdrawing, totalClaimed, delegated>>
    BY DEF DepositCollateral, stakingVars
  <1> HIDE DEF p
  <1>5. PICK k \in Nat : k = c + amount
    BY <1>3
  <1>6. /\ new \in Provider /\ new.collateral = k /\ new.withdrawing = p.withdrawing
        /\ new.bonded = p.bonded /\ new.rewards = p.rewards
    BY <1>3, <1>5 DEF Provider
  <1> HIDE DEF new, c
  <1>7. Sound(new)
    <2>1. k = p.collateral + amount
      BY <1>5 DEF c
    <2>2. QED
      BY <1>3, <1>4, <1>6, <2>1 DEF Sound
  <1>8. IsProviderSet(providers, providers', a, p, new)
    BY <1>2, <1>4, <1>7 DEF IsProviderSet
  <1>9. ProviderIsSet(providers, providers', a, p, new)
    BY <1>1, <1>8, ProviderSetTotals
  <1>10. /\ GoodProviders(providers')
         /\ DOMAIN providers' = DOMAIN providers \cup {a} /\ providers'[a] = new
         /\ \A b \in DOMAIN providers \ {a} : providers'[b] = providers[b]
         /\ TotalCollateral(providers') + p.collateral = TotalCollateral(providers) + new.collateral
         /\ TotalWithdrawing(providers') + p.withdrawing = TotalWithdrawing(providers) + new.withdrawing
         /\ TotalRewards(providers') + p.rewards = TotalRewards(providers) + new.rewards
    BY <1>9 DEF ProviderIsSet
  <1>11. /\ TotalCollateral(providers) \in Nat /\ TotalWithdrawing(providers) \in Nat
         /\ TotalCollateral(providers') \in Nat /\ TotalWithdrawing(providers') \in Nat
         /\ TotalRewards(providers) \in Nat /\ TotalRewards(providers') \in Nat
    BY <1>1, <1>10, TotalsNat
  <1>12. TotalCollateral(providers') = TotalCollateral(providers) + amount
    BY <1>3, <1>5, <1>6, <1>10, <1>11 DEF c
  <1>13. TotalWithdrawing(providers') = TotalWithdrawing(providers)
    BY <1>3, <1>6, <1>10, <1>11
  <1>14. Queued(providers', withdraws')
    <2>1. \A n \in DOMAIN withdraws : withdraws[n].address \in DOMAIN providers'
      BY <1>10 DEF ProviderInv, Queued
    <2>2. \A b \in DOMAIN providers \ {a} :
            providers'[b].withdrawing = AmountOf(withdraws, OfAddress(withdraws, b))
      BY <1>10 DEF ProviderInv, Queued
    <2>3. providers'[a].withdrawing = AmountOf(withdraws, OfAddress(withdraws, a))
      <3>1. CASE a \in DOMAIN providers
        BY <1>2, <1>6, <1>10, <3>1 DEF ProviderInv, Queued
      <3>2. CASE a \notin DOMAIN providers
        <4>1. OfAddress(withdraws, a) = {}
          BY <3>2 DEF OfAddress, ProviderInv, Queued
        <4>2. AmountOf(withdraws, {}) = 0
          BY SumEmpty DEF AmountOf, SumOver
        <4>3. QED
          BY <1>2, <1>6, <1>10, <3>2, <4>1, <4>2
      <3>3. QED
        BY <3>1, <3>2
    <2>4. QED
      BY <1>4, <1>10, <2>1, <2>2, <2>3 DEF Queued
  <1>15. \A b \in DOMAIN providers' : delegated'[b] <= providers'[b].bonded
    BY <1>2, <1>4, <1>6, <1>10 DEF ProviderInv
  <1>16. ProviderInv'
    BY <1>1, <1>4, <1>10, <1>12, <1>13, <1>14, <1>15 DEF ProviderInv
  <1>17. TotalRewards(providers') = TotalRewards(providers)
    <2>1. PICK r \in Nat : r = p.rewards /\ r = new.rewards
      BY <1>3, <1>6
    <2>2. PICK x \in Nat, y \in Nat : x = TotalRewards(providers) /\ y = TotalRewards(providers')
      BY <1>11
    <2>3. y + r = x + r
      BY <1>10, <2>1, <2>2
    <2>4. QED
      BY <2>2, <2>3
  <1>18. totalCollateral <= totalCollateral'
    BY <1>4, <1>11 DEF ProviderInv
  <1>19. QED
    BY <1>4, <1>16, <1>17, <1>18 DEF Spares

\* WithdrawCollateral
LEMMA WithdrawKeeps ==
  ASSUME ProviderInv, now \in Nat, NEW a, NEW amount \in Nat, WithdrawCollateral(a, amount)
  PROVE  ProviderInv' /\ Spares
  <1>1. /\ a \in DOMAIN providers /\ WithdrawFrom(a, providers[a], amount, 0)
        /\ UNCHANGED <<totalCollateral, totalClaimed, delegated>>
    BY DEF WithdrawCollateral, stakingVars
  <1>2. Sound(providers[a]) /\ delegated[a] <= providers[a].bonded
    BY <1>1 DEF ProviderInv, GoodProviders
  <1>3. PICK b \in Int : b = providers[a].bonded
    BY <1>2, SoundAmounts
  <1>4. providers[a] = [providers[a] EXCEPT !.bonded = b]
    BY <1>2, <1>3 DEF Sound, Provider
  <1>5. providers[a].collateral - providers[a].withdrawing - (amount + 0) <= b
    BY <1>2, <1>3, SoundAmounts DEF Sound
  <1>6. QED
    BY <1>1, <1>2, <1>3, <1>4, <1>5, WithdrawFromKeeps DEF ProviderInv

\* The hook of a change of the delegation of a provider.
LEMMA HookKeeps ==
  ASSUME ProviderInv, now \in Nat, NEW a \in DOMAIN providers, NEW staked \in Int,
         UpdateProviderForDelegationChanges(a, staked),
         UNCHANGED <<totalCollateral, totalClaimed>>,
         delegated' \in [Accounts -> Nat], delegated'[a] <= staked,
         \A b \in DOMAIN providers \ {a} : delegated'[b] = delegated[b]
  PROVE  ProviderInv' /\ Spares
  <1> DEFINE u == Unbacked(providers[a], staked)
             p == [providers[a] EXCEPT !.bonded = staked]
  <1>1. Sound(providers[a])
    BY DEF ProviderInv, GoodProviders
  <1>2. providers[a].collateral \in Nat /\ providers[a].withdrawing \in Nat
    BY <1>1, SoundAmounts
  <1>3. u \in Nat /\ providers[a].collateral - providers[a].withdrawing - u <= staked
    BY <1>2, UnbackedAmount
  <1>4. WithdrawFrom(a, p, u, 0)
    BY DEF UpdateProviderForDelegationChanges
  <1> HIDE DEF u, p
  <1>5. providers[a].collateral - providers[a].withdrawing - (u + 0) <= staked
    BY <1>3
  <1>6. p = [providers[a] EXCEPT !.bonded = staked]
    BY DEF p
  <1>7. QED
    BY <1>3, <1>4, <1>5, <1>6, WithdrawFromKeeps

\* What is left of the amount on record covers what is left of the delegation.
LEMMA StakedWithoutAmount ==
  ASSUME ProviderInv, NEW a \in DOMAIN providers, NEW amount \in Nat,
         NEW removed \in BOOLEAN
  PROVE  /\ StakedWithout(a, amount, removed) \in Int
         /\ delegated[a] - amount <= StakedWithout(a, amount, removed)
  <1>1. delegated[a] \in Nat /\ providers[a].bonded \in Int /\ delegated[a] <= providers[a].bonded
    BY SoundAmounts DEF ProviderInv, GoodProviders, IsStore
  <1>2. QED
    BY <1>1 DEF StakedWithout

\* Delegate
LEMMA DelegateKeeps ==
  ASSUME ProviderInv, now \in Nat, NEW a \in Accounts, NEW amount \in Nat, Delegate(a, amount)
  PROVE  ProviderInv' /\ Spares
  <1>1. /\ delegated \in [Accounts -> Nat]
        /\ delegated' = [delegated EXCEPT ![a] = delegated[a] + amount]
        /\ UNCHANGED <<totalCollateral, totalClaimed>>
    BY DEF ProviderInv, Delegate
  <1>2. PICK d \in Nat : d = delegated[a] + amount
    BY <1>1
  <1>3. delegated' \in [Accounts -> Nat] /\ delegated'[a] = d
        /\ \A b \in Accounts \ {a} : delegated'[b] = delegated[b]
    BY <1>1, <1>2
  <1>4. \A b \in DOMAIN providers \ {a} : delegated'[b] = delegated[b]
    BY <1>3 DEF ProviderInv, GoodProviders, IsStore
  <1>5. CASE a \in DOMAIN providers
    <2>1. UpdateProviderForDelegationChanges(a, d)
      BY <1>2, <1>5 DEF Delegate
    <2>2. QED
      BY <1>1, <1>2, <1>3, <1>4, <1>5, <2>1, HookKeeps
  <1>6. CASE a \notin DOMAIN providers
    <2>1. UNCHANGED <<providers, withdraws, totalWithdrawing>>
      BY <1>6 DEF Delegate
    <2>2. \A b \in DOMAIN providers : delegated'[b] <= delegated[b]
      <3>1. \A b \in DOMAIN providers : delegated[b] \in Nat
        BY <1>1 DEF ProviderInv, GoodProviders, IsStore
      <3>2. QED
        BY <1>4, <1>6, <3>1
    <2>3. QED
      BY <1>1, <1>3, <2>1, <2>2, ProviderFrame
  <1>7. QED
    BY <1>5, <1>6

\* Undelegate
LEMMA UndelegateKeeps ==
  ASSUME ProviderInv, now \in Nat, NEW a \in Accounts, NEW amount \in Nat,
         NEW removed \in BOOLEAN, Undelegate(a, amount, removed)
  PROVE  ProviderInv' /\ Spares
  <1>1. /\ delegated \in [Accounts -> Nat] /\ amount <= delegated[a]
        /\ delegated' = [delegated EXCEPT ![a] = delegated[a] - amount]
        /\ UNCHANGED <<totalCollateral, totalClaimed>>
    BY DEF ProviderInv, Undelegate
  <1>2. PICK d \in Nat : d = delegated[a] - amount
    BY <1>1
  <1>3. delegated' \in [Accounts -> Nat] /\ delegated'[a] = d
        /\ \A b \in Accounts \ {a} : delegated'[b] = delegated[b]
    BY <1>1, <1>2
  <1>4. \A b \in DOMAIN providers \ {a} : delegated'[b] = delegated[b]
    BY <1>3 DEF ProviderInv, GoodProviders, IsStore
  <1>5. CASE a \in DOMAIN providers
    <2>1. PICK s \in Int : s = StakedWithout(a, amount, removed) /\ d <= s
      BY <1>2, <1>5, StakedWithoutAmount
    <2>2. UpdateProviderForDelegationChanges(a, s)
      BY <1>5, <2>1 DEF Undelegate
    <2>3. QED
      BY <1>1, <1>3, <1>4, <1>5, <2>1, <2>2, HookKeeps
  <1>6. CASE a \notin DOMAIN providers
    <2>1. UNCHANGED <<providers, withdraws, totalWithdrawing>>
      BY <1>6 DEF Undelegate
    <2>2. \A b \in DOMAIN providers : delegated'[b] <= delegated[b]
      <3>1. \A b \in DOMAIN providers : delegated[b] \in Nat
        BY <1>1 DEF ProviderInv, GoodProviders, IsStore
      <3>2. QED
        BY <1>4, <1>6, <3>1
    <2>3. QED
      BY <1>1, <1>3, <2>1, <2>2, ProviderFrame
  <1>7. QED
    BY <1>5, <1>6

\* Redelegate
LEMMA RedelegateKeeps ==
  ASSUME ProviderInv, now \in Nat, NEW a \in Accounts, NEW amount \in Nat,
         NEW removed \in BOOLEAN, Redelegate(a, amount, removed)
  PROVE  ProviderInv' /\ Spares
  <1> DEFINE q == providers[a]
             first == Unbacked(q, StakedWithout(a, amount, removed))
             r == [q EXCEPT !.withdrawing = q.withdrawing + first]
             second == Unbacked(r, delegated[a])
             p == [q EXCEPT !.bonded = delegated[a]]
  <1>1. /\ a \in DOMAIN providers /\ WithdrawFrom(a, p, first, second)
        /\ UNCHANGED <<totalCollateral, totalClaimed, delegated>>
    BY DEF Redelegate, stakingVars
  <1>2. Sound(q) /\ delegated \in [Accounts -> Nat] /\ delegated[a] \in Nat
    BY <1>1 DEF ProviderInv, GoodProviders
  <1>3. q.collateral \in Nat /\ q.withdrawing \in Nat /\ q \in Provider
    BY <1>2, SoundAmounts DEF Sound
  <1>4. first \in Nat
    BY <1>1, <1>3, StakedWithoutAmount, UnbackedAmount
  <1>5. r.collateral = q.collateral /\ r.withdrawing = q.withdrawing + first
    BY <1>3, <1>4 DEF Provider
  <1> HIDE DEF first, r
  <1>6. second \in Nat /\ r.collateral - r.withdrawing - second <= delegated[a]
    <2>1. r.collateral \in Int /\ r.withdrawing \in Int
      BY <1>3, <1>4, <1>5
    <2>2. QED
      BY <1>2, <2>1, UnbackedAmount
  <1> HIDE DEF second
  <1>7. q.collateral - q.withdrawing - (first + second) <= delegated[a]
    BY <1>2, <1>3, <1>4, <1>5, <1>6
  <1>8. PICK d \in Int : d = delegated[a]
    BY <1>2
  <1>9. p = [providers[a] EXCEPT !.bonded = d] /\ delegated'[a] <= d
    BY <1>1, <1>2, <1>8
  <1> HIDE DEF p
  <1>10. providers[a].collateral - providers[a].withdrawing - (first + second) <= d
    BY <1>7, <1>8
  <1>11. QED
    BY <1>1, <1>2, <1>4, <1>6, <1>8, <1>9, <1>10, WithdrawFromKeeps

\* Slash
LEMMA SlashKeeps ==
  ASSUME ProviderInv, NEW a \in Accounts, NEW amount \in Nat, Slash(a, amount)
  PROVE  ProviderInv' /\ Spares
  <1>1. /\ delegated \in [Accounts -> Nat] /\ amount <= delegated[a]
        /\ delegated' = [delegated EXCEPT ![a] = delegated[a] - amount]
        /\ UNCHANGED <<providers, withdraws, totalCollateral, totalWithdrawing, totalClaimed>>
    BY DEF ProviderInv, Slash, providerVars
  <1>2. PICK d \in Nat : d = delegated[a] - amount /\ d <= delegated[a]
    BY <1>1
  <1>3. /\ delegated' \in [Accounts -> Nat] /\ \A b \in Accounts : delegated'[b] <= delegated[b]
    BY <1>1, <1>2
  <1>4. QED
    BY <1>1, <1>3, ProviderFrame DEF ProviderInv, GoodProviders, IsStore

-----------------------------------------------------------------------------
(* The fees of a block.                                                    *)

BookInv ==
  /\ now \in Nat /\ phase \in {"deliver", "staking", "gov", "halted"}
  /\ IsStore(pools, Nat, Pool) /\ IsFiniteSet(DOMAIN pools)
  /\ nextPoolID \in Nat /\ \A id \in DOMAIN pools : id < nextPoolID
  /\ IsStore(purchases, Nat, Purchase) /\ IsFiniteSet(DOMAIN purchases)
  /\ nextPurchaseID \in Nat /\ \A id \in DOMAIN purchases : id < nextPurchaseID
  /\ \A id \in DOMAIN purchases :
       /\ purchases[id].shield \in Nat
       /\ purchases[id].protectionEnd <= purchases[id].deletion
       /\ purchases[id].protectionEnd <= now + ProtectionPeriod
  /\ totalShield \in Int
  /\ serviceFees \in Nat /\ remainingServiceFees \in Nat /\ blockServiceFees \in Nat
  /\ lastUpdateTime \in Nat /\ lastUpdateTime <= now

\* The fields of a purchase.
LEMMA PurchaseAmounts ==
  ASSUME BookInv, NEW id \in DOMAIN purchases
  PROVE  /\ purchases[id] \in Purchase
         /\ purchases[id].fees \in Nat
         /\ purchases[id].shield \in Nat
         /\ purchases[id].protectionEnd \in Nat /\ purchases[id].deletion \in Nat
         /\ purchases[id].pool \in Nat
  BY DEF BookInv, IsStore, Purchase

\* The smaller of two natural numbers.
LEMMA MinIntNat ==
  ASSUME NEW m \in Nat, NEW n \in Nat
  PROVE  MinInt(m, n) \in Nat /\ MinInt(m, n) <= m /\ MinInt(m, n) <= n
  BY DEF MinInt

\* What a purchase owes for the end of its protection is not negative.
LEMMA LastFeesNat ==
  ASSUME BookInv, NEW id \in Charged
  PROVE  LastFees(id) \in Nat
  <1>1. id \in DOMAIN purchases /\ purchases[id].protectionEnd > lastUpdateTime
    BY DEF Charged, Expired
  <1>2. PICK left \in Nat : left = purchases[id].protectionEnd - lastUpdateTime
    BY <1>1, PurchaseAmounts DEF BookInv
  <1>3. PICK d \in Nat : d = Dec(left)
    BY DecNat
  <1>4. PICK p \in Nat : p = Dec(ProtectionPeriod) /\ p > 0
    BY ParamsAssumption, PrecisionAssumption DEF Dec
  <1>5. QuoDec(d, p) \in Nat
    BY <1>4, QuoDecNat
  <1>6. PICK q \in Nat : q = QuoDec(d, p)
    BY <1>5
  <1>7. PICK f \in Nat : f = purchases[id].fees
    BY <1>1, PurchaseAmounts
  <1>8. MulDec(f, q) \in Nat
    BY MulDecNat
  <1>9. LastFees(id) = MulDec(f, q)
    BY <1>2, <1>3, <1>4, <1>6, <1>7 DEF LastFees
  <1>10. QED
    BY <1>8, <1>9

\* There are finitely many purchases to charge, and what they owe is not negative.
LEMMA ChargedFeesNat ==
  ASSUME BookInv
  PROVE  /\ IsFiniteSet(Charged) /\ Charged \subseteq DOMAIN purchases
         /\ ChargedFees \in Nat
         /\ SumOver([id \in Charged |-> LastFees(id)], Charged) \in Nat
  <1>1. Charged \subseteq DOMAIN purchases
    BY DEF Charged, Expired
  <1>2. IsFiniteSet(Charged)
    BY <1>1, FS_Subset DEF BookInv
  <1>3. \A id \in Charged : purchases[id].fees \in Nat
    BY <1>1, PurchaseAmounts
  <1>4. ChargedFees \in Nat
    BY <1>2, <1>3, SumNat DEF ChargedFees, SumOver
  <1>5. \A id \in Charged : LastFees(id) \in Nat
    BY LastFeesNat
  <1>6. SumOver([id \in Charged |-> LastFees(id)], Charged) \in Nat
    BY <1>2, <1>5, SumNat DEF SumOver
  <1>7. QED
    BY <1>1, <1>2, <1>4, <1>6

\* The fees to share out are not negative.
LEMMA BlockFeesNat ==
  ASSUME BookInv, ~ EndBlockerPanics
  PROVE  ServiceFeesLeft \in Nat /\ BlockFees \in Nat
  <1>1. ServiceFeesLeft \in Nat
    <2>1. serviceFees \in Nat /\ ChargedFees \in Nat /\ ~ (ServiceFeesLeft < 0)
      BY ChargedFeesNat DEF BookInv, EndBlockerPanics
    <2>2. QED
      BY <2>1 DEF ServiceFeesLeft
  <1>2. PICK s \in Nat : s = ServiceFeesLeft
    BY <1>1
  <1>3. PICK t \in Nat : t = now - lastUpdateTime
    BY DEF BookInv
  <1>4. PICK d \in Nat : d = Dec(t)
    BY DecNat
  <1>5. PICK m \in Nat : m = MulDec(s, d)
    BY MulDecNat
  <1>6. PICK p \in Nat : p = Dec(ProtectionPeriod) /\ p > 0
    BY ParamsAssumption, PrecisionAssumption DEF Dec
  <1>7. PICK q \in Nat : q = QuoDec(m, p)
    <2>1. QuoDec(m, p) \in Nat
      BY <1>6, QuoDecNat
    <2>2. QED
      BY <2>1
  <1>8. PICK l \in Nat : l = SumOver([id \in Charged |-> LastFees(id)], Charged)
    BY ChargedFeesNat
  <1>9. l + q \in Nat /\ remainingServiceFees \in Nat /\ blockServiceFees \in Nat
    BY DEF BookInv
  <1>10. PICK c \in Nat : c = MinInt(l + q, remainingServiceFees)
    BY <1>9, MinIntNat
  <1>11. BlockFees = c + blockServiceFees
    BY <1>2, <1>3, <1>4, <1>5, <1>6, <1>7, <1>8, <1>10 DEF BlockFees
  <1>12. QED
    BY <1>1, <1>9, <1>11

\* The share of a provider is not negative.
LEMMA ShareNat ==
  ASSUME ProviderInv, BookInv, ~ EndBlockerPanics, lastUpdateTime # 0,
         NEW a \in DOMAIN providers
  PROVE  Share(a) \in Nat
  <1>1. totalCollateral \in Nat /\ totalCollateral # 0
    BY TotalsNat DEF ProviderInv, EndBlockerPanics
  <1>2. PICK c \in Nat : c = providers[a].collateral
    BY SoundAmounts DEF ProviderInv, GoodProviders
  <1>3. PICK d \in Nat : d = Dec(c)
    BY DecNat
  <1>4. PICK q \in Nat : q = QuoInt(d, totalCollateral)
    <2>1. PICK t \in Nat : t = totalCollateral /\ t > 0
      BY <1>1
    <2>2. d \div t \in Nat
      BY <2>1
    <2>3. QED
      BY <2>1, <2>2 DEF QuoInt
  <1>5. PICK b \in Nat : b = BlockFees
    BY BlockFeesNat
  <1>6. Share(a) = MulDec(b, q)
    BY <1>2, <1>3, <1>4, <1>5 DEF Share
  <1>7. QED
    BY <1>6, MulDecNat

GivenTotal == SumOver([a \in DOMAIN providers |-> Given(a)], DOMAIN providers)

\* What the providers are given together is covered by the fees that remain.
LEMMA GivenCovered ==
  ASSUME ProviderInv, BookInv, ~ EndBlockerPanics
  PROVE  /\ \A a \in DOMAIN providers : Given(a) \in Nat
         /\ GivenTotal \in Nat /\ GivenTotal <= remainingServiceFees
  <1> DEFINE D == DOMAIN providers
             R == remainingServiceFees
             f == [a \in D |-> Share(a)]
             g == [a \in D |-> Given(a)]
  <1>1. D \subseteq Nat /\ IsFiniteSet(D) /\ R \in Nat
    BY AccountsAssumption, TotalsNat DEF ProviderInv, GoodProviders, IsStore, BookInv
  <1>2. CASE lastUpdateTime = 0
    <2>1. \A a \in D : g[a] = 0
      BY <1>2 DEF Given
    <2>2. \A a \in D : [b \in D |-> 0][a] \in Nat /\ g[a] \in Nat /\ g[a] <= [b \in D |-> 0][a]
      BY <2>1
    <2> HIDE DEF g, D, R
    <2>3. SumFunctionOnSet(g, D) <= R
      BY <1>1, <2>1, <2>2, SumCapped
    <2>4. SumFunctionOnSet(g, D) \in Nat
      BY <1>1, <2>2, SumNat
    <2>5. \A a \in D : Given(a) \in Nat
      BY <1>2 DEF Given
    <2>6. QED
      BY <2>3, <2>4, <2>5 DEF GivenTotal, SumOver, g, D, R
  <1>3. CASE lastUpdateTime # 0
    <2>1. \A a \in D : f[a] \in Nat /\ f[a] = Share(a)
      BY <1>3, ShareNat
    <2>2. ASSUME NEW a \in D
          PROVE  /\ g[a] \in Nat /\ g[a] <= f[a]
                 /\ g[a] = 0 \/ g[a] <= R - SumFunctionOnSet(f, {b \in D : b < a})
      <3> DEFINE before == {b \in D : b < a}
                 h == [b \in before |-> Share(b)]
      <3>1. before \subseteq D /\ IsFiniteSet(before)
        <4>1. before \subseteq D
          OBVIOUS
        <4>2. QED
          BY <1>1, <4>1, FS_Subset
      <3>2. \A b \in before : h[b] = f[b] /\ f[b] \in Nat
        BY <2>1, <3>1
      <3>3. RemainingFor(a) = MaxInt(R - SumFunctionOnSet(h, before), 0)
        BY DEF RemainingFor, SumOver
      <3>4. g[a] = MinInt(Share(a), RemainingFor(a))
        BY <1>3 DEF Given
      <3> HIDE DEF before, h, g
      <3>5. SumFunctionOnSet(h, before) = SumFunctionOnSet(f, before)
        BY <3>1, <3>2, SumEqual
      <3>6. PICK s \in Nat : s = SumFunctionOnSet(f, before)
        BY <3>1, <3>2, SumNat
      <3>7. PICK r \in Nat : r = RemainingFor(a) /\ (r = 0 \/ r = R - s)
        BY <1>1, <3>3, <3>5, <3>6 DEF MaxInt
      <3>8. PICK v \in Nat : v = Share(a) /\ f[a] = v
        BY <2>1
      <3>9. g[a] \in Nat /\ g[a] <= v /\ g[a] <= r
        BY <3>4, <3>7, <3>8, MinIntNat
      <3>10. g[a] = 0 \/ g[a] <= R - s
        BY <3>7, <3>9
      <3>11. QED
        BY <3>6, <3>8, <3>9, <3>10 DEF before
    <2>3. \A a \in D : Given(a) \in Nat
      <3>1. \A a \in D : g[a] = Given(a)
        OBVIOUS
      <3>2. QED
        BY <2>2, <3>1
    <2> HIDE DEF D, R, f, g
    <2>4. SumFunctionOnSet(g, D) <= R
      BY <1>1, <2>1, <2>2, SumCapped
    <2>5. SumFunctionOnSet(g, D) \in Nat
      BY <1>1, <2>2, SumNat
    <2>6. QED
      BY <2>3, <2>4, <2>5 DEF GivenTotal, SumOver, g, D, R
  <1>4. QED
    BY <1>2, <1>3

-----------------------------------------------------------------------------
(* ProviderInv is kept by the payout of rewards and by the EndBlocker.     *)

\* Providers that differ in their rewards only.
LEMMA RewardsOnly ==
  ASSUME ProviderInv, GoodProviders(providers'), DOMAIN providers' = DOMAIN providers,
         \A b \in DOMAIN providers :
           /\ providers'[b].bonded = providers[b].bonded
           /\ providers'[b].collateral = providers[b].collateral
           /\ providers'[b].withdrawing = providers[b].withdrawing,
         UNCHANGED <<withdraws, totalCollateral, totalWithdrawing, totalClaimed, delegated>>
  PROVE  ProviderInv'
  <1>1. Queued(providers', withdraws')
    BY DEF ProviderInv, Queued
  <1>2. IsFiniteSet(DOMAIN providers)
    BY TotalsNat DEF ProviderInv
  <1>3. TotalCollateral(providers') = TotalCollateral(providers)
    BY <1>2, SumEqual DEF TotalCollateral, SumOver
  <1>4. TotalWithdrawing(providers') = TotalWithdrawing(providers)
    BY <1>2, SumEqual DEF TotalWithdrawing, SumOver
  <1>5. QED
    BY <1>1, <1>3, <1>4 DEF ProviderInv

\* WithdrawRewards pays the rewards of one provider and keeps the fraction among
\* the remaining fees.
LEMMA WithdrawRewardsEffect ==
  ASSUME ProviderInv, BookInv, NEW a, WithdrawRewards(a)
  PROVE  /\ ProviderInv'
         /\ \E r \in Nat, paid \in Nat :
              /\ Dec(paid) <= r /\ Dec(paid) \in Nat
              /\ paid <= moduleBalance /\ moduleBalance' = moduleBalance - paid
              /\ balances' = [balances EXCEPT ![a] = @ + paid]
              /\ remainingServiceFees' = remainingServiceFees + r - Dec(paid)
              /\ TotalRewards(providers') + r = TotalRewards(providers)
  <1>1. PICK r \in Nat : r = providers[a].rewards
    BY SoundAmounts DEF WithdrawRewards, ProviderInv, GoodProviders
  <1>2. PICK paid \in Nat : paid = TruncateInt(r) /\ Dec(paid) <= r /\ Dec(paid) \in Nat
    BY TruncateBelow, DecNat
  <1>3. /\ a \in DOMAIN providers
        /\ providers' = [providers EXCEPT ![a].rewards = 0]
        /\ remainingServiceFees' = remainingServiceFees + r - Dec(paid)
        /\ moduleBalance >= paid /\ moduleBalance' = moduleBalance - paid
        /\ balances' = [balances EXCEPT ![a] = @ + paid]
        /\ UNCHANGED <<withdraws, totalCollateral, totalWithdrawing, totalClaimed, delegated>>
    BY <1>1, <1>2 DEF WithdrawRewards, stakingVars
  <1> DEFINE old == providers[a]
             new == [old EXCEPT !.rewards = 0]
  <1>4. Sound(old) /\ old \in Provider /\ a \in Accounts /\ GoodProviders(providers)
    BY <1>3 DEF ProviderInv, GoodProviders, IsStore
  <1>5. /\ new \in Provider /\ new.rewards = 0 /\ new.collateral = old.collateral
        /\ new.withdrawing = old.withdrawing /\ new.bonded = old.bonded
    BY <1>4 DEF Provider
  <1>6. providers' = StoreSet(providers, a, new)
    BY <1>3 DEF StoreSet, ProviderInv, GoodProviders, IsStore
  <1> HIDE DEF new, old
  <1>7. Sound(new)
    BY <1>4, <1>5 DEF Sound
  <1>8. IsProviderSet(providers, providers', a, old, new)
    BY <1>3, <1>4, <1>6, <1>7 DEF IsProviderSet, old
  <1>9. ProviderIsSet(providers, providers', a, old, new)
    BY <1>4, <1>8, ProviderSetTotals
  <1>10. /\ GoodProviders(providers') /\ DOMAIN providers' = DOMAIN providers
         /\ providers'[a] = new
         /\ \A b \in DOMAIN providers \ {a} : providers'[b] = providers[b]
         /\ TotalRewards(providers') + old.rewards = TotalRewards(providers) + new.rewards
    BY <1>3, <1>9 DEF ProviderIsSet
  <1>11. \A b \in DOMAIN providers :
           /\ providers'[b].bonded = providers[b].bonded
           /\ providers'[b].collateral = providers[b].collateral
           /\ providers'[b].withdrawing = providers[b].withdrawing
    BY <1>5, <1>10 DEF old
  <1>12. ProviderInv'
    BY <1>3, <1>10, <1>11, RewardsOnly
  <1>13. TotalRewards(providers') + r = TotalRewards(providers)
    <2>1. TotalRewards(providers) \in Nat
      BY <1>4, TotalsNat
    <2>2. TotalRewards(providers') + r = TotalRewards(providers) + 0
      BY <1>1, <1>5, <1>10 DEF old
    <2>3. QED
      BY <2>1, <2>2
  <1>14. QED
    BY <1>2, <1>3, <1>12, <1>13

\* A queue without some of its withdraws.
IsQueueWithout(queue, new, C) ==
  /\ GoodQueue(new) /\ DOMAIN new = DOMAIN queue \ C
  /\ \A n \in DOMAIN new : new[n] = queue[n]
  /\ \A S \in SUBSET DOMAIN queue :
       AmountOf(queue, S) = AmountOf(new, S \ C) + AmountOf(queue, S \cap C)

\* Withdraws are taken out of a queue.
LEMMA QueueDelete ==
  ASSUME NEW queue, GoodQueue(queue), NEW new, NEW C \in SUBSET DOMAIN queue,
         new = StoreDelete(queue, C)
  PROVE  IsQueueWithout(queue, new, C)
  <1>1. GoodQueue(new)
    BY StoreType, StoreFinite, Zenon DEF GoodQueue
  <1>2. DOMAIN new = DOMAIN queue \ C /\ \A n \in DOMAIN new : new[n] = queue[n]
    BY DEF StoreDelete, Restrict
  <1>3. ASSUME NEW S \in SUBSET DOMAIN queue
        PROVE  AmountOf(queue, S) = AmountOf(new, S \ C) + AmountOf(queue, S \cap C)
    <2>1. /\ S \cap C \in SUBSET S /\ S \ C = S \ (S \cap C) /\ S \ C \in SUBSET DOMAIN queue
          /\ \A n \in S \ C : new[n] = queue[n]
      BY <1>2
    <2>2. AmountOf(queue, S) = AmountOf(queue, S \cap C) + AmountOf(queue, S \ (S \cap C))
      BY <2>1, AmountPart
    <2>3. IsFiniteSet(S \ C)
      BY <2>1, AmountNat
    <2>4. AmountOf(new, S \ C) = AmountOf(queue, S \ C)
      BY <2>1, <2>3, AmountEqual
    <2>5. AmountOf(queue, S \cap C) \in Nat /\ AmountOf(queue, S \ C) \in Nat
      BY <2>1, AmountNat
    <2>6. QED
      BY <2>1, <2>2, <2>4, <2>5
  <1>4. QED
    BY <1>1, <1>2, <1>3 DEF IsQueueWithout

\* When the queue is matched by the providers, the total is that of the whole queue.
LEMMA QueuedTotal ==
  ASSUME NEW ps, NEW queue, GoodProviders(ps), GoodQueue(queue), Queued(ps, queue)
  PROVE  TotalWithdrawing(ps) = AmountOf(queue, DOMAIN queue)
  <1> DEFINE K == DOMAIN ps
             S == DOMAIN queue
             part == [a \in K |-> OfAddress(queue, a)]
             f == [n \in S |-> queue[n].amount]
             g == [a \in K |-> ps[a].withdrawing]
  <1>1. IsFiniteSet(K) /\ IsFiniteSet(S)
    BY TotalsNat DEF GoodQueue
  <1>2. \A n \in S : f[n] \in Nat
    BY DEF GoodQueue, IsStore, Withdraw
  <1>3. ASSUME NEW a \in K PROVE part[a] \in SUBSET S /\ g[a] = SumFunctionOnSet(f, part[a])
    <2>1. part[a] = OfAddress(queue, a) /\ part[a] \in SUBSET S
      BY DEF OfAddress
    <2>2. g[a] = AmountOf(queue, part[a])
      BY <2>1 DEF Queued
    <2>3. IsFiniteSet(part[a])
      BY <1>1, <2>1, FS_Subset
    <2>4. \A n \in part[a] : [m \in part[a] |-> queue[m].amount][n] = f[n]
      BY <2>1
    <2> HIDE DEF f, g, part
    <2>5. SumFunctionOnSet([m \in part[a] |-> queue[m].amount], part[a])
            = SumFunctionOnSet(f, part[a])
      BY <2>3, <2>4, SumEqual
    <2>6. QED
      BY <2>1, <2>2, <2>5 DEF AmountOf, SumOver
  <1>4. \A a, b \in K : a # b => part[a] \cap part[b] = {}
    BY DEF OfAddress
  <1>5. \A n \in S : \E a \in K : n \in part[a]
    BY DEF OfAddress, Queued
  <1> HIDE DEF K, S, part, f, g
  <1>6. SumFunctionOnSet(g, K) = SumFunctionOnSet(f, S)
    BY <1>1, <1>2, <1>3, <1>4, <1>5, SumCover
  <1>7. QED
    BY <1>6 DEF TotalWithdrawing, AmountOf, SumOver, K, S, f, g

\* The providers after the EndBlocker: completed withdraws leave the collateral.
LEMMA EndBlockerProviders ==
  ASSUME ProviderInv, BookInv, EndBlocker
  PROVE  /\ ProviderInv'
         /\ TotalRewards(providers') = TotalRewards(providers) + GivenTotal
  <1> DEFINE Done(a) == WithdrawnAmount(CompletedOf(a))
             C == Completed
  <1>1. ~ EndBlockerPanics
    BY DEF EndBlocker
  <1>2. \A a \in DOMAIN providers : Given(a) \in Nat
    BY <1>1, GivenCovered
  <1>3. /\ providers' = [a \in DOMAIN providers |-> [providers[a] EXCEPT
             !.rewards = @ + Given(a), !.collateral = @ - Done(a),
             !.withdrawing = @ - Done(a)]]
        /\ withdraws' = StoreDelete(withdraws, C)
        /\ totalCollateral' = totalCollateral - AmountOf(withdraws, C)
        /\ totalWithdrawing' = totalWithdrawing - AmountOf(withdraws, C)
        /\ UNCHANGED <<totalClaimed, delegated>>
    BY DEF EndBlocker, WithdrawnAmount, stakingVars
  <1>4. C \in SUBSET DOMAIN withdraws
    BY DEF Completed
  <1>5. GoodQueue(withdraws) /\ GoodProviders(providers) /\ Queued(providers, withdraws)
    BY DEF ProviderInv
  <1>6. \A a \in DOMAIN providers : Done(a) = AmountOf(withdraws, OfAddress(withdraws, a) \cap C)
    <2>1. \A a : CompletedOf(a) = OfAddress(withdraws, a) \cap C
      BY <1>4 DEF CompletedOf, OfAddress
    <2>2. QED
      BY <2>1 DEF WithdrawnAmount
  <1> HIDE DEF Done, C
  <1>7. /\ GoodQueue(withdraws') /\ DOMAIN withdraws' = DOMAIN withdraws \ C
        /\ \A n \in DOMAIN withdraws' : withdraws'[n] = withdraws[n]
        /\ \A S \in SUBSET DOMAIN withdraws :
             AmountOf(withdraws, S) = AmountOf(withdraws', S \ C) + AmountOf(withdraws, S \cap C)
    <2>1. IsQueueWithout(withdraws, withdraws', C)
      BY <1>3, <1>4, <1>5, QueueDelete
    <2>2. QED
      BY <2>1 DEF IsQueueWithout
  <1>8. ASSUME NEW a \in DOMAIN providers
        PROVE  /\ Done(a) \in Nat
               /\ AmountOf(withdraws', OfAddress(withdraws', a)) \in Nat
               /\ providers[a].withdrawing
                    = AmountOf(withdraws', OfAddress(withdraws', a)) + Done(a)
    <2> DEFINE S == OfAddress(withdraws, a)
    <2>1. S \in SUBSET DOMAIN withdraws /\ S \cap C \in SUBSET DOMAIN withdraws
      BY DEF OfAddress
    <2>2. OfAddress(withdraws', a) = S \ C /\ S \ C \in SUBSET DOMAIN withdraws'
      BY <1>7 DEF OfAddress
    <2>3. providers[a].withdrawing = AmountOf(withdraws, S)
      BY <1>5 DEF Queued
    <2> HIDE DEF S
    <2>4. AmountOf(withdraws, S) = AmountOf(withdraws', S \ C) + AmountOf(withdraws, S \cap C)
      BY <1>7, <2>1
    <2>5. Done(a) \in Nat /\ Done(a) = AmountOf(withdraws, S \cap C)
      BY <1>5, <1>6, <2>1, AmountNat DEF S
    <2>6. AmountOf(withdraws', S \ C) \in Nat
      BY <1>7, <2>2, AmountNat
    <2>7. QED
      BY <2>2, <2>3, <2>4, <2>5, <2>6
  <1>9. ASSUME NEW a \in DOMAIN providers
        PROVE  /\ Sound(providers'[a])
               /\ providers'[a].bonded = providers[a].bonded
               /\ providers'[a].rewards = providers[a].rewards + Given(a)
               /\ providers'[a].collateral = providers[a].collateral - Done(a)
               /\ providers'[a].withdrawing = providers[a].withdrawing - Done(a)
    <2>1. Sound(providers[a]) /\ providers[a] \in Provider
      BY <1>5 DEF GoodProviders, Sound
    <2>2. /\ providers[a].collateral \in Nat /\ providers[a].withdrawing \in Nat
          /\ providers[a].rewards \in Nat /\ providers[a].bonded \in Int
          /\ providers[a].withdrawing <= providers[a].collateral
          /\ providers[a].collateral - providers[a].withdrawing <= providers[a].bonded
      BY <2>1, SoundAmounts DEF Sound
    <2>3. /\ Done(a) \in Nat /\ Done(a) <= providers[a].withdrawing
      BY <1>8, <2>2
    <2>4. PICK c \in Nat : c = providers[a].collateral - Done(a)
      BY <2>2, <2>3
    <2>5. PICK w \in Nat : w = providers[a].withdrawing - Done(a)
      BY <2>2, <2>3
    <2>6. PICK r \in Nat : r = providers[a].rewards + Given(a)
      BY <1>2, <2>2
    <2>7. providers'[a] = [bonded |-> providers[a].bonded, collateral |-> c,
                           withdrawing |-> w, rewards |-> r]
      BY <1>3, <2>1, <2>4, <2>5, <2>6 DEF Provider
    <2>8. /\ providers'[a] \in Provider /\ providers'[a].bonded = providers[a].bonded
          /\ providers'[a].rewards = r
          /\ providers'[a].collateral = c /\ providers'[a].withdrawing = w
      BY <2>2, <2>7 DEF Provider
    <2>9. c - w <= providers[a].bonded /\ w <= c
      BY <2>2, <2>3, <2>4, <2>5
    <2>10. Sound(providers'[a])
      BY <2>8, <2>9 DEF Sound
    <2>11. QED
      BY <2>4, <2>5, <2>6, <2>8, <2>10
  <1>10. DOMAIN providers' = DOMAIN providers
    BY <1>3
  <1>11. GoodProviders(providers')
    <2>1. \A a \in DOMAIN providers' : providers'[a] \in Provider /\ Sound(providers'[a])
      BY <1>9, <1>10 DEF Sound
    <2>2. providers' \in [DOMAIN providers' -> Provider]
      BY <1>3, <2>1
    <2>3. QED
      BY <1>5, <1>10, <2>1, <2>2 DEF GoodProviders, IsStore
  <1>12. Queued(providers', withdraws')
    <2>1. \A n \in DOMAIN withdraws' : withdraws'[n].address \in DOMAIN providers'
      BY <1>5, <1>7, <1>10 DEF Queued
    <2>2. ASSUME NEW a \in DOMAIN providers
          PROVE  providers'[a].withdrawing = AmountOf(withdraws', OfAddress(withdraws', a))
      BY <1>8, <1>9
    <2>3. QED
      BY <1>10, <2>1, <2>2 DEF Queued
  <1>13. totalWithdrawing' = AmountOf(withdraws', DOMAIN withdraws')
    <2>1. /\ DOMAIN withdraws \in SUBSET DOMAIN withdraws /\ DOMAIN withdraws \ C = DOMAIN withdraws'
          /\ DOMAIN withdraws \cap C = C
      BY <1>4, <1>7
    <2>2. AmountOf(withdraws, DOMAIN withdraws)
            = AmountOf(withdraws', DOMAIN withdraws') + AmountOf(withdraws, C)
      BY <1>7, <2>1
    <2>3. AmountOf(withdraws', DOMAIN withdraws') \in Nat /\ AmountOf(withdraws, C) \in Nat
      BY <1>4, <1>5, <1>7, AmountNat
    <2>4. PICK x \in Nat, y \in Nat :
            x = AmountOf(withdraws', DOMAIN withdraws') /\ y = AmountOf(withdraws, C)
      BY <2>3
    <2>5. totalWithdrawing = x + y /\ totalWithdrawing' = totalWithdrawing - y
      BY <1>3, <2>2, <2>4 DEF ProviderInv
    <2>6. QED
      BY <2>4, <2>5
  <1>14. TotalWithdrawing(providers') = AmountOf(withdraws', DOMAIN withdraws')
    BY <1>7, <1>11, <1>12, QueuedTotal
  <1> DEFINE D == DOMAIN providers
             c0 == [a \in D |-> providers[a].collateral]
             w0 == [a \in D |-> providers[a].withdrawing]
             r0 == [a \in D |-> providers[a].rewards]
             c1 == [a \in D |-> providers'[a].collateral]
             w1 == [a \in D |-> providers'[a].withdrawing]
             r1 == [a \in D |-> providers'[a].rewards]
             gv == [a \in D |-> Given(a)]
             both == [a \in D |-> providers'[a].collateral + providers[a].withdrawing]
  <1>15. \A a \in D : /\ c0[a] \in Nat /\ w0[a] \in Nat /\ r0[a] \in Nat
                      /\ c1[a] \in Nat /\ w1[a] \in Nat /\ r1[a] \in Nat
                      /\ gv[a] \in Nat
                      /\ both[a] = c1[a] + w0[a] /\ both[a] = c0[a] + w1[a]
                      /\ r1[a] = r0[a] + gv[a]
    <2> SUFFICES ASSUME NEW a \in D
                 PROVE  /\ c0[a] \in Nat /\ w0[a] \in Nat /\ r0[a] \in Nat
                        /\ c1[a] \in Nat /\ w1[a] \in Nat /\ r1[a] \in Nat
                        /\ gv[a] \in Nat
                        /\ both[a] = c1[a] + w0[a] /\ both[a] = c0[a] + w1[a]
                        /\ r1[a] = r0[a] + gv[a]
      OBVIOUS
    <2>1. Sound(providers[a]) /\ Sound(providers'[a]) /\ Done(a) \in Nat
      BY <1>5, <1>8, <1>9 DEF GoodProviders
    <2>2. /\ c0[a] \in Nat /\ w0[a] \in Nat /\ r0[a] \in Nat
          /\ c1[a] \in Nat /\ w1[a] \in Nat /\ r1[a] \in Nat
      BY <2>1, SoundAmounts
    <2>3. /\ c1[a] = c0[a] - Done(a) /\ w1[a] = w0[a] - Done(a) /\ r1[a] = r0[a] + gv[a]
          /\ both[a] = c1[a] + w0[a]
      BY <1>9
    <2>4. gv[a] \in Nat
      BY <1>2
    <2> HIDE DEF c0, w0, r0, c1, w1, r1, gv, both
    <2>5. QED
      BY <2>1, <2>2, <2>3, <2>4
  <1>16. /\ TotalCollateral(providers) = SumFunctionOnSet(c0, D)
         /\ TotalWithdrawing(providers) = SumFunctionOnSet(w0, D)
         /\ TotalRewards(providers) = SumFunctionOnSet(r0, D)
         /\ GivenTotal = SumFunctionOnSet(gv, D)
    BY DEF TotalCollateral, TotalWithdrawing, TotalRewards, GivenTotal, SumOver
  <1>17. /\ TotalCollateral(providers') = SumFunctionOnSet(c1, D)
         /\ TotalWithdrawing(providers') = SumFunctionOnSet(w1, D)
         /\ TotalRewards(providers') = SumFunctionOnSet(r1, D)
    BY <1>10 DEF TotalCollateral, TotalWithdrawing, TotalRewards, SumOver
  <1>18. IsFiniteSet(D)
    BY <1>5, TotalsNat
  <1> HIDE DEF c0, w0, r0, c1, w1, r1, gv, both, D
  <1>19. /\ SumFunctionOnSet(both, D) = SumFunctionOnSet(c1, D) + SumFunctionOnSet(w0, D)
         /\ SumFunctionOnSet(both, D) = SumFunctionOnSet(c0, D) + SumFunctionOnSet(w1, D)
         /\ SumFunctionOnSet(r1, D) = SumFunctionOnSet(r0, D) + SumFunctionOnSet(gv, D)
    BY <1>15, <1>18, SumPlus
  <1>20. /\ TotalCollateral(providers) \in Nat /\ TotalWithdrawing(providers) \in Nat
         /\ TotalCollateral(providers') \in Nat /\ TotalWithdrawing(providers') \in Nat
    BY <1>5, <1>11, TotalsNat
  <1>21. totalCollateral' = TotalCollateral(providers')
    <2>1. TotalCollateral(providers') + TotalWithdrawing(providers)
            = TotalCollateral(providers) + TotalWithdrawing(providers')
      BY <1>16, <1>17, <1>19
    <2>2. AmountOf(withdraws, C) \in Nat
      BY <1>4, <1>5, AmountNat
    <2>3. /\ totalCollateral = TotalCollateral(providers)
          /\ totalWithdrawing = TotalWithdrawing(providers)
      BY DEF ProviderInv
    <2>4. totalWithdrawing' = TotalWithdrawing(providers')
      BY <1>13, <1>14
    <2>5. PICK c \in Nat, w \in Nat, d \in Nat, x \in Nat, y \in Nat :
            /\ c = TotalCollateral(providers) /\ w = TotalWithdrawing(providers)
            /\ d = TotalCollateral(providers') /\ x = TotalWithdrawing(providers')
            /\ y = AmountOf(withdraws, C)
      BY <1>20, <2>2
    <2>6. d + w = c + x /\ totalCollateral' = c - y /\ x = w - y
      BY <1>3, <2>1, <2>3, <2>4, <2>5
    <2>7. QED
      BY <2>5, <2>6
  <1>22. \A a \in DOMAIN providers' : delegated'[a] <= providers'[a].bonded
    BY <1>3, <1>9, <1>10 DEF ProviderInv
  <1>23. ProviderInv'
    BY <1>3, <1>7, <1>11, <1>12, <1>13, <1>14, <1>21, <1>22 DEF ProviderInv
  <1>24. QED
    BY <1>16, <1>17, <1>19, <1>23

-----------------------------------------------------------------------------
(* The kinds of steps.  A message of a provider or a delegator leaves the  *)
(* pools, the purchases, the fees and the stakes alone.                    *)

ProviderStep ==
  \E a \in Accounts :
    \/ \E amount \in Nat : DepositCollateral(a, amount)
    \/ \E amount \in Nat : WithdrawCollateral(a, amount)
    \/ \E amount \in Nat : Delegate(a, amount)
    \/ \E amount \in Nat, removed \in BOOLEAN : Undelegate(a, amount, removed)
    \/ \E amount \in Nat, removed \in BOOLEAN : Redelegate(a, amount, removed)
    \/ \E amount \in Nat : Slash(a, amount)

\* Shield is bought in a pool, which may be new.
Buys(id, pool, shield, a, fees, stake) ==
  /\ id \in Nat /\ pool \in Pool /\ a \in Accounts
  /\ shield \in Nat \ {0} /\ fees \in Nat /\ stake \in Nat
  /\ DeliverTx /\ BuyShield(id, pool, shield, a, fees, stake)
  /\ \/ id \in DOMAIN pools /\ pool.shield = pools[id].shield /\ nextPoolID' = nextPoolID
     \/ id = nextPoolID /\ pool.shield = 0 /\ nextPoolID' = nextPoolID + 1

BuyStep ==
  \E id, pool, shield, a, fees, stake : Buys(id, pool, shield, a, fees, stake)

\* The record of a pool changes, but not its shield; fees are booked.
EditsPool(id, pool, fees) ==
  /\ DeliverTx /\ id \in DOMAIN pools /\ pool \in Pool /\ pool.shield = pools[id].shield
  /\ fees \in Nat
  /\ fees > 0 => serviceFees + Dec(fees) <= Dec(MaxFees)
  /\ pools' = StoreSet(pools, id, pool)
  /\ serviceFees' = serviceFees + Dec(fees)
  /\ remainingServiceFees' = remainingServiceFees + Dec(fees)
  /\ UNCHANGED <<now, phase, totalClaimed, providerVars, totalShield, nextPoolID,
                 purchaseVars, blockServiceFees, lastUpdateTime, stakeVars, stakingVars,
                 bankVars>>

\* Only UpdatePool books any.
EditStep ==
  \E id, pool, fees :
    EditsPool(id, pool, fees) /\ (fees = 0 \/ (fees \in FeeInputs /\ TopUp(fees)))

\* Every step is of one of these kinds.
LEMMA StepKinds ==
  ASSUME BookInv, [Next]_vars
  PROVE  \/ ProviderStep
         \/ \E a \in Accounts : WithdrawRewards(a)
         \/ BuyStep
         \/ EditStep
         \/ \E a \in Accounts, id \in DOMAIN pools, amount \in Nat : UnstakeFromShield(id, a, amount)
         \/ EndBlocker
         \/ EndBlockerHalts
         \/ StakingEndBlocker
         \/ \E elapsed \in Nat, reward \in Nat : NextBlock(elapsed, reward)
         \/ UNCHANGED vars
  <1>1. ASSUME NEW a \in Accounts, ProviderMsg(a)
        PROVE  ProviderStep \/ WithdrawRewards(a)
    BY <1>1, InputsAssumption DEF ProviderMsg, ProviderStep
  <1>2. ASSUME NEW a \in Accounts, StakingMsg(a) PROVE ProviderStep
    <2>1. CASE \E amount \in DelegationInputs : Delegate(a, amount)
      BY <2>1, InputsAssumption DEF ProviderStep
    <2>2. CASE \E amount \in DelegationInputs, removed \in BOOLEAN : Undelegate(a, amount, removed)
      BY <2>2, InputsAssumption DEF ProviderStep
    <2>3. CASE \E amount \in DelegationInputs, removed \in BOOLEAN : Redelegate(a, amount, removed)
      BY <2>3, InputsAssumption DEF ProviderStep
    <2>4. CASE \E amount \in SlashInputs : Slash(a, amount)
      BY <2>4, InputsAssumption DEF ProviderStep
    <2>5. QED
      BY <1>2, <2>1, <2>2, <2>3, <2>4 DEF StakingMsg
  <1>3. \A id \in DOMAIN pools : id \in Nat /\ pools[id] \in Pool
    BY DEF BookInv, IsStore
  <1>4. ASSUME NEW a \in Accounts, PurchaserMsg(a)
        PROVE  \/ BuyStep
               \/ \E id \in DOMAIN pools, amount \in Nat : UnstakeFromShield(id, a, amount)
    <2>1. ASSUME NEW id \in DOMAIN pools, NEW shield \in ShieldInputs, NEW staking \in BOOLEAN,
                 PurchaseShield(id, a, shield, staking)
          PROVE  BuyStep
      <3>1. shield \in Nat \ {0}
        BY InputsAssumption
      <3>2. PICK d \in Nat : d = Dec(shield)
        BY <3>1, DecNat
      <3>3. ShieldFeesRate \in Nat /\ StakingShieldRate \in Nat
        BY ParamsAssumption
      <3>4. PICK m \in Nat : m = MulDec(d, ShieldFeesRate)
        BY <3>3, MulDecNat
      <3>5. PICK n \in Nat : n = MulInt(StakingShieldRate, shield)
        BY <3>1, <3>3 DEF MulInt
      <3>6. PICK fees \in Nat :
              fees = IF staking THEN 0 ELSE TruncateInt(MulDec(Dec(shield), ShieldFeesRate))
        BY <3>2, <3>4, TruncateBelow
      <3>7. PICK stake \in Nat :
              stake = IF staking THEN TruncateInt(MulInt(StakingShieldRate, shield)) ELSE 0
        BY <3>5, TruncateBelow
      <3>8. /\ DeliverTx /\ nextPoolID' = nextPoolID
            /\ BuyShield(id, pools[id], shield, a, fees, stake)
        BY <2>1, <3>6, <3>7 DEF PurchaseShield
      <3>9. Buys(id, pools[id], shield, a, fees, stake)
        BY <1>3, <3>1, <3>8 DEF Buys
      <3>10. QED
        BY <3>9 DEF BuyStep
    <2>2. QED
      BY <1>4, <2>1, InputsAssumption DEF PurchaserMsg
  <1>5. ASSUME AdminMsg PROVE BuyStep \/ EditStep
    <2>1. ASSUME NEW sponsor \in Sponsors, NEW limit \in LimitInputs, NEW shield \in ShieldInputs,
                 NEW fees \in FeeInputs, CreatePool(sponsor, limit, shield, fees)
          PROVE  BuyStep
      <3> DEFINE pool == NewPool(sponsor, limit)
      <3>1. pool \in Pool /\ pool.shield = 0
        BY InputsAssumption DEF NewPool, Pool
      <3>2. Buys(nextPoolID, pool, shield, Admin, fees, 0)
        BY <2>1, <3>1, InputsAssumption, AccountsAssumption DEF CreatePool, Buys, BookInv
      <3>3. QED
        BY <3>2 DEF BuyStep
    <2>2. ASSUME NEW id \in DOMAIN pools, NEW limit \in LimitInputs \cup {0},
                 NEW shield \in ShieldInputs \cup {0}, NEW fees \in FeeInputs,
                 UpdatePool(id, limit, shield, fees)
          PROVE  BuyStep \/ EditStep
      <3> DEFINE pool == IF limit = 0 THEN pools[id] ELSE [pools[id] EXCEPT !.shieldLimit = limit]
      <3>1. pool \in Pool /\ pool.shield = pools[id].shield
        BY <1>3, InputsAssumption DEF Pool
      <3>2. shield \in Nat /\ fees \in Nat
        BY InputsAssumption
      <3>3. CASE shield > 0
        <4>1. DeliverTx /\ nextPoolID' = nextPoolID /\ BuyShield(id, pool, shield, Admin, fees, 0)
          BY <2>2, <3>3 DEF UpdatePool
        <4> HIDE DEF pool
        <4>2. Buys(id, pool, shield, Admin, fees, 0)
          BY <1>3, <3>1, <3>2, <3>3, <4>1, AccountsAssumption DEF Buys
        <4>3. QED
          BY <4>2 DEF BuyStep
      <3>4. CASE ~ (shield > 0)
        <4>1. EditsPool(id, pool, fees)
          BY <2>2, <3>1, <3>2, <3>4 DEF UpdatePool, EditsPool
        <4>2. shield = 0
          BY <3>2, <3>4
        <4>3. TopUp(fees)
          BY <2>2, <4>2 DEF TopUp
        <4> HIDE DEF pool
        <4>4. QED
          BY <4>1, <4>3 DEF EditStep
      <3>5. QED
        BY <3>3, <3>4
    <2>3. ASSUME NEW id \in DOMAIN pools, NEW active \in BOOLEAN, SetActive(id, active)
          PROVE  EditStep
      <3> DEFINE pool == [pools[id] EXCEPT !.active = active]
      <3>1. pool \in Pool /\ pool.shield = pools[id].shield
        BY <1>3 DEF Pool
      <3>2. pools' = StoreSet(pools, id, pool)
        BY <2>3 DEF SetActive, StoreSet, BookInv, IsStore
      <3>3. Dec(0) = 0
        BY PrecisionAssumption DEF Dec
      <3>4. serviceFees \in Nat /\ remainingServiceFees \in Nat
        BY DEF BookInv
      <3> HIDE DEF pool
      <3>5. EditsPool(id, pool, 0)
        BY <2>3, <3>1, <3>2, <3>3, <3>4 DEF SetActive, EditsPool, feeVars
      <3>6. QED
        BY <3>5 DEF EditStep
    <2>4. ASSUME NEW id \in DOMAIN pools, NEW sponsor \in Sponsors, UpdateSponsor(id, sponsor)
          PROVE  EditStep
      <3> DEFINE pool == [pools[id] EXCEPT !.sponsor = sponsor]
      <3>1. pool \in Pool /\ pool.shield = pools[id].shield
        BY <1>3 DEF Pool
      <3>2. pools' = StoreSet(pools, id, pool)
        BY <2>4 DEF UpdateSponsor, StoreSet, BookInv, IsStore
      <3>3. Dec(0) = 0
        BY PrecisionAssumption DEF Dec
      <3>4. serviceFees \in Nat /\ remainingServiceFees \in Nat
        BY DEF BookInv
      <3> HIDE DEF pool
      <3>5. EditsPool(id, pool, 0)
        BY <2>4, <3>1, <3>2, <3>3, <3>4 DEF UpdateSponsor, EditsPool, feeVars
      <3>6. QED
        BY <3>5 DEF EditStep
    <2>5. QED
      BY <1>5, <2>1, <2>2, <2>3, <2>4 DEF AdminMsg
  <1>6. ASSUME Block
        PROVE  \/ EndBlocker \/ EndBlockerHalts \/ StakingEndBlocker
               \/ \E elapsed \in Nat, reward \in Nat : NextBlock(elapsed, reward)
    BY <1>6, InputsAssumption DEF Block
  <1>7. QED
    BY <1>1, <1>2, <1>4, <1>5, <1>6 DEF Next

\* What the messages of providers and delegators leave alone.
LEMMA ProviderStepFrame ==
  ASSUME ProviderStep
  PROVE  /\ phase = "deliver" /\ UNCHANGED <<now, phase, totalClaimed>>
         /\ UNCHANGED <<pools, nextPoolID, totalShield, purchases, nextPurchaseID>>
         /\ UNCHANGED <<serviceFees, remainingServiceFees, blockServiceFees, lastUpdateTime>>
         /\ UNCHANGED <<stakeForShield, originalStaking, globalStakingPool, moduleBalance>>
  <1> USE DEF DeliverTx, poolVars, purchaseVars, feeVars, stakeVars, bankVars
  <1> DEFINE Frame == /\ phase = "deliver" /\ UNCHANGED <<now, phase, totalClaimed>>
                      /\ UNCHANGED <<pools, nextPoolID, totalShield, purchases, nextPurchaseID>>
                      /\ UNCHANGED <<serviceFees, remainingServiceFees, blockServiceFees, lastUpdateTime>>
                      /\ UNCHANGED <<stakeForShield, originalStaking, globalStakingPool, moduleBalance>>
  <1>1. ASSUME NEW a \in Accounts, NEW amount \in Nat, DepositCollateral(a, amount) PROVE Frame
    BY <1>1 DEF DepositCollateral
  <1>2. ASSUME NEW a \in Accounts, NEW amount \in Nat, WithdrawCollateral(a, amount) PROVE Frame
    BY <1>2 DEF WithdrawCollateral
  <1>3. ASSUME NEW a \in Accounts, NEW amount \in Nat, Delegate(a, amount) PROVE Frame
    BY <1>3 DEF Delegate
  <1>4. ASSUME NEW a \in Accounts, NEW amount \in Nat, NEW removed \in BOOLEAN, Undelegate(a, amount, removed) PROVE Frame
    BY <1>4 DEF Undelegate
  <1>5. ASSUME NEW a \in Accounts, NEW amount \in Nat, NEW removed \in BOOLEAN, Redelegate(a, amount, removed) PROVE Frame
    BY <1>5 DEF Redelegate
  <1>6. ASSUME NEW a \in Accounts, NEW amount \in Nat, Slash(a, amount) PROVE Frame
    BY <1>6 DEF Slash
  <1> HIDE DEF Frame
  <1>7. Frame
    BY <1>1, <1>2, <1>3, <1>4, <1>5, <1>6 DEF ProviderStep
  <1>8. QED
    BY <1>7 DEF Frame

\* The messages of providers and delegators keep ProviderInv.
LEMMA ProviderStepKeeps ==
  ASSUME ProviderInv, now \in Nat, ProviderStep
  PROVE  ProviderInv' /\ Spares
  BY DepositKeeps, WithdrawKeeps, DelegateKeeps, UndelegateKeeps, RedelegateKeeps, SlashKeeps
     DEF ProviderStep

\* Every step keeps ProviderInv.
LEMMA ProviderInvStep ==
  ASSUME ProviderInv, BookInv, [Next]_vars
  PROVE  ProviderInv'
  <1>1. CASE ProviderStep
    BY <1>1, ProviderStepKeeps DEF BookInv
  <1>2. ASSUME NEW a \in Accounts, WithdrawRewards(a) PROVE ProviderInv'
    BY <1>2, WithdrawRewardsEffect
  <1>3. CASE EndBlocker
    BY <1>3, EndBlockerProviders
  <1>4. ASSUME UNCHANGED <<providers, withdraws, totalCollateral, totalWithdrawing,
                           totalClaimed, delegated>>
        PROVE  ProviderInv'
    BY <1>4 DEF ProviderInv
  <1>5. CASE BuyStep
    BY <1>4, <1>5 DEF BuyStep, Buys, BuyShield, providerVars, stakingVars
  <1>6. CASE EditStep
    BY <1>4, <1>6 DEF EditStep, EditsPool, providerVars, stakingVars
  <1>7. ASSUME NEW a, NEW id, NEW amount, UnstakeFromShield(id, a, amount) PROVE ProviderInv'
    BY <1>4, <1>7 DEF UnstakeFromShield, providerVars, stakingVars
  <1>8. CASE EndBlockerHalts \/ StakingEndBlocker
    BY <1>4, <1>8 DEF EndBlockerHalts, StakingEndBlocker, providerVars, stakingVars
  <1>9. ASSUME NEW elapsed, NEW reward, NextBlock(elapsed, reward) PROVE ProviderInv'
    BY <1>4, <1>9 DEF NextBlock, providerVars, stakingVars
  <1>10. CASE UNCHANGED vars
    BY <1>4, <1>10 DEF vars, providerVars, stakingVars
  <1>11. QED
    BY <1>1, <1>2, <1>3, <1>5, <1>6, <1>7, <1>8, <1>9, <1>10, StepKinds

-----------------------------------------------------------------------------
(* BookInv: pools, purchases and fees.                                     *)

Shields(ps) == [id \in DOMAIN ps |-> ps[id].shield]

Fees(ps) == [id \in DOMAIN ps |-> ps[id].fees]

ShieldIn(ps, S) == SumFunctionOnSet(Shields(ps), S)

\* The shield of a set of purchases, as a sum over one function of all purchases.
LEMMA ShieldOfSum ==
  ASSUME BookInv, NEW S \in SUBSET DOMAIN purchases
  PROVE  /\ IsFiniteSet(S) /\ ShieldOf(S) = ShieldIn(purchases, S)
         /\ ShieldOf(S) \in Nat
  <1>1. IsFiniteSet(S)
    BY FS_Subset DEF BookInv
  <1>2. \A id \in S : /\ [i \in S |-> purchases[i].shield][id] = Shields(purchases)[id]
                      /\ Shields(purchases)[id] \in Nat
    BY PurchaseAmounts DEF Shields
  <1>3. SumFunctionOnSet([i \in S |-> purchases[i].shield], S) = SumFunctionOnSet(Shields(purchases), S)
    BY <1>1, <1>2, SumEqual
  <1>4. SumFunctionOnSet(Shields(purchases), S) \in Nat
    BY <1>1, <1>2, SumNat
  <1>5. QED
    BY <1>1, <1>3, <1>4 DEF ShieldOf, SumOver, ShieldIn

\* The purchases after the EndBlocker: the deleted ones are gone, the charged ones have no
\* fees left.
LEMMA EndBlockerPurchases ==
  ASSUME BookInv, EndBlocker
  PROVE  /\ DOMAIN purchases' = DOMAIN purchases \ Deleted
         /\ \A id \in DOMAIN purchases' :
              /\ purchases'[id] \in Purchase
              /\ purchases'[id].pool = purchases[id].pool
              /\ purchases'[id].purchaser = purchases[id].purchaser
              /\ purchases'[id].protectionEnd = purchases[id].protectionEnd
              /\ purchases'[id].deletion = purchases[id].deletion
              /\ purchases'[id].shield = purchases[id].shield
              /\ purchases'[id].fees = IF id \in Charged THEN 0 ELSE purchases[id].fees
  <1> DEFINE changed == [id \in DOMAIN purchases |->
               IF id \in Charged THEN [purchases[id] EXCEPT !.fees = 0] ELSE purchases[id]]
  <1>1. purchases' = StoreDelete(changed, Deleted)
    BY DEF EndBlocker
  <1>2. DOMAIN changed = DOMAIN purchases
    OBVIOUS
  <1>3. ASSUME NEW id \in DOMAIN purchases
        PROVE  /\ changed[id] \in Purchase
               /\ changed[id].pool = purchases[id].pool
               /\ changed[id].purchaser = purchases[id].purchaser
               /\ changed[id].protectionEnd = purchases[id].protectionEnd
               /\ changed[id].deletion = purchases[id].deletion
               /\ changed[id].shield = purchases[id].shield
               /\ changed[id].fees = IF id \in Charged THEN 0 ELSE purchases[id].fees
    <2>1. purchases[id] \in Purchase
      BY PurchaseAmounts
    <2>2. QED
      BY <2>1 DEF Purchase
  <1> HIDE DEF changed
  <1>4. /\ DOMAIN purchases' = DOMAIN purchases \ Deleted
        /\ \A id \in DOMAIN purchases' : id \in DOMAIN purchases /\ purchases'[id] = changed[id]
    BY <1>1, <1>2 DEF StoreDelete, Restrict
  <1>5. QED
    BY <1>3, <1>4

\* The pools after the EndBlocker: the shield of the deleted purchases is gone, and pools
\* without shield that take none are closed.
LEMMA EndBlockerPools ==
  ASSUME BookInv, EndBlocker
  PROVE  /\ IsStore(pools', Nat, Pool) /\ DOMAIN pools' \subseteq DOMAIN pools
         /\ \A id \in DOMAIN pools' :
              pools'[id].shield = pools[id].shield - ShieldOf({i \in Deleted : purchases[i].pool = id})
         /\ \A id \in DOMAIN pools \ DOMAIN pools' :
              pools[id].shield - ShieldOf({i \in Deleted : purchases[i].pool = id}) <= 0
  <1> DEFINE Of(id) == ShieldOf({i \in Deleted : purchases[i].pool = id})
             P == PoolsWithoutDeleted
  <1>1. \A id : Of(id) \in Nat
    <2>1. \A id : {i \in Deleted : purchases[i].pool = id} \in SUBSET DOMAIN purchases
      BY DEF Deleted, Expired
    <2>2. QED
      BY <2>1, ShieldOfSum
  <1>2. \A id \in DOMAIN pools : id \in Nat /\ pools[id] \in Pool
    BY DEF BookInv, IsStore
  <1>3. P = [id \in DOMAIN pools |-> [pools[id] EXCEPT !.shield = @ - Of(id)]]
    BY DEF PoolsWithoutDeleted
  <1> HIDE DEF Of, P
  <1>4. \A id \in DOMAIN pools : P[id] \in Pool /\ P[id].shield = pools[id].shield - Of(id)
    BY <1>1, <1>2, <1>3 DEF Pool
  <1>5. IsStore(P, Nat, Pool) /\ DOMAIN P = DOMAIN pools
    BY <1>2, <1>3, <1>4 DEF IsStore
  <1>6. pools' = OpenPools(P)
    BY DEF EndBlocker, P
  <1>7. /\ DOMAIN pools' = DOMAIN P \ {id \in DOMAIN P : P[id].shield <= 0 /\ P[id].shieldLimit <= 0}
        /\ \A id \in DOMAIN pools' : pools'[id] = P[id]
    BY <1>6 DEF OpenPools, StoreDelete, Restrict
  <1>8. IsStore(pools', Nat, Pool)
    BY <1>5, <1>6, StoreType, Zenon DEF OpenPools
  <1>9. \A id \in DOMAIN pools \ DOMAIN pools' : pools[id].shield - Of(id) <= 0
    BY <1>4, <1>5, <1>7
  <1>10. QED
    BY <1>4, <1>5, <1>7, <1>8, <1>9 DEF Of

\* The EndBlocker keeps BookInv.
LEMMA EndBlockerKeepsBooks ==
  ASSUME ProviderInv, BookInv, EndBlocker
  PROVE  BookInv'
  <1>1. ~ EndBlockerPanics
    BY DEF EndBlocker
  <1>2. /\ serviceFees' = ServiceFeesLeft
        /\ remainingServiceFees' = remainingServiceFees - GivenTotal
             + (IF lastUpdateTime = 0 THEN 0 ELSE blockServiceFees)
        /\ blockServiceFees' = IF lastUpdateTime = 0 THEN blockServiceFees ELSE 0
        /\ lastUpdateTime' = IF lastUpdateTime = 0 THEN 0 ELSE now
        /\ totalShield' = totalShield - ShieldOf(Deleted)
        /\ phase' = "staking" /\ UNCHANGED <<now, nextPoolID, nextPurchaseID>>
    BY DEF EndBlocker, GivenTotal
  <1>3. /\ serviceFees' \in Nat
    BY <1>1, <1>2, BlockFeesNat
  <1>4. remainingServiceFees' \in Nat
    BY <1>1, <1>2, GivenCovered DEF BookInv
  <1>5. blockServiceFees' \in Nat /\ lastUpdateTime' \in Nat /\ lastUpdateTime' <= now'
    BY <1>2 DEF BookInv
  <1>6. Deleted \in SUBSET DOMAIN purchases
    BY DEF Deleted, Expired
  <1>7. totalShield' \in Int
    BY <1>2, <1>6, ShieldOfSum DEF BookInv
  <1>8. /\ IsStore(pools', Nat, Pool) /\ IsFiniteSet(DOMAIN pools')
        /\ nextPoolID' \in Nat /\ \A id \in DOMAIN pools' : id < nextPoolID'
    BY <1>2, EndBlockerPools, FS_Subset DEF BookInv
  <1>9. /\ DOMAIN purchases' = DOMAIN purchases \ Deleted
        /\ \A id \in DOMAIN purchases' :
             /\ purchases'[id] \in Purchase
             /\ purchases'[id].protectionEnd = purchases[id].protectionEnd
             /\ purchases'[id].deletion = purchases[id].deletion
             /\ purchases'[id].shield = purchases[id].shield
    BY EndBlockerPurchases
  <1>10. IsFiniteSet(DOMAIN purchases')
    BY <1>9, FS_Subset DEF BookInv
  <1>11. IsStore(purchases', Nat, Purchase)
    <2>1. \E f, S : purchases' = [x \in S |-> f[x]]
      BY DEF EndBlocker, StoreDelete, Restrict
    <2>2. purchases' = [x \in DOMAIN purchases' |-> purchases'[x]]
      BY <2>1
    <2>3. DOMAIN purchases' \subseteq Nat
      BY <1>9 DEF BookInv, IsStore
    <2>4. QED
      BY <1>9, <2>2, <2>3 DEF IsStore
  <1>12. /\ nextPurchaseID' \in Nat /\ \A id \in DOMAIN purchases' : id < nextPurchaseID'
         /\ \A id \in DOMAIN purchases' :
              /\ purchases'[id].shield \in Nat
              /\ purchases'[id].protectionEnd <= purchases'[id].deletion
              /\ purchases'[id].protectionEnd <= now' + ProtectionPeriod
    BY <1>2, <1>9 DEF BookInv
  <1>13. now' \in Nat /\ phase' \in {"deliver", "staking", "gov", "halted"}
    BY <1>2 DEF BookInv
  <1>14. QED
    BY <1>3, <1>4, <1>5, <1>7, <1>8, <1>10, <1>11, <1>12, <1>13 DEF BookInv

\* A purchase of shield: the new purchase, the pool and the fees.
LEMMA BuyEffect ==
  ASSUME BookInv, NEW id, NEW pool, NEW shield, NEW a, NEW fees, NEW stake,
         Buys(id, pool, shield, a, fees, stake)
  PROVE  /\ BookInv'
         /\ nextPurchaseID \notin DOMAIN purchases
         /\ DOMAIN purchases' = DOMAIN purchases \cup {nextPurchaseID}
         /\ \A i \in DOMAIN purchases : purchases'[i] = purchases[i]
         /\ purchases'[nextPurchaseID].pool = id
         /\ purchases'[nextPurchaseID].shield = shield
         /\ purchases'[nextPurchaseID].fees = Dec(fees)
         /\ purchases'[nextPurchaseID].protectionEnd = now + ProtectionPeriod
         /\ id \in DOMAIN pools'
         /\ DOMAIN pools \subseteq DOMAIN pools'
         /\ pools'[id].shield = pool.shield + shield
         /\ \A i \in DOMAIN pools' \ {id} : i \in DOMAIN pools /\ pools'[i] = pools[i]
         /\ id \notin DOMAIN pools => pool.shield = 0 /\ id = nextPoolID
  <1> DEFINE p == NewPurchase(id, a, shield, fees)
             s == pool.shield
             np == [pool EXCEPT !.shield = s + shield]
             n == nextPurchaseID
  <1>1. /\ id \in Nat /\ pool \in Pool /\ a \in Accounts /\ shield \in Nat \ {0} /\ fees \in Nat
        /\ pools' = StoreSet(pools, id, np)
        /\ purchases' = StoreSet(purchases, n, p)
        /\ nextPurchaseID' = n + 1 /\ totalShield' = totalShield + shield
        /\ lastUpdateTime' = IF lastUpdateTime = 0 THEN now ELSE lastUpdateTime
        /\ UNCHANGED <<now, phase, blockServiceFees>>
    BY DEF Buys, BuyShield
  <1>2. Dec(fees) \in Nat
    BY <1>1, DecNat
  <1>3. /\ p \in Purchase /\ p.pool = id /\ p.shield = shield /\ p.fees = Dec(fees)
        /\ p.protectionEnd = now + ProtectionPeriod /\ p.deletion = p.protectionEnd
    <2>1. now + ProtectionPeriod \in Nat
      BY ParamsAssumption DEF BookInv
    <2>2. QED
      BY <1>1, <1>2, <2>1 DEF NewPurchase, Purchase
  <1>4. np \in Pool /\ np.shield = pool.shield + shield
    BY <1>1 DEF Pool
  <1>5. n \in Nat /\ n \notin DOMAIN purchases
    BY DEF BookInv
  <1> HIDE DEF p, np
  <1>6. /\ DOMAIN purchases' = DOMAIN purchases \cup {n} /\ purchases'[n] = p
        /\ \A i \in DOMAIN purchases : purchases'[i] = purchases[i]
    BY <1>1, <1>5 DEF StoreSet
  <1>7. IsStore(purchases', Nat, Purchase) /\ IsFiniteSet(DOMAIN purchases')
    BY <1>1, <1>3, <1>5, StoreType, StoreFinite, Zenon DEF BookInv
  <1>8. /\ nextPurchaseID' \in Nat /\ \A i \in DOMAIN purchases' : i < nextPurchaseID'
        /\ \A i \in DOMAIN purchases' :
             /\ purchases'[i].shield \in Nat
             /\ purchases'[i].protectionEnd <= purchases'[i].deletion
             /\ purchases'[i].protectionEnd <= now' + ProtectionPeriod
    <2>1. nextPurchaseID' \in Nat /\ \A i \in DOMAIN purchases' : i < nextPurchaseID'
      <3>1. \A i \in DOMAIN purchases : i \in Nat /\ i < n
        BY DEF BookInv, IsStore
      <3>2. QED
        BY <1>1, <1>5, <1>6, <3>1
    <2>2. now \in Nat /\ now + ProtectionPeriod \in Nat
      BY ParamsAssumption DEF BookInv
    <2>3. QED
      BY <1>1, <1>3, <1>6, <2>1, <2>2 DEF BookInv
  <1>9. /\ DOMAIN pools' = DOMAIN pools \cup {id} /\ pools'[id] = np
        /\ \A i \in DOMAIN pools \ {id} : pools'[i] = pools[i]
    BY <1>1 DEF StoreSet
  <1>10. IsStore(pools', Nat, Pool) /\ IsFiniteSet(DOMAIN pools')
    BY <1>1, <1>4, StoreType, StoreFinite, Zenon DEF BookInv
  <1>11. nextPoolID' \in Nat /\ \A i \in DOMAIN pools' : i < nextPoolID'
    <2>1. nextPoolID \in Nat /\ \A i \in DOMAIN pools : i \in Nat /\ i < nextPoolID
      BY DEF BookInv, IsStore
    <2>2. \/ id \in DOMAIN pools /\ nextPoolID' = nextPoolID
          \/ id = nextPoolID /\ nextPoolID' = nextPoolID + 1
      BY DEF Buys
    <2>3. QED
      BY <1>9, <2>1, <2>2
  <1>12. serviceFees' \in Nat /\ remainingServiceFees' \in Nat
    <2>1. \/ UNCHANGED <<serviceFees, remainingServiceFees>>
          \/ /\ serviceFees' = serviceFees + Dec(fees)
             /\ remainingServiceFees' = remainingServiceFees + Dec(fees)
      BY DEF Buys, BuyShield, PayServiceFees
    <2>2. QED
      BY <1>2, <2>1 DEF BookInv
  <1>13. totalShield' \in Int /\ lastUpdateTime' \in Nat /\ lastUpdateTime' <= now'
    BY <1>1 DEF BookInv
  <1>14. BookInv'
    BY <1>1, <1>7, <1>8, <1>10, <1>11, <1>12, <1>13 DEF BookInv
  <1>15. id \notin DOMAIN pools => pool.shield = 0 /\ id = nextPoolID
    BY DEF Buys
  <1>16. QED
    BY <1>3, <1>4, <1>5, <1>6, <1>9, <1>14, <1>15

\* The record of a pool changes.
LEMMA EditEffect ==
  ASSUME BookInv, NEW id, NEW pool, NEW fees, EditsPool(id, pool, fees)
  PROVE  /\ BookInv' /\ DOMAIN pools' = DOMAIN pools
         /\ \A i \in DOMAIN pools : pools'[i].shield = pools[i].shield
  <1>1. /\ DOMAIN pools' = DOMAIN pools /\ pools'[id] = pool
        /\ \A i \in DOMAIN pools \ {id} : pools'[i] = pools[i]
    BY DEF EditsPool, StoreSet
  <1>2. id \in Nat /\ pool \in Pool
    BY DEF EditsPool, BookInv, IsStore
  <1>3. IsStore(pools', Nat, Pool) /\ IsFiniteSet(DOMAIN pools')
    BY <1>2, StoreType, StoreFinite, Zenon DEF BookInv, EditsPool
  <1>4. Dec(fees) \in Nat
    <2>1. fees \in Nat
      BY DEF EditsPool
    <2>2. QED
      BY <2>1, DecNat
  <1>5. serviceFees' \in Nat /\ remainingServiceFees' \in Nat
    BY <1>4 DEF EditsPool, BookInv
  <1>6. BookInv'
    BY <1>1, <1>3, <1>5 DEF EditsPool, BookInv, purchaseVars
  <1>7. QED
    BY <1>1, <1>6 DEF EditsPool

\* Every step keeps BookInv.
LEMMA BookInvStep ==
  ASSUME ProviderInv, BookInv, [Next]_vars
  PROVE  BookInv'
  <1>1. ASSUME UNCHANGED <<now, pools, nextPoolID, totalShield, purchases, nextPurchaseID,
                           serviceFees, remainingServiceFees, blockServiceFees, lastUpdateTime>>,
               phase' \in {"deliver", "staking", "gov", "halted"}
        PROVE  BookInv'
    BY <1>1 DEF BookInv
  <1>2. CASE ProviderStep
    BY <1>1, <1>2, ProviderStepFrame
  <1>3. ASSUME NEW a \in Accounts, WithdrawRewards(a) PROVE BookInv'
    <2>1. remainingServiceFees' \in Nat
      BY <1>3, WithdrawRewardsEffect DEF BookInv
    <2>2. UNCHANGED <<now, phase, pools, nextPoolID, totalShield, purchases, nextPurchaseID,
                      serviceFees, blockServiceFees, lastUpdateTime>>
      BY <1>3 DEF WithdrawRewards, poolVars, purchaseVars
    <2>3. QED
      BY <2>1, <2>2 DEF BookInv
  <1>4. CASE BuyStep
    BY <1>4, BuyEffect DEF BuyStep
  <1>5. CASE EditStep
    BY <1>5, EditEffect DEF EditStep
  <1>6. ASSUME NEW a, NEW id, NEW amount, UnstakeFromShield(id, a, amount) PROVE BookInv'
    BY <1>1, <1>6 DEF UnstakeFromShield, DeliverTx, poolVars, purchaseVars, feeVars
  <1>7. CASE EndBlocker
    BY <1>7, EndBlockerKeepsBooks
  <1>8. CASE EndBlockerHalts \/ StakingEndBlocker
    BY <1>1, <1>8 DEF EndBlockerHalts, StakingEndBlocker, poolVars, purchaseVars, feeVars
  <1>9. ASSUME NEW elapsed \in Nat, NEW reward \in Nat, NextBlock(elapsed, reward) PROVE BookInv'
    <2>1. /\ now' = now + elapsed /\ phase' = "deliver"
          /\ blockServiceFees' = blockServiceFees + Dec(reward)
          /\ UNCHANGED <<pools, nextPoolID, totalShield, purchases, nextPurchaseID,
                         serviceFees, remainingServiceFees, lastUpdateTime>>
      BY <1>9 DEF NextBlock, poolVars, purchaseVars
    <2>2. now' \in Nat /\ now <= now'
      BY <2>1 DEF BookInv
    <2>3. blockServiceFees' \in Nat
      <3>1. Dec(reward) \in Nat
        BY DecNat
      <3>2. QED
        BY <2>1, <3>1 DEF BookInv
    <2>4. \A id \in DOMAIN purchases : purchases[id].protectionEnd <= now' + ProtectionPeriod
      BY <2>1, <2>2, PurchaseAmounts, ParamsAssumption DEF BookInv
    <2>5. QED
      BY <2>1, <2>2, <2>3, <2>4 DEF BookInv
  <1>10. CASE UNCHANGED vars
    BY <1>1, <1>10 DEF vars, poolVars, purchaseVars, feeVars, BookInv
  <1>11. QED
    BY <1>2, <1>3, <1>4, <1>5, <1>6, <1>7, <1>8, <1>9, <1>10, StepKinds

-----------------------------------------------------------------------------
(* Total, pools and purchases agree on the shield.                         *)

OfPool(ps, id) == {i \in DOMAIN ps : ps[i].pool = id}

ShieldInv ==
  /\ totalClaimed = 0
  /\ \A i \in DOMAIN purchases : purchases[i].shield > 0
  /\ totalShield = ShieldIn(purchases, DOMAIN purchases)
  /\ \A i \in DOMAIN purchases : purchases[i].pool \in DOMAIN pools
  /\ \A id \in DOMAIN pools : pools[id].shield = ShieldIn(purchases, OfPool(purchases, id))

\* Sums over parts of the purchases are natural numbers.
LEMMA ShieldInNat ==
  ASSUME BookInv, NEW S \in SUBSET DOMAIN purchases
  PROVE  /\ IsFiniteSet(S) /\ ShieldIn(purchases, S) \in Nat
         /\ \A i \in S : Shields(purchases)[i] \in Nat
  <1>1. IsFiniteSet(S)
    BY FS_Subset DEF BookInv
  <1>2. \A i \in S : Shields(purchases)[i] \in Nat
    BY PurchaseAmounts DEF Shields
  <1>3. QED
    BY <1>1, <1>2, SumNat DEF ShieldIn

\* ShieldInv, which adds up the purchases, gives the sums that the invariants of the
\* code take over the pools.
LEMMA ShieldInvAddsUp ==
  ASSUME BookInv, ShieldInv
  PROVE  ShieldAddsUp
  <1> DEFINE K == DOMAIN pools
             S == DOMAIN purchases
             part == [id \in K |-> OfPool(purchases, id)]
             f == Shields(purchases)
             g == [id \in K |-> pools[id].shield]
  <1>1. IsFiniteSet(K) /\ IsFiniteSet(S)
    BY DEF BookInv
  <1>2. \A i \in S : f[i] \in Nat
    BY PurchaseAmounts DEF Shields
  <1>3. \A id \in K : part[id] \in SUBSET S /\ g[id] = SumFunctionOnSet(f, part[id])
    BY DEF ShieldInv, ShieldIn, OfPool
  <1>4. \A id, k \in K : id # k => part[id] \cap part[k] = {}
    BY DEF OfPool
  <1>5. \A i \in S : \E id \in K : i \in part[id]
    BY DEF OfPool, ShieldInv
  <1>6. PoolShieldIsSum
    <2>1. \A id : {i \in DOMAIN purchases : purchases[i].pool = id} = OfPool(purchases, id)
      BY DEF OfPool
    <2>2. \A id : ShieldOf(OfPool(purchases, id)) = ShieldIn(purchases, OfPool(purchases, id))
      BY ShieldOfSum DEF OfPool
    <2>3. QED
      BY <2>1, <2>2 DEF PoolShieldIsSum, ShieldInv
  <1> HIDE DEF K, S, part, f, g
  <1>7. SumFunctionOnSet(g, K) = SumFunctionOnSet(f, S)
    BY <1>1, <1>2, <1>3, <1>4, <1>5, SumCover
  <1>8. ShieldInvariant
    BY <1>7 DEF ShieldInvariant, SumOver, ShieldInv, ShieldIn, K, S, f, g
  <1>9. QED
    BY <1>6, <1>8 DEF ShieldAddsUp

\* The purchases agree on a set: so do their sums.
LEMMA ShieldInEqual ==
  ASSUME BookInv, NEW S \in SUBSET DOMAIN purchases, NEW ps, S \subseteq DOMAIN ps,
         \A i \in S : ps[i].shield = purchases[i].shield
  PROVE  ShieldIn(ps, S) = ShieldIn(purchases, S)
  <1>1. IsFiniteSet(S)
    BY ShieldInNat
  <1>2. \A i \in S : Shields(ps)[i] = Shields(purchases)[i]
    BY DEF Shields
  <1>3. QED
    BY <1>1, <1>2, SumEqual DEF ShieldIn

\* A purchase of shield keeps ShieldInv.
LEMMA BuyKeepsShield ==
  ASSUME BookInv, ShieldInv, NEW id, NEW pool, NEW shield, NEW a, NEW fees, NEW stake,
         Buys(id, pool, shield, a, fees, stake)
  PROVE  ShieldInv'
  <1> DEFINE n == nextPurchaseID
             D == DOMAIN purchases
             ps == purchases'
  <1>1. /\ BookInv' /\ n \notin D /\ DOMAIN ps = D \cup {n}
        /\ \A i \in D : ps[i] = purchases[i]
        /\ ps[n].pool = id /\ ps[n].shield = shield
        /\ id \in DOMAIN pools' /\ DOMAIN pools \subseteq DOMAIN pools'
        /\ pools'[id].shield = pool.shield + shield
        /\ \A i \in DOMAIN pools' \ {id} : i \in DOMAIN pools /\ pools'[i] = pools[i]
        /\ id \notin DOMAIN pools => pool.shield = 0 /\ id = nextPoolID
    BY BuyEffect
  <1>2. /\ shield \in Nat /\ totalShield' = totalShield + shield
        /\ id \in DOMAIN pools => pool.shield = pools[id].shield
    BY DEF Buys, BuyShield, BookInv
  <1>10. totalClaimed' = 0 /\ \A i \in DOMAIN ps : ps[i].shield > 0
    <2>1. shield > 0 /\ totalClaimed' = totalClaimed
      BY DEF Buys, BuyShield
    <2>2. QED
      BY <1>1, <2>1 DEF ShieldInv
  <1>3. ASSUME NEW S \in SUBSET D
        PROVE  /\ ShieldIn(ps, S) = ShieldIn(purchases, S)
               /\ ShieldIn(ps, S \cup {n}) = ShieldIn(purchases, S) + shield
    <2>1. ShieldIn(ps, S) = ShieldIn(purchases, S)
      BY <1>1, ShieldInEqual
    <2>2. IsFiniteSet(S) /\ n \notin S /\ ShieldIn(purchases, S) \in Nat
      BY <1>1, ShieldInNat
    <2>3. \A x \in S \cup {n} : Shields(ps)[x] \in Nat
      <3>1. \A x \in DOMAIN ps : ps[x].shield \in Nat
        BY <1>1 DEF BookInv
      <3>2. QED
        BY <1>1, <3>1 DEF Shields
    <2>4. Shields(ps)[n] = shield
      BY <1>1 DEF Shields
    <2> HIDE DEF ps, n
    <2>5. SumFunctionOnSet(Shields(ps), S \cup {n})
            = Shields(ps)[n] + SumFunctionOnSet(Shields(ps), S)
      BY <2>2, <2>3, SumAdd
    <2>6. QED
      BY <1>2, <2>1, <2>2, <2>4, <2>5 DEF ShieldIn
  <1>4. totalShield' = ShieldIn(ps, DOMAIN ps)
    BY <1>1, <1>2, <1>3 DEF ShieldInv
  <1>5. \A i \in DOMAIN ps : ps[i].pool \in DOMAIN pools'
    BY <1>1 DEF ShieldInv
  <1>6. /\ OfPool(ps, id) = OfPool(purchases, id) \cup {n}
        /\ \A k : k # id => OfPool(ps, k) = OfPool(purchases, k)
        /\ \A k : OfPool(purchases, k) \in SUBSET D
    BY <1>1 DEF OfPool
  <1> HIDE DEF ps, n, D
  <1>7. pools'[id].shield = ShieldIn(ps, OfPool(ps, id))
    <2>1. ShieldIn(ps, OfPool(ps, id)) = ShieldIn(purchases, OfPool(purchases, id)) + shield
      BY <1>3, <1>6
    <2>2. CASE id \in DOMAIN pools
      BY <1>1, <1>2, <2>1, <2>2 DEF ShieldInv
    <2>3. CASE id \notin DOMAIN pools
      <3>1. OfPool(purchases, id) = {}
        BY <2>3 DEF OfPool, ShieldInv
      <3>2. ShieldIn(purchases, {}) = 0
        BY SumEmpty DEF ShieldIn
      <3>3. QED
        BY <1>1, <2>1, <2>3, <3>1, <3>2
    <2>4. QED
      BY <2>2, <2>3
  <1>8. \A k \in DOMAIN pools' \ {id} : pools'[k].shield = ShieldIn(ps, OfPool(ps, k))
    BY <1>1, <1>3, <1>6 DEF ShieldInv
  <1>9. QED
    BY <1>4, <1>5, <1>7, <1>8, <1>10 DEF ShieldInv, ps

\* The EndBlocker keeps ShieldInv.
LEMMA EndBlockerKeepsShield ==
  ASSUME BookInv, ShieldInv, EndBlocker
  PROVE  ShieldInv'
  <1> DEFINE D == DOMAIN purchases
             X == Deleted
             ps == purchases'
  <1>1. /\ DOMAIN ps = D \ X
        /\ \A i \in DOMAIN ps : ps[i].shield = purchases[i].shield /\ ps[i].pool = purchases[i].pool
    BY EndBlockerPurchases
  <1>2. X \in SUBSET D
    BY DEF Deleted, Expired
  <1>3. totalShield' = totalShield - ShieldOf(X)
    BY DEF EndBlocker
  <1>4. /\ DOMAIN pools' \subseteq DOMAIN pools
        /\ \A id \in DOMAIN pools' :
             pools'[id].shield = pools[id].shield - ShieldOf({i \in X : purchases[i].pool = id})
        /\ \A id \in DOMAIN pools \ DOMAIN pools' :
             pools[id].shield - ShieldOf({i \in X : purchases[i].pool = id}) <= 0
    BY EndBlockerPools
  <1>5. ASSUME NEW S \in SUBSET D
        PROVE  /\ ShieldIn(purchases, S) = ShieldIn(ps, S \ X) + ShieldOf(S \cap X)
               /\ ShieldIn(ps, S \ X) \in Nat /\ ShieldOf(S \cap X) \in Nat
               /\ ShieldIn(ps, S \ X) = ShieldIn(purchases, S \ X)
    <2>1. S \ X \in SUBSET D /\ S \cap X \in SUBSET S /\ S \cap X \in SUBSET D
          /\ S \ (S \cap X) = S \ X
      OBVIOUS
    <2>2. ShieldIn(ps, S \ X) = ShieldIn(purchases, S \ X)
      BY <1>1, <2>1, ShieldInEqual
    <2>3. ShieldOf(S \cap X) = ShieldIn(purchases, S \cap X)
      BY <2>1, ShieldOfSum
    <2>4. IsFiniteSet(S) /\ \A i \in S : Shields(purchases)[i] \in Nat
      BY ShieldInNat
    <2>5. /\ SumFunctionOnSet(Shields(purchases), S)
               = SumFunctionOnSet(Shields(purchases), S \ (S \cap X))
                   + SumFunctionOnSet(Shields(purchases), S \cap X)
          /\ SumFunctionOnSet(Shields(purchases), S \ (S \cap X)) \in Nat
          /\ SumFunctionOnSet(Shields(purchases), S \cap X) \in Nat
      BY <2>1, <2>4, SumDifference
    <2>6. QED
      BY <2>1, <2>2, <2>3, <2>5 DEF ShieldIn
  <1> HIDE DEF D, X, ps
  <1>6. totalShield' = ShieldIn(ps, DOMAIN ps)
    <2>1. D \in SUBSET D /\ D \cap X = X
      BY <1>2
    <2>2. ShieldIn(purchases, D) = ShieldIn(ps, D \ X) + ShieldOf(X)
      BY <1>5, <2>1
    <2>3. ShieldIn(ps, D \ X) \in Nat /\ ShieldOf(X) \in Nat
      BY <1>5, <2>1
    <2>4. totalShield = ShieldIn(purchases, D)
      BY DEF ShieldInv, D
    <2>5. QED
      BY <1>1, <1>3, <2>2, <2>3, <2>4
  <1>7. ASSUME NEW id \in DOMAIN pools
        PROVE  pools[id].shield - ShieldOf({i \in X : purchases[i].pool = id})
                 = ShieldIn(ps, OfPool(ps, id))
    <2> DEFINE S == OfPool(purchases, id)
    <2>1. S \in SUBSET D /\ S \ X = OfPool(ps, id) /\ S \cap X = {i \in X : purchases[i].pool = id}
      BY <1>1, <1>2 DEF OfPool, D
    <2>2. pools[id].shield = ShieldIn(purchases, S)
      BY DEF ShieldInv
    <2> HIDE DEF S
    <2>3. PICK x \in Nat, y \in Nat :
            /\ x = ShieldIn(ps, S \ X) /\ y = ShieldOf(S \cap X)
            /\ ShieldIn(purchases, S) = x + y
      BY <1>5, <2>1
    <2>4. /\ x = ShieldIn(ps, OfPool(ps, id))
          /\ y = ShieldOf({i \in X : purchases[i].pool = id})
      BY <2>1, <2>3, Zenon
    <2>5. QED
      BY <2>2, <2>3, <2>4
  <1>8. \A id \in DOMAIN pools' : pools'[id].shield = ShieldIn(ps, OfPool(ps, id))
    BY <1>4, <1>7
  <1>9. ASSUME NEW i \in DOMAIN ps PROVE ps[i].pool \in DOMAIN pools'
    <2> DEFINE id == purchases[i].pool
               S == OfPool(ps, id)
    <2>1. i \in D /\ i \notin X /\ ps[i].pool = id /\ id \in DOMAIN pools
      BY <1>1 DEF ShieldInv, D
    <2>2. i \in S /\ S \in SUBSET D /\ S \ X = S
      BY <1>1, <2>1 DEF OfPool
    <2> HIDE DEF S
    <2>3. ShieldIn(ps, S) = ShieldIn(purchases, S)
      BY <1>5, <2>2
    <2>4. IsFiniteSet(S) /\ \A j \in S : Shields(purchases)[j] \in Nat /\ Shields(purchases)[j] > 0
      BY <2>2, ShieldInNat DEF D, ShieldInv, Shields
    <2>5. ShieldIn(purchases, S) > 0
      <3>1. SumFunctionOnSet(Shields(purchases), S)
              = Shields(purchases)[i] + SumFunctionOnSet(Shields(purchases), S \ {i})
        BY <2>2, <2>4, SumRemove
      <3>2. SumFunctionOnSet(Shields(purchases), S \ {i}) \in Nat
        <4>1. S \ {i} \in SUBSET D
          BY <2>2
        <4>2. QED
          BY <4>1, ShieldInNat DEF D, ShieldIn
      <3>3. QED
        BY <2>2, <2>4, <3>1, <3>2 DEF ShieldIn
    <2>6. CASE id \notin DOMAIN pools'
      <3>1. ShieldIn(ps, S) <= 0
        BY <1>4, <1>7, <2>1, <2>6 DEF S
      <3>2. ShieldIn(purchases, S) \in Nat
        BY <2>2, ShieldInNat DEF D
      <3>3. QED
        BY <2>3, <2>5, <3>1, <3>2
    <2>7. QED
      BY <2>1, <2>6
  <1>10. totalClaimed' = 0 /\ \A i \in DOMAIN ps : ps[i].shield > 0
    BY <1>1 DEF ShieldInv, EndBlocker, D
  <1>11. QED
    BY <1>6, <1>8, <1>9, <1>10 DEF ShieldInv, ps

\* Every step keeps ShieldInv.
LEMMA ShieldInvStep ==
  ASSUME BookInv, ShieldInv, [Next]_vars
  PROVE  ShieldInv'
  <1>1. ASSUME UNCHANGED <<purchases, totalShield, totalClaimed>>, DOMAIN pools' = DOMAIN pools,
               \A id \in DOMAIN pools : pools'[id].shield = pools[id].shield
        PROVE  ShieldInv'
    BY <1>1 DEF ShieldInv
  <1>2. CASE ProviderStep
    BY <1>1, <1>2, ProviderStepFrame
  <1>3. ASSUME NEW a \in Accounts, WithdrawRewards(a) PROVE ShieldInv'
    BY <1>1, <1>3 DEF WithdrawRewards, poolVars, purchaseVars
  <1>4. CASE BuyStep
    BY <1>4, BuyKeepsShield DEF BuyStep
  <1>5. CASE EditStep
    <2>1. PICK id, pool, fees : EditsPool(id, pool, fees)
      BY <1>5 DEF EditStep
    <2>2. UNCHANGED <<purchases, totalShield, totalClaimed>>
      BY <2>1 DEF EditsPool, purchaseVars
    <2>3. QED
      BY <1>1, <2>1, <2>2, EditEffect
  <1>6. ASSUME NEW a, NEW id, NEW amount, UnstakeFromShield(id, a, amount) PROVE ShieldInv'
    BY <1>1, <1>6 DEF UnstakeFromShield, poolVars, purchaseVars
  <1>7. CASE EndBlocker
    BY <1>7, EndBlockerKeepsShield
  <1>8. CASE EndBlockerHalts \/ StakingEndBlocker
    BY <1>1, <1>8 DEF EndBlockerHalts, StakingEndBlocker, poolVars, purchaseVars
  <1>9. ASSUME NEW elapsed, NEW reward, NextBlock(elapsed, reward) PROVE ShieldInv'
    BY <1>1, <1>9 DEF NextBlock, poolVars, purchaseVars
  <1>10. CASE UNCHANGED vars
    BY <1>1, <1>10 DEF vars, poolVars, purchaseVars
  <1>11. QED
    BY <1>2, <1>3, <1>4, <1>5, <1>6, <1>7, <1>8, <1>9, <1>10, StepKinds

-----------------------------------------------------------------------------
(* The first results.                                                      *)

\* At genesis there are no providers, withdraws, pools and purchases.
LEMMA InitBooks ==
  ASSUME Init
  PROVE  ProviderInv /\ BookInv /\ ShieldInv
  <1>1. /\ now = 1 /\ phase = "deliver" /\ providers = <<>> /\ withdraws = <<>>
        /\ totalCollateral = 0 /\ totalWithdrawing = 0 /\ totalClaimed = 0
        /\ pools = <<>> /\ nextPoolID = 1 /\ totalShield = 0
        /\ purchases = <<>> /\ nextPurchaseID = 1
        /\ serviceFees = 0 /\ remainingServiceFees = 0 /\ blockServiceFees = 0
        /\ lastUpdateTime = 0 /\ delegated = [a \in Accounts |-> InitDelegated]
    BY DEF Init
  <1>2. DOMAIN <<>> = {} /\ IsFiniteSet({}) /\ \A f : SumFunctionOnSet(f, {}) = 0
    BY FS_EmptySet, SumEmpty
  <1>3. \A Keys, Values : IsStore(<<>>, Keys, Values)
    BY DEF IsStore
  <1>4. GoodProviders(providers) /\ GoodQueue(withdraws) /\ Queued(providers, withdraws)
    BY <1>1, <1>2, <1>3 DEF GoodProviders, GoodQueue, Queued
  <1>5. /\ TotalCollateral(providers) = 0 /\ TotalWithdrawing(providers) = 0
        /\ AmountOf(withdraws, DOMAIN withdraws) = 0
    BY <1>1, <1>2, Zenon DEF TotalCollateral, TotalWithdrawing, AmountOf, SumOver
  <1>6. delegated \in [Accounts -> Nat]
    BY <1>1, InputsAssumption
  <1>7. ProviderInv
    BY <1>1, <1>2, <1>4, <1>5, <1>6 DEF ProviderInv
  <1>8. BookInv
    BY <1>1, <1>2, <1>3 DEF BookInv
  <1>9. ShieldIn(purchases, DOMAIN purchases) = 0
    BY <1>1, <1>2, Zenon DEF ShieldIn
  <1>10. ShieldInv
    BY <1>1, <1>2, <1>9 DEF ShieldInv
  <1>11. QED
    BY <1>7, <1>8, <1>10

\* The providers, the books and the shield stay consistent.
THEOREM ShieldBooks == Spec => [](ProviderInv /\ BookInv /\ ShieldInv)
  <1>1. Init => ProviderInv /\ BookInv /\ ShieldInv
    BY InitBooks
  <1>2. ProviderInv /\ BookInv /\ ShieldInv /\ [Next]_vars
          => (ProviderInv /\ BookInv /\ ShieldInv)'
    BY ProviderInvStep, BookInvStep, ShieldInvStep
  <1>3. QED
    BY <1>1, <1>2, PTL DEF Spec

\* ProviderInvariant of keeper/invariants.go: the totals that the messages, the staking
\* hooks and the EndBlocker keep are the sums over the providers.
THEOREM ShieldProviderInvariant == Spec => []ProviderInvariant
  <1>1. ProviderInv => ProviderInvariant
    BY DEF ProviderInv, ProviderInvariant, TotalCollateral, TotalWithdrawing
  <1>2. QED
    BY <1>1, ShieldBooks, PTL

\* The withdraw queue, filled by messages and by the staking hooks, holds what every
\* provider is withdrawing, and never more than its collateral.
THEOREM ShieldWithdrawingIsQueued == Spec => []WithdrawingIsQueued
  <1>1. ProviderInv => WithdrawingIsQueued
    <2>1. \A a : WithdrawnAmount(WithdrawsOf(a)) = AmountOf(withdraws, OfAddress(withdraws, a))
      BY DEF WithdrawnAmount, WithdrawsOf, OfAddress
    <2>2. QED
      BY <2>1 DEF ProviderInv, Queued, GoodProviders, Sound, WithdrawingIsQueued
  <1>2. QED
    BY <1>1, ShieldBooks, PTL

\* Whatever is undelegated or redelegated, collateral that is not being withdrawn is
\* backed by the delegation on record.
THEOREM ShieldCollateralBacked == Spec => []CollateralBacked
  <1>1. ProviderInv => CollateralBacked
    BY DEF ProviderInv, GoodProviders, Sound, CollateralBacked
  <1>2. QED
    BY <1>1, ShieldBooks, PTL

\* The total shield, the pools and the purchases agree, also after pools are closed.
THEOREM ShieldShieldAddsUp == Spec => []ShieldAddsUp
  BY ShieldBooks, ShieldInvAddsUp, PTL

-----------------------------------------------------------------------------
(* The total of the fees covers those of the purchases.                    *)

FeesIn(ps) == SumFunctionOnSet(Fees(ps), DOMAIN ps)

FeeInv == FeesIn(purchases) <= serviceFees

\* The fees of the purchases are natural numbers.
LEMMA FeesNat ==
  ASSUME BookInv
  PROVE  /\ \A i \in DOMAIN purchases : Fees(purchases)[i] \in Nat
         /\ FeesIn(purchases) \in Nat
  <1>1. IsFiniteSet(DOMAIN purchases) /\ \A i \in DOMAIN purchases : Fees(purchases)[i] \in Nat
    BY PurchaseAmounts DEF BookInv, Fees
  <1>2. QED
    BY <1>1, SumNat DEF FeesIn

\* What is charged, as a sum over one function of all purchases.
LEMMA ChargedFeesSum ==
  ASSUME BookInv
  PROVE  ChargedFees = SumFunctionOnSet(Fees(purchases), Charged)
  <1>1. Charged \subseteq DOMAIN purchases /\ IsFiniteSet(Charged)
    BY ChargedFeesNat
  <1>2. \A i \in Charged : [j \in Charged |-> purchases[j].fees][i] = Fees(purchases)[i]
    BY <1>1 DEF Fees
  <1>3. SumFunctionOnSet([j \in Charged |-> purchases[j].fees], Charged)
          = SumFunctionOnSet(Fees(purchases), Charged)
    BY <1>1, <1>2, SumEqual
  <1>4. QED
    BY <1>3 DEF ChargedFees, SumOver

\* A purchase adds its fees to the total.
LEMMA BuyKeepsFees ==
  ASSUME BookInv, FeeInv, NEW id, NEW pool, NEW shield, NEW a, NEW fees, NEW stake,
         Buys(id, pool, shield, a, fees, stake)
  PROVE  FeeInv' /\ fees \in Nat /\ serviceFees' = serviceFees + Dec(fees)
  <1> DEFINE n == nextPurchaseID
             D == DOMAIN purchases
             f == Fees(purchases)
             g == Fees(purchases')
  <1>1. /\ n \notin D /\ DOMAIN purchases' = D \cup {n} /\ purchases'[n].fees = Dec(fees)
        /\ \A i \in D : purchases'[i] = purchases[i]
    BY BuyEffect
  <1>2. fees \in Nat /\ Dec(fees) \in Nat
    <2>1. fees \in Nat
      BY DEF Buys
    <2>2. QED
      BY <2>1, DecNat
  <1>3. serviceFees' = serviceFees + Dec(fees)
    <2>1. CASE fees > 0
      BY <2>1 DEF Buys, BuyShield, PayServiceFees
    <2>2. CASE fees = 0
      <3>1. serviceFees' = serviceFees /\ serviceFees \in Nat
        BY <2>2 DEF Buys, BuyShield, BookInv
      <3>2. Dec(fees) = 0
        BY <2>2, PrecisionAssumption DEF Dec
      <3>3. QED
        BY <3>1, <3>2
    <2>3. QED
      BY <1>2, <2>1, <2>2
  <1>4. /\ \A i \in D : f[i] \in Nat /\ g[i] = f[i]
        /\ g[n] = Dec(fees)
        /\ IsFiniteSet(D)
    BY <1>1, FeesNat DEF Fees, BookInv
  <1> HIDE DEF f, g, n, D
  <1>5. SumFunctionOnSet(g, D \cup {n}) = g[n] + SumFunctionOnSet(g, D)
    BY <1>1, <1>2, <1>4, SumAdd
  <1>6. SumFunctionOnSet(g, D) = SumFunctionOnSet(f, D) /\ SumFunctionOnSet(f, D) \in Nat
    BY <1>4, SumEqual, SumNat
  <1>7. FeesIn(purchases') = Dec(fees) + FeesIn(purchases) /\ FeesIn(purchases) \in Nat
    BY <1>1, <1>4, <1>5, <1>6 DEF FeesIn, f, g, D
  <1>8. serviceFees \in Nat /\ FeesIn(purchases) <= serviceFees
    BY DEF BookInv, FeeInv
  <1>9. QED
    BY <1>2, <1>3, <1>7, <1>8 DEF FeeInv

\* A purchase is charged out of the total once: its fees become zero.
LEMMA EndBlockerKeepsFees ==
  ASSUME BookInv, FeeInv, EndBlocker
  PROVE  FeeInv'
  <1> DEFINE D == DOMAIN purchases
             C == Charged
             E == DOMAIN purchases'
             f == Fees(purchases)
             g == Fees(purchases')
             Sum(h, S) == SumFunctionOnSet(h, S)
  <1>1. E \subseteq D /\ \A i \in E : g[i] = IF i \in C THEN 0 ELSE f[i]
    BY EndBlockerPurchases DEF Fees
  <1>2. /\ IsFiniteSet(D) /\ C \subseteq D /\ \A i \in D : f[i] \in Nat
    BY FeesNat, ChargedFeesNat DEF BookInv
  <1>3. ChargedFees = Sum(f, C)
    BY ChargedFeesSum
  <1>4. FeesIn(purchases) = Sum(f, D) /\ FeesIn(purchases)' = Sum(g, E)
    BY DEF FeesIn
  <1>5. serviceFees' = serviceFees - ChargedFees
    BY DEF EndBlocker, ServiceFeesLeft
  <1> HIDE DEF D, C, E, f, g
  <1>6. \A i \in E : g[i] \in Nat
    BY <1>1, <1>2
  <1>7. IsFiniteSet(E) /\ IsFiniteSet(E \ C) /\ IsFiniteSet(E \cap C)
    BY <1>1, <1>2, FS_Subset, FS_Difference, FS_Intersection
  <1>8. Sum(g, E) = Sum(f, E \ C)
    <2>1. E \cap C \in SUBSET E /\ E \ (E \cap C) = E \ C
      OBVIOUS
    <2>2. Sum(g, E) = Sum(g, E \ (E \cap C)) + Sum(g, E \cap C) /\ Sum(g, E \ (E \cap C)) \in Nat
      BY <1>6, <1>7, <2>1, SumDifference
    <2>3. \A i \in E \cap C : g[i] = 0
      BY <1>1
    <2>4. Sum(g, E \cap C) = 0
      BY <1>7, <2>3, SumZero
    <2>5. \A i \in E \ C : g[i] = f[i]
      BY <1>1
    <2>6. Sum(g, E \ C) = Sum(f, E \ C)
      BY <1>7, <2>5, SumEqual
    <2> HIDE DEF Sum
    <2>7. QED
      BY <2>1, <2>2, <2>4, <2>6
  <1>9. Sum(f, D) = Sum(f, D \ C) + Sum(f, C) /\ Sum(f, D \ C) \in Nat /\ Sum(f, C) \in Nat
    BY <1>2, SumDifference
  <1>10. Sum(f, E \ C) <= Sum(f, D \ C) /\ Sum(f, E \ C) \in Nat
    <2>1. E \ C \in SUBSET (D \ C) /\ IsFiniteSet(D \ C) /\ \A i \in D \ C : f[i] \in Nat
      BY <1>1, <1>2, FS_Difference
    <2>2. /\ Sum(f, D \ C) = Sum(f, (D \ C) \ (E \ C)) + Sum(f, E \ C)
          /\ Sum(f, (D \ C) \ (E \ C)) \in Nat /\ Sum(f, E \ C) \in Nat
      BY <2>1, SumDifference
    <2> HIDE DEF Sum
    <2>3. QED
      BY <2>2
  <1> HIDE DEF Sum
  <1>11. serviceFees \in Nat /\ Sum(f, D) <= serviceFees
    BY <1>4 DEF BookInv, FeeInv
  <1>12. Sum(f, E \ C) <= serviceFees - Sum(f, C)
    BY <1>9, <1>10, <1>11
  <1>13. QED
    BY <1>3, <1>4, <1>5, <1>8, <1>12 DEF FeeInv

\* Every step keeps FeeInv.
LEMMA FeeInvStep ==
  ASSUME ProviderInv, BookInv, FeeInv, [Next]_vars
  PROVE  FeeInv'
  <1>1. ASSUME UNCHANGED <<purchases, serviceFees>> PROVE FeeInv'
    BY <1>1 DEF FeeInv
  <1>2. CASE ProviderStep
    BY <1>1, <1>2, ProviderStepFrame
  <1>3. ASSUME NEW a \in Accounts, WithdrawRewards(a) PROVE FeeInv'
    BY <1>1, <1>3 DEF WithdrawRewards, purchaseVars
  <1>4. CASE BuyStep
    BY <1>4, BuyKeepsFees DEF BuyStep
  <1>5. CASE EditStep
    <2>1. PICK id, pool, fees : EditsPool(id, pool, fees)
      BY <1>5 DEF EditStep
    <2>2. fees \in Nat /\ serviceFees' = serviceFees + Dec(fees) /\ purchases' = purchases
      BY <2>1 DEF EditsPool, purchaseVars
    <2>3. Dec(fees) \in Nat /\ serviceFees \in Nat /\ FeesIn(purchases) \in Nat
      BY <2>2, DecNat, FeesNat DEF BookInv
    <2>4. QED
      BY <2>2, <2>3 DEF FeeInv
  <1>6. ASSUME NEW a, NEW id, NEW amount, UnstakeFromShield(id, a, amount) PROVE FeeInv'
    BY <1>1, <1>6 DEF UnstakeFromShield, purchaseVars, feeVars
  <1>7. CASE EndBlocker
    BY <1>7, EndBlockerKeepsFees
  <1>8. CASE EndBlockerHalts \/ StakingEndBlocker
    BY <1>1, <1>8 DEF EndBlockerHalts, StakingEndBlocker, purchaseVars, feeVars
  <1>9. ASSUME NEW elapsed, NEW reward, NextBlock(elapsed, reward) PROVE FeeInv'
    BY <1>1, <1>9 DEF NextBlock, purchaseVars
  <1>10. CASE UNCHANGED vars
    BY <1>1, <1>10 DEF vars, purchaseVars, feeVars
  <1>11. QED
    BY <1>2, <1>3, <1>4, <1>5, <1>6, <1>7, <1>8, <1>9, <1>10, StepKinds

\* The fees cover those of the purchases in every state.
THEOREM ShieldFeeInv == Spec => []FeeInv
  <1>1. Init => FeeInv
    <2> SUFFICES ASSUME Init PROVE FeeInv
      OBVIOUS
    <2>1. purchases = <<>> /\ serviceFees = 0
      BY DEF Init
    <2>2. SumFunctionOnSet(Fees(purchases), {}) = 0 /\ DOMAIN purchases = {}
      BY <2>1, SumEmpty
    <2>3. QED
      BY <2>1, <2>2 DEF FeeInv, FeesIn
  <1>2. ProviderInv /\ BookInv /\ FeeInv /\ [Next]_vars => FeeInv'
    BY FeeInvStep
  <1>3. QED
    BY <1>1, <1>2, ShieldBooks, PTL DEF Spec

\* Charging a purchase that expires never takes out more fees than there are, and giving
\* the providers their shares never more than remain: DecCoins.Sub does not panic.
THEOREM ShieldFeesNotOverdrawn == Spec => []FeesNotOverdrawn
  <1>1. BookInv /\ FeeInv => FeesNotOverdrawn
    <2> SUFFICES ASSUME BookInv, FeeInv PROVE FeesNotOverdrawn
      OBVIOUS
    <2>1. FeesIn(purchases) \in Nat /\ serviceFees \in Nat /\ remainingServiceFees \in Nat
      BY FeesNat DEF BookInv
    <2>2. FeesIn(purchases)
            = SumOver([id \in DOMAIN purchases |-> purchases[id].fees], DOMAIN purchases)
      BY DEF FeesIn, Fees, SumOver
    <2>3. QED
      BY <2>1, <2>2 DEF FeeInv, FeesNotOverdrawn
  <1>2. QED
    BY <1>1, ShieldFeeInv, ShieldBooks, PTL

\* How a step changes the rewards: they grow only in the EndBlocker, by what the
\* remaining fees cover.
LEMMA RewardsStep ==
  ASSUME ProviderInv, BookInv, [Next]_vars
  PROVE  TotalRewards(providers') - TotalRewards(providers) <= remainingServiceFees
  <1>0. TotalRewards(providers) \in Nat /\ remainingServiceFees \in Nat
    BY TotalsNat DEF ProviderInv, BookInv
  <1>1. ASSUME TotalRewards(providers') = TotalRewards(providers)
        PROVE  TotalRewards(providers') - TotalRewards(providers) <= remainingServiceFees
    BY <1>0, <1>1
  <1>2. CASE ProviderStep
    BY <1>1, <1>2, ProviderStepKeeps DEF Spares, BookInv
  <1>3. ASSUME NEW a \in Accounts, WithdrawRewards(a)
        PROVE  TotalRewards(providers') - TotalRewards(providers) <= remainingServiceFees
    <2>1. PICK r \in Nat : TotalRewards(providers') + r = TotalRewards(providers)
      BY <1>3, WithdrawRewardsEffect
    <2>2. GoodProviders(providers')
      BY <1>3, WithdrawRewardsEffect DEF ProviderInv
    <2>3. TotalRewards(providers') \in Nat
      BY <2>2, TotalsNat
    <2>4. QED
      BY <1>0, <2>1, <2>3
  <1>4. CASE BuyStep \/ EditStep
    <2>1. BuyStep => providers' = providers
      BY DEF BuyStep, Buys, BuyShield, providerVars
    <2>2. EditStep => providers' = providers
      BY DEF EditStep, EditsPool, providerVars
    <2>3. QED
      BY <1>1, <1>4, <2>1, <2>2
  <1>5. ASSUME NEW a, NEW id, NEW amount, UnstakeFromShield(id, a, amount)
        PROVE  TotalRewards(providers') - TotalRewards(providers) <= remainingServiceFees
    BY <1>1, <1>5 DEF UnstakeFromShield, providerVars
  <1>6. CASE EndBlocker
    <2>1. TotalRewards(providers') = TotalRewards(providers) + GivenTotal
      BY <1>6, EndBlockerProviders
    <2>2. GivenTotal \in Nat /\ GivenTotal <= remainingServiceFees
      BY <1>6, GivenCovered DEF EndBlocker
    <2>3. QED
      BY <1>0, <2>1, <2>2
  <1>7. CASE EndBlockerHalts \/ StakingEndBlocker
    BY <1>1, <1>7 DEF EndBlockerHalts, StakingEndBlocker, providerVars
  <1>8. ASSUME NEW elapsed, NEW reward, NextBlock(elapsed, reward)
        PROVE  TotalRewards(providers') - TotalRewards(providers) <= remainingServiceFees
    BY <1>1, <1>8 DEF NextBlock, providerVars
  <1>9. CASE UNCHANGED vars
    BY <1>1, <1>9 DEF vars, providerVars
  <1>10. QED
    BY <1>2, <1>3, <1>4, <1>5, <1>6, <1>7, <1>8, <1>9, StepKinds

\* What the providers are given in a block comes out of the fees that remained before the
\* block rewards were added, however the shares are rounded.
THEOREM ShieldRewardsFromRemainingFees == Spec => RewardsFromRemainingFees
  <1>1. ProviderInv /\ BookInv /\ [Next]_vars => [Rewards' - Rewards <= remainingServiceFees]_vars
    <2>1. Rewards = TotalRewards(providers) /\ Rewards' = TotalRewards(providers')
      BY DEF Rewards, TotalRewards
    <2>2. QED
      BY <2>1, RewardsStep
  <1>2. QED
    BY <1>1, ShieldBooks, PTL DEF Spec, RewardsFromRemainingFees

-----------------------------------------------------------------------------
(* The shield stays covered.                                               *)

Protected(ps, t) == {id \in DOMAIN ps : ps[id].protectionEnd > t}

Covered(ps, collateral, queue, t) ==
  ShieldIn(ps, Protected(ps, t)) <= collateral - AmountOf(queue, DueBy(queue, t))

\* The collateral left at any time from now on covers the shield protected then.
CoverInv == \A t \in Nat : now <= t => Covered(purchases, totalCollateral, withdraws, t)

\* The sums that Covered compares are natural numbers, and the collateral always covers
\* the whole queue.
LEMMA CoverAmounts ==
  ASSUME ProviderInv, BookInv, NEW t
  PROVE  /\ Protected(purchases, t) \in SUBSET DOMAIN purchases
         /\ DueBy(withdraws, t) \in SUBSET DOMAIN withdraws
         /\ ShieldIn(purchases, Protected(purchases, t)) \in Nat
         /\ AmountOf(withdraws, DueBy(withdraws, t)) \in Nat
         /\ AmountOf(withdraws, DueBy(withdraws, t)) <= totalWithdrawing
         /\ totalCollateral \in Nat /\ totalWithdrawing \in Nat
         /\ totalWithdrawing <= totalCollateral
  <1>1. /\ Protected(purchases, t) \in SUBSET DOMAIN purchases
        /\ DueBy(withdraws, t) \in SUBSET DOMAIN withdraws
    BY DEF Protected, DueBy
  <1>2. ShieldIn(purchases, Protected(purchases, t)) \in Nat
    BY <1>1, ShieldInNat
  <1>3. GoodQueue(withdraws) /\ GoodProviders(providers)
    BY DEF ProviderInv
  <1>4. /\ AmountOf(withdraws, DueBy(withdraws, t)) \in Nat
        /\ AmountOf(withdraws, DueBy(withdraws, t)) <= AmountOf(withdraws, DOMAIN withdraws)
    <2>1. DOMAIN withdraws \in SUBSET DOMAIN withdraws
      OBVIOUS
    <2>2. QED
      BY <1>1, <1>3, <2>1, AmountPart
  <1>5. totalCollateral \in Nat /\ totalWithdrawing \in Nat
    BY <1>3, TotalsNat DEF ProviderInv
  <1>6. totalWithdrawing <= totalCollateral
    <2> DEFINE f == [a \in DOMAIN providers |-> providers[a].withdrawing]
               g == [a \in DOMAIN providers |-> providers[a].collateral]
    <2>1. \A a \in DOMAIN providers : f[a] \in Nat /\ g[a] \in Nat /\ f[a] <= 1 * g[a] + 0
      BY <1>3, SoundAmounts DEF GoodProviders, Sound
    <2>2. IsFiniteSet(DOMAIN providers)
      BY <1>3, TotalsNat
    <2> HIDE DEF f, g
    <2>3. SumFunctionOnSet(f, DOMAIN providers)
            <= 1 * SumFunctionOnSet(g, DOMAIN providers) + Cardinality(DOMAIN providers) * 0
      BY <2>1, <2>2, SumBounded
    <2>4. /\ totalWithdrawing = SumFunctionOnSet(f, DOMAIN providers)
          /\ totalCollateral = SumFunctionOnSet(g, DOMAIN providers)
      BY DEF ProviderInv, TotalWithdrawing, TotalCollateral, SumOver, f, g
    <2>5. Cardinality(DOMAIN providers) \in Nat
      BY <2>2, FS_CardinalityType
    <2>6. QED
      BY <1>5, <2>3, <2>4, <2>5
  <1>7. QED
    BY <1>1, <1>2, <1>4, <1>5, <1>6 DEF ProviderInv

CoveredLater ==
  \A t \in Nat :
    now + ProtectionPeriod <= t => Covered(purchases, totalCollateral, withdraws, t)

\* Once every protection that exists now has ended, nothing need be covered.
LEMMA CoveredLate == ProviderInv /\ BookInv => CoveredLater
  <1> SUFFICES ASSUME ProviderInv, BookInv, NEW t \in Nat, now + ProtectionPeriod <= t
               PROVE  Covered(purchases, totalCollateral, withdraws, t)
    BY DEF CoveredLater
  <1>1. Protected(purchases, t) = {}
    <2>1. ASSUME NEW i \in DOMAIN purchases PROVE ~ (purchases[i].protectionEnd > t)
      <3>1. purchases[i].protectionEnd \in Nat
        BY PurchaseAmounts
      <3>2. purchases[i].protectionEnd <= now + ProtectionPeriod /\ now \in Nat
        BY DEF BookInv
      <3>3. QED
        BY <3>1, <3>2, ParamsAssumption
    <2>2. QED
      BY <2>1 DEF Protected
  <1>2. ShieldIn(purchases, {}) = 0
    BY SumEmpty DEF ShieldIn
  <1>3. QED
    BY <1>1, <1>2, CoverAmounts DEF Covered

\* A withdraw, by a message or a hook, completes after every protection has ended.
LEMMA ProviderStepCovered ==
  ASSUME WithdrawPeriod >= ProtectionPeriod,
         ProviderInv, BookInv, CoverInv, ProviderInv', BookInv', ProviderStep
  PROVE  CoverInv'
  <1>1. Spares /\ now' = now /\ purchases' = purchases /\ now \in Nat
    BY ProviderStepKeeps, ProviderStepFrame DEF BookInv
  <1>2. ASSUME NEW t \in Nat, now <= t
        PROVE  Covered(purchases', totalCollateral', withdraws', t)
    <2>1. CASE t < now + WithdrawPeriod
      <3>1. /\ AmountOf(withdraws', DueBy(withdraws', t)) = AmountOf(withdraws, DueBy(withdraws, t))
            /\ totalCollateral <= totalCollateral'
        BY <1>1, <2>1 DEF Spares
      <3>2. Covered(purchases, totalCollateral, withdraws, t)
        BY <1>2 DEF CoverInv
      <3>3. /\ AmountOf(withdraws, DueBy(withdraws, t)) \in Nat
            /\ ShieldIn(purchases, Protected(purchases, t)) \in Nat
            /\ totalCollateral \in Nat
        BY CoverAmounts
      <3>4. totalCollateral' \in Nat
        BY TotalsNat DEF ProviderInv
      <3>5. QED
        BY <1>1, <3>1, <3>2, <3>3, <3>4 DEF Covered
    <2>2. CASE ~ (t < now + WithdrawPeriod)
      <3>1. now' + ProtectionPeriod <= t
        BY <1>1, <2>2, ParamsAssumption
      <3>2. (ProviderInv /\ BookInv)' => CoveredLater'
        BY CoveredLate, PTL
      <3>3. QED
        BY <3>1, <3>2 DEF CoveredLater
    <2>3. QED
      BY <2>1, <2>2
  <1>3. QED
    BY <1>1, <1>2 DEF CoverInv

\* Shield is bought only against collateral that is not being withdrawn.
LEMMA BuyCovered ==
  ASSUME ProviderInv, BookInv, ShieldInv, BookInv', ShieldInv', ProviderInv',
         NEW id, NEW pool, NEW shield, NEW a, NEW fees, NEW stake,
         Buys(id, pool, shield, a, fees, stake)
  PROVE  CoverInv'
  <1>1. /\ totalShield' = totalShield + shield /\ totalShield + shield <= Available
        /\ totalClaimed = 0
        /\ UNCHANGED <<totalCollateral, totalWithdrawing, withdraws>>
    BY DEF Buys, BuyShield, providerVars, ShieldInv
  <1>2. totalCollateral \in Nat /\ totalWithdrawing \in Nat
    BY CoverAmounts
  <1>3. totalShield' <= totalCollateral - totalWithdrawing
    BY <1>1, <1>2 DEF Available
  <1>4. ASSUME NEW t \in Nat
        PROVE  Covered(purchases', totalCollateral', withdraws', t)
    <2> DEFINE P == Protected(purchases', t)
               D == DOMAIN purchases'
    <2>1. P \in SUBSET D
      BY DEF Protected
    <2>2. totalShield' = ShieldIn(purchases', D)
      BY DEF ShieldInv
    <2>3. IsFiniteSet(D) /\ \A i \in D : Shields(purchases')[i] \in Nat
      BY DEF BookInv, Shields
    <2>4. /\ ShieldIn(purchases', D) = ShieldIn(purchases', D \ P) + ShieldIn(purchases', P)
          /\ ShieldIn(purchases', D \ P) \in Nat /\ ShieldIn(purchases', P) \in Nat
      BY <2>1, <2>3, SumDifference DEF ShieldIn
    <2>5. /\ AmountOf(withdraws, DueBy(withdraws, t)) \in Nat
          /\ AmountOf(withdraws, DueBy(withdraws, t)) <= totalWithdrawing
      BY CoverAmounts
    <2> HIDE DEF P, D
    <2>6. ShieldIn(purchases', P) <= totalCollateral - AmountOf(withdraws, DueBy(withdraws, t))
      BY <1>2, <1>3, <2>2, <2>4, <2>5
    <2>7. QED
      BY <1>1, <2>6 DEF Covered, P
  <1>5. QED
    BY <1>4 DEF CoverInv

\* The EndBlocker takes out the withdraws that complete now with their collateral, and
\* purchases that are no longer protected.
LEMMA EndBlockerCovered ==
  ASSUME ProviderInv, BookInv, CoverInv, EndBlocker
  PROVE  CoverInv'
  <1>1. /\ now' = now /\ now \in Nat
        /\ withdraws' = StoreDelete(withdraws, Completed)
        /\ totalCollateral' = totalCollateral - AmountOf(withdraws, Completed)
    BY DEF EndBlocker, WithdrawnAmount, BookInv
  <1>2. Completed = DueBy(withdraws, now) /\ Completed \in SUBSET DOMAIN withdraws
    BY DEF Completed, DueBy
  <1>3. GoodQueue(withdraws)
    BY DEF ProviderInv
  <1>4. IsQueueWithout(withdraws, withdraws', Completed)
    BY <1>1, <1>2, <1>3, QueueDelete
  <1>5. ASSUME NEW t \in Nat, now <= t
        PROVE  Covered(purchases', totalCollateral', withdraws', t)
    <2>1. Protected(purchases', t) = Protected(purchases, t)
      <3>1. /\ DOMAIN purchases' = DOMAIN purchases \ Deleted
            /\ \A i \in DOMAIN purchases' : purchases'[i].protectionEnd = purchases[i].protectionEnd
        BY EndBlockerPurchases
      <3>2. ASSUME NEW i \in Deleted PROVE ~ (purchases[i].protectionEnd > t)
        <4>1. i \in DOMAIN purchases /\ purchases[i].protectionEnd <= now
          BY DEF Deleted, Expired
        <4>2. purchases[i].protectionEnd \in Nat
          BY <4>1, PurchaseAmounts
        <4>3. QED
          BY <1>1, <1>5, <4>1, <4>2
      <3>3. QED
        BY <3>1, <3>2 DEF Protected
    <2>2. ShieldIn(purchases', Protected(purchases, t)) = ShieldIn(purchases, Protected(purchases, t))
      <3>1. /\ Protected(purchases, t) \in SUBSET DOMAIN purchases
            /\ Protected(purchases, t) \subseteq DOMAIN purchases'
        BY <2>1 DEF Protected
      <3>2. \A i \in Protected(purchases, t) : purchases'[i].shield = purchases[i].shield
        BY <3>1, EndBlockerPurchases
      <3>3. QED
        BY <3>1, <3>2, ShieldInEqual
    <2>3. /\ DOMAIN withdraws' = DOMAIN withdraws \ Completed
          /\ \A n \in DOMAIN withdraws' : withdraws'[n] = withdraws[n]
          /\ \A S \in SUBSET DOMAIN withdraws :
               AmountOf(withdraws, S)
                 = AmountOf(withdraws', S \ Completed) + AmountOf(withdraws, S \cap Completed)
      BY <1>4 DEF IsQueueWithout
    <2>4. DueBy(withdraws, t) \in SUBSET DOMAIN withdraws
      BY DEF DueBy
    <2>5. DueBy(withdraws, t) \ Completed = DueBy(withdraws', t)
      BY <2>3 DEF DueBy
    <2>6. DueBy(withdraws, t) \cap Completed = Completed
      <3>1. \A n \in DOMAIN withdraws : withdraws[n].completionTime \in Nat
        BY <1>3 DEF GoodQueue, IsStore, Withdraw
      <3>2. ASSUME NEW n \in Completed PROVE n \in DueBy(withdraws, t)
        <4>1. n \in DOMAIN withdraws /\ withdraws[n].completionTime <= now
          BY DEF Completed
        <4>2. withdraws[n].completionTime <= t
          BY <1>1, <1>5, <3>1, <4>1
        <4>3. QED
          BY <4>1, <4>2 DEF DueBy
      <3>3. QED
        BY <3>2
    <2>7. AmountOf(withdraws, DueBy(withdraws, t))
            = AmountOf(withdraws', DueBy(withdraws', t)) + AmountOf(withdraws, Completed)
      BY <2>3, <2>4, <2>5, <2>6
    <2>8. /\ AmountOf(withdraws', DueBy(withdraws', t)) \in Nat
          /\ AmountOf(withdraws, Completed) \in Nat
      <3>1. GoodQueue(withdraws') /\ DueBy(withdraws', t) \in SUBSET DOMAIN withdraws'
        BY <1>4 DEF IsQueueWithout, DueBy
      <3>2. QED
        BY <1>2, <1>3, <3>1, AmountNat
    <2>9. Covered(purchases, totalCollateral, withdraws, t)
      BY <1>5 DEF CoverInv
    <2>10. PICK s \in Nat, c \in Nat, w \in Nat, d \in Nat :
             /\ s = ShieldIn(purchases, Protected(purchases, t)) /\ c = totalCollateral
             /\ w = AmountOf(withdraws', DueBy(withdraws', t)) /\ d = AmountOf(withdraws, Completed)
      BY <2>8, CoverAmounts
    <2>11. s <= c - (w + d) /\ totalCollateral' = c - d
      BY <1>1, <2>7, <2>9, <2>10 DEF Covered
    <2>12. ShieldIn(purchases', Protected(purchases', t)) = s
      BY <2>1, <2>2, <2>10
    <2>13. s <= (c - d) - w
      BY <2>11
    <2>14. QED
      BY <2>10, <2>11, <2>12, <2>13 DEF Covered
  <1>6. QED
    BY <1>1, <1>5 DEF CoverInv

\* Every step keeps the shield covered.
LEMMA CoverInvStep ==
  ASSUME WithdrawPeriod >= ProtectionPeriod,
         ProviderInv, BookInv, ShieldInv, CoverInv, [Next]_vars
  PROVE  CoverInv'
  <1>0. ProviderInv' /\ BookInv' /\ ShieldInv'
    BY ProviderInvStep, BookInvStep, ShieldInvStep
  <1>1. ASSUME UNCHANGED <<purchases, withdraws, totalCollateral>>, now' \in Nat, now <= now'
        PROVE  CoverInv'
    <2>1. now \in Nat /\ \A t \in Nat : now' <= t => now <= t
      BY <1>1 DEF BookInv
    <2>2. QED
      BY <1>1, <2>1 DEF CoverInv
  <1>2. now \in Nat /\ now <= now
    BY DEF BookInv
  <1>3. CASE ProviderStep
    BY <1>0, <1>3, ProviderStepCovered
  <1>4. ASSUME NEW a \in Accounts, WithdrawRewards(a) PROVE CoverInv'
    BY <1>1, <1>2, <1>4 DEF WithdrawRewards, purchaseVars
  <1>5. CASE BuyStep
    BY <1>0, <1>5, BuyCovered DEF BuyStep
  <1>6. CASE EditStep
    BY <1>1, <1>2, <1>6 DEF EditStep, EditsPool, purchaseVars, providerVars
  <1>7. ASSUME NEW a, NEW id, NEW amount, UnstakeFromShield(id, a, amount) PROVE CoverInv'
    BY <1>1, <1>2, <1>7 DEF UnstakeFromShield, purchaseVars, providerVars
  <1>8. CASE EndBlocker
    BY <1>8, EndBlockerCovered
  <1>9. CASE EndBlockerHalts \/ StakingEndBlocker
    BY <1>1, <1>2, <1>9 DEF EndBlockerHalts, StakingEndBlocker, purchaseVars, providerVars
  <1>10. ASSUME NEW elapsed \in Nat, NEW reward \in Nat, NextBlock(elapsed, reward) PROVE CoverInv'
    <2>1. now' = now + elapsed /\ UNCHANGED <<purchases, withdraws, totalCollateral>>
      BY <1>10 DEF NextBlock, purchaseVars, providerVars
    <2>2. QED
      BY <1>1, <1>2, <2>1
  <1>11. CASE UNCHANGED vars
    BY <1>1, <1>2, <1>11 DEF vars, purchaseVars, providerVars
  <1>12. QED
    BY <1>3, <1>4, <1>5, <1>6, <1>7, <1>8, <1>9, <1>10, <1>11, StepKinds

\* At any time to come the collateral left by then covers the shield still under
\* protection, provided that a withdraw takes as long as a protection lasts, as with the
\* default parameters: then WithdrawCollateral need not look at the shield.
THEOREM ShieldShieldStaysCovered ==
  ASSUME WithdrawPeriod >= ProtectionPeriod
  PROVE  Spec => []ShieldStaysCovered
  <1>1. Init => CoverInv
    <2> SUFFICES ASSUME Init PROVE CoverInv
      OBVIOUS
    <2>1. purchases = <<>> /\ withdraws = <<>> /\ totalCollateral = 0
      BY DEF Init
    <2>2. \A t : Protected(purchases, t) = {} /\ DueBy(withdraws, t) = {}
      BY <2>1 DEF Protected, DueBy
    <2>3. ShieldIn(purchases, {}) = 0 /\ AmountOf(withdraws, {}) = 0
      BY SumEmpty DEF ShieldIn, AmountOf, SumOver
    <2>4. ASSUME NEW t \in Nat PROVE Covered(purchases, totalCollateral, withdraws, t)
      <3>1. ShieldIn(purchases, Protected(purchases, t)) = 0
        BY <2>2, <2>3, Zenon
      <3>2. AmountOf(withdraws, DueBy(withdraws, t)) = 0
        BY <2>2, <2>3, Zenon
      <3>3. QED
        BY <2>1, <3>1, <3>2 DEF Covered
    <2>5. QED
      BY <2>4 DEF CoverInv
  <1>2. ProviderInv /\ BookInv /\ ShieldInv /\ CoverInv /\ [Next]_vars => CoverInv'
    BY CoverInvStep
  <1>3. BookInv /\ CoverInv => ShieldStaysCovered
    <2> SUFFICES ASSUME BookInv, CoverInv, NEW t \in Horizon
                 PROVE  ShieldOf({id \in DOMAIN purchases : purchases[id].protectionEnd > t})
                          <= totalCollateral - WithdrawnAmount(
                               {n \in DOMAIN withdraws : withdraws[n].completionTime <= t})
      BY DEF ShieldStaysCovered
    <2>1. t \in Nat /\ now <= t
      BY ParamsAssumption DEF Horizon, BookInv
    <2>2. Covered(purchases, totalCollateral, withdraws, t)
      BY <2>1 DEF CoverInv
    <2>3. ShieldOf(Protected(purchases, t)) = ShieldIn(purchases, Protected(purchases, t))
      <3>1. Protected(purchases, t) \in SUBSET DOMAIN purchases
        BY DEF Protected
      <3>2. QED
        BY <3>1, ShieldOfSum
    <2>4. /\ Protected(purchases, t) = {id \in DOMAIN purchases : purchases[id].protectionEnd > t}
          /\ DueBy(withdraws, t) = {n \in DOMAIN withdraws : withdraws[n].completionTime <= t}
      BY DEF Protected, DueBy
    <2>5. QED
      BY <2>2, <2>3, <2>4, Zenon DEF Covered, WithdrawnAmount
  <1>4. QED
    BY <1>1, <1>2, <1>3, ShieldBooks, PTL DEF Spec

-----------------------------------------------------------------------------
(* Stakes for shield.                                                      *)

StakeTotal(stakes) == SumOver([k \in DOMAIN stakes |-> stakes[k].amount], DOMAIN stakes)

StakeInv ==
  /\ IsStore(stakeForShield, Nat \X Accounts, ShieldStaking) /\ IsFiniteSet(DOMAIN stakeForShield)
  /\ IsStore(originalStaking, Nat, Nat) /\ IsFiniteSet(DOMAIN originalStaking)
  /\ \A id \in DOMAIN originalStaking : id < nextPurchaseID
  /\ globalStakingPool = StakeTotal(stakeForShield)
  /\ globalStakingPool = SumFunctionOnSet(originalStaking, DOMAIN originalStaking)
  /\ NoStakeWithFees

\* A stake of the account a in the pool id is added or grows; old is what it was, or a
\* stake of nothing.
StakeIsSet(stakes, new, k, old, stake) ==
  /\ IsStore(new, Nat \X Accounts, ShieldStaking) /\ IsFiniteSet(DOMAIN new)
  /\ StakeTotal(new) + old = StakeTotal(stakes) + stake.amount

\* The total of the stakes changes by the difference of the records.
LEMMA StakeSetTotal ==
  ASSUME NEW stakes, IsStore(stakes, Nat \X Accounts, ShieldStaking),
         IsFiniteSet(DOMAIN stakes), NEW k \in Nat \X Accounts, NEW stake \in ShieldStaking,
         NEW new, new = StoreSet(stakes, k, stake), NEW old \in Nat,
         k \in DOMAIN stakes => old = stakes[k].amount, k \notin DOMAIN stakes => old = 0
  PROVE  StakeIsSet(stakes, new, k, old, stake)
  <1> DEFINE f == [j \in DOMAIN stakes |-> stakes[j].amount]
             g == [j \in DOMAIN new |-> new[j].amount]
  <1>1. IsStore(new, Nat \X Accounts, ShieldStaking) /\ IsFiniteSet(DOMAIN new)
    BY StoreType, StoreFinite, Zenon
  <1>2. /\ DOMAIN new = DOMAIN stakes \cup {k} /\ new[k] = stake
        /\ \A j \in DOMAIN stakes \ {k} : new[j] = stakes[j]
    BY DEF StoreSet
  <1>3. /\ \A j \in DOMAIN stakes : stakes[j].amount \in Nat
        /\ \A j \in DOMAIN new : new[j].amount \in Nat
    BY <1>1 DEF IsStore, ShieldStaking
  <1>4. Writes(f, DOMAIN stakes, g, DOMAIN new, k, old, stake.amount)
    BY <1>2, <1>3 DEF Writes
  <1> HIDE DEF f, g
  <1>5. SumFunctionOnSet(g, DOMAIN new) + old = SumFunctionOnSet(f, DOMAIN stakes) + stake.amount
    BY <1>4, SumWrite
  <1>6. QED
    BY <1>1, <1>5 DEF StakeIsSet, StakeTotal, SumOver, f, g

\* The total of the stakes is a natural number.
LEMMA StakeTotalNat ==
  ASSUME StakeInv
  PROVE  StakeTotal(stakeForShield) \in Nat
  <1>1. \A k \in DOMAIN stakeForShield : stakeForShield[k].amount \in Nat
    BY DEF StakeInv, IsStore, ShieldStaking
  <1>2. QED
    BY <1>1, SumNat DEF StakeInv, StakeTotal, SumOver

\* A stake is filed under the purchaser and under the purchase.
LEMMA AddStakingEffect ==
  ASSUME BookInv, StakeInv, NEW id \in Nat, NEW a \in Accounts, NEW amount \in Nat,
         AddStaking(id, a, amount)
  PROVE  /\ IsStore(stakeForShield', Nat \X Accounts, ShieldStaking)
         /\ IsFiniteSet(DOMAIN stakeForShield')
         /\ StakeTotal(stakeForShield') = StakeTotal(stakeForShield) + amount
         /\ IsStore(originalStaking', Nat, Nat) /\ IsFiniteSet(DOMAIN originalStaking')
         /\ DOMAIN originalStaking' = DOMAIN originalStaking \cup {nextPurchaseID}
         /\ SumFunctionOnSet(originalStaking', DOMAIN originalStaking')
              = SumFunctionOnSet(originalStaking, DOMAIN originalStaking) + amount
         /\ globalStakingPool' = globalStakingPool + amount
  <1> DEFINE S == stakeForShield
             k == <<id, a>>
             n == nextPurchaseID
             D == DOMAIN originalStaking
  <1>1. /\ globalStakingPool' = globalStakingPool + amount
        /\ originalStaking' = StoreSet(originalStaking, n, amount)
    BY DEF AddStaking
  <1>2. PICK old \in Nat, asked \in Nat :
          /\ k \in DOMAIN S => old = S[k].amount /\ asked = S[k].withdrawRequested
          /\ k \notin DOMAIN S => old = 0 /\ asked = 0
    <2>1. CASE k \in DOMAIN S
      BY <2>1 DEF StakeInv, IsStore, ShieldStaking
    <2>2. CASE k \notin DOMAIN S
      BY <2>2
    <2>3. QED
      BY <2>1, <2>2
  <1>3. PICK sum \in Nat : sum = old + amount
    OBVIOUS
  <1> DEFINE stake == [amount |-> sum, withdrawRequested |-> asked]
  <1>4. stake \in ShieldStaking /\ k \in Nat \X Accounts /\ stake.amount = sum
    BY DEF ShieldStaking
  <1>5. S' = StoreSet(S, k, stake)
    <2>1. CASE k \in DOMAIN S
      <3>1. S[k] \in [amount : Nat, withdrawRequested : Nat]
        BY <2>1 DEF StakeInv, IsStore, ShieldStaking
      <3>2. [S[k] EXCEPT !.amount = S[k].amount + amount] = stake
        BY <1>2, <1>3, <2>1, <3>1
      <3>3. QED
        BY <2>1, <3>2 DEF AddStaking
    <2>2. CASE k \notin DOMAIN S
      BY <1>2, <1>3, <2>2 DEF AddStaking
    <2>3. QED
      BY <2>1, <2>2
  <1>6. IsStore(S, Nat \X Accounts, ShieldStaking) /\ IsFiniteSet(DOMAIN S)
    BY DEF StakeInv
  <1>7. StakeTotal(S) \in Nat
    BY StakeTotalNat
  <1> HIDE DEF stake, k
  <1>8. StakeIsSet(S, S', k, old, stake)
    BY <1>2, <1>4, <1>5, <1>6, StakeSetTotal
  <1>9. StakeTotal(S') + old = StakeTotal(S) + sum
    BY <1>4, <1>8 DEF StakeIsSet
  <1>10. StakeTotal(S') = StakeTotal(S) + amount
    <2>1. StakeTotal(S') \in Nat
      <3>1. \A j \in DOMAIN S' : S'[j].amount \in Nat
        BY <1>8 DEF StakeIsSet, IsStore, ShieldStaking
      <3>2. QED
        BY <1>8, <3>1, SumNat DEF StakeIsSet, StakeTotal, SumOver
    <2>2. QED
      BY <1>3, <1>7, <1>9, <2>1
  <1>11. n \in Nat /\ n \notin D /\ IsFiniteSet(D) /\ \A i \in D : originalStaking[i] \in Nat
    BY DEF StakeInv, BookInv, IsStore
  <1>12. /\ IsStore(originalStaking', Nat, Nat) /\ IsFiniteSet(DOMAIN originalStaking')
    BY <1>1, <1>11, StoreType, StoreFinite, Zenon DEF StakeInv
  <1>13. /\ DOMAIN originalStaking' = D \cup {n} /\ originalStaking'[n] = amount
         /\ \A i \in D : originalStaking'[i] = originalStaking[i]
    BY <1>1, <1>11 DEF StoreSet
  <1> HIDE DEF n, D
  <1>14. SumFunctionOnSet(originalStaking', D \cup {n}) = amount + SumFunctionOnSet(originalStaking', D)
    BY <1>11, <1>13, SumAdd
  <1>15. /\ SumFunctionOnSet(originalStaking', D) = SumFunctionOnSet(originalStaking, D)
         /\ SumFunctionOnSet(originalStaking, D) \in Nat
    BY <1>11, <1>13, SumEqual, SumNat
  <1>16. SumFunctionOnSet(originalStaking', DOMAIN originalStaking')
           = SumFunctionOnSet(originalStaking, DOMAIN originalStaking) + amount
    BY <1>13, <1>14, <1>15 DEF D
  <1>17. QED
    BY <1>1, <1>8, <1>10, <1>12, <1>13, <1>16 DEF StakeIsSet, n, D

\* A purchase keeps StakeInv: it has fees or a stake, not both.
LEMMA BuyKeepsStake ==
  ASSUME BookInv, StakeInv, NEW id, NEW pool, NEW shield, NEW a, NEW fees, NEW stake,
         Buys(id, pool, shield, a, fees, stake)
  PROVE  /\ StakeInv'
         /\ \/ /\ fees > 0 /\ SendToModule(a, fees)
               /\ remainingServiceFees' = remainingServiceFees + Dec(fees)
               /\ UNCHANGED stakeForShield
            \/ /\ SendToModule(a, stake)
               /\ remainingServiceFees' = remainingServiceFees
               /\ StakeTotal(stakeForShield') = StakeTotal(stakeForShield) + stake
  <1> DEFINE n == nextPurchaseID
  <1>1. /\ id \in Nat /\ a \in Accounts /\ fees \in Nat /\ stake \in Nat
        /\ nextPurchaseID' = n + 1 /\ n \in Nat
    BY DEF Buys, BuyShield, BookInv
  <1>2. /\ DOMAIN purchases' = DOMAIN purchases \cup {n} /\ n \notin DOMAIN purchases
        /\ \A i \in DOMAIN purchases : purchases'[i] = purchases[i]
        /\ purchases'[n].fees = Dec(fees)
    BY BuyEffect
  <1>3. \A i \in DOMAIN originalStaking : i \in Nat /\ i < n /\ i < n + 1
    BY <1>1 DEF StakeInv, IsStore
  <1>4. CASE fees > 0
    <2>1. /\ UNCHANGED <<stakeForShield, originalStaking, globalStakingPool>>
          /\ SendToModule(a, fees)
          /\ remainingServiceFees' = remainingServiceFees + Dec(fees)
      BY <1>4 DEF Buys, BuyShield, PayServiceFees, stakeVars
    <2>2. NoStakeWithFees'
      <3>1. n \notin DOMAIN originalStaking
        BY <1>1, <1>3
      <3>2. QED
        BY <1>2, <2>1, <3>1 DEF NoStakeWithFees, StakeInv
    <2>3. \A i \in DOMAIN originalStaking' : i < nextPurchaseID'
      BY <1>1, <1>3, <2>1
    <2>4. QED
      BY <1>4, <2>1, <2>2, <2>3 DEF StakeInv
  <1>5. CASE ~ (fees > 0)
    <2>1. AddStaking(id, a, stake) /\ remainingServiceFees' = remainingServiceFees
      BY <1>5 DEF Buys, BuyShield
    <2>2. /\ IsStore(stakeForShield', Nat \X Accounts, ShieldStaking)
          /\ IsFiniteSet(DOMAIN stakeForShield')
          /\ StakeTotal(stakeForShield') = StakeTotal(stakeForShield) + stake
          /\ IsStore(originalStaking', Nat, Nat) /\ IsFiniteSet(DOMAIN originalStaking')
          /\ DOMAIN originalStaking' = DOMAIN originalStaking \cup {n}
          /\ SumFunctionOnSet(originalStaking', DOMAIN originalStaking')
               = SumFunctionOnSet(originalStaking, DOMAIN originalStaking) + stake
          /\ globalStakingPool' = globalStakingPool + stake
      BY <1>1, <2>1, AddStakingEffect
    <2>3. \A i \in DOMAIN originalStaking' : i < nextPurchaseID'
      BY <1>1, <1>3, <2>2
    <2>4. NoStakeWithFees'
      <3>1. Dec(fees) = 0
        BY <1>1, <1>5, PrecisionAssumption DEF Dec
      <3>2. QED
        BY <1>2, <2>2, <3>1 DEF NoStakeWithFees, StakeInv
    <2>5. /\ globalStakingPool' = StakeTotal(stakeForShield')
          /\ globalStakingPool' = SumFunctionOnSet(originalStaking', DOMAIN originalStaking')
      BY <2>2 DEF StakeInv
    <2>6. SendToModule(a, stake)
      BY <2>1 DEF AddStaking
    <2>7. QED
      BY <2>1, <2>2, <2>3, <2>4, <2>5, <2>6 DEF StakeInv
  <1>6. QED
    BY <1>4, <1>5

\* A request to unstake leaves the stake as it is.
LEMMA UnstakeKeepsStake ==
  ASSUME StakeInv, NEW a, NEW id, NEW amount \in Nat, UnstakeFromShield(id, a, amount)
  PROVE  StakeInv' /\ StakeTotal(stakeForShield') = StakeTotal(stakeForShield)
  <1> DEFINE S == stakeForShield
             k == <<id, a>>
             r == S[k].withdrawRequested
  <1>1. /\ k \in DOMAIN S
        /\ S' = [S EXCEPT ![k] = [S[k] EXCEPT !.withdrawRequested = r + amount]]
        /\ UNCHANGED <<originalStaking, globalStakingPool, nextPurchaseID, purchases>>
    BY DEF UnstakeFromShield, purchaseVars
  <1>2. /\ DOMAIN S \subseteq Nat \X Accounts /\ S \in [DOMAIN S -> ShieldStaking]
        /\ IsFiniteSet(DOMAIN S)
    BY DEF StakeInv, IsStore
  <1>3. S[k] \in ShieldStaking /\ S[k].amount \in Nat /\ r \in Nat
    BY <1>1, <1>2 DEF ShieldStaking
  <1>4. PICK m \in Nat : m = r + amount
    BY <1>3
  <1> DEFINE stake == [S[k] EXCEPT !.withdrawRequested = m]
  <1>5. stake \in ShieldStaking /\ stake.amount = S[k].amount
    BY <1>3 DEF ShieldStaking
  <1>6. S' = [S EXCEPT ![k] = stake]
    BY <1>1, <1>4
  <1> HIDE DEF stake, k, r
  <1>7. /\ DOMAIN S' = DOMAIN S /\ S' \in [DOMAIN S -> ShieldStaking]
        /\ \A j \in DOMAIN S : S'[j].amount = S[j].amount
    BY <1>1, <1>2, <1>5, <1>6
  <1>8. StakeTotal(S') = StakeTotal(S)
    BY <1>2, <1>7, SumEqual DEF StakeTotal, SumOver
  <1>9. IsStore(S', Nat \X Accounts, ShieldStaking) /\ IsFiniteSet(DOMAIN S')
    BY <1>2, <1>7 DEF IsStore
  <1>10. QED
    BY <1>1, <1>8, <1>9 DEF StakeInv, NoStakeWithFees

\* Every step keeps StakeInv.
LEMMA StakeInvStep ==
  ASSUME BookInv, StakeInv, [Next]_vars
  PROVE  StakeInv'
  <1>1. ASSUME UNCHANGED <<stakeForShield, originalStaking, globalStakingPool, purchases,
                           nextPurchaseID>>
        PROVE  StakeInv'
    BY <1>1 DEF StakeInv, NoStakeWithFees
  <1>2. CASE ProviderStep
    BY <1>1, <1>2, ProviderStepFrame
  <1>3. ASSUME NEW a \in Accounts, WithdrawRewards(a) PROVE StakeInv'
    BY <1>1, <1>3 DEF WithdrawRewards, purchaseVars, stakeVars
  <1>4. CASE BuyStep
    BY <1>4, BuyKeepsStake DEF BuyStep
  <1>5. CASE EditStep
    BY <1>1, <1>5 DEF EditStep, EditsPool, purchaseVars, stakeVars
  <1>6. ASSUME NEW a, NEW id, NEW amount \in Nat, UnstakeFromShield(id, a, amount) PROVE StakeInv'
    BY <1>6, UnstakeKeepsStake
  <1>7. CASE EndBlocker
    <2>1. UNCHANGED <<stakeForShield, originalStaking, globalStakingPool, nextPurchaseID>>
      BY <1>7 DEF EndBlocker, stakeVars
    <2>2. /\ DOMAIN purchases' \subseteq DOMAIN purchases
          /\ \A id \in DOMAIN purchases' :
               purchases'[id].fees = IF id \in Charged THEN 0 ELSE purchases[id].fees
      BY <1>7, EndBlockerPurchases
    <2>3. NoStakeWithFees'
      BY <2>1, <2>2 DEF StakeInv, NoStakeWithFees
    <2>4. QED
      BY <2>1, <2>3 DEF StakeInv
  <1>8. CASE EndBlockerHalts \/ StakingEndBlocker
    BY <1>1, <1>8 DEF EndBlockerHalts, StakingEndBlocker, purchaseVars, stakeVars
  <1>9. ASSUME NEW elapsed, NEW reward, NextBlock(elapsed, reward) PROVE StakeInv'
    BY <1>1, <1>9 DEF NextBlock, purchaseVars, stakeVars
  <1>10. CASE UNCHANGED vars
    BY <1>1, <1>10 DEF vars, purchaseVars, stakeVars
  <1>11. QED
    BY <1>2, <1>3, <1>4, <1>5, <1>6, <1>7, <1>8, <1>9, <1>10, StepKinds

\* The stakes stay consistent.
THEOREM ShieldStakeInv == Spec => []StakeInv
  <1>1. Init => StakeInv
    <2> SUFFICES ASSUME Init PROVE StakeInv
      OBVIOUS
    <2>1. stakeForShield = <<>> /\ originalStaking = <<>> /\ globalStakingPool = 0
      BY DEF Init
    <2>2. DOMAIN <<>> = {} /\ IsFiniteSet({}) /\ \A f : SumFunctionOnSet(f, {}) = 0
      BY FS_EmptySet, SumEmpty
    <2>3. \A Keys, Values : IsStore(<<>>, Keys, Values)
      BY DEF IsStore
    <2>4. /\ StakeTotal(stakeForShield) = 0
          /\ SumFunctionOnSet(originalStaking, DOMAIN originalStaking) = 0
      BY <2>1, <2>2, Zenon DEF StakeTotal, SumOver
    <2>5. QED
      BY <2>1, <2>2, <2>3, <2>4 DEF StakeInv, NoStakeWithFees
  <1>2. BookInv /\ StakeInv /\ [Next]_vars => StakeInv'
    BY StakeInvStep
  <1>3. QED
    BY <1>1, <1>2, ShieldBooks, PTL DEF Spec

\* GlobalStakingPoolInvariant of keeper/invariants.go: the stakes by purchaser and the
\* stakes by purchase both add up to the global staking pool.
THEOREM ShieldGlobalStakingPool == Spec => []GlobalStakingPoolInvariant
  <1>1. StakeInv => GlobalStakingPoolInvariant
    BY DEF StakeInv, StakeTotal, SumOver, GlobalStakingPoolInvariant
  <1>2. QED
    BY <1>1, ShieldStakeInv, PTL

\* No purchase has both fees and a stake: the EndBlocker never meets the entry for which
\* it would return a stake.
THEOREM ShieldNoStakeWithFees == Spec => []NoStakeWithFees
  <1>1. StakeInv => NoStakeWithFees
    BY DEF StakeInv
  <1>2. QED
    BY <1>1, ShieldStakeInv, PTL

-----------------------------------------------------------------------------
(* The EndBlocker.                                                         *)

\* When the EndBlocker of x/shield is done no withdraw is overdue and no purchase is past
\* its deletion time.
THEOREM ShieldNothingOverdue == Spec => []NothingOverdue
  <1>1. Init => NothingOverdue
    BY DEF Init, NothingOverdue
  <1>2. ProviderInv /\ BookInv /\ NothingOverdue /\ [Next]_vars => NothingOverdue'
    <2> SUFFICES ASSUME ProviderInv, BookInv, NothingOverdue, [Next]_vars
                 PROVE  NothingOverdue'
      OBVIOUS
    <2>1. ASSUME phase' \notin {"staking", "gov"} PROVE NothingOverdue'
      BY <2>1 DEF NothingOverdue
    <2>2. CASE ProviderStep
      BY <2>1, <2>2, ProviderStepFrame
    <2>3. ASSUME NEW a \in Accounts, WithdrawRewards(a) PROVE NothingOverdue'
      BY <2>1, <2>3 DEF WithdrawRewards, DeliverTx
    <2>4. CASE BuyStep
      BY <2>1, <2>4 DEF BuyStep, Buys, BuyShield, DeliverTx
    <2>5. CASE EditStep
      BY <2>1, <2>5 DEF EditStep, EditsPool, DeliverTx
    <2>6. ASSUME NEW a, NEW id, NEW amount, UnstakeFromShield(id, a, amount)
          PROVE  NothingOverdue'
      BY <2>1, <2>6 DEF UnstakeFromShield, DeliverTx
    <2>7. CASE EndBlocker
      <3>1. now' = now /\ now \in Nat /\ withdraws' = StoreDelete(withdraws, Completed)
        BY <2>7 DEF EndBlocker, BookInv
      <3>2. ASSUME NEW n \in DOMAIN withdraws' PROVE withdraws'[n].completionTime > now'
        <4>1. n \in DOMAIN withdraws /\ n \notin Completed /\ withdraws'[n] = withdraws[n]
          BY <3>1 DEF StoreDelete, Restrict
        <4>2. withdraws[n].completionTime \in Nat
          BY <4>1 DEF ProviderInv, GoodQueue, IsStore, Withdraw
        <4>3. ~ (withdraws[n].completionTime <= now)
          BY <4>1 DEF Completed
        <4>4. QED
          BY <3>1, <4>1, <4>2, <4>3
      <3>3. ASSUME NEW id \in DOMAIN purchases' PROVE purchases'[id].deletion >= now'
        <4>1. /\ id \in DOMAIN purchases /\ id \notin Deleted
              /\ purchases'[id].deletion = purchases[id].deletion
          BY <2>7, EndBlockerPurchases
        <4>2. /\ purchases[id].deletion \in Nat
              /\ purchases[id].protectionEnd \in Nat
              /\ purchases[id].protectionEnd <= purchases[id].deletion
          BY <4>1, PurchaseAmounts DEF BookInv
        <4>3. ~ (purchases[id].protectionEnd <= now /\ purchases[id].deletion < now)
          BY <4>1 DEF Deleted, Expired
        <4>4. QED
          BY <3>1, <4>1, <4>2, <4>3
      <3>4. QED
        BY <3>2, <3>3 DEF NothingOverdue
    <2>8. CASE EndBlockerHalts
      BY <2>1, <2>8 DEF EndBlockerHalts
    <2>9. CASE StakingEndBlocker
      BY <2>9 DEF StakingEndBlocker, NothingOverdue, providerVars, purchaseVars
    <2>10. ASSUME NEW elapsed, NEW reward, NextBlock(elapsed, reward) PROVE NothingOverdue'
      BY <2>1, <2>10 DEF NextBlock
    <2>11. CASE UNCHANGED vars
      BY <2>11 DEF vars, NothingOverdue, providerVars, purchaseVars
    <2>12. QED
      BY <2>2, <2>3, <2>4, <2>5, <2>6, <2>7, <2>8, <2>9, <2>10, <2>11, StepKinds
  <1>3. QED
    BY <1>1, <1>2, ShieldBooks, PTL DEF Spec

\* The one way in which the EndBlocker panics: there are providers, fees to share out to
\* them, and no collateral.
NothingToShareBy == lastUpdateTime # 0 /\ DOMAIN providers # {} /\ totalCollateral = 0

HaltsOnlyWithoutCollateral == phase = "halted" => NothingToShareBy

\* The chain halts in the EndBlocker only when providers are left without any collateral:
\* the pool of an expired purchase is always there, and the fees always cover what is
\* charged.
THEOREM ShieldHaltsOnlyWithoutCollateral == Spec => []HaltsOnlyWithoutCollateral
  <1>1. Init => HaltsOnlyWithoutCollateral
    BY DEF Init, HaltsOnlyWithoutCollateral
  <1>2. /\ ProviderInv /\ BookInv /\ ShieldInv /\ FeeInv /\ HaltsOnlyWithoutCollateral
        /\ [Next]_vars
        => HaltsOnlyWithoutCollateral'
    <2> SUFFICES ASSUME ProviderInv, BookInv, ShieldInv, FeeInv, HaltsOnlyWithoutCollateral,
                        [Next]_vars
                 PROVE  HaltsOnlyWithoutCollateral'
      OBVIOUS
    <2>1. ASSUME phase' # "halted" PROVE HaltsOnlyWithoutCollateral'
      BY <2>1 DEF HaltsOnlyWithoutCollateral
    <2>2. CASE ProviderStep
      BY <2>1, <2>2, ProviderStepFrame
    <2>3. ASSUME NEW a \in Accounts, WithdrawRewards(a) PROVE HaltsOnlyWithoutCollateral'
      BY <2>1, <2>3 DEF WithdrawRewards, DeliverTx
    <2>4. CASE BuyStep
      BY <2>1, <2>4 DEF BuyStep, Buys, BuyShield, DeliverTx
    <2>5. CASE EditStep
      BY <2>1, <2>5 DEF EditStep, EditsPool, DeliverTx
    <2>6. ASSUME NEW a, NEW id, NEW amount, UnstakeFromShield(id, a, amount)
          PROVE  HaltsOnlyWithoutCollateral'
      BY <2>1, <2>6 DEF UnstakeFromShield, DeliverTx
    <2>7. CASE EndBlocker
      BY <2>1, <2>7 DEF EndBlocker
    <2>8. CASE EndBlockerHalts
      <3>1. \A id \in Deleted : purchases[id].pool \in DOMAIN pools
        BY DEF Deleted, Expired, ShieldInv
      <3>2. ~ (ServiceFeesLeft < 0)
        <4> DEFINE f == Fees(purchases)
                   D == DOMAIN purchases
        <4>1. Charged \in SUBSET D /\ IsFiniteSet(D) /\ \A i \in D : f[i] \in Nat
          BY ChargedFeesNat, FeesNat DEF BookInv
        <4>2. ChargedFees = SumFunctionOnSet(f, Charged)
          BY ChargedFeesSum
        <4> HIDE DEF f, D
        <4>3. /\ SumFunctionOnSet(f, D) = SumFunctionOnSet(f, D \ Charged)
                                           + SumFunctionOnSet(f, Charged)
              /\ SumFunctionOnSet(f, D \ Charged) \in Nat
              /\ SumFunctionOnSet(f, Charged) \in Nat
          BY <4>1, SumDifference
        <4>4. SumFunctionOnSet(f, D) <= serviceFees /\ serviceFees \in Nat
          BY DEF FeeInv, FeesIn, f, D, BookInv
        <4>5. QED
          BY <4>2, <4>3, <4>4 DEF ServiceFeesLeft
      <3>3. EndBlockerPanics
        BY <2>8 DEF EndBlockerHalts
      <3>4. NothingToShareBy
        BY <3>1, <3>2, <3>3 DEF EndBlockerPanics, NothingToShareBy
      <3>5. QED
        BY <2>8, <3>4
           DEF EndBlockerHalts, NothingToShareBy, HaltsOnlyWithoutCollateral, providerVars, feeVars
    <2>9. CASE StakingEndBlocker
      BY <2>1, <2>9 DEF StakingEndBlocker
    <2>10. ASSUME NEW elapsed, NEW reward, NextBlock(elapsed, reward)
           PROVE  HaltsOnlyWithoutCollateral'
      BY <2>1, <2>10 DEF NextBlock
    <2>11. CASE UNCHANGED vars
      BY <2>11 DEF vars, HaltsOnlyWithoutCollateral, NothingToShareBy, providerVars, feeVars
    <2>12. QED
      BY <2>2, <2>3, <2>4, <2>5, <2>6, <2>7, <2>8, <2>9, <2>10, <2>11, StepKinds
  <1>3. QED
    BY <1>1, <1>2, ShieldBooks, ShieldFeeInv, PTL DEF Spec

-----------------------------------------------------------------------------
(* The unbonding entries of x/staking.                                     *)

Entry == [amount : Nat, completionTime : Nat]

LeftAt(entries, I, g, i) ==
  IF i = 0 THEN <<>>
  ELSE IF i \in I THEN Append(g[i - 1], entries[i])
  ELSE g[i - 1]

\* g is the function by which EntriesAt goes through the first n entries.
IsLeft(entries, I, n, g) == g = [i \in 0..n |-> LeftAt(entries, I, g, i)]

\* That function exists, by induction on the number of entries.
LEMMA LeftExists ==
  ASSUME NEW entries, NEW I, NEW n \in Nat
  PROVE  \E g : IsLeft(entries, I, n, g)
  <1> DEFINE T == {k \in Nat : \E g : IsLeft(entries, I, k, g)}
  <1>1. 0 \in T
    <2>1. IsLeft(entries, I, 0, [i \in 0..0 |-> <<>>])
      BY DEF IsLeft, LeftAt
    <2>2. QED
      BY <2>1
  <1>2. ASSUME NEW k \in Nat, k \in T PROVE k + 1 \in T
    <2>1. PICK g : IsLeft(entries, I, k, g)
      BY <1>2
    <2> DEFINE h == [i \in 0..(k + 1) |-> IF i = k + 1 THEN LeftAt(entries, I, g, k + 1) ELSE g[i]]
    <2>2. \A i \in 0..k : g[i] = LeftAt(entries, I, g, i) /\ h[i] = g[i]
      BY <2>1 DEF IsLeft
    <2>3. ASSUME NEW i \in 0..(k + 1) PROVE h[i] = LeftAt(entries, I, h, i)
      <3>1. i # 0 => i - 1 \in 0..k
        OBVIOUS
      <3>2. i # 0 => h[i - 1] = g[i - 1]
        BY <2>2, <3>1
      <3>3. LeftAt(entries, I, h, i) = LeftAt(entries, I, g, i)
        <4> HIDE DEF h
        <4>1. CASE i = 0
          BY <4>1 DEF LeftAt
        <4>2. CASE i # 0
          BY <3>2, <4>2, Zenon DEF LeftAt
        <4>3. QED
          BY <4>1, <4>2
      <3>4. CASE i = k + 1
        BY <3>3, <3>4
      <3>5. CASE i # k + 1
        BY <2>2, <3>3, <3>5
      <3>6. QED
        BY <3>4, <3>5
    <2>4. IsLeft(entries, I, k + 1, h)
      <3>1. h = [i \in 0..(k + 1) |-> h[i]]
        OBVIOUS
      <3> HIDE DEF h
      <3>2. QED
        BY <2>3, <3>1 DEF IsLeft
    <2>5. QED
      BY <2>4
  <1>3. Nat \subseteq T
    <2> HIDE DEF T
    <2> QED BY <1>1, <1>2, NatSetInduction
  <1>4. QED
    BY <1>3

\* EntriesAt returns the value of that function for all entries.
LEMMA EntriesAtIsLeft ==
  ASSUME NEW entries, NEW I, Len(entries) \in Nat
  PROVE  \E g : IsLeft(entries, I, Len(entries), g) /\ EntriesAt(entries, I) = g[Len(entries)]
  <1> DEFINE g == CHOOSE h : IsLeft(entries, I, Len(entries), h)
  <1>1. IsLeft(entries, I, Len(entries), g)
    BY LeftExists
  <1>2. EntriesAt(entries, I) = g[Len(entries)]
    BY DEF EntriesAt, IsLeft, LeftAt
  <1>3. QED
    BY <1>1, <1>2

\* The entries of I are entries.
LEMMA EntriesAtType ==
  ASSUME NEW entries \in Seq(Entry), NEW I
  PROVE  EntriesAt(entries, I) \in Seq(Entry)
  <1>1. Len(entries) \in Nat
    OBVIOUS
  <1>2. PICK g : IsLeft(entries, I, Len(entries), g) /\ EntriesAt(entries, I) = g[Len(entries)]
    BY <1>1, EntriesAtIsLeft
  <1> DEFINE T == {i \in Nat : i <= Len(entries) => g[i] \in Seq(Entry)}
  <1>3. \A i \in 0..Len(entries) : g[i] = LeftAt(entries, I, g, i)
    BY <1>2 DEF IsLeft
  <1>4. 0 \in T
    <2>1. 0 \in 0..Len(entries)
      BY <1>1
    <2>2. g[0] = <<>>
      BY <1>3, <2>1 DEF LeftAt
    <2>3. <<>> \in Seq(Entry)
      OBVIOUS
    <2>4. QED
      BY <2>2, <2>3
  <1>5. ASSUME NEW k \in Nat, k \in T PROVE k + 1 \in T
    <2> SUFFICES ASSUME k + 1 <= Len(entries) PROVE g[k + 1] \in Seq(Entry)
      OBVIOUS
    <2>1. k <= Len(entries) /\ k + 1 \in 0..Len(entries) /\ k + 1 \in 1..Len(entries)
      BY <1>1
    <2>2. g[k] \in Seq(Entry) /\ entries[k + 1] \in Entry
      BY <1>5, <2>1
    <2>3. g[k + 1] = g[k] \/ g[k + 1] = Append(g[k], entries[k + 1])
      <3>1. g[k + 1] = LeftAt(entries, I, g, k + 1) /\ k + 1 # 0 /\ (k + 1) - 1 = k
        BY <1>3, <2>1
      <3>2. QED
        BY <3>1 DEF LeftAt
    <2>4. Append(g[k], entries[k + 1]) \in Seq(Entry)
      BY <2>2
    <2>5. QED
      BY <2>2, <2>3, <2>4, Zenon
  <1>6. Nat \subseteq T
    <2> HIDE DEF T
    <2> QED BY <1>4, <1>5, NatSetInduction
  <1>7. QED
    BY <1>1, <1>2, <1>6

\* The entries that are left are entries.
LEMMA ImmatureType ==
  ASSUME NEW entries \in Seq(Entry)
  PROVE  Immature(entries) \in Seq(Entry)
  BY EntriesAtType DEF Immature

\* The amounts of the entries.
Amounts(entries) == [i \in DOMAIN entries |-> entries[i].amount]

\* They are natural numbers, and finitely many.
LEMMA EntryAmounts ==
  ASSUME NEW entries \in Seq(Entry)
  PROVE  /\ Len(entries) \in Nat /\ DOMAIN entries = 1..Len(entries)
         /\ IsFiniteSet(DOMAIN entries)
         /\ \A i \in DOMAIN entries : /\ entries[i] \in Entry
                                      /\ Amounts(entries)[i] = entries[i].amount
                                      /\ Amounts(entries)[i] \in Nat
  <1>1. Len(entries) \in Nat /\ DOMAIN entries = 1..Len(entries)
    OBVIOUS
  <1>2. IsFiniteSet(1..Len(entries))
    BY <1>1, FS_Interval
  <1>3. \A i \in DOMAIN entries : entries[i] \in Entry
    OBVIOUS
  <1>4. \A i \in DOMAIN entries : Amounts(entries)[i] = entries[i].amount
    BY DEF Amounts
  <1>5. QED
    BY <1>1, <1>2, <1>3, <1>4 DEF Entry

\* The amount of a part of the entries is the sum of their amounts.
LEMMA EntriesAmount ==
  ASSUME NEW entries \in Seq(Entry), NEW I \in SUBSET DOMAIN entries
  PROVE  /\ IsFiniteSet(I)
         /\ AmountOf(entries, I) = SumFunctionOnSet(Amounts(entries), I)
         /\ AmountOf(entries, I) \in Nat
  <1> DEFINE f == [i \in I |-> entries[i].amount]
  <1>1. IsFiniteSet(I)
    BY EntryAmounts, FS_Subset
  <1>2. \A i \in I : f[i] = Amounts(entries)[i] /\ Amounts(entries)[i] \in Nat
    BY EntryAmounts
  <1> HIDE DEF f
  <1>3. SumFunctionOnSet(f, I) = SumFunctionOnSet(Amounts(entries), I)
    BY <1>1, <1>2, SumEqual
  <1>4. SumFunctionOnSet(Amounts(entries), I) \in Nat
    BY <1>1, <1>2, SumNat
  <1>5. AmountOf(entries, I) = SumFunctionOnSet(f, I)
    BY DEF AmountOf, SumOver, f
  <1>6. QED
    BY <1>1, <1>3, <1>4, <1>5

\* An entry at the end adds its amount.
LEMMA AppendAmount ==
  ASSUME NEW entries \in Seq(Entry), NEW e \in Entry
  PROVE  /\ Append(entries, e) \in Seq(Entry)
         /\ SumOfEntries(Append(entries, e)) = SumOfEntries(entries) + e.amount
  <1>0. Append(entries, e) \in Seq(Entry)
    OBVIOUS
  <1>1. PICK new \in Seq(Entry) : new = Append(entries, e)
    BY <1>0
  <1>2. PICK n \in Nat : n = Len(entries)
    BY EntryAmounts
  <1>3. /\ DOMAIN entries = 1..n /\ DOMAIN new = 1..(n + 1)
        /\ new[n + 1] = e /\ \A i \in 1..n : new[i] = entries[i]
    BY <1>1, <1>2
  <1>4. PICK S : S = 1..n
    OBVIOUS
  <1>5. DOMAIN entries = S /\ DOMAIN new = S \cup {n + 1} /\ n + 1 \notin S
    BY <1>3, <1>4
  <1>6. PICK f, g : f = Amounts(entries) /\ g = Amounts(new)
    OBVIOUS
  <1>7. /\ \A x \in S \cup {n + 1} : g[x] \in Nat
        /\ \A x \in S : g[x] = f[x]
        /\ g[n + 1] = e.amount
    <2>1. \A x \in DOMAIN new : g[x] = new[x].amount /\ g[x] \in Nat
      BY <1>6, EntryAmounts
    <2>2. \A x \in S : f[x] = entries[x].amount
      BY <1>5, <1>6, EntryAmounts
    <2>3. QED
      BY <1>3, <1>4, <1>5, <2>1, <2>2
  <1>8. IsFiniteSet(S)
    BY <1>5, EntryAmounts
  <1>9. SumFunctionOnSet(g, S \cup {n + 1}) = g[n + 1] + SumFunctionOnSet(g, S)
    BY <1>5, <1>7, <1>8, SumAdd
  <1>10. SumFunctionOnSet(g, S) = SumFunctionOnSet(f, S)
    BY <1>7, <1>8, SumEqual
  <1>11. SumOfEntries(entries) = SumFunctionOnSet(f, S) /\ SumOfEntries(entries) \in Nat
    <2>1. DOMAIN entries \in SUBSET DOMAIN entries
      OBVIOUS
    <2>2. QED
      BY <1>5, <1>6, <2>1, EntriesAmount DEF SumOfEntries
  <1>12. SumOfEntries(new) = SumFunctionOnSet(g, S \cup {n + 1})
    <2>1. DOMAIN new \in SUBSET DOMAIN new
      OBVIOUS
    <2>2. QED
      BY <1>5, <1>6, <2>1, EntriesAmount DEF SumOfEntries
  <1>13. e.amount \in Nat
    BY DEF Entry
  <1>14. QED
    BY <1>1, <1>7, <1>9, <1>10, <1>11, <1>12, <1>13

\* The entries of I have their amount.
LEMMA EntriesAtAmount ==
  ASSUME NEW entries \in Seq(Entry), NEW I \in SUBSET DOMAIN entries
  PROVE  SumOfEntries(EntriesAt(entries, I)) = AmountOf(entries, I)
  <1>1. PICK n \in Nat : n = Len(entries) /\ DOMAIN entries = 1..n
    BY EntryAmounts
  <1>2. PICK g : IsLeft(entries, I, n, g) /\ EntriesAt(entries, I) = g[n]
    BY <1>1, EntriesAtIsLeft
  <1>3. \A i \in 0..n : g[i] = LeftAt(entries, I, g, i)
    BY <1>2 DEF IsLeft
  <1> DEFINE Up(i) == I \cap 1..i
             Good(i) == g[i] \in Seq(Entry) /\ SumOfEntries(g[i]) = AmountOf(entries, Up(i))
             T == {i \in Nat : i <= n => Good(i)}
  <1>4. 0 \in T
    <2>1. g[0] = <<>> /\ <<>> \in Seq(Entry)
      BY <1>3 DEF LeftAt
    <2>2. Up(0) = {} /\ DOMAIN g[0] = {}
      BY <2>1
    <2>3. AmountOf(entries, {}) = 0 /\ AmountOf(g[0], {}) = 0
      BY SumEmpty DEF AmountOf, SumOver
    <2>4. QED
      BY <2>1, <2>2, <2>3 DEF SumOfEntries
  <1>5. ASSUME NEW k \in Nat, k \in T PROVE k + 1 \in T
    <2> SUFFICES ASSUME k + 1 <= n PROVE Good(k + 1)
      OBVIOUS
    <2>1. k <= n /\ k + 1 \in 0..n /\ k + 1 \in 1..n /\ k + 1 # 0 /\ (k + 1) - 1 = k
      BY <1>1
    <2>2. g[k] \in Seq(Entry) /\ SumOfEntries(g[k]) = AmountOf(entries, Up(k))
      BY <1>5, <2>1
    <2>3. g[k + 1] = IF k + 1 \in I THEN Append(g[k], entries[k + 1]) ELSE g[k]
      BY <1>3, <2>1 DEF LeftAt
    <2>4. entries[k + 1] \in Entry
      BY <1>1, <2>1, EntryAmounts
    <2>5. CASE k + 1 \notin I
      <3>1. Up(k + 1) = Up(k)
        BY <2>5
      <3>2. g[k + 1] = g[k]
        BY <2>3, <2>5
      <3> HIDE DEF Up
      <3>3. QED
        BY <2>2, <3>1, <3>2
    <2>6. CASE k + 1 \in I
      <3>1. PICK S, R : S = Up(k) /\ R = Up(k + 1)
        OBVIOUS
      <3>2. R = S \cup {k + 1} /\ k + 1 \notin S /\ S \in SUBSET DOMAIN entries /\ R \in SUBSET DOMAIN entries
        BY <2>6, <3>1
      <3>3. PICK h : h = Amounts(entries)
        OBVIOUS
      <3>4. /\ \A x \in S \cup {k + 1} : h[x] \in Nat
            /\ h[k + 1] = entries[k + 1].amount
        BY <3>2, <3>3, EntryAmounts
      <3>5. IsFiniteSet(S) /\ AmountOf(entries, S) = SumFunctionOnSet(h, S) /\ AmountOf(entries, S) \in Nat
        BY <3>2, <3>3, EntriesAmount
      <3>6. AmountOf(entries, R) = SumFunctionOnSet(h, R)
        BY <3>2, <3>3, EntriesAmount
      <3>7. SumFunctionOnSet(h, S \cup {k + 1}) = h[k + 1] + SumFunctionOnSet(h, S)
        BY <3>2, <3>4, <3>5, SumAdd
      <3>8. /\ Append(g[k], entries[k + 1]) \in Seq(Entry)
            /\ SumOfEntries(Append(g[k], entries[k + 1])) = SumOfEntries(g[k]) + entries[k + 1].amount
        BY <2>2, <2>4, AppendAmount
      <3>9. g[k + 1] = Append(g[k], entries[k + 1])
        BY <2>3, <2>6
      <3>10. entries[k + 1].amount \in Nat
        BY <2>4 DEF Entry
      <3> HIDE DEF Up
      <3>11. SumOfEntries(g[k]) = SumFunctionOnSet(h, S)
        BY <2>2, <3>1, <3>5
      <3>12. SumOfEntries(g[k + 1]) = SumFunctionOnSet(h, S) + entries[k + 1].amount
        BY <3>8, <3>9, <3>11
      <3>13. AmountOf(entries, R) = entries[k + 1].amount + SumFunctionOnSet(h, S)
        BY <3>2, <3>4, <3>6, <3>7
      <3>14. SumOfEntries(g[k + 1]) = AmountOf(entries, R)
        BY <3>5, <3>10, <3>12, <3>13
      <3>15. QED
        BY <3>1, <3>8, <3>9, <3>14
    <2>7. QED
      BY <2>5, <2>6
  <1>6. n \in T
    <2> HIDE DEF T
    <2>1. Nat \subseteq T
      BY <1>4, <1>5, NatSetInduction
    <2>2. QED
      BY <2>1
  <1>7. Up(n) = I
    BY <1>1
  <1>8. Good(n)
    BY <1>6
  <1> HIDE DEF Up
  <1>9. QED
    BY <1>2, <1>7, <1>8

\* A part of the entries and the rest add up to all of them.
LEMMA EntriesSplit ==
  ASSUME NEW entries \in Seq(Entry), NEW I \in SUBSET DOMAIN entries
  PROVE  /\ SumOfEntries(entries) = AmountOf(entries, DOMAIN entries \ I) + AmountOf(entries, I)
         /\ AmountOf(entries, DOMAIN entries \ I) \in Nat /\ AmountOf(entries, I) \in Nat
  <1>1. PICK D, R, f : D = DOMAIN entries /\ R = D \ I /\ f = Amounts(entries)
    OBVIOUS
  <1>2. D \in SUBSET DOMAIN entries /\ R \in SUBSET DOMAIN entries /\ I \in SUBSET D
    BY <1>1
  <1>3. IsFiniteSet(D) /\ \A x \in D : f[x] \in Nat
    BY <1>1, EntryAmounts
  <1>4. SumFunctionOnSet(f, D) = SumFunctionOnSet(f, D \ I) + SumFunctionOnSet(f, I)
    BY <1>2, <1>3, SumDifference
  <1>5. /\ AmountOf(entries, D) = SumFunctionOnSet(f, D)
        /\ AmountOf(entries, R) = SumFunctionOnSet(f, R) /\ AmountOf(entries, R) \in Nat
        /\ AmountOf(entries, I) = SumFunctionOnSet(f, I) /\ AmountOf(entries, I) \in Nat
    BY <1>1, <1>2, EntriesAmount
  <1>6. SumOfEntries(entries) = AmountOf(entries, D)
    BY <1>1 DEF SumOfEntries
  <1>7. QED
    BY <1>1, <1>4, <1>5, <1>6

\* What matures is paid out, and the rest is left.
LEMMA MatureAndLeft ==
  ASSUME NEW entries \in Seq(Entry)
  PROVE  /\ SumOfEntries(entries) = MatureAmount(entries) + SumOfEntries(Immature(entries))
         /\ MatureAmount(entries) \in Nat /\ SumOfEntries(Immature(entries)) \in Nat
  <1>1. PICK D, I, R : /\ D = DOMAIN entries /\ I = {i \in D : Mature(entries[i])}
                       /\ R = {i \in D : ~ Mature(entries[i])}
    OBVIOUS
  <1>2. I \in SUBSET D /\ R \in SUBSET D /\ R = D \ I
    BY <1>1
  <1>3. /\ SumOfEntries(entries) = AmountOf(entries, D \ I) + AmountOf(entries, I)
        /\ AmountOf(entries, D \ I) \in Nat /\ AmountOf(entries, I) \in Nat
    BY <1>1, <1>2, EntriesSplit
  <1>4. SumOfEntries(EntriesAt(entries, R)) = AmountOf(entries, R)
    BY <1>1, <1>2, EntriesAtAmount
  <1>5. MatureAmount(entries) = AmountOf(entries, I) /\ Immature(entries) = EntriesAt(entries, R)
    BY <1>1 DEF MatureAmount, Immature
  <1>6. QED
    BY <1>2, <1>3, <1>4, <1>5

-----------------------------------------------------------------------------
(* The coins of the accounts and of the module account.                    *)

BankInv ==
  /\ balances \in [Accounts -> Nat] /\ moduleBalance \in Nat
  /\ unbonding \in [Accounts -> Seq(Entry)]

\* The balance of one account changes.
LEMMA BalanceSet ==
  ASSUME NEW old \in [Accounts -> Nat], NEW a \in Accounts, NEW n \in Nat
  PROVE  [old EXCEPT ![a] = n] \in [Accounts -> Nat]
  OBVIOUS

\* SendCoinsFromAccountToModule
LEMMA SendToModuleEffect ==
  ASSUME BankInv, NEW a \in Accounts, NEW amount \in Nat, SendToModule(a, amount)
  PROVE  /\ balances' \in [Accounts -> Nat] /\ moduleBalance' \in Nat
         /\ moduleBalance' = moduleBalance + amount
  <1>1. PICK n \in Nat : n = balances[a] - amount
    BY DEF BankInv, SendToModule
  <1>2. balances' = [balances EXCEPT ![a] = n]
    BY <1>1 DEF SendToModule
  <1>3. QED
    BY <1>2, BalanceSet DEF BankInv, SendToModule

\* The messages of providers and delegators keep BankInv.
LEMMA ProviderStepBank ==
  ASSUME BankInv, now \in Nat, ProviderStep
  PROVE  BankInv'
  <1>1. ASSUME UNCHANGED <<balances, moduleBalance, unbonding>> PROVE BankInv'
    BY <1>1 DEF BankInv
  <1>2. PICK a \in Accounts :
          \/ \E amount \in Nat : DepositCollateral(a, amount)
          \/ \E amount \in Nat : WithdrawCollateral(a, amount)
          \/ \E amount \in Nat : Delegate(a, amount)
          \/ \E amount \in Nat, removed \in BOOLEAN : Undelegate(a, amount, removed)
          \/ \E amount \in Nat, removed \in BOOLEAN : Redelegate(a, amount, removed)
          \/ \E amount \in Nat : Slash(a, amount)
    BY DEF ProviderStep
  <1>3. ASSUME NEW amount \in Nat, DepositCollateral(a, amount) PROVE BankInv'
    BY <1>1, <1>3 DEF DepositCollateral, bankVars, stakingVars
  <1>4. ASSUME NEW amount \in Nat, WithdrawCollateral(a, amount) PROVE BankInv'
    BY <1>1, <1>4 DEF WithdrawCollateral, bankVars, stakingVars
  <1>5. ASSUME NEW amount \in Nat, Delegate(a, amount) PROVE BankInv'
    <2>1. PICK n \in Nat : n = balances[a] - amount
      BY <1>5 DEF BankInv, Delegate
    <2>2. balances' = [balances EXCEPT ![a] = n] /\ UNCHANGED <<moduleBalance, unbonding>>
      BY <1>5, <2>1 DEF Delegate
    <2>3. QED
      BY <2>2, BalanceSet DEF BankInv
  <1>6. ASSUME NEW amount \in Nat, NEW removed, Undelegate(a, amount, removed) PROVE BankInv'
    <2> DEFINE e == [amount |-> amount, completionTime |-> now + UnbondingTime]
               u == unbonding[a]
    <2>1. e \in Entry /\ u \in Seq(Entry)
      BY ParamsAssumption DEF Entry, BankInv
    <2>2. unbonding' = [unbonding EXCEPT ![a] = Append(u, e)]
      BY <1>6 DEF Undelegate
    <2> HIDE DEF e, u
    <2>3. Append(u, e) \in Seq(Entry)
      BY <2>1
    <2>4. unbonding' \in [Accounts -> Seq(Entry)]
      BY <2>2, <2>3 DEF BankInv
    <2>5. UNCHANGED <<balances, moduleBalance>>
      BY <1>6 DEF Undelegate, bankVars
    <2>6. QED
      BY <2>4, <2>5 DEF BankInv
  <1>7. ASSUME NEW amount \in Nat, NEW removed, Redelegate(a, amount, removed) PROVE BankInv'
    BY <1>1, <1>7 DEF Redelegate, bankVars, stakingVars
  <1>8. ASSUME NEW amount \in Nat, Slash(a, amount) PROVE BankInv'
    BY <1>1, <1>8 DEF Slash, bankVars
  <1>9. QED
    BY <1>2, <1>3, <1>4, <1>5, <1>6, <1>7, <1>8

\* Every step keeps BankInv.
LEMMA BankInvStep ==
  ASSUME ProviderInv, BookInv, StakeInv, BankInv, [Next]_vars
  PROVE  BankInv'
  <1>1. ASSUME UNCHANGED <<balances, moduleBalance, unbonding>> PROVE BankInv'
    BY <1>1 DEF BankInv
  <1>2. CASE ProviderStep
    BY <1>2, ProviderStepBank DEF BookInv
  <1>3. ASSUME NEW a \in Accounts, WithdrawRewards(a) PROVE BankInv'
    <2>1. PICK paid \in Nat :
            /\ paid <= moduleBalance /\ moduleBalance' = moduleBalance - paid
            /\ balances' = [balances EXCEPT ![a] = @ + paid]
      BY <1>3, WithdrawRewardsEffect
    <2>2. PICK n \in Nat : n = balances[a] + paid
      BY DEF BankInv
    <2>3. balances' = [balances EXCEPT ![a] = n] /\ moduleBalance' \in Nat
      BY <2>1, <2>2 DEF BankInv
    <2>4. UNCHANGED unbonding
      BY <1>3 DEF WithdrawRewards, stakingVars
    <2>5. QED
      BY <2>3, <2>4, BalanceSet DEF BankInv
  <1>4. CASE BuyStep
    <2>1. PICK id, pool, shield, a, fees, stake : Buys(id, pool, shield, a, fees, stake)
      BY <1>4 DEF BuyStep
    <2>2. a \in Accounts /\ fees \in Nat /\ stake \in Nat /\ UNCHANGED unbonding
      BY <2>1 DEF Buys, BuyShield, stakingVars
    <2>3. SendToModule(a, fees) \/ SendToModule(a, stake)
      BY <2>1, BuyKeepsStake
    <2>4. balances' \in [Accounts -> Nat] /\ moduleBalance' \in Nat
      BY <2>2, <2>3, SendToModuleEffect
    <2>5. QED
      BY <2>2, <2>4 DEF BankInv
  <1>5. CASE EditStep
    BY <1>1, <1>5 DEF EditStep, EditsPool, bankVars, stakingVars
  <1>6. ASSUME NEW a, NEW id, NEW amount, UnstakeFromShield(id, a, amount) PROVE BankInv'
    BY <1>1, <1>6 DEF UnstakeFromShield, bankVars, stakingVars
  <1>7. CASE EndBlocker
    BY <1>1, <1>7 DEF EndBlocker, bankVars, stakingVars
  <1>8. CASE EndBlockerHalts
    BY <1>1, <1>8 DEF EndBlockerHalts, bankVars, stakingVars
  <1>9. CASE StakingEndBlocker
    <2>1. /\ balances' = [a \in Accounts |-> balances[a] + MatureAmount(unbonding[a])]
          /\ unbonding' = [a \in Accounts |-> Immature(unbonding[a])]
          /\ UNCHANGED moduleBalance
      BY <1>9 DEF StakingEndBlocker
    <2>2. ASSUME NEW a \in Accounts
          PROVE  /\ balances[a] + MatureAmount(unbonding[a]) \in Nat
                 /\ Immature(unbonding[a]) \in Seq(Entry)
      <3>1. balances[a] \in Nat /\ unbonding[a] \in Seq(Entry)
        BY DEF BankInv
      <3>2. MatureAmount(unbonding[a]) \in Nat /\ Immature(unbonding[a]) \in Seq(Entry)
        BY <3>1, MatureAndLeft, ImmatureType
      <3>3. QED
        BY <3>1, <3>2
    <2>3. balances' \in [Accounts -> Nat] /\ unbonding' \in [Accounts -> Seq(Entry)]
      BY <2>1, <2>2
    <2>4. QED
      BY <2>1, <2>3 DEF BankInv
  <1>10. ASSUME NEW elapsed \in Nat, NEW reward \in Nat, NextBlock(elapsed, reward) PROVE BankInv'
    BY <1>10 DEF NextBlock, BankInv, stakingVars
  <1>11. CASE UNCHANGED vars
    BY <1>1, <1>11 DEF vars, bankVars, stakingVars
  <1>12. QED
    BY <1>2, <1>3, <1>4, <1>5, <1>6, <1>7, <1>8, <1>9, <1>10, <1>11, StepKinds

\* The coins and the unbonding entries keep their types.
THEOREM ShieldBankInv == Spec => []BankInv
  <1>1. Init => BankInv
    BY InputsAssumption DEF Init, BankInv
  <1>2. ProviderInv /\ BookInv /\ StakeInv /\ BankInv /\ [Next]_vars => BankInv'
    BY BankInvStep
  <1>3. QED
    BY <1>1, <1>2, ShieldBooks, ShieldStakeInv, PTL DEF Spec

\* The stores hold records of their types, and no total becomes negative.
THEOREM ShieldTypeOK == Spec => []TypeOK
  <1>1. ProviderInv /\ BookInv /\ ShieldInv /\ StakeInv /\ BankInv => TypeOK
    <2> SUFFICES ASSUME ProviderInv, BookInv, ShieldInv, StakeInv, BankInv PROVE TypeOK
      OBVIOUS
    <2>1. /\ IsStore(providers, Accounts, Provider) /\ IsStore(withdraws, Nat, Withdraw)
          /\ delegated \in [Accounts -> Nat]
      BY DEF ProviderInv, GoodProviders, GoodQueue
    <2>2. totalCollateral \in Int /\ totalWithdrawing \in Int /\ totalClaimed \in Int
      <3>1. totalCollateral \in Nat /\ totalWithdrawing \in Nat
        BY CoverAmounts
      <3>2. QED
        BY <3>1 DEF ShieldInv
    <2>3. /\ now \in Nat /\ phase \in {"deliver", "staking", "gov", "halted"}
          /\ IsStore(pools, Nat, Pool) /\ nextPoolID \in Nat /\ totalShield \in Int
          /\ IsStore(purchases, Nat, Purchase) /\ nextPurchaseID \in Nat
          /\ serviceFees \in Nat /\ remainingServiceFees \in Int /\ blockServiceFees \in Nat
          /\ lastUpdateTime \in Nat
      BY DEF BookInv
    <2>4. /\ IsStore(stakeForShield, Nat \X Accounts, ShieldStaking)
          /\ IsStore(originalStaking, Nat, Nat) /\ globalStakingPool \in Nat
      BY StakeTotalNat DEF StakeInv
    <2>5. /\ unbonding \in [Accounts -> Seq([amount : Nat, completionTime : Nat])]
          /\ balances \in [Accounts -> Nat] /\ moduleBalance \in Nat
      BY DEF BankInv, Entry
    <2>6. QED
      BY <2>1, <2>2, <2>3, <2>4, <2>5 DEF TypeOK
  <1>2. QED
    BY <1>1, ShieldBooks, ShieldStakeInv, ShieldBankInv, PTL

\* What is booked, by the sums of this module.
BookedSum ==
  remainingServiceFees + TotalRewards(providers) + Dec(StakeTotal(stakeForShield))
    + blockServiceFees

\* The parts of the books are natural numbers.
LEMMA BookedNat ==
  ASSUME ProviderInv, BookInv, StakeInv, BankInv
  PROVE  /\ remainingServiceFees \in Nat /\ TotalRewards(providers) \in Nat
         /\ Dec(StakeTotal(stakeForShield)) \in Nat /\ blockServiceFees \in Nat
         /\ Dec(moduleBalance) \in Nat /\ moduleBalance \in Nat
         /\ StakeTotal(stakeForShield) \in Nat
  <1>1. remainingServiceFees \in Nat /\ blockServiceFees \in Nat /\ moduleBalance \in Nat
    BY DEF BookInv, BankInv
  <1>2. TotalRewards(providers) \in Nat /\ StakeTotal(stakeForShield) \in Nat
    BY TotalsNat, StakeTotalNat DEF ProviderInv
  <1>3. QED
    BY <1>1, <1>2, DecNat

\* Payments and books change together.
Balanced == BookedSum' - Dec(moduleBalance') = BookedSum - Dec(moduleBalance)

\* A payment of rewards leaves the fraction among the fees.
LEMMA RewardsBalanced ==
  ASSUME ProviderInv, BookInv, StakeInv, BankInv, NEW a, WithdrawRewards(a)
  PROVE  Balanced
  <1>1. PICK r \in Nat, paid \in Nat :
          /\ Dec(paid) \in Nat
          /\ paid <= moduleBalance /\ moduleBalance' = moduleBalance - paid
          /\ remainingServiceFees' = remainingServiceFees + r - Dec(paid)
          /\ TotalRewards(providers') + r = TotalRewards(providers)
    BY WithdrawRewardsEffect
  <1>2. UNCHANGED <<stakeForShield, blockServiceFees>>
    BY DEF WithdrawRewards, stakeVars
  <1>3. Dec(moduleBalance') = Dec(moduleBalance) - Dec(paid)
    BY <1>1, DecNat DEF BankInv
  <1>4. TotalRewards(providers') \in Nat
    <2>1. GoodProviders(providers')
      BY WithdrawRewardsEffect DEF ProviderInv
    <2>2. QED
      BY <2>1, TotalsNat
  <1>5. PICK f \in Nat, t \in Nat, s \in Nat, b \in Nat, m \in Nat, u \in Nat, d \in Nat :
          /\ f = remainingServiceFees /\ t = TotalRewards(providers)
          /\ s = Dec(StakeTotal(stakeForShield)) /\ b = blockServiceFees
          /\ m = Dec(moduleBalance) /\ u = TotalRewards(providers') /\ d = Dec(paid)
    BY <1>1, <1>4, BookedNat
  <1>6. u + r = t
    BY <1>1, <1>5
  <1>7. BookedSum = f + t + s + b /\ BookedSum' = (f + r - d) + u + s + b
    BY <1>1, <1>2, <1>5 DEF BookedSum
  <1>8. (f + r - d) + u + s + b - (m - d) = f + t + s + b - m
    BY <1>6
  <1>9. Dec(moduleBalance') = m - d /\ Dec(moduleBalance) = m
    BY <1>3, <1>5
  <1>10. QED
    BY <1>7, <1>8, <1>9 DEF Balanced

\* The fees or the stake of a purchase are paid to the module account.
LEMMA BuyBalanced ==
  ASSUME ProviderInv, BookInv, StakeInv, BankInv,
         NEW id, NEW pool, NEW shield, NEW a, NEW fees, NEW stake,
         Buys(id, pool, shield, a, fees, stake)
  PROVE  Balanced
  <1>1. a \in Accounts /\ fees \in Nat /\ stake \in Nat /\ UNCHANGED <<providers, blockServiceFees>>
    BY DEF Buys, BuyShield, providerVars
  <1>2. PICK f \in Nat, t \in Nat, s \in Nat, b \in Nat, m \in Nat, x \in Nat, y \in Nat :
          /\ f = remainingServiceFees /\ t = TotalRewards(providers)
          /\ s = Dec(StakeTotal(stakeForShield)) /\ b = blockServiceFees
          /\ m = Dec(moduleBalance) /\ x = Dec(fees) /\ y = Dec(stake)
    BY <1>1, BookedNat, DecNat
  <1>3. CASE /\ SendToModule(a, fees) /\ UNCHANGED stakeForShield
             /\ remainingServiceFees' = remainingServiceFees + Dec(fees)
    <2>1. moduleBalance' = moduleBalance + fees
      BY <1>1, <1>3, SendToModuleEffect
    <2>2. Dec(moduleBalance') = m + x
      BY <1>1, <1>2, <2>1, DecNat, BookedNat
    <2>3. BookedSum = f + t + s + b /\ BookedSum' = (f + x) + t + s + b
      BY <1>1, <1>2, <1>3 DEF BookedSum
    <2>4. (f + x) + t + s + b - (m + x) = f + t + s + b - m
      OBVIOUS
    <2>5. QED
      BY <1>2, <2>2, <2>3, <2>4 DEF Balanced
  <1>4. CASE /\ SendToModule(a, stake) /\ remainingServiceFees' = remainingServiceFees
             /\ StakeTotal(stakeForShield') = StakeTotal(stakeForShield) + stake
    <2>1. moduleBalance' = moduleBalance + stake
      BY <1>1, <1>4, SendToModuleEffect
    <2>2. Dec(moduleBalance') = m + y
      BY <1>1, <1>2, <2>1, DecNat, BookedNat
    <2>3. Dec(StakeTotal(stakeForShield')) = s + y
      BY <1>1, <1>2, <1>4, DecNat, BookedNat
    <2>4. BookedSum = f + t + s + b /\ BookedSum' = f + t + (s + y) + b
      BY <1>1, <1>2, <1>4, <2>3 DEF BookedSum
    <2>5. f + t + (s + y) + b - (m + y) = f + t + s + b - m
      OBVIOUS
    <2>6. QED
      BY <1>2, <2>2, <2>4, <2>5 DEF Balanced
  <1>5. QED
    BY <1>3, <1>4, BuyKeepsStake

\* The EndBlocker moves fees to the providers, and the block rewards to the fees.
LEMMA EndBlockerBalanced ==
  ASSUME ProviderInv, BookInv, StakeInv, BankInv, EndBlocker
  PROVE  Balanced
  <1>1. /\ remainingServiceFees' = remainingServiceFees - GivenTotal
             + (IF lastUpdateTime = 0 THEN 0 ELSE blockServiceFees)
        /\ blockServiceFees' = IF lastUpdateTime = 0 THEN blockServiceFees ELSE 0
        /\ UNCHANGED <<stakeForShield, moduleBalance>>
    BY DEF EndBlocker, GivenTotal, stakeVars, bankVars
  <1>2. TotalRewards(providers') = TotalRewards(providers) + GivenTotal
    BY EndBlockerProviders
  <1>3. GivenTotal \in Nat
    BY GivenCovered DEF EndBlocker
  <1>4. PICK f \in Nat, t \in Nat, s \in Nat, b \in Nat, g \in Nat, m \in Nat :
          /\ f = remainingServiceFees /\ t = TotalRewards(providers)
          /\ s = Dec(StakeTotal(stakeForShield)) /\ b = blockServiceFees /\ g = GivenTotal
          /\ m = Dec(moduleBalance)
    BY <1>3, BookedNat
  <1>5. BookedSum = f + t + s + b
    BY <1>4 DEF BookedSum
  <1>6. BookedSum' = f + t + s + b
    <2>1. BookedSum' = remainingServiceFees' + (t + g) + s + blockServiceFees'
      BY <1>1, <1>2, <1>4 DEF BookedSum
    <2>2. \/ remainingServiceFees' = f - g + 0 /\ blockServiceFees' = b
          \/ remainingServiceFees' = f - g + b /\ blockServiceFees' = 0
      BY <1>1, <1>4
    <2>3. /\ (f - g + 0) + (t + g) + s + b = f + t + s + b
          /\ (f - g + b) + (t + g) + s + 0 = f + t + s + b
      OBVIOUS
    <2>4. QED
      BY <2>1, <2>2, <2>3
  <1>7. QED
    BY <1>1, <1>4, <1>5, <1>6 DEF Balanced

\* Fees that UpdatePool books without a payment.
ToppedUp ==
  \E fees \in FeeInputs :
    /\ TopUp(fees)
    /\ BookedSum' - Dec(moduleBalance') = BookedSum - Dec(moduleBalance) + Dec(fees)

\* Every step changes books and account together, or is such an UpdatePool.
LEMMA BalancedStep ==
  ASSUME ProviderInv, BookInv, StakeInv, BankInv, [Next]_vars
  PROVE  Balanced \/ ToppedUp
  <1>1. ASSUME UNCHANGED <<remainingServiceFees, stakeForShield, blockServiceFees, moduleBalance>>,
               TotalRewards(providers') = TotalRewards(providers)
        PROVE  Balanced
    BY <1>1 DEF Balanced, BookedSum
  <1>2. CASE ProviderStep
    <2>1. TotalRewards(providers') = TotalRewards(providers)
      BY <1>2, ProviderStepKeeps DEF Spares, BookInv
    <2>2. QED
      BY <1>1, <1>2, <2>1, ProviderStepFrame
  <1>3. ASSUME NEW a \in Accounts, WithdrawRewards(a) PROVE Balanced
    BY <1>3, RewardsBalanced
  <1>4. CASE BuyStep
    BY <1>4, BuyBalanced DEF BuyStep
  <1>5. CASE EditStep
    <2>1. PICK id, pool, fees :
            EditsPool(id, pool, fees) /\ (fees = 0 \/ (fees \in FeeInputs /\ TopUp(fees)))
      BY <1>5 DEF EditStep
    <2>2. /\ fees \in Nat /\ remainingServiceFees' = remainingServiceFees + Dec(fees)
          /\ UNCHANGED <<providers, stakeForShield, blockServiceFees, moduleBalance>>
      BY <2>1 DEF EditsPool, providerVars, stakeVars, bankVars
    <2>3. PICK f \in Nat, t \in Nat, s \in Nat, b \in Nat, m \in Nat, x \in Nat :
            /\ f = remainingServiceFees /\ t = TotalRewards(providers)
            /\ s = Dec(StakeTotal(stakeForShield)) /\ b = blockServiceFees
            /\ m = Dec(moduleBalance) /\ x = Dec(fees)
      BY <2>2, BookedNat, DecNat
    <2>4. /\ BookedSum = f + t + s + b /\ BookedSum' = (f + x) + t + s + b
          /\ Dec(moduleBalance') = m
      BY <2>2, <2>3 DEF BookedSum
    <2>5. (f + x) + t + s + b - m = f + t + s + b - m + x
      OBVIOUS
    <2>6. BookedSum' - Dec(moduleBalance') = BookedSum - Dec(moduleBalance) + Dec(fees)
      BY <2>3, <2>4, <2>5
    <2>7. CASE fees = 0
      <3>1. x = 0
        BY <2>3, <2>7, PrecisionAssumption DEF Dec
      <3>2. (f + x) + t + s + b - m = f + t + s + b - m
        BY <3>1
      <3>3. QED
        BY <2>3, <2>4, <3>2 DEF Balanced
    <2>8. CASE fees \in FeeInputs /\ TopUp(fees)
      BY <2>6, <2>8 DEF ToppedUp
    <2>9. QED
      BY <2>1, <2>7, <2>8
  <1>6. ASSUME NEW a, NEW id, NEW amount \in Nat, UnstakeFromShield(id, a, amount) PROVE Balanced
    <2>1. StakeTotal(stakeForShield') = StakeTotal(stakeForShield)
      BY <1>6, UnstakeKeepsStake
    <2>2. UNCHANGED <<remainingServiceFees, providers, blockServiceFees, moduleBalance>>
      BY <1>6 DEF UnstakeFromShield, feeVars, providerVars, bankVars
    <2>3. QED
      BY <2>1, <2>2 DEF Balanced, BookedSum
  <1>7. CASE EndBlocker
    BY <1>7, EndBlockerBalanced
  <1>8. CASE EndBlockerHalts \/ StakingEndBlocker
    BY <1>1, <1>8 DEF EndBlockerHalts, StakingEndBlocker, feeVars, providerVars, stakeVars, bankVars
  <1>9. ASSUME NEW elapsed \in Nat, NEW reward \in Nat, NextBlock(elapsed, reward) PROVE Balanced
    <2>1. /\ blockServiceFees' = blockServiceFees + Dec(reward)
          /\ moduleBalance' = moduleBalance + reward
          /\ UNCHANGED <<remainingServiceFees, providers, stakeForShield>>
      BY <1>9 DEF NextBlock, providerVars, stakeVars
    <2>2. PICK f \in Nat, t \in Nat, s \in Nat, b \in Nat, m \in Nat, x \in Nat :
            /\ f = remainingServiceFees /\ t = TotalRewards(providers)
            /\ s = Dec(StakeTotal(stakeForShield)) /\ b = blockServiceFees
            /\ m = Dec(moduleBalance) /\ x = Dec(reward)
      BY BookedNat, DecNat
    <2>3. Dec(moduleBalance') = m + x
      BY <2>1, <2>2, DecNat, BookedNat
    <2>4. BookedSum = f + t + s + b /\ BookedSum' = f + t + s + (b + x)
      BY <2>1, <2>2 DEF BookedSum
    <2>5. f + t + s + (b + x) - (m + x) = f + t + s + b - m
      OBVIOUS
    <2>6. QED
      BY <2>2, <2>3, <2>4, <2>5 DEF Balanced
  <1>10. CASE UNCHANGED vars
    BY <1>1, <1>10 DEF vars, feeVars, providerVars, stakeVars, bankVars
  <1>11. QED
    BY <1>2, <1>3, <1>4, <1>5, <1>6, <1>7, <1>8, <1>9, <1>10, StepKinds

\* What is booked and not in the module account (keeper/invariants.go compares the two)
\* changes by fees that UpdatePool books without shield, and in no other step.
THEOREM ShieldOnlyTopUpsUnpaid == Spec => OnlyTopUpsUnpaid
  <1>1. ASSUME ProviderInv, BookInv, StakeInv, BankInv, [Next]_vars
        PROVE  \/ Unpaid' = Unpaid
               \/ \E fees \in FeeInputs : TopUp(fees) /\ Unpaid' = Unpaid + Dec(fees)
    <2>1. /\ Unpaid = BookedSum - Dec(moduleBalance)
          /\ Unpaid' = BookedSum' - Dec(moduleBalance')
      BY DEF Unpaid, Booked, BookedSum, Rewards, TotalRewards, StakeTotal
    <2>2. Balanced \/ ToppedUp
      BY <1>1, BalancedStep
    <2>3. QED
      BY <2>1, <2>2, Zenon DEF Balanced, ToppedUp
  <1>2. ProviderInv /\ BookInv /\ StakeInv /\ BankInv /\ [Next]_vars
          => [\/ Unpaid' = Unpaid
              \/ \E fees \in FeeInputs : TopUp(fees) /\ Unpaid' = Unpaid + Dec(fees)]_vars
    BY <1>1
  <1>3. QED
    BY <1>2, ShieldBooks, ShieldStakeInv, ShieldBankInv, PTL DEF Spec, OnlyTopUpsUnpaid
=============================================================================
