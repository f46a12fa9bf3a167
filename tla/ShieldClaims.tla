---------------------------- MODULE ShieldClaims ----------------------------
(***************************************************************************)
(* Claims and reimbursements of CertiKShield, composed with the providers, *)
(* the purchases and the EndBlockers of module Shield.                     *)
(*                                                                         *)
(* A purchaser claims a loss with a proposal of x/gov.  On submission      *)
(* x/shield takes the loss out of the purchase, counts it as claimed and   *)
(* locks collateral for two voting periods: withdraws, and the unbonding   *)
(* of the delegations behind them, that would complete earlier are put     *)
(* off.  The certifiers vote, then the validators.  A claim that passes is *)
(* paid out of the collateral, the withdraws, the delegations and the      *)
(* unbonding entries of the providers into a reimbursement, which the      *)
(* claimant withdraws after PayoutPeriod.                                  *)
(*                                                                         *)
(* The votes are those of module Gov: here their result is arbitrary, and  *)
(* deposits are left to Gov.  The EndBlocker of x/gov comes after those of *)
(* x/shield and x/staking.  A provider has one delegation, to a validator  *)
(* that is not slashed.                                                    *)
(***************************************************************************)
EXTENDS Shield

CONSTANTS
  VotingPeriod,         \* parameter of x/gov, of either round
  PayoutPeriod,         \* ClaimProposalParams
  GenesisCollateral,    \* provider -> collateral at genesis
  GenesisPurchases,     \* sequence of [purchaser, shield], in pool 1
  GenesisLimit,         \* shield limit of pool 1
  LossInputs,           \* losses in claims
  Senders,              \* who submits claims besides the claimants
  MaxClaims

ASSUME ClaimsAssumption ==
  /\ VotingPeriod \in Nat \ {0} /\ PayoutPeriod \in Nat
  /\ 2 * VotingPeriod <= WithdrawPeriod /\ 2 * VotingPeriod <= UnbondingTime
  /\ LossInputs \subseteq Nat \ {0} /\ Senders \subseteq Accounts
  /\ MaxClaims \in Nat

ASSUME GenesisAssumption ==
  /\ DOMAIN GenesisCollateral \subseteq Accounts
  /\ \A a \in DOMAIN GenesisCollateral : GenesisCollateral[a] \in 0..InitDelegated
  /\ GenesisPurchases \in Seq([purchaser : Accounts, shield : Nat])
  /\ GenesisLimit \in Int /\ Sponsors # {}

VARIABLES
  claims,           \* proposal id -> claim that is voted on
  nextProposalID,
  reimbursements    \* proposal id -> reimbursement

claimVars == <<claims, nextProposalID, reimbursements>>

allVars == <<vars, claimVars>>

\* lockEnd is the end of the lock taken on submission.
Claim == [pool : Nat, purchase : Nat, claimant : Accounts, sender : Accounts,
          loss : Nat, round : {1, 2}, votingEnd : Nat, lockEnd : Nat]

Reimbursement == [amount : Nat, beneficiary : Accounts, payoutTime : Nat]

-----------------------------------------------------------------------------
(* Securing collateral.                                                    *)

AmountBy(queue, S, time) == AmountOf(queue, {n \in S : queue[n].completionTime <= time})

OfProvider(queue, a) == {n \in DOMAIN queue : queue[n].address = a}

\* The queue of withdraws is walked from the latest to the earliest.
Later(queue, m, n) ==
  \/ queue[m].completionTime > queue[n].completionTime
  \/ queue[m].completionTime = queue[n].completionTime /\ m > n

\* The amount of the withdraws of S that are walked before n.
AmountLater(queue, S, n) == AmountOf(queue, {m \in S : Later(queue, m, n)})

\* The withdraw of S that is walked last.
Earliest(queue, S) == CHOOSE n \in S : \A m \in S \ {n} : Later(queue, m, n)

\* The withdraws of a that are put off: the latest first, until their amount is
\* reached.
Delayed(queue, a, amount, endTime) ==
  LET candidates == {n \in OfProvider(queue, a) : queue[n].completionTime <= endTime}
  IN  {n \in candidates : AmountLater(queue, candidates, n) < amount}

\* The withdraw n of the queue is taken out of q and inserted again at endTime.
Postpone(q, n, queue, endTime) ==
  InsertWithdrawQueue(StoreDelete(q, {n}), [queue[n] EXCEPT !.completionTime = endTime])

\* DelayWithdraws: whole withdraws are put off until amount of them completes at
\* endTime.
DelayWithdraws(queue, a, amount, endTime) ==
  MapThenFoldSet(LAMBDA n, q : Postpone(q, n, queue, endTime), queue, LAMBDA n : n,
                 LAMBDA S : Earliest(queue, S), Delayed(queue, a, amount, endTime))

\* The first entry with the time of a candidate is put off to endTime and changes
\* places with those behind it that complete before.
DelayEntry(s, time, endTime) ==
  LET entries == s.entries
      matching == {i \in DOMAIN entries : entries[i].completionTime = time}
      first == Min(matching)
      passed == {i \in DOMAIN entries :
                   /\ i > first
                   /\ \A j \in (first + 1)..i : entries[j].completionTime < endTime}
      At(i) == IF i + 1 \in passed THEN entries[i + 1]
               ELSE IF i = first \/ i \in passed
                    THEN [entries[first] EXCEPT !.completionTime = endTime]
               ELSE entries[i]
  IN  IF s.remaining <= 0 THEN s
      ELSE IF matching = {} THEN [s EXCEPT !.panic = TRUE]
      ELSE [s EXCEPT !.entries = [i \in DOMAIN entries |-> At(i)],
                     !.remaining = @ - entries[first].amount]

\* DelayUnbonding on the unbonding entries of an account, which are in the order
\* of their completion times: the latest of those due by endTime first, until
\* their amount is reached.
DelayUnbonding(entries, amount, endTime) ==
  MapThenFoldSet(LAMBDA i, s : DelayEntry(s, entries[i].completionTime, endTime),
                 [entries |-> entries, remaining |-> amount, panic |-> FALSE],
                 LAMBDA i : i, LAMBDA S : Min(S),
                 {i \in DOMAIN entries : entries[i].completionTime <= endTime})

\* What SecureFromProvider finds at the end of the lock.
CollateralAt(queue, a, endTime) ==
  providers[a].collateral - AmountBy(queue, OfProvider(queue, a), endTime)

DelegationAt(a, endTime) ==
  providers[a].bonded + SumOfEntries(unbonding[a])
    - AmountBy(unbonding[a], DOMAIN unbonding[a], endTime)

\* The lenient check.
SecuredAlready(a, amount) ==
  /\ providers[a].collateral - providers[a].withdrawing >= amount
  /\ providers[a].bonded >= amount

\* Mutant: the end of the lock is that of the first round.
LockPeriodOneRound == VotingPeriod

\* updateAfterSubmitProposal
LockPeriod == 2 * VotingPeriod

\* The part of the claimed amount that the provider a secures, when remaining
\* is left to secure: its share, and one more unit if possible.
SecureAmount(a, total, remaining) ==
  LET ratio == QuoDec(Dec(total), Dec(totalCollateral))
      share == MinInt(TruncateInt(MulDec(Dec(providers[a].collateral), ratio)), remaining)
  IN  IF share < remaining /\ share < providers[a].collateral THEN share + 1 ELSE share

\* SecureFromProvider; s holds what is left to secure and the queues.
SecureFromProvider(s, a, total) ==
  LET amount == SecureAmount(a, total, s.remaining)
      endTime == now + LockPeriod
      collateral == CollateralAt(s.withdraws, a, endTime)
      stake == DelegationAt(a, endTime)
      delayed == DelayUnbonding(unbonding[a], amount - stake, endTime)
      secured == [s EXCEPT !.remaining = @ - amount]
  IN  IF SecuredAlready(a, amount) THEN secured
      ELSE IF amount <= collateral THEN [secured EXCEPT !.panic = @ \/ collateral > stake]
      ELSE [secured EXCEPT
              !.withdraws = DelayWithdraws(@, a, amount - collateral, endTime),
              !.unbonding[a] = delayed.entries,
              !.panic = \/ @
                        \/ collateral > stake
                        \/ amount > providers[a].collateral
                        \/ delayed.panic \/ delayed.remaining > 0]

\* SecureCollaterals, the loop over the providers in the order of their addresses.
Secured(total) ==
  MapThenFoldSet(LAMBDA a, s : SecureFromProvider(s, a, total),
                 [remaining |-> total, withdraws |-> withdraws,
                  unbonding |-> unbonding, panic |-> FALSE],
                 LAMBDA a : a, LAMBDA S : Max(S), DOMAIN providers)

\* What validateProposalByType and SecureCollaterals verify.
MayClaim(id, loss) ==
  /\ id \in DOMAIN purchases
  /\ loss <= purchases[id].shield
  /\ purchases[id].protectionEnd >= now
  /\ purchases[id].pool \in DOMAIN pools
  /\ loss <= pools[purchases[id].pool].shield
  /\ totalClaimed + loss <= totalCollateral

\* MsgSubmitProposal of a claim for the purchase id.
SubmitClaim(sender, id, loss) ==
  /\ DeliverTx
  /\ nextProposalID <= MaxClaims
  /\ MayClaim(id, loss)
  /\ LET purchase == purchases[id]
         total == totalClaimed + loss
         s == Secured(total)
         endTime == now + LockPeriod
     IN  /\ ~ s.panic
         /\ withdraws' = s.withdraws
         /\ unbonding' = s.unbonding
         /\ purchases' = [purchases EXCEPT ![id].shield = @ - loss,
                                           ![id].deletion = MaxInt(@, endTime)]
         /\ pools' = [pools EXCEPT ![purchase.pool].shield = @ - loss]
         /\ totalShield' = totalShield - loss
         /\ totalClaimed' = total
         /\ claims' = StoreSet(claims, nextProposalID,
              [pool |-> purchase.pool, purchase |-> id, claimant |-> purchase.purchaser,
               sender |-> sender, loss |-> loss, round |-> 1,
               votingEnd |-> now + VotingPeriod, lockEnd |-> now + 2 * VotingPeriod])
  /\ nextProposalID' = nextProposalID + 1
  /\ UNCHANGED <<now, phase, providers, totalCollateral, totalWithdrawing, nextPoolID,
                 nextPurchaseID, feeVars, stakeVars, delegated, bankVars, reimbursements>>

-----------------------------------------------------------------------------
(* Paying a claim.  A state s has the variables a payout changes, what is  *)
(* left of the total shield and of the payout, and whether it panicked.    *)

\* What an item of size own gives when amount is taken from a queue after its
\* first skip units, and the items before it have sum before.
TakenFrom(before, own, skip, amount) ==
  MaxInt(MinInt(before + own, skip + amount) - MaxInt(before, skip), 0)

\* The payout that comes from amount free units, of which purchased stay.
FromFree(free, purchased, payout) == MaxInt(MinInt(payout, free - purchased), 0)

\* Mutant: the withdraws are left as they are.
WithdrawsAfterPayoutSame(queue, a, skip, amount) == queue

\* The withdraw queue after amount is taken out of the withdraws of a.  (Of
\* two that agree in time and amount the code cuts the other one.)
WithdrawsAfterPayout(queue, a, skip, amount) ==
  LET S == OfProvider(queue, a)
      left == [n \in DOMAIN queue |->
                 IF n \in S
                 THEN [queue[n] EXCEPT !.amount =
                         @ - TakenFrom(AmountLater(queue, S, n), @, skip, amount)]
                 ELSE queue[n]]
  IN  StoreDelete(left, {n \in S : left[n].amount = 0})

\* UpdateProviderCollateralForPayout
PayFromCollateral(s, a, purchased, payout) ==
  LET p == s.providers[a]
      free == p.collateral - p.withdrawing
      fromWithdraw == payout - FromFree(free, purchased, payout)
      skip == MaxInt(purchased - free, 0)
      queued == AmountOf(s.withdraws, OfProvider(s.withdraws, a))
  IN  [s EXCEPT !.providers[a].collateral = @ - payout,
                !.providers[a].withdrawing = @ - fromWithdraw,
                !.totalWithdrawing = @ - fromWithdraw,
                !.withdraws = IF fromWithdraw = 0 THEN @
                              ELSE WithdrawsAfterPayout(@, a, skip, fromWithdraw),
                !.panic = @ \/ (fromWithdraw > 0 /\ queued < skip + fromWithdraw)]

\* The staking hook, when the delegation of a has become staked.
HookOnPayout(s, a, staked) ==
  LET p == s.providers[a]
      sum == Unbacked(p, staked)
  IN  [s EXCEPT !.providers[a].bonded = staked,
                !.providers[a].withdrawing = @ + sum,
                !.totalWithdrawing = @ + sum,
                !.withdraws = AddWithdraw(@, a, sum)]

\* PayFromDelegation and UndelegateShares.
PayFromDelegation(s, a, amount) ==
  IF amount = 0 THEN s
  ELSE HookOnPayout([s EXCEPT !.delegated[a] = @ - amount], a, s.delegated[a] - amount)

\* What a payout of amount, after skip, takes from the entry i: the entries with
\* the latest time come first and, among those with one time, in their order.
TakenFromEntry(entries, i, skip, amount) ==
  LET later == {j \in DOMAIN entries :
                  \/ entries[j].completionTime > entries[i].completionTime
                  \/ entries[j].completionTime = entries[i].completionTime /\ j < i}
  IN  TakenFrom(AmountOf(entries, later), entries[i].amount, skip, amount)

\* Mutant: an entry is only changed when it is used up.
CutUsedUp(entry, taken) ==
  IF taken = entry.amount THEN [entry EXCEPT !.amount = 0] ELSE entry

\* The entry without what is taken from it.
Cut(entry, taken) == [entry EXCEPT !.amount = @ - taken]

\* PayFromUnbondings, for all entries of a.
PayFromUnbondings(s, a, skip, amount) ==
  LET entries == s.unbonding[a]
      left == [i \in DOMAIN entries |->
                 Cut(entries[i], TakenFromEntry(entries, i, skip, amount))]
  IN  IF amount = 0 THEN s
      ELSE [s EXCEPT !.unbonding[a] = EntriesAt(left, {i \in DOMAIN left : left[i].amount > 0}),
                     !.panic = @ \/ SumOfEntries(entries) < skip + amount]

\* MakePayoutByProviderDelegations
PayFromStake(s, a, purchased, payout) ==
  LET bonded == s.providers[a].bonded
      fromDelegation == FromFree(bonded, purchased, payout)
  IN  PayFromUnbondings(PayFromDelegation(s, a, fromDelegation), a,
                        MaxInt(purchased - bonded, 0), payout - fromDelegation)

\* The shield and the payout that fall to the provider a.
ProviderPayout(s, a, loss) ==
  LET c == s.providers[a].collateral
      Part(amount, left) ==
        MinInt(TruncateInt(MulDec(Dec(c), QuoDec(Dec(amount), Dec(totalCollateral)))), left)
      part == Part(totalShield, s.purchased)
      payout == Part(loss, s.payout)
      purchased == IF part < s.purchased /\ c > payout + part THEN part + 1 ELSE part
  IN  [purchased |-> purchased,
       payout |-> IF payout < s.payout /\ c > payout + purchased THEN payout + 1 ELSE payout]

\* The body of the loop of CreateReimbursement.
Pay(s, a, loss) ==
  LET part == ProviderPayout(s, a, loss)
      paid == PayFromStake(PayFromCollateral(s, a, part.purchased, part.payout), a,
                           part.purchased, part.payout)
  IN  IF s.payout = 0 \/ s.panic THEN s
      ELSE [paid EXCEPT !.purchased = @ - part.purchased, !.payout = @ - part.payout]

\* CreateReimbursement, the loop over the providers in the order of their addresses.
Payout(loss) ==
  MapThenFoldSet(LAMBDA a, s : Pay(s, a, loss),
                 [providers |-> providers, withdraws |-> withdraws,
                  totalWithdrawing |-> totalWithdrawing, delegated |-> delegated,
                  unbonding |-> unbonding, purchased |-> totalShield, payout |-> loss,
                  panic |-> FALSE],
                 LAMBDA a : a, LAMBDA S : Max(S), DOMAIN providers)

PayoutPanics(loss) ==
  IF totalCollateral <= 0 THEN TRUE
  ELSE LET s == Payout(loss) IN s.panic \/ s.payout > 0

-----------------------------------------------------------------------------
(* The EndBlocker of x/gov.  Claims whose voting period has ended are      *)
(* processed in the order of the active queue.                             *)

GovEndBlock(id) ==
  /\ phase = "gov"
  /\ id \in DOMAIN claims

Due(id) == claims[id].votingEnd <= now

FirstDue(id) ==
  /\ Due(id)
  /\ \A i \in DOMAIN claims : Due(i) =>
       \/ claims[id].votingEnd < claims[i].votingEnd
       \/ claims[id].votingEnd = claims[i].votingEnd /\ id <= i

\* The certifiers accept the claim, at the end of their round or before: the
\* validators vote for another period.
CertifiersPass(id) ==
  /\ GovEndBlock(id)
  /\ claims[id].round = 1
  /\ claims' = [claims EXCEPT ![id].round = 2, ![id].votingEnd = now + VotingPeriod]
  /\ UNCHANGED <<vars, nextProposalID, reimbursements>>

\* Mutant: the claimed amount is only released when the shield is restored.
EndedClaimedKept(claim, restored) ==
  IF restored THEN totalClaimed - claim.loss ELSE totalClaimed

\* ClaimEnd
ClaimedAfter(claim, restored) == totalClaimed - claim.loss

\* Mutant: the shield goes back to the purchase alone.
RestoreShieldOfPurchase(claim) ==
  /\ totalShield' = totalShield + claim.loss
  /\ UNCHANGED pools
  /\ IF claim.purchase \in DOMAIN purchases /\ claim.sender = claim.claimant
     THEN purchases' = [purchases EXCEPT ![claim.purchase].shield = @ + claim.loss]
     ELSE UNCHANGED purchases

\* RestoreShield, whose errors are dropped: the shield goes back to the pool,
\* if it is there, and to the purchase, if the list of the sender has it.
RestoreShield(claim) ==
  /\ totalShield' = totalShield + claim.loss
  /\ IF claim.pool \in DOMAIN pools
     THEN /\ pools' = [pools EXCEPT ![claim.pool].shield = @ + claim.loss]
          /\ IF claim.purchase \in DOMAIN purchases /\ claim.sender = claim.claimant
             THEN purchases' = [purchases EXCEPT ![claim.purchase].shield = @ + claim.loss]
             ELSE UNCHANGED purchases
     ELSE UNCHANGED <<pools, purchases>>

\* The claim is rejected, by the certifiers or by the validators.
RejectClaim(id) ==
  /\ GovEndBlock(id) /\ FirstDue(id)
  /\ RestoreShield(claims[id])
  /\ totalClaimed' = ClaimedAfter(claims[id], TRUE)
  /\ claims' = StoreDelete(claims, {id})
  /\ UNCHANGED <<now, phase, providerVars, nextPoolID, nextPurchaseID, feeVars, stakeVars,
                 stakingVars, bankVars, nextProposalID, reimbursements>>

\* The validators veto the claim: the shield is lost.
VetoClaim(id) ==
  /\ GovEndBlock(id) /\ FirstDue(id)
  /\ claims[id].round = 2
  /\ totalClaimed' = ClaimedAfter(claims[id], FALSE)
  /\ claims' = StoreDelete(claims, {id})
  /\ UNCHANGED <<now, phase, providerVars, poolVars, purchaseVars, feeVars, stakeVars,
                 stakingVars, bankVars, nextProposalID, reimbursements>>

\* The validators accept the claim: CreateReimbursement.
PassClaim(id) ==
  /\ GovEndBlock(id) /\ FirstDue(id)
  /\ claims[id].round = 2
  /\ LET claim == claims[id]
         s == Payout(claim.loss)
     IN  /\ ~ PayoutPanics(claim.loss)
         /\ providers' = s.providers
         /\ withdraws' = s.withdraws
         /\ totalWithdrawing' = s.totalWithdrawing
         /\ delegated' = s.delegated
         /\ unbonding' = s.unbonding
         /\ moduleBalance' = moduleBalance + claim.loss - s.payout
         /\ totalCollateral' = totalCollateral - claim.loss
         /\ totalClaimed' = totalClaimed - claim.loss
         /\ reimbursements' = StoreSet(reimbursements, id,
              [amount |-> claim.loss, beneficiary |-> claim.claimant,
               payoutTime |-> now + PayoutPeriod])
  /\ claims' = StoreDelete(claims, {id})
  /\ UNCHANGED <<now, phase, poolVars, purchaseVars, feeVars, stakeVars, balances,
                 nextProposalID>>

\* The payout panics and the chain halts.
PassClaimHalts(id) ==
  /\ GovEndBlock(id) /\ FirstDue(id)
  /\ claims[id].round = 2
  /\ PayoutPanics(claims[id].loss)
  /\ phase' = "halted"
  /\ UNCHANGED <<now, totalClaimed, providerVars, poolVars, purchaseVars, feeVars,
                 stakeVars, stakingVars, bankVars, claimVars>>

\* Mutant: the reimbursement that is paid stays in the store.
WithdrawReimbursementKept(a, id) ==
  /\ DeliverTx
  /\ id \in DOMAIN reimbursements
  /\ reimbursements[id].beneficiary = a
  /\ reimbursements[id].payoutTime <= now
  /\ moduleBalance >= reimbursements[id].amount
  /\ moduleBalance' = moduleBalance - reimbursements[id].amount
  /\ balances' = [balances EXCEPT ![a] = @ + reimbursements[id].amount]
  /\ UNCHANGED <<now, phase, totalClaimed, providerVars, poolVars, purchaseVars, feeVars,
                 stakeVars, stakingVars, claimVars>>

WithdrawReimbursement(a, id) ==
  /\ DeliverTx
  /\ id \in DOMAIN reimbursements
  /\ reimbursements[id].beneficiary = a
  /\ reimbursements[id].payoutTime <= now
  /\ moduleBalance >= reimbursements[id].amount
  /\ moduleBalance' = moduleBalance - reimbursements[id].amount
  /\ balances' = [balances EXCEPT ![a] = @ + reimbursements[id].amount]
  /\ reimbursements' = StoreDelete(reimbursements, {id})
  /\ UNCHANGED <<now, phase, totalClaimed, providerVars, poolVars, purchaseVars, feeVars,
                 stakeVars, stakingVars, claims, nextProposalID>>

-----------------------------------------------------------------------------

Ids == DOMAIN GenesisPurchases

\* A genesis with one pool, purchases of it and providers that cover them.
ClaimsInit ==
  /\ now = 1 /\ phase = "deliver"
  /\ providers = [a \in DOMAIN GenesisCollateral |-> [NewProvider EXCEPT
       !.bonded = InitDelegated, !.collateral = GenesisCollateral[a]]]
  /\ withdraws = <<>>
  /\ totalCollateral = SumOver(GenesisCollateral, DOMAIN GenesisCollateral)
  /\ totalWithdrawing = 0 /\ totalClaimed = 0
  /\ purchases = [i \in Ids |->
       NewPurchase(1, GenesisPurchases[i].purchaser, GenesisPurchases[i].shield, 0)]
  /\ nextPurchaseID = Len(GenesisPurchases) + 1
  /\ totalShield = ShieldOf(Ids)
  /\ pools = <<[NewPool(CHOOSE s \in Sponsors : TRUE, GenesisLimit) EXCEPT
                  !.shield = totalShield]>>
  /\ nextPoolID = 2
  /\ serviceFees = 0 /\ remainingServiceFees = 0 /\ blockServiceFees = 0
  /\ lastUpdateTime = 1
  /\ stakeForShield = <<>> /\ originalStaking = <<>> /\ globalStakingPool = 0
  /\ delegated = [a \in Accounts |-> InitDelegated]
  /\ unbonding = [a \in Accounts |-> <<>>]
  /\ balances = [a \in Accounts |-> InitBalance] /\ moduleBalance = 0
  /\ claims = <<>> /\ nextProposalID = 1 /\ reimbursements = <<>>

\* The messages of module Shield that matter to claims.
ShieldMsg(a) ==
  /\ \/ \E amount \in CollateralInputs : DepositCollateral(a, amount)
     \/ \E amount \in WithdrawInputs : WithdrawCollateral(a, amount)
     \/ \E amount \in DelegationInputs : Delegate(a, amount)
     \/ \E amount \in DelegationInputs : Undelegate(a, amount, amount = delegated[a])
  /\ UNCHANGED claimVars

ClaimMsg ==
  \/ \E id \in DOMAIN purchases, loss \in LossInputs :
       \E sender \in Senders \cup {purchases[id].purchaser} : SubmitClaim(sender, id, loss)
  \/ \E a \in Accounts, id \in DOMAIN reimbursements : WithdrawReimbursement(a, id)

Vote(id) ==
  \/ CertifiersPass(id)
  \/ RejectClaim(id)
  \/ VetoClaim(id)
  \/ PassClaim(id)
  \/ PassClaimHalts(id)

\* The next block begins when no claim is due.
ShieldBlock ==
  /\ \/ EndBlocker
     \/ EndBlockerHalts
     \/ StakingEndBlocker
     \/ /\ \A id \in DOMAIN claims : ~ Due(id)
        /\ \E elapsed \in BlockTimes : NextBlock(elapsed, 0)
  /\ UNCHANGED claimVars

ClaimsBlock == ShieldBlock \/ \E id \in DOMAIN claims : Vote(id)

ClaimsNext == (\E a \in Accounts : ShieldMsg(a)) \/ ClaimMsg \/ ClaimsBlock

ClaimsSpec == ClaimsInit /\ [][ClaimsNext]_allVars

-----------------------------------------------------------------------------
(* Properties.                                                             *)

\* The stores of claims hold records of their types, those of Shield too.
ClaimsTypeOK ==
  /\ TypeOK
  /\ IsStore(claims, Nat, Claim) /\ nextProposalID \in Nat
  /\ IsStore(reimbursements, Nat, Reimbursement)

LossOf(ids) == SumOver([id \in ids |-> claims[id].loss], ids)

\* The claimed amount is that of the claims that are voted on, whichever way
\* and in whichever round they end.
ClaimedIsSum == totalClaimed = LossOf(DOMAIN claims)

\* The times of the locks that are held.
LockTimes == now..(now + 2 * VotingPeriod)

\* Collateral is left for a claim as long as its lock lasts, although providers
\* withdraw, undelegate and pay for other claims in the meantime.
CoveredWhileLocked ==
  \A t \in LockTimes :
    LossOf({id \in DOMAIN claims : claims[id].lockEnd > t})
      <= totalCollateral - AmountBy(withdraws, DOMAIN withdraws, t)

\* A claim that is accepted is paid.
ClaimsAreCovered == totalClaimed <= totalCollateral

\* The books of the providers stay balanced through payouts: the totals are
\* the sums, and what is being withdrawn is what is queued.
BooksBalanced == ProviderInvariant /\ WithdrawingIsQueued

\* ModuleAccountInvariant with the reimbursements, as keeper/invariants.go has it.
ReimbursementsHeld ==
  Dec(moduleBalance) =
    remainingServiceFees + Rewards + blockServiceFees
      + Dec(SumOver([id \in DOMAIN reimbursements |-> reimbursements[id].amount],
                    DOMAIN reimbursements))

\* A pool has at least the shield of its purchases, and the total at least that
\* of the pools, whether or not the purchase of a rejected claim is still there:
\* no purchase that expires takes out more shield than was put in.
PurchasesBooked ==
  /\ totalShield >= SumOver([id \in DOMAIN pools |-> pools[id].shield], DOMAIN pools)
  /\ \A id \in DOMAIN pools :
       pools[id].shield >= ShieldOf({i \in DOMAIN purchases : purchases[i].pool = id})

\* The coins of the accounts, which they have in their wallets, delegated or
\* unbonding, and those of the module account.
Supply ==
  moduleBalance
    + SumOver([a \in Accounts |->
                 balances[a] + delegated[a] + SumOfEntries(unbonding[a])], Accounts)

\* Coins are neither made nor lost: what a claim takes from the delegations and
\* the unbonding entries of the providers, with all the rounding and the order in
\* which entries are skipped, delayed, cut and removed, is what is paid out.
CoinsConserved ==
  Supply = SumOver([a \in Accounts |-> InitBalance + InitDelegated], Accounts)

\* A claim that may be made is made: collateral that is not withdrawn by the end
\* of the lock is backed by stake that is not unbonded by then, and
\* SecureFromProvider does not panic.
ClaimsAreAdmitted ==
  \A id \in DOMAIN purchases, loss \in LossInputs :
    phase = "deliver" /\ MayClaim(id, loss) => ~ Secured(totalClaimed + loss).panic
=============================================================================
