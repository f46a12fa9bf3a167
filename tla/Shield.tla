------------------------------- MODULE Shield -------------------------------
(***************************************************************************)
(* CertiKShield, x/shield, without its claims (module ShieldClaims).       *)
(* Providers back shields with collateral, which is a promise on coins     *)
(* they have delegated to validators; purchasers buy shield from the pool  *)
(* of a sponsor, for a fee or against a stake, and are protected for       *)
(* ProtectionPeriod; the fees are shared out to the providers block by     *)
(* block.  Collateral that is withdrawn stays in a queue for               *)
(* WithdrawPeriod.  The staking hooks of x/shield keep the delegation of a *)
(* provider up to date and withdraw the collateral it no longer backs.     *)
(*                                                                         *)
(* A block is NextBlock (the BeginBlockers, among them x/mint's, which     *)
(* funds the block rewards), any number of transactions, and the           *)
(* EndBlockers of x/shield and of x/staking, in the order of app.go.       *)
(* A transaction that fails or panics is rolled back by baseapp, so a      *)
(* transaction is an action whose guard is that it succeeds.               *)
(*                                                                         *)
(* All amounts are in the bond denomination.  Fees and rewards are         *)
(* decimals, the other amounts integers.                                   *)
(***************************************************************************)
EXTENDS Store, Decimal, Sequences, FiniteSetsExt

CONSTANTS
  Accounts,           \* addresses, numbered in the order of the store's keys
  Admin,              \* the shield admin
  Sponsors,           \* names of sponsors
  ProtectionPeriod, WithdrawPeriod,                     \* PoolParams
  ShieldFeesRate, PoolShieldLimit, MinShieldPurchase,
  StakingShieldRate,
  UnbondingTime,      \* parameter of x/staking
  InitBalance, InitDelegated,   \* of every account at genesis
  CollateralInputs, WithdrawInputs, DelegationInputs,   \* amounts in messages
  SlashInputs,        \* what a slash takes
  ShieldInputs, FeeInputs, LimitInputs, UnstakeInputs,
  RewardInputs,       \* what x/mint sends to x/shield in a block
  BlockTimes,         \* times between two blocks
  MaxTime, MaxPools, MaxPurchases,     \* bounds of a behaviour: the last
  MaxCollateral, MaxFees               \* two bound totalCollateral, serviceFees

ASSUME AccountsAssumption ==
  /\ Accounts \subseteq Nat /\ IsFiniteSet(Accounts)
  /\ Admin \in Accounts

ASSUME ParamsAssumption ==
  /\ ProtectionPeriod \in Nat \ {0} /\ WithdrawPeriod \in Nat \ {0}
  /\ UnbondingTime \in Nat \ {0}
  /\ ShieldFeesRate \in 0..Precision /\ PoolShieldLimit \in 0..Precision
  /\ MinShieldPurchase \in Nat
  /\ StakingShieldRate \in Nat \ {0}

ASSUME InputsAssumption ==
  /\ InitBalance \in Nat /\ InitDelegated \in Nat
  /\ CollateralInputs \subseteq Nat \ {0} /\ WithdrawInputs \subseteq Nat \ {0}
  /\ DelegationInputs \subseteq Nat \ {0}
  /\ SlashInputs \subseteq Nat \ {0} /\ ShieldInputs \subseteq Nat \ {0}
  /\ FeeInputs \subseteq Nat /\ LimitInputs \subseteq Int
  /\ UnstakeInputs \subseteq Nat /\ RewardInputs \subseteq Nat
  /\ BlockTimes \subseteq Nat \ {0}
  /\ MaxTime \in Nat /\ MaxPools \in Nat /\ MaxPurchases \in Nat
  /\ MaxCollateral \in Nat /\ MaxFees \in Nat

VARIABLES
  now,                  \* ctx.BlockTime()
  phase,                \* "deliver", "staking" and "gov" after the EndBlockers
                        \* of x/shield and x/staking; "halted" after a panic
  providers,            \* address -> provider
  withdraws,            \* number -> withdraw; the queue runs by completion
                        \* time and, in a time slice, by number
  totalCollateral, totalWithdrawing, totalClaimed,
  pools, nextPoolID, totalShield,
  purchases,            \* purchase id -> entry of the purchase list of its
                        \* pool and purchaser; the expiring-purchase queue
                        \* has one item per entry, at its protectionEnd
  nextPurchaseID,
  serviceFees, remainingServiceFees, blockServiceFees,
  lastUpdateTime,       \* 0 before the first purchase
  stakeForShield,       \* <<pool id, purchaser>> -> stake
  originalStaking,      \* purchase id -> amount
  globalStakingPool,
  delegated, unbonding, \* x/staking: bonded tokens of an account over all
                        \* validators; its unbonding entries
  balances, moduleBalance

providerVars == <<providers, withdraws, totalCollateral, totalWithdrawing>>
poolVars == <<pools, nextPoolID, totalShield>>
purchaseVars == <<purchases, nextPurchaseID>>
feeVars == <<serviceFees, remainingServiceFees, blockServiceFees, lastUpdateTime>>
stakeVars == <<stakeForShield, originalStaking, globalStakingPool>>
stakingVars == <<delegated, unbonding>>
bankVars == <<balances, moduleBalance>>

vars == <<now, phase, totalClaimed, providerVars, poolVars, purchaseVars,
          feeVars, stakeVars, stakingVars, bankVars>>

-----------------------------------------------------------------------------
(* The records of the stores.                                              *)

Provider == [bonded : Int, collateral : Int, withdrawing : Int, rewards : Nat]

NewProvider == [bonded |-> 0, collateral |-> 0, withdrawing |-> 0, rewards |-> 0]

Withdraw == [address : Accounts, amount : Nat, completionTime : Nat]

NewWithdraw(a, amount) ==
  [address |-> a, amount |-> amount, completionTime |-> now + WithdrawPeriod]

Pool == [sponsor : Sponsors, shieldLimit : Int, active : BOOLEAN, shield : Int]

NewPool(sponsor, shieldLimit) ==
  [sponsor |-> sponsor, shieldLimit |-> shieldLimit, active |-> TRUE, shield |-> 0]

Purchase == [pool : Nat, purchaser : Accounts, protectionEnd : Nat,
             deletion : Nat, shield : Int, fees : Nat]

NewPurchase(id, a, shield, fees) ==
  [pool |-> id, purchaser |-> a, protectionEnd |-> now + ProtectionPeriod,
   deletion |-> now + ProtectionPeriod, shield |-> shield, fees |-> Dec(fees)]

ShieldStaking == [amount : Nat, withdrawRequested : Nat]

-----------------------------------------------------------------------------
(* Shared by the handlers.                                                 *)

DeliverTx == phase = "deliver"

\* The sum of f[x] over the x in S.
SumOver(f, S) == SumFunctionOnSet(f, S)

\* The amount of the entries of a queue that are in S.
AmountOf(queue, S) == SumOver([n \in S |-> queue[n].amount], S)

\* SendCoinsFromAccountToModule, when it returns no error.
SendToModule(a, amount) ==
  /\ balances[a] >= amount
  /\ balances' = [balances EXCEPT ![a] = @ - amount]
  /\ moduleBalance' = moduleBalance + amount

\* Mutant: a withdraw replaces those that complete at the same time.
InsertWithdrawQueueOverwrites(queue, withdraw) ==
  LET slice == {n \in DOMAIN queue : queue[n].completionTime = withdraw.completionTime}
  IN  StoreSet(StoreDelete(queue, slice), Max({0} \cup DOMAIN queue) + 1, withdraw)

\* InsertWithdrawQueue: at the end of the time slice.
InsertWithdrawQueue(queue, withdraw) ==
  StoreSet(queue, Max({0} \cup DOMAIN queue) + 1, withdraw)

AddWithdraw(queue, a, amount) ==
  IF amount = 0 THEN queue ELSE InsertWithdrawQueue(queue, NewWithdraw(a, amount))

\* WithdrawCollateral of amount, then of more, by the provider a whose record
\* has become p.
WithdrawFrom(a, p, amount, more) ==
  LET sum == amount + more
  IN  /\ sum > 0 => sum <= p.collateral - p.withdrawing
      /\ withdraws' = AddWithdraw(AddWithdraw(withdraws, a, amount), a, more)
      /\ providers' = StoreSet(providers, a, [p EXCEPT !.withdrawing = @ + sum])
      /\ totalWithdrawing' = totalWithdrawing + sum

-----------------------------------------------------------------------------
(* Collateral.                                                             *)

\* addProvider for an account that is none yet.
GetOrAddProvider(a) ==
  IF a \in DOMAIN providers THEN providers[a]
  ELSE [NewProvider EXCEPT !.bonded = delegated[a]]

DepositCollateral(a, amount) ==
  LET p == GetOrAddProvider(a)
  IN  /\ DeliverTx
      /\ totalCollateral + amount <= MaxCollateral
      /\ p.bonded >= p.collateral + amount - p.withdrawing
      /\ providers' = StoreSet(providers, a, [p EXCEPT !.collateral = @ + amount])
      /\ totalCollateral' = totalCollateral + amount
      /\ UNCHANGED <<now, phase, withdraws, totalWithdrawing, totalClaimed, poolVars,
                     purchaseVars, feeVars, stakeVars, stakingVars, bankVars>>

WithdrawCollateral(a, amount) ==
  /\ DeliverTx
  /\ a \in DOMAIN providers
  /\ WithdrawFrom(a, providers[a], amount, 0)
  /\ UNCHANGED <<now, phase, totalCollateral, totalClaimed, poolVars, purchaseVars,
                 feeVars, stakeVars, stakingVars, bankVars>>

\* Mutant: the fraction that is not paid out is dropped.
WithdrawRewardsNoChange(a) ==
  /\ DeliverTx
  /\ a \in DOMAIN providers
  /\ LET ctkRewards == TruncateInt(providers[a].rewards)
     IN  /\ ctkRewards > 0
         /\ providers' = [providers EXCEPT ![a].rewards = 0]
         /\ moduleBalance >= ctkRewards
         /\ moduleBalance' = moduleBalance - ctkRewards
         /\ balances' = [balances EXCEPT ![a] = @ + ctkRewards]
  /\ UNCHANGED <<now, phase, withdraws, totalCollateral, totalWithdrawing, totalClaimed,
                 poolVars, purchaseVars, feeVars, stakeVars, stakingVars>>

\* PayoutNativeRewards; a payout of zero changes nothing.
WithdrawRewards(a) ==
  /\ DeliverTx
  /\ a \in DOMAIN providers
  /\ LET rewards == providers[a].rewards
         ctkRewards == TruncateInt(rewards)
     IN  /\ ctkRewards > 0
         /\ providers' = [providers EXCEPT ![a].rewards = 0]
         /\ remainingServiceFees' = remainingServiceFees + rewards - Dec(ctkRewards)
         /\ moduleBalance >= ctkRewards
         /\ moduleBalance' = moduleBalance - ctkRewards
         /\ balances' = [balances EXCEPT ![a] = @ + ctkRewards]
  /\ UNCHANGED <<now, phase, withdraws, totalCollateral, totalWithdrawing, totalClaimed,
                 poolVars, purchaseVars, serviceFees, blockServiceFees, lastUpdateTime,
                 stakeVars, stakingVars>>

-----------------------------------------------------------------------------
(* Delegations.  The messages are x/staking's, the effect on providers and *)
(* withdraws is that of the hooks of x/shield.                             *)

\* The collateral of p that a delegation of staked does not back.
Unbacked(p, staked) == MaxInt(p.collateral - p.withdrawing - staked, 0)

\* Mutant: the hook only updates the amount on record.
UpdateProviderNoWithdraw(a, staked) ==
  WithdrawFrom(a, [providers[a] EXCEPT !.bonded = staked], 0, 0)

\* updateProviderForDelegationChanges
UpdateProviderForDelegationChanges(a, staked) ==
  LET p == providers[a]
  IN  WithdrawFrom(a, [p EXCEPT !.bonded = staked], Unbacked(p, staked), 0)

\* What the hook finds when amount leaves a delegation of a: RemoveDelegation,
\* when the delegation to a validator is gone, subtracts from the amount on
\* record, UpdateDelegationAmount adds up what is left.
StakedWithout(a, amount, removed) ==
  IF removed THEN providers[a].bonded - amount ELSE delegated[a] - amount

Delegate(a, amount) ==
  /\ DeliverTx
  /\ balances[a] >= amount
  /\ balances' = [balances EXCEPT ![a] = @ - amount]
  /\ delegated' = [delegated EXCEPT ![a] = @ + amount]
  /\ IF a \in DOMAIN providers
     THEN UpdateProviderForDelegationChanges(a, delegated[a] + amount)
     ELSE UNCHANGED <<providers, withdraws, totalWithdrawing>>
  /\ UNCHANGED <<now, phase, totalCollateral, totalClaimed, poolVars, purchaseVars,
                 feeVars, stakeVars, unbonding, moduleBalance>>

\* removed: this was all a had delegated to the validator.
Undelegate(a, amount, removed) ==
  /\ DeliverTx
  /\ amount <= delegated[a]
  /\ removed \/ amount < delegated[a]
  /\ delegated' = [delegated EXCEPT ![a] = @ - amount]
  /\ unbonding' = [unbonding EXCEPT ![a] =
       Append(@, [amount |-> amount, completionTime |-> now + UnbondingTime])]
  /\ IF a \in DOMAIN providers
     THEN UpdateProviderForDelegationChanges(a, StakedWithout(a, amount, removed))
     ELSE UNCHANGED <<providers, withdraws, totalWithdrawing>>
  /\ UNCHANGED <<now, phase, totalCollateral, totalClaimed, poolVars, purchaseVars,
                 feeVars, stakeVars, bankVars>>

\* BeginRedelegation is an unbonding and then a delegation: the hooks see the
\* delegation without the amount first.
Redelegate(a, amount, removed) ==
  /\ DeliverTx
  /\ amount <= delegated[a]
  /\ removed \/ amount < delegated[a]
  /\ a \in DOMAIN providers
  /\ LET p == providers[a]
         first == Unbacked(p, StakedWithout(a, amount, removed))
         second == Unbacked([p EXCEPT !.withdrawing = @ + first], delegated[a])
     IN  WithdrawFrom(a, [p EXCEPT !.bonded = delegated[a]], first, second)
  /\ UNCHANGED <<now, phase, totalCollateral, totalClaimed, poolVars, purchaseVars,
                 feeVars, stakeVars, stakingVars, bankVars>>

\* A validator is slashed: x/shield's hook for it does nothing.
Slash(a, amount) ==
  /\ DeliverTx
  /\ amount <= delegated[a]
  /\ delegated' = [delegated EXCEPT ![a] = @ - amount]
  /\ UNCHANGED <<now, phase, totalClaimed, providerVars, poolVars, purchaseVars,
                 feeVars, stakeVars, unbonding, bankVars>>

-----------------------------------------------------------------------------
(* Pools and purchases.                                                    *)

\* Mutant: collateral that is being withdrawn counts.
AvailableWithWithdrawing == totalCollateral - totalClaimed

\* The collateral that can back new shield.
Available == totalCollateral - totalWithdrawing - totalClaimed

\* Mutant: the fees do not enter the total that is charged for over time.
PayServiceFeesUncounted(a, fees) ==
  /\ SendToModule(a, fees)
  /\ remainingServiceFees' = remainingServiceFees + Dec(fees)
  /\ UNCHANGED serviceFees

\* The fees of a purchase go to the module account.
PayServiceFees(a, fees) ==
  /\ SendToModule(a, fees)
  /\ serviceFees' = serviceFees + Dec(fees)
  /\ remainingServiceFees' = remainingServiceFees + Dec(fees)

\* Mutants: the stake is filed under the previous purchase; the global staking
\* pool is not updated.
AddStakingPrevious(id, a, amount) ==
  /\ SendToModule(a, amount)
  /\ globalStakingPool' = globalStakingPool + amount
  /\ stakeForShield' = StoreSet(stakeForShield, <<id, a>>,
                                [amount |-> amount, withdrawRequested |-> 0])
  /\ originalStaking' = StoreSet(originalStaking, nextPurchaseID - 1, amount)

AddStakingUncounted(id, a, amount) ==
  /\ SendToModule(a, amount)
  /\ stakeForShield' = StoreSet(stakeForShield, <<id, a>>,
                                [amount |-> amount, withdrawRequested |-> 0])
  /\ originalStaking' = StoreSet(originalStaking, nextPurchaseID, amount)
  /\ UNCHANGED globalStakingPool

\* AddStaking
AddStaking(id, a, amount) ==
  /\ SendToModule(a, amount)
  /\ globalStakingPool' = globalStakingPool + amount
  /\ stakeForShield' = StoreSet(stakeForShield, <<id, a>>,
       IF <<id, a>> \in DOMAIN stakeForShield
       THEN [stakeForShield[<<id, a>>] EXCEPT !.amount = @ + amount]
       ELSE [amount |-> amount, withdrawRequested |-> 0])
  /\ originalStaking' = StoreSet(originalStaking, nextPurchaseID, amount)

\* purchaseShield in the pool id, whose record is pool, for fees or, when
\* there are none, for a stake.
BuyShield(id, pool, shield, a, fees, stake) ==
  /\ nextPurchaseID <= MaxPurchases
  /\ pool.active
  /\ fees > 0 \/ stake > 0
  /\ totalShield + shield <= Available
  /\ pool.shield + shield <=
       MinInt(pool.shieldLimit, TruncateInt(MulDec(Dec(Available), PoolShieldLimit)))
  /\ IF fees > 0
     THEN /\ PayServiceFees(a, fees)
          /\ UNCHANGED stakeVars
     ELSE /\ AddStaking(id, a, stake)
          /\ UNCHANGED <<serviceFees, remainingServiceFees>>
  /\ totalShield' = totalShield + shield
  /\ pools' = StoreSet(pools, id, [pool EXCEPT !.shield = @ + shield])
  /\ purchases' = StoreSet(purchases, nextPurchaseID, NewPurchase(id, a, shield, fees))
  /\ nextPurchaseID' = nextPurchaseID + 1
  /\ lastUpdateTime' = IF lastUpdateTime = 0 THEN now ELSE lastUpdateTime
  /\ UNCHANGED <<now, phase, totalClaimed, providerVars, blockServiceFees, stakingVars>>

CreatePool(sponsor, shieldLimit, shield, fees) ==
  /\ DeliverTx
  /\ nextPoolID <= MaxPools
  /\ \A id \in DOMAIN pools : pools[id].sponsor # sponsor
  /\ nextPoolID' = nextPoolID + 1
  /\ BuyShield(nextPoolID, NewPool(sponsor, shieldLimit), shield, Admin, fees, 0)

\* UpdatePool: a limit of zero leaves the limit, more shield is a purchase,
\* fees without shield are only booked.
UpdatePool(id, shieldLimit, shield, fees) ==
  LET pool == IF shieldLimit = 0 THEN pools[id]
              ELSE [pools[id] EXCEPT !.shieldLimit = shieldLimit]
  IN  /\ DeliverTx
      /\ id \in DOMAIN pools
      /\ UNCHANGED nextPoolID
      /\ IF shield > 0
         THEN BuyShield(id, pool, shield, Admin, fees, 0)
         ELSE /\ fees > 0 => serviceFees + Dec(fees) <= Dec(MaxFees)
              /\ pools' = StoreSet(pools, id, pool)
              /\ serviceFees' = serviceFees + Dec(fees)
              /\ remainingServiceFees' = remainingServiceFees + Dec(fees)
              /\ UNCHANGED <<now, phase, totalClaimed, providerVars, totalShield,
                             purchaseVars, blockServiceFees, lastUpdateTime,
                             stakeVars, stakingVars, bankVars>>

\* PausePool and ResumePool
SetActive(id, active) ==
  /\ DeliverTx
  /\ id \in DOMAIN pools
  /\ pools[id].active # active
  /\ pools' = [pools EXCEPT ![id].active = active]
  /\ UNCHANGED <<now, phase, totalClaimed, providerVars, nextPoolID, totalShield,
                 purchaseVars, feeVars, stakeVars, stakingVars, bankVars>>

UpdateSponsor(id, sponsor) ==
  /\ DeliverTx
  /\ id \in DOMAIN pools
  /\ pools' = [pools EXCEPT ![id].sponsor = sponsor]
  /\ UNCHANGED <<now, phase, totalClaimed, providerVars, nextPoolID, totalShield,
                 purchaseVars, feeVars, stakeVars, stakingVars, bankVars>>

\* PurchaseShield of a user, with fees at the standard rate or, for
\* MsgStakeForShield, with a stake.
PurchaseShield(id, a, shield, staking) ==
  /\ DeliverTx
  /\ shield >= MinShieldPurchase
  /\ id \in DOMAIN pools
  /\ UNCHANGED nextPoolID
  /\ BuyShield(id, pools[id], shield, a,
       IF staking THEN 0 ELSE TruncateInt(MulDec(Dec(shield), ShieldFeesRate)),
       IF staking THEN TruncateInt(MulInt(StakingShieldRate, shield)) ELSE 0)

UnstakeFromShield(id, a, amount) ==
  /\ DeliverTx
  /\ <<id, a>> \in DOMAIN stakeForShield
  /\ stakeForShield[<<id, a>>].withdrawRequested + amount <= stakeForShield[<<id, a>>].amount
  /\ stakeForShield' = [stakeForShield EXCEPT ![<<id, a>>].withdrawRequested = @ + amount]
  /\ UNCHANGED <<now, phase, totalClaimed, providerVars, poolVars, purchaseVars, feeVars,
                 originalStaking, globalStakingPool, stakingVars, bankVars>>

-----------------------------------------------------------------------------
(* The EndBlocker.  RemoveExpiredPurchasesAndDistributeFees visits the     *)
(* entries of the expiring-purchase queue, charges each once for what is   *)
(* left of its protection, deletes those whose deletion time has passed,   *)
(* and shares the fees of the block out; DequeueCompletedWithdrawQueue and *)
(* ClosePools follow.  The expiration of a stake for shield is left out:   *)
(* it is reached only for an entry that has both fees and a stake, and     *)
(* there is none (NoStakeWithFees).                                        *)

Expired == {id \in DOMAIN purchases : purchases[id].protectionEnd <= now}

Charged == {id \in Expired : /\ purchases[id].protectionEnd > lastUpdateTime
                             /\ purchases[id].fees > 0}

Deleted == {id \in Expired : purchases[id].deletion < now}

\* What the entry id owes for the end of its protection.
LastFees(id) ==
  MulDec(purchases[id].fees,
         QuoDec(Dec(purchases[id].protectionEnd - lastUpdateTime), Dec(ProtectionPeriod)))

ChargedFees == SumOver([id \in Charged |-> purchases[id].fees], Charged)

ServiceFeesLeft == serviceFees - ChargedFees

\* The fees to share out: what the purchases owe for the time since the last
\* update, limited by what remains, and the block rewards.
BlockFees ==
  MinInt(SumOver([id \in Charged |-> LastFees(id)], Charged)
           + QuoDec(MulDec(ServiceFeesLeft, Dec(now - lastUpdateTime)), Dec(ProtectionPeriod)),
         remainingServiceFees)
    + blockServiceFees

Share(a) == MulDec(BlockFees, QuoInt(Dec(providers[a].collateral), totalCollateral))

\* What the providers before a leave of the remaining fees.
RemainingFor(a) ==
  LET before == {b \in DOMAIN providers : b < a}
  IN  MaxInt(remainingServiceFees - SumOver([b \in before |-> Share(b)], before), 0)

\* Mutant: the remaining fees do not limit a share.
GivenUncapped(a) == IF lastUpdateTime = 0 THEN 0 ELSE Share(a)

Given(a) == IF lastUpdateTime = 0 THEN 0 ELSE MinInt(Share(a), RemainingFor(a))

\* Mutant: only the withdraws before the block time.
CompletedBefore == {n \in DOMAIN withdraws : withdraws[n].completionTime < now}

\* WithdrawQueueIterator up to the block time.
Completed == {n \in DOMAIN withdraws : withdraws[n].completionTime <= now}

CompletedOf(a) == {n \in Completed : withdraws[n].address = a}

WithdrawnAmount(numbers) == AmountOf(withdraws, numbers)

\* ClosePools
OpenPools(ps) ==
  StoreDelete(ps, {id \in DOMAIN ps : ps[id].shield <= 0 /\ ps[id].shieldLimit <= 0})

ShieldOf(ids) == SumOver([id \in ids |-> purchases[id].shield], ids)

\* Mutant: an expired purchase leaves its shield to the pool.
PoolsWithDeleted == pools

\* The pools after the expired purchases are gone.
PoolsWithoutDeleted ==
  [id \in DOMAIN pools |-> [pools[id] EXCEPT
     !.shield = @ - ShieldOf({i \in Deleted : purchases[i].pool = id})]]

\* The EndBlocker panics: the pool of an expired purchase is gone, the total
\* of the fees is less than those of its purchases, or there is no collateral
\* to share by (QuoInt divides by zero).
EndBlockerPanics ==
  \/ \E id \in Deleted : purchases[id].pool \notin DOMAIN pools
  \/ ServiceFeesLeft < 0
  \/ lastUpdateTime # 0 /\ DOMAIN providers # {} /\ totalCollateral = 0

EndBlocker ==
  /\ phase = "deliver"
  /\ ~ EndBlockerPanics
  /\ phase' = "staking"
  /\ purchases' = StoreDelete(
       [id \in DOMAIN purchases |->
          IF id \in Charged THEN [purchases[id] EXCEPT !.fees = 0] ELSE purchases[id]],
       Deleted)
  /\ totalShield' = totalShield - ShieldOf(Deleted)
  /\ serviceFees' = ServiceFeesLeft
  /\ remainingServiceFees' =
       remainingServiceFees
         - SumOver([a \in DOMAIN providers |-> Given(a)], DOMAIN providers)
         + (IF lastUpdateTime = 0 THEN 0 ELSE blockServiceFees)
  /\ blockServiceFees' = IF lastUpdateTime = 0 THEN blockServiceFees ELSE 0
  /\ lastUpdateTime' = IF lastUpdateTime = 0 THEN 0 ELSE now
  /\ providers' = [a \in DOMAIN providers |-> [providers[a] EXCEPT
       !.rewards = @ + Given(a),
       !.collateral = @ - WithdrawnAmount(CompletedOf(a)),
       !.withdrawing = @ - WithdrawnAmount(CompletedOf(a))]]
  /\ withdraws' = StoreDelete(withdraws, Completed)
  /\ totalCollateral' = totalCollateral - WithdrawnAmount(Completed)
  /\ totalWithdrawing' = totalWithdrawing - WithdrawnAmount(Completed)
  /\ pools' = OpenPools(PoolsWithoutDeleted)
  /\ UNCHANGED <<now, totalClaimed, nextPoolID, nextPurchaseID, stakeVars, stakingVars,
                 bankVars>>

EndBlockerHalts ==
  /\ phase = "deliver"
  /\ EndBlockerPanics
  /\ phase' = "halted"
  /\ UNCHANGED <<now, totalClaimed, providerVars, poolVars, purchaseVars, feeVars,
                 stakeVars, stakingVars, bankVars>>

\* The EndBlocker of x/staking completes the mature unbonding entries.
Mature(entry) == entry.completionTime <= now

SumOfEntries(entries) == AmountOf(entries, DOMAIN entries)

MatureAmount(entries) == AmountOf(entries, {i \in DOMAIN entries : Mature(entries[i])})

\* The entries with the indices I, in their order.
EntriesAt(entries, I) ==
  LET left[i \in 0..Len(entries)] ==
        IF i = 0 THEN <<>>
        ELSE IF i \in I THEN Append(left[i - 1], entries[i])
        ELSE left[i - 1]
  IN  left[Len(entries)]

\* The entries that are left.
Immature(entries) == EntriesAt(entries, {i \in DOMAIN entries : ~ Mature(entries[i])})

StakingEndBlocker ==
  /\ phase = "staking"
  /\ phase' = "gov"
  /\ balances' = [a \in Accounts |-> balances[a] + MatureAmount(unbonding[a])]
  /\ unbonding' = [a \in Accounts |-> Immature(unbonding[a])]
  /\ UNCHANGED <<now, totalClaimed, providerVars, poolVars, purchaseVars, feeVars,
                 stakeVars, delegated, moduleBalance>>

\* The next block begins; x/mint sends x/shield its share of the new coins,
\* none as long as nothing is staked for shield (FundShieldBlockRewards).
NextBlock(elapsed, reward) ==
  /\ phase = "gov"
  /\ now + elapsed <= MaxTime
  /\ reward > 0 => globalStakingPool > 0
  /\ phase' = "deliver"
  /\ now' = now + elapsed
  /\ blockServiceFees' = blockServiceFees + Dec(reward)
  /\ moduleBalance' = moduleBalance + reward
  /\ UNCHANGED <<totalClaimed, providerVars, poolVars, purchaseVars, serviceFees,
                 remainingServiceFees, lastUpdateTime, stakeVars, stakingVars, balances>>

-----------------------------------------------------------------------------

Init ==
  /\ now = 1 /\ phase = "deliver"
  /\ providers = <<>> /\ withdraws = <<>>
  /\ totalCollateral = 0 /\ totalWithdrawing = 0 /\ totalClaimed = 0
  /\ pools = <<>> /\ nextPoolID = 1 /\ totalShield = 0
  /\ purchases = <<>> /\ nextPurchaseID = 1
  /\ serviceFees = 0 /\ remainingServiceFees = 0 /\ blockServiceFees = 0
  /\ lastUpdateTime = 0
  /\ stakeForShield = <<>> /\ originalStaking = <<>> /\ globalStakingPool = 0
  /\ delegated = [a \in Accounts |-> InitDelegated]
  /\ unbonding = [a \in Accounts |-> <<>>]
  /\ balances = [a \in Accounts |-> InitBalance] /\ moduleBalance = 0

ProviderMsg(a) ==
  \/ \E amount \in CollateralInputs : DepositCollateral(a, amount)
  \/ \E amount \in WithdrawInputs : WithdrawCollateral(a, amount)
  \/ WithdrawRewards(a)

StakingMsg(a) ==
  \/ \E amount \in DelegationInputs : Delegate(a, amount)
  \/ \E amount \in DelegationInputs, removed \in BOOLEAN : Undelegate(a, amount, removed)
  \/ \E amount \in DelegationInputs, removed \in BOOLEAN : Redelegate(a, amount, removed)
  \/ \E amount \in SlashInputs : Slash(a, amount)

AdminMsg ==
  \/ \E sponsor \in Sponsors, limit \in LimitInputs, shield \in ShieldInputs,
        fees \in FeeInputs : CreatePool(sponsor, limit, shield, fees)
  \/ \E id \in DOMAIN pools, limit \in LimitInputs \cup {0}, shield \in ShieldInputs \cup {0},
        fees \in FeeInputs : UpdatePool(id, limit, shield, fees)
  \/ \E id \in DOMAIN pools, active \in BOOLEAN : SetActive(id, active)
  \/ \E id \in DOMAIN pools, sponsor \in Sponsors : UpdateSponsor(id, sponsor)

PurchaserMsg(a) ==
  \/ \E id \in DOMAIN pools, shield \in ShieldInputs, staking \in BOOLEAN :
        PurchaseShield(id, a, shield, staking)
  \/ \E id \in DOMAIN pools, amount \in UnstakeInputs : UnstakeFromShield(id, a, amount)

Block ==
  \/ EndBlocker
  \/ EndBlockerHalts
  \/ StakingEndBlocker
  \/ \E elapsed \in BlockTimes, reward \in RewardInputs \cup {0} : NextBlock(elapsed, reward)

Next ==
  \/ \E a \in Accounts : ProviderMsg(a) \/ StakingMsg(a) \/ PurchaserMsg(a)
  \/ AdminMsg
  \/ Block

Spec == Init /\ [][Next]_vars

-----------------------------------------------------------------------------
(* Properties.                                                             *)

\* The stores hold records of their types.
TypeOK ==
  /\ now \in Nat /\ phase \in {"deliver", "staking", "gov", "halted"}
  /\ IsStore(providers, Accounts, Provider)
  /\ IsStore(withdraws, Nat, Withdraw)
  /\ totalCollateral \in Int /\ totalWithdrawing \in Int /\ totalClaimed \in Int
  /\ IsStore(pools, Nat, Pool) /\ nextPoolID \in Nat /\ totalShield \in Int
  /\ IsStore(purchases, Nat, Purchase) /\ nextPurchaseID \in Nat
  /\ serviceFees \in Nat /\ remainingServiceFees \in Int /\ blockServiceFees \in Nat
  /\ lastUpdateTime \in Nat
  /\ IsStore(stakeForShield, Nat \X Accounts, ShieldStaking)
  /\ IsStore(originalStaking, Nat, Nat) /\ globalStakingPool \in Nat
  /\ delegated \in [Accounts -> Nat]
  /\ unbonding \in [Accounts -> Seq([amount : Nat, completionTime : Nat])]
  /\ balances \in [Accounts -> Nat] /\ moduleBalance \in Nat

\* ProviderInvariant of keeper/invariants.go: the totals of collateral and of
\* withdrawing collateral are the sums over the providers.
ProviderInvariant ==
  /\ totalWithdrawing =
       SumOver([a \in DOMAIN providers |-> providers[a].withdrawing], DOMAIN providers)
  /\ totalCollateral =
       SumOver([a \in DOMAIN providers |-> providers[a].collateral], DOMAIN providers)

WithdrawsOf(a) == {n \in DOMAIN withdraws : withdraws[n].address = a}

\* What a provider is withdrawing is what the withdraw queue holds for it, and
\* it is never more than its collateral: the queue, filled by messages and by
\* the staking hooks, can always be paid out of the collateral.
WithdrawingIsQueued ==
  /\ \A n \in DOMAIN withdraws : withdraws[n].address \in DOMAIN providers
  /\ \A a \in DOMAIN providers :
       /\ providers[a].withdrawing = WithdrawnAmount(WithdrawsOf(a))
       /\ providers[a].withdrawing <= providers[a].collateral

\* ShieldInvariant of keeper/invariants.go: the total shield is the sum over
\* the pools, also after a pool is closed.
ShieldInvariant ==
  totalShield = SumOver([id \in DOMAIN pools |-> pools[id].shield], DOMAIN pools)

\* The shield of a pool is what its purchases hold, and every purchase has a
\* pool: the EndBlocker finds the pool of every purchase it deletes.
PoolShieldIsSum ==
  /\ \A i \in DOMAIN purchases : purchases[i].pool \in DOMAIN pools
  /\ \A id \in DOMAIN pools :
       pools[id].shield = ShieldOf({i \in DOMAIN purchases : purchases[i].pool = id})

\* Total, pools and purchases agree on the shield.
ShieldAddsUp == ShieldInvariant /\ PoolShieldIsSum

\* GlobalStakingPoolInvariant of keeper/invariants.go: the stakes by purchaser
\* and the stakes by purchase both add up to the global staking pool.
GlobalStakingPoolInvariant ==
  /\ globalStakingPool =
       SumOver([k \in DOMAIN stakeForShield |-> stakeForShield[k].amount],
               DOMAIN stakeForShield)
  /\ globalStakingPool = SumOver(originalStaking, DOMAIN originalStaking)

Rewards == SumOver([a \in DOMAIN providers |-> providers[a].rewards], DOMAIN providers)

\* What is booked as remaining fees, rewards, stakes and block rewards.
Booked ==
  remainingServiceFees + Rewards
    + Dec(SumOver([k \in DOMAIN stakeForShield |-> stakeForShield[k].amount],
                  DOMAIN stakeForShield))
    + blockServiceFees

\* ModuleAccountInvariant of keeper/invariants.go: the coins of the module
\* account are what is booked, to the last unit.
ModuleAccountInvariant == Dec(moduleBalance) = Booked

\* What is booked and not in the module account.
Unpaid == Booked - Dec(moduleBalance)

\* UpdatePool with fees and without shield.
TopUp(fees) ==
  \E id \in DOMAIN pools, limit \in LimitInputs \cup {0} : UpdatePool(id, limit, 0, fees)

\* Fees added to a pool without shield, which nobody pays, are the only
\* difference there ever is between the books and the module account: purchases,
\* rounded shares, rewards paid in whole coins and block rewards change both by
\* the same amount, to the last unit, however much is unpaid.
OnlyTopUpsUnpaid ==
  [][\/ Unpaid' = Unpaid
     \/ \E fees \in FeeInputs : TopUp(fees) /\ Unpaid' = Unpaid + Dec(fees)]_vars

\* The total of the fees always covers those of the purchases, whichever of
\* them are bought, topped up and charged, and so charging a purchase that
\* expires never takes out more than there is (DecCoins.Sub would panic).
FeesNotOverdrawn ==
  /\ remainingServiceFees >= 0
  /\ serviceFees >= SumOver([id \in DOMAIN purchases |-> purchases[id].fees],
                            DOMAIN purchases)

\* What the providers are given in a block comes out of the fees that remained
\* before the block rewards were added to them, however the shares are rounded
\* and although the block rewards are shared out too.
RewardsFromRemainingFees ==
  [][Rewards' - Rewards <= remainingServiceFees]_vars

\* The times at which something that is queued now may complete.
Horizon == now..(now + ProtectionPeriod + WithdrawPeriod)

\* Collateral that is not being withdrawn is backed by the bonded delegation
\* on record: whatever is undelegated or redelegated, the hooks withdraw the
\* collateral it backed.
CollateralBacked ==
  \A a \in DOMAIN providers :
    providers[a].collateral - providers[a].withdrawing <= providers[a].bonded

\* At any time to come the collateral that is left by then covers the shield
\* still under protection: WithdrawCollateral need not look at the shield,
\* because a withdraw takes as long as a protection lasts.
ShieldStaysCovered ==
  \A t \in Horizon :
    ShieldOf({id \in DOMAIN purchases : purchases[id].protectionEnd > t})
      <= totalCollateral
           - WithdrawnAmount({n \in DOMAIN withdraws : withdraws[n].completionTime <= t})

\* When the EndBlocker of x/shield is done no withdraw is overdue and no
\* purchase is past its deletion time.
NothingOverdue ==
  phase \in {"staking", "gov"} =>
    /\ \A n \in DOMAIN withdraws : withdraws[n].completionTime > now
    /\ \A id \in DOMAIN purchases : purchases[id].deletion >= now

\* No purchase has both fees and a stake.
NoStakeWithFees ==
  \A id \in DOMAIN originalStaking \cap DOMAIN purchases : purchases[id].fees = 0

\* The EndBlocker does not panic.
NeverHalted == phase # "halted"

\* A stake whose return has been asked for is given back when the purchases it
\* paid for have expired.
StakeReturned ==
  \A k \in DOMAIN stakeForShield :
    stakeForShield[k].withdrawRequested > 0 =>
      \E id \in DOMAIN purchases : <<purchases[id].pool, purchases[id].purchaser>> = k
=============================================================================
