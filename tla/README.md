# Verification of the shentu chain

Shentu is a blockchain application in Go on top of cosmos-sdk.  The chain is one
replicated state machine: Tendermint hands every node the same blocks, and each
block is the BeginBlocker of every module, the transactions in order, the
EndBlocker of every module, and a commit.  The repository adds to cosmos-sdk a
security oracle (x/oracle), an insurance pool (x/shield), a governance with
certifier rounds (x/gov), a registry of certifiers and certificates (x/cert),
manually unlocked vesting accounts (x/auth, x/bank), an EVM (x/cvm, vm) and a
mint that funds the community pool and shield.

This directory holds TLA+ models of the modules that carry that logic, the TLC
configurations that check them on small instances, and TLAPS proofs that hold
for every value of their parameters.  The chain is sequential inside a block;
what is hard about it is not threads but the interleaving of messages of many
users with timed queues, with the hooks one module runs in another, and with
BeginBlockers and EndBlockers in which a panic stops every node at once.

Paths of source files below are relative to `src/`.

## Inventory

| component | state | operations | talks to |
|---|---|---|---|
| x/oracle | operators with collateral and rewards, total collateral, withdraws by (due block, address), tasks with responses, closing lists by block | create/remove operator, add/reduce collateral, withdraw reward; create/respond to/remove task; BeginBlocker pays mature withdraws, EndBlocker aggregates and distributes bounties | bank (module account) |
| x/shield, pools and collateral | providers, withdraw queue by time, pools, purchases, expiring-purchase queue, fees (total, remaining, block), stakes for shield, last update time | deposit/withdraw collateral, withdraw rewards; create/update/pause/resume pool, update sponsor; purchase, stake for shield, unstake; EndBlocker; staking hooks | x/staking (delegations, hooks), x/mint (block rewards), bank |
| x/shield, claims | claim proposals, total claimed, reimbursements, locked unbondings | SecureCollaterals, RestoreShield, ClaimEnd, CreateReimbursement, WithdrawReimbursement | x/gov (callers), x/staking (payout) |
| x/gov | proposals, deposits, votes, certifier votes, inactive and active queues by time | submit, deposit, vote; EndBlocker: drop inactive, tally, second round, early end of the certifier round | x/cert (certifiers), x/shield (claims), x/upgrade, x/staking (tally) |
| x/cert | certifiers with aliases, certified validators, platforms, certificates by (type, content, index), libraries | certify/decertify validator, certify platform, issue/revoke certificate, publish/invalidate library; certifier update proposal | x/slashing (decertify jails and tombstones), x/gov |
| x/auth, x/bank | manual vesting accounts with an unlocker, vested and delegated amounts | MsgUnlock, MsgLockedSend; a send to an account with code is a call of the CVM | x/cvm |
| x/mint | minter, ratios | BeginBlocker splits new coins among fee collector, community pool and shield | x/shield, x/distribution |
| x/cvm, vm | contract code, storage, ABI, block hashes | deploy, call, gas accounting with refund; BeginBlocker stores a block hash, EndBlocker recycles coins of the zero address | bank, x/cert (certified calls) |
| toolsets/oracle-operator | none on chain; goroutines and a channel | listen for create_task, query primitives, aggregate scores, broadcast the response | x/oracle over RPC |
| x/staking, x/slashing, x/distribution, x/crisis, x/upgrade | that of cosmos-sdk | thin wrappers | |
| app, simapp, cmd, client, simulations, CLI, REST | none of the protocol | wiring, I/O, formatting | |

The JavaScript in the repository (`client/lcd/swagger-ui`, `docs/swagger`) is two
copies of the third-party swagger-ui distribution, assets that the node serves to
a browser; it is no code of this project and nothing here is about it.

The order of the BeginBlockers is upgrade, mint, distribution, slashing, supply,
oracle, cvm, shield, and of the EndBlockers cvm, shield, staking, gov, oracle
(`app/app.go:356-361`).  It matters: x/shield pays out withdraws before x/staking
completes unbondings and before x/gov decides claims in the same block.

The behaviours that are hard to test, each at its line, are listed under
`hazards` in `PROJECT.json`.  What makes the components correct:

* x/oracle: the module account can pay what it owes; every task is aggregated
  once; collateral comes back after the lock, all of it; totals are sums.
* x/shield: sold shield stays covered by collateral until its protection ends;
  collateral is backed by delegations whatever is undelegated; fees are neither
  created nor lost; every queue entry is served when its time comes; the
  EndBlocker does not panic.
* claims: what a claim has locked is there when the claim is paid; a rejected
  claim gives everything back.
* x/gov: every proposal ends; no deposit stays behind; a proposal that needs the
  certifiers is never passed by validators alone; no stake votes twice.
* x/cert: an alias names one certifier; a certification can be taken back; no
  certificate replaces another.
* accounts: a locked coin is spent only after it is unlocked; no coin is created or
  lost by the modules that write balances on their own; no BeginBlocker or
  EndBlocker panics.

## Modules

| module | models |
|---|---|
| `Store` | the key-value store (cosmos-sdk, external): a function on the present keys |
| `Ledger` | sdk.Coins (external): a coin set gives every denomination an amount |
| `Decimal` | sdk.Dec (external): fixed-point numbers with half-even rounding |
| `Oracle` | x/oracle |
| `Shield` | x/shield without claims, and what it sees of x/staking and x/mint |
| `ShieldClaims` | claims, payouts and reimbursements; extends `Shield` |
| `Cert` | the certifiers, certificates, certified validators and platforms of x/cert |
| `Gov` | x/gov; extends `Cert`, whose handlers it runs |
| `ProposalLife` | the abstract specification of a proposal's life that `Gov` implements |
| `Accounts` | x/auth, x/bank, x/mint, and what x/cvm and vm do to accounts |
| `MCOracle`, `MCShield`, `MCShieldClaims`, `MCGov`, `MCAccounts` | constants and symmetry for TLC |
| `Sums`, `Loops`, `DecimalProofs` | theorems on sums over finite sets and stores, on loops over finite sets, and on rounding |
| `OracleProofs`, `ShieldProofs`, `ClaimsProofs`, `GovProofs`, `AccountsProofs` | the theorems about `Oracle`, about `Shield`, about `ShieldClaims`, about `Gov` with `Cert`, about `Accounts` |

A transaction that returns an error or panics is rolled back by baseapp, so a
handler is an action whose guard is that it succeeds.  A panic in a BeginBlocker
or EndBlocker is not rolled back: it is an action to phase "halted", where
nothing is enabled.  A definition whose comment begins with "Mutant" is a
deliberately wrong variant of the one that follows it; nothing uses it, it is
there to show that a property can fail (`mutants` in `PROJECT.json`).

Some definitions state what the repository promises and the code does not keep, or
keeps only in part.  Three of them have a run that refutes them; the others are
listed under "Seen while modelling", with the change of a configuration that
shows the behaviour.

### Oracle

`operators`, `totalCollateral`, `withdraws`, `tasks` and `closing` are the five
stores of `x/oracle/types/keys.go`; `balances` and `moduleBalance` are the bank's.
A block is `BeginBlock` (`BeginBlocker`, which is `FinalizeMatureWithdraws`), any
messages, `EndBlockStart`, one `EndBlockTask` per id of the closing list and
`EndBlockCommit`; nothing else is enabled while the EndBlocker runs, so that
cutting its loop into steps adds no interleaving.  The block time advances one
unit a block.

* `KeyLeq` is the order of the withdraw keys: `WithdrawStoreKey` writes the due
  block in little-endian bytes (`types/keys.go:37`) and the iteration takes all
  keys up to the bytes of the height.  Two bytes are modelled; the runs start at
  block 254 to cross the boundary at 256.
* `CreateWithdraw` overwrites a withdraw of the same address and due block, as
  `SetWithdraw` does.
* `GetCollateralAmount` reads the collateral at aggregation time and is 0 for an
  operator who has left since (`task.go:240`).
* `BountyWeight` and `BountyReward` are the three branches of
  `TotalValidTaskCollateral` and `DistributeBounty`, with integer division and
  with the denomination the code credits.

Left out: `MsgInquiryTask` (changes no state), the weight and reward written into
an aggregated response (never read), contract and function of a task (a task is
its store key), genesis import and export.  `MinimumCollateral`, `Epsilon1` and
`Epsilon2` are assumed positive; the validation of parameters admits 0, with which
`Collateral[0]` of an empty coin set or a division by zero would panic.

### Shield

Providers, withdraws, pools, purchases and stakes are stores keyed as in the
code.  The withdraw queue is a store of numbered withdraws: the code's time
slices are the withdraws of one completion time in the order of their numbers.
The expiring-purchase queue has exactly one item per purchase, at its
`protectionEnd`, and is derived from `purchases`.  `delegated` adds up the
delegations of an account over all validators; `removed` in `Undelegate` and
`Redelegate` says whether a delegation to one validator is gone, which decides
which hook runs (`RemoveDelegation` subtracts from the amount on record,
`UpdateDelegationAmount` adds up what is left).  A redelegation is an unbonding
and a delegation, and both hooks run in between.

Phases: "deliver" -> `EndBlocker` -> "staking" -> `StakingEndBlocker` -> "gov" ->
`NextBlock` -> "deliver".  Decimals have `Precision` units per one (10^18 in the
SDK, 100 in the runs, so that rounding really happens).

`ProcessStakeForShieldExpiration` is no action: it is reached only for an entry
with both fees and a stake, and `NoStakeWithFees`, which the run checks, says
there is none.  The walk over the purchases (`purchase.go:199-261`), which deletes from
the list it is in, is taken as its result, the sets `Charged` and `Deleted`.  The block
height is taken to be past `Update1Height` and `Update2Height`.  Left out: fees in foreign denominations (`MixedCoins.Foreign`),
descriptions, slashing of unbonding entries, the limit on unbonding entries,
genesis import and export, changes of parameters.

### ShieldClaims

Extends `Shield`: its variables are those of `Shield` plus the open claims, the
next proposal id and the reimbursements, and its next-state relation takes the
actions of `Shield` that matter to claims (deposits and withdraws of collateral,
delegations and their hooks, the EndBlockers) together with its own.

* `SubmitClaim` is the whole of `SecureCollaterals` and of what x/gov does on
  submission: the shield leaves pool and purchase, `totalClaimed` rises, and
  `SecureFromProvider` goes through the providers, putting off withdraws
  (`DelayWithdraws`) and unbonding entries (`DelayUnbonding`).  A panic in it
  rolls the submission back.
* `CertifiersPass`, `RejectClaim`, `VetoClaim`, `PassClaim`, `PassClaimHalts` are
  the ways a claim goes through the EndBlocker of x/gov, in phase "gov", after
  x/shield and x/staking.  Which one is taken is arbitrary: `Gov` computes it from
  votes.
* `Payout` is `CreateReimbursement`'s loop over the providers, with `Pay` as its body:
  collateral and withdraws (`PayFromCollateral`), then the delegation with its hook and
  the unbonding entries (`PayFromStake`).  This loop, that of `SecureCollaterals`
  (`Secured`) and that of `DelayWithdraws` are folds over sets whose choice operator
  names the element that comes last: the greatest address, or the earliest withdraw
  (`Earliest`).  A queue from which an amount is taken is
  computed item by item in closed form (`TakenFrom`, `TakenFromEntry`).  Of two withdraws
  or unbonding entries of one provider that agree in time and amount the code cuts the
  other one, which no property can tell apart.
* `DelayUnbonding` is the loop over the entries that are due, the latest first, with
  `DelayEntry` as its body: the code finds an entry again by its time, gives it the new
  one and swaps it with its neighbours until the entries are in order.

A provider has one delegation, to a validator that is not slashed: with several,
the order of validators decides who pays, not how much.  Messages of the admin are
left out; a behaviour starts from a genesis with one pool, purchases of it and
providers, so that the interesting states are few steps away.  Deposits are left
to `Gov`.  `ClaimsAssumption` asks for `2 * VotingPeriod <= WithdrawPeriod` and
`<= UnbondingTime`: the defaults (two days, three weeks) satisfy it by far and the
validation of parameters does not demand it.  `GenesisAssumption` says that the
genesis is one the code accepts: collateral within the delegations, purchases with
shields that are not negative.

### Cert and Gov

`Cert` has the stores of x/cert (`certifiers`, `aliases`, `certificates` by type,
content and index, `certified` keys of validators, `platforms`) and the bits of
x/staking and x/slashing that its messages use and set (`bonded`, `jailed`,
`tombstoned`).  Any key can be certified; those in `Validators` belong to a validator.  `MaxIndex`
stands for 255, the last index of the 8-bit counter in `GetNewCertificateID`.

`Gov` extends it with proposals, both queues (sets of end time and id), deposits,
votes and coins.  The EndBlocker is three loops, `phase` names the loop and
`todo` what its iterator has not visited: an iterator of the cached store works on
the entries that were there when it was opened, so that an entry that the loop
itself moves is not met again in the same loop.  `EndSecurityRound`,
`EndStakeRound` are `processActiveProposal`, `ProcessSecurityVote` is
`processSecurityVote`.

* `SecurityPass` counts heads, also of voters who are certifiers no more, against
  the number of certifiers; `StakePass` and `Veto` count stake with the decimal
  divisions of `Tally` (`Power`), a validator's without that of its delegators who
  voted.
* `HandlerOutcomes`: a certifier update succeeds or fails as
  `HandleCertifierUpdateProposal` says, a text succeeds; what x/shield, x/upgrade
  and x/distribution do may succeed or fail.
* Deposits of claims come in one message: `AddDeposit` activates a claim whatever
  the amount, above `MinClaimDeposit`.
* A certifier update that the certifiers decide, early or at the end of their
  round, leaves its votes in the store.

Delegations do not change, only the set of bonded validators does; every validator
has a delegation (its own), so that `Power` never divides by zero.  Left out:
libraries of x/cert (no message publishes one), queries, the contents of texts and
upgrades.

`ProposalLife` says what a user may rely on: which body decides a proposal of which
kind in which order, and that it is decided.  `Gov!Life` instantiates it with the
stage of a proposal read off the store; a proposal that is gone was dropped.

### Accounts

An account is a base or a manual vesting account.  Sends, delegations and slashes
are those of the SDK (external) as far as `SpendableCoins`, `TrackDelegation` and
`TrackUndelegation` of `ManualVestingAccount` take part in them.  x/cvm reads all
coins of an account as its balance and writes the balance back (`state.go`):
`Call` moves a value to the callee, and the code of the callee may pay from its
balance to one more account; `SelfDestruct` is the opcode together with
`RemoveAccount`; `Deploy` makes a new account.  `EndBlock` is `RecycleCoins`,
`BeginBlock` the split of the minted coins.  Two history variables, `calledWithValue`
and `created`, remember what the code forgets, for the properties only.

`OriginalGas` and `GasCharge` compute in `GasWidth` (16 in the run for 2^64) with
wrap-around.  Only uctk, EVM code only, one inner payment per call; the block is
past `Update1Height`; the amount of MsgUnlock is positive, the stake pool of
x/shield constant.  A supply of zero makes the BeginBlocker divide by zero and halt;
it cannot occur in the run.

## Runs

Passing runs and what they show:

* **oracle_safety**: two operators and one task over blocks 254 to 257, one
  denomination, scores on both sides of the threshold and the minimum.  The module
  account covers all it owes (`Solvent`), so BeginBlocker never panics
  (`NeverHalted`); the total collateral is the sum; no second response; no overdue
  withdraw; a result is final.
* **oracle_live**: two tasks with two windows, so that lists of two blocks fill up
  and ids are closed, removed and replaced.  `PendingScheduled`, and under
  fairness every task is closed.
* **shield_collateral**: two providers deposit and withdraw while their
  delegations are made, undelegated, redelegated and slashed.  What is queued
  against what the providers are withdrawing, and `CollateralBacked`: after every
  hook, collateral that is not being withdrawn is backed by the delegation on
  record.
* **shield_purchases**: shield is bought for fees and stakes while all collateral is
  withdrawn, pools are paused, resized, topped up, and closed by a negative limit;
  fees and block rewards are shared out, and rewards are paid; blocks come one or two
  units apart.  `ShieldStaysCovered` is the argument in the comment at
  `keeper/collateral.go:46`: a withdraw may ignore sold shield since it takes as long
  as a protection lasts.  What the providers are given in an EndBlocker is at most
  the fees that remained before it, and fees added to a pool without shield are all
  that ever sets the books and the module account apart (`OnlyTopUpsUnpaid`).
* **shield_claims**: two claims on one purchase, two providers, blocks one or two
  units apart.  As long as the lock of a claim lasts, the collateral that is left
  covers it, whatever is withdrawn and paid (`CoveredWhileLocked`); payouts keep
  the books of providers and queue balanced; the module account holds every
  reimbursement; a rejected claim never leaves a purchase with more shield than
  its pool; and coins are conserved (`CoinsConserved`): what entries are put off, cut
  and removed adds up to what is paid out, in every order of rounding.
* **gov_proposals**: two proposals out of a text, a claim and a certifier update
  collect deposits and are voted on by a certifier, a validator that is jailed and
  comes back, and its delegator.  Queues, deposits and votes stay consistent, and
  `LifeSpec`: `Gov` implements `ProposalLife`, liveness included.
* **gov_certifiers**: three accounts; proposals that add certifiers with one alias
  and remove the first one compete with upgrades; a validator and a key without one
  are certified; certificates are issued and revoked up to the last index.  No alias
  is used twice, for every certified validator somebody has the permission to take
  that back, and no certificate is replaced.
* **accounts**: three users, one without an account at genesis, and one contract.
  Locked coins stay, delegations are booked, coins match the supply up to what
  self-destructions left behind, nothing of that is usable, gas never exceeds the
  limit for any 4-bit amount, no block panics.

Runs that refute what the repository says (`findings` in `PROJECT.json`):

* **shield_unpaid_fees**: `UpdatePool` with fees and no shield books fees that nobody
  pays, and `ModuleAccountInvariant`, which the repository registers, is broken.
* **shield_claim_uncovered**: withdraws that a claim put off are paid in the block
  in which its lock ends, before x/gov decides the claim; a claim that passes then
  finds no collateral and CreateReimbursement panics in the EndBlocker.
* **shield_claim_rebacked**: withdraw, deposit again, withdraw again; the
  collateral exceeds the stake and SecureFromProvider panics on a claim that is
  covered.
* **gov_claim_quorum**: an identity with two certificates is counted twice in the
  electorate; a claim that all identities vote for misses the quorum.

Some passing properties are checked where the findings do not apply, and say
nothing beyond it: `Solvent` in one denomination; `CoveredWhileLocked` up to the end of the lock, exclusively;
`LockedCoinsStay` without callers that paid with a call; `CoinsMatchSupply` with
what self-destructions created.

Of the type invariants a run lists only that of `Oracle`; those of `Shield`,
`ShieldClaims`, `Gov` and `Accounts` hold on the instances of the runs too.  All five
are proved.

### Bounds

`MaxHeight` (Oracle) and `MaxTime` (the others) end a behaviour after four blocks, or
at time 4.  A lock, a protection and a withdraw period take 2, so that what is queued
in the first block is served within the run, by a block at its time or by a late one,
and is overlapped by what is queued in the second.  A task is only created if it closes before `MaxHeight`, and
a proposal only if all its periods fit before `MaxTime` (`EndsInRun`), so that
liveness is not cut off by the bound.  `MaxPools` is 1: pools only share totals.
`MaxPurchases`, `MaxClaims` and `MaxProposals` are 2: two overlapping items in any
order of their ends.  `MaxCollateral`, `MaxFees`, `MaxCoins` and `MaxSupply` bound
totals that messages could raise for ever.  Two accounts are the least with which
one's share, response or withdraw can be taken for another's, three the least with
which a locked send has a sender, a receiver and an unlocker, and with which two
new certifiers compete.  Symmetry is used in `Oracle` only, because the other
modules order their accounts.  Deadlock is not checked: a behaviour stops at its
bound, or halted.

In `Accounts` `Precision` is 8 and amounts stay below it, so that a share is rounded
to zero or not.  In `shield_claims`, a claim is sent by the claimant (`Senders = {}`).

### Fairness

`WF_vars(Block)` in `Oracle!FairSpec` and `Gov!Spec`: Tendermint keeps producing
blocks, so BeginBlocker, EndBlocker and the next block come.  No message of a user
is assumed to come.  `Shield`, `ShieldClaims` and `Accounts` are checked for safety
only; that queued items are served in time is the invariant `NothingOverdue` there.

## Proofs

All theorems hold for any accounts, inputs, parameters and amounts within the named
assumptions of the modules; the bounds of the runs are constants there and no
theorem uses their values.  A theorem that needs more has it as a hypothesis.

`OracleProofs`:

* `OracleTypeOK`: type correctness, which here means that no balance, total or
  reward is ever negative and that no division is by zero.  `TypeOK` is not
  inductive: `Collateral[0]` and the quotient by the weights are natural numbers
  only because a registered operator keeps the minimum collateral, and mature
  withdraws add up only if there are finitely many.  `TypeInv` adds both.
* `OracleOneResponseEach`, `OracleResultIsFinal`: inductive given `TypeInv`.
* `OraclePendingScheduled`: a pending task is in the list of its closing block,
  beyond the loop's cursor.  Needs `WaitInputs \subseteq Nat`: the code accepts a
  negative wait (`types/msgs.go:259`), with which it is false.
* `OracleTotalCollateral`: `TotalInv` adds that the operators are finitely many;
  each message changes one term of the sum (`TotalSplit`, `TotalJoin`).
* `OracleNoOverdueWithdraw`: the key of the height is within the iteration whatever
  the byte order does to the others.  Needs `LockedInBlocks > 0`; the validation of
  parameters accepts 0, with which a withdraw is due in its own block, after the
  BeginBlocker.
* `OracleSolvent`, `OracleNeverHalted`: `SolvencyInv` says that the module account
  covers `Owed` in every denomination.  The step that matters is the EndBlocker's:
  the shares of a bounty, each rounded down, are at most the bounty
  (`RewardsWithinBounty`, from `SumShares`).  Needs bounties of one denomination,
  since in two it is false (see below).

`ShieldProofs`, in layers, each of which is proved inductive with the help of the ones
before it:

* `ProviderInv` (`ShieldProviderInvariant`, `ShieldWithdrawingIsQueued`,
  `ShieldCollateralBacked`): every provider's record, what is queued for it, and the
  totals.  None of the three invariants is inductive alone: a hook withdraws what is
  no longer backed, which is a natural number only because the delegation is at most
  what is on record, and the EndBlocker takes every mature withdraw off its provider,
  which must then exist and have that much.
* `BookInv`, `ShieldInv` (`ShieldShieldAddsUp`): types and times of pools and
  purchases; the shield as sums over purchases, since an expiration removes many
  purchases of many pools at once.  The sums over pools of the code's invariants
  follow by interchanging the sums.
* `FeeInv` (`ShieldFeesNotOverdrawn`, `ShieldRewardsFromRemainingFees`): the fees of the
  purchases are within the total.  The rounded shares of the providers are given out
  one after the other, each cut to what is left, and add up to no more than there is.
* `CoverInv` (`ShieldShieldStaysCovered`), which speaks of every later time and not only
  of the horizon of the run.  Hypothesis: `WithdrawPeriod >= ProtectionPeriod`, as in the
  defaults (21 days both); the validation of parameters does not demand it, and
  without it the property is false.
* `StakeInv` (`ShieldGlobalStakingPool`, `ShieldNoStakeWithFees`), `BankInv`
  (`ShieldTypeOK`).
* `ShieldNothingOverdue`, `ShieldHaltsOnlyWithoutCollateral`: the EndBlocker panics only on
  the division at `purchase.go:291`.  Its other two ways to fail, an expired purchase
  of a missing pool and fees below zero, are excluded by the layers above.
* `ShieldOnlyTopUpsUnpaid`, about steps: the layers give that every part of the books is
  a natural number, and then each step is `Balanced`, it changes the books and the module
  account alike, or is an `UpdatePool` that books fees without shield.

`ClaimsProofs` is about the same providers, purchases and queues when claims take from
them.  `ClaimsInv` (`ClaimsBooks`) keeps the layers `ProviderInv` and `BookInv` of
`ShieldProofs`, whose lemmas about messages and EndBlocker it cites, and adds:

* `ClaimInv` (`ClaimsClaimedIsSum`): ids of claims are below the next one, and the
  claimed amount is the sum of the losses.
* `PurchaseInv` (`ClaimsPurchasesBooked`): `ShieldAddsUp` is false here (see below), so
  the sums are inequalities; a claim names the pool of its purchase as long as the
  purchase is there, so that what `RestoreShield` gives back goes to both.
* `Tracked` and `ProviderInv` (`ClaimsBooksBalanced`): without slashes the delegation on
  record is the delegation.  A payout needs it: the hook that runs when stake is
  undelegated for a payout compares the record with collateral already reduced.
* `ReimbursementInv` (`ClaimsReimbursementsHeld`): a payout that does not panic pays the
  whole loss, so the account and the reimbursements grow by the same amount.
* `LockInv` (`ClaimsCoveredWhileLocked`).  `CoveredWhileLocked` is not inductive: a claim
  that is paid takes its loss out of the collateral at every later time, also where its
  own lock has ended, so that it was not counted, and that of a later claim has not.
  `LockInv` speaks of every time from now on and counts, at each, all claims not later
  than one that is still locked (`Reserved`), which is what `SecureCollaterals` secured;
  locks end in the order of the claims.  Hypothesis: `MaxCollateral < Precision`, that
  is, less collateral than 10^18 units (the supply of uctk is some 10^14), at genesis
  too; with more, the rounded ratio times the collaterals may miss the claimed amount.

Its two loops are the heart of it.  For `SecureCollaterals`, `SecuredFor(s, P, total)`
says what holds when the loop has run for the providers of `P`: no withdraw completes
sooner than before, what has been secured is left until the lock ends, and it is at
least the share of `P`; when all have been served nothing remains (`SecuredWhole`).  For
`CreateReimbursement`, `PaidFor` says that the books are balanced and that exactly what
is no longer to be paid has left the collateral.  `Loops` has the rule: a fold over a
finite set runs through its subsets, so that induction over subsets applies to it.
That `DelayWithdraws` puts off enough, and that the closed form `TakenFrom` takes the
amount and no more out of a queue, are lemmas about the order `Later` in which queues
are walked (`DelayedEnough`, `CutAmounts`).

`ClaimsCoinsConserved` follows the coins through the same loops.  `CoinsConserved` needs
`ClaimsInv`, because a payout takes its part from the delegation on record, and the
types of balances and entries (`BankInv`, as in `ShieldProofs`).  Each step moves coins
of one account from one form to another, or between accounts and module account:

* `DelayEntry` permutes the entries and changes a time (`PassedPermutes`, with
  `SumPermuted`), so that whatever `SecureCollaterals` puts off every account has the
  same amount unbonding (`DelayEntrySame`, `DelayUnbondingSame`, `SecuredSame`);
* `PayFromUnbondings` takes from the entries exactly the amount it is called for, if there
  is that much beyond what it skips (`EntriesLose`; `TakenTotal` is the general fact about
  the closed form `TakenFrom`, over any order of walking), and removing the entries that
  are used up loses nothing (`UsedUpRemoved`);
* `CoinsFor(base, s, loss)` is the invariant of the loop of `CreateReimbursement`: what has
  left the stakes is what is no longer to be paid (`CoinsAll`);
* entries that mature are paid into balances, and the others stay (`MatureAndLeft`).

`ClaimsTypes`, the type invariant, follows from `ClaimsInv`, `BankInv` and that nothing
stakes for shield.  `EntriesAt` picks entries out of a sequence with a recursive function,
whose values the provers can follow one by one, where `SelectSeq` would leave them
nothing to unfold.

`GovProofs`, in four layers, each of which needs the ones before:

* `ProposalInv` (`GovQueuesMatchProposals`): ids, kinds and stages of proposals, and
  what is in which queue and in the `todo` of the loop that runs.  The queues
  match between steps only because the loops are described along with them.
* `CertInv` (`GovAliasesAreUnique`, `GovSomeoneMayDecertify`,
  `GovCertificatesNotReplaced`): certifiers and alias index are each other's
  inverse and there is a certifier.  Two updates for one alias may both pass the
  check at submission; the handler checks again.
* `VotesInv` (`GovRoundsStartWithoutVotes`), `DepositInv` (`GovDepositsHeld`,
  `GovDepositsLeftByUpdates`, `GovTypeOK`).
* `GovNoStakeVotesTwice` interchanges the sums over validators and delegators; a
  share is rounded up by at most half a unit (`QuoDecHalf`).
* `GovImplementsProposalLife`: the safety part of the refinement, with the same
  mapping `Life` as the run.

`AccountsProofs`, in two layers:

* `VestingInv`, about each account on its own: its books are in order
  (`SoundBooks`), base accounts have none, contracts and the zero address are base
  accounts, and an address without an account has no stake.  It gives
  `AccountsLockedCoinsStay` and `AccountsDelegationsBooked`, neither of which is
  inductive: an unlock moves coins between two books, and a slash makes the books
  an upper bound of the stake.  All transfers are reduced to `CoinMove`.
* `MoneyInv`, about sums: the module accounts hold the stake pool and all bonded
  tokens, and what is held at all addresses and at those somebody can use, against
  the supply (`Held`).  It gives `AccountsCoinsMatchSupply`,
  `AccountsUsableCoinsWithinSupply` and `AccountsTypeOK`.
* `AccountsNeverHalted`: each pool's share may be rounded up, but by half a unit each,
  and less is minted in a block than a decimal has units (10^18; in
  `AmountsAssumption`), so the two together do not exceed what is minted
  (`MintedShares`).  Needs a supply that is not zero: a stake pool, or a block that
  always mints; otherwise `GetPoolMint` divides by zero.
* `AccountsGasWithinLimit`: for every width, rate and amount.

Sums are the folds of the community modules, and the induction principles of the
proof library cannot be used by the installed provers.  `Sums` therefore derives
induction over the subsets of a finite set from the least element of a set of
natural numbers, and from it what the proofs need: a sum exists, is a natural
number, loses, gains or changes one term, splits over disjoint sets, can be
interchanged with another, is the same for permuted terms, and is bounded by
proportional bounds of its terms.

Only model-checked: liveness (`EveryTaskCloses`, the fairness part of `LifeSpec`), which
is beyond the prover.  Of `EveryTaskCloses` the safety part is proved: the block in which
a pending task closes is never over (`OraclePendingScheduled`).

## Seen while modelling

Behaviour that a reader of the code may not expect.  Where a definition is named,
adding it to the configuration given makes TLC print an example.

x/oracle

* `types/keys.go:37`: with little-endian keys a withdraw due at block 256 is paid at
  255 (`LockPeriodKept`, in `Oracle_safety.cfg`); `specs/specs.md:160` calls the lock
  the "number of blocks operators need to wait before getting their collateral back".
* `keeper/withdraw.go:15`: two withdraws of one operator in one block, and the first
  is lost (`WithdrawKept`).
* `keeper/task.go:317`: below the threshold a bounty in two denominations is credited
  in the first one, and the module account owes more than it has (`Solvent` with
  two denominations).
* `keeper/task.go:222`: when minimum scores hold a third of the collateral, the
  result is that amount of collateral, not a score; the model computes the same.
* `keeper/task.go:76`: a task may be replaced in its closing block before it is
  aggregated; its bounty then belongs to nobody.
* `types/msgs.go:259`: a negative wait is accepted; such a task is never aggregated.

x/shield

* `keeper/purchase.go:291`: when all collateral has been withdrawn the EndBlocker
  divides by zero (`EndBlockerHalts`; `NeverHalted` in `Shield_purchases.cfg`).  It is the
  only way to halt (`ShieldHaltsOnlyWithoutCollateral`).
* `keeper/purchase.go:214`: the expiration of a stake is handled only if the entry
  has fees, which an entry with a stake has not: stakes are never given back
  (`StakeReturned` in `Shield_purchases.cfg`).
* `keeper/pool.go:201`: `UpdatePool` with fees and no shield books fees nobody has
  paid (**shield_unpaid_fees**).
* `keeper/hooks.go:39`: the slash hook is empty, so the delegation on record is
  stale after a slash.
* `keeper/provider.go:101`: a redelegation withdraws collateral that is backed
  before and after it.
* `keeper/pool.go:304`: `UpdateSponsor` does not check that the sponsor has no other
  pool; `CreatePool` does.
* `keeper/proposal.go:141`: when a claim is rejected after its purchase was deleted,
  the shield goes back to the pool and never leaves it (`ShieldAddsUp` in
  `ShieldClaims_safety.cfg`).  The purchase is looked up in the list of the sender
  of the proposal, who need not be the purchaser (`Senders`).
* `keeper/pool.go:268`: a pool with a limit of at most 0 is closed while its whole
  shield is claimed, since the shield of a claim has left the pool.

x/gov and x/cert

* `x/gov/endblocker.go:142-168`: when the certifiers decide an update before the end of
  their round, its deposits are neither refunded nor deleted and stay in the
  module account (`NoDepositLeft` in `Gov_proposals.cfg`; `DepositsLeftByUpdates` says these are the only
  ones).
* `x/gov/keeper/tally.go`: votes of certifiers who were voted out meanwhile count in
  the certifier round.
* `x/cert/keeper/validator.go`: a validator that is tombstoned can be certified again
  and then not be decertified again; a key without a validator can be certified, and
  not decertified until it has one.

accounts

* `x/cvm/keeper/state.go:44`: the balance of the CVM includes locked coins, so that
  a call with a value spends them (`NoLockedCoinSpent` in `Accounts_safety.cfg`).
* `x/cvm/keeper/state.go:104`: after a self-destruction the coins are at two
  addresses (`SupplyInvariant`); `UsableCoinsWithinSupply` says that those at the old
  address are out of reach.
* `x/cvm/keeper/keeper.go:136`: the comment says "Only refund when there is no
  error.", the condition is `err != nil`.

## Not modelled

* `vm`, beyond CALL with a value and SELFDESTRUCT: an interpreter of byte code over
  256-bit words is a deterministic program out of TLC's reach.  Of x/cvm, the
  storage of contracts, ABI, metadata and block hashes, which are written and read
  back unchanged.
* `toolsets/oracle-operator`: keeps no state between two events; a lost, late or
  repeated answer of the daemon is a message that does not come, or comes late or
  twice, in `Oracle`.
* The inflation formula of x/mint and the modules of cosmos-sdk behind the wrappers:
  not code of the repository.
* Libraries of x/cert: no message publishes one.
* `app`, `simapp`, `cmd`, `client`, CLI, REST, simulations, genesis import and export:
  wiring, I/O, formatting.
* The swagger-ui JavaScript: vendored assets.

## Plan

Every safety property of the passing runs, and the type invariant of every component, is
proved.  What could be added is breadth: providers with several delegations and slashes
in `ShieldClaims`, with the order of validators in a payout; and the conditions on
deposits under which `ClaimsAreAdmitted` holds, which is false in general
(**shield_claim_rebacked**) and so far has no theorem.
