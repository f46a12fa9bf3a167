------------------------------ MODULE Accounts ------------------------------
(***************************************************************************)
(* The accounts of the chain and the modules that move their coins: manual *)
(* vesting accounts (x/auth), locked sends and sends (x/bank), delegations *)
(* (x/staking of the SDK), calls and contracts (x/cvm and the virtual      *)
(* machine) and the minting of new coins (x/mint).                         *)
(*                                                                         *)
(* x/cvm has its own view of an account: it reads all of its coins as the  *)
(* balance, locked or not, and writes the balance back.                    *)
(*                                                                         *)
(* A block is BeginBlock (x/mint), transactions and EndBlock (x/cvm).  A   *)
(* transaction that fails or panics is rolled back, so its action is       *)
(* guarded by its success.  Amounts are in uctk.                           *)
(***************************************************************************)
EXTENDS Store, Decimal

CONSTANTS
  Users,               \* addresses with a key
  ContractAddresses,   \* addresses that deployments make up
  ZeroAddress, NoAddress,
  GenesisCoins,        \* address -> coins, of the accounts of genesis
  GlobalStakingPool,   \* of x/shield, held by its module account
  GasWidth, GasCap,    \* 2^64, and TransactionGasLimit
  GasRates,            \* values of the parameter
  SendInputs, LockInputs, UnlockInputs, StakeInputs, CallInputs,
  MintInputs,          \* minted in a block
  MaxCoins, MaxSupply  \* bounds of a behaviour

Addresses == Users \cup ContractAddresses \cup {ZeroAddress}

ASSUME AddressesAssumption ==
  /\ Users \cap ContractAddresses = {}
  /\ ZeroAddress \notin Users \cup ContractAddresses
  /\ NoAddress \notin Addresses
  /\ IsStore(GenesisCoins, Users, Nat) /\ IsFiniteSet(DOMAIN GenesisCoins)

ASSUME AmountsAssumption ==
  /\ GlobalStakingPool \in Nat
  /\ SendInputs \subseteq Nat \ {0} /\ LockInputs \subseteq Nat
  /\ UnlockInputs \subseteq Nat \ {0} /\ StakeInputs \subseteq Nat \ {0}
  /\ CallInputs \subseteq Nat /\ MintInputs \subseteq Nat
  /\ \A minted \in MintInputs : minted < Precision
  /\ GasWidth \in Nat \ {0} /\ GasCap \in Nat /\ GasRates \subseteq 1..(GasWidth - 1)
  /\ MaxCoins \in Nat /\ MaxSupply \in Nat

VARIABLES
  accounts,        \* address -> account, base or manual vesting
  code,            \* addresses with code
  staked,          \* address -> bonded tokens
  gasRate,         \* parameter of x/cvm: CVM gas for one unit of gas
  phase,           \* "begin", "deliver", "halted" after a panic outside of a tx
  communityPool,
  moduleCoins,     \* of all module accounts but the community pool
  supply,          \* the total on record in x/supply
  calledWithValue, \* history: callers of calls that moved value
  created          \* history: coins a self-destruction left behind

vars == <<accounts, code, staked, gasRate, phase, communityPool, moduleCoins, supply,
          calledWithValue, created>>

-----------------------------------------------------------------------------
(* Accounts.                                                               *)

Account == [vesting : BOOLEAN, coins : Nat, originalVesting : Nat, vestedCoins : Nat,
            delegatedVesting : Nat, delegatedFree : Nat,
            unlocker : Addresses \cup {NoAddress}]

BaseAccount(amount) ==
  [vesting |-> FALSE, coins |-> amount, originalVesting |-> 0, vestedCoins |-> 0,
   delegatedVesting |-> 0, delegatedFree |-> 0, unlocker |-> NoAddress]

NewManualVestingAccount(unlocker) ==
  [BaseAccount(0) EXCEPT !.vesting = TRUE, !.unlocker = unlocker]

GetVestingCoins(acc) == acc.originalVesting - acc.vestedCoins

\* Mutant: coins that are delegated out of the vesting ones are spendable twice.
SpendableIgnoresDelegations(acc) == MinInt(acc.coins, acc.coins - GetVestingCoins(acc)
                                                       + acc.delegatedVesting
                                                       + acc.delegatedFree)

\* SpendableCoins; the SDK panics when it is negative.
SpendableCoins(acc) ==
  MinInt(acc.coins + acc.delegatedVesting - GetVestingCoins(acc), acc.coins)

\* SubtractCoins and AddCoins of the SDK; an unknown address gets an account.
CanSubtract(accs, a, amount) == a \in DOMAIN accs /\ SpendableCoins(accs[a]) >= amount

SubtractCoins(accs, a, amount) == [accs EXCEPT ![a].coins = @ - amount]

AddCoins(accs, a, amount) ==
  IF a \in DOMAIN accs THEN [accs EXCEPT ![a].coins = @ + amount]
  ELSE StoreSet(accs, a, BaseAccount(amount))

\* TrackDelegation: vesting coins are delegated first.
TrackDelegation(acc, amount) ==
  LET x == MinInt(MaxInt(GetVestingCoins(acc) - acc.delegatedVesting, 0), amount)
  IN  IF ~ acc.vesting THEN [acc EXCEPT !.coins = @ - amount]
      ELSE [acc EXCEPT !.coins = @ - amount, !.delegatedVesting = @ + x,
                       !.delegatedFree = @ + (amount - x)]

\* TrackUndelegation: free coins return first.
TrackUndelegation(acc, amount) ==
  LET x == MinInt(acc.delegatedFree, amount)
      y == MinInt(acc.delegatedVesting, amount - x)
  IN  IF ~ acc.vesting THEN [acc EXCEPT !.coins = @ + amount]
      ELSE [acc EXCEPT !.coins = @ + amount, !.delegatedFree = @ - x,
                       !.delegatedVesting = @ - y]

-----------------------------------------------------------------------------
(* x/auth, x/bank and x/staking.                                           *)

DeliverTx == phase = "deliver"

\* Mutant: what is delegated stays delegated out of the vesting coins.
UnlockedNoTransfer(acc, amount) == [acc EXCEPT !.vestedCoins = @ + amount]

\* The account after amount is unlocked: the delegated coins that are no longer
\* vesting become free.
Unlocked(acc, amount) ==
  LET unlockedDelegated ==
        MaxInt(acc.delegatedVesting - (GetVestingCoins(acc) - amount), 0)
  IN  [acc EXCEPT !.vestedCoins = @ + amount,
                  !.delegatedVesting = @ - unlockedDelegated,
                  !.delegatedFree = @ + unlockedDelegated]

Unlock(issuer, a, amount) ==
  /\ DeliverTx
  /\ a \in DOMAIN accounts /\ accounts[a].vesting
  /\ issuer = accounts[a].unlocker
  /\ accounts[a].vestedCoins + amount <= accounts[a].originalVesting
  /\ accounts' = [accounts EXCEPT ![a] = Unlocked(@, amount)]
  /\ UNCHANGED <<gasRate, code, staked, phase, communityPool, moduleCoins, supply,
                 calledWithValue, created>>

\* The receiver of a locked send: a vesting account, new or there already.
LockedSendReceiver(to, unlocker) ==
  IF to \in DOMAIN accounts THEN accounts[to] ELSE NewManualVestingAccount(unlocker)

\* Mutant: the receiver may be any account.
MayReceiveLockedAny(to, unlocker) ==
  /\ to # unlocker
  /\ to \notin DOMAIN accounts => unlocker # NoAddress

MayReceiveLocked(to, unlocker) ==
  /\ to # unlocker
  /\ IF to \in DOMAIN accounts THEN accounts[to].vesting /\ unlocker = NoAddress
     ELSE unlocker # NoAddress

\* Mutant: the sender pays before the receiver, read earlier, is written.
LockedSendAccountsSwapped(from, to, unlocker, amount) ==
  LET received == [LockedSendReceiver(to, unlocker) EXCEPT
                     !.vesting = TRUE, !.originalVesting = @ + amount, !.coins = @ + amount]
  IN  StoreSet(SubtractCoins(accounts, from, amount), to, received)

\* The receiver is written first, then the sender is read again and pays.
LockedSendAccounts(from, to, unlocker, amount) ==
  LET received == [LockedSendReceiver(to, unlocker) EXCEPT
                     !.vesting = TRUE, !.originalVesting = @ + amount, !.coins = @ + amount]
  IN  SubtractCoins(StoreSet(accounts, to, received), from, amount)

LockedSend(from, to, unlocker, amount) ==
  /\ DeliverTx
  /\ from \in DOMAIN accounts
  /\ MayReceiveLocked(to, unlocker)
  /\ CanSubtract(accounts, from, amount)
  /\ to \in DOMAIN accounts => accounts[to].originalVesting + amount <= MaxCoins
  /\ accounts' = LockedSendAccounts(from, to, unlocker, amount)
  /\ UNCHANGED <<gasRate, code, staked, phase, communityPool, moduleCoins, supply,
                 calledWithValue, created>>

\* SendCoins to an account without code; one with code is called (Call).
Send(from, to, amount) ==
  /\ DeliverTx
  /\ to \notin code
  /\ CanSubtract(accounts, from, amount)
  /\ accounts' = AddCoins(SubtractCoins(accounts, from, amount), to, amount)
  /\ UNCHANGED <<gasRate, code, staked, phase, communityPool, moduleCoins, supply,
                 calledWithValue, created>>

\* DelegateCoins and UndelegateCoins of the SDK; locked coins may be delegated.
Delegate(a, amount) ==
  /\ DeliverTx
  /\ a \in DOMAIN accounts /\ accounts[a].coins >= amount
  /\ accounts' = [accounts EXCEPT ![a] = TrackDelegation(@, amount)]
  /\ staked' = [staked EXCEPT ![a] = @ + amount]
  /\ moduleCoins' = moduleCoins + amount
  /\ UNCHANGED <<gasRate, code, phase, communityPool, supply, calledWithValue, created>>

Undelegate(a, amount) ==
  /\ DeliverTx
  /\ staked[a] >= amount
  /\ accounts' = [accounts EXCEPT ![a] = TrackUndelegation(@, amount)]
  /\ staked' = [staked EXCEPT ![a] = @ - amount]
  /\ moduleCoins' = moduleCoins - amount
  /\ UNCHANGED <<gasRate, code, phase, communityPool, supply, calledWithValue, created>>

\* A slash burns bonded tokens; the account does not learn of it.
Slash(a, amount) ==
  /\ DeliverTx
  /\ staked[a] >= amount
  /\ staked' = [staked EXCEPT ![a] = @ - amount]
  /\ moduleCoins' = moduleCoins - amount
  /\ supply' = supply - amount
  /\ UNCHANGED <<gasRate, accounts, code, phase, communityPool, calledWithValue, created>>

-----------------------------------------------------------------------------
(* x/cvm.                                                                  *)

\* GetAccount of the CVM state.
Balance(a) == IF a \in DOMAIN accounts THEN accounts[a].coins ELSE 0

\* A call, or a send to a contract, moves value from the caller to the callee,
\* and the code may pay from the callee's balance to the account to.
\* An account without code only receives.
Call(caller, callee, value, to, amount) ==
  /\ DeliverTx
  /\ caller \in DOMAIN accounts /\ callee \in DOMAIN accounts
  /\ Balance(caller) >= value
  /\ LET paid == AddCoins(SubtractCoins(accounts, caller, value), callee, value)
     IN  /\ amount > 0 => callee \in code
         /\ paid[callee].coins >= amount
         /\ accounts' = AddCoins(SubtractCoins(paid, callee, amount), to, amount)
  /\ calledWithValue' = IF value > 0 THEN calledWithValue \cup {caller} ELSE calledWithValue
  /\ UNCHANGED <<gasRate, code, staked, phase, communityPool, moduleCoins, supply, created>>

\* The code of the callee destroys itself: its balance goes to the account to,
\* and RemoveAccount deletes its code; its coins are not touched.
SelfDestruct(caller, callee, value, to) ==
  /\ DeliverTx
  /\ caller \in DOMAIN accounts /\ callee \in code \ {caller}
  /\ Balance(caller) >= value
  /\ created + Balance(callee) <= MaxCoins
  /\ LET paid == SubtractCoins(accounts, caller, value)
     IN  accounts' = IF to = callee THEN paid
                     ELSE AddCoins(paid, to, Balance(callee) + value)
  /\ created' = IF to = callee THEN created - value ELSE created + Balance(callee)
  /\ code' = code \ {callee}
  /\ calledWithValue' = IF value > 0 THEN calledWithValue \cup {caller} ELSE calledWithValue
  /\ UNCHANGED <<gasRate, staked, phase, communityPool, moduleCoins, supply>>

\* Mutant: the address of the contract may have an account.
DeployAnywhere(caller, contract, value) ==
  /\ DeliverTx
  /\ caller \in DOMAIN accounts
  /\ Balance(caller) >= value
  /\ accounts' = AddCoins(SubtractCoins(accounts, caller, value), contract, value)
  /\ code' = code \cup {contract}
  /\ calledWithValue' = IF value > 0 THEN calledWithValue \cup {caller} ELSE calledWithValue
  /\ UNCHANGED <<gasRate, staked, phase, communityPool, moduleCoins, supply, created>>

\* A deployment creates the account of the contract, which must be new.
Deploy(caller, contract, value) ==
  /\ DeliverTx
  /\ caller \in DOMAIN accounts /\ contract \notin DOMAIN accounts
  /\ Balance(caller) >= value
  /\ accounts' = AddCoins(SubtractCoins(accounts, caller, value), contract, value)
  /\ code' = code \cup {contract}
  /\ calledWithValue' = IF value > 0 THEN calledWithValue \cup {caller} ELSE calledWithValue
  /\ UNCHANGED <<gasRate, staked, phase, communityPool, moduleCoins, supply, created>>

\* RecycleCoins fails and the EndBlocker panics.
RecycleFails ==
  LET coins == accounts[ZeroAddress].coins
  IN  coins > 0 /\ ~ CanSubtract(accounts, ZeroAddress, coins)

\* The EndBlocker sends the coins at the zero address to the community pool.
EndBlock ==
  /\ phase = "deliver"
  /\ LET coins == accounts[ZeroAddress].coins
     IN  IF RecycleFails
         THEN phase' = "halted" /\ UNCHANGED <<accounts, communityPool>>
         ELSE /\ phase' = "begin"
              /\ accounts' = SubtractCoins(accounts, ZeroAddress, coins)
              /\ communityPool' = communityPool + coins
  /\ UNCHANGED <<gasRate, code, staked, moduleCoins, supply, calledWithValue, created>>

\* getOriginalGas: what the gas left buys, in 64 bits; the product may wrap.
OverflowSeen(gasCurrent) == (gasCurrent * gasRate) % GasWidth < gasCurrent

OriginalGas(gasCurrent) == MinInt((gasCurrent * gasRate) % GasWidth, GasCap)

\* Mutant: the charge is rounded up once too often.
GasChargeRounded(fee) == ((fee + gasRate) % GasWidth) \div gasRate

\* What the call is charged for the CVM gas it used.
GasCharge(fee) == ((fee + gasRate - 1) % GasWidth) \div gasRate

-----------------------------------------------------------------------------
(* x/mint.                                                                 *)

\* GetPoolMint for a pool that holds the part pool of the supply, to which
\* the minted coins have been added.
PoolMint(pool, minted) ==
  TruncateInt(MulInt(QuoDec(Dec(pool), Dec(supply + minted)), minted))

\* What is left for the fee collector.
CollectedFees(minted) ==
  minted - PoolMint(communityPool, minted) - PoolMint(GlobalStakingPool, minted)

\* The division by a supply of zero and a negative rest panic.
BeginBlock(minted) ==
  /\ phase = "begin"
  /\ supply + minted <= MaxSupply
  /\ IF supply + minted = 0 \/ CollectedFees(minted) < 0
     THEN phase' = "halted" /\ UNCHANGED <<communityPool, moduleCoins, supply>>
     ELSE /\ phase' = "deliver"
          /\ supply' = supply + minted
          /\ communityPool' = communityPool + PoolMint(communityPool, minted)
          /\ moduleCoins' = moduleCoins + CollectedFees(minted)
                              + PoolMint(GlobalStakingPool, minted)
  /\ UNCHANGED <<gasRate, accounts, code, staked, calledWithValue, created>>

-----------------------------------------------------------------------------

SumOver(f, S) == SumFunctionOnSet(f, S)

\* Genesis; x/cvm registers the zero address (RegisterGlobalPermissionAcc).
Init ==
  /\ accounts = StoreSet([a \in DOMAIN GenesisCoins |-> BaseAccount(GenesisCoins[a])],
                         ZeroAddress, BaseAccount(0))
  /\ code = {} /\ gasRate \in GasRates
  /\ staked = [a \in Addresses |-> 0]
  /\ phase = "begin"
  /\ communityPool = 0 /\ moduleCoins = GlobalStakingPool
  /\ supply = GlobalStakingPool + SumOver(GenesisCoins, DOMAIN GenesisCoins)
  /\ calledWithValue = {} /\ created = 0

Msg(a) ==
  \/ \E b \in Addresses, amount \in UnlockInputs : Unlock(a, b, amount)
  \/ \E b \in Addresses, c \in Addresses \cup {NoAddress}, amount \in LockInputs :
        LockedSend(a, b, c, amount)
  \/ \E b \in Addresses, amount \in SendInputs : Send(a, b, amount)
  \/ \E amount \in StakeInputs : Delegate(a, amount) \/ Undelegate(a, amount)
  \/ \E amount \in StakeInputs : Slash(a, amount)
  \/ \E b, c \in Addresses, value \in CallInputs, amount \in CallInputs :
        Call(a, b, value, c, amount)
  \/ \E b, c \in Addresses, value \in CallInputs : SelfDestruct(a, b, value, c)
  \/ \E b \in ContractAddresses, value \in CallInputs : Deploy(a, b, value)

Block == EndBlock \/ \E minted \in MintInputs : BeginBlock(minted)

Next == (\E a \in Users : Msg(a)) \/ Block

Spec == Init /\ [][Next]_vars

-----------------------------------------------------------------------------
(* Properties.                                                             *)

\* Accounts hold no negative amount and unlock no more than was locked.
TypeOK ==
  /\ IsStore(accounts, Addresses, Account) /\ ZeroAddress \in DOMAIN accounts
  /\ code \subseteq DOMAIN accounts
  /\ staked \in [Addresses -> Nat] /\ gasRate \in Nat
  /\ phase \in {"begin", "deliver", "halted"}
  /\ communityPool \in Nat /\ moduleCoins \in Nat /\ supply \in Nat
  /\ calledWithValue \subseteq Addresses /\ created \in Int

\* The locked coins of an account that are not delegated.
Locked(acc) == GetVestingCoins(acc) - acc.delegatedVesting

\* Coins that are locked stay in the account or in its delegations, whatever
\* is sent, unlocked, delegated, slashed and undelegated in between, unless
\* the owner pays with a call: x/cvm counts locked coins to the balance.
LockedCoinsStay ==
  \A a \in DOMAIN accounts \ calledWithValue : accounts[a].coins >= Locked(accounts[a])

\* Locked coins are never spent.
NoLockedCoinSpent ==
  \A a \in DOMAIN accounts : accounts[a].coins >= Locked(accounts[a])

\* The delegations of a vesting account are on its books at least in full, so
\* that the coins that come back are spendable or locked as they were; never
\* more than the vesting coins are booked as delegated out of them.
DelegationsBooked ==
  \A a \in DOMAIN accounts : accounts[a].vesting =>
    /\ accounts[a].delegatedVesting + accounts[a].delegatedFree >= staked[a]
    /\ accounts[a].delegatedVesting <= GetVestingCoins(accounts[a])

Total == communityPool + moduleCoins
           + SumOver([a \in DOMAIN accounts |-> accounts[a].coins], DOMAIN accounts)

\* The coins of all accounts are the supply, also when an account sends locked
\* coins to itself, and but for what self-destructions left in two accounts.
CoinsMatchSupply == Total = supply + created

\* The coins of all accounts are the supply (total-supply invariant of x/supply).
SupplyInvariant == Total = supply

\* The coins someone may still move are never more than the supply: what a
\* self-destruction creates stays at an address that has neither a key nor
\* code, and no deployment brings it back.
UsableCoinsWithinSupply ==
  LET usable == DOMAIN accounts \cap (Users \cup code \cup {ZeroAddress})
  IN  communityPool + moduleCoins
        + SumOver([a \in usable |-> accounts[a].coins], usable) <= supply

\* No EndBlocker or BeginBlocker panics: no one can make the zero address a
\* vesting account, whose coins could not be recycled, and the shares of the
\* pools are never more than what is minted.
NeverHalted == phase # "halted"

\* Whatever the multiplication with the gas rate does in 64 bits, a call gets
\* no more than the transaction has gas left to pay for, and is not charged more
\* than that.
GasWithinLimit ==
  \A gasCurrent \in 0..(GasWidth - 1) :
    LET gas == OriginalGas(gasCurrent)
    IN  OverflowSeen(gasCurrent) \/
          /\ gas <= gasCurrent * gasRate
          /\ \A fee \in 0..gas : GasCharge(fee) <= gasCurrent
=============================================================================
