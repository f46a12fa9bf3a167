--------------------------- MODULE AccountsProofs ---------------------------
(***************************************************************************)
(* Proofs about Accounts, for any addresses, amounts and gas limits.  The  *)
(* inductive invariant has two layers.  VestingInv is about each account   *)
(* on its own: its type, its lock and its delegations.  MoneyInv, given    *)
(* VestingInv, is about the sums: the coins of all accounts against the    *)
(* supply.                                                                 *)
(***************************************************************************)
EXTENDS Accounts, DecimalProofs, TLAPS

-----------------------------------------------------------------------------
(* Accounts and the two transfers.                                         *)

GoodAccounts(accs) == IsStore(accs, Addresses, Account) /\ IsFiniteSet(DOMAIN accs)

\* Only coins differ, and accounts that are new are base accounts.
CoinMove(old, new) ==
  /\ GoodAccounts(new)
  /\ DOMAIN old \subseteq DOMAIN new
  /\ \A a \in DOMAIN old : new[a] = [old[a] EXCEPT !.coins = new[a].coins]
  /\ \A a \in DOMAIN new \ DOMAIN old : new[a] = BaseAccount(new[a].coins)

\* The coins at an address, with or without an account.
CoinsAt(accs, a) == IF a \in DOMAIN accs THEN accs[a].coins ELSE 0

\* There are coins or none at every address.
LEMMA CoinsAtType ==
  ASSUME NEW accs, GoodAccounts(accs), NEW a
  PROVE  CoinsAt(accs, a) \in Nat
  BY DEF CoinsAt, GoodAccounts, IsStore, Account

\* SubtractCoins takes the coins from one account.
LEMMA SubtractMove ==
  ASSUME NEW accs, GoodAccounts(accs), NEW a \in DOMAIN accs, NEW n \in Nat,
         n <= accs[a].coins
  PROVE  /\ CoinMove(accs, SubtractCoins(accs, a, n))
         /\ DOMAIN SubtractCoins(accs, a, n) = DOMAIN accs
         /\ SubtractCoins(accs, a, n)[a].coins = accs[a].coins - n
         /\ \A b \in DOMAIN accs \ {a} : SubtractCoins(accs, a, n)[b] = accs[b]
  <1> DEFINE new == SubtractCoins(accs, a, n)
  <1>1. \A b \in DOMAIN accs : accs[b] \in Account
    BY DEF GoodAccounts, IsStore
  <1>2. accs[a].coins - n \in Nat
    BY <1>1 DEF Account
  <1>3. new = [accs EXCEPT ![a] = [accs[a] EXCEPT !.coins = accs[a].coins - n]]
    BY DEF SubtractCoins
  <1>4. [accs[a] EXCEPT !.coins = accs[a].coins - n] \in Account
    BY <1>1, <1>2 DEF Account
  <1>5. /\ DOMAIN new = DOMAIN accs
        /\ new[a] = [accs[a] EXCEPT !.coins = accs[a].coins - n]
        /\ \A b \in DOMAIN accs \ {a} : new[b] = accs[b]
    BY <1>3
  <1>6. new[a].coins = accs[a].coins - n
    BY <1>1, <1>5 DEF Account
  <1>7. new \in [DOMAIN new -> Account]
    BY <1>1, <1>3, <1>4 DEF GoodAccounts, IsStore
  <1> HIDE DEF new
  <1>8. \A b \in DOMAIN accs : new[b] = [accs[b] EXCEPT !.coins = new[b].coins]
    BY <1>1, <1>5, <1>6 DEF Account
  <1>9. CoinMove(accs, new)
    BY <1>5, <1>7, <1>8 DEF CoinMove, GoodAccounts, IsStore
  <1>10. QED
    BY <1>5, <1>6, <1>9 DEF new

\* AddCoins gives the coins to one account, which may be new.
LEMMA AddMove ==
  ASSUME NEW accs, GoodAccounts(accs), NEW a \in Addresses, NEW n \in Nat
  PROVE  /\ CoinMove(accs, AddCoins(accs, a, n))
         /\ DOMAIN AddCoins(accs, a, n) = DOMAIN accs \cup {a}
         /\ CoinsAt(AddCoins(accs, a, n), a) = CoinsAt(accs, a) + n
         /\ \A b \in DOMAIN accs \ {a} : AddCoins(accs, a, n)[b] = accs[b]
  <1> DEFINE new == AddCoins(accs, a, n)
  <1>1. \A b \in DOMAIN accs : accs[b] \in Account
    BY DEF GoodAccounts, IsStore
  <1>2. CASE a \in DOMAIN accs
    <2>1. new = [accs EXCEPT ![a] = [accs[a] EXCEPT !.coins = accs[a].coins + n]]
      BY <1>2 DEF AddCoins
    <2>2. accs[a].coins + n \in Nat
      BY <1>1, <1>2 DEF Account
    <2>3. [accs[a] EXCEPT !.coins = accs[a].coins + n] \in Account
      BY <1>1, <1>2, <2>2 DEF Account
    <2>4. /\ DOMAIN new = DOMAIN accs /\ DOMAIN accs \cup {a} = DOMAIN accs
          /\ new[a] = [accs[a] EXCEPT !.coins = accs[a].coins + n]
          /\ \A b \in DOMAIN accs \ {a} : new[b] = accs[b]
      BY <1>2, <2>1
    <2>5. new[a].coins = accs[a].coins + n
      BY <1>1, <1>2, <2>4 DEF Account
    <2>6. new \in [DOMAIN new -> Account]
      BY <1>1, <2>1, <2>3 DEF GoodAccounts, IsStore
    <2> HIDE DEF new
    <2>7. \A b \in DOMAIN accs : new[b] = [accs[b] EXCEPT !.coins = new[b].coins]
      BY <1>1, <2>4, <2>5 DEF Account
    <2>8. CoinMove(accs, new)
      BY <2>4, <2>6, <2>7 DEF CoinMove, GoodAccounts, IsStore
    <2>9. QED
      BY <1>2, <2>4, <2>5, <2>8 DEF new, CoinsAt
  <1>3. CASE a \notin DOMAIN accs
    <2>1. new = StoreSet(accs, a, BaseAccount(n))
      BY <1>3 DEF AddCoins
    <2>2. BaseAccount(n) \in Account /\ BaseAccount(n).coins = n
      BY DEF BaseAccount, Account
    <2>3. /\ DOMAIN new = DOMAIN accs \cup {a}
          /\ new[a] = BaseAccount(n)
          /\ \A b \in DOMAIN accs : new[b] = accs[b]
      BY <1>3, <2>1 DEF StoreSet
    <2>4. IsStore(new, Addresses, Account)
      BY <2>1, <2>2, StoreType, Zenon DEF GoodAccounts
    <2>5. IsFiniteSet(DOMAIN new)
      BY <2>3, FS_AddElement DEF GoodAccounts
    <2> HIDE DEF new
    <2>6. \A b \in DOMAIN accs : new[b] = [accs[b] EXCEPT !.coins = new[b].coins]
      BY <1>1, <2>3 DEF Account
    <2>7. CoinMove(accs, new)
      BY <2>2, <2>3, <2>4, <2>5, <2>6 DEF CoinMove, GoodAccounts
    <2>8. QED
      BY <1>3, <2>2, <2>3, <2>7 DEF new, CoinsAt
  <1>4. QED
    BY <1>2, <1>3

\* Moves one after the other are a move.
LEMMA MoveMove ==
  ASSUME NEW x, NEW y, NEW z, GoodAccounts(x), CoinMove(x, y), CoinMove(y, z)
  PROVE  CoinMove(x, z)
  <1>1. \A a \in DOMAIN x : x[a] \in Account
    BY DEF GoodAccounts, IsStore
  <1>2. \A a \in DOMAIN z : z[a] \in Account
    BY DEF GoodAccounts, IsStore, CoinMove
  <1>3. ASSUME NEW a \in DOMAIN x PROVE z[a] = [x[a] EXCEPT !.coins = z[a].coins]
    <2>1. /\ y[a] = [x[a] EXCEPT !.coins = y[a].coins]
          /\ z[a] = [y[a] EXCEPT !.coins = z[a].coins]
      BY DEF CoinMove
    <2>2. QED
      BY <1>1, <2>1 DEF Account
  <1>4. ASSUME NEW a \in DOMAIN z \ DOMAIN x PROVE z[a] = BaseAccount(z[a].coins)
    <2>1. CASE a \in DOMAIN y
      <3>1. /\ y[a] = BaseAccount(y[a].coins)
            /\ z[a] = [y[a] EXCEPT !.coins = z[a].coins]
        BY <2>1 DEF CoinMove
      <3>2. QED
        BY <3>1 DEF BaseAccount
    <2>2. CASE a \notin DOMAIN y
      BY <2>2 DEF CoinMove
    <2>3. QED
      BY <2>1, <2>2
  <1>5. QED
    BY <1>3, <1>4 DEF CoinMove

-----------------------------------------------------------------------------
(* Each account on its own.                                                *)

\* The books of one account: no more is unlocked than was locked, no more is
\* delegated out of the vesting coins than are vesting, and a base account
\* has no such books.
SoundBooks(acc) ==
  /\ acc.vestedCoins <= acc.originalVesting
  /\ acc.delegatedVesting <= GetVestingCoins(acc)
  /\ ~ acc.vesting => acc.originalVesting = 0 /\ acc.delegatedFree = 0

VestingInv ==
  /\ GoodAccounts(accounts) /\ ZeroAddress \in DOMAIN accounts
  /\ code \subseteq DOMAIN accounts \cap ContractAddresses
  /\ staked \in [Addresses -> Nat] /\ gasRate \in GasRates
  /\ phase \in {"begin", "deliver", "halted"}
  /\ calledWithValue \subseteq Addresses /\ created \in Int
  /\ \A a \in Addresses \ DOMAIN accounts : staked[a] = 0
  /\ \A a \in DOMAIN accounts : SoundBooks(accounts[a])
  /\ \A a \in code \cup {ZeroAddress} : ~ accounts[a].vesting
  /\ DelegationsBooked
  /\ LockedCoinsStay

\* A base account is sound and locks nothing.
LEMMA BaseAccountBooks ==
  ASSUME NEW n \in Nat
  PROVE  /\ BaseAccount(n) \in Account /\ SoundBooks(BaseAccount(n))
         /\ ~ BaseAccount(n).vesting
         /\ Locked(BaseAccount(n)) = 0 /\ BaseAccount(n).coins = n
  BY DEF BaseAccount, Account, SoundBooks, GetVestingCoins, Locked

\* The lock of an account does not depend on its coins.
LEMMA BooksWithoutCoins ==
  ASSUME NEW acc \in Account, NEW n
  PROVE  LET new == [acc EXCEPT !.coins = n]
         IN  /\ SoundBooks(new) <=> SoundBooks(acc)
             /\ Locked(new) = Locked(acc) /\ GetVestingCoins(new) = GetVestingCoins(acc)
             /\ new.vesting = acc.vesting /\ new.delegatedVesting = acc.delegatedVesting
             /\ new.delegatedFree = acc.delegatedFree
             /\ new.coins = n
  BY DEF Account, SoundBooks, GetVestingCoins, Locked

\* A move of coins keeps the invariant when it leaves the locked coins of
\* those who have not called with value, and code only at base accounts.
LEMMA MoveKeepsVesting ==
  ASSUME VestingInv, CoinMove(accounts, accounts'), UNCHANGED <<staked, gasRate>>,
         phase' \in {"begin", "deliver", "halted"},
         code' \subseteq code \cup (DOMAIN accounts' \ DOMAIN accounts),
         code' \subseteq ContractAddresses,
         calledWithValue \subseteq calledWithValue', calledWithValue' \subseteq Addresses,
         created' \in Int,
         \A a \in DOMAIN accounts \ calledWithValue' :
           accounts'[a].coins >= Locked(accounts[a])
  PROVE  VestingInv'
  <1>1. /\ GoodAccounts(accounts) /\ GoodAccounts(accounts')
        /\ DOMAIN accounts \subseteq DOMAIN accounts' /\ DOMAIN accounts' \subseteq Addresses
        /\ code \subseteq DOMAIN accounts /\ ZeroAddress \in DOMAIN accounts
        /\ \A a \in DOMAIN accounts : accounts[a] \in Account
        /\ \A a \in DOMAIN accounts' : accounts'[a] \in Account
    BY DEF VestingInv, CoinMove, GoodAccounts, IsStore
  <1>2. ASSUME NEW a \in DOMAIN accounts
        PROVE  /\ SoundBooks(accounts'[a]) /\ Locked(accounts'[a]) = Locked(accounts[a])
               /\ GetVestingCoins(accounts'[a]) = GetVestingCoins(accounts[a])
               /\ accounts'[a].vesting = accounts[a].vesting
               /\ accounts'[a].delegatedVesting = accounts[a].delegatedVesting
               /\ accounts'[a].delegatedFree = accounts[a].delegatedFree
    <2>1. accounts[a] \in Account /\ SoundBooks(accounts[a])
      BY <1>1 DEF VestingInv
    <2>2. accounts'[a] = [accounts[a] EXCEPT !.coins = accounts'[a].coins]
      BY DEF CoinMove
    <2>3. PICK n : n = accounts'[a].coins
      OBVIOUS
    <2>4. accounts'[a] = [accounts[a] EXCEPT !.coins = n]
      BY <2>2, <2>3
    <2>5. QED
      BY <2>1, <2>4, BooksWithoutCoins
  <1>3. ASSUME NEW a \in DOMAIN accounts' \ DOMAIN accounts
        PROVE  /\ SoundBooks(accounts'[a]) /\ Locked(accounts'[a]) = 0
               /\ ~ accounts'[a].vesting /\ accounts'[a].coins \in Nat
    <2>1. accounts'[a].coins \in Nat
      BY <1>1 DEF Account
    <2>2. accounts'[a] = BaseAccount(accounts'[a].coins)
      BY DEF CoinMove
    <2>3. QED
      BY <2>1, <2>2, BaseAccountBooks
  <1>4. \A a \in DOMAIN accounts' : SoundBooks(accounts'[a])
    BY <1>2, <1>3
  <1>5. \A a \in code' \cup {ZeroAddress} : a \in DOMAIN accounts' /\ ~ accounts'[a].vesting
    BY <1>1, <1>2, <1>3 DEF VestingInv
  <1>6. DelegationsBooked'
    BY <1>1, <1>2, <1>3 DEF VestingInv, DelegationsBooked
  <1>7. LockedCoinsStay'
    BY <1>1, <1>2, <1>3 DEF LockedCoinsStay
  <1>8. \A a \in Addresses \ DOMAIN accounts' : staked'[a] = 0
    BY <1>1 DEF VestingInv
  <1>9. QED
    BY <1>1, <1>4, <1>5, <1>6, <1>7, <1>8 DEF VestingInv

\* A change of one account, which stays or becomes a vesting account, keeps
\* the invariant when its own books are in order.
LEMMA ChangeKeepsVesting ==
  ASSUME VestingInv, NEW a \in Addresses, NEW acc \in Account,
         accounts' = StoreSet(accounts, a, acc),
         staked' \in [Addresses -> Nat],
         \A b \in Addresses \ {a} : staked'[b] = staked[b],
         SoundBooks(acc),
         acc.vesting => acc.delegatedVesting + acc.delegatedFree >= staked'[a],
         a \in code \cup {ZeroAddress} => ~ acc.vesting,
         a \notin calledWithValue => acc.coins >= Locked(acc),
         UNCHANGED <<code, gasRate, phase, calledWithValue, created>>
  PROVE  VestingInv'
  <1>1. /\ DOMAIN accounts' = DOMAIN accounts \cup {a} /\ accounts'[a] = acc
        /\ \A b \in DOMAIN accounts \ {a} : accounts'[b] = accounts[b]
    BY DEF StoreSet
  <1>2. GoodAccounts(accounts')
    <2>1. IsStore(accounts', Addresses, Account)
      BY StoreType, Zenon DEF VestingInv, GoodAccounts
    <2>2. IsFiniteSet(DOMAIN accounts')
      BY <1>1, FS_AddElement DEF VestingInv, GoodAccounts
    <2>3. QED
      BY <2>1, <2>2 DEF GoodAccounts
  <1>3. DelegationsBooked'
    BY <1>1 DEF VestingInv, DelegationsBooked, SoundBooks, GoodAccounts, IsStore
  <1>4. LockedCoinsStay'
    BY <1>1 DEF VestingInv, LockedCoinsStay
  <1>5. QED
    BY <1>1, <1>2, <1>3, <1>4 DEF VestingInv

\* The books of an account that is unlocked: the delegated coins that are no
\* longer vesting become free, and no locked coin is lost.
LEMMA UnlockedBooks ==
  ASSUME NEW acc \in Account, SoundBooks(acc), acc.vesting, NEW n \in Nat,
         acc.vestedCoins + n <= acc.originalVesting
  PROVE  LET new == Unlocked(acc, n)
         IN  /\ new \in Account /\ SoundBooks(new) /\ new.vesting /\ new.coins = acc.coins
             /\ new.delegatedVesting + new.delegatedFree
                  = acc.delegatedVesting + acc.delegatedFree
             /\ acc.coins >= Locked(acc) => new.coins >= Locked(new)
  <1> DEFINE x == MaxInt(acc.delegatedVesting - (GetVestingCoins(acc) - n), 0)
             new == Unlocked(acc, n)
  <1>1. x \in Nat /\ x <= acc.delegatedVesting
        /\ acc.delegatedVesting - x <= acc.originalVesting - (acc.vestedCoins + n)
        /\ (x > 0 => acc.delegatedVesting - x = acc.originalVesting - (acc.vestedCoins + n))
    BY DEF MaxInt, GetVestingCoins, Account, SoundBooks
  <1>2. new = [acc EXCEPT !.vestedCoins = @ + n, !.delegatedVesting = @ - x,
                          !.delegatedFree = @ + x]
    BY DEF Unlocked
  <1> HIDE DEF x, new
  <1>3. /\ new.vesting /\ new.coins = acc.coins /\ new.unlocker = acc.unlocker
        /\ new.originalVesting = acc.originalVesting
        /\ new.vestedCoins = acc.vestedCoins + n
        /\ new.delegatedVesting = acc.delegatedVesting - x
        /\ new.delegatedFree = acc.delegatedFree + x
    BY <1>2 DEF Account
  <1>4. new \in Account
    <2>1. \A u, v, w \in Nat : [acc EXCEPT !.vestedCoins = u, !.delegatedVesting = v,
                                          !.delegatedFree = w] \in Account
      BY DEF Account
    <2>2. /\ acc.vestedCoins + n \in Nat /\ acc.delegatedVesting - x \in Nat
          /\ acc.delegatedFree + x \in Nat
      BY <1>1 DEF Account
    <2>3. QED
      BY <1>2, <2>1, <2>2
  <1>5. /\ SoundBooks(new)
        /\ new.delegatedVesting + new.delegatedFree
             = acc.delegatedVesting + acc.delegatedFree
        /\ acc.coins >= Locked(acc) => new.coins >= Locked(new)
    BY <1>1, <1>3 DEF SoundBooks, GetVestingCoins, Locked, Account
  <1>6. QED
    BY <1>3, <1>4, <1>5 DEF new

\* The books of an account that delegates: all of it is booked, vesting coins
\* first, and the coins that stay cover what is locked and not delegated.
LEMMA DelegationBooks ==
  ASSUME NEW acc \in Account, SoundBooks(acc), NEW n \in Nat, acc.coins >= n
  PROVE  LET new == TrackDelegation(acc, n)
         IN  /\ new \in Account /\ SoundBooks(new) /\ new.vesting = acc.vesting
             /\ new.coins = acc.coins - n
             /\ acc.vesting => new.delegatedVesting + new.delegatedFree
                                 = acc.delegatedVesting + acc.delegatedFree + n
             /\ acc.coins >= Locked(acc) => new.coins >= Locked(new)
  <1> DEFINE new == TrackDelegation(acc, n)
  <1>1. CASE ~ acc.vesting
    <2>1. new = [acc EXCEPT !.coins = @ - n]
      BY <1>1 DEF TrackDelegation
    <2> HIDE DEF new
    <2>2. /\ new.vesting = acc.vesting /\ new.coins = acc.coins - n
          /\ new.originalVesting = acc.originalVesting
          /\ new.vestedCoins = acc.vestedCoins
          /\ new.delegatedVesting = acc.delegatedVesting
          /\ new.delegatedFree = acc.delegatedFree
      BY <2>1 DEF Account
    <2>3. new \in Account
      BY <2>1 DEF Account
    <2>4. SoundBooks(new) /\ new.coins >= Locked(new)
      BY <1>1, <2>2 DEF SoundBooks, GetVestingCoins, Locked, Account
    <2>5. QED
      BY <1>1, <2>2, <2>3, <2>4 DEF new
  <1>2. CASE acc.vesting
    <2> DEFINE x == MinInt(MaxInt(GetVestingCoins(acc) - acc.delegatedVesting, 0), n)
    <2>1. /\ x \in Nat /\ x <= n
          /\ acc.delegatedVesting + x <= GetVestingCoins(acc)
          /\ (x < n => acc.delegatedVesting + x = GetVestingCoins(acc))
      BY DEF MinInt, MaxInt, GetVestingCoins, Account, SoundBooks
    <2>2. new = [acc EXCEPT !.coins = @ - n, !.delegatedVesting = @ + x,
                            !.delegatedFree = @ + (n - x)]
      BY <1>2 DEF TrackDelegation
    <2> HIDE DEF new, x
    <2>3. /\ new.vesting = acc.vesting /\ new.coins = acc.coins - n
          /\ new.originalVesting = acc.originalVesting
          /\ new.vestedCoins = acc.vestedCoins
          /\ new.delegatedVesting = acc.delegatedVesting + x
          /\ new.delegatedFree = acc.delegatedFree + (n - x)
      BY <2>2 DEF Account
    <2>4. new \in Account
      <3>1. \A u, v, w \in Nat : [acc EXCEPT !.coins = u, !.delegatedVesting = v,
                                            !.delegatedFree = w] \in Account
        BY DEF Account
      <3>2. /\ acc.coins - n \in Nat /\ acc.delegatedVesting + x \in Nat
            /\ acc.delegatedFree + (n - x) \in Nat
        BY <2>1 DEF Account
      <3>3. QED
        BY <2>2, <3>1, <3>2
    <2>5. /\ SoundBooks(new)
          /\ new.delegatedVesting + new.delegatedFree
               = acc.delegatedVesting + acc.delegatedFree + n
          /\ acc.coins >= Locked(acc) => new.coins >= Locked(new)
      BY <1>2, <2>1, <2>3 DEF SoundBooks, GetVestingCoins, Locked, Account
    <2>6. QED
      BY <2>3, <2>4, <2>5 DEF new
  <1>3. QED
    BY <1>1, <1>2

\* The books of an account that undelegates what it has booked: free coins
\* first, and the vesting ones that come back are locked again.
LEMMA UndelegationBooks ==
  ASSUME NEW acc \in Account, SoundBooks(acc), NEW n \in Nat,
         acc.vesting => acc.delegatedVesting + acc.delegatedFree >= n
  PROVE  LET new == TrackUndelegation(acc, n)
         IN  /\ new \in Account /\ SoundBooks(new) /\ new.vesting = acc.vesting
             /\ new.coins = acc.coins + n
             /\ acc.vesting => new.delegatedVesting + new.delegatedFree
                                 = acc.delegatedVesting + acc.delegatedFree - n
             /\ acc.coins >= Locked(acc) => new.coins >= Locked(new)
  <1> DEFINE new == TrackUndelegation(acc, n)
  <1>1. CASE ~ acc.vesting
    <2>1. new = [acc EXCEPT !.coins = @ + n]
      BY <1>1 DEF TrackUndelegation
    <2> HIDE DEF new
    <2>2. /\ new.vesting = acc.vesting /\ new.coins = acc.coins + n
          /\ new.originalVesting = acc.originalVesting
          /\ new.vestedCoins = acc.vestedCoins
          /\ new.delegatedVesting = acc.delegatedVesting
          /\ new.delegatedFree = acc.delegatedFree
      BY <2>1 DEF Account
    <2>3. new \in Account
      BY <2>1 DEF Account
    <2>4. SoundBooks(new) /\ new.coins >= Locked(new)
      BY <1>1, <2>2 DEF SoundBooks, GetVestingCoins, Locked, Account
    <2>5. QED
      BY <1>1, <2>2, <2>3, <2>4 DEF new
  <1>2. CASE acc.vesting
    <2> DEFINE x == MinInt(acc.delegatedFree, n)
               y == MinInt(acc.delegatedVesting, n - x)
    <2>1. /\ x \in Nat /\ y \in Nat /\ x + y = n
          /\ x <= acc.delegatedFree /\ y <= acc.delegatedVesting
      BY <1>2 DEF MinInt, Account
    <2>2. new = [acc EXCEPT !.coins = @ + n, !.delegatedFree = @ - x,
                            !.delegatedVesting = @ - y]
      BY <1>2 DEF TrackUndelegation
    <2> HIDE DEF new, x, y
    <2>3. /\ new.vesting = acc.vesting /\ new.coins = acc.coins + n
          /\ new.originalVesting = acc.originalVesting
          /\ new.vestedCoins = acc.vestedCoins
          /\ new.delegatedVesting = acc.delegatedVesting - y
          /\ new.delegatedFree = acc.delegatedFree - x
      BY <2>2 DEF Account
    <2>4. new \in Account
      <3>1. \A u, v, w \in Nat : [acc EXCEPT !.coins = u, !.delegatedFree = v,
                                            !.delegatedVesting = w] \in Account
        BY DEF Account
      <3>2. /\ acc.coins + n \in Nat /\ acc.delegatedFree - x \in Nat
            /\ acc.delegatedVesting - y \in Nat
        BY <2>1 DEF Account
      <3>3. QED
        BY <2>2, <3>1, <3>2
    <2>5. /\ SoundBooks(new)
          /\ new.delegatedVesting + new.delegatedFree
               = acc.delegatedVesting + acc.delegatedFree - n
          /\ acc.coins >= Locked(acc) => new.coins >= Locked(new)
      BY <1>2, <2>1, <2>3 DEF SoundBooks, GetVestingCoins, Locked, Account
    <2>6. QED
      BY <2>3, <2>4, <2>5 DEF new
  <1>3. QED
    BY <1>1, <1>2

\* The receiver of a locked send locks as much as it gets.
LEMMA ReceivedBooks ==
  ASSUME NEW acc \in Account, SoundBooks(acc), acc.vesting, NEW n \in Nat
  PROVE  LET new == [acc EXCEPT !.vesting = TRUE, !.originalVesting = @ + n,
                                !.coins = @ + n]
         IN  /\ new \in Account /\ SoundBooks(new) /\ new.vesting
             /\ new.coins = acc.coins + n /\ Locked(new) = Locked(acc) + n
             /\ new.delegatedVesting = acc.delegatedVesting
             /\ new.delegatedFree = acc.delegatedFree
  <1> DEFINE new == [acc EXCEPT !.vesting = TRUE, !.originalVesting = @ + n, !.coins = @ + n]
  <1>1. new \in Account
    <2>1. \A u, v \in Nat : [acc EXCEPT !.vesting = TRUE, !.originalVesting = u,
                                        !.coins = v] \in Account
      BY DEF Account
    <2>2. acc.originalVesting + n \in Nat /\ acc.coins + n \in Nat
      BY DEF Account
    <2>3. QED
      BY <2>1, <2>2
  <1>2. /\ new.vesting /\ new.coins = acc.coins + n
        /\ new.originalVesting = acc.originalVesting + n
        /\ new.vestedCoins = acc.vestedCoins
        /\ new.delegatedVesting = acc.delegatedVesting
        /\ new.delegatedFree = acc.delegatedFree
    BY DEF Account
  <1> HIDE DEF new
  <1>3. SoundBooks(new) /\ Locked(new) = Locked(acc) + n
    BY <1>2 DEF SoundBooks, GetVestingCoins, Locked, Account
  <1>4. QED
    BY <1>1, <1>2, <1>3 DEF new

\* A new vesting account has empty books.
LEMMA NewVestingBooks ==
  ASSUME NEW u \in Addresses \cup {NoAddress}
  PROVE  LET acc == NewManualVestingAccount(u)
         IN  /\ acc \in Account /\ SoundBooks(acc) /\ acc.vesting /\ acc.coins = 0
             /\ acc.delegatedVesting = 0 /\ acc.delegatedFree = 0 /\ Locked(acc) = 0
  <1> DEFINE acc == NewManualVestingAccount(u)
  <1>0. PICK base : base = BaseAccount(0)
    OBVIOUS
  <1>1. /\ base \in Account /\ base.coins = 0 /\ base.originalVesting = 0
        /\ base.vestedCoins = 0 /\ base.delegatedVesting = 0 /\ base.delegatedFree = 0
    BY <1>0 DEF BaseAccount, Account
  <1>2. acc \in Account /\ acc.vesting /\ acc.coins = 0 /\ acc.originalVesting = 0
        /\ acc.vestedCoins = 0 /\ acc.delegatedVesting = 0 /\ acc.delegatedFree = 0
    <2>1. acc = [base EXCEPT !.vesting = TRUE, !.unlocker = u]
      BY <1>0 DEF NewManualVestingAccount
    <2> HIDE DEF acc
    <2>2. QED
      BY <1>1, <2>1 DEF Account
  <1> HIDE DEF acc
  <1>3. SoundBooks(acc) /\ Locked(acc) = 0
    BY <1>2 DEF SoundBooks, GetVestingCoins, Locked
  <1>4. QED
    BY <1>2, <1>3 DEF acc

\* What an account may spend is there, and is not locked.
LEMMA Spendable ==
  ASSUME NEW acc \in Account, NEW n \in Nat, SpendableCoins(acc) >= n
  PROVE  n <= acc.coins /\ acc.coins - n >= Locked(acc)
  BY DEF SpendableCoins, MinInt, Account, Locked, GetVestingCoins

\* An update of an account that is there, as a write to the store.
LEMMA UpdateIsSet ==
  ASSUME VestingInv, NEW a \in DOMAIN accounts, NEW acc
  PROVE  [accounts EXCEPT ![a] = acc] = StoreSet(accounts, a, acc)
  <1>1. accounts \in [DOMAIN accounts -> Account] /\ DOMAIN accounts \cup {a} = DOMAIN accounts
    BY DEF VestingInv, GoodAccounts, IsStore
  <1>2. QED
    BY <1>1 DEF StoreSet

\* Unlock keeps the invariant.
LEMMA UnlockVesting ==
  ASSUME VestingInv, NEW i, NEW a, NEW n \in Nat, Unlock(i, a, n)
  PROVE  VestingInv'
  <1>1. a \in DOMAIN accounts /\ a \in Addresses /\ accounts[a] \in Account
        /\ accounts[a].vesting /\ SoundBooks(accounts[a])
    BY DEF Unlock, VestingInv, GoodAccounts, IsStore
  <1>2. PICK acc : acc = Unlocked(accounts[a], n)
    OBVIOUS
  <1>3. /\ acc \in Account /\ SoundBooks(acc) /\ acc.vesting
        /\ acc.delegatedVesting + acc.delegatedFree
             = accounts[a].delegatedVesting + accounts[a].delegatedFree
        /\ accounts[a].coins >= Locked(accounts[a]) => acc.coins >= Locked(acc)
    BY <1>1, <1>2, UnlockedBooks DEF Unlock
  <1>4. /\ accounts' = StoreSet(accounts, a, acc)
        /\ UNCHANGED <<gasRate, code, staked, phase, calledWithValue, created>>
    BY <1>1, <1>2, UpdateIsSet DEF Unlock
  <1>5. /\ a \notin code \cup {ZeroAddress}
        /\ acc.delegatedVesting + acc.delegatedFree >= staked[a]
        /\ a \notin calledWithValue => acc.coins >= Locked(acc)
    BY <1>1, <1>3 DEF VestingInv, DelegationsBooked, LockedCoinsStay
  <1>6. staked' \in [Addresses -> Nat]
    BY <1>4 DEF VestingInv
  <1>7. QED
    BY <1>1, <1>3, <1>4, <1>5, <1>6, ChangeKeepsVesting

\* Delegate, Undelegate and Slash keep the invariant.
LEMMA StakingVesting ==
  ASSUME VestingInv, NEW a \in Users, NEW n \in Nat \ {0},
         Delegate(a, n) \/ Undelegate(a, n) \/ Slash(a, n)
  PROVE  VestingInv'
  <1>0. a \in Addresses /\ staked \in [Addresses -> Nat]
    BY DEF VestingInv, Addresses
  <1>1. a \in DOMAIN accounts
    BY <1>0 DEF Delegate, Undelegate, Slash, VestingInv
  <1>2. accounts[a] \in Account /\ SoundBooks(accounts[a])
        /\ (a \in code \cup {ZeroAddress} => ~ accounts[a].vesting)
        /\ (a \notin calledWithValue => accounts[a].coins >= Locked(accounts[a]))
        /\ (accounts[a].vesting =>
              accounts[a].delegatedVesting + accounts[a].delegatedFree >= staked[a])
    BY <1>1 DEF VestingInv, GoodAccounts, IsStore, DelegationsBooked, LockedCoinsStay
  <1>3. CASE Delegate(a, n)
    <2>1. PICK acc : acc = TrackDelegation(accounts[a], n)
      OBVIOUS
    <2>2. /\ acc \in Account /\ SoundBooks(acc) /\ acc.vesting = accounts[a].vesting
          /\ accounts[a].vesting => acc.delegatedVesting + acc.delegatedFree
                = accounts[a].delegatedVesting + accounts[a].delegatedFree + n
          /\ accounts[a].coins >= Locked(accounts[a]) => acc.coins >= Locked(acc)
      BY <1>2, <1>3, <2>1, DelegationBooks DEF Delegate
    <2>3. /\ accounts' = StoreSet(accounts, a, acc)
          /\ staked' = [staked EXCEPT ![a] = @ + n]
          /\ UNCHANGED <<gasRate, code, phase, calledWithValue, created>>
      BY <1>1, <1>3, <2>1, UpdateIsSet DEF Delegate
    <2>4. /\ staked' \in [Addresses -> Nat] /\ staked'[a] = staked[a] + n
          /\ \A b \in Addresses \ {a} : staked'[b] = staked[b]
      BY <1>0, <2>3
    <2>5. acc.vesting => acc.delegatedVesting + acc.delegatedFree >= staked'[a]
      BY <1>0, <1>2, <2>2, <2>4 DEF Account
    <2>6. QED
      BY <1>0, <1>2, <2>2, <2>3, <2>4, <2>5, ChangeKeepsVesting
  <1>4. CASE Undelegate(a, n)
    <2>1. PICK acc : acc = TrackUndelegation(accounts[a], n)
      OBVIOUS
    <2>0. staked[a] >= n /\ staked[a] \in Nat
      BY <1>0, <1>4 DEF Undelegate
    <2>00. accounts[a].vesting =>
             accounts[a].delegatedVesting + accounts[a].delegatedFree >= n
      BY <1>2, <2>0 DEF Account
    <2>2. /\ acc \in Account /\ SoundBooks(acc) /\ acc.vesting = accounts[a].vesting
          /\ accounts[a].vesting => acc.delegatedVesting + acc.delegatedFree
                = accounts[a].delegatedVesting + accounts[a].delegatedFree - n
          /\ accounts[a].coins >= Locked(accounts[a]) => acc.coins >= Locked(acc)
      BY <1>2, <2>00, <2>1, UndelegationBooks
    <2>3. /\ accounts' = StoreSet(accounts, a, acc)
          /\ staked' = [staked EXCEPT ![a] = @ - n]
          /\ UNCHANGED <<gasRate, code, phase, calledWithValue, created>>
      BY <1>1, <1>4, <2>1, UpdateIsSet DEF Undelegate
    <2>4. /\ staked' \in [Addresses -> Nat] /\ staked'[a] = staked[a] - n
          /\ \A b \in Addresses \ {a} : staked'[b] = staked[b]
      BY <1>0, <2>0, <2>3
    <2>5. acc.vesting => acc.delegatedVesting + acc.delegatedFree >= staked'[a]
      BY <1>0, <1>2, <2>0, <2>2, <2>4 DEF Account
    <2>6. QED
      BY <1>0, <1>2, <2>2, <2>3, <2>4, <2>5, ChangeKeepsVesting
  <1>5. CASE Slash(a, n)
    <2>1. /\ staked[a] >= n /\ staked[a] \in Nat
          /\ staked' = [staked EXCEPT ![a] = @ - n]
          /\ UNCHANGED <<accounts, gasRate, code, phase, calledWithValue, created>>
      BY <1>0, <1>5 DEF Slash
    <2>2. /\ staked' \in [Addresses -> Nat] /\ staked'[a] = staked[a] - n
          /\ \A b \in Addresses \ {a} : staked'[b] = staked[b]
      BY <1>0, <2>1
    <2>3. accounts' = StoreSet(accounts, a, accounts[a])
      <3>1. accounts = [accounts EXCEPT ![a] = accounts[a]]
        BY <1>1 DEF VestingInv, GoodAccounts, IsStore
      <3>2. QED
        BY <1>1, <2>1, <3>1, UpdateIsSet
    <2>4. accounts[a].vesting =>
             accounts[a].delegatedVesting + accounts[a].delegatedFree >= staked'[a]
      BY <1>2, <2>1, <2>2 DEF Account
    <2>5. QED
      BY <1>0, <1>2, <2>1, <2>2, <2>3, <2>4, ChangeKeepsVesting
  <1>6. QED
    BY <1>3, <1>4, <1>5

\* LockedSend in two writes: the receiver, then the sender as it is read again.
\* They may be the same account.
LEMMA LockedSendFields ==
  ASSUME VestingInv, NEW from \in Users, NEW to \in Addresses,
         NEW u \in Addresses \cup {NoAddress}, NEW n \in Nat, LockedSend(from, to, u, n)
  PROVE  \E acc, received \in Account :
           /\ SoundBooks(acc) /\ acc.vesting
           /\ acc.coins = (IF to \in DOMAIN accounts THEN accounts[to].coins ELSE 0)
           /\ to \in DOMAIN accounts => acc = accounts[to]
           /\ to \notin DOMAIN accounts => Locked(acc) = 0
           /\ SoundBooks(received) /\ received.vesting
           /\ received.coins = acc.coins + n /\ Locked(received) = Locked(acc) + n
           /\ received.delegatedVesting = acc.delegatedVesting
           /\ received.delegatedFree = acc.delegatedFree
           /\ GoodAccounts(StoreSet(accounts, to, received))
           /\ accounts' = SubtractCoins(StoreSet(accounts, to, received), from, n)
           /\ from \in DOMAIN accounts /\ n <= accounts[from].coins
           /\ accounts[from].coins - n >= Locked(accounts[from])
  <1>1. /\ from \in DOMAIN accounts /\ accounts[from] \in Account
        /\ \A a \in DOMAIN accounts : accounts[a] \in Account /\ SoundBooks(accounts[a])
        /\ GoodAccounts(accounts)
    BY DEF LockedSend, VestingInv, GoodAccounts, IsStore
  <1>2. /\ n <= accounts[from].coins
        /\ accounts[from].coins - n >= Locked(accounts[from])
    BY <1>1, Spendable DEF LockedSend, CanSubtract
  <1>3. PICK acc : acc = LockedSendReceiver(to, u)
    OBVIOUS
  <1>4. /\ acc \in Account /\ SoundBooks(acc) /\ acc.vesting
        /\ acc.coins = (IF to \in DOMAIN accounts THEN accounts[to].coins ELSE 0)
        /\ to \in DOMAIN accounts => acc = accounts[to]
        /\ to \notin DOMAIN accounts => Locked(acc) = 0
    <2>1. CASE to \in DOMAIN accounts
      BY <1>1, <1>3, <2>1 DEF LockedSendReceiver, LockedSend, MayReceiveLocked
    <2>2. CASE to \notin DOMAIN accounts
      BY <1>3, <2>2, NewVestingBooks DEF LockedSendReceiver
    <2>3. QED
      BY <2>1, <2>2
  <1>5. PICK received : received = [acc EXCEPT !.vesting = TRUE, !.originalVesting = @ + n,
                                               !.coins = @ + n]
    OBVIOUS
  <1>6. /\ received \in Account /\ SoundBooks(received) /\ received.vesting
        /\ received.coins = acc.coins + n /\ Locked(received) = Locked(acc) + n
        /\ received.delegatedVesting = acc.delegatedVesting
        /\ received.delegatedFree = acc.delegatedFree
    BY <1>4, <1>5, ReceivedBooks
  <1>7. accounts' = SubtractCoins(StoreSet(accounts, to, received), from, n)
    BY <1>3, <1>5 DEF LockedSend, LockedSendAccounts
  <1>8. GoodAccounts(StoreSet(accounts, to, received))
    <2>1. IsStore(StoreSet(accounts, to, received), Addresses, Account)
      BY <1>1, <1>6, StoreType, Zenon DEF GoodAccounts
    <2>2. IsFiniteSet(DOMAIN StoreSet(accounts, to, received))
      BY <1>1, StoreFinite, Zenon DEF GoodAccounts
    <2>3. QED
      BY <2>1, <2>2 DEF GoodAccounts
  <1>9. QED
    BY <1>1, <1>2, <1>4, <1>6, <1>7, <1>8

\* LockedSend keeps the invariant.
LEMMA LockedSendVesting ==
  ASSUME VestingInv, NEW from \in Users, NEW to \in Addresses,
         NEW u \in Addresses \cup {NoAddress}, NEW n \in Nat, LockedSend(from, to, u, n)
  PROVE  VestingInv'
  <1>0. PICK acc, received \in Account :
           /\ SoundBooks(acc) /\ acc.vesting
           /\ acc.coins = (IF to \in DOMAIN accounts THEN accounts[to].coins ELSE 0)
           /\ to \in DOMAIN accounts => acc = accounts[to]
           /\ to \notin DOMAIN accounts => Locked(acc) = 0
           /\ SoundBooks(received) /\ received.vesting
           /\ received.coins = acc.coins + n /\ Locked(received) = Locked(acc) + n
           /\ received.delegatedVesting = acc.delegatedVesting
           /\ received.delegatedFree = acc.delegatedFree
           /\ GoodAccounts(StoreSet(accounts, to, received))
           /\ accounts' = SubtractCoins(StoreSet(accounts, to, received), from, n)
           /\ from \in DOMAIN accounts /\ n <= accounts[from].coins
           /\ accounts[from].coins - n >= Locked(accounts[from])
    BY LockedSendFields
  <1>1. PICK mid : mid = StoreSet(accounts, to, received)
    OBVIOUS
  <1>2. /\ DOMAIN mid = DOMAIN accounts \cup {to} /\ mid[to] = received
        /\ \A b \in DOMAIN accounts \ {to} : mid[b] = accounts[b]
    BY <1>1 DEF StoreSet
  <1>3. /\ \A a \in DOMAIN accounts : accounts[a] \in Account /\ SoundBooks(accounts[a])
        /\ Locked(acc) \in Int /\ Locked(accounts[from]) \in Int
    BY <1>0 DEF VestingInv, GoodAccounts, IsStore, Locked, GetVestingCoins, Account
  <1>4. from \in DOMAIN mid /\ n <= mid[from].coins
    BY <1>0, <1>2, <1>3 DEF Account
  <1>5. /\ CoinMove(mid, accounts') /\ DOMAIN accounts' = DOMAIN mid
        /\ accounts'[from].coins = mid[from].coins - n
        /\ \A b \in DOMAIN mid \ {from} : accounts'[b] = mid[b]
    BY <1>0, <1>1, <1>4, SubtractMove
  <1>6. /\ GoodAccounts(accounts') /\ UNCHANGED <<gasRate, code, staked, phase,
                                                  calledWithValue, created>>
    BY <1>5 DEF CoinMove, LockedSend
  <1>7. accounts'[from] = [mid[from] EXCEPT !.coins = mid[from].coins - n]
        /\ mid[from] \in Account
    <2>1. accounts'[from] = [mid[from] EXCEPT !.coins = accounts'[from].coins]
      BY <1>4, <1>5 DEF CoinMove
    <2>2. QED
      BY <1>0, <1>2, <1>3, <1>4, <1>5, <2>1
  <1>8. ASSUME NEW b \in DOMAIN accounts'
        PROVE  /\ SoundBooks(accounts'[b])
               /\ accounts'[b].vesting = mid[b].vesting
               /\ accounts'[b].delegatedVesting = mid[b].delegatedVesting
               /\ accounts'[b].delegatedFree = mid[b].delegatedFree
               /\ Locked(accounts'[b]) = Locked(mid[b])
    <2>1. mid[b] \in Account /\ SoundBooks(mid[b])
      BY <1>0, <1>2, <1>3, <1>5
    <2>2. CASE b = from
      <3>1. PICK m : m = mid[from].coins - n
        OBVIOUS
      <3>2. accounts'[b] = [mid[b] EXCEPT !.coins = m]
        BY <1>7, <2>2, <3>1
      <3>3. QED
        BY <2>1, <3>2, BooksWithoutCoins
    <2>3. CASE b # from
      BY <1>5, <2>1, <2>3
    <2>4. QED
      BY <2>2, <2>3
  <1>9. DelegationsBooked'
    <2> SUFFICES ASSUME NEW b \in DOMAIN accounts', accounts'[b].vesting
                 PROVE  /\ accounts'[b].delegatedVesting + accounts'[b].delegatedFree
                             >= staked[b]
                        /\ accounts'[b].delegatedVesting <= GetVestingCoins(accounts'[b])
      BY <1>6 DEF DelegationsBooked
    <2>1. accounts'[b].delegatedVesting <= GetVestingCoins(accounts'[b])
      BY <1>8 DEF SoundBooks
    <2>2. mid[b].vesting /\ mid[b].delegatedVesting + mid[b].delegatedFree >= staked[b]
      <3>1. CASE b # to
        BY <1>2, <1>5, <1>8, <3>1 DEF VestingInv, DelegationsBooked
      <3>2. CASE b = to /\ to \in DOMAIN accounts
        BY <1>0, <1>2, <3>2 DEF VestingInv, DelegationsBooked
      <3>3. CASE b = to /\ to \notin DOMAIN accounts
        <4>1. staked[b] = 0
          BY <3>3 DEF VestingInv
        <4>2. QED
          BY <1>0, <1>2, <3>3, <4>1 DEF Account
      <3>4. QED
        BY <3>1, <3>2, <3>3
    <2>3. QED
      BY <1>8, <2>1, <2>2
  <1>10. LockedCoinsStay'
    <2> SUFFICES ASSUME NEW b \in DOMAIN accounts', b \notin calledWithValue
                 PROVE  accounts'[b].coins >= Locked(accounts'[b])
      BY <1>6 DEF LockedCoinsStay
    <2>1. CASE b = to /\ b = from
      BY <1>0, <1>2, <1>3, <1>5, <1>8, <2>1 DEF Account
    <2>2. CASE b # to /\ b = from
      BY <1>0, <1>2, <1>3, <1>5, <1>8, <2>2 DEF Account
    <2>3. CASE b = to /\ b # from
      <3>1. acc.coins >= Locked(acc)
        BY <1>0, <2>3 DEF VestingInv, LockedCoinsStay, Account
      <3>2. QED
        BY <1>0, <1>2, <1>3, <1>5, <1>8, <2>3, <3>1 DEF Account
    <2>4. CASE b # to /\ b # from
      BY <1>2, <1>5, <2>4 DEF VestingInv, LockedCoinsStay
    <2>5. QED
      BY <2>1, <2>2, <2>3, <2>4
  <1>11. \A b \in code \cup {ZeroAddress} : b \in DOMAIN accounts' /\ ~ accounts'[b].vesting
    <2>1. to \notin code \cup {ZeroAddress}
      <3>1. ASSUME to \in code \cup {ZeroAddress} PROVE FALSE
        BY <1>0, <3>1 DEF VestingInv
      <3>2. QED
        BY <3>1
    <2>2. QED
      BY <1>2, <1>5, <1>8, <2>1 DEF VestingInv
  <1>12. QED
    BY <1>2, <1>5, <1>6, <1>8, <1>9, <1>10, <1>11 DEF VestingInv

\* Send keeps the invariant.
LEMMA SendVesting ==
  ASSUME VestingInv, NEW from \in Users, NEW to \in Addresses, NEW n \in Nat,
         Send(from, to, n)
  PROVE  VestingInv'
  <1>1. /\ from \in DOMAIN accounts /\ GoodAccounts(accounts)
        /\ \A a \in DOMAIN accounts : accounts[a] \in Account
    BY DEF Send, CanSubtract, VestingInv, GoodAccounts, IsStore
  <1>2. n <= accounts[from].coins /\ accounts[from].coins - n >= Locked(accounts[from])
    BY <1>1, Spendable DEF Send, CanSubtract
  <1>3. PICK mid : mid = SubtractCoins(accounts, from, n)
    OBVIOUS
  <1>4. /\ CoinMove(accounts, mid) /\ DOMAIN mid = DOMAIN accounts
        /\ mid[from].coins = accounts[from].coins - n
        /\ \A b \in DOMAIN accounts \ {from} : mid[b] = accounts[b]
    BY <1>1, <1>2, <1>3, SubtractMove
  <1>5. accounts' = AddCoins(mid, to, n)
    BY <1>3 DEF Send
  <1>6. /\ CoinMove(mid, accounts')
        /\ to \in DOMAIN mid => accounts'[to].coins = mid[to].coins + n
        /\ \A b \in DOMAIN mid \ {to} : accounts'[b] = mid[b]
    <2>1. GoodAccounts(mid)
      BY <1>4 DEF CoinMove
    <2>2. /\ CoinMove(mid, AddCoins(mid, to, n))
          /\ CoinsAt(AddCoins(mid, to, n), to) = CoinsAt(mid, to) + n
          /\ \A b \in DOMAIN mid \ {to} : AddCoins(mid, to, n)[b] = mid[b]
      BY <2>1, AddMove
    <2>3. CoinMove(mid, accounts') /\ CoinsAt(accounts', to) = CoinsAt(mid, to) + n
      BY <1>5, <2>2, Zenon
    <2>4. \A b \in DOMAIN mid \ {to} : accounts'[b] = mid[b]
      BY <1>5, <2>2, Zenon
    <2>5. QED
      BY <2>3, <2>4 DEF CoinsAt, CoinMove
  <1>7. CoinMove(accounts, accounts')
    BY <1>1, <1>4, <1>6, MoveMove
  <1>8. \A a \in DOMAIN accounts : mid[a].coins \in Nat
    BY <1>4 DEF CoinMove, GoodAccounts, IsStore, Account
  <1>9. \A a \in DOMAIN accounts : accounts'[a].coins >= mid[a].coins
    BY <1>4, <1>6, <1>8
  <1>10. \A a \in DOMAIN accounts : Locked(accounts[a]) \in Int /\ accounts'[a].coins \in Nat
    <2>1. \A a \in DOMAIN accounts : accounts'[a] \in Account
      BY <1>7 DEF CoinMove, GoodAccounts, IsStore
    <2>2. QED
      BY <1>1, <2>1 DEF Locked, GetVestingCoins, Account
  <1>11. \A a \in DOMAIN accounts \ calledWithValue :
          accounts'[a].coins >= Locked(accounts[a])
    <2>1. \A a \in DOMAIN accounts \ calledWithValue : mid[a].coins >= Locked(accounts[a])
      BY <1>2, <1>4 DEF VestingInv, LockedCoinsStay
    <2>2. QED
      BY <1>8, <1>9, <1>10, <2>1
  <1>12. UNCHANGED <<gasRate, code, staked, phase, calledWithValue, created>>
    BY DEF Send
  <1>13. /\ code \subseteq ContractAddresses /\ calledWithValue \subseteq Addresses
         /\ created \in Int /\ phase \in {"begin", "deliver", "halted"}
    BY DEF VestingInv
  <1>14. QED
    BY <1>7, <1>11, <1>12, <1>13, MoveKeepsVesting

\* A base account locks nothing.
LEMMA BaseUnlocked ==
  ASSUME NEW acc \in Account, SoundBooks(acc), ~ acc.vesting
  PROVE  Locked(acc) = 0
  BY DEF SoundBooks, GetVestingCoins, Locked, Account

\* No account has less than before, but for one that pays the amount n.
OnlyPays(accs, from, n, new) ==
  \A b \in DOMAIN accs :
    /\ accs[b].coins \in Nat /\ new[b].coins \in Nat
    /\ b # from \/ n = 0 => new[b].coins >= accs[b].coins

\* The account from pays n, and the account to, which may be new, gets m.
IsPayment(accs, from, n, to, m, new) ==
  /\ GoodAccounts(accs) /\ from \in DOMAIN accs /\ to \in Addresses
  /\ n \in Nat /\ m \in Nat /\ n <= accs[from].coins
  /\ new = AddCoins(SubtractCoins(accs, from, n), to, m)

\* A payment takes coins from one account only, and none when it is of zero.
LEMMA TransferMove ==
  ASSUME NEW accs, NEW from, NEW n, NEW to, NEW m, NEW new,
         IsPayment(accs, from, n, to, m, new)
  PROVE  /\ CoinMove(accs, new)
         /\ to \in DOMAIN new
         /\ OnlyPays(accs, from, n, new)
  <1>0. /\ GoodAccounts(accs) /\ from \in DOMAIN accs /\ to \in Addresses
        /\ n \in Nat /\ m \in Nat /\ n <= accs[from].coins
        /\ new = AddCoins(SubtractCoins(accs, from, n), to, m)
    BY DEF IsPayment
  <1>1. PICK mid : mid = SubtractCoins(accs, from, n)
    OBVIOUS
  <1>2. /\ CoinMove(accs, mid) /\ DOMAIN mid = DOMAIN accs
        /\ mid[from].coins = accs[from].coins - n
        /\ \A b \in DOMAIN accs \ {from} : mid[b] = accs[b]
    BY <1>0, <1>1, SubtractMove
  <1>3. GoodAccounts(mid)
    BY <1>2 DEF CoinMove
  <1>4. new = AddCoins(mid, to, m)
    BY <1>0, <1>1
  <1>5. /\ CoinMove(mid, AddCoins(mid, to, m))
        /\ DOMAIN AddCoins(mid, to, m) = DOMAIN mid \cup {to}
        /\ CoinsAt(AddCoins(mid, to, m), to) = CoinsAt(mid, to) + m
        /\ \A b \in DOMAIN mid \ {to} : AddCoins(mid, to, m)[b] = mid[b]
    BY <1>0, <1>3, AddMove
  <1>6. CoinMove(mid, new) /\ CoinsAt(new, to) = CoinsAt(mid, to) + m
    BY <1>4, <1>5, Zenon
  <1>7. DOMAIN new = DOMAIN mid \cup {to}
    BY <1>4, <1>5, Zenon
  <1>8. \A b \in DOMAIN mid \ {to} : new[b] = mid[b]
    BY <1>4, <1>5, Zenon
  <1>9. to \in DOMAIN mid => new[to].coins = mid[to].coins + m
    BY <1>6, <1>7 DEF CoinsAt
  <1>10. CoinMove(accs, new)
    BY <1>0, <1>2, <1>6, MoveMove
  <1>11. \A b \in DOMAIN accs : accs[b].coins \in Nat /\ mid[b].coins \in Nat
                                /\ new[b].coins \in Nat
    BY <1>0, <1>2, <1>7, <1>10 DEF GoodAccounts, IsStore, Account, CoinMove
  <1>12. ASSUME NEW b \in DOMAIN accs, b # from \/ n = 0
         PROVE  new[b].coins >= accs[b].coins
    <2>1. mid[b].coins = accs[b].coins
      BY <1>0, <1>2, <1>11, <1>12
    <2>2. new[b].coins >= mid[b].coins
      BY <1>0, <1>2, <1>8, <1>9, <1>11
    <2>3. QED
      BY <2>1, <2>2
  <1>13. QED
    BY <1>2, <1>7, <1>10, <1>11, <1>12 DEF OnlyPays

\* Call keeps the invariant: only a contract, which locks nothing, pays
\* without a record.
LEMMA CallVesting ==
  ASSUME VestingInv, NEW caller \in Users, NEW callee \in Addresses, NEW to \in Addresses,
         NEW value \in Nat, NEW n \in Nat, Call(caller, callee, value, to, n)
  PROVE  VestingInv'
  <1>1. /\ caller \in DOMAIN accounts /\ callee \in DOMAIN accounts /\ GoodAccounts(accounts)
        /\ \A a \in DOMAIN accounts : accounts[a] \in Account /\ Locked(accounts[a]) \in Int
    BY DEF Call, VestingInv, GoodAccounts, IsStore, Locked, GetVestingCoins, Account
  <1>2. value <= accounts[caller].coins
    BY <1>1 DEF Call, Balance, Account
  <1>3. PICK paid : paid = AddCoins(SubtractCoins(accounts, caller, value), callee, value)
    OBVIOUS
  <1>4. /\ CoinMove(accounts, paid) /\ callee \in DOMAIN paid
        /\ OnlyPays(accounts, caller, value, paid)
    <2>1. IsPayment(accounts, caller, value, callee, value, paid)
      BY <1>1, <1>2, <1>3 DEF IsPayment
    <2>2. QED
      BY <2>1, TransferMove
  <1>5. /\ n > 0 => callee \in code
        /\ paid[callee].coins >= n
        /\ accounts' = AddCoins(SubtractCoins(paid, callee, n), to, n)
    BY <1>3 DEF Call
  <1>6. GoodAccounts(paid) /\ callee \in DOMAIN paid
    BY <1>1, <1>4 DEF CoinMove
  <1>7. PICK new : new = accounts'
    OBVIOUS
  <1>8. /\ CoinMove(paid, new)
        /\ OnlyPays(paid, callee, n, new)
    <2>1. n <= paid[callee].coins /\ new = AddCoins(SubtractCoins(paid, callee, n), to, n)
      BY <1>5, <1>6, <1>7 DEF GoodAccounts, IsStore, Account
    <2>2. IsPayment(paid, callee, n, to, n, new)
      BY <1>6, <2>1 DEF IsPayment
    <2>3. QED
      BY <2>2, TransferMove
  <1>d. DOMAIN accounts \subseteq DOMAIN paid
    BY <1>4 DEF CoinMove
  <1>9. CoinMove(accounts, accounts')
    BY <1>1, <1>4, <1>7, <1>8, MoveMove
  <1>10. UNCHANGED <<gasRate, code, staked, phase, created>>
    BY DEF Call
  <1>11. /\ calledWithValue \subseteq calledWithValue' /\ calledWithValue' \subseteq Addresses
         /\ value > 0 => caller \in calledWithValue'
    BY DEF Call, VestingInv, Addresses
  <1>12. ASSUME NEW a \in DOMAIN accounts \ calledWithValue'
         PROVE  accounts'[a].coins >= Locked(accounts[a])
    <2>1. accounts[a].coins >= Locked(accounts[a])
      BY <1>11 DEF VestingInv, LockedCoinsStay
    <2>2. paid[a].coins >= accounts[a].coins
      BY <1>4, <1>11, <1>12 DEF OnlyPays
    <2>3. CASE a # callee \/ n = 0
      BY <1>1, <1>4, <1>7, <1>8, <1>d, <2>1, <2>2, <2>3 DEF OnlyPays
    <2>4. CASE a = callee /\ n > 0
      <3>1. Locked(accounts[a]) = 0
        BY <1>1, <1>5, <2>4, BaseUnlocked DEF VestingInv
      <3>2. QED
        BY <1>4, <1>7, <1>8, <1>d, <3>1 DEF OnlyPays
    <2>5. QED
      BY <2>3, <2>4
  <1>13. /\ code \subseteq ContractAddresses /\ created \in Int
         /\ phase \in {"begin", "deliver", "halted"}
    BY DEF VestingInv
  <1>14. QED
    BY <1>9, <1>10, <1>11, <1>12, <1>13, MoveKeepsVesting

\* SelfDestruct keeps the invariant.
LEMMA SelfDestructVesting ==
  ASSUME VestingInv, NEW caller \in Users, NEW callee \in Addresses, NEW to \in Addresses,
         NEW value \in Nat, SelfDestruct(caller, callee, value, to)
  PROVE  VestingInv'
  <1>1. /\ caller \in DOMAIN accounts /\ callee \in DOMAIN accounts /\ GoodAccounts(accounts)
        /\ \A a \in DOMAIN accounts : accounts[a] \in Account /\ Locked(accounts[a]) \in Int
    BY DEF SelfDestruct, VestingInv, GoodAccounts, IsStore, Locked, GetVestingCoins, Account
  <1>2. value <= accounts[caller].coins /\ accounts[callee].coins \in Nat
        /\ accounts[caller].coins \in Nat
    BY <1>1 DEF SelfDestruct, Balance, Account
  <1>3. PICK new : new = accounts'
    OBVIOUS
  <1>4. CoinMove(accounts, new) /\ OnlyPays(accounts, caller, value, new)
    <2>1. CASE to = callee
      <3>1. new = SubtractCoins(accounts, caller, value)
        BY <1>3, <2>1 DEF SelfDestruct
      <3>2. /\ CoinMove(accounts, new) /\ DOMAIN new = DOMAIN accounts
            /\ new[caller].coins = accounts[caller].coins - value
            /\ \A b \in DOMAIN accounts \ {caller} : new[b] = accounts[b]
        BY <1>1, <1>2, <3>1, SubtractMove
      <3>3. QED
        BY <1>1, <1>2, <3>2 DEF OnlyPays, Account
    <2>2. CASE to # callee
      <3>1. PICK m \in Nat : m = Balance(callee) + value
        BY <1>1, <1>2 DEF Balance
      <3>2. new = AddCoins(SubtractCoins(accounts, caller, value), to, m)
        BY <1>3, <2>2, <3>1 DEF SelfDestruct
      <3>3. IsPayment(accounts, caller, value, to, m, new)
        BY <1>1, <1>2, <3>2 DEF IsPayment
      <3>4. QED
        BY <3>3, TransferMove
    <2>3. QED
      BY <2>1, <2>2
  <1>5. UNCHANGED <<gasRate, staked, phase>> /\ code' \subseteq code
    BY DEF SelfDestruct
  <1>6. /\ calledWithValue \subseteq calledWithValue' /\ calledWithValue' \subseteq Addresses
        /\ value > 0 => caller \in calledWithValue'
    BY DEF SelfDestruct, VestingInv, Addresses
  <1>7. \A a \in DOMAIN accounts \ calledWithValue' :
          accounts'[a].coins >= Locked(accounts[a])
    BY <1>1, <1>3, <1>4, <1>6 DEF OnlyPays, VestingInv, LockedCoinsStay
  <1>8. /\ code \subseteq ContractAddresses /\ phase \in {"begin", "deliver", "halted"}
    BY DEF VestingInv
  <1>9. created' \in Int
    BY <1>1, <1>2 DEF SelfDestruct, Balance, VestingInv
  <1>10. QED
    BY <1>3, <1>4, <1>5, <1>6, <1>7, <1>8, <1>9, MoveKeepsVesting

\* Deploy keeps the invariant: the contract is a new base account.
LEMMA DeployVesting ==
  ASSUME VestingInv, NEW caller \in Users, NEW contract \in ContractAddresses,
         NEW value \in Nat, Deploy(caller, contract, value)
  PROVE  VestingInv'
  <1>1. /\ caller \in DOMAIN accounts /\ GoodAccounts(accounts) /\ contract \in Addresses
        /\ \A a \in DOMAIN accounts : accounts[a] \in Account /\ Locked(accounts[a]) \in Int
    BY DEF Deploy, VestingInv, GoodAccounts, IsStore, Locked, GetVestingCoins, Account,
           Addresses
  <1>2. value <= accounts[caller].coins
    BY <1>1 DEF Deploy, Balance, Account
  <1>3. PICK new : new = accounts'
    OBVIOUS
  <1>4. new = AddCoins(SubtractCoins(accounts, caller, value), contract, value)
    BY <1>3 DEF Deploy
  <1>5. /\ CoinMove(accounts, new) /\ contract \in DOMAIN new
        /\ OnlyPays(accounts, caller, value, new)
    <2>1. IsPayment(accounts, caller, value, contract, value, new)
      BY <1>1, <1>2, <1>4 DEF IsPayment
    <2>2. QED
      BY <2>1, TransferMove
  <1>6. UNCHANGED <<gasRate, staked, phase, created>> /\ code' = code \cup {contract}
        /\ contract \notin DOMAIN accounts
    BY DEF Deploy
  <1>7. /\ calledWithValue \subseteq calledWithValue' /\ calledWithValue' \subseteq Addresses
        /\ value > 0 => caller \in calledWithValue'
    BY DEF Deploy, VestingInv, Addresses
  <1>8. \A a \in DOMAIN accounts \ calledWithValue' :
          accounts'[a].coins >= Locked(accounts[a])
    BY <1>1, <1>3, <1>5, <1>7 DEF OnlyPays, VestingInv, LockedCoinsStay
  <1>9. /\ code \subseteq ContractAddresses /\ phase \in {"begin", "deliver", "halted"}
        /\ created \in Int
    BY DEF VestingInv
  <1>10. /\ code' \subseteq code \cup (DOMAIN accounts' \ DOMAIN accounts)
         /\ code' \subseteq ContractAddresses
    BY <1>3, <1>5, <1>6, <1>9
  <1>11. QED
    BY <1>3, <1>5, <1>6, <1>7, <1>8, <1>9, <1>10, MoveKeepsVesting

\* The EndBlocker keeps the invariant: the zero address locks nothing.
LEMMA EndBlockVesting ==
  ASSUME VestingInv, EndBlock
  PROVE  VestingInv'
  <1>1. /\ ZeroAddress \in DOMAIN accounts /\ GoodAccounts(accounts)
        /\ \A a \in DOMAIN accounts : accounts[a] \in Account /\ accounts[a].coins \in Nat
        /\ Locked(accounts[ZeroAddress]) = 0
    <2>1. /\ ZeroAddress \in DOMAIN accounts /\ GoodAccounts(accounts)
          /\ \A a \in DOMAIN accounts : accounts[a] \in Account /\ accounts[a].coins \in Nat
      BY DEF VestingInv, GoodAccounts, IsStore, Account
    <2>2. QED
      BY <2>1, BaseUnlocked DEF VestingInv
  <1>2. UNCHANGED <<gasRate, code, staked, calledWithValue, created>>
    BY DEF EndBlock
  <1>3. CASE RecycleFails
    BY <1>2, <1>3 DEF EndBlock, VestingInv, DelegationsBooked, LockedCoinsStay
  <1>4. CASE ~ RecycleFails
    <2>1. PICK n \in Nat : n = accounts[ZeroAddress].coins
      BY <1>1
    <2>2. PICK new : new = accounts'
      OBVIOUS
    <2>3. new = SubtractCoins(accounts, ZeroAddress, n) /\ phase' = "begin"
      BY <1>4, <2>1, <2>2 DEF EndBlock
    <2>4. /\ CoinMove(accounts, new)
          /\ new[ZeroAddress].coins = accounts[ZeroAddress].coins - n
          /\ \A b \in DOMAIN accounts \ {ZeroAddress} : new[b] = accounts[b]
      BY <1>1, <2>1, <2>3, SubtractMove
    <2>5. \A a \in DOMAIN accounts \ calledWithValue' : new[a].coins >= Locked(accounts[a])
      BY <1>1, <1>2, <2>1, <2>4 DEF VestingInv, LockedCoinsStay
    <2>6. /\ code \subseteq ContractAddresses /\ created \in Int
          /\ calledWithValue \subseteq Addresses
      BY DEF VestingInv
    <2>7. QED
      BY <1>2, <2>2, <2>3, <2>4, <2>5, <2>6, MoveKeepsVesting
  <1>5. QED
    BY <1>3, <1>4

\* Genesis has base accounts only.
LEMMA InitVesting ==
  ASSUME Init
  PROVE  VestingInv
  <1>1. /\ DOMAIN GenesisCoins \subseteq Users /\ IsFiniteSet(DOMAIN GenesisCoins)
        /\ \A a \in DOMAIN GenesisCoins : GenesisCoins[a] \in Nat
    BY AddressesAssumption DEF IsStore
  <1>2. PICK genesis : genesis = [a \in DOMAIN GenesisCoins |-> BaseAccount(GenesisCoins[a])]
    OBVIOUS
  <1>3. DOMAIN genesis = DOMAIN GenesisCoins
    BY <1>2
  <1>4. \A a \in DOMAIN genesis : genesis[a] = BaseAccount(GenesisCoins[a])
    BY <1>2
  <1>5. accounts = StoreSet(genesis, ZeroAddress, BaseAccount(0))
    BY <1>2 DEF Init
  <1>6. /\ DOMAIN accounts = DOMAIN GenesisCoins \cup {ZeroAddress}
        /\ accounts[ZeroAddress] = BaseAccount(0)
        /\ \A a \in DOMAIN accounts \ {ZeroAddress} : accounts[a] = BaseAccount(GenesisCoins[a])
    BY <1>3, <1>4, <1>5 DEF StoreSet
  <1>7. ASSUME NEW a \in DOMAIN accounts
        PROVE  /\ accounts[a] \in Account /\ SoundBooks(accounts[a]) /\ ~ accounts[a].vesting
               /\ Locked(accounts[a]) = 0 /\ accounts[a].coins \in Nat
    <2>1. CASE a = ZeroAddress
      BY <1>6, <2>1, BaseAccountBooks
    <2>2. CASE a # ZeroAddress
      BY <1>1, <1>6, <2>2, BaseAccountBooks
    <2>3. QED
      BY <2>1, <2>2
  <1>8. GoodAccounts(accounts)
    <2>1. IsFiniteSet(DOMAIN accounts)
      BY <1>1, <1>6, FS_AddElement
    <2>2. accounts \in [DOMAIN accounts -> Account]
      BY <1>5, <1>7 DEF StoreSet
    <2>3. QED
      BY <1>1, <1>6, <2>1, <2>2 DEF GoodAccounts, IsStore, Addresses
  <1>9. DelegationsBooked /\ LockedCoinsStay
    BY <1>7 DEF DelegationsBooked, LockedCoinsStay
  <1>10. QED
    BY <1>6, <1>7, <1>8, <1>9 DEF Init, VestingInv

\* Every message keeps the invariant.
LEMMA MsgVesting ==
  ASSUME VestingInv, NEW a \in Users, Msg(a)
  PROVE  VestingInv'
  <1>1. /\ SendInputs \subseteq Nat /\ LockInputs \subseteq Nat /\ UnlockInputs \subseteq Nat
        /\ StakeInputs \subseteq Nat \ {0} /\ CallInputs \subseteq Nat
    BY AmountsAssumption
  <1>2. CASE \E b \in Addresses, amount \in UnlockInputs : Unlock(a, b, amount)
    BY <1>1, <1>2, UnlockVesting
  <1>3. CASE \E b \in Addresses, c \in Addresses \cup {NoAddress}, amount \in LockInputs :
               LockedSend(a, b, c, amount)
    BY <1>1, <1>3, LockedSendVesting
  <1>4. CASE \E b \in Addresses, amount \in SendInputs : Send(a, b, amount)
    BY <1>1, <1>4, SendVesting
  <1>5. CASE \E amount \in StakeInputs :
               Delegate(a, amount) \/ Undelegate(a, amount) \/ Slash(a, amount)
    BY <1>1, <1>5, StakingVesting
  <1>6. CASE \E b, c \in Addresses, value \in CallInputs, amount \in CallInputs :
               Call(a, b, value, c, amount)
    BY <1>1, <1>6, CallVesting
  <1>7. CASE \E b, c \in Addresses, value \in CallInputs : SelfDestruct(a, b, value, c)
    BY <1>1, <1>7, SelfDestructVesting
  <1>8. CASE \E b \in ContractAddresses, value \in CallInputs : Deploy(a, b, value)
    BY <1>1, <1>8, DeployVesting
  <1>9. QED
    BY <1>2, <1>3, <1>4, <1>5, <1>6, <1>7, <1>8 DEF Msg

\* Every step keeps the invariant.
LEMMA NextVesting ==
  ASSUME VestingInv, [Next]_vars
  PROVE  VestingInv'
  <1>1. CASE \E a \in Users : Msg(a)
    BY <1>1, MsgVesting
  <1>2. CASE EndBlock
    BY <1>2, EndBlockVesting
  <1>3. CASE \E minted \in MintInputs : BeginBlock(minted)
    <2>1. UNCHANGED <<gasRate, accounts, code, staked, calledWithValue, created>>
          /\ phase' \in {"begin", "deliver", "halted"}
      BY <1>3 DEF BeginBlock
    <2>2. QED
      BY <2>1 DEF VestingInv, DelegationsBooked, LockedCoinsStay
  <1>4. CASE UNCHANGED vars
    BY <1>4 DEF vars, VestingInv, DelegationsBooked, LockedCoinsStay
  <1>5. QED
    BY <1>1, <1>2, <1>3, <1>4 DEF Next, Block

\* The books of every account stay in order in every behaviour.
LEMMA AccountsVestingInv == Spec => []VestingInv
  <1>1. Init => VestingInv
    BY InitVesting
  <1>2. VestingInv /\ [Next]_vars => VestingInv'
    BY NextVesting
  <1>3. QED
    BY <1>1, <1>2, PTL DEF Spec

\* Locked coins stay: but for the calls of x/cvm, no sequence of locked sends,
\* sends, unlocks, delegations, slashes and undelegations takes an account
\* below what is locked in it and not delegated.
THEOREM AccountsLockedCoinsStay == Spec => []LockedCoinsStay
  <1>1. VestingInv => LockedCoinsStay
    BY DEF VestingInv
  <1>2. QED
    BY <1>1, AccountsVestingInv, PTL

\* What a vesting account has delegated is on its books, and never more than
\* its vesting coins as delegated out of them.
THEOREM AccountsDelegationsBooked == Spec => []DelegationsBooked
  <1>1. VestingInv => DelegationsBooked
    BY DEF VestingInv
  <1>2. QED
    BY <1>1, AccountsVestingInv, PTL

-----------------------------------------------------------------------------
(* Gas.                                                                    *)

\* A remainder is not more than the number.
LEMMA Remainder ==
  ASSUME NEW x \in Nat, NEW w \in Nat, w > 0
  PROVE  x % w \in Nat /\ x % w <= x
  <1>1. PICK q \in Nat : q = x \div w
    <2>1. x \div w \in Nat
      OBVIOUS
    <2>2. QED
      BY <2>1
  <1>2. x % w \in Nat /\ x = w * q + (x % w)
    BY <1>1
  <1>3. w * q \in Nat
    OBVIOUS
  <1>4. QED
    BY <1>2, <1>3

\* A quotient is at most n when the number is less than n + 1 times the divisor.
LEMMA QuotientBound ==
  ASSUME NEW y \in Nat, NEW r \in Nat, r > 0, NEW n \in Nat, y <= n * r + (r - 1)
  PROVE  y \div r <= n
  <1>1. PICK q \in Nat : q = y \div r
    <2>1. y \div r \in Nat
      OBVIOUS
    <2>2. QED
      BY <2>1
  <1>2. q * r <= y
    BY <1>1
  <1>3. ASSUME n + 1 <= q PROVE FALSE
    <2>1. (n + 1) * r <= q * r
      BY <1>3
    <2>2. (n + 1) * r = n * r + r
      OBVIOUS
    <2>3. PICK u \in Nat, v \in Nat : u = n * r /\ v = q * r
      OBVIOUS
    <2>4. QED
      BY <1>2, <2>1, <2>2, <2>3
  <1>4. QED
    BY <1>1, <1>3

\* What a call gets and what it is charged fit the gas that is left, for every
\* width of the machine's integers and every rate.
LEMMA GasFits ==
  ASSUME VestingInv
  PROVE  GasWithinLimit
  <1> SUFFICES ASSUME NEW g \in 0..(GasWidth - 1)
               PROVE  LET gas == OriginalGas(g)
                      IN  OverflowSeen(g) \/
                            /\ gas <= g * gasRate
                            /\ \A fee \in 0..gas : GasCharge(fee) <= g
    BY DEF GasWithinLimit
  <1>1. PICK r \in Nat : r = gasRate /\ r > 0
    BY AmountsAssumption DEF VestingInv
  <1>2. GasWidth \in Nat /\ GasWidth > 0 /\ g \in Nat /\ GasCap \in Nat
    BY AmountsAssumption
  <1>3. PICK p \in Nat : p = g * r
    BY <1>2
  <1>4. p % GasWidth \in Nat /\ p % GasWidth <= p
    BY <1>2, Remainder
  <1>5. OriginalGas(g) = MinInt(p % GasWidth, GasCap)
    BY <1>1, <1>3 DEF OriginalGas
  <1>6. OriginalGas(g) \in Nat /\ OriginalGas(g) <= p
    BY <1>2, <1>4, <1>5 DEF MinInt
  <1>7. ASSUME NEW fee \in 0..OriginalGas(g) PROVE GasCharge(fee) <= g
    <2>1. PICK x \in Nat : x = fee + r - 1 /\ x <= p + (r - 1)
      BY <1>1, <1>6
    <2>2. PICK y \in Nat : y = x % GasWidth /\ y <= x
      BY <1>2, Remainder
    <2>3. y <= g * r + (r - 1)
      BY <1>3, <2>1, <2>2
    <2>4. y \div r <= g
      BY <1>1, <1>2, <2>3, QuotientBound
    <2>5. GasCharge(fee) = y \div r
      BY <1>1, <2>1, <2>2 DEF GasCharge
    <2>6. QED
      BY <2>4, <2>5
  <1>8. QED
    BY <1>1, <1>3, <1>6, <1>7

\* A call gets no more gas than the transaction can pay for and is charged no
\* more than it has left, though the product with the rate wraps.
THEOREM AccountsGasWithinLimit == Spec => []GasWithinLimit
  BY GasFits, AccountsVestingInv, PTL

-----------------------------------------------------------------------------
(* The coins of many accounts.                                             *)

\* The coins of the accounts of accs with an address in X.
Held(accs, X) == SumOver([a \in DOMAIN accs |-> accs[a].coins], DOMAIN accs \cap X)

\* The coins in a set of accounts are a number.
LEMMA HeldType ==
  ASSUME NEW accs, GoodAccounts(accs), NEW X
  PROVE  Held(accs, X) \in Nat
  <1> DEFINE f == [a \in DOMAIN accs |-> accs[a].coins]
             S == DOMAIN accs \cap X
  <1>1. IsFiniteSet(S)
    <2>1. IsFiniteSet(DOMAIN accs) /\ S \subseteq DOMAIN accs
      BY DEF GoodAccounts
    <2> HIDE DEF S
    <2>2. QED
      BY <2>1, FS_Subset
  <1>2. \A x \in S : f[x] \in Nat
    BY DEF GoodAccounts, IsStore, Account
  <1> HIDE DEF f, S
  <1>3. SumFunctionOnSet(f, S) \in Nat
    BY <1>1, <1>2, SumNat
  <1>4. QED
    BY <1>3 DEF Held, SumOver, f, S

\* Coins differ at one address at most, which may be new.
DiffersAt(old, a, new) ==
  /\ GoodAccounts(old) /\ GoodAccounts(new)
  /\ DOMAIN new = DOMAIN old \cup {a}
  /\ \A b \in DOMAIN old \ {a} : new[b].coins = old[b].coins

\* What is held changes by the coins at that address.
LEMMA HeldChange ==
  ASSUME NEW old, NEW a, NEW new, DiffersAt(old, a, new), NEW X
  PROVE  /\ a \in X => Held(new, X) + CoinsAt(old, a) = Held(old, X) + CoinsAt(new, a)
         /\ a \notin X => Held(new, X) = Held(old, X)
  <1> DEFINE f == [b \in DOMAIN old |-> old[b].coins]
             g == [b \in DOMAIN new |-> new[b].coins]
             S == (DOMAIN old \cap X) \ {a}
  <1>0. /\ \A b \in DOMAIN old : f[b] = old[b].coins /\ f[b] \in Nat
        /\ \A b \in DOMAIN new : g[b] = new[b].coins /\ g[b] \in Nat
        /\ \A b \in S : b \in DOMAIN old /\ b \in DOMAIN new /\ f[b] = g[b]
    BY DEF DiffersAt, GoodAccounts, IsStore, Account
  <1>1. IsFiniteSet(S) /\ a \notin S
    <2>1. IsFiniteSet(DOMAIN old) /\ S \subseteq DOMAIN old /\ a \notin S
      BY DEF DiffersAt, GoodAccounts
    <2> HIDE DEF S
    <2>2. QED
      BY <2>1, FS_Subset
  <1> HIDE DEF f, g
  <1>2. /\ a \in X => DOMAIN new \cap X = S \cup {a}
        /\ a \notin X => DOMAIN new \cap X = S
        /\ a \in DOMAIN old \cap X => DOMAIN old \cap X = S \cup {a}
        /\ a \notin DOMAIN old \cap X => DOMAIN old \cap X = S
        /\ a \in DOMAIN new
    BY DEF DiffersAt
  <1> HIDE DEF S
  <1>3. SumFunctionOnSet(f, S) = SumFunctionOnSet(g, S) /\ SumFunctionOnSet(f, S) \in Nat
    <2>1. SumFunctionOnSet(f, S) = SumFunctionOnSet(g, S)
      BY <1>0, <1>1, SumEqual
    <2>2. SumFunctionOnSet(f, S) \in Nat
      BY <1>0, <1>1, SumNat
    <2>3. QED
      BY <2>1, <2>2
  <1>4. /\ Held(new, X) = SumFunctionOnSet(g, DOMAIN new \cap X)
        /\ Held(old, X) = SumFunctionOnSet(f, DOMAIN old \cap X)
    BY DEF Held, SumOver, f, g
  <1>5. CASE a \notin X
    BY <1>2, <1>3, <1>4, <1>5
  <1>6. CASE a \in X
    <2>1. Held(new, X) = g[a] + SumFunctionOnSet(g, S)
      <3>1. SumFunctionOnSet(g, S \cup {a}) = g[a] + SumFunctionOnSet(g, S)
        BY <1>0, <1>1, <1>2, SumAdd
      <3>2. QED
        BY <1>2, <1>4, <1>6, <3>1
    <2>2. CoinsAt(new, a) = g[a] /\ g[a] \in Nat
      BY <1>0, <1>2 DEF CoinsAt
    <2>3. CASE a \in DOMAIN old
      <3>1. SumFunctionOnSet(f, S \cup {a}) = f[a] + SumFunctionOnSet(f, S)
        BY <1>0, <1>1, <2>3, SumAdd
      <3>2. Held(old, X) = f[a] + SumFunctionOnSet(f, S)
        BY <1>2, <1>4, <1>6, <2>3, <3>1
      <3>3. CoinsAt(old, a) = f[a] /\ f[a] \in Nat
        BY <1>0, <2>3 DEF CoinsAt
      <3>4. QED
        BY <1>3, <1>6, <2>1, <2>2, <3>2, <3>3
    <2>4. CASE a \notin DOMAIN old
      <3>1. Held(old, X) = SumFunctionOnSet(f, S) /\ CoinsAt(old, a) = 0
        BY <1>2, <1>4, <2>4 DEF CoinsAt
      <3>2. QED
        BY <1>3, <1>6, <2>1, <2>2, <3>1
    <2>5. QED
      BY <2>3, <2>4
  <1>7. QED
    BY <1>5, <1>6

\* SubtractCoins takes from what is held.
LEMMA SubtractHeld ==
  ASSUME NEW accs, GoodAccounts(accs), NEW a \in DOMAIN accs, NEW n \in Nat,
         n <= accs[a].coins, NEW X
  PROVE  /\ a \in X => Held(SubtractCoins(accs, a, n), X) + n = Held(accs, X)
         /\ a \notin X => Held(SubtractCoins(accs, a, n), X) = Held(accs, X)
  <1>1. PICK new : new = SubtractCoins(accs, a, n)
    OBVIOUS
  <1>2. /\ CoinMove(accs, new) /\ DOMAIN new = DOMAIN accs
        /\ new[a].coins = accs[a].coins - n
        /\ \A b \in DOMAIN accs \ {a} : new[b] = accs[b]
    BY <1>1, SubtractMove
  <1>3. DiffersAt(accs, a, new)
    BY <1>2 DEF DiffersAt, CoinMove
  <1>4. /\ a \in X => Held(new, X) + CoinsAt(accs, a) = Held(accs, X) + CoinsAt(new, a)
        /\ a \notin X => Held(new, X) = Held(accs, X)
    BY <1>3, HeldChange
  <1>5. Held(new, X) \in Nat /\ Held(accs, X) \in Nat
    BY <1>3, HeldType DEF DiffersAt
  <1>6. CoinsAt(accs, a) \in Nat /\ CoinsAt(new, a) = CoinsAt(accs, a) - n
    BY <1>2 DEF CoinsAt, GoodAccounts, IsStore, Account
  <1>7. QED
    BY <1>1, <1>4, <1>5, <1>6

\* AddCoins adds to what is held.
LEMMA AddHeld ==
  ASSUME NEW accs, GoodAccounts(accs), NEW a \in Addresses, NEW n \in Nat, NEW X
  PROVE  /\ a \in X => Held(AddCoins(accs, a, n), X) = Held(accs, X) + n
         /\ a \notin X => Held(AddCoins(accs, a, n), X) = Held(accs, X)
  <1>1. /\ CoinMove(accs, AddCoins(accs, a, n))
        /\ DOMAIN AddCoins(accs, a, n) = DOMAIN accs \cup {a}
        /\ CoinsAt(AddCoins(accs, a, n), a) = CoinsAt(accs, a) + n
        /\ \A b \in DOMAIN accs \ {a} : AddCoins(accs, a, n)[b] = accs[b]
    BY AddMove
  <1>2. PICK new : new = AddCoins(accs, a, n)
    OBVIOUS
  <1>3. DiffersAt(accs, a, new)
    BY <1>1, <1>2 DEF DiffersAt, CoinMove
  <1>4. /\ a \in X => Held(new, X) + CoinsAt(accs, a) = Held(accs, X) + CoinsAt(new, a)
        /\ a \notin X => Held(new, X) = Held(accs, X)
    BY <1>3, HeldChange
  <1>5. Held(new, X) \in Nat /\ Held(accs, X) \in Nat
    BY <1>3, HeldType DEF DiffersAt
  <1>6. CoinsAt(accs, a) \in Nat /\ CoinsAt(new, a) = CoinsAt(accs, a) + n
    BY <1>1, <1>2, CoinsAtType
  <1>7. QED
    BY <1>2, <1>4, <1>5, <1>6

\* A payment of n that is received as m.  What is held in X is told apart by
\* whether the receiver is in X; the payer is, or pays nothing.
LEMMA PayHeld ==
  ASSUME NEW accs, NEW from, NEW n, NEW to, NEW m, NEW new,
         IsPayment(accs, from, n, to, m, new), NEW X, from \in X \/ n = 0
  PROVE  /\ Held(accs, X) \in Nat /\ Held(new, X) \in Nat
         /\ to \in X => Held(new, X) + n = Held(accs, X) + m
         /\ to \notin X => Held(new, X) + n = Held(accs, X)
  <1>0. /\ GoodAccounts(accs) /\ from \in DOMAIN accs /\ to \in Addresses
        /\ n \in Nat /\ m \in Nat /\ n <= accs[from].coins
        /\ new = AddCoins(SubtractCoins(accs, from, n), to, m)
    BY DEF IsPayment
  <1>1. PICK mid : mid = SubtractCoins(accs, from, n)
    OBVIOUS
  <1>2. GoodAccounts(mid)
    <2>1. CoinMove(accs, mid)
      BY <1>0, <1>1, SubtractMove
    <2>2. QED
      BY <2>1 DEF CoinMove
  <1>3. GoodAccounts(new)
    <2>1. CoinMove(accs, new)
      BY TransferMove
    <2>2. QED
      BY <2>1 DEF CoinMove
  <1>4. Held(accs, X) \in Nat /\ Held(mid, X) \in Nat /\ Held(new, X) \in Nat
    BY <1>0, <1>2, <1>3, HeldType
  <1>5. Held(mid, X) + n = Held(accs, X)
    <2>1. /\ from \in X => Held(mid, X) + n = Held(accs, X)
          /\ from \notin X => Held(mid, X) = Held(accs, X)
      BY <1>0, <1>1, SubtractHeld
    <2>2. QED
      BY <1>0, <1>4, <2>1
  <1>6. /\ to \in X => Held(new, X) = Held(mid, X) + m
        /\ to \notin X => Held(new, X) = Held(mid, X)
    <2>1. /\ to \in X => Held(AddCoins(mid, to, m), X) = Held(mid, X) + m
          /\ to \notin X => Held(AddCoins(mid, to, m), X) = Held(mid, X)
      BY <1>0, <1>2, AddHeld
    <2>2. new = AddCoins(mid, to, m)
      BY <1>0, <1>1
    <2>3. QED
      BY <2>1, <2>2, Zenon
  <1>7. QED
    BY <1>0, <1>4, <1>5, <1>6

-----------------------------------------------------------------------------
(* The coins against the supply.                                           *)

\* The addresses from which someone may still move coins.
Usable == Users \cup code \cup {ZeroAddress}

\* The bonded tokens of all accounts.
Bonded == SumOver(staked, DOMAIN accounts)

MoneyInv ==
  /\ communityPool \in Nat /\ moduleCoins \in Nat /\ supply \in Nat
  /\ GlobalStakingPool + Bonded <= moduleCoins
  /\ communityPool + moduleCoins + Held(accounts, Addresses) = supply + created
  /\ communityPool + moduleCoins + Held(accounts, Usable) <= supply

\* A sum of zeros.
LEMMA SumZeros ==
  ASSUME NEW S, IsFiniteSet(S), NEW f, \A x \in S : f[x] = 0
  PROVE  SumFunctionOnSet(f, S) = 0
  <1>1. \A x \in S : f[x] \in Nat /\ f[x] <= 0 * f[x] + 0
    OBVIOUS
  <1>2. SumFunctionOnSet(f, S) \in Nat /\ Cardinality(S) \in Nat
    BY <1>1, SumNat, FS_CardinalityType
  <1>3. SumFunctionOnSet(f, S) <= 0 * SumFunctionOnSet(f, S) + Cardinality(S) * 0
    BY <1>1, SumBounded
  <1>4. QED
    BY <1>2, <1>3

\* New accounts have no bonded tokens.
LEMMA BondedGrows ==
  ASSUME VestingInv, GoodAccounts(accounts'), DOMAIN accounts \subseteq DOMAIN accounts',
         staked' = staked
  PROVE  Bonded' = Bonded /\ Bonded \in Nat
  <1>1. PICK D : D = DOMAIN accounts'
    OBVIOUS
  <1>2. PICK C : C = DOMAIN accounts
    OBVIOUS
  <1>3. /\ IsFiniteSet(D) /\ C \subseteq D /\ IsFiniteSet(D \ C) /\ D \subseteq Addresses
    BY <1>1, <1>2, FS_Difference DEF GoodAccounts, IsStore
  <1>4. (\A x \in D : staked[x] \in Nat) /\ (\A x \in D \ C : staked[x] = 0)
    BY <1>2, <1>3 DEF VestingInv
  <1>5. /\ SumFunctionOnSet(staked, D)
             = SumFunctionOnSet(staked, D \ C) + SumFunctionOnSet(staked, C)
        /\ SumFunctionOnSet(staked, C) \in Nat
    BY <1>3, <1>4, SumDifference
  <1>6. SumFunctionOnSet(staked, D \ C) = 0
    BY <1>3, <1>4, SumZeros
  <1>7. QED
    BY <1>1, <1>2, <1>5, <1>6 DEF Bonded, SumOver

\* A message that only moves coins between accounts keeps the invariant when
\* it creates what it records as created, and nothing that is usable.
LEMMA MoveKeepsMoney ==
  ASSUME VestingInv, VestingInv', MoneyInv,
         DOMAIN accounts \subseteq DOMAIN accounts',
         UNCHANGED <<staked, communityPool, moduleCoins, supply>>,
         Held(accounts', Addresses) + created = Held(accounts, Addresses) + created',
         Held(accounts', Usable') <= Held(accounts, Usable)
  PROVE  MoneyInv'
  <1>1. GoodAccounts(accounts) /\ GoodAccounts(accounts')
    BY DEF VestingInv
  <1>2. Bonded' = Bonded /\ Bonded \in Nat
    BY <1>1, BondedGrows
  <1>3. Addresses' = Addresses
    BY DEF Addresses
  <1>4. /\ Held(accounts, Addresses) \in Nat /\ Held(accounts', Addresses) \in Nat
        /\ Held(accounts, Usable) \in Nat /\ Held(accounts', Usable') \in Nat
    <2>1. /\ \A X : Held(accounts, X) \in Nat
          /\ \A X : Held(accounts', X) \in Nat
      BY <1>1, HeldType
    <2>2. QED
      BY <2>1
  <1>5. created \in Int /\ created' \in Int
    BY DEF VestingInv
  <1>6. /\ communityPool \in Nat /\ moduleCoins \in Nat /\ supply \in Nat
        /\ GlobalStakingPool + Bonded <= moduleCoins
        /\ communityPool + moduleCoins + Held(accounts, Addresses) = supply + created
        /\ communityPool + moduleCoins + Held(accounts, Usable) <= supply
    BY DEF MoneyInv
  <1>7. /\ communityPool + moduleCoins + Held(accounts', Addresses) = supply + created'
        /\ communityPool + moduleCoins + Held(accounts', Usable') <= supply
    BY <1>4, <1>5, <1>6
  <1>8. QED
    BY <1>2, <1>6, <1>7 DEF MoneyInv

\* Unlock moves no coins.
LEMMA UnlockMoney ==
  ASSUME VestingInv, VestingInv', MoneyInv, NEW i, NEW a, NEW n \in Nat, Unlock(i, a, n)
  PROVE  MoneyInv'
  <1>1. a \in DOMAIN accounts /\ accounts[a] \in Account /\ accounts[a].coins \in Nat
    BY DEF Unlock, VestingInv, GoodAccounts, IsStore, Account
  <1>2. /\ accounts' = [accounts EXCEPT ![a] = Unlocked(accounts[a], n)]
        /\ UNCHANGED <<code, staked, communityPool, moduleCoins, supply, created>>
    BY DEF Unlock
  <1>3. Unlocked(accounts[a], n).coins = accounts[a].coins
    BY <1>1 DEF Unlocked, Account
  <1>4. /\ DiffersAt(accounts, a, accounts') /\ CoinsAt(accounts, a) = CoinsAt(accounts', a)
        /\ DOMAIN accounts = DOMAIN accounts' /\ CoinsAt(accounts, a) \in Nat
    BY <1>1, <1>2, <1>3 DEF DiffersAt, CoinsAt, VestingInv
  <1>5. \A X : Held(accounts', X) = Held(accounts, X)
    <2> TAKE X
    <2>1. PICK new : new = accounts'
      OBVIOUS
    <2>2. Held(accounts, X) \in Nat /\ Held(new, X) \in Nat
      BY <1>4, <2>1, HeldType DEF DiffersAt
    <2>3. /\ a \in X => Held(new, X) + CoinsAt(accounts, a)
                          = Held(accounts, X) + CoinsAt(new, a)
          /\ a \notin X => Held(new, X) = Held(accounts, X)
      BY <1>4, <2>1, HeldChange
    <2>4. QED
      BY <1>4, <2>1, <2>2, <2>3
  <1>6. Usable' = Usable /\ Held(accounts, Usable) \in Nat
        /\ Held(accounts, Addresses) \in Nat /\ created \in Int
    BY <1>2, HeldType DEF Usable, VestingInv
  <1>7. Held(accounts', Usable') = Held(accounts, Usable)
        /\ Held(accounts', Addresses) = Held(accounts, Addresses)
    BY <1>5, <1>6
  <1>8. QED
    BY <1>2, <1>4, <1>6, <1>7, MoveKeepsMoney

\* A locked send moves coins between two accounts, or leaves an account that
\* sends to itself what it has.
LEMMA LockedSendMoney ==
  ASSUME VestingInv, VestingInv', MoneyInv, NEW from \in Users, NEW to \in Addresses,
         NEW u \in Addresses \cup {NoAddress}, NEW n \in Nat, LockedSend(from, to, u, n)
  PROVE  MoneyInv'
  <1>0. PICK received \in Account :
           /\ received.coins = CoinsAt(accounts, to) + n
           /\ GoodAccounts(StoreSet(accounts, to, received))
           /\ accounts' = SubtractCoins(StoreSet(accounts, to, received), from, n)
           /\ from \in DOMAIN accounts /\ n <= accounts[from].coins
    BY LockedSendFields DEF CoinsAt
  <1>1. PICK mid : mid = StoreSet(accounts, to, received)
    OBVIOUS
  <1>2. /\ DOMAIN mid = DOMAIN accounts \cup {to} /\ mid[to] = received
        /\ \A b \in DOMAIN accounts \ {to} : mid[b] = accounts[b]
    BY <1>1 DEF StoreSet
  <1>3. GoodAccounts(accounts) /\ GoodAccounts(mid)
    BY <1>0, <1>1 DEF VestingInv
  <1>4. DiffersAt(accounts, to, mid)
    BY <1>2, <1>3 DEF DiffersAt
  <1>5. CoinsAt(accounts, to) \in Nat /\ CoinsAt(mid, to) = CoinsAt(accounts, to) + n
    BY <1>0, <1>2, <1>3, CoinsAtType DEF CoinsAt
  <1>6. from \in DOMAIN mid /\ n <= mid[from].coins
    <2>1. CASE from = to
      BY <1>0, <1>2, <1>5, <2>1
    <2>2. CASE from # to
      BY <1>0, <1>2, <2>2
    <2>3. QED
      BY <2>1, <2>2
  <1>7. PICK new : new = accounts'
    OBVIOUS
  <1>8. new = SubtractCoins(mid, from, n)
    BY <1>0, <1>1, <1>7
  <1>9. CoinMove(mid, new) /\ DOMAIN new = DOMAIN mid
    BY <1>3, <1>6, <1>8, SubtractMove
  <1>10. ASSUME NEW X, Users \subseteq X
         PROVE  /\ Held(new, X) \in Nat /\ Held(accounts, X) \in Nat
                /\ to \in X => Held(new, X) = Held(accounts, X)
                /\ Held(new, X) <= Held(accounts, X)
    <2>1. Held(accounts, X) \in Nat /\ Held(mid, X) \in Nat /\ Held(new, X) \in Nat
      BY <1>3, <1>9, HeldType DEF CoinMove
    <2>2. /\ to \in X => Held(mid, X) + CoinsAt(accounts, to)
                           = Held(accounts, X) + CoinsAt(mid, to)
          /\ to \notin X => Held(mid, X) = Held(accounts, X)
      BY <1>4, HeldChange
    <2>3. from \in X
      BY <1>10
    <2>4. Held(new, X) + n = Held(mid, X)
      BY <1>3, <1>6, <1>8, <2>3, SubtractHeld
    <2>5. QED
      BY <1>5, <2>1, <2>2, <2>4
  <1>11. UNCHANGED <<code, staked, communityPool, moduleCoins, supply, created>>
    BY DEF LockedSend
  <1>12. Usable' = Usable /\ Users \subseteq Usable /\ Users \subseteq Addresses
         /\ created \in Int
    BY <1>11 DEF Usable, Addresses, VestingInv
  <1>13. /\ Held(new, Addresses) = Held(accounts, Addresses)
         /\ Held(accounts, Addresses) \in Nat
         /\ Held(new, Usable) <= Held(accounts, Usable)
    BY <1>10, <1>12
  <1>14. /\ Held(accounts', Addresses) + created = Held(accounts, Addresses) + created'
         /\ Held(accounts', Usable') <= Held(accounts, Usable)
         /\ DOMAIN accounts \subseteq DOMAIN accounts'
    BY <1>2, <1>7, <1>9, <1>11, <1>12, <1>13
  <1>15. QED
    BY <1>11, <1>14, MoveKeepsMoney

\* Send moves coins between two accounts.
LEMMA SendMoney ==
  ASSUME VestingInv, VestingInv', MoneyInv, NEW from \in Users, NEW to \in Addresses,
         NEW n \in Nat, Send(from, to, n)
  PROVE  MoneyInv'
  <1>1. /\ from \in DOMAIN accounts /\ GoodAccounts(accounts)
        /\ \A a \in DOMAIN accounts : accounts[a] \in Account
    BY DEF Send, CanSubtract, VestingInv, GoodAccounts, IsStore
  <1>2. n <= accounts[from].coins
    BY <1>1, Spendable DEF Send, CanSubtract
  <1>3. PICK new : new = accounts'
    OBVIOUS
  <1>4. new = AddCoins(SubtractCoins(accounts, from, n), to, n)
    BY <1>3 DEF Send
  <1>p. IsPayment(accounts, from, n, to, n, new)
    BY <1>1, <1>2, <1>4 DEF IsPayment
  <1>5. /\ CoinMove(accounts, new) /\ to \in DOMAIN new
        /\ OnlyPays(accounts, from, n, new)
    BY <1>p, TransferMove
  <1>6. UNCHANGED <<code, staked, communityPool, moduleCoins, supply, created>>
    BY DEF Send
  <1>7. Usable' = Usable /\ from \in Usable /\ from \in Addresses /\ created \in Int
    BY <1>6 DEF Usable, Addresses, VestingInv
  <1>8. /\ Held(accounts, Addresses) \in Nat /\ Held(new, Addresses) \in Nat
        /\ Held(new, Addresses) + n = Held(accounts, Addresses) + n
    BY <1>p, <1>7, PayHeld
  <1>9. /\ Held(accounts, Usable) \in Nat /\ Held(new, Usable) \in Nat
        /\ to \in Usable => Held(new, Usable) + n = Held(accounts, Usable) + n
        /\ to \notin Usable => Held(new, Usable) + n = Held(accounts, Usable)
    BY <1>p, <1>7, PayHeld
  <1>d. DOMAIN accounts \subseteq DOMAIN new
    BY <1>5 DEF CoinMove
  <1>10. /\ Held(accounts', Addresses) + created = Held(accounts, Addresses) + created'
         /\ Held(accounts', Usable') <= Held(accounts, Usable)
         /\ DOMAIN accounts \subseteq DOMAIN accounts'
    BY <1>3, <1>6, <1>7, <1>8, <1>9, <1>d
  <1>11. QED
    BY <1>6, <1>10, MoveKeepsMoney

\* Call moves coins twice; only an address with code pays the second time.
LEMMA CallMoney ==
  ASSUME VestingInv, VestingInv', MoneyInv, NEW caller \in Users, NEW callee \in Addresses,
         NEW to \in Addresses, NEW value \in Nat, NEW n \in Nat,
         Call(caller, callee, value, to, n)
  PROVE  MoneyInv'
  <1>1. /\ caller \in DOMAIN accounts /\ callee \in DOMAIN accounts /\ GoodAccounts(accounts)
        /\ \A a \in DOMAIN accounts : accounts[a] \in Account
    BY DEF Call, VestingInv, GoodAccounts, IsStore
  <1>2. value <= accounts[caller].coins
    BY <1>1 DEF Call, Balance, Account
  <1>3. PICK paid : paid = AddCoins(SubtractCoins(accounts, caller, value), callee, value)
    OBVIOUS
  <1>p. IsPayment(accounts, caller, value, callee, value, paid)
    BY <1>1, <1>2, <1>3 DEF IsPayment
  <1>4. /\ CoinMove(accounts, paid) /\ callee \in DOMAIN paid
        /\ OnlyPays(accounts, caller, value, paid)
    BY <1>p, TransferMove
  <1>5. PICK new : new = accounts'
    OBVIOUS
  <1>6. /\ n > 0 => callee \in code
        /\ paid[callee].coins >= n
        /\ new = AddCoins(SubtractCoins(paid, callee, n), to, n)
    BY <1>3, <1>5 DEF Call
  <1>7. GoodAccounts(paid) /\ callee \in DOMAIN paid /\ n <= paid[callee].coins
    <2>1. GoodAccounts(paid) /\ callee \in DOMAIN paid
      BY <1>1, <1>4 DEF CoinMove
    <2>2. QED
      BY <1>6, <2>1 DEF GoodAccounts, IsStore, Account
  <1>q. IsPayment(paid, callee, n, to, n, new)
    BY <1>6, <1>7 DEF IsPayment
  <1>8. /\ CoinMove(paid, new) /\ to \in DOMAIN new
        /\ OnlyPays(paid, callee, n, new)
    BY <1>q, TransferMove
  <1>9. UNCHANGED <<code, staked, communityPool, moduleCoins, supply, created>>
    BY DEF Call
  <1>10. /\ Usable' = Usable /\ caller \in Usable /\ caller \in Addresses /\ created \in Int
         /\ callee \in Usable \/ n = 0
    BY <1>6, <1>9 DEF Usable, Addresses, VestingInv
  <1>11. /\ Held(accounts, Addresses) \in Nat /\ Held(paid, Addresses) \in Nat
         /\ Held(paid, Addresses) + value = Held(accounts, Addresses) + value
    BY <1>p, <1>10, PayHeld
  <1>12. /\ Held(new, Addresses) \in Nat
         /\ Held(new, Addresses) + n = Held(paid, Addresses) + n
    BY <1>q, PayHeld
  <1>13. /\ Held(accounts, Usable) \in Nat /\ Held(paid, Usable) \in Nat
         /\ callee \in Usable => Held(paid, Usable) + value = Held(accounts, Usable) + value
         /\ callee \notin Usable => Held(paid, Usable) + value = Held(accounts, Usable)
    BY <1>p, <1>10, PayHeld
  <1>14. /\ Held(new, Usable) \in Nat
         /\ to \in Usable => Held(new, Usable) + n = Held(paid, Usable) + n
         /\ to \notin Usable => Held(new, Usable) + n = Held(paid, Usable)
    BY <1>q, <1>10, PayHeld
  <1>15. Held(new, Addresses) = Held(accounts, Addresses)
         /\ Held(new, Usable) <= Held(accounts, Usable)
    BY <1>11, <1>12, <1>13, <1>14
  <1>d. DOMAIN accounts \subseteq DOMAIN new
    BY <1>4, <1>8 DEF CoinMove
  <1>16. /\ Held(accounts', Addresses) + created = Held(accounts, Addresses) + created'
         /\ Held(accounts', Usable') <= Held(accounts, Usable)
         /\ DOMAIN accounts \subseteq DOMAIN accounts'
    BY <1>5, <1>9, <1>10, <1>11, <1>15, <1>d
  <1>17. QED
    BY <1>9, <1>16, MoveKeepsMoney

\* SelfDestruct leaves at the callee what it also pays, and the callee is not
\* usable any more.
LEMMA SelfDestructMoney ==
  ASSUME VestingInv, VestingInv', MoneyInv, NEW caller \in Users, NEW callee \in Addresses,
         NEW to \in Addresses, NEW value \in Nat, SelfDestruct(caller, callee, value, to)
  PROVE  MoneyInv'
  <1>1. /\ caller \in DOMAIN accounts /\ callee \in DOMAIN accounts /\ GoodAccounts(accounts)
        /\ \A a \in DOMAIN accounts : accounts[a] \in Account
        /\ callee \in ContractAddresses /\ callee \in code
    BY DEF SelfDestruct, VestingInv, GoodAccounts, IsStore
  <1>2. value <= accounts[caller].coins /\ accounts[caller].coins \in Nat
    BY <1>1 DEF SelfDestruct, Balance, Account
  <1>3. PICK bal \in Nat : bal = accounts[callee].coins /\ bal = Balance(callee)
    BY <1>1 DEF Balance, Account
  <1>4. UNCHANGED <<staked, communityPool, moduleCoins, supply>> /\ code' = code \ {callee}
    BY DEF SelfDestruct
  <1>5. PICK V : V = Usable \ {callee}
    OBVIOUS
  <1>6. Usable' = V /\ caller \in V /\ caller \in Addresses /\ created \in Int
        /\ callee \notin V /\ callee \in Usable
    BY <1>1, <1>4, <1>5, AddressesAssumption DEF Usable, Addresses, VestingInv
  <1>7. Held(accounts, Usable) = bal + Held(accounts, V) /\ Held(accounts, V) \in Nat
    <2> DEFINE f == [a \in DOMAIN accounts |-> accounts[a].coins]
               S == DOMAIN accounts \cap Usable
    <2>1. IsFiniteSet(S) /\ callee \in S /\ S \ {callee} = DOMAIN accounts \cap V
      <3>1. IsFiniteSet(DOMAIN accounts)
        BY <1>1 DEF GoodAccounts
      <3>2. IsFiniteSet(S)
        BY <3>1, FS_Subset
      <3>3. QED
        BY <1>1, <1>5, <1>6, <3>2
    <2>2. /\ \A x \in S : f[x] \in Nat
          /\ f[callee] = bal
      BY <1>1, <1>3 DEF Account
    <2> HIDE DEF f, S
    <2>3. SumFunctionOnSet(f, S) = f[callee] + SumFunctionOnSet(f, S \ {callee})
      BY <2>1, <2>2, SumRemove
    <2>4. /\ Held(accounts, Usable) = SumFunctionOnSet(f, S)
          /\ Held(accounts, V) = SumFunctionOnSet(f, S \ {callee})
      BY <2>1 DEF Held, SumOver, f, S
    <2>5. Held(accounts, V) \in Nat
      BY <1>1, HeldType
    <2>6. QED
      BY <2>2, <2>3, <2>4, <2>5
  <1>8. PICK new : new = accounts'
    OBVIOUS
  <1>9. /\ DOMAIN accounts \subseteq DOMAIN new
        /\ Held(new, Addresses) + created = Held(accounts, Addresses) + created'
        /\ Held(new, V) <= Held(accounts, Usable)
    <2>1. CASE to = callee
      <3>1. new = SubtractCoins(accounts, caller, value) /\ created' = created - value
        BY <1>8, <2>1 DEF SelfDestruct
      <3>2. CoinMove(accounts, new) /\ DOMAIN new = DOMAIN accounts
        BY <1>1, <1>2, <3>1, SubtractMove
      <3>3. Held(new, Addresses) + value = Held(accounts, Addresses)
        BY <1>1, <1>2, <1>6, <3>1, SubtractHeld
      <3>4. Held(new, V) + value = Held(accounts, V)
        BY <1>1, <1>2, <1>6, <3>1, SubtractHeld
      <3>5. /\ Held(new, Addresses) \in Nat /\ Held(new, V) \in Nat
            /\ Held(accounts, Addresses) \in Nat
        BY <1>1, <3>2, HeldType DEF CoinMove
      <3>6. QED
        BY <1>6, <1>7, <3>1, <3>2, <3>3, <3>4, <3>5
    <2>2. CASE to # callee
      <3>1. PICK m \in Nat : m = bal + value
        BY <1>3
      <3>2. new = AddCoins(SubtractCoins(accounts, caller, value), to, m)
            /\ created' = created + bal
        BY <1>3, <1>8, <2>2, <3>1 DEF SelfDestruct
      <3>p. IsPayment(accounts, caller, value, to, m, new)
        BY <1>1, <1>2, <3>2 DEF IsPayment
      <3>3. DOMAIN accounts \subseteq DOMAIN new
        <4>1. CoinMove(accounts, new) /\ OnlyPays(accounts, caller, value, new)
          BY <3>p, TransferMove
        <4>2. QED
          BY <4>1 DEF CoinMove
      <3>4. /\ Held(accounts, Addresses) \in Nat /\ Held(new, Addresses) \in Nat
            /\ Held(new, Addresses) + value = Held(accounts, Addresses) + m
        BY <1>6, <3>p, PayHeld
      <3>5. /\ Held(new, V) \in Nat
            /\ to \in V => Held(new, V) + value = Held(accounts, V) + m
            /\ to \notin V => Held(new, V) + value = Held(accounts, V)
        BY <1>6, <3>p, PayHeld
      <3>6. Held(new, V) <= Held(accounts, Usable)
        BY <1>7, <3>1, <3>5
      <3>7. Held(new, Addresses) + created = Held(accounts, Addresses) + created'
        BY <1>6, <3>1, <3>2, <3>4
      <3>8. QED
        BY <3>3, <3>6, <3>7
    <2>3. QED
      BY <2>1, <2>2
  <1>10. QED
    BY <1>4, <1>6, <1>8, <1>9, MoveKeepsMoney

\* Deploy moves coins to an address that becomes usable and had none.
LEMMA DeployMoney ==
  ASSUME VestingInv, VestingInv', MoneyInv, NEW caller \in Users,
         NEW contract \in ContractAddresses, NEW value \in Nat,
         Deploy(caller, contract, value)
  PROVE  MoneyInv'
  <1>1. /\ caller \in DOMAIN accounts /\ GoodAccounts(accounts) /\ contract \in Addresses
        /\ \A a \in DOMAIN accounts : accounts[a] \in Account
    BY DEF Deploy, VestingInv, GoodAccounts, IsStore, Addresses
  <1>2. value <= accounts[caller].coins
    BY <1>1 DEF Deploy, Balance, Account
  <1>3. PICK new : new = accounts'
    OBVIOUS
  <1>4. new = AddCoins(SubtractCoins(accounts, caller, value), contract, value)
    BY <1>3 DEF Deploy
  <1>p. IsPayment(accounts, caller, value, contract, value, new)
    BY <1>1, <1>2, <1>4 DEF IsPayment
  <1>5. DOMAIN accounts \subseteq DOMAIN new
    <2>1. CoinMove(accounts, new) /\ OnlyPays(accounts, caller, value, new)
      BY <1>p, TransferMove
    <2>2. QED
      BY <2>1 DEF CoinMove
  <1>6. /\ UNCHANGED <<staked, communityPool, moduleCoins, supply, created>>
        /\ code' = code \cup {contract} /\ contract \notin DOMAIN accounts
    BY DEF Deploy
  <1>7. PICK V : V = Usable \cup {contract}
    OBVIOUS
  <1>8. Usable' = V /\ caller \in V /\ contract \in V /\ caller \in Addresses
        /\ created \in Int
    BY <1>6, <1>7 DEF Usable, Addresses, VestingInv
  <1>9. Held(accounts, V) = Held(accounts, Usable)
    <2>1. DOMAIN accounts \cap V = DOMAIN accounts \cap Usable
      BY <1>6, <1>7
    <2>2. QED
      BY <2>1 DEF Held
  <1>10. /\ Held(accounts, Addresses) \in Nat /\ Held(new, Addresses) \in Nat
         /\ Held(new, Addresses) + value = Held(accounts, Addresses) + value
    <2>1. caller \in Addresses /\ contract \in Addresses
      BY <1>1, <1>8
    <2>2. QED
      BY <1>p, <2>1, PayHeld
  <1>11. /\ Held(accounts, V) \in Nat /\ Held(new, V) \in Nat
         /\ Held(new, V) + value = Held(accounts, V) + value
    BY <1>p, <1>8, PayHeld
  <1>12. /\ Held(accounts', Addresses) + created = Held(accounts, Addresses) + created'
         /\ Held(accounts', Usable') <= Held(accounts, Usable)
         /\ DOMAIN accounts \subseteq DOMAIN accounts'
    BY <1>3, <1>5, <1>6, <1>8, <1>9, <1>10, <1>11
  <1>13. QED
    BY <1>6, <1>12, MoveKeepsMoney

\* The bonded tokens of all accounts change with those of one account.
LEMMA BondedChange ==
  ASSUME VestingInv, VestingInv', NEW a \in DOMAIN accounts,
         DOMAIN accounts' = DOMAIN accounts,
         \A b \in Addresses \ {a} : staked'[b] = staked[b]
  PROVE  /\ Bonded \in Nat /\ Bonded' \in Nat
         /\ staked[a] \in Nat /\ staked'[a] \in Nat /\ staked[a] <= Bonded
         /\ Bonded' + staked[a] = Bonded + staked'[a]
  <1>1. PICK D : D = DOMAIN accounts
    OBVIOUS
  <1>2. PICK f : f = staked
    OBVIOUS
  <1>3. PICK g : g = staked'
    OBVIOUS
  <1>4. /\ IsFiniteSet(D) /\ D \subseteq Addresses /\ a \in D
        /\ \A x \in D : f[x] \in Nat /\ g[x] \in Nat
        /\ \A x \in D \ {a} : g[x] = f[x]
    BY <1>1, <1>2, <1>3 DEF VestingInv, GoodAccounts, IsStore
  <1>5. SumFunctionOnSet(g, D) + f[a] = SumFunctionOnSet(f, D) + g[a]
    BY <1>4, SumUpdate
  <1>6. /\ SumFunctionOnSet(f, D) = f[a] + SumFunctionOnSet(f, D \ {a})
        /\ SumFunctionOnSet(f, D \ {a}) \in Nat
    <2>1. IsFiniteSet(D \ {a})
      BY <1>4, FS_Difference
    <2>2. QED
      BY <1>4, <2>1, SumRemove, SumNat
  <1>7. SumFunctionOnSet(f, D) \in Nat /\ SumFunctionOnSet(g, D) \in Nat
    BY <1>4, SumNat
  <1>8. Bonded = SumFunctionOnSet(f, D) /\ Bonded' = SumFunctionOnSet(g, D)
    BY <1>1, <1>2, <1>3 DEF Bonded, SumOver
  <1>9. QED
    BY <1>2, <1>3, <1>4, <1>5, <1>6, <1>7, <1>8

\* Delegations, undelegations and slashes: what leaves the account is in the
\* module accounts, and the other way round; a slash burns it.
LEMMA StakingMoney ==
  ASSUME VestingInv, VestingInv', MoneyInv, NEW a \in Users, NEW n \in Nat \ {0},
         Delegate(a, n) \/ Undelegate(a, n) \/ Slash(a, n)
  PROVE  MoneyInv'
  <1>0. a \in Addresses /\ a \in Usable /\ staked \in [Addresses -> Nat]
    BY DEF VestingInv, Addresses, Usable
  <1>1. a \in DOMAIN accounts
    BY <1>0 DEF Delegate, Undelegate, Slash, VestingInv
  <1>2. accounts[a] \in Account /\ SoundBooks(accounts[a]) /\ accounts[a].coins \in Nat
        /\ GoodAccounts(accounts) /\ GoodAccounts(accounts')
        /\ (accounts[a].vesting =>
              accounts[a].delegatedVesting + accounts[a].delegatedFree >= staked[a])
    BY <1>1 DEF VestingInv, GoodAccounts, IsStore, DelegationsBooked, Account
  <1>3. UNCHANGED <<code, communityPool, created>>
        /\ \A b \in Addresses \ {a} : staked'[b] = staked[b]
    BY <1>0 DEF Delegate, Undelegate, Slash
  <1>4. Usable' = Usable /\ Addresses' = Addresses
    BY <1>3 DEF Usable, Addresses
  <1>5. /\ \/ Delegate(a, n) /\ accounts'[a].coins = accounts[a].coins - n
           \/ Undelegate(a, n) /\ accounts'[a].coins = accounts[a].coins + n
           \/ Slash(a, n) /\ accounts'[a].coins = accounts[a].coins
        /\ DOMAIN accounts' = DOMAIN accounts
        /\ \A b \in DOMAIN accounts \ {a} : accounts'[b] = accounts[b]
    <2>1. CASE Delegate(a, n)
      <3>1. accounts' = [accounts EXCEPT ![a] = TrackDelegation(accounts[a], n)]
            /\ accounts[a].coins >= n
        BY <2>1 DEF Delegate
      <3>2. TrackDelegation(accounts[a], n).coins = accounts[a].coins - n
        BY <1>2, <3>1, DelegationBooks
      <3>3. QED
        BY <1>1, <2>1, <3>1, <3>2
    <2>2. CASE Undelegate(a, n)
      <3>1. accounts' = [accounts EXCEPT ![a] = TrackUndelegation(accounts[a], n)]
            /\ staked[a] >= n /\ staked[a] \in Nat
        BY <1>0, <2>2 DEF Undelegate
      <3>2. accounts[a].vesting =>
              accounts[a].delegatedVesting + accounts[a].delegatedFree >= n
        BY <1>2, <3>1 DEF Account
      <3>3. TrackUndelegation(accounts[a], n).coins = accounts[a].coins + n
        BY <1>2, <3>2, UndelegationBooks
      <3>4. QED
        BY <1>1, <2>2, <3>1, <3>3
    <2>3. CASE Slash(a, n)
      BY <2>3 DEF Slash
    <2>4. QED
      BY <2>1, <2>2, <2>3
  <1>6. /\ Bonded \in Nat /\ Bonded' \in Nat
        /\ staked[a] \in Nat /\ staked'[a] \in Nat /\ staked[a] <= Bonded
        /\ Bonded' + staked[a] = Bonded + staked'[a]
    BY <1>1, <1>3, <1>5, BondedChange
  <1>7. PICK new : new = accounts'
    OBVIOUS
  <1>8. DiffersAt(accounts, a, new)
    BY <1>1, <1>2, <1>5, <1>7 DEF DiffersAt
  <1>9. /\ CoinsAt(accounts, a) \in Nat /\ CoinsAt(new, a) \in Nat
        /\ CoinsAt(accounts, a) = accounts[a].coins /\ CoinsAt(new, a) = accounts'[a].coins
    BY <1>1, <1>5, <1>7, <1>8, CoinsAtType DEF DiffersAt, CoinsAt
  <1>10. /\ Held(new, Addresses) + CoinsAt(accounts, a)
              = Held(accounts, Addresses) + CoinsAt(new, a)
         /\ Held(new, Usable) + CoinsAt(accounts, a)
              = Held(accounts, Usable) + CoinsAt(new, a)
    BY <1>0, <1>8, HeldChange
  <1>11. /\ Held(new, Addresses) \in Nat /\ Held(accounts, Addresses) \in Nat
         /\ Held(new, Usable) \in Nat /\ Held(accounts, Usable) \in Nat
    BY <1>8, HeldType DEF DiffersAt
  <1>12. /\ communityPool \in Nat /\ moduleCoins \in Nat /\ supply \in Nat
         /\ GlobalStakingPool + Bonded <= moduleCoins
         /\ communityPool + moduleCoins + Held(accounts, Addresses) = supply + created
         /\ communityPool + moduleCoins + Held(accounts, Usable) <= supply
         /\ created \in Int /\ GlobalStakingPool \in Nat
    BY AmountsAssumption DEF MoneyInv, VestingInv
  <1>13. /\ moduleCoins' \in Nat /\ supply' \in Nat
         /\ GlobalStakingPool + Bonded' <= moduleCoins'
         /\ communityPool + moduleCoins' + Held(new, Addresses) = supply' + created
         /\ communityPool + moduleCoins' + Held(new, Usable) <= supply'
    <2>1. CASE Delegate(a, n) /\ accounts'[a].coins = accounts[a].coins - n
      <3>1. staked'[a] = staked[a] + n /\ moduleCoins' = moduleCoins + n /\ supply' = supply
        BY <1>0, <2>1 DEF Delegate
      <3>2. QED
        BY <1>2, <1>6, <1>9, <1>10, <1>11, <1>12, <2>1, <3>1
    <2>2. CASE Undelegate(a, n) /\ accounts'[a].coins = accounts[a].coins + n
      <3>1. /\ staked'[a] = staked[a] - n /\ moduleCoins' = moduleCoins - n
            /\ supply' = supply /\ n <= staked[a]
        BY <1>0, <1>6, <2>2 DEF Undelegate
      <3>2. n <= moduleCoins /\ n <= supply /\ GlobalStakingPool + Bonded' <= moduleCoins'
        <4>1. n <= Bonded /\ Bonded' = Bonded - n
          BY <1>6, <3>1
        <4>2. Bonded <= moduleCoins /\ moduleCoins <= supply
          BY <1>6, <1>11, <1>12
        <4>3. n <= moduleCoins /\ n <= supply
          BY <1>6, <1>12, <4>1, <4>2
        <4>4. GlobalStakingPool + Bonded' <= moduleCoins'
          BY <1>6, <1>12, <3>1, <4>1
        <4>5. QED
          BY <4>3, <4>4
      <3>3. moduleCoins' \in Nat /\ supply' \in Nat
        BY <1>12, <3>1, <3>2
      <3>4. QED
        BY <1>2, <1>9, <1>10, <1>11, <1>12, <2>2, <3>1, <3>2, <3>3
    <2>3. CASE Slash(a, n) /\ accounts'[a].coins = accounts[a].coins
      <3>1. /\ staked'[a] = staked[a] - n /\ moduleCoins' = moduleCoins - n
            /\ supply' = supply - n /\ n <= staked[a]
        BY <1>0, <1>6, <2>3 DEF Slash
      <3>2. n <= moduleCoins /\ n <= supply /\ GlobalStakingPool + Bonded' <= moduleCoins'
        <4>1. n <= Bonded /\ Bonded' = Bonded - n
          BY <1>6, <3>1
        <4>2. Bonded <= moduleCoins /\ moduleCoins <= supply
          BY <1>6, <1>11, <1>12
        <4>3. n <= moduleCoins /\ n <= supply
          BY <1>6, <1>12, <4>1, <4>2
        <4>4. GlobalStakingPool + Bonded' <= moduleCoins'
          BY <1>6, <1>12, <3>1, <4>1
        <4>5. QED
          BY <4>3, <4>4
      <3>3. moduleCoins' \in Nat /\ supply' \in Nat
        BY <1>12, <3>1, <3>2
      <3>4. QED
        BY <1>2, <1>9, <1>10, <1>11, <1>12, <2>3, <3>1, <3>2, <3>3
    <2>4. QED
      BY <1>5, <2>1, <2>2, <2>3
  <1>14. QED
    BY <1>3, <1>4, <1>7, <1>12, <1>13 DEF MoneyInv

\* The EndBlocker moves coins of a usable address to the community pool.
LEMMA EndBlockMoney ==
  ASSUME VestingInv, VestingInv', MoneyInv, EndBlock
  PROVE  MoneyInv'
  <1>1. UNCHANGED <<code, staked, moduleCoins, supply, created>>
    BY DEF EndBlock
  <1>2. Usable' = Usable /\ Addresses' = Addresses /\ ZeroAddress \in Usable
        /\ ZeroAddress \in Addresses
    BY <1>1 DEF Usable, Addresses
  <1>3. CASE RecycleFails
    <2>1. UNCHANGED <<accounts, communityPool>>
      BY <1>3 DEF EndBlock
    <2>2. Bonded' = Bonded
      BY <1>1, <2>1 DEF Bonded
    <2>3. QED
      BY <1>1, <1>2, <2>1, <2>2 DEF MoneyInv
  <1>4. CASE ~ RecycleFails
    <2>1. /\ ZeroAddress \in DOMAIN accounts /\ GoodAccounts(accounts)
          /\ GoodAccounts(accounts') /\ accounts[ZeroAddress].coins \in Nat
      BY DEF VestingInv, GoodAccounts, IsStore, Account
    <2>2. PICK n \in Nat : n = accounts[ZeroAddress].coins
      BY <2>1
    <2>3. PICK new : new = accounts'
      OBVIOUS
    <2>4. new = SubtractCoins(accounts, ZeroAddress, n)
          /\ communityPool' = communityPool + n
      BY <1>4, <2>2, <2>3 DEF EndBlock
    <2>5. CoinMove(accounts, new) /\ DOMAIN new = DOMAIN accounts
      BY <2>1, <2>2, <2>4, SubtractMove
    <2>6. Bonded' = Bonded /\ Bonded \in Nat
      <3>1. DOMAIN accounts \subseteq DOMAIN accounts'
        BY <2>3, <2>5
      <3>2. QED
        BY <1>1, <2>1, <3>1, BondedGrows
    <2>7. Held(new, Addresses) + n = Held(accounts, Addresses)
      BY <1>2, <2>1, <2>2, <2>4, SubtractHeld
    <2>8. Held(new, Usable) + n = Held(accounts, Usable)
      BY <1>2, <2>1, <2>2, <2>4, SubtractHeld
    <2>9. /\ Held(new, Addresses) \in Nat /\ Held(new, Usable) \in Nat
          /\ created \in Int
      BY <2>5, HeldType DEF CoinMove, VestingInv
    <2>10. /\ communityPool \in Nat /\ moduleCoins \in Nat /\ supply \in Nat
           /\ GlobalStakingPool + Bonded <= moduleCoins
           /\ communityPool + moduleCoins + Held(accounts, Addresses) = supply + created
           /\ communityPool + moduleCoins + Held(accounts, Usable) <= supply
      BY DEF MoneyInv
    <2>11. /\ communityPool' \in Nat
           /\ communityPool' + moduleCoins + Held(new, Addresses) = supply + created
           /\ communityPool' + moduleCoins + Held(new, Usable) <= supply
      BY <2>4, <2>7, <2>8, <2>9, <2>10
    <2>12. QED
      BY <1>1, <1>2, <2>3, <2>6, <2>10, <2>11 DEF MoneyInv
  <1>5. QED
    BY <1>3, <1>4

-----------------------------------------------------------------------------
(* Minting.                                                                *)

\* The share of a pool is a number of coins, of a quotient that is rounded by
\* at most half a unit.
LEMMA PoolMintShare ==
  ASSUME NEW pool \in Nat, NEW m \in Nat, supply \in Nat, supply + m > 0
  PROVE  \E q \in Nat : /\ 2 * (q * (supply + m)) <= 2 * (pool * Precision) + (supply + m)
                        /\ PoolMint(pool, m) \in Nat
                        /\ PoolMint(pool, m) * Precision <= q * m
  <1>1. PICK t \in Nat : t = supply + m /\ t > 0
    OBVIOUS
  <1>2. PICK q : q = QuoDec(Dec(pool), Dec(t))
    OBVIOUS
  <1>3. q \in Nat /\ 2 * (q * t) <= 2 * (pool * Precision) + t
    BY <1>1, <1>2, QuoDecHalf
  <1>4. PICK x \in Nat : x = q * m
    BY <1>3
  <1>5. PoolMint(pool, m) = x \div Precision
    BY <1>1, <1>2, <1>4 DEF PoolMint, TruncateInt, MulInt
  <1>6. x \div Precision \in Nat /\ (x \div Precision) * Precision <= x
    BY PrecisionAssumption
  <1>7. QED
    BY <1>1, <1>3, <1>4, <1>5, <1>6

\* Two pools that together hold no more than the supply get together no more
\* than is minted, though both shares may be rounded up, because a decimal has
\* more units in one than coins are minted in a block.
LEMMA MintedShares ==
  ASSUME NEW c \in Nat, NEW g \in Nat, NEW s \in Nat, NEW m \in Nat, NEW p \in Nat,
         c + g <= s, m < p, s + m > 0,
         NEW q \in Nat, 2 * (q * (s + m)) <= 2 * (c * p) + (s + m),
         NEW r \in Nat, 2 * (r * (s + m)) <= 2 * (g * p) + (s + m),
         NEW a \in Nat, a * p <= q * m,
         NEW b \in Nat, b * p <= r * m
  PROVE  a + b <= m
  <1>1. PICK t \in Nat : t = s + m /\ t > 0
    OBVIOUS
  <1>2. (q + r) * t <= s * p + t
    <2>1. PICK u \in Nat, v \in Nat : u = q * t /\ v = r * t
      OBVIOUS
    <2>2. PICK x \in Nat, y \in Nat : x = c * p /\ y = g * p
      OBVIOUS
    <2>3. u + v <= x + y + t
      BY <1>1, <2>1, <2>2
    <2>4. (c + g) * p <= s * p /\ (c + g) * p = x + y
      BY <2>2, TimesOrder
    <2>5. PICK z \in Nat : z = s * p
      OBVIOUS
    <2>6. (q + r) * t = u + v
      BY <2>1
    <2>7. QED
      BY <2>3, <2>4, <2>5, <2>6
  <1>3. (a + b) * p <= (q + r) * m
    <2>1. PICK u \in Nat, v \in Nat : u = q * m /\ v = r * m
      OBVIOUS
    <2>2. PICK x \in Nat, y \in Nat : x = a * p /\ y = b * p
      OBVIOUS
    <2>3. (a + b) * p = x + y /\ (q + r) * m = u + v
      BY <2>1, <2>2
    <2>4. QED
      BY <2>1, <2>2, <2>3
  <1>4. ASSUME m + 1 <= a + b PROVE FALSE
    <2>1. PICK k \in Nat, h \in Nat : k = a + b /\ h = q + r
      OBVIOUS
    <2>2. (m + 1) * p <= h * m
      <3>1. (m + 1) * p <= k * p
        BY <1>4, <2>1, TimesOrder
      <3>2. (m + 1) * p \in Nat /\ k * p \in Nat /\ h * m \in Nat
        OBVIOUS
      <3>3. QED
        BY <1>3, <2>1, <3>1, <3>2
    <2>3. ((m + 1) * p) * t <= (h * m) * t
      <3>1. (m + 1) * p \in Nat /\ h * m \in Nat
        OBVIOUS
      <3>2. QED
        BY <2>2, <3>1, TimesOrder
    <2>4. (h * t) * m <= (s * p + t) * m
      <3>1. h * t \in Nat /\ s * p + t \in Nat
        OBVIOUS
      <3>2. QED
        BY <1>2, <2>1, <3>1, TimesOrder
    <2>5. (m + 1) * t <= p * t
      BY TimesOrder
    <2>6. PICK u \in Nat, v \in Nat, w \in Nat, x \in Nat :
            u = (s * p) * m /\ v = (m * p) * m /\ w = p * t /\ x = t * m
      OBVIOUS
    <2>7. /\ ((m + 1) * p) * t = u + v + w
          /\ (s * p + t) * m = u + x
          /\ (m + 1) * t = x + t
          /\ (h * m) * t = (h * t) * m
      BY <1>1, <2>6
    <2>8. PICK y \in Nat : y = (h * t) * m
      OBVIOUS
    <2>9. QED
      BY <1>1, <2>3, <2>4, <2>5, <2>6, <2>7, <2>8
  <1>5. QED
    BY <1>4

\* The BeginBlocker gives out what it mints.
LEMMA BeginBlockMoney ==
  ASSUME VestingInv, VestingInv', MoneyInv, NEW m \in MintInputs, BeginBlock(m)
  PROVE  MoneyInv' /\ (phase' = "halted" => supply + m = 0)
  <1>1. UNCHANGED <<accounts, code, staked, created>>
    BY DEF BeginBlock
  <1>2. /\ Usable' = Usable /\ Addresses' = Addresses /\ Bonded' = Bonded
        /\ Held(accounts', Usable') = Held(accounts, Usable)
        /\ Held(accounts', Addresses') = Held(accounts, Addresses)
    BY <1>1 DEF Usable, Addresses, Bonded, Held
  <1>3. /\ Held(accounts, Usable) \in Nat /\ Held(accounts, Addresses) \in Nat
        /\ created \in Int
    BY HeldType DEF VestingInv
  <1>4. Bonded \in Nat
    <2>1. GoodAccounts(accounts') /\ DOMAIN accounts \subseteq DOMAIN accounts'
      BY <1>1 DEF VestingInv
    <2>2. QED
      BY <1>1, <2>1, BondedGrows
  <1>5. /\ communityPool \in Nat /\ moduleCoins \in Nat /\ supply \in Nat
        /\ GlobalStakingPool + Bonded <= moduleCoins
        /\ communityPool + moduleCoins + Held(accounts, Addresses) = supply + created
        /\ communityPool + moduleCoins + Held(accounts, Usable) <= supply
    BY DEF MoneyInv
  <1>6. m \in Nat /\ m < Precision /\ GlobalStakingPool \in Nat /\ Precision \in Nat
    BY AmountsAssumption, PrecisionAssumption
  <1>7. CASE supply + m = 0
    <2>1. UNCHANGED <<communityPool, moduleCoins, supply>>
      BY <1>7 DEF BeginBlock
    <2>2. QED
      BY <1>1, <1>2, <1>7, <2>1 DEF MoneyInv
  <1>8. CASE supply + m > 0
    <2>1. PICK a : a = PoolMint(communityPool, m)
      OBVIOUS
    <2>2. PICK b : b = PoolMint(GlobalStakingPool, m)
      OBVIOUS
    <2>3. PICK q \in Nat :
            /\ 2 * (q * (supply + m)) <= 2 * (communityPool * Precision) + (supply + m)
            /\ a \in Nat /\ a * Precision <= q * m
      BY <1>5, <1>6, <1>8, <2>1, PoolMintShare
    <2>4. PICK r \in Nat :
            /\ 2 * (r * (supply + m)) <= 2 * (GlobalStakingPool * Precision) + (supply + m)
            /\ b \in Nat /\ b * Precision <= r * m
      BY <1>5, <1>6, <1>8, <2>2, PoolMintShare
    <2>5. communityPool + GlobalStakingPool <= supply
      BY <1>3, <1>4, <1>5, <1>6
    <2>6. a + b <= m
      BY <1>5, <1>6, <1>8, <2>3, <2>4, <2>5, MintedShares
    <2>7. CollectedFees(m) = m - a - b /\ ~ (CollectedFees(m) < 0) /\ supply + m # 0
      BY <1>5, <1>6, <1>8, <2>1, <2>2, <2>3, <2>4, <2>6 DEF CollectedFees
    <2>8. /\ phase' = "deliver" /\ supply' = supply + m /\ communityPool' = communityPool + a
          /\ moduleCoins' = moduleCoins + (m - a - b) + b
      BY <2>1, <2>2, <2>7 DEF BeginBlock
    <2>9. /\ communityPool' \in Nat /\ moduleCoins' \in Nat /\ supply' \in Nat
          /\ GlobalStakingPool + Bonded <= moduleCoins'
          /\ communityPool' + moduleCoins' + Held(accounts, Addresses) = supply' + created
          /\ communityPool' + moduleCoins' + Held(accounts, Usable) <= supply'
      BY <1>3, <1>4, <1>5, <1>6, <2>3, <2>4, <2>6, <2>8
    <2>10. QED
      BY <1>1, <1>2, <2>8, <2>9 DEF MoneyInv
  <1>9. QED
    BY <1>5, <1>6, <1>7, <1>8

-----------------------------------------------------------------------------
(* The theorems about coins.                                               *)

\* Genesis: the supply is what the accounts and the pool of x/shield hold.
LEMMA InitMoney ==
  ASSUME Init, VestingInv
  PROVE  MoneyInv
  <1>1. /\ DOMAIN GenesisCoins \subseteq Users /\ IsFiniteSet(DOMAIN GenesisCoins)
        /\ \A a \in DOMAIN GenesisCoins : GenesisCoins[a] \in Nat
        /\ ZeroAddress \notin Users
    BY AddressesAssumption DEF IsStore
  <1>2. PICK D : D = DOMAIN GenesisCoins
    OBVIOUS
  <1>3. /\ DOMAIN accounts = D \cup {ZeroAddress} /\ ZeroAddress \notin D
        /\ accounts[ZeroAddress] = BaseAccount(0)
        /\ \A a \in D : accounts[a] = BaseAccount(GenesisCoins[a])
    BY <1>1, <1>2 DEF Init, StoreSet
  <1>4. accounts[ZeroAddress].coins = 0 /\ \A a \in D : accounts[a].coins = GenesisCoins[a]
    BY <1>1, <1>2, <1>3, BaseAccountBooks
  <1>5. PICK f : f = [a \in DOMAIN accounts |-> accounts[a].coins]
    OBVIOUS
  <1>6. f[ZeroAddress] = 0 /\ \A a \in D : f[a] = GenesisCoins[a] /\ f[a] \in Nat
    BY <1>1, <1>2, <1>3, <1>4, <1>5
  <1>7. SumFunctionOnSet(f, D \cup {ZeroAddress}) = f[ZeroAddress] + SumFunctionOnSet(f, D)
    <2>1. /\ IsFiniteSet(D) /\ ZeroAddress \notin D
          /\ \A x \in D \cup {ZeroAddress} : f[x] \in Nat
      BY <1>1, <1>2, <1>3, <1>6
    <2>2. QED
      BY <2>1, SumAdd
  <1>8. SumFunctionOnSet(f, D) = SumFunctionOnSet(GenesisCoins, D)
    BY <1>1, <1>2, <1>6, SumEqual
  <1>9. SumFunctionOnSet(f, D) \in Nat
    BY <1>1, <1>2, <1>6, SumNat
  <1>10. /\ DOMAIN accounts \cap Usable = D \cup {ZeroAddress}
         /\ DOMAIN accounts \cap Addresses = D \cup {ZeroAddress}
    BY <1>1, <1>2, <1>3 DEF Usable, Addresses
  <1>11. /\ Held(accounts, Usable) = SumFunctionOnSet(f, D)
         /\ Held(accounts, Addresses) = SumFunctionOnSet(f, D)
    <2>1. /\ Held(accounts, Usable) = SumFunctionOnSet(f, D \cup {ZeroAddress})
          /\ Held(accounts, Addresses) = SumFunctionOnSet(f, D \cup {ZeroAddress})
      BY <1>5, <1>10 DEF Held, SumOver
    <2>2. QED
      BY <1>6, <1>7, <1>9, <2>1
  <1>12. Bonded = 0
    <2>1. IsFiniteSet(DOMAIN accounts) /\ DOMAIN accounts \subseteq Addresses
      BY DEF VestingInv, GoodAccounts, IsStore
    <2>2. \A x \in DOMAIN accounts : staked[x] = 0
      BY <2>1 DEF Init
    <2>3. SumFunctionOnSet(staked, DOMAIN accounts) = 0
      BY <2>1, <2>2, SumZeros
    <2>4. QED
      BY <2>3 DEF Bonded, SumOver
  <1>13. /\ communityPool = 0 /\ moduleCoins = GlobalStakingPool /\ created = 0
         /\ supply = GlobalStakingPool + SumFunctionOnSet(f, D)
         /\ GlobalStakingPool \in Nat
    BY <1>2, <1>8, AmountsAssumption DEF Init, SumOver
  <1>14. QED
    BY <1>9, <1>11, <1>12, <1>13 DEF MoneyInv

\* Every step keeps the coins in line with the supply.
LEMMA NextMoney ==
  ASSUME VestingInv, VestingInv', MoneyInv, [Next]_vars
  PROVE  MoneyInv'
  <1>0. /\ SendInputs \subseteq Nat /\ LockInputs \subseteq Nat /\ UnlockInputs \subseteq Nat
        /\ StakeInputs \subseteq Nat \ {0} /\ CallInputs \subseteq Nat
    BY AmountsAssumption
  <1>1. ASSUME NEW a \in Users, Msg(a) PROVE MoneyInv'
    <2>2. CASE \E b \in Addresses, amount \in UnlockInputs : Unlock(a, b, amount)
      BY <1>0, <2>2, UnlockMoney
    <2>3. CASE \E b \in Addresses, c \in Addresses \cup {NoAddress}, amount \in LockInputs :
                 LockedSend(a, b, c, amount)
      BY <1>0, <2>3, LockedSendMoney
    <2>4. CASE \E b \in Addresses, amount \in SendInputs : Send(a, b, amount)
      BY <1>0, <2>4, SendMoney
    <2>5. CASE \E amount \in StakeInputs :
                 Delegate(a, amount) \/ Undelegate(a, amount) \/ Slash(a, amount)
      BY <1>0, <2>5, StakingMoney
    <2>6. CASE \E b, c \in Addresses, value \in CallInputs, amount \in CallInputs :
                 Call(a, b, value, c, amount)
      BY <1>0, <2>6, CallMoney
    <2>7. CASE \E b, c \in Addresses, value \in CallInputs : SelfDestruct(a, b, value, c)
      BY <1>0, <2>7, SelfDestructMoney
    <2>8. CASE \E b \in ContractAddresses, value \in CallInputs : Deploy(a, b, value)
      BY <1>0, <2>8, DeployMoney
    <2>9. QED
      BY <1>1, <2>2, <2>3, <2>4, <2>5, <2>6, <2>7, <2>8 DEF Msg
  <1>2. CASE EndBlock
    BY <1>2, EndBlockMoney
  <1>3. CASE \E minted \in MintInputs : BeginBlock(minted)
    BY <1>3, BeginBlockMoney
  <1>4. CASE UNCHANGED vars
    <2>1. UNCHANGED <<accounts, code, staked, communityPool, moduleCoins, supply, created>>
      BY <1>4 DEF vars
    <2>2. QED
      BY <2>1 DEF MoneyInv, Usable, Addresses, Bonded, Held
  <1>5. QED
    BY <1>1, <1>2, <1>3, <1>4 DEF Next, Block

\* The coins are in line with the supply in every behaviour.
LEMMA AccountsMoneyInv == Spec => []MoneyInv
  <1>1. Init /\ VestingInv => MoneyInv
    BY InitMoney
  <1>2. VestingInv /\ VestingInv' /\ MoneyInv /\ [Next]_vars => MoneyInv'
    BY NextMoney
  <1>3. QED
    BY <1>1, <1>2, AccountsVestingInv, PTL DEF Spec

\* The stores have their types: no balance, pool or supply is negative.
THEOREM AccountsTypeOK == Spec => []TypeOK
  <1>1. VestingInv /\ MoneyInv => TypeOK
    BY AmountsAssumption DEF VestingInv, MoneyInv, TypeOK, GoodAccounts
  <1>2. QED
    BY <1>1, AccountsVestingInv, AccountsMoneyInv, PTL

\* The coins of all accounts are the supply and what self-destructions left
\* behind, whatever is sent, locked, delegated, slashed, called and minted.
THEOREM AccountsCoinsMatchSupply == Spec => []CoinsMatchSupply
  <1>1. ASSUME VestingInv, MoneyInv PROVE CoinsMatchSupply
    <2>1. DOMAIN accounts \cap Addresses = DOMAIN accounts
      BY <1>1 DEF VestingInv, GoodAccounts, IsStore
    <2>2. Total = communityPool + moduleCoins + Held(accounts, Addresses)
      BY <2>1 DEF Total, Held
    <2>3. QED
      BY <1>1, <2>2 DEF MoneyInv, CoinsMatchSupply
  <1>2. QED
    BY <1>1, AccountsVestingInv, AccountsMoneyInv, PTL

\* The coins someone may still move are never more than the supply.
THEOREM AccountsUsableCoinsWithinSupply == Spec => []UsableCoinsWithinSupply
  <1>1. ASSUME VestingInv, MoneyInv PROVE UsableCoinsWithinSupply
    <2>1. PICK S : S = DOMAIN accounts \cap Usable
      OBVIOUS
    <2>2. PICK f : f = [a \in DOMAIN accounts |-> accounts[a].coins]
      OBVIOUS
    <2>3. PICK g : g = [a \in S |-> accounts[a].coins]
      OBVIOUS
    <2>4. IsFiniteSet(S)
      <3>1. IsFiniteSet(DOMAIN accounts)
        BY <1>1 DEF VestingInv, GoodAccounts
      <3>2. QED
        BY <2>1, <3>1, FS_Subset
    <2>5. \A a \in S : f[a] = g[a]
      BY <2>1, <2>2, <2>3
    <2>6. SumFunctionOnSet(f, S) = SumFunctionOnSet(g, S)
      BY <2>4, <2>5, SumEqual
    <2>7. Held(accounts, Usable) = SumFunctionOnSet(g, S)
      BY <2>1, <2>2, <2>6 DEF Held, SumOver
    <2>8. communityPool + moduleCoins + SumFunctionOnSet(g, S) <= supply
      BY <1>1, <2>7 DEF MoneyInv
    <2>9. QED
      BY <2>1, <2>3, <2>8 DEF UsableCoinsWithinSupply, Usable, SumOver
  <1>2. QED
    BY <1>1, AccountsVestingInv, AccountsMoneyInv, PTL

\* No block panics: the coins at the zero address can always be recycled, and
\* the shares of the pools are never more than what is minted.  The supply is
\* not zero when x/shield holds a pool or every block mints.
THEOREM AccountsNeverHalted ==
  ASSUME GlobalStakingPool > 0 \/ 0 \notin MintInputs
  PROVE  Spec => []NeverHalted
  <1>1. Init => NeverHalted
    BY DEF Init, NeverHalted
  <1>2. ASSUME VestingInv, VestingInv', MoneyInv, NeverHalted, [Next]_vars
        PROVE  NeverHalted'
    <2>1. CASE \E a \in Users : Msg(a)
      <3>1. phase' = phase
        BY <2>1 DEF Msg, Unlock, LockedSend, Send, Delegate, Undelegate, Slash, Call,
                    SelfDestruct, Deploy
      <3>2. QED
        BY <1>2, <3>1 DEF NeverHalted
    <2>2. CASE EndBlock
      <3>1. /\ accounts[ZeroAddress] \in Account /\ SoundBooks(accounts[ZeroAddress])
            /\ ~ accounts[ZeroAddress].vesting /\ ZeroAddress \in DOMAIN accounts
        BY <1>2 DEF VestingInv, GoodAccounts, IsStore
      <3>2. SpendableCoins(accounts[ZeroAddress]) = accounts[ZeroAddress].coins
        BY <3>1 DEF SpendableCoins, MinInt, SoundBooks, GetVestingCoins, Account
      <3>3. ~ RecycleFails
        BY <3>1, <3>2 DEF RecycleFails, CanSubtract, Account
      <3>4. QED
        BY <2>2, <3>3 DEF EndBlock, NeverHalted
    <2>3. CASE \E minted \in MintInputs : BeginBlock(minted)
      <3>1. PICK m \in MintInputs : BeginBlock(m)
        BY <2>3
      <3>2. phase' = "halted" => supply + m = 0
        BY <1>2, <3>1, BeginBlockMoney
      <3>3. supply >= GlobalStakingPool /\ supply \in Nat
        <4>1. GoodAccounts(accounts)
          BY <1>2 DEF VestingInv
        <4>2. Held(accounts, Usable) \in Nat
          BY <4>1, HeldType
        <4>3. Bonded \in Nat
          <5>1. IsFiniteSet(DOMAIN accounts) /\ \A x \in DOMAIN accounts : staked[x] \in Nat
            BY <1>2 DEF VestingInv, GoodAccounts, IsStore
          <5>2. QED
            BY <5>1, SumNat DEF Bonded, SumOver
        <4>4. QED
          BY <1>2, <4>2, <4>3, AmountsAssumption DEF MoneyInv
      <3>4. supply + m # 0
        BY <3>3, AmountsAssumption
      <3>5. QED
        BY <3>2, <3>4 DEF NeverHalted
    <2>4. CASE UNCHANGED vars
      BY <1>2, <2>4 DEF vars, NeverHalted
    <2>5. QED
      BY <1>2, <2>1, <2>2, <2>3, <2>4 DEF Next, Block
  <1>3. QED
    BY <1>1, <1>2, AccountsVestingInv, AccountsMoneyInv, PTL DEF Spec
=============================================================================
