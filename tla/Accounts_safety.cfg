SPECIFICATION Spec
CONSTANTS
  Precision = 8
  Users = {1, 2, 3}
  ContractAddresses = {4}
  ZeroAddress = 5
  NoAddress = 0
  GenesisCoins <- MCGenesisCoins
  GlobalStakingPool = 1
  GasWidth = 16
  GasCap = 12
  GasRates = {1, 7}
  SendInputs = {1}
  LockInputs = {1, 2}
  UnlockInputs = {1}
  StakeInputs = {1}
  CallInputs = {0, 1}
  MintInputs = {0, 3}
  MaxCoins = 2
  MaxSupply = 6
INVARIANTS LockedCoinsStay DelegationsBooked CoinsMatchSupply UsableCoinsWithinSupply NeverHalted GasWithinLimit
CHECK_DEADLOCK FALSE
