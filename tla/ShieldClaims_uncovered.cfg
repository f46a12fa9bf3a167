SPECIFICATION ClaimsSpec
CONSTANTS
  Precision = 100
  Accounts = {1, 2}
  Admin = 1
  Sponsors = {"s"}
  ProtectionPeriod = 2
  WithdrawPeriod = 2
  UnbondingTime = 2
  ShieldFeesRate = 50
  PoolShieldLimit = 100
  MinShieldPurchase = 1
  StakingShieldRate = 2
  InitBalance = 0
  InitDelegated = 2
  CollateralInputs = {1}
  WithdrawInputs = {1}
  DelegationInputs = {2}
  SlashInputs = {}
  ShieldInputs = {}
  FeeInputs = {}
  LimitInputs = {}
  UnstakeInputs = {}
  RewardInputs = {}
  BlockTimes = {1}
  MaxTime = 4
  MaxPools = 1
  MaxPurchases = 2
  MaxCollateral = 4
  MaxFees = 1
  VotingPeriod = 1
  PayoutPeriod = 1
  GenesisCollateral <- MCTwoProviders
  GenesisPurchases <- MCOnePurchase
  GenesisLimit = 3
  LossInputs = {1}
  Senders = {}
  MaxClaims = 2
INVARIANT ClaimsAreCovered
CHECK_DEADLOCK FALSE
