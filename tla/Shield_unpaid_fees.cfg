CONSTANTS
  Accounts = {1, 2}
  Admin = 1
  Sponsors = {s1}
  Precision = 100
  ProtectionPeriod = 2
  WithdrawPeriod = 2
  ShieldFeesRate = 40
  PoolShieldLimit = 100
  MinShieldPurchase = 2
  StakingShieldRate = 200
  UnbondingTime = 2
  InitBalance = 6
  InitDelegated = 6
  CollateralInputs = {6}
  WithdrawInputs = {6}
  DelegationInputs = {}
  SlashInputs = {}
  ShieldInputs = {3}
  FeeInputs = {0, 1}
  LimitInputs <- MCLimits
  UnstakeInputs = {2}
  RewardInputs = {1}
  BlockTimes = {1, 2}
  MaxTime = 4
  MaxPools = 1
  MaxPurchases = 2
  MaxCollateral = 12
  MaxFees = 2
SPECIFICATION Spec
INVARIANTS ModuleAccountInvariant
CHECK_DEADLOCK FALSE
