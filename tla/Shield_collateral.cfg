CONSTANTS
  Accounts = {1, 2}
  Admin = 1
  Sponsors = {s1}
  Precision = 100
  ProtectionPeriod = 2
  WithdrawPeriod = 2
  ShieldFeesRate = 40
  PoolShieldLimit = 50
  MinShieldPurchase = 2
  StakingShieldRate = 200
  UnbondingTime = 2
  InitBalance = 0
  InitDelegated = 4
  CollateralInputs = {2, 3}
  WithdrawInputs = {2}
  DelegationInputs = {2}
  SlashInputs = {2}
  ShieldInputs = {}
  FeeInputs = {}
  LimitInputs = {}
  UnstakeInputs = {}
  RewardInputs = {}
  BlockTimes = {1}
  MaxTime = 4
  MaxPools = 1
  MaxPurchases = 2
  MaxCollateral = 6
  MaxFees = 3
SPECIFICATION Spec
INVARIANTS WithdrawingIsQueued CollateralBacked
CHECK_DEADLOCK FALSE
