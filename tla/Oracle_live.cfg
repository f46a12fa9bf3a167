CONSTANTS
  Accounts = {a1}
  TaskIDs = {t1, t2}
  Denoms = {1}
  BondDenom = 1
  LockedInBlocks = 2
  MinimumCollateral = 100
  AggregationWindow = 1
  ExpirationDuration = 1
  AggregationResult = 50
  ThresholdScore = 50
  Epsilon1 = 1
  Epsilon2 = 100
  InitBalance <- MCBalance
  CollateralInputs <- MCCollateral
  BountyInputs <- MCBounty
  ScoreInputs = {0}
  WaitInputs = {0, 2}
  DurationInputs = {0}
  StartHeight = 254
  MaxHeight = 257
SPECIFICATION FairSpec
INVARIANT PendingScheduled
PROPERTIES EveryTaskCloses
CHECK_DEADLOCK FALSE
