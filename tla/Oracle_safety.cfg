CONSTANTS
  Accounts = {a1, a2}
  TaskIDs = {t1}
  Denoms = {1}
  BondDenom = 1
  LockedInBlocks = 2
  MinimumCollateral = 100
  AggregationWindow = 1
  ExpirationDuration = 1
  AggregationResult = 50
  ThresholdScore = 50
  Epsilon1 = 1
  Epsilon2 = 100
  InitBalance <- MCBalance
  CollateralInputs <- MCCollateral
  BountyInputs <- MCBounty
  ScoreInputs = {0, 40, 90}
  WaitInputs = {0}
  DurationInputs = {0}
  StartHeight = 254
  MaxHeight = 257
SYMMETRY Symmetry
SPECIFICATION Spec
INVARIANTS TypeOK Solvent TotalCollateralIsSum NeverHalted OneResponseEach NoOverdueWithdraw
PROPERTIES ResultIsFinal
CHECK_DEADLOCK FALSE
