CONSTANTS
  Precision = 100
  Accounts = {1, 2}
  Validators = {1}
  Aliases = {"x", "y"}
  InitCertifiers <- MCOneCertifier
  CertificateTypes = {"identity"}
  CertificateContents = {2}
  CertifyInputs = {}
  JailInputs = {}
  MaxIndex = 3
  Delegation <- MCDelegation
  ProposalContents <- MCClaims
  VoteOptions = {"Yes"}
  DepositInputs = {1}
  MinInitialDeposit = 1
  MinDeposit = 2
  MinClaimDeposit = 1
  MaxDepositPeriod = 1
  VotingPeriod = 1
  DefaultTally <- MCDefaultTally
  StakeTally <- MCStakeTally
  SecurityTallyParams <- MCSecurityTally
  InitBalance = 2
  BlockTimes = {1}
  MaxTime = 4
  MaxProposals = 1
SPECIFICATION Spec
INVARIANTS UnanimousClaimPasses
CHECK_DEADLOCK FALSE
