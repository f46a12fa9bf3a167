CONSTANTS
  Precision = 100
  Accounts = {1, 2, 3}
  Validators = {3}
  Aliases = {"x", "y"}
  InitCertifiers <- MCOneCertifier
  CertificateTypes = {"identity"}
  CertificateContents = {3}
  CertifyInputs = {2, 3}
  JailInputs = {}
  MaxIndex = 1
  Delegation <- MCDelegation
  ProposalContents <- MCUpdates
  VoteOptions = {"Yes"}
  DepositInputs = {}
  MinInitialDeposit = 1
  MinDeposit = 2
  MinClaimDeposit = 1
  MaxDepositPeriod = 1
  VotingPeriod = 1
  DefaultTally <- MCDefaultTally
  StakeTally <- MCStakeTally
  SecurityTallyParams <- MCSecurityTally
  InitBalance = 2
  BlockTimes = {1}
  MaxTime = 4
  MaxProposals = 2
SPECIFICATION Spec
INVARIANTS AliasesAreUnique SomeoneMayDecertify
PROPERTIES CertificatesNotReplaced
CHECK_DEADLOCK FALSE
