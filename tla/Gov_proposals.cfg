CONSTANTS
  Precision = 100
  Accounts = {1, 2}
  Validators = {1}
  Aliases = {"x", "y"}
  InitCertifiers <- MCCertifiers
  CertificateTypes = {"identity"}
  CertificateContents = {2}
  CertifyInputs = {}
  JailInputs = {1}
  MaxIndex = 0
  Delegation <- MCDelegation
  ProposalContents <- MCContents
  VoteOptions = {"Yes", "NoWithVeto"}
  DepositInputs = {1}
  MinInitialDeposit = 0
  MinDeposit = 2
  MinClaimDeposit = 1
  MaxDepositPeriod = 1
  VotingPeriod = 1
  DefaultTally <- MCDefaultTally
  StakeTally <- MCStakeTally
  SecurityTallyParams <- MCSecurityTally
  InitBalance = 2
  BlockTimes = {1}
  MaxTime = 4
  MaxProposals = 2
SPECIFICATION Spec
INVARIANTS QueuesMatchProposals DepositsHeld NoStakeVotesTwice DepositsLeftByUpdates
PROPERTIES RoundsStartWithoutVotes LifeSpec 
CHECK_DEADLOCK FALSE
