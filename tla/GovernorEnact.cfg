CONSTANTS
  ann = ann
  ben = ben
  cat = cat
  deployer = deployer
  governor = governor
  timelock = timelock
  seed = seed
  storeIt = storeIt
  ruleIt = ruleIt
  otherIt = otherIt
  Accounts <- MCAccounts
  Zero = Zero
  Deployer = deployer
  Governor = governor
  Timelock = timelock
  SeedContract = seed
  Proposals = {storeIt, ruleIt}
  Payload <- StoreAndQuorum
  InitialBalance <- MCBalance
  InitialSettings <- MCSettings
  InitialDelay = 1
  StartTime = 2
  Cancellers = {governor}
  RewardPool = 10
  MaxSupply = 3
  MaxUint64 = 20
  MaxUint256 = 1000
  QuorumDenominator = 100
  Supports = {"against", "for", "abstain"}
  SignedVotes <- None
  Activities = {"vote", "enact", "cancel", "rules"}
  Users = {ann}
  TokenUsers = {}
  Amounts = {}
  SeedValues = {}
  Periods = {}
  Fractions = {100}
  SeedAddresses = {}
  RoleChanges <- None
  TimelockRoleChanges <- None
  SeedRoleChanges <- None
  Delays = {}
  BlockTimes = {1}
  MaxBlock = 6
  LastProposal = 2
SPECIFICATION FairSpec
INVARIANTS OnlyPassedIsTimelocked TimelockAgrees
PROPERTIES LifecycleSpec EveryProposalEnds
CHECK_DEADLOCK FALSE
