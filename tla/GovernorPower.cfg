CONSTANTS
  ann = ann
  ben = ben
  cat = cat
  deployer = deployer
  governor = governor
  timelock = timelock
  seed = seed
  storeIt = storeIt
  ruleIt = ruleIt
  otherIt = otherIt
  Accounts <- MCAccounts
  Zero = Zero
  Deployer = deployer
  Governor = governor
  Timelock = timelock
  SeedContract = seed
  Proposals = {storeIt, ruleIt, otherIt}
  Payload <- GrantAndPeriods
  InitialBalance <- MCBalance
  InitialSettings <- AtOnce
  InitialDelay = 0
  StartTime = 2
  Cancellers = {deployer}
  RewardPool = 10
  MaxSupply = 3
  MaxUint64 = 20
  MaxUint256 = 1000
  QuorumDenominator = 100
  Supports = {"for"}
  SignedVotes <- None
  Activities = {"vote", "enact", "timelock", "roles", "rules"}
  Users = {ann}
  TokenUsers = {}
  Amounts = {}
  SeedValues = {}
  Periods = {2}
  Fractions = {}
  SeedAddresses = {}
  RoleChanges <- Handover
  TimelockRoleChanges <- DeployerProposes
  SeedRoleChanges <- None
  Delays = {0}
  BlockTimes = {1}
  MaxBlock = 3
  LastProposal = 1
SPECIFICATION Spec
PROPERTIES RulesChangeByProposal RolesGivenByProposal
CHECK_DEADLOCK FALSE
