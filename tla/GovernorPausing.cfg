CONSTANTS
  ann = ann
  ben = ben
  cat = cat
  deployer = deployer
  governor = governor
  timelock = timelock
  seed = seed
  storeIt = storeIt
  ruleIt = ruleIt
  otherIt = otherIt
  Accounts <- MCAccounts
  Zero = Zero
  Deployer = deployer
  Governor = governor
  Timelock = timelock
  SeedContract = seed
  Proposals = {storeIt, ruleIt}
  Payload <- PauseAndDelay
  InitialBalance <- MCBalance
  InitialSettings <- MCSettings
  InitialDelay = 1
  StartTime = 2
  Cancellers = {}
  RewardPool = 10
  MaxSupply = 4
  MaxUint64 = 20
  MaxUint256 = 1000
  QuorumDenominator = 100
  Supports = {"for", "abstain"}
  SignedVotes <- None
  Activities = {"vote", "enact", "pause", "roles", "rules", "mint"}
  Users = {ann}
  TokenUsers = {}
  Amounts = {1}
  SeedValues = {3}
  Periods = {2}
  Fractions = {}
  SeedAddresses = {ann}
  RoleChanges <- None
  TimelockRoleChanges <- None
  SeedRoleChanges <- BenPauses
  Delays = {}
  BlockTimes = {1}
  MaxBlock = 4
  LastProposal = 1
SPECIFICATION Spec
INVARIANTS NothingIsStranded
CHECK_DEADLOCK FALSE
