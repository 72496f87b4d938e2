CONSTANTS
  ann = ann
  ben = ben
  cat = cat
  deployer = deployer
  governor = governor
  timelock = timelock
  seed = seed
  storeIt = storeIt
  ruleIt = ruleIt
  otherIt = otherIt
  Accounts <- MCAccounts
  Zero = Zero
  Deployer = deployer
  Governor = governor
  Timelock = timelock
  SeedContract = seed
  Proposals = {storeIt}
  Payload <- StorePayload
  InitialBalance <- MCBalance
  InitialSettings <- MCSettings
  InitialDelay = 1
  StartTime = 2
  Cancellers = {}
  RewardPool = 10
  MaxSupply = 3
  MaxUint64 = 20
  MaxUint256 = 1000
  QuorumDenominator = 100
  Supports = {"against", "for", "abstain"}
  SignedVotes <- None
  Activities = {"vote", "rules"}
  Users = {ann, ben}
  TokenUsers = {}
  Amounts = {}
  SeedValues = {}
  Periods = {}
  Fractions = {100}
  SeedAddresses = {}
  RoleChanges <- None
  TimelockRoleChanges <- None
  SeedRoleChanges <- None
  Delays = {}
  BlockTimes = {1}
  MaxBlock = 4
  LastProposal = 1
SPECIFICATION Spec
INVARIANTS QuorumNumeratorIsCurrent
CHECK_DEADLOCK FALSE
