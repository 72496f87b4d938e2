CONSTANTS
  ann = ann
  ben = ben
  cat = cat
  deployer = deployer
  governor = governor
  timelock = timelock
  seed = seed
  storeIt = storeIt
  ruleIt = ruleIt
  otherIt = otherIt
  Accounts <- MCAccounts
  Zero = Zero
  Deployer = deployer
  Governor = governor
  Timelock = timelock
  SeedContract = seed
  Proposals = {storeIt}
  Payload <- StorePayload
  InitialBalance <- OneEach
  InitialSettings <- MCSettings
  InitialDelay = 0
  StartTime = 2
  Cancellers = {}
  RewardPool = 3
  MaxSupply = 5
  MaxUint64 = 20
  MaxUint256 = 1000
  QuorumDenominator = 100
  Supports = {"for"}
  SignedVotes <- MCSignedVotes
  Activities = {"vote", "token", "rules", "reward"}
  Users = {ann, ben}
  TokenUsers = {ann}
  Amounts = {1}
  SeedValues = {}
  Periods = {}
  Fractions = {100, 101}
  SeedAddresses = {}
  RoleChanges <- None
  TimelockRoleChanges <- None
  SeedRoleChanges <- None
  Delays = {}
  BlockTimes = {1}
  MaxBlock = 2
  LastProposal = 1
SPECIFICATION Spec
INVARIANTS VotersListed TallyIsVotesAtSnapshot
PROPERTIES OutcomeIsFinal RewardsShareThePool
CHECK_DEADLOCK FALSE
