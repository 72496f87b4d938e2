CONSTANTS
  first = first
  second = second
  other = other
  contract = contract
  deployer = deployer
  NoOperation = NoOperation
  Self = Self
  Governor = Governor
  NewTimelock = NewTimelock
  AnyAccount = AnyAccount
  Operations = {first, second, other}
  Proposals = {first, second}
  Outside = {first, other}
  Predecessor <- MCPredecessor
  MaxUint256 = 9
  Accounts = {contract, deployer, Governor}
  Callees <- MCCallees
  Admin = deployer
  Proposers = {contract, Governor}
  Executors = {AnyAccount}
  CallKinds <- MCCallKinds
  Calls <- MCCalls
  Delays = {1}
  RoleChanges <- MCRoleChanges
  InitialDelay = 1
  StartTime = 2
  MaxDepth = 2
  MaxTime = 3
SPECIFICATION DaoSpec
INVARIANTS GovernedByProposals NothingAnnouncedIsLeft StatusIsTheOutcome
CHECK_DEADLOCK FALSE
