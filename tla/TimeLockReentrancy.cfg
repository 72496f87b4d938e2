CONSTANTS
  first = first
  second = second
  contract = contract
  deployer = deployer
  NoOperation = NoOperation
  Self = Self
  AnyAccount = AnyAccount
  Operations = {first, second}
  Predecessor <- MCPredecessor
  MaxUint256 = 9
  Accounts = {contract, deployer}
  Callees <- MCCallees
  Admin = deployer
  Proposers = {contract}
  Executors = {AnyAccount}
  CallKinds <- MCCallKinds
  Calls <- MCCalls
  Delays = {0, 1}
  RoleChanges <- MCRoleChanges
  InitialDelay = 1
  StartTime = 2
  MaxDepth = 3
  MaxTime = 4
SPECIFICATION Spec
INVARIANTS PredecessorFirst AllOrNothing PendingWaitsItsDelay
PROPERTY PromiseSpec
CHECK_DEADLOCK FALSE
