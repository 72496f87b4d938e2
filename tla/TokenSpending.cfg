CONSTANTS
  alice = alice
  bob = bob
  Accounts = {alice, bob}
  Zero = Zero
  Deployer = alice
  MaxSupply = 1
  MaxUint256 = 3
  MaxBlock = 2
  Amounts = {1}
  Batches <- NoBatches
  AllowanceAmounts = {1}
  RoleChanges <- MCRoleChanges
  Owners = {alice}
  Messages <- MCMessages
  MaxGranted = 3
  MaxSpent = 3
SPECIFICATION SpendingSpec
INVARIANTS TypeOK SpentWithinGranted SignaturesCountOnce
PROPERTIES SupplyFixedWithoutMinters PauseFreezesTokens
