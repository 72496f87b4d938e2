CONSTANTS
  alice = alice
  bob = bob
  Accounts = {alice, bob}
  Zero = Zero
  Deployer = alice
  MaxSupply = 2
  MaxUint256 = 3
  MaxBlock = 3
  Amounts = {0, 1}
  Batches <- MCBatches
  AllowanceAmounts = {}
  RoleChanges <- NoRoleChanges
SPECIFICATION Spec
INVARIANTS SupplyIsSumOfBalances VotesAreDelegatedBalances
  PastVotesWithinPastSupply CheckpointsInOrder VotesNeverBlockTransfers
PROPERTY HistorySpec
