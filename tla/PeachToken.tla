------------------------------ MODULE PeachToken -------------------------------
(* The governance and reward token: ERC20 with allowances, delegation and vote  *)
(* checkpoints (ERC20Votes), minting and pausing by role.  One action is one    *)
(* transaction; a transaction that reverts changes nothing and is no action.    *)
EXTENDS Checkpoints, AccessControl, Sums

CONSTANTS Accounts,      \* addresses that hold tokens, vote or hold roles
          Zero,          \* address(0)
          Deployer,      \* msg.sender of the constructor
          MaxSupply,     \* type(uint224).max, the bound on supply and votes
          MaxUint256,    \* type(uint256).max, the allowance never spent
          MaxBlock,      \* bound on the block number
          Amounts,           \* amounts of Transfer, TransferFrom and Mint
          Batches,           \* batches of BatchMint
          AllowanceAmounts,  \* amounts of the allowance operations
          RoleChanges        \* <<role, account>> of the role operations

ASSUME TokenAssumption ==
  /\ IsFiniteSet(Accounts)       \* addresses have 160 bits
  /\ Zero \notin Accounts
  /\ Deployer \in Accounts
  /\ MaxSupply \in Nat /\ MaxUint256 \in Nat /\ MaxSupply <= MaxUint256
  /\ MaxBlock \in Nat
  /\ Amounts \subseteq 0..MaxUint256
  /\ Batches \subseteq Seq([to : Accounts, amount : 0..MaxUint256])
  /\ AllowanceAmounts \subseteq 0..MaxUint256
  /\ RoleChanges \subseteq {"DEFAULT_ADMIN", "MINTER", "PAUSER"} \X Accounts

VARIABLES balances, totalSupply, allowances, delegates,
          checkpoints,             \* of each delegate's votes
          totalSupplyCheckpoints,
          tokenPaused, tokenRoles,
          block                    \* block.number of the next transaction

erc20Vars == <<balances, totalSupply, allowances>>
votesVars == <<delegates, checkpoints, totalSupplyCheckpoints>>
tokenVars == <<erc20Vars, votesVars, tokenPaused, tokenRoles, block>>

TokenRoles == {"DEFAULT_ADMIN", "MINTER", "PAUSER"}
Uint224 == 0..MaxSupply
Uint256 == 0..MaxUint256

--------------------------------------------------------------------------------
(* Votes *)

GetVotes(account) == Latest(checkpoints[account])

(* Callers may only ask about mined blocks, b < block. *)
GetPastVotes(account, b) == Lookup(checkpoints[account], b)
GetPastTotalSupply(b) == Lookup(totalSupplyCheckpoints, b)

(* amount votes leave src and join dst; Zero keeps no votes.  The subtraction   *)
(* is checked and the sum is cast to uint224: either may revert.                *)
MayMoveVotingPower(src, dst, amount) ==
  src # dst => /\ src \in Accounts => GetVotes(src) >= amount
               /\ dst \in Accounts => GetVotes(dst) + amount \in Uint224

(* Mutant: votes only join the new delegate. *)
MovedVotingPowerOnlyAdds(src, dst, amount) ==
  [d \in Accounts |->
     IF src = dst \/ amount = 0 \/ d # dst THEN checkpoints[d]
     ELSE WriteCheckpoint(checkpoints[d], block, GetVotes(d) + amount)]

MovedVotingPower(src, dst, amount) ==
  [d \in Accounts |->
     IF src = dst \/ amount = 0 \/ d \notin {src, dst} THEN checkpoints[d]
     ELSE WriteCheckpoint(checkpoints[d], block,
                          IF d = src THEN GetVotes(d) - amount
                                     ELSE GetVotes(d) + amount)]

Delegate(sender, delegatee) ==
  LET from == delegates[sender] IN
  /\ MayMoveVotingPower(from, delegatee, balances[sender])
  /\ delegates' = [delegates EXCEPT ![sender] = delegatee]
  /\ checkpoints' = MovedVotingPower(from, delegatee, balances[sender])
  /\ UNCHANGED <<erc20Vars, totalSupplyCheckpoints, tokenPaused, tokenRoles, block>>

--------------------------------------------------------------------------------
(* Transfers *)

(* Mutant: a pause does not stop transfers. *)
TransferTokensPaused(from, to, amount) ==
  /\ balances[from] >= amount
  /\ MayMoveVotingPower(delegates[from], delegates[to], amount)
  /\ balances' = [balances EXCEPT ![from] = @ - amount, ![to] = @ + amount]
  /\ checkpoints' = MovedVotingPower(delegates[from], delegates[to], amount)
  /\ UNCHANGED <<totalSupply, delegates, totalSupplyCheckpoints, tokenPaused,
                 tokenRoles, block>>

TransferTokens(from, to, amount) ==
  /\ balances[from] >= amount
  /\ ~tokenPaused
  /\ MayMoveVotingPower(delegates[from], delegates[to], amount)
  /\ balances' = [balances EXCEPT ![from] = @ - amount, ![to] = @ + amount]
  /\ checkpoints' = MovedVotingPower(delegates[from], delegates[to], amount)
  /\ UNCHANGED <<totalSupply, delegates, totalSupplyCheckpoints, tokenPaused,
                 tokenRoles, block>>

Transfer(sender, to, amount) ==
  TransferTokens(sender, to, amount) /\ UNCHANGED allowances

SetAllowance(owner, spender, amount) ==
  allowances' = [allowances EXCEPT ![owner][spender] = amount]

(* Mutant: the allowance is checked but not reduced. *)
TransferFromUnspent(sender, from, to, amount) ==
  /\ allowances[from][sender] >= amount
  /\ TransferTokens(from, to, amount)
  /\ UNCHANGED allowances

(* An allowance of type(uint256).max is unlimited and not reduced. *)
TransferFrom(sender, from, to, amount) ==
  LET allowed == allowances[from][sender] IN
  /\ TransferTokens(from, to, amount)
  /\ \/ allowed = MaxUint256 /\ UNCHANGED allowances
     \/ /\ allowed # MaxUint256
        /\ allowed >= amount
        /\ SetAllowance(from, sender, allowed - amount)

Approve(sender, spender, amount) ==
  /\ SetAllowance(sender, spender, amount)
  /\ UNCHANGED <<balances, totalSupply, votesVars, tokenPaused, tokenRoles, block>>

IncreaseAllowance(sender, spender, amount) ==
  /\ allowances[sender][spender] + amount \in Uint256
  /\ Approve(sender, spender, allowances[sender][spender] + amount)

(* Mutant: the decrease is not compared with the allowance. *)
DecreaseAllowanceUnchecked(sender, spender, amount) ==
  Approve(sender, spender, allowances[sender][spender] - amount)

DecreaseAllowance(sender, spender, amount) ==
  /\ allowances[sender][spender] >= amount
  /\ Approve(sender, spender, allowances[sender][spender] - amount)

--------------------------------------------------------------------------------
(* Minting.  A batch is the sequence of [to, amount] of one transaction: all    *)
(* its mints succeed or it reverts, and its checkpoints fall in one block, so   *)
(* that each history is written once with the sum.                              *)

Credit(batch, accounts) ==
  SumOver([i \in DOMAIN batch |-> batch[i].amount],
          {i \in DOMAIN batch : batch[i].to \in accounts})

Delegators(d) == {a \in Accounts : delegates[a] = d}

(* Mutant: the votes of a mint go to the recipient, not to its delegate. *)
VotesAfterMintToRecipient(batch) ==
  [d \in Accounts |-> GetVotes(d) + Credit(batch, {d})]

VotesAfterMint(batch) ==
  [d \in Accounts |-> GetVotes(d) + Credit(batch, Delegators(d))]

(* Mutant: the total supply is checkpointed before the batch is added. *)
SupplyCheckpointBefore(batch) ==
  WriteCheckpoint(totalSupplyCheckpoints, block, totalSupply)

SupplyCheckpoint(batch) ==
  WriteCheckpoint(totalSupplyCheckpoints, block,
                  Latest(totalSupplyCheckpoints) + Credit(batch, Accounts))

BatchMint(sender, batch) ==
  LET credit == [a \in Accounts |-> Credit(batch, {a})]
      minted == Credit(batch, Accounts)
      votes == VotesAfterMint(batch)
  IN
  /\ HasRole(tokenRoles, "MINTER", sender)
  /\ batch = <<>> \/ ~tokenPaused
  /\ totalSupply + minted \in Uint224          \* supply cap, additions checked
  /\ Latest(totalSupplyCheckpoints) + minted \in Uint224
  /\ credit \in [Accounts -> Uint224]
  /\ votes \in [Accounts -> Uint224]
  /\ totalSupply' = totalSupply + minted
  /\ balances' = [a \in Accounts |-> balances[a] + credit[a]]
  /\ totalSupplyCheckpoints' =
       IF batch = <<>> THEN totalSupplyCheckpoints ELSE SupplyCheckpoint(batch)
  /\ checkpoints' = [d \in Accounts |->
       IF votes[d] = GetVotes(d) THEN checkpoints[d]
       ELSE WriteCheckpoint(checkpoints[d], block, votes[d])]
  /\ UNCHANGED <<allowances, delegates, tokenPaused, tokenRoles, block>>

Mint(sender, to, amount) == BatchMint(sender, <<[to |-> to, amount |-> amount]>>)

--------------------------------------------------------------------------------
(* Pausing and roles *)

Pause(sender) ==
  /\ HasRole(tokenRoles, "PAUSER", sender)
  /\ ~tokenPaused /\ tokenPaused' = TRUE
  /\ UNCHANGED <<erc20Vars, votesVars, tokenRoles, block>>

Unpause(sender) ==
  /\ HasRole(tokenRoles, "PAUSER", sender)
  /\ tokenPaused /\ tokenPaused' = FALSE
  /\ UNCHANGED <<erc20Vars, votesVars, tokenRoles, block>>

(* Mutant: any holder of a role may pass it on. *)
GrantRoleByHolder(sender, role, account) ==
  /\ \E r \in TokenRoles : HasRole(tokenRoles, r, sender)
  /\ tokenRoles' = Granted(tokenRoles, role, account)
  /\ UNCHANGED <<erc20Vars, votesVars, tokenPaused, block>>

GrantRole(sender, role, account) ==
  /\ HasRole(tokenRoles, "DEFAULT_ADMIN", sender)
  /\ tokenRoles' = Granted(tokenRoles, role, account)
  /\ UNCHANGED <<erc20Vars, votesVars, tokenPaused, block>>

RevokeRole(sender, role, account) ==
  /\ HasRole(tokenRoles, "DEFAULT_ADMIN", sender)
  /\ tokenRoles' = Revoked(tokenRoles, role, account)
  /\ UNCHANGED <<erc20Vars, votesVars, tokenPaused, block>>

RenounceRole(sender, role) ==
  /\ tokenRoles' = Revoked(tokenRoles, role, sender)
  /\ UNCHANGED <<erc20Vars, votesVars, tokenPaused, block>>

Mine ==
  /\ block < MaxBlock
  /\ block' = block + 1
  /\ UNCHANGED <<erc20Vars, votesVars, tokenPaused, tokenRoles>>

(* The constructor. *)
Init ==
  /\ balances = [a \in Accounts |-> 0]
  /\ totalSupply = 0
  /\ allowances = [a \in Accounts |-> [s \in Accounts |-> 0]]
  /\ delegates = [a \in Accounts |-> Zero]
  /\ checkpoints = [a \in Accounts |-> <<>>]
  /\ totalSupplyCheckpoints = <<>>
  /\ tokenPaused = FALSE
  /\ tokenRoles = [r \in TokenRoles |-> {Deployer}]
  /\ block = 1

Allowing(s) ==
  \E spender \in Accounts, n \in AllowanceAmounts :
    \/ Approve(s, spender, n)
    \/ IncreaseAllowance(s, spender, n) \/ DecreaseAllowance(s, spender, n)

Administering(s) ==
  \/ Pause(s) \/ Unpause(s)
  \/ \E rc \in RoleChanges :
       \/ GrantRole(s, rc[1], rc[2]) \/ RevokeRole(s, rc[1], rc[2])
       \/ RenounceRole(s, rc[1])

Step(s) ==
  \/ \E d \in Accounts \cup {Zero} : Delegate(s, d)
  \/ \E to \in Accounts, n \in Amounts :
       \/ Transfer(s, to, n) \/ Mint(s, to, n)
       \/ \E from \in Accounts : TransferFrom(s, from, to, n)
  \/ \E batch \in Batches : BatchMint(s, batch)
  \/ Allowing(s)
  \/ Administering(s)

Next == Mine \/ \E s \in Accounts : Step(s)

Spec == Init /\ [][Next]_tokenVars

--------------------------------------------------------------------------------
(* Properties *)

Histories == Seq(Checkpoint(Nat, Uint224))

(* The state of the token keeps its type. *)
TypeOK ==
  /\ balances \in [Accounts -> Nat]
  /\ totalSupply \in Uint224
  /\ allowances \in [Accounts -> [Accounts -> Uint256]]
  /\ delegates \in [Accounts -> Accounts \cup {Zero}]
  /\ checkpoints \in [Accounts -> Histories]
  /\ totalSupplyCheckpoints \in Histories
  /\ tokenPaused \in BOOLEAN
  /\ tokenRoles \in [TokenRoles -> SUBSET Accounts]
  /\ block \in Nat \ {0}

(* The supply that mints cap is the sum of what accounts hold, and the latest   *)
(* supply checkpoint agrees with it (ERC20._mint, ERC20Votes._mint).            *)
SupplyIsSumOfBalances ==
  /\ totalSupply = SumOver(balances, Accounts)
  /\ Latest(totalSupplyCheckpoints) = totalSupply

(* A delegate has the votes of the balances delegated to it, whatever order     *)
(* transfers, mints and changes of delegate came in (ERC20Votes).               *)
VotesAreDelegatedBalances ==
  \A d \in Accounts : GetVotes(d) = SumOver(balances, Delegators(d))

(* At no mined block do the votes of all delegates together exceed the supply   *)
(* of that block, on which the governor computes its quorum.                    *)
PastVotesWithinPastSupply ==
  \A b \in 0..(block - 1) :
    SumOver([d \in Accounts |-> GetPastVotes(d, b)], Accounts)
      <= GetPastTotalSupply(b)

(* Checkpoints never leave block order, which the binary search relies on.      *)
CheckpointsInOrder ==
  \A c \in {checkpoints[a] : a \in Accounts} \cup {totalSupplyCheckpoints} :
    /\ Sorted(c)
    /\ \A i \in 1..Len(c) : c[i].fromBlock <= block

(* No holder's transfer is ever refused for lack of its delegate's votes: the   *)
(* checked subtraction and the uint224 cast of _moveVotingPower cannot revert.   *)
VotesNeverBlockTransfers ==
  \A from, to \in Accounts :
    MayMoveVotingPower(delegates[from], delegates[to], balances[from])

(* When the last minter and the last administrator of the token are gone, no    *)
(* sequence of grants, revocations and renunciations brings either back, and    *)
(* the supply is fixed for ever (AccessControl, mint and batchMint).             *)
NobodyMints == tokenRoles["MINTER"] = {} /\ tokenRoles["DEFAULT_ADMIN"] = {}
SupplyFixedWithoutMinters ==
  [][NobodyMints => NobodyMints' /\ UNCHANGED totalSupply]_tokenVars

(* No transaction of any kind, an allowance spent or a batch minted included,   *)
(* gets round a pause: balances and supply are frozen (_afterTokenTransfer).     *)
PauseFreezesTokens == [][tokenPaused => UNCHANGED <<balances, totalSupply>>]_tokenVars

(* The histories implement the voting history a governor relies on: the past    *)
(* is what held at the end of each block, and is never rewritten.               *)
Snapshots == [votes : [Accounts -> Uint224], supply : Uint224]
Current == [votes |-> [a \in Accounts |-> GetVotes(a)],
            supply |-> Latest(totalSupplyCheckpoints)]
PastAt(b) == [votes |-> [a \in Accounts |-> GetPastVotes(a, b)],
              supply |-> GetPastTotalSupply(b)]
Ended == [b \in 0..(block - 1) |-> PastAt(b)]

History == INSTANCE VotingHistory WITH
  Snapshots <- Snapshots, current <- Current, ended <- Ended

HistorySpec == History!Spec
================================================================================
