----------------------------- MODULE FarmGovernor ------------------------------
(* The DAO: the FarmGovernor contract with the token that weighs its votes, the *)
(* timelock that carries out its decisions and the Seed they are about.  One    *)
(* action is one transaction.  The calls of a proposal go to these contracts,   *)
(* none of which calls back, so that an execution is one step; what a call to   *)
(* a foreign contract may do meanwhile is TimeLockExecution's subject.          *)
EXTENDS Checkpoints, AccessControl, Sums

CONSTANTS
  Accounts,            \* every address: users, Deployer, Governor, Timelock
  Zero,                \* address(0); AnyAccount in the timelock's EXECUTOR role
  Deployer,            \* deploys the contracts and holds their admin roles
  Governor, Timelock,  \* addresses of the two contracts
  SeedContract,        \* address of the Seed
  Proposals,           \* identified by the hash of their calls and description
  Payload,             \* the call of each proposal: [kind, target, arg]
  InitialBalance,      \* tokens of each account when the governor is deployed
  InitialSettings,     \* the INITIAL_ constants of the governor
  InitialDelay,        \* minDelay of the timelock
  StartTime,
  Cancellers,          \* accounts given CANCELLER in the timelock
  RewardPool,          \* TOTAL_REWARD_POOL
  MaxSupply, MaxUint64, MaxUint256,  \* widths of the integers
  QuorumDenominator,   \* 100
  \* inputs of the transactions, and bounds
  Supports,            \* votes cast directly, of against, for and abstain
  SignedVotes,         \* votes by signature: [voter, proposal, support]
  Activities,          \* kinds of transactions that are sent, of AllActivities
  Users,               \* accounts that propose and vote, and get tokens
  TokenUsers,          \* accounts that transfer and delegate tokens
  Amounts,             \* of transfers, mints and single rewards
  SeedValues,          \* values stored directly by holders of STORE
  Periods,             \* arguments of updateVotingPeriod
  Fractions,           \* arguments of updateQuorumFraction
  SeedAddresses,       \* arguments of setSeedAddress
  RoleChanges,         \* <<role, account>> of the governor's role operations
  TimelockRoleChanges, \* <<role, account>> of the timelock's role operations
  SeedRoleChanges,     \* <<role, account>> of the Seed's role operations
  Delays,              \* delays of operations scheduled directly
  BlockTimes,          \* seconds between two blocks
  MaxBlock,            \* bound on the block number
  LastProposal         \* bound on the block a proposal is made in


ASSUME GovernorAssumption ==
  /\ IsFiniteSet(Accounts)       \* addresses have 160 bits
  /\ {Deployer, Governor, Timelock} \subseteq Accounts /\ Users \cup TokenUsers \subseteq Accounts
  /\ Zero \notin Accounts /\ Zero \notin Proposals
  /\ InitialBalance \in [Accounts -> 0..MaxSupply]
  /\ SumOver(InitialBalance, Accounts) \in 0..MaxSupply
  /\ \A p \in Proposals :
       Payload[p].kind \in {"votingDelay", "votingPeriod", "proposalThreshold",
                           "quorumNumerator", "updateVotingPeriod", "updateDelay"}
         => Payload[p].arg \in Nat
  /\ InitialSettings \in [votingDelay : Nat, votingPeriod : Nat \ {0},
                          proposalThreshold : Nat, quorumFraction : Nat]
  /\ InitialDelay \in Nat /\ StartTime \in Nat /\ StartTime > 1
  /\ Cancellers \subseteq Accounts
  /\ Supports \subseteq {"against", "for", "abstain"}
  /\ SignedVotes \subseteq [voter : Accounts, proposal : Proposals,
                           support : {"against", "for", "abstain"}]
  /\ RewardPool \in Nat /\ QuorumDenominator \in Nat \ {0}
  /\ InitialSettings.quorumFraction <= QuorumDenominator
  /\ MaxSupply \in Nat /\ MaxUint64 \in Nat /\ MaxUint256 \in Nat
  /\ MaxSupply <= MaxUint256
  /\ Periods \subseteq Nat /\ Fractions \subseteq Nat /\ Delays \subseteq Nat
  /\ Amounts \subseteq 0..MaxUint256 /\ BlockTimes \subseteq Nat \ {0}
  /\ MaxBlock \in Nat \ {0} /\ LastProposal \in Nat

VARIABLES
  \* PeachToken
  balances, totalSupply, allowances, delegates, checkpoints,
  totalSupplyCheckpoints, tokenPaused, tokenRoles,
  \* TimeLock
  timestamps, minDelay, timelockRoles,
  \* Seed
  seedValue, seedPaused, seedRoles,
  \* FarmGovernor
  proposals,        \* _proposals of Governor: voteStart, voteEnd, executed, canceled
  proposalVotes,    \* tallies of GovernorCountingSimple
  hasVoted,         \* and who voted, by proposal
  proposalVoters,   \* _proposalVoters and _proposalVotersList of FarmGovernor
  proposalVotersList,
  settings,         \* GovernorSettings, and FarmGovernor's own two values
  quorumHistory,    \* _quorumNumeratorHistory
  timelockIds,      \* proposals whose _timelockIds entry is set
  paused, governorRoles, seedAddress,
  \* the chain
  block, now

tokenState == <<balances, totalSupply, allowances, delegates, checkpoints,
                totalSupplyCheckpoints, tokenPaused, tokenRoles>>
timelockState == <<timestamps, minDelay, timelockRoles>>
seedState == <<seedValue, seedPaused, seedRoles>>
ballots == <<proposalVotes, hasVoted, proposalVoters, proposalVotersList>>
rules == <<settings, quorumHistory>>
admin == <<paused, governorRoles, seedAddress>>
governorState == <<proposals, ballots, rules, timelockIds, admin>>
chain == <<block, now>>
vars == <<tokenState, timelockState, seedState, governorState, chain>>

Token == INSTANCE PeachToken WITH
  Batches <- {}, AllowanceAmounts <- {}, RoleChanges <- {}
TL == INSTANCE TimeLock WITH
  Operations <- Proposals, NoOperation <- Zero,
  Predecessor <- [p \in Proposals |-> Zero], Self <- Timelock, AnyAccount <- Zero
SeedC == INSTANCE Seed

GovernorRoles == {"DEFAULT_ADMIN", "GOVERNOR", "REWARD"}

--------------------------------------------------------------------------------
(* Views *)

VotingDelay == settings.votingDelay
VotingPeriod == settings.customVotingPeriod      \* not GovernorSettings' own
ProposalThreshold == settings.proposalThreshold

Known(p) == proposals[p].voteStart # 0
Snapshot(p) == proposals[p].voteStart
Deadline(p) == proposals[p].voteEnd

QuorumNumeratorAt(b) == Lookup(quorumHistory, b)
Quorum(b) ==
  (Token!GetPastTotalSupply(b) * QuorumNumeratorAt(b)) \div QuorumDenominator

(* Mutant: abstentions do not count towards the quorum. *)
QuorumReachedByFor(p) == Quorum(Snapshot(p)) <= proposalVotes[p].for

(* Mutant: the quorum is computed with the latest fraction. *)
QuorumReachedNow(p) ==
  (Token!GetPastTotalSupply(Snapshot(p)) * Latest(quorumHistory)) \div QuorumDenominator
    <= proposalVotes[p].for + proposalVotes[p].abstain

QuorumReached(p) ==
  Quorum(Snapshot(p)) <= proposalVotes[p].for + proposalVotes[p].abstain

(* Mutant: a tie succeeds. *)
VoteSucceededOnTie(p) == proposalVotes[p].for >= proposalVotes[p].against

VoteSucceeded(p) == proposalVotes[p].for > proposalVotes[p].against

(* The outcome of the vote, then what became of it in the timelock. *)
QueueStatus(p) ==
  IF p \notin timelockIds THEN "Succeeded"
  ELSE IF TL!IsOperationDone(p) THEN "Executed"
  ELSE IF TL!IsOperationPending(p) THEN "Queued" ELSE "Canceled"

(* state(), which reverts on an unknown proposal. *)
ProposalState(p) ==
  CASE proposals[p].executed -> "Executed"
    [] ~proposals[p].executed /\ proposals[p].canceled -> "Canceled"
    [] OTHER ->
         IF ~Known(p) THEN "Unknown"
         ELSE IF Snapshot(p) >= block THEN "Pending"
         ELSE IF Deadline(p) >= block THEN "Active"
         ELSE IF QuorumReached(p) /\ VoteSucceeded(p) THEN QueueStatus(p)
         ELSE "Defeated"

--------------------------------------------------------------------------------
(* Proposing and voting *)

GovernorPropose(sender, p) ==
  LET start == block + VotingDelay
      end == start + VotingPeriod
  IN
  /\ block <= LastProposal
  /\ Token!GetPastVotes(sender, block - 1) >= ProposalThreshold
  /\ ~Known(p)
  /\ VotingDelay <= MaxUint64 /\ VotingPeriod <= MaxUint64 /\ end <= MaxUint64
  /\ proposals' = [proposals EXCEPT ![p].voteStart = start, ![p].voteEnd = end]
  /\ UNCHANGED <<tokenState, timelockState, seedState, ballots, rules,
                 timelockIds, admin, chain>>

Propose(sender, p) == ~paused /\ GovernorPropose(sender, p)

(* The call is store() on the address the governor has for the Seed.            *)
ProposeExecutionOnSeed(sender, p) ==
  /\ seedAddress # Zero
  /\ Payload[p].kind = "store" /\ Payload[p].target = seedAddress
  /\ Propose(sender, p)

(* Mutant: the weight is what the voter has when it votes. *)
VotingWeightNow(p, voter) == Token!GetVotes(voter)

VotingWeight(p, voter) == Token!GetPastVotes(voter, Snapshot(p))

CountSimple(p, voter, support, weight) ==
  /\ voter \notin hasVoted[p]
  /\ hasVoted' = [hasVoted EXCEPT ![p] = @ \cup {voter}]
  /\ proposalVotes' = [proposalVotes EXCEPT ![p][support] = @ + weight]

(* Mutant: only voters with votes are listed. *)
CountVoteListsWeighted(p, voter, support, weight) ==
  /\ CountSimple(p, voter, support, weight)
  /\ IF weight = 0
     THEN UNCHANGED <<proposalVoters, proposalVotersList>>
     ELSE /\ proposalVoters' = [proposalVoters EXCEPT ![p] = @ \cup {voter}]
          /\ proposalVotersList' = [proposalVotersList EXCEPT ![p] = Append(@, voter)]

(* FarmGovernor's own record of who voted, beside the counting module's.        *)
CountVote(p, voter, support, weight) ==
  /\ CountSimple(p, voter, support, weight)
  /\ IF voter \in proposalVoters[p]
     THEN UNCHANGED <<proposalVoters, proposalVotersList>>
     ELSE /\ proposalVoters' = [proposalVoters EXCEPT ![p] = @ \cup {voter}]
          /\ proposalVotersList' = [proposalVotersList EXCEPT ![p] = Append(@, voter)]

CastVote(voter, p, support) ==
  /\ ProposalState(p) = "Active"
  /\ CountVote(p, voter, support, VotingWeight(p, voter))
  /\ UNCHANGED <<tokenState, timelockState, seedState, proposals, rules,
                 timelockIds, admin, chain>>

(* Sent by anyone, as often as they like: a ballot has neither nonce nor        *)
(* deadline.  The voter is whoever the signature yields, for a signature that    *)
(* nobody made an account that nobody holds.                                     *)
CastVoteBySig(vote) == CastVote(vote.voter, vote.proposal, vote.support)

--------------------------------------------------------------------------------
(* Queueing, executing, cancelling *)

(* Mutant: the role for rewards is asked for. *)
MayRuleWithReward(sender) == HasRole(governorRoles, "REWARD", sender)

(* onlyRole(GOVERNOR_ROLE) on updateVotingPeriod and updateQuorumFraction.      *)
MayRule(sender) == HasRole(governorRoles, "GOVERNOR", sender)

(* Mutant: the outcome of the vote is not awaited. *)
QueueAnyTime(p) ==
  /\ Known(p)
  /\ TL!Schedule(Governor, p, minDelay)
  /\ timelockIds' = timelockIds \cup {p}
  /\ UNCHANGED <<tokenState, seedState, proposals, ballots, rules, admin, chain>>

Queue(p) ==
  /\ ProposalState(p) = "Succeeded"
  /\ TL!Schedule(Governor, p, minDelay)
  /\ timelockIds' = timelockIds \cup {p}
  /\ UNCHANGED <<tokenState, seedState, proposals, ballots, rules, admin, chain>>

(* _updateQuorumNumerator; the numerator the governor shows does not move.      *)
PushQuorumNumerator(fraction) ==
  /\ fraction <= QuorumDenominator
  /\ quorumHistory' = WriteCheckpoint(quorumHistory, block, fraction)

(* The setters of GovernorSettings and GovernorVotesQuorumFraction.             *)
SetBySetting(c) ==
  \/ /\ c.kind \in {"votingDelay", "votingPeriod", "proposalThreshold"}
     /\ c.kind = "votingPeriod" => c.arg > 0
     /\ settings' = [settings EXCEPT ![c.kind] = c.arg]
     /\ UNCHANGED quorumHistory
  \/ c.kind = "quorumNumerator" /\ PushQuorumNumerator(c.arg) /\ UNCHANGED settings

(* relay(): the governor calls the Seed, or itself as the admin of its roles.   *)
Relay(c) ==
  \/ c.kind = "relayPause" /\ SeedC!PauseSeed(Governor) /\ UNCHANGED governorRoles
  \/ /\ c.kind = "relayGrant" /\ HasRole(governorRoles, "DEFAULT_ADMIN", Governor)
     /\ governorRoles' = Granted(governorRoles, c.target, c.arg)
     /\ UNCHANGED seedState

(* Mutant: governance calls are accepted however the timelock executes them. *)
GovernanceCallsAnyhow(c, fromGovernor) ==
  \/ SetBySetting(c) /\ UNCHANGED <<seedState, governorRoles>>
  \/ Relay(c) /\ UNCHANGED rules

(* Calls that only governance may make: the timelock is the sender, and the     *)
(* governor's own execute() announced the call (onlyGovernance, _governanceCall).*)
(* A proposal has one call here, and none of those in PerformCall calls governor *)
(* or timelock again: what is announced is this call or, past the governor,      *)
(* nothing.  GovernorExecution has the queue, several calls and re-entrance.     *)
GovernanceCalls(c, fromGovernor) ==
  /\ fromGovernor
  /\ \/ SetBySetting(c) /\ UNCHANGED <<seedState, governorRoles>>
     \/ Relay(c) /\ UNCHANGED rules

(* The call of the proposal, made by the timelock.  A call to an address        *)
(* without code succeeds and does nothing.                                       *)
PerformCall(c, fromGovernor) ==
  \/ /\ c.kind = "store"
     /\ IF c.target = SeedContract THEN SeedC!Store(Timelock, c.arg)
                                   ELSE UNCHANGED seedState
     /\ UNCHANGED <<rules, governorRoles, minDelay>>
  \/ /\ c.kind = "updateVotingPeriod" /\ MayRule(Timelock)
     /\ settings' = [settings EXCEPT !.customVotingPeriod = c.arg]
     /\ UNCHANGED <<quorumHistory, seedState, governorRoles, minDelay>>
  \/ /\ c.kind = "updateDelay" /\ TL!UpdateDelay(Timelock, c.arg)
     /\ UNCHANGED <<rules, seedState, governorRoles>>
  \/ GovernanceCalls(c, fromGovernor) /\ UNCHANGED minDelay

(* executeBatch() of the timelock, sent by the governor or by anyone. *)
ExecuteBatch(sender, p, fromGovernor) ==
  /\ TL!MayExecute(sender)
  /\ TL!BeforeCall(p)
  /\ PerformCall(Payload[p], fromGovernor)
  /\ TL!AfterCall(p)
  /\ UNCHANGED <<tokenState, ballots, timelockIds, paused, seedAddress,
                 timelockRoles, chain>>

(* Mutant: what is queued is not taken for executable. *)
ExecuteOnlySucceeded(p) ==
  /\ ProposalState(p) = "Succeeded"
  /\ ExecuteBatch(Governor, p, TRUE)
  /\ proposals' = [proposals EXCEPT ![p].executed = TRUE]

Execute(p) ==
  /\ ProposalState(p) \in {"Succeeded", "Queued"}
  /\ ExecuteBatch(Governor, p, TRUE)
  /\ proposals' = [proposals EXCEPT ![p].executed = TRUE]

(* The same operation executed on the timelock, past the governor. *)
ExecuteOnTimelock(sender, p) ==
  /\ ExecuteBatch(sender, p, FALSE)
  /\ UNCHANGED proposals

GovernorCancel(p) ==
  /\ ProposalState(p) \notin {"Unknown", "Canceled", "Executed"}
  /\ proposals' = [proposals EXCEPT ![p].canceled = TRUE]

(* Mutant: a cancelled proposal leaves its operation in the timelock. *)
CancelKeepsOperation(p) ==
  GovernorCancel(p) /\ UNCHANGED <<timelockState, timelockIds>>

(* First in the governor, then in the timelock if it was queued there. *)
Cancel(p) ==
  /\ GovernorCancel(p)
  /\ IF p \in timelockIds
     THEN /\ TL!CancelOperation(Governor, p)
          /\ timelockIds' = timelockIds \ {p}
     ELSE UNCHANGED <<timelockState, timelockIds>>

CancelProposal(sender, p) ==
  /\ HasRole(governorRoles, "GOVERNOR", sender)
  /\ Cancel(p)
  /\ UNCHANGED <<tokenState, seedState, ballots, rules, admin, chain>>

--------------------------------------------------------------------------------
(* Rewards *)

TotalVotes(p) ==
  proposalVotes[p].against + proposalVotes[p].for + proposalVotes[p].abstain

(* Mutant: the pool is shared in proportion to the votes in favour. *)
RewardOnlyFor(p, voter) ==
  IF proposalVotes[p].for = 0 THEN 0
  ELSE (VotingWeight(p, voter) * RewardPool) \div proposalVotes[p].for

Reward(p, voter) == (VotingWeight(p, voter) * RewardPool) \div TotalVotes(p)

Ended(p) == ProposalState(p) \in {"Executed", "Defeated"}

RewardParticipants(sender, p) ==
  LET voters == proposalVotersList[p] IN
  /\ HasRole(governorRoles, "REWARD", sender)
  /\ Ended(p)
  /\ TotalVotes(p) > 0
  /\ \A i \in DOMAIN voters : VotingWeight(p, voters[i]) * RewardPool <= MaxUint256
  /\ Token!BatchMint(Governor, [i \in DOMAIN voters |->
                                  [to |-> voters[i], amount |-> Reward(p, voters[i])]])
  /\ UNCHANGED <<timelockState, seedState, governorState, now>>

RewardParticipant(sender, p, participant, amount) ==
  /\ HasRole(governorRoles, "GOVERNOR", sender)
  /\ Ended(p)
  /\ VotingWeight(p, participant) > 0
  /\ Token!Mint(Governor, participant, amount)
  /\ UNCHANGED <<timelockState, seedState, governorState, now>>

--------------------------------------------------------------------------------
(* Administration *)

UpdateVotingPeriod(sender, period) ==
  /\ MayRule(sender)
  /\ settings' = [settings EXCEPT !.customVotingPeriod = period]
  /\ UNCHANGED <<tokenState, timelockState, seedState, proposals, ballots,
                 quorumHistory, timelockIds, admin, chain>>

UpdateQuorumFraction(sender, fraction) ==
  /\ MayRule(sender)
  /\ PushQuorumNumerator(fraction)
  /\ UNCHANGED <<tokenState, timelockState, seedState, proposals, ballots,
                 settings, timelockIds, admin, chain>>

Administer(sender) ==
  /\ HasRole(governorRoles, "GOVERNOR", sender)
  /\ UNCHANGED <<tokenState, timelockState, seedState, proposals, ballots,
                 rules, timelockIds, governorRoles, chain>>

Pause(sender) ==
  Administer(sender) /\ ~paused /\ paused' = TRUE /\ UNCHANGED seedAddress

Unpause(sender) ==
  Administer(sender) /\ paused /\ paused' = FALSE /\ UNCHANGED seedAddress

SetSeedAddress(sender, address) ==
  /\ Administer(sender)
  /\ address # Zero
  /\ seedAddress' = address /\ UNCHANGED paused

ChangeRole(sender, role, account) ==
  /\ \/ /\ HasRole(governorRoles, "DEFAULT_ADMIN", sender)
        /\ governorRoles' \in {Granted(governorRoles, role, account),
                               Revoked(governorRoles, role, account)}
     \/ sender = account /\ governorRoles' = Revoked(governorRoles, role, account)
  /\ UNCHANGED <<tokenState, timelockState, seedState, proposals, ballots,
                 rules, timelockIds, paused, seedAddress, chain>>

(* Transactions sent to the timelock itself by holders of its roles.            *)
UseTimelock(sender) ==
  /\ \/ \E p \in Proposals :
          \/ block <= MaxBlock /\ \E delay \in Delays : TL!Schedule(sender, p, delay)
          \/ TL!CancelOperation(sender, p)
     \/ \E rc \in TimelockRoleChanges :
          \/ TL!GrantTimelockRole(sender, rc[1], rc[2])
          \/ TL!RevokeTimelockRole(sender, rc[1], rc[2])
          \/ sender = rc[2] /\ TL!RenounceTimelockRole(sender, rc[1])
  /\ UNCHANGED <<tokenState, seedState, governorState, chain>>

(* Transactions sent to the token. *)
UseToken(sender) ==
  /\ \/ \E d \in Users : Token!Delegate(sender, d)
     \/ \E to \in Users, n \in Amounts : Token!Transfer(sender, to, n)
  /\ UNCHANGED <<timelockState, seedState, governorState, now>>

MintTokens(sender, to, amount) ==
  /\ Token!Mint(sender, to, amount)
  /\ UNCHANGED <<timelockState, seedState, governorState, now>>

PauseToken(sender) ==
  /\ Token!Pause(sender) \/ Token!Unpause(sender)
  /\ UNCHANGED <<timelockState, seedState, governorState, now>>

(* Transactions sent to the Seed. *)
UseSeed(sender) ==
  /\ \/ SeedC!PauseSeed(sender) \/ SeedC!UnpauseSeed(sender)
     \/ \E n \in SeedValues : SeedC!Store(sender, n)
     \/ \E rc \in SeedRoleChanges :
          \/ SeedC!GrantSeedRole(sender, rc[1], rc[2])
          \/ SeedC!RevokeSeedRole(sender, rc[1], rc[2])
          \/ sender = rc[2] /\ SeedC!RenounceSeedRole(sender, rc[1])
  /\ UNCHANGED <<tokenState, timelockState, governorState, chain>>

(* The clock runs up to the bound, and beyond it while something waits for it:  *)
(* a vote that is not over or an operation that is not ready.                    *)
TimeMayPass ==
  \/ block < MaxBlock
  \/ \E p \in Proposals : \/ Known(p) /\ Deadline(p) >= block
                          \/ timestamps[p] > now

Mine ==
  /\ TimeMayPass
  /\ block' = block + 1
  /\ \E seconds \in BlockTimes : now' = now + seconds
  /\ UNCHANGED <<tokenState, timelockState, seedState, governorState>>
--------------------------------------------------------------------------------
(* The deployment: tokens are minted to users who delegate to themselves, then  *)
(* the timelock is deployed, the governor, and the Seed; the governor mints,    *)
(* proposes in the timelock, where anyone may execute, and may store and pause  *)
(* in the Seed; the deployer keeps its admin roles.  All in block 1.            *)
InitToken ==
  /\ balances = InitialBalance
  /\ totalSupply = SumOver(InitialBalance, Accounts)
  /\ allowances = [a \in Accounts |-> [b \in Accounts |-> 0]]
  /\ delegates = [a \in Accounts |-> IF InitialBalance[a] > 0 THEN a ELSE Zero]
  /\ checkpoints = [a \in Accounts |->
       IF InitialBalance[a] > 0 THEN <<[fromBlock |-> 1, votes |-> InitialBalance[a]]>>
       ELSE <<>>]
  /\ totalSupplyCheckpoints =
       <<[fromBlock |-> 1, votes |-> SumOver(InitialBalance, Accounts)]>>
  /\ tokenPaused = FALSE
  /\ tokenRoles = [r \in Token!TokenRoles |->
       IF r = "MINTER" THEN {Deployer, Governor} ELSE {Deployer}]

InitTimelock ==
  /\ timestamps = [p \in Proposals |-> 0]
  /\ minDelay = InitialDelay
  /\ timelockRoles = [r \in TL!TimelockRoles |->
       CASE r = "TIMELOCK_ADMIN" -> {Timelock, Deployer}
         [] r = "PROPOSER" -> {Governor}
         [] r = "EXECUTOR" -> {Zero}
         [] OTHER -> Cancellers]

InitSeed ==
  /\ seedValue = 0
  /\ seedPaused = FALSE
  /\ seedRoles = [r \in SeedC!SeedRoles |->
       CASE r = "DEFAULT_ADMIN" -> {Deployer, Timelock}
         [] r = "STORE" -> {Deployer, Governor, Timelock}
         [] OTHER -> {Deployer, Governor}]

InitGovernor ==
  /\ proposals = [p \in Proposals |-> [voteStart |-> 0, voteEnd |-> 0,
                                       executed |-> FALSE, canceled |-> FALSE]]
  /\ proposalVotes = [p \in Proposals |-> [against |-> 0, for |-> 0, abstain |-> 0]]
  /\ hasVoted = [p \in Proposals |-> {}]
  /\ proposalVoters = [p \in Proposals |-> {}]
  /\ proposalVotersList = [p \in Proposals |-> <<>>]
  /\ settings = [votingDelay |-> InitialSettings.votingDelay,
                 votingPeriod |-> InitialSettings.votingPeriod,
                 proposalThreshold |-> InitialSettings.proposalThreshold,
                 customVotingPeriod |-> InitialSettings.votingPeriod,
                 quorumNumerator |-> InitialSettings.quorumFraction]
  /\ quorumHistory =
       <<[fromBlock |-> 1, votes |-> InitialSettings.quorumFraction]>>
  /\ timelockIds = {}
  /\ paused = FALSE
  /\ governorRoles = [r \in GovernorRoles |->
       IF r = "DEFAULT_ADMIN" THEN {Deployer, Governor} ELSE {Deployer}]
  /\ seedAddress = SeedContract

Init == /\ InitToken /\ InitTimelock /\ InitSeed /\ InitGovernor
        /\ block = 1 /\ now = StartTime

AllActivities == {"vote", "enact", "cancel", "reward", "rules", "pause", "roles",
                  "token", "mint", "timelock"}

(* Contracts send no transactions of their own. *)
Senders == Accounts \ {Governor, Timelock}

Voting == \E s \in Users, p \in Proposals :
            \/ Propose(s, p) \/ ProposeExecutionOnSeed(s, p)
            \/ \E support \in Supports : CastVote(s, p, support)

VotingBySig == \E vote \in SignedVotes : CastVoteBySig(vote)

Enacting ==
  \E p \in Proposals :
    \/ Queue(p) \/ Execute(p)
    \/ \E s \in Users : ExecuteOnTimelock(s, p)

Cancelling == \E s \in Senders, p \in Proposals : CancelProposal(s, p)

Rewarding ==
  \E s \in Senders, p \in Proposals :
    \/ RewardParticipants(s, p)
    \/ \E a \in Users, n \in Amounts : RewardParticipant(s, p, a, n)

Ruling ==
  \E s \in Senders :
    \/ \E period \in Periods : UpdateVotingPeriod(s, period)
    \/ \E fraction \in Fractions : UpdateQuorumFraction(s, fraction)

Pausing == \E s \in Senders : Pause(s) \/ Unpause(s) \/ PauseToken(s) \/ UseSeed(s)

Appointing ==
  \E s \in Senders :
    \/ \E rc \in RoleChanges : ChangeRole(s, rc[1], rc[2])
    \/ \E a \in SeedAddresses : SetSeedAddress(s, a)

Next ==
  \/ Mine
  \/ "vote" \in Activities /\ Voting
  \/ "vote" \in Activities /\ VotingBySig
  \/ "enact" \in Activities /\ Enacting
  \/ "cancel" \in Activities /\ Cancelling
  \/ "reward" \in Activities /\ Rewarding
  \/ "rules" \in Activities /\ Ruling
  \/ "pause" \in Activities /\ Pausing
  \/ "roles" \in Activities /\ Appointing
  \/ "token" \in Activities /\ \E s \in TokenUsers : UseToken(s)
  \/ /\ "mint" \in Activities
     /\ \E s \in Senders, to \in Users, n \in Amounts : MintTokens(s, to, n)
  \/ "timelock" \in Activities /\ \E s \in Senders : UseTimelock(s)

Spec == Init /\ [][Next]_vars
================================================================================
