----------------------- MODULE GovernorProperties_proofs -----------------------
(* Who voted is recorded once and twice over, the outcome of a vote is final,   *)
(* tallies are the voters' votes at the snapshot, rewards share the pool, delays  *)
(* are kept whoever schedules, no quorum is out of reach, numbers fit their types *)
(* and, as long as the governor is the timelock's only proposer, timelock and     *)
(* governor agree, nothing is carried out without a quorum, and nothing stands in *)
(* the way of what passed.                                                         *)
(* The outcome is computed from histories that are written all the time:          *)
(* it is final because they are only written at the current block                 *)
(* (WriteKeepsPast) and the snapshot of a vote that is over is a past block.      *)
EXTENDS GovernorProperties, DataLemmas, TLAPS

Histories == Seq(Checkpoint(Nat, Nat))

TokenType ==
  /\ balances \in [Accounts -> Nat]
  /\ checkpoints \in [Accounts -> Histories]
  /\ totalSupplyCheckpoints \in Histories

RulesType ==
  /\ settings \in [votingDelay : Nat, votingPeriod : Nat, proposalThreshold : Nat,
                   customVotingPeriod : Nat, quorumNumerator : Nat]
  /\ quorumHistory \in Histories

Proposal == [voteStart : Nat, voteEnd : Nat, executed : BOOLEAN, canceled : BOOLEAN]

ProposalsType ==
  /\ proposals \in [Proposals -> Proposal]
  /\ \A p \in Proposals : Snapshot(p) <= Deadline(p)

Tally == [against : Nat, for : Nat, abstain : Nat]

BallotsType ==
  /\ proposalVotes \in [Proposals -> Tally]
  /\ hasVoted \in [Proposals -> SUBSET Accounts]
  /\ proposalVoters \in [Proposals -> SUBSET Accounts]
  /\ proposalVotersList \in [Proposals -> Seq(Accounts)]

QueueType ==
  /\ timestamps \in [Proposals -> Nat] /\ minDelay \in Nat
  /\ timelockIds \subseteq Proposals

ClockType == block \in Nat \ {0} /\ now \in Nat /\ now > 1

(* What the properties depend on keeps its type. *)
VType == /\ TokenType /\ RulesType /\ ProposalsType /\ BallotsType /\ QueueType
         /\ ClockType

(* A history that a transaction left alone or wrote at the current block. *)
Wrote(c, d) == d = c \/ \E v \in Nat : d = WriteCheckpoint(c, block, v)

--------------------------------------------------------------------------------
(* Transactions of the token *)

TokenWritten ==
  /\ \A a \in Accounts : Wrote(checkpoints[a], checkpoints'[a])
  /\ Wrote(totalSupplyCheckpoints, totalSupplyCheckpoints')

(* The token reads and writes histories as the governor does. *)
LEMMA SameHistories ==
  /\ \A c : Token!Latest(c) = Latest(c)
  /\ \A c, b, v : Token!WriteCheckpoint(c, b, v) = WriteCheckpoint(c, b, v)
  /\ \A c, b : Token!Lookup(c, b) = Lookup(c, b)
<1>1. \A c : Token!Latest(c) = Latest(c) BY DEF Token!Latest, Latest
<1>2. \A c, b, v : Token!WriteCheckpoint(c, b, v) = WriteCheckpoint(c, b, v)
  BY DEF Token!WriteCheckpoint, WriteCheckpoint
<1>3. \A c, b : Token!Lookup(c, b) = Lookup(c, b)
  BY DEF Token!Lookup, Token!ValuesAt, Token!InForce, Lookup, ValuesAt, InForce
<1> QED BY <1>1, <1>2, <1>3

LEMMA WroteType ==
  ASSUME NEW c \in Histories, NEW d, Wrote(c, d), block \in Nat
  PROVE  /\ d \in Histories
         /\ \A b \in Nat : b < block => Lookup(d, b) = Lookup(c, b)
<1>1. CASE d = c BY <1>1
<1>2. CASE \E v \in Nat : d = WriteCheckpoint(c, block, v)
  <2>1. PICK v \in Nat : d = WriteCheckpoint(c, block, v) BY <1>2
  <2>2. d \in Histories BY <2>1, WriteType DEF Histories
  <2>3. ASSUME NEW b \in Nat, b < block PROVE Lookup(d, b) = Lookup(c, b)
    BY <2>1, <2>3, WriteKeepsPast DEF Histories
  <2> QED BY <2>2, <2>3
<1> QED BY <1>1, <1>2 DEF Wrote

LEMMA LatestNat ==
  ASSUME NEW c \in Histories
  PROVE  Latest(c) \in Nat
BY LatestType DEF Histories

LEMMA GetVotesType ==
  ASSUME TokenType, NEW a \in Accounts
  PROVE  Token!GetVotes(a) \in Nat
<1>1. checkpoints[a] \in Histories BY DEF TokenType
<1> QED BY <1>1, LatestNat, SameHistories DEF Token!GetVotes

LEMMA LookupNat ==
  ASSUME NEW c \in Histories, NEW b
  PROVE  Lookup(c, b) \in Nat
BY LookupType DEF Histories

(* _moveVotingPower: the votes of the old delegate suffice. *)
LEMMA MovedVotes ==
  ASSUME TokenType, NEW src, NEW dst, NEW amount \in Nat,
         Token!MayMoveVotingPower(src, dst, amount), NEW a \in Accounts
  PROVE  Wrote(checkpoints[a], Token!MovedVotingPower(src, dst, amount)[a])
<1>0. Token!GetVotes(a) \in Nat BY GetVotesType
<1>1. CASE src = dst \/ amount = 0 \/ a \notin {src, dst}
  BY <1>1 DEF Token!MovedVotingPower, Wrote
<1>2. CASE src # dst /\ amount # 0 /\ a = src
  <2>1. Token!GetVotes(a) - amount \in Nat BY <1>0, <1>2 DEF Token!MayMoveVotingPower
  <2>2. Token!MovedVotingPower(src, dst, amount)[a]
          = WriteCheckpoint(checkpoints[a], block, Token!GetVotes(a) - amount)
    BY <1>2, SameHistories DEF Token!MovedVotingPower
  <2> QED BY <2>1, <2>2 DEF Wrote
<1>3. CASE src # dst /\ amount # 0 /\ a = dst
  <2>1. Token!GetVotes(a) + amount \in Nat BY <1>0
  <2>2. Token!MovedVotingPower(src, dst, amount)[a]
          = WriteCheckpoint(checkpoints[a], block, Token!GetVotes(a) + amount)
    BY <1>3, SameHistories DEF Token!MovedVotingPower
  <2> QED BY <2>1, <2>2 DEF Wrote
<1> QED BY <1>1, <1>2, <1>3

(* What a transaction of the token does to its histories. *)
LEMMA TokenWrites ==
  ASSUME TokenType, block \in Nat, TokenWritten, balances' \in [Accounts -> Nat],
         checkpoints' = [a \in Accounts |-> checkpoints'[a]]
  PROVE  TokenType'
<1>1. \A a \in Accounts : checkpoints'[a] \in Histories
  BY WroteType DEF TokenWritten, TokenType
<1>2. totalSupplyCheckpoints' \in Histories BY WroteType DEF TokenWritten, TokenType
<1> HIDE DEF Histories
<1>3. checkpoints' \in [Accounts -> Histories] BY <1>1
<1> QED BY <1>2, <1>3 DEF TokenType

LEMMA DelegateWrites ==
  ASSUME TokenType, block \in Nat, NEW s \in Accounts, NEW d, Token!Delegate(s, d)
  PROVE  TokenType' /\ TokenWritten
<1>1. balances[s] \in Nat BY DEF TokenType
<1>2. \A a \in Accounts : Wrote(checkpoints[a], checkpoints'[a])
  BY <1>1, MovedVotes DEF Token!Delegate
<1>3. TokenWritten BY <1>2 DEF TokenWritten, Wrote, Token!Delegate
<1>4. balances' \in [Accounts -> Nat] BY DEF TokenType, Token!Delegate, Token!erc20Vars
<1>5. checkpoints' = [a \in Accounts |-> checkpoints'[a]]
  BY DEF Token!Delegate, Token!MovedVotingPower
<1> QED BY <1>3, <1>4, <1>5, TokenWrites

LEMMA TransferWrites ==
  ASSUME TokenType, block \in Nat, NEW s \in Accounts, NEW to \in Accounts, NEW n \in Nat,
         Token!Transfer(s, to, n)
  PROVE  TokenType' /\ TokenWritten
<1>0. Token!TransferTokens(s, to, n) BY DEF Token!Transfer
<1>1. balances \in [Accounts -> Nat] BY DEF TokenType
<1>2. \A a \in Accounts : Wrote(checkpoints[a], checkpoints'[a])
  BY <1>0, MovedVotes DEF Token!TransferTokens
<1>3. TokenWritten BY <1>0, <1>2 DEF TokenWritten, Wrote, Token!TransferTokens
<1>4. balances' \in [Accounts -> Nat]
  BY <1>0, <1>1 DEF Token!TransferTokens
<1>5. checkpoints' = [a \in Accounts |-> checkpoints'[a]]
  BY <1>0 DEF Token!TransferTokens, Token!MovedVotingPower
<1> QED BY <1>3, <1>4, <1>5, TokenWrites

LEMMA BatchMintWrites ==
  ASSUME TokenType, block \in Nat, NEW s, NEW batch, Token!BatchMint(s, batch)
  PROVE  TokenType' /\ TokenWritten
<1> DEFINE credit == [a \in Accounts |-> Token!Credit(batch, {a})]
           votes == Token!VotesAfterMint(batch)
<1>0. Token!Uint224 \subseteq Nat BY GovernorAssumption DEF Token!Uint224
<1>1. credit \in [Accounts -> Token!Uint224] /\ votes \in [Accounts -> Token!Uint224]
  BY DEF Token!BatchMint
<1>2. \A a \in Accounts : Wrote(checkpoints[a], checkpoints'[a])
  <2> SUFFICES ASSUME NEW a \in Accounts PROVE Wrote(checkpoints[a], checkpoints'[a])
    OBVIOUS
  <2>1. checkpoints'[a] = IF votes[a] = Token!GetVotes(a) THEN checkpoints[a]
                          ELSE WriteCheckpoint(checkpoints[a], block, votes[a])
    BY SameHistories DEF Token!BatchMint
  <2>2. votes[a] \in Nat BY <1>0, <1>1
  <2> HIDE DEF votes
  <2> QED BY <2>1, <2>2 DEF Wrote
<1>3. Wrote(totalSupplyCheckpoints, totalSupplyCheckpoints')
  <2>1. Latest(totalSupplyCheckpoints) + Token!Credit(batch, Accounts) \in Nat
    BY <1>0, SameHistories DEF Token!BatchMint
  <2> QED BY <2>1, SameHistories DEF Token!BatchMint, Token!SupplyCheckpoint, Wrote
<1>4. balances' \in [Accounts -> Nat]
  <2>1. \A a \in Accounts : credit[a] \in Nat BY <1>0, <1>1
  <2>2. balances' = [a \in Accounts |-> balances[a] + credit[a]] BY DEF Token!BatchMint
  <2>3. \A a \in Accounts : balances[a] \in Nat BY DEF TokenType
  <2> HIDE DEF credit
  <2> QED BY <2>1, <2>2, <2>3
<1>5. checkpoints' = [a \in Accounts |-> checkpoints'[a]] BY DEF Token!BatchMint
<1> QED BY <1>2, <1>3, <1>4, <1>5, TokenWrites DEF TokenWritten

LEMMA NothingWrites ==
  ASSUME TokenType, UNCHANGED <<balances, checkpoints, totalSupplyCheckpoints>>
  PROVE  TokenType' /\ TokenWritten
BY DEF TokenType, TokenWritten, Wrote

--------------------------------------------------------------------------------
(* The kinds of steps, as far as the properties tell them apart. *)

(* The token and the rules change; proposals, votes and timelock do not. *)
Elsewhere ==
  /\ TokenType' /\ TokenWritten
  /\ RulesType' /\ Wrote(quorumHistory, quorumHistory')
  /\ UNCHANGED <<timelockState, proposals, ballots, timelockIds, chain>>

(* The timelock carries out the operation of a proposal, for the governor or for *)
(* somebody else.                                                                *)
Carry(p) == Execute(p) \/ \E s \in Users : ExecuteOnTimelock(s, p)

LEMMA NoRulesChange ==
  ASSUME VType, UNCHANGED rules
  PROVE  RulesType' /\ Wrote(quorumHistory, quorumHistory')
BY DEF VType, RulesType, rules, Wrote

LEMMA QuorumPushed ==
  ASSUME VType, NEW n \in Nat, PushQuorumNumerator(n)
  PROVE  quorumHistory' \in Histories /\ Wrote(quorumHistory, quorumHistory')
<1>1. quorumHistory \in Histories /\ block \in Nat BY DEF VType, RulesType, ClockType
<1>2. Wrote(quorumHistory, quorumHistory') BY DEF PushQuorumNumerator, Wrote
<1> QED BY <1>1, <1>2, WroteType

LEMMA RulingIsElsewhere ==
  ASSUME VType, Ruling
  PROVE  Elsewhere
<1>1. PICK s \in Senders :
        \/ \E period \in Periods : UpdateVotingPeriod(s, period)
        \/ \E fraction \in Fractions : UpdateQuorumFraction(s, fraction)
  BY DEF Ruling
<1>2. Periods \subseteq Nat /\ Fractions \subseteq Nat BY GovernorAssumption
<1>3. RulesType BY DEF VType
<1>4. CASE \E period \in Periods : UpdateVotingPeriod(s, period)
  <2>1. PICK period \in Periods : UpdateVotingPeriod(s, period) BY <1>4
  <2>2. RulesType' /\ Wrote(quorumHistory, quorumHistory')
    BY <1>2, <1>3, <2>1 DEF UpdateVotingPeriod, RulesType, Wrote
  <2>3. TokenType' /\ TokenWritten
    BY <2>1, NothingWrites DEF UpdateVotingPeriod, tokenState, VType
  <2> QED BY <2>1, <2>2, <2>3 DEF UpdateVotingPeriod, Elsewhere
<1>5. CASE \E fraction \in Fractions : UpdateQuorumFraction(s, fraction)
  <2>1. PICK fraction \in Fractions : UpdateQuorumFraction(s, fraction) BY <1>5
  <2>2. quorumHistory' \in Histories /\ Wrote(quorumHistory, quorumHistory')
    BY <1>2, <2>1, QuorumPushed DEF UpdateQuorumFraction
  <2>3. RulesType' BY <1>3, <2>1, <2>2 DEF UpdateQuorumFraction, RulesType
  <2>4. TokenType' /\ TokenWritten
    BY <2>1, NothingWrites DEF UpdateQuorumFraction, tokenState, VType
  <2> QED BY <2>1, <2>2, <2>3, <2>4 DEF UpdateQuorumFraction, Elsewhere
<1> QED BY <1>1, <1>4, <1>5

LEMMA AdministeringIsElsewhere ==
  ASSUME VType, UNCHANGED <<balances, checkpoints, totalSupplyCheckpoints, timelockState,
                            proposals, ballots, rules, timelockIds, chain>>
  PROVE  Elsewhere
BY NothingWrites, NoRulesChange DEF VType, Elsewhere

LEMMA TokenIsElsewhere ==
  ASSUME VType, TokenType', TokenWritten, UNCHANGED <<timelockState, governorState, chain>>
  PROVE  Elsewhere
BY NoRulesChange DEF Elsewhere, governorState, rules

LEMMA RewardingIsElsewhere ==
  ASSUME VType, Rewarding
  PROVE  Elsewhere
<1>0. TokenType /\ block \in Nat BY DEF VType, ClockType
<1>1. PICK s \in Senders, p \in Proposals :
        \/ RewardParticipants(s, p)
        \/ \E a \in Users, n \in Amounts : RewardParticipant(s, p, a, n)
  BY DEF Rewarding
<1>2. \E batch : Token!BatchMint(Governor, batch)
  BY <1>1 DEF RewardParticipants, RewardParticipant, Token!Mint
<1>3. UNCHANGED <<timelockState, governorState, now>>
  BY <1>1 DEF RewardParticipants, RewardParticipant
<1>4. UNCHANGED block BY <1>2 DEF Token!BatchMint
<1> QED BY <1>0, <1>2, <1>3, <1>4, BatchMintWrites, TokenIsElsewhere DEF chain

LEMMA UseTokenIsElsewhere ==
  ASSUME VType, NEW s \in TokenUsers, UseToken(s)
  PROVE  Elsewhere
<1>0. TokenType /\ block \in Nat BY DEF VType, ClockType
<1>1. s \in Accounts /\ Users \subseteq Accounts /\ Amounts \subseteq Nat
  BY GovernorAssumption
<1>2. TokenType' /\ TokenWritten
  BY <1>0, <1>1, DelegateWrites, TransferWrites DEF UseToken
<1>3. UNCHANGED <<timelockState, governorState, chain>>
  BY DEF UseToken, Token!Delegate, Token!Transfer, Token!TransferTokens, chain
<1> QED BY <1>2, <1>3, TokenIsElsewhere

LEMMA MintIsElsewhere ==
  ASSUME VType, NEW s, NEW to, NEW n, MintTokens(s, to, n)
  PROVE  Elsewhere
<1>0. TokenType /\ block \in Nat BY DEF VType, ClockType
<1>1. TokenType' /\ TokenWritten
  BY <1>0, BatchMintWrites DEF MintTokens, Token!Mint
<1>2. UNCHANGED <<timelockState, governorState, chain>>
  BY DEF MintTokens, Token!Mint, Token!BatchMint, chain
<1> QED BY <1>1, <1>2, TokenIsElsewhere

LEMMA PausingIsElsewhere ==
  ASSUME VType, Pausing
  PROVE  Elsewhere
<1>1. PICK s \in Senders : Pause(s) \/ Unpause(s) \/ PauseToken(s) \/ UseSeed(s)
  BY DEF Pausing
<1>2. CASE Pause(s) \/ Unpause(s)
  BY <1>2, AdministeringIsElsewhere DEF Pause, Unpause, Administer, tokenState
<1>3. CASE PauseToken(s)
  BY <1>3, AdministeringIsElsewhere
     DEF PauseToken, Token!Pause, Token!Unpause, Token!erc20Vars, Token!votesVars,
         governorState, chain
<1>4. CASE UseSeed(s)
  BY <1>4, AdministeringIsElsewhere DEF UseSeed, tokenState, governorState
<1> QED BY <1>1, <1>2, <1>3, <1>4

LEMMA AppointingIsElsewhere ==
  ASSUME VType, Appointing
  PROVE  Elsewhere
BY AdministeringIsElsewhere
   DEF Appointing, ChangeRole, SetSeedAddress, Administer, tokenState

LEMMA Kinds ==
  ASSUME VType, [Next]_vars
  PROVE  \/ Elsewhere
         \/ Mine
         \/ \E s \in Users, p \in Proposals : GovernorPropose(s, p)
         \/ \E v \in Accounts, p \in Proposals, support \in {"against", "for", "abstain"} :
              CastVote(v, p, support)
         \/ \E p \in Proposals : Queue(p) \/ Carry(p)
         \/ \E s \in Senders, p \in Proposals : CancelProposal(s, p)
         \/ \E s \in Senders : UseTimelock(s)
<1>1. CASE UNCHANGED vars
  BY <1>1, AdministeringIsElsewhere DEF vars, tokenState, governorState
<1>2. CASE Voting
  <2>1. Users \subseteq Accounts /\ Supports \subseteq {"against", "for", "abstain"}
    BY GovernorAssumption
  <2> QED BY <1>2, <2>1 DEF Voting, Propose, ProposeExecutionOnSeed
<1>3. CASE VotingBySig
  <2>1. SignedVotes \subseteq [voter : Accounts, proposal : Proposals,
                              support : {"against", "for", "abstain"}]
    BY GovernorAssumption
  <2> QED BY <1>3, <2>1 DEF VotingBySig, CastVoteBySig
<1>4. CASE Enacting BY <1>4 DEF Enacting, Carry
<1>5. CASE Cancelling BY <1>5 DEF Cancelling
<1> QED BY <1>1, <1>2, <1>3, <1>4, <1>5, RulingIsElsewhere, RewardingIsElsewhere,
       UseTokenIsElsewhere, MintIsElsewhere, PausingIsElsewhere, AppointingIsElsewhere
    DEF Next

--------------------------------------------------------------------------------
(* The types are kept. *)

LEMMA InitVType == Init => VType
<1> SUFFICES ASSUME Init PROVE VType OBVIOUS
<1>0. /\ InitialBalance \in [Accounts -> 0..MaxSupply]
      /\ SumOver(InitialBalance, Accounts) \in 0..MaxSupply /\ MaxSupply \in Nat
      /\ StartTime \in Nat /\ StartTime > 1 /\ InitialDelay \in Nat
      /\ InitialSettings \in [votingDelay : Nat, votingPeriod : Nat \ {0},
                              proposalThreshold : Nat, quorumFraction : Nat]
  BY GovernorAssumption
<1>1. ASSUME NEW n \in Nat PROVE <<[fromBlock |-> 1, votes |-> n]>> \in Histories
  BY DEF Histories, Checkpoint
<1>2. TokenType
  <2>1. balances \in [Accounts -> Nat] BY <1>0 DEF Init, InitToken
  <2>2. \A a \in Accounts : InitialBalance[a] \in Nat BY <1>0
  <2>3. \A a \in Accounts :
          (IF InitialBalance[a] > 0 THEN <<[fromBlock |-> 1, votes |-> InitialBalance[a]]>>
           ELSE <<>>) \in Histories
    BY <1>1, <2>2 DEF Histories
  <2>4. totalSupplyCheckpoints \in Histories BY <1>0, <1>1 DEF Init, InitToken
  <2> HIDE DEF Histories
  <2>5. checkpoints \in [Accounts -> Histories] BY <2>3 DEF Init, InitToken
  <2> QED BY <2>1, <2>4, <2>5 DEF TokenType
<1>3. RulesType BY <1>0, <1>1 DEF Init, InitGovernor, RulesType
<1>4. ProposalsType
  BY DEF Init, InitGovernor, ProposalsType, Proposal, Snapshot, Deadline
<1>5. BallotsType BY DEF Init, InitGovernor, BallotsType, Tally
<1>6. QueueType BY <1>0 DEF Init, InitGovernor, InitTimelock, QueueType
<1>7. ClockType BY <1>0 DEF Init, ClockType
<1> QED BY <1>2, <1>3, <1>4, <1>5, <1>6, <1>7 DEF VType

(* What an action does to the state that the properties depend on, apart from   *)
(* the token and the rules. *)
LEMMA ElsewhereType ==
  ASSUME VType, Elsewhere
  PROVE  VType'
BY DEF VType, Elsewhere, ProposalsType, Snapshot, Deadline, BallotsType, ballots,
       QueueType, timelockState, ClockType, chain

LEMMA MineType ==
  ASSUME VType, Mine
  PROVE  VType' /\ block' = block + 1
<1>1. block' = block + 1 /\ block \in Nat /\ now \in Nat /\ now > 1
  BY DEF Mine, VType, ClockType
<1>2. PICK seconds \in BlockTimes : now' = now + seconds BY DEF Mine
<1>3. seconds \in Nat BY GovernorAssumption
<1>4. ClockType' BY <1>1, <1>2, <1>3 DEF ClockType
<1>5. TokenType' BY DEF VType, TokenType, Mine, tokenState
<1>6. UNCHANGED <<timelockState, proposals, ballots, rules, timelockIds>>
  BY DEF Mine, governorState
<1> QED BY <1>1, <1>4, <1>5, <1>6
    DEF VType, RulesType, rules, ProposalsType, Snapshot, Deadline, BallotsType, ballots,
        QueueType, timelockState

LEMMA ProposeType ==
  ASSUME VType, NEW s, NEW p \in Proposals, GovernorPropose(s, p)
  PROVE  VType'
<1>1. /\ block \in Nat /\ VotingDelay \in Nat /\ VotingPeriod \in Nat
  BY DEF VType, ClockType, RulesType, VotingDelay, VotingPeriod
<1>2. PICK start \in Nat, end \in Nat :
        /\ start <= end
        /\ proposals' = [proposals EXCEPT ![p].voteStart = start, ![p].voteEnd = end]
  <2>1. block + VotingDelay \in Nat /\ block + VotingDelay + VotingPeriod \in Nat
    BY <1>1
  <2>2. block + VotingDelay <= block + VotingDelay + VotingPeriod BY <1>1
  <2> QED BY <2>1, <2>2 DEF GovernorPropose
<1>3. proposals \in [Proposals -> Proposal] BY DEF VType, ProposalsType
<1>4. ProposalsType'
  <2>1. proposals' \in [Proposals -> Proposal] BY <1>1, <1>2, <1>3 DEF Proposal
  <2>2. ASSUME NEW q \in Proposals PROVE Snapshot(q)' <= Deadline(q)'
    BY <1>1, <1>2, <1>3 DEF Snapshot, Deadline, VType, ProposalsType, Proposal
  <2> QED BY <2>1, <2>2 DEF ProposalsType
<1>5. UNCHANGED <<tokenState, timelockState, ballots, rules, timelockIds, chain>>
  BY DEF GovernorPropose
<1> QED BY <1>4, <1>5
    DEF VType, TokenType, tokenState, RulesType, rules, BallotsType, ballots,
        QueueType, timelockState, ClockType, chain

LEMMA CastVoteType ==
  ASSUME VType, NEW v \in Accounts, NEW p \in Proposals,
         NEW support \in {"against", "for", "abstain"}, CastVote(v, p, support)
  PROVE  VType'
<1>1. VotingWeight(p, v) \in Nat
  <2>1. checkpoints[v] \in Histories BY DEF VType, TokenType
  <2> QED BY <2>1, LookupNat, SameHistories DEF VotingWeight, Token!GetPastVotes
<1>2. BallotsType BY DEF VType
<1>3. BallotsType'
  <2>1. /\ hasVoted' = [hasVoted EXCEPT ![p] = @ \cup {v}]
        /\ proposalVotes' = [proposalVotes EXCEPT ![p][support] = @ + VotingWeight(p, v)]
        /\ \/ UNCHANGED <<proposalVoters, proposalVotersList>>
           \/ /\ proposalVoters' = [proposalVoters EXCEPT ![p] = @ \cup {v}]
              /\ proposalVotersList' = [proposalVotersList EXCEPT ![p] = Append(@, v)]
    BY DEF CastVote, CountVote, CountSimple
  <2>2. proposalVotes' \in [Proposals -> Tally]
    <3>1. proposalVotes[p] \in Tally BY <1>2 DEF BallotsType
    <3>2. proposalVotes[p][support] + VotingWeight(p, v) \in Nat BY <1>1, <3>1 DEF Tally
    <3>3. [proposalVotes[p] EXCEPT ![support] = @ + VotingWeight(p, v)] \in Tally
      BY <3>1, <3>2 DEF Tally
    <3> QED BY <1>2, <2>1, <3>3 DEF BallotsType
  <2>3. hasVoted' \in [Proposals -> SUBSET Accounts] BY <1>2, <2>1 DEF BallotsType
  <2>4. /\ proposalVoters' \in [Proposals -> SUBSET Accounts]
        /\ proposalVotersList' \in [Proposals -> Seq(Accounts)]
    <3>1. CASE UNCHANGED <<proposalVoters, proposalVotersList>>
      BY <1>2, <3>1 DEF BallotsType
    <3>2. CASE /\ proposalVoters' = [proposalVoters EXCEPT ![p] = @ \cup {v}]
               /\ proposalVotersList' = [proposalVotersList EXCEPT ![p] = Append(@, v)]
      BY <1>2, <3>2 DEF BallotsType
    <3> QED BY <2>1, <3>1, <3>2
  <2> QED BY <2>2, <2>3, <2>4 DEF BallotsType
<1>4. UNCHANGED <<tokenState, timelockState, proposals, rules, timelockIds, chain>>
  BY DEF CastVote
<1> QED BY <1>3, <1>4
    DEF VType, TokenType, tokenState, RulesType, rules, ProposalsType, Snapshot, Deadline,
        QueueType, timelockState, ClockType, chain

LEMMA QueueStep ==
  ASSUME VType, NEW p \in Proposals, Queue(p)
  PROVE  /\ VType'
         /\ timestamps[p] = 0
         /\ \E n \in Nat : n > 1 /\ timestamps' = [timestamps EXCEPT ![p] = n]
<1>1. TL!Schedule(Governor, p, minDelay) BY DEF Queue
<1>2. timestamps \in [Proposals -> Nat] /\ minDelay \in Nat /\ now \in Nat /\ now > 1
  BY DEF VType, QueueType, ClockType
<1>3. timestamps[p] = 0 BY <1>1, <1>2 DEF TL!Schedule, TL!IsOperation
<1>4. timestamps' = [timestamps EXCEPT ![p] = now + minDelay] /\ UNCHANGED minDelay
  BY <1>1 DEF TL!Schedule
<1>5. QueueType' BY <1>2, <1>4 DEF Queue, QueueType, VType
<1>6. UNCHANGED <<tokenState, proposals, ballots, rules, chain>> BY DEF Queue
<1>7. VType'
  BY <1>5, <1>6
     DEF VType, TokenType, tokenState, RulesType, rules, ProposalsType, Snapshot, Deadline,
         BallotsType, ballots, ClockType, chain
<1>8. now + minDelay \in Nat /\ now + minDelay > 1 BY <1>2
<1> QED BY <1>3, <1>4, <1>7, <1>8

LEMMA CancelStep ==
  ASSUME VType, NEW s, NEW p \in Proposals, CancelProposal(s, p)
  PROVE  /\ VType'
         /\ proposals' = [proposals EXCEPT ![p].canceled = TRUE]
         /\ \/ p \notin timelockIds /\ UNCHANGED <<timestamps, timelockIds>>
            \/ /\ timestamps' = [timestamps EXCEPT ![p] = 0]
               /\ timestamps[p] > 1 /\ timelockIds' = timelockIds \ {p}
         /\ UNCHANGED <<tokenState, ballots, rules, timelockRoles, chain>>
<1>1. proposals' = [proposals EXCEPT ![p].canceled = TRUE]
  BY DEF CancelProposal, Cancel, GovernorCancel
<1>2. \/ p \notin timelockIds /\ UNCHANGED <<timelockState, timelockIds>>
      \/ /\ TL!CancelOperation(Governor, p)
         /\ timelockIds' = timelockIds \ {p}
  BY DEF CancelProposal, Cancel
<1>3. /\ \/ p \notin timelockIds /\ UNCHANGED <<timestamps, timelockIds>>
         \/ /\ timestamps' = [timestamps EXCEPT ![p] = 0]
            /\ timestamps[p] > 1 /\ timelockIds' = timelockIds \ {p}
      /\ UNCHANGED <<minDelay, timelockRoles>>
  BY <1>2 DEF TL!CancelOperation, TL!IsOperationPending, TL!DONE, timelockState
<1>4. UNCHANGED <<tokenState, ballots, rules, chain>> BY DEF CancelProposal
<1>5. QueueType' BY <1>3 DEF QueueType, VType
<1>6. ProposalsType' BY <1>1 DEF VType, ProposalsType, Proposal, Snapshot, Deadline
<1>7. VType'
  BY <1>4, <1>5, <1>6
     DEF VType, TokenType, tokenState, RulesType, rules, BallotsType, ballots, ClockType, chain
<1> QED BY <1>1, <1>3, <1>4, <1>7

(* What the call of a proposal can change here: settings, fraction and delay.   *)
LEMMA CallStep ==
  ASSUME VType, NEW p \in Proposals, NEW fromGovernor, PerformCall(Payload[p], fromGovernor)
  PROVE  RulesType' /\ Wrote(quorumHistory, quorumHistory') /\ minDelay' \in Nat
<1> DEFINE c == Payload[p]
<1>0. RulesType /\ minDelay \in Nat BY DEF VType, QueueType
<1>1. /\ c.kind \in {"votingDelay", "votingPeriod", "proposalThreshold",
                     "quorumNumerator", "updateVotingPeriod", "updateDelay"} => c.arg \in Nat
  BY GovernorAssumption
<1> HIDE DEF c
<1>2. CASE UNCHANGED <<rules, minDelay>> BY <1>0, <1>2, NoRulesChange
<1>3. CASE /\ c.kind = "updateVotingPeriod" /\ UNCHANGED <<quorumHistory, minDelay>>
           /\ settings' = [settings EXCEPT !.customVotingPeriod = c.arg]
  BY <1>0, <1>1, <1>3 DEF RulesType, Wrote
<1>4. CASE c.kind = "updateDelay" /\ TL!UpdateDelay(Timelock, c.arg) /\ UNCHANGED rules
  BY <1>0, <1>1, <1>4, NoRulesChange DEF TL!UpdateDelay
<1>5. CASE SetBySetting(c) /\ UNCHANGED minDelay
  <2>1. CASE /\ c.kind \in {"votingDelay", "votingPeriod", "proposalThreshold"}
             /\ settings' = [settings EXCEPT ![c.kind] = c.arg]
             /\ UNCHANGED quorumHistory
    <3>1. settings' \in [votingDelay : Nat, votingPeriod : Nat, proposalThreshold : Nat,
                         customVotingPeriod : Nat, quorumNumerator : Nat]
      BY <1>0, <1>1, <2>1 DEF RulesType
    <3> QED BY <1>0, <1>5, <2>1, <3>1 DEF RulesType, Wrote
  <2>2. CASE c.kind = "quorumNumerator" /\ PushQuorumNumerator(c.arg) /\ UNCHANGED settings
    <3>1. c.arg \in Nat BY <1>1, <2>2
    <3>2. quorumHistory' \in Histories /\ Wrote(quorumHistory, quorumHistory')
      BY <2>2, <3>1, QuorumPushed
    <3> QED BY <1>0, <1>5, <2>2, <3>2 DEF RulesType
  <2> QED BY <1>5, <2>1, <2>2 DEF SetBySetting
<1> USE DEF c
<1> QED BY <1>2, <1>3, <1>4, <1>5 DEF PerformCall, GovernanceCalls, Relay, rules

LEMMA CarryStep ==
  ASSUME VType, NEW p \in Proposals, Carry(p)
  PROVE  /\ VType' /\ Wrote(quorumHistory, quorumHistory')
         /\ timestamps[p] > 1 /\ timestamps' = [timestamps EXCEPT ![p] = 1]
         /\ \/ UNCHANGED proposals
            \/ proposals' = [proposals EXCEPT ![p].executed = TRUE]
         /\ UNCHANGED <<tokenState, ballots, timelockIds, timelockRoles, chain>>
<1>1. PICK fromGovernor \in BOOLEAN :
        /\ \E sender : ExecuteBatch(sender, p, fromGovernor)
        /\ \/ UNCHANGED proposals
           \/ proposals' = [proposals EXCEPT ![p].executed = TRUE]
  BY DEF Carry, Execute, ExecuteOnTimelock
<1>2. /\ TL!AfterCall(p) /\ PerformCall(Payload[p], fromGovernor)
      /\ UNCHANGED <<tokenState, ballots, timelockIds, timelockRoles, chain>>
  BY <1>1 DEF ExecuteBatch
<1>3. timestamps[p] > 1 /\ timestamps' = [timestamps EXCEPT ![p] = 1]
  BY <1>2 DEF TL!AfterCall, TL!IsOperationReady, TL!DONE
<1>4. RulesType' /\ Wrote(quorumHistory, quorumHistory') /\ minDelay' \in Nat
  BY <1>2, CallStep
<1>5. QueueType' BY <1>2, <1>3, <1>4 DEF VType, QueueType
<1>6. ProposalsType' BY <1>1 DEF VType, ProposalsType, Proposal, Snapshot, Deadline
<1>7. TokenType' /\ BallotsType' /\ ClockType'
  BY <1>2 DEF VType, TokenType, tokenState, BallotsType, ballots, ClockType, chain
<1> QED BY <1>1, <1>2, <1>3, <1>4, <1>5, <1>6, <1>7 DEF VType

(* Transactions sent to the timelock: scheduling needs a proposer. *)
LEMMA UseTimelockStep ==
  ASSUME VType, NEW s \in Senders, UseTimelock(s)
  PROVE  /\ VType'
         /\ \/ UNCHANGED timestamps
            \/ \E p \in Proposals : timestamps[p] > 1
                                    /\ timestamps' = [timestamps EXCEPT ![p] = 0]
            \/ s \in timelockRoles["PROPOSER"]
         /\ UNCHANGED <<tokenState, governorState, chain>>
<1>0. timestamps \in [Proposals -> Nat] /\ minDelay \in Nat /\ now \in Nat
  BY DEF VType, QueueType, ClockType
<1>1. UNCHANGED minDelay
  BY DEF UseTimelock, TL!Schedule, TL!CancelOperation, TL!GrantTimelockRole,
         TL!RevokeTimelockRole, TL!RenounceTimelockRole
<1>2. \/ UNCHANGED timestamps
      \/ \E p \in Proposals : timestamps[p] > 1 /\ timestamps' = [timestamps EXCEPT ![p] = 0]
      \/ \E p \in Proposals, delay \in Delays : TL!Schedule(s, p, delay)
  BY DEF UseTimelock, TL!CancelOperation, TL!GrantTimelockRole, TL!RevokeTimelockRole,
         TL!RenounceTimelockRole, TL!IsOperationPending, TL!DONE
<1>3. ASSUME NEW p \in Proposals, NEW delay \in Delays, TL!Schedule(s, p, delay)
      PROVE  timestamps' \in [Proposals -> Nat] /\ s \in timelockRoles["PROPOSER"]
  <2>1. delay \in Nat BY GovernorAssumption
  <2>2. now + delay \in Nat BY <1>0, <2>1
  <2> QED BY <1>0, <1>3, <2>2 DEF TL!Schedule, TL!HasRole
<1>4. timestamps' \in [Proposals -> Nat] BY <1>0, <1>2, <1>3
<1>5. UNCHANGED <<tokenState, governorState, chain>> BY DEF UseTimelock
<1>6. QueueType' BY <1>0, <1>1, <1>4, <1>5 DEF QueueType, VType, governorState
<1>7. VType'
  BY <1>5, <1>6
     DEF VType, TokenType, tokenState, RulesType, rules, ProposalsType, Snapshot, Deadline,
         BallotsType, ballots, ClockType, chain, governorState
<1> QED BY <1>2, <1>3, <1>5, <1>7

LEMMA VTypeKept ==
  ASSUME VType, [Next]_vars
  PROVE  VType'
BY Kinds, ElsewhereType, MineType, ProposeType, CastVoteType, QueueStep, CarryStep,
   CancelStep, UseTimelockStep

LEMMA VTypeInvariant == Spec => []VType
<1>1. Init => VType BY InitVType
<1>2. VType /\ [Next]_vars => VType' BY VTypeKept
<1> QED BY <1>1, <1>2, PTL DEF Spec

--------------------------------------------------------------------------------
(* Delays *)

(* What a transaction does to the operations in the timelock: nothing, or it     *)
(* schedules, withdraws or carries out one of them.                              *)
Schedules(p) ==
  /\ timestamps[p] = 0
  /\ \E n \in Nat : /\ now + minDelay <= n /\ n <= MaxUint256
                    /\ timestamps' = [timestamps EXCEPT ![p] = n]

Withdraws(p) == timestamps[p] > 1 /\ timestamps' = [timestamps EXCEPT ![p] = 0]

CarriesOut(p) ==
  TL!IsOperationReady(p) /\ timestamps' = [timestamps EXCEPT ![p] = 1]

LEMMA ScheduleWaits ==
  ASSUME VType, NEW s, NEW p \in Proposals, NEW delay \in Nat, TL!Schedule(s, p, delay)
  PROVE  Schedules(p)
<1>1. timestamps \in [Proposals -> Nat] /\ minDelay \in Nat /\ now \in Nat
  BY DEF VType, QueueType, ClockType
<1>2. timestamps[p] = 0 BY <1>1 DEF TL!Schedule, TL!IsOperation
<1>3. /\ delay >= minDelay /\ now + delay <= MaxUint256
      /\ timestamps' = [timestamps EXCEPT ![p] = now + delay]
  BY DEF TL!Schedule
<1>4. now + delay \in Nat /\ now + minDelay <= now + delay BY <1>1, <1>3
<1> QED BY <1>2, <1>3, <1>4 DEF Schedules

LEMMA OperationsChange ==
  ASSUME VType, [Next]_vars
  PROVE  \/ UNCHANGED timestamps
         \/ \E p \in Proposals : Schedules(p) \/ Withdraws(p) \/ CarriesOut(p)
<1>1. ASSUME NEW p \in Proposals, Queue(p) PROVE Schedules(p)
  <2>1. minDelay \in Nat BY DEF VType, QueueType
  <2> QED BY <1>1, <2>1, ScheduleWaits DEF Queue
<1>2. ASSUME NEW p \in Proposals, Carry(p) PROVE CarriesOut(p)
  <2>1. TL!AfterCall(p) BY <1>2 DEF Carry, Execute, ExecuteOnTimelock, ExecuteBatch
  <2> QED BY <2>1 DEF TL!AfterCall, TL!DONE, CarriesOut
<1>3. ASSUME NEW s \in Senders, NEW p \in Proposals, CancelProposal(s, p)
      PROVE  UNCHANGED timestamps \/ Withdraws(p)
  BY <1>3, CancelStep DEF Withdraws
<1>4. ASSUME NEW s \in Senders, UseTimelock(s)
      PROVE  UNCHANGED timestamps \/ \E p \in Proposals : Schedules(p) \/ Withdraws(p)
  <2>1. ASSUME NEW p \in Proposals, NEW delay \in Delays, TL!Schedule(s, p, delay)
        PROVE  Schedules(p)
    <3>1. delay \in Nat BY GovernorAssumption
    <3> QED BY <2>1, <3>1, ScheduleWaits
  <2>2. ASSUME NEW p \in Proposals, TL!CancelOperation(s, p) PROVE Withdraws(p)
    BY <2>2 DEF TL!CancelOperation, TL!IsOperationPending, TL!DONE, Withdraws
  <2> QED BY <1>4, <2>1, <2>2
      DEF UseTimelock, TL!GrantTimelockRole, TL!RevokeTimelockRole, TL!RenounceTimelockRole
<1>5. Elsewhere \/ Mine \/ (\E s \in Users, p \in Proposals : GovernorPropose(s, p))
      \/ (\E v \in Accounts, p \in Proposals, support \in {"against", "for", "abstain"} :
             CastVote(v, p, support))
        => UNCHANGED timestamps
  BY DEF Elsewhere, Mine, GovernorPropose, CastVote, timelockState
<1> QED BY <1>1, <1>2, <1>3, <1>4, <1>5, Kinds

(* Whoever schedules, by whichever contract, an operation gets the minimum delay *)
(* of that moment and keeps the time it was given, although proposals change the  *)
(* delay meanwhile; it is carried out at that time or later, and only once        *)
(* (schedule, _afterCall). *)
THEOREM DelaysAreKept ==
  Spec => [][\A p \in Proposals :
               /\ ~TL!IsOperationDone(p) /\ timestamps'[p] = TL!DONE
                    => TL!IsOperationReady(p)
               /\ TL!IsOperationDone(p) => timestamps'[p] = TL!DONE
               /\ timestamps'[p] > TL!DONE =>
                    \/ timestamps'[p] = timestamps[p]
                    \/ timestamps[p] = 0 /\ timestamps'[p] >= now + minDelay]_vars
<1>1. ASSUME VType, [Next]_vars, NEW p \in Proposals
      PROVE  /\ timestamps[p] # 1 /\ timestamps'[p] = 1 => TL!IsOperationReady(p)
             /\ timestamps[p] = 1 => timestamps'[p] = 1
             /\ timestamps'[p] > 1 =>
                  \/ timestamps'[p] = timestamps[p]
                  \/ timestamps[p] = 0 /\ timestamps'[p] >= now + minDelay
  <2>0. /\ timestamps \in [Proposals -> Nat] /\ timestamps[p] \in Nat
        /\ minDelay \in Nat /\ now \in Nat /\ now > 1
    BY <1>1 DEF VType, QueueType, ClockType
  <2>1. CASE UNCHANGED timestamps BY <2>0, <2>1
  <2>2. ASSUME NEW q \in Proposals, Schedules(q)
        PROVE  \/ timestamps'[p] = timestamps[p]
               \/ /\ timestamps[p] = 0 /\ timestamps'[p] \in Nat
                  /\ timestamps'[p] >= now + minDelay
    BY <2>0, <2>2 DEF Schedules
  <2>3. ASSUME NEW q \in Proposals, Withdraws(q)
        PROVE  \/ timestamps'[p] = timestamps[p]
               \/ timestamps[p] > 1 /\ timestamps'[p] = 0
    BY <2>0, <2>3 DEF Withdraws
  <2>4. ASSUME NEW q \in Proposals, CarriesOut(q)
        PROVE  \/ timestamps'[p] = timestamps[p]
               \/ TL!IsOperationReady(p) /\ timestamps[p] > 1 /\ timestamps'[p] = 1
    BY <2>0, <2>4 DEF CarriesOut, TL!IsOperationReady, TL!DONE
  <2>5. CASE timestamps'[p] = timestamps[p] BY <2>0, <2>5
  <2>6. CASE /\ timestamps[p] = 0 /\ timestamps'[p] \in Nat
             /\ timestamps'[p] >= now + minDelay
    BY <2>0, <2>6
  <2> QED BY <1>1, <2>0, <2>1, <2>2, <2>3, <2>4, <2>5, <2>6, OperationsChange
<1>2. VType /\ [Next]_vars =>
        [\A p \in Proposals :
           /\ ~TL!IsOperationDone(p) /\ timestamps'[p] = TL!DONE => TL!IsOperationReady(p)
           /\ TL!IsOperationDone(p) => timestamps'[p] = TL!DONE
           /\ timestamps'[p] > TL!DONE =>
                \/ timestamps'[p] = timestamps[p]
                \/ timestamps[p] = 0 /\ timestamps'[p] >= now + minDelay]_vars
  BY <1>1 DEF TL!IsOperationDone, TL!DONE
<1> QED BY <1>2, VTypeInvariant, PTL DEF Spec

--------------------------------------------------------------------------------
(* Voters *)

LEMMA AppendVoter ==
  ASSUME NEW list \in Seq(Accounts), NEW v \in Accounts, IsInjective(list), v \notin Range(list)
  PROVE  IsInjective(Append(list, v)) /\ Range(Append(list, v)) = Range(list) \cup {v}
<1>1. /\ DOMAIN list = 1..Len(list) /\ Len(list) \in Nat
      /\ DOMAIN Append(list, v) = 1..(Len(list) + 1)
      /\ \A i \in 1..Len(list) : Append(list, v)[i] = list[i]
      /\ Append(list, v)[Len(list) + 1] = v
  OBVIOUS
<1>2. Range(Append(list, v)) = Range(list) \cup {v}
  <2>1. ASSUME NEW x \in Range(Append(list, v)) PROVE x \in Range(list) \cup {v}
    <3>1. PICK i \in 1..(Len(list) + 1) : x = Append(list, v)[i] BY <1>1, <2>1 DEF Range
    <3>2. i \in 1..Len(list) \/ i = Len(list) + 1 BY <1>1
    <3> QED BY <1>1, <3>1, <3>2 DEF Range
  <2>2. ASSUME NEW x \in Range(list) PROVE x \in Range(Append(list, v))
    <3>1. PICK i \in 1..Len(list) : x = list[i] BY <1>1, <2>2 DEF Range
    <3>2. i \in 1..(Len(list) + 1) BY <1>1
    <3> QED BY <1>1, <3>1, <3>2 DEF Range
  <2>3. v \in Range(Append(list, v))
    <3>1. Len(list) + 1 \in 1..(Len(list) + 1) BY <1>1
    <3> QED BY <1>1, <3>1 DEF Range
  <2> QED BY <2>1, <2>2, <2>3
<1>3. \A i \in 1..Len(list) : list[i] # v BY <1>1 DEF Range
<1>4. ASSUME NEW i \in 1..(Len(list) + 1), NEW j \in 1..(Len(list) + 1),
             Append(list, v)[i] = Append(list, v)[j]
      PROVE  i = j
  <2>1. /\ i \in 1..Len(list) \/ i = Len(list) + 1
        /\ j \in 1..Len(list) \/ j = Len(list) + 1
    BY <1>1
  <2> QED BY <1>1, <1>3, <1>4, <2>1 DEF IsInjective
<1> QED BY <1>1, <1>2, <1>4 DEF IsInjective

LEMMA VotersListedKept ==
  ASSUME VType, VotersListed, [Next]_vars
  PROVE  VotersListed'
<1>1. CASE UNCHANGED ballots BY <1>1 DEF VotersListed, ballots
<1>2. ASSUME NEW v \in Accounts, NEW p \in Proposals,
             NEW support \in {"against", "for", "abstain"}, CastVote(v, p, support)
      PROVE  VotersListed'
  <2>1. CountVote(p, v, support, VotingWeight(p, v)) BY <1>2 DEF CastVote
  <2>2. v \notin hasVoted[p] /\ hasVoted' = [hasVoted EXCEPT ![p] = @ \cup {v}]
    BY <2>1 DEF CountVote, CountSimple
  <2>3. v \notin proposalVoters[p] BY <2>2 DEF VotersListed
  <2>4. /\ proposalVoters' = [proposalVoters EXCEPT ![p] = @ \cup {v}]
        /\ proposalVotersList' = [proposalVotersList EXCEPT ![p] = Append(@, v)]
    BY <2>1, <2>3 DEF CountVote
  <2>5. /\ IsInjective(Append(proposalVotersList[p], v))
        /\ Range(Append(proposalVotersList[p], v)) = Range(proposalVotersList[p]) \cup {v}
    <3>1. proposalVotersList[p] \in Seq(Accounts) BY DEF VType, BallotsType
    <3>2. IsInjective(proposalVotersList[p]) /\ v \notin Range(proposalVotersList[p])
      BY <2>2 DEF VotersListed
    <3> QED BY <3>1, <3>2, AppendVoter
  <2>6. ASSUME NEW q \in Proposals
        PROVE  /\ Range(proposalVotersList'[q]) = hasVoted'[q]
               /\ proposalVoters'[q] = hasVoted'[q]
               /\ IsInjective(proposalVotersList'[q])
    <3>1. CASE q = p BY <2>2, <2>4, <2>5, <3>1 DEF VotersListed, VType, BallotsType
    <3>2. CASE q # p BY <2>2, <2>4, <3>2 DEF VotersListed, VType, BallotsType
    <3> QED BY <3>1, <3>2
  <2> QED BY <2>6 DEF VotersListed
<1>3. Mine \/ (\E s \in Users, p \in Proposals : GovernorPropose(s, p)) => UNCHANGED ballots
  BY DEF Mine, GovernorPropose, governorState
<1>4. \A p \in Proposals : Queue(p) \/ Carry(p) => UNCHANGED ballots
  BY CarryStep DEF Queue
<1>5. \A s \in Senders : UseTimelock(s) => UNCHANGED ballots
  BY DEF UseTimelock, governorState
<1>6. \A s \in Senders, p \in Proposals : CancelProposal(s, p) => UNCHANGED ballots
  BY DEF CancelProposal
<1> QED BY <1>1, <1>2, <1>3, <1>4, <1>5, <1>6, Kinds DEF Elsewhere

(* The list that rewards are paid on names every voter once and nobody else,    *)
(* for every governor and any number of voters (_countVote).                     *)
THEOREM VotersAreListed == Spec => []VotersListed
<1>1. Init => VotersListed
  <2> SUFFICES ASSUME Init, NEW p \in Proposals
               PROVE  /\ Range(proposalVotersList[p]) = hasVoted[p]
                      /\ proposalVoters[p] = hasVoted[p]
                      /\ IsInjective(proposalVotersList[p])
    BY DEF VotersListed
  <2>1. proposalVotersList[p] = <<>> /\ hasVoted[p] = {} /\ proposalVoters[p] = {}
    BY DEF Init, InitGovernor
  <2>2. Range(<<>>) = {} /\ IsInjective(<<>>) BY DEF Range, IsInjective
  <2> QED BY <2>1, <2>2
<1>2. VType /\ VotersListed /\ [Next]_vars => VotersListed' BY VotersListedKept
<1> QED BY <1>1, <1>2, VTypeInvariant, PTL DEF Spec

--------------------------------------------------------------------------------
(* Outcomes *)

LEMMA HistoriesKept ==
  ASSUME VType, [Next]_vars
  PROVE  /\ block' \in Nat /\ block <= block'
         /\ TokenWritten /\ Wrote(quorumHistory, quorumHistory')
<1>0. block \in Nat BY DEF VType, ClockType
<1>1. CASE Elsewhere BY <1>0, <1>1 DEF Elsewhere, chain
<1>2. CASE UNCHANGED <<tokenState, rules>> /\ (UNCHANGED chain \/ block' = block + 1)
  BY <1>0, <1>2, NothingWrites, NoRulesChange DEF VType, tokenState, chain
<1>3. ASSUME NEW p \in Proposals, Carry(p)
      PROVE  UNCHANGED <<tokenState, chain>> /\ Wrote(quorumHistory, quorumHistory')
  BY <1>3, CarryStep
<1>4. ASSUME NEW p \in Proposals, Carry(p) PROVE TokenWritten /\ block' = block
  BY <1>3, <1>4, NothingWrites DEF VType, tokenState, chain
<1>5. Mine => UNCHANGED <<tokenState, rules>> /\ block' = block + 1
  BY DEF Mine, governorState
<1>6. (\E s \in Users, p \in Proposals : GovernorPropose(s, p))
      \/ (\E v \in Accounts, p \in Proposals, support \in {"against", "for", "abstain"} :
             CastVote(v, p, support))
        => UNCHANGED <<tokenState, rules, chain>>
  BY DEF GovernorPropose, CastVote
<1>7. (\E p \in Proposals : Queue(p))
      \/ (\E s \in Senders, p \in Proposals : CancelProposal(s, p))
      \/ (\E s \in Senders : UseTimelock(s))
        => UNCHANGED <<tokenState, rules, chain>>
  BY DEF Queue, CancelProposal, UseTimelock, governorState
<1>8. ASSUME NEW p \in Proposals, Carry(p)
      PROVE  /\ block' \in Nat /\ block <= block'
             /\ TokenWritten /\ Wrote(quorumHistory, quorumHistory')
  BY <1>0, <1>3, <1>4, <1>8
<1> QED BY <1>1, <1>2, <1>5, <1>6, <1>7, <1>8, Kinds

(* The quorum of a past block is not written again. *)
LEMMA QuorumStays ==
  ASSUME VType, [Next]_vars, NEW b \in Nat, b < block
  PROVE  Quorum(b)' = Quorum(b)
<1>1. TokenWritten /\ Wrote(quorumHistory, quorumHistory') BY HistoriesKept
<1>2. /\ totalSupplyCheckpoints \in Histories /\ quorumHistory \in Histories /\ block \in Nat
  BY DEF VType, TokenType, RulesType, ClockType
<1> HIDE DEF Histories
<1>3. Lookup(totalSupplyCheckpoints', b) = Lookup(totalSupplyCheckpoints, b)
  BY <1>1, <1>2, WroteType DEF TokenWritten
<1>4. Lookup(quorumHistory', b) = Lookup(quorumHistory, b) BY <1>1, <1>2, WroteType
<1> QED BY <1>3, <1>4, SameHistories
    DEF Quorum, QuorumNumeratorAt, Token!GetPastTotalSupply

LEMMA ActiveVote ==
  ASSUME VType, NEW p \in Proposals, ProposalState(p) = "Active"
  PROVE  block <= Deadline(p)
<1>1. Deadline(p) \in Nat /\ block \in Nat
  BY DEF VType, ProposalsType, Proposal, Deadline, ClockType
<1>2. QueueStatus(p) # "Active"
  BY DEF QueueStatus
<1> QED BY <1>1, <1>2 DEF ProposalState

(* When its vote is over, a proposal keeps its dates and its votes. *)
LEMMA RecordStays ==
  ASSUME VType, [Next]_vars, NEW p \in Proposals, Known(p)
  PROVE  /\ proposals'[p].voteStart = proposals[p].voteStart
         /\ proposals'[p].voteEnd = proposals[p].voteEnd
         /\ Deadline(p) < block => proposalVotes'[p] = proposalVotes[p]
<1>0. /\ proposals \in [Proposals -> Proposal] /\ proposalVotes \in [Proposals -> Tally]
      /\ proposals[p].voteEnd \in Nat /\ block \in Nat
  BY DEF VType, ProposalsType, BallotsType, Proposal, ClockType
<1>1. CASE UNCHANGED <<proposals, proposalVotes>> BY <1>1
<1>2. ASSUME NEW s, NEW q \in Proposals, GovernorPropose(s, q)
      PROVE  proposals'[p] = proposals[p] /\ UNCHANGED proposalVotes
  BY <1>0, <1>2 DEF GovernorPropose, Known, ballots
<1>3. ASSUME NEW v \in Accounts, NEW q \in Proposals, NEW support, CastVote(v, q, support)
      PROVE  UNCHANGED proposals /\ (Deadline(p) < block => proposalVotes'[p] = proposalVotes[p])
  <2>1. block <= Deadline(q) BY <1>3, ActiveVote DEF CastVote
  <2>2. Deadline(p) < block => p # q BY <1>0, <2>1 DEF Deadline
  <2> QED BY <1>0, <1>3, <2>2 DEF CastVote, CountVote, CountSimple
<1>4. ASSUME NEW q \in Proposals, Queue(q) \/ Carry(q)
      PROVE  /\ proposals'[p].voteStart = proposals[p].voteStart
             /\ proposals'[p].voteEnd = proposals[p].voteEnd
             /\ UNCHANGED proposalVotes
  BY <1>0, <1>4, CarryStep DEF Queue, ballots, Proposal
<1>5. ASSUME NEW s, NEW q \in Proposals, CancelProposal(s, q)
      PROVE  /\ proposals'[p].voteStart = proposals[p].voteStart
             /\ proposals'[p].voteEnd = proposals[p].voteEnd
             /\ UNCHANGED proposalVotes
  BY <1>0, <1>5, CancelStep DEF ballots, Proposal
<1>6. Elsewhere \/ Mine \/ (\E s \in Senders : UseTimelock(s))
        => UNCHANGED <<proposals, proposalVotes>>
  BY DEF Elsewhere, Mine, UseTimelock, governorState, ballots
<1> QED BY <1>1, <1>2, <1>3, <1>4, <1>5, <1>6, Kinds

LEMMA PassedStays ==
  ASSUME VType, [Next]_vars, NEW p \in Proposals, VoteOver(p)
  PROVE  VoteOver(p)' /\ (Passed(p)' <=> Passed(p))
<1>0. VType' BY VTypeKept
<1>1. Known(p) /\ Deadline(p) < block BY DEF VoteOver
<1>2. PICK b \in Nat, e \in Nat :
        b = proposals[p].voteStart /\ e = proposals[p].voteEnd /\ b <= e
  BY DEF VType, ProposalsType, Proposal, Snapshot, Deadline
<1>3. /\ proposals'[p].voteStart = b /\ proposals'[p].voteEnd = e
      /\ proposalVotes'[p] = proposalVotes[p]
  BY <1>1, <1>2, RecordStays
<1>4. block \in Nat /\ block' \in Nat /\ block <= block'
  BY HistoriesKept DEF VType, ClockType
<1>5. e < block /\ b < block BY <1>1, <1>2, <1>4 DEF Deadline
<1>6. VoteOver(p)'
  BY <1>1, <1>2, <1>3, <1>4, <1>5 DEF VoteOver, Known, Deadline
<1>7. Quorum(b)' = Quorum(b) BY <1>5, QuorumStays
<1>8. QuorumReached(p)' <=> QuorumReached(p)
  <2>1. QuorumReached(p) <=> Quorum(b) <= proposalVotes[p].for + proposalVotes[p].abstain
    BY <1>2 DEF QuorumReached, Snapshot
  <2>2. QuorumReached(p)'
          <=> Quorum(b)' <= proposalVotes'[p].for + proposalVotes'[p].abstain
    BY <1>3 DEF QuorumReached, Snapshot, Quorum, QuorumNumeratorAt, Token!GetPastTotalSupply
  <2> QED BY <1>3, <1>7, <2>1, <2>2
<1>9. VoteSucceeded(p)' <=> VoteSucceeded(p) BY <1>3 DEF VoteSucceeded
<1> QED BY <1>6, <1>8, <1>9 DEF Passed

(* Whatever is minted, delegated or ruled since, and whoever votes late, the     *)
(* outcome of a vote that is over is what it was (state, _quorumReached).         *)
THEOREM OutcomesAreFinal == Spec => OutcomeIsFinal
<1>1. VType /\ [Next]_vars => [\A p \in Proposals : VoteOver(p) => Passed(p)' = Passed(p)]_vars
  <2> SUFFICES ASSUME VType, [Next]_vars, NEW p \in Proposals, VoteOver(p)
               PROVE  Passed(p)' = Passed(p)
    OBVIOUS
  <2>1. Passed(p)' <=> Passed(p) BY PassedStays
  <2>2. Passed(p) \in BOOLEAN /\ Passed(p)' \in BOOLEAN
    BY DEF Passed, VoteOver, Known, QuorumReached, VoteSucceeded
  <2> QED BY <2>1, <2>2
<1> QED BY <1>1, VTypeInvariant, PTL DEF Spec, OutcomeIsFinal

--------------------------------------------------------------------------------
(* Quorums *)

(* Every fraction ever recorded is at most the whole. *)
FractionsOK == quorumHistory \in Seq(Checkpoint(Nat, 0..QuorumDenominator))

LEMMA FractionChanges ==
  ASSUME VType, [Next]_vars
  PROVE  UNCHANGED quorumHistory \/ \E n \in Nat : PushQuorumNumerator(n)
<1>1. CASE UNCHANGED vars \/ Mine \/ Rewarding
  <2>1. UNCHANGED governorState
    BY <1>1 DEF vars, Mine, Rewarding, RewardParticipants, RewardParticipant
  <2> QED BY <2>1 DEF governorState, rules
<1>2. CASE Voting \/ VotingBySig \/ Cancelling
  BY <1>2 DEF Voting, VotingBySig, Cancelling, Propose, ProposeExecutionOnSeed,
              GovernorPropose, CastVoteBySig, CastVote, CancelProposal, rules
<1>3. ASSUME NEW p \in Proposals, Carry(p)
      PROVE  UNCHANGED quorumHistory \/ \E n \in Nat : PushQuorumNumerator(n)
  <2>1. PICK fromGovernor \in BOOLEAN : PerformCall(Payload[p], fromGovernor)
    BY <1>3 DEF Carry, Execute, ExecuteOnTimelock, ExecuteBatch
  <2>2. Payload[p].kind = "quorumNumerator" => Payload[p].arg \in Nat
    BY GovernorAssumption
  <2> QED BY <2>1, <2>2 DEF PerformCall, GovernanceCalls, SetBySetting, rules
<1>4. CASE Enacting
  <2>1. \A p \in Proposals : Queue(p) => UNCHANGED quorumHistory BY DEF Queue, rules
  <2> QED BY <1>3, <1>4, <2>1 DEF Enacting, Carry
<1>5. CASE Ruling
  <2>1. Fractions \subseteq Nat BY GovernorAssumption
  <2> QED BY <1>5, <2>1 DEF Ruling, UpdateVotingPeriod, UpdateQuorumFraction
<1>6. CASE Pausing
  BY <1>6 DEF Pausing, Pause, Unpause, PauseToken, UseSeed, Administer, governorState, rules
<1>7. CASE Appointing
  BY <1>7 DEF Appointing, ChangeRole, SetSeedAddress, Administer, rules
<1>8. CASE \/ \E s \in TokenUsers : UseToken(s)
           \/ \E s \in Senders, to \in Users, n \in Amounts : MintTokens(s, to, n)
           \/ \E s \in Senders : UseTimelock(s)
  BY <1>8 DEF UseToken, MintTokens, UseTimelock, governorState, rules
<1> QED BY <1>1, <1>2, <1>4, <1>5, <1>6, <1>7, <1>8 DEF Next

LEMMA FractionsKept ==
  ASSUME VType, FractionsOK, [Next]_vars
  PROVE  FractionsOK'
<1>1. CASE UNCHANGED quorumHistory BY <1>1 DEF FractionsOK
<1>2. ASSUME NEW n \in Nat, PushQuorumNumerator(n) PROVE FractionsOK'
  <2>1. /\ n \in 0..QuorumDenominator /\ block \in Nat
        /\ quorumHistory' = WriteCheckpoint(quorumHistory, block, n)
    BY <1>2, GovernorAssumption DEF PushQuorumNumerator, VType, ClockType
  <2> QED BY <2>1, WriteType DEF FractionsOK
<1> QED BY <1>1, <1>2, FractionChanges

LEMMA PartOfTheWhole ==
  ASSUME NEW s \in Nat, NEW d \in Nat \ {0}, NEW f \in 0..d
  PROVE  (s * f) \div d <= s
<1> DEFINE q == (s * f) \div d
<1>1. s * f <= s * d /\ s * f \in Nat OBVIOUS
<1>2. q \in Nat /\ d * q <= s * f BY <1>1, ShareBounds
<1> HIDE DEF q
<1>3. SUFFICES ASSUME q >= s + 1 PROVE FALSE BY <1>2 DEF q
<1>4. d * q >= d * (s + 1) BY <1>2, <1>3
<1>5. d * (s + 1) = s * d + d OBVIOUS
<1> QED BY <1>1, <1>2, <1>4, <1>5

(* However the fraction is set, by whom and in whatever block, no quorum is ever *)
(* more than the supply: a vote of everybody can always reach it                  *)
(* (_updateQuorumNumerator, quorum). *)
THEOREM QuorumsAreReachable ==
  Spec => [](\A b \in Nat : Quorum(b) <= Token!GetPastTotalSupply(b))
<1>1. Init => FractionsOK
  <2> SUFFICES ASSUME Init PROVE FractionsOK OBVIOUS
  <2> DEFINE n == InitialSettings.quorumFraction
             c == [fromBlock |-> 1, votes |-> n]
  <2>1. n \in 0..QuorumDenominator BY GovernorAssumption
  <2>2. quorumHistory = <<c>> BY DEF Init, InitGovernor
  <2>3. c \in Checkpoint(Nat, 0..QuorumDenominator) BY <2>1 DEF Checkpoint
  <2> QED BY <2>2, <2>3 DEF FractionsOK
<1>2. VType /\ FractionsOK /\ [Next]_vars => FractionsOK' BY FractionsKept
<1>3. VType /\ FractionsOK => \A b \in Nat : Quorum(b) <= Token!GetPastTotalSupply(b)
  <2> SUFFICES ASSUME VType, FractionsOK, NEW b \in Nat
               PROVE  Quorum(b) <= Token!GetPastTotalSupply(b)
    OBVIOUS
  <2>1. QuorumDenominator \in Nat \ {0} BY GovernorAssumption
  <2>2. QuorumNumeratorAt(b) \in 0..QuorumDenominator
    BY <2>1, LookupType DEF FractionsOK, QuorumNumeratorAt
  <2>3. Token!GetPastTotalSupply(b) \in Nat
    BY LookupNat, SameHistories DEF VType, TokenType, Token!GetPastTotalSupply
  <2> QED BY <2>1, <2>2, <2>3, PartOfTheWhole DEF Quorum
<1> QED BY <1>1, <1>2, <1>3, VTypeInvariant, PTL DEF Spec

--------------------------------------------------------------------------------
(* Timelock and governor, in a deployment whose timelock keeps the governor its  *)
(* only proposer.                                                                *)
OnlyGovernorProposes == \A rc \in TimelockRoleChanges : rc[1] = "PROPOSER" => rc[2] = Governor

ProposersOK ==
  /\ timelockRoles = [r \in TL!TimelockRoles |-> timelockRoles[r]]
  /\ timelockRoles["PROPOSER"] \subseteq {Governor}

(* What the timelock knows was queued by the governor, passed and is not         *)
(* cancelled; what the governor executed, the timelock executed.                 *)
Held(p) ==
  /\ timestamps[p] > 0 => p \in timelockIds /\ ~proposals[p].canceled /\ Passed(p)
  /\ proposals[p].executed => timestamps[p] = 1

KInv == VType /\ ProposersOK /\ \A p \in Proposals : Held(p)

(* Only transactions sent to the timelock change its roles. *)
LEMMA TimelockRolesStay ==
  ASSUME VType, [Next]_vars
  PROVE  UNCHANGED timelockRoles \/ \E s \in Senders : UseTimelock(s)
<1>1. ASSUME NEW p \in Proposals, Queue(p) PROVE UNCHANGED timelockRoles
  BY <1>1 DEF Queue, TL!Schedule
<1>2. ASSUME NEW p \in Proposals, Carry(p) PROVE UNCHANGED timelockRoles
  BY <1>2, CarryStep
<1>3. ASSUME NEW s, NEW p \in Proposals, CancelProposal(s, p) PROVE UNCHANGED timelockRoles
  BY <1>3, CancelStep
<1>4. Elsewhere \/ Mine \/ (\E s \in Users, p \in Proposals : GovernorPropose(s, p))
      \/ (\E v \in Accounts, p \in Proposals, support \in {"against", "for", "abstain"} :
             CastVote(v, p, support))
        => UNCHANGED timelockRoles
  BY DEF Elsewhere, Mine, GovernorPropose, CastVote, timelockState
<1> QED BY <1>1, <1>2, <1>3, <1>4, Kinds

LEMMA ProposersKept ==
  ASSUME OnlyGovernorProposes, VType, ProposersOK, [Next]_vars
  PROVE  ProposersOK'
<1>1. CASE UNCHANGED timelockRoles BY <1>1 DEF ProposersOK
<1>2. ASSUME NEW s, UseTimelock(s) PROVE ProposersOK'
  <2>1. CASE \E p \in Proposals :
               (\E delay \in Delays : TL!Schedule(s, p, delay)) \/ TL!CancelOperation(s, p)
    BY <1>1, <2>1 DEF TL!Schedule, TL!CancelOperation
  <2>2. ASSUME NEW rc \in TimelockRoleChanges,
               \/ timelockRoles' = TL!Granted(timelockRoles, rc[1], rc[2])
               \/ \E a : timelockRoles' = TL!Revoked(timelockRoles, rc[1], a)
        PROVE  ProposersOK'
    <3>1. rc[1] = "PROPOSER" => rc[2] = Governor BY DEF OnlyGovernorProposes
    <3> DEFINE role == rc[1]
    <3>2. timelockRoles' = [r \in TL!TimelockRoles |-> timelockRoles'[r]]
      BY <2>2 DEF ProposersOK, TL!Granted, TL!Revoked
    <3>3. timelockRoles'["PROPOSER"] \subseteq {Governor}
      BY <2>2, <3>1 DEF ProposersOK, TL!Granted, TL!Revoked, TL!TimelockRoles
    <3> QED BY <3>2, <3>3 DEF ProposersOK
  <2> QED BY <1>2, <2>1, <2>2
      DEF UseTimelock, TL!GrantTimelockRole, TL!RevokeTimelockRole, TL!RenounceTimelockRole
<1> QED BY <1>1, <1>2, TimelockRolesStay

LEMMA StatesOfAVote ==
  ASSUME VType, NEW p \in Proposals
  PROVE  /\ ProposalState(p) \in {"Succeeded", "Queued"} =>
              Passed(p) /\ ~proposals[p].executed /\ ~proposals[p].canceled
         /\ ProposalState(p) = "Succeeded" => p \notin timelockIds
         /\ ProposalState(p) \notin {"Canceled", "Executed"} =>
              ~proposals[p].executed /\ ~proposals[p].canceled
         /\ Passed(p) /\ ~proposals[p].executed /\ ~proposals[p].canceled
              => ProposalState(p) = QueueStatus(p)
<1>1. /\ Snapshot(p) \in Nat /\ Deadline(p) \in Nat /\ block \in Nat
      /\ Snapshot(p) <= Deadline(p)
      /\ proposals[p].executed \in BOOLEAN /\ proposals[p].canceled \in BOOLEAN
  BY DEF VType, ProposalsType, Proposal, Snapshot, Deadline, ClockType
<1>2. QueueStatus(p) = "Succeeded" => p \notin timelockIds BY DEF QueueStatus
<1> QED BY <1>1, <1>2 DEF ProposalState, Passed, VoteOver

LEMMA HeldKept ==
  ASSUME KInv, [Next]_vars, NEW p \in Proposals
  PROVE  Held(p)'
<1>0. /\ VType /\ Held(p) /\ timestamps \in [Proposals -> Nat]
      /\ proposals \in [Proposals -> Proposal]
  BY DEF KInv, VType, QueueType, ProposalsType
<1>1. Passed(p) => Passed(p)' BY <1>0, PassedStays DEF Passed
<1>2. CASE /\ UNCHANGED <<timestamps, timelockIds>>
           /\ proposals'[p].canceled = proposals[p].canceled
           /\ proposals'[p].executed = proposals[p].executed
  BY <1>0, <1>1, <1>2 DEF Held
<1>3. ASSUME NEW s, NEW q \in Proposals, GovernorPropose(s, q) PROVE Held(p)'
  <2>1. UNCHANGED <<timestamps, timelockIds>> BY <1>3 DEF GovernorPropose, timelockState
  <2>2. proposals'[p].canceled = proposals[p].canceled
        /\ proposals'[p].executed = proposals[p].executed
    BY <1>0, <1>3 DEF GovernorPropose, Proposal
  <2> QED BY <1>2, <2>1, <2>2
<1>4. ASSUME NEW q \in Proposals, Queue(q) PROVE Held(p)'
  <2>1. ProposalState(q) = "Succeeded" /\ timelockIds' = timelockIds \cup {q}
        /\ UNCHANGED proposals
    BY <1>4 DEF Queue
  <2>2. Passed(q) /\ ~proposals[q].executed /\ ~proposals[q].canceled
    BY <1>0, <2>1, StatesOfAVote
  <2>3. PICK n \in Nat : timestamps' = [timestamps EXCEPT ![q] = n]
    BY <1>0, <1>4, QueueStep
  <2> QED BY <1>0, <1>1, <2>1, <2>2, <2>3 DEF Held
<1>5. ASSUME NEW q \in Proposals, Carry(q) PROVE Held(p)'
  <2>1. /\ timestamps[q] > 1 /\ timestamps' = [timestamps EXCEPT ![q] = 1]
        /\ UNCHANGED timelockIds
        /\ \/ UNCHANGED proposals
           \/ proposals' = [proposals EXCEPT ![q].executed = TRUE]
    BY <1>0, <1>5, CarryStep
  <2>2. proposals'[p].canceled = proposals[p].canceled
    BY <1>0, <2>1 DEF Proposal
  <2>3. p # q => proposals'[p].executed = proposals[p].executed
    BY <1>0, <2>1 DEF Proposal
  <2> QED BY <1>0, <1>1, <2>1, <2>2, <2>3 DEF Held
<1>6. ASSUME NEW s, NEW q \in Proposals, CancelProposal(s, q) PROVE Held(p)'
  <2>1. /\ proposals' = [proposals EXCEPT ![q].canceled = TRUE]
        /\ \/ q \notin timelockIds /\ UNCHANGED <<timestamps, timelockIds>>
           \/ /\ timestamps' = [timestamps EXCEPT ![q] = 0]
              /\ timestamps[q] > 1 /\ timelockIds' = timelockIds \ {q}
    BY <1>0, <1>6, CancelStep
  <2>2. proposals'[p].executed = proposals[p].executed
        /\ (p # q => proposals'[p].canceled = proposals[p].canceled)
    BY <1>0, <2>1 DEF Proposal
  <2>3. Held(q) BY DEF KInv
  <2> QED BY <1>0, <1>1, <2>1, <2>2, <2>3 DEF Held
<1>7. ASSUME NEW s \in Senders, UseTimelock(s) PROVE Held(p)'
  <2>1. \/ UNCHANGED timestamps
        \/ \E q \in Proposals : timestamps[q] > 1 /\ timestamps' = [timestamps EXCEPT ![q] = 0]
        \/ s \in timelockRoles["PROPOSER"]
    BY <1>0, <1>7, UseTimelockStep
  <2>2. s \notin timelockRoles["PROPOSER"] BY DEF KInv, ProposersOK, Senders
  <2>3. UNCHANGED <<proposals, timelockIds>> BY <1>7 DEF UseTimelock, governorState
  <2> QED BY <1>0, <1>1, <2>1, <2>2, <2>3 DEF Held
<1>8. Elsewhere \/ Mine
      \/ (\E v \in Accounts, q \in Proposals, support \in {"against", "for", "abstain"} :
             CastVote(v, q, support))
        => UNCHANGED <<timestamps, timelockIds, proposals>>
  BY DEF Elsewhere, Mine, CastVote, timelockState, governorState
<1> QED BY <1>0, <1>2, <1>3, <1>4, <1>5, <1>6, <1>7, <1>8, Kinds

LEMMA KInvInvariant ==
  ASSUME OnlyGovernorProposes
  PROVE  Spec => []KInv
<1>1. Init => KInv
  <2> SUFFICES ASSUME Init PROVE KInv OBVIOUS
  <2>1. VType BY InitVType
  <2>2. ProposersOK BY DEF Init, InitTimelock, ProposersOK, TL!TimelockRoles
  <2>3. \A p \in Proposals : Held(p) BY DEF Init, InitTimelock, InitGovernor, Held
  <2> QED BY <2>1, <2>2, <2>3 DEF KInv
<1>2. KInv /\ [Next]_vars => KInv'
  <2> SUFFICES ASSUME KInv, [Next]_vars PROVE KInv' OBVIOUS
  <2>1. VType' /\ ProposersOK' BY VTypeKept, ProposersKept DEF KInv
  <2>2. \A p \in Proposals : Held(p)' BY HeldKept
  <2> QED BY <2>1, <2>2 DEF KInv
<1> QED BY <1>1, <1>2, PTL DEF Spec

(* As long as nobody else may propose, the timelock holds only proposals that    *)
(* passed their vote (queue). *)
THEOREM TimelockHoldsPassed ==
  ASSUME OnlyGovernorProposes
  PROVE  Spec => []OnlyPassedIsTimelocked
<1>1. KInv => OnlyPassedIsTimelocked
  BY DEF KInv, Held, OnlyPassedIsTimelocked, TL!IsOperation
<1> QED BY <1>1, KInvInvariant, PTL

(* As long as nobody else may propose, governor and timelock agree on what is    *)
(* queued and what is executed, through whichever of them it was.                *)
THEOREM TimelockAndGovernorAgree ==
  ASSUME OnlyGovernorProposes
  PROVE  Spec => []TimelockAgrees
<1>1. ASSUME KInv PROVE TimelockAgrees
  <2> SUFFICES ASSUME NEW p \in Proposals
               PROVE  /\ TL!IsOperationDone(p) <=> ProposalState(p) = "Executed"
                      /\ TL!IsOperationPending(p) <=> ProposalState(p) = "Queued"
    BY DEF TimelockAgrees
  <2>0. /\ VType /\ Held(p) /\ timestamps[p] \in Nat
        /\ proposals[p].executed \in BOOLEAN /\ proposals[p].canceled \in BOOLEAN
    BY <1>1 DEF KInv, VType, QueueType, ProposalsType, Proposal
  <2>1. CASE proposals[p].executed
    BY <2>0, <2>1 DEF Held, ProposalState, TL!IsOperationDone, TL!IsOperationPending, TL!DONE
  <2>2. CASE ~proposals[p].executed /\ timestamps[p] = 0
    <3>1. QueueStatus(p) \notin {"Executed", "Queued"}
      BY <2>0, <2>2 DEF QueueStatus, TL!IsOperationDone, TL!IsOperationPending, TL!DONE
    <3>2. ProposalState(p) \notin {"Executed", "Queued"}
      BY <2>0, <2>2, <3>1 DEF ProposalState
    <3> QED BY <2>2, <3>2 DEF TL!IsOperationDone, TL!IsOperationPending, TL!DONE
  <2>3. CASE ~proposals[p].executed /\ timestamps[p] > 0
    <3>1. p \in timelockIds /\ ~proposals[p].canceled /\ Passed(p) BY <2>0, <2>3 DEF Held
    <3>2. ProposalState(p) = QueueStatus(p) BY <2>0, <2>3, <3>1, StatesOfAVote
    <3>3. QueueStatus(p) = IF timestamps[p] = 1 THEN "Executed" ELSE "Queued"
      BY <2>0, <2>3, <3>1 DEF QueueStatus, TL!IsOperationDone, TL!IsOperationPending, TL!DONE
    <3> QED BY <2>0, <2>3, <3>2, <3>3 DEF TL!IsOperationDone, TL!IsOperationPending, TL!DONE
  <2> QED BY <2>0, <2>1, <2>2, <2>3
<1> QED BY <1>1, KInvInvariant, PTL

(* The governor stays a proposer and execution stays open, as deployed. *)
GovernorKeepsRoles ==
  \A rc \in TimelockRoleChanges : /\ rc[1] = "PROPOSER" => rc[2] # Governor
                                  /\ rc[1] = "EXECUTOR" => rc[2] # Zero

OpenRoles ==
  /\ timelockRoles = [r \in TL!TimelockRoles |-> timelockRoles[r]]
  /\ Governor \in timelockRoles["PROPOSER"] /\ Zero \in timelockRoles["EXECUTOR"]

LEMMA OpenRolesKept ==
  ASSUME GovernorKeepsRoles, VType, OpenRoles, [Next]_vars
  PROVE  OpenRoles'
<1>1. CASE UNCHANGED timelockRoles BY <1>1 DEF OpenRoles
<1>2. ASSUME NEW rc \in TimelockRoleChanges,
             \/ timelockRoles' = TL!Granted(timelockRoles, rc[1], rc[2])
             \/ timelockRoles' = TL!Revoked(timelockRoles, rc[1], rc[2])
      PROVE  OpenRoles'
  <2>1. /\ rc[1] = "PROPOSER" => rc[2] # Governor
        /\ rc[1] = "EXECUTOR" => rc[2] # Zero
    BY DEF GovernorKeepsRoles
  <2>2. timelockRoles' = [r \in TL!TimelockRoles |-> timelockRoles'[r]]
    BY <1>2 DEF OpenRoles, TL!Granted, TL!Revoked
  <2>3. Governor \in timelockRoles'["PROPOSER"] /\ Zero \in timelockRoles'["EXECUTOR"]
    BY <1>2, <2>1 DEF OpenRoles, TL!Granted, TL!Revoked, TL!TimelockRoles
  <2> QED BY <2>2, <2>3 DEF OpenRoles
<1>3. ASSUME NEW s, UseTimelock(s) PROVE OpenRoles'
  BY <1>1, <1>2, <1>3
     DEF UseTimelock, TL!Schedule, TL!CancelOperation, TL!GrantTimelockRole,
         TL!RevokeTimelockRole, TL!RenounceTimelockRole
<1> QED BY <1>1, <1>3, TimelockRolesStay

(* Nothing stands in the way of a proposal that passed: nobody has taken its     *)
(* operation in the timelock before it is queued, and what is queued and ready    *)
(* may be executed through the governor.  Only its own call, or a time that no    *)
(* longer fits a word, can still refuse it (queue, _execute). *)
THEOREM NothingIsInTheWay ==
  ASSUME OnlyGovernorProposes, GovernorKeepsRoles
  PROVE  Spec => [](\A p \in Proposals :
           /\ ProposalState(p) = "Succeeded" =>
                HasRole(timelockRoles, "PROPOSER", Governor) /\ ~TL!IsOperation(p)
           /\ ProposalState(p) = "Queued" /\ TL!IsOperationReady(p) =>
                TL!MayExecute(Governor) /\ TL!BeforeCall(p))
<1>1. Init => OpenRoles BY DEF Init, InitTimelock, OpenRoles, TL!TimelockRoles
<1>2. VType /\ OpenRoles /\ [Next]_vars => OpenRoles' BY OpenRolesKept
<1>3. KInv /\ OpenRoles =>
        \A p \in Proposals :
           /\ ProposalState(p) = "Succeeded" =>
                HasRole(timelockRoles, "PROPOSER", Governor) /\ ~TL!IsOperation(p)
           /\ ProposalState(p) = "Queued" /\ TL!IsOperationReady(p) =>
                TL!MayExecute(Governor) /\ TL!BeforeCall(p)
  <2> SUFFICES ASSUME KInv, OpenRoles, NEW p \in Proposals
               PROVE  /\ ProposalState(p) = "Succeeded" =>
                           HasRole(timelockRoles, "PROPOSER", Governor) /\ ~TL!IsOperation(p)
                      /\ ProposalState(p) = "Queued" /\ TL!IsOperationReady(p) =>
                           TL!MayExecute(Governor) /\ TL!BeforeCall(p)
    OBVIOUS
  <2>1. ProposalState(p) = "Succeeded" => p \notin timelockIds
    BY StatesOfAVote DEF KInv
  <2>2. ~TL!IsOperation(p) \/ p \in timelockIds BY DEF KInv, Held, TL!IsOperation
  <2>3. HasRole(timelockRoles, "PROPOSER", Governor) /\ TL!MayExecute(Governor)
    BY DEF OpenRoles, HasRole, TL!MayExecute, TL!HasRole
  <2>4. TL!IsOperationReady(p) => TL!BeforeCall(p) BY DEF TL!BeforeCall
  <2> QED BY <2>1, <2>2, <2>3, <2>4
<1> QED BY <1>1, <1>2, <1>3, KInvInvariant, VTypeInvariant, PTL DEF Spec

--------------------------------------------------------------------------------
(* What only the execution of a passed proposal through the governor may do.     *)

Governed == {"votingDelay", "votingPeriod", "proposalThreshold"}

LEMMA ExecuteEnacts ==
  ASSUME VType, NEW p \in Proposals, Execute(p)
  PROVE  EnactedNow(p)
<1>1. Passed(p) /\ ~proposals[p].executed BY StatesOfAVote DEF Execute
<1>2. proposals'[p].executed
  BY DEF Execute, VType, ProposalsType, Proposal
<1> QED BY <1>1, <1>2 DEF EnactedNow

LEMMA WithoutExecution ==
  ASSUME VType, [Next]_vars, \A p \in Proposals : ~Execute(p)
  PROVE  /\ \A k \in Governed : settings'[k] = settings[k]
         /\ \/ UNCHANGED governorRoles
            \/ \E s \in Senders, rc \in RoleChanges : ChangeRole(s, rc[1], rc[2])
<1> DEFINE Same == UNCHANGED <<settings, governorRoles>>
           Custom == /\ UNCHANGED governorRoles
                     /\ \E n : settings' = [settings EXCEPT !.customVotingPeriod = n]
<1>1. Custom => \A k \in Governed : settings'[k] = settings[k]
  BY DEF Governed, VType, RulesType
<1>2. CASE UNCHANGED vars \/ Mine \/ Rewarding
  <2>1. UNCHANGED governorState
    BY <1>2 DEF vars, Mine, Rewarding, RewardParticipants, RewardParticipant
  <2> QED BY <2>1 DEF governorState, rules, admin
<1>3. CASE Voting \/ VotingBySig \/ Cancelling
  <2>1. UNCHANGED <<rules, admin>>
    BY <1>3 DEF Voting, VotingBySig, Cancelling, Propose, ProposeExecutionOnSeed,
                GovernorPropose, CastVoteBySig, CastVote, CancelProposal
  <2> QED BY <2>1 DEF rules, admin
<1>4. CASE Enacting
  <2>1. PICK p \in Proposals : Queue(p) \/ \E s \in Users : ExecuteOnTimelock(s, p)
    BY <1>4 DEF Enacting
  <2>2. CASE Queue(p) BY <2>2 DEF Queue, rules, admin
  <2>3. ASSUME NEW s \in Users, ExecuteOnTimelock(s, p) PROVE Same \/ Custom
    <3>1. PerformCall(Payload[p], FALSE) BY <2>3 DEF ExecuteOnTimelock, ExecuteBatch
    <3> QED BY <3>1 DEF PerformCall, GovernanceCalls, rules
  <2> QED BY <1>1, <2>1, <2>2, <2>3
<1>5. CASE Ruling
  <2>1. Same \/ Custom BY <1>5 DEF Ruling, UpdateVotingPeriod, UpdateQuorumFraction, admin
  <2> QED BY <1>1, <2>1
<1>6. CASE Pausing
  BY <1>6 DEF Pausing, Pause, Unpause, PauseToken, UseSeed, Administer, governorState,
              rules, admin
<1>7. CASE Appointing
  BY <1>7 DEF Appointing, ChangeRole, SetSeedAddress, Administer, rules
<1>8. CASE \/ \E s \in TokenUsers : UseToken(s)
           \/ \E s \in Senders, to \in Users, n \in Amounts : MintTokens(s, to, n)
           \/ \E s \in Senders : UseTimelock(s)
  <2>1. UNCHANGED governorState BY <1>8 DEF UseToken, MintTokens, UseTimelock
  <2> QED BY <2>1 DEF governorState, rules, admin
<1> QED BY <1>2, <1>3, <1>4, <1>5, <1>6, <1>7, <1>8 DEF Next

(* The table of the governor's roles. *)
RolesOK == governorRoles = [r \in GovernorRoles |-> governorRoles[r]]

LEMMA RolesKept ==
  ASSUME VType, RolesOK, [Next]_vars
  PROVE  RolesOK'
<1>1. CASE \A p \in Proposals : ~Execute(p)
  BY <1>1, WithoutExecution DEF ChangeRole, RolesOK, Granted, Revoked
<1>2. ASSUME NEW p \in Proposals, Execute(p) PROVE RolesOK'
  <2>1. PerformCall(Payload[p], TRUE) BY <1>2 DEF Execute, ExecuteBatch
  <2>2. UNCHANGED governorRoles
        \/ governorRoles' = Granted(governorRoles, Payload[p].target, Payload[p].arg)
    BY <2>1 DEF PerformCall, GovernanceCalls, Relay
  <2> QED BY <2>2 DEF RolesOK, Granted
<1> QED BY <1>1, <1>2

(* The governor, its own administrator, gives roles only as proposals decide. *)
LEMMA NoRoleIsGiven ==
  ASSUME VType, RolesOK, [Next]_vars, \A p \in Proposals : ~Execute(p),
         governorRoles["DEFAULT_ADMIN"] \subseteq {Governor}, NEW r \in GovernorRoles
  PROVE  governorRoles'[r] \subseteq governorRoles[r]
<1>1. ASSUME NEW s \in Senders, NEW rc \in RoleChanges, ChangeRole(s, rc[1], rc[2])
      PROVE  \E role, a : governorRoles' = Revoked(governorRoles, role, a)
  <2>1. ~HasRole(governorRoles, "DEFAULT_ADMIN", s) BY DEF HasRole, Senders
  <2> QED BY <1>1, <2>1 DEF ChangeRole
<1>2. ASSUME NEW role, NEW a, governorRoles' = Revoked(governorRoles, role, a)
      PROVE  governorRoles'[r] \subseteq governorRoles[r]
  BY <1>2 DEF RolesOK, Revoked
<1> QED BY <1>1, <1>2, WithoutExecution

(* Once the governor alone administers its roles, a role is given only by the    *)
(* execution of a passed proposal (relay, grantRole). *)
THEOREM RolesAreGoverned == Spec => RolesGivenByProposal
<1>1. Init => RolesOK BY DEF Init, InitGovernor, RolesOK
<1>2. VType /\ RolesOK /\ [Next]_vars => RolesOK' BY RolesKept
<1>3. VType /\ RolesOK /\ [Next]_vars =>
        [governorRoles["DEFAULT_ADMIN"] \subseteq {Governor} =>
           \/ \A r \in GovernorRoles : governorRoles'[r] \subseteq governorRoles[r]
           \/ \E p \in Proposals : EnactedNow(p)]_vars
  BY NoRoleIsGiven, ExecuteEnacts
<1> QED BY <1>1, <1>2, <1>3, VTypeInvariant, PTL DEF Spec, RolesGivenByProposal

(* The table of the timelock's roles. *)
TimelockOK == timelockRoles = [r \in TL!TimelockRoles |-> timelockRoles[r]]

LEMMA TimelockOKKept ==
  ASSUME VType, TimelockOK, [Next]_vars
  PROVE  TimelockOK'
<1>1. CASE UNCHANGED timelockRoles BY <1>1 DEF TimelockOK
<1>2. ASSUME NEW s, UseTimelock(s) PROVE TimelockOK'
  BY <1>1, <1>2
     DEF UseTimelock, TL!Schedule, TL!CancelOperation, TL!GrantTimelockRole,
         TL!RevokeTimelockRole, TL!RenounceTimelockRole, TL!Granted, TL!Revoked, TimelockOK
<1> QED BY <1>1, <1>2, TimelockRolesStay

(* Where nothing is carried out, only who has the role makes rules. *)
LEMMA RulesWithoutCarrying ==
  ASSUME [Next]_vars, \A p \in Proposals : ~Carry(p)
  PROVE  UNCHANGED rules \/ \E s \in Senders : MayRule(s)
<1>1. CASE UNCHANGED vars \/ Mine \/ Rewarding
  BY <1>1 DEF vars, Mine, Rewarding, RewardParticipants, RewardParticipant, governorState
<1>2. CASE Voting \/ VotingBySig \/ Cancelling
  BY <1>2 DEF Voting, VotingBySig, Cancelling, Propose, ProposeExecutionOnSeed,
              GovernorPropose, CastVoteBySig, CastVote, CancelProposal
<1>3. CASE Enacting BY <1>3 DEF Enacting, Carry, Queue
<1>4. CASE Ruling BY <1>4 DEF Ruling, UpdateVotingPeriod, UpdateQuorumFraction
<1>5. CASE Pausing \/ Appointing
  BY <1>5 DEF Pausing, Pause, Unpause, PauseToken, UseSeed, Appointing, ChangeRole,
              SetSeedAddress, Administer, governorState
<1>6. CASE \/ \E s \in TokenUsers : UseToken(s)
           \/ \E s \in Senders, to \in Users, n \in Amounts : MintTokens(s, to, n)
           \/ \E s \in Senders : UseTimelock(s)
  BY <1>6 DEF UseToken, MintTokens, UseTimelock, governorState
<1> QED BY <1>1, <1>2, <1>3, <1>4, <1>5, <1>6 DEF Next

(* The timelock, its own administrator, gives no roles. *)
LEMMA TimelockGivesNoRole ==
  ASSUME VType, TimelockOK, [Next]_vars, timelockRoles["TIMELOCK_ADMIN"] \subseteq {Timelock},
         NEW r \in TL!TimelockRoles
  PROVE  timelockRoles'[r] \subseteq timelockRoles[r]
<1>1. ASSUME NEW s \in Senders, UseTimelock(s)
      PROVE  \/ UNCHANGED timelockRoles
             \/ \E role : timelockRoles' = TL!Revoked(timelockRoles, role, s)
  <2>1. ~TL!HasRole(timelockRoles, "TIMELOCK_ADMIN", s) BY DEF TL!HasRole, Senders
  <2> QED BY <1>1, <2>1
      DEF UseTimelock, TL!Schedule, TL!CancelOperation, TL!GrantTimelockRole,
          TL!RevokeTimelockRole, TL!RenounceTimelockRole
<1>2. ASSUME NEW role, NEW a, timelockRoles' = TL!Revoked(timelockRoles, role, a)
      PROVE  timelockRoles'[r] \subseteq timelockRoles[r]
  BY <1>2 DEF TimelockOK, TL!Revoked
<1> QED BY <1>1, <1>2, TimelockRolesStay

(* While only the governor proposes, what is pending in the timelock has passed. *)
LEMMA PendingHasPassed ==
  ASSUME VType, [Next]_vars, timelockRoles["PROPOSER"] \subseteq {Governor},
         \A p \in Proposals : TL!IsOperationPending(p) => Passed(p),
         NEW p \in Proposals, TL!IsOperationPending(p)'
  PROVE  Passed(p)'
<1>0. timestamps \in [Proposals -> Nat] /\ timestamps'[p] > 1
  BY DEF VType, QueueType, TL!IsOperationPending, TL!DONE
<1>1. Passed(p) => Passed(p)' BY PassedStays DEF Passed
<1>2. CASE timestamps'[p] = timestamps[p]
  BY <1>1, <1>2 DEF TL!IsOperationPending
<1>3. ASSUME NEW q \in Proposals, Queue(q) PROVE Passed(p) \/ timestamps'[p] = timestamps[p]
  <2>1. Passed(q) BY <1>3, StatesOfAVote DEF Queue
  <2>2. \E n \in Nat : timestamps' = [timestamps EXCEPT ![q] = n] BY <1>3, QueueStep
  <2> QED BY <1>0, <2>1, <2>2
<1>4. ASSUME NEW q \in Proposals, Carry(q) \/ \E s : CancelProposal(s, q)
      PROVE  timestamps'[p] = timestamps[p]
  <2>1. UNCHANGED timestamps \/ \E n \in {0, 1} : timestamps' = [timestamps EXCEPT ![q] = n]
    BY <1>4, CarryStep, CancelStep
  <2> QED BY <1>0, <2>1
<1>5. ASSUME NEW s \in Senders, UseTimelock(s) PROVE timestamps'[p] = timestamps[p]
  <2>1. s \notin timelockRoles["PROPOSER"] BY DEF Senders
  <2>2. \/ UNCHANGED timestamps
        \/ \E q \in Proposals : timestamps' = [timestamps EXCEPT ![q] = 0]
    BY <1>5, <2>1, UseTimelockStep
  <2> QED BY <1>0, <2>2
<1>6. Elsewhere \/ Mine \/ (\E s \in Users, q \in Proposals : GovernorPropose(s, q))
      \/ (\E v \in Accounts, q \in Proposals, support \in {"against", "for", "abstain"} :
             CastVote(v, q, support))
        => UNCHANGED timestamps
  BY DEF Elsewhere, Mine, GovernorPropose, CastVote, timelockState
<1> QED BY <1>1, <1>2, <1>3, <1>4, <1>5, <1>6, Kinds

(* In a deployment that was handed over only a passed proposal rules. *)
LEMMA WhileHandedOver ==
  ASSUME VType, RolesOK, TimelockOK, [Next]_vars, HandedOver
  PROVE  \/ UNCHANGED rules /\ HandedOver'
         \/ \E p \in Proposals : CarriedOutNow(p)
<1>1. ASSUME NEW p \in Proposals, Carry(p) PROVE CarriedOutNow(p)
  <2>1. timestamps[p] > 1 /\ timestamps'[p] = 1
    BY <1>1, CarryStep DEF VType, QueueType
  <2> QED BY <2>1
      DEF HandedOver, CarriedOutNow, TL!IsOperationPending, TL!IsOperationDone, TL!DONE
<1>2. CASE \A p \in Proposals : ~Carry(p)
  <2>1. \A s \in Senders : ~MayRule(s)
    BY DEF HandedOver, MayRule, HasRole, Senders
  <2>2. UNCHANGED rules BY <1>2, <2>1, RulesWithoutCarrying
  <2>3. \A r \in GovernorRoles : governorRoles'[r] \subseteq governorRoles[r]
    BY <1>2, NoRoleIsGiven DEF HandedOver, Carry
  <2>4. \A r \in TL!TimelockRoles : timelockRoles'[r] \subseteq timelockRoles[r]
    BY TimelockGivesNoRole DEF HandedOver
  <2>5. \A p \in Proposals : TL!IsOperationPending(p)' => Passed(p)'
    BY PendingHasPassed DEF HandedOver
  <2>6. HandedOver'
    BY <2>3, <2>4, <2>5 DEF HandedOver, GovernorRoles, TL!TimelockRoles
  <2> QED BY <2>2, <2>6
<1> QED BY <1>1, <1>2

(* Delay, period and threshold change only as the governor executes a passed     *)
(* proposal, whoever proposes in the timelock; and a deployment that was handed   *)
(* over changes none of its rules, and stays handed over, but by carrying out a   *)
(* passed proposal (onlyGovernance, onlyRole). *)
THEOREM RulesAreGoverned == Spec => RulesChangeByProposal
<1>1. Init => RolesOK /\ TimelockOK
  BY DEF Init, InitGovernor, InitTimelock, RolesOK, TimelockOK
<1>2. VType /\ RolesOK /\ TimelockOK /\ [Next]_vars => (RolesOK /\ TimelockOK)'
  BY RolesKept, TimelockOKKept
<1>3. VType /\ RolesOK /\ TimelockOK /\ [Next]_vars =>
        [/\ (\E s \in {"votingDelay", "votingPeriod", "proposalThreshold"} :
                settings'[s] # settings[s])
              => \E p \in Proposals : EnactedNow(p)
         /\ HandedOver => \/ UNCHANGED rules /\ HandedOver'
                          \/ \E p \in Proposals : CarriedOutNow(p)]_vars
  <2> SUFFICES ASSUME VType, RolesOK, TimelockOK, [Next]_vars
               PROVE  /\ (\E s \in Governed : settings'[s] # settings[s])
                           => \E p \in Proposals : EnactedNow(p)
                      /\ HandedOver => \/ UNCHANGED rules /\ HandedOver'
                                       \/ \E p \in Proposals : CarriedOutNow(p)
    BY DEF Governed
  <2>1. (\E s \in Governed : settings'[s] # settings[s]) => \E p \in Proposals : Execute(p)
    BY WithoutExecution
  <2> QED BY <2>1, ExecuteEnacts, WhileHandedOver
<1> QED BY <1>1, <1>2, <1>3, VTypeInvariant, PTL DEF Spec, RulesChangeByProposal

--------------------------------------------------------------------------------
(* The life of a proposal.  Its status is a function of its record, the block,   *)
(* the outcome and what the timelock knows of it.                                *)
StatusOf(r, b, passed, queued, t) ==
  IF r.executed THEN "Executed"
  ELSE IF r.canceled THEN "Canceled"
  ELSE IF r.voteStart = 0 THEN "Unknown"
  ELSE IF r.voteStart >= b THEN "Pending"
  ELSE IF r.voteEnd >= b THEN "Active"
  ELSE IF ~passed THEN "Defeated"
  ELSE IF ~queued THEN "Succeeded"
  ELSE IF t = 1 THEN "Executed"
  ELSE IF t > 1 THEN "Queued" ELSE "Canceled"

StatusIs ==
  \A p \in Proposals :
    ProposalState(p) = StatusOf(proposals[p], block, Passed(p), p \in timelockIds, timestamps[p])

LEMMA Status == VType => StatusIs
<1> SUFFICES ASSUME VType, NEW p \in Proposals
             PROVE  ProposalState(p) = StatusOf(proposals[p], block, Passed(p),
                                                p \in timelockIds, timestamps[p])
  BY DEF StatusIs
<1>1. /\ proposals[p] \in Proposal /\ block \in Nat /\ timestamps[p] \in Nat
  BY DEF VType, ProposalsType, ClockType, QueueType
<1>2. QueueStatus(p) = IF p \notin timelockIds THEN "Succeeded"
                       ELSE IF timestamps[p] = 1 THEN "Executed"
                       ELSE IF timestamps[p] > 1 THEN "Queued" ELSE "Canceled"
  BY <1>1 DEF QueueStatus, TL!IsOperationDone, TL!IsOperationPending, TL!DONE
<1>3. CASE proposals[p].executed BY <1>3 DEF ProposalState, StatusOf
<1>4. CASE ~proposals[p].executed /\ proposals[p].canceled
  BY <1>4 DEF ProposalState, StatusOf
<1>5. CASE ~proposals[p].executed /\ ~proposals[p].canceled
  <2>1. ProposalState(p) =
          IF ~Known(p) THEN "Unknown"
          ELSE IF Snapshot(p) >= block THEN "Pending"
          ELSE IF Deadline(p) >= block THEN "Active"
          ELSE IF QuorumReached(p) /\ VoteSucceeded(p) THEN QueueStatus(p)
          ELSE "Defeated"
    BY <1>5 DEF ProposalState
  <2>2. Known(p) /\ ~(Deadline(p) >= block)
          => (Passed(p) <=> QuorumReached(p) /\ VoteSucceeded(p))
    BY <1>1 DEF Passed, VoteOver, Deadline, Proposal
  <2> QED BY <1>2, <1>5, <2>1, <2>2 DEF StatusOf, Known, Snapshot, Deadline
<1> QED BY <1>3, <1>4, <1>5

LEMMA StatusNext == (VType => StatusIs)'
BY Status, PTL

(* What the timelock was given passed, and nobody votes before the snapshot. *)
Counting(p) ==
  /\ p \in timelockIds => Passed(p)
  /\ ~Known(p) \/ Snapshot(p) >= block => proposalVotes[p].for = 0

LInv == KInv /\ \A p \in Proposals : Counting(p)

LEMMA VotesChange ==
  ASSUME VType, [Next]_vars, NEW p \in Proposals, proposalVotes'[p] # proposalVotes[p]
  PROVE  /\ ProposalState(p) = "Active"
         /\ UNCHANGED <<proposals, chain, timelockIds, timestamps>>
         /\ \A k \in {"against", "for", "abstain"} : proposalVotes'[p][k] >= proposalVotes[p][k]
<1>1. PICK v \in Accounts, q \in Proposals, support \in {"against", "for", "abstain"} :
        CastVote(v, q, support)
  <2>1. ~Elsewhere /\ ~Mine /\ ~(\E s \in Users, q \in Proposals : GovernorPropose(s, q))
    BY DEF Elsewhere, Mine, GovernorPropose, ballots, governorState
  <2>2. ASSUME NEW q \in Proposals PROVE ~Queue(q) /\ ~Carry(q)
    BY CarryStep DEF Queue, ballots
  <2>3. ASSUME NEW s \in Senders PROVE ~UseTimelock(s)
    BY DEF UseTimelock, governorState, ballots
  <2>4. ASSUME NEW s \in Senders, NEW q \in Proposals PROVE ~CancelProposal(s, q)
    BY DEF CancelProposal, ballots
  <2> QED BY <2>1, <2>2, <2>3, <2>4, Kinds
<1>2. proposalVotes \in [Proposals -> Tally] /\ checkpoints[v] \in Histories
  BY DEF VType, BallotsType, TokenType
<1>3. proposalVotes' = [proposalVotes EXCEPT ![q][support] = @ + VotingWeight(q, v)]
  BY <1>1 DEF CastVote, CountVote, CountSimple
<1>4. VotingWeight(q, v) \in Nat
  BY <1>2, LookupNat, SameHistories DEF VotingWeight, Token!GetPastVotes
<1>5. p = q BY <1>2, <1>3
<1>6. \A k \in {"against", "for", "abstain"} : proposalVotes'[p][k] >= proposalVotes[p][k]
  <2>1. proposalVotes[p] \in Tally BY <1>2
  <2>2. proposalVotes'[p] = [proposalVotes[p] EXCEPT ![support] = @ + VotingWeight(q, v)]
    BY <1>2, <1>3, <1>5
  <2> QED BY <1>4, <2>1, <2>2 DEF Tally
<1> QED BY <1>1, <1>5, <1>6 DEF CastVote, timelockState, chain

LEMMA IdsChange ==
  ASSUME VType, [Next]_vars, NEW p \in Proposals, p \in timelockIds'
  PROVE  p \in timelockIds \/ Queue(p)
<1>1. ASSUME NEW q \in Proposals, Queue(q) PROVE p \in timelockIds \/ Queue(p)
  BY <1>1 DEF Queue
<1>2. ASSUME NEW q \in Proposals, Carry(q) PROVE p \in timelockIds
  BY <1>2, CarryStep
<1>3. ASSUME NEW s, NEW q \in Proposals, CancelProposal(s, q) PROVE p \in timelockIds
  BY <1>3, CancelStep
<1> QED BY <1>1, <1>2, <1>3, Kinds
    DEF Elsewhere, Mine, GovernorPropose, CastVote, UseTimelock, governorState

LEMMA CountingKept ==
  ASSUME KInv, [Next]_vars, NEW p \in Proposals, Counting(p)
  PROVE  Counting(p)'
<1>0. VType /\ block \in Nat /\ proposals[p] \in Proposal
  BY DEF KInv, VType, ClockType, ProposalsType
<1>1. p \in timelockIds' => Passed(p)'
  <2>1. Queue(p) => Passed(p) BY <1>0, StatesOfAVote DEF Queue
  <2>2. Passed(p) => Passed(p)' BY <1>0, PassedStays DEF Passed
  <2> QED BY <1>0, <2>1, <2>2, IdsChange DEF Counting
<1>2. ASSUME (~Known(p) \/ Snapshot(p) >= block)' PROVE ~Known(p) \/ Snapshot(p) >= block
  <2>1. Known(p) => /\ proposals'[p].voteStart = proposals[p].voteStart
    BY <1>0, RecordStays
  <2>2. block' \in Nat /\ block <= block' BY <1>0, HistoriesKept
  <2> QED BY <1>0, <1>2, <2>1, <2>2 DEF Known, Snapshot, Proposal
<1>3. ASSUME proposalVotes'[p] # proposalVotes[p]
      PROVE  ~(~Known(p) \/ Snapshot(p) >= block)
  <2>1. ProposalState(p) = "Active" BY <1>0, <1>3, VotesChange
  <2>2. ProposalState(p) = StatusOf(proposals[p], block, Passed(p), p \in timelockIds,
                                    timestamps[p])
    BY <1>0, Status DEF StatusIs
  <2> QED BY <1>0, <2>1, <2>2 DEF StatusOf, Known, Snapshot
<1> QED BY <1>1, <1>2, <1>3 DEF Counting

LEMMA LInvInvariant ==
  ASSUME OnlyGovernorProposes
  PROVE  Spec => []LInv
<1>1. Init => \A p \in Proposals : Counting(p)
  BY DEF Init, InitGovernor, Counting
<1>2. KInv /\ (\A p \in Proposals : Counting(p)) /\ [Next]_vars
        => (\A p \in Proposals : Counting(p))'
  BY CountingKept
<1> QED BY <1>1, <1>2, KInvInvariant, PTL DEF Spec, LInv

(* One step takes every proposal's status along the life cycle or leaves it. *)
Moves(p) ==
  /\ ProposalState(p)' \in {ProposalState(p)} \cup Lifecycle!Follows[ProposalState(p)]
  /\ ProposalState(p)' = "Succeeded" /\ ProposalState(p) # "Succeeded"
       => proposalVotes[p].for > proposalVotes[p].against

LEMMA SameStatus ==
  ASSUME VType, [Next]_vars, NEW p \in Proposals, proposals'[p] = proposals[p],
         UNCHANGED block, p \in timelockIds' <=> p \in timelockIds,
         timestamps'[p] = timestamps[p]
  PROVE  ProposalState(p)' = ProposalState(p)
<1>0. VType' BY VTypeKept
<1>1. /\ ProposalState(p) = StatusOf(proposals[p], block, Passed(p), p \in timelockIds,
                                     timestamps[p])
      /\ ProposalState(p)' = StatusOf(proposals'[p], block', Passed(p)', p \in timelockIds',
                                      timestamps'[p])
  BY <1>0, Status, StatusNext DEF StatusIs
<1>2. proposals[p] \in Proposal /\ block \in Nat
  BY DEF VType, ProposalsType, ClockType
<1>3. VoteOver(p) => (Passed(p)' <=> Passed(p)) BY PassedStays
<1>4. VoteOver(p) <=> proposals[p].voteStart # 0 /\ proposals[p].voteEnd < block
  BY DEF VoteOver, Known, Deadline
<1> QED BY <1>1, <1>2, <1>3, <1>4 DEF StatusOf, Proposal

LEMMA StatusesAre ==
  ASSUME VType, NEW p \in Proposals
  PROVE  ProposalState(p) \in Lifecycle!Statuses
BY Status DEF StatusIs, StatusOf, Lifecycle!Statuses

LEMMA MineMoves ==
  ASSUME LInv, Mine, NEW p \in Proposals
  PROVE  Moves(p)
<1>0. /\ VType /\ VType' /\ [Next]_vars /\ block' = block + 1 /\ block \in Nat
      /\ proposals[p] \in Proposal /\ Counting(p)
  BY MineType DEF LInv, KInv, Next, VType, ClockType, ProposalsType
<1>1. UNCHANGED <<proposals, proposalVotes, timelockIds, timestamps>>
  BY DEF Mine, governorState, ballots, timelockState
<1>2. PICK r \in Proposal, b \in Nat : r = proposals[p] /\ b = block BY <1>0
<1>3. /\ ProposalState(p) = StatusOf(r, b, Passed(p), p \in timelockIds, timestamps[p])
      /\ ProposalState(p)' = StatusOf(r, b + 1, Passed(p)', p \in timelockIds, timestamps[p])
  BY <1>0, <1>1, <1>2, Status, StatusNext DEF StatusIs
<1>4. VoteOver(p) <=> r.voteStart # 0 /\ r.voteEnd < b
  BY <1>2 DEF VoteOver, Known, Deadline
<1>5. CASE VoteOver(p)
  <2>1. Passed(p)' <=> Passed(p) BY <1>0, <1>5, PassedStays
  <2>2. r.voteStart <= r.voteEnd
    BY <1>2 DEF LInv, KInv, VType, ProposalsType, Snapshot, Deadline
  <2>3. ProposalState(p)' = ProposalState(p)
    BY <1>2, <1>3, <1>4, <1>5, <2>1, <2>2 DEF StatusOf, Proposal
  <2> QED BY <2>3 DEF Moves
<1>6. CASE ~VoteOver(p)
  <2>1. p \notin timelockIds BY <1>0, <1>6 DEF Counting, Passed
  <2>2. Passed(p)' => proposalVotes[p].for > proposalVotes[p].against
    BY <1>1 DEF Passed, VoteSucceeded
  <2>3. proposalVotes[p].for \in Nat /\ proposalVotes[p].against \in Nat
    BY <1>0 DEF VType, BallotsType, Tally
  <2>4. Passed(p)' => r.voteStart # 0 /\ r.voteStart < b
    BY <1>0, <1>2, <2>2, <2>3 DEF Counting, Known, Snapshot, Passed, VoteOver, Proposal
  <2>5. \/ ProposalState(p)' = ProposalState(p)
        \/ ProposalState(p) = "Pending" /\ ProposalState(p)' \in {"Active", "Defeated"}
        \/ ProposalState(p) = "Active" /\ ProposalState(p)' \in {"Succeeded", "Defeated"}
    BY <1>2, <1>3, <1>4, <1>6, <2>1, <2>4 DEF StatusOf, Proposal
  <2>6. ProposalState(p)' = "Succeeded" => Passed(p)'
    BY <1>0, StatusNext, <1>3, <1>4, <1>6, <1>2, <2>1, <2>4, <2>5 DEF StatusOf, Proposal
  <2> QED BY <2>2, <2>5, <2>6 DEF Moves, Lifecycle!Follows, Lifecycle!Statuses
<1> QED BY <1>5, <1>6

LEMMA StepMoves ==
  ASSUME LInv, [Next]_vars, NEW p \in Proposals
  PROVE  Moves(p)
<1>0. /\ VType /\ VType' /\ Held(p) /\ block \in Nat
      /\ timestamps \in [Proposals -> Nat] /\ proposals \in [Proposals -> Proposal]
  BY VTypeKept DEF LInv, KInv, VType, ClockType, QueueType, ProposalsType
<1>1. PICK r \in Proposal : r = proposals[p] BY <1>0
<1>2. /\ ProposalState(p) = StatusOf(r, block, Passed(p), p \in timelockIds, timestamps[p])
      /\ ProposalState(p)' = StatusOf(proposals'[p], block', Passed(p)', p \in timelockIds',
                                      timestamps'[p])
  BY <1>0, <1>1, Status, StatusNext DEF StatusIs
<1>3. Passed(p) => Passed(p)' BY <1>0, PassedStays DEF Passed
<1>4. CASE ProposalState(p)' = ProposalState(p) BY <1>4 DEF Moves
<1>5. CASE UNCHANGED <<proposals, block, timelockIds, timestamps>>
  <2>1. ProposalState(p)' = ProposalState(p) BY <1>0, <1>5, SameStatus
  <2> QED BY <1>4, <2>1
<1>6. ASSUME NEW s, NEW q \in Proposals, GovernorPropose(s, q) PROVE Moves(p)
  <2>1. UNCHANGED <<block, timelockIds, timestamps>>
    BY <1>6 DEF GovernorPropose, timelockState, chain
  <2>2. CASE p # q
    BY <1>0, <1>4, <1>6, <2>1, <2>2, SameStatus DEF GovernorPropose
  <2>3. CASE p = q
    <3>1. r.voteStart = 0 BY <1>1, <1>6, <2>3 DEF GovernorPropose, Known
    <3>2. VotingDelay \in Nat BY <1>0 DEF VType, RulesType, VotingDelay
    <3>3. PICK start \in Nat, end \in Nat :
            /\ start >= block
            /\ proposals' = [proposals EXCEPT ![p].voteStart = start, ![p].voteEnd = end]
      <4>1. /\ block + VotingDelay \in Nat /\ block + VotingDelay >= block
            /\ block + VotingDelay + VotingPeriod \in Nat
        BY <1>0, <3>2 DEF VType, RulesType, VotingPeriod
      <4> QED BY <1>6, <2>3, <4>1 DEF GovernorPropose
    <3>4. /\ proposals'[p].executed = r.executed /\ proposals'[p].canceled = r.canceled
          /\ proposals'[p].voteStart >= block /\ proposals'[p].voteStart # 0
      BY <1>0, <1>1, <3>3 DEF Proposal, VType, ClockType
    <3>5. \/ ProposalState(p)' = ProposalState(p)
          \/ ProposalState(p) = "Unknown" /\ ProposalState(p)' = "Pending"
      BY <1>2, <2>1, <3>1, <3>4 DEF StatusOf
    <3> QED BY <3>5 DEF Moves, Lifecycle!Follows, Lifecycle!Statuses
  <2> QED BY <2>2, <2>3
<1>7. ASSUME NEW q \in Proposals, Queue(q) PROVE Moves(p)
  <2>1. PICK n \in Nat : n > 1 /\ timestamps' = [timestamps EXCEPT ![q] = n]
    BY <1>0, <1>7, QueueStep
  <2>2. /\ ProposalState(q) = "Succeeded" /\ timelockIds' = timelockIds \cup {q}
        /\ UNCHANGED <<proposals, block>>
    BY <1>7 DEF Queue, chain
  <2>3. CASE p # q BY <1>0, <1>4, <2>1, <2>2, <2>3, SameStatus
  <2>4. CASE p = q
    <3>1. Passed(p)' BY <1>0, <1>3, <2>2, <2>4, StatesOfAVote
    <3>2. ProposalState(p)' = "Queued"
      BY <1>0, <1>1, <1>2, <2>1, <2>2, <2>4, <3>1 DEF StatusOf
    <3> QED BY <2>2, <2>4, <3>2 DEF Moves, Lifecycle!Follows, Lifecycle!Statuses
  <2> QED BY <2>3, <2>4
<1>8. ASSUME NEW q \in Proposals, Carry(q) PROVE Moves(p)
  <2>1. /\ timestamps[q] > 1 /\ timestamps' = [timestamps EXCEPT ![q] = 1]
        /\ UNCHANGED <<timelockIds, block>>
        /\ \/ UNCHANGED proposals
           \/ proposals' = [proposals EXCEPT ![q].executed = TRUE]
    BY <1>0, <1>8, CarryStep DEF chain
  <2>2. CASE p # q BY <1>0, <1>4, <2>1, <2>2, SameStatus
  <2>3. CASE p = q
    <3>1. p \in timelockIds /\ ~r.canceled /\ ~r.executed /\ Passed(p)
      BY <1>0, <1>1, <2>1, <2>3 DEF Held, Proposal
    <3>2. /\ VoteOver(p) /\ VoteOver(p)'
      BY <1>0, <3>1, PassedStays DEF Passed
    <3>3. ProposalState(p) = "Queued"
      BY <1>0, <1>1, <1>2, <2>1, <2>3, <3>1, <3>2 DEF StatusOf, VoteOver, Passed, Known, Deadline,
         VType, ProposalsType, Snapshot, Proposal
    <3>4. ProposalState(p)' = "Executed"
      <4>1. proposals'[p].executed \/ UNCHANGED proposals BY <1>0, <2>1, <2>3 DEF Proposal
      <4>2. timestamps'[p] = 1 BY <1>0, <2>1, <2>3
      <4>3. CASE proposals'[p].executed BY <1>2, <4>3 DEF StatusOf
      <4>4. CASE UNCHANGED proposals
        BY <1>0, <1>1, <1>2, <1>3, <2>1, <3>1, <3>3, <4>2, <4>4 DEF StatusOf, Proposal
      <4> QED BY <4>1, <4>3, <4>4
    <3> QED BY <3>3, <3>4 DEF Moves, Lifecycle!Follows, Lifecycle!Statuses
  <2> QED BY <2>2, <2>3
<1>9. ASSUME NEW s, NEW q \in Proposals, CancelProposal(s, q) PROVE Moves(p)
  <2>1. /\ proposals' = [proposals EXCEPT ![q].canceled = TRUE]
        /\ \/ UNCHANGED <<timestamps, timelockIds>>
           \/ timestamps' = [timestamps EXCEPT ![q] = 0] /\ timelockIds' = timelockIds \ {q}
        /\ UNCHANGED block
    BY <1>0, <1>9, CancelStep DEF chain
  <2>2. CASE p # q BY <1>0, <1>4, <2>1, <2>2, SameStatus
  <2>3. CASE p = q
    <3>1. ProposalState(p) \notin {"Unknown", "Canceled", "Executed"}
      BY <1>9, <2>3 DEF CancelProposal, Cancel, GovernorCancel
    <3>2. ~r.executed BY <1>0, <1>1, <3>1, StatesOfAVote
    <3>3. proposals'[p].canceled /\ ~proposals'[p].executed
      BY <1>0, <1>1, <2>1, <2>3, <3>2 DEF Proposal
    <3>4. ProposalState(p)' = "Canceled" BY <1>2, <3>3 DEF StatusOf
    <3>5. ProposalState(p) \in Lifecycle!Statuses BY <1>0, StatusesAre
    <3> QED BY <3>1, <3>4, <3>5 DEF Moves, Lifecycle!Follows, Lifecycle!Statuses
  <2> QED BY <2>2, <2>3
<1>10. ASSUME NEW s \in Senders, UseTimelock(s) PROVE Moves(p)
  <2>1. UNCHANGED <<proposals, timelockIds, block>>
    BY <1>10 DEF UseTimelock, governorState, chain
  <2>2. \/ UNCHANGED timestamps
        \/ \E q \in Proposals : timestamps[q] > 1 /\ timestamps' = [timestamps EXCEPT ![q] = 0]
        \/ s \in timelockRoles["PROPOSER"]
    BY <1>0, <1>10, UseTimelockStep
  <2>3. s \notin timelockRoles["PROPOSER"] BY DEF LInv, KInv, ProposersOK, Senders
  <2>4. ASSUME NEW q \in Proposals, timestamps[q] > 1,
               timestamps' = [timestamps EXCEPT ![q] = 0]
        PROVE  Moves(p)
    <3>1. CASE p # q BY <1>0, <1>4, <2>1, <2>4, <3>1, SameStatus
    <3>2. CASE p = q
      <4>1. p \in timelockIds /\ ~r.canceled /\ ~r.executed /\ Passed(p)
        BY <1>0, <1>1, <2>4, <3>2 DEF Held, Proposal
      <4>2. ProposalState(p) = "Queued"
        BY <1>0, <1>1, <1>2, <2>4, <3>2, <4>1
           DEF StatusOf, VoteOver, Passed, Known, Deadline, VType, ProposalsType, Snapshot, Proposal
      <4>3. ProposalState(p)' = "Canceled"
        BY <1>0, <1>1, <1>2, <1>3, <2>1, <2>4, <3>2, <4>1, <4>2 DEF StatusOf, Proposal
      <4> QED BY <4>2, <4>3 DEF Moves, Lifecycle!Follows, Lifecycle!Statuses
    <3> QED BY <3>1, <3>2
  <2> QED BY <1>5, <2>1, <2>2, <2>3, <2>4
<1>11. CASE Mine BY <1>11, MineMoves
<1>12. CASE Elsewhere BY <1>5, <1>12 DEF Elsewhere, timelockState, chain
<1>13. ASSUME NEW v \in Accounts, NEW q \in Proposals, NEW support, CastVote(v, q, support)
       PROVE  Moves(p)
  BY <1>5, <1>13 DEF CastVote, timelockState, chain
<1> QED BY <1>0, <1>6, <1>7, <1>8, <1>9, <1>10, <1>11, <1>12, <1>13, Kinds

(* As long as nobody else may propose, every proposal lives the life its voters  *)
(* are promised (ProposalLifecycle). *)
THEOREM ProposalsLiveTheirLife ==
  ASSUME OnlyGovernorProposes
  PROVE  Spec => LifecycleSpec
<1>1. Init => Lifecycle!Init
  <2> SUFFICES ASSUME Init PROVE Lifecycle!Init OBVIOUS
  <2>1. VType BY InitVType
  <2>2. ASSUME NEW p \in Proposals PROVE ProposalState(p) = "Unknown"
    <3>1. /\ proposals[p] = [voteStart |-> 0, voteEnd |-> 0, executed |-> FALSE,
                             canceled |-> FALSE]
      BY DEF Init, InitGovernor
    <3> QED BY <2>1, <3>1, Status DEF StatusIs, StatusOf
  <2> QED BY <2>2 DEF Lifecycle!Init, Lifecycle!NoVotes, Init, InitGovernor
<1>2. LInv /\ [Next]_vars => [Lifecycle!Next]_<<[p \in Proposals |-> ProposalState(p)], proposalVotes>>
  <2> SUFFICES ASSUME LInv, [Next]_vars PROVE Lifecycle!Next OBVIOUS
  <2>0. VType /\ VType' BY VTypeKept DEF LInv, KInv
  <2>1. \A p \in Proposals : ProposalState(p)' \in Lifecycle!Statuses
    BY <2>0, StatusNext DEF StatusIs, StatusOf, Lifecycle!Statuses
  <2>2. ASSUME NEW p \in Proposals
        PROVE  /\ ProposalState(p)' \in {ProposalState(p)} \cup Lifecycle!Follows[ProposalState(p)]
               /\ proposalVotes'[p] # proposalVotes[p] =>
                    /\ ProposalState(p) = "Active" /\ ProposalState(p)' = "Active"
                    /\ \A k \in {"against", "for", "abstain"} :
                         proposalVotes'[p][k] >= proposalVotes[p][k]
               /\ ProposalState(p)' = "Succeeded" /\ ProposalState(p) # "Succeeded"
                    => proposalVotes[p].for > proposalVotes[p].against
    <3>1. Moves(p) BY StepMoves
    <3>2. ASSUME proposalVotes'[p] # proposalVotes[p]
          PROVE  /\ ProposalState(p) = "Active" /\ ProposalState(p)' = "Active"
                 /\ \A k \in {"against", "for", "abstain"} :
                      proposalVotes'[p][k] >= proposalVotes[p][k]
      <4>1. /\ ProposalState(p) = "Active"
            /\ UNCHANGED <<proposals, chain, timelockIds, timestamps>>
            /\ \A k \in {"against", "for", "abstain"} :
                 proposalVotes'[p][k] >= proposalVotes[p][k]
        BY <2>0, <3>2, VotesChange
      <4>2. ProposalState(p)' = ProposalState(p) BY <2>0, <4>1, SameStatus DEF chain
      <4> QED BY <4>1, <4>2
    <3> QED BY <3>1, <3>2 DEF Moves
  <2> QED BY <2>1, <2>2 DEF Lifecycle!Next, Lifecycle!Counted, Lifecycle!Outcome
<1> QED BY <1>1, <1>2, LInvInvariant, PTL
    DEF Spec, LifecycleSpec, Lifecycle!Spec, Lifecycle!lifecycleVars

--------------------------------------------------------------------------------
(* The token in the DAO.  PeachToken_proofs proves what the token promises of    *)
(* its own transactions; the DAO's token is that token, its operators unfold to   *)
(* the same formulas, and every step of the DAO is a transaction of the token, a  *)
(* block, or nothing to it.  So the token's promises (TP!PInv) hold in the DAO.   *)

TP == INSTANCE PeachToken_proofs WITH
  Batches <- {}, AllowanceAmounts <- {}, RoleChanges <- {}

(* The DAO gives the token accounts and numbers as the token assumes them. *)
LEMMA TokenAssumed == TP!TokenAssumption
<1>1. \A S : TP!IsFiniteSet(S) <=> IsFiniteSet(S) BY DEF TP!IsFiniteSet, IsFiniteSet
<1>2. {} \subseteq Seq([to : Accounts, amount : 0..MaxUint256]) OBVIOUS
<1>3. {} \subseteq 0..MaxUint256 /\ {} \subseteq {"DEFAULT_ADMIN", "MINTER", "PAUSER"} \X Accounts
  OBVIOUS
<1>4. /\ IsFiniteSet(Accounts) /\ Zero \notin Accounts /\ Deployer \in Accounts
      /\ MaxSupply \in Nat /\ MaxUint256 \in Nat /\ MaxSupply <= MaxUint256
      /\ MaxBlock \in Nat /\ Amounts \subseteq 0..MaxUint256
  BY GovernorAssumption
<1> QED BY <1>1, <1>2, <1>3, <1>4, Zenon DEF TP!TokenAssumption

(* The two instances of the token's modules define the same operators. *)
LEMMA SameSums ==
  /\ \A f, S : TP!SumOver(f, S) = SumOver(f, S)
  /\ \A f, S : Token!SumOver(f, S) = SumOver(f, S)
BY DEF TP!SumOver, SumOver, Token!SumOver, FoldFunctionOnSet, TP!FoldFunctionOnSet,
       MapThenFoldSet, TP!MapThenFoldSet, Token!FoldFunctionOnSet, Token!MapThenFoldSet

LEMMA SameHist ==
  /\ \A c : TP!Latest(c) = Latest(c)
  /\ \A c, b, v : TP!WriteCheckpoint(c, b, v) = WriteCheckpoint(c, b, v)
  /\ \A c, b : TP!Lookup(c, b) = Lookup(c, b)
<1>1. \A c : TP!Latest(c) = Latest(c) BY DEF TP!Latest, Latest
<1>2. \A c, b, v : TP!WriteCheckpoint(c, b, v) = WriteCheckpoint(c, b, v)
  BY DEF TP!WriteCheckpoint, WriteCheckpoint
<1>3. \A c, b : TP!Lookup(c, b) = Lookup(c, b)
  BY DEF TP!Lookup, TP!ValuesAt, TP!InForce, Lookup, ValuesAt, InForce
<1> QED BY <1>1, <1>2, <1>3

LEMMA SameViews ==
  /\ \A a : Token!GetVotes(a) = TP!GetVotes(a)
  /\ \A a, b : Token!GetPastVotes(a, b) = TP!GetPastVotes(a, b)
  /\ \A b : Token!GetPastTotalSupply(b) = TP!GetPastTotalSupply(b)
  /\ \A d : Token!Delegators(d) = TP!Delegators(d)
  /\ \A batch, S : Token!Credit(batch, S) = TP!Credit(batch, S)
  /\ Token!Uint224 = TP!Uint224
<1>1. \A a : Token!GetVotes(a) = TP!GetVotes(a)
  BY SameHistories, SameHist DEF Token!GetVotes, TP!GetVotes
<1>2. \A a, b : Token!GetPastVotes(a, b) = TP!GetPastVotes(a, b)
  BY SameHistories, SameHist DEF Token!GetPastVotes, TP!GetPastVotes
<1>3. \A b : Token!GetPastTotalSupply(b) = TP!GetPastTotalSupply(b)
  BY SameHistories, SameHist DEF Token!GetPastTotalSupply, TP!GetPastTotalSupply
<1>4. \A d : Token!Delegators(d) = TP!Delegators(d)
  BY DEF Token!Delegators, TP!Delegators
<1>5. \A batch, S : Token!Credit(batch, S) = TP!Credit(batch, S)
  BY SameSums DEF Token!Credit, TP!Credit
<1>6. Token!Uint224 = TP!Uint224 BY DEF Token!Uint224, TP!Uint224
<1> QED BY <1>1, <1>2, <1>3, <1>4, <1>5, <1>6

LEMMA SameMoves ==
  /\ \A src, dst, n : Token!MayMoveVotingPower(src, dst, n) = TP!MayMoveVotingPower(src, dst, n)
  /\ \A src, dst, n : Token!MovedVotingPower(src, dst, n) = TP!MovedVotingPower(src, dst, n)
<1>1. \A src, dst, n : Token!MayMoveVotingPower(src, dst, n) = TP!MayMoveVotingPower(src, dst, n)
  BY SameViews DEF Token!MayMoveVotingPower, TP!MayMoveVotingPower
<1>2. \A src, dst, n : Token!MovedVotingPower(src, dst, n) = TP!MovedVotingPower(src, dst, n)
  BY SameViews, SameHistories, SameHist DEF Token!MovedVotingPower, TP!MovedVotingPower
<1> QED BY <1>1, <1>2

(* The transactions of the DAO's token are the token's. *)
LEMMA SameDelegate == ASSUME NEW s, NEW d, Token!Delegate(s, d) PROVE TP!Delegate(s, d)
BY SameMoves DEF Token!Delegate, TP!Delegate, Token!erc20Vars, TP!erc20Vars

LEMMA SameTransfer ==
  ASSUME NEW s, NEW to, NEW n, Token!TransferTokens(s, to, n)
  PROVE  TP!TransferTokens(s, to, n)
BY SameMoves DEF Token!TransferTokens, TP!TransferTokens

LEMMA SameMint ==
  ASSUME NEW s, NEW batch, Token!BatchMint(s, batch)
  PROVE  TP!BatchMint(s, batch)
<1>1. Token!VotesAfterMint(batch) = TP!VotesAfterMint(batch)
  BY SameViews DEF Token!VotesAfterMint, TP!VotesAfterMint
<1>2. Token!SupplyCheckpoint(batch) = TP!SupplyCheckpoint(batch)
  BY SameViews, SameHistories, SameHist DEF Token!SupplyCheckpoint, TP!SupplyCheckpoint
<1>3. \A c : Token!Latest(c) = TP!Latest(c) BY SameHistories, SameHist
<1>4. \A c, b, v : Token!WriteCheckpoint(c, b, v) = TP!WriteCheckpoint(c, b, v)
  BY SameHistories, SameHist
<1> QED BY <1>1, <1>2, <1>3, <1>4, SameViews
    DEF Token!BatchMint, TP!BatchMint, Token!HasRole, TP!HasRole

LEMMA BatchesAre ==
  ASSUME NEW batch \in Seq([to : Accounts, amount : 0..MaxUint256])
  PROVE  batch \in TP!Batch
BY DEF TP!Batch, TP!Entry

LEMMA MintIsBatch ==
  ASSUME NEW s, NEW to \in Accounts, NEW n \in 0..MaxUint256, Token!Mint(s, to, n)
  PROVE  \E batch \in TP!Batch : TP!BatchMint(s, batch)
<1>1. [to |-> to, amount |-> n] \in [to : Accounts, amount : 0..MaxUint256] OBVIOUS
<1>2. <<[to |-> to, amount |-> n]>> \in TP!Batch
  <2> DEFINE E == [to : Accounts, amount : 0..MaxUint256]
             e == [to |-> to, amount |-> n]
  <2>1. e \in E BY <1>1
  <2> HIDE DEF E, e
  <2>2. <<e>> \in Seq(E) BY <2>1
  <2> QED BY <2>2, BatchesAre DEF E, e
<1> QED BY <1>2, SameMint DEF Token!Mint

LEMMA WeightType ==
  ASSUME VType, NEW p, NEW v \in Accounts
  PROVE  VotingWeight(p, v) \in Nat
<1>1. checkpoints[v] \in Histories BY DEF VType, TokenType
<1> QED BY <1>1, LookupNat, SameHistories DEF VotingWeight, Token!GetPastVotes

(* What rewardParticipants hands to batchMint. *)
RewardBatch(p) ==
  [i \in DOMAIN proposalVotersList[p] |->
     [to |-> proposalVotersList[p][i], amount |-> Reward(p, proposalVotersList[p][i])]]

LEMMA RewardBatchIs ==
  ASSUME VType, NEW s, NEW p \in Proposals, RewardParticipants(s, p)
  PROVE  /\ TP!BatchMint(Governor, RewardBatch(p)) /\ RewardBatch(p) \in TP!Batch
<1> DEFINE voters == proposalVotersList[p]
           E == [to : Accounts, amount : 0..MaxUint256]
<1>1. voters \in Seq(Accounts) BY DEF VType, BallotsType
<1>2. TotalVotes(p) \in Nat /\ TotalVotes(p) > 0
  BY DEF RewardParticipants, VType, BallotsType, Tally, TotalVotes
<1>3. ASSUME NEW i \in DOMAIN voters
      PROVE  [to |-> voters[i], amount |-> Reward(p, voters[i])] \in E
  <2>1. voters[i] \in Accounts BY <1>1
  <2> DEFINE m == VotingWeight(p, voters[i]) * RewardPool
  <2>2. m \in Nat /\ m <= MaxUint256
    <3>1. VotingWeight(p, voters[i]) \in Nat BY <2>1, WeightType
    <3>2. RewardPool \in Nat BY GovernorAssumption
    <3>3. m <= MaxUint256 BY DEF RewardParticipants
    <3> QED BY <3>1, <3>2, <3>3
  <2>3. Reward(p, voters[i]) = m \div TotalVotes(p) BY DEF Reward
  <2> HIDE DEF m
  <2>4. Reward(p, voters[i]) \in 0..m BY <1>2, <2>2, <2>3, ShareBounds
  <2>5. Reward(p, voters[i]) \in 0..MaxUint256 BY <2>2, <2>4, GovernorAssumption
  <2> QED BY <2>1, <2>5
<1>4. RewardBatch(p) \in Seq(E)
  <2>1. Len(voters) \in Nat /\ DOMAIN voters = 1..Len(voters) BY <1>1
  <2>2. RewardBatch(p) = [i \in 1..Len(voters) |->
                           [to |-> voters[i], amount |-> Reward(p, voters[i])]]
    BY <2>1 DEF RewardBatch
  <2> DEFINE e(i) == [to |-> voters[i], amount |-> Reward(p, voters[i])]
  <2>3. \A i \in 1..Len(voters) : e(i) \in E BY <1>3, <2>1
  <2> HIDE DEF e, E
  <2>4. [i \in 1..Len(voters) |-> e(i)] \in Seq(E) BY <2>1, <2>3
  <2> QED BY <2>2, <2>4 DEF e
<1>5. Token!BatchMint(Governor, RewardBatch(p)) BY DEF RewardParticipants, RewardBatch
<1> QED BY <1>4, <1>5, SameMint, BatchesAre

(* What a step of the DAO is to its token. *)
TokenStep ==
  \/ \E s \in Accounts, d \in Accounts \cup {Zero} : TP!Delegate(s, d)
  \/ \E s, to \in Accounts, n \in Nat : TP!TransferTokens(s, to, n) /\ UNCHANGED allowances
  \/ \E s : \E batch \in TP!Batch : TP!BatchMint(s, batch)
  \/ \E s \in Accounts : TP!Pause(s) \/ TP!Unpause(s)

LEMMA TokenSteps ==
  ASSUME VType, [Next]_vars
  PROVE  TokenStep \/ TP!NextBlock \/ UNCHANGED <<tokenState, block>>
<1>0. /\ Users \subseteq Accounts /\ TokenUsers \subseteq Accounts
      /\ Amounts \subseteq 0..MaxUint256 /\ MaxUint256 \in Nat
      /\ Senders \subseteq Accounts
  BY GovernorAssumption DEF Senders
<1>1. CASE UNCHANGED <<tokenState, chain>> BY <1>1 DEF chain
<1>2. CASE Mine
  BY <1>2 DEF Mine, TP!NextBlock, TP!erc20Vars, TP!votesVars, tokenState
<1>3. ASSUME NEW s \in TokenUsers, UseToken(s) PROVE TokenStep
  <2>1. CASE \E d \in Users : Token!Delegate(s, d)
    <3>1. PICK d \in Users : Token!Delegate(s, d) BY <2>1
    <3>2. TP!Delegate(s, d) BY <3>1, SameDelegate
    <3>3. s \in Accounts /\ d \in Accounts \cup {Zero} BY <1>0
    <3> QED BY <3>2, <3>3 DEF TokenStep
  <2>2. CASE \E to \in Users, n \in Amounts : Token!Transfer(s, to, n)
    <3>1. PICK to \in Users, n \in Amounts : Token!Transfer(s, to, n) BY <2>2
    <3>2. TP!TransferTokens(s, to, n) /\ UNCHANGED allowances
      BY <3>1, SameTransfer DEF Token!Transfer
    <3>3. s \in Accounts /\ to \in Accounts /\ n \in Nat BY <1>0
    <3> QED BY <3>2, <3>3 DEF TokenStep
  <2> QED BY <1>3, <2>1, <2>2 DEF UseToken
<1>4. ASSUME NEW s, NEW to \in Users, NEW n \in Amounts, Token!Mint(s, to, n)
      PROVE  TokenStep
  <2>1. to \in Accounts /\ n \in 0..MaxUint256 BY <1>0
  <2>2. \E batch \in TP!Batch : TP!BatchMint(s, batch) BY <1>4, <2>1, MintIsBatch
  <2> QED BY <2>2 DEF TokenStep
<1>5. CASE Rewarding
  <2>1. ASSUME NEW s, NEW p \in Proposals, RewardParticipants(s, p) PROVE TokenStep
    BY <2>1, RewardBatchIs DEF TokenStep
  <2>2. ASSUME NEW s, NEW p, NEW a \in Users, NEW n \in Amounts,
               RewardParticipant(s, p, a, n)
        PROVE  TokenStep
    BY <1>4, <2>2 DEF RewardParticipant
  <2> QED BY <1>5, <2>1, <2>2 DEF Rewarding
<1>6. CASE Pausing
  <2>1. PICK s \in Senders : Pause(s) \/ Unpause(s) \/ PauseToken(s) \/ UseSeed(s)
    BY <1>6 DEF Pausing
  <2>2. CASE PauseToken(s)
    <3>1. TP!Pause(s) \/ TP!Unpause(s)
      BY <2>2 DEF PauseToken, Token!Pause, Token!Unpause, TP!Pause, TP!Unpause,
                  Token!HasRole, TP!HasRole, Token!erc20Vars, TP!erc20Vars,
                  Token!votesVars, TP!votesVars
    <3> QED BY <1>0, <3>1 DEF TokenStep
  <2>3. CASE Pause(s) \/ Unpause(s) \/ UseSeed(s)
    BY <1>1, <2>3 DEF Pause, Unpause, Administer, UseSeed
  <2> QED BY <2>1, <2>2, <2>3
<1>7. CASE Ruling \/ Appointing \/ Cancelling \/ Voting \/ VotingBySig
  <2>1. UNCHANGED <<tokenState, chain>>
    BY <1>7 DEF Ruling, UpdateVotingPeriod, UpdateQuorumFraction, Appointing, ChangeRole,
                SetSeedAddress, Administer, Cancelling, CancelProposal, Voting, Propose,
                ProposeExecutionOnSeed, GovernorPropose, CastVote, VotingBySig, CastVoteBySig
  <2> QED BY <1>1, <2>1
<1>8. CASE Enacting
  <2>1. UNCHANGED <<tokenState, chain>>
    BY <1>8 DEF Enacting, Queue, Execute, ExecuteOnTimelock, ExecuteBatch
  <2> QED BY <1>1, <2>1
<1>9. ASSUME NEW s, UseTimelock(s) PROVE UNCHANGED <<tokenState, chain>>
  BY <1>9 DEF UseTimelock
<1>10. UNCHANGED vars => UNCHANGED <<tokenState, chain>> BY DEF vars
<1> QED BY <1>1, <1>2, <1>3, <1>4, <1>5, <1>6, <1>7, <1>8, <1>9, <1>10 DEF Next, MintTokens

(* The token's promises in the DAO. *)
LEMMA TokenTransaction ==
  ASSUME TP!PInv, TokenStep
  PROVE  TP!HistoriesWritten /\ TP!PlainType' /\ block' = block /\ TP!AccountsBalance'
<1> USE TokenAssumed DEF TP!TokenAssumption
<1>0. TP!TypeOK /\ TP!IInv /\ TP!AccountsBalance BY DEF TP!PInv, TP!IInv
<1>1. ASSUME NEW s \in Accounts, NEW d \in Accounts \cup {Zero}, TP!Delegate(s, d)
      PROVE  /\ TP!HistoriesWritten /\ TP!PlainType' /\ block' = block
             /\ TP!AccountsBalance'
  BY <1>0, <1>1, TP!DelegateStep, TP!DelegateBalances
<1>2. ASSUME NEW s \in Accounts, NEW to \in Accounts, NEW n \in Nat,
             TP!TransferTokens(s, to, n), UNCHANGED allowances
      PROVE  /\ TP!HistoriesWritten /\ TP!PlainType' /\ block' = block
             /\ TP!AccountsBalance'
  <2>1. allowances' \in [Accounts -> [Accounts -> TP!Uint256]]
    BY <1>0, <1>2 DEF TP!TypeOK
  <2> QED BY <1>0, <1>2, <2>1, TP!TransferTokensStep, TP!TransferBalances
<1>3. ASSUME NEW s, NEW batch \in TP!Batch, TP!BatchMint(s, batch)
      PROVE  /\ TP!HistoriesWritten /\ TP!PlainType' /\ block' = block
             /\ TP!AccountsBalance'
  BY <1>0, <1>3, TP!BatchMintStep, TP!BatchMintBalances
<1>4. ASSUME NEW s \in Accounts, TP!Pause(s) \/ TP!Unpause(s)
      PROVE  /\ TP!HistoriesWritten /\ TP!PlainType' /\ block' = block
             /\ TP!AccountsBalance'
  <2>1. TP!Administering(s) BY <1>4 DEF TP!Administering
  <2>2. UNCHANGED <<balances, totalSupply, delegates, checkpoints, totalSupplyCheckpoints>>
    BY <1>4 DEF TP!Pause, TP!Unpause, TP!erc20Vars, TP!votesVars
  <2> QED BY <1>0, <2>1, <2>2, TP!AdminStep, TP!OthersBalance
<1> QED BY <1>1, <1>2, <1>3, <1>4 DEF TokenStep

LEMMA TokenTransactionKeeps ==
  ASSUME TP!PInv, TokenStep
  PROVE  TP!PInv'
<1> USE TokenAssumed DEF TP!TokenAssumption
<1>1. TP!HistoriesWritten /\ TP!PlainType' /\ block' = block /\ TP!AccountsBalance'
  BY TokenTransaction
<1>2. TP!IInv' BY <1>1, TP!TransactionKeeps DEF TP!PInv
<1>3. TP!PastVotesWithinPastSupply' BY <1>1, TP!TransactionKeepsPast
<1> QED BY <1>1, <1>2, <1>3 DEF TP!PInv

LEMMA TokenPromises ==
  ASSUME VType, TP!PInv, [Next]_vars
  PROVE  TP!PInv'
<1> USE TokenAssumed DEF TP!TokenAssumption
<1>1. CASE TokenStep BY <1>1, TokenTransactionKeeps
<1>2. CASE TP!NextBlock
  <2>1. TP!IInv /\ TP!AccountsBalance BY DEF TP!PInv
  <2>2. TP!IInv' BY <1>2, <2>1, TP!NextBlockKeeps
  <2>3. TP!AccountsBalance'
    BY <1>2, <2>1, TP!OthersBalance DEF TP!NextBlock, TP!erc20Vars, TP!votesVars
  <2>4. TP!PastVotesWithinPastSupply' BY <1>2, TP!NextBlockKeepsPast
  <2> QED BY <2>2, <2>3, <2>4 DEF TP!PInv
<1>3. CASE UNCHANGED <<tokenState, block>>
  BY <1>3 DEF tokenState, TP!PInv, TP!IInv, TP!AccountsBalance, TP!PastVotesWithinPastSupply,
     TP!TypeOK, TP!HistoriesUpTo, TP!SupplyIsSumOfBalances, TP!VotesAreDelegatedBalances,
     TP!GetVotes, TP!Delegators, TP!GetPastVotes, TP!GetPastTotalSupply, TP!Histories
<1> QED BY <1>1, <1>2, <1>3, TokenSteps

(* Initially the supply is held by accounts that delegate to themselves. *)
LEMMA InitTokenPromises == Init => TP!PInv
<1> SUFFICES ASSUME Init PROVE TP!PInv
  OBVIOUS
<1> USE TokenAssumed DEF TP!TokenAssumption
<1>0. /\ balances = InitialBalance /\ totalSupply = SumOver(InitialBalance, Accounts)
      /\ delegates = [a \in Accounts |-> IF InitialBalance[a] > 0 THEN a ELSE Zero]
      /\ checkpoints = [a \in Accounts |->
           IF InitialBalance[a] > 0 THEN <<[fromBlock |-> 1, votes |-> InitialBalance[a]]>>
           ELSE <<>>]
      /\ totalSupplyCheckpoints = <<[fromBlock |-> 1, votes |-> totalSupply]>>
      /\ block = 1
  BY DEF Init, InitToken
<1>1. /\ InitialBalance \in [Accounts -> 0..MaxSupply] /\ totalSupply \in 0..MaxSupply
      /\ MaxSupply \in Nat /\ IsFiniteSet(Accounts) /\ Zero \notin Accounts
      /\ \A a \in Accounts : InitialBalance[a] \in 0..MaxSupply
  BY <1>0, GovernorAssumption
<1>2. ASSUME NEW n \in 0..MaxSupply
      PROVE  LET c == <<[fromBlock |-> 1, votes |-> n]>>
             IN  /\ c \in TP!Histories /\ Latest(c) = n /\ UpTo(c, 1)
                 /\ \A b \in 0..0 : Lookup(c, b) = 0
  <2> DEFINE c == <<[fromBlock |-> 1, votes |-> n]>>
  <2>1. /\ Len(c) = 1 /\ c[1] = [fromBlock |-> 1, votes |-> n] /\ c # <<>>
    OBVIOUS
  <2>2. c \in TP!Histories
    BY DEF TP!Histories, TP!Checkpoint, TP!Uint224
  <2> HIDE DEF c
  <2>3. Latest(c) = n /\ UpTo(c, 1) BY <2>1 DEF Latest, UpTo
  <2>4. ASSUME NEW b \in 0..0 PROVE Lookup(c, b) = 0
    <3>1. ValuesAt(c, b) = {} BY <2>1 DEF ValuesAt, InForce
    <3> QED BY <3>1 DEF Lookup
  <2> QED BY <2>2, <2>3, <2>4 DEF c
<1>3. ASSUME NEW n \in Nat
      PROVE  /\ <<>> \in TP!Histories /\ Latest(<<>>) = 0 /\ UpTo(<<>>, n)
             /\ \A b \in 0..0 : Lookup(<<>>, b) = 0
  BY DEF TP!Histories, Latest, UpTo, Lookup, ValuesAt, InForce
<1>4. ASSUME NEW a \in Accounts
      PROVE  /\ checkpoints[a] \in TP!Histories /\ UpTo(checkpoints[a], 1)
             /\ Latest(checkpoints[a]) = InitialBalance[a]
             /\ \A b \in 0..0 : Lookup(checkpoints[a], b) = 0
  <2>1. InitialBalance[a] \in Nat BY <1>1
  <2>2. CASE InitialBalance[a] > 0
    <3>1. checkpoints[a] = <<[fromBlock |-> 1, votes |-> InitialBalance[a]]>> BY <1>0, <2>2
    <3> QED BY <1>1, <1>2, <3>1
  <2>3. CASE ~(InitialBalance[a] > 0)
    <3>1. checkpoints[a] = <<>> /\ InitialBalance[a] = 0 BY <1>0, <2>1, <2>3
    <3> QED BY <1>3, <3>1
  <2> QED BY <2>2, <2>3
<1>5. /\ totalSupplyCheckpoints \in TP!Histories /\ UpTo(totalSupplyCheckpoints, 1)
      /\ Latest(totalSupplyCheckpoints) = totalSupply
      /\ \A b \in 0..0 : Lookup(totalSupplyCheckpoints, b) = 0
  BY <1>0, <1>1, <1>2
<1>6. TP!TypeOK
  <2>1. 0 \in TP!Uint256 /\ totalSupply \in TP!Uint224
    BY <1>1, GovernorAssumption DEF TP!Uint256, TP!Uint224
  <2>2. balances \in [Accounts -> Nat] BY <1>0, <1>1
  <2>3. allowances \in [Accounts -> [Accounts -> TP!Uint256]]
    BY <2>1 DEF Init, InitToken
  <2>4. delegates \in [Accounts -> Accounts \cup {Zero}] BY <1>0
  <2>5. checkpoints \in [Accounts -> TP!Histories] BY <1>0, <1>4
  <2>6. tokenPaused \in BOOLEAN /\ tokenRoles \in [TP!TokenRoles -> SUBSET Accounts]
    BY GovernorAssumption DEF Init, InitToken, TP!TokenRoles, Token!TokenRoles
  <2>7. block \in Nat \ {0} BY <1>0
  <2> QED BY <1>5, <2>1, <2>2, <2>3, <2>4, <2>5, <2>6, <2>7, Zenon DEF TP!TypeOK
<1>7. TP!HistoriesUpTo
  BY <1>0, <1>4, <1>5 DEF TP!HistoriesUpTo, TP!UpTo, UpTo
<1>8. TP!AccountsBalance
  <2>1. TP!SupplyIsSumOfBalances
    BY <1>0, <1>5, SameHist, SameSums DEF TP!SupplyIsSumOfBalances
  <2>2. ASSUME NEW d \in Accounts
        PROVE  InitialBalance[d] = SumOver(InitialBalance, TP!Delegators(d))
    <3>1. InitialBalance[d] \in Nat BY <1>1
    <3>2. CASE InitialBalance[d] > 0
      <4>1. TP!Delegators(d) = {} \cup {d} BY <1>0, <1>1, <3>2 DEF TP!Delegators
      <4>2. IsFiniteSet({}) BY FS_EmptySet
      <4>3. SumOver(InitialBalance, {} \cup {d}) = InitialBalance[d] + SumOver(InitialBalance, {})
        <5>1. d \notin {} /\ \A y \in {} \cup {d} : InitialBalance[y] \in Int BY <3>1
        <5> QED BY <4>2, <5>1, SumAdd
      <4> QED BY <3>1, <4>1, <4>3, SumEmpty
    <3>3. CASE ~(InitialBalance[d] > 0)
      <4>1. TP!Delegators(d) = {} BY <1>0, <1>1, <3>3 DEF TP!Delegators
      <4> QED BY <3>1, <3>3, <4>1, SumEmpty
    <3> QED BY <3>2, <3>3
  <2>3. TP!VotesAreDelegatedBalances
    BY <1>0, <1>4, <2>2, SameHist, SameSums DEF TP!VotesAreDelegatedBalances, TP!GetVotes
  <2> QED BY <2>1, <2>3 DEF TP!AccountsBalance
<1>9. TP!PastVotesWithinPastSupply
  <2>1. ASSUME NEW b \in 0..(block - 1)
        PROVE  SumOver([d \in Accounts |-> TP!GetPastVotes(d, b)], Accounts)
                 <= TP!GetPastTotalSupply(b)
    <3>1. b \in 0..0 BY <1>0
    <3> DEFINE f == [d \in Accounts |-> TP!GetPastVotes(d, b)]
    <3>2. \A d \in Accounts : f[d] = 0 BY <1>4, <3>1, SameHist DEF TP!GetPastVotes
    <3> HIDE DEF f
    <3>3. SumOver(f, Accounts) = 0 BY <1>1, <3>2, SumZero
    <3>4. TP!GetPastTotalSupply(b) = 0 BY <1>5, <3>1, SameHist DEF TP!GetPastTotalSupply
    <3> QED BY <3>3, <3>4 DEF f
  <2> QED BY <2>1, SameSums DEF TP!PastVotesWithinPastSupply
<1> QED BY <1>6, <1>7, <1>8, <1>9 DEF TP!PInv, TP!IInv

--------------------------------------------------------------------------------
(* Ballots.  A ballot is cast when the snapshot is past, so its weight never      *)
(* changes (WriteKeepsPast), and each ballot adds its weight to the tally once:   *)
(* the tally stays the sum of the voters' weights.                                *)

Weights(p) == [v \in Accounts |-> Token!GetPastVotes(v, Snapshot(p))]

Begun(p) == Known(p) /\ Snapshot(p) < block

Counted(p) ==
  /\ hasVoted[p] # {} => Begun(p)
  /\ TotalVotes(p) = SumOver(Weights(p), hasVoted[p])

LEMMA ActiveHasBegun ==
  ASSUME VType, NEW p \in Proposals, ProposalState(p) = "Active"
  PROVE  Begun(p)
<1>1. ProposalState(p) = StatusOf(proposals[p], block, Passed(p), p \in timelockIds,
                                  timestamps[p])
  BY Status DEF StatusIs
<1>2. proposals[p] \in Proposal /\ block \in Nat BY DEF VType, ProposalsType, ClockType
<1> QED BY <1>1, <1>2 DEF StatusOf, Begun, Known, Snapshot, Proposal

(* The snapshot of a vote that has begun is a past block. *)
LEMMA WeightsStay ==
  ASSUME VType, [Next]_vars, NEW p \in Proposals, Begun(p)
  PROVE  Begun(p)' /\ Weights(p)' = Weights(p)
<1>1. proposals'[p].voteStart = proposals[p].voteStart BY RecordStays DEF Begun
<1>2. /\ block \in Nat /\ block' \in Nat /\ block <= block' /\ TokenWritten
      /\ Snapshot(p) \in Nat
  BY HistoriesKept DEF VType, ClockType, ProposalsType, Proposal, Snapshot
<1>3. Begun(p)' BY <1>1, <1>2 DEF Begun, Known, Snapshot
<1>4. ASSUME NEW v \in Accounts
      PROVE  Lookup(checkpoints'[v], Snapshot(p)) = Lookup(checkpoints[v], Snapshot(p))
  <2>1. checkpoints[v] \in Histories /\ Wrote(checkpoints[v], checkpoints'[v])
    BY <1>2 DEF VType, TokenType, TokenWritten
  <2>2. Snapshot(p) < block BY DEF Begun
  <2> QED BY <1>2, <2>1, <2>2, WroteType
<1>5. Snapshot(p)' = Snapshot(p) BY <1>1 DEF Snapshot
<1>6. \A v \in Accounts : Weights(p)'[v] = Weights(p)[v]
  BY <1>4, <1>5, SameHistories DEF Weights, Token!GetPastVotes
<1>7. Weights(p)' = [v \in Accounts |-> Weights(p)'[v]]
      /\ Weights(p) = [v \in Accounts |-> Weights(p)[v]]
  BY DEF Weights
<1> QED BY <1>3, <1>6, <1>7

(* What one ballot changes. *)
LEMMA OneVote ==
  ASSUME VType, NEW v \in Accounts, NEW q \in Proposals,
         NEW support \in {"against", "for", "abstain"}, CastVote(v, q, support),
         NEW p \in Proposals
  PROVE  /\ p = q => /\ Begun(p) /\ v \notin hasVoted[p]
                     /\ hasVoted'[p] = hasVoted[p] \cup {v}
                     /\ TotalVotes(p)' = TotalVotes(p) + VotingWeight(p, v)
         /\ p # q => hasVoted'[p] = hasVoted[p] /\ TotalVotes(p)' = TotalVotes(p)
         /\ Weights(p)' = Weights(p) /\ (Begun(p)' <=> Begun(p))
<1>1. /\ proposalVotes \in [Proposals -> Tally] /\ hasVoted \in [Proposals -> SUBSET Accounts]
      /\ proposalVotes[p] \in Tally
  BY DEF VType, BallotsType
<1>2. /\ proposalVotes' = [proposalVotes EXCEPT ![q][support] = @ + VotingWeight(q, v)]
      /\ hasVoted' = [hasVoted EXCEPT ![q] = @ \cup {v}] /\ v \notin hasVoted[q]
      /\ ProposalState(q) = "Active"
      /\ UNCHANGED <<tokenState, proposals, chain>>
  BY DEF CastVote, CountVote, CountSimple
<1>3. VotingWeight(q, v) \in Nat BY WeightType
<1>4. ASSUME p = q PROVE TotalVotes(p)' = TotalVotes(p) + VotingWeight(p, v)
  <2> DEFINE t == proposalVotes[p]
             w == VotingWeight(q, v)
             u == proposalVotes'[p]
  <2>1. u = [t EXCEPT ![support] = @ + w] BY <1>1, <1>2, <1>4
  <2>2. t \in Tally /\ w \in Nat BY <1>1, <1>3
  <2> HIDE DEF t, w, u
  <2>3. u.against + u.for + u.abstain = t.against + t.for + t.abstain + w
    BY <2>1, <2>2 DEF Tally
  <2> QED BY <1>4, <2>3 DEF t, w, u, TotalVotes
<1>5. ASSUME p = q PROVE Begun(p) BY <1>2, <1>5, ActiveHasBegun
<1>6. ASSUME p # q PROVE hasVoted'[p] = hasVoted[p] /\ TotalVotes(p)' = TotalVotes(p)
  <2>1. proposalVotes'[p] = proposalVotes[p] BY <1>1, <1>2, <1>6
  <2> QED BY <1>1, <1>2, <1>6, <2>1 DEF TotalVotes
<1>7. Weights(p)' = Weights(p)
  BY <1>2, SameHistories DEF tokenState, Weights, Snapshot, Token!GetPastVotes
<1>8. Begun(p)' <=> Begun(p) BY <1>2 DEF chain, Begun, Known, Snapshot
<1> QED BY <1>1, <1>2, <1>4, <1>5, <1>6, <1>7, <1>8

(* Nothing else changes the ballots. *)
LEMMA BallotsChange ==
  ASSUME VType, [Next]_vars
  PROVE  \/ UNCHANGED <<hasVoted, proposalVotes>>
         \/ \E v \in Accounts, p \in Proposals, support \in {"against", "for", "abstain"} :
              CastVote(v, p, support)
<1>1. ASSUME NEW p \in Proposals, Queue(p) \/ Carry(p) PROVE UNCHANGED ballots
  BY <1>1, CarryStep DEF Queue
<1> QED BY <1>1, Kinds
    DEF Elsewhere, Mine, GovernorPropose, CancelProposal, UseTimelock, governorState, ballots

LEMMA WeightsAre ==
  ASSUME VType, NEW p \in Proposals
  PROVE  \A v \in Accounts : Weights(p)[v] \in Nat /\ Weights(p)[v] = VotingWeight(p, v)
BY WeightType DEF Weights, VotingWeight

LEMMA CountedKept ==
  ASSUME VType, [Next]_vars, NEW p \in Proposals, Counted(p)
  PROVE  Counted(p)'
<1>1. CASE UNCHANGED <<hasVoted, proposalVotes>>
  <2>1. TotalVotes(p)' = TotalVotes(p) /\ hasVoted'[p] = hasVoted[p]
    BY <1>1 DEF TotalVotes
  <2>2. CASE hasVoted[p] = {}
    <3> DEFINE w == Weights(p)
               x == Weights(p)'
    <3>1. SumOver(w, {}) = 0 /\ SumOver(x, {}) = 0 BY SumEmpty
    <3>2. TotalVotes(p) = 0 BY <2>2, <3>1 DEF Counted
    <3> QED BY <2>1, <2>2, <3>1, <3>2 DEF Counted
  <2>3. CASE hasVoted[p] # {}
    <3>1. Begun(p)' /\ Weights(p)' = Weights(p) BY <2>3, WeightsStay DEF Counted
    <3> QED BY <2>1, <3>1 DEF Counted
  <2> QED BY <2>2, <2>3
<1>2. ASSUME NEW v \in Accounts, NEW q \in Proposals,
             NEW support \in {"against", "for", "abstain"}, CastVote(v, q, support)
      PROVE  Counted(p)'
  <2>1. CASE p = q
    <3>1. /\ Begun(p)' /\ v \notin hasVoted[p] /\ hasVoted'[p] = hasVoted[p] \cup {v}
          /\ TotalVotes(p)' = TotalVotes(p) + VotingWeight(p, v)
          /\ Weights(p)' = Weights(p)
      BY <1>2, <2>1, OneVote
    <3>2. hasVoted[p] \in SUBSET Accounts /\ IsFiniteSet(hasVoted[p])
      <4>1. hasVoted[p] \in SUBSET Accounts BY DEF VType, BallotsType
      <4> QED BY <4>1, GovernorAssumption, FS_Subset
    <3> DEFINE w == Weights(p)
    <3>3. \A y \in Accounts : w[y] \in Nat /\ w[y] = VotingWeight(p, y) BY WeightsAre
    <3> HIDE DEF w
    <3>4. \A y \in hasVoted[p] \cup {v} : w[y] \in Int BY <3>2, <3>3
    <3>5. SumOver(w, hasVoted[p] \cup {v}) = w[v] + SumOver(w, hasVoted[p])
      BY <3>1, <3>2, <3>4, SumAdd
    <3>6. TotalVotes(p) = SumOver(w, hasVoted[p]) BY DEF Counted, w
    <3>7. SumOver(w, hasVoted[p]) \in Int BY <3>2, <3>4, SumInt
    <3>8. TotalVotes(p)' = SumOver(w, hasVoted[p] \cup {v})
      BY <3>1, <3>3, <3>5, <3>6, <3>7
    <3> QED BY <3>1, <3>8 DEF Counted, w
  <2>2. CASE p # q
    <3>1. /\ hasVoted'[p] = hasVoted[p] /\ TotalVotes(p)' = TotalVotes(p)
          /\ Weights(p)' = Weights(p) /\ (Begun(p)' <=> Begun(p))
      BY <1>2, <2>2, OneVote
    <3> QED BY <3>1 DEF Counted
  <2> QED BY <2>1, <2>2
<1> QED BY <1>1, <1>2, BallotsChange

TallyInv == VType /\ TP!PInv /\ \A p \in Proposals : Counted(p)

LEMMA TallyFollows == TallyInv => TallyIsVotesAtSnapshot
<1> SUFFICES ASSUME TallyInv, NEW p \in Proposals, hasVoted[p] # {}
             PROVE  /\ TotalVotes(p) = SumOver(Weights(p), hasVoted[p])
                    /\ TotalVotes(p) <= Token!GetPastTotalSupply(Snapshot(p))
  BY DEF TallyIsVotesAtSnapshot, Weights
<1>1. VType /\ TP!PInv /\ Counted(p) /\ Begun(p) BY DEF TallyInv, Counted
<1>2. TotalVotes(p) = SumOver(Weights(p), hasVoted[p]) BY <1>1 DEF Counted
<1>3. hasVoted[p] \in SUBSET Accounts /\ IsFiniteSet(Accounts)
  BY <1>1, GovernorAssumption DEF VType, BallotsType
<1>4. \A v \in Accounts : Weights(p)[v] \in Nat BY <1>1, WeightsAre
<1>5. SumOver(Weights(p), hasVoted[p]) <= SumOver(Weights(p), Accounts)
      /\ SumOver(Weights(p), hasVoted[p]) \in Nat
      /\ SumOver(Weights(p), Accounts) \in Nat
  BY <1>3, <1>4, SumPart, SumNat
<1>6. Snapshot(p) \in 0..(block - 1)
  BY <1>1 DEF Begun, VType, ClockType, ProposalsType, Proposal, Snapshot
<1>7. SumOver(Weights(p), Accounts) <= Token!GetPastTotalSupply(Snapshot(p))
  <2>1. TP!PastVotesWithinPastSupply BY <1>1 DEF TP!PInv
  <2>2. TP!SumOver([d \in Accounts |-> TP!GetPastVotes(d, Snapshot(p))], Accounts)
          <= TP!GetPastTotalSupply(Snapshot(p))
    BY <1>6, <2>1 DEF TP!PastVotesWithinPastSupply
  <2> QED BY <2>2, SameSums, SameViews DEF Weights
<1>8. Token!GetPastTotalSupply(Snapshot(p)) \in Nat
  BY <1>1, LookupNat, SameHistories DEF VType, TokenType, Token!GetPastTotalSupply
<1> QED BY <1>2, <1>5, <1>7, <1>8

LEMMA TallyInvInvariant == Spec => []TallyInv
<1>1. Init => TallyInv
  <2> SUFFICES ASSUME Init, NEW p \in Proposals PROVE Counted(p)
    BY InitVType, InitTokenPromises DEF TallyInv
  <2>1. hasVoted[p] = {} /\ TotalVotes(p) = 0
    BY DEF Init, InitGovernor, TotalVotes
  <2> QED BY <2>1, SumEmpty DEF Counted
<1>2. TallyInv /\ [Next]_vars => TallyInv'
  BY VTypeKept, TokenPromises, CountedKept DEF TallyInv
<1> QED BY <1>1, <1>2, PTL DEF Spec

(* Whatever was transferred, minted or delegated since, a tally is the votes its *)
(* voters had at the snapshot, and no more than the supply then: the voters'      *)
(* votes are part of all accounts' votes, and those within the supply             *)
(* (TP!PastVotesWithinPastSupply). *)
THEOREM TalliesCountVotesAtSnapshot == Spec => []TallyIsVotesAtSnapshot
BY TallyInvInvariant, TallyFollows, PTL

(* What is said of a passed proposal: some voted for it, and the voters together *)
(* had, at its snapshot, the fraction of the supply then that the quorum was.     *)
Backed(p) ==
  /\ proposalVotes[p].for > 0 /\ hasVoted[p] # {}
  /\ Quorum(Snapshot(p)) <= SumOver(Weights(p), hasVoted[p])

LEMMA PassedIsBacked ==
  ASSUME TallyInv, NEW p \in Proposals, Passed(p)
  PROVE  Backed(p)
<1> DEFINE t == proposalVotes[p]
<1>1. VType /\ Counted(p) /\ t \in Tally BY DEF TallyInv, VType, BallotsType
<1>2. Quorum(Snapshot(p)) <= t.for + t.abstain /\ t.for > t.against
  BY DEF Passed, QuorumReached, VoteSucceeded
<1>3. t.for > 0 /\ t.for + t.abstain <= TotalVotes(p) /\ TotalVotes(p) \in Nat
      /\ TotalVotes(p) > 0 /\ t.for + t.abstain \in Nat
  BY <1>1, <1>2 DEF Tally, TotalVotes
<1>4. TotalVotes(p) = SumOver(Weights(p), hasVoted[p]) BY <1>1 DEF Counted
<1>5. hasVoted[p] # {}
  <2>1. SumOver(Weights(p), {}) = 0 BY SumEmpty
  <2> QED BY <1>3, <1>4, <2>1
<1>6. Quorum(Snapshot(p)) \in Int
  <2>1. Token!GetPastTotalSupply(Snapshot(p)) \in Nat /\ QuorumNumeratorAt(Snapshot(p)) \in Nat
    BY <1>1, LookupNat, SameHistories
       DEF VType, TokenType, RulesType, Token!GetPastTotalSupply, QuorumNumeratorAt
  <2>2. QuorumDenominator \in Nat \ {0} BY GovernorAssumption
  <2>3. \A m \in Int : m \div QuorumDenominator \in Int BY <2>2
  <2>4. Token!GetPastTotalSupply(Snapshot(p)) * QuorumNumeratorAt(Snapshot(p)) \in Int
    BY <2>1
  <2> QED BY <2>3, <2>4 DEF Quorum
<1> HIDE DEF t
<1>7. Quorum(Snapshot(p)) <= TotalVotes(p) BY <1>2, <1>3, <1>6
<1> QED BY <1>3, <1>4, <1>5, <1>7 DEF Backed, t

(* Whatever the timelock carries out, for the governor or past it, had a quorum   *)
(* of the supply at its snapshot behind it and more votes for than against, as    *)
(* long as nobody but the governor may propose in the timelock: tokens bought     *)
(* or minted after the snapshot decide nothing. *)
THEOREM OnlyAQuorumActs ==
  ASSUME OnlyGovernorProposes
  PROVE  Spec => [][\A p \in Proposals :
                      ~TL!IsOperationDone(p) /\ timestamps'[p] = TL!DONE
                        => Passed(p) /\ Backed(p)]_vars
<1>1. ASSUME KInv, TallyInv, [Next]_vars, NEW p \in Proposals,
             timestamps[p] # 1, timestamps'[p] = 1
      PROVE  Passed(p) /\ Backed(p)
  <2>1. VType /\ Held(p) /\ timestamps \in [Proposals -> Nat] /\ now \in Nat /\ minDelay \in Nat
        /\ now > 1
    BY <1>1 DEF KInv, VType, QueueType, ClockType
  <2>2. timestamps[p] > 1
    BY <1>1, <2>1, OperationsChange
       DEF Schedules, Withdraws, CarriesOut, TL!IsOperationReady, TL!DONE
  <2>3. Passed(p) BY <2>1, <2>2 DEF Held
  <2> QED BY <1>1, <2>3, PassedIsBacked
<1>2. KInv /\ TallyInv /\ [Next]_vars =>
        [\A p \in Proposals : ~TL!IsOperationDone(p) /\ timestamps'[p] = TL!DONE
                                => Passed(p) /\ Backed(p)]_vars
  BY <1>1 DEF TL!IsOperationDone, TL!DONE
<1> QED BY <1>2, KInvInvariant, TallyInvInvariant, PTL DEF Spec

--------------------------------------------------------------------------------
(* Types *)

(* The Seed's state, and the governor's own flag. *)
SeedOK == /\ seedRoles = [r \in SeedC!SeedRoles |-> seedRoles[r]]
          /\ seedPaused \in BOOLEAN /\ paused \in BOOLEAN

(* What a field may hold, of every contract: amounts and dates are numbers,      *)
(* histories hold numbers, the token's also fit 224 bits, a vote is not over      *)
(* before it begins, and a contract has only the roles it defines.  Stored values *)
(* and addresses may be anything.                                                 *)
TypeOK == VType /\ TP!TypeOK /\ RolesOK /\ TimelockOK /\ SeedOK

LEMMA SeedOKKept ==
  ASSUME SeedOK, [Next]_vars
  PROVE  SeedOK'
<1>0. CASE UNCHANGED <<seedState, paused>> BY <1>0 DEF SeedOK, seedState
<1>1. CASE UNCHANGED vars \/ Mine \/ Rewarding
  <2>1. UNCHANGED seedState /\ UNCHANGED governorState
    BY <1>1 DEF vars, Mine, Rewarding, RewardParticipants, RewardParticipant
  <2> QED BY <1>0, <2>1 DEF governorState, admin
<1>2. CASE Voting \/ VotingBySig \/ Cancelling
  <2>1. UNCHANGED seedState /\ UNCHANGED admin
    BY <1>2 DEF Voting, VotingBySig, Cancelling, Propose, ProposeExecutionOnSeed,
                GovernorPropose, CastVoteBySig, CastVote, CancelProposal
  <2> QED BY <1>0, <2>1 DEF admin
<1>3. ASSUME NEW p \in Proposals, Carry(p) PROVE SeedOK'
  <2>1. PICK fromGovernor \in BOOLEAN :
          PerformCall(Payload[p], fromGovernor) /\ UNCHANGED paused
    BY <1>3 DEF Carry, Execute, ExecuteOnTimelock, ExecuteBatch
  <2>2. \/ UNCHANGED seedState
        \/ SeedC!Store(Timelock, Payload[p].arg) \/ SeedC!PauseSeed(Governor)
    BY <2>1 DEF PerformCall, GovernanceCalls, Relay, seedState
  <2> QED BY <1>0, <2>1, <2>2 DEF SeedC!Store, SeedC!PauseSeed, SeedOK
<1>4. CASE Enacting
  <2>1. \A p \in Proposals : Queue(p) => UNCHANGED <<seedState, paused>>
    BY DEF Queue, admin
  <2> QED BY <1>0, <1>3, <1>4, <2>1 DEF Enacting, Carry
<1>5. CASE Ruling \/ Appointing
  BY <1>0, <1>5 DEF Ruling, UpdateVotingPeriod, UpdateQuorumFraction, admin, Appointing,
                    ChangeRole, SetSeedAddress, Administer
<1>6. CASE Pausing
  <2>1. PICK s \in Senders : Pause(s) \/ Unpause(s) \/ PauseToken(s) \/ UseSeed(s)
    BY <1>6 DEF Pausing
  <2>2. CASE Pause(s) \/ Unpause(s)
    BY <2>2 DEF Pause, Unpause, Administer, seedState, SeedOK
  <2>3. CASE PauseToken(s)
    BY <1>0, <2>3 DEF PauseToken, governorState, admin
  <2>4. CASE UseSeed(s)
    <3>1. UNCHANGED paused BY <2>4 DEF UseSeed, governorState, admin
    <3>2. CASE \/ SeedC!PauseSeed(s) \/ SeedC!UnpauseSeed(s)
               \/ \E n \in SeedValues : SeedC!Store(s, n)
      BY <3>1, <3>2 DEF SeedC!PauseSeed, SeedC!UnpauseSeed, SeedC!Store, SeedOK
    <3>3. ASSUME NEW rc, \/ seedRoles' = SeedC!Granted(seedRoles, rc[1], rc[2])
                         \/ \E a : seedRoles' = SeedC!Revoked(seedRoles, rc[1], a),
                 UNCHANGED seedPaused
          PROVE  SeedOK'
      BY <3>1, <3>3 DEF SeedC!Granted, SeedC!Revoked, SeedOK
    <3> QED BY <2>4, <3>2, <3>3
        DEF UseSeed, SeedC!GrantSeedRole, SeedC!RevokeSeedRole, SeedC!RenounceSeedRole
  <2> QED BY <2>1, <2>2, <2>3, <2>4
<1>7. CASE \/ \E s \in TokenUsers : UseToken(s)
           \/ \E s \in Senders, to \in Users, n \in Amounts : MintTokens(s, to, n)
           \/ \E s \in Senders : UseTimelock(s)
  <2>1. UNCHANGED seedState /\ UNCHANGED governorState
    BY <1>7 DEF UseToken, MintTokens, UseTimelock
  <2> QED BY <1>0, <2>1 DEF governorState, admin
<1> QED BY <1>1, <1>2, <1>4, <1>5, <1>6, <1>7 DEF Next

(* Every contract's state keeps its type, whatever transactions and calls of     *)
(* proposals are made. *)
THEOREM TypeCorrect == Spec => []TypeOK
<1>1. Init => RolesOK /\ TimelockOK /\ SeedOK
  BY DEF Init, InitGovernor, InitTimelock, InitSeed, RolesOK, TimelockOK, SeedOK
<1>2. VType /\ RolesOK /\ TimelockOK /\ SeedOK /\ [Next]_vars
        => (RolesOK /\ TimelockOK /\ SeedOK)'
  BY RolesKept, TimelockOKKept, SeedOKKept
<1>3. TallyInv /\ RolesOK /\ TimelockOK /\ SeedOK => TypeOK
  BY DEF TallyInv, TP!PInv, TP!IInv, TypeOK
<1> QED BY <1>1, <1>2, <1>3, TallyInvInvariant, VTypeInvariant, PTL DEF Spec

--------------------------------------------------------------------------------
(* Widths.  The model refuses what the conversions to 64 bits and the timelock's  *)
(* checked addition refuse; it counts ballots without a limit and needs none.     *)

WidthsOK ==
  \A p \in Proposals : Deadline(p) <= MaxUint64 /\ timestamps[p] <= MaxUint256

LEMMA DeadlineChanges ==
  ASSUME VType, [Next]_vars, NEW p \in Proposals
  PROVE  proposals'[p].voteEnd = proposals[p].voteEnd \/ proposals'[p].voteEnd <= MaxUint64
<1>0. proposals \in [Proposals -> Proposal] BY DEF VType, ProposalsType
<1>1. ASSUME NEW s, NEW q \in Proposals, GovernorPropose(s, q)
      PROVE  proposals'[p].voteEnd = proposals[p].voteEnd \/ proposals'[p].voteEnd <= MaxUint64
  <2> DEFINE start == block + VotingDelay
             end == start + VotingPeriod
  <2>1. /\ end <= MaxUint64
        /\ proposals' = [proposals EXCEPT ![q].voteStart = start, ![q].voteEnd = end]
    BY <1>1 DEF GovernorPropose
  <2> HIDE DEF start, end
  <2> QED BY <1>0, <2>1 DEF Proposal
<1>2. ASSUME NEW q \in Proposals, Queue(q) \/ Carry(q)
      PROVE  proposals'[p].voteEnd = proposals[p].voteEnd
  BY <1>0, <1>2, CarryStep DEF Queue, Proposal
<1>3. ASSUME NEW s, NEW q \in Proposals, CancelProposal(s, q)
      PROVE  proposals'[p].voteEnd = proposals[p].voteEnd
  BY <1>0, <1>3, CancelStep DEF Proposal
<1>4. Elsewhere \/ Mine \/ (\E s \in Senders : UseTimelock(s))
      \/ (\E v \in Accounts, q \in Proposals, support \in {"against", "for", "abstain"} :
             CastVote(v, q, support))
        => UNCHANGED proposals
  BY DEF Elsewhere, Mine, UseTimelock, CastVote, governorState
<1> QED BY <1>1, <1>2, <1>3, <1>4, Kinds

LEMMA WidthsKept ==
  ASSUME VType, WidthsOK, [Next]_vars
  PROVE  WidthsOK'
<1> SUFFICES ASSUME NEW p \in Proposals
             PROVE  Deadline(p)' <= MaxUint64 /\ timestamps'[p] <= MaxUint256
  BY DEF WidthsOK
<1>1. timestamps \in [Proposals -> Nat] /\ timestamps[p] \in Nat /\ MaxUint256 \in Nat
  BY GovernorAssumption DEF VType, QueueType
<1>2. Deadline(p) <= MaxUint64 /\ timestamps[p] <= MaxUint256 BY DEF WidthsOK
<1>3. Deadline(p)' <= MaxUint64 BY <1>2, DeadlineChanges DEF Deadline
<1>4. ASSUME NEW q \in Proposals, Schedules(q) PROVE timestamps'[p] <= MaxUint256
  BY <1>1, <1>2, <1>4 DEF Schedules
<1>5. ASSUME NEW q \in Proposals, Withdraws(q) PROVE timestamps'[p] <= MaxUint256
  BY <1>1, <1>2, <1>5 DEF Withdraws
<1>6. ASSUME NEW q \in Proposals, CarriesOut(q) PROVE timestamps'[p] <= MaxUint256
  <2>1. timestamps[q] > 1 /\ timestamps[q] <= MaxUint256 /\ timestamps[q] \in Nat
    BY <1>1, <1>6 DEF CarriesOut, TL!IsOperationReady, TL!DONE, WidthsOK
  <2> QED BY <1>1, <1>2, <1>6, <2>1 DEF CarriesOut
<1> QED BY <1>2, <1>3, <1>4, <1>5, <1>6, OperationsChange

(* Whatever is voted, scheduled and proposed, the numbers fit the types that the  *)
(* contracts keep them in: a tally, however often it is added to, stays within the *)
(* 224 bits of the token's supply, so that no ballot is refused by the checked     *)
(* addition of _countVote; deadlines have 64 bits and the timelock's times 256.    *)
THEOREM NumbersFit ==
  Spec => [](\A p \in Proposals : /\ TotalVotes(p) \in 0..MaxSupply
                                  /\ Deadline(p) \in 0..MaxUint64
                                  /\ timestamps[p] \in 0..MaxUint256)
<1>1. Init => WidthsOK
  <2> SUFFICES ASSUME Init, NEW p \in Proposals
               PROVE  Deadline(p) <= MaxUint64 /\ timestamps[p] <= MaxUint256
    BY DEF WidthsOK
  <2>1. Deadline(p) = 0 /\ timestamps[p] = 0
    BY DEF Init, InitGovernor, InitTimelock, Deadline
  <2> QED BY <2>1, GovernorAssumption
<1>2. VType /\ WidthsOK /\ [Next]_vars => WidthsOK' BY WidthsKept
<1>3. TallyInv /\ WidthsOK =>
        \A p \in Proposals : /\ TotalVotes(p) \in 0..MaxSupply
                             /\ Deadline(p) \in 0..MaxUint64
                             /\ timestamps[p] \in 0..MaxUint256
  <2> SUFFICES ASSUME TallyInv, WidthsOK, NEW p \in Proposals
               PROVE  /\ TotalVotes(p) \in 0..MaxSupply
                      /\ Deadline(p) \in 0..MaxUint64
                      /\ timestamps[p] \in 0..MaxUint256
    OBVIOUS
  <2>1. VType /\ Counted(p) BY DEF TallyInv
  <2>2. /\ Deadline(p) \in Nat /\ timestamps[p] \in Nat
        /\ MaxSupply \in Nat /\ MaxUint64 \in Nat /\ MaxUint256 \in Nat
    BY <2>1, GovernorAssumption DEF VType, ProposalsType, Proposal, QueueType, Deadline
  <2>3. Deadline(p) \in 0..MaxUint64 /\ timestamps[p] \in 0..MaxUint256
    BY <2>2 DEF WidthsOK
  <2>4. TotalVotes(p) \in Nat BY <2>1 DEF VType, BallotsType, Tally, TotalVotes
  <2>5. CASE hasVoted[p] = {}
    <3> DEFINE w == Weights(p)
    <3>1. SumOver(w, {}) = 0 BY SumEmpty
    <3> QED BY <2>1, <2>2, <2>3, <2>5, <3>1 DEF Counted
  <2>6. CASE hasVoted[p] # {}
    <3>1. TotalVotes(p) <= Token!GetPastTotalSupply(Snapshot(p))
      BY <2>6, TallyFollows DEF TallyIsVotesAtSnapshot
    <3>2. Token!GetPastTotalSupply(Snapshot(p)) \in 0..MaxSupply
      <4>1. TP!TypeOK BY DEF TallyInv, TP!PInv, TP!IInv
      <4>2. totalSupplyCheckpoints \in Seq(Checkpoint(Nat, 0..MaxSupply))
        BY <4>1 DEF TP!TypeOK, TP!Histories, TP!Uint224, TP!Checkpoint, Checkpoint
      <4>3. 0 \in 0..MaxSupply BY <2>2
      <4> QED BY <4>2, <4>3, LookupType, SameHistories DEF Token!GetPastTotalSupply
    <3> QED BY <2>2, <2>3, <2>4, <3>1, <3>2
  <2> QED BY <2>5, <2>6
<1> QED BY <1>1, <1>2, <1>3, TallyInvInvariant, VTypeInvariant, PTL DEF Spec

--------------------------------------------------------------------------------
(* The token within the DAO *)

(* What a step of the DAO is to the past of its token. *)
LEMMA TokenHistoryMoves ==
  ASSUME VType, TP!PInv, [Next]_vars
  PROVE  [TP!History!Next]_(TP!History!historyVars)
<1> USE TokenAssumed DEF TP!TokenAssumption
<1>0. TP!IInv BY DEF TP!PInv
<1>1. CASE TokenStep
  BY <1>0, <1>1, TokenTransaction, TP!TransactionMoves DEF TP!History!Next
<1>2. CASE TP!NextBlock BY <1>0, <1>2, TP!MineRecords DEF TP!History!Next
<1>3. CASE UNCHANGED <<tokenState, block>>
  BY <1>3 DEF tokenState, TP!History!historyVars, TP!Current, TP!Ended, TP!PastAt,
              TP!GetVotes, TP!GetPastVotes, TP!GetPastTotalSupply
<1> QED BY <1>1, <1>2, <1>3, TokenSteps

(* With rewards minted in batches, delegations and transfers by the DAO's users   *)
(* and the chain's blocks shared with the governor, the token keeps what it       *)
(* promises alone: supply and votes are those of the balances, and a transfer     *)
(* never lacks its delegate's votes (FarmGovernor.rewardParticipants, PeachToken). *)
THEOREM TokenIsSound ==
  Spec => [](/\ TP!SupplyIsSumOfBalances /\ TP!VotesAreDelegatedBalances
             /\ TP!VotesNeverBlockTransfers /\ TP!PastVotesWithinPastSupply)
<1> DEFINE Promised == /\ TP!SupplyIsSumOfBalances /\ TP!VotesAreDelegatedBalances
                       /\ TP!VotesNeverBlockTransfers /\ TP!PastVotesWithinPastSupply
<1>1. TallyInv => Promised
  <2> USE TokenAssumed DEF TP!TokenAssumption
  <2> SUFFICES ASSUME TallyInv PROVE Promised
    OBVIOUS
  <2>1. TP!TypeOK /\ TP!AccountsBalance /\ TP!PastVotesWithinPastSupply
    BY DEF TallyInv, TP!PInv, TP!IInv
  <2>2. TP!VotesNeverBlockTransfers BY <2>1, TP!MovesAreCovered
  <2> QED BY <2>1, <2>2 DEF TP!AccountsBalance
<1> QED BY <1>1, TallyInvInvariant, PTL

(* What the governor reads at a snapshot is what was in force at the end of that  *)
(* block, and no later step of governor, timelock or token rewrites it. *)
THEOREM SnapshotsAreNeverRewritten == Spec => TP!HistorySpec
<1>1. Init => TP!History!Init
  <2> SUFFICES ASSUME Init PROVE TP!History!Init
    OBVIOUS
  <2> USE TokenAssumed DEF TP!TokenAssumption
  <2>1. TP!TypeOK BY InitTokenPromises DEF TP!PInv, TP!IInv
  <2>2. block = 1 BY DEF Init, InitToken
  <2> QED BY <2>1, <2>2, TP!HistoryBegins
<1>2. TallyInv /\ [Next]_vars => [TP!History!Next]_(TP!History!historyVars)
  BY TokenHistoryMoves DEF TallyInv
<1> QED BY <1>1, <1>2, TallyInvInvariant, PTL DEF Spec, TP!HistorySpec, TP!History!Spec

--------------------------------------------------------------------------------
(* Rewards *)

(* What each voter gets. *)
Shares(p) == [v \in Accounts |-> TP!Credit(RewardBatch(p), {v})]

(* The batch lists a voter once, with its share of the pool. *)
LEMMA SharesAre ==
  ASSUME VType, VotersListed, NEW p \in Proposals, RewardBatch(p) \in TP!Batch,
         NEW v \in hasVoted[p]
  PROVE  Shares(p)[v] = (Weights(p)[v] * RewardPool) \div TotalVotes(p)
<1> DEFINE voters == proposalVotersList[p]
           batch == RewardBatch(p)
           amount == [i \in DOMAIN batch |-> batch[i].amount]
<1>1. voters \in Seq(Accounts) /\ v \in Accounts /\ hasVoted[p] \in SUBSET Accounts
  BY DEF VType, BallotsType
<1>2. PICK i \in DOMAIN voters : voters[i] = v BY DEF VotersListed, Range
<1>3. /\ DOMAIN batch = DOMAIN voters
      /\ \A j \in DOMAIN voters : /\ batch[j].to = voters[j]
                                  /\ batch[j].amount = Reward(p, voters[j])
  BY DEF RewardBatch
<1>4. {j \in DOMAIN batch : batch[j].to \in {v}} = {} \cup {i}
  <2>1. \A j \in DOMAIN voters : voters[j] = v => j = i
    BY <1>2 DEF VotersListed, IsInjective
  <2> QED BY <1>2, <1>3, <2>1
<1>5. amount[i] = Reward(p, v) BY <1>2, <1>3
<1>6. amount[i] \in Int
  <2>1. batch \in Seq(TP!Entry) /\ i \in DOMAIN batch BY <1>2, <1>3 DEF TP!Batch
  <2>2. batch[i] \in TP!Entry
    <3> HIDE DEF batch
    <3> QED BY <2>1
  <2> QED BY <2>1, <2>2 DEF TP!Entry, TP!Uint256
<1> HIDE DEF amount
<1>7. SumOver(amount, {} \cup {i}) = amount[i]
  <2>1. SumOver(amount, {} \cup {i}) = amount[i] + SumOver(amount, {})
    BY <1>6, FS_EmptySet, SumAdd
  <2> QED BY <1>6, <2>1, SumEmpty
<1>8. TP!Credit(batch, {v}) = SumOver(amount, {j \in DOMAIN batch : batch[j].to \in {v}})
  BY SameSums DEF TP!Credit, amount
<1>9. TP!Credit(batch, {v}) = Reward(p, v) BY <1>4, <1>5, <1>7, <1>8
<1> HIDE DEF batch
<1>10. Shares(p)[v] = TP!Credit(batch, {v}) BY <1>1 DEF Shares, batch
<1>11. Weights(p)[v] = VotingWeight(p, v) BY <1>1, WeightsAre
<1> QED BY <1>9, <1>10, <1>11 DEF Reward

(* Only voters are in the batch. *)
LEMMA MintedIsShared ==
  ASSUME VType, VotersListed, NEW p \in Proposals, RewardBatch(p) \in TP!Batch
  PROVE  TP!Credit(RewardBatch(p), Accounts) = SumOver(Shares(p), hasVoted[p])
<1> DEFINE batch == RewardBatch(p)
<1>1. /\ hasVoted[p] \in SUBSET Accounts /\ proposalVotersList[p] \in Seq(Accounts)
  BY DEF VType, BallotsType
<1>2. {i \in DOMAIN batch : batch[i].to \in Accounts}
        = {i \in DOMAIN batch : batch[i].to \in hasVoted[p]}
  BY <1>1 DEF RewardBatch, VotersListed, Range
<1>3. TP!Credit(batch, Accounts) = TP!Credit(batch, hasVoted[p])
  BY <1>2 DEF TP!Credit
<1>4. TP!IsFiniteSet(Accounts)
  BY GovernorAssumption DEF TP!IsFiniteSet, IsFiniteSet
<1> HIDE DEF batch
<1>5. TP!Credit(batch, hasVoted[p])
        = TP!SumOver([a \in Accounts |-> TP!Credit(batch, {a})], hasVoted[p])
  <2> USE TokenAssumed DEF TP!TokenAssumption
  <2>1. batch \in TP!Batch BY DEF batch
  <2> QED BY <1>1, <1>4, <2>1, TP!CreditAdds
<1> QED BY <1>3, <1>5, SameSums DEF Shares, batch

(* The tally is the sum of the weights, so the shares are those of SumOfShares. *)
LEMMA RewardStep ==
  ASSUME TallyInv, VotersListed, NEW p \in Proposals, NEW s, RewardParticipants(s, p)
  PROVE  /\ totalSupply' - totalSupply <= RewardPool
         /\ totalSupply' - totalSupply > RewardPool - Cardinality(hasVoted[p])
<1> DEFINE w == Weights(p)
           voted == hasVoted[p]
           total == TotalVotes(p)
           minted == SumOver(Shares(p), voted)
<1>1. VType /\ Counted(p) BY DEF TallyInv
<1>2. TP!BatchMint(Governor, RewardBatch(p)) /\ RewardBatch(p) \in TP!Batch
  BY <1>1, RewardBatchIs
<1>3. voted \in SUBSET Accounts /\ IsFiniteSet(voted)
  <2>1. voted \in SUBSET Accounts BY <1>1 DEF VType, BallotsType
  <2> QED BY <2>1, GovernorAssumption, FS_Subset
<1>4. \A v \in voted : w[v] \in Nat BY <1>1, <1>3, WeightsAre
<1>5. total \in Nat /\ total > 0
  BY <1>1 DEF RewardParticipants, VType, BallotsType, Tally, TotalVotes
<1>6. total = SumOver(w, voted) BY <1>1 DEF Counted
<1>7. \A v \in voted : Shares(p)[v] = (w[v] * RewardPool) \div total
  BY <1>1, <1>2, SharesAre
<1>8. RewardPool \in Nat BY GovernorAssumption
<1>9. totalSupply \in Int BY DEF TallyInv, TP!PInv, TP!IInv, TP!TypeOK, TP!Uint224
<1>10. totalSupply' = totalSupply + minted
  <2>1. totalSupply' = totalSupply + TP!Credit(RewardBatch(p), Accounts)
    BY <1>2 DEF TP!BatchMint
  <2> QED BY <1>1, <1>2, <2>1, MintedIsShared
<1> HIDE DEF w, voted, total
<1>11. minted <= RewardPool /\ minted > RewardPool - Cardinality(voted)
  BY <1>3, <1>4, <1>5, <1>6, <1>7, <1>8, SumOfShares
<1>12. minted \in Int /\ Cardinality(voted) \in Nat
  <2>1. \A v \in voted : Shares(p)[v] \in Int
    <3> SUFFICES ASSUME NEW v \in voted PROVE Shares(p)[v] \in Int
      OBVIOUS
    <3>1. w[v] * RewardPool \in Nat BY <1>4, <1>8
    <3> QED BY <1>5, <1>7, <3>1
  <2> QED BY <1>3, <2>1, SumInt, FS_CardinalityType
<1> HIDE DEF minted
<1> QED BY <1>8, <1>9, <1>10, <1>11, <1>12 DEF voted

(* One call of rewardParticipants hands out the pool in proportion to the votes *)
(* cast: never more than the pool, and less by at most a unit for each voter.    *)
THEOREM RewardsAreTheShares == Spec => RewardsShareThePool
<1> DEFINE Shared ==
      \A p \in Proposals :
        (\E s \in Accounts : RewardParticipants(s, p)) =>
          /\ totalSupply' - totalSupply <= RewardPool
          /\ totalSupply' - totalSupply > RewardPool - Cardinality(hasVoted[p])
<1>1. TallyInv /\ VotersListed => [Shared]_vars BY RewardStep
<1> QED BY <1>1, TallyInvInvariant, VotersAreListed, PTL DEF RewardsShareThePool
================================================================================
