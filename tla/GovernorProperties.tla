-------------------------- MODULE GovernorProperties ---------------------------
(* What the DAO's contracts promise together: invariants, action properties,    *)
(* the life of a proposal as a refinement, and what must eventually happen.      *)
EXTENDS FarmGovernor

Tallies == [{"against", "for", "abstain"} -> Nat]

--------------------------------------------------------------------------------
(* Voting *)

(* The list that rewards are paid on names every voter once and nobody else:    *)
(* FarmGovernor's own record agrees with GovernorCountingSimple's (_countVote).  *)
VotersListed ==
  \A p \in Proposals :
    /\ Range(proposalVotersList[p]) = hasVoted[p]
    /\ proposalVoters[p] = hasVoted[p]
    /\ IsInjective(proposalVotersList[p])

(* Whatever was transferred, minted or delegated since, the votes counted are   *)
(* those the voters had at the snapshot, and no more than the supply then.       *)
TallyIsVotesAtSnapshot ==
  \A p \in Proposals :
    hasVoted[p] # {} =>
      /\ TotalVotes(p) =
           SumOver([v \in Accounts |-> Token!GetPastVotes(v, Snapshot(p))], hasVoted[p])
      /\ TotalVotes(p) <= Token!GetPastTotalSupply(Snapshot(p))

VoteOver(p) == Known(p) /\ Deadline(p) < block
Passed(p) == VoteOver(p) /\ QuorumReached(p) /\ VoteSucceeded(p)

(* Once its vote is over a proposal has passed or failed for good: neither new  *)
(* tokens nor a new quorum fraction nor a late vote changes the outcome.         *)
OutcomeIsFinal ==
  [][\A p \in Proposals : VoteOver(p) => Passed(p)' = Passed(p)]_vars

--------------------------------------------------------------------------------
(* Enacting *)

(* The timelock only ever holds proposals that passed their vote, in a          *)
(* deployment that keeps the governor its only proposer (queue).                 *)
OnlyPassedIsTimelocked == \A p \in Proposals : TL!IsOperation(p) => Passed(p)

(* Governor and timelock never disagree on what became of a proposal: what one  *)
(* has executed or queued the other shows as such, through either contract's     *)
(* execution, and what is cancelled is not pending in the timelock.              *)
TimelockAgrees ==
  \A p \in Proposals :
    /\ TL!IsOperationDone(p) <=> ProposalState(p) = "Executed"
    /\ TL!IsOperationPending(p) <=> ProposalState(p) = "Queued"

EnactedNow(p) == /\ Passed(p)
                 /\ ~proposals[p].executed /\ proposals'[p].executed

(* No step strands a proposal: what has passed can be queued, and what is queued *)
(* and ready can be executed as soon as its call succeeds, however often that    *)
(* failed before (a reverted execution leaves the operation queued).             *)
NothingIsStranded ==
  \A p \in Proposals :
    /\ ProposalState(p) = "Succeeded" => ENABLED Queue(p)
    /\ /\ ProposalState(p) = "Queued" /\ TL!IsOperationReady(p)
       /\ ENABLED PerformCall(Payload[p], TRUE)
       => ENABLED Execute(p)

(* The deployment once it is handed over: the governor alone administers its    *)
(* roles and proposes in the timelock, the timelock administers itself, only the *)
(* timelock may set the second voting period and the fraction, and what it still *)
(* holds has passed its vote.                                                    *)
HandedOver ==
  /\ governorRoles["DEFAULT_ADMIN"] \subseteq {Governor}
  /\ governorRoles["GOVERNOR"] \subseteq {Timelock}
  /\ timelockRoles["PROPOSER"] \subseteq {Governor}
  /\ timelockRoles["TIMELOCK_ADMIN"] \subseteq {Timelock}
  /\ \A p \in Proposals : TL!IsOperationPending(p) => Passed(p)

CarriedOutNow(p) == /\ Passed(p)
                    /\ TL!IsOperationPending(p) /\ TL!IsOperationDone(p)'

(* Nobody changes the rules behind the voters' backs.  Whoever proposes in the  *)
(* timelock, GovernorSettings change only in the execution of a passed proposal  *)
(* through the governor itself (onlyGovernance and the queue of announced calls, *)
(* Governor.sol:49-71; GovernorTimelockControl.sol:19-21 says otherwise).  Once  *)
(* the deployment is handed over, both voting periods and the quorum fraction    *)
(* change, and the hand-over ends, only by carrying out a passed proposal, past  *)
(* the governor perhaps: no sequence of role changes, queueing and cancelling    *)
(* gives anyone else the power again.                                            *)
RulesChangeByProposal ==
  [][/\ (\E s \in {"votingDelay", "votingPeriod", "proposalThreshold"} :
            settings'[s] # settings[s])
          => \E p \in Proposals : EnactedNow(p)
     /\ HandedOver => \/ UNCHANGED rules /\ HandedOver'
                      \/ \E p \in Proposals : CarriedOutNow(p)]_vars

(* When no account but the governor administers its roles, no role is given     *)
(* again except by the execution of a passed proposal through the governor:      *)
(* another proposer has relay() called in vain, against what                     *)
(* GovernorTimelockControl.sol:19-21 warns of (Governor.sol:57-71).              *)
RolesGivenByProposal ==
  [][governorRoles["DEFAULT_ADMIN"] \subseteq {Governor} =>
       \/ \A r \in GovernorRoles : governorRoles'[r] \subseteq governorRoles[r]
       \/ \E p \in Proposals : EnactedNow(p)]_vars

(* The life of every proposal follows the abstract life cycle. *)
Lifecycle == INSTANCE ProposalLifecycle WITH
  Votes <- Tallies,
  status <- [p \in Proposals |-> ProposalState(p)],
  votes <- proposalVotes

LifecycleSpec == Lifecycle!Spec

--------------------------------------------------------------------------------
(* Rewards *)

(* One call of rewardParticipants hands out the pool in proportion to the votes *)
(* cast: never more than the pool, and less by at most a unit for each voter.    *)
RewardsShareThePool ==
  [][\A p \in Proposals :
       (\E s \in Accounts : RewardParticipants(s, p)) =>
         /\ totalSupply' - totalSupply <= RewardPool
         /\ totalSupply' - totalSupply > RewardPool - Cardinality(hasVoted[p])]_vars

--------------------------------------------------------------------------------
(* Liveness.  Blocks are mined, and somebody queues and executes what may be:   *)
(* both functions are open to anyone.                                            *)
Keepers == /\ WF_vars(Mine)
           /\ \A p \in Proposals : WF_vars(Queue(p)) /\ WF_vars(Execute(p))

FairSpec == Spec /\ Keepers

(* A proposal that is made is voted on and then defeated, cancelled or carried   *)
(* out: no status is a dead end.                                                 *)
EveryProposalEnds ==
  \A p \in Proposals :
    Known(p) ~> ProposalState(p) \in {"Defeated", "Canceled", "Executed"}

================================================================================
