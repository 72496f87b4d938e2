--------------------------- MODULE DocumentedClaims ----------------------------
(* What comments and error messages say of the DAO and its code does not keep. *)
(* Each definition states one such claim; a run finds it violated.               *)
EXTENDS GovernorProperties

(* quorumNumerator() "Returns the current quorum numerator"                     *)
(* (GovernorVotesQuorumFraction.sol:36): the one that quorums are computed with. *)
(* FarmGovernor's override returns a copy that no update reaches.                *)
ShownQuorumNumerator == settings.quorumNumerator
QuorumNumeratorIsCurrent == ShownQuorumNumerator = Latest(quorumHistory)

(* "Participant did not vote" (FarmGovernor.sol, rewardParticipant): only those *)
(* who voted are rewarded.  What is checked is that the participant had votes.   *)
OnlyVotersAreRewarded ==
  [][\A p \in Proposals, a \in Users, n \in Amounts :
       (\E s \in Senders : RewardParticipant(s, p, a, n)) => a \in hasVoted[p]]_vars
================================================================================
