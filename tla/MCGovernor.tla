------------------------------ MODULE MCGovernor -------------------------------
(* Small instances of the DAO.  Amounts are scaled down: one unit stands for    *)
(* 100e18 tokens, a voting period lasts one block, and the quorum fraction is   *)
(* chosen so that one voter does not always reach it.                            *)
EXTENDS DocumentedClaims
CONSTANTS ann, ben, cat, deployer, governor, timelock, seed, storeIt, ruleIt, otherIt

MCAccounts == {ann, ben, cat, deployer, governor, timelock}
MCBalance == [a \in MCAccounts |-> IF a = ann THEN 2 ELSE IF a = ben THEN 1 ELSE 0]
OneEach == [a \in MCAccounts |-> IF a \in {ann, ben} THEN 1 ELSE 0]
MCSettings == [votingDelay |-> 1, votingPeriod |-> 1, proposalThreshold |-> 0,
               quorumFraction |-> 50]
AtOnce == [MCSettings EXCEPT !.votingDelay = 0]

Call(kind, target, arg) == [kind |-> kind, target |-> target, arg |-> arg]

StorePayload == [p \in {storeIt} |-> Call("store", seed, 7)]
StoreAndQuorum == [p \in {storeIt, ruleIt} |->
  IF p = storeIt THEN Call("store", seed, 7) ELSE Call("quorumNumerator", governor, 100)]
GrantAndPeriods == [p \in {storeIt, ruleIt, otherIt} |->
  CASE p = storeIt -> Call("relayGrant", "GOVERNOR", timelock)
    [] p = ruleIt  -> Call("updateVotingPeriod", governor, 2)
    [] OTHER       -> Call("votingPeriod", governor, 3)]
PauseAndDelay == [p \in {storeIt, ruleIt} |->
  IF p = storeIt THEN Call("relayPause", seed, 0) ELSE Call("updateDelay", timelock, 2)]

(* Cat's vote is a signature nobody made.  Ann has signed a vote against, which *)
(* anyone may send before or after she votes for the proposal herself.           *)
MCSignedVotes == {[voter |-> v, proposal |-> storeIt, support |-> "against"] : v \in {ann, cat}}

DeployerProposes == {<<"PROPOSER", deployer>>, <<"TIMELOCK_ADMIN", deployer>>}
Handover == {<<"DEFAULT_ADMIN", deployer>>, <<"GOVERNOR", deployer>>}
BenPauses == {<<"PAUSER", ben>>}
None == {}
================================================================================
