-------------------------- MODULE MCGovernorExecution --------------------------
(* Two proposals and an operation of another proposer, the called contract.     *)
(* The first proposal calls the contract and then a function of the governor     *)
(* that needs no announcement; the second calls the contract, or the timelock,   *)
(* through relay(), changes a setting and replaces the timelock; the third has   *)
(* the timelock call itself and the contract, and then tries the same setting.   *)
EXTENDS GovernorExecution
CONSTANTS first, second, other, contract, deployer
MCPredecessor == [op \in {first, second, other} |-> NoOperation]
MCCalls == [op \in {first, second, other} |->
              CASE op = first  -> <<"other", "plain">>
                [] op = second -> <<"plain", "relay", "set", "updateTimelock">>
                [] OTHER       -> <<"updateDelay", "changeRole", "other", "set">>]
MCCallKinds == GovernorKinds \cup {"other", "updateDelay", "changeRole"}
MCCallees == [kind \in MCCallKinds |->
                IF kind = "relay" THEN {contract, Governor} ELSE {contract}]
MCRoleChanges == {<<"CANCELLER", Governor>>}
================================================================================
