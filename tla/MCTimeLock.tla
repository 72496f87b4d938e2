------------------------------ MODULE MCTimeLock -------------------------------
(* Two operations, the second after the first.  The first calls another         *)
(* contract, which may propose, cancel and execute; the second changes the      *)
(* delay and a role, and then calls the contract.  Executions nest three deep.  *)
EXTENDS TimeLockExecution
CONSTANTS first, second, contract, deployer
MCPredecessor == [op \in {first, second} |-> IF op = second THEN first ELSE NoOperation]
MCCalls == [op \in {first, second} |->
              IF op = first THEN <<"other">> ELSE <<"updateDelay", "changeRole", "other">>]
MCCallKinds == {"other", "updateDelay", "changeRole"}
MCCallees == [kind \in MCCallKinds |-> {contract}]
MCRoleChanges == {<<"CANCELLER", contract>>}
================================================================================
