------------------------------ MODULE MCPeachToken -----------------------------
(* Two holders, one of them the deployer with every role, and a supply cap of   *)
(* a few units.  Batches name an account twice and reach the cap.                *)
EXTENDS PeachToken
CONSTANTS alice, bob
MCBatches == {<<[to |-> alice, amount |-> 1], [to |-> bob, amount |-> 1]>>,
              <<[to |-> bob, amount |-> 1], [to |-> bob, amount |-> 2]>>,
              <<[to |-> alice, amount |-> 0]>>}
NoRoleChanges == {}
================================================================================
