---------------------------- MODULE MCTokenSpending ----------------------------
(* Two holders, one of them the deployer, minter and owner of what is spent; an *)
(* allowance of three units is the unlimited one.  The owner has signed a permit   *)
(* and a delegation with its first nonce, and a later permit with the next one.  *)
EXTENDS TokenSpending
CONSTANTS alice, bob
Signed(kind, nonce, deadline) ==
  [kind |-> kind, signer |-> alice, nonce |-> nonce, to |-> bob, value |-> 1,
   deadline |-> deadline]
MCMessages == {Signed("permit", 0, 2), Signed("delegation", 0, 1), Signed("permit", 1, 1)}
MCRoleChanges == {<<"DEFAULT_ADMIN", bob>>, <<"MINTER", bob>>}
NoBatches == {}
================================================================================
