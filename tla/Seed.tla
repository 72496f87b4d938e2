--------------------------------- MODULE Seed ----------------------------------
(* The Seed contract, the target of the DAO's proposals: one stored value,      *)
(* written by STORE_ROLE while it is not paused.                                 *)
EXTENDS AccessControl

VARIABLES seedValue, seedPaused, seedRoles

seedVars == <<seedValue, seedPaused, seedRoles>>

SeedRoles == {"DEFAULT_ADMIN", "STORE", "PAUSER"}

Store(sender, newValue) ==
  /\ HasRole(seedRoles, "STORE", sender)
  /\ ~seedPaused
  /\ seedValue' = newValue
  /\ UNCHANGED <<seedPaused, seedRoles>>

PauseSeed(sender) ==
  /\ HasRole(seedRoles, "PAUSER", sender)
  /\ ~seedPaused /\ seedPaused' = TRUE
  /\ UNCHANGED <<seedValue, seedRoles>>

UnpauseSeed(sender) ==
  /\ HasRole(seedRoles, "PAUSER", sender)
  /\ seedPaused /\ seedPaused' = FALSE
  /\ UNCHANGED <<seedValue, seedRoles>>

GrantSeedRole(sender, role, account) ==
  /\ HasRole(seedRoles, "DEFAULT_ADMIN", sender)
  /\ seedRoles' = Granted(seedRoles, role, account)
  /\ UNCHANGED <<seedValue, seedPaused>>

RevokeSeedRole(sender, role, account) ==
  /\ HasRole(seedRoles, "DEFAULT_ADMIN", sender)
  /\ seedRoles' = Revoked(seedRoles, role, account)
  /\ UNCHANGED <<seedValue, seedPaused>>

RenounceSeedRole(sender, role) ==
  /\ seedRoles' = Revoked(seedRoles, role, sender)
  /\ UNCHANGED <<seedValue, seedPaused>>
================================================================================
