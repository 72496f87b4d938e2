----------------------------- MODULE AccessControl -----------------------------
(* Role tables of AccessControl.sol: a function from roles to the accounts      *)
(* that hold them.  The contract that owns the table says which role            *)
(* administers which.                                                            *)

HasRole(roles, role, account) == account \in roles[role]

Granted(roles, role, account) == [roles EXCEPT ![role] = @ \cup {account}]

Revoked(roles, role, account) == [roles EXCEPT ![role] = @ \ {account}]

================================================================================
