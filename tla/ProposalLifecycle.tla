--------------------------- MODULE ProposalLifecycle ---------------------------
(* The life of a proposal as its voters are promised it: it is voted on once,   *)
(* for a while, and only what passed the vote is queued and carried out.        *)
(* Votes are cast only while it is active and never taken back, the outcome of  *)
(* the vote is that of the votes cast, and Canceled and Executed are final.     *)
EXTENDS Integers

CONSTANTS Proposals,
          Votes         \* tallies: [against, for, abstain]

VARIABLES status, votes

lifecycleVars == <<status, votes>>

Statuses == {"Unknown", "Pending", "Active", "Succeeded", "Defeated", "Queued",
             "Executed", "Canceled"}

(* Canceling is possible from every status but the final ones; a proposal whose *)
(* vote lasts no block is Defeated without having been Active.                   *)
Follows ==
  [s \in Statuses |->
     CASE s = "Unknown"   -> {"Pending"}
       [] s = "Pending"   -> {"Active", "Defeated", "Canceled"}
       [] s = "Active"    -> {"Succeeded", "Defeated", "Canceled"}
       [] s = "Succeeded" -> {"Queued", "Canceled"}
       [] s = "Defeated"  -> {"Canceled"}
       [] s = "Queued"    -> {"Executed", "Canceled"}
       [] OTHER           -> {}]

NoVotes == [against |-> 0, for |-> 0, abstain |-> 0]

Init == /\ status = [p \in Proposals |-> "Unknown"]
        /\ votes = [p \in Proposals |-> NoVotes]

Counted(p) == /\ status[p] = "Active" /\ status'[p] = "Active"
              /\ \A k \in {"against", "for", "abstain"} : votes'[p][k] >= votes[p][k]

Outcome(p) == status'[p] = "Succeeded" /\ status[p] # "Succeeded"
                => votes[p].for > votes[p].against

Next == /\ status' \in [Proposals -> Statuses]
        /\ \A p \in Proposals : /\ status'[p] \in {status[p]} \cup Follows[status[p]]
                                /\ votes'[p] # votes[p] => Counted(p)
                                /\ Outcome(p)

Spec == Init /\ [][Next]_lifecycleVars
================================================================================
