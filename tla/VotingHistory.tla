----------------------------- MODULE VotingHistory -----------------------------
(* What a governor relies on in its voting token: votes and supply change       *)
(* freely during a block, the values at the end of a block are recorded when it *)
(* is mined, and what is recorded never changes again.                          *)
EXTENDS Integers

CONSTANT Snapshots   \* the values of [votes |-> ..., supply |-> ...] there can be

VARIABLES block,     \* the block under construction
          current,   \* votes of every account and total supply now
          ended      \* the same at the end of every mined block

historyVars == <<block, current, ended>>

Init == /\ block = 1
        /\ current \in Snapshots
        /\ ended \in [{0} -> Snapshots]

Move == /\ current' \in Snapshots
        /\ UNCHANGED <<block, ended>>

Mine == /\ block' = block + 1
        /\ ended' = [b \in 0..block |-> IF b = block THEN current ELSE ended[b]]
        /\ UNCHANGED current

Next == Move \/ Mine

Spec == Init /\ [][Next]_historyVars
================================================================================
