-------------------------- MODULE ScheduledExecution ---------------------------
(* What a timelock promises of the operations it is given: each takes effect at *)
(* most once and as a whole, not before the time promised when it was           *)
(* scheduled, and after its predecessor.  One transaction may carry out several *)
(* operations, because calls of one may execute another.                        *)
EXTENDS Integers

CONSTANTS Operations, NoOperation, Predecessor,
          Size                    \* number of calls of each operation

VARIABLES now,
          done,                   \* operations that took effect
          performed,              \* calls of each operation that took effect
          notBefore               \* the time promised at scheduling

promiseVars == <<now, done, performed, notBefore>>

Init == /\ now \in Nat
        /\ done = {}
        /\ performed = [op \in Operations |-> 0]
        /\ notBefore = [op \in Operations |-> 0]

Transaction ==
  \E S \in SUBSET (Operations \ done) :
    /\ done' = done \cup S
    /\ performed' = [op \in Operations |->
                       performed[op] + IF op \in S THEN Size[op] ELSE 0]
    /\ \A op \in S : /\ notBefore'[op] <= now
                     /\ Predecessor[op] \in done' \cup {NoOperation}
    /\ \A op \in done : notBefore'[op] = notBefore[op]
    /\ \A op \in Operations : notBefore'[op] \in {notBefore[op]} \cup {n \in Nat : n >= now}
    /\ UNCHANGED now

Tick == now' > now /\ UNCHANGED <<done, performed, notBefore>>

Next == Transaction \/ Tick

Spec == Init /\ [][Next]_promiseVars
================================================================================
