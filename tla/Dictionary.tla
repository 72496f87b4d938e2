------------------------------ MODULE Dictionary -------------------------------
(* What an enumerable collection promises: a partial function from keys to      *)
(* values, and some enumeration of its keys that a removal may reorder.  A set   *)
(* is a dictionary whose values do not matter.                                   *)
EXTENDS Integers, Sequences

CONSTANTS Keys, Values

VARIABLES dict, order,
          result       \* whether the last operation added or removed a key

dictionaryVars == <<dict, order, result>>

Enumerates(s, S) ==
  /\ S = {s[i] : i \in 1..Len(s)}
  /\ \A i, j \in 1..Len(s) : s[i] = s[j] => i = j

Init == /\ DOMAIN dict = {}
        /\ order = <<>>
        /\ result = FALSE

Put(key, value) ==
  /\ result' = (key \notin DOMAIN dict)
  /\ dict' = [k \in DOMAIN dict \cup {key} |-> IF k = key THEN value ELSE dict[k]]
  /\ order' = IF key \in DOMAIN dict THEN order ELSE Append(order, key)

Delete(key) ==
  /\ result' = (key \in DOMAIN dict)
  /\ dict' = [k \in DOMAIN dict \ {key} |-> dict[k]]
  /\ Enumerates(order', DOMAIN dict \ {key})

Next == \E key \in Keys : Delete(key) \/ \E value \in Values : Put(key, value)

Spec == Init /\ [][Next]_dictionaryVars
================================================================================
