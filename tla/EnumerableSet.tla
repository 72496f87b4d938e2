----------------------------- MODULE EnumerableSet -----------------------------
(* The set under every enumerable collection: the array of its values, and for  *)
(* each value its place in the array counted from 1, or 0 when it is not in the  *)
(* set.  The array of the code is indexed from 0, a sequence from 1.             *)
EXTENDS Integers, Sequences

EmptySet(words) == [values |-> <<>>, indexes |-> [w \in words |-> 0]]

Contains(set, value) == set.indexes[value] # 0
Length(set) == Len(set.values)
At(set, index) == set.values[index + 1]       \* callers: index < Length(set)

Added(set, value) ==
  IF Contains(set, value) THEN set
  ELSE [values  |-> Append(set.values, value),
        indexes |-> [set.indexes EXCEPT ![value] = Len(set.values) + 1]]

Without(s, i, moved) == SubSeq([s EXCEPT ![i] = moved], 1, Len(s) - 1)

(* Mutant: the value that moves keeps its old index. *)
RemovedStaleIndex(set, value) ==
  LET index == set.indexes[value]
      moved == set.values[Len(set.values)]
  IN IF ~Contains(set, value) THEN set
     ELSE [values  |-> Without(set.values, index, moved),
           indexes |-> [set.indexes EXCEPT ![value] = 0]]

(* Mutant: the values after the gap move up, as in a list. *)
RemovedShifting(set, value) ==
  LET index == set.indexes[value]
      rest == SubSeq(set.values, 1, index - 1)
                \o SubSeq(set.values, index + 1, Len(set.values))
  IN IF ~Contains(set, value) THEN set
     ELSE [values  |-> rest,
           indexes |-> [w \in DOMAIN set.indexes |->
                          IF w = value THEN 0
                          ELSE set.indexes[w] - IF set.indexes[w] > index THEN 1 ELSE 0]]

(* "Swap and pop": the last value takes the place of the removed one.  When it  *)
(* is the removed one itself, the index written for it is deleted again.         *)
Removed(set, value) ==
  LET index == set.indexes[value]
      moved == set.values[Len(set.values)]
  IN IF ~Contains(set, value) THEN set
     ELSE [values  |-> Without(set.values, index, moved),
           indexes |-> [set.indexes EXCEPT ![moved] = index, ![value] = 0]]
================================================================================
