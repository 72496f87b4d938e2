------------------------------ MODULE Checkpoints ------------------------------
(* Block-indexed histories of a value: the Checkpoint[] arrays of ERC20Votes   *)
(* (votes of each delegate, total supply) and the History of Checkpoints.sol   *)
(* (quorum numerator).  A history is a sequence of checkpoints, oldest first.  *)
EXTENDS Integers, Sequences

Checkpoint(Block, Value) == [fromBlock : Block, votes : Value]

(* The value in force now: that of the last checkpoint, 0 without any. *)
Latest(ckpts) == IF ckpts = <<>> THEN 0 ELSE ckpts[Len(ckpts)].votes

(* Mutant: the last checkpoint is overwritten whatever its block. *)
WriteOverLast(ckpts, block, value) ==
  IF ckpts # <<>>
  THEN [ckpts EXCEPT ![Len(ckpts)] = [fromBlock |-> @.fromBlock, votes |-> value]]
  ELSE Append(ckpts, [fromBlock |-> block, votes |-> value])

(* Mutant: every write pushes, also a second one in the same block. *)
PushAlways(ckpts, block, value) ==
  Append(ckpts, [fromBlock |-> block, votes |-> value])

(* Record value for the current block: the checkpoint of this block, if there  *)
(* is one, is overwritten; otherwise a new one is pushed.                       *)
WriteCheckpoint(ckpts, block, value) ==
  IF ckpts # <<>> /\ ckpts[Len(ckpts)].fromBlock = block
  THEN [ckpts EXCEPT ![Len(ckpts)] = [fromBlock |-> block, votes |-> value]]
  ELSE Append(ckpts, [fromBlock |-> block, votes |-> value])

(* The checkpoints in force at the end of block: the last one not after it.    *)
InForce(ckpts, block) ==
  {i \in 1..Len(ckpts) :
     /\ ckpts[i].fromBlock <= block
     /\ \A j \in 1..Len(ckpts) : j > i => ckpts[j].fromBlock > block}

ValuesAt(ckpts, block) == {ckpts[i].votes : i \in InForce(ckpts, block)}

(* The value at the end of a past block, as a declarative definition.  The     *)
(* code's binary search is CheckpointSearch, checked against this one.          *)
Lookup(ckpts, block) ==
  LET values == ValuesAt(ckpts, block)
  IN IF values = {} THEN 0 ELSE CHOOSE v \in values : TRUE

(* Checkpoints are in strictly increasing block order. *)
Sorted(ckpts) ==
  \A i, j \in 1..Len(ckpts) : i < j => ckpts[i].fromBlock < ckpts[j].fromBlock

================================================================================
