--------------------------- MODULE CheckpointSearch ----------------------------
(* Checkpoint lists and their searches as the code does them: the token's, with *)
(* its first probe at length - sqrt(length), the quorum numerator's, and those  *)
(* of the Checkpoints library.  A list is either a History, which is written at  *)
(* the current block while blocks are mined, or a Trace, whose keys the caller   *)
(* chooses; every list a search meets is one the contracts can hold.             *)
EXTENDS Checkpoints, SafeCast

CONSTANTS MaxBlock,   \* bound on the block number
          KeySize,    \* how many keys there are: 2^32 block numbers in a History
          ValueSize,  \* how many values there are: 2^224 or 2^160
          Values,     \* values that are pushed, or added and subtracted
          TraceKeys   \* keys that are pushed onto a Trace

ASSUME SearchAssumption ==
  /\ MaxBlock \in Nat /\ Values \subseteq Nat
  /\ KeySize \in Nat \ {0} /\ ValueSize \in Nat \ {0}
  /\ TraceKeys \subseteq UintOf(KeySize)

VARIABLES kind,       \* which of the two lists this is
          ckpts,      \* _checkpoints
          block,      \* block.number
          returned,   \* previous and new value, as the last push returned them
          recorded    \* of a History: its value at the end of each mined block
searchVars == <<kind, ckpts, block, returned, recorded>>

ToUint32(n) == ToUintDownCast(n, KeySize)
ToUint224(n) == ToUintDownCast(n, ValueSize)

(* Math.sqrt: from the power of two nearest below the root, seven steps of      *)
(* Newton's iteration, which may end one too high.                               *)
Log2(n) == CHOOSE k \in 0..n : 2^k <= n /\ n < 2^(k + 1)
FirstGuess(n) == 2^(Log2(n) \div 2)

Improve(n, guess) == (guess + n \div guess) \div 2
ImproveTwice(n, guess) == Improve(n, Improve(n, guess))

Newton(n) ==
  Improve(n, ImproveTwice(n, ImproveTwice(n, ImproveTwice(n, FirstGuess(n)))))

(* Mutant: the last correction is left out. *)
SqrtUncorrected(n) == IF n = 0 THEN 0 ELSE Newton(n)

Sqrt(n) ==
  LET root == Newton(n)
  IN IF n = 0 THEN 0 ELSE IF root <= n \div root THEN root ELSE n \div root

--------------------------------------------------------------------------------

(* The array of the code is indexed from 0. *)
FromBlock(c, i) == c[i + 1].fromBlock

(* The loop: of [low, high], the index of the first checkpoint after block b.   *)
UpperBinaryLookup(c, b, from, to) ==
  LET search[range \in (0..Len(c)) \X (0..Len(c))] ==
        LET low == range[1]
            high == range[2]
            mid == (low + high) \div 2
        IN IF low >= high THEN high
           ELSE IF FromBlock(c, mid) > b THEN search[<<low, mid>>]
           ELSE search[<<mid + 1, high>>]
  IN search[<<from, to>>]

(* Its counterpart: the index of the first checkpoint at key b or after it. *)
LowerBinaryLookup(c, b, from, to) ==
  LET search[range \in (0..Len(c)) \X (0..Len(c))] ==
        LET low == range[1]
            high == range[2]
            mid == (low + high) \div 2
        IN IF low >= high THEN high
           ELSE IF FromBlock(c, mid) < b THEN search[<<mid + 1, high>>]
           ELSE search[<<low, mid>>]
  IN search[<<from, to>>]

ValueBefore(c, i) == IF i = 0 THEN 0 ELSE c[i].votes

(* Mutant: the first probe takes a checkpoint of block b itself for a later one.*)
CheckpointsLookupProbeAtLeast(c, b) ==
  LET recent == Len(c) - Sqrt(Len(c))
  IN ValueBefore(c, IF Len(c) <= 5 THEN UpperBinaryLookup(c, b, 0, Len(c))
                    ELSE IF FromBlock(c, recent) >= b
                    THEN UpperBinaryLookup(c, b, 0, recent)
                    ELSE UpperBinaryLookup(c, b, recent + 1, Len(c)))

(* Of the token: a history longer than five is first split at the checkpoint    *)
(* sqrt(length) before its end.                                                  *)
CheckpointsLookup(c, b) ==
  LET recent == Len(c) - Sqrt(Len(c))
  IN ValueBefore(c, IF Len(c) <= 5 THEN UpperBinaryLookup(c, b, 0, Len(c))
                    ELSE IF FromBlock(c, recent) > b
                    THEN UpperBinaryLookup(c, b, 0, recent)
                    ELSE UpperBinaryLookup(c, b, recent + 1, Len(c)))

GetAtBlock(c, b) == ValueBefore(c, UpperBinaryLookup(c, b, 0, Len(c)))

(* The library's copy of the token's search. *)
GetAtProbablyRecentBlock(c, b) == CheckpointsLookup(c, b)

(* The library's searches by block revert unless the block is mined and, as a   *)
(* number, fits a key.                                                           *)
MayGetAtBlock(b) == b < block /\ ~ToUint32(b).reverts

(* Mutant: the latest checkpoint is taken when it is not before b. *)
OptimisticLookupReversed(c, b) ==
  IF c # <<>> /\ c[Len(c)].fromBlock >= b THEN Latest(c) ELSE GetAtBlock(c, b)

(* Of the quorum numerator: the latest checkpoint is tried before the search.   *)
OptimisticLookup(c, b) ==
  IF c # <<>> /\ c[Len(c)].fromBlock <= b THEN Latest(c) ELSE GetAtBlock(c, b)

(* Searches of a Trace by key. *)
UpperLookup(c, key) == ValueBefore(c, UpperBinaryLookup(c, key, 0, Len(c)))

(* Mutant: the checkpoint before the one that was found, as in upperLookup. *)
LowerLookupBefore(c, key) == ValueBefore(c, LowerBinaryLookup(c, key, 0, Len(c)))

LowerLookup(c, key) ==
  LET pos == LowerBinaryLookup(c, key, 0, Len(c))
  IN IF pos = Len(c) THEN 0 ELSE c[pos + 1].votes

LatestCheckpoint(c) ==
  IF c = <<>> THEN [exists |-> FALSE, fromBlock |-> 0, votes |-> 0]
  ELSE [exists |-> TRUE, fromBlock |-> c[Len(c)].fromBlock, votes |-> c[Len(c)].votes]

--------------------------------------------------------------------------------
(* Writes *)

(* Mutant: the last checkpoint is read after it was overwritten. *)
InsertAliased(key, value) ==
  /\ ckpts # <<>> => ckpts[Len(ckpts)].fromBlock <= key
  /\ ckpts' = WriteCheckpoint(ckpts, key, value)
  /\ returned' = [previous |-> IF Len(ckpts') = Len(ckpts) THEN value ELSE Latest(ckpts),
                   current  |-> value]

(* Keys never decrease; the value of the last key is overwritten. *)
Insert(key, value) ==
  /\ ckpts # <<>> => ckpts[Len(ckpts)].fromBlock <= key
  /\ ckpts' = WriteCheckpoint(ckpts, key, value)
  /\ returned' = [previous |-> Latest(ckpts), current |-> value]

(* Mutant: block and value are cut to size without a check. *)
PushValueTruncated(value) ==
  Insert(ToUint32(block).value, ToUint224(value).value)

(* push(self, value) of a History. *)
PushValue(value) ==
  /\ ~ToUint32(block).reverts /\ ~ToUint224(value).reverts
  /\ Insert(ToUint32(block).value, ToUint224(value).value)

(* The caller's checked arithmetic: nothing below zero. *)
Applied(op, value, delta) == IF op = "add" THEN value + delta ELSE value - delta

(* push(self, op, delta) of a History, with the addition or subtraction of its  *)
(* users for op.                                                                 *)
PushDelta(op, delta) ==
  /\ Applied(op, Latest(ckpts), delta) >= 0
  /\ PushValue(Applied(op, Latest(ckpts), delta))

(* A transaction sent to a contract with a History. *)
Record ==
  /\ kind = "History"
  /\ \E value \in Values :
       PushValue(value) \/ \E op \in {"add", "subtract"} : PushDelta(op, value)
  /\ UNCHANGED <<kind, block, recorded>>

(* A transaction sent to a contract with a Trace: key and value have its types. *)
PushAt ==
  /\ kind = "Trace"
  /\ \E key \in TraceKeys, value \in Values \cap UintOf(ValueSize) : Insert(key, value)
  /\ UNCHANGED <<kind, block, recorded>>

(* The block ends, and with it what a History has for it. *)
Mine ==
  /\ kind = "History" /\ block < MaxBlock
  /\ block' = block + 1
  /\ recorded' = Append(recorded, Latest(ckpts))
  /\ UNCHANGED <<kind, ckpts, returned>>

Init ==
  /\ kind \in {"History", "Trace"}
  /\ ckpts = <<>> /\ block = 1
  /\ returned = [previous |-> 0, current |-> 0]
  /\ recorded = <<0>>

Next == Mine \/ Record \/ PushAt

Spec == Init /\ [][Next]_searchVars

--------------------------------------------------------------------------------
(* Properties *)

(* The token's search finds the value in force at the end of every past block:  *)
(* the one of the last checkpoint not after it (ERC20Votes._checkpointsLookup).  *)
SearchIsLookup ==
  \A b \in 0..(block - 1) : CheckpointsLookup(ckpts, b) = Lookup(ckpts, b)

(* The shortcut of quorumNumerator(blockNumber) gives the same answer as the   *)
(* full search, although it runs on a history that ends before now.             *)
ShortcutIsLookup ==
  \A b \in 0..(block - 1) : OptimisticLookup(ckpts, b) = Lookup(ckpts, b)

(* The root that the first probe is computed from is the floor of the square    *)
(* root (Math.sqrt), so that the probe is an index of the array: checked for     *)
(* every number whose root is the length of the list.                            *)
SqrtIsFloor ==
  LET r == Len(ckpts) IN \A n \in (r * r)..(r * r + 2 * r) : Sqrt(n) = r

(* Once a block is mined, both searches of a History answer for it for ever     *)
(* with the value it ended with, whatever is written later, up to the last block *)
(* whose number fits a key (getAtBlock, getAtProbablyRecentBlock, push).         *)
RecordedForEver ==
  kind = "History" =>
    \A b \in 0..MaxBlock :
      /\ MayGetAtBlock(b) <=> b < block /\ b \in UintOf(KeySize)
      /\ MayGetAtBlock(b) => /\ GetAtBlock(ckpts, b) = recorded[b + 1]
                             /\ GetAtProbablyRecentBlock(ckpts, b) = recorded[b + 1]

(* upperLookup finds the last checkpoint at a key or before it, lowerLookup the *)
(* first at it or after it, whatever keys were pushed; the last key of all finds *)
(* the latest checkpoint.                                                        *)
TraceSearch ==
  LET last == LatestCheckpoint(ckpts)
  IN /\ \A key \in UintOf(KeySize) :
          LET after == {i \in 1..Len(ckpts) : ckpts[i].fromBlock >= key}
          IN /\ UpperLookup(ckpts, key) = Lookup(ckpts, key)
             /\ LowerLookup(ckpts, key) = IF after = {} THEN 0
                                          ELSE ckpts[CHOOSE i \in after :
                                                       \A j \in after : i <= j].votes
     /\ UpperLookup(ckpts, KeySize - 1) = Latest(ckpts) /\ last.votes = Latest(ckpts)
     /\ last.exists => LowerLookup(ckpts, last.fromBlock) = last.votes

(* Casts lose nothing: they return what they are given or revert, and           *)
(* conversion to a signed type and back is the identity (SafeCast).  Checked for *)
(* the types with twice as many values as there are blocks.                      *)
CastsAreExact ==
  LET size == 2 * block
  IN \A n \in 0..(2 * size) :
       /\ Exact(ToUintDownCast(n, size), n, UintOf(size))
       /\ \A v \in {n, -n} : Exact(ToIntDownCast(v, size), v, IntOf(size))
       /\ n \in UintOf(size) =>
            /\ Exact(ToInt(n, size), n, IntOf(size))
            /\ n \in IntOf(size) => Exact(ToUint(ToInt(n, size).value, size), n, UintOf(size))
       /\ -n \in IntOf(size) => Exact(ToUint(-n, size), -n, UintOf(size))

(* A push returns the value before it and the value after it, also when both    *)
(* belong to the same checkpoint (_insert: "Copying to memory is important").    *)
PushReturnsBoth ==
  [][<<ckpts, returned>>' # <<ckpts, returned>>
       => returned' = [previous |-> Latest(ckpts), current |-> Latest(ckpts')]]_searchVars
================================================================================
