--------------------------------- MODULE Words ---------------------------------
(* What the enumerable collections store: words of 32 bytes.  A word is taken   *)
(* apart into the 20 bytes that an address fills and the 12 above them.          *)
CONSTANTS High,    \* values of the upper 12 bytes
          Low,     \* values of the lower 20 bytes
          Nil      \* all bytes zero, in either part

ASSUME WordsAssumption == Nil \in High /\ Nil \in Low

Word == [high : High, low : Low]
ZeroWord == [high |-> Nil, low |-> Nil]

Address == [low : Low]

Types == {"bytes32", "uint256", "address"}

(* An address is its 20 bytes, a uint256 or bytes32 is the word. *)
Typed(type) == IF type = "address" THEN Address ELSE Word

ToBytes32(type, value) ==
  IF type = "address" THEN [high |-> Nil, low |-> value.low] ELSE value

(* Mutant: an address is taken from the upper bytes. *)
FromBytes32Upper(type, word) == IF type = "address" THEN [low |-> word.high] ELSE word

FromBytes32(type, word) == IF type = "address" THEN [low |-> word.low] ELSE word
================================================================================
