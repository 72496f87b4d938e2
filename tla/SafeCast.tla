------------------------------- MODULE SafeCast --------------------------------
(* Conversions between integer types that revert instead of losing bits.  A     *)
(* type is given by how many values it has, its size: 2^w for w bits.  A cast is *)
(* what it returns and whether it reverts.                                       *)
EXTENDS Integers

UintOf(size) == 0..(size - 1)
IntOf(size) == (-(size \div 2))..(size \div 2 - 1)

(* What Solidity's own conversion does: the low bits, as unsigned or signed. *)
LowBits(value, size) == value % size
LowBitsSigned(value, size) ==
  LET low == LowBits(value, size) IN IF low < size \div 2 THEN low ELSE low - size

Cast(returned, fits) == [value |-> returned, reverts |-> ~fits]

(* Mutant: the first value that does not fit is let through. *)
ToUintDownCastOffByOne(value, size) == Cast(LowBits(value, size), value <= size)

(* toUint8 .. toUint248, of an unsigned value. *)
ToUintDownCast(value, size) == Cast(LowBits(value, size), value <= size - 1)

(* toInt8 .. toInt248, of a signed value: converted first, compared afterwards. *)
ToIntDownCast(value, size) ==
  LET downcasted == LowBitsSigned(value, size) IN Cast(downcasted, downcasted = value)

(* toInt256, of an unsigned value. *)
ToInt(value, size) == Cast(LowBitsSigned(value, size), value <= size \div 2 - 1)

(* toUint256, of a signed value. *)
ToUint(value, size) == Cast(LowBits(value, size), value >= 0)

(* A cast to a type reverts for the values outside it and returns the others    *)
(* as they are.                                                                  *)
Exact(cast, value, type) ==
  IF value \in type THEN cast = [value |-> value, reverts |-> FALSE] ELSE cast.reverts
================================================================================
