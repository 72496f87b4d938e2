---------------------------- MODULE MCEnumerableMap ----------------------------
(* Words of two values in each part: four words, two addresses.  The            *)
(* collections are those of the generated mocks.                                 *)
EXTENDS EnumerableMap
Map(key, value) == [library |-> "map", key |-> key, value |-> value]
SetOf(type) == [library |-> "set", key |-> type, value |-> "bytes32"]
MCMocks ==
  {Map("uint256", "address"), Map("address", "uint256"), Map("bytes32", "bytes32"),
   Map("uint256", "uint256"), Map("bytes32", "uint256"),
   SetOf("bytes32"), SetOf("address"), SetOf("uint256")}
================================================================================
