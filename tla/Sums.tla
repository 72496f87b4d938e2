--------------------------------- MODULE Sums ----------------------------------
(* Sums of amounts: balances over accounts, votes over delegates, the amounts   *)
(* of a batch over its entries.                                                  *)
EXTENDS Integers, FiniteSets, Functions

SumOver(f, S) == FoldFunctionOnSet(LAMBDA x, y : x + y, 0, f, S)

================================================================================
