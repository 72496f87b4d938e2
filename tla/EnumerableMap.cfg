CONSTANTS
  Nil = 0
  High = {0, 1}
  Low = {0, 1}
  Mocks <- MCMocks
SPECIFICATION Spec
INVARIANTS IndexesInvertValues ViewsAgree
PROPERTIES DictionarySpec OnlyTheLastMoves
