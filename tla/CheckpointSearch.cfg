CONSTANTS
  MaxBlock = 11
  KeySize = 10
  ValueSize = 2
  Values <- MCValues
  TraceKeys <- MCTraceKeys
SPECIFICATION Spec
CHECK_DEADLOCK FALSE
INVARIANTS SqrtIsFloor SearchIsLookup ShortcutIsLookup RecordedForEver TraceSearch CastsAreExact
PROPERTY PushReturnsBoth
