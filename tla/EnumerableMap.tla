----------------------------- MODULE EnumerableMap -----------------------------
(* The enumerable maps and sets as contracts use them, one collection per       *)
(* behaviour: a map is a set of key words with a mapping of value words beside  *)
(* it, a set its key words alone.  Keys and values are typed; views are          *)
(* operators, and a view that reverts has its requirement as an operator.        *)
EXTENDS EnumerableSet, Words

CONSTANT Mocks        \* collections: [library, key, value], the last two types

ASSUME MocksAssumption ==
  Mocks \subseteq [library : {"map", "set"}, key : Types, value : Types]

VARIABLES mock,       \* which collection this is
          keys,       \* _keys of a map, _inner of a set
          values,     \* _values of a map
          result      \* OperationResult: what the last operation returned

mapVars == <<mock, keys, values, result>>

KeyWord(key) == ToBytes32(mock.key, key)
KeyOf(word) == FromBytes32(mock.key, word)
ValueOf(word) == FromBytes32(mock.value, word)

--------------------------------------------------------------------------------
(* Views, of words and then of typed keys and values *)

HasWord(word) == Contains(keys, word)

WordsAt(index) ==
  LET word == At(keys, index) IN [key |-> word, value |-> values[word]]

(* Mutant: a zero value is taken for a missing key. *)
TryGetNonZero(word) == [success |-> values[word] # ZeroWord, value |-> values[word]]

(* A value that is not zero tells that the key is there without looking. *)
TryGetWord(word) ==
  [success |-> values[word] = ZeroWord => HasWord(word), value |-> values[word]]

(* get() reverts unless MayGetWord. *)
MayGetWord(word) == values[word] # ZeroWord \/ HasWord(word)
GetWord(word) == values[word]

MapContains(key) == HasWord(KeyWord(key))
MapLength == Length(keys)

EntryAt(index) ==
  LET entry == WordsAt(index) IN [key |-> KeyOf(entry.key), value |-> ValueOf(entry.value)]

TryGet(key) ==
  LET answer == TryGetWord(KeyWord(key))
  IN [success |-> answer.success, value |-> ValueOf(answer.value)]

MayGet(key) == MayGetWord(KeyWord(key))
Get(key) == ValueOf(GetWord(KeyWord(key)))

MemberAt(index) == KeyOf(At(keys, index))
Members == [i \in 1..Len(keys.values) |-> KeyOf(keys.values[i])]

--------------------------------------------------------------------------------
(* Operations, on words and then on typed keys and values *)

SetWord(word, value) ==
  /\ values' = [values EXCEPT ![word] = value]
  /\ keys' = Added(keys, word)
  /\ result' = ~HasWord(word)

RemoveWord(word) ==
  /\ values' = [values EXCEPT ![word] = ZeroWord]
  /\ keys' = Removed(keys, word)
  /\ result' = HasWord(word)

Set(key, value) ==
  SetWord(KeyWord(key), ToBytes32(mock.value, value)) /\ UNCHANGED mock

Remove(key) == RemoveWord(KeyWord(key)) /\ UNCHANGED mock

AddMember(member) ==
  /\ keys' = Added(keys, KeyWord(member))
  /\ result' = ~MapContains(member)
  /\ UNCHANGED <<mock, values>>

RemoveMember(member) ==
  /\ keys' = Removed(keys, KeyWord(member))
  /\ result' = MapContains(member)
  /\ UNCHANGED <<mock, values>>

(* Transactions sent to a map and to a set. *)
MapTransaction ==
  /\ mock.library = "map"
  /\ \E key \in Typed(mock.key) :
       Remove(key) \/ \E value \in Typed(mock.value) : Set(key, value)

SetTransaction ==
  /\ mock.library = "set"
  /\ \E member \in Typed(mock.key) : AddMember(member) \/ RemoveMember(member)

Init == /\ mock \in Mocks
        /\ keys = EmptySet(Word)
        /\ values = [w \in Word |-> ZeroWord]
        /\ result = FALSE

Next == MapTransaction \/ SetTransaction

Spec == Init /\ [][Next]_mapVars

--------------------------------------------------------------------------------
(* Properties *)

(* The collection keeps its type, and every index it stores is one of the array.*)
TypeOK ==
  /\ mock \in Mocks
  /\ keys \in [values : Seq(Word), indexes : [Word -> Nat]]
  /\ \A w \in Word : keys.indexes[w] \in 0..Len(keys.values)
  /\ values \in [Word -> Word]
  /\ result \in BOOLEAN

(* Array and index mapping of the set invert each other, after any removals     *)
(* that moved values about (EnumerableSet._remove).                              *)
IndexesInvertValues ==
  /\ \A i \in 1..Len(keys.values) : keys.indexes[keys.values[i]] = i
  /\ \A w \in Word :
       keys.indexes[w] # 0 => /\ keys.indexes[w] \in 1..Len(keys.values)
                              /\ keys.values[keys.indexes[w]] = w

(* A key that is not in the map has no value, which tryGet and get rely on when *)
(* they take a value that is not zero as proof of the key.                       *)
NoValueWithoutKey ==
  \A w \in Word : values[w] # ZeroWord => Contains(keys, w)

(* Every stored key is the word of a key of the collection's type. *)
KeysAreTyped ==
  \A i \in 1..Len(keys.values) : \E k \in Typed(mock.key) : keys.values[i] = KeyWord(k)

Dict == [k \in {KeyOf(keys.values[i]) : i \in 1..Len(keys.values)} |->
           ValueOf(values[KeyWord(k)])]

AbstractMap == INSTANCE Dictionary WITH
  Keys <- UNION {Typed(t) : t \in Types}, Values <- UNION {Typed(t) : t \in Types},
  dict <- Dict, order <- Members

(* Maps and sets of every type are dictionaries: what an operation returns,     *)
(* adds, overwrites and removes is what a dictionary would, and enumerating the  *)
(* array by index meets every key once.                                          *)
DictionarySpec == AbstractMap!Spec

(* The views answer from the same dictionary, for keys with and without a value *)
(* of zero (contains, tryGet, get, at, length).                                  *)
ViewsAgree ==
  /\ \A k \in Typed(mock.key) :
       /\ MapContains(k) <=> k \in DOMAIN Dict
       /\ TryGet(k).success <=> k \in DOMAIN Dict
       /\ MayGet(k) <=> k \in DOMAIN Dict
       /\ k \in DOMAIN Dict => Get(k) = Dict[k] /\ TryGet(k).value = Dict[k]
  /\ \A i \in 0..(MapLength - 1) :
       /\ EntryAt(i).key \in DOMAIN Dict /\ EntryAt(i).value = Dict[EntryAt(i).key]
       /\ MemberAt(i) = EntryAt(i).key

(* An operation moves no entry but the last: whoever goes through the indexes   *)
(* from the end while removing what it meets misses nothing.                     *)
OnlyTheLastMoves ==
  [][\A i \in 1..Len(keys.values) :
       i < Len(keys.values) /\ i <= Len(keys'.values)
         => keys'.values[i] \in {keys.values[i], keys.values[Len(keys.values)]}]_mapVars
================================================================================
