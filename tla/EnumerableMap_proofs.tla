-------------------------- MODULE EnumerableMap_proofs -------------------------
(* Proofs about the enumerable collections, for words of any size and any       *)
(* choice of collections: the array and the index mapping of the set invert each *)
(* other, and every collection implements the abstract dictionary.               *)
EXTENDS EnumerableMap, SequenceTheorems, TLAPS

--------------------------------------------------------------------------------
(* The set *)

Indexed(set) ==
  /\ set \in [values : Seq(Word), indexes : [Word -> Nat]]
  /\ \A i \in 1..Len(set.values) : set.indexes[set.values[i]] = i
  /\ \A w \in Word :
       set.indexes[w] # 0 => /\ set.indexes[w] \in 1..Len(set.values)
                             /\ set.values[set.indexes[w]] = w

(* What is in the set is in its array, once. *)
LEMMA InArrayOnce ==
  ASSUME NEW set, Indexed(set)
  PROVE  /\ \A w \in Word : Contains(set, w) <=> \E i \in 1..Len(set.values) : set.values[i] = w
         /\ \A i, j \in 1..Len(set.values) : set.values[i] = set.values[j] => i = j
         /\ \A i \in 1..Len(set.values) : set.values[i] \in Word
<1>1. /\ set.values \in Seq(Word) /\ set.indexes \in [Word -> Nat]
      /\ Len(set.values) \in Nat
  BY DEF Indexed
<1>2. \A i \in 1..Len(set.values) : set.values[i] \in Word
  BY <1>1
<1> QED BY <1>1, <1>2 DEF Indexed, Contains

(* The empty set is indexed. *)
LEMMA EmptyIndexed == Indexed(EmptySet(Word))
<1> DEFINE e == EmptySet(Word)
<1>1. e.values = <<>> /\ e.indexes = [w \in Word |-> 0]
  BY DEF EmptySet
<1>2. e \in [values : Seq(Word), indexes : [Word -> Nat]]
  BY DEF EmptySet
<1>3. Len(e.values) = 0
  BY <1>1
<1>4. \A w \in Word : e.indexes[w] = 0
  BY <1>1
<1>5. Indexed(e)
  <2> HIDE DEF e
  <2> QED BY <1>2, <1>3, <1>4 DEF Indexed
<1> QED BY <1>5

(* Adding a value keeps the set indexed and adds this value only, at the end.   *)
LEMMA AddedIndexed ==
  ASSUME NEW set, Indexed(set), NEW value \in Word
  PROVE  /\ Indexed(Added(set, value))
         /\ \A w \in Word : Contains(Added(set, value), w) <=> Contains(set, w) \/ w = value
         /\ Added(set, value).values = IF Contains(set, value) THEN set.values
                                       ELSE Append(set.values, value)
<1>1. CASE Contains(set, value)
  BY <1>1 DEF Added
<1>2. CASE ~Contains(set, value)
  <2> DEFINE n == Len(set.values)
             new == Added(set, value)
  <2>1. /\ set.values \in Seq(Word) /\ set.indexes \in [Word -> Nat] /\ n \in Nat
        /\ \A i \in 1..n : set.values[i] \in Word
    BY DEF Indexed
  <2>2. /\ new.values = Append(set.values, value)
        /\ new.indexes = [set.indexes EXCEPT ![value] = n + 1]
        /\ new = [values |-> new.values, indexes |-> new.indexes]
    BY <1>2 DEF Added
  <2>3. /\ new.values \in Seq(Word) /\ Len(new.values) = n + 1
        /\ \A i \in 1..n : new.values[i] = set.values[i]
        /\ new.values[n + 1] = value
    BY <2>1, <2>2
  <2>4. /\ new.indexes \in [Word -> Nat] /\ new.indexes[value] = n + 1
        /\ \A w \in Word : w # value => new.indexes[w] = set.indexes[w]
    BY <2>1, <2>2
  <2>5. \A i \in 1..n : set.values[i] # value
    BY <1>2, <2>1, InArrayOnce
  <2> HIDE DEF new
  <2>6. \A i \in 1..(n + 1) : new.indexes[new.values[i]] = i
    <3> SUFFICES ASSUME NEW i \in 1..(n + 1) PROVE new.indexes[new.values[i]] = i
      OBVIOUS
    <3>1. CASE i = n + 1
      BY <2>3, <2>4, <3>1
    <3>2. CASE i # n + 1
      <4>1. i \in 1..n
        BY <2>1, <3>2
      <4>2. new.values[i] = set.values[i] /\ set.values[i] \in Word /\ set.values[i] # value
        BY <2>1, <2>3, <2>5, <4>1
      <4> QED BY <2>4, <4>1, <4>2 DEF Indexed
    <3> QED BY <3>1, <3>2
  <2>7. ASSUME NEW w \in Word, new.indexes[w] # 0
        PROVE  new.indexes[w] \in 1..(n + 1) /\ new.values[new.indexes[w]] = w
    <3>1. CASE w = value
      BY <2>1, <2>3, <2>4, <3>1
    <3>2. CASE w # value
      <4>1. new.indexes[w] = set.indexes[w]
        BY <2>4, <3>2
      <4>2. set.indexes[w] \in 1..n /\ set.values[set.indexes[w]] = w
        BY <2>7, <4>1 DEF Indexed
      <4> DEFINE k == set.indexes[w]
      <4>3. k \in 1..n /\ k \in 1..(n + 1) /\ new.indexes[w] = k /\ set.values[k] = w
        BY <2>1, <4>1, <4>2
      <4> HIDE DEF k
      <4> QED BY <2>3, <4>3
    <3> QED BY <3>1, <3>2
  <2>8. Indexed(new)
    <3>1. new \in [values : Seq(Word), indexes : [Word -> Nat]]
      BY <2>2, <2>3, <2>4
    <3> QED BY <2>3, <2>6, <2>7, <3>1 DEF Indexed
  <2>9. \A w \in Word : Contains(new, w) <=> Contains(set, w) \/ w = value
    <3> SUFFICES ASSUME NEW w \in Word
                 PROVE  Contains(new, w) <=> Contains(set, w) \/ w = value
      OBVIOUS
    <3>1. n + 1 # 0
      BY <2>1
    <3>2. CASE w = value
      BY <2>4, <3>1, <3>2 DEF Contains
    <3>3. CASE w # value
      BY <2>4, <3>3 DEF Contains
    <3> QED BY <3>2, <3>3
  <2> QED BY <1>2, <2>2, <2>8, <2>9 DEF new
<1> QED BY <1>1, <1>2

(* Removing a value keeps the set indexed and removes this value only; the last *)
(* value of the array alone changes its place.                                   *)
LEMMA RemovedIndexed ==
  ASSUME NEW set, Indexed(set), NEW value \in Word
  PROVE  /\ Indexed(Removed(set, value))
         /\ \A w \in Word : Contains(Removed(set, value), w) <=> Contains(set, w) /\ w # value
         /\ Len(Removed(set, value).values) <= Len(set.values)
         /\ \A i \in 1..Len(Removed(set, value).values) :
              Removed(set, value).values[i] \in {set.values[i], set.values[Len(set.values)]}
<1> DEFINE n == Len(set.values)
           index == set.indexes[value]
           moved == set.values[n]
           new == Removed(set, value)
<1>0. /\ set.values \in Seq(Word) /\ set.indexes \in [Word -> Nat] /\ n \in Nat
      /\ \A i \in 1..n : set.values[i] \in Word
  BY DEF Indexed
<1>1. CASE ~Contains(set, value)
  <2>1. new = set
    BY <1>1 DEF Removed
  <2>2. \A w \in Word : Contains(set, w) => w # value
    BY <1>1
  <2> QED BY <1>0, <2>1, <2>2
<1>2. CASE Contains(set, value)
  <2>1. /\ index \in 1..n /\ set.values[index] = value /\ moved \in Word
        /\ n >= 1 /\ set.indexes[moved] = n
    BY <1>0, <1>2 DEF Indexed, Contains
  <2> DEFINE swapped == [set.values EXCEPT ![index] = moved]
  <2>2. /\ new.values = SubSeq(swapped, 1, n - 1)
        /\ new.indexes = [set.indexes EXCEPT ![moved] = index, ![value] = 0]
        /\ new = [values |-> new.values, indexes |-> new.indexes]
    BY <1>2 DEF Removed, Without
  <2>3. /\ swapped \in Seq(Word) /\ Len(swapped) = n
        /\ \A i \in 1..n : swapped[i] = IF i = index THEN moved ELSE set.values[i]
    BY <1>0, <2>1
  <2>4. /\ new.values \in Seq(Word) /\ Len(new.values) = n - 1
        /\ \A i \in 1..(n - 1) : new.values[i] = IF i = index THEN moved ELSE set.values[i]
    <3> HIDE DEF swapped
    <3>1. n - 1 \in Nat /\ n - 1 <= Len(swapped)
      BY <1>0, <2>1, <2>3
    <3>2. SubSeq(swapped, 1, n - 1) \in Seq(Word)
      BY <2>3, <3>1
    <3>3. /\ Len(SubSeq(swapped, 1, n - 1)) = n - 1
          /\ \A i \in 1..(n - 1) : SubSeq(swapped, 1, n - 1)[i] = swapped[i]
      BY <2>3, <3>1
    <3> QED BY <2>2, <2>3, <3>1, <3>2, <3>3
  <2>5. /\ new.indexes \in [Word -> Nat] /\ new.indexes[value] = 0
        /\ \A w \in Word : w # value => new.indexes[w] = IF w = moved THEN index
                                                         ELSE set.indexes[w]
    <3> HIDE DEF new, index, moved
    <3>1. index \in Nat /\ moved \in Word /\ value \in Word
      BY <2>1
    <3> DEFINE before == set.indexes
    <3>2. before \in [Word -> Nat] /\ new.indexes = [before EXCEPT ![moved] = index, ![value] = 0]
      BY <1>0, <2>2
    <3> HIDE DEF before
    <3>3. /\ new.indexes \in [Word -> Nat] /\ new.indexes[value] = 0
          /\ \A w \in Word : w # value => new.indexes[w] = IF w = moved THEN index ELSE before[w]
      BY <3>1, <3>2
    <3> QED BY <3>3 DEF before
  <2>6. new \in [values : Seq(Word), indexes : [Word -> Nat]]
    <3> HIDE DEF new
    <3> QED BY <2>2, <2>4, <2>5
  <2> HIDE DEF new
  <2>7. \A i \in 1..(n - 1) : new.indexes[new.values[i]] = i
    <3> SUFFICES ASSUME NEW i \in 1..(n - 1) PROVE new.indexes[new.values[i]] = i
      OBVIOUS
    <3>1. i \in 1..n /\ i # n /\ set.values[i] \in Word /\ set.indexes[set.values[i]] = i
      BY <1>0, <2>1 DEF Indexed
    <3>2. CASE i = index
      <4>1. new.values[i] = moved /\ moved # value
        BY <2>1, <2>4, <3>1, <3>2
      <4> QED BY <2>1, <2>5, <3>2, <4>1
    <3>3. CASE i # index
      <4>1. new.values[i] = set.values[i] /\ set.values[i] # moved /\ set.values[i] # value
        BY <2>1, <2>4, <3>1, <3>3
      <4> QED BY <2>5, <3>1, <4>1
    <3> QED BY <3>2, <3>3
  <2>8. ASSUME NEW w \in Word, new.indexes[w] # 0
        PROVE  new.indexes[w] \in 1..(n - 1) /\ new.values[new.indexes[w]] = w
    <3>1. w # value
      BY <2>5, <2>8
    <3>2. CASE w = moved
      <4>1. new.indexes[w] = index /\ index # n
        BY <2>1, <2>5, <3>1, <3>2
      <4>2. index \in 1..(n - 1)
        BY <1>0, <2>1, <4>1
      <4> QED BY <2>4, <3>2, <4>1, <4>2
    <3>3. CASE w # moved
      <4>1. /\ new.indexes[w] = set.indexes[w]
            /\ set.indexes[w] \in 1..n /\ set.values[set.indexes[w]] = w
        BY <2>5, <2>8, <3>1, <3>3 DEF Indexed
      <4>2. set.indexes[w] # n /\ set.indexes[w] # index
        BY <2>1, <3>1, <3>3, <4>1
      <4>3. set.indexes[w] \in 1..(n - 1)
        BY <1>0, <4>1, <4>2
      <4> QED BY <2>4, <4>1, <4>2, <4>3
    <3> QED BY <3>2, <3>3
  <2>9. Indexed(new)
    <3>1. Len(new.values) = n - 1
      BY <2>4
    <3>2. \A i \in 1..Len(new.values) : new.indexes[new.values[i]] = i
      BY <2>7, <3>1
    <3>3. \A w \in Word :
            new.indexes[w] # 0 => /\ new.indexes[w] \in 1..Len(new.values)
                                  /\ new.values[new.indexes[w]] = w
      BY <2>8, <3>1
    <3> QED BY <2>6, <3>2, <3>3 DEF Indexed
  <2>10. \A w \in Word : Contains(new, w) <=> Contains(set, w) /\ w # value
    <3> SUFFICES ASSUME NEW w \in Word
                 PROVE  Contains(new, w) <=> Contains(set, w) /\ w # value
      OBVIOUS
    <3>1. index # 0 /\ set.indexes[moved] # 0
      BY <2>1
    <3> HIDE DEF index, moved, n
    <3>2. CASE w = value
      BY <2>5, <3>2 DEF Contains
    <3>3. CASE w # value /\ w = moved
      BY <2>5, <3>1, <3>3 DEF Contains
    <3>4. CASE w # value /\ w # moved
      BY <2>5, <3>4 DEF Contains
    <3> QED BY <3>2, <3>3, <3>4
  <2>11. \A i \in 1..Len(new.values) : new.values[i] \in {set.values[i], moved}
    BY <2>4
  <2> QED BY <1>0, <2>1, <2>4, <2>9, <2>10, <2>11 DEF new
<1> QED BY <1>1, <1>2

--------------------------------------------------------------------------------
(* The collections.  The invariant: the set is indexed, keys are words of the    *)
(* key type, and only they have values.                                           *)

Inv == /\ mock \in Mocks
       /\ Indexed(keys)
       /\ values \in [Word -> Word]
       /\ result \in BOOLEAN
       /\ NoValueWithoutKey
       /\ KeysAreTyped
       /\ mock.library = "set" => \A w \in Word : values[w] = ZeroWord

(* A typed value and its word determine each other. *)
LEMMA Conversion ==
  ASSUME NEW type \in Types, NEW value \in Typed(type)
  PROVE  ToBytes32(type, value) \in Word /\ FromBytes32(type, ToBytes32(type, value)) = value
BY WordsAssumption DEF Types, Typed, ToBytes32, FromBytes32, Word, Address

(* Every word is read as some value of the type, the zero word included. *)
LEMMA Decoded ==
  ASSUME NEW type \in Types, NEW word \in Word
  PROVE  FromBytes32(type, word) \in Typed(type)
BY DEF Types, Typed, FromBytes32, Word, Address

LEMMA ZeroIsWord == ZeroWord \in Word
BY WordsAssumption DEF ZeroWord, Word

LEMMA MockTypes == mock \in Mocks => mock.key \in Types /\ mock.value \in Types
BY MocksAssumption

(* The keys of the dictionary are the typed keys whose word is in the set. *)
DictIs ==
  /\ DOMAIN Dict = {k \in Typed(mock.key) : Contains(keys, KeyWord(k))}
  /\ \A k \in DOMAIN Dict : Dict[k] = ValueOf(values[KeyWord(k)])
  /\ \A i \in 1..Len(keys.values) : KeyWord(KeyOf(keys.values[i])) = keys.values[i]

LEMMA DictDomain == Inv => DictIs
<1> SUFFICES ASSUME Inv PROVE DictIs
  OBVIOUS
<1>1. mock.key \in Types
  BY MockTypes DEF Inv
<1>2. \A k \in Typed(mock.key) : KeyWord(k) \in Word /\ KeyOf(KeyWord(k)) = k
  BY <1>1, Conversion DEF KeyWord, KeyOf
<1>3. /\ \A w \in Word : Contains(keys, w) <=> \E i \in 1..Len(keys.values) : keys.values[i] = w
      /\ \A i \in 1..Len(keys.values) : keys.values[i] \in Word
  BY InArrayOnce DEF Inv
<1>4. \A i \in 1..Len(keys.values) :
        /\ KeyOf(keys.values[i]) \in Typed(mock.key)
        /\ KeyWord(KeyOf(keys.values[i])) = keys.values[i]
  BY <1>2 DEF Inv, KeysAreTyped
<1>5. ASSUME NEW k
      PROVE  (\E i \in 1..Len(keys.values) : k = KeyOf(keys.values[i]))
               <=> k \in Typed(mock.key) /\ Contains(keys, KeyWord(k))
  BY <1>2, <1>3, <1>4
<1>6. DOMAIN Dict = {KeyOf(keys.values[i]) : i \in 1..Len(keys.values)}
  BY DEF Dict
<1> QED BY <1>4, <1>5, <1>6 DEF Dict, DictIs

(* No operation of a collection breaks the invariant. *)
LEMMA StepKeepsInv == Inv /\ [Next]_mapVars => Inv'
<1> SUFFICES ASSUME Inv, [Next]_mapVars PROVE Inv'
  OBVIOUS
<1>1. mock.key \in Types /\ mock.value \in Types /\ ZeroWord \in Word
  BY MockTypes, ZeroIsWord DEF Inv
<1>2. \A k \in Typed(mock.key) : KeyWord(k) \in Word
  BY <1>1, Conversion DEF KeyWord
<1>3. ASSUME NEW k \in Typed(mock.key), keys' = Added(keys, KeyWord(k)), mock' = mock
      PROVE  /\ Indexed(keys)' /\ KeysAreTyped'
             /\ \A w \in Word : Contains(keys', w) <=> Contains(keys, w) \/ w = KeyWord(k)
  <2>1. /\ Indexed(Added(keys, KeyWord(k)))
        /\ \A w \in Word : Contains(Added(keys, KeyWord(k)), w) <=> Contains(keys, w) \/ w = KeyWord(k)
        /\ Added(keys, KeyWord(k)).values = IF Contains(keys, KeyWord(k)) THEN keys.values
                                            ELSE Append(keys.values, KeyWord(k))
    BY <1>2, AddedIndexed DEF Inv
  <2>2. Indexed(keys)'
    BY <1>3, <2>1 DEF Indexed
  <2>3. keys.values \in Seq(Word)
    BY DEF Inv, Indexed
  <2>4. \A i \in 1..Len(keys'.values) : (i \in 1..Len(keys.values) /\ keys'.values[i] = keys.values[i])
                                          \/ keys'.values[i] = KeyWord(k)
    BY <1>2, <1>3, <2>1, <2>3
  <2>5. KeysAreTyped'
    BY <1>3, <2>4 DEF Inv, KeysAreTyped, KeyWord
  <2> QED BY <1>3, <2>1, <2>2, <2>5
<1>4. ASSUME NEW k \in Typed(mock.key), keys' = Removed(keys, KeyWord(k)), mock' = mock
      PROVE  /\ Indexed(keys)' /\ KeysAreTyped'
             /\ \A w \in Word : Contains(keys', w) <=> Contains(keys, w) /\ w # KeyWord(k)
  <2> DEFINE new == Removed(keys, KeyWord(k))
  <2>1. /\ Indexed(new)
        /\ \A w \in Word : Contains(new, w) <=> Contains(keys, w) /\ w # KeyWord(k)
        /\ Len(new.values) <= Len(keys.values)
        /\ \A i \in 1..Len(new.values) :
             new.values[i] \in {keys.values[i], keys.values[Len(keys.values)]}
    BY <1>2, RemovedIndexed DEF Inv
  <2> HIDE DEF new
  <2>2. keys' = new
    BY <1>4 DEF new
  <2>3. Indexed(keys)'
    BY <2>1, <2>2 DEF Indexed
  <2>4. Len(new.values) \in Nat /\ Len(keys.values) \in Nat
    BY <2>1 DEF Inv, Indexed
  <2>5. \A i \in 1..Len(new.values) : i \in 1..Len(keys.values) /\ Len(keys.values) \in 1..Len(keys.values)
    BY <2>1, <2>4
  <2>6. \A i \in 1..Len(keys'.values) : \E j \in 1..Len(keys.values) : keys'.values[i] = keys.values[j]
    BY <2>1, <2>2, <2>5
  <2>7. KeysAreTyped'
    BY <1>4, <2>6 DEF Inv, KeysAreTyped, KeyWord
  <2> QED BY <2>1, <2>2, <2>3, <2>7
<1>5. ASSUME NEW k \in Typed(mock.key), NEW v \in Typed(mock.value), Set(k, v), mock.library = "map"
      PROVE  Inv'
  <2>1. values' \in [Word -> Word]
        /\ \A w \in Word : w # KeyWord(k) => values'[w] = values[w]
    BY <1>1, <1>2, <1>5, Conversion DEF Inv, Set, SetWord
  <2>2. NoValueWithoutKey'
    BY <1>3, <1>5, <2>1 DEF Inv, Set, SetWord, NoValueWithoutKey
  <2> QED BY <1>3, <1>5, <2>1, <2>2 DEF Inv, Set, SetWord
<1>6. ASSUME NEW k \in Typed(mock.key), Remove(k) PROVE Inv'
  <2>1. values' \in [Word -> Word] /\ values'[KeyWord(k)] = ZeroWord
        /\ \A w \in Word : w # KeyWord(k) => values'[w] = values[w]
    BY <1>1, <1>2, <1>6 DEF Inv, Remove, RemoveWord
  <2>2. NoValueWithoutKey'
    BY <1>4, <1>6, <2>1 DEF Inv, Remove, RemoveWord, NoValueWithoutKey
  <2> QED BY <1>4, <1>6, <2>1, <2>2 DEF Inv, Remove, RemoveWord, HasWord, Contains
<1>7. ASSUME NEW k \in Typed(mock.key), AddMember(k), mock.library = "set" PROVE Inv'
  <2>1. NoValueWithoutKey'
    BY <1>3, <1>7 DEF Inv, AddMember, NoValueWithoutKey
  <2> QED BY <1>3, <1>7, <2>1 DEF Inv, AddMember
<1>8. ASSUME NEW k \in Typed(mock.key), RemoveMember(k), mock.library = "set" PROVE Inv'
  <2>1. NoValueWithoutKey'
    BY <1>8 DEF Inv, RemoveMember, NoValueWithoutKey
  <2> QED BY <1>4, <1>8, <2>1 DEF Inv, RemoveMember, MapContains, HasWord, Contains
<1>9. CASE UNCHANGED mapVars
  BY <1>9 DEF mapVars, Inv, Indexed, NoValueWithoutKey, KeysAreTyped, KeyWord, Contains
<1> QED BY <1>5, <1>6, <1>7, <1>8, <1>9 DEF Next, MapTransaction, SetTransaction

(* A collection starts empty. *)
LEMMA InitInv == Init => Inv
<1> SUFFICES ASSUME Init PROVE Inv
  OBVIOUS
<1>1. Indexed(keys) /\ keys.values = <<>>
  BY EmptyIndexed DEF Init, EmptySet
<1>2. KeysAreTyped
  BY <1>1 DEF KeysAreTyped
<1>3. NoValueWithoutKey /\ values \in [Word -> Word]
      /\ \A w \in Word : values[w] = ZeroWord
  BY ZeroIsWord DEF Init, NoValueWithoutKey
<1> QED BY <1>1, <1>2, <1>3 DEF Init, Inv

(* The invariant holds throughout. *)
LEMMA Invariance == Spec => []Inv
BY InitInv, StepKeepsInv, PTL DEF Spec

--------------------------------------------------------------------------------
(* Theorems *)

(* The collection keeps its type, whatever the sizes of words and addresses:    *)
(* no operation stores an index outside the array (EnumerableSet._remove).       *)
THEOREM TypeCorrect == Spec => []TypeOK
<1>1. ASSUME Inv PROVE TypeOK
  <2>1. keys.values \in Seq(Word) /\ keys.indexes \in [Word -> Nat] /\ Len(keys.values) \in Nat
    BY <1>1 DEF Inv, Indexed
  <2>2. ASSUME NEW w \in Word PROVE keys.indexes[w] \in 0..Len(keys.values)
    <3>1. CASE keys.indexes[w] = 0
      BY <2>1, <3>1
    <3>2. CASE keys.indexes[w] # 0
      BY <1>1, <2>1, <3>2 DEF Inv, Indexed
    <3> QED BY <3>1, <3>2
  <2> QED BY <1>1, <2>2 DEF Inv, Indexed, TypeOK
<1> QED BY <1>1, Invariance, PTL

(* Array and index mapping of a set invert each other after any additions and   *)
(* removals (EnumerableSet._add, _remove).                                       *)
THEOREM IndexesAgree == Spec => []IndexesInvertValues
<1>1. Inv => IndexesInvertValues
  BY DEF Inv, Indexed, IndexesInvertValues
<1> QED BY <1>1, Invariance, PTL

(* A removed key leaves no value behind (EnumerableMap.remove). *)
THEOREM NoStrayValue == Spec => []NoValueWithoutKey
<1>1. Inv => NoValueWithoutKey
  BY DEF Inv
<1> QED BY <1>1, Invariance, PTL

(* contains, tryGet, get, at and length answer from the dictionary.             *)
THEOREM ViewsAreTheDictionary == Spec => []ViewsAgree
<1>1. ASSUME Inv PROVE ViewsAgree
  <2>1. /\ DOMAIN Dict = {k \in Typed(mock.key) : Contains(keys, KeyWord(k))}
        /\ \A k \in DOMAIN Dict : Dict[k] = ValueOf(values[KeyWord(k)])
        /\ \A i \in 1..Len(keys.values) : KeyWord(KeyOf(keys.values[i])) = keys.values[i]
    BY <1>1, DictDomain DEF DictIs
  <2>2. \A k \in Typed(mock.key) : KeyWord(k) \in Word
    BY <1>1, MockTypes, Conversion DEF KeyWord, Inv
  <2>3. ASSUME NEW k \in Typed(mock.key)
        PROVE  /\ MapContains(k) <=> k \in DOMAIN Dict
               /\ TryGet(k).success <=> k \in DOMAIN Dict
               /\ MayGet(k) <=> k \in DOMAIN Dict
               /\ k \in DOMAIN Dict => Get(k) = Dict[k] /\ TryGet(k).value = Dict[k]
    <3>1. values[KeyWord(k)] # ZeroWord => MapContains(k)
      BY <1>1, <2>2 DEF Inv, NoValueWithoutKey, MapContains, HasWord
    <3>2. MapContains(k) <=> k \in DOMAIN Dict
      BY <2>1 DEF MapContains, HasWord
    <3>3. k \in DOMAIN Dict => Get(k) = Dict[k] /\ TryGet(k).value = Dict[k]
      BY <2>1 DEF Get, GetWord, TryGet, TryGetWord
    <3>4. TryGet(k).success <=> (values[KeyWord(k)] = ZeroWord => MapContains(k))
      BY DEF TryGet, TryGetWord, MapContains
    <3> QED BY <3>1, <3>2, <3>3, <3>4 DEF MayGet, MayGetWord, MapContains
  <2>4. ASSUME NEW i \in 0..(MapLength - 1)
        PROVE  /\ EntryAt(i).key \in DOMAIN Dict /\ EntryAt(i).value = Dict[EntryAt(i).key]
               /\ MemberAt(i) = EntryAt(i).key
    <3>1. Len(keys.values) \in Nat
      BY <1>1 DEF Inv, Indexed
    <3>2. i + 1 \in 1..Len(keys.values)
      BY <3>1 DEF MapLength, Length
    <3>3. EntryAt(i).key = KeyOf(keys.values[i + 1])
          /\ EntryAt(i).value = ValueOf(values[keys.values[i + 1]])
          /\ MemberAt(i) = KeyOf(keys.values[i + 1])
      BY DEF EntryAt, WordsAt, MemberAt, At
    <3>4. EntryAt(i).key \in DOMAIN Dict
      BY <3>2, <3>3 DEF Dict
    <3> QED BY <2>1, <3>2, <3>3, <3>4
  <2> QED BY <2>3, <2>4 DEF ViewsAgree
<1> QED BY <1>1, Invariance, PTL

(* Adding and removing a key of the set are Put and Delete of the dictionary.   *)
LEMMA AddedIsPut ==
  ASSUME Inv, Inv', NEW k \in Typed(mock.key), NEW v \in Typed(mock.value),
         mock' = mock, keys' = Added(keys, KeyWord(k)), result' = ~MapContains(k),
         ValueOf(values'[KeyWord(k)]) = v,
         \A w \in Word : w # KeyWord(k) => values'[w] = values[w]
  PROVE  AbstractMap!Put(k, v)
<1>1. DictIs /\ DictIs'
  <2>1. Inv' => DictIs'
    BY DictDomain, PTL
  <2> QED BY <2>1, DictDomain
<1>2. /\ \A x \in Typed(mock.key) : KeyWord(x) \in Word /\ KeyOf(KeyWord(x)) = x
      /\ \A x : KeyWord(x)' = KeyWord(x) /\ KeyOf(x)' = KeyOf(x) /\ ValueOf(x)' = ValueOf(x)
  BY MockTypes, Conversion DEF KeyWord, KeyOf, ValueOf, Inv
<1>3. /\ \A w \in Word : Contains(keys', w) <=> Contains(keys, w) \/ w = KeyWord(k)
      /\ keys'.values = IF Contains(keys, KeyWord(k)) THEN keys.values
                        ELSE Append(keys.values, KeyWord(k))
  BY <1>2, AddedIndexed DEF Inv
<1>4. k \in DOMAIN Dict <=> Contains(keys, KeyWord(k))
  BY <1>1 DEF DictIs
<1>5. DOMAIN Dict' = DOMAIN Dict \cup {k}
  <2>1. DOMAIN Dict' = {x \in Typed(mock.key) : Contains(keys', KeyWord(x))}
    BY <1>1, <1>2 DEF DictIs
  <2>2. \A x \in Typed(mock.key) : KeyWord(x) = KeyWord(k) => x = k
    BY <1>2
  <2> QED BY <1>1, <1>2, <1>3, <2>1, <2>2 DEF DictIs
<1>6. \A x \in DOMAIN Dict' : Dict'[x] = IF x = k THEN v ELSE Dict[x]
  <2> SUFFICES ASSUME NEW x \in DOMAIN Dict' PROVE Dict'[x] = IF x = k THEN v ELSE Dict[x]
    OBVIOUS
  <2>1. Dict'[x] = ValueOf(values'[KeyWord(x)]) /\ x \in Typed(mock.key)
    BY <1>1, <1>2 DEF DictIs
  <2>2. CASE x = k
    BY <2>1, <2>2
  <2>3. CASE x # k
    BY <1>1, <1>2, <1>5, <2>1, <2>3 DEF DictIs
  <2> QED BY <2>2, <2>3
<1>7. Dict' = [x \in DOMAIN Dict \cup {k} |-> IF x = k THEN v ELSE Dict[x]]
  <2>1. Dict' = [x \in DOMAIN Dict' |-> Dict'[x]]
    BY DEF Dict
  <2> QED BY <1>5, <1>6, <2>1
<1>8. Members' = IF k \in DOMAIN Dict THEN Members ELSE Append(Members, k)
  <2>0. keys.values \in Seq(Word) /\ Len(keys.values) \in Nat
    BY DEF Inv, Indexed
  <2>1. CASE Contains(keys, KeyWord(k))
    BY <1>2, <1>3, <1>4, <2>1 DEF Members
  <2>2. CASE ~Contains(keys, KeyWord(k))
    <3> DEFINE n == Len(keys.values)
    <3>1. keys'.values = Append(keys.values, KeyWord(k))
      BY <1>3, <2>2
    <3>2. /\ Len(keys'.values) = n + 1 /\ keys'.values[n + 1] = KeyWord(k)
          /\ \A i \in 1..n : keys'.values[i] = keys.values[i]
      BY <1>2, <2>0, <3>1
    <3>3. Members' = [i \in 1..(n + 1) |-> IF i = n + 1 THEN k ELSE Members[i]]
      BY <1>2, <2>0, <3>2 DEF Members
    <3>4. Members \in Seq(Typed(mock.key)) /\ Len(Members) = n
      BY <2>0, MockTypes, Decoded DEF Members, KeyOf, Inv, Indexed
    <3>5. Append(Members, k) = [i \in 1..(n + 1) |-> IF i = n + 1 THEN k ELSE Members[i]]
      <4> DEFINE o == Members
                 S == Typed(mock.key)
                 f == [i \in 1..(n + 1) |-> IF i = n + 1 THEN k ELSE o[i]]
      <4>1. o \in Seq(S) /\ Len(o) = n /\ n \in Nat
        BY <2>0, <3>4
      <4>0. k \in S
        OBVIOUS
      <4> HIDE DEF o, S, n
      <4>3. \A i \in 1..(n + 1) : i = n + 1 \/ (i \in 1..n /\ o[i] \in S)
        BY <4>1
      <4>4. /\ Append(o, k) \in Seq(S) /\ Len(Append(o, k)) = n + 1
            /\ \A i \in 1..(n + 1) : Append(o, k)[i] = IF i = n + 1 THEN k ELSE o[i]
        BY <4>0, <4>1, <4>3, AppendProperties
      <4>5. f \in Seq(S) /\ Len(f) = n + 1
        BY <4>0, <4>1, <4>3
      <4>2. Append(o, k) = f
        BY <4>1, <4>4, <4>5, SeqEqual
      <4> QED BY <4>2 DEF o
    <3> QED BY <1>4, <2>2, <3>3, <3>5
  <2> QED BY <2>1, <2>2
<1>9. result' = (k \notin DOMAIN Dict)
  BY <1>4 DEF MapContains, HasWord
<1> QED BY <1>7, <1>8, <1>9 DEF AbstractMap!Put

LEMMA RemovedIsDelete ==
  ASSUME Inv, Inv', NEW k \in Typed(mock.key),
         mock' = mock, keys' = Removed(keys, KeyWord(k)), result' = MapContains(k),
         \A w \in Word : w # KeyWord(k) => values'[w] = values[w]
  PROVE  AbstractMap!Delete(k)
<1>1. DictIs /\ DictIs'
  <2>1. Inv' => DictIs'
    BY DictDomain, PTL
  <2> QED BY <2>1, DictDomain
<1>2. /\ \A x \in Typed(mock.key) : KeyWord(x) \in Word /\ KeyOf(KeyWord(x)) = x
      /\ \A x : KeyWord(x)' = KeyWord(x) /\ KeyOf(x)' = KeyOf(x) /\ ValueOf(x)' = ValueOf(x)
  BY MockTypes, Conversion DEF KeyWord, KeyOf, ValueOf, Inv
<1>3. /\ \A w \in Word : Contains(keys', w) <=> Contains(keys, w) /\ w # KeyWord(k)
      /\ Indexed(keys')
  BY <1>2, RemovedIndexed DEF Inv
<1>4. DOMAIN Dict' = DOMAIN Dict \ {k}
  <2>1. DOMAIN Dict' = {x \in Typed(mock.key) : Contains(keys', KeyWord(x))}
    BY <1>1, <1>2 DEF DictIs
  <2>2. \A x \in Typed(mock.key) : KeyWord(x) = KeyWord(k) => x = k
    BY <1>2
  <2> QED BY <1>1, <1>2, <1>3, <2>1, <2>2 DEF DictIs
<1>5. Dict' = [x \in DOMAIN Dict \ {k} |-> Dict[x]]
  <2>1. Dict' = [x \in DOMAIN Dict' |-> Dict'[x]]
    BY DEF Dict
  <2>2. \A x \in DOMAIN Dict' : Dict'[x] = Dict[x]
    <3> SUFFICES ASSUME NEW x \in DOMAIN Dict' PROVE Dict'[x] = Dict[x]
      OBVIOUS
    <3>1. x \in Typed(mock.key) /\ x \in DOMAIN Dict /\ x # k
      BY <1>1, <1>4 DEF DictIs
    <3>2. KeyWord(x) # KeyWord(k) /\ KeyWord(x) \in Word
      BY <1>2, <3>1
    <3> QED BY <1>1, <1>2, <3>1, <3>2 DEF DictIs
  <2> QED BY <1>4, <2>1, <2>2
<1>6. AbstractMap!Enumerates(Members', DOMAIN Dict \ {k})
  <2>1. \A i, j \in 1..Len(keys'.values) : keys'.values[i] = keys'.values[j] => i = j
    BY <1>3, InArrayOnce
  <2>2. \A i \in 1..Len(keys'.values) : KeyWord(KeyOf(keys'.values[i])) = keys'.values[i]
    BY <1>1, <1>2 DEF DictIs
  <2>3. Len(keys'.values) \in Nat
    BY <1>3 DEF Indexed
  <2>4. Members' = [i \in 1..Len(keys'.values) |-> KeyOf(keys'.values[i])]
    BY <1>2 DEF Members
  <2>5. Len(Members') = Len(keys'.values)
    BY <2>3, <2>4
  <2>6. DOMAIN Dict' = {KeyOf(keys'.values[i]) : i \in 1..Len(keys'.values)}
    BY <1>2 DEF Dict
  <2>7. DOMAIN Dict' = {Members'[i] : i \in 1..Len(Members')}
    BY <2>4, <2>5, <2>6
  <2>8. \A i, j \in 1..Len(Members') : Members'[i] = Members'[j] => i = j
    BY <2>1, <2>2, <2>4, <2>5
  <2> QED BY <1>4, <2>7, <2>8 DEF AbstractMap!Enumerates
<1>7. result' = (k \in DOMAIN Dict)
  <2>1. k \in DOMAIN Dict <=> Contains(keys, KeyWord(k))
    BY <1>1 DEF DictIs
  <2> QED BY <2>1 DEF MapContains, HasWord, Contains
<1> QED BY <1>5, <1>6, <1>7 DEF AbstractMap!Delete

(* Every enumerable map and set is a dictionary: for words of any size, and     *)
(* whatever was added and removed before, an operation answers and changes what  *)
(* a dictionary would.                                                           *)
THEOREM ImplementsDictionary == Spec => DictionarySpec
<1>1. Init => AbstractMap!Init
  BY DEF Init, EmptySet, AbstractMap!Init, Dict, Members
<1>2. Inv /\ Inv' /\ [Next]_mapVars => [AbstractMap!Next]_(AbstractMap!dictionaryVars)
  <2> SUFFICES ASSUME Inv, Inv', [Next]_mapVars
               PROVE  [AbstractMap!Next]_(AbstractMap!dictionaryVars)
    OBVIOUS
  <2>0. /\ mock.key \in Types /\ mock.value \in Types
        /\ \A x \in Typed(mock.key) : KeyWord(x) \in Word
        /\ \A x \in Typed(mock.key) : x \in UNION {Typed(t) : t \in Types}
        /\ \A x \in Typed(mock.value) : x \in UNION {Typed(t) : t \in Types}
    BY MockTypes, Conversion DEF Inv, KeyWord
  <2>1. ASSUME NEW k \in Typed(mock.key), NEW v \in Typed(mock.value), Set(k, v)
        PROVE  AbstractMap!Put(k, v)
    <3>1. ToBytes32(mock.value, v) \in Word /\ ValueOf(ToBytes32(mock.value, v)) = v
      BY <2>0, Conversion DEF ValueOf
    <3>2. ValueOf(values'[KeyWord(k)]) = v
          /\ \A w \in Word : w # KeyWord(k) => values'[w] = values[w]
      BY <2>0, <2>1, <3>1 DEF Set, SetWord, Inv
    <3> QED BY <2>1, <3>2, AddedIsPut DEF Set, SetWord, MapContains
  <2>2. ASSUME NEW k \in Typed(mock.key), Remove(k) PROVE AbstractMap!Delete(k)
    <3>1. \A w \in Word : w # KeyWord(k) => values'[w] = values[w]
      BY <2>0, <2>2 DEF Remove, RemoveWord, Inv
    <3> QED BY <2>2, <3>1, RemovedIsDelete DEF Remove, RemoveWord, MapContains
  <2>3. ASSUME NEW k \in Typed(mock.key), AddMember(k), mock.library = "set"
        PROVE  AbstractMap!Put(k, ValueOf(ZeroWord)) /\ ValueOf(ZeroWord) \in Typed(mock.value)
    <3>1. values' = values /\ values[KeyWord(k)] = ZeroWord
      BY <2>0, <2>3 DEF AddMember, Inv
    <3>2. ValueOf(ZeroWord) \in Typed(mock.value)
      BY <2>0, ZeroIsWord, Decoded DEF ValueOf
    <3> QED BY <2>3, <3>1, <3>2, AddedIsPut DEF AddMember
  <2>4. ASSUME NEW k \in Typed(mock.key), RemoveMember(k) PROVE AbstractMap!Delete(k)
    BY <2>4, RemovedIsDelete DEF RemoveMember
  <2>5. CASE UNCHANGED mapVars
    BY <2>5 DEF mapVars, AbstractMap!dictionaryVars, Dict, Members, KeyOf, ValueOf, KeyWord
  <2> QED BY <2>0, <2>1, <2>2, <2>3, <2>4, <2>5
          DEF Next, MapTransaction, SetTransaction, AbstractMap!Next
<1> QED BY <1>1, <1>2, Invariance, PTL DEF Spec, DictionarySpec, AbstractMap!Spec

(* An operation moves no entry of the enumeration but the last one, so that     *)
(* going through the indexes downwards is safe while entries are removed         *)
(* (EnumerableSet._remove, at).                                                  *)
THEOREM EnumerationIsStable == Spec => OnlyTheLastMoves
<1> DEFINE Stable == \A i \in 1..Len(keys.values) :
                       i < Len(keys.values) /\ i <= Len(keys'.values)
                         => keys'.values[i] \in {keys.values[i], keys.values[Len(keys.values)]}
<1>1. Inv /\ [Next]_mapVars => [Stable]_mapVars
  <2> SUFFICES ASSUME Inv, Next PROVE Stable
    OBVIOUS
  <2>1. /\ \A k \in Typed(mock.key) : KeyWord(k) \in Word
        /\ keys.values \in Seq(Word) /\ Len(keys.values) \in Nat
    BY MockTypes, Conversion DEF Inv, KeyWord, Indexed
  <2>2. ASSUME NEW k \in Typed(mock.key), keys' = Added(keys, KeyWord(k)) PROVE Stable
    <3>1. keys'.values = keys.values \/ keys'.values = Append(keys.values, KeyWord(k))
      BY <2>1, <2>2, AddedIndexed DEF Inv
    <3>2. \A i \in 1..Len(keys.values) : keys'.values[i] = keys.values[i]
      BY <2>1, <3>1
    <3> QED BY <3>2
  <2>3. ASSUME NEW k \in Typed(mock.key), keys' = Removed(keys, KeyWord(k)) PROVE Stable
    <3> DEFINE new == Removed(keys, KeyWord(k))
    <3>1. /\ Indexed(new)
          /\ \A i \in 1..Len(new.values) :
               new.values[i] \in {keys.values[i], keys.values[Len(keys.values)]}
      BY <2>1, RemovedIndexed DEF Inv
    <3> HIDE DEF new
    <3>2. Len(new.values) \in Nat
      BY <3>1 DEF Indexed
    <3>3. keys' = new
      BY <2>3 DEF new
    <3> QED BY <2>1, <3>1, <3>2, <3>3
  <2> HIDE DEF Stable
  <2> QED BY <2>2, <2>3 DEF Next, MapTransaction, SetTransaction, Set, SetWord, Remove,
                               RemoveWord, AddMember, RemoveMember
<1> QED BY <1>1, Invariance, PTL DEF Spec, OnlyTheLastMoves
================================================================================
