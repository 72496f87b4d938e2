------------------------ MODULE CheckpointSearch_proofs -------------------------
(* Casts lose nothing, a push returns the values around it, lists stay in the   *)
(* order that the searches need, and every search finds what its definition      *)
(* promises: for types of any size and lists of any length.  Seven steps of      *)
(* Newton's method find the root of every word of 256 bits.                       *)
EXTENDS CheckpointSearch, DataLemmas

--------------------------------------------------------------------------------
(* Casts *)

LEMMA Remainder ==
  ASSUME NEW size \in Nat \ {0}, NEW n \in Int
  PROVE  /\ n % size \in 0..(size - 1)
         /\ n \in 0..(size - 1) => n % size = n
         /\ n \in (-size)..(-1) => n % size = n + size
OBVIOUS

(* Half of the values of a signed type are negative. *)
LEMMA SignedBits ==
  ASSUME NEW half \in Nat \ {0}, NEW n \in Int
  PROVE  /\ LowBitsSigned(n, 2 * half) \in IntOf(2 * half)
         /\ n \in IntOf(2 * half) => LowBitsSigned(n, 2 * half) = n
         /\ IntOf(2 * half) = (-half)..(half - 1) /\ (2 * half) \div 2 = half
<1> DEFINE size == 2 * half
           low == n % size
<1>1. size \in Nat \ {0} OBVIOUS
<1>2. size \div 2 = half OBVIOUS
<1> HIDE DEF size
<1>3. /\ low \in 0..(size - 1)
      /\ n \in 0..(size - 1) => low = n
      /\ n \in (-size)..(-1) => low = n + size
  BY <1>1, Remainder
<1> HIDE DEF low
<1>4. size = 2 * half BY DEF size
<1>5. LowBitsSigned(n, size) = IF low < half THEN low ELSE low - size
  BY <1>2 DEF LowBitsSigned, LowBits, low
<1>6. IntOf(size) = (-half)..(half - 1) BY <1>2 DEF IntOf
<1> QED BY <1>2, <1>3, <1>4, <1>5, <1>6 DEF size

(* A cast is exact when it fits for the values of the type alone, and keeps them.*)
LEMMA CastIsExact ==
  ASSUME NEW value, NEW low, NEW fits \in BOOLEAN, NEW type,
         value \in type <=> fits, fits => low = value
  PROVE  Exact(Cast(low, fits), value, type)
<1>1. CASE fits
  <2>1. Cast(low, fits) = [value |-> value, reverts |-> FALSE] BY <1>1 DEF Cast
  <2> QED BY <1>1, <2>1 DEF Exact
<1>2. CASE ~fits
  <2>1. Cast(low, fits).reverts BY <1>2 DEF Cast
  <2> QED BY <1>2, <2>1 DEF Exact
<1> QED BY <1>1, <1>2

LEMMA UnsignedCast ==
  ASSUME NEW size \in Nat \ {0}, NEW n \in Nat
  PROVE  Exact(ToUintDownCast(n, size), n, UintOf(size))
<1> DEFINE low == LowBits(n, size)
           fits == n <= size - 1
<1>1. n \in UintOf(size) => low = n BY Remainder DEF LowBits, UintOf
<1>2. n \in UintOf(size) <=> fits BY DEF UintOf
<1>3. ToUintDownCast(n, size) = Cast(low, fits) BY DEF ToUintDownCast
<1>4. fits \in BOOLEAN OBVIOUS
<1> HIDE DEF low, fits
<1> QED BY <1>1, <1>2, <1>3, <1>4, CastIsExact

LEMMA SignedCast ==
  ASSUME NEW half \in Nat \ {0}, NEW n \in Int
  PROVE  Exact(ToIntDownCast(n, 2 * half), n, IntOf(2 * half))
<1> DEFINE size == 2 * half
           low == LowBitsSigned(n, size)
           fits == low = n
<1>1. low \in IntOf(size) /\ (n \in IntOf(size) => low = n) BY SignedBits
<1>2. ToIntDownCast(n, size) = Cast(low, fits) BY DEF ToIntDownCast
<1> HIDE DEF low, size
<1>3. n \in IntOf(size) <=> fits BY <1>1
<1>4. fits \in BOOLEAN /\ (fits => low = n) OBVIOUS
<1> HIDE DEF fits
<1>5. Exact(ToIntDownCast(n, size), n, IntOf(size)) BY <1>2, <1>3, <1>4, CastIsExact
<1> QED BY <1>5 DEF size

LEMMA ToSigned ==
  ASSUME NEW half \in Nat \ {0}, NEW n \in UintOf(2 * half)
  PROVE  Exact(ToInt(n, 2 * half), n, IntOf(2 * half))
<1>1. n \in Int /\ 0 <= n BY DEF UintOf
<1>2. n \in IntOf(2 * half) <=> n <= half - 1 BY <1>1, SignedBits
<1> QED BY <1>1, <1>2, SignedBits DEF Exact, ToInt, Cast

LEMMA ToUnsigned ==
  ASSUME NEW half \in Nat \ {0}, NEW n \in IntOf(2 * half)
  PROVE  Exact(ToUint(n, 2 * half), n, UintOf(2 * half))
<1> DEFINE size == 2 * half
<1>1. size \in Nat \ {0} /\ n \in (-half)..(half - 1) BY SignedBits
<1>2. n \in 0..(size - 1) <=> n >= 0 BY <1>1
<1>3. n \in 0..(size - 1) => n % size = n BY <1>1, Remainder
<1> HIDE DEF size
<1>4. Exact(ToUint(n, size), n, UintOf(size))
  BY <1>2, <1>3 DEF Exact, ToUint, Cast, LowBits, UintOf
<1> QED BY <1>4 DEF size

--------------------------------------------------------------------------------
(* Lists *)

Lists == Seq(Checkpoint(Nat, Nat))

(* The list is in order, and a History does not run ahead of its block. *)
InOrder == Sorted(ckpts) /\ (kind = "History" => UpTo(ckpts, block))

SInv == ckpts \in Lists /\ block \in Nat \ {0} /\ InOrder

LEMMA Fields ==
  ASSUME NEW c \in Lists, NEW i \in 1..Len(c)
  PROVE  c[i].fromBlock \in Nat /\ c[i].votes \in Nat
<1>1. c[i] \in Checkpoint(Nat, Nat) BY DEF Lists
<1> QED BY <1>1 DEF Checkpoint

(* What is pushed is what was given: the casts revert or keep the value. *)
LEMMA KeysFit ==
  ASSUME NEW n \in Nat
  PROVE  /\ ~ToUint32(n).reverts => ToUint32(n).value = n
         /\ ~ToUint224(n).reverts => ToUint224(n).value = n
<1>1. KeySize \in Nat \ {0} /\ ValueSize \in Nat \ {0} BY SearchAssumption
<1> QED BY <1>1, UnsignedCast DEF Exact, ToUint32, ToUint224

LEMMA InsertStep ==
  ASSUME SInv, NEW key \in Nat, NEW value \in Nat, Insert(key, value),
         kind = "History" => key = block, UNCHANGED <<kind, block>>
  PROVE  /\ SInv'
         /\ returned' = [previous |-> Latest(ckpts), current |-> Latest(ckpts')]
<1>1. ckpts \in Lists /\ Sorted(ckpts) BY DEF SInv, InOrder
<1>2. /\ ckpts # <<>> => ckpts[Len(ckpts)].fromBlock <= key
      /\ ckpts' = WriteCheckpoint(ckpts, key, value)
      /\ returned' = [previous |-> Latest(ckpts), current |-> value]
  BY DEF Insert
<1>3. UpTo(ckpts, key)
  <2> SUFFICES ASSUME NEW i \in 1..Len(ckpts) PROVE ckpts[i].fromBlock <= key
    BY DEF UpTo
  <2>1. ckpts # <<>> /\ Len(ckpts) \in 1..Len(ckpts) /\ i <= Len(ckpts)
    BY <1>1 DEF Lists
  <2>2. ckpts[i].fromBlock \in Nat /\ ckpts[Len(ckpts)].fromBlock \in Nat
    BY <1>1, <2>1, Fields
  <2>3. i < Len(ckpts) => ckpts[i].fromBlock < ckpts[Len(ckpts)].fromBlock
    BY <1>1, <2>1 DEF Sorted
  <2>4. i < Len(ckpts) \/ i = Len(ckpts) BY <2>1
  <2> QED BY <1>2, <2>1, <2>2, <2>3, <2>4
<1>4. ckpts' \in Lists BY <1>1, <1>2, WriteType DEF Lists
<1>5. Sorted(ckpts') BY <1>1, <1>2, <1>3, WriteSorted DEF Lists
<1>6. UpTo(ckpts', key) BY <1>1, <1>2, <1>3, WriteUpTo DEF Lists
<1>7. SInv' BY <1>4, <1>5, <1>6 DEF SInv, InOrder
<1>8. Latest(ckpts') = value
  <2>1. CASE ckpts # <<>> /\ ckpts[Len(ckpts)].fromBlock = key
    BY <1>1, <1>2, <2>1 DEF Latest, WriteCheckpoint, Lists
  <2>2. CASE ~(ckpts # <<>> /\ ckpts[Len(ckpts)].fromBlock = key)
    BY <1>1, <1>2, <2>2 DEF Latest, WriteCheckpoint, Lists
  <2> QED BY <2>1, <2>2
<1> QED BY <1>2, <1>7, <1>8

LEMMA PushStep ==
  ASSUME SInv, kind = "History", NEW value \in Nat, PushValue(value),
         UNCHANGED <<kind, block>>
  PROVE  /\ SInv'
         /\ returned' = [previous |-> Latest(ckpts), current |-> Latest(ckpts')]
<1>1. block \in Nat BY DEF SInv
<1>2. ToUint32(block).value = block BY <1>1, KeysFit DEF PushValue
<1>3. ToUint224(value).value = value BY KeysFit DEF PushValue
<1>4. Insert(block, value) BY <1>2, <1>3 DEF PushValue
<1> QED BY <1>1, <1>4, InsertStep

LEMMA SearchStep ==
  ASSUME SInv, [Next]_searchVars
  PROVE  /\ SInv'
         /\ <<ckpts, returned>>' # <<ckpts, returned>>
              => returned' = [previous |-> Latest(ckpts), current |-> Latest(ckpts')]
<1>0. Values \subseteq Nat BY SearchAssumption
<1>1. CASE UNCHANGED searchVars BY <1>1 DEF searchVars, SInv, InOrder
<1>2. CASE Mine
  <2>1. UNCHANGED <<kind, ckpts, returned>> /\ block' = block + 1 BY <1>2 DEF Mine
  <2>2. UpTo(ckpts, block) => UpTo(ckpts, block + 1)
    <3> SUFFICES ASSUME UpTo(ckpts, block), NEW i \in 1..Len(ckpts)
                 PROVE  ckpts[i].fromBlock <= block + 1
      BY DEF UpTo
    <3>1. ckpts[i].fromBlock <= block BY DEF UpTo
    <3>2. ckpts[i].fromBlock \in Nat /\ block \in Nat BY Fields DEF SInv
    <3> QED BY <3>1, <3>2
  <2> QED BY <2>1, <2>2 DEF SInv, InOrder
<1>3. CASE Record
  <2>1. PICK value \in Values :
          PushValue(value) \/ \E op \in {"add", "subtract"} : PushDelta(op, value)
    BY <1>3 DEF Record
  <2>2. kind = "History" /\ UNCHANGED <<kind, block>> BY <1>3 DEF Record
  <2>3. CASE PushValue(value) BY <1>0, <2>2, <2>3, PushStep
  <2>4. ASSUME NEW op \in {"add", "subtract"}, PushDelta(op, value)
        PROVE  \E n \in Nat : PushValue(n)
    <3>1. Latest(ckpts) \in Nat BY LatestType DEF SInv, Lists
    <3>2. Applied(op, Latest(ckpts), value) \in Nat
      BY <1>0, <2>4, <3>1 DEF PushDelta, Applied
    <3> QED BY <2>4, <3>2 DEF PushDelta
  <2> QED BY <2>1, <2>2, <2>3, <2>4, PushStep
<1>4. CASE PushAt
  <2>1. PICK key \in TraceKeys, value \in Values \cap UintOf(ValueSize) : Insert(key, value)
    BY <1>4 DEF PushAt
  <2>2. key \in Nat /\ value \in Nat BY <1>0, SearchAssumption DEF UintOf
  <2>3. kind # "History" /\ UNCHANGED <<kind, block>> BY <1>4 DEF PushAt
  <2> QED BY <2>1, <2>2, <2>3, InsertStep
<1> QED BY <1>1, <1>2, <1>3, <1>4 DEF Next

LEMMA SInvInvariant == Spec => []SInv
<1>1. Init => SInv
  <2> SUFFICES ASSUME Init PROVE SInv OBVIOUS
  <2>1. ckpts = <<>> /\ block = 1 BY DEF Init
  <2>2. <<>> \in Lists /\ Len(<<>>) = 0 BY DEF Lists
  <2> QED BY <2>1, <2>2 DEF SInv, InOrder, Sorted, UpTo
<1>2. SInv /\ [Next]_searchVars => SInv' BY SearchStep
<1> QED BY <1>1, <1>2, PTL DEF Spec

(* Lists are always in the order that the binary searches rely on, whatever is   *)
(* pushed at whatever keys (_insert). *)
THEOREM ListsInOrder == Spec => []InOrder
<1>1. SInv => InOrder BY DEF SInv
<1> QED BY <1>1, SInvInvariant, PTL

(* A push returns the value before it and the value after it (_insert). *)
THEOREM PushesReturnBoth == Spec => PushReturnsBoth
<1>1. SInv /\ [Next]_searchVars =>
        [<<ckpts, returned>>' # <<ckpts, returned>> =>
           returned' = [previous |-> Latest(ckpts), current |-> Latest(ckpts')]]_searchVars
  BY SearchStep
<1> QED BY <1>1, SInvInvariant, PTL DEF Spec, PushReturnsBoth

(* Casts return what they are given or revert, for types of any size (SafeCast). *)
THEOREM CastsLoseNothing == Spec => []CastsAreExact
<1>1. ASSUME SInv PROVE CastsAreExact
  <2>1. block \in Nat \ {0} /\ 2 * block \in Nat \ {0} BY <1>1 DEF SInv
  <2> SUFFICES ASSUME NEW n \in 0..(2 * (2 * block))
               PROVE  /\ Exact(ToUintDownCast(n, 2 * block), n, UintOf(2 * block))
                      /\ \A v \in {n, -n} :
                           Exact(ToIntDownCast(v, 2 * block), v, IntOf(2 * block))
                      /\ n \in UintOf(2 * block) =>
                           /\ Exact(ToInt(n, 2 * block), n, IntOf(2 * block))
                           /\ n \in IntOf(2 * block) =>
                                Exact(ToUint(ToInt(n, 2 * block).value, 2 * block), n,
                                      UintOf(2 * block))
                      /\ -n \in IntOf(2 * block) =>
                           Exact(ToUint(-n, 2 * block), -n, UintOf(2 * block))
    BY DEF CastsAreExact
  <2>2. n \in Nat /\ n \in Int /\ -n \in Int BY <2>1
  <2>3. Exact(ToUintDownCast(n, 2 * block), n, UintOf(2 * block)) BY <2>1, <2>2, UnsignedCast
  <2>4. \A v \in {n, -n} : Exact(ToIntDownCast(v, 2 * block), v, IntOf(2 * block))
    BY <2>1, <2>2, SignedCast
  <2>5. n \in UintOf(2 * block) => Exact(ToInt(n, 2 * block), n, IntOf(2 * block))
    BY <2>1, ToSigned
  <2>6. n \in UintOf(2 * block) /\ n \in IntOf(2 * block)
          => Exact(ToUint(ToInt(n, 2 * block).value, 2 * block), n, UintOf(2 * block))
    <3>1. n \in UintOf(2 * block) /\ n \in IntOf(2 * block) => ToInt(n, 2 * block).value = n
      BY <2>5 DEF Exact
    <3> QED BY <2>1, <3>1, ToUnsigned
  <2>7. -n \in IntOf(2 * block) => Exact(ToUint(-n, 2 * block), -n, UintOf(2 * block))
    BY <2>1, ToUnsigned
  <2> QED BY <2>3, <2>4, <2>5, <2>6, <2>7
<1> QED BY <1>1, SInvInvariant, PTL

--------------------------------------------------------------------------------
(* The binary search.  Left is the set of indices at which it goes on to the    *)
(* left: with an index it has every later one, because the list is in order.    *)

Middle(low, high) == (low + high) \div 2

Pairs(n) == (0..n) \X (0..n)

(* g is the loop over an array of n elements. *)
IsSearch(g, Left, n) ==
  g = [r \in Pairs(n) |->
         IF r[1] >= r[2] THEN r[2]
         ELSE IF Middle(r[1], r[2]) \in Left THEN g[<<r[1], Middle(r[1], r[2])>>]
         ELSE g[<<Middle(r[1], r[2]) + 1, r[2]>>]]

(* i is the first index of [low, high] in Left, high if there is none. *)
First(i, Left, low, high) ==
  /\ i \in low..high
  /\ i < high => i \in Left
  /\ \A j \in low..(i - 1) : j \notin Left

ToTheEnd(Left, n) ==
  /\ Left \subseteq 0..(n - 1)
  /\ \A i \in Left, j \in 0..(n - 1) : i <= j => j \in Left

LEMMA MiddleIsBetween ==
  ASSUME NEW low \in Nat, NEW high \in Nat, low < high
  PROVE  /\ Middle(low, high) \in low..(high - 1)
         /\ Middle(low, high) \in Nat
BY DEF Middle

(* What is first in the half that the loop goes on with is first in the whole. *)
LEMMA HalfIsEnough ==
  ASSUME NEW n \in Nat, NEW Left, ToTheEnd(Left, n), NEW low \in 0..n, NEW high \in 0..n,
         low < high, NEW m \in low..(high - 1), NEW i
  PROVE  /\ m \in Left /\ First(i, Left, low, m) => First(i, Left, low, high)
         /\ m \notin Left /\ First(i, Left, m + 1, high) => First(i, Left, low, high)
<1>1. ASSUME m \in Left, First(i, Left, low, m) PROVE First(i, Left, low, high)
  <2>1. i \in low..m /\ (i < m => i \in Left) /\ \A j \in low..(i - 1) : j \notin Left
    BY <1>1 DEF First
  <2>2. i \in Left BY <1>1, <2>1
  <2>3. i \in low..high BY <2>1
  <2> QED BY <2>1, <2>2, <2>3 DEF First
<1>2. ASSUME m \notin Left, First(i, Left, m + 1, high) PROVE First(i, Left, low, high)
  <2>1. i \in (m + 1)..high /\ (i < high => i \in Left)
        /\ \A j \in (m + 1)..(i - 1) : j \notin Left
    BY <1>2 DEF First
  <2>2. ASSUME NEW j \in low..m PROVE j \notin Left
    <3>1. m \in 0..(n - 1) /\ j <= m OBVIOUS
    <3> QED BY <1>2, <3>1 DEF ToTheEnd
  <2>3. i \in low..high BY <2>1
  <2>4. \A j \in low..(i - 1) : j \in low..m \/ j \in (m + 1)..(i - 1) BY <2>1
  <2> QED BY <2>1, <2>2, <2>3, <2>4 DEF First
<1> QED BY <1>1, <1>2

LEMMA FirstExists ==
  ASSUME NEW n \in Nat, NEW Left, NEW low \in 0..n, NEW high \in 0..n, low <= high
  PROVE  /\ \E i : First(i, Left, low, high)
         /\ \A i, j : First(i, Left, low, high) /\ First(j, Left, low, high) => i = j
<1> DEFINE T == {i \in low..high : i = high \/ i \in Left}
<1>1. T \subseteq Nat /\ T # {} OBVIOUS
<1>2. PICK i \in T : \A j \in T : i <= j
  <2> HIDE DEF T
  <2> QED BY <1>1, LeastNumber
<1>3. i \in low..high /\ (i < high => i \in Left) OBVIOUS
<1>4. ASSUME NEW j \in low..(i - 1) PROVE j \notin Left
  <2>1. j \in low..high /\ ~(i <= j) BY <1>3
  <2> QED BY <1>2, <2>1
<1>5. First(i, Left, low, high) BY <1>3, <1>4 DEF First
<1>6. ASSUME NEW k, NEW j, First(k, Left, low, high), First(j, Left, low, high), k # j
      PROVE  FALSE
  <2>1. k \in low..high /\ j \in low..high BY <1>6 DEF First
  <2>2. CASE k < j
    <3>1. k \in low..(j - 1) /\ k < high BY <2>1, <2>2
    <3> QED BY <1>6, <3>1 DEF First
  <2>3. CASE j < k
    <3>1. j \in low..(k - 1) /\ j < high BY <2>1, <2>3
    <3> QED BY <1>6, <3>1 DEF First
  <2> QED BY <1>6, <2>1, <2>2, <2>3
<1> QED BY <1>5, <1>6

(* The recursion defines the loop: the function that returns the first index    *)
(* follows it.                                                                   *)
LEMMA SearchExists ==
  ASSUME NEW n \in Nat, NEW Left, ToTheEnd(Left, n)
  PROVE  \E g : IsSearch(g, Left, n)
<1> DEFINE F(r) == IF r[1] >= r[2] THEN r[2] ELSE CHOOSE i : First(i, Left, r[1], r[2])
           g == [r \in Pairs(n) |-> F(r)]
<1>1. ASSUME NEW low \in 0..n, NEW high \in 0..n, low <= high
      PROVE  First(g[<<low, high>>], Left, low, high)
  <2>1. <<low, high>> \in Pairs(n) BY DEF Pairs
  <2>2. CASE low < high
    <3>1. g[<<low, high>>] = CHOOSE i : First(i, Left, low, high) BY <2>1, <2>2
    <3>2. \E i : First(i, Left, low, high) BY <1>1, FirstExists
    <3> QED BY <3>1, <3>2
  <2>3. CASE low = high
    <3>1. g[<<low, high>>] = high BY <2>1, <2>3
    <3>2. high \in low..high /\ low..(high - 1) = {} BY <2>3
    <3>3. First(high, Left, low, high) BY <3>2 DEF First
    <3> QED BY <3>1, <3>3
  <2> QED BY <1>1, <2>2, <2>3
<1>2. ASSUME NEW low \in 0..n, NEW high \in 0..n
      PROVE  g[<<low, high>>]
               = IF low >= high THEN high
                 ELSE IF Middle(low, high) \in Left THEN g[<<low, Middle(low, high)>>]
                 ELSE g[<<Middle(low, high) + 1, high>>]
  <2>1. CASE low >= high
    <3>1. <<low, high>> \in Pairs(n) BY DEF Pairs
    <3> QED BY <2>1, <3>1
  <2>2. CASE low < high
    <3> DEFINE m == Middle(low, high)
    <3>1. m \in low..(high - 1) BY <2>2, MiddleIsBetween
    <3>2. First(g[<<low, high>>], Left, low, high) BY <1>1, <2>2
    <3> HIDE DEF g, m
    <3>3. CASE m \in Left
      <4>1. m \in 0..n /\ low <= m BY <3>1
      <4>2. First(g[<<low, m>>], Left, low, m) BY <1>1, <4>1
      <4>3. First(g[<<low, m>>], Left, low, high) BY <2>2, <3>1, <3>3, <4>2, HalfIsEnough
      <4>4. g[<<low, m>>] = g[<<low, high>>] BY <2>2, <3>2, <4>3, FirstExists
      <4> QED BY <2>2, <3>3, <4>4 DEF m
    <3>4. CASE m \notin Left
      <4>1. m + 1 \in 0..n /\ m + 1 <= high BY <3>1
      <4>2. First(g[<<m + 1, high>>], Left, m + 1, high) BY <1>1, <4>1
      <4>3. First(g[<<m + 1, high>>], Left, low, high) BY <2>2, <3>1, <3>4, <4>2, HalfIsEnough
      <4>4. g[<<m + 1, high>>] = g[<<low, high>>] BY <2>2, <3>2, <4>3, FirstExists
      <4> QED BY <2>2, <3>4, <4>4 DEF m
    <3> QED BY <3>3, <3>4
  <2> QED BY <2>1, <2>2
<1>3. \A r \in Pairs(n) :
        g[r] = IF r[1] >= r[2] THEN r[2]
               ELSE IF Middle(r[1], r[2]) \in Left THEN g[<<r[1], Middle(r[1], r[2])>>]
               ELSE g[<<Middle(r[1], r[2]) + 1, r[2]>>]
  <2> SUFFICES ASSUME NEW r \in Pairs(n)
               PROVE  g[r] = IF r[1] >= r[2] THEN r[2]
                             ELSE IF Middle(r[1], r[2]) \in Left
                                  THEN g[<<r[1], Middle(r[1], r[2])>>]
                             ELSE g[<<Middle(r[1], r[2]) + 1, r[2]>>]
    OBVIOUS
  <2>1. r[1] \in 0..n /\ r[2] \in 0..n /\ r = <<r[1], r[2]>> BY DEF Pairs
  <2> HIDE DEF g
  <2> QED BY <1>2, <2>1
<1>4. g = [r \in Pairs(n) |-> g[r]] OBVIOUS
<1> HIDE DEF g
<1> QED BY <1>3, <1>4 DEF IsSearch

(* The loop returns the first index in Left: by induction on the range.         *)
LEMMA SearchFinds ==
  ASSUME NEW n \in Nat, NEW Left, ToTheEnd(Left, n), NEW g, IsSearch(g, Left, n),
         NEW low \in 0..n, NEW high \in 0..n, low <= high
  PROVE  First(g[<<low, high>>], Left, low, high)
<1> DEFINE Wrong(d) == \E l, h \in 0..n : /\ l <= h /\ h - l = d
                                          /\ ~First(g[<<l, h>>], Left, l, h)
           T == {d \in Nat : Wrong(d)}
<1> SUFFICES ASSUME ~First(g[<<low, high>>], Left, low, high) PROVE FALSE
  OBVIOUS
<1>1. T \subseteq Nat /\ T # {}
  <2>1. high - low \in Nat /\ Wrong(high - low) OBVIOUS
  <2> QED BY <2>1
<1>2. PICK d \in T : \A e \in T : d <= e
  <2> HIDE DEF T
  <2> QED BY <1>1, LeastNumber
<1>3. PICK l \in 0..n, h \in 0..n : l <= h /\ h - l = d /\ ~First(g[<<l, h>>], Left, l, h)
  BY <1>2
<1>4. ASSUME NEW a \in 0..n, NEW b \in 0..n, a <= b, b - a < d
      PROVE  First(g[<<a, b>>], Left, a, b)
  <2>1. b - a \in Nat /\ d \in Nat BY <1>3, <1>4
  <2>2. b - a \notin T
    <3> HIDE DEF T
    <3> QED BY <1>2, <1>4, <2>1
  <2> QED BY <1>4, <2>1, <2>2
<1> HIDE DEF T, Wrong
<1>5. <<l, h>> \in Pairs(n) BY DEF Pairs
<1>6. g[<<l, h>>] = IF l >= h THEN h
                    ELSE IF Middle(l, h) \in Left THEN g[<<l, Middle(l, h)>>]
                    ELSE g[<<Middle(l, h) + 1, h>>]
  BY <1>5 DEF IsSearch
<1>7. CASE l = h
  <2>1. g[<<l, h>>] = h /\ h \in l..h /\ l..(h - 1) = {} BY <1>6, <1>7
  <2> QED BY <1>3, <2>1 DEF First
<1>8. CASE l < h
  <2> DEFINE m == Middle(l, h)
  <2>1. m \in l..(h - 1) BY <1>8, MiddleIsBetween
  <2>2. g[<<l, h>>] = IF m \in Left THEN g[<<l, m>>] ELSE g[<<m + 1, h>>] BY <1>6, <1>8
  <2> HIDE DEF m
  <2>3. CASE m \in Left
    <3>1. m \in 0..n /\ l <= m /\ m - l < d BY <1>3, <2>1
    <3>2. First(g[<<l, m>>], Left, l, m) BY <1>4, <3>1
    <3> QED BY <1>3, <1>8, <2>1, <2>2, <2>3, <3>2, HalfIsEnough
  <2>4. CASE m \notin Left
    <3>1. m + 1 \in 0..n /\ m + 1 <= h /\ h - (m + 1) < d BY <1>3, <2>1
    <3>2. First(g[<<m + 1, h>>], Left, m + 1, h) BY <1>4, <3>1
    <3> QED BY <1>3, <1>8, <2>1, <2>2, <2>4, <3>2, HalfIsEnough
  <2> QED BY <2>3, <2>4
<1> QED BY <1>3, <1>7, <1>8

(* The two loops of the code.  The first index after block b ... *)
UpperBody(g, c, b) ==
  [range \in (0..Len(c)) \X (0..Len(c)) |->
     LET low == range[1]
         high == range[2]
         mid == (low + high) \div 2
     IN IF low >= high THEN high
        ELSE IF FromBlock(c, mid) > b THEN g[<<low, mid>>]
        ELSE g[<<mid + 1, high>>]]

After(c, b) == {i \in 0..(Len(c) - 1) : FromBlock(c, i) > b}

LEMMA UpperFollows ==
  ASSUME NEW c, Len(c) \in Nat, NEW b, NEW g
  PROVE  g = UpperBody(g, c, b) <=> IsSearch(g, After(c, b), Len(c))
<1> DEFINE Search == [r \in Pairs(Len(c)) |->
         IF r[1] >= r[2] THEN r[2]
         ELSE IF Middle(r[1], r[2]) \in After(c, b) THEN g[<<r[1], Middle(r[1], r[2])>>]
         ELSE g[<<Middle(r[1], r[2]) + 1, r[2]>>]]
<1>1. UpperBody(g, c, b) = Search
  <2>1. ASSUME NEW r \in Pairs(Len(c)) PROVE UpperBody(g, c, b)[r] = Search[r]
    <3>1. r[1] \in 0..Len(c) /\ r[2] \in 0..Len(c) BY DEF Pairs
    <3>2. CASE r[1] >= r[2] BY <3>2 DEF UpperBody, Pairs
    <3>3. CASE r[1] < r[2]
      <4>1. Middle(r[1], r[2]) \in 0..(Len(c) - 1) BY <3>1, <3>3 DEF Middle
      <4>2. FromBlock(c, Middle(r[1], r[2])) > b <=> Middle(r[1], r[2]) \in After(c, b)
        BY <4>1 DEF After
      <4>3. Middle(r[1], r[2]) = (r[1] + r[2]) \div 2 BY DEF Middle
      <4>4. ~(r[1] >= r[2]) BY <3>1, <3>3
      <4>5. UpperBody(g, c, b)[r]
              = IF FromBlock(c, Middle(r[1], r[2])) > b THEN g[<<r[1], Middle(r[1], r[2])>>]
                ELSE g[<<Middle(r[1], r[2]) + 1, r[2]>>]
        BY <4>3, <4>4 DEF UpperBody, Pairs
      <4> QED BY <4>2, <4>4, <4>5
    <3> QED BY <3>1, <3>2, <3>3
  <2>2. /\ UpperBody(g, c, b) = [r \in Pairs(Len(c)) |-> UpperBody(g, c, b)[r]]
        /\ Search = [r \in Pairs(Len(c)) |-> Search[r]]
    BY DEF UpperBody, Pairs
  <2> HIDE DEF Search
  <2> QED BY <2>1, <2>2
<1> QED BY <1>1 DEF IsSearch

LEMMA AfterToTheEnd ==
  ASSUME NEW c \in Lists, Sorted(c), NEW b \in Int
  PROVE  /\ ToTheEnd(After(c, b), Len(c))
         /\ \A i \in 0..(Len(c) - 1) : FromBlock(c, i) \in Nat
<1>1. \A i \in 0..(Len(c) - 1) : FromBlock(c, i) \in Nat
  <2> SUFFICES ASSUME NEW i \in 0..(Len(c) - 1) PROVE FromBlock(c, i) \in Nat
    OBVIOUS
  <2>1. i + 1 \in 1..Len(c) BY DEF Lists
  <2> QED BY <2>1, Fields DEF FromBlock
<1>2. ASSUME NEW i \in After(c, b), NEW j \in 0..(Len(c) - 1), i <= j
      PROVE  j \in After(c, b)
  <2>1. Len(c) \in Nat BY DEF Lists
  <2>2. i \in 0..(Len(c) - 1) /\ FromBlock(c, i) > b BY DEF After
  <2>3. i < j => FromBlock(c, i) < FromBlock(c, j)
    <3>1. i + 1 \in 1..Len(c) /\ j + 1 \in 1..Len(c) BY <2>1, <2>2
    <3>2. i < j => i + 1 < j + 1 BY <2>1, <2>2
    <3> QED BY <3>1, <3>2 DEF Sorted, FromBlock
  <2>4. FromBlock(c, i) \in Nat /\ FromBlock(c, j) \in Nat BY <1>1, <2>2
  <2>5. i = j \/ i < j BY <1>2, <2>1, <2>2
  <2>6. FromBlock(c, j) > b BY <2>2, <2>3, <2>4, <2>5
  <2> QED BY <2>6 DEF After
<1> QED BY <1>1, <1>2 DEF ToTheEnd, After

LEMMA UpperFinds ==
  ASSUME NEW c \in Lists, Sorted(c), NEW b \in Int,
         NEW from \in 0..Len(c), NEW to \in 0..Len(c), from <= to
  PROVE  First(UpperBinaryLookup(c, b, from, to), After(c, b), from, to)
<1> DEFINE g == CHOOSE search : search = UpperBody(search, c, b)
<1>1. Len(c) \in Nat /\ ToTheEnd(After(c, b), Len(c)) BY AfterToTheEnd DEF Lists
<1>2. \E search : search = UpperBody(search, c, b)
  BY <1>1, SearchExists, UpperFollows
<1>3. g = UpperBody(g, c, b) BY <1>2
<1>4. UpperBinaryLookup(c, b, from, to) = g[<<from, to>>]
  BY DEF UpperBinaryLookup, UpperBody
<1> HIDE DEF g
<1>5. IsSearch(g, After(c, b), Len(c)) BY <1>1, <1>3, UpperFollows
<1> QED BY <1>1, <1>4, <1>5, SearchFinds

(* ... and the first index at key b or after it. *)
LowerBody(g, c, b) ==
  [range \in (0..Len(c)) \X (0..Len(c)) |->
     LET low == range[1]
         high == range[2]
         mid == (low + high) \div 2
     IN IF low >= high THEN high
        ELSE IF FromBlock(c, mid) < b THEN g[<<mid + 1, high>>]
        ELSE g[<<low, mid>>]]

NotBefore(c, b) == {i \in 0..(Len(c) - 1) : ~(FromBlock(c, i) < b)}

LEMMA LowerFollows ==
  ASSUME NEW c, Len(c) \in Nat, NEW b, NEW g
  PROVE  g = LowerBody(g, c, b) <=> IsSearch(g, NotBefore(c, b), Len(c))
<1> DEFINE Search == [r \in Pairs(Len(c)) |->
         IF r[1] >= r[2] THEN r[2]
         ELSE IF Middle(r[1], r[2]) \in NotBefore(c, b) THEN g[<<r[1], Middle(r[1], r[2])>>]
         ELSE g[<<Middle(r[1], r[2]) + 1, r[2]>>]]
<1>1. LowerBody(g, c, b) = Search
  <2>1. ASSUME NEW r \in Pairs(Len(c)) PROVE LowerBody(g, c, b)[r] = Search[r]
    <3>1. r[1] \in 0..Len(c) /\ r[2] \in 0..Len(c) BY DEF Pairs
    <3>2. CASE r[1] >= r[2] BY <3>2 DEF LowerBody, Pairs
    <3>3. CASE r[1] < r[2]
      <4>1. Middle(r[1], r[2]) \in 0..(Len(c) - 1) BY <3>1, <3>3 DEF Middle
      <4>2. ~(FromBlock(c, Middle(r[1], r[2])) < b) <=> Middle(r[1], r[2]) \in NotBefore(c, b)
        BY <4>1 DEF NotBefore
      <4>3. Middle(r[1], r[2]) = (r[1] + r[2]) \div 2 BY DEF Middle
      <4>4. ~(r[1] >= r[2]) BY <3>1, <3>3
      <4>5. LowerBody(g, c, b)[r]
              = IF FromBlock(c, Middle(r[1], r[2])) < b THEN g[<<Middle(r[1], r[2]) + 1, r[2]>>]
                ELSE g[<<r[1], Middle(r[1], r[2])>>]
        BY <4>3, <4>4 DEF LowerBody, Pairs
      <4> QED BY <4>2, <4>4, <4>5
    <3> QED BY <3>1, <3>2, <3>3
  <2>2. /\ LowerBody(g, c, b) = [r \in Pairs(Len(c)) |-> LowerBody(g, c, b)[r]]
        /\ Search = [r \in Pairs(Len(c)) |-> Search[r]]
    BY DEF LowerBody, Pairs
  <2> HIDE DEF Search
  <2> QED BY <2>1, <2>2
<1> QED BY <1>1 DEF IsSearch

LEMMA LowerFinds ==
  ASSUME NEW c \in Lists, Sorted(c), NEW b \in Int
  PROVE  First(LowerBinaryLookup(c, b, 0, Len(c)), NotBefore(c, b), 0, Len(c))
<1> DEFINE g == CHOOSE search : search = LowerBody(search, c, b)
<1>1. Len(c) \in Nat /\ ToTheEnd(NotBefore(c, b), Len(c))
  <2>1. Len(c) \in Nat BY DEF Lists
  <2>2. NotBefore(c, b) = After(c, b - 1)
    <3>1. \A i \in 0..(Len(c) - 1) : FromBlock(c, i) \in Nat BY AfterToTheEnd
    <3>2. \A k \in Nat : ~(k < b) <=> k > b - 1 OBVIOUS
    <3>3. \A i \in 0..(Len(c) - 1) : ~(FromBlock(c, i) < b) <=> FromBlock(c, i) > b - 1
      BY <3>1, <3>2
    <3> QED BY <3>3 DEF NotBefore, After
  <2>3. b - 1 \in Int OBVIOUS
  <2> QED BY <2>1, <2>2, <2>3, AfterToTheEnd
<1>2. \E search : search = LowerBody(search, c, b)
  BY <1>1, SearchExists, LowerFollows
<1>3. g = LowerBody(g, c, b) BY <1>2
<1>4. LowerBinaryLookup(c, b, 0, Len(c)) = g[<<0, Len(c)>>]
  BY DEF LowerBinaryLookup, LowerBody
<1> HIDE DEF g
<1>5. IsSearch(g, NotBefore(c, b), Len(c)) BY <1>1, <1>3, LowerFollows
<1>6. 0 \in 0..Len(c) /\ Len(c) \in 0..Len(c) /\ 0 <= Len(c) BY <1>1
<1> QED BY <1>1, <1>4, <1>5, <1>6, SearchFinds

--------------------------------------------------------------------------------
(* What the searches return. *)

(* The checkpoint before the first one after b is the one in force at b. *)
LEMMA FirstIsLookup ==
  ASSUME NEW c \in Lists, Sorted(c), NEW b \in Int,
         NEW r, First(r, After(c, b), 0, Len(c))
  PROVE  ValueBefore(c, r) = Lookup(c, b)
<1>0. Len(c) \in Nat BY DEF Lists
<1>1. /\ r \in 0..Len(c) /\ (r < Len(c) => r \in After(c, b))
      /\ \A j \in 0..(r - 1) : j \notin After(c, b)
  BY DEF First
<1>2. \A i \in 1..Len(c) : c[i].fromBlock \in Nat BY Fields
<1>3. ASSUME NEW i \in 1..Len(c) PROVE c[i].fromBlock > b <=> i > r
  <2>1. i - 1 \in 0..(Len(c) - 1) BY <1>0
  <2>2. FromBlock(c, i - 1) = c[i].fromBlock BY <1>0 DEF FromBlock
  <2>3. i - 1 \in After(c, b) <=> c[i].fromBlock > b BY <2>1, <2>2 DEF After
  <2>4. CASE i <= r
    <3>1. i - 1 \in 0..(r - 1) BY <1>0, <1>1, <2>4
    <3> QED BY <1>1, <2>3, <2>4, <3>1
  <2>5. CASE i > r
    <3>1. r < Len(c) /\ r <= i - 1 BY <1>0, <1>1, <2>5
    <3>2. r \in After(c, b) BY <1>1, <3>1
    <3>3. i - 1 \in After(c, b) BY <2>1, <3>1, <3>2, AfterToTheEnd DEF ToTheEnd
    <3> QED BY <2>3, <2>5, <3>3
  <2> QED BY <1>0, <1>1, <2>4, <2>5
<1>4. CASE r = 0
  <2>1. InForce(c, b) = {}
    <3>1. \A i \in 1..Len(c) : ~(c[i].fromBlock <= b) BY <1>0, <1>2, <1>3, <1>4
    <3> QED BY <3>1 DEF InForce
  <2>2. ValuesAt(c, b) = {} BY <2>1 DEF ValuesAt
  <2> QED BY <1>4, <2>2 DEF ValueBefore, Lookup
<1>5. CASE r # 0
  <2>1. r \in 1..Len(c) BY <1>1, <1>5
  <2>2. r \in InForce(c, b)
    <3>1. c[r].fromBlock <= b BY <1>2, <1>3, <2>1
    <3>2. \A j \in 1..Len(c) : j > r => c[j].fromBlock > b BY <1>3
    <3> QED BY <2>1, <3>1, <3>2 DEF InForce
  <2>3. ASSUME NEW i \in InForce(c, b) PROVE i = r
    <3>1. i \in 1..Len(c) /\ c[i].fromBlock <= b
          /\ \A j \in 1..Len(c) : j > i => c[j].fromBlock > b
      BY DEF InForce
    <3>2. ~(i > r) BY <1>2, <1>3, <3>1
    <3>3. ~(r > i) BY <1>3, <2>1, <3>1
    <3> QED BY <2>1, <3>1, <3>2, <3>3
  <2>4. ValuesAt(c, b) = {c[r].votes} BY <2>2, <2>3 DEF ValuesAt
  <2> QED BY <1>5, <2>4 DEF ValueBefore, Lookup
<1> QED BY <1>4, <1>5

LEMMA GetAtBlockIsLookup ==
  ASSUME NEW c \in Lists, Sorted(c), NEW b \in Int
  PROVE  GetAtBlock(c, b) = Lookup(c, b)
<1>1. Len(c) \in Nat BY DEF Lists
<1>2. First(UpperBinaryLookup(c, b, 0, Len(c)), After(c, b), 0, Len(c))
  BY <1>1, UpperFinds
<1> QED BY <1>2, FirstIsLookup DEF GetAtBlock

--------------------------------------------------------------------------------
(* The root of a positive number is positive and no larger than the number, so  *)
(* that the first probe of the token's search is an index of the array.         *)

Power(k) == Cardinality(SUBSET (1..k))

LEMMA Powers ==
  ASSUME NEW k \in Nat
  PROVE  /\ 2^k = Power(k) /\ Power(k) \in Nat
         /\ k < Power(k)
         /\ \A j \in 0..k : Power(j) <= Power(k)
<1>1. IsFiniteSet(1..k) /\ Cardinality(1..k) = k /\ IsFiniteSet(SUBSET (1..k))
  <2>1. IsFiniteSet(1..k) /\ Cardinality(1..k) = IF 1 > k THEN 0 ELSE k - 1 + 1
    BY FS_Interval
  <2>2. IsFiniteSet(SUBSET (1..k)) BY <2>1, FS_SUBSET
  <2> QED BY <2>1, <2>2
<1>2. 2^k = Power(k) BY <1>1, FS_SUBSET DEF Power
<1>3. Power(k) \in Nat BY <1>1, FS_CardinalityType DEF Power
<1>4. k < Power(k)
  <2> DEFINE ones == {{x} : x \in 1..k}
             single == [x \in 1..k |-> {x}]
  <2>1. single \in Surjection(1..k, ones) BY DEF Surjection
  <2>2. single \in Injection(1..k, ones) BY DEF Injection, IsInjective
  <2>3. IsFiniteSet(ones) /\ Cardinality(ones) = k
    BY <1>1, <2>1, <2>2, FS_Surjection
  <2>4. {} \notin ones OBVIOUS
  <2>5. IsFiniteSet(ones \cup {{}}) /\ Cardinality(ones \cup {{}}) = k + 1
    BY <2>3, <2>4, FS_AddElement
  <2>6. ones \cup {{}} \in SUBSET (SUBSET (1..k)) OBVIOUS
  <2> HIDE DEF ones
  <2>7. k + 1 <= Power(k) BY <1>1, <2>5, <2>6, FS_Subset DEF Power
  <2> QED BY <1>3, <2>7
<1>5. ASSUME NEW j \in 0..k PROVE Power(j) <= Power(k)
  <2>1. SUBSET (1..j) \in SUBSET (SUBSET (1..k)) OBVIOUS
  <2> QED BY <1>1, <2>1, FS_Subset DEF Power
<1> QED BY <1>2, <1>3, <1>4, <1>5

LEMMA Log2Exists ==
  ASSUME NEW n \in Nat \ {0}
  PROVE  Log2(n) \in 0..n /\ 2^Log2(n) <= n /\ n < 2^(Log2(n) + 1)
<1> DEFINE T == {k \in Nat : n < Power(k)}
<1>1. n \in T BY Powers
<1>2. PICK m \in T : \A k \in T : m <= k
  <2>1. T \subseteq Nat /\ T # {} BY <1>1
  <2> HIDE DEF T
  <2> QED BY <2>1, LeastNumber
<1>3. m \in Nat /\ n < Power(m) /\ m <= n BY <1>1, <1>2
<1>4. m # 0
  <2>1. SUBSET (1..0) = {{}} OBVIOUS
  <2>2. Power(0) = 1 BY <2>1, FS_Singleton DEF Power
  <2> QED BY <1>3, <2>2
<1>5. m - 1 \in 0..n /\ m - 1 \in Nat /\ ~(n < Power(m - 1)) BY <1>2, <1>3, <1>4
<1>6. 2^(m - 1) = Power(m - 1) /\ 2^m = Power(m) /\ Power(m - 1) \in Nat
  BY <1>3, <1>5, Powers
<1>7. (m - 1) + 1 = m BY <1>3
<1>8. 2^(m - 1) <= n /\ n < 2^((m - 1) + 1) BY <1>3, <1>5, <1>6, <1>7
<1> QED BY <1>5, <1>8 DEF Log2

LEMMA FirstGuessBounds ==
  ASSUME NEW n \in Nat \ {0}
  PROVE  FirstGuess(n) \in 1..n
<1> DEFINE k == Log2(n)
           j == k \div 2
<1>1. k \in Nat /\ 2^k <= n BY Log2Exists
<1> HIDE DEF k
<1>2. j \in Nat /\ j \in 0..k BY <1>1
<1> HIDE DEF j
<1>3. 2^j = Power(j) /\ 2^k = Power(k) /\ Power(j) \in Nat /\ Power(k) \in Nat
      /\ j < Power(j) /\ Power(j) <= Power(k)
  BY <1>1, <1>2, Powers
<1>4. Power(j) \in 1..n BY <1>1, <1>2, <1>3
<1> QED BY <1>3, <1>4 DEF FirstGuess, j, k

LEMMA Quotient ==
  ASSUME NEW n \in Nat \ {0}, NEW g \in 1..n
  PROVE  n \div g \in 1..n
<1> DEFINE q == n \div g
<1>1. q \in Int /\ n % g \in 0..(g - 1) /\ n = g * q + (n % g) OBVIOUS
<1> HIDE DEF q
<1>2. q >= 1
  <2> SUFFICES ASSUME q <= 0 PROVE FALSE
    BY <1>1
  <2>1. g * q <= 0 BY <1>1
  <2> QED BY <1>1, <2>1
<1>3. q <= n
  <2>1. g * q >= q BY <1>1, <1>2
  <2>2. g * q \in Int BY <1>1
  <2> QED BY <1>1, <2>1, <2>2
<1> QED BY <1>1, <1>2, <1>3 DEF q

LEMMA ImproveBounds ==
  ASSUME NEW n \in Nat \ {0}, NEW g \in 1..n
  PROVE  Improve(n, g) \in 1..n
<1> DEFINE q == n \div g
<1>1. q \in 1..n BY Quotient
<1> HIDE DEF q
<1>2. (g + q) \div 2 \in 1..n BY <1>1
<1> QED BY <1>2 DEF Improve, q

LEMMA SqrtBounds ==
  ASSUME NEW n \in Nat \ {0}
  PROVE  Sqrt(n) \in 1..n
<1>1. \A g \in 1..n : ImproveTwice(n, g) \in 1..n BY ImproveBounds DEF ImproveTwice
<1>2. Newton(n) \in 1..n BY <1>1, FirstGuessBounds, ImproveBounds DEF Newton
<1>3. n \div Newton(n) \in 1..n BY <1>2, Quotient
<1> QED BY <1>2, <1>3 DEF Sqrt

(* The token's search, which splits a long list at the probe first. *)
LEMMA CheckpointsLookupIsLookup ==
  ASSUME NEW c \in Lists, Sorted(c), NEW b \in Int
  PROVE  CheckpointsLookup(c, b) = Lookup(c, b)
<1> DEFINE n == Len(c)
           recent == n - Sqrt(n)
<1>0. n \in Nat /\ ToTheEnd(After(c, b), n) BY AfterToTheEnd DEF Lists
<1>1. CASE n <= 5
  <2>1. CheckpointsLookup(c, b) = GetAtBlock(c, b)
    BY <1>1 DEF CheckpointsLookup, GetAtBlock
  <2> QED BY <2>1, GetAtBlockIsLookup
<1>2. CASE ~(n <= 5)
  <2>1. recent \in 0..(n - 1)
    <3>1. n \in Nat \ {0} BY <1>0, <1>2
    <3>2. Sqrt(n) \in 1..n BY <3>1, SqrtBounds
    <3> QED BY <3>1, <3>2
  <2>2. FromBlock(c, recent) > b <=> recent \in After(c, b) BY <2>1 DEF After
  <2>3. CheckpointsLookup(c, b)
          = ValueBefore(c, IF FromBlock(c, recent) > b
                           THEN UpperBinaryLookup(c, b, 0, recent)
                           ELSE UpperBinaryLookup(c, b, recent + 1, n))
    BY <1>2 DEF CheckpointsLookup
  <2> HIDE DEF recent
  <2>4. CASE recent \in After(c, b)
    <3> DEFINE r == UpperBinaryLookup(c, b, 0, recent)
    <3>1. First(r, After(c, b), 0, recent) BY <1>0, <2>1, UpperFinds
    <3> HIDE DEF r
    <3>2. r \in 0..recent /\ (r < recent => r \in After(c, b))
          /\ \A j \in 0..(r - 1) : j \notin After(c, b)
      BY <3>1 DEF First
    <3>3. r = recent \/ r < recent BY <2>1, <3>2
    <3>4. r \in After(c, b) BY <2>4, <3>2, <3>3
    <3>5. r \in 0..n BY <1>0, <2>1, <3>2
    <3>6. First(r, After(c, b), 0, n) BY <3>2, <3>4, <3>5 DEF First
    <3>7. CheckpointsLookup(c, b) = ValueBefore(c, r) BY <2>2, <2>3, <2>4 DEF r
    <3> QED BY <3>6, <3>7, FirstIsLookup
  <2>5. CASE recent \notin After(c, b)
    <3> DEFINE r == UpperBinaryLookup(c, b, recent + 1, n)
    <3>1. recent + 1 \in 0..n /\ recent + 1 <= n /\ n \in 0..n BY <1>0, <2>1
    <3>2. First(r, After(c, b), recent + 1, n) BY <3>1, UpperFinds
    <3> HIDE DEF r
    <3>3. r \in (recent + 1)..n /\ (r < n => r \in After(c, b))
          /\ \A j \in (recent + 1)..(r - 1) : j \notin After(c, b)
      BY <3>2 DEF First
    <3>4. ASSUME NEW j \in 0..(r - 1) PROVE j \notin After(c, b)
      <4>1. CASE j > recent
        <5>1. j \in (recent + 1)..(r - 1) BY <2>1, <3>3, <4>1
        <5> QED BY <3>3, <5>1
      <4>2. CASE j <= recent BY <1>0, <2>1, <2>5, <4>2 DEF ToTheEnd
      <4>3. j \in Int /\ recent \in Int BY <2>1, <3>3
      <4> QED BY <4>1, <4>2, <4>3
    <3>5. r \in 0..n BY <2>1, <3>3
    <3>6. First(r, After(c, b), 0, n) BY <3>3, <3>4, <3>5 DEF First
    <3>7. CheckpointsLookup(c, b) = ValueBefore(c, r) BY <2>2, <2>3, <2>5 DEF r
    <3> QED BY <3>6, <3>7, FirstIsLookup
  <2> QED BY <2>4, <2>5
<1> QED BY <1>1, <1>2

LEMMA OptimisticLookupIsLookup ==
  ASSUME NEW c \in Lists, Sorted(c), NEW b \in Int
  PROVE  OptimisticLookup(c, b) = Lookup(c, b)
<1>1. Len(c) \in Nat /\ \A i \in 1..Len(c) : c[i].fromBlock \in Nat BY Fields DEF Lists
<1>2. CASE c # <<>> /\ c[Len(c)].fromBlock <= b
  <2>1. Len(c) \in 1..Len(c) BY <1>1, <1>2 DEF Lists
  <2>2. ASSUME NEW j \in 0..(Len(c) - 1) PROVE j \notin After(c, b)
    <3>1. j + 1 \in 1..Len(c) BY <1>1
    <3>2. j + 1 = Len(c) \/ j + 1 < Len(c) BY <1>1
    <3>3. j + 1 < Len(c) => c[j + 1].fromBlock < c[Len(c)].fromBlock
      BY <2>1, <3>1 DEF Sorted
    <3>4. c[j + 1].fromBlock \in Nat /\ c[Len(c)].fromBlock \in Nat BY <1>1, <2>1, <3>1
    <3>5. ~(c[j + 1].fromBlock > b) BY <1>2, <3>2, <3>3, <3>4
    <3> QED BY <3>5 DEF After, FromBlock
  <2>3. Len(c) \in 0..Len(c) /\ ~(Len(c) < Len(c)) BY <1>1
  <2>4. First(Len(c), After(c, b), 0, Len(c)) BY <2>2, <2>3 DEF First
  <2>5. ValueBefore(c, Len(c)) = Latest(c) BY <1>2, <2>1 DEF ValueBefore, Latest
  <2> QED BY <1>2, <2>4, <2>5, FirstIsLookup DEF OptimisticLookup
<1>3. CASE ~(c # <<>> /\ c[Len(c)].fromBlock <= b)
  BY <1>3, GetAtBlockIsLookup DEF OptimisticLookup
<1> QED BY <1>2, <1>3

(* The token's search finds the value at the end of every block, for histories   *)
(* of any length: the probe at length - sqrt(length) is always an index of the   *)
(* list and always on the right side (ERC20Votes._checkpointsLookup).            *)
THEOREM TokenSearchIsLookup == Spec => []SearchIsLookup
<1>1. SInv => SearchIsLookup
  BY CheckpointsLookupIsLookup DEF SInv, InOrder, SearchIsLookup
<1> QED BY <1>1, SInvInvariant, PTL

(* The quorum numerator's shortcut agrees with the search. *)
THEOREM QuorumShortcutIsLookup == Spec => []ShortcutIsLookup
<1>1. SInv => ShortcutIsLookup
  BY OptimisticLookupIsLookup DEF SInv, InOrder, ShortcutIsLookup
<1> QED BY <1>1, SInvInvariant, PTL

--------------------------------------------------------------------------------
(* What was recorded. *)

(* The past of a History is what its blocks ended with. *)
Remembers ==
  kind = "History" =>
    /\ recorded \in Seq(Nat) /\ Len(recorded) = block
    /\ \A b \in 0..(block - 1) : recorded[b + 1] = Lookup(ckpts, b)

LEMMA RememberStep ==
  ASSUME SInv, Remembers, [Next]_searchVars
  PROVE  Remembers'
<1>0. Values \subseteq Nat /\ ckpts \in Lists /\ block \in Nat \ {0}
  BY SearchAssumption DEF SInv
<1>1. CASE UNCHANGED searchVars BY <1>1 DEF searchVars, Remembers
<1>2. CASE Mine
  <2>1. /\ kind = "History" /\ UNCHANGED <<kind, ckpts>> /\ block' = block + 1
        /\ recorded' = Append(recorded, Latest(ckpts))
    BY <1>2 DEF Mine
  <2>2. /\ recorded \in Seq(Nat) /\ Len(recorded) = block
        /\ \A b \in 0..(block - 1) : recorded[b + 1] = Lookup(ckpts, b)
    BY <2>1 DEF Remembers
  <2>3. Latest(ckpts) \in Nat BY <1>0, LatestType DEF Lists
  <2>4. recorded' \in Seq(Nat) /\ Len(recorded') = block + 1 BY <2>1, <2>2, <2>3
  <2>5. ASSUME NEW b \in 0..block PROVE recorded'[b + 1] = Lookup(ckpts, b)
    <3>1. CASE b = block
      <4>1. Lookup(ckpts, block) = Latest(ckpts)
        BY <1>0, <2>1, LookupAtEnd DEF SInv, InOrder, Lists
      <4>2. recorded'[block + 1] = Latest(ckpts) BY <2>1, <2>2, <2>3
      <4> QED BY <3>1, <4>1, <4>2
    <3>2. CASE b # block
      <4>1. b \in 0..(block - 1) /\ b + 1 \in 1..Len(recorded) BY <1>0, <2>2, <3>2
      <4>2. recorded'[b + 1] = recorded[b + 1] BY <2>1, <2>2, <2>3, <4>1
      <4> QED BY <2>2, <4>1, <4>2
    <3> QED BY <3>1, <3>2
  <2>6. 0..(block' - 1) = 0..block BY <1>0, <2>1
  <2> QED BY <2>1, <2>4, <2>5, <2>6 DEF Remembers
<1>3. ASSUME kind = "History", NEW value \in Nat, PushValue(value),
             UNCHANGED <<kind, block, recorded>>
      PROVE  Remembers'
  <2>1. ToUint32(block).value = block BY <1>0, <1>3, KeysFit DEF PushValue
  <2>2. ToUint224(value).value = value BY <1>3, KeysFit DEF PushValue
  <2>3. ckpts' = WriteCheckpoint(ckpts, block, value)
    BY <1>3, <2>1, <2>2 DEF PushValue, Insert
  <2>4. ASSUME NEW b \in 0..(block - 1) PROVE Lookup(ckpts', b) = Lookup(ckpts, b)
    <3>1. b \in Nat /\ b < block /\ block \in Nat BY <1>0
    <3> QED BY <1>0, <2>3, <3>1, WriteKeepsPast DEF Lists
  <2> QED BY <1>3, <2>4 DEF Remembers
<1>4. CASE Record
  <2>1. PICK value \in Values :
          PushValue(value) \/ \E op \in {"add", "subtract"} : PushDelta(op, value)
    BY <1>4 DEF Record
  <2>2. kind = "History" /\ UNCHANGED <<kind, block, recorded>> BY <1>4 DEF Record
  <2>3. CASE PushValue(value) BY <1>0, <1>3, <2>2, <2>3
  <2>4. ASSUME NEW op \in {"add", "subtract"}, PushDelta(op, value)
        PROVE  \E n \in Nat : PushValue(n)
    <3>1. Latest(ckpts) \in Nat BY <1>0, LatestType DEF Lists
    <3>2. Applied(op, Latest(ckpts), value) \in Nat
      BY <1>0, <2>4, <3>1 DEF PushDelta, Applied
    <3> QED BY <2>4, <3>2 DEF PushDelta
  <2> QED BY <1>3, <2>1, <2>2, <2>3, <2>4
<1>5. CASE PushAt BY <1>5 DEF PushAt, Remembers
<1> QED BY <1>1, <1>2, <1>4, <1>5 DEF Next

(* A mined block is answered for ever with the value it ended with, by both     *)
(* searches, for every block whose number fits a key, and for no other.          *)
THEOREM HistoryRecordedForEver == Spec => []RecordedForEver
<1>1. Init => Remembers
  <2> SUFFICES ASSUME Init PROVE Remembers
    OBVIOUS
  <2>1. ckpts = <<>> /\ block = 1 /\ recorded = <<0>> BY DEF Init
  <2>2. Lookup(<<>>, 0) = 0 BY DEF Lookup, ValuesAt, InForce
  <2> QED BY <2>1, <2>2 DEF Remembers
<1>2. SInv /\ Remembers /\ [Next]_searchVars => Remembers' BY RememberStep
<1>3. ASSUME SInv, Remembers PROVE RecordedForEver
  <2> SUFFICES ASSUME kind = "History", NEW b \in 0..MaxBlock
               PROVE  /\ MayGetAtBlock(b) <=> b < block /\ b \in UintOf(KeySize)
                      /\ MayGetAtBlock(b)
                           => /\ GetAtBlock(ckpts, b) = recorded[b + 1]
                              /\ GetAtProbablyRecentBlock(ckpts, b) = recorded[b + 1]
    BY DEF RecordedForEver
  <2>1. b \in Nat /\ KeySize \in Nat \ {0} BY SearchAssumption
  <2>2. ~ToUint32(b).reverts <=> b \in UintOf(KeySize)
    BY <2>1, UnsignedCast DEF Exact, ToUint32
  <2>3. MayGetAtBlock(b) <=> b < block /\ b \in UintOf(KeySize) BY <2>2 DEF MayGetAtBlock
  <2>4. ASSUME MayGetAtBlock(b) PROVE recorded[b + 1] = Lookup(ckpts, b)
    <3>1. block \in Nat /\ b < block BY <1>3, <2>3, <2>4 DEF SInv
    <3>2. b \in 0..(block - 1) BY <2>1, <3>1
    <3> QED BY <1>3, <3>2 DEF Remembers
  <2>5. /\ GetAtBlock(ckpts, b) = Lookup(ckpts, b)
        /\ GetAtProbablyRecentBlock(ckpts, b) = Lookup(ckpts, b)
    BY <1>3, <2>1, GetAtBlockIsLookup, CheckpointsLookupIsLookup
       DEF SInv, InOrder, GetAtProbablyRecentBlock
  <2> QED BY <2>3, <2>4, <2>5
<1> QED BY <1>1, <1>2, <1>3, SInvInvariant, PTL DEF Spec

--------------------------------------------------------------------------------
(* Searches of a Trace. *)

(* Every key fits its type: a push with another reverts. *)
KeysFitType == UpTo(ckpts, KeySize - 1)

LEMMA WriteKeepsKeys ==
  ASSUME NEW c \in Lists, NEW key \in Nat, NEW value \in Nat, NEW top \in Nat,
         UpTo(c, top), key <= top
  PROVE  UpTo(WriteCheckpoint(c, key, value), top)
<1> DEFINE d == WriteCheckpoint(c, key, value)
           new == [fromBlock |-> key, votes |-> value]
<1> SUFFICES UpTo(d, top)
  OBVIOUS
<1>1. \A i \in 1..Len(c) : c[i].fromBlock <= top BY DEF UpTo
<1>2. CASE c # <<>> /\ c[Len(c)].fromBlock = key
  <2>1. d = [c EXCEPT ![Len(c)] = new] BY <1>2 DEF WriteCheckpoint
  <2>2. Len(d) = Len(c) /\ \A i \in 1..Len(c) : d[i] = IF i = Len(c) THEN new ELSE c[i]
    BY <2>1 DEF Lists
  <2> HIDE DEF d
  <2> QED BY <1>1, <2>2 DEF UpTo
<1>3. CASE ~(c # <<>> /\ c[Len(c)].fromBlock = key)
  <2>1. d = Append(c, new) BY <1>3 DEF WriteCheckpoint
  <2>2. /\ Len(c) \in Nat /\ Len(d) = Len(c) + 1
        /\ \A i \in 1..(Len(c) + 1) : d[i] = IF i = Len(c) + 1 THEN new ELSE c[i]
    BY <2>1 DEF Lists
  <2> HIDE DEF d
  <2>3. ASSUME NEW i \in 1..(Len(c) + 1) PROVE d[i].fromBlock <= top
    <3>1. CASE i = Len(c) + 1 BY <2>2, <3>1
    <3>2. CASE i # Len(c) + 1
      <4>1. i \in 1..Len(c) BY <2>2, <3>2
      <4> QED BY <1>1, <2>2, <3>2, <4>1
    <3> QED BY <3>1, <3>2
  <2> QED BY <2>2, <2>3 DEF UpTo
<1> QED BY <1>2, <1>3

LEMMA KeysStep ==
  ASSUME SInv, KeysFitType, [Next]_searchVars
  PROVE  KeysFitType'
<1>0. /\ Values \subseteq Nat /\ ckpts \in Lists /\ block \in Nat \ {0}
      /\ KeySize - 1 \in Nat
  BY SearchAssumption DEF SInv
<1>1. ASSUME NEW key \in Nat, NEW value \in Nat, key <= KeySize - 1, Insert(key, value)
      PROVE  KeysFitType'
  <2>1. ckpts' = WriteCheckpoint(ckpts, key, value) BY <1>1 DEF Insert
  <2>2. UpTo(WriteCheckpoint(ckpts, key, value), KeySize - 1)
    BY <1>0, <1>1, WriteKeepsKeys DEF KeysFitType
  <2> QED BY <2>1, <2>2 DEF KeysFitType
<1>2. ASSUME NEW value \in Nat, PushValue(value) PROVE KeysFitType'
  <2>1. ToUint32(block).value = block /\ ToUint224(value).value = value
    BY <1>0, <1>2, KeysFit DEF PushValue
  <2>2. block \in UintOf(KeySize)
    <3>1. KeySize \in Nat \ {0} /\ ~ToUint32(block).reverts
      BY <1>2, SearchAssumption DEF PushValue
    <3> QED BY <1>0, <3>1, UnsignedCast DEF Exact, ToUint32
  <2> QED BY <1>0, <1>1, <1>2, <2>1, <2>2 DEF PushValue, UintOf
<1>3. CASE UNCHANGED searchVars \/ Mine BY <1>3 DEF searchVars, Mine, KeysFitType
<1>4. CASE Record
  <2>1. PICK value \in Values :
          PushValue(value) \/ \E op \in {"add", "subtract"} : PushDelta(op, value)
    BY <1>4 DEF Record
  <2>2. ASSUME NEW op \in {"add", "subtract"}, PushDelta(op, value)
        PROVE  \E n \in Nat : PushValue(n)
    <3>1. Latest(ckpts) \in Nat BY <1>0, LatestType DEF Lists
    <3>2. Applied(op, Latest(ckpts), value) \in Nat
      BY <1>0, <2>2, <3>1 DEF PushDelta, Applied
    <3> QED BY <2>2, <3>2 DEF PushDelta
  <2> QED BY <1>0, <1>2, <2>1, <2>2
<1>5. CASE PushAt
  <2>1. PICK key \in TraceKeys, value \in Values \cap UintOf(ValueSize) : Insert(key, value)
    BY <1>5 DEF PushAt
  <2>2. key \in Nat /\ value \in Nat /\ key <= KeySize - 1
    BY <1>0, SearchAssumption DEF UintOf
  <2> QED BY <1>1, <2>1, <2>2
<1> QED BY <1>3, <1>4, <1>5 DEF Next

LEMMA LowerLookupIs ==
  ASSUME NEW c \in Lists, Sorted(c), NEW key \in Int
  PROVE  LET after == {i \in 1..Len(c) : c[i].fromBlock >= key}
         IN  /\ after = {} => LowerLookup(c, key) = 0
             /\ \A i \in after : (\A j \in after : i <= j) => LowerLookup(c, key) = c[i].votes
             /\ after # {} => \E i \in after : \A j \in after : i <= j
<1> DEFINE after == {i \in 1..Len(c) : c[i].fromBlock >= key}
           r == LowerBinaryLookup(c, key, 0, Len(c))
<1>0. Len(c) \in Nat /\ \A i \in 1..Len(c) : c[i].fromBlock \in Nat BY Fields DEF Lists
<1>1. First(r, NotBefore(c, key), 0, Len(c)) BY LowerFinds
<1>2. LowerLookup(c, key) = IF r = Len(c) THEN 0 ELSE c[r + 1].votes BY DEF LowerLookup
<1> HIDE DEF r
<1>3. /\ r \in 0..Len(c) /\ (r < Len(c) => r \in NotBefore(c, key))
      /\ \A j \in 0..(r - 1) : j \notin NotBefore(c, key)
  BY <1>1 DEF First
<1>4. ASSUME NEW i \in 1..Len(c) PROVE i \in after <=> i - 1 \in NotBefore(c, key)
  <2>1. i - 1 \in 0..(Len(c) - 1) BY <1>0
  <2>2. FromBlock(c, i - 1) = c[i].fromBlock BY <1>0 DEF FromBlock
  <2>3. ~(c[i].fromBlock < key) <=> c[i].fromBlock >= key BY <1>0
  <2> QED BY <2>1, <2>2, <2>3 DEF NotBefore
<1>5. ASSUME NEW i \in after PROVE r + 1 <= i
  <2>1. i \in 1..Len(c) OBVIOUS
  <2>2. i - 1 \in NotBefore(c, key) BY <1>4, <2>1
  <2>3. ~(i - 1 \in 0..(r - 1)) BY <1>3, <2>2
  <2> QED BY <1>0, <1>3, <2>1, <2>3
<1>6. ASSUME r < Len(c) PROVE r + 1 \in after
  <2>1. r \in NotBefore(c, key) /\ r + 1 \in 1..Len(c) BY <1>0, <1>3, <1>6
  <2>2. (r + 1) - 1 = r BY <1>3
  <2> QED BY <1>4, <2>1, <2>2
<1>7. CASE r = Len(c)
  <2>1. \A i \in after : FALSE
    <3> SUFFICES ASSUME NEW i \in after PROVE FALSE
      OBVIOUS
    <3>1. i \in 1..Len(c) OBVIOUS
    <3> QED BY <1>0, <1>5, <1>7, <3>1
  <2> QED BY <1>2, <1>7, <2>1
<1>8. CASE r # Len(c)
  <2>1. r < Len(c) BY <1>0, <1>3, <1>8
  <2>2. r + 1 \in after BY <1>6, <2>1
  <2>3. ASSUME NEW i \in after, \A j \in after : i <= j PROVE i = r + 1
    <3>1. i <= r + 1 BY <2>2, <2>3
    <3>2. r + 1 <= i BY <1>5
    <3>3. i \in 1..Len(c) OBVIOUS
    <3> QED BY <1>0, <1>3, <3>1, <3>2, <3>3
  <2> HIDE DEF after
  <2>4. after # {} /\ \A j \in after : r + 1 <= j BY <1>5, <2>2
  <2>5. LowerLookup(c, key) = c[r + 1].votes BY <1>2, <1>8
  <2>6. \A i \in after : (\A j \in after : i <= j) => LowerLookup(c, key) = c[i].votes
    BY <2>3, <2>5
  <2> QED BY <2>2, <2>4, <2>6 DEF after
<1> QED BY <1>7, <1>8

(* The last checkpoint is the only one at its key or after it. *)
LEMMA LastIsLowest ==
  ASSUME NEW c \in Lists, Sorted(c), c # <<>>
  PROVE  /\ c[Len(c)].fromBlock \in Nat
         /\ LowerLookup(c, c[Len(c)].fromBlock) = c[Len(c)].votes
<1> DEFINE key == c[Len(c)].fromBlock
           after == {i \in 1..Len(c) : c[i].fromBlock >= key}
<1>1. Len(c) \in Nat /\ Len(c) \in 1..Len(c) BY DEF Lists
<1>2. \A i \in 1..Len(c) : c[i].fromBlock \in Nat BY Fields
<1>3. key \in Nat BY <1>1, <1>2
<1>4. ASSUME NEW j \in after PROVE Len(c) <= j
  <2>1. j \in 1..Len(c) /\ c[j].fromBlock >= key OBVIOUS
  <2>2. j < Len(c) => c[j].fromBlock < key BY <1>1, <2>1 DEF Sorted
  <2>3. c[j].fromBlock \in Nat BY <1>2, <2>1
  <2> HIDE DEF key
  <2>4. ~(j < Len(c)) BY <1>3, <2>1, <2>2, <2>3
  <2> QED BY <1>1, <2>1, <2>4
<1>5. Len(c) \in after
  <2>1. c[Len(c)].fromBlock >= key BY <1>3
  <2> QED BY <1>1, <2>1
<1>6. key \in Int BY <1>3
<1>7. \A i \in after : (\A j \in after : i <= j) => LowerLookup(c, key) = c[i].votes
  <2> HIDE DEF key
  <2> QED BY <1>6, LowerLookupIs
<1>8. \A j \in after : Len(c) <= j BY <1>4
<1>9. LowerLookup(c, key) = c[Len(c)].votes
  <2> HIDE DEF after, key
  <2> QED BY <1>5, <1>7, <1>8
<1> QED BY <1>3, <1>9

(* Searches of a Trace find the checkpoints next to any key, and the last key   *)
(* of all finds the latest checkpoint (upperLookup, lowerLookup).                *)
THEOREM TraceSearchFinds == Spec => []TraceSearch
<1>1. Init => KeysFitType BY DEF Init, KeysFitType, UpTo
<1>2. SInv /\ KeysFitType /\ [Next]_searchVars => KeysFitType' BY KeysStep
<1>3. ASSUME SInv, KeysFitType PROVE TraceSearch
  <2>1. ckpts \in Lists /\ Sorted(ckpts) BY <1>3 DEF SInv, InOrder
  <2>2. KeySize \in Nat \ {0} /\ KeySize - 1 \in Nat BY SearchAssumption
  <2>3. \A key \in Int : UpperLookup(ckpts, key) = Lookup(ckpts, key)
    BY <2>1, GetAtBlockIsLookup DEF GetAtBlock, UpperLookup
  <2>4. ASSUME NEW key \in UintOf(KeySize),
               NEW after, after = {i \in 1..Len(ckpts) : ckpts[i].fromBlock >= key}
        PROVE  LowerLookup(ckpts, key) = IF after = {} THEN 0
                                          ELSE ckpts[CHOOSE i \in after :
                                                       \A j \in after : i <= j].votes
    <3>1. key \in Int BY <2>2 DEF UintOf
    <3>2. /\ after = {} => LowerLookup(ckpts, key) = 0
          /\ \A i \in after :
               (\A j \in after : i <= j) => LowerLookup(ckpts, key) = ckpts[i].votes
          /\ after # {} => \E i \in after : \A j \in after : i <= j
      BY <2>1, <2>4, <3>1, LowerLookupIs
    <3>3. CASE after = {} BY <3>2, <3>3
    <3>4. CASE after # {}
      <4> DEFINE first == CHOOSE i \in after : \A j \in after : i <= j
      <4>1. first \in after /\ \A j \in after : first <= j BY <3>2, <3>4
      <4> HIDE DEF first
      <4>2. LowerLookup(ckpts, key) = ckpts[first].votes BY <3>2, <4>1
      <4> QED BY <3>4, <4>2 DEF first
    <3> QED BY <3>3, <3>4
  <2>5. UpperLookup(ckpts, KeySize - 1) = Latest(ckpts)
    <3>1. Lookup(ckpts, KeySize - 1) = Latest(ckpts)
      BY <1>3, <2>1, <2>2, LookupAtEnd DEF Lists, KeysFitType
    <3> QED BY <2>2, <2>3, <3>1
  <2>6. LatestCheckpoint(ckpts).votes = Latest(ckpts) BY DEF LatestCheckpoint, Latest
  <2>7. ASSUME LatestCheckpoint(ckpts).exists
        PROVE  LowerLookup(ckpts, LatestCheckpoint(ckpts).fromBlock)
                 = LatestCheckpoint(ckpts).votes
    <3>1. ckpts # <<>> BY <2>7 DEF LatestCheckpoint
    <3>2. /\ LatestCheckpoint(ckpts).fromBlock = ckpts[Len(ckpts)].fromBlock
          /\ LatestCheckpoint(ckpts).votes = ckpts[Len(ckpts)].votes
      BY <3>1 DEF LatestCheckpoint
    <3> QED BY <2>1, <3>1, <3>2, LastIsLowest
  <2>8. \A key \in UintOf(KeySize) : UpperLookup(ckpts, key) = Lookup(ckpts, key)
    BY <2>2, <2>3 DEF UintOf
  <2> QED BY <2>4, <2>5, <2>6, <2>7, <2>8 DEF TraceSearch
<1> QED BY <1>1, <1>2, <1>3, SInvInvariant, PTL DEF Spec

--------------------------------------------------------------------------------
(* Square roots.  A step of Newton's iteration never falls below the root, and   *)
(* from a guess whose square exceeds n by n / accuracy it makes one whose square *)
(* exceeds it by at most n / (4 * accuracy^2): from a power of two within a       *)
(* factor two of the root, the accuracy grows as 1, 2^3, 2^8, 2^18, 2^38, 2^78,   *)
(* 2^158, and the error of the seventh guess is below the root.                  *)

LEMMA DivisionBounds ==
  ASSUME NEW n \in Nat, NEW g \in Nat \ {0}
  PROVE  n \div g \in Nat /\ g * (n \div g) <= n /\ n < g * (n \div g) + g
<1> DEFINE q == n \div g
           rest == n % g
<1>1. q \in Int /\ rest \in 0..(g - 1) /\ n = g * q + rest OBVIOUS
<1> HIDE DEF q, rest
<1>2. g * q \in Int BY <1>1
<1>3. q >= 0
  <2> SUFFICES ASSUME q <= -1 PROVE FALSE
    BY <1>1
  <2>1. g * q <= -g BY <1>1
  <2> QED BY <1>1, <1>2, <2>1
<1> QED BY <1>1, <1>2, <1>3 DEF q

LEMMA Squares ==
  ASSUME NEW a \in Nat, NEW b \in Nat, a <= b
  PROVE  a * a <= b * b /\ a * a \in Nat /\ b * b \in Nat
<1>1. a * a <= a * b OBVIOUS
<1>2. a * b <= b * b OBVIOUS
<1>3. a * a \in Nat /\ a * b \in Nat /\ b * b \in Nat OBVIOUS
<1> QED BY <1>1, <1>2, <1>3

(* A step of the iteration rounds up to the root, never below it. *)
LEMMA ImproveFromAbove ==
  ASSUME NEW n \in Nat, NEW g \in Nat \ {0}
  PROVE  /\ Improve(n, g) \in Nat
         /\ 2 * (g * Improve(n, g)) <= g * g + n
         /\ \A r \in Nat : r * r <= n => r <= Improve(n, g)
<1> DEFINE q == n \div g
           h == Improve(n, g)
<1>1. q \in Nat /\ g * q <= n /\ n < g * q + g BY DivisionBounds
<1>2. h = (g + q) \div 2 BY DEF Improve
<1> HIDE DEF q, h
<1>3. h \in Nat /\ 2 * h <= g + q /\ g + q <= 2 * h + 1 BY <1>1, <1>2
<1>4. g * q \in Nat /\ g * h \in Nat /\ g * g \in Nat BY <1>1, <1>3
<1>5. 2 * (g * h) <= g * g + n
  <2>1. g * (2 * h) <= g * (g + q) BY <1>1, <1>3
  <2>2. g * (2 * h) = 2 * (g * h) /\ g * (g + q) = g * g + g * q BY <1>1, <1>3
  <2> QED BY <1>1, <1>4, <2>1, <2>2
<1>6. ASSUME NEW r \in Nat, r * r <= n, h < r PROVE FALSE
  <2>1. q + 1 <= 2 * r - g BY <1>1, <1>3, <1>6
  <2>2. g * (q + 1) <= g * (2 * r - g) BY <1>1, <2>1
  <2>3. g * (q + 1) = g * q + g BY <1>1
  <2>4. g * (2 * r - g) = r * r - (r - g) * (r - g) OBVIOUS
  <2>5. (r - g) * (r - g) \in Nat OBVIOUS
  <2>6. r * r \in Nat OBVIOUS
  <2> QED BY <1>1, <1>4, <1>6, <2>2, <2>3, <2>4, <2>5, <2>6
<1> QED BY <1>3, <1>5, <1>6 DEF h

(* The error of the next square, times four squares, is the square of the error.*)
LEMMA ErrorSquared ==
  ASSUME NEW n \in Nat, NEW g \in Nat \ {0}, NEW h \in Nat, 2 * (g * h) <= g * g + n
  PROVE  4 * ((g * g) * (h * h - n)) <= (g * g - n) * (g * g - n)
<1> DEFINE s == g * g
           p == g * h
<1>1. s \in Nat /\ p \in Nat OBVIOUS
<1>2. (g * h) * (g * h) = (g * g) * (h * h) OBVIOUS
<1>3. (2 * p) * (2 * p) <= (s + n) * (s + n)
  <2> HIDE DEF s, p
  <2>1. 2 * p <= s + n BY DEF s, p
  <2> QED BY <1>1, <2>1, Squares
<1>4. (2 * p) * (2 * p) = 4 * (p * p)
  <2> HIDE DEF s, p
  <2> QED BY <1>1
<1>5. (s + n) * (s + n) = (s - n) * (s - n) + 4 * (s * n)
  <2> HIDE DEF s, p
  <2> QED BY <1>1
<1>6. s * (h * h - n) = s * (h * h) - s * n
  <2> HIDE DEF s, p
  <2> DEFINE t == h * h
  <2>1. t \in Nat OBVIOUS
  <2> HIDE DEF t
  <2>2. s * (t - n) = s * t - s * n BY <1>1, <2>1
  <2> QED BY <2>2 DEF t
<1>7. p * p = s * (h * h) BY <1>2
<1>8. p * p \in Int /\ s * (h * h) \in Int /\ s * n \in Int /\ (s - n) * (s - n) \in Int
  <2> HIDE DEF s, p
  <2>1. h * h \in Int OBVIOUS
  <2> QED BY <1>1, <2>1
<1> HIDE DEF s, p
<1>9. 4 * (s * (h * h - n)) <= (s - n) * (s - n)
  BY <1>3, <1>4, <1>5, <1>6, <1>7, <1>8
<1> QED BY <1>9 DEF s

(* r is the floor of the square root of n. *)
IsRoot(r, n) == r * r <= n /\ n <= r * r + 2 * r

(* The square of a guess exceeds n by at most 1, or by at most n / accuracy. *)
Within(g, n, accuracy) == g * g - n <= 1 \/ accuracy * (g * g - n) <= n

(* A guess that is already the root is as good after a step. *)
LEMMA RootStays ==
  ASSUME NEW r \in Nat \ {0}, NEW n \in Nat \ {0}, IsRoot(r, n),
         NEW h \in Nat, 2 * (r * h) <= r * r + n
  PROVE  h * h - n <= 1
<1> DEFINE s == r * r
           below == n - s
           e == h * h - n
<1>1. s \in Nat /\ below \in Nat /\ below <= 2 * r BY DEF IsRoot
<1>2. below * below <= (2 * r) * (2 * r)
  <2> HIDE DEF below
  <2> QED BY <1>1, Squares
<1>3. (2 * r) * (2 * r) = 4 * s OBVIOUS
<1>4. 4 * (s * e) <= (s - n) * (s - n) BY ErrorSquared
<1>5. (s - n) * (s - n) = below * below
  <2> HIDE DEF s
  <2> QED BY <1>1
<1>6. e \in Int OBVIOUS
<1>7. s >= 1 OBVIOUS
<1> SUFFICES ASSUME e >= 2 PROVE FALSE
  BY <1>6
<1>8. s * e \in Int /\ below * below \in Int
  <2> HIDE DEF s, e, below
  <2> QED BY <1>1, <1>6
<1>9. s * e <= s
  <2> HIDE DEF s, e, below
  <2> QED BY <1>1, <1>2, <1>3, <1>4, <1>5, <1>8
<1>10. s * e >= s * 2
  <2> HIDE DEF s, e, below
  <2> QED BY <1>1, <1>6
<1> HIDE DEF s, e, below
<1> QED BY <1>1, <1>7, <1>8, <1>9, <1>10

(* Of guesses above the root, the error after a step is at most the square of   *)
(* the one before over four times n, or over four times the guess's own square. *)
LEMMA ErrorOverNumber ==
  ASSUME NEW n \in Nat \ {0}, NEW g \in Nat \ {0}, NEW h \in Nat,
         2 * (g * h) <= g * g + n, n <= g * g, h * h - n >= 0
  PROVE  4 * (n * (h * h - n)) <= (g * g - n) * (g * g - n)
<1> DEFINE s == g * g
           e == h * h - n
<1>1. s \in Nat /\ n <= s /\ e \in Nat OBVIOUS
<1>2. 4 * (s * e) <= (s - n) * (s - n) BY ErrorSquared
<1> HIDE DEF s, e
<1>3. n * e <= s * e BY <1>1
<1>4. n * e \in Int /\ s * e \in Int /\ (s - n) * (s - n) \in Int BY <1>1
<1>5. 4 * (n * e) <= (s - n) * (s - n) BY <1>2, <1>3, <1>4
<1> QED BY <1>5 DEF s, e

(* Each step squares the accuracy, four times over. *)
LEMMA AccuracySquares ==
  ASSUME NEW n \in Nat \ {0}, NEW r \in Nat \ {0}, IsRoot(r, n),
         NEW g \in Nat, r <= g, NEW accuracy \in Nat \ {0}, Within(g, n, accuracy)
  PROVE  Within(Improve(n, g), n, 4 * (accuracy * accuracy))
<1> DEFINE h == Improve(n, g)
           K == accuracy
           d == g * g - n
           e == h * h - n
<1>0. g \in Nat \ {0} OBVIOUS
<1>1. h \in Nat /\ 2 * (g * h) <= g * g + n BY <1>0, ImproveFromAbove
<1> HIDE DEF h
<1>2. d \in Int /\ e \in Int BY <1>1
<1>3. CASE g = r BY <1>1, <1>3, RootStays DEF Within, IsRoot, h
<1>4. CASE g # r /\ e >= 2
  <2>1. (r + 1) * (r + 1) <= g * g BY <1>4, Squares
  <2>2. (r + 1) * (r + 1) = r * r + 2 * r + 1 OBVIOUS
  <2>3. n <= g * g /\ d >= 1 BY <2>1, <2>2 DEF IsRoot
  <2>4. 4 * (n * e) <= d * d BY <1>0, <1>1, <1>4, <2>3, ErrorOverNumber
  <2>5. d <= 1 \/ K * d <= n BY DEF Within
  <2> HIDE DEF d, e
  <2>6. d > 1
    <3> SUFFICES ASSUME d = 1 PROVE FALSE
      BY <1>2, <2>3
    <3>1. n * e >= e BY <1>2, <1>4
    <3> QED BY <1>2, <1>4, <2>4, <3>1
  <2>7. K * d <= n /\ K * d \in Nat BY <1>2, <2>3, <2>5, <2>6
  <2>8. (K * d) * (K * d) <= n * n BY <2>7, Squares
  <2>9. (K * d) * (K * d) = (K * K) * (d * d) BY <1>2
  <2>10. (K * K) * (4 * (n * e)) <= (K * K) * (d * d)
    <3> DEFINE k2 == K * K
               x == 4 * (n * e)
               y == d * d
    <3>1. k2 \in Nat /\ x \in Int /\ y \in Int /\ x <= y BY <1>2, <2>4
    <3> HIDE DEF k2, x, y
    <3>2. k2 * x <= k2 * y BY <3>1
    <3> QED BY <3>2 DEF k2, x, y
  <2>11. (K * K) * (4 * (n * e)) = n * ((4 * (K * K)) * e) BY <1>2
  <2>12. n * ((4 * (K * K)) * e) <= n * n
    <3> DEFINE u == n * ((4 * (K * K)) * e)
               v == (K * K) * (d * d)
               w == n * n
    <3>1. u \in Int /\ v \in Int /\ w \in Int BY <1>2
    <3>2. u <= v BY <2>10, <2>11
    <3>3. v <= w BY <2>8, <2>9
    <3> HIDE DEF u, v, w
    <3>4. u <= w BY <3>1, <3>2, <3>3
    <3> QED BY <3>4 DEF u, w
  <2>13. (4 * (K * K)) * e <= n
    <3> DEFINE t == (4 * (K * K)) * e
    <3>1. t \in Int BY <1>2
    <3>2. n * t <= n * n BY <2>12
    <3> HIDE DEF t
    <3> SUFFICES ASSUME t >= n + 1 PROVE FALSE
      BY <3>1 DEF t
    <3>3. n * t >= n * (n + 1) BY <3>1
    <3>4. n * (n + 1) = n * n + n /\ n * n \in Int /\ n * t \in Int BY <3>1
    <3> QED BY <3>2, <3>3, <3>4
  <2> QED BY <2>13 DEF Within, e, h
<1>5. CASE e <= 1 BY <1>5 DEF Within, e, h
<1> QED BY <1>2, <1>3, <1>4, <1>5

(* The first guess.  A set has twice as many subsets as without one element. *)
LEMMA PowerDoubles ==
  ASSUME NEW k \in Nat
  PROVE  Power(k + 1) = 2 * Power(k)
<1> DEFINE without == SUBSET (1..k)
           with == {S \cup {k + 1} : S \in without}
           add == [S \in without |-> S \cup {k + 1}]
<1>1. IsFiniteSet(without)
  <2>1. IsFiniteSet(1..k) BY FS_Interval
  <2> QED BY <2>1, FS_SUBSET
<1>2. k + 1 \notin 1..k /\ 1..(k + 1) = (1..k) \cup {k + 1} OBVIOUS
<1>3. add \in Surjection(without, with) BY DEF Surjection
<1>4. add \in Injection(without, with)
  <2>1. add \in [without -> with] OBVIOUS
  <2>2. ASSUME NEW S \in without, NEW T \in without, add[S] = add[T] PROVE S = T
    <3>1. S \cup {k + 1} = T \cup {k + 1} BY <2>2
    <3>2. k + 1 \notin S /\ k + 1 \notin T BY <1>2
    <3> QED BY <3>1, <3>2
  <2> HIDE DEF add, with, without
  <2> QED BY <2>1, <2>2 DEF Injection, IsInjective
<1>5. IsFiniteSet(with) /\ Cardinality(with) = Cardinality(without)
  <2> HIDE DEF add, with, without
  <2> QED BY <1>1, <1>3, <1>4, FS_Surjection
<1>6. without \cap with = {}
  <2> SUFFICES ASSUME NEW S \in without, S \in with PROVE FALSE
    OBVIOUS
  <2>1. k + 1 \in S OBVIOUS
  <2> QED BY <1>2, <2>1
<1>7. SUBSET (1..(k + 1)) = without \cup with
  <2>1. ASSUME NEW S \in SUBSET (1..(k + 1)) PROVE S \in without \cup with
    <3>1. CASE k + 1 \in S
      <4>1. S \ {k + 1} \in without BY <1>2
      <4>2. S = (S \ {k + 1}) \cup {k + 1} BY <3>1
      <4> QED BY <4>1, <4>2
    <3>2. CASE k + 1 \notin S
      <4>1. S \in without BY <1>2, <3>2
      <4> QED BY <4>1
    <3> QED BY <3>1, <3>2
  <2>2. ASSUME NEW S \in without \cup with PROVE S \in SUBSET (1..(k + 1))
    BY <1>2
  <2> HIDE DEF with, without
  <2> QED BY <2>1, <2>2
<1> HIDE DEF with, without, add
<1>8. Cardinality(without \cup with)
        = Cardinality(without) + Cardinality(with) - Cardinality(without \cap with)
  BY <1>1, <1>5, FS_Union
<1>9. Cardinality(without) \in Nat BY <1>1, FS_CardinalityType
<1>10. Cardinality(without \cap with) = 0 BY <1>6, FS_EmptySet
<1>11. Cardinality(without \cup with) = 2 * Cardinality(without)
  <2> DEFINE size == Cardinality(without)
  <2>1. Cardinality(without \cup with) = size + size - 0 /\ size \in Nat
    BY <1>5, <1>8, <1>9, <1>10
  <2> HIDE DEF size
  <2>2. Cardinality(without \cup with) = 2 * size BY <2>1
  <2> QED BY <2>2 DEF size
<1> QED BY <1>7, <1>11 DEF Power, without

LEMMA PowerOfZero == Power(0) = 1
<1>1. SUBSET (1..0) = {{}} OBVIOUS
<1> QED BY <1>1, FS_Singleton DEF Power

LEMMA PowerSquares ==
  ASSUME NEW m \in Nat
  PROVE  Power(2 * m) = Power(m) * Power(m)
<1> DEFINE T == {k \in Nat : Power(2 * k) # Power(k) * Power(k)}
<1> SUFFICES ASSUME m \in T PROVE FALSE
  OBVIOUS
<1>1. PICK k \in T : \A j \in T : k <= j
  <2>1. T \subseteq Nat /\ T # {} OBVIOUS
  <2> HIDE DEF T
  <2> QED BY <2>1, LeastNumber
<1>2. k # 0 BY PowerOfZero
<1>3. k \in Nat /\ k - 1 \in Nat /\ k - 1 \notin T BY <1>1, <1>2
<1>4. PICK j \in Nat : k = j + 1 /\ j \notin T
  <2>1. k = (k - 1) + 1 BY <1>3
  <2> QED BY <1>3, <2>1
<1>5. Power(2 * j) = Power(j) * Power(j) BY <1>4
<1>6. 2 * k = (2 * j + 1) + 1 /\ 2 * j \in Nat /\ 2 * j + 1 \in Nat BY <1>4
<1>7. Power(2 * k) = 2 * (2 * Power(2 * j))
  <2>1. Power((2 * j + 1) + 1) = 2 * Power(2 * j + 1) BY <1>6, PowerDoubles
  <2>2. Power(2 * j + 1) = 2 * Power(2 * j) BY <1>6, PowerDoubles
  <2> QED BY <1>6, <2>1, <2>2
<1>8. Power(k) = 2 * Power(j) /\ Power(j) \in Nat BY <1>4, PowerDoubles, Powers
<1>9. Power(k) * Power(k) = 2 * (2 * (Power(j) * Power(j)))
  <2> DEFINE p == Power(j)
  <2>1. p \in Nat BY <1>8
  <2>2. Power(k) = 2 * p BY <1>8
  <2> HIDE DEF p
  <2>3. Power(k) * Power(k) = 2 * (2 * (p * p)) BY <2>1, <2>2
  <2> QED BY <2>3 DEF p
<1>10. Power(2 * k) = Power(k) * Power(k) BY <1>5, <1>7, <1>9
<1> QED BY <1>1, <1>10

(* The first guess is within a factor two below the root. *)
LEMMA FirstGuessIsHalf ==
  ASSUME NEW n \in Nat \ {0}
  PROVE  LET g == FirstGuess(n)
         IN  g \in Nat \ {0} /\ g * g <= n /\ n < 4 * (g * g)
<1> DEFINE k == Log2(n)
           m == k \div 2
           g == FirstGuess(n)
<1>1. k \in Nat /\ 2^k <= n /\ n < 2^(k + 1) BY Log2Exists
<1>2. g = 2^m BY DEF FirstGuess
<1> HIDE DEF k, g
<1>3. m \in Nat /\ 2 * m \in 0..k /\ k + 1 \in 0..(2 * (m + 1)) BY <1>1
<1> HIDE DEF m
<1>4. g = Power(m) /\ g \in Nat \ {0} BY <1>2, <1>3, Powers
<1>5. Power(2 * m) = g * g BY <1>3, <1>4, PowerSquares
<1>6. Power(2 * m) <= Power(k) /\ 2^k = Power(k) BY <1>1, <1>3, Powers
<1>7. Power(k + 1) <= Power(2 * (m + 1)) /\ 2^(k + 1) = Power(k + 1)
  <2>1. k + 1 \in Nat /\ 2 * (m + 1) \in Nat BY <1>1, <1>3
  <2> QED BY <1>3, <2>1, Powers
<1>8. Power(2 * (m + 1)) = 4 * (g * g)
  <2>1. Power(m + 1) = 2 * g BY <1>3, <1>4, PowerDoubles
  <2>2. Power(2 * (m + 1)) = (2 * g) * (2 * g)
    <3>1. m + 1 \in Nat BY <1>3
    <3> QED BY <2>1, <3>1, PowerSquares
  <2>3. (2 * g) * (2 * g) = 4 * (g * g) BY <1>4
  <2> QED BY <2>2, <2>3
<1>9. Power(k) \in Nat /\ Power(k + 1) \in Nat /\ g * g \in Nat
  <2>1. k + 1 \in Nat BY <1>1
  <2> QED BY <1>1, <1>4, <2>1, Powers
<1>10. g * g <= n /\ n < 4 * (g * g) BY <1>1, <1>5, <1>6, <1>7, <1>8, <1>9
<1> QED BY <1>4, <1>10 DEF g

(* The first step leaves an error of at most n, the second of at most n / 8. *)
LEMMA FirstImprovement ==
  ASSUME NEW n \in Nat \ {0}, NEW g \in Nat \ {0}, g * g <= n, n < 4 * (g * g)
  PROVE  Improve(n, g) * Improve(n, g) - n <= n
<1> DEFINE h == Improve(n, g)
           s == g * g
           e == h * h - n
           below == n - s
<1>1. h \in Nat /\ 2 * (g * h) <= s + n BY ImproveFromAbove
<1> HIDE DEF h
<1>2. s \in Nat \ {0} /\ e \in Int BY <1>1
<1>3. 4 * (s * e) <= (s - n) * (s - n) BY <1>1, ErrorSquared
<1>4. below \in 0..n /\ below <= 3 * s BY <1>2
<1>5. (s - n) * (s - n) = below * below
  <2> HIDE DEF s
  <2> QED BY <1>2
<1> SUFFICES ASSUME e >= n + 1 PROVE FALSE
  BY <1>2 DEF h
<1> HIDE DEF s, e, below
<1>6. below * below <= (3 * s) * n
  <2>1. below * below <= (3 * s) * below BY <1>2, <1>4
  <2>2. (3 * s) * below <= (3 * s) * n BY <1>2, <1>4
  <2>3. below * below \in Int /\ (3 * s) * below \in Int /\ (3 * s) * n \in Int
    BY <1>2, <1>4
  <2> QED BY <2>1, <2>2, <2>3
<1>7. s * e >= s * n + s
  <2>1. s * e >= s * (n + 1) BY <1>2
  <2> QED BY <1>2, <2>1
<1>8. (3 * s) * n = 3 * (s * n) /\ s * n \in Nat /\ s * e \in Int
      /\ below * below \in Int
  BY <1>2, <1>4
<1> QED BY <1>2, <1>3, <1>5, <1>6, <1>7, <1>8

LEMMA SecondImprovement ==
  ASSUME NEW n \in Nat \ {0}, NEW r \in Nat \ {0}, IsRoot(r, n),
         NEW g \in Nat, r <= g, g * g - n <= n
  PROVE  Within(Improve(n, g), n, 8)
<1> DEFINE h == Improve(n, g)
           s == g * g
           d == s - n
           e == h * h - n
<1>0. g \in Nat \ {0} OBVIOUS
<1>1. h \in Nat /\ 2 * (g * h) <= s + n BY <1>0, ImproveFromAbove
<1> HIDE DEF h
<1>2. s \in Nat \ {0} /\ d \in Int /\ e \in Int BY <1>0, <1>1
<1>3. CASE g = r BY <1>1, <1>3, RootStays DEF Within, IsRoot, h
<1>4. CASE g # r /\ e >= 2
  <2>1. (r + 1) * (r + 1) <= s BY <1>4, Squares
  <2>2. (r + 1) * (r + 1) = r * r + 2 * r + 1 OBVIOUS
  <2>3. d >= 1 /\ d <= n /\ s = n + d BY <2>1, <2>2 DEF IsRoot
  <2>4. 4 * (s * e) <= d * d BY <1>0, <1>1, ErrorSquared
  <2> HIDE DEF s, d, e
  <2>5. s * e >= (2 * d) * e BY <1>2, <1>4, <2>3
  <2>6. 4 * ((2 * d) * e) = d * (8 * e) BY <1>2
  <2>7. d * (8 * e) <= d * d
    <3>1. s * e \in Int /\ (2 * d) * e \in Int /\ d * d \in Int BY <1>2
    <3> QED BY <2>4, <2>5, <2>6, <3>1
  <2>8. 8 * e <= d
    <3> DEFINE x == 8 * e
    <3>1. x \in Int /\ d * x <= d * d BY <1>2, <2>7
    <3> HIDE DEF x
    <3> SUFFICES ASSUME x >= d + 1 PROVE FALSE
      BY <1>2, <3>1 DEF x
    <3>2. d * x >= d * (d + 1) BY <1>2, <2>3, <3>1
    <3>3. d * (d + 1) = d * d + d /\ d * d \in Int /\ d * x \in Int BY <1>2, <3>1
    <3> QED BY <1>2, <2>3, <3>1, <3>2, <3>3
  <2>9. 8 * e <= n BY <1>2, <2>3, <2>8
  <2> QED BY <2>9 DEF Within, e, h
<1>5. CASE e <= 1 BY <1>5 DEF Within, e, h
<1> QED BY <1>2, <1>3, <1>4, <1>5

(* The powers of two that bound the words of the code. *)
LEMMA WordSizes ==
  /\ Power(16) = 65536 /\ Power(32) = Power(16) * Power(16)
  /\ Power(64) = Power(32) * Power(32) /\ Power(128) = Power(64) * Power(64)
  /\ Power(256) = Power(128) * Power(128)
  /\ \A k \in {16, 32, 64, 128, 256} : Power(k) \in Nat /\ Power(k) >= 65536
<1>1. ASSUME NEW k \in Nat, NEW j, j = 2 * k PROVE Power(j) = Power(k) * Power(k)
  BY <1>1, PowerSquares
<1>2. Power(1) = 2
  <2>1. Power(0 + 1) = 2 * Power(0) BY PowerDoubles
  <2> QED BY <2>1, PowerOfZero
<1>3. Power(2) = 4 BY <1>1, <1>2
<1>4. Power(4) = 16 BY <1>1, <1>3
<1>5. Power(8) = 256 BY <1>1, <1>4
<1>6. Power(16) = 65536 BY <1>1, <1>5
<1>7. Power(32) = Power(16) * Power(16) BY <1>1
<1>8. Power(64) = Power(32) * Power(32) BY <1>1
<1>9. Power(128) = Power(64) * Power(64) BY <1>1
<1>10. Power(256) = Power(128) * Power(128) BY <1>1
<1>11. ASSUME NEW k \in {16, 32, 64, 128, 256}
       PROVE  Power(k) \in Nat /\ Power(k) >= 65536
  <2>1. k \in Nat /\ 16 \in 0..k OBVIOUS
  <2>2. Power(16) <= Power(k) /\ Power(k) \in Nat BY <2>1, Powers
  <2> QED BY <1>6, <2>2
<1> QED BY <1>6, <1>7, <1>8, <1>9, <1>10, <1>11

(* After seven steps the guess is the root, or one more. *)
LEMMA NewtonIsNear ==
  ASSUME NEW n \in Nat \ {0}, NEW r \in Nat \ {0}, IsRoot(r, n), r <= Power(128)
  PROVE  Newton(n) \in Nat /\ r <= Newton(n) /\ Newton(n) * Newton(n) - n <= r
<1> DEFINE g1 == Improve(n, FirstGuess(n))
           g2 == Improve(n, g1)
           g3 == Improve(n, g2)
           g4 == Improve(n, g3)
           g5 == Improve(n, g4)
           g6 == Improve(n, g5)
           g7 == Improve(n, g6)
<1>1. Newton(n) = g7 BY DEF Newton, ImproveTwice
<1>2. \A g \in Nat \ {0} : Improve(n, g) \in Nat /\ r <= Improve(n, g)
  BY ImproveFromAbove DEF IsRoot
<1>3. g1 \in Nat /\ r <= g1 BY <1>2, FirstGuessIsHalf
<1>4. g1 * g1 - n <= n BY FirstImprovement, FirstGuessIsHalf
<1> HIDE DEF g1
<1>5. g2 \in Nat /\ r <= g2 /\ Within(g2, n, 8)
  BY <1>2, <1>3, <1>4, SecondImprovement
<1> DEFINE k2 == 8
           k3 == 4 * (k2 * k2)
           k4 == 4 * (k3 * k3)
           k5 == 4 * (k4 * k4)
           k6 == 4 * (k5 * k5)
           k7 == 4 * (k6 * k6)
<1>6. \A g \in Nat, k \in Nat \ {0} :
        r <= g /\ Within(g, n, k) => /\ Improve(n, g) \in Nat /\ r <= Improve(n, g)
                                    /\ Within(Improve(n, g), n, 4 * (k * k))
                                    /\ 4 * (k * k) \in Nat \ {0}
  BY <1>2, AccuracySquares
<1>7. Power(16) <= k4 /\ k4 \in Nat \ {0} BY WordSizes
<1> HIDE DEF g2, k2
<1>8. g3 \in Nat /\ r <= g3 /\ Within(g3, n, k3) /\ k3 \in Nat \ {0}
  BY <1>5, <1>6 DEF k2
<1> HIDE DEF g3, k3
<1>9. g4 \in Nat /\ r <= g4 /\ Within(g4, n, k4) BY <1>6, <1>8
<1> HIDE DEF g4, k4
<1>10. g5 \in Nat /\ r <= g5 /\ Within(g5, n, k5) /\ k5 \in Nat \ {0}
  BY <1>6, <1>7, <1>9
<1>11. Power(32) <= k5
  <2>1. Power(16) * Power(16) <= k4 * k4 BY <1>7, WordSizes, Squares
  <2> QED BY <1>7, <2>1, WordSizes
<1> HIDE DEF g5, k5
<1>12. g6 \in Nat /\ r <= g6 /\ Within(g6, n, k6) /\ k6 \in Nat \ {0}
  BY <1>6, <1>10
<1>13. Power(64) <= k6
  <2>1. Power(32) * Power(32) <= k5 * k5 BY <1>10, <1>11, WordSizes, Squares
  <2> QED BY <1>10, <2>1, WordSizes
<1> HIDE DEF g6, k6
<1>14. g7 \in Nat /\ r <= g7 /\ Within(g7, n, k7) /\ k7 \in Nat \ {0}
  BY <1>6, <1>12
<1>15. Power(128) < k7
  <2>1. Power(64) * Power(64) <= k6 * k6 BY <1>12, <1>13, WordSizes, Squares
  <2>2. k6 * k6 \in Nat \ {0} BY <1>12
  <2> QED BY <1>12, <2>1, <2>2, WordSizes
<1> HIDE DEF g7, k7
<1>16. g7 * g7 - n <= r
  <2> DEFINE d == g7 * g7 - n
  <2>1. d \in Int /\ (d <= 1 \/ k7 * d <= n) BY <1>14 DEF Within
  <2> HIDE DEF d
  <2> SUFFICES ASSUME d >= r + 1 PROVE FALSE
    BY <2>1 DEF d
  <2>2. k7 * d <= n BY <2>1
  <2>3. k7 * d >= k7 * (r + 1) BY <1>14, <2>1
  <2>4. k7 * (r + 1) >= (r + 1) * (r + 1) BY <1>14, <1>15, WordSizes
  <2>5. (r + 1) * (r + 1) = r * r + 2 * r + 1 OBVIOUS
  <2>6. k7 * d \in Int /\ k7 * (r + 1) \in Int /\ r * r \in Int BY <1>14, <2>1
  <2> QED BY <2>2, <2>3, <2>4, <2>5, <2>6 DEF IsRoot
<1> QED BY <1>1, <1>14, <1>16

(* The correction takes the root from the two. *)
LEMMA SqrtIsRoot ==
  ASSUME NEW n \in Nat, NEW r \in Nat, IsRoot(r, n), r <= Power(128)
  PROVE  Sqrt(n) = r
<1>1. CASE n = 0
  <2>1. r = 0
    <3> SUFFICES ASSUME r >= 1 PROVE FALSE
      OBVIOUS
    <3>1. r * r >= 1 OBVIOUS
    <3> QED BY <1>1, <3>1 DEF IsRoot
  <2> QED BY <1>1, <2>1 DEF Sqrt
<1>2. CASE n # 0
  <2> DEFINE root == Newton(n)
             q == n \div root
  <2>1. r # 0 BY <1>2 DEF IsRoot
  <2>2. root \in Nat /\ r <= root /\ root * root - n <= r
    BY <1>2, <2>1, NewtonIsNear
  <2>3. Sqrt(n) = IF root <= q THEN root ELSE q BY <1>2 DEF Sqrt
  <2> HIDE DEF root
  <2>4. root \in Nat \ {0} BY <2>1, <2>2
  <2>5. q \in Nat /\ root * q <= n /\ n < root * q + root BY <2>4, DivisionBounds
  <2> HIDE DEF q
  <2>6. r * r <= n /\ n <= r * r + 2 * r BY DEF IsRoot
  <2>7. CASE root = r
    <3>1. r <= q
      <4> SUFFICES ASSUME q + 1 <= r PROVE FALSE
        BY <2>5
      <4>1. r * (q + 1) <= r * r BY <2>5
      <4>2. r * (q + 1) = r * q + r /\ r * q \in Int /\ r * r \in Int BY <2>5
      <4> QED BY <2>5, <2>6, <2>7, <4>1, <4>2
    <3> QED BY <2>3, <2>7, <3>1
  <2>8. CASE root = r + 1
    <3>1. (r + 1) * (r + 1) = r * r + 2 * r + 1 /\ r * r \in Int OBVIOUS
    <3>2. n < (r + 1) * (r + 1) /\ (r + 1) * r <= n
      <4>1. (r + 1) * (r + 1) - n <= r BY <2>2, <2>8
      <4>2. (r + 1) * r = r * r + r OBVIOUS
      <4> QED BY <2>6, <3>1, <4>1, <4>2
    <3>3. q <= r
      <4> SUFFICES ASSUME q >= r + 1 PROVE FALSE
        BY <2>5
      <4>1. (r + 1) * q >= (r + 1) * (r + 1) BY <2>5
      <4>2. (r + 1) * q \in Int BY <2>5
      <4> QED BY <2>5, <2>8, <3>1, <3>2, <4>1, <4>2
    <3>4. r <= q
      <4> SUFFICES ASSUME q + 1 <= r PROVE FALSE
        BY <2>5
      <4>1. (r + 1) * (q + 1) <= (r + 1) * r BY <2>5
      <4>2. (r + 1) * (q + 1) = (r + 1) * q + (r + 1) BY <2>5
      <4>3. (r + 1) * q \in Int /\ (r + 1) * r \in Int BY <2>5
      <4> QED BY <2>5, <2>8, <3>2, <4>1, <4>2, <4>3
    <3>5. q = r BY <2>5, <3>3, <3>4
    <3> QED BY <2>3, <2>8, <3>5
  <2>9. ASSUME root >= r + 2 PROVE FALSE
    <3>1. (r + 2) * (r + 2) <= root * root BY <2>4, <2>9, Squares
    <3>2. (r + 2) * (r + 2) = r * r + 4 * r + 4 /\ r * r \in Int OBVIOUS
    <3>3. root * root \in Int BY <2>4
    <3> QED BY <2>2, <2>6, <3>1, <3>2, <3>3
  <2> QED BY <2>2, <2>7, <2>8, <2>9
<1> QED BY <1>1, <1>2

LEMMA RootExists ==
  ASSUME NEW n \in Nat
  PROVE  \E r \in Nat : IsRoot(r, n)
<1> DEFINE T == {k \in Nat : n < k * k}
<1>1. n + 1 \in T
  <2>1. (n + 1) * (n + 1) = n * n + 2 * n + 1 /\ n * n \in Nat OBVIOUS
  <2> QED BY <2>1
<1>2. PICK k \in T : \A j \in T : k <= j
  <2>1. T \subseteq Nat /\ T # {} BY <1>1
  <2> HIDE DEF T
  <2> QED BY <2>1, LeastNumber
<1>3. k \in Nat \ {0} /\ n < k * k OBVIOUS
<1>4. PICK r \in Nat : k = r + 1
  <2>1. k - 1 \in Nat /\ k = (k - 1) + 1 BY <1>3
  <2> QED BY <2>1
<1>5. r \notin T BY <1>2, <1>4
<1>6. r * r <= n
  <2>1. ~(n < r * r) /\ r * r \in Nat BY <1>5
  <2> QED BY <2>1
<1>7. (r + 1) * (r + 1) = r * r + 2 * r + 1 /\ r * r \in Nat OBVIOUS
<1>8. n <= r * r + 2 * r BY <1>3, <1>4, <1>7
<1> QED BY <1>6, <1>8 DEF IsRoot

(* The root of a word is at most half as long. *)
LEMMA RootIsShort ==
  ASSUME NEW n \in Nat, n < Power(128) * Power(128), NEW r \in Nat, r * r <= n
  PROVE  r <= Power(128)
<1> SUFFICES ASSUME Power(128) <= r PROVE r = Power(128)
  BY WordSizes
<1>1. Power(128) * Power(128) <= r * r /\ r * r \in Nat BY WordSizes, Squares
<1> QED BY <1>1, WordSizes

(* For every word of the code, the result is the floor of its square root       *)
(* (Math.sqrt: "at most 7 iteration").                                           *)
THEOREM SqrtOfEveryWord ==
  \A n \in 0..(2^256 - 1) :
    Sqrt(n) \in Nat /\ Sqrt(n) * Sqrt(n) <= n /\ n < (Sqrt(n) + 1) * (Sqrt(n) + 1)
<1>1. ASSUME NEW n \in 0..(Power(256) - 1)
      PROVE  /\ Sqrt(n) \in Nat /\ Sqrt(n) * Sqrt(n) <= n
             /\ n < (Sqrt(n) + 1) * (Sqrt(n) + 1)
  <2>1. n \in Nat /\ n < Power(128) * Power(128) BY WordSizes
  <2>2. PICK r \in Nat : IsRoot(r, n) BY <2>1, RootExists
  <2>3. r <= Power(128) BY <2>1, <2>2, RootIsShort DEF IsRoot
  <2>4. Sqrt(n) = r BY <2>1, <2>2, <2>3, SqrtIsRoot
  <2>5. (r + 1) * (r + 1) = r * r + 2 * r + 1 /\ r * r \in Nat OBVIOUS
  <2>6. r * r <= n /\ n < (r + 1) * (r + 1) BY <2>1, <2>2, <2>5 DEF IsRoot
  <2> QED BY <2>4, <2>6
<1>2. 2^256 = Power(256)
  <2>1. \A k \in Nat : 2^k = Power(k) BY Powers
  <2>2. 256 \in Nat OBVIOUS
  <2> QED BY <2>1, <2>2, Zenon
<1> QED BY <1>1, <1>2

(* The sum of a guess and its quotient, and what a step makes of it. *)
LEMMA StepFitsWord ==
  ASSUME NEW word \in Nat, word >= 65536,
         NEW n \in Nat, NEW r \in Nat \ {0}, IsRoot(r, n), r <= word,
         NEW g \in Nat, r <= g, g <= 4 * word
  PROVE  /\ g + n \div g \in 0..(word * word - 1)
         /\ Improve(n, g) \in Nat /\ r <= Improve(n, g) /\ Improve(n, g) <= 4 * word
<1> DEFINE q == n \div g
<1>1. g \in Nat \ {0} OBVIOUS
<1>2. q \in Nat /\ g * q <= n BY <1>1, DivisionBounds
<1> HIDE DEF q
<1>3. q <= r + 2
  <2> SUFFICES ASSUME q >= r + 3 PROVE FALSE
    BY <1>2
  <2>1. g * q >= r * q BY <1>2
  <2>2. r * q >= r * (r + 3) BY <1>2
  <2>3. r * (r + 3) = r * r + 3 * r /\ r * r \in Int OBVIOUS
  <2>4. g * q \in Int /\ r * q \in Int BY <1>2
  <2> QED BY <1>2, <2>1, <2>2, <2>3, <2>4 DEF IsRoot
<1>4. g + q <= 5 * word + 2 BY <1>1, <1>2, <1>3
<1>5. word * word >= 65536 * word /\ word * word \in Int OBVIOUS
<1>6. g + q \in 0..(word * word - 1) BY <1>1, <1>2, <1>4, <1>5
<1>7. Improve(n, g) = (g + q) \div 2 BY DEF Improve, q
<1>8. Improve(n, g) <= 4 * word BY <1>1, <1>2, <1>4, <1>7
<1>9. Improve(n, g) \in Nat /\ r <= Improve(n, g) BY <1>1, ImproveFromAbove DEF IsRoot
<1> QED BY <1>6, <1>8, <1>9 DEF q

LEMMA FirstStepFitsWord ==
  ASSUME NEW word \in Nat, word >= 65536,
         NEW n \in Nat, NEW g \in Nat \ {0}, g <= word, n < 4 * (g * g)
  PROVE  g + n \div g \in 0..(word * word - 1) /\ Improve(n, g) <= 4 * word
<1> DEFINE q == n \div g
<1>1. q \in Nat /\ g * q <= n BY DivisionBounds
<1>2. Improve(n, g) = (g + q) \div 2 BY DEF Improve
<1> HIDE DEF q
<1>3. q < 4 * g
  <2> SUFFICES ASSUME q >= 4 * g PROVE FALSE
    BY <1>1
  <2>1. g * q >= g * (4 * g) BY <1>1
  <2>2. g * (4 * g) = 4 * (g * g) OBVIOUS
  <2>3. g * q \in Int /\ g * g \in Int BY <1>1
  <2> QED BY <1>1, <2>1, <2>2, <2>3
<1>4. g + q <= 5 * word BY <1>1, <1>3
<1>5. word * word >= 65536 * word /\ word * word \in Int OBVIOUS
<1>6. g + q \in 0..(word * word - 1) BY <1>1, <1>4, <1>5
<1>7. Improve(n, g) <= 4 * word BY <1>1, <1>2, <1>4
<1> QED BY <1>6, <1>7 DEF q

(* Of the seven steps, none divides by zero, and no sum leaves a word of size.  *)
StepsFit(n, size) ==
  LET g0 == FirstGuess(n)
      g1 == Improve(n, g0)
      g2 == Improve(n, g1)
      g3 == Improve(n, g2)
      g4 == Improve(n, g3)
      g5 == Improve(n, g4)
      g6 == Improve(n, g5)
  IN  /\ Newton(n) = Improve(n, g6)
      /\ \A g \in {g0, g1, g2, g3, g4, g5, g6} :
           g \in Nat \ {0} /\ g + n \div g \in 0..(size - 1)

LEMMA StepsFitWord ==
  ASSUME NEW n \in Nat \ {0}, NEW word \in Nat, word = Power(128), n < word * word
  PROVE  StepsFit(n, word * word)
<1> DEFINE g0 == FirstGuess(n)
           g1 == Improve(n, g0)
           g2 == Improve(n, g1)
           g3 == Improve(n, g2)
           g4 == Improve(n, g3)
           g5 == Improve(n, g4)
           g6 == Improve(n, g5)
           Fits(g) == g \in Nat \ {0} /\ g + n \div g \in 0..(word * word - 1)
<1>2. word >= 65536 BY WordSizes
<1>5. PICK r \in Nat : IsRoot(r, n) BY RootExists
<1>6. \A g \in Nat : g * g <= n => g <= word BY RootIsShort
<1>7. r \in Nat \ {0} /\ r <= word BY <1>5, <1>6 DEF IsRoot
<1>8. g0 \in Nat \ {0} /\ g0 * g0 <= n /\ n < 4 * (g0 * g0) BY FirstGuessIsHalf
<1> HIDE DEF g0
<1>9. g0 <= word BY <1>6, <1>8
<1>10. Fits(g0) /\ g1 \in Nat /\ r <= g1 /\ g1 <= 4 * word
  <2>1. g0 + n \div g0 \in 0..(word * word - 1) /\ g1 <= 4 * word
    BY <1>2, <1>8, <1>9, FirstStepFitsWord
  <2>2. g1 \in Nat /\ r <= g1 BY <1>5, <1>8, ImproveFromAbove DEF IsRoot
  <2> QED BY <1>8, <2>1, <2>2
<1>11. ASSUME NEW g \in Nat, r <= g, g <= 4 * word
       PROVE  /\ Fits(g) /\ Improve(n, g) \in Nat
              /\ r <= Improve(n, g) /\ Improve(n, g) <= 4 * word
  <2>1. g \in Nat \ {0} BY <1>7, <1>11
  <2> QED BY <1>2, <1>5, <1>7, <1>11, <2>1, StepFitsWord
<1> HIDE DEF g1, Fits
<1>12. Fits(g1) /\ g2 \in Nat /\ r <= g2 /\ g2 <= 4 * word BY <1>10, <1>11
<1> HIDE DEF g2
<1>13. Fits(g2) /\ g3 \in Nat /\ r <= g3 /\ g3 <= 4 * word BY <1>11, <1>12
<1> HIDE DEF g3
<1>14. Fits(g3) /\ g4 \in Nat /\ r <= g4 /\ g4 <= 4 * word BY <1>11, <1>13
<1> HIDE DEF g4
<1>15. Fits(g4) /\ g5 \in Nat /\ r <= g5 /\ g5 <= 4 * word BY <1>11, <1>14
<1> HIDE DEF g5
<1>16. Fits(g5) /\ g6 \in Nat /\ r <= g6 /\ g6 <= 4 * word BY <1>11, <1>15
<1> HIDE DEF g6
<1>17. Fits(g6) BY <1>11, <1>16
<1>18. Newton(n) = Improve(n, g6)
  BY DEF Newton, ImproveTwice, g0, g1, g2, g3, g4, g5, g6
<1>19. \A g \in {g0, g1, g2, g3, g4, g5, g6} : Fits(g)
  BY <1>10, <1>12, <1>13, <1>14, <1>15, <1>16, <1>17
<1> QED BY <1>18, <1>19 DEF StepsFit, g0, g1, g2, g3, g4, g5, g6, Fits

(* The seven steps run unchecked; yet none of them divides by zero, and no sum  *)
(* overflows its word (Math.sqrt).                                               *)
THEOREM NewtonFitsWord == \A n \in 1..(2^256 - 1) : StepsFit(n, 2^256)
<1>1. ASSUME NEW n \in 1..(Power(256) - 1) PROVE StepsFit(n, Power(256))
  <2>1. PICK word \in Nat : word = Power(128) BY WordSizes
  <2>2. Power(256) = word * word BY <2>1, WordSizes
  <2>3. n \in Nat \ {0} /\ n < word * word BY <2>1, <2>2, WordSizes
  <2> QED BY <2>1, <2>2, <2>3, StepsFitWord
<1>2. 2^256 = Power(256)
  <2>1. \A k \in Nat : 2^k = Power(k) BY Powers
  <2>2. 256 \in Nat OBVIOUS
  <2> QED BY <2>1, <2>2, Zenon
<1> QED BY <1>1, <1>2

(* Keys increase, so that there are no more of them than the type has. *)
LEMMA ListsFitKeys ==
  ASSUME NEW c \in Lists, Sorted(c), NEW top \in Nat, UpTo(c, top)
  PROVE  Len(c) <= top + 1
<1> DEFINE T == {i \in 1..Len(c) : c[i].fromBlock < i - 1}
<1>0. Len(c) \in Nat /\ \A i \in 1..Len(c) : c[i].fromBlock \in Nat
  BY Fields DEF Lists
<1>1. T = {}
  <2> SUFFICES ASSUME T # {} PROVE FALSE
    OBVIOUS
  <2>1. PICK i \in T : \A j \in T : i <= j
    <3>1. T \subseteq Nat BY <1>0
    <3> HIDE DEF T
    <3> QED BY <3>1, LeastNumber
  <2>2. i \in 1..Len(c) /\ c[i].fromBlock < i - 1 OBVIOUS
  <2>3. i # 1 BY <1>0, <2>2
  <2>4. i - 1 \in 1..Len(c) /\ i - 1 < i BY <1>0, <2>2, <2>3
  <2>5. c[i - 1].fromBlock < c[i].fromBlock BY <2>2, <2>4 DEF Sorted
  <2>6. c[i - 1].fromBlock < (i - 1) - 1 BY <1>0, <2>2, <2>4, <2>5
  <2>7. i - 1 \in T BY <2>4, <2>6
  <2> QED BY <1>0, <2>1, <2>4, <2>7
<1>2. CASE Len(c) = 0 BY <1>2
<1>3. CASE Len(c) # 0
  <2>1. Len(c) \in 1..Len(c) BY <1>0, <1>3
  <2>2. c[Len(c)].fromBlock <= top BY <2>1 DEF UpTo
  <2>3. ~(c[Len(c)].fromBlock < Len(c) - 1) BY <1>1, <2>1
  <2> QED BY <1>0, <2>1, <2>2, <2>3
<1> QED BY <1>2, <1>3

LEMMA RootOfLength ==
  ASSUME SInv, KeysFitType, KeySize <= Power(128)
  PROVE  SqrtIsFloor
<1>1. ckpts \in Lists /\ Sorted(ckpts) BY DEF SInv, InOrder
<1>2. KeySize \in Nat \ {0} /\ KeySize - 1 \in Nat BY SearchAssumption
<1>3. Len(ckpts) <= (KeySize - 1) + 1 BY <1>1, <1>2, ListsFitKeys DEF KeysFitType
<1>4. Len(ckpts) \in Nat BY <1>1 DEF Lists
<1>5. Len(ckpts) <= Power(128)
  <2>1. PICK word \in Nat : word = Power(128) BY WordSizes
  <2>2. KeySize <= word BY <2>1
  <2>3. Len(ckpts) <= word BY <1>2, <1>3, <1>4, <2>2
  <2> QED BY <2>1, <2>3
<1> SUFFICES ASSUME NEW r, r = Len(ckpts), NEW n \in (r * r)..(r * r + 2 * r)
             PROVE  Sqrt(n) = r
  BY DEF SqrtIsFloor
<1>6. r \in Nat /\ r * r \in Nat BY <1>4
<1>7. n \in Nat /\ IsRoot(r, n) BY <1>6 DEF IsRoot
<1> QED BY <1>5, <1>6, <1>7, SqrtIsRoot

(* The root that the first probe is computed from is exact, whatever the length *)
(* of the list: keys are no longer than half a word (ERC20Votes, Checkpoints).   *)
THEOREM RootIsFloor ==
  ASSUME KeySize <= 2^128
  PROVE  Spec => []SqrtIsFloor
<1>1. Init => KeysFitType BY DEF Init, KeysFitType, UpTo
<1>2. SInv /\ KeysFitType /\ [Next]_searchVars => KeysFitType' BY KeysStep
<1>3. KeySize <= Power(128)
  <2>1. \A k \in Nat : 2^k = Power(k) BY Powers
  <2>2. 128 \in Nat OBVIOUS
  <2>3. 2^128 = Power(128) BY <2>1, <2>2, Zenon
  <2> QED BY <2>3
<1>4. SInv /\ KeysFitType => SqrtIsFloor BY <1>3, RootOfLength
<1> QED BY <1>1, <1>2, <1>4, SInvInvariant, PTL DEF Spec
================================================================================
