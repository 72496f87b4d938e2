------------------------------ MODULE DataLemmas -------------------------------
(* Facts about the data the contracts keep, whatever its size: induction over   *)
(* numbers and finite sets, sums, and checkpoint histories.  The proofs about   *)
(* the token, the searches and the governor cite them.                           *)
EXTENDS Checkpoints, Sums, FiniteSetTheorems, TLAPS

--------------------------------------------------------------------------------
(* Induction.  A set of the cases in which a claim fails has a least member,    *)
(* so that no induction rule over predicates is needed.                          *)

LEMMA LeastNumber ==
  ASSUME NEW T, T \subseteq Nat, T # {}
  PROVE  \E x \in T : \A y \in T : x <= y
<1> DEFINE R == OpToRel(<, Nat)
<1>1. IsWellFoundedOn(R, Nat) BY NatLessThanWellFounded
<1>2. \A x, y \in Nat : <<y, x>> \in R <=> y < x BY DEF OpToRel
<1> HIDE DEF R
<1>3. PICK x \in T : \A y \in T : ~ (<<y, x>> \in R) BY <1>1, WFMin
<1>4. ASSUME NEW y \in T PROVE x <= y
  <2>1. ~(<<y, x>> \in R) BY <1>3
  <2>2. x \in Nat /\ y \in Nat OBVIOUS
  <2>3. ~(y < x) BY <2>1, <2>2, <1>2
  <2> QED BY <2>2, <2>3
<1> QED BY <1>4

LEMMA LeastSet ==
  ASSUME NEW S, IsFiniteSet(S), NEW B, B \subseteq SUBSET S, B # {}
  PROVE  \E T \in B : \A U \in B : U \subseteq T => U = T
<1> DEFINE R == StrictSubsetOrdering(S)
<1>1. IsWellFoundedOn(R, SUBSET S)
  BY FS_StrictSubsetOrderingWellFounded, FS_FiniteSubsetsOfFinite
<1>2. \A U, T \in SUBSET S : <<U, T>> \in R <=> U \subseteq T /\ U # T
  BY DEF StrictSubsetOrdering
<1> HIDE DEF R
<1>3. PICK T \in B : \A U \in B : ~ (<<U, T>> \in R) BY <1>1, WFMin
<1> QED BY <1>2, <1>3

(* What holds of the empty set, and of a set with one more element whenever it  *)
(* holds without it, holds of every finite set.                                  *)
LEMMA SetInduction ==
  ASSUME NEW S, IsFiniteSet(S), NEW A, {} \in A,
         \A T \in SUBSET S : \A x \in S : T \in A /\ x \notin T => T \cup {x} \in A
  PROVE  S \in A
<1> SUFFICES ASSUME S \notin A PROVE FALSE
  OBVIOUS
<1> DEFINE B == (SUBSET S) \ A
<1>1. B \subseteq SUBSET S /\ B # {} OBVIOUS
<1>2. PICK T \in B : \A U \in B : U \subseteq T => U = T
  <2> HIDE DEF B
  <2> QED BY <1>1, LeastSet
<1>3. T \in SUBSET S /\ T \notin A BY <1>2
<1>4. PICK x : x \in T BY <1>3
<1>5. T \ {x} \in A BY <1>2, <1>3, <1>4
<1>6. x \in S /\ (T \ {x}) \cup {x} = T BY <1>3, <1>4
<1>7. (T \ {x}) \cup {x} \in A BY <1>3, <1>5, <1>6
<1> QED BY <1>3, <1>6, <1>7

--------------------------------------------------------------------------------
(* Sums.  SumOver is a fold, that is a recursive function of the subsets of S;  *)
(* the first lemmas show that the recursion defines it on every finite set.      *)

Pick(S) == CHOOSE x \in S : TRUE

IsSum(g, f, S) ==
  g = [s \in SUBSET S |-> IF s = {} THEN 0 ELSE f[Pick(s)] + g[s \ {Pick(s)}]]

LEMMA SumIsChosen ==
  ASSUME NEW f, NEW S
  PROVE  SumOver(f, S) = (CHOOSE g : IsSum(g, f, S))[S]
BY DEF SumOver, FoldFunctionOnSet, MapThenFoldSet, IsSum, Pick

LEMMA PickIn == ASSUME NEW S, S # {} PROVE Pick(S) \in S
BY DEF Pick

(* Two such functions agree wherever both are defined. *)
LEMMA SumsAgree ==
  ASSUME NEW f, NEW S, NEW T, IsFiniteSet(S), NEW g, IsSum(g, f, S),
         NEW h, IsSum(h, f, T), NEW U \in (SUBSET S) \cap (SUBSET T)
  PROVE  g[U] = h[U]
<1> SUFFICES ASSUME g[U] # h[U] PROVE FALSE
  OBVIOUS
<1> DEFINE B == {V \in (SUBSET S) \cap (SUBSET T) : g[V] # h[V]}
<1>1. PICK V \in B : \A W \in B : W \subseteq V => W = V
  <2>1. B \subseteq SUBSET S /\ B # {} OBVIOUS
  <2> HIDE DEF B
  <2> QED BY <2>1, LeastSet
<1>2. V \in SUBSET S /\ V \in SUBSET T /\ g[V] # h[V] BY <1>1
<1>3. g[V] = IF V = {} THEN 0 ELSE f[Pick(V)] + g[V \ {Pick(V)}]
  BY <1>2 DEF IsSum
<1>4. h[V] = IF V = {} THEN 0 ELSE f[Pick(V)] + h[V \ {Pick(V)}]
  BY <1>2 DEF IsSum
<1>5. V # {} BY <1>2, <1>3, <1>4
<1>6. Pick(V) \in V BY <1>5, PickIn
<1>7. V \ {Pick(V)} \notin B BY <1>1, <1>6
<1>8. g[V \ {Pick(V)}] = h[V \ {Pick(V)}] BY <1>2, <1>7
<1> QED BY <1>2, <1>3, <1>4, <1>8

(* If the function exists on S, the sum over S follows the recursion. *)
LEMMA SumFollows ==
  ASSUME NEW f, NEW S, IsFiniteSet(S),
         \A T \in SUBSET S : \E g : IsSum(g, f, T)
  PROVE  SumOver(f, S) = IF S = {} THEN 0
                         ELSE f[Pick(S)] + SumOver(f, S \ {Pick(S)})
<1> DEFINE it(T) == CHOOSE g : IsSum(g, f, T)
<1>1. \A T \in SUBSET S : IsSum(it(T), f, T) /\ SumOver(f, T) = it(T)[T]
  BY SumIsChosen
<1> HIDE DEF it
<1>2. it(S)[S] = IF S = {} THEN 0 ELSE f[Pick(S)] + it(S)[S \ {Pick(S)}]
  BY <1>1 DEF IsSum
<1>3. CASE S = {} BY <1>1, <1>2, <1>3
<1>4. CASE S # {}
  <2> DEFINE R == S \ {Pick(S)}
  <2>1. IsFiniteSet(R) /\ R \in SUBSET S BY FS_RemoveElement
  <2>2. IsSum(it(S), f, S) /\ IsSum(it(R), f, R) BY <1>1, <2>1
  <2>3. R \in (SUBSET S) \cap (SUBSET R) BY <2>1
  <2>4. it(S)[R] = it(R)[R] BY <2>2, <2>3, SumsAgree
  <2> QED BY <1>1, <1>2, <1>4, <2>1, <2>4
<1> QED BY <1>3, <1>4

LEMMA SumExists ==
  ASSUME NEW f, NEW S, IsFiniteSet(S)
  PROVE  \E g : IsSum(g, f, S)
<1> SUFFICES ASSUME ~ \E g : IsSum(g, f, S) PROVE FALSE
  OBVIOUS
<1> DEFINE B == {T \in SUBSET S : ~ \E g : IsSum(g, f, T)}
<1>1. PICK T \in B : \A U \in B : U \subseteq T => U = T
  <2>1. B \subseteq SUBSET S /\ B # {} OBVIOUS
  <2> HIDE DEF B
  <2> QED BY <2>1, LeastSet
<1>2. T \in SUBSET S /\ IsFiniteSet(T) /\ ~ \E g : IsSum(g, f, T) BY FS_Subset
<1>3. \A U \in SUBSET T : U # T => \E g : IsSum(g, f, U) BY <1>1, <1>2
<1>4. ASSUME NEW U \in SUBSET T, U # T
      PROVE  SumOver(f, U) = IF U = {} THEN 0
                             ELSE f[Pick(U)] + SumOver(f, U \ {Pick(U)})
  <2>1. \A V \in SUBSET U : V \in SUBSET T /\ V # T BY <1>4
  <2>2. IsFiniteSet(U) BY <1>2, FS_Subset
  <2>3. \A V \in SUBSET U : \E g : IsSum(g, f, V) BY <1>3, <2>1
  <2> QED BY <2>2, <2>3, SumFollows
<1> DEFINE g == [s \in SUBSET T |-> IF s = {} THEN 0
                                   ELSE f[Pick(s)] + SumOver(f, s \ {Pick(s)})]
<1>5. ASSUME NEW s \in SUBSET T, s # {}
      PROVE  g[s \ {Pick(s)}] = SumOver(f, s \ {Pick(s)})
  <2>1. Pick(s) \in s BY <1>5, PickIn
  <2> DEFINE U == s \ {Pick(s)}
  <2>2. U \in SUBSET T /\ U # T BY <2>1
  <2>3. SumOver(f, U) = IF U = {} THEN 0
                        ELSE f[Pick(U)] + SumOver(f, U \ {Pick(U)})
    BY <2>2, <1>4
  <2> QED BY <2>2, <2>3
<1>6. \A s \in SUBSET T : g[s] = IF s = {} THEN 0 ELSE f[Pick(s)] + g[s \ {Pick(s)}]
  BY <1>5
<1>7. IsSum(g, f, T) BY <1>6 DEF IsSum
<1> QED BY <1>2, <1>7

LEMMA SumEquation ==
  ASSUME NEW f, NEW S, IsFiniteSet(S), S # {}
  PROVE  /\ Pick(S) \in S
         /\ SumOver(f, S) = f[Pick(S)] + SumOver(f, S \ {Pick(S)})
<1>1. \A T \in SUBSET S : IsFiniteSet(T) BY FS_Subset
<1>2. \A T \in SUBSET S : \E g : IsSum(g, f, T) BY <1>1, SumExists
<1> QED BY <1>2, SumFollows, PickIn

LEMMA SumEmpty == ASSUME NEW f PROVE SumOver(f, {}) = 0
<1>1. IsFiniteSet({}) BY FS_EmptySet
<1>2. \A T \in SUBSET {} : \E g : IsSum(g, f, T) BY <1>1, SumExists
<1> QED BY <1>1, <1>2, SumFollows

(* The sum of integers is an integer, and the elements may be taken in any      *)
(* order: SumRemove takes any of them first.                                     *)
LEMMA SumInt ==
  ASSUME NEW S, IsFiniteSet(S), NEW f, \A x \in S : f[x] \in Int
  PROVE  SumOver(f, S) \in Int
<1> DEFINE B == {T \in SUBSET S : SumOver(f, T) \notin Int}
<1> SUFFICES ASSUME B # {} PROVE FALSE
  OBVIOUS
<1>1. PICK T \in B : \A U \in B : U \subseteq T => U = T
  <2>1. B \subseteq SUBSET S OBVIOUS
  <2> HIDE DEF B
  <2> QED BY <2>1, LeastSet
<1>2. T \in SUBSET S /\ IsFiniteSet(T) /\ SumOver(f, T) \notin Int BY <1>1, FS_Subset
<1>3. T # {} BY <1>2, SumEmpty
<1>4. Pick(T) \in T /\ SumOver(f, T) = f[Pick(T)] + SumOver(f, T \ {Pick(T)})
  BY <1>2, <1>3, SumEquation
<1>5. SumOver(f, T \ {Pick(T)}) \in Int BY <1>1, <1>2, <1>4
<1>6. f[Pick(T)] \in Int BY <1>2, <1>4
<1> QED BY <1>2, <1>4, <1>5, <1>6

LEMMA SumRemove ==
  ASSUME NEW S, IsFiniteSet(S), NEW f, \A x \in S : f[x] \in Int, NEW x \in S
  PROVE  SumOver(f, S) = f[x] + SumOver(f, S \ {x})
<1> DEFINE B == {T \in SUBSET S : \E y \in T : SumOver(f, T) # f[y] + SumOver(f, T \ {y})}
<1> SUFFICES ASSUME B # {} PROVE FALSE
  OBVIOUS
<1>1. PICK T \in B : \A U \in B : U \subseteq T => U = T
  <2>1. B \subseteq SUBSET S OBVIOUS
  <2> HIDE DEF B
  <2> QED BY <2>1, LeastSet
<1>2. T \in SUBSET S /\ IsFiniteSet(T) BY <1>1, FS_Subset
<1>3. PICK y \in T : SumOver(f, T) # f[y] + SumOver(f, T \ {y}) BY <1>1
<1> DEFINE z == Pick(T)
<1>4. z \in T /\ SumOver(f, T) = f[z] + SumOver(f, T \ {z})
  BY <1>2, <1>3, SumEquation
<1>5. z # y BY <1>3, <1>4
<1>6. T \ {y} \notin B /\ T \ {z} \notin B BY <1>1, <1>3, <1>4
<1>7. SumOver(f, T \ {z}) = f[y] + SumOver(f, (T \ {z}) \ {y})
  BY <1>2, <1>3, <1>5, <1>6
<1>8. SumOver(f, T \ {y}) = f[z] + SumOver(f, (T \ {y}) \ {z})
  BY <1>2, <1>4, <1>5, <1>6
<1> DEFINE rest == SumOver(f, (T \ {y}) \ {z})
<1>9. rest \in Int /\ (T \ {z}) \ {y} = (T \ {y}) \ {z}
  <2>1. IsFiniteSet((T \ {y}) \ {z}) BY <1>2, FS_Subset
  <2>2. \A w \in (T \ {y}) \ {z} : f[w] \in Int BY <1>2
  <2> QED BY <2>1, <2>2, SumInt
<1>10. f[y] \in Int /\ f[z] \in Int BY <1>2, <1>3, <1>4
<1> HIDE DEF z, rest
<1>11. f[z] + (f[y] + rest) = f[y] + (f[z] + rest) BY <1>9, <1>10
<1>12. SumOver(f, T \ {z}) = f[y] + rest BY <1>7, <1>9 DEF rest
<1>13. SumOver(f, T \ {y}) = f[z] + rest BY <1>8 DEF rest
<1> QED BY <1>3, <1>4, <1>11, <1>12, <1>13

LEMMA SumAdd ==
  ASSUME NEW S, IsFiniteSet(S), NEW f, NEW x, x \notin S,
         \A y \in S \cup {x} : f[y] \in Int
  PROVE  SumOver(f, S \cup {x}) = f[x] + SumOver(f, S)
<1>1. IsFiniteSet(S \cup {x}) BY FS_AddElement
<1>2. (S \cup {x}) \ {x} = S OBVIOUS
<1> QED BY <1>1, <1>2, SumRemove

(* Sums of larger numbers are larger; of equal numbers, equal; sums add up. *)
LEMMA SumTotal ==
  ASSUME NEW S, IsFiniteSet(S), NEW f, NEW g, NEW h,
         \A x \in S : f[x] \in Int /\ g[x] \in Int /\ h[x] = f[x] + g[x]
  PROVE  SumOver(h, S) = SumOver(f, S) + SumOver(g, S)
<1> DEFINE A == {T \in SUBSET S : SumOver(h, T) = SumOver(f, T) + SumOver(g, T)}
<1>1. {} \in A BY SumEmpty
<1>2. ASSUME NEW T \in SUBSET S, NEW x \in S, T \in A, x \notin T
      PROVE  T \cup {x} \in A
  <2>0. IsFiniteSet(T) BY FS_Subset
  <2>1. \A y \in T \cup {x} : f[y] \in Int /\ g[y] \in Int /\ h[y] \in Int OBVIOUS
  <2>2. SumOver(h, T \cup {x}) = h[x] + SumOver(h, T) BY <1>2, <2>0, <2>1, SumAdd
  <2>3. SumOver(f, T \cup {x}) = f[x] + SumOver(f, T) BY <1>2, <2>0, <2>1, SumAdd
  <2>4. SumOver(g, T \cup {x}) = g[x] + SumOver(g, T) BY <1>2, <2>0, <2>1, SumAdd
  <2>5. SumOver(f, T) \in Int /\ SumOver(g, T) \in Int BY <2>0, <2>1, SumInt
  <2>6. SumOver(h, T) = SumOver(f, T) + SumOver(g, T) BY <1>2
  <2>7. SumOver(h, T \cup {x}) = SumOver(f, T \cup {x}) + SumOver(g, T \cup {x})
    BY <2>1, <2>2, <2>3, <2>4, <2>5, <2>6
  <2> QED BY <2>7
<1>3. S \in A
  <2> HIDE DEF A
  <2> QED BY <1>1, <1>2, SetInduction
<1> QED BY <1>3

LEMMA SumLess ==
  ASSUME NEW S, IsFiniteSet(S), NEW f, NEW g,
         \A x \in S : f[x] \in Int /\ g[x] \in Int /\ f[x] <= g[x]
  PROVE  SumOver(f, S) <= SumOver(g, S)
<1> DEFINE A == {T \in SUBSET S : SumOver(f, T) <= SumOver(g, T)}
<1>1. {} \in A BY SumEmpty
<1>2. ASSUME NEW T \in SUBSET S, NEW x \in S, T \in A, x \notin T
      PROVE  T \cup {x} \in A
  <2>0. IsFiniteSet(T) BY FS_Subset
  <2>1. \A y \in T \cup {x} : f[y] \in Int /\ g[y] \in Int OBVIOUS
  <2>3. SumOver(f, T \cup {x}) = f[x] + SumOver(f, T) BY <1>2, <2>0, <2>1, SumAdd
  <2>4. SumOver(g, T \cup {x}) = g[x] + SumOver(g, T) BY <1>2, <2>0, <2>1, SumAdd
  <2>5. SumOver(f, T) \in Int /\ SumOver(g, T) \in Int BY <2>0, <2>1, SumInt
  <2>6. SumOver(f, T) <= SumOver(g, T) /\ f[x] <= g[x] BY <1>2
  <2>7. SumOver(f, T \cup {x}) <= SumOver(g, T \cup {x})
    BY <2>1, <2>3, <2>4, <2>5, <2>6
  <2> QED BY <2>7
<1>3. S \in A
  <2> HIDE DEF A
  <2> QED BY <1>1, <1>2, SetInduction
<1> QED BY <1>3

LEMMA SumSame ==
  ASSUME NEW S, IsFiniteSet(S), NEW f, NEW g,
         \A x \in S : f[x] \in Int /\ f[x] = g[x]
  PROVE  SumOver(f, S) = SumOver(g, S)
<1>1. SumOver(f, S) <= SumOver(g, S) BY SumLess
<1>2. SumOver(g, S) <= SumOver(f, S) BY SumLess
<1>3. SumOver(f, S) \in Int /\ SumOver(g, S) \in Int BY SumInt
<1> QED BY <1>1, <1>2, <1>3

LEMMA SumZero ==
  ASSUME NEW S, IsFiniteSet(S), NEW f, \A x \in S : f[x] = 0
  PROVE  SumOver(f, S) = 0
<1>1. \A x \in S : f[x] \in Int /\ f[x] = f[x] + f[x] OBVIOUS
<1>2. SumOver(f, S) = SumOver(f, S) + SumOver(f, S) BY <1>1, SumTotal
<1>3. SumOver(f, S) \in Int BY <1>1, SumInt
<1>4. \A n \in Int : n = n + n => n = 0 OBVIOUS
<1> QED BY <1>2, <1>3, <1>4

LEMMA SumNat ==
  ASSUME NEW S, IsFiniteSet(S), NEW f, \A x \in S : f[x] \in Nat
  PROVE  SumOver(f, S) \in Nat
<1> DEFINE zero == [x \in S |-> 0]
<1>1. SumOver(zero, S) = 0 BY SumZero
<1>2. SumOver(zero, S) <= SumOver(f, S)
  <2>1. \A x \in S : zero[x] \in Int /\ f[x] \in Int /\ zero[x] <= f[x] OBVIOUS
  <2> HIDE DEF zero
  <2> QED BY <2>1, SumLess
<1>3. SumOver(f, S) \in Int BY SumInt
<1> QED BY <1>1, <1>2, <1>3

(* The sum over a set is that over a part of it and that over the rest. *)
LEMMA SumUnion ==
  ASSUME NEW S, IsFiniteSet(S), NEW T, IsFiniteSet(T), S \cap T = {},
         NEW f, \A x \in S \cup T : f[x] \in Int
  PROVE  SumOver(f, S \cup T) = SumOver(f, S) + SumOver(f, T)
<1> DEFINE A == {U \in SUBSET T : SumOver(f, S \cup U) = SumOver(f, S) + SumOver(f, U)}
<1>0. SumOver(f, S) \in Int BY SumInt
<1>1. {} \in A
  <2>1. S \cup {} = S OBVIOUS
  <2>2. SumOver(f, S \cup {}) = SumOver(f, S) + SumOver(f, {})
    BY <1>0, <2>1, SumEmpty
  <2> QED BY <2>2
<1>2. ASSUME NEW U \in SUBSET T, NEW x \in T, U \in A, x \notin U
      PROVE  U \cup {x} \in A
  <2>1. IsFiniteSet(U) /\ IsFiniteSet(S \cup U) BY FS_Subset, FS_Union
  <2>2. (S \cup U) \cup {x} = S \cup (U \cup {x}) /\ x \notin S \cup U BY <1>2
  <2>3. SumOver(f, S \cup (U \cup {x})) = f[x] + SumOver(f, S \cup U)
    BY <2>1, <2>2, SumAdd
  <2>4. SumOver(f, U \cup {x}) = f[x] + SumOver(f, U) BY <1>2, <2>1, SumAdd
  <2>5. SumOver(f, U) \in Int /\ f[x] \in Int BY <2>1, SumInt
  <2>6. SumOver(f, S \cup U) = SumOver(f, S) + SumOver(f, U) BY <1>2
  <2>7. SumOver(f, S \cup (U \cup {x})) = SumOver(f, S) + SumOver(f, U \cup {x})
    BY <1>0, <2>3, <2>4, <2>5, <2>6
  <2> QED BY <2>7
<1>3. T \in A
  <2> HIDE DEF A
  <2> QED BY <1>1, <1>2, SetInduction
<1> QED BY <1>3

LEMMA SumPart ==
  ASSUME NEW S, IsFiniteSet(S), NEW T \in SUBSET S, NEW f, \A x \in S : f[x] \in Nat
  PROVE  /\ SumOver(f, T) \in Nat
         /\ SumOver(f, T) <= SumOver(f, S)
<1>1. IsFiniteSet(T) /\ IsFiniteSet(S \ T) BY FS_Subset, FS_Difference
<1>2. T \cup (S \ T) = S /\ T \cap (S \ T) = {} OBVIOUS
<1>3. SumOver(f, S) = SumOver(f, T) + SumOver(f, S \ T) BY <1>1, <1>2, SumUnion
<1>4. SumOver(f, T) \in Nat /\ SumOver(f, S \ T) \in Nat BY <1>1, SumNat
<1> QED BY <1>3, <1>4

(* The sum when one amount changes by n: it counts if the sum has it. *)
LEMMA SumPut ==
  ASSUME NEW A, NEW f, NEW g, \A y \in A : f[y] \in Int,
         NEW x \in A, NEW n \in Int, g[x] = f[x] + n, \A y \in A : y # x => g[y] = f[y],
         NEW S, S \subseteq A, IsFiniteSet(S)
  PROVE  /\ x \in S => SumOver(g, S) = SumOver(f, S) + n
         /\ x \notin S => SumOver(g, S) = SumOver(f, S)
<1>1. \A y \in S : f[y] \in Int /\ g[y] \in Int
  <2> SUFFICES ASSUME NEW y \in S PROVE f[y] \in Int /\ g[y] \in Int
    OBVIOUS
  <2>1. CASE y = x BY <2>1
  <2>2. CASE y # x BY <2>2
  <2> QED BY <2>1, <2>2
<1>2. CASE x \in S
  <2> DEFINE R == S \ {x}
  <2>1. IsFiniteSet(R) /\ \A y \in R : f[y] \in Int /\ f[y] = g[y]
    BY <1>1, FS_RemoveElement
  <2>2. SumOver(f, R) = SumOver(g, R) /\ SumOver(f, R) \in Int
    BY <2>1, SumSame, SumInt
  <2>3. SumOver(f, S) = f[x] + SumOver(f, R) BY <1>1, <1>2, SumRemove
  <2>4. SumOver(g, S) = g[x] + SumOver(g, R) BY <1>1, <1>2, SumRemove
  <2>5. f[x] \in Int /\ g[x] = f[x] + n OBVIOUS
  <2> QED BY <1>2, <2>2, <2>3, <2>4, <2>5
<1>3. CASE x \notin S BY <1>1, <1>3, SumSame
<1> QED BY <1>2, <1>3

(* S is divided into parts, one for each member of D: adding up the sums over   *)
(* the parts gives the sum over S.                                               *)
LEMMA SumOfParts ==
  ASSUME NEW D, IsFiniteSet(D), NEW S, IsFiniteSet(S), NEW part,
         \A x : x \in S <=> \E d \in D : x \in part[d],
         \A d, e \in D : d # e => part[d] \cap part[e] = {},
         NEW f, \A x \in S : f[x] \in Int,
         NEW g, \A d \in D : g[d] = SumOver(f, part[d])
  PROVE  SumOver(g, D) = SumOver(f, S)
<1> DEFINE In(E) == {x \in S : \E d \in E : x \in part[d]}
           A == {E \in SUBSET D : SumOver(g, E) = SumOver(f, In(E))}
<1>1. {} \in A
  <2>1. In({}) = {} OBVIOUS
  <2>2. SumOver(g, {}) = SumOver(f, In({})) BY <2>1, SumEmpty
  <2> QED BY <2>2
<1>2. \A d \in D : g[d] \in Int
  <2> SUFFICES ASSUME NEW d \in D PROVE g[d] \in Int
    OBVIOUS
  <2>1. part[d] \in SUBSET S OBVIOUS
  <2>2. IsFiniteSet(part[d]) BY <2>1, FS_Subset
  <2> QED BY <2>1, <2>2, SumInt
<1>3. ASSUME NEW E \in SUBSET D, NEW d \in D, E \in A, d \notin E
      PROVE  E \cup {d} \in A
  <2>1. part[d] \in SUBSET S /\ In(E) \in SUBSET S OBVIOUS
  <2>2. IsFiniteSet(E) /\ IsFiniteSet(In(E)) /\ IsFiniteSet(part[d]) BY <2>1, FS_Subset
  <2>3. In(E) \cup part[d] = In(E \cup {d}) BY <2>1
  <2>4. In(E) \cap part[d] = {} BY <1>3
  <2>5. SumOver(g, E \cup {d}) = g[d] + SumOver(g, E) BY <1>2, <1>3, <2>2, SumAdd
  <2> HIDE DEF In
  <2>6. SumOver(f, In(E) \cup part[d]) = SumOver(f, In(E)) + SumOver(f, part[d])
    <3>1. \A x \in In(E) \cup part[d] : f[x] \in Int BY <2>1
    <3> QED BY <2>2, <2>4, <3>1, SumUnion
  <2>7. g[d] = SumOver(f, part[d]) /\ SumOver(g, E) = SumOver(f, In(E)) BY <1>3
  <2>8. SumOver(g, E) \in Int /\ g[d] \in Int
    <3>1. \A e \in E : g[e] \in Int BY <1>2
    <3> QED BY <1>2, <2>2, <3>1, SumInt
  <2>9. SumOver(f, In(E \cup {d})) = SumOver(g, E) + g[d]
    BY <2>3, <2>6, <2>7
  <2>10. SumOver(g, E \cup {d}) = SumOver(f, In(E \cup {d}))
    BY <2>5, <2>8, <2>9
  <2> QED BY <2>10
<1>4. D \in A
  <2> HIDE DEF A
  <2> QED BY <1>1, <1>3, SetInduction
<1>5. In(D) = S OBVIOUS
<1> QED BY <1>4, <1>5

--------------------------------------------------------------------------------
(* Dividing a pool *)

(* A quotient is not larger than the dividend, and loses less than the divisor. *)
LEMMA ShareBounds ==
  ASSUME NEW n \in Nat, NEW d \in Nat, d > 0
  PROVE  /\ n \div d \in 0..n
         /\ d * (n \div d) <= n
         /\ n <= d * (n \div d) + (d - 1)
<1> DEFINE q == n \div d
           r == n % d
<1>1. q \in Int /\ r \in 0..(d - 1) /\ n = d * q + r OBVIOUS
<1> HIDE DEF q, r
<1>2. q >= 0
  <2> SUFFICES ASSUME q <= -1 PROVE FALSE
    BY <1>1
  <2>1. d * q <= d * (-1) BY <1>1
  <2> QED BY <1>1, <2>1
<1>3. (d - 1) * q >= 0 BY <1>1, <1>2
<1>4. d * q = (d - 1) * q + q BY <1>1
<1> QED BY <1>1, <1>2, <1>3, <1>4 DEF q

(* A pool divided in proportion to weights, every share rounded down: no more   *)
(* than the pool is handed out, and less by less than one for each share.        *)
LEMMA SumOfShares ==
  ASSUME NEW S, IsFiniteSet(S), NEW w, \A x \in S : w[x] \in Nat,
         NEW pool \in Nat, NEW total \in Nat, total > 0, total = SumOver(w, S),
         NEW s, \A x \in S : s[x] = (w[x] * pool) \div total
  PROVE  /\ SumOver(s, S) <= pool
         /\ SumOver(s, S) > pool - Cardinality(S)
<1> DEFINE Lost(T) == (total - 1) * Cardinality(T)
           A == {T \in SUBSET S :
                   /\ total * SumOver(s, T) <= pool * SumOver(w, T)
                   /\ pool * SumOver(w, T) <= total * SumOver(s, T) + Lost(T)}
<1>0. \A a, b, c \in Int : a * (b + c) = a * b + a * c OBVIOUS
<1>1. ASSUME NEW x \in S
      PROVE  /\ s[x] \in Nat /\ total * s[x] <= pool * w[x]
             /\ pool * w[x] <= total * s[x] + (total - 1)
  <2> DEFINE n == w[x] * pool
  <2>1. n \in Nat /\ n = pool * w[x]
    <3>1. w[x] \in Nat OBVIOUS
    <3> QED BY <3>1
  <2>2. s[x] = n \div total OBVIOUS
  <2> HIDE DEF n
  <2> QED BY <2>1, <2>2, ShareBounds
<1>2. {} \in A
  <2>1. SumOver(s, {}) = 0 /\ SumOver(w, {}) = 0 /\ Cardinality({}) = 0
    BY SumEmpty, FS_EmptySet
  <2>2. Lost({}) = 0 BY <2>1
  <2> HIDE DEF Lost
  <2> QED BY <2>1, <2>2
<1>3. ASSUME NEW T \in SUBSET S, NEW x \in S, T \in A, x \notin T
      PROVE  T \cup {x} \in A
  <2> DEFINE U == T \cup {x}
             n == Cardinality(T)
             st == SumOver(s, T)
             wt == SumOver(w, T)
  <2>1. IsFiniteSet(T) BY FS_Subset
  <2>2. \A y \in S : s[y] \in Int /\ w[y] \in Int BY <1>1
  <2>3. SumOver(s, U) = s[x] + st /\ st \in Int
    BY <1>3, <2>1, <2>2, SumAdd, SumInt
  <2>4. SumOver(w, U) = w[x] + wt /\ wt \in Int
    BY <1>3, <2>1, <2>2, SumAdd, SumInt
  <2>5. Cardinality(U) = n + 1 /\ n \in Nat
    BY <1>3, <2>1, FS_AddElement, FS_CardinalityType
  <2>6. total * st <= pool * wt /\ pool * wt <= total * st + (total - 1) * n
    BY <1>3
  <2> HIDE DEF U, n, st, wt
  <2>7. total * (s[x] + st) = total * s[x] + total * st BY <1>0, <2>2, <2>3
  <2>8. pool * (w[x] + wt) = pool * w[x] + pool * wt BY <1>0, <2>2, <2>4
  <2>9. (total - 1) * (n + 1) = (total - 1) * n + (total - 1) BY <1>0, <2>5
  <2>10. /\ total * s[x] \in Int /\ total * st \in Int /\ pool * w[x] \in Int
         /\ pool * wt \in Int /\ (total - 1) * n \in Int
    BY <2>2, <2>3, <2>4, <2>5
  <2>11. total * SumOver(s, U) <= pool * SumOver(w, U)
    BY <1>1, <2>3, <2>4, <2>6, <2>7, <2>8, <2>10
  <2>12. pool * SumOver(w, U) <= total * SumOver(s, U) + (total - 1) * Cardinality(U)
    BY <1>1, <2>3, <2>4, <2>5, <2>6, <2>7, <2>8, <2>9, <2>10
  <2> QED BY <2>11, <2>12 DEF U
<1>4. S \in A
  <2> HIDE DEF A
  <2> QED BY <1>2, <1>3, SetInduction
<1> DEFINE n == Cardinality(S)
           m == SumOver(s, S)
<1>5. /\ total * m <= pool * total
      /\ pool * total <= total * m + (total - 1) * n
  BY <1>4
<1>6. m \in Int /\ n \in Nat BY <1>1, SumInt, FS_CardinalityType
<1>7. n # 0
  <2>1. S # {} BY SumEmpty
  <2> QED BY <2>1, FS_EmptySet
<1> HIDE DEF m, n
<1>8. m <= pool
  <2> SUFFICES ASSUME m >= pool + 1 PROVE FALSE
    BY <1>6
  <2>1. total * m >= total * (pool + 1) BY <1>6
  <2>2. total * (pool + 1) = total * pool + total BY <1>0
  <2>3. total * pool = pool * total /\ total * pool \in Int /\ total * m \in Int BY <1>6
  <2> QED BY <1>5, <2>1, <2>2, <2>3
<1>9. m > pool - n
  <2> SUFFICES ASSUME m + n <= pool PROVE FALSE
    BY <1>6
  <2>1. total * (m + n) <= total * pool BY <1>6
  <2>2. total * (m + n) = total * m + total * n BY <1>0, <1>6
  <2>3. (total - 1) * n = total * n - n BY <1>6
  <2>4. /\ total * pool = pool * total /\ total * pool \in Int /\ total * m \in Int
        /\ total * n \in Int
    BY <1>6
  <2> QED BY <1>5, <1>6, <1>7, <2>1, <2>2, <2>3, <2>4
<1> QED BY <1>8, <1>9 DEF m, n

--------------------------------------------------------------------------------
(* Checkpoint histories. *)

(* No checkpoint of the history lies after block. *)
UpTo(ckpts, block) == \A i \in 1..Len(ckpts) : ckpts[i].fromBlock <= block

(* A write gives a history again (ERC20Votes._writeCheckpoint). *)
LEMMA WriteType ==
  ASSUME NEW Block, NEW Value, NEW c \in Seq(Checkpoint(Block, Value)),
         NEW block \in Block, NEW value \in Value
  PROVE  WriteCheckpoint(c, block, value) \in Seq(Checkpoint(Block, Value))
<1> DEFINE new == [fromBlock |-> block, votes |-> value]
<1>1. new \in Checkpoint(Block, Value) BY DEF Checkpoint
<1>2. CASE c # <<>> /\ c[Len(c)].fromBlock = block
  <2>1. WriteCheckpoint(c, block, value) = [c EXCEPT ![Len(c)] = new]
    BY <1>2 DEF WriteCheckpoint
  <2> QED BY <1>1, <1>2, <2>1
<1>3. CASE ~(c # <<>> /\ c[Len(c)].fromBlock = block)
  <2>1. WriteCheckpoint(c, block, value) = Append(c, new)
    BY <1>3 DEF WriteCheckpoint
  <2> QED BY <1>1, <2>1
<1> QED BY <1>2, <1>3

(* The value in force is one that was recorded, or 0. *)
LEMMA LatestType ==
  ASSUME NEW Block, NEW Value, 0 \in Value, NEW c \in Seq(Checkpoint(Block, Value))
  PROVE  Latest(c) \in Value
<1>1. CASE c = <<>> BY <1>1 DEF Latest
<1>2. CASE c # <<>>
  <2>1. Len(c) \in 1..Len(c) BY <1>2
  <2>2. c[Len(c)] \in Checkpoint(Block, Value) BY <2>1
  <2> QED BY <1>2, <2>2 DEF Latest, Checkpoint
<1> QED BY <1>1, <1>2

(* What was written is in force. *)
LEMMA LatestWrite ==
  ASSUME NEW Value, NEW c \in Seq(Checkpoint(Nat, Value)), NEW block \in Nat,
         NEW value \in Value
  PROVE  Latest(WriteCheckpoint(c, block, value)) = value
<1> DEFINE new == [fromBlock |-> block, votes |-> value]
           d == WriteCheckpoint(c, block, value)
<1> SUFFICES Latest(d) = value
  OBVIOUS
<1>1. CASE c # <<>> /\ c[Len(c)].fromBlock = block
  <2>1. d = [c EXCEPT ![Len(c)] = new] BY <1>1 DEF WriteCheckpoint
  <2>2. Len(c) \in 1..Len(c) BY <1>1
  <2>3. Len(d) = Len(c) /\ d[Len(c)] = new /\ d # <<>> BY <1>1, <2>1, <2>2
  <2> HIDE DEF d
  <2> QED BY <2>3 DEF Latest
<1>2. CASE ~(c # <<>> /\ c[Len(c)].fromBlock = block)
  <2>1. d = Append(c, new) BY <1>2 DEF WriteCheckpoint
  <2>2. Len(d) = Len(c) + 1 /\ d[Len(c) + 1] = new /\ d # <<>> BY <2>1
  <2> HIDE DEF d
  <2> QED BY <2>2 DEF Latest
<1> QED BY <1>1, <1>2

(* So is a past value. *)
LEMMA LookupType ==
  ASSUME NEW Block, NEW Value, 0 \in Value, NEW c \in Seq(Checkpoint(Block, Value)),
         NEW b
  PROVE  Lookup(c, b) \in Value
<1>1. \A i \in 1..Len(c) : c[i] \in Checkpoint(Block, Value) OBVIOUS
<1>2. \A i \in 1..Len(c) : c[i].votes \in Value BY <1>1 DEF Checkpoint
<1>3. ValuesAt(c, b) \subseteq Value BY <1>2 DEF ValuesAt, InForce
<1> QED BY <1>3 DEF Lookup

(* A write at a later block leaves the past as it was: the search for a past    *)
(* block finds the checkpoints it found before.                                  *)
LEMMA WriteKeepsPast ==
  ASSUME NEW Value, NEW c \in Seq(Checkpoint(Nat, Value)),
         NEW block \in Nat, NEW value \in Value, NEW b \in Nat, b < block
  PROVE  Lookup(WriteCheckpoint(c, block, value), b) = Lookup(c, b)
<1> DEFINE new == [fromBlock |-> block, votes |-> value]
           d == WriteCheckpoint(c, block, value)
<1>1. CASE c # <<>> /\ c[Len(c)].fromBlock = block
  <2>1. d = [c EXCEPT ![Len(c)] = new] BY <1>1 DEF WriteCheckpoint
  <2>2. Len(d) = Len(c) BY <2>1
  <2>3. \A i \in 1..Len(c) : d[i].fromBlock = c[i].fromBlock BY <1>1, <2>1
  <2>4. \A i \in 1..Len(c) : c[i].fromBlock <= b => d[i] = c[i]
    BY <1>1, <2>1
  <2>5. InForce(d, b) = InForce(c, b) BY <2>2, <2>3 DEF InForce
  <2>6. \A i \in InForce(c, b) : d[i] = c[i] BY <2>4 DEF InForce
  <2>7. ValuesAt(d, b) = ValuesAt(c, b) BY <2>5, <2>6 DEF ValuesAt
  <2> QED BY <2>7 DEF Lookup
<1>2. CASE ~(c # <<>> /\ c[Len(c)].fromBlock = block)
  <2>1. d = Append(c, new) BY <1>2 DEF WriteCheckpoint
  <2>2. Len(d) = Len(c) + 1 BY <2>1
  <2>3. \A i \in 1..Len(c) : d[i] = c[i] BY <2>1
  <2>4. d[Len(c) + 1] = new BY <2>1
  <2>5. InForce(d, b) \subseteq InForce(c, b)
    <3> SUFFICES ASSUME NEW i \in InForce(d, b) PROVE i \in InForce(c, b)
      OBVIOUS
    <3>1. i \in 1..Len(d) /\ d[i].fromBlock <= b BY DEF InForce
    <3>2. i # Len(c) + 1 BY <2>4, <3>1
    <3>3. i \in 1..Len(c) BY <2>2, <3>1, <3>2
    <3>4. \A j \in 1..Len(c) : j > i => c[j].fromBlock > b BY <2>2, <2>3 DEF InForce
    <3> QED BY <2>3, <3>1, <3>3, <3>4 DEF InForce
  <2>6. InForce(c, b) \subseteq InForce(d, b)
    <3> SUFFICES ASSUME NEW i \in InForce(c, b) PROVE i \in InForce(d, b)
      OBVIOUS
    <3>1. i \in 1..Len(c) /\ c[i].fromBlock <= b BY DEF InForce
    <3>2. i \in 1..Len(d) /\ d[i].fromBlock <= b BY <2>2, <2>3, <3>1
    <3>3. ASSUME NEW j \in 1..Len(d), j > i PROVE d[j].fromBlock > b
      <4>1. CASE j = Len(c) + 1 BY <2>4, <4>1
      <4>2. CASE j # Len(c) + 1
        <5>1. j \in 1..Len(c) BY <2>2, <4>2
        <5> QED BY <2>3, <3>3, <5>1 DEF InForce
      <4> QED BY <4>1, <4>2
    <3> QED BY <3>2, <3>3 DEF InForce
  <2>7. \A i \in InForce(c, b) : d[i] = c[i] BY <2>3 DEF InForce
  <2>8. ValuesAt(d, b) = ValuesAt(c, b) BY <2>5, <2>6, <2>7 DEF ValuesAt
  <2> QED BY <2>8 DEF Lookup
<1> QED BY <1>1, <1>2

(* When the block ends, what is in force becomes its past value. *)
LEMMA LookupAtEnd ==
  ASSUME NEW Value, NEW c \in Seq(Checkpoint(Nat, Value)), NEW block \in Nat,
         UpTo(c, block)
  PROVE  Lookup(c, block) = Latest(c)
<1>1. CASE c = <<>>
  <2>1. ValuesAt(c, block) = {} BY <1>1 DEF ValuesAt, InForce
  <2> QED BY <1>1, <2>1 DEF Lookup, Latest
<1>2. CASE c # <<>>
  <2>1. Len(c) \in 1..Len(c) BY <1>2
  <2>2. \A i \in 1..Len(c) : c[i].fromBlock \in Nat /\ ~(c[i].fromBlock > block)
    <3> SUFFICES ASSUME NEW i \in 1..Len(c)
                 PROVE  c[i].fromBlock \in Nat /\ ~(c[i].fromBlock > block)
      OBVIOUS
    <3>1. c[i] \in Checkpoint(Nat, Value) OBVIOUS
    <3>2. c[i].fromBlock \in Nat BY <3>1 DEF Checkpoint
    <3> QED BY <3>2 DEF UpTo
  <2>3. Len(c) \in InForce(c, block)
    <3>1. c[Len(c)].fromBlock <= block BY <2>1 DEF UpTo
    <3> QED BY <2>1, <3>1 DEF InForce
  <2>4. \A i \in InForce(c, block) : i = Len(c)
    <3> SUFFICES ASSUME NEW i \in InForce(c, block), i # Len(c) PROVE FALSE
      OBVIOUS
    <3>1. i \in 1..Len(c) BY DEF InForce
    <3>2. Len(c) > i BY <3>1
    <3> QED BY <2>1, <2>2, <3>2 DEF InForce
  <2>5. ValuesAt(c, block) = {c[Len(c)].votes} BY <2>3, <2>4 DEF ValuesAt
  <2> QED BY <1>2, <2>5 DEF Lookup, Latest
<1> QED BY <1>1, <1>2

(* A write at block leaves no checkpoint after it. *)
LEMMA WriteUpTo ==
  ASSUME NEW Value, NEW c \in Seq(Checkpoint(Nat, Value)), NEW block \in Nat,
         NEW value \in Value, UpTo(c, block)
  PROVE  UpTo(WriteCheckpoint(c, block, value), block)
<1> DEFINE new == [fromBlock |-> block, votes |-> value]
           d == WriteCheckpoint(c, block, value)
<1>1. CASE c # <<>> /\ c[Len(c)].fromBlock = block
  <2>1. d = [c EXCEPT ![Len(c)] = new] BY <1>1 DEF WriteCheckpoint
  <2>2. Len(d) = Len(c) BY <2>1
  <2>3. \A i \in 1..Len(c) : d[i].fromBlock = c[i].fromBlock BY <1>1, <2>1
  <2> QED BY <2>2, <2>3 DEF UpTo
<1>2. CASE ~(c # <<>> /\ c[Len(c)].fromBlock = block)
  <2>1. d = Append(c, new) BY <1>2 DEF WriteCheckpoint
  <2>2. Len(d) = Len(c) + 1 BY <2>1
  <2>3. \A i \in 1..Len(c) : d[i] = c[i] BY <2>1
  <2>4. d[Len(c) + 1] = new BY <2>1
  <2>5. ASSUME NEW i \in 1..Len(d) PROVE d[i].fromBlock <= block
    <3>1. CASE i = Len(c) + 1 BY <2>4, <3>1
    <3>2. CASE i # Len(c) + 1
      <4>1. i \in 1..Len(c) BY <2>2, <3>2
      <4> QED BY <2>3, <4>1 DEF UpTo
    <3> QED BY <3>1, <3>2
  <2> QED BY <2>5 DEF UpTo
<1> QED BY <1>1, <1>2

(* ... and in block order. *)
LEMMA WriteSorted ==
  ASSUME NEW Value, NEW c \in Seq(Checkpoint(Nat, Value)), NEW block \in Nat,
         NEW value \in Value, UpTo(c, block), Sorted(c)
  PROVE  Sorted(WriteCheckpoint(c, block, value))
<1> DEFINE new == [fromBlock |-> block, votes |-> value]
           d == WriteCheckpoint(c, block, value)
<1>0. \A i \in 1..Len(c) : c[i].fromBlock \in Nat
  <2>1. \A i \in 1..Len(c) : c[i] \in Checkpoint(Nat, Value) OBVIOUS
  <2> QED BY <2>1 DEF Checkpoint
<1>1. CASE c # <<>> /\ c[Len(c)].fromBlock = block
  <2>1. Len(d) = Len(c)
        /\ \A i \in 1..Len(c) : d[i] = IF i = Len(c) THEN new ELSE c[i]
    BY <1>1 DEF WriteCheckpoint
  <2>2. \A i \in 1..Len(c) : d[i].fromBlock = c[i].fromBlock BY <1>1, <2>1
  <2>3. Sorted(d)
    <3> HIDE DEF d
    <3> QED BY <2>1, <2>2 DEF Sorted
  <2> QED BY <2>3
<1>2. CASE ~(c # <<>> /\ c[Len(c)].fromBlock = block)
  <2>1. Len(d) = Len(c) + 1
        /\ \A i \in 1..(Len(c) + 1) : d[i] = IF i = Len(c) + 1 THEN new ELSE c[i]
    BY <1>2 DEF WriteCheckpoint
  <2>2. \A i \in 1..Len(c) : c[i].fromBlock < block
    <3> SUFFICES ASSUME NEW i \in 1..Len(c) PROVE c[i].fromBlock < block
      OBVIOUS
    <3>1. Len(c) \in 1..Len(c) /\ c # <<>> OBVIOUS
    <3>2. c[Len(c)].fromBlock < block BY <1>0, <1>2, <3>1 DEF UpTo
    <3>3. i < Len(c) => c[i].fromBlock < c[Len(c)].fromBlock BY <3>1 DEF Sorted
    <3> QED BY <1>0, <3>1, <3>2, <3>3
  <2>3. ASSUME NEW i \in 1..Len(d), NEW j \in 1..Len(d), i < j
        PROVE  d[i].fromBlock < d[j].fromBlock
    <3> HIDE DEF d
    <3>1. i \in 1..Len(c) /\ d[i] = c[i] BY <2>1, <2>3
    <3>2. CASE j = Len(c) + 1 BY <2>1, <2>2, <3>1, <3>2
    <3>3. CASE j \in 1..Len(c) BY <2>1, <2>3, <3>1, <3>3 DEF Sorted
    <3> QED BY <2>1, <3>2, <3>3
  <2>4. Sorted(d)
    <3> HIDE DEF d
    <3> QED BY <2>3 DEF Sorted
  <2> QED BY <2>4
<1> QED BY <1>1, <1>2
================================================================================
