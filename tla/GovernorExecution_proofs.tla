------------------------ MODULE GovernorExecution_proofs ------------------------
(* The governor executes proposals: what it announced does not stay, what it may *)
(* do happens as often as its proposals decided, and its status agrees with the   *)
(* timelock.  An execution may begin within another and fail as a whole, so that *)
(* the invariant speaks of the governor's state at every level of the stack: the *)
(* states saved when frames began, and the current one.  At each level the calls *)
(* that are due are those its frames have yet to make, less those that operations *)
(* past the governor would have made, and cover what is announced.                *)
EXTENDS GovernorExecution, TimeLockExecution_proofs, DataLemmas

(* No execution of the governor is among the outermost n. *)
Quiet(n) == \A i \in 1..n : ~saves[i].byGovernor

IsSeq(s) == \E S : s \in Seq(S)

(* Each execution of the timelock has its saved state of the governor. *)
SavesMatch ==
  /\ IsSeq(stack) /\ IsSeq(saves)
  /\ Len(saves) = Len(stack)

AInv ==
  /\ SavesMatch
  /\ Quiet(Len(saves)) /\ executor # Governor => announced = <<>>
  /\ \A k \in 1..Len(saves) :
       Quiet(k - 1) /\ saves[k].state.executor # Governor => saves[k].state.announced = <<>>

(* Sequences of frames and of saved states. *)
LEMMA Appended ==
  ASSUME NEW s, IsSeq(s), NEW e
  PROVE  /\ IsSeq(Append(s, e))
         /\ Len(s) \in Nat /\ Len(Append(s, e)) = Len(s) + 1
         /\ \A i \in 1..Len(s) : Append(s, e)[i] = s[i]
         /\ Append(s, e)[Len(s) + 1] = e
<1>1. PICK S : s \in Seq(S) BY DEF IsSeq
<1>2. s \in Seq(S \cup {e}) BY <1>1
<1>3. Append(s, e) \in Seq(S \cup {e}) BY <1>2
<1> QED BY <1>2, <1>3 DEF IsSeq

LEMMA Popped ==
  ASSUME NEW s, IsSeq(s), s # <<>>
  PROVE  /\ IsSeq(SubSeq(s, 1, Len(s) - 1))
         /\ Len(s) \in Nat \ {0} /\ Len(SubSeq(s, 1, Len(s) - 1)) = Len(s) - 1
         /\ \A i \in 1..(Len(s) - 1) : SubSeq(s, 1, Len(s) - 1)[i] = s[i]
<1>1. PICK S : s \in Seq(S) BY DEF IsSeq
<1>2. Len(s) \in Nat \ {0} BY <1>1
<1> DEFINE n == Len(s) - 1
<1>3. n \in Nat /\ 1 \in Int /\ \A i \in 1..n : s[i] \in S
  <2>1. \A i \in 1..(Len(s) - 1) : i \in 1..Len(s) BY <1>2
  <2> QED BY <1>1, <1>2, <2>1
<1> HIDE DEF n
<1>4. /\ SubSeq(s, 1, n) \in Seq(S)
      /\ Len(SubSeq(s, 1, n)) = IF 1 <= n THEN n - 1 + 1 ELSE 0
      /\ \A i \in 1..(n - 1 + 1) : SubSeq(s, 1, n)[i] = s[1 + i - 1]
  BY <1>3, SubSeqProperties
<1>5. Len(SubSeq(s, 1, n)) = n /\ \A i \in 1..n : SubSeq(s, 1, n)[i] = s[i]
  BY <1>3, <1>4
<1> QED BY <1>2, <1>4, <1>5 DEF IsSeq, n

LEMMA Replaced ==
  ASSUME NEW s, IsSeq(s), s # <<>>, NEW e
  PROVE  /\ IsSeq([s EXCEPT ![Len(s)] = e])
         /\ Len([s EXCEPT ![Len(s)] = e]) = Len(s)
<1>1. PICK S : s \in Seq(S) BY DEF IsSeq
<1>2. s \in Seq(S \cup {e}) BY <1>1
<1>3. [s EXCEPT ![Len(s)] = e] \in Seq(S \cup {e}) BY <1>2
<1> QED BY <1>2, <1>3 DEF IsSeq

(* An execution begins, for the governor or not; only the governor announces. *)
LEMMA AnnouncedAtBegin ==
  ASSUME AInv, NEW frame, NEW byGovernor \in BOOLEAN, stack' = Append(stack, frame),
         saves' = Append(saves, [state |-> GovernorStateNow, byGovernor |-> byGovernor]),
         UNCHANGED executor, byGovernor \/ UNCHANGED announced
  PROVE  AInv'
<1> DEFINE save == [state |-> GovernorStateNow, byGovernor |-> byGovernor]
<1>1. /\ Len(saves) \in Nat /\ Len(saves') = Len(saves) + 1
      /\ \A i \in 1..Len(saves) : saves'[i] = saves[i]
      /\ saves'[Len(saves) + 1] = save
      /\ IsSeq(saves')
  BY Appended DEF AInv, SavesMatch
<1>2. SavesMatch' BY <1>1, Appended DEF AInv, SavesMatch
<1>3. /\ save.byGovernor = byGovernor
      /\ save.state.announced = announced /\ save.state.executor = executor
  BY DEF GovernorStateNow
<1> HIDE DEF save
<1>4. ASSUME Quiet(Len(saves))', executor' # Governor PROVE announced' = <<>>
  <2>1. ~saves'[Len(saves) + 1].byGovernor BY <1>1, <1>4 DEF Quiet
  <2>2. Quiet(Len(saves)) BY <1>1, <1>4 DEF Quiet
  <2> QED BY <1>1, <1>3, <1>4, <2>1, <2>2 DEF AInv
<1>5. ASSUME NEW k \in 1..Len(saves'), \A i \in 1..(k - 1) : ~saves'[i].byGovernor,
             saves'[k].state.executor # Governor
      PROVE  saves'[k].state.announced = <<>>
  <2>1. Quiet(k - 1) BY <1>1, <1>5 DEF Quiet
  <2>2. CASE k \in 1..Len(saves) BY <1>1, <1>5, <2>1, <2>2 DEF AInv
  <2>3. CASE k = Len(saves) + 1 BY <1>1, <1>3, <1>5, <2>1, <2>3 DEF AInv
  <2> QED BY <1>1, <2>2, <2>3
<1> QED BY <1>2, <1>4, <1>5 DEF AInv, Quiet

(* An execution ends: nothing is announced then, or what was before it began, or  *)
(* it was not for the governor, or the governor has made itself the executor. *)
LEMMA AnnouncedAtEnd ==
  ASSUME AInv, stack # <<>>, stack' = Pop, saves' = Front(saves),
         \/ announced' = <<>>
         \/ announced' = Last(saves).state.announced /\ executor' = Last(saves).state.executor
         \/ /\ ~Last(saves).byGovernor \/ executor = Governor
            /\ UNCHANGED <<announced, executor>>
  PROVE  AInv'
<1>1. /\ Len(saves) \in Nat \ {0} /\ Len(saves') = Len(saves) - 1
      /\ \A i \in 1..(Len(saves) - 1) : saves'[i] = saves[i]
      /\ SavesMatch'
  <2>1. Len(stack) \in Nat \ {0} BY Popped DEF AInv, SavesMatch
  <2>2. saves # <<>> BY <2>1 DEF AInv, SavesMatch
  <2> QED BY <2>2, Popped DEF AInv, SavesMatch, Front, Pop
<1>2. ASSUME Quiet(Len(saves))', executor' # Governor PROVE announced' = <<>>
  <2>1. Quiet(Len(saves) - 1) BY <1>1, <1>2 DEF Quiet
  <2>2. Last(saves).state.executor # Governor => Last(saves).state.announced = <<>>
    BY <1>1, <2>1 DEF AInv, Last
  <2>3. ~Last(saves).byGovernor => Quiet(Len(saves)) BY <1>1, <2>1 DEF Quiet, Last
  <2> QED BY <1>2, <2>2, <2>3 DEF AInv
<1>3. ASSUME NEW k \in 1..Len(saves'), \A i \in 1..(k - 1) : ~saves'[i].byGovernor,
             saves'[k].state.executor # Governor
      PROVE  saves'[k].state.announced = <<>>
  <2>1. Quiet(k - 1) BY <1>1, <1>3 DEF Quiet
  <2> QED BY <1>1, <1>3, <2>1 DEF AInv
<1> QED BY <1>1, <1>2, <1>3 DEF AInv, Quiet

(* Within an execution nothing is announced; what is, is used up. *)
LEMMA AnnouncedWithin ==
  ASSUME AInv, UNCHANGED saves,
         UNCHANGED stack \/ (stack # <<>> /\ \E frame : stack' = SetTop(frame)),
         UNCHANGED <<announced, executor>> \/ \E kind : OnlyGovernance(kind)
  PROVE  AInv'
<1>1. SavesMatch'
  <2>1. SavesMatch BY DEF AInv
  <2>2. CASE UNCHANGED stack BY <2>1, <2>2 DEF SavesMatch
  <2>3. ASSUME NEW frame, stack # <<>>, stack' = SetTop(frame) PROVE SavesMatch'
    <3>1. IsSeq(stack') /\ Len(stack') = Len(stack)
      BY <2>1, <2>3, Replaced DEF SavesMatch, SetTop
    <3> QED BY <2>1, <3>1 DEF SavesMatch
  <2> QED BY <2>2, <2>3
<1>2. CASE UNCHANGED <<announced, executor>> BY <1>1, <1>2 DEF AInv, Quiet
<1>3. ASSUME NEW kind, OnlyGovernance(kind) PROVE AInv'
  <2>1. executor # Governor
    BY <1>3, ExecutionAssumption, GovernorExecutionAssumption DEF OnlyGovernance
  <2>2. announced # <<>> BY <1>3 DEF OnlyGovernance
  <2> QED BY <1>1, <2>1, <2>2 DEF AInv, Quiet
<1> QED BY <1>2, <1>3

(* One step per action. *)
LEMMA AInvKept ==
  ASSUME AInv, [DaoNext]_daoVars
  PROVE  AInv'
<1>1. CASE UNCHANGED daoVars
  BY <1>1, AnnouncedWithin DEF daoVars, executionVars, governorState
<1>2. CASE TimelockStep
  BY <1>2, AnnouncedWithin DEF TimelockStep, governorState, Cancel, ChangeRole, CallOther,
                      OtherReturns, CallUpdateDelay, CallChangeRole, NextCall, Tick
<1>3. ASSUME NEW s, NEW op, ExecuteOnTimelock(s, op) PROVE AInv'
  BY <1>3, AnnouncedAtBegin DEF ExecuteOnTimelock, BeginExecute, governorState
<1>4. ASSUME NEW s, NEW op, NEW delay, SchedulePast(s, op, delay) PROVE AInv'
  BY <1>4, AnnouncedWithin DEF SchedulePast, ScheduleOperation
<1>5. ASSUME NEW p, Queue(p) \/ CancelProposal(p) PROVE AInv'
  BY <1>5, AnnouncedWithin DEF Queue, CancelProposal
<1>6. ASSUME NEW p, Execute(p) PROVE AInv'
  BY <1>6, AnnouncedAtBegin DEF Execute
<1>7. CASE CallSetter \/ CallRelay \/ CallUpdateTimelock \/ CallPlain
  BY <1>7, AnnouncedWithin DEF CallSetter, CallRelay, CallUpdateTimelock, CallPlain, CallGovernor,
                      NextCall
<1>8. CASE Finish
  BY <1>8, AnnouncedAtEnd DEF Finish, EndExecute, governorState
<1>9. CASE Fail
  BY <1>9, AnnouncedAtEnd DEF Fail, Revert
<1> QED BY <1>1, <1>2, <1>3, <1>4, <1>5, <1>6, <1>7, <1>8, <1>9 DEF DaoNext

(* Announcements are gone with the execution they were made for, however         *)
(* executions nest, fail and are caught (_beforeExecute, _afterExecute). *)
THEOREM AnnouncementsDoNotStay == DaoSpec => []NothingAnnouncedIsLeft
<1>1. DaoInit => AInv
  <2> SUFFICES ASSUME DaoInit PROVE AInv OBVIOUS
  <2>1. stack = <<>> /\ saves = <<>> /\ announced = <<>> BY DEF DaoInit, Init
  <2>2. <<>> \in Seq({}) /\ Len(<<>>) = 0 OBVIOUS
  <2> QED BY <2>1, <2>2 DEF AInv, SavesMatch, IsSeq
<1>2. AInv /\ [DaoNext]_daoVars => AInv' BY AInvKept
<1>3. AInv => NothingAnnouncedIsLeft BY DEF AInv, Quiet, NothingAnnouncedIsLeft
<1> QED BY <1>1, <1>2, <1>3, PTL DEF DaoSpec

--------------------------------------------------------------------------------
(* The governor's state when frame k began, or the current one. *)
GovernorLevel(k) == IF k <= Len(saves) THEN saves[k].state ELSE GovernorStateNow

HowOften(kind) == [p \in Proposals |-> Cardinality(CallsOfKind(p, kind))]

Count(announcements, kind) ==
  Cardinality({i \in 1..Len(announcements) : announcements[i] = kind})

(* Calls of this kind that executed proposals make and that onlyGovernance has  *)
(* not accepted. *)
Due(g, kind) == SumOver(HowOften(kind), g.executed) - g.governed[kind]

(* Calls of this kind that a frame has yet to make. *)
Left(frame, kind) ==
  Cardinality({i \in CallsOfKind(frame.op, kind) : i > Made(frame)})

GovernorType(g) ==
  /\ g.executed \in SUBSET Proposals /\ IsFiniteSet(g.executed)
  /\ g.announced \in Seq(GovernorKinds)
  /\ g.governed \in [GovernanceKinds -> Nat]

(* Announcements are for calls that are due. *)
Covered(g) == \A kind \in GovernanceKinds : Count(g.announced, kind) <= Due(g, kind)

(* What governor and timelock know of the same proposals. *)
Agree(g, t, open) ==
  \A p \in Proposals :
    /\ p \in g.canceled => p \notin g.timelockIds
    /\ t.timestamps[p] # 0 => p \in g.past \cup g.timelockIds
    /\ p \in g.executed => p \in Done(t) \cup open

(* Operations done by t but not by s, past the governor, with calls of this kind. *)
Strays(s, t, g, kind) ==
  {op \in Done(t) \ (Done(s) \cup g.executed) : CallsOfKind(op, kind) # {}}

Stray(s, t, g, kind) == IF Strays(s, t, g, kind) = {} THEN 0 ELSE 1

(* What a frame adds to the calls due: those it has yet to make, or, if it was not *)
(* begun by the governor, less those it has made. *)
Adds(frame, save, kind) ==
  Left(frame, kind)
    - (IF save.byGovernor THEN 0 ELSE Cardinality(CallsOfKind(frame.op, kind)))

(* A frame: what became due while it runs is what it adds, and less if within it  *)
(* operations past the governor made such calls. *)
Owes(frame, save, g, t) ==
  /\ save.state.executed \subseteq g.executed
  /\ save.byGovernor => frame.op \in g.executed
  /\ \A kind \in GovernanceKinds :
       Due(g, kind) + Stray(frame.saved, t, g, kind)
         <= Due(save.state, kind) + Adds(frame, save, kind)

(* Nothing that was done past the governor has calls for governance alone. *)
Powerless(g, t) ==
  \A op \in Done(t) \ g.executed, kind \in GovernanceKinds : CallsOfKind(op, kind) = {}

GInv ==
  /\ Len(saves) = Len(stack)
  /\ \A k \in 1..(Len(saves) + 1) :
       /\ GovernorType(GovernorLevel(k)) /\ Covered(GovernorLevel(k))
       /\ Agree(GovernorLevel(k), Level(k), Open(k - 1))
  /\ \A k \in 1..Len(saves) : Owes(stack[k], saves[k], GovernorLevel(k + 1), Level(k + 1))
  /\ \A kind \in GovernanceKinds : Due(GovernorLevel(1), kind) <= 0
  /\ Powerless(GovernorLevel(1), Level(1))

--------------------------------------------------------------------------------
(* Counting announcements *)

LEMMA CountNat ==
  ASSUME NEW K, NEW a \in Seq(K), NEW kind
  PROVE  /\ IsFiniteSet({i \in 1..Len(a) : a[i] = kind}) /\ Count(a, kind) \in Nat
<1>1. IsFiniteSet(1..Len(a)) BY FS_Interval
<1>2. IsFiniteSet({i \in 1..Len(a) : a[i] = kind}) BY <1>1, FS_Subset
<1> QED BY <1>2, FS_CardinalityType DEF Count

LEMMA CountAppend ==
  ASSUME NEW K, NEW a \in Seq(K), NEW x \in K, NEW kind
  PROVE  Count(Append(a, x), kind) = Count(a, kind) + (IF x = kind THEN 1 ELSE 0)
<1> DEFINE b == Append(a, x)
           A == {i \in 1..Len(a) : a[i] = kind}
           B == {i \in 1..Len(b) : b[i] = kind}
           n == Len(a) + 1
<1>1. /\ Len(a) \in Nat /\ Len(b) = n /\ b[n] = x /\ \A i \in 1..Len(a) : b[i] = a[i]
  OBVIOUS
<1>2. IsFiniteSet(A) /\ n \notin A /\ Cardinality(A) \in Nat
  <2>1. IsFiniteSet(A) BY CountNat
  <2>2. n \notin A BY <1>1
  <2> HIDE DEF A
  <2> QED BY <2>1, <2>2, FS_CardinalityType
<1>3. CASE x = kind
  <2>1. B = A \cup {n} BY <1>1, <1>3
  <2>2. Cardinality(B) = Cardinality(A) + 1
    <3> HIDE DEF A, B, n
    <3> QED BY <1>2, <2>1, FS_AddElement
  <2> QED BY <1>3, <2>2 DEF Count
<1>4. CASE x # kind
  <2>1. B = A BY <1>1, <1>4
  <2>2. Cardinality(B) = Cardinality(A) + 0
    <3> HIDE DEF A, B
    <3> QED BY <1>2, <2>1
  <2> QED BY <1>4, <2>2 DEF Count
<1> QED BY <1>3, <1>4

(* What is behind the i-th announcement. *)
LEMMA CountRest ==
  ASSUME NEW K, NEW a \in Seq(K), NEW i \in 1..Len(a)
  PROVE  /\ SubSeq(a, i + 1, Len(a)) \in Seq(K)
         /\ \A kind : Count(SubSeq(a, i + 1, Len(a)), kind)
                        + (IF kind = a[i] THEN 1 ELSE 0) <= Count(a, kind)
<1> DEFINE b == SubSeq(a, i + 1, Len(a))
           n == Len(a)
<1>0. n \in Nat /\ i \in 1..n OBVIOUS
<1>1. /\ b \in Seq(K) /\ Len(b) = n - i
      /\ \A j \in 1..(n - i) : b[j] = a[i + j]
  <2>1. /\ i + 1 \in Int /\ n \in Int
        /\ \A j \in (i + 1)..n : a[j] \in K
    <3>1. \A j \in 1..Len(a) : a[j] \in K OBVIOUS
    <3> QED BY <1>0, <3>1
  <2> HIDE DEF n
  <2>2. /\ SubSeq(a, i + 1, n) \in Seq(K)
        /\ Len(SubSeq(a, i + 1, n)) = IF i + 1 <= n THEN n - (i + 1) + 1 ELSE 0
        /\ \A j \in 1..(n - (i + 1) + 1) : SubSeq(a, i + 1, n)[j] = a[i + 1 + j - 1]
    BY <2>1, SubSeqProperties
  <2>3. n - (i + 1) + 1 = n - i /\ \A j \in 1..(n - i) : i + 1 + j - 1 = i + j BY <1>0
  <2>4. Len(SubSeq(a, i + 1, n)) = n - i BY <1>0, <2>2, <2>3
  <2> QED BY <2>2, <2>3, <2>4 DEF n
<1> HIDE DEF b
<1>2. ASSUME NEW kind
      PROVE  Count(b, kind) + (IF kind = a[i] THEN 1 ELSE 0) <= Count(a, kind)
  <2> DEFINE B == {j \in 1..Len(b) : b[j] = kind}
             A == {j \in 1..n : a[j] = kind}
             f == [j \in B |-> i + j]
  <2>1. IsFiniteSet(A) /\ IsFiniteSet(B) /\ Cardinality(A) \in Nat /\ Cardinality(B) \in Nat
    BY <1>1, CountNat DEF Count
  <2>2. /\ f \in [B -> A \ {i}]
        /\ \A x, y \in B : f[x] = f[y] => x = y
    BY <1>0, <1>1
  <2>3. f \in Injection(B, A \ {i})
    <3> HIDE DEF f, A, B
    <3> QED BY <2>2 DEF Injection, IsInjective
  <2> HIDE DEF f, A, B
  <2>4. IsFiniteSet(A \ {i}) BY <2>1, FS_RemoveElement
  <2>5. Cardinality(B) <= Cardinality(A \ {i}) BY <2>3, <2>4, FS_Injection
  <2>6. Cardinality(A \ {i}) = IF i \in A THEN Cardinality(A) - 1 ELSE Cardinality(A)
    BY <2>1, FS_RemoveElement
  <2>7. i \in A <=> kind = a[i] BY <1>0 DEF A
  <2>8. Cardinality(B) + (IF kind = a[i] THEN 1 ELSE 0) <= Cardinality(A)
    BY <2>1, <2>5, <2>6, <2>7
  <2> QED BY <2>8 DEF Count, A, B
<1> QED BY <1>1, <1>2 DEF b

(* The announcements for the first n calls. *)
IsUpTo(f, calls) ==
  f = [n \in 0..Len(calls) |->
         IF n = 0 THEN <<>>
         ELSE IF calls[n] \in GovernorKinds THEN Append(f[n - 1], calls[n])
         ELSE f[n - 1]]

LEMMA AnnouncedIs ==
  ASSUME NEW p
  PROVE  Announced(p) = (CHOOSE f : IsUpTo(f, Calls[p]))[Len(Calls[p])]
BY DEF Announced, IsUpTo

(* There is such a function: the recursion defines what it says. *)
LEMMA UpToExists ==
  ASSUME NEW calls \in Seq(CallKinds)
  PROVE  \E f : IsUpTo(f, calls)
<1> DEFINE N == Len(calls)
           Of(f, n) == /\ DOMAIN f = 0..n /\ f[0] = <<>>
                       /\ \A m \in 1..n : f[m] = IF calls[m] \in GovernorKinds
                                                 THEN Append(f[m - 1], calls[m])
                                                 ELSE f[m - 1]
           T == {n \in 0..N : ~ \E f : Of(f, n)}
<1>0. N \in Nat OBVIOUS
<1> HIDE DEF N
<1>1. T = {}
  <2> SUFFICES ASSUME T # {} PROVE FALSE
    OBVIOUS
  <2>1. PICK n \in T : \A m \in T : n <= m
    <3>1. T \subseteq Nat BY <1>0
    <3> HIDE DEF T
    <3> QED BY <3>1, LeastNumber
  <2>2. n # 0
    <3>1. Of([i \in 0..0 |-> <<>>], 0) OBVIOUS
    <3> QED BY <2>1, <3>1
  <2>3. n \in 0..N /\ n - 1 \in 0..N /\ n - 1 \notin T BY <1>0, <2>1, <2>2
  <2>4. PICK f : Of(f, n - 1) BY <2>3
  <2> DEFINE last == IF calls[n] \in GovernorKinds THEN Append(f[n - 1], calls[n]) ELSE f[n - 1]
             g == [m \in 0..n |-> IF m = n THEN last ELSE f[m]]
  <2>5. \A m \in 0..(n - 1) : g[m] = f[m] BY <2>3
  <2>6. g[n] = last /\ DOMAIN g = 0..n BY <1>0, <2>3
  <2> HIDE DEF g
  <2>7. g[0] = <<>>
    <3>1. 0 \in 0..(n - 1) BY <2>2, <2>3
    <3> QED BY <2>4, <2>5, <3>1
  <2>8. ASSUME NEW m \in 1..n
        PROVE  g[m] = IF calls[m] \in GovernorKinds THEN Append(g[m - 1], calls[m])
                      ELSE g[m - 1]
    <3>1. m - 1 \in 0..(n - 1) /\ g[m - 1] = f[m - 1] BY <2>3, <2>5
    <3>2. CASE m = n BY <2>6, <3>1, <3>2
    <3>3. CASE m # n
      <4>1. m \in 1..(n - 1) /\ m \in 0..(n - 1) BY <2>3, <3>3
      <4> QED BY <2>4, <2>5, <3>1, <4>1
    <3> QED BY <3>2, <3>3
  <2>9. Of(g, n) BY <2>6, <2>7, <2>8
  <2> QED BY <2>1, <2>9
<1>2. PICK f : Of(f, N) BY <1>0, <1>1
<1> DEFINE g == [m \in 0..N |-> f[m]]
<1>3. \A m \in 0..N : g[m] = f[m] OBVIOUS
<1>4. ASSUME NEW m \in 0..N
      PROVE  g[m] = IF m = 0 THEN <<>>
                    ELSE IF calls[m] \in GovernorKinds THEN Append(g[m - 1], calls[m])
                    ELSE g[m - 1]
  <2>1. CASE m = 0 BY <1>2, <2>1
  <2>2. CASE m # 0
    <3>1. m \in 1..N /\ m - 1 \in 0..N BY <1>0, <2>2
    <3> HIDE DEF g
    <3> QED BY <1>2, <1>3, <2>2, <3>1
  <2> QED BY <2>1, <2>2
<1>5. IsUpTo(g, calls)
  <2>1. g = [m \in 0..N |-> g[m]] OBVIOUS
  <2> HIDE DEF g
  <2> QED BY <1>4, <2>1 DEF IsUpTo, N
<1> QED BY <1>5

(* Every governance call of a proposal is announced once. *)
LEMMA AnnouncedCount ==
  ASSUME NEW p \in Operations, NEW a \in Seq(GovernorKinds)
  PROVE  /\ a \o Announced(p) \in Seq(GovernorKinds)
         /\ \A kind \in GovernorKinds :
              Count(a \o Announced(p), kind) = Count(a, kind) + Cardinality(CallsOfKind(p, kind))
<1> DEFINE calls == Calls[p]
           N == Len(calls)
           f == CHOOSE g : IsUpTo(g, calls)
           OfKind(n, kind) == {i \in 1..n : calls[i] = kind}
           Tallied(n) == /\ f[n] \in Seq(GovernorKinds)
                          /\ \A kind \in GovernorKinds :
                               Count(a \o f[n], kind) = Count(a, kind) + Cardinality(OfKind(n, kind))
<1>1. calls \in Seq(CallKinds) BY ExecutionAssumption
<1>2. N \in Nat BY <1>1
<1>3. IsUpTo(f, calls) BY <1>1, UpToExists
<1>4. /\ f[0] = <<>>
      /\ \A n \in 1..N : f[n] = IF calls[n] \in GovernorKinds THEN Append(f[n - 1], calls[n])
                                ELSE f[n - 1]
  <2> HIDE DEF f, calls
  <2>1. \A n \in 0..N : f[n] = IF n = 0 THEN <<>>
                               ELSE IF calls[n] \in GovernorKinds THEN Append(f[n - 1], calls[n])
                               ELSE f[n - 1]
    BY <1>3 DEF IsUpTo
  <2> QED BY <1>2, <2>1
<1> HIDE DEF f, N
<1>5. Tallied(0)
  <2>1. f[0] \in Seq(GovernorKinds) /\ a \o f[0] = a BY <1>4
  <2>2. \A kind : OfKind(0, kind) = {} OBVIOUS
  <2>3. Cardinality({}) = 0 BY FS_EmptySet
  <2>4. \A kind : Count(a, kind) \in Nat BY CountNat
  <2> HIDE DEF OfKind
  <2>5. ASSUME NEW kind \in GovernorKinds
        PROVE  Count(a \o f[0], kind) = Count(a, kind) + Cardinality(OfKind(0, kind))
    <3>1. Cardinality(OfKind(0, kind)) = 0 BY <2>2, <2>3
    <3>2. Count(a \o f[0], kind) = Count(a, kind) BY <2>1
    <3> QED BY <2>4, <3>1, <3>2
  <2> QED BY <2>1, <2>5
<1>6. ASSUME NEW n \in 1..N, Tallied(n - 1) PROVE Tallied(n)
  <2> DEFINE before == f[n - 1]
             x == calls[n]
  <2>1. before \in Seq(GovernorKinds) /\ a \o before \in Seq(GovernorKinds)
    BY <1>6
  <2>2. \A kind : IsFiniteSet(OfKind(n - 1, kind)) /\ n \notin OfKind(n - 1, kind)
                  /\ Cardinality(OfKind(n - 1, kind)) \in Nat
    <3> SUFFICES ASSUME NEW kind
                 PROVE  IsFiniteSet(OfKind(n - 1, kind)) /\ n \notin OfKind(n - 1, kind)
                        /\ Cardinality(OfKind(n - 1, kind)) \in Nat
      OBVIOUS
    <3>1. IsFiniteSet(1..(n - 1)) BY <1>2, FS_Interval
    <3>2. IsFiniteSet(OfKind(n - 1, kind)) BY <3>1, FS_Subset
    <3>3. n \notin OfKind(n - 1, kind) BY <1>2
    <3> QED BY <3>2, <3>3, FS_CardinalityType
  <2>3. \A kind : OfKind(n, kind) = OfKind(n - 1, kind) \cup (IF x = kind THEN {n} ELSE {})
    BY <1>2
  <2>4. \A kind : Cardinality(OfKind(n, kind))
                    = Cardinality(OfKind(n - 1, kind)) + (IF x = kind THEN 1 ELSE 0)
    <3> HIDE DEF OfKind, x
    <3> SUFFICES ASSUME NEW kind
                 PROVE  Cardinality(OfKind(n, kind))
                          = Cardinality(OfKind(n - 1, kind)) + (IF x = kind THEN 1 ELSE 0)
      OBVIOUS
    <3>1. CASE x = kind
      <4>1. OfKind(n, kind) = OfKind(n - 1, kind) \cup {n} BY <2>3, <3>1
      <4> QED BY <2>2, <3>1, <4>1, FS_AddElement
    <3>2. CASE x # kind
      <4>1. OfKind(n, kind) = OfKind(n - 1, kind) BY <2>3, <3>2
      <4> QED BY <2>2, <3>2, <4>1
    <3> QED BY <3>1, <3>2
  <2>5. \A kind : Count(a, kind) \in Nat BY CountNat
  <2>6. CASE x \in GovernorKinds
    <3>1. f[n] = Append(before, x) BY <1>4, <2>6
    <3> HIDE DEF before, x
    <3>2. f[n] \in Seq(GovernorKinds) BY <2>1, <2>6, <3>1
    <3>3. a \o f[n] = Append(a \o before, x)
      <4>1. <<x>> \in Seq(GovernorKinds) BY <2>6
      <4>2. (a \o before) \o <<x>> = a \o (before \o <<x>>) BY <2>1, <4>1, ConcatAssociative
      <4>3. Append(a \o before, x) = (a \o before) \o <<x>> BY <2>1, <2>6, AppendIsConcat
      <4>4. Append(before, x) = before \o <<x>> BY <2>1, <2>6, AppendIsConcat
      <4> QED BY <3>1, <4>2, <4>3, <4>4
    <3>4. \A kind : Count(a \o f[n], kind) = Count(a \o before, kind) + (IF x = kind THEN 1 ELSE 0)
      <4> DEFINE b == a \o before
      <4>1. b \in Seq(GovernorKinds) BY <2>1
      <4> HIDE DEF b
      <4>2. \A kind : Count(Append(b, x), kind) = Count(b, kind) + (IF x = kind THEN 1 ELSE 0)
        BY <2>6, <4>1, CountAppend
      <4> QED BY <3>3, <4>2 DEF b
    <3> HIDE DEF OfKind
    <3>5. \A kind \in GovernorKinds :
            Count(a \o before, kind) = Count(a, kind) + Cardinality(OfKind(n - 1, kind))
      BY <1>6 DEF before
    <3>6. ASSUME NEW kind \in GovernorKinds
          PROVE  Count(a \o f[n], kind) = Count(a, kind) + Cardinality(OfKind(n, kind))
      BY <2>2, <2>4, <2>5, <3>4, <3>5
    <3> QED BY <3>2, <3>6
  <2>7. CASE x \notin GovernorKinds
    <3>1. f[n] = before BY <1>4, <2>7
    <3> HIDE DEF x
    <3>2. \A kind \in GovernorKinds : x # kind BY <2>7
    <3>3. \A kind \in GovernorKinds : Cardinality(OfKind(n, kind)) = Cardinality(OfKind(n - 1, kind))
      <4> HIDE DEF OfKind
      <4> QED BY <2>2, <2>4, <3>2
    <3> QED BY <1>6, <3>1, <3>3
  <2> QED BY <2>6, <2>7
<1>7. Tallied(N)
  <2> DEFINE T == {n \in 0..N : ~Tallied(n)}
  <2> HIDE DEF Tallied
  <2> SUFFICES ASSUME ~Tallied(N) PROVE FALSE
    OBVIOUS
  <2>1. T # {} /\ T \subseteq Nat BY <1>2
  <2>2. PICK n \in T : \A m \in T : n <= m
    <3> HIDE DEF T
    <3> QED BY <2>1, LeastNumber
  <2>3. n \in 1..N /\ n - 1 \in 0..N /\ n - 1 \notin T BY <1>2, <1>5, <2>2
  <2> QED BY <1>6, <2>2, <2>3
<1>8. Announced(p) = f[N] BY AnnouncedIs DEF f, N
<1>9. \A kind : CallsOfKind(p, kind) = OfKind(N, kind) BY DEF CallsOfKind, N
<1> HIDE DEF OfKind, calls
<1> QED BY <1>7, <1>8, <1>9

--------------------------------------------------------------------------------
(* What is due, and what is left to call *)

LEMMA CallsFinite ==
  ASSUME NEW p \in Operations, NEW kind
  PROVE  IsFiniteSet(CallsOfKind(p, kind)) /\ Cardinality(CallsOfKind(p, kind)) \in Nat
<1>1. Len(Calls[p]) \in Nat BY ExecutionAssumption
<1>2. IsFiniteSet(1..Len(Calls[p])) BY <1>1, FS_Interval
<1>3. IsFiniteSet(CallsOfKind(p, kind)) BY <1>2, FS_Subset DEF CallsOfKind
<1> QED BY <1>3, FS_CardinalityType

LEMMA DueInt ==
  ASSUME NEW g, GovernorType(g), NEW kind \in GovernanceKinds
  PROVE  /\ Due(g, kind) \in Int /\ g.governed[kind] \in Nat
         /\ SumOver(HowOften(kind), g.executed) \in Nat
<1>1. \A p \in Proposals : HowOften(kind)[p] \in Nat
  BY CallsFinite, GovernorExecutionAssumption DEF HowOften
<1>2. g.executed \in SUBSET Proposals /\ IsFiniteSet(g.executed) /\ g.governed[kind] \in Nat
  BY DEF GovernorType
<1>3. SumOver(HowOften(kind), g.executed) \in Nat BY <1>1, <1>2, SumNat
<1> QED BY <1>2, <1>3 DEF Due

(* Executing a proposal makes its calls due. *)
LEMMA DueMore ==
  ASSUME NEW g, GovernorType(g), NEW p \in Proposals, p \notin g.executed,
         NEW h, h.executed = g.executed \cup {p}, h.governed = g.governed,
         NEW kind \in GovernanceKinds
  PROVE  Due(h, kind) = Due(g, kind) + Cardinality(CallsOfKind(p, kind))
<1> DEFINE f == HowOften(kind)
           E == g.executed
<1>1. \A q \in Proposals : f[q] \in Nat
  BY CallsFinite, GovernorExecutionAssumption DEF HowOften
<1>2. E \in SUBSET Proposals /\ IsFiniteSet(E) /\ g.governed[kind] \in Nat
  BY DEF GovernorType
<1>3. f[p] = Cardinality(CallsOfKind(p, kind)) BY DEF HowOften
<1>4. SumOver(f, E) \in Nat BY DueInt
<1> HIDE DEF f
<1>5. SumOver(f, E \cup {p}) = f[p] + SumOver(f, E)
  <2>1. \A q \in E \cup {p} : f[q] \in Int BY <1>1, <1>2
  <2> QED BY <1>2, <2>1, SumAdd
<1>6. Due(g, kind) = SumOver(f, E) - g.governed[kind]
      /\ Due(h, kind) = SumOver(f, E \cup {p}) - g.governed[kind]
  BY DEF Due, f
<1>7. f[p] \in Nat BY <1>1
<1> QED BY <1>2, <1>3, <1>4, <1>5, <1>6, <1>7

LEMMA LeftNat ==
  ASSUME NEW f, f.op \in Operations, NEW kind
  PROVE  /\ IsFiniteSet({i \in CallsOfKind(f.op, kind) : i > Made(f)})
         /\ Left(f, kind) \in Nat
<1>1. IsFiniteSet(CallsOfKind(f.op, kind)) BY CallsFinite
<1>2. IsFiniteSet({i \in CallsOfKind(f.op, kind) : i > Made(f)}) BY <1>1, FS_Subset
<1> QED BY <1>2, FS_CardinalityType DEF Left

(* A frame that begins has all of its calls to make, one that ends has none. *)
LEMMA LeftAtStart ==
  ASSUME NEW f, f.op \in Operations, Made(f) = 0, NEW kind
  PROVE  Left(f, kind) = Cardinality(CallsOfKind(f.op, kind))
<1>1. {i \in CallsOfKind(f.op, kind) : i > Made(f)} = CallsOfKind(f.op, kind)
  BY DEF CallsOfKind
<1> QED BY <1>1 DEF Left

LEMMA LeftAtEnd ==
  ASSUME NEW f, f.op \in Operations, Made(f) \in Nat, Made(f) >= Len(Calls[f.op]), NEW kind
  PROVE  Left(f, kind) = 0
<1>0. Len(Calls[f.op]) \in Nat BY ExecutionAssumption
<1>1. {i \in CallsOfKind(f.op, kind) : i > Made(f)} = {} BY <1>0 DEF CallsOfKind
<1> QED BY <1>1, FS_EmptySet DEF Left

(* A call is one less to make of its kind. *)
LEMMA LeftAfterCall ==
  ASSUME NEW e, e.op \in Operations, Made(e) \in Nat, NEW f, f.op = e.op,
         Made(f) = Made(e) + 1, Made(f) \in 1..Len(Calls[e.op]), NEW kind
  PROVE  Left(e, kind) = Left(f, kind) + (IF kind = Calls[e.op][Made(f)] THEN 1 ELSE 0)
<1> DEFINE C == CallsOfKind(e.op, kind)
           m == Made(f)
           A == {i \in C : i > Made(e)}
           B == {i \in C : i > m}
<1>0. \A i \in C : i \in Nat BY DEF CallsOfKind
<1>1. IsFiniteSet(B) /\ Left(e, kind) = Cardinality(A) /\ Left(f, kind) = Cardinality(B)
      /\ Cardinality(B) \in Nat
  BY LeftNat DEF Left
<1>2. m \in C <=> kind = Calls[e.op][m] BY DEF CallsOfKind
<1>3. m \notin B BY <1>0
<1>4. CASE m \in C
  <2>1. A = B \cup {m} BY <1>0, <1>4
  <2> HIDE DEF A, B, m, C
  <2> QED BY <1>1, <1>2, <1>3, <1>4, <2>1, FS_AddElement DEF m
<1>5. CASE m \notin C
  <2>1. A = B BY <1>0, <1>5
  <2> HIDE DEF A, B, C
  <2> QED BY <1>1, <1>2, <1>5, <2>1
<1> QED BY <1>4, <1>5

LEMMA AddsInt ==
  ASSUME NEW f, f.op \in Operations, NEW save, NEW kind
  PROVE  Adds(f, save, kind) \in Int
<1>1. Left(f, kind) \in Nat /\ Cardinality(CallsOfKind(f.op, kind)) \in Nat
  BY LeftNat, CallsFinite
<1> QED BY <1>1 DEF Adds

LEMMA AddsAfterCall ==
  ASSUME NEW e, e.op \in Operations, NEW f, f.op = e.op, NEW save, NEW kind, NEW used \in 0..1,
         Left(e, kind) = Left(f, kind) + used
  PROVE  Adds(e, save, kind) = Adds(f, save, kind) + used
<1>1. /\ Left(e, kind) \in Nat /\ Left(f, kind) \in Nat
      /\ Cardinality(CallsOfKind(e.op, kind)) \in Nat
  BY LeftNat, CallsFinite
<1> QED BY <1>1 DEF Adds

LEMMA StrayInt ==
  ASSUME NEW s, NEW t, NEW g, NEW kind
  PROVE  /\ Stray(s, t, g, kind) \in 0..1
         /\ Done(t) \subseteq Done(s) => Stray(s, t, g, kind) = 0
<1>1. Done(t) \subseteq Done(s) => Strays(s, t, g, kind) = {}
  <2> HIDE DEF Done
  <2> QED BY DEF Strays
<1> QED BY <1>1 DEF Stray

(* Strays of two stretches are strays of one of them. *)
LEMMA StrayAdds ==
  ASSUME NEW r, NEW s, NEW t, NEW g, NEW h, g.executed \subseteq h.executed, NEW kind
  PROVE  Stray(r, t, h, kind) <= Stray(r, s, g, kind) + Stray(s, t, h, kind)
<1>1. Strays(r, t, h, kind) \subseteq Strays(r, s, g, kind) \cup Strays(s, t, h, kind)
  <2> HIDE DEF Done
  <2> QED BY DEF Strays
<1>2. Strays(r, t, h, kind) # {} => Strays(r, s, g, kind) # {} \/ Strays(s, t, h, kind) # {}
  BY <1>1
<1> HIDE DEF Strays
<1> QED BY <1>2 DEF Stray

--------------------------------------------------------------------------------
(* The levels *)

LEMMA Sizes ==
  ASSUME IInv, GInv
  PROVE  /\ Len(stack) \in Nat /\ Len(saves) = Len(stack)
         /\ (stack = <<>> <=> Len(stack) = 0)
         /\ stack # <<>> => Top = stack[Len(stack)]
BY StackType DEF IInv, GInv, Top

(* The top frame may have changed, and the current state. *)
LEMMA LevelStays ==
  ASSUME IInv, GInv, UNCHANGED saves, Len(stack') = Len(stack),
         \A k \in 1..Len(stack) :
           /\ stack'[k].op = stack[k].op /\ stack'[k].saved = stack[k].saved
           /\ k < Len(stack) => stack'[k] = stack[k],
         GovernorType(GovernorStateNow'), Covered(GovernorStateNow'),
         Agree(GovernorStateNow', State', Open(Len(stack))),
         stack # <<>> => Owes(stack'[Len(stack)], saves[Len(stack)], GovernorStateNow', State'),
         stack = <<>> => \A kind \in GovernanceKinds : Due(GovernorStateNow', kind) <= 0,
         stack = <<>> => Powerless(GovernorStateNow', State')
  PROVE  GInv'
<1>0. PICK n \in Nat : Len(stack) = n /\ Len(saves) = n /\ (stack = <<>> <=> n = 0)
  BY Sizes
<1>1. Len(stack) = n /\ Len(saves) = n /\ (stack = <<>> <=> n = 0) BY <1>0
<1>2. \A k \in 1..n : GovernorLevel(k)' = GovernorLevel(k) /\ Level(k)' = Level(k)
  BY <1>1 DEF GovernorLevel, Level
<1>3. GovernorLevel(n + 1)' = GovernorStateNow' /\ Level(n + 1)' = State'
  BY <1>1 DEF GovernorLevel, Level
<1>4. \A m \in 0..n : Open(m)' = Open(m) BY <1>1 DEF Open
<1>5. ASSUME NEW k \in 1..(n + 1)
      PROVE  /\ GovernorType(GovernorLevel(k)') /\ Covered(GovernorLevel(k)')
             /\ Agree(GovernorLevel(k)', Level(k)', Open(k - 1)')
  <2>1. CASE k = n + 1 BY <1>1, <1>3, <1>4, <2>1
  <2>2. CASE k \in 1..n BY <1>1, <1>2, <1>4, <2>2 DEF GInv
  <2> QED BY <2>1, <2>2
<1>6. ASSUME NEW k \in 1..n
      PROVE  Owes(stack'[k], saves[k], GovernorLevel(k + 1)', Level(k + 1)')
  <2>1. CASE k = n BY <1>1, <1>3, <2>1
  <2>2. CASE k < n
    <3>1. /\ stack'[k] = stack[k] /\ GovernorLevel(k + 1)' = GovernorLevel(k + 1)
          /\ Level(k + 1)' = Level(k + 1)
      BY <1>1, <1>2, <2>2
    <3> QED BY <1>1, <3>1 DEF GInv
  <2> QED BY <2>1, <2>2
<1>7. /\ \A kind \in GovernanceKinds : Due(GovernorLevel(1)', kind) <= 0
      /\ Powerless(GovernorLevel(1)', Level(1)')
  <2>1. CASE n = 0 BY <1>1, <1>3, <2>1
  <2>2. CASE n # 0 BY <1>2, <2>2 DEF GInv
  <2> QED BY <2>1, <2>2
<1> QED BY <1>1, <1>5, <1>6, <1>7 DEF GInv

(* A frame begins in the current state. *)
LEMMA LevelOpens ==
  ASSUME IInv, GInv, UNCHANGED State, NEW frame, frame.saved = State,
         stack' = Append(stack, frame),
         NEW save, save.state = GovernorStateNow,
         Len(saves') = Len(saves) + 1, saves'[Len(saves) + 1] = save,
         \A k \in 1..Len(saves) : saves'[k] = saves[k],
         GovernorType(GovernorStateNow'), Covered(GovernorStateNow'),
         Agree(GovernorStateNow', State, Open(Len(stack)) \cup {frame.op}),
         Owes(frame, save, GovernorStateNow', State)
  PROVE  GInv'
<1>0. PICK n \in Nat : Len(stack) = n /\ Len(saves) = n
  BY Sizes
<1>1. Len(stack) = n /\ Len(saves) = n BY <1>0
<1>2. Len(stack') = n + 1 /\ stack'[n + 1] = frame /\ \A k \in 1..n : stack'[k] = stack[k]
  BY <1>1, StackType DEF IInv
<1>3. Len(saves') = n + 1 /\ saves'[n + 1] = save /\ \A k \in 1..n : saves'[k] = saves[k]
  BY <1>1
<1>4. /\ \A k \in 1..(n + 1) : GovernorLevel(k)' = GovernorLevel(k)
      /\ GovernorLevel(n + 2)' = GovernorStateNow'
  BY <1>1, <1>3 DEF GovernorLevel
<1>5. /\ \A k \in 1..(n + 1) : Level(k)' = Level(k)
      /\ Level(n + 2)' = State
  BY <1>1, <1>2 DEF Level
<1>6. /\ \A m \in 0..n : Open(m)' = Open(m)
      /\ Open(n + 1)' = Open(n) \cup {frame.op}
  BY <1>1, <1>2 DEF Open
<1>7. ASSUME NEW k \in 1..(n + 2)
      PROVE  /\ GovernorType(GovernorLevel(k)') /\ Covered(GovernorLevel(k)')
             /\ Agree(GovernorLevel(k)', Level(k)', Open(k - 1)')
  <2>1. CASE k = n + 2
    <3>1. k - 1 = n + 1 BY <2>1
    <3>2. /\ GovernorLevel(k)' = GovernorStateNow' /\ Level(k)' = State
          /\ Open(k - 1)' = Open(Len(stack)) \cup {frame.op}
      BY <1>1, <1>4, <1>5, <1>6, <2>1, <3>1
    <3> QED BY <3>2
  <2>2. CASE k \in 1..(n + 1) BY <1>1, <1>4, <1>5, <1>6, <2>2 DEF GInv
  <2> QED BY <2>1, <2>2
<1>8. ASSUME NEW k \in 1..(n + 1)
      PROVE  Owes(stack'[k], saves'[k], GovernorLevel(k + 1)', Level(k + 1)')
  <2>1. CASE k = n + 1
    <3>1. k + 1 = n + 2 BY <2>1
    <3>2. GovernorLevel(k + 1)' = GovernorStateNow' /\ Level(k + 1)' = State
      BY <1>4, <1>5, <3>1
    <3>3. stack'[k] = frame /\ saves'[k] = save BY <1>2, <1>3, <2>1
    <3> QED BY <3>2, <3>3
  <2>2. CASE k \in 1..n
    <3>1. /\ k + 1 \in 1..(n + 1) /\ GovernorLevel(k + 1)' = GovernorLevel(k + 1)
          /\ Level(k + 1)' = Level(k + 1)
      BY <1>4, <1>5, <2>2
    <3>2. stack'[k] = stack[k] /\ saves'[k] = saves[k] BY <1>2, <1>3, <2>2
    <3>3. Owes(stack[k], saves[k], GovernorLevel(k + 1), Level(k + 1))
      BY <1>1, <2>2 DEF GInv
    <3> QED BY <3>1, <3>2, <3>3
  <2>3. k = n + 1 \/ k \in 1..n OBVIOUS
  <2> QED BY <2>1, <2>2, <2>3, Zenon
<1>9. /\ \A kind \in GovernanceKinds : Due(GovernorLevel(1)', kind) <= 0
      /\ Powerless(GovernorLevel(1)', Level(1)')
  BY <1>4, <1>5 DEF GInv
<1> QED BY <1>2, <1>3, <1>7, <1>8, <1>9 DEF GInv

(* The top frame is gone. *)
LEMMA LevelCloses ==
  ASSUME IInv, AInv, GInv, stack # <<>>, stack' = Pop, saves' = Front(saves),
         GovernorType(GovernorStateNow'), Covered(GovernorStateNow'),
         Agree(GovernorStateNow', State', Open(Len(stack) - 1)),
         saves[Len(saves)].state.executed \subseteq GovernorStateNow'.executed,
         \A kind \in GovernanceKinds :
           Due(GovernorStateNow', kind) + Stray(Top.saved, State', GovernorStateNow', kind)
             <= Due(saves[Len(saves)].state, kind)
  PROVE  GInv'
<1>0. PICK n \in Nat : Len(stack) = n + 1
  <2>1. Len(stack) \in Nat \ {0} BY TopType DEF IInv
  <2>2. Len(stack) - 1 \in Nat BY <2>1
  <2> QED BY <2>1, <2>2
<1>1. Len(stack) = n + 1 /\ Len(saves) = n + 1 BY <1>0, Sizes
<1>2. Len(stack') = n /\ \A k \in 1..n : stack'[k] = stack[k]
  BY <1>1, PopProperties DEF IInv
<1>3. Len(saves') = n /\ \A k \in 1..n : saves'[k] = saves[k]
  <2>1. saves # <<>> BY <1>1
  <2> QED BY <1>1, <2>1, Popped DEF AInv, SavesMatch, Front
<1>4. /\ \A k \in 1..n : GovernorLevel(k)' = GovernorLevel(k)
      /\ GovernorLevel(n + 1)' = GovernorStateNow'
      /\ GovernorLevel(n + 1) = saves[Len(saves)].state
  BY <1>1, <1>3 DEF GovernorLevel
<1>5. /\ \A k \in 1..n : Level(k)' = Level(k)
      /\ Level(n + 1)' = State' /\ Level(n + 1) = Top.saved
  BY <1>1, <1>2 DEF Level, Top
<1>6. \A m \in 0..n : Open(m)' = Open(m) BY <1>1, <1>2 DEF Open
<1>7. ASSUME NEW k \in 1..(n + 1)
      PROVE  /\ GovernorType(GovernorLevel(k)') /\ Covered(GovernorLevel(k)')
             /\ Agree(GovernorLevel(k)', Level(k)', Open(k - 1)')
  <2>1. CASE k = n + 1 BY <1>1, <1>4, <1>5, <1>6, <2>1
  <2>2. CASE k \in 1..n BY <1>1, <1>4, <1>5, <1>6, <2>2 DEF GInv
  <2> QED BY <2>1, <2>2
<1> DEFINE g == GovernorLevel(n + 1)
           h == GovernorStateNow'
           s == Top.saved
           t == State'
<1>8. /\ \A kind \in GovernanceKinds : Due(h, kind) + Stray(s, t, h, kind) <= Due(g, kind)
      /\ g.executed \subseteq h.executed
      /\ GovernorType(g) /\ GovernorType(h) /\ Covered(h)
  BY <1>1, <1>4 DEF GInv
<1> HIDE DEF g, h, s, t
<1>9. \A kind \in GovernanceKinds : Due(g, kind) \in Int /\ Due(h, kind) \in Int
  BY <1>8, DueInt
<1>10. ASSUME NEW k \in 1..n
       PROVE  Owes(stack'[k], saves'[k], GovernorLevel(k + 1)', Level(k + 1)')
  <2>1. CASE k = n
    <3>1. Owes(stack[n], saves[n], g, s) BY <1>1, <1>5, <2>1 DEF GInv, g, s
    <3>2. GovernorType(saves[n].state) /\ stack[n].op \in Operations
      <4>1. GovernorLevel(n) = saves[n].state BY <1>1 DEF GovernorLevel
      <4>2. stack[n] \in Frame BY <1>1, <2>1, StackType DEF IInv
      <4> QED BY <1>1, <2>1, <4>1, <4>2 DEF GInv, Frame
    <3>3. \A kind \in GovernanceKinds : Due(saves[n].state, kind) \in Int BY <3>2, DueInt
    <3>4. \A kind : Adds(stack[n], saves[n], kind) \in Int BY <3>2, AddsInt
    <3>5. ASSUME NEW kind \in GovernanceKinds
          PROVE  Due(h, kind) + Stray(stack[n].saved, t, h, kind)
                   <= Due(saves[n].state, kind) + Adds(stack[n], saves[n], kind)
      <4> DEFINE r == stack[n].saved
      <4>1. Stray(r, t, h, kind) <= Stray(r, s, g, kind) + Stray(s, t, h, kind)
        BY <1>8, StrayAdds
      <4>2. /\ Stray(r, t, h, kind) \in Int /\ Stray(r, s, g, kind) \in Int
            /\ Stray(s, t, h, kind) \in Int
        BY StrayInt
      <4>3. Due(g, kind) + Stray(r, s, g, kind)
              <= Due(saves[n].state, kind) + Adds(stack[n], saves[n], kind)
        BY <3>1 DEF Owes
      <4> HIDE DEF r
      <4>4. Due(h, kind) + Stray(s, t, h, kind) <= Due(g, kind) BY <1>8
      <4>5. /\ Due(g, kind) \in Int /\ Due(h, kind) \in Int
            /\ Due(saves[n].state, kind) \in Int /\ Adds(stack[n], saves[n], kind) \in Int
        BY <1>9, <3>3, <3>4
      <4> QED BY <4>1, <4>2, <4>3, <4>4, <4>5 DEF r
    <3>6. Owes(stack[n], saves[n], h, t) BY <1>8, <3>1, <3>5 DEF Owes
    <3> QED BY <1>2, <1>3, <1>4, <1>5, <2>1, <3>6 DEF h, t
  <2>2. CASE k \in 1..(n - 1) BY <1>1, <1>2, <1>3, <1>4, <1>5, <2>2 DEF GInv
  <2> QED BY <2>1, <2>2
<1>11. /\ \A kind \in GovernanceKinds : Due(GovernorLevel(1)', kind) <= 0
       /\ Powerless(GovernorLevel(1)', Level(1)')
  <2>1. CASE n = 0
    <3>1. /\ \A kind \in GovernanceKinds : Due(g, kind) <= 0
          /\ Powerless(g, s)
      BY <1>5, <2>1 DEF GInv, g, s
    <3>2. ASSUME NEW kind \in GovernanceKinds
          PROVE  Due(h, kind) <= 0 /\ Strays(s, t, h, kind) = {}
      <4>1. Due(h, kind) >= 0
        <5>1. h.announced \in Seq(GovernorKinds) BY <1>8 DEF GovernorType
        <5>2. Count(h.announced, kind) \in Nat BY <5>1, CountNat
        <5> QED BY <1>8, <1>9, <5>2 DEF Covered
      <4>2. Stray(s, t, h, kind) \in 0..1 BY StrayInt
      <4>3. Due(h, kind) <= 0 /\ Stray(s, t, h, kind) = 0
        BY <1>8, <1>9, <3>1, <4>1, <4>2
      <4> QED BY <4>3 DEF Stray
    <3>3. Powerless(h, t)
      <4> SUFFICES ASSUME NEW op \in Done(t) \ h.executed, NEW kind \in GovernanceKinds
                   PROVE  CallsOfKind(op, kind) = {}
        BY DEF Powerless
      <4>1. CASE op \in Done(s) BY <1>8, <3>1, <4>1 DEF Powerless
      <4>2. CASE op \notin Done(s)
        <5> HIDE DEF Done
        <5> QED BY <3>2, <4>2 DEF Strays
      <4> QED BY <4>1, <4>2
    <3> QED BY <1>4, <1>5, <2>1, <3>2, <3>3 DEF h, t
  <2>2. CASE n # 0
    <3>1. 1 \in 1..n BY <2>2
    <3> QED BY <1>4, <1>5, <3>1 DEF GInv
  <2> QED BY <2>1, <2>2
<1> QED BY <1>2, <1>3, <1>7, <1>10, <1>11 DEF GInv

(* What the invariant says of the current state and of the one to return to. *)
LEMMA Current ==
  ASSUME IInv, GInv
  PROVE  /\ GovernorType(GovernorStateNow) /\ Covered(GovernorStateNow)
         /\ Agree(GovernorStateNow, State, Open(Len(stack)))
         /\ stack = <<>> => \A kind \in GovernanceKinds : Due(GovernorStateNow, kind) <= 0
         /\ stack = <<>> => Powerless(GovernorStateNow, State)
         /\ stack # <<>> =>
              /\ Owes(Top, saves[Len(saves)], GovernorStateNow, State)
              /\ GovernorType(saves[Len(saves)].state) /\ Covered(saves[Len(saves)].state)
              /\ Agree(saves[Len(saves)].state, Top.saved, Open(Len(stack) - 1))
<1>0. PICK n \in Nat : Len(stack) = n BY Sizes
<1>1. Len(saves) = n /\ (stack = <<>> <=> n = 0) BY <1>0, Sizes
<1>2. GovernorLevel(n + 1) = GovernorStateNow /\ Level(n + 1) = State
  BY <1>0, <1>1 DEF GovernorLevel, Level
<1>3. /\ GovernorType(GovernorStateNow) /\ Covered(GovernorStateNow)
      /\ Agree(GovernorStateNow, State, Open(n))
  <2>1. n + 1 \in 1..(n + 1) /\ n + 1 - 1 = n OBVIOUS
  <2>2. /\ GovernorType(GovernorLevel(n + 1)) /\ Covered(GovernorLevel(n + 1))
        /\ Agree(GovernorLevel(n + 1), Level(n + 1), Open(n + 1 - 1))
    BY <1>1, <2>1 DEF GInv
  <2> QED BY <1>2, <2>1, <2>2
<1>4. /\ stack = <<>> => \A kind \in GovernanceKinds : Due(GovernorStateNow, kind) <= 0
      /\ stack = <<>> => Powerless(GovernorStateNow, State)
  BY <1>1, <1>2 DEF GInv
<1>5. ASSUME stack # <<>>
      PROVE  /\ Owes(Top, saves[n], GovernorStateNow, State)
             /\ GovernorType(saves[n].state) /\ Covered(saves[n].state)
             /\ Agree(saves[n].state, Top.saved, Open(n - 1))
  <2>1. n \in 1..n /\ n \in 1..(n + 1) /\ Top = stack[n] BY <1>0, <1>1, <1>5 DEF Top
  <2>2. GovernorLevel(n) = saves[n].state /\ Level(n) = Top.saved
    BY <1>0, <1>1, <2>1 DEF GovernorLevel, Level
  <2>3. Owes(stack[n], saves[n], GovernorLevel(n + 1), Level(n + 1))
    BY <1>1, <2>1 DEF GInv
  <2>4. /\ GovernorType(GovernorLevel(n)) /\ Covered(GovernorLevel(n))
        /\ Agree(GovernorLevel(n), Level(n), Open(n - 1))
    BY <1>1, <2>1 DEF GInv
  <2> QED BY <1>2, <2>1, <2>2, <2>3, <2>4
<1> QED BY <1>0, <1>1, <1>3, <1>4, <1>5

(* A step between calls that leaves alone what is announced and accepted. *)
LEMMA NoneCalled ==
  ASSUME IInv, GInv, UNCHANGED <<saves, stack, executed, announced, governed>>,
         Done(State') = Done(State),
         Agree(GovernorStateNow', State', Open(Len(stack)))
  PROVE  GInv'
<1> DEFINE g == GovernorStateNow
           h == GovernorStateNow'
           s == State
           t == State'
<1>1. h.executed = g.executed /\ h.announced = g.announced /\ h.governed = g.governed
  BY DEF GovernorStateNow
<1>2. Done(t) = Done(s) OBVIOUS
<1> HIDE DEF g, h, s, t, Done
<1>3. /\ \A kind : Due(h, kind) = Due(g, kind)
      /\ GovernorType(g) <=> GovernorType(h)
  BY <1>1 DEF Due, GovernorType
<1>4. Covered(g) <=> Covered(h) BY <1>1, <1>3 DEF Covered
<1>5. /\ \A f, save : Owes(f, save, g, s) => Owes(f, save, h, t)
      /\ Powerless(g, s) => Powerless(h, t)
  BY <1>2, <1>1, <1>3 DEF Owes, Stray, Strays, Powerless
<1>6. /\ GovernorType(g) /\ Covered(g)
      /\ stack = <<>> => \A kind \in GovernanceKinds : Due(g, kind) <= 0
      /\ stack = <<>> => Powerless(g, s)
      /\ stack # <<>> => Owes(stack[Len(stack)], saves[Len(stack)], g, s)
  BY Current, Sizes DEF g, s
<1>7. /\ GovernorType(h) /\ Covered(h)
      /\ stack = <<>> => \A kind \in GovernanceKinds : Due(h, kind) <= 0
      /\ stack = <<>> => Powerless(h, t)
      /\ stack # <<>> => Owes(stack'[Len(stack)], saves[Len(stack)], h, t)
  BY <1>3, <1>4, <1>5, <1>6
<1>8. /\ UNCHANGED saves /\ Len(stack') = Len(stack)
      /\ \A k \in 1..Len(stack) :
           /\ stack'[k].op = stack[k].op /\ stack'[k].saved = stack[k].saved
           /\ k < Len(stack) => stack'[k] = stack[k]
  OBVIOUS
<1> QED BY <1>7, <1>8, LevelStays DEF h, t

(* The top frame goes on; used tells which kind of call onlyGovernance accepted. *)
LEMMA GoesOn ==
  ASSUME IInv, GInv, stack # <<>>, UNCHANGED saves,
         NEW f \in Frame, stack' = SetTop(f), f.op = Top.op, f.saved = Top.saved,
         GovernorType(GovernorStateNow'), Covered(GovernorStateNow'),
         Agree(GovernorStateNow', State', Open(Len(stack))),
         Done(State') = Done(State), UNCHANGED executed,
         NEW used \in [GovernanceKinds -> {0, 1}],
         \A kind \in GovernanceKinds :
           /\ Due(GovernorStateNow', kind) = Due(GovernorStateNow, kind) - used[kind]
           /\ Left(Top, kind) = Left(f, kind) + used[kind]
  PROVE  GInv'
<1> DEFINE g == GovernorStateNow
           h == GovernorStateNow'
           save == saves[Len(saves)]
           s == State
           t == State'
<1>0. PICK n \in Nat : Len(stack) = n BY Sizes
<1>1. Len(saves) = n /\ n # 0 /\ Top = stack[n] BY <1>0, Sizes
<1>2. /\ Len(stack') = n
      /\ \A k \in 1..n : stack'[k] = IF k = n THEN f ELSE stack[k]
  BY <1>0, SetTopProperties DEF IInv
<1>3. \A k \in 1..n : /\ stack'[k].op = stack[k].op /\ stack'[k].saved = stack[k].saved
                      /\ k < n => stack'[k] = stack[k]
  <2> SUFFICES ASSUME NEW k \in 1..n
               PROVE  /\ stack'[k].op = stack[k].op /\ stack'[k].saved = stack[k].saved
                      /\ k < n => stack'[k] = stack[k]
    OBVIOUS
  <2>1. CASE k = n
    <3>1. stack'[k] = f /\ stack[k] = Top BY <1>1, <1>2, <2>1
    <3> QED BY <2>1, <3>1
  <2>2. CASE k # n
    <3>1. stack'[k] = stack[k] BY <1>2, <2>2
    <3> QED BY <3>1
  <2> QED BY <2>1, <2>2
<1>4. /\ GovernorType(g) /\ GovernorType(save.state) /\ Owes(Top, save, g, s)
      /\ h.executed = g.executed /\ Done(t) = Done(s)
  BY Current DEF GovernorStateNow
<1>5. /\ \A kind \in GovernanceKinds : /\ Due(g, kind) \in Int
                                       /\ Due(save.state, kind) \in Int
                                       /\ used[kind] \in 0..1
      /\ \A kind : Adds(Top, save, kind) \in Int /\ Adds(f, save, kind) \in Int
      /\ \A kind \in GovernanceKinds :
           Adds(Top, save, kind) = Adds(f, save, kind) + used[kind]
  <2>1. Top.op \in Operations /\ f.op \in Operations BY DEF Frame
  <2> HIDE DEF g, save
  <2>2. \A kind : Adds(Top, save, kind) \in Int /\ Adds(f, save, kind) \in Int
    BY <2>1, AddsInt
  <2>3. \A kind \in GovernanceKinds : Due(g, kind) \in Int /\ Due(save.state, kind) \in Int
    BY <1>4, DueInt
  <2>4. \A kind \in GovernanceKinds : used[kind] \in 0..1 OBVIOUS
  <2>5. \A kind \in GovernanceKinds : Adds(Top, save, kind) = Adds(f, save, kind) + used[kind]
    BY <2>1, <2>4, AddsAfterCall
  <2> QED BY <2>2, <2>3, <2>4, <2>5
<1>6. Owes(f, save, h, t)
  <2>1. \A kind \in GovernanceKinds : Due(h, kind) = Due(g, kind) - used[kind]
    OBVIOUS
  <2>2. f.op = Top.op /\ f.saved = Top.saved OBVIOUS
  <2> HIDE DEF g, h, save, s, t
  <2>3. ASSUME NEW kind \in GovernanceKinds
        PROVE  Due(h, kind) + Stray(f.saved, t, h, kind)
                 <= Due(save.state, kind) + Adds(f, save, kind)
    <3>1. Due(g, kind) + Stray(Top.saved, s, g, kind)
            <= Due(save.state, kind) + Adds(Top, save, kind)
      BY <1>4 DEF Owes
    <3>2. Stray(f.saved, t, h, kind) = Stray(Top.saved, s, g, kind)
      <4> HIDE DEF Done
      <4> QED BY <1>4, <2>2 DEF Stray, Strays
    <3>3. Stray(Top.saved, s, g, kind) \in Int BY StrayInt
    <3>4. Due(h, kind) = Due(g, kind) - used[kind] BY <2>1
    <3>5. Adds(Top, save, kind) = Adds(f, save, kind) + used[kind] BY <1>5
    <3>6. /\ Due(g, kind) \in Int /\ Due(save.state, kind) \in Int /\ used[kind] \in Int
          /\ Adds(Top, save, kind) \in Int /\ Adds(f, save, kind) \in Int
      BY <1>5
    <3> QED BY <3>1, <3>2, <3>3, <3>4, <3>5, <3>6
  <2>4. /\ save.state.executed \subseteq h.executed
        /\ save.byGovernor => f.op \in h.executed
    BY <1>4, <2>2 DEF Owes
  <2> QED BY <2>3, <2>4 DEF Owes
<1>7. stack'[n] = f BY <1>0, <1>1, <1>2
<1>8. Owes(stack'[Len(stack)], saves[Len(stack)], GovernorStateNow', State')
  BY <1>0, <1>1, <1>6, <1>7
<1> QED BY <1>0, <1>2, <1>3, <1>8, LevelStays

(* A call is made: one that onlyGovernance accepts was announced and is due no   *)
(* more, any other changes neither. *)
LEMMA CallIsCounted ==
  ASSUME IInv, GInv, NEW kind, Enters(kind) \/ Makes(kind),
         UNCHANGED <<saves, executed, canceled, timelockIds, past>>,
         \/ kind \in GovernanceKinds /\ OnlyGovernance(kind)
         \/ kind \notin GovernanceKinds /\ UNCHANGED <<announced, governed>>
  PROVE  GInv'
<1> DEFINE g == GovernorStateNow
           h == GovernorStateNow'
           used == [k \in GovernanceKinds |-> IF k = kind THEN 1 ELSE 0]
<1>1. PICK f \in Frame :
           /\ stack # <<>> /\ stack' = SetTop(f) /\ f.op = Top.op /\ f.saved = Top.saved
           /\ Made(Top) \in Nat /\ Made(f) = Made(Top) + 1
           /\ Made(f) \in 1..Len(Calls[f.op]) /\ Calls[f.op][Made(f)] = kind
  BY CallFrame DEF IInv
<1>2. \A k \in GovernanceKinds : Left(Top, k) = Left(f, k) + used[k]
  <2>1. Top.op \in Operations BY <1>1 DEF Frame
  <2>2. \A k : Left(Top, k) = Left(f, k) + (IF k = Calls[Top.op][Made(f)] THEN 1 ELSE 0)
    BY <1>1, <2>1, LeftAfterCall
  <2> QED BY <1>1, <2>2
<1>3. /\ h.executed = g.executed /\ h.canceled = g.canceled /\ h.past = g.past
      /\ h.timelockIds = g.timelockIds
      /\ g.announced = announced /\ h.announced = announced'
      /\ g.governed = governed /\ h.governed = governed'
  BY DEF GovernorStateNow
<1>4. GovernorType(g) /\ Covered(g) /\ Agree(g, State, Open(Len(stack))) BY Current
<1>5. State'.timestamps = State.timestamps
  BY DEF Enters, Makes, NextCall, timelockState, State
<1>6. Done(State') = Done(State) BY <1>5 DEF Done
<1> HIDE DEF g, h
<1>7. Agree(h, State', Open(Len(stack))) BY <1>3, <1>4, <1>5 DEF Agree, Done
<1>8. /\ announced \in Seq(GovernorKinds) /\ governed \in [GovernanceKinds -> Nat]
      /\ \A k \in GovernanceKinds : /\ Due(g, k) \in Int
                                    /\ SumOver(HowOften(k), g.executed) \in Nat
                                    /\ Count(announced, k) \in Nat
  <2>1. announced \in Seq(GovernorKinds) /\ governed \in [GovernanceKinds -> Nat]
    BY <1>3, <1>4 DEF GovernorType
  <2>2. \A k : Count(announced, k) \in Nat BY <2>1, CountNat
  <2>3. \A k \in GovernanceKinds : Due(g, k) \in Int /\ SumOver(HowOften(k), g.executed) \in Nat
    BY <1>4, DueInt
  <2> QED BY <2>1, <2>2, <2>3
<1>9. /\ announced' \in Seq(GovernorKinds) /\ governed' \in [GovernanceKinds -> Nat]
      /\ \A k \in GovernanceKinds : /\ governed'[k] = governed[k] + used[k]
                                    /\ Count(announced', k) + used[k] <= Count(announced, k)
  <2>1. CASE kind \in GovernanceKinds /\ OnlyGovernance(kind)
    <3>1. PICK i \in 1..Len(announced) :
            announced[i] = kind /\ announced' = SubSeq(announced, i + 1, Len(announced))
      BY <2>1 DEF OnlyGovernance
    <3>2. announced' \in Seq(GovernorKinds)
          /\ \A k : Count(announced', k) + (IF k = kind THEN 1 ELSE 0) <= Count(announced, k)
      BY <1>8, <3>1, CountRest
    <3>3. governed' = [governed EXCEPT ![kind] = governed[kind] + 1]
      BY <2>1 DEF OnlyGovernance
    <3>4. governed' \in [GovernanceKinds -> Nat]
          /\ \A k \in GovernanceKinds : governed'[k] = governed[k] + used[k]
      BY <1>8, <2>1, <3>3
    <3> QED BY <3>2, <3>4
  <2>2. CASE kind \notin GovernanceKinds /\ UNCHANGED <<announced, governed>>
    <3>1. \A k \in GovernanceKinds : used[k] = 0 BY <2>2
    <3> HIDE DEF used
    <3> QED BY <1>8, <2>2, <3>1
  <2> QED BY <2>1, <2>2
<1>10. used \in [GovernanceKinds -> {0, 1}] OBVIOUS
<1> HIDE DEF used
<1>11. \A k \in GovernanceKinds : Due(h, k) = Due(g, k) - used[k]
  <2> SUFFICES ASSUME NEW k \in GovernanceKinds PROVE Due(h, k) = Due(g, k) - used[k]
    OBVIOUS
  <2>1. governed[k] \in Nat /\ governed'[k] = governed[k] + used[k] /\ used[k] \in 0..1
    BY <1>8, <1>9, <1>10
  <2>2. /\ Due(g, k) = SumOver(HowOften(k), g.executed) - governed[k]
        /\ Due(h, k) = SumOver(HowOften(k), g.executed) - governed'[k]
    BY <1>3 DEF Due
  <2> QED BY <1>8, <2>1, <2>2
<1>12. GovernorType(h) BY <1>3, <1>4, <1>9 DEF GovernorType
<1>13. Covered(h)
  <2> SUFFICES ASSUME NEW k \in GovernanceKinds PROVE Count(announced', k) <= Due(h, k)
    BY <1>3 DEF Covered
  <2>1. Count(announced, k) <= Due(g, k) BY <1>3, <1>4 DEF Covered
  <2>2. Count(announced', k) \in Nat BY <1>9, CountNat
  <2>3. used[k] \in 0..1 BY <1>10
  <2>4. Count(announced', k) + used[k] <= Count(announced, k) BY <1>9
  <2> QED BY <1>8, <1>11, <2>1, <2>2, <2>3, <2>4
<1> QED BY <1>1, <1>2, <1>7, <1>10, <1>11, <1>12, <1>13, <1>6, GoesOn DEF g, h

(* The contract that was called returns. *)
LEMMA ReturnIsCounted ==
  ASSUME IInv, GInv, OtherReturns, UNCHANGED <<saves, governorState>>
  PROVE  GInv'
<1> DEFINE g == GovernorStateNow
           h == GovernorStateNow'
           used == [k \in GovernanceKinds |-> 0]
<1>1. PICK f \in Frame :
           /\ stack # <<>> /\ stack' = SetTop(f) /\ f.op = Top.op /\ f.saved = Top.saved
           /\ Made(f) = Made(Top) /\ Made(Top) \in Nat
  BY ReturnFrame DEF IInv
<1>2. \A k \in GovernanceKinds : Left(Top, k) = Left(f, k) + used[k]
  <2>1. f.op \in Operations BY DEF Frame
  <2>2. \A k : Left(f, k) \in Nat BY <2>1, LeftNat
  <2>3. \A k : Left(Top, k) = Left(f, k) BY <1>1 DEF Left
  <2> QED BY <2>2, <2>3
<1>3. h = g BY DEF GovernorStateNow, governorState
<1>4. GovernorType(g) /\ Covered(g) /\ Agree(g, State, Open(Len(stack))) BY Current
<1>5. State' = State BY DEF OtherReturns, committable, State
<1> HIDE DEF g, h
<1>6. \A k \in GovernanceKinds : Due(h, k) = Due(g, k) - used[k]
  <2>1. \A k \in GovernanceKinds : Due(g, k) \in Int BY <1>4, DueInt
  <2> QED BY <1>3, <2>1
<1>7. used \in [GovernanceKinds -> {0, 1}] OBVIOUS
<1> HIDE DEF used
<1>8. GovernorType(h) /\ Covered(h) /\ Agree(h, State', Open(Len(stack)))
  BY <1>3, <1>4, <1>5
<1>9. Done(State') = Done(State) /\ UNCHANGED executed BY <1>5 DEF governorState
<1> QED BY <1>1, <1>2, <1>6, <1>7, <1>8, <1>9, GoesOn DEF g, h

(* An execution begins: by the governor, which makes the proposal's calls due and *)
(* announces them, or past it. *)
LEMMA ExecuteIsCounted ==
  ASSUME IInv, AInv, GInv, NEW p \in Proposals, Execute(p)
  PROVE  GInv'
<1> DEFINE g == GovernorStateNow
           h == GovernorStateNow'
           frame == [op |-> p, next |-> 1, inside |-> FALSE, saved |-> State]
           save == [state |-> g, byGovernor |-> TRUE]
<1>1. /\ p \notin executed /\ UNCHANGED State
      /\ stack' = Append(stack, frame) /\ saves' = Append(saves, save)
      /\ h.executed = g.executed \cup {p} /\ g.executed = executed
      /\ h.announced = g.announced \o Announced(p)
      /\ h.governed = g.governed /\ h.canceled = g.canceled /\ h.past = g.past
      /\ h.timelockIds = g.timelockIds
  BY DEF Execute, ProposalState, GovernorStateNow, State, committable
<1>2. p \in Operations BY GovernorExecutionAssumption
<1>3. /\ frame.saved = State /\ frame.op = p /\ save.state = g /\ save.byGovernor
      /\ Made(frame) = 0
  BY DEF Made
<1>4. GovernorType(g) /\ Covered(g) /\ Agree(g, State, Open(Len(stack))) BY Current
<1> HIDE DEF g, h, frame, save
<1>5. \A k \in GovernanceKinds :
        /\ Due(h, k) = Due(g, k) + Cardinality(CallsOfKind(p, k))
        /\ Due(g, k) \in Int /\ Cardinality(CallsOfKind(p, k)) \in Nat
        /\ Left(frame, k) = Cardinality(CallsOfKind(p, k))
  <2>1. \A k \in GovernanceKinds : Due(h, k) = Due(g, k) + Cardinality(CallsOfKind(p, k))
    BY <1>1, <1>4, DueMore
  <2>2. \A k \in GovernanceKinds : Due(g, k) \in Int BY <1>4, DueInt
  <2>3. \A k : Cardinality(CallsOfKind(p, k)) \in Nat BY <1>2, CallsFinite
  <2>4. \A k : Left(frame, k) = Cardinality(CallsOfKind(p, k)) BY <1>2, <1>3, LeftAtStart
  <2> QED BY <2>1, <2>2, <2>3, <2>4
<1>6. g.announced \in Seq(GovernorKinds) /\ GovernanceKinds \subseteq GovernorKinds
  BY <1>4 DEF GovernorType, GovernorKinds
<1>7. /\ h.announced \in Seq(GovernorKinds)
      /\ \A k \in GovernanceKinds :
           Count(h.announced, k) = Count(g.announced, k) + Cardinality(CallsOfKind(p, k))
  BY <1>1, <1>2, <1>6, AnnouncedCount
<1>8. GovernorType(h)
  <2>1. g.executed \in SUBSET Proposals /\ IsFiniteSet(g.executed) BY <1>4 DEF GovernorType
  <2>2. IsFiniteSet(h.executed) /\ h.executed \in SUBSET Proposals
    BY <1>1, <2>1, FS_AddElement
  <2> QED BY <1>1, <1>4, <1>7, <2>2 DEF GovernorType
<1>9. Covered(h)
  <2>1. \A k \in GovernanceKinds : Count(g.announced, k) <= Due(g, k) BY <1>4 DEF Covered
  <2>2. \A k \in GovernanceKinds : Count(g.announced, k) \in Nat BY <1>6, CountNat
  <2>3. ASSUME NEW k \in GovernanceKinds PROVE Count(h.announced, k) <= Due(h, k)
    BY <1>5, <1>7, <2>1, <2>2
  <2> QED BY <2>3 DEF Covered
<1>10. Agree(h, State, Open(Len(stack)) \cup {frame.op})
  BY <1>1, <1>3, <1>4 DEF Agree
<1>11. Owes(frame, save, h, State)
  <2>1. ASSUME NEW k \in GovernanceKinds
        PROVE  Due(h, k) + Stray(frame.saved, State, h, k)
                 <= Due(save.state, k) + Adds(frame, save, k)
    <3>1. Stray(frame.saved, State, h, k) = 0 BY <1>3, StrayInt
    <3>2. Adds(frame, save, k) = Cardinality(CallsOfKind(p, k)) BY <1>3, <1>5 DEF Adds
    <3> QED BY <1>3, <1>5, <3>1, <3>2
  <2> QED BY <1>1, <1>3, <2>1 DEF Owes
<1>12. /\ Len(saves') = Len(saves) + 1 /\ saves'[Len(saves) + 1] = save
       /\ \A k \in 1..Len(saves) : saves'[k] = saves[k]
  BY <1>1, Appended DEF AInv, SavesMatch
<1> QED
  BY <1>1, <1>3, <1>8, <1>9, <1>10, <1>11, <1>12, LevelOpens DEF g, h

LEMMA BeginIsCounted ==
  ASSUME IInv, AInv, GInv, NEW sender, NEW op \in Operations, ExecuteOnTimelock(sender, op)
  PROVE  GInv'
<1> DEFINE g == GovernorStateNow
           h == GovernorStateNow'
           frame == [op |-> op, next |-> 1, inside |-> FALSE, saved |-> State]
           save == [state |-> g, byGovernor |-> FALSE]
<1>1. /\ UNCHANGED State /\ h = g
      /\ stack' = Append(stack, frame) /\ saves' = Append(saves, save)
  BY DEF ExecuteOnTimelock, BeginExecute, GovernorStateNow, governorState, State, committable
<1>2. /\ frame.saved = State /\ frame.op = op /\ save.state = g /\ ~save.byGovernor
      /\ Made(frame) = 0
  BY DEF Made
<1>3. GovernorType(g) /\ Covered(g) /\ Agree(g, State, Open(Len(stack))) BY Current
<1> HIDE DEF g, h, frame, save
<1>4. GovernorType(h) /\ Covered(h) BY <1>1, <1>3
<1>5. Agree(h, State, Open(Len(stack)) \cup {frame.op})
  BY <1>1, <1>3 DEF Agree
<1>6. Owes(frame, save, h, State)
  <2>1. ASSUME NEW k \in GovernanceKinds
        PROVE  Due(h, k) + Stray(frame.saved, State, h, k)
                 <= Due(save.state, k) + Adds(frame, save, k)
    <3>1. Due(g, k) \in Int BY <1>3, DueInt
    <3>2. Stray(frame.saved, State, h, k) = 0 BY <1>2, StrayInt
    <3>3. Left(frame, k) = Cardinality(CallsOfKind(op, k)) /\ Left(frame, k) \in Nat
      BY <1>2, LeftAtStart, LeftNat
    <3>4. Adds(frame, save, k) = 0 BY <1>2, <3>3 DEF Adds
    <3> QED BY <1>1, <1>2, <3>1, <3>2, <3>4
  <2> QED BY <1>1, <1>2, <2>1 DEF Owes
<1>7. /\ Len(saves') = Len(saves) + 1 /\ saves'[Len(saves) + 1] = save
      /\ \A k \in 1..Len(saves) : saves'[k] = saves[k]
  BY <1>1, Appended DEF AInv, SavesMatch
<1> QED BY <1>1, <1>2, <1>4, <1>5, <1>6, <1>7, LevelOpens DEF g, h

(* An execution ends, and all that became due in it has been called. *)
LEMMA FinishIsCounted ==
  ASSUME IInv, AInv, GInv, Finish
  PROVE  GInv'
<1> DEFINE g == GovernorStateNow
           h == GovernorStateNow'
           n == Len(stack)
           save == saves[Len(saves)]
           o == Top.op
<1>1. /\ stack # <<>> /\ ~Top.inside /\ Top.next > Len(Calls[o])
      /\ timestamps[o] > DONE /\ timestamps' = [timestamps EXCEPT ![o] = DONE]
      /\ stack' = Pop /\ saves' = Front(saves)
      /\ announced' \in {<<>>, announced}
      /\ h.executed = g.executed /\ h.canceled = g.canceled /\ h.past = g.past
      /\ h.timelockIds = g.timelockIds /\ h.governed = g.governed
      /\ h.announced = announced' /\ g.announced = announced
  BY DEF Finish, EndExecute, AfterCall, IsOperationReady, GovernorStateNow
<1>2. Top \in Frame /\ o \in Operations /\ n \in Nat \ {0} /\ timestamps \in [Operations -> Nat]
      /\ Top.next \in Nat \ {0}
  BY <1>1, TopType, StateFields DEF IInv, Frame
<1>3. /\ GovernorType(g) /\ Covered(g) /\ Agree(g, State, Open(n))
      /\ Owes(Top, save, g, State) /\ GovernorType(save.state)
  BY <1>1, Current
<1>4. Open(n) = Open(n - 1) \cup {o} BY <1>1, AtTop
<1>5. \A op \in Operations : timestamps'[op] = IF op = o THEN DONE ELSE timestamps[op]
  BY <1>1, <1>2
<1> HIDE DEF g, h, save
<1>6. \A k : Due(h, k) = Due(g, k) BY <1>1 DEF Due
<1>7. \A k : Left(Top, k) = 0
  <2>1. Made(Top) = Top.next - 1 BY <1>1 DEF Made
  <2>2. Len(Calls[o]) \in Nat BY <1>2, ExecutionAssumption
  <2>3. Made(Top) \in Nat /\ Made(Top) >= Len(Calls[o]) BY <1>1, <1>2, <2>1, <2>2
  <2> QED BY <1>2, <2>3, LeftAtEnd
<1>8. Done(State') = Done(State) \cup {o} BY <1>1, <1>2, <1>5 DEF Done, State
<1>9. save.state.executed \subseteq h.executed BY <1>1, <1>3 DEF Owes
<1>10. ASSUME NEW k \in GovernanceKinds
      PROVE  Due(h, k) + Stray(Top.saved, State', h, k) <= Due(save.state, k)
  <2>1. Due(g, k) + Stray(Top.saved, State, g, k) <= Due(save.state, k) + Adds(Top, save, k)
    BY <1>3 DEF Owes
  <2>2. Due(g, k) \in Int /\ Due(save.state, k) \in Int BY <1>3, DueInt
  <2>3. /\ Stray(Top.saved, State, g, k) \in 0..1 /\ Stray(Top.saved, State', h, k) \in 0..1
        /\ Cardinality(CallsOfKind(o, k)) \in Nat
    BY <1>2, StrayInt, CallsFinite
  <2>4. Adds(Top, save, k) = IF save.byGovernor THEN 0 ELSE 0 - Cardinality(CallsOfKind(o, k))
    BY <1>7, <2>3 DEF Adds
  <2>5. CASE save.byGovernor \/ CallsOfKind(o, k) = {}
    <3>1. Strays(Top.saved, State', h, k) \subseteq Strays(Top.saved, State, g, k)
      <4>1. o \in h.executed \/ CallsOfKind(o, k) = {} BY <1>1, <1>3, <2>5 DEF Owes
      <4> HIDE DEF Done
      <4> QED BY <1>1, <1>8, <4>1 DEF Strays
    <3>2. Stray(Top.saved, State', h, k) <= Stray(Top.saved, State, g, k)
      <4> HIDE DEF Strays
      <4> QED BY <3>1 DEF Stray
    <3>3. Adds(Top, save, k) <= 0 BY <2>3, <2>4
    <3>4. Adds(Top, save, k) \in Int BY <1>2, AddsInt
    <3> QED BY <1>6, <2>1, <2>2, <2>3, <3>2, <3>3, <3>4
  <2>6. CASE ~save.byGovernor /\ CallsOfKind(o, k) # {}
    <3>1. Cardinality(CallsOfKind(o, k)) # 0 BY <1>2, <2>6, CallsFinite, FS_EmptySet
    <3>2. Adds(Top, save, k) = 0 - Cardinality(CallsOfKind(o, k)) BY <2>4, <2>6
    <3>3. Cardinality(CallsOfKind(o, k)) >= 1 BY <2>3, <3>1
    <3> QED BY <1>6, <2>1, <2>2, <2>3, <3>2, <3>3
  <2> QED BY <2>5, <2>6
<1>11. GovernorType(h)
  <2>1. announced \in Seq(GovernorKinds) BY <1>1, <1>3 DEF GovernorType
  <2>2. <<>> \in Seq(GovernorKinds) OBVIOUS
  <2>3. announced' \in Seq(GovernorKinds)
    <3>1. announced' = <<>> \/ announced' = announced BY <1>1
    <3> QED BY <2>1, <2>2, <3>1, Zenon
  <2> QED BY <1>1, <1>3, <2>3 DEF GovernorType
<1>12. Covered(h)
  <2> SUFFICES ASSUME NEW k \in GovernanceKinds PROVE Count(announced', k) <= Due(h, k)
    BY <1>1 DEF Covered
  <2>1. announced \in Seq(GovernorKinds) BY <1>1, <1>3 DEF GovernorType
  <2>2. Count(announced, k) \in Nat /\ Count(announced, k) <= Due(g, k)
    BY <1>1, <1>3, <2>1, CountNat DEF Covered
  <2>3. Due(g, k) \in Int BY <1>3, DueInt
  <2>4. Count(<<>>, k) = 0
    <3>1. {i \in 1..Len(<<>>) : <<>>[i] = k} = {} OBVIOUS
    <3> QED BY <3>1, FS_EmptySet DEF Count
  <2>5. CASE announced' = announced BY <1>6, <2>2, <2>5
  <2>6. CASE announced' = <<>>
    <3>1. Count(announced', k) = 0 BY <2>4, <2>6
    <3> QED BY <1>6, <2>2, <2>3, <3>1
  <2> QED BY <1>1, <2>5, <2>6
<1>13. Agree(h, State', Open(n - 1))
  <2>1. \A p \in Proposals : p \in Operations BY GovernorExecutionAssumption
  <2>2. \A p \in Proposals : timestamps'[p] # 0 => timestamps[p] # 0
    BY <1>1, <1>2, <1>5, <2>1 DEF DONE
  <2> QED BY <1>1, <1>3, <1>4, <1>8, <2>2 DEF Agree, State
<1> QED BY <1>1, <1>10, <1>11, <1>12, <1>13, <1>9, LevelCloses DEF h, save

(* A failure brings back what the governor counted when the frame began. *)
LEMMA FailIsCounted ==
  ASSUME IInv, AInv, GInv, Fail
  PROVE  GInv'
<1> DEFINE h == GovernorStateNow'
           save == saves[Len(saves)]
<1>1. /\ stack # <<>> /\ stack' = Pop /\ saves' = Front(saves) /\ Revert
      /\ h.executed = save.state.executed /\ h.canceled = save.state.canceled
      /\ h.timelockIds = save.state.timelockIds /\ h.announced = save.state.announced
      /\ h.governed = save.state.governed /\ h.past = save.state.past
  BY DEF Fail, Revert, GovernorStateNow, Last
<1>2. State' = Top.saved BY <1>1, RevertRestores DEF IInv
<1>3. /\ GovernorType(save.state) /\ Covered(save.state)
      /\ Agree(save.state, Top.saved, Open(Len(stack) - 1))
  BY <1>1, Current
<1> HIDE DEF h, save
<1>4. \A k : Due(h, k) = Due(save.state, k) BY <1>1 DEF Due
<1>5. GovernorType(h) BY <1>1, <1>3 DEF GovernorType
<1>6. Covered(h) BY <1>1, <1>3, <1>4 DEF Covered
<1>7. Agree(h, State', Open(Len(stack) - 1)) BY <1>1, <1>2, <1>3 DEF Agree
<1>8. \A k \in GovernanceKinds :
        Due(h, k) + Stray(Top.saved, State', h, k) <= Due(save.state, k)
  <2>1. \A k \in GovernanceKinds : Due(save.state, k) \in Int BY <1>3, DueInt
  <2>2. \A k : Stray(Top.saved, State', h, k) = 0 BY <1>2, StrayInt
  <2> QED BY <1>4, <2>1, <2>2
<1>9. save.state.executed \subseteq h.executed BY <1>1
<1> QED BY <1>1, <1>5, <1>6, <1>7, <1>8, <1>9, LevelCloses DEF h, save

--------------------------------------------------------------------------------
(* The steps *)

(* What is scheduled is known to the governor as queued or as past. *)
LEMMA ScheduleAgrees ==
  ASSUME IInv, GInv, NEW op \in Operations, NEW delay \in Nat, Schedules(op, delay),
         UNCHANGED <<saves, executed, canceled, announced, governed>>,
         timelockIds \subseteq timelockIds', past \subseteq past',
         \A p \in timelockIds' \ timelockIds : p \notin canceled,
         op \in Proposals => op \in past' \cup timelockIds'
  PROVE  GInv'
<1> DEFINE g == GovernorStateNow
           h == GovernorStateNow'
<1>1. /\ h.executed = executed /\ h.canceled = canceled /\ h.past = past'
      /\ h.timelockIds = timelockIds'
      /\ g.executed = executed /\ g.canceled = canceled /\ g.past = past
      /\ g.timelockIds = timelockIds
  BY DEF GovernorStateNow
<1>2. Agree(g, State, Open(Len(stack))) BY Current
<1> HIDE DEF g, h
<1>3. timestamps[op] = 0 /\ timestamps' = [timestamps EXCEPT ![op] = now + delay]
      /\ timestamps \in [Operations -> Nat]
  BY StateFields DEF Schedules, Schedule, IsOperation, IInv
<1>4. \A p \in Operations : p # op => timestamps'[p] = timestamps[p] BY <1>3
<1>5. Done(State') = Done(State)
  <2>1. now + delay # DONE BY StateFields DEF IInv, DONE
  <2> QED BY <1>3, <1>4, <2>1 DEF Done, State, DONE
<1>6. \A p \in Proposals : p \in Operations BY GovernorExecutionAssumption
<1>7. Agree(h, State', Open(Len(stack)))
  <2> SUFFICES ASSUME NEW p \in Proposals
               PROVE  /\ p \in canceled => p \notin timelockIds'
                      /\ timestamps'[p] # 0 => p \in past' \cup timelockIds'
                      /\ p \in executed => p \in Done(State') \cup Open(Len(stack))
    BY <1>1 DEF Agree, State
  <2>1. /\ p \in canceled => p \notin timelockIds
        /\ timestamps[p] # 0 => p \in past \cup timelockIds
        /\ p \in executed => p \in Done(State) \cup Open(Len(stack))
    BY <1>1, <1>2 DEF Agree, State
  <2>2. p \in canceled => p \notin timelockIds' BY <2>1
  <2>3. timestamps'[p] # 0 => p \in past' \cup timelockIds' BY <1>4, <1>6, <2>1
  <2> QED BY <1>5, <2>1, <2>2, <2>3
<1>8. UNCHANGED stack BY DEF Schedules
<1> QED BY <1>5, <1>7, <1>8, NoneCalled DEF h

(* What is cancelled is pending; the governor forgets a cancelled proposal. *)
LEMMA CancelAgrees ==
  ASSUME IInv, GInv, NEW op \in Operations, Cancels(op),
         UNCHANGED <<saves, executed, announced, governed, past>>,
         \/ UNCHANGED <<canceled, timelockIds>>
         \/ canceled' = canceled \cup {op} /\ timelockIds' = timelockIds \ {op}
  PROVE  GInv'
<1> DEFINE g == GovernorStateNow
           h == GovernorStateNow'
<1>1. /\ h.executed = executed /\ h.canceled = canceled' /\ h.past = past
      /\ h.timelockIds = timelockIds'
      /\ g.executed = executed /\ g.canceled = canceled /\ g.past = past
      /\ g.timelockIds = timelockIds
  BY DEF GovernorStateNow
<1>2. Agree(g, State, Open(Len(stack))) BY Current
<1> HIDE DEF g, h
<1>3. timestamps[op] > DONE /\ timestamps' = [timestamps EXCEPT ![op] = 0]
      /\ timestamps \in [Operations -> Nat]
  BY StateFields DEF Cancels, CancelOperation, IsOperationPending, IInv
<1>4. \A p \in Operations : timestamps'[p] = IF p = op THEN 0 ELSE timestamps[p] BY <1>3
<1>5. Done(State') = Done(State) BY <1>3, <1>4 DEF Done, State, DONE
<1>6. \A p \in Proposals : p \in Operations BY GovernorExecutionAssumption
<1>7. Agree(h, State', Open(Len(stack)))
  <2> SUFFICES ASSUME NEW p \in Proposals
               PROVE  /\ p \in canceled' => p \notin timelockIds'
                      /\ timestamps'[p] # 0 => p \in past \cup timelockIds'
                      /\ p \in executed => p \in Done(State') \cup Open(Len(stack))
    BY <1>1 DEF Agree, State
  <2>1. /\ p \in canceled => p \notin timelockIds
        /\ timestamps[p] # 0 => p \in past \cup timelockIds
        /\ p \in executed => p \in Done(State) \cup Open(Len(stack))
    BY <1>1, <1>2 DEF Agree, State
  <2>2. timestamps'[p] # 0 => p # op /\ timestamps'[p] = timestamps[p] BY <1>4, <1>6
  <2> QED BY <1>5, <2>1, <2>2
<1>8. UNCHANGED stack BY DEF Cancels
<1> QED BY <1>5, <1>7, <1>8, NoneCalled DEF h

(* What the timelock knows does not change. *)
LEMMA SameAgrees ==
  ASSUME IInv, GInv, UNCHANGED <<timestamps, stack>>,
         UNCHANGED <<saves, executed, announced, governed, past, timelockIds>>,
         \A p \in canceled' \ canceled : p \notin timelockIds
  PROVE  GInv'
<1> DEFINE g == GovernorStateNow
           h == GovernorStateNow'
<1>1. /\ h.executed = g.executed /\ h.canceled = canceled' /\ h.past = g.past
      /\ h.timelockIds = timelockIds
      /\ g.canceled = canceled /\ g.timelockIds = timelockIds
  BY DEF GovernorStateNow
<1>2. Agree(g, State, Open(Len(stack))) BY Current
<1> HIDE DEF g, h
<1>3. State'.timestamps = State.timestamps BY DEF State
<1>4. Agree(h, State', Open(Len(stack))) BY <1>1, <1>2, <1>3 DEF Agree, Done
<1>5. Done(State') = Done(State) BY <1>3 DEF Done
<1> QED BY <1>4, <1>5, NoneCalled DEF h

(* The three invariants. *)
DaoInv == IInv /\ AInv /\ GInv

(* What the timelock sees of a step. *)
Moves ==
  \/ \E op \in Operations :
       (\E delay \in Nat : Schedules(op, delay)) \/ Cancels(op) \/ Begins(op)
  \/ \E sender : \E rc \in RoleChanges : ChangeRole(sender, rc[1], rc[2])
  \/ \E kind : Enters(kind) \/ Makes(kind)
  \/ OtherReturns \/ EndExecute \/ Revert \/ Tick \/ UNCHANGED executionVars

(* It keeps the timelock's invariant and its promise. *)
LEMMA MovesKeep ==
  ASSUME IInv, Moves
  PROVE  IInv' /\ [Promise!Next]_(Promise!promiseVars)
<1>1. CASE Tick
  <2>1. Committed' = Committed BY <1>1 DEF Tick, Committed, State, committable
  <2>2. now' > now BY <1>1, StateFields DEF Tick, IInv
  <2>3. Promise!Next BY <2>1, <2>2 DEF Promise!Next, Promise!Tick
  <2> QED BY <1>1, <2>3, TickKeeps
<1>2. CASE UNCHANGED executionVars
  <2>1. IInv' /\ UNCHANGED <<Committed, now>> BY <1>2, StutterKeeps DEF executionVars
  <2> QED BY <2>1 DEF Promise!promiseVars
<1>3. CASE ~Tick /\ ~UNCHANGED executionVars
  <2>1. IInv' /\ Commits /\ UNCHANGED now
    <3>1. ASSUME NEW op \in Operations,
                 (\E delay \in Nat : Schedules(op, delay)) \/ Cancels(op) \/ Begins(op)
          PROVE  IInv' /\ Commits /\ UNCHANGED now
      <4>1. UNCHANGED now BY <3>1 DEF Schedules, Cancels, Begins
      <4> QED BY <3>1, <4>1, ScheduleKeeps, CancelKeeps, BeginKeeps
    <3>2. ASSUME NEW kind, Enters(kind) \/ Makes(kind)
          PROVE  IInv' /\ Commits /\ UNCHANGED now
      <4>1. UNCHANGED now BY <3>2 DEF Enters, Makes, NextCall
      <4> QED BY <3>2, <4>1, CallKeeps
    <3>3. ASSUME OtherReturns \/ EndExecute \/ Revert
          PROVE  IInv' /\ Commits /\ UNCHANGED now
      <4>1. UNCHANGED now BY <3>3 DEF OtherReturns, EndExecute, Revert
      <4> QED BY <3>3, <4>1, ReturnKeeps, EndKeeps, RevertKeeps
    <3>4. ASSUME NEW sender, NEW rc \in RoleChanges, ChangeRole(sender, rc[1], rc[2])
          PROVE  IInv' /\ Commits /\ UNCHANGED now
      <4>1. rc[1] \in TimelockRoles /\ rc[2] \in Accounts \cup {Self, AnyAccount}
        BY ExecutionAssumption DEF TimelockRoles
      <4>2. UNCHANGED now BY <3>4 DEF ChangeRole
      <4> QED BY <3>4, <4>1, <4>2, RoleKeeps
    <3> QED BY <1>3, <3>1, <3>2, <3>3, <3>4 DEF Moves
  <2> QED BY <2>1, CommitIsTransaction DEF Promise!Next
<1> QED BY <1>1, <1>2, <1>3

LEMMA TimelockStepKept ==
  ASSUME DaoInv, TimelockStep
  PROVE  Moves /\ GInv'
<1> USE DEF DaoInv
<1>1. UNCHANGED <<governorState, saves>> BY DEF TimelockStep
<1>2. UNCHANGED <<saves, executed, canceled, timelockIds, announced, governed, past>>
  BY <1>1 DEF governorState
<1>3. ASSUME NEW sender, NEW op \in Operations, Cancel(sender, op)
      PROVE  Moves /\ GInv'
  <2>1. Cancels(op) BY <1>3 DEF Cancel, Cancels
  <2> QED BY <1>2, <2>1, CancelAgrees DEF Moves
<1>4. CASE CallOther
  <2>1. Enters("other") BY <1>4 DEF CallOther, Enters
  <2>2. "other" \notin GovernanceKinds BY DEF GovernanceKinds
  <2> QED BY <1>2, <2>1, <2>2, CallIsCounted DEF Moves
<1>5. CASE OtherReturns BY <1>1, <1>5, ReturnIsCounted DEF Moves
<1>6. ASSUME NEW newDelay \in Delays, CallUpdateDelay(newDelay)
      PROVE  Moves /\ GInv'
  <2>1. Makes("updateDelay") BY <1>6, DelayCallMakes DEF IInv
  <2>2. "updateDelay" \notin GovernanceKinds BY DEF GovernanceKinds
  <2> QED BY <1>2, <2>1, <2>2, CallIsCounted DEF Moves
<1>7. CASE Tick
  <2>1. UNCHANGED <<timestamps, stack>> BY <1>7 DEF Tick, committable
  <2> QED BY <1>2, <1>7, <2>1, SameAgrees DEF Moves
<1>8. ASSUME NEW rc \in RoleChanges, CallChangeRole(rc[1], rc[2])
      PROVE  Moves /\ GInv'
  <2>1. Makes("changeRole") BY <1>8, RoleCallMakes DEF IInv
  <2>2. "changeRole" \notin GovernanceKinds BY DEF GovernanceKinds
  <2> QED BY <1>2, <2>1, <2>2, CallIsCounted DEF Moves
<1>9. ASSUME NEW sender, NEW rc \in RoleChanges, ChangeRole(sender, rc[1], rc[2])
      PROVE  Moves /\ GInv'
  <2>1. rc[1] \in TimelockRoles /\ rc[2] \in Accounts \cup {Self, AnyAccount}
    BY ExecutionAssumption DEF TimelockRoles
  <2>2. UNCHANGED <<timestamps, stack>>
    BY <1>9, <2>1, RolesTyped DEF IInv, ChangeRole
  <2>3. GInv' BY <1>2, <2>2, SameAgrees
  <2>4. Moves BY <1>9 DEF Moves
  <2> QED BY <2>3, <2>4
<1> QED BY <1>3, <1>4, <1>5, <1>6, <1>7, <1>8, <1>9 DEF TimelockStep

LEMMA ProposalStepKept ==
  ASSUME DaoInv, NEW p \in Proposals, Queue(p) \/ Execute(p) \/ CancelProposal(p)
  PROVE  Moves /\ GInv'
<1> USE DEF DaoInv
<1>0. p \in Operations BY GovernorExecutionAssumption
<1>1. CASE Queue(p)
  <2>1. /\ Schedules(p, minDelay) /\ minDelay \in Nat
        /\ UNCHANGED <<saves, executed, canceled, announced, governed, past>>
        /\ timelockIds' = timelockIds \cup {p}
    BY <1>1, StateFields DEF Queue, Schedules, IInv
  <2>2. p \notin canceled BY <1>1 DEF Queue, ProposalState
  <2>3. /\ timelockIds \subseteq timelockIds' /\ past \subseteq past'
        /\ \A q \in timelockIds' \ timelockIds : q \notin canceled
        /\ p \in past' \cup timelockIds'
    BY <2>1, <2>2
  <2> QED BY <1>0, <2>1, <2>3, ScheduleAgrees DEF Moves
<1>2. CASE Execute(p)
  <2>1. Begins(p) BY <1>2 DEF Execute, Begins
  <2> QED BY <1>0, <1>2, <2>1, ExecuteIsCounted DEF Moves
<1>3. CASE CancelProposal(p)
  <2>1. /\ canceled' = canceled \cup {p}
        /\ UNCHANGED <<performed, notBefore, now, stack>>
        /\ UNCHANGED <<saves, executed, announced, governed, past>>
    BY <1>3 DEF CancelProposal
  <2>2. CASE p \in timelockIds
    <3>1. Cancels(p) /\ timelockIds' = timelockIds \ {p}
      BY <1>3, <2>2 DEF CancelProposal, Cancels
    <3> QED BY <1>0, <2>1, <3>1, CancelAgrees DEF Moves
  <2>3. CASE p \notin timelockIds
    <3>1. UNCHANGED <<timelockIds, timelockState>> BY <1>3, <2>3 DEF CancelProposal
    <3>2. UNCHANGED executionVars BY <2>1, <3>1 DEF timelockState, executionVars, committable
    <3>3. UNCHANGED timestamps BY <3>1 DEF timelockState
    <3>4. \A q \in canceled' \ canceled : q \notin timelockIds BY <2>1, <2>3
    <3> QED BY <2>1, <3>1, <3>2, <3>3, <3>4, SameAgrees DEF Moves
  <2> QED BY <2>2, <2>3
<1> QED BY <1>1, <1>2, <1>3

(* Calls to the governor: those of onlyGovernance use up announcements. *)
LEMMA CallStepKept ==
  ASSUME DaoInv, CallSetter \/ CallRelay \/ CallUpdateTimelock \/ CallPlain
  PROVE  Moves /\ GInv'
<1> USE DEF DaoInv
<1>1. {"set", "relay", "updateTimelock"} = GovernanceKinds /\ "plain" \notin GovernanceKinds
  BY DEF GovernanceKinds
<1>2. /\ minDelay \in Nat
      /\ timelockRoles \in [TimelockRoles -> SUBSET (Accounts \cup {Self, AnyAccount})]
  BY StateFields DEF IInv
<1>3. CASE CallSetter
  <2>1. Makes("set") BY <1>2, <1>3 DEF CallSetter, CallGovernor, timelockState, Makes
  <2>2. OnlyGovernance("set") /\ UNCHANGED <<saves, executed, canceled, timelockIds, past>>
    BY <1>3 DEF CallSetter, CallGovernor
  <2> QED BY <1>1, <2>1, <2>2, CallIsCounted DEF Moves
<1>4. CASE CallRelay
  <2>1. Enters("relay") BY <1>4 DEF CallRelay, CallGovernor, Enters
  <2>2. OnlyGovernance("relay") /\ UNCHANGED <<saves, executed, canceled, timelockIds, past>>
    BY <1>4 DEF CallRelay, CallGovernor
  <2> QED BY <1>1, <2>1, <2>2, CallIsCounted DEF Moves
<1>5. CASE CallUpdateTimelock
  <2>1. Makes("updateTimelock")
    BY <1>2, <1>5 DEF CallUpdateTimelock, CallGovernor, timelockState, Makes
  <2>2. /\ OnlyGovernance("updateTimelock")
        /\ UNCHANGED <<saves, executed, canceled, timelockIds, past>>
    BY <1>5 DEF CallUpdateTimelock, CallGovernor
  <2> QED BY <1>1, <2>1, <2>2, CallIsCounted DEF Moves
<1>6. CASE CallPlain
  <2>1. Makes("plain") BY <1>2, <1>6 DEF CallPlain, CallGovernor, timelockState, Makes
  <2>2. UNCHANGED <<announced, governed, saves, executed, canceled, timelockIds, past>>
    BY <1>6 DEF CallPlain, CallGovernor
  <2> QED BY <1>1, <2>1, <2>2, CallIsCounted DEF Moves
<1> QED BY <1>3, <1>4, <1>5, <1>6

LEMMA DaoStepKept ==
  ASSUME DaoInv, [DaoNext]_daoVars
  PROVE  Moves /\ GInv'
<1>1. CASE TimelockStep BY <1>1, TimelockStepKept
<1>2. ASSUME NEW sender \in TimelockSenders, NEW op \in Operations,
             ExecuteOnTimelock(sender, op)
      PROVE  Moves /\ GInv'
  <2>1. Begins(op) BY <1>2 DEF ExecuteOnTimelock, BeginExecute, Begins
  <2> QED BY <1>2, <2>1, BeginIsCounted DEF DaoInv, Moves
<1>3. ASSUME NEW sender \in TimelockSenders, NEW op \in Outside, NEW delay \in Delays,
             SchedulePast(sender, op, delay)
      PROVE  Moves /\ GInv'
  <2>1. op \in Operations /\ delay \in Nat
    BY ExecutionAssumption, GovernorExecutionAssumption
  <2>2. /\ Schedules(op, delay) /\ past' = past \cup ({op} \cap Proposals)
        /\ UNCHANGED <<saves, executed, canceled, announced, governed, timelockIds>>
    BY <1>3 DEF SchedulePast, ScheduleOperation, Schedules
  <2>3. /\ timelockIds \subseteq timelockIds' /\ past \subseteq past'
        /\ timelockIds' \ timelockIds = {}
        /\ op \in Proposals => op \in past' \cup timelockIds'
    BY <2>2
  <2> QED BY <2>1, <2>2, <2>3, ScheduleAgrees DEF DaoInv, Moves
<1>4. ASSUME NEW p \in Proposals, Queue(p) \/ Execute(p) \/ CancelProposal(p)
      PROVE  Moves /\ GInv'
  BY <1>4, ProposalStepKept
<1>5. CASE CallSetter \/ CallRelay \/ CallUpdateTimelock \/ CallPlain BY <1>5, CallStepKept
<1>6. CASE Finish
  <2>1. EndExecute BY <1>6 DEF Finish
  <2> QED BY <1>6, <2>1, FinishIsCounted DEF DaoInv, Moves
<1>7. CASE Fail
  <2>1. Revert BY <1>7 DEF Fail
  <2> QED BY <1>7, <2>1, FailIsCounted DEF DaoInv, Moves
<1>8. CASE UNCHANGED daoVars
  <2>1. UNCHANGED executionVars /\ UNCHANGED <<timestamps, stack>>
        /\ UNCHANGED <<saves, executed, announced, governed, past, timelockIds, canceled>>
    BY <1>8 DEF daoVars, governorState, executionVars, committable
  <2> QED BY <2>1, SameAgrees DEF DaoInv, Moves
<1> QED BY <1>1, <1>2, <1>3, <1>4, <1>5, <1>6, <1>7, <1>8 DEF DaoNext

LEMMA DaoInvKept == DaoInv /\ [DaoNext]_daoVars => DaoInv'
BY DaoStepKept, AInvKept, MovesKeep DEF DaoInv

LEMMA DaoInitInv == DaoInit => DaoInv
<1> SUFFICES ASSUME DaoInit PROVE DaoInv
  OBVIOUS
<1>1. /\ Init /\ stack = <<>> /\ saves = <<>> /\ announced = <<>> /\ executed = {}
      /\ governed = [kind \in GovernanceKinds |-> 0] /\ canceled = {}
      /\ timestamps = [op \in Operations |-> 0]
  BY DEF DaoInit, Init
<1>2. Len(stack) = 0 /\ Len(saves) = 0 BY <1>1
<1>3. AInv
  <2>1. <<>> \in Seq({}) OBVIOUS
  <2> QED BY <1>1, <1>2, <2>1 DEF AInv, SavesMatch, IsSeq
<1> DEFINE g == GovernorStateNow
<1>4. /\ g.executed = {} /\ g.announced = <<>> /\ g.canceled = {}
      /\ g.governed = [kind \in GovernanceKinds |-> 0]
  BY <1>1 DEF GovernorStateNow
<1>5. GovernorLevel(1) = g /\ Level(1) = State BY <1>2 DEF GovernorLevel, Level
<1> HIDE DEF g
<1>6. \A k \in GovernanceKinds : Due(g, k) = 0
  <2>1. \A k \in GovernanceKinds : SumOver(HowOften(k), g.executed) = 0 BY <1>4, SumEmpty
  <2> QED BY <1>4, <2>1 DEF Due
<1>7. GovernorType(g)
  <2>1. IsFiniteSet(g.executed) /\ g.executed \in SUBSET Proposals BY <1>4, FS_EmptySet
  <2>2. g.announced \in Seq(GovernorKinds) BY <1>4
  <2> QED BY <1>4, <2>1, <2>2 DEF GovernorType
<1>8. Covered(g)
  <2> SUFFICES ASSUME NEW k \in GovernanceKinds PROVE Count(g.announced, k) <= Due(g, k)
    BY DEF Covered
  <2>1. {i \in 1..Len(<<>>) : <<>>[i] = k} = {} OBVIOUS
  <2>2. Count(g.announced, k) = 0 BY <1>4, <2>1, FS_EmptySet DEF Count
  <2> QED BY <1>6, <2>2
<1>9. \A open : Agree(g, State, open)
  <2>1. \A p \in Proposals : State.timestamps[p] = 0
    BY <1>1, GovernorExecutionAssumption DEF State
  <2> QED BY <1>4, <2>1 DEF Agree
<1>10. Powerless(g, State)
  <2>1. Done(State) = {} BY <1>1 DEF Done, State, DONE
  <2> QED BY <2>1 DEF Powerless
<1>11. GInv
  <2>1. \A k \in 1..(Len(saves) + 1) : k = 1 BY <1>2
  <2>2. 1..Len(saves) = {} BY <1>2
  <2> QED BY <1>2, <1>5, <1>6, <1>7, <1>8, <1>9, <1>10, <2>1, <2>2 DEF GInv
<1> QED BY <1>1, <1>3, <1>11, InitIInv DEF DaoInv

LEMMA DaoInvariance == DaoSpec => []DaoInv
BY DaoInitInv, DaoInvKept, PTL DEF DaoSpec

--------------------------------------------------------------------------------
(* Theorems *)

(* What only governance may do happens only as a call of a proposal that the    *)
(* governor executes, once for each such call, however executions nest, fail and *)
(* are caught (the modifier onlyGovernance). *)
THEOREM OnlyProposalsGovern == DaoSpec => []GovernedByProposals
<1>1. DaoInv => GovernedByProposals
  <2> SUFFICES ASSUME DaoInv, NEW kind \in GovernanceKinds
               PROVE  /\ governed[kind] <= Decided(kind)
                      /\ stack = <<>> => governed[kind] = Decided(kind)
    BY DEF GovernedByProposals
  <2> DEFINE g == GovernorStateNow
  <2>1. /\ GovernorType(g) /\ Covered(g)
        /\ stack = <<>> => Due(g, kind) <= 0
    BY Current DEF DaoInv
  <2>2. g.governed = governed /\ g.executed = executed BY DEF GovernorStateNow
  <2> HIDE DEF g
  <2>3. Due(g, kind) = Decided(kind) - governed[kind]
    BY <2>2 DEF Due, HowOften, Decided
  <2>4. governed[kind] \in Nat /\ Decided(kind) \in Nat
    BY <2>1, <2>2, DueInt DEF HowOften, Decided
  <2>5. Count(g.announced, kind) \in Nat
    <3>1. g.announced \in Seq(GovernorKinds) BY <2>1 DEF GovernorType
    <3> QED BY <3>1, CountNat
  <2>6. Count(g.announced, kind) <= Due(g, kind) BY <2>1 DEF Covered
  <2> QED BY <2>1, <2>3, <2>4, <2>5, <2>6
<1> QED BY <1>1, DaoInvariance, PTL

(* Between transactions state() tells what happened to a proposal, also when      *)
(* others scheduled, cancelled or executed its calls; and whatever else was        *)
(* carried out had no call for governance alone (state, _cancel, onlyGovernance). *)
THEOREM StatusTellsTheOutcome == DaoSpec => []StatusIsTheOutcome
<1>1. DaoInv => StatusIsTheOutcome
  <2> SUFFICES ASSUME DaoInv, stack = <<>>
               PROVE  /\ \A p \in Proposals :
                           /\ ProposalState(p) = "Executed" => performed[p] = Len(Calls[p])
                           /\ p \notin past /\ executor = Self /\ ProposalState(p) # "Executed"
                                => performed[p] = 0
                      /\ \A op \in Operations \ executed :
                           performed[op] > 0 =>
                             \A kind \in GovernanceKinds : CallsOfKind(op, kind) = {}
    BY DEF StatusIsTheOutcome
  <2>0. Whole(State, {})
    <3>1. Whole(Committed, {}) BY AtBottom DEF DaoInv
    <3> QED BY <3>1 DEF Committed
  <2>9. ASSUME NEW op \in Operations \ executed, performed[op] > 0
        PROVE  \A kind \in GovernanceKinds : CallsOfKind(op, kind) = {}
    <3>1. op \in Done(State) BY <2>0, <2>9 DEF Whole, State
    <3>2. Powerless(GovernorStateNow, State) BY Current DEF DaoInv
    <3> QED BY <3>1, <3>2 DEF Powerless, GovernorStateNow
  <2> SUFFICES ASSUME NEW p \in Proposals
               PROVE  /\ ProposalState(p) = "Executed" => performed[p] = Len(Calls[p])
                      /\ p \notin past /\ executor = Self /\ ProposalState(p) # "Executed"
                           => performed[p] = 0
    BY <2>9
  <2>1. p \in Operations BY GovernorExecutionAssumption
  <2>3. performed[p] = IF p \in Done(State) THEN Len(Calls[p]) ELSE 0
    BY <2>0, <2>1 DEF Whole, State
  <2>4. Agree(GovernorStateNow, State, {})
    <3>1. Agree(GovernorStateNow, State, Open(Len(stack))) BY Current DEF DaoInv
    <3>2. Open(Len(stack)) = {}
      <4>1. Len(stack) = 0 OBVIOUS
      <4>2. 1..0 = {} OBVIOUS
      <4> QED BY <4>1, <4>2 DEF Open
    <3> QED BY <3>1, <3>2
  <2>5. /\ p \in canceled => p \notin timelockIds
        /\ timestamps[p] # 0 => p \in past \cup timelockIds
        /\ p \in executed => p \in Done(State)
    BY <2>4 DEF Agree, GovernorStateNow, State
  <2>6. p \in Done(State) <=> IsOperationDone(p)
    BY <2>1 DEF Done, State, IsOperationDone
  <2>7. ASSUME ProposalState(p) = "Executed" PROVE p \in Done(State)
    BY <2>5, <2>6, <2>7 DEF ProposalState
  <2>8. ASSUME p \notin past, executor = Self, ProposalState(p) # "Executed"
        PROVE  p \notin Done(State)
    <3> SUFFICES ASSUME p \in Done(State) PROVE FALSE
      OBVIOUS
    <3>1. IsOperationDone(p) /\ timestamps[p] # 0 BY <2>6 DEF IsOperationDone, DONE
    <3>2. p \in timelockIds /\ p \notin canceled BY <2>5, <2>8, <3>1
    <3> QED BY <2>8, <3>1, <3>2 DEF ProposalState
  <2> QED BY <2>3, <2>7, <2>8
<1> QED BY <1>1, DaoInvariance, PTL

(* What the timelock keeps on its own it keeps under the governor: predecessors   *)
(* come first, no delay is cut short, and no operation is carried out by halves,   *)
(* although the governor's executions nest in the timelock's, fail and are caught  *)
(* (TimelockController with GovernorTimelockControl). *)
THEOREM TimelockIsSound ==
  DaoSpec => [](PredecessorFirst /\ PendingWaitsItsDelay /\ AllOrNothing)
<1>1. DaoInv => PredecessorFirst /\ PendingWaitsItsDelay /\ AllOrNothing
  BY PredecessorFollows, DelayFollows, WholeFollows DEF DaoInv
<1> QED BY <1>1, DaoInvariance, PTL

(* With the governor as a proposer, calls of the timelock to it, and proposals    *)
(* that replace the timelock, the timelock still keeps what ScheduledExecution    *)
(* promises. *)
THEOREM TimelockKeepsItsPromise == DaoSpec => PromiseSpec
<1>1. DaoInit => Promise!Init
  <2> SUFFICES ASSUME DaoInit PROVE Promise!Init
    OBVIOUS
  <2>1. Init BY DEF DaoInit
  <2>2. Committed = State BY <2>1 DEF Init, Committed
  <2>3. now \in Nat BY <2>1, ExecutionAssumption DEF Init
  <2> QED BY <2>1, <2>2, <2>3 DEF Init, Promise!Init, State, DONE
<1>2. DaoInv /\ [DaoNext]_daoVars => [Promise!Next]_(Promise!promiseVars)
  BY DaoStepKept, MovesKeep DEF DaoInv
<1> QED BY <1>1, <1>2, DaoInvariance, PTL DEF DaoSpec, PromiseSpec, Promise!Spec
================================================================================
