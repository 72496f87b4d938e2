----------------------- MODULE TimeLockExecution_proofs ------------------------
(* The timelock keeps what ScheduledExecution promises, whatever its operations *)
(* call and however executions nest, fail and are caught.  The invariant speaks *)
(* of every state that can become the current one again: the states saved by    *)
(* the frames of the stack, and the current one on top of them.                  *)
EXTENDS TimeLockExecution, SequenceTheorems, TLAPS

Done(s) == {op \in Operations : s.timestamps[op] = DONE}

(* The state in which frame k began, or the current state above the last one. *)
Level(k) == IF k <= Len(stack) THEN stack[k].saved ELSE State

(* Operations that the first n frames are executing. *)
Open(n) == {stack[i].op : i \in 1..n}

(* Calls that a frame has made. *)
Made(frame) == IF frame.inside THEN frame.next ELSE frame.next - 1

(* What holds of a state for itself: order and delays. *)
InOrder(s) ==
  \A op \in Operations :
    /\ op \in Done(s) /\ Predecessor[op] # NoOperation => Predecessor[op] \in Done(s)
    /\ s.timestamps[op] > DONE => s.timestamps[op] >= s.notBefore[op]

(* An operation that is not being executed took effect as a whole or not at all. *)
Whole(s, open) ==
  \A op \in Operations \ open :
    s.performed[op] = IF op \in Done(s) THEN Len(Calls[op]) ELSE 0

(* What a transaction may make of state s by the time it has reached t. *)
Follows(s, t, clock) ==
  \A op \in Operations :
    /\ op \in Done(s) => op \in Done(t) /\ t.notBefore[op] = s.notBefore[op]
    /\ op \in Done(t) \ Done(s) => t.notBefore[op] <= clock
    /\ t.notBefore[op] = s.notBefore[op] \/ t.notBefore[op] >= clock

(* An operation not done in t was called by this frame or not at all since the frame began. *)
Counted(frame, t) ==
  \A op \in Operations \ Done(t) :
    t.performed[op] =
      frame.saved.performed[op] + (IF op = frame.op THEN Made(frame) ELSE 0)

(* What a frame knows of the state above it. *)
Within(frame, t, clock) ==
  /\ Made(frame) <= Len(Calls[frame.op])
  /\ Predecessor[frame.op] \in Done(frame.saved) \cup {NoOperation}
  /\ Follows(frame.saved, t, clock)
  /\ Counted(frame, t)

LevelsOK ==
  \A k \in 1..(Len(stack) + 1) : InOrder(Level(k)) /\ Whole(Level(k), Open(k - 1))

FramesOK == \A k \in 1..Len(stack) : Within(stack[k], Level(k + 1), now)

(* The inductive invariant. *)
IInv == TypeOK /\ LevelsOK /\ FramesOK

(* What a step may make of the state as of the last finished transaction. *)
Commits == Follows(Committed, Committed', now)

--------------------------------------------------------------------------------
(* Types *)

Frame == [op : Operations, next : Nat \ {0}, inside : BOOLEAN, saved : StateType]

LEMMA StackType ==
  ASSUME TypeOK
  PROVE  /\ stack \in Seq(Frame) /\ Len(stack) \in Nat
         /\ \A k \in 1..Len(stack) : stack[k] \in Frame
         /\ \A k \in 1..(Len(stack) + 1) : Level(k) \in StateType
<1>1. stack \in Seq(Frame) BY DEF TypeOK, Frame
<1>2. \A k \in 1..Len(stack) : stack[k] \in Frame BY <1>1
<1>3. \A f \in Frame : f.saved \in StateType BY DEF Frame
<1> QED BY <1>1, <1>2, <1>3 DEF TypeOK, Level

LEMMA TopType ==
  ASSUME TypeOK, stack # <<>>
  PROVE  Len(stack) \in Nat \ {0} /\ Top \in Frame
BY StackType DEF Top

LEMMA StateFields ==
  ASSUME TypeOK
  PROVE  /\ timestamps \in [Operations -> Nat] /\ minDelay \in Nat
         /\ timelockRoles \in [TimelockRoles -> SUBSET (Accounts \cup {Self, AnyAccount})]
         /\ performed \in [Operations -> Nat] /\ notBefore \in [Operations -> Nat]
         /\ now \in Nat /\ now > DONE
<1>1. State \in StateType BY DEF TypeOK
<1>2. now \in Nat /\ now > DONE BY ExecutionAssumption DEF TypeOK, DONE
<1> QED BY <1>1, <1>2 DEF State, StateType

LEMMA StateTyped ==
  ASSUME timestamps \in [Operations -> Nat], minDelay \in Nat,
         timelockRoles \in [TimelockRoles -> SUBSET (Accounts \cup {Self, AnyAccount})],
         performed \in [Operations -> Nat], notBefore \in [Operations -> Nat]
  PROVE  State \in StateType
BY DEF State, StateType

(* A frame put in the place of the top one. *)
LEMMA SetTopProperties ==
  ASSUME TypeOK, stack # <<>>, NEW f \in Frame
  PROVE  /\ SetTop(f) \in Seq(Frame) /\ Len(SetTop(f)) = Len(stack)
         /\ \A i \in 1..Len(stack) :
              SetTop(f)[i] = IF i = Len(stack) THEN f ELSE stack[i]
BY StackType, TopType, ExceptSeq DEF SetTop

LEMMA PopProperties ==
  ASSUME TypeOK, stack # <<>>
  PROVE  /\ Pop \in Seq(Frame) /\ Len(Pop) = Len(stack) - 1
         /\ \A i \in 1..(Len(stack) - 1) : Pop[i] = stack[i]
<1>1. Len(stack) \in Nat \ {0} BY TopType
<1>2. \A i \in 1..(Len(stack) - 1) : stack[i] \in Frame BY <1>1, StackType
<1> DEFINE n == Len(stack) - 1
<1>3. n \in Nat /\ 1 \in Int /\ \A i \in 1..n : stack[i] \in Frame BY <1>1, <1>2
<1> HIDE DEF n
<1>4. /\ SubSeq(stack, 1, n) \in Seq(Frame)
      /\ Len(SubSeq(stack, 1, n)) = IF 1 <= n THEN n - 1 + 1 ELSE 0
      /\ \A i \in 1..(n - 1 + 1) : SubSeq(stack, 1, n)[i] = stack[1 + i - 1]
  BY <1>3, SubSeqProperties
<1>5. \A i \in 1..n : SubSeq(stack, 1, n)[i] = stack[i] BY <1>3, <1>4
<1>6. Len(SubSeq(stack, 1, n)) = n BY <1>3, <1>4
<1> QED BY <1>4, <1>5, <1>6 DEF Pop, n

(* What a step does to the timelock, whoever may take it: the governor takes the *)
(* same steps (GovernorExecution).  Calls are those of any kind. *)
Schedules(op, delay) ==
  /\ \E sender : Schedule(sender, op, delay)
  /\ notBefore' = [notBefore EXCEPT ![op] = now + minDelay]
  /\ UNCHANGED <<performed, now, stack>>

Cancels(op) ==
  /\ \E sender : CancelOperation(sender, op)
  /\ UNCHANGED <<performed, notBefore, now, stack>>

Begins(op) ==
  /\ BeforeCall(op)
  /\ stack' = Append(stack, [op |-> op, next |-> 1, inside |-> FALSE, saved |-> State])
  /\ UNCHANGED <<committable, now>>

Enters(kind) ==
  /\ NextCall(kind)
  /\ stack' = SetTop([Top EXCEPT !.inside = TRUE])
  /\ UNCHANGED timelockState

Makes(kind) ==
  /\ NextCall(kind)
  /\ minDelay' \in Nat
  /\ timelockRoles' \in [TimelockRoles -> SUBSET (Accounts \cup {Self, AnyAccount})]
  /\ UNCHANGED timestamps
  /\ stack' = SetTop([Top EXCEPT !.next = @ + 1])

(* The types are kept. *)
LEMMA ScheduleType ==
  ASSUME TypeOK, NEW op \in Operations, NEW delay \in Nat, Schedules(op, delay)
  PROVE  TypeOK'
<1>1. timestamps' \in [Operations -> Nat] /\ notBefore' \in [Operations -> Nat]
  BY StateFields DEF Schedules, Schedule
<1>2. State' \in StateType
  BY <1>1, StateFields, StateTyped DEF Schedules, Schedule, State, StateType
<1> QED BY <1>2 DEF TypeOK, Schedules

LEMMA CancelType ==
  ASSUME TypeOK, NEW op \in Operations, Cancels(op)
  PROVE  TypeOK'
<1>1. timestamps' \in [Operations -> Nat] BY StateFields DEF Cancels, CancelOperation
<1>2. State' \in StateType
  BY <1>1, StateFields DEF Cancels, CancelOperation, State, StateType
<1> QED BY <1>2 DEF TypeOK, Cancels

LEMMA RolesTyped ==
  ASSUME TypeOK, NEW sender, NEW role \in TimelockRoles,
         NEW account \in Accounts \cup {Self, AnyAccount},
         RoleOperation(sender, role, account)
  PROVE  /\ timelockRoles' \in [TimelockRoles -> SUBSET (Accounts \cup {Self, AnyAccount})]
         /\ UNCHANGED <<timestamps, minDelay>>
BY StateFields DEF RoleOperation, GrantTimelockRole, RevokeTimelockRole,
   RenounceTimelockRole, Granted, Revoked

LEMMA RoleType ==
  ASSUME TypeOK, NEW sender, NEW role \in TimelockRoles,
         NEW account \in Accounts \cup {Self, AnyAccount}, ChangeRole(sender, role, account)
  PROVE  TypeOK'
<1>1. timelockRoles' \in [TimelockRoles -> SUBSET (Accounts \cup {Self, AnyAccount})]
  BY RolesTyped DEF ChangeRole
<1>2. UNCHANGED <<timestamps, minDelay, performed, notBefore, now, stack>>
  BY RolesTyped DEF ChangeRole
<1>3. State' \in StateType BY <1>1, <1>2, StateFields DEF State, StateType
<1> QED BY <1>2, <1>3 DEF TypeOK

LEMMA BeginType ==
  ASSUME TypeOK, NEW op \in Operations, Begins(op)
  PROVE  TypeOK'
<1>1. State \in StateType /\ UNCHANGED State /\ UNCHANGED now
  BY DEF TypeOK, Begins, State, committable
<1>2. [op |-> op, next |-> 1, inside |-> FALSE, saved |-> State] \in Frame
  BY <1>1 DEF Frame
<1>3. stack' \in Seq(Frame) BY <1>2, StackType DEF Begins
<1> QED BY <1>1, <1>3 DEF TypeOK, Frame

LEMMA PerformType ==
  ASSUME TypeOK, NEW kind, NextCall(kind)
  PROVE  performed' \in [Operations -> Nat]
BY StateFields, TopType DEF NextCall, Frame

LEMMA EnterType ==
  ASSUME TypeOK, NEW kind, Enters(kind)
  PROVE  TypeOK'
<1>1. State' \in StateType
  BY PerformType, StateFields
     DEF Enters, NextCall, timelockState, State, StateType
<1>2. [Top EXCEPT !.inside = TRUE] \in Frame
  BY TopType DEF Enters, NextCall, Frame
<1>3. stack' \in Seq(Frame) BY <1>2, SetTopProperties DEF Enters, NextCall
<1> QED BY <1>1, <1>3 DEF TypeOK, Enters, NextCall, Frame

LEMMA ReturnType ==
  ASSUME TypeOK, OtherReturns
  PROVE  TypeOK'
<1>1. State \in StateType /\ UNCHANGED State /\ UNCHANGED now
  BY DEF TypeOK, OtherReturns, State, committable
<1>2. [Top EXCEPT !.inside = FALSE, !.next = @ + 1] \in Frame
  <2>1. stack # <<>> BY DEF OtherReturns
  <2>2. Top \in Frame BY <2>1, TopType
  <2>3. Top.next + 1 \in Nat \ {0} BY <2>2 DEF Frame
  <2> QED BY <2>2, <2>3 DEF Frame
<1>3. stack' \in Seq(Frame) BY <1>2, SetTopProperties DEF OtherReturns
<1> QED BY <1>1, <1>3 DEF TypeOK, Frame

LEMMA MakeType ==
  ASSUME TypeOK, NEW kind, Makes(kind)
  PROVE  TypeOK'
<1>1. State' \in StateType
  BY PerformType, StateFields
     DEF Makes, NextCall, State, StateType
<1>2. [Top EXCEPT !.next = @ + 1] \in Frame
  BY TopType DEF Makes, NextCall, Frame
<1>3. stack' \in Seq(Frame) BY <1>2, SetTopProperties DEF Makes, NextCall
<1> QED BY <1>1, <1>3 DEF TypeOK, Makes, NextCall, Frame

LEMMA EndType ==
  ASSUME TypeOK, EndExecute
  PROVE  TypeOK'
<1>1. timestamps' \in [Operations -> Nat]
  BY StateFields, TopType DEF EndExecute, AfterCall, Frame, DONE
<1>2. State' \in StateType BY <1>1, StateFields DEF EndExecute, State, StateType
<1>3. stack' \in Seq(Frame) BY PopProperties DEF EndExecute
<1> QED BY <1>2, <1>3 DEF TypeOK, EndExecute, Frame

(* A failure brings back the state in which the frame began. *)
LEMMA RevertRestores ==
  ASSUME TypeOK, Revert
  PROVE  State' = Top.saved
<1>1. Top.saved \in StateType BY TopType DEF Revert, Frame
<1> QED BY <1>1 DEF Revert, State, StateType

LEMMA RevertType ==
  ASSUME TypeOK, Revert
  PROVE  TypeOK'
<1>1. State' \in StateType BY RevertRestores, TopType DEF Revert, Frame
<1>2. stack' \in Seq(Frame) BY PopProperties DEF Revert
<1> QED BY <1>1, <1>2 DEF TypeOK, Revert, Frame

LEMMA TickType ==
  ASSUME TypeOK, Tick
  PROVE  TypeOK'
<1>1. now' \in StartTime..MaxTime BY ExecutionAssumption DEF TypeOK, Tick
<1> QED BY <1>1 DEF TypeOK, Tick, State, committable

--------------------------------------------------------------------------------
(* Following *)

LEMMA FollowsSelf ==
  ASSUME NEW s, NEW clock
  PROVE  Follows(s, s, clock)
BY DEF Follows

LEMMA FollowsTransitive ==
  ASSUME NEW r, NEW s, NEW t, NEW clock, Follows(r, s, clock), Follows(s, t, clock)
  PROVE  Follows(r, t, clock)
<1> SUFFICES ASSUME NEW op \in Operations
             PROVE  /\ op \in Done(r) => op \in Done(t) /\ t.notBefore[op] = r.notBefore[op]
                    /\ op \in Done(t) \ Done(r) => t.notBefore[op] <= clock
                    /\ t.notBefore[op] = r.notBefore[op] \/ t.notBefore[op] >= clock
  BY DEF Follows
<1>1. /\ op \in Done(r) => op \in Done(s) /\ s.notBefore[op] = r.notBefore[op]
      /\ op \in Done(s) \ Done(r) => s.notBefore[op] <= clock
      /\ s.notBefore[op] = r.notBefore[op] \/ s.notBefore[op] >= clock
  BY DEF Follows
<1>2. /\ op \in Done(s) => op \in Done(t) /\ t.notBefore[op] = s.notBefore[op]
      /\ op \in Done(t) \ Done(s) => t.notBefore[op] <= clock
      /\ t.notBefore[op] = s.notBefore[op] \/ t.notBefore[op] >= clock
  BY DEF Follows
<1> HIDE DEF Done
<1> QED BY <1>1, <1>2

--------------------------------------------------------------------------------
(* How a step changes the stack: its top level, one level more, one level less. *)

LEMMA TopChanges ==
  ASSUME IInv, TypeOK', UNCHANGED now, Len(stack') = Len(stack),
         \A k \in 1..Len(stack) :
           /\ stack'[k].op = stack[k].op /\ stack'[k].saved = stack[k].saved
           /\ k < Len(stack) => stack'[k] = stack[k],
         InOrder(State'), Whole(State', Open(Len(stack))), Follows(State, State', now),
         stack # <<>> => Within(stack'[Len(stack)], State', now)
  PROVE  IInv' /\ Commits
<1>0. PICK n \in Nat : Len(stack) = n BY StackType DEF IInv
<1>1. Len(stack) = n /\ (n > 0 => stack # <<>>) BY <1>0
<1>2. \A k \in 1..n : Level(k)' = Level(k) BY <1>1 DEF Level
<1>3. Level(n + 1)' = State' BY <1>1 DEF Level
<1>4. \A m \in 0..n : Open(m)' = Open(m) BY <1>1 DEF Open
<1>5. LevelsOK'
  <2> SUFFICES ASSUME NEW k \in 1..(n + 1)
               PROVE  InOrder(Level(k)') /\ Whole(Level(k)', Open(k - 1)')
    BY <1>1 DEF LevelsOK
  <2>1. CASE k = n + 1 BY <1>1, <1>3, <1>4, <2>1
  <2>2. CASE k \in 1..n BY <1>1, <1>2, <1>4, <2>2 DEF IInv, LevelsOK
  <2> QED BY <1>1, <2>1, <2>2
<1>6. FramesOK'
  <2> SUFFICES ASSUME NEW k \in 1..n PROVE Within(stack'[k], Level(k + 1)', now)
    BY <1>1 DEF FramesOK
  <2>1. CASE k = n BY <1>1, <1>3, <2>1
  <2>2. CASE k < n
    <3>1. stack'[k] = stack[k] /\ Level(k + 1)' = Level(k + 1) BY <1>1, <1>2, <2>2
    <3> QED BY <1>1, <3>1 DEF IInv, FramesOK
  <2> QED BY <1>1, <2>1, <2>2
<1>7. Commits
  <2>1. CASE n = 0
    <3>1. stack = <<>> /\ stack' = <<>> BY <1>1, <2>1, StackType DEF IInv, TypeOK
    <3> QED BY <3>1 DEF Commits, Committed
  <2>2. CASE n > 0
    <3>1. stack # <<>> /\ stack' # <<>> /\ stack'[1].saved = stack[1].saved
      BY <1>1, <2>2
    <3> QED BY <3>1, FollowsSelf DEF Commits, Committed
  <2> QED BY <2>1, <2>2
<1> QED BY <1>5, <1>6, <1>7 DEF IInv

LEMMA LevelLess ==
  ASSUME IInv, TypeOK', UNCHANGED now, stack # <<>>, stack' = Pop,
         InOrder(State'), Whole(State', Open(Len(stack) - 1)),
         Len(stack) > 1 => Within(stack[Len(stack) - 1], State', now),
         Follows(Top.saved, State', now)
  PROVE  IInv' /\ Commits
<1>0. TypeOK BY DEF IInv
<1>1. PICK n \in Nat : Len(stack) = n + 1
  <2>1. Len(stack) - 1 \in Nat BY <1>0, TopType
  <2> QED BY <1>0, <2>1, StackType
<1>2. Len(stack') = n /\ \A k \in 1..n : stack'[k] = stack[k]
  BY <1>0, <1>1, PopProperties
<1>3. \A k \in 1..n : Level(k)' = Level(k) BY <1>1, <1>2 DEF Level
<1>4. Level(n + 1)' = State' BY <1>1, <1>2 DEF Level
<1>5. \A m \in 0..n : Open(m)' = Open(m) BY <1>1, <1>2 DEF Open
<1>6. LevelsOK'
  <2> SUFFICES ASSUME NEW k \in 1..(n + 1)
               PROVE  InOrder(Level(k)') /\ Whole(Level(k)', Open(k - 1)')
    BY <1>2 DEF LevelsOK
  <2>1. CASE k = n + 1 BY <1>1, <1>4, <1>5, <2>1
  <2>2. CASE k \in 1..n BY <1>1, <1>3, <1>5, <2>2 DEF IInv, LevelsOK
  <2> QED BY <1>1, <2>1, <2>2
<1>7. FramesOK'
  <2> SUFFICES ASSUME NEW k \in 1..n PROVE Within(stack'[k], Level(k + 1)', now)
    BY <1>2 DEF FramesOK
  <2>1. CASE k = n BY <1>1, <1>2, <1>4, <2>1
  <2>2. CASE k < n
    <3>1. stack'[k] = stack[k] /\ Level(k + 1)' = Level(k + 1) BY <1>1, <1>2, <1>3, <2>2
    <3> QED BY <1>1, <3>1 DEF IInv, FramesOK
  <2> QED BY <1>1, <2>1, <2>2
<1>8. Commits
  <2>1. CASE n = 0
    <3>1. stack' = <<>> /\ Committed = Top.saved
      BY <1>0, <1>1, <1>2, <2>1, PopProperties DEF Committed, Top
    <3> QED BY <3>1 DEF Commits, Committed
  <2>2. CASE n > 0
    <3>1. stack' # <<>> /\ stack'[1] = stack[1] BY <1>2, <2>2
    <3> QED BY <3>1, FollowsSelf DEF Commits, Committed
  <2> QED BY <2>1, <2>2
<1> QED BY <1>6, <1>7, <1>8 DEF IInv

LEMMA LevelMore ==
  ASSUME IInv, TypeOK', UNCHANGED <<State, now>>,
         NEW frame \in Frame, stack' = Append(stack, frame),
         frame.saved = State, Within(frame, State, now)
  PROVE  IInv' /\ Commits
<1>0. stack \in Seq(Frame) /\ Len(stack) \in Nat BY StackType DEF IInv
<1>1. PICK n \in Nat : Len(stack) = n BY <1>0
<1>2. Len(stack') = n + 1 /\ stack'[n + 1] = frame /\ \A k \in 1..n : stack'[k] = stack[k]
  BY <1>0, <1>1
<1>3. \A k \in 1..(n + 1) : Level(k)' = Level(k) BY <1>1, <1>2 DEF Level
<1>4. Level(n + 2)' = State /\ Level(n + 1) = State BY <1>1, <1>2 DEF Level
<1>5. \A m \in 0..n : Open(m)' = Open(m) BY <1>1, <1>2 DEF Open
<1>6. Open(n) \subseteq Open(n + 1)' BY <1>1, <1>2 DEF Open
<1>7. LevelsOK'
  <2> SUFFICES ASSUME NEW k \in 1..(n + 2)
               PROVE  InOrder(Level(k)') /\ Whole(Level(k)', Open(k - 1)')
    BY <1>1, <1>2 DEF LevelsOK
  <2>1. InOrder(State) /\ Whole(State, Open(n))
    BY <1>1, <1>4 DEF IInv, LevelsOK
  <2>2. CASE k = n + 2
    <3>1. Whole(State, Open(n + 1)') BY <1>6, <2>1 DEF Whole
    <3> QED BY <1>1, <1>4, <2>1, <2>2, <3>1
  <2>3. CASE k \in 1..(n + 1) BY <1>1, <1>3, <1>5, <2>3 DEF IInv, LevelsOK
  <2> QED BY <1>1, <2>2, <2>3
<1>8. FramesOK'
  <2> SUFFICES ASSUME NEW k \in 1..(n + 1) PROVE Within(stack'[k], Level(k + 1)', now)
    BY <1>1, <1>2 DEF FramesOK
  <2>1. CASE k = n + 1 BY <1>1, <1>2, <1>4, <2>1
  <2>2. CASE k \in 1..n BY <1>1, <1>2, <1>3, <2>2 DEF IInv, FramesOK
  <2> QED BY <1>1, <2>1, <2>2
<1>9. Commits
  <2>1. stack' # <<>> BY <1>1, <1>2
  <2>2. CASE n = 0
    <3>1. stack = <<>> BY <1>0, <1>1, <2>2
    <3>2. stack'[1].saved = State BY <1>1, <1>2, <2>2
    <3> QED BY <2>1, <3>1, <3>2, FollowsSelf DEF Commits, Committed
  <2>3. CASE n > 0
    <3>1. stack # <<>> /\ stack'[1] = stack[1] BY <1>1, <1>2, <2>3
    <3> QED BY <2>1, <3>1, FollowsSelf DEF Commits, Committed
  <2> QED BY <2>2, <2>3
<1> QED BY <1>7, <1>8, <1>9 DEF IInv

(* What the invariant says of the current state and of the one to return to. *)
LEMMA AtTop ==
  ASSUME IInv
  PROVE  /\ InOrder(State) /\ Whole(State, Open(Len(stack)))
         /\ stack # <<>> =>
              /\ Within(Top, State, now)
              /\ InOrder(Top.saved) /\ Whole(Top.saved, Open(Len(stack) - 1))
              /\ Open(Len(stack)) = Open(Len(stack) - 1) \cup {Top.op}
              /\ Len(stack) > 1 => Within(stack[Len(stack) - 1], Top.saved, now)
<1>0. TypeOK BY DEF IInv
<1>1. PICK n \in Nat : Len(stack) = n BY <1>0, StackType
<1>2. Level(n + 1) = State BY <1>1 DEF Level
<1>3. InOrder(State) /\ Whole(State, Open(n)) BY <1>1, <1>2 DEF IInv, LevelsOK
<1>4. ASSUME stack # <<>>
      PROVE  /\ Within(Top, State, now)
             /\ InOrder(Top.saved) /\ Whole(Top.saved, Open(n - 1))
             /\ Open(n) = Open(n - 1) \cup {Top.op}
             /\ n > 1 => Within(stack[n - 1], Top.saved, now)
  <2>1. n > 0 /\ Top = stack[n] BY <1>0, <1>1, <1>4, TopType DEF Top
  <2>2. Level(n) = Top.saved BY <1>1, <2>1 DEF Level
  <2>3. Within(Top, State, now) BY <1>1, <1>2, <2>1 DEF IInv, FramesOK
  <2>4. InOrder(Top.saved) /\ Whole(Top.saved, Open(n - 1))
    BY <1>1, <2>1, <2>2 DEF IInv, LevelsOK
  <2>5. n > 1 => Within(stack[n - 1], Top.saved, now)
    BY <1>1, <2>1, <2>2 DEF IInv, FramesOK
  <2>6. Open(n) = Open(n - 1) \cup {Top.op} BY <1>1, <2>1 DEF Open
  <2> QED BY <2>3, <2>4, <2>5, <2>6
<1> QED BY <1>1, <1>3, <1>4

--------------------------------------------------------------------------------
(* One lemma per step *)

(* Scheduling, cancelling and role changes: nothing is carried out. *)
LEMMA Adjusts ==
  ASSUME IInv, TypeOK', UNCHANGED <<now, stack, performed>>, Done(State') = Done(State),
         InOrder(State'), Follows(State, State', now)
  PROVE  IInv' /\ Commits
<1>1. Whole(State', Open(Len(stack)))
  BY AtTop DEF Whole, State
<1>2. ASSUME stack # <<>> PROVE Within(Top, State', now)
  <2>1. Within(Top, State, now) BY <1>2, AtTop
  <2>2. Follows(Top.saved, State', now) BY <2>1, FollowsTransitive DEF Within
  <2>3. Counted(Top, State') BY <2>1 DEF Within, Counted, State
  <2> QED BY <2>1, <2>2, <2>3 DEF Within
<1> QED BY <1>1, <1>2, TopChanges DEF Top

LEMMA ScheduleKeeps ==
  ASSUME IInv, NEW op \in Operations, NEW delay \in Nat, Schedules(op, delay)
  PROVE  IInv' /\ Commits
<1>0. TypeOK BY DEF IInv
<1>1. TypeOK' BY <1>0, ScheduleType
<1>2. /\ timestamps[op] = 0 /\ delay >= minDelay
      /\ timestamps' = [timestamps EXCEPT ![op] = now + delay]
      /\ notBefore' = [notBefore EXCEPT ![op] = now + minDelay]
      /\ UNCHANGED <<performed, now, stack>>
  BY <1>0, StateFields DEF Schedules, Schedule, IsOperation
<1>3. now \in Nat /\ now > DONE /\ minDelay \in Nat BY <1>0, StateFields
<1>4. \A p \in Operations :
        /\ timestamps'[p] = IF p = op THEN now + delay ELSE timestamps[p]
        /\ notBefore'[p] = IF p = op THEN now + minDelay ELSE notBefore[p]
  BY <1>0, <1>2, StateFields
<1>5. Done(State') = Done(State) BY <1>2, <1>3, <1>4 DEF Done, State, DONE
<1>6. InOrder(State')
  <2>1. InOrder(State) BY AtTop
  <2>2. \A p \in Operations : timestamps'[p] > DONE => timestamps'[p] >= notBefore'[p]
    BY <1>2, <1>3, <1>4, <2>1 DEF InOrder, State
  <2> QED BY <1>5, <2>1, <2>2 DEF InOrder, State
<1>7. Follows(State, State', now)
  <2>1. op \notin Done(State) BY <1>2 DEF Done, State, DONE
  <2>2. \A p \in Operations : /\ p \in Done(State) => notBefore'[p] = notBefore[p]
                              /\ notBefore'[p] = notBefore[p] \/ notBefore'[p] >= now
    BY <1>3, <1>4, <2>1
  <2> QED BY <1>5, <2>2 DEF Follows, State
<1> QED BY <1>1, <1>2, <1>5, <1>6, <1>7, Adjusts

LEMMA CancelKeeps ==
  ASSUME IInv, NEW op \in Operations, Cancels(op)
  PROVE  IInv' /\ Commits
<1>0. TypeOK BY DEF IInv
<1>1. TypeOK' BY <1>0, CancelType
<1>2. /\ timestamps[op] > DONE /\ timestamps' = [timestamps EXCEPT ![op] = 0]
      /\ UNCHANGED <<performed, notBefore, now, stack>>
  BY DEF Cancels, CancelOperation, IsOperationPending
<1>3. \A p \in Operations : timestamps'[p] = IF p = op THEN 0 ELSE timestamps[p]
  BY <1>0, <1>2, StateFields
<1>4. Done(State') = Done(State) BY <1>2, <1>3 DEF Done, State, DONE
<1>5. InOrder(State')
  <2>1. InOrder(State) BY AtTop
  <2>2. \A p \in Operations : timestamps'[p] > DONE => timestamps'[p] >= notBefore'[p]
    BY <1>2, <1>3, <2>1 DEF InOrder, State, DONE
  <2> QED BY <1>4, <2>1, <2>2 DEF InOrder, State
<1>6. Follows(State, State', now) BY <1>2, <1>4 DEF Follows, State
<1> QED BY <1>1, <1>2, <1>4, <1>5, <1>6, Adjusts

LEMMA RoleKeeps ==
  ASSUME IInv, NEW sender, NEW role \in TimelockRoles,
         NEW account \in Accounts \cup {Self, AnyAccount}, ChangeRole(sender, role, account)
  PROVE  IInv' /\ Commits
<1>1. TypeOK' BY RoleType DEF IInv
<1>2. UNCHANGED <<timestamps, performed, notBefore, now, stack>>
  BY RolesTyped DEF IInv, ChangeRole
<1>3. Done(State') = Done(State) BY <1>2 DEF Done, State
<1>4. InOrder(State') BY <1>2, <1>3, AtTop DEF InOrder, State
<1>5. Follows(State, State', now) BY <1>2, <1>3 DEF Follows, State
<1> QED BY <1>1, <1>2, <1>3, <1>4, <1>5, Adjusts

LEMMA BeginKeeps ==
  ASSUME IInv, NEW op \in Operations, Begins(op)
  PROVE  IInv' /\ Commits
<1> DEFINE frame == [op |-> op, next |-> 1, inside |-> FALSE, saved |-> State]
<1>0. TypeOK BY DEF IInv
<1>1. TypeOK' BY <1>0, BeginType
<1>2. UNCHANGED <<State, now>> BY DEF Begins, State, committable
<1>3. frame \in Frame BY <1>0 DEF Frame, TypeOK
<1>4. stack' = Append(stack, frame) /\ frame.saved = State BY DEF Begins
<1>5. Made(frame) = 0 BY DEF Made
<1>6. Len(Calls[op]) \in Nat BY ExecutionAssumption
<1>7. Predecessor[op] \in Done(State) \cup {NoOperation}
  BY TimeLockAssumption DEF Begins, BeforeCall, IsOperationDone, Done, State
<1>8. Counted(frame, State)
  <2>1. \A p \in Operations : performed[p] \in Nat BY <1>0, StateFields
  <2> QED BY <1>5, <2>1 DEF Counted, State
<1>9. Within(frame, State, now)
  BY <1>5, <1>6, <1>7, <1>8, FollowsSelf DEF Within
<1> HIDE DEF frame
<1> QED BY <1>1, <1>2, <1>3, <1>4, <1>9, LevelMore

(* The top frame goes on: it makes a call, or the call it made returns. *)
LEMMA Proceeds ==
  ASSUME IInv, TypeOK', stack # <<>>, UNCHANGED <<timestamps, notBefore, now>>,
         NEW f \in Frame, stack' = SetTop(f), f.op = Top.op, f.saved = Top.saved,
         NEW calls \in {0, 1},
         \A op \in Operations :
           performed'[op] = performed[op] + (IF op = Top.op THEN calls ELSE 0),
         Made(f) = Made(Top) + calls, Made(f) <= Len(Calls[f.op])
  PROVE  IInv' /\ Commits
<1>0. TypeOK BY DEF IInv
<1>1. Top \in Frame /\ Made(Top) \in Nat BY <1>0, TopType DEF Frame, Made
<1>2. Done(State') = Done(State) BY DEF Done, State
<1>3. InOrder(State') BY <1>2, AtTop DEF InOrder, State
<1>4. Whole(State', Open(Len(stack)))
  <2>1. Whole(State, Open(Len(stack))) /\ Top.op \in Open(Len(stack)) BY AtTop
  <2>2. \A p \in Operations \ Open(Len(stack)) : performed'[p] = performed[p]
    <3>1. \A p \in Operations : performed[p] \in Nat BY <1>0, StateFields
    <3> QED BY <2>1, <3>1
  <2> QED BY <1>2, <2>1, <2>2 DEF Whole, State
<1>5. Within(f, State', now)
  <2>1. Within(Top, State, now) BY AtTop
  <2>2. Counted(f, State')
    <3> SUFFICES ASSUME NEW p \in Operations \ Done(State)
                 PROVE  performed'[p] = f.saved.performed[p]
                          + (IF p = f.op THEN Made(f) ELSE 0)
      BY <1>2 DEF Counted, State
    <3>1. performed[p] = Top.saved.performed[p] + (IF p = Top.op THEN Made(Top) ELSE 0)
      BY <2>1 DEF Within, Counted, State
    <3>2. Top.saved.performed[p] \in Nat BY <1>1 DEF Frame, StateType
    <3> QED BY <1>1, <3>1, <3>2
  <2>3. Follows(f.saved, State', now) BY <1>2, <2>1 DEF Within, Follows, State
  <2> QED BY <2>1, <2>2, <2>3 DEF Within
<1>6. /\ Len(stack') = Len(stack) /\ stack'[Len(stack)] = f
      /\ \A k \in 1..Len(stack) : k < Len(stack) => stack'[k] = stack[k]
  BY <1>0, SetTopProperties, TopType
<1>7. \A k \in 1..Len(stack) : stack'[k].op = stack[k].op /\ stack'[k].saved = stack[k].saved
  BY <1>0, <1>6, TopType DEF Top
<1>8. Follows(State, State', now) BY <1>2 DEF Follows, State
<1> QED BY <1>3, <1>4, <1>5, <1>6, <1>7, <1>8, TopChanges

(* A call that the top frame is about to make. *)
LEMMA CallIsLeft ==
  ASSUME TypeOK, NEW kind, NextCall(kind)
  PROVE  /\ Top \in Frame /\ ~Top.inside /\ Top.next <= Len(Calls[Top.op])
         /\ \A op \in Operations :
              performed'[op] = performed[op] + (IF op = Top.op THEN 1 ELSE 0)
<1>1. Top \in Frame BY TopType DEF NextCall
<1>2. performed \in [Operations -> Nat] BY StateFields
<1> QED BY <1>1, <1>2 DEF NextCall, Frame

(* The frame after a call, and after its return. *)
LEMMA CallFrame ==
  ASSUME TypeOK, NEW kind, Enters(kind) \/ Makes(kind)
  PROVE  \E f \in Frame :
           /\ stack # <<>> /\ stack' = SetTop(f) /\ f.op = Top.op /\ f.saved = Top.saved
           /\ Made(Top) \in Nat /\ Made(f) = Made(Top) + 1
           /\ Made(f) \in 1..Len(Calls[f.op]) /\ Calls[f.op][Made(f)] = kind
<1>0. NextCall(kind) BY DEF Enters, Makes
<1>1. Top \in Frame /\ ~Top.inside /\ Top.next <= Len(Calls[Top.op])
  BY <1>0, CallIsLeft
<1>2. Top.next \in Nat \ {0} /\ Top.next \in 1..Len(Calls[Top.op]) /\ stack # <<>>
      /\ Calls[Top.op][Top.next] = kind
  <2>1. Len(Calls[Top.op]) \in Nat BY <1>1, ExecutionAssumption DEF Frame
  <2> QED BY <1>0, <1>1, <2>1 DEF NextCall, Frame
<1>3. Made(Top) = Top.next - 1 /\ Made(Top) \in Nat BY <1>1, <1>2 DEF Made
<1>4. CASE Enters(kind)
  <2> DEFINE f == [Top EXCEPT !.inside = TRUE]
  <2>1. f \in Frame /\ f.op = Top.op /\ f.saved = Top.saved /\ f.next = Top.next /\ f.inside
    BY <1>1 DEF Frame
  <2>2. stack' = SetTop(f) BY <1>4 DEF Enters
  <2>3. Made(f) = Top.next BY <2>1 DEF Made
  <2> HIDE DEF f
  <2> QED BY <1>2, <1>3, <2>1, <2>2, <2>3
<1>5. CASE Makes(kind)
  <2> DEFINE f == [Top EXCEPT !.next = @ + 1]
  <2>1. /\ f \in Frame /\ f.op = Top.op /\ f.saved = Top.saved
        /\ f.next = Top.next + 1 /\ ~f.inside
    BY <1>1, <1>2 DEF Frame
  <2>2. stack' = SetTop(f) BY <1>5 DEF Makes
  <2>3. Made(f) = Top.next BY <1>2, <2>1 DEF Made
  <2> HIDE DEF f
  <2> QED BY <1>2, <1>3, <2>1, <2>2, <2>3
<1> QED BY <1>4, <1>5

LEMMA ReturnFrame ==
  ASSUME TypeOK, OtherReturns
  PROVE  \E f \in Frame :
           /\ stack # <<>> /\ stack' = SetTop(f) /\ f.op = Top.op /\ f.saved = Top.saved
           /\ Made(f) = Made(Top) /\ Made(Top) \in Nat
<1> DEFINE f == [Top EXCEPT !.inside = FALSE, !.next = @ + 1]
<1>1. stack # <<>> /\ Top.inside /\ stack' = SetTop(f) BY DEF OtherReturns
<1>2. Top \in Frame BY <1>1, TopType
<1>3. Top.next \in Nat /\ Top.next + 1 \in Nat \ {0} BY <1>2 DEF Frame
<1>4. /\ f \in Frame /\ f.op = Top.op /\ f.saved = Top.saved
      /\ f.next = Top.next + 1 /\ ~f.inside
  BY <1>2, <1>3 DEF Frame
<1>5. Made(f) = Made(Top) /\ Made(Top) \in Nat BY <1>1, <1>3, <1>4 DEF Made
<1> HIDE DEF f
<1> QED BY <1>1, <1>4, <1>5

LEMMA CallKeeps ==
  ASSUME IInv, NEW kind, Enters(kind) \/ Makes(kind)
  PROVE  IInv' /\ Commits
<1>0. TypeOK BY DEF IInv
<1>1. TypeOK' BY <1>0, EnterType, MakeType
<1>2. PICK f \in Frame :
        /\ stack # <<>> /\ stack' = SetTop(f) /\ f.op = Top.op /\ f.saved = Top.saved
        /\ Made(f) = Made(Top) + 1 /\ Made(f) \in 1..Len(Calls[f.op])
  BY <1>0, CallFrame
<1>3. UNCHANGED <<timestamps, notBefore, now>> /\ NextCall(kind)
  BY DEF Enters, Makes, NextCall, timelockState
<1>4. \A op \in Operations :
        performed'[op] = performed[op] + (IF op = Top.op THEN 1 ELSE 0)
  BY <1>0, <1>3, CallIsLeft
<1>5. Made(f) <= Len(Calls[f.op])
  <2>1. Len(Calls[f.op]) \in Nat BY ExecutionAssumption DEF Frame
  <2> QED BY <1>2, <2>1
<1> QED BY <1>1, <1>2, <1>3, <1>4, <1>5, Proceeds

LEMMA ReturnKeeps ==
  ASSUME IInv, OtherReturns
  PROVE  IInv' /\ Commits
<1>0. TypeOK BY DEF IInv
<1>1. TypeOK' BY <1>0, ReturnType
<1>2. PICK f \in Frame :
        /\ stack # <<>> /\ stack' = SetTop(f) /\ f.op = Top.op /\ f.saved = Top.saved
        /\ Made(f) = Made(Top) /\ Made(Top) \in Nat
  BY <1>0, ReturnFrame
<1>3. Made(f) <= Len(Calls[f.op]) BY <1>2, AtTop DEF Within
<1>4. UNCHANGED <<timestamps, performed, notBefore, now>> BY DEF OtherReturns, committable
<1>5. \A op \in Operations :
        performed'[op] = performed[op] + (IF op = Top.op THEN 0 ELSE 0)
  <2>1. \A op \in Operations : performed[op] \in Nat BY <1>0, StateFields
  <2> QED BY <1>4, <2>1
<1>6. Made(f) = Made(Top) + 0 BY <1>2
<1> QED BY <1>1, <1>2, <1>3, <1>4, <1>5, <1>6, Proceeds

LEMMA RevertKeeps ==
  ASSUME IInv, Revert
  PROVE  IInv' /\ Commits
<1>0. TypeOK BY DEF IInv
<1>1. TypeOK' /\ State' = Top.saved BY <1>0, RevertType, RevertRestores
<1>2. stack # <<>> /\ stack' = Pop /\ UNCHANGED now BY DEF Revert
<1> QED BY <1>1, <1>2, AtTop, FollowsSelf, LevelLess

(* The end of an execution: the operation is done, as a whole unless an outer   *)
(* frame executes it too, which can then only fail.                              *)
LEMMA EndKeeps ==
  ASSUME IInv, EndExecute
  PROVE  IInv' /\ Commits
<1> DEFINE o == Top.op
           n == Len(stack)
<1>0. TypeOK BY DEF IInv
<1>1. TypeOK' BY <1>0, EndType
<1>2. /\ stack # <<>> /\ ~Top.inside /\ Top.next > Len(Calls[o])
      /\ timestamps[o] > DONE /\ timestamps[o] <= now
      /\ timestamps' = [timestamps EXCEPT ![o] = DONE]
      /\ stack' = Pop /\ UNCHANGED <<performed, notBefore, now>>
  BY DEF EndExecute, AfterCall, IsOperationReady
<1>3. Top \in Frame /\ o \in Operations /\ Top.saved \in StateType /\ n \in Nat \ {0}
  BY <1>0, <1>2, TopType DEF Frame
<1>4. \A p \in Operations : timestamps'[p] = IF p = o THEN DONE ELSE timestamps[p]
  BY <1>0, <1>2, StateFields
<1>5. Done(State') = Done(State) \cup {o} /\ o \notin Done(State)
  BY <1>2, <1>3, <1>4 DEF Done, State, DONE
<1>6. /\ InOrder(State) /\ Whole(State, Open(n)) /\ Within(Top, State, now)
      /\ Whole(Top.saved, Open(n - 1)) /\ Open(n) = Open(n - 1) \cup {o}
      /\ n > 1 => Within(stack[n - 1], Top.saved, now)
  BY <1>2, AtTop
<1>7. Follows(Top.saved, State, now) /\ Counted(Top, State) BY <1>6 DEF Within
<1>8. Done(Top.saved) \subseteq Done(State) BY <1>7 DEF Follows, Done
<1>9. Follows(State, State', now)
  <2>1. notBefore[o] <= now
    <3>1. notBefore[o] \in Nat /\ timestamps[o] \in Nat /\ now \in Nat
      BY <1>0, <1>3, StateFields
    <3>2. timestamps[o] >= notBefore[o] BY <1>2, <1>3, <1>6 DEF InOrder, State
    <3> QED BY <1>2, <3>1, <3>2
  <2> QED BY <1>2, <1>5, <2>1 DEF Follows, State
<1>10. InOrder(State')
  <2>1. Predecessor[o] \in Done(State) \cup {NoOperation}
    BY <1>6, <1>8 DEF Within
  <2>2. \A p \in Operations : timestamps'[p] > DONE => timestamps'[p] >= notBefore'[p]
    BY <1>2, <1>4, <1>6 DEF InOrder, State, DONE
  <2>3. \A p \in Operations : p \in Done(State) /\ Predecessor[p] # NoOperation
                                => Predecessor[p] \in Done(State)
    BY <1>6 DEF InOrder
  <2> QED BY <1>5, <2>1, <2>2, <2>3 DEF InOrder, State
<1>11. Whole(State', Open(n - 1))
  <2> SUFFICES ASSUME NEW p \in Operations \ Open(n - 1)
               PROVE  performed[p] = IF p \in Done(State') THEN Len(Calls[p]) ELSE 0
    BY <1>2 DEF Whole, State
  <2>1. CASE p # o BY <1>5, <1>6, <2>1 DEF Whole, State
  <2>2. CASE p = o
    <3>1. o \notin Done(Top.saved) BY <1>5, <1>8
    <3>2. Top.saved.performed[o] = 0 BY <1>3, <1>6, <2>2, <3>1 DEF Whole
    <3>3. performed[o] = Top.saved.performed[o] + Made(Top)
      BY <1>3, <1>5, <1>7 DEF Counted, State
    <3>4. Made(Top) = Len(Calls[o])
      <4>1. Made(Top) <= Len(Calls[o]) BY <1>6 DEF Within
      <4>2. Made(Top) = Top.next - 1 /\ Top.next \in Nat BY <1>2, <1>3 DEF Made, Frame
      <4>3. Len(Calls[o]) \in Nat BY <1>3, ExecutionAssumption
      <4> QED BY <1>2, <4>1, <4>2, <4>3
    <3>5. Len(Calls[o]) \in Nat BY <1>3, ExecutionAssumption
    <3> QED BY <1>5, <2>2, <3>2, <3>3, <3>4, <3>5
  <2> QED BY <2>1, <2>2
<1>12. ASSUME n > 1 PROVE Within(stack[n - 1], State', now)
  <2> DEFINE g == stack[n - 1]
  <2>1. Within(g, Top.saved, now) BY <1>6, <1>12
  <2>2. Follows(g.saved, State', now)
    <3>1. Follows(g.saved, Top.saved, now) BY <2>1 DEF Within
    <3> QED BY <1>7, <1>9, <3>1, FollowsTransitive
  <2>3. Counted(g, State')
    <3> SUFFICES ASSUME NEW p \in Operations \ Done(State')
                 PROVE  performed[p] = g.saved.performed[p]
                          + (IF p = g.op THEN Made(g) ELSE 0)
      BY <1>2 DEF Counted, State
    <3>1. p # o /\ p \notin Done(State) /\ p \notin Done(Top.saved) BY <1>5, <1>8
    <3>2. performed[p] = Top.saved.performed[p]
      <4>1. performed[p] = Top.saved.performed[p] + 0
        BY <1>7, <3>1 DEF Counted, State
      <4>2. Top.saved.performed[p] \in Nat BY <1>3 DEF StateType
      <4> QED BY <4>1, <4>2
    <3> QED BY <2>1, <3>1, <3>2 DEF Within, Counted
  <2> QED BY <2>1, <2>2, <2>3 DEF Within
<1>13. Follows(Top.saved, State', now) BY <1>7, <1>9, FollowsTransitive
<1> QED BY <1>1, <1>2, <1>10, <1>11, <1>12, <1>13, LevelLess

LEMMA TickKeeps ==
  ASSUME IInv, Tick
  PROVE  IInv'
<1>0. TypeOK BY DEF IInv
<1>1. TypeOK' BY <1>0, TickType
<1>2. stack = <<>> /\ stack' = <<>> /\ State' = State
  BY DEF Tick, State, committable
<1>3. Len(stack) = 0 /\ Len(stack') = 0 BY <1>2
<1>4. InOrder(State) /\ Whole(State, Open(0)) BY <1>3, AtTop
<1>5. Level(1)' = State /\ Open(0)' = Open(0) BY <1>2, <1>3 DEF Level, Open
<1>6. LevelsOK'
  <2> SUFFICES ASSUME NEW k \in 1..1
               PROVE  InOrder(Level(k)') /\ Whole(Level(k)', Open(k - 1)')
    BY <1>3 DEF LevelsOK
  <2> QED BY <1>4, <1>5
<1>7. FramesOK' BY <1>3 DEF FramesOK
<1> QED BY <1>1, <1>6, <1>7 DEF IInv

(* Every step other than the clock's. *)
Step ==
  \/ \E sender \in Accounts :
       \/ \E op \in Operations :
            \/ \E delay \in Delays : ScheduleOperation(sender, op, delay)
            \/ Cancel(sender, op)
            \/ BeginExecute(sender, op)
       \/ \E rc \in RoleChanges : ChangeRole(sender, rc[1], rc[2])
  \/ CallOther \/ OtherReturns
  \/ \E newDelay \in Delays : CallUpdateDelay(newDelay)
  \/ \E rc \in RoleChanges : CallChangeRole(rc[1], rc[2])
  \/ EndExecute \/ Revert

LEMMA DelayCallMakes ==
  ASSUME TypeOK, NEW newDelay \in Delays, CallUpdateDelay(newDelay)
  PROVE  Makes("updateDelay")
BY StateFields, ExecutionAssumption DEF CallUpdateDelay, UpdateDelay, Makes

LEMMA RoleCallMakes ==
  ASSUME TypeOK, NEW rc \in RoleChanges, CallChangeRole(rc[1], rc[2])
  PROVE  Makes("changeRole")
<1>1. rc[1] \in TimelockRoles /\ rc[2] \in Accounts \cup {Self, AnyAccount}
  BY ExecutionAssumption DEF TimelockRoles
<1>2. /\ timelockRoles' \in [TimelockRoles -> SUBSET (Accounts \cup {Self, AnyAccount})]
      /\ UNCHANGED <<timestamps, minDelay>>
  BY <1>1, RolesTyped DEF CallChangeRole
<1> QED BY <1>2, StateFields DEF CallChangeRole, Makes

LEMMA StepKeeps ==
  ASSUME IInv, Step
  PROVE  IInv' /\ Commits
<1>1. Delays \subseteq Nat BY ExecutionAssumption
<1>2. ASSUME NEW sender \in Accounts, NEW op \in Operations,
             \/ \E delay \in Delays : ScheduleOperation(sender, op, delay)
             \/ Cancel(sender, op)
             \/ BeginExecute(sender, op)
      PROVE  IInv' /\ Commits
  <2>1. (\E delay \in Nat : Schedules(op, delay)) \/ Cancels(op) \/ Begins(op)
    BY <1>1, <1>2 DEF ScheduleOperation, Schedules, Cancel, Cancels, BeginExecute, Begins
  <2> QED BY <2>1, ScheduleKeeps, CancelKeeps, BeginKeeps
<1>3. ASSUME NEW sender \in Accounts, NEW rc \in RoleChanges,
             ChangeRole(sender, rc[1], rc[2])
      PROVE  IInv' /\ Commits
  <2>1. rc[1] \in TimelockRoles /\ rc[2] \in Accounts \cup {Self, AnyAccount}
    BY ExecutionAssumption DEF TimelockRoles
  <2> QED BY <1>3, <2>1, RoleKeeps
<1>4. CASE CallOther BY <1>4, CallKeeps DEF CallOther, Enters
<1>5. CASE OtherReturns BY <1>5, ReturnKeeps
<1>6. CASE \/ \E newDelay \in Delays : CallUpdateDelay(newDelay)
           \/ \E rc \in RoleChanges : CallChangeRole(rc[1], rc[2])
  BY <1>6, DelayCallMakes, RoleCallMakes, CallKeeps DEF IInv
<1>7. CASE EndExecute BY <1>7, EndKeeps
<1>8. CASE Revert BY <1>8, RevertKeeps
<1> QED BY <1>2, <1>3, <1>4, <1>5, <1>6, <1>7, <1>8 DEF Step

LEMMA StutterKeeps ==
  ASSUME IInv, UNCHANGED executionVars
  PROVE  IInv' /\ UNCHANGED Committed
<1>1. UNCHANGED <<State, now, stack>> BY DEF executionVars, committable, State
<1> QED BY <1>1 DEF IInv, TypeOK, LevelsOK, FramesOK, Level, Open, Committed

LEMMA InitIInv == Init => IInv
<1> SUFFICES ASSUME Init PROVE IInv
  OBVIOUS
<1>1. stack = <<>> /\ Len(stack) = 0 BY DEF Init
<1>2. \A op \in Operations : /\ State.timestamps[op] = 0 /\ State.notBefore[op] = 0
                             /\ State.performed[op] = 0
  BY DEF Init, State
<1>3. TypeOK
  <2>1. timelockRoles \in [TimelockRoles -> SUBSET (Accounts \cup {Self, AnyAccount})]
    <3>1. /\ {Self, Admin} \subseteq Accounts \cup {Self, AnyAccount}
          /\ Proposers \subseteq Accounts \cup {Self, AnyAccount}
          /\ Executors \subseteq Accounts \cup {Self, AnyAccount}
      BY ExecutionAssumption
    <3> QED BY <3>1 DEF Init
  <2>2. State \in StateType
    BY <2>1, ExecutionAssumption DEF Init, State, StateType
  <2>3. now \in StartTime..MaxTime BY ExecutionAssumption DEF Init
  <2> QED BY <1>1, <2>2, <2>3 DEF TypeOK
<1>4. Done(State) = {} BY <1>2 DEF Done, DONE
<1>5. InOrder(State) /\ Whole(State, {}) BY <1>2, <1>4 DEF InOrder, Whole, DONE
<1>6. LevelsOK
  <2> SUFFICES ASSUME NEW k \in 1..1 PROVE InOrder(Level(k)) /\ Whole(Level(k), Open(k - 1))
    BY <1>1 DEF LevelsOK
  <2>1. Level(k) = State BY <1>1 DEF Level
  <2> QED BY <1>5, <2>1 DEF Whole
<1>7. FramesOK BY <1>1 DEF FramesOK
<1> QED BY <1>3, <1>6, <1>7 DEF IInv

LEMMA NextKeeps == IInv /\ [Next]_executionVars => IInv'
<1> SUFFICES ASSUME IInv, [Next]_executionVars PROVE IInv'
  OBVIOUS
<1>1. CASE Step BY <1>1, StepKeeps
<1>2. CASE Tick BY <1>2, TickKeeps
<1>3. CASE UNCHANGED executionVars BY <1>3, StutterKeeps
<1> QED BY <1>1, <1>2, <1>3 DEF Next, Step

LEMMA Invariance == Spec => []IInv
<1>1. Init => IInv BY InitIInv
<1>2. IInv /\ [Next]_executionVars => IInv' BY NextKeeps
<1> QED BY <1>1, <1>2, PTL DEF Spec

--------------------------------------------------------------------------------
(* Theorems *)

(* The timelock's state and the frames of its executions keep their types.      *)
THEOREM TypeCorrect == Spec => []TypeOK
<1>1. IInv => TypeOK BY DEF IInv
<1> QED BY <1>1, Invariance, PTL

(* What the invariant says of the current state, which is the top of the stack,  *)
(* and of the committed one, which is its bottom. *)
LEMMA PredecessorFollows ==
  ASSUME IInv
  PROVE  PredecessorFirst
<1>1. InOrder(State) BY AtTop
<1> QED BY <1>1, TimeLockAssumption DEF PredecessorFirst, InOrder, Done, State, IsOperationDone

LEMMA DelayFollows ==
  ASSUME IInv
  PROVE  PendingWaitsItsDelay
<1>1. InOrder(State) BY AtTop
<1> QED BY <1>1 DEF PendingWaitsItsDelay, InOrder, State, IsOperationPending

LEMMA AtBottom ==
  ASSUME IInv
  PROVE  /\ Committed \in StateType /\ InOrder(Committed) /\ Whole(Committed, {})
<1>1. Len(stack) \in Nat /\ (stack # <<>> <=> Len(stack) >= 1) BY StackType DEF IInv
<1>2. Level(1) = Committed BY <1>1 DEF Level, Committed
<1>3. Open(0) = {} BY DEF Open
<1>4. 1 \in 1..(Len(stack) + 1) /\ 1 - 1 = 0 BY <1>1
<1>5. Level(1) \in StateType BY <1>4, StackType DEF IInv
<1>6. InOrder(Level(1)) /\ Whole(Level(1), Open(0)) BY <1>4 DEF IInv, LevelsOK
<1> QED BY <1>2, <1>3, <1>5, <1>6

LEMMA WholeFollows ==
  ASSUME IInv
  PROVE  AllOrNothing
BY AtBottom DEF AllOrNothing, Whole, Done

(* However executions nest and fail, an operation is done only after its        *)
(* predecessor (TimelockController._beforeCall).                                 *)
THEOREM PredecessorIsFirst == Spec => []PredecessorFirst
<1>1. IInv => PredecessorFirst BY PredecessorFollows
<1> QED BY <1>1, Invariance, PTL

(* No pending operation is ready before the delay that was the minimum when it  *)
(* was scheduled, also after a failure brought back an older state (_schedule).  *)
THEOREM PendingWaits == Spec => []PendingWaitsItsDelay
<1>1. IInv => PendingWaitsItsDelay BY DelayFollows
<1> QED BY <1>1, Invariance, PTL

(* Outside a transaction every operation has had all of its calls made once or  *)
(* none, however its execution was re-entered (_afterCall).                      *)
THEOREM NothingByHalves == Spec => []AllOrNothing
<1>1. IInv => AllOrNothing BY WholeFollows
<1> QED BY <1>1, Invariance, PTL

(* A step that keeps the clock is a transaction of the abstract specification.  *)
LEMMA CommitIsTransaction ==
  ASSUME IInv, IInv', Commits, UNCHANGED now
  PROVE  Promise!Transaction
<1> DEFINE S == Done(Committed') \ Done(Committed)
           size == [op \in Operations |-> Len(Calls[op])]
<1>1. /\ Committed \in StateType /\ Whole(Committed, {})
      /\ Committed' \in StateType /\ InOrder(Committed') /\ Whole(Committed', {})
  <2>1. Committed \in StateType /\ InOrder(Committed) /\ Whole(Committed, {}) BY AtBottom
  <2>2. (Committed \in StateType /\ InOrder(Committed) /\ Whole(Committed, {}))'
    BY AtBottom, PTL
  <2> QED BY <2>1, <2>2
<1>2. Done(Committed) \subseteq Done(Committed') BY DEF Commits, Follows, Done
<1>3. S \in SUBSET (Operations \ Done(Committed))
      /\ Done(Committed') = Done(Committed) \cup S
  BY <1>2 DEF Done
<1>4. Committed'.performed = [op \in Operations |->
        Committed.performed[op] + IF op \in S THEN size[op] ELSE 0]
  <2>1. \A op \in Operations : Committed'.performed[op] =
          Committed.performed[op] + IF op \in S THEN size[op] ELSE 0
    <3> SUFFICES ASSUME NEW op \in Operations
                 PROVE  Committed'.performed[op] =
                          Committed.performed[op] + IF op \in S THEN size[op] ELSE 0
      OBVIOUS
    <3>1. /\ Committed.performed[op] = IF op \in Done(Committed) THEN Len(Calls[op]) ELSE 0
          /\ Committed'.performed[op] = IF op \in Done(Committed') THEN Len(Calls[op]) ELSE 0
      BY <1>1 DEF Whole
    <3>2. Len(Calls[op]) \in Nat BY ExecutionAssumption
    <3>3. size[op] = Len(Calls[op]) OBVIOUS
    <3>4. CASE op \in S
      <4>1. op \in Done(Committed') /\ op \notin Done(Committed) BY <3>4
      <4>2. Committed'.performed[op] = size[op] /\ Committed.performed[op] = 0
        BY <3>1, <3>3, <4>1
      <4> HIDE DEF S, size
      <4> QED BY <3>2, <3>3, <3>4, <4>2
    <3>5. CASE op \notin S
      <4>1. op \in Done(Committed') <=> op \in Done(Committed) BY <1>2, <3>5
      <4>2. Committed'.performed[op] = Committed.performed[op] BY <3>1, <4>1
      <4>3. Committed.performed[op] \in Nat BY <1>1 DEF StateType
      <4> HIDE DEF S, size
      <4> QED BY <3>5, <4>2, <4>3
    <3> QED BY <3>4, <3>5
  <2>2. Committed'.performed \in [Operations -> Nat] BY <1>1 DEF StateType
  <2> QED BY <2>1, <2>2
<1>5. \A op \in S : /\ Committed'.notBefore[op] <= now
                    /\ Predecessor[op] \in Done(Committed') \cup {NoOperation}
  BY <1>1 DEF Commits, Follows, InOrder, Done
<1>6. \A op \in Done(Committed) : Committed'.notBefore[op] = Committed.notBefore[op]
  BY DEF Commits, Follows, Done
<1>7. \A op \in Operations :
        Committed'.notBefore[op] \in {Committed.notBefore[op]} \cup {n \in Nat : n >= now}
  BY <1>1 DEF Commits, Follows, StateType
<1> DEFINE before == {op \in Operations : Committed.timestamps[op] = DONE}
           after == {op \in Operations : Committed'.timestamps[op] = DONE}
<1>8. before = Done(Committed) /\ after = Done(Committed') BY DEF Done
<1> HIDE DEF S, size, before, after
<1>9. /\ S \in SUBSET (Operations \ before) /\ after = before \cup S
      /\ \A op \in S : /\ Committed'.notBefore[op] <= now
                       /\ Predecessor[op] \in after \cup {NoOperation}
      /\ \A op \in before : Committed'.notBefore[op] = Committed.notBefore[op]
  BY <1>3, <1>5, <1>6, <1>8
<1>10. \E T \in SUBSET (Operations \ before) :
         /\ after = before \cup T
         /\ Committed'.performed = [op \in Operations |->
               Committed.performed[op] + IF op \in T THEN size[op] ELSE 0]
         /\ \A op \in T : /\ Committed'.notBefore[op] <= now
                          /\ Predecessor[op] \in after \cup {NoOperation}
         /\ \A op \in before : Committed'.notBefore[op] = Committed.notBefore[op]
         /\ \A op \in Operations :
              Committed'.notBefore[op] \in {Committed.notBefore[op]} \cup {n \in Nat : n >= now}
         /\ UNCHANGED now
  <2> S \in SUBSET (Operations \ before) BY <1>9
  <2> WITNESS S \in SUBSET (Operations \ before)
  <2> QED BY <1>4, <1>7, <1>9
<1> QED BY <1>10 DEF Promise!Transaction, size, before, after

(* The timelock implements what ScheduledExecution promises: each operation     *)
(* takes effect at most once, as a whole, after its predecessor and not before   *)
(* its time, whatever the called contracts do and whatever fails.                *)
THEOREM KeepsItsPromise == Spec => PromiseSpec
<1>1. Init => Promise!Init
  <2> SUFFICES ASSUME Init PROVE Promise!Init
    OBVIOUS
  <2>1. Committed = State BY DEF Init, Committed
  <2>2. now \in Nat BY ExecutionAssumption DEF Init
  <2> QED BY <2>1, <2>2 DEF Init, Promise!Init, State, DONE
<1>2. IInv /\ [Next]_executionVars => [Promise!Next]_(Promise!promiseVars)
  <2> SUFFICES ASSUME IInv, [Next]_executionVars
               PROVE  [Promise!Next]_(Promise!promiseVars)
    OBVIOUS
  <2>1. CASE Step
    <3>1. IInv' /\ Commits BY <2>1, StepKeeps
    <3>2. UNCHANGED now
      BY <2>1 DEF Step, ScheduleOperation, Cancel, ChangeRole, BeginExecute, CallOther,
         CallUpdateDelay, CallChangeRole, NextCall, OtherReturns, EndExecute, Revert
    <3> QED BY <3>1, <3>2, CommitIsTransaction DEF Promise!Next
  <2>2. CASE Tick
    <3>1. Committed' = Committed BY <2>2 DEF Tick, Committed, State, committable
    <3>2. now' > now BY <2>2, StateFields DEF Tick, IInv
    <3> QED BY <3>1, <3>2 DEF Promise!Next, Promise!Tick
  <2>3. CASE UNCHANGED executionVars
    <3>1. UNCHANGED <<Committed, now>> BY <2>3, StutterKeeps DEF executionVars
    <3> QED BY <3>1 DEF Promise!promiseVars
  <2> QED BY <2>1, <2>2, <2>3 DEF Next, Step
<1> QED BY <1>1, <1>2, Invariance, PTL DEF Spec, PromiseSpec, Promise!Spec
================================================================================
