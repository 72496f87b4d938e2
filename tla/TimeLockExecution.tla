--------------------------- MODULE TimeLockExecution ---------------------------
(* The TimeLock with execution taken call by call.  While a call to another     *)
(* contract runs, that contract may call the timelock again, execution          *)
(* included; a failure undoes everything since the frame began, and the         *)
(* contract that made the call may catch it and go on.  Time passes only        *)
(* between transactions.                                                         *)
EXTENDS TimeLock, Sequences, FiniteSets

CONSTANTS Accounts,      \* senders of transactions, Self and AnyAccount excluded
          Admin,         \* the deployer, TIMELOCK_ADMIN from the constructor
          Proposers, Executors,    \* arguments of the constructor
          CallKinds,     \* kinds of calls: "other", those of the timelock to itself
                         \* ("updateDelay", "changeRole") and the governor's
          Callees,       \* the accounts that may act while a call of each kind runs
          Calls,         \* the calls of each operation, by kind
          Delays,        \* delays of schedule and updateDelay
          RoleChanges,   \* <<role, account>> of the role operations
          InitialDelay, StartTime,
          MaxDepth,      \* bound on nested executions
          MaxTime        \* bound on the clock

ASSUME ExecutionAssumption ==
  /\ Admin \in Accounts /\ Self \notin Accounts
  /\ Proposers \subseteq Accounts /\ Executors \subseteq Accounts \cup {AnyAccount}
  /\ Calls \in [Operations -> Seq(CallKinds)]
  /\ Callees \in [CallKinds -> SUBSET Accounts]
  /\ Delays \subseteq Nat /\ InitialDelay \in Nat
  /\ RoleChanges \subseteq
       {"TIMELOCK_ADMIN", "PROPOSER", "EXECUTOR", "CANCELLER"}
         \X (Accounts \cup {Self, AnyAccount})
  /\ MaxDepth \in Nat
  /\ StartTime \in Nat /\ StartTime > DONE /\ MaxTime \in Nat /\ StartTime <= MaxTime

VARIABLES stack,         \* executions under way, outermost first
          performed,     \* history: calls made by each operation
          notBefore      \* history: earliest execution promised at scheduling

committable == <<timestamps, minDelay, timelockRoles, performed, notBefore>>
executionVars == <<committable, now, stack>>

Top == stack[Len(stack)]
Pop == SubSeq(stack, 1, Len(stack) - 1)
SetTop(frame) == [stack EXCEPT ![Len(stack)] = frame]

(* Who may call the timelock now: anyone to begin a transaction, the called     *)
(* contract while it runs.                                                       *)
MaySend(sender) ==
  stack # <<>> => Top.inside /\ sender \in Callees[Calls[Top.op][Top.next]]

State == [timestamps |-> timestamps, minDelay |-> minDelay,
          timelockRoles |-> timelockRoles, performed |-> performed,
          notBefore |-> notBefore]

--------------------------------------------------------------------------------

ScheduleOperation(sender, op, delay) ==
  /\ MaySend(sender)
  /\ Schedule(sender, op, delay)
  /\ notBefore' = [notBefore EXCEPT ![op] = now + minDelay]
  /\ UNCHANGED <<performed, now, stack>>

Cancel(sender, op) ==
  /\ MaySend(sender)
  /\ CancelOperation(sender, op)
  /\ UNCHANGED <<performed, notBefore, now, stack>>

RoleOperation(sender, role, account) ==
  \/ GrantTimelockRole(sender, role, account)
  \/ RevokeTimelockRole(sender, role, account)
  \/ sender = account /\ RenounceTimelockRole(sender, role)

ChangeRole(sender, role, account) ==
  /\ MaySend(sender)
  /\ RoleOperation(sender, role, account)
  /\ UNCHANGED <<performed, notBefore, now, stack>>

(* execute(): the role, _beforeCall, and the first call is next. *)
BeginExecute(sender, op) ==
  /\ MaySend(sender)
  /\ MayExecute(sender)
  /\ BeforeCall(op)
  /\ Len(stack) < MaxDepth
  /\ stack' = Append(stack, [op |-> op, next |-> 1, inside |-> FALSE,
                             saved |-> State])
  /\ UNCHANGED <<committable, now>>

NextCall(kind) ==
  /\ stack # <<>> /\ ~Top.inside
  /\ Top.next <= Len(Calls[Top.op])
  /\ Calls[Top.op][Top.next] = kind
  /\ performed' = [performed EXCEPT ![Top.op] = @ + 1]
  /\ UNCHANGED <<notBefore, now>>

CallOther ==
  /\ NextCall("other")
  /\ stack' = SetTop([Top EXCEPT !.inside = TRUE])
  /\ UNCHANGED timelockState

OtherReturns ==
  /\ stack # <<>> /\ Top.inside
  /\ stack' = SetTop([Top EXCEPT !.inside = FALSE, !.next = @ + 1])
  /\ UNCHANGED <<committable, now>>

(* The timelock calls itself: Self is the sender. *)
CallUpdateDelay(newDelay) ==
  /\ NextCall("updateDelay")
  /\ UpdateDelay(Self, newDelay)
  /\ UNCHANGED <<timestamps, timelockRoles>>
  /\ stack' = SetTop([Top EXCEPT !.next = @ + 1])

(* As an administrator of the roles it may also change them. *)
CallChangeRole(role, account) ==
  /\ NextCall("changeRole")
  /\ RoleOperation(Self, role, account)
  /\ stack' = SetTop([Top EXCEPT !.next = @ + 1])

(* All calls are made: _afterCall. *)
EndExecute ==
  /\ stack # <<>> /\ ~Top.inside
  /\ Top.next > Len(Calls[Top.op])
  /\ AfterCall(Top.op)
  /\ stack' = Pop
  /\ UNCHANGED <<minDelay, timelockRoles, performed, notBefore, now>>

(* A call failed, a requirement was not met, or gas ran out: the innermost      *)
(* execution is undone.                                                         *)
Revert ==
  /\ stack # <<>>
  /\ timestamps' = Top.saved.timestamps
  /\ minDelay' = Top.saved.minDelay
  /\ timelockRoles' = Top.saved.timelockRoles
  /\ performed' = Top.saved.performed
  /\ notBefore' = Top.saved.notBefore
  /\ stack' = Pop
  /\ UNCHANGED now

Tick ==
  /\ stack = <<>>
  /\ now < MaxTime
  /\ now' = now + 1
  /\ UNCHANGED <<committable, stack>>

(* The constructor: the timelock and the deployer administer the roles, and     *)
(* proposers may also cancel.                                                    *)
Init ==
  /\ timestamps = [op \in Operations |-> 0]
  /\ minDelay = InitialDelay
  /\ timelockRoles = [r \in TimelockRoles |->
       CASE r = "TIMELOCK_ADMIN" -> {Self, Admin}
         [] r \in {"PROPOSER", "CANCELLER"} -> Proposers
         [] OTHER -> Executors]
  /\ now = StartTime
  /\ stack = <<>>
  /\ performed = [op \in Operations |-> 0]
  /\ notBefore = [op \in Operations |-> 0]

Next ==
  \/ \E sender \in Accounts :
       \/ \E op \in Operations :
            \/ \E delay \in Delays : ScheduleOperation(sender, op, delay)
            \/ Cancel(sender, op)
            \/ BeginExecute(sender, op)
       \/ \E rc \in RoleChanges : ChangeRole(sender, rc[1], rc[2])
  \/ CallOther \/ OtherReturns
  \/ \E newDelay \in Delays : CallUpdateDelay(newDelay)
  \/ \E rc \in RoleChanges : CallChangeRole(rc[1], rc[2])
  \/ EndExecute \/ Revert \/ Tick

Spec == Init /\ [][Next]_executionVars

--------------------------------------------------------------------------------
(* Properties *)

StateType ==
  [timestamps : [Operations -> Nat], minDelay : Nat,
   timelockRoles : [TimelockRoles -> SUBSET (Accounts \cup {Self, AnyAccount})],
   performed : [Operations -> Nat], notBefore : [Operations -> Nat]]

(* The timelock's state and the frames of its executions keep their types.      *)
TypeOK ==
  /\ State \in StateType
  /\ now \in StartTime..MaxTime
  /\ stack \in Seq([op : Operations, next : Nat \ {0}, inside : BOOLEAN,
                    saved : StateType])

(* The state as of the last finished transaction: an execution under way shows  *)
(* outside only when its outermost frame ends.                                  *)
Committed == IF stack = <<>> THEN State ELSE stack[1].saved

(* An operation is done only after its predecessor, in whatever order they are  *)
(* executed, nested or undone (TimelockController._beforeCall).                 *)
PredecessorFirst ==
  \A op \in Operations :
    IsOperationDone(op) /\ Predecessor[op] # NoOperation
      => IsOperationDone(Predecessor[op])

(* Between transactions an operation either has had no effect at all or each of *)
(* its calls was made exactly once, however its execution was re-entered        *)
(* (the second readiness check of _afterCall).                                  *)
AllOrNothing ==
  \A op \in Operations :
    Committed.performed[op] =
      IF Committed.timestamps[op] = DONE THEN Len(Calls[op]) ELSE 0

(* A pending operation is never ready before the delay that was the minimum     *)
(* when it was scheduled, whatever later becomes of the minimum                 *)
(* (_schedule, updateDelay).                                                     *)
PendingWaitsItsDelay ==
  \A op \in Operations :
    IsOperationPending(op) => timestamps[op] >= notBefore[op]

(* The timelock carries out operations at most once, whole, in order and not    *)
(* before their time: the abstract specification on committed states.           *)
Promise == INSTANCE ScheduledExecution WITH
  Size <- [op \in Operations |-> Len(Calls[op])],
  done <- {op \in Operations : Committed.timestamps[op] = DONE},
  performed <- Committed.performed,
  notBefore <- Committed.notBefore

PromiseSpec == Promise!Spec
================================================================================
