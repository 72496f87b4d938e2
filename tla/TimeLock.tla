------------------------------- MODULE TimeLock --------------------------------
(* The state of the TimeLock contract (a TimelockController) and its functions. *)
(* An operation stands for a batch of calls with its predecessor and salt: the  *)
(* contract knows it by the hash of these, so that Predecessor is fixed per     *)
(* operation.  execute() is split as in the code, _beforeCall and _afterCall:   *)
(* whoever composes this module says what happens between them, and what        *)
(* becomes of the other variables in AfterCall and UpdateDelay.                  *)
EXTENDS Integers, AccessControl

CONSTANTS Operations,
          NoOperation,     \* predecessor 0: none
          Predecessor,     \* the predecessor of each operation
          Self,            \* address(this)
          AnyAccount,      \* address(0): holding EXECUTOR, it opens execution to all
          MaxUint256       \* bound of the checked addition of schedule

ASSUME TimeLockAssumption ==
  /\ NoOperation \notin Operations
  /\ Predecessor \in [Operations -> Operations \cup {NoOperation}]
  /\ MaxUint256 \in Nat

VARIABLES timestamps,      \* 0: unknown; DONE: executed; else when it is ready
          minDelay, timelockRoles,
          now              \* block.timestamp

timelockState == <<timestamps, minDelay, timelockRoles>>

DONE == 1
TimelockRoles == {"TIMELOCK_ADMIN", "PROPOSER", "EXECUTOR", "CANCELLER"}

IsOperation(op) == timestamps[op] > 0
IsOperationPending(op) == timestamps[op] > DONE
IsOperationReady(op) == timestamps[op] > DONE /\ timestamps[op] <= now
IsOperationDone(op) == timestamps[op] = DONE

--------------------------------------------------------------------------------

(* Mutant: an operation that is done can be scheduled again. *)
ScheduleAgain(sender, op, delay) ==
  /\ HasRole(timelockRoles, "PROPOSER", sender)
  /\ ~IsOperationPending(op)
  /\ delay >= minDelay
  /\ now + delay <= MaxUint256
  /\ timestamps' = [timestamps EXCEPT ![op] = now + delay]
  /\ UNCHANGED <<minDelay, timelockRoles>>

(* Mutant: the delay asked for is not compared with the minimum. *)
ScheduleAnyDelay(sender, op, delay) ==
  /\ HasRole(timelockRoles, "PROPOSER", sender)
  /\ ~IsOperation(op)
  /\ now + delay <= MaxUint256
  /\ timestamps' = [timestamps EXCEPT ![op] = now + delay]
  /\ UNCHANGED <<minDelay, timelockRoles>>

Schedule(sender, op, delay) ==
  /\ HasRole(timelockRoles, "PROPOSER", sender)
  /\ ~IsOperation(op)
  /\ delay >= minDelay
  /\ now + delay <= MaxUint256
  /\ timestamps' = [timestamps EXCEPT ![op] = now + delay]
  /\ UNCHANGED <<minDelay, timelockRoles>>

CancelOperation(sender, op) ==
  /\ HasRole(timelockRoles, "CANCELLER", sender)
  /\ IsOperationPending(op)
  /\ timestamps' = [timestamps EXCEPT ![op] = 0]
  /\ UNCHANGED <<minDelay, timelockRoles>>

MayExecute(sender) ==
  \/ HasRole(timelockRoles, "EXECUTOR", AnyAccount)
  \/ HasRole(timelockRoles, "EXECUTOR", sender)

(* Mutant: the predecessor need only be scheduled. *)
BeforeCallPredecessorKnown(op) ==
  /\ IsOperationReady(op)
  /\ Predecessor[op] # NoOperation => IsOperation(Predecessor[op])

BeforeCall(op) ==
  /\ IsOperationReady(op)
  /\ Predecessor[op] # NoOperation => IsOperationDone(Predecessor[op])

(* Mutant: the operation is not checked again after its calls. *)
AfterCallUnchecked(op) == timestamps' = [timestamps EXCEPT ![op] = DONE]

AfterCall(op) ==
  /\ IsOperationReady(op)
  /\ timestamps' = [timestamps EXCEPT ![op] = DONE]

UpdateDelay(sender, newDelay) ==
  /\ sender = Self
  /\ minDelay' = newDelay

GrantTimelockRole(sender, role, account) ==
  /\ HasRole(timelockRoles, "TIMELOCK_ADMIN", sender)
  /\ timelockRoles' = Granted(timelockRoles, role, account)
  /\ UNCHANGED <<timestamps, minDelay>>

RevokeTimelockRole(sender, role, account) ==
  /\ HasRole(timelockRoles, "TIMELOCK_ADMIN", sender)
  /\ timelockRoles' = Revoked(timelockRoles, role, account)
  /\ UNCHANGED <<timestamps, minDelay>>

RenounceTimelockRole(sender, role) ==
  /\ timelockRoles' = Revoked(timelockRoles, role, sender)
  /\ UNCHANGED <<timestamps, minDelay>>
================================================================================
