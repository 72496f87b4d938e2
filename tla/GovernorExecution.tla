--------------------------- MODULE GovernorExecution ---------------------------
(* The governor and its timelock while decisions are carried out, call by call. *)
(* execute() of the governor announces the calls that go to the governor itself, *)
(* then has the timelock make them; a call that only governance may make uses up *)
(* its announcement.  Operations that others scheduled run beside the proposals, *)
(* a called contract may call governor and timelock again, and a proposal may    *)
(* replace the timelock.  Every proposal here has won its vote.                  *)
EXTENDS TimeLockExecution, Sums, SequencesExt

CONSTANTS Proposals,       \* operations that are proposals of the governor
          Governor,        \* address of the governor, a proposer of the timelock
          Outside,         \* operations that other proposers schedule
          NewTimelock      \* argument of updateTimelock: the governor is no proposer there

(* The calls that go to the governor: functions with the modifier onlyGovernance,*)
(* of which relay() calls another contract, and others ("plain").                *)
GovernanceKinds == {"set", "relay", "updateTimelock"}
GovernorKinds == GovernanceKinds \cup {"plain"}

ASSUME GovernorExecutionAssumption ==
  /\ Proposals \subseteq Operations /\ Outside \subseteq Operations
  /\ CallKinds = GovernorKinds \cup {"other", "updateDelay", "changeRole"}
  /\ Governor \in Proposers
  /\ \A kind \in CallKinds : Governor \in Callees[kind] => kind = "relay"
  /\ NewTimelock # Self

VARIABLES executed, canceled,  \* proposals, by flag of _proposals
          timelockIds,         \* proposals whose _timelockIds entry is set
          announced,           \* _governanceCall: hashes of calls, here their kinds
          executor,            \* _timelock
          saves,               \* for each frame of stack: the governor's state before
                               \* it, and whether the governor began it
          governed,            \* history: calls accepted by onlyGovernance, by kind
          past                 \* history: proposals that others scheduled

governorState == <<executed, canceled, timelockIds, announced, executor, governed, past>>
daoVars == <<executionVars, governorState, saves>>

GovernorStateNow ==
  [executed |-> executed, canceled |-> canceled, timelockIds |-> timelockIds,
   announced |-> announced, executor |-> executor, governed |-> governed,
   past |-> past]

(* Anyone may call the governor, to begin a transaction or while a call runs. *)
MayCallGovernor == stack # <<>> => Top.inside

(* state(): a timelock that does not know the operation has it neither done nor *)
(* pending.                                                                      *)
ProposalState(p) ==
  CASE p \in executed -> "Executed"
    [] p \in canceled \ executed -> "Canceled"
    [] OTHER -> IF p \notin timelockIds THEN "Succeeded"
                ELSE IF executor = Self /\ IsOperationDone(p) THEN "Executed"
                ELSE IF executor = Self /\ IsOperationPending(p) THEN "Queued"
                ELSE "Canceled"

--------------------------------------------------------------------------------
(* The governor's functions *)

Queue(p) ==
  /\ MayCallGovernor
  /\ ProposalState(p) = "Succeeded"
  /\ executor = Self
  /\ Schedule(Governor, p, minDelay)
  /\ notBefore' = [notBefore EXCEPT ![p] = now + minDelay]
  /\ timelockIds' = timelockIds \cup {p}
  /\ UNCHANGED <<performed, now, stack, executed, canceled, announced, executor,
                 saves, governed, past>>

(* _beforeExecute: in the order of the calls. *)
Announced(p) ==
  LET upTo[n \in 0..Len(Calls[p])] ==      \* of the first n calls
        IF n = 0 THEN <<>>
        ELSE IF Calls[p][n] \in GovernorKinds THEN Append(upTo[n - 1], Calls[p][n])
        ELSE upTo[n - 1]
  IN upTo[Len(Calls[p])]

(* execute(), up to the first call that the timelock makes. *)
Execute(p) ==
  /\ MayCallGovernor
  /\ ProposalState(p) \in {"Succeeded", "Queued"}
  /\ executor = Self
  /\ MayExecute(Governor)
  /\ BeforeCall(p)
  /\ Len(stack) < MaxDepth
  /\ executed' = executed \cup {p}
  /\ announced' = announced \o Announced(p)
  /\ stack' = Append(stack, [op |-> p, next |-> 1, inside |-> FALSE, saved |-> State])
  /\ saves' = Append(saves, [state |-> GovernorStateNow, byGovernor |-> TRUE])
  /\ UNCHANGED <<committable, now, canceled, timelockIds, executor, governed, past>>

(* Mutant: a cancelled proposal leaves its operation in the timelock. *)
CancelKeepsOperation(p) ==
  /\ MayCallGovernor
  /\ ProposalState(p) \notin {"Canceled", "Executed"}
  /\ canceled' = canceled \cup {p}
  /\ UNCHANGED <<timelockIds, timelockState, performed, notBefore, now, stack, executed,
                 announced, executor, saves, governed, past>>

(* _cancel, sent by a holder of the governor's role. *)
CancelProposal(p) ==
  /\ MayCallGovernor
  /\ ProposalState(p) \notin {"Canceled", "Executed"}
  /\ canceled' = canceled \cup {p}
  /\ IF p \in timelockIds
     THEN CancelOperation(Governor, p) /\ timelockIds' = timelockIds \ {p}
     ELSE UNCHANGED <<timelockIds, timelockState>>
  /\ UNCHANGED <<performed, notBefore, now, stack, executed, announced, executor,
                 saves, governed, past>>

(* Mutant: it is enough that the timelock is the sender, as before v4.6. *)
OnlyGovernanceSender(kind) ==
  /\ executor = Self
  /\ UNCHANGED announced
  /\ governed' = [governed EXCEPT ![kind] = @ + 1]

(* The modifier, for a call of the timelock: announcements are used up to the   *)
(* one of this call; without one it reverts.                                     *)
OnlyGovernance(kind) ==
  /\ executor = Self
  /\ \E i \in 1..Len(announced) :
       /\ announced[i] = kind /\ \A j \in 1..(i - 1) : announced[j] # kind
       /\ announced' = SubSeq(announced, i + 1, Len(announced))
  /\ governed' = [governed EXCEPT ![kind] = @ + 1]

--------------------------------------------------------------------------------
(* Calls of the operation under way that go to the governor *)

CallGovernor(kind) ==
  /\ NextCall(kind)
  /\ UNCHANGED <<timelockState, executed, canceled, timelockIds, saves, past>>

CallSetter ==
  /\ CallGovernor("set") /\ OnlyGovernance("set")
  /\ stack' = SetTop([Top EXCEPT !.next = @ + 1])
  /\ UNCHANGED executor

(* The governor calls the contract, which runs until OtherReturns.  That may be  *)
(* the timelock, with the governor as the sender (Callees): the contract's own   *)
(* calls and the governor's are then taken until OtherReturns.                   *)
CallRelay ==
  /\ CallGovernor("relay") /\ OnlyGovernance("relay")
  /\ stack' = SetTop([Top EXCEPT !.inside = TRUE])
  /\ UNCHANGED executor

CallUpdateTimelock ==
  /\ CallGovernor("updateTimelock") /\ OnlyGovernance("updateTimelock")
  /\ stack' = SetTop([Top EXCEPT !.next = @ + 1])
  /\ executor' = NewTimelock

CallPlain ==
  /\ CallGovernor("plain")
  /\ stack' = SetTop([Top EXCEPT !.next = @ + 1])
  /\ UNCHANGED <<announced, governed, executor>>

--------------------------------------------------------------------------------
(* The timelock's own steps *)

(* Someone executes the operation on the timelock, past the governor. *)
ExecuteOnTimelock(sender, op) ==
  /\ BeginExecute(sender, op)
  /\ saves' = Append(saves, [state |-> GovernorStateNow, byGovernor |-> FALSE])
  /\ UNCHANGED governorState

(* Mutant: announcements that no call used stay. *)
FinishKeepsAnnounced ==
  /\ EndExecute
  /\ saves' = Front(saves)
  /\ UNCHANGED governorState

(* The timelock returns; if the governor called it, _afterExecute. *)
Finish ==
  /\ EndExecute
  /\ announced' = IF Last(saves).byGovernor /\ executor # Governor THEN <<>>
                  ELSE announced
  /\ saves' = Front(saves)
  /\ UNCHANGED <<executed, canceled, timelockIds, executor, governed, past>>

Fail ==
  /\ Revert
  /\ LET before == Last(saves).state
     IN /\ executed' = before.executed /\ canceled' = before.canceled
        /\ timelockIds' = before.timelockIds /\ announced' = before.announced
        /\ executor' = before.executor /\ governed' = before.governed
        /\ past' = before.past
  /\ saves' = Front(saves)

SchedulePast(sender, op, delay) ==
  /\ ScheduleOperation(sender, op, delay)
  /\ past' = past \cup ({op} \cap Proposals)
  /\ UNCHANGED <<executed, canceled, timelockIds, announced, executor, governed, saves>>

(* Transactions are not begun by the governor; it may send calls in relay(). *)
TimelockSenders == IF stack = <<>> THEN Accounts \ {Governor} ELSE Accounts

TimelockStep ==
  /\ \/ \E sender \in TimelockSenders :
          \/ \E op \in Operations : Cancel(sender, op)
          \/ \E rc \in RoleChanges : ChangeRole(sender, rc[1], rc[2])
     \/ CallOther \/ OtherReturns
     \/ \E newDelay \in Delays : CallUpdateDelay(newDelay)
     \/ \E rc \in RoleChanges : CallChangeRole(rc[1], rc[2])
     \/ Tick
  /\ UNCHANGED <<governorState, saves>>

DaoInit ==
  /\ Init
  /\ executed = {} /\ canceled = {} /\ timelockIds = {}
  /\ announced = <<>> /\ saves = <<>>
  /\ executor = Self
  /\ governed = [kind \in GovernanceKinds |-> 0]
  /\ past = {}

DaoNext ==
  \/ TimelockStep
  \/ \E sender \in TimelockSenders :
       \/ \E op \in Operations : ExecuteOnTimelock(sender, op)
       \/ \E op \in Outside, delay \in Delays : SchedulePast(sender, op, delay)
  \/ \E p \in Proposals : Queue(p) \/ Execute(p) \/ CancelProposal(p)
  \/ CallSetter \/ CallRelay \/ CallUpdateTimelock \/ CallPlain
  \/ Finish \/ Fail

DaoSpec == DaoInit /\ [][DaoNext]_daoVars
--------------------------------------------------------------------------------
(* Properties *)

CallsOfKind(p, kind) == {i \in 1..Len(Calls[p]) : Calls[p][i] = kind}

(* How often proposals executed by the governor make calls of this kind. *)
Decided(kind) == SumOver([p \in Proposals |-> Cardinality(CallsOfKind(p, kind))], executed)

(* What only governance may do happens only as a call of a proposal that the    *)
(* governor executes, and once for each such call: an operation that another     *)
(* proposer put in the timelock, and a proposal executed past the governor, move *)
(* nothing, nested in an execution or not (the modifier onlyGovernance, as       *)
(* Governor.sol:57-63 has it).  GovernorTimelockControl.sol:19-21 says of other  *)
(* proposers that "{onlyGovernance} functions like {relay} are available to them *)
(* through the timelock": not since the announcements of Governor.sol:65-71.     *)
GovernedByProposals ==
  \A kind \in GovernanceKinds :
    /\ governed[kind] <= Decided(kind)
    /\ stack = <<>> => governed[kind] = Decided(kind)

(* No announcement outlives the execution it was made for: calls that were not  *)
(* made, or that are not for governance, leave none behind (_afterExecute).      *)
NothingAnnouncedIsLeft ==
  executor # Governor /\ (\A i \in 1..Len(saves) : ~saves[i].byGovernor)
    => announced = <<>>

(* Between transactions state() tells what happened: a proposal is executed     *)
(* only if all of its calls were made and, unless another proposer scheduled the *)
(* same calls or the timelock it was queued in was replaced, is anything else    *)
(* only if none was.  Whatever else the timelock carried out, for others, past   *)
(* the governor or left in it when it was replaced, had no call that only        *)
(* governance may make (state, _cancel, updateTimelock, onlyGovernance).         *)
StatusIsTheOutcome ==
  stack = <<>> =>
    /\ \A p \in Proposals :
         /\ ProposalState(p) = "Executed" => performed[p] = Len(Calls[p])
         /\ p \notin past /\ executor = Self /\ ProposalState(p) # "Executed"
              => performed[p] = 0
    /\ \A op \in Operations \ executed :
         performed[op] > 0 => \A kind \in GovernanceKinds : CallsOfKind(op, kind) = {}
================================================================================
