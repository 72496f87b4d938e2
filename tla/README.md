# A TLA+ model of the Peach DAO

This directory holds a verification development of the Peach DAO: the contracts
of `src/src` (`FarmGovernor`, `PeachToken`, `TimeLock`, `Seed`) together with the
OpenZeppelin 4.9 contracts they are built from, in
`src/lib/openzeppelin-contracts/contracts`. The behaviour of the DAO is mostly
that of the inherited code as the four contracts configure and override it, so
both are modelled. Four of the libraries, `Checkpoints`, `SafeCast`, `EnumerableSet` and
`EnumerableMap`, are generated from JavaScript templates
(`src/lib/openzeppelin-contracts/scripts/generate/templates`); the modules about
these translate the templates, once for all the types they are generated for.

## The system

| component | state | operations |
|---|---|---|
| **FarmGovernor** (`FarmGovernor.sol`, OpenZeppelin `governance/`) | proposals (start, end, executed, canceled), tallies, who voted (recorded twice), settings with FarmGovernor's own copies of two of them, history of the quorum numerator, which proposals are in the timelock, the queue of announced calls, pause flag, roles, address of the Seed | propose, castVote, castVoteBySig, queue, execute, cancelProposal, rewardParticipants, rewardParticipant, updateVotingPeriod, updateQuorumFraction, the governance setters, relay, updateTimelock, pause/unpause, setSeedAddress, roles |
| **PeachToken** (`PeachToken.sol`, `ERC20`, `ERC20Votes`) | balances, supply, allowances, delegates, vote checkpoints of every delegate, supply checkpoints, nonces, pause flag, roles | transfer, transferFrom, approve, increase/decreaseAllowance, permit, delegate, delegateBySig, mint, batchMint, pause/unpause, roles |
| **checkpoint lists** (`ERC20Votes`, template `Checkpoints.js`, `Math.sqrt`) | a sequence of (block or key, value) | `History`: push a value, or the result of an operation on the latest, at the current block; look up a past block in two ways. `Trace`: push at a key; upper and lower lookup. The token's own copy of the history |
| **checked casts** (template `SafeCast.js`) | none | to a narrower type, to a signed and to an unsigned type |
| **enumerable collections** (templates `EnumerableSet.js`, `EnumerableMap.js`, `conversion.js`) | an array of words, the index of each word in it, a value for each | add, remove, set; contains, tryGet, get, at, length, values |
| **TimeLock** (`TimeLock.sol`, `TimelockController`) | a timestamp per operation (0 unknown, 1 done), minimum delay, roles | schedule, cancel, execute/executeBatch, updateDelay, roles |
| **Seed** (`Seed.sol`) | one value, pause flag, roles | store, pause/unpause, roles |
| **access control, pausing** | role tables, flags | in each contract |

How they interact. The governor reads votes and supply at past blocks from the
token (`getPastVotes`, `getPastTotalSupply`) to weigh votes and compute quorums; it
schedules a passed proposal in the timelock and later has the timelock execute it;
the timelock calls the proposal's target, which may be the Seed, the timelock
itself or the governor; the governor mints rewards in the token. The governor learns
of the fate of a queued proposal by asking the timelock. There are no processes:
concurrency is the order of transactions and blocks, and calls that come back into
a contract while one of its functions runs. Failure is a revert, which undoes the
transaction, or the inner call if the caller goes on.

What is hard about it, and what makes it correct:

* *Past values.* Votes and quorums are decided on histories that are written many times in
  a block and read later. They must give the values at the end of the block asked
  for, forever (`HistorySpec`, `SearchIsLookup`), and the derived votes must stay
  the sum of the balances behind them (`VotesAreDelegatedBalances`).
* *Two contracts, one proposal.* A proposal's status is spread over governor and
  timelock, and the timelock can be used past the governor. The two must never disagree
  (`TimelockAgrees`, `StatusIsTheOutcome`), only what passed may get there
  (`OnlyPassedIsTimelocked`), and a proposal's statuses follow one another as in
  `ProposalLifecycle`.
* *Re-entered execution.* An operation's calls may schedule, cancel or execute;
  any may fail. Each operation takes effect at most once and whole (`AllOrNothing`,
  `PromiseSpec`), after its predecessor and not before its time.
* *Two records of one thing.* Who voted, the voting period and the quorum numerator
  are each stored twice (`VotersListed`, and the findings below).
* *Roles.* Lost roles must not come back (`SupplyFixedWithoutMinters`,
  `RolesGivenByProposal`), and a DAO that was handed over must not be taken back: the rules then
  change by passed proposals alone, both copies of the voting period included
  (`RulesChangeByProposal`).
* *Decisions with several calls.* The governor accepts some calls only from an
  execution of its own. The timelock is the sender of every operation's calls, and
  one execution may run inside another, so that the sender does not tell; what is
  accepted must be what was decided, once (`GovernedByProposals`,
  `NothingAnnouncedIsLeft`), and what `state()` tells must be what happened, although
  the timelock may be replaced (`StatusIsTheOutcome`).
* *Signatures* may be sent by anyone, late or again (`SignaturesCountOnce`).
* *Arrays that are indexed from outside.* Removal from an enumerable collection moves
  its last entry (`IndexesInvertValues`, `OnlyTheLastMoves`), and a stored zero is not
  a missing key (`ViewsAgree`, `NoValueWithoutKey`).
* *Dead ends.* Every proposal must end (`EveryProposalEnds`, `NothingIsStranded`).

`PROJECT.json` lists these hazards at the lines where they bite.

## Modules

| module | what it is |
|---|---|
| `AccessControl` | role tables: who has a role, granting, revoking |
| `Checkpoints` | a history: writing it, and what its value at a past block is, as a definition |
| `SafeCast` | the checked casts, for types of any size |
| `CheckpointSearch` | the code's lists of checkpoints as contracts fill and search them, and the square root they use, checked against the definition in `Checkpoints` and against a record of the past |
| `Words` | the words that collections store and their conversion from and to the types |
| `EnumerableSet` | the array and the index mapping under every collection |
| `EnumerableMap` | maps and sets of every type, one action per operation |
| `Dictionary` | abstract: a dictionary with an enumeration of its keys; `EnumerableMap` implements it |
| `PeachToken` | the token; one action per transaction |
| `TokenSpending` | the token with signed permits and delegations, and with what was ever allowed, spent and sent as history variables |
| `VotingHistory` | abstract: what a governor relies on in its token; `PeachToken` implements it |
| `TimeLock` | the timelock's state and functions, as operators that others compose |
| `TimeLockExecution` | the timelock with execution taken call by call: a stack of executions, each with the state to return to if it fails |
| `ScheduledExecution` | abstract: what a timelock promises; `TimeLockExecution` implements it on committed states |
| `Seed` | the Seed |
| `FarmGovernor` | the governor composed with `PeachToken`, `TimeLock` and `Seed` (`INSTANCE`s over shared variables) |
| `GovernorExecution` | `TimeLockExecution` with the governor: execution call by call, the queue of announced calls, operations of other proposers, `updateTimelock` |
| `GovernorProperties` | the properties of the composition, its fairness |
| `ProposalLifecycle` | abstract: the life of a proposal; `FarmGovernor` implements it |
| `DocumentedClaims` | claims of comments and error messages that the code does not keep |
| `MC*` | the instances that are model-checked |
| `Sums` | the sum of amounts over a set |
| `DataLemmas` | lemmas about data: induction over numbers and finite sets, sums, shares of a pool, histories |
| `CheckpointSearch_proofs`, `EnumerableMap_proofs`, `PeachToken_proofs`, `TokenSpending_proofs`, `TimeLockExecution_proofs`, `GovernorProperties_proofs`, `GovernorExecution_proofs` | lemmas, theorems and their proofs, each about the module it is named after |

How state and actions correspond to the code. Variables keep the names of the
contracts' fields where these have one. A transaction that reverts changes
nothing and is therefore no action: every `require`, modifier and checked
addition is a conjunct of its action's guard. A transaction is one action, with all
the calls it makes (`RewardParticipants` includes the token's `batchMint`,
`CancelProposal` the timelock's `cancel`); `batchMint` writes each history once, with the sum of
the batch, because its mints fall in one block. Only `TimeLockExecution` takes a
transaction apart, and `GovernorExecution` with it, because there the calls in
between may do something to timelock and governor. `block` is the number of the block that the next transaction falls in, `Mine` ends it.

Data is abstracted as follows. A proposal is identified with the hash of its calls and
description, and `Payload` gives its call; the hash, the calldata and the
description are not modelled, so that a proposal cannot be made twice, as in
the code. An operation of the timelock is identified with its hash likewise, so that
its predecessor is fixed. Addresses are model values. Widths are the
constants `MaxSupply` (uint224), `MaxUint64` and `MaxUint256`; an addition that
would leave its width is refused as the compiler's checked arithmetic does. A call to an address
without code succeeds and does nothing.

A word of 32 bytes is a pair, the 20 bytes that an address fills and the 12 above
them. The width of a type is the number of its values. A signature is one of a
set of messages that were signed; recovering the signer is external, and a
signature that nobody made gives some account. A call of a proposal is its kind, so
that two calls of one kind have the same hash, which is the worst case for the queue
of announced calls. Deadlines are compared with blocks.

Definitions under a comment "Mutant:" are plausible bugs of the definition that follows them; they take
no part in the model and serve to show that a property can fail.

## What the runs check

TLC explores every run below completely. All values are scaled down: a token unit stands for
many, a voting period lasts one block, the quorum fraction is such that one voter does
not always reach it.

| run (cfg) | question | instance and why it is enough | distinct states |
|---|---|---|---|
| `CheckpointSearch` | do the searches find the checkpoint they promise, for ever, and do casts lose nothing? | both kinds of list; keys 0 to 9 exist, blocks go on to 11; values 0 and 1 fit, 2 does not. Lengths 0 to 9 of a history and 0 to 9 of a trace, so that the probe is taken at lengths with root 2 and 3, and every pattern of gaps occurs; roots of all numbers up to 99; casts to every type of 2 to 22 values | 177 132 |
| `TokenVotes` | do votes, balances, supply and their past stay consistent? | two holders, supply cap 2 of single-unit transfers, three blocks, batches that name an account twice or exceed the cap | 130 940 |
| `TokenSpending` | can a spender move more than it was allowed, does a signature count twice or too late, do lost roles come back, is there a way round a pause? | two accounts, one the owner and both spenders, up to 3 units in all where 3 is the unlimited allowance; two signatures of one nonce and one of the next, with different deadlines; roles DEFAULT_ADMIN and MINTER pass between the two | 1 084 032 |
| `TimeLockReentrancy` | is an operation carried out once, whole, in order, in time? | two operations, the second after the first; one calls out, the other changes the delay and a role, as the timelock's administrator, and calls out; executions nest three deep; three clock values | 26 412 |
| `GovernorExecution` | is what governs what was decided, and does `state()` tell what happened? | a proposal that calls another contract, one of four calls that relays, to a contract or to the timelock, sets and replaces the timelock, and another proposer's operation that changes delay and role of the timelock, calls out, tries the same setting and may schedule the first proposal too; executions nest two deep and any may fail | 1 693 672 |
| `EnumerableMap` | do maps and sets behave as dictionaries? | the eight types that are generated; words of two values in either part, so two addresses and four words, which the array holds in every order | 48 952 |
| `GovernorVoting` | is the tally that of the snapshot, the outcome final, the pool shared out? | one proposal, two voters; one of them transfers and delegates at any time, has signed a vote against and may vote for it directly; a signature that yields an account without votes; the quorum fraction is raised to 100% or, which is refused, to 101%; a pool of 3, so that two equal shares are rounded, paid once or more, and single rewards that change supply and votes | 142 024 |
| `GovernorEnact` | do governor and timelock agree, does a proposal follow its life cycle, does every proposal end? | two proposals, made in block 1 or 2, of which one raises the quorum to 100%; one voter with enough votes for the quorum who may vote any way; cancelling allowed in the timelock | 48 268 |
| `GovernorPower` | who else can change the rules or give roles, before and after the hand-over? | the deployer may cancel in the timelock, make itself proposer and schedule what nobody voted for, change the rules while it may, and renounce each of its roles in any order or none; three proposals give the timelock the GOVERNOR role through `relay`, change the voting period that is read and the one that is not, and each may be executed past the governor | 620 576 |
| `GovernorPausing` | does a failed execution lose anything? | payloads that pause the Seed through `relay` and change the timelock's delay; pauses of all three contracts by hand, a pauser of the Seed appointed and removed, direct stores, mints, a change of the Seed's address and of roles | 186 880 |

The clock of a governor run is bounded by `MaxBlock`, but runs on while a vote is
not over or an operation not ready, so that the bound cuts no proposal short.
The runs without deadlock check are those whose clock or bounds end; `TokenVotes` and
`TokenSpending` are checked for deadlock, since a role can always be renounced or a token
delegated, and so is `EnumerableMap`. The other bounds are `LastProposal` (the last block a
proposal is made in), `MaxDepth` (nested executions), `MaxTime` (the timelock's clock), and
`MaxGranted` and `MaxSpent` (what is allowed and moved in all). `Activities` selects the kinds
of transactions of a run; every kind is in some run.

What they show. All properties of these runs hold. Each has a mutant, listed
in `PROJECT.json`, that breaks it.

*Fairness* (`GovernorEnact` only; the other runs have none). `FairSpec` assumes weak
fairness of `Mine` and, for every proposal, of `Queue` and `Execute`. Blocks are mined by the
chain whatever the contracts do. `queue` and `execute` may be called by anyone
(the executor role is given to `address(0)` in the deployment), so that a single interested
party is enough. Nothing is assumed of voters, governors, pausers or cancellers. The payloads of that run
do not revert: a proposal whose call reverts for ever stays queued, which
`NothingIsStranded` describes instead.

## Findings

Two runs each check one claim of a comment or of an error message
that the code does not keep (`DocumentedClaims`); TLC finds a
counterexample to each.

| run | claim | what the code does |
|---|---|---|
| `ClaimQuorumNumerator` | `quorumNumerator()` is the current one | it is the initial one for ever |
| `ClaimRewardVoters` | only those who voted are rewarded | those who had votes are, whether they voted or not |

Other disagreements met while modelling, which the model shows as the code has them:
`src/README.md:33` says of `cancelProposal` that it "Allows governors to cancel proposals", but in
the deployment of `FarmGovernorTest.t.sol:53-66` a queued proposal cannot be cancelled, because the
timelock never gives the governor its CANCELLER_ROLE (the governor's constructor
grants a role of that name in its own table);
if another proposer schedules the same calls in the timelock, the operation is the
proposal's, and may be executed or block `queue` whatever the vote says (`past` in `GovernorExecution`);
`updateVotingPeriod(0)` is accepted although `GovernorSettings` wants a period of a
block at least; `setVotingPeriod` sets a value that nothing reads, because `votingPeriod()`
is overridden (the third proposal of `GovernorPower` changes `settings.votingPeriod`
only); each call of `rewardParticipants` pays the whole pool again; a pause of the governor
stops proposing and neither voting, queueing nor executing; and
`testFailedProposalDueToQuorum` expects one voter of three equal ones to miss a quorum
of 4%, which it reaches.

One comment disagrees with properties that *hold*. `GovernorTimelockControl.sol:19-21` warns of
additional proposers in the timelock that "it grants them powers that they must be trusted
or known not to use: 1) {onlyGovernance} functions like {relay} are available to them through
the timelock, and 2) approved governance proposals can be blocked by them".

* Part 1 is no longer so, and `Governor.sol:61-63` says the opposite: "additional timelock
  proposers are not able to change governance parameters without going through the governance protocol
  (since v4.6)". `onlyGovernance` (`Governor.sol:65-71`) accepts a call of the timelock only if the
  governor's own `execute` announced it. `GovernedByProposals`, `RulesChangeByProposal` and
  `RolesGivenByProposal` say what the code does, against the comment, and on its own
  case: in `GovernorExecution` another proposer's operation calls a setter, by itself and while a proposal
  with the same call is being executed; in `GovernorPower` the deployer makes itself proposer and
  schedules the `relay` and the setter of proposals that nobody voted for; executed past the governor,
  each reverts.
  The comment claims that something can happen, so that no run has a
  counterexample to show; what refutes it is that these three hold, in the runs and as theorems, and that the mutants that
  do without the announcements (`OnlyGovernanceSender`, `GovernanceCallsAnyhow`) break them.
  `PROJECT.json` lists it among the findings, with the passing run.
* What remains of part 1 are functions guarded by a role and not by `onlyGovernance`:
  `updateVotingPeriod` and `updateQuorumFraction` want GOVERNOR_ROLE (`FarmGovernor.sol:278`, `289`). Once the
  timelock holds it, another proposer can have the timelock call them without a vote.
  `GovernorPower` does this, which is why `RulesChangeByProposal` demands for these rules that the
  DAO is handed over (`HandedOver`: the governor is the only proposer, and nothing in the timelock is there without a vote).
* Part 2 is so. Another proposer may schedule a proposal's calls first, or cancel: see `past` above
  and the assumption `OnlyGovernorProposes` below.

## What is proved

TLAPS checks the following for every value of the constants that the named assumptions
admit. `TokenAssumption`, `SpendingAssumption`, `TimeLockAssumption`,
`ExecutionAssumption`, `GovernorAssumption`, `GovernorExecutionAssumption`, `SearchAssumption`,
`WordsAssumption` and `MocksAssumption` type the constants, and say of some that they
differ (`Zero` is no account, for instance); TLC evaluates them in the runs. Three of their
conjuncts are about sums and products: there are finitely many accounts (an address has
160 bits), `MaxSupply <= MaxUint256`, and every amount of a call fits `MaxUint256`.

| module | theorem | states |
|---|---|---|
| `DataLemmas` | `WriteKeepsPast` | a write at the current block leaves every earlier value of a history as it was |
| | `LookupAtEnd` | at the end of a block the latest value is that block's |
| | `SumOfShares` | shares in proportion, rounded down, add up to the pool but for less than one each |
| `CheckpointSearch_proofs` | `CastsLoseNothing` | `CastsAreExact`, for types of any size |
| | `PushesReturnBoth` | `PushReturnsBoth` |
| | `ListsInOrder` | lists stay in the order that the searches rely on |
| | `TokenSearchIsLookup`, `QuorumShortcutIsLookup`, `HistoryRecordedForEver`, `TraceSearchFinds` | `SearchIsLookup`, `ShortcutIsLookup`, `RecordedForEver`, `TraceSearch`, for lists of any length |
| | `SqrtOfEveryWord`, `NewtonFitsWord` | seven steps find the floor of the root of every 256-bit number, and none of them, which run unchecked, divides by zero or overflows |
| | `RootIsFloor` | `SqrtIsFloor`, for lists of any length |
| `EnumerableMap_proofs` | `TypeCorrect` | the type, and every index stored is one of its array |
| | `IndexesAgree`, `NoStrayValue`, `ViewsAreTheDictionary`, `EnumerationIsStable` | `IndexesInvertValues`, `NoValueWithoutKey`, `ViewsAgree`, `OnlyTheLastMoves` |
| | `ImplementsDictionary` | the refinement of `Dictionary` |
| `PeachToken_proofs` | `TypeCorrect` | `TypeOK`: supply and votes fit 224 bits, allowances 256, after any transactions |
| | `HistoriesInOrder` | `CheckpointsInOrder` |
| | `SupplyConserved`, `VotesConserved` | `SupplyIsSumOfBalances`, `VotesAreDelegatedBalances` |
| | `TransfersNeverLackVotes`, `VotesWithinSupplyForEver` | `VotesNeverBlockTransfers`, `PastVotesWithinPastSupply` |
| | `PastIsNeverRewritten` | the refinement of `VotingHistory` |
| `TokenSpending_proofs` | `SpendingTypeCorrect`, `SpendingIsCovered`, `SignaturesAreUsedOnce` | `TypeOK` with permits, `SpentWithinGranted`, `SignaturesCountOnce` |
| | `LostRolesStayLost`, `PauseIsComplete` | `SupplyFixedWithoutMinters`, `PauseFreezesTokens` |
| | `SpendingConserves` | `SupplyIsSumOfBalances`, `VotesAreDelegatedBalances`, `VotesNeverBlockTransfers`, `PastVotesWithinPastSupply`, `CheckpointsInOrder`, with permits, signed delegations and spenders |
| | `SpendingKeepsHistory` | the refinement of `VotingHistory`, with the same |
| `TimeLockExecution_proofs` | `TypeCorrect`, `PredecessorIsFirst`, `PendingWaits`, `NothingByHalves` | `TypeOK`, `PredecessorFirst`, `PendingWaitsItsDelay`, `AllOrNothing` |
| | `KeepsItsPromise` | the refinement of `ScheduledExecution` |
| `GovernorProperties_proofs` | `TypeCorrect` | the type of the state of all four contracts |
| | `VotersAreListed`, `OutcomesAreFinal`, `RulesAreGoverned`, `RolesAreGoverned` | `VotersListed`, `OutcomeIsFinal`, `RulesChangeByProposal`, `RolesGivenByProposal` |
| | `TalliesCountVotesAtSnapshot`, `RewardsAreTheShares` | `TallyIsVotesAtSnapshot`, `RewardsShareThePool` |
| | `DelaysAreKept` | an operation gets at least the minimum delay of the moment it is scheduled, keeps its time, and is carried out no earlier and once, whoever schedules or executes it |
| | `QuorumsAreReachable` | no quorum is more than the supply at its block |
| | `NumbersFit` | tallies fit the 224 bits of the supply, deadlines 64 bits, the timelock's times 256 |
| | `TokenIsSound`, `SnapshotsAreNeverRewritten` | `SupplyIsSumOfBalances`, `VotesAreDelegatedBalances`, `VotesNeverBlockTransfers`, `PastVotesWithinPastSupply` and the refinement of `VotingHistory`, of the token within the DAO |
| | `TimelockHoldsPassed`, `TimelockAndGovernorAgree`, `ProposalsLiveTheirLife` | `OnlyPassedIsTimelocked`, `TimelockAgrees` and the refinement of `ProposalLifecycle`, where the governor is the only proposer |
| | `OnlyAQuorumActs` | where it is, whatever the timelock carries out had a quorum of the supply at its snapshot behind it |
| | `NothingIsInTheWay` | where it is and roles stay as deployed, what passed can be queued and what is ready can be executed, as far as the contracts' own state goes |
| `GovernorExecution_proofs` | `AnnouncementsDoNotStay` | `NothingAnnouncedIsLeft` |
| | `OnlyProposalsGovern`, `StatusTellsTheOutcome` | `GovernedByProposals`, `StatusIsTheOutcome` |
| | `TimelockIsSound` | `PredecessorFirst`, `PendingWaitsItsDelay`, `AllOrNothing` with the governor as a proposer |
| | `TimelockKeepsItsPromise` | the refinement of `ScheduledExecution` with the governor as a proposer |

Five theorems about the governor (`TimelockHoldsPassed`, `TimelockAndGovernorAgree`,
`ProposalsLiveTheirLife`, `OnlyAQuorumActs`, `NothingIsInTheWay`) assume
`OnlyGovernorProposes`: the timelock's PROPOSER_ROLE
is given to nobody but the governor. It is a condition on the constant
`TimelockRoleChanges`, it holds in `GovernorEnact`, and it cannot be dropped: in
`GovernorPower` the deployer makes itself proposer and schedules what nobody voted for, so
that this run checks none of their properties. What is left with another proposer is
`DelaysAreKept` and `StatusTellsTheOutcome`, which make no such assumption.
`NothingIsInTheWay` also assumes `GovernorKeepsRoles`, that the governor is not
removed as a proposer nor execution closed; `GovernorEnact` and `GovernorPausing` satisfy both.
`RootIsFloor` assumes keys of at most 128 bits (`KeySize <= 2^128`); the code's have 32 or 96.

The arguments.

* *Token.* That a mined block records what was in force needs that no checkpoint lies after
  the current block: the inductive invariant is `IInv == TypeOK /\ HistoriesUpTo`.
  Every transaction leaves each history alone or writes it once at the current
  block with a value of its type (`HistoriesWritten`; one lemma per kind of
  transaction, where the guards against underflow and overflow are used). From that
  alone follow the invariant (`WroteKeeps`, `TransactionKeeps`) and that the past is
  unchanged (`WriteKeepsPast`), so that a transaction is a `Move` of `VotingHistory`;
  mining is its `Mine` by `LookupAtEnd`.
* *Sums.* The prover takes no induction rule that has an operator as a parameter, but it
  reasons about the least number in a set (`LeastNumber`) and the least subset that is not in a
  set of subsets (`LeastSet`, `SetInduction`). From these `DataLemmas` derives that a sum
  does not depend on the order in which `FoldFunctionOnSet` takes it, and what it does when a
  summand is added, removed or replaced (`SumAdd`, `SumRemove`, `SumPut`), split up (`SumUnion`,
  `SumOfParts`) or bounded (`SumLess`, `SumPart`).
* *Conservation.* With these, a transfer moves the same amount between two balances
  and between the sums behind two delegates, and a change of delegate moves a whole balance. That
  supply is the sum of balances bounds every sum of votes by `MaxSupply`, hence
  `TransfersNeverLackVotes`. Past blocks follow by way of the current one: at the end of a block its
  values are the latest (`LookupAtEnd`), and no later write changes them.
* *Searches.* A binary search keeps the place it looks for between its bounds
  (all before `low` are at or before the key, all from `high` on after it), and ends because the
  distance shrinks, which is an induction over that distance. Of the first probe it needs only
  that the root lies between 1 and the length, which `min(root, n / root)` gives
  for any positive root.
* *Square root.* The first guess is at most the root and at least about half of it
  (`FirstGuessIsHalf`). From then on no guess is below the root (`ImproveFromAbove`), so what matters
  is by how much its square exceeds `n`: by at most `n` after the first step, `n / 2^3` after the second,
  and if by at most `n / K` before a step, then by at most `n / (4 K^2)` after it
  (`ErrorSquared`, `AccuracySquares`), hence `2^8`, `2^18`, `2^38`, `2^78` and, after the seventh,
  `2^158`. That is less than the root of a number of 256 bits (`NewtonIsNear`), so that the last
  guess is the root or the next number, of which `min(root, n / root)` picks the root
  (`SqrtIsRoot`). All guesses are at most `4 * 2^128`, hence no sum leaves its word
  (`StepsFitWord`). `2^k` enters as the number of subsets of `1..k` (`Powers`, `PowerSquares`),
  since the prover computes no powers. A list is no longer than there are keys
  (`ListsFitKeys`), and so its length has a root in this range.
* *Spending.* What is spent is bounded only together with what may still be spent, and only
  while the allowance was never the unlimited one (`Covered`); an allowance can
  have been unlimited only if that much was granted. A signature counts once because its
  signer's nonce is past it, and a nonce counts the messages of its signer that
  were used (`CountedOnce`), so that a message of a later nonce cannot come first.
  Every transaction with signatures and spenders is one of the token's or changes allowances and
  nonces only (`SpendingSteps`), so that the token's invariant `PInv` and its refinement carry over.
* *Collections.* `Indexed`, that array and indexes invert each other, together with the
  types of the keys and the zero values of missing ones. Removal moves the last word into the
  gap; the cases are the removed word, the moved one and the others.
* *Timelock.* A failing call returns to a saved state, and so the invariant must hold of the
  saved states too: `IInv == TypeOK /\ LevelsOK /\ FramesOK`, where `LevelsOK` says
  of every state of the stack what the theorems say of the current one, and `FramesOK` how each
  execution under way relates to the state it began in. The refinement maps to the state
  of the outermost save, which changes when the last execution ends.
* *Governor.* The outcome of a vote is computed anew at each call, from tallies and from histories
  that are written all the time. It is final because histories are written at
  the current block only (`WriteKeepsPast`, of the token and of the quorum numerator), the
  snapshot of a vote that is over is a past block, and votes are counted before its end.
  `Held` then relates the two contracts: what the timelock knows was queued here, passed, and
  is not cancelled; what the governor executed, the timelock executed. `Counting` adds
  what the refinement needs: whatever was ever queued passed, and nobody votes before
  the snapshot.
* *Delays and quorums.* Every transaction does one of four things to the timelock's operations:
  nothing, or it schedules, withdraws or carries out one of them (`OperationsChange`), which is all
  that `DelaysAreKept` is about. `FractionsOK`, that every quorum fraction ever recorded is
  at most the whole, is inductive and bounds each quorum by the supply at its block. That a passed
  proposal's operation is free until it is queued is `Held`: an operation
  in the timelock is one that the governor queued, and is not `Succeeded` any more.
* *Tallies and rewards.* The token of the DAO is the instance `TP` of `PeachToken_proofs`,
  and its transactions are the token's (`TokenSteps`), so that its invariants and its refinement hold
  here. The votes counted on a proposal are the sum, over those who voted, of the votes they
  had at the snapshot, which is past and does not change; `TP!PastVotesWithinPastSupply` bounds it by the supply.
  That is also why a tally needs no width, and why a passed proposal had its quorum in votes that
  existed at the snapshot (`PassedIsBacked`). A reward is the floor of a
  share, and `SumOfShares` adds them up.
* *Announced calls.* `AInv`: when no execution of the governor is under way the queue
  is empty, and the same holds of the state saved below each execution. Both speak of states in which the
  governor is not its own executor, for which `_afterExecute` clears nothing (`Governor.sol:359`).
* *Rules and roles.* Without a proposal being carried out, rules change only by a holder of GOVERNOR_ROLE
  (`RulesWithoutCarrying`), roles are given by their administrators only (`NoRoleIsGiven`,
  `TimelockGivesNoRole`), and nothing gets into the timelock but what passed (`PendingHasPassed`): so
  `HandedOver` is kept until a passed proposal ends it (`WhileHandedOver`).
* *Decided calls.* A failure brings back an older state of both contracts, so that
  `GInv` speaks of every level of the stack: the states saved when frames began and the current
  one. A call of some kind is *due* if an executed proposal makes it and `onlyGovernance` has not
  accepted it. At each level what is announced is covered by what is due (`Covered`), so that an
  accepted call, which was announced, was due: never more is accepted than was decided. A frame owes
  no more than what was due when it began and, if the governor began it, the calls it has
  yet to make (`Owes`); a frame that ends has none, and at the bottom nothing is
  due: never less. Nor was there then anything done past the governor that had such a call
  (`Powerless`, `Strays`): the call would have used up what a proposal was due, and a frame
  would owe less than it has to make. That announcements and due calls of a proposal agree to begin with is an
  induction along the loop of `_beforeExecute` (`AnnouncedCount`).
* *Status.* `Agree`, at each level: what the governor executed, the timelock has done or
  a frame is executing; what the timelock knows was queued by the governor or scheduled by
  others; what is cancelled is not queued. Without a frame, `Whole` of the timelock's invariant
  says whether the calls were made. The steps of `GovernorExecution` are steps of the timelock
  (`Moves`), whose invariant and refinement therefore carry over.

Only model-checked, by TLC on the instances above:

* `EveryProposalEnds`, which is liveness under fairness;
* `NothingIsStranded`, which uses `ENABLED`. `NothingIsInTheWay` proves what it says of the
  contracts' state; what is left is that the call itself succeeds and that
  `now + minDelay` fits 256 bits.

Neither liveness nor `ENABLED` is within the prover's reach. Every other property of the
passing runs is the subject of a theorem.

## Not modelled

* Ether sent with calls (`receive`, the values of a proposal's calls, `relay` with a value):
  no contract here keeps accounts of it. ERC-721/1155 receivers and `supportsInterface`
  answer constants.
* `castVoteWithReason`, `castVoteWithReasonAndParams` and the latter's signed form: they vote as
  `castVote` and `castVoteBySig` do, the reason goes to an event, and the counting
  module in use ignores the parameters.
* Events, names, descriptions, `getProposal` (a copy of the inputs that nothing reads).
* `_burn` of the token, which nothing calls, and `setRoleAdmin`, called in constructors only.
* The deployment: the runs begin in deployed contracts.
* The build and release scripts of the vendored library. They run once, in one process, and
  keep no state; a model would repeat them. Two of their steps are worth a test
  all the same. `scripts/update-docs-branch.js:42` compares minor versions as strings,
  so that 4.10 is taken to be older than 4.9. `scripts/checks/inheritance-ordering.js:31`
  reports pairs of contracts that two linearizations have in opposite order, and remarks
  that it needs proof that this is enough. It is not: the linearizations `D1, A, B`, then
  `D2, B, C`, and `D3, C, A` hold no such pair, and no order agrees with all three.
* The rest of the vendored libraries and of forge-std.

## Plan

Done: token, checkpoint library, casts, collections, timelock and Seed with all of
their operations; the governor with one-step execution and call by call; signatures;
theorems that state all properties of the passing runs but the two above. Left:

1. `GovernorExecution` and `FarmGovernor` share the code of the contracts but not a module for
   it: show that executions in which no call comes back are the one-step
   executions of `FarmGovernor`.
2. Ether, if accounts of it are ever kept.
