--------------------------- MODULE PeachToken_proofs ---------------------------
(* The token keeps its type, and its checkpoints implement VotingHistory: once  *)
(* a block is mined, the votes and the supply at its end are fixed.  Every step *)
(* within a block leaves a history alone or writes it at the current block      *)
(* (Wrote), and such a write keeps the past (WriteKeepsPast).                    *)
EXTENDS PeachToken, DataLemmas

Wrote(c, d) == d = c \/ \E v \in Uint224 : d = WriteCheckpoint(c, block, v)

(* Every history was left alone or written at this block. *)
HistoriesWritten ==
  /\ \A a \in Accounts : Wrote(checkpoints[a], checkpoints'[a])
  /\ Wrote(totalSupplyCheckpoints, totalSupplyCheckpoints')

(* No history runs ahead of the block under construction. *)
HistoriesUpTo ==
  /\ \A a \in Accounts : UpTo(checkpoints[a], block)
  /\ UpTo(totalSupplyCheckpoints, block)

(* The inductive invariant. *)
IInv == TypeOK /\ HistoriesUpTo

LEMMA ZeroIsUint224 == 0 \in Uint224
BY TokenAssumption DEF Uint224

(* A history that was written is one again, and its past is the same. *)
LEMMA WroteKeeps ==
  ASSUME NEW c \in Histories, NEW d, Wrote(c, d), block \in Nat, UpTo(c, block)
  PROVE  /\ d \in Histories
         /\ UpTo(d, block)
         /\ \A b \in Nat : b < block => Lookup(d, b) = Lookup(c, b)
<1>1. CASE d = c BY <1>1
<1>2. CASE \E v \in Uint224 : d = WriteCheckpoint(c, block, v)
  <2>1. PICK v \in Uint224 : d = WriteCheckpoint(c, block, v) BY <1>2
  <2>2. d \in Histories BY <2>1, WriteType DEF Histories
  <2>3. UpTo(d, block) BY <2>1, WriteUpTo DEF Histories
  <2>4. ASSUME NEW b \in Nat, b < block PROVE Lookup(d, b) = Lookup(c, b)
    BY <2>1, <2>4, WriteKeepsPast DEF Histories
  <2> QED BY <2>2, <2>3, <2>4
<1> QED BY <1>1, <1>2 DEF Wrote

LEMMA VotesType ==
  ASSUME TypeOK, NEW a \in Accounts
  PROVE  GetVotes(a) \in Uint224
<1>1. checkpoints[a] \in Histories BY DEF TypeOK
<1> QED BY <1>1, ZeroIsUint224, LatestType DEF GetVotes, Histories

(* Votes that may move are written at this block (_moveVotingPower). *)
LEMMA MovedIsWritten ==
  ASSUME TypeOK, NEW src, NEW dst, NEW amount \in Nat,
         MayMoveVotingPower(src, dst, amount), NEW a \in Accounts
  PROVE  Wrote(checkpoints[a], MovedVotingPower(src, dst, amount)[a])
<1> DEFINE moved == MovedVotingPower(src, dst, amount)[a]
<1>0. GetVotes(a) \in Uint224 BY VotesType
<1>1. CASE src = dst \/ amount = 0 \/ a \notin {src, dst}
  BY <1>1 DEF MovedVotingPower, Wrote
<1>2. CASE src # dst /\ amount # 0 /\ a = src
  <2>1. GetVotes(a) - amount \in Uint224
    BY <1>0, <1>2, TokenAssumption DEF MayMoveVotingPower, Uint224
  <2>2. moved = WriteCheckpoint(checkpoints[a], block, GetVotes(a) - amount)
    BY <1>2 DEF MovedVotingPower
  <2> QED BY <2>1, <2>2 DEF Wrote
<1>3. CASE src # dst /\ amount # 0 /\ a = dst
  <2>1. GetVotes(a) + amount \in Uint224 BY <1>3 DEF MayMoveVotingPower
  <2>2. moved = WriteCheckpoint(checkpoints[a], block, GetVotes(a) + amount)
    BY <1>3 DEF MovedVotingPower
  <2> QED BY <2>1, <2>2 DEF Wrote
<1> QED BY <1>1, <1>2, <1>3

LEMMA NothingWritten ==
  ASSUME UNCHANGED <<checkpoints, totalSupplyCheckpoints>>
  PROVE  HistoriesWritten
BY DEF HistoriesWritten, Wrote

(* The part of the type that a step within a block preserves beside histories.  *)
PlainType ==
  /\ balances \in [Accounts -> Nat]
  /\ totalSupply \in Uint224
  /\ allowances \in [Accounts -> [Accounts -> Uint256]]
  /\ delegates \in [Accounts -> Accounts \cup {Zero}]
  /\ DOMAIN checkpoints = Accounts /\ checkpoints = [a \in Accounts |-> checkpoints[a]]
  /\ tokenPaused \in BOOLEAN
  /\ tokenRoles \in [TokenRoles -> SUBSET Accounts]
  /\ block \in Nat \ {0}

LEMMA TypeSplits == TypeOK => PlainType
BY DEF TypeOK, PlainType

--------------------------------------------------------------------------------
(* One lemma for each kind of transaction: what it writes and what it keeps. *)

LEMMA DelegateStep ==
  ASSUME TypeOK, NEW s \in Accounts, NEW d \in Accounts \cup {Zero}, Delegate(s, d)
  PROVE  HistoriesWritten /\ PlainType' /\ block' = block
<1>1. balances[s] \in Nat BY DEF TypeOK
<1>2. \A a \in Accounts : Wrote(checkpoints[a], checkpoints'[a])
  BY <1>1, MovedIsWritten DEF Delegate
<1>3. HistoriesWritten BY <1>2 DEF HistoriesWritten, Wrote, Delegate
<1>4. PlainType'
  BY DEF Delegate, TypeOK, PlainType, MovedVotingPower, erc20Vars
<1> QED BY <1>3, <1>4 DEF Delegate

LEMMA TransferTokensStep ==
  ASSUME TypeOK, NEW from \in Accounts, NEW to \in Accounts, NEW n \in Nat,
         TransferTokens(from, to, n)
  PROVE  /\ HistoriesWritten /\ block' = block
         /\ allowances' \in [Accounts -> [Accounts -> Uint256]] => PlainType'
<1>2. \A a \in Accounts : Wrote(checkpoints[a], checkpoints'[a])
  BY MovedIsWritten DEF TransferTokens
<1>3. HistoriesWritten BY <1>2 DEF HistoriesWritten, Wrote, TransferTokens
<1>4. balances' \in [Accounts -> Nat]
  BY DEF TransferTokens, TypeOK
<1>5. DOMAIN checkpoints' = Accounts /\ checkpoints' = [a \in Accounts |-> checkpoints'[a]]
  BY DEF TransferTokens, MovedVotingPower
<1>6. allowances' \in [Accounts -> [Accounts -> Uint256]] => PlainType'
  BY <1>4, <1>5 DEF TransferTokens, TypeOK, PlainType
<1> QED BY <1>3, <1>6 DEF TransferTokens

LEMMA SetAllowanceType ==
  ASSUME TypeOK, NEW o \in Accounts, NEW s \in Accounts, NEW n \in Uint256,
         SetAllowance(o, s, n)
  PROVE  allowances' \in [Accounts -> [Accounts -> Uint256]]
BY DEF SetAllowance, TypeOK

LEMMA TransferFromStep ==
  ASSUME TypeOK, NEW s \in Accounts, NEW from \in Accounts, NEW to \in Accounts,
         NEW n \in Nat, TransferFrom(s, from, to, n)
  PROVE  HistoriesWritten /\ PlainType' /\ block' = block
<1>1. allowances[from][s] \in Uint256 BY DEF TypeOK
<1>2. allowances' \in [Accounts -> [Accounts -> Uint256]]
  <2>1. CASE UNCHANGED allowances BY <2>1 DEF TypeOK
  <2>2. CASE allowances[from][s] >= n
             /\ SetAllowance(from, s, allowances[from][s] - n)
    <3>1. allowances[from][s] - n \in Uint256
      BY <1>1, <2>2, TokenAssumption DEF Uint256
    <3> QED BY <2>2, <3>1, SetAllowanceType
  <2> QED BY <2>1, <2>2 DEF TransferFrom
<1>3. TransferTokens(from, to, n) BY DEF TransferFrom
<1> QED BY <1>2, <1>3, TransferTokensStep

LEMMA ApproveStep ==
  ASSUME TypeOK, NEW o \in Accounts, NEW s \in Accounts, NEW n \in Uint256,
         Approve(o, s, n)
  PROVE  HistoriesWritten /\ PlainType' /\ block' = block
<1>1. allowances' \in [Accounts -> [Accounts -> Uint256]]
  BY SetAllowanceType DEF Approve
<1>2. HistoriesWritten BY NothingWritten DEF Approve, votesVars
<1> QED BY <1>1, <1>2 DEF Approve, votesVars, TypeOK, PlainType

LEMMA BatchMintStep ==
  ASSUME TypeOK, NEW s, NEW batch, BatchMint(s, batch)
  PROVE  HistoriesWritten /\ PlainType' /\ block' = block
<1> DEFINE credit == [a \in Accounts |-> Credit(batch, {a})]
           votes == VotesAfterMint(batch)
<1>1. credit \in [Accounts -> Uint224] /\ votes \in [Accounts -> Uint224]
  BY DEF BatchMint
<1>2. \A a \in Accounts : Wrote(checkpoints[a], checkpoints'[a])
  <2> SUFFICES ASSUME NEW a \in Accounts PROVE Wrote(checkpoints[a], checkpoints'[a])
    OBVIOUS
  <2>1. checkpoints'[a] = IF votes[a] = GetVotes(a) THEN checkpoints[a]
                          ELSE WriteCheckpoint(checkpoints[a], block, votes[a])
    BY DEF BatchMint
  <2>2. votes[a] \in Uint224 BY <1>1
  <2> QED BY <2>1, <2>2 DEF Wrote
<1>3. Wrote(totalSupplyCheckpoints, totalSupplyCheckpoints')
  BY DEF BatchMint, SupplyCheckpoint, Wrote
<1>4. balances' \in [Accounts -> Nat]
  <2>1. \A a \in Accounts : credit[a] \in Nat
    BY <1>1, TokenAssumption DEF Uint224
  <2>2. balances' = [a \in Accounts |-> balances[a] + credit[a]] BY DEF BatchMint
  <2> HIDE DEF credit
  <2> QED BY <2>1, <2>2 DEF TypeOK
<1>5. totalSupply' \in Uint224 BY DEF BatchMint
<1>6. DOMAIN checkpoints' = Accounts /\ checkpoints' = [a \in Accounts |-> checkpoints'[a]]
  BY DEF BatchMint
<1>7. PlainType' BY <1>4, <1>5, <1>6 DEF BatchMint, TypeOK, PlainType
<1> QED BY <1>2, <1>3, <1>7 DEF HistoriesWritten, BatchMint

LEMMA AdminStep ==
  ASSUME TypeOK, NEW s \in Accounts,
         Administering(s)
  PROVE  HistoriesWritten /\ PlainType' /\ block' = block
<1>1. CASE Pause(s) \/ Unpause(s)
  <2>1. HistoriesWritten BY <1>1, NothingWritten DEF Pause, Unpause, votesVars
  <2> QED BY <1>1, <2>1
       DEF Pause, Unpause, votesVars, erc20Vars, TypeOK, PlainType
<1>2. ASSUME NEW rc \in RoleChanges,
             \/ GrantRole(s, rc[1], rc[2]) \/ RevokeRole(s, rc[1], rc[2])
             \/ RenounceRole(s, rc[1])
      PROVE  HistoriesWritten /\ PlainType' /\ block' = block
  <2>1. rc[1] \in TokenRoles /\ rc[2] \in Accounts
    BY TokenAssumption DEF TokenRoles
  <2>2. HistoriesWritten
    BY <1>2, NothingWritten DEF GrantRole, RevokeRole, RenounceRole, votesVars
  <2>3. tokenRoles' \in [TokenRoles -> SUBSET Accounts]
    BY <1>2, <2>1 DEF GrantRole, RevokeRole, RenounceRole, Granted, Revoked, TypeOK
  <2> QED BY <1>2, <2>2, <2>3
       DEF GrantRole, RevokeRole, RenounceRole, votesVars, erc20Vars, TypeOK, PlainType
<1> QED BY <1>1, <1>2 DEF Administering

(* Any transaction. *)
LEMMA TransactionStep ==
  ASSUME TypeOK, NEW s \in Accounts, Step(s)
  PROVE  HistoriesWritten /\ PlainType' /\ block' = block
<1>1. Amounts \subseteq Nat /\ AllowanceAmounts \subseteq Uint256
  BY TokenAssumption DEF Uint256
<1>2. CASE \E d \in Accounts \cup {Zero} : Delegate(s, d) BY <1>2, DelegateStep
<1>3. ASSUME NEW to \in Accounts, NEW n \in Amounts,
             \/ Transfer(s, to, n) \/ Mint(s, to, n)
             \/ \E from \in Accounts : TransferFrom(s, from, to, n)
      PROVE  HistoriesWritten /\ PlainType' /\ block' = block
  <2>0. n \in Nat BY <1>1
  <2>1. CASE Transfer(s, to, n)
    <3>1. allowances' \in [Accounts -> [Accounts -> Uint256]]
      BY <2>1 DEF Transfer, TypeOK
    <3> QED BY <2>0, <2>1, <3>1, TransferTokensStep DEF Transfer
  <2>2. CASE Mint(s, to, n) BY <2>2, BatchMintStep DEF Mint
  <2>3. CASE \E from \in Accounts : TransferFrom(s, from, to, n)
    BY <2>0, <2>3, TransferFromStep
  <2> QED BY <1>3, <2>1, <2>2, <2>3
<1>4. CASE \E batch \in Batches : BatchMint(s, batch) BY <1>4, BatchMintStep
<1>5. ASSUME NEW spender \in Accounts, NEW n \in AllowanceAmounts,
             \/ Approve(s, spender, n)
             \/ IncreaseAllowance(s, spender, n) \/ DecreaseAllowance(s, spender, n)
      PROVE  HistoriesWritten /\ PlainType' /\ block' = block
  <2>0. n \in Uint256 /\ allowances[s][spender] \in Uint256 BY <1>1 DEF TypeOK
  <2>1. CASE Approve(s, spender, n) BY <2>0, <2>1, ApproveStep
  <2>2. CASE IncreaseAllowance(s, spender, n)
    BY <2>2, ApproveStep DEF IncreaseAllowance
  <2>3. CASE DecreaseAllowance(s, spender, n)
    <3>1. allowances[s][spender] - n \in Uint256
      BY <2>0, <2>3, TokenAssumption DEF DecreaseAllowance, Uint256
    <3> QED BY <2>3, <3>1, ApproveStep DEF DecreaseAllowance
  <2> QED BY <1>5, <2>1, <2>2, <2>3
<1>6. CASE Administering(s)
  BY <1>6, AdminStep
<1> QED BY <1>2, <1>3, <1>4, <1>5, <1>6 DEF Step, Allowing

--------------------------------------------------------------------------------

LEMMA InitIInv == Init => IInv
<1> SUFFICES ASSUME Init PROVE IInv
  OBVIOUS
<1>1. <<>> \in Histories BY DEF Histories
<1>2. TypeOK
  <2>1. 0 \in Uint256 BY TokenAssumption DEF Uint256
  <2>2. balances \in [Accounts -> Nat] /\ block \in Nat \ {0} BY DEF Init
  <2>3. allowances \in [Accounts -> [Accounts -> Uint256]] BY <2>1 DEF Init
  <2>4. checkpoints \in [Accounts -> Histories] BY <1>1 DEF Init
  <2>5. tokenRoles \in [TokenRoles -> SUBSET Accounts] BY TokenAssumption DEF Init
  <2> QED BY <1>1, <2>2, <2>3, <2>4, <2>5, ZeroIsUint224 DEF Init, TypeOK
<1>3. HistoriesUpTo BY DEF Init, HistoriesUpTo, UpTo
<1> QED BY <1>2, <1>3 DEF IInv

(* A transaction keeps the invariant and the past of every history. *)
LEMMA TransactionKeeps ==
  ASSUME IInv, HistoriesWritten, PlainType', block' = block
  PROVE  /\ IInv'
         /\ \A a \in Accounts, b \in Nat : b < block =>
              Lookup(checkpoints'[a], b) = Lookup(checkpoints[a], b)
         /\ \A b \in Nat : b < block =>
              Lookup(totalSupplyCheckpoints', b) = Lookup(totalSupplyCheckpoints, b)
<1>0. block \in Nat BY DEF IInv, TypeOK
<1>1. ASSUME NEW a \in Accounts
      PROVE  /\ checkpoints'[a] \in Histories /\ UpTo(checkpoints'[a], block)
             /\ \A b \in Nat : b < block =>
                  Lookup(checkpoints'[a], b) = Lookup(checkpoints[a], b)
  <2>1. checkpoints[a] \in Histories /\ UpTo(checkpoints[a], block)
    BY DEF IInv, TypeOK, HistoriesUpTo
  <2>2. Wrote(checkpoints[a], checkpoints'[a]) BY DEF HistoriesWritten
  <2> QED BY <1>0, <2>1, <2>2, WroteKeeps
<1>2. /\ totalSupplyCheckpoints' \in Histories /\ UpTo(totalSupplyCheckpoints', block)
      /\ \A b \in Nat : b < block =>
           Lookup(totalSupplyCheckpoints', b) = Lookup(totalSupplyCheckpoints, b)
  <2>1. totalSupplyCheckpoints \in Histories /\ UpTo(totalSupplyCheckpoints, block)
    BY DEF IInv, TypeOK, HistoriesUpTo
  <2>2. Wrote(totalSupplyCheckpoints, totalSupplyCheckpoints') BY DEF HistoriesWritten
  <2> QED BY <1>0, <2>1, <2>2, WroteKeeps
<1>3. checkpoints' \in [Accounts -> Histories] BY <1>1 DEF PlainType
<1>4. TypeOK' BY <1>2, <1>3 DEF TypeOK, PlainType
<1>5. HistoriesUpTo' BY <1>1, <1>2 DEF HistoriesUpTo
<1> QED BY <1>1, <1>2, <1>4, <1>5 DEF IInv

(* The next block begins: within the bound of Mine, or for whoever shares the   *)
(* chain with the token.                                                         *)
NextBlock ==
  /\ block' = block + 1
  /\ UNCHANGED <<erc20Vars, votesVars, tokenPaused, tokenRoles>>

LEMMA NextBlockKeeps ==
  ASSUME IInv, NextBlock
  PROVE  IInv'
<1>1. TypeOK'
  BY DEF IInv, TypeOK, NextBlock, erc20Vars, votesVars, Histories
<1>2. \A c \in Histories : UpTo(c, block) => UpTo(c, block + 1)
  <2> SUFFICES ASSUME NEW c \in Histories, UpTo(c, block), NEW i \in 1..Len(c)
               PROVE  c[i].fromBlock <= block + 1
    BY DEF UpTo
  <2>1. c[i] \in Checkpoint(Nat, Uint224) BY DEF Histories
  <2>2. c[i].fromBlock \in Nat BY <2>1 DEF Checkpoint
  <2> QED BY <2>2 DEF UpTo, IInv, TypeOK
<1>3. HistoriesUpTo'
  BY <1>2 DEF IInv, TypeOK, HistoriesUpTo, NextBlock, votesVars
<1> QED BY <1>1, <1>3 DEF IInv

LEMMA NextKeeps == IInv /\ [Next]_tokenVars => IInv'
<1> SUFFICES ASSUME IInv, [Next]_tokenVars PROVE IInv'
  OBVIOUS
<1>1. CASE Mine BY <1>1, NextBlockKeeps DEF Mine, NextBlock
<1>2. CASE \E s \in Accounts : Step(s)
  BY <1>2, TransactionStep, TransactionKeeps DEF IInv
<1>3. CASE UNCHANGED tokenVars
  BY <1>3 DEF tokenVars, erc20Vars, votesVars, IInv, TypeOK, HistoriesUpTo, Histories
<1> QED BY <1>1, <1>2, <1>3 DEF Next

(* The token keeps its type whatever the accounts, amounts and bounds.          *)
THEOREM TypeCorrect == Spec => []TypeOK
<1>1. Init => IInv BY InitIInv
<1>2. IInv /\ [Next]_tokenVars => IInv' BY NextKeeps
<1>3. IInv => TypeOK BY DEF IInv
<1> QED BY <1>1, <1>2, <1>3, PTL DEF Spec

--------------------------------------------------------------------------------
(* The refinement of VotingHistory. *)

LEMMA SnapshotTypes ==
  ASSUME TypeOK
  PROVE  Current \in Snapshots /\ \A b \in Nat : PastAt(b) \in Snapshots
<1>1. /\ totalSupplyCheckpoints \in Histories
      /\ \A a \in Accounts : checkpoints[a] \in Histories
  BY DEF TypeOK
<1>2. Current \in Snapshots
  <2>1. Latest(totalSupplyCheckpoints) \in Uint224
    BY <1>1, ZeroIsUint224, LatestType DEF Histories
  <2> QED BY <2>1, VotesType DEF Current, Snapshots
<1>3. ASSUME NEW b \in Nat PROVE PastAt(b) \in Snapshots
  <2>1. GetPastTotalSupply(b) \in Uint224
    BY <1>1, ZeroIsUint224, LookupType DEF Histories, GetPastTotalSupply
  <2>2. \A a \in Accounts : GetPastVotes(a, b) \in Uint224
    BY <1>1, ZeroIsUint224, LookupType DEF Histories, GetPastVotes
  <2> QED BY <2>1, <2>2 DEF PastAt, Snapshots
<1> QED BY <1>2, <1>3

LEMMA HistoryBegins ==
  ASSUME TypeOK, block = 1
  PROVE  History!Init
<1>1. 0..(block - 1) = {0} OBVIOUS
<1>2. Ended \in [{0} -> Snapshots] BY <1>1, SnapshotTypes DEF Ended
<1> QED BY <1>2, SnapshotTypes DEF History!Init

(* A transaction moves votes within the block and leaves the past alone. *)
LEMMA TransactionMoves ==
  ASSUME IInv, HistoriesWritten, PlainType', block' = block
  PROVE  History!Move
<1>1. TypeOK /\ block \in Nat \ {0} BY DEF IInv, TypeOK
<1>2. IInv' BY TransactionKeeps
<1>3. Current' \in Snapshots
  <2>1. TypeOK' BY <1>2 DEF IInv
  <2>2. /\ totalSupplyCheckpoints' \in Histories
        /\ \A a \in Accounts : checkpoints'[a] \in Histories
    BY <2>1 DEF TypeOK
  <2>3. \A c \in Histories : Latest(c) \in Uint224
    BY ZeroIsUint224, LatestType DEF Histories
  <2> QED BY <2>2, <2>3 DEF Current, Snapshots, GetVotes
<1>4. ASSUME NEW b \in 0..(block - 1) PROVE PastAt(b)' = PastAt(b)
  <2>1. b \in Nat /\ b < block BY <1>1
  <2>2. \A a \in Accounts : Lookup(checkpoints'[a], b) = Lookup(checkpoints[a], b)
    BY <2>1, TransactionKeeps
  <2>3. Lookup(totalSupplyCheckpoints', b) = Lookup(totalSupplyCheckpoints, b)
    BY <2>1, TransactionKeeps
  <2> QED BY <2>2, <2>3 DEF PastAt, GetPastVotes, GetPastTotalSupply
<1>5. Ended' = Ended BY <1>4 DEF Ended
<1> QED BY <1>3, <1>5 DEF History!Move

(* A mined block turns what is in force into past values. *)
LEMMA MineRecords ==
  ASSUME IInv, NextBlock
  PROVE  History!Mine
<1>1. TypeOK /\ block \in Nat \ {0} BY DEF IInv, TypeOK
<1>2. block' = block + 1 /\ UNCHANGED <<checkpoints, totalSupplyCheckpoints>>
  BY DEF NextBlock, votesVars
<1>3. Current' = Current BY <1>2 DEF Current, GetVotes
<1>4. \A b : PastAt(b)' = PastAt(b)
  BY <1>2 DEF PastAt, GetPastVotes, GetPastTotalSupply
<1>5. PastAt(block) = Current
  <2>1. \A a \in Accounts : GetPastVotes(a, block) = GetVotes(a)
    <3> SUFFICES ASSUME NEW a \in Accounts PROVE GetPastVotes(a, block) = GetVotes(a)
      OBVIOUS
    <3>1. checkpoints[a] \in Histories /\ UpTo(checkpoints[a], block)
      BY DEF IInv, TypeOK, HistoriesUpTo
    <3> QED BY <1>1, <3>1, LookupAtEnd DEF Histories, GetPastVotes, GetVotes
  <2>2. GetPastTotalSupply(block) = Latest(totalSupplyCheckpoints)
    <3>1. totalSupplyCheckpoints \in Histories /\ UpTo(totalSupplyCheckpoints, block)
      BY DEF IInv, TypeOK, HistoriesUpTo
    <3> QED BY <1>1, <3>1, LookupAtEnd DEF Histories, GetPastTotalSupply
  <2> QED BY <2>1, <2>2 DEF PastAt, Current
<1>6. Ended' = [b \in 0..block |-> IF b = block THEN Current ELSE Ended[b]]
  <2>1. Ended' = [b \in 0..block |-> PastAt(b)]
    BY <1>1, <1>2, <1>4 DEF Ended
  <2>2. \A b \in 0..block : b # block => Ended[b] = PastAt(b)
    BY <1>1 DEF Ended
  <2> QED BY <1>5, <2>1, <2>2
<1> QED BY <1>2, <1>3, <1>6 DEF History!Mine

(* The token's checkpoints implement the voting history a governor relies on.   *)
(* Whatever is transferred, minted or delegated, a mined block's votes and       *)
(* supply are those at its end, and no later transaction changes them.           *)
THEOREM PastIsNeverRewritten == Spec => HistorySpec
<1>1. Init => History!Init BY InitIInv, HistoryBegins DEF Init, IInv
<1>2. IInv /\ [Next]_tokenVars => [History!Next]_(History!historyVars)
  <2> SUFFICES ASSUME IInv, [Next]_tokenVars
               PROVE  [History!Next]_(History!historyVars)
    OBVIOUS
  <2>1. CASE Mine BY <2>1, MineRecords DEF Mine, NextBlock, History!Next
  <2>2. CASE \E s \in Accounts : Step(s)
    BY <2>2, TransactionStep, TransactionMoves DEF IInv, History!Next
  <2>3. CASE UNCHANGED tokenVars
    BY <2>3 DEF tokenVars, votesVars, History!historyVars, Current, Ended, PastAt,
                GetVotes, GetPastVotes, GetPastTotalSupply
  <2> QED BY <2>1, <2>2, <2>3 DEF Next
<1>3. Init => IInv BY InitIInv
<1>4. IInv /\ [Next]_tokenVars => IInv' BY NextKeeps
<1> QED BY <1>1, <1>2, <1>3, <1>4, PTL DEF Spec, HistorySpec, History!Spec

--------------------------------------------------------------------------------
(* The order of checkpoints. *)

HistoriesSorted ==
  /\ \A a \in Accounts : Sorted(checkpoints[a])
  /\ Sorted(totalSupplyCheckpoints)

LEMMA WroteSorted ==
  ASSUME NEW c \in Histories, NEW d, Wrote(c, d), block \in Nat, UpTo(c, block), Sorted(c)
  PROVE  Sorted(d)
BY WriteSorted DEF Wrote, Histories

LEMMA SortedKeeps == IInv /\ HistoriesSorted /\ [Next]_tokenVars => HistoriesSorted'
<1> SUFFICES ASSUME IInv, HistoriesSorted, [Next]_tokenVars PROVE HistoriesSorted'
  OBVIOUS
<1>1. CASE Mine \/ UNCHANGED tokenVars
  BY <1>1 DEF Mine, tokenVars, votesVars, HistoriesSorted
<1>2. ASSUME NEW s \in Accounts, Step(s) PROVE HistoriesSorted'
  <2>1. HistoriesWritten BY <1>2, TransactionStep DEF IInv
  <2>2. /\ block \in Nat /\ totalSupplyCheckpoints \in Histories
        /\ \A a \in Accounts : checkpoints[a] \in Histories
    BY DEF IInv, TypeOK
  <2>3. \A a \in Accounts : Sorted(checkpoints'[a])
    BY <2>1, <2>2, WroteSorted DEF HistoriesWritten, HistoriesSorted, HistoriesUpTo, IInv
  <2>4. Sorted(totalSupplyCheckpoints')
    BY <2>1, <2>2, WroteSorted DEF HistoriesWritten, HistoriesSorted, HistoriesUpTo, IInv
  <2> QED BY <2>3, <2>4 DEF HistoriesSorted
<1> QED BY <1>1, <1>2 DEF Next

(* The binary search may rely on it: every history is in strict block order and *)
(* ends no later than the current block, whatever is written in a block how often. *)
THEOREM HistoriesInOrder == Spec => []CheckpointsInOrder
<1>1. Init => IInv BY InitIInv
<1>2. Init => HistoriesSorted BY DEF Init, HistoriesSorted, Sorted
<1>3. IInv /\ [Next]_tokenVars => IInv' BY NextKeeps
<1>4. IInv /\ HistoriesSorted /\ [Next]_tokenVars => HistoriesSorted' BY SortedKeeps
<1>5. IInv /\ HistoriesSorted => CheckpointsInOrder
  BY DEF IInv, HistoriesUpTo, UpTo, HistoriesSorted, CheckpointsInOrder
<1> QED BY <1>1, <1>2, <1>3, <1>4, <1>5, PTL DEF Spec

--------------------------------------------------------------------------------
(* Balances, supply and votes.  The three agree between transactions (Accounts  *)
(* balance), which every transaction must re-establish with several writes: a    *)
(* transfer moves an amount between two balances and between two delegates, a   *)
(* delegation moves a whole balance, a batch credits many accounts at once.      *)

AccountsBalance == SupplyIsSumOfBalances /\ VotesAreDelegatedBalances

(* n if the condition holds: what a change by n adds to a sum. *)
Part(condition, n) == IF condition THEN n ELSE 0

LEMMA TypeFacts ==
  ASSUME TypeOK
  PROVE  /\ \A a \in Accounts : /\ balances[a] \in Nat
                                 /\ delegates[a] \in Accounts \cup {Zero}
                                 /\ checkpoints[a] \in Histories
                                 /\ GetVotes(a) \in Nat
         /\ totalSupplyCheckpoints \in Histories /\ totalSupply \in Nat
         /\ block \in Nat /\ Uint224 \subseteq Nat
         /\ IsFiniteSet(Accounts)
         /\ \A d : Delegators(d) \in SUBSET Accounts /\ IsFiniteSet(Delegators(d))
<1>1. Uint224 \subseteq Nat /\ IsFiniteSet(Accounts) BY TokenAssumption DEF Uint224
<1>2. \A d : Delegators(d) \in SUBSET Accounts BY DEF Delegators
<1>3. \A d : IsFiniteSet(Delegators(d)) BY <1>1, <1>2, FS_Subset
<1>4. \A a \in Accounts : GetVotes(a) \in Uint224 BY VotesType
<1> QED BY <1>1, <1>2, <1>3, <1>4 DEF TypeOK

LEMMA LatestWritten ==
  ASSUME NEW c \in Histories, NEW v \in Uint224, block \in Nat
  PROVE  Latest(WriteCheckpoint(c, block, v)) = v
BY LatestWrite DEF Histories

(* What a delegate has after a move of votes (_moveVotingPower). *)
LEMMA VotesAfterMove ==
  ASSUME TypeOK, NEW src, NEW dst, NEW n \in Nat, MayMoveVotingPower(src, dst, n),
         NEW d \in Accounts
  PROVE  Latest(MovedVotingPower(src, dst, n)[d])
           = GetVotes(d) - Part(d = src, n) + Part(d = dst, n)
<1> DEFINE moved == MovedVotingPower(src, dst, n)[d]
<1>0. GetVotes(d) \in Nat /\ checkpoints[d] \in Histories /\ block \in Nat
      /\ Uint224 \subseteq Nat
  BY TypeFacts
<1>1. CASE src = dst \/ n = 0 \/ d \notin {src, dst}
  <2>1. moved = checkpoints[d] BY <1>1 DEF MovedVotingPower
  <2>2. Latest(moved) = GetVotes(d) BY <2>1 DEF GetVotes
  <2> HIDE DEF moved
  <2>3. GetVotes(d) = GetVotes(d) - Part(d = src, n) + Part(d = dst, n)
    BY <1>0, <1>1 DEF Part
  <2> QED BY <2>2, <2>3 DEF moved
<1>2. ASSUME NEW v \in Uint224, moved = WriteCheckpoint(checkpoints[d], block, v)
      PROVE  Latest(moved) = v
  <2> HIDE DEF moved
  <2> QED BY <1>0, <1>2, LatestWritten
<1>3. CASE src # dst /\ n # 0 /\ d = src
  <2>1. GetVotes(d) - n \in Uint224
    <3>1. GetVotes(d) >= n BY <1>3 DEF MayMoveVotingPower
    <3>2. GetVotes(d) \in Uint224 BY VotesType
    <3> QED BY <3>1, <3>2, TokenAssumption DEF Uint224
  <2>2. moved = WriteCheckpoint(checkpoints[d], block, GetVotes(d) - n)
    BY <1>3 DEF MovedVotingPower
  <2>3. Latest(moved) = GetVotes(d) - n BY <1>2, <2>1, <2>2
  <2>4. GetVotes(d) - n = GetVotes(d) - Part(d = src, n) + Part(d = dst, n)
    BY <1>0, <1>3 DEF Part
  <2> HIDE DEF moved
  <2> QED BY <2>3, <2>4 DEF moved
<1>4. CASE src # dst /\ n # 0 /\ d = dst
  <2>1. GetVotes(d) + n \in Uint224 BY <1>4 DEF MayMoveVotingPower
  <2>2. moved = WriteCheckpoint(checkpoints[d], block, GetVotes(d) + n)
    BY <1>4 DEF MovedVotingPower
  <2>3. Latest(moved) = GetVotes(d) + n BY <1>2, <2>1, <2>2
  <2>4. GetVotes(d) + n = GetVotes(d) - Part(d = src, n) + Part(d = dst, n)
    BY <1>0, <1>4 DEF Part
  <2> HIDE DEF moved
  <2> QED BY <2>3, <2>4 DEF moved
<1> QED BY <1>1, <1>3, <1>4

(* A transfer moves n from one balance to another in every sum that has them.   *)
LEMMA TransferMoves ==
  ASSUME TypeOK, NEW from \in Accounts, NEW to \in Accounts, NEW n \in Nat,
         TransferTokens(from, to, n), NEW S \in SUBSET Accounts
  PROVE  SumOver(balances', S)
           = SumOver(balances, S) - Part(from \in S, n) + Part(to \in S, n)
<1> DEFINE mid == [balances EXCEPT ![from] = @ - n]
           last == balances'
<1>1. IsFiniteSet(S) /\ balances \in [Accounts -> Nat] BY TypeFacts, FS_Subset DEF TypeOK
<1>2. mid[from] = balances[from] + (-n) /\ \A a \in Accounts : a # from => mid[a] = balances[a]
  BY <1>1
<1>3. last[to] = mid[to] + n /\ \A a \in Accounts : a # to => last[a] = mid[a]
  BY <1>1 DEF TransferTokens
<1>4. \A a \in Accounts : balances[a] \in Int /\ mid[a] \in Int BY <1>1
<1>5. n \in Int /\ -n \in Int OBVIOUS
<1> HIDE DEF mid, last
<1>6. /\ from \in S => SumOver(mid, S) = SumOver(balances, S) + (-n)
      /\ from \notin S => SumOver(mid, S) = SumOver(balances, S)
  BY <1>1, <1>2, <1>4, <1>5, SumPut
<1>7. /\ to \in S => SumOver(last, S) = SumOver(mid, S) + n
      /\ to \notin S => SumOver(last, S) = SumOver(mid, S)
  BY <1>1, <1>3, <1>4, <1>5, SumPut
<1>8. SumOver(balances, S) \in Int BY <1>1, <1>4, SumInt
<1> QED BY <1>6, <1>7, <1>8 DEF Part, last

LEMMA TransferBalances ==
  ASSUME TypeOK, AccountsBalance, NEW from \in Accounts, NEW to \in Accounts,
         NEW n \in Nat, TransferTokens(from, to, n)
  PROVE  AccountsBalance'
<1>0. totalSupply \in Nat BY TypeFacts
<1>1. SumOver(balances', Accounts) = totalSupply
  <2>1. SumOver(balances', Accounts)
          = SumOver(balances, Accounts) - Part(from \in Accounts, n)
              + Part(to \in Accounts, n)
    BY TransferMoves
  <2>2. SumOver(balances, Accounts) = totalSupply
    BY DEF AccountsBalance, SupplyIsSumOfBalances
  <2> QED BY <1>0, <2>1, <2>2 DEF Part
<1>2. SupplyIsSumOfBalances'
  BY <1>1 DEF SupplyIsSumOfBalances, AccountsBalance, TransferTokens
<1>3. ASSUME NEW d \in Accounts
      PROVE  Latest(checkpoints'[d]) = SumOver(balances', Delegators(d))
  <2>1. Latest(checkpoints'[d])
          = GetVotes(d) - Part(d = delegates[from], n) + Part(d = delegates[to], n)
    BY VotesAfterMove DEF TransferTokens
  <2>2. Delegators(d) \in SUBSET Accounts BY TypeFacts
  <2>3. SumOver(balances', Delegators(d))
          = SumOver(balances, Delegators(d)) - Part(from \in Delegators(d), n)
              + Part(to \in Delegators(d), n)
    BY <2>2, TransferMoves
  <2>4. /\ (from \in Delegators(d)) = (d = delegates[from])
        /\ (to \in Delegators(d)) = (d = delegates[to])
    BY DEF Delegators
  <2>5. GetVotes(d) = SumOver(balances, Delegators(d))
    BY DEF AccountsBalance, VotesAreDelegatedBalances
  <2> QED BY <2>1, <2>3, <2>4, <2>5
<1>4. \A d : Delegators(d)' = Delegators(d) BY DEF Delegators, TransferTokens
<1>5. VotesAreDelegatedBalances'
  BY <1>3, <1>4 DEF VotesAreDelegatedBalances, GetVotes
<1> QED BY <1>2, <1>5 DEF AccountsBalance

(* A delegation moves the whole balance of the sender. *)
LEMMA DelegateBalances ==
  ASSUME TypeOK, AccountsBalance, NEW s \in Accounts, NEW dst \in Accounts \cup {Zero},
         Delegate(s, dst)
  PROVE  AccountsBalance'
<1> DEFINE n == balances[s]
           src == delegates[s]
<1>0. n \in Nat /\ \A a \in Accounts : balances[a] \in Int BY TypeFacts
<1>1. SupplyIsSumOfBalances'
  BY DEF SupplyIsSumOfBalances, AccountsBalance, Delegate, erc20Vars
<1>2. ASSUME NEW d \in Accounts
      PROVE  Latest(checkpoints'[d]) = SumOver(balances, Delegators(d)')
  <2>1. Latest(checkpoints'[d]) = GetVotes(d) - Part(d = src, n) + Part(d = dst, n)
    BY <1>0, VotesAfterMove DEF Delegate
  <2>2. GetVotes(d) = SumOver(balances, Delegators(d))
    BY DEF AccountsBalance, VotesAreDelegatedBalances
  <2>3. /\ delegates \in [Accounts -> Accounts \cup {Zero}]
        /\ delegates' = [delegates EXCEPT ![s] = dst]
    BY DEF Delegate, TypeOK
  <2>4. IsFiniteSet(Delegators(d)) /\ Delegators(d) \in SUBSET Accounts BY TypeFacts
  <2>5. SumOver(balances, Delegators(d)) \in Int BY <1>0, <2>4, SumInt
  <2> DEFINE old == Delegators(d)
             new == Delegators(d)'
  <2>6. CASE src = dst \/ d \notin {src, dst}
    <3>1. new = old BY <2>3, <2>6 DEF Delegators
    <3> QED BY <1>0, <2>1, <2>2, <2>5, <2>6, <3>1 DEF Part
  <2>7. CASE d = src /\ src # dst
    <3>1. new = old \ {s} /\ s \in old BY <2>3, <2>7 DEF Delegators
    <3>2. SumOver(balances, old) = n + SumOver(balances, old \ {s})
      BY <1>0, <2>4, <3>1, SumRemove
    <3>3. IsFiniteSet(old \ {s}) BY <2>4, FS_RemoveElement
    <3>4. SumOver(balances, old \ {s}) \in Int BY <1>0, <2>4, <3>3, SumInt
    <3> HIDE DEF old, new, n
    <3> QED BY <1>0, <2>1, <2>2, <2>7, <3>1, <3>2, <3>4 DEF Part, old, new
  <2>8. CASE d = dst /\ src # dst
    <3>1. new = old \cup {s} /\ s \notin old BY <2>3, <2>8 DEF Delegators
    <3>2. SumOver(balances, old \cup {s}) = n + SumOver(balances, old)
      BY <1>0, <2>4, <3>1, SumAdd
    <3> QED BY <1>0, <2>1, <2>2, <2>5, <2>8, <3>1, <3>2 DEF Part
  <2> QED BY <2>6, <2>7, <2>8
<1>3. VotesAreDelegatedBalances'
  BY <1>2 DEF VotesAreDelegatedBalances, GetVotes, Delegate, erc20Vars
<1> QED BY <1>1, <1>3 DEF AccountsBalance

(* What a batch credits to the accounts of a set is the sum of what it credits  *)
(* to each of them.                                                              *)
Entry == [to : Accounts, amount : 0..MaxUint256]
Batch == Seq(Entry)

LEMMA CreditAdds ==
  ASSUME NEW batch \in Batch, NEW S \in SUBSET Accounts, IsFiniteSet(Accounts)
  PROVE  /\ Credit(batch, S) \in Nat
         /\ \A a \in S : Credit(batch, {a}) \in Nat
         /\ Credit(batch, S) = SumOver([a \in Accounts |-> Credit(batch, {a})], S)
<1> DEFINE D == DOMAIN batch
           amount == [i \in D |-> batch[i].amount]
           To(A) == {i \in D : batch[i].to \in A}
           part == [a \in S |-> To({a})]
           credit == [a \in Accounts |-> Credit(batch, {a})]
<1>0. D = 1..Len(batch) /\ Len(batch) \in Nat BY DEF Batch
<1>1. IsFiniteSet(D) /\ IsFiniteSet(S)
  <2>1. IsFiniteSet(1..Len(batch)) BY <1>0, FS_Interval
  <2> QED BY <1>0, <2>1, FS_Subset
<1>2. \A i \in D : amount[i] \in Nat
  <2> SUFFICES ASSUME NEW i \in 1..Len(batch) PROVE batch[i].amount \in Nat
    BY <1>0
  <2>1. batch[i] \in Entry BY DEF Batch
  <2>2. batch[i].amount \in 0..MaxUint256 BY <2>1 DEF Entry
  <2> QED BY <2>2, TokenAssumption
<1>3. \A A : Credit(batch, A) = SumOver(amount, To(A)) BY DEF Credit
<1>4. \A A : To(A) \in SUBSET D OBVIOUS
<1>5. \A i : i \in To(S) <=> \E a \in S : i \in part[a] OBVIOUS
<1>6. \A a, b \in S : a # b => part[a] \cap part[b] = {} OBVIOUS
<1>7. \A a \in S : credit[a] = SumOver(amount, part[a]) BY <1>3
<1> HIDE DEF D, amount, To, part, credit
<1>8. \A i \in To(S) : amount[i] \in Int BY <1>2, <1>4
<1>9. IsFiniteSet(To(S)) BY <1>1, <1>4, FS_Subset
<1>10. SumOver(credit, S) = SumOver(amount, To(S))
  BY <1>1, <1>5, <1>6, <1>7, <1>8, <1>9, SumOfParts
<1>11. \A A : Credit(batch, A) \in Nat BY <1>1, <1>2, <1>3, <1>4, SumPart
<1> QED BY <1>3, <1>10, <1>11 DEF credit

(* A batch credits balances, votes and supply alike (batchMint, mint). *)
LEMMA BatchMintBalances ==
  ASSUME TypeOK, AccountsBalance, NEW s, NEW batch \in Batch, BatchMint(s, batch)
  PROVE  AccountsBalance'
<1> DEFINE credit == [a \in Accounts |-> Credit(batch, {a})]
           votes == VotesAfterMint(batch)
<1>0. /\ IsFiniteSet(Accounts) /\ block \in Nat /\ totalSupply \in Nat
      /\ totalSupplyCheckpoints \in Histories
      /\ \A a \in Accounts : balances[a] \in Nat /\ checkpoints[a] \in Histories
                             /\ GetVotes(a) \in Nat
  BY TypeFacts
<1>1. \A a \in Accounts : credit[a] \in Nat
  BY <1>0, CreditAdds
<1>2. \A a \in Accounts : balances'[a] = balances[a] + credit[a] BY DEF BatchMint
<1>3. ASSUME NEW S \in SUBSET Accounts
      PROVE  SumOver(balances', S) = SumOver(balances, S) + Credit(batch, S)
  <2> DEFINE last == balances'
  <2>1. IsFiniteSet(S) BY <1>0, FS_Subset
  <2>2. Credit(batch, S) = SumOver(credit, S) BY <1>0, CreditAdds
  <2> HIDE DEF credit
  <2>3. \A a \in S : balances[a] \in Int /\ credit[a] \in Int /\ last[a] = balances[a] + credit[a]
    BY <1>0, <1>1, <1>2
  <2> HIDE DEF last
  <2>4. SumOver(last, S) = SumOver(balances, S) + SumOver(credit, S) BY <2>1, <2>3, SumTotal
  <2> QED BY <2>2, <2>4 DEF last
<1>4. SumOver(balances', Accounts) = totalSupply'
  BY <1>3 DEF BatchMint, AccountsBalance, SupplyIsSumOfBalances
<1>5. Latest(totalSupplyCheckpoints') = totalSupply'
  <2>1. Latest(totalSupplyCheckpoints) = totalSupply
    BY DEF AccountsBalance, SupplyIsSumOfBalances
  <2>2. CASE batch = <<>>
    <3>1. Credit(batch, Accounts) = 0
      <4>1. {i \in DOMAIN batch : batch[i].to \in Accounts} = {} BY <2>2
      <4> QED BY <4>1, SumEmpty DEF Credit
    <3> QED BY <1>0, <2>1, <2>2, <3>1 DEF BatchMint
  <2>3. CASE batch # <<>>
    <3>1. totalSupplyCheckpoints' = SupplyCheckpoint(batch) BY <2>3 DEF BatchMint
    <3>2. totalSupply' = totalSupply + Credit(batch, Accounts) BY DEF BatchMint
    <3>3. totalSupply + Credit(batch, Accounts) \in Uint224 BY DEF BatchMint
    <3> QED BY <1>0, <2>1, <3>1, <3>2, <3>3, LatestWritten DEF SupplyCheckpoint
  <2> QED BY <2>2, <2>3
<1>6. ASSUME NEW d \in Accounts
      PROVE  Latest(checkpoints'[d]) = SumOver(balances', Delegators(d))
  <2>1. votes[d] = GetVotes(d) + Credit(batch, Delegators(d)) BY DEF VotesAfterMint
  <2>2. checkpoints'[d] = IF votes[d] = GetVotes(d) THEN checkpoints[d]
                          ELSE WriteCheckpoint(checkpoints[d], block, votes[d])
    BY DEF BatchMint
  <2>3. votes[d] \in Uint224 BY DEF BatchMint
  <2>4. Latest(checkpoints'[d]) = votes[d]
    <3> HIDE DEF votes
    <3>1. CASE votes[d] = GetVotes(d) BY <2>2, <3>1 DEF GetVotes
    <3>2. CASE votes[d] # GetVotes(d) BY <1>0, <2>2, <2>3, <3>2, LatestWritten
    <3> QED BY <3>1, <3>2
  <2>5. Delegators(d) \in SUBSET Accounts BY TypeFacts
  <2>6. GetVotes(d) = SumOver(balances, Delegators(d))
    BY DEF AccountsBalance, VotesAreDelegatedBalances
  <2> QED BY <1>3, <2>1, <2>4, <2>5, <2>6
<1>7. \A d : Delegators(d)' = Delegators(d) BY DEF Delegators, BatchMint
<1>8. VotesAreDelegatedBalances'
  BY <1>6, <1>7 DEF VotesAreDelegatedBalances, GetVotes
<1> QED BY <1>4, <1>5, <1>8 DEF AccountsBalance, SupplyIsSumOfBalances

(* Nothing else changes a balance, the supply, a delegate or a history. *)
LEMMA OthersBalance ==
  ASSUME AccountsBalance,
         UNCHANGED <<balances, totalSupply, delegates, checkpoints, totalSupplyCheckpoints>>
  PROVE  AccountsBalance'
BY DEF AccountsBalance, SupplyIsSumOfBalances, VotesAreDelegatedBalances, GetVotes, Delegators

LEMMA TransactionBalances ==
  ASSUME TypeOK, AccountsBalance, NEW s \in Accounts, Step(s)
  PROVE  AccountsBalance'
<1>0. Batches \subseteq Batch BY TokenAssumption, Zenon DEF Batch, Entry
<1>1. Amounts \subseteq Nat /\ Amounts \subseteq 0..MaxUint256 BY TokenAssumption
<1>2. CASE \E d \in Accounts \cup {Zero} : Delegate(s, d) BY <1>2, DelegateBalances
<1>3. ASSUME NEW to \in Accounts, NEW n \in Amounts,
             \/ Transfer(s, to, n) \/ Mint(s, to, n)
             \/ \E from \in Accounts : TransferFrom(s, from, to, n)
      PROVE  AccountsBalance'
  <2>0. n \in Nat BY <1>1
  <2>1. CASE Transfer(s, to, n) BY <2>0, <2>1, TransferBalances DEF Transfer
  <2>2. CASE Mint(s, to, n)
    <3>1. <<[to |-> to, amount |-> n]>> \in Batch BY <1>1 DEF Batch, Entry
    <3> QED BY <2>2, <3>1, BatchMintBalances DEF Mint
  <2>3. CASE \E from \in Accounts : TransferFrom(s, from, to, n)
    BY <2>0, <2>3, TransferBalances DEF TransferFrom
  <2> QED BY <1>3, <2>1, <2>2, <2>3
<1>4. CASE \E batch \in Batches : BatchMint(s, batch) BY <1>0, <1>4, BatchMintBalances
<1>5. CASE Allowing(s)
  BY <1>5, OthersBalance DEF Allowing, Approve, IncreaseAllowance, DecreaseAllowance, votesVars
<1>6. CASE Administering(s)
  BY <1>6, OthersBalance DEF Administering, Pause, Unpause, GrantRole, RevokeRole, RenounceRole,
                             erc20Vars, votesVars
<1> QED BY <1>2, <1>3, <1>4, <1>5, <1>6 DEF Step

LEMMA NextBalances ==
  IInv /\ AccountsBalance /\ [Next]_tokenVars => AccountsBalance'
<1> SUFFICES ASSUME IInv, AccountsBalance, [Next]_tokenVars PROVE AccountsBalance'
  OBVIOUS
<1>1. CASE Mine BY <1>1, OthersBalance DEF Mine, erc20Vars, votesVars
<1>2. CASE \E s \in Accounts : Step(s) BY <1>2, TransactionBalances DEF IInv
<1>3. CASE UNCHANGED tokenVars
  BY <1>3, OthersBalance DEF tokenVars, erc20Vars, votesVars
<1> QED BY <1>1, <1>2, <1>3 DEF Next

LEMMA InitBalances == Init => AccountsBalance
<1> SUFFICES ASSUME Init PROVE AccountsBalance
  OBVIOUS
<1>1. TypeOK BY InitIInv DEF IInv
<1>2. \A a \in Accounts : balances[a] = 0 BY DEF Init
<1>3. SumOver(balances, Accounts) = 0 BY <1>1, <1>2, TypeFacts, SumZero
<1>4. \A d \in Accounts : SumOver(balances, Delegators(d)) = 0
  BY <1>1, <1>2, TypeFacts, SumZero
<1> QED BY <1>3, <1>4
     DEF Init, AccountsBalance, SupplyIsSumOfBalances, VotesAreDelegatedBalances, GetVotes, Latest

(* Tokens are conserved: whatever is transferred and minted, the supply that    *)
(* mints cap, and its checkpoint, is what all accounts hold together.            *)
THEOREM SupplyConserved == Spec => []SupplyIsSumOfBalances
<1>1. Init => IInv /\ AccountsBalance BY InitIInv, InitBalances
<1>2. IInv /\ [Next]_tokenVars => IInv' BY NextKeeps
<1>3. IInv /\ AccountsBalance /\ [Next]_tokenVars => AccountsBalance' BY NextBalances
<1>4. AccountsBalance => SupplyIsSumOfBalances BY DEF AccountsBalance
<1> QED BY <1>1, <1>2, <1>3, <1>4, PTL DEF Spec

(* Votes are conserved: in whatever order transfers, mints and delegations come, *)
(* a delegate has the balances delegated to it, no more and no less.             *)
THEOREM VotesConserved == Spec => []VotesAreDelegatedBalances
<1>1. Init => IInv /\ AccountsBalance BY InitIInv, InitBalances
<1>2. IInv /\ [Next]_tokenVars => IInv' BY NextKeeps
<1>3. IInv /\ AccountsBalance /\ [Next]_tokenVars => AccountsBalance' BY NextBalances
<1>4. AccountsBalance => VotesAreDelegatedBalances BY DEF AccountsBalance
<1> QED BY <1>1, <1>2, <1>3, <1>4, PTL DEF Spec

(* The checked subtraction and the cast of _moveVotingPower cannot fail: the     *)
(* votes of a holder's delegate include the holder's balance, and the votes of   *)
(* any delegate together with a balance not delegated to it are within supply.   *)
LEMMA MovesAreCovered ==
  ASSUME TypeOK, AccountsBalance
  PROVE  VotesNeverBlockTransfers
<1> SUFFICES ASSUME NEW from \in Accounts, NEW to \in Accounts,
                    delegates[from] # delegates[to]
             PROVE  /\ delegates[from] \in Accounts
                         => GetVotes(delegates[from]) >= balances[from]
                    /\ delegates[to] \in Accounts
                         => GetVotes(delegates[to]) + balances[from] \in Uint224
  BY DEF VotesNeverBlockTransfers, MayMoveVotingPower
<1>1. /\ \A a \in Accounts : balances[a] \in Nat /\ GetVotes(a) \in Nat
      /\ \A d : Delegators(d) \in SUBSET Accounts /\ IsFiniteSet(Delegators(d))
      /\ IsFiniteSet(Accounts)
  BY TypeFacts
<1>2. \A d \in Accounts : GetVotes(d) = SumOver(balances, Delegators(d))
  BY DEF AccountsBalance, VotesAreDelegatedBalances
<1>3. ASSUME delegates[from] \in Accounts
      PROVE  GetVotes(delegates[from]) >= balances[from]
  <2> DEFINE D == Delegators(delegates[from])
  <2>1. from \in D BY DEF Delegators
  <2> HIDE DEF D
  <2>2. D \in SUBSET Accounts /\ IsFiniteSet(D) BY <1>1 DEF D
  <2>3. SumOver(balances, D) = balances[from] + SumOver(balances, D \ {from})
    BY <1>1, <2>1, <2>2, SumRemove
  <2>4. IsFiniteSet(D \ {from}) BY <2>2, FS_RemoveElement
  <2>5. SumOver(balances, D \ {from}) \in Nat BY <1>1, <2>2, <2>4, SumNat
  <2>6. GetVotes(delegates[from]) = SumOver(balances, D) BY <1>2, <1>3 DEF D
  <2> QED BY <1>1, <2>3, <2>5, <2>6
<1>4. ASSUME delegates[to] \in Accounts
      PROVE  GetVotes(delegates[to]) + balances[from] \in Uint224
  <2> DEFINE D == Delegators(delegates[to])
  <2>1. from \notin D BY DEF Delegators
  <2> HIDE DEF D
  <2>2. D \in SUBSET Accounts /\ IsFiniteSet(D) BY <1>1 DEF D
  <2>3. SumOver(balances, D \cup {from}) = balances[from] + SumOver(balances, D)
    BY <1>1, <2>1, <2>2, SumAdd
  <2>4. SumOver(balances, D \cup {from}) <= SumOver(balances, Accounts)
    <3>1. D \cup {from} \in SUBSET Accounts BY <2>2
    <3> QED BY <1>1, <3>1, SumPart
  <2>5. SumOver(balances, Accounts) = totalSupply /\ totalSupply \in Uint224
    BY DEF AccountsBalance, SupplyIsSumOfBalances, TypeOK
  <2>6. GetVotes(delegates[to]) = SumOver(balances, D) BY <1>2, <1>4 DEF D
  <2> QED BY <1>1, <1>4, <2>3, <2>4, <2>5, <2>6, TokenAssumption DEF Uint224
<1> QED BY <1>3, <1>4

(* Therefore no transfer is refused for lack of votes or because votes overflow. *)
THEOREM TransfersNeverLackVotes == Spec => []VotesNeverBlockTransfers
<1>1. Init => IInv /\ AccountsBalance BY InitIInv, InitBalances
<1>2. IInv /\ [Next]_tokenVars => IInv' BY NextKeeps
<1>3. IInv /\ AccountsBalance /\ [Next]_tokenVars => AccountsBalance' BY NextBalances
<1>4. IInv /\ AccountsBalance => VotesNeverBlockTransfers BY MovesAreCovered DEF IInv
<1> QED BY <1>1, <1>2, <1>3, <1>4, PTL DEF Spec

--------------------------------------------------------------------------------
(* All votes together are within the supply: now, because every balance counts  *)
(* for one delegate at most, and therefore at the end of every mined block.      *)

VotesOf == [d \in Accounts |-> GetVotes(d)]
PastVotesOf(b) == [d \in Accounts |-> GetPastVotes(d, b)]

LEMMA VotesWithinSupply ==
  ASSUME TypeOK, AccountsBalance
  PROVE  SumOver(VotesOf, Accounts) <= Latest(totalSupplyCheckpoints)
<1> DEFINE part == [d \in Accounts |-> Delegators(d)]
           Delegating == {a \in Accounts : delegates[a] \in Accounts}
<1>1. /\ \A a \in Accounts : balances[a] \in Nat /\ GetVotes(a) \in Nat
      /\ IsFiniteSet(Accounts)
  BY TypeFacts
<1>2. Delegating \in SUBSET Accounts /\ IsFiniteSet(Delegating) BY <1>1, FS_Subset
<1>3. \A a : a \in Delegating <=> \E d \in Accounts : a \in part[d] BY DEF Delegators
<1>4. \A d, e \in Accounts : d # e => part[d] \cap part[e] = {} BY DEF Delegators
<1>5. \A d \in Accounts : VotesOf[d] = SumOver(balances, part[d])
  BY DEF AccountsBalance, VotesAreDelegatedBalances, VotesOf
<1> HIDE DEF part, Delegating
<1>6. \A a \in Delegating : balances[a] \in Int BY <1>1, <1>2
<1>7. SumOver(VotesOf, Accounts) = SumOver(balances, Delegating)
  BY <1>1, <1>2, <1>3, <1>4, <1>5, <1>6, SumOfParts
<1>8. SumOver(balances, Delegating) <= SumOver(balances, Accounts)
  BY <1>1, <1>2, SumPart
<1> QED BY <1>7, <1>8 DEF AccountsBalance, SupplyIsSumOfBalances

(* The inductive invariant of the past. *)
PInv == IInv /\ AccountsBalance /\ PastVotesWithinPastSupply

LEMMA TransactionKeepsPast ==
  ASSUME PInv, HistoriesWritten, PlainType', block' = block
  PROVE  PastVotesWithinPastSupply'
<1>1. TypeOK /\ block \in Nat BY DEF PInv, IInv, TypeOK
<1>3. ASSUME NEW b \in 0..(block - 1)
      PROVE  PastVotesOf(b)' = PastVotesOf(b) /\ GetPastTotalSupply(b)' = GetPastTotalSupply(b)
  <2>1. b \in Nat /\ b < block BY <1>1
  <2>2. /\ \A a \in Accounts : Lookup(checkpoints'[a], b) = Lookup(checkpoints[a], b)
        /\ Lookup(totalSupplyCheckpoints', b) = Lookup(totalSupplyCheckpoints, b)
    BY <2>1, TransactionKeeps DEF PInv
  <2> QED BY <2>2 DEF PastVotesOf, GetPastVotes, GetPastTotalSupply
<1>4. ASSUME NEW b \in 0..(block - 1)
      PROVE  SumOver(PastVotesOf(b), Accounts) <= GetPastTotalSupply(b)
  BY DEF PInv, PastVotesWithinPastSupply, PastVotesOf
<1> QED BY <1>3, <1>4 DEF PastVotesWithinPastSupply, PastVotesOf

LEMMA NextBlockKeepsPast ==
  ASSUME PInv, NextBlock
  PROVE  PastVotesWithinPastSupply'
<1>1. TypeOK /\ IInv /\ AccountsBalance /\ block \in Nat \ {0} BY DEF PInv, IInv, TypeOK
<1>2. block' = block + 1 /\ UNCHANGED <<checkpoints, totalSupplyCheckpoints>>
  BY DEF NextBlock, votesVars
<1>3. \A b : PastVotesOf(b)' = PastVotesOf(b) /\ GetPastTotalSupply(b)' = GetPastTotalSupply(b)
  BY <1>2 DEF PastVotesOf, GetPastVotes, GetPastTotalSupply
<1>4. PastVotesOf(block) = VotesOf
      /\ GetPastTotalSupply(block) = Latest(totalSupplyCheckpoints)
  <2>1. \A a \in Accounts : GetPastVotes(a, block) = GetVotes(a)
    <3> SUFFICES ASSUME NEW a \in Accounts PROVE GetPastVotes(a, block) = GetVotes(a)
      OBVIOUS
    <3>1. checkpoints[a] \in Histories /\ UpTo(checkpoints[a], block)
      BY <1>1 DEF IInv, TypeOK, HistoriesUpTo
    <3> QED BY <1>1, <3>1, LookupAtEnd DEF Histories, GetPastVotes, GetVotes
  <2>2. GetPastTotalSupply(block) = Latest(totalSupplyCheckpoints)
    <3>1. totalSupplyCheckpoints \in Histories /\ UpTo(totalSupplyCheckpoints, block)
      BY <1>1 DEF IInv, TypeOK, HistoriesUpTo
    <3> QED BY <1>1, <3>1, LookupAtEnd DEF Histories, GetPastTotalSupply
  <2> QED BY <2>1, <2>2 DEF PastVotesOf, VotesOf
<1>5. ASSUME NEW b \in 0..block
      PROVE  SumOver(PastVotesOf(b), Accounts) <= GetPastTotalSupply(b)
  <2>1. CASE b = block BY <1>1, <1>4, <2>1, VotesWithinSupply
  <2>2. CASE b # block
    <3>1. b \in 0..(block - 1) BY <1>1, <2>2
    <3> QED BY <3>1 DEF PInv, PastVotesWithinPastSupply, PastVotesOf
  <2> QED BY <2>1, <2>2
<1>6. 0..(block' - 1) = 0..block BY <1>1, <1>2
<1> QED BY <1>3, <1>5, <1>6 DEF PastVotesWithinPastSupply, PastVotesOf

LEMMA PastBegins == Init => PInv
<1> SUFFICES ASSUME Init PROVE PastVotesWithinPastSupply
  BY InitIInv, InitBalances DEF PInv
<1>1. block = 1 BY DEF Init
<1>2. TypeOK BY InitIInv DEF IInv
<1>3. ASSUME NEW b \in 0..(block - 1)
      PROVE  SumOver(PastVotesOf(b), Accounts) <= GetPastTotalSupply(b)
  <2>1. Lookup(<<>>, b) = 0 BY DEF Lookup, ValuesAt, InForce
  <2>2. \A a \in Accounts : PastVotesOf(b)[a] = 0
    BY <2>1 DEF Init, PastVotesOf, GetPastVotes
  <2>3. GetPastTotalSupply(b) = 0 BY <2>1 DEF Init, GetPastTotalSupply
  <2>4. SumOver(PastVotesOf(b), Accounts) = 0 BY <1>2, <2>2, TypeFacts, SumZero
  <2> QED BY <2>3, <2>4
<1> QED BY <1>3 DEF PastVotesWithinPastSupply, PastVotesOf

LEMMA PastKeeps == PInv /\ [Next]_tokenVars => PInv'
<1> SUFFICES ASSUME PInv, [Next]_tokenVars PROVE PastVotesWithinPastSupply'
  BY NextKeeps, NextBalances DEF PInv
<1>1. CASE Mine BY <1>1, NextBlockKeepsPast DEF Mine, NextBlock
<1>2. CASE \E s \in Accounts : Step(s)
  BY <1>2, TransactionStep, TransactionKeepsPast DEF PInv, IInv
<1>3. CASE UNCHANGED tokenVars
  BY <1>3 DEF tokenVars, votesVars, PInv, PastVotesWithinPastSupply, GetPastVotes,
              GetPastTotalSupply
<1> QED BY <1>1, <1>2, <1>3 DEF Next

(* No block a governor may take as its snapshot has more votes than supply, on   *)
(* which the quorum is computed, whatever happened in that block or later.       *)
THEOREM VotesWithinSupplyForEver == Spec => []PastVotesWithinPastSupply
<1>1. PInv => PastVotesWithinPastSupply BY DEF PInv
<1> QED BY <1>1, PastBegins, PastKeeps, PTL DEF Spec
================================================================================
