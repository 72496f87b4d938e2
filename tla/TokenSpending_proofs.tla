-------------------------- MODULE TokenSpending_proofs --------------------------
(* What a spender moves is covered by what it was granted, a signature counts   *)
(* once, lost roles stay lost and a pause is complete: for any accounts, and for *)
(* any amounts and messages, also infinitely many.  Types come from              *)
(* PeachToken_proofs: every transaction of this specification is one of the      *)
(* token's kinds.                                                                *)
EXTENDS TokenSpending, PeachToken_proofs, FiniteSetTheorems

LedgerType ==
  /\ granted \in [Accounts -> [Accounts -> Nat]]
  /\ spent \in [Accounts -> [Accounts -> Nat]]
  /\ nonces \in [Accounts -> Nat]
  /\ uses \in [Messages -> Seq(Nat)]

(* What is allowed was granted, and so was what is spent and allowed together   *)
(* unless the allowance may have been unlimited.  The first part is what shows    *)
(* that an allowance was unlimited only if enough was granted.                   *)
Covered ==
  \A o, s \in Accounts :
    /\ allowances[o][s] <= granted[o][s]
    /\ granted[o][s] < MaxUint256 => spent[o][s] + allowances[o][s] <= granted[o][s]

UsedBy(a) == {m \in Messages : m.signer = a /\ uses[m] # <<>>}

(* A message that was used had a nonce that its signer is past, and a signer's   *)
(* nonce counts its messages that were used.                                     *)
CountedOnce ==
  /\ \A m \in Messages :
       uses[m] # <<>> => /\ Len(uses[m]) = 1 /\ uses[m][1] <= m.deadline
                         /\ m.nonce < nonces[m.signer]
  /\ \A m1, m2 \in Messages :
       m1.signer = m2.signer /\ m1.nonce = m2.nonce /\ m1 # m2
         => uses[m1] = <<>> \/ uses[m2] = <<>>
  /\ \A a \in Accounts :
       IsFiniteSet(UsedBy(a)) /\ nonces[a] = Cardinality(UsedBy(a))

(* The inductive invariant, with the token's. *)
SInv == IInv /\ LedgerType /\ Covered /\ CountedOnce

--------------------------------------------------------------------------------
(* The token's part *)

LEMMA MessageType ==
  ASSUME NEW m \in Messages
  PROVE  /\ m.signer \in Accounts /\ m.to \in Accounts /\ m.value \in Uint256
         /\ m.nonce \in Nat /\ m.deadline \in Nat
BY SpendingAssumption DEF Message

(* Every transaction writes histories as the token's transactions do. *)
LEMMA SpendingIsTransaction ==
  ASSUME TypeOK, SpendingNext
  PROVE  Mine \/ (HistoriesWritten /\ PlainType' /\ block' = block)
<1>0. Amounts \subseteq Nat BY TokenAssumption
<1>1. ASSUME NEW owner \in Owners, Allow(owner)
      PROVE  HistoriesWritten /\ PlainType' /\ block' = block
  <2>1. owner \in Accounts /\ Step(owner)
    BY <1>1, SpendingAssumption DEF Allow, Step
  <2> QED BY <2>1, TransactionStep
<1>2. ASSUME NEW owner \in Owners, NEW spender \in Accounts, NEW to \in Accounts,
             NEW n \in Amounts, Spend(spender, owner, to, n)
      PROVE  HistoriesWritten /\ PlainType' /\ block' = block
  <2>1. owner \in Accounts /\ n \in Nat BY <1>0, SpendingAssumption
  <2> QED BY <1>2, <2>1, TransferFromStep DEF Spend
<1>3. CASE SendMessage
  <2>1. PICK m \in Messages : Permit(m) \/ DelegateBySig(m) BY <1>3 DEF SendMessage
  <2>2. CASE Permit(m) BY <2>2, MessageType, ApproveStep DEF Permit
  <2>3. CASE DelegateBySig(m) BY <2>3, MessageType, DelegateStep DEF DelegateBySig
  <2> QED BY <2>1, <2>2, <2>3
<1>4. ASSUME NEW s \in Accounts, NEW to \in Accounts, NEW n \in Amounts,
             Transfer(s, to, n) \/ Mint(s, to, n)
      PROVE  HistoriesWritten /\ PlainType' /\ block' = block
  BY <1>4, TransactionStep DEF Step
<1>5. ASSUME NEW s \in Accounts, Administering(s)
      PROVE  HistoriesWritten /\ PlainType' /\ block' = block
  BY <1>5, AdminStep
<1> QED BY <1>1, <1>2, <1>3, <1>4, <1>5 DEF SpendingNext

LEMMA TokenKeeps ==
  ASSUME IInv, [SpendingNext]_spendingVars
  PROVE  IInv'
<1>1. CASE SpendingNext
  <2>1. CASE Mine BY <2>1, NextBlockKeeps DEF Mine, NextBlock
  <2>2. CASE HistoriesWritten /\ PlainType' /\ block' = block BY <2>2, TransactionKeeps
  <2> QED BY <1>1, <2>1, <2>2, SpendingIsTransaction DEF IInv
<1>2. CASE UNCHANGED spendingVars
  <2>1. UNCHANGED tokenVars BY <1>2 DEF spendingVars
  <2> QED BY <2>1, NextKeeps
<1> QED BY <1>1, <1>2

--------------------------------------------------------------------------------
(* The ledger of grants and spending *)

(* A step's effect on allowances and the ledger, by its kind. *)
LEMMA LedgerSteps ==
  ASSUME [SpendingNext]_spendingVars
  PROVE  \/ UNCHANGED <<allowances, granted, spent>>
         \/ GrantedNow /\ UNCHANGED spent
         \/ \E owner, spender, to \in Accounts, n \in Amounts : Spend(spender, owner, to, n)
<1>1. ASSUME NEW s \in Accounts,
             \/ \E to \in Accounts, n \in Amounts : Transfer(s, to, n) \/ Mint(s, to, n)
             \/ Administering(s)
      PROVE  UNCHANGED allowances
  BY <1>1 DEF Transfer, Mint, BatchMint, Administering, Pause, Unpause, GrantRole,
     RevokeRole, RenounceRole, erc20Vars
<1>2. Mine => UNCHANGED allowances BY DEF Mine, erc20Vars
<1>3. CASE UNCHANGED spendingVars
  BY <1>3 DEF spendingVars, tokenVars, erc20Vars
<1> QED BY <1>1, <1>2, <1>3, SpendingAssumption DEF SpendingNext, Allow, SendMessage

LEMMA GrantKeeps ==
  ASSUME TypeOK, TypeOK', LedgerType, Covered, GrantedNow, UNCHANGED spent
  PROVE  Covered' /\ (granted \in [Accounts -> [Accounts -> Nat]])'
<1>1. ASSUME NEW o \in Accounts, NEW s \in Accounts
      PROVE  /\ allowances[o][s] \in Nat /\ allowances'[o][s] \in Nat
             /\ granted[o][s] \in Nat /\ spent[o][s] \in Nat
             /\ granted'[o][s] = granted[o][s] +
                  (IF allowances'[o][s] > allowances[o][s]
                   THEN allowances'[o][s] - allowances[o][s] ELSE 0)
  <2>1. allowances[o][s] \in Nat /\ allowances'[o][s] \in Nat BY DEF TypeOK, Uint256
  <2>2. granted[o][s] \in Nat /\ spent[o][s] \in Nat BY DEF LedgerType
  <2> QED BY <2>1, <2>2 DEF GrantedNow, Increase
<1>2. ASSUME NEW o \in Accounts, NEW s \in Accounts
      PROVE  /\ allowances'[o][s] <= granted'[o][s] /\ granted'[o][s] \in Nat
             /\ granted'[o][s] < MaxUint256
                  => spent'[o][s] + allowances'[o][s] <= granted'[o][s]
  <2>1. /\ allowances[o][s] <= granted[o][s]
        /\ granted[o][s] < MaxUint256
             => spent[o][s] + allowances[o][s] <= granted[o][s]
    BY DEF Covered
  <2>2. MaxUint256 \in Nat BY TokenAssumption
  <2> QED BY <1>1, <2>1, <2>2
<1>3. granted' \in [Accounts -> [Accounts -> Nat]]
  <2>1. granted' = [o \in Accounts |-> [s \in Accounts |-> granted'[o][s]]]
    BY DEF GrantedNow
  <2> QED BY <1>2, <2>1
<1> QED BY <1>2, <1>3 DEF Covered

LEMMA SpendKeeps ==
  ASSUME TypeOK, LedgerType, Covered, NEW owner \in Accounts, NEW spender \in Accounts,
         NEW to \in Accounts, NEW n \in Amounts, Spend(spender, owner, to, n)
  PROVE  Covered' /\ (spent \in [Accounts -> [Accounts -> Nat]])'
<1>0. n \in Nat /\ MaxUint256 \in Nat BY TokenAssumption
<1> DEFINE allowed == allowances[owner][spender]
<1>1. allowed \in Nat /\ allowances \in [Accounts -> [Accounts -> Uint256]]
  BY DEF TypeOK, Uint256
<1>2. spent \in [Accounts -> [Accounts -> Nat]] /\ spent[owner][spender] + n \in Nat
  <2>1. spent \in [Accounts -> [Accounts -> Nat]] BY DEF LedgerType
  <2>2. spent[owner][spender] \in Nat BY <2>1
  <2> QED BY <1>0, <2>1, <2>2
<1>3. /\ spent' = [spent EXCEPT ![owner][spender] = @ + n]
      /\ UNCHANGED granted
      /\ \/ allowed = MaxUint256 /\ UNCHANGED allowances
         \/ /\ allowed >= n
            /\ allowances' = [allowances EXCEPT ![owner][spender] = allowed - n]
  BY DEF Spend, TransferFrom, SetAllowance
<1>4. spent' \in [Accounts -> [Accounts -> Nat]] BY <1>2, <1>3
<1>5. ASSUME NEW o \in Accounts, NEW s \in Accounts
      PROVE  /\ allowances'[o][s] <= granted'[o][s]
             /\ granted'[o][s] < MaxUint256
                  => spent'[o][s] + allowances'[o][s] <= granted'[o][s]
  <2>1. /\ allowances[o][s] <= granted[o][s]
        /\ granted[o][s] < MaxUint256
             => spent[o][s] + allowances[o][s] <= granted[o][s]
    BY DEF Covered
  <2>2. granted[o][s] \in Nat /\ spent[o][s] \in Nat /\ allowances[o][s] \in Nat
    BY DEF LedgerType, TypeOK, Uint256
  <2>3. CASE ~(o = owner /\ s = spender)
    <3>1. spent'[o][s] = spent[o][s] BY <1>2, <1>3, <2>3
    <3>2. allowances'[o][s] = allowances[o][s] BY <1>1, <1>3, <2>3
    <3> QED BY <1>3, <2>1, <3>1, <3>2
  <2>4. CASE o = owner /\ s = spender
    <3>1. spent'[o][s] = spent[o][s] + n BY <1>2, <1>3, <2>4
    <3>2. CASE allowed = MaxUint256 /\ UNCHANGED allowances
      BY <1>0, <1>3, <2>1, <2>2, <2>4, <3>2
    <3>3. CASE allowed >= n
               /\ allowances' = [allowances EXCEPT ![owner][spender] = allowed - n]
      <4>1. allowances'[o][s] = allowances[o][s] - n BY <1>1, <2>4, <3>3
      <4> QED BY <1>0, <1>3, <2>1, <2>2, <2>4, <3>1, <3>3, <4>1
    <3> QED BY <1>3, <3>2, <3>3
  <2> QED BY <2>3, <2>4
<1> QED BY <1>4, <1>5 DEF Covered

--------------------------------------------------------------------------------
(* Signatures *)

(* A step uses one message that was signed with its signer's next nonce, in time, *)
(* or none.                                                                       *)
SendsMessage(m) ==
  /\ block <= m.deadline
  /\ UseNonce(m.signer, m.nonce)
  /\ Use(m)

LEMMA MessageSteps ==
  ASSUME [SpendingNext]_spendingVars
  PROVE  UNCHANGED <<nonces, uses>> \/ \E m \in Messages : SendsMessage(m)
BY DEF SpendingNext, Allow, Spend, SendMessage, Permit, DelegateBySig, SendsMessage,
       spendingVars

LEMMA MessageKeeps ==
  ASSUME TypeOK, LedgerType, CountedOnce, NEW m \in Messages, SendsMessage(m)
  PROVE  CountedOnce' /\ (/\ nonces \in [Accounts -> Nat]
                          /\ uses \in [Messages -> Seq(Nat)])'
<1>0. m.signer \in Accounts /\ m.nonce \in Nat /\ m.deadline \in Nat BY MessageType
<1>1. nonces \in [Accounts -> Nat] /\ uses \in [Messages -> Seq(Nat)] /\ block \in Nat
  BY DEF LedgerType, TypeOK
<1>2. /\ nonces[m.signer] = m.nonce
      /\ nonces' = [nonces EXCEPT ![m.signer] = @ + 1]
      /\ uses' = [uses EXCEPT ![m] = Append(@, block)]
      /\ block <= m.deadline
  BY DEF SendsMessage, UseNonce, Use
<1>3. uses[m] = <<>>
  BY <1>0, <1>2 DEF CountedOnce
<1>4. uses'[m] = Append(<<>>, block) /\ \A x \in Messages : x # m => uses'[x] = uses[x]
  BY <1>1, <1>2, <1>3
<1>5. uses'[m] # <<>> /\ Len(uses'[m]) = 1 /\ uses'[m][1] = block BY <1>1, <1>4
<1>6. /\ nonces'[m.signer] = m.nonce + 1
      /\ \A a \in Accounts : a # m.signer => nonces'[a] = nonces[a]
      /\ \A a \in Accounts : nonces[a] \in Nat
  BY <1>0, <1>1, <1>2
<1>7. nonces' \in [Accounts -> Nat]
  <2>1. nonces[m.signer] + 1 \in Nat BY <1>0, <1>6
  <2> QED BY <1>1, <1>2, <2>1
<1>8. uses' \in [Messages -> Seq(Nat)]
  <2>1. Append(uses[m], block) \in Seq(Nat) BY <1>1
  <2> QED BY <1>1, <1>2, <2>1
<1>9. ASSUME NEW x \in Messages, uses'[x] # <<>>
      PROVE  Len(uses'[x]) = 1 /\ uses'[x][1] <= x.deadline /\ x.nonce < nonces'[x.signer]
  <2>1. CASE x = m BY <1>0, <1>2, <1>5, <1>6, <2>1
  <2>2. CASE x # m
    <3>1. uses[x] # <<>> /\ uses'[x] = uses[x] BY <1>4, <1>9, <2>2
    <3>2. Len(uses[x]) = 1 /\ uses[x][1] <= x.deadline /\ x.nonce < nonces[x.signer]
      BY <3>1 DEF CountedOnce
    <3>3. x.signer \in Accounts /\ x.nonce \in Nat BY MessageType
    <3>4. x.nonce < nonces'[x.signer] BY <1>0, <1>2, <1>6, <3>2, <3>3
    <3> QED BY <3>1, <3>2, <3>4
  <2> QED BY <2>1, <2>2
<1>10. ASSUME NEW m1 \in Messages, NEW m2 \in Messages,
              m1.signer = m2.signer, m1.nonce = m2.nonce, m1 # m2
       PROVE  uses'[m1] = <<>> \/ uses'[m2] = <<>>
  <2>1. \A x \in Messages : x # m /\ x.signer = m.signer /\ x.nonce = m.nonce
                              => uses[x] = <<>>
    BY <1>0, <1>2 DEF CountedOnce
  <2>2. CASE m1 = m BY <1>4, <1>10, <2>1, <2>2
  <2>3. CASE m2 = m BY <1>4, <1>10, <2>1, <2>3
  <2>4. CASE m1 # m /\ m2 # m BY <1>4, <1>10, <2>4 DEF CountedOnce
  <2> QED BY <2>2, <2>3, <2>4
<1>11. ASSUME NEW a \in Accounts
       PROVE  IsFiniteSet(UsedBy(a)') /\ nonces'[a] = Cardinality(UsedBy(a)')
  <2>1. IsFiniteSet(UsedBy(a)) /\ nonces[a] = Cardinality(UsedBy(a)) BY DEF CountedOnce
  <2>2. CASE a = m.signer
    <3>1. UsedBy(a)' = UsedBy(a) \cup {m} BY <1>4, <1>5, <2>2 DEF UsedBy
    <3>2. m \notin UsedBy(a) BY <1>3 DEF UsedBy
    <3>3. IsFiniteSet(UsedBy(a) \cup {m})
          /\ Cardinality(UsedBy(a) \cup {m}) = Cardinality(UsedBy(a)) + 1
      BY <2>1, <3>2, FS_AddElement
    <3> QED BY <1>2, <1>6, <2>1, <2>2, <3>1, <3>3
  <2>3. CASE a # m.signer
    <3>1. UsedBy(a)' = UsedBy(a) BY <1>4, <2>3 DEF UsedBy
    <3> QED BY <1>6, <2>1, <2>3, <3>1
  <2> QED BY <2>2, <2>3
<1> QED BY <1>7, <1>8, <1>9, <1>10, <1>11 DEF CountedOnce

--------------------------------------------------------------------------------
(* The invariant *)

LEMMA InitSInv == SpendingInit => SInv
<1> SUFFICES ASSUME SpendingInit PROVE SInv
  OBVIOUS
<1>1. Init BY DEF SpendingInit
<1>2. IInv BY <1>1, InitIInv
<1>3. allowances = [a \in Accounts |-> [s \in Accounts |-> 0]] BY <1>1 DEF Init
<1>4. LedgerType BY <1>3 DEF SpendingInit, LedgerType
<1>5. \A o, s \in Accounts : /\ allowances[o][s] = 0 /\ granted[o][s] = 0
                             /\ spent[o][s] = 0
  BY <1>3 DEF SpendingInit
<1>6. Covered BY <1>5 DEF Covered
<1>7. \A a : UsedBy(a) = {} BY DEF SpendingInit, UsedBy
<1>8. CountedOnce BY <1>7, FS_EmptySet DEF SpendingInit, CountedOnce
<1> QED BY <1>2, <1>4, <1>6, <1>8 DEF SInv

LEMMA SpendingKeeps == SInv /\ [SpendingNext]_spendingVars => SInv'
<1> SUFFICES ASSUME SInv, [SpendingNext]_spendingVars PROVE SInv'
  OBVIOUS
<1>1. IInv' BY TokenKeeps DEF SInv
<1>2. TypeOK /\ TypeOK' BY <1>1 DEF SInv, IInv
<1>3. LedgerType /\ Covered /\ CountedOnce BY DEF SInv
<1>4. Covered' /\ (/\ granted \in [Accounts -> [Accounts -> Nat]]
                   /\ spent \in [Accounts -> [Accounts -> Nat]])'
  <2>1. CASE UNCHANGED <<allowances, granted, spent>>
    BY <1>3, <2>1 DEF Covered, LedgerType
  <2>2. CASE GrantedNow /\ UNCHANGED spent
    BY <1>2, <1>3, <2>2, GrantKeeps DEF LedgerType
  <2>3. CASE \E owner, spender, to \in Accounts, n \in Amounts :
               Spend(spender, owner, to, n)
    <3>1. UNCHANGED granted BY <2>3 DEF Spend
    <3> QED BY <1>2, <1>3, <2>3, <3>1, SpendKeeps DEF LedgerType
  <2> QED BY <2>1, <2>2, <2>3, LedgerSteps
<1>5. CountedOnce' /\ (nonces \in [Accounts -> Nat] /\ uses \in [Messages -> Seq(Nat)])'
  <2>1. CASE UNCHANGED <<nonces, uses>>
    BY <1>3, <2>1 DEF CountedOnce, UsedBy, LedgerType
  <2>2. CASE \E m \in Messages : SendsMessage(m) BY <1>2, <1>3, <2>2, MessageKeeps
  <2> QED BY <2>1, <2>2, MessageSteps
<1> QED BY <1>1, <1>4, <1>5 DEF SInv, LedgerType

LEMMA SpendingInvariance == SpendingSpec => []SInv
<1>1. SpendingInit => SInv BY InitSInv
<1>2. SInv /\ [SpendingNext]_spendingVars => SInv' BY SpendingKeeps
<1> QED BY <1>1, <1>2, PTL DEF SpendingSpec

--------------------------------------------------------------------------------
(* Theorems *)

(* The token keeps its type also with what is signed for others to send.        *)
THEOREM SpendingTypeCorrect == SpendingSpec => []TypeOK
<1>1. SInv => TypeOK BY DEF SInv, IInv
<1> QED BY <1>1, SpendingInvariance, PTL

(* A spender never moves, nor may still move, more than the owner allowed it in *)
(* all, unless that may have been the unlimited allowance (_spendAllowance).     *)
THEOREM SpendingIsCovered == SpendingSpec => []SpentWithinGranted
<1>1. SInv => SpentWithinGranted BY DEF SInv, Covered, SpentWithinGranted
<1> QED BY <1>1, SpendingInvariance, PTL

(* A signed message takes effect at most once and in time, of several with one   *)
(* nonce only one, and the nonce counts those that did (_useNonce).              *)
THEOREM SignaturesAreUsedOnce == SpendingSpec => []SignaturesCountOnce
<1>1. SInv => SignaturesCountOnce
  <2> SUFFICES ASSUME SInv PROVE SignaturesCountOnce
    OBVIOUS
  <2>1. ASSUME NEW m \in Messages
        PROVE  Len(uses[m]) <= 1 /\ \A i \in 1..Len(uses[m]) : uses[m][i] <= m.deadline
    <3>1. CASE uses[m] = <<>> BY <3>1
    <3>2. CASE uses[m] # <<>>
      <4>1. Len(uses[m]) = 1 /\ uses[m][1] <= m.deadline BY <3>2 DEF SInv, CountedOnce
      <4> QED BY <4>1
    <3> QED BY <3>1, <3>2
  <2> QED BY <2>1 DEF SInv, CountedOnce, UsedBy, SignaturesCountOnce
<1> QED BY <1>1, SpendingInvariance, PTL

(* Without minters and administrators the supply is fixed for ever: no sequence  *)
(* of grants, revocations and renunciations brings either back.                  *)
THEOREM LostRolesStayLost == SpendingSpec => SupplyFixedWithoutMinters
<1>1. SInv /\ [SpendingNext]_spendingVars
        => [NobodyMints => NobodyMints' /\ UNCHANGED totalSupply]_tokenVars
  <2> SUFFICES ASSUME SInv, [SpendingNext]_spendingVars, NobodyMints
               PROVE  NobodyMints' /\ UNCHANGED totalSupply
    OBVIOUS
  <2>1. tokenRoles \in [TokenRoles -> SUBSET Accounts] BY DEF SInv, IInv, TypeOK
  <2>2. \A s : ~HasRole(tokenRoles, "MINTER", s) /\ ~HasRole(tokenRoles, "DEFAULT_ADMIN", s)
    BY DEF NobodyMints, HasRole
  <2>3. CASE UNCHANGED <<tokenRoles, totalSupply>> BY <2>3 DEF NobodyMints
  <2>4. ASSUME NEW s \in Accounts, Administering(s)
        PROVE  NobodyMints' /\ UNCHANGED totalSupply
    <3>1. CASE Pause(s) \/ Unpause(s)
      BY <2>3, <3>1 DEF Pause, Unpause, erc20Vars
    <3>2. ASSUME NEW rc \in RoleChanges, RenounceRole(s, rc[1])
          PROVE  NobodyMints' /\ UNCHANGED totalSupply
      <4>1. tokenRoles' = [tokenRoles EXCEPT ![rc[1]] = @ \ {s}]
        BY <3>2 DEF RenounceRole, Revoked
      <4>2. "MINTER" \in TokenRoles /\ "DEFAULT_ADMIN" \in TokenRoles BY DEF TokenRoles
      <4> QED BY <2>1, <3>2, <4>1, <4>2 DEF RenounceRole, erc20Vars, NobodyMints
    <3> QED BY <2>2, <2>4, <3>1, <3>2 DEF Administering, GrantRole, RevokeRole
  <2>5. CASE UNCHANGED spendingVars
    BY <2>3, <2>5 DEF spendingVars, tokenVars, erc20Vars
  <2>6. ASSUME NEW owner \in Owners, Allow(owner) PROVE UNCHANGED <<tokenRoles, totalSupply>>
    BY <2>6 DEF Allow, Allowing, Approve, IncreaseAllowance, DecreaseAllowance
  <2>7. ASSUME NEW owner, NEW spender, NEW to, NEW n, Spend(spender, owner, to, n)
        PROVE  UNCHANGED <<tokenRoles, totalSupply>>
    BY <2>7 DEF Spend, TransferFrom, TransferTokens
  <2>8. SendMessage => UNCHANGED <<tokenRoles, totalSupply>>
    BY DEF SendMessage, Permit, DelegateBySig, Approve, Delegate, erc20Vars
  <2>9. ASSUME NEW s \in Accounts, NEW to, NEW n, Transfer(s, to, n) \/ Mint(s, to, n)
        PROVE  UNCHANGED <<tokenRoles, totalSupply>>
    BY <2>2, <2>9 DEF Transfer, TransferTokens, Mint, BatchMint
  <2>10. Mine => UNCHANGED <<tokenRoles, totalSupply>> BY DEF Mine, erc20Vars
  <2> QED BY <2>3, <2>4, <2>5, <2>6, <2>7, <2>8, <2>9, <2>10 DEF SpendingNext
<1> QED BY <1>1, SpendingInvariance, PTL DEF SpendingSpec, SupplyFixedWithoutMinters

(* While the token is paused nothing moves, by whatever way (_afterTokenTransfer). *)
THEOREM PauseIsComplete == SpendingSpec => PauseFreezesTokens
<1>1. [SpendingNext]_spendingVars
        => [tokenPaused => UNCHANGED <<balances, totalSupply>>]_tokenVars
  <2> SUFFICES ASSUME [SpendingNext]_spendingVars, tokenPaused
               PROVE  UNCHANGED <<balances, totalSupply>>
    OBVIOUS
  <2>1. CASE UNCHANGED spendingVars BY <2>1 DEF spendingVars, tokenVars, erc20Vars
  <2>2. ASSUME NEW owner \in Owners, Allow(owner) PROVE UNCHANGED <<balances, totalSupply>>
    BY <2>2 DEF Allow, Allowing, Approve, IncreaseAllowance, DecreaseAllowance
  <2>3. ASSUME NEW owner, NEW spender, NEW to, NEW n PROVE ~Spend(spender, owner, to, n)
    BY DEF Spend, TransferFrom, TransferTokens
  <2>4. SendMessage => UNCHANGED <<balances, totalSupply>>
    BY DEF SendMessage, Permit, DelegateBySig, Approve, Delegate, erc20Vars
  <2>5. ASSUME NEW s, NEW to, NEW n PROVE ~Transfer(s, to, n) /\ ~Mint(s, to, n)
    BY DEF Transfer, TransferTokens, Mint, BatchMint
  <2>6. ASSUME NEW s \in Accounts, Administering(s) PROVE UNCHANGED <<balances, totalSupply>>
    BY <2>6 DEF Administering, Pause, Unpause, GrantRole, RevokeRole, RenounceRole, erc20Vars
  <2>7. Mine => UNCHANGED <<balances, totalSupply>> BY DEF Mine, erc20Vars
  <2> QED BY <2>1, <2>2, <2>3, <2>4, <2>5, <2>6, <2>7 DEF SpendingNext
<1> QED BY <1>1, PTL DEF SpendingSpec, PauseFreezesTokens

--------------------------------------------------------------------------------
(* The token beside signatures and spending.  A step is one of the token's own, *)
(* or a permit, whose amount is whatever was signed.                             *)

LEMMA SpendingSteps ==
  ASSUME [SpendingNext]_spendingVars
  PROVE  \/ [Next]_tokenVars
         \/ \E m \in Messages : Approve(m.signer, m.to, m.value)
<1>1. ASSUME NEW owner \in Owners, Allow(owner) PROVE Next
  <2>1. owner \in Accounts /\ Step(owner) BY <1>1, SpendingAssumption DEF Allow, Step
  <2> QED BY <2>1 DEF Next
<1>2. ASSUME NEW owner \in Owners, NEW spender \in Accounts, NEW to \in Accounts,
             NEW n \in Amounts, Spend(spender, owner, to, n)
      PROVE  Next
  <2>1. owner \in Accounts BY SpendingAssumption
  <2>2. Step(spender) BY <1>2, <2>1 DEF Spend, Step
  <2> QED BY <2>2 DEF Next
<1>3. ASSUME NEW m \in Messages, DelegateBySig(m) PROVE Next
  <2>1. m.signer \in Accounts /\ m.to \in Accounts BY MessageType
  <2>2. Step(m.signer) BY <1>3, <2>1 DEF DelegateBySig, Step
  <2> QED BY <2>1, <2>2 DEF Next
<1>4. ASSUME NEW s \in Accounts,
             \/ \E to \in Accounts, n \in Amounts : Transfer(s, to, n) \/ Mint(s, to, n)
             \/ Administering(s)
      PROVE  Next
  <2>1. Step(s) BY <1>4 DEF Step
  <2> QED BY <2>1 DEF Next
<1>5. ASSUME NEW m \in Messages, Permit(m) PROVE Approve(m.signer, m.to, m.value)
  BY <1>5 DEF Permit
<1>6. Mine => Next BY DEF Next
<1>7. UNCHANGED spendingVars => UNCHANGED tokenVars BY DEF spendingVars
<1> QED BY <1>1, <1>2, <1>3, <1>4, <1>5, <1>6, <1>7 DEF SpendingNext, SendMessage

(* The inductive invariant of balances, votes and their past. *)
LInv == PInv /\ HistoriesSorted

LEMMA PermitKeeps ==
  ASSUME LInv, NEW m \in Messages, Approve(m.signer, m.to, m.value)
  PROVE  LInv'
<1>1. TypeOK /\ IInv /\ AccountsBalance BY DEF LInv, PInv, IInv
<1>2. HistoriesWritten /\ PlainType' /\ block' = block
  BY <1>1, MessageType, ApproveStep
<1>3. IInv' BY <1>1, <1>2, TransactionKeeps
<1>4. AccountsBalance' BY <1>1, OthersBalance DEF Approve, votesVars
<1>5. PastVotesWithinPastSupply' BY <1>2, TransactionKeepsPast DEF LInv
<1>6. HistoriesSorted' BY DEF LInv, HistoriesSorted, Approve, votesVars
<1> QED BY <1>3, <1>4, <1>5, <1>6 DEF LInv, PInv

LEMMA LedgerKeeps == LInv /\ [SpendingNext]_spendingVars => LInv'
<1>1. LInv /\ [Next]_tokenVars => LInv'
  <2>1. IInv /\ HistoriesSorted /\ [Next]_tokenVars => HistoriesSorted' BY SortedKeeps
  <2> QED BY <2>1, PastKeeps DEF LInv, PInv
<1> QED BY <1>1, PermitKeeps, SpendingSteps

(* Balances, supply and votes agree, no transfer lacks votes, the votes of a     *)
(* mined block are within its supply and histories are in order also with        *)
(* permits and delegations that others send and with tokens that others move.    *)
THEOREM SpendingConserves ==
  SpendingSpec => [](/\ SupplyIsSumOfBalances /\ VotesAreDelegatedBalances
                     /\ VotesNeverBlockTransfers /\ PastVotesWithinPastSupply
                     /\ CheckpointsInOrder)
<1>1. SpendingInit => LInv
  <2>1. Init => HistoriesSorted BY DEF Init, HistoriesSorted, Sorted
  <2> QED BY <2>1, PastBegins DEF SpendingInit, LInv
<1>2. LInv /\ [SpendingNext]_spendingVars => LInv' BY LedgerKeeps
<1>3. LInv => /\ SupplyIsSumOfBalances /\ VotesAreDelegatedBalances
              /\ VotesNeverBlockTransfers /\ PastVotesWithinPastSupply
              /\ CheckpointsInOrder
  <2> SUFFICES ASSUME LInv
               PROVE  /\ SupplyIsSumOfBalances /\ VotesAreDelegatedBalances
                      /\ VotesNeverBlockTransfers /\ PastVotesWithinPastSupply
                      /\ CheckpointsInOrder
    OBVIOUS
  <2>1. IInv /\ AccountsBalance /\ PastVotesWithinPastSupply /\ HistoriesSorted
    BY DEF LInv, PInv
  <2>2. VotesNeverBlockTransfers BY <2>1, MovesAreCovered DEF IInv
  <2>3. CheckpointsInOrder
    BY <2>1 DEF IInv, HistoriesUpTo, UpTo, HistoriesSorted, CheckpointsInOrder
  <2> QED BY <2>1, <2>2, <2>3 DEF AccountsBalance
<1> QED BY <1>1, <1>2, <1>3, PTL DEF SpendingSpec

(* And the history that a governor relies on stays one that is never rewritten,  *)
(* whoever sends the transactions that move votes (delegateBySig, transferFrom). *)
THEOREM SpendingKeepsHistory == SpendingSpec => HistorySpec
<1>1. SpendingInit => SInv BY InitSInv
<1>2. SInv /\ [SpendingNext]_spendingVars => SInv' BY SpendingKeeps
<1>3. SpendingInit => History!Init
  <2>1. Init => IInv /\ block = 1 BY InitIInv DEF Init
  <2> QED BY <2>1, HistoryBegins DEF SpendingInit, IInv
<1>4. SInv /\ [SpendingNext]_spendingVars => [History!Next]_(History!historyVars)
  <2> SUFFICES ASSUME SInv, [SpendingNext]_spendingVars
               PROVE  [History!Next]_(History!historyVars)
    OBVIOUS
  <2>1. IInv /\ TypeOK BY DEF SInv, IInv
  <2>2. CASE Mine BY <2>1, <2>2, MineRecords DEF Mine, NextBlock, History!Next
  <2>3. CASE HistoriesWritten /\ PlainType' /\ block' = block
    BY <2>1, <2>3, TransactionMoves DEF History!Next
  <2>4. CASE UNCHANGED spendingVars
    BY <2>4 DEF spendingVars, tokenVars, votesVars, History!historyVars, Current, Ended,
                PastAt, GetVotes, GetPastVotes, GetPastTotalSupply
  <2> QED BY <2>1, <2>2, <2>3, <2>4, SpendingIsTransaction
<1> QED BY <1>1, <1>2, <1>3, <1>4, PTL DEF SpendingSpec, HistorySpec, History!Spec
================================================================================
