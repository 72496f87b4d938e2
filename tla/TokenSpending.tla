----------------------------- MODULE TokenSpending -----------------------------
(* The token with what its holders sign for others to send, permits and         *)
(* delegations, and with the history of its allowances: how far an owner has     *)
(* ever raised what a spender may spend, and what the spender has moved.         *)
(* Deadlines are blocks here, as good a clock as the timestamp of a block.       *)
EXTENDS PeachToken

CONSTANTS Owners,         \* accounts that allow others to spend
          Messages,       \* signed messages, for anyone to send at any time
          MaxGranted,     \* bound on what an owner allows a spender in all
          MaxSpent        \* bound on what a spender moves in all

Message == [kind : {"permit", "delegation"}, signer : Accounts, nonce : Nat,
            to : Accounts, value : Uint256, deadline : Nat]

ASSUME SpendingAssumption ==
  /\ Owners \subseteq Accounts /\ MaxGranted \in Nat /\ MaxSpent \in Nat
  /\ Messages \subseteq Message

VARIABLES nonces,         \* of each signer, one counter for permits and delegations
          uses,           \* history: blocks in which each message took effect
          granted, spent  \* histories: by owner and spender

spendingVars == <<tokenVars, nonces, uses, granted, spent>>

--------------------------------------------------------------------------------

(* Mutant: the nonce is not used up. *)
KeepNonce(signer, nonce) == nonces[signer] = nonce /\ UNCHANGED nonces

UseNonce(signer, nonce) ==
  /\ nonces[signer] = nonce
  /\ nonces' = [nonces EXCEPT ![signer] = @ + 1]

Use(m) == uses' = [uses EXCEPT ![m] = Append(@, block)]

(* The signature is of the owner's next nonce, or it yields another signer.     *)
Permit(m) ==
  /\ m.kind = "permit" /\ block <= m.deadline
  /\ UseNonce(m.signer, m.nonce)
  /\ Approve(m.signer, m.to, m.value)
  /\ Use(m)

DelegateBySig(m) ==
  /\ m.kind = "delegation" /\ block <= m.deadline
  /\ UseNonce(m.signer, m.nonce)
  /\ Delegate(m.signer, m.to)
  /\ Use(m)

--------------------------------------------------------------------------------
(* Transactions, with their histories *)

Increase(old, new) == IF new > old THEN new - old ELSE 0

GrantedNow ==
  /\ granted' = [o \in Accounts |-> [s \in Accounts |->
                   granted[o][s] + Increase(allowances[o][s], allowances'[o][s])]]
  /\ \A o, s \in Accounts : granted'[o][s] <= MaxGranted

Allow(owner) == Allowing(owner) /\ GrantedNow /\ UNCHANGED <<spent, nonces, uses>>

Spend(spender, owner, to, amount) ==
  /\ spent[owner][spender] + amount <= MaxSpent
  /\ TransferFrom(spender, owner, to, amount)
  /\ spent' = [spent EXCEPT ![owner][spender] = @ + amount]
  /\ UNCHANGED <<granted, nonces, uses>>

SendMessage ==
  /\ \E m \in Messages : Permit(m) \/ DelegateBySig(m)
  /\ GrantedNow /\ UNCHANGED spent

SpendingInit ==
  /\ Init
  /\ nonces = [a \in Accounts |-> 0] /\ uses = [m \in Messages |-> <<>>]
  /\ granted = allowances /\ spent = allowances

SpendingNext ==
  \/ \E owner \in Owners :
       \/ Allow(owner)
       \/ \E spender, to \in Accounts, n \in Amounts : Spend(spender, owner, to, n)
  \/ SendMessage
  \/ /\ \/ \E s \in Accounts :
             \/ \E to \in Accounts, n \in Amounts : Transfer(s, to, n) \/ Mint(s, to, n)
             \/ Administering(s)
        \/ Mine
     /\ UNCHANGED <<nonces, uses, granted, spent>>

SpendingSpec == SpendingInit /\ [][SpendingNext]_spendingVars

--------------------------------------------------------------------------------
(* Properties *)

(* However approvals, permits, increases, decreases and transfers interleave, a *)
(* spender never moves, nor may still move, more of an owner's tokens than the   *)
(* owner allowed it in all, unless the allowance may have been the unlimited one *)
(* (_spendAllowance).                                                            *)
SpentWithinGranted ==
  \A owner, spender \in Accounts :
    granted[owner][spender] < MaxUint256 =>
      spent[owner][spender] + allowances[owner][spender] <= granted[owner][spender]

(* A signed message takes effect at most once and not after its deadline,       *)
(* whoever sends it, how often and how late; of two signed with the same nonce   *)
(* only one does, be they permits or delegations (_useNonce).                    *)
SignaturesCountOnce ==
  /\ \A m \in Messages : Len(uses[m]) <= 1 /\ \A i \in 1..Len(uses[m]) : uses[m][i] <= m.deadline
  /\ \A m1, m2 \in Messages :
       m1.signer = m2.signer /\ m1.nonce = m2.nonce /\ m1 # m2
         => uses[m1] = <<>> \/ uses[m2] = <<>>
  /\ \A a \in Accounts :
       nonces[a] = Cardinality({m \in Messages : m.signer = a /\ uses[m] # <<>>})
================================================================================
