------------------------- MODULE WasiAIEscrowProofs -------------------------
(***************************************************************************)
(* Proofs about WasiAIEscrow, for any keys, people, nonces, amounts,       *)
(* batch size and times: every key pays for itself, a nonce moves money    *)
(* once, the arbiter touches consented keys only, depositors are for ever, *)
(* withdrawals leave the lock, and -- if the operator keeps away from      *)
(* locked funds -- the lock is always covered.                             *)
(***************************************************************************)
EXTENDS WasiAIEscrow, TLAPS

USE PeopleAssumption, NumbersAssumption

LEMMA InitInv == Init => EscrowInv
<1> SUFFICES ASSUME Init PROVE EscrowInv
  OBVIOUS
<1>1. TypeOK
  BY DEF Init, TypeOK, Ledger
<1>2. KeyBooksBalance /\ UsesCounted /\ ArbitrationNeedsConsent
  BY DEF Init, KeyBooksBalance, UsesCounted, ArbitrationNeedsConsent
<1> QED
  BY <1>1, <1>2 DEF EscrowInv

\* Roles, signatures and the clock are not money.
LEMMA QuietKeepsInv ==
  ASSUME EscrowInv, UNCHANGED <<keyVars, flowVars>>,
         operator' \in People, arbiter' \in People \cup {NoOne},
         now' \in Nat, signed' \subseteq Signatures
  PROVE  EscrowInv'
<1>1. TypeOK'
  BY DEF EscrowInv, TypeOK, keyVars, flowVars
<1>2. KeyBooksBalance' /\ UsesCounted' /\ ArbitrationNeedsConsent'
  BY DEF EscrowInv, KeyBooksBalance, UsesCounted, ArbitrationNeedsConsent, keyVars, flowVars
<1> QED
  BY <1>1, <1>2 DEF EscrowInv

LEMMA ConsentKeepsInv ==
  ASSUME EscrowInv, NEW p \in People, NEW k \in Keys, SetArbitrationConsent(p, k)
  PROVE  EscrowInv'
<1>1. TypeOK'
  BY DEF EscrowInv, TypeOK, SetArbitrationConsent, roleVars, flowVars
<1>2. KeyBooksBalance' /\ UsesCounted' /\ ArbitrationNeedsConsent'
  BY DEF EscrowInv, KeyBooksBalance, UsesCounted, ArbitrationNeedsConsent, SetArbitrationConsent,
         flowVars
<1> QED
  BY <1>1, <1>2 DEF EscrowInv

LEMMA DepositKeepsInv ==
  ASSUME EscrowInv, NEW p \in People, NEW k \in Keys, NEW amount \in Amounts, Deposit(p, k, amount)
  PROVE  EscrowInv'
<1>0. amount \in Nat
  OBVIOUS
<1>1. TypeOK'
  BY <1>0 DEF EscrowInv, TypeOK, Ledger, Deposit, Funded, roleVars
<1>2. KeyBooksBalance'
  BY <1>0 DEF EscrowInv, TypeOK, Ledger, KeyBooksBalance, Deposit, Funded
<1>3. UsesCounted' /\ ArbitrationNeedsConsent'
  BY DEF EscrowInv, UsesCounted, ArbitrationNeedsConsent, Deposit
<1> QED
  BY <1>1, <1>2, <1>3 DEF EscrowInv

\* What a batch takes is covered, key by key, and its nonces were unused.
LEMMA DebitFacts ==
  ASSUME EscrowInv, NEW p \in People, NEW batch \in SUBSET {s[2] : s \in signed},
         DebitBatch(p, batch), NEW k \in Keys
  PROVE  /\ Due(batch, k) \in Nat /\ Due(batch, k) <= balances[k]
         /\ balances'[k] = balances[k] - Due(batch, k)
         /\ toOperator'[k] = toOperator[k] + Due(batch, k)
<1>1. /\ Due(batch, k) \in 0 .. balances[k]
      /\ balances'[k] = balances[k] - Due(batch, k)
      /\ toOperator'[k] = toOperator[k] + Due(batch, k)
  BY DEF DebitBatch, Covered
<1>2. balances[k] \in Nat /\ lockedAmount[k] \in Nat
  BY DEF EscrowInv, TypeOK, Ledger
<1> QED
  BY <1>1, <1>2

LEMMA DebitKeepsInv ==
  ASSUME EscrowInv, NEW p \in People, NEW batch \in SUBSET {s[2] : s \in signed},
         DebitBatch(p, batch)
  PROVE  EscrowInv'
<1> DEFINE spent == {<<a.keyId, a.nonce>> : a \in batch}
<1>0. /\ usedNonces' = usedNonces \cup spent
      /\ uses' = [u \in Keys \X Nonces |->
                    IF \E a \in batch : u = <<a.keyId, a.nonce>> THEN uses[u] + 1 ELSE uses[u]]
      /\ UNCHANGED <<depositor, lockedAmount, consent, roleVars, now, signed,
                     deposited, toOwner, toSeller>>
      /\ DOMAIN balances' = Keys /\ DOMAIN toOperator' = Keys
      /\ balances' = [k \in Keys |-> balances'[k]]
      /\ toOperator' = [k \in Keys |-> toOperator'[k]]
  BY DEF DebitBatch
<1>1. \A a \in batch : a \in Authorizations /\ Unused(a.keyId, a.nonce)
  <2> SUFFICES ASSUME NEW a \in batch PROVE a \in Authorizations /\ Unused(a.keyId, a.nonce)
    OBVIOUS
  <2>1. PICK s \in signed : a = s[2]
    OBVIOUS
  <2> QED
    BY <2>1 DEF EscrowInv, TypeOK, Signatures, DebitBatch, Valid
<1>2. \A k \in Keys :
        /\ Due(batch, k) \in Nat /\ Due(batch, k) <= balances[k]
        /\ balances'[k] = balances[k] - Due(batch, k)
        /\ toOperator'[k] = toOperator[k] + Due(batch, k)
  BY DebitFacts
<1>3. TypeOK'
  <2>1. balances' \in Ledger /\ toOperator' \in Ledger
    <3>1. \A k \in Keys : balances'[k] \in Nat /\ toOperator'[k] \in Nat
      BY <1>2 DEF EscrowInv, TypeOK, Ledger
    <3> QED
      BY <1>0, <3>1 DEF Ledger
  <2>2. usedNonces' \subseteq Keys \X Nonces
    BY <1>0, <1>1 DEF EscrowInv, TypeOK, Authorizations
  <2>3. uses' \in [Keys \X Nonces -> Nat]
    BY <1>0 DEF EscrowInv, TypeOK
  <2> QED
    BY <1>0, <2>1, <2>2, <2>3 DEF EscrowInv, TypeOK, roleVars
<1>4. KeyBooksBalance'
  <2> SUFFICES ASSUME NEW k \in Keys
               PROVE  LET out == toOperator'[k] + toOwner'[k] + toSeller'[k]
                      IN  out <= deposited'[k] /\ balances'[k] + out = deposited'[k]
    BY DEF KeyBooksBalance
  <2>1. /\ balances[k] \in Nat /\ toOperator[k] \in Nat /\ toOwner[k] \in Nat
        /\ toSeller[k] \in Nat /\ deposited[k] \in Nat
        /\ balances[k] + (toOperator[k] + toOwner[k] + toSeller[k]) = deposited[k]
    BY DEF EscrowInv, TypeOK, Ledger, KeyBooksBalance
  <2> QED
    BY <1>0, <1>2, <2>1
<1>5. UsesCounted'
  <2> SUFFICES ASSUME NEW u \in Keys \X Nonces
               PROVE  uses'[u] = IF u \in usedNonces' THEN 1 ELSE 0
    BY DEF UsesCounted
  <2>1. CASE u \in spent
    <3>1. u \notin usedNonces
      BY <1>1, <2>1 DEF Unused
    <3>2. uses[u] = 0
      BY <3>1 DEF EscrowInv, UsesCounted
    <3> QED
      BY <1>0, <2>1, <3>2
  <2>2. CASE u \notin spent
    BY <1>0, <2>2 DEF EscrowInv, UsesCounted
  <2> QED
    BY <2>1, <2>2
<1>6. ArbitrationNeedsConsent'
  BY <1>0 DEF EscrowInv, ArbitrationNeedsConsent
<1> QED
  BY <1>3, <1>4, <1>5, <1>6 DEF EscrowInv

LEMMA WithdrawKeepsInv ==
  ASSUME EscrowInv, NEW p \in People, NEW k \in Keys, NEW amount \in Amounts, Withdraw(p, k, amount)
  PROVE  EscrowInv'
<1>0. /\ amount \in Nat /\ balances[k] \in Nat /\ lockedAmount[k] \in Nat /\ amount <= balances[k]
  BY DEF Withdraw, Available, EscrowInv, TypeOK, Ledger
<1>1. TypeOK'
  BY <1>0 DEF EscrowInv, TypeOK, Ledger, Withdraw, roleVars
<1>2. KeyBooksBalance'
  BY <1>0 DEF EscrowInv, TypeOK, Ledger, KeyBooksBalance, Withdraw
<1>3. UsesCounted' /\ ArbitrationNeedsConsent'
  BY DEF EscrowInv, UsesCounted, ArbitrationNeedsConsent, Withdraw
<1> QED
  BY <1>1, <1>2, <1>3 DEF EscrowInv

LEMMA LockKeepsInv ==
  ASSUME EscrowInv, NEW p \in People, NEW k \in Keys,
         ReleaseDispute(p, k) \/ \E amount \in Amounts : LockForDispute(p, k, amount)
  PROVE  EscrowInv'
<1>1. TypeOK'
  <2>1. CASE ReleaseDispute(p, k)
    BY <2>1 DEF ReleaseDispute, EscrowInv, TypeOK, Ledger, roleVars, flowVars
  <2>2. ASSUME NEW amount \in Amounts, LockForDispute(p, k, amount) PROVE TypeOK'
    <3>1. amount \in Nat /\ lockedAmount' = [lockedAmount EXCEPT ![k] = @ + amount]
      BY <2>2 DEF LockForDispute
    <3>2. lockedAmount' \in Ledger
      BY <3>1 DEF EscrowInv, TypeOK, Ledger
    <3> QED
      BY <2>2, <3>2 DEF LockForDispute, EscrowInv, TypeOK, roleVars, flowVars
  <2> QED
    BY <2>1, <2>2
<1>2. KeyBooksBalance' /\ UsesCounted'
  BY DEF EscrowInv, KeyBooksBalance, UsesCounted, LockForDispute, ReleaseDispute, flowVars
<1>3. ArbitrationNeedsConsent'
  BY DEF EscrowInv, TypeOK, Ledger, ArbitrationNeedsConsent, LockForDispute, ReleaseDispute, Consented,
         flowVars
<1> QED
  BY <1>1, <1>2, <1>3 DEF EscrowInv

LEMMA ResolveKeepsInv ==
  ASSUME EscrowInv, NEW p \in People, NEW k \in Keys, NEW amount \in Amounts, NEW n \in Nonces,
         ResolveDispute(p, k, amount, n)
  PROVE  EscrowInv'
<1>0. /\ amount \in Nat /\ amount <= balances[k] /\ balances[k] \in Nat
      /\ k \in consent /\ <<k, n>> \notin usedNonces
  BY DEF ResolveDispute, Consented, Unused, EscrowInv, TypeOK, Ledger
<1>1. TypeOK'
  BY <1>0 DEF EscrowInv, TypeOK, Ledger, ResolveDispute, LockAfter, roleVars
<1>2. KeyBooksBalance'
  BY <1>0 DEF EscrowInv, TypeOK, Ledger, KeyBooksBalance, ResolveDispute
<1>3. UsesCounted'
  <2> SUFFICES ASSUME NEW u \in Keys \X Nonces
               PROVE  uses'[u] = IF u \in usedNonces' THEN 1 ELSE 0
    BY DEF UsesCounted
  <2>1. CASE u = <<k, n>>
    BY <1>0, <2>1 DEF EscrowInv, TypeOK, UsesCounted, ResolveDispute
  <2>2. CASE u # <<k, n>>
    BY <2>2 DEF EscrowInv, TypeOK, UsesCounted, ResolveDispute
  <2> QED
    BY <2>1, <2>2
<1>4. ArbitrationNeedsConsent'
  BY <1>0 DEF EscrowInv, TypeOK, Ledger, ArbitrationNeedsConsent, ResolveDispute, LockAfter
<1> QED
  BY <1>1, <1>2, <1>3, <1>4 DEF EscrowInv

LEMMA NextKeepsInv == EscrowInv /\ [Next]_vars => EscrowInv'
<1> SUFFICES ASSUME EscrowInv, [Next]_vars PROVE EscrowInv'
  OBVIOUS
<1>1. CASE Governance
  BY <1>1, QuietKeepsInv DEF Governance, SetOperator, SetArbiter, EscrowInv, TypeOK
<1>2. CASE Debits
  BY <1>2, DebitKeepsInv DEF Debits
<1>3. CASE Tick
  BY <1>3, QuietKeepsInv DEF Tick, roleVars, EscrowInv, TypeOK
<1>4. ASSUME NEW p \in People, NEW a \in Authorizations, Sign(p, a) PROVE EscrowInv'
  <2>1. signed' \subseteq Signatures
    BY <1>4 DEF Sign, EscrowInv, TypeOK, Signatures
  <2> QED
    BY <1>4, <2>1, QuietKeepsInv DEF Sign, roleVars, EscrowInv, TypeOK
<1>5. ASSUME NEW p \in People, NEW k \in Keys, OnKey(p, k) PROVE EscrowInv'
  <2>1. CASE SetArbitrationConsent(p, k)
    BY <2>1, ConsentKeepsInv
  <2>2. CASE ReleaseDispute(p, k)
    BY <2>2, LockKeepsInv
  <2>3. ASSUME NEW amount \in Amounts, Deposit(p, k, amount) PROVE EscrowInv'
    BY <2>3, DepositKeepsInv
  <2>4. ASSUME NEW amount \in Amounts, Withdraw(p, k, amount) PROVE EscrowInv'
    BY <2>4, WithdrawKeepsInv
  <2>5. ASSUME NEW amount \in Amounts, LockForDispute(p, k, amount) PROVE EscrowInv'
    BY <2>5, LockKeepsInv
  <2>6. ASSUME NEW amount \in Amounts, NEW n \in Nonces, ResolveDispute(p, k, amount, n)
        PROVE  EscrowInv'
    BY <2>6, ResolveKeepsInv
  <2> QED
    BY <1>5, <2>1, <2>2, <2>3, <2>4, <2>5, <2>6 DEF OnKey
<1>6. CASE UNCHANGED vars
  BY <1>6, QuietKeepsInv DEF vars, roleVars, EscrowInv, TypeOK
<1> QED
  BY <1>1, <1>2, <1>3, <1>4, <1>5, <1>6 DEF Next

\* The books of every key, the record of used nonces and the consent the arbiter needs
\* are kept by every transaction.
THEOREM EscrowInvariant == Spec => []EscrowInv
<1> QED
  BY InitInv, NextKeepsInv, PTL DEF Spec

\* No key's money pays for another key.
THEOREM KeysPayForThemselves == Spec => []KeyBooksBalance
<1>1. EscrowInv => KeyBooksBalance
  BY DEF EscrowInv
<1> QED
  BY <1>1, EscrowInvariant, PTL

\* No replay: debit, debitBatch and resolveDispute share one set of nonces per key.
THEOREM NoReplay == Spec => []NonceMovesOnce
<1>1. EscrowInv => NonceMovesOnce
  BY DEF EscrowInv, UsesCounted, NonceMovesOnce
<1> QED
  BY <1>1, EscrowInvariant, PTL

\* The arbiter locks and pays out of consented keys only.
THEOREM ConsentRequired == Spec => []ArbitrationNeedsConsent
<1>1. EscrowInv => ArbitrationNeedsConsent
  BY DEF EscrowInv
<1> QED
  BY <1>1, EscrowInvariant, PTL

-----------------------------------------------------------------------------
\* One step never changes a depositor.
LEMMA DepositorStep ==
  EscrowInv /\ [Next]_vars =>
    \A k \in Keys : depositor[k] # NoOne => depositor'[k] = depositor[k]
<1> SUFFICES ASSUME EscrowInv, [Next]_vars, NEW k \in Keys, depositor[k] # NoOne
             PROVE  depositor'[k] = depositor[k]
  OBVIOUS
<1>1. ASSUME NEW p \in People, NEW q \in Keys, NEW amount \in Amounts, Deposit(p, q, amount)
      PROVE  depositor'[k] = depositor[k]
  <2>1. depositor' = [depositor EXCEPT ![q] = p] /\ depositor[q] \in {NoOne, p}
    BY <1>1 DEF Deposit, MayDeposit
  <2> QED
    BY <2>1 DEF EscrowInv, TypeOK
<1>2. CASE Governance \/ Debits \/ Tick \/ UNCHANGED vars
  BY <1>2 DEF Governance, SetOperator, SetArbiter, Debits, DebitBatch, Tick, vars, keyVars
<1>3. ASSUME NEW p \in People, NEW a \in Authorizations, Sign(p, a)
      PROVE  depositor'[k] = depositor[k]
  BY <1>3 DEF Sign, keyVars
<1>4. ASSUME NEW p \in People, NEW q \in Keys, OnKey(p, q)
      PROVE  depositor'[k] = depositor[k]
  BY <1>1, <1>4 DEF OnKey, SetArbitrationConsent, ReleaseDispute, Withdraw, LockForDispute,
                    ResolveDispute
<1> QED
  BY <1>2, <1>3, <1>4 DEF Next

\* The first depositor of a key stays its only one.
THEOREM DepositorFinal == Spec => DepositorIsForever
<1>1. EscrowInv /\ [Next]_vars
        => [\A k \in Keys : depositor[k] # NoOne => depositor'[k] = depositor[k]]_vars
  BY DepositorStep
<1> QED
  BY <1>1, EscrowInvariant, PTL DEF Spec, DepositorIsForever

\* One step: what a withdrawal leaves covers the lock.
LEMMA WithdrawStep ==
  EscrowInv /\ [Next]_vars =>
    \A k \in Keys : toOwner'[k] # toOwner[k] => lockedAmount'[k] <= balances'[k]
<1> SUFFICES ASSUME EscrowInv, [Next]_vars, NEW k \in Keys, toOwner'[k] # toOwner[k]
             PROVE  lockedAmount'[k] <= balances'[k]
  OBVIOUS
<1>1. PICK p \in People, q \in Keys, amount \in Amounts : Withdraw(p, q, amount)
  <2>1. ~Governance /\ ~Tick /\ ~UNCHANGED vars
    BY DEF Governance, SetOperator, SetArbiter, Tick, vars, flowVars
  <2>2. ~Debits
    BY DEF Debits, DebitBatch
  <2>3. \A p \in People, a \in Authorizations : ~Sign(p, a)
    BY DEF Sign, flowVars
  <2>4. PICK p \in People, q \in Keys : OnKey(p, q)
    BY <2>1, <2>2, <2>3 DEF Next
  <2>5. ~SetArbitrationConsent(p, q) /\ ~ReleaseDispute(p, q)
    BY DEF SetArbitrationConsent, ReleaseDispute, flowVars
  <2>6. \A amount \in Amounts :
          /\ ~Deposit(p, q, amount) /\ ~LockForDispute(p, q, amount)
          /\ \A n \in Nonces : ~ResolveDispute(p, q, amount, n)
    BY DEF Deposit, LockForDispute, ResolveDispute, flowVars
  <2> QED
    BY <2>4, <2>5, <2>6 DEF OnKey
<1>2. k = q
  BY <1>1 DEF Withdraw, EscrowInv, TypeOK, Ledger
<1>3. /\ amount \in Nat /\ amount + lockedAmount[k] <= balances[k]
      /\ balances'[k] = balances[k] - amount /\ lockedAmount'[k] = lockedAmount[k]
      /\ balances[k] \in Nat /\ lockedAmount[k] \in Nat
  BY <1>1, <1>2 DEF Withdraw, Available, EscrowInv, TypeOK, Ledger
<1> QED
  BY <1>3

\* A withdrawal never reaches into the lock, not even after a debit has.
THEOREM WithdrawalsSafe == Spec => WithdrawalsLeaveTheLock
<1>1. EscrowInv /\ [Next]_vars
        => [\A k \in Keys : toOwner'[k] # toOwner[k] => lockedAmount'[k] <= balances'[k]]_vars
  BY WithdrawStep
<1> QED
  BY <1>1, EscrowInvariant, PTL DEF Spec, WithdrawalsLeaveTheLock

-----------------------------------------------------------------------------
\* One step keeps a lock covered, unless the operator takes money of that key.
LEMMA LockStep ==
  EscrowInv /\ [Next]_vars =>
    \A k \in Keys : lockedAmount[k] <= balances[k] /\ toOperator'[k] = toOperator[k]
                      => lockedAmount'[k] <= balances'[k]
<1> SUFFICES ASSUME EscrowInv, [Next]_vars, NEW k \in Keys, lockedAmount[k] <= balances[k],
                    toOperator'[k] = toOperator[k]
             PROVE  lockedAmount'[k] <= balances'[k]
  OBVIOUS
<1>0. /\ balances[k] \in Nat /\ lockedAmount[k] \in Nat /\ toOperator[k] \in Nat
      /\ lockedAmount[k] <= balances[k]
  BY DEF EscrowInv, TypeOK, Ledger
<1>1. CASE Governance \/ Tick \/ UNCHANGED vars
  BY <1>0, <1>1 DEF Governance, SetOperator, SetArbiter, Tick, vars, keyVars
<1>2. CASE Debits
  <2>1. PICK p \in People, batch \in SUBSET {s[2] : s \in signed} : DebitBatch(p, batch)
    BY <1>2 DEF Debits
  <2>2. /\ Due(batch, k) \in Nat /\ balances'[k] = balances[k] - Due(batch, k)
        /\ toOperator'[k] = toOperator[k] + Due(batch, k)
    BY <2>1, DebitFacts
  <2>3. lockedAmount'[k] = lockedAmount[k]
    BY <2>1 DEF DebitBatch
  <2> QED
    BY <1>0, <2>2, <2>3
<1>3. ASSUME NEW p \in People, NEW a \in Authorizations, Sign(p, a)
      PROVE  lockedAmount'[k] <= balances'[k]
  BY <1>0, <1>3 DEF Sign, keyVars
<1>4. ASSUME NEW p \in People, NEW q \in Keys, OnKey(p, q)
      PROVE  lockedAmount'[k] <= balances'[k]
  <2>1. CASE SetArbitrationConsent(p, q)
    BY <1>0, <2>1 DEF SetArbitrationConsent
  <2>2. CASE ReleaseDispute(p, q)
    BY <1>0, <2>2 DEF ReleaseDispute, EscrowInv, TypeOK, Ledger
  <2>3. ASSUME NEW amount \in Amounts, Deposit(p, q, amount) PROVE lockedAmount'[k] <= balances'[k]
    <3>1. amount \in Nat /\ lockedAmount'[k] = lockedAmount[k]
      BY <2>3 DEF Deposit
    <3>2. balances'[k] \in {balances[k], balances[k] + amount}
      BY <2>3, <3>1 DEF Deposit, Funded, EscrowInv, TypeOK, Ledger
    <3> QED
      BY <1>0, <3>1, <3>2
  <2>4. ASSUME NEW amount \in Amounts, Withdraw(p, q, amount) PROVE lockedAmount'[k] <= balances'[k]
    BY <1>0, <2>4 DEF Withdraw, Available, EscrowInv, TypeOK, Ledger
  <2>5. ASSUME NEW amount \in Amounts, LockForDispute(p, q, amount)
        PROVE  lockedAmount'[k] <= balances'[k]
    BY <1>0, <2>5 DEF LockForDispute, EscrowInv, TypeOK, Ledger
  <2>6. ASSUME NEW amount \in Amounts, NEW n \in Nonces, ResolveDispute(p, q, amount, n)
        PROVE  lockedAmount'[k] <= balances'[k]
    BY <1>0, <2>6 DEF ResolveDispute, LockAfter, EscrowInv, TypeOK, Ledger
  <2> QED
    BY <1>4, <2>1, <2>2, <2>3, <2>4, <2>5, <2>6 DEF OnKey
<1> QED
  BY <1>1, <1>2, <1>3, <1>4 DEF Next

\* CD-8: no withdrawal, lock, release, resolution or deposit uncovers a lock.
THEOREM LocksStayCovered == Spec => OnlyDebitsUncover
<1>1. EscrowInv /\ [Next]_vars
        => [\A k \in Keys : lockedAmount[k] <= balances[k] /\ toOperator'[k] = toOperator[k]
                              => lockedAmount'[k] <= balances'[k]]_vars
  BY LockStep
<1> QED
  BY <1>1, EscrowInvariant, PTL DEF Spec, OnlyDebitsUncover
=============================================================================
