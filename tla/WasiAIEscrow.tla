---------------------------- MODULE WasiAIEscrow ----------------------------
(***************************************************************************)
(* The prepaid USDC escrow contract (contracts/src/WasiAIEscrow.sol): who  *)
(* may move the balance of a key, and by what authority.  A transaction is *)
(* one step: it reverts as a whole or commits as a whole (nonReentrant,    *)
(* checks-effects-interactions), and a reverted one is no step.  USDC      *)
(* itself is taken to transfer what it is asked to.  Upgrades are not here. *)
(***************************************************************************)
EXTENDS Naturals, FiniteSets, FiniteSetsExt

CONSTANTS
    Keys,             \* keyId
    People,           \* addresses
    NoOne,            \* address(0)
    Nonces,
    Amounts,          \* uint256 amounts anyone may pass
    Deadlines,        \* deadlines depositors sign
    Supply,           \* bound: what one key is ever funded with
    TTL,              \* MAX_DEADLINE_TTL
    MaxTime,          \* bound of the clock
    MaxBatch,         \* MAX_BATCH
    MaxSigned         \* bound: signatures in existence

ASSUME PeopleAssumption == NoOne \notin People
ASSUME NumbersAssumption ==
    /\ Amounts \subseteq Nat /\ Deadlines \subseteq Nat
    /\ {Supply, TTL, MaxTime, MaxBatch, MaxSigned} \subseteq Nat

\* EIP-712 DebitAuthorization
Authorizations == [keyId : Keys, amount : Amounts, deadline : Deadlines, nonce : Nonces]
\* a signature: who signed, and what
Signatures == People \X Authorizations

VARIABLES
    balances,     \* _balances
    depositor,    \* _depositor
    lockedAmount, \* _lockedAmount
    usedNonces,   \* _usedNonces, as a set of <<keyId, nonce>>
    consent,      \* _arbitrationConsent, as a set of keys
    operator,     \* _operator
    arbiter,      \* _arbiter
    now,          \* block.timestamp
    signed,       \* signatures in existence
    deposited,    \* per key: USDC that came in
    toOperator,   \* per key: USDC that went out by debit and debitBatch
    toOwner,      \* per key: USDC withdrawn
    toSeller,     \* per key: USDC paid by resolveDispute
    uses          \* per <<keyId, nonce>>: movements of money made under it

roleVars == <<operator, arbiter>>
keyVars == <<balances, depositor, lockedAmount, usedNonces, consent>>
flowVars == <<deposited, toOperator, toOwner, toSeller, uses>>
vars == <<keyVars, roleVars, now, signed, flowVars>>

Ledger == [Keys -> Nat]

TypeOK ==
    /\ balances \in Ledger /\ lockedAmount \in Ledger
    /\ depositor \in [Keys -> People \cup {NoOne}]
    /\ usedNonces \subseteq Keys \X Nonces
    /\ consent \subseteq Keys
    /\ operator \in People /\ arbiter \in People \cup {NoOne}
    /\ now \in Nat
    /\ signed \subseteq Signatures
    /\ deposited \in Ledger /\ toOperator \in Ledger
    /\ toOwner \in Ledger /\ toSeller \in Ledger
    /\ uses \in [Keys \X Nonces -> Nat]

\* initialize; the arbiter is unset until the owner names one.
Init ==
    /\ balances = [k \in Keys |-> 0] /\ lockedAmount = balances
    /\ depositor = [k \in Keys |-> NoOne]
    /\ usedNonces = {} /\ consent = {}
    /\ operator \in People /\ arbiter = NoOne
    /\ now = 0 /\ signed = {}
    /\ deposited = balances /\ toOperator = balances
    /\ toOwner = balances /\ toSeller = balances
    /\ uses = [u \in Keys \X Nonces |-> 0]

-----------------------------------------------------------------------------
(* Roles, consent and deposits.                                             *)

SetOperator(p) ==
    /\ operator' = p
    /\ UNCHANGED <<keyVars, arbiter, now, signed, flowVars>>

SetArbiter(p) ==
    /\ arbiter' = p
    /\ UNCHANGED <<keyVars, operator, now, signed, flowVars>>

SetArbitrationConsent(p, k) ==
    /\ p = depositor[k]
    /\ consent' = consent \cup {k}
    /\ UNCHANGED <<balances, depositor, lockedAmount, usedNonces, roleVars, now, signed, flowVars>>

\* the first depositor of a key is its only one
MayDeposit(p, k) == depositor[k] \in {NoOne, p}

FundedAfresh(k, amount) == amount
\* a top-up adds to what is there
Funded(k, amount) == balances[k] + amount

Deposit(p, k, amount) ==
    /\ amount > 0
    /\ MayDeposit(p, k)
    /\ deposited[k] + amount <= Supply
    /\ depositor' = [depositor EXCEPT ![k] = p]
    /\ balances' = [balances EXCEPT ![k] = Funded(k, amount)]
    /\ deposited' = [deposited EXCEPT ![k] = @ + amount]
    /\ UNCHANGED <<lockedAmount, usedNonces, consent, roleVars, now, signed,
                   toOperator, toOwner, toSeller, uses>>

-----------------------------------------------------------------------------
(* Debits: the operator settles against the depositor's signature.          *)

\* Anybody may sign anything, off chain; a signature never disappears.
Sign(p, a) ==
    /\ Cardinality(signed) < MaxSigned
    /\ signed' = signed \cup {<<p, a>>}
    /\ UNCHANGED <<keyVars, roleVars, now, flowVars>>

UnusedAlways(k, n) == TRUE
Unused(k, n) == <<k, n>> \notin usedNonces

\* _verifyAndConsume, its checks on one authorization
Valid(a) ==
    /\ now <= a.deadline /\ a.deadline <= now + TTL
    /\ Unused(a.keyId, a.nonce)
    /\ <<depositor[a.keyId], a>> \in signed

\* what a batch takes from a key
Due(batch, k) == MapThenSumSet(LAMBDA a : a.amount, {a \in batch : a.keyId = k})

DuplicateFree(batch) ==
    \A a, b \in batch : a.keyId = b.keyId /\ a.nonce = b.nonce => a = b

CoveredOneByOne(batch) == \A a \in batch : a.amount \in 0 .. balances[a.keyId]
\* Each element is checked against what the ones before it left of its key's balance,
\* locked or not: all pass exactly when their sum does.
Covered(batch) == \A k \in Keys : Due(batch, k) \in 0 .. balances[k]

\* debitBatch; debit is the batch of one.  A batch carries one deadline.
DebitBatch(p, batch) ==
    LET due == [k \in Keys |-> Due(batch, k)]
    IN  /\ p = operator
        /\ Cardinality(batch) \in 1 .. MaxBatch
        /\ \A a, b \in batch : a.deadline = b.deadline
        /\ DuplicateFree(batch)
        /\ \A a \in batch : Valid(a)
        /\ Covered(batch)
        /\ usedNonces' = usedNonces \cup {<<a.keyId, a.nonce>> : a \in batch}
        /\ balances' = [k \in Keys |-> balances[k] - due[k]]
        /\ toOperator' = [k \in Keys |-> toOperator[k] + due[k]]
        /\ uses' = [u \in Keys \X Nonces |->
                      IF \E a \in batch : u = <<a.keyId, a.nonce>> THEN uses[u] + 1 ELSE uses[u]]
        /\ UNCHANGED <<depositor, lockedAmount, consent, roleVars, now, signed,
                       deposited, toOwner, toSeller>>

-----------------------------------------------------------------------------
(* Withdrawals and disputes.                                                *)

\* balance - locked underflows, and so reverts, when a debit has eaten into the lock
Available(k) == {amount \in Nat : amount + lockedAmount[k] <= balances[k]}

Withdraw(p, k, amount) ==
    /\ p = depositor[k]
    /\ amount \in Available(k)
    /\ balances' = [balances EXCEPT ![k] = @ - amount]
    /\ toOwner' = [toOwner EXCEPT ![k] = @ + amount]
    /\ UNCHANGED <<depositor, lockedAmount, usedNonces, consent, roleVars, now, signed,
                   deposited, toOperator, toSeller, uses>>

Consented(k) == k \in consent

LockForDispute(p, k, amount) ==
    /\ p = arbiter /\ Consented(k)
    /\ amount > 0
    /\ lockedAmount[k] + amount <= balances[k]
    /\ lockedAmount' = [lockedAmount EXCEPT ![k] = @ + amount]
    /\ UNCHANGED <<balances, depositor, usedNonces, consent, roleVars, now, signed, flowVars>>

ReleaseDispute(p, k) ==
    /\ p = arbiter
    /\ lockedAmount[k] > 0
    /\ lockedAmount' = [lockedAmount EXCEPT ![k] = 0]
    /\ UNCHANGED <<balances, depositor, usedNonces, consent, roleVars, now, signed, flowVars>>

\* what is left of the lock once the seller is paid: the residual is the buyer's again
LockAfterKept(k, paid) == lockedAmount[k]
LockAfter(k, paid) == 0

ResolveDispute(p, k, amount, n) ==
    /\ p = arbiter /\ Consented(k)
    /\ amount > 0 /\ amount <= lockedAmount[k] /\ amount <= balances[k]
    /\ Unused(k, n)
    /\ usedNonces' = usedNonces \cup {<<k, n>>}
    /\ balances' = [balances EXCEPT ![k] = @ - amount]
    /\ lockedAmount' = [lockedAmount EXCEPT ![k] = LockAfter(k, amount)]
    /\ toSeller' = [toSeller EXCEPT ![k] = @ + amount]
    /\ uses' = [uses EXCEPT ![<<k, n>>] = @ + 1]
    /\ UNCHANGED <<depositor, consent, roleVars, now, signed, deposited, toOperator, toOwner>>

Tick ==
    /\ now < MaxTime
    /\ now' = now + 1
    /\ UNCHANGED <<keyVars, roleVars, signed, flowVars>>

-----------------------------------------------------------------------------
Governance == \E p \in People : SetOperator(p) \/ SetArbiter(p)

Debits == \E p \in People, batch \in SUBSET {s[2] : s \in signed} : DebitBatch(p, batch)

OnKey(p, k) ==
    \/ SetArbitrationConsent(p, k)
    \/ ReleaseDispute(p, k)
    \/ \E amount \in Amounts :
          \/ Deposit(p, k, amount) \/ Withdraw(p, k, amount) \/ LockForDispute(p, k, amount)
          \/ \E n \in Nonces : ResolveDispute(p, k, amount, n)

Next ==
    \/ Governance \/ Debits \/ Tick
    \/ \E p \in People : \/ \E a \in Authorizations : Sign(p, a)
                         \/ \E k \in Keys : OnKey(p, k)

Spec == Init /\ [][Next]_vars

-----------------------------------------------------------------------------
(* Properties.                                                              *)

\* Every key pays for itself: what left under a key, one debit at a time or several in
\* one batch, never exceeds what came in under it, and the difference is its balance (the
\* contract pools one token, so an overdrawn key would be paid for by the others).
KeyBooksBalance ==
    \A k \in Keys :
        LET out == toOperator[k] + toOwner[k] + toSeller[k]
        IN  out <= deposited[k] /\ balances[k] + out = deposited[k]

\* One nonce moves money once, whichever of debit, debitBatch and resolveDispute used it.
NonceMovesOnce == \A u \in Keys \X Nonces : uses[u] <= 1

\* The arbiter pays sellers only out of keys whose depositor opted in.
ArbitrationNeedsConsent == \A k \in Keys : toSeller[k] > 0 \/ lockedAmount[k] > 0 => k \in consent

\* The depositor of a key, whose signature debits need and who alone withdraws, is the
\* one who funded it first, for ever.
DepositorIsForever ==
    [][\A k \in Keys : depositor[k] # NoOne => depositor'[k] = depositor[k]]_vars

\* A depositor never withdraws what the arbiter has locked.
WithdrawalsLeaveTheLock ==
    [][\A k \in Keys : toOwner'[k] # toOwner[k] => lockedAmount'[k] <= balances'[k]]_vars

\* A lock the balance covers (CD-8) stays covered whatever the depositor, the arbiter and
\* governance do: only a debit the operator sends eats into it (rule R-1 forbids it that).
OnlyDebitsUncover ==
    [][\A k \in Keys : lockedAmount[k] <= balances[k] /\ toOperator'[k] = toOperator[k]
                         => lockedAmount'[k] <= balances'[k]]_vars

-----------------------------------------------------------------------------
(* Why they hold.                                                           *)

\* usedNonces records the movements.
UsesCounted ==
    \A u \in Keys \X Nonces : uses[u] = IF u \in usedNonces THEN 1 ELSE 0

\* The invariant the proofs are by induction on.
EscrowInv == TypeOK /\ KeyBooksBalance /\ UsesCounted /\ ArbitrationNeedsConsent
=============================================================================
