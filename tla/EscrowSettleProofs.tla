------------------------- MODULE EscrowSettleProofs -------------------------
(***************************************************************************)
(* Proofs about EscrowSettle: for any number of concurrent reconciliation  *)
(* calls, a signed debit is paid to the seller or refunded, never both,    *)
(* and not twice unless a late write of reconciliation_pending erased a    *)
(* claim or a node denied a payment.                                       *)
(***************************************************************************)
EXTENDS EscrowSettle, TLAPS

\* The initial state satisfies the invariant.
LEMMA InitInv == Init => SettleInv
<1> SUFFICES ASSUME Init PROVE SettleInv
  OBVIOUS
<1>1. TypeOK
  BY DEF Init, TypeOK, Statuses, Pending, SettlerSteps, AdminSteps
<1>2. EarlyIsAlone /\ SidesFollowChain /\ PaymentFollowsHop1 /\ CreditFollowsHop1 /\ RecordsAreTrue
  BY DEF Init, EarlyIsAlone, SidesFollowChain, PaymentFollowsHop1, CreditFollowsHop1, RecordsAreTrue
<1>3. LeaseInv
  BY DEF Init, LeaseInv, SenderHoldsLease, GivenUpUnpaid, GiversUp, PaidIsKept, CreditIsTerminal
<1> QED
  BY <1>1, <1>2, <1>3 DEF SettleInv

\* Recording hop 1 changes the row only while the settler is alone with it.
LEMMA RecordHop1KeepsInv ==
  ASSUME SettleInv, RecordHop1
  PROVE  SettleInv'
<1> USE DEF SettleInv, TypeOK, RecordHop1, SettlerGoes, WriteHop1, rowVars, moneyVars,
           historyVars, Pending
<1>1. TypeOK'
  <2>1. status' \in Statuses /\ UNCHANGED attempted /\ hash1' \in BOOLEAN /\ UNCHANGED hash2
    BY DEF Statuses
  <2>2. settler' \in SettlerSteps /\ UNCHANGED pc
    BY DEF SettlerSteps
  <2> QED
    BY <2>1, <2>2
<1>2. EarlyIsAlone'
  BY DEF EarlyIsAlone, EarlySteps
<1>3. SidesFollowChain'
  BY DEF SidesFollowChain
<1>4. PaymentFollowsHop1'
  BY DEF PaymentFollowsHop1, Unrecorded, SidesFollowChain, EarlyIsAlone, EarlySteps
<1>5. CreditFollowsHop1'
  BY DEF CreditFollowsHop1, EarlyIsAlone, EarlySteps
<1>6. RecordsAreTrue'
  BY DEF RecordsAreTrue
<1>7. SUFFICES ASSUME ~lost' PROVE LeaseInv'
  BY <1>1, <1>2, <1>3, <1>4, <1>5, <1>6
<1>8. ~lost /\ LeaseInv
  BY <1>7
<1> USE <1>7, <1>8 DEF LeaseInv
<1>9. SenderHoldsLease'
  BY DEF SenderHoldsLease, LeaseHeld, GiversUp, GivenUpUnpaid, PaidIsKept, Unrecorded, RecordsAreTrue,
         EarlyIsAlone, EarlySteps
<1>10. GivenUpUnpaid'
  BY DEF GivenUpUnpaid, GiversUp, EarlyIsAlone, EarlySteps, SenderHoldsLease, LeaseHeld, RecordsAreTrue
<1>11. PaidIsKept'
  BY DEF PaidIsKept, Unrecorded, GivenUpUnpaid, GiversUp, EarlyIsAlone, EarlySteps, RecordsAreTrue
<1>12. CreditIsTerminal'
  BY DEF CreditIsTerminal, GivenUpUnpaid, GiversUp, PaidIsKept, Unrecorded, RecordsAreTrue
<1> QED
  BY <1>9, <1>10, <1>11, <1>12

\* A debit left to the reconciler is one nobody has claimed.
LEMMA DeferKeepsInv ==
  ASSUME SettleInv, Defer
  PROVE  SettleInv'
<1> USE DEF SettleInv, TypeOK, Defer, SettlerGoes, GiveUpLease, Overtakes, rowVars, moneyVars,
           historyVars, Pending
<1>1. TypeOK'
  BY DEF Statuses, SettlerSteps, AdminSteps, GiversUp
<1>2. EarlyIsAlone'
  BY DEF EarlyIsAlone, EarlySteps
<1>3. SidesFollowChain'
  BY DEF SidesFollowChain
<1>4. PaymentFollowsHop1'
  BY DEF PaymentFollowsHop1, Unrecorded, SidesFollowChain, EarlyIsAlone, EarlySteps
<1>5. CreditFollowsHop1'
  BY DEF CreditFollowsHop1, EarlyIsAlone, EarlySteps
<1>6. RecordsAreTrue'
  BY DEF RecordsAreTrue
<1>7. SUFFICES ASSUME ~lost' PROVE LeaseInv'
  BY <1>1, <1>2, <1>3, <1>4, <1>5, <1>6
<1>8. ~lost /\ LeaseInv
  BY <1>7
<1> USE <1>7, <1>8 DEF LeaseInv
<1>9. SenderHoldsLease'
  BY DEF SenderHoldsLease, LeaseHeld, GiversUp, GivenUpUnpaid, PaidIsKept, Unrecorded, RecordsAreTrue,
         EarlyIsAlone, EarlySteps
<1>10. GivenUpUnpaid'
  BY DEF GivenUpUnpaid, GiversUp, EarlyIsAlone, EarlySteps, SenderHoldsLease, LeaseHeld, RecordsAreTrue
<1>11. PaidIsKept'
  BY DEF PaidIsKept, Unrecorded, GivenUpUnpaid, GiversUp, EarlyIsAlone, EarlySteps, RecordsAreTrue
<1>12. CreditIsTerminal'
  BY DEF CreditIsTerminal, GivenUpUnpaid, GiversUp, PaidIsKept, Unrecorded, RecordsAreTrue
<1> QED
  BY <1>9, <1>10, <1>11, <1>12

\* The settler takes the lease of a row nobody else sends for.
LEMMA LeaseKeepsInv ==
  ASSUME SettleInv, Lease
  PROVE  SettleInv'
<1> USE DEF SettleInv, TypeOK, Lease, SettlerGoes, Leasable, TakeLease, InTurn, Overtakes, rowVars, moneyVars,
           historyVars, Pending
<1>1. TypeOK'
  BY DEF Statuses, SettlerSteps, AdminSteps, GiversUp
<1>2. EarlyIsAlone'
  BY DEF EarlyIsAlone, EarlySteps
<1>3. SidesFollowChain'
  BY DEF SidesFollowChain
<1>4. PaymentFollowsHop1'
  BY DEF PaymentFollowsHop1, Unrecorded, SidesFollowChain, EarlyIsAlone, EarlySteps
<1>5. CreditFollowsHop1'
  BY DEF CreditFollowsHop1, EarlyIsAlone, EarlySteps
<1>6. RecordsAreTrue'
  BY DEF RecordsAreTrue
<1>7. SUFFICES ASSUME ~lost' PROVE LeaseInv'
  BY <1>1, <1>2, <1>3, <1>4, <1>5, <1>6
<1>8. ~lost /\ LeaseInv
  BY <1>7
<1> USE <1>7, <1>8 DEF LeaseInv
<1>9. SenderHoldsLease'
  BY DEF SenderHoldsLease, LeaseHeld, GiversUp, GivenUpUnpaid, PaidIsKept, Unrecorded, RecordsAreTrue,
         EarlyIsAlone, EarlySteps
<1>10. GivenUpUnpaid'
  BY DEF GivenUpUnpaid, GiversUp, EarlyIsAlone, EarlySteps, SenderHoldsLease, LeaseHeld, RecordsAreTrue
<1>11. PaidIsKept'
  BY DEF PaidIsKept, Unrecorded, GivenUpUnpaid, GiversUp, EarlyIsAlone, EarlySteps, RecordsAreTrue
<1>12. CreditIsTerminal'
  BY DEF CreditIsTerminal, GivenUpUnpaid, GiversUp, PaidIsKept, Unrecorded, RecordsAreTrue
<1> QED
  BY <1>9, <1>10, <1>11, <1>12

\* The flip to settled follows a payment.
LEMMA FlipKeepsInv ==
  ASSUME SettleInv, Flip
  PROVE  SettleInv'
<1> USE DEF SettleInv, TypeOK, Flip, SettlerGoes, Overtakes, rowVars, moneyVars,
           historyVars, Pending
<1>1. TypeOK'
  BY DEF Statuses, SettlerSteps, AdminSteps, GiversUp
<1>2. EarlyIsAlone'
  BY DEF EarlyIsAlone, EarlySteps
<1>3. SidesFollowChain'
  BY DEF SidesFollowChain
<1>4. PaymentFollowsHop1'
  BY DEF PaymentFollowsHop1, Unrecorded, SidesFollowChain, EarlyIsAlone, EarlySteps
<1>5. CreditFollowsHop1'
  BY DEF CreditFollowsHop1, EarlyIsAlone, EarlySteps
<1>6. RecordsAreTrue'
  BY DEF RecordsAreTrue
<1>7. SUFFICES ASSUME ~lost' PROVE LeaseInv'
  BY <1>1, <1>2, <1>3, <1>4, <1>5, <1>6
<1>8. ~lost /\ LeaseInv
  BY <1>7
<1> USE <1>7, <1>8 DEF LeaseInv
<1>9. SenderHoldsLease'
  BY DEF SenderHoldsLease, LeaseHeld, GiversUp, GivenUpUnpaid, PaidIsKept, Unrecorded, RecordsAreTrue,
         EarlyIsAlone, EarlySteps
<1>10. GivenUpUnpaid'
  BY DEF GivenUpUnpaid, GiversUp, EarlyIsAlone, EarlySteps, SenderHoldsLease, LeaseHeld, RecordsAreTrue
<1>11. PaidIsKept'
  BY DEF PaidIsKept, Unrecorded, GivenUpUnpaid, GiversUp, EarlyIsAlone, EarlySteps, RecordsAreTrue
<1>12. CreditIsTerminal'
  BY DEF CreditIsTerminal, GivenUpUnpaid, GiversUp, PaidIsKept, Unrecorded, RecordsAreTrue
<1> QED
  BY <1>9, <1>10, <1>11, <1>12

\* The settler gives up the lease of a debit hop 2 did not pay.
LEMMA ReleaseKeepsInv ==
  ASSUME SettleInv, Release
  PROVE  SettleInv'
<1> USE DEF SettleInv, TypeOK, Release, SettlerGoes, GiveUpLease, Overtakes, rowVars, moneyVars,
           historyVars, Pending
<1>1. TypeOK'
  BY DEF Statuses, SettlerSteps, AdminSteps, GiversUp
<1>2. EarlyIsAlone'
  BY DEF EarlyIsAlone, EarlySteps
<1>3. SidesFollowChain'
  BY DEF SidesFollowChain
<1>4. PaymentFollowsHop1'
  BY DEF PaymentFollowsHop1, Unrecorded, SidesFollowChain, EarlyIsAlone, EarlySteps
<1>5. CreditFollowsHop1'
  BY DEF CreditFollowsHop1, EarlyIsAlone, EarlySteps
<1>6. RecordsAreTrue'
  BY DEF RecordsAreTrue
<1>7. SUFFICES ASSUME ~lost' PROVE LeaseInv'
  BY <1>1, <1>2, <1>3, <1>4, <1>5, <1>6
<1>8. ~lost /\ LeaseInv
  BY <1>7
<1> USE <1>7, <1>8 DEF LeaseInv
<1>9. SenderHoldsLease'
  BY DEF SenderHoldsLease, LeaseHeld, GiversUp, GivenUpUnpaid, PaidIsKept, Unrecorded, RecordsAreTrue,
         EarlyIsAlone, EarlySteps
<1>10. GivenUpUnpaid'
  BY DEF GivenUpUnpaid, GiversUp, EarlyIsAlone, EarlySteps, SenderHoldsLease, LeaseHeld, RecordsAreTrue
<1>11. PaidIsKept'
  BY DEF PaidIsKept, Unrecorded, GivenUpUnpaid, GiversUp, EarlyIsAlone, EarlySteps, RecordsAreTrue
<1>12. CreditIsTerminal'
  BY DEF CreditIsTerminal, GivenUpUnpaid, GiversUp, PaidIsKept, Unrecorded, RecordsAreTrue
<1> QED
  BY <1>9, <1>10, <1>11, <1>12

\* A reconciler takes the lease, or re-verifies the payment it finds recorded.
LEMMA ClaimSettleKeepsInv ==
  ASSUME SettleInv, NEW a \in Admins, ClaimSettle(a)
  PROVE  SettleInv'
<1> USE DEF SettleInv, TypeOK, ClaimSettle, AdminGoes, Claimable, TakeLease, InTurn, Overtakes, rowVars, moneyVars,
           historyVars, Pending
<1>1. TypeOK'
  <2>1. pc' \in [Admins -> AdminSteps] /\ settler' \in SettlerSteps
    BY DEF SettlerSteps, AdminSteps
  <2>2. late' \subseteq Admins \cup {"settler"} /\ lost' \in BOOLEAN
    BY DEF GiversUp
  <2>3. status' \in Statuses /\ attempted' \in BOOLEAN /\ hash1' \in BOOLEAN /\ hash2' \in BOOLEAN
    BY DEF Statuses
  <2> QED
    BY <2>1, <2>2, <2>3
<1>2. EarlyIsAlone'
  BY DEF EarlyIsAlone, EarlySteps
<1>3. SidesFollowChain'
  BY DEF SidesFollowChain
<1>4. PaymentFollowsHop1'
  BY DEF PaymentFollowsHop1, Unrecorded, SidesFollowChain, EarlyIsAlone, EarlySteps
<1>5. CreditFollowsHop1'
  BY DEF CreditFollowsHop1, EarlyIsAlone, EarlySteps
<1>6. RecordsAreTrue'
  BY DEF RecordsAreTrue
<1>7. SUFFICES ASSUME ~lost' PROVE LeaseInv'
  BY <1>1, <1>2, <1>3, <1>4, <1>5, <1>6
<1>8. ~lost /\ LeaseInv
  BY <1>7
<1> USE <1>7, <1>8 DEF LeaseInv
<1>9. SenderHoldsLease'
  BY DEF SenderHoldsLease, LeaseHeld, GiversUp, GivenUpUnpaid, PaidIsKept, Unrecorded, RecordsAreTrue,
         EarlyIsAlone, EarlySteps
<1>10. GivenUpUnpaid'
  BY DEF GivenUpUnpaid, GiversUp, EarlyIsAlone, EarlySteps, SenderHoldsLease, LeaseHeld, RecordsAreTrue
<1>11. PaidIsKept'
  BY DEF PaidIsKept, Unrecorded, GivenUpUnpaid, GiversUp, EarlyIsAlone, EarlySteps, RecordsAreTrue
<1>12. CreditIsTerminal'
  BY DEF CreditIsTerminal, GivenUpUnpaid, GiversUp, PaidIsKept, Unrecorded, RecordsAreTrue
<1> QED
  BY <1>9, <1>10, <1>11, <1>12

\* The reconciler's terminal flip follows a payment.
LEMMA RecordSettledKeepsInv ==
  ASSUME SettleInv, NEW a \in Admins, RecordSettled(a)
  PROVE  SettleInv'
<1> USE DEF SettleInv, TypeOK, RecordSettled, AdminGoes, Overtakes, rowVars, moneyVars,
           historyVars, Pending
<1>1. TypeOK'
  <2>1. pc' \in [Admins -> AdminSteps] /\ settler' \in SettlerSteps
    BY DEF SettlerSteps, AdminSteps
  <2>2. late' \subseteq Admins \cup {"settler"} /\ lost' \in BOOLEAN
    BY DEF GiversUp
  <2>3. status' \in Statuses /\ attempted' \in BOOLEAN /\ hash1' \in BOOLEAN /\ hash2' \in BOOLEAN
    BY DEF Statuses
  <2> QED
    BY <2>1, <2>2, <2>3
<1>2. EarlyIsAlone'
  BY DEF EarlyIsAlone, EarlySteps
<1>3. SidesFollowChain'
  BY DEF SidesFollowChain
<1>4. PaymentFollowsHop1'
  BY DEF PaymentFollowsHop1, Unrecorded, SidesFollowChain, EarlyIsAlone, EarlySteps
<1>5. CreditFollowsHop1'
  BY DEF CreditFollowsHop1, EarlyIsAlone, EarlySteps
<1>6. RecordsAreTrue'
  BY DEF RecordsAreTrue
<1>7. SUFFICES ASSUME ~lost' PROVE LeaseInv'
  BY <1>1, <1>2, <1>3, <1>4, <1>5, <1>6
<1>8. ~lost /\ LeaseInv
  BY <1>7
<1> USE <1>7, <1>8 DEF LeaseInv
<1>9. SenderHoldsLease'
  BY DEF SenderHoldsLease, LeaseHeld, GiversUp, GivenUpUnpaid, PaidIsKept, Unrecorded, RecordsAreTrue,
         EarlyIsAlone, EarlySteps
<1>10. GivenUpUnpaid'
  BY DEF GivenUpUnpaid, GiversUp, EarlyIsAlone, EarlySteps, SenderHoldsLease, LeaseHeld, RecordsAreTrue
<1>11. PaidIsKept'
  BY DEF PaidIsKept, Unrecorded, GivenUpUnpaid, GiversUp, EarlyIsAlone, EarlySteps, RecordsAreTrue
<1>12. CreditIsTerminal'
  BY DEF CreditIsTerminal, GivenUpUnpaid, GiversUp, PaidIsKept, Unrecorded, RecordsAreTrue
<1> QED
  BY <1>9, <1>10, <1>11, <1>12

\* A denial loses track of the debit, and only of a debit that was paid.
LEMMA VerifyKeepsInv ==
  ASSUME SettleInv, NEW a \in Admins, Verify(a)
  PROVE  SettleInv'
<1> USE DEF SettleInv, TypeOK, Verify, AdminGoes, Overtakes, rowVars, moneyVars,
           historyVars, Pending
<1>1. TypeOK'
  <2>1. pc' \in [Admins -> AdminSteps] /\ settler' \in SettlerSteps
    BY DEF SettlerSteps, AdminSteps
  <2>2. late' \subseteq Admins \cup {"settler"} /\ lost' \in BOOLEAN
    BY DEF GiversUp
  <2>3. status' \in Statuses /\ attempted' \in BOOLEAN /\ hash1' \in BOOLEAN /\ hash2' \in BOOLEAN
    BY DEF Statuses
  <2> QED
    BY <2>1, <2>2, <2>3
<1>2. EarlyIsAlone'
  BY DEF EarlyIsAlone, EarlySteps
<1>3. SidesFollowChain'
  BY DEF SidesFollowChain
<1>4. PaymentFollowsHop1'
  BY DEF PaymentFollowsHop1, Unrecorded, SidesFollowChain, EarlyIsAlone, EarlySteps
<1>5. CreditFollowsHop1'
  BY DEF CreditFollowsHop1, EarlyIsAlone, EarlySteps
<1>6. RecordsAreTrue'
  BY DEF RecordsAreTrue
<1>7. SUFFICES ASSUME ~lost' PROVE LeaseInv'
  BY <1>1, <1>2, <1>3, <1>4, <1>5, <1>6
<1>8. ~lost /\ LeaseInv
  BY <1>7
<1> USE <1>7, <1>8 DEF LeaseInv
<1>9. SenderHoldsLease'
  BY DEF SenderHoldsLease, LeaseHeld, GiversUp, GivenUpUnpaid, PaidIsKept, Unrecorded, RecordsAreTrue,
         EarlyIsAlone, EarlySteps
<1>10. GivenUpUnpaid'
  BY DEF GivenUpUnpaid, GiversUp, EarlyIsAlone, EarlySteps, SenderHoldsLease, LeaseHeld, RecordsAreTrue
<1>11. PaidIsKept'
  BY DEF PaidIsKept, Unrecorded, GivenUpUnpaid, GiversUp, EarlyIsAlone, EarlySteps, RecordsAreTrue
<1>12. CreditIsTerminal'
  BY DEF CreditIsTerminal, GivenUpUnpaid, GiversUp, PaidIsKept, Unrecorded, RecordsAreTrue
<1> QED
  BY <1>9, <1>10, <1>11, <1>12

\* A lease released by hand is one of an unpaid debit.
LEMMA ReleaseLeaseKeepsInv ==
  ASSUME SettleInv, NEW a \in Admins, ReleaseLease(a)
  PROVE  SettleInv'
<1> USE DEF SettleInv, TypeOK, ReleaseLease, AdminGoes, GiveUpLease, Overtakes, rowVars, moneyVars,
           historyVars, Pending
<1>1. TypeOK'
  <2>1. pc' \in [Admins -> AdminSteps] /\ settler' \in SettlerSteps
    BY DEF SettlerSteps, AdminSteps
  <2>2. late' \subseteq Admins \cup {"settler"} /\ lost' \in BOOLEAN
    BY DEF GiversUp
  <2>3. status' \in Statuses /\ attempted' \in BOOLEAN /\ hash1' \in BOOLEAN /\ hash2' \in BOOLEAN
    BY DEF Statuses
  <2> QED
    BY <2>1, <2>2, <2>3
<1>2. EarlyIsAlone'
  BY DEF EarlyIsAlone, EarlySteps
<1>3. SidesFollowChain'
  BY DEF SidesFollowChain
<1>4. PaymentFollowsHop1'
  BY DEF PaymentFollowsHop1, Unrecorded, SidesFollowChain, EarlyIsAlone, EarlySteps
<1>5. CreditFollowsHop1'
  BY DEF CreditFollowsHop1, EarlyIsAlone, EarlySteps
<1>6. RecordsAreTrue'
  BY DEF RecordsAreTrue
<1>7. SUFFICES ASSUME ~lost' PROVE LeaseInv'
  BY <1>1, <1>2, <1>3, <1>4, <1>5, <1>6
<1>8. ~lost /\ LeaseInv
  BY <1>7
<1> USE <1>7, <1>8 DEF LeaseInv
<1>9. SenderHoldsLease'
  BY DEF SenderHoldsLease, LeaseHeld, GiversUp, GivenUpUnpaid, PaidIsKept, Unrecorded, RecordsAreTrue,
         EarlyIsAlone, EarlySteps
<1>10. GivenUpUnpaid'
  BY DEF GivenUpUnpaid, GiversUp, EarlyIsAlone, EarlySteps, SenderHoldsLease, LeaseHeld, RecordsAreTrue
<1>11. PaidIsKept'
  BY DEF PaidIsKept, Unrecorded, GivenUpUnpaid, GiversUp, EarlyIsAlone, EarlySteps, RecordsAreTrue
<1>12. CreditIsTerminal'
  BY DEF CreditIsTerminal, GivenUpUnpaid, GiversUp, PaidIsKept, Unrecorded, RecordsAreTrue
<1> QED
  BY <1>9, <1>10, <1>11, <1>12

\* Every step keeps the invariant.
LEMMA StepKeepsInv ==
  ASSUME SettleInv, [Next]_vars
  PROVE  SettleInv'
<1> USE DEF SettleInv, TypeOK, EarlyIsAlone, EarlySteps, SidesFollowChain, PaymentFollowsHop1, Unrecorded,
            CreditFollowsHop1, RecordsAreTrue, LeaseInv, SenderHoldsLease, LeaseHeld, GivenUpUnpaid, GiversUp,
            PaidIsKept, CreditIsTerminal, Statuses, Pending, SettlerSteps, AdminSteps, rowVars, moneyVars,
            historyVars, SettlerGoes, AdminGoes
<1>1. CASE Mine
  BY <1>1 DEF Mine
<1>2. CASE SendHop1
  BY <1>2 DEF SendHop1
<1>3. CASE AwaitHop1
  BY <1>3 DEF AwaitHop1
<1>4. CASE Seam
  BY <1>4 DEF Seam, SettleResults, Pays
<1>5. CASE RecordHop1
  BY <1>5, RecordHop1KeepsInv
<1>6. CASE Defer
  BY <1>6, DeferKeepsInv
<1>7. CASE Lease
  BY <1>7, LeaseKeepsInv
<1>8. CASE Hop2
  BY <1>8 DEF Hop2, SettleResults, Pays
<1>9. CASE Flip
  BY <1>9, FlipKeepsInv
<1>10. CASE Release
  BY <1>10, ReleaseKeepsInv
<1>11. CASE SettlerDies
  BY <1>11 DEF SettlerDies
<1>12. ASSUME NEW a \in Admins, AdminNext(a) PROVE SettleInv'
  <2>1. CASE ResolveIntent(a)
    BY <2>1 DEF ResolveIntent, Decidable, Side
  <2>2. CASE ClaimSettle(a)
    BY <2>2, ClaimSettleKeepsInv
  <2>3. CASE Verify(a)
    BY <2>3, VerifyKeepsInv
  <2>4. CASE SendHop2(a)
    BY <2>4 DEF SendHop2, SettleResults, Pays
  <2>5. CASE SaveTx(a)
    BY <2>5 DEF SaveTx
  <2>6. CASE RecordSettled(a)
    BY <2>6, RecordSettledKeepsInv
  <2>7. CASE ClaimRefund(a)
    BY <2>7 DEF ClaimRefund, Overtakes
  <2>8. CASE RecordRefunded(a)
    BY <2>8 DEF RecordRefunded, Refundable
  <2>9. CASE Evidence(a)
    BY <2>9 DEF Evidence, Leased
  <2>10. CASE AttestUnpaid(a)
    BY <2>10 DEF AttestUnpaid, Leased
  <2>11. CASE ReleaseLease(a)
    BY <2>11, ReleaseLeaseKeepsInv
  <2>12. CASE AdminStops(a)
    BY <2>12 DEF AdminStops
  <2> QED
    BY <1>12, <2>1, <2>2, <2>3, <2>4, <2>5, <2>6, <2>7, <2>8, <2>9, <2>10, <2>11, <2>12 DEF AdminNext
<1>13. CASE UNCHANGED vars
  BY <1>13 DEF vars
<1> QED
  BY <1>1, <1>2, <1>3, <1>4, <1>5, <1>6, <1>7, <1>8, <1>9, <1>10, <1>11, <1>12, <1>13 DEF Next, SettlerNext

\* The strengthened invariant holds of every reachable state.
THEOREM SettleInvariant == Spec => []SettleInv
<1>1. SettleInv /\ [Next]_vars => SettleInv'
  BY StepKeepsInv
<1> QED
  BY <1>1, InitInv, PTL DEF Spec

\* TwiceOnlyIfLost: settler, seam and all the reconciliation calls together pay or refund
\* a debit once, unless a late write erased a claim or a node denied a payment.
THEOREM ResolvedOnce == Spec => []TwiceOnlyIfLost
<1>1. SettleInv => TwiceOnlyIfLost
  <2> SUFFICES ASSUME SettleInv, ~lost PROVE paid + credited <= 1
    BY DEF TwiceOnlyIfLost
  <2>1. paid \in Nat /\ credited \in Nat /\ paid <= 1 /\ credited <= 1
    BY DEF SettleInv, TypeOK, LeaseInv, PaidIsKept, CreditIsTerminal
  <2>2. ~(paid > 0 /\ credited > 0)
    BY <2>1 DEF SettleInv, PaymentFollowsHop1, Unrecorded, CreditFollowsHop1
  <2> QED
    BY <2>1, <2>2
<1> QED
  BY <1>1, SettleInvariant, PTL

\* RefundNeedsRevert: the budget is credited only for a debit whose hop 1 reverted and
\* that paid nobody, whatever was erased or denied.
THEOREM RefundsNeedRevert == Spec => []RefundNeedsRevert
<1>1. SettleInv => RefundNeedsRevert
  BY DEF SettleInv, TypeOK, PaymentFollowsHop1, Unrecorded, CreditFollowsHop1, RefundNeedsRevert
<1> QED
  BY <1>1, SettleInvariant, PTL

\* SettledMeansPaid: a row that says settled or resolved_settled tells the truth.
THEOREM SettledIsPaid == Spec => []SettledMeansPaid
<1>1. SettleInv => SettledMeansPaid
  BY DEF SettleInv, RecordsAreTrue, SettledMeansPaid
<1> QED
  BY <1>1, SettleInvariant, PTL

\* ResolvesOneSide: settler, reconciler and operator together implement a debit that is
\* resolved on one side, and once unless the gateway lost track of it.
THEOREM ImplementsResolution == Spec => ResolvesOneSide
<1>1. Init => Resolution!RInit
  BY DEF Init, Resolution!RInit
<1>2. ASSUME SettleInv, [Next]_vars
      PROVE  [Resolution!RNext]_<<paid, credited, lost>>
  <2> USE DEF Resolution!RNext, Resolution!Pay, Resolution!Refund, Resolution!LoseTrack
  <2>0. /\ paid \in Nat /\ credited \in Nat
        /\ ~lost => paid + credited <= 1
    BY <1>2 DEF SettleInv, TypeOK, LeaseInv, PaidIsKept, CreditIsTerminal, PaymentFollowsHop1,
         Unrecorded, CreditFollowsHop1
  <2>1. CASE Seam
    BY <1>2, <2>1 DEF SettleInv, TypeOK, EarlyIsAlone, EarlySteps, CreditFollowsHop1, Seam, Pays, historyVars
  <2>2. CASE Hop2
    BY <1>2, <2>2 DEF SettleInv, TypeOK, SidesFollowChain, CreditFollowsHop1, LeaseInv, SenderHoldsLease,
         LeaseHeld, Hop2, Pays, historyVars
  <2>3. ASSUME NEW a \in Admins, SendHop2(a) PROVE [Resolution!RNext]_<<paid, credited, lost>>
    BY <1>2, <2>3 DEF SettleInv, TypeOK, SidesFollowChain, CreditFollowsHop1, LeaseInv, SenderHoldsLease,
         LeaseHeld, SendHop2, Pays, historyVars
  <2>4. ASSUME NEW a \in Admins, RecordRefunded(a) PROVE [Resolution!RNext]_<<paid, credited, lost>>
    BY <1>2, <2>4 DEF SettleInv, TypeOK, SidesFollowChain, PaymentFollowsHop1, Unrecorded, LeaseInv,
         CreditIsTerminal, RecordRefunded, Refundable, historyVars
  <2>5. CASE Defer \/ Release \/ \E a \in Admins : Verify(a) \/ ReleaseLease(a)
    BY <1>2, <2>0, <2>5 DEF SettleInv, TypeOK, Defer, Release, Verify, ReleaseLease, GiveUpLease, moneyVars, historyVars
  <2>6. CASE /\ ~Seam /\ ~Hop2 /\ ~Defer /\ ~Release
             /\ ~\E a \in Admins : SendHop2(a) \/ RecordRefunded(a) \/ Verify(a) \/ ReleaseLease(a)
    BY <1>2, <2>6 DEF Next, SettlerNext, AdminNext, Mine, SendHop1, AwaitHop1, RecordHop1, Lease,
         Flip, SettlerDies, ResolveIntent, ClaimSettle, SaveTx, RecordSettled, Overtakes,
         ClaimRefund, Evidence, AttestUnpaid, AdminStops, moneyVars, historyVars, vars
  <2> QED
    BY <2>1, <2>2, <2>3, <2>4, <2>5, <2>6
<1> QED
  BY <1>1, <1>2, SettleInvariant, PTL DEF Spec, ResolvesOneSide, Resolution!RSpec
=============================================================================
