----------------------------- MODULE EscrowSettle -----------------------------
(***************************************************************************)
(* One signed debit on its way through the escrow: settleEscrowAware takes *)
(* the money out of the buyer's escrow (hop 1), leases the row, and pays   *)
(* the seller (hop 2); the reconciler and an operator finish what it left. *)
(* The row of a2a_payment_intent_debit_signatures is all they share.  The  *)
(* settler runs once (PaymentIntent closes an intent once); every await    *)
(* is a step of its own, and a process may die between two of them.        *)
(***************************************************************************)
EXTENDS Naturals

CONSTANTS
    Admins,       \* concurrent calls of the reconciliation endpoints
    LateWrites,   \* a claim may overtake a write of reconciliation_pending under way
    NodesLag,     \* a node may not know yet a transaction that landed
    MaxPaid       \* bound: payments after which no node denies one any more

\* The code rules out neither; each is switched off only to show the other alone.
ASSUME SwitchAssumption == LateWrites \in BOOLEAN /\ NodesLag \in BOOLEAN
ASSUME MaxPaidAssumption == MaxPaid \in Nat
ASSUME SettlerAssumption == "settler" \notin Admins

VARIABLES
    status,    \* debit_settle_status; "none" is NULL
    attempted, \* debit_hop2_attempted_at IS NOT NULL: the lease of hop 2
    hash1,     \* debit_hop1_tx_hash IS NOT NULL
    hash2,     \* debit_resolution_tx_hash IS NOT NULL
    hop1,      \* the debit transaction on chain
    paid,      \* payments of this debit that reached the seller
    credited,  \* refunds of this debit to the buyer's budget
    settler,   \* where settleEscrowAware is
    pc,        \* where each call of the reconciliation endpoints is
    late,      \* history: whose write of reconciliation_pending a claim has overtaken
    lost       \* history: a late write erased a claim, or a node denied a payment

rowVars == <<status, attempted, hash1, hash2>>
moneyVars == <<hop1, paid, credited>>
historyVars == <<late, lost>>
vars == <<rowVars, moneyVars, settler, pc, historyVars>>

Pending == {"hop1_confirmed", "reconciliation_pending", "resolving_settle", "resolving_refund"}
Statuses == Pending \cup {"none", "settled", "resolved_settled", "resolved_refunded"}
SettlerSteps == {"hop1", "await", "seam", "recordAmbiguous", "defer", "recordHop1",
                 "lease", "hop2", "flip", "release", "done"}
AdminSteps == {"idle", "claimSettle", "claimRefund", "verify", "send", "saveTx",
               "recordSettled", "recordRefunded", "release"}

TypeOK ==
    /\ status \in Statuses
    /\ attempted \in BOOLEAN /\ hash1 \in BOOLEAN /\ hash2 \in BOOLEAN
    /\ hop1 \in {"unsent", "pending", "mined", "reverted"}
    /\ paid \in Nat /\ credited \in Nat
    /\ settler \in SettlerSteps
    /\ pc \in [Admins -> AdminSteps]
    /\ late \subseteq Admins \cup {"settler"}
    /\ lost \in BOOLEAN

\* A captured, valid signature whose amount and deadline still match.
Init ==
    /\ status = "none" /\ attempted = FALSE /\ hash1 = FALSE /\ hash2 = FALSE
    /\ hop1 = "unsent" /\ paid = 0 /\ credited = 0
    /\ settler = "hop1"
    /\ pc = [a \in Admins |-> "idle"]
    /\ late = {} /\ lost = FALSE

SettlerGoes(step) == settler' = step /\ UNCHANGED pc
AdminGoes(a, step) == pc' = [pc EXCEPT ![a] = step] /\ UNCHANGED settler

-----------------------------------------------------------------------------
(* settlePaymentIntentOnChain, by whoever calls it: operator -> seller.     *)

\* The handler reads "failed" as proof only when no transaction hash came with it;
\* an unknown result may have paid.
SettleResultsUnverified ==
    {[moved |-> m, verdict |-> v] : m \in BOOLEAN, v \in {"settled", "unequivocal", "ambiguous"}}
SettleResults ==
    {[moved |-> TRUE,  verdict |-> "settled"],
     [moved |-> FALSE, verdict |-> "unequivocal"],
     [moved |-> TRUE,  verdict |-> "ambiguous"],
     [moved |-> FALSE, verdict |-> "ambiguous"]}

Pays(r) == paid' = (IF r.moved THEN paid + 1 ELSE paid) /\ UNCHANGED <<hop1, credited>>

-----------------------------------------------------------------------------
(* Hop 1: executeDebitHop1.                                                 *)

\* Broadcast, or writeContract throws: the handler takes that for "not moved" although
\* the node may have accepted the transaction before the answer was lost.
SendHop1 ==
    /\ settler = "hop1"
    /\ \/ hop1' = "pending" /\ SettlerGoes("await")
       \/ hop1' \in {"unsent", "pending"} /\ SettlerGoes("seam")
    /\ UNCHANGED <<rowVars, paid, credited, historyVars>>

Mine ==
    /\ hop1 = "pending"
    /\ hop1' \in {"mined", "reverted"}
    /\ UNCHANGED <<rowVars, paid, credited, settler, pc, historyVars>>

\* The receipt: a Debited event confirms, a revert means not moved, and neither in
\* time (or success without the event) is ambiguous.
AwaitHop1 ==
    /\ settler = "await"
    /\ \/ hop1 = "mined" /\ SettlerGoes("recordHop1")
       \/ hop1 = "reverted" /\ SettlerGoes("seam")
       \/ SettlerGoes("recordAmbiguous")
    /\ UNCHANGED <<rowVars, moneyVars, historyVars>>

\* The operator-custodial path: hop 1 is taken not to have moved.
Seam ==
    /\ settler = "seam"
    /\ \E r \in SettleResults : Pays(r)
    /\ SettlerGoes("done")
    /\ UNCHANGED <<rowVars, historyVars>>

\* record_debit_hop1: the first hash and the first status stay.
WriteHop1 ==
    /\ hash1' = TRUE
    /\ status' = IF status = "none" THEN "hop1_confirmed" ELSE status
    /\ UNCHANGED <<attempted, hash2>>

\* recordDebitHop1 looks at no error: the settler goes on whether it wrote or not.
RecordHop1 ==
    /\ \/ settler = "recordHop1" /\ SettlerGoes("lease")
       \/ settler = "recordAmbiguous" /\ SettlerGoes("defer")
    /\ WriteHop1 \/ UNCHANGED rowVars
    /\ UNCHANGED <<moneyVars, historyVars>>

-----------------------------------------------------------------------------
(* record_debit_settle_status: takes and gives up the lease of hop 2.       *)

LeasableAlways == TRUE
\* the guard of the transition to resolving_settle, the only one that has a guard
Leasable == status \in {"none", "hop1_confirmed", "reconciliation_pending"}

TakeLease ==
    /\ status' = "resolving_settle" /\ attempted' = TRUE
    /\ UNCHANGED <<hash1, hash2>>

\* The write of reconciliation_pending has no guard: it lands on whatever it finds, and
\* erases the claim of whoever overtook it.  Unless LateWrites, nobody claims the row
\* while one is under way.
GiversUp ==
    {a \in Admins : pc[a] = "release"} \cup (IF settler \in {"defer", "release"} THEN {"settler"} ELSE {})
InTurn == LateWrites \/ GiversUp = {}
Overtakes == late' = late \cup GiversUp /\ UNCHANGED lost

GiveUpLease(p) ==
    /\ status' = "reconciliation_pending" /\ attempted' = FALSE
    /\ lost' = (lost \/ p \in late)
    /\ UNCHANGED <<hash1, hash2, late>>

\* hop 1 ambiguous: the debit is left to the reconciler, if the write lands
Defer ==
    /\ settler = "defer"
    /\ GiveUpLease("settler") \/ UNCHANGED <<rowVars, historyVars>>
    /\ SettlerGoes("done")
    /\ UNCHANGED moneyVars

\* Hop 2 is sent only on an answer that says the lease was written: a refusal, a failed
\* write and a lost answer all stop here.
Lease ==
    /\ settler = "lease" /\ InTurn
    /\ \/ Leasable /\ TakeLease /\ Overtakes /\ (SettlerGoes("hop2") \/ SettlerGoes("done"))
       \/ UNCHANGED <<rowVars, historyVars>> /\ SettlerGoes("done")
    /\ UNCHANGED moneyVars

Hop2 ==
    /\ settler = "hop2"
    /\ \E r \in SettleResults :
          /\ Pays(r)
          /\ SettlerGoes(CASE r.verdict = "settled" -> "flip"
                           [] r.verdict = "unequivocal" -> "release"
                           [] r.verdict = "ambiguous" -> "done")
    /\ UNCHANGED <<rowVars, historyVars>>

Flip ==
    /\ settler = "flip"
    /\ \/ status' = "settled" /\ UNCHANGED <<attempted, hash1, hash2>>
       \/ UNCHANGED rowVars
    /\ SettlerGoes("done")
    /\ UNCHANGED <<moneyVars, historyVars>>

Release ==
    /\ settler = "release"
    /\ GiveUpLease("settler") \/ UNCHANGED <<rowVars, historyVars>>
    /\ SettlerGoes("done")
    /\ UNCHANGED moneyVars

SettlerDies ==
    /\ settler # "done"
    /\ SettlerGoes("done")
    /\ UNCHANGED <<rowVars, moneyVars, historyVars>>

-----------------------------------------------------------------------------
(* resolveIntent: the chain decides the side, the claim decides who.        *)

\* reverifyDebitedByTxHash; without a hash, or with no receipt, nothing is decided
Side == IF hop1 = "mined" THEN "claimSettle" ELSE "claimRefund"

DecidableUnmined == hash1
Decidable == hash1 /\ hop1 \in {"mined", "reverted"}

ResolveIntent(a) ==
    /\ pc[a] = "idle"
    /\ status \in Pending
    /\ Decidable
    /\ AdminGoes(a, Side)
    /\ UNCHANGED <<rowVars, moneyVars, historyVars>>

ClaimableIgnoringLease ==
    status \in {"hop1_confirmed", "reconciliation_pending", "resolving_settle"}
\* claim_reconciliation, the settle side: a hop 2 attempted and not proved blocks it
Claimable ==
    /\ ~attempted \/ hash2
    /\ \/ status \in {"hop1_confirmed", "reconciliation_pending"}
       \/ status = "resolving_settle" /\ hash2

ClaimSettle(a) ==
    /\ pc[a] = "claimSettle"
    /\ InTurn
    /\ IF Claimable
       THEN TakeLease /\ Overtakes /\ AdminGoes(a, IF hash2 THEN "verify" ELSE "send")
       ELSE UNCHANGED <<rowVars, historyVars>> /\ AdminGoes(a, "idle")
    /\ UNCHANGED moneyVars

\* verifyDefaultChainSettle on the hash a dead reconciler left: no answer aborts, and a
\* node that does not know the transaction yet sends the payment again
Verify(a) ==
    /\ pc[a] = "verify"
    /\ \/ AdminGoes(a, "recordSettled") /\ UNCHANGED lost
       \/ AdminGoes(a, "idle") /\ UNCHANGED lost
       \/ NodesLag /\ paid < MaxPaid /\ AdminGoes(a, "send") /\ lost' = TRUE
    /\ UNCHANGED <<rowVars, moneyVars, late>>

SendHop2(a) ==
    /\ pc[a] = "send"
    /\ \E r \in SettleResults :
          /\ Pays(r)
          /\ AdminGoes(a, IF r.verdict = "settled" THEN "saveTx" ELSE "idle")
    /\ UNCHANGED <<rowVars, historyVars>>

\* the evidence a retry re-verifies, best effort
SaveTx(a) ==
    /\ pc[a] = "saveTx"
    /\ hash2' \in {hash2, hash2 \/ status = "resolving_settle"}
    /\ AdminGoes(a, "recordSettled")
    /\ UNCHANGED <<status, attempted, hash1, moneyVars, historyVars>>

\* record_reconciliation_resolution, resolved_settled
RecordSettled(a) ==
    /\ pc[a] = "recordSettled"
    /\ IF status = "resolving_settle"
       THEN status' = "resolved_settled" /\ hash2' = TRUE /\ UNCHANGED <<attempted, hash1>>
       ELSE UNCHANGED rowVars
    /\ AdminGoes(a, "idle")
    /\ UNCHANGED <<moneyVars, historyVars>>

ClaimRefund(a) ==
    /\ pc[a] = "claimRefund"
    /\ InTurn
    /\ IF status \in Pending
       THEN status' = "resolving_refund" /\ Overtakes /\ AdminGoes(a, "recordRefunded")
       ELSE UNCHANGED <<status, historyVars>> /\ AdminGoes(a, "idle")
    /\ UNCHANGED <<attempted, hash1, hash2, moneyVars>>

Refundable == status = "resolving_refund"

\* record_reconciliation_resolution, resolved_refunded: flip and credit are one commit
RecordRefunded(a) ==
    /\ pc[a] = "recordRefunded"
    /\ IF Refundable
       THEN status' = "resolved_refunded" /\ credited' = credited + 1
       ELSE UNCHANGED <<status, credited>>
    /\ AdminGoes(a, "idle")
    /\ UNCHANGED <<attempted, hash1, hash2, hop1, paid, historyVars>>

-----------------------------------------------------------------------------
(* The two supported exits of a lease nobody resolves (readLeasedRow).      *)

Leased == status = "resolving_settle" /\ ~hash2

\* resolveWithHop2Evidence: the chain shows the seller was paid
Evidence(a) ==
    /\ pc[a] = "idle"
    /\ Leased
    /\ paid > 0
    /\ AdminGoes(a, "recordSettled")
    /\ UNCHANGED <<rowVars, moneyVars, historyVars>>

\* releaseHop2Lease: somebody attests, truthfully, that no payment exists and that none
\* is under way; the row is read here and written in the next step.
AttestUnpaid(a) ==
    /\ pc[a] = "idle"
    /\ Leased
    /\ paid = 0 /\ settler # "hop2" /\ \A b \in Admins : pc[b] # "send"
    /\ AdminGoes(a, "release")
    /\ late' = late \ {a}
    /\ UNCHANGED <<rowVars, moneyVars, lost>>

ReleaseLease(a) ==
    /\ pc[a] = "release"
    /\ GiveUpLease(a) \/ UNCHANGED <<rowVars, historyVars>>
    /\ AdminGoes(a, "idle")
    /\ UNCHANGED moneyVars

\* the process of the call dies, or a query of it fails
AdminStops(a) ==
    /\ pc[a] # "idle"
    /\ AdminGoes(a, "idle")
    /\ UNCHANGED <<rowVars, moneyVars, historyVars>>

-----------------------------------------------------------------------------
SettlerNext ==
    \/ SendHop1 \/ AwaitHop1 \/ Seam \/ RecordHop1 \/ Defer
    \/ Lease \/ Hop2 \/ Flip \/ Release \/ SettlerDies

AdminNext(a) ==
    \/ ResolveIntent(a) \/ ClaimSettle(a) \/ Verify(a) \/ SendHop2(a) \/ SaveTx(a)
    \/ RecordSettled(a) \/ ClaimRefund(a) \/ RecordRefunded(a)
    \/ Evidence(a) \/ AttestUnpaid(a) \/ ReleaseLease(a) \/ AdminStops(a)

Next == Mine \/ SettlerNext \/ \E a \in Admins : AdminNext(a)

Spec == Init /\ [][Next]_vars

-----------------------------------------------------------------------------
(* Properties.                                                              *)

\* The seller of a debit is paid once, whoever sends hop 2 and whatever dies (cases A to
\* G of the migration that introduced the lease).  The code does not keep this.
SellerPaidOnce == paid <= 1

\* What it keeps: a second payment, or a second credit, follows a write of
\* reconciliation_pending that erased a claim or a node that denied a payment.
TwiceOnlyIfLost == ~lost => paid + credited <= 1

\* The budget is credited only for a debit that never left the escrow: a refund needs
\* the chain to say that hop 1 reverted, whatever was erased or denied before.
RefundNeedsRevert == credited > 0 => hop1 = "reverted" /\ paid = 0

\* A row that says the seller was paid is right (settled, resolved_settled).
SettledMeansPaid == status \in {"settled", "resolved_settled"} => paid > 0

\* One debit, one side: the abstract specification, in the steps that change it.
Resolution == INSTANCE DebitResolution
ResolvesOneSide == Resolution!RSpec

-----------------------------------------------------------------------------
(* Why they hold.                                                           *)

\* Until it has recorded hop 1 the settler is the only one who knows of the debit.
EarlySteps == {"hop1", "await", "seam", "recordAmbiguous", "recordHop1"}
EarlyIsAlone ==
    settler \in EarlySteps =>
        status = "none" /\ ~attempted /\ ~hash1 /\ paid = 0 /\ \A a \in Admins : pc[a] = "idle"

\* Which side somebody works on follows the chain.
SidesFollowChain ==
    /\ settler \in {"recordHop1", "lease", "hop2", "flip", "release"} => hop1 = "mined"
    /\ status \in {"resolving_settle", "settled", "resolved_settled"} => hop1 = "mined"
    /\ status \in {"resolving_refund", "resolved_refunded"} => hop1 = "reverted"
    /\ \A a \in Admins :
          /\ pc[a] \in {"claimSettle", "verify", "send", "saveTx"} => hop1 = "mined"
          /\ pc[a] \in {"claimRefund", "recordRefunded"} => hop1 = "reverted"

\* Once paid, hop 1 was mined, or the seam paid and no row tells.
Unrecorded == status = "none" /\ settler = "done" /\ ~hash1 /\ \A a \in Admins : pc[a] = "idle"
PaymentFollowsHop1 == paid > 0 => hop1 = "mined" \/ Unrecorded
CreditFollowsHop1 == credited > 0 => hop1 = "reverted" /\ status # "none" /\ settler \notin EarlySteps

\* What is written down about a payment is true.
RecordsAreTrue ==
    /\ hash2 => paid > 0
    /\ settler = "flip" => paid > 0
    /\ status \in {"settled", "resolved_settled"} => paid > 0
    /\ \A a \in Admins : pc[a] \in {"verify", "saveTx", "recordSettled"} => paid > 0

\* Those hold whatever is erased or denied; these until something is.
\* Whoever sends hop 2 holds the lease, alone, and whoever still gives one up is late.
LeaseHeld == status = "resolving_settle" /\ attempted /\ ~hash2 /\ paid = 0 /\ GiversUp \subseteq late
SenderHoldsLease ==
    /\ settler = "hop2" => LeaseHeld /\ \A a \in Admins : pc[a] # "send"
    /\ \A a, b \in Admins : pc[a] = "send" => LeaseHeld /\ (pc[b] = "send" => a = b)

\* A lease is given up in time only for a debit nobody paid or refunded.
GivenUpUnpaid ==
    \/ GiversUp \subseteq late
    \/ /\ paid = 0
       /\ status \in {"none", "hop1_confirmed", "reconciliation_pending", "resolving_settle"}

\* Once paid, the row is leased or terminal, or the seam paid and no row tells.
PaidIsKept ==
    /\ paid <= 1
    /\ paid > 0 =>
          \/ status \in {"resolving_settle", "settled", "resolved_settled"} /\ attempted
          \/ Unrecorded

CreditIsTerminal == credited <= 1 /\ (credited > 0 => status = "resolved_refunded")

\* The invariant the proofs are by induction on.
LeaseInv == SenderHoldsLease /\ GivenUpUnpaid /\ PaidIsKept /\ CreditIsTerminal
SettleInv ==
    /\ TypeOK /\ EarlyIsAlone /\ SidesFollowChain
    /\ PaymentFollowsHop1 /\ CreditFollowsHop1 /\ RecordsAreTrue
    /\ lost \/ LeaseInv
=============================================================================
