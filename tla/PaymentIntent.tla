---------------------------- MODULE PaymentIntent ----------------------------
(***************************************************************************)
(* One payment intent of the gateway: the a2a_payment_intents row, the     *)
(* SECURITY DEFINER functions that change it under SELECT ... FOR UPDATE   *)
(* (supabase/migrations, WKH-135, WKH-139, WKH-189) and the TypeScript     *)
(* handlers that call them (src/services/payment-intent.ts and             *)
(* src/services/arbiter.ts).                                               *)
(*                                                                         *)
(* A "worker" is one in-flight request or one pass of the sweep: closeSession, *)
(* settleUpto, openDispute, resolveHold, expireStale.  Each step of a      *)
(* worker is one database call (a transaction) or one on-chain settle; the *)
(* local computation between two calls belongs to the call before it.  A   *)
(* worker may stop between any two steps: the process dies, the response   *)
(* of a committed call is lost, or the handler throws.                     *)
(*                                                                         *)
(* Amounts are micro-USD.  charged, refunded and paid are the money of     *)
(* this intent: debits and credits of the buyer's prepaid key              *)
(* (increment_a2a_key_spend, refund_a2a_key_spend) and the on-chain        *)
(* transfer from the operator to the seller.                               *)
(*                                                                         *)
(* No endpoint looks at intent_type, so every endpoint may be called on    *)
(* both kinds of intent.  frozenBy, due and finishedBy are history: they   *)
(* change no behaviour and only let a property say which endpoint did what. *)
(***************************************************************************)
EXTENDS Naturals

CONSTANTS
    Workers,              \* concurrent requests and sweeps
    VoucherIds,           \* voucher_id values a seller may present
    VoucherAmount,        \* amount of each voucher
    Authorized,           \* authorized_usd: session deposit or upto cap
    Usages,               \* reportedUsageUsd values sent to /upto/:id/settle
    ArbAmounts            \* p_arb_amount values, before the clamp

ASSUME AuthorizedAssumption == Authorized \in Nat
ASSUME VoucherAssumption == VoucherAmount \in [VoucherIds -> Nat]
ASSUME InputAssumption == Usages \subseteq Nat /\ ArbAmounts \subseteq Nat

VARIABLES
    type,       \* intent_type
    status,     \* status column; "absent" before the INSERT
    outcome,    \* settle_outcome column; "null" until a verdict is recorded
    consumed,   \* consumed_usd column
    seen,       \* a2a_payment_vouchers rows of this intent
    expired,    \* expires_at is in the past
    aged,       \* updated_at is older than CLOSING_STALE_SECONDS
    charged,    \* total debited from the buyer's key for this intent
    refunded,   \* total credited back to the buyer's key
    paid,       \* total transferred on-chain to the seller
    settles,    \* on-chain settles launched
    pc,         \* per worker: the next call it will make
    path,       \* per worker: "session", "upto", "dispute" or "admin"
    amt,        \* per worker: the amount it settles (finalUsd / arbUsd)
    verdict,    \* per worker: the verdict it will record and finalize with
    frozenBy,   \* history: the path that froze the amount, "none" before
    due,        \* history: the amount that path set out to settle
    finishedBy  \* history: the path whose finalize made the row terminal

historyVars == <<frozenBy, due, finishedBy>>
rowVars == <<type, status, outcome, consumed, historyVars>>
moneyVars == <<charged, refunded, paid, settles>>
workerVars == <<pc, path, amt, verdict>>
clockVars == <<expired, aged>>
vars == <<rowVars, seen, clockVars, moneyVars, workerVars>>

Types == {"session", "upto"}
Terminal == {"settled", "refunded", "failed"}
Closing == {"closing", "arb_closing"}
ArbStates == {"disputed", "arb_hold", "arb_closing"}
Statuses == {"absent", "open"} \cup Closing \cup ArbStates \cup Terminal
Verdicts == {"settled", "failed_unequivocal", "failed_ambiguous"}
Paths == {"session", "upto", "dispute", "admin"}
Steps == {"idle", "sweepClose", "sweepArb", "resolve", "override", "revert",
          "debit", "settle", "record", "finalize"}
\* steps of a handler that moved the row into a closing state itself
Settling == {"debit", "settle"}

\* SQL LEAST
Least(a, b) == IF a <= b THEN a ELSE b

TypeOK ==
    /\ type \in Types
    /\ status \in Statuses
    /\ outcome \in Verdicts \cup {"null"}
    /\ consumed \in Nat
    /\ seen \subseteq VoucherIds
    /\ expired \in BOOLEAN /\ aged \in BOOLEAN
    /\ charged \in Nat /\ refunded \in Nat /\ paid \in Nat /\ settles \in Nat
    /\ pc \in [Workers -> Steps]
    /\ path \in [Workers -> Paths]
    /\ amt \in [Workers -> Nat]
    /\ verdict \in [Workers -> Verdicts]
    /\ frozenBy \in Paths \cup {"none"} /\ finishedBy \in Paths \cup {"none"}
    /\ due \in Nat

Init ==
    /\ type \in Types
    /\ status = "absent" /\ outcome = "null" /\ consumed = 0
    /\ seen = {} /\ expired = FALSE /\ aged = FALSE
    /\ charged = 0 /\ refunded = 0 /\ paid = 0 /\ settles = 0
    /\ pc = [w \in Workers |-> "idle"]
    /\ path = [w \in Workers |-> "session"]
    /\ amt = [w \in Workers |-> 0]
    /\ verdict = [w \in Workers |-> "failed_ambiguous"]
    /\ frozenBy = "none" /\ due = 0 /\ finishedBy = "none"

-----------------------------------------------------------------------------
(* Worker bookkeeping.                                                      *)

Go(w, step) == pc' = [pc EXCEPT ![w] = step]

\* A worker takes up a unit of work: where it goes next and with what locals.
Take(w, step, p, a, v) ==
    /\ pc' = [pc EXCEPT ![w] = step]
    /\ path' = [path EXCEPT ![w] = p]
    /\ amt' = [amt EXCEPT ![w] = a]
    /\ verdict' = [verdict EXCEPT ![w] = v]

\* The handler answers its caller: locals are gone.
Done(w) == Take(w, "idle", "session", 0, "failed_ambiguous")

\* Any UPDATE of the row fires the updated_at trigger.
Touch == aged' = FALSE /\ UNCHANGED expired

-----------------------------------------------------------------------------
(* Opening and metering.                                                    *)

\* open_payment_intent: the INSERT and, for a session, the reservation of the
\* whole deposit commit together.  A refused reservation leaves no row.
Open ==
    /\ status = "absent"
    /\ status' = "open"
    /\ charged' = IF type = "session" THEN Authorized ELSE 0
    /\ Touch
    /\ UNCHANGED <<type, outcome, consumed, seen, refunded, paid, settles, workerVars>>
    /\ UNCHANGED historyVars

VoucherOpenLate == status \in {"open", "closing"}
VoucherOpen == status = "open"

\* accumulate_payment_voucher: a voucher counts once, and never past the deposit.
Voucher(v) ==
    /\ VoucherOpen
    /\ v \notin seen
    /\ seen' = seen \cup {v}
    /\ consumed' = Least(consumed + VoucherAmount[v], Authorized)
    /\ Touch
    /\ UNCHANGED <<type, status, outcome, moneyVars, workerVars, historyVars>>

-----------------------------------------------------------------------------
(* Closing: close_payment_intent_for_settle, then debit, settle, record and *)
(* finalize.                                                                 *)

\* normalizeVerdict: no persisted verdict is never read as success.
NormalizeOptimistic(o) == IF o = "null" THEN "settled" ELSE o
Normalize(o) == IF o = "null" THEN "failed_ambiguous" ELSE o

ClosableTwice == status \in {"open", "closing"}
Closable == status = "open"

\* The caller that moves open -> closing owns the settlement.  A session closes
\* at what its vouchers consumed; an upto persists what it is about to charge.
CloseRow(w, p, usage) ==
    LET rowDue == IF type = "session" THEN Least(consumed, Authorized)
                                      ELSE Least(Authorized, usage)
        final == IF p = "session" THEN rowDue ELSE Least(Authorized, usage)
    IN  /\ Closable
        /\ status' = "closing"
        /\ consumed' = IF type = "session" THEN consumed ELSE rowDue
        /\ Take(w, IF final = 0 THEN "record" ELSE IF p = "upto" THEN "debit" ELSE "settle",
                p, final, IF final = 0 THEN "settled" ELSE "failed_ambiguous")
        /\ Touch
        /\ frozenBy' = p /\ due' = final
        /\ UNCHANGED <<type, outcome, seen, moneyVars, finishedBy>>

\* A row somebody else left in closing: a NULL verdict means its settle is in
\* flight, unless the caller is the sweep (stale), which takes it for an orphan.
RecoverClosing(w, p, stale) ==
    /\ status = "closing"
    /\ outcome # "null" \/ stale
    /\ Take(w, "finalize", p, consumed, Normalize(outcome))
    /\ UNCHANGED <<rowVars, seen, clockVars, moneyVars>>

\* Everything else is answered from the row without touching it.
AnswerFromRow(w, stale) ==
    /\ status # "open"
    /\ status = "closing" => outcome = "null" /\ ~stale
    /\ Done(w)
    /\ UNCHANGED <<rowVars, seen, clockVars, moneyVars>>

CloseOrRecover(w, p, stale, usage) ==
    \/ CloseRow(w, p, usage)
    \/ RecoverClosing(w, p, stale)
    \/ AnswerFromRow(w, stale)

CloseSession(w) ==
    /\ pc[w] = "idle"
    /\ CloseOrRecover(w, "session", FALSE, 0)

SettleUpto(w, usage) ==
    /\ pc[w] = "idle"
    /\ CloseOrRecover(w, "upto", FALSE, usage)

\* debitBuyer: an error reaches the handler both when nothing was debited and
\* when the answer of a committed debit is lost; the intent then fails unrefunded.
Debit(w) ==
    /\ pc[w] = "debit"
    /\ \/ charged' = charged + amt[w] /\ Go(w, "settle")
       \/ charged' \in {charged, charged + amt[w]} /\ Go(w, "finalize")
    /\ UNCHANGED <<rowVars, seen, clockVars, refunded, paid, settles, path, amt, verdict>>

\* What an on-chain settle can do and what the handler concludes: the verdict
\* failed_unequivocal needs a canonical refusal that carries no transaction hash.
SettleResultsHashIgnored ==
    {[moved |-> TRUE, verdict |-> "settled"],
     [moved |-> FALSE, verdict |-> "failed_unequivocal"],
     [moved |-> TRUE, verdict |-> "failed_unequivocal"]}
SettleResults ==
    {[moved |-> TRUE, verdict |-> "settled"],
     [moved |-> FALSE, verdict |-> "failed_unequivocal"],
     [moved |-> TRUE, verdict |-> "failed_ambiguous"],
     [moved |-> FALSE, verdict |-> "failed_ambiguous"]}

\* settlePaymentIntentOnChain: operator -> seller for the frozen amount.
Settle(w) ==
    /\ pc[w] = "settle"
    /\ settles' = settles + 1
    /\ \E r \in SettleResults :
          /\ paid' = IF r.moved THEN paid + amt[w] ELSE paid
          /\ verdict' = [verdict EXCEPT ![w] = r.verdict]
    /\ Go(w, "record")
    /\ UNCHANGED <<rowVars, seen, clockVars, charged, refunded, path, amt>>

\* record_settle_outcome, best effort: it only annotates a row still closing.
Record(w) ==
    /\ pc[w] = "record"
    /\ Go(w, "finalize")
    /\ \/ /\ status \in Closing
          /\ outcome' = verdict[w]
          /\ Touch
       \/ UNCHANGED <<outcome, clockVars>>
    /\ UNCHANGED <<type, status, consumed, seen, moneyVars, path, amt, verdict, historyVars>>

Residual(w) == IF path[w] = "upto" \/ amt[w] > Authorized THEN 0 ELSE Authorized - amt[w]

\* the credit finalize_payment_intent makes in the transaction of the status flip
RefundDue(w) ==
    CASE verdict[w] = "settled" -> IF type = "session" THEN Residual(w) ELSE 0
      [] verdict[w] = "failed_unequivocal" -> IF type = "session" THEN Authorized ELSE consumed
      [] verdict[w] = "failed_ambiguous" -> 0

FinalStatus(v) ==
    CASE v = "settled" -> "settled"
      [] v = "failed_unequivocal" -> "refunded"
      [] v = "failed_ambiguous" -> "failed"

FinalizableAlways == status # "absent"
Finalizable == status \in Closing

\* finalize_payment_intent: on a row that is no longer closing it is a no-op.
Finalize(w) ==
    /\ pc[w] = "finalize"
    /\ IF Finalizable
       THEN /\ status' = FinalStatus(verdict[w])
            /\ outcome' = verdict[w]
            /\ refunded' = refunded + RefundDue(w)
            /\ finishedBy' = path[w]
            /\ Touch
       ELSE UNCHANGED <<status, outcome, refunded, finishedBy, clockVars>>
    /\ Done(w)
    /\ UNCHANGED <<type, consumed, seen, charged, paid, settles, frozenBy, due>>

\* The call fails and the row stays closing; openDispute's catch tries a revert.
FinalizeFails(w) ==
    /\ pc[w] = "finalize"
    /\ path[w] = "dispute"
    /\ Go(w, "revert")
    /\ UNCHANGED <<rowVars, seen, clockVars, moneyVars, path, amt, verdict>>

-----------------------------------------------------------------------------
(* Disputes.                                                                *)

OpenDispute(w) ==
    /\ pc[w] = "idle"
    /\ status = "open"
    /\ status' = "disputed"
    /\ Take(w, "resolve", "dispute", 0, "failed_ambiguous")
    /\ Touch
    /\ UNCHANGED <<type, outcome, consumed, seen, moneyVars, historyVars>>

\* holdArbitration: a conditional UPDATE whose row count nobody looks at.
Hold(w) ==
    /\ pc[w] = "resolve"
    /\ IF status = "disputed" THEN status' = "arb_hold" /\ Touch
                              ELSE UNCHANGED <<status, clockVars>>
    /\ Done(w)
    /\ UNCHANGED <<type, outcome, consumed, seen, moneyVars, historyVars>>

\* Evidence, classification or the hold update throws.
ResolveThrows(w) ==
    /\ pc[w] = "resolve"
    /\ Go(w, "revert")
    /\ UNCHANGED <<rowVars, seen, clockVars, moneyVars, path, amt, verdict>>

\* the clamp of close_payment_intent_for_arbitration
ArbClampMissing(a) == a
ArbClamp(a) == Least(Authorized, a)

\* close_payment_intent_for_arbitration and what executeArbitration does next.
ArbTransition(w, a) ==
    /\ status \in {"disputed", "arb_hold"}
    /\ status' = "arb_closing"
    /\ consumed' = ArbClamp(a)
    /\ Take(w, IF ArbClamp(a) = 0 THEN "record" ELSE "settle", path[w], ArbClamp(a),
            IF ArbClamp(a) = 0 THEN "settled" ELSE "failed_ambiguous")
    /\ Touch
    /\ frozenBy' = path[w] /\ due' = ArbClamp(a)
    /\ UNCHANGED <<type, outcome, seen, moneyVars, finishedBy>>

\* applyRecovery
ArbRecover(w, stale) ==
    /\ status = "arb_closing"
    /\ IF outcome # "null" \/ stale
       THEN Take(w, "finalize", path[w], consumed, Normalize(outcome))
       ELSE Done(w)
    /\ UNCHANGED <<rowVars, seen, clockVars, moneyVars>>

\* INTENT_NOT_OPEN: openDispute reverts (if the row is disputed), resolveHold just fails.
ArbRefused(w) ==
    /\ status \notin ArbStates
    /\ IF path[w] = "dispute" THEN Go(w, "revert") /\ UNCHANGED <<path, amt, verdict>>
                              ELSE Done(w)
    /\ UNCHANGED <<rowVars, seen, clockVars, moneyVars>>

ExecuteArbitration(w, a) ==
    /\ pc[w] \in {"resolve", "override"}
    /\ \/ ArbTransition(w, a)
       \/ ArbRecover(w, FALSE)
       \/ ArbRefused(w)

\* resolveHold reads the status first; the close function decides again.
ResolveHold(w) ==
    /\ pc[w] = "idle"
    /\ status = "arb_hold"
    /\ Take(w, "override", "admin", 0, "failed_ambiguous")
    /\ UNCHANGED <<rowVars, seen, clockVars, moneyVars>>

RevertableAny == status \in ArbStates \cup {"failed"}
Revertable == status = "disputed"

\* revertDisputeToOpen: an UPDATE guarded by status = 'disputed'.
RevertDisputeToOpen(w) ==
    /\ pc[w] = "revert"
    /\ IF Revertable THEN status' = "open" /\ Touch
                     ELSE UNCHANGED <<status, clockVars>>
    /\ Done(w)
    /\ UNCHANGED <<type, outcome, consumed, seen, moneyVars, historyVars>>

-----------------------------------------------------------------------------
(* expireStale: the query and what it does to a row are separate calls.     *)

SweepQuery(w) ==
    /\ pc[w] = "idle"
    /\ \/ status = "open" /\ expired /\ Take(w, "sweepClose", type, 0, "failed_ambiguous")
       \/ status = "closing" /\ aged /\ Take(w, "sweepClose", type, 0, "failed_ambiguous")
       \/ status = "arb_closing" /\ aged /\ Take(w, "sweepArb", "admin", 0, "failed_ambiguous")
       \/ status = "disputed" /\ aged /\ Take(w, "revert", "session", 0, "failed_ambiguous")
    /\ UNCHANGED <<rowVars, seen, clockVars, moneyVars>>

\* closeSession(id, owner, true) or settleUpto(id, owner, 0, true)
SweepClose(w) ==
    /\ pc[w] = "sweepClose"
    /\ CloseOrRecover(w, path[w], TRUE, 0)

\* recoverArbClosing: its call would itself close a row still in dispute, at 0.
SweepArb(w) ==
    /\ pc[w] = "sweepArb"
    /\ \/ ArbRecover(w, TRUE)
       \/ /\ status \in {"disputed", "arb_hold"}
          /\ status' = "arb_closing" /\ consumed' = 0
          /\ Done(w) /\ Touch
          /\ frozenBy' = path[w] /\ due' = 0
          /\ UNCHANGED <<type, outcome, seen, moneyVars, finishedBy>>
       \/ /\ status \notin ArbStates
          /\ Done(w)
          /\ UNCHANGED <<rowVars, seen, clockVars, moneyVars>>

-----------------------------------------------------------------------------
(* Environment.                                                             *)

\* Process death, a lost response, or an exception: the worker is gone.
Crash(w) ==
    /\ pc[w] # "idle"
    /\ Done(w)
    /\ UNCHANGED <<rowVars, seen, clockVars, moneyVars>>

Expire ==
    /\ status # "absent" /\ ~expired
    /\ expired' = TRUE
    /\ UNCHANGED <<rowVars, seen, aged, moneyVars, workerVars>>

\* CLOSING_STALE_SECONDS pass without an update of the row, also while a settle is
\* still under way.
Age ==
    /\ status # "absent" /\ ~aged
    /\ aged' = TRUE
    /\ UNCHANGED <<rowVars, seen, expired, moneyVars, workerVars>>

Request(w) ==
    \/ CloseSession(w) \/ (\E u \in Usages : SettleUpto(w, u))
    \/ OpenDispute(w) \/ ResolveHold(w) \/ SweepQuery(w)

Continue(w) ==
    \/ Debit(w) \/ Settle(w) \/ Record(w) \/ Finalize(w) \/ FinalizeFails(w)
    \/ Hold(w) \/ ResolveThrows(w) \/ (\E a \in ArbAmounts : ExecuteArbitration(w, a))
    \/ RevertDisputeToOpen(w) \/ SweepClose(w) \/ SweepArb(w)

Next ==
    \/ Open \/ Expire \/ Age
    \/ \E v \in VoucherIds : Voucher(v)
    \/ \E w \in Workers : Request(w) \/ Continue(w) \/ Crash(w)

Spec == Init /\ [][Next]_vars

-----------------------------------------------------------------------------
(* Safety.                                                                  *)

\* At most one on-chain settle is ever launched for an intent, whatever closes,
\* retries, disputes, overrides, sweeps and reverts race for it: the promise of
\* the status gates under FOR UPDATE ("doble-settle imposible").
SettledOnce == settles <= 1

\* The seller never receives more than the deposit or the cap, not even when the
\* arbiter forces the amount.
PaidWithinAuthorization == paid <= Authorized

\* A buyer whose deposit or debit was credited back in full is one whose money
\* never reached the seller: a refund needs proof that the settle did not happen.
RefundedMeansUnpaid == status = "refunded" => paid = 0

\* An upto whose amount an arbitration froze: nobody was ever charged for it.
DisputedUpto == type = "upto" /\ frozenBy \in {"dispute", "admin"}

\* A session that the upto endpoint froze, or finished.
SessionAsUpto == type = "session" /\ "upto" \in {frozenBy, finishedBy}

\* The operator is out of pocket for one thing only: what left for the seller plus what
\* was credited back to the buyer exceeds what the buyer was charged at most by the
\* amount an arbitration froze on an upto, whatever endpoints are called on the intent.
OnlyDisputedUptosUnfunded ==
    paid + refunded <= charged + (IF DisputedUpto THEN due ELSE 0)

\* When the row says settled the books are exact: the seller has the frozen amount and
\* the buyer was charged neither more nor less than that.  For an intent that the other
\* type's endpoint worked on, the buyer's loss is at most the deposit.
SettledBooksBalance ==
    status = "settled" =>
        /\ paid = due
        /\ IF SessionAsUpto \/ DisputedUpto
           THEN charged <= paid + refunded + Authorized
           ELSE paid = consumed /\ charged = paid + refunded

\* What the arbiter's clamp is said to guarantee ("no crear plata"): no money leaves, to
\* the seller or back to the buyer, that was not charged.  The dispute of an upto breaks it.
OperatorNeverOutOfPocket == paid + refunded <= charged

\* What finalize_payment_intent says of a certain failure ("el buyer queda entero"): the
\* refund returns everything charged.  A session settled as an upto breaks it.
BuyerMadeWhole == status = "refunded" => refunded = charged

\* A finished intent stays finished: no late verdict, revert, hold, voucher or
\* sweep changes its status, its amount or what was credited.
TerminalIsFinal ==
    [][(status \in Terminal) => UNCHANGED <<status, outcome, consumed, refunded>>]_vars

-----------------------------------------------------------------------------
(* Why the safety properties hold: the inductive strengthening.             *)

\* No amount is frozen yet: still open, or under dispute.
Unfrozen == {"absent", "open", "disputed", "arb_hold"}

\* Before the freeze nobody settles and nobody carries a verdict.
NothingBeforeFreeze ==
    status \in Unfrozen =>
        /\ outcome = "null" /\ settles = 0
        /\ \A w \in Workers : pc[w] \notin Settling /\ verdict[w] = "failed_ambiguous"

\* Only the caller that froze the amount may launch the settle, and only once.
OneSettler ==
    /\ settles <= 1
    /\ \A w \in Workers : pc[w] \in Settling =>
          /\ settles = 0 /\ amt[w] <= Authorized
          /\ \A u \in Workers : u # w => pc[u] \notin Settling

\* Money reaches the seller only through that settle.
PaidBySettle ==
    /\ settles = 0 => paid = 0
    /\ paid <= Authorized

\* A verdict of certain failure exists, in the row or in some worker's hands, only
\* when the one settle is over and moved nothing.
CertainFailure ==
    outcome = "failed_unequivocal" \/ \E w \in Workers : verdict[w] = "failed_unequivocal"

RefundNeedsProof ==
    /\ CertainFailure => paid = 0 /\ \A w \in Workers : pc[w] \notin Settling
    /\ status = "refunded" => outcome = "failed_unequivocal"

\* The invariant the proofs are by induction on: at any moment at most one worker
\* can still launch the settle, and every verdict in the system is one that settle
\* justifies.
SettlementInv ==
    TypeOK /\ NothingBeforeFreeze /\ OneSettler /\ PaidBySettle /\ RefundNeedsProof

-----------------------------------------------------------------------------
(* Why the books balance.                                                   *)

\* Somebody knows how the settle ended.
Held(v) == outcome = v \/ \E w \in Workers : verdict[w] = v

\* The deposit, reserved as a session opens.
Reserve == IF type = "session" /\ status # "absent" THEN Authorized ELSE 0

\* The row says what is settled, unless the upto endpoint froze a session: that charges
\* and transfers the usage it was told, and leaves the row at what the vouchers consumed.
FrozenAmount ==
    /\ consumed <= Authorized /\ due <= Authorized
    /\ status \in Unfrozen => frozenBy = "none" /\ due = 0
    /\ status \notin Unfrozen =>
          /\ frozenBy # "none"
          /\ due = consumed \/ (type = "session" /\ frozenBy = "upto")
    /\ type = "upto" /\ frozenBy = "session" => due = 0

\* A sweep closes through one of the two endpoints; an arbitration is the buyer's dispute
\* or an admin's.
Routed(step, p) ==
    /\ step = "sweepClose" => p \in Types
    /\ step \in {"resolve", "override", "sweepArb"} => p \in {"dispute", "admin"}

\* Whoever settles does it with the frozen amount; whoever records or finalizes has that
\* or the amount of the row.
Busy == Settling \cup {"record", "finalize"}
AmountsAgree ==
    \A w \in Workers :
        /\ pc[w] \in Busy => status \notin Unfrozen /\ amt[w] \in {due, consumed}
        /\ pc[w] \in Busy /\ path[w] # "upto" => amt[w] = consumed
        /\ pc[w] \in Settling => amt[w] = due
        /\ pc[w] = "debit" => frozenBy = "upto"
        /\ Routed(pc[w], path[w])

\* The verdict settled, too, exists only when the transfer is over and paid the amount.
SettledNeedsProof ==
    /\ paid \in {0, due}
    /\ Held("settled") => paid = due /\ \A w \in Workers : pc[w] \notin Settling
    /\ status = "settled" => outcome = "settled"

\* A session is charged its deposit when it opens; the upto endpoint charges its amount
\* before the settle; an arbitration charges nothing.
Charges ==
    IF frozenBy = "upto"
    THEN /\ charged \in {Reserve, Reserve + due}
         /\ \A w \in Workers : pc[w] = "debit" => charged = Reserve
         /\ \/ paid > 0 \/ Held("settled") \/ Held("failed_unequivocal")
            \/ \E w \in Workers : pc[w] = "settle"
            => charged = Reserve + due
    ELSE charged = Reserve

\* The one credit is the one finalize makes with the status.
Refunds ==
    refunded = CASE status = "settled" /\ type = "session" /\ finishedBy # "upto" ->
                        Authorized - consumed
                 [] status = "refunded" /\ type = "session" -> Authorized
                 [] status = "refunded" /\ type = "upto" -> consumed
                 [] OTHER -> 0

BooksInv ==
    SettlementInv /\ FrozenAmount /\ AmountsAgree /\ SettledNeedsProof /\ Charges /\ Refunds

-----------------------------------------------------------------------------
(* The contract this implements: disputes and holds are still "open" (no    *)
(* amount is frozen), and the two closing states are one.                   *)

ContractPhase ==
    CASE status \in {"disputed", "arb_hold"} -> "open"
      [] status = "arb_closing" -> "closing"
      [] OTHER -> status

\* The amount is the row's, except when the upto endpoint froze a session.
ContractDue ==
    IF ContractPhase \in {"absent", "open"} THEN 0
    ELSE IF type = "session" /\ frozenBy = "upto" THEN due ELSE consumed

Contract == INSTANCE IntentContract
                WITH kind <- type, phase <- ContractPhase, due <- ContractDue

\* Every behaviour of the handlers is one the contract allows.
ImplementsContract == Contract!CSpec
=============================================================================
