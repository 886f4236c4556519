--------------------------- MODULE IntentContract ---------------------------
(***************************************************************************)
(* What a payment intent promises its buyer and its seller, with no        *)
(* requests, verdict columns, sweeps or holds in it.  One amount is frozen *)
(* by one of the endpoints and is transferred at most once.  A session is  *)
(* covered by its deposit, what the upto endpoint froze by a charge made    *)
(* before the transfer, and at the end the buyer has been charged for what *)
(* was transferred -- or the intent failed and waits for reconciliation     *)
(* with nothing credited back.  Called on an intent of the other kind an   *)
(* endpoint does what it does for its own: the upto endpoint charges a     *)
(* session on top of its deposit and returns no residual, and an           *)
(* arbitration pays for an upto without any charge.                        *)
(***************************************************************************)
EXTENDS Naturals

CONSTANT Authorized   \* the deposit of a session, the cap of an upto

VARIABLES
    kind,       \* "session" or "upto"
    phase,      \* "absent", "open", "closing", "settled", "refunded", "failed"
    frozenBy,   \* the endpoint that froze the amount
    finishedBy, \* the endpoint that finished the intent
    due,        \* the frozen amount; 0 while the intent is open
    charged,    \* debited from the buyer
    refunded,   \* credited back to the buyer
    paid        \* transferred to the seller

contractVars == <<kind, phase, frozenBy, finishedBy, due, charged, refunded, paid>>

Endpoints == {"session", "upto", "dispute", "admin"}

Deposit == IF kind = "session" THEN Authorized ELSE 0

CInit ==
    /\ kind \in {"session", "upto"} /\ phase = "absent"
    /\ frozenBy = "none" /\ finishedBy = "none"
    /\ due = 0 /\ charged = 0 /\ refunded = 0 /\ paid = 0

COpen ==
    /\ phase = "absent"
    /\ phase' = "open" /\ charged' = Deposit
    /\ UNCHANGED <<kind, frozenBy, finishedBy, due, refunded, paid>>

\* Nothing was used of an upto that the session endpoint closes.
Freeze ==
    /\ phase = "open"
    /\ phase' = "closing"
    /\ frozenBy' \in Endpoints /\ due' \in 0 .. Authorized
    /\ kind = "upto" /\ frozenBy' = "session" => due' = 0
    /\ UNCHANGED <<kind, finishedBy, charged, refunded, paid>>

\* The upto endpoint charges the amount it froze, before any transfer.
Charge ==
    /\ phase \in {"closing", "failed"} /\ frozenBy = "upto"
    /\ charged = Deposit /\ paid = 0
    /\ charged' = charged + due
    /\ UNCHANGED <<kind, phase, frozenBy, finishedBy, due, refunded, paid>>

\* One transfer of the frozen amount, which is charged if it is to be charged.
Pay ==
    /\ phase \in {"closing", "failed"} /\ paid = 0
    /\ charged = Deposit + (IF frozenBy = "upto" THEN due ELSE 0)
    /\ paid' = due
    /\ UNCHANGED <<kind, phase, frozenBy, finishedBy, due, charged, refunded>>

Finish(end) ==
    /\ phase = "closing"
    /\ phase' = end
    /\ finishedBy' \in Endpoints
    /\ UNCHANGED <<kind, frozenBy, due, charged, paid>>

\* What was transferred was due, and the residual of a deposit goes back: none through
\* the upto endpoint, and not told when that endpoint froze another amount.
SettleIntent ==
    /\ Finish("settled")
    /\ paid = due
    /\ IF kind = "upto" \/ finishedBy' = "upto" THEN refunded' = refunded
       ELSE IF frozenBy = "upto" THEN refunded' \in 0 .. Authorized
       ELSE refunded' = charged - paid

\* Nothing was transferred: a session gets its deposit back, an upto its amount.
RefundIntent ==
    /\ Finish("refunded")
    /\ paid = 0
    /\ refunded' = IF kind = "session" THEN Authorized ELSE due

FailIntent == Finish("failed") /\ UNCHANGED refunded

CNext == COpen \/ Freeze \/ Charge \/ Pay \/ SettleIntent \/ RefundIntent \/ FailIntent

CSpec == CInit /\ [][CNext]_contractVars
=============================================================================
