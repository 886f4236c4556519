--------------------------- MODULE DebitResolution ---------------------------
(***************************************************************************)
(* What the escrow path promises about one signed debit: whatever crashes, *)
(* is retried or is done by hand, it ends on one side.  Either the seller  *)
(* is paid or the buyer's budget is credited, never both; and once, as     *)
(* long as the gateway has not lost track of what it did.                  *)
(***************************************************************************)
EXTENDS Naturals

VARIABLES
    paid,     \* payments of this debit that reached the seller
    credited, \* refunds of this debit to the buyer's budget
    lost      \* the gateway took back a claim of its own, or was told of no payment

RInit == paid = 0 /\ credited = 0 /\ lost = FALSE

Pay ==
    /\ credited = 0 /\ (paid = 0 \/ lost)
    /\ paid' = paid + 1 /\ UNCHANGED <<credited, lost>>

Refund ==
    /\ paid = 0 /\ (credited = 0 \/ lost)
    /\ credited' = credited + 1 /\ UNCHANGED <<paid, lost>>

LoseTrack ==
    /\ paid + credited <= 1
    /\ lost' = TRUE /\ UNCHANGED <<paid, credited>>

RNext == Pay \/ Refund \/ LoseTrack

RSpec == RInit /\ [][RNext]_<<paid, credited, lost>>
=============================================================================
