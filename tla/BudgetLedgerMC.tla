--------------------------- MODULE BudgetLedgerMC ---------------------------
(* Three payments to one destination, two of them by one delegation; two days. *)
EXTENDS BudgetLedger, TLC

CONSTANTS p1, p2, p3, c1, d1, x1

MCPayments == {p1, p2, p3}
MCAmount == p1 :> 2 @@ p2 :> 2 @@ p3 :> 1
MCChildren == {c1}
MCPayer == p1 :> c1 @@ p2 :> Master @@ p3 :> c1
MCDestinations == {d1}
MCGoal == [p \in MCPayments |-> d1]
MCDeposits == {x1}
MCDepositOf == x1 :> 5
=============================================================================
