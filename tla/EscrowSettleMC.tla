---------------------------- MODULE EscrowSettleMC ----------------------------
(***************************************************************************)
(* Values of the constants of EscrowSettle for TLC.                        *)
(***************************************************************************)
EXTENDS EscrowSettle

CONSTANTS a1, a2, a3

TwoAdmins == {a1, a2}
ThreeAdmins == {a1, a2, a3}
=============================================================================
