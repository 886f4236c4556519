--------------------------- MODULE RefundOutboxMC ---------------------------
(***************************************************************************)
(* Values of the constants of RefundOutbox for TLC.                        *)
(***************************************************************************)
EXTENDS RefundOutbox, TLC

CONSTANTS r1, r2, r3, r4, s1, s2

\* r1 was enqueued before HU-194, r2 is a master refund, r3 and r4 are of a delegation:
\* r3 of step0-refund.ts, compose or gasless, r4 of orchestrate.ts
MCRefunds == {r1, r2, r3, r4}
ThreeRefunds == {r1, r2, r3}
OneLegacy == {r1}
OneDelegated == {r3}
NoRefunds == {}
TwoDelegated == {r3, r4}
OneOrchestrated == {r4}
TwoSweeps == {s1, s2}
SweepSymmetry == Permutations(Sweeps)
=============================================================================
