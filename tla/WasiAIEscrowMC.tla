--------------------------- MODULE WasiAIEscrowMC ---------------------------
(***************************************************************************)
(* Values of the constants of WasiAIEscrow for TLC.                        *)
(***************************************************************************)
EXTENDS WasiAIEscrow, TLC

CONSTANTS k1, k2, alice, bob, n1, n2

TwoKeys == {k1, k2}
MCPeople == {alice, bob}
TwoNonces == {n1, n2}
OneAmount == {1}
MCDeadlines == {1}
Symmetry == Permutations(Keys) \cup Permutations(People) \cup Permutations(Nonces)
=============================================================================
