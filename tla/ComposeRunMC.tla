----------------------------- MODULE ComposeRunMC -----------------------------
(***************************************************************************)
(* Values of the constants of ComposeRun for TLC.                          *)
(***************************************************************************)
EXTENDS ComposeRun, TLC

CONSTANTS r1, r2

MCResumes == {r1, r2}
MCCeilings == {2, 4}
AnyResume == Permutations(MCResumes)
=============================================================================
