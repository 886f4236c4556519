---------------------------- MODULE SolanaSettleMC ----------------------------
(***************************************************************************)
(* Values of the constants of SolanaSettle for TLC.                        *)
(***************************************************************************)
EXTENDS SolanaSettle, TLC

CONSTANTS c1, c2, c3, i1, i2

MCCalls == {c1, c2, c3}
MCIntents == {i1, i2}
MCIntentOf == c1 :> i1 @@ c2 :> i1 @@ c3 :> i2
SameIntent == Permutations({c1, c2})
=============================================================================
