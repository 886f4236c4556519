---------------------------- MODULE AgentLinkMC ----------------------------
(***************************************************************************)
(* Three redeems of one link whose agent is listed without a price, at the *)
(* price the cap covers with the fee, at the cap, or above it.             *)
(***************************************************************************)
EXTENDS AgentLink, TLC

CONSTANTS r1, r2, r3

MCRequests == {r1, r2, r3}
MCPrices == {0, 2, 3, 4}
RequestsAlike == Permutations(MCRequests)
=============================================================================
