-------------------------- MODULE SolanaInboundMC --------------------------
(***************************************************************************)
(* Three requests of two prices, two challenges of two quotes, a transfer  *)
(* of either amount with the reference of any of them.                     *)
(***************************************************************************)
EXTENDS SolanaInbound, TLC

CONSTANTS q1, q2, q3, cheap, dear

MCRequests == {q1, q2, q3}
MCChallenges == {cheap, dear}
MCQuote == [c \in MCChallenges |-> IF c = cheap THEN 1 ELSE 2]
MCNeed == [r \in MCRequests |-> IF r = q3 THEN 2 ELSE 1]
CheapAlike == Permutations({q1, q2})
=============================================================================
