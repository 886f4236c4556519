--------------------------- MODULE PaymentIntentMC ---------------------------
(***************************************************************************)
(* Values of the constants of PaymentIntent for TLC.                       *)
(***************************************************************************)
EXTENDS PaymentIntent, TLC

CONSTANTS w1, w2, w3, v1, v2

ThreeWorkers == {w1, w2, w3}
WorkerSymmetry == Permutations(Workers)
MCVouchers == {v1, v2}
\* one voucher below the deposit, the two together above it
MCVoucherAmount == [v \in MCVouchers |-> IF v = v1 THEN 1 ELSE 2]
MCUsages == {0, 1, 3}
MCArbAmounts == {0, 1, 3}
=============================================================================
