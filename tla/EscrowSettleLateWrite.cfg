SPECIFICATION Spec
CONSTANTS
    a1 = a1
    a2 = a2
    a3 = a3
    Admins <- TwoAdmins
    LateWrites = TRUE
    NodesLag = FALSE
    MaxPaid = 2
INVARIANTS
    SellerPaidOnce
CHECK_DEADLOCK FALSE
