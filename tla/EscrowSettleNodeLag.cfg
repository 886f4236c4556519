SPECIFICATION Spec
CONSTANTS
    a1 = a1
    a2 = a2
    a3 = a3
    Admins <- TwoAdmins
    LateWrites = FALSE
    NodesLag = TRUE
    MaxPaid = 2
INVARIANTS
    SellerPaidOnce
CHECK_DEADLOCK FALSE
