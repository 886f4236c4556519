SPECIFICATION Spec
CONSTANTS
    a1 = a1
    a2 = a2
    a3 = a3
    Admins <- ThreeAdmins
    LateWrites = TRUE
    NodesLag = TRUE
    MaxPaid = 2
INVARIANTS
    TwiceOnlyIfLost
    RefundNeedsRevert
    SettledMeansPaid
PROPERTIES
    ResolvesOneSide
CHECK_DEADLOCK FALSE
