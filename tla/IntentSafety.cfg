SPECIFICATION Spec
CONSTANTS
    w1 = w1
    w2 = w2
    w3 = w3
    v1 = v1
    v2 = v2
    Workers <- ThreeWorkers
    VoucherIds <- MCVouchers
    VoucherAmount <- MCVoucherAmount
    Authorized = 2
    Usages <- MCUsages
    ArbAmounts <- MCArbAmounts
SYMMETRY WorkerSymmetry
INVARIANTS
    SettledOnce
    PaidWithinAuthorization
    RefundedMeansUnpaid
    OnlyDisputedUptosUnfunded
    SettledBooksBalance
PROPERTIES
    ImplementsContract
    TerminalIsFinal
