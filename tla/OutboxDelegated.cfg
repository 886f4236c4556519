SPECIFICATION Spec
CONSTANTS
    r1 = r1
    r2 = r2
    r3 = r3
    r4 = r4
    s1 = s1
    s2 = s2
    NoRow = NoRow
    Refunds <- MCRefunds
    Legacy <- OneLegacy
    Delegated <- TwoDelegated
    Orchestrated <- OneOrchestrated
    Sweeps <- TwoSweeps
    Limit = 2
    MaxAttempts = 2
    UpdatesFail = FALSE
    Crashes = FALSE
SYMMETRY SweepSymmetry
INVARIANT BothLedgersCredited
CHECK_DEADLOCK FALSE
