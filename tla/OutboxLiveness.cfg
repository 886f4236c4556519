SPECIFICATION FairSpec
CONSTANTS
    r1 = r1
    r2 = r2
    r3 = r3
    r4 = r4
    s1 = s1
    s2 = s2
    NoRow = NoRow
    Refunds <- ThreeRefunds
    Legacy <- OneLegacy
    Delegated <- OneDelegated
    Orchestrated <- NoRefunds
    Sweeps <- TwoSweeps
    Limit = 1
    MaxAttempts = 2
    UpdatesFail = FALSE
    Crashes = FALSE
PROPERTIES
    QueuedIsDecided
CHECK_DEADLOCK FALSE
