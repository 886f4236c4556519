SPECIFICATION Spec
CONSTANTS
    c1 = c1
    c2 = c2
    c3 = c3
    i1 = i1
    i2 = i2
    NoSig = NoSig
    Calls <- MCCalls
    Intents <- MCIntents
    IntentOf <- MCIntentOf
    Validity = 1
    MaxHeight = 3
SYMMETRY SameIntent
INVARIANTS
    PaidTwiceOnlyIfStale
    OneTransferEach
    ClaimedMeansUnsent
    FalseSuccessIsTrusted
CHECK_DEADLOCK FALSE
