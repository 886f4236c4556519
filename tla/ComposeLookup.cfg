SPECIFICATION Spec
CONSTANTS
    r1 = r1
    r2 = r2
    Steps = 4
    Ceilings <- MCCeilings
    Compose = Compose
    Resumes <- MCResumes
    MasterPath = TRUE
SYMMETRY AnyResume
INVARIANTS
    ChargedIffDelivered
CHECK_DEADLOCK FALSE
