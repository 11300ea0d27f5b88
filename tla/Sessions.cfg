CONSTANTS
    Users = {u1, u2}
    Tokens = {t1, t2}
    None = None
    Reqs = {r1, r2}
    SessionTTL = 2
    Ceiling = 3
    StepUpTTL = 1
    End = 4
    Budget = 4
SPECIFICATION Spec
SYMMETRY SessionSymmetry
CHECK_DEADLOCK FALSE
INVARIANTS
    TypeOK
    ContinuousUse
    LastAdminStays
PROPERTIES
    OverStaysOut
    ElevationIsRecent
    SessionsAreCredentials
