CONSTANTS
    Users = {u1, u2}
    Tokens = {t1, t2}
    None = None
    Reqs = {r1, r2}
    SessionTTL = 2
    Ceiling = 3
    StepUpTTL = 1
    End = 1
    Budget = 4
SPECIFICATION Spec
SYMMETRY SessionSymmetry
INVARIANT AdminRemains
CHECK_DEADLOCK FALSE
