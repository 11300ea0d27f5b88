CONSTANTS
    Servers = {s1, s2}
    None = None
    Slots = {r1, r2}
    PortRange = {5, 6, 7, 8}
    Ops = {"create", "delete", "enable", "disable", "rotate"}
    Budget = 6
SPECIFICATION Spec
SYMMETRY PoolingSymmetry
CHECK_DEADLOCK FALSE
INVARIANTS
    PasswordsAgree
    PoolerFollowsRow
