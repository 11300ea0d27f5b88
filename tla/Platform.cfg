CONSTANTS
    None = None
    Keys = {s1, k1, k2}
    Seeds = {s1}
    Boxes = {b1, b2, b3}
    Tokens = {t1, t2}
    Calls = {c1, c2}
    MaxSecond = 1
    Users = {u1, u2}
    Boot = Boot
    Migrations = 2
    Budget = 2
SPECIFICATION FairSpec
CHECK_DEADLOCK FALSE
INVARIANTS
    PlatformSound
    OneActiveKey
PROPERTIES
    SwapIsAtomic
    KeysAreCredentials
    BootFollowsEnv
    ComesBack
