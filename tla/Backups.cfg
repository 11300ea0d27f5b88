CONSTANTS
    Backups = {b1, b2, b3}
    Policies = {p1}
    Slots = {d1}
    None = None
    Storages = {"local", "gdrive"}
    RetentionCount = 1
    MaxSecond = 2
    Spaced = TRUE
    Outages = TRUE
    Budget = 3
SPECIFICATION FairSpec
CHECK_DEADLOCK FALSE
INVARIANTS
    DumpsMatchRows
PROPERTIES
    ManualBackupKept
    DumpEnds
    DuePolicyRuns
