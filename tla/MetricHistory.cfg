SPECIFICATION HistorySpec
CONSTANTS
    Servers = {s1}
    Platform = platform
    Values = {1}
    Hour = 2
    RawWindow = 2
    HourlyWindow = 4
    MaxLen = 2
    MaxLag = 1
    End = 5
    Events = 3
CHECK_DEADLOCK FALSE
INVARIANTS
    SamplesKept
PROPERTIES
    OldRowsGo
