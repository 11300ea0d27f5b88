SPECIFICATION HistorySpec
CONSTANTS
    Servers = {s1}
    Platform = platform
    Values = {1, 2}
    Hour = 2
    RawWindow = 2
    HourlyWindow = 4
    MaxLen = 1
    MaxLag = 1
    End = 5
    Events = 3
CHECK_DEADLOCK FALSE
INVARIANT HourKeepsPeak
