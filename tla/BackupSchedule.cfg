CONSTANTS
    Frequencies = {"daily", "weekly"}
    Weekday = 1
    TimeOfDay = 1
    DayLength = 3
    LastDay = 8
    FirstDay <- CreationDays
SPECIFICATION FairScheduleSpec
INVARIANTS
    ScheduleSound
PROPERTIES
    OneRunPerTime
    MissedRunIsMadeUp
CHECK_DEADLOCK FALSE
