SPECIFICATION RateSpec
CONSTANTS
    Minute = 3
    Day = 9
    MaxPerMinute = 2
    MaxPerDay = 9
    MaxTime = 11
    MaxPerTick = 3
INVARIANTS MinuteLimit
CHECK_DEADLOCK FALSE
