\* Times of a batch: apart, in order, outside the quiet hours?
SPECIFICATION Spec
CONSTANTS
    Count = 3
    Step = 4
    Jitter = 3
    MinGap = 2
    Day = 12
    Starts <- EveryStart
    Windows <- SomeWindows
    Zones <- SomeZones
    Off = Off
INVARIANTS EntriesApart OutsideQuietHours
PROPERTIES NoNeedlessDelay
CHECK_DEADLOCK FALSE
