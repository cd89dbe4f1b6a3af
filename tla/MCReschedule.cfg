\* reschedule with the passes paused, killed and run again.
SPECIFICATION RescheduleSpec
CONSTANTS
    Proc = {p1}
    None = None
    N = 2
    Schedules <- OneSchedule
    Options <- CronOptions
    Quiet = {}
    TxIndex = TRUE
    Refused = {}
    SignedKinds = {"good"}
    Manual = {}
    FaultKinds <- Faults
    MaxFaults = 2
    MaxTime = 2
    Spread = 1
    MinGap = 1
    MaxRuns = 2
    Disciplines = {TRUE}
INVARIANTS RescheduleTypeOK DrawsFollowSchedule
PROPERTIES PausedKeepsRecords PausedKeepsStatus
