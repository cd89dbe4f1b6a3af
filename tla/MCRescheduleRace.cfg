\* Does a reschedule beside the passes leave what was broadcast alone?
SPECIFICATION RescheduleSpec
CONSTANTS
    Proc = {p1}
    None = None
    N = 2
    Schedules <- OneSchedule
    Options <- CronOptions
    Quiet = {}
    TxIndex = TRUE
    Refused = {}
    SignedKinds = {"good"}
    Manual = {}
    FaultKinds <- Kills
    MaxFaults = 0
    MaxTime = 2
    Spread = 1
    MinGap = 1
    MaxRuns = 1
    Disciplines = {FALSE}
PROPERTIES RetimesOnlyPending
