\* Is the send time of a rescheduled order drawn against its new time?
SPECIFICATION RescheduleSpec
CONSTANTS
    Proc = {p1}
    None = None
    N = 2
    Schedules <- OneSchedule
    Options <- CronOptions
    Quiet = {}
    TxIndex = TRUE
    Refused = {}
    SignedKinds = {"good"}
    Manual = {}
    FaultKinds <- Kills
    MaxFaults = 0
    MaxTime = 4
    Spread = 1
    MinGap = 1
    MaxRuns = 1
    Disciplines = {TRUE}
PROPERTIES RedrawnAgainstNewTime
