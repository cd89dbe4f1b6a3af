\* A watcher that is not stopped while reschedule runs.
SPECIFICATION FairBesideSpec
CONSTANTS
    Proc = {w, c}
    Watcher = w
    Poll = 1
    None = None
    N = 1
    Schedules <- OneLater
    Options <- WatchOptions
    Quiet = {}
    TxIndex = TRUE
    Refused = {}
    SignedKinds = {"good"}
    Manual = {}
    FaultKinds = {}
    MaxFaults = 0
    MaxTime = 2
    Spread = 1
    MinGap = 1
    MaxRuns = 1
    Disciplines = {FALSE}
    Companies <- OneOfTwo
INVARIANTS OversleepsOnlyMoved RecordedWasAccepted
PROPERTIES EarlyOnlyByOldPlan RescheduledDrains
