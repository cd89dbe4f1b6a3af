\* A watcher alone: does it sleep, wake and stop as it should, and send everything?
SPECIFICATION FairFollowSpec
CONSTANTS
    Proc = {w}
    Watcher = w
    Poll = 1
    None = None
    N = 2
    Schedules <- WatchSchedules
    Options <- WatchOptions
    Quiet <- QuietTimes
    TxIndex = TRUE
    Refused = {}
    SignedKinds = {"good"}
    Manual = {2}
    FaultKinds <- WatchFaults
    MaxFaults = 1
    MaxTime = 4
INVARIANTS FollowTypeOK NeverOversleeps
PROPERTIES NoBusyLoop StopObeyed WatcherDrains
