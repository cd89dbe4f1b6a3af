\* Is a due entry that is blocked looked at again after a poll interval?
SPECIFICATION FollowSpec
CONSTANTS
    Proc = {w}
    Watcher = w
    Poll = 1
    None = None
    N = 2
    Schedules <- WatchSchedules
    Options <- WatchOptions
    Quiet = {}
    TxIndex = TRUE
    Refused = {}
    SignedKinds = {"good"}
    Manual = {}
    FaultKinds = {}
    MaxFaults = 0
    MaxTime = 4
INVARIANTS PollsWhileBlocked
