\* A cron pass that overlaps another one, or runs beside --follow.
SPECIFICATION FairSpec
CONSTANTS
    Proc = {p1, p2}
    None = None
    N = 2
    Schedules <- AtOnce
    Options <- PlainOptions
    Quiet = {}
    TxIndex = TRUE
    Refused = {}
    SignedKinds = {"good"}
    Manual = {}
    FaultKinds = {"crash"}
    MaxFaults = 1
    MaxTime = 0
 
PROPERTIES AcceptedSettles Drained
