\* One process at a time: cron passes that do not overlap, or --follow alone.
SPECIFICATION Spec
CONSTANTS
    Proc = {p1}
    None = None
    N = 2
    Schedules <- TwoSchedules
    Options <- MixedOptions
    Quiet <- QuietTimes
    TxIndex = TRUE
    Refused = {}
    SignedKinds = {"good", "bad"}
    Manual = {2}
    FaultKinds <- NoLookupFault
    MaxFaults = 2
    MaxTime = 4
INVARIANTS TypeOK StateReadable
PROPERTIES NotBeforeKept ReadyAtKept SpacingKept RecordsAreFinal ReadyDrawnOnce AcceptedNotFailed LedgerKept ReminderNamesIt
