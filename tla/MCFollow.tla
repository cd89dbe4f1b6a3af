------------------------------ MODULE MCFollow ------------------------------
(* Small instances of Follow for TLC. *)
EXTENDS Follow

\* What --follow is started with: jitter, and an eye on the quiet hours.
WatchOptions ==
    {[max_count |-> 1, dry_run |-> FALSE, skip_failed |-> FALSE,
      jitter |-> 1, respect_quiet |-> TRUE]}

\* One entry due at once and one later.
WatchSchedules == {<<0, 2>>}

OneSchedule == {<<0>>}

QuietTimes == {1}

WatchFaults == {"crash", "reject", "reply"}
=============================================================================
