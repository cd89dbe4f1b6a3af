--------------------------- MODULE MCBroadcastDue ---------------------------
(* Small instances of BroadcastDue, and of Remind over it, for TLC. *)
EXTENDS Remind

\* One invocation of broadcast-due.
Command(max, dry, skip, jitter, quiet) ==
    [max_count |-> max, dry_run |-> dry, skip_failed |-> skip,
     jitter |-> jitter, respect_quiet |-> quiet]

\* The crontab line of the README, a call that may send two and keeps the
\* quiet hours, and a dry run without jitter.
MixedOptions ==
    {Command(1, FALSE, FALSE, 1, FALSE), Command(2, FALSE, FALSE, 1, TRUE),
     Command(2, TRUE, FALSE, 0, FALSE)}

CronOptions == {Command(1, FALSE, FALSE, 1, FALSE)}

TwoSchedules == {<<0, 1>>, <<1, 3>>}

\* A backlog: everything is due.
AtOnce == {<<0, 0>>}

QuietTimes == {2}

\* Every fault but a failing getrawtransaction.
NoLookupFault == {"crash", "test", "reject", "send", "reply"}

\* A pass that retries failures, without jitter.
PlainOptions == {Command(1, FALSE, FALSE, 0, FALSE)}
=============================================================================
