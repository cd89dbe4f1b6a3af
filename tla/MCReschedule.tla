---------------------------- MODULE MCReschedule ----------------------------
(* Small instances of Reschedule for TLC. *)
EXTENDS Reschedule

CronOptions ==
    {[max_count |-> 1, dry_run |-> FALSE, skip_failed |-> FALSE,
      jitter |-> 1, respect_quiet |-> FALSE]}

OneSchedule == {<<0, 1>>}

Kills == {"crash", "reschedule"}

\* A rejection leaves an order failed, with its draw.
Faults == Kills \cup {"reject"}
=============================================================================
