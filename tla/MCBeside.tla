------------------------------ MODULE MCBeside ------------------------------
(* Small instance of Beside for TLC. *)
EXTENDS Beside

WatchOptions ==
    {[max_count |-> 1, dry_run |-> FALSE, skip_failed |-> FALSE,
      jitter |-> 2, respect_quiet |-> FALSE]}

OneOfTwo == {{"cron"}, {"reschedule"}}

OneLater == {<<1>>}
=============================================================================
