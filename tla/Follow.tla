------------------------------- MODULE Follow -------------------------------
(***************************************************************************)
(* `broadcast-due --follow` (broadcast/follow.py, run_broadcast_follow):   *)
(* one process that makes a pass of BroadcastDue, works out when the next  *)
(* one is worth making, sleeps until then, and leaves when it is asked to  *)
(* (SIGINT, SIGTERM) or when a pass dies.                                  *)
(***************************************************************************)
EXTENDS BroadcastDue

CONSTANTS
    Watcher,    \* the process that follows; the others are cron passes
    Poll        \* poll_interval

ASSUME WatcherAssumption ==
    /\ Watcher \in Proc
    /\ Poll \in Nat \ {0}

VARIABLES
    loop,       \* where the watcher's loop stands
    command,    \* its command line, the same for every pass
    checkedAt,  \* `now` after the last pass
    seen,       \* schedule.yaml, as read to work out the next wake time
    wake,       \* when the next pass is worth making
    stop        \* ShutdownFlag.requested

watch == <<loop, command, checkedAt, seen, wake, stop>>
followVars == <<vars, watch>>

\* The command line of cli.py: --follow sends one entry per wake.
WatchCommands == {c \in Options : c.max_count = 1}

----------------------------------------------------------------------------
(* compute_next_broadcast_wake                                             *)

\* When an order that is not on record as broadcast can go out at the earliest,
\* by this schedule.
DueAt(sched, o) ==
    IF stateFile[o].ready # None /\ stateFile[o].ready > sched[o]
    THEN stateFile[o].ready
    ELSE sched[o]

Waiting == {o \in Orders : stateFile[o].status # "broadcast"}

\* Entries whose time has come by t, whether or not anything holds them back.
DueBy(sched, t) == {o \in Waiting : DueAt(sched, o) <= t}

\* The least elements of a set of times: at most one.
Earliest(S) == {t \in S : \A u \in S : t <= u}

\* next_allowed_time of a time inside the quiet hours: their end.
QuietEnd(t) == Earliest({u \in t + 1 .. MaxTime + 1 : u \notin Quiet})

\* The times the watcher has a reason to wake up at.
Reasons(t) ==
    {DueAt(seen, o) : o \in Waiting \ DueBy(seen, t)}
        \cup IF command.respect_quiet /\ DueBy(seen, t) # {} /\ t \in Quiet
             THEN QuietEnd(t) ELSE {}

\* Variant: an entry that is due already counts with its own time.
NextWakeOverdue(t) ==
    LET times == {DueAt(seen, o) : o \in Waiting}
    IN  IF times = {} THEN {t + Poll} ELSE Earliest(times)

\* Variant: a fixed interval, whatever becomes due before it ends.
NextWakeFixed(t) == {t + 2 * Poll}

\* The next entry to become due, or the end of the quiet hours when an entry is
\* due and they hold it back; a poll interval when there is neither.
NextWake(t) ==
    IF Reasons(t) = {} THEN {t + Poll} ELSE Earliest(Reasons(t))

----------------------------------------------------------------------------
\* The schedule in memory while none is.
Unread == [o \in Orders |-> 0]

FollowInit ==
    /\ Init
    /\ loop = "check"
    /\ command \in WatchCommands
    /\ checkedAt = None
    /\ seen = Unread
    /\ wake = None
    /\ stop = FALSE

\* The next run_broadcast_due.
Check ==
    /\ loop = "check"
    /\ ~stop
    /\ Start(Watcher)
    /\ opt'[Watcher] = command
    /\ loop' = "passing"
    /\ UNCHANGED <<command, checkedAt, seen, wake, stop>>

\* A step of the pass, which reaches neither its end nor an exception ...
Passing ==
    /\ loop = "passing"
    /\ PassStep(Watcher)
    /\ pc'[Watcher] # "idle"
    /\ UNCHANGED watch

\* ... or its end ...
PassReturns ==
    /\ loop = "passing"
    /\ Return(Watcher)
    /\ loop' = "checked"
    /\ checkedAt' = clock
    /\ UNCHANGED <<command, seen, wake, stop>>

\* ... or an exception, which ends the watcher too: ValueError by an error
\* message of cli.py, any other by a traceback.
PassDies ==
    /\ loop = "passing"
    /\ \/ LoadDies(Watcher) \/ NothingSigned(Watcher) \/ SwapDies(Watcher)
       \/ ParseDies(Watcher) \/ SendDies(Watcher) \/ Crash(Watcher)
    /\ loop' = "gone"
    /\ UNCHANGED <<command, checkedAt, seen, wake, stop>>

\* Variant: a signal ends the process wherever it is.
LeaveAnywhere ==
    /\ loop \in {"check", "passing", "checked", "sleeping"}
    /\ stop
    /\ loop' = "gone"
    /\ UNCHANGED <<vars, command, checkedAt, seen, wake, stop>>

\* Variant: a sleep in one piece, which ends at the wake time and not before.
HeardInOnePiece == FALSE

\* _sleep_until looks at the flag between any two slices of a second.
HeardAsleep == stop

\* The flag is looked at before a pass, after it, and all through the sleep.
Leave ==
    /\ \/ loop \in {"check", "checked"} /\ stop
       \/ loop = "sleeping" /\ HeardAsleep
    /\ loop' = "gone"
    /\ UNCHANGED <<vars, command, checkedAt, seen, wake, stop>>

\* compute_next_broadcast_wake reads schedule.yaml ...
LookAtSchedule ==
    /\ loop = "checked"
    /\ ~stop
    /\ seen' = notBefore
    /\ loop' = "deciding"
    /\ UNCHANGED <<vars, command, checkedAt, wake, stop>>

\* ... and then broadcast-state.yaml ...
Decide ==
    /\ loop = "deciding"
    /\ Readable
    /\ wake' \in NextWake(checkedAt)
    /\ seen' = Unread
    /\ loop' = "sleeping"
    /\ UNCHANGED <<vars, command, checkedAt, stop>>

\* ... where the YAML parser may end it like a pass.
DecideDies ==
    /\ loop = "deciding"
    /\ ~Readable
    /\ loop' = "gone"
    /\ UNCHANGED <<vars, command, checkedAt, seen, wake, stop>>

\* _sleep_until returns; its chunks and slices only look at clock and flag.
Wake ==
    /\ loop = "sleeping"
    /\ ~HeardAsleep
    /\ clock >= wake
    /\ loop' = "check"
    /\ UNCHANGED <<vars, command, checkedAt, seen, wake, stop>>

\* The model's clock ends before the sleep does.  Its last tick stands for all
\* later times, so the sleep ends there; how long it was is not known.
WakeLater ==
    /\ loop = "sleeping"
    /\ ~HeardAsleep
    /\ clock = MaxTime /\ wake > MaxTime
    /\ loop' = "check"
    /\ checkedAt' = None
    /\ wake' = None
    /\ UNCHANGED <<vars, command, seen, stop>>

\* The watcher is killed outside a pass.
Killed ==
    /\ loop \in {"check", "checked", "deciding", "sleeping"}
    /\ "crash" \in FaultKinds
    /\ loop' = "gone"
    /\ UNCHANGED <<vars, command, checkedAt, seen, wake, stop>>

\* SIGINT or SIGTERM.
RequestStop ==
    /\ loop # "gone"
    /\ ~stop
    /\ stop' = TRUE
    /\ UNCHANGED <<vars, loop, command, checkedAt, seen, wake>>

\* The operator starts it again, perhaps with other options.
Relaunch ==
    /\ loop = "gone"
    /\ loop' = "check"
    /\ command' \in WatchCommands
    /\ checkedAt' = None
    /\ seen' = Unread
    /\ wake' = None
    /\ stop' = FALSE
    /\ UNCHANGED vars

\* The steps of the watcher: those it takes at the clock's present time, and
\* the sleep past the end of the model's clock.
WatcherActs ==
    \/ Check \/ Passing \/ PassReturns \/ PassDies \/ Leave \/ LookAtSchedule
    \/ loop = "deciding" /\ (Decide \/ DecideDies)
    \/ Wake

WatcherStep == WatcherActs \/ WakeLater

OtherPass == \E p \in Proc \ {Watcher} : PassStep(p) \/ Crash(p)

FollowNext ==
    \/ WatcherStep \/ Killed \/ RequestStop \/ Relaunch
    \/ (Environment \/ OtherPass) /\ UNCHANGED watch

FollowSpec == FollowInit /\ [][FollowNext]_followVars

----------------------------------------------------------------------------
(* What should hold.                                                       *)

\* Every variable of the loop has its type, and a pass is under way exactly
\* while the loop is in it.
FollowTypeOK ==
    /\ loop \in {"check", "passing", "checked", "deciding", "sleeping", "gone"}
    /\ command \in WatchCommands
    /\ checkedAt \in Time \cup {None}
    /\ seen \in [Orders -> Nat]
    /\ wake \in Nat \cup {None}
    /\ stop \in BOOLEAN
    /\ pc[Watcher] # "idle" <=> loop = "passing"
    /\ loop \in {"checked", "deciding", "sleeping"} => checkedAt # None
    /\ loop = "sleeping" => wake # None

\* The watcher never sleeps past the moment another waiting entry becomes due:
\* the saved state it goes by is the one its own pass has just left.
NeverOversleeps ==
    loop = "sleeping" =>
        \A o \in Waiting : DueAt(notBefore, o) > checkedAt => wake <= DueAt(notBefore, o)

\* There is no busy loop: between two passes of a watcher the clock moves on,
\* whatever is due and whatever blocks it.
NoBusyLoop ==
    [][loop = "check" /\ loop' = "passing" /\ checkedAt # None
        => clock > checkedAt]_followVars

\* The watcher's own steps are taken, and nobody has to start it again.  The
\* clock runs until somebody asks it to stop: a watcher that could only leave by
\* sleeping to the end would not leave.
FollowFairness ==
    /\ WF_followVars(WatcherActs)
    /\ WF_followVars(~stop /\ ((Tick /\ UNCHANGED watch) \/ WakeLater))

FairFollowSpec == FollowSpec /\ FollowFairness

\* Docstring of follow.py: a request to stop is obeyed at once, however long the
\* sleep still is: the watcher leaves without the clock having to move (in the
\* middle of a pass, after the steps that are left of it).
StopObeyed == stop ~> loop = "gone"

\* As long as the watcher lives, what is signed and acceptable to Core is
\* sent and on record in the end, however often it was blocked or failed before.
WatcherDrains ==
    \A o \in Orders :
        (signed[o] = "good" /\ o \notin Refused) ~>
            \/ stateFile[o].status = "broadcast"
            \/ loop = "gone"
            \/ BeyondHorizon(o)

\* README and docstring: an entry that is due and blocked (nothing signed yet,
\* another entry sent in this wake) is looked at again after poll_interval.
PollsWhileBlocked ==
    loop = "sleeping" /\ DueBy(notBefore, checkedAt) # {} /\ checkedAt \notin Quiet
        => wake <= checkedAt + Poll

=============================================================================
