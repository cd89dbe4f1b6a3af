----------------------------- MODULE Reschedule -----------------------------
(***************************************************************************)
(* `coldcard-panic-drain reschedule` (schedule/reschedule.py) on the files *)
(* that broadcast-due passes work with: it gives every order that is not   *)
(* on record as broadcast a new broadcast_not_before in schedule.yaml, and *)
(* then saves its copy of broadcast-state.yaml without their send times.   *)
(***************************************************************************)
EXTENDS BroadcastDue

CONSTANTS
    Spread,     \* the new times lie at most this far ahead (--spread-hours)
    MinGap,     \* and at least this far apart (MIN_ENTRY_GAP)
    MaxRuns,    \* how often the operator runs reschedule (bound)
    Disciplines \* whether the operator pauses the passes while it runs

ASSUME RescheduleAssumption ==
    /\ Spread \in Nat
    /\ MinGap \in Nat
    /\ MaxRuns \in Nat
    /\ Disciplines \subseteq BOOLEAN

VARIABLES
    paused,     \* the operator's discipline, for the whole behaviour
    runs,       \* how often it was run
    rstep,      \* where reschedule stands
    rmem,       \* its copy of broadcast-state.yaml
    rescheduledAt, \* schedule.yaml: when it was last rescheduled
    halfDone    \* history: reschedule ended between its two files, and none
                \* has got through since

rvars == <<paused, runs, rstep, rmem, rescheduledAt, halfDone>>
allVars == <<vars, rvars>>

----------------------------------------------------------------------------
\* The orders reschedule takes for not yet broadcast.
Pending == {o \in Orders : rmem[o].status # "broadcast"}

\* compute_rescheduled_times from t on: apart, outside the quiet hours, and in
\* the order of the entries unless --shuffle-pending mixes them.  (A first time
\* that jitter puts before t is due at once, as t is.)
NewTimes(S, t, shuffle) ==
    {f \in [S -> (t .. (t + Spread)) \ Quiet] :
        \A a, b \in S : a < b =>
            \/ f[a] + MinGap <= f[b]
            \/ shuffle /\ f[b] + MinGap <= f[a]}

\* Variant: the state file is not asked who is pending.
RetimedAll(times) ==
    [o \in Orders |-> IF o \in DOMAIN times THEN times[o] ELSE notBefore[o] + 1]

Retimed(times) ==
    [o \in Orders |-> IF o \in DOMAIN times THEN times[o] ELSE notBefore[o]]

\* Variants: the draws are kept; ready_at is deleted from the entry instead of
\* being set to None; an entry is cleared as a whole.
DrawsKept(st, S) == st

DrawsDeleted(st, S) ==
    [o \in Orders |-> IF o \in S THEN [status |-> st[o].status, at |-> st[o].at] ELSE st[o]]

EntriesCleared(st, S) ==
    [o \in Orders |-> IF o \in S THEN Blank[o] ELSE st[o]]

\* clear_ready_at for every pending order.
DrawsCleared(st, S) ==
    [o \in Orders |->
        IF o \in S THEN [status |-> st[o].status, at |-> st[o].at, ready |-> None] ELSE st[o]]

----------------------------------------------------------------------------
RescheduleInit ==
    /\ Init
    /\ paused \in Disciplines
    /\ runs = 0
    /\ rstep = "idle"
    /\ rmem = Blank
    /\ rescheduledAt = None
    /\ halfDone = FALSE

\* schedule.yaml and broadcast-state.yaml read.  Nothing but reschedule writes
\* the first, so only the second needs a copy here.  (Where the second cannot
\* be parsed, the command ends with nothing done.)
ReadFiles ==
    /\ rstep = "idle"
    /\ Readable
    /\ paused => \A p \in Proc : pc[p] = "idle"
    /\ runs < MaxRuns
    /\ runs' = runs + 1
    /\ rmem' = stateFile
    /\ rstep' = "loaded"
    /\ UNCHANGED <<vars, paused, rescheduledAt, halfDone>>

Finish ==
    /\ rstep' = "idle"
    /\ rmem' = Blank

\* --dry-run
OnlyShow ==
    /\ rstep = "loaded"
    /\ Finish
    /\ UNCHANGED <<vars, paused, runs, rescheduledAt, halfDone>>

\* New times in schedule.yaml; the copy of the state is saved when it held a
\* send time of an order that was given one.
Retime ==
    /\ rstep = "loaded"
    /\ \E shuffle \in BOOLEAN : \E times \in NewTimes(Pending, clock, shuffle) :
            notBefore' = Retimed(times)
    /\ rescheduledAt' = clock
    /\ IF \E o \in Pending : rmem[o].ready # None
       THEN /\ rmem' = DrawsCleared(rmem, Pending)
            /\ rstep' = "save"
            /\ UNCHANGED halfDone
       ELSE Finish /\ halfDone' = FALSE
    /\ UNCHANGED <<files, signed, world, pc, locals, paused, runs>>

\* save_atomic, through the .tmp file that the passes use as well.
SaveOpen ==
    /\ rstep = "save"
    /\ Open("reschedule")
    /\ rstep' = "write"
    /\ UNCHANGED <<world, pc, locals, paused, runs, rmem, rescheduledAt, halfDone>>

SaveTmp ==
    /\ rstep = "write"
    /\ Write("reschedule", rmem)
    /\ rstep' = "swap"
    /\ UNCHANGED <<world, pc, locals, paused, runs, rmem, rescheduledAt, halfDone>>

SaveSwap ==
    /\ rstep = "swap"
    /\ Replace
    /\ Finish
    /\ halfDone' = FALSE
    /\ UNCHANGED <<world, pc, locals, paused, runs, rescheduledAt>>

\* FileNotFoundError
SaveDies ==
    /\ rstep = "swap"
    /\ tmpFile = None
    /\ Finish
    /\ halfDone' = TRUE
    /\ UNCHANGED <<vars, paused, runs, rescheduledAt>>

Killed ==
    /\ rstep # "idle"
    /\ Fault("reschedule")
    /\ Finish
    /\ Abandon("reschedule")
    /\ halfDone' = (halfDone \/ rstep # "loaded")
    /\ UNCHANGED <<clock, node, sentAt, pc, locals, paused, runs, rescheduledAt>>

Rescheduling ==
    \/ ReadFiles \/ OnlyShow \/ Retime \/ SaveOpen \/ SaveTmp
    \/ rstep = "swap" /\ (SaveSwap \/ SaveDies)
    \/ Killed

\* Passes, which the operator may have paused meanwhile.
Passes ==
    /\ paused => rstep = "idle"
    /\ \E p \in Proc : PassStep(p) \/ Crash(p)

RescheduleNext ==
    \/ Rescheduling
    \/ (Environment \/ Passes) /\ UNCHANGED rvars

RescheduleSpec == RescheduleInit /\ [][RescheduleNext]_allVars

----------------------------------------------------------------------------
(* What should hold.                                                       *)

\* Every variable of reschedule has its type; a save has its copy, and the file
\* open while it writes.
RescheduleTypeOK ==
    /\ TypeOK
    /\ paused \in BOOLEAN
    /\ runs \in 0 .. MaxRuns
    /\ rstep \in {"idle", "loaded", "save", "write", "swap"}
    /\ rmem \in States
    /\ rescheduledAt \in Stamp
    /\ halfDone \in BOOLEAN
    /\ opened["reschedule"] = "closed" <=> rstep # "write"

\* README and FAQ: reschedule never touches the broadcast_not_before of an order
\* that is on record as broadcast.
RetimesOnlyPending ==
    [][\A o \in Orders : stateFile[o].status = "broadcast"
            => notBefore'[o] = notBefore[o]]_allVars

\* When the passes are paused, a record of a broadcast outlasts every
\* reschedule, and so does the time the order was planned for.
PausedKeepsRecords ==
    [][\A o \in Orders : paused /\ stateFile[o].status = "broadcast"
            => stateFile'[o] = stateFile[o] /\ notBefore'[o] = notBefore[o]]_allVars

\* When the passes are paused, reschedule leaves what they have recorded alone
\* but for send times: a failure stays a failure, to be retried.
PausedKeepsStatus ==
    [][paused /\ rstep # "idle" => \A o \in Orders :
            /\ stateFile'[o].status = stateFile[o].status
            /\ stateFile'[o].at = stateFile[o].at]_allVars

\* When the passes are paused, none sends by a time that has been replaced.
PausedKeepsSchedule ==
    [][\A o \in Orders : paused /\ Sends(o) => clock >= notBefore[o]]_allVars

\* The send times that the present schedule can have given an order: one of its
\* jitter window, or the catch-up time behind an order broadcast before.
Drawable(o) ==
    (UNION {notBefore[o] .. (notBefore[o] + c.jitter) : c \in Options})
        \cup CatchUpFloors(stateFile, notBefore, o)

\* When the passes are paused, no send time of an old schedule, too early or too
\* late for the new one, is left to an order that still waits: not after kills
\* of passes, and after the kill of a reschedule between its two files only
\* until it is run again.
DrawsFollowSchedule ==
    paused /\ rstep = "idle" /\ ~halfDone =>
        \A o \in Orders :
            stateFile[o].status # "broadcast" /\ stateFile[o].ready # None
                => stateFile[o].ready \in Drawable(o)

\* README and FAQ: after a reschedule the send time is drawn against the new
\* time: it lies at most the jitter behind it, where no order ahead is overdue
\* (all of them were broadcast before the reschedule).
RedrawnAgainstNewTime ==
    [][\A o \in Orders :
        /\ stateFile[o].ready = None /\ stateFile'[o].ready # None
        /\ rescheduledAt # None
        /\ \A q \in 1 .. (o - 1) :
              stateFile[q].status = "broadcast" /\ stateFile[q].at <= rescheduledAt
        => \E c \in Options : stateFile'[o].ready <= notBefore[o] + c.jitter]_allVars

=============================================================================
