------------------------------- MODULE Beside -------------------------------
(***************************************************************************)
(* `broadcast-due --follow` with company: `reschedule` run beside it, or a *)
(* cron line that was left in place, on the same schedule.yaml and         *)
(* broadcast-state.yaml.  It composes Follow and Reschedule.  Nothing in   *)
(* the code keeps them apart; an operator may, by stopping the watcher for *)
(* the reschedule.                                                         *)
(***************************************************************************)
EXTENDS Follow

CONSTANTS
    Spread,     \* as in Reschedule
    MinGap,
    MaxRuns,
    Disciplines,
    Companies   \* what may run beside the watcher: subsets of {"cron", "reschedule"}

ASSUME BesideAssumption ==
    /\ Spread \in Nat
    /\ MinGap \in Nat
    /\ MaxRuns \in Nat
    /\ Disciplines \subseteq BOOLEAN
    /\ Companies \subseteq SUBSET {"cron", "reschedule"}

VARIABLES
    paused, runs, rstep, rmem, rescheduledAt, halfDone, \* as in Reschedule
    company,    \* what does, for the whole behaviour
    moved       \* history: orders whose entries others than the watcher have
                \* changed since it last looked at schedule.yaml

R == INSTANCE Reschedule

retiming == <<paused, runs, rstep, rmem, rescheduledAt, halfDone>>
besideVars == <<followVars, retiming, company, moved>>

----------------------------------------------------------------------------
BesideInit ==
    /\ FollowInit
    /\ R!RescheduleInit
    /\ company \in Companies
    /\ moved = {}

\* A pausing operator starts reschedule when the watcher has left, and the
\* watcher again when reschedule is done.
WatcherRuns == paused => rstep = "idle"

\* The watcher's look at the schedule makes up for everything before it.
Watching ==
    /\ \/ Killed \/ RequestStop
       \/ WatcherStep /\ WatcherRuns
       \/ Relaunch /\ WatcherRuns
    /\ moved' = IF LookAtSchedule THEN {} ELSE moved
    /\ UNCHANGED <<retiming, company>>

\* What a step beside the watcher does to schedule.yaml and broadcast-state.yaml.
NoteMoved ==
    moved' = moved \cup {o \in Orders : \/ notBefore'[o] # notBefore[o]
                                        \/ stateFile'[o] # stateFile[o]}

Beside ==
    /\ \/ R!Rescheduling /\ "reschedule" \in company /\ (paused => loop = "gone")
       \/ OtherPass /\ "cron" \in company /\ WatcherRuns /\ UNCHANGED retiming
       \/ Environment /\ UNCHANGED retiming
    /\ NoteMoved
    /\ UNCHANGED <<watch, company>>

BesideNext == Watching \/ Beside

BesideSpec == BesideInit /\ [][BesideNext]_besideVars

\* As in Follow; a reschedule that has begun runs to its end.
BesideFairness ==
    /\ WF_besideVars(Tick /\ UNCHANGED <<watch, retiming, company, moved>>)
    /\ WF_besideVars(WatcherStep /\ Watching)
    /\ WF_besideVars(rstep # "idle" /\ R!Rescheduling /\ Beside)

FairBesideSpec == BesideSpec /\ BesideFairness

----------------------------------------------------------------------------
(* What should hold.                                                       *)

\* The watcher sleeps past the moment an order becomes due only if another
\* process has changed that order's entry, in either file, after the watcher
\* looked: it wakes at the old time then.
OversleepsOnlyMoved ==
    loop = "sleeping" =>
        \A o \in Waiting \ moved :
            DueAt(notBefore, o) > checkedAt => wake <= DueAt(notBefore, o)

\* A new broadcast_not_before is obeyed by every pass that begins after it was
\* written: only one already under way sends by the time it has replaced.
EarlyOnlyByOldPlan ==
    [][\A o \in Orders : Sends(o) /\ clock < notBefore[o] =>
        \E p \in Proc : pc[p] = "send" /\ cur[p] = o /\ plan[p] # notBefore]_besideVars

\* Rescheduled beside a live watcher, with records undone and draws lost, a
\* signed order is still sent and on record in the end; beside a cron line too,
\* once their passes have stopped to overlap.
RescheduledDrains ==
    \/ Entangled
    \/ \A o \in Orders :
        (signed[o] = "good" /\ o \notin Refused) ~>
            \/ stateFile[o].status = "broadcast"
            \/ loop = "gone"
            \/ BeyondHorizon(o) \/ notBefore[o] > MaxTime

=============================================================================
