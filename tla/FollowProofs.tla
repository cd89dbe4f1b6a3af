---------------------------- MODULE FollowProofs ----------------------------
(***************************************************************************)
(* Theorems about Follow and Beside.  The watcher's steps are steps of     *)
(* broadcast-due passes, so what is proved of those holds under --follow;  *)
(* the watcher never spins, and alone it never oversleeps.  With company   *)
(* it is a reschedule among passes, and what is proved of that holds too.  *)
(***************************************************************************)
EXTENDS Beside, InterruptedProofs

LEMMA FollowStepIsPassStep == [FollowNext]_followVars => [Next]_vars
<1> SUFFICES ASSUME [FollowNext]_followVars PROVE [Next]_vars
  OBVIOUS
<1> USE WatcherAssumption DEF followVars
<1>1. CASE Check \/ Passing \/ PassReturns
  BY <1>1 DEF Check, Passing, PassReturns, PassStep, Next
<1>2. CASE PassDies
  BY <1>2 DEF PassDies, PassStep, Next
<1>3. CASE \/ Leave \/ LookAtSchedule \/ Decide \/ DecideDies \/ Wake \/ WakeLater
           \/ Killed \/ RequestStop \/ Relaunch \/ UNCHANGED followVars
  BY <1>3
  DEF Leave, LookAtSchedule, Decide, DecideDies, Wake, WakeLater, Killed, RequestStop,
      Relaunch
<1>4. CASE Environment \/ OtherPass
  BY <1>4 DEF OtherPass, Next
<1> QED BY <1>1, <1>2, <1>3, <1>4 DEF FollowNext, WatcherStep, WatcherActs

\* A watcher is one more process that makes broadcast-due passes: every
\* behaviour of --follow, beside cron passes or alone, is one of BroadcastDue.
THEOREM WatcherMakesPasses == FollowSpec => Spec
BY FollowStepIsPassStep, PTL DEF FollowSpec, FollowInit, Spec

\* So --follow, too, records nothing that Core has not taken ...
THEOREM WatcherRecordsAreTrue == FollowSpec => []RecordedWasAccepted
BY WatcherMakesPasses, RecordsAreTrue

\* ... and sends nothing before its broadcast_not_before.
THEOREM WatcherKeepsSchedule == FollowSpec => NotBeforeKept
BY WatcherMakesPasses, NeverBeforeSchedule

\* A watcher that is the only process keeps the promise of the ledger, each
\* order handed over at most once and written down for good, through signals,
\* deaths in mid-pass and new starts.
THEOREM WatcherKeepsLedger == ASSUME OneProcess PROVE FollowSpec => LedgerKept
BY WatcherMakesPasses, LedgerIsKept

\* It keeps the spacing of the schedule, too, to what it sent before it died ...
THEOREM WatcherKeepsSpacing ==
    ASSUME OneProcess, SteadyOptions, TxIndex, "lookup" \notin FaultKinds
    PROVE  FollowSpec => SpacingKept
BY WatcherMakesPasses, SpacingIsKept

\* ... and calls none of that failed when it is started again.
THEOREM WatcherFailsNothingSent ==
    ASSUME OneProcess, TxIndex, "lookup" \notin FaultKinds
    PROVE  FollowSpec => AcceptedNotFailed
BY WatcherMakesPasses, SentNotFailed

----------------------------------------------------------------------------
(* Type correctness of the loop.                                           *)

\* The wake time that is worked out lies ahead of the check.
LEMMA WakeIsAhead ==
    ASSUME TypeOK, seen \in [Orders -> Nat], checkedAt \in Nat, NEW t \in NextWake(checkedAt)
    PROVE  t \in Nat /\ t > checkedAt
<1>1. CASE Reasons(checkedAt) = {}
  BY <1>1, WatcherAssumption DEF NextWake
<1>2. CASE Reasons(checkedAt) # {}
  <2>1. t \in Reasons(checkedAt)
    BY <1>2 DEF NextWake, Earliest
  <2>2. CASE \E o \in Waiting \ DueBy(seen, checkedAt) : t = DueAt(seen, o)
    <3>1. PICK o \in Waiting \ DueBy(seen, checkedAt) : t = DueAt(seen, o)
      BY <2>2
    <3>2. o \in Orders /\ stateFile[o] \in Entry /\ seen[o] \in Nat
      BY <3>1 DEF Waiting, TypeOK, DiskTypeOK, States
    <3>3. DueAt(seen, o) \in Nat
      BY <3>2 DEF DueAt, Entry, Stamp
    <3>4. ~(DueAt(seen, o) <= checkedAt)
      BY <3>1 DEF DueBy
    <3> QED BY <3>1, <3>3, <3>4
  <2>3. CASE t \in QuietEnd(checkedAt)
    BY <2>3, SizeAssumption DEF QuietEnd, Earliest
  <2> QED BY <2>1, <2>2, <2>3 DEF Reasons
<1> QED BY <1>1, <1>2

LEMMA FollowInitType == FollowInit => FollowTypeOK
<1> SUFFICES ASSUME FollowInit PROVE FollowTypeOK
  OBVIOUS
<1>1. pc[Watcher] = "idle" /\ Unread \in [Orders -> Nat]
  BY WatcherAssumption DEF FollowInit, Init, Unread
<1> QED BY <1>1 DEF FollowInit, FollowTypeOK

LEMMA StepFollowType == TypeOK /\ FollowTypeOK /\ [FollowNext]_followVars => FollowTypeOK'
<1> SUFFICES ASSUME TypeOK, FollowTypeOK, [FollowNext]_followVars PROVE FollowTypeOK'
  OBVIOUS
<1> USE NoneAssumption, WatcherAssumption DEF FollowTypeOK
<1>0. clock \in Time /\ Time \subseteq Nat /\ None \notin Nat
  BY SizeAssumption DEF TypeOK, WorldTypeOK, Time
<1>1. CASE Check
  <2>1. pc'[Watcher] = "load"
    BY <1>1 DEF Check, Start, Goto, TypeOK, PassTypeOK
  <2> QED BY <1>1, <2>1 DEF Check
<1>2. CASE Passing
  BY <1>2 DEF Passing, watch
<1>3. CASE PassReturns
  <2>1. pc'[Watcher] = "idle" /\ clock' = clock
    BY <1>3 DEF PassReturns, Return, Exit, world, TypeOK, PassTypeOK
  <2> QED BY <1>0, <1>3, <2>1 DEF PassReturns
<1>4. CASE PassDies
  <2>1. pc'[Watcher] = "idle"
    BY <1>4 DEF PassDies, LoadDies, NothingSigned, SwapDies, ParseDies, SendDies, Crash, Exit,
                TypeOK, PassTypeOK
  <2> QED BY <1>4, <2>1 DEF PassDies
<1>5. CASE LookAtSchedule
  <2>1. seen' \in [Orders -> Nat]
    BY <1>5 DEF LookAtSchedule, TypeOK, DiskTypeOK
  <2> QED BY <1>5, <2>1 DEF LookAtSchedule, vars
<1>6. CASE Decide
  <2>1. checkedAt \in Nat
    BY <1>0, <1>6 DEF Decide
  <2>2. wake' \in Nat
    BY <1>6, <2>1, WakeIsAhead DEF Decide
  <2> QED BY <1>0, <1>6, <2>2 DEF Decide, Unread, vars
<1>7. CASE Leave \/ DecideDies \/ Wake \/ WakeLater \/ Killed \/ RequestStop \/ Relaunch
  <2>1. pc' = pc /\ Unread \in [Orders -> Nat]
    BY <1>7 DEF Leave, DecideDies, Wake, WakeLater, Killed, RequestStop, Relaunch, vars, Unread
  <2>2. CASE Leave \/ DecideDies \/ Wake \/ Killed \/ RequestStop
    BY <2>1, <2>2 DEF Leave, DecideDies, Wake, Killed, RequestStop
  <2>3. CASE WakeLater \/ Relaunch
    BY <2>1, <2>3 DEF WakeLater, Relaunch
  <2> QED BY <1>7, <2>2, <2>3
<1>8. CASE (Environment /\ UNCHANGED watch) \/ UNCHANGED followVars
  BY <1>8 DEF Environment, Tick, Sign, ManualSend, Mine, watch, followVars, vars
<1>9. CASE OtherPass /\ UNCHANGED watch
  <2>1. pc'[Watcher] = pc[Watcher]
    BY <1>9, OtherFrame DEF OtherPass
  <2> QED BY <1>9, <2>1 DEF watch
<1> QED BY <1>1, <1>2, <1>3, <1>4, <1>5, <1>6, <1>7, <1>8, <1>9
        DEF FollowNext, WatcherStep, WatcherActs

\* The loop and its pass keep step: a pass is under way exactly while the loop
\* waits for it, whatever ends either of them.
THEOREM FollowTypeCorrect == FollowSpec => []FollowTypeOK
BY FollowInitType, StepFollowType, WatcherMakesPasses, TypeCorrect, PTL DEF FollowSpec

----------------------------------------------------------------------------
(* A watcher alone sleeps no longer than it may.                           *)

\* While it decides, what it has read of the schedule is the schedule.
ReadsSchedule == loop = "deciding" => seen = notBefore

LEMMA StepReads == ReadsSchedule /\ [FollowNext]_followVars => ReadsSchedule'
<1> SUFFICES ASSUME ReadsSchedule, [FollowNext]_followVars PROVE ReadsSchedule'
  OBVIOUS
<1>1. notBefore' = notBefore
  BY FollowStepIsPassStep, FileFrame
     DEF Next, Environment, Tick, Sign, ManualSend, Mine, vars, disk, files
<1>2. \/ loop' = "deciding" => loop = "deciding" /\ seen' = seen
      \/ LookAtSchedule
  BY DEF FollowNext, WatcherStep, WatcherActs, Check, Passing, PassReturns, PassDies, Leave,
         Decide, DecideDies, Wake, WakeLater, Killed, RequestStop, Relaunch, followVars, watch
<1> QED BY <1>1, <1>2 DEF ReadsSchedule, LookAtSchedule, vars, disk, files

\* The wake time is no later than any time that still lies ahead.
LEMMA WakesInTime ==
    ASSUME TypeOK, seen \in [Orders -> Nat], checkedAt \in Nat,
           NEW t \in NextWake(checkedAt),
           NEW o \in Waiting, DueAt(seen, o) > checkedAt
    PROVE  t <= DueAt(seen, o)
<1>1. stateFile[o] \in Entry /\ seen[o] \in Nat
  BY DEF Waiting, TypeOK, DiskTypeOK, States
<1>2. DueAt(seen, o) \in Nat
  BY <1>1 DEF DueAt, Entry, Stamp
<1>3. o \in Waiting \ DueBy(seen, checkedAt)
  BY <1>2 DEF DueBy
<1>4. DueAt(seen, o) \in Reasons(checkedAt)
  BY <1>3 DEF Reasons
<1> QED BY <1>4 DEF NextWake, Earliest

LEMMA StepSleeps ==
    OneProcess /\ TypeOK /\ FollowTypeOK /\ ReadsSchedule /\ NeverOversleeps
        /\ [FollowNext]_followVars => NeverOversleeps'
<1> SUFFICES ASSUME OneProcess, TypeOK, FollowTypeOK, ReadsSchedule, NeverOversleeps,
                    [FollowNext]_followVars
             PROVE  NeverOversleeps'
  OBVIOUS
<1>1. CASE Decide
  <2>1. seen = notBefore /\ seen \in [Orders -> Nat]
    BY <1>1 DEF Decide, ReadsSchedule, FollowTypeOK
  <2>2. checkedAt \in Nat
    BY <1>1, SizeAssumption DEF Decide, FollowTypeOK, Time
  <2>3. \A o \in Waiting : DueAt(notBefore, o) > checkedAt => wake' <= DueAt(notBefore, o)
    BY <1>1, <2>1, <2>2, WakesInTime DEF Decide
  <2> QED BY <1>1, <2>3 DEF Decide, vars, disk, files, NeverOversleeps, Waiting, DueAt
<1>2. CASE loop' = "sleeping" /\ ~Decide
  <2>1. loop = "sleeping" /\ UNCHANGED <<checkedAt, wake>>
    BY <1>2
    DEF FollowNext, WatcherStep, WatcherActs, Check, Passing, PassReturns, PassDies, Leave,
        DecideDies, Wake, WakeLater, LookAtSchedule, Killed, RequestStop, Relaunch,
        followVars, watch
  <2>2. ~OtherPass
    BY WatcherAssumption DEF OtherPass, OneProcess
  <2>3. UNCHANGED <<notBefore, stateFile>>
    BY <1>2, <2>1, <2>2
    DEF FollowNext, WatcherStep, WatcherActs, Check, Passing, PassReturns, PassDies, Leave,
        DecideDies, Wake, WakeLater, LookAtSchedule, Killed, RequestStop, Relaunch,
        FollowTypeOK, Environment, Tick, Sign, ManualSend, Mine, followVars, vars, disk, files
  <2> QED BY <2>1, <2>3 DEF NeverOversleeps, Waiting, DueAt
<1>3. CASE loop' # "sleeping"
  BY <1>3 DEF NeverOversleeps
<1> QED BY <1>1, <1>2, <1>3

\* A watcher that is the only process never sleeps past the moment at which
\* another waiting entry becomes due.
THEOREM SleepsInTime == ASSUME OneProcess PROVE FollowSpec => []NeverOversleeps
<1>1. FollowInit => ReadsSchedule /\ NeverOversleeps
  BY DEF FollowInit, ReadsSchedule, NeverOversleeps
<1> QED BY <1>1, StepReads, StepSleeps, FollowTypeCorrect, WatcherMakesPasses, TypeCorrect,
           PTL DEF FollowSpec

----------------------------------------------------------------------------
(* The clock moves on between two passes of a watcher.                     *)

\* What the watcher waits for lies ahead of its last check.
Ahead ==
    /\ seen \in [Orders -> Nat]
    /\ checkedAt # None => checkedAt \in Nat /\ checkedAt <= clock
    /\ loop = "check" /\ checkedAt # None => checkedAt < clock
    /\ loop \in {"checked", "deciding"} => checkedAt # None
    /\ loop = "sleeping" => checkedAt # None /\ wake \in Nat /\ wake > checkedAt

LEMMA ClockRuns ==
    ASSUME TypeOK, [Next]_vars
    PROVE  /\ clock \in Nat /\ clock' \in Nat
           /\ clock' >= clock
<1>1. clock \in Nat
  BY SizeAssumption DEF TypeOK, WorldTypeOK, Time
<1>2. clock' = clock \/ clock' = clock + 1
  <2>1. CASE Environment \/ UNCHANGED vars
    BY <2>1 DEF Environment, Tick, Sign, ManualSend, Mine, vars, world
  <2>2. CASE \E p \in Proc : PassStep(p) \/ Crash(p)
    BY <2>2, FileFrame
  <2> QED BY <2>1, <2>2 DEF Next
<1> QED BY <1>1, <1>2

LEMMA StepAhead == TypeOK /\ Ahead /\ [FollowNext]_followVars => Ahead'
<1> SUFFICES ASSUME TypeOK, Ahead, [FollowNext]_followVars PROVE Ahead'
  OBVIOUS
<1> USE NoneAssumption DEF Ahead
<1>1. clock \in Nat /\ clock' \in Nat /\ clock' >= clock
  BY FollowStepIsPassStep, ClockRuns
<1>2. CASE Check \/ Passing \/ PassDies \/ Leave \/ DecideDies \/ Killed \/ RequestStop
  BY <1>1, <1>2 DEF Check, Passing, PassDies, Leave, DecideDies, Killed, RequestStop, watch
<1>3. CASE PassReturns
  <2>1. clock' = clock
    BY <1>3 DEF PassReturns, Return, world
  <2> QED BY <1>1, <1>3, <2>1 DEF PassReturns
<1>9. CASE LookAtSchedule
  <2>1. seen' \in [Orders -> Nat]
    BY <1>9 DEF LookAtSchedule, TypeOK, DiskTypeOK
  <2> QED BY <1>1, <1>9, <2>1 DEF LookAtSchedule, vars, world
<1>4. CASE Decide
  <2>1. wake' \in Nat /\ wake' > checkedAt
    BY <1>4, WakeIsAhead DEF Decide
  <2> QED BY <1>1, <1>4, <2>1 DEF Decide, Unread, vars, world
<1>5. CASE Wake
  <2>1. UNCHANGED <<clock, checkedAt, wake>> /\ loop' = "check"
    BY <1>5 DEF Wake, vars, world
  <2> QED BY <1>1, <1>5, <2>1 DEF Wake
<1>6. CASE Relaunch \/ WakeLater
  BY <1>6 DEF Relaunch, WakeLater, Unread
<1>7. CASE ((Environment \/ OtherPass) /\ UNCHANGED watch) \/ UNCHANGED followVars
  BY <1>1, <1>7 DEF followVars, watch
<1> QED BY <1>2, <1>3, <1>4, <1>5, <1>6, <1>7, <1>9 DEF FollowNext, WatcherStep, WatcherActs

\* The watcher does not spin: whatever is due and whatever holds it back, the
\* clock has moved on when the next pass starts.
THEOREM NeverSpins == FollowSpec => NoBusyLoop
<1>1. FollowInit => Ahead
  BY DEF FollowInit, Ahead, Unread
<1>2. TypeOK /\ Ahead /\ [FollowNext]_followVars =>
        [loop = "check" /\ loop' = "passing" /\ checkedAt # None
            => clock > checkedAt]_followVars
  <2> SUFFICES ASSUME TypeOK, Ahead, loop = "check", checkedAt # None
               PROVE  clock > checkedAt
    OBVIOUS
  <2> QED BY SizeAssumption DEF Ahead, TypeOK, WorldTypeOK, Time
<1> QED BY <1>1, <1>2, StepAhead, WatcherMakesPasses, TypeCorrect, PTL DEF FollowSpec, NoBusyLoop

----------------------------------------------------------------------------
(* A watcher with company is one of the passes that reschedule runs among. *)

RP == INSTANCE RescheduleProofs

\* The passes of the two modules are the same ones.
LEMMA SamePasses ==
    ASSUME NEW p \in Proc, PassStep(p) \/ Crash(p)
    PROVE  RP!PassStep(p) \/ RP!Crash(p)
<1> USE DEF disk, files, world, locals, Orders, Exit, AnyOption, Goto, Blank, Fault, Abandon,
            Readable,
            RP!disk, RP!files, RP!world, RP!locals, RP!Orders, RP!Exit, RP!AnyOption, RP!Goto,
            RP!Blank, RP!Fault, RP!Abandon, RP!Readable
<1>1. Start(p) \/ Load(p) \/ LoadDies(p) \/ Return(p)
        => RP!Start(p) \/ RP!Load(p) \/ RP!LoadDies(p) \/ RP!Return(p)
  BY DEF Start, Load, LoadDies, Return, RP!Start, RP!Load, RP!LoadDies, RP!Return
<1>2. PassOver(p) \/ NothingSigned(p) \/ NotSigned(p) \/ Resolve(p)
        => RP!PassOver(p) \/ RP!NothingSigned(p) \/ RP!NotSigned(p) \/ RP!Resolve(p)
  BY DEF PassOver, NothingSigned, NotSigned, Resolve, NextEntry, AtEntry, PassedOver,
         SignedDirReady, ReadyTimes, Draws, CatchUpFloors, Latest, WithReady,
         RP!PassOver, RP!NothingSigned, RP!NotSigned, RP!Resolve, RP!NextEntry, RP!AtEntry,
         RP!PassedOver, RP!SignedDirReady, RP!ReadyTimes, RP!Draws, RP!CatchUpFloors,
         RP!Latest, RP!WithReady
<1>6. OpenTmp(p) \/ WriteTmp(p) => RP!OpenTmp(p) \/ RP!WriteTmp(p)
  BY DEF OpenTmp, Open, WriteTmp, Write, Overwritten, Spliced, SameLength,
         RP!OpenTmp, RP!Open, RP!WriteTmp, RP!Write, RP!Overwritten, RP!Spliced, RP!SameLength
<1>3. SwapReady(p) \/ SwapResult(p) \/ SwapDies(p) \/ Hold(p)
        => RP!SwapReady(p) \/ RP!SwapResult(p) \/ RP!SwapDies(p) \/ RP!Hold(p)
  BY DEF SwapReady, SwapResult, SwapDies, Hold, Held, Replace, Writers, NextEntry,
         NextAttempted, RP!SwapReady, RP!SwapResult, RP!SwapDies, RP!Hold,
         RP!Held, RP!Replace, RP!Writers, RP!NextEntry, RP!NextAttempted
<1>4. Finalize(p) \/ FinalizeFails(p) \/ ParseDies(p) \/ LookupFinds(p) \/ LookupMisses(p)
        => RP!Finalize(p) \/ RP!FinalizeFails(p) \/ RP!ParseDies(p)
            \/ RP!LookupFinds(p) \/ RP!LookupMisses(p)
  BY DEF Finalize, FinalizeFails, ParseDies, LookupFinds, LookupMisses, Held, MarkFailed,
         MarkedFailed, NodeFinds, NextAttempted, RP!Finalize, RP!FinalizeFails, RP!ParseDies,
         RP!LookupFinds, RP!LookupMisses, RP!Held, RP!MarkFailed, RP!MarkedFailed,
         RP!NodeFinds, RP!NextAttempted
<1>5. TestPasses(p) \/ TestRejects(p) \/ SendReturns(p) \/ SendFails(p) \/ SendDies(p)
        \/ MarkBroadcast(p) \/ Crash(p)
        => RP!TestPasses(p) \/ RP!TestRejects(p) \/ RP!SendReturns(p) \/ RP!SendFails(p)
            \/ RP!SendDies(p) \/ RP!MarkBroadcast(p) \/ RP!Crash(p)
  BY DEF TestPasses, TestRejects, SendReturns, SendFails, SendDies, MarkBroadcast, Crash,
         TestAllows, SendAllows, Accept, MarkFailed, MarkedFailed, MarkedBroadcast,
         RP!TestPasses, RP!TestRejects, RP!SendReturns, RP!SendFails, RP!SendDies,
         RP!MarkBroadcast, RP!Crash, RP!TestAllows, RP!SendAllows, RP!Accept, RP!MarkFailed,
         RP!MarkedFailed, RP!MarkedBroadcast
<1> QED BY <1>1, <1>2, <1>3, <1>4, <1>5, <1>6 DEF PassStep, RP!PassStep

LEMMA SameWorld == Environment => RP!Environment
BY DEF Environment, Tick, Sign, ManualSend, Mine, TestAllows, disk, files, world, locals,
       Orders, RP!Environment, RP!Tick, RP!Sign, RP!ManualSend, RP!Mine, RP!TestAllows, RP!disk,
       RP!files, RP!world, RP!locals, RP!Orders

LEMMA SameReschedule == R!Rescheduling => RP!Rescheduling
<1> USE DEF R!Fault, R!Blank, R!Orders, R!Finish, R!vars, R!disk, R!files, R!world, R!locals,
            RP!Fault, RP!Blank, RP!Orders, RP!Finish, RP!vars, RP!disk, RP!files, RP!world,
            RP!locals
<1>1. R!ReadFiles \/ R!OnlyShow \/ R!Retime => RP!ReadFiles \/ RP!OnlyShow \/ RP!Retime
  BY DEF R!ReadFiles, R!Readable, R!OnlyShow, R!Retime, R!Pending, R!NewTimes, R!Retimed,
         R!DrawsCleared, RP!ReadFiles, RP!Readable, RP!OnlyShow, RP!Retime, RP!Pending,
         RP!NewTimes, RP!Retimed, RP!DrawsCleared
<1>2. R!SaveOpen \/ R!SaveTmp => RP!SaveOpen \/ RP!SaveTmp
  BY DEF R!SaveOpen, R!Open, R!SaveTmp, R!Write, R!Overwritten, R!Spliced, R!SameLength,
         RP!SaveOpen, RP!Open, RP!SaveTmp, RP!Write, RP!Overwritten, RP!Spliced, RP!SameLength
<1>3. R!SaveSwap \/ R!SaveDies => RP!SaveSwap \/ RP!SaveDies
  BY DEF R!SaveSwap, R!Replace, R!Writers, R!SaveDies, RP!SaveSwap, RP!Replace, RP!Writers,
         RP!SaveDies
<1>4. R!Killed => RP!Killed
  BY DEF R!Killed, R!Abandon, RP!Killed, RP!Abandon
<1> QED BY <1>1, <1>2, <1>3, <1>4 DEF R!Rescheduling, RP!Rescheduling

\* A step of the composition is a step of the watcher and the passes beside it,
\* or one of reschedule, which leaves the watcher alone.
LEMMA BesideFrame ==
    ASSUME [BesideNext]_besideVars
    PROVE  \/ [FollowNext]_followVars /\ UNCHANGED retiming
           \/ R!Rescheduling /\ UNCHANGED watch
BY DEF BesideNext, Watching, Beside, FollowNext, besideVars

\* A pass is made only when the discipline allows it.
LEMMA PassesWhenAllowed ==
    ASSUME [BesideNext]_besideVars, ~R!Rescheduling
    PROVE  \/ UNCHANGED vars
           \/ Environment
           \/ (paused => rstep = "idle") /\ \E p \in Proc : PassStep(p) \/ Crash(p)
<1>1. CASE Watching
  <2>1. CASE WatcherStep /\ WatcherRuns
    <3>1. Check \/ Passing \/ PassReturns \/ PassDies
            => PassStep(Watcher) \/ Crash(Watcher)
      BY DEF Check, Passing, PassReturns, PassDies, PassStep
    <3>2. Leave \/ LookAtSchedule \/ Decide \/ DecideDies \/ Wake \/ WakeLater => UNCHANGED vars
      BY DEF Leave, LookAtSchedule, Decide, DecideDies, Wake, WakeLater
    <3> QED BY <2>1, <3>1, <3>2, WatcherAssumption DEF WatcherStep, WatcherActs, WatcherRuns
  <2>2. CASE Killed \/ RequestStop \/ Relaunch
    BY <2>2 DEF Killed, RequestStop, Relaunch
  <2> QED BY <1>1, <2>1, <2>2 DEF Watching
<1>2. CASE Beside
  BY <1>2 DEF Beside, OtherPass, WatcherRuns
<1> QED BY <1>1, <1>2 DEF BesideNext, besideVars, followVars

LEMMA BesideStepIsRescheduleStep ==
    [BesideNext]_besideVars => [RP!RescheduleNext]_(RP!allVars)
<1> SUFFICES ASSUME [BesideNext]_besideVars PROVE [RP!RescheduleNext]_(RP!allVars)
  OBVIOUS
<1>1. CASE R!Rescheduling
  BY <1>1, SameReschedule DEF RP!RescheduleNext
<1>2. CASE ~R!Rescheduling
  <2>1. UNCHANGED <<paused, runs, rstep, rmem, rescheduledAt, halfDone>>
    BY <1>2, BesideFrame DEF retiming
  <2>2. CASE UNCHANGED vars
    BY <2>1, <2>2
    DEF vars, disk, files, world, locals, RP!allVars, RP!vars, RP!disk, RP!files, RP!world,
        RP!locals, RP!rvars
  <2>3. CASE Environment
    BY <2>1, <2>3, SameWorld DEF RP!RescheduleNext, RP!rvars
  <2>4. CASE (paused => rstep = "idle") /\ \E p \in Proc : PassStep(p) \/ Crash(p)
    BY <2>1, <2>4, SamePasses DEF RP!RescheduleNext, RP!Passes, RP!rvars
  <2> QED BY <1>2, <2>2, <2>3, <2>4, PassesWhenAllowed
<1> QED BY <1>1, <1>2

LEMMA BesideInitIsRescheduleInit == BesideInit => RP!RescheduleInit
BY DEF BesideInit, R!RescheduleInit, RP!RescheduleInit, R!Init, RP!Init, R!Blank, RP!Blank,
       R!Orders, RP!Orders, R!AnyOption, RP!AnyOption, R!Writers, RP!Writers

\* A live watcher, cron passes and reschedule side by side are passes and
\* reschedule, under the same discipline.
THEOREM WatcherAmongReschedules == BesideSpec => RP!RescheduleSpec
BY BesideInitIsRescheduleInit, BesideStepIsRescheduleStep, PTL DEF BesideSpec, RP!RescheduleSpec

\* The constants are the same ones, so what is proved of Reschedule applies.
LEMMA SameConstants ==
    /\ None \notin Int /\ None \notin RP!States
    /\ N \in Nat /\ MaxTime \in Nat /\ MaxFaults \in Nat
    /\ Schedules \subseteq [RP!Orders -> Nat]
    /\ Options \subseteq RP!OptionSet /\ Options # {}
    /\ TxIndex \in BOOLEAN
    /\ SignedKinds \subseteq {"good", "bad"}
    /\ Spread \in Nat /\ MinGap \in Nat /\ MaxRuns \in Nat
    /\ Disciplines \subseteq BOOLEAN
    /\ "reschedule" \notin Proc
BY WriterAssumption, NoneAssumption, FileAssumption, SizeAssumption, EnvironmentAssumption,
   BesideAssumption
DEF Orders, OptionSet, States, Entry, Stamp, RP!Orders, RP!OptionSet, RP!States, RP!Entry,
    RP!Stamp

\* So whatever runs beside the watcher, records are true ...
THEOREM BesideRecordsAreTrue == BesideSpec => []RecordedWasAccepted
<1>1. RP!RecordedWasAccepted => RecordedWasAccepted
  BY DEF RP!RecordedWasAccepted, RecordedWasAccepted, RP!Orders, Orders
<1>2. RP!RescheduleSpec => []RP!RecordedWasAccepted
  BY RP!RescheduledRecordsAreTrue, SameConstants
<1> QED BY <1>1, <1>2, WatcherAmongReschedules, PTL

\* ... and everything keeps its type.
LEMMA BesideTypeOK == BesideSpec => []TypeOK
<1>1. RP!RescheduleTypeOK => TypeOK
  BY DEF RP!RescheduleTypeOK, RP!TypeOK, RP!DiskTypeOK, RP!WorldTypeOK, RP!PassTypeOK,
         RP!Located, RP!AtWork, RP!Orders, RP!States, RP!Entry, RP!Stamp, RP!Time,
         RP!Handles, RP!Forms, RP!Writers, RP!Saving, RP!SavingReady, RP!SavingResult,
         TypeOK, DiskTypeOK, WorldTypeOK, PassTypeOK, Located, AtWork, Orders, States, Entry,
         Stamp, Time, Handles, Forms, Writers, Saving, SavingReady, SavingResult
<1>2. RP!RescheduleSpec => []RP!RescheduleTypeOK
  BY RP!RescheduleTypeCorrect, SameConstants
<1> QED BY <1>1, <1>2, WatcherAmongReschedules, PTL

\* What reschedule leaves alone.
LEMMA RescheduleFrame ==
    ASSUME R!Rescheduling
    PROVE  UNCHANGED <<clock, node, sentAt, pc, locals>>
<1> USE DEF locals, R!vars, R!world, R!locals
<1>1. R!ReadFiles \/ R!OnlyShow \/ R!Retime => UNCHANGED <<clock, node, sentAt, pc, locals>>
  BY DEF R!ReadFiles, R!OnlyShow, R!Retime
<1>2. R!SaveOpen \/ R!SaveTmp \/ R!SaveSwap => UNCHANGED <<clock, node, sentAt, pc, locals>>
  BY DEF R!SaveOpen, R!SaveTmp, R!SaveSwap
<1>3. R!SaveDies \/ R!Killed => UNCHANGED <<clock, node, sentAt, pc, locals>>
  BY DEF R!SaveDies, R!Killed
<1> QED BY <1>1, <1>2, <1>3 DEF R!Rescheduling

LEMMA BesideFollowType == BesideSpec => []FollowTypeOK
<1>1. BesideInit => FollowTypeOK
  BY FollowInitType DEF BesideInit
<1>2. TypeOK /\ FollowTypeOK /\ [BesideNext]_besideVars => FollowTypeOK'
  BY BesideFrame, StepFollowType, RescheduleFrame DEF FollowTypeOK, watch
<1> QED BY <1>1, <1>2, BesideTypeOK, PTL DEF BesideSpec

----------------------------------------------------------------------------
(* With company, a watcher oversleeps only what was moved after its look.  *)

\* While it decides, what it has read of the schedule is right but for entries
\* that others have changed since.
ReadsUnmoved == loop = "deciding" => \A o \in Orders \ moved : seen[o] = notBefore[o]

\* An entry that is not noted as moved is as it was.
LEMMA UnmovedEntries ==
    ASSUME Beside, NEW o \in Orders \ moved'
    PROVE  o \notin moved /\ stateFile'[o] = stateFile[o] /\ notBefore'[o] = notBefore[o]
BY DEF Beside, NoteMoved

LEMMA StepReadsUnmoved == ReadsUnmoved /\ [BesideNext]_besideVars => ReadsUnmoved'
<1> SUFFICES ASSUME ReadsUnmoved, [BesideNext]_besideVars PROVE ReadsUnmoved'
  OBVIOUS
<1>1. CASE Beside
  BY <1>1, UnmovedEntries DEF Beside, watch, ReadsUnmoved
<1>2. CASE Watching /\ LookAtSchedule
  BY <1>2 DEF LookAtSchedule, ReadsUnmoved, vars, disk, files
<1>3. CASE Watching /\ ~LookAtSchedule
  <2>1. moved' = moved
    BY <1>3 DEF Watching
  <2>2. loop' = "deciding" => loop = "deciding" /\ seen' = seen /\ notBefore' = notBefore
    BY <1>3
    DEF Watching, WatcherStep, WatcherActs, Check, Passing, PassReturns, PassDies, Leave,
        Decide, DecideDies, Wake, WakeLater, Killed, RequestStop, Relaunch, watch, vars, disk,
        files
  <2> QED BY <2>1, <2>2 DEF ReadsUnmoved
<1>4. CASE UNCHANGED besideVars
  BY <1>4 DEF besideVars, followVars, vars, disk, files, watch, ReadsUnmoved
<1> QED BY <1>1, <1>2, <1>3, <1>4 DEF BesideNext

LEMMA StepOversleeps ==
    TypeOK /\ FollowTypeOK /\ ReadsUnmoved /\ OversleepsOnlyMoved
        /\ [BesideNext]_besideVars => OversleepsOnlyMoved'
<1> SUFFICES ASSUME TypeOK, FollowTypeOK, ReadsUnmoved, OversleepsOnlyMoved,
                    [BesideNext]_besideVars
             PROVE  OversleepsOnlyMoved'
  OBVIOUS
<1>1. CASE Beside
  <2>1. UNCHANGED <<loop, checkedAt, wake>>
    BY <1>1 DEF Beside, watch
  <2>2. \A o \in Orders \ moved' :
          o \notin moved /\ stateFile'[o] = stateFile[o] /\ notBefore'[o] = notBefore[o]
    BY <1>1, UnmovedEntries
  <2>3. \A o \in Waiting' \ moved' : o \in Waiting \ moved
    BY <2>2 DEF Waiting
  <2>4. \A o \in Waiting' \ moved' : DueAt(notBefore, o)' = DueAt(notBefore, o)
    BY <2>2, <2>3 DEF Waiting, DueAt
  <2> QED BY <2>1, <2>3, <2>4 DEF OversleepsOnlyMoved
<1>2. CASE Watching /\ Decide
  <2>1. moved' = moved /\ UNCHANGED <<notBefore, stateFile, checkedAt>>
    BY <1>2 DEF Watching, LookAtSchedule, Decide, vars, disk, files
  <2>2. checkedAt \in Nat /\ seen \in [Orders -> Nat] /\ wake' \in NextWake(checkedAt)
    BY <1>2, SizeAssumption DEF Decide, FollowTypeOK, Time
  <2>3. ASSUME NEW o \in Waiting \ moved, DueAt(notBefore, o) > checkedAt
        PROVE  wake' <= DueAt(notBefore, o)
    <3>1. seen[o] = notBefore[o] /\ o \in Waiting
      BY <1>2 DEF Decide, ReadsUnmoved, Waiting
    <3>2. DueAt(seen, o) = DueAt(notBefore, o)
      BY <3>1 DEF DueAt
    <3> QED BY <2>2, <2>3, <3>1, <3>2, WakesInTime
  <2> QED BY <2>1, <2>3 DEF OversleepsOnlyMoved, Waiting, DueAt
<1>3. CASE Watching /\ ~Decide
  <2>1. loop' = "sleeping" =>
          loop = "sleeping" /\ UNCHANGED <<notBefore, stateFile, checkedAt, wake, moved>>
    BY <1>3 DEF Watching, WatcherStep, WatcherActs, Check, Passing, PassReturns, PassDies, Leave,
         LookAtSchedule, DecideDies, Wake, WakeLater, Killed, RequestStop, Relaunch, FollowTypeOK,
         watch, vars, disk, files
  <2> QED BY <2>1 DEF OversleepsOnlyMoved, Waiting, DueAt
<1>4. CASE UNCHANGED besideVars
  BY <1>4
  DEF besideVars, followVars, vars, disk, files, watch, OversleepsOnlyMoved, Waiting, DueAt
<1> QED BY <1>1, <1>2, <1>3, <1>4 DEF BesideNext

\* Whatever runs beside it, the watcher sleeps past the due time of no order
\* whose entries were left alone since it last looked at the schedule.
THEOREM OversleepsNothingElse == BesideSpec => []OversleepsOnlyMoved
<1>1. BesideInit => ReadsUnmoved /\ OversleepsOnlyMoved
  BY DEF BesideInit, FollowInit, ReadsUnmoved, OversleepsOnlyMoved
<1> QED BY <1>1, StepReadsUnmoved, StepOversleeps, BesideTypeOK, BesideFollowType,
           PTL DEF BesideSpec

----------------------------------------------------------------------------
(* With company, only a pass under way sends by a time that was replaced.  *)

LEMMA BesidePunctual == BesideSpec => []Punctual
<1>1. BesideInit => Punctual
  BY InitTimely, TimelyIsPunctual DEF BesideInit, FollowInit
<1>2. TypeOK /\ Punctual /\ [BesideNext]_besideVars => Punctual'
  <2> SUFFICES ASSUME TypeOK, Punctual, [BesideNext]_besideVars PROVE Punctual'
    OBVIOUS
  <2>1. CASE [FollowNext]_followVars
    BY <2>1, FollowStepIsPassStep, StepPunctual
  <2>2. CASE R!Rescheduling
    BY <2>2, RescheduleFrame DEF Punctual, AtWork, locals
  <2> QED BY <2>1, <2>2, BesideFrame
<1> QED BY <1>1, <1>2, BesideTypeOK, PTL DEF BesideSpec

\* A new broadcast_not_before binds every pass that starts after it was written,
\* the watcher's and cron's: one that sends before it began with the old one.
THEOREM OnlyOldPlansAreEarly == BesideSpec => EarlyOnlyByOldPlan
<1>1. TypeOK /\ Punctual /\ [BesideNext]_besideVars =>
        [\A o \in Orders : Sends(o) /\ clock < notBefore[o] =>
            \E p \in Proc : pc[p] = "send" /\ cur[p] = o /\ plan[p] # notBefore]_besideVars
  <2> SUFFICES ASSUME TypeOK, Punctual, [BesideNext]_besideVars,
                      NEW o \in Orders, Sends(o), clock < notBefore[o]
               PROVE  \E p \in Proc : pc[p] = "send" /\ cur[p] = o /\ plan[p] # notBefore
    OBVIOUS
  <2>1. [Next]_vars
    BY BesideFrame, RescheduleFrame, FollowStepIsPassStep DEF Sends
  <2>2. PICK p \in Proc : pc[p] = "send" /\ cur[p] = o /\ plan[p][o] <= clock
    BY <2>1, SenderIsDue
  <2>3. notBefore[o] \in Int /\ clock \in Int
    BY SizeAssumption DEF TypeOK, DiskTypeOK, WorldTypeOK, Time
  <2> QED BY <2>2, <2>3
<1> QED BY <1>1, BesideTypeOK, BesidePunctual, PTL DEF BesideSpec, EarlyOnlyByOldPlan


=============================================================================
