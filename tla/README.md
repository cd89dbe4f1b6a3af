# Verification of coldcard-panic-drain

`coldcard-panic-drain` empties a Bitcoin wallet whose seed may be known to
somebody else (Wallet A) into a safe one (Wallet B): one transaction per coin,
planned, signed on a Coldcard, and broadcast over hours or days by a program
that nobody watches.  This directory models the parts of it whose behaviour
depends on order, time and failure, checks them with TLC and proves the main
results with TLAPS.

Source paths below are relative to `src/src/coldcard_panic_drain/`.

## The system and its parts

| Part | Code | State it keeps | Operations |
|---|---|---|---|
| broadcast-due pass | `broadcast/runner.py`, `state.py`, `core_rpc.py`, `paths.py` | `broadcast-state.yaml` (status, time and `ready_at` of every order), its `.tmp` | one pass: read, walk the orders, draw send times, ask Core, send, record |
| `--follow` | `broadcast/follow.py` | none on disk; wake time, shutdown flag | pass, work out next wake, sleep, stop on a signal |
| reschedule | `schedule/reschedule.py` | rewrites `schedule.yaml`, then the state file | new times for what is not broadcast, draws cleared |
| broadcast times | `schedule/timing.py`, `quiet_hours.py`, `yaml_manifest.py` | `schedule.yaml` | spread, jitter, 15 minutes apart, outside the quiet hours |
| plan | `cli.py` `plan`, `plan/*`, `verify/*` | `labels-session.json` | ownership gate, labels, mapping, review gate |
| generate | `cli.py` `generate`, `plan/session.py`, `plan/mapper.py`, `psbt/builder.py` | `psbts/`, manifest, `schedule.yaml`, session | checks against the wallets as they are now, then files one after the other |
| remind | `schedule/remind_logic.py` | none | names the next order to an operator who broadcasts by hand |
| process | `cli.py` `main`, `wipe.py`, `network_guard.py`, `broadcast/rpc_url.py`, `core_rpc.py` | the workspace, signal handlers, the addresses vetted for one connection | start-up, guard, RPC, signals, removal of the workspace |
| wallet database, other exports, path check | the rest | - | parsing, formatting, printing |

How they interact: `plan` hands a session file to `generate`; `generate` writes
the schedule; the operator signs and copies files into `psbts_signed/`; passes
started by cron, by hand or by `--follow` share the schedule, the state file and
Bitcoin Core, with no lock between them; `reschedule` rewrites the schedule and
the state file beside them; `remind` reads both.  Each of these is a process with
a workspace of its own, and reaches Core through the network guard.

What is hard: the state file is read whole and saved whole, so the last writer
wins; the `.tmp` file is one for all processes, and is emptied before it is
written; a pass can die anywhere, also between the send
and the record of it; RPC errors are partly swallowed; a decision is made with
one reading of the clock; two files are replaced one after the other; a random
delay must not be drawn twice; an overdue backlog must not go out at once; the
wallets can change between plan and generate; a watcher sleeps on what it read;
a host name is looked up twice; signals come during start-up and clean-up.  `PROJECT.json` lists these
hazards at their lines.

Per part, what makes it correct:

- *pass*: a record is true and final, nothing goes out before its time, a random
  delay is drawn once, a backlog keeps its spacing, what was sent is never
  called failed, everything acceptable goes out in the end;
- *--follow*: wakes for whatever becomes due, does not spin, stops when asked;
- *reschedule*: retimes what is pending and nothing else, loses no record;
- *broadcast times*: in order, 15 minutes apart, never in the quiet hours, not
  put off without need, on days when the clock changes too;
- *plan, generate*: PSBTs pay to the wallet that was confirmed, are those that
  were accepted, spend what is unspent to what is unused; what is left out
  is said; two batches in one directory do not mix;
- *remind*: names what a pass is about to send;
- *process*: connects to local addresses alone, ends when asked to, leaves no
  workspace.

## Modules

| Module | What it is | Code |
|---|---|---|
| `BroadcastDue` | The core.  Any number of processes run passes; every opening and writing of a file, RPC and clock reading is an action. | `broadcast/runner.py`, `state.py`, `core_rpc.py`, `paths.py`, `cli.py` |
| `DrainLedger` | The abstract promise: each order goes to Core at most once and when due, and is written down once, for good. | - |
| `Follow` | EXTENDS `BroadcastDue`: `--follow` around the passes of one process; the others are cron passes. | `broadcast/follow.py` |
| `Reschedule` | EXTENDS `BroadcastDue`: `reschedule` on the files of the passes. | `schedule/reschedule.py` |
| `Beside` | EXTENDS `Follow`, INSTANCE `Reschedule`: a watcher beside `reschedule` or a cron line. | both |
| `Remind` | EXTENDS `BroadcastDue`: what `remind` says, as an operator on its files. | `schedule/remind_logic.py` |
| `NetworkGuard` | One call to Core under the guard: look-ups, candidates, redirects. | `network_guard.py`, `broadcast/rpc_url.py`, `core_rpc.py` |
| `Process` | EXTENDS `NetworkGuard`: one process from start-up to exit, with its workspace and its signals. | `cli.py` `main`, `wipe.py`, `broadcast/follow.py` |
| `Timing` | The assignment of times, entry by entry, on a local clock that may change. | `schedule/timing.py`, `quiet_hours.py` |
| `Batch` | `plan`, `generate`, `verify-manifest` and the operator between them, over several plans. | `cli.py`, `plan/*`, `verify/*`, `psbt/builder.py`, `schedule/yaml_manifest.py`, `export/warnings.py` |
| `MC*` | Small instances and bounds for TLC. | - |
| `BroadcastDueProofs` | Type correctness, true records, nothing before its time: any number of processes. | - |
| `LonePassProofs` | One process at a time: a state file that can be read, final records, draws made once, nothing before its send time, and `BroadcastDue` implements `DrainLedger`. | - |
| `InterruptedProofs` | EXTENDS `Remind`, `LonePassProofs`.  One process at a time, killed between a submission and its record: no false failure, the spacing kept, `remind` agrees. | - |
| `RescheduleProofs` | EXTENDS `Reschedule`, `LonePassProofs`: types, true records, and what pausing buys. | - |
| `FollowProofs` | EXTENDS `Beside`, `InterruptedProofs`, INSTANCE `RescheduleProofs`.  A watcher makes passes of `BroadcastDue`; among reschedules it makes those of `Reschedule`; it does not spin, nor oversleep. | - |
| `TimingProofs` | Times are in order and apart, out of the quiet hours, and put off no further than needed. | - |
| `ProcessProofs` | Types, the workspace is removed, peers are local. | - |
| `BatchProofs` | Types; PSBTs pay to the confirmed wallet; bundles are accepted, fresh and complete; what a careful operator has of it. | - |

### How state and actions correspond to the code

**BroadcastDue.**  `notBefore` is `schedule.yaml`, `stateFile` and `tmpFile` are
`broadcast-state.yaml` and its `.tmp`, `signed` is `psbts_signed/`, `node` is what
Bitcoin Core knows.  Each process has the locals of `run_broadcast_due`: `plan`
and `mem` (its copies of the files), `now`, `cur` (the loop), `sent`
(attempts), `dirOk`, `ready`.  `pc` names where it stands: `load`, `scan`
(choosing an entry: `PassOver`, `Return`, `NotSigned`, `NothingSigned`,
`Resolve`), `saveReady`/`writeReady`/`swapReady` and `saveResult`/`writeResult`/
`swapResult` (`save_atomic`, see below), `gate` (`Hold`, `Finalize` and
its failures), `lookup`, `test`, `send` (the three RPCs with each of their
outcomes), `mark`.  `sentAt` is a history variable.

*The save.*  `save_atomic` opens the `.tmp` file, which empties it (`Open`),
writes the text (`Write`) and renames it (`Replace`).  All processes open the same
name, so `opened` keeps which file the handle of each leads to: a rename by somebody
else makes it `broadcast-state.yaml` itself, a second one a file without a name.
`form` says of both files whether there is nothing in them yet (an empty file is a
state without entries, for `load`), a text that can be parsed, or one that cannot
(`torn`).  A text written at the beginning of a file that holds another one
(`Overwritten`) replaces it when both are as long; the rest of a longer one stays
behind it, and then the file either starts a new entry there (`Spliced`: what is read
last wins) or cannot be parsed.  `load` of a torn file raises what nothing
catches: `LoadDies`, in `Follow` also `DecideDies`, in `Reschedule` no `ReadFiles`.

**Follow.**  `loop` is the `while True` of `run_broadcast_follow`: `Check` looks
at the flag and starts a pass; `PassReturns`/`PassDies`; `compute_next_broadcast_wake` is two actions,
`LookAtSchedule` (keeps `schedule.yaml` in `seen`) and `Decide` (reads
`broadcast-state.yaml`), since another process may write in between; `Wake` ends
`_sleep_until` (`WakeLater` stands for all ticks past the bound); `Leave` obeys
`stop`, which the sleep hears between two slices (`HeardAsleep`).  The pass itself is
the one of `BroadcastDue`.

**Reschedule.**  `ReadFiles`, `OnlyShow`, `Retime` (writes `schedule.yaml`),
`SaveOpen`, `SaveTmp`, `SaveSwap`, `SaveDies`, `Killed`: the order of
`reschedule_schedule`, sharing the `.tmp` file with the passes.  `halfDone` is a history
variable: a reschedule has ended between its two files, and none has got through since.

**Beside.**  The watcher's actions of `Follow` (`Watching`), and beside them those of
`Reschedule` or a cron pass (`Beside`), on the same files.  `company` is which of the
two runs.  `paused` is an operator who stops the watcher for a reschedule.
`moved` is a history variable: the orders whose entries in either file others
have changed since the watcher last read the schedule.

**Remind.**  `Reminder` is the message of `compute_remind_status` in the state as it
is: the order it names and what it says of it.

**NetworkGuard.**  `stage` is where an RPC stands: `open` (`_check_host`), `vet`
(`_resolve_allowed_ips`), `resolve` (the look-up of the original
`create_connection`), `connect` (each candidate goes through `_LocalhostSocket`),
`exchange` (an answer, an error, or a redirect, which opens another connection).
`pending` is `_pending.allowed_ips`; `peers` is a history variable.

**Process.**  `life` is the statement of `main` and `init_ram_workspace`, then the
command's work, then the handler of a signal or the `atexit` handler.  `wiping` is
the statement of `wipe_workspace`; a second signal unwinds the first one's handler
and starts again.  `Unwind` is what the interpreter does with `SystemExit`.
`Caught` is `_signal_handler`, which starts on top of whatever it interrupts: an RPC
that is open (`stage`) stays open under it and ends with the `SystemExit` that the
handler raises when the workspace is gone (the last step of `Wipe`).  `Noted` is the
`ShutdownFlag`, `Terminated` and `Interrupted` are the defaults before they are in place.

**Timing.**  One action per round of the loop of `assign_broadcast_times`.  Local
time is an offset to UTC that changes once; `Moment` and `SecondReading` are what
`zoneinfo` does with skipped and repeated times.

**Batch.**  `step` is where the running command stands; `snap` is what it read
from the wallet files.  Every prompt (`ConfirmOwnership`, `AnswerLabel`, the review
with its options, `Acknowledge`) and every file written (`Proceed`, `WritePsbt`,
`WriteManifest`, `WriteSchedule`, `WriteSkipped`) is an action.  A transaction is a record of its
coin, wallet, index, fee and the plan it comes from (which stands for
everything else that a new plan draws anew, such as the lock time).
`Broadcast` is a whole pass for one order: `BroadcastDue` has it in detail.

## Runs

| Run | Asks | Shows |
|---|---|---|
| `single` | one stream of passes, all faults but a failing lookup, two schedules, three command lines, quiet hours, an order sent by hand | types, a state file that can be read, final records, nothing early, one draw, spacing, no false failure, `remind` agrees, `DrainLedger` is implemented |
| `overlap` | two passes at once on one `.tmp` file, one of which may be killed | records stay true; once the passes have stopped to overlap, and unless they have left the state file torn, what was sent is on record and every signed order is sent |
| `follow` | a watcher alone, with crashes, rejections, lost replies, signals, an order sent by hand | it wakes in time, does not spin, drains; a request to stop is obeyed at once, the sleep is not slept to its end |
| `beside` | a watcher beside reschedule, or beside a cron line, on one `.tmp` file | records stay true, it sleeps past nothing but what was moved meanwhile, new times are obeyed by every later pass, it drains once the two have stopped to overlap |
| `reschedule` | reschedule with the passes paused, run twice, both killed anywhere | types; records, failures and times kept; no draw that the new schedule could not give stays, but for the time between a kill in the middle of a reschedule and its next run |
| `timing` | every start in a day, four windows, five clocks, every offset | apart and in order, outside the quiet hours, no needless delay |
| `process` | every command's process, three signals anywhere, any resolver, a redirect | local peers, no workspace left, a stop is obeyed |
| `batch` | two plans, careful and careless operators, a mishap anywhere | confirmed wallet, accepted bundle, fresh coins and addresses, what is left out is named, clean-up suffices |
| `follow_blocked` | violation | a due and blocked entry is not polled every 60 s when a later entry exists (finding) |
| `reschedule_race` | violation | reschedule beside a pass retimes what has just been broadcast (finding) |
| `reschedule_redraw` | violation | after a reschedule lateness counts twice (finding) |
| `verify_stale` | violation | verify-manifest accepts a file of an earlier plan that spends another coin (finding) |

`AcceptedNotFailed`, `SpacingKept`, `RecordsAreFinal`, `ReadyDrawnOnce`,
`ReadyAtKept` and `LedgerKept` are claims for passes that do not overlap; two
processes with their own copies do break them, which is why `overlap` asks
something weaker: that it is made good later.  Nor is the state file always
readable then (with `StateReadable` as an invariant of `MCOverlap.cfg`, TLC shows two
passes that save at once: one empties the file the other has open, and publishes it
before the other writes into it), and a pass that cannot read it dies: `AcceptedSettles`
and `Drained` leave out behaviours that end with a torn file (`LeftTorn`); in
`RescheduledDrains` the watcher is gone then.  All three leave out those in which
passes never stop to overlap (`Entangled`): there is always another save then that may
undo one, and no fairness excludes it.  In the same way `NeverOversleeps` is
a claim for a watcher alone: beside `reschedule`, and beside a cron line with a
jitter of its own, it fails, and `beside` asks for `OversleepsOnlyMoved`.
`RecordedWasAccepted` is run in `overlap` and `beside`, and is proved for all behaviours.

Every property of a passing run is broken by a mutant of the code that
`PROJECT.json` lists (the definitions that a comment calls `Variant`).

### Bounds, and why they are enough

- Two orders: spacing, catch-up and the loop relate neighbours; `max_count`
  1 and 2 and the end of the loop occur.  One order in `beside`, where the question
  is what a foreign write does to one wake time; a pass or a reschedule there
  never has to choose between orders, which `overlap` and `reschedule` cover.
- `beside`: one reschedule (`MaxRuns`) or one cron line in a behaviour (`Companies`),
  since all three writers at once do not fit; no faults, which `follow`, `overlap`
  and `reschedule` have.  `Disciplines` is {FALSE}: the watcher is not stopped.
- `process`: three signals (one during start-up or a call, one while it is handled,
  one at exit), two RPCs a pass, one redirect, one or two addresses per answer.
- `overlap`: everything is due at once and the clock stands still (`AtOnce`,
  `MaxTime` 0), so that the passes do nothing but get in each other's way; one may be
  killed.  Failures come about all the same, as rejections of what the other one has
  sent.  Two processes: a lost update, a lost `.tmp`, a file emptied, mixed or
  published by somebody else need two.
- `reschedule`: two runs, since a second one is what repairs a killed first one;
  two faults, one for each.  The passes are paused (`Disciplines`); reschedule beside
  passes that are not is in `beside`.
- `MaxFaults` 1 or 2: a fault and another one during its repair.
- `MaxTime` 1 to 4 ticks: the schedules, a jitter of one tick, the quiet hours and
  a time after them all lie inside.  An order whose send time lies beyond the
  last tick is excepted from liveness (`BeyondHorizon`); the watcher's sleeps that
  end there are woken by `WakeLater`.
- `timing`: a day of twelve ticks, three entries four ticks apart, offsets up to
  three: entries can meet, cross, and both fall into one window; the windows go
  over midnight, over noon, up to midnight and (equal ends) over the day; the
  clock is put forward and back, in and out of the windows.
- `batch`: two coins of equal value (the schedule shuffles those), one of which
  may arrive late (`Late`), the same label
  (file names collide), a fee that leaves nothing (a bundle fails), two plans, one
  mishap.  `MaxIndex` leaves a free index in every state (`BatchAssumption`).

### Fairness

- `FairSpec`: the clock goes on, and every process goes on with its pass or starts
  one: cron runs again and again.  Both are weak: an enabled step of a process
  stays enabled until it is taken or the process dies.  Faults, signatures and the
  operator are not fair.  The README's crontab line justifies the restarts.
- `FairFollowSpec`: the watcher's own steps (`WatcherActs`), and the clock as long as
  nobody has asked the watcher to stop; then it may stand still, so that a watcher that
  can only leave by waking up does not leave.  Nobody has to start a watcher again, so
  `WatcherDrains` excepts one that is gone.
- `FairBesideSpec`: the clock, the watcher's steps, and a reschedule that has begun runs to its end; it is
  a command without a prompt.  Nobody has to start one, or a cron pass: the
  fairness of `Rescheduling` starts at most `MaxRuns`.
- `FairProcessSpec`: the process runs and a call ends, by its timeout of 60 s at the
  latest; `PassEnds` and `NextPass` are both steps of it, so a process may make
  passes for ever unless it is asked to stop.  Signals are not fair.
- `Timing`, `Batch`, `Reschedule` are checked for safety alone: commands wait for an
  operator, who may stop.  `CHECK_DEADLOCK FALSE` in `timing`, `batch`,
  `verify_stale` and `process`: an assignment ends, and so do the bounded plans and
  a process.

## Proofs

All theorems are checked by TLAPS for every value of the constants under the
named assumptions of the modules, which say what kind of value each constant is
and, beyond that, only this: `ClockAssumption`, that a clock which is put back
does not show two days twice; `BatchAssumption`, that Wallet B has two
indices per coin and one per mishap (a bound of the model; the wallet has 2^31);
`FileAssumption` of `BroadcastDue` and `Batch`, that `None` is no file.
Every safety invariant and every action property of the passing runs is a theorem, and
so is `PausedKeepsSchedule`, which no run checks.

Premises that are in the theorems and not in the modules:

- `OneProcess`: cron passes do not overlap.  Where it is missing, any number of
  processes may.
- `TxIndex` and `"lookup" \notin FaultKinds`, of `SentNotFailed` and
  `SpacingIsKept`: Core can be asked about everything it ever had, and answers
  (see the assumptions about the world).
- `SteadyOptions`, of `SpacingIsKept`: no pass that sends has `--skip-failed`, and if
  one that sends has no jitter then none has.  Both are needed.  A failed order that
  is passed over and sent later comes behind its successors, whose spacing nothing
  then looks after.  A pass without jitter keeps no send time on file: when it dies
  after a submission, one with jitter draws a later time for that order, waits for
  it, and sends the next one at once.  (Two ticks of jitter show it, in TLC; `single`
  has steady command lines.)  No doc promises otherwise.

### The passes

| Theorem | Statement | Argument |
|---|---|---|
| `TypeCorrect` | `Spec => []TypeOK` | one case per action; `Located` (a pass at work is at an entry) is part of it, since `cur` and `ready` are used as such, and `Handles` (a handle to `.tmp` leads to a file that is there) |
| `RecordsAreTrue` | `Spec => []RecordedWasAccepted` | `Accounted`: not only the file, but `.tmp` and every copy in memory are honest, and a pass about to record has seen Core take the transaction.  The file alone is not inductive: it is overwritten with copies, and with mixtures of two, each entry of which comes from one of them |
| `NeverBeforeSchedule` | `Spec => NotBeforeKept` | `Timely`: `Punctual` (`now` has passed, work is only done on entries due in the copy of the schedule) and the copy is the one on disk.  `Punctual` alone holds also beside `reschedule` |
| `StateStaysReadable` | `OneProcess`: `Spec => []StateReadable` | `Sound` and `Current`: a lone pass has emptied the file it writes, so what it renames is its own text, whole |
| `RecordsStay`, `ReadyIsDrawnOnce`, `NeverBeforeReadyAt` | with `OneProcess` | `Current`: outside a save the copy is the file, during one it differs at the current entry alone, and what is renamed is the copy; `Drawn`: what is about to be saved as `ready_at` is what the pass goes by |
| `LedgerIsKept` | `OneProcess`: `Spec => LedgerKept` | refinement: initial states map to initial states, `Accept` and `ManualSend` to `Submit`, `SwapResult` to `Book`, `Tick` to `Advance`, all else stutters; from `Accounted`, `Current`, `Timely` |
| `SentNotFailed` | `OneProcess`, `TxIndex`, no failing look-up: `Spec => AcceptedNotFailed` | `Recognised`: what was sent is known to Core, and a pass past the look-up is at an order that was not |
| `SpacingIsKept` | the same and `SteadyOptions`: `Spec => SpacingKept` | `SentKept`: for whatever was sent, either the file shows a broadcast of it or of one ahead of it that is no earlier (`Covered`), or the next pass settles a time for it that has passed already (`Fixed`) and so records it before it goes on; `PassKept` says the same of the pass under way, entry by entry.  A pass that dies after a submission leaves nothing in the file; only the argument about the next pass closes the gap |
| `ReminderIsAhead` | `OneProcess`: `Spec => ReminderNamesIt` | `Timely` and `Current`; the order a pass sends is itself one `remind` can name, so the least of those is no later |

### --follow and reschedule

| Theorem | Statement | Argument |
|---|---|---|
| `WatcherMakesPasses` | `FollowSpec => Spec` | step by step; carries `RecordsAreTrue`, `NeverBeforeSchedule` and, for a watcher alone, `LedgerIsKept`, `SpacingIsKept` and `SentNotFailed` over (`WatcherRecordsAreTrue`, `WatcherKeepsSchedule`, `WatcherKeepsLedger`, `WatcherKeepsSpacing`, `WatcherFailsNothingSent`) |
| `FollowTypeCorrect` | `FollowSpec => []FollowTypeOK` | that the wake time lies ahead of the check, for every branch of it (`WakeIsAhead`), and that a pass is under way exactly while the loop waits |
| `NeverSpins` | `FollowSpec => NoBusyLoop` | `Ahead`: what the watcher waits for lies after its last check, for every branch of the wake time |
| `SleepsInTime` | `OneProcess`: `FollowSpec => []NeverOversleeps` | `ReadsSchedule`: what it has read when it decides is the schedule; then nothing but its own pass changes either file |
| `WatcherAmongReschedules` | `BesideSpec => RP!RescheduleSpec` | step by step, `RP` being an instance of `RescheduleProofs`: its theorems come with its assumptions as premises, which `SameConstants` discharges; carries `RescheduledRecordsAreTrue` over (`BesideRecordsAreTrue`) |
| `OversleepsNothingElse` | `BesideSpec => []OversleepsOnlyMoved` | `ReadsUnmoved`: what it has read of an entry that was not moved is what is there |
| `OnlyOldPlansAreEarly` | `BesideSpec => EarlyOnlyByOldPlan` | `Punctual` |
| `RescheduleTypeCorrect`, `RescheduledRecordsAreTrue` | | `Accounted` with the copy of reschedule |
| `StatusIsKept`, `PausedRecordsStay` | paused; the second with `OneProcess` | `Undisturbed`: while reschedule is at work no pass is, and its copy has the records of the file; for records also `Current`, in behaviours where the passes are paused for every reschedule |
| `PausedNeverEarly` | `RescheduleSpec => PausedKeepsSchedule` | `paused => Timely`: a pass starts after the schedule was written |
| `NoOldDraws` | `OneProcess`: `RescheduleSpec => []DrawsFollowSchedule` | `DrawsKeepFit`: the draws in the file are such as the schedule could give, unless a reschedule is between its two files or has ended there; then it is its copy that fits.  A draw stays one that could be given, since records only become more and so do the catch-up times (`DrawableGrows`); `LonePass` says what a lone pass knows while it is paused for reschedules |

### Broadcast times, the process

| Theorem | Statement | Argument |
|---|---|---|
| `TimesApart` | `Spec => []EntriesApart` | `NeverBack`: `next_allowed_time` never moves back, whatever the clock does, so the floor that was applied before still holds (the second floor in the code is never needed) |
| `NoneIsQuiet` | `Spec => []OutsideQuietHours` | `SettledIsAllowed`: where the clock shows the end of the quiet hours, what `next_allowed_time` returns shows that end (`EndsAtEnd`), also when it comes twice a day; `ClockAssumption` is used here |
| `PutOffByQuietHours` | `Spec => NoNeedlessDelay` | `OnlyQuietBetween`: on a steady clock every tick up to the end it returns is in the window, which may go over midnight (`DaysApart`) |
| `ProcessTypeCorrect` | `ProcessSpec => []ProcessTypeOK` | one case per action; that a call is open only inside a pass or under the handler that has interrupted it is part of it: the handler's `SystemExit` ends it, so none is open at exit |
| `WorkspaceIsWiped` | `ProcessSpec => []WipedAtExit` | `Cleaning`: from the assignment of `_TEMP_DIR` on, what exists is known and will be removed at exit, and it is forgotten only after it is gone; `WipedAtExit` alone says nothing of the states before |
| `PeersAreLocal` | `ProcessSpec => []OnlyLocalPeers` | `Guarded`: nothing is called before the guard is in place, every candidate is checked at `connect`, and what is vetted is local (a type) |

### Plan and generate

| Theorem | Statement | Argument |
|---|---|---|
| `PaysOnlyConfirmed` | `Spec => []PaysConfirmedWallet` | `Confirmed`: the gate lets one wallet through, and mapping, session and PSBTs carry it along |
| `BundleIsAccepted` | `Spec => []BundleWasAccepted` | `Agreed`: at the prompt the table on the screen is the mapping, afterwards it is only copied |
| `BatchTypeCorrect` | `Spec => []TypeOK` | `BatchInv`.  That a mapping has indices of Wallet B is a fact about counting: `ChainOK` bounds the used indices by the coins that went and the mishaps, so there is always a free one for every coin (`IndexIsFree`), and no two coins get the same (`RankTellsApart`) |
| `NothingIsForgotten` | `Spec => NothingLeftUnsaid` | `BatchInv`: `PlanOK` (a mapping has exactly the coins included, under names and indices that differ: `Fits`) and `BundleOK` (a written schedule has all of the session) |
| `BundleIsFresh` | `Spec => FreshWhenWritten` | `BundleOK`: `generate` goes on only with coins and indices that its own copies allow, and the coins still to be written and those written make up the session |
| `BookedIsGone`, `NoAddressTwice` | a careful operator | `CarefulOK` with `BatchInv`: while the broadcaster is paused nothing is sent; once it is resumed, schedule, session and signed files belong together, so an index is used up only together with its coin |

The counting lemmas need the least number of a set, which `WFMin` of the library
gives: an argument by least counterexample instead of an induction theorem.

### Only model-checked

What is under fairness: `AcceptedSettles`, `Drained`, `StopObeyed`,
`WatcherDrains`, `RescheduledDrains`, `StopEnds` (TLAPS does not do `ENABLED`).
Four of the findings are counterexamples of TLC that a run repeats; the others are
differences between code and docs met while modelling.

## Assumptions about the world

- Core: with `-txindex` a transaction it ever had is found; without it only what
  is in the mempool.  `single` assumes `-txindex` and a lookup that works, since
  without either an order sent by a pass that died does end as failed: that is
  what `core_rpc.py` does, and it is listed under hazards.
- The careful operator of `Batch` follows `docs/FEE-SPIKE-RECOVERY.md`: pauses the
  broadcaster, copies both wallets again, plans, generates, archives old signed
  files and state, resumes.  `BookedIsSpent` and `AddressesUsedOnce` are claims
  about this operator; the careless one breaks them.  (The guide lists signing
  before `generate`; the model has it after.  See the findings.)
- Sparrow's copy knows every address that was paid to when it was copied.  (It
  may list more indices as used, which only moves the next free one.)

## Not modelled

- The H2 database format, key derivation, PSBT bytes, fee arithmetic: data.  What
  they decide (which wallet, which index, whether the fee fits) is in `Batch`.
- Labels, the CSV and calendar files, checklists, heartbeats: formatting, no state.
  (`SKIPPED-UTXOS.txt`, which makes a promise about coins, is in `Batch`.)
- Power loss and a full disk: what was renamed is taken to be on the disk.  A text is
  written in one piece, as Python's buffer of 8 KB does it for some fifty orders; of a
  longer one a kill could leave a part in `.tmp`, which the next save empties, and an
  overlap mix smaller pieces.  Where the rest of a longer text makes a shorter one end in
  the middle of an entry, the file is taken to be unreadable.
- Files in the workspace that `rmtree` cannot remove: it is told to ignore errors,
  so a removal in `Process` always succeeds; what stays behind then stays unsaid.
- A wallet file that is replaced while it is read: Sparrow locks the database, and
  the copies are made by hand before a command is started.  A copy is read at once.
- The path check of `wallet_path_guard.py`: a flag that `main` sets first.

## Plan

Done: the passes, `--follow`, `reschedule`, their composition, `remind`, times, plan
and generate, the life of a process and its network guard, and proofs of every
safety property that the runs check.  Next:

1. `PausedKeepsRecords`, `DrawsFollowSchedule` and the other claims of `Reschedule`
   carried over to `Beside`, where the watcher is what has to be paused.
2. `NothingIsForgotten` over several runs of `generate` of one session, where
   `SKIPPED-UTXOS.txt` of the first may outlive the schedule of the second.
