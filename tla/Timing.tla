------------------------------- MODULE Timing -------------------------------
(***************************************************************************)
(* schedule/timing.py, assign_broadcast_times: the times that generate and *)
(* reschedule write into schedule.yaml.  Every entry has its place in an   *)
(* even spread, is moved by a random offset, is kept apart from the entry  *)
(* before it, and is put off until the quiet hours are over                *)
(* (schedule/quiet_hours.py).  The quiet hours are a matter of the local   *)
(* wall clock, which may be put forward or back while the batch runs.      *)
(***************************************************************************)
EXTENDS Integers, Sequences

CONSTANTS
    Count,      \* the number of entries
    Step,       \* the even distance between them
    Jitter,     \* the greatest random offset: schedule_jitter * step
    MinGap,     \* MIN_ENTRY_GAP
    Day,        \* ticks of a day
    Starts,     \* the times that an assignment may start at
    Windows,    \* the quiet hours that may be set, as wall clock times
    Zones,      \* the local clocks: their offsets before and after a change
    Off         \* no quiet hours

Window == [start: 0 .. (Day - 1), end: 0 .. (Day - 1)]

Zone == [change: Int, before: Int, after: Int]

ASSUME TimingAssumption ==
    /\ Count \in Nat
    /\ Step \in Nat
    /\ Jitter \in Nat
    /\ MinGap \in Nat
    /\ Day \in Nat \ {0}

\* parse_quiet_hours takes any two times, also equal ones.
ASSUME InputAssumption ==
    /\ Starts \subseteq Int
    /\ Windows \subseteq Window
    /\ Off \notin Window
    /\ Zones \subseteq Zone

\* A clock that is put back does not show two days twice: whatever time it
\* shows twice, the next day begins after that.
ASSUME ClockAssumption ==
    \A z \in Zones : \A w \in (z.change + z.after) .. (z.change + z.before - 1) :
        w - (w % Day) + Day >= z.change + z.before

VARIABLES
    start,      \* when the assignment starts
    quiet,      \* quiet_hours, or Off
    zone,       \* the local clock
    times       \* the times assigned so far

vars == <<start, quiet, zone, times>>

----------------------------------------------------------------------------
(* The local clock: datetime.astimezone and back.                          *)

Wall(z, t) == IF t < z.change THEN t + z.before ELSE t + z.after

\* fold: the clock has shown this time before, ahead of being put back.
SecondReading(z, t) == z.change <= t /\ Wall(z, t) - z.before < z.change

\* The moment at which the clock shows w: the earlier one unless the later one
\* is asked for, and one by the old offset when the clock skips w.
Moment(z, w, second) ==
    IF w - z.after < z.change \/ (w - z.before < z.change /\ ~second)
    THEN w - z.before
    ELSE w - z.after

\* in_quiet_hours
InQuietHours(q, z, t) ==
    LET now == Wall(z, t) % Day IN
    IF q.start < q.end
    THEN q.start <= now /\ now < q.end
    ELSE q.start <= now \/ now < q.end

\* The end of the quiet hours on the local day of t.
EndToday(q, z, t) == Wall(z, t) - (Wall(z, t) % Day) + q.end

\* Variants: the rest of the quiet hours is added to the moment, as if no clock
\* changed; the end is always tomorrow's.
NextAllowedElapsed(q, z, t) ==
    IF ~InQuietHours(q, z, t) THEN t ELSE t + ((q.end - Wall(z, t)) % Day)

NextAllowedTomorrow(q, z, t) ==
    IF ~InQuietHours(q, z, t) THEN t
    ELSE Moment(z, EndToday(q, z, t) + Day, FALSE)

\* next_allowed_time.  Adding a day loses the fold.
NextAllowed(q, z, t) ==
    IF ~InQuietHours(q, z, t) THEN t
    ELSE IF EndToday(q, z, t) <= Wall(z, t)
    THEN Moment(z, EndToday(q, z, t) + Day, FALSE)
    ELSE Moment(z, EndToday(q, z, t), SecondReading(z, t))

----------------------------------------------------------------------------
Init ==
    /\ start \in Starts
    /\ quiet \in Windows \cup {Off}
    /\ zone \in Zones
    /\ times = <<>>

\* Variant: the distance to the entry before is left to the even spread.
FlooredNever(s, t) == t

\* Not before MinGap has passed since the entry before.
Floored(s, t) ==
    IF s # <<>> /\ t < s[Len(s)] + MinGap THEN s[Len(s)] + MinGap ELSE t

\* Outside the quiet hours, and still apart from the entry before.
Settled(s, t) ==
    IF quiet = Off THEN t
    ELSE LET allowed == NextAllowed(quiet, zone, t) IN
         IF s # <<>> /\ allowed < s[Len(s)] + MinGap
         THEN NextAllowed(quiet, zone, s[Len(s)] + MinGap)
         ELSE allowed

\* The place of the next entry in the even spread.
Even == start + Step * Len(times)

\* One round of the loop.
Assign ==
    /\ Len(times) < Count
    /\ \E offset \in -Jitter .. Jitter :
        times' = Append(times, Settled(times, Floored(times, Even + offset)))
    /\ UNCHANGED <<start, quiet, zone>>

Next == Assign

Spec == Init /\ [][Next]_vars

----------------------------------------------------------------------------
(* What should hold.                                                       *)

TypeOK ==
    /\ start \in Int
    /\ quiet \in Windows \cup {Off}
    /\ zone \in Zones
    /\ times \in Seq(Int)

\* FAQ: whatever the offsets, the quiet hours and the clock do, entries come in
\* their order and at least MIN_ENTRY_GAP apart.
EntriesApart ==
    \A i \in 1 .. (Len(times) - 1) : times[i] + MinGap <= times[i + 1]

\* The end of the quiet hours is a time that the clock skips when it is put
\* forward; it then stands for a later time, possibly a quiet one again.
EndSkipped ==
    LET skipped == {w % Day : w \in (zone.change + zone.before) .. (zone.change + zone.after - 1)}
    IN  quiet.end \in skipped

\* FAQ: neither an offset nor the distance to the entry before can put an entry
\* back into the quiet hours, also when the clock changes in between.  (Quiet
\* hours that end when they begin make every moment quiet, their end included.)
OutsideQuietHours ==
    quiet # Off /\ quiet.start # quiet.end /\ ~EndSkipped =>
        \A i \in 1 .. Len(times) : ~InQuietHours(quiet, zone, times[i])

\* Quiet hours put an entry off no longer than they last: where the clock is
\* not changed, all of the time in between is quiet.
NoNeedlessDelay ==
    [][zone.before = zone.after =>
        \E offset \in -Jitter .. Jitter :
            LET wanted == Floored(times, Even + offset)
                got == times'[Len(times')]
            IN  /\ wanted <= got
                /\ \A u \in wanted .. (got - 1) :
                        quiet # Off /\ InQuietHours(quiet, zone, u)]_vars

=============================================================================
