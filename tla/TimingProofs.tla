---------------------------- MODULE TimingProofs ----------------------------
(***************************************************************************)
(* Theorems about Timing: for any spread, offsets, quiet hours and change  *)
(* of the clock, entries keep their order and their distance, stay out of  *)
(* the quiet hours, and are put off no longer than those last.             *)
(***************************************************************************)
EXTENDS Timing, SequenceTheorems, TLAPS

\* The time of day lies within the day.
LEMMA TimeOfDay ==
    ASSUME NEW t \in Int
    PROVE  t % Day \in 0 .. (Day - 1)
BY TimingAssumption

\* No window puts a time forward into the past.
LEMMA NeverBack ==
    ASSUME NEW q \in Window, NEW z \in Zones, NEW t \in Int
    PROVE  NextAllowed(q, z, t) \in Int /\ NextAllowed(q, z, t) >= t
<1> DEFINE w == Wall(z, t)
<1>1. /\ z.change \in Int /\ z.before \in Int /\ z.after \in Int
      /\ q.end \in 0 .. (Day - 1) /\ Day \in Nat \ {0}
  BY InputAssumption, TimingAssumption DEF Zone, Window
<1>2. w \in Int
  BY <1>1 DEF Wall
<1>3. w % Day \in 0 .. (Day - 1)
  BY <1>2, TimeOfDay
<1>4. EndToday(q, z, t) = w - (w % Day) + q.end
  BY DEF EndToday, w
<1> HIDE DEF w
<1>5. CASE ~InQuietHours(q, z, t)
  BY <1>5 DEF NextAllowed
<1>6. CASE InQuietHours(q, z, t) /\ EndToday(q, z, t) > w
  <2> DEFINE e == EndToday(q, z, t)
  <2>1. e \in Int /\ e > w
    BY <1>1, <1>2, <1>3, <1>4, <1>6
  <2>2. NextAllowed(q, z, t) = Moment(z, e, SecondReading(z, t))
    <3>1. ~(EndToday(q, z, t) <= Wall(z, t))
      BY <1>2, <2>1 DEF w
    <3> QED BY <1>6, <3>1, Zenon DEF NextAllowed
  <2> HIDE DEF e
  <2>3. CASE t < z.change
    BY <1>1, <2>1, <2>2, <2>3 DEF w, Wall, Moment, SecondReading
  <2>4. CASE t >= z.change
    BY <1>1, <2>1, <2>2, <2>4 DEF w, Wall, Moment, SecondReading
  <2> QED BY <1>1, <2>3, <2>4
<1>7. CASE InQuietHours(q, z, t) /\ EndToday(q, z, t) <= w
  <2> DEFINE e == EndToday(q, z, t) + Day
  <2>1. e \in Int /\ e > w /\ e >= w - (w % Day) + Day
    BY <1>1, <1>2, <1>3, <1>4
  <2>2. NextAllowed(q, z, t) = Moment(z, e, FALSE)
    BY <1>7 DEF NextAllowed, w
  <2> HIDE DEF e
  <2>3. CASE t < z.change
    BY <1>1, <2>1, <2>2, <2>3 DEF w, Wall, Moment
  <2>4. CASE t >= z.change /\ w >= z.change + z.before
    BY <1>1, <2>1, <2>2, <2>4 DEF w, Wall, Moment
  <2>5. CASE t >= z.change /\ w < z.change + z.before
    <3>1. w \in (z.change + z.after) .. (z.change + z.before - 1)
      BY <1>1, <2>5 DEF w, Wall
    <3>2. w - (w % Day) + Day >= z.change + z.before
      BY <3>1, ClockAssumption
    <3>3. e >= z.change + z.before
      BY <1>1, <1>2, <1>3, <2>1, <3>2
    <3> QED BY <1>1, <2>1, <2>2, <2>5, <3>3 DEF w, Wall, Moment
  <2> QED BY <1>1, <1>2, <2>3, <2>4, <2>5
<1> QED BY <1>1, <1>2, <1>3, <1>4, <1>5, <1>6, <1>7

\* A round that has quiet hours to keep appends the next allowed time after the
\* wanted one: a time that is put off keeps its distance without more ado.
LEMMA SettledIsAllowed ==
    ASSUME TypeOK, NEW t \in Int, quiet # Off
    PROVE  /\ Floored(times, t) \in Int
           /\ Settled(times, Floored(times, t)) = NextAllowed(quiet, zone, Floored(times, t))
<1>1. times # <<>> => times[Len(times)] \in Int
  BY DEF TypeOK
<1>2. /\ Floored(times, t) \in Int
      /\ times # <<>> => times[Len(times)] + MinGap <= Floored(times, t)
  BY <1>1, TimingAssumption DEF Floored
<1>3. quiet \in Window /\ zone \in Zones
  BY InputAssumption DEF TypeOK
<1>4. /\ NextAllowed(quiet, zone, Floored(times, t)) \in Int
      /\ NextAllowed(quiet, zone, Floored(times, t)) >= Floored(times, t)
  BY <1>2, <1>3, NeverBack
<1>5. times # <<>> =>
        ~(NextAllowed(quiet, zone, Floored(times, t)) < times[Len(times)] + MinGap)
  BY <1>1, <1>2, <1>4, TimingAssumption
<1> QED BY <1>2, <1>5 DEF Settled

\* What one round appends is a time, MinGap after the one before.
LEMMA RoundKeepsDistance ==
    ASSUME TypeOK, NEW t \in Int
    PROVE  LET new == Settled(times, Floored(times, t))
           IN  /\ new \in Int
               /\ times # <<>> => times[Len(times)] + MinGap <= new
<1>1. times # <<>> => times[Len(times)] \in Int
  BY DEF TypeOK
<1>2. /\ Floored(times, t) \in Int
      /\ times # <<>> => times[Len(times)] + MinGap <= Floored(times, t)
  BY <1>1, TimingAssumption DEF Floored
<1>3. CASE quiet = Off
  BY <1>2, <1>3 DEF Settled
<1>4. CASE quiet # Off
  <2>1. quiet \in Window /\ zone \in Zones
    BY <1>4, InputAssumption DEF TypeOK
  <2>2. /\ NextAllowed(quiet, zone, Floored(times, t)) \in Int
        /\ NextAllowed(quiet, zone, Floored(times, t)) >= Floored(times, t)
    BY <1>2, <2>1, NeverBack
  <2>3. Settled(times, Floored(times, t)) = NextAllowed(quiet, zone, Floored(times, t))
    BY <1>4, SettledIsAllowed
  <2> QED BY <1>1, <1>2, <2>2, <2>3, TimingAssumption
<1> QED BY <1>3, <1>4

\* Every variable has its type; the times are whole ticks.
THEOREM TimingTypeCorrect == Spec => []TypeOK
<1>1. Init => TypeOK
  BY InputAssumption DEF Init, TypeOK
<1>2. TypeOK /\ [Next]_vars => TypeOK'
  <2> SUFFICES ASSUME TypeOK, [Next]_vars PROVE TypeOK'
    OBVIOUS
  <2>1. CASE Assign
    <3>1. PICK offset \in -Jitter .. Jitter :
            times' = Append(times, Settled(times, Floored(times, Even + offset)))
      BY <2>1 DEF Assign
    <3>2. Even + offset \in Int
      BY TimingAssumption DEF Even, TypeOK
    <3>3. Settled(times, Floored(times, Even + offset)) \in Int
      BY <3>2, RoundKeepsDistance
    <3> QED BY <2>1, <3>1, <3>3 DEF Assign, TypeOK
  <2>2. CASE UNCHANGED vars
    BY <2>2 DEF vars, TypeOK
  <2> QED BY <2>1, <2>2 DEF Next
<1> QED BY <1>1, <1>2, PTL DEF Spec

\* For any spread, offsets, quiet hours and change of the clock, the entries of
\* schedule.yaml come in their order, MIN_ENTRY_GAP or more apart.
THEOREM TimesApart == Spec => []EntriesApart
<1>1. Init => EntriesApart
  BY DEF Init, EntriesApart
<1>2. TypeOK /\ EntriesApart /\ [Next]_vars => EntriesApart'
  <2> SUFFICES ASSUME TypeOK, EntriesApart, [Next]_vars PROVE EntriesApart'
    OBVIOUS
  <2>1. CASE Assign
    <3>1. PICK offset \in -Jitter .. Jitter :
            times' = Append(times, Settled(times, Floored(times, Even + offset)))
      BY <2>1 DEF Assign
    <3> DEFINE new == Settled(times, Floored(times, Even + offset))
    <3>2. Even + offset \in Int
      BY TimingAssumption DEF Even, TypeOK
    <3>3. new \in Int /\ (times # <<>> => times[Len(times)] + MinGap <= new)
      BY <3>2, RoundKeepsDistance
    <3> HIDE DEF new
    <3>4. times' = Append(times, new)
      BY <3>1 DEF new
    <3>5. /\ Len(times') = Len(times) + 1
          /\ times'[Len(times) + 1] = new
          /\ \A i \in 1 .. Len(times) : times'[i] = times[i]
      BY <3>3, <3>4 DEF TypeOK
    <3>6. ASSUME NEW i \in 1 .. (Len(times') - 1)
          PROVE  times'[i] + MinGap <= times'[i + 1]
      <4>1. Len(times) \in Nat
        BY DEF TypeOK
      <4>2. CASE i = Len(times)
        <5>1. times # <<>>
          BY <4>1, <4>2, <3>5, <3>6 DEF TypeOK
        <5> QED BY <3>3, <3>5, <4>1, <4>2, <5>1
      <4>3. CASE i # Len(times)
        <5>1. i \in 1 .. (Len(times) - 1) /\ i + 1 \in 1 .. Len(times)
          BY <3>5, <3>6, <4>1, <4>3
        <5> QED BY <3>5, <4>1, <5>1 DEF EntriesApart
      <4> QED BY <4>2, <4>3
    <3> QED BY <3>6 DEF EntriesApart
  <2>2. CASE UNCHANGED vars
    BY <2>2 DEF vars, EntriesApart
  <2> QED BY <2>1, <2>2 DEF Next
<1> QED BY <1>1, <1>2, TimingTypeCorrect, PTL DEF Spec

----------------------------------------------------------------------------
(* Quiet hours.                                                            *)

\* A whole number of days changes nothing about the time of day.
LEMMA DaysApart ==
    ASSUME NEW k \in Int, NEW r \in 0 .. (Day - 1)
    PROVE  (k * Day + r) % Day = r
BY TimingAssumption

\* Every time is a number of days and a time of day.
LEMMA DayAndTime ==
    ASSUME NEW t \in Int
    PROVE  t \div Day \in Int /\ t = (t \div Day) * Day + (t % Day)
BY TimingAssumption

\* The quiet hours end at their end, on the local day of t and on the next one.
LEMMA EndsAtEnd ==
    ASSUME NEW q \in Window, NEW z \in Zones, NEW t \in Int
    PROVE  /\ EndToday(q, z, t) \in Int
           /\ EndToday(q, z, t) % Day = q.end
           /\ (EndToday(q, z, t) + Day) % Day = q.end
<1> DEFINE w == Wall(z, t)
           k == w \div Day
<1>1. w \in Int /\ q.end \in 0 .. (Day - 1)
  BY InputAssumption DEF Wall, Zone, Window
<1>2. EndToday(q, z, t) = w - (w % Day) + q.end
  BY DEF EndToday
<1> HIDE DEF w
<1>3. k \in Int /\ w = k * Day + (w % Day) /\ w % Day \in Int
  BY <1>1, TimingAssumption
<1> HIDE DEF k
<1>4. EndToday(q, z, t) = k * Day + q.end
  BY <1>1, <1>2, <1>3, TimingAssumption
<1>5. EndToday(q, z, t) + Day = (k + 1) * Day + q.end
  BY <1>1, <1>3, <1>4, TimingAssumption
<1>6. EndToday(q, z, t) \in Int
  BY <1>1, <1>2, <1>3
<1>7. k + 1 \in Int
  BY <1>3
<1>8. (k * Day + q.end) % Day = q.end /\ ((k + 1) * Day + q.end) % Day = q.end
  BY <1>1, <1>3, <1>7, DaysApart
<1> QED BY <1>4, <1>5, <1>6, <1>8

\* What a clock does not skip it shows at the moment that stands for it.
LEMMA ShownAtItsMoment ==
    ASSUME NEW z \in Zones, NEW w \in Int, NEW second,
           w \notin (z.change + z.before) .. (z.change + z.after - 1)
    PROVE  Wall(z, Moment(z, w, second)) = w
<1>1. z.change \in Int /\ z.before \in Int /\ z.after \in Int
  BY InputAssumption DEF Zone
<1>2. CASE w - z.after < z.change
  <2>1. w - z.before < z.change
    BY <1>1, <1>2
  <2> QED BY <1>1, <1>2, <2>1 DEF Moment, Wall
<1>3. CASE w - z.after >= z.change /\ w - z.before < z.change /\ ~second
  BY <1>1, <1>3 DEF Moment, Wall
<1>4. CASE w - z.after >= z.change /\ ~(w - z.before < z.change /\ ~second)
  BY <1>1, <1>4 DEF Moment, Wall
<1> QED BY <1>1, <1>2, <1>3, <1>4

\* The next allowed time is allowed.
LEMMA AllowedIsAllowed ==
    ASSUME TypeOK, quiet # Off, quiet.start # quiet.end, ~EndSkipped, NEW t \in Int
    PROVE  ~InQuietHours(quiet, zone, NextAllowed(quiet, zone, t))
<1> DEFINE q == quiet
           z == zone
           e == EndToday(q, z, t)
           got == NextAllowed(q, z, t)
<1>1. q \in Window /\ z \in Zones
  BY InputAssumption DEF TypeOK
<1>2. /\ q.start \in 0 .. (Day - 1) /\ q.end \in 0 .. (Day - 1) /\ Day \in Nat \ {0}
      /\ z.change \in Int /\ z.before \in Int /\ z.after \in Int
  BY <1>1, InputAssumption, TimingAssumption DEF Window, Zone
<1>3. e \in Int /\ e % Day = q.end /\ (e + Day) % Day = q.end
  BY <1>1, EndsAtEnd
<1>4. ASSUME NEW w \in Int, w % Day = q.end, NEW second, got = Moment(z, w, second)
      PROVE  ~InQuietHours(q, z, got)
  <2>1. w \notin (z.change + z.before) .. (z.change + z.after - 1)
    BY <1>4 DEF EndSkipped
  <2>2. Wall(z, got) % Day = q.end
    BY <1>1, <1>4, <2>1, ShownAtItsMoment
  <2> QED BY <1>2, <2>2 DEF InQuietHours
<1>5. CASE ~InQuietHours(q, z, t)
  BY <1>5 DEF NextAllowed
<1>6. CASE InQuietHours(q, z, t) /\ e <= Wall(z, t)
  <2>1. got = Moment(z, e + Day, FALSE) /\ e + Day \in Int
    BY <1>2, <1>3, <1>6 DEF NextAllowed
  <2> QED BY <1>3, <1>4, <2>1
<1>7. CASE InQuietHours(q, z, t) /\ ~(e <= Wall(z, t))
  <2>1. got = Moment(z, e, SecondReading(z, t))
    BY <1>7 DEF NextAllowed
  <2> QED BY <1>3, <1>4, <2>1
<1> QED BY <1>5, <1>6, <1>7

\* For any quiet hours whose end every clock shows, and for any change of the
\* clock, no entry of schedule.yaml is inside them.
THEOREM NoneIsQuiet == Spec => []OutsideQuietHours
<1>1. Init => OutsideQuietHours
  BY DEF Init, OutsideQuietHours
<1>2. TypeOK /\ OutsideQuietHours /\ [Next]_vars => OutsideQuietHours'
  <2> SUFFICES ASSUME TypeOK, OutsideQuietHours, [Next]_vars PROVE OutsideQuietHours'
    OBVIOUS
  <2>1. CASE Assign
    <3>1. PICK offset \in -Jitter .. Jitter :
            times' = Append(times, Settled(times, Floored(times, Even + offset)))
      BY <2>1 DEF Assign
    <3> DEFINE new == Settled(times, Floored(times, Even + offset))
    <3>2. Even + offset \in Int
      BY TimingAssumption DEF Even, TypeOK
    <3>3. new \in Int
      BY <3>2, RoundKeepsDistance
    <3>4. quiet # Off /\ quiet.start # quiet.end /\ ~EndSkipped
            => ~InQuietHours(quiet, zone, new)
      BY <3>2, SettledIsAllowed, AllowedIsAllowed
    <3> HIDE DEF new
    <3>5. times' = Append(times, new) /\ quiet' = quiet /\ zone' = zone
      BY <2>1, <3>1 DEF Assign, new
    <3>6. /\ Len(times') = Len(times) + 1 /\ Len(times) \in Nat
          /\ times'[Len(times) + 1] = new
          /\ \A i \in 1 .. Len(times) : times'[i] = times[i]
      BY <3>3, <3>5 DEF TypeOK
    <3>7. EndSkipped' <=> EndSkipped
      BY <3>5 DEF EndSkipped
    <3>8. ASSUME quiet # Off, quiet.start # quiet.end, ~EndSkipped, NEW i \in 1 .. Len(times')
          PROVE  ~InQuietHours(quiet, zone, times'[i])
      BY <3>4, <3>6, <3>8 DEF OutsideQuietHours
    <3> QED BY <3>5, <3>7, <3>8 DEF OutsideQuietHours, InQuietHours, Wall
  <2>2. CASE UNCHANGED vars
    BY <2>2 DEF vars, OutsideQuietHours, EndSkipped, InQuietHours, Wall
  <2> QED BY <2>1, <2>2 DEF Next
<1> QED BY <1>1, <1>2, TimingTypeCorrect, PTL DEF Spec

\* On a clock that is not changed the way to the next allowed time leads
\* through quiet hours only.
LEMMA OnlyQuietBetween ==
    ASSUME TypeOK, zone.before = zone.after, quiet # Off, NEW t \in Int,
           NEW u \in t .. (NextAllowed(quiet, zone, t) - 1)
    PROVE  InQuietHours(quiet, zone, u)
<1> DEFINE q == quiet
           b == zone.before
           m == (t + b) % Day
           k == (t + b) \div Day
           e == EndToday(q, zone, t)
<1>1. q \in Window /\ zone \in Zones
  BY InputAssumption DEF TypeOK
<1>2. /\ q.start \in 0 .. (Day - 1) /\ q.end \in 0 .. (Day - 1) /\ Day \in Nat \ {0}
      /\ zone.change \in Int /\ b \in Int /\ zone.after \in Int
  BY <1>1, InputAssumption, TimingAssumption DEF Window, Zone
<1>3. \A x \in Int : Wall(zone, x) = x + b
  BY <1>2 DEF Wall
<1>4. m \in 0 .. (Day - 1) /\ k \in Int /\ t + b = k * Day + m
  <2>1. PICK x \in Int : x = t + b
    BY <1>2
  <2>2. x % Day \in 0 .. (Day - 1) /\ x \div Day \in Int /\ x = (x \div Day) * Day + (x % Day)
    BY TimeOfDay, DayAndTime
  <2> QED BY <2>1, <2>2
<1>5. e = ((t + b) - m) + q.end
  <2>1. Wall(zone, t) = t + b
    BY <1>3
  <2> QED BY <2>1 DEF EndToday
<1>6. NextAllowed(q, zone, t) \in Int
  BY <1>1, NeverBack
<1>7. u \in Int /\ t <= u /\ u < NextAllowed(q, zone, t)
  BY <1>6
<1>8. InQuietHours(q, zone, t)
  <2>1. ~InQuietHours(q, zone, t) => NextAllowed(q, zone, t) = t
    BY DEF NextAllowed
  <2> QED BY <1>7, <2>1
<1>9. IF q.start < q.end THEN q.start <= m /\ m < q.end ELSE q.start <= m \/ m < q.end
  BY <1>3, <1>8 DEF InQuietHours
<1>10. ASSUME NEW w \in Int, NEW second PROVE Moment(zone, w, second) = w - b
  BY <1>2 DEF Moment
<1> HIDE DEF q, b, m, k, e
<1>11. NextAllowed(q, zone, t) = IF e <= t + b THEN (e + Day) - b ELSE e - b
  <2>1. e \in Int /\ e + Day \in Int
    BY <1>2, <1>4, <1>5
  <2>2. NextAllowed(q, zone, t) = IF e <= t + b THEN Moment(zone, e + Day, FALSE)
                                  ELSE Moment(zone, e, SecondReading(zone, t))
    <3>1. Wall(zone, t) = t + b
      BY <1>3
    <3> QED BY <1>8, <3>1, Zenon DEF NextAllowed, e
  <2>3. Moment(zone, e + Day, FALSE) = (e + Day) - b
    BY <1>10, <2>1
  <2>4. Moment(zone, e, SecondReading(zone, t)) = e - b
    BY <1>10, <2>1
  <2> QED BY <2>2, <2>3, <2>4
<1>12. Wall(zone, u) = k * Day + (m + (u - t))
  BY <1>2, <1>3, <1>4, <1>7
<1>13. CASE m < q.end
  <2>1. m + (u - t) \in 0 .. (Day - 1) /\ m <= m + (u - t) /\ m + (u - t) < q.end
    BY <1>2, <1>4, <1>5, <1>7, <1>11, <1>13
  <2>2. Wall(zone, u) % Day = m + (u - t)
    BY <1>4, <1>12, <2>1, DaysApart
  <2> QED BY <1>2, <1>4, <1>9, <2>1, <2>2 DEF InQuietHours, q
<1>14. CASE q.end <= m
  <2>1. ~(q.start < q.end) /\ q.start <= m
    BY <1>2, <1>4, <1>9, <1>14
  <2>2. m <= m + (u - t) /\ m + (u - t) < q.end + Day
    BY <1>2, <1>4, <1>5, <1>7, <1>11, <1>14
  <2>3. CASE m + (u - t) < Day
    <3>1. m + (u - t) \in 0 .. (Day - 1)
      BY <1>2, <1>4, <1>7, <2>3
    <3>2. Wall(zone, u) % Day = m + (u - t)
      BY <1>4, <1>12, <3>1, DaysApart
    <3> QED BY <1>2, <1>4, <1>7, <2>1, <2>2, <3>2 DEF InQuietHours, q
  <2>4. CASE m + (u - t) >= Day
    <3> DEFINE r == m + (u - t) - Day
    <3>1. r \in 0 .. (Day - 1) /\ r < q.end
      BY <1>2, <1>4, <1>7, <2>2, <2>4
    <3>2. Wall(zone, u) = (k + 1) * Day + r
      BY <1>2, <1>4, <1>7, <1>12
    <3> HIDE DEF r
    <3>3. Wall(zone, u) % Day = r
      BY <1>4, <3>1, <3>2, DaysApart
    <3> QED BY <1>2, <2>1, <3>1, <3>3 DEF InQuietHours, q
  <2> QED BY <1>2, <1>4, <1>7, <2>3, <2>4
<1> QED BY <1>2, <1>4, <1>13, <1>14

\* Quiet hours of any length put an entry off for as long as they last, and no
\* longer.
THEOREM PutOffByQuietHours == Spec => NoNeedlessDelay
<1>1. TypeOK /\ [Next]_vars =>
        [zone.before = zone.after =>
            \E offset \in -Jitter .. Jitter :
                LET wanted == Floored(times, Even + offset)
                    got == times'[Len(times')]
                IN  /\ wanted <= got
                    /\ \A u \in wanted .. (got - 1) :
                            quiet # Off /\ InQuietHours(quiet, zone, u)]_vars
  <2> SUFFICES ASSUME TypeOK, Assign, zone.before = zone.after
               PROVE  \E offset \in -Jitter .. Jitter :
                        LET wanted == Floored(times, Even + offset)
                            got == times'[Len(times')]
                        IN  /\ wanted <= got
                            /\ \A u \in wanted .. (got - 1) :
                                    quiet # Off /\ InQuietHours(quiet, zone, u)
    BY DEF Next
  <2>1. PICK offset \in -Jitter .. Jitter :
          times' = Append(times, Settled(times, Floored(times, Even + offset)))
    BY DEF Assign
  <2> DEFINE wanted == Floored(times, Even + offset)
             got == times'[Len(times')]
  <2>2. Even + offset \in Int
    BY TimingAssumption DEF Even, TypeOK
  <2>3. got = Settled(times, wanted)
    <3>1. Settled(times, wanted) \in Int
      BY <2>2, RoundKeepsDistance
    <3> HIDE DEF wanted
    <3> QED BY <2>1, <3>1 DEF TypeOK, wanted
  <2>4. CASE quiet = Off
    <3>1. got = wanted /\ wanted \in Int
      <4>1. wanted \in Int
        BY <2>2, TimingAssumption DEF Floored, TypeOK
      <4> QED BY <2>3, <2>4, <4>1 DEF Settled
    <3>2. \A u \in wanted .. (got - 1) : FALSE
      BY <3>1
    <3> QED BY <3>1, <3>2
  <2>5. CASE quiet # Off
    <3>1. wanted \in Int /\ got = NextAllowed(quiet, zone, wanted)
      BY <2>2, <2>3, <2>5, SettledIsAllowed
    <3>2. quiet \in Window /\ zone \in Zones
      BY <2>5, InputAssumption DEF TypeOK
    <3>3. wanted <= got
      BY <3>1, <3>2, NeverBack
    <3>4. \A u \in wanted .. (got - 1) : InQuietHours(quiet, zone, u)
      BY <2>5, <3>1, OnlyQuietBetween
    <3> HIDE DEF wanted, got
    <3> QED BY <2>5, <3>3, <3>4 DEF wanted, got
  <2> QED BY <2>4, <2>5
<1> QED BY <1>1, TimingTypeCorrect, PTL DEF Spec, NoNeedlessDelay

=============================================================================
