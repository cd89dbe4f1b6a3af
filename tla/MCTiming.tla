------------------------------ MODULE MCTiming ------------------------------
(* A day of twelve ticks, with every kind of quiet hours and clock. *)
EXTENDS Timing

\* Over night, over noon, up to midnight, and a day long.
SomeWindows ==
    {[start |-> 9, end |-> 3], [start |-> 4, end |-> 7], [start |-> 8, end |-> 0],
     [start |-> 5, end |-> 5]}

\* A clock that never changes, one ahead of UTC that is put forward, and one
\* that is put back, in and out of the quiet hours.
SomeZones ==
    {[change |-> 0, before |-> 2, after |-> 2],
     [change |-> 12, before |-> 1, after |-> 2], [change |-> 17, before |-> 1, after |-> 2],
     [change |-> 13, before |-> 2, after |-> 1], [change |-> 17, before |-> 2, after |-> 0]}

EveryStart == 0 .. 11
=============================================================================
