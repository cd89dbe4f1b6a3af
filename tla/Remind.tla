------------------------------- MODULE Remind -------------------------------
(***************************************************************************)
(* `coldcard-panic-drain remind` (schedule/remind_logic.py): what it tells *)
(* an operator who broadcasts by hand.  It reads the files that            *)
(* broadcast-due works with and decides for itself what is due.            *)
(***************************************************************************)
EXTENDS BroadcastDue, FiniteSetsExt

Unsent == {o \in Orders : stateFile[o].status # "broadcast"}

\* Variant: an entry is due only after its minute.
RemindsOfLate == {o \in Unsent : clock > notBefore[o]}

RemindsOf == {o \in Unsent : clock >= notBefore[o]}

\* The first due entry, and what stands in its way, or else the next one; a
\* traceback where broadcast-state.yaml cannot be parsed.
Reminder ==
    CASE ~Readable -> [order |-> None, says |-> "unreadable"]
      [] Readable /\ RemindsOf # {} ->
            LET o == Min(RemindsOf)
            IN  [order |-> o,
                 says  |-> CASE signed[o] = "missing" -> "waiting for signature"
                             [] signed[o] # "missing" /\ clock \in Quiet -> "due, quiet hours"
                             [] OTHER -> "ready to broadcast"]
      [] Readable /\ RemindsOf = {} /\ Unsent # {} -> [order |-> Min(Unsent), says |-> "next"]
      [] OTHER -> [order |-> None, says |-> "all broadcast"]

\* What a lone pass hands to Core never comes as a surprise to an operator who
\* watches remind: at that moment it names the order itself or one before it as
\* due, although the pass decided from older copies and the clock has moved on.
ReminderNamesIt ==
    [][\A o \in Orders : Sends(o) =>
        Reminder.says \notin {"unreadable", "next", "all broadcast"} /\ Reminder.order <= o]_vars

=============================================================================
