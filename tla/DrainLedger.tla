---------------------------- MODULE DrainLedger -----------------------------
(***************************************************************************)
(* What the broadcaster promises, without files, passes or failures: the   *)
(* transaction of an order goes to Bitcoin Core once, not before it is due *)
(* (or by the operator's own hand), and an order that went out is written  *)
(* down as broadcast, once and for good.                                   *)
(***************************************************************************)
EXTENDS Integers

CONSTANTS
    Orders,     \* the entries of the schedule
    ByHand      \* the orders the operator may send without the tool

VARIABLES
    time,       \* the wall clock
    due,        \* when each order may go out
    submitted,  \* the orders whose transaction Core has
    booked      \* the orders written down as broadcast

ledger == <<time, due, submitted, booked>>

Init ==
    /\ time = 0
    /\ due \in [Orders -> Nat]
    /\ submitted = {}
    /\ booked = {}

Advance ==
    /\ time' = time + 1
    /\ UNCHANGED <<due, submitted, booked>>

Submit(o) ==
    /\ o \in Orders \ submitted
    /\ due[o] <= time \/ o \in ByHand
    /\ submitted' = submitted \cup {o}
    /\ UNCHANGED <<time, due, booked>>

Book(o) ==
    /\ o \in submitted \ booked
    /\ booked' = booked \cup {o}
    /\ UNCHANGED <<time, due, submitted>>

Next == Advance \/ \E o \in Orders : Submit(o) \/ Book(o)

Spec == Init /\ [][Next]_ledger

=============================================================================
