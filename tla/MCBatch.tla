------------------------------- MODULE MCBatch ------------------------------
(* Small instances of Batch for TLC. *)
EXTENDS Batch

\* Two coins of one value, which the higher fee would take whole.
TwoValues == <<2, 2>>

\* They carry the same label.
SameLabel == [c \in 1 .. 2 |-> "exchange"]

EveryMishap == {"crash", "spend", "freeze", "receive", "arrive", "misplace"}

=============================================================================
