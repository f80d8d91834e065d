------------------------------- MODULE Stream -------------------------------
(***************************************************************************)
(* What one direction of a connection promises to the two programs, however *)
(* TCP cuts it: messages are reached in the order they were written, each  *)
(* once, and each one reached is handled or, when a cut falls inside it,   *)
(* lost.  A tolerant reader goes on after a loss; for the other a loss is  *)
(* the end.  Framing is shown to implement this in both directions.        *)
(***************************************************************************)
EXTENDS Naturals, Sequences

CONSTANTS Tolerant

VARIABLES
    sent,     \* the messages written so far
    reached,  \* how many of them the reader has met
    lost,     \* numbers of those it met and could not read
    open      \* the reader has not given the connection up

vars == <<sent, reached, lost, open>>

Init == reached = 0 /\ lost = {} /\ open = TRUE

Write ==
    /\ Len(sent) < Len(sent')
    /\ sent = SubSeq(sent', 1, Len(sent))
    /\ UNCHANGED <<reached, lost, open>>

Meet == reached < Len(sent) /\ reached' = reached + 1 /\ UNCHANGED sent

Handle == Meet /\ (Tolerant \/ lost = {}) /\ UNCHANGED lost /\ (open' => open)

Lose == Meet /\ lost' = lost \cup {reached + 1} /\ open' = (open /\ Tolerant)

Close == open /\ ~open' /\ UNCHANGED <<sent, reached, lost>>

Next == Write \/ Handle \/ Lose \/ Close

Spec == Init /\ [][Next]_vars

=============================================================================
