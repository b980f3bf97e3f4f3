------------------------------ MODULE BeepQueue ------------------------------
(***************************************************************************)
(* What the queue of pwm_beep.c promises its two users.  Beeps come out in *)
(* the order they were accepted, and no more than Capacity wait at a time; *)
(* a message for one beep is refused when there is no room.  Sweeps are    *)
(* not: the beep that comes when Capacity wait takes the place of all of   *)
(* them, and should that happen while the writer is at the first of them,  *)
(* the latest Capacity beeps are in the queue again when it is done.       *)
(* PwmRing implements it with an array and two indices; so does pwm_buzz.c *)
(* where every sweep looks for room.                                       *)
(***************************************************************************)
EXTENDS Naturals, Sequences

CONSTANTS
    Beep,           \* what is queued
    Capacity        \* how many wait at a time

VARIABLES
    queue,          \* the beeps that wait to be written, oldest first
    recent,         \* the Capacity beeps accepted last, oldest first
    unchecked,      \* the beep being accepted may find no room
    writing         \* the writer is at the first beep

vars == <<queue, recent, unchecked, writing>>

Init == queue = <<>> /\ recent = <<>> /\ unchecked = FALSE /\ writing = FALSE

BeginSweep ==
    /\ unchecked' = TRUE
    /\ UNCHANGED <<queue, recent, writing>>

\* The beep is among the recent ones, and may be the last of its message.
Accept(b) ==
    /\ recent' = IF Len(recent) < Capacity THEN Append(recent, b)
                                           ELSE Append(Tail(recent), b)
    /\ unchecked' \in {unchecked, FALSE}
    /\ UNCHANGED writing

Put(b) ==
    /\ Len(queue) < Capacity
    /\ queue' = Append(queue, b)
    /\ Accept(b)

Overrun(b) ==
    /\ unchecked
    /\ Len(queue) = Capacity
    /\ queue' = <<>>
    /\ Accept(b)

BeginTake ==
    /\ ~writing
    /\ queue # <<>>
    /\ writing' = TRUE
    /\ UNCHANGED <<queue, recent, unchecked>>

Take ==
    /\ writing
    /\ queue # <<>>
    /\ queue' = Tail(queue)
    /\ writing' = FALSE
    /\ UNCHANGED <<recent, unchecked>>

\* The queue was overrun while the writer was at its first beep.  What a beep that
\* is being accepted knew of the room is void.
TakeAgain ==
    /\ writing
    /\ queue = <<>>
    /\ queue' = recent
    /\ writing' = FALSE
    /\ unchecked' \in {unchecked, TRUE}
    /\ UNCHANGED recent

Next ==
    \/ BeginSweep \/ BeginTake \/ Take \/ TakeAgain
    \/ \E b \in Beep : Put(b) \/ Overrun(b)

Spec == Init /\ [][Next]_vars
=============================================================================
