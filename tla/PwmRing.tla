------------------------------- MODULE PwmRing -------------------------------
(***************************************************************************)
(* The queue of modules/pwm/pwm_beep.c (pwm_buzz.c keeps the same one): an *)
(* array `beeps' of PWM_BUFSIZE slots, filled at beep_head by the OSC      *)
(* handlers and emptied at beep_tail by the write handler the writer loop  *)
(* calls.  The two threads share the indices and the slots without a lock; *)
(* each step below reads or writes the shared state once, in program       *)
(* order.  One OSC server thread runs the handlers, so there is one        *)
(* producer.                                                               *)
(***************************************************************************)
EXTENDS Naturals, Sequences

CONSTANTS
    Size,           \* PWM_BUFSIZE
    Beep,           \* what the handlers put in a slot
    Empty,          \* what a slot holds before its first use
    Partial,        \* what it holds while its bytes are stored
    SweepLengths    \* how many slots one unchecked sweep fills

ASSUME SizeAssumption == Size \in Nat \ {0, 1}
ASSUME EmptyAssumption == Empty \notin Beep /\ Partial \notin Beep
ASSUME SweepAssumption == SweepLengths \subseteq Nat

VARIABLES
    beeps,          \* the slots
    beep_head,      \* the next slot to fill
    beep_tail,      \* the next slot to write to the device
    put,            \* the producer: where it stands, its beep, whether it looked for
                    \* room, and what a sweep has left
    take,           \* the consumer: where it stands
    latest,         \* history: the Size - 1 beeps accepted last, oldest first
    overrun,        \* history: since the consumer last found a beep, the head has
                    \* gone past the slot it found it in
    revived         \* history: since the producer last looked for room, the tail has
                    \* gone past the head, and old beeps wait again

ring == <<beeps, beep_head, beep_tail>>
vars == <<beeps, beep_head, beep_tail, put, take, latest, overrun, revived>>

Slot == 0 .. Size - 1

\* pwm_has_beeps(): the distance from tail to head around the ring.
HasBeeps ==
    IF beep_head >= beep_tail
    THEN beep_head - beep_tail
    ELSE (beep_head + Size) - beep_tail

\* Mutant of Inc: the index runs off the array.
IncNoWrap(i) == i + 1

\* INC_N_WRAP_PTR, ++i and the reset to 0 in one step.  What is between the two
\* is the value Size, and only the other thread's pwm_has_beeps can see it, which
\* is compared with 0 on one side and with Size - 1 on the other.  A head of Size
\* is Size - tail away from a tail that is not 0, as the head of 0 is, and not
\* 0 away from a tail of 0, as the head before it was; a tail of Size leaves
\* head - Size + Size, as the tail of 0 does.  So the reader sees one of the two
\* states this step goes from and to.
Inc(i) == IF i + 1 = Size THEN 0 ELSE i + 1

Idle == [at |-> "idle", beep |-> Empty, checked |-> FALSE, left |-> 0]

Init ==
    /\ beeps = [i \in Slot |-> Empty]
    /\ beep_head = 0
    /\ beep_tail = 0
    /\ put = Idle
    /\ take = "idle"
    /\ latest = <<>>
    /\ overrun = FALSE
    /\ revived = FALSE

-----------------------------------------------------------------------------
(* The producer: PWMPutBeep, PWMPutBeepTime, PWMPutSweep and PWMPutSweepBug *)

\* The capacity check of PWMPutBeep: a full ring, or a bad argument, drops the
\* beep and leaves the ring alone.
PutDrop ==
    /\ put.at = "idle"
    /\ UNCHANGED vars

\* Mutant of PutCheck: the last free slot is filled too, and a full ring looks
\* like an empty one.
PutCheckLastSlot(b) ==
    /\ put.at = "idle"
    /\ HasBeeps < Size
    /\ put' = [at |-> "fill", beep |-> b, checked |-> TRUE, left |-> 0]
    /\ revived' = FALSE
    /\ UNCHANGED <<ring, take, latest, overrun>>

PutCheck(b) ==
    /\ put.at = "idle"
    /\ HasBeeps < Size - 1
    /\ put' = [at |-> "fill", beep |-> b, checked |-> TRUE, left |-> 0]
    /\ revived' = FALSE
    /\ UNCHANGED <<ring, take, latest, overrun>>

\* A sweep fills its slots without a look at the tail, however many they are and
\* whatever the ring holds.
SweepStart(b, n) ==
    /\ put.at = "idle"
    /\ n > 0
    /\ put' = [at |-> "fill", beep |-> b, checked |-> FALSE, left |-> n - 1]
    /\ revived' = FALSE
    /\ UNCHANGED <<ring, take, latest, overrun>>

\* The first bytes of the slot are stored ...
PutBegin ==
    /\ put.at = "fill"
    /\ beeps' = [beeps EXCEPT ![beep_head] = Partial]
    /\ put' = [put EXCEPT !.at = "store"]
    /\ UNCHANGED <<beep_head, beep_tail, take, latest, overrun, revived>>

\* Mutant of PutFill: the beep goes to the slot behind the head.
PutFillNext ==
    /\ put.at = "store"
    /\ beeps' = [beeps EXCEPT ![Inc(beep_head)] = put.beep]
    /\ put' = [put EXCEPT !.at = "advance"]
    /\ UNCHANGED <<beep_head, beep_tail, take, latest, overrun, revived>>

\* ... and its last.
PutFill ==
    /\ put.at = "store"
    /\ beeps' = [beeps EXCEPT ![beep_head] = put.beep]
    /\ put' = [put EXCEPT !.at = "advance"]
    /\ UNCHANGED <<beep_head, beep_tail, take, latest, overrun, revived>>

\* The slot is published; a sweep goes on with its next beep.
PutAdvance ==
    /\ put.at = "advance"
    /\ beep_head' = Inc(beep_head)
    /\ latest' = IF Len(latest) < Size - 1 THEN Append(latest, put.beep)
                                           ELSE Append(Tail(latest), put.beep)
    /\ overrun' = (overrun \/ HasBeeps = Size - 1)
    /\ \/ put.left = 0 /\ put' = Idle
       \/ /\ put.left # 0
          /\ \E b \in Beep : put' = [at |-> "fill", beep |-> b, checked |-> put.checked,
                                     left |-> put.left - 1]
    /\ UNCHANGED <<beeps, beep_tail, take, revived>>

-----------------------------------------------------------------------------
(* The consumer: dev_pwm_beep_write *)

\* No beep: return 0 at once, and the context stays registered.
TakeNothing ==
    /\ take = "idle"
    /\ HasBeeps = 0
    /\ take' = "keep"
    /\ UNCHANGED <<ring, put, latest, overrun, revived>>

\* Mutant of TakeStart: the handler writes without looking for a beep.
TakeStartUnchecked ==
    /\ take = "idle"
    /\ take' = "write"
    /\ overrun' = FALSE
    /\ UNCHANGED <<ring, put, latest, revived>>

TakeStart ==
    /\ take = "idle"
    /\ HasBeeps # 0
    /\ take' = "write"
    /\ overrun' = FALSE
    /\ UNCHANGED <<ring, put, latest, revived>>

\* write(ctx->fd, beeps[beep_tail].data, ...); an error is only logged.
TakeWrite ==
    /\ take = "write"
    /\ take' = "advance"
    /\ UNCHANGED <<ring, put, latest, overrun, revived>>

TakeAdvance ==
    /\ take = "advance"
    /\ beep_tail' = Inc(beep_tail)
    /\ take' = "period"
    /\ revived' = (revived \/ HasBeeps = 0)
    /\ UNCHANGED <<beeps, beep_head, put, latest, overrun>>

\* The period of the next write is the delay in the slot that is next, if any.
TakePeriod ==
    /\ take = "period"
    /\ take' = IF HasBeeps # 0 THEN "delay" ELSE "last"
    /\ overrun' = FALSE
    /\ UNCHANGED <<ring, put, latest, revived>>

TakeDelay ==
    /\ take = "delay"
    /\ take' = "last"
    /\ UNCHANGED <<ring, put, latest, overrun, revived>>

\* return !pwm_has_beeps(): "drop" has call_context_handler remove the context.
TakeLast ==
    /\ take = "last"
    /\ take' = IF HasBeeps = 0 THEN "drop" ELSE "keep"
    /\ UNCHANGED <<ring, put, latest, overrun, revived>>

TakeReturn ==
    /\ take \in {"keep", "drop"}
    /\ take' = "idle"
    /\ UNCHANGED <<ring, put, latest, overrun, revived>>

-----------------------------------------------------------------------------
Produce ==
    \/ PutDrop
    \/ \E b \in Beep : PutCheck(b)
    \/ \E b \in Beep, n \in SweepLengths : SweepStart(b, n)
    \/ PutBegin \/ PutFill \/ PutAdvance

Consume ==
    \/ TakeNothing \/ TakeStart \/ TakeWrite \/ TakeAdvance
    \/ TakePeriod \/ TakeDelay \/ TakeLast \/ TakeReturn

Next == Produce \/ Consume

Spec == Init /\ [][Next]_vars

-----------------------------------------------------------------------------
(* Properties *)

\* Every variable has its type; the indices stay inside the array.
TypeOK ==
    /\ beeps \in [Slot -> Beep \cup {Empty, Partial}]
    /\ beep_head \in Slot
    /\ beep_tail \in Slot
    /\ put \in [at : {"idle", "fill", "store", "advance"}, beep : Beep \cup {Empty},
               checked : BOOLEAN, left : Nat]
    /\ take \in {"idle", "write", "advance", "period", "delay", "last", "keep", "drop"}
    /\ latest \in Seq(Beep)
    /\ overrun \in BOOLEAN
    /\ revived \in BOOLEAN

\* The slot that was filled i beeps ago.
Behind(i) == IF i <= beep_head THEN beep_head - i ELSE (beep_head + Size) - i

\* What pwm_has_beeps counts are the beeps accepted last, whole and in their order,
\* however messages, sweeps of any length and the write handler interleave: a
\* sweep that has no room costs whole laps of the ring, and never leaves a slot
\* that was not filled, or is being filled, between tail and head.
RingHoldsLatest ==
    /\ HasBeeps <= Len(latest)
    /\ \A i \in 1 .. HasBeeps : beeps[Behind(i)] = latest[Len(latest) + 1 - i]

\* The beeps in the slots from tail to head.
Contents == [i \in 1 .. HasBeeps |-> beeps[Behind(HasBeeps + 1 - i)]]

Unchecked == put.at # "idle" /\ (put.checked => revived)

\* The ring is the queue of Size - 1 places that BeepQueue describes: beeps are lost
\* only when there is no room, to a sweep or to a beep whose look for room was made
\* void; only a handler that a sweep went past while it wrote brings beeps back.
Q == INSTANCE BeepQueue WITH
        queue <- Contents, recent <- latest, unchecked <- Unchecked,
        writing <- take \in {"write", "advance"}, Capacity <- Size - 1
QueueSpec == Q!Spec

\* The slot the write handler reads holds the oldest beep that waits, and so does
\* the slot it takes the next period from, although the producer may be filling
\* a slot at that moment: unless a sweep has gone past the slot since the handler
\* found a beep there, when it may be half filled or older than what waits.
ReadsOldestBeep ==
    take \in {"write", "delay"} /\ ~overrun =>
        /\ HasBeeps # 0
        /\ beeps[beep_tail] = latest[Len(latest) + 1 - HasBeeps]

\* What makes them inductive: the slots behind the head hold the latest beeps
\* wherever the tail is; a put that looked for room still has it, for meanwhile
\* only the consumer moves, unless it moved past the head; and the beep the consumer
\* found is there, or the head has come round to it, and then the ring is full of
\* beeps.
SlotsBehind == \A i \in 1 .. Len(latest) : beeps[Behind(i)] = latest[Len(latest) + 1 - i]
LatestFit == Len(latest) <= Size - 1 /\ HasBeeps <= Len(latest)
CheckedRoom ==
    /\ put.at # "idle" /\ put.checked => put.left = 0
    /\ put.at # "idle" /\ ~Unchecked => HasBeeps < Size - 1
FilledSlot == put.at = "advance" => beeps[beep_head] = put.beep
PutHoldsBeep == put.at # "idle" => put.beep \in Beep
CheckedBeep ==
    take \in {"write", "advance", "delay"} /\ HasBeeps = 0 =>
        overrun /\ Len(latest) = Size - 1

RingInv ==
    /\ TypeOK
    /\ SlotsBehind
    /\ LatestFit
    /\ CheckedRoom
    /\ FilledSlot
    /\ PutHoldsBeep
    /\ CheckedBeep

=============================================================================
