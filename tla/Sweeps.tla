-------------------------------- MODULE Sweeps --------------------------------
(***************************************************************************)
(* The integer arithmetic of the sweeps of pwm_beep.c and pwm_buzz.c and   *)
(* of the transitions of light.c: how many steps a message is cut into,    *)
(* how large they are, and where they end.                                 *)
(*                                                                         *)
(* Distances are taken without their sign (the code multiplies by dir, or  *)
(* divides by a signed difference, and division in C drops the fraction),  *)
(* so that a sweep down is the mirror of a sweep up.                       *)
(***************************************************************************)
EXTENDS Integers

Positive == Nat \ {0}

-----------------------------------------------------------------------------
(* pwm_buzz.c: a sweep over `dist` values of the duty in at most `max` beeps *)

PWM_BUFSIZE == 256

\* The beeps a sweep may take when `pending` wait in the ring: room is kept for the
\* beep it starts with, not for the one that shuts the buzzer up.
MaxBuzzes(pending, max_steps) ==
    LET room == PWM_BUFSIZE - pending - 2
    IN IF room > max_steps THEN max_steps - 1 ELSE room

StepSize(dist, max) == IF dist > max THEN dist \div max ELSE 1

\* The steps, with the compensation for rounding errors.
Steps(dist, max) ==
    LET size == StepSize(dist, max)
    IN IF dist > max THEN max + (dist - max * size) \div size ELSE dist

\* A step must not be shorter than min_delay: else there are fewer of them.
TooFast(dist, max, duration, min_delay) == duration \div Steps(dist, max) < min_delay
SlowSize(dist, duration, min_delay) == dist \div (duration \div min_delay)
SlowSteps(dist, duration, min_delay) ==
    LET steps == duration \div min_delay
        size == SlowSize(dist, duration, min_delay)
    IN steps + (dist - steps * size) \div size

SweepSize(dist, max, duration, min_delay) ==
    IF TooFast(dist, max, duration, min_delay)
    THEN SlowSize(dist, duration, min_delay) ELSE StepSize(dist, max)
SweepSteps(dist, max, duration, min_delay) ==
    IF TooFast(dist, max, duration, min_delay)
    THEN SlowSteps(dist, duration, min_delay) ELSE Steps(dist, max)

-----------------------------------------------------------------------------
(* pwm_beep.c: a sweep over `dist` values of the frequency *)

FREQ_MIN_DURATION == 10

\* A signed short
HalfShort == 128 * 256
Short(n) == ((n + HalfShort) % (2 * HalfShort)) - HalfShort

BeepSteps(duration) ==
    LET steps == Short(duration \div FREQ_MIN_DURATION) IN IF steps = 0 THEN 1 ELSE steps
BeepDelay(duration) == duration \div BeepSteps(duration)

\* What is added to the frequency, and at every how manieth beep.
FreqStepSize(dist, steps) == dist \div steps + 1
FreqSkip(dist, steps) == steps \div dist + 1

\* How far the last of the beeps 0..steps is from the first frequency.
FreqEnd(dist, steps) ==
    FreqStepSize(dist, steps) * (steps \div FreqSkip(dist, steps) + 1)

\* The slots of the ring that a sweep fills; without sustain it ends with silence.
BeepSlots(duration, sustain) == BeepSteps(duration) + 1 + IF sustain THEN 0 ELSE 1

-----------------------------------------------------------------------------
(* pwm_beep.c: the "bugged version of sweep", PWMPutSweepBug.  Its difference of the
   frequencies is an unsigned short. *)

PWM_MAX_FREQ == 1647
UnsignedShort(n) == n % (2 * HalfShort)

BugStepTime(freq_duration) ==
    IF freq_duration < FREQ_MIN_DURATION THEN FREQ_MIN_DURATION ELSE freq_duration
BugSteps(duration, freq_duration) == Short(duration \div BugStepTime(freq_duration))
BugStepSize(f1, f2, steps) == Short(UnsignedShort(f2 - f1) \div steps + 1)

-----------------------------------------------------------------------------
(* light.c: compute_blink_steps, one component of a colour, of distance `dist`, in a
   transition of `maxd` steps *)

ColourSkip(maxd, dist) == (maxd + 1) \div dist

\* How often the loop over the inner steps 1 .. maxd - 1 has moved the component.
ColourMoves(maxd, dist) == (maxd - 1) \div ColourSkip(maxd, dist)

\* The delay of a step in microseconds
StepDelay(duration, maxd) == (duration \div maxd) * 1000
=============================================================================
