----------------------------- MODULE SweepsProofs -----------------------------
(* What the arithmetic of the sweeps and transitions guarantees for all        *)
(* arguments, and where it misses what it is after.                            *)
EXTENDS Sweeps, TLAPS

-----------------------------------------------------------------------------
(* Division and order *)

LEMMA Quotient ==
    ASSUME NEW a \in Nat, NEW b \in Positive
    PROVE  /\ a \div b \in Nat
           /\ b * (a \div b) <= a
           /\ a < b * (a \div b) + b
  BY SMT DEF Positive

LEMMA TimesKeepsOrder ==
    ASSUME NEW a \in Nat, NEW b \in Nat, NEW c \in Nat, a <= b
    PROVE  c * a <= c * b
  BY SMT

LEMMA TimesReflectsOrder ==
    ASSUME NEW a \in Int, NEW b \in Int, NEW c \in Positive, c * a < c * b
    PROVE  a < b
  BY SMT DEF Positive

\* A quotient is at least what fits, and below what does not.
LEMMA QuotientAtLeast ==
    ASSUME NEW a \in Nat, NEW b \in Positive, NEW n \in Nat, b * n <= a
    PROVE  n <= a \div b
  <1>1. b * n < b * (a \div b + 1)
    BY Quotient, SMT DEF Positive
  <1>2. n < a \div b + 1
    BY <1>1, Quotient, TimesReflectsOrder
  <1> QED BY <1>2, Quotient, SMT

\* Steps that are compensated for rounding are those that fit in the distance.
LEMMA Compensated ==
    ASSUME NEW dist \in Nat, NEW size \in Positive, NEW n \in Nat, n * size <= dist,
           NEW steps, steps = n + (dist - n * size) \div size
    PROVE  /\ steps \in Nat /\ n <= steps
           /\ steps * size <= dist /\ dist < steps * size + size
  <1> DEFINE rest == dist - n * size
  <1> DEFINE more == rest \div size
  <1>1. rest \in Nat
    BY SMT DEF Positive
  <1> HIDE DEF rest
  <1>2. more \in Nat /\ size * more <= rest /\ rest < size * more + size
    BY <1>1, Quotient
  <1> HIDE DEF more
  <1>3. steps = n + more
    BY DEF more, rest
  <1>4. steps * size = n * size + size * more
    BY <1>2, <1>3, SMT DEF Positive
  <1> QED BY <1>1, <1>2, <1>3, <1>4, SMT DEF rest, Positive

-----------------------------------------------------------------------------
(* pwm_buzz.c *)

LEMMA StepsFit ==
    ASSUME NEW dist \in Positive, NEW max \in Positive
    PROVE  /\ StepSize(dist, max) \in Positive /\ Steps(dist, max) \in Positive
           /\ Steps(dist, max) <= dist
           /\ Steps(dist, max) * StepSize(dist, max) <= dist
           /\ dist < Steps(dist, max) * StepSize(dist, max) + StepSize(dist, max)
  <1> DEFINE size == dist \div max
  <1>1. CASE dist <= max
    BY <1>1, SMT DEF Steps, StepSize, Positive
  <1>2. CASE dist > max
    <2>1. size \in Nat /\ max * size <= dist
      BY Quotient DEF Positive
    <2>2. size \in Positive
      BY <1>2, <2>1, QuotientAtLeast, SMT DEF Positive
    <2>3. StepSize(dist, max) = size
      BY <1>2 DEF StepSize
    <2>4. Steps(dist, max) = max + (dist - max * size) \div size
      BY <1>2, <2>3 DEF Steps
    <2> HIDE DEF size
    <2>5. /\ Steps(dist, max) \in Nat /\ max <= Steps(dist, max)
          /\ Steps(dist, max) * size <= dist /\ dist < Steps(dist, max) * size + size
      BY <2>1, <2>2, <2>4, Compensated DEF Positive
    <2>6. Steps(dist, max) <= Steps(dist, max) * size
      BY <2>2, <2>5, SMT DEF Positive
    <2> QED BY <2>2, <2>3, <2>5, <2>6, SMT DEF Positive
  <1> QED BY <1>1, <1>2, SMT DEF Positive

\* What is divided by, when a sweep is slowed down.
LEMMA SlowFit ==
    ASSUME NEW dist \in Positive, NEW max \in Positive,
           NEW duration \in Positive, NEW min_delay \in Positive,
           min_delay <= duration, TooFast(dist, max, duration, min_delay)
    PROVE  /\ duration \div min_delay \in Positive
           /\ SlowSize(dist, duration, min_delay) \in Positive
           /\ (duration \div min_delay) * SlowSize(dist, duration, min_delay) <= dist
  <1> DEFINE slow == duration \div min_delay
  <1> DEFINE fast == Steps(dist, max)
  <1>1. slow \in Nat /\ min_delay * slow <= duration /\ slow \in Positive
    BY Quotient, QuotientAtLeast, SMT DEF Positive
  <1>2. fast \in Positive /\ fast <= dist
    BY StepsFit
  <1>3. duration \div fast < min_delay
    BY DEF TooFast
  <1> HIDE DEF slow, fast
  <1>4. slow < fast
    <2>1. duration < fast * (duration \div fast) + fast /\ duration \div fast \in Nat
      BY <1>2, Quotient DEF Positive
    <2>2. fast * (duration \div fast + 1) <= fast * min_delay
      BY <1>2, <1>3, <2>1, TimesKeepsOrder, SMT DEF Positive
    <2>3. min_delay * slow < min_delay * fast
      BY <1>1, <1>2, <2>1, <2>2, SMT DEF Positive
    <2> QED BY <1>1, <1>2, <2>3, TimesReflectsOrder, SMT DEF Positive
  <1>5. slow * 1 <= dist
    BY <1>1, <1>2, <1>4, SMT DEF Positive
  <1>6. SlowSize(dist, duration, min_delay) = dist \div slow
    BY DEF SlowSize, slow
  <1>7. dist \div slow \in Positive /\ slow * (dist \div slow) <= dist
    BY <1>1, <1>5, Quotient, QuotientAtLeast, SMT DEF Positive
  <1> QED BY <1>1, <1>6, <1>7 DEF slow

\* PWMPutSweep of pwm_buzz.c divides by steps, by duration / min_delay and by
\* stepsize: none of them is ever 0, whatever the message asks for and however full
\* the ring is.
THEOREM BuzzNeverDividesByZero ==
    ASSUME NEW dist \in Positive, NEW max \in Positive,
           NEW duration \in Positive, NEW min_delay \in Positive, min_delay <= duration
    PROVE  /\ Steps(dist, max) \in Positive /\ StepSize(dist, max) \in Positive
           /\ TooFast(dist, max, duration, min_delay) =>
                  /\ duration \div min_delay \in Positive
                  /\ SlowSize(dist, duration, min_delay) \in Positive
  BY StepsFit, SlowFit

\* The duty of pwm_buzz.c never leaves the range between d1 and d2, and comes as close
\* to d2 as its step allows, though both roundings of the steps are compensated for.
THEOREM BuzzStaysInRange ==
    ASSUME NEW dist \in Positive, NEW max \in Positive,
           NEW duration \in Positive, NEW min_delay \in Positive, min_delay <= duration
    PROVE  LET steps == SweepSteps(dist, max, duration, min_delay)
               size == SweepSize(dist, max, duration, min_delay)
           IN steps * size <= dist /\ dist < steps * size + size
  <1>1. CASE TooFast(dist, max, duration, min_delay)
    <2> DEFINE slow == duration \div min_delay
    <2> DEFINE size == SlowSize(dist, duration, min_delay)
    <2>1. slow \in Positive /\ size \in Positive /\ slow * size <= dist
      BY <1>1, SlowFit
    <2>2. SlowSteps(dist, duration, min_delay) = slow + (dist - slow * size) \div size
      BY DEF SlowSteps
    <2>3. /\ SweepSteps(dist, max, duration, min_delay) = SlowSteps(dist, duration, min_delay)
          /\ SweepSize(dist, max, duration, min_delay) = size
      BY <1>1 DEF SweepSteps, SweepSize
    <2> HIDE DEF slow, size
    <2> QED BY <2>1, <2>2, <2>3, Compensated DEF Positive
  <1>2. CASE ~TooFast(dist, max, duration, min_delay)
    BY <1>2, StepsFit DEF SweepSteps, SweepSize
  <1> QED BY <1>1, <1>2

\* The compensation may take more steps than there was room for, up to twice as many.
\* The beeps that find no room are refused, the one that shuts the buzzer up among them.
THEOREM BuzzStepsBounded ==
    ASSUME NEW dist \in Positive, NEW max \in Positive
    PROVE  Steps(dist, max) < 2 * max
  <1> DEFINE size == dist \div max
  <1> DEFINE steps == Steps(dist, max)
  <1>1. CASE dist <= max
    BY <1>1, SMT DEF Steps, StepSize, Positive
  <1>2. CASE dist > max
    <2>1. StepSize(dist, max) = size
      BY <1>2 DEF StepSize
    <2>2. size \in Positive /\ steps \in Positive /\ steps * size <= dist
      BY <2>1, StepsFit
    <2>3. dist < max * size + max
      BY Quotient DEF Positive
    <2> HIDE DEF size, steps
    <2>4. max * 1 <= max * size
      BY <2>2, TimesKeepsOrder, SMT DEF Positive
    <2>5. size * steps < size * (2 * max)
      BY <2>2, <2>3, <2>4, SMT DEF Positive
    <2>6. steps < 2 * max
      BY <2>2, <2>5, TimesReflectsOrder, SMT DEF Positive
    <2> QED BY <2>6 DEF steps
  <1> QED BY <1>1, <1>2, SMT DEF Positive

\* When 240 beeps wait in the ring, a sweep of pwm_buzz.c over 27 values of the
\* duty wants 28 beeps and one to shut the buzzer up, where there is room for 15.
THEOREM BuzzOverrunsItsRoom ==
    Steps(27, MaxBuzzes(240, 20)) = 27 /\ MaxBuzzes(240, 20) = 14
  BY SMT DEF Steps, StepSize, MaxBuzzes, PWM_BUFSIZE

-----------------------------------------------------------------------------
(* pwm_beep.c *)

\* Before and after the overflow of a short
LEMMA ShortKeeps ==
    ASSUME NEW n \in Nat, n < HalfShort
    PROVE  Short(n) = n
  BY SMT DEF Short, HalfShort

LEMMA ShortTurns ==
    ASSUME NEW n \in Nat, HalfShort <= n, n < 2 * HalfShort
    PROVE  Short(n) < 0
  BY SMT DEF Short, HalfShort

LEMMA TenthOfShort ==
    ASSUME NEW n \in Nat, NEW half \in Nat
    PROVE  n < 10 * half <=> n \div 10 < half
  BY SMT

LEMMA StepsOfShortSweep ==
    ASSUME NEW duration \in Positive, duration < 10 * HalfShort
    PROVE  /\ BeepSteps(duration) \in Positive
           /\ BeepSteps(duration) = IF duration < 10 THEN 1 ELSE duration \div 10
  <1> DEFINE n == duration \div 10
  <1>1. HalfShort \in Nat
    BY SMT DEF HalfShort
  <1>2. n \in Nat /\ n < HalfShort
    BY <1>1, TenthOfShort, SMT DEF Positive
  <1>3. Short(n) = n
    BY <1>2, ShortKeeps
  <1>4. BeepSteps(duration) = IF n = 0 THEN 1 ELSE n
    BY <1>3 DEF BeepSteps, FREQ_MIN_DURATION
  <1>5. n = 0 <=> duration < 10
    BY SMT DEF Positive
  <1> HIDE DEF n
  <1> QED BY <1>2, <1>4, <1>5, SMT DEF Positive, n

\* A sweep of pwm_beep.c on an empty ring fits in it exactly when it lasts less than
\* 2540 ms: PWMPutSweep itself does not look.
THEOREM BeepSweepFits ==
    ASSUME NEW duration \in Positive, duration < 10 * HalfShort
    PROVE  BeepSlots(duration, FALSE) < PWM_BUFSIZE <=> duration < 2540
  BY StepsOfShortSweep, SMT DEF BeepSlots, PWM_BUFSIZE, Positive

\* From 327.68 s up to 655.36 s the steps overflow a short, and a sweep of that length
\* plays nothing; beyond, the short comes round to positive numbers again.
THEOREM LongBeepSweepIsMute ==
    ASSUME NEW duration \in Nat, 10 * HalfShort <= duration, duration < 20 * HalfShort
    PROVE  BeepSteps(duration) < 0
  <1> DEFINE n == duration \div 10
  <1>1. HalfShort \in Nat
    BY SMT DEF HalfShort
  <1>2. n \in Nat /\ HalfShort <= n /\ n < 2 * HalfShort
    BY <1>1, SMT
  <1>3. Short(n) < 0 /\ Short(n) # 0
    BY <1>2, ShortTurns, SMT DEF Short, HalfShort
  <1> QED BY <1>3 DEF BeepSteps, FREQ_MIN_DURATION

\* Each beep of a sweep lasts at least as long as the device is told to play it.
THEOREM BeepsLastLongEnough ==
    ASSUME NEW duration \in Positive, 10 <= duration, duration < 10 * HalfShort
    PROVE  FREQ_MIN_DURATION <= BeepDelay(duration)
  <1> DEFINE steps == BeepSteps(duration)
  <1>1. steps \in Positive /\ steps * 10 <= duration /\ duration \in Nat
    BY StepsOfShortSweep, Quotient, SMT DEF Positive
  <1> HIDE DEF steps
  <1>2. 10 <= duration \div steps
    BY <1>1, QuotientAtLeast
  <1> QED BY <1>2 DEF BeepDelay, steps, FREQ_MIN_DURATION

\* The frequency of a sweep of pwm_beep.c ends beyond the one it was to reach if, and
\* only if, the distance is not below the number of steps.
THEOREM BeepSweepPassesItsAim ==
    ASSUME NEW dist \in Positive, NEW steps \in Positive
    PROVE  dist < FreqEnd(dist, steps) <=> steps <= dist
  <1> DEFINE size == FreqStepSize(dist, steps)
  <1> DEFINE skip == FreqSkip(dist, steps)
  <1>1. CASE steps < dist
    <2>1. steps \div dist = 0
      BY <1>1, SMT DEF Positive
    <2>2. skip = 1 /\ steps \div skip = steps
      BY <2>1, SMT DEF FreqSkip, Positive
    <2>3. dist \div steps \in Nat /\ dist < steps * (dist \div steps) + steps
      BY Quotient DEF Positive
    <2>4. FreqEnd(dist, steps) = (dist \div steps + 1) * (steps + 1)
      BY <2>2 DEF FreqEnd, FreqStepSize
    <2>5. (dist \div steps + 1) * (steps + 1)
              = steps * (dist \div steps) + steps + dist \div steps + 1
      BY <2>3, SMT DEF Positive
    <2> QED BY <1>1, <2>3, <2>4, <2>5, SMT DEF Positive
  <1>2. CASE steps = dist
    <2>1. dist \div steps = 1 /\ steps \div dist = 1
      BY <1>2, SMT DEF Positive
    <2>2. FreqEnd(dist, steps) = 2 * (steps \div 2 + 1)
      BY <2>1, SMT DEF FreqEnd, FreqStepSize, FreqSkip
    <2> QED BY <1>2, <2>2, SMT DEF Positive
  <1>3. CASE dist < steps
    <2>1. dist \div steps = 0
      BY <1>3, SMT DEF Positive
    <2>2. steps \div dist \in Nat /\ steps < dist * (steps \div dist) + dist
      BY Quotient DEF Positive
    <2>3. skip \in Positive /\ steps < skip * dist
      BY <2>2, SMT DEF FreqSkip, Positive
    <2>4. FreqEnd(dist, steps) = steps \div skip + 1
      BY <2>1, <2>3, Quotient, SMT DEF FreqEnd, FreqStepSize, Positive
    <2> HIDE DEF skip
    <2>5. steps \div skip \in Nat /\ skip * (steps \div skip) <= steps
      BY <2>3, Quotient DEF Positive
    <2>6. skip * (steps \div skip) < skip * dist
      BY <2>3, <2>5, SMT DEF Positive
    <2>7. steps \div skip < dist
      BY <2>3, <2>5, <2>6, TimesReflectsOrder DEF Positive
    <2> QED BY <1>3, <2>4, <2>5, <2>7, SMT DEF Positive
  <1> QED BY <1>1, <1>2, <1>3, SMT DEF Positive

\* So the unsigned frequency of a sweep down may pass 0: from 21 to 1 in 100 ms it does.
THEOREM BeepSweepBelowZero == 21 - FreqEnd(20, BeepSteps(100)) < 0
  <1>1. BeepSteps(100) = 10
    BY StepsOfShortSweep, SMT DEF HalfShort, Positive
  <1> QED BY <1>1, SMT DEF FreqEnd, FreqStepSize, FreqSkip

\* The bugged sweep divides by the number of its steps, and that is 0 when it is to last
\* less than one of them: the process is ended by the division.
THEOREM BugSweepDividesByZero ==
    ASSUME NEW duration \in Nat, NEW freq_duration \in Nat,
           duration < BugStepTime(freq_duration)
    PROVE  BugSteps(duration, freq_duration) = 0
  <1>1. BugStepTime(freq_duration) \in Positive
    BY SMT DEF BugStepTime, FREQ_MIN_DURATION, Positive
  <1>2. duration \div BugStepTime(freq_duration) = 0
    BY <1>1, SMT DEF Positive
  <1> QED BY <1>2, ShortKeeps, SMT DEF BugSteps, HalfShort

\* A bugged sweep down goes up: its frequency climbs past the end of the unsigned short
\* and comes to the aim from below 0.
THEOREM BugSweepDownGoesUp ==
    ASSUME NEW f1 \in 0..PWM_MAX_FREQ, NEW f2 \in 0..PWM_MAX_FREQ, f2 < f1,
           NEW steps \in 3 .. HalfShort - 1
    PROVE  LET size == BugStepSize(f1, f2, steps)
           IN 0 < size /\ 2 * HalfShort < f1 - f2 + steps * size
  <1> DEFINE up == 2 * HalfShort - (f1 - f2)
  <1> DEFINE q == up \div steps
  <1>1. UnsignedShort(f2 - f1) = up /\ up \in Nat /\ up < 65536
    <2>1. 2 * HalfShort = 65536
      BY SMT DEF HalfShort
    <2>2. f1 \in 0..1647 /\ f2 \in 0..1647
      BY DEF PWM_MAX_FREQ
    <2>3. (f2 - f1) % 65536 = 65536 - (f1 - f2)
      BY <2>2, SMTT(30)
    <2>4. UnsignedShort(f2 - f1) = (f2 - f1) % 65536 /\ up = 65536 - (f1 - f2)
      BY <2>1 DEF UnsignedShort
    <2> QED BY <2>2, <2>3, <2>4, SMT
  <1>2. steps \in Positive /\ steps \in Nat /\ 3 <= steps
    BY SMT DEF Positive, HalfShort
  <1> HIDE DEF up
  <1>3. q \in Nat /\ steps * q <= up /\ up < steps * q + steps
    BY <1>1, <1>2, Quotient
  <1> HIDE DEF q
  <1>4. 3 * q <= up
    <2>1. q * 3 <= q * steps
      BY <1>2, <1>3, TimesKeepsOrder, SMT
    <2> QED BY <1>1, <1>2, <1>3, <2>1, SMT
  <1>5. q + 1 < HalfShort
    <2>1. HalfShort = 32768
      BY SMT DEF HalfShort
    <2> QED BY <1>1, <1>3, <1>4, <2>1, SMT
  <1>6. BugStepSize(f1, f2, steps) = q + 1
    <2>1. Short(q + 1) = q + 1
      BY <1>3, <1>5, ShortKeeps, SMT
    <2> QED BY <1>1, <2>1 DEF BugStepSize, q
  <1>7. steps * (q + 1) = steps * q + steps
    BY <1>2, <1>3, SMT
  <1>8. f1 - f2 + up = 2 * HalfShort /\ f1 \in Int /\ f2 \in Int
    <2>1. f1 \in Int /\ f2 \in Int
      BY SMT DEF PWM_MAX_FREQ
    <2>2. 2 * HalfShort \in Int
      BY SMT DEF HalfShort
    <2> QED BY <2>1, <2>2, SMT DEF up
  <1> QED BY <1>1, <1>2, <1>3, <1>6, <1>7, <1>8, SMT DEF HalfShort

-----------------------------------------------------------------------------
(* light.c *)

\* The component that has the farthest to go in a transition is one short of its end at
\* the last inner step, so that the end is the next colour.
THEOREM GreatestComponentArrives ==
    ASSUME NEW maxd \in Positive
    PROVE  ColourMoves(maxd, maxd) = maxd - 1
  <1>1. CASE maxd = 1
    BY <1>1, SMT DEF ColourMoves, ColourSkip
  <1>2. CASE maxd > 1
    <2>1. (maxd + 1) \div maxd = 1
      BY <1>2, SMT DEF Positive
    <2> QED BY <1>2, <2>1, SMT DEF ColourMoves, ColourSkip, Positive
  <1> QED BY <1>1, <1>2, SMT DEF Positive

\* Another component may go beyond its end, but not twice as far.
THEOREM ColourMovesBounded ==
    ASSUME NEW maxd \in Positive, NEW dist \in 1..maxd
    PROVE  ColourMoves(maxd, dist) < 2 * dist
  <1> DEFINE skip == ColourSkip(maxd, dist)
  <1> DEFINE moves == ColourMoves(maxd, dist)
  <1>1. dist \in Positive /\ maxd \in Nat /\ dist <= maxd
    BY SMT DEF Positive
  <1>2. skip \in Positive /\ maxd + 1 < dist * skip + dist
    <2>1. skip \in Nat /\ maxd + 1 < dist * skip + dist
      BY <1>1, Quotient, SMT DEF ColourSkip
    <2>2. dist * 1 <= maxd + 1
      BY <1>1, SMT DEF Positive
    <2>3. 1 <= skip
      BY <1>1, <2>2, QuotientAtLeast, SMT DEF ColourSkip
    <2> QED BY <2>1, <2>3, SMT DEF Positive
  <1> HIDE DEF skip
  <1>3. moves = (maxd - 1) \div skip
    BY DEF ColourMoves, skip
  <1>4. moves \in Nat /\ skip * moves <= maxd - 1
    BY <1>1, <1>2, <1>3, Quotient, SMT DEF Positive
  <1> HIDE DEF moves
  <1>5. dist <= dist * skip
    BY <1>1, <1>2, SMT DEF Positive
  <1>6. skip * moves < skip * (2 * dist)
    BY <1>1, <1>2, <1>4, <1>5, SMT DEF Positive
  <1>7. moves < 2 * dist
    BY <1>1, <1>2, <1>4, <1>6, TimesReflectsOrder, SMT DEF Positive
  <1> QED BY <1>7 DEF moves

\* A component of distance 6 moves 7 times in a transition of 15 steps: on its way to
\* 15, the most there is, it comes to 16, of which 4 bits are kept.
THEOREM ColourGoesTooFar == ColourMoves(15, 6) = 7
  BY SMT DEF ColourMoves, ColourSkip

\* A transition in fewer milliseconds than it has steps is not paced at all.
THEOREM ShortTransitionIsUnpaced ==
    ASSUME NEW duration \in Nat, NEW maxd \in Positive
    PROVE  StepDelay(duration, maxd) = 0 <=> duration < maxd
  <1>1. CASE duration < maxd
    BY <1>1, SMT DEF StepDelay, Positive
  <1>2. CASE ~(duration < maxd)
    <2>1. 1 <= duration \div maxd /\ duration \div maxd \in Nat
      BY <1>2, Quotient, QuotientAtLeast, SMT DEF Positive
    <2> QED BY <1>2, <2>1, SMT DEF StepDelay
  <1> QED BY <1>1, <1>2
=============================================================================
