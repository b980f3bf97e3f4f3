----------------------------- MODULE WriterPacing -----------------------------
(***************************************************************************)
(* How sios_sources_execute_writers of platform/source.c paces its         *)
(* contexts.  The scan asks select for the descriptors of the contexts     *)
(* whose period has elapsed, and for a wait no longer than what is left of *)
(* any period; the dispatch adds the time that select took to every        *)
(* context and calls the handlers of those whose descriptor is writable.   *)
(*                                                                         *)
(* Time passes in ticks, in select and in the handlers.  What module       *)
(* Sources models in detail (the list, its mutex) is reduced here to a set *)
(* of registered contexts in a fixed order, which other threads change     *)
(* while the loop is not in its handlers.  What a handler does with its    *)
(* device is left out, save that it may set its context's period and may   *)
(* have its context removed.                                               *)
(***************************************************************************)
EXTENDS Integers, FiniteSets, FiniteSetsExt

CONSTANTS
    Ctx,            \* the contexts with SIOS_POLL_WRITE, numbered in order of priority
    Fd(_),          \* the descriptor of a context
    Timed(_),       \* its type has SIOS_TIMER too
    Periods(_),     \* the periods its module sets; 0: it is not paced.  The durations of
                    \* messages are not checked, so a period may be negative
    MaxWait,        \* the wait of select when no period is shorter
    Late,           \* how much longer than it was asked to select may take
    HandlerTime,    \* how long a handler may take
    Prompt,         \* descriptors that are writable whenever select looks
    MaxFailures,    \* bound: failed calls of select between two calls of a handler
    MaxElapsed      \* bound: elapsed is not counted further

ASSUME CtxAssumption == Ctx \subseteq Nat /\ IsFiniteSet(Ctx)
ASSUME TypeAssumption == \A c \in Ctx : Timed(c) \in BOOLEAN
ASSUME PeriodsAssumption == \A c \in Ctx : Periods(c) \subseteq -MaxElapsed .. MaxElapsed
ASSUME TimeAssumption ==
    /\ MaxWait \in Nat \ {0} /\ Late \in Nat /\ HandlerTime \in Nat
    /\ MaxFailures \in Nat /\ MaxElapsed \in Nat

VARIABLES
    registered,     \* the contexts on the writers list
    period,         \* ctx->period
    elapsed,        \* ctx->elapsed
    at,             \* where the loop stands: "scan", "select" or "dispatch"
    wait,           \* max_wait
    write_set,      \* the descriptors select is asked for, then those it found writable
    took,           \* elapsed_wait
    unserved,       \* the contexts the dispatch has still to come to
    left,           \* history: ticks of its period still to pass after its last call
    age,            \* history: ticks in select since it was called or registered
    failures,       \* history: interrupted calls of select since then
    starved         \* history: the contexts in whose wait select refused its timeout

loop == <<at, wait, write_set, took, unserved>>
history == <<left, age, failures, starved>>
vars == <<registered, period, elapsed, loop, history>>

AtMost(n, bound) == IF n < bound THEN n ELSE bound
AtLeast(n, bound) == IF n > bound THEN n ELSE bound

Paced(c) == period[c] # 0
Fds == {Fd(c) : c \in Ctx}

\* Static memory is zero; a module sets the first period.
Init ==
    /\ registered = {}
    /\ period \in [Ctx -> -MaxElapsed .. MaxElapsed]
    /\ \A c \in Ctx : period[c] \in Periods(c)
    /\ elapsed = [c \in Ctx |-> 0]
    /\ at = "scan" /\ wait = MaxWait
    /\ write_set = {} /\ took = 0 /\ unserved = {}
    /\ left = [c \in Ctx |-> 0]
    /\ age = [c \in Ctx |-> 0]
    /\ failures = [c \in Ctx |-> 0]
    /\ starved = {}

-----------------------------------------------------------------------------
(* The history of time *)

\* Time runs for every context ...
Passes(ticks) == left' = [c \in Ctx |-> AtLeast(left[c] - ticks, 0)]

\* ... and, in select, for those that wait for a descriptor that is writable.
Ages(ticks) ==
    age' = [c \in Ctx |-> IF c \in registered \ starved /\ Fd(c) \in Prompt
                          THEN age[c] + ticks ELSE 0]

\* A context that is called, or that comes or goes, has waited for nothing.
Fresh(c) ==
    /\ age' = [age EXCEPT ![c] = 0]
    /\ failures' = [failures EXCEPT ![c] = 0]
    /\ starved' = starved \ {c}

-----------------------------------------------------------------------------
(* The writer loop *)

\* A context whose period has elapsed has its descriptor asked for, and its
\* period starts again, whether it will be called or not.
Due == {c \in registered : elapsed[c] >= period[c]}

\* Mutant of Scan: the wait is not shortened to the nearest period.
ScanLongWait ==
    /\ at = "scan"
    /\ write_set' = {Fd(c) : c \in Due}
    /\ elapsed' = [c \in Ctx |-> IF c \in Due /\ Paced(c) THEN 0 ELSE elapsed[c]]
    /\ wait' = MaxWait
    /\ at' = "select"
    /\ UNCHANGED <<registered, period, took, unserved, history>>

\* Mutant of Scan: the rest is computed for a context that is not paced too.
ScanUnpaced ==
    /\ at = "scan"
    /\ write_set' = {Fd(c) : c \in Due}
    /\ elapsed' = [c \in Ctx |-> IF c \in Due /\ Paced(c) THEN 0 ELSE elapsed[c]]
    /\ wait' = Min({MaxWait} \cup {period[c] - elapsed'[c] : c \in registered})
    /\ at' = "select"
    /\ UNCHANGED <<registered, period, took, unserved, history>>

\* Mutant of Scan: the elapsed time of a due context is left as it is.
ScanKeepsElapsed ==
    /\ at = "scan"
    /\ write_set' = {Fd(c) : c \in Due}
    /\ UNCHANGED elapsed
    /\ wait' = Min({MaxWait} \cup {period[c] - elapsed[c] : c \in {r \in registered : Paced(r)}})
    /\ at' = "select"
    /\ UNCHANGED <<registered, period, took, unserved, history>>

\* Select waits no longer than the shortest rest of a period, a negative one's too.
Scan ==
    /\ at = "scan"
    /\ write_set' = {Fd(c) : c \in Due}
    /\ elapsed' = [c \in Ctx |-> IF c \in Due /\ Paced(c) THEN 0 ELSE elapsed[c]]
    /\ wait' = Min({MaxWait} \cup {period[c] - elapsed'[c] : c \in {r \in registered : Paced(r)}})
    /\ at' = "select"
    /\ UNCHANGED <<registered, period, took, unserved, history>>

\* Select returns when its wait is over or a descriptor it was asked for is
\* writable, and measures how long it took.
SelectReturns(set, ticks) ==
    /\ at = "select" /\ wait >= 0
    /\ write_set \cap Prompt \subseteq set
    /\ set = {} => ticks >= wait
    /\ set \cap Prompt # {} => ticks <= Late
    /\ took' = ticks /\ write_set' = set
    /\ unserved' = registered
    /\ at' = "dispatch"
    /\ Passes(ticks) /\ Ages(ticks)
    /\ UNCHANGED <<registered, period, elapsed, wait, failures, starved>>

\* A select that is interrupted ends the round; the time it took is not counted.
SelectFails(ticks) ==
    /\ at = "select" /\ wait >= 0
    /\ \A c \in registered : failures[c] < MaxFailures
    /\ failures' = [c \in Ctx |-> IF c \in registered THEN failures[c] + 1 ELSE 0]
    /\ at' = "scan" /\ write_set' = {}
    /\ Passes(ticks) /\ Ages(ticks)
    /\ UNCHANGED <<registered, period, elapsed, wait, took, unserved, starved>>

\* Select refuses a negative timeout: the round ends, and nobody is called in it.
SelectRefuses(ticks) ==
    /\ at = "select" /\ wait < 0
    /\ starved' = starved \cup registered
    /\ age' = [c \in Ctx |-> 0]
    /\ at' = "scan" /\ write_set' = {}
    /\ Passes(ticks)
    /\ UNCHANGED <<registered, period, elapsed, wait, took, unserved, failures>>

\* The dispatch comes to the next context in order of priority.
Turn(c) ==
    /\ at = "dispatch"
    /\ c \in unserved
    /\ \A d \in unserved : c <= d
    /\ unserved' = unserved \ {c}

Counted(c) == AtMost(elapsed[c] + took, MaxElapsed)

Written(c) == Fd(c) \in write_set
Expired(c) == Timed(c) /\ Counted(c) >= period[c]

Skip(c) ==
    /\ Turn(c)
    /\ ~Written(c) /\ ~Expired(c)
    /\ elapsed' = [elapsed EXCEPT ![c] = Counted(c)]
    /\ UNCHANGED <<registered, period, at, wait, write_set, took, history>>

\* Mutant of Call: the elapsed time is not reset.
CallKeepsElapsed(c, p, keep, ticks) ==
    /\ Turn(c)
    /\ Written(c) \/ Expired(c)
    /\ elapsed' = [elapsed EXCEPT ![c] = Counted(c)]
    /\ period' = [period EXCEPT ![c] = p]
    /\ registered' = IF keep THEN registered ELSE registered \ {c}
    /\ left' = [d \in Ctx |-> IF d = c THEN AtLeast(p, 0) ELSE AtLeast(left[d] - ticks, 0)]
    /\ Fresh(c)
    /\ UNCHANGED <<at, wait, write_set, took>>

\* call_context_handler, for the write event, the timer event or both: the
\* handler may set the period, takes some ticks, and says whether to keep the
\* context.
Call(c, p, keep, ticks) ==
    /\ Turn(c)
    /\ Written(c) \/ Expired(c)
    /\ elapsed' = [elapsed EXCEPT ![c] = 0]
    /\ period' = [period EXCEPT ![c] = p]
    /\ registered' = IF keep THEN registered ELSE registered \ {c}
    /\ left' = [d \in Ctx |-> IF d = c THEN AtLeast(p, 0) ELSE AtLeast(left[d] - ticks, 0)]
    /\ Fresh(c)
    /\ UNCHANGED <<at, wait, write_set, took>>

\* The next round begins with an empty write_set, and sets elapsed_wait anew.
DispatchEnds ==
    /\ at = "dispatch" /\ unserved = {}
    /\ at' = "scan" /\ write_set' = {} /\ took' = 0
    /\ UNCHANGED <<registered, period, elapsed, wait, unserved, history>>

-----------------------------------------------------------------------------
(* Other threads: the list is locked in the scan and the dispatch *)

Add(c) ==
    /\ at # "dispatch"
    /\ c \notin registered
    /\ registered' = registered \cup {c}
    /\ Fresh(c)
    /\ UNCHANGED <<period, elapsed, loop, left>>

Delete(c) ==
    /\ at # "dispatch"
    /\ c \in registered
    /\ registered' = registered \ {c}
    /\ Fresh(c)
    /\ UNCHANGED <<period, elapsed, loop, left>>

-----------------------------------------------------------------------------
Select ==
    \/ \E ticks \in 0 .. MaxWait + Late :
        /\ ticks <= wait + Late
        /\ \/ \E set \in SUBSET write_set : SelectReturns(set, ticks)
           \/ SelectFails(ticks)
    \/ \E ticks \in 0 .. Late : SelectRefuses(ticks)

Calls(c) ==
    \E p \in Periods(c), keep \in BOOLEAN, ticks \in 0 .. HandlerTime : Call(c, p, keep, ticks)

Next ==
    \/ Scan \/ Select \/ DispatchEnds
    \/ \E c \in Ctx : Skip(c) \/ Calls(c) \/ Add(c) \/ Delete(c)

Spec == Init /\ [][Next]_vars

-----------------------------------------------------------------------------
(* Properties *)

\* Every variable has its type.  Select never gets an empty wait, with which the loop
\* would spin.
TypeOK ==
    /\ registered \subseteq Ctx
    /\ period \in [Ctx -> -MaxElapsed .. MaxElapsed]
    /\ elapsed \in [Ctx -> 0 .. MaxElapsed]
    /\ at \in {"scan", "select", "dispatch"}
    /\ wait \in -MaxElapsed .. MaxWait /\ wait # 0
    /\ write_set \subseteq Fds
    /\ took \in 0 .. MaxWait + Late
    /\ unserved \subseteq registered
    /\ left \in [Ctx -> 0 .. MaxElapsed]
    /\ age \in [Ctx -> Nat]
    /\ failures \in [Ctx -> 0 .. MaxFailures]
    /\ starved \subseteq registered

\* Select is given a timeout it refuses only on account of a period its module made
\* negative, whatever the loop has counted and whoever came and went since; and while
\* that context stays, it is given no other, so that no writer is called
\* (sios_sources_execute_writers, and the durations light.c takes from messages).
RefusesNegatives ==
    /\ at = "select" /\ wait < 0 => \E c \in Ctx : period[c] = wait
    /\ at = "dispatch" => \A c \in starved : period[c] >= 0

\* No other context has the descriptor of c.
Alone(c) == \A d \in Ctx : Fd(d) = Fd(c) => d = c

\* A context with a descriptor of its own is called only when its period has
\* passed since the end of its last call, whatever the periods of the others,
\* the failures of select and the threads that add and delete contexts
\* (sios.h: "timer period in us").
PeriodPasses ==
    \A c \in unserved : Alone(c) /\ (Written(c) \/ Expired(c)) => left[c] = 0

\* A context whose descriptor is writable is called when its period is over, or
\* MaxWait if it is shorter and the loop was asleep when the context came: select
\* may return late once for the period and once for the call.  A select that is
\* interrupted costs its own time and, where the context was due, one more period.
\* The time that handlers take is not counted (sios.h: "should not block or sleep"),
\* nor is a context in whose wait select refused a negative timeout.
CalledInTime ==
    \A c \in registered \ starved : Fd(c) \in Prompt =>
        LET rest == AtLeast(period[c], MaxWait)
        IN  age[c] <= rest + 2 * Late + failures[c] * (rest + MaxWait + 2 * Late)
=============================================================================
