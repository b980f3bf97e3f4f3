-------------------------- MODULE WriterPacingProofs --------------------------
(* The pacing of the writer loop, for any contexts, periods and delays: no     *)
(* context is called before its period is over, nor long after.               *)
EXTENDS WriterPacing, WellFoundedInduction, TLAPS

-----------------------------------------------------------------------------
(* The inductive invariant *)

Numbers ==
    /\ period \in [Ctx -> Int] /\ elapsed \in [Ctx -> Nat] /\ left \in [Ctx -> Nat]
    /\ took \in Nat

\* Contexts are served in the dispatch alone.
Serving ==
    /\ registered \subseteq Ctx /\ unserved \subseteq Ctx
    /\ at # "dispatch" => unserved = {}

\* What elapsed says has passed since the last call of a context has passed; in
\* the dispatch, took belongs to it until the loop comes to the context.
Counts(c) ==
    IF c \in unserved
    THEN left[c] = 0 \/ left[c] + elapsed[c] + took <= period[c]
    ELSE left[c] = 0 \/ left[c] + elapsed[c] <= period[c]

\* The descriptor of a context is asked for only after its period.
Asked(c) ==
    Alone(c) /\ Fd(c) \in write_set /\ (at = "select" \/ c \in unserved) => left[c] = 0

PacingInv ==
    /\ Numbers
    /\ Serving
    /\ \A c \in Ctx : Counts(c)
    /\ \A c \in Ctx : Asked(c)

-----------------------------------------------------------------------------
(* Every step keeps the invariant *)

LEMMA InitPacing == Init => PacingInv
  <1> SUFFICES ASSUME Init PROVE PacingInv
    OBVIOUS
  <1>1. Numbers
    BY TimeAssumption DEF Init, Numbers
  <1>2. Serving
    BY DEF Init, Serving
  <1>3. ASSUME NEW c \in Ctx PROVE Counts(c) /\ Asked(c)
    BY <1>3 DEF Init, Counts, Asked
  <1> QED
    BY <1>1, <1>2, <1>3 DEF PacingInv

\* The scan asks for a descriptor that is one context's own when its period is over.
LEMMA ScanStep ==
    ASSUME PacingInv, Scan
    PROVE  PacingInv'
  <1> USE DEF PacingInv
  <1>1. /\ at = "scan" /\ at' = "select" /\ unserved = {}
        /\ write_set' = {Fd(c) : c \in Due}
        /\ elapsed' = [c \in Ctx |-> IF c \in Due /\ Paced(c) THEN 0 ELSE elapsed[c]]
        /\ UNCHANGED <<registered, period, left, took, unserved>>
    BY DEF Scan, history, Serving
  <1>2. Numbers' /\ Serving'
    BY <1>1 DEF Numbers, Serving
  <1>3. ASSUME NEW c \in Ctx PROVE Counts(c)'
    BY <1>1, <1>3 DEF Numbers, Counts
  <1>4. ASSUME NEW c \in Ctx PROVE Asked(c)'
    <2> SUFFICES ASSUME Alone(c), Fd(c) \in write_set' PROVE left[c] = 0
      BY <1>1 DEF Asked, Alone
    <2>1. PICK d \in Due : Fd(d) = Fd(c)
      BY <1>1
    <2>2. c \in Due
      BY <2>1 DEF Alone, Due, Serving
    <2> QED
      BY <1>1, <1>4, <2>2 DEF Due, Numbers, Counts
  <1> QED
    BY <1>2, <1>3, <1>4

\* Select takes no more time than passes.
LEMMA SelectStep ==
    ASSUME PacingInv, Select
    PROVE  PacingInv'
  <1> USE DEF PacingInv
  <1>1. PICK ticks \in Nat :
            \/ \E set \in SUBSET write_set : SelectReturns(set, ticks)
            \/ SelectFails(ticks) \/ SelectRefuses(ticks)
    <2>1. \A n : n \in 0 .. MaxWait + Late \/ n \in 0 .. Late => n \in Nat
      BY TimeAssumption
    <2> QED BY <2>1 DEF Select
  <1>2. ticks \in Nat
    OBVIOUS
  <1>3. /\ at = "select" /\ unserved = {}
        /\ Passes(ticks)
        /\ UNCHANGED <<registered, period, elapsed>>
    BY <1>1 DEF SelectReturns, SelectFails, SelectRefuses, Serving
  <1>4. ASSUME NEW c \in Ctx
        PROVE  /\ left'[c] \in Nat
               /\ left'[c] = 0 \/ left'[c] = left[c] - ticks
               /\ left[c] = 0 => left'[c] = 0
    BY <1>2, <1>3, <1>4 DEF Passes, AtLeast, Numbers
  <1>5. CASE \E set \in SUBSET write_set : SelectReturns(set, ticks)
    <2>1. /\ at' = "dispatch" /\ took' = ticks /\ unserved' = registered
          /\ write_set' \subseteq write_set
      BY <1>5 DEF SelectReturns
    <2>2. Numbers' /\ Serving'
      BY <1>2, <1>3, <2>1, <1>4 DEF Numbers, Serving, Passes
    <2>3. ASSUME NEW c \in Ctx PROVE Counts(c)'
      BY <1>2, <1>3, <1>4, <2>1, <2>3 DEF Numbers, Counts
    <2>4. ASSUME NEW c \in Ctx PROVE Asked(c)'
      BY <1>3, <1>4, <2>1, <2>4 DEF Asked, Alone
    <2> QED
      BY <2>2, <2>3, <2>4
  <1>6. CASE SelectFails(ticks) \/ SelectRefuses(ticks)
    <2>1. at' = "scan" /\ UNCHANGED <<took, unserved>>
      BY <1>6 DEF SelectFails, SelectRefuses
    <2>2. Numbers' /\ Serving'
      BY <1>3, <2>1, <1>4 DEF Numbers, Serving, Passes
    <2>3. ASSUME NEW c \in Ctx PROVE Counts(c)'
      BY <1>2, <1>3, <1>4, <2>1, <2>3 DEF Numbers, Counts
    <2>4. ASSUME NEW c \in Ctx PROVE Asked(c)'
      BY <1>3, <2>1, <2>4 DEF Asked
    <2> QED
      BY <2>2, <2>3, <2>4
  <1> QED
    BY <1>1, <1>5, <1>6

\* A context that is passed over takes over the time of the round.
LEMMA SkipStep ==
    ASSUME PacingInv, NEW c \in Ctx, Skip(c)
    PROVE  PacingInv'
  <1> USE DEF PacingInv
  <1>1. /\ c \in unserved /\ unserved' = unserved \ {c}
        /\ elapsed' = [elapsed EXCEPT ![c] = Counted(c)]
        /\ UNCHANGED <<registered, period, at, write_set, took, left>>
    BY DEF Skip, Turn, history
  <1>2. Counted(c) \in Nat /\ Counted(c) <= elapsed[c] + took
    BY TimeAssumption DEF Counted, AtMost, Numbers
  <1>3. Numbers' /\ Serving'
    BY <1>1, <1>2 DEF Numbers, Serving
  <1>4. ASSUME NEW d \in Ctx PROVE Counts(d)'
    BY <1>1, <1>2, <1>4 DEF Numbers, Counts
  <1>5. ASSUME NEW d \in Ctx PROVE Asked(d)'
    BY <1>1, <1>5 DEF Asked, Alone
  <1> QED
    BY <1>3, <1>4, <1>5

\* A context that is called starts its period anew.
LEMMA CallStep ==
    ASSUME PacingInv, NEW c \in Ctx, Calls(c)
    PROVE  PacingInv'
  <1> USE DEF PacingInv
  <1>1. PICK p \in Periods(c), keep \in BOOLEAN, ticks \in 0 .. HandlerTime :
            Call(c, p, keep, ticks)
    BY DEF Calls
  <1>2. p \in Int /\ ticks \in Nat /\ AtLeast(p, 0) \in Nat /\ (AtLeast(p, 0) = 0 \/ AtLeast(p, 0) = p)
    BY PeriodsAssumption, TimeAssumption DEF AtLeast
  <1>3. /\ c \in unserved /\ unserved' = unserved \ {c}
        /\ elapsed' = [elapsed EXCEPT ![c] = 0]
        /\ period' = [period EXCEPT ![c] = p]
        /\ registered' \subseteq registered
        /\ left' = [d \in Ctx |-> IF d = c THEN AtLeast(p, 0) ELSE AtLeast(left[d] - ticks, 0)]
        /\ UNCHANGED <<at, write_set, took>>
    BY <1>1 DEF Call, Turn
  <1>4. ASSUME NEW d \in Ctx, d # c
        PROVE  /\ left'[d] \in Nat
               /\ left'[d] = 0 \/ left'[d] = left[d] - ticks
               /\ left[d] = 0 => left'[d] = 0
    BY <1>2, <1>3, <1>4 DEF AtLeast, Numbers
  <1>5. left'[c] = AtLeast(p, 0)
    BY <1>3
  <1>6. Numbers' /\ Serving'
    BY <1>2, <1>3, <1>4, <1>5 DEF Numbers, Serving
  <1>7. ASSUME NEW d \in Ctx PROVE Counts(d)'
    BY <1>2, <1>3, <1>4, <1>5, <1>7 DEF Numbers, Counts
  <1>8. at = "dispatch"
    BY <1>1 DEF Call, Turn
  <1>9. ASSUME NEW d \in Ctx PROVE Asked(d)'
    BY <1>3, <1>4, <1>8, <1>9 DEF Asked, Alone
  <1> QED
    BY <1>6, <1>7, <1>9

LEMMA PacingStep ==
    ASSUME PacingInv, [Next]_vars
    PROVE  PacingInv'
  <1> USE DEF PacingInv
  <1>1. CASE DispatchEnds
    BY <1>1 DEF DispatchEnds, history, Numbers, Serving, Counts, Asked, Alone
  <1>2. ASSUME NEW c \in Ctx, Add(c) \/ Delete(c) PROVE PacingInv'
    BY <1>2 DEF Add, Delete, loop, Numbers, Serving, Counts, Asked, Alone
  <1>3. CASE UNCHANGED vars
    BY <1>3 DEF vars, loop, history, Numbers, Serving, Counts, Asked, Alone
  <1> QED
    BY <1>1, <1>2, <1>3, ScanStep, SelectStep, SkipStep, CallStep DEF Next

-----------------------------------------------------------------------------
(* The theorem *)

\* A context with a descriptor of its own is called only when its period has
\* passed since its last call: for any number of contexts, any periods, negative ones too, however
\* late select returns, however often it fails, and whichever contexts other
\* threads add and delete.
THEOREM PeriodAlwaysPasses == Spec => []PeriodPasses
  <1>1. PacingInv /\ [Next]_vars => PacingInv'
    BY PacingStep
  <1>2. ASSUME PacingInv PROVE PeriodPasses
    <2> SUFFICES ASSUME NEW c \in unserved, Alone(c), Written(c) \/ Expired(c)
                 PROVE  left[c] = 0
      BY DEF PeriodPasses
    <2>1. c \in Ctx
      BY <1>2 DEF PacingInv, Serving
    <2>2. CASE Written(c)
      BY <1>2, <2>1, <2>2 DEF PacingInv, Written, Asked
    <2>3. CASE Expired(c)
      BY <1>2, <2>1, <2>3, TimeAssumption
         DEF PacingInv, Numbers, Counts, Expired, Counted, AtMost
    <2> QED
      BY <2>2, <2>3
  <1> QED
    BY InitPacing, <1>1, <1>2, PTL DEF Spec

-----------------------------------------------------------------------------
(* The types *)

\* A set of integers none of which is below b has a smallest one.
LEMMA SmallestOf ==
    ASSUME NEW b \in Int, NEW T \in SUBSET Int, T # {}, \A n \in T : n >= b
    PROVE  Min(T) \in T /\ \A n \in T : Min(T) <= n
  <1> DEFINE D == {n - b : n \in T}
  <1>1. D \subseteq Nat /\ D # {}
    <2>1. \A n \in T : n - b \in Nat
      OBVIOUS
    <2>2. PICK n \in T : TRUE
      OBVIOUS
    <2> QED BY <2>1, <2>2
  <1>2. PICK x \in D : \A y \in D : ~ (<<y, x>> \in OpToRel(<, Nat))
    <2> HIDE DEF D
    <2> QED BY <1>1, NatLessThanWellFounded, WFMin
  <1>3. PICK m \in T : x = m - b
    BY <1>2
  <1>4. ASSUME NEW n \in T PROVE m <= n
    <2>1. n - b \in D /\ n - b \in Nat /\ x \in Nat
      BY <1>1, <1>2
    <2>2. ~ (n - b < x)
      <3> SUFFICES ASSUME n - b < x PROVE FALSE
        OBVIOUS
      <3>1. <<n - b, x>> \in OpToRel(<, Nat)
        BY <2>1 DEF OpToRel
      <3> QED BY <1>2, <2>1, <3>1
    <2> QED BY <1>3, <2>2
  <1> QED BY <1>4 DEF Min

\* In the scan and in select no context is still to be served.
TypeInv == TypeOK /\ (at # "dispatch" => unserved = {})

\* The context that is counted is counted up to MaxElapsed.
LEMMA CountedTyped ==
    ASSUME TypeOK, NEW c \in Ctx
    PROVE  Counted(c) \in 0 .. MaxElapsed
  BY TimeAssumption DEF TypeOK, Counted, AtMost

\* What select may be asked to wait for: no longer than is left of any period, and not
\* nothing; a negative wait is a period that is negative.
LEMMA WaitOfScan ==
    ASSUME TypeInv, Scan
    PROVE  /\ elapsed' \in [Ctx -> 0 .. MaxElapsed]
           /\ wait' \in -MaxElapsed .. MaxWait /\ wait' # 0
           /\ \A c \in registered : Paced(c) => wait' <= period[c] - elapsed'[c]
           /\ wait' < 0 => \E c \in registered : period[c] = wait'
  <1> DEFINE T == {MaxWait} \cup {period[c] - elapsed'[c] : c \in {r \in registered : Paced(r)}}
  <1>1. wait' = Min(T)
    BY DEF Scan
  <1>2. elapsed' = [c \in Ctx |-> IF c \in Due /\ Paced(c) THEN 0 ELSE elapsed[c]]
    BY DEF Scan
  <1>3. elapsed' \in [Ctx -> 0 .. MaxElapsed]
    BY <1>2, TimeAssumption DEF TypeInv, TypeOK
  <1>4. ASSUME NEW c \in registered, Paced(c)
        PROVE  /\ period[c] - elapsed'[c] \in Int /\ period[c] - elapsed'[c] # 0
               /\ period[c] - elapsed'[c] >= -MaxElapsed
               /\ period[c] - elapsed'[c] < 0 => period[c] - elapsed'[c] = period[c]
    <2>1. c \in Ctx /\ period[c] \in -MaxElapsed .. MaxElapsed /\ elapsed[c] \in 0 .. MaxElapsed
      BY DEF TypeInv, TypeOK
    <2>2. CASE c \in Due
      <3>1. elapsed'[c] = 0 /\ period[c] # 0
        BY <1>2, <1>4, <2>1, <2>2 DEF Paced
      <3> QED BY <2>1, <3>1, TimeAssumption
    <2>3. CASE c \notin Due
      <3>1. elapsed'[c] = elapsed[c] /\ ~ (elapsed[c] >= period[c])
        BY <1>2, <2>1, <2>3 DEF Due
      <3> QED BY <2>1, <3>1, TimeAssumption
    <2> QED BY <2>2, <2>3
  <1>5. /\ T \in SUBSET Int /\ MaxWait \in T /\ \A n \in T : n # 0 /\ n >= -MaxElapsed
        /\ -MaxElapsed \in Int
    BY <1>4, TimeAssumption
  <1>6. ASSUME NEW c \in registered, Paced(c) PROVE period[c] - elapsed'[c] \in T
    BY <1>6
  <1>7. ASSUME NEW n \in T, n < 0 PROVE \E c \in registered : period[c] = n
    <2>1. n # MaxWait
      BY <1>7, TimeAssumption
    <2>2. PICK c \in {r \in registered : Paced(r)} : n = period[c] - elapsed'[c]
      BY <2>1
    <2> QED BY <1>4, <1>7, <2>2
  <1> HIDE DEF T
  <1>8. Min(T) \in T /\ \A n \in T : Min(T) <= n
    BY <1>5, SmallestOf
  <1>9. wait' \in -MaxElapsed .. MaxWait /\ wait' # 0
    <2>1. Min(T) \in Int /\ Min(T) # 0 /\ Min(T) >= -MaxElapsed /\ Min(T) <= MaxWait
      BY <1>5, <1>8
    <2> QED BY <1>1, <2>1, TimeAssumption
  <1> QED BY <1>1, <1>3, <1>6, <1>7, <1>8, <1>9

\* It holds at the start,
LEMMA TypeInit == Init => TypeInv
  <1> SUFFICES ASSUME Init PROVE TypeInv
    OBVIOUS
  <1>1. 0 \in 0 .. MaxElapsed /\ 0 \in Nat /\ 0 \in 0 .. MaxFailures /\ 0 \in 0 .. MaxWait + Late
        /\ MaxWait \in -MaxElapsed .. MaxWait /\ MaxWait # 0
    BY TimeAssumption
  <1> QED BY <1>1 DEF Init, TypeInv, TypeOK

\* Time that passes keeps what is counted of it in its types.
LEMMA TimeTyped ==
    ASSUME TypeInv, NEW ticks \in Nat
    PROVE  /\ Passes(ticks) => left' \in [Ctx -> 0 .. MaxElapsed]
           /\ Ages(ticks) => age' \in [Ctx -> Nat]
  <1>1. \A c \in Ctx : AtLeast(left[c] - ticks, 0) \in 0 .. MaxElapsed
    BY TimeAssumption DEF AtLeast, TypeInv, TypeOK
  <1>2. \A c \in Ctx : age[c] + ticks \in Nat
    BY DEF TypeInv, TypeOK
  <1> QED BY <1>1, <1>2 DEF Passes, Ages

\* and every step keeps it.
LEMMA TypeStep == TypeInv /\ [Next]_vars => TypeInv'
  <1> SUFFICES ASSUME TypeInv, [Next]_vars PROVE TypeInv'
    OBVIOUS
  <1>1. CASE Scan
    <2>1. /\ at = "scan" /\ at' = "select" /\ write_set' = {Fd(c) : c \in Due}
          /\ UNCHANGED <<registered, period, took, unserved, left, age, failures, starved>>
      BY <1>1 DEF Scan, history
    <2>2. write_set' \subseteq Fds
      BY <2>1 DEF Due, Fds, TypeInv, TypeOK
    <2> QED BY <1>1, <2>1, <2>2, WaitOfScan DEF TypeInv, TypeOK
  <1>2. ASSUME NEW ticks \in 0 .. MaxWait + Late,
               (\E set \in SUBSET write_set : SelectReturns(set, ticks)) \/ SelectFails(ticks)
        PROVE  TypeInv'
    <2>2. /\ ticks \in Nat /\ at = "select" /\ Passes(ticks) /\ Ages(ticks)
          /\ UNCHANGED <<registered, period, elapsed, wait, starved>>
      BY <1>2, TimeAssumption DEF SelectReturns, SelectFails
    <2>3. CASE \E set \in SUBSET write_set : SelectReturns(set, ticks)
      <3>1. /\ write_set' \subseteq write_set /\ took' = ticks /\ unserved' = registered
            /\ at' = "dispatch" /\ failures' = failures
        BY <2>3 DEF SelectReturns
      <3> QED BY <2>2, <3>1, TimeTyped DEF TypeInv, TypeOK
    <2>4. CASE SelectFails(ticks)
      <3>1. /\ write_set' = {} /\ at' = "scan" /\ UNCHANGED <<took, unserved>>
            /\ failures' = [c \in Ctx |-> IF c \in registered THEN failures[c] + 1 ELSE 0]
            /\ \A c \in registered : failures[c] < MaxFailures
        BY <2>4 DEF SelectFails
      <3>2. failures' \in [Ctx -> 0 .. MaxFailures]
        BY <3>1, TimeAssumption DEF TypeInv, TypeOK
      <3> QED BY <2>2, <3>1, <3>2, TimeTyped DEF TypeInv, TypeOK
    <2> QED BY <1>2, <2>3, <2>4
  <1>8. ASSUME NEW ticks \in 0 .. Late, SelectRefuses(ticks) PROVE TypeInv'
    <2>1. /\ ticks \in Nat /\ at = "select" /\ Passes(ticks) /\ age' = [c \in Ctx |-> 0]
          /\ at' = "scan" /\ write_set' = {} /\ starved' = starved \cup registered
          /\ UNCHANGED <<registered, period, elapsed, wait, took, unserved, failures>>
      BY <1>8, TimeAssumption DEF SelectRefuses
    <2>2. age' \in [Ctx -> Nat]
      BY <2>1
    <2> QED BY <2>1, <2>2, TimeTyped DEF TypeInv, TypeOK
  <1>3. ASSUME NEW c \in Ctx, Skip(c) PROVE TypeInv'
    <2>1. /\ at = "dispatch" /\ unserved' = unserved \ {c}
          /\ elapsed' = [elapsed EXCEPT ![c] = Counted(c)]
          /\ UNCHANGED <<registered, period, at, wait, write_set, took, left, age, failures, starved>>
      BY <1>3 DEF Skip, Turn, history
    <2> QED BY <2>1, CountedTyped DEF TypeInv, TypeOK
  <1>4. ASSUME NEW c \in Ctx, Calls(c) PROVE TypeInv'
    <2>1. PICK p \in Periods(c), keep \in BOOLEAN, ticks \in 0 .. HandlerTime :
              Call(c, p, keep, ticks)
      BY <1>4 DEF Calls
    <2>2. p \in -MaxElapsed .. MaxElapsed /\ ticks \in Nat /\ 0 \in 0 .. MaxElapsed /\ 0 \in 0 .. MaxFailures
      BY PeriodsAssumption, TimeAssumption
    <2>3. /\ at = "dispatch" /\ unserved' = unserved \ {c}
          /\ elapsed' = [elapsed EXCEPT ![c] = 0]
          /\ period' = [period EXCEPT ![c] = p]
          /\ registered' = IF keep THEN registered ELSE registered \ {c}
          /\ left' = [d \in Ctx |-> IF d = c THEN AtLeast(p, 0) ELSE AtLeast(left[d] - ticks, 0)]
          /\ age' = [age EXCEPT ![c] = 0]
          /\ failures' = [failures EXCEPT ![c] = 0]
          /\ starved' = starved \ {c}
          /\ UNCHANGED <<at, wait, write_set, took>>
      BY <2>1 DEF Call, Turn, Fresh
    <2>4. left' \in [Ctx -> 0 .. MaxElapsed]
      BY <2>2, <2>3, TimeAssumption DEF AtLeast, TypeInv, TypeOK
    <2> QED BY <2>2, <2>3, <2>4 DEF TypeInv, TypeOK
  <1>5. ASSUME NEW c \in Ctx, Add(c) \/ Delete(c) PROVE TypeInv'
    <2>1. /\ at # "dispatch" /\ registered' \subseteq Ctx
          /\ age' = [age EXCEPT ![c] = 0] /\ failures' = [failures EXCEPT ![c] = 0]
          /\ starved' = starved \ {c} /\ registered \ {c} \subseteq registered'
          /\ UNCHANGED <<period, elapsed, at, wait, write_set, took, unserved, left>>
      BY <1>5 DEF Add, Delete, Fresh, loop, TypeInv, TypeOK
    <2> QED BY <2>1, TimeAssumption DEF TypeInv, TypeOK
  <1>6. CASE DispatchEnds
    <2>1. 0 \in 0 .. MaxWait + Late
      BY TimeAssumption
    <2> QED BY <1>6, <2>1 DEF DispatchEnds, history, TypeInv, TypeOK
  <1>7. CASE UNCHANGED vars
    BY <1>7 DEF vars, loop, history, TypeInv, TypeOK
  <1> QED BY <1>1, <1>2, <1>3, <1>4, <1>5, <1>6, <1>7, <1>8 DEF Next, Select

\* Every number stays in its range, and select is never asked for a wait of nothing, with
\* which the loop would spin (sios_sources_execute_writers).
THEOREM WaitsAreNotEmpty == Spec => []TypeOK
  <1>1. TypeInv => TypeOK
    BY DEF TypeInv
  <1> QED BY <1>1, TypeInit, TypeStep, PTL DEF Spec

-----------------------------------------------------------------------------
(* Timeouts that select refuses *)

\* A negative wait comes of a negative period; and select refuses every wait while a
\* context it has refused one for is registered with a negative period.
RefusalInv ==
    /\ TypeInv
    /\ RefusesNegatives
    /\ at = "select" /\ (\E c \in starved : period[c] < 0) => wait < 0

LEMMA RefusalStep == RefusalInv /\ [Next]_vars => RefusalInv'
  <1> SUFFICES ASSUME RefusalInv, [Next]_vars PROVE RefusalInv'
    OBVIOUS
  <1> USE DEF RefusalInv, RefusesNegatives
  <1>1. TypeInv'
    BY TypeStep
  <1>2. starved \subseteq registered /\ registered \subseteq Ctx
    BY DEF TypeInv, TypeOK
  <1>3. CASE Scan
    <2>1. at' = "select" /\ UNCHANGED <<registered, period, starved>>
      BY <1>3 DEF Scan, history
    <2>2. wait' < 0 => \E c \in Ctx : period[c] = wait'
      BY <1>2, <1>3, WaitOfScan
    <2>3. ASSUME NEW c \in starved, period[c] < 0 PROVE wait' < 0
      <3>1. /\ c \in registered /\ c \in Ctx /\ period[c] \in -MaxElapsed .. MaxElapsed
            /\ elapsed'[c] \in 0 .. MaxElapsed /\ wait' \in -MaxElapsed .. MaxWait
        BY <1>2, <1>3, <2>3, WaitOfScan DEF TypeInv, TypeOK
      <3>2. wait' <= period[c] - elapsed'[c]
        BY <1>3, <2>3, <3>1, WaitOfScan, TimeAssumption DEF Paced
      <3> QED BY <2>3, <3>1, <3>2, TimeAssumption
    <2> QED BY <1>1, <2>1, <2>2, <2>3
  <1>4. ASSUME NEW ticks, NEW set, SelectReturns(set, ticks) PROVE RefusalInv'
    <2>1. /\ at = "select" /\ wait >= 0 /\ at' = "dispatch" /\ UNCHANGED <<period, starved>>
      BY <1>4 DEF SelectReturns
    <2>2. period \in [Ctx -> Int] /\ wait \in Int
      BY TimeAssumption DEF TypeInv, TypeOK
    <2>3. ASSUME NEW c \in starved PROVE period[c] >= 0
      <3>1. c \in Ctx /\ ~ (period[c] < 0)
        BY <1>2, <2>1, <2>2, <2>3
      <3> QED BY <2>2, <3>1
    <2> QED BY <1>1, <2>1, <2>3
  <1>5. CASE DispatchEnds \/ \E ticks : SelectFails(ticks) \/ SelectRefuses(ticks)
    BY <1>1, <1>5 DEF DispatchEnds, SelectFails, SelectRefuses
  <1>6. ASSUME NEW c \in Ctx, Skip(c) PROVE RefusalInv'
    BY <1>1, <1>6 DEF Skip, Turn, history
  <1>7. ASSUME NEW c \in Ctx, Calls(c) PROVE RefusalInv'
    <2>1. PICK p \in Periods(c) : /\ at = "dispatch" /\ at' = at /\ starved' = starved \ {c}
                                  /\ period' = [period EXCEPT ![c] = p]
      BY <1>7 DEF Calls, Call, Turn, Fresh
    <2>2. \A d \in starved' : period'[d] = period[d] /\ d \in starved
      BY <2>1 DEF TypeInv, TypeOK
    <2> QED BY <1>1, <2>1, <2>2
  <1>8. ASSUME NEW c \in Ctx, Add(c) \/ Delete(c) PROVE RefusalInv'
    <2>1. at # "dispatch" /\ UNCHANGED <<at, wait, period>> /\ starved' \subseteq starved
      BY <1>8 DEF Add, Delete, Fresh, loop
    <2> QED BY <1>1, <2>1
  <1>9. CASE UNCHANGED vars
    BY <1>1, <1>9 DEF vars, loop, history
  <1> QED BY <1>3, <1>4, <1>5, <1>6, <1>7, <1>8, <1>9 DEF Next, Select

\* A timeout that select refuses comes of a period a module made negative, for any contexts,
\* periods and delays; and from the first one on no writer is called until the context with
\* that period is deleted by another thread (sios_sources_execute_writers).
THEOREM NegativePeriodsAreRefused == Spec => []RefusesNegatives
  <1>1. Init => RefusalInv
    <2>1. Init => at = "scan" /\ TypeInv
      BY TypeInit DEF Init
    <2> QED BY <2>1 DEF RefusalInv, RefusesNegatives
  <1>2. RefusalInv => RefusesNegatives
    BY DEF RefusalInv
  <1> QED BY <1>1, <1>2, RefusalStep, PTL DEF Spec

-----------------------------------------------------------------------------
(* How late a context is called *)

\* The longest time a round may keep a context that is due from its call, and what a
\* select that fails costs it.
Rest(c) == AtLeast(period[c], MaxWait)
Cost(c) == failures[c] * (Rest(c) + MaxWait + 2 * Late)

\* A context that waits for a period knows how long it has waited, or that it is due.
Known(c, counted) ==
    /\ counted >= period[c] \/ age[c] <= counted + Cost(c)
    /\ age[c] <= Rest(c) + Late + Cost(c)

\* In select a context has its descriptor asked for, or the wait is no longer than what
\* is left of its period.
Waiting(c) ==
    IF Fd(c) \in write_set
    THEN age[c] <= Rest(c) + Late + Cost(c)
    ELSE age[c] + AtLeast(wait, 0) <= Rest(c) + Cost(c) /\ age[c] <= elapsed[c] + Cost(c)

\* In the dispatch the loop comes to it, calls it, or has added the time of the round.
Served(c) ==
    IF c \notin unserved THEN Known(c, elapsed[c])
    ELSE IF Written(c) THEN age[c] <= Rest(c) + 2 * Late + Cost(c)
    ELSE Known(c, elapsed[c] + took)

InTime(c) ==
    CASE at = "scan" -> Known(c, elapsed[c])
      [] at = "select" -> Waiting(c)
      [] at = "dispatch" -> Served(c)

\* The inductive invariant of CalledInTime.
TimeInv ==
    /\ TypeOK
    /\ at # "dispatch" => unserved = {}
    /\ \A c \in registered \ starved : Fd(c) \in Prompt => InTime(c)

\* The rest is no less than the period, nor than MaxWait.
LEMMA RestTyped ==
    ASSUME TypeOK, NEW c \in Ctx
    PROVE  Rest(c) \in Nat /\ period[c] <= Rest(c) /\ MaxWait <= Rest(c)
  BY TimeAssumption DEF Rest, AtLeast, TypeOK

\* One failure more, and none, is all that the products need.
LEMMA CostOf ==
    ASSUME TypeOK, NEW c \in Ctx
    PROVE  /\ Cost(c) \in Nat
           /\ failures[c] = 0 => Cost(c) = 0
           /\ (failures[c] + 1) * (Rest(c) + MaxWait + 2 * Late)
                  = Cost(c) + Rest(c) + MaxWait + 2 * Late
  <1>1. \A f, k \in Nat : f * k \in Nat /\ (f = 0 => f * k = 0) /\ (f + 1) * k = f * k + k
    BY SMT
  <1>2. failures[c] \in Nat /\ Rest(c) + MaxWait + 2 * Late \in Nat
    BY RestTyped, TimeAssumption DEF TypeOK
  <1> QED BY <1>1, <1>2, RestTyped, TimeAssumption DEF Cost

\* Neither changes but with the period and the failures.
LEMMA SameCost ==
    ASSUME NEW c, period'[c] = period[c], failures'[c] = failures[c]
    PROVE  Rest(c)' = Rest(c) /\ Cost(c)' = Cost(c)
  BY DEF Rest, Cost

\* A context that has just been called, or registered, has waited for nothing.
LEMMA FreshCost ==
    ASSUME TypeOK', NEW c \in Ctx, failures'[c] = 0
    PROVE  Rest(c)' \in Nat /\ MaxWait <= Rest(c)' /\ Cost(c)' = 0
  <1>1. Rest(c)' \in Nat /\ MaxWait <= Rest(c)'
    BY TimeAssumption DEF Rest, AtLeast, TypeOK
  <1>2. \A k \in Nat : 0 * k = 0
    BY SMT
  <1>3. Rest(c)' + MaxWait + 2 * Late \in Nat
    BY <1>1, TimeAssumption
  <1> QED BY <1>1, <1>2, <1>3 DEF Cost

\* At the start no context is registered.
LEMMA TimeInit == Init => TimeInv
  <1> SUFFICES ASSUME Init PROVE TimeInv
    OBVIOUS
  <1>1. TypeInv /\ registered = {}
    BY TypeInit DEF Init
  <1> QED BY <1>1 DEF TypeInv, TimeInv

\* The scan asks for the descriptor, or waits no longer than what is left of the period.
LEMMA TimeScan ==
    ASSUME TimeInv, Scan, NEW c \in registered \ starved, Fd(c) \in Prompt
    PROVE  InTime(c)'
  <1>1. /\ at = "scan" /\ at' = "select" /\ write_set' = {Fd(d) : d \in Due}
        /\ elapsed' = [d \in Ctx |-> IF d \in Due /\ Paced(d) THEN 0 ELSE elapsed[d]]
        /\ UNCHANGED <<registered, period, age, failures>>
    BY DEF Scan, history
  <1>2. c \in Ctx /\ TypeInv /\ TypeOK /\ Known(c, elapsed[c])
    BY <1>1 DEF TimeInv, TypeInv, TypeOK, InTime
  <1>3. Rest(c)' = Rest(c) /\ Cost(c)' = Cost(c)
    BY <1>1, SameCost
  <1>4. wait' \in -MaxElapsed .. MaxWait /\ (Paced(c) => wait' <= period[c] - elapsed'[c])
    BY <1>2, WaitOfScan
  <1>5. /\ period[c] \in Int /\ elapsed[c] \in Nat /\ age[c] \in Nat
        /\ Rest(c) \in Nat /\ Cost(c) \in Nat /\ period[c] <= Rest(c)
    BY <1>2, RestTyped, CostOf DEF TypeOK
  <1>6. CASE Fd(c) \in write_set'
    BY <1>1, <1>2, <1>3, <1>6 DEF InTime, Waiting, Known
  <1>7. CASE Fd(c) \notin write_set'
    <2>1. c \notin Due
      BY <1>1, <1>7
    <2>2. ~ (elapsed[c] >= period[c]) /\ elapsed'[c] = elapsed[c] /\ Paced(c)
      BY <1>1, <1>2, <1>5, <2>1 DEF Due, Paced
    <2>3. age[c] <= elapsed[c] + Cost(c)
      BY <1>2, <2>2 DEF Known
    <2>4. age[c] + AtLeast(wait', 0) <= Rest(c) + Cost(c)
      BY <1>4, <1>5, <2>2, <2>3, TimeAssumption DEF AtLeast
    <2> QED BY <1>1, <1>3, <1>7, <2>2, <2>3, <2>4 DEF InTime, Waiting
  <1> QED BY <1>6, <1>7

\* Select returns soon for a descriptor that it is asked for; a call that fails costs a round.
LEMMA TimeSelect ==
    ASSUME TimeInv, TypeOK', NEW ticks \in 0 .. MaxWait + Late, ticks <= wait + Late,
           (\E set \in SUBSET write_set : SelectReturns(set, ticks)) \/ SelectFails(ticks),
           NEW c \in registered \ starved, Fd(c) \in Prompt
    PROVE  InTime(c)'
  <1>1. ticks <= wait + Late
    OBVIOUS
  <1>2. /\ ticks \in Nat /\ at = "select" /\ Ages(ticks) /\ wait >= 0
        /\ UNCHANGED <<registered, period, elapsed, wait>>
    BY TimeAssumption DEF SelectReturns, SelectFails
  <1>3. c \in Ctx /\ TypeOK /\ Waiting(c)
    BY <1>2 DEF TimeInv, TypeOK, InTime
  <1>4. age'[c] = age[c] + ticks
    BY <1>2, <1>3 DEF Ages
  <1>5. /\ period[c] \in Int /\ elapsed[c] \in Nat /\ age[c] \in Nat /\ wait \in Nat
        /\ Rest(c) \in Nat /\ Cost(c) \in Nat /\ wait <= MaxWait /\ MaxWait <= Rest(c)
        /\ Late \in Nat /\ MaxWait \in Nat
    BY <1>2, <1>3, RestTyped, CostOf, TimeAssumption DEF TypeOK
  <1>6. CASE \E set \in SUBSET write_set : SelectReturns(set, ticks)
    <2>1. PICK set \in SUBSET write_set : SelectReturns(set, ticks)
      BY <1>6
    <2>2. /\ write_set \cap Prompt \subseteq set /\ (set \cap Prompt # {} => ticks <= Late)
          /\ took' = ticks /\ write_set' = set /\ unserved' = registered /\ at' = "dispatch"
          /\ failures' = failures
      BY <2>1 DEF SelectReturns
    <2>3. Rest(c)' = Rest(c) /\ Cost(c)' = Cost(c)
      BY <1>2, <2>2, SameCost
    <2>4. CASE Fd(c) \in write_set
      <3>1. Fd(c) \in set /\ ticks <= Late
        BY <2>2, <2>4
      <3>2. age[c] <= Rest(c) + Late + Cost(c)
        BY <1>3, <2>4 DEF Waiting
      <3>3. age'[c] <= Rest(c) + 2 * Late + Cost(c)
        BY <1>2, <1>4, <1>5, <3>1, <3>2
      <3> QED BY <1>2, <2>2, <2>3, <3>1, <3>3 DEF InTime, Served, Written
    <2>5. CASE Fd(c) \notin write_set
      <3>1. age[c] + wait <= Rest(c) + Cost(c) /\ age[c] <= elapsed[c] + Cost(c)
        BY <1>3, <1>5, <2>5 DEF Waiting, AtLeast
      <3>2. age'[c] <= Rest(c) + Late + Cost(c)
        BY <1>1, <1>2, <1>4, <1>5, <3>1
      <3>3. age'[c] <= elapsed[c] + ticks + Cost(c)
        BY <1>2, <1>4, <1>5, <3>1
      <3>4. Known(c, elapsed[c] + took)'
        BY <1>2, <2>2, <2>3, <3>2, <3>3 DEF Known
      <3>5. Fd(c) \notin set
        BY <2>5
      <3> QED BY <1>2, <2>2, <3>4, <3>5 DEF InTime, Served, Written
    <2> QED BY <2>4, <2>5
  <1>7. CASE SelectFails(ticks)
    <2>1. /\ failures' = [d \in Ctx |-> IF d \in registered THEN failures[d] + 1 ELSE 0]
          /\ at' = "scan"
      BY <1>7 DEF SelectFails
    <2>2. failures'[c] = failures[c] + 1 /\ Rest(c)' = Rest(c)
      BY <1>2, <1>3, <2>1 DEF Rest
    <2>3. Cost(c)' = Cost(c) + Rest(c) + MaxWait + 2 * Late
      BY <1>3, <2>2, CostOf DEF Cost
    <2>4. age[c] <= Rest(c) + Late + Cost(c)
      BY <1>3, <1>5 DEF Waiting, AtLeast
    <2>5. ticks <= MaxWait + Late
      BY <1>1, <1>2, <1>5
    <2>6. age'[c] <= elapsed'[c] + Cost(c)' /\ age'[c] <= Rest(c)' + Late + Cost(c)'
      BY <1>2, <1>4, <1>5, <2>2, <2>3, <2>4, <2>5
    <2> QED BY <1>2, <2>1, <2>6 DEF InTime, Known
  <1> QED BY <1>6, <1>7

\* The time of the round is added to a context that is passed over.
LEMMA TimeSkip ==
    ASSUME TimeInv, TypeOK', NEW d \in Ctx, Skip(d), NEW c \in registered \ starved, Fd(c) \in Prompt
    PROVE  InTime(c)'
  <1>1. /\ at = "dispatch" /\ d \in unserved /\ unserved' = unserved \ {d} /\ ~Written(d)
        /\ elapsed' = [elapsed EXCEPT ![d] = Counted(d)]
        /\ UNCHANGED <<registered, period, at, write_set, took, age, failures>>
    BY DEF Skip, Turn, history
  <1>2. c \in Ctx /\ TypeOK /\ Served(c)
    BY <1>1 DEF TimeInv, TypeOK, InTime
  <1>3. Rest(c)' = Rest(c) /\ Cost(c)' = Cost(c)
    BY <1>1, SameCost
  <1>4. CASE c = d
    <2>1. Known(c, elapsed[c] + took) /\ elapsed'[c] = Counted(c)
      BY <1>1, <1>2, <1>4 DEF Served, TypeOK
    <2>2. /\ elapsed[c] \in Nat /\ took \in Nat /\ period[c] \in -MaxElapsed .. MaxElapsed
          /\ age[c] \in Nat /\ Cost(c) \in Nat
      BY <1>2, CostOf, TimeAssumption DEF TypeOK
    <2>3. Known(c, Counted(c))
      BY <2>1, <2>2, TimeAssumption DEF Known, Counted, AtMost
    <2> QED BY <1>1, <1>3, <1>4, <2>1, <2>3 DEF InTime, Served, Known
  <1>5. CASE c # d
    <2>1. elapsed'[c] = elapsed[c] /\ (c \in unserved' <=> c \in unserved)
      BY <1>1, <1>2, <1>5 DEF TypeOK
    <2> QED BY <1>1, <1>2, <1>3, <2>1 DEF InTime, Served, Known, Written
  <1> QED BY <1>1, <1>4, <1>5

\* A context that is called has waited for nothing.
LEMMA TimeCall ==
    ASSUME TimeInv, TypeOK', NEW d \in Ctx, Calls(d), NEW c \in registered' \ starved', Fd(c) \in Prompt
    PROVE  InTime(c)'
  <1>1. PICK p \in Periods(d), keep \in BOOLEAN, ticks \in 0 .. HandlerTime :
            Call(d, p, keep, ticks)
    BY DEF Calls
  <1>2. /\ at = "dispatch" /\ d \in unserved /\ unserved' = unserved \ {d}
        /\ elapsed' = [elapsed EXCEPT ![d] = 0]
        /\ period' = [period EXCEPT ![d] = p]
        /\ registered' \subseteq registered
        /\ age' = [age EXCEPT ![d] = 0]
        /\ failures' = [failures EXCEPT ![d] = 0]
        /\ starved' = starved \ {d}
        /\ UNCHANGED <<at, write_set, took>>
    BY <1>1 DEF Call, Turn, Fresh
  <1>3. c \in Ctx /\ TypeOK
    BY <1>2 DEF TimeInv, TypeOK
  <1>4. CASE c = d
    <2>1. age'[c] = 0 /\ elapsed'[c] = 0 /\ failures'[c] = 0
      BY <1>2, <1>3, <1>4 DEF TypeOK
    <2>2. Known(c, elapsed[c])'
      BY <1>3, <2>1, FreshCost, TimeAssumption DEF Known
    <2> QED BY <1>2, <1>4, <2>2 DEF InTime, Served
  <1>5. CASE c # d
    <2>1. /\ elapsed'[c] = elapsed[c] /\ period'[c] = period[c] /\ age'[c] = age[c]
          /\ failures'[c] = failures[c] /\ (c \in unserved' <=> c \in unserved)
      BY <1>2, <1>3, <1>5 DEF TypeOK
    <2>2. Rest(c)' = Rest(c) /\ Cost(c)' = Cost(c)
      BY <2>1, SameCost
    <2>3. Served(c)
      BY <1>2, <1>5 DEF TimeInv, InTime
    <2> QED BY <1>2, <1>3, <2>1, <2>2, <2>3 DEF InTime, Served, Known, Written
  <1> QED BY <1>4, <1>5

\* Nor has one that another thread registers.
LEMMA TimeChange ==
    ASSUME TimeInv, TypeOK', NEW d \in Ctx, Add(d) \/ Delete(d),
           NEW c \in registered' \ starved', Fd(c) \in Prompt
    PROVE  InTime(c)'
  <1>1. /\ at # "dispatch" /\ registered' \subseteq registered \cup {d}
        /\ d \in registered' => d \notin registered
        /\ age' = [age EXCEPT ![d] = 0] /\ failures' = [failures EXCEPT ![d] = 0]
        /\ starved' = starved \ {d}
        /\ UNCHANGED <<period, elapsed, at, wait, write_set, took, unserved>>
    BY DEF Add, Delete, Fresh, loop
  <1>2. TypeOK /\ c \in Ctx
    BY DEF TimeInv, TypeOK
  <1>3. CASE c = d
    <2>1. age'[c] = 0 /\ failures'[c] = 0 /\ elapsed'[c] \in Nat /\ wait' \in -MaxElapsed .. MaxWait
      BY <1>1, <1>2, <1>3 DEF TypeOK
    <2>2. Rest(c)' \in Nat /\ MaxWait <= Rest(c)' /\ Cost(c)' \in Nat
      BY <1>2, <2>1, FreshCost
    <2>3. Known(c, elapsed[c])' /\ Waiting(c)'
      BY <2>1, <2>2, TimeAssumption DEF Known, Waiting, AtLeast
    <2>4. at' \in {"scan", "select"}
      BY <1>1, <1>2 DEF TypeOK
    <2> QED BY <2>3, <2>4 DEF InTime
  <1>4. CASE c # d
    <2>1. c \in registered /\ InTime(c)
      BY <1>1, <1>4 DEF TimeInv
    <2>2. age'[c] = age[c] /\ failures'[c] = failures[c]
      BY <1>1, <1>2, <1>4 DEF TypeOK
    <2>3. Rest(c)' = Rest(c) /\ Cost(c)' = Cost(c)
      BY <1>1, <2>2, SameCost
    <2> QED BY <1>1, <2>1, <2>2, <2>3 DEF InTime, Known, Waiting, Served, Written
  <1> QED BY <1>3, <1>4

\* Every step keeps TimeInv.
LEMMA TimeStep == TimeInv /\ [Next]_vars => TimeInv'
  <1> SUFFICES ASSUME TimeInv, [Next]_vars PROVE TimeInv'
    OBVIOUS
  <1>1. TypeInv'
    BY TypeStep DEF TimeInv, TypeInv
  <1>2. ASSUME NEW c \in registered' \ starved', Fd(c) \in Prompt PROVE InTime(c)'
    <2>1. CASE Scan
      BY <1>2, <2>1, TimeScan DEF Scan, history
    <2>2. ASSUME NEW ticks \in 0 .. MaxWait + Late, ticks <= wait + Late,
                 (\E set \in SUBSET write_set : SelectReturns(set, ticks)) \/ SelectFails(ticks)
          PROVE  InTime(c)'
      <3>1. c \in registered \ starved
        BY <1>2, <2>2 DEF SelectReturns, SelectFails
      <3> QED BY <1>1, <1>2, <2>2, <3>1, TimeSelect DEF TypeInv
    <2>8. ASSUME NEW ticks, SelectRefuses(ticks) PROVE FALSE
      BY <1>2, <2>8 DEF SelectRefuses
    <2>3. ASSUME NEW d \in Ctx, Skip(d) PROVE InTime(c)'
      BY <1>1, <1>2, <2>3, TimeSkip DEF Skip, TypeInv, history
    <2>4. ASSUME NEW d \in Ctx, Calls(d) PROVE InTime(c)'
      BY <1>1, <1>2, <2>4, TimeCall DEF TypeInv
    <2>5. ASSUME NEW d \in Ctx, Add(d) \/ Delete(d) PROVE InTime(c)'
      BY <1>1, <1>2, <2>5, TimeChange DEF TypeInv
    <2>6. CASE DispatchEnds
      <3>1. /\ at = "dispatch" /\ unserved = {} /\ at' = "scan"
            /\ UNCHANGED <<registered, period, elapsed, age, failures, starved>>
        BY <2>6 DEF DispatchEnds, history
      <3>2. Known(c, elapsed[c])
        BY <1>2, <3>1 DEF TimeInv, InTime, Served
      <3>3. Rest(c)' = Rest(c) /\ Cost(c)' = Cost(c)
        BY <3>1, SameCost
      <3> QED BY <3>1, <3>2, <3>3 DEF InTime, Known
    <2>7. CASE UNCHANGED vars
      <3>1. /\ InTime(c)
            /\ UNCHANGED <<at, wait, write_set, took, unserved, period, elapsed, age, failures>>
        BY <1>2, <2>7 DEF vars, loop, history, TimeInv
      <3>2. Rest(c)' = Rest(c) /\ Cost(c)' = Cost(c)
        BY <3>1, SameCost
      <3> QED BY <3>1, <3>2 DEF InTime, Known, Waiting, Served, Written
    <2> QED BY <2>1, <2>2, <2>3, <2>4, <2>5, <2>6, <2>7, <2>8 DEF Next, Select
  <1> QED BY <1>1, <1>2 DEF TimeInv, TypeInv, TypeOK

\* A context whose descriptor is writable is called when its period is over, or MaxWait if
\* it is shorter, and no later than two late returns of select and what interrupted calls of
\* it cost: for any contexts, periods and delays, and while other threads add and delete
\* contexts, unless select refused a negative timeout while it waited
\* (sios_sources_execute_writers).
THEOREM CalledSoonEnough == Spec => []CalledInTime
  <1>1. ASSUME TimeInv PROVE CalledInTime
    <2> SUFFICES ASSUME NEW c \in registered \ starved, Fd(c) \in Prompt
                 PROVE  age[c] <= Rest(c) + 2 * Late + Cost(c)
      BY DEF CalledInTime, Rest, Cost
    <2>1. TypeOK /\ c \in Ctx /\ InTime(c) /\ at \in {"scan", "select", "dispatch"}
      BY <1>1 DEF TimeInv, TypeOK
    <2>2. /\ age[c] \in Nat /\ wait \in Int /\ Rest(c) \in Nat /\ Cost(c) \in Nat /\ Late \in Nat
      BY <2>1, RestTyped, CostOf, TimeAssumption DEF TypeOK
    <2>3. \/ age[c] <= Rest(c) + Late + Cost(c) \/ age[c] + AtLeast(wait, 0) <= Rest(c) + Cost(c)
          \/ age[c] <= Rest(c) + 2 * Late + Cost(c)
      BY <2>1 DEF InTime, Known, Waiting, Served
    <2> QED BY <2>2, <2>3 DEF AtLeast
  <1> QED BY <1>1, TimeInit, TimeStep, PTL DEF Spec
=============================================================================
