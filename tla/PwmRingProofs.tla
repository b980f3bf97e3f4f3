---------------------------- MODULE PwmRingProofs ----------------------------
(* The queue of pwm_beep.c and pwm_buzz.c, for every size of the ring, every   *)
(* set of beeps, and sweeps of any length on a ring in any state.              *)
EXTENDS PwmRing, SequenceTheorems, TLAPS

-----------------------------------------------------------------------------
(* Arithmetic of the indices *)

\* An index that is advanced stays inside the array.
LEMMA IncInSlot ==
    ASSUME NEW i \in Slot
    PROVE  Inc(i) \in Slot
  BY SizeAssumption DEF Slot, Inc

\* The distance between two indices is below the size.
LEMMA DistanceBound ==
    ASSUME TypeOK
    PROVE  HasBeeps \in 0 .. Size - 1 /\ HasBeeps \in Nat
  BY SizeAssumption DEF TypeOK, Slot, HasBeeps

\* The slots behind the head are slots, and none of them is at the head before a whole lap.
LEMMA BehindInSlot ==
    ASSUME TypeOK, NEW i \in 1 .. Size - 1
    PROVE  Behind(i) \in Slot /\ Behind(i) # beep_head
  BY SizeAssumption DEF TypeOK, Slot, Behind

\* The slot at the tail is as far behind the head as there are beeps.
LEMMA TailBehind ==
    ASSUME TypeOK
    PROVE  Behind(HasBeeps) = beep_tail
  BY SizeAssumption DEF TypeOK, Slot, Behind, HasBeeps

LEMMA InitInv == Init => RingInv
  <1> SUFFICES ASSUME Init PROVE RingInv
    OBVIOUS
  <1> USE SizeAssumption DEF Init
  <1>1. TypeOK
    BY DEF TypeOK, Slot, Idle
  <1>2. latest = <<>> /\ Len(latest) = 0 /\ HasBeeps = 0
    BY DEF HasBeeps
  <1>3. SlotsBehind /\ LatestFit
    BY <1>2 DEF SlotsBehind, LatestFit
  <1>4. CheckedRoom /\ FilledSlot /\ PutHoldsBeep /\ CheckedBeep
    BY DEF CheckedRoom, FilledSlot, PutHoldsBeep, CheckedBeep, Idle, Unchecked
  <1> QED
    BY <1>1, <1>3, <1>4 DEF RingInv

-----------------------------------------------------------------------------
(* The types *)

\* What the type of the history needs: the producer holds a beep when it has a slot to
\* fill.
TypeInv == TypeOK /\ PutHoldsBeep

\* What the producer holds when it publishes a slot.
LEMMA HoldsBeep ==
    ASSUME TypeInv, PutAdvance
    PROVE  /\ put.at = "advance" /\ put.beep \in Beep
           /\ put.checked \in BOOLEAN /\ put.left \in Nat
           /\ latest \in Seq(Beep) /\ Len(latest) \in Nat
  <1>1. put.at = "advance"
    BY DEF PutAdvance
  <1> QED BY <1>1 DEF TypeInv, TypeOK, PutHoldsBeep

\* What PutAdvance leaves behind: an idle producer, or the next beep of a sweep.
LEMMA AfterAdvance ==
    ASSUME TypeInv, PutAdvance
    PROVE  /\ put' \in [at : {"idle", "fill", "store", "advance"}, beep : Beep \cup {Empty},
                        checked : BOOLEAN, left : Nat]
           /\ PutHoldsBeep'
           /\ \/ put.left = 0 /\ put'.at = "idle"
              \/ /\ put.left # 0 /\ put'.at = "fill"
                 /\ put'.checked = put.checked /\ put'.left = put.left - 1
  <1>1. CASE put.left = 0 /\ put' = Idle
    BY <1>1 DEF Idle, PutHoldsBeep
  <1>2. ASSUME NEW b \in Beep, put.left # 0,
               put' = [at |-> "fill", beep |-> b, checked |-> put.checked,
                       left |-> put.left - 1]
        PROVE  /\ put' \in [at : {"idle", "fill", "store", "advance"},
                            beep : Beep \cup {Empty}, checked : BOOLEAN, left : Nat]
               /\ put'.beep \in Beep
               /\ put'.at = "fill" /\ put'.checked = put.checked
               /\ put'.left = put.left - 1
    BY <1>2 DEF TypeInv, TypeOK
  <1> QED
    BY <1>1, <1>2 DEF PutAdvance, PutHoldsBeep

LEMMA TypeStep == TypeInv /\ [Next]_vars => TypeInv'
  <1> SUFFICES ASSUME TypeInv, [Next]_vars PROVE TypeInv'
    OBVIOUS
  <1> USE SizeAssumption DEF TypeInv, TypeOK, PutHoldsBeep
  <1>1. ASSUME NEW b \in Beep, PutCheck(b) PROVE TypeInv'
    BY <1>1 DEF PutCheck, ring
  <1>2. ASSUME NEW b \in Beep, NEW n \in SweepLengths, SweepStart(b, n) PROVE TypeInv'
    <2>1. n - 1 \in Nat
      BY <1>2, SweepAssumption DEF SweepStart
    <2> QED BY <1>2, <2>1 DEF SweepStart, ring
  <1>3. CASE PutBegin
    BY <1>3 DEF PutBegin
  <1>4. CASE PutFill
    <2>1. beep_head \in Slot /\ put.beep \in Beep
      BY <1>4 DEF PutFill
    <2> QED BY <1>4, <2>1 DEF PutFill
  <1>5. CASE PutAdvance
    <2>1. beep_head' \in Slot /\ latest' \in Seq(Beep) /\ overrun' \in BOOLEAN
      <3>1. put.beep \in Beep /\ Append(latest, put.beep) \in Seq(Beep)
        BY <1>5, HoldsBeep
      <3>2. CASE Len(latest) < Size - 1
        BY <1>5, <3>1, <3>2, IncInSlot DEF PutAdvance
      <3>3. CASE ~(Len(latest) < Size - 1)
        <4>1. latest # <<>>
          BY <3>3
        <4>2. Tail(latest) \in Seq(Beep)
          BY <4>1, HeadTailProperties
        <4>3. Append(Tail(latest), put.beep) \in Seq(Beep)
          BY <3>1, <4>2
        <4> QED BY <1>5, <3>3, <4>3, IncInSlot DEF PutAdvance
      <3> QED BY <3>2, <3>3
    <2> QED BY <1>5, <2>1, AfterAdvance DEF PutAdvance
  <1>6. CASE TakeAdvance
    <2>1. beep_tail' \in Slot
      BY <1>6, IncInSlot DEF TakeAdvance
    <2> QED BY <1>6, <2>1 DEF TakeAdvance
  <1>7. CASE TakeNothing \/ TakeStart \/ TakeWrite \/ TakePeriod \/ TakeDelay
             \/ TakeLast \/ TakeReturn
    BY <1>7 DEF TakeNothing, TakeStart, TakeWrite, TakePeriod, TakeDelay, TakeLast,
                TakeReturn, ring
  <1>8. CASE PutDrop \/ UNCHANGED vars
    BY <1>8 DEF PutDrop, vars
  <1> QED
    BY <1>1, <1>2, <1>3, <1>4, <1>5, <1>6, <1>7, <1>8 DEF Next, Produce, Consume

\* The two threads keep the types, and with them the indices inside the array, for every
\* size of the ring and whatever the lengths of the sweeps: a sweep that is too long spoils
\* what is queued (INC_N_WRAP_PTR in PWMPutSweep), never what lies beside it.
THEOREM IndicesStayInside == Spec => []TypeOK
  <1>1. Init => TypeInv
    BY InitInv DEF RingInv, TypeInv
  <1>2. TypeInv => TypeOK
    BY DEF TypeInv
  <1> QED BY <1>1, <1>2, TypeStep, PTL DEF Spec

-----------------------------------------------------------------------------
(* The two steps that move an index *)

\* The history gains the beep, and loses its oldest when it is full.
LEMMA Remembers ==
    ASSUME RingInv, PutAdvance
    PROVE  /\ Len(latest) < Size - 1 =>
                /\ Len(latest') = Len(latest) + 1
                /\ \A i \in 1 .. Len(latest) : latest'[i] = latest[i]
           /\ Len(latest) = Size - 1 =>
                /\ Len(latest') = Len(latest)
                /\ \A i \in 1 .. Len(latest) - 1 : latest'[i] = latest[i + 1]
           /\ latest'[Len(latest')] = put.beep
           /\ Len(latest') \in 1 .. Size - 1
  <1> USE SizeAssumption
  <1>1. latest \in Seq(Beep) /\ put.beep \in Beep /\ Len(latest) <= Size - 1
    BY HoldsBeep DEF RingInv, TypeInv, LatestFit
  <1>0. latest' = IF Len(latest) < Size - 1 THEN Append(latest, put.beep)
                                           ELSE Append(Tail(latest), put.beep)
    BY DEF PutAdvance
  <1>2. CASE Len(latest) < Size - 1
    <2>1. latest' = Append(latest, put.beep)
      BY <1>0, <1>2
    <2> QED BY <1>1, <1>2, <2>1
  <1>3. CASE Len(latest) = Size - 1
    <2>1. latest # <<>>
      BY <1>3
    <2>2. /\ Tail(latest) \in Seq(Beep) /\ Len(Tail(latest)) = Len(latest) - 1
          /\ \A i \in 1 .. Len(Tail(latest)) : Tail(latest)[i] = latest[i + 1]
      BY <1>1, <2>1, HeadTailProperties
    <2>3. latest' = Append(Tail(latest), put.beep)
      BY <1>0, <1>3
    <2> QED BY <1>1, <1>3, <2>2, <2>3
  <1> QED BY <1>1, <1>2, <1>3

\* The producer publishes the slot it filled: the distance grows by one, or a full ring
\* looks empty.
LEMMA AdvanceHead ==
    ASSUME RingInv, PutAdvance
    PROVE  /\ RingInv'
           /\ HasBeeps < Size - 1 => HasBeeps' = HasBeeps + 1
           /\ HasBeeps = Size - 1 => HasBeeps' = 0
  <1> USE SizeAssumption DEF RingInv
  <1>1. /\ beep_head \in Slot /\ beep_tail \in Slot
        /\ latest \in Seq(Beep) /\ Len(latest) \in Nat
        /\ put.beep \in Beep /\ put.left \in Nat /\ put.checked \in BOOLEAN
        /\ put.at = "advance"
        /\ HasBeeps \in 0 .. Size - 1
        /\ beeps[beep_head] = put.beep
    BY DistanceBound, HoldsBeep DEF TypeInv, TypeOK, FilledSlot
  <1>2. /\ beep_head' = Inc(beep_head) /\ beep_tail' = beep_tail
        /\ beeps' = beeps /\ take' = take /\ revived' = revived
        /\ overrun' = (overrun \/ HasBeeps = Size - 1)
    BY DEF PutAdvance
  <1>3. /\ HasBeeps < Size - 1 => HasBeeps' = HasBeeps + 1
        /\ HasBeeps = Size - 1 => HasBeeps' = 0
    BY <1>1, <1>2 DEF HasBeeps, Slot, Inc
  <1>4. TypeOK' /\ PutHoldsBeep'
    <2>1. TypeInv /\ [Next]_vars
      BY DEF TypeInv, Next, Produce
    <2> QED BY <2>1, TypeStep DEF TypeInv
  <1>5. \A i \in 1 .. Size - 2 : Behind(i + 1)' = Behind(i)
    BY <1>1, <1>2 DEF Behind, Inc, Slot
  <1>6. Behind(1)' = beep_head
    BY <1>1, <1>2 DEF Behind, Inc, Slot
  <1>7. SlotsBehind'
    <2> SUFFICES ASSUME NEW i \in 1 .. Len(latest')
                 PROVE  beeps[Behind(i)'] = latest'[Len(latest') + 1 - i]
      BY <1>2 DEF SlotsBehind
    <2>1. CASE i = 1
      BY <1>1, <1>6, <2>1, Remembers
    <2>2. CASE i > 1
      <3>1. i - 1 \in 1 .. Len(latest) /\ i - 1 \in 1 .. Size - 2
        BY <1>1, <2>2, Remembers DEF LatestFit
      <3>2. Behind(i)' = Behind(i - 1)
        <4>1. (i - 1) + 1 = i
          BY <2>2
        <4> QED BY <1>5, <3>1, <4>1
      <3>3. beeps[Behind(i - 1)] = latest[Len(latest) + 1 - (i - 1)]
        BY <3>1 DEF SlotsBehind
      <3>4. latest'[Len(latest') + 1 - i] = latest[Len(latest) + 1 - (i - 1)]
        <4>1. CASE Len(latest) < Size - 1
          <5>1. /\ Len(latest') + 1 - i = Len(latest) + 1 - (i - 1)
                /\ Len(latest') + 1 - i \in 1 .. Len(latest)
            BY <1>1, <2>2, <3>1, <4>1, Remembers
          <5> QED BY <4>1, <5>1, Remembers
        <4>2. CASE Len(latest) = Size - 1
          <5>1. /\ (Len(latest') + 1 - i) + 1 = Len(latest) + 1 - (i - 1)
                /\ Len(latest') + 1 - i \in 1 .. Len(latest) - 1
            <6>1. Len(latest') = Len(latest) /\ i \in 2 .. Len(latest)
              BY <1>1, <2>2, <4>2, Remembers
            <6> QED BY <1>1, <6>1
          <5> QED BY <4>2, <5>1, Remembers
        <4> QED BY <1>1, <4>1, <4>2 DEF LatestFit
      <3> QED BY <3>2, <3>3, <3>4
    <2> QED BY <1>1, <2>1, <2>2, Remembers
  <1>8. LatestFit'
    BY <1>1, <1>3, Remembers DEF LatestFit
  <1>9. CheckedRoom' /\ FilledSlot'
    <2>1. put'.at # "idle" => /\ put'.at = "fill" /\ put.left # 0
                              /\ put'.checked = put.checked
      BY AfterAdvance DEF TypeInv
    <2>2. put'.at # "idle" => ~put.checked
      BY <1>1, <2>1 DEF CheckedRoom
    <2> QED BY <1>1, <1>2, <2>1, <2>2 DEF CheckedRoom, FilledSlot, Unchecked
  <1>10. CheckedBeep'
    <2>1. HasBeeps < Size - 1 => HasBeeps' # 0
      BY <1>1, <1>3
    <2>2. HasBeeps = Size - 1 => overrun' /\ Len(latest') = Size - 1
      <3>1. HasBeeps = Size - 1 => Len(latest) = Size - 1
        BY <1>1 DEF LatestFit
      <3> QED BY <1>2, <3>1, Remembers
    <2> QED BY <1>1, <2>1, <2>2 DEF CheckedBeep
  <1> QED
    BY <1>3, <1>4, <1>7, <1>8, <1>9, <1>10

\* The consumer releases the slot it wrote: the distance shrinks by one, or an empty ring
\* looks full.
LEMMA AdvanceTail ==
    ASSUME RingInv, TakeAdvance
    PROVE  /\ RingInv'
           /\ HasBeeps # 0 => HasBeeps' = HasBeeps - 1
           /\ HasBeeps = 0 => HasBeeps' = Size - 1
  <1> USE SizeAssumption DEF RingInv
  <1>1. /\ beep_head \in Slot /\ beep_tail \in Slot
        /\ HasBeeps \in 0 .. Size - 1
        /\ take = "advance" /\ latest \in Seq(Beep) /\ Len(latest) \in Nat
        /\ put.left \in Nat /\ put.checked \in BOOLEAN
        /\ overrun \in BOOLEAN /\ revived \in BOOLEAN
    BY DistanceBound DEF TakeAdvance, TypeOK
  <1>2. /\ beep_tail' = Inc(beep_tail) /\ beep_head' = beep_head
        /\ beeps' = beeps /\ put' = put /\ take' = "period"
        /\ latest' = latest /\ overrun' = overrun
        /\ revived' = (revived \/ HasBeeps = 0)
    BY DEF TakeAdvance
  <1>3. /\ HasBeeps # 0 => HasBeeps' = HasBeeps - 1
        /\ HasBeeps = 0 => HasBeeps' = Size - 1
    BY <1>1, <1>2 DEF HasBeeps, Slot, Inc
  <1>4. TypeOK'
    BY <1>1, <1>2, IncInSlot DEF TypeOK
  <1>5. SlotsBehind'
    BY <1>2 DEF SlotsBehind, Behind
  <1>6. LatestFit'
    BY <1>1, <1>2, <1>3 DEF LatestFit, CheckedBeep
  <1>7. CheckedRoom'
    BY <1>1, <1>2, <1>3 DEF CheckedRoom, Unchecked
  <1>8. FilledSlot' /\ PutHoldsBeep' /\ CheckedBeep'
    BY <1>2 DEF FilledSlot, PutHoldsBeep, CheckedBeep
  <1> QED
    BY <1>3, <1>4, <1>5, <1>6, <1>7, <1>8

\* The producer stores into the slot at the head, which is not among those behind it.
LEMMA StoreAtHead ==
    ASSUME RingInv, PutBegin \/ PutFill
    PROVE  RingInv'
  <1> USE SizeAssumption DEF RingInv
  <1>1. /\ beep_head \in Slot /\ beep_tail \in Slot
        /\ beeps \in [Slot -> Beep \cup {Empty, Partial}]
        /\ put.at \in {"fill", "store"} /\ put.beep \in Beep
        /\ put \in [at : {"idle", "fill", "store", "advance"}, beep : Beep \cup {Empty},
                    checked : BOOLEAN, left : Nat]
        /\ latest \in Seq(Beep) /\ Len(latest) \in 0 .. Size - 1
    BY DEF PutBegin, PutFill, TypeOK, PutHoldsBeep, LatestFit
  <1>2. /\ \/ put.at = "fill" /\ put' = [put EXCEPT !.at = "store"]
           \/ /\ put.at = "store" /\ put' = [put EXCEPT !.at = "advance"]
              /\ beeps' = [beeps EXCEPT ![beep_head] = put.beep]
        /\ \E b \in Beep \cup {Empty, Partial} : beeps' = [beeps EXCEPT ![beep_head] = b]
        /\ beep_head' = beep_head /\ beep_tail' = beep_tail /\ take' = take
        /\ latest' = latest /\ overrun' = overrun /\ revived' = revived
    BY <1>1 DEF PutBegin, PutFill
  <1>3. /\ put'.at \in {"store", "advance"} /\ put'.beep = put.beep
        /\ put'.left = put.left /\ put'.checked = put.checked
        /\ put'.at = "advance" => beeps' = [beeps EXCEPT ![beep_head] = put.beep]
    BY <1>1, <1>2
  <1>4. TypeOK'
    <2>1. beeps' \in [Slot -> Beep \cup {Empty, Partial}]
      BY <1>1, <1>2
    <2> QED BY <1>1, <1>2, <2>1 DEF TypeOK
  <1>5. HasBeeps' = HasBeeps
    BY <1>2 DEF HasBeeps
  <1>6. SlotsBehind'
    <2>1. ASSUME NEW i \in 1 .. Len(latest)
          PROVE  beeps'[Behind(i)'] = beeps[Behind(i)]
      <3>1. Behind(i) \in Slot /\ Behind(i) # beep_head /\ Behind(i)' = Behind(i)
        BY <1>1, <1>2, BehindInSlot DEF Behind
      <3> QED BY <1>1, <1>2, <3>1
    <2> QED BY <1>2, <2>1 DEF SlotsBehind
  <1>7. LatestFit' /\ CheckedRoom' /\ FilledSlot' /\ PutHoldsBeep' /\ CheckedBeep'
    BY <1>1, <1>2, <1>3, <1>5
       DEF LatestFit, CheckedRoom, FilledSlot, PutHoldsBeep, CheckedBeep, Unchecked
  <1> QED
    BY <1>4, <1>6, <1>7

-----------------------------------------------------------------------------
\* A step that leaves the ring and the history alone needs only its own checks.
LEMMA QuietStep ==
    ASSUME RingInv, UNCHANGED <<ring, latest>>
    PROVE  /\ SlotsBehind' /\ LatestFit'
           /\ HasBeeps' = HasBeeps
           /\ Contents' = Contents
  <1>1. HasBeeps' = HasBeeps /\ \A i \in Int : Behind(i)' = Behind(i)
    BY DEF ring, HasBeeps, Behind
  <1>2. SlotsBehind' /\ LatestFit'
    BY <1>1 DEF RingInv, SlotsBehind, LatestFit, ring
  <1>3. Contents' = Contents
    BY <1>1 DEF Contents, ring, HasBeeps, Behind
  <1> QED
    BY <1>1, <1>2, <1>3

\* The steps that look at the ring and move only a thread.
LEMMA ThreadStep ==
    ASSUME RingInv,
           \/ \E b \in Beep : PutCheck(b)
           \/ \E b \in Beep, n \in SweepLengths : SweepStart(b, n)
           \/ TakeNothing \/ TakeStart \/ TakeWrite \/ TakePeriod \/ TakeDelay
           \/ TakeLast \/ TakeReturn \/ PutDrop \/ UNCHANGED vars
    PROVE  RingInv' /\ UNCHANGED <<ring, latest>>
  <1>1. UNCHANGED <<ring, latest>>
    BY DEF PutCheck, SweepStart, TakeNothing, TakeStart, TakeWrite, TakePeriod, TakeDelay,
           TakeLast, TakeReturn, PutDrop, vars, ring
  <1>2. TypeOK' /\ PutHoldsBeep'
    <2>1. TypeInv /\ [Next]_vars
      BY DEF RingInv, TypeInv, Next, Produce, Consume
    <2> QED BY <2>1, TypeStep DEF TypeInv
  <1>3. HasBeeps \in Nat /\ HasBeeps' = HasBeeps
    BY <1>1, QuietStep, DistanceBound DEF RingInv
  <1>4. CheckedRoom' /\ FilledSlot' /\ CheckedBeep'
    <2>1. CASE \E b \in Beep : PutCheck(b)
      BY <1>1, <1>3, <2>1
         DEF PutCheck, ring, RingInv, CheckedRoom, FilledSlot, CheckedBeep, Unchecked
    <2>2. CASE \E b \in Beep, n \in SweepLengths : SweepStart(b, n)
      BY <1>1, <1>3, <2>2
         DEF SweepStart, ring, RingInv, CheckedRoom, FilledSlot, CheckedBeep, Unchecked
    <2>3. CASE TakeNothing \/ TakeStart \/ TakeWrite \/ TakePeriod \/ TakeDelay
               \/ TakeLast \/ TakeReturn
      BY <1>1, <1>3, <2>3
         DEF TakeNothing, TakeStart, TakeWrite, TakePeriod, TakeDelay, TakeLast, TakeReturn,
             ring, RingInv, CheckedRoom, FilledSlot, CheckedBeep, Unchecked
    <2>4. CASE PutDrop \/ UNCHANGED vars
      BY <1>1, <1>3, <2>4
         DEF PutDrop, vars, ring, RingInv, CheckedRoom, FilledSlot, CheckedBeep, Unchecked
    <2> QED BY <2>1, <2>2, <2>3, <2>4
  <1> QED
    BY <1>1, <1>2, <1>4, QuietStep DEF RingInv

LEMMA StepInv == RingInv /\ [Next]_vars => RingInv'
  <1> SUFFICES ASSUME RingInv, [Next]_vars PROVE RingInv'
    OBVIOUS
  <1>1. CASE PutBegin \/ PutFill
    BY <1>1, StoreAtHead
  <1>2. CASE PutAdvance
    BY <1>2, AdvanceHead
  <1>3. CASE TakeAdvance
    BY <1>3, AdvanceTail
  <1> QED
    BY <1>1, <1>2, <1>3, ThreadStep DEF Next, Produce, Consume

\* What pwm_has_beeps counts are the beeps accepted last, in order, for every size and
\* every succession of messages and sweeps, those that overrun the ring among them.
THEOREM RingIsLatest == Spec => []RingHoldsLatest
  <1>1. RingInv => RingHoldsLatest
    <2> SUFFICES ASSUME RingInv PROVE RingHoldsLatest
      OBVIOUS
    <2>1. /\ HasBeeps \in Nat /\ HasBeeps <= Len(latest)
          /\ latest \in Seq(Beep) /\ Len(latest) \in Nat
      BY DistanceBound DEF RingInv, LatestFit, TypeOK
    <2> QED BY <2>1 DEF RingInv, SlotsBehind, RingHoldsLatest
  <1> QED
    BY InitInv, StepInv, <1>1, PTL DEF Spec

\* The write handler sends the beeps to the device in the order they were accepted,
\* and paces them by a delay that was accepted with them, unless a sweep has overrun the
\* slot while the handler was at it.
THEOREM WritesOldestBeep == Spec => []ReadsOldestBeep
  <1>1. RingInv => ReadsOldestBeep
    <2> SUFFICES ASSUME RingInv, take \in {"write", "delay"}, ~overrun
                 PROVE  /\ HasBeeps # 0
                        /\ beeps[beep_tail] = latest[Len(latest) + 1 - HasBeeps]
      BY DEF ReadsOldestBeep
    <2>1. HasBeeps # 0
      BY DEF RingInv, CheckedBeep
    <2>2. HasBeeps \in 1 .. Len(latest)
      BY <2>1, DistanceBound DEF RingInv, LatestFit, TypeOK
    <2>3. beeps[Behind(HasBeeps)] = latest[Len(latest) + 1 - HasBeeps]
      BY <2>2 DEF RingInv, SlotsBehind
    <2>4. Behind(HasBeeps) = beep_tail
      BY TailBehind DEF RingInv
    <2> QED BY <2>1, <2>3, <2>4
  <1> QED
    BY InitInv, StepInv, <1>1, PTL DEF Spec

-----------------------------------------------------------------------------
(* The ring implements the queue *)

\* What waits is the end of the history.
LEMMA ContentsAre ==
    ASSUME RingInv
    PROVE  /\ Contents \in Seq(Beep)
           /\ Len(Contents) = HasBeeps
           /\ \A i \in 1 .. HasBeeps : Contents[i] = latest[(Len(latest) - HasBeeps) + i]
  <1>1. /\ HasBeeps \in Nat /\ HasBeeps <= Len(latest)
        /\ latest \in Seq(Beep) /\ Len(latest) \in Nat
    BY DistanceBound DEF RingInv, LatestFit, TypeOK
  <1>2. ASSUME NEW i \in 1 .. HasBeeps
        PROVE  /\ beeps[Behind(HasBeeps + 1 - i)] = latest[(Len(latest) - HasBeeps) + i]
               /\ beeps[Behind(HasBeeps + 1 - i)] \in Beep
    <2>1. /\ HasBeeps + 1 - i \in 1 .. Len(latest)
          /\ Len(latest) + 1 - (HasBeeps + 1 - i) = (Len(latest) - HasBeeps) + i
          /\ (Len(latest) - HasBeeps) + i \in 1 .. Len(latest)
      BY <1>1
    <2>2. latest[(Len(latest) - HasBeeps) + i] \in Beep
      BY <1>1, <2>1, ElementOfSeq
    <2> QED BY <2>1, <2>2 DEF RingInv, SlotsBehind
  <1>3. Contents \in [1 .. HasBeeps -> Beep]
    BY <1>2 DEF Contents
  <1>4. Contents \in Seq(Beep) /\ Len(Contents) = HasBeeps
    BY <1>1, <1>3, SeqDef
  <1> QED
    BY <1>2, <1>4 DEF Contents

\* The put happens when beep_head moves.
LEMMA AdvanceIsPut ==
    ASSUME RingInv, RingInv', PutAdvance
    PROVE  Q!Next
  <1> USE SizeAssumption
  <1>1. /\ HasBeeps \in 0 .. Size - 1 /\ put.beep \in Beep
        /\ latest \in Seq(Beep) /\ Len(latest) \in 0 .. Size - 1 /\ HasBeeps <= Len(latest)
        /\ put.at = "advance" /\ take' = take /\ revived' = revived
    <2>1. put.beep \in Beep /\ put.at = "advance" /\ take' = take /\ revived' = revived
      BY HoldsBeep DEF RingInv, TypeInv, PutAdvance
    <2> QED BY <2>1, DistanceBound DEF RingInv, TypeOK, LatestFit
  <1>2. /\ Contents \in Seq(Beep) /\ Len(Contents) = HasBeeps
        /\ \A i \in 1 .. HasBeeps : Contents[i] = latest[(Len(latest) - HasBeeps) + i]
    BY ContentsAre
  <1>3. /\ Contents' \in Seq(Beep) /\ Len(Contents') = HasBeeps'
        /\ \A i \in 1 .. HasBeeps' : Contents'[i] = latest'[(Len(latest') - HasBeeps') + i]
    <2>1. (RingInv => /\ Contents \in Seq(Beep) /\ Len(Contents) = HasBeeps
                      /\ \A i \in 1 .. HasBeeps :
                            Contents[i] = latest[(Len(latest) - HasBeeps) + i])'
      BY ContentsAre, PTL
    <2> QED BY <2>1
  <1>4. Q!Accept(put.beep)
    <2>1. latest' = IF Len(latest) < Size - 1 THEN Append(latest, put.beep)
                                             ELSE Append(Tail(latest), put.beep)
      BY DEF PutAdvance
    <2>2. Unchecked' \in {Unchecked, FALSE}
      BY <1>1, AfterAdvance DEF Unchecked, TypeInv, RingInv
    <2> QED BY <1>1, <2>1, <2>2 DEF Q!Accept
  <1>5. CASE HasBeeps < Size - 1
    <2>1. HasBeeps' = HasBeeps + 1
      BY <1>5, AdvanceHead
    <2>2. Append(Contents, put.beep) \in Seq(Beep)
          /\ Len(Append(Contents, put.beep)) = HasBeeps + 1
      BY <1>1, <1>2
    <2>3. ASSUME NEW i \in 1 .. HasBeeps + 1
          PROVE  Contents'[i] = Append(Contents, put.beep)[i]
      <3>1. Contents'[i] = latest'[(Len(latest') - HasBeeps') + i]
        BY <1>3, <2>1
      <3>2. CASE i = HasBeeps + 1
        <4>1. (Len(latest') - HasBeeps') + i = Len(latest')
          BY <1>1, <2>1, <3>2, Remembers
        <4> QED BY <1>1, <1>2, <3>1, <3>2, <4>1, Remembers
      <3>3. CASE i \in 1 .. HasBeeps
        <4>1. Append(Contents, put.beep)[i] = latest[(Len(latest) - HasBeeps) + i]
          BY <1>1, <1>2, <3>3
        <4>2. CASE Len(latest) < Size - 1
          <5>1. /\ (Len(latest') - HasBeeps') + i = (Len(latest) - HasBeeps) + i
                /\ (Len(latest) - HasBeeps) + i \in 1 .. Len(latest)
            BY <1>1, <2>1, <3>3, <4>2, Remembers
          <5> QED BY <3>1, <4>1, <4>2, <5>1, Remembers
        <4>3. CASE Len(latest) = Size - 1
          <5>1. /\ ((Len(latest') - HasBeeps') + i) + 1 = (Len(latest) - HasBeeps) + i
                /\ (Len(latest') - HasBeeps') + i \in 1 .. Len(latest) - 1
            <6>1. Len(latest') = Len(latest)
              BY <4>3, Remembers
            <6> QED BY <1>1, <1>5, <2>1, <3>3, <4>3, <6>1
          <5> QED BY <3>1, <4>1, <4>3, <5>1, Remembers
        <4>4. Len(latest) < Size - 1 \/ Len(latest) = Size - 1
          BY <1>1
        <4> QED BY <4>2, <4>3, <4>4
      <3>4. i = HasBeeps + 1 \/ i \in 1 .. HasBeeps
        BY <1>1
      <3> QED BY <3>2, <3>3, <3>4
    <2>4. Contents' = Append(Contents, put.beep)
      BY <1>3, <2>1, <2>2, <2>3, SeqEqual
    <2>5. Q!Put(put.beep)
      BY <1>1, <1>2, <1>4, <1>5, <2>4 DEF Q!Put
    <2> QED BY <1>1, <2>5 DEF Q!Next
  <1>6. CASE HasBeeps = Size - 1
    <2>1. HasBeeps' = 0
      BY <1>6, AdvanceHead
    <2>2. Contents' = <<>>
      BY <1>3, <2>1
    <2>3. Unchecked
      BY <1>1, <1>6 DEF RingInv, CheckedRoom
    <2>4. Q!Overrun(put.beep)
      BY <1>2, <1>4, <1>6, <2>2, <2>3 DEF Q!Overrun
    <2> QED BY <1>1, <2>4 DEF Q!Next
  <1> QED
    BY <1>1, <1>5, <1>6

\* The take happens when beep_tail moves.
LEMMA AdvanceIsTake ==
    ASSUME RingInv, RingInv', TakeAdvance
    PROVE  Q!Next
  <1> USE SizeAssumption
  <1>1. /\ HasBeeps \in 0 .. Size - 1
        /\ latest \in Seq(Beep) /\ Len(latest) \in 0 .. Size - 1 /\ HasBeeps <= Len(latest)
        /\ take = "advance" /\ take' = "period" /\ put' = put /\ latest' = latest
        /\ revived' = (revived \/ HasBeeps = 0)
    BY DistanceBound DEF RingInv, TakeAdvance, TypeOK, LatestFit
  <1>2. /\ Contents \in Seq(Beep) /\ Len(Contents) = HasBeeps
        /\ \A i \in 1 .. HasBeeps : Contents[i] = latest[(Len(latest) - HasBeeps) + i]
    BY ContentsAre
  <1>3. /\ Contents' \in Seq(Beep) /\ Len(Contents') = HasBeeps'
        /\ \A i \in 1 .. HasBeeps' : Contents'[i] = latest'[(Len(latest') - HasBeeps') + i]
    <2>1. (RingInv => /\ Contents \in Seq(Beep) /\ Len(Contents) = HasBeeps
                      /\ \A i \in 1 .. HasBeeps :
                            Contents[i] = latest[(Len(latest) - HasBeeps) + i])'
      BY ContentsAre, PTL
    <2> QED BY <2>1
  <1>4. CASE HasBeeps # 0
    <2>1. HasBeeps' = HasBeeps - 1 /\ Contents # <<>>
      BY <1>1, <1>2, <1>4, AdvanceTail
    <2>2. /\ Tail(Contents) \in Seq(Beep) /\ Len(Tail(Contents)) = HasBeeps - 1
          /\ \A i \in 1 .. HasBeeps - 1 : Tail(Contents)[i] = Contents[i + 1]
      BY <1>2, <2>1, HeadTailProperties
    <2>3. ASSUME NEW i \in 1 .. HasBeeps - 1
          PROVE  Contents'[i] = Tail(Contents)[i]
      <3>1. /\ i + 1 \in 1 .. HasBeeps
            /\ (Len(latest) - (HasBeeps - 1)) + i = (Len(latest) - HasBeeps) + (i + 1)
        BY <1>1
      <3>2. Tail(Contents)[i] = latest[(Len(latest) - HasBeeps) + (i + 1)]
        BY <1>2, <2>2, <3>1
      <3>3. Contents'[i] = latest[(Len(latest) - (HasBeeps - 1)) + i]
        BY <1>1, <1>3, <2>1
      <3> QED BY <3>1, <3>2, <3>3
    <2>4. Contents' = Tail(Contents)
      BY <1>3, <2>1, <2>2, <2>3, SeqEqual
    <2>5. Unchecked' = Unchecked
      BY <1>1, <1>4 DEF Unchecked, RingInv, TypeOK
    <2>6. Q!Take
      BY <1>1, <2>1, <2>4, <2>5 DEF Q!Take
    <2> QED BY <2>6 DEF Q!Next
  <1>5. CASE HasBeeps = 0
    <2>1. HasBeeps' = Size - 1 /\ Contents = <<>>
      BY <1>2, <1>5, AdvanceTail
    <2>2. Len(latest) = Size - 1
      BY <1>1, <1>5 DEF RingInv, CheckedBeep
    <2>3. Contents' = latest
      <3>1. ASSUME NEW i \in 1 .. Len(latest) PROVE Contents'[i] = latest[i]
        BY <1>1, <1>3, <2>1, <2>2
      <3> QED BY <1>1, <1>3, <2>1, <2>2, <3>1, SeqEqual
    <2>4. Unchecked' \in {Unchecked, TRUE}
      BY <1>1 DEF Unchecked
    <2>5. Q!TakeAgain
      <3>1. take \in {"write", "advance"} /\ (take' \in {"write", "advance"}) = FALSE
        BY <1>1
      <3>2. latest' = latest
        BY <1>1
      <3> QED BY <2>1, <2>3, <2>4, <3>1, <3>2 DEF Q!TakeAgain
    <2> QED BY <2>5 DEF Q!Next
  <1> QED
    BY <1>4, <1>5

\* Every step of the two threads on the ring is a step of the abstract queue, or none.
LEMMA StepOfQueue == RingInv /\ RingInv' /\ [Next]_vars => [Q!Next]_(Q!vars)
  <1> SUFFICES ASSUME RingInv, RingInv', [Next]_vars
               PROVE  [Q!Next]_(Q!vars)
    OBVIOUS
  <1>1. CASE PutAdvance
    BY <1>1, AdvanceIsPut
  <1>2. CASE TakeAdvance
    BY <1>2, AdvanceIsTake
  <1>3. CASE PutBegin \/ PutFill
    <2>1. /\ beep_head' = beep_head /\ beep_tail' = beep_tail /\ take' = take
          /\ latest' = latest /\ revived' = revived
          /\ put.at # "idle" /\ put'.at # "idle" /\ put'.checked = put.checked
      BY <1>3 DEF PutBegin, PutFill, RingInv, TypeOK
    <2>2. /\ Contents \in Seq(Beep) /\ Len(Contents) = HasBeeps
          /\ \A i \in 1 .. HasBeeps : Contents[i] = latest[(Len(latest) - HasBeeps) + i]
      BY ContentsAre
    <2>3. /\ Contents' \in Seq(Beep) /\ Len(Contents') = HasBeeps'
          /\ \A i \in 1 .. HasBeeps' :
                Contents'[i] = latest'[(Len(latest') - HasBeeps') + i]
      <3>1. (RingInv => /\ Contents \in Seq(Beep) /\ Len(Contents) = HasBeeps
                        /\ \A i \in 1 .. HasBeeps :
                              Contents[i] = latest[(Len(latest) - HasBeeps) + i])'
        BY ContentsAre, PTL
      <3> QED BY <3>1
    <2>4. HasBeeps' = HasBeeps
      BY <2>1 DEF HasBeeps
    <2>5. Contents' = Contents
      <3>1. ASSUME NEW i \in 1 .. HasBeeps PROVE Contents'[i] = Contents[i]
        BY <2>1, <2>2, <2>3, <2>4
      <3> QED BY <2>2, <2>3, <2>4, <3>1, SeqEqual
    <2> QED BY <2>1, <2>5 DEF Q!vars, Unchecked
  <1>4. ASSUME NEW b \in Beep, PutCheck(b) PROVE [Q!Next]_(Q!vars)
    <2>1. Contents' = Contents /\ latest' = latest /\ take' = take
      BY <1>4, QuietStep DEF PutCheck
    <2>2. Unchecked = FALSE /\ Unchecked' = FALSE
      BY <1>4 DEF PutCheck, Unchecked
    <2> QED BY <2>1, <2>2 DEF Q!vars
  <1>5. ASSUME NEW b \in Beep, NEW n \in SweepLengths, SweepStart(b, n)
        PROVE  [Q!Next]_(Q!vars)
    <2>1. Contents' = Contents /\ latest' = latest /\ take' = take
      BY <1>5, QuietStep DEF SweepStart
    <2>2. Unchecked' = TRUE
      BY <1>5 DEF SweepStart, Unchecked
    <2> QED BY <2>1, <2>2 DEF Q!Next, Q!BeginSweep
  <1>6. CASE TakeStart
    <2>1. /\ Contents' = Contents /\ latest' = latest /\ put' = put /\ revived' = revived
          /\ HasBeeps # 0 /\ take = "idle" /\ take' = "write"
      BY <1>6, QuietStep DEF TakeStart
    <2>2. Contents # <<>>
      BY <2>1, ContentsAre
    <2> QED BY <2>1, <2>2 DEF Q!Next, Q!BeginTake, Unchecked
  <1>7. CASE TakeNothing \/ TakeWrite \/ TakePeriod \/ TakeDelay \/ TakeLast \/ TakeReturn
    <2>1. /\ Contents' = Contents /\ latest' = latest /\ put' = put /\ revived' = revived
          /\ (take \in {"write", "advance"}) = (take' \in {"write", "advance"})
      BY <1>7, QuietStep DEF TakeNothing, TakeWrite, TakePeriod, TakeDelay, TakeLast,
                             TakeReturn
    <2> QED BY <2>1 DEF Q!vars, Unchecked
  <1>8. CASE PutDrop \/ UNCHANGED vars
    <2>1. Contents' = Contents /\ UNCHANGED <<latest, put, revived, take>>
      BY <1>8, QuietStep DEF PutDrop, vars, ring
    <2> QED BY <2>1 DEF Q!vars, Unchecked
  <1> QED
    BY <1>1, <1>2, <1>3, <1>4, <1>5, <1>6, <1>7, <1>8 DEF Next, Produce, Consume

\* The ring implements the abstract queue, for every size and every succession of
\* messages and sweeps: two threads that share it without a lock do to its contents only
\* what BeepQueue has one thread do; beeps are lost only where it says so.
THEOREM ImplementsQueue == Spec => QueueSpec
  <1>1. Init => Q!Init
    <2> SUFFICES ASSUME Init PROVE Q!Init
      OBVIOUS
    <2>1. HasBeeps = 0 /\ latest = <<>> /\ take = "idle" /\ put.at = "idle"
      BY DEF Init, HasBeeps, Idle
    <2>2. Contents = <<>>
      BY <2>1, InitInv, ContentsAre
    <2> QED BY <2>1, <2>2 DEF Q!Init, Unchecked
  <1> QED
    BY InitInv, StepInv, StepOfQueue, <1>1, PTL DEF Spec, QueueSpec, Q!Spec
=============================================================================
