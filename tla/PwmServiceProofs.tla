------------------------- MODULE PwmServiceProofs -------------------------
(* The queue and the registry together: the service uses each of them only as  *)
(* its module says, and so has what is proved of them.                         *)
EXTENDS PwmService, TLAPS

RP == INSTANCE PwmRingProofs

SP == INSTANCE SourcesProofs WITH
        Ctx <- {Src}, Client <- {Main, Udp}, Kind <- [c \in {Src} |-> {"W"}],
        Prio <- [c \in {Src} |-> 0], Paced <- {Src},
        Fd <- [c \in {Src} |-> DeviceFd], FdNum <- {DeviceFd},
        Calls <- {<<Udp, "add", Src>>}

-----------------------------------------------------------------------------
(* The queue *)

LEMMA PutsInQueue ==
    ASSUME Message \/ Put
    PROVE  RP!Produce
  <1>1. CASE Message
    <2>1. R!PutDrop \/ (\E b \in Beep : R!PutCheck(b))
              \/ (\E b \in Beep, n \in SweepLengths : R!SweepStart(b, n))
      BY <1>1 DEF Message
    <2>2. R!PutDrop => RP!PutDrop
      BY DEF R!PutDrop, RP!PutDrop, R!vars, RP!vars
    <2>3. ASSUME NEW b \in Beep, R!PutCheck(b) PROVE RP!PutCheck(b)
      BY <2>3 DEF R!PutCheck, RP!PutCheck, R!HasBeeps, RP!HasBeeps, R!ring, RP!ring
    <2>4. ASSUME NEW b \in Beep, NEW n \in SweepLengths, R!SweepStart(b, n)
          PROVE  RP!SweepStart(b, n)
      BY <2>4 DEF R!SweepStart, RP!SweepStart, R!ring, RP!ring
    <2> QED BY <2>1, <2>2, <2>3, <2>4 DEF RP!Produce
  <1>2. CASE Put
    <2>1. R!PutBegin \/ R!PutFill \/ R!PutAdvance
      BY <1>2 DEF Put
    <2>2. /\ R!PutBegin => RP!PutBegin
          /\ R!PutFill => RP!PutFill
      BY DEF R!PutBegin, RP!PutBegin, R!PutFill, RP!PutFill
    <2>3. R!PutAdvance => RP!PutAdvance
      BY DEF R!PutAdvance, RP!PutAdvance, R!Inc, RP!Inc, R!Idle, RP!Idle, R!HasBeeps, RP!HasBeeps
    <2> QED BY <2>1, <2>2, <2>3 DEF RP!Produce
  <1> QED BY <1>1, <1>2

LEMMA TakesFromQueue ==
    ASSUME Take \/ TakeReturn
    PROVE  RP!Consume
  <1>1. \/ R!TakeNothing \/ R!TakeStart \/ R!TakeWrite \/ R!TakeAdvance
        \/ R!TakePeriod \/ R!TakeDelay \/ R!TakeLast \/ R!TakeReturn
    BY DEF Take, TakeReturn
  <1>2. /\ R!TakeNothing => RP!TakeNothing
        /\ R!TakeStart => RP!TakeStart
        /\ R!TakePeriod => RP!TakePeriod
        /\ R!TakeLast => RP!TakeLast
    BY DEF R!TakeNothing, RP!TakeNothing, R!TakeStart, RP!TakeStart, R!TakePeriod,
           RP!TakePeriod, R!TakeLast, RP!TakeLast, R!HasBeeps, RP!HasBeeps, R!ring, RP!ring
  <1>3. R!TakeAdvance => RP!TakeAdvance
    BY DEF R!TakeAdvance, RP!TakeAdvance, R!Inc, RP!Inc, R!HasBeeps, RP!HasBeeps
  <1>4. /\ R!TakeWrite => RP!TakeWrite
        /\ R!TakeDelay => RP!TakeDelay
        /\ R!TakeReturn => RP!TakeReturn
    BY DEF R!TakeWrite, RP!TakeWrite, R!TakeDelay, RP!TakeDelay, R!TakeReturn,
           RP!TakeReturn, R!ring, RP!ring
  <1> QED BY <1>1, <1>2, <1>3, <1>4 DEF RP!Consume

\* Every step of the service is a step of the queue or leaves it alone.
LEMMA QueueStep == [Next]_vars => [RP!Next]_(RP!vars)
  <1> SUFFICES ASSUME [Next]_vars PROVE [RP!Next]_(RP!vars)
    OBVIOUS
  <1>1. CASE Message \/ Put
    BY <1>1, PutsInQueue DEF RP!Next
  <1>2. CASE Take \/ TakeReturn
    BY <1>2, TakesFromQueue DEF RP!Next
  <1>3. CASE AddSource \/ HandlerEnds \/ Registry \/ UNCHANGED vars
    <2>1. UNCHANGED ringVars
      BY <1>3 DEF AddSource, HandlerEnds, Registry, vars
    <2> QED BY <2>1 DEF ringVars, RP!vars
  <1> QED BY <1>1, <1>2, <1>3 DEF Next

LEMMA QueueInit == Init => RP!Init
  BY DEF Init, R!Init, RP!Init, R!Slot, RP!Slot, R!Idle, RP!Idle

-----------------------------------------------------------------------------
(* The registry *)

LEMMA ClientsInRegistry ==
    ASSUME AddSource \/ HandlerEnds
    PROVE  SP!Next
  <1>1. CASE AddSource
    <2>1. S!Call(Udp, "add", Src)
      BY <1>1 DEF AddSource
    <2>2. SP!Call(Udp, "add", Src)
      BY <2>1 DEF S!Call, SP!Call, S!StartWalk, SP!StartWalk, S!Goto, SP!Goto,
                  S!First, SP!First, S!links, SP!links
    <2> DEFINE k == <<Udp, "add", Src>>
    <2>3. k[1] = Udp /\ k[2] = "add" /\ k[3] = Src
      OBVIOUS
    <2>4. SP!Call(k[1], k[2], k[3])
      BY <2>2, <2>3
    <2> QED BY <2>4 DEF SP!Next
  <1>2. CASE HandlerEnds
    <2>1. S!Return(Udp)
      BY <1>2 DEF HandlerEnds
    <2>2. SP!Return(Udp)
      BY <2>1 DEF S!Return, SP!Return, S!Goto, SP!Goto, S!links, SP!links
    <2> QED BY <2>2 DEF SP!Next, SP!ClientStep
  <1> QED BY <1>1, <1>2

LEMMA InitOfRegistry == Init => SP!Init
  BY DEF Init, S!Init, SP!Init, S!List, SP!List, S!Node, SP!Node, S!Thread, SP!Thread

\* The operators of the list are those of Sources in either instance.
LEMMA ListHelpers ==
    ASSUME NEW t, NEW c, NEW n, NEW label
    PROVE  /\ S!StepOn(t) => SP!StepOn(t)
           /\ S!EndWalk(t, label) => SP!EndWalk(t, label)
           /\ S!NextList(t, c, label) => SP!NextList(t, c, label)
           /\ S!LinkBefore(t, c, n) => SP!LinkBefore(t, c, n)
           /\ S!Unlink(t, c) => SP!Unlink(t, c)
           /\ S!Ahead(t) = SP!Ahead(t)
  <1>1. S!StepOn(t) => SP!StepOn(t)
    BY DEF S!StepOn, SP!StepOn, S!Ahead, SP!Ahead
  <1>2. S!EndWalk(t, label) => SP!EndWalk(t, label)
    BY DEF S!EndWalk, SP!EndWalk, S!StartWalk, SP!StartWalk, S!Goto, SP!Goto, S!List, SP!List
  <1>3. S!NextList(t, c, label) => SP!NextList(t, c, label)
    BY <1>2 DEF S!NextList, SP!NextList, S!StartWalk, SP!StartWalk, S!Second, SP!Second
  <1>4. S!LinkBefore(t, c, n) => SP!LinkBefore(t, c, n)
    BY DEF S!LinkBefore, SP!LinkBefore
  <1>5. S!Unlink(t, c) => SP!Unlink(t, c)
    BY DEF S!Unlink, SP!Unlink
  <1>6. S!Ahead(t) = SP!Ahead(t)
    BY DEF S!Ahead, SP!Ahead
  <1> QED BY <1>1, <1>2, <1>3, <1>4, <1>5, <1>6

\* What the rest of source.c does for the client.
LEMMA ClientsGoOn ==
    ASSUME S!Exists(Udp) \/ S!Lock(Udp) \/ S!Insert(Udp) \/ S!Unlock(Udp)
    PROVE  SP!ClientStep(Udp) \/ SP!Lock(Udp)
  <1>1. S!Exists(Udp) => SP!Exists(Udp)
    BY DEF S!Exists, SP!Exists, S!ExistsReturns, SP!ExistsReturns, S!EndWalk, SP!EndWalk,
           S!StartWalk, SP!StartWalk, S!StepOn, SP!StepOn, S!Goto, SP!Goto, S!Ahead,
           SP!Ahead, S!Lists, SP!Lists, S!First, SP!First, S!Second, SP!Second, S!List,
           SP!List, S!links, SP!links
  <1>2. S!Lock(Udp) => SP!Lock(Udp)
    BY DEF S!Lock, SP!Lock, S!StartWalk, SP!StartWalk, S!Goto, SP!Goto, S!First, SP!First,
           S!links, SP!links
  <1>3. S!Insert(Udp) => SP!Insert(Udp)
    BY ListHelpers DEF S!Insert, SP!Insert, S!links, SP!links
  <1>4. S!Unlock(Udp) => SP!Unlock(Udp)
    BY DEF S!Unlock, SP!Unlock, S!Goto, SP!Goto, S!Second, SP!Second, S!links, SP!links
  <1> QED BY <1>1, <1>2, <1>3, <1>4 DEF SP!ClientStep

\* What it does for the loops.
LEMMA LoopsGoOn ==
    ASSUME NEW l \in S!List,
           \/ S!CheckHalt(l) \/ S!LockScan(l) \/ S!Scan(l) \/ S!UnlockScan(l)
           \/ S!SelectFails(l) \/ S!SelectReturns(l)
           \/ S!LockDispatch(l) \/ S!Dispatch(l) \/ S!UnlockDispatch(l)
           \/ S!Remove(l) \/ S!Reset(l) \/ S!HandlerReturns(l)
    PROVE  SP!LoopStep(l) \/ SP!LockStep(l)
  <1>1. S!CheckHalt(l) => SP!CheckHalt(l)
    BY DEF S!CheckHalt, SP!CheckHalt, S!Goto, SP!Goto, S!links, SP!links
  <1>2. S!LockScan(l) => SP!LockScan(l)
    BY DEF S!LockScan, SP!LockScan, S!StartWalk, SP!StartWalk, S!Goto, SP!Goto, S!links,
           SP!links
  <1>3. S!Scan(l) => SP!Scan(l)
    BY DEF S!Scan, SP!Scan, S!StepOn, SP!StepOn, S!Ahead, SP!Ahead, S!links, SP!links
  <1>4. S!UnlockScan(l) => SP!UnlockScan(l)
    BY DEF S!UnlockScan, SP!UnlockScan, S!EndWalk, SP!EndWalk, S!StartWalk, SP!StartWalk,
           S!Goto, SP!Goto, S!Ahead, SP!Ahead, S!List, SP!List, S!links, SP!links
  <1>5. S!SelectFails(l) => SP!SelectFails(l)
    BY DEF S!SelectFails, SP!SelectFails, S!Goto, SP!Goto, S!links, SP!links
  <1>6. S!SelectReturns(l) => SP!SelectReturns(l)
    BY DEF S!SelectReturns, SP!SelectReturns, S!Goto, SP!Goto, S!links, SP!links
  <1>7. S!LockDispatch(l) => SP!LockDispatch(l)
    BY DEF S!LockDispatch, SP!LockDispatch, S!MoveTo, SP!MoveTo, S!Goto, SP!Goto, S!links,
           SP!links
  <1>8. S!Dispatch(l) => SP!Dispatch(l)
    BY DEF S!Dispatch, SP!Dispatch, S!HasTimer, SP!HasTimer, S!Advance, SP!Advance,
           S!MoveTo, SP!MoveTo, S!Goto, SP!Goto, S!links, SP!links
  <1>9. S!UnlockDispatch(l) => SP!UnlockDispatch(l)
    BY DEF S!UnlockDispatch, SP!UnlockDispatch, S!Goto, SP!Goto, S!links, SP!links
  <1>10. S!Remove(l) => SP!Remove(l)
    BY ListHelpers DEF S!Remove, SP!Remove, S!List, SP!List, S!links, SP!links
  <1>11. S!Reset(l) => SP!Reset(l)
    BY DEF S!Reset, SP!Reset, S!Advance, SP!Advance, S!MoveTo, SP!MoveTo, S!Goto, SP!Goto,
           S!links, SP!links
  <1>12. S!HandlerReturns(l) => SP!HandlerReturns(l)
    BY DEF S!HandlerReturns, SP!HandlerReturns, S!StartWalk, SP!StartWalk, S!Goto, SP!Goto,
           S!First, SP!First, S!links, SP!links
  <1> QED BY <1>1, <1>2, <1>3, <1>4, <1>5, <1>6, <1>7, <1>8, <1>9, <1>10, <1>11, <1>12 DEF
             SP!LoopStep, SP!LockStep

\* Every step of the service is a step of the registry or leaves it alone.
LEMMA RegistryStep == [Next]_vars => [SP!Next]_(SP!vars)
  <1> SUFFICES ASSUME [Next]_vars PROVE [SP!Next]_(SP!vars)
    OBVIOUS
  <1>1. CASE AddSource \/ HandlerEnds
    BY <1>1, ClientsInRegistry
  <1>2. CASE TakeReturn
    <2>1. S!HandlerReturns("W") /\ "W" \in S!List /\ "W" \in SP!List
      BY <1>2 DEF TakeReturn, S!List, SP!List
    <2>2. SP!LoopStep("W") \/ SP!LockStep("W")
      BY <2>1, LoopsGoOn
    <2> QED BY <2>1, <2>2 DEF SP!Next
  <1>3. CASE Registry
    <2>1. CASE S!Exists(Udp) \/ S!Lock(Udp) \/ S!Insert(Udp) \/ S!Unlock(Udp)
      BY <2>1, ClientsGoOn DEF SP!Next
    <2>2. CASE S!SetHalt
      BY <2>2 DEF S!SetHalt, SP!SetHalt, S!links, SP!links, SP!Next
    <2>3. ASSUME NEW l \in S!List,
                 \/ S!CheckHalt(l) \/ S!LockScan(l) \/ S!Scan(l) \/ S!UnlockScan(l)
                 \/ S!SelectFails(l) \/ S!SelectReturns(l)
                 \/ S!LockDispatch(l) \/ S!Dispatch(l) \/ S!UnlockDispatch(l)
                 \/ S!Remove(l) \/ S!Reset(l)
          PROVE  SP!Next
      <3>1. SP!LoopStep(l) \/ SP!LockStep(l)
        BY <2>3, LoopsGoOn
      <3>2. l \in SP!List
        BY DEF S!List, SP!List
      <3> QED BY <3>1, <3>2 DEF SP!Next
    <2> QED BY <1>3, <2>1, <2>2, <2>3 DEF Registry
  <1>4. CASE Message \/ Put \/ Take \/ UNCHANGED vars
    <2>1. UNCHANGED sourceVars
      BY <1>4 DEF Message, Put, Take, vars
    <2> QED BY <2>1 DEF sourceVars, SP!vars
  <1> QED BY <1>1, <1>2, <1>3, <1>4 DEF Next

-----------------------------------------------------------------------------
(* The service keeps what its parts promise *)

\* The service uses the queue as one producer and one consumer do: the OSC thread and the
\* writer loop (PWMPutBeep, PWMPutSweep, dev_pwm_beep_write).
THEOREM UsesTheQueue == Spec => RP!Spec
  BY QueueInit, QueueStep, PTL DEF Spec, RP!Spec

\* It uses the registry as a client and a loop do: pwm_beep_handler and pwm_sweep_handler
\* call sios_add_source_ctx, the writer loop calls dev_pwm_beep_write.
THEOREM UsesTheRegistry == Spec => SP!Spec
  BY InitOfRegistry, RegistryStep, PTL DEF Spec, SP!Spec

-----------------------------------------------------------------------------
(* What follows for the service *)

\* The two modules' assumptions.
LEMMA PartsAssumptions ==
    /\ RP!SizeAssumption /\ RP!EmptyAssumption /\ RP!SweepAssumption
    /\ SP!CtxAssumption /\ SP!ThreadAssumption /\ SP!TimerAssumption
    /\ SP!OnePollBit /\ SP!OneAdder
  <1>1. RP!SizeAssumption /\ RP!EmptyAssumption /\ RP!SweepAssumption
    BY PwmServiceAssumption DEF RP!SizeAssumption, RP!EmptyAssumption, RP!SweepAssumption
  <1>2. SP!CtxAssumption /\ SP!TimerAssumption
    BY PwmServiceAssumption DEF SP!CtxAssumption, SP!TimerAssumption
  <1>3. SP!ThreadAssumption
    BY PwmServiceAssumption DEF SP!ThreadAssumption, SP!Thread, SP!List
  <1>4. SP!OnePollBit /\ SP!OneAdder
    BY DEF SP!OnePollBit, SP!OneAdder
  <1> QED BY <1>1, <1>2, <1>3, <1>4

LEMMA RegistryInv == Spec => [](SP!SafeInv /\ SP!WalkInv)
  <1>1. SP!Spec => [](SP!SafeInv /\ SP!WalkInv)
    BY PartsAssumptions, SP!ListsInv
  <1> QED BY <1>1, UsesTheRegistry, PTL

\* The handler of the writer loop is left only when the queue's consumer is done.
ServiceInv ==
    /\ osc \in {"idle", "put", "add", "adding"}
    /\ take # "idle" => InHandler

LEMMA ServiceInit == Init => ServiceInv
  BY DEF Init, R!Init, ServiceInv

\* A call moves the client, and a loop that is in a handler stays there.
LEMMA HandlerStays ==
    ASSUME SP!TypeOK, pc["W"] = "handler", AddSource \/ HandlerEnds \/ Registry
    PROVE  pc'["W"] = "handler"
  <1>1. /\ Udp # "W" /\ "W" # "R"
        /\ "W" \in DOMAIN pc
    BY PwmServiceAssumption DEF SP!TypeOK, SP!Thread, SP!List
  <1>2. ASSUME NEW t \in {Udp, "R"}, NEW label, pc' = pc \/ pc' = [pc EXCEPT ![t] = label]
        PROVE  pc'["W"] = "handler"
    BY <1>1, <1>2
  <1>3. CASE AddSource \/ HandlerEnds
    BY <1>2, <1>3 DEF AddSource, HandlerEnds, S!Call, S!Return, S!Goto
  <1>4. CASE S!Exists(Udp)
    BY <1>2, <1>4 DEF S!Exists, S!ExistsReturns, S!EndWalk, S!StepOn, S!Goto
  <1>5. CASE S!Lock(Udp) \/ S!Unlock(Udp)
    BY <1>2, <1>5 DEF S!Lock, S!Unlock, S!Goto
  <1>6. CASE S!Insert(Udp)
    BY <1>2, <1>6 DEF S!Insert, S!NextList, S!EndWalk, S!StepOn, S!Goto
  <1>7. CASE S!SetHalt
    BY <1>7 DEF S!SetHalt
  <1>8. ASSUME NEW l \in S!List,
               \/ S!CheckHalt(l) \/ S!LockScan(l) \/ S!Scan(l) \/ S!UnlockScan(l)
               \/ S!SelectFails(l) \/ S!SelectReturns(l)
               \/ S!LockDispatch(l) \/ S!Dispatch(l) \/ S!UnlockDispatch(l)
               \/ S!Remove(l) \/ S!Reset(l)
        PROVE  pc'["W"] = "handler"
    <2>1. l = "R"
      BY <1>8 DEF S!List, S!CheckHalt, S!LockScan, S!Scan, S!UnlockScan, S!SelectFails,
                  S!SelectReturns, S!LockDispatch, S!Dispatch, S!UnlockDispatch, S!Remove,
                  S!Reset
    <2>2. pc' = pc \/ \E label : pc' = [pc EXCEPT !["R"] = label]
      BY <1>8, <2>1 DEF S!CheckHalt, S!LockScan, S!Scan, S!UnlockScan, S!SelectFails,
                  S!SelectReturns, S!LockDispatch, S!Dispatch, S!UnlockDispatch, S!Remove,
                  S!Reset, S!Advance, S!NextList, S!EndWalk, S!StepOn, S!Goto
    <2> QED BY <1>2, <2>2
  <1> QED BY <1>3, <1>4, <1>5, <1>6, <1>7, <1>8 DEF Registry

LEMMA ServiceStep == SP!TypeOK /\ ServiceInv /\ [Next]_vars => ServiceInv'
  <1> SUFFICES ASSUME SP!TypeOK, ServiceInv, [Next]_vars PROVE ServiceInv'
    OBVIOUS
  <1>1. CASE Message \/ Put
    <2>1. take' = take /\ pc' = pc
      BY <1>1 DEF Message, Put, sourceVars, R!PutDrop, R!PutCheck, R!SweepStart, R!PutBegin,
                  R!PutFill, R!PutAdvance, R!vars
    <2>2. osc' \in {"idle", "put", "add", "adding"}
      BY <1>1 DEF Message, Put
    <2> QED BY <2>1, <2>2 DEF ServiceInv, InHandler
  <1>2. CASE Take
    <2>1. pc' = pc /\ osc' = osc /\ InHandler
      BY <1>2 DEF Take, sourceVars
    <2> QED BY <2>1 DEF ServiceInv, InHandler
  <1>3. CASE TakeReturn
    BY <1>3 DEF TakeReturn, R!TakeReturn, ServiceInv
  <1>4. CASE AddSource \/ HandlerEnds \/ Registry
    <2>1. take' = take /\ osc' \in {osc, "adding", "idle"}
      BY <1>4 DEF AddSource, HandlerEnds, Registry, ringVars
    <2>2. pc["W"] = "handler" => pc'["W"] = "handler"
      BY <1>4, HandlerStays
    <2> QED BY <2>1, <2>2 DEF ServiceInv, InHandler
  <1>5. CASE UNCHANGED vars
    BY <1>5 DEF vars, ringVars, sourceVars, ServiceInv, InHandler
  <1> QED BY <1>1, <1>2, <1>3, <1>4, <1>5 DEF Next

\* The queue and the registry keep their types when they are used together.
THEOREM PartsKeepTheirTypes == Spec => []TypeOK
  <1>1. RP!Spec => []RP!TypeOK
    BY PartsAssumptions, RP!IndicesStayInside
  <1>2. SP!TypeOK /\ RP!TypeOK /\ ServiceInv => TypeOK
    <2>1. RP!TypeOK => R!TypeOK
      BY DEF RP!TypeOK, R!TypeOK, RP!Slot, R!Slot
    <2>2. SP!TypeOK => S!TypeOK
      BY DEF SP!TypeOK, S!TypeOK, SP!Node, S!Node, SP!Thread, S!Thread, SP!List, S!List,
             SP!Labels, S!Labels
    <2> QED BY <2>1, <2>2 DEF TypeOK, ServiceInv
  <1>3. SP!SafeInv => SP!TypeOK
    BY DEF SP!SafeInv
  <1> QED BY <1>1, <1>2, <1>3, RegistryInv, UsesTheQueue, ServiceInit, ServiceStep, PTL
             DEF Spec

\* A beep is taken only by the writer loop, in the handler of a source that is registered and
\* with the list locked (TakenByRegisteredSource): the queue, which has no lock of its own,
\* has one consumer, whatever messages, registrations and removals interleave
\* (dev_pwm_beep_write under call_context_handler).
THEOREM TheLoopTakes == Spec => []TakenByRegisteredSource
  <1>1. SP!SafeInv /\ SP!WalkInv /\ ServiceInv => TakenByRegisteredSource
    <2> SUFFICES ASSUME SP!SafeInv, SP!WalkInv, ServiceInv, take # "idle"
                 PROVE  InHandler /\ owner["W"] = "W" /\ S!Linked("W", Src)
      BY DEF TakenByRegisteredSource
    <2>1. pc["W"] = "handler" /\ InHandler
      BY DEF ServiceInv, InHandler
    <2>2. "W" \in SP!List /\ "W" \in SP!Thread
      BY DEF SP!List, SP!Thread
    <2>3. owner["W"] = "W"
      <3>1. SP!Inside("W", "W")
        BY <2>1, <2>2 DEF SP!Inside
      <3> QED BY <2>2, <3>1 DEF SP!SafeInv, SP!LocksMatchThreads
    <2>4. ctx["W"] = Src
      BY <2>1, <2>2 DEF SP!SafeInv, SP!TypeOK, SP!KindInv, SP!LoopsAtKind, SP!Node
    <2>5. S!Linked("W", Src)
      BY <2>1, <2>2, <2>4, PwmServiceAssumption DEF SP!WalkInv, SP!LoopInv, SP!OnRing, S!Linked
    <2> QED BY <2>1, <2>3, <2>5
  <1>2. SP!SafeInv => SP!TypeOK
    BY DEF SP!SafeInv
  <1> QED BY <1>1, <1>2, RegistryInv, ServiceInit, ServiceStep, PTL DEF Spec

\* The service is the queue BeepQueue describes: what is accepted leaves it in the order
\* it came, as from a queue of Size - 1 places that only sweeps overrun, though the two
\* threads come and go through the registry (pwm_sweep_handler, dev_pwm_beep_write).
THEOREM ServiceIsQueue == Spec => RP!QueueSpec
  <1>1. RP!Spec => RP!QueueSpec
    BY PartsAssumptions, RP!ImplementsQueue
  <1> QED BY <1>1, UsesTheQueue

\* The source context comes and goes as in the registry SourceRegistry promises: the
\* call that finds it registered is right, the one that adds it does so at one instant, never
\* while its write handler runs, and that handler is called only while it is registered
\* (pwm_beep_handler, pwm_sweep_handler and the_main_writer_loop).
THEOREM ServiceIsRegistered == Spec => SP!RegistrySpec
  <1>1. SP!Spec => SP!RegistrySpec
    BY PartsAssumptions, SP!RegistryIsAtomic
  <1> QED BY <1>1, UsesTheRegistry
=============================================================================
