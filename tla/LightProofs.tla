----------------------------- MODULE LightProofs -----------------------------
(* The lights of light.c, for transitions of any length, for every order of    *)
(* the two threads' stores to the struct they share: the types of its fields,  *)
(* that a transition stays inside its colours, that a light is paced by its    *)
(* own delay, and that no message is forgotten, but for calls and messages     *)
(* that have met.                                                              *)
EXTENDS Light, TLAPS

-----------------------------------------------------------------------------
(* The types *)

\* Where the two threads may be, and what delays the loop may hold.
OscPlaces == {"idle", "rgb", "state", "color", "steps", "step", "direction", "delay",
              "flash", "check", "insert"}
LoopPlaces == {"wait", "light", "readColor", "readStep", "readEnd", "avance", "flip", "turn",
               "load", "store", "write", "dropLight", "flash", "on", "off", "flashReturn",
               "dropFlash"}
Kinds == {"SINGLE", "BLINK", "TRANSITION"}
Delays == {"zero", "min", "colors", "trans"}

\* The records of the two threads.
OscRecord == [at : OscPlaces, msg : Message]
LoopRecord == [at : LoopPlaces, kind : Kinds, delay : Delays, index : Int, done : BOOLEAN]

\* The fields of light_dev, and what is not in it.
Fields ==
    /\ state \in Kinds
    /\ steps \in 0 .. MaxSteps /\ step \in Int /\ direction \in {-1, 0, 1}
    /\ transDelay \in {"zero", "trans"} /\ colorDelay \in {"zero", "min", "colors"}
    /\ flashState \in {"FLASH", "NO_FLASH"}
    /\ registered \subseteq Source
    /\ lit \in BOOLEAN /\ owed \in BOOLEAN /\ raced \in BOOLEAN /\ torn \in BOOLEAN
    /\ lost \subseteq Source

\* Which messages go where.
Places ==
    /\ osc.at \in {"rgb", "steps", "step", "direction", "delay"}
           => osc.msg.kind \in {"BLINK", "TRANSITION"}
    /\ osc.at = "state" => osc.msg.kind \in Kinds
    /\ osc.at = "color" => osc.msg.kind = "SINGLE"
    /\ osc.at = "flash" => osc.msg.kind = "FLASH"

\* The direction that is turned round is one that was loaded.
TypeInv ==
    /\ Fields /\ osc \in OscRecord /\ loop \in LoopRecord
    /\ Places
    /\ loop.at = "turn" => loop.index \in {-1, 0, 1}

\* A message for the flash is the one of kind FLASH, and a transition has steps.
LEMMA MessageFields ==
    ASSUME NEW m \in Message
    PROVE  /\ m.kind \in Kinds \cup {"FLASH"}
           /\ m.maxd \in 0 .. MaxSteps /\ m.src \in Source
           /\ m.kind \in {"BLINK", "TRANSITION"} => m.maxd \in 1 .. MaxSteps
           /\ m.kind = "FLASH" <=> m.src = "flash"
  <1>1. CASE m = Rgb \/ m = Flash
    BY <1>1, MaxStepsAssumption DEF Rgb, Flash, Source, Kinds
  <1>2. ASSUME NEW f \in Fades, m = Fade(f)
        PROVE  /\ m.kind \in {"BLINK", "TRANSITION"} /\ m.maxd \in 1 .. MaxSteps
               /\ m.src = "light"
    <2>1. f[1] \in {"BLINK", "TRANSITION"} /\ f[2] \in 1 .. MaxSteps
      BY FadesAssumption
    <2> QED BY <1>2, <2>1 DEF Fade
  <1>3. CASE \E f \in Fades : m = Fade(f)
    BY <1>2, <1>3, MaxStepsAssumption DEF Source, Kinds
  <1> QED BY <1>1, <1>3 DEF Message

\* TypeInv holds at the start.
LEMMA TypeInit == Init => TypeInv
  <1> SUFFICES ASSUME Init PROVE TypeInv
    OBVIOUS
  <1>1. Rgb \in Message
    BY DEF Message
  <1>2. osc \in OscRecord /\ osc.at = "idle"
    BY <1>1 DEF Init, Idle, OscRecord, OscPlaces
  <1>3. loop \in LoopRecord /\ loop.at = "wait"
    BY DEF Init, Waiting, LoopRecord, LoopPlaces, Kinds, Delays
  <1>4. Fields
    <2>1. 0 \in 0 .. MaxSteps /\ 0 \in Int
      BY MaxStepsAssumption
    <2> QED BY <2>1 DEF Init, Fields, Kinds
  <1> QED BY <1>2, <1>3, <1>4 DEF TypeInv, Places

\* The loop is at `at', and the OSC thread where it was; the other way round.
LoopTo(at) == loop' \in LoopRecord /\ loop'.at = at /\ UNCHANGED osc
OscTo(at) == osc' \in OscRecord /\ osc'.at = at /\ osc'.msg = osc.msg /\ UNCHANGED loop

\* The handler of the light holds on to what it shows, and to its delay.
Holds == loop'.kind = loop.kind /\ loop'.delay = loop.delay

\* What a step of the loop, or of the OSC thread, does to where it is.
LEMMA LoopGoes ==
    ASSUME loop \in LoopRecord, NEW from \in LoopPlaces, NEW to \in LoopPlaces,
           Loop(from, to)
    PROVE  /\ loop' \in LoopRecord /\ loop'.at = to /\ loop.at = from
           /\ loop'.index = loop.index /\ Holds
  BY DEF Loop, LoopRecord, Holds

LEMMA OscGoes ==
    ASSUME osc \in OscRecord, NEW from \in OscPlaces, NEW to \in OscPlaces, Osc(from, to)
    PROVE  osc' \in OscRecord /\ osc'.at = to /\ osc'.msg = osc.msg /\ osc.at = from
  BY DEF Osc, OscRecord

LEMMA WaitingRecord == Waiting \in LoopRecord /\ Waiting.at = "wait"
  BY DEF Waiting, LoopRecord, LoopPlaces, Kinds, Delays

\* Where every step of the light's handler leads to, and what it takes along.
LEMMA LightSteps ==
    ASSUME TypeInv
    PROVE  /\ LightState => /\ loop.at = "light"
                            /\ LoopTo(IF state = "SINGLE" THEN "readColor" ELSE "readStep")
                            /\ loop'.kind = state
           /\ ReadColor => /\ loop.at = "readColor" /\ LoopTo("write")
                           /\ loop'.kind = loop.kind /\ loop'.delay = colorDelay
           /\ ReadStep => /\ loop.at = "readStep"
                          /\ LoopTo(IF loop.kind = "TRANSITION" THEN "readEnd" ELSE "avance")
                          /\ loop'.kind = loop.kind /\ loop'.delay = transDelay
           /\ ReadEnd => loop.at = "readEnd" /\ LoopTo("avance") /\ Holds
           /\ Avance => /\ loop.at = "avance" /\ Holds
                        /\ LoopTo(IF step >= steps \/ step <= 0 THEN "flip" ELSE "load")
           /\ Flip => loop.at = "flip" /\ LoopTo("turn") /\ loop'.index = direction /\ Holds
           /\ Turn => loop.at = "turn" /\ LoopTo("load") /\ Holds
           /\ LoadStep => loop.at = "load" /\ LoopTo("store") /\ loop'.index = step /\ Holds
           /\ StoreStep => loop.at = "store" /\ LoopTo("write") /\ Holds
           /\ WriteLight => /\ loop.at = "write"
                            /\ LoopTo("wait") \/ LoopTo("dropLight")
           /\ WriteLightFails => loop.at = "write" /\ LoopTo("dropLight")
  <1>1. /\ loop \in LoopRecord /\ loop.at \in LoopPlaces
        /\ state \in Kinds /\ step \in Int /\ steps \in Int /\ direction \in Int
        /\ colorDelay \in Delays /\ transDelay \in Delays
    BY DEF TypeInv, Fields, LoopRecord, Delays
  <1>2. LoopRecord = [at : LoopPlaces, kind : Kinds, delay : Delays, index : Int, done : BOOLEAN]
    BY DEF LoopRecord
  <1>3. \A a \in {"readColor", "readStep", "readEnd", "avance", "flip", "turn", "load", "store",
                  "write", "dropLight"} : a \in LoopPlaces
    BY DEF LoopPlaces
  <1> USE <1>1, <1>2, <1>3 DEF LoopTo, Holds
  <1>4. LightState => /\ loop.at = "light"
                      /\ LoopTo(IF state = "SINGLE" THEN "readColor" ELSE "readStep")
                      /\ loop'.kind = state
    BY DEF LightState
  <1>5. ReadColor => /\ loop.at = "readColor" /\ LoopTo("write")
                     /\ loop'.kind = loop.kind /\ loop'.delay = colorDelay
    BY DEF ReadColor
  <1>6. ReadStep => /\ loop.at = "readStep"
                    /\ LoopTo(IF loop.kind = "TRANSITION" THEN "readEnd" ELSE "avance")
                    /\ loop'.kind = loop.kind /\ loop'.delay = transDelay
    BY DEF ReadStep
  <1>7. ReadEnd => loop.at = "readEnd" /\ LoopTo("avance") /\ Holds
    <2> SUFFICES ASSUME ReadEnd PROVE loop.at = "readEnd" /\ LoopTo("avance") /\ Holds
      OBVIOUS
    <2> DEFINE done == step >= steps
    <2>1. /\ loop' = [loop EXCEPT !.at = "avance", !.done = done] /\ osc' = osc
          /\ loop.at = "readEnd"
      BY DEF ReadEnd
    <2>2. done \in BOOLEAN
      OBVIOUS
    <2> HIDE DEF done
    <2> QED BY <2>1, <2>2
  <1>8. Flip => loop.at = "flip" /\ LoopTo("turn") /\ loop'.index = direction /\ Holds
    BY DEF Flip
  <1>9. Turn => loop.at = "turn" /\ LoopTo("load") /\ Holds
    <2> SUFFICES ASSUME Turn PROVE loop.at = "turn" /\ LoopTo("load") /\ Holds
      OBVIOUS
    <2>1. /\ loop' = [loop EXCEPT !.at = "load", !.index = 0] /\ osc' = osc
          /\ loop.at = "turn" /\ 0 \in Int
      BY DEF Turn
    <2> QED BY <2>1
  <1>10. LoadStep => loop.at = "load" /\ LoopTo("store") /\ loop'.index = step /\ Holds
    BY DEF LoadStep
  <1>11. StoreStep => loop.at = "store" /\ LoopTo("write") /\ Holds
    <2> SUFFICES ASSUME StoreStep PROVE loop.at = "store" /\ LoopTo("write") /\ Holds
      OBVIOUS
    <2>1. /\ loop' = [loop EXCEPT !.at = "write", !.index = 0] /\ osc' = osc
          /\ loop.at = "store" /\ 0 \in Int
      BY DEF StoreStep
    <2> QED BY <2>1
  <1>12. WriteLight => loop.at = "write" /\ (LoopTo("wait") \/ LoopTo("dropLight"))
    BY WaitingRecord DEF WriteLight
  <1>13. WriteLightFails => loop.at = "write" /\ LoopTo("dropLight")
    BY DEF WriteLightFails, Loop
  <1>14. Avance => /\ loop.at = "avance" /\ Holds
                   /\ LoopTo(IF step >= steps \/ step <= 0 THEN "flip" ELSE "load")
    BY LoopGoes DEF Avance, LoopPlaces
  <1> QED BY <1>4, <1>5, <1>6, <1>7, <1>8, <1>9, <1>10, <1>11, <1>12, <1>13, <1>14

\* Where the loop's other steps lead to.
FlashStep == FlashState \/ WriteFlash \/ WriteFlashFails \/ FlashReturns
InFlash == {"flash", "on", "off", "flashReturn", "dropFlash"}

LEMMA FlashSteps ==
    ASSUME TypeInv
    PROVE  /\ \A s \in Source : Dispatch(s) => loop.at = "wait" /\ LoopTo(s)
           /\ FlashStep => /\ loop.at \in InFlash
                           /\ \E to \in InFlash \cup {"wait"} : LoopTo(to)
           /\ Drop => loop.at \in {"dropLight", "dropFlash"} /\ LoopTo("wait")
  <1>1. loop \in LoopRecord
    BY DEF TypeInv
  <1>2. ASSUME NEW s \in Source, Dispatch(s)
        PROVE  loop.at = "wait" /\ LoopTo(s)
    <2>1. loop' = [Waiting EXCEPT !.at = s] /\ s \in LoopPlaces /\ osc' = osc /\ loop.at = "wait"
      BY <1>2 DEF Dispatch, Source, LoopPlaces
    <2>2. loop' \in LoopRecord /\ loop'.at = s
      BY <2>1, WaitingRecord DEF LoopRecord
    <2> QED BY <2>1, <2>2 DEF LoopTo
  <1>3. FlashStep => /\ loop.at \in InFlash
                     /\ \E to \in InFlash \cup {"wait"} : LoopTo(to)
    <2>1. /\ "wait" \in LoopPlaces /\ InFlash \subseteq LoopPlaces
      BY DEF InFlash, LoopPlaces
    <2>2. ASSUME FlashStep
          PROVE  \E from \in InFlash, to \in InFlash \cup {"wait"} : Loop(from, to) /\ osc' = osc
      BY <2>2, Zenon DEF FlashStep, FlashState, WriteFlash, WriteFlashFails, FlashReturns, InFlash
    <2> QED BY <1>1, <2>1, <2>2, LoopGoes DEF LoopTo
  <1>4. Drop => loop.at \in {"dropLight", "dropFlash"} /\ LoopTo("wait")
    BY WaitingRecord DEF Drop, LoopTo
  <1> QED BY <1>2, <1>3, <1>4

\* Where every step of the OSC thread leads to.
LEMMA OscSteps ==
    ASSUME TypeInv
    PROVE  /\ FillColors => osc.at = "rgb" /\ OscTo("state")
           /\ SetState => /\ osc.at = "state"
                          /\ OscTo(IF osc.msg.kind = "SINGLE" THEN "color" ELSE "steps")
           /\ SetColor => osc.at = "color" /\ OscTo("check")
           /\ SetSteps => osc.at = "steps" /\ OscTo("step")
           /\ SetStep => osc.at = "step" /\ OscTo("direction")
           /\ SetDirection => osc.at = "direction" /\ OscTo("delay")
           /\ SetDelay => osc.at = "delay" /\ OscTo("check")
           /\ SetFlash => osc.at = "flash" /\ OscTo("check")
           /\ AddChecked => osc.at = "check" /\ OscTo("insert")
           /\ AddRefused \/ AddInserts =>
                  /\ osc.at \in {"check", "insert"}
                  /\ osc' \in OscRecord /\ osc'.at = "idle" /\ UNCHANGED loop
  <1>1. osc \in OscRecord /\ Idle \in OscRecord /\ Idle.at = "idle"
    BY DEF TypeInv, OscRecord, OscPlaces, Idle, Message
  <1>2. AddRefused \/ AddInserts =>
            /\ osc.at \in {"check", "insert"}
            /\ osc' \in OscRecord /\ osc'.at = "idle" /\ UNCHANGED loop
    BY <1>1 DEF AddRefused, AddInserts
  <1> HIDE DEF OscRecord
  <1> USE <1>1, OscGoes DEF OscTo, OscPlaces, Store
  <1>3. FillColors => osc.at = "rgb" /\ OscTo("state")
    BY DEF FillColors
  <1>4. SetState => /\ osc.at = "state"
                    /\ OscTo(IF osc.msg.kind = "SINGLE" THEN "color" ELSE "steps")
    BY DEF SetState
  <1>5. SetColor => osc.at = "color" /\ OscTo("check")
    BY DEF SetColor
  <1>6. SetSteps => osc.at = "steps" /\ OscTo("step")
    BY DEF SetSteps
  <1>7. SetStep => osc.at = "step" /\ OscTo("direction")
    BY DEF SetStep
  <1>8. SetDirection => osc.at = "direction" /\ OscTo("delay")
    BY DEF SetDirection
  <1>9. SetDelay => osc.at = "delay" /\ OscTo("check")
    BY DEF SetDelay
  <1>10. SetFlash => osc.at = "flash" /\ OscTo("check")
    BY DEF SetFlash
  <1>11. AddChecked => osc.at = "check" /\ OscTo("insert")
    BY DEF AddChecked
  <1> QED BY <1>2, <1>3, <1>4, <1>5, <1>6, <1>7, <1>8, <1>9, <1>10, <1>11

\* The steps that store a field, and the others of the OSC thread.
StoreField ==
    FillColors \/ SetState \/ SetColor \/ SetSteps \/ SetStep \/ SetDirection \/ SetDelay
        \/ SetFlash

\* The fields keep their types.
LEMMA FieldsStep ==
    ASSUME TypeInv, Next
    PROVE  Fields'
  <1>0. /\ osc.msg.kind \in Kinds \cup {"FLASH"}
        /\ osc.msg.maxd \in 0 .. MaxSteps /\ osc.msg.src \in Source
    BY MessageFields DEF TypeInv, OscRecord
  <1>1. ASSUME NEW m \in Message, Receive(m) PROVE Fields'
    BY <1>1 DEF Receive, TypeInv, Fields, memory, trans, history
  <1>2. CASE OscStep
    <2>1. CASE StoreField
      <3>1. /\ torn' \in BOOLEAN /\ raced' \in BOOLEAN /\ owed' \in BOOLEAN
            /\ UNCHANGED <<registered, lit, lost>>
        <4>1. torn \in BOOLEAN /\ raced \in BOOLEAN /\ owed \in BOOLEAN
          BY DEF TypeInv, Fields
        <4>2. Store /\ owed' \in {owed, TRUE}
          BY <2>1 DEF StoreField, FillColors, SetState, SetColor, SetSteps, SetStep,
                      SetDirection, SetDelay, SetFlash
        <4>3. torn' = torn \/ torn' = (loop.at \in Stepping)
                  \/ torn' = (torn \/ loop.at \in Stepping)
          BY <2>1, Zenon DEF StoreField, FillColors, SetState, SetColor, SetSteps, SetStep,
                      SetDirection, SetDelay, SetFlash
        <4>4. torn' \in BOOLEAN
          <5> DEFINE stepping == loop.at \in Stepping
          <5>1. stepping \in BOOLEAN
            OBVIOUS
          <5>2. torn' = torn \/ torn' = stepping \/ torn' = (torn \/ stepping)
            BY <4>3
          <5> HIDE DEF stepping
          <5> QED BY <4>1, <5>1, <5>2
        <4>5. raced' \in BOOLEAN /\ UNCHANGED <<registered, lit, lost>>
          BY <4>1, <4>2, Zenon DEF Store
        <4> QED BY <4>1, <4>2, <4>4, <4>5
      <3>2. CASE FillColors \/ SetColor \/ SetFlash \/ SetDirection \/ SetDelay \/ SetStep
        BY <3>1, <3>2 DEF FillColors, SetColor, SetFlash, SetDirection, SetDelay, SetStep,
                          TypeInv, Fields, trans
      <3>3. CASE SetState
        BY <1>0, <3>1, <3>3, OscSteps DEF SetState, TypeInv, Fields, trans, Places, Kinds
      <3>4. CASE SetSteps
        BY <1>0, <3>1, <3>4 DEF SetSteps, TypeInv, Fields
      <3> QED BY <2>1, <3>2, <3>3, <3>4 DEF StoreField
    <2>2. CASE AddRefused \/ AddChecked \/ AddInserts
      <3>1. UNCHANGED <<memory, lit, owed, raced, torn>>
        BY <2>2 DEF AddRefused, AddChecked, AddInserts, history
      <3>2. registered' \subseteq Source /\ lost' \subseteq Source
        BY <1>0, <2>2 DEF AddRefused, AddChecked, AddInserts, history, TypeInv, Fields
      <3> QED BY <3>1, <3>2 DEF TypeInv, Fields, memory, trans
    <2> QED BY <1>2, <2>1, <2>2 DEF OscStep, StoreField
  <1>3. CASE \E s \in Source : Dispatch(s)
    BY <1>3 DEF Dispatch, TypeInv, Fields, memory, trans
  <1>4. CASE HandlerStep
    <2> USE DEF TypeInv, Fields, memory, trans, history
    <2>1. CASE LightState
      <3>1. /\ raced' = (HalfStored /\ osc.msg.src = "light")
            /\ torn' = (torn \/ (state # "SINGLE" /\ osc.at \in {"step", "direction"}))
            /\ UNCHANGED <<memory, registered, lit, owed, lost>>
        BY <2>1 DEF LightState
      <3>2. raced' \in BOOLEAN /\ torn' \in BOOLEAN
        BY <3>1, Zenon DEF HalfStored
      <3> QED BY <3>1, <3>2
    <2>2. CASE ReadColor \/ ReadStep \/ ReadEnd \/ Avance \/ Flip \/ LoadStep
      BY <2>2 DEF ReadColor, ReadStep, ReadEnd, Avance, Flip, LoadStep
    <2>3. CASE Turn
      BY <2>3 DEF Turn
    <2>4. CASE StoreStep
      <3>1. loop.index \in Int
        BY DEF LoopRecord
      <3> QED BY <2>4, <3>1 DEF StoreStep
    <2>5. CASE WriteLight \/ WriteLightFails
      BY <2>5 DEF WriteLight, WriteLightFails, Source
    <2>6. CASE FlashState \/ WriteFlashFails \/ FlashReturns
      <3>1. CASE FlashState
        BY <3>1 DEF FlashState
      <3>2. CASE WriteFlashFails
        BY <3>2 DEF WriteFlashFails, Source
      <3>3. CASE FlashReturns
        <4>1. /\ raced' = (raced /\ loop'.at # "wait")
              /\ UNCHANGED <<memory, registered, lit, owed, torn, lost>>
          BY <3>3 DEF FlashReturns
        <4> QED BY <4>1
      <3> QED BY <2>6, <3>1, <3>2, <3>3
    <2>7. CASE Drop
      BY <2>7 DEF Drop
    <2>8. CASE WriteFlash
      <3>1. /\ lit' = (loop.at = "on")
            /\ UNCHANGED <<memory, registered, owed, raced, torn, lost>>
        BY <2>8 DEF WriteFlash
      <3> QED BY <3>1
    <2> QED BY <1>4, <2>1, <2>2, <2>3, <2>4, <2>5, <2>6, <2>7, <2>8 DEF HandlerStep
  <1> QED BY <1>1, <1>2, <1>3, <1>4 DEF Next

\* Every step keeps TypeInv.
LEMMA TypeStep == TypeInv /\ [Next]_vars => TypeInv'
  <1> SUFFICES ASSUME TypeInv, [Next]_vars PROVE TypeInv'
    OBVIOUS
  <1>1. CASE UNCHANGED vars
    BY <1>1 DEF vars, memory, trans, history, TypeInv, Fields, Places
  <1>2. CASE Next
    <2>1. Fields'
      BY <1>2, FieldsStep
    <2>2. ASSUME NEW m \in Message, Receive(m) PROVE TypeInv'
      <3>1. osc' \in OscRecord /\ osc'.msg = m /\ Places'
        BY <2>2, MessageFields DEF Receive, OscRecord, OscPlaces, Places, Kinds
      <3> QED BY <2>1, <2>2, <3>1 DEF TypeInv, Receive
    <2>3. CASE OscStep
      <3>1. osc' \in OscRecord /\ loop' = loop
        BY <2>3, OscSteps DEF OscStep, OscTo
      <3>2. Places'
        <4>1. osc.msg.kind \in Kinds \cup {"FLASH"}
          BY MessageFields DEF TypeInv, OscRecord
        <4> QED BY <2>3, <4>1, OscSteps DEF OscStep, OscTo, Places, TypeInv, Kinds
      <3> QED BY <2>1, <3>1, <3>2 DEF TypeInv
    <2>4. CASE (\E s \in Source : Dispatch(s)) \/ HandlerStep
      <3>1. loop' \in LoopRecord /\ osc' = osc
        BY <2>4, LightSteps, FlashSteps DEF HandlerStep, FlashStep, LoopTo
      <3>2. loop'.at = "turn" => loop'.index \in {-1, 0, 1}
        <4>1. CASE Flip
          BY <4>1, LightSteps DEF TypeInv, Fields
        <4>2. CASE ~Flip
          BY <2>4, <4>2, LightSteps, FlashSteps
             DEF HandlerStep, FlashStep, LoopTo, Source, InFlash
        <4> QED BY <4>1, <4>2
      <3> QED BY <2>1, <3>1, <3>2 DEF TypeInv, Places
    <2> QED BY <1>2, <2>2, <2>3, <2>4 DEF Next
  <1> QED BY <1>1, <1>2

\* Whatever the two threads do to one light_dev at once, its fields keep their types: the
\* direction is turned and never anything but 1 or -1 once set, and the number of steps
\* stays below MAX_RGB.
THEOREM FieldsKeepTheirTypes == Spec => []TypeOK
  <1>1. TypeInv => TypeOK
    <2> SUFFICES ASSUME TypeInv PROVE TypeOK
      OBVIOUS
    <2>1. osc.at \in OscPlaces /\ osc.msg \in Message
      BY DEF TypeInv, OscRecord
    <2>2. /\ loop.at \in LoopPlaces /\ loop.kind \in Kinds /\ loop.delay \in Delays
          /\ loop.index \in Int /\ loop.done \in BOOLEAN
      BY DEF TypeInv, LoopRecord
    <2>3. LoopPlaces = {"wait", "light", "flash"} \cup Calling("light") \cup Calling("flash")
      BY DEF LoopPlaces, Calling, Stepping
    <2> QED BY <2>1, <2>2, <2>3 DEF TypeInv, Fields, TypeOK, OscPlaces, Kinds, Delays
  <1> QED BY <1>1, TypeInit, TypeStep, PTL DEF Spec

-----------------------------------------------------------------------------
(* The step of a transition *)

\* Before the first transition.
Zero == steps = 0 /\ step = 0 /\ direction = 0

\* Between two calls of dev_light_write the step is inside the transition and, at
\* either end, still has the direction that brought it there ...
Swing ==
    /\ steps \in 1 .. MaxSteps
    /\ step \in 0 .. steps
    /\ direction \in {-1, 1}
    /\ step = steps => direction = 1
    /\ step = 0 => direction = -1

AtEnd == Swing /\ (step = steps \/ step = 0)

\* ... which avance_next_blink_color has turned when it loads the step.
Turned ==
    /\ steps \in 1 .. MaxSteps
    /\ step \in 0 .. steps
    /\ direction \in {-1, 1}
    /\ step = steps => direction = -1
    /\ step = 0 => direction = 1

\* The fields of a transition are set one after the other, ...
Filled ==
    /\ osc.at \in {"step", "direction", "delay"} => steps \in 1 .. MaxSteps
    /\ ~torn /\ osc.at = "direction" => step = 1
    /\ ~torn /\ osc.at \in {"step", "direction"} => loop.at \notin Stepping

\* ... and, when none is half set, they are in swing.
Settled ==
    ~torn /\ osc.at \notin {"step", "direction"} =>
        /\ loop.at = "flip" => Zero \/ AtEnd
        /\ loop.at = "turn" => (Zero \/ AtEnd) /\ loop.index = direction
        /\ loop.at = "load" => Zero \/ Turned
        /\ loop.at = "store" => (Zero \/ Turned) /\ loop.index = step
        /\ loop.at \notin {"flip", "turn", "load", "store"} => Zero \/ Swing

StepInv == TypeInv /\ Filled /\ Settled

LEMMA StepInit == Init => StepInv
  BY TypeInit DEF Init, Idle, Waiting, StepInv, Filled, Settled, Zero, Stepping

\* A step of the OSC thread changes the transition only at its fields.
LEMMA StepOsc ==
    ASSUME StepInv, OscStep
    PROVE  Filled' /\ Settled'
  <1>1. TypeInv /\ Filled /\ Settled /\ loop' = loop /\ steps \in 0 .. MaxSteps
    BY OscSteps DEF StepInv, OscStep, OscTo, TypeInv, Fields
  <1>2. CASE SetSteps
    <2>1. /\ osc.at = "steps" /\ osc'.at = "step" /\ steps' = osc.msg.maxd
          /\ torn' = (loop.at \in Stepping)
      BY <1>1, <1>2, OscSteps DEF SetSteps, OscTo
    <2>2. osc.msg.maxd \in 1 .. MaxSteps
      BY <1>1, <2>1, MessageFields DEF TypeInv, Places, OscRecord
    <2> QED BY <1>1, <2>1, <2>2 DEF Filled, Settled
  <1>3. CASE SetStep
    <2>1. /\ osc.at = "step" /\ osc'.at = "direction" /\ step' = 1 /\ steps' = steps
          /\ torn' = (torn \/ loop.at \in Stepping)
      BY <1>1, <1>3, OscSteps DEF SetStep, OscTo
    <2> QED BY <1>1, <2>1 DEF Filled, Settled
  <1>4. CASE SetDirection
    <2>1. /\ osc.at = "direction" /\ osc'.at = "delay" /\ direction' = 1
          /\ steps' = steps /\ step' = step
          /\ torn' = (torn \/ loop.at \in Stepping)
      BY <1>1, <1>4, OscSteps DEF SetDirection, OscTo
    <2>2. ~torn' => step = 1 /\ steps \in 1 .. MaxSteps /\ loop.at \notin Stepping
      BY <1>1, <2>1 DEF Filled
    <2> QED BY <1>1, <2>1, <2>2 DEF Filled, Settled, Swing, Stepping
  <1>5. CASE ~(SetSteps \/ SetStep \/ SetDirection)
    <2>1. /\ osc.at \notin {"step", "direction"} /\ osc'.at \notin {"step", "direction", "delay"}
          /\ UNCHANGED <<trans, torn>> \/ UNCHANGED <<steps, step, direction, torn>>
      BY <1>1, <1>5, OscSteps
         DEF StepInv, OscStep, OscTo, FillColors, SetState, SetColor, SetDelay, SetFlash, AddRefused,
             AddChecked, AddInserts, memory, trans, history
    <2> QED BY <1>1, <2>1 DEF Filled, Settled, trans, Zero, Swing, AtEnd, Turned
  <1> QED BY <1>2, <1>3, <1>4, <1>5

\* The handler finds the step in swing, and leaves it so.
LEMMA StepLight ==
    ASSUME StepInv, HandlerStep
    PROVE  Filled' /\ Settled'
  <1>1. /\ TypeInv /\ Filled /\ Settled /\ osc' = osc /\ steps' = steps /\ steps \in 0 .. MaxSteps
        /\ step \in Int /\ direction \in {-1, 0, 1}
    <2>1. TypeInv /\ Filled /\ Settled
      BY DEF StepInv
    <2>2. osc' = osc
      BY <2>1, LightSteps, FlashSteps DEF HandlerStep, FlashStep, LoopTo
    <2>3. steps' = steps
      BY DEF HandlerStep, LightState, ReadColor, ReadStep, ReadEnd, Avance, Flip, Turn, LoadStep,
             StoreStep, WriteLight, WriteLightFails, FlashState, WriteFlash, WriteFlashFails,
             FlashReturns, Drop, memory, trans
    <2> QED BY <2>1, <2>2, <2>3 DEF TypeInv, Fields
  <1>2. CASE LightState
    <2>1. /\ loop.at = "light" /\ loop'.at = IF state = "SINGLE" THEN "readColor" ELSE "readStep"
          /\ torn' = (torn \/ (state # "SINGLE" /\ osc.at \in {"step", "direction"}))
          /\ UNCHANGED <<step, direction>>
      BY <1>1, <1>2, LightSteps DEF LightState, LoopTo, memory, trans
    <2> QED BY <1>1, <2>1 DEF Filled, Settled, Stepping, Zero, Swing
  <1>3. CASE Avance
    <2>1. /\ loop.at = "avance" /\ loop'.at = IF step >= steps \/ step <= 0 THEN "flip" ELSE "load"
          /\ UNCHANGED <<step, direction, torn>>
      BY <1>1, <1>3, LightSteps DEF Avance, LoopTo, memory, trans, history
    <2> QED BY <1>1, <2>1 DEF Filled, Settled, Stepping, Zero, Swing, AtEnd, Turned
  <1>4. CASE Flip
    <2>1. /\ loop.at = "flip" /\ loop'.at = "turn" /\ loop'.index = direction
          /\ UNCHANGED <<step, direction, torn>>
      BY <1>1, <1>4, LightSteps DEF Flip, LoopTo, memory, trans, history
    <2> QED BY <1>1, <2>1 DEF Filled, Settled, Stepping, Zero, Swing, AtEnd
  <1>5. CASE Turn
    <2>1. /\ loop.at = "turn" /\ loop'.at = "load" /\ direction' = -loop.index
          /\ UNCHANGED <<step, torn>>
      BY <1>1, <1>5, LightSteps DEF Turn, LoopTo, history
    <2> QED BY <1>1, <2>1 DEF Filled, Settled, Stepping, Zero, Swing, AtEnd, Turned
  <1>6. CASE LoadStep
    <2>1. /\ loop.at = "load" /\ loop'.at = "store" /\ loop'.index = step
          /\ UNCHANGED <<step, direction, torn>>
      BY <1>1, <1>6, LightSteps DEF LoadStep, LoopTo, memory, trans, history
    <2> QED BY <1>1, <2>1 DEF Filled, Settled, Stepping, Zero, Turned
  <1>7. CASE StoreStep
    <2>1. /\ loop.at = "store" /\ loop'.at = "write" /\ step' = loop.index + direction
          /\ UNCHANGED <<direction, torn>>
      BY <1>1, <1>7, LightSteps DEF StoreStep, LoopTo, history
    <2>2. ASSUME ~torn, osc.at \notin {"step", "direction"}
          PROVE  (Zero \/ Swing)'
      <3>1. (Zero \/ Turned) /\ loop.index = step
        BY <1>1, <2>1, <2>2 DEF Settled
      <3> QED BY <1>1, <2>1, <3>1 DEF Zero, Turned, Swing
    <2> QED BY <1>1, <2>1, <2>2 DEF Filled, Settled, Stepping
  <1>8. CASE ~(LightState \/ Avance \/ Flip \/ Turn \/ LoadStep \/ StoreStep)
    <2>1. /\ loop.at \notin {"flip", "turn", "load", "store"}
          /\ loop'.at \notin {"flip", "turn", "load", "store", "readStep"}
          /\ loop'.at \in Stepping => loop.at \in Stepping
      BY <1>1, <1>8, LightSteps, FlashSteps
         DEF HandlerStep, FlashStep, LoopTo, Stepping, InFlash
    <2>2. UNCHANGED <<step, direction, torn>>
      BY <1>8 DEF HandlerStep, ReadColor, ReadStep, ReadEnd, WriteLight, WriteLightFails,
                  FlashState, WriteFlash, WriteFlashFails, FlashReturns, Drop, memory, trans,
                  history
    <2> QED BY <1>1, <2>1, <2>2 DEF Filled, Settled, Zero, Swing
  <1> QED BY <1>2, <1>3, <1>4, <1>5, <1>6, <1>7, <1>8

LEMMA StepStep == StepInv /\ [Next]_vars => StepInv'
  <1> SUFFICES ASSUME StepInv, [Next]_vars PROVE StepInv'
    OBVIOUS
  <1>1. TypeInv'
    BY TypeStep DEF StepInv
  <1>2. ASSUME NEW m \in Message, Receive(m) PROVE Filled' /\ Settled'
    <2>1. /\ osc.at = "idle" /\ osc'.at \in {"state", "flash", "rgb"}
          /\ UNCHANGED <<loop, steps, step, direction, torn>>
      BY <1>2 DEF Receive, memory, trans, history
    <2> QED BY <2>1 DEF StepInv, Filled, Settled, Zero, Swing, AtEnd, Turned
  <1>3. ASSUME NEW s \in Source, Dispatch(s) PROVE Filled' /\ Settled'
    <2>1. /\ loop.at = "wait" /\ loop'.at \in {"light", "flash"} /\ osc' = osc
          /\ UNCHANGED <<steps, step, direction, torn>>
      BY <1>3, FlashSteps DEF StepInv, LoopTo, Dispatch, memory, trans, Source
    <2> QED BY <2>1 DEF StepInv, Filled, Settled, Zero, Swing, Stepping
  <1>4. ASSUME UNCHANGED vars PROVE Filled' /\ Settled'
    <2>1. UNCHANGED <<osc, loop, steps, step, direction, torn>>
      BY <1>4 DEF vars, memory, trans, history
    <2> QED BY <2>1 DEF StepInv, Filled, Settled, Zero, Swing, AtEnd, Turned
  <1> QED BY <1>1, <1>2, <1>3, <1>4, StepOsc, StepLight DEF StepInv, Next

\* dev_light_write reads rgb only at an entry that the running transition filled in, for
\* transitions of any length and any interleaving of messages with the loop, unless the
\* fields of the last transition were stored, or half stored, while a call was at them; the
\* next transition, stored between two calls, mends it.
THEOREM StepAlwaysFilled == Spec => []StepIsFilled
  <1>1. StepInv => StepIsFilled
    BY DEF StepInv, Filled, Settled, Zero, Swing, Stepping, StepIsFilled, TypeInv, Fields
  <1> QED BY <1>1, StepInit, StepStep, PTL DEF Spec

-----------------------------------------------------------------------------
(* The delay of the light, and its registration *)

\* A message for the light is at hand.
ForLight == osc.at # "idle" /\ osc.msg.src = "light"

\* The delay that belongs to what is shown.
DelayOf(kind) == IF kind = "SINGLE" THEN "min" ELSE "trans"
DelayKept == IF state = "SINGLE" THEN colorDelay = "min" ELSE transDelay = "trans"

\* The loop is in the handler of a context that is on the list.
HandlerOf ==
    /\ loop.at \in {"light"} \cup Calling("light") => "light" \in registered
    /\ loop.at = "readColor" => loop.kind = "SINGLE"
    /\ loop.at \in Stepping => loop.kind # "SINGLE"

\* What has the light called has set the delay of its state.
DelaySet ==
    /\ osc.at = "color" => state = "SINGLE"
    /\ osc.at \in {"steps", "step", "direction", "delay"} => state # "SINGLE"
    /\ ("light" \in registered /\ ~HalfStored)
          \/ (osc.at \in {"check", "insert"} /\ osc.msg.src = "light")
           => DelayKept

\* A call that no message meets reads the delay of the state it serves.
DelayRead ==
    ~raced =>
        /\ loop.at \in {"readColor", "readStep"} => loop.kind = state /\ DelayKept
        /\ loop.at \in (Stepping \ {"readStep"}) \cup {"write"}
               => loop.delay = DelayOf(loop.kind)

\* A message for the light keeps it on the list until the loop has written, or is lost.
Owed ==
    /\ raced /\ loop.at \in Calling("light") => "light" \in lost \/ ForLight
    /\ ~raced /\ loop.at = "dropLight" => ~owed \/ "light" \in lost
    /\ owed => "light" \in registered \cup lost \/ ForLight

DelayInv == TypeInv /\ HandlerOf /\ DelaySet /\ DelayRead /\ Owed

\* A context's handler is called for it alone.
LEMMA CallingApart ==
    /\ Calling("light") = Stepping \cup {"readColor", "write", "dropLight"}
    /\ Calling("flash") = {"on", "off", "flashReturn", "dropFlash"}
  BY DEF Calling

\* What the messages that store the light's fields are for.
LEMMA StoresFor ==
    ASSUME TypeInv
    PROVE  /\ osc.at \in {"rgb", "state", "color", "steps", "step", "direction", "delay"}
                  => osc.msg.src = "light"
           /\ osc.at = "flash" => osc.msg.src = "flash"
           /\ osc.msg.src \in Source
  <1>1. osc.msg \in Message
    BY DEF TypeInv, OscRecord
  <1>2. osc.msg.src \in Source /\ (osc.msg.kind = "FLASH" <=> osc.msg.src = "flash")
    BY <1>1, MessageFields
  <1> QED BY <1>2 DEF TypeInv, Places, Kinds, Source

LEMMA DelayInit == Init => DelayInv
  BY TypeInit, CallingApart
     DEF Init, Idle, Waiting, DelayInv, HandlerOf, DelaySet, DelayRead, Owed, Stepping, ForLight,
         HalfStored

\* A message that begins has stored nothing.
LEMMA DelayReceive ==
    ASSUME DelayInv, NEW m \in Message, Receive(m)
    PROVE  HandlerOf' /\ DelaySet' /\ DelayRead' /\ Owed'
  <1>1. /\ osc.at = "idle" /\ osc'.msg = m /\ osc'.at \in {"state", "flash", "rgb"}
        /\ osc'.at = "state" => m.kind = "SINGLE"
        /\ UNCHANGED <<loop, state, transDelay, colorDelay, registered, owed, raced, lost>>
    BY DEF Receive, memory, trans, history
  <1>2. ~HalfStored /\ ~HalfStored'
    BY <1>1 DEF HalfStored
  <1> QED BY <1>1, <1>2 DEF DelayInv, HandlerOf, DelaySet, DelayKept, DelayRead, Owed, ForLight

\* A store meets the call that the loop is in.
LEMMA DelayStore ==
    ASSUME DelayInv, StoreField
    PROVE  HandlerOf' /\ DelaySet' /\ DelayRead' /\ Owed'
  <1>1. /\ TypeInv /\ osc.msg.src \in Source
        /\ loop' = loop /\ registered' = registered /\ lost' = lost
        /\ raced' = (raced \/ loop.at \in Calling(osc.msg.src))
        /\ osc.at # "idle" /\ osc'.at # "idle" /\ osc'.msg = osc.msg
    BY OscSteps, StoresFor
       DEF DelayInv, StoreField, OscTo, FillColors, SetState, SetColor, SetSteps, SetStep,
           SetDirection, SetDelay, SetFlash, Store
  <1>2. HandlerOf'
    BY <1>1 DEF DelayInv, HandlerOf
  <1>3. CASE SetFlash
    <2>1. /\ osc.at = "flash" /\ osc'.at = "check" /\ osc.msg.src = "flash"
          /\ UNCHANGED <<state, transDelay, colorDelay, owed>>
      BY <1>1, <1>3, OscSteps, StoresFor DEF SetFlash, OscTo, trans
    <2>2. ~HalfStored /\ ~HalfStored'
      BY <1>1, <2>1 DEF HalfStored
    <2>3. loop.at \in Calling("light") => raced' = raced
      <3>1. loop.at \in Calling("light") => loop.at \notin Calling("flash")
        BY CallingApart DEF Stepping
      <3>2. raced \in BOOLEAN /\ raced' = (raced \/ loop.at \in Calling("flash"))
        BY <1>1, <2>1 DEF TypeInv, Fields
      <3> QED BY <3>1, <3>2
    <2> QED BY <1>1, <1>2, <2>1, <2>2, <2>3, CallingApart
            DEF DelayInv, DelaySet, DelayKept, DelayRead, Owed, ForLight, Stepping
  <1>4. CASE ~SetFlash
    <2>1. /\ osc.at \in {"rgb", "state", "color", "steps", "step", "direction", "delay"}
          /\ osc.msg.src = "light"
      BY <1>1, <1>4, OscSteps, StoresFor DEF StoreField
    <2>2. DelaySet'
      <3>1. CASE FillColors
        <4>1. osc'.at = "state" /\ osc.msg.kind # "SINGLE" /\ state' = state
          BY <1>1, <3>1, OscSteps DEF FillColors, OscTo, TypeInv, Places
        <4> QED BY <1>1, <4>1 DEF DelaySet, HalfStored
      <3>2. CASE SetState
        <4>1. /\ osc'.at = IF osc.msg.kind = "SINGLE" THEN "color" ELSE "steps"
              /\ state' = osc.msg.kind
          BY <1>1, <3>2, OscSteps DEF SetState, OscTo
        <4> QED BY <1>1, <4>1 DEF DelaySet, HalfStored
      <3>3. CASE SetColor
        <4>1. state = "SINGLE" /\ osc'.at = "check" /\ state' = state /\ colorDelay' = "min"
          BY <1>1, <3>3, OscSteps DEF SetColor, OscTo, DelayInv, DelaySet
        <4> QED BY <4>1 DEF DelaySet, DelayKept
      <3>4. CASE SetSteps \/ SetStep \/ SetDirection
        <4>1. state # "SINGLE" /\ osc'.at \in {"step", "direction", "delay"} /\ state' = state
          BY <1>1, <3>4, OscSteps
             DEF SetSteps, SetStep, SetDirection, OscTo, DelayInv, DelaySet
        <4> QED BY <4>1 DEF DelaySet, HalfStored
      <3>5. CASE SetDelay
        <4>1. state # "SINGLE" /\ osc'.at = "check" /\ state' = state /\ transDelay' = "trans"
          BY <1>1, <3>5, OscSteps DEF SetDelay, OscTo, DelayInv, DelaySet
        <4> QED BY <4>1 DEF DelaySet, DelayKept
      <3> QED BY <1>4, <3>1, <3>2, <3>3, <3>4, <3>5 DEF StoreField
    <2>3. DelayRead'
      BY <1>1, <2>1, CallingApart DEF DelayRead, Stepping
    <2>4. Owed'
      BY <1>1, <2>1, CallingApart DEF Owed, ForLight
    <2> QED BY <1>2, <2>2, <2>3, <2>4
  <1> QED BY <1>3, <1>4

\* The add ends the message: it is refused, or the context is inserted.
LEMMA DelayAdd ==
    ASSUME DelayInv, AddRefused \/ AddChecked \/ AddInserts
    PROVE  HandlerOf' /\ DelaySet' /\ DelayRead' /\ Owed'
  <1>1. /\ TypeInv /\ osc.at \in {"check", "insert"} /\ loop' = loop /\ osc.msg.src \in Source
        /\ UNCHANGED <<state, transDelay, colorDelay, owed, raced>>
    BY OscSteps, StoresFor
       DEF DelayInv, OscTo, AddRefused, AddChecked, AddInserts, memory, trans, history
  <1>2. ~HalfStored
    BY <1>1 DEF HalfStored
  <1>3. CASE AddRefused
    <2>1. /\ osc.msg.src \in registered /\ registered' = registered /\ osc'.at = "idle"
          /\ lost' = CASE loop.at \notin Calling(osc.msg.src) -> lost \ {osc.msg.src}
                       [] raced -> lost \cup {osc.msg.src}
                       [] OTHER -> lost
      BY <1>1, <1>3, OscSteps DEF AddRefused
    <2>2. "light" \in lost => "light" \in lost' \/ (loop.at \notin Calling("light") /\
                                                    "light" \in registered)
      BY <1>1, <2>1 DEF Source
    <2>3. raced /\ loop.at \in Calling("light") => "light" \in lost'
      BY <1>1, <2>1, CallingApart DEF DelayInv, Owed, ForLight, Source
    <2>4. HandlerOf' /\ DelaySet' /\ DelayRead'
      BY <1>1, <1>2, <2>1 DEF DelayInv, HandlerOf, DelaySet, DelayKept, DelayRead
    <2>5. Owed'
      BY <1>1, <2>1, <2>2, <2>3, CallingApart DEF DelayInv, Owed, ForLight, Source
    <2> QED BY <2>4, <2>5
  <1>4. CASE AddChecked
    <2>1. osc'.at = "insert" /\ osc'.msg = osc.msg /\ UNCHANGED <<registered, lost>>
      BY <1>1, <1>4, OscSteps DEF AddChecked, OscTo, history
    <2> QED BY <1>1, <1>2, <2>1
            DEF DelayInv, HandlerOf, DelaySet, DelayKept, DelayRead, Owed, ForLight, HalfStored
  <1>5. CASE AddInserts
    <2>1. /\ loop.at = "wait" /\ osc'.at = "idle" /\ osc.at = "insert"
          /\ registered' = registered \cup {osc.msg.src}
          /\ lost' = lost \ {osc.msg.src}
      BY <1>1, <1>5, OscSteps DEF AddInserts
    <2> QED BY <1>1, <1>2, <2>1, CallingApart
            DEF DelayInv, HandlerOf, DelaySet, DelayKept, DelayRead, Owed, ForLight, Source,
                Stepping
  <1> QED BY <1>3, <1>4, <1>5

\* The loop reads the delay of what it shows, unless a message meets it.
LEMMA DelayHandler ==
    ASSUME DelayInv, (\E s \in Source : Dispatch(s)) \/ HandlerStep
    PROVE  HandlerOf' /\ DelaySet' /\ DelayRead' /\ Owed'
  <1>1. /\ TypeInv /\ osc' = osc
        /\ UNCHANGED <<state, transDelay, colorDelay>>
    <2>1. TypeInv /\ osc' = osc
      BY LightSteps, FlashSteps DEF DelayInv, HandlerStep, FlashStep, LoopTo
    <2>2. CASE \E s \in Source : Dispatch(s)
      BY <2>1, <2>2 DEF Dispatch, memory, trans
    <2>3. CASE HandlerStep
      BY <2>1, <2>3 DEF HandlerStep, LightState, ReadColor, ReadStep, ReadEnd, Avance, Flip, Turn,
              LoadStep, StoreStep, WriteLight, WriteLightFails, FlashState, WriteFlash,
              WriteFlashFails, FlashReturns, Drop, memory, trans
    <2> QED BY <2>2, <2>3
  <1>2. /\ HalfStored' = HalfStored /\ ForLight' = ForLight /\ DelayKept' = DelayKept
    BY <1>1 DEF HalfStored, ForLight, DelayKept
  <1> USE <1>1, <1>2, CallingApart DEF DelayInv
  <1>3. ASSUME NEW s \in Source, Dispatch(s) PROVE HandlerOf' /\ DelaySet' /\ DelayRead' /\ Owed'
    <2>1. /\ loop.at = "wait" /\ loop'.at = s /\ s \in registered /\ s \in {"light", "flash"}
          /\ UNCHANGED <<registered, owed, raced>> /\ lost' = lost \ {s}
      BY <1>3, FlashSteps DEF Dispatch, LoopTo, Source
    <2> QED BY <2>1 DEF HandlerOf, DelaySet, DelayRead, Owed, Stepping
  <1>4. CASE LightState
    <2>1. /\ loop.at = "light" /\ loop'.at = IF state = "SINGLE" THEN "readColor" ELSE "readStep"
          /\ loop'.kind = state
          /\ raced' = (HalfStored /\ osc.msg.src = "light") /\ UNCHANGED <<registered, owed, lost>>
      BY <1>4, LightSteps DEF LightState, LoopTo
    <2>2. HandlerOf' /\ DelaySet'
      BY <2>1 DEF HandlerOf, DelaySet, Stepping
    <2>3. HalfStored => osc.msg.src = "light" /\ ForLight
      BY StoresFor DEF HalfStored, ForLight
    <2>4. DelayRead'
      BY <2>1, <2>3 DEF HandlerOf, DelaySet, DelayRead, Stepping
    <2>5. Owed'
      BY <2>1, <2>3 DEF Owed
    <2> QED BY <2>2, <2>4, <2>5
  <1>5. CASE ReadColor
    <2>1. /\ loop.at = "readColor" /\ loop'.at = "write" /\ loop'.kind = loop.kind
          /\ loop'.delay = colorDelay /\ UNCHANGED <<registered, owed, raced, lost>>
      BY <1>5, LightSteps DEF ReadColor, LoopTo, history
    <2> QED BY <2>1 DEF HandlerOf, DelaySet, DelayRead, Owed, DelayKept, DelayOf, Stepping
  <1>6. CASE ReadStep
    <2>1. /\ loop.at = "readStep" /\ loop'.at \in {"readEnd", "avance"} /\ loop'.kind = loop.kind
          /\ loop'.delay = transDelay /\ UNCHANGED <<registered, owed, raced, lost>>
      BY <1>6, LightSteps DEF ReadStep, LoopTo, history
    <2> QED BY <2>1 DEF HandlerOf, DelaySet, DelayRead, Owed, DelayKept, DelayOf, Stepping
  <1>7. CASE ReadEnd \/ Avance \/ Flip \/ Turn \/ LoadStep \/ StoreStep
    <2>1. /\ loop.at \in Stepping \ {"readStep"}
          /\ loop'.at \in (Stepping \ {"readStep"}) \cup {"write"}
          /\ loop'.kind = loop.kind /\ loop'.delay = loop.delay
      BY <1>7, LightSteps DEF LoopTo, Holds, Stepping
    <2>2. UNCHANGED <<registered, owed, raced, lost>>
      BY <1>7 DEF ReadEnd, Avance, Flip, Turn, LoadStep, StoreStep, history
    <2> QED BY <2>1, <2>2 DEF HandlerOf, DelaySet, DelayRead, Owed, DelayOf, Stepping
  <1>8. CASE WriteLight
    <2>1. /\ loop.at = "write" /\ loop'.at \in {"wait", "dropLight"}
          /\ owed' = (owed /\ raced) /\ raced' = (raced /\ loop'.at # "wait")
          /\ UNCHANGED <<registered, lost>>
      BY <1>8, LightSteps DEF WriteLight, LoopTo
    <2> QED BY <2>1 DEF HandlerOf, DelaySet, DelayRead, Owed, Stepping
  <1>9. CASE WriteLightFails
    <2>1. /\ loop.at = "write" /\ loop'.at = "dropLight" /\ lost' = lost \cup {"light"}
          /\ UNCHANGED <<registered, owed, raced>>
      BY <1>9, LightSteps DEF WriteLightFails, LoopTo
    <2> QED BY <2>1 DEF HandlerOf, DelaySet, DelayRead, Owed, Stepping
  <1>10. CASE FlashStep
    <2>1. /\ loop.at \in InFlash /\ loop'.at \in InFlash \cup {"wait"}
      BY <1>10, FlashSteps DEF LoopTo
    <2>2. UNCHANGED <<registered, owed>> /\ lost' \in {lost, lost \cup {"flash"}}
      BY <1>10 DEF FlashStep, FlashState, WriteFlash, WriteFlashFails, FlashReturns, history
    <2> QED BY <2>1, <2>2 DEF HandlerOf, DelaySet, DelayRead, Owed, Stepping, InFlash
  <1>11. CASE Drop
    <2>1. /\ loop.at \in {"dropLight", "dropFlash"} /\ loop'.at = "wait"
          /\ registered' = registered \ {IF loop.at = "dropLight" THEN "light" ELSE "flash"}
          /\ raced' = FALSE /\ UNCHANGED <<owed, lost>>
      BY <1>11, FlashSteps DEF Drop, LoopTo
    <2>2. loop.at = "dropLight" => ~owed \/ "light" \in lost \/ ForLight
      BY DEF Owed
    <2> QED BY <2>1, <2>2 DEF HandlerOf, DelaySet, DelayRead, Owed, Stepping
  <1> QED BY <1>3, <1>4, <1>5, <1>6, <1>7, <1>8, <1>9, <1>10, <1>11 DEF HandlerStep, FlashStep

LEMMA DelayStep == DelayInv /\ [Next]_vars => DelayInv'
  <1> SUFFICES ASSUME DelayInv, [Next]_vars PROVE DelayInv'
    OBVIOUS
  <1>1. TypeInv'
    BY TypeStep DEF DelayInv
  <1>2. ASSUME UNCHANGED vars PROVE HandlerOf' /\ DelaySet' /\ DelayRead' /\ Owed'
    <2>1. UNCHANGED <<osc, loop, state, transDelay, colorDelay, registered, owed, raced, lost>>
      BY <1>2 DEF vars, memory, trans, history
    <2>2. HalfStored' = HalfStored /\ ForLight' = ForLight /\ DelayKept' = DelayKept
      BY <2>1 DEF HalfStored, ForLight, DelayKept
    <2> QED BY <2>1, <2>2 DEF DelayInv, HandlerOf, DelaySet, DelayRead, Owed
  <1> QED BY <1>1, <1>2, DelayReceive, DelayStore, DelayAdd, DelayHandler
          DEF DelayInv, Next, OscStep, StoreField

\* The light is paced by the delay of its colour, or of its transition, after any succession
\* of colours, transitions, blinks and flashes, although data.color.delay lies over the
\* colours of a transition: a call that no message was stored in, and that met no half stored
\* message, gives its context the delay that belongs to what it wrote.
THEOREM PacedByItsDelay == Spec => []PeriodIsDelay
  <1>1. DelayInv => PeriodIsDelay
    BY DEF DelayInv, DelayRead, DelayOf, PeriodIsDelay
  <1> QED BY <1>1, DelayInit, DelayStep, PTL DEF Spec

\* A message for the light that no later call has written has its context on the list,
\* whatever the interleaving of sios_add_source_ctx, which refuses a context that it finds
\* there, with the loop that takes it off; but for a message whose add is refused while the
\* loop is in a call that had looked at the state before the message was stored, or a device
\* that refuses the write.  Those, and only those, are told in `lost'.
THEOREM NoMessageIsForgotten == Spec => []NothingForgotten
  <1>1. DelayInv => NothingForgotten
    BY DEF DelayInv, Owed, ForLight, NothingForgotten
  <1> QED BY <1>1, DelayInit, DelayStep, PTL DEF Spec
=============================================================================
