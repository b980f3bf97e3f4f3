-------------------------------- MODULE Light --------------------------------
(***************************************************************************)
(* One light of modules/light/light.c.  The OSC server thread fills in     *)
(* struct light_dev (light_put_color, compute_blink_steps, flash) and      *)
(* registers one of its two source contexts; the writer loop calls         *)
(* dev_light_write and dev_flash_write, which read and change the same     *)
(* struct.  Nothing excludes one thread from the other: a step below makes *)
(* at most one store to a shared field, in program order, and its loads    *)
(* are of that field, or of fields whose stores on the other side would    *)
(* give the same where these loads are apart (`step' is stored after       *)
(* `steps', and compared with it; `direction' is stored after `step', and  *)
(* added to it).  The auto blink of light_init is a message here.          *)
(*                                                                         *)
(* What is promised of such a struct holds of calls and messages that have *)
(* not met; `raced', `torn' and `lost' are histories that tell which have. *)
(*                                                                         *)
(* The registry (module Sources) is reduced to what the light sees of it:  *)
(* an unlocked existence check, an insertion that waits for the mutex the  *)
(* loop holds while it calls handlers, and a removal after a handler that  *)
(* returns nonzero.  Colours are left out, but not that data.color.delay   *)
(* shares its memory with the transition's colours (a union).              *)
(***************************************************************************)
EXTENDS Integers

CONSTANTS
    MaxSteps,   \* the last index of rgb; MAX_RGB bounds a transition's steps
    Fades,      \* the kinds and lengths of the transitions that are asked for
    MaxDrift    \* bound: no transition is begun while the step is further out

ASSUME MaxStepsAssumption == MaxSteps \in Nat \ {0}
ASSUME FadesAssumption == Fades \subseteq {"BLINK", "TRANSITION"} \X (1 .. MaxSteps)
ASSUME MaxDriftAssumption == MaxDrift \in Nat

VARIABLES
    state,          \* SINGLE, BLINK or TRANSITION
    steps, step, direction, transDelay,     \* data.trans
    colorDelay,     \* what data.color.delay reads
    flashState,     \* flash.state
    registered,     \* which of the contexts ctx and flash_ctx are on the list
    osc,            \* the OSC thread: where it stands, its message
    loop,           \* the writer loop: where it stands, its locals
    lit,            \* the device: is the flash intensity on?
    owed,           \* history: a message for ctx is stored, and no call that began
                    \* after that has written
    raced,          \* history: a message was stored for the context being called
                    \* since its handler looked at the state, or was half stored then
    torn,           \* history: the step and its bounds were stored while the handler
                    \* was at them, or the handler used them half stored
    lost            \* history: the contexts that are taken off the list with a message
                    \* unserved: the add was refused in a raced call, or the device
                    \* has refused the write

trans == <<steps, step, direction, transDelay>>
memory == <<state, trans, colorDelay, flashState>>
history == <<owed, raced, torn, lost>>
vars == <<memory, registered, osc, loop, lit, history>>

Source == {"light", "flash"}

\* A message: what it asks for, the distance maxd of its colours, its context.
Rgb == [kind |-> "SINGLE", maxd |-> 0, src |-> "light"]
Fade(f) == [kind |-> f[1], maxd |-> f[2], src |-> "light"]
Flash == [kind |-> "FLASH", maxd |-> 0, src |-> "flash"]
Message == {Rgb, Flash} \cup {Fade(f) : f \in Fades}

Idle == [at |-> "idle", msg |-> Rgb]
Waiting == [at |-> "wait", kind |-> "SINGLE", delay |-> "min", index |-> 0, done |-> FALSE]

\* Where dev_light_write is at the step and its bounds, and where the handler of
\* a context has looked at the state it serves.
Stepping == {"readStep", "readEnd", "avance", "flip", "turn", "load", "store"}
Calling(s) ==
    IF s = "light"
    THEN Stepping \cup {"readColor", "write", "dropLight"}
    ELSE {"on", "off", "flashReturn", "dropFlash"}

\* The message at hand has stored some of its fields, and not all.
HalfStored ==
    \/ osc.at \in {"color", "steps", "step", "direction", "delay"}
    \/ osc.at = "state" /\ osc.msg.kind # "SINGLE"

\* Static memory is zero (SINGLE, NO_FLASH).
Init ==
    /\ state = "SINGLE"
    /\ steps = 0 /\ step = 0 /\ direction = 0 /\ transDelay = "zero"
    /\ colorDelay = "zero"
    /\ flashState = "NO_FLASH"
    /\ registered = {}
    /\ osc = Idle
    /\ loop = Waiting
    /\ lit = FALSE
    /\ owed = FALSE /\ raced = FALSE /\ torn = FALSE /\ lost = {}

-----------------------------------------------------------------------------
(* The OSC thread *)

Osc(from, to) ==
    /\ osc.at = from
    /\ osc' = [osc EXCEPT !.at = to]

\* A message arrives.  Two equal colours make compute_blink_steps return at
\* once; such a message changes nothing and is left out.
Receive(m) ==
    /\ osc.at = "idle"
    /\ m.maxd > 0 => {step, loop.index} \subseteq -MaxDrift .. MaxSteps + MaxDrift
    /\ osc' = [at |-> CASE m.kind = "SINGLE" -> "state"
                        [] m.kind = "FLASH" -> "flash"
                        [] OTHER -> "rgb",
               msg |-> m]
    /\ UNCHANGED <<memory, registered, loop, lit, history>>

\* A field is stored: the handler may be in the middle of a call.
Store ==
    /\ raced' = (raced \/ loop.at \in Calling(osc.msg.src))
    /\ UNCHANGED <<registered, loop, lit, lost>>

\* The loop of compute_blink_steps fills rgb[0] to rgb[maxd]; data.color.delay
\* lies over rgb[2] and rgb[3].
FillColors ==
    /\ Osc("rgb", "state")
    /\ colorDelay' = IF osc.msg.maxd >= 2 THEN "colors" ELSE colorDelay
    /\ Store
    /\ UNCHANGED <<state, trans, flashState, owed, torn>>

SetState ==
    /\ Osc("state", IF osc.msg.kind = "SINGLE" THEN "color" ELSE "steps")
    /\ state' = osc.msg.kind
    /\ Store
    /\ UNCHANGED <<trans, colorDelay, flashState, owed, torn>>

\* Mutant of SetColor: the delay of the colour is not set.
SetColorOnly ==
    /\ Osc("color", "check")
    /\ owed' = TRUE
    /\ Store
    /\ UNCHANGED <<memory, torn>>

\* light_put_color: data.color
SetColor ==
    /\ Osc("color", "check")
    /\ colorDelay' = "min"
    /\ owed' = TRUE
    /\ Store
    /\ UNCHANGED <<state, trans, flashState, torn>>

\* Mutant of SetSteps: the number of colours, not the index of the last.
SetStepsPastEnd ==
    /\ Osc("steps", "step")
    /\ steps' = osc.msg.maxd + 1
    /\ torn' = (loop.at \in Stepping)
    /\ Store
    /\ UNCHANGED <<state, step, direction, transDelay, colorDelay, flashState, owed>>

\* compute_blink_steps: data.trans, field by field
SetSteps ==
    /\ Osc("steps", "step")
    /\ steps' = osc.msg.maxd
    /\ torn' = (loop.at \in Stepping)
    /\ Store
    /\ UNCHANGED <<state, step, direction, transDelay, colorDelay, flashState, owed>>

\* Mutant of SetStep: the new transition goes on from the step of the old one.
SetStepForgotten ==
    /\ Osc("step", "direction")
    /\ torn' = (torn \/ loop.at \in Stepping)
    /\ Store
    /\ UNCHANGED <<memory, owed>>

SetStep ==
    /\ Osc("step", "direction")
    /\ step' = 1
    /\ torn' = (torn \/ loop.at \in Stepping)
    /\ Store
    /\ UNCHANGED <<state, steps, direction, transDelay, colorDelay, flashState, owed>>

SetDirection ==
    /\ Osc("direction", "delay")
    /\ direction' = 1
    /\ torn' = (torn \/ loop.at \in Stepping)
    /\ Store
    /\ UNCHANGED <<state, steps, step, transDelay, colorDelay, flashState, owed>>

SetDelay ==
    /\ Osc("delay", "check")
    /\ transDelay' = "trans"
    /\ owed' = TRUE
    /\ Store
    /\ UNCHANGED <<state, steps, step, direction, colorDelay, flashState, torn>>

\* flash(): the state, then the intensity and the delay
SetFlash ==
    /\ Osc("flash", "check")
    /\ flashState' = "FLASH"
    /\ Store
    /\ UNCHANGED <<state, trans, colorDelay, owed, torn>>

\* sios_add_source_ctx: a context that is found on the list is left there, ...
AddRefused ==
    /\ osc.msg.src \in registered
    /\ osc.at = "check"
    /\ osc' = Idle
    /\ lost' = CASE loop.at \notin Calling(osc.msg.src) -> lost \ {osc.msg.src}
                 [] raced -> lost \cup {osc.msg.src}
                 [] OTHER -> lost
    /\ UNCHANGED <<memory, registered, loop, lit, owed, raced, torn>>

\* ... any other is inserted once the loop is out of its handlers.
AddChecked ==
    /\ osc.msg.src \notin registered
    /\ Osc("check", "insert")
    /\ UNCHANGED <<memory, registered, loop, lit, history>>

AddInserts ==
    /\ loop.at = "wait"
    /\ osc.at = "insert"
    /\ osc' = Idle
    /\ registered' = registered \cup {osc.msg.src}
    /\ lost' = lost \ {osc.msg.src}
    /\ UNCHANGED <<memory, loop, lit, owed, raced, torn>>

-----------------------------------------------------------------------------
(* The writer loop *)

Loop(from, to) ==
    /\ loop.at = from
    /\ loop' = [loop EXCEPT !.at = to]

\* The loop calls the handler of a registered context, at any time: both
\* contexts have one descriptor, so that the period of either brings both.
Dispatch(s) ==
    /\ loop.at = "wait"
    /\ s \in registered
    /\ loop' = [Waiting EXCEPT !.at = s]
    /\ lost' = lost \ {s}
    /\ UNCHANGED <<memory, registered, osc, lit, owed, raced, torn>>

\* dev_light_write: the switch
LightState ==
    /\ loop.at = "light"
    /\ loop' = [loop EXCEPT !.at = IF state = "SINGLE" THEN "readColor" ELSE "readStep",
                            !.kind = state]
    /\ raced' = (HalfStored /\ osc.msg.src = "light")
    /\ torn' = (torn \/ (state # "SINGLE" /\ osc.at \in {"step", "direction"}))
    /\ UNCHANGED <<memory, registered, osc, lit, owed, lost>>

ReadColor ==
    /\ loop.at = "readColor"
    /\ loop' = [loop EXCEPT !.at = "write", !.delay = colorDelay, !.done = TRUE]
    /\ UNCHANGED <<memory, registered, osc, lit, history>>

\* rgb[step] and the delay ...
ReadStep ==
    /\ loop.at = "readStep"
    /\ loop' = [loop EXCEPT !.at = IF loop.kind = "TRANSITION" THEN "readEnd" ELSE "avance",
                            !.delay = transDelay]
    /\ UNCHANGED <<memory, registered, osc, lit, history>>

\* ... and, in a transition, whether this was the last step
ReadEnd ==
    /\ loop.at = "readEnd"
    /\ loop' = [loop EXCEPT !.at = "avance", !.done = (step >= steps)]
    /\ UNCHANGED <<memory, registered, osc, lit, history>>

\* avance_next_blink_color: at either end ...
Avance ==
    /\ loop.at = "avance"
    /\ IF step >= steps \/ step <= 0
       THEN Loop("avance", "flip")
       ELSE Loop("avance", "load")
    /\ UNCHANGED <<memory, registered, osc, lit, history>>

\* ... the direction, once loaded, is stored the other way round, ...
Flip ==
    /\ loop.at = "flip"
    /\ loop' = [loop EXCEPT !.at = "turn", !.index = direction]
    /\ UNCHANGED <<memory, registered, osc, lit, history>>

Turn ==
    /\ loop.at = "turn"
    /\ loop' = [loop EXCEPT !.at = "load", !.index = 0]
    /\ direction' = -loop.index
    /\ UNCHANGED <<state, steps, step, transDelay, colorDelay, flashState, registered, osc, lit, history>>

\* ... and the step, once loaded, is stored one further in it.
LoadStep ==
    /\ loop.at = "load"
    /\ loop' = [loop EXCEPT !.at = "store", !.index = step]
    /\ UNCHANGED <<memory, registered, osc, lit, history>>

StoreStep ==
    /\ loop.at = "store"
    /\ loop' = [loop EXCEPT !.at = "write", !.index = 0]
    /\ step' = loop.index + direction
    /\ UNCHANGED <<state, steps, direction, transDelay, colorDelay, flashState, registered, osc, lit, history>>

\* Mutant of WriteLight: a transition goes on at its end, as a blink does.
WriteLightOn ==
    /\ loop.at = "write"
    /\ loop' = IF loop.done /\ loop.kind = "SINGLE"
               THEN [loop EXCEPT !.at = "dropLight"]
               ELSE Waiting
    /\ owed' = (owed /\ raced)
    /\ raced' = (raced /\ loop'.at # "wait")
    /\ UNCHANGED <<memory, registered, osc, lit, torn, lost>>

\* What the call has read is written, ctx.period takes the delay, if it is another
\* one; return no_repeat.
WriteLight ==
    /\ loop.at = "write"
    /\ loop' = IF loop.done THEN [loop EXCEPT !.at = "dropLight"] ELSE Waiting
    /\ owed' = (owed /\ raced)
    /\ raced' = (raced /\ loop'.at # "wait")
    /\ UNCHANGED <<memory, registered, osc, lit, torn, lost>>

\* A failed write returns its negative result, which is nonzero.
WriteLightFails ==
    /\ Loop("write", "dropLight")
    /\ lost' = lost \cup {"light"}
    /\ UNCHANGED <<memory, registered, osc, lit, owed, raced, torn>>

\* dev_flash_write: the state decides what is written, and is turned round.  A
\* message between the load and the store counts as one before both or after.
FlashState ==
    /\ Loop("flash", IF flashState = "FLASH" THEN "on" ELSE "off")
    /\ flashState' = IF flashState = "FLASH" THEN "NO_FLASH" ELSE "FLASH"
    /\ raced' = FALSE
    /\ UNCHANGED <<state, trans, colorDelay, registered, osc, lit, owed, torn, lost>>

WriteFlash ==
    /\ Loop("on", "flashReturn") \/ Loop("off", "flashReturn")
    /\ lit' = (loop.at = "on")
    /\ UNCHANGED <<memory, registered, osc, history>>

WriteFlashFails ==
    /\ Loop("on", "dropFlash") \/ Loop("off", "dropFlash")
    /\ lost' = lost \cup {"flash"}
    /\ UNCHANGED <<memory, registered, osc, lit, owed, raced, torn>>

\* Mutant of FlashReturns: the flash is done when it has been switched on.
FlashReturnsInverted ==
    /\ Loop("flashReturn", IF flashState = "NO_FLASH" THEN "dropFlash" ELSE "wait")
    /\ raced' = (raced /\ loop'.at # "wait")
    /\ UNCHANGED <<memory, registered, osc, lit, owed, torn, lost>>

\* return dev->flash.state, read again: FLASH is nonzero
FlashReturns ==
    /\ Loop("flashReturn", IF flashState = "FLASH" THEN "dropFlash" ELSE "wait")
    /\ raced' = (raced /\ loop'.at # "wait")
    /\ UNCHANGED <<memory, registered, osc, lit, owed, torn, lost>>

\* Mutant of Drop: either handler's result takes the light off the list.
DropWrongContext ==
    /\ loop.at \in {"dropLight", "dropFlash"}
    /\ loop' = Waiting
    /\ registered' = registered \ {"light"}
    /\ raced' = FALSE
    /\ UNCHANGED <<memory, osc, lit, owed, torn, lost>>

\* call_context_handler removes a context whose handler returned nonzero.
Drop ==
    /\ loop.at \in {"dropLight", "dropFlash"}
    /\ loop' = Waiting
    /\ registered' = registered \ {IF loop.at = "dropLight" THEN "light" ELSE "flash"}
    /\ raced' = FALSE
    /\ UNCHANGED <<memory, osc, lit, owed, torn, lost>>

-----------------------------------------------------------------------------
OscStep ==
    \/ FillColors \/ SetState \/ SetColor \/ SetSteps \/ SetStep \/ SetDirection
    \/ SetDelay \/ SetFlash \/ AddRefused \/ AddChecked \/ AddInserts

HandlerStep ==
    \/ LightState \/ ReadColor \/ ReadStep \/ ReadEnd
    \/ Avance \/ Flip \/ Turn \/ LoadStep \/ StoreStep
    \/ WriteLight \/ WriteLightFails
    \/ FlashState \/ WriteFlash \/ WriteFlashFails \/ FlashReturns \/ Drop

Next ==
    \/ \E m \in Message : Receive(m)
    \/ OscStep
    \/ \E s \in Source : Dispatch(s)
    \/ HandlerStep

Spec == Init /\ [][Next]_vars

\* A handler, once called, runs to its end; the loop comes round to every context
\* on its list; a thread that waits for the mutex gets it.  Messages need not come.
Fairness ==
    /\ WF_vars(OscStep) /\ WF_vars(HandlerStep)
    /\ SF_vars(AddInserts)
    /\ \A s \in Source : SF_vars(Dispatch(s))

FairSpec == Spec /\ Fairness

-----------------------------------------------------------------------------
(* Properties *)

\* Every variable has its type.
TypeOK ==
    /\ state \in {"SINGLE", "BLINK", "TRANSITION"}
    /\ steps \in 0 .. MaxSteps
    /\ step \in Int
    /\ direction \in {-1, 0, 1}
    /\ transDelay \in {"zero", "trans"}
    /\ colorDelay \in {"zero", "min", "colors"}
    /\ flashState \in {"FLASH", "NO_FLASH"}
    /\ registered \subseteq Source
    /\ osc.at \in {"idle", "rgb", "state", "color", "steps", "step", "direction", "delay",
                   "flash", "check", "insert"}
    /\ osc.msg \in Message
    /\ loop.at \in {"wait", "light", "flash"} \cup Calling("light") \cup Calling("flash")
    /\ loop.kind \in {"SINGLE", "BLINK", "TRANSITION"}
    /\ loop.delay \in {"zero", "min", "colors", "trans"}
    /\ loop.index \in Int
    /\ loop.done \in BOOLEAN
    /\ lit \in BOOLEAN
    /\ owed \in BOOLEAN /\ raced \in BOOLEAN /\ torn \in BOOLEAN /\ lost \subseteq Source

\* dev_light_write reads rgb only at an entry the running transition filled in: the
\* step swings between 0 and steps, whatever messages came before, unless the
\* last transition's fields were stored while avance_next_blink_color ran.  The
\* next transition that is stored between two calls sets the step right again.
StepIsFilled ==
    loop.at = "readStep" /\ ~torn => step \in 0 .. steps

\* The period the handler sets is the delay of what it wrote, though the colours of
\* a transition share the memory of data.color.delay: unless a message was stored
\* in the middle of that very call, or the call in the middle of a message.
PeriodIsDelay ==
    loop.at = "write" /\ ~raced =>
        loop.delay = IF loop.kind = "SINGLE" THEN "min" ELSE "trans"

\* A message for the light that no later call has written has its context on the
\* list, so that one will, unless its add was refused while the loop was in a call
\* that had looked at the state before the message was stored.  The next message
\* makes up for it.
NothingForgotten ==
    owed /\ osc.at = "idle" /\ loop.at = "wait" =>
        "light" \in registered \cup lost

\* A flash that is switched on is switched off, unless another message comes, the
\* device refuses the write (light.c calls the method "flash"), or the last message
\* was stored, and its add refused, between the turn of flash.state and the return.
FlashEnds ==
    lit ~> ~lit \/ "flash" \in lost \/ osc.at # "idle"

\* A transition comes to its end and leaves the list, unless another message
\* comes (light.c: "smooth fading to color"), or its fields were stored while
\* avance_next_blink_color ran.
TransitionEnds ==
    state = "TRANSITION" /\ "light" \in registered /\ ~torn
        ~> "light" \notin registered \/ osc.at # "idle"
=============================================================================
