------------------------------ MODULE PwmService ------------------------------
(***************************************************************************)
(* The PWM beep service: the queue of pwm_beep.c (PwmRing) driven by the   *)
(* two threads that really use it.  The OSC server thread runs             *)
(* pwm_beep_handler or pwm_sweep_handler, which put beeps in the queue and *)
(* then register the source context; the writer loop of the platform       *)
(* (Sources) calls dev_pwm_beep_write, which takes one beep and asks for   *)
(* its own removal when it leaves the queue empty.  pwm_buzz.c has the     *)
(* same handlers around the same queue.                                    *)
(***************************************************************************)
EXTENDS Naturals, Sequences, FiniteSets

CONSTANTS
    Size, Beep, Empty, Partial, SweepLengths,       \* of PwmRing
    Main, Udp, ListHead, NoOwner, Src, DeviceFd     \* of Sources

ASSUME PwmServiceAssumption ==
    /\ Size \in Nat \ {0, 1} /\ Empty \notin Beep /\ Partial \notin Beep
    /\ SweepLengths \subseteq Nat
    /\ ListHead # Src /\ Main # Udp
    /\ {Main, Udp} \cap {"R", "W"} = {} /\ NoOwner \notin {Main, Udp, "R", "W"}

VARIABLES
    beeps, beep_head, beep_tail, put, take, latest, overrun, revived,
    nxt, prv, owner, halt, pc, op, ctx, tmp, walk, ptr, held, fds, event,
    osc             \* where the OSC server thread stands in a handler

ringVars == <<beeps, beep_head, beep_tail, put, take, latest, overrun, revived>>
sourceVars == <<nxt, prv, owner, halt, pc, op, ctx, tmp, walk, ptr, held, fds, event>>
vars == <<ringVars, sourceVars, osc>>

R == INSTANCE PwmRing

\* dev_pwm_beep_src, a paced writer, is the one context.
S == INSTANCE Sources WITH
        Ctx <- {Src}, Client <- {Main, Udp}, Kind <- [c \in {Src} |-> {"W"}],
        Prio <- [c \in {Src} |-> 0], Paced <- {Src},
        Fd <- [c \in {Src} |-> DeviceFd], FdNum <- {DeviceFd},
        Calls <- {<<Udp, "add", Src>>}

Init == R!Init /\ S!Init /\ osc = "idle"

-----------------------------------------------------------------------------
(* The OSC server thread *)

\* A message arrives.  Its put may be dropped, for a full queue or for a bad
\* argument; the registration follows in either case.
Message ==
    /\ osc = "idle"
    /\ \/ R!PutDrop /\ osc' = "add"
       \/ /\ \/ \E b \in Beep : R!PutCheck(b)
             \/ \E b \in Beep, n \in SweepLengths : R!SweepStart(b, n)
          /\ osc' = "put"
    /\ UNCHANGED sourceVars

Put ==
    /\ osc = "put"
    /\ R!PutBegin \/ R!PutFill \/ R!PutAdvance
    /\ osc' = IF put'.at = "idle" THEN "add" ELSE "put"
    /\ UNCHANGED sourceVars

\* Mutant of AddSource: the handler forgets to register the source.
AddSourceForgotten ==
    /\ osc = "add"
    /\ osc' = "idle"
    /\ UNCHANGED <<ringVars, sourceVars>>

\* sios_add_source_ctx(&dev_pwm_beep_src)
AddSource ==
    /\ osc = "add"
    /\ S!Call(Udp, "add", Src)
    /\ osc' = "adding"
    /\ UNCHANGED ringVars

HandlerEnds ==
    /\ S!Return(Udp)
    /\ osc' = "idle"
    /\ UNCHANGED ringVars

-----------------------------------------------------------------------------
(* The writer loop *)

\* dev_pwm_beep_write runs while the loop is in the handler of the context.
InHandler == pc["W"] = "handler"

Take ==
    /\ InHandler
    /\ \/ R!TakeNothing \/ R!TakeStart \/ R!TakeWrite \/ R!TakeAdvance
       \/ R!TakePeriod \/ R!TakeDelay \/ R!TakeLast
    /\ UNCHANGED <<sourceVars, osc>>

TakeReturn ==
    /\ InHandler
    /\ R!TakeReturn
    /\ S!HandlerReturns("W")
    /\ pc'["W"] = IF take = "drop" THEN "remove" ELSE "reset"
    /\ UNCHANGED osc

\* The rest of source.c goes on as it does for any context.
Registry ==
    /\ \/ S!Exists(Udp) \/ S!Lock(Udp) \/ S!Insert(Udp) \/ S!Unlock(Udp)
       \/ S!SetHalt
       \/ \E l \in S!List :
            \/ S!CheckHalt(l) \/ S!LockScan(l) \/ S!Scan(l) \/ S!UnlockScan(l)
            \/ S!SelectFails(l) \/ S!SelectReturns(l)
            \/ S!LockDispatch(l) \/ S!Dispatch(l) \/ S!UnlockDispatch(l)
            \/ S!Remove(l) \/ S!Reset(l)
    /\ UNCHANGED <<ringVars, osc>>

Next == Message \/ Put \/ AddSource \/ HandlerEnds \/ Take \/ TakeReturn \/ Registry

Spec == Init /\ [][Next]_vars

-----------------------------------------------------------------------------
\* Both threads keep running, a lock that is released again and again is
\* obtained, and the device becomes writable, and a period elapses, sooner or
\* later.  Messages need never come.
OnRing(A) == A /\ UNCHANGED <<ringVars, osc>>

Fairness ==
    /\ WF_vars(Put) /\ WF_vars(AddSource) /\ WF_vars(HandlerEnds)
    /\ WF_vars(Take) /\ WF_vars(TakeReturn)
    /\ WF_vars(OnRing(S!Exists(Udp) \/ S!Insert(Udp) \/ S!Unlock(Udp)))
    /\ SF_vars(OnRing(S!Lock(Udp)))
    /\ WF_vars(OnRing(\/ S!CheckHalt("W") \/ S!Scan("W") \/ S!UnlockScan("W")
                      \/ S!SelectFails("W") \/ S!SelectReturns("W")
                      \/ S!Dispatch("W") \/ S!UnlockDispatch("W")
                      \/ S!Remove("W") \/ S!Reset("W")))
    /\ SF_vars(OnRing(S!LockScan("W") \/ S!LockDispatch("W")))
    /\ SF_vars(OnRing(S!Scan("W") /\ fds' # fds))
    /\ SF_vars(OnRing(S!SelectReturns("W") /\ DeviceFd \in fds'["W"]))

FairSpec == Spec /\ Fairness

-----------------------------------------------------------------------------
(* Properties *)

TypeOK == R!TypeOK /\ S!TypeOK /\ osc \in {"idle", "put", "add", "adding"}

\* The write handler runs only while the source is registered and the writer
\* loop holds the list, so that the queue has one consumer.
TakenByRegisteredSource ==
    take # "idle" => /\ InHandler
                     /\ owner["W"] = "W"
                     /\ S!Linked("W", Src)

\* The write handler has taken its last look at the ring, found it empty, and its
\* source is about to be removed.
Leaving == take = "drop" \/ pc["W"] = "remove"

\* The beep of a message that comes to its registration while no handler has taken
\* its last look leads to a write, though no other message comes: a handler that is
\* under way sees the beep, or the registration adds the source.  A beep whose message
\* comes later than that look may wait for the next message: its registration still
\* finds the source, which the loop then removes.
WrittenIfSeen ==
    osc = "add" /\ R!HasBeeps # 0 /\ ~Leaving
        ~> take = "advance" \/ R!HasBeeps = 0 \/ halt
=============================================================================
