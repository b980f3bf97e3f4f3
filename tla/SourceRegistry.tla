---------------------------- MODULE SourceRegistry ----------------------------
(***************************************************************************)
(* What the event-source registry promises the threads that use it: every  *)
(* call of sios_add_source_ctx and sios_del_source_ctx takes effect at one *)
(* instant between its start and its end, and its answer is right at that  *)
(* instant; the loops call handlers of registered contexts only, and no    *)
(* client changes what a loop serves while a handler of that loop runs.    *)
(* platform/source.c and platform/core.c implement it with two linked      *)
(* lists, two mutexes and unlocked walks (Sources).                        *)
(***************************************************************************)

CONSTANTS
    Ctx,        \* the source contexts
    Client,     \* the threads that call add and del
    Calls,      \* the calls they make: <<client, "add" | "del", context>>
    Loop,       \* the loop threads
    ServedBy,   \* [Loop -> SUBSET Ctx], the contexts each loop polls
    Nobody      \* no context

VARIABLES
    registered, \* the registered contexts
    call,       \* per client, its call: where it is at, its op and ctx
    called      \* per loop, the context whose handler runs

vars == <<registered, call, called>>

NoCall == [at |-> "idle", op |-> "add", ctx |-> Nobody]

Init ==
    /\ registered = {}
    /\ call = [t \in Client |-> NoCall]
    /\ called = [l \in Loop |-> Nobody]

-----------------------------------------------------------------------------
(* Clients *)

Polled == UNION {ServedBy[l] : l \in Loop}

\* No loop that serves context c is in a handler.
Undisturbed(c) == \A l \in Loop : called[l] # Nobody => c \notin ServedBy[l]

Call(t, o, c) ==
    /\ call[t].at = "idle"
    /\ call' = [call EXCEPT ![t] = [at |-> "called", op |-> o, ctx |-> c]]
    /\ UNCHANGED <<registered, called>>

\* Client t waits for the answer of an add or a del.
Waits(t, o) == call[t].at = "called" /\ call[t].op = o

Answer(t, answer) == call' = [call EXCEPT ![t].at = answer]

Add(t) ==
    /\ Waits(t, "add")
    /\ call[t].ctx \in Polled \ registered
    /\ Undisturbed(call[t].ctx)
    /\ registered' = registered \cup {call[t].ctx}
    /\ Answer(t, "added")
    /\ UNCHANGED called

\* A context with no poll bit is on no list; the answer is that of a success.
AddUnpolled(t) ==
    /\ Waits(t, "add")
    /\ call[t].ctx \notin Polled
    /\ Answer(t, "added")
    /\ UNCHANGED <<registered, called>>

Refuse(t) ==
    /\ Waits(t, "add")
    /\ call[t].ctx \in registered
    /\ Answer(t, "refused")
    /\ UNCHANGED <<registered, called>>

\* The context may have gone by itself between the two walks of a del.
Delete(t) ==
    /\ Waits(t, "del")
    /\ Undisturbed(call[t].ctx)
    /\ registered' = registered \ {call[t].ctx}
    /\ Answer(t, "deleted")
    /\ UNCHANGED called

\* `Not there' is the answer of an unlocked walk: another thread that adds the
\* context may have done so behind it.
Absent(t) ==
    /\ Waits(t, "del")
    /\ \/ call[t].ctx \notin registered
       \/ \E u \in Client \ {t} : <<u, "add", call[t].ctx>> \in Calls
    /\ Answer(t, "absent")
    /\ UNCHANGED <<registered, called>>

Return(t) ==
    /\ call[t].at \notin {"idle", "called"}
    /\ call' = [call EXCEPT ![t] = NoCall]
    /\ UNCHANGED <<registered, called>>

-----------------------------------------------------------------------------
(* Loops *)

CallHandler(l) ==
    /\ called[l] = Nobody
    /\ \E c \in registered \cap ServedBy[l] : called' = [called EXCEPT ![l] = c]
    /\ UNCHANGED <<registered, call>>

\* A handler that returns nonzero has its context removed.
HandlerEnds(l) ==
    /\ called[l] # Nobody
    /\ called' = [called EXCEPT ![l] = Nobody]
    /\ registered' \in {registered, registered \ {called[l]}}
    /\ UNCHANGED call

Next ==
    \/ \E k \in Calls : Call(k[1], k[2], k[3])
    \/ \E t \in Client : \/ Add(t) \/ AddUnpolled(t) \/ Refuse(t)
                         \/ Delete(t) \/ Absent(t) \/ Return(t)
    \/ \E l \in Loop : CallHandler(l) \/ HandlerEnds(l)

Spec == Init /\ [][Next]_vars
=============================================================================
