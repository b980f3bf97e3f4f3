------------------------------ MODULE Lifecycle ------------------------------
(***************************************************************************)
(* The life of a SIOS process: main starts the OSC server and the two      *)
(* loops, adds, loads and initialises the configured modules, waits for a  *)
(* signal, unloads the modules and stops the loops (main.c, core.c,        *)
(* module.c, object.c, class.c, osc.c and the init and exit functions of   *)
(* the six modules).  Meanwhile the OSC thread, the loops and the threads  *)
(* of the matrix and dnssd modules run.                                    *)
(*                                                                         *)
(* An init or exit function is a sequence of steps, which main takes one   *)
(* by one; a step that fails goes on with the steps of its error path.     *)
(* The registry of contexts, node by node in Sources, is a set here, and a *)
(* loop holds its mutex while it dispatches.  crash is the first step into *)
(* code or data that is not there: a handler or a thread of a module that  *)
(* was unloaded, an object that is on no list, a function that dlsym did   *)
(* not find.                                                               *)
(***************************************************************************)
EXTENDS Naturals, Sequences, FiniteSets, SequencesExt

CONSTANTS
    Configs,        \* the module entries a configuration file may give, in its order
    MaxFailures     \* bound on the calls to the system that fail

VARIABLES
    config,     \* the module entries: which module, and is its class configured
    main,       \* the main thread: phase, modules to go, entry at hand, steps to go,
                \* and whether it is inside the mDNS core
    modules,    \* module_list
    mapped,     \* the modules whose code is mapped
    objects,    \* object_list
    methods,    \* the modules whose handlers the OSC server knows
    device,     \* the descriptors: none, open, set in the context, or closed
    listed,     \* the contexts on the readers' and the writers' list
    loop,       \* the two loops
    osc,        \* the OSC thread: off, idle, or the module whose handler it runs
    own,        \* the threads of matrix and dnssd
    met,        \* history: the modules a message has met on their way in or out, or gone
    halted,     \* the halt flags that are set
    failures, crash

vars == <<config, main, modules, mapped, objects, methods, device, listed, loop, osc, own,
          met, halted, failures, crash>>
threads == <<loop, osc, own, met>>
registries == <<modules, mapped, objects, methods, device, listed, halted>>

Module == {"beep", "buzz", "light", "matrix", "accmag", "dnssd"}
Entry == [mod : Module, classed : BOOLEAN]
List == {"R", "W"}
Context == {"beep", "buzz", "light", "flash", "acc", "mag"}
Descriptor == {"beep", "buzz", "light", "matrix", "acc", "mag"}

ListOf(c) == IF c \in {"acc", "mag"} THEN "R" ELSE "W"
Owner(c) == CASE c = "flash" -> "light" [] c \in {"acc", "mag"} -> "accmag" [] OTHER -> c
DeviceOf(c) == IF c = "flash" THEN "light" ELSE c
DevicesOf(m) == {d \in Descriptor : Owner(d) = m}
\* The contexts a message handler of the module may add.
Addable(m) == CASE m \in {"beep", "buzz"} -> {m} [] m = "light" -> {"light", "flash"} [] OTHER -> {}

ASSUME LifecycleAssumption ==
    /\ Configs \subseteq Seq(Entry)
    /\ MaxFailures \in Nat

-----------------------------------------------------------------------------
(* The init and exit functions of the modules *)

pwm_beep_init == <<"register", "open", "methods", "device">>
pwm_beep_exit == <<"delete", "close", "deregister", "unload">>
pwm_buzz_init == <<"register", "open", "methods", "device">>
pwm_buzz_exit == <<"delete", "close", "deregister", "unload">>
light_init == <<"open", "register", "methods", "contexts">>
light_exit == <<"delete", "close", "deregister", "unload">>
matrix_init == <<"register", "open", "methods", "device", "thread">>
matrix_exit == <<"halt", "join", "close", "deregister", "unload">>
accmag_init == <<"open", "register", "contexts", "methods">>
accmag_exit == <<"close", "delete", "deregister", "unload">>
dnssd_init == <<"register", "init_core", "thread", "service">>
sios_dnssd_close == <<"no_service", "halt", "no_service">>
dnssd_exit == <<"deregister">> \o sios_dnssd_close \o <<"close_core", "unload">>

InitSteps(m) ==
    CASE m = "beep"   -> pwm_beep_init [] m = "buzz"   -> pwm_buzz_init
      [] m = "light"  -> light_init    [] m = "matrix" -> matrix_init
      [] m = "accmag" -> accmag_init   [] m = "dnssd"  -> dnssd_init
ExitSteps(m) ==
    CASE m = "beep"   -> pwm_beep_exit [] m = "buzz"   -> pwm_buzz_exit
      [] m = "light"  -> light_exit    [] m = "matrix" -> matrix_exit
      [] m = "accmag" -> accmag_exit   [] m = "dnssd"  -> dnssd_exit

\* What follows a failed step.  beep and buzz do not look whether their object was
\* registered; dnssd cleans up when its service is refused, and then reports success.
OnFailure(m, step) ==
    CASE m \in {"beep", "buzz"} /\ step = "register" -> Tail(InitSteps(m))
      [] m \in {"beep", "buzz", "matrix"} /\ step = "open" -> <<"deregister", "unload">>
      [] m = "dnssd" /\ step \in {"init_core", "thread"} -> <<"deregister", "unload">>
      [] m = "dnssd" /\ step = "service" ->
             <<"deregister">> \o sios_dnssd_close \o <<"close_core">>
      [] OTHER -> <<"unload">>

StartSteps == <<"osc", "readers", "writers", "modules">>
StopSteps == <<"halt_loops", "join_readers", "join_writers", "halt_osc">>

-----------------------------------------------------------------------------
Running == main.phase # "ended" /\ crash = "none"
Mod == main.entry.mod
At(step) == Running /\ main.steps # <<>> /\ Head(main.steps) = step
Done == main' = [main EXCEPT !.steps = Tail(@)]
MayFail == failures < MaxFailures /\ failures' = failures + 1
Fails(step) == main' = [main EXCEPT !.steps = OnFailure(Mod, step)]

Crash(why) ==
    /\ crash' = why
    /\ UNCHANGED <<config, main, registries, threads, failures>>

NoEntry == [mod |-> "none", classed |-> FALSE]

Init ==
    /\ config \in Configs
    /\ main = [phase |-> "start", todo |-> <<>>, entry |-> NoEntry, steps |-> StartSteps,
               inCore |-> FALSE]
    /\ modules = <<>> /\ mapped = {} /\ objects = <<>> /\ methods = {}
    /\ device = [d \in Descriptor |-> "none"]
    /\ listed = {} /\ halted = {}
    /\ loop = [l \in List |-> [at |-> "off", todo |-> {}, ctx |-> "none"]]
    /\ osc = "off"
    /\ own = [m \in {"matrix", "dnssd"} |-> "off"] /\ met = {}
    /\ failures = 0 /\ crash = "none"

-----------------------------------------------------------------------------
(* The main thread: start, and the loading of modules *)

\* sios_osc_init and sios_core_init; main ends the process when a thread or a port
\* cannot be had.
StartThread ==
    /\ UNCHANGED <<config, registries, own, met, crash>>
    /\ \/ At("osc") /\ osc' = "idle" /\ Done /\ UNCHANGED <<loop, failures>>
       \/ At("readers") /\ loop' = [loop EXCEPT !["R"].at = "check"]
          /\ Done /\ UNCHANGED <<osc, failures>>
       \/ At("writers") /\ loop' = [loop EXCEPT !["W"].at = "check"]
          /\ Done /\ UNCHANGED <<osc, failures>>
       \/ /\ At("osc") \/ At("readers") \/ At("writers")
          /\ MayFail
          /\ main' = [main EXCEPT !.phase = "ended", !.steps = <<>>]
          /\ UNCHANGED <<loop, osc>>

\* sios_add_module refuses an entry for a file that is on the list.  The parser puts the
\* newest entry first, so of two for one file it is the last in the configuration that stays.
Added == {i \in DOMAIN config : \A j \in DOMAIN config : j > i => config[j].mod # config[i].mod}

\* Mutant of AddModules: an entry for a file that is on the list is not refused.
AddModulesTwice ==
    /\ At("modules")
    /\ modules' = [i \in DOMAIN config |-> config[i].mod]
    /\ main' = [main EXCEPT !.phase = "init", !.todo = config, !.steps = <<>>]
    /\ UNCHANGED <<config, mapped, objects, methods, device, listed, halted, threads, failures, crash>>

\* sios_add_module puts the newest first too: the list has the order of the configuration.
AddModules ==
    /\ At("modules")
    /\ \E place \in [1 .. Cardinality(Added) -> Added] :
          /\ \A i, j \in DOMAIN place : i < j => place[i] < place[j]
          /\ modules' = [i \in DOMAIN place |-> config[place[i]].mod]
          /\ main' = [main EXCEPT !.phase = "init", !.steps = <<>>,
                                  !.todo = [i \in DOMAIN place |-> config[place[i]]]]
    /\ UNCHANGED <<config, mapped, objects, methods, device, listed, halted, threads, failures, crash>>

\* Main turns to the next module, or to what follows the last one.
Turn(phase) == Running /\ main.phase = phase /\ main.steps = <<>> /\ main.todo # <<>>
Take(steps) ==
    main' = [main EXCEPT !.entry = Head(main.todo), !.todo = Tail(@), !.steps = steps]

\* The module leaves module_list.
ListDel(m) == \E i \in DOMAIN modules : modules[i] = m /\ modules' = RemoveAt(modules, i)

\* sios_load_module and the parameters in sios_init_module.  A module that cannot be
\* opened stays on the list; one without its symbols, or of another version, leaves it;
\* the function that sets a parameter is called whether it was found or not.
Load ==
    /\ Turn("init")
    /\ LET m == Head(main.todo).mod
       IN \/ /\ Take(InitSteps(m))
             /\ mapped' = mapped \cup {m}
             /\ UNCHANGED <<modules, failures, crash>>
          \/ /\ MayFail
             /\ \/ Take(<<>>) /\ UNCHANGED <<modules, mapped, crash>>
                \/ Take(<<>>) /\ ListDel(m) /\ UNCHANGED <<mapped, crash>>
                \/ Take(<<"unload">>) /\ mapped' = mapped \cup {m} /\ UNCHANGED <<modules, crash>>
                \/ Take(<<>>) /\ crash' = "parameter" /\ mapped' = mapped \cup {m}
                   /\ UNCHANGED modules
    /\ UNCHANGED <<config, objects, methods, device, listed, halted, threads>>

\* sios_object_register: refused without a class.  The object goes in front of one
\* that may be gone with its module.
Register ==
    /\ At("register")
    /\ IF ~main.entry.classed
       THEN Fails("register") /\ UNCHANGED <<objects, crash>>
       ELSE IF objects # <<>> /\ Head(objects) \notin mapped
       THEN crash' = "object" /\ UNCHANGED <<objects, main>>
       ELSE objects' = <<Mod>> \o objects /\ Done /\ UNCHANGED crash
    /\ UNCHANGED <<config, modules, mapped, methods, device, listed, halted, threads, failures>>

\* light and accmag fill in their contexts as they open; accmag keeps what it could open.
Open ==
    /\ At("open")
    /\ LET set(D, state) == [d \in Descriptor |-> IF d \in D THEN state ELSE device[d]]
       IN \/ /\ device' = set(DevicesOf(Mod), IF Mod \in {"light", "accmag"} THEN "set" ELSE "open")
             /\ Done /\ UNCHANGED failures
          \/ /\ MayFail /\ Fails("open")
             /\ device' = IF Mod = "accmag" THEN set({"acc"}, "set") ELSE device
    /\ UNCHANGED <<config, modules, mapped, objects, methods, listed, halted, threads, crash>>

\* dev_pwm_beep_src.fd = fd and the like
SetDevice ==
    /\ At("device")
    /\ device' = [device EXCEPT ![Mod] = "set"]
    /\ Done
    /\ UNCHANGED <<config, modules, mapped, objects, methods, listed, halted, threads, failures, crash>>

\* sios_osc_add_method_descs: from now on messages reach the module.
AddMethods ==
    /\ At("methods")
    /\ methods' = methods \cup {Mod}
    /\ Done
    /\ UNCHANGED <<config, modules, mapped, objects, device, listed, halted, threads, failures, crash>>

\* A list's mutex is free.
Free(l) == loop[l].at \notin {"dispatch", "handler"}

\* sios_add_source_ctx by an init function: both sensors of accmag, or the light that
\* blinks from the start, if it is to.
AddContexts ==
    /\ At("contexts")
    /\ \E C \in IF Mod = "accmag" THEN {{"acc", "mag"}} ELSE {{}, {"light"}} :
          /\ \A c \in C : Free(ListOf(c))
          /\ listed' = listed \cup C
    /\ Done
    /\ UNCHANGED <<config, modules, mapped, objects, methods, device, halted, threads, failures, crash>>

StartOwnThread ==
    /\ At("thread")
    /\ \/ own' = [own EXCEPT ![Mod] = "check"] /\ Done /\ UNCHANGED failures
       \/ MayFail /\ Fails("thread") /\ UNCHANGED own
    /\ UNCHANGED <<config, registries, loop, osc, met, crash>>

\* The calls into the mDNS core: mDNS_Init, mDNS_RegisterService,
\* mDNS_DeregisterService, mDNS_Close.
CoreCall == \/ At("init_core") \/ At("service") \/ At("no_service") \/ At("close_core")
EnterCore ==
    /\ CoreCall /\ ~main.inCore
    /\ main' = [main EXCEPT !.inCore = TRUE]
    /\ UNCHANGED <<config, registries, threads, failures, crash>>
LeaveCore ==
    /\ CoreCall /\ main.inCore
    /\ \/ main' = [main EXCEPT !.inCore = FALSE, !.steps = Tail(@)] /\ UNCHANGED failures
       \/ /\ At("init_core") \/ At("service")
          /\ MayFail
          /\ main' = [main EXCEPT !.inCore = FALSE, !.steps = OnFailure(Mod, Head(@))]
    /\ UNCHANGED <<config, registries, threads, crash>>

Loaded ==
    /\ Running /\ main.phase = "init" /\ main.steps = <<>> /\ main.todo = <<>>
    /\ main' = [main EXCEPT !.phase = "run"]
    /\ UNCHANGED <<config, registries, threads, failures, crash>>

-----------------------------------------------------------------------------
(* The main thread: shutdown *)

\* SIGINT or SIGQUIT ends the sleep of main.
Signal ==
    /\ Running /\ main.phase = "run"
    /\ main' = [main EXCEPT !.phase = "exit",
                            !.todo = [i \in DOMAIN modules |-> [mod |-> modules[i], classed |-> TRUE]]]
    /\ UNCHANGED <<config, registries, threads, failures, crash>>

\* sios_unload_modules_all; a module that could not be opened has no exit function.
BeginExit ==
    /\ Turn("exit")
    /\ IF Head(main.todo).mod \in mapped
       THEN /\ Take(ExitSteps(Head(main.todo).mod))
            /\ met' = met \cup ({Head(main.todo).mod} \cap {osc})
            /\ UNCHANGED <<config, registries, loop, osc, own, failures, crash>>
       ELSE Crash("no exit function")

\* Mutant of DeleteContext: the list is changed without its mutex.
DeleteContextUnlocked ==
    /\ At("delete")
    /\ listed' = listed \ {IF Mod = "accmag" THEN "acc" ELSE Mod}
    /\ Done
    /\ UNCHANGED <<config, modules, mapped, objects, methods, device, halted, threads, failures, crash>>

\* sios_del_source_ctx, which waits for the mutex when it finds the context: one per
\* module, for light_exit does not know flash_ctx and accmag_exit counts one source.
DeleteContext ==
    /\ At("delete")
    /\ LET c == IF Mod = "accmag" THEN "acc" ELSE Mod
       IN /\ c \in listed => Free(ListOf(c))
          /\ listed' = listed \ {c}
    /\ Done
    /\ UNCHANGED <<config, modules, mapped, objects, methods, device, halted, threads, failures, crash>>

Close ==
    /\ At("close")
    /\ device' = [device EXCEPT ![IF Mod = "accmag" THEN "acc" ELSE Mod] = "closed"]
    /\ Done
    /\ UNCHANGED <<config, modules, mapped, objects, methods, listed, halted, threads, failures, crash>>

\* Mutant of Deregister: the object leaves its class only.
DeregisterFromClass == At("deregister") /\ Done /\ UNCHANGED <<config, registries, threads, failures, crash>>

\* sios_object_deregister: list_del on an object that is on no list, or beside one
\* whose module is gone, ends the process.
Deregister ==
    /\ At("deregister")
    /\ LET here == {i \in DOMAIN objects : objects[i] = Mod}
           near == {j \in DOMAIN objects : \E i \in here : j = i + 1 \/ i = j + 1}
       IN \/ /\ \A j \in near : objects[j] \in mapped
             /\ \E i \in here : objects' = RemoveAt(objects, i)
             /\ Done /\ UNCHANGED crash
          \/ /\ here = {} \/ \E j \in near : objects[j] \notin mapped
             /\ crash' = "object" /\ UNCHANGED <<objects, main>>
    /\ UNCHANGED <<config, modules, mapped, methods, device, listed, halted, threads, failures>>

HaltOwnThread ==
    /\ At("halt")
    /\ halted' = halted \cup {Mod}
    /\ Done
    /\ UNCHANGED <<config, modules, mapped, objects, methods, device, listed, threads, failures, crash>>

\* Mutant of JoinOwnThread: the module does not wait for its thread.
JoinOwnThreadAtOnce == At("join") /\ Done /\ UNCHANGED <<config, registries, threads, failures, crash>>

JoinOwnThread ==
    /\ At("join") /\ own[Mod] = "ended"
    /\ Done
    /\ UNCHANGED <<config, registries, threads, failures, crash>>

\* sios_unload_module: dlclose, and off the list.  The methods stay.
Unload ==
    /\ At("unload")
    /\ mapped' = mapped \ {Mod}
    /\ ListDel(Mod)
    /\ Done
    /\ UNCHANGED <<config, objects, methods, device, listed, halted, threads, failures, crash>>

BeginStop ==
    /\ Running /\ main.phase = "exit" /\ main.steps = <<>> /\ main.todo = <<>>
    /\ main' = [main EXCEPT !.phase = "stop", !.steps = StopSteps]
    /\ UNCHANGED <<config, registries, threads, failures, crash>>


\* The rest of sios_core_exit.
HaltLoops ==
    /\ At("halt_loops")
    /\ halted' = halted \cup {"loops"}
    /\ Done
    /\ UNCHANGED <<config, modules, mapped, objects, methods, device, listed, threads, failures, crash>>

JoinLoop ==
    /\ \/ At("join_readers") /\ loop["R"].at = "ended"
       \/ At("join_writers") /\ loop["W"].at = "ended"
    /\ Done
    /\ UNCHANGED <<config, registries, threads, failures, crash>>

\* sios_osc_terminate joins nobody; with the end of main the process is gone.
Terminate ==
    /\ At("halt_osc")
    /\ main' = [main EXCEPT !.phase = "ended", !.steps = <<>>]
    /\ UNCHANGED <<config, registries, threads, failures, crash>>

-----------------------------------------------------------------------------
(* The other threads *)

\* A message for a method, whatever main is at: its handler is called wherever its
\* module is.
Message ==
    /\ Running /\ osc = "idle"
    /\ \E m \in methods :
          /\ met' = IF m \notin mapped \/ (Mod = m /\ main.steps # <<>>)
                    THEN met \cup {m} ELSE met
          /\ IF m \in mapped THEN osc' = m /\ UNCHANGED crash
             ELSE crash' = "message handler" /\ UNCHANGED osc
    /\ UNCHANGED <<config, main, registries, loop, own, failures>>

\* The handler ends, having added a context of its module if it has one to add.
HandlerEnds ==
    /\ Running /\ osc \in Module
    /\ IF osc \notin mapped THEN Crash("message handler")
       ELSE /\ \E C \in IF Addable(osc) = {} THEN {{}} ELSE {{c} : c \in Addable(osc)} :
                  /\ \A c \in C : c \in listed \/ Free(ListOf(c))
                  /\ listed' = listed \cup C
            /\ osc' = "idle"
            /\ UNCHANGED <<config, main, modules, mapped, objects, methods, device, halted,
                           loop, own, met, failures, crash>>

LoopGoes(l, at, todo, c) ==
    /\ loop' = [loop EXCEPT ![l] = [at |-> at, todo |-> todo, ctx |-> c]]
    /\ UNCHANGED <<config, main, modules, mapped, objects, methods, device, halted, osc, own,
                   met, failures>>

CheckHalt(l) ==
    /\ Running /\ loop[l].at = "check"
    /\ LoopGoes(l, IF "loops" \in halted THEN "ended" ELSE "select", {}, "none")
    /\ UNCHANGED <<listed, crash>>

\* select returns, and the loop walks its list under the mutex.
BeginDispatch(l) ==
    /\ Running /\ loop[l].at = "select"
    /\ LoopGoes(l, "dispatch", {c \in listed : ListOf(c) = l}, "none")
    /\ UNCHANGED <<listed, crash>>

\* A context is passed over, or its handler is called.
Dispatch(l) ==
    /\ Running /\ loop[l].at = "dispatch"
    /\ \E c \in loop[l].todo :
          \/ /\ LoopGoes(l, "dispatch", loop[l].todo \ {c}, "none")
             /\ UNCHANGED <<listed, crash>>
          \/ /\ Owner(c) \in mapped
             /\ LoopGoes(l, "handler", loop[l].todo \ {c}, c)
             /\ UNCHANGED <<listed, crash>>
          \/ Owner(c) \notin mapped /\ Crash("handler")

\* The handler returns; a result other than 0 removes its context.
HandlerReturns(l) ==
    /\ Running /\ loop[l].at = "handler"
    /\ IF Owner(loop[l].ctx) \notin mapped THEN Crash("handler")
       ELSE /\ LoopGoes(l, "dispatch", loop[l].todo, "none")
            /\ listed' \in {listed, listed \ {loop[l].ctx}}
            /\ UNCHANGED crash

EndDispatch(l) ==
    /\ Running /\ loop[l].at = "dispatch" /\ loop[l].todo = {}
    /\ LoopGoes(l, "check", {}, "none")
    /\ UNCHANGED <<listed, crash>>

\* matrix_reader_loop and the_main_dnssd_loop.  The dnssd thread runs mDNS_Execute,
\* waits on a descriptor set it never cleared, which may make select fail and ends
\* the thread, and hands what it got to the core.
OwnStep(m, from, to) ==
    /\ Running /\ own[m] = from
    /\ IF m \notin mapped THEN Crash("thread")
       ELSE /\ own' \in {[own EXCEPT ![m] = t] : t \in to}
            /\ UNCHANGED <<config, main, registries, loop, osc, met, failures, crash>>

MatrixThread ==
    \/ OwnStep("matrix", "check", {IF "matrix" \in halted THEN "ended" ELSE "read"})
    \/ OwnStep("matrix", "read", {"check"})

DnssdThread ==
    \/ OwnStep("dnssd", "check", {IF "dnssd" \in halted THEN "ended" ELSE "execute"})
    \/ OwnStep("dnssd", "execute", {"select"})
    \/ OwnStep("dnssd", "select", {"receive", "check", "ended"})
    \/ OwnStep("dnssd", "receive", {"check"})

-----------------------------------------------------------------------------
MainStep ==
    \/ StartThread \/ AddModules \/ Load \/ Register \/ Open \/ SetDevice \/ AddMethods
    \/ AddContexts \/ StartOwnThread \/ EnterCore \/ LeaveCore \/ Loaded
    \/ BeginExit \/ DeleteContext \/ Close \/ Deregister \/ HaltOwnThread \/ JoinOwnThread
    \/ Unload \/ BeginStop \/ HaltLoops \/ JoinLoop \/ Terminate
LoopStep(l) ==
    \/ CheckHalt(l) \/ BeginDispatch(l) \/ Dispatch(l) \/ HandlerReturns(l) \/ EndDispatch(l)

Next ==
    \/ MainStep \/ Signal
    \/ Message \/ HandlerEnds
    \/ \E l \in List : LoopStep(l)
    \/ MatrixThread \/ DnssdThread

Spec == Init /\ [][Next]_vars

\* Threads go on, and main gets a mutex that is given back again and again.
Fairness ==
    /\ SF_vars(MainStep)
    /\ SF_vars(HandlerEnds)
    /\ \A l \in List : WF_vars(LoopStep(l))
    /\ WF_vars(MatrixThread) /\ WF_vars(DnssdThread)

FairSpec == Spec /\ Fairness

-----------------------------------------------------------------------------
(* Properties *)

TypeOK ==
    /\ main.phase \in {"start", "init", "run", "exit", "stop", "ended"}
    /\ main.inCore \in BOOLEAN
    /\ ToSet(modules) \subseteq Module /\ IsInjective(modules)
    /\ mapped \subseteq ToSet(modules)
    /\ ToSet(objects) \subseteq Module /\ IsInjective(objects)
    /\ methods \subseteq Module /\ listed \subseteq Context
    /\ \A d \in Descriptor : device[d] \in {"none", "open", "set", "closed"}
    /\ \A l \in List : /\ loop[l].at \in {"off", "check", "select", "dispatch", "handler", "ended"}
                       /\ loop[l].todo \subseteq {c \in Context : ListOf(c) = l}
    /\ osc \in Module \cup {"off", "idle"}
    /\ own["matrix"] \in {"off", "check", "read", "ended"}
    /\ own["dnssd"] \in {"off", "check", "execute", "select", "receive", "ended"}
    /\ met \subseteq Module
    /\ halted \subseteq {"loops", "matrix", "dnssd"}
    /\ failures \in 0..MaxFailures

\* A loop calls a handler only while the context's device is open and set, though main
\* closes it while they run, unless a message was handled while the module was on its
\* way in or out; and so does the thread of the matrix, whatever messages come.  Not so
\* the second context of a module, which nobody deletes, nor accmag's, whose descriptor
\* is closed before its context is deleted.
CalledWithDevice ==
    /\ \A l \in List :
           /\ loop[l].at = "handler" /\ loop[l].ctx \in {"beep", "buzz", "light"}
           /\ loop[l].ctx \notin met
           => device[loop[l].ctx] = "set"
    /\ own["matrix"] = "read" => device["matrix"] = "set"

\* What may bring the process down: a call to the system that failed and a class that is
\* not configured, at any time; and at shutdown the contexts that no exit function
\* deletes, the dnssd thread, which nobody joins, and a message that meets a module on
\* its way out or gone, for no method is ever removed.
Unclassed == \E i \in DOMAIN config : ~config[i].classed
Leftover == listed \cap {"flash", "mag"} # {} \/ own["dnssd"] \notin {"off", "ended"}
Excused ==
    \/ failures > 0 \/ Unclassed
    \/ main.phase \in {"exit", "stop"} /\ (Leftover \/ met # {})

\* Nothing else does: modules come and go under running loops and between messages, and
\* no thread ever enters the code of a module that is unloaded or touches an object that
\* is gone.
CleanRunSurvives == crash # "none" => Excused

\* When the modules are unloaded, and nothing has failed, no trace of them is left in the
\* registries of the platform, and their devices are closed, but for what accmag and
\* light forget and the contexts a message has added again on their way out.
NothingLeft ==
    main.phase = "stop" /\ failures = 0 /\ ~Unclassed =>
        /\ modules = <<>> /\ mapped = {} /\ objects = <<>>
        /\ \A c \in listed : c \in {"flash", "mag"} \/ Owner(c) \in met
        /\ \A d \in Descriptor \ {"mag"} : device[d] \in {"none", "closed"}

\* The comment of mDNSPosix.c: the core is only ever entered on one thread.
CoreEnteredByOne == ~(main.inCore /\ own["dnssd"] \in {"execute", "receive"})

=============================================================================
