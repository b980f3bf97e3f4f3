--------------------------- MODULE LifecycleProofs ---------------------------
(***************************************************************************)
(* The life of a process for every configuration, of any length and in any *)
(* order, and for any number of calls that fail.                           *)
(*                                                                         *)
(* TypeInv says where main may be: which suffixes of which init and exit   *)
(* functions it can still have before it, in which phase, and for which    *)
(* module, and which modules are on module_list, mapped and registered     *)
(* then.  DeviceInv adds who may still be called: a context is on a list,  *)
(* a handler or a thread runs, only while the descriptor behind it is set, *)
(* but for the modules in met, which a message has met on their way in or  *)
(* out.  CleanInv adds what a run in which nothing fails leaves to be      *)
(* undone.  Messages come whenever they like.                              *)
(***************************************************************************)
EXTENDS Lifecycle, SequenceTheorems, FiniteSetTheorems, TLAPS

-----------------------------------------------------------------------------
(* Where main may be *)

\* The steps main has before it, and the modules it has still to turn to.
Ahead == ToSet(main.steps)
Mods(list) == {list[i].mod : i \in DOMAIN list}
Once(list) == \A i, j \in DOMAIN list : list[i].mod = list[j].mod => i = j
Todo == Mods(main.todo)

\* The suffixes of what main starts with, of every init function and of the error paths of
\* it, of every exit function, and of what main ends with.
StartPaths ==
    {<<"osc", "readers", "writers", "modules">>, <<"readers", "writers", "modules">>,
     <<"writers", "modules">>, <<"modules">>}
PwmPaths ==
    {<<"register", "open", "methods", "device">>, <<"open", "methods", "device">>,
     <<"methods", "device">>, <<"device">>, <<"deregister", "unload">>, <<"unload">>}
LightPaths ==
    {<<"open", "register", "methods", "contexts">>, <<"register", "methods", "contexts">>,
     <<"methods", "contexts">>, <<"contexts">>, <<"unload">>}
MatrixPaths ==
    {<<"register", "open", "methods", "device", "thread">>,
     <<"open", "methods", "device", "thread">>, <<"methods", "device", "thread">>,
     <<"device", "thread">>, <<"thread">>, <<"deregister", "unload">>, <<"unload">>}
AccmagPaths ==
    {<<"open", "register", "contexts", "methods">>, <<"register", "contexts", "methods">>,
     <<"contexts", "methods">>, <<"methods">>, <<"unload">>}
DnssdPaths ==
    {<<"register", "init_core", "thread", "service">>, <<"init_core", "thread", "service">>,
     <<"thread", "service">>, <<"service">>, <<"deregister", "unload">>, <<"unload">>,
     <<"deregister", "no_service", "halt", "no_service", "close_core">>,
     <<"no_service", "halt", "no_service", "close_core">>,
     <<"halt", "no_service", "close_core">>, <<"no_service", "close_core">>, <<"close_core">>}
SourceExitPaths ==
    {<<"delete", "close", "deregister", "unload">>, <<"close", "deregister", "unload">>,
     <<"deregister", "unload">>, <<"unload">>}
MatrixExitPaths ==
    {<<"halt", "join", "close", "deregister", "unload">>,
     <<"join", "close", "deregister", "unload">>, <<"close", "deregister", "unload">>,
     <<"deregister", "unload">>, <<"unload">>}
AccmagExitPaths ==
    {<<"close", "delete", "deregister", "unload">>, <<"delete", "deregister", "unload">>,
     <<"deregister", "unload">>, <<"unload">>}
DnssdExitPaths ==
    {<<"deregister", "no_service", "halt", "no_service", "close_core", "unload">>,
     <<"no_service", "halt", "no_service", "close_core", "unload">>,
     <<"halt", "no_service", "close_core", "unload">>,
     <<"no_service", "close_core", "unload">>, <<"close_core", "unload">>, <<"unload">>}
StopPaths ==
    {<<"halt_loops", "join_readers", "join_writers", "halt_osc">>,
     <<"join_readers", "join_writers", "halt_osc">>, <<"join_writers", "halt_osc">>,
     <<"halt_osc">>}
InitPaths(m) ==
    CASE m \in {"beep", "buzz"} -> PwmPaths
      [] m = "light"  -> LightPaths  [] m = "matrix" -> MatrixPaths
      [] m = "accmag" -> AccmagPaths [] m = "dnssd"  -> DnssdPaths
ExitPaths(m) ==
    CASE m \in {"beep", "buzz", "light"} -> SourceExitPaths
      [] m = "matrix" -> MatrixExitPaths
      [] m = "accmag" -> AccmagExitPaths [] m = "dnssd" -> DnssdExitPaths

Phases == {"start", "init", "run", "exit", "stop", "ended"}
\* Main is at the end of one of the paths of a module that it will not turn to again.
On(paths) == main.steps = <<>> \/ (Mod \in Module \ Todo /\ main.steps \in paths)

\* main is a record of its five fields.
MainFields == main = [phase |-> main.phase, todo |-> main.todo, entry |-> main.entry,
                      steps |-> main.steps, inCore |-> main.inCore]

\* Where main is, in every phase.
Places ==
    /\ MainFields
    /\ main.phase \in Phases /\ main.todo \in Seq(Entry) /\ main.inCore \in BOOLEAN
    /\ Once(main.todo)
    /\ main.phase = "start" => main.steps \in StartPaths
    /\ main.phase = "init" => On(InitPaths(Mod))
    /\ main.phase = "exit" => On(ExitPaths(Mod))
    /\ main.phase = "stop" => main.steps \in StopPaths
    /\ main.phase \in {"run", "ended"} => main.steps = <<>>
    /\ main.phase \notin {"init", "exit"} => main.todo = <<>>

\* What is on module_list, mapped, and on object_list.
Registered ==
    /\ config \in Seq(Entry)
    /\ modules \in Seq(Module) /\ IsInjective(modules)
    /\ objects \in Seq(Module) /\ IsInjective(objects)
    /\ mapped \subseteq ToSet(modules)
    /\ main.phase = "start" => mapped = {} /\ objects = <<>>
    /\ main.phase = "init" =>
          /\ Todo \subseteq ToSet(modules) /\ Todo \cap (mapped \cup ToSet(objects)) = {}
          /\ main.steps # <<>> => Mod \in mapped
          /\ "register" \in Ahead => Mod \notin ToSet(objects)

\* The type of all other variables.
LoopState == [at : {"off", "check", "select", "dispatch", "handler", "ended"},
              todo : SUBSET Context, ctx : Context \cup {"none"}]
Kinds ==
    /\ methods \subseteq Module /\ listed \subseteq Context
    /\ device \in [Descriptor -> {"none", "open", "set", "closed"}]
    /\ loop \in [List -> LoopState]
    /\ \A l \in List : \A c \in loop[l].todo : ListOf(c) = l
    /\ osc \in Module \cup {"off", "idle"}
    /\ DOMAIN own = {"matrix", "dnssd"}
    /\ own["matrix"] \in {"off", "check", "read", "ended"}
    /\ own["dnssd"] \in {"off", "check", "execute", "select", "receive", "ended"}
    /\ halted \subseteq {"loops", "matrix", "dnssd"}
    /\ met \subseteq Module
    /\ failures \in 0 .. MaxFailures

-----------------------------------------------------------------------------
(* The paths *)

\* s goes on with the step h, which is not on it again, and then with t.
Path(s, h, t) ==
    /\ s # <<>> /\ Head(s) = h /\ Tail(s) = t
    /\ ToSet(s) = {h} \cup ToSet(t)
    /\ h # "no_service" => h \notin ToSet(t)

\* Head, tail and elements of every path.
LEMMA StartTable ==
    /\ Path(<<"osc", "readers", "writers", "modules">>, "osc",
            <<"readers", "writers", "modules">>)
    /\ Path(<<"readers", "writers", "modules">>, "readers", <<"writers", "modules">>)
    /\ Path(<<"writers", "modules">>, "writers", <<"modules">>)
    /\ Path(<<"modules">>, "modules", <<>>)
  BY SMT DEF Path, ToSet

LEMMA PwmTable ==
    /\ Path(<<"register", "open", "methods", "device">>, "register",
            <<"open", "methods", "device">>)
    /\ Path(<<"open", "methods", "device">>, "open", <<"methods", "device">>)
    /\ Path(<<"methods", "device">>, "methods", <<"device">>)
    /\ Path(<<"device">>, "device", <<>>)
    /\ Path(<<"deregister", "unload">>, "deregister", <<"unload">>)
    /\ Path(<<"unload">>, "unload", <<>>)
  BY SMT DEF Path, ToSet

LEMMA LightTable ==
    /\ Path(<<"open", "register", "methods", "contexts">>, "open",
            <<"register", "methods", "contexts">>)
    /\ Path(<<"register", "methods", "contexts">>, "register", <<"methods", "contexts">>)
    /\ Path(<<"methods", "contexts">>, "methods", <<"contexts">>)
    /\ Path(<<"contexts">>, "contexts", <<>>)
    /\ Path(<<"unload">>, "unload", <<>>)
  BY SMT DEF Path, ToSet

LEMMA MatrixTable ==
    /\ Path(<<"register", "open", "methods", "device", "thread">>, "register",
            <<"open", "methods", "device", "thread">>)
    /\ Path(<<"open", "methods", "device", "thread">>, "open",
            <<"methods", "device", "thread">>)
    /\ Path(<<"methods", "device", "thread">>, "methods", <<"device", "thread">>)
    /\ Path(<<"device", "thread">>, "device", <<"thread">>)
    /\ Path(<<"thread">>, "thread", <<>>)
    /\ Path(<<"deregister", "unload">>, "deregister", <<"unload">>)
    /\ Path(<<"unload">>, "unload", <<>>)
  BY SMT DEF Path, ToSet

LEMMA AccmagTable ==
    /\ Path(<<"open", "register", "contexts", "methods">>, "open",
            <<"register", "contexts", "methods">>)
    /\ Path(<<"register", "contexts", "methods">>, "register", <<"contexts", "methods">>)
    /\ Path(<<"contexts", "methods">>, "contexts", <<"methods">>)
    /\ Path(<<"methods">>, "methods", <<>>)
    /\ Path(<<"unload">>, "unload", <<>>)
  BY SMT DEF Path, ToSet

LEMMA DnssdTable ==
    /\ Path(<<"register", "init_core", "thread", "service">>, "register",
            <<"init_core", "thread", "service">>)
    /\ Path(<<"init_core", "thread", "service">>, "init_core", <<"thread", "service">>)
    /\ Path(<<"thread", "service">>, "thread", <<"service">>)
    /\ Path(<<"service">>, "service", <<>>)
    /\ Path(<<"deregister", "unload">>, "deregister", <<"unload">>)
    /\ Path(<<"unload">>, "unload", <<>>)
    /\ Path(<<"deregister", "no_service", "halt", "no_service", "close_core">>, "deregister",
            <<"no_service", "halt", "no_service", "close_core">>)
    /\ Path(<<"no_service", "halt", "no_service", "close_core">>, "no_service",
            <<"halt", "no_service", "close_core">>)
    /\ Path(<<"halt", "no_service", "close_core">>, "halt", <<"no_service", "close_core">>)
    /\ Path(<<"no_service", "close_core">>, "no_service", <<"close_core">>)
    /\ Path(<<"close_core">>, "close_core", <<>>)
  <1>1. Path(<<"register", "init_core", "thread", "service">>, "register",
            <<"init_core", "thread", "service">>)
    BY SMT DEF Path, ToSet
  <1>2. Path(<<"init_core", "thread", "service">>, "init_core", <<"thread", "service">>)
    BY SMT DEF Path, ToSet
  <1>3. Path(<<"thread", "service">>, "thread", <<"service">>)
    BY SMT DEF Path, ToSet
  <1>4. Path(<<"service">>, "service", <<>>)
    BY SMT DEF Path, ToSet
  <1>5. Path(<<"deregister", "unload">>, "deregister", <<"unload">>)
    BY SMT DEF Path, ToSet
  <1>6. Path(<<"unload">>, "unload", <<>>)
    BY SMT DEF Path, ToSet
  <1>7. Path(<<"deregister", "no_service", "halt", "no_service", "close_core">>, "deregister",
            <<"no_service", "halt", "no_service", "close_core">>)
    BY SMT DEF Path, ToSet
  <1>8. Path(<<"no_service", "halt", "no_service", "close_core">>, "no_service",
            <<"halt", "no_service", "close_core">>)
    BY SMT DEF Path, ToSet
  <1>9. Path(<<"halt", "no_service", "close_core">>, "halt", <<"no_service", "close_core">>)
    BY SMT DEF Path, ToSet
  <1>10. Path(<<"no_service", "close_core">>, "no_service", <<"close_core">>)
    BY SMT DEF Path, ToSet
  <1>11. Path(<<"close_core">>, "close_core", <<>>)
    BY SMT DEF Path, ToSet
  <1> QED BY <1>1, <1>2, <1>3, <1>4, <1>5, <1>6, <1>7, <1>8, <1>9, <1>10, <1>11

LEMMA SourceExitTable ==
    /\ Path(<<"delete", "close", "deregister", "unload">>, "delete",
            <<"close", "deregister", "unload">>)
    /\ Path(<<"close", "deregister", "unload">>, "close", <<"deregister", "unload">>)
    /\ Path(<<"deregister", "unload">>, "deregister", <<"unload">>)
    /\ Path(<<"unload">>, "unload", <<>>)
  BY SMT DEF Path, ToSet

LEMMA MatrixExitTable ==
    /\ Path(<<"halt", "join", "close", "deregister", "unload">>, "halt",
            <<"join", "close", "deregister", "unload">>)
    /\ Path(<<"join", "close", "deregister", "unload">>, "join",
            <<"close", "deregister", "unload">>)
    /\ Path(<<"close", "deregister", "unload">>, "close", <<"deregister", "unload">>)
    /\ Path(<<"deregister", "unload">>, "deregister", <<"unload">>)
    /\ Path(<<"unload">>, "unload", <<>>)
  BY SMT DEF Path, ToSet

LEMMA AccmagExitTable ==
    /\ Path(<<"close", "delete", "deregister", "unload">>, "close",
            <<"delete", "deregister", "unload">>)
    /\ Path(<<"delete", "deregister", "unload">>, "delete", <<"deregister", "unload">>)
    /\ Path(<<"deregister", "unload">>, "deregister", <<"unload">>)
    /\ Path(<<"unload">>, "unload", <<>>)
  BY SMT DEF Path, ToSet

LEMMA DnssdExitTable ==
    /\ Path(<<"deregister", "no_service", "halt", "no_service", "close_core", "unload">>, "deregister",
            <<"no_service", "halt", "no_service", "close_core", "unload">>)
    /\ Path(<<"no_service", "halt", "no_service", "close_core", "unload">>, "no_service",
            <<"halt", "no_service", "close_core", "unload">>)
    /\ Path(<<"halt", "no_service", "close_core", "unload">>, "halt",
            <<"no_service", "close_core", "unload">>)
    /\ Path(<<"no_service", "close_core", "unload">>, "no_service", <<"close_core", "unload">>)
    /\ Path(<<"close_core", "unload">>, "close_core", <<"unload">>)
    /\ Path(<<"unload">>, "unload", <<>>)
  BY SMT DEF Path, ToSet

LEMMA StopTable ==
    /\ Path(<<"halt_loops", "join_readers", "join_writers", "halt_osc">>, "halt_loops",
            <<"join_readers", "join_writers", "halt_osc">>)
    /\ Path(<<"join_readers", "join_writers", "halt_osc">>, "join_readers",
            <<"join_writers", "halt_osc">>)
    /\ Path(<<"join_writers", "halt_osc">>, "join_writers", <<"halt_osc">>)
    /\ Path(<<"halt_osc">>, "halt_osc", <<>>)
  BY SMT DEF Path, ToSet

\* A concatenation, given element by element.
LEMMA Joined ==
    ASSUME NEW S, NEW s \in Seq(S), NEW t \in Seq(S), NEW u \in Seq(S),
           Len(u) = Len(s) + Len(t),
           \A i \in 1 .. Len(u) : u[i] = IF i <= Len(s) THEN s[i] ELSE t[i - Len(s)]
    PROVE  s \o t = u
  <1> DEFINE st == s \o t
  <1>1. st \in Seq(S) /\ Len(st) = Len(u)
    BY ConcatProperties
  <1>2. \A i \in 1 .. Len(u) : st[i] = IF i <= Len(s) THEN s[i] ELSE t[i - Len(s)]
    BY ConcatProperties
  <1>3. \A i \in 1 .. Len(u) : st[i] = u[i]
    BY <1>2
  <1> HIDE DEF st
  <1>4. st = u
    BY <1>1, <1>3, SeqEqual
  <1> QED BY <1>4 DEF st

\* The two paths on which sios_dnssd_close is called, step by step.
LEMMA DnssdClose ==
    /\ dnssd_exit = <<"deregister", "no_service", "halt", "no_service", "close_core", "unload">>
    /\ <<"deregister">> \o sios_dnssd_close \o <<"close_core">>
          = <<"deregister", "no_service", "halt", "no_service", "close_core">>
  <1> DEFINE S == {"deregister", "no_service", "halt", "close_core", "unload"}
  <1>1. <<"deregister">> \o <<"no_service", "halt", "no_service">>
            = <<"deregister", "no_service", "halt", "no_service">>
    <2> DEFINE s == <<"deregister">>
    <2> DEFINE t == <<"no_service", "halt", "no_service">>
    <2> DEFINE u == <<"deregister", "no_service", "halt", "no_service">>
    <2>1. s \in Seq(S) /\ t \in Seq(S) /\ u \in Seq(S)
      BY SMT
    <2>2. Len(s) = 1 /\ Len(t) = 3 /\ Len(u) = 4
      BY SMT
    <2>3. u[1] = s[1]
      BY SMT
    <2>4. u[2] = t[1] /\ u[3] = t[2] /\ u[4] = t[3]
      BY SMT
    <2> HIDE DEF s, t, u, S
    <2>5. \A i \in 1 .. Len(u) : u[i] = IF i <= Len(s) THEN s[i] ELSE t[i - Len(s)]
      BY <2>2, <2>3, <2>4, SMT
    <2>6. Len(u) = Len(s) + Len(t)
      BY <2>2, SMT
    <2>7. s \o t = u
      BY <2>1, <2>6, <2>5, Joined
    <2> QED BY <2>7 DEF s, t, u
  <1>2. <<"deregister", "no_service", "halt", "no_service">> \o <<"close_core", "unload">>
            = <<"deregister", "no_service", "halt", "no_service", "close_core", "unload">>
    <2> DEFINE s == <<"deregister", "no_service", "halt", "no_service">>
    <2> DEFINE t == <<"close_core", "unload">>
    <2> DEFINE u == <<"deregister", "no_service", "halt", "no_service", "close_core", "unload">>
    <2>1. s \in Seq(S) /\ t \in Seq(S) /\ u \in Seq(S)
      BY SMT
    <2>2. Len(s) = 4 /\ Len(t) = 2 /\ Len(u) = 6
      BY SMT
    <2>3. u[1] = s[1] /\ u[2] = s[2] /\ u[3] = s[3] /\ u[4] = s[4]
      BY SMT
    <2>4. u[5] = t[1] /\ u[6] = t[2]
      BY SMT
    <2> HIDE DEF s, t, u, S
    <2>5. \A i \in 1 .. Len(u) : u[i] = IF i <= Len(s) THEN s[i] ELSE t[i - Len(s)]
      BY <2>2, <2>3, <2>4, SMT
    <2>6. Len(u) = Len(s) + Len(t)
      BY <2>2, SMT
    <2>7. s \o t = u
      BY <2>1, <2>6, <2>5, Joined
    <2> QED BY <2>7 DEF s, t, u
  <1>3. <<"deregister", "no_service", "halt", "no_service">> \o <<"close_core">>
            = <<"deregister", "no_service", "halt", "no_service", "close_core">>
    <2> DEFINE s == <<"deregister", "no_service", "halt", "no_service">>
    <2> DEFINE t == <<"close_core">>
    <2> DEFINE u == <<"deregister", "no_service", "halt", "no_service", "close_core">>
    <2>1. s \in Seq(S) /\ t \in Seq(S) /\ u \in Seq(S)
      BY SMT
    <2>2. Len(s) = 4 /\ Len(t) = 1 /\ Len(u) = 5
      BY SMT
    <2>3. u[1] = s[1] /\ u[2] = s[2] /\ u[3] = s[3] /\ u[4] = s[4]
      BY SMT
    <2>4. u[5] = t[1]
      BY SMT
    <2> HIDE DEF s, t, u, S
    <2>5. \A i \in 1 .. Len(u) : u[i] = IF i <= Len(s) THEN s[i] ELSE t[i - Len(s)]
      BY <2>2, <2>3, <2>4, SMT
    <2>6. Len(u) = Len(s) + Len(t)
      BY <2>2, SMT
    <2>7. s \o t = u
      BY <2>1, <2>6, <2>5, Joined
    <2> QED BY <2>7 DEF s, t, u
  <1>4. <<"deregister">> \o sios_dnssd_close = <<"deregister", "no_service", "halt", "no_service">>
    BY <1>1 DEF sios_dnssd_close
  <1> QED BY <1>2, <1>3, <1>4 DEF dnssd_exit

-----------------------------------------------------------------------------
(* Where main is *)

\* The steps of an init function, of an error path, and of an exit function.
Inits == {"register", "open", "methods", "device", "contexts", "thread", "init_core", "service"}
Undoes == {"halt", "deregister", "no_service", "close_core", "unload"}
Exits == {"delete", "close", "join"} \cup Undoes

\* A step leads from a path to a path.
Follows(s, paths) ==
    /\ s # <<>>
    /\ Tail(s) = <<>> \/ Tail(s) \in paths
    /\ ToSet(s) = {Head(s)} \cup ToSet(Tail(s))
    /\ Head(s) # "no_service" => Head(s) \notin ToSet(Tail(s))

\* Every init path and every exit path goes on along a path of the same module.
LEMMA InitFollows ==
    ASSUME NEW m \in Module, NEW s \in InitPaths(m)
    PROVE  Follows(s, InitPaths(m)) /\ Head(s) \in Inits \cup Undoes
  <1>1. CASE m \in {"beep", "buzz"}
    <2>1. InitPaths(m) = PwmPaths
      BY <1>1 DEF InitPaths
    <2>2. PICK h, t : Path(s, h, t) /\ (t = <<>> \/ t \in PwmPaths) /\ h \in Inits \cup Undoes
      BY <2>1, PwmTable DEF PwmPaths, Inits, Undoes
    <2> QED BY <2>1, <2>2 DEF Path, Follows
  <1>2. CASE m = "light"
    <2>1. InitPaths(m) = LightPaths
      BY <1>2 DEF InitPaths
    <2>2. PICK h, t : Path(s, h, t) /\ (t = <<>> \/ t \in LightPaths) /\ h \in Inits \cup Undoes
      BY <2>1, LightTable DEF LightPaths, Inits, Undoes
    <2> QED BY <2>1, <2>2 DEF Path, Follows
  <1>3. CASE m = "matrix"
    <2>1. InitPaths(m) = MatrixPaths
      BY <1>3 DEF InitPaths
    <2>2. PICK h, t : Path(s, h, t) /\ (t = <<>> \/ t \in MatrixPaths) /\ h \in Inits \cup Undoes
      BY <2>1, MatrixTable DEF MatrixPaths, Inits, Undoes
    <2> QED BY <2>1, <2>2 DEF Path, Follows
  <1>4. CASE m = "accmag"
    <2>1. InitPaths(m) = AccmagPaths
      BY <1>4 DEF InitPaths
    <2>2. PICK h, t : Path(s, h, t) /\ (t = <<>> \/ t \in AccmagPaths) /\ h \in Inits \cup Undoes
      BY <2>1, AccmagTable DEF AccmagPaths, Inits, Undoes
    <2> QED BY <2>1, <2>2 DEF Path, Follows
  <1>5. CASE m = "dnssd"
    <2>1. InitPaths(m) = DnssdPaths
      BY <1>5 DEF InitPaths
    <2>2. PICK h, t : Path(s, h, t) /\ (t = <<>> \/ t \in DnssdPaths) /\ h \in Inits \cup Undoes
      BY <2>1, DnssdTable DEF DnssdPaths, Inits, Undoes
    <2> QED BY <2>1, <2>2 DEF Path, Follows
  <1> QED BY <1>1, <1>2, <1>3, <1>4, <1>5 DEF Module

LEMMA ExitFollows ==
    ASSUME NEW m \in Module, NEW s \in ExitPaths(m)
    PROVE  Follows(s, ExitPaths(m)) /\ Head(s) \in Exits
  <1>1. CASE m \in {"beep", "buzz", "light"}
    <2>1. ExitPaths(m) = SourceExitPaths
      BY <1>1 DEF ExitPaths
    <2>2. PICK h, t : Path(s, h, t) /\ (t = <<>> \/ t \in SourceExitPaths) /\ h \in Exits
      BY <2>1, SourceExitTable DEF SourceExitPaths, Exits, Undoes
    <2> QED BY <2>1, <2>2 DEF Path, Follows
  <1>2. CASE m = "matrix"
    <2>1. ExitPaths(m) = MatrixExitPaths
      BY <1>2 DEF ExitPaths
    <2>2. PICK h, t : Path(s, h, t) /\ (t = <<>> \/ t \in MatrixExitPaths) /\ h \in Exits
      BY <2>1, MatrixExitTable DEF MatrixExitPaths, Exits, Undoes
    <2> QED BY <2>1, <2>2 DEF Path, Follows
  <1>3. CASE m = "accmag"
    <2>1. ExitPaths(m) = AccmagExitPaths
      BY <1>3 DEF ExitPaths
    <2>2. PICK h, t : Path(s, h, t) /\ (t = <<>> \/ t \in AccmagExitPaths) /\ h \in Exits
      BY <2>1, AccmagExitTable DEF AccmagExitPaths, Exits, Undoes
    <2> QED BY <2>1, <2>2 DEF Path, Follows
  <1>4. CASE m = "dnssd"
    <2>1. ExitPaths(m) = DnssdExitPaths
      BY <1>4 DEF ExitPaths
    <2>2. PICK h, t : Path(s, h, t) /\ (t = <<>> \/ t \in DnssdExitPaths) /\ h \in Exits
      BY <2>1, DnssdExitTable DEF DnssdExitPaths, Exits, Undoes
    <2> QED BY <2>1, <2>2 DEF Path, Follows
  <1> QED BY <1>1, <1>2, <1>3, <1>4 DEF Module

\* The last step of every exit function unloads the module.
LEMMA ExitEnds ==
    ASSUME NEW m \in Module, NEW s \in ExitPaths(m), Tail(s) = <<>>
    PROVE  Head(s) = "unload"
  <1>1. CASE m \in {"beep", "buzz", "light"}
    BY <1>1, SourceExitTable DEF ExitPaths, SourceExitPaths, Path
  <1>2. CASE m = "matrix"
    BY <1>2, MatrixExitTable DEF ExitPaths, MatrixExitPaths, Path
  <1>3. CASE m = "accmag"
    BY <1>3, AccmagExitTable DEF ExitPaths, AccmagExitPaths, Path
  <1>4. CASE m = "dnssd"
    BY <1>4, DnssdExitTable DEF ExitPaths, DnssdExitPaths, Path
  <1> QED BY <1>1, <1>2, <1>3, <1>4 DEF Module

\* Main starts and ends along its own paths.
LEMMA StartFollows ==
    ASSUME NEW s \in StartPaths
    PROVE  s # <<>> /\ Head(s) \in {"osc", "readers", "writers", "modules"}
           /\ (Head(s) # "modules" => Tail(s) \in StartPaths)
  BY StartTable DEF StartPaths, Path

LEMMA StopFollows ==
    ASSUME NEW s \in StopPaths
    PROVE  s # <<>> /\ Head(s) \in {"halt_loops", "join_readers", "join_writers", "halt_osc"}
           /\ (Head(s) # "halt_osc" => Tail(s) \in StopPaths)
  BY StopTable DEF StopPaths, Path

\* A step tells the phase: an init function is called in the phase init only, and so on.
LEMMA AtInit ==
    ASSUME Places, NEW x, At(x), x \in Inits
    PROVE  /\ main.phase = "init" /\ Mod \in Module \ Todo /\ main.steps \in InitPaths(Mod)
  <1>1. main.steps # <<>> /\ Head(main.steps) = x
    BY DEF At
  <1>2. main.phase # "start"
    BY <1>1, StartFollows DEF Places, Inits
  <1>3. main.phase # "stop"
    BY <1>1, StopFollows DEF Places, Inits
  <1>4. main.phase # "exit"
    BY <1>1, ExitFollows DEF Places, On, Inits, Exits, Undoes
  <1> QED BY <1>1, <1>2, <1>3, <1>4 DEF Places, Phases, On

LEMMA AtExit ==
    ASSUME Places, NEW x, At(x), x \in {"delete", "close", "join"}
    PROVE  /\ main.phase = "exit" /\ Mod \in Module \ Todo /\ main.steps \in ExitPaths(Mod)
  <1>1. main.steps # <<>> /\ Head(main.steps) = x
    BY DEF At
  <1>2. main.phase # "start"
    BY <1>1, StartFollows DEF Places
  <1>3. main.phase # "stop"
    BY <1>1, StopFollows DEF Places
  <1>4. main.phase # "init"
    BY <1>1, InitFollows DEF Places, On, Inits, Undoes
  <1> QED BY <1>1, <1>2, <1>3, <1>4 DEF Places, Phases, On

LEMMA AtUndo ==
    ASSUME Places, NEW x, At(x), x \in Undoes
    PROVE  /\ main.phase \in {"init", "exit"} /\ Mod \in Module \ Todo
           /\ main.steps \in IF main.phase = "init" THEN InitPaths(Mod) ELSE ExitPaths(Mod)
  <1>1. main.steps # <<>> /\ Head(main.steps) = x
    BY DEF At
  <1>2. main.phase # "start"
    BY <1>1, StartFollows DEF Places, Undoes
  <1>3. main.phase # "stop"
    BY <1>1, StopFollows DEF Places, Undoes
  <1> QED BY <1>1, <1>2, <1>3 DEF Places, Phases, On

LEMMA AtStart ==
    ASSUME Places, NEW x, At(x), x \in {"osc", "readers", "writers", "modules"}
    PROVE  main.phase = "start" /\ main.steps \in StartPaths
  <1>1. main.steps # <<>> /\ Head(main.steps) = x
    BY DEF At
  <1>2. main.phase # "init"
    BY <1>1, InitFollows DEF Places, On, Inits, Undoes
  <1>3. main.phase # "stop"
    BY <1>1, StopFollows DEF Places
  <1>4. main.phase # "exit"
    BY <1>1, ExitFollows DEF Places, On, Exits, Undoes
  <1> QED BY <1>1, <1>2, <1>3, <1>4 DEF Places, Phases

LEMMA AtStop ==
    ASSUME Places, NEW x, At(x), x \in {"halt_loops", "join_readers", "join_writers", "halt_osc"}
    PROVE  main.phase = "stop" /\ main.steps \in StopPaths
  <1>1. main.steps # <<>> /\ Head(main.steps) = x
    BY DEF At
  <1>2. main.phase # "init"
    BY <1>1, InitFollows DEF Places, On, Inits, Undoes
  <1>3. main.phase # "start"
    BY <1>1, StartFollows DEF Places
  <1>4. main.phase # "exit"
    BY <1>1, ExitFollows DEF Places, On, Exits, Undoes
  <1> QED BY <1>1, <1>2, <1>3, <1>4 DEF Places, Phases

\* Main goes on to the next step of its path.
DoneWell ==
    /\ Places' /\ main'.phase = main.phase /\ main'.todo = main.todo /\ main'.entry = main.entry
    /\ Todo' = Todo /\ main'.steps = Tail(main.steps)
    /\ main.phase \in {"init", "exit"} =>
           /\ Ahead = {Head(main.steps)} \cup Ahead'
           /\ Head(main.steps) # "no_service" => Head(main.steps) \notin Ahead'

\* A step that is done leaves main on its path.
LEMMA PassKeeps ==
    ASSUME Places, NEW x, At(x), x \notin {"modules", "halt_osc"}, NEW c \in BOOLEAN,
           main' = [phase |-> main.phase, todo |-> main.todo, entry |-> main.entry,
                    steps |-> Tail(main.steps), inCore |-> c]
    PROVE  DoneWell
  <1>1. /\ main' = [phase |-> main.phase, todo |-> main.todo, entry |-> main.entry,
                    steps |-> Tail(main.steps), inCore |-> c]
    OBVIOUS
  <1>2. /\ main'.phase = main.phase /\ main'.todo = main.todo /\ main'.entry = main.entry
        /\ main'.inCore = c /\ main'.steps = Tail(main.steps)
    BY <1>1
  <1>3. Todo' = Todo /\ Once(main.todo)' /\ Mod' = Mod /\ MainFields'
    <2>1. Once(main.todo)
      BY DEF Places
    <2>2. MainFields'
      BY <1>1, <1>2 DEF MainFields
    <2> QED BY <1>2, <2>1, <2>2 DEF Todo, Mod
  <1>4. main.steps # <<>> /\ Head(main.steps) = x
    BY DEF At
  <1>5. CASE main.phase = "start"
    <2>1. main'.steps \in StartPaths
      BY <1>2, <1>4, <1>5, StartFollows DEF Places
    <2> QED BY <1>2, <1>3, <1>5, <2>1 DEF Places, DoneWell
  <1>6. CASE main.phase = "stop"
    <2>1. main'.steps \in StopPaths
      BY <1>2, <1>4, <1>6, StopFollows DEF Places
    <2> QED BY <1>2, <1>3, <1>6, <2>1 DEF Places, DoneWell
  <1>7. CASE main.phase = "init"
    <2>1. Mod \in Module \ Todo /\ main.steps \in InitPaths(Mod)
      BY <1>4, <1>7 DEF Places, On
    <2>2. Follows(main.steps, InitPaths(Mod))
      BY <2>1, InitFollows
    <2>3. On(InitPaths(Mod))'
      BY <1>2, <1>3, <2>1, <2>2 DEF On, Follows
    <2>4. /\ Ahead = {Head(main.steps)} \cup Ahead'
          /\ Head(main.steps) # "no_service" => Head(main.steps) \notin Ahead'
      BY <1>2, <2>2 DEF Ahead, Follows
    <2> QED BY <1>2, <1>3, <1>7, <2>3, <2>4 DEF Places, DoneWell
  <1>8. CASE main.phase = "exit"
    <2>1. Mod \in Module \ Todo /\ main.steps \in ExitPaths(Mod)
      BY <1>4, <1>8 DEF Places, On
    <2>2. Follows(main.steps, ExitPaths(Mod))
      BY <2>1, ExitFollows
    <2>3. On(ExitPaths(Mod))'
      BY <1>2, <1>3, <2>1, <2>2 DEF On, Follows
    <2>4. /\ Ahead = {Head(main.steps)} \cup Ahead'
          /\ Head(main.steps) # "no_service" => Head(main.steps) \notin Ahead'
      BY <1>2, <2>2 DEF Ahead, Follows
    <2> QED BY <1>2, <1>3, <1>8, <2>3, <2>4 DEF Places, DoneWell
  <1> QED BY <1>4, <1>5, <1>6, <1>7, <1>8 DEF Places, Phases

LEMMA DoneKeeps ==
    ASSUME Places, NEW x, At(x), x \notin {"modules", "halt_osc"}, Done
    PROVE  DoneWell
  <1>1. main' = [phase |-> main.phase, todo |-> main.todo, entry |-> main.entry,
                 steps |-> Tail(main.steps), inCore |-> main.inCore] /\ main.inCore \in BOOLEAN
    <2>1. MainFields /\ main.inCore \in BOOLEAN
      BY DEF Places
    <2> QED BY <2>1 DEF Done, MainFields
  <1> QED BY <1>1, PassKeeps
-----------------------------------------------------------------------------
(* The moves of main *)

\* The fields of main after a step.
LEMMA Fields ==
    ASSUME NEW p, NEW t, NEW e, NEW s, NEW c,
           main' = [phase |-> p, todo |-> t, entry |-> e, steps |-> s, inCore |-> c]
    PROVE  /\ main'.phase = p /\ main'.todo = t /\ main'.entry = e /\ main'.steps = s
           /\ main'.inCore = c /\ MainFields'
  <1>1. /\ main'.phase = p /\ main'.todo = t /\ main'.entry = e /\ main'.steps = s
        /\ main'.inCore = c
    OBVIOUS
  <1> QED BY <1>1 DEF MainFields

\* The error paths of init functions are paths of the same module.
LEMMA FailurePaths ==
    ASSUME NEW m \in Module, NEW x \in {"register", "open", "thread", "init_core", "service"},
           x \in {"init_core", "service"} => m = "dnssd"
    PROVE  /\ OnFailure(m, x) \in InitPaths(m)
           /\ \/ OnFailure(m, x) = <<"open", "methods", "device">> /\ x = "register" /\ m \in {"beep", "buzz"}
              \/ OnFailure(m, x) \in
                    {<<"unload">>, <<"deregister", "unload">>,
                     <<"deregister", "no_service", "halt", "no_service", "close_core">>}
  <1>1. CASE m \in {"beep", "buzz"} /\ x = "register"
    <2>1. OnFailure(m, x) = Tail(InitSteps(m))
      BY <1>1 DEF OnFailure
    <2>2. InitSteps(m) = <<"register", "open", "methods", "device">>
      BY <1>1 DEF InitSteps, pwm_beep_init, pwm_buzz_init
    <2>3. OnFailure(m, x) = <<"open", "methods", "device">>
      BY <2>1, <2>2, PwmTable DEF Path
    <2> QED BY <1>1, <2>3 DEF InitPaths, PwmPaths
  <1>2. CASE m \in {"beep", "buzz", "matrix"} /\ x = "open"
    <2>1. OnFailure(m, x) = <<"deregister", "unload">>
      BY <1>2 DEF OnFailure
    <2> QED BY <1>2, <2>1 DEF InitPaths, PwmPaths, MatrixPaths
  <1>3. CASE m = "dnssd" /\ x \in {"init_core", "thread"}
    <2>1. OnFailure(m, x) = <<"deregister", "unload">>
      BY <1>3 DEF OnFailure
    <2> QED BY <1>3, <2>1 DEF InitPaths, DnssdPaths
  <1>4. CASE m = "dnssd" /\ x = "service"
    <2>1. OnFailure(m, x) = <<"deregister">> \o sios_dnssd_close \o <<"close_core">>
      BY <1>4 DEF OnFailure
    <2> QED BY <1>4, <2>1, DnssdClose DEF InitPaths, DnssdPaths
  <1>5. CASE /\ x = "register" => m \notin {"beep", "buzz"}
             /\ x = "open" => m \notin {"beep", "buzz", "matrix"}
             /\ x \in {"init_core", "thread", "service"} => m # "dnssd"
    <2>1. OnFailure(m, x) = <<"unload">>
      BY <1>5 DEF OnFailure
    <2>2. <<"unload">> \in InitPaths(m)
      BY DEF InitPaths, Module, PwmPaths, LightPaths, MatrixPaths, AccmagPaths, DnssdPaths
    <2> QED BY <2>1, <2>2
  <1> QED BY <1>1, <1>2, <1>3, <1>4, <1>5

\* An init function and an exit function begin at the start of a path.
LEMMA AllPaths ==
    ASSUME NEW m \in Module
    PROVE  /\ InitSteps(m) \in InitPaths(m) /\ ExitSteps(m) \in ExitPaths(m)
           /\ <<"unload">> \in InitPaths(m)
  <1>1. <<"unload">> \in InitPaths(m)
    BY DEF InitPaths, Module, PwmPaths, LightPaths, MatrixPaths, AccmagPaths, DnssdPaths
  <1>2. InitSteps(m) \in InitPaths(m)
    BY DEF InitSteps, InitPaths, Module, PwmPaths, LightPaths, MatrixPaths, AccmagPaths,
           DnssdPaths, pwm_beep_init, pwm_buzz_init, light_init, matrix_init, accmag_init,
           dnssd_init
  <1>3. ExitSteps(m) \in ExitPaths(m)
    BY DnssdClose DEF ExitSteps, ExitPaths, Module, SourceExitPaths, MatrixExitPaths,
           AccmagExitPaths, DnssdExitPaths, pwm_beep_exit, pwm_buzz_exit, light_exit,
           matrix_exit, accmag_exit
  <1> QED BY <1>1, <1>2, <1>3

\* Main goes on along an error path.
Failed ==
    /\ Places' /\ main.phase = "init" /\ main'.phase = "init"
    /\ main'.todo = main.todo /\ main'.entry = main.entry /\ Todo' = Todo
    /\ Mod \in Module \ Todo /\ main.steps # <<>>
    /\ main'.steps = OnFailure(Mod, Head(main.steps))
    /\ \/ /\ main'.steps = <<"open", "methods", "device">> /\ Mod \in {"beep", "buzz"}
          /\ main.steps = <<"register", "open", "methods", "device">>
       \/ main'.steps \in {<<"unload">>, <<"deregister", "unload">>,
                           <<"deregister", "no_service", "halt", "no_service", "close_core">>}

\* A step that fails leaves main on a path.
LEMMA FailKeeps ==
    ASSUME Places, NEW x \in {"register", "open", "thread", "init_core", "service"}, At(x),
           NEW c \in BOOLEAN,
           main' = [phase |-> main.phase, todo |-> main.todo, entry |-> main.entry,
                    steps |-> OnFailure(Mod, x), inCore |-> c]
    PROVE  Failed
  <1>1. /\ main'.phase = main.phase /\ main'.todo = main.todo /\ main'.entry = main.entry
        /\ main'.steps = OnFailure(Mod, x) /\ main'.inCore = c /\ MainFields'
    BY Fields
  <1>2. Head(main.steps) = x /\ main.steps # <<>>
    BY DEF At
  <1>3. main.phase = "init" /\ Mod \in Module \ Todo /\ main.steps \in InitPaths(Mod)
    BY AtInit DEF Inits
  <1>4. x \in {"init_core", "service"} => Mod = "dnssd"
    BY <1>2, <1>3, PwmTable, LightTable, MatrixTable, AccmagTable
       DEF InitPaths, Module, PwmPaths, LightPaths, MatrixPaths, AccmagPaths, Path
  <1>5. x = "register" /\ Mod \in {"beep", "buzz"} => main.steps = <<"register", "open", "methods", "device">>
    BY <1>2, <1>3, PwmTable DEF InitPaths, PwmPaths, Path
  <1>6. /\ OnFailure(Mod, x) \in InitPaths(Mod)
        /\ \/ OnFailure(Mod, x) = <<"open", "methods", "device">> /\ x = "register" /\ Mod \in {"beep", "buzz"}
           \/ OnFailure(Mod, x) \in
                    {<<"unload">>, <<"deregister", "unload">>,
                     <<"deregister", "no_service", "halt", "no_service", "close_core">>}
    BY <1>3, <1>4, FailurePaths
  <1>7. Mod' = Mod /\ Todo' = Todo /\ Once(main.todo)'
    <2>1. Once(main.todo)
      BY DEF Places
    <2> QED BY <1>1, <2>1 DEF Mod, Todo
  <1>8. Places'
    <2>1. On(InitPaths(Mod))'
      BY <1>1, <1>3, <1>6, <1>7 DEF On
    <2> QED BY <1>1, <1>3, <1>7, <2>1 DEF Places
  <1> QED BY <1>1, <1>2, <1>3, <1>5, <1>6, <1>7, <1>8 DEF Failed

\* Main turns to the next entry, which is the only one for its module.
LEMMA TailMods ==
    ASSUME NEW t \in Seq(Entry), Once(t), t # <<>>
    PROVE  /\ Tail(t) \in Seq(Entry) /\ Once(Tail(t)) /\ Head(t) \in Entry
           /\ Mods(Tail(t)) = Mods(t) \ {Head(t).mod} /\ Head(t).mod \in Mods(t) \cap Module
  <1>1. /\ Tail(t) \in Seq(Entry) /\ Len(Tail(t)) = Len(t) - 1 /\ Len(t) \in Nat /\ Len(t) >= 1
        /\ \A i \in 1 .. Len(t) - 1 : Tail(t)[i] = t[i + 1]
        /\ Head(t) = t[1] /\ DOMAIN t = 1 .. Len(t) /\ DOMAIN Tail(t) = 1 .. Len(t) - 1
    BY SMT
  <1>0. /\ \A i \in 1 .. Len(t) - 1 : i \in Int /\ i + 1 \in 1 .. Len(t) /\ i + 1 # 1
        /\ \A i \in 1 .. Len(t) : i # 1 => i - 1 \in 1 .. Len(t) - 1 /\ (i - 1) + 1 = i
    <2>1. Len(t) \in Nat
      OBVIOUS
    <2> QED BY <2>1, SMT
  <1>2. 1 \in DOMAIN t
    BY <1>1, SMT
  <1>3. t[1] \in Entry
    BY <1>1, <1>2, ElementOfSeq
  <1>4. t[1].mod \in Mods(t) \cap Module
    BY <1>2, <1>3 DEF Mods, Entry
  <1>5. Once(Tail(t))
    <2> SUFFICES ASSUME NEW i \in 1 .. Len(t) - 1, NEW j \in 1 .. Len(t) - 1,
                        Tail(t)[i].mod = Tail(t)[j].mod
                 PROVE  i = j
      BY <1>1 DEF Once
    <2>1. i + 1 \in DOMAIN t /\ j + 1 \in DOMAIN t
      BY <1>0, <1>1
    <2>2. t[i + 1].mod = t[j + 1].mod
      BY <1>1
    <2>3. i + 1 = j + 1
      BY <2>1, <2>2 DEF Once
    <2> QED BY <2>3, SMT
  <1>6. ASSUME NEW i \in 1 .. Len(t) - 1 PROVE Tail(t)[i].mod \in Mods(t) \ {t[1].mod}
    <2>1. i + 1 \in DOMAIN t /\ i + 1 # 1
      BY <1>0, <1>1
    <2>2. t[i + 1].mod # t[1].mod
      BY <1>2, <2>1 DEF Once
    <2> QED BY <1>1, <2>1, <2>2 DEF Mods
  <1>7. ASSUME NEW i \in 1 .. Len(t), i # 1 PROVE t[i].mod \in Mods(Tail(t))
    <2>1. i - 1 \in 1 .. Len(t) - 1 /\ (i - 1) + 1 = i
      BY <1>0, <1>7
    <2>2. Tail(t)[i - 1] = t[i]
      BY <1>1, <2>1
    <2> QED BY <1>1, <2>1, <2>2 DEF Mods
  <1>8. Mods(Tail(t)) = Mods(t) \ {Head(t).mod}
    <2>1. Mods(Tail(t)) \subseteq Mods(t) \ {t[1].mod}
      BY <1>1, <1>6 DEF Mods
    <2>2. Mods(t) \ {t[1].mod} \subseteq Mods(Tail(t))
      BY <1>1, <1>7 DEF Mods
    <2> QED BY <1>1, <2>1, <2>2
  <1> QED BY <1>1, <1>3, <1>4, <1>5, <1>8

\* Main turns to the next module, and has these steps before it.
Taken(steps) ==
    LET m == Head(main.todo).mod
    IN /\ Places' /\ main'.phase = main.phase /\ main.phase \in {"init", "exit"}
       /\ main.steps = <<>> /\ main'.steps = steps
       /\ Head(main.todo) \in Entry /\ main'.entry = Head(main.todo)
       /\ main'.entry.mod = m /\ m \in Module \cap Todo /\ Todo' = Todo \ {m}
       /\ main'.todo = Tail(main.todo)

LEMMA TakeKeeps ==
    ASSUME Places, NEW phase \in {"init", "exit"}, Turn(phase), NEW steps, Take(steps),
           steps = <<>> \/ steps \in IF phase = "init" THEN InitPaths(Head(main.todo).mod)
                                                       ELSE ExitPaths(Head(main.todo).mod)
    PROVE  Taken(steps)
  <1>1. main.phase = phase /\ main.steps = <<>> /\ main.todo # <<>>
    BY DEF Turn
  <1>2. main' = [phase |-> main.phase, todo |-> Tail(main.todo), entry |-> Head(main.todo),
                 steps |-> steps, inCore |-> main.inCore]
    <2>1. MainFields
      BY DEF Places
    <2> QED BY <2>1 DEF Take, MainFields
  <1>3. /\ main'.phase = main.phase /\ main'.todo = Tail(main.todo)
        /\ main'.entry = Head(main.todo) /\ main'.steps = steps
        /\ main'.inCore = main.inCore /\ MainFields'
    BY <1>2, Fields
  <1>4. /\ main'.todo \in Seq(Entry) /\ Once(main.todo)' /\ Head(main.todo) \in Entry
        /\ Todo' = Todo \ {Head(main.todo).mod} /\ Head(main.todo).mod \in Todo \cap Module
    BY <1>1, <1>3, TailMods DEF Places, Todo
  <1>5. Mod' = Head(main.todo).mod
    BY <1>3 DEF Mod
  <1>6. Places'
    <2>1. On(IF phase = "init" THEN InitPaths(Mod) ELSE ExitPaths(Mod))'
      BY <1>1, <1>3, <1>4, <1>5 DEF On
    <2>2. phase = "init" => On(InitPaths(Mod))'
      BY <2>1
    <2>3. phase = "exit" => On(ExitPaths(Mod))'
      BY <2>1
    <2> QED BY <1>1, <1>3, <1>4, <2>2, <2>3 DEF Places, Phases
  <1> QED BY <1>1, <1>3, <1>4, <1>6 DEF Taken
-----------------------------------------------------------------------------
(* Lists of modules *)

\* list_del: what is left of a list without duplicates is what it was but for one element.
LEMMA RemoveOne ==
    ASSUME NEW list \in Seq(Module), IsInjective(list), NEW n \in 1 .. Len(list)
    PROVE  /\ RemoveAt(list, n) \in Seq(Module) /\ IsInjective(RemoveAt(list, n))
           /\ ToSet(RemoveAt(list, n)) = ToSet(list) \ {list[n]}
  <1> DEFINE left == SubSeq(list, 1, n - 1)
  <1> DEFINE right == SubSeq(list, n + 1, Len(list))
  <1> DEFINE new == left \o right
  <1>1. \A i \in 1 .. Len(list) : list[i] \in Module
    BY SMT
  <1>2. /\ left \in Seq(Module) /\ Len(left) = n - 1
        /\ \A i \in 1 .. n - 1 : left[i] = list[i]
    <2>1. /\ left \in Seq(Module)
          /\ Len(left) = IF 1 <= n - 1 THEN n - 1 - 1 + 1 ELSE 0
          /\ \A i \in 1 .. n - 1 - 1 + 1 : left[i] = list[1 + i - 1]
      BY <1>1, SubSeqProperties, SMT
    <2> HIDE DEF left
    <2> QED BY <2>1, SMT
  <1>3. /\ right \in Seq(Module) /\ Len(right) = Len(list) - n
        /\ \A i \in 1 .. Len(list) - n : right[i] = list[n + i]
    <2>1. /\ right \in Seq(Module)
          /\ Len(right) = IF n + 1 <= Len(list) THEN Len(list) - (n + 1) + 1 ELSE 0
          /\ \A i \in 1 .. Len(list) - (n + 1) + 1 : right[i] = list[n + 1 + i - 1]
      BY <1>1, SubSeqProperties, SMT
    <2> HIDE DEF right
    <2> QED BY <2>1, SMT
  <1> HIDE DEF left, right
  <1>4. /\ new \in Seq(Module) /\ Len(new) = Len(list) - 1
        /\ \A i \in 1 .. Len(list) - 1 :
               new[i] = IF i <= n - 1 THEN list[i] ELSE list[i + 1]
    <2>1. /\ new \in Seq(Module) /\ Len(new) = Len(left) + Len(right)
          /\ \A i \in 1 .. Len(left) + Len(right) :
                 new[i] = IF i <= Len(left) THEN left[i] ELSE right[i - Len(left)]
      BY <1>2, <1>3, ConcatProperties
    <2> HIDE DEF new
    <2>2. Len(list) \in Nat /\ n \in Nat /\ 1 <= n /\ n <= Len(list)
      BY SMT
    <2>3. Len(left) + Len(right) = Len(list) - 1
      BY <2>2, <1>2, <1>3, SMT
    <2>4. ASSUME NEW i \in 1 .. Len(list) - 1
          PROVE  new[i] = IF i <= n - 1 THEN list[i] ELSE list[i + 1]
      <3>1. CASE i <= n - 1
        BY <3>1, <2>1, <2>2, <2>3, <1>2, SMT
      <3>2. CASE i > n - 1
        <4>3. Len(left) = n - 1
          BY <1>2
        <4>4. i \in 1 .. Len(left) + Len(right) /\ ~(i <= Len(left))
          BY <3>2, <4>3, <2>2, <2>3, SMT
        <4>5. new[i] = right[i - Len(left)]
          BY <4>4, <2>1
        <4>1. new[i] = right[i - (n - 1)]
          BY <4>3, <4>5
        <4>2. i - (n - 1) \in 1 .. Len(list) - n /\ n + (i - (n - 1)) = i + 1
          BY <3>2, <2>2, SMT
        <4>6. right[i - (n - 1)] = list[i + 1]
          BY <4>2, <1>3
        <4>7. ~(i <= n - 1)
          BY <3>2, <2>2, SMT
        <4> QED BY <4>1, <4>6, <4>7
      <3> QED BY <3>1, <3>2, <2>2, SMT
    <2> QED BY <2>1, <2>3, <2>4
  <1> HIDE DEF new
  <1>0. /\ Len(list) \in Nat /\ n \in Nat /\ 1 <= n /\ n <= Len(list)
        /\ DOMAIN list = 1 .. Len(list) /\ DOMAIN new = 1 .. Len(list) - 1
    BY <1>4, SMT
  <1>5. IsInjective(new)
    <2> SUFFICES ASSUME NEW i \in 1 .. Len(list) - 1, NEW j \in 1 .. Len(list) - 1, new[i] = new[j]
                 PROVE  i = j
      BY <1>0 DEF IsInjective
    <2> DEFINE p(k) == IF k <= n - 1 THEN k ELSE k + 1
    <2>1. p(i) \in 1 .. Len(list) /\ p(j) \in 1 .. Len(list)
      BY <1>0, SMT
    <2>2. new[i] = list[p(i)] /\ new[j] = list[p(j)]
      BY <1>4
    <2>3. list[p(i)] = list[p(j)]
      BY <2>2
    <2> HIDE DEF p
    <2>4. p(i) = p(j)
      BY <1>0, <2>1, <2>3 DEF IsInjective
    <2> QED BY <1>0, <2>4, SMT DEF p
  <1>6. ToSet(new) \subseteq ToSet(list) \ {list[n]}
    <2> SUFFICES ASSUME NEW i \in 1 .. Len(list) - 1 PROVE new[i] \in ToSet(list) \ {list[n]}
      BY <1>0 DEF ToSet
    <2> DEFINE q == IF i <= n - 1 THEN i ELSE i + 1
    <2>1. q \in 1 .. Len(list) /\ q # n
      BY <1>0, SMT
    <2>2. new[i] = list[q]
      BY <1>4
    <2> HIDE DEF q
    <2>3. list[q] # list[n]
      BY <1>0, <2>1 DEF IsInjective
    <2> QED BY <1>0, <2>1, <2>2, <2>3 DEF ToSet
  <1>7. ToSet(list) \ {list[n]} \subseteq ToSet(new)
    <2> SUFFICES ASSUME NEW i \in 1 .. Len(list), i # n PROVE list[i] \in ToSet(new)
      BY <1>0 DEF ToSet
    <2> DEFINE q == IF i < n THEN i ELSE i - 1
    <2>1. q \in 1 .. Len(list) - 1 /\ i = IF q <= n - 1 THEN q ELSE q + 1
      BY <1>0, SMT
    <2> HIDE DEF q
    <2>2. new[q] = IF q <= n - 1 THEN list[q] ELSE list[q + 1]
      BY <1>4, <2>1
    <2>3. new[q] = list[i]
      BY <2>1, <2>2
    <2> QED BY <1>0, <2>1, <2>3 DEF ToSet
  <1> QED BY <1>4, <1>5, <1>6, <1>7 DEF RemoveAt, new, left, right

\* list_add: the object comes in front of the others.
LEMMA PutInFront ==
    ASSUME NEW list \in Seq(Module), IsInjective(list), NEW m \in Module \ ToSet(list)
    PROVE  /\ <<m>> \o list \in Seq(Module) /\ IsInjective(<<m>> \o list)
           /\ ToSet(<<m>> \o list) = ToSet(list) \cup {m}
  <1> DEFINE new == <<m>> \o list
  <1>1. /\ new \in Seq(Module) /\ Len(new) = Len(list) + 1
        /\ \A i \in 1 .. Len(list) + 1 : new[i] = IF i <= 1 THEN m ELSE list[i - 1]
    BY ConcatProperties, SMT
  <1> HIDE DEF new
  <1>2. /\ Len(list) \in Nat /\ DOMAIN list = 1 .. Len(list) /\ DOMAIN new = 1 .. Len(list) + 1
        /\ 1 \in 1 .. Len(list) + 1
    BY <1>1, SMT
  <1>3. /\ \A i \in 1 .. Len(list) + 1 : i # 1 => ~(i <= 1) /\ i - 1 \in 1 .. Len(list)
        /\ \A i \in 1 .. Len(list) : i + 1 \in 1 .. Len(list) + 1 /\ ~(i + 1 <= 1) /\ (i + 1) - 1 = i
    BY <1>2, SMT
  <1>4. \A i \in 1 .. Len(list) : list[i] \in ToSet(list)
    BY <1>2 DEF ToSet
  <1>5. ToSet(new) = ToSet(list) \cup {m}
    <2>1. new[1] = m
      BY <1>1, <1>2
    <2>2. \A i \in 1 .. Len(list) + 1 : new[i] \in ToSet(list) \cup {m}
      BY <1>1, <1>3, <1>4
    <2>3. \A i \in 1 .. Len(list) : list[i] \in ToSet(new)
      <3> TAKE i \in 1 .. Len(list)
      <3>1. new[i + 1] = list[i]
        BY <1>1, <1>3
      <3> QED BY <1>2, <1>3, <3>1 DEF ToSet
    <2> QED BY <1>2, <2>1, <2>2, <2>3 DEF ToSet
  <1>6. IsInjective(new)
    <2> SUFFICES ASSUME NEW i \in 1 .. Len(list) + 1, NEW j \in 1 .. Len(list) + 1, new[i] = new[j]
                 PROVE  i = j
      BY <1>2 DEF IsInjective
    <2>1. i = 1 <=> j = 1
      BY <1>1, <1>3, <1>4
    <2>2. CASE i # 1 /\ j # 1
      <3>1. list[i - 1] = list[j - 1] /\ i - 1 \in 1 .. Len(list) /\ j - 1 \in 1 .. Len(list)
        BY <1>1, <1>3, <2>2
      <3>2. i - 1 = j - 1
        BY <1>2, <3>1 DEF IsInjective
      <3> QED BY <1>2, <3>2, SMT
    <2> QED BY <2>1, <2>2
  <1> QED BY <1>1, <1>5, <1>6 DEF new

\* The lists that AddModules makes.
AddedEntries(place) == [i \in DOMAIN place |-> config[place[i]]]
AddedNames(place) == [i \in DOMAIN place |-> config[place[i]].mod]
InOrder(place) == \A i, j \in DOMAIN place : i < j => place[i] < place[j]

\* sios_add_module: no two entries for one file, and module_list has those of the entries.
LEMMA AddedList ==
    ASSUME config \in Seq(Entry), NEW place \in [1 .. Cardinality(Added) -> Added], InOrder(place)
    PROVE  /\ AddedEntries(place) \in Seq(Entry) /\ Once(AddedEntries(place))
           /\ AddedNames(place) \in Seq(Module) /\ IsInjective(AddedNames(place))
           /\ ToSet(AddedNames(place)) = Mods(AddedEntries(place))
           /\ \A i \in DOMAIN AddedEntries(place) :
                  \E j \in DOMAIN config : AddedEntries(place)[i] = config[j]
  <1> DEFINE t == AddedEntries(place)
  <1> DEFINE list == AddedNames(place)
  <1> DEFINE n == Cardinality(Added)
  <1>1. Added \subseteq 1 .. Len(config) /\ Len(config) \in Nat /\ DOMAIN config = 1 .. Len(config)
    BY SMT DEF Added
  <1>2. n \in Nat
    <2>1. IsFiniteSet(1 .. Len(config))
      BY <1>1, FS_Interval, SMT
    <2>2. IsFiniteSet(Added)
      BY <1>1, <2>1, FS_Subset
    <2> QED BY <2>2, FS_CardinalityType
  <1> HIDE DEF n
  <1>3. DOMAIN place = 1 .. n /\ \A i \in 1 .. n : place[i] \in Added
    BY DEF n
  <1>4. \A i \in 1 .. n : config[place[i]] \in Entry /\ config[place[i]].mod \in Module
    <2> TAKE i \in 1 .. n
    <2>1. place[i] \in 1 .. Len(config)
      BY <1>1, <1>3
    <2>2. config[place[i]] \in Entry
      BY <2>1, ElementOfSeq
    <2> QED BY <2>2 DEF Entry
  <1>5. \A i, j \in 1 .. n : config[place[i]].mod = config[place[j]].mod => i = j
    <2> SUFFICES ASSUME NEW i \in 1 .. n, NEW j \in 1 .. n, i < j
                 PROVE  config[place[i]].mod # config[place[j]].mod
      BY <1>2, SMT
    <2>1. place[i] \in Added /\ place[j] \in DOMAIN config /\ place[i] < place[j]
      BY <1>1, <1>3 DEF InOrder
    <2> QED BY <2>1 DEF Added
  <1>6. /\ DOMAIN t = 1 .. n /\ \A i \in 1 .. n : t[i] = config[place[i]]
        /\ DOMAIN list = 1 .. n /\ \A i \in 1 .. n : list[i] = config[place[i]].mod
    BY <1>3 DEF AddedEntries, AddedNames
  <1>7. t \in Seq(Entry) /\ list \in Seq(Module)
    <2>1. t = [i \in 1 .. n |-> config[place[i]]] /\ list = [i \in 1 .. n |-> config[place[i]].mod]
      BY <1>3 DEF AddedEntries, AddedNames
    <2>2. /\ [i \in 1 .. n |-> config[place[i]]] \in Seq(Entry)
          /\ [i \in 1 .. n |-> config[place[i]].mod] \in Seq(Module)
      BY <1>2, <1>4, SMT
    <2> QED BY <2>1, <2>2
  <1>8. Once(t) /\ IsInjective(list)
    BY <1>5, <1>6 DEF Once, IsInjective
  <1>9. ToSet(list) = Mods(t)
    BY <1>6 DEF ToSet, Mods
  <1> QED BY <1>1, <1>3, <1>6, <1>7, <1>8, <1>9

\* sios_unload_modules_all goes through module_list.
LEMMA ExitList ==
    ASSUME NEW list \in Seq(Module), IsInjective(list),
           NEW t, t = [i \in DOMAIN list |-> [mod |-> list[i], classed |-> TRUE]]
    PROVE  t \in Seq(Entry) /\ Once(t) /\ Mods(t) = ToSet(list)
  <1>1. Len(list) \in Nat /\ DOMAIN list = 1 .. Len(list)
    OBVIOUS
  <1>2. \A i \in 1 .. Len(list) : [mod |-> list[i], classed |-> TRUE] \in Entry
    BY <1>1, ElementOfSeq DEF Entry
  <1>3. t \in Seq(Entry)
    BY <1>1, <1>2, SMT
  <1>4. DOMAIN t = DOMAIN list /\ \A i \in DOMAIN list : t[i].mod = list[i]
    OBVIOUS
  <1> QED BY <1>3, <1>4 DEF Once, IsInjective, Mods, ToSet

LEMMA EmptyList ==
    /\ <<>> \in Seq(Module) /\ <<>> \in Seq(Entry) /\ IsInjective(<<>>) /\ Once(<<>>)
    /\ ToSet(<<>>) = {} /\ Mods(<<>>) = {}
  BY SMT DEF IsInjective, Once, ToSet, Mods

-----------------------------------------------------------------------------
(* Every step leaves main on a path *)

\* What every step but AddModules and Load does to main, as far as the lists can tell.
Onward ==
    /\ Places'
    /\ main'.phase \in {"start", "init"} =>
           /\ main'.phase = main.phase /\ Todo' = Todo /\ main'.entry = main.entry
           /\ main.steps = <<>> => main'.steps = <<>>
           /\ main.phase = "init" /\ "register" \in Ahead' => "register" \in Ahead

\* The ways in which a step may move main, AddModules and Load apart.
Stays ==
    /\ Places' /\ main'.phase = main.phase /\ main'.todo = main.todo /\ main'.entry = main.entry
    /\ main'.steps = main.steps
Passes == main.steps # <<>> /\ DoneWell
Turns ==
    /\ Places' /\ main'.entry = main.entry
    /\ \/ main.phase = "init" /\ main'.phase = "run" /\ main.steps = <<>> /\ main.todo = <<>>
       \/ main.phase = "run" /\ main'.phase = "exit" /\ main'.steps = <<>> /\ Todo' = ToSet(modules)
       \/ main.phase = "exit" /\ main'.phase = "stop" /\ main.steps = <<>> /\ main.todo = <<>>
       \/ main.phase \in {"start", "stop"} /\ main'.phase = "ended"
Begins == main.phase = "exit" /\ BeginExit /\ Taken(ExitSteps(Head(main.todo).mod))
Moves == Stays \/ Passes \/ Failed \/ Turns \/ Begins

LEMMA SameStays == Places /\ main' = main => Stays
  BY DEF Stays, Places, MainFields, On, Todo, Mod

LEMMA DonePasses ==
    ASSUME Places, NEW x, At(x), x \notin {"modules", "halt_osc"}, Done
    PROVE  Passes
  BY DoneKeeps DEF Passes, At

LEMMA MovesOnward == Moves => Onward
  <1> SUFFICES ASSUME Moves PROVE Onward
    OBVIOUS
  <1>1. CASE Stays
    BY <1>1 DEF Stays, Onward, Todo, Ahead
  <1>2. CASE Passes
    BY <1>2 DEF Passes, DoneWell, Onward
  <1>3. CASE Failed
    <2>1. /\ "register" \notin ToSet(<<"unload">>) /\ "register" \notin ToSet(<<"deregister", "unload">>)
          /\ "register" \notin ToSet(<<"open", "methods", "device">>)
          /\ "register" \notin ToSet(<<"deregister", "no_service", "halt", "no_service", "close_core">>)
      BY SMT DEF ToSet
    <2>2. "register" \notin Ahead'
      BY <1>3, <2>1 DEF Failed, Ahead
    <2> QED BY <1>3, <2>2 DEF Failed, Onward
  <1>4. CASE Turns
    BY <1>4 DEF Turns, Onward
  <1>5. CASE Begins
    BY <1>5 DEF Begins, Taken, Onward
  <1> QED BY <1>1, <1>2, <1>3, <1>4, <1>5 DEF Moves

\* A step that ends a phase, or stops the process.
LEMMA PhaseTurns ==
    ASSUME Places, NEW p \in {"run", "exit", "stop", "ended"},
           NEW t \in Seq(Entry), Once(t), NEW s,
           main' = [phase |-> p, todo |-> t, entry |-> main.entry, steps |-> s,
                    inCore |-> main.inCore],
           p # "exit" => t = <<>>, IF p = "stop" THEN s = StopSteps ELSE s = <<>>
    PROVE  /\ Places' /\ main'.phase = p /\ main'.entry = main.entry /\ main'.steps = s
           /\ Todo' = Mods(t)
  <1>1. /\ main'.phase = p /\ main'.todo = t /\ main'.steps = s /\ main'.inCore = main.inCore
        /\ main'.entry = main.entry /\ MainFields'
    BY Fields
  <1>2. p = "stop" => s \in StopPaths
    BY DEF StopSteps, StopPaths
  <1>3. p = "exit" => On(ExitPaths(Mod))'
    BY <1>1 DEF On
  <1> QED BY <1>1, <1>2, <1>3 DEF Places, Phases, Todo

\* A call into the mDNS core: main enters, leaves with success, or leaves with a failure.
LEMMA CoreMoves ==
    ASSUME Places, EnterCore \/ LeaveCore
    PROVE  Stays \/ Passes \/ (Failed /\ MayFail)
  <1>1. PICK x \in {"init_core", "service", "no_service", "close_core"} : At(x)
    BY DEF EnterCore, LeaveCore, CoreCall
  <1>2. MainFields
    BY DEF Places
  <1>3. Head(main.steps) = x /\ main.steps # <<>>
    BY <1>1 DEF At
  <1>4. CASE EnterCore
    <2>1. main' = [phase |-> main.phase, todo |-> main.todo, entry |-> main.entry,
                   steps |-> main.steps, inCore |-> TRUE]
      BY <1>2, <1>4 DEF EnterCore, MainFields
    <2>2. /\ main'.phase = main.phase /\ main'.todo = main.todo /\ main'.entry = main.entry
          /\ main'.steps = main.steps /\ main'.inCore = TRUE /\ MainFields'
      BY <2>1, Fields
    <2>3. Mod' = Mod /\ Todo' = Todo
      BY <2>2 DEF Mod, Todo
    <2> QED BY <2>2, <2>3 DEF Stays, Places, On
  <1>5. CASE main' = [main EXCEPT !.inCore = FALSE, !.steps = Tail(@)]
    <2>1. main' = [phase |-> main.phase, todo |-> main.todo, entry |-> main.entry,
                   steps |-> Tail(main.steps), inCore |-> FALSE]
      BY <1>2, <1>5 DEF MainFields
    <2>2. DoneWell
      BY <1>1, <2>1, PassKeeps
    <2> QED BY <1>3, <2>2 DEF Passes
  <1>6. CASE /\ At("init_core") \/ At("service")
             /\ MayFail
             /\ main' = [main EXCEPT !.inCore = FALSE, !.steps = OnFailure(Mod, Head(@))]
    <2>1. main' = [phase |-> main.phase, todo |-> main.todo, entry |-> main.entry,
                   steps |-> OnFailure(Mod, Head(main.steps)), inCore |-> FALSE]
      BY <1>2, <1>6 DEF MainFields
    <2>2. Head(main.steps) \in {"init_core", "service"} /\ At(Head(main.steps))
      BY <1>6 DEF At
    <2>3. Failed
      BY <2>1, <2>2, FailKeeps
    <2> QED BY <1>6, <2>3
  <1> QED BY <1>4, <1>5, <1>6 DEF LeaveCore

\* The actions that only ever go on to the next step.
LEMMA DoneSteps ==
    ASSUME SetDevice \/ AddMethods \/ AddContexts \/ DeleteContext \/ Close \/ HaltOwnThread
           \/ JoinOwnThread \/ Unload \/ HaltLoops \/ JoinLoop
    PROVE  \E x \in Exits \cup Inits \cup {"halt_loops", "join_readers", "join_writers"} : At(x) /\ Done
  BY DEF SetDevice, AddMethods, AddContexts, DeleteContext, Close, HaltOwnThread,
         JoinOwnThread, Unload, HaltLoops, JoinLoop, Exits, Undoes, Inits

\* Every step of the system moves main in one of these ways.
LEMMA StepMoves ==
    ASSUME Places, Registered, Next
    PROVE  Moves \/ AddModules \/ Load
  <1>0. MainFields /\ main.todo \in Seq(Entry) /\ main.inCore \in BOOLEAN
    BY DEF Places
  <1>1. CASE SetDevice \/ AddMethods \/ AddContexts \/ DeleteContext \/ Close \/ HaltOwnThread
             \/ JoinOwnThread \/ Unload \/ HaltLoops \/ JoinLoop
    <2>1. PICK x \in Exits \cup Inits \cup {"halt_loops", "join_readers", "join_writers"} : At(x) /\ Done
      BY <1>1, DoneSteps
    <2>2. x \notin {"modules", "halt_osc"}
      BY DEF Exits, Inits, Undoes
    <2> QED BY <2>1, <2>2, DonePasses DEF Moves
  <1>2. CASE StartThread
    <2>1. CASE \E x \in {"osc", "readers", "writers"} : At(x) /\ Done
      BY <2>1, DonePasses DEF Moves
    <2>2. CASE main' = [main EXCEPT !.phase = "ended", !.steps = <<>>] /\ \E x \in {"osc", "readers", "writers"} : At(x)
      <3>1. main.phase = "start"
        BY <2>2, AtStart
      <3>2. main' = [phase |-> "ended", todo |-> <<>>, entry |-> main.entry, steps |-> <<>>, inCore |-> main.inCore]
        BY <1>0, <2>2, <3>1 DEF MainFields, Places
      <3> QED BY <3>1, <3>2, EmptyList, PhaseTurns DEF Moves, Turns
    <2> QED BY <1>2, <2>1, <2>2 DEF StartThread
  <1>3. CASE Register \/ Open \/ StartOwnThread \/ Deregister
    <2>1. CASE \E x \in {"register", "open", "thread", "deregister"} : At(x) /\ Done
      BY <2>1, DonePasses DEF Moves
    <2>2. CASE \E x \in {"register", "open", "thread"} : At(x) /\ Fails(x)
      <3>1. PICK x \in {"register", "open", "thread"} : At(x) /\ Fails(x)
        BY <2>2
      <3>2. main' = [phase |-> main.phase, todo |-> main.todo, entry |-> main.entry,
                     steps |-> OnFailure(Mod, x), inCore |-> main.inCore]
        BY <1>0, <3>1 DEF Fails, MainFields
      <3>3. Failed
        BY <1>0, <3>1, <3>2, FailKeeps
      <3> QED BY <3>3 DEF Moves
    <2>3. CASE main' = main
      BY <2>3, SameStays DEF Moves
    <2> QED BY <1>3, <2>1, <2>2, <2>3 DEF Register, Open, StartOwnThread, Deregister
  <1>4. CASE EnterCore \/ LeaveCore
    BY <1>4, CoreMoves DEF Moves
  <1>5. CASE Loaded
    <2>1. main' = [phase |-> "run", todo |-> <<>>, entry |-> main.entry, steps |-> <<>>, inCore |-> main.inCore]
      BY <1>0, <1>5 DEF MainFields, Loaded
    <2>2. main.phase = "init" /\ main.steps = <<>> /\ main.todo = <<>>
      BY <1>5 DEF Loaded
    <2> QED BY <2>1, <2>2, EmptyList, PhaseTurns DEF Moves, Turns
  <1>6. CASE Signal
    <2> DEFINE t == [i \in DOMAIN modules |-> [mod |-> modules[i], classed |-> TRUE]]
    <2>1. t \in Seq(Entry) /\ Once(t) /\ Mods(t) = ToSet(modules) /\ main.phase = "run"
      BY <1>6, ExitList DEF Registered, Signal
    <2>2. main.steps = <<>>
      BY <1>6 DEF Signal, Places
    <2>3. main' = [phase |-> "exit", todo |-> t, entry |-> main.entry, steps |-> <<>>, inCore |-> main.inCore]
      BY <1>0, <1>6, <2>2 DEF MainFields, Signal
    <2> HIDE DEF t
    <2> QED BY <2>1, <2>3, PhaseTurns DEF Moves, Turns
  <1>7. CASE BeginStop
    <2>1. main' = [phase |-> "stop", todo |-> <<>>, entry |-> main.entry, steps |-> StopSteps, inCore |-> main.inCore]
      BY <1>0, <1>7 DEF MainFields, BeginStop
    <2>2. main.phase = "exit" /\ main.steps = <<>> /\ main.todo = <<>>
      BY <1>7 DEF BeginStop
    <2> QED BY <2>1, <2>2, EmptyList, PhaseTurns DEF Moves, Turns
  <1>8. CASE Terminate
    <2>1. main.phase = "stop"
      BY <1>8, AtStop DEF Terminate
    <2>2. main' = [phase |-> "ended", todo |-> <<>>, entry |-> main.entry, steps |-> <<>>, inCore |-> main.inCore]
      BY <1>0, <1>8, <2>1 DEF MainFields, Terminate, Places
    <2> QED BY <2>1, <2>2, EmptyList, PhaseTurns DEF Moves, Turns
  <1>9. CASE BeginExit
    <2>1. Turn("exit")
      BY <1>9 DEF BeginExit
    <2>2. CASE main' = main
      BY <2>2, SameStays DEF Moves
    <2>3. CASE Take(ExitSteps(Head(main.todo).mod))
      <3>1. Head(main.todo).mod \in Module
        BY <1>0, <2>1, TailMods DEF Turn, Places
      <3>2. Taken(ExitSteps(Head(main.todo).mod))
        BY <2>1, <2>3, <3>1, AllPaths, TakeKeeps
      <3>3. main'.phase = "exit"
        BY <2>1, <3>2 DEF Turn, Taken
      <3> QED BY <1>9, <3>2, <3>3 DEF Taken, Moves, Begins
    <2> QED BY <1>9, <2>2, <2>3 DEF BeginExit, Crash
  <1>10. CASE Message \/ HandlerEnds \/ (\E l \in List : LoopStep(l)) \/ MatrixThread \/ DnssdThread
    <2>1. main' = main
      BY <1>10 DEF Message, HandlerEnds, LoopStep, CheckHalt, BeginDispatch, Dispatch,
         HandlerReturns, EndDispatch, LoopGoes, MatrixThread, DnssdThread, OwnStep, Crash
    <2> QED BY <2>1, SameStays DEF Moves
  <1> QED BY <1>1, <1>2, <1>3, <1>4, <1>5, <1>6, <1>7, <1>8, <1>9, <1>10 DEF Next, MainStep

-----------------------------------------------------------------------------
(* The lists of modules and objects *)

\* A step that leaves the lists alone keeps what is said of them.
LEMMA QuietLists ==
    ASSUME Registered, Onward, UNCHANGED <<config, modules, mapped, objects>>
    PROVE  Registered'
  <1>1. main'.phase = "init" => (main'.steps # <<>> => main.steps # <<>>) /\ Mod' = Mod
    BY DEF Onward, Mod
  <1> QED BY <1>1, SMT DEF Registered, Onward

\* The configured modules come to module_list, and none of them is mapped.
LEMMA AddModulesKeeps ==
    ASSUME Places, Registered, AddModules
    PROVE  /\ Places' /\ Registered' /\ main'.phase = "init" /\ main'.steps = <<>>
           /\ ToSet(modules') = Todo' /\ main.phase = "start" /\ main'.entry = main.entry
           /\ \A i \in DOMAIN main'.todo : \E j \in DOMAIN config : main'.todo[i] = config[j]
  <1>1. PICK place \in [1 .. Cardinality(Added) -> Added] :
            /\ \A i, j \in DOMAIN place : i < j => place[i] < place[j]
            /\ modules' = [i \in DOMAIN place |-> config[place[i]].mod]
            /\ main' = [main EXCEPT !.phase = "init", !.steps = <<>>,
                                    !.todo = [i \in DOMAIN place |-> config[place[i]]]]
    BY DEF AddModules
  <1> DEFINE t == AddedEntries(place)
  <1> DEFINE list == AddedNames(place)
  <1>2. config \in Seq(Entry)
    BY DEF Registered
  <1>3. /\ t \in Seq(Entry) /\ Once(t) /\ list \in Seq(Module) /\ IsInjective(list)
        /\ ToSet(list) = Mods(t)
        /\ \A i \in DOMAIN t : \E j \in DOMAIN config : t[i] = config[j]
    BY <1>1, <1>2, AddedList DEF InOrder
  <1> HIDE DEF t, list
  <1>4. main' = [phase |-> "init", todo |-> t, entry |-> main.entry, steps |-> <<>>,
                 inCore |-> main.inCore] /\ modules' = list
    <2>1. MainFields
      BY DEF Places
    <2> QED BY <1>1, <2>1 DEF MainFields, t, list, AddedEntries, AddedNames
  <1>5. /\ main'.phase = "init" /\ main'.todo = t /\ main'.entry = main.entry /\ main'.steps = <<>>
        /\ main'.inCore = main.inCore /\ MainFields'
    BY <1>4, Fields
  <1>6. main.phase = "start"
    BY AtStart DEF AddModules
  <1>7. Places'
    BY <1>3, <1>5 DEF Places, Phases, On
  <1>8. Todo' = ToSet(modules') /\ Ahead' = {}
    BY <1>3, <1>4, <1>5, EmptyList DEF Todo, Ahead, ToSet
  <1>9. config' = config /\ mapped' = mapped /\ objects' = objects /\ mapped = {} /\ objects = <<>>
    BY <1>6 DEF AddModules, Registered
  <1>10. Registered'
    BY <1>2, <1>3, <1>4, <1>5, <1>8, <1>9, EmptyList DEF Registered
  <1> QED BY <1>3, <1>5, <1>6, <1>7, <1>8, <1>10

\* What Load does: the four ways in which it ends.
Loads(m, steps) ==
    /\ Taken(steps) /\ main.phase = "init" /\ m = Head(main.todo).mod
    /\ UNCHANGED <<config, objects, methods, device, listed, halted, threads>>
    /\ \/ /\ steps = InitSteps(m) /\ mapped' = mapped \cup {m}
          /\ UNCHANGED <<modules, failures, crash>>
       \/ /\ failures' = failures + 1 /\ failures < MaxFailures
          /\ \/ steps = <<>> /\ UNCHANGED <<modules, mapped, crash>>
             \/ steps = <<>> /\ ListDel(m) /\ UNCHANGED <<mapped, crash>>
             \/ steps = <<"unload">> /\ mapped' = mapped \cup {m} /\ UNCHANGED <<modules, crash>>
             \/ steps = <<>> /\ mapped' = mapped \cup {m} /\ UNCHANGED modules

LEMMA LoadDoes ==
    ASSUME Places, Load
    PROVE  Loads(Head(main.todo).mod, main'.steps)
  <1> DEFINE m == Head(main.todo).mod
  <1>1. Turn("init")
    BY DEF Load
  <1>2. m \in Module
    BY <1>1, TailMods DEF Turn, Places
  <1>3. ASSUME NEW steps, Take(steps), steps = <<>> \/ steps \in InitPaths(m)
        PROVE  Taken(steps) /\ main'.steps = steps
    <2>1. Taken(steps)
      BY <1>1, <1>3, TakeKeeps
    <2> QED BY <2>1 DEF Taken
  <1>4. main.phase = "init"
    BY <1>1 DEF Turn
  <1>5. InitSteps(m) \in InitPaths(m) /\ <<"unload">> \in InitPaths(m)
    BY <1>2, AllPaths
  <1> HIDE DEF m
  <1>6. /\ UNCHANGED <<config, objects, methods, device, listed, halted, threads>>
        /\ \/ Take(InitSteps(m)) /\ mapped' = mapped \cup {m} /\ UNCHANGED <<modules, failures, crash>>
           \/ /\ failures' = failures + 1 /\ failures < MaxFailures
              /\ \/ Take(<<>>) /\ UNCHANGED <<modules, mapped, crash>>
                 \/ Take(<<>>) /\ ListDel(m) /\ UNCHANGED <<mapped, crash>>
                 \/ Take(<<"unload">>) /\ mapped' = mapped \cup {m} /\ UNCHANGED <<modules, crash>>
                 \/ Take(<<>>) /\ mapped' = mapped \cup {m} /\ UNCHANGED modules
    BY DEF Load, MayFail, m
  <1> QED BY <1>3, <1>4, <1>5, <1>6 DEF Loads, m

\* A module that main loads comes off the list of those to load, mapped or not.
LEMMA LoadKeeps ==
    ASSUME Places, Registered, Load
    PROVE  Places' /\ Registered'
  <1> DEFINE m == Head(main.todo).mod
  <1>1. Loads(m, main'.steps)
    BY LoadDoes
  <1>2. /\ Taken(main'.steps) /\ main.phase = "init" /\ config' = config /\ objects' = objects
    BY <1>1 DEF Loads
  <1> HIDE DEF m
  <1>3. /\ Places' /\ main'.phase = "init" /\ m \in Module \cap Todo /\ Todo' = Todo \ {m} /\ Mod' = m
    BY <1>2 DEF Taken, m, Mod
  <1>4. m \in ToSet(modules) /\ m \notin mapped /\ m \notin ToSet(objects)
    BY <1>2, <1>3 DEF Registered
  <1>5. main'.steps # <<>> => m \in mapped'
    BY <1>1 DEF Loads
  <1>6. /\ modules' \in Seq(Module) /\ IsInjective(modules') /\ mapped' \subseteq ToSet(modules')
        /\ Todo' \subseteq ToSet(modules') /\ Todo' \cap mapped' = {}
    <2>1. CASE modules' = modules /\ mapped' \in {mapped, mapped \cup {m}}
      BY <1>2, <1>3, <1>4, <2>1 DEF Registered
    <2>2. CASE ListDel(m) /\ mapped' = mapped
      <3>1. PICK i \in DOMAIN modules : modules[i] = m /\ modules' = RemoveAt(modules, i)
        BY <2>2 DEF ListDel
      <3>2. i \in 1 .. Len(modules) /\ modules \in Seq(Module) /\ IsInjective(modules)
        BY DEF Registered
      <3>3. /\ modules' \in Seq(Module) /\ IsInjective(modules')
            /\ ToSet(modules') = ToSet(modules) \ {m}
        BY <3>1, <3>2, RemoveOne
      <3> QED BY <1>2, <1>3, <1>4, <2>2, <3>3 DEF Registered
    <2> QED BY <1>1, <2>1, <2>2 DEF Loads
  <1> QED BY <1>2, <1>3, <1>4, <1>5, <1>6 DEF Registered

\* An object comes to object_list once, and leaves it whole.
LEMMA RegisterKeeps ==
    ASSUME Places, Registered, Register, Onward
    PROVE  Registered' /\ (UNCHANGED objects \/ ToSet(objects') = ToSet(objects) \cup {Mod})
  <1>1. CASE UNCHANGED objects
    BY <1>1, QuietLists DEF Register
  <1>2. CASE objects' = <<Mod>> \o objects /\ Done
    <2>1. At("register") /\ UNCHANGED <<config, modules, mapped>>
      BY DEF Register
    <2>2. main.phase = "init" /\ Mod \in Module \ Todo
      BY <2>1, AtInit DEF Inits
    <2>3. DoneWell /\ Head(main.steps) = "register" /\ main.steps # <<>>
      BY <1>2, <2>1, DoneKeeps DEF At
    <2>4. /\ main'.phase = "init" /\ Todo' = Todo /\ Mod' = Mod
          /\ "register" \in Ahead /\ "register" \notin Ahead'
      BY <2>2, <2>3 DEF DoneWell, Mod
    <2>5. Mod \notin ToSet(objects) /\ objects \in Seq(Module) /\ IsInjective(objects)
      BY <2>2, <2>4 DEF Registered
    <2>6. /\ objects' \in Seq(Module) /\ IsInjective(objects')
          /\ ToSet(objects') = ToSet(objects) \cup {Mod}
      BY <1>2, <2>2, <2>5, PutInFront
    <2> QED BY <2>1, <2>2, <2>3, <2>4, <2>6 DEF Registered
  <1> QED BY <1>1, <1>2 DEF Register

LEMMA DeregisterKeeps ==
    ASSUME Places, Registered, Deregister, Onward
    PROVE  Registered' /\ (UNCHANGED objects \/ ToSet(objects') = ToSet(objects) \ {Mod})
  <1>1. CASE UNCHANGED objects
    BY <1>1, QuietLists DEF Deregister
  <1>2. CASE \E i \in DOMAIN objects : objects[i] = Mod /\ objects' = RemoveAt(objects, i) /\ Done
    <2>1. At("deregister") /\ UNCHANGED <<config, modules, mapped>>
      BY DEF Deregister
    <2>2. main.phase \in {"init", "exit"}
      BY <2>1, AtUndo DEF Undoes
    <2>3. PICK i \in DOMAIN objects : objects[i] = Mod /\ objects' = RemoveAt(objects, i)
      BY <1>2
    <2>4. objects \in Seq(Module) /\ IsInjective(objects) /\ i \in 1 .. Len(objects)
      BY DEF Registered
    <2>5. /\ objects' \in Seq(Module) /\ IsInjective(objects')
          /\ ToSet(objects') = ToSet(objects) \ {Mod}
      BY <2>3, <2>4, RemoveOne
    <2>6. DoneWell
      BY <1>2, <2>1, DoneKeeps
    <2>7. main'.phase = main.phase /\ Todo' = Todo /\ Mod' = Mod /\ main.steps # <<>> /\ Ahead' \subseteq Ahead
      BY <2>1, <2>2, <2>6 DEF DoneWell, Mod, At
    <2> QED BY <2>1, <2>2, <2>5, <2>7 DEF Registered
  <1>3. UNCHANGED objects \/ \E i \in DOMAIN objects : objects[i] = Mod /\ objects' = RemoveAt(objects, i) /\ Done
    BY DEF Deregister
  <1> QED BY <1>1, <1>2, <1>3

\* A module leaves the mapped ones and module_list together.
LEMMA UnloadKeeps ==
    ASSUME Places, Registered, Unload, Onward
    PROVE  Registered' /\ ToSet(modules') = ToSet(modules) \ {Mod}
  <1>1. At("unload") /\ Done /\ UNCHANGED <<config, objects>> /\ mapped' = mapped \ {Mod}
    BY DEF Unload
  <1>2. PICK i \in DOMAIN modules : modules[i] = Mod /\ modules' = RemoveAt(modules, i)
    BY DEF Unload, ListDel
  <1>3. modules \in Seq(Module) /\ IsInjective(modules) /\ i \in 1 .. Len(modules)
    BY DEF Registered
  <1>4. /\ modules' \in Seq(Module) /\ IsInjective(modules')
        /\ ToSet(modules') = ToSet(modules) \ {Mod}
    BY <1>2, <1>3, RemoveOne
  <1>5. main.phase \in {"init", "exit"} /\ Mod \in Module \ Todo
    BY <1>1, AtUndo DEF Undoes
  <1>6. DoneWell
    BY <1>1, DoneKeeps
  <1>7. main'.phase = main.phase /\ Todo' = Todo /\ Mod' = Mod /\ Ahead' \subseteq Ahead
    BY <1>5, <1>6 DEF DoneWell, Mod
  <1>8. main.phase = "init" => main'.steps = <<>>
    <2> SUFFICES ASSUME main.phase = "init" PROVE main'.steps = <<>>
      OBVIOUS
    <2>1. main.steps \in InitPaths(Mod) /\ Head(main.steps) = "unload"
      BY <1>1, AtUndo DEF Undoes, At
    <2>2. Tail(main.steps) = <<>>
      BY <1>5, <2>1, PwmTable, LightTable, MatrixTable, AccmagTable, DnssdTable
         DEF InitPaths, Module, PwmPaths, LightPaths, MatrixPaths, AccmagPaths, DnssdPaths, Path
    <2> QED BY <1>6, <2>2 DEF DoneWell
  <1> QED BY <1>1, <1>4, <1>5, <1>7, <1>8 DEF Registered

\* The other actions leave the lists alone.
LEMMA OtherLists ==
    ASSUME Next, ~AddModules, ~Load, ~Register, ~Deregister, ~Unload
    PROVE  UNCHANGED <<config, modules, mapped, objects>>
  <1>1. CASE StartThread \/ Open \/ SetDevice \/ AddMethods \/ AddContexts \/ StartOwnThread
    BY <1>1 DEF StartThread, Open, SetDevice, AddMethods, AddContexts, StartOwnThread, registries
  <1>2. CASE EnterCore \/ LeaveCore \/ Loaded \/ BeginExit \/ DeleteContext \/ Close
    BY <1>2 DEF EnterCore, LeaveCore, Loaded, BeginExit, DeleteContext, Close, registries, Crash
  <1>3. CASE HaltOwnThread \/ JoinOwnThread \/ BeginStop \/ HaltLoops \/ JoinLoop \/ Terminate \/ Signal
    BY <1>3 DEF HaltOwnThread, JoinOwnThread, BeginStop, HaltLoops, JoinLoop, Terminate, Signal,
       registries
  <1>4. CASE Message \/ HandlerEnds \/ MatrixThread \/ DnssdThread
    BY <1>4 DEF Message, HandlerEnds, MatrixThread, DnssdThread, OwnStep, Crash, registries
  <1>5. CASE \E l \in List : LoopStep(l)
    BY <1>5 DEF LoopStep, CheckHalt, BeginDispatch, Dispatch, HandlerReturns, EndDispatch,
       LoopGoes, Crash, registries
  <1> QED BY <1>1, <1>2, <1>3, <1>4, <1>5 DEF Next, MainStep

\* Places and Registered are inductive.
LEMMA ListsKept ==
    ASSUME Places, Registered, Next
    PROVE  Places' /\ Registered'
  <1>1. CASE AddModules
    BY <1>1, AddModulesKeeps
  <1>2. CASE Load
    BY <1>2, LoadKeeps
  <1>3. CASE ~AddModules /\ ~Load
    <2>1. Onward
      BY <1>3, StepMoves, MovesOnward
    <2>2. Registered'
      BY <1>3, <2>1, RegisterKeeps, DeregisterKeeps, UnloadKeeps, OtherLists, QuietLists
    <2> QED BY <2>1, <2>2 DEF Onward
  <1> QED BY <1>1, <1>2, <1>3

-----------------------------------------------------------------------------
(* The kinds of the other variables *)

\* The variables that Kinds speaks of.
kinds == <<methods, listed, device, loop, osc, own, met, halted, failures>>

LEMMA SameKinds == Kinds /\ UNCHANGED kinds => Kinds'
  BY DEF Kinds, kinds

\* The types that single actions give their variables.
LEMMA FailureKinds ==
    ASSUME Kinds, MayFail
    PROVE  failures' \in 0 .. MaxFailures
  BY LifecycleAssumption, SMT DEF MayFail, Kinds

LEMMA AddableKinds == \A m \in Module : Addable(m) \subseteq Context
  BY DEF Addable, Module, Context

LEMMA HaltOf ==
    ASSUME Places, At("halt")
    PROVE  Mod \in {"matrix", "dnssd"}
  <1>1. /\ main.phase \in {"init", "exit"} /\ Mod \in Module
        /\ main.steps \in IF main.phase = "init" THEN InitPaths(Mod) ELSE ExitPaths(Mod)
    BY AtUndo DEF Undoes
  <1>2. Head(main.steps) = "halt"
    BY DEF At
  <1>3. CASE main.phase = "init"
    BY <1>1, <1>2, <1>3, PwmTable, LightTable, MatrixTable, AccmagTable
       DEF InitPaths, Module, PwmPaths, LightPaths, MatrixPaths, AccmagPaths, Path
  <1>4. CASE main.phase = "exit"
    BY <1>1, <1>2, <1>4, SourceExitTable, AccmagExitTable
       DEF ExitPaths, Module, SourceExitPaths, AccmagExitPaths, Path
  <1> QED BY <1>1, <1>3, <1>4

LEMMA LoopKinds ==
    ASSUME Kinds, NEW l \in List, NEW at \in {"check", "select", "dispatch", "handler", "ended"},
           NEW todo \in SUBSET Context, \A c \in todo : ListOf(c) = l, NEW c \in Context \cup {"none"},
           LoopGoes(l, at, todo, c), listed' \subseteq listed
    PROVE  Kinds'
  <1>1. [at |-> at, todo |-> todo, ctx |-> c] \in LoopState
    BY DEF LoopState
  <1>2. loop' = [loop EXCEPT ![l] = [at |-> at, todo |-> todo, ctx |-> c]]
    BY DEF LoopGoes
  <1>3. loop' \in [List -> LoopState]
    BY <1>1, <1>2 DEF Kinds
  <1>4. \A k \in List : loop'[k] = IF k = l THEN [at |-> at, todo |-> todo, ctx |-> c] ELSE loop[k]
    BY <1>2 DEF Kinds
  <1>5. \A k \in List : \A d \in loop'[k].todo : ListOf(d) = k
    BY <1>4 DEF Kinds
  <1> QED BY <1>3, <1>5 DEF LoopGoes, Kinds

\* Kinds is inductive, given where main is.
LEMMA KindsKept ==
    ASSUME Places, Kinds, Next
    PROVE  Kinds'
  <1>1. CASE \/ AddModules \/ Register \/ EnterCore \/ Loaded \/ Deregister \/ JoinOwnThread
             \/ Unload \/ BeginStop \/ JoinLoop \/ Terminate \/ Signal
    BY <1>1, SameKinds DEF kinds, AddModules, Register, EnterCore, Loaded, Deregister,
       JoinOwnThread, Unload, BeginStop, JoinLoop, Terminate, Signal, registries, threads
  <1>2. CASE Load \/ LeaveCore
    <2>1. UNCHANGED <<methods, listed, device, loop, osc, own, met, halted>>
      BY <1>2 DEF Load, LeaveCore, registries, threads
    <2>2. UNCHANGED failures \/ MayFail
      BY <1>2 DEF Load, LeaveCore
    <2>3. failures' \in 0 .. MaxFailures
      BY <2>2, FailureKinds DEF Kinds
    <2> QED BY <2>1, <2>3 DEF Kinds
  <1>3. CASE StartThread
    <2>1. UNCHANGED <<methods, listed, device, own, met, halted>>
      BY <1>3 DEF StartThread, registries
    <2>2. failures' \in 0 .. MaxFailures
      BY <1>3, FailureKinds DEF StartThread, Kinds
    <2>3. osc' \in Module \cup {"off", "idle"}
      BY <1>3 DEF StartThread, Kinds
    <2>4. \/ loop' = loop \/ \E l \in List : loop' = [loop EXCEPT ![l].at = "check"]
      BY <1>3 DEF StartThread, List
    <2>5. loop' \in [List -> LoopState] /\ \A l \in List : loop'[l].todo = loop[l].todo
      <3>1. CASE loop' = loop
        BY <3>1 DEF Kinds
      <3>2. CASE \E l \in List : loop' = [loop EXCEPT ![l].at = "check"]
        <4>1. PICK l \in List : loop' = [loop EXCEPT ![l].at = "check"]
          BY <3>2
        <4> QED BY <4>1, SMT DEF Kinds, LoopState
      <3> QED BY <2>4, <3>1, <3>2
    <2> QED BY <2>1, <2>2, <2>3, <2>5 DEF Kinds
  <1>4. CASE Open \/ SetDevice \/ Close
    <2>1. UNCHANGED <<methods, listed, loop, osc, own, met, halted>>
      BY <1>4 DEF Open, SetDevice, Close, threads
    <2>2. failures' \in 0 .. MaxFailures
      BY <1>4, FailureKinds DEF Open, SetDevice, Close, Kinds
    <2>3. device' \in [Descriptor -> {"none", "open", "set", "closed"}]
      <3>1. CASE Open
        BY <3>1, SMT DEF Open, Kinds
      <3>2. CASE SetDevice
        BY <3>2 DEF SetDevice, Kinds
      <3>3. CASE Close
        BY <3>3 DEF Close, Kinds
      <3> QED BY <1>4, <3>1, <3>2, <3>3
    <2> QED BY <2>1, <2>2, <2>3 DEF Kinds
  <1>5. CASE AddMethods
    <2>1. Mod \in Module
      BY <1>5, AtInit DEF AddMethods, Inits
    <2> QED BY <1>5, <2>1 DEF AddMethods, Kinds, threads
  <1>6. CASE AddContexts \/ DeleteContext
    <2>1. UNCHANGED <<methods, device, loop, osc, own, met, halted, failures>>
      BY <1>6 DEF AddContexts, DeleteContext, threads
    <2>2. listed \subseteq Context
      BY DEF Kinds
    <2>3. CASE AddContexts
      <3>1. PICK C \in IF Mod = "accmag" THEN {{"acc", "mag"}} ELSE {{}, {"light"}} :
                listed' = listed \cup C
        BY <2>3, Zenon DEF AddContexts
      <3>2. C \subseteq Context
        BY <3>1 DEF Context
      <3> QED BY <2>1, <2>2, <3>1, <3>2 DEF Kinds
    <2>4. CASE DeleteContext
      <3>1. listed' \subseteq listed
        BY <2>4 DEF DeleteContext
      <3> QED BY <2>1, <2>2, <3>1 DEF Kinds
    <2> QED BY <1>6, <2>3, <2>4
  <1>7. CASE StartOwnThread
    <2>1. UNCHANGED <<methods, listed, device, loop, osc, met, halted>>
      BY <1>7 DEF StartOwnThread, registries
    <2>2. failures' \in 0 .. MaxFailures
      BY <1>7, FailureKinds DEF StartOwnThread, Kinds
    <2>3. own' = own \/ own' = [own EXCEPT ![Mod] = "check"]
      BY <1>7 DEF StartOwnThread
    <2>4. /\ DOMAIN own' = {"matrix", "dnssd"}
          /\ own'["matrix"] \in {own["matrix"], "check"} /\ own'["dnssd"] \in {own["dnssd"], "check"}
      BY <2>3 DEF Kinds
    <2> QED BY <2>1, <2>2, <2>4 DEF Kinds
  <1>8. CASE HaltOwnThread \/ HaltLoops
    <2>1. Mod \in {"matrix", "dnssd"} \/ HaltLoops
      BY <1>8, HaltOf DEF HaltOwnThread
    <2> QED BY <1>8, <2>1 DEF HaltOwnThread, HaltLoops, Kinds, threads
  <1>9. CASE Message
    <2>1. UNCHANGED <<methods, listed, device, halted, loop, own, failures>>
      BY <1>9 DEF Message, registries
    <2>2. PICK m \in methods : met' \in {met, met \cup {m}} /\ osc' \in {m, osc}
      BY <1>9 DEF Message
    <2> QED BY <2>1, <2>2 DEF Kinds
  <1>14. CASE BeginExit
    <2>1. CASE UNCHANGED kinds
      BY <2>1, SameKinds
    <2>2. CASE /\ met' = met \cup ({Head(main.todo).mod} \cap {osc})
               /\ UNCHANGED <<methods, listed, device, halted, loop, osc, own, failures>>
      <3>1. main.todo # <<>> /\ main.todo \in Seq(Entry) /\ Once(main.todo)
        BY <1>14 DEF BeginExit, Turn, Places
      <3>2. Head(main.todo).mod \in Module
        BY <3>1, TailMods
      <3> QED BY <2>2, <3>2 DEF Kinds
    <2> QED BY <1>14, <2>1, <2>2 DEF BeginExit, Crash, kinds, registries, threads
  <1>10. CASE HandlerEnds
    <2>1. CASE UNCHANGED kinds
      BY <2>1, SameKinds
    <2>2. CASE /\ osc' = "idle" /\ UNCHANGED <<methods, device, halted, loop, own, met, failures>>
               /\ \E C \in IF Addable(osc) = {} THEN {{}} ELSE {{c} : c \in Addable(osc)} : listed' = listed \cup C
      <3>1. osc \in Module
        BY <1>10 DEF HandlerEnds
      <3>2. listed' \subseteq Context
        BY <2>2, <3>1, AddableKinds DEF Kinds
      <3> QED BY <2>2, <3>2 DEF Kinds
    <2> QED BY <1>10, <2>1, <2>2 DEF HandlerEnds, Crash, kinds, registries, threads
  <1>11. ASSUME NEW l \in List, LoopStep(l) PROVE Kinds'
    <2>1. /\ loop[l].todo \subseteq Context /\ loop[l].ctx \in Context \cup {"none"}
          /\ \A c \in loop[l].todo : ListOf(c) = l /\ listed \subseteq Context
      BY DEF Kinds, LoopState
    <2>2. CASE UNCHANGED kinds
      BY <2>2, SameKinds
    <2>3. CASE CheckHalt(l)
      BY <2>1, <2>3, LoopKinds DEF CheckHalt
    <2>4. CASE BeginDispatch(l)
      <3>1. {c \in listed : ListOf(c) = l} \in SUBSET Context
        BY DEF Kinds
      <3> QED BY <2>4, <3>1, LoopKinds DEF BeginDispatch
    <2>5. CASE Dispatch(l) /\ ~UNCHANGED kinds
      <3>1. PICK c \in loop[l].todo : /\ UNCHANGED listed
                                      /\ \/ LoopGoes(l, "dispatch", loop[l].todo \ {c}, "none")
                                         \/ LoopGoes(l, "handler", loop[l].todo \ {c}, c)
        BY <2>5 DEF Dispatch, Crash, kinds, registries, threads
      <3>2. loop[l].todo \ {c} \in SUBSET Context /\ c \in Context
        BY <2>1, <3>1
      <3> QED BY <2>1, <3>1, <3>2, LoopKinds
    <2>6. CASE HandlerReturns(l) /\ ~UNCHANGED kinds
      <3>1. LoopGoes(l, "dispatch", loop[l].todo, "none") /\ listed' \subseteq listed
        BY <2>6 DEF HandlerReturns, Crash, kinds, registries, threads
      <3> QED BY <2>1, <3>1, LoopKinds
    <2>7. CASE EndDispatch(l)
      BY <2>1, <2>7, LoopKinds DEF EndDispatch
    <2> QED BY <1>11, <2>2, <2>3, <2>4, <2>5, <2>6, <2>7 DEF LoopStep
  <1>12. CASE MatrixThread
    <2>1. CASE UNCHANGED kinds
      BY <2>1, SameKinds
    <2>2. CASE \E t \in {"check", "read", "ended"} : /\ own' = [own EXCEPT !["matrix"] = t]
                  /\ UNCHANGED <<methods, listed, device, loop, osc, met, halted, failures>>
      BY <2>2 DEF Kinds
    <2> QED BY <1>12, <2>1, <2>2 DEF MatrixThread, OwnStep, Crash, kinds, registries, threads
  <1>13. CASE DnssdThread
    <2>1. CASE UNCHANGED kinds
      BY <2>1, SameKinds
    <2>2. CASE \E t \in {"check", "execute", "select", "receive", "ended"} : /\ own' = [own EXCEPT !["dnssd"] = t]
                  /\ UNCHANGED <<methods, listed, device, loop, osc, met, halted, failures>>
      BY <2>2 DEF Kinds
    <2> QED BY <1>13, <2>1, <2>2 DEF DnssdThread, OwnStep, Crash, kinds, registries, threads
  <1> QED BY <1>1, <1>2, <1>3, <1>4, <1>5, <1>6, <1>7, <1>8, <1>9, <1>10, <1>11, <1>12, <1>13,
      <1>14 DEF Next, MainStep

-----------------------------------------------------------------------------
(* TypeOK *)

\* The inductive invariant behind the types.
TypeInv == Places /\ Registered /\ Kinds

\* It holds at the start, is kept by every step, and implies TypeOK.
LEMMA TypeInit == Init => TypeInv
  <1> SUFFICES ASSUME Init PROVE TypeInv
    OBVIOUS
  <1>1. main = [phase |-> "start", todo |-> <<>>, entry |-> NoEntry, steps |-> StartSteps,
                inCore |-> FALSE]
    BY DEF Init
  <1>2. /\ main.phase = "start" /\ main.todo = <<>> /\ main.entry = NoEntry
        /\ main.steps = StartSteps /\ main.inCore = FALSE
    BY <1>1
  <1>3. MainFields
    BY <1>1, <1>2 DEF MainFields
  <1>4. Places
    BY <1>2, <1>3, EmptyList DEF Places, Phases, StartSteps, StartPaths
  <1>5. Registered
    <2>1. config \in Seq(Entry)
      BY LifecycleAssumption DEF Init
    <2>2. modules = <<>> /\ mapped = {} /\ objects = <<>>
      BY DEF Init
    <2> QED BY <1>2, <2>1, <2>2, EmptyList DEF Registered
  <1>6. Kinds
    <2>1. device \in [Descriptor -> {"none", "open", "set", "closed"}]
      BY DEF Init
    <2>2. loop \in [List -> LoopState] /\ \A l \in List : loop[l].todo = {}
      BY DEF Init, LoopState
    <2>3. DOMAIN own = {"matrix", "dnssd"} /\ own["matrix"] = "off" /\ own["dnssd"] = "off"
      BY DEF Init
    <2>4. failures \in 0 .. MaxFailures
      BY LifecycleAssumption, SMT DEF Init
    <2> QED BY <2>1, <2>2, <2>3, <2>4 DEF Init, Kinds
  <1> QED BY <1>4, <1>5, <1>6 DEF TypeInv

LEMMA TypeNext == TypeInv /\ [Next]_vars => TypeInv'
  <1> SUFFICES ASSUME TypeInv, [Next]_vars PROVE TypeInv'
    OBVIOUS
  <1>1. CASE Next
    BY <1>1, ListsKept, KindsKept DEF TypeInv
  <1>2. CASE UNCHANGED vars
    <2>1. Stays
      BY <1>2, SameStays DEF TypeInv, vars
    <2>2. Registered'
      BY <1>2, <2>1, MovesOnward, QuietLists DEF TypeInv, vars, Moves
    <2>3. Kinds'
      BY <1>2, SameKinds DEF TypeInv, vars, kinds
    <2> QED BY <2>1, <2>2, <2>3 DEF TypeInv, Stays
  <1> QED BY <1>1, <1>2

LEMMA TypeImplies == TypeInv => TypeOK
  <1> SUFFICES ASSUME TypeInv PROVE TypeOK
    OBVIOUS
  <1>1. ToSet(modules) \subseteq Module /\ ToSet(objects) \subseteq Module
    BY SMT DEF TypeInv, Registered, ToSet
  <1>2. /\ main.phase \in {"start", "init", "run", "exit", "stop", "ended"} /\ main.inCore \in BOOLEAN
        /\ IsInjective(modules) /\ IsInjective(objects) /\ mapped \subseteq ToSet(modules)
    BY DEF TypeInv, Places, Registered, Phases
  <1>3. \A l \in List : /\ loop[l].at \in {"off", "check", "select", "dispatch", "handler", "ended"}
                        /\ loop[l].todo \subseteq {c \in Context : ListOf(c) = l}
    BY DEF TypeInv, Kinds, LoopState
  <1> QED BY <1>1, <1>2, <1>3 DEF TypeInv, Kinds, TypeOK

\* Every variable keeps its type: no module is twice on module_list and no object twice on
\* object_list, and a module is mapped only while it is on module_list (sios_add_module,
\* sios_load_module, sios_unload_module, sios_object_register).
THEOREM TypesHold == Spec => []TypeOK
  BY TypeInit, TypeNext, TypeImplies, PTL DEF Spec

-----------------------------------------------------------------------------
(* Who changes what *)

\* Which actions may change which variable.
LEMMA Frame ==
    ASSUME Next
    PROVE  /\ config' = config
           /\ listed' # listed => AddContexts \/ DeleteContext \/ HandlerEnds \/ \E l \in List : HandlerReturns(l)
           /\ device' # device => Open \/ SetDevice \/ Close
           /\ own' # own => StartOwnThread \/ MatrixThread \/ DnssdThread
           /\ methods' # methods => AddMethods
           /\ mapped' # mapped => Load \/ Unload
           /\ modules' # modules => AddModules \/ Load \/ Unload
           /\ objects' # objects => Register \/ Deregister
           /\ osc' # osc => StartThread \/ Message \/ HandlerEnds
           /\ loop' # loop => StartThread \/ \E l \in List : LoopStep(l)
           /\ failures' # failures => MayFail
           /\ met \subseteq met' /\ (met' # met => Message \/ BeginExit)
  <1>1. CASE StartThread \/ AddModules \/ Load \/ Register
    BY <1>1 DEF StartThread, AddModules, Load, Register, registries, threads
  <1>2. CASE Open \/ SetDevice \/ AddMethods \/ AddContexts \/ StartOwnThread
    BY <1>2 DEF Open, SetDevice, AddMethods, AddContexts, StartOwnThread, registries, threads
  <1>3. CASE EnterCore \/ LeaveCore \/ Loaded \/ BeginExit \/ DeleteContext \/ Close \/ Signal
    BY <1>3 DEF EnterCore, LeaveCore, Loaded, BeginExit, DeleteContext, Close, registries,
       threads, Crash, Signal
  <1>4. CASE Deregister \/ HaltOwnThread \/ JoinOwnThread \/ Unload \/ BeginStop \/ HaltLoops \/ JoinLoop \/ Terminate
    BY <1>4 DEF Deregister, HaltOwnThread, JoinOwnThread, Unload, BeginStop, HaltLoops, JoinLoop,
       Terminate, registries, threads
  <1>5. CASE Message \/ HandlerEnds \/ MatrixThread \/ DnssdThread
    BY <1>5 DEF Message, HandlerEnds, MatrixThread, DnssdThread, OwnStep, Crash, registries, threads
  <1>6. ASSUME NEW l \in List, LoopStep(l)
        PROVE  /\ UNCHANGED <<config, device, own, methods, mapped, modules, objects, osc, met, failures>>
               /\ listed' # listed => HandlerReturns(l)
    BY <1>6 DEF LoopStep, CheckHalt, BeginDispatch, Dispatch, HandlerReturns, EndDispatch, LoopGoes,
       Crash, registries, threads
  <1>7. CASE \E l \in List : LoopStep(l)
    BY <1>6, <1>7
  <1> QED BY <1>1, <1>2, <1>3, <1>4, <1>5, <1>7 DEF Next, MainStep

\* Where main is at a step of an init function.
LEMMA InitFacts ==
    ASSUME Places, NEW x, At(x), x \in Inits
    PROVE  /\ main.phase = "init" /\ Mod \in Module \ Todo
           /\ x = "open" => "methods" \in Ahead
           /\ x = "device" => \/ main.steps = <<"device">> /\ Mod \in {"beep", "buzz"}
                              \/ main.steps = <<"device", "thread">> /\ Mod = "matrix"
           /\ x = "thread" => \/ main.steps = <<"thread">> /\ Mod = "matrix"
                              \/ main.steps = <<"thread", "service">> /\ Mod = "dnssd"
           /\ x = "contexts" => \/ main.steps = <<"contexts">> /\ Mod = "light"
                                \/ main.steps = <<"contexts", "methods">> /\ Mod = "accmag"
           /\ x = "methods" => \/ main.steps = <<"methods", "device">> /\ Mod \in {"beep", "buzz"}
                               \/ main.steps = <<"methods", "contexts">> /\ Mod = "light"
                               \/ Mod \in {"matrix", "accmag"}
  <1>1. main.phase = "init" /\ Mod \in Module \ Todo /\ main.steps \in InitPaths(Mod) /\ Head(main.steps) = x
    BY AtInit DEF At
  <1>2. CASE Mod \in {"beep", "buzz"}
    <2>1. main.steps \in PwmPaths
      BY <1>1, <1>2 DEF InitPaths
    <2>2. "methods" \in ToSet(<<"open", "methods", "device">>)
      BY SMT DEF ToSet
    <2> QED BY <1>1, <1>2, <2>1, <2>2, PwmTable DEF PwmPaths, Path, Ahead
  <1>3. CASE Mod = "light"
    <2>1. main.steps \in LightPaths
      BY <1>1, <1>3 DEF InitPaths
    <2>2. "methods" \in ToSet(<<"open", "register", "methods", "contexts">>)
      BY SMT DEF ToSet
    <2> QED BY <1>1, <1>3, <2>1, <2>2, LightTable DEF LightPaths, Path, Ahead
  <1>4. CASE Mod = "matrix"
    <2>1. main.steps \in MatrixPaths
      BY <1>1, <1>4 DEF InitPaths
    <2>2. "methods" \in ToSet(<<"open", "methods", "device", "thread">>)
      BY SMT DEF ToSet
    <2> QED BY <1>1, <1>4, <2>1, <2>2, MatrixTable DEF MatrixPaths, Path, Ahead
  <1>5. CASE Mod = "accmag"
    <2>1. main.steps \in AccmagPaths
      BY <1>1, <1>5 DEF InitPaths
    <2>2. "methods" \in ToSet(<<"open", "register", "contexts", "methods">>)
      BY SMT DEF ToSet
    <2> QED BY <1>1, <1>5, <2>1, <2>2, AccmagTable DEF AccmagPaths, Path, Ahead
  <1>6. CASE Mod = "dnssd"
    <2>1. main.steps \in DnssdPaths
      BY <1>1, <1>6 DEF InitPaths
    <2> QED BY <1>1, <1>6, <2>1, DnssdTable DEF DnssdPaths, Path
  <1> QED BY <1>1, <1>2, <1>3, <1>4, <1>5, <1>6 DEF Module

\* The contexts whose handlers write to a descriptor of their module.
Served == {"beep", "buzz", "light"}

\* And at a step of an exit function.
LEMMA ExitFacts ==
    ASSUME Places, NEW x, At(x), x \in {"delete", "close", "join", "unload"}, main.phase = "exit"
    PROVE  /\ Mod \in Module \ Todo
           /\ x = "delete" => Mod \in Served \cup {"accmag"}
           /\ x = "close" => Mod # "dnssd"
           /\ x = "join" => Mod = "matrix"
           /\ x \in {"close", "unload"} /\ Mod \in Served => "delete" \notin Ahead
           /\ x \in {"close", "unload"} /\ Mod = "matrix" => "join" \notin Ahead
           /\ x = "unload" => Ahead = {"unload"} /\ Tail(main.steps) = <<>>
  <1>1. main.steps # <<>> /\ Head(main.steps) = x
    BY DEF At
  <1>2. Mod \in Module \ Todo /\ main.steps \in ExitPaths(Mod)
    BY <1>1 DEF Places, On
  <1>3. ToSet(<<"unload">>) = {"unload"}
    BY SMT DEF ToSet
  <1>4. CASE Mod \in Served
    <2>1. main.steps \in SourceExitPaths
      BY <1>2, <1>4 DEF ExitPaths, Served
    <2>2. "delete" \notin ToSet(<<"close", "deregister", "unload">>)
      BY SMT DEF ToSet
    <2> QED BY <1>1, <1>2, <1>3, <1>4, <2>1, <2>2, SourceExitTable DEF SourceExitPaths, Path,
       Ahead, Served
  <1>5. CASE Mod = "matrix"
    <2>1. main.steps \in MatrixExitPaths
      BY <1>2, <1>5 DEF ExitPaths
    <2>2. "join" \notin ToSet(<<"close", "deregister", "unload">>)
      BY SMT DEF ToSet
    <2> QED BY <1>1, <1>2, <1>3, <1>5, <2>1, <2>2, MatrixExitTable DEF MatrixExitPaths, Path,
       Ahead, Served
  <1>6. CASE Mod = "accmag"
    <2>1. main.steps \in AccmagExitPaths
      BY <1>2, <1>6 DEF ExitPaths
    <2> QED BY <1>1, <1>2, <1>3, <1>6, <2>1, AccmagExitTable DEF AccmagExitPaths, Path, Ahead,
       Served
  <1>7. CASE Mod = "dnssd"
    <2>1. main.steps \in DnssdExitPaths
      BY <1>2, <1>7 DEF ExitPaths
    <2> QED BY <1>1, <1>2, <1>3, <1>7, <2>1, DnssdExitTable DEF DnssdExitPaths, Path, Ahead, Served
  <1> QED BY <1>2, <1>4, <1>5, <1>6, <1>7 DEF Module, Served

-----------------------------------------------------------------------------
(* The devices behind the handlers *)

\* A loop that holds its mutex has the contexts it still goes to on its list.
Handlers ==
    \A l \in List :
        /\ loop[l].at \in {"dispatch", "handler"} => loop[l].todo \subseteq listed
        /\ loop[l].at = "handler" => loop[l].ctx \in listed \ loop[l].todo /\ ListOf(loop[l].ctx) = l

\* Main has a step to take for the module, on its way in or out.
InHand(m) == main.phase \in {"init", "exit"} /\ main.steps # <<>> /\ Mod = m

\* A message handler runs for a module whose methods are known, and which is mapped, at rest,
\* and has its descriptor, unless the message has met it on its way.
Senders ==
    osc \in Module =>
        /\ osc \in methods
        /\ osc \notin met =>
              osc \in mapped /\ ~InHand(osc) /\ (osc \in Served => device[osc] = "set")

\* A context on a list has its descriptor, and so has the thread of the matrix.
ListedSet == \A c \in (listed \cap Served) \ met : device[c] = "set"
MatrixSet == own["matrix"] \in {"check", "read"} => device["matrix"] = "set"

\* A module whose init function has not begun, and one whose init function runs.
Fresh(m) ==
    /\ m \in Served \ met => m \notin listed
    /\ m = "matrix" => own["matrix"] = "off"
\* What a module is given before its init function comes to add its methods, to start its
\* thread, or to add its context.
Starting ==
    /\ main.phase = "start" => listed = {} /\ methods = {} /\ own["matrix"] = "off"
    /\ main.phase = "init" => \A m \in Todo : m \notin methods /\ Fresh(m)
    /\ main.phase = "init" /\ main.steps # <<>> =>
          /\ Fresh(Mod)
          /\ "methods" \in Ahead => Mod \notin methods
          /\ Mod = "matrix" /\ "device" \notin Ahead /\ "thread" \in Ahead => device["matrix"] = "set"
          /\ Mod = "light" /\ "open" \notin Ahead /\ "contexts" \in Ahead => device["light"] = "set"
\* A method that the OSC server knows has its descriptor, or gets it in the step at hand; at
\* shutdown, as long as main has not turned to its module.
MethodsSet ==
    /\ main.phase \in {"init", "run"} =>
           \A m \in methods \cap Served :
               \/ device[m] = "set"
               \/ main.phase = "init" /\ Mod = m /\ "device" \in Ahead
    /\ main.phase \in {"exit", "stop"} =>
           \A m \in methods \cap Served \cap mapped : device[m] = "set" \/ InHand(m)
\* An exit function that has taken its context off the list, or has waited for its thread.
Leaving ==
    main.phase = "exit" /\ main.steps # <<>> =>
        /\ Mod \in Served \ met /\ "delete" \notin Ahead => Mod \notin listed
        /\ Mod = "matrix" /\ "join" \notin Ahead => own["matrix"] = "ended"

\* The inductive invariant behind the descriptors.
DeviceInv ==
    /\ TypeInv
    /\ Handlers /\ Senders /\ ListedSet /\ MatrixSet /\ Starting /\ MethodsSet /\ Leaving

\* Which action takes which step.
LEMMA StepOf ==
    ASSUME Places, Next, main.steps # <<>>, main' # main, NEW x, Head(main.steps) = x
    PROVE  /\ At(x)
           /\ x = "open" => Open
           /\ x = "register" => Register
           /\ x = "device" => SetDevice
           /\ x = "methods" => AddMethods
           /\ x = "contexts" => AddContexts
           /\ x = "thread" => StartOwnThread
           /\ x = "delete" => DeleteContext
           /\ x = "close" => Close
           /\ x = "join" => JoinOwnThread
           /\ x = "deregister" => Deregister
           /\ x = "unload" => Unload
  <1>1. CASE StartThread \/ AddModules
    BY <1>1 DEF StartThread, AddModules, At
  <1>2. CASE Load \/ Loaded \/ BeginExit \/ BeginStop
    BY <1>2 DEF Load, Loaded, BeginExit, BeginStop, Turn
  <1>3. CASE Signal
    BY <1>3 DEF Signal, Places
  <1>4. CASE Open \/ SetDevice \/ AddMethods \/ AddContexts \/ StartOwnThread \/ Register
    BY <1>4 DEF Open, SetDevice, AddMethods, AddContexts, StartOwnThread, Register, At
  <1>5. CASE EnterCore \/ LeaveCore
    BY <1>5 DEF EnterCore, LeaveCore, CoreCall, At
  <1>6. CASE DeleteContext \/ Close \/ Deregister \/ HaltOwnThread \/ JoinOwnThread \/ Unload
    BY <1>6 DEF DeleteContext, Close, Deregister, HaltOwnThread, JoinOwnThread, Unload, At
  <1>7. CASE HaltLoops \/ JoinLoop \/ Terminate
    BY <1>7 DEF HaltLoops, JoinLoop, Terminate, At
  <1>8. CASE Message \/ HandlerEnds \/ (\E l \in List : LoopStep(l)) \/ MatrixThread \/ DnssdThread
    BY <1>8 DEF Message, HandlerEnds, LoopStep, CheckHalt, BeginDispatch, Dispatch,
       HandlerReturns, EndDispatch, LoopGoes, MatrixThread, DnssdThread, OwnStep, Crash
  <1> QED BY <1>1, <1>2, <1>3, <1>4, <1>5, <1>6, <1>7, <1>8 DEF Next, MainStep

\* An error path adds no context, starts no thread and registers nothing.
LEMMA FailedAhead ==
    ASSUME Failed
    PROVE  /\ Ahead' \cap {"thread", "contexts", "register"} = {}
           /\ Ahead' \cap {"methods", "device"} \subseteq Ahead
  <1>1. /\ ToSet(<<"unload">>) = {"unload"}
        /\ ToSet(<<"deregister", "unload">>) = {"deregister", "unload"}
        /\ ToSet(<<"deregister", "no_service", "halt", "no_service", "close_core">>)
               = {"deregister", "no_service", "halt", "close_core"}
        /\ ToSet(<<"open", "methods", "device">>) = {"open", "methods", "device"}
        /\ ToSet(<<"register", "open", "methods", "device">>) = {"register", "open", "methods", "device"}
    BY SMT DEF ToSet
  <1> QED BY <1>1 DEF Failed, Ahead

\* While main sleeps, it stays where it is until the signal.
LEMMA RunStays ==
    ASSUME Places, Next, main.phase = "run"
    PROVE  main' = main \/ Signal
  <1>1. main.steps = <<>>
    BY DEF Places
  <1>2. ~Turn("init") /\ ~Turn("exit") /\ ~Loaded /\ ~BeginStop
    BY DEF Turn, Loaded, BeginStop
  <1>3. \A x : ~At(x)
    BY <1>1 DEF At
  <1>4. CASE MainStep
    BY <1>2, <1>3, <1>4 DEF MainStep, StartThread, AddModules, Load, Register, Open, SetDevice,
       AddMethods,
       AddContexts, StartOwnThread, EnterCore, LeaveCore, CoreCall, BeginExit, DeleteContext, Close,
       Deregister, HaltOwnThread, JoinOwnThread, Unload, HaltLoops, JoinLoop, Terminate
  <1>5. CASE Message \/ HandlerEnds \/ (\E l \in List : LoopStep(l)) \/ MatrixThread \/ DnssdThread
    BY <1>5 DEF Message, HandlerEnds, LoopStep, CheckHalt, BeginDispatch, Dispatch,
       HandlerReturns, EndDispatch, LoopGoes, MatrixThread, DnssdThread, OwnStep, Crash
  <1> QED BY <1>4, <1>5 DEF Next

\* A context on which a loop works stays on its list: whoever takes one off needs the mutex.
LEMMA HandlersKept ==
    ASSUME TypeInv, Handlers, Next
    PROVE  Handlers'
  <1>0. Kinds
    BY DEF TypeInv
  <1>1. ASSUME loop' = loop, listed \subseteq listed' PROVE Handlers'
    BY <1>1 DEF Handlers
  <1>2. CASE StartThread
    <2>1. listed' = listed /\ (loop' = loop \/ \E l \in List : loop' = [loop EXCEPT ![l].at = "check"])
      BY <1>2 DEF StartThread, registries, List
    <2>2. CASE \E l \in List : loop' = [loop EXCEPT ![l].at = "check"]
      <3>1. PICK l \in List : loop' = [loop EXCEPT ![l].at = "check"]
        BY <2>2
      <3>2. \A k \in List : loop'[k] = loop[k] \/ loop'[k].at = "check"
        BY <1>0, <3>1 DEF Kinds
      <3> QED BY <2>1, <3>2 DEF Handlers
    <2> QED BY <1>1, <2>1, <2>2
  <1>3. CASE DeleteContext
    <2>1. PICK c : loop' = loop /\ listed' = listed \ {c} /\ (c \in listed => Free(ListOf(c)))
      BY <1>3 DEF DeleteContext, threads
    <2> QED BY <1>0, <2>1 DEF Handlers, Kinds, Free
  <1>4. CASE AddContexts \/ HandlerEnds
    <2>1. loop' = loop /\ listed \subseteq listed'
      BY <1>4 DEF AddContexts, HandlerEnds, Crash, threads, registries
    <2> QED BY <1>1, <2>1
  <1>5. ASSUME NEW l \in List, LoopStep(l) PROVE Handlers'
    <2>0. \A at, todo, c : LoopGoes(l, at, todo, c) =>
              \A k \in List : loop'[k] = IF k = l THEN [at |-> at, todo |-> todo, ctx |-> c] ELSE loop[k]
      BY <1>0 DEF LoopGoes, Kinds
    <2>1. CASE UNCHANGED <<loop, listed>>
      BY <1>1, <2>1
    <2>2. CASE CheckHalt(l)
      <3>1. PICK at \in {"ended", "select"} : LoopGoes(l, at, {}, "none") /\ listed' = listed
        BY <2>2 DEF CheckHalt
      <3>2. \A k \in List : loop'[k] = IF k = l THEN [at |-> at, todo |-> {}, ctx |-> "none"] ELSE loop[k]
        BY <2>0, <3>1
      <3>3. loop'[l].at = at
        BY <3>2
      <3>4. \A k \in List : k # l => loop'[k] = loop[k]
        BY <3>2
      <3> QED BY <3>1, <3>3, <3>4 DEF Handlers
    <2>3. CASE BeginDispatch(l)
      <3>1. PICK D \in SUBSET listed : LoopGoes(l, "dispatch", D, "none") /\ listed' = listed
        BY <2>3 DEF BeginDispatch
      <3>0. \A k \in List : loop'[k] = IF k = l THEN [at |-> "dispatch", todo |-> D, ctx |-> "none"] ELSE loop[k]
        BY <2>0, <3>1
      <3>2. loop'[l].at = "dispatch" /\ loop'[l].todo \subseteq listed /\ \A k \in List : k # l => loop'[k] = loop[k]
        BY <3>0
      <3> QED BY <3>1, <3>2 DEF Handlers
    <2>4. CASE Dispatch(l) /\ ~UNCHANGED <<loop, listed>>
      <3>1. PICK c \in loop[l].todo : /\ UNCHANGED listed /\ loop[l].at = "dispatch"
                                      /\ \/ LoopGoes(l, "dispatch", loop[l].todo \ {c}, "none")
                                         \/ LoopGoes(l, "handler", loop[l].todo \ {c}, c)
        BY <2>4 DEF Dispatch, Crash, threads, registries
      <3>2. loop[l].todo \subseteq listed /\ ListOf(c) = l
        BY <1>0, <3>1 DEF Handlers, Kinds
      <3>3. /\ loop'[l].todo = loop[l].todo \ {c} /\ \A k \in List : k # l => loop'[k] = loop[k]
            /\ loop'[l].at = "dispatch" \/ (loop'[l].at = "handler" /\ loop'[l].ctx = c)
        <4>1. PICK at, d : /\ at = "dispatch" \/ (at = "handler" /\ d = c)
                           /\ LoopGoes(l, at, loop[l].todo \ {c}, d)
          BY <3>1
        <4>2. \A k \in List : loop'[k] = IF k = l THEN [at |-> at, todo |-> loop[l].todo \ {c}, ctx |-> d] ELSE loop[k]
          BY <2>0, <4>1
        <4> QED BY <4>1, <4>2
      <3> QED BY <3>1, <3>2, <3>3 DEF Handlers
    <2>5. CASE HandlerReturns(l) /\ ~UNCHANGED <<loop, listed>>
      <3>1. /\ LoopGoes(l, "dispatch", loop[l].todo, "none") /\ loop[l].at = "handler"
            /\ listed \ {loop[l].ctx} \subseteq listed'
        BY <2>5 DEF HandlerReturns, Crash, threads, registries
      <3>2. loop[l].todo \subseteq listed \ {loop[l].ctx} /\ ListOf(loop[l].ctx) = l
        BY <3>1 DEF Handlers
      <3>0. \A k \in List : loop'[k] = IF k = l THEN [at |-> "dispatch", todo |-> loop[l].todo, ctx |-> "none"] ELSE loop[k]
        BY <2>0, <3>1
      <3>3. loop'[l].at = "dispatch" /\ loop'[l].todo = loop[l].todo /\ \A k \in List : k # l => loop'[k] = loop[k]
        BY <3>0
      <3>4. \A k \in List : k # l => loop[l].ctx \notin loop[k].todo
        BY <1>0, <3>2 DEF Kinds
      <3> QED BY <3>1, <3>2, <3>3, <3>4 DEF Handlers
    <2>6. CASE EndDispatch(l)
      <3>1. LoopGoes(l, "check", {}, "none") /\ listed' = listed
        BY <2>6 DEF EndDispatch
      <3>0. \A k \in List : loop'[k] = IF k = l THEN [at |-> "check", todo |-> {}, ctx |-> "none"] ELSE loop[k]
        BY <2>0, <3>1
      <3>2. loop'[l].at = "check" /\ \A k \in List : k # l => loop'[k] = loop[k]
        BY <3>0
      <3> QED BY <3>1, <3>2 DEF Handlers
    <2> QED BY <1>5, <2>1, <2>2, <2>3, <2>4, <2>5, <2>6 DEF LoopStep
  <1>6. CASE ~StartThread /\ ~DeleteContext /\ ~AddContexts /\ ~HandlerEnds /\ ~\E l \in List : LoopStep(l)
    <2>1. loop' = loop /\ listed' = listed
      BY <1>6, Frame DEF LoopStep
    <2> QED BY <1>1, <2>1
  <1> QED BY <1>2, <1>3, <1>4, <1>5, <1>6

\* What becomes of the descriptors of the modules with a device of their own name.
LEMMA DeviceChanges ==
    ASSUME TypeInv, Next, NEW d \in {"beep", "buzz", "light", "matrix"}, device'[d] # device[d]
    PROVE  /\ d = Mod
           /\ \/ SetDevice /\ device'[d] = "set"
              \/ Open /\ main.phase = "init" /\ main.steps # <<>> /\ "methods" \in Ahead /\ UNCHANGED <<methods, listed, own>>
              \/ Close /\ main.phase = "exit" /\ main.steps # <<>> /\ UNCHANGED <<methods, listed, own>>
                 /\ (Mod \in Served => "delete" \notin Ahead) /\ (Mod = "matrix" => "join" \notin Ahead)
  <1>0. d \in Descriptor /\ Owner(d) = d /\ device \in [Descriptor -> {"none", "open", "set", "closed"}]
    BY DEF TypeInv, Kinds, Descriptor, Owner
  <1>1. Open \/ SetDevice \/ Close
    BY Frame
  <1>2. CASE SetDevice
    BY <1>0, <1>2 DEF SetDevice
  <1>3. CASE Open
    <2>1. main.phase = "init" /\ main.steps # <<>> /\ "methods" \in Ahead
      BY <1>3, InitFacts DEF Open, Inits, TypeInv, At
    <2>2. UNCHANGED <<methods, listed, own>>
      BY <1>3 DEF Open, threads
    <2>3. d = Mod
      BY <1>0, <1>3 DEF Open, DevicesOf
    <2> QED BY <1>3, <2>1, <2>2, <2>3
  <1>4. CASE Close
    <2>1. main.phase = "exit" /\ main.steps # <<>>
      BY <1>4, AtExit DEF Close, TypeInv, At
    <2>2. (Mod \in Served => "delete" \notin Ahead) /\ (Mod = "matrix" => "join" \notin Ahead)
      BY <1>4, <2>1, ExitFacts DEF Close, TypeInv
    <2>3. UNCHANGED <<methods, listed, own>>
      BY <1>4 DEF Close, threads
    <2>4. d = Mod
      BY <1>0, <1>4 DEF Close
    <2> QED BY <1>4, <2>1, <2>2, <2>3, <2>4
  <1> QED BY <1>1, <1>2, <1>3, <1>4

\* Main turns to the module of the message at hand only by meeting it.
LEMMA HandGoes ==
    ASSUME DeviceInv, Next, NEW m \in methods, m = osc, m \notin met', ~InHand(m)
    PROVE  ~InHand(m)'
  <1>0. Places /\ Registered
    BY DEF DeviceInv, TypeInv
  <1>1. Moves \/ AddModules \/ Load
    BY <1>0, StepMoves
  <1>2. CASE Stays \/ Passes \/ Failed
    BY <1>2 DEF Stays, Passes, DoneWell, Failed, InHand, Mod
  <1>3. CASE Turns
    BY <1>3 DEF Turns, Places, InHand
  <1>4. CASE Begins
    <2>1. Mod' = Head(main.todo).mod /\ Mod' \in Module /\ main'.steps = ExitSteps(Mod') /\ main.steps = <<>>
      BY <1>4 DEF Begins, Taken, Mod
    <2>2. main'.steps # <<>>
      BY <2>1, AllPaths, ExitFollows DEF Follows
    <2>3. met' = met \cup ({Head(main.todo).mod} \cap {osc})
      BY <1>4, <2>1, <2>2 DEF Begins, BeginExit, Crash
    <2> QED BY <2>1, <2>3 DEF InHand
  <1>5. CASE AddModules
    BY <1>0, <1>5, AddModulesKeeps DEF InHand
  <1>6. CASE Load
    <2>1. main.phase = "init" /\ Taken(main'.steps)
      BY <1>0, <1>6, LoadDoes DEF Loads
    <2>2. Mod' \in Todo
      BY <2>1 DEF Taken, Mod
    <2>3. Mod' \notin methods
      BY <2>1, <2>2 DEF DeviceInv, Starting
    <2> QED BY <2>3 DEF InHand
  <1> QED BY <1>1, <1>2, <1>3, <1>4, <1>5, <1>6 DEF Moves

\* A handler that main has not met runs on a module that is as the message found it.
LEMMA SendersKept ==
    ASSUME DeviceInv, Next
    PROVE  Senders'
  <1> SUFFICES ASSUME osc' \in Module
               PROVE  /\ osc' \in methods'
                      /\ osc' \notin met' =>
                             /\ osc' \in mapped' /\ ~InHand(osc)'
                             /\ osc' \in Served => device'[osc'] = "set"
    BY DEF Senders, InHand
  <1>0. TypeInv /\ Places
    BY DEF DeviceInv, TypeInv
  <1>1. methods \subseteq methods' /\ met \subseteq met'
    BY Frame DEF AddMethods
  <1>2. CASE osc' = osc
    <2>1. osc' \in methods'
      BY <1>1, <1>2 DEF DeviceInv, Senders
    <2>2. ASSUME osc' \notin met'
          PROVE  /\ osc' \in mapped' /\ ~InHand(osc)'
                 /\ osc' \in Served => device'[osc'] = "set"
      <3>1. /\ osc \in methods /\ osc \in mapped /\ ~InHand(osc)
            /\ osc \in Served => device[osc] = "set"
        BY <1>1, <1>2, <2>2 DEF DeviceInv, Senders
      <3>2. osc \in mapped'
        <4>1. mapped' # mapped => Load \/ Unload
          BY Frame
        <4>2. Load => mapped \subseteq mapped'
          BY DEF Load
        <4>3. Unload => mapped' = mapped \ {Mod} /\ InHand(Mod)
          BY <1>0, AtUndo DEF Unload, Undoes, At, InHand
        <4> QED BY <3>1, <4>1, <4>2, <4>3
      <3>3. \A m : m = osc => ~InHand(m)'
        BY <1>2, <2>2, <3>1, HandGoes
      <3>4. ~InHand(osc)'
        BY <1>2, <3>3 DEF InHand
      <3>5. osc \in Served => device'[osc] = "set"
        <4> SUFFICES ASSUME osc \in Served, device'[osc] # device[osc] PROVE device'[osc] = "set"
          BY <3>1
        <4>1. osc = Mod /\ (device'[osc] = "set" \/ InHand(Mod))
          BY <1>0, DeviceChanges DEF Served, InHand
        <4> QED BY <3>1, <4>1
      <3> QED BY <1>2, <3>2, <3>4, <3>5
    <2> QED BY <2>1, <2>2
  <1>3. CASE osc' # osc
    <2>1. Message
      <3>1. "idle" \notin Module
        BY DEF Module
      <3> QED BY <1>3, <3>1, Frame DEF StartThread, HandlerEnds, Crash, threads
    <2>2. /\ osc' \in methods \cap mapped
          /\ osc' \notin met' => ~(Mod = osc' /\ main.steps # <<>>)
          /\ UNCHANGED <<main, methods, mapped, device>>
      BY <1>3, <2>1 DEF Message, registries
    <2>3. ASSUME osc' \notin met' PROVE ~InHand(osc)' /\ (osc' \in Served => device'[osc'] = "set")
      <3>1. ~(Mod = osc' /\ main.steps # <<>>)
        BY <2>2, <2>3
      <3>2. ~InHand(osc)'
        BY <2>2, <3>1 DEF InHand, Mod
      <3>3. osc' \in Served => device[osc'] = "set"
        <4> SUFFICES ASSUME osc' \in Served PROVE device[osc'] = "set"
          OBVIOUS
        <4>1. main.phase \in {"start", "init", "run", "exit", "stop"}
          BY <1>0, <2>1 DEF Message, Running, Places, Phases
        <4>2. main.phase # "start"
          BY <2>2 DEF DeviceInv, Starting
        <4>3. main.steps = <<>> => Ahead = {}
          BY EmptyList DEF Ahead
        <4> QED BY <2>2, <3>1, <4>1, <4>2, <4>3 DEF DeviceInv, MethodsSet, InHand
      <3> QED BY <2>2, <3>2, <3>3
    <2> QED BY <2>2, <2>3
  <1> QED BY <1>2, <1>3

\* Who puts a context that is served by a device on a list.
LEMMA ListedChanges ==
    ASSUME DeviceInv, Next, NEW c \in Served \ met', c \in listed', c \notin listed
    PROVE  /\ device' = device /\ device[c] = "set"
           /\ \/ main.phase = "init" /\ Mod = "light" /\ c = "light" /\ main.steps # <<>> /\ main'.steps = <<>>
              \/ c \in methods /\ ~InHand(c) /\ main' = main
  <1>1. AddContexts \/ HandlerEnds
    BY Frame DEF DeleteContext, HandlerReturns, Crash, registries
  <1>2. CASE AddContexts
    <2>1. At("contexts") /\ device' = device /\ Done
      BY <1>2 DEF AddContexts
    <2>2. /\ main.phase = "init" /\ main.steps # <<>>
          /\ \/ main.steps = <<"contexts">> /\ Mod = "light"
             \/ main.steps = <<"contexts", "methods">> /\ Mod = "accmag"
      BY <2>1, InitFacts DEF DeviceInv, TypeInv, Inits, At
    <2>3. c = "light" /\ Mod = "light"
      BY <1>2, <2>2 DEF AddContexts, Served
    <2>4. main.steps = <<"contexts">>
      BY <2>2, <2>3
    <2>5. "open" \notin Ahead /\ "contexts" \in Ahead
      <3>1. ToSet(<<"contexts">>) = {"contexts"}
        BY SMT DEF ToSet
      <3> QED BY <2>4, <3>1 DEF Ahead
    <2>6. device["light"] = "set"
      BY <2>2, <2>3, <2>5 DEF DeviceInv, Starting
    <2>7. DoneWell
      BY <2>1, DoneKeeps DEF DeviceInv, TypeInv
    <2>8. main'.steps = <<>>
      BY <2>4, <2>7, LightTable DEF DoneWell, Path
    <2> QED BY <2>1, <2>2, <2>3, <2>6, <2>8
  <1>3. CASE HandlerEnds
    <2>1. osc \in Module /\ device' = device /\ main' = main
      BY <1>3 DEF HandlerEnds, Crash, registries
    <2>2. c \in Addable(osc)
      BY <1>3 DEF HandlerEnds, Crash, registries
    <2>3. c = osc
      BY <2>1, <2>2 DEF Addable, Served
    <2>4. c \notin met
      BY Frame
    <2>5. c \in methods /\ ~InHand(c) /\ device[c] = "set"
      BY <2>1, <2>3, <2>4 DEF DeviceInv, Senders
    <2> QED BY <2>1, <2>5
  <1> QED BY <1>1, <1>2, <1>3

\* Who starts and ends the thread of the matrix.
LEMMA OwnChanges ==
    ASSUME TypeInv, Next, own'["matrix"] # own["matrix"]
    PROVE  /\ device' = device
           /\ \/ own["matrix"] \in {"check", "read"}
              \/ /\ main.phase = "init" /\ Mod = "matrix" /\ main.steps = <<"thread">> /\ main'.steps = <<>>
                 /\ "device" \notin Ahead /\ "thread" \in Ahead
  <1>1. StartOwnThread \/ MatrixThread \/ DnssdThread
    BY Frame
  <1>2. CASE MatrixThread
    BY <1>2 DEF MatrixThread, OwnStep, Crash, registries
  <1>3. CASE DnssdThread
    BY <1>3 DEF DnssdThread, OwnStep, Crash, registries, threads, TypeInv, Kinds
  <1>4. CASE StartOwnThread
    <2>1. At("thread") /\ device' = device
      BY <1>4 DEF StartOwnThread, registries
    <2>2. own' = [own EXCEPT ![Mod] = "check"] /\ Done
      BY <1>4 DEF StartOwnThread
    <2>3. Mod = "matrix"
      BY <2>2
    <2>4. main.phase = "init" /\ main.steps = <<"thread">>
      BY <2>1, <2>3, InitFacts DEF TypeInv, Inits
    <2>5. main'.steps = <<>>
      BY <2>1, <2>2, <2>4, DoneKeeps, MatrixTable DEF DoneWell, Path, TypeInv
    <2>6. "device" \notin Ahead /\ "thread" \in Ahead
      <3>1. ToSet(<<"thread">>) = {"thread"}
        BY SMT DEF ToSet
      <3> QED BY <2>4, <3>1 DEF Ahead
    <2> QED BY <2>1, <2>3, <2>4, <2>5, <2>6
  <1> QED BY <1>1, <1>2, <1>3, <1>4

\* No descriptor is closed while its context is listed.
LEMMA ListedSetKept ==
    ASSUME DeviceInv, Next
    PROVE  ListedSet'
  <1> SUFFICES ASSUME NEW c \in (listed' \cap Served) \ met' PROVE device'[c] = "set"
    BY DEF ListedSet
  <1>0. c \notin met
    BY Frame
  <1>1. CASE c \notin listed
    BY <1>1, ListedChanges
  <1>2. CASE c \in listed
    <2>1. device[c] = "set"
      BY <1>0, <1>2 DEF DeviceInv, ListedSet
    <2>2. CASE device'[c] = device[c]
      BY <2>1, <2>2
    <2>3. CASE device'[c] # device[c]
      <3>1. /\ c = Mod
            /\ \/ device'[c] = "set"
               \/ main.phase = "init" /\ main.steps # <<>>
               \/ main.phase = "exit" /\ main.steps # <<>> /\ (Mod \in Served => "delete" \notin Ahead)
        BY <2>3, DeviceChanges DEF DeviceInv, Served
      <3> QED BY <1>0, <1>2, <3>1 DEF DeviceInv, Starting, Fresh, Leaving
    <2> QED BY <2>2, <2>3
  <1> QED BY <1>1, <1>2

\* Nor while the thread of the matrix runs.
LEMMA MatrixSetKept ==
    ASSUME DeviceInv, Next
    PROVE  MatrixSet'
  <1>1. CASE own'["matrix"] # own["matrix"]
    <2>1. device["matrix"] = "set" /\ device' = device
      BY <1>1, OwnChanges DEF DeviceInv, MatrixSet, Starting
    <2> QED BY <2>1 DEF MatrixSet
  <1>2. CASE own'["matrix"] = own["matrix"] /\ device'["matrix"] # device["matrix"]
    <2>1. /\ Mod = "matrix"
          /\ \/ device'["matrix"] = "set"
             \/ main.phase = "init" /\ main.steps # <<>>
             \/ main.phase = "exit" /\ main.steps # <<>> /\ "join" \notin Ahead
      BY <1>2, DeviceChanges DEF DeviceInv
    <2> QED BY <1>2, <2>1 DEF DeviceInv, Starting, Fresh, Leaving, MatrixSet
  <1>3. CASE own'["matrix"] = own["matrix"] /\ device'["matrix"] = device["matrix"]
    BY <1>3 DEF DeviceInv, MatrixSet
  <1> QED BY <1>1, <1>2, <1>3

\* What the exit function took off the list does not come back.
LEMMA LeavingKept ==
    ASSUME DeviceInv, Next
    PROVE  Leaving'
  <1> SUFFICES ASSUME main'.phase = "exit", main'.steps # <<>> PROVE Leaving'
    BY DEF Leaving
  <1>0. TypeInv /\ Places /\ Registered
    BY DEF DeviceInv, TypeInv
  <1>1. Moves \/ AddModules \/ Load
    BY <1>0, StepMoves
  <1>2. Stays \/ Passes \/ Begins
    <2>1. ~AddModules /\ ~Load
      BY <1>0, AddModulesKeeps, LoadDoes DEF Loads, Taken
    <2>2. ~Failed /\ ~Turns
      BY DEF Failed, Turns
    <2> QED BY <1>1, <2>1, <2>2 DEF Moves
  <1>3. CASE Begins
    <2> DEFINE m == Head(main.todo).mod
    <2>1. m \in Module /\ Mod' = m /\ main'.steps = ExitSteps(m)
      BY <1>3 DEF Begins, Taken, Mod
    <2>2. /\ "delete" \in ToSet(<<"delete", "close", "deregister", "unload">>)
          /\ "join" \in ToSet(<<"halt", "join", "close", "deregister", "unload">>)
      BY SMT DEF ToSet
    <2> HIDE DEF m
    <2>3. (m \in Served => "delete" \in Ahead') /\ (m = "matrix" => "join" \in Ahead')
      BY <2>1, <2>2 DEF Ahead, ExitSteps, Served, pwm_beep_exit, pwm_buzz_exit, light_exit,
         matrix_exit
    <2> QED BY <2>1, <2>3 DEF Leaving
  <1>4. CASE Stays \/ Passes
    <2>1. main.phase = "exit" /\ main.steps # <<>> /\ Mod' = Mod
      BY <1>4 DEF Stays, Passes, DoneWell, Mod
    <2>0. met \subseteq met'
      BY Frame
    <2>2. ASSUME Mod \in Served \ met', Mod \notin listed PROVE Mod \notin listed'
      BY <2>1, <2>2, ListedChanges DEF InHand
    <2>3. own["matrix"] = "ended" => own'["matrix"] = "ended"
      BY <1>0, <2>1, OwnChanges
    <2>4. CASE Ahead' = Ahead
      BY <2>0, <2>1, <2>2, <2>3, <2>4 DEF DeviceInv, Leaving
    <2>5. CASE Passes /\ Ahead' # Ahead
      <3>1. Ahead = {Head(main.steps)} \cup Ahead' /\ main' # main
        BY <2>1, <2>5 DEF Passes, DoneWell, Ahead
      <3>2. ASSUME Mod \in Served \ met', "delete" \notin Ahead' PROVE Mod \notin listed'
        <4>1. CASE "delete" \in Ahead
          <5>1. Head(main.steps) = "delete"
            BY <3>1, <3>2, <4>1
          <5>2. DeleteContext
            BY <1>0, <2>1, <3>1, <5>1, StepOf
          <5> QED BY <3>2, <5>2 DEF DeleteContext, Served
        <4>2. CASE "delete" \notin Ahead
          BY <2>0, <2>1, <2>2, <3>2, <4>2 DEF DeviceInv, Leaving
        <4> QED BY <4>1, <4>2
      <3>3. ASSUME Mod = "matrix", "join" \notin Ahead' PROVE own'["matrix"] = "ended"
        <4>1. CASE "join" \in Ahead
          <5>1. Head(main.steps) = "join"
            BY <3>1, <3>3, <4>1
          <5>2. JoinOwnThread
            BY <1>0, <2>1, <3>1, <5>1, StepOf
          <5> QED BY <2>3, <3>3, <5>2 DEF JoinOwnThread
        <4>2. CASE "join" \notin Ahead
          BY <2>1, <2>3, <3>3, <4>2 DEF DeviceInv, Leaving
        <4> QED BY <4>1, <4>2
      <3> QED BY <2>1, <3>2, <3>3 DEF Leaving
    <2>6. Stays => Ahead' = Ahead
      BY DEF Stays, Ahead
    <2> QED BY <1>4, <2>4, <2>5, <2>6
  <1> QED BY <1>2, <1>3, <1>4

\* An error path of beep and buzz is taken before their methods are known.
LEMMA FailedPwm ==
    ASSUME Places, Next, Failed, Mod \in {"beep", "buzz"}, "device" \in Ahead
    PROVE  "methods" \in Ahead \/ "device" \in Ahead'
  <1>1. main.steps \in PwmPaths
    BY DEF Failed, Places, On, InitPaths
  <1>2. /\ ToSet(<<"methods", "device">>) = {"methods", "device"}
        /\ ToSet(<<"deregister", "unload">>) = {"deregister", "unload"}
        /\ ToSet(<<"unload">>) = {"unload"}
    BY SMT DEF ToSet
  <1>3. main.steps # <<"device">>
    <2> SUFFICES ASSUME main.steps = <<"device">> PROVE FALSE
      OBVIOUS
    <2>1. OnFailure(Mod, "device") = <<"unload">> /\ main'.steps = <<"unload">>
      BY PwmTable DEF Failed, OnFailure, Path
    <2>2. main' # main
      BY <2>1
    <2>3. SetDevice
      BY <2>2, PwmTable, StepOf DEF Path
    <2>4. main'.steps = <<>>
      BY <2>3, DoneKeeps, PwmTable DEF SetDevice, DoneWell, Path
    <2> QED BY <2>1, <2>4
  <1>4. \A s \in PwmPaths : "methods" \in ToSet(s) \/ "device" \notin ToSet(s) \/ s = <<"device">>
    BY PwmTable, EmptyList DEF PwmPaths, Path
  <1> QED BY <1>1, <1>3, <1>4 DEF Ahead

\* Where the descriptor is opened there is more to come.
LEMMA OpenAhead ==
    ASSUME Places, At("open"), Mod \in {"light", "matrix"}
    PROVE  "open" \in Ahead /\ (Mod = "matrix" => "device" \in Ahead)
  <1>1. main.phase = "init" /\ main.steps \in InitPaths(Mod) /\ Head(main.steps) = "open"
    BY AtInit DEF Inits, At
  <1>2. CASE Mod = "light"
    <2>1. main.steps = <<"open", "register", "methods", "contexts">>
      BY <1>1, <1>2, LightTable DEF InitPaths, LightPaths, Path
    <2> QED BY <1>2, <2>1, LightTable DEF Path, Ahead
  <1>3. CASE Mod = "matrix"
    <2>1. main.steps = <<"open", "methods", "device", "thread">>
      BY <1>1, <1>3, MatrixTable DEF InitPaths, MatrixPaths, Path
    <2> QED BY <2>1, MatrixTable DEF Path, Ahead
  <1> QED BY <1>2, <1>3

LEMMA LightAhead ==
    ASSUME Places, main.phase = "init", main.steps # <<>>, "device" \in Ahead
    PROVE  Mod # "light"
  <1> SUFFICES ASSUME Mod = "light" PROVE FALSE
    OBVIOUS
  <1>1. main.steps \in LightPaths
    BY DEF Places, On, InitPaths
  <1>2. \A s \in LightPaths : "device" \notin ToSet(s)
    BY LightTable, EmptyList DEF LightPaths, Path
  <1> QED BY <1>1, <1>2 DEF Ahead

\* The descriptor is there before the method, the thread and the context that need it.
LEMMA StartingKept ==
    ASSUME DeviceInv, Next
    PROVE  Starting'
  <1>0. TypeInv /\ Places /\ Registered /\ Kinds
    BY DEF DeviceInv, TypeInv
  <1>1. Moves \/ AddModules \/ Load
    BY <1>0, StepMoves
  <1>2. CASE AddModules
    <2>1. /\ main.phase = "start" /\ main'.phase = "init" /\ main'.steps = <<>>
          /\ UNCHANGED <<methods, listed, own>>
      BY <1>0, <1>2, AddModulesKeeps DEF AddModules, threads
    <2>2. methods = {} /\ listed = {} /\ own["matrix"] = "off"
      BY <2>1 DEF DeviceInv, Starting
    <2> QED BY <2>1, <2>2 DEF Starting, Fresh
  <1>3. CASE Load
    <2> DEFINE m == Head(main.todo).mod
    <2>0. Loads(m, main'.steps)
      BY <1>0, <1>3, LoadDoes
    <2>1. /\ Taken(main'.steps) /\ main.phase = "init" /\ UNCHANGED <<methods, listed, own, device>>
          /\ main'.steps \in {InitSteps(m), <<>>, <<"unload">>}
      BY <2>0 DEF Loads, threads
    <2>2. main'.phase = "init" /\ m \in Module \cap Todo /\ Todo' = Todo \ {m} /\ Mod' = m
      BY <2>1 DEF Taken, Mod
    <2> HIDE DEF m
    <2>3. m \notin methods /\ Fresh(m) /\ \A k \in Todo : k \notin methods /\ Fresh(k)
      BY <2>1, <2>2 DEF DeviceInv, Starting
    <2>4. \A k : Fresh(k) => Fresh(k)'
      BY <2>1, Frame DEF Fresh
    <2>5. /\ "device" \in ToSet(matrix_init) /\ "open" \in ToSet(light_init)
          /\ ToSet(<<"unload">>) = {"unload"} /\ ToSet(<<>>) = {}
      BY SMT DEF ToSet, matrix_init, light_init
    <2>6. /\ m = "matrix" /\ "device" \notin Ahead' => "thread" \notin Ahead'
          /\ m = "light" /\ "open" \notin Ahead' => "contexts" \notin Ahead'
      BY <2>1, <2>5 DEF Ahead, InitSteps
    <2> QED BY <2>1, <2>2, <2>3, <2>4, <2>6 DEF Starting
  <1>4. CASE Moves
    <2>1. Onward
      BY <1>4, MovesOnward
    <2>2. CASE main'.phase \notin {"start", "init"}
      BY <2>2 DEF Starting
    <2>3. CASE main'.phase = "start"
      <3>1. main.phase = "start" /\ listed = {} /\ methods = {} /\ own["matrix"] = "off"
        BY <2>1, <2>3 DEF Onward, DeviceInv, Starting
      <3>2. own'["matrix"] = own["matrix"]
        BY <1>0, <3>1, OwnChanges
      <3>3. methods' = methods
        BY <1>0, <3>1, Frame, AtInit DEF AddMethods, Inits
      <3>4. listed' = {}
        <4>1. ~AddContexts
          BY <1>0, <3>1, AtInit DEF AddContexts, Inits
        <4>2. ~HandlerEnds
          BY <1>0, <3>1 DEF HandlerEnds, DeviceInv, Senders
        <4>3. listed' # listed => DeleteContext \/ \E l \in List : HandlerReturns(l)
          BY <4>1, <4>2, Frame
        <4> QED BY <3>1, <4>3 DEF DeleteContext, HandlerReturns, Crash, registries
      <3> QED BY <2>3, <3>1, <3>2, <3>3, <3>4 DEF Starting
    <2>4. CASE main'.phase = "init"
      <3>1. /\ main.phase = "init" /\ Todo' = Todo /\ Mod' = Mod
            /\ main.steps = <<>> => main'.steps = <<>>
        BY <2>1, <2>4 DEF Onward, Mod
      <3>2. main.steps # <<>> => Mod \notin Todo
        BY <1>0, <3>1 DEF Places, On
      <3>3. AddMethods => /\ methods' = methods \cup {Mod} /\ main.steps # <<>> /\ Head(main.steps) = "methods"
                          /\ main'.steps = Tail(main.steps)
        BY <1>0 DEF AddMethods, At, Done, Places, MainFields
      <3>4. methods' = methods \/ AddMethods
        BY Frame
      <3>5. ASSUME NEW k, Fresh(k), k \notin methods \/ InHand(k),
                   k # Mod \/ main'.steps # <<>> \/ main.steps = <<>>
            PROVE  Fresh(k)'
        <4>0. met \subseteq met'
          BY Frame
        <4>1. k \in Served \ met' => k \notin listed'
          BY <3>1, <3>5, <4>0, ListedChanges DEF Fresh
        <4>2. k = "matrix" => own'["matrix"] = "off"
          BY <1>0, <3>1, <3>5, OwnChanges DEF Fresh
        <4> QED BY <4>1, <4>2, Zenon DEF Fresh
      <3>6. ASSUME NEW k \in Todo PROVE k \notin methods' /\ Fresh(k)'
        <4>1. k \notin methods /\ Fresh(k)
          BY <3>1 DEF DeviceInv, Starting
        <4>2. k # Mod \/ main.steps = <<>>
          BY <3>2
        <4>3. AddMethods => k # Mod
          BY <3>2, <3>3
        <4> QED BY <3>3, <3>4, <3>5, <4>1, <4>2, <4>3
      <3>7. ASSUME main'.steps # <<>>
            PROVE  /\ Fresh(Mod)'
                   /\ "methods" \in Ahead' => Mod \notin methods'
                   /\ Mod = "matrix" /\ "device" \notin Ahead' /\ "thread" \in Ahead' => device'["matrix"] = "set"
                   /\ Mod = "light" /\ "open" \notin Ahead' /\ "contexts" \in Ahead' => device'["light"] = "set"
        <4>0. main.steps # <<>>
          BY <3>1, <3>7
        <4>1. Fresh(Mod)'
          <5>1. Fresh(Mod)
            BY <3>1, <4>0 DEF DeviceInv, Starting
          <5>2. InHand(Mod)
            BY <3>1, <4>0 DEF InHand
          <5>3. \A k : k = Mod => Fresh(k)'
            BY <3>5, <3>7, <5>1, <5>2
          <5> QED BY <3>1, <5>3 DEF Fresh
        <4>2. Stays \/ Passes \/ Failed
          BY <1>4, <2>4, <3>1 DEF Moves, Turns, Begins, Taken
        <4>3. /\ "methods" \in Ahead' => "methods" \in Ahead
              /\ "thread" \in Ahead' \/ "contexts" \in Ahead' =>
                     ~Failed /\ ("thread" \in Ahead' => "thread" \in Ahead)
                     /\ ("contexts" \in Ahead' => "contexts" \in Ahead)
          BY <3>1, <4>2, FailedAhead DEF Stays, Passes, DoneWell, Ahead
        <4>4. "methods" \in Ahead' => Mod \notin methods'
          <5>1. CASE AddMethods
            <6>1. Done /\ At("methods")
              BY <5>1 DEF AddMethods
            <6>2. DoneWell /\ Head(main.steps) = "methods"
              BY <1>0, <6>1, DoneKeeps DEF At
            <6> QED BY <3>1, <6>2 DEF DoneWell
          <5> QED BY <3>1, <3>4, <4>0, <4>3, <5>1 DEF DeviceInv, Starting
        <4>5. ASSUME NEW d \in {"light", "matrix"}, d = Mod, "methods" \notin Ahead
              PROVE  device'[d] = device[d] \/ device'[d] = "set"
          <5> QED BY <1>0, <3>1, <4>5, DeviceChanges
        <4>6. ASSUME NEW x, x \in Ahead, x \notin Ahead', ~Failed PROVE Head(main.steps) = x /\ main' # main
          BY <3>1, <4>2, <4>6 DEF Stays, Passes, DoneWell, Ahead
        <4>7. ASSUME Mod = "matrix", "device" \notin Ahead', "thread" \in Ahead' PROVE device'["matrix"] = "set"
          <5>1. CASE "device" \in Ahead
            <6>1. SetDevice
              BY <1>0, <4>0, <4>3, <4>6, <4>7, <5>1, StepOf
            <6> QED BY <1>0, <4>7, <6>1 DEF SetDevice, Kinds, Descriptor
          <5>2. CASE "device" \notin Ahead
            <6>1. device["matrix"] = "set"
              BY <3>1, <4>0, <4>3, <4>7, <5>2 DEF DeviceInv, Starting
            <6>2. ~Open
              BY <1>0, <4>7, <5>2, OpenAhead DEF Open
            <6> QED BY <1>0, <3>1, <6>1, <6>2, DeviceChanges
          <5> QED BY <5>1, <5>2
        <4>8. ASSUME Mod = "light", "open" \notin Ahead', "contexts" \in Ahead' PROVE device'["light"] = "set"
          <5>1. CASE "open" \in Ahead
            <6>1. Open
              BY <1>0, <4>0, <4>3, <4>6, <4>8, <5>1, StepOf
            <6>2. ~Fails("open")
              <7>1. Fails("open") => main'.steps = <<"unload">>
                BY <1>0, <4>8 DEF Fails, OnFailure, Places, MainFields
              <7>2. ToSet(<<"unload">>) = {"unload"}
                BY SMT DEF ToSet
              <7> QED BY <4>8, <7>1, <7>2 DEF Ahead
            <6> QED BY <1>0, <4>8, <6>1, <6>2 DEF Open, Kinds, Descriptor, DevicesOf, Owner
          <5>2. CASE "open" \notin Ahead
            <6>1. device["light"] = "set"
              BY <3>1, <4>0, <4>3, <4>8, <5>2 DEF DeviceInv, Starting
            <6>2. ~Open
              BY <1>0, <4>8, <5>2, OpenAhead DEF Open
            <6> QED BY <1>0, <3>1, <6>1, <6>2, DeviceChanges
          <5> QED BY <5>1, <5>2
        <4> QED BY <4>1, <4>4, <4>7, <4>8
      <3> QED BY <2>4, <3>1, <3>6, <3>7 DEF Starting
    <2> QED BY <2>2, <2>3, <2>4
  <1> QED BY <1>1, <1>2, <1>3, <1>4

\* At shutdown a method has its descriptor until main comes to its module, and the module is
\* not mapped when main turns away from it.
LEMMA MethodsSetLeaves ==
    ASSUME DeviceInv, Next, main'.phase \in {"exit", "stop"},
           NEW m \in methods' \cap Served \cap mapped'
    PROVE  device'[m] = "set" \/ InHand(m)'
  <1>0. TypeInv /\ Places /\ Registered /\ Kinds
    BY DEF DeviceInv, TypeInv
  <1>1. Stays \/ Passes \/ Turns \/ Begins
    <2>1. Moves \/ AddModules \/ Load
      BY <1>0, StepMoves
    <2>2. ~AddModules /\ ~Load
      BY <1>0, AddModulesKeeps, LoadDoes DEF Loads, Taken
    <2> QED BY <2>1, <2>2 DEF Moves, Failed
  <1>2. main.phase \in {"run", "exit", "stop"} /\ (main.phase = "run" => main.steps = <<>>)
    BY <1>0, <1>1 DEF Stays, Passes, DoneWell, Turns, Begins, Places
  <1>3. m \in methods /\ m \in mapped
    <2>1. ~AddMethods
      BY <1>0, <1>2, AtInit DEF AddMethods, Inits
    <2>2. ~Load
      BY <1>2 DEF Load, Turn
    <2> QED BY <2>1, <2>2, Frame DEF Unload
  <1>4. device[m] = "set" \/ (InHand(m) /\ main.phase = "exit")
    BY <1>2, <1>3 DEF DeviceInv, MethodsSet, InHand
  <1>5. device'[m] = device[m] \/ device'[m] = "set" \/ (InHand(m) /\ main.phase = "exit")
    BY <1>0, <1>2, DeviceChanges DEF Served, InHand
  <1>6. ASSUME InHand(m), main.phase = "exit" PROVE InHand(m)'
    <2>1. main.steps # <<>> /\ Mod = m
      BY <1>6 DEF InHand
    <2>2. CASE Stays
      BY <1>6, <2>1, <2>2 DEF Stays, InHand, Mod
    <2>3. CASE Passes
      <3>1. main'.phase = "exit" /\ Mod' = m /\ main'.steps = Tail(main.steps)
        BY <1>6, <2>1, <2>3 DEF Passes, DoneWell, Mod
      <3>2. CASE Tail(main.steps) = <<>>
        <4>1. Head(main.steps) = "unload"
          BY <1>0, <1>6, <2>1, <3>2, ExitEnds DEF Places, On
        <4>2. main' # main
          BY <1>6, <2>1, <2>3, <3>1, <3>2
        <4>3. Unload
          BY <1>0, <2>1, <4>1, <4>2, StepOf
        <4> QED BY <2>1, <4>3 DEF Unload
      <3> QED BY <3>1, <3>2 DEF InHand
    <2> QED BY <1>1, <1>6, <2>1, <2>2, <2>3 DEF Turns, Begins, Taken
  <1> QED BY <1>4, <1>5, <1>6

\* No method outlives its descriptor before the shutdown.
LEMMA MethodsSetKept ==
    ASSUME DeviceInv, Next
    PROVE  MethodsSet'
  <1> SUFFICES ASSUME main'.phase \in {"init", "run"}, NEW m \in methods' \cap Served
               PROVE  device'[m] = "set" \/ (main'.phase = "init" /\ Mod' = m /\ "device" \in Ahead')
    BY MethodsSetLeaves DEF MethodsSet
  <1>0. TypeInv /\ Places /\ Registered /\ Kinds
    BY DEF DeviceInv, TypeInv
  <1>1. Moves \/ AddModules \/ Load
    BY <1>0, StepMoves
  <1>2. CASE AddModules
    <2>1. main.phase = "start" /\ methods' = methods
      BY <1>0, <1>2, AddModulesKeeps DEF AddModules
    <2> QED BY <2>1 DEF DeviceInv, Starting
  <1>3. CASE Load
    <2>1. Loads(Head(main.todo).mod, main'.steps)
      BY <1>0, <1>3, LoadDoes
    <2>2. main.phase = "init" /\ main.steps = <<>> /\ methods' = methods /\ device' = device
      BY <2>1 DEF Loads, Taken
    <2>3. Ahead = {}
      BY <2>2, EmptyList DEF Ahead
    <2> QED BY <2>2, <2>3 DEF DeviceInv, MethodsSet
  <1>4. CASE Moves
    <2>1. /\ main.phase = "init" \/ (main.phase = "run" /\ main'.phase = "run")
          /\ main'.phase = "run" /\ main.phase = "init" => main.steps = <<>>
          /\ main'.phase = "init" => Stays \/ Passes \/ Failed
      BY <1>4 DEF Moves, Stays, Passes, DoneWell, Failed, Turns, Begins, Taken
    <2>2. CASE m \notin methods
      <3>1. AddMethods
        BY <2>2, Frame
      <3>2. m = Mod /\ At("methods") /\ device' = device /\ Done
        BY <2>2, <3>1 DEF AddMethods
      <3>3. DoneWell /\ main.phase = "init"
        BY <1>0, <3>2, DoneKeeps, InitFacts DEF Inits
      <3>4. main.steps # <<>> /\ main'.phase = "init" /\ Mod' = Mod
        BY <3>2, <3>3 DEF At, DoneWell, Mod
      <3>5. \/ main.steps = <<"methods", "device">>
            \/ main.steps = <<"methods", "contexts">> /\ Mod = "light"
        <4>1. m \in {"beep", "buzz", "light"} /\ "methods" \in Inits
          BY DEF Inits, Served
        <4>2. \/ main.steps = <<"methods", "device">> /\ Mod \in {"beep", "buzz"}
              \/ main.steps = <<"methods", "contexts">> /\ Mod = "light"
              \/ Mod \in {"matrix", "accmag"}
          <5>1. At("methods") /\ Places
            BY <1>0, <3>2
          <5> HIDE DEF At
          <5> QED BY <5>1, <4>1, InitFacts
        <4>3. Mod \notin {"matrix", "accmag"}
          BY <3>2, <4>1
        <4> QED BY <4>2, <4>3
      <3>6. ToSet(<<"methods", "device">>) = {"methods", "device"} /\ ToSet(<<"methods", "contexts">>) = {"methods", "contexts"}
        BY SMT DEF ToSet
      <3>7. CASE main.steps = <<"methods", "device">>
        <4>1. "device" \in Ahead /\ Head(main.steps) = "methods"
          BY <3>2, <3>6, <3>7 DEF Ahead, At
        <4>2. "device" \in Ahead'
          BY <3>3, <4>1 DEF DoneWell
        <4> QED BY <3>2, <3>4, <4>2
      <3>8. CASE main.steps = <<"methods", "contexts">> /\ Mod = "light"
        <4>1. "open" \notin Ahead /\ "contexts" \in Ahead
          BY <3>6, <3>8 DEF Ahead
        <4>2. device["light"] = "set"
          BY <3>3, <3>4, <3>8, <4>1 DEF DeviceInv, Starting
        <4> QED BY <3>2, <3>8, <4>2
      <3> QED BY <3>5, <3>7, <3>8
    <2>3. CASE m \in methods
      <3>1. \/ device[m] = "set"
            \/ main.phase = "init" /\ Mod = m /\ "device" \in Ahead
        BY <2>1, <2>3 DEF DeviceInv, MethodsSet
      <3>2. device'[m] = device[m] \/ device'[m] = "set"
        <4> SUFFICES ASSUME device'[m] # device[m] PROVE device'[m] = "set"
          OBVIOUS
        <4>1. /\ m = Mod
              /\ device'[m] = "set" \/ (main.phase = "init" /\ main.steps # <<>> /\ "methods" \in Ahead)
          BY <1>0, <2>1, DeviceChanges DEF Served
        <4> QED BY <2>3, <4>1 DEF DeviceInv, Starting
      <3>3. CASE device[m] = "set"
        BY <3>2, <3>3
      <3>4. CASE main.phase = "init" /\ Mod = m /\ "device" \in Ahead /\ device[m] # "set"
        <4>1. main.steps # <<>>
          BY <3>4, EmptyList DEF Ahead
        <4>2. main'.phase = "init"
          BY <2>1, <3>4, <4>1
        <4>3. Stays \/ Passes \/ Failed
          BY <2>1, <4>2
        <4>4. Mod' = Mod
          BY <4>3 DEF Stays, Passes, DoneWell, Failed, Mod
        <4>5. CASE "device" \in Ahead'
          BY <3>4, <4>2, <4>4, <4>5
        <4>6. CASE "device" \notin Ahead' /\ ~Failed
          <5>1. Head(main.steps) = "device" /\ main' # main
            BY <3>4, <4>3, <4>6 DEF Stays, Passes, DoneWell, Ahead
          <5>2. SetDevice
            BY <1>0, <4>1, <5>1, StepOf
          <5> QED BY <1>0, <3>4, <5>2 DEF SetDevice, Kinds, Descriptor, Served
        <4>7. CASE Failed /\ "device" \notin Ahead'
          <5>1. Mod \in {"beep", "buzz"} => "methods" \in Ahead
            BY <1>0, <3>4, <4>7, FailedPwm
          <5>2. Mod # "light"
            BY <1>0, <3>4, <4>1, LightAhead
          <5> QED BY <2>3, <3>4, <4>1, <5>1, <5>2 DEF DeviceInv, Starting, Served
        <4> QED BY <4>5, <4>6, <4>7
      <3> QED BY <3>1, <3>3, <3>4
    <2> QED BY <2>2, <2>3
  <1> QED BY <1>1, <1>2, <1>3, <1>4

\* DeviceInv holds at the start, is kept by every step, and implies CalledWithDevice.
LEMMA DeviceInit == Init => DeviceInv
  <1> SUFFICES ASSUME Init PROVE DeviceInv
    OBVIOUS
  <1>1. TypeInv
    BY TypeInit
  <1>2. main.phase = "start" /\ methods = {} /\ listed = {} /\ osc = "off" /\ own["matrix"] = "off"
    BY DEF Init
  <1>3. \A l \in List : loop[l].at = "off"
    BY DEF Init
  <1>4. "off" \notin Module
    BY DEF Module
  <1> QED BY <1>1, <1>2, <1>3, <1>4
      DEF DeviceInv, Handlers, Senders, ListedSet, MatrixSet, Starting, MethodsSet, Leaving

LEMMA DeviceNext ==
    ASSUME DeviceInv, [Next]_vars
    PROVE  DeviceInv'
  <1>1. CASE Next
    <2>1. TypeInv'
      BY TypeNext DEF DeviceInv
    <2>2. Handlers' /\ Senders'
      BY <1>1, HandlersKept, SendersKept DEF DeviceInv
    <2>3. ListedSet' /\ MatrixSet' /\ Starting' /\ MethodsSet' /\ Leaving'
      BY <1>1, ListedSetKept, MatrixSetKept, StartingKept, MethodsSetKept, LeavingKept
    <2> QED BY <2>1, <2>2, <2>3 DEF DeviceInv
  <1>2. CASE UNCHANGED vars
    <2>1. TypeInv'
      BY TypeNext DEF DeviceInv
    <2>2. Ahead' = Ahead /\ Todo' = Todo /\ Mod' = Mod
      BY <1>2 DEF vars, Ahead, Todo, Mod
    <2>3. \A m : Fresh(m)' = Fresh(m)
      BY <1>2 DEF vars, Fresh
    <2> QED BY <1>2, <2>1, <2>2, <2>3
        DEF vars, DeviceInv, Handlers, Senders, ListedSet, MatrixSet, Starting, Fresh, MethodsSet,
            Leaving, InHand
  <1> QED BY <1>1, <1>2

LEMMA DeviceImplies == DeviceInv => CalledWithDevice
  <1> SUFFICES ASSUME DeviceInv PROVE CalledWithDevice
    OBVIOUS
  <1>1. ASSUME NEW l \in List, loop[l].at = "handler", loop[l].ctx \in {"beep", "buzz", "light"},
               loop[l].ctx \notin met
        PROVE  device[loop[l].ctx] = "set"
    <2>1. loop[l].ctx \in (listed \cap Served) \ met
      BY <1>1 DEF DeviceInv, Handlers, Served
    <2> QED BY <2>1 DEF DeviceInv, ListedSet
  <1> QED BY <1>1 DEF DeviceInv, MatrixSet, CalledWithDevice

\* A loop calls the handlers of beep, buzz and light only while their descriptor is open and
\* set, but for a module that a message handler has met while main initialised or unloaded
\* it, and the thread of the matrix reads only while its is, whatever messages come: main
\* closes them while loops and thread run.
THEOREM DevicesOutlastTheirHandlers == Spec => []CalledWithDevice
  <1>1. DeviceInv /\ [Next]_vars => DeviceInv'
    BY DeviceNext
  <1> QED BY <1>1, DeviceInit, DeviceImplies, PTL DEF Spec

-----------------------------------------------------------------------------
(* A run in which nothing fails *)

\* Nothing has failed, and what a step of the exit functions has still to be done for.
Clean == failures = 0 /\ ~Unclassed
Remaining(step) == Todo \cup {m \in Module : m = Mod /\ step \in Ahead}

\* What there is before the modules come, while they come and are used, while they go, and
\* after that.
CleanStart ==
    main.phase = "start" => own["dnssd"] = "off" /\ \A d \in Descriptor : device[d] = "none"
CleanLoads ==
    main.phase \in {"init", "run"} =>
        /\ ToSet(modules) = mapped \cup Todo
        /\ ToSet(objects) \subseteq mapped
        /\ \A m \in mapped : m \in ToSet(objects) \/ (m = Mod /\ "register" \in Ahead)
        /\ methods \subseteq mapped
        /\ \A c \in listed : Owner(c) \in mapped
        /\ \A d \in Descriptor : device[d] # "none" => Owner(d) \in mapped
        /\ own["matrix"] # "off" => "matrix" \in mapped
        /\ own["dnssd"] # "off" => "dnssd" \in mapped
        /\ \A i \in DOMAIN main.todo : main.todo[i].classed
        /\ main.steps # <<>> => main.entry.classed /\ Ahead \subseteq Inits
CleanExits ==
    main.phase = "exit" =>
        /\ mapped = Remaining("unload") /\ ToSet(modules) = Remaining("unload")
        /\ ToSet(objects) = Remaining("deregister")
        /\ \A c \in listed \ {"flash", "mag"} : Owner(c) \in met \cup Remaining("delete")
        /\ \A d \in Descriptor \ {"mag"} :
               device[d] \notin {"none", "closed"} => Owner(d) \in Remaining("close")
        /\ own["matrix"] \in {"check", "read"} => "matrix" \in Remaining("join")
CleanStops ==
    main.phase = "stop" =>
        /\ modules = <<>> /\ mapped = {} /\ objects = <<>>
        /\ \A c \in listed : c \in {"flash", "mag"} \/ Owner(c) \in met
        /\ \A d \in Descriptor \ {"mag"} : device[d] \in {"none", "closed"}
        /\ own["matrix"] \notin {"check", "read"}

\* The inductive invariant behind the two theorems about clean runs.
CleanInv ==
    /\ DeviceInv /\ CleanRunSurvives
    /\ Clean => CleanStart /\ CleanLoads /\ CleanExits /\ CleanStops

\* A process that came down, or has ended, takes no step.
LEMMA NextRuns == Next => Running
  <1>1. StartThread \/ AddModules \/ Load \/ Register \/ Open \/ SetDevice \/ AddMethods => Running
    BY DEF StartThread, AddModules, Load, Turn, Register, Open, SetDevice, AddMethods, At
  <1>2. AddContexts \/ StartOwnThread \/ EnterCore \/ LeaveCore \/ Loaded \/ BeginExit \/ Signal => Running
    BY DEF AddContexts, StartOwnThread, EnterCore, LeaveCore, CoreCall, Loaded, BeginExit, Turn,
       Signal, At
  <1>3. DeleteContext \/ Close \/ Deregister \/ HaltOwnThread \/ JoinOwnThread \/ Unload => Running
    BY DEF DeleteContext, Close, Deregister, HaltOwnThread, JoinOwnThread, Unload, At
  <1>4. BeginStop \/ HaltLoops \/ JoinLoop \/ Terminate \/ Message \/ HandlerEnds => Running
    BY DEF BeginStop, HaltLoops, JoinLoop, Terminate, Message, HandlerEnds, At
  <1>5. (\E l \in List : LoopStep(l)) \/ MatrixThread \/ DnssdThread => Running
    BY DEF LoopStep, CheckHalt, BeginDispatch, Dispatch, HandlerReturns, EndDispatch,
       MatrixThread, DnssdThread, OwnStep
  <1> QED BY <1>1, <1>2, <1>3, <1>4, <1>5 DEF Next, MainStep

\* A step of a run in which nothing has failed, and nothing fails.
LEMMA StaysClean ==
    ASSUME TypeInv, Next, Clean'
    PROVE  Clean /\ ~MayFail
  <1>1. config' = config
    BY Frame
  <1>2. ~Unclassed
    BY <1>1 DEF Clean, Unclassed
  <1>3. failures' = 0
    BY DEF Clean
  <1>4. ~MayFail
    <2>1. failures \in Nat
      BY LifecycleAssumption, SMT DEF TypeInv, Kinds
    <2> QED BY <1>3, <2>1, SMT DEF MayFail
  <1> QED BY <1>2, <1>3, <1>4, Frame DEF Clean

\* How main moves when nothing fails.
CleanMove ==
    \/ Stays \/ Passes \/ Turns \/ Begins \/ AddModules
    \/ /\ Load /\ main.phase = "init" /\ Taken(InitSteps(Head(main.todo).mod))
       /\ mapped' = mapped \cup {Head(main.todo).mod} /\ modules' = modules

LEMMA CleanMoves ==
    ASSUME TypeInv, Next, ~MayFail, main.phase = "init" /\ main.steps # <<>> => main.entry.classed
    PROVE  CleanMove
  <1>0. Places /\ Registered
    BY DEF TypeInv
  <1>1. Moves \/ AddModules \/ Load
    BY <1>0, StepMoves
  <1>2. CASE Load
    <2>1. Loads(Head(main.todo).mod, main'.steps)
      BY <1>0, <1>2, LoadDoes
    <2>2. main.phase = "init" /\ Taken(main'.steps)
      BY <2>1 DEF Loads
    <2>3. \/ main'.steps = InitSteps(Head(main.todo).mod) /\ mapped' = mapped \cup {Head(main.todo).mod} /\ modules' = modules
          \/ failures' = failures + 1 /\ failures < MaxFailures
      BY <2>1 DEF Loads
    <2> QED BY <1>2, <2>2, <2>3 DEF CleanMove, MayFail
  <1>3. CASE Failed /\ main' = main
    BY <1>0, <1>3, SameStays DEF CleanMove
  <1>4. CASE Failed /\ main' # main
    <2>1. main.phase = "init" /\ main.steps # <<>> /\ main.entry.classed
      BY <1>4 DEF Failed
    <2>2. PICK x : x = Head(main.steps)
      OBVIOUS
    <2>3. CASE Register \/ Open \/ StartOwnThread \/ Deregister
      <3>1. PICK y \in {"register", "open", "thread", "deregister"} : At(y) /\ Done
        BY <1>4, <2>1, <2>3 DEF Register, Open, StartOwnThread, Deregister
      <3> QED BY <1>0, <3>1, DonePasses DEF CleanMove
    <2>4. CASE EnterCore \/ LeaveCore
      BY <1>0, <2>4, CoreMoves DEF CleanMove
    <2>5. CASE SetDevice \/ AddMethods \/ AddContexts \/ DeleteContext \/ Close \/ HaltOwnThread
               \/ JoinOwnThread \/ Unload \/ HaltLoops \/ JoinLoop
      <3>1. PICK y \in Exits \cup Inits \cup {"halt_loops", "join_readers", "join_writers"} : At(y) /\ Done
        BY <2>5, DoneSteps
      <3>2. y \notin {"modules", "halt_osc"}
        BY DEF Exits, Inits, Undoes
      <3> QED BY <1>0, <3>1, <3>2, DonePasses DEF CleanMove
    <2>6. ~StartThread /\ ~AddModules /\ ~Terminate
      BY <1>0, <2>1, AtStart, AtStop DEF StartThread, AddModules, Terminate
    <2>7. ~Load /\ ~Loaded /\ ~BeginExit /\ ~BeginStop /\ ~Signal
      BY <2>1 DEF Load, Loaded, BeginExit, BeginStop, Turn, Signal
    <2>8. ~Message /\ ~HandlerEnds /\ ~(\E l \in List : LoopStep(l)) /\ ~MatrixThread /\ ~DnssdThread
      BY <1>4 DEF Message, HandlerEnds, LoopStep, CheckHalt, BeginDispatch, Dispatch,
         HandlerReturns, EndDispatch, LoopGoes, MatrixThread, DnssdThread, OwnStep, Crash
    <2> QED BY <2>3, <2>4, <2>5, <2>6, <2>7, <2>8 DEF Next, MainStep
  <1> QED BY <1>1, <1>2, <1>3, <1>4 DEF Moves, CleanMove

LEMMA EmptySet ==
    ASSUME NEW list \in Seq(Module), ToSet(list) = {}
    PROVE  list = <<>>
  <1>1. list # <<>> => list[1] \in ToSet(list)
    BY SMT DEF ToSet
  <1> QED BY <1>1

\* Whose contexts and descriptors they are.
LEMMA Owners ==
    /\ \A m \in Module : \A c \in Addable(m) : Owner(c) = m
    /\ \A m \in Module : \A d \in DevicesOf(m) : Owner(d) = m
    /\ \A m \in {"beep", "buzz", "matrix", "light"} : Owner(m) = m
    /\ Owner("acc") = "accmag" /\ Owner("mag") = "accmag"
    /\ \A c \in Context \cup Descriptor : Owner(c) \in Module
    /\ \A c \in Context : Owner(c) \in {"beep", "buzz", "light", "accmag"}
    /\ \A d \in Descriptor : Owner(d) # "dnssd"
    /\ \A c \in (Context \cup Descriptor) \ {"flash", "mag"} :
           c = IF Owner(c) = "accmag" THEN "acc" ELSE Owner(c)
  <1>1. \A m \in Module : \A c \in Addable(m) : Owner(c) = m
    BY DEF Addable, Module, Owner
  <1>2. \A m \in Module : \A d \in DevicesOf(m) : Owner(d) = m
    BY DEF DevicesOf
  <1>3. /\ \A m \in {"beep", "buzz", "matrix", "light"} : Owner(m) = m
        /\ Owner("acc") = "accmag" /\ Owner("mag") = "accmag"
        /\ \A c \in Context : Owner(c) \in {"beep", "buzz", "light", "accmag"}
        /\ \A d \in Descriptor : Owner(d) # "dnssd"
    BY DEF Owner, Context, Descriptor
  <1>4. \A c \in Context \cup Descriptor : Owner(c) \in Module
    BY DEF Owner, Context, Descriptor, Module
  <1>5. \A c \in (Context \cup Descriptor) \ {"flash", "mag"} :
           c = IF Owner(c) = "accmag" THEN "acc" ELSE Owner(c)
    BY DEF Owner, Context, Descriptor
  <1> QED BY <1>1, <1>2, <1>3, <1>4, <1>5

\* Outside an init function a context comes to a list by a message handler only.
LEMMA ListedComes ==
    ASSUME Places, Next, main.phase \notin {"init", "run"}, NEW c \in listed', c \notin listed
    PROVE  HandlerEnds /\ main' = main /\ osc \in Module \cap mapped /\ Owner(c) = osc
  <1>1. ~AddContexts
    BY AtInit DEF AddContexts, Inits
  <1>2. ~DeleteContext /\ ~\E l \in List : HandlerReturns(l)
    BY DEF DeleteContext, HandlerReturns, Crash, registries
  <1>3. HandlerEnds
    BY <1>1, <1>2, Frame
  <1>4. c \in Addable(osc) /\ osc \in Module \cap mapped /\ main' = main
    BY <1>3 DEF HandlerEnds, Crash, registries
  <1> QED BY <1>3, <1>4, Owners

\* Who starts and ends the thread of dnssd.
LEMMA DnssdChanges ==
    ASSUME Places, Kinds, Next, own'["dnssd"] # own["dnssd"]
    PROVE  own["dnssd"] # "off" \/ (main.phase = "init" /\ main.steps # <<>> /\ Mod = "dnssd")
  <1>1. StartOwnThread \/ MatrixThread \/ DnssdThread
    BY Frame
  <1>2. CASE DnssdThread
    BY <1>2 DEF DnssdThread, OwnStep
  <1>3. CASE MatrixThread
    BY <1>3 DEF MatrixThread, OwnStep, Crash, registries, threads, Kinds
  <1>4. CASE StartOwnThread
    <2>1. At("thread")
      BY <1>4 DEF StartOwnThread
    <2>2. main.phase = "init" /\ main.steps # <<>>
      BY <2>1, AtInit DEF Inits, At
    <2>3. Mod = "dnssd"
      BY <1>4 DEF StartOwnThread, Kinds
    <2> QED BY <2>2, <2>3
  <1> QED BY <1>1, <1>2, <1>3, <1>4

\* Each of the parts of CleanInv is kept.
LEMMA CleanStartKept ==
    ASSUME CleanInv, Next, Clean'
    PROVE  CleanStart'
  <1> SUFFICES ASSUME main'.phase = "start"
               PROVE  own'["dnssd"] = "off" /\ \A d \in Descriptor : device'[d] = "none"
    BY DEF CleanStart
  <1>0. Places /\ Registered /\ Kinds /\ CleanStart
    BY StaysClean DEF CleanInv, DeviceInv, TypeInv
  <1>1. main.phase = "start"
    <2>1. Moves \/ AddModules \/ Load
      BY <1>0, StepMoves
    <2>2. ~AddModules /\ ~Load
      BY <1>0, AddModulesKeeps, LoadDoes DEF Loads, Taken
    <2>3. Onward
      BY <2>1, <2>2, MovesOnward
    <2> QED BY <2>3 DEF Onward
  <1>2. device' = device
    <2>1. ~Open /\ ~SetDevice
      BY <1>0, <1>1, AtInit DEF Open, SetDevice, Inits
    <2>2. ~Close
      BY <1>0, <1>1, AtExit DEF Close
    <2> QED BY <2>1, <2>2, Frame
  <1>3. own'["dnssd"] = own["dnssd"]
    BY <1>0, <1>1, DnssdChanges DEF CleanStart
  <1> QED BY <1>0, <1>1, <1>2, <1>3 DEF CleanStart

LEMMA CleanStopsKept ==
    ASSUME CleanInv, Next, Clean'
    PROVE  CleanStops'
  <1> SUFFICES ASSUME main'.phase = "stop" PROVE CleanStops'
    BY DEF CleanStops
  <1>0. /\ Places /\ Registered /\ TypeInv /\ Senders /\ Clean /\ ~MayFail
        /\ CleanLoads /\ CleanExits /\ CleanStops
    BY StaysClean DEF CleanInv, DeviceInv, TypeInv
  <1>1. main.phase \in {"exit", "stop"} /\ (main.phase = "exit" => main.steps = <<>> /\ main.todo = <<>>)
    <2>1. CleanMove
      BY <1>0, CleanMoves DEF CleanLoads
    <2>2. AddModules => main'.phase = "init"
      BY <1>0, AddModulesKeeps
    <2> QED BY <2>1, <2>2 DEF CleanMove, Stays, Passes, DoneWell, Turns, Begins, Taken
  <1>2. UNCHANGED <<modules, mapped, objects, device>>
    <2>1. \A x : At(x) => main.phase = "stop"
      BY <1>1 DEF At
    <2>2. ~Open /\ ~SetDevice /\ ~Register
      BY <1>0, <1>1, AtInit DEF Open, SetDevice, Register, Inits
    <2>3. ~Close
      BY <1>0, <2>1, AtExit DEF Close
    <2>4. ~Deregister /\ ~Unload
      BY <1>0, <2>1, AtUndo DEF Deregister, Unload, Undoes
    <2>5. ~AddModules /\ ~Load
      BY <1>0, <1>1, AtStart DEF AddModules, Load, Turn
    <2> QED BY <2>2, <2>3, <2>4, <2>5, Frame
  <1>5. /\ modules = <<>> /\ mapped = {} /\ objects = <<>>
        /\ \A c \in listed : c \in {"flash", "mag"} \/ Owner(c) \in met
        /\ \A d \in Descriptor \ {"mag"} : device[d] \in {"none", "closed"}
        /\ own["matrix"] \notin {"check", "read"}
    <2>1. CASE main.phase = "stop"
      BY <1>0, <2>1 DEF CleanStops
    <2>2. CASE main.phase = "exit"
      <3>1. Todo = {} /\ Ahead = {}
        BY <1>1, <2>2, EmptyList DEF Todo, Ahead
      <3>2. \A x : Remaining(x) = {}
        BY <3>1 DEF Remaining
      <3>3. ToSet(modules) = {} /\ mapped = {} /\ ToSet(objects) = {}
        BY <1>0, <2>2, <3>2 DEF CleanExits
      <3>4. modules = <<>> /\ objects = <<>>
        BY <1>0, <3>3, EmptySet DEF Registered
      <3>5. \A c \in listed : c \in {"flash", "mag"} \/ Owner(c) \in met
        BY <1>0, <2>2, <3>2 DEF CleanExits
      <3>6. \A d \in Descriptor \ {"mag"} : device[d] \in {"none", "closed"}
        BY <1>0, <2>2, <3>2 DEF CleanExits
      <3>7. own["matrix"] \notin {"check", "read"}
        BY <1>0, <2>2, <3>2 DEF CleanExits
      <3> QED BY <3>3, <3>4, <3>5, <3>6, <3>7
    <2> QED BY <1>1, <2>1, <2>2
  <1>3. ASSUME NEW c \in listed', c \notin {"flash", "mag"} PROVE Owner(c) \in met'
    <2>0. met \subseteq met'
      BY Frame
    <2>1. CASE c \in listed
      BY <1>3, <1>5, <2>0, <2>1
    <2>2. CASE c \notin listed
      <3>1. osc \in Module \cap mapped /\ Owner(c) = osc
        BY <1>0, <1>1, <2>2, ListedComes
      <3> QED BY <1>5, <3>1
    <2> QED BY <2>1, <2>2
  <1>4. own["matrix"] \notin {"check", "read"} => own'["matrix"] \notin {"check", "read"}
    <2>1. own'["matrix"] # own["matrix"] => own["matrix"] \in {"check", "read"}
      BY <1>0, <1>1, OwnChanges
    <2> QED BY <2>1
  <1> QED BY <1>2, <1>3, <1>4, <1>5 DEF CleanStops

\* What init and exit functions have to do.
LEMMA InitAhead ==
    ASSUME NEW m \in Module
    PROVE  ToSet(InitSteps(m)) \subseteq Inits /\ "register" \in ToSet(InitSteps(m))
  <1>1. /\ ToSet(pwm_beep_init) = {"register", "open", "methods", "device"}
        /\ ToSet(pwm_buzz_init) = {"register", "open", "methods", "device"}
        /\ ToSet(light_init) = {"open", "register", "methods", "contexts"}
        /\ ToSet(matrix_init) = {"register", "open", "methods", "device", "thread"}
        /\ ToSet(accmag_init) = {"open", "register", "contexts", "methods"}
        /\ ToSet(dnssd_init) = {"register", "init_core", "thread", "service"}
    BY SMT DEF ToSet, pwm_beep_init, pwm_buzz_init, light_init, matrix_init, accmag_init, dnssd_init
  <1> QED BY <1>1 DEF InitSteps, Module, Inits

LEMMA ExitAhead ==
    ASSUME NEW m \in Module
    PROVE  /\ {"deregister", "unload"} \subseteq ToSet(ExitSteps(m))
           /\ m \in {"beep", "buzz", "light", "accmag"} => "delete" \in ToSet(ExitSteps(m))
           /\ m # "dnssd" => "close" \in ToSet(ExitSteps(m))
           /\ m = "matrix" => "join" \in ToSet(ExitSteps(m))
  <1>1. /\ ToSet(pwm_beep_exit) = {"delete", "close", "deregister", "unload"}
        /\ ToSet(pwm_buzz_exit) = {"delete", "close", "deregister", "unload"}
        /\ ToSet(light_exit) = {"delete", "close", "deregister", "unload"}
        /\ ToSet(matrix_exit) = {"halt", "join", "close", "deregister", "unload"}
        /\ ToSet(accmag_exit) = {"close", "delete", "deregister", "unload"}
    BY SMT DEF ToSet, pwm_beep_exit, pwm_buzz_exit, light_exit, matrix_exit, accmag_exit
  <1>2. {"deregister", "unload"} \subseteq ToSet(dnssd_exit)
    <2>1. ToSet(<<"deregister", "no_service", "halt", "no_service", "close_core", "unload">>)
              = {"deregister", "no_service", "halt", "close_core", "unload"}
      BY SMT DEF ToSet
    <2> QED BY <2>1, DnssdClose
  <1> QED BY <1>1, <1>2 DEF ExitSteps, Module

\* The first part of a clean run: what a module leaves is in the name of one that is mapped.
LEMMA MovesLoads ==
    ASSUME CleanInv, Next, Clean', Stays \/ Passes \/ Turns, main'.phase \in {"init", "run"}
    PROVE  CleanLoads'
  <1>0. /\ Places /\ Registered /\ Kinds /\ TypeInv /\ Senders /\ Clean /\ ~MayFail /\ CleanLoads
        /\ main.phase = "init" => (\A m \in Todo : m \notin methods)
    BY StaysClean DEF CleanInv, DeviceInv, TypeInv, Starting
  <1>1. /\ main.phase \in {"init", "run"} /\ Mod' = Mod /\ Todo' = Todo /\ main'.entry = main.entry
        /\ main'.todo = main.todo
        /\ main.steps = <<>> => main'.steps = <<>>
    <2>1. CASE Stays
      BY <2>1 DEF Stays, Mod, Todo
    <2>2. CASE Passes
      BY <2>2 DEF Passes, DoneWell, Mod, Todo
    <2>3. CASE Turns
      <3>1. main.phase = "init" /\ main'.phase = "run" /\ main.steps = <<>> /\ main.todo = <<>> /\ Places'
        BY <2>3 DEF Turns
      <3>2. main'.todo = <<>> /\ main'.steps = <<>>
        BY <3>1 DEF Places
      <3> QED BY <2>3, <3>1, <3>2 DEF Turns, Mod, Todo
    <2> QED BY <2>1, <2>2, <2>3
  <1>2. Ahead' \subseteq Ahead
    <2>1. CASE Stays
      BY <2>1 DEF Stays, Ahead
    <2>2. CASE Passes
      <3>1. main.phase = "init"
        BY <1>0, <1>1, <2>2 DEF Passes, Places
      <3> QED BY <2>2, <3>1 DEF Passes, DoneWell
    <2>3. CASE Turns
      BY <1>1, <2>3, EmptyList DEF Turns, Ahead
    <2> QED BY <2>1, <2>2, <2>3
  <1>3. ASSUME NEW x, At(x)
        PROVE  /\ main.phase = "init" /\ x \in Inits /\ x \in Ahead /\ main.entry.classed
               /\ Mod \in Module \ Todo /\ Mod \in mapped
    <2>1. main.steps # <<>> /\ Head(main.steps) = x
      BY <1>3 DEF At
    <2>2. main.phase = "init"
      BY <1>0, <1>1, <2>1 DEF Places
    <2>3. Mod \in Module \ Todo /\ main.steps \in InitPaths(Mod)
      BY <1>0, <2>1, <2>2 DEF Places, On
    <2>4. x \in Ahead
      BY <2>1, <2>3, InitFollows DEF Follows, Ahead
    <2> QED BY <1>0, <2>1, <2>2, <2>3, <2>4 DEF CleanLoads, Registered
  <1>4. UNCHANGED <<modules, mapped>>
    <2>1. ~AddModules /\ ~Unload
      <3>1. (AddModules => At("modules")) /\ (Unload => At("unload"))
        BY DEF AddModules, Unload
      <3>2. "modules" \notin Inits /\ "unload" \notin Inits
        BY DEF Inits
      <3> QED BY <1>3, <3>1, <3>2
    <2>2. ~Load
      <3> SUFFICES ASSUME Load PROVE FALSE
        OBVIOUS
      <3>1. Taken(main'.steps) /\ main.phase = "init"
        BY <1>0, LoadDoes DEF Loads
      <3>2. Todo' = Todo \ {Head(main.todo).mod} /\ Head(main.todo).mod \in Todo
        BY <3>1 DEF Taken
      <3> QED BY <1>1, <3>2
    <2> QED BY <2>1, <2>2, Frame
  <1>5. /\ ToSet(objects') \subseteq mapped
        /\ \A m \in mapped : m \in ToSet(objects') \/ (m = Mod /\ "register" \in Ahead')
    <2>1. ~Deregister
      BY <1>3 DEF Deregister, Inits
    <2>2. ToSet(objects') \in {ToSet(objects), ToSet(objects) \cup {Mod}} /\ (objects' # objects => Mod \in mapped)
      <3>1. CASE Register
        <4>1. Mod \in mapped
          BY <1>3, <3>1 DEF Register
        <4>2. Onward
          BY MovesOnward DEF Moves
        <4> QED BY <1>0, <3>1, <4>1, <4>2, RegisterKeeps
      <3>2. CASE ~Register
        BY <2>1, <3>2, Frame
      <3> QED BY <3>1, <3>2
    <2>3. ASSUME "register" \in Ahead, "register" \notin Ahead'
          PROVE  Mod \in ToSet(objects')
      <3>1. main.steps # <<>> /\ Passes
        BY <2>3, <1>1, EmptyList DEF Stays, Turns, Ahead
      <3>2. Head(main.steps) = "register" /\ main' # main
        BY <1>0, <1>1, <2>3, <3>1 DEF Passes, DoneWell, Places, Ahead
      <3>3. Register
        BY <1>0, <3>1, <3>2, StepOf
      <3>4. objects' = <<Mod>> \o objects
        BY <1>3, <3>2, <3>3 DEF Register
      <3>5. Mod \in Module \ ToSet(objects)
        BY <1>0, <1>3, <2>3, <3>3 DEF Register, Registered
      <3>6. ToSet(objects') = ToSet(objects) \cup {Mod}
        BY <1>0, <3>4, <3>5, PutInFront DEF Registered
      <3> QED BY <3>6
    <2> QED BY <1>0, <1>1, <2>2, <2>3 DEF CleanLoads
  <1>6. methods' \subseteq mapped
    <2>1. methods' # methods => AddMethods
      BY Frame
    <2>2. AddMethods => methods' = methods \cup {Mod} /\ Mod \in mapped
      BY <1>3 DEF AddMethods
    <2> QED BY <1>0, <1>1, <2>1, <2>2 DEF CleanLoads
  <1>7. \A c \in listed' : Owner(c) \in mapped
    <2>0. \A c \in listed : Owner(c) \in mapped
      BY <1>0, <1>1 DEF CleanLoads
    <2>1. CASE AddContexts
      <3>1. At("contexts") /\ Mod \in {"light", "accmag"}
        BY <1>0, <2>1, InitFacts DEF AddContexts, Inits
      <3>2. Mod \in mapped
        BY <1>3, <3>1
      <3>3. \A c \in listed' : c \in listed \/ Owner(c) = Mod
        BY <2>1, <3>1, Owners DEF AddContexts
      <3> QED BY <2>0, <3>2, <3>3
    <2>2. CASE HandlerEnds
      <3>1. osc \in Module /\ osc \in methods
        BY <1>0, <2>2 DEF HandlerEnds, Senders
      <3>2. \A c \in listed' : c \in listed \/ c \in Addable(osc)
        BY <2>2 DEF HandlerEnds, Crash, registries
      <3>3. osc \in mapped
        BY <1>0, <1>1, <3>1 DEF CleanLoads
      <3> QED BY <2>0, <3>1, <3>2, <3>3, Owners
    <2>3. CASE ~AddContexts /\ ~HandlerEnds
      <3>1. listed' # listed => DeleteContext \/ \E l \in List : HandlerReturns(l)
        BY <2>3, Frame
      <3>2. listed' \subseteq listed
        BY <3>1 DEF DeleteContext, HandlerReturns, Crash, registries
      <3> QED BY <2>0, <3>2
    <2> QED BY <2>1, <2>2, <2>3
  <1>8. \A d \in Descriptor : device'[d] # "none" => Owner(d) \in mapped
    <2>0. \A d \in Descriptor : device[d] # "none" => Owner(d) \in mapped
      BY <1>0, <1>1 DEF CleanLoads
    <2>1. CASE Open
      <3>1. At("open") /\ Mod \in mapped /\ Mod \in Module
        BY <1>3, <2>1 DEF Open
      <3>2. \A d \in Descriptor : device'[d] = device[d] \/ d \in DevicesOf(Mod)
        BY <1>0, <2>1 DEF Open
      <3> QED BY <2>0, <3>1, <3>2, Owners
    <2>2. CASE SetDevice
      <3>1. At("device") /\ Mod \in mapped /\ Mod \in {"beep", "buzz", "matrix"}
        BY <1>0, <1>3, <2>2, InitFacts DEF SetDevice, Inits
      <3>2. \A d \in Descriptor : device'[d] = device[d] \/ d = Mod
        BY <1>0, <2>2 DEF SetDevice, Kinds
      <3> QED BY <2>0, <3>1, <3>2, Owners
    <2>3. ~Close
      BY <1>3 DEF Close, Inits
    <2> QED BY <2>0, <2>1, <2>2, <2>3, Frame
  <1>9. own'["matrix"] # "off" => "matrix" \in mapped
    <2>1. CASE own'["matrix"] = own["matrix"]
      BY <1>0, <1>1, <2>1 DEF CleanLoads
    <2>2. CASE own'["matrix"] # own["matrix"]
      <3>1. \/ own["matrix"] \in {"check", "read"}
            \/ main.phase = "init" /\ main.steps # <<>> /\ Mod = "matrix"
        <4>1. <<"thread">> # <<>>
          BY MatrixTable DEF Path
        <4> QED BY <1>0, <2>2, <4>1, OwnChanges
      <3> QED BY <1>0, <1>1, <3>1 DEF CleanLoads, Registered
    <2> QED BY <2>1, <2>2
  <1>13. own'["dnssd"] # "off" => "dnssd" \in mapped
    <2>1. CASE own'["dnssd"] = own["dnssd"]
      BY <1>0, <1>1, <2>1 DEF CleanLoads
    <2>2. CASE own'["dnssd"] # own["dnssd"]
      BY <1>0, <1>1, <2>2, DnssdChanges DEF CleanLoads, Registered
    <2> QED BY <2>1, <2>2
  <1>10. main'.steps # <<>> => main'.entry.classed /\ Ahead' \subseteq Inits
    BY <1>0, <1>1, <1>2 DEF CleanLoads
  <1>11. \A i \in DOMAIN main'.todo : main'.todo[i].classed
    BY <1>0, <1>1 DEF CleanLoads
  <1>12. ToSet(modules') = mapped' \cup Todo'
    BY <1>0, <1>1, <1>4 DEF CleanLoads
  <1> QED BY <1>1, <1>4, <1>5, <1>6, <1>7, <1>8, <1>9, <1>10, <1>11, <1>12,
         <1>13 DEF CleanLoads

LEMMA TailClassed ==
    ASSUME NEW t \in Seq(Entry), t # <<>>, \A i \in DOMAIN t : t[i].classed
    PROVE  Head(t).classed /\ \A i \in DOMAIN Tail(t) : Tail(t)[i].classed
  <1>1. /\ Len(t) \in Nat /\ Len(t) >= 1 /\ DOMAIN t = 1 .. Len(t) /\ DOMAIN Tail(t) = 1 .. Len(t) - 1
        /\ Head(t) = t[1] /\ \A i \in 1 .. Len(t) - 1 : Tail(t)[i] = t[i + 1]
    BY SMT
  <1>2. 1 \in 1 .. Len(t) /\ \A i \in 1 .. Len(t) - 1 : i + 1 \in 1 .. Len(t)
    <2>1. Len(t) \in Nat /\ Len(t) >= 1
      BY <1>1
    <2> QED BY <2>1, SMT
  <1> QED BY <1>1, <1>2

\* What is registered while modules come is in the name of a module that is mapped.
LEMMA CleanLoadsKept ==
    ASSUME CleanInv, Next, Clean'
    PROVE  CleanLoads'
  <1> SUFFICES ASSUME main'.phase \in {"init", "run"} PROVE CleanLoads'
    BY DEF CleanLoads
  <1>0. /\ Places /\ Registered /\ Kinds /\ TypeInv /\ Clean /\ ~MayFail /\ CleanStart /\ CleanLoads
        /\ Starting
    BY StaysClean DEF CleanInv, DeviceInv, TypeInv
  <1>1. CleanMove
    BY <1>0, CleanMoves DEF CleanLoads
  <1>2. CASE Stays \/ Passes \/ Turns
    BY <1>2, MovesLoads
  <1>3. CASE Begins
    BY <1>3 DEF Begins, Taken
  <1>4. CASE AddModules
    <2>1. /\ main'.phase = "init" /\ main'.steps = <<>> /\ ToSet(modules') = Todo' /\ main.phase = "start"
          /\ \A i \in DOMAIN main'.todo : \E j \in DOMAIN config : main'.todo[i] = config[j]
      BY <1>0, <1>4, AddModulesKeeps
    <2>2. UNCHANGED <<mapped, objects, methods, listed, device, own>>
      BY <1>4 DEF AddModules, threads
    <2>3. /\ mapped = {} /\ objects = <<>> /\ methods = {} /\ listed = {} /\ own["matrix"] = "off"
          /\ own["dnssd"] = "off" /\ \A d \in Descriptor : device[d] = "none"
      BY <1>0, <2>1 DEF Registered, Starting, CleanStart
    <2>4. \A i \in DOMAIN main'.todo : main'.todo[i].classed
      BY <1>0, <2>1 DEF Clean, Unclassed
    <2> QED BY <2>1, <2>2, <2>3, <2>4, EmptyList DEF CleanLoads
  <1>5. CASE Load /\ main.phase = "init" /\ Taken(InitSteps(Head(main.todo).mod))
             /\ mapped' = mapped \cup {Head(main.todo).mod} /\ modules' = modules
    <2> DEFINE m == Head(main.todo).mod
    <2>1. /\ main'.phase = "init" /\ main.steps = <<>> /\ main'.steps = InitSteps(m) /\ main'.entry = Head(main.todo)
          /\ m \in Module \cap Todo /\ Todo' = Todo \ {m} /\ Mod' = m /\ main'.todo = Tail(main.todo)
      BY <1>5 DEF Taken, Mod
    <2>2. UNCHANGED <<objects, methods, listed, device, own>>
      BY <1>5 DEF Load, threads
    <2>3. Ahead = {}
      BY <2>1, EmptyList DEF Ahead
    <2>4. main.todo # <<>>
      BY <1>5 DEF Load, Turn
    <2>5. main'.entry.classed /\ \A i \in DOMAIN main'.todo : main'.todo[i].classed
      <3>1. \A i \in DOMAIN main.todo : main.todo[i].classed
        BY <1>0, <1>5 DEF CleanLoads
      <3>2. main.todo \in Seq(Entry)
        BY <1>0 DEF Places
      <3> QED BY <2>1, <2>4, <3>1, <3>2, TailClassed
    <2> HIDE DEF m
    <2>6. Ahead' \subseteq Inits /\ "register" \in Ahead'
      BY <2>1, InitAhead DEF Ahead
    <2>7. mapped' = mapped \cup {m} /\ modules' = modules
      BY <1>5 DEF m
    <2>8. /\ ToSet(modules) = mapped \cup Todo /\ ToSet(objects) \subseteq mapped
          /\ \A k \in mapped : k \in ToSet(objects)
          /\ methods \subseteq mapped
          /\ \A c \in listed : Owner(c) \in mapped
          /\ \A d \in Descriptor : device[d] # "none" => Owner(d) \in mapped
          /\ own["matrix"] # "off" => "matrix" \in mapped
          /\ own["dnssd"] # "off" => "dnssd" \in mapped
      BY <1>0, <1>5, <2>3 DEF CleanLoads
    <2> QED BY <2>1, <2>2, <2>5, <2>6, <2>7, <2>8 DEF CleanLoads
  <1> QED BY <1>1, <1>2, <1>3, <1>4, <1>5 DEF CleanMove

\* What is left to do when main goes on in the shutdown.
LEMMA RemainingGoes ==
    ASSUME Places, main.phase = "exit", NEW x, x # "no_service"
    PROVE  /\ Stays => Remaining(x)' = Remaining(x)
           /\ Passes => Remaining(x)' = IF Head(main.steps) = x THEN Remaining(x) \ {Mod} ELSE Remaining(x)
           /\ Begins => Remaining(x)' = IF x \in ToSet(ExitSteps(Head(main.todo).mod)) THEN Remaining(x)
                                        ELSE Remaining(x) \ {Head(main.todo).mod}
  <1>1. Stays => Remaining(x)' = Remaining(x)
    BY DEF Stays, Remaining, Todo, Ahead, Mod
  <1>2. ASSUME Passes
        PROVE  Remaining(x)' = IF Head(main.steps) = x THEN Remaining(x) \ {Mod} ELSE Remaining(x)
    <2>1. /\ Todo' = Todo /\ Mod' = Mod /\ Ahead = {Head(main.steps)} \cup Ahead' /\ main.steps # <<>>
          /\ Head(main.steps) # "no_service" => Head(main.steps) \notin Ahead'
      BY <1>2 DEF Passes, DoneWell, Mod
    <2>2. Mod \in Module \ Todo
      BY <2>1 DEF Places, On
    <2>3. CASE Head(main.steps) = x
      BY <2>1, <2>2, <2>3 DEF Remaining
    <2>4. CASE Head(main.steps) # x
      BY <2>1, <2>2, <2>4 DEF Remaining
    <2> QED BY <2>3, <2>4
  <1>3. ASSUME Begins
        PROVE  Remaining(x)' = IF x \in ToSet(ExitSteps(Head(main.todo).mod)) THEN Remaining(x)
                               ELSE Remaining(x) \ {Head(main.todo).mod}
    <2> DEFINE m == Head(main.todo).mod
    <2>1. main.steps = <<>> /\ main'.steps = ExitSteps(m) /\ m \in Module \cap Todo /\ Todo' = Todo \ {m} /\ Mod' = m
      BY <1>3 DEF Begins, Taken, Mod
    <2> HIDE DEF m
    <2>2. Ahead = {} /\ Ahead' = ToSet(ExitSteps(m))
      BY <2>1, EmptyList DEF Ahead
    <2>3. Remaining(x)' = (Todo \ {m}) \cup (IF x \in ToSet(ExitSteps(m)) THEN {m} ELSE {})
      BY <2>1, <2>2 DEF Remaining
    <2>4. Remaining(x) = Todo
      BY <2>2 DEF Remaining
    <2> QED BY <2>1, <2>3, <2>4 DEF m
  <1> QED BY <1>1, <1>2, <1>3

\* The registries and devices in the shutdown, where only the step at hand changes them.
LEMMA ExitChanges ==
    ASSUME CleanInv, Next, Clean, main.phase = "exit"
    PROVE  /\ IF Unload THEN mapped' = mapped \ {Mod} /\ ToSet(modules') = ToSet(modules) \ {Mod}
                        ELSE mapped' = mapped /\ modules' = modules
           /\ IF Deregister /\ Done THEN ToSet(objects') = ToSet(objects) \ {Mod} ELSE objects' = objects
           /\ device' = device \/ Close
           /\ met \subseteq met'
           /\ \A c \in listed' : c \in listed \/ (main' = main /\ Owner(c) \in met \cup Todo)
           /\ own'["matrix"] \in {"check", "read"} => own["matrix"] \in {"check", "read"}
  <1>0. Places /\ Registered /\ TypeInv /\ Senders
    BY DEF CleanInv, DeviceInv, TypeInv
  <1>1. ~AddModules /\ ~Load /\ ~Register /\ ~Open /\ ~SetDevice
    <2>1. (AddModules => At("modules")) /\ (Register => At("register")) /\ (Open => At("open")) /\ (SetDevice => At("device"))
      BY DEF AddModules, Register, Open, SetDevice
    <2>2. {"register", "open", "device"} \subseteq Inits
      BY DEF Inits
    <2>3. ~Load
      BY DEF Load, Turn
    <2> QED BY <1>0, <2>1, <2>2, <2>3, AtInit, AtStart
  <1>2. Onward
    BY <1>0, <1>1, StepMoves, MovesOnward
  <1>3. IF Unload THEN mapped' = mapped \ {Mod} /\ ToSet(modules') = ToSet(modules) \ {Mod}
                  ELSE mapped' = mapped /\ modules' = modules
    <2>1. CASE Unload
      BY <1>0, <1>2, <2>1, UnloadKeeps DEF Unload
    <2> QED BY <1>1, <2>1, Frame
  <1>4. IF Deregister /\ Done THEN ToSet(objects') = ToSet(objects) \ {Mod} ELSE objects' = objects
    <2>1. CASE Deregister /\ Done /\ crash' = crash
      <3>1. PICK i \in DOMAIN objects : objects[i] = Mod /\ objects' = RemoveAt(objects, i)
        BY <2>1, NextRuns DEF Deregister, Running
      <3>2. objects \in Seq(Module) /\ IsInjective(objects) /\ i \in 1 .. Len(objects)
        BY <1>0 DEF Registered
      <3> QED BY <2>1, <3>1, <3>2, RemoveOne
    <2>2. CASE Deregister /\ ~Done
      BY <2>2 DEF Deregister
    <2>3. CASE Deregister /\ Done /\ crash' # crash
      <3>1. main' = main /\ At("deregister")
        BY <2>3 DEF Deregister
      <3>2. DoneWell /\ Head(main.steps) = "deregister"
        BY <1>0, <2>3, <3>1, DoneKeeps DEF At
      <3>3. Ahead' = Ahead /\ "deregister" \in Ahead /\ "deregister" \notin Ahead'
        BY <3>1, <3>2 DEF DoneWell, Ahead
      <3> QED BY <3>3
    <2>4. CASE ~Deregister
      BY <1>1, <2>4, Frame
    <2> QED BY <2>1, <2>2, <2>3, <2>4
  <1>5. ASSUME NEW c \in listed', c \notin listed
        PROVE  main' = main /\ Owner(c) \in met \cup Todo
    <2>1. main' = main /\ osc \in Module \cap mapped /\ Owner(c) = osc
      BY <1>0, <1>5, ListedComes
    <2>2. osc \in Remaining("unload")
      BY <2>1 DEF CleanInv, CleanExits
    <2>3. ASSUME osc \notin met PROVE osc \in Todo
      <3>1. ~InHand(osc)
        BY <2>1, <2>3 DEF CleanInv, DeviceInv, Senders
      <3>2. main.steps = <<>> => Ahead = {}
        BY EmptyList DEF Ahead
      <3> QED BY <2>2, <3>1, <3>2 DEF Remaining, InHand
    <2> QED BY <2>1, <2>3
  <1>6. own'["matrix"] \in {"check", "read"} => own["matrix"] \in {"check", "read"}
    <2>1. own'["matrix"] # own["matrix"] => own["matrix"] \in {"check", "read"}
      BY <1>0, OwnChanges
    <2> QED BY <2>1
  <1> QED BY <1>1, <1>3, <1>4, <1>5, <1>6, Frame

LEMMA PassesOnly ==
    ASSUME Places, main.phase = "exit", Passes, Head(main.steps) # "no_service"
    PROVE  ~Stays /\ ~Begins /\ main' # main
  <1>1. Head(main.steps) \in Ahead /\ Head(main.steps) \notin Ahead' /\ main.steps # <<>>
    BY DEF Passes, DoneWell
  <1> QED BY <1>1 DEF Stays, Begins, Taken, Ahead

LEMMA BeginsMoves ==
    ASSUME Begins
    PROVE  main' # main
  <1>1. main.steps = <<>> /\ main'.steps = ExitSteps(Head(main.todo).mod) /\ Head(main.todo).mod \in Module
    BY DEF Begins, Taken
  <1>2. main'.steps # <<>>
    BY <1>1, AllPaths, ExitFollows DEF Follows
  <1> QED BY <1>1, <1>2

\* What is registered while modules go is in the name of a module that has still to undo it.
LEMMA CleanExitsKept ==
    ASSUME CleanInv, Next, Clean'
    PROVE  CleanExits'
  <1> SUFFICES ASSUME main'.phase = "exit" PROVE CleanExits'
    BY DEF CleanExits
  <1>0. /\ Places /\ Registered /\ Kinds /\ TypeInv /\ Clean /\ ~MayFail /\ CleanLoads /\ CleanExits
    BY StaysClean DEF CleanInv, DeviceInv, TypeInv
  <1>1. CleanMove
    BY <1>0, CleanMoves DEF CleanLoads
  <1>2. CASE main.phase = "run"
    <2>1. main' # main /\ Signal
      BY <1>0, <1>2, RunStays
    <2>2. UNCHANGED <<modules, mapped, objects, device, listed, own, met>>
      BY <2>1 DEF Signal, registries, threads
    <2>3. Turns
      BY <1>1, <1>2, AddModulesKeeps, <1>0 DEF CleanMove, Stays, Passes, DoneWell, Begins
    <2>4. Todo' = ToSet(modules) /\ main'.steps = <<>>
      BY <1>2, <2>3 DEF Turns
    <2>5. Todo = {} /\ Ahead = {} /\ Ahead' = {}
      BY <1>0, <1>2, <2>4, EmptyList DEF Places, Todo, Ahead
    <2>6. \A x : Remaining(x)' = ToSet(modules)
      BY <2>4, <2>5 DEF Remaining
    <2>7. /\ ToSet(modules) = mapped /\ ToSet(objects) = mapped
          /\ \A c \in listed : Owner(c) \in mapped
          /\ \A d \in Descriptor : device[d] # "none" => Owner(d) \in mapped
          /\ own["matrix"] # "off" => "matrix" \in mapped
      BY <1>0, <1>2, <2>5 DEF CleanLoads
    <2> QED BY <2>2, <2>6, <2>7 DEF CleanExits
  <1>3. CASE main.phase = "exit"
    <2>0. /\ mapped = Remaining("unload") /\ ToSet(modules) = Remaining("unload")
          /\ ToSet(objects) = Remaining("deregister")
          /\ \A c \in listed \ {"flash", "mag"} : Owner(c) \in met \cup Remaining("delete")
          /\ \A d \in Descriptor \ {"mag"} :
                 device[d] \notin {"none", "closed"} => Owner(d) \in Remaining("close")
          /\ own["matrix"] \in {"check", "read"} => "matrix" \in Remaining("join")
          /\ listed \subseteq Context
      BY <1>0, <1>3 DEF CleanExits, Kinds
    <2>1. Stays \/ Passes \/ Begins
      BY <1>0, <1>1, <1>3, AddModulesKeeps DEF CleanMove, Turns
    <2>2. /\ IF Unload THEN mapped' = mapped \ {Mod} /\ ToSet(modules') = ToSet(modules) \ {Mod}
                       ELSE mapped' = mapped /\ modules' = modules
          /\ IF Deregister /\ Done THEN ToSet(objects') = ToSet(objects) \ {Mod} ELSE objects' = objects
          /\ device' = device \/ Close
          /\ met \subseteq met'
          /\ \A c \in listed' : c \in listed \/ (main' = main /\ Owner(c) \in met \cup Todo)
          /\ own'["matrix"] \in {"check", "read"} => own["matrix"] \in {"check", "read"}
      BY <1>0, <1>3, ExitChanges
    <2>3. CASE Stays \/ Begins
      <3>1. ASSUME NEW x \in {"unload", "close", "deregister"}, At(x), Done PROVE FALSE
        <4>1. Passes /\ Head(main.steps) = x
          BY <1>0, <3>1, DonePasses DEF At
        <4> QED BY <1>0, <1>3, <2>3, <4>1, PassesOnly
      <3>2. ~Unload /\ ~Close /\ ~(Deregister /\ Done)
        <4>1. /\ Unload => At("unload") /\ Done
              /\ Close => At("close") /\ Done
              /\ Deregister => At("deregister")
          BY DEF Unload, Close, Deregister
        <4> QED BY <3>1, <4>1
      <3>3. UNCHANGED <<modules, mapped, objects, device>>
        BY <2>2, <3>2
      <3>4. CASE Stays
        <4>1. \A x \in {"unload", "deregister", "delete", "close", "join"} : Remaining(x)' = Remaining(x)
          BY <1>0, <1>3, <3>4, RemainingGoes
        <4>2. Todo \subseteq Remaining("delete")
          BY DEF Remaining
        <4>3. \A c \in listed' \ {"flash", "mag"} : Owner(c) \in met' \cup Remaining("delete")'
          BY <2>0, <2>2, <4>1, <4>2
        <4> QED BY <2>0, <2>2, <3>3, <4>1, <4>3 DEF CleanExits
      <3>5. CASE Begins
        <4> DEFINE m == Head(main.todo).mod
        <4>1. m \in Module
          BY <3>5 DEF Begins, Taken
        <4>2. \A x \in {"unload", "deregister", "delete", "close", "join"} :
                  Remaining(x)' = IF x \in ToSet(ExitSteps(m)) THEN Remaining(x) ELSE Remaining(x) \ {m}
          BY <1>0, <1>3, <3>5, RemainingGoes
        <4> HIDE DEF m
        <4>3. Remaining("unload")' = Remaining("unload") /\ Remaining("deregister")' = Remaining("deregister")
          BY <4>1, <4>2, ExitAhead
        <4>4. \A k \in Remaining("delete") : k \in {"beep", "buzz", "light", "accmag"} => k \in Remaining("delete")'
          BY <4>1, <4>2, ExitAhead
        <4>5. \A k \in Remaining("close") : k # "dnssd" => k \in Remaining("close")'
          BY <4>1, <4>2, ExitAhead
        <4>6. "matrix" \in Remaining("join") => "matrix" \in Remaining("join")'
          BY <4>1, <4>2, ExitAhead
        <4>9. listed' \subseteq listed
          <5>1. main' # main
            BY <3>5, BeginsMoves
          <5> QED BY <2>2, <5>1
        <4>7. \A c \in listed' \ {"flash", "mag"} : Owner(c) \in met' \cup Remaining("delete")'
          BY <2>0, <2>2, <4>4, <4>9, Owners
        <4>8. \A d \in Descriptor \ {"mag"} : device[d] \notin {"none", "closed"} => Owner(d) \in Remaining("close")'
          BY <2>0, <4>5, Owners
        <4> QED BY <2>0, <2>2, <3>3, <4>3, <4>6, <4>7, <4>8 DEF CleanExits
      <3> QED BY <2>3, <3>4, <3>5
    <2>4. CASE Passes
      <3> DEFINE h == Head(main.steps)
      <3>1. main.steps # <<>> /\ (h # "no_service" => main' # main)
        BY <1>0, <1>3, <2>4, PassesOnly DEF Passes
      <3>2. \A x \in {"unload", "deregister", "delete", "close", "join"} :
                Remaining(x)' = IF h = x THEN Remaining(x) \ {Mod} ELSE Remaining(x)
        BY <1>0, <1>3, <2>4, RemainingGoes
      <3>3. /\ h = "unload" => Unload
            /\ h = "deregister" => Deregister
            /\ h = "delete" => DeleteContext
            /\ h = "close" => Close
            /\ h = "join" => JoinOwnThread
        BY <1>0, <3>1, StepOf
      <3>4. (Unload => h = "unload") /\ (Deregister => h = "deregister") /\ (Close => h = "close")
        BY DEF Unload, Deregister, Close, At
      <3>5. Deregister => Done
        BY <3>1, <3>4 DEF Deregister
      <3> HIDE DEF h
      <3>6. mapped' = Remaining("unload")' /\ ToSet(modules') = Remaining("unload")'
        BY <2>0, <2>2, <3>2, <3>3, <3>4
      <3>7. ToSet(objects') = Remaining("deregister")'
        BY <2>0, <2>2, <3>2, <3>3, <3>4, <3>5
      <3>11. Todo \subseteq Remaining("delete") /\ (h = "delete" => Mod \notin Todo)
        BY <1>0, <1>3, <3>1 DEF Remaining, Places, On
      <3>8. \A c \in listed' \ {"flash", "mag"} : Owner(c) \in met' \cup Remaining("delete")'
        <4>1. CASE h # "delete"
          BY <2>0, <2>2, <3>2, <3>11, <4>1
        <4>2. CASE h = "delete"
          <5>1. listed' = listed \ {IF Mod = "accmag" THEN "acc" ELSE Mod}
            BY <3>3, <4>2 DEF DeleteContext
          <5>2. \A c \in listed' \ {"flash", "mag"} : c \in listed /\ Owner(c) # Mod
            BY <2>0, <5>1, Owners
          <5> QED BY <2>0, <2>2, <3>2, <4>2, <5>2
        <4> QED BY <4>1, <4>2
      <3>9. \A d \in Descriptor \ {"mag"} : device'[d] \notin {"none", "closed"} => Owner(d) \in Remaining("close")'
        <4>1. CASE h # "close"
          BY <2>0, <2>2, <3>2, <3>4, <4>1
        <4>2. CASE h = "close"
          <5>1. device' = [device EXCEPT ![IF Mod = "accmag" THEN "acc" ELSE Mod] = "closed"]
            BY <3>3, <4>2 DEF Close
          <5>2. DOMAIN device = Descriptor
            BY <1>0 DEF Kinds
          <5>3. \A d \in Descriptor \ {"mag"} : device'[d] \notin {"none", "closed"} =>
                    device[d] \notin {"none", "closed"} /\ Owner(d) # Mod
            <6>1. \A d \in Descriptor \ {"mag"} : d # "flash" /\ (d = IF Owner(d) = "accmag" THEN "acc" ELSE Owner(d))
              BY Owners DEF Descriptor
            <6> QED BY <5>1, <5>2, <6>1
          <5> QED BY <2>0, <3>2, <4>2, <5>3
        <4> QED BY <4>1, <4>2
      <3>10. own'["matrix"] \in {"check", "read"} => "matrix" \in Remaining("join")'
        <4>1. CASE h # "join"
          BY <2>0, <2>2, <3>2, <4>1
        <4>2. CASE h = "join"
          <5>1. own["matrix"] = "ended"
            <6>1. At("join") /\ own[Mod] = "ended"
              BY <3>3, <4>2 DEF JoinOwnThread
            <6> QED BY <1>0, <1>3, <6>1, ExitFacts
          <5> QED BY <2>2, <5>1
        <4> QED BY <4>1, <4>2
      <3> QED BY <3>6, <3>7, <3>8, <3>9, <3>10 DEF CleanExits
    <2> QED BY <2>1, <2>3, <2>4
  <1>4. main.phase \in {"run", "exit"}
    BY <1>0, <1>1, AddModulesKeeps DEF CleanMove, Stays, Passes, DoneWell, Turns, Begins, Taken
  <1> QED BY <1>2, <1>3, <1>4

\* Where a process may come down.
LEMMA CrashSites ==
    ASSUME Next, crash' # crash
    PROVE  \/ Load /\ MayFail
           \/ Register /\ main.entry.classed /\ objects # <<>> /\ Head(objects) \notin mapped
           \/ BeginExit /\ Head(main.todo).mod \notin mapped
           \/ /\ At("deregister") /\ UNCHANGED main
              /\ Mod \notin ToSet(objects) \/ \E j \in DOMAIN objects : objects[j] \notin mapped
           \/ Message /\ main' = main /\ \E m \in methods \ mapped : m \in met'
           \/ HandlerEnds /\ main' = main /\ met' = met /\ osc \notin mapped
           \/ \E l \in List : /\ Dispatch(l) /\ UNCHANGED <<main, listed, met>>
                              /\ \E c \in loop[l].todo : Owner(c) \notin mapped
           \/ \E l \in List : /\ HandlerReturns(l) /\ UNCHANGED <<main, listed, met>>
                              /\ Owner(loop[l].ctx) \notin mapped
           \/ MatrixThread /\ own["matrix"] \in {"check", "read"} /\ "matrix" \notin mapped
           \/ /\ DnssdThread /\ own["dnssd"] \notin {"off", "ended"} /\ UNCHANGED <<main, own>>
              /\ "dnssd" \notin mapped
  <1>1. ~StartThread /\ ~AddModules /\ ~Open /\ ~SetDevice /\ ~AddMethods /\ ~AddContexts /\ ~StartOwnThread
    BY DEF StartThread, AddModules, Open, SetDevice, AddMethods, AddContexts, StartOwnThread
  <1>2. ~EnterCore /\ ~LeaveCore /\ ~Loaded /\ ~Signal /\ ~DeleteContext /\ ~Close /\ ~HaltOwnThread
    BY DEF EnterCore, LeaveCore, Loaded, Signal, DeleteContext, Close, HaltOwnThread
  <1>3. ~JoinOwnThread /\ ~Unload /\ ~BeginStop /\ ~HaltLoops /\ ~JoinLoop /\ ~Terminate
    BY DEF JoinOwnThread, Unload, BeginStop, HaltLoops, JoinLoop, Terminate
  <1>4. Load => MayFail
    BY DEF Load
  <1>5. Register => main.entry.classed /\ objects # <<>> /\ Head(objects) \notin mapped
    BY DEF Register
  <1>6. BeginExit => Head(main.todo).mod \notin mapped
    BY DEF BeginExit
  <1>7. Deregister => /\ At("deregister") /\ UNCHANGED main
                      /\ Mod \notin ToSet(objects) \/ \E j \in DOMAIN objects : objects[j] \notin mapped
    BY DEF Deregister, ToSet
  <1>8. Message => main' = main /\ \E m \in methods \ mapped : m \in met'
    BY DEF Message
  <1>9. HandlerEnds => main' = main /\ met' = met /\ osc \notin mapped
    BY DEF HandlerEnds, Crash, threads
  <1>10. ASSUME NEW l \in List, LoopStep(l)
         PROVE  \/ /\ Dispatch(l) /\ UNCHANGED <<main, listed, met>>
                   /\ \E c \in loop[l].todo : Owner(c) \notin mapped
                \/ /\ HandlerReturns(l) /\ UNCHANGED <<main, listed, met>>
                   /\ Owner(loop[l].ctx) \notin mapped
    <2>1. ~CheckHalt(l) /\ ~BeginDispatch(l) /\ ~EndDispatch(l)
      BY DEF CheckHalt, BeginDispatch, EndDispatch
    <2>2. Dispatch(l) => UNCHANGED <<main, listed, met>> /\ \E c \in loop[l].todo : Owner(c) \notin mapped
      BY DEF Dispatch, Crash, registries, threads
    <2>3. HandlerReturns(l) => UNCHANGED <<main, listed, met>> /\ Owner(loop[l].ctx) \notin mapped
      BY DEF HandlerReturns, Crash, registries, threads
    <2> QED BY <1>10, <2>1, <2>2, <2>3 DEF LoopStep
  <1>11. MatrixThread => own["matrix"] \in {"check", "read"} /\ "matrix" \notin mapped
    BY DEF MatrixThread, OwnStep
  <1>12. DnssdThread => /\ own["dnssd"] \notin {"off", "ended"} /\ UNCHANGED <<main, own>>
                        /\ "dnssd" \notin mapped
    BY DEF DnssdThread, OwnStep, Crash, threads
  <1> QED BY <1>1, <1>2, <1>3, <1>4, <1>5, <1>6, <1>7, <1>8, <1>9, <1>10, <1>11, <1>12
      DEF Next, MainStep

\* Every step of an exit function comes before the module is unloaded.
LEMMA LastUnload ==
    ASSUME NEW m \in Module, NEW s \in ExitPaths(m)
    PROVE  "unload" \in ToSet(s)
  <1>1. CASE m \in {"beep", "buzz", "light"}
    BY <1>1, SourceExitTable DEF ExitPaths, SourceExitPaths, Path
  <1>2. CASE m = "matrix"
    BY <1>2, MatrixExitTable DEF ExitPaths, MatrixExitPaths, Path
  <1>3. CASE m = "accmag"
    BY <1>3, AccmagExitTable DEF ExitPaths, AccmagExitPaths, Path
  <1>4. CASE m = "dnssd"
    BY <1>4, DnssdExitTable DEF ExitPaths, DnssdExitPaths, Path
  <1> QED BY <1>1, <1>2, <1>3, <1>4 DEF Module

\* None of the places where a process may come down is reached in a clean run.
LEMMA SurvivesKept ==
    ASSUME CleanInv, Next
    PROVE  CleanRunSurvives'
  <1> SUFFICES ASSUME crash' # "none", ~(failures' > 0), ~Unclassed',
                      main'.phase \in {"exit", "stop"} => ~Leftover' /\ met' = {}
               PROVE  FALSE
    BY DEF CleanRunSurvives, Excused
  <1>0. TypeInv /\ Places /\ Registered /\ Kinds /\ Senders /\ Handlers
    BY DEF CleanInv, DeviceInv, TypeInv
  <1>1. Clean'
    <2>1. failures' \in 0 .. MaxFailures
      BY <1>0, TypeNext DEF TypeInv, Kinds
    <2>2. failures' = 0
      BY <2>1, LifecycleAssumption, SMT
    <2> QED BY <2>2 DEF Clean
  <1>2. Clean /\ ~MayFail /\ CleanStart /\ CleanLoads /\ CleanExits /\ CleanStops
    BY <1>0, <1>1, StaysClean DEF CleanInv
  <1>3. crash = "none" /\ Running
    BY NextRuns DEF Running
  <1>4. ToSet(objects) \subseteq mapped \/ main.phase \notin {"init", "run", "exit"}
    <2>1. CASE main.phase \in {"init", "run"}
      BY <1>2, <2>1 DEF CleanLoads
    <2>2. CASE main.phase = "exit"
      <3>1. Remaining("deregister") \subseteq Remaining("unload")
        <4>1. main.steps # <<>> => main.steps \in ExitPaths(Mod) /\ Mod \in Module
          BY <1>0, <2>2 DEF Places, On
        <4> QED BY <4>1, LastUnload, EmptyList DEF Remaining, Ahead
      <3> QED BY <1>2, <2>2, <3>1 DEF CleanExits
    <2> QED BY <2>1, <2>2
  <1>5. ASSUME NEW c \in listed, Owner(c) \notin mapped, UNCHANGED <<main, listed, met>> PROVE FALSE
    <2>1. CASE main.phase \in {"init", "run"}
      BY <1>2, <1>5, <2>1 DEF CleanLoads
    <2>2. CASE main.phase \in {"exit", "stop"}
      <3>1. met = {} /\ c \notin {"flash", "mag"}
        BY <1>5, <2>2 DEF Leftover
      <3>2. CASE main.phase = "exit"
        <4>1. Remaining("delete") \subseteq Remaining("unload")
          <5>1. main.steps # <<>> => main.steps \in ExitPaths(Mod) /\ Mod \in Module
            BY <1>0, <3>2 DEF Places, On
          <5> QED BY <5>1, LastUnload, EmptyList DEF Remaining, Ahead
        <4> QED BY <1>2, <1>5, <3>1, <3>2, <4>1 DEF CleanExits
      <3>3. CASE main.phase = "stop"
        BY <1>2, <1>5, <3>1, <3>3 DEF CleanStops
      <3> QED BY <2>2, <3>2, <3>3
    <2>3. CASE main.phase = "start"
      BY <1>5, <2>3 DEF CleanInv, DeviceInv, Starting
    <2> QED BY <1>0, <1>3, <2>1, <2>2, <2>3 DEF Places, Phases, Running
  <1>8. CASE Register /\ main.entry.classed /\ objects # <<>> /\ Head(objects) \notin mapped
    <2>1. main.phase = "init"
      BY <1>0, <1>8, AtInit DEF Register, Inits
    <2>2. Head(objects) \in ToSet(objects)
      BY <1>0, <1>8, SMT DEF Registered, ToSet
    <2> QED BY <1>4, <1>8, <2>1, <2>2
  <1>9. CASE BeginExit /\ Head(main.todo).mod \notin mapped
    <2>1. main.phase = "exit" /\ main.todo # <<>>
      BY <1>9 DEF BeginExit, Turn
    <2>2. Head(main.todo).mod \in Todo
      BY <1>0, <2>1, TailMods DEF Places, Todo
    <2> QED BY <1>2, <1>9, <2>1, <2>2 DEF CleanExits, Remaining
  <1>10. CASE At("deregister") /\ (Mod \notin ToSet(objects) \/ \E j \in DOMAIN objects : objects[j] \notin mapped)
    <2>1. main.phase \in {"init", "exit"} /\ Mod \in Module \ Todo /\ main.steps # <<>> /\ Head(main.steps) = "deregister"
          /\ main.steps \in IF main.phase = "init" THEN InitPaths(Mod) ELSE ExitPaths(Mod)
      BY <1>0, <1>10, AtUndo DEF Undoes, At
    <2>2. "deregister" \in Ahead
      BY <2>1, InitFollows, ExitFollows DEF Follows, Ahead
    <2>3. main.phase = "exit"
      BY <1>2, <2>1, <2>2 DEF CleanLoads, Inits
    <2>4. Mod \in ToSet(objects)
      BY <1>2, <2>1, <2>2, <2>3 DEF CleanExits, Remaining
    <2>5. \A j \in DOMAIN objects : objects[j] \in mapped
      BY <1>4, <2>3 DEF ToSet
    <2> QED BY <1>10, <2>4, <2>5
  <1>11. CASE Message /\ main' = main /\ \E m \in methods \ mapped : m \in met'
    <2>1. main.phase \notin {"exit", "stop"}
      BY <1>11
    <2>2. main.phase \notin {"init", "run"}
      BY <1>2, <1>11 DEF CleanLoads
    <2>3. main.phase # "start"
      BY <1>11 DEF CleanInv, DeviceInv, Starting
    <2> QED BY <1>0, <1>3, <2>1, <2>2, <2>3 DEF Places, Phases, Running
  <1>12. CASE HandlerEnds /\ main' = main /\ met' = met /\ osc \notin mapped
    <2>1. osc \in methods /\ osc \in met
      BY <1>0, <1>12 DEF HandlerEnds, Senders
    <2>2. main.phase \notin {"exit", "stop"}
      BY <1>12, <2>1
    <2>3. main.phase \notin {"init", "run"}
      BY <1>2, <1>12, <2>1 DEF CleanLoads
    <2>4. main.phase # "start"
      BY <2>1 DEF CleanInv, DeviceInv, Starting
    <2> QED BY <1>0, <1>3, <2>2, <2>3, <2>4 DEF Places, Phases, Running
  <1>14. CASE \E l \in List : /\ Dispatch(l) /\ UNCHANGED <<main, listed, met>>
                              /\ \E c \in loop[l].todo : Owner(c) \notin mapped
    BY <1>0, <1>5, <1>14 DEF Dispatch, Handlers
  <1>15. CASE \E l \in List : /\ HandlerReturns(l) /\ UNCHANGED <<main, listed, met>>
                              /\ Owner(loop[l].ctx) \notin mapped
    BY <1>0, <1>5, <1>15 DEF HandlerReturns, Handlers
  <1>16. CASE MatrixThread /\ own["matrix"] \in {"check", "read"} /\ "matrix" \notin mapped
    <2>1. CASE main.phase \in {"init", "run"}
      BY <1>2, <1>16, <2>1 DEF CleanLoads
    <2>2. CASE main.phase = "exit"
      <3>1. Remaining("join") \subseteq Remaining("unload")
        <4>1. main.steps # <<>> => main.steps \in ExitPaths(Mod) /\ Mod \in Module
          BY <1>0, <2>2 DEF Places, On
        <4> QED BY <4>1, LastUnload, EmptyList DEF Remaining, Ahead
      <3> QED BY <1>2, <1>16, <2>2, <3>1 DEF CleanExits
    <2>3. CASE main.phase = "stop"
      BY <1>2, <1>16, <2>3 DEF CleanStops
    <2>4. CASE main.phase = "start"
      BY <1>16, <2>4 DEF CleanInv, DeviceInv, Starting
    <2> QED BY <1>0, <1>3, <2>1, <2>2, <2>3, <2>4 DEF Places, Phases, Running
  <1>17. CASE /\ DnssdThread /\ own["dnssd"] \notin {"off", "ended"} /\ UNCHANGED <<main, own>>
              /\ "dnssd" \notin mapped
    <2>1. main.phase \notin {"exit", "stop"}
      BY <1>17 DEF Leftover
    <2>2. main.phase \notin {"init", "run"}
      BY <1>2, <1>17 DEF CleanLoads
    <2>3. main.phase # "start"
      BY <1>2, <1>17 DEF CleanStart
    <2> QED BY <1>0, <1>3, <2>1, <2>2, <2>3 DEF Places, Phases, Running
  <1> QED BY <1>2, <1>3, <1>8, <1>9, <1>10, <1>11, <1>12, <1>14, <1>15, <1>16, <1>17, CrashSites

\* CleanInv holds at the start and is kept by every step.
LEMMA CleanInit == Init => CleanInv
  <1> SUFFICES ASSUME Init PROVE CleanInv
    OBVIOUS
  <1>1. DeviceInv
    BY DeviceInit
  <1>2. main.phase = "start" /\ crash = "none" /\ own["dnssd"] = "off" /\ \A d \in Descriptor : device[d] = "none"
    BY DEF Init
  <1> QED BY <1>1, <1>2 DEF CleanInv, CleanRunSurvives, CleanStart, CleanLoads, CleanExits,
     CleanStops

LEMMA CleanNext ==
    ASSUME CleanInv, [Next]_vars
    PROVE  CleanInv'
  <1>1. DeviceInv'
    BY DeviceNext DEF CleanInv
  <1>2. CASE Next
    BY <1>1, <1>2, SurvivesKept, CleanStartKept, CleanLoadsKept, CleanExitsKept,
       CleanStopsKept DEF CleanInv
  <1>3. CASE UNCHANGED vars
    <2>1. Ahead' = Ahead /\ Todo' = Todo /\ Mod' = Mod
      BY <1>3 DEF vars, Ahead, Todo, Mod
    <2>2. \A x : Remaining(x)' = Remaining(x)
      BY <2>1 DEF Remaining
    <2>3. Unclassed' = Unclassed /\ Leftover' = Leftover /\ Clean' = Clean
      BY <1>3 DEF vars, Unclassed, Leftover, Clean
    <2>4. CleanRunSurvives'
      BY <1>3, <2>3 DEF vars, CleanInv, CleanRunSurvives, Excused
    <2>5. Clean => CleanStart' /\ CleanStops'
      BY <1>3 DEF vars, CleanInv, CleanStart, CleanStops
    <2>6. Clean => CleanLoads'
      BY <1>3, <2>1 DEF vars, CleanInv, CleanLoads
    <2>7. Clean => CleanExits'
      BY <1>3, <2>2 DEF vars, CleanInv, CleanExits
    <2> QED BY <1>1, <2>3, <2>4, <2>5, <2>6, <2>7 DEF CleanInv
  <1> QED BY <1>2, <1>3

\* While modules are loaded and used, a process comes down only after a call to the system
\* that failed or with a class that is not configured, whatever messages come; and while
\* they are unloaded, only then, with one of the contexts that no exit function deletes on a
\* list, with the dnssd thread running, or after a message has met a module on its way out
\* or gone.
THEOREM CleanRunsSurvive == Spec => []CleanRunSurvives
  <1>1. CleanInv /\ [Next]_vars => CleanInv'
    BY CleanNext
  <1>2. CleanInv => CleanRunSurvives
    BY DEF CleanInv
  <1> QED BY <1>1, <1>2, CleanInit, PTL DEF Spec

\* When nothing has failed and the modules are unloaded, module_list and object_list are
\* empty, every descriptor is closed but that of the magnetometer, and no context is listed
\* but those of accmag and light that nobody deletes, and those of a module that a message
\* has met on its way out.
THEOREM NothingIsLeft == Spec => []NothingLeft
  <1>1. CleanInv /\ [Next]_vars => CleanInv'
    BY CleanNext
  <1>2. CleanInv => NothingLeft
    BY DEF CleanInv, Clean, CleanStops, NothingLeft
  <1> QED BY <1>1, <1>2, CleanInit, PTL DEF Spec

=============================================================================
