------------------------------ MODULE Responder ------------------------------
(***************************************************************************)
(* The mDNS responder of modules/dns-sd/mDNS/mDNS.c, as dns-sd.c uses it:  *)
(* every host advertises one interface (an address record A and the        *)
(* reverse record Rev) and registers one service (SRV, TXT, the advisory   *)
(* record ADV and the shared record PTR), without cache and without        *)
(* questions of its own.  Hosts probe for their names, announce them,      *)
(* answer, defend and lose them, and a passive browser collects the        *)
(* services it hears of.                                                   *)
(*                                                                         *)
(* Time is in probe intervals of a quarter of a second.  All times are     *)
(* kept relative to now: wait is LastAPTime + ThisAPInterval - timenow,    *)
(* mc is timenow - LastMCTime, until is AnnounceUntil - timenow.  Delays   *)
(* below a quarter of a second (SuppressSending after a packet, the random *)
(* delay of a shared answer) are the free order of steps within a tick.    *)
(* NumFailedProbes, which slows down a host after ten conflicts, is left   *)
(* out: no behaviour here has ten.                                         *)
(***************************************************************************)
EXTENDS Integers, Sequences, SequencesExt

CONSTANTS
    Host,               \* the hosts, numbered by their addresses
    ProbeCount,         \* DefaultProbeCountForTypeUnique
    InitialAnnounce,    \* InitialAnnounceCount
    Ttl,                \* a record's time to live
    Never,              \* a time that does not come: 0x78000000
    MaxStarts,          \* bound on the starts of all hosts together
    MaxEvents,          \* bound on the events from outside: a packet that is lost, a
                        \* host that closes or crashes, a browser that asks
    MaxQuiet,           \* the time in which all is settled: quiet counts up to it
    MaxLabel            \* bound on a label's suffix

ASSUME ResponderAssumption ==
    /\ Host \subseteq Nat
    /\ {ProbeCount, InitialAnnounce, Ttl, Never, MaxQuiet, MaxLabel} \subseteq Nat \ {0}
    /\ {MaxStarts, MaxEvents} \subseteq Nat

VARIABLES
    core,       \* core[h], the mDNS structure of h and what it points to
    net,        \* net[h], the packets on their way to h, its own included
    cache,      \* the service labels whose PTR the browser holds
    starts,     \* how often a host has started
    events,     \* how many events there were
    quiet,      \* the time since the last start or event
    disturbed   \* a packet was lost or a host has gone without its goodbye

vars == <<core, net, cache, starts, events, quiet, disturbed>>

Second == 4
ProbeInterval == 1
AnnounceInterval == 2
ReannounceCount == InitialAnnounce - 1

Kinds == {"A", "Rev", "SRV", "TXT", "ADV", "PTR"}
UniqueMask == {"Unique", "Verified", "KnownUnique"}
ActiveMask == {"Advisory", "Shared", "Verified", "KnownUnique"}

-----------------------------------------------------------------------------
(* Records.  In the operators s is the state of one host, k a record of it. *)

Smaller(a, b) == IF a < b THEN a ELSE b

\* A record that is on no list.
Unregistered == [type |-> "Unregistered", probe |-> 0, announce |-> 0, wait |-> 0,
                 interval |-> 0, until |-> 0, mc |-> 0, immed |-> "no", extra |-> FALSE]

RecordType(k) ==
    CASE k \in {"A", "SRV"} -> "Unique"
      [] k = "Rev" -> "KnownUnique"
      [] k = "TXT" -> "Verified"        \* Unique, and DependentOn the SRV
      [] k = "ADV" -> "Advisory"
      [] k = "PTR" -> "Shared"

Linked(s, k) == s.rr[k].type # "Unregistered"

\* The record's name, and the data it gives for the name.  The target of SRV
\* and Rev is kept in step with the host name.
HostName(s) == <<"host", s.base, s.label>>
ServiceName(s) == <<"service", 0, s.service>>
Name(s, k) ==
    CASE k = "A" -> HostName(s)
      [] k = "Rev" -> <<"address", s.me, 0>>
      [] k \in {"SRV", "TXT"} -> ServiceName(s)
      [] k = "ADV" -> <<"types", 0, 0>>
      [] k = "PTR" -> <<"type", 0, 0>>
RData(s, k) ==
    CASE k = "A" -> <<"address", s.me, 0>>
      [] k \in {"Rev", "SRV"} -> HostName(s)
      [] k = "TXT" -> <<"text", s.text, 0>>
      [] k = "ADV" -> <<"type", 0, 0>>
      [] k = "PTR" -> ServiceName(s)

\* CompareRData on two address records or two SRV records: a name without
\* suffix is shorter, and its length comes first.
Lower(ours, theirs) ==
    IF ours[1] = "address" THEN ours[2] < theirs[2]
    ELSE LET long(x) == IF x[3] > 1 THEN 1 ELSE 0
         IN \/ long(ours) < long(theirs)
            \/ /\ long(ours) = long(theirs)
               /\ \/ ours[2] < theirs[2]
                  \/ ours[2] = theirs[2] /\ ours[3] < theirs[3]

\* Additional1, Additional2 and DependentOn.
Relies(k) == IF k = "PTR" THEN {"SRV", "TXT"} ELSE IF k = "TXT" THEN {"SRV"} ELSE {}
ValidAnswer(s, k) == \A j \in {k} \cup Relies(k) : s.rr[j].type \in ActiveMask

DefaultProbes(type) == IF type = "Unique" THEN ProbeCount ELSE 0
DefaultInterval(type) == IF type = "Unique" THEN ProbeInterval ELSE AnnounceInterval

\* InitializeLastAPTime: probes of records that start together go out together,
\* and a record that does not probe waits for those that do.
InitializeAP(s, k) ==
    LET r == s.rr[k]
        suppress == IF s.suppress < 0 THEN Smaller(ProbeInterval, s.nextProbe) ELSE s.suppress
        wait == IF r.type = "Unique" THEN suppress
                ELSE suppress + ProbeInterval * ProbeCount + r.interval \div 2
    IN [s EXCEPT !.suppress = suppress,
                 !.rr[k].wait = wait, !.rr[k].until = Ttl, !.rr[k].mc = 0,
                 !.nextProbe = IF r.type = "Unique" THEN Smaller(@, wait) ELSE @]

SetupResourceRecord(k) == [Unregistered EXCEPT !.type = RecordType(k)]

\* mDNS_Register_internal
Register(s, k) ==
    LET r == SetupResourceRecord(k)
    IN InitializeAP([s EXCEPT !.list = Append(@, k),
                              !.rr[k] = [r EXCEPT !.probe = DefaultProbes(r.type),
                                                  !.announce = InitialAnnounce,
                                                  !.interval = DefaultInterval(r.type)]], k)

\* Mutant of Cut: it leaves the record on the list.
CutUnlisted(s, k) == [s EXCEPT !.rr[k] = Unregistered]

\* mDNS_Deregister_internal for a record that needs no goodbye
Cut(s, k) == [s EXCEPT !.list = SelectSeq(@, LAMBDA j : j # k), !.rr[k] = Unregistered]

\* SetTargetToHostName, when the host name has changed
SetTarget(s, k) ==
    LET type == s.rr[k].type
    IN IF ~Linked(s, k) THEN s
       ELSE InitializeAP([s EXCEPT
                !.rr[k].probe = DefaultProbes(type),
                !.rr[k].announce = IF @ < ReannounceCount THEN ReannounceCount ELSE @,
                !.rr[k].interval = DefaultInterval(type)], k)

AdvertiseInterface(s) == FoldLeft(Register, s, <<"A", "Rev">>)
RegisterService(s) == FoldLeft(Register, s, <<"SRV", "TXT", "ADV", "PTR">>)

\* mDNS_DeregisterService: a PTR that was announced stays for its goodbye.
DeregisterService(s) ==
    IF s.rr["PTR"].type # "Shared" THEN s
    ELSE LET cut == FoldLeft(Cut, s, <<"SRV", "TXT", "ADV">>)
         IN IF s.rr["PTR"].announce < InitialAnnounce
            THEN [cut EXCEPT !.rr["PTR"].type = "Deregistering", !.rr["PTR"].immed = "all"]
            ELSE Cut(cut, "PTR")

\* A label is the number of its suffix, 1 when it has none; the tenth conflict,
\* after which the suffix makes leaps, does not come.
LabelContainsSuffix(label) == label > 1
IncrementLabelSuffix(label) == IF LabelContainsSuffix(label) THEN label + 1 ELSE 2

DeadvertiseInterface(s) == FoldLeft(Cut, s, <<"A", "Rev">>)

\* mDNS_GenerateFQDN, after HostNameCallback has chosen the next label.
GenerateFQDN(s) == SetTarget(AdvertiseInterface(DeadvertiseInterface(s)), "SRV")
HostNameCallback(s) == GenerateFQDN([s EXCEPT !.label = IncrementLabelSuffix(@)])

\* ServiceCallback takes the whole service off, with no goodbye for its PTR.
ServiceCallback(s) == DeregisterService([s EXCEPT !.rr["PTR"].announce = InitialAnnounce])

\* registration_callback, when all records are gone.
RenameAndReregisterService(s) ==
    RegisterService([s EXCEPT !.service = IncrementLabelSuffix(@)])

\* mDNS_Deregister_internal for a conflict, with the callbacks it makes.
Conflict(s, k) ==
    CASE k = "A" -> HostNameCallback(Cut(s, "A"))
      [] k = "SRV" -> RenameAndReregisterService(ServiceCallback(Cut(s, "SRV")))
      [] OTHER -> Cut(s, k)

-----------------------------------------------------------------------------
(* What a host sends *)

\* The probe part of SendQueries: a record whose time has come sends another
\* probe, or has sent them all and is Verified, to be announced at once.
Probing(s) == {k \in Kinds : s.rr[k].type = "Unique"}
ProbeDue(s, k) == s.rr[k].type = "Unique" /\ s.rr[k].wait <= 0
Earliest(s, K) ==
    CHOOSE t \in {Never} \cup {s.rr[k].wait : k \in K} :
        \A k \in K : t <= s.rr[k].wait /\ t <= Never

\* CompleteProbing: the record is the host's, to be announced at once.
CompleteProbing(r) == [r EXCEPT !.type = "Verified", !.wait = 0, !.interval = AnnounceInterval]

AfterProbes(s) ==
    IF s.nextProbe > 0 THEN s
    ELSE LET next(k) == LET r == s.rr[k] IN
                 IF ~ProbeDue(s, k) THEN r
                 ELSE IF r.probe > 0 THEN [r EXCEPT !.probe = @ - 1, !.wait = r.interval]
                 ELSE CompleteProbing(r)
             probed == [s EXCEPT !.rr = [k \in Kinds |-> next(k)]]
         IN [probed EXCEPT !.nextProbe = Earliest(probed, Probing(probed))]

\* The probes as a packet: a question for the name and the record that is to
\* get it.  The answer to an early probe is asked for by unicast.
ProbesOf(s) ==
    LET due == IF s.nextProbe > 0 THEN <<>>
               ELSE SelectSeq(s.list, LAMBDA k : ProbeDue(s, k) /\ s.rr[k].probe > 0)
    IN [i \in DOMAIN due |->
            [kind |-> due[i], name |-> Name(s, due[i]), data |-> RData(s, due[i]),
             unicast |-> s.rr[due[i]].probe - 1 >= ProbeCount - 1]]

\* TimeToAnnounceThisRecord
TimeToAnnounce(r, ahead) == r.announce > 0 /\ r.wait <= ahead
AnnounceDue(s, k) == TimeToAnnounce(s.rr[k], 0) /\ ValidAnswer(s, k)

\* The setup of SendResponses: what is due goes to all; younger records that are
\* half-way to their time come along, as does the address of an SRV.
Chosen(s) ==
    LET due == {k \in Kinds : AnnounceDue(s, k)}
        eldest(r) == \E k \in due : r.interval <= s.rr[k].interval
        early == {k \in Kinds : LET r == s.rr[k] IN
                    \/ k \in {"A", "Rev"} /\ r.immed # "no"
                    \/ eldest(r) /\ TimeToAnnounce(r, r.interval \div 2) /\ ValidAnswer(s, k)}
        all == due \cup early \cup {k \in Kinds : s.rr[k].immed = "all"}
        address == IF /\ "SRV" \in all \/ s.rr["SRV"].immed # "no"
                      /\ ValidAnswer(s, "A")
                      /\ s.rr["SRV"].mc <= s.rr["A"].mc
                   THEN {"A"} ELSE {}
    IN [k \in Kinds |-> IF k \in all \cup address THEN "all" ELSE s.rr[k].immed]

\* A record that was sent to all, at least half-way to its time, is announced.
Announced(r) ==
    IF ~TimeToAnnounce(r, r.interval \div 2) THEN r
    ELSE LET left == IF 2 * r.interval >= r.until THEN 0 ELSE r.announce - 1
         IN [r EXCEPT !.announce = left, !.interval = 2 * @,
                      !.wait = IF left = 0 THEN 0 ELSE 2 * r.interval]

\* A record that has said goodbye goes.
CompleteDeregistration(s) == IF s.rr["PTR"].type = "Deregistering" THEN Cut(s, "PTR") ELSE s

\* The end of SendResponses.
AfterResponses(s) ==
    LET chosen == Chosen(s)
        sent(k) == LET r == [s.rr[k] EXCEPT !.immed = "no", !.extra = FALSE]
                   IN CASE chosen[k] = "all" -> [Announced(r) EXCEPT !.mc = 0]
                        [] chosen[k] = "one" -> [r EXCEPT !.mc = 0]
                        [] OTHER -> r
    IN CompleteDeregistration([s EXCEPT !.rr = [k \in Kinds |-> sent(k)]])

\* A record in a packet.  A goodbye has a time to live of 0.
PutResourceRecord(s, k) ==
    [kind |-> k, name |-> Name(s, k), data |-> RData(s, k),
     live |-> s.rr[k].type # "Deregistering", flush |-> s.rr[k].type \in UniqueMask]

ResponsesOf(s) ==
    LET chosen == Chosen(s)
        answers == SelectSeq(s.list, LAMBDA k : chosen[k] # "no")
        extras == SelectSeq(s.list, LAMBDA k :
                      chosen[k] = "no" /\ s.rr[k].extra /\ ValidAnswer(s, k))
        recs == answers \o extras
    IN IF answers = <<>> THEN <<>> ELSE [i \in DOMAIN recs |-> PutResourceRecord(s, recs[i])]

\* mDNS_Execute has something to do.
ResponseDue(s) == \E k \in Kinds : AnnounceDue(s, k) \/ s.rr[k].immed # "no"
\* Mutant of EventDue: a probe waits for the next announcement.
EventDueForResponses(s) == s.up /\ ResponseDue(s)
EventDue(s) == s.up /\ (s.nextProbe <= 0 \/ ResponseDue(s))

-----------------------------------------------------------------------------
(* What a host does with what it hears: p is a record of a packet. *)

\* PacketRRMatchesSignature and SameRData
Matches(s, k, p) ==
    /\ Linked(s, k)
    /\ p.name = Name(s, k)
    /\ s.rr[k].type = "Unique" \/ p.kind = k
SameData(s, k, p) == p.kind = k /\ p.data = RData(s, k)

\* PacketRRConflict: the record is to be unique, does not depend on another, and
\* the packet's record is not one of ours that stands for it.
Master(k) == IF k = "TXT" THEN "SRV" ELSE k
\* Mutant of PacketConflict: a name once verified is never in conflict.
PacketConflictInProbing(s, k, p) ==
    /\ s.rr[k].type = "Unique"
    /\ Master(k) = k
    /\ ~ \E j \in Kinds : /\ Linked(s, j) /\ p.name = Name(s, j) /\ SameData(s, j, p)
                          /\ Master(j) = k

PacketConflict(s, k, p) ==
    /\ s.rr[k].type \in UniqueMask
    /\ Master(k) = k
    /\ ~ \E j \in Kinds : /\ Linked(s, j) /\ p.name = Name(s, j) /\ SameData(s, j, p)
                          /\ Master(j) = k

\* Mutant of HearRecord: another host's goodbye for a record of ours is not answered.
HearRecordSilently(s, k, p) ==
    LET r == s.rr[k]
    IN CASE ~Matches(s, k, p) -> s
         [] Matches(s, k, p) /\ SameData(s, k, p) ->
              IF p.live /\ r.immed = "one" THEN [s EXCEPT !.rr[k].immed = "no"] ELSE s
         [] OTHER ->
              IF p.live /\ PacketConflict(s, k, p)
              THEN IF r.probe > ProbeCount THEN s
                   ELSE IF r.type = "Verified"
                   THEN InitializeAP([s EXCEPT !.rr[k].type = "Unique",
                                               !.rr[k].probe = ProbeCount + 1,
                                               !.rr[k].interval = ProbeInterval], k)
                   ELSE Conflict(s, k)
              ELSE IF p.flush /\ 2 * r.mc > Second THEN [s EXCEPT !.rr[k].immed = "all"]
                   ELSE s

\* mDNSCoreReceiveResponse, for one record of the packet and one of ours.
HearRecord(s, k, p) ==
    LET r == s.rr[k]
    IN CASE ~Matches(s, k, p) -> s
         [] Matches(s, k, p) /\ SameData(s, k, p) ->
              IF p.live
              THEN IF r.immed = "one" THEN [s EXCEPT !.rr[k].immed = "no"] ELSE s
              ELSE IF r.immed = "no" THEN [s EXCEPT !.rr[k].immed = "one"] ELSE s
         [] OTHER ->
              IF p.live /\ PacketConflict(s, k, p)
              THEN IF r.probe > ProbeCount THEN s
                   ELSE IF r.type = "Verified"
                   THEN InitializeAP([s EXCEPT !.rr[k].type = "Unique",
                                               !.rr[k].probe = ProbeCount + 1,
                                               !.rr[k].interval = ProbeInterval], k)
                   ELSE Conflict(s, k)
              ELSE IF p.flush /\ 2 * r.mc > Second THEN [s EXCEPT !.rr[k].immed = "all"]
                   ELSE s

HearResponse(s, recs) ==
    FoldLeft(LAMBDA t, p : FoldLeft(LAMBDA u, k : HearRecord(u, k, p), t, t.list), s, recs)

\* ResolveSimultaneousProbe: of two records that are probed for at once the one
\* with the lower data gives way.
LosesProbe(s, k, q, recs) ==
    \E i \in DOMAIN recs : /\ recs[i].name = q.name
                           /\ PacketConflict(s, k, recs[i])
                           /\ recs[i].kind = k
                           /\ Lower(RData(s, k), recs[i].data)

\* The first part of ProcessQuery, for one question and one record: a record that
\* is probed for may be lost, a valid answer is marked for multicast or unicast.
MarkAnswer(a, k, q, recs) ==
    LET s == a.s  r == s.rr[k]
    IN IF ~Linked(s, k) \/ q.name # Name(s, k) THEN a
       ELSE IF r.type = "Unique"
            THEN IF LosesProbe(s, k, q, recs) THEN [a EXCEPT !.s = Conflict(s, k)] ELSE a
       ELSE IF ~ValidAnswer(s, k) THEN a
       ELSE IF q.unicast
            THEN [a EXCEPT !.mark[k] = IF @ = "no" THEN "unicast" ELSE @]
            ELSE [a EXCEPT !.mark[k] = IF r.mc >= Second THEN "multicast" ELSE @]

Marked(s, recs) ==
    FoldLeft(LAMBDA a, q : FoldLeft(LAMBDA b, k : MarkAnswer(b, k, q, recs), a, a.s.list),
             [s |-> s, mark |-> [k \in Kinds |-> "no"]], recs)

\* The record as whose additional k is sent: SRV and TXT for a PTR, A for an SRV.
AnswerTo(a, k) ==
    LET forType == a.mark["PTR"] # "no"
    IN CASE a.mark[k] # "no" \/ ~ValidAnswer(a.s, k) -> k
         [] k \in {"SRV", "TXT"} /\ forType -> "PTR"
         [] k = "A" /\ a.mark["SRV"] # "no" -> "SRV"
         [] k = "A" /\ forType /\ ValidAnswer(a.s, "SRV") -> "PTR"
         [] OTHER -> k

\* The rest of ProcessQuery: what was not multicast for long is multicast for a
\* unicast question too.
HearQuery(s, recs) ==
    LET a == Marked(s, recs)
        answer(k) ==
            LET r == a.s.rr[k]
                multi == \/ a.mark[k] = "multicast"
                         \/ a.mark[k] = "unicast" /\ 4 * r.mc >= Ttl
                to == AnswerTo(a, k)
            IN IF multi THEN [r EXCEPT !.immed = IF @ = "no" THEN "one" ELSE @]
               ELSE IF to # k /\ a.mark[to] = "multicast" THEN [r EXCEPT !.extra = TRUE]
               ELSE r
    IN [a.s EXCEPT !.rr = [k \in Kinds |-> answer(k)]]

\* The services in a unicast answer to marked questions.
GenerateUnicastResponse(a) == IF a.mark["PTR"] = "unicast" THEN {a.s.service} ELSE {}

\* mDNSCoreReceiveQuery sends it to the browser; a host takes a unicast answer for a spoof.
AnswersBrowser(s, recs) == GenerateUnicastResponse(Marked(s, recs))

-----------------------------------------------------------------------------
(* Actions *)

\* A host before it starts: its host name, the text of its service.
Off(h, base, text) ==
    [up |-> FALSE, me |-> h, base |-> base, text |-> text, label |-> 1, service |-> 1,
     list |-> <<>>, rr |-> [k \in Kinds |-> Unregistered],
     nextProbe |-> Never, suppress |-> -1]
SwitchedOff(s) == Off(s.me, s.base, s.text)

\* The hosts have one host name and texts of their own, or the other way round.
Init ==
    /\ \/ core = [h \in Host |-> Off(h, 1, h)]
       \/ core = [h \in Host |-> Off(h, h, 1)]
    /\ net = [h \in Host |-> <<>>]
    /\ cache = {}
    /\ starts = 0 /\ events = 0 /\ quiet = 0 /\ disturbed = FALSE

\* mDNSPlatformSendUDP to the multicast group: every host that is up gets the
\* packets, the sender too.
Sent(packets, g) == IF core[g].up THEN net[g] \o packets ELSE <<>>
Multicast(packets) == net' = [g \in Host |-> Sent(packets, g)]

\* What the browser makes of a response.
Browsed(recs, known) ==
    LET ptrs(live) == {recs[i].data[3] : i \in {j \in DOMAIN recs :
                           recs[j].kind = "PTR" /\ recs[j].live = live}}
    IN (known \ ptrs(FALSE)) \cup ptrs(TRUE)

Event == events < MaxEvents /\ events' = events + 1 /\ quiet' = 0

Packet(type, recs) == IF recs = <<>> THEN <<>> ELSE <<[type |-> type, recs |-> recs]>>

\* mDNS_Init and mDNS_RegisterService
Start(h) ==
    /\ ~core[h].up
    /\ starts < MaxStarts
    /\ starts' = starts + 1 /\ quiet' = 0
    /\ core' = [core EXCEPT ![h] = RegisterService(AdvertiseInterface([@ EXCEPT !.up = TRUE]))]
    /\ UNCHANGED <<net, cache, events, disturbed>>

\* mDNS_Execute: probes first, then what they have made ready to be announced.
Execute(h) ==
    /\ EventDue(core[h])
    /\ LET s == [core[h] EXCEPT !.suppress = IF @ <= 0 THEN -1 ELSE @]
           probed == AfterProbes(s)
       IN /\ core' = [core EXCEPT ![h] = AfterResponses(probed)]
          /\ Multicast(Packet("query", ProbesOf(s)) \o Packet("response", ResponsesOf(probed)))
          /\ cache' = Browsed(ResponsesOf(probed), cache)
    /\ UNCHANGED <<starts, events, quiet, disturbed>>

\* mDNSCoreReceive
CoreReceive(s, p) ==
    IF p.type = "response" THEN HearResponse(s, p.recs) ELSE HearQuery(s, p.recs)

\* SocketDataReady
Receive(h) ==
    /\ core[h].up /\ net[h] # <<>>
    /\ LET p == Head(net[h])
       IN /\ core' = [core EXCEPT ![h] = CoreReceive(@, p)]
          /\ cache' = IF p.type = "browse" THEN cache \cup AnswersBrowser(core[h], p.recs)
                      ELSE cache
    /\ net' = [net EXCEPT ![h] = Tail(@)]
    /\ UNCHANGED <<starts, events, quiet, disturbed>>

Lose(h) ==
    /\ net[h] # <<>>
    /\ Event
    /\ disturbed' = TRUE
    /\ net' = [net EXCEPT ![h] = Tail(@)]
    /\ UNCHANGED <<core, cache, starts>>

\* sios_dnssd_close: the service says goodbye at the next mDNS_Execute or in Close.
Deregister(h) ==
    /\ core[h].rr["PTR"].type = "Shared"
    /\ Event
    /\ core' = [core EXCEPT ![h] = DeregisterService(@)]
    /\ UNCHANGED <<net, cache, starts, disturbed>>

\* mDNS_Close: all records go, and what is left sends its goodbye; the platform closes
\* the socket and deregisters its interface.
Close(h) ==
    /\ core[h].up /\ core[h].rr["PTR"].type # "Shared"
    /\ LET goodbye == ResponsesOf(DeadvertiseInterface(core[h]))
       IN /\ net' = [g \in Host |-> IF g = h THEN <<>> ELSE Sent(Packet("response", goodbye), g)]
          /\ cache' = Browsed(goodbye, cache)
    /\ core' = [core EXCEPT ![h] = SwitchedOff(@)]
    /\ UNCHANGED <<starts, events, quiet, disturbed>>

\* The host is switched off, or the process killed.
Crash(h) ==
    /\ core[h].up
    /\ Event
    /\ disturbed' = TRUE
    /\ core' = [core EXCEPT ![h] = SwitchedOff(@)]
    /\ net' = [net EXCEPT ![h] = <<>>]
    /\ UNCHANGED <<cache, starts>>

\* Nothing is on its way and nobody has anything to send any more.
Settled ==
    \A h \in Host :
        /\ net[h] = <<>>
        /\ \A k \in Kinds : LET r == core[h].rr[k] IN
              r.type \notin {"Unique", "Deregistering"} /\ r.announce = 0 /\ r.immed = "no"

\* A browser that knows nothing asks for the service type, by multicast, for
\* answers by unicast.
Browse ==
    /\ Settled
    /\ Event
    /\ cache' = {}
    /\ Multicast(Packet("browse", <<[kind |-> "PTR", name |-> <<"type", 0, 0>>, unicast |-> TRUE]>>))
    /\ UNCHANGED <<core, starts, disturbed>>

\* A quarter of a second passes.  Packets travel, and hosts do what is due, in less.
Later(s) ==
    [s EXCEPT
        !.nextProbe = IF @ = Never THEN @ ELSE @ - 1,
        !.suppress = IF @ >= 0 THEN @ - 1 ELSE @,
        !.rr = [k \in Kinds |-> LET r == @[k] IN
            [r EXCEPT !.wait = IF @ > 0 THEN @ - 1 ELSE @,
                      !.until = IF @ > 0 THEN @ - 1 ELSE @,
                      !.mc = IF Linked(s, k) /\ 4 * @ < Ttl THEN @ + 1 ELSE @]]]
Tick ==
    /\ \A h \in Host : net[h] = <<>> /\ ~EventDue(core[h])
    /\ core' = [h \in Host |-> Later(core[h])]
    /\ quiet' = Smaller(quiet + 1, MaxQuiet)
    /\ UNCHANGED <<net, cache, starts, events, disturbed>>

Next ==
    \/ \E h \in Host : \/ Start(h) \/ Execute(h) \/ Receive(h) \/ Lose(h)
                       \/ Deregister(h) \/ Close(h) \/ Crash(h)
    \/ Browse
    \/ Tick

Spec == Init /\ [][Next]_vars

-----------------------------------------------------------------------------
(* Properties *)

\* The fields keep their types; what is linked is listed once, in the order of
\* registration; and no label grows past the few conflicts there can be.
TypeOK ==
    /\ \A h \in Host : LET s == core[h] IN
         /\ s.label \in 1..MaxLabel /\ s.service \in 1..MaxLabel
         /\ s.nextProbe \in -1..Never /\ s.suppress \in -1..ProbeInterval
         /\ {s.list[i] : i \in DOMAIN s.list} = {k \in Kinds : Linked(s, k)}
         /\ \A i, j \in DOMAIN s.list : s.list[i] = s.list[j] => i = j
         /\ \A k \in Kinds : LET r == s.rr[k] IN
              /\ r.type \in ActiveMask \cup {"Unique", "Deregistering", "Unregistered"}
              /\ r.probe \in 0..(ProbeCount + 1) /\ r.announce \in 0..InitialAnnounce
              /\ r.wait \in -1..Never /\ r.until \in 0..Ttl /\ r.mc \in 0..Ttl
              /\ r.immed \in {"no", "one", "all"} /\ r.extra \in BOOLEAN
    /\ cache \subseteq 1..MaxLabel
    /\ starts \in 0..MaxStarts /\ events \in 0..MaxEvents /\ quiet \in 0..MaxQuiet

\* When all is quiet, and no packet was lost and no host vanished, no two hosts hold
\* one host name or one service name, whatever the order of their starts, probes,
\* conflicts, renames and goodbyes.
NamesDiffer ==
    Settled /\ ~disturbed => \A g, h \in Host : g # h =>
        \A k \in {"A", "SRV"} :
            Linked(core[g], k) /\ Linked(core[h], k) => Name(core[g], k) # Name(core[h], k)

\* When all is quiet, and no packet was lost and no host vanished, the browser
\* knows every registered service, across renames, goodbyes, and services that
\* two hosts announced under one name for a while.
BrowserKnows ==
    Settled /\ ~disturbed =>
        \A h \in Host : Linked(core[h], "PTR") => core[h].service \in cache

\* The comment at InitialAnnounceCount: a record whose AnnounceCount has that value
\* was never announced on the wire, and needs no goodbye.
SentIsCounted ==
    [][\A h \in Host : Execute(h) /\ core[h].rr["PTR"].type = "Shared" =>
           LET probed == AfterProbes(core[h])
           IN Chosen(probed)["PTR"] # "no" =>
                  core'[h].rr["PTR"].announce < InitialAnnounce]_vars

\* Once nothing happens from outside any more, probing, renaming and announcing
\* end in time, though a packet may have been lost at the worst moment.
SettlesInTime == quiet = MaxQuiet => Settled
=============================================================================
