------------------------------- MODULE Sources -------------------------------
(***************************************************************************)
(* The event-source registry of the SIOS platform (platform/source.c), the *)
(* intrusive lists it keeps (platform/util.h) and the two loop threads     *)
(* that serve it (platform/core.c).                                        *)
(*                                                                         *)
(* Two circular lists hold the registered source contexts: "R" for the     *)
(* reader loop, "W" for the writer loop, each with its own mutex.  Client  *)
(* threads (the main thread, the OSC server threads) call                  *)
(* sios_add_source_ctx and sios_del_source_ctx; both first walk the lists  *)
(* WITHOUT a lock (sios_source_ctx_exists) and then lock a list, walk it   *)
(* again and alter it.  A loop thread locks its list to build the fd set,  *)
(* unlocks it, waits in select, locks again and calls the handlers; a      *)
(* handler that returns nonzero has its context removed on the spot.       *)
(*                                                                         *)
(* Every walk reads one `next' pointer per step, so that an unlocked       *)
(* walker meets every list an interleaving can show it.  The stores of one *)
(* __list_add or list_del_init are one step: a forward walker reads only   *)
(* `next', and every order of its reads against the single stores is also  *)
(* an order against the whole operation.                                   *)
(*                                                                         *)
(* Time is abstract: whether a period has elapsed is a free choice.        *)
(***************************************************************************)
EXTENDS Naturals, FiniteSets

CONSTANTS
    Ctx,        \* the source contexts
    Client,     \* the threads that call sios_add_source_ctx / sios_del_source_ctx
    Main,       \* the client that shuts the platform down
    ListHead,       \* the list heads readers_list and writers_list
    NoOwner,    \* a mutex nobody holds
    Kind,       \* [Ctx -> SUBSET {"R", "W", "T"}], the field type
    Prio,       \* [Ctx -> Nat], the field priority (lowest number first)
    Paced,      \* the contexts with a nonzero period
    Fd,         \* [Ctx -> FdNum], the field fd
    FdNum,      \* the file descriptors
    Calls       \* the calls the clients make: <<client, "add" | "del", context>>

List == {"R", "W"}              \* readers_list, writers_list; also their loops
Node == Ctx \cup {ListHead}
Thread == Client \cup List

ASSUME CtxAssumption ==
    /\ ListHead \notin Ctx
    /\ Kind \in [Ctx -> SUBSET {"R", "W", "T"}]
    /\ Prio \in [Ctx -> Nat]
    /\ Fd \in [Ctx -> FdNum]

ASSUME ThreadAssumption ==
    /\ Client \cap List = {}
    /\ Main \in Client
    /\ NoOwner \notin Thread
    /\ Calls \subseteq Client \X {"add", "del"} \X Ctx

\* A context with the timer bit has a period (sios.h: "timer period in us").
ASSUME TimerAssumption == \A c \in Ctx : "T" \in Kind[c] => c \in Paced

VARIABLES
    nxt, prv,   \* per list, the next and prev pointer of every node
    owner,      \* per list, the holder of its mutex
    halt,       \* the flag core_exit sets
    pc,         \* per thread, where it stands
    op,         \* per client, the call in progress
    ctx,        \* per thread, its ctx: a client's argument, a loop's position
    tmp,        \* per loop, the saved successor of list_for_each_entry_safe
    walk, ptr,  \* per thread, the list it walks and the node it stands on
    held,       \* per thread, the list it locks
    fds,        \* per loop, its static fd_set
    event       \* per loop, the event it delivers

links == <<nxt, prv>>
vars == <<nxt, prv, owner, halt, pc, op, ctx, tmp, walk, ptr, held, fds, event>>

-----------------------------------------------------------------------------
(* Lists *)

\* A context that is on list l.  list_del_init leaves a node that points at
\* itself; a node that was never linked is given the same form, because the
\* code reads no link of it.
Linked(l, c) == nxt[l][c] # c

\* Mutant of LinkBefore: the new node's own prev pointer is forgotten.
LinkBeforeNoPrev(l, c, n) ==
    /\ nxt' = [nxt EXCEPT ![l][c] = n, ![l][prv[l][n]] = c]
    /\ prv' = [prv EXCEPT ![l][n] = c]

\* __list_add(c, n->prev, n); with n = ListHead this is list_add_tail.
LinkBefore(l, c, n) ==
    /\ nxt' = [nxt EXCEPT ![l][c] = n, ![l][prv[l][n]] = c]
    /\ prv' = [prv EXCEPT ![l][n] = c, ![l][c] = prv[l][n]]

\* Mutant of Unlink: list_del, which leaves null pointers in the node.
UnlinkLeavesNull(l, c) ==
    /\ nxt' = [nxt EXCEPT ![l][prv[l][c]] = nxt[l][c], ![l][c] = NoOwner]
    /\ prv' = [prv EXCEPT ![l][nxt[l][c]] = prv[l][c], ![l][c] = NoOwner]

\* list_del_init(c)
Unlink(l, c) ==
    /\ nxt' = [nxt EXCEPT ![l][prv[l][c]] = nxt[l][c], ![l][c] = c]
    /\ prv' = [prv EXCEPT ![l][nxt[l][c]] = prv[l][c], ![l][c] = c]

\* The lists a context's type names, and the one the code tries first.
Lists(c) == Kind[c] \cap List
First(c) == IF "R" \in Kind[c] THEN "R" ELSE "W"
\* The walk of list l ended without a result: is there a second branch?
Second(l, c) == l = "R" /\ "W" \in Kind[c]

-----------------------------------------------------------------------------
Init ==
    /\ nxt = [l \in List |-> [n \in Node |-> n]]
    /\ prv = [l \in List |-> [n \in Node |-> n]]
    /\ owner = [l \in List |-> NoOwner]
    /\ halt = FALSE
    /\ pc = [t \in Thread |-> IF t \in List THEN "halt" ELSE "idle"]
    /\ op = [t \in Client |-> "add"]
    /\ ctx = [t \in Thread |-> ListHead]
    /\ tmp = [l \in List |-> ListHead]
    /\ walk = [t \in Thread |-> IF t \in List THEN t ELSE "R"]
    /\ ptr = [t \in Thread |-> ListHead]
    /\ held = [t \in Thread |-> IF t \in List THEN t ELSE "R"]
    /\ fds = [l \in List |-> {}]
    /\ event = [l \in List |-> "none"]

\* Put thread t on list l, before its first node.
StartWalk(t, l) ==
    /\ walk' = [walk EXCEPT ![t] = l]
    /\ ptr' = [ptr EXCEPT ![t] = ListHead]

Goto(t, label) == pc' = [pc EXCEPT ![t] = label]

\* The walk is over: its cursor is dead and goes back to the initial value, as
\* does every local of a function that returns, to keep the state space small.
EndWalk(t, label) ==
    /\ Goto(t, label)
    /\ StartWalk(t, IF t \in List THEN t ELSE "R")

\* The node a walker reads next.
Ahead(t) == nxt[walk[t]][ptr[t]]

StepOn(t) ==
    /\ ptr' = [ptr EXCEPT ![t] = Ahead(t)]
    /\ UNCHANGED <<walk, pc>>

\* The walk of thread t for context c reached the list head: the second branch
\* of the function, or label when there is none.
NextList(t, c, label) ==
    IF Second(walk[t], c)
    THEN StartWalk(t, "W") /\ UNCHANGED pc
    ELSE EndWalk(t, label)

-----------------------------------------------------------------------------
(* Clients: sios_add_source_ctx and sios_del_source_ctx *)

\* Mutant of ExistsReturns: a del takes the answer for its opposite.
ExistsReturnsInverted(t, c, found) ==
    /\ EndWalk(t, CASE op[t] = "add" /\ found -> "refused"
                    [] op[t] = "add" /\ ~found -> IF Lists(c) = {} THEN "added" ELSE "lock"
                    [] op[t] = "del" /\ ~found /\ Lists(c) # {} -> "lock"
                    [] OTHER -> "absent")
    /\ held' = [held EXCEPT ![t] = First(c)]

\* After sios_source_ctx_exists(c) returned found.  pc "added" is the return
\* value 0 of an add, "refused" its -1; "absent" is the early return of a del.
ExistsReturns(t, c, found) ==
    /\ EndWalk(t, CASE op[t] = "add" /\ found -> "refused"
                    [] op[t] = "add" /\ ~found -> IF Lists(c) = {} THEN "added" ELSE "lock"
                    [] op[t] = "del" /\ found -> "lock"
                    [] OTHER -> "absent")
    /\ held' = [held EXCEPT ![t] = First(c)]

Call(t, o, c) ==
    /\ pc[t] = "idle"
    /\ t = Main => ~halt
    /\ op' = [op EXCEPT ![t] = o]
    /\ ctx' = [ctx EXCEPT ![t] = c]
    /\ StartWalk(t, First(c))
    /\ Goto(t, "exists")
    /\ UNCHANGED <<links, owner, halt, tmp, held, fds, event>>

\* One step of sios_source_ctx_exists, with no lock.
Exists(t) ==
    LET c == ctx[t] IN
    /\ pc[t] = "exists"
    /\ \/ /\ Lists(c) = {}
          /\ ExistsReturns(t, c, FALSE)
       \/ /\ Lists(c) # {}
          /\ Ahead(t) = c
          /\ ExistsReturns(t, c, TRUE)
       \/ /\ Lists(c) # {}
          /\ Ahead(t) = ListHead
          /\ IF Second(walk[t], c)
             THEN StartWalk(t, "W") /\ UNCHANGED <<pc, held>>
             ELSE ExistsReturns(t, c, FALSE)
       \/ /\ Lists(c) # {}
          /\ Ahead(t) \notin {c, ListHead}
          /\ StepOn(t)
          /\ UNCHANGED held
    /\ UNCHANGED <<links, owner, halt, op, ctx, tmp, fds, event>>

\* Mutant of Lock: the readers' mutex guards both lists.
LockReadersMutex(t) ==
    /\ pc[t] = "lock"
    /\ owner["R"] = NoOwner
    /\ owner' = [owner EXCEPT !["R"] = t]
    /\ StartWalk(t, First(ctx[t]))
    /\ Goto(t, IF op[t] = "add" THEN "insert" ELSE "remove")
    /\ UNCHANGED <<links, halt, op, ctx, tmp, held, fds, event>>

\* Mutant of Lock: pthread_mutex_trylock, its result ignored.
LockWithoutWait(t) ==
    /\ pc[t] = "lock"
    /\ owner' = [owner EXCEPT ![held[t]] = IF @ = NoOwner THEN t ELSE @]
    /\ StartWalk(t, First(ctx[t]))
    /\ Goto(t, IF op[t] = "add" THEN "insert" ELSE "remove")
    /\ UNCHANGED <<links, halt, op, ctx, tmp, held, fds, event>>

Lock(t) ==
    /\ pc[t] = "lock"
    /\ owner[held[t]] = NoOwner
    /\ owner' = [owner EXCEPT ![held[t]] = t]
    /\ StartWalk(t, First(ctx[t]))
    /\ Goto(t, IF op[t] = "add" THEN "insert" ELSE "remove")
    /\ UNCHANGED <<links, halt, op, ctx, tmp, held, fds, event>>

\* Mutant of Insert: a new entry goes behind those of its own priority.
InsertBehindEquals(t) ==
    LET c == ctx[t]
        n == Ahead(t) IN
    /\ pc[t] = "insert"
    /\ \/ /\ n = ListHead
          /\ LinkBefore(walk[t], c, ListHead)
          /\ NextList(t, c, "unlock")
       \/ /\ n # ListHead
          /\ Prio[c] < Prio[n]
          /\ LinkBefore(walk[t], c, n)
          /\ EndWalk(t, "unlock")
       \/ /\ n # ListHead
          /\ Prio[c] >= Prio[n]
          /\ StepOn(t)
          /\ UNCHANGED links
    /\ UNCHANGED <<owner, halt, op, ctx, tmp, held, fds, event>>

\* One step of add_source_ctx_unlocked.  An insertion before an entry returns;
\* an insertion at the tail of the readers falls through to the writers.
Insert(t) ==
    LET c == ctx[t]
        n == Ahead(t) IN
    /\ pc[t] = "insert"
    /\ \/ /\ n = ListHead
          /\ LinkBefore(walk[t], c, ListHead)
          /\ NextList(t, c, "unlock")
       \/ /\ n # ListHead
          /\ Prio[c] <= Prio[n]
          /\ LinkBefore(walk[t], c, n)
          /\ EndWalk(t, "unlock")
       \/ /\ n # ListHead
          /\ Prio[c] > Prio[n]
          /\ StepOn(t)
          /\ UNCHANGED links
    /\ UNCHANGED <<owner, halt, op, ctx, tmp, held, fds, event>>

\* One step of del_source_ctx_unlocked, called by a client under the list's
\* lock and by a loop after a handler that returned nonzero.
Remove(t) ==
    LET c == ctx[t]
        n == Ahead(t)
        after == IF t \in List THEN "reset" ELSE "unlock" IN
    /\ pc[t] = "remove"
    /\ \/ /\ n = c
          /\ Unlink(walk[t], c)
          /\ EndWalk(t, after)
       \/ /\ n = ListHead
          /\ NextList(t, c, after)
          /\ UNCHANGED links
       \/ /\ n \notin {c, ListHead}
          /\ StepOn(t)
          /\ UNCHANGED links
    /\ UNCHANGED <<owner, halt, op, ctx, tmp, held, fds, event>>

\* Mutant of Unlock: the function returns without giving the mutex back.
UnlockForgotten(t) ==
    /\ pc[t] = "unlock"
    /\ Goto(t, IF op[t] = "add" THEN "added" ELSE "deleted")
    /\ UNCHANGED <<links, owner, halt, op, ctx, tmp, walk, ptr, held, fds, event>>

\* pthread_mutex_unlock, and on to the POLL_WRITE branch of a context with both.
Unlock(t) ==
    /\ pc[t] = "unlock"
    /\ owner' = [owner EXCEPT ![held[t]] = NoOwner]
    /\ IF Second(held[t], ctx[t])
       THEN held' = [held EXCEPT ![t] = "W"] /\ Goto(t, "lock")
       ELSE Goto(t, IF op[t] = "add" THEN "added" ELSE "deleted") /\ UNCHANGED held
    /\ UNCHANGED <<links, halt, op, ctx, tmp, walk, ptr, fds, event>>

Return(t) ==
    /\ pc[t] \in {"added", "refused", "deleted", "absent"}
    /\ Goto(t, "idle")
    /\ op' = [op EXCEPT ![t] = "add"]
    /\ ctx' = [ctx EXCEPT ![t] = ListHead]
    /\ held' = [held EXCEPT ![t] = "R"]
    /\ UNCHANGED <<links, owner, halt, tmp, walk, ptr, fds, event>>

-----------------------------------------------------------------------------
(* Loop threads: the_main_reader_loop ("R") and the_main_writer_loop ("W") *)

\* core_exit, run by the main thread when its modules are unloaded, sets the
\* flag; each loop reads it at the top of a round.  The OSC threads live on.
SetHalt ==
    /\ ~halt
    /\ pc[Main] = "idle"
    /\ halt' = TRUE
    /\ UNCHANGED <<links, owner, pc, op, ctx, tmp, walk, ptr, held, fds, event>>

CheckHalt(l) ==
    /\ pc[l] = "halt"
    /\ Goto(l, IF halt THEN "done" ELSE "lockScan")
    /\ UNCHANGED <<links, owner, halt, op, ctx, tmp, walk, ptr, held, fds, event>>

LockScan(l) ==
    /\ pc[l] = "lockScan"
    /\ owner[l] = NoOwner
    /\ owner' = [owner EXCEPT ![l] = l]
    /\ fds' = [fds EXCEPT ![l] = {}]
    /\ StartWalk(l, l)
    /\ Goto(l, "scan")
    /\ UNCHANGED <<links, halt, op, ctx, tmp, held, event>>

\* One iteration of the first loop: a reader, and a writer without a period,
\* is always in the set; a writer with a period is when the period elapsed.
Scan(l) ==
    /\ pc[l] = "scan"
    /\ Ahead(l) # ListHead
    /\ StepOn(l)
    /\ \/ fds' = [fds EXCEPT ![l] = @ \cup {Fd[Ahead(l)]}]
       \/ /\ l = "W" /\ Ahead(l) \in Paced
          /\ UNCHANGED fds
    /\ UNCHANGED <<links, owner, halt, op, ctx, tmp, held, event>>

\* Mutant of UnlockScan: the list stays locked during select.
UnlockScanForgotten(l) ==
    /\ pc[l] = "scan"
    /\ Ahead(l) = ListHead
    /\ EndWalk(l, "select")
    /\ UNCHANGED <<links, owner, halt, op, ctx, tmp, held, fds, event>>

UnlockScan(l) ==
    /\ pc[l] = "scan"
    /\ Ahead(l) = ListHead
    /\ owner' = [owner EXCEPT ![l] = NoOwner]
    /\ EndWalk(l, "select")
    /\ UNCHANGED <<links, halt, op, ctx, tmp, held, fds, event>>

\* select() fails: the round is over.
SelectFails(l) ==
    /\ pc[l] = "select"
    /\ Goto(l, "halt")
    /\ fds' = [fds EXCEPT ![l] = {}]
    /\ UNCHANGED <<links, owner, halt, op, ctx, tmp, walk, ptr, held, event>>

\* select() returns, by an event or by its timeout: the ready subset remains.
SelectReturns(l) ==
    /\ pc[l] = "select"
    /\ Goto(l, "lockDispatch")
    /\ \E ready \in SUBSET fds[l] : fds' = [fds EXCEPT ![l] = ready]
    /\ UNCHANGED <<links, owner, halt, op, ctx, tmp, walk, ptr, held, event>>

\* list_for_each_entry_safe: the position becomes n, the saved one its successor.
MoveTo(l, n) ==
    /\ ctx' = [ctx EXCEPT ![l] = n]
    /\ tmp' = [tmp EXCEPT ![l] = nxt[l][n]]

\* Mutant of LockDispatch: the handlers run without the mutex.
LockDispatchForgotten(l) ==
    /\ pc[l] = "lockDispatch"
    /\ MoveTo(l, nxt[l][ListHead])
    /\ Goto(l, "dispatch")
    /\ UNCHANGED <<links, owner, halt, op, walk, ptr, held, fds, event>>

LockDispatch(l) ==
    /\ pc[l] = "lockDispatch"
    /\ owner[l] = NoOwner
    /\ owner' = [owner EXCEPT ![l] = l]
    /\ MoveTo(l, nxt[l][ListHead])
    /\ Goto(l, "dispatch")
    /\ UNCHANGED <<links, halt, op, walk, ptr, held, fds, event>>

\* The end of an iteration: the next position.
Advance(l) ==
    /\ MoveTo(l, tmp[l])
    /\ Goto(l, "dispatch")
    /\ event' = [event EXCEPT ![l] = "none"]

\* The timer check that ends an iteration of the writer loop may find the
\* period elapsed when no write event has just set elapsed to 0.
HasTimer(l) == l = "W" /\ "T" \in Kind[ctx[l]]

\* FD_ISSET(ctx->fd): call the handler; otherwise on to the timer check.
Dispatch(l) ==
    /\ pc[l] = "dispatch"
    /\ ctx[l] # ListHead
    /\ IF Fd[ctx[l]] \in fds[l]
       THEN /\ Goto(l, "handler")
            /\ event' = [event EXCEPT ![l] = "IO"]
            /\ UNCHANGED <<ctx, tmp>>
       ELSE \/ /\ HasTimer(l)
               /\ Goto(l, "handler")
               /\ event' = [event EXCEPT ![l] = "TIMEOUT"]
               /\ UNCHANGED <<ctx, tmp>>
            \/ Advance(l)
    /\ UNCHANGED <<links, owner, halt, op, walk, ptr, held, fds>>

\* call_context_handler: the handler returns; nonzero removes the context.
HandlerReturns(l) ==
    /\ pc[l] = "handler"
    /\ \/ Goto(l, "reset") /\ UNCHANGED <<walk, ptr>>
       \/ Goto(l, "remove") /\ StartWalk(l, First(ctx[l]))
    /\ UNCHANGED <<links, owner, halt, op, ctx, tmp, held, fds, event>>

\* ctx->elapsed = 0.  No timer is due after it, its period being nonzero.
Reset(l) ==
    /\ pc[l] = "reset"
    /\ Advance(l)
    /\ UNCHANGED <<links, owner, halt, op, walk, ptr, held, fds>>

UnlockDispatch(l) ==
    /\ pc[l] = "dispatch"
    /\ ctx[l] = ListHead
    /\ owner' = [owner EXCEPT ![l] = NoOwner]
    /\ tmp' = [tmp EXCEPT ![l] = ListHead]
    /\ fds' = [fds EXCEPT ![l] = {}]
    /\ Goto(l, "halt")
    /\ UNCHANGED <<links, halt, op, ctx, walk, ptr, held, event>>

-----------------------------------------------------------------------------
ClientStep(t) == Exists(t) \/ Insert(t) \/ Remove(t) \/ Unlock(t) \/ Return(t)

LoopStep(l) ==
    \/ CheckHalt(l) \/ Scan(l) \/ UnlockScan(l) \/ SelectFails(l) \/ SelectReturns(l)
    \/ Dispatch(l) \/ HandlerReturns(l) \/ Remove(l)
    \/ Reset(l) \/ UnlockDispatch(l)

LockStep(l) == LockScan(l) \/ LockDispatch(l)

Next ==
    \/ \E k \in Calls : Call(k[1], k[2], k[3])
    \/ \E t \in Client : ClientStep(t) \/ Lock(t)
    \/ \E l \in List : LoopStep(l) \/ LockStep(l)
    \/ SetHalt

Spec == Init /\ [][Next]_vars

\* Every thread keeps running (handlers return, select times out), and a
\* thread that waits for a mutex that is released again and again gets it.
Fairness ==
    /\ \A t \in Client : WF_vars(ClientStep(t)) /\ SF_vars(Lock(t))
    /\ \A l \in List : WF_vars(LoopStep(l)) /\ SF_vars(LockStep(l))

FairSpec == Spec /\ Fairness

-----------------------------------------------------------------------------
(* Properties *)

Labels ==
    {"idle", "exists", "lock", "insert", "remove", "unlock",
     "added", "refused", "deleted", "absent",
     "halt", "done", "lockScan", "scan", "select", "lockDispatch",
     "dispatch", "handler", "reset"}

\* Every variable has its type: no pointer of a list or of a thread leaves the
\* contexts and the heads.
TypeOK ==
    /\ nxt \in [List -> [Node -> Node]]
    /\ prv \in [List -> [Node -> Node]]
    /\ owner \in [List -> Thread \cup {NoOwner}]
    /\ halt \in BOOLEAN
    /\ pc \in [Thread -> Labels]
    /\ op \in [Client -> {"add", "del"}]
    /\ ctx \in [Thread -> Node]
    /\ tmp \in [List -> Node]
    /\ walk \in [Thread -> List]
    /\ ptr \in [Thread -> Node]
    /\ held \in [Thread -> List]
    /\ fds \in [List -> SUBSET FdNum]
    /\ event \in [List -> {"IO", "none", "TIMEOUT"}]

\* Thread t is between the lock and the unlock of list l.
Inside(t, l) ==
    IF t \in List
    THEN t = l /\ pc[t] \in {"scan", "dispatch", "handler", "remove", "reset"}
    ELSE held[t] = l /\ pc[t] \in {"insert", "remove", "unlock"}

\* The mutex of a list is held exactly by the thread that is inside it, so no
\* two threads are, and every path out of source.c releases what it locked.
LocksMatchThreads ==
    \A l \in List, t \in Thread : Inside(t, l) <=> owner[l] = t

\* Only the thread that holds the mutex of a list alters the list (the comment
\* above call_context_handler: "only call this function from within a locked
\* context as it may alter the sources_list").
AlteredBy(l) == \E t \in Thread : owner[l] = t /\ pc[t] \in {"insert", "remove"}
ListsAlteredUnderLock ==
    [][\A l \in List : <<nxt[l], prv[l]>>' # <<nxt[l], prv[l]>> => AlteredBy(l)]_links

\* Following `next' from the head meets every linked context once, in order of
\* priority, and returns to the head; `prev' is its inverse.
RingOf(l) ==
    LET linked == {c \in Ctx : Linked(l, c)}
        size == Cardinality(linked)
    IN  \E order \in [1 .. size -> linked] :
          LET node(i) == IF i \in 1 .. size THEN order[i] ELSE ListHead
          IN  /\ linked = {order[i] : i \in 1 .. size}
              /\ \A i \in 0 .. size :
                    nxt[l][node(i)] = node(i + 1) /\ prv[l][node(i + 1)] = node(i)
              /\ \A i \in 1 .. size : \A j \in i .. size : Prio[order[i]] <= Prio[order[j]]
ListsAreSortedRings == \A l \in List : RingOf(l)

\* An add inserts only a context that is not on the list.  The answer of the
\* unlocked walk of sios_source_ctx_exists must still hold when the lock is
\* taken, whatever other clients and the loops did to the list in between.
AddInsertsFresh ==
    \A t \in Client : pc[t] = "insert" => ~Linked(walk[t], ctx[t])

\* When a call that took the lock gives it back, its context is on the list
\* after an add and off it after a del.
LockedCallTakesEffect ==
    \A t \in Client : pc[t] = "unlock" => (Linked(held[t], ctx[t]) <=> op[t] = "add")

\* A loop calls the handler only of a context that is on its list, no client
\* being inside the list; the position it goes to next is the current successor,
\* so that no ready context is skipped and no removed one is called.
DispatchFollowsList ==
    \A l \in List :
        /\ pc[l] \in {"handler", "reset"} =>
              \A t \in Client : ~Inside(t, l)
        /\ pc[l] = "handler" => Linked(l, ctx[l])
        /\ pc[l] \in {"dispatch", "handler", "reset"} =>
              \/ tmp[l] = ListHead
              \/ Linked(l, tmp[l])
        /\ pc[l] \in {"dispatch", "handler"} => tmp[l] = nxt[l][ctx[l]]

\* Where the call of client t is at: with the insertion or the removal it has
\* taken effect.
Stage(t) ==
    CASE pc[t] \in {"exists", "lock", "insert", "remove"} -> "called"
      [] pc[t] = "unlock" -> IF op[t] = "add" THEN "added" ELSE "deleted"
      [] OTHER -> pc[t]

\* What the lists, the clients and the loops stand for.
Registered == {c \in Ctx : \E l \in List : Linked(l, c)}
CallOf == [t \in Client |-> [at |-> Stage(t), op |-> op[t], ctx |-> ctx[t]]]
Called == [l \in List |-> IF pc[l] \in {"handler", "remove"} THEN ctx[l] ELSE ListHead]

\* The lists, the mutexes and the unlocked walks together are a registry whose
\* calls take effect at one instant: an accepted add puts the context there once,
\* a refused one finds it there, a del that took the lock leaves it gone, `absent'
\* is right unless another thread may add the context, and neither comes between
\* a loop and the handler it calls.
Registry == INSTANCE SourceRegistry WITH
    Loop <- List,
    Nobody <- ListHead,
    ServedBy <- [l \in List |-> {c \in Ctx : l \in Kind[c]}],
    registered <- Registered,
    call <- CallOf,
    called <- Called
RegistrySpec == Registry!Spec

\* Once core_exit has set the halt flag both loops end: pthread_join returns.
LoopsEnd == halt ~> \A l \in List : pc[l] = "done"

\* Every call of sios_add_source_ctx and sios_del_source_ctx returns.
CallsReturn == \A t \in Client : pc[t] # "idle" ~> pc[t] = "idle"

\* sios_source_ctx_exists answers (sios.h: "0 if none found, 1 if context exists").
ExistsAnswers == \A t \in Client : pc[t] = "exists" ~> pc[t] # "exists"
=============================================================================
