---------------------------- MODULE SourcesProofs ----------------------------
(* The event-source registry for every set of contexts and clients. *)
EXTENDS Sources, FiniteSetTheorems, TLAPS

-----------------------------------------------------------------------------
(* Type correctness *)

\* __list_add and list_del_init keep every pointer inside the list's nodes.
LEMMA LinkBeforeType ==
    ASSUME TypeOK, NEW l \in List, NEW c \in Node, NEW n \in Node, LinkBefore(l, c, n)
    PROVE  nxt' \in [List -> [Node -> Node]] /\ prv' \in [List -> [Node -> Node]]
  <1>1. prv[l][n] \in Node
    BY DEF TypeOK
  <1> QED
    BY <1>1 DEF TypeOK, LinkBefore

LEMMA UnlinkType ==
    ASSUME TypeOK, NEW l \in List, NEW c \in Node, Unlink(l, c)
    PROVE  nxt' \in [List -> [Node -> Node]] /\ prv' \in [List -> [Node -> Node]]
  <1>1. prv[l][c] \in Node /\ nxt[l][c] \in Node
    BY DEF TypeOK
  <1> QED
    BY <1>1 DEF TypeOK, Unlink

\* The walk of a thread stays on the nodes of a list.
LEMMA AheadType ==
    ASSUME TypeOK, NEW t \in Thread
    PROVE  Ahead(t) \in Node
  BY DEF TypeOK, Ahead

LEMMA NamesType ==
    /\ ListHead \in Node
    /\ Ctx \subseteq Node
    /\ Client \subseteq Thread
    /\ List \subseteq Thread
    /\ "R" \in List /\ "W" \in List
    /\ \A c : First(c) \in List
  BY DEF Node, Thread, List, First

\* The steps the actions are made of.
LEMMA GotoType ==
    ASSUME TypeOK, NEW t \in Thread, NEW label \in Labels, Goto(t, label)
    PROVE  pc' \in [Thread -> Labels]
  BY DEF TypeOK, Goto

LEMMA StartWalkType ==
    ASSUME TypeOK, NEW t \in Thread, NEW l \in List, StartWalk(t, l)
    PROVE  walk' \in [Thread -> List] /\ ptr' \in [Thread -> Node]
  BY NamesType DEF TypeOK, StartWalk

LEMMA EndWalkType ==
    ASSUME TypeOK, NEW t \in Thread, NEW label \in Labels, EndWalk(t, label)
    PROVE  /\ pc' \in [Thread -> Labels]
           /\ walk' \in [Thread -> List]
           /\ ptr' \in [Thread -> Node]
  <1>1. (IF t \in List THEN t ELSE "R") \in List
    BY NamesType
  <1> QED
    BY <1>1, GotoType, StartWalkType DEF EndWalk

LEMMA StepOnType ==
    ASSUME TypeOK, NEW t \in Thread, StepOn(t)
    PROVE  /\ pc' \in [Thread -> Labels]
           /\ walk' \in [Thread -> List]
           /\ ptr' \in [Thread -> Node]
  BY AheadType DEF TypeOK, StepOn

LEMMA NextListType ==
    ASSUME TypeOK, NEW t \in Thread, NEW c, NEW label \in Labels, NextList(t, c, label)
    PROVE  /\ pc' \in [Thread -> Labels]
           /\ walk' \in [Thread -> List]
           /\ ptr' \in [Thread -> Node]
  <1>1. CASE Second(walk[t], c)
    BY <1>1, NamesType, StartWalkType DEF NextList, TypeOK
  <1>2. CASE ~Second(walk[t], c)
    BY <1>2, EndWalkType DEF NextList
  <1> QED
    BY <1>1, <1>2

LEMMA MoveToType ==
    ASSUME TypeOK, NEW l \in List, NEW n \in Node, MoveTo(l, n)
    PROVE  ctx' \in [Thread -> Node] /\ tmp' \in [List -> Node]
  <1>1. nxt[l][n] \in Node
    BY DEF TypeOK
  <1> QED
    BY <1>1, NamesType DEF TypeOK, MoveTo

LEMMA AdvanceType ==
    ASSUME TypeOK, NEW l \in List, Advance(l)
    PROVE  /\ ctx' \in [Thread -> Node]
           /\ tmp' \in [List -> Node]
           /\ pc' \in [Thread -> Labels]
           /\ event' \in [List -> {"IO", "none", "TIMEOUT"}]
  <1>1. tmp[l] \in Node /\ l \in Thread /\ "dispatch" \in Labels
    BY NamesType DEF TypeOK, Labels
  <1> QED
    BY <1>1, MoveToType, GotoType DEF Advance, TypeOK

LEMMA TypeInit == Init => TypeOK
  <1> SUFFICES ASSUME Init PROVE TypeOK
    OBVIOUS
  <1>1. pc \in [Thread -> Labels]
    BY DEF Init, Labels
  <1>2. walk \in [Thread -> List] /\ held \in [Thread -> List]
    BY NamesType DEF Init
  <1>3. nxt \in [List -> [Node -> Node]] /\ prv \in [List -> [Node -> Node]]
    BY DEF Init
  <1> QED
    BY <1>1, <1>2, <1>3, NamesType DEF Init, TypeOK

LEMMA TypeExists ==
    ASSUME TypeOK, NEW t \in Client, Exists(t)
    PROVE  TypeOK'
  <1>1. t \in Thread /\ First(ctx[t]) \in List /\ "W" \in List
    BY NamesType
  <1>2. ASSUME NEW found \in BOOLEAN, ExistsReturns(t, ctx[t], found)
        PROVE  /\ pc' \in [Thread -> Labels]
               /\ walk' \in [Thread -> List]
               /\ ptr' \in [Thread -> Node]
               /\ held' \in [Thread -> List]
    <2> DEFINE label == CASE op[t] = "add" /\ found -> "refused"
                          [] op[t] = "add" /\ ~found ->
                                IF Lists(ctx[t]) = {} THEN "added" ELSE "lock"
                          [] op[t] = "del" /\ found -> "lock"
                          [] OTHER -> "absent"
    <2>1. label \in Labels
      BY DEF Labels
    <2>2. EndWalk(t, label)
      BY <1>2 DEF ExistsReturns
    <2>3. held' \in [Thread -> List]
      BY <1>1, <1>2 DEF ExistsReturns, TypeOK
    <2> QED
      BY <1>1, <2>1, <2>2, <2>3, EndWalkType
  <1>3. CASE ExistsReturns(t, ctx[t], FALSE) \/ ExistsReturns(t, ctx[t], TRUE)
    BY <1>2, <1>3 DEF Exists, links, TypeOK
  <1>4. CASE StartWalk(t, "W") /\ UNCHANGED <<pc, held>>
    BY <1>1, <1>4, StartWalkType DEF Exists, links, TypeOK
  <1>5. CASE StepOn(t) /\ UNCHANGED held
    BY <1>1, <1>5, StepOnType DEF Exists, links, TypeOK
  <1> QED
    BY <1>3, <1>4, <1>5 DEF Exists

LEMMA TypeInsert ==
    ASSUME TypeOK, NEW t \in Client, Insert(t)
    PROVE  TypeOK'
  <1>1. t \in Thread /\ ctx[t] \in Node /\ walk[t] \in List /\ Ahead(t) \in Node
    BY NamesType, AheadType DEF TypeOK
  <1>2. nxt' \in [List -> [Node -> Node]] /\ prv' \in [List -> [Node -> Node]]
    BY <1>1, NamesType, LinkBeforeType DEF Insert, links, TypeOK
  <1>3. "unlock" \in Labels
    BY DEF Labels
  <1>4. /\ pc' \in [Thread -> Labels]
        /\ walk' \in [Thread -> List]
        /\ ptr' \in [Thread -> Node]
    BY <1>1, <1>3, NextListType, EndWalkType, StepOnType DEF Insert
  <1> QED
    BY <1>2, <1>4 DEF Insert, TypeOK

LEMMA TypeRemove ==
    ASSUME TypeOK, NEW t \in Thread, Remove(t)
    PROVE  TypeOK'
  <1>1. ctx[t] \in Node /\ walk[t] \in List /\ Ahead(t) \in Node
    BY NamesType, AheadType DEF TypeOK
  <1>2. nxt' \in [List -> [Node -> Node]] /\ prv' \in [List -> [Node -> Node]]
    BY <1>1, UnlinkType DEF Remove, links, TypeOK
  <1>3. (IF t \in List THEN "reset" ELSE "unlock") \in Labels
    BY DEF Labels
  <1>4. /\ pc' \in [Thread -> Labels]
        /\ walk' \in [Thread -> List]
        /\ ptr' \in [Thread -> Node]
    BY <1>1, <1>3, NextListType, EndWalkType, StepOnType DEF Remove
  <1> QED
    BY <1>2, <1>4 DEF Remove, TypeOK

LEMMA TypeClientStep ==
    ASSUME TypeOK, NEW t \in Client, ClientStep(t) \/ Lock(t)
    PROVE  TypeOK'
  <1>1. t \in Thread /\ held[t] \in List /\ "W" \in List
    BY NamesType DEF TypeOK
  <1>2. CASE Lock(t)
    <2>1. (IF op[t] = "add" THEN "insert" ELSE "remove") \in Labels
      BY DEF Labels
    <2>2. First(ctx[t]) \in List
      BY NamesType
    <2>3. owner' \in [List -> Thread \cup {NoOwner}]
      BY <1>1, <1>2 DEF Lock, TypeOK
    <2> QED
      BY <1>1, <1>2, <2>1, <2>2, <2>3, GotoType, StartWalkType DEF Lock, links, TypeOK
  <1>3. CASE Unlock(t)
    <2>1. "lock" \in Labels /\ (IF op[t] = "add" THEN "added" ELSE "deleted") \in Labels
      BY DEF Labels
    <2>2. pc' \in [Thread -> Labels]
      BY <1>1, <1>3, <2>1, GotoType DEF Unlock
    <2>3. held' \in [Thread -> List] /\ owner' \in [List -> Thread \cup {NoOwner}]
      BY <1>1, <1>3 DEF Unlock, TypeOK
    <2> QED
      BY <1>3, <2>2, <2>3 DEF Unlock, links, TypeOK
  <1>4. CASE Return(t)
    <2>1. "idle" \in Labels /\ ListHead \in Node /\ "R" \in List
      BY NamesType DEF Labels
    <2> QED
      BY <1>1, <1>4, <2>1, GotoType DEF Return, links, TypeOK
  <1> QED
    BY <1>1, <1>2, <1>3, <1>4, TypeExists, TypeInsert, TypeRemove DEF ClientStep

LEMMA TypeLoopStep ==
    ASSUME TypeOK, NEW l \in List, LoopStep(l) \/ LockStep(l)
    PROVE  TypeOK'
  <1> USE DEF links
  <1>1. l \in Thread /\ ListHead \in Node /\ nxt[l][ListHead] \in Node
    BY NamesType DEF TypeOK
  <1>2. {"halt", "done", "lockScan", "scan", "select", "lockDispatch", "dispatch",
         "handler", "remove", "reset"} \subseteq Labels
    BY DEF Labels
  <1>3. CASE CheckHalt(l)
    <2>1. (IF halt THEN "done" ELSE "lockScan") \in Labels
      BY <1>2
    <2> QED
      BY <1>1, <1>3, <2>1, GotoType DEF CheckHalt, TypeOK
  <1>4. CASE LockScan(l)
    <2>1. owner' \in [List -> Thread \cup {NoOwner}] /\ fds' \in [List -> SUBSET FdNum]
      BY <1>1, <1>4 DEF LockScan, TypeOK
    <2> QED
      BY <1>1, <1>2, <1>4, <2>1, GotoType, StartWalkType DEF LockScan, TypeOK
  <1>5. CASE Scan(l)
    <2>1. Ahead(l) \in Ctx
      BY <1>1, <1>5, AheadType DEF Scan, Node
    <2>2. Fd[Ahead(l)] \in FdNum
      BY <2>1, CtxAssumption
    <2>3. fds' \in [List -> SUBSET FdNum]
      <3>1. fds[l] \cup {Fd[Ahead(l)]} \in SUBSET FdNum
        BY <2>2 DEF TypeOK
      <3> QED
        BY <1>5, <3>1 DEF Scan, TypeOK
    <2> QED
      BY <1>1, <1>5, <2>3, StepOnType DEF Scan, TypeOK
  <1>6. CASE UnlockScan(l)
    <2>1. owner' \in [List -> Thread \cup {NoOwner}]
      BY <1>6 DEF UnlockScan, TypeOK
    <2> QED
      BY <1>1, <1>2, <1>6, <2>1, EndWalkType DEF UnlockScan, TypeOK
  <1>7. CASE SelectFails(l)
    <2>1. fds' \in [List -> SUBSET FdNum]
      BY <1>7 DEF SelectFails, TypeOK
    <2> QED
      BY <1>1, <1>2, <1>7, <2>1, GotoType DEF SelectFails, TypeOK
  <1>8. CASE SelectReturns(l)
    <2>1. PICK ready \in SUBSET fds[l] : fds' = [fds EXCEPT ![l] = ready]
      BY <1>8 DEF SelectReturns
    <2>2. fds \in [List -> SUBSET FdNum] /\ ready \in SUBSET FdNum
      BY <2>1 DEF TypeOK
    <2>3. fds' \in [List -> SUBSET FdNum]
      BY <2>1, <2>2
    <2> QED
      BY <1>1, <1>2, <1>8, <2>3, GotoType DEF SelectReturns, TypeOK
  <1>9. CASE LockDispatch(l)
    <2>1. owner' \in [List -> Thread \cup {NoOwner}]
      BY <1>1, <1>9 DEF LockDispatch, TypeOK
    <2> QED
      BY <1>1, <1>2, <1>9, <2>1, GotoType, MoveToType DEF LockDispatch, TypeOK
  <1>10. CASE Dispatch(l)
    <2>1. /\ ctx' \in [Thread -> Node]
          /\ tmp' \in [List -> Node]
          /\ pc' \in [Thread -> Labels]
          /\ event' \in [List -> {"IO", "none", "TIMEOUT"}]
      <3>1. CASE Advance(l)
        BY <3>1, AdvanceType
      <3>2. CASE /\ Goto(l, "handler")
                 /\ UNCHANGED <<ctx, tmp>>
                 /\ \/ event' = [event EXCEPT ![l] = "IO"]
                    \/ event' = [event EXCEPT ![l] = "TIMEOUT"]
        BY <1>1, <1>2, <3>2, GotoType DEF TypeOK
      <3> QED
        BY <1>10, <3>1, <3>2 DEF Dispatch
    <2> QED
      BY <1>10, <2>1 DEF Dispatch, TypeOK
  <1>11. CASE HandlerReturns(l)
    <2>1. First(ctx[l]) \in List
      BY NamesType
    <2>2. /\ pc' \in [Thread -> Labels]
          /\ walk' \in [Thread -> List]
          /\ ptr' \in [Thread -> Node]
      <3>1. CASE Goto(l, "reset") /\ UNCHANGED <<walk, ptr>>
        BY <1>1, <1>2, <3>1, GotoType DEF TypeOK
      <3>2. CASE Goto(l, "remove") /\ StartWalk(l, First(ctx[l]))
        BY <1>1, <1>2, <2>1, <3>2, GotoType, StartWalkType
      <3> QED
        BY <1>11, <3>1, <3>2 DEF HandlerReturns
    <2> QED
      BY <1>11, <2>2 DEF HandlerReturns, TypeOK
  <1>12. CASE Remove(l)
    BY <1>1, <1>12, TypeRemove
  <1>13. CASE Reset(l)
    BY <1>13, AdvanceType DEF Reset, TypeOK
  <1>14. CASE UnlockDispatch(l)
    <2>1. /\ owner' \in [List -> Thread \cup {NoOwner}]
          /\ tmp' \in [List -> Node]
          /\ fds' \in [List -> SUBSET FdNum]
      BY <1>1, <1>14 DEF UnlockDispatch, TypeOK
    <2> QED
      BY <1>1, <1>2, <1>14, <2>1, GotoType DEF UnlockDispatch, TypeOK
  <1> QED
    BY <1>3, <1>4, <1>5, <1>6, <1>7, <1>8, <1>9, <1>10, <1>11, <1>12, <1>13, <1>14
       DEF LoopStep, LockStep

LEMMA TypeStep == TypeOK /\ [Next]_vars => TypeOK'
  <1> SUFFICES ASSUME TypeOK, [Next]_vars PROVE TypeOK'
    OBVIOUS
  <1>1. ASSUME NEW k \in Calls, Call(k[1], k[2], k[3]) PROVE TypeOK'
    <2>1. /\ k[1] \in Client /\ k[1] \in Thread
          /\ k[2] \in {"add", "del"}
          /\ k[3] \in Node /\ First(k[3]) \in List
          /\ "exists" \in Labels
      BY ThreadAssumption, NamesType DEF Labels
    <2>2. op' \in [Client -> {"add", "del"}] /\ ctx' \in [Thread -> Node]
      BY <1>1, <2>1 DEF Call, TypeOK
    <2> QED
      BY <1>1, <2>1, <2>2, GotoType, StartWalkType DEF Call, links, TypeOK
  <1>2. CASE SetHalt
    BY <1>2 DEF SetHalt, links, TypeOK
  <1>3. CASE UNCHANGED vars
    BY <1>3 DEF vars, TypeOK
  <1> QED
    BY <1>1, <1>2, <1>3, TypeClientStep, TypeLoopStep DEF Next

\* No pointer of a list or of a thread ever leaves the contexts and the heads,
\* for every set of contexts and clients.
THEOREM TypeCorrect == Spec => []TypeOK
  BY TypeInit, TypeStep, PTL DEF Spec

-----------------------------------------------------------------------------
(* The mutexes *)

\* A step of thread t leaves every other thread where it is.
OnlyMoves(t) ==
    \A u \in Thread \ {t} : pc'[u] = pc[u] /\ held'[u] = held[u]

\* Three kinds of step: t neither enters nor leaves a list, t takes the mutex
\* of list l, t gives it back.
LEMMA KeepLock ==
    ASSUME TypeOK, LocksMatchThreads, NEW t \in Thread,
           OnlyMoves(t), owner' = owner,
           \A l \in List : Inside(t, l)' <=> Inside(t, l)
    PROVE  LocksMatchThreads'
  <1> SUFFICES ASSUME NEW l \in List, NEW u \in Thread
               PROVE  Inside(u, l)' <=> owner'[l] = u
    BY DEF LocksMatchThreads
  <1>1. CASE u = t
    BY <1>1 DEF LocksMatchThreads
  <1>2. CASE u # t
    BY <1>2 DEF LocksMatchThreads, OnlyMoves, Inside
  <1> QED
    BY <1>1, <1>2

LEMMA TakeLock ==
    ASSUME TypeOK, LocksMatchThreads, NEW t \in Thread, NEW l \in List,
           OnlyMoves(t), owner[l] = NoOwner, owner' = [owner EXCEPT ![l] = t],
           \A k \in List : Inside(t, k)' <=> k = l \/ Inside(t, k)
    PROVE  LocksMatchThreads'
  <1> SUFFICES ASSUME NEW k \in List, NEW u \in Thread
               PROVE  Inside(u, k)' <=> owner'[k] = u
    BY DEF LocksMatchThreads
  <1>1. owner'[k] = IF k = l THEN t ELSE owner[k]
    BY DEF TypeOK
  <1>2. CASE u = t
    BY <1>1, <1>2 DEF LocksMatchThreads
  <1>3. CASE u # t
    <2>1. Inside(u, k)' <=> Inside(u, k)
      BY <1>3 DEF OnlyMoves, Inside
    <2> QED
      BY <1>1, <1>3, <2>1, ThreadAssumption DEF LocksMatchThreads
  <1> QED
    BY <1>2, <1>3

LEMMA GiveLock ==
    ASSUME TypeOK, LocksMatchThreads, NEW t \in Thread, NEW l \in List,
           OnlyMoves(t), Inside(t, l), owner' = [owner EXCEPT ![l] = NoOwner],
           \A k \in List : Inside(t, k)' <=> k # l /\ Inside(t, k)
    PROVE  LocksMatchThreads'
  <1> SUFFICES ASSUME NEW k \in List, NEW u \in Thread
               PROVE  Inside(u, k)' <=> owner'[k] = u
    BY DEF LocksMatchThreads
  <1>1. owner'[k] = IF k = l THEN NoOwner ELSE owner[k]
    BY DEF TypeOK
  <1>2. owner[l] = t /\ u # NoOwner
    BY ThreadAssumption DEF LocksMatchThreads
  <1>3. CASE u = t
    BY <1>1, <1>2, <1>3 DEF LocksMatchThreads
  <1>4. CASE u # t
    <2>1. Inside(u, k)' <=> Inside(u, k)
      BY <1>4 DEF OnlyMoves, Inside
    <2> QED
      BY <1>1, <1>2, <1>4, <2>1 DEF LocksMatchThreads
  <1> QED
    BY <1>3, <1>4

\* The label a walk leaves behind.
LEMMA NextListLabel ==
    ASSUME TypeOK, NEW t \in Thread, NEW c, NEW label, NextList(t, c, label)
    PROVE  pc' = pc \/ pc' = [pc EXCEPT ![t] = label]
  BY DEF NextList, EndWalk, Goto

LEMMA LockClientStep ==
    ASSUME TypeOK, LocksMatchThreads, NEW t \in Client, ClientStep(t) \/ Lock(t)
    PROVE  LocksMatchThreads'
  <1>1. t \in Thread /\ t \notin List /\ held[t] \in List
    BY ThreadAssumption, NamesType DEF TypeOK
  <1>2. pc \in [Thread -> Labels] /\ held \in [Thread -> List]
    BY DEF TypeOK
  <1>3. CASE Exists(t)
    <2>1. /\ pc' = pc \/ \E label \in {"refused", "added", "lock", "absent"} :
                             pc' = [pc EXCEPT ![t] = label]
          /\ held' = held \/ \E l : held' = [held EXCEPT ![t] = l]
          /\ owner' = owner
          /\ pc[t] = "exists"
      BY <1>3 DEF Exists, ExistsReturns, EndWalk, StepOn, Goto
    <2>2. pc'[t] \in {"exists", "refused", "added", "lock", "absent"} /\ OnlyMoves(t)
      BY <1>1, <1>2, <2>1 DEF OnlyMoves
    <2> QED
      BY <1>1, <2>1, <2>2, KeepLock DEF Inside
  <1>4. CASE Lock(t)
    <2>1. /\ pc' = [pc EXCEPT ![t] = IF op[t] = "add" THEN "insert" ELSE "remove"]
          /\ held' = held /\ owner' = [owner EXCEPT ![held[t]] = t]
          /\ owner[held[t]] = NoOwner /\ pc[t] = "lock"
      BY <1>4 DEF Lock, Goto
    <2>2. pc'[t] \in {"insert", "remove"} /\ OnlyMoves(t)
      BY <1>1, <1>2, <2>1 DEF OnlyMoves
    <2>3. \A k \in List : Inside(t, k)' <=> k = held[t] \/ Inside(t, k)
      BY <1>1, <2>1, <2>2 DEF Inside
    <2> QED
      BY <1>1, <2>1, <2>2, <2>3, TakeLock
  <1>5. CASE Insert(t)
    <2>1. /\ pc' = pc \/ pc' = [pc EXCEPT ![t] = "unlock"]
          /\ held' = held /\ owner' = owner /\ pc[t] = "insert"
      BY <1>1, <1>5, NextListLabel DEF Insert, EndWalk, StepOn, Goto
    <2>2. pc'[t] \in {"insert", "unlock"} /\ OnlyMoves(t)
      BY <1>1, <1>2, <2>1 DEF OnlyMoves
    <2> QED
      BY <1>1, <2>1, <2>2, KeepLock DEF Inside
  <1>6. CASE Remove(t)
    <2>1. /\ pc' = pc \/ pc' = [pc EXCEPT ![t] = "unlock"]
          /\ held' = held /\ owner' = owner /\ pc[t] = "remove"
      BY <1>1, <1>6, NextListLabel DEF Remove, EndWalk, StepOn, Goto
    <2>2. pc'[t] \in {"remove", "unlock"} /\ OnlyMoves(t)
      BY <1>1, <1>2, <2>1 DEF OnlyMoves
    <2> QED
      BY <1>1, <2>1, <2>2, KeepLock DEF Inside
  <1>7. CASE Unlock(t)
    <2>1. /\ \E label \in {"lock", "added", "deleted"} : pc' = [pc EXCEPT ![t] = label]
          /\ held' = held \/ held' = [held EXCEPT ![t] = "W"]
          /\ owner' = [owner EXCEPT ![held[t]] = NoOwner] /\ pc[t] = "unlock"
      BY <1>7 DEF Unlock, Goto
    <2>2. pc'[t] \in {"lock", "added", "deleted"} /\ OnlyMoves(t)
      BY <1>1, <1>2, <2>1 DEF OnlyMoves
    <2>3. Inside(t, held[t]) /\ \A k \in List : Inside(t, k)' <=> k # held[t] /\ Inside(t, k)
      BY <1>1, <2>1, <2>2 DEF Inside
    <2> QED
      BY <1>1, <2>1, <2>2, <2>3, GiveLock
  <1>8. CASE Return(t)
    <2>1. /\ pc' = [pc EXCEPT ![t] = "idle"] /\ held' = [held EXCEPT ![t] = "R"]
          /\ owner' = owner /\ pc[t] \in {"added", "refused", "deleted", "absent"}
      BY <1>8 DEF Return, Goto
    <2>2. pc'[t] = "idle" /\ OnlyMoves(t)
      BY <1>1, <1>2, <2>1 DEF OnlyMoves
    <2> QED
      BY <1>1, <2>1, <2>2, KeepLock DEF Inside
  <1> QED
    BY <1>3, <1>4, <1>5, <1>6, <1>7, <1>8 DEF ClientStep

LEMMA LockLoopStep ==
    ASSUME TypeOK, LocksMatchThreads, NEW l \in List, LoopStep(l) \/ LockStep(l)
    PROVE  LocksMatchThreads'
  <1> DEFINE outside == {"halt", "done", "lockScan", "select", "lockDispatch"}
             inside == {"scan", "dispatch", "handler", "remove", "reset"}
  <1>1. l \in Thread /\ pc \in [Thread -> Labels] /\ held \in [Thread -> List]
    BY NamesType DEF TypeOK
  <1>2. \A k \in List : Inside(l, k) <=> k = l /\ pc[l] \in inside
    BY DEF Inside
  <1>3. \A k \in List : Inside(l, k)' <=> k = l /\ pc'[l] \in inside
    BY DEF Inside
  <1> HIDE DEF inside, outside
  <1>4. CASE CheckHalt(l) \/ SelectFails(l) \/ SelectReturns(l)
    <2>1. /\ \E label \in outside : pc' = [pc EXCEPT ![l] = label]
          /\ pc[l] \in outside /\ owner' = owner /\ held' = held
      BY <1>4 DEF CheckHalt, SelectFails, SelectReturns, Goto, outside
    <2>2. pc'[l] \in outside /\ OnlyMoves(l)
      BY <1>1, <2>1 DEF OnlyMoves
    <2>3. outside \cap inside = {}
      BY DEF inside, outside
    <2> QED
      BY <1>1, <1>2, <1>3, <2>1, <2>2, <2>3, KeepLock
  <1>5. CASE Scan(l) \/ Dispatch(l) \/ HandlerReturns(l) \/ Remove(l) \/ Reset(l)
    <2>1. /\ pc' = pc \/ \E label \in inside : pc' = [pc EXCEPT ![l] = label]
          /\ pc[l] \in inside /\ owner' = owner /\ held' = held
      <3>1. CASE Remove(l)
        BY <1>1, <3>1, NextListLabel DEF Remove, EndWalk, StepOn, Goto, inside
      <3>2. CASE Scan(l)
        BY <3>2 DEF Scan, StepOn, inside
      <3>3. CASE Dispatch(l) \/ HandlerReturns(l) \/ Reset(l)
        BY <3>3 DEF Dispatch, HandlerReturns, Reset, Advance, Goto, inside
      <3> QED
        BY <1>5, <3>1, <3>2, <3>3
    <2>2. pc'[l] \in inside /\ OnlyMoves(l)
      BY <1>1, <2>1 DEF OnlyMoves
    <2> QED
      BY <1>1, <1>2, <1>3, <2>1, <2>2, KeepLock
  <1>6. CASE LockScan(l) \/ LockDispatch(l)
    <2>1. /\ \E label \in inside : pc' = [pc EXCEPT ![l] = label]
          /\ owner[l] = NoOwner /\ owner' = [owner EXCEPT ![l] = l] /\ held' = held
          /\ pc[l] \in outside
      BY <1>6 DEF LockScan, LockDispatch, Goto, inside, outside
    <2>2. pc'[l] \in inside /\ OnlyMoves(l)
      BY <1>1, <2>1 DEF OnlyMoves
    <2>3. outside \cap inside = {}
      BY DEF inside, outside
    <2>4. \A k \in List : Inside(l, k)' <=> k = l \/ Inside(l, k)
      BY <1>2, <1>3, <2>1, <2>2, <2>3
    <2> QED
      BY <1>1, <2>1, <2>2, <2>4, TakeLock
  <1>7. CASE UnlockScan(l) \/ UnlockDispatch(l)
    <2>1. /\ \E label \in outside : pc' = [pc EXCEPT ![l] = label]
          /\ owner' = [owner EXCEPT ![l] = NoOwner] /\ held' = held
          /\ pc[l] \in inside
      BY <1>7 DEF UnlockScan, UnlockDispatch, EndWalk, Goto, inside, outside
    <2>2. pc'[l] \in outside /\ OnlyMoves(l)
      BY <1>1, <2>1 DEF OnlyMoves
    <2>3. outside \cap inside = {}
      BY DEF inside, outside
    <2>4. Inside(l, l) /\ \A k \in List : Inside(l, k)' <=> k # l /\ Inside(l, k)
      BY <1>2, <1>3, <2>1, <2>2, <2>3
    <2> QED
      BY <1>1, <2>1, <2>2, <2>4, GiveLock
  <1> QED
    BY <1>4, <1>5, <1>6, <1>7 DEF LoopStep, LockStep

LEMMA LockInit == Init => LocksMatchThreads
  BY ThreadAssumption DEF Init, LocksMatchThreads, Inside, Thread, List

LEMMA LockNext == TypeOK /\ LocksMatchThreads /\ [Next]_vars => LocksMatchThreads'
  <1> SUFFICES ASSUME TypeOK, LocksMatchThreads, [Next]_vars PROVE LocksMatchThreads'
    OBVIOUS
  <1>1. ASSUME NEW k \in Calls, Call(k[1], k[2], k[3]) PROVE LocksMatchThreads'
    <2>1. k[1] \in Client /\ k[1] \in Thread /\ k[1] \notin List
      BY ThreadAssumption, NamesType
    <2>2. /\ pc' = [pc EXCEPT ![k[1]] = "exists"] /\ held' = held /\ owner' = owner
          /\ pc[k[1]] = "idle"
      BY <1>1 DEF Call, Goto
    <2>3. pc'[k[1]] = "exists" /\ OnlyMoves(k[1])
      BY <2>1, <2>2 DEF OnlyMoves, TypeOK
    <2> QED
      BY <2>1, <2>2, <2>3, KeepLock DEF Inside
  <1>2. CASE SetHalt
    BY <1>2 DEF SetHalt, LocksMatchThreads, Inside
  <1>3. CASE UNCHANGED vars
    BY <1>3 DEF vars, LocksMatchThreads, Inside
  <1> QED
    BY <1>1, <1>2, <1>3, LockClientStep, LockLoopStep DEF Next

\* For every set of contexts and clients, a list's mutex is held exactly by the
\* thread between its lock and its unlock of that list: at most one thread at a
\* time reads or alters a list under its lock, and no path forgets the unlock.
THEOREM LocksCorrect == Spec => []LocksMatchThreads
  <1>1. TypeOK /\ LocksMatchThreads /\ [Next]_vars
            => (TypeOK /\ LocksMatchThreads)'
    BY TypeStep, LockNext
  <1> QED
    BY TypeInit, LockInit, <1>1, PTL DEF Spec

-----------------------------------------------------------------------------
(* Lists are altered under their lock *)

\* Every context the platform registers has one poll bit: a reader or a writer,
\* not both.  With both, add_source_ctx_unlocked runs on from the readers to the
\* writers, whose lock its caller does not hold.
OnePollBit == \A c \in Ctx : ~({"R", "W"} \subseteq Kind[c])

\* A list links, and a thread inside it points at, contexts of that list only;
\* what a client locks is the list of its context.
NodesOfKind ==
    \A l \in List, n \in Node :
        nxt[l][n] = n \/ nxt[l][n] = ListHead \/ l \in Kind[nxt[l][n]]
LoopsAtKind ==
    \A l \in List :
        /\ held[l] = l
        /\ ctx[l] # ListHead => l \in Kind[ctx[l]]
        /\ tmp[l] # ListHead => l \in Kind[tmp[l]]
        /\ pc[l] \in {"handler", "remove"} => ctx[l] # ListHead
ClientsAtKind ==
    \A t \in Client :
        /\ pc[t] = "exists" => ctx[t] \in Ctx
        /\ pc[t] \in {"lock", "insert", "remove", "unlock"} =>
              ctx[t] \in Ctx /\ held[t] \in Kind[ctx[t]]
WalksAtKind ==
    \A t \in Thread :
        pc[t] \in {"insert", "remove"} =>
            /\ walk[t] = held[t]
            /\ ptr[t] # ListHead => walk[t] \in Kind[ptr[t]]

KindInv == NodesOfKind /\ LoopsAtKind /\ ClientsAtKind /\ WalksAtKind

SafeInv == TypeOK /\ LocksMatchThreads /\ KindInv

\* A context is tried on one list only.
LEMMA OneList ==
    ASSUME OnePollBit, NEW c \in Ctx, NEW l \in List, l \in Kind[c]
    PROVE  First(c) = l /\ ~Second(l, c)
  BY DEF OnePollBit, First, Second, List

\* The node ahead of a walk that alters list walk[t].
LEMMA AheadKind ==
    ASSUME TypeOK, KindInv, NEW t \in Thread, pc[t] \in {"insert", "remove"},
           Ahead(t) # ListHead
    PROVE  Ahead(t) \in Ctx /\ walk[t] \in Kind[Ahead(t)]
  <1>1. walk[t] \in List /\ ptr[t] \in Node /\ Ahead(t) \in Node
    BY AheadType DEF TypeOK
  <1>2. Ahead(t) = ptr[t] \/ walk[t] \in Kind[Ahead(t)]
    BY <1>1 DEF Ahead, KindInv, NodesOfKind
  <1> QED
    BY <1>1, <1>2 DEF Node, KindInv, WalksAtKind

\* The context of a thread that alters a list is of that list's kind.
LEMMA AlterKind ==
    ASSUME TypeOK, KindInv, NEW t \in Thread, pc[t] \in {"insert", "remove"},
           t \in List => pc[t] = "remove"
    PROVE  ctx[t] \in Ctx /\ walk[t] \in Kind[ctx[t]]
  BY DEF TypeOK, Thread, Node, KindInv, LoopsAtKind, ClientsAtKind, WalksAtKind

LEMMA LinkBeforeKind ==
    ASSUME TypeOK, NodesOfKind, NEW l \in List, NEW c \in Ctx, NEW n \in Node,
           l \in Kind[c], n = ListHead \/ l \in Kind[n], LinkBefore(l, c, n)
    PROVE  NodesOfKind'
  <1> SUFFICES ASSUME NEW k \in List, NEW m \in Node
               PROVE  nxt'[k][m] = m \/ nxt'[k][m] = ListHead \/ k \in Kind[nxt'[k][m]]
    BY DEF NodesOfKind
  <1>1. prv[l][n] \in Node /\ c \in Node
    BY DEF TypeOK, Node
  <1>2. nxt'[k][m] = nxt[k][m] \/ (k = l /\ nxt'[k][m] \in {n, c})
    BY <1>1 DEF LinkBefore, TypeOK
  <1> QED
    BY <1>2 DEF NodesOfKind

LEMMA UnlinkKind ==
    ASSUME TypeOK, NodesOfKind, NEW l \in List, NEW c \in Ctx, l \in Kind[c], Unlink(l, c)
    PROVE  NodesOfKind'
  <1> SUFFICES ASSUME NEW k \in List, NEW m \in Node
               PROVE  nxt'[k][m] = m \/ nxt'[k][m] = ListHead \/ k \in Kind[nxt'[k][m]]
    BY DEF NodesOfKind
  <1>1. prv[l][c] \in Node /\ c \in Node
    BY DEF TypeOK, Node
  <1>2. nxt'[k][m] = nxt[k][m] \/ (k = l /\ nxt'[k][m] \in {nxt[l][c], c})
    BY <1>1 DEF Unlink, TypeOK
  <1> QED
    BY <1>1, <1>2 DEF NodesOfKind

LEMMA KindInit == Init => KindInv
  BY DEF Init, KindInv, NodesOfKind, LoopsAtKind, ClientsAtKind, WalksAtKind, Thread, List

\* A step of thread t that leaves the links alone disturbs only what is said of t.
OthersStay(t) ==
    /\ OnlyMoves(t)
    /\ \A u \in Thread \ {t} : ctx'[u] = ctx[u] /\ walk'[u] = walk[u] /\ ptr'[u] = ptr[u]

LEMMA ClientKind ==
    ASSUME TypeOK, KindInv, NEW t \in Client, OthersStay(t), tmp' = tmp, NodesOfKind',
           pc'[t] = "exists" => ctx'[t] \in Ctx,
           pc'[t] \in {"lock", "insert", "remove", "unlock"} =>
               ctx'[t] \in Ctx /\ held'[t] \in Kind[ctx'[t]],
           pc'[t] \in {"insert", "remove"} =>
               walk'[t] = held'[t] /\ (ptr'[t] # ListHead => walk'[t] \in Kind[ptr'[t]])
    PROVE  KindInv'
  <1>1. t \in Thread /\ t \notin List
    BY ThreadAssumption, NamesType
  <1>2. LoopsAtKind'
    BY <1>1, NamesType DEF OthersStay, OnlyMoves, KindInv, LoopsAtKind
  <1>3. ClientsAtKind'
    BY <1>1, NamesType DEF OthersStay, OnlyMoves, KindInv, ClientsAtKind
  <1>4. WalksAtKind'
    BY <1>1 DEF OthersStay, OnlyMoves, KindInv, WalksAtKind
  <1> QED
    BY <1>2, <1>3, <1>4 DEF KindInv

LEMMA LoopKind ==
    ASSUME TypeOK, KindInv, NEW l \in List, OthersStay(l), held' = held, NodesOfKind',
           \A k \in List \ {l} : tmp'[k] = tmp[k],
           ctx'[l] # ListHead => l \in Kind[ctx'[l]],
           tmp'[l] # ListHead => l \in Kind[tmp'[l]],
           pc'[l] \in {"handler", "remove"} => ctx'[l] # ListHead,
           pc'[l] # "insert",
           pc'[l] = "remove" =>
               walk'[l] = l /\ (ptr'[l] # ListHead => walk'[l] \in Kind[ptr'[l]])
    PROVE  KindInv'
  <1>1. l \in Thread /\ l \notin Client
    BY ThreadAssumption, NamesType
  <1>2. LoopsAtKind'
    BY <1>1, NamesType DEF OthersStay, OnlyMoves, KindInv, LoopsAtKind
  <1>3. ClientsAtKind'
    BY <1>1, NamesType DEF OthersStay, OnlyMoves, KindInv, ClientsAtKind
  <1>4. WalksAtKind'
    BY <1>1 DEF OthersStay, OnlyMoves, KindInv, WalksAtKind, LoopsAtKind
  <1> QED
    BY <1>2, <1>3, <1>4 DEF KindInv

LEMMA KindExists ==
    ASSUME TypeOK, KindInv, NEW t \in Client, Exists(t)
    PROVE  KindInv'
  <1>1. t \in Thread /\ ctx[t] \in Ctx /\ pc[t] = "exists" /\ ctx' = ctx /\ links' = links
    BY NamesType DEF Exists, KindInv, ClientsAtKind
  <1>2. NodesOfKind'
    BY <1>1 DEF links, KindInv, NodesOfKind
  <1>3. ASSUME NEW found \in BOOLEAN, ExistsReturns(t, ctx[t], found),
               found => Lists(ctx[t]) # {}
        PROVE  KindInv'
    <2>1. /\ held' = [held EXCEPT ![t] = First(ctx[t])]
          /\ \E label \in {"refused", "added", "lock", "absent"} :
                 /\ pc' = [pc EXCEPT ![t] = label]
                 /\ label = "lock" => Lists(ctx[t]) # {}
      BY <1>3 DEF ExistsReturns, EndWalk, Goto
    <2>2. OthersStay(t) /\ tmp' = tmp
      BY <1>1, <1>3, <2>1 DEF Exists, ExistsReturns, EndWalk, StartWalk, OthersStay, OnlyMoves, TypeOK
    <2>3. pc'[t] \in {"refused", "added", "lock", "absent"}
      BY <1>1, <2>1 DEF TypeOK
    <2>4. pc'[t] = "lock" => held'[t] \in Kind[ctx[t]]
      BY <1>1, <2>1 DEF TypeOK, First, Lists, List
    <2> QED
      BY <1>1, <1>2, <2>2, <2>3, <2>4, ClientKind
  <1>4. CASE /\ (StartWalk(t, "W") /\ UNCHANGED pc) \/ StepOn(t)
             /\ UNCHANGED held
    <2>1. OthersStay(t) /\ tmp' = tmp /\ pc'[t] = "exists"
      BY <1>1, <1>4 DEF Exists, StepOn, StartWalk, OthersStay, OnlyMoves, TypeOK
    <2> QED
      BY <1>1, <1>2, <2>1, ClientKind
  <1> QED
    BY <1>3, <1>4 DEF Exists

LEMMA KindInsert ==
    ASSUME OnePollBit, TypeOK, KindInv, NEW t \in Client, Insert(t)
    PROVE  KindInv'
  <1>1. /\ t \in Thread /\ t \notin List /\ pc[t] = "insert"
        /\ ctx' = ctx /\ held' = held /\ tmp' = tmp
        /\ walk[t] \in List /\ Ahead(t) \in Node
    BY ThreadAssumption, NamesType, AheadType DEF Insert, TypeOK
  <1>2. ctx[t] \in Ctx /\ walk[t] \in Kind[ctx[t]] /\ held[t] \in Kind[ctx[t]]
    BY <1>1, AlterKind DEF KindInv, ClientsAtKind
  <1>3. Ahead(t) # ListHead => walk[t] \in Kind[Ahead(t)]
    BY <1>1, AheadKind
  <1>4. NodesOfKind'
    <2>1. CASE UNCHANGED links
      BY <2>1 DEF links, KindInv, NodesOfKind
    <2>2. CASE LinkBefore(walk[t], ctx[t], Ahead(t))
      BY <1>1, <1>2, <1>3, <2>2, LinkBeforeKind DEF KindInv
    <2> QED
      BY <2>1, <2>2 DEF Insert
  <1>5. ~Second(walk[t], ctx[t])
    BY <1>1, <1>2, OneList
  <1>6. \/ EndWalk(t, "unlock")
        \/ Ahead(t) # ListHead /\ StepOn(t)
    BY <1>5 DEF Insert, NextList
  <1>7. CASE EndWalk(t, "unlock")
    <2>1. OthersStay(t) /\ pc'[t] = "unlock"
      BY <1>1, <1>7 DEF EndWalk, StartWalk, Goto, OthersStay, OnlyMoves, TypeOK
    <2> QED
      BY <1>1, <1>2, <1>4, <2>1, ClientKind
  <1>8. CASE Ahead(t) # ListHead /\ StepOn(t)
    <2>1. /\ OthersStay(t) /\ pc'[t] = "insert" /\ walk' = walk /\ ptr'[t] = Ahead(t)
          /\ walk[t] = held[t]
      BY <1>1, <1>8 DEF StepOn, OthersStay, OnlyMoves, TypeOK, KindInv, WalksAtKind
    <2> QED
      BY <1>1, <1>2, <1>3, <1>4, <2>1, ClientKind
  <1> QED
    BY <1>6, <1>7, <1>8

LEMMA KindRemove ==
    ASSUME OnePollBit, TypeOK, KindInv, NEW t \in Thread, Remove(t)
    PROVE  KindInv'
  <1> DEFINE after == IF t \in List THEN "reset" ELSE "unlock"
  <1>1. /\ pc[t] = "remove" /\ ctx' = ctx /\ held' = held /\ tmp' = tmp
        /\ walk[t] \in List /\ Ahead(t) \in Node
        /\ walk[t] = held[t]
    BY AheadType DEF Remove, TypeOK, KindInv, WalksAtKind
  <1>2. ctx[t] \in Ctx /\ walk[t] \in Kind[ctx[t]] /\ held[t] \in Kind[ctx[t]]
    BY <1>1, AlterKind
  <1>3. Ahead(t) # ListHead => walk[t] \in Kind[Ahead(t)]
    BY <1>1, AheadKind
  <1>4. NodesOfKind'
    <2>1. CASE UNCHANGED links
      BY <2>1 DEF links, KindInv, NodesOfKind
    <2>2. CASE Unlink(walk[t], ctx[t])
      BY <1>1, <1>2, <2>2, UnlinkKind DEF KindInv
    <2> QED
      BY <2>1, <2>2 DEF Remove
  <1>5. ~Second(walk[t], ctx[t])
    BY <1>1, <1>2, OneList
  <1>6. EndWalk(t, after) \/ (Ahead(t) # ListHead /\ StepOn(t))
    BY <1>5 DEF Remove, NextList
  <1>7. OthersStay(t)
    BY <1>1, <1>6 DEF EndWalk, StartWalk, StepOn, Goto, OthersStay, OnlyMoves, TypeOK
  <1>8. \/ pc'[t] = after
        \/ /\ pc'[t] = "remove" /\ walk'[t] = walk[t]
           /\ ptr'[t] # ListHead => walk[t] \in Kind[ptr'[t]]
    BY <1>1, <1>3, <1>6 DEF EndWalk, StepOn, Goto, TypeOK
  <1>9. CASE t \in List
    <2>1. held[t] = t /\ ctx[t] # ListHead
      BY <1>1, <1>9 DEF KindInv, LoopsAtKind
    <2>2. ctx'[t] # ListHead => t \in Kind[ctx'[t]]
      BY <1>1, <1>9 DEF KindInv, LoopsAtKind
    <2>3. tmp'[t] # ListHead => t \in Kind[tmp'[t]]
      BY <1>1, <1>9 DEF KindInv, LoopsAtKind
    <2> QED
      BY <1>1, <1>4, <1>7, <1>8, <1>9, <2>1, <2>2, <2>3, LoopKind
  <1>10. CASE t \notin List
    <2>1. t \in Client
      BY <1>10 DEF Thread
    <2> QED
      BY <1>1, <1>2, <1>4, <1>7, <1>8, <1>10, <2>1, ClientKind
  <1> QED
    BY <1>9, <1>10

LEMMA KindClientStep ==
    ASSUME OnePollBit, TypeOK, KindInv, NEW t \in Client, ClientStep(t) \/ Lock(t)
    PROVE  KindInv'
  <1>1. t \in Thread /\ t \notin List
    BY ThreadAssumption, NamesType
  <1>2. CASE Lock(t)
    <2>1. /\ pc[t] = "lock" /\ ctx' = ctx /\ held' = held /\ tmp' = tmp /\ links' = links
          /\ ctx[t] \in Ctx /\ held[t] \in List /\ held[t] \in Kind[ctx[t]]
      BY <1>1, <1>2 DEF Lock, KindInv, ClientsAtKind, TypeOK
    <2>2. First(ctx[t]) = held[t]
      BY <2>1, OneList
    <2>3. OthersStay(t) /\ walk'[t] = held[t] /\ ptr'[t] = ListHead
      BY <1>1, <1>2, <2>1, <2>2 DEF Lock, StartWalk, Goto, OthersStay, OnlyMoves, TypeOK
    <2>4. pc'[t] \in {"insert", "remove"}
      BY <1>1, <1>2 DEF Lock, Goto, TypeOK
    <2>5. NodesOfKind'
      BY <2>1 DEF links, KindInv, NodesOfKind
    <2> QED
      BY <1>1, <2>1, <2>3, <2>4, <2>5, ClientKind
  <1>3. CASE Unlock(t)
    <2>1. /\ pc[t] = "unlock" /\ ctx' = ctx /\ tmp' = tmp /\ links' = links
          /\ ctx[t] \in Ctx /\ held[t] \in List /\ held[t] \in Kind[ctx[t]]
      BY <1>1, <1>3 DEF Unlock, KindInv, ClientsAtKind, TypeOK
    <2>2. ~Second(held[t], ctx[t])
      BY <2>1, OneList
    <2>3. OthersStay(t) /\ pc'[t] \in {"added", "deleted"}
      BY <1>1, <1>3, <2>2 DEF Unlock, Goto, OthersStay, OnlyMoves, TypeOK
    <2>4. NodesOfKind'
      BY <2>1 DEF links, KindInv, NodesOfKind
    <2> QED
      BY <2>1, <2>3, <2>4, ClientKind
  <1>4. CASE Return(t)
    <2>1. OthersStay(t) /\ pc'[t] = "idle" /\ tmp' = tmp /\ links' = links
      BY <1>1, <1>4 DEF Return, Goto, OthersStay, OnlyMoves, TypeOK
    <2>2. NodesOfKind'
      BY <2>1 DEF links, KindInv, NodesOfKind
    <2> QED
      BY <2>1, <2>2, ClientKind
  <1> QED
    BY <1>1, <1>2, <1>3, <1>4, KindExists, KindInsert, KindRemove DEF ClientStep

LEMMA KindLoopStep ==
    ASSUME OnePollBit, TypeOK, KindInv, NEW l \in List, LoopStep(l) \/ LockStep(l)
    PROVE  KindInv'
  <1>1. /\ l \in Thread /\ held[l] = l /\ tmp[l] \in Node
        /\ ctx[l] # ListHead => l \in Kind[ctx[l]]
        /\ tmp[l] # ListHead => l \in Kind[tmp[l]]
    BY NamesType DEF TypeOK, KindInv, LoopsAtKind
  <1>2. ASSUME links' = links, held' = held, OthersStay(l), ctx' = ctx,
               tmp' = tmp \/ tmp' = [tmp EXCEPT ![l] = ListHead],
               pc'[l] \notin {"handler", "remove", "insert"}
        PROVE  KindInv'
    <2>1. NodesOfKind'
      BY <1>2 DEF links, KindInv, NodesOfKind
    <2>2. \A k \in List \ {l} : tmp'[k] = tmp[k]
      BY <1>2 DEF TypeOK
    <2>3. tmp'[l] = tmp[l] \/ tmp'[l] = ListHead
      BY <1>2 DEF TypeOK
    <2> QED
      BY <1>1, <1>2, <2>1, <2>2, <2>3, LoopKind
  <1>3. CASE CheckHalt(l) \/ LockScan(l) \/ Scan(l) \/ UnlockScan(l) \/ SelectFails(l)
             \/ SelectReturns(l) \/ UnlockDispatch(l)
    <2>1. /\ links' = links /\ held' = held /\ ctx' = ctx
          /\ tmp' = tmp \/ tmp' = [tmp EXCEPT ![l] = ListHead]
      BY <1>3 DEF CheckHalt, LockScan, Scan, UnlockScan, SelectFails, SelectReturns,
                  UnlockDispatch
    <2>2. pc'[l] \notin {"handler", "remove", "insert"}
      BY <1>1, <1>3
         DEF CheckHalt, LockScan, Scan, UnlockScan, SelectFails, SelectReturns,
             UnlockDispatch, EndWalk, StepOn, Goto, TypeOK
    <2>3. OthersStay(l)
      BY <1>1, <1>3
         DEF CheckHalt, LockScan, Scan, UnlockScan, SelectFails, SelectReturns,
             UnlockDispatch, EndWalk, StepOn, StartWalk, Goto, OthersStay, OnlyMoves, TypeOK
    <2> QED
      BY <1>2, <2>1, <2>2, <2>3
  <1>4. ASSUME NEW n \in Node, MoveTo(l, n), n # ListHead => l \in Kind[n], links' = links,
               held' = held, pc' = [pc EXCEPT ![l] = "dispatch"], UNCHANGED <<walk, ptr>>
        PROVE  KindInv'
    <2>1. NodesOfKind'
      BY <1>4 DEF links, KindInv, NodesOfKind
    <2>2. ctx'[l] = n /\ tmp'[l] = nxt[l][n] /\ pc'[l] = "dispatch"
      BY <1>1, <1>4 DEF MoveTo, TypeOK
    <2>3. \A k \in List \ {l} : tmp'[k] = tmp[k]
      BY <1>4 DEF MoveTo, TypeOK
    <2>4. nxt[l][n] # ListHead => l \in Kind[nxt[l][n]]
      BY <1>4 DEF KindInv, NodesOfKind
    <2>5. OthersStay(l)
      BY <1>1, <1>4 DEF MoveTo, OthersStay, OnlyMoves, TypeOK
    <2> QED
      BY <1>4, <2>1, <2>2, <2>3, <2>4, <2>5, LoopKind
  <1>5. CASE LockDispatch(l)
    <2>1. nxt[l][ListHead] \in Node
      BY NamesType DEF TypeOK
    <2>2. nxt[l][ListHead] # ListHead => l \in Kind[nxt[l][ListHead]]
      BY NamesType DEF KindInv, NodesOfKind
    <2> QED
      BY <1>4, <1>5, <2>1, <2>2 DEF LockDispatch, Goto
  <1>6. CASE Reset(l)
    BY <1>1, <1>4, <1>6 DEF Reset, Advance, Goto
  <1>7. CASE Dispatch(l)
    <2>1. CASE Advance(l)
      BY <1>1, <1>4, <1>7, <2>1 DEF Dispatch, Advance, Goto
    <2>2. CASE Goto(l, "handler") /\ UNCHANGED <<ctx, tmp>>
      <3>1. links' = links /\ held' = held /\ ctx[l] # ListHead
        BY <1>7 DEF Dispatch
      <3>2. NodesOfKind'
        BY <3>1 DEF links, KindInv, NodesOfKind
      <3>3. OthersStay(l) /\ pc'[l] = "handler"
        BY <1>1, <1>7, <2>2 DEF Dispatch, Goto, OthersStay, OnlyMoves, TypeOK
      <3> QED
        BY <1>1, <2>2, <3>1, <3>2, <3>3, LoopKind
    <2> QED
      BY <1>7, <2>1, <2>2 DEF Dispatch
  <1>8. CASE HandlerReturns(l)
    <2>1. /\ links' = links /\ held' = held /\ UNCHANGED <<ctx, tmp>>
          /\ ctx[l] # ListHead
      BY <1>8 DEF HandlerReturns, KindInv, LoopsAtKind
    <2>2. ctx[l] \in Ctx /\ First(ctx[l]) = l
      BY <1>1, <2>1, OneList DEF TypeOK, Node
    <2>3. NodesOfKind'
      BY <2>1 DEF links, KindInv, NodesOfKind
    <2>4. OthersStay(l)
      BY <1>1, <1>8 DEF HandlerReturns, StartWalk, Goto, OthersStay, OnlyMoves, TypeOK
    <2>5. \/ pc'[l] = "reset"
          \/ pc'[l] = "remove" /\ walk'[l] = l /\ ptr'[l] = ListHead
      BY <1>1, <1>8, <2>2 DEF HandlerReturns, StartWalk, Goto, TypeOK
    <2> QED
      BY <1>1, <2>1, <2>3, <2>4, <2>5, LoopKind
  <1>9. CASE Remove(l)
    BY <1>1, <1>9, KindRemove
  <1> QED
    BY <1>3, <1>5, <1>6, <1>7, <1>8, <1>9 DEF LoopStep, LockStep

LEMMA KindNext ==
    ASSUME OnePollBit, TypeOK, KindInv, [Next]_vars
    PROVE  KindInv'
  <1>1. ASSUME NEW k \in Calls, Call(k[1], k[2], k[3]) PROVE KindInv'
    <2>1. k[1] \in Client /\ k[1] \in Thread /\ k[1] \notin List /\ k[3] \in Ctx
      BY ThreadAssumption, NamesType
    <2>2. OthersStay(k[1]) /\ pc'[k[1]] = "exists" /\ ctx'[k[1]] = k[3]
      BY <1>1, <2>1 DEF Call, StartWalk, Goto, OthersStay, OnlyMoves, TypeOK
    <2>3. NodesOfKind' /\ tmp' = tmp
      BY <1>1 DEF Call, links, KindInv, NodesOfKind
    <2> QED
      BY <2>1, <2>2, <2>3, ClientKind
  <1>2. CASE SetHalt
    BY <1>2
       DEF SetHalt, links, KindInv, NodesOfKind, LoopsAtKind, ClientsAtKind, WalksAtKind
  <1>3. CASE UNCHANGED vars
    BY <1>3 DEF vars, KindInv, NodesOfKind, LoopsAtKind, ClientsAtKind, WalksAtKind
  <1> QED
    BY <1>1, <1>2, <1>3, KindClientStep, KindLoopStep DEF Next

LEMMA SafeInvNext ==
    ASSUME OnePollBit
    PROVE  SafeInv /\ [Next]_vars => SafeInv'
  BY TypeStep, LockNext, KindNext DEF SafeInv

\* The two actions that alter links alter those of list walk[t] alone.
LEMMA AlterOneList ==
    ASSUME TypeOK, NEW t \in Thread, NEW l \in List,
           (t \in Client /\ Insert(t)) \/ Remove(t),
           <<nxt[l], prv[l]>>' # <<nxt[l], prv[l]>>
    PROVE  l = walk[t] /\ pc[t] \in {"insert", "remove"}
  <1>1. CASE UNCHANGED links
    BY <1>1 DEF links
  <1>2. ASSUME NEW n \in Node, LinkBefore(walk[t], ctx[t], n) PROVE l = walk[t]
    BY <1>2 DEF LinkBefore, TypeOK
  <1>3. CASE Unlink(walk[t], ctx[t])
    BY <1>3 DEF Unlink, TypeOK
  <1>4. l = walk[t]
    BY <1>1, <1>2, <1>3, AheadType, NamesType DEF Insert, Remove
  <1> QED
    BY <1>4 DEF Insert, Remove

LEMMA AlteredUnderLockStep ==
    ASSUME SafeInv, Next, NEW l \in List, <<nxt[l], prv[l]>>' # <<nxt[l], prv[l]>>
    PROVE  AlteredBy(l)
  <1> USE NamesType
  <1>1. \E t \in Thread : (t \in Client /\ Insert(t)) \/ Remove(t)
    <2>1. links' # links
      BY DEF links
    <2> QED
      BY <2>1 DEF Next, ClientStep, LoopStep, LockStep, Call, Exists, Lock, Unlock, Return,
                  SetHalt, CheckHalt, LockScan, Scan, UnlockScan, SelectFails, SelectReturns,
                  LockDispatch, Dispatch, HandlerReturns, Reset, UnlockDispatch
  <1>2. PICK t \in Thread : (t \in Client /\ Insert(t)) \/ Remove(t)
    BY <1>1
  <1>3. l = walk[t] /\ pc[t] \in {"insert", "remove"} /\ walk[t] = held[t]
    BY <1>2, AlterOneList DEF SafeInv, KindInv, WalksAtKind
  <1>4. t \in List => t = l /\ pc[t] = "remove"
    BY <1>2, <1>3, ThreadAssumption DEF SafeInv, KindInv, LoopsAtKind, Remove
  <1>5. Inside(t, l)
    BY <1>3, <1>4 DEF Inside
  <1> QED
    BY <1>3, <1>5 DEF SafeInv, LocksMatchThreads, AlteredBy

\* When no context has both poll bits, a list is altered only by the thread that
\* holds its mutex: what the comment above call_context_handler asks for, for
\* every set of contexts and clients.
THEOREM AlteredOnlyUnderLock ==
    ASSUME OnePollBit
    PROVE  Spec => ListsAlteredUnderLock
  <1>1. Init => SafeInv
    BY TypeInit, LockInit, KindInit DEF SafeInv
  <1>2. SafeInv /\ [Next]_vars => SafeInv'
    BY SafeInvNext
  <1>3. SafeInv /\ [Next]_vars =>
            [\A l \in List : <<nxt[l], prv[l]>>' # <<nxt[l], prv[l]>> => AlteredBy(l)]_links
    BY AlteredUnderLockStep DEF vars, links
  <1> QED
    BY <1>1, <1>2, <1>3, PTL DEF Spec, ListsAlteredUnderLock

-----------------------------------------------------------------------------
(* The rings *)

\* A ring is described by the links nx and pv of one list and a number pos for
\* every node: 0 for the head, 1 to k for the contexts that are linked, each one
\* more than that of the node before it.  With numbers, `before' and `after' need
\* no walk over the links, and no induction.
OnRing(nx, n) == n = ListHead \/ nx[n] # n
Numbers(nx, pv, k, pos) ==
    \A n \in Node : OnRing(nx, n) =>
        /\ pos[n] <= k
        /\ OnRing(nx, nx[n]) /\ pv[nx[n]] = n
        /\ OnRing(nx, pv[n]) /\ nx[pv[n]] = n
        /\ pos[n] = k => nx[n] = ListHead
        /\ pos[n] # k => pos[nx[n]] = pos[n] + 1
Sorted(nx, pos) ==
    \A m, n \in Node : OnRing(nx, m) /\ OnRing(nx, n) =>
        /\ pos[m] = pos[n] => m = n
        /\ pos[m] < pos[n] /\ m # ListHead => Prio[m] <= Prio[n]
Dense(nx, k, pos) == \A i \in 0 .. k : \E n \in Node : OnRing(nx, n) /\ pos[n] = i
Ring(nx, pv, k, pos) ==
    pos[ListHead] = 0 /\ Numbers(nx, pv, k, pos) /\ Sorted(nx, pos) /\ Dense(nx, k, pos)

\* __list_add(c, n->prev, n) and list_del_init(c) on the links of one list, and
\* what they do to the places in the ring.
NextLinked(nx, pv, c, n) == [nx EXCEPT ![c] = n, ![pv[n]] = c]
PrevLinked(pv, c, n) == [pv EXCEPT ![n] = c, ![c] = pv[n]]
PlaceLinked(pos, c, p) ==
    [m \in Node |-> IF m = c THEN pos[p] + 1 ELSE IF pos[m] > pos[p] THEN pos[m] + 1 ELSE pos[m]]
NextUnlinked(nx, pv, c) == [nx EXCEPT ![pv[c]] = nx[c], ![c] = c]
PrevUnlinked(nx, pv, c) == [pv EXCEPT ![nx[c]] = pv[c], ![c] = c]
PlaceUnlinked(pos, c) == [m \in Node |-> IF pos[m] > pos[c] THEN pos[m] - 1 ELSE pos[m]]

\* Linking a node before one of a ring puts that node, and no other, on the ring.
LEMMA NodesLinked ==
    ASSUME NEW nx \in [Node -> Node], NEW pv \in [Node -> Node],
           NEW c \in Ctx, ~OnRing(nx, c), NEW n \in Node,
           OnRing(nx, n), OnRing(nx, pv[n]), nx[pv[n]] = n
    PROVE  \A m \in Node : OnRing(NextLinked(nx, pv, c, n), m) <=> m = c \/ OnRing(nx, m)
  <1> DEFINE p == pv[n]
  <1>1. p \in Node /\ c \in Node /\ p # c /\ n # c
    BY CtxAssumption DEF OnRing, Node
  <1>2. \A m \in Node : NextLinked(nx, pv, c, n)[m] =
                             IF m = p THEN c ELSE IF m = c THEN n ELSE nx[m]
    BY <1>1 DEF NextLinked
  <1> QED
    BY <1>1, <1>2 DEF OnRing

\* A node that is off a ring may be linked where the priorities allow it.
LEMMA RingLinks ==
    ASSUME NEW nx \in [Node -> Node], NEW pv \in [Node -> Node], NEW k \in Nat,
           NEW pos \in [Node -> Nat], Ring(nx, pv, k, pos),
           NEW c \in Ctx, ~OnRing(nx, c), NEW n \in Node, OnRing(nx, n),
           NEW p, p = pv[n],
           p # ListHead => Prio[p] <= Prio[c],
           n # ListHead => Prio[c] <= Prio[n]
    PROVE  Ring(NextLinked(nx, pv, c, n), PrevLinked(pv, c, n), k + 1, PlaceLinked(pos, c, p))
  <1> SUFFICES ASSUME NEW nx2, nx2 = NextLinked(nx, pv, c, n),
                      NEW pv2, pv2 = PrevLinked(pv, c, n),
                      NEW pos2, pos2 = PlaceLinked(pos, c, p)
               PROVE  Ring(nx2, pv2, k + 1, pos2)
    OBVIOUS
  <1>0. pos[ListHead] = 0 /\ Numbers(nx, pv, k, pos) /\ Sorted(nx, pos) /\ Dense(nx, k, pos)
    BY DEF Ring
  <1>1. /\ p \in Node /\ c \in Node /\ OnRing(nx, p) /\ nx[p] = n /\ p # c /\ n # c
        /\ c # ListHead /\ ListHead \in Node /\ OnRing(nx, ListHead)
    BY <1>0, CtxAssumption DEF Numbers, OnRing, Node
  <1>a. \A m \in Node :
           /\ nx2[m] = IF m = p THEN c ELSE IF m = c THEN n ELSE nx[m]
           /\ pv2[m] = IF m = c THEN p ELSE IF m = n THEN c ELSE pv[m]
           /\ pos2[m] = IF m = c THEN pos[p] + 1
                       ELSE IF pos[m] > pos[p] THEN pos[m] + 1 ELSE pos[m]
           /\ pos[m] \in Nat
    BY <1>1 DEF NextLinked, PrevLinked, PlaceLinked
  <1>2. \A m \in Node : OnRing(nx2, m) <=> (m = c \/ OnRing(nx, m))
    BY <1>0, <1>1, <1>a DEF OnRing
  <1>3. pos2[ListHead] = 0
    BY <1>0, <1>1, <1>a
  <1>4. Numbers(nx2, pv2, k + 1, pos2)
    <2> SUFFICES ASSUME NEW m \in Node, OnRing(nx2, m)
                 PROVE  /\ pos2[m] <= k + 1
                        /\ OnRing(nx2, nx2[m]) /\ pv2[nx2[m]] = m
                        /\ OnRing(nx2, pv2[m]) /\ nx2[pv2[m]] = m
                        /\ pos2[m] = k + 1 => nx2[m] = ListHead
                        /\ pos2[m] # k + 1 => pos2[nx2[m]] = pos2[m] + 1
      BY DEF Numbers
    <2>1. m = c \/ OnRing(nx, m)
      BY <1>2
    <2>2. pos[p] <= k /\ (pos[p] = k => n = ListHead) /\ (pos[p] # k => pos[n] = pos[p] + 1)
      BY <1>0, <1>1, <1>a DEF Numbers
    <2>3. CASE m = c
      BY <1>0, <1>1, <1>a, <1>2, <2>2, <2>3
    <2>4. CASE m = p
      BY <1>0, <1>1, <1>a, <1>2, <2>2, <2>4 DEF Numbers
    <2>5. CASE m # c /\ m # p
      <3>1. OnRing(nx, m) /\ nx2[m] = nx[m]
        BY <1>a, <2>1, <2>5
      <3>2. nx[m] \in Node /\ nx[m] # n /\ pv2[nx[m]] = m /\ OnRing(nx2, nx[m]) /\ nx[m] # c
        BY <1>0, <1>1, <1>a, <1>2, <3>1, <2>5 DEF Numbers
      <3>3. OnRing(nx2, pv2[m]) /\ nx2[pv2[m]] = m
        BY <1>0, <1>1, <1>a, <1>2, <3>1, <2>5 DEF Numbers
      <3>4. /\ pos[m] <= k
            /\ pos[m] = k => nx[m] = ListHead
            /\ pos[m] # k => pos[nx[m]] = pos[m] + 1
        BY <1>0, <3>1 DEF Numbers
      <3>5. pos[m] # pos[p]
        BY <1>0, <1>1, <1>a, <2>5, <3>1 DEF Sorted
      <3> QED
        BY <1>0, <1>1, <1>a, <2>2, <2>5, <3>1, <3>2, <3>3, <3>4, <3>5
    <2> QED
      BY <2>3, <2>4, <2>5
  <1>5. Sorted(nx2, pos2)
    <2> SUFFICES ASSUME NEW a \in Node, NEW b \in Node, OnRing(nx2, a), OnRing(nx2, b)
                 PROVE  /\ pos2[a] = pos2[b] => a = b
                        /\ pos2[a] < pos2[b] /\ a # ListHead => Prio[a] <= Prio[b]
      BY DEF Sorted
    <2>0. \A x \in Ctx : Prio[x] \in Nat
      BY CtxAssumption
    <2>1. ASSUME NEW m \in Node, OnRing(nx, m)
          PROVE  /\ pos[m] <= pos[p] /\ m # ListHead => Prio[m] <= Prio[c]
                 /\ pos[m] > pos[p] => m # ListHead /\ Prio[c] <= Prio[m]
      <3>1. ASSUME pos[m] <= pos[p], m # ListHead PROVE Prio[m] <= Prio[c]
        <4>1. p # ListHead /\ Prio[p] <= Prio[c]
          BY <1>0, <1>1, <1>a, <2>1, <3>1 DEF Sorted
        <4>2. m = p \/ Prio[m] <= Prio[p]
          <5>1. pos[m] = pos[p] => m = p
            BY <1>0, <1>1, <2>1 DEF Sorted
          <5>2. pos[m] < pos[p] => Prio[m] <= Prio[p]
            BY <1>0, <1>1, <2>1, <3>1 DEF Sorted
          <5> QED
            BY <3>1, <5>1, <5>2
        <4> QED
          BY <1>0, <1>1, <1>a, <2>0, <3>1, <4>1, <4>2 DEF Node
      <3>2. ASSUME pos[m] > pos[p] PROVE m # ListHead /\ Prio[c] <= Prio[m]
        <4>1. m # ListHead /\ pos[m] <= k /\ pos[p] # k
          BY <1>0, <1>1, <1>a, <2>1, <3>2 DEF Numbers
        <4>2. pos[n] = pos[p] + 1 /\ n # ListHead
          BY <1>0, <1>1, <1>a, <4>1 DEF Numbers
        <4>3. n = m \/ Prio[n] <= Prio[m]
          BY <1>0, <1>1, <1>a, <2>1, <3>2, <4>2 DEF Sorted
        <4> QED
          BY <1>0, <1>1, <1>a, <2>0, <4>1, <4>2, <4>3 DEF Node
      <3> QED
        BY <3>1, <3>2
    <2>2. (a = c \/ OnRing(nx, a)) /\ (b = c \/ OnRing(nx, b))
      BY <1>2
    <2>3. CASE a = c /\ b = c
      BY <2>3, <2>0
    <2>4. CASE a = c /\ b # c
      BY <1>0, <1>1, <1>a, <2>1, <2>2, <2>4
    <2>5. CASE a # c /\ b = c
      BY <1>0, <1>1, <1>a, <2>1, <2>2, <2>5
    <2>6. CASE a # c /\ b # c
      <3>1. /\ pos[a] = pos[b] => a = b
            /\ pos[a] < pos[b] /\ a # ListHead => Prio[a] <= Prio[b]
        BY <1>0, <2>2, <2>6 DEF Sorted
      <3> QED
        BY <1>0, <1>1, <1>a, <2>6, <3>1
    <2> QED
      BY <2>3, <2>4, <2>5, <2>6
  <1>6. Dense(nx2, k + 1, pos2)
    <2> SUFFICES ASSUME NEW i \in 0 .. k + 1 PROVE \E m \in Node : OnRing(nx2, m) /\ pos2[m] = i
      BY DEF Dense
    <2>1. pos[p] <= k
      BY <1>0, <1>1, <1>a DEF Numbers
    <2>2. CASE i <= pos[p]
      <3>1. PICK m \in Node : OnRing(nx, m) /\ pos[m] = i
        BY <1>0, <2>1, <2>2 DEF Dense
      <3> QED
        BY <1>0, <1>1, <1>a, <1>2, <2>2, <3>1
    <2>3. CASE i = pos[p] + 1
      BY <1>0, <1>1, <1>a, <1>2, <2>3
    <2>4. CASE i > pos[p] + 1
      <3>1. PICK m \in Node : OnRing(nx, m) /\ pos[m] = i - 1
        <4>1. i - 1 \in 0 .. k
          BY <2>4
        <4> QED
          BY <1>0, <4>1 DEF Dense
      <3>2. pos2[m] = i
        BY <1>0, <1>1, <1>a, <2>4, <3>1
      <3> QED
        BY <1>2, <3>1, <3>2
    <2> QED
      BY <2>2, <2>3, <2>4
  <1> QED
    BY <1>2, <1>3, <1>4, <1>5, <1>6 DEF Ring

\* A node of a ring may be unlinked.
LEMMA RingUnlinks ==
    ASSUME NEW nx \in [Node -> Node], NEW pv \in [Node -> Node], NEW k \in Nat,
           NEW pos \in [Node -> Nat], Ring(nx, pv, k, pos),
           NEW c \in Ctx, OnRing(nx, c)
    PROVE  /\ k # 0
           /\ Ring(NextUnlinked(nx, pv, c), PrevUnlinked(nx, pv, c), k - 1, PlaceUnlinked(pos, c))
           /\ \A m \in Node : OnRing(NextUnlinked(nx, pv, c), m) <=> m # c /\ OnRing(nx, m)
  <1> SUFFICES ASSUME NEW nx2, nx2 = NextUnlinked(nx, pv, c),
                      NEW pv2, pv2 = PrevUnlinked(nx, pv, c),
                      NEW pos2, pos2 = PlaceUnlinked(pos, c)
               PROVE  /\ k # 0 /\ Ring(nx2, pv2, k - 1, pos2)
                      /\ \A m \in Node : OnRing(nx2, m) <=> m # c /\ OnRing(nx, m)
    OBVIOUS
  <1>0. pos[ListHead] = 0 /\ Numbers(nx, pv, k, pos) /\ Sorted(nx, pos) /\ Dense(nx, k, pos)
    BY DEF Ring
  <1> DEFINE p == pv[c]
             n == nx[c]
  <1>1. /\ p \in Node /\ n \in Node /\ c \in Node /\ c # ListHead /\ ListHead \in Node
        /\ OnRing(nx, p) /\ OnRing(nx, n) /\ nx[p] = c /\ pv[n] = c /\ p # c /\ n # c
        /\ OnRing(nx, ListHead)
    BY <1>0, CtxAssumption DEF Numbers, OnRing, Node
  <1>5. \A m \in Node : pos2[m] = (IF pos[m] > pos[c] THEN pos[m] - 1 ELSE pos[m]) /\ pos[m] \in Nat
    BY DEF PlaceUnlinked
  <1>6. \A m \in Node : /\ nx2[m] = IF m = c THEN c ELSE IF m = p THEN n ELSE nx[m]
                        /\ pv2[m] = IF m = c THEN c ELSE IF m = n THEN p ELSE pv[m]
    BY <1>0, <1>1 DEF NextUnlinked, PrevUnlinked
  <1>2. \A m \in Node : OnRing(nx2, m) <=> (m # c /\ OnRing(nx, m))
    <2>1. p = n => n = ListHead
      <3> SUFFICES ASSUME p = n PROVE n = ListHead
        OBVIOUS
      <3>1. nx[n] = c /\ nx[c] = n
        BY <1>0, <1>1
      <3>2. /\ pos[c] <= k /\ pos[n] <= k
            /\ pos[c] = k => n = ListHead
            /\ pos[c] # k => pos[n] = pos[c] + 1
            /\ pos[n] = k => c = ListHead
            /\ pos[n] # k => pos[c] = pos[n] + 1
        BY <1>0, <1>1, <3>1 DEF Numbers
      <3> QED
        BY <1>0, <1>1, <3>2
    <2> QED
      BY <1>1, <1>6, <2>1 DEF OnRing
  <1>3. pos[c] # 0 /\ pos[c] <= k /\ pos[c] = pos[p] + 1
    <2>1. pos[c] # 0 /\ pos[c] <= k
      BY <1>0, <1>1 DEF Numbers, Sorted, OnRing
    <2>2. pos[p] <= k /\ (pos[p] = k => c = ListHead) /\ (pos[p] # k => pos[c] = pos[p] + 1)
      BY <1>0, <1>1 DEF Numbers
    <2> QED
      BY <1>0, <1>1, <2>1, <2>2
  <1>4. pos2[ListHead] = 0
    BY <1>0, <1>1, <1>5
  <1>7. Numbers(nx2, pv2, k - 1, pos2)
    <2> SUFFICES ASSUME NEW m \in Node, OnRing(nx2, m)
                 PROVE  /\ pos2[m] <= k - 1
                        /\ OnRing(nx2, nx2[m]) /\ pv2[nx2[m]] = m
                        /\ OnRing(nx2, pv2[m]) /\ nx2[pv2[m]] = m
                        /\ pos2[m] = k - 1 => nx2[m] = ListHead
                        /\ pos2[m] # k - 1 => pos2[nx2[m]] = pos2[m] + 1
      BY DEF Numbers
    <2>1. m # c /\ OnRing(nx, m) /\ pos[m] # pos[c]
      BY <1>0, <1>1, <1>2 DEF Sorted
    <2>2. pos[c] <= k /\ (pos[c] = k => n = ListHead) /\ (pos[c] # k => pos[n] = pos[c] + 1)
      BY <1>0, <1>1 DEF Numbers
    <2>3. /\ pos[m] <= k
          /\ OnRing(nx, nx[m]) /\ pv[nx[m]] = m
          /\ OnRing(nx, pv[m]) /\ nx[pv[m]] = m
          /\ pos[m] = k => nx[m] = ListHead
          /\ pos[m] # k => pos[nx[m]] = pos[m] + 1
          /\ nx[m] \in Node /\ pv[m] \in Node
      BY <1>0, <2>1 DEF Numbers
    <2>4. OnRing(nx2, nx2[m]) /\ pv2[nx2[m]] = m
      BY <1>0, <1>1, <1>2, <1>6, <2>1, <2>3
    <2>5. OnRing(nx2, pv2[m]) /\ nx2[pv2[m]] = m
      BY <1>0, <1>1, <1>2, <1>6, <2>1, <2>3
    <2>6. CASE m = p
      BY <1>0, <1>1, <1>3, <1>5, <1>6, <2>1, <2>2, <2>3, <2>4, <2>5, <2>6
    <2>7. CASE m # p
      <3>1. nx2[m] = nx[m]
        BY <1>6, <2>1, <2>7
      <3>2. pos[m] # pos[p]
        BY <1>0, <1>1, <2>1, <2>7 DEF Sorted
      <3> QED
        BY <1>0, <1>1, <1>3, <1>5, <2>1, <2>2, <2>3, <2>4, <2>5, <3>1, <3>2
    <2> QED
      BY <2>6, <2>7
  <1>8. Sorted(nx2, pos2)
    <2> SUFFICES ASSUME NEW a \in Node, NEW b \in Node, OnRing(nx2, a), OnRing(nx2, b)
                 PROVE  /\ pos2[a] = pos2[b] => a = b
                        /\ pos2[a] < pos2[b] /\ a # ListHead => Prio[a] <= Prio[b]
      BY DEF Sorted
    <2>1. pos[a] # pos[c] /\ pos[b] # pos[c]
      BY <1>0, <1>1, <1>2 DEF Sorted
    <2>2. /\ pos[a] = pos[b] => a = b
          /\ pos[a] < pos[b] /\ a # ListHead => Prio[a] <= Prio[b]
      BY <1>0, <1>2 DEF Sorted
    <2> QED
      BY <1>0, <1>1, <1>5, <2>1, <2>2
  <1>9. Dense(nx2, k - 1, pos2)
    <2> SUFFICES ASSUME NEW i \in 0 .. k - 1 PROVE \E m \in Node : OnRing(nx2, m) /\ pos2[m] = i
      BY DEF Dense
    <2>1. CASE i < pos[c]
      <3>1. PICK m \in Node : OnRing(nx, m) /\ pos[m] = i
        BY <1>0, <2>1 DEF Dense
      <3> QED
        BY <1>0, <1>1, <1>2, <1>5, <2>1, <3>1
    <2>2. CASE i >= pos[c]
      <3>0. i + 1 \in 0 .. k
        OBVIOUS
      <3>1. PICK m \in Node : OnRing(nx, m) /\ pos[m] = i + 1
        BY <1>0, <3>0 DEF Dense
      <3>2. m # c /\ pos2[m] = i
        BY <1>0, <1>1, <1>5, <2>2, <3>1
      <3> QED
        BY <1>2, <3>1, <3>2
    <2> QED
      BY <1>0, <1>1, <2>1, <2>2
  <1> QED
    BY <1>1, <1>2, <1>3, <1>4, <1>5, <1>7, <1>8, <1>9 DEF Ring
-----------------------------------------------------------------------------
(* The walks *)

\* A context is added by one thread only: those of the lights and of the PWM
\* modules by the thread of the OSC server over UDP, with which alone methods are
\* registered, the others by the main thread at start.
OneAdder ==
    \A t, u \in Client, c \in Ctx :
        <<t, "add", c>> \in Calls /\ <<u, "add", c>> \in Calls => t = u

\* An unlocked walk is sure of its answer when no other thread adds the context it
\* looks for: so is every walk of an add.
Sure(t) ==
    /\ t \in Client /\ pc[t] = "exists"
    /\ \A u \in Client \ {t} : <<u, "add", ctx[t]>> \notin Calls

\* A walk under the lock of its list stands on the ring; the unlocked walk of
\* sios_source_ctx_exists may stand on a node that was taken off it.  As long as a
\* walk stands on the ring, the linked context it looks for is ahead of it.
WalkAt(t, l, pos) ==
    walk[t] = l =>
        /\ pc[t] \in {"insert", "remove"} => OnRing(nxt[l], ptr[t])
        /\ /\ pc[t] = "remove" \/ Sure(t)
           /\ Linked(l, ctx[t])
           /\ OnRing(nxt[l], ptr[t])
           => pos[ptr[t]] < pos[ctx[t]]

RingsInv ==
    \A l \in List : \E k \in Nat, pos \in [Node -> Nat] :
        /\ Ring(nxt[l], prv[l], k, pos)
        /\ \A t \in Thread : WalkAt(t, l, pos)

\* Where a client is in its call.  While it adds, its context is off the list
\* from the answer of the unlocked walk to the insertion; and, as long as the
\* context is on the list, what the unlocked walk stands on is of no greater
\* priority number, so that a node taken off and added again is behind the walk.
ClientInv(t) ==
    /\ pc[t] = "exists" => walk[t] = First(ctx[t]) /\ ptr[t] # ctx[t]
    /\ pc[t] = "insert" => op[t] = "add"
    /\ pc[t] = "remove" => op[t] = "del"
    /\ pc[t] \in {"exists", "lock", "insert"} /\ op[t] = "add" => <<t, "add", ctx[t]>> \in Calls
    /\ pc[t] \in {"lock", "insert"} /\ op[t] = "add" => ~Linked(First(ctx[t]), ctx[t])
    /\ Sure(t) /\ ptr[t] # ListHead /\ Linked(First(ctx[t]), ctx[t])
          => Prio[ptr[t]] <= Prio[ctx[t]]
    /\ pc[t] = "insert" /\ ptr[t] # ListHead => Prio[ptr[t]] < Prio[ctx[t]]
    /\ pc[t] = "unlock" => (Linked(held[t], ctx[t]) <=> op[t] = "add")

\* Where a loop is in its dispatch: its position is on the ring, the saved one is
\* the successor, and after a removal the saved one is still on the ring.
LoopInv(l) ==
    /\ pc[l] \notin {"exists", "insert"}
    /\ pc[l] \in {"dispatch", "handler", "remove"} =>
          OnRing(nxt[l], ctx[l]) /\ tmp[l] = nxt[l][ctx[l]]
    /\ pc[l] = "reset" => OnRing(nxt[l], tmp[l])

WalkInv ==
    /\ RingsInv
    /\ \A t \in Client : ClientInv(t)
    /\ \A l \in List : LoopInv(l)

\* A step of thread t leaves every other thread alone.
Alone(t) ==
    /\ OthersStay(t)
    /\ \A u \in Client \ {t} : op'[u] = op[u]
    /\ \A l \in List \ {t} : tmp'[l] = tmp[l]

\* A step that leaves the links alone has to answer for its own thread only.
LEMMA QuietStep ==
    ASSUME WalkInv, NEW t \in Thread, Alone(t), links' = links,
           \A l \in List, k \in Nat, pos \in [Node -> Nat] :
               Ring(nxt[l], prv[l], k, pos) /\ WalkAt(t, l, pos) => WalkAt(t, l, pos)',
           t \in Client => ClientInv(t)',
           t \in List => LoopInv(t)'
    PROVE  WalkInv'
  <1>1. nxt' = nxt /\ prv' = prv
    BY DEF links
  <1>2. RingsInv'
    <2> SUFFICES ASSUME NEW l \in List
                 PROVE  \E k \in Nat, pos \in [Node -> Nat] :
                            /\ Ring(nxt'[l], prv'[l], k, pos)
                            /\ \A u \in Thread : WalkAt(u, l, pos)'
      BY DEF RingsInv
    <2>1. PICK k \in Nat, pos \in [Node -> Nat] :
              /\ Ring(nxt[l], prv[l], k, pos)
              /\ \A u \in Thread : WalkAt(u, l, pos)
      BY DEF WalkInv, RingsInv
    <2>2. ASSUME NEW u \in Thread, u # t PROVE WalkAt(u, l, pos)'
      <3>1. WalkAt(u, l, pos)
        BY <2>1
      <3> QED
        BY <1>1, <2>2, <3>1 DEF WalkAt, Sure, Linked, Alone, OthersStay, OnlyMoves
    <2> QED
      BY <1>1, <2>1, <2>2
  <1>3. ASSUME NEW u \in Client, u # t PROVE ClientInv(u)'
    <2>1. ClientInv(u) /\ u \in Thread
      BY NamesType DEF WalkInv
    <2> QED
      BY <1>1, <1>3, <2>1 DEF ClientInv, Sure, Linked, Alone, OthersStay, OnlyMoves
  <1>4. ASSUME NEW l \in List, l # t PROVE LoopInv(l)'
    <2>1. LoopInv(l) /\ l \in Thread
      BY NamesType DEF WalkInv
    <2> QED
      BY <1>1, <1>4, <2>1 DEF LoopInv, Alone, OthersStay, OnlyMoves
  <1> QED
    BY <1>2, <1>3, <1>4 DEF WalkInv
\* Two threads are never inside one list.
LEMMA OneInside ==
    ASSUME LocksMatchThreads, NEW t \in Thread, NEW u \in Thread, NEW l \in List,
           Inside(t, l), Inside(u, l)
    PROVE  t = u
  BY DEF LocksMatchThreads

\* The thread that alters the links is inside its list and walks on the ring.
LEMMA AltersInside ==
    ASSUME SafeInv, NEW t \in Thread, pc[t] \in {"insert", "remove"},
           t \in List => pc[t] = "remove"
    PROVE  /\ walk[t] \in List /\ ctx[t] \in Ctx /\ ptr[t] \in Node
           /\ walk[t] \in Kind[ctx[t]] /\ held[t] = walk[t]
           /\ Inside(t, walk[t])
  <1>1. walk[t] \in List /\ ctx[t] \in Ctx /\ ptr[t] \in Node /\ walk[t] \in Kind[ctx[t]]
    BY AlterKind DEF SafeInv, TypeOK
  <1>2. held[t] = walk[t] /\ (t \in List => held[t] = t)
    BY DEF SafeInv, KindInv, WalksAtKind, LoopsAtKind
  <1> QED
    BY <1>1, <1>2 DEF Inside

\* The two actions on the links, one list at a time.
LEMMA LinksAfter ==
    ASSUME TypeOK, NEW l \in List, NEW c \in Ctx, NEW n \in Node, LinkBefore(l, c, n)
    PROVE  /\ nxt'[l] = NextLinked(nxt[l], prv[l], c, n)
           /\ prv'[l] = PrevLinked(prv[l], c, n)
           /\ \A k \in List \ {l} : nxt'[k] = nxt[k] /\ prv'[k] = prv[k]
  BY DEF LinkBefore, NextLinked, PrevLinked, TypeOK

LEMMA UnlinksAfter ==
    ASSUME TypeOK, NEW l \in List, NEW c \in Ctx, Unlink(l, c)
    PROVE  /\ nxt'[l] = NextUnlinked(nxt[l], prv[l], c)
           /\ prv'[l] = PrevUnlinked(nxt[l], prv[l], c)
           /\ \A k \in List \ {l} : nxt'[k] = nxt[k] /\ prv'[k] = prv[k]
  BY DEF Unlink, NextUnlinked, PrevUnlinked, TypeOK

\* A thread that alters list l alone leaves true what is said of the others: the
\* links they may be inside of are those of the other list.
LEMMA OthersKeep ==
    ASSUME SafeInv, WalkInv, NEW t \in Thread, Alone(t), NEW l \in List, Inside(t, l),
           \A k \in List \ {l} : nxt'[k] = nxt[k] /\ prv'[k] = prv[k],
           \A u \in Client \ {t}, k \in List :
               /\ (pc[u] \in {"lock", "insert"} /\ op[u] = "add") \/ Sure(u)
               /\ nxt'[k][ctx[u]] # ctx[u]
               => Linked(k, ctx[u])
    PROVE  /\ \A u \in Client \ {t} : ClientInv(u)'
           /\ \A k \in List \ {t} : LoopInv(k)'
  <1>1. ASSUME NEW u \in Client, u # t PROVE ClientInv(u)'
    <2>1. u \in Thread /\ ClientInv(u) /\ First(ctx[u]) \in List /\ held[u] \in List
      BY NamesType DEF WalkInv, SafeInv, TypeOK
    <2>2. /\ pc'[u] = pc[u] /\ held'[u] = held[u] /\ op'[u] = op[u] /\ ctx'[u] = ctx[u]
          /\ walk'[u] = walk[u] /\ ptr'[u] = ptr[u]
      BY <1>1, <2>1 DEF Alone, OthersStay, OnlyMoves
    <2>3. /\ (pc[u] \in {"lock", "insert"} /\ op[u] = "add") \/ Sure(u)
          /\ Linked(First(ctx[u]), ctx[u])'
          => Linked(First(ctx[u]), ctx[u])
      BY <1>1, <2>1, <2>2 DEF Linked
    <2>4. pc[u] = "unlock" => held[u] # l
      <3> SUFFICES ASSUME pc[u] = "unlock", held[u] = l PROVE FALSE
        OBVIOUS
      <3>1. Inside(u, l)
        BY ThreadAssumption DEF Inside
      <3> QED
        BY <1>1, <2>1, <3>1, OneInside DEF SafeInv
    <2>5. pc[u] = "unlock" => (Linked(held[u], ctx[u])' <=> Linked(held[u], ctx[u]))
      BY <2>1, <2>2, <2>4 DEF Linked
    <2> QED
      BY <2>1, <2>2, <2>3, <2>5 DEF ClientInv, Sure
  <1>2. ASSUME NEW k \in List, k # t PROVE LoopInv(k)'
    <2>1. k \in Thread /\ LoopInv(k)
      BY NamesType DEF WalkInv
    <2>2. pc'[k] = pc[k] /\ ctx'[k] = ctx[k] /\ tmp'[k] = tmp[k]
      BY <1>2, <2>1 DEF Alone, OthersStay, OnlyMoves
    <2>3. k = l => pc[k] \notin {"dispatch", "handler", "remove", "reset"}
      <3> SUFFICES ASSUME k = l, pc[k] \in {"dispatch", "handler", "remove", "reset"}
                   PROVE FALSE
        OBVIOUS
      <3>1. Inside(k, l)
        BY DEF Inside
      <3> QED
        BY <1>2, <2>1, <3>1, OneInside DEF SafeInv
    <2> QED
      BY <2>1, <2>2, <2>3 DEF LoopInv
  <1> QED
    BY <1>1, <1>2

\* A walk of list l by another thread while t is inside the list is the unlocked
\* one of sios_source_ctx_exists.
LEMMA OthersWalk ==
    ASSUME SafeInv, WalkInv, NEW t \in Thread, Alone(t), NEW l \in List, Inside(t, l),
           NEW u \in Thread, u # t, walk[u] = l
    PROVE  /\ pc[u] \notin {"insert", "remove"}
           /\ ctx'[u] = ctx[u] /\ ptr'[u] = ptr[u] /\ walk'[u] = walk[u]
           /\ Sure(u)' <=> Sure(u)
           /\ pc'[u] = pc[u]
  <1>1. pc[u] \notin {"insert", "remove"}
    <2> SUFFICES ASSUME pc[u] \in {"insert", "remove"} PROVE FALSE
      OBVIOUS
    <2>1. u \in List => pc[u] = "remove"
      BY DEF WalkInv, LoopInv
    <2>2. Inside(u, l)
      BY <2>1, AltersInside
    <2> QED
      BY <2>2, OneInside DEF SafeInv
  <1> QED
    BY <1>1 DEF Alone, OthersStay, OnlyMoves, Sure

\* An insertion and a removal, each with all that is said of the other threads.
LEMMA LinkStep ==
    ASSUME OnePollBit, OneAdder, SafeInv, WalkInv, NEW t \in Client,
           pc[t] = "insert", LinkBefore(walk[t], ctx[t], Ahead(t)),
           Ahead(t) = ListHead \/ Prio[ctx[t]] <= Prio[Ahead(t)],
           Alone(t), pc'[t] = "unlock", ctx' = ctx, held' = held, op' = op,
           NEW l, l = walk[t], NEW c, c = ctx[t], NEW p, p = ptr[t], NEW n, n = Ahead(t)
    PROVE  WalkInv'
  <1>1. t \in Thread /\ t \notin List
    BY ThreadAssumption, NamesType
  <1>2. l \in List /\ c \in Ctx /\ p \in Node /\ l \in Kind[c] /\ held[t] = l /\ Inside(t, l)
    BY <1>1, AltersInside
  <1>3. n \in Node /\ c \in Node /\ c # ListHead /\ n = nxt[l][p]
    BY <1>1, <1>2, AheadType, CtxAssumption DEF SafeInv, Ahead, Node
  <1>4. /\ op[t] = "add" /\ <<t, "add", c>> \in Calls /\ ~Linked(l, c)
        /\ p # ListHead => Prio[p] < Prio[c]
    <2>1. ClientInv(t)
      BY DEF WalkInv
    <2>2. First(c) = l
      BY <1>2, OneList
    <2> QED
      BY <2>1, <2>2 DEF ClientInv
  <1>5. /\ nxt'[l] = NextLinked(nxt[l], prv[l], c, n)
        /\ prv'[l] = PrevLinked(prv[l], c, n)
        /\ \A m \in List \ {l} : nxt'[m] = nxt[m] /\ prv'[m] = prv[m]
    BY <1>2, <1>3, LinksAfter DEF SafeInv
  <1>6. /\ nxt[l] \in [Node -> Node] /\ prv[l] \in [Node -> Node]
        /\ \A x \in Ctx : Prio[x] \in Nat
    BY <1>2, CtxAssumption DEF SafeInv, TypeOK
  <1>7. PICK k \in Nat, pos \in [Node -> Nat] :
            /\ Ring(nxt[l], prv[l], k, pos)
            /\ \A u \in Thread : WalkAt(u, l, pos)
    BY <1>2 DEF WalkInv, RingsInv
  <1>8. OnRing(nxt[l], p) /\ OnRing(nxt[l], n) /\ prv[l][n] = p
    <2>1. OnRing(nxt[l], p)
      BY <1>1, <1>7 DEF WalkAt
    <2> QED
      BY <1>2, <1>3, <1>7, <2>1 DEF Ring, Numbers
  <1>9. \A m \in Node : nxt'[l][m] = IF m = p THEN c ELSE IF m = c THEN n ELSE nxt[l][m]
    BY <1>2, <1>3, <1>5, <1>6, <1>8 DEF NextLinked
  <1>10. p # c /\ n # c
    BY <1>3, <1>4, <1>8 DEF OnRing, Linked
  <1>11. \A m \in Node : OnRing(nxt'[l], m) <=> m = c \/ OnRing(nxt[l], m)
    BY <1>3, <1>8, <1>9, <1>10 DEF OnRing
  <1>12. RingsInv'
    <2> SUFFICES ASSUME NEW j \in List
                 PROVE  \E i \in Nat, at \in [Node -> Nat] :
                            /\ Ring(nxt'[j], prv'[j], i, at)
                            /\ \A u \in Thread : WalkAt(u, j, at)'
      BY DEF RingsInv
    <2>1. CASE j # l
      <3>1. PICK i \in Nat, at \in [Node -> Nat] :
                /\ Ring(nxt[j], prv[j], i, at)
                /\ \A u \in Thread : WalkAt(u, j, at)
        BY DEF WalkInv, RingsInv
      <3>2. nxt'[j] = nxt[j] /\ prv'[j] = prv[j]
        BY <1>5, <2>1
      <3>3. ASSUME NEW u \in Thread PROVE WalkAt(u, j, at)'
        <4>1. WalkAt(u, j, at)
          BY <3>1
        <4>2. CASE u = t
          BY <4>2 DEF WalkAt, Sure
        <4>3. CASE u # t
          BY <3>2, <4>1, <4>3 DEF WalkAt, Sure, Linked, Alone, OthersStay, OnlyMoves
        <4> QED
          BY <4>2, <4>3
      <3> QED
        BY <3>1, <3>2, <3>3
    <2>2. CASE j = l
      <3>0. PICK at : at = PlaceLinked(pos, c, p)
        OBVIOUS
      <3>1. at \in [Node -> Nat]
        BY <1>2, <3>0 DEF PlaceLinked
      <3>2. Ring(nxt'[l], prv'[l], k + 1, at)
        <4>1. p # ListHead => Prio[p] <= Prio[c]
          BY <1>2, <1>4, <1>6 DEF Node
        <4>2. ~OnRing(nxt[l], c)
          BY <1>3, <1>4 DEF OnRing, Linked
        <4>3. n # ListHead => Prio[c] <= Prio[n]
          OBVIOUS
        <4>4. Ring(NextLinked(nxt[l], prv[l], c, n), PrevLinked(prv[l], c, n), k + 1,
                   PlaceLinked(pos, c, p))
          BY <1>2, <1>3, <1>6, <1>7, <1>8, <4>1, <4>2, <4>3, RingLinks, SMTT(20)
        <4> QED
          BY <1>5, <3>0, <4>4
      <3>3. \A m \in Node : at[m] = IF m = c THEN pos[p] + 1
                                    ELSE IF pos[m] > pos[p] THEN pos[m] + 1 ELSE pos[m]
        BY <3>0 DEF PlaceLinked
      <3>4. ASSUME NEW u \in Thread PROVE WalkAt(u, l, at)'
        <4>1. CASE u = t
          BY <4>1 DEF WalkAt, Sure
        <4>2. CASE u # t /\ walk[u] # l
          BY <4>2 DEF WalkAt, Alone, OthersStay, OnlyMoves
        <4>3. CASE u # t /\ walk[u] = l
          <5> DEFINE d == ctx[u]
                     q == ptr[u]
          <5>1. /\ pc'[u] \notin {"insert", "remove"} /\ ctx'[u] = d /\ ptr'[u] = q
                /\ Sure(u)' <=> Sure(u)
            BY <1>1, <1>2, <4>3, OthersWalk
          <5> SUFFICES ASSUME Sure(u), OnRing(nxt'[l], d), d # ListHead, OnRing(nxt'[l], q)
                       PROVE  at[q] < at[d]
            <6>1. Linked(l, ctx[u])' => OnRing(nxt'[l], ctx'[u])
              BY DEF Linked, OnRing
            <6>2. Sure(u) => d \in Ctx
              BY DEF Sure, SafeInv, KindInv, ClientsAtKind
            <6> QED
              BY <5>1, <6>1, <6>2, CtxAssumption DEF WalkAt, Linked
          <5>2. /\ u \in Client /\ pc[u] = "exists" /\ d \in Ctx /\ q \in Node
                /\ q # ListHead /\ Linked(First(d), d) => Prio[q] <= Prio[d]
                /\ First(d) = l
            BY <4>3 DEF Sure, SafeInv, TypeOK, KindInv, ClientsAtKind, WalkInv, ClientInv
          <5>3. d # c /\ d \in Node
            BY <1>2, <1>4, <4>3, <5>2 DEF Sure, Node
          <5>4. OnRing(nxt[l], d) /\ Linked(l, d)
            BY <1>11, <5>3 DEF OnRing, Linked
          <5>5. CASE q = c
            <6>1. Prio[c] <= Prio[d]
              BY <1>3, <5>2, <5>4, <5>5
            <6>2. pos[p] < pos[d]
              <7>1. CASE p = ListHead
                <8>1. pos[p] = 0 /\ pos[d] # 0
                  BY <1>2, <1>7, <5>3, <5>4, <1>8, <7>1 DEF Ring, Sorted
                <8> QED
                  BY <8>1, <5>3
              <7>2. CASE p # ListHead
                <8>1. Prio[p] < Prio[d] /\ p \in Ctx
                  BY <1>2, <1>4, <1>6, <5>2, <6>1, <7>2 DEF Node
                <8>2. ~(pos[d] < pos[p]) /\ pos[d] # pos[p]
                  BY <1>2, <1>6, <1>7, <1>8, <5>2, <5>3, <5>4, <8>1 DEF Ring, Sorted
                <8> QED
                  BY <1>2, <5>3, <8>2
              <7> QED
                BY <7>1, <7>2
            <6> QED
              BY <1>2, <1>3, <3>3, <5>3, <5>5, <6>2
          <5>6. CASE q # c
            <6>1. OnRing(nxt[l], q)
              BY <1>11, <5>2, <5>6
            <6>2. pos[q] < pos[d]
              <7>1. WalkAt(u, l, pos)
                BY <1>7
              <7> QED
                BY <4>3, <5>4, <6>1, <7>1 DEF WalkAt
            <6> QED
              BY <1>2, <3>3, <5>2, <5>3, <5>6, <6>2
          <5> QED
            BY <5>5, <5>6
        <4> QED
          BY <4>1, <4>2, <4>3
      <3>5. k + 1 \in Nat
        OBVIOUS
      <3> QED
        BY <2>2, <3>1, <3>2, <3>4, <3>5
    <2> QED
      BY <2>1, <2>2
  <1>13. ClientInv(t)'
    <2>1. nxt'[l][c] = n
      BY <1>3, <1>9, <1>10
    <2> QED
      BY <1>2, <1>4, <1>10, <2>1 DEF ClientInv, Sure, Linked
  <1>14. \A u \in Client \ {t}, j \in List :
              /\ (pc[u] \in {"lock", "insert"} /\ op[u] = "add") \/ Sure(u)
              /\ nxt'[j][ctx[u]] # ctx[u]
              => Linked(j, ctx[u])
    <2> SUFFICES ASSUME NEW u \in Client, u # t, NEW j \in List,
                        (pc[u] \in {"lock", "insert"} /\ op[u] = "add") \/ Sure(u),
                        nxt'[j][ctx[u]] # ctx[u]
                 PROVE  Linked(j, ctx[u])
      OBVIOUS
    <2>1. ctx[u] \in Ctx /\ (<<u, "add", ctx[u]>> \in Calls \/ Sure(u))
      BY DEF Sure, SafeInv, KindInv, ClientsAtKind, WalkInv, ClientInv
    <2>2. ctx[u] # c /\ ctx[u] # ListHead /\ ctx[u] \in Node
      BY <1>2, <1>4, <2>1, CtxAssumption DEF OneAdder, Sure, Node
    <2>3. CASE j = l
      BY <1>11, <2>2, <2>3 DEF OnRing, Linked
    <2>4. CASE j # l
      BY <1>5, <2>4 DEF Linked
    <2> QED
      BY <2>3, <2>4
  <1>15. /\ \A u \in Client \ {t} : ClientInv(u)'
         /\ \A j \in List \ {t} : LoopInv(j)'
    BY <1>1, <1>2, <1>5, <1>14, OthersKeep
  <1> QED
    BY <1>1, <1>12, <1>13, <1>15 DEF WalkInv
LEMMA UnlinkStep ==
    ASSUME OnePollBit, SafeInv, WalkInv, NEW t \in Thread,
           pc[t] = "remove", Unlink(walk[t], ctx[t]), Ahead(t) = ctx[t],
           Alone(t), pc'[t] = IF t \in List THEN "reset" ELSE "unlock",
           ctx' = ctx, held' = held, op' = op, tmp' = tmp,
           NEW l, l = walk[t], NEW c, c = ctx[t]
    PROVE  WalkInv'
  <1>1. /\ l \in List /\ c \in Ctx /\ ptr[t] \in Node /\ l \in Kind[c] /\ held[t] = l
        /\ Inside(t, l)
    BY AltersInside
  <1>2. c \in Node /\ c # ListHead
    BY <1>1, CtxAssumption DEF Node
  <1>3. /\ nxt'[l] = NextUnlinked(nxt[l], prv[l], c)
        /\ prv'[l] = PrevUnlinked(nxt[l], prv[l], c)
        /\ \A m \in List \ {l} : nxt'[m] = nxt[m] /\ prv'[m] = prv[m]
    BY <1>1, UnlinksAfter DEF SafeInv
  <1>4. nxt[l] \in [Node -> Node] /\ prv[l] \in [Node -> Node]
    BY <1>1 DEF SafeInv, TypeOK
  <1>5. PICK k \in Nat, pos \in [Node -> Nat] :
            /\ Ring(nxt[l], prv[l], k, pos)
            /\ \A u \in Thread : WalkAt(u, l, pos)
    BY <1>1 DEF WalkInv, RingsInv
  <1>6. OnRing(nxt[l], c)
    <2>1. OnRing(nxt[l], ptr[t])
      BY <1>5 DEF WalkAt
    <2> QED
      BY <1>1, <1>5, <2>1 DEF Ring, Numbers, Ahead
  <1>7. /\ nxt[l][c] \in Node /\ prv[l][c] \in Node /\ nxt[l][c] # c /\ prv[l][c] # c
        /\ nxt[l][prv[l][c]] = c /\ OnRing(nxt[l], nxt[l][c]) /\ OnRing(nxt[l], prv[l][c])
    BY <1>2, <1>4, <1>5, <1>6 DEF Ring, Numbers, OnRing
  <1>8. \A m \in Node : nxt'[l][m] = IF m = c THEN c ELSE IF m = prv[l][c] THEN nxt[l][c]
                                     ELSE nxt[l][m]
    BY <1>2, <1>3, <1>4, <1>7 DEF NextUnlinked
  <1>9. /\ k # 0 /\ Ring(nxt'[l], prv'[l], k - 1, PlaceUnlinked(pos, c))
        /\ \A m \in Node : OnRing(nxt'[l], m) <=> m # c /\ OnRing(nxt[l], m)
    BY <1>1, <1>3, <1>4, <1>5, <1>6, RingUnlinks
  <1>10. \A m \in Node : OnRing(nxt'[l], m) => m # c /\ OnRing(nxt[l], m)
    BY <1>9
  <1>11. \A m \in Node : m # c /\ OnRing(nxt[l], m) => OnRing(nxt'[l], m)
    BY <1>9
  <1>12. RingsInv'
    <2> SUFFICES ASSUME NEW j \in List
                 PROVE  \E i \in Nat, at \in [Node -> Nat] :
                            /\ Ring(nxt'[j], prv'[j], i, at)
                            /\ \A u \in Thread : WalkAt(u, j, at)'
      BY DEF RingsInv
    <2>1. CASE j # l
      <3>1. PICK i \in Nat, at \in [Node -> Nat] :
                /\ Ring(nxt[j], prv[j], i, at)
                /\ \A u \in Thread : WalkAt(u, j, at)
        BY DEF WalkInv, RingsInv
      <3>2. nxt'[j] = nxt[j] /\ prv'[j] = prv[j]
        BY <1>3, <2>1
      <3>3. ASSUME NEW u \in Thread PROVE WalkAt(u, j, at)'
        <4>1. WalkAt(u, j, at)
          BY <3>1
        <4>2. CASE u = t
          BY <4>2 DEF WalkAt, Sure
        <4>3. CASE u # t
          BY <3>2, <4>1, <4>3 DEF WalkAt, Sure, Linked, Alone, OthersStay, OnlyMoves
        <4> QED
          BY <4>2, <4>3
      <3> QED
        BY <3>1, <3>2, <3>3
    <2>2. CASE j = l
      <3>0. PICK at : at = PlaceUnlinked(pos, c)
        OBVIOUS
      <3>1. /\ at \in [Node -> Nat]
            /\ \A m \in Node : at[m] = IF pos[m] > pos[c] THEN pos[m] - 1 ELSE pos[m]
        BY <1>2, <3>0 DEF PlaceUnlinked
      <3>2. ASSUME NEW u \in Thread PROVE WalkAt(u, l, at)'
        <4>1. CASE u = t
          BY <4>1 DEF WalkAt, Sure
        <4>2. CASE u # t /\ walk[u] # l
          BY <4>2 DEF WalkAt, Alone, OthersStay, OnlyMoves
        <4>3. CASE u # t /\ walk[u] = l
          <5> DEFINE d == ctx[u]
                     q == ptr[u]
          <5>1. /\ pc'[u] \notin {"insert", "remove"} /\ ctx'[u] = d /\ ptr'[u] = q
                /\ Sure(u)' <=> Sure(u)
            BY <1>1, <4>3, OthersWalk
          <5> SUFFICES ASSUME Sure(u), OnRing(nxt'[l], d), d # ListHead, OnRing(nxt'[l], q)
                       PROVE  at[q] < at[d]
            <6>1. Linked(l, ctx[u])' => OnRing(nxt'[l], ctx'[u])
              BY DEF Linked, OnRing
            <6>2. Sure(u) => d \in Ctx
              BY DEF Sure, SafeInv, KindInv, ClientsAtKind
            <6> QED
              BY <5>1, <6>1, <6>2, CtxAssumption DEF WalkAt, Linked
          <5>2. d \in Node /\ q \in Node
            BY DEF SafeInv, TypeOK
          <5>3. d # c /\ OnRing(nxt[l], d) /\ q # c /\ OnRing(nxt[l], q) /\ Linked(l, d)
            BY <1>10, <5>2 DEF OnRing, Linked
          <5>4. pos[q] < pos[d]
            <6>1. WalkAt(u, l, pos)
              BY <1>5
            <6> QED
              BY <4>3, <5>3, <6>1 DEF WalkAt
          <5>5. pos[q] # pos[c] /\ pos[d] # pos[c]
            BY <1>2, <1>5, <1>6, <5>2, <5>3 DEF Ring, Sorted
          <5> QED
            BY <1>2, <3>1, <5>2, <5>4, <5>5
        <4> QED
          BY <4>1, <4>2, <4>3
      <3>3. k - 1 \in Nat
        BY <1>9
      <3> QED
        BY <1>9, <2>2, <3>0, <3>1, <3>2, <3>3
    <2> QED
      BY <2>1, <2>2
  <1>13. t \in Client => ClientInv(t)'
    <2> SUFFICES ASSUME t \in Client PROVE ClientInv(t)'
      OBVIOUS
    <2>1. ClientInv(t) /\ t \notin List
      BY ThreadAssumption DEF WalkInv
    <2> QED
      BY <1>1, <1>2, <1>8, <2>1 DEF ClientInv, Sure, Linked
  <1>14. t \in List => LoopInv(t)'
    <2> SUFFICES ASSUME t \in List PROVE LoopInv(t)'
      OBVIOUS
    <2>1. t = l /\ LoopInv(t)
      BY <1>1 DEF WalkInv, SafeInv, KindInv, LoopsAtKind
    <2> QED
      BY <1>7, <1>11, <2>1 DEF LoopInv
  <1>15. \A u \in Client \ {t}, j \in List :
              /\ (pc[u] \in {"lock", "insert"} /\ op[u] = "add") \/ Sure(u)
              /\ nxt'[j][ctx[u]] # ctx[u]
              => Linked(j, ctx[u])
    <2> SUFFICES ASSUME NEW u \in Client, NEW j \in List, nxt'[j][ctx[u]] # ctx[u]
                 PROVE  Linked(j, ctx[u])
      OBVIOUS
    <2>1. ctx[u] \in Node
      BY NamesType DEF SafeInv, TypeOK
    <2>2. CASE j = l
      BY <1>2, <1>7, <1>8, <2>1, <2>2 DEF Linked
    <2>3. CASE j # l
      BY <1>3, <2>3 DEF Linked
    <2> QED
      BY <2>2, <2>3
  <1>16. /\ \A u \in Client \ {t} : ClientInv(u)'
         /\ \A j \in List \ {t} : LoopInv(j)'
    BY <1>1, <1>3, <1>15, OthersKeep
  <1> QED
    BY <1>12, <1>13, <1>14, <1>16 DEF WalkInv

\* What the numbers of a ring say of a walk: the step from node p towards a linked
\* context c, and the end of the ring.
LEMMA RingAhead ==
    ASSUME NEW nx \in [Node -> Node], NEW pv, NEW k \in Nat, NEW pos \in [Node -> Nat],
           Ring(nx, pv, k, pos), NEW p \in Node, OnRing(nx, p), NEW c \in Ctx
    PROVE  /\ OnRing(nx, nx[p])
           /\ OnRing(nx, c) => pos[ListHead] < pos[c]
           /\ OnRing(nx, c) /\ pos[p] < pos[c] =>
                 nx[p] # ListHead /\ (nx[p] # c => pos[nx[p]] < pos[c])
           /\ OnRing(nx, c) /\ pos[p] < pos[c] /\ p # ListHead => Prio[p] <= Prio[c]
  <1>1. c \in Node /\ c # ListHead /\ ListHead \in Node /\ OnRing(nx, ListHead) /\ nx[p] \in Node
    BY CtxAssumption DEF Node, OnRing
  <1>2. OnRing(nx, nx[p])
    BY DEF Ring, Numbers
  <1>3. OnRing(nx, c) => pos[ListHead] < pos[c]
    BY <1>1 DEF Ring, Sorted
  <1>4. OnRing(nx, c) => pos[c] <= k
    BY <1>1 DEF Ring, Numbers
  <1>5. /\ pos[p] = k => nx[p] = ListHead
        /\ pos[p] # k => pos[nx[p]] = pos[p] + 1
    BY DEF Ring, Numbers
  <1>6. OnRing(nx, c) /\ nx[p] # c => pos[nx[p]] # pos[c]
    BY <1>1, <1>2 DEF Ring, Sorted
  <1>7. pos[ListHead] = 0
    BY DEF Ring
  <1>8. OnRing(nx, c) /\ pos[p] < pos[c] => nx[p] # ListHead /\ (nx[p] # c => pos[nx[p]] < pos[c])
    BY <1>1, <1>4, <1>5, <1>6, <1>7
  <1>9. OnRing(nx, c) /\ pos[p] < pos[c] /\ p # ListHead => Prio[p] <= Prio[c]
    BY <1>1 DEF Ring, Sorted
  <1> QED
    BY <1>2, <1>3, <1>8, <1>9

\* A walk that is sure and reaches the head has not missed its context.
LEMMA SureAtEnd ==
    ASSUME SafeInv, WalkInv, NEW t \in Client, Sure(t), Ahead(t) = ListHead,
           NEW c, c = ctx[t], NEW l, l = walk[t]
    PROVE  ~Linked(l, c)
  <1>1. /\ t \in Thread /\ pc[t] = "exists" /\ c \in Ctx /\ l \in List /\ ptr[t] \in Node
        /\ nxt[l] \in [Node -> Node]
    BY NamesType DEF Sure, SafeInv, KindInv, ClientsAtKind, TypeOK
  <1>2. PICK k \in Nat, pos \in [Node -> Nat] :
            Ring(nxt[l], prv[l], k, pos) /\ WalkAt(t, l, pos)
    BY <1>1 DEF WalkInv, RingsInv
  <1>3. ASSUME Linked(l, c), OnRing(nxt[l], ptr[t]) PROVE nxt[l][ptr[t]] # ListHead
    <2>1. OnRing(nxt[l], c)
      BY <1>3 DEF OnRing, Linked
    <2>2. pos[ptr[t]] < pos[c]
      BY <1>1, <1>2, <1>3 DEF WalkAt
    <2> QED
      BY <1>1, <1>2, <1>3, <2>1, <2>2, RingAhead, SMTT(20)
  <1>4. Ahead(t) = nxt[l][ptr[t]] /\ OnRing(nxt[l], ptr[t])
    BY DEF Ahead, OnRing
  <1> QED
    BY <1>3, <1>4

\* Nor has the walk of a removal under the lock.
LEMMA RemoveAtEnd ==
    ASSUME SafeInv, WalkInv, NEW t \in Thread, pc[t] = "remove", Ahead(t) = ListHead,
           NEW c, c = ctx[t], NEW l, l = walk[t]
    PROVE  ~Linked(l, c)
  <1>1. l \in List /\ c \in Ctx /\ ptr[t] \in Node /\ Ahead(t) = nxt[l][ptr[t]]
    BY AltersInside DEF Ahead
  <1>2. PICK k \in Nat, pos \in [Node -> Nat] :
            Ring(nxt[l], prv[l], k, pos) /\ WalkAt(t, l, pos)
    BY <1>1 DEF WalkInv, RingsInv
  <1>3. nxt[l] \in [Node -> Node] /\ OnRing(nxt[l], ptr[t])
    BY <1>1, <1>2 DEF SafeInv, TypeOK, WalkAt
  <1>4. ASSUME Linked(l, c) PROVE nxt[l][ptr[t]] # ListHead
    <2>1. OnRing(nxt[l], c) /\ pos[ptr[t]] < pos[c]
      BY <1>2, <1>3, <1>4 DEF WalkAt, Linked, OnRing
    <2> QED
      BY <1>1, <1>2, <1>3, <2>1, RingAhead
  <1> QED
    BY <1>1, <1>4

\* The steps of the walks, one lemma per action.
LEMMA WalkExists ==
    ASSUME OnePollBit, OneAdder, SafeInv, WalkInv, NEW t \in Client, Exists(t),
           NEW c, c = ctx[t], NEW l, l = walk[t]
    PROVE  WalkInv'
  <1>1. /\ t \in Thread /\ t \notin List /\ pc[t] = "exists" /\ c \in Ctx
        /\ l \in List /\ First(c) = l /\ ptr[t] \in Node /\ ClientInv(t)
        /\ op[t] = "add" => <<t, "add", c>> \in Calls
    BY ThreadAssumption, NamesType
       DEF Exists, SafeInv, KindInv, ClientsAtKind, TypeOK, WalkInv, ClientInv
  <1>2. ctx' = ctx /\ op' = op /\ tmp' = tmp /\ links' = links
    BY DEF Exists
  <1>3. nxt' = nxt /\ prv' = prv /\ nxt[l] \in [Node -> Node]
    BY <1>1, <1>2 DEF links, SafeInv, TypeOK
  <1>4. PICK k \in Nat, pos \in [Node -> Nat] :
            Ring(nxt[l], prv[l], k, pos) /\ WalkAt(t, l, pos)
    BY <1>1 DEF WalkInv, RingsInv
  <1>5. op[t] = "add" /\ Ahead(t) = ListHead => ~Linked(l, c)
    BY <1>1, SureAtEnd DEF Sure, OneAdder
  <1>6. ASSUME NEW found \in BOOLEAN, ExistsReturns(t, c, found),
               ~found => Lists(c) = {} \/ Ahead(t) = ListHead
        PROVE  WalkInv'
    <2>1. /\ held' = [held EXCEPT ![t] = First(c)]
          /\ \E label \in {"refused", "added", "lock", "absent"} :
                 /\ pc' = [pc EXCEPT ![t] = label]
                 /\ label = "lock" /\ op[t] = "add" => ~found /\ Lists(c) # {}
      BY <1>6 DEF ExistsReturns, EndWalk, Goto
    <2>2. Alone(t)
      BY <1>1, <1>2, <1>6, <2>1
         DEF ExistsReturns, EndWalk, StartWalk, Alone, OthersStay, OnlyMoves, SafeInv, TypeOK
    <2>3. /\ pc'[t] \in {"refused", "added", "lock", "absent"}
          /\ pc'[t] = "lock" /\ op[t] = "add" => ~found /\ Lists(c) # {}
      BY <1>1, <2>1 DEF SafeInv, TypeOK
    <2>4. ClientInv(t)'
      <3>1. pc'[t] = "lock" /\ op[t] = "add" => ~Linked(l, c)
        BY <1>5, <1>6, <2>3
      <3> QED
        BY <1>1, <1>2, <1>3, <2>3, <3>1 DEF ClientInv, Sure, Linked
    <2>5. \A j \in List, i \in Nat, at \in [Node -> Nat] : WalkAt(t, j, at)'
      BY <2>3 DEF WalkAt, Sure
    <2> QED
      BY <1>1, <1>2, <2>2, <2>4, <2>5, QuietStep
  <1>7. CASE StepOn(t) /\ UNCHANGED held /\ Ahead(t) \notin {c, ListHead}
    <2>1. /\ pc' = pc /\ walk' = walk /\ held' = held /\ ptr'[t] = nxt[l][ptr[t]]
          /\ Alone(t)
      BY <1>1, <1>2, <1>7 DEF StepOn, Ahead, Alone, OthersStay, OnlyMoves, SafeInv, TypeOK
    <2>2. nxt[l][ptr[t]] \notin {c, ListHead}
      BY <1>7 DEF Ahead
    <2>3. ASSUME NEW j \in List, NEW i \in Nat, NEW at \in [Node -> Nat],
                 Ring(nxt[j], prv[j], i, at), WalkAt(t, j, at)
          PROVE  WalkAt(t, j, at)'
      <3> SUFFICES ASSUME j = l, Sure(t), Linked(l, c), OnRing(nxt[l], nxt[l][ptr[t]])
                   PROVE  at[nxt[l][ptr[t]]] < at[c]
        BY <1>1, <1>2, <1>3, <2>1 DEF WalkAt, Sure, Linked
      <3>1. CASE OnRing(nxt[l], ptr[t])
        <4>1. at[ptr[t]] < at[c]
          BY <1>1, <2>3, <3>1 DEF WalkAt
        <4> QED
          BY <1>1, <1>3, <2>2, <2>3, <3>1, <4>1, RingAhead DEF Linked, OnRing
      <3>2. CASE ~OnRing(nxt[l], ptr[t])
        BY <3>2 DEF OnRing
      <3> QED
        BY <3>1, <3>2
    <2>4. ClientInv(t)'
      <3> SUFFICES ASSUME Sure(t), Linked(l, c) PROVE Prio[nxt[l][ptr[t]]] <= Prio[c]
        BY <1>1, <1>2, <1>3, <2>1, <2>2 DEF ClientInv, Sure, Linked
      <3>1. CASE OnRing(nxt[l], ptr[t])
        <4>1. pos[ptr[t]] < pos[c] /\ OnRing(nxt[l], c)
          BY <1>1, <1>4, <3>1 DEF WalkAt, Linked, OnRing
        <4>2. OnRing(nxt[l], nxt[l][ptr[t]]) /\ pos[nxt[l][ptr[t]]] < pos[c]
          BY <1>1, <1>3, <1>4, <2>2, <3>1, <4>1, RingAhead
        <4>3. nxt[l][ptr[t]] \in Node
          BY <1>1, <1>3
        <4> QED
          BY <1>1, <1>3, <1>4, <2>2, <4>1, <4>2, <4>3, RingAhead
      <3>2. CASE ~OnRing(nxt[l], ptr[t])
        BY <1>1, <2>2, <3>2 DEF OnRing, ClientInv
      <3> QED
        BY <3>1, <3>2
    <2> QED
      BY <1>1, <1>2, <2>1, <2>3, <2>4, QuietStep
  <1>8. ~(Second(l, c) /\ Lists(c) # {})
    BY <1>1 DEF OnePollBit, Second, First
  <1> QED
    BY <1>6, <1>7, <1>8 DEF Exists

LEMMA WalkInsert ==
    ASSUME OnePollBit, OneAdder, SafeInv, WalkInv, NEW t \in Client, Insert(t)
    PROVE  WalkInv'
  <1>1. /\ t \in Thread /\ t \notin List /\ pc[t] = "insert" /\ ClientInv(t)
        /\ ctx' = ctx /\ held' = held /\ tmp' = tmp /\ op' = op
    BY ThreadAssumption, NamesType DEF Insert, WalkInv
  <1>2. /\ walk[t] \in List /\ ctx[t] \in Ctx /\ ptr[t] \in Node /\ walk[t] \in Kind[ctx[t]]
        /\ Ahead(t) \in Node /\ held[t] = walk[t]
    BY <1>1, AltersInside, AheadType DEF SafeInv
  <1>3. ~Second(walk[t], ctx[t])
    BY <1>2, OneList
  <1>4. CASE /\ LinkBefore(walk[t], ctx[t], Ahead(t))
             /\ EndWalk(t, "unlock")
             /\ Ahead(t) = ListHead \/ Prio[ctx[t]] <= Prio[Ahead(t)]
    <2>1. Alone(t) /\ pc'[t] = "unlock"
      BY <1>1, <1>4
         DEF EndWalk, StartWalk, Goto, Alone, OthersStay, OnlyMoves, SafeInv, TypeOK
    <2> QED
      BY <1>1, <1>4, <2>1, LinkStep
  <1>5. CASE Ahead(t) # ListHead /\ Prio[ctx[t]] > Prio[Ahead(t)] /\ StepOn(t) /\ UNCHANGED links
    <2>1. /\ pc' = pc /\ walk' = walk /\ ptr'[t] = nxt[walk[t]][ptr[t]] /\ Alone(t)
          /\ nxt' = nxt /\ prv' = prv
      BY <1>1, <1>2, <1>5
         DEF StepOn, Ahead, links, Alone, OthersStay, OnlyMoves, SafeInv, TypeOK
    <2>2. ASSUME NEW j \in List, NEW i \in Nat, NEW at \in [Node -> Nat],
                 Ring(nxt[j], prv[j], i, at), WalkAt(t, j, at)
          PROVE  WalkAt(t, j, at)'
      BY <1>1, <1>2, <2>1, <2>2 DEF WalkAt, Sure, Ring, Numbers
    <2>3. Prio[nxt[walk[t]][ptr[t]]] < Prio[ctx[t]]
      <3>1. Ahead(t) \in Ctx
        BY <1>2, <1>5 DEF Node
      <3> QED
        BY <1>2, <1>5, <3>1, CtxAssumption DEF Ahead
    <2>4. ClientInv(t)'
      BY <1>1, <2>1, <2>3 DEF ClientInv, Sure, Linked
    <2> QED
      BY <1>1, <1>5, <2>1, <2>2, <2>4, QuietStep
  <1> QED
    BY <1>3, <1>4, <1>5 DEF Insert, NextList

LEMMA WalkRemove ==
    ASSUME OnePollBit, SafeInv, WalkInv, NEW t \in Thread, Remove(t),
           NEW after, after = IF t \in List THEN "reset" ELSE "unlock",
           NEW l, l = walk[t], NEW c, c = ctx[t]
    PROVE  WalkInv'
  <1>1. /\ pc[t] = "remove" /\ ctx' = ctx /\ held' = held /\ tmp' = tmp /\ op' = op
        /\ t \in List \/ (t \in Client /\ t \notin List)
    BY DEF Remove, Thread
  <1>2. /\ l \in List /\ c \in Ctx /\ ptr[t] \in Node /\ l \in Kind[c]
        /\ Ahead(t) = nxt[l][ptr[t]] /\ held[t] = l
    BY <1>1, AltersInside DEF Ahead
  <1>3. ~Second(l, c)
    BY <1>2, OneList
  <1>4. CASE Ahead(t) = c /\ Unlink(l, c) /\ EndWalk(t, after)
    <2>1. Alone(t) /\ pc'[t] = after
      BY <1>1, <1>4
         DEF EndWalk, StartWalk, Goto, Alone, OthersStay, OnlyMoves, SafeInv, TypeOK
    <2> QED
      BY <1>1, <1>4, <2>1, UnlinkStep
  <1>5. PICK k \in Nat, pos \in [Node -> Nat] :
            Ring(nxt[l], prv[l], k, pos) /\ WalkAt(t, l, pos)
    BY <1>2 DEF WalkInv, RingsInv
  <1>6. nxt[l] \in [Node -> Node] /\ OnRing(nxt[l], ptr[t])
    BY <1>1, <1>2, <1>5 DEF SafeInv, TypeOK, WalkAt
  <1>7. CASE Ahead(t) = ListHead /\ EndWalk(t, after) /\ UNCHANGED links
    <2>1. Alone(t) /\ pc'[t] = after /\ nxt' = nxt /\ prv' = prv
      BY <1>1, <1>7
         DEF EndWalk, StartWalk, Goto, links, Alone, OthersStay, OnlyMoves, SafeInv, TypeOK
    <2>2. \A j \in List, i \in Nat, at \in [Node -> Nat] : WalkAt(t, j, at)'
      BY <2>1 DEF WalkAt, Sure
    <2>3. ~Linked(l, c)
      BY <1>1, <1>7, RemoveAtEnd
    <2>4. t \in Client => ClientInv(t)'
      BY <1>1, <1>2, <2>1, <2>3, ThreadAssumption DEF ClientInv, Sure, Linked, WalkInv
    <2>5. t \in List => LoopInv(t)'
      <3> SUFFICES ASSUME t \in List PROVE LoopInv(t)'
        OBVIOUS
      <3>1. t = l /\ OnRing(nxt[l], c) /\ tmp[t] = nxt[l][c]
        BY <1>1, <1>2 DEF SafeInv, KindInv, LoopsAtKind, WalkInv, LoopInv
      <3>2. OnRing(nxt[l], nxt[l][c])
        BY <1>2, <1>5, <3>1 DEF Ring, Numbers, Node
      <3> QED
        BY <1>1, <2>1, <3>1, <3>2 DEF LoopInv
    <2> QED
      BY <1>7, <2>1, <2>2, <2>4, <2>5, QuietStep
  <1>8. CASE Ahead(t) \notin {c, ListHead} /\ StepOn(t) /\ UNCHANGED links
    <2>1. /\ pc' = pc /\ walk' = walk /\ ptr'[t] = nxt[l][ptr[t]] /\ Alone(t)
          /\ nxt' = nxt /\ prv' = prv
      BY <1>1, <1>2, <1>8
         DEF StepOn, Ahead, links, Alone, OthersStay, OnlyMoves, SafeInv, TypeOK
    <2>2. ASSUME NEW j \in List, NEW i \in Nat, NEW at \in [Node -> Nat],
                 Ring(nxt[j], prv[j], i, at), WalkAt(t, j, at)
          PROVE  WalkAt(t, j, at)'
      <3> SUFFICES ASSUME j = l
                   PROVE  /\ OnRing(nxt[l], nxt[l][ptr[t]])
                          /\ Linked(l, c) => at[nxt[l][ptr[t]]] < at[c]
        BY <1>1, <2>1 DEF WalkAt, Sure, Linked
      <3>1. Linked(l, c) => OnRing(nxt[l], c) /\ at[ptr[t]] < at[c]
        BY <1>1, <1>6, <2>2 DEF WalkAt, Linked, OnRing
      <3> QED
        BY <1>2, <1>6, <1>8, <2>2, <3>1, RingAhead
    <2>3. t \in Client => ClientInv(t)'
      BY <1>1, <2>1, ThreadAssumption DEF ClientInv, Sure, Linked, WalkInv
    <2>4. t \in List => LoopInv(t)'
      BY <1>1, <2>1 DEF LoopInv, WalkInv
    <2> QED
      BY <1>8, <2>1, <2>2, <2>3, <2>4, QuietStep
  <1> QED
    BY <1>3, <1>4, <1>7, <1>8 DEF Remove, NextList

LEMMA WalkClientStep ==
    ASSUME OnePollBit, OneAdder, SafeInv, WalkInv, NEW t \in Client, ClientStep(t) \/ Lock(t)
    PROVE  WalkInv'
  <1>1. t \in Thread /\ t \notin List /\ ClientInv(t)
    BY ThreadAssumption, NamesType DEF WalkInv
  <1>2. CASE Lock(t)
    <2>1. /\ pc[t] = "lock" /\ ctx' = ctx /\ held' = held /\ tmp' = tmp /\ links' = links
          /\ op' = op /\ ctx[t] \in Ctx /\ op[t] \in {"add", "del"}
          /\ nxt' = nxt /\ prv' = prv
      BY <1>1, <1>2 DEF Lock, links, SafeInv, KindInv, ClientsAtKind, TypeOK
    <2>2. /\ Alone(t) /\ ptr'[t] = ListHead /\ walk'[t] = First(ctx[t])
          /\ pc'[t] = IF op[t] = "add" THEN "insert" ELSE "remove"
      BY <1>1, <1>2, <2>1, NamesType
         DEF Lock, StartWalk, Goto, Alone, OthersStay, OnlyMoves, SafeInv, TypeOK
    <2>3. ASSUME NEW j \in List, NEW i \in Nat, NEW at \in [Node -> Nat],
                 Ring(nxt[j], prv[j], i, at), WalkAt(t, j, at)
          PROVE  WalkAt(t, j, at)'
      <3>1. nxt[j] \in [Node -> Node] /\ ListHead \in Node /\ OnRing(nxt[j], ListHead)
        BY NamesType DEF SafeInv, TypeOK, OnRing
      <3>2. Linked(j, ctx[t]) => at[ListHead] < at[ctx[t]]
        BY <2>1, <2>3, <3>1, RingAhead DEF Linked, OnRing
      <3> QED
        BY <2>1, <2>2, <3>1, <3>2 DEF WalkAt, Sure, Linked
    <2>4. ClientInv(t)'
      BY <1>1, <2>1, <2>2 DEF ClientInv, Sure, Linked
    <2> QED
      BY <1>1, <2>1, <2>2, <2>3, <2>4, QuietStep
  <1>3. CASE Unlock(t)
    <2>1. /\ pc[t] = "unlock" /\ ctx' = ctx /\ tmp' = tmp /\ links' = links /\ op' = op
          /\ walk' = walk /\ ptr' = ptr
          /\ ctx[t] \in Ctx /\ held[t] \in List /\ held[t] \in Kind[ctx[t]]
      BY <1>1, <1>3 DEF Unlock, SafeInv, KindInv, ClientsAtKind, TypeOK
    <2>2. ~Second(held[t], ctx[t])
      BY <2>1, OneList
    <2>3. Alone(t) /\ pc'[t] \in {"added", "deleted"}
      BY <1>1, <1>3, <2>1, <2>2
         DEF Unlock, Goto, Alone, OthersStay, OnlyMoves, SafeInv, TypeOK
    <2>4. ClientInv(t)' /\ \A j \in List, i \in Nat, at \in [Node -> Nat] : WalkAt(t, j, at)'
      BY <2>3 DEF ClientInv, Sure, WalkAt
    <2> QED
      BY <1>1, <2>1, <2>3, <2>4, QuietStep
  <1>4. CASE Return(t)
    <2>1. /\ pc'[t] = "idle" /\ tmp' = tmp /\ links' = links /\ Alone(t)
      BY <1>1, <1>4 DEF Return, Goto, Alone, OthersStay, OnlyMoves, SafeInv, TypeOK
    <2>2. ClientInv(t)' /\ \A j \in List, i \in Nat, at \in [Node -> Nat] : WalkAt(t, j, at)'
      BY <2>1 DEF ClientInv, Sure, WalkAt
    <2> QED
      BY <1>1, <2>1, <2>2, QuietStep
  <1> QED
    BY <1>1, <1>2, <1>3, <1>4, WalkExists, WalkInsert, WalkRemove DEF ClientStep
LEMMA WalkLoopStep ==
    ASSUME OnePollBit, SafeInv, WalkInv, NEW l \in List, LoopStep(l) \/ LockStep(l)
    PROVE  WalkInv'
  <1>1. /\ l \in Thread /\ l \notin Client /\ LoopInv(l) /\ ListHead \in Node
        /\ nxt[l] \in [Node -> Node]
        /\ ctx[l] \in Node /\ tmp[l] \in Node /\ held[l] = l
    BY ThreadAssumption, NamesType DEF WalkInv, SafeInv, TypeOK, KindInv, LoopsAtKind
  <1>2. PICK k \in Nat, pos \in [Node -> Nat] : Ring(nxt[l], prv[l], k, pos)
    BY DEF WalkInv, RingsInv
  <1>3. \A n \in Node : OnRing(nxt[l], n) => OnRing(nxt[l], nxt[l][n])
    BY <1>2 DEF Ring, Numbers
  <1>4. CASE CheckHalt(l) \/ LockScan(l) \/ Scan(l) \/ UnlockScan(l) \/ SelectFails(l)
             \/ SelectReturns(l) \/ UnlockDispatch(l)
    <2>1. links' = links /\ nxt' = nxt
      BY <1>4 DEF CheckHalt, LockScan, Scan, UnlockScan, SelectFails, SelectReturns,
                  UnlockDispatch, links
    <2>2. pc'[l] \in {"halt", "done", "lockScan", "scan", "select", "lockDispatch"}
      BY <1>1, <1>4
         DEF CheckHalt, LockScan, Scan, UnlockScan, SelectFails, SelectReturns,
             UnlockDispatch, EndWalk, StepOn, Goto, SafeInv, TypeOK
    <2>3. Alone(l)
      BY <1>1, <1>4
         DEF CheckHalt, LockScan, Scan, UnlockScan, SelectFails, SelectReturns,
             UnlockDispatch, EndWalk, StepOn, StartWalk, Goto, Alone, OthersStay, OnlyMoves,
             SafeInv, TypeOK
    <2>4. LoopInv(l)' /\ \A j \in List, i \in Nat, at \in [Node -> Nat] : WalkAt(l, j, at)'
      BY <1>1, <2>2 DEF LoopInv, WalkAt, Sure
    <2> QED
      BY <1>1, <2>1, <2>3, <2>4, QuietStep
  <1>5. ASSUME NEW n \in Node, MoveTo(l, n), OnRing(nxt[l], n), links' = links,
               held' = held, op' = op, pc' = [pc EXCEPT ![l] = "dispatch"],
               UNCHANGED <<walk, ptr>>
        PROVE  WalkInv'
    <2>1. ctx'[l] = n /\ tmp'[l] = nxt[l][n] /\ pc'[l] = "dispatch" /\ nxt' = nxt
      BY <1>1, <1>5 DEF MoveTo, links, SafeInv, TypeOK
    <2>2. Alone(l)
      BY <1>1, <1>5 DEF MoveTo, Alone, OthersStay, OnlyMoves, SafeInv, TypeOK
    <2>3. LoopInv(l)' /\ \A j \in List, i \in Nat, at \in [Node -> Nat] : WalkAt(l, j, at)'
      BY <1>1, <1>5, <2>1 DEF LoopInv, WalkAt, Sure
    <2> QED
      BY <1>1, <1>5, <2>2, <2>3, QuietStep
  <1>6. CASE LockDispatch(l)
    <2>1. nxt[l][ListHead] \in Node /\ OnRing(nxt[l], nxt[l][ListHead])
      BY <1>1, <1>3 DEF OnRing
    <2> QED
      BY <1>5, <1>6, <2>1 DEF LockDispatch, Goto
  <1>7. CASE Reset(l)
    BY <1>1, <1>5, <1>7 DEF Reset, Advance, Goto, LoopInv
  <1>8. CASE Dispatch(l)
    <2>1. OnRing(nxt[l], ctx[l]) /\ tmp[l] = nxt[l][ctx[l]] /\ OnRing(nxt[l], tmp[l])
      BY <1>1, <1>3, <1>8 DEF Dispatch, LoopInv
    <2>2. CASE Advance(l)
      BY <1>1, <1>5, <1>8, <2>1, <2>2 DEF Dispatch, Advance, Goto
    <2>3. CASE Goto(l, "handler") /\ UNCHANGED <<ctx, tmp>>
      <3>1. links' = links /\ nxt' = nxt
        BY <1>8 DEF Dispatch, links
      <3>2. Alone(l) /\ pc'[l] = "handler"
        BY <1>1, <1>8, <2>3
           DEF Dispatch, Goto, Alone, OthersStay, OnlyMoves, SafeInv, TypeOK
      <3>3. LoopInv(l)' /\ \A j \in List, i \in Nat, at \in [Node -> Nat] : WalkAt(l, j, at)'
        BY <1>1, <2>1, <2>3, <3>1, <3>2 DEF LoopInv, WalkAt, Sure
      <3> QED
        BY <1>1, <3>1, <3>2, <3>3, QuietStep
    <2> QED
      BY <1>8, <2>2, <2>3 DEF Dispatch
  <1>9. CASE HandlerReturns(l)
    <2>1. /\ links' = links /\ nxt' = nxt /\ UNCHANGED <<ctx, tmp>>
          /\ OnRing(nxt[l], ctx[l]) /\ tmp[l] = nxt[l][ctx[l]] /\ OnRing(nxt[l], tmp[l])
          /\ ctx[l] # ListHead
      BY <1>1, <1>3, <1>9 DEF HandlerReturns, LoopInv, links, SafeInv, KindInv, LoopsAtKind
    <2>2. ctx[l] \in Ctx /\ First(ctx[l]) = l
      BY <1>1, <2>1, OneList DEF SafeInv, KindInv, LoopsAtKind, Node
    <2>3. Alone(l)
      BY <1>1, <1>9
         DEF HandlerReturns, StartWalk, Goto, Alone, OthersStay, OnlyMoves, SafeInv, TypeOK
    <2>4. \/ pc'[l] = "reset"
          \/ pc'[l] = "remove" /\ walk'[l] = l /\ ptr'[l] = ListHead
      BY <1>1, <1>9, <2>2 DEF HandlerReturns, StartWalk, Goto, SafeInv, TypeOK
    <2>5. ASSUME NEW j \in List, NEW i \in Nat, NEW at \in [Node -> Nat],
                 Ring(nxt[j], prv[j], i, at)
          PROVE  WalkAt(l, j, at)'
      <3>1. nxt[j] \in [Node -> Node] /\ ListHead \in Node /\ OnRing(nxt[j], ListHead)
        BY NamesType DEF SafeInv, TypeOK, OnRing
      <3>2. Linked(j, ctx[l]) => at[ListHead] < at[ctx[l]]
        BY <2>2, <2>5, <3>1, RingAhead DEF Linked, OnRing
      <3> QED
        BY <1>1, <2>1, <2>4, <3>1, <3>2 DEF WalkAt, Sure, Linked
    <2>6. LoopInv(l)'
      BY <2>1, <2>4 DEF LoopInv
    <2> QED
      BY <1>1, <2>1, <2>3, <2>5, <2>6, QuietStep
  <1>10. CASE Remove(l)
    BY <1>1, <1>10, WalkRemove
  <1> QED
    BY <1>4, <1>6, <1>7, <1>8, <1>9, <1>10 DEF LoopStep, LockStep

LEMMA WalkInit == Init => WalkInv
  <1> SUFFICES ASSUME Init PROVE WalkInv
    OBVIOUS
  <1>1. ASSUME NEW l \in List
        PROVE  \E k \in Nat, pos \in [Node -> Nat] :
                   Ring(nxt[l], prv[l], k, pos) /\ \A t \in Thread : WalkAt(t, l, pos)
    <2> DEFINE pos == [n \in Node |-> 0]
    <2>1. \A n \in Node : nxt[l][n] = n /\ prv[l][n] = n
      BY DEF Init
    <2>2. \A n \in Node : OnRing(nxt[l], n) <=> n = ListHead
      BY <2>1 DEF OnRing
    <2>3. pos \in [Node -> Nat] /\ \A n \in Node : pos[n] = 0
      OBVIOUS
    <2> HIDE DEF pos
    <2>4. Ring(nxt[l], prv[l], 0, pos)
      BY <2>1, <2>2, <2>3, NamesType DEF Ring, Numbers, Sorted, Dense
    <2>5. \A t \in Thread : WalkAt(t, l, pos)
      BY ThreadAssumption DEF Init, WalkAt, Sure, Thread, List
    <2> QED
      BY <2>3, <2>4, <2>5
  <1>2. \A t \in Client : ClientInv(t)
    BY ThreadAssumption DEF Init, ClientInv, Sure, Thread, List
  <1>3. \A l \in List : LoopInv(l)
    BY ThreadAssumption DEF Init, LoopInv, Thread, List
  <1> QED
    BY <1>1, <1>2, <1>3 DEF WalkInv, RingsInv

LEMMA WalkNext ==
    ASSUME OnePollBit, OneAdder, SafeInv, WalkInv, [Next]_vars
    PROVE  WalkInv'
  <1>1. ASSUME NEW k \in Calls, Call(k[1], k[2], k[3]) PROVE WalkInv'
    <2> DEFINE t == k[1]
               c == k[3]
    <2>1. /\ t \in Client /\ t \in Thread /\ t \notin List /\ c \in Ctx
          /\ k = <<t, k[2], c>>
      BY ThreadAssumption, NamesType
    <2>2. /\ Alone(t) /\ pc'[t] = "exists" /\ ctx'[t] = c /\ op'[t] = k[2]
          /\ walk'[t] = First(c) /\ ptr'[t] = ListHead
          /\ links' = links /\ nxt' = nxt
      BY <1>1, <2>1
         DEF Call, StartWalk, Goto, links, Alone, OthersStay, OnlyMoves, SafeInv, TypeOK
    <2>3. ASSUME NEW j \in List, NEW i \in Nat, NEW at \in [Node -> Nat],
                 Ring(nxt[j], prv[j], i, at)
          PROVE  WalkAt(t, j, at)'
      <3>1. nxt[j] \in [Node -> Node] /\ ListHead \in Node /\ OnRing(nxt[j], ListHead)
        BY NamesType DEF SafeInv, TypeOK, OnRing
      <3>2. OnRing(nxt[j], c) => at[ListHead] < at[c]
        BY <2>1, <2>3, <3>1, RingAhead
      <3> QED
        BY <2>1, <2>2, <3>1, <3>2 DEF WalkAt, Sure, Linked, OnRing
    <2>4. ClientInv(t)'
      BY <2>1, <2>2, CtxAssumption DEF ClientInv, Sure
    <2> QED
      BY <2>1, <2>2, <2>3, <2>4, QuietStep
  <1>2. CASE SetHalt
    <2>1. ClientInv(Main) /\ Main \in Thread /\ Main \notin List
      BY ThreadAssumption, NamesType DEF WalkInv
    <2>2. Alone(Main) /\ links' = links /\ UNCHANGED <<nxt, pc, op, ctx, walk, ptr, held>>
      BY <1>2 DEF SetHalt, links, Alone, OthersStay, OnlyMoves
    <2>3. ClientInv(Main)'
      BY <2>1, <2>2 DEF ClientInv, Sure, Linked
    <2>4. \A l \in List, k \in Nat, pos \in [Node -> Nat] :
              WalkAt(Main, l, pos) => WalkAt(Main, l, pos)'
      BY <2>2 DEF WalkAt, Sure, Linked
    <2> QED
      BY <2>1, <2>2, <2>3, <2>4, QuietStep
  <1>3. CASE UNCHANGED vars
    <2>1. ClientInv(Main) /\ Main \in Thread /\ Main \notin List
      BY ThreadAssumption, NamesType DEF WalkInv
    <2>2. Alone(Main) /\ links' = links /\ UNCHANGED <<nxt, pc, op, ctx, walk, ptr, held>>
      BY <1>3 DEF vars, links, Alone, OthersStay, OnlyMoves
    <2>3. ClientInv(Main)'
      BY <2>1, <2>2 DEF ClientInv, Sure, Linked
    <2>4. \A l \in List, k \in Nat, pos \in [Node -> Nat] :
              WalkAt(Main, l, pos) => WalkAt(Main, l, pos)'
      BY <2>2 DEF WalkAt, Sure, Linked
    <2> QED
      BY <2>1, <2>2, <2>3, <2>4, QuietStep
  <1> QED
    BY <1>1, <1>2, <1>3, WalkClientStep, WalkLoopStep DEF Next

\* The inductive invariant of the lists.
LEMMA ListsInv ==
    ASSUME OnePollBit, OneAdder
    PROVE  Spec => [](SafeInv /\ WalkInv)
  <1>1. Init => SafeInv /\ WalkInv
    BY TypeInit, LockInit, KindInit, WalkInit DEF SafeInv
  <1>2. SafeInv /\ WalkInv /\ [Next]_vars => (SafeInv /\ WalkInv)'
    BY SafeInvNext, WalkNext
  <1> QED
    BY <1>1, <1>2, PTL DEF Spec

\* The numbers of a ring list its contexts in the form RingOf asks for.
LEMMA RingListed ==
    ASSUME SafeInv, NEW l \in List, NEW k \in Nat, NEW pos \in [Node -> Nat],
           Ring(nxt[l], prv[l], k, pos)
    PROVE  RingOf(l)
  <1> DEFINE nx == nxt[l]
             linked == {c \in Ctx : Linked(l, c)}
             order == [i \in 1 .. k |-> CHOOSE c \in linked : pos[c] = i]
  <1>0. /\ pos[ListHead] = 0 /\ Numbers(nx, prv[l], k, pos) /\ Sorted(nx, pos)
        /\ Dense(nx, k, pos) /\ ListHead \in Node /\ OnRing(nx, ListHead)
        /\ nx \in [Node -> Node]
    BY NamesType DEF Ring, OnRing, SafeInv, TypeOK
  <1>1. \A c : c \in linked <=> c \in Node /\ c # ListHead /\ OnRing(nx, c)
    BY CtxAssumption DEF Linked, OnRing, Node
  <1>2. ASSUME NEW i \in 1 .. k PROVE \E c \in linked : pos[c] = i
    <2>1. PICK n \in Node : OnRing(nx, n) /\ pos[n] = i
      BY <1>0 DEF Dense
    <2>2. n # ListHead
      BY <1>0, <2>1
    <2>3. n \in linked
      BY <1>1, <2>1, <2>2
    <2> QED
      BY <2>1, <2>3
  <1>3. \A c \in linked : pos[c] \in 1 .. k
    BY <1>0, <1>1 DEF Numbers, Sorted
  <1>4. \A b, c \in linked : pos[b] = pos[c] => b = c
    BY <1>0, <1>1 DEF Sorted
  <1> HIDE DEF linked
  <1>5. order \in [1 .. k -> linked] /\ \A i \in 1 .. k : pos[order[i]] = i
    <2>1. \A i \in 1 .. k : order[i] \in linked /\ pos[order[i]] = i
      BY <1>2
    <2> QED
      BY <2>1
  <1> HIDE DEF order
  <1>6. \A c \in linked : order[pos[c]] = c
    BY <1>3, <1>4, <1>5
  <1>7. Cardinality(linked) = k
    <2>1. order \in Bijection(1 .. k, linked)
      <3>1. order \in Injection(1 .. k, linked)
        BY <1>5 DEF Injection, IsInjective
      <3>2. order \in Surjection(1 .. k, linked)
        BY <1>3, <1>5, <1>6 DEF Surjection
      <3> QED
        BY <3>1, <3>2 DEF Bijection
    <2> QED
      BY <2>1, FS_CountingElements DEF ExistsBijection
  <1> DEFINE node(i) == IF i \in 1 .. k THEN order[i] ELSE ListHead
  <1>8. linked = {order[i] : i \in 1 .. k}
    BY <1>3, <1>5, <1>6
  <1>9. ASSUME NEW i \in 0 .. k
        PROVE  nxt[l][node(i)] = node(i + 1) /\ prv[l][node(i + 1)] = node(i)
    <2>1. node(i) \in Node /\ OnRing(nx, node(i)) /\ pos[node(i)] = i
      BY <1>0, <1>1, <1>5
    <2>2. prv[l][nx[node(i)]] = node(i) /\ nx[node(i)] \in Node /\ OnRing(nx, nx[node(i)])
      BY <1>0, <2>1 DEF Numbers
    <2>3. CASE i = k
      BY <1>0, <2>1, <2>2, <2>3 DEF Numbers
    <2>4. CASE i # k
      <3>1. pos[nx[node(i)]] = i + 1
        BY <1>0, <2>1, <2>4 DEF Numbers
      <3>2. nx[node(i)] \in linked
        BY <1>0, <1>1, <2>2, <3>1
      <3> QED
        BY <1>6, <2>2, <2>4, <3>1, <3>2
    <2> QED
      BY <2>3, <2>4
  <1>10. ASSUME NEW i \in 1 .. k, NEW j \in i .. k PROVE Prio[order[i]] <= Prio[order[j]]
    <2>1. order[i] \in linked /\ order[j] \in linked /\ pos[order[i]] = i /\ pos[order[j]] = j
      BY <1>5
    <2>2. order[i] \in Ctx
      BY <2>1 DEF linked
    <2>3. CASE i = j
      BY <2>2, <2>3, CtxAssumption
    <2>4. CASE i < j
      BY <1>0, <1>1, <2>1, <2>4 DEF Sorted
    <2> QED
      BY <2>3, <2>4
  <1> QED
    BY <1>5, <1>7, <1>8, <1>9, <1>10 DEF RingOf, linked

\* When no context has both poll bits and no context is added by two threads,
\* the two lists stay rings sorted by priority, whatever adds, removals by clients
\* and removals by the loops interleave: the links __list_add and list_del_init
\* write under the locks are never applied to a node that is on the list, or off
\* it, against what the code takes it for.
THEOREM RingsStaySorted ==
    ASSUME OnePollBit, OneAdder
    PROVE  Spec => []ListsAreSortedRings
  <1>1. SafeInv /\ WalkInv => ListsAreSortedRings
    BY RingListed DEF WalkInv, RingsInv, ListsAreSortedRings
  <1> QED
    BY <1>1, ListsInv, PTL

\* The answer `not on the list' of the unlocked walk of sios_source_ctx_exists
\* still holds when the lock is taken, though other clients and the loops alter
\* the list during the walk and after it.
THEOREM AddsAreFresh ==
    ASSUME OnePollBit, OneAdder
    PROVE  Spec => []AddInsertsFresh
  <1>1. SafeInv /\ WalkInv => AddInsertsFresh
    <2> SUFFICES ASSUME SafeInv, WalkInv, NEW t \in Client, pc[t] = "insert"
                 PROVE  ~Linked(walk[t], ctx[t])
      BY DEF AddInsertsFresh
    <2>1. walk[t] \in List /\ ctx[t] \in Ctx /\ walk[t] \in Kind[ctx[t]]
      BY ThreadAssumption, NamesType, AltersInside
    <2> QED
      BY <2>1, OneList DEF WalkInv, ClientInv
  <1> QED
    BY <1>1, ListsInv, PTL

\* A call that took the lock has done its work when it gives the lock back.
THEOREM LockedCallsWork ==
    ASSUME OnePollBit, OneAdder
    PROVE  Spec => []LockedCallTakesEffect
  <1>1. SafeInv /\ WalkInv => LockedCallTakesEffect
    BY DEF WalkInv, ClientInv, LockedCallTakesEffect
  <1> QED
    BY <1>1, ListsInv, PTL

\* A loop calls handlers of contexts on its list only, and the position it saved
\* before the handler is still on the list after a removal.
THEOREM DispatchIsSafe ==
    ASSUME OnePollBit, OneAdder
    PROVE  Spec => []DispatchFollowsList
  <1>1. SafeInv /\ WalkInv => DispatchFollowsList
    <2> SUFFICES ASSUME SafeInv, WalkInv, NEW l \in List
                 PROVE  /\ pc[l] \in {"handler", "reset"} => \A t \in Client : ~Inside(t, l)
                        /\ pc[l] = "handler" => Linked(l, ctx[l])
                        /\ pc[l] \in {"dispatch", "handler", "reset"} =>
                              tmp[l] = ListHead \/ Linked(l, tmp[l])
                        /\ pc[l] \in {"dispatch", "handler"} => tmp[l] = nxt[l][ctx[l]]
      BY DEF DispatchFollowsList
    <2>1. LoopInv(l) /\ l \in Thread
      BY NamesType DEF WalkInv
    <2>2. PICK k \in Nat, pos \in [Node -> Nat] : Ring(nxt[l], prv[l], k, pos)
      BY DEF WalkInv, RingsInv
    <2>3. ASSUME pc[l] \in {"handler", "reset"}, NEW t \in Client PROVE ~Inside(t, l)
      <3>1. Inside(l, l) /\ t \in Thread /\ t # l
        BY <2>3, ThreadAssumption, NamesType DEF Inside
      <3> QED
        BY <2>1, <3>1, OneInside DEF SafeInv
    <2>4. pc[l] = "handler" => Linked(l, ctx[l])
      BY <2>1 DEF LoopInv, OnRing, Linked, SafeInv, KindInv, LoopsAtKind
    <2>5. pc[l] \in {"dispatch", "handler", "reset"} => OnRing(nxt[l], tmp[l])
      <3>1. ctx[l] \in Node
        BY <2>1 DEF SafeInv, TypeOK
      <3> QED
        BY <2>1, <2>2, <3>1 DEF LoopInv, Ring, Numbers
    <2> QED
      BY <2>1, <2>3, <2>4, <2>5 DEF LoopInv, OnRing, Linked
  <1> QED
    BY <1>1, ListsInv, PTL

-----------------------------------------------------------------------------
(* The registry *)

\* What a step shows of the registry: a client's own call, a loop's own handler.
LEMMA ClientShows ==
    ASSUME TypeOK, NEW t \in Client, Alone(t)
    PROVE  /\ CallOf[t] = [at |-> Stage(t), op |-> op[t], ctx |-> ctx[t]]
           /\ CallOf[t].at = Stage(t) /\ CallOf[t].op = op[t] /\ CallOf[t].ctx = ctx[t]
           /\ CallOf' = [CallOf EXCEPT ![t] = [at |-> Stage(t)', op |-> op'[t], ctx |-> ctx'[t]]]
           /\ op'[t] = op[t] /\ ctx'[t] = ctx[t] => CallOf' = [CallOf EXCEPT ![t].at = Stage(t)']
           /\ op'[t] = op[t] /\ ctx'[t] = ctx[t] /\ Stage(t)' = Stage(t) => CallOf' = CallOf
           /\ Called' = Called
  <1>1. \A u \in Client \ {t} : Stage(u)' = Stage(u) /\ op'[u] = op[u] /\ ctx'[u] = ctx[u]
    BY NamesType DEF Alone, OthersStay, OnlyMoves, Stage
  <1>2. CallOf[t] = [at |-> Stage(t), op |-> op[t], ctx |-> ctx[t]]
    BY DEF CallOf
  <1>3. CallOf' = [CallOf EXCEPT ![t] = [at |-> Stage(t)', op |-> op'[t], ctx |-> ctx'[t]]]
    BY <1>1 DEF CallOf
  <1>4. op'[t] = op[t] /\ ctx'[t] = ctx[t] => CallOf' = [CallOf EXCEPT ![t].at = Stage(t)']
    <2>1. [CallOf[t] EXCEPT !.at = Stage(t)'] = [at |-> Stage(t)', op |-> op[t], ctx |-> ctx[t]]
      BY <1>2
    <2>2. [CallOf EXCEPT ![t].at = Stage(t)'] =
              [CallOf EXCEPT ![t] = [CallOf[t] EXCEPT !.at = Stage(t)']]
      OBVIOUS
    <2> QED
      BY <1>3, <2>1, <2>2
  <1>5. op'[t] = op[t] /\ ctx'[t] = ctx[t] /\ Stage(t)' = Stage(t) => CallOf' = CallOf
    BY <1>1 DEF CallOf
  <1>6. \A l \in List : l \in Thread /\ l # t
    BY ThreadAssumption, NamesType
  <1>7. Called' = Called
    BY <1>6 DEF Alone, OthersStay, OnlyMoves, Called
  <1> QED
    BY <1>2, <1>3, <1>4, <1>5, <1>7

LEMMA LoopShows ==
    ASSUME TypeOK, NEW l \in List, Alone(l)
    PROVE  /\ CallOf' = CallOf
           /\ Called' = [Called EXCEPT ![l] =
                            IF pc'[l] \in {"handler", "remove"} THEN ctx'[l] ELSE ListHead]
           /\ Called[l] = IF pc[l] \in {"handler", "remove"} THEN ctx[l] ELSE ListHead
  <1>1. \A u \in Client : u \in Thread /\ u # l
    BY ThreadAssumption, NamesType
  <1>2. \A u \in Client : Stage(u)' = Stage(u) /\ op'[u] = op[u] /\ ctx'[u] = ctx[u]
    BY <1>1 DEF Alone, OthersStay, OnlyMoves, Stage
  <1>3. CallOf' = CallOf
    BY <1>2 DEF CallOf
  <1>4. \A k \in List \ {l} : pc'[k] = pc[k] /\ ctx'[k] = ctx[k]
    BY NamesType DEF Alone, OthersStay, OnlyMoves
  <1>5. Called' = [Called EXCEPT ![l] =
                      IF pc'[l] \in {"handler", "remove"} THEN ctx'[l] ELSE ListHead]
    BY <1>4 DEF Called
  <1>6. Called[l] = IF pc[l] \in {"handler", "remove"} THEN ctx[l] ELSE ListHead
    BY DEF Called
  <1> QED
    BY <1>3, <1>5, <1>6

LEMMA RegisteredStays == links' = links => Registered' = Registered
  BY DEF links, Registered, Linked

\* A list links contexts of its kind only, so that a context is on one list.
LEMMA LinkedOnKind ==
    ASSUME SafeInv, WalkInv, NEW l \in List, NEW c \in Ctx, Linked(l, c)
    PROVE  l \in Kind[c]
  <1>1. PICK k \in Nat, pos \in [Node -> Nat] : Ring(nxt[l], prv[l], k, pos)
    BY DEF WalkInv, RingsInv
  <1>2. c \in Node /\ c # ListHead /\ OnRing(nxt[l], c)
    BY CtxAssumption DEF Node, OnRing, Linked
  <1> DEFINE m == prv[l][c]
  <1>3. m \in Node /\ nxt[l][m] = c
    BY <1>1, <1>2 DEF Ring, Numbers, SafeInv, TypeOK
  <1>4. m # c
    BY <1>3 DEF Linked
  <1> HIDE DEF m
  <1> QED
    BY <1>2, <1>3, <1>4 DEF SafeInv, KindInv, NodesOfKind

\* A context is registered exactly when it is on the list of its kind.
LEMMA RegisteredOn ==
    ASSUME OnePollBit, SafeInv, WalkInv, NEW c \in Ctx, NEW l \in List, l \in Kind[c]
    PROVE  c \in Registered <=> Linked(l, c)
  <1>1. \A k \in List : Linked(k, c) => k = l
    BY LinkedOnKind DEF OnePollBit, List
  <1> QED
    BY <1>1 DEF Registered

\* While a client alters a list, no handler of a loop that serves the context runs.
LEMMA AltersUndisturbed ==
    ASSUME OnePollBit, SafeInv, NEW t \in Client, pc[t] \in {"insert", "remove"}
    PROVE  Registry!Undisturbed(ctx[t])
  <1>1. t \in Thread /\ t \notin List
    BY ThreadAssumption, NamesType
  <1>2. /\ walk[t] \in List /\ ctx[t] \in Ctx /\ walk[t] \in Kind[ctx[t]]
        /\ Inside(t, walk[t])
    BY <1>1, AltersInside
  <1> SUFFICES ASSUME NEW k \in List, Called[k] # ListHead, k \in Kind[ctx[t]]
               PROVE  FALSE
    BY DEF Registry!Undisturbed
  <1>3. pc[k] \in {"handler", "remove"} /\ k \in Thread
    BY NamesType DEF Called
  <1>4. k = walk[t]
    BY <1>2 DEF OnePollBit, List
  <1>5. Inside(k, walk[t])
    BY <1>3, <1>4 DEF Inside
  <1> QED
    BY <1>1, <1>2, <1>3, <1>5, OneInside DEF SafeInv

\* The insertion puts the context into the registry, the removal takes it out.
LEMMA InsertRegisters ==
    ASSUME OnePollBit, SafeInv, WalkInv, NEW t \in Client, pc[t] = "insert",
           LinkBefore(walk[t], ctx[t], Ahead(t)),
           Ahead(t) = ListHead \/ Prio[ctx[t]] <= Prio[Ahead(t)],
           NEW l, l = walk[t], NEW c, c = ctx[t], NEW p, p = ptr[t], NEW n, n = Ahead(t)
    PROVE  c \in Ctx /\ c \notin Registered /\ Registered' = Registered \cup {c}
  <1>1. t \in Thread /\ t \notin List
    BY ThreadAssumption, NamesType
  <1>2. l \in List /\ c \in Ctx /\ p \in Node /\ l \in Kind[c] /\ n \in Node /\ n = nxt[l][p]
    BY <1>1, AltersInside, AheadType DEF SafeInv, Ahead
  <1>3. c \notin Registered /\ ~Linked(l, c) /\ (p # ListHead => Prio[p] < Prio[c])
    <2>1. ClientInv(t) /\ First(c) = l
      BY <1>2, OneList DEF WalkInv
    <2> QED
      BY <1>2, <2>1, RegisteredOn DEF ClientInv
  <1>4. PICK k \in Nat, pos \in [Node -> Nat] :
            Ring(nxt[l], prv[l], k, pos) /\ WalkAt(t, l, pos)
    BY <1>1, <1>2 DEF WalkInv, RingsInv
  <1>5. OnRing(nxt[l], p) /\ OnRing(nxt[l], n) /\ prv[l][n] = p
    <2>1. OnRing(nxt[l], p)
      BY <1>4 DEF WalkAt
    <2> QED
      BY <1>2, <1>4, <2>1 DEF Ring, Numbers
  <1>6. \A m \in Node : OnRing(nxt'[l], m) <=> m = c \/ OnRing(nxt[l], m)
    <2>1. ~OnRing(nxt[l], c)
      BY <1>2, <1>3, CtxAssumption DEF OnRing, Linked
    <2>2. nxt[l] \in [Node -> Node] /\ prv[l] \in [Node -> Node]
      BY <1>2 DEF SafeInv, TypeOK
    <2>3. nxt'[l] = NextLinked(nxt[l], prv[l], c, n)
      BY <1>2, LinksAfter DEF SafeInv
    <2> QED
      BY <1>2, <1>5, <2>1, <2>2, <2>3, NodesLinked
  <1>7. \A j \in List \ {l} : nxt'[j] = nxt[j]
    BY <1>2, LinksAfter DEF SafeInv
  <1>8. \A d \in Ctx : Linked(l, d)' <=> d = c \/ Linked(l, d)
    BY <1>6, CtxAssumption DEF OnRing, Linked, Node
  <1>9. \A d \in Ctx, j \in List \ {l} : Linked(j, d)' <=> Linked(j, d)
    BY <1>7 DEF Linked
  <1> QED
    BY <1>2, <1>3, <1>8, <1>9 DEF Registered

LEMMA RemoveRegisters ==
    ASSUME OnePollBit, SafeInv, WalkInv, NEW t \in Thread, pc[t] = "remove",
           Unlink(walk[t], ctx[t]), Ahead(t) = ctx[t],
           NEW l, l = walk[t], NEW c, c = ctx[t]
    PROVE  c \in Registered /\ Registered' = Registered \ {c}
  <1>1. l \in List /\ c \in Ctx /\ ptr[t] \in Node /\ l \in Kind[c]
    BY AltersInside
  <1>2. PICK k \in Nat, pos \in [Node -> Nat] :
            Ring(nxt[l], prv[l], k, pos) /\ WalkAt(t, l, pos)
    BY <1>1 DEF WalkInv, RingsInv
  <1>3. OnRing(nxt[l], c)
    <2>1. OnRing(nxt[l], ptr[t])
      BY <1>2 DEF WalkAt
    <2> QED
      BY <1>1, <1>2, <2>1 DEF Ring, Numbers, Ahead
  <1>4. \A m \in Node : OnRing(nxt'[l], m) <=> m # c /\ OnRing(nxt[l], m)
    <2>1. nxt[l] \in [Node -> Node] /\ prv[l] \in [Node -> Node]
      BY <1>1 DEF SafeInv, TypeOK
    <2>2. \A m \in Node : OnRing(NextUnlinked(nxt[l], prv[l], c), m) <=> m # c /\ OnRing(nxt[l], m)
      BY <1>1, <1>2, <1>3, <2>1, RingUnlinks
    <2>3. nxt'[l] = NextUnlinked(nxt[l], prv[l], c)
      BY <1>1, UnlinksAfter DEF SafeInv
    <2> QED
      BY <2>2, <2>3
  <1>5. \A j \in List \ {l} : nxt'[j] = nxt[j]
    BY <1>1, UnlinksAfter DEF SafeInv
  <1>6. \A d \in Ctx : Linked(l, d)' <=> d # c /\ Linked(l, d)
    BY <1>4, CtxAssumption DEF OnRing, Linked, Node
  <1>7. \A d \in Ctx, j \in List \ {l} : Linked(j, d)' <=> Linked(j, d)
    BY <1>5 DEF Linked
  <1>8. c \in Registered /\ \A j \in List \ {l} : ~Linked(j, c)
    <2>1. Linked(l, c)
      BY <1>1, <1>3, CtxAssumption DEF OnRing, Linked
    <2>2. \A j \in List : Linked(j, c) => j \in Kind[c]
      BY <1>1, LinkedOnKind
    <2> QED
      BY <1>1, <2>1, <2>2 DEF Registered, OnePollBit, List
  <1> QED
    BY <1>1, <1>6, <1>7, <1>8 DEF Registered

\* Each step of the code is a step of the registry or none, one lemma per action.
LEMMA CallShows ==
    ASSUME TypeOK, NEW t \in Client, NEW o, NEW c \in Ctx, Call(t, o, c)
    PROVE  Registry!Call(t, o, c)
  <1>1. Alone(t) /\ links' = links /\ t \in Thread
    BY NamesType DEF Call, StartWalk, Goto, links, Alone, OthersStay, OnlyMoves, TypeOK
  <1>2. Stage(t) = "idle" /\ Stage(t)' = "called" /\ op'[t] = o /\ ctx'[t] = c
    BY <1>1 DEF Call, Goto, Stage, TypeOK
  <1>3. CallOf[t].at = "idle"
    BY <1>1, <1>2, ClientShows
  <1>4. CallOf' = [CallOf EXCEPT ![t] = [at |-> "called", op |-> o, ctx |-> c]]
    BY <1>1, <1>2, ClientShows
  <1>5. Registered' = Registered /\ Called' = Called
    BY <1>1, ClientShows, RegisteredStays
  <1>6. UNCHANGED <<Registered, Called>>
    BY <1>5
  <1> QED
    BY <1>3, <1>4, <1>6 DEF Registry!Call

LEMMA ExistsShows ==
    ASSUME OnePollBit, OneAdder, SafeInv, WalkInv, NEW t \in Client, Exists(t),
           NEW c, c = ctx[t], NEW l, l = walk[t]
    PROVE  \/ Registry!AddUnpolled(t) \/ Registry!Refuse(t) \/ Registry!Absent(t)
           \/ UNCHANGED Registry!vars
  <1>1. /\ t \in Thread /\ t \notin List /\ pc[t] = "exists" /\ c \in Ctx
        /\ l \in List /\ First(c) = l /\ ptr[t] \in Node /\ ptr[t] # c
        /\ op[t] \in {"add", "del"} /\ Stage(t) = "called"
        /\ op[t] = "add" => <<t, "add", c>> \in Calls
    BY ThreadAssumption, NamesType
       DEF Exists, SafeInv, KindInv, ClientsAtKind, TypeOK, WalkInv, ClientInv, Stage
  <1>2. ctx' = ctx /\ op' = op /\ links' = links /\ tmp' = tmp
    BY DEF Exists
  <1>3. CASE StepOn(t) /\ UNCHANGED held
    <2>1. Alone(t) /\ Stage(t)' = Stage(t)
      BY <1>1, <1>2, <1>3 DEF StepOn, Alone, OthersStay, OnlyMoves, Stage, SafeInv, TypeOK
    <2> QED
      BY <1>2, <2>1, ClientShows, RegisteredStays DEF Registry!vars, SafeInv
  <1>4. ASSUME NEW found \in BOOLEAN, ExistsReturns(t, c, found)
        PROVE  /\ Alone(t) /\ Called' = Called /\ Registered' = Registered
               /\ CallOf' = [CallOf EXCEPT ![t].at = Stage(t)']
               /\ CallOf[t].at = "called" /\ CallOf[t].op = op[t] /\ CallOf[t].ctx = c
               /\ Stage(t)' = Stage(t) => CallOf' = CallOf
               /\ op[t] = "add" /\ found => Stage(t)' = "refused"
               /\ op[t] = "add" /\ ~found =>
                     Stage(t)' = IF Lists(c) = {} THEN "added" ELSE "called"
               /\ op[t] = "del" /\ found => Stage(t)' = "called"
               /\ op[t] = "del" /\ ~found => Stage(t)' = "absent"
    <2>1. Alone(t)
      BY <1>1, <1>2, <1>4
         DEF ExistsReturns, EndWalk, StartWalk, Goto, Alone, OthersStay, OnlyMoves, SafeInv, TypeOK
    <2>2. pc'[t] = CASE op[t] = "add" /\ found -> "refused"
                     [] op[t] = "add" /\ ~found -> IF Lists(c) = {} THEN "added" ELSE "lock"
                     [] op[t] = "del" /\ found -> "lock"
                     [] OTHER -> "absent"
      BY <1>1, <1>4 DEF ExistsReturns, EndWalk, Goto, SafeInv, TypeOK
    <2>3. /\ op[t] = "add" /\ found => Stage(t)' = "refused"
          /\ op[t] = "add" /\ ~found => Stage(t)' = IF Lists(c) = {} THEN "added" ELSE "called"
          /\ op[t] = "del" /\ found => Stage(t)' = "called"
          /\ op[t] = "del" /\ ~found => Stage(t)' = "absent"
      BY <2>2 DEF Stage
    <2> QED
      BY <1>1, <1>2, <2>1, <2>3, ClientShows, RegisteredStays DEF SafeInv
  <1>5. CASE Lists(c) = {} /\ ExistsReturns(t, c, FALSE)
    <2>1. c \notin Registered
      BY <1>1, <1>5, LinkedOnKind DEF Registered, Lists
    <2>2. \A k \in List : k \notin Kind[c]
      BY <1>5 DEF Lists
    <2>3. c \notin Registry!Polled
      BY <2>2 DEF Registry!Polled
    <2>4. CASE op[t] = "add"
      <3>1. Stage(t)' = "added"
        BY <1>4, <1>5, <2>4
      <3> QED
        BY <1>4, <1>5, <2>3, <2>4, <3>1
           DEF Registry!AddUnpolled, Registry!Waits, Registry!Answer
    <2>5. CASE op[t] = "del"
      <3>1. Stage(t)' = "absent"
        BY <1>4, <1>5, <2>5
      <3> QED
        BY <1>4, <1>5, <2>1, <2>5, <3>1 DEF Registry!Absent, Registry!Waits, Registry!Answer
    <2> QED
      BY <1>1, <2>4, <2>5
  <1>6. CASE Lists(c) # {} /\ Ahead(t) = c /\ ExistsReturns(t, c, TRUE)
    <2>1. c \in Registered
      <3>1. PICK k \in Nat, pos \in [Node -> Nat] : Ring(nxt[l], prv[l], k, pos)
        BY <1>1 DEF WalkInv, RingsInv
      <3>2. nxt[l][ptr[t]] = c
        BY <1>6 DEF Ahead
      <3>3. OnRing(nxt[l], ptr[t])
        BY <1>1, <3>2 DEF OnRing
      <3>4. OnRing(nxt[l], c)
        BY <1>1, <3>1, <3>2, <3>3 DEF Ring, Numbers
      <3> QED
        BY <1>1, <3>4, CtxAssumption DEF Registered, OnRing, Linked
    <2>2. CASE op[t] = "add"
      <3>1. Stage(t)' = "refused"
        BY <1>4, <1>6, <2>2
      <3> QED
        BY <1>4, <1>6, <2>1, <2>2, <3>1 DEF Registry!Refuse, Registry!Waits, Registry!Answer
    <2>3. CASE op[t] = "del"
      <3>1. Stage(t)' = "called"
        BY <1>4, <1>6, <2>3
      <3>2. CallOf' = CallOf
        BY <1>1, <1>4, <1>6, <3>1
      <3> QED
        BY <1>4, <1>6, <3>2 DEF Registry!vars
    <2> QED
      BY <1>1, <2>2, <2>3
  <1>7. CASE Lists(c) # {} /\ Ahead(t) = ListHead /\ ExistsReturns(t, c, FALSE)
    <2>1. CASE op[t] = "add"
      <3>1. Stage(t)' = "called"
        BY <1>4, <1>7, <2>1
      <3>2. CallOf' = CallOf
        BY <1>1, <1>4, <1>7, <3>1
      <3> QED
        BY <1>4, <1>7, <3>2 DEF Registry!vars
    <2>2. CASE op[t] = "del"
      <3>1. Stage(t)' = "absent"
        BY <1>4, <1>7, <2>2
      <3>2. c \notin Registered \/ \E u \in Client \ {t} : <<u, "add", c>> \in Calls
        <4> SUFFICES ASSUME Sure(t) PROVE c \notin Registered
          BY <1>1 DEF Sure
        <4>1. ~Linked(l, c)
          BY <1>7, SureAtEnd
        <4>2. l \in Kind[c]
          BY <1>1, <1>7 DEF Lists, First, List
        <4> QED
          BY <1>1, <4>1, <4>2, RegisteredOn
      <3> QED
        BY <1>4, <1>7, <2>2, <3>1, <3>2 DEF Registry!Absent, Registry!Waits, Registry!Answer
    <2> QED
      BY <1>1, <2>1, <2>2
  <1>8. ~(Lists(c) # {} /\ Second(l, c))
    BY <1>1 DEF OnePollBit, Second, First
  <1> QED
    BY <1>3, <1>5, <1>6, <1>7, <1>8 DEF Exists

LEMMA InsertShows ==
    ASSUME OnePollBit, SafeInv, WalkInv, NEW t \in Client, Insert(t)
    PROVE  Registry!Add(t) \/ UNCHANGED Registry!vars
  <1>1. /\ t \in Thread /\ t \notin List /\ pc[t] = "insert" /\ op[t] = "add"
        /\ ctx' = ctx /\ op' = op /\ tmp' = tmp /\ held' = held /\ Stage(t) = "called"
    BY ThreadAssumption, NamesType DEF Insert, WalkInv, ClientInv, Stage
  <1>2. walk[t] \in List /\ ctx[t] \in Ctx /\ walk[t] \in Kind[ctx[t]]
    BY <1>1, AltersInside
  <1>3. CASE StepOn(t) /\ UNCHANGED links
    <2>1. Alone(t) /\ Stage(t)' = Stage(t)
      BY <1>1, <1>3 DEF StepOn, Alone, OthersStay, OnlyMoves, Stage, SafeInv, TypeOK
    <2> QED
      BY <1>1, <1>3, <2>1, ClientShows, RegisteredStays DEF Registry!vars, SafeInv
  <1>4. CASE /\ LinkBefore(walk[t], ctx[t], Ahead(t)) /\ EndWalk(t, "unlock")
             /\ Ahead(t) = ListHead \/ Prio[ctx[t]] <= Prio[Ahead(t)]
    <2>1. Alone(t) /\ pc'[t] = "unlock"
      BY <1>1, <1>4
         DEF EndWalk, StartWalk, Goto, Alone, OthersStay, OnlyMoves, SafeInv, TypeOK
    <2>2. Stage(t)' = "added"
      BY <1>1, <2>1 DEF Stage
    <2>3. /\ ctx[t] \notin Registered
          /\ Registered' = Registered \cup {ctx[t]}
      BY <1>1, <1>4, InsertRegisters
    <2>4. /\ CallOf[t].at = "called" /\ CallOf[t].op = "add" /\ CallOf[t].ctx = ctx[t]
          /\ CallOf' = [CallOf EXCEPT ![t].at = "added"] /\ Called' = Called
      BY <1>1, <2>1, <2>2, ClientShows DEF SafeInv
    <2>5. ctx[t] \in Registry!Polled
      BY <1>2 DEF Registry!Polled
    <2>6. Registry!Undisturbed(ctx[t])
      BY <1>1, AltersUndisturbed
    <2>7. Registry!Add(t)
      BY <2>3, <2>4, <2>5, <2>6 DEF Registry!Add, Registry!Waits, Registry!Answer
    <2> QED
      BY <2>7
  <1>5. ~Second(walk[t], ctx[t])
    BY <1>2, OneList
  <1> QED
    BY <1>3, <1>4, <1>5 DEF Insert, NextList

LEMMA ClientRemoveShows ==
    ASSUME OnePollBit, SafeInv, WalkInv, NEW t \in Client, Remove(t)
    PROVE  Registry!Delete(t) \/ UNCHANGED Registry!vars
  <1>1. /\ t \in Thread /\ t \notin List /\ pc[t] = "remove" /\ op[t] = "del"
        /\ ctx' = ctx /\ op' = op /\ tmp' = tmp /\ held' = held /\ Stage(t) = "called"
    BY ThreadAssumption, NamesType DEF Remove, WalkInv, ClientInv, Stage
  <1>2. walk[t] \in List /\ ctx[t] \in Ctx /\ walk[t] \in Kind[ctx[t]] /\ ptr[t] \in Node
    BY <1>1, AltersInside
  <1>3. CASE StepOn(t) /\ UNCHANGED links
    <2>1. Alone(t) /\ Stage(t)' = Stage(t)
      BY <1>1, <1>3 DEF StepOn, Alone, OthersStay, OnlyMoves, Stage, SafeInv, TypeOK
    <2> QED
      BY <1>1, <1>3, <2>1, ClientShows, RegisteredStays DEF Registry!vars, SafeInv
  <1>4. ASSUME EndWalk(t, "unlock"), Registered' = Registered \ {ctx[t]}
        PROVE  Registry!Delete(t)
    <2>1. Alone(t) /\ pc'[t] = "unlock"
      BY <1>1, <1>4
         DEF EndWalk, StartWalk, Goto, Alone, OthersStay, OnlyMoves, SafeInv, TypeOK
    <2>2. Stage(t)' = "deleted"
      BY <1>1, <2>1 DEF Stage
    <2>3. /\ CallOf[t].at = "called" /\ CallOf[t].op = "del" /\ CallOf[t].ctx = ctx[t]
          /\ CallOf' = [CallOf EXCEPT ![t].at = "deleted"] /\ Called' = Called
      BY <1>1, <2>1, <2>2, ClientShows DEF SafeInv
    <2>4. Registry!Undisturbed(ctx[t])
      BY <1>1, AltersUndisturbed
    <2> QED
      BY <1>4, <2>3, <2>4 DEF Registry!Delete, Registry!Waits, Registry!Answer
  <1>5. CASE Ahead(t) = ctx[t] /\ Unlink(walk[t], ctx[t]) /\ EndWalk(t, "unlock")
    <2>1. Registered' = Registered \ {ctx[t]}
      BY <1>1, <1>5, RemoveRegisters
    <2> QED
      BY <1>4, <1>5, <2>1
  <1>6. CASE Ahead(t) = ListHead /\ EndWalk(t, "unlock") /\ UNCHANGED links
    <2>1. ~Linked(walk[t], ctx[t])
      BY <1>1, <1>6, RemoveAtEnd
    <2>2. ctx[t] \notin Registered
      BY <1>2, <2>1, RegisteredOn
    <2>3. Registered' = Registered
      BY <1>6, RegisteredStays
    <2> QED
      BY <1>4, <1>6, <2>2, <2>3
  <1>7. ~Second(walk[t], ctx[t])
    BY <1>2, OneList
  <1> QED
    BY <1>1, <1>3, <1>5, <1>6, <1>7 DEF Remove, NextList

LEMMA LoopRemoveShows ==
    ASSUME OnePollBit, SafeInv, WalkInv, NEW l \in List, Remove(l)
    PROVE  Registry!HandlerEnds(l) \/ UNCHANGED Registry!vars
  <1>1. /\ l \in Thread /\ l \notin Client /\ pc[l] = "remove"
        /\ ctx' = ctx /\ op' = op /\ tmp' = tmp /\ held' = held
    BY ThreadAssumption, NamesType DEF Remove
  <1>2. walk[l] \in List /\ ctx[l] \in Ctx /\ walk[l] \in Kind[ctx[l]] /\ ctx[l] # ListHead
    BY <1>1, AltersInside, CtxAssumption
  <1>3. CASE StepOn(l) /\ UNCHANGED links
    <2>1. Alone(l) /\ pc'[l] = pc[l]
      BY <1>1, <1>3 DEF StepOn, Alone, OthersStay, OnlyMoves, SafeInv, TypeOK
    <2>2. CallOf' = CallOf /\ Called' = [Called EXCEPT ![l] = Called[l]]
      BY <1>1, <2>1, LoopShows DEF SafeInv
    <2>3. Called' = Called
      BY <2>2 DEF Called
    <2> QED
      BY <1>3, <2>2, <2>3, RegisteredStays DEF Registry!vars
  <1>4. ASSUME EndWalk(l, "reset"), Registered' \in {Registered, Registered \ {ctx[l]}}
        PROVE  Registry!HandlerEnds(l)
    <2>1. Alone(l) /\ pc'[l] = "reset"
      BY <1>1, <1>4
         DEF EndWalk, StartWalk, Goto, Alone, OthersStay, OnlyMoves, SafeInv, TypeOK
    <2>2. Called[l] = ctx[l] /\ CallOf' = CallOf /\ Called' = [Called EXCEPT ![l] = ListHead]
      BY <1>1, <2>1, LoopShows DEF SafeInv
    <2> QED
      BY <1>2, <1>4, <2>2 DEF Registry!HandlerEnds
  <1>5. CASE Ahead(l) = ctx[l] /\ Unlink(walk[l], ctx[l]) /\ EndWalk(l, "reset")
    <2>1. Registered' = Registered \ {ctx[l]}
      BY <1>1, <1>5, RemoveRegisters
    <2> QED
      BY <1>4, <1>5, <2>1
  <1>6. CASE EndWalk(l, "reset") /\ UNCHANGED links
    BY <1>4, <1>6, RegisteredStays
  <1>7. ~Second(walk[l], ctx[l])
    BY <1>2, OneList
  <1> QED
    BY <1>3, <1>5, <1>6, <1>7 DEF Remove, NextList

LEMMA ClientStepShows ==
    ASSUME OnePollBit, OneAdder, SafeInv, WalkInv, NEW t \in Client, ClientStep(t) \/ Lock(t)
    PROVE  \/ Registry!Add(t) \/ Registry!AddUnpolled(t) \/ Registry!Refuse(t)
           \/ Registry!Delete(t) \/ Registry!Absent(t) \/ Registry!Return(t)
           \/ UNCHANGED Registry!vars
  <1>1. t \in Thread /\ t \notin List
    BY ThreadAssumption, NamesType
  <1>2. CASE Lock(t)
    <2>1. /\ pc[t] = "lock" /\ ctx' = ctx /\ held' = held /\ tmp' = tmp /\ links' = links
          /\ op' = op /\ op[t] \in {"add", "del"}
      BY <1>1, <1>2 DEF Lock, SafeInv, TypeOK
    <2>2. /\ Alone(t)
          /\ pc'[t] = IF op[t] = "add" THEN "insert" ELSE "remove"
      BY <1>1, <1>2, <2>1, NamesType
         DEF Lock, StartWalk, Goto, Alone, OthersStay, OnlyMoves, SafeInv, TypeOK
    <2>3. Stage(t)' = Stage(t)
      BY <2>1, <2>2 DEF Stage
    <2> QED
      BY <2>1, <2>2, <2>3, ClientShows, RegisteredStays DEF Registry!vars, SafeInv
  <1>3. CASE Unlock(t)
    <2>1. /\ pc[t] = "unlock" /\ ctx' = ctx /\ tmp' = tmp /\ links' = links /\ op' = op
          /\ ctx[t] \in Ctx /\ held[t] \in Kind[ctx[t]] /\ held[t] \in List
      BY <1>1, <1>3 DEF Unlock, SafeInv, KindInv, ClientsAtKind, TypeOK
    <2>2. ~Second(held[t], ctx[t])
      BY <2>1, OneList
    <2>3. /\ Alone(t)
          /\ pc'[t] = IF op[t] = "add" THEN "added" ELSE "deleted"
      BY <1>1, <1>3, <2>1, <2>2
         DEF Unlock, Goto, Alone, OthersStay, OnlyMoves, SafeInv, TypeOK
    <2>4. Stage(t)' = Stage(t)
      BY <2>1, <2>3 DEF Stage
    <2> QED
      BY <2>1, <2>3, <2>4, ClientShows, RegisteredStays DEF Registry!vars, SafeInv
  <1>4. CASE Return(t)
    <2>1. /\ Alone(t) /\ links' = links
          /\ pc'[t] = "idle" /\ op'[t] = "add" /\ ctx'[t] = ListHead
      BY <1>1, <1>4 DEF Return, Goto, links, Alone, OthersStay, OnlyMoves, SafeInv, TypeOK
    <2>2. Stage(t) \notin {"idle", "called"} /\ Stage(t)' = "idle"
      BY <1>4, <2>1 DEF Return, Stage
    <2>3. CallOf' = [CallOf EXCEPT ![t] = [at |-> "idle", op |-> "add", ctx |-> ListHead]]
      BY <2>1, <2>2, ClientShows DEF SafeInv
    <2>4. CallOf[t].at \notin {"idle", "called"} /\ Registered' = Registered /\ Called' = Called
      BY <2>1, <2>2, ClientShows, RegisteredStays DEF SafeInv
    <2>5. Registry!Return(t)
      BY <2>3, <2>4 DEF Registry!Return, Registry!NoCall
    <2> QED
      BY <2>5
  <1> QED
    BY <1>2, <1>3, <1>4, ExistsShows, InsertShows, ClientRemoveShows DEF ClientStep

LEMMA LoopStepShows ==
    ASSUME OnePollBit, SafeInv, WalkInv, NEW l \in List, LoopStep(l) \/ LockStep(l)
    PROVE  Registry!CallHandler(l) \/ Registry!HandlerEnds(l) \/ UNCHANGED Registry!vars
  <1>1. l \in Thread /\ l \notin Client /\ LoopInv(l)
    BY ThreadAssumption, NamesType DEF WalkInv
  <1>2. CASE CheckHalt(l) \/ LockScan(l) \/ Scan(l) \/ UnlockScan(l) \/ SelectFails(l)
             \/ SelectReturns(l) \/ UnlockDispatch(l) \/ LockDispatch(l) \/ Reset(l)
             \/ (Dispatch(l) /\ Advance(l))
    <2>1. links' = links
      BY <1>2 DEF CheckHalt, LockScan, Scan, UnlockScan, SelectFails, SelectReturns,
                  UnlockDispatch, LockDispatch, Reset, Dispatch
    <2>2. pc[l] \notin {"handler", "remove"} /\ pc'[l] \notin {"handler", "remove"}
      BY <1>1, <1>2
         DEF CheckHalt, LockScan, Scan, UnlockScan, SelectFails, SelectReturns, Advance,
             UnlockDispatch, LockDispatch, Reset, Dispatch, EndWalk, StepOn, Goto, SafeInv, TypeOK
    <2>3. Alone(l)
      BY <1>1, <1>2
         DEF CheckHalt, LockScan, Scan, UnlockScan, SelectFails, SelectReturns, Advance, MoveTo,
             UnlockDispatch, LockDispatch, Reset, Dispatch, EndWalk, StepOn, StartWalk, Goto,
             Alone, OthersStay, OnlyMoves, SafeInv, TypeOK
    <2>4. CallOf' = CallOf /\ Called' = [Called EXCEPT ![l] = Called[l]]
      BY <2>2, <2>3, LoopShows DEF SafeInv
    <2>5. Called' = Called
      BY <2>4 DEF Called
    <2> QED
      BY <2>1, <2>4, <2>5, RegisteredStays DEF Registry!vars
  <1>3. CASE Dispatch(l) /\ Goto(l, "handler") /\ UNCHANGED <<ctx, tmp>>
    <2>1. links' = links /\ pc[l] = "dispatch" /\ ctx[l] # ListHead
      BY <1>3 DEF Dispatch
    <2>2. Alone(l) /\ pc'[l] = "handler" /\ ctx'[l] = ctx[l]
      BY <1>1, <1>3 DEF Dispatch, Goto, Alone, OthersStay, OnlyMoves, SafeInv, TypeOK
    <2>3. /\ Called[l] = ListHead /\ CallOf' = CallOf
          /\ Called' = [Called EXCEPT ![l] = ctx[l]]
      BY <2>1, <2>2, LoopShows DEF SafeInv
    <2>4. ctx[l] \in Ctx /\ l \in Kind[ctx[l]] /\ Linked(l, ctx[l])
      BY <1>1, <2>1 DEF SafeInv, TypeOK, KindInv, LoopsAtKind, Node, LoopInv, OnRing, Linked
    <2>5. ctx[l] \in Registered \cap {c \in Ctx : l \in Kind[c]}
      BY <2>4 DEF Registered
    <2>6. Registered' = Registered
      BY <2>1, RegisteredStays
    <2>7. Registry!CallHandler(l)
      BY <2>3, <2>5, <2>6 DEF Registry!CallHandler
    <2> QED
      BY <2>7
  <1>4. CASE HandlerReturns(l)
    <2>1. /\ links' = links /\ pc[l] = "handler" /\ ctx[l] # ListHead
          /\ pc'[l] \in {"reset", "remove"} /\ ctx'[l] = ctx[l]
      BY <1>1, <1>4 DEF HandlerReturns, Goto, SafeInv, TypeOK, KindInv, LoopsAtKind
    <2>2. Alone(l)
      BY <1>1, <1>4
         DEF HandlerReturns, StartWalk, Goto, Alone, OthersStay, OnlyMoves, SafeInv, TypeOK
    <2>3. /\ Called[l] = ctx[l] /\ CallOf' = CallOf /\ Registered' = Registered
          /\ pc'[l] = "reset" => Called' = [Called EXCEPT ![l] = ListHead]
          /\ pc'[l] = "remove" => Called' = [Called EXCEPT ![l] = Called[l]]
      BY <2>1, <2>2, LoopShows, RegisteredStays DEF SafeInv
    <2>4. CASE pc'[l] = "reset"
      BY <2>1, <2>3, <2>4 DEF Registry!HandlerEnds
    <2>5. CASE pc'[l] = "remove"
      <3>1. Called' = Called
        BY <2>3, <2>5 DEF Called
      <3> QED
        BY <2>3, <3>1 DEF Registry!vars
    <2> QED
      BY <2>1, <2>4, <2>5
  <1>5. CASE Remove(l)
    BY <1>5, LoopRemoveShows
  <1> QED
    BY <1>2, <1>3, <1>4, <1>5 DEF LoopStep, LockStep, Dispatch

\* The registry of platform/source.c and the loops of platform/core.c, of two lists,
\* two mutexes and unlocked walks, behave as one registry in which every add and
\* every del takes effect at one instant: a context that is refused is registered
\* when it is, one that is added is not and no handler of its loop runs, `absent' is
\* right unless another thread may add the context; handlers are called of
\* registered contexts only.
THEOREM RegistryIsAtomic ==
    ASSUME OnePollBit, OneAdder
    PROVE  Spec => RegistrySpec
  <1>1. Init => Registry!Init
    <2> SUFFICES ASSUME Init PROVE Registry!Init
      OBVIOUS
    <2>1. \A l \in List, c \in Ctx : ~Linked(l, c)
      BY DEF Init, Linked, Node
    <2>2. Registered = {}
      BY <2>1 DEF Registered
    <2>3. \A t \in Client : Stage(t) = "idle" /\ op[t] = "add" /\ ctx[t] = ListHead
      BY ThreadAssumption, NamesType DEF Init, Stage
    <2>4. CallOf = [t \in Client |-> [at |-> "idle", op |-> "add", ctx |-> ListHead]]
      BY <2>3 DEF CallOf
    <2>5. Called = [l \in List |-> ListHead]
      BY NamesType DEF Init, Called
    <2> QED
      BY <2>2, <2>4, <2>5 DEF Registry!Init, Registry!NoCall
  <1>2. ASSUME SafeInv, WalkInv, [Next]_vars
        PROVE  [Registry!Next]_(Registry!vars)
    <2>1. ASSUME NEW k \in Calls, Call(k[1], k[2], k[3]) PROVE Registry!Next
      <3>1. k[1] \in Client /\ k[3] \in Ctx
        BY ThreadAssumption
      <3>2. Registry!Call(k[1], k[2], k[3])
        BY <1>2, <2>1, <3>1, CallShows DEF SafeInv
      <3> QED
        BY <3>2 DEF Registry!Next
    <2>2. ASSUME NEW t \in Client, ClientStep(t) \/ Lock(t)
          PROVE  Registry!Next \/ UNCHANGED Registry!vars
      BY <1>2, <2>2, ClientStepShows DEF Registry!Next
    <2>3. ASSUME NEW l \in List, LoopStep(l) \/ LockStep(l)
          PROVE  Registry!Next \/ UNCHANGED Registry!vars
      BY <1>2, <2>3, LoopStepShows DEF Registry!Next
    <2>4. ASSUME UNCHANGED <<nxt, prv, pc, op, ctx>> PROVE UNCHANGED Registry!vars
      <3>1. Registered' = Registered
        BY <2>4 DEF Registered, Linked
      <3>2. CallOf' = CallOf
        BY <2>4 DEF CallOf, Stage
      <3>3. Called' = Called
        BY <2>4 DEF Called
      <3> QED
        BY <3>1, <3>2, <3>3 DEF Registry!vars
    <2>5. CASE SetHalt
      BY <2>4, <2>5 DEF SetHalt, links
    <2>6. CASE UNCHANGED vars
      BY <2>4, <2>6 DEF vars
    <2> QED
      BY <1>2, <2>1, <2>2, <2>3, <2>5, <2>6 DEF Next
  <1> QED
    BY <1>1, <1>2, ListsInv, PTL DEF Spec, RegistrySpec, Registry!Spec
=============================================================================
