SPECIFICATION FairSpec
CONSTANTS
    c1 = c1
    c2 = c2
    c3 = c3
    c4 = c4
    main = main
    udp = udp
    fd1 = fd1
    fd2 = fd2
    ListHead = ListHead
    NoOwner = NoOwner
    FdNum = {fd1, fd2}
    Client = {main, udp}
    Main = main
    Ctx = {c1, c2}
    Paced = {c2}
    Kind <- OneOfEach
    Prio <- SamePrio
    Fd <- OwnFds
    Calls <- OneOfEachCalls
PROPERTY CallsReturn
PROPERTY LoopsEnd
INVARIANT LocksMatchThreads
INVARIANT LockedCallTakesEffect
