SPECIFICATION Spec
CONSTANTS
    c1 = c1
    c2 = c2
    c3 = c3
    c4 = c4
    main = main
    udp = udp
    fd1 = fd1
    fd2 = fd2
    ListHead = ListHead
    NoOwner = NoOwner
    FdNum = {fd1, fd2}
    Client = {main, udp}
    Main = main
    Ctx = {c1, c2, c3, c4}
    Paced = {c2, c3, c4}
    Kind <- MixedKind
    Prio <- MixedPrio
    Fd <- MixedFd
    Calls <- MixedCalls
INVARIANT TypeOK
INVARIANT ListsAreSortedRings
INVARIANT AddInsertsFresh
INVARIANT DispatchFollowsList
PROPERTY ListsAlteredUnderLock
PROPERTY RegistrySpec
