SPECIFICATION FairSpec
CONSTANTS
    low = low
    high = high
    Size = 3
    Beep = {low}
    Empty = Empty
    Partial = Partial
    SweepLengths <- Lengths
    Main = Main
    Udp = Udp
    ListHead = ListHead
    NoOwner = NoOwner
    Src = Src
    DeviceFd = DeviceFd
INVARIANT TakenByRegisteredSource
PROPERTY WrittenIfSeen
