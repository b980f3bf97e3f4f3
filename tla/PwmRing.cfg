SPECIFICATION Spec
CONSTANTS
    low = low
    high = high
    Empty = Empty
    Partial = Partial
    Size = 4
    Beep = {low, high}
    SweepLengths <- Lengths
INVARIANT TypeOK
INVARIANT RingHoldsLatest
INVARIANT ReadsOldestBeep
PROPERTY QueueSpec
