SPECIFICATION Spec
CONSTANTS
    l1 = l1
    l2 = l2
    l3 = l3
    Listener <- MCListener
    MaxSamples = 3
    MaxCount = 4
    FrameSize = 4
    MaxShort = 4
INVARIANTS TypeOK SentToEveryListener SamplesInBuffer CalibrationMeasures ShortReadSpoilsOneFrame
