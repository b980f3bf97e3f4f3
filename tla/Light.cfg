SPECIFICATION FairSpec
CONSTANTS
    MaxSteps = 2
    MaxDrift = 0
    Fades <- Some
INVARIANT TypeOK
INVARIANT StepIsFilled
INVARIANT PeriodIsDelay
INVARIANT NothingForgotten
PROPERTY FlashEnds
PROPERTY TransitionEnds
