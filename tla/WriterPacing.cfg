SPECIFICATION Spec
CONSTANTS
    Ctx <- MCCtx
    Fd <- OwnFd
    Timed <- ThirdTimed
    Periods <- MCPeriods
    MaxWait = 2
    Late = 1
    HandlerTime = 1
    Prompt <- MCPrompt
    MaxFailures = 1
    MaxElapsed = 6
INVARIANT TypeOK
INVARIANT RefusesNegatives
INVARIANT PeriodPasses
INVARIANT CalledInTime
