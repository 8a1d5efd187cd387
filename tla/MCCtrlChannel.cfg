SPECIFICATION FairSpec
CONSTANTS
    Links <- TwoLinks
    MAX_RETX_ATTEMPT = 1
    FirstCsn = 65534
    Scenarios <- MCScenarios
CHECK_DEADLOCK FALSE
INVARIANT TypeOK
INVARIANT StoppedMeasurementAwaitsTsa
INVARIANT AnsweredTsuIsAdopted
PROPERTY EveryMessageSettles
