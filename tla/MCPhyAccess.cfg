SPECIFICATION FairSpec
CONSTANTS
    Aps = {1, 2, 3}
    FirstAp = 1
    Powers <- ThreePowers
    RoamingLowRssi <- LowRssi
    SingleRadioValues <- Either
    EmulateDelayValues <- Either
    Csns = {0, 1, 2, 3}
    MaxReports = 1
    MaxInFlight = 2
INVARIANT TypeOK
INVARIANT PendingTestTimesOut
PROPERTY SingleRadioStaysOnGoodAp
PROPERTY ClientSettles
PROPERTY ServerFollowsClient
